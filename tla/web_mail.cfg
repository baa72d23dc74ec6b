SPECIFICATION Spec
CONSTANTS
  MailIds <- MCMailIds
  DraftIds <- MCDraftIds
  SchedIds <- MCSchedIds
  SeededEmails <- MCSeededEmails
  SeededDrafts = {}
  SeededScheduled <- MCSchedIds
  Categories <- MCCategories
  CategoryOf <- MCCategoryOf
  ThreadOf <- MCThreadOf
  Hits <- MCHits
  NoEmail = NoEmail
  MaxExitClicks = 2
INVARIANTS
  SelectedIsLiveUnlessLate
  SelectionStaysUnlessLate
PROPERTIES
  PurgedFromTrashUnlessLate
  ListSettles
