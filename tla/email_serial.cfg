SPECIFICATION Spec
CONSTANTS
  a = a
  b = b
  aInbox = aInbox
  aTrash = aTrash
  aUser = aUser
  bTrash = bTrash
  NoEmail = NoEmail
  Fresh = Fresh
  Purged = Purged
  Mailbox <- TwoMailboxes
  Folder <- TwoFolders
  FolderName <- TwoName
  FolderMailbox <- TwoOwner
  Email = {e1, e2, e3}
  Worker = {w1}
  BodyLengths = {20, 150}
  MaxRequests = 6
SYMMETRY Symmetry
INVARIANTS
  FolderCountsExact
  UsageExactEverywhere
PROPERTIES
  PurgedOnlyFromTrashNames
  TrashSticks
  ReadSticks
