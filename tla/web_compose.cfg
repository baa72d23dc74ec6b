SPECIFICATION ComposerSpec
CONSTANTS
  HashOf <- MCHashOf
  SeededRows <- MCSeededRows
  LedgerPage = 10
  MaxRows = 2
  MaxCompositions = 3
  MaxFiles = 2
  MaxExitClicks = 2
INVARIANTS
  FileSentOnceUnlessLate
  NothingLeftBehind
  RepliesCarryTheirOwn
