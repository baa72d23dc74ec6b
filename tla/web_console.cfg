SPECIFICATION ConsoleSpec
CONSTANTS
  HashOf <- MCHashOf
  SeededRows <- MCSeededRows
  LedgerPage = 2
  MaxRows = 3
  Packets <- MCPackets
  SpamPackets <- MCSpamPackets
  Conditions <- MCConditions
  SeededRules <- MCSeededRules
  SeededChannel <- MCSeededChannel
  MaxPackets = 1
INVARIANTS
  VerdictStands
  RedRowsMismatch
  PlacedByLastRule
