SPECIFICATION Spec
CONSTANTS
  a = a
  b = b
  aInbox = aInbox
  aTrash = aTrash
  aUser = aUser
  bTrash = bTrash
  NoEmail = NoEmail
  Fresh = Fresh
  Purged = Purged
  Mailbox <- OneMailbox
  Folder <- UserTrashFolders
  FolderName <- UserTrashName
  FolderMailbox <- UserTrashOwner
  Email = {e1, e2}
  Worker = {w1, w2}
  BodyLengths = {20}
  MaxRequests = 6
SYMMETRY Symmetry
INVARIANTS
  TypeOK
  CountsExactUnlessRaced
  UsageExactUnlessRaced
PROPERTIES
  PurgedIsFinal
