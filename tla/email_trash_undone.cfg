SPECIFICATION Spec
CONSTANTS
  a = a
  b = b
  aInbox = aInbox
  aTrash = aTrash
  aUser = aUser
  bTrash = bTrash
  NoEmail = NoEmail
  Fresh = Fresh
  Purged = Purged
  Mailbox <- OneMailbox
  Folder <- OneFolders
  FolderName <- OneName
  FolderMailbox <- OneOwner
  Email = {e1}
  Worker = {w1, w2}
  BodyLengths = {20}
  MaxRequests = 4
PROPERTIES
  TrashSticks
