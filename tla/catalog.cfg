SPECIFICATION Spec
CONSTANTS
  Mailbox = {m1, m2, m3}
  Address = {a1, a2, a3}
  UserName = {"Work"}
  Worker = {w1, w2, w3}
  None = None
SYMMETRY Symmetry
INVARIANTS
  AddressUnique
  SystemFoldersUnique
