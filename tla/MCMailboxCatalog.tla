-------------------------- MODULE MCMailboxCatalog --------------------------
(* Small instances of MailboxCatalog.                                      *)
EXTENDS MailboxCatalog, TLC

Symmetry == Permutations(Mailbox) \cup Permutations(Worker)
              \cup Permutations(Address)
=============================================================================
