---------------------------- MODULE MCEmailStore ----------------------------
(* Small instances of EmailStore: two mailboxes a and b at most, folders   *)
(* named after their owner.                                                *)
EXTENDS EmailStore, TLC

CONSTANTS a, b, aInbox, aTrash, aUser, bTrash

(* Mailbox a alone: its Inbox and its system Trash.                        *)
OneMailbox == {a}
OneFolders == {aInbox, aTrash}
OneName == aInbox :> "Inbox" @@ aTrash :> "Trash"
OneOwner == aInbox :> a @@ aTrash :> a

(* Mailbox a with a user folder spelt TRASH, which createFolder accepts.   *)
UserTrashFolders == {aInbox, aTrash, aUser}
UserTrashName == OneName @@ aUser :> "TRASH"
UserTrashOwner == OneOwner @@ aUser :> a

(* A second mailbox: messages of b can be stored in the folders of a.      *)
TwoMailboxes == {a, b}
TwoFolders == UserTrashFolders \cup {bTrash}
TwoName == UserTrashName @@ bTrash :> "Trash"
TwoOwner == UserTrashOwner @@ bTrash :> b

Symmetry == Permutations(Email) \cup Permutations(Worker)
=============================================================================
