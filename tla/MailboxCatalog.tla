--------------------------- MODULE MailboxCatalog ---------------------------
(***************************************************************************)
(* Creating mailboxes and folders in the email-service.  Both operations   *)
(* check that a name is free and then insert, each in one READ COMMITTED   *)
(* transaction: a row inserted by an open transaction is invisible to the  *)
(* checks of the others.  The address of a mailbox is also guarded by a    *)
(* unique index, which an INSERT consults at once (and waits for, when an  *)
(* open transaction has inserted the same address); the name of a folder   *)
(* is guarded by nothing else.  Mailboxes and folders are never renamed or *)
(* deleted.                                                                *)
(***************************************************************************)
EXTENDS Integers, FiniteSets

CONSTANTS Mailbox,    \* ids the IDENTITY column can hand out (a bound)
          Address,    \* e-mail addresses clients register
          UserName,   \* folder names clients invent
          Worker,     \* servlet threads, one transaction each at a time
          None        \* no value

VARIABLES mailboxes,  \* committed mailbox rows: id -> address, or None
          folderRows, \* number of committed folders per mailbox and name
          requests    \* the transaction each worker is in

vars == <<mailboxes, folderRows, requests>>

SystemName == {"Inbox", "Sent", "Trash", "Spam", "Archive"}

Name == SystemName \cup UserName

Phases == {"idle", "addressFree", "mailboxInserted", "nameFree"}

RequestState == [pc      : Phases,
                 mailbox : Mailbox \cup {None},
                 address : Address \cup {None},
                 name    : Name \cup {None}]

Idle == [pc |-> "idle", mailbox |-> None, address |-> None, name |-> None]

ASSUME CatalogAssumption ==
  /\ None \notin Mailbox /\ None \notin Address /\ None \notin Name
  /\ UserName \cap SystemName = {}

Created == {m \in Mailbox : mailboxes[m] # None}

Registered == {mailboxes[m] : m \in Created}

(* Ids held by rows that open transactions have inserted.                  *)
Pending == {requests[w].mailbox : w \in {v \in Worker :
                                          requests[v].pc = "mailboxInserted"}}

(* Addresses the unique index holds for open transactions.                 *)
Locked == {requests[w].address : w \in {v \in Worker :
                                         requests[v].pc = "mailboxInserted"}}

-----------------------------------------------------------------------------
Init ==
  /\ mailboxes = [m \in Mailbox |-> None]
  /\ folderRows = [m \in Mailbox |-> [n \in Name |-> 0]]
  /\ requests = [w \in Worker |-> Idle]

Become(w, q) == requests' = [requests EXCEPT ![w] = q]

(* createMailbox, the check: findByEmailAddress finds no committed row.    *)
CheckAddress(w, a) ==
  /\ requests[w].pc = "idle"
  /\ a \notin Registered
  /\ Created \cup Pending # Mailbox
  /\ Become(w, [Idle EXCEPT !.pc = "addressFree", !.address = a])
  /\ UNCHANGED <<mailboxes, folderRows>>

(* Faults: an INSERT that no unique index guards, and one that is          *)
(* committed by itself, before the folders.                                *)
FaultyInsertUnindexed(w) ==
  /\ requests[w].pc = "addressFree"
  /\ \E m \in Mailbox \ (Created \cup Pending) :
       Become(w, [requests[w] EXCEPT !.pc = "mailboxInserted", !.mailbox = m])
  /\ UNCHANGED <<mailboxes, folderRows>>

FaultyInsertCommitted(w) ==
  LET a == requests[w].address
  IN  /\ requests[w].pc = "addressFree"
      /\ a \notin Locked \cup Registered
      /\ \E m \in Mailbox \ (Created \cup Pending) :
           /\ mailboxes' = [mailboxes EXCEPT ![m] = a]
           /\ Become(w, [requests[w] EXCEPT !.pc = "mailboxInserted",
                                            !.mailbox = m])
      /\ UNCHANGED folderRows

(* createMailbox, the INSERT of the mailbox row, once no open transaction  *)
(* holds the address in the unique index.  The default folders are         *)
(* inserted in the same transaction, as invisible as the row itself.       *)
InsertMailbox(w) ==
  LET a == requests[w].address
  IN  /\ requests[w].pc = "addressFree"
      /\ a \notin Locked \cup Registered
      /\ \E m \in Mailbox \ (Created \cup Pending) :
           Become(w, [requests[w] EXCEPT !.pc = "mailboxInserted",
                                         !.mailbox = m])
      /\ UNCHANGED <<mailboxes, folderRows>>

(* The INSERT fails on the unique index: another transaction has committed *)
(* the address since the check.                                            *)
RejectMailbox(w) ==
  /\ requests[w].pc = "addressFree"
  /\ requests[w].address \in Registered
  /\ Become(w, Idle)
  /\ UNCHANGED <<mailboxes, folderRows>>

(* The folders provisioned with every mailbox.                             *)
Defaults == [n \in Name |-> IF n \in SystemName THEN 1 ELSE 0]

(* createMailbox commits: the row and its five folders appear together.    *)
CommitMailbox(w) ==
  LET q == requests[w]
  IN  /\ q.pc = "mailboxInserted"
      /\ mailboxes' = [mailboxes EXCEPT ![q.mailbox] = q.address]
      /\ folderRows' = [folderRows EXCEPT ![q.mailbox] =
                          [n \in Name |-> @[n] + Defaults[n]]]
      /\ Become(w, Idle)

(* createFolder, the checks: the mailbox exists (for good) and no folder   *)
(* of that name is committed.                                              *)
CheckName(w, m, n) ==
  /\ requests[w].pc = "idle"
  /\ m \in Created
  /\ folderRows[m][n] = 0
  /\ Become(w, [Idle EXCEPT !.pc = "nameFree", !.mailbox = m, !.name = n])
  /\ UNCHANGED <<mailboxes, folderRows>>

(* createFolder inserts and commits: no index stands in the way.           *)
CommitFolder(w) ==
  LET q == requests[w]
  IN  /\ q.pc = "nameFree"
      /\ folderRows' = [folderRows EXCEPT ![q.mailbox][q.name] = @ + 1]
      /\ Become(w, Idle)
      /\ UNCHANGED mailboxes

(* Refused requests: the address or the folder name is taken (a name taken *)
(* twice makes findByMailboxIdAndName throw instead, with the same effect).*)
Refuse(w) ==
  /\ requests[w].pc = "idle"
  /\ Created # {}
  /\ UNCHANGED vars

(* The transaction is rolled back: connection loss, deadlock, restart.     *)
Rollback(w) ==
  /\ requests[w].pc # "idle"
  /\ Become(w, Idle)
  /\ UNCHANGED <<mailboxes, folderRows>>

Next ==
  \E w \in Worker :
    \/ \E a \in Address : CheckAddress(w, a)
    \/ \E m \in Mailbox, n \in Name : CheckName(w, m, n)
    \/ InsertMailbox(w) \/ RejectMailbox(w) \/ CommitMailbox(w)
    \/ CommitFolder(w) \/ Rollback(w) \/ Refuse(w)

Spec == Init /\ [][Next]_vars

-----------------------------------------------------------------------------
(* Types of the tables and of the transactions.                            *)
TypeOK ==
  /\ mailboxes \in [Mailbox -> Address \cup {None}]
  /\ folderRows \in [Mailbox -> [Name -> Nat]]
  /\ requests \in [Worker -> RequestState]

(* Two mailboxes, committed or still open, never have the same address:    *)
(* the index catches what two checks made at the same time let through.    *)
AddressUnique ==
  /\ \A m, o \in Created : mailboxes[m] = mailboxes[o] => m = o
  /\ \A v, w \in Worker :
       /\ requests[v].pc = "mailboxInserted"
       /\ requests[w].pc = "mailboxInserted"
       /\ requests[v].address = requests[w].address
       => v = w
  /\ Locked \cap Registered = {}

(* Every visible mailbox has each standard folder exactly once, although   *)
(* no constraint says so: storing into the Inbox and moving to the Trash   *)
(* look them up by name and fail on none or on two.                        *)
SystemFoldersUnique ==
  \A m \in Created, n \in SystemName : folderRows[m][n] = 1
=============================================================================
