----------------------------- MODULE EmailStore -----------------------------
(***************************************************************************)
(* The e-mail flow of the email-service (EmailPlatformService): storing,   *)
(* reading, trashing and purging messages, with the folder counters and    *)
(* the storage usage that every operation maintains by hand.               *)
(*                                                                         *)
(* Each operation is one @Transactional method on PostgreSQL at the        *)
(* default READ COMMITTED level, with no @Version column and no explicit   *)
(* lock.  Every row an operation loads is a step of its own and stays in   *)
(* its persistence context as a snapshot; the rows it changed are written  *)
(* back WHOLE, from the snapshots, when the method returns.  The write     *)
(* back is one step: its row locks are held until the commit, so nothing   *)
(* sees half of it.  Folders are never renamed or deleted, so the table's  *)
(* identity columns are constants here.                                    *)
(***************************************************************************)
EXTENDS Integers, FiniteSets, FiniteSetsExt

CONSTANTS Mailbox,        \* ids of the rows of table mailboxes
          Folder,         \* ids of the rows of table folders
          FolderMailbox,  \* folders.mailbox_id
          FolderName,     \* folders.name
          Email,          \* the ids the IDENTITY column can hand out (a bound)
          NoEmail,        \* a request without an e-mail id
          Fresh,          \* an id not yet handed out
          Purged,         \* an id whose row was deleted
          Worker,         \* servlet threads, one transaction each at a time
          BodyLengths,    \* summed string lengths of the messages clients send
          MaxRequests     \* bound on the transactions started

VARIABLES emails,          \* table emails: id -> row, Fresh or Purged
          folders,         \* folders.total_count and folders.unread_count
          mailboxes,       \* mailboxes.storage_used_bytes
          requests,        \* the transaction each worker is in
          started,         \* number of transactions started
          racedFolders,    \* history: folders written by a commit that was
          racedMailboxes   \* based on a row changed since it was read

vars == <<emails, folders, mailboxes, requests, started, racedFolders,
          racedMailboxes>>

-----------------------------------------------------------------------------
(* Rows and requests.                                                      *)

EmailRow == [mailbox : Mailbox, folder : Folder, isRead : BOOLEAN, size : Nat]

Counters == [total : Nat, unread : Nat]

ZeroCount == [total |-> 0, unread |-> 0]

Phases == {"idle", "sendFolder", "sendCommit", "readFolder", "readCommit",
           "deleteFolder", "purgeMailbox", "purgeCommit",
           "moveTrash", "moveCommit"}

(* A persistence context: the rows loaded (or, for a send, built) so far.  *)
RequestState == [pc     : Phases,
                 id     : Email \cup {NoEmail},
                 row    : EmailRow \cup {Fresh},
                 used   : Nat,
                 folder : Counters,
                 trash  : Counters]

Idle == [pc |-> "idle", id |-> NoEmail, row |-> Fresh, used |-> 0,
         folder |-> ZeroCount, trash |-> ZeroCount]

TrashSpellings == {"Trash", "TRASH"}

ASSUME ConstantsAssumption ==
  /\ IsFiniteSet(Email)
  /\ FolderMailbox \in [Folder -> Mailbox]
  /\ NoEmail \notin Email
  /\ Fresh \notin EmailRow /\ Purged \notin EmailRow /\ Fresh # Purged
  /\ BodyLengths \subseteq Nat
  /\ MaxRequests \in Nat

(* createMailbox provisions exactly one "Trash" with every mailbox, and    *)
(* createFolder cannot add a second one (module MailboxCatalog).           *)
ASSUME TrashAssumption ==
  \A m \in Mailbox :
    \E f \in Folder :
      /\ FolderMailbox[f] = m /\ FolderName[f] = "Trash"
      /\ \A g \in Folder :
           FolderMailbox[g] = m /\ FolderName[g] = "Trash" => g = f

(* findByMailboxIdAndName(mailbox, "Trash"): an exact match.               *)
TrashOf(m) ==
  CHOOSE f \in Folder : FolderMailbox[f] = m /\ FolderName[f] = "Trash"

(* Faults (here and below, under the names Faulty...): what the definition *)
(* that follows would be with a plausible bug.  No specification uses      *)
(* them; they show which property notices the bug.                         *)
FaultyIsTrashInverted(f) == FolderName[f] \notin TrashSpellings
FaultyIsTrashNever(f) == FALSE

(* currentFolder.getName().equalsIgnoreCase("Trash").                      *)
IsTrash(f) == FolderName[f] \in TrashSpellings

(* The ids that have a row.                                                *)
Stored == {e \in Email : emails[e] \notin {Fresh, Purged}}

(* Email.onCreate: the size is estimated from the lengths, at least 100.   *)
SizeOf(length) == IF length < 100 THEN 100 ELSE length

FaultyMinus(n, k) == n - k

(* Math.max(0, n - k) on counters that are never negative.                 *)
Minus(n, k) == IF n < k THEN 0 ELSE n - k

(* Folder counters after one message arrived in, or left, the folder.      *)
CountIn(c, isRead) ==
  [total |-> c.total + 1, unread |-> IF isRead THEN c.unread ELSE c.unread + 1]

FaultyCountOut(c, isRead) ==
  [total |-> Minus(c.total, 1), unread |-> Minus(c.unread, 1)]

CountOut(c, isRead) ==
  [total  |-> Minus(c.total, 1),
   unread |-> IF isRead THEN c.unread ELSE Minus(c.unread, 1)]

FaultyRefund(used, row) == used

(* The usage left after a message is purged.                               *)
Refund(used, row) == Minus(used, row.size)

FaultyMoved(row, f) == [row EXCEPT !.folder = f, !.isRead = FALSE]

(* The whole row of a message written back with another folder.            *)
Moved(row, f) == [row EXCEPT !.folder = f]

FaultyRowExists(w) == TRUE

(* An UPDATE or DELETE must find its row, or Hibernate throws              *)
(* StaleStateException and the transaction is rolled back.                 *)
RowExists(w) == requests[w].id \in Stored

(* Dirty checking: only a row that differs from its snapshot is updated.   *)
Flush(snapshot, new, current) == IF new = snapshot THEN current ELSE new

-----------------------------------------------------------------------------
(* History: which rows a commit of worker w writes without having seen     *)
(* their latest version.                                                   *)

StaleFolder(w) ==
  LET f == requests[w].row.folder
  IN  IF folders[f] = requests[w].folder THEN {} ELSE {f}

StaleTrash(w) ==
  LET f == TrashOf(requests[w].row.mailbox)
  IN  IF folders[f] = requests[w].trash THEN {} ELSE {f}

StaleMailbox(w) ==
  LET m == requests[w].row.mailbox
  IN  IF mailboxes[m] = requests[w].used THEN {} ELSE {m}

(* A stale e-mail row miscounts the folder it was in, the one it is in now *)
(* and the one it goes to.                                                 *)
StaleEmail(w, destination) ==
  LET q == requests[w]
  IN  IF emails[q.id] = q.row
      THEN {}
      ELSE {q.row.folder} \cup destination
             \cup {emails[e].folder : e \in {q.id} \cap Stored}

-----------------------------------------------------------------------------
Init ==
  /\ emails = [e \in Email |-> Fresh]
  /\ folders = [f \in Folder |-> ZeroCount]
  /\ mailboxes = [m \in Mailbox |-> 0]
  /\ requests = [w \in Worker |-> Idle]
  /\ started = 0
  /\ racedFolders = {} /\ racedMailboxes = {}

Load(w, q) ==
  /\ requests' = [requests EXCEPT ![w] = q]
  /\ UNCHANGED <<emails, folders, mailboxes, racedFolders, racedMailboxes>>

Start(w, q) ==
  /\ requests[w].pc = "idle"
  /\ started < MaxRequests
  /\ started' = started + 1
  /\ Load(w, q)

Continue(w, q) == Load(w, q) /\ UNCHANGED started

Finish(w) == requests' = [requests EXCEPT ![w] = Idle] /\ UNCHANGED started

-----------------------------------------------------------------------------
(* sendAndStoreEmail: load the mailbox, then the folder (by any id the     *)
(* client names, or the mailbox's Inbox), insert, bump the counters.       *)

SendStart(w) ==
  \E m \in Mailbox, f \in Folder, length \in BodyLengths :
    Start(w, [Idle EXCEPT
                !.pc = "sendFolder",
                !.row = [mailbox |-> m, folder |-> f, isRead |-> FALSE,
                         size |-> SizeOf(length)],
                !.used = mailboxes[m]])

SendLoadFolder(w) ==
  LET q == requests[w]
  IN  /\ q.pc = "sendFolder"
      /\ Continue(w, [q EXCEPT !.pc = "sendCommit",
                               !.folder = folders[q.row.folder]])

SendCommit(w) ==
  LET q == requests[w]
  IN  /\ q.pc = "sendCommit"
      /\ \E e \in Email : /\ emails[e] = Fresh
                          /\ emails' = [emails EXCEPT ![e] = q.row]
      /\ folders' = [folders EXCEPT ![q.row.folder] = CountIn(q.folder, FALSE)]
      /\ mailboxes' = [mailboxes EXCEPT ![q.row.mailbox] = q.used + q.row.size]
      /\ racedFolders' = racedFolders \cup StaleFolder(w)
      /\ racedMailboxes' = racedMailboxes \cup StaleMailbox(w)
      /\ Finish(w)

-----------------------------------------------------------------------------
(* readEmail: load the message and, if it is unread, its folder; mark it   *)
(* read and take one off the folder's unread counter.                      *)

ReadStart(w) ==
  \E e \in Stored :
    /\ ~emails[e].isRead
    /\ Start(w, [Idle EXCEPT !.pc = "readFolder", !.id = e, !.row = emails[e]])

ReadLoadFolder(w) ==
  LET q == requests[w]
  IN  /\ q.pc = "readFolder"
      /\ Continue(w, [q EXCEPT !.pc = "readCommit",
                               !.folder = folders[q.row.folder]])

ReadCommit(w) ==
  LET q == requests[w]
      f == q.row.folder
  IN  /\ q.pc = "readCommit"
      /\ RowExists(w)
      /\ emails' = [emails EXCEPT ![q.id] = [q.row EXCEPT !.isRead = TRUE]]
      /\ folders' = [folders EXCEPT ![f] =
           Flush(q.folder, [q.folder EXCEPT !.unread = Minus(@, 1)], @)]
      /\ racedFolders' = racedFolders \cup StaleFolder(w) \cup StaleEmail(w, {})
      /\ Finish(w)
      /\ UNCHANGED <<mailboxes, racedMailboxes>>

-----------------------------------------------------------------------------
(* deleteEmail: load the message and its folder.  In a folder called Trash *)
(* (whatever its case) the row is purged and its bytes refunded; elsewhere *)
(* the message is moved to the mailbox's own "Trash".                      *)

DeleteStart(w) ==
  \E e \in Stored :
    Start(w, [Idle EXCEPT !.pc = "deleteFolder", !.id = e, !.row = emails[e]])

DeleteLoadFolder(w) ==
  LET q == requests[w]
  IN  /\ q.pc = "deleteFolder"
      /\ Continue(w, [q EXCEPT
           !.pc = IF IsTrash(q.row.folder) THEN "purgeMailbox" ELSE "moveTrash",
           !.folder = folders[q.row.folder]])

PurgeLoadMailbox(w) ==
  LET q == requests[w]
  IN  /\ q.pc = "purgeMailbox"
      /\ Continue(w, [q EXCEPT !.pc = "purgeCommit",
                               !.used = mailboxes[q.row.mailbox]])

PurgeCommit(w) ==
  LET q == requests[w]
      f == q.row.folder
      m == q.row.mailbox
  IN  /\ q.pc = "purgeCommit"
      /\ RowExists(w)
      /\ emails' = [emails EXCEPT ![q.id] = Purged]
      /\ folders' = [folders EXCEPT ![f] =
           Flush(q.folder, CountOut(q.folder, q.row.isRead), @)]
      /\ mailboxes' = [mailboxes EXCEPT ![m] =
           Flush(q.used, Refund(q.used, q.row), @)]
      /\ racedFolders' = racedFolders \cup StaleFolder(w) \cup StaleEmail(w, {})
      /\ racedMailboxes' = racedMailboxes \cup StaleMailbox(w)
      /\ Finish(w)

MoveLoadTrash(w) ==
  LET q == requests[w]
  IN  /\ q.pc = "moveTrash"
      /\ Continue(w, [q EXCEPT !.pc = "moveCommit",
                               !.trash = folders[TrashOf(q.row.mailbox)]])

MoveCommit(w) ==
  LET q == requests[w]
      f == q.row.folder
      t == TrashOf(q.row.mailbox)
  IN  /\ q.pc = "moveCommit"
      /\ RowExists(w)
      /\ emails' = [emails EXCEPT ![q.id] = Moved(q.row, t)]
      /\ folders' = [folders EXCEPT
           ![f] = Flush(q.folder, CountOut(q.folder, q.row.isRead), @),
           ![t] = CountIn(q.trash, q.row.isRead)]
      /\ racedFolders' = racedFolders \cup StaleFolder(w) \cup StaleTrash(w)
                                      \cup StaleEmail(w, {t})
      /\ Finish(w)
      /\ UNCHANGED <<mailboxes, racedMailboxes>>

-----------------------------------------------------------------------------
(* A transaction can end without effect at any point: the database picks   *)
(* it as a deadlock victim, the connection drops, the service restarts, or *)
(* the row it must UPDATE or DELETE is gone (the row count is 0 and        *)
(* Hibernate throws StaleStateException), so all of it is rolled back.     *)
Rollback(w) ==
  /\ requests[w].pc # "idle"
  /\ Finish(w)
  /\ UNCHANGED <<emails, folders, mailboxes, racedFolders, racedMailboxes>>

(* Requests that change no row: the queries, reading a message already     *)
(* read, and any operation on an id without a row (404).                   *)
NoEffect(w) ==
  /\ requests[w].pc = "idle"
  /\ UNCHANGED vars

Next ==
  \E w \in Worker :
    \/ SendStart(w) \/ SendLoadFolder(w) \/ SendCommit(w)
    \/ ReadStart(w) \/ ReadLoadFolder(w) \/ ReadCommit(w)
    \/ DeleteStart(w) \/ DeleteLoadFolder(w)
    \/ PurgeLoadMailbox(w) \/ PurgeCommit(w)
    \/ MoveLoadTrash(w) \/ MoveCommit(w)
    \/ Rollback(w) \/ NoEffect(w)

Spec == Init /\ [][Next]_vars

-----------------------------------------------------------------------------
(* The tables and the persistence contexts have their types; in particular *)
(* no counter and no storage usage is ever negative.                       *)
TypeOK ==
  /\ emails \in [Email -> EmailRow \cup {Fresh, Purged}]
  /\ folders \in [Folder -> Counters]
  /\ mailboxes \in [Mailbox -> Nat]
  /\ requests \in [Worker -> RequestState]
  /\ started \in 0..MaxRequests
  /\ racedFolders \subseteq Folder
  /\ racedMailboxes \subseteq Mailbox

(* What a transaction has loaded fits the step it is at: a message being   *)
(* sent or read is unread in its snapshot, and a message on its way to the *)
(* system Trash comes from a folder of another name, so that the two       *)
(* folder rows of the move are different rows.                             *)
RequestsOK ==
  \A w \in Worker :
    LET q == requests[w]
    IN  /\ q.pc # "idle" => q.row \in EmailRow
        /\ q.pc \notin {"idle", "sendFolder", "sendCommit"} => q.id \in Email
        /\ q.pc \in {"sendFolder", "sendCommit", "readFolder", "readCommit"} =>
             ~q.row.isRead
        /\ q.pc \in {"moveTrash", "moveCommit"} => ~IsTrash(q.row.folder)

EmailsIn(f) == {e \in Stored : emails[e].folder = f}

UnreadIn(f) == {e \in EmailsIn(f) : ~emails[e].isRead}

FolderExact(f) ==
  /\ folders[f].total = Cardinality(EmailsIn(f))
  /\ folders[f].unread = Cardinality(UnreadIn(f))

SizeOfEmail(e) == emails[e].size

UsageExact(m) ==
  mailboxes[m] =
    MapThenSumSet(SizeOfEmail, {e \in Stored : emails[e].mailbox = m})

(* The folder list shows the exact number of messages and of unread        *)
(* messages of every folder, whatever sends, reads, moves, purges and      *)
(* rollbacks came before.                                                  *)
FolderCountsExact == \A f \in Folder : FolderExact(f)

(* The storage usage of every mailbox is the sum of the sizes of the       *)
(* messages it stores.                                                     *)
UsageExactEverywhere == \A m \in Mailbox : UsageExact(m)

(* The only way a folder's counters can drift is a commit that writes over *)
(* a row changed since it was read, and the damage stays in the folders of *)
(* that commit: every other folder keeps exact counters.                   *)
CountsExactUnlessRaced ==
  \A f \in Folder \ racedFolders : FolderExact(f)

(* Likewise a mailbox's storage usage drifts only when a send or a purge   *)
(* writes back a usage it read before another one committed; moving and    *)
(* reading, even of stale messages, and purging twice never disturb it.    *)
UsageExactUnlessRaced ==
  \A m \in Mailbox \ racedMailboxes : UsageExact(m)

(* A purged message never comes back: a read or a move that loaded the     *)
(* message before the purge committed cannot write its row again, and the  *)
(* id is not reused.                                                       *)
PurgedIsFinal ==
  [][\A e \in Email : emails[e] = Purged => emails'[e] = Purged]_vars

(* A stored message disappears only out of a folder that is called Trash,  *)
(* in whatever case: the system Trash, or a user folder with such a name,  *)
(* which createFolder accepts and deleteEmail takes for the Trash.  Out of *)
(* every other folder a deletion only moves it, so that losing it takes a  *)
(* second one.                                                             *)
PurgedOnlyFromTrashNames ==
  [][\A e \in Stored :
       emails'[e] = Purged => FolderName[emails[e].folder] \in TrashSpellings]_vars

(* A message deleted into the system Trash stays there until it is purged. *)
TrashSticks ==
  [][\A e \in Stored :
       FolderName[emails[e].folder] = "Trash" =>
         \/ emails'[e] = Purged
         \/ emails'[e].folder = emails[e].folder]_vars

(* Once a message is marked read it never turns unread again.              *)
ReadSticks ==
  [][\A e \in Stored :
       emails[e].isRead => emails'[e] = Purged \/ emails'[e].isRead]_vars
=============================================================================
