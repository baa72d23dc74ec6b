-------------------------- MODULE EmailStoreProofs --------------------------
(* Proofs about EmailStore, for any number of mailboxes, folders, messages *)
(* and concurrent transactions.                                            *)
EXTENDS EmailStore, FiniteSetTheorems, WellFoundedInduction, TLAPS

(* The exact-name lookup of a mailbox's Trash returns a folder of that     *)
(* mailbox called "Trash".                                                 *)
LEMMA TrashOfIsTrash ==
  ASSUME NEW m \in Mailbox
  PROVE  /\ TrashOf(m) \in Folder
         /\ FolderName[TrashOf(m)] = "Trash"
         /\ FolderMailbox[TrashOf(m)] = m
BY TrashAssumption DEF TrashOf

(* The counter arithmetic keeps counters natural numbers.                  *)
LEMMA CountersType ==
  ASSUME NEW c \in Counters, NEW isRead \in BOOLEAN
  PROVE  /\ CountIn(c, isRead) \in Counters
         /\ CountOut(c, isRead) \in Counters
         /\ [c EXCEPT !.unread = Minus(@, 1)] \in Counters
BY DEF Counters, CountIn, CountOut, Minus

-----------------------------------------------------------------------------
(* Type correctness and the shape of the persistence contexts, which are   *)
(* inductive together.                                                     *)
WellFormed == TypeOK /\ RequestsOK

LEMMA InitWellFormed == Init => WellFormed
BY ConstantsAssumption
   DEF Init, WellFormed, TypeOK, RequestsOK, Idle, RequestState, Phases,
       Counters, ZeroCount

(* A step that only loads: the worker's request becomes q, the tables stay.*)
LEMMA LoadWellFormed ==
  ASSUME WellFormed, NEW w \in Worker, NEW q \in RequestState, Load(w, q),
         started' \in 0..MaxRequests,
         q.pc # "idle" => q.row \in EmailRow,
         q.pc \notin {"idle", "sendFolder", "sendCommit"} => q.id \in Email,
         q.pc \in {"sendFolder", "sendCommit", "readFolder", "readCommit"} =>
           ~q.row.isRead,
         q.pc \in {"moveTrash", "moveCommit"} => ~IsTrash(q.row.folder)
  PROVE  WellFormed'
<1>1. TypeOK'
  BY DEF WellFormed, TypeOK, Load
<1>2. RequestsOK'
  BY DEF WellFormed, TypeOK, RequestsOK, Load, IsTrash
<1> QED BY <1>1, <1>2 DEF WellFormed

(* A step that ends a transaction leaves well-formed requests.             *)
LEMMA FinishRequestsOK ==
  ASSUME WellFormed, NEW w \in Worker, Finish(w)
  PROVE  /\ requests' \in [Worker -> RequestState]
         /\ started' \in 0..MaxRequests
         /\ RequestsOK'
BY ConstantsAssumption
   DEF WellFormed, TypeOK, RequestsOK, Finish, Idle, RequestState, Phases,
       Counters, ZeroCount, IsTrash

LEMMA SendWellFormed ==
  ASSUME WellFormed, NEW w \in Worker
  PROVE  /\ SendStart(w) => WellFormed'
         /\ SendLoadFolder(w) => WellFormed'
         /\ SendCommit(w) => WellFormed'
<1>1. ASSUME SendStart(w) PROVE WellFormed'
  <2>1. PICK m \in Mailbox, f \in Folder, length \in BodyLengths :
          Start(w, [Idle EXCEPT
                      !.pc = "sendFolder",
                      !.row = [mailbox |-> m, folder |-> f, isRead |-> FALSE,
                               size |-> SizeOf(length)],
                      !.used = mailboxes[m]])
    BY <1>1 DEF SendStart
  <2> DEFINE row == [mailbox |-> m, folder |-> f, isRead |-> FALSE,
                     size |-> SizeOf(length)]
             q == [Idle EXCEPT !.pc = "sendFolder", !.row = row,
                               !.used = mailboxes[m]]
  <2>2. row \in EmailRow /\ ~row.isRead
    BY ConstantsAssumption DEF EmailRow, SizeOf
  <2>3. q \in RequestState /\ q.pc = "sendFolder" /\ q.row = row
    BY <2>2 DEF WellFormed, TypeOK, Idle, RequestState, Phases, Counters,
                ZeroCount
  <2>4. Load(w, q) /\ started' \in 0..MaxRequests
    BY <2>1, ConstantsAssumption DEF Start, WellFormed, TypeOK
  <2> HIDE DEF row
  <2> QED BY <2>2, <2>3, <2>4, LoadWellFormed
<1>2. ASSUME SendLoadFolder(w) PROVE WellFormed'
  <2> DEFINE q == [requests[w] EXCEPT !.pc = "sendCommit",
                                      !.folder = folders[requests[w].row.folder]]
  <2>1. requests[w].row \in EmailRow /\ ~requests[w].row.isRead
    BY <1>2 DEF SendLoadFolder, WellFormed, RequestsOK
  <2>2. q \in RequestState /\ q.pc = "sendCommit" /\ q.row = requests[w].row
    <3> DEFINE r == requests[w]
           next == "sendCommit"
           loaded == folders[requests[w].row.folder]
    <3>1. r \in RequestState /\ next \in Phases /\ loaded \in Counters
      BY <2>1 DEF WellFormed, TypeOK, Phases, EmailRow
    <3>2. q = [r EXCEPT !.pc = next, !.folder = loaded]
      OBVIOUS
    <3> HIDE DEF q, r, next, loaded
    <3>3. q \in RequestState /\ q.pc = next /\ q.row = r.row /\ q.id = r.id
      BY <3>1, <3>2 DEF RequestState
    <3> QED BY <3>3 DEF r, next
  <2>3. Load(w, q) /\ started' \in 0..MaxRequests
    BY <1>2 DEF SendLoadFolder, Continue, WellFormed, TypeOK
  <2> HIDE DEF q
  <2> QED BY <2>1, <2>2, <2>3, LoadWellFormed
<1>3. ASSUME SendCommit(w) PROVE WellFormed'
  <2> DEFINE q == requests[w]
  <2>1. q \in RequestState /\ q.row \in EmailRow
    BY <1>3 DEF SendCommit, WellFormed, TypeOK, RequestsOK
  <2>2. /\ emails' \in [Email -> EmailRow \cup {Fresh, Purged}]
        /\ folders' \in [Folder -> Counters]
        /\ mailboxes' \in [Mailbox -> Nat]
    <3>1. emails' \in [Email -> EmailRow \cup {Fresh, Purged}]
      BY <1>3, <2>1 DEF SendCommit, WellFormed, TypeOK
    <3>2. CountIn(q.folder, FALSE) \in Counters
      BY <2>1, CountersType DEF RequestState
    <3>3. folders' \in [Folder -> Counters]
      BY <1>3, <3>2 DEF SendCommit, WellFormed, TypeOK
    <3>4. q.used + q.row.size \in Nat
      BY <2>1 DEF RequestState, EmailRow
    <3>5. mailboxes' \in [Mailbox -> Nat]
      BY <1>3, <3>4 DEF SendCommit, WellFormed, TypeOK
    <3> QED BY <3>1, <3>3, <3>5
  <2>3. racedFolders' \subseteq Folder /\ racedMailboxes' \subseteq Mailbox
    BY <1>3, <2>1
       DEF SendCommit, StaleFolder, StaleMailbox, WellFormed, TypeOK, EmailRow
  <2>4. Finish(w)
    BY <1>3 DEF SendCommit
  <2> QED BY <2>2, <2>3, <2>4, FinishRequestsOK DEF WellFormed, TypeOK
<1> QED BY <1>1, <1>2, <1>3

LEMMA ReadWellFormed ==
  ASSUME WellFormed, NEW w \in Worker
  PROVE  /\ ReadStart(w) => WellFormed'
         /\ ReadLoadFolder(w) => WellFormed'
         /\ ReadCommit(w) => WellFormed'
<1>1. ASSUME ReadStart(w) PROVE WellFormed'
  <2>1. PICK e \in Stored :
          /\ ~emails[e].isRead
          /\ Start(w, [Idle EXCEPT !.pc = "readFolder", !.id = e,
                                   !.row = emails[e]])
    BY <1>1 DEF ReadStart
  <2> DEFINE q == [Idle EXCEPT !.pc = "readFolder", !.id = e, !.row = emails[e]]
  <2>2. e \in Email /\ emails[e] \in EmailRow
    BY DEF Stored, WellFormed, TypeOK
  <2>3. /\ q \in RequestState /\ q.pc = "readFolder"
        /\ q.row = emails[e] /\ q.id = e
    BY <2>2 DEF Idle, RequestState, Phases, Counters, ZeroCount
  <2>4. Load(w, q) /\ started' \in 0..MaxRequests
    BY <2>1, ConstantsAssumption DEF Start, WellFormed, TypeOK
  <2> HIDE DEF q
  <2> QED BY <2>1, <2>2, <2>3, <2>4, LoadWellFormed
<1>2. ASSUME ReadLoadFolder(w) PROVE WellFormed'
  <2> DEFINE q == [requests[w] EXCEPT !.pc = "readCommit",
                                      !.folder = folders[requests[w].row.folder]]
  <2>1. /\ requests[w].row \in EmailRow /\ ~requests[w].row.isRead
        /\ requests[w].id \in Email
    BY <1>2 DEF ReadLoadFolder, WellFormed, RequestsOK
  <2>2. /\ q \in RequestState /\ q.pc = "readCommit"
        /\ q.row = requests[w].row /\ q.id = requests[w].id
    <3> DEFINE r == requests[w]
           next == "readCommit"
           loaded == folders[requests[w].row.folder]
    <3>1. r \in RequestState /\ next \in Phases /\ loaded \in Counters
      BY <2>1 DEF WellFormed, TypeOK, Phases, EmailRow
    <3>2. q = [r EXCEPT !.pc = next, !.folder = loaded]
      OBVIOUS
    <3> HIDE DEF q, r, next, loaded
    <3>3. q \in RequestState /\ q.pc = next /\ q.row = r.row /\ q.id = r.id
      BY <3>1, <3>2 DEF RequestState
    <3> QED BY <3>3 DEF r, next
  <2>3. Load(w, q) /\ started' \in 0..MaxRequests
    BY <1>2 DEF ReadLoadFolder, Continue, WellFormed, TypeOK
  <2> HIDE DEF q
  <2> QED BY <2>1, <2>2, <2>3, LoadWellFormed
<1>3. ASSUME ReadCommit(w) PROVE WellFormed'
  <2> DEFINE q == requests[w]
  <2>1. /\ q \in RequestState /\ q.row \in EmailRow
        /\ q.id \in Stored /\ emails[q.id] \in EmailRow
    BY <1>3 DEF ReadCommit, Stored, RowExists, WellFormed, TypeOK, RequestsOK
  <2>2. [q.folder EXCEPT !.unread = Minus(@, 1)] \in Counters
    BY <2>1, CountersType DEF RequestState
  <2>3. /\ emails' \in [Email -> EmailRow \cup {Fresh, Purged}]
        /\ folders' \in [Folder -> Counters]
    BY <1>3, <2>1, <2>2 DEF ReadCommit, Flush, WellFormed, TypeOK, EmailRow
  <2>4. racedFolders' \subseteq Folder
    BY <1>3, <2>1
       DEF ReadCommit, StaleFolder, StaleEmail, WellFormed, TypeOK, EmailRow
  <2>5. Finish(w) /\ UNCHANGED <<mailboxes, racedMailboxes>>
    BY <1>3 DEF ReadCommit
  <2> QED BY <2>3, <2>4, <2>5, FinishRequestsOK DEF WellFormed, TypeOK
<1> QED BY <1>1, <1>2, <1>3

LEMMA DeleteLoadsWellFormed ==
  ASSUME WellFormed, NEW w \in Worker
  PROVE  /\ DeleteStart(w) => WellFormed'
         /\ DeleteLoadFolder(w) => WellFormed'
         /\ PurgeLoadMailbox(w) => WellFormed'
         /\ MoveLoadTrash(w) => WellFormed'
<1>1. ASSUME DeleteStart(w) PROVE WellFormed'
  <2>1. PICK e \in Stored :
          Start(w, [Idle EXCEPT !.pc = "deleteFolder", !.id = e,
                                !.row = emails[e]])
    BY <1>1 DEF DeleteStart
  <2> DEFINE q == [Idle EXCEPT !.pc = "deleteFolder", !.id = e,
                               !.row = emails[e]]
  <2>2. e \in Email /\ emails[e] \in EmailRow
    BY DEF Stored, WellFormed, TypeOK
  <2>3. /\ q \in RequestState /\ q.pc = "deleteFolder"
        /\ q.row = emails[e] /\ q.id = e
    BY <2>2 DEF Idle, RequestState, Phases, Counters, ZeroCount
  <2>4. Load(w, q) /\ started' \in 0..MaxRequests
    BY <2>1, ConstantsAssumption DEF Start, WellFormed, TypeOK
  <2> HIDE DEF q
  <2> QED BY <2>2, <2>3, <2>4, LoadWellFormed
<1>2. ASSUME DeleteLoadFolder(w) PROVE WellFormed'
  <2> DEFINE branch == IF IsTrash(requests[w].row.folder)
                       THEN "purgeMailbox" ELSE "moveTrash"
             q == [requests[w] EXCEPT !.pc = branch,
                                      !.folder = folders[requests[w].row.folder]]
  <2>1. requests[w].row \in EmailRow /\ requests[w].id \in Email
    BY <1>2 DEF DeleteLoadFolder, WellFormed, RequestsOK
  <2>2. /\ q \in RequestState /\ q.pc = branch
        /\ q.row = requests[w].row /\ q.id = requests[w].id
    <3> DEFINE r == requests[w]
           next == branch
           loaded == folders[requests[w].row.folder]
    <3>1. r \in RequestState /\ next \in Phases /\ loaded \in Counters
      BY <2>1 DEF WellFormed, TypeOK, Phases, EmailRow
    <3>2. q = [r EXCEPT !.pc = next, !.folder = loaded]
      OBVIOUS
    <3> HIDE DEF q, r, next, loaded
    <3>3. q \in RequestState /\ q.pc = next /\ q.row = r.row /\ q.id = r.id
      BY <3>1, <3>2 DEF RequestState
    <3> QED BY <3>3 DEF r, next
  <2>3. Load(w, q) /\ started' \in 0..MaxRequests
    BY <1>2 DEF DeleteLoadFolder, Continue, WellFormed, TypeOK
  <2>4. /\ branch \in {"purgeMailbox", "moveTrash"}
        /\ branch = "moveTrash" => ~IsTrash(requests[w].row.folder)
    OBVIOUS
  <2> HIDE DEF branch, q
  <2> QED BY <2>1, <2>2, <2>3, <2>4, LoadWellFormed
<1>3. ASSUME PurgeLoadMailbox(w) PROVE WellFormed'
  <2> DEFINE q == [requests[w] EXCEPT
                     !.pc = "purgeCommit",
                     !.used = mailboxes[requests[w].row.mailbox]]
  <2>1. requests[w].row \in EmailRow /\ requests[w].id \in Email
    BY <1>3 DEF PurgeLoadMailbox, WellFormed, RequestsOK
  <2>2. /\ q \in RequestState /\ q.pc = "purgeCommit"
        /\ q.row = requests[w].row /\ q.id = requests[w].id
    <3> DEFINE r == requests[w]
           next == "purgeCommit"
           loaded == mailboxes[requests[w].row.mailbox]
    <3>1. r \in RequestState /\ next \in Phases /\ loaded \in Nat
      BY <2>1 DEF WellFormed, TypeOK, Phases, EmailRow
    <3>2. q = [r EXCEPT !.pc = next, !.used = loaded]
      OBVIOUS
    <3> HIDE DEF q, r, next, loaded
    <3>3. q \in RequestState /\ q.pc = next /\ q.row = r.row /\ q.id = r.id
      BY <3>1, <3>2 DEF RequestState
    <3> QED BY <3>3 DEF r, next
  <2>3. Load(w, q) /\ started' \in 0..MaxRequests
    BY <1>3 DEF PurgeLoadMailbox, Continue, WellFormed, TypeOK
  <2> HIDE DEF q
  <2> QED BY <2>1, <2>2, <2>3, LoadWellFormed
<1>4. ASSUME MoveLoadTrash(w) PROVE WellFormed'
  <2> DEFINE q == [requests[w] EXCEPT
                     !.pc = "moveCommit",
                     !.trash = folders[TrashOf(requests[w].row.mailbox)]]
  <2>1. /\ requests[w].row \in EmailRow /\ requests[w].id \in Email
        /\ ~IsTrash(requests[w].row.folder)
    BY <1>4 DEF MoveLoadTrash, WellFormed, RequestsOK
  <2>2. TrashOf(requests[w].row.mailbox) \in Folder
    BY <2>1, TrashOfIsTrash DEF EmailRow
  <2>3. /\ q \in RequestState /\ q.pc = "moveCommit"
        /\ q.row = requests[w].row /\ q.id = requests[w].id
    <3> DEFINE r == requests[w]
           next == "moveCommit"
           loaded == folders[TrashOf(requests[w].row.mailbox)]
    <3>1. r \in RequestState /\ next \in Phases /\ loaded \in Counters
      BY <2>2 DEF WellFormed, TypeOK, Phases
    <3>2. q = [r EXCEPT !.pc = next, !.trash = loaded]
      OBVIOUS
    <3> HIDE DEF q, r, next, loaded
    <3>3. q \in RequestState /\ q.pc = next /\ q.row = r.row /\ q.id = r.id
      BY <3>1, <3>2 DEF RequestState
    <3> QED BY <3>3 DEF r, next
  <2>4. Load(w, q) /\ started' \in 0..MaxRequests
    BY <1>4 DEF MoveLoadTrash, Continue, WellFormed, TypeOK
  <2> HIDE DEF q
  <2> QED BY <2>1, <2>3, <2>4, LoadWellFormed
<1> QED BY <1>1, <1>2, <1>3, <1>4

LEMMA DeleteCommitsWellFormed ==
  ASSUME WellFormed, NEW w \in Worker
  PROVE  /\ PurgeCommit(w) => WellFormed'
         /\ MoveCommit(w) => WellFormed'
<1> DEFINE q == requests[w]
           t == TrashOf(q.row.mailbox)
<1>1. ASSUME PurgeCommit(w) PROVE WellFormed'
  <2>1. /\ q \in RequestState /\ q.row \in EmailRow
        /\ q.id \in Stored /\ emails[q.id] \in EmailRow
    BY <1>1 DEF PurgeCommit, Stored, RowExists, WellFormed, TypeOK, RequestsOK
  <2>2. emails' \in [Email -> EmailRow \cup {Fresh, Purged}]
    BY <1>1, <2>1 DEF PurgeCommit, WellFormed, TypeOK
  <2>3. CountOut(q.folder, q.row.isRead) \in Counters
    BY <2>1, CountersType DEF RequestState, EmailRow
  <2>4. folders' \in [Folder -> Counters]
    BY <1>1, <2>3 DEF PurgeCommit, Flush, WellFormed, TypeOK
  <2>5. Refund(q.used, q.row) \in Nat
    BY <2>1 DEF Refund, Minus, RequestState, EmailRow
  <2>6. mailboxes' \in [Mailbox -> Nat]
    BY <1>1, <2>5 DEF PurgeCommit, Flush, WellFormed, TypeOK
  <2>7. racedFolders' \subseteq Folder /\ racedMailboxes' \subseteq Mailbox
    BY <1>1, <2>1
       DEF PurgeCommit, StaleFolder, StaleEmail, StaleMailbox, WellFormed,
           TypeOK, EmailRow
  <2>8. Finish(w)
    BY <1>1 DEF PurgeCommit
  <2> QED
    BY <2>2, <2>4, <2>6, <2>7, <2>8, FinishRequestsOK DEF WellFormed, TypeOK
<1>2. ASSUME MoveCommit(w) PROVE WellFormed'
  <2>1. /\ q \in RequestState /\ q.row \in EmailRow
        /\ q.id \in Stored /\ emails[q.id] \in EmailRow
    BY <1>2 DEF MoveCommit, Stored, RowExists, Moved, WellFormed, TypeOK, RequestsOK
  <2>2. t \in Folder
    BY <2>1, TrashOfIsTrash DEF EmailRow
  <2>3. emails' \in [Email -> EmailRow \cup {Fresh, Purged}]
    BY <1>2, <2>1, <2>2 DEF MoveCommit, Moved, WellFormed, TypeOK, EmailRow
  <2>4. /\ CountOut(q.folder, q.row.isRead) \in Counters
        /\ CountIn(q.trash, q.row.isRead) \in Counters
    BY <2>1, CountersType DEF RequestState, EmailRow
  <2>5. folders' \in [Folder -> Counters]
    BY <1>2, <2>4 DEF MoveCommit, Flush, WellFormed, TypeOK
  <2>6. racedFolders' \subseteq Folder
    BY <1>2, <2>1, <2>2
       DEF MoveCommit, StaleFolder, StaleTrash, StaleEmail, WellFormed,
           TypeOK, EmailRow
  <2>7. Finish(w) /\ UNCHANGED <<mailboxes, racedMailboxes>>
    BY <1>2 DEF MoveCommit
  <2> QED
    BY <2>3, <2>5, <2>6, <2>7, FinishRequestsOK DEF WellFormed, TypeOK
<1> QED BY <1>1, <1>2

LEMMA NextWellFormed == WellFormed /\ [Next]_vars => WellFormed'
<1> SUFFICES ASSUME WellFormed, [Next]_vars PROVE WellFormed'
  OBVIOUS
<1>1. ASSUME NEW w \in Worker, Rollback(w) PROVE WellFormed'
  BY <1>1, FinishRequestsOK DEF Rollback, WellFormed, TypeOK
<1>2. CASE UNCHANGED vars
  BY <1>2 DEF vars, WellFormed, TypeOK, RequestsOK, IsTrash
<1>3. CASE Next
  BY <1>1, <1>2, <1>3, SendWellFormed, ReadWellFormed, DeleteLoadsWellFormed,
     DeleteCommitsWellFormed DEF Next, NoEffect
<1> QED BY <1>2, <1>3

(* The tables and the persistence contexts keep their types whatever       *)
(* transactions interleave: no counter or usage becomes negative, and a    *)
(* move always works on two different folder rows.                         *)
THEOREM TypeCorrect == Spec => [](TypeOK /\ RequestsOK)
<1>1. WellFormed => TypeOK /\ RequestsOK
  BY DEF WellFormed
<1> QED BY InitWellFormed, NextWellFormed, <1>1, PTL DEF Spec

-----------------------------------------------------------------------------
(* Exact counters.  When a single e-mail row changes, the number of        *)
(* messages of a folder changes by what that row contributed before and    *)
(* contributes now; likewise for its unread messages.                      *)
Holds(S, e) == IF e \in S THEN 1 ELSE 0

LEMMA CardinalityChange ==
  ASSUME NEW S, NEW T, NEW e, IsFiniteSet(S), IsFiniteSet(T),
         S \ {e} = T \ {e}
  PROVE  /\ Cardinality(S) \in Nat /\ Cardinality(T) \in Nat
         /\ Cardinality(T) = Cardinality(S) - Holds(S, e) + Holds(T, e)
         /\ e \in S => Cardinality(S) > 0
<1>1. Cardinality(S) \in Nat /\ Cardinality(T) \in Nat
  BY FS_CardinalityType
<1>2. Cardinality(S \ {e}) = IF e \in S THEN Cardinality(S) - 1 ELSE Cardinality(S)
  BY FS_RemoveElement
<1>4. Cardinality(T \ {e}) = IF e \in T THEN Cardinality(T) - 1 ELSE Cardinality(T)
  BY FS_RemoveElement
<1>3. e \in S => Cardinality(S) # 0
  BY FS_EmptySet
<1> QED BY <1>1, <1>2, <1>3, <1>4 DEF Holds

LEMMA RowChange ==
  ASSUME NEW e \in Email, NEW g \in Folder,
         \A x \in Email \ {e} : emails'[x] = emails[x]
  PROVE  LET S == EmailsIn(g)  T == EmailsIn(g)'
             U == UnreadIn(g)  V == UnreadIn(g)'
         IN  /\ Cardinality(S) \in Nat /\ Cardinality(U) \in Nat
             /\ Cardinality(T) = Cardinality(S) - Holds(S, e) + Holds(T, e)
             /\ Cardinality(V) = Cardinality(U) - Holds(U, e) + Holds(V, e)
             /\ e \in S => Cardinality(S) > 0
             /\ e \in U => Cardinality(U) > 0
<1> DEFINE S == EmailsIn(g)
           T == EmailsIn(g)'
           U == UnreadIn(g)
           V == UnreadIn(g)'
<1>1. /\ S \subseteq Email /\ T \subseteq Email
      /\ U \subseteq Email /\ V \subseteq Email
  BY DEF EmailsIn, UnreadIn, Stored
<1>2. IsFiniteSet(S) /\ IsFiniteSet(T) /\ IsFiniteSet(U) /\ IsFiniteSet(V)
  BY <1>1, ConstantsAssumption, FS_Subset
<1>3. S \ {e} = T \ {e}
  BY DEF EmailsIn, Stored
<1>4. U \ {e} = V \ {e}
  BY DEF UnreadIn, EmailsIn, Stored
<1> HIDE DEF S, T, U, V
<1>5. /\ Cardinality(S) \in Nat
      /\ Cardinality(T) = Cardinality(S) - Holds(S, e) + Holds(T, e)
      /\ e \in S => Cardinality(S) > 0
  BY <1>2, <1>3, CardinalityChange
<1>6. /\ Cardinality(U) \in Nat
      /\ Cardinality(V) = Cardinality(U) - Holds(U, e) + Holds(V, e)
      /\ e \in U => Cardinality(U) > 0
  BY <1>2, <1>4, CardinalityChange
<1> QED BY <1>5, <1>6 DEF S, T, U, V

LEMMA SendCommitExact ==
  ASSUME WellFormed, CountsExactUnlessRaced, NEW w \in Worker, SendCommit(w),
         NEW g \in Folder \ racedFolders'
  PROVE  FolderExact(g)'
<1> DEFINE q == requests[w]
           f == q.row.folder
<1>1. /\ q \in RequestState /\ q.row \in EmailRow /\ ~q.row.isRead
      /\ f \in Folder /\ q.folder \in Counters
  BY DEF SendCommit, WellFormed, TypeOK, RequestsOK, RequestState, EmailRow
<1>2. PICK e \in Email : emails[e] = Fresh /\ emails' = [emails EXCEPT ![e] = q.row]
  BY DEF SendCommit
<1>3. \A x \in Email \ {e} : emails'[x] = emails[x]
  BY <1>2 DEF WellFormed, TypeOK
<1>4. FolderExact(g) /\ g \notin StaleFolder(w)
  BY DEF SendCommit, CountsExactUnlessRaced
<1>5. e \notin EmailsIn(g) /\ e \notin UnreadIn(g)
  BY <1>2 DEF EmailsIn, UnreadIn, Stored
<1>6. /\ e \in EmailsIn(g)' <=> g = f
      /\ e \in UnreadIn(g)' <=> g = f
  BY <1>1, <1>2, ConstantsAssumption
     DEF EmailsIn, UnreadIn, Stored, WellFormed, TypeOK
<1>7. folders'[g] = IF g = f THEN CountIn(folders[g], FALSE) ELSE folders[g]
  BY <1>1, <1>4 DEF SendCommit, StaleFolder, WellFormed, TypeOK
<1>8. folders[g] \in Counters
  BY DEF WellFormed, TypeOK
<1> QED
  BY <1>3, <1>4, <1>5, <1>6, <1>7, <1>8, RowChange
     DEF FolderExact, CountIn, Counters, Holds

(* A stale commit taints the folder its message is in now.                 *)
LEMMA StaleEmailFolders ==
  ASSUME NEW w, NEW d, requests[w].id \in Stored,
         emails[requests[w].id] # requests[w].row
  PROVE  /\ d \subseteq StaleEmail(w, d)
         /\ requests[w].row.folder \in StaleEmail(w, d)
         /\ emails[requests[w].id].folder \in StaleEmail(w, d)
<1> DEFINE id == requests[w].id
<1>1. {id} \cap Stored = {id}
  OBVIOUS
<1>2. {emails[e].folder : e \in {id} \cap Stored} = {emails[id].folder}
  BY <1>1
<1>3. StaleEmail(w, d) = {requests[w].row.folder} \cup d \cup {emails[id].folder}
  BY <1>2 DEF StaleEmail
<1> QED BY <1>3

LEMMA ReadCommitExact ==
  ASSUME WellFormed, CountsExactUnlessRaced, NEW w \in Worker, ReadCommit(w),
         NEW g \in Folder \ racedFolders'
  PROVE  FolderExact(g)'
<1> DEFINE q == requests[w]
           e == q.id
           f == q.row.folder
<1>1. /\ q.row \in EmailRow /\ ~q.row.isRead /\ f \in Folder
      /\ q.folder \in Counters
      /\ e \in Stored /\ e \in Email /\ emails[e] \in EmailRow
  BY DEF ReadCommit, Stored, RowExists, WellFormed, TypeOK, RequestsOK, RequestState, EmailRow
<1>2. /\ emails' = [emails EXCEPT ![e] = [q.row EXCEPT !.isRead = TRUE]]
      /\ folders' = [folders EXCEPT ![f] =
           Flush(q.folder, [q.folder EXCEPT !.unread = Minus(@, 1)], @)]
  BY DEF ReadCommit
<1>3. \A x \in Email \ {e} : emails'[x] = emails[x]
  BY <1>2 DEF WellFormed, TypeOK
<1>4. FolderExact(g) /\ g \notin StaleFolder(w) /\ g \notin StaleEmail(w, {})
  BY DEF ReadCommit, CountsExactUnlessRaced
<1>5. /\ e \in EmailsIn(g) <=> emails[e].folder = g
      /\ e \in UnreadIn(g) <=> emails[e].folder = g /\ ~emails[e].isRead
  BY <1>1 DEF EmailsIn, UnreadIn
<1>6. (e \in EmailsIn(g)' <=> f = g) /\ e \notin UnreadIn(g)'
  <2>1. emails'[e] = [q.row EXCEPT !.isRead = TRUE]
    BY <1>1, <1>2 DEF WellFormed, TypeOK
  <2> DEFINE r == emails'[e]
  <2>2. r \in EmailRow /\ r.folder = f /\ r.isRead
    BY <1>1, <2>1 DEF EmailRow
  <2>3. e \in Stored'
    BY <1>1, <2>2, ConstantsAssumption DEF Stored
  <2> QED
    BY <2>2, <2>3 DEF EmailsIn, UnreadIn
<1>7. folders[g] \in Counters
  BY DEF WellFormed, TypeOK
<1>8. CASE emails[e] # q.row
  <2>1. g # f /\ g # emails[e].folder
    BY <1>1, <1>4, <1>8, StaleEmailFolders
  <2>2. folders'[g] = folders[g]
    BY <1>2, <2>1 DEF WellFormed, TypeOK
  <2> QED
    BY <1>1, <1>3, <1>4, <1>5, <1>6, <1>7, <2>1, <2>2, RowChange
       DEF FolderExact, Counters, Holds
<1>9. CASE emails[e] = q.row /\ g # f
  <2>1. folders'[g] = folders[g]
    BY <1>2, <1>9 DEF WellFormed, TypeOK
  <2> QED
    BY <1>1, <1>3, <1>4, <1>5, <1>6, <1>7, <1>9, <2>1, RowChange
       DEF FolderExact, Counters, Holds
<1>10. CASE emails[e] = q.row /\ g = f
  <2>1. folders[g] = q.folder
    BY <1>4, <1>10 DEF StaleFolder
  <2>2. folders'[g] = [folders[g] EXCEPT !.unread = Minus(@, 1)]
    BY <1>1, <1>2, <1>10, <2>1 DEF Flush, WellFormed, TypeOK
  <2>3. /\ folders'[g].total = folders[g].total
        /\ folders'[g].unread = Minus(folders[g].unread, 1)
    BY <1>7, <2>2 DEF Counters
  <2> QED
    BY <1>1, <1>3, <1>4, <1>5, <1>6, <1>7, <1>10, <2>3, RowChange
       DEF FolderExact, Counters, Holds, Minus
<1> QED BY <1>8, <1>9, <1>10

LEMMA PurgeCommitExact ==
  ASSUME WellFormed, CountsExactUnlessRaced, NEW w \in Worker, PurgeCommit(w),
         NEW g \in Folder \ racedFolders'
  PROVE  FolderExact(g)'
<1> DEFINE q == requests[w]
           e == q.id
           f == q.row.folder
<1>1. /\ q.row \in EmailRow /\ f \in Folder /\ q.folder \in Counters
      /\ e \in Stored /\ e \in Email /\ emails[e] \in EmailRow
  BY DEF PurgeCommit, Stored, RowExists, WellFormed, TypeOK, RequestsOK, RequestState, EmailRow
<1>2. /\ emails' = [emails EXCEPT ![e] = Purged]
      /\ folders' = [folders EXCEPT ![f] =
           Flush(q.folder, CountOut(q.folder, q.row.isRead), @)]
  BY DEF PurgeCommit
<1>3. \A x \in Email \ {e} : emails'[x] = emails[x]
  BY <1>2 DEF WellFormed, TypeOK
<1>4. FolderExact(g) /\ g \notin StaleFolder(w) /\ g \notin StaleEmail(w, {})
  BY DEF PurgeCommit, CountsExactUnlessRaced
<1>5. /\ e \in EmailsIn(g) <=> emails[e].folder = g
      /\ e \in UnreadIn(g) <=> emails[e].folder = g /\ ~emails[e].isRead
  BY <1>1 DEF EmailsIn, UnreadIn
<1>6. e \notin EmailsIn(g)' /\ e \notin UnreadIn(g)'
  BY <1>1, <1>2 DEF EmailsIn, UnreadIn, Stored, WellFormed, TypeOK
<1>7. folders[g] \in Counters
  BY DEF WellFormed, TypeOK
<1>8. CASE emails[e] # q.row \/ g # f
  <2>1. g # f /\ g # emails[e].folder
    BY <1>1, <1>4, <1>8, StaleEmailFolders
  <2>2. folders'[g] = folders[g]
    BY <1>2, <2>1 DEF WellFormed, TypeOK
  <2> QED
    BY <1>1, <1>3, <1>4, <1>5, <1>6, <1>7, <2>1, <2>2, RowChange
       DEF FolderExact, Counters, Holds
<1>9. CASE emails[e] = q.row /\ g = f
  <2>1. folders[g] = q.folder
    BY <1>4, <1>9 DEF StaleFolder
  <2>2. folders'[g] = CountOut(folders[g], emails[e].isRead)
    BY <1>1, <1>2, <1>9, <2>1 DEF Flush, WellFormed, TypeOK
  <2>3. /\ folders'[g].total = Minus(folders[g].total, 1)
        /\ folders'[g].unread = IF emails[e].isRead THEN folders[g].unread
                                ELSE Minus(folders[g].unread, 1)
    BY <2>2 DEF CountOut
  <2> QED
    BY <1>1, <1>3, <1>4, <1>5, <1>6, <1>7, <1>9, <2>3, RowChange
       DEF FolderExact, Counters, Holds, Minus
<1> QED BY <1>8, <1>9

LEMMA MoveCommitExact ==
  ASSUME WellFormed, CountsExactUnlessRaced, NEW w \in Worker, MoveCommit(w),
         NEW g \in Folder \ racedFolders'
  PROVE  FolderExact(g)'
<1> DEFINE q == requests[w]
           e == q.id
           f == q.row.folder
           t == TrashOf(q.row.mailbox)
<1>1. /\ q.row \in EmailRow /\ f \in Folder /\ q.folder \in Counters
      /\ q.trash \in Counters
      /\ e \in Stored /\ e \in Email /\ emails[e] \in EmailRow
      /\ ~IsTrash(f)
  BY DEF MoveCommit, Stored, RowExists, Moved, WellFormed, TypeOK, RequestsOK, RequestState, EmailRow
<1>2. t \in Folder /\ t # f
  BY <1>1, TrashOfIsTrash DEF IsTrash, TrashSpellings, EmailRow
<1>3. /\ emails' = [emails EXCEPT ![e] = Moved(q.row, t)]
      /\ folders' = [folders EXCEPT
           ![f] = Flush(q.folder, CountOut(q.folder, q.row.isRead), @),
           ![t] = CountIn(q.trash, q.row.isRead)]
  BY DEF MoveCommit
<1>4. \A x \in Email \ {e} : emails'[x] = emails[x]
  BY <1>3 DEF WellFormed, TypeOK
<1>5. /\ FolderExact(g) /\ g \notin StaleFolder(w) /\ g \notin StaleTrash(w)
      /\ g \notin StaleEmail(w, {t})
  BY DEF MoveCommit, CountsExactUnlessRaced
<1>6. /\ e \in EmailsIn(g) <=> emails[e].folder = g
      /\ e \in UnreadIn(g) <=> emails[e].folder = g /\ ~emails[e].isRead
  BY <1>1 DEF EmailsIn, UnreadIn
<1>7. /\ e \in EmailsIn(g)' <=> t = g
      /\ e \in UnreadIn(g)' <=> t = g /\ ~q.row.isRead
  BY <1>1, <1>2, <1>3, ConstantsAssumption
     DEF Moved, EmailsIn, UnreadIn, Stored, WellFormed, TypeOK, EmailRow
<1>8. folders[g] \in Counters
  BY DEF WellFormed, TypeOK
<1>9. CASE emails[e] # q.row \/ (g # f /\ g # t)
  <2>1. g # f /\ g # t /\ g # emails[e].folder
    BY <1>1, <1>5, <1>9, StaleEmailFolders
  <2>2. folders'[g] = folders[g]
    BY <1>3, <2>1 DEF WellFormed, TypeOK
  <2> QED
    BY <1>1, <1>4, <1>5, <1>6, <1>7, <1>8, <2>1, <2>2, RowChange
       DEF FolderExact, Counters, Holds
<1>10. CASE emails[e] = q.row /\ g = f
  <2>1. folders[g] = q.folder
    BY <1>5, <1>10 DEF StaleFolder
  <2>2. folders'[g] = CountOut(folders[g], emails[e].isRead)
    BY <1>1, <1>2, <1>3, <1>10, <2>1 DEF Flush, WellFormed, TypeOK
  <2>3. /\ folders'[g].total = Minus(folders[g].total, 1)
        /\ folders'[g].unread = IF emails[e].isRead THEN folders[g].unread
                                ELSE Minus(folders[g].unread, 1)
    BY <2>2 DEF CountOut
  <2> QED
    BY <1>1, <1>2, <1>4, <1>5, <1>6, <1>7, <1>8, <1>10, <2>3, RowChange
       DEF FolderExact, Counters, Holds, Minus
<1>11. CASE emails[e] = q.row /\ g = t
  <2>1. folders[g] = q.trash
    BY <1>5, <1>11 DEF StaleTrash
  <2>2. folders'[g] = CountIn(folders[g], emails[e].isRead)
    BY <1>1, <1>2, <1>3, <1>11, <2>1 DEF WellFormed, TypeOK
  <2>3. /\ folders'[g].total = folders[g].total + 1
        /\ folders'[g].unread = IF emails[e].isRead THEN folders[g].unread
                                ELSE folders[g].unread + 1
    BY <2>2 DEF CountIn
  <2> QED
    BY <1>1, <1>2, <1>4, <1>5, <1>6, <1>7, <1>8, <1>11, <2>3, RowChange
       DEF FolderExact, Counters, Holds
<1> QED BY <1>9, <1>10, <1>11

LEMMA NextExact ==
  WellFormed /\ CountsExactUnlessRaced /\ [Next]_vars => CountsExactUnlessRaced'
<1> SUFFICES ASSUME WellFormed, CountsExactUnlessRaced, [Next]_vars
             PROVE  CountsExactUnlessRaced'
  OBVIOUS
<1>1. ASSUME UNCHANGED <<emails, folders, racedFolders>>
      PROVE  CountsExactUnlessRaced'
  BY <1>1 DEF CountsExactUnlessRaced, FolderExact, EmailsIn, UnreadIn, Stored
<1>2. ASSUME NEW w \in Worker,
             \/ SendStart(w) \/ SendLoadFolder(w) \/ ReadStart(w)
             \/ ReadLoadFolder(w) \/ DeleteStart(w) \/ DeleteLoadFolder(w)
             \/ PurgeLoadMailbox(w) \/ MoveLoadTrash(w) \/ Rollback(w)
             \/ NoEffect(w)
      PROVE  UNCHANGED <<emails, folders, racedFolders>>
  BY <1>2
     DEF SendStart, SendLoadFolder, ReadStart, ReadLoadFolder, DeleteStart,
         DeleteLoadFolder, PurgeLoadMailbox, MoveLoadTrash, Rollback,
         NoEffect, Start, Continue, Load, vars
<1>3. ASSUME NEW w \in Worker,
             SendCommit(w) \/ ReadCommit(w) \/ PurgeCommit(w) \/ MoveCommit(w)
      PROVE  CountsExactUnlessRaced'
  BY <1>3, SendCommitExact, ReadCommitExact, PurgeCommitExact, MoveCommitExact
     DEF CountsExactUnlessRaced
<1>4. CASE UNCHANGED vars
  BY <1>1, <1>4 DEF vars
<1>5. CASE Next
  BY <1>1, <1>2, <1>3, <1>5 DEF Next
<1> QED BY <1>4, <1>5

(* In every reachable state each folder shows its exact numbers of         *)
(* messages and of unread messages, unless some transaction committed on   *)
(* top of a row of it that had changed since it was loaded: overwriting a  *)
(* stale row is the ONLY way the hand-kept counters can drift.             *)
THEOREM ExactUnlessRaced == Spec => []CountsExactUnlessRaced
<1>1. Init => CountsExactUnlessRaced
  <2> SUFFICES ASSUME Init, NEW f \in Folder PROVE FolderExact(f)
    BY DEF CountsExactUnlessRaced
  <2>1. EmailsIn(f) = {} /\ UnreadIn(f) = {}
    BY DEF Init, EmailsIn, UnreadIn, Stored
  <2>2. folders[f] = ZeroCount
    BY DEF Init
  <2> QED BY <2>1, <2>2, FS_EmptySet DEF FolderExact, ZeroCount
<1> QED BY <1>1, InitWellFormed, NextWellFormed, NextExact, PTL DEF Spec

-----------------------------------------------------------------------------
(* No transaction brings a purged message back, however late it commits:   *)
(* the write back of a message needs a row to update, and an insert takes  *)
(* an id never handed out.                                                 *)
THEOREM PurgeIsFinal == Spec => PurgedIsFinal
<1>1. ASSUME WellFormed, [Next]_vars
      PROVE  [\A e \in Email : emails[e] = Purged => emails'[e] = Purged]_vars
  <2> SUFFICES ASSUME Next, NEW e \in Email, emails[e] = Purged
               PROVE  emails'[e] = Purged
    BY <1>1
  <2>1. e \notin Stored /\ emails[e] # Fresh
    BY ConstantsAssumption DEF Stored
  <2>2. PICK w \in Worker :
          \/ UNCHANGED emails
          \/ \E d \in Email, r \in EmailRow \cup {Purged} :
               /\ d \in Stored \/ emails[d] = Fresh
               /\ emails' = [emails EXCEPT ![d] = r]
    <3>1. PICK w \in Worker :
            \/ UNCHANGED emails
            \/ SendCommit(w) \/ ReadCommit(w) \/ PurgeCommit(w) \/ MoveCommit(w)
      BY DEF Next, SendStart, SendLoadFolder, ReadStart, ReadLoadFolder,
             DeleteStart, DeleteLoadFolder, PurgeLoadMailbox, MoveLoadTrash,
             Rollback, NoEffect, Start, Continue, Load, vars
    <3>2. CASE SendCommit(w)
      BY <1>1, <3>2 DEF SendCommit, WellFormed, RequestsOK
    <3>3. CASE ReadCommit(w)
      <4>1. [requests[w].row EXCEPT !.isRead = TRUE] \in EmailRow
        BY <1>1, <3>3 DEF ReadCommit, WellFormed, RequestsOK, EmailRow
      <4> QED BY <3>3, <4>1 DEF ReadCommit, Stored, RowExists
    <3>4. CASE PurgeCommit(w)
      BY <3>4 DEF PurgeCommit, Stored, RowExists
    <3>5. CASE MoveCommit(w)
      <4>1. requests[w].row \in EmailRow
        BY <1>1, <3>5 DEF MoveCommit, WellFormed, RequestsOK
      <4>2. TrashOf(requests[w].row.mailbox) \in Folder
        BY <4>1, TrashOfIsTrash DEF EmailRow
      <4>3. [requests[w].row EXCEPT !.folder = TrashOf(requests[w].row.mailbox)]
              \in EmailRow
        BY <4>1, <4>2 DEF EmailRow
      <4> QED BY <3>5, <4>3 DEF MoveCommit, Stored, RowExists, Moved
    <3> QED BY <3>1, <3>2, <3>3, <3>4, <3>5
  <2>3. CASE UNCHANGED emails
    BY <2>3
  <2>4. ASSUME NEW d \in Email, d \in Stored \/ emails[d] = Fresh, NEW r,
               emails' = [emails EXCEPT ![d] = r]
        PROVE  emails'[e] = Purged
    BY <1>1, <2>1, <2>4 DEF WellFormed, TypeOK
  <2> QED BY <2>2, <2>3, <2>4
<1> QED BY <1>1, InitWellFormed, NextWellFormed, PTL DEF Spec, PurgedIsFinal

-----------------------------------------------------------------------------
(* One transaction at a time: what a transaction loaded is still what the  *)
(* tables hold, so nothing it writes back is stale.                        *)
SnapshotsFresh ==
  \A w \in Worker :
    LET q == requests[w]
    IN  /\ q.pc \notin {"idle", "sendFolder", "sendCommit"} =>
             q.row = emails[q.id]
        /\ q.pc \in {"sendCommit", "readCommit", "purgeMailbox", "purgeCommit",
                     "moveTrash", "moveCommit"} =>
             q.folder = folders[q.row.folder]
        /\ q.pc = "moveCommit" => q.trash = folders[TrashOf(q.row.mailbox)]

NeverRaced == SnapshotsFresh /\ racedFolders = {}

LEMMA SerialStep ==
  ASSUME NEW w0, Worker = {w0}, WellFormed, NeverRaced, [Next]_vars
  PROVE  NeverRaced'
<1> w0 \in Worker
  OBVIOUS
<1>1. requests' \in [Worker -> RequestState] /\ requests \in [Worker -> RequestState]
  BY NextWellFormed DEF WellFormed, TypeOK
<1>2. CASE UNCHANGED vars
  BY <1>2 DEF vars, NeverRaced, SnapshotsFresh
<1>3. ASSUME NEW w \in Worker, Finish(w), racedFolders' = {}
      PROVE  NeverRaced'
  BY <1>1, <1>3 DEF Finish, Idle, NeverRaced, SnapshotsFresh
<1>4. ASSUME NEW q \in RequestState, Load(w0, q),
             q.pc \notin {"idle", "sendFolder", "sendCommit"} =>
               q.row = emails[q.id],
             q.pc \in {"sendCommit", "readCommit", "purgeMailbox",
                       "purgeCommit", "moveTrash", "moveCommit"} =>
               q.folder = folders[q.row.folder],
             q.pc = "moveCommit" => q.trash = folders[TrashOf(q.row.mailbox)]
      PROVE  NeverRaced'
  <2>1. requests'[w0] = q
    BY <1>1, <1>4 DEF Load
  <2>2. UNCHANGED <<emails, folders, racedFolders>>
    BY <1>4 DEF Load
  <2> QED BY <1>4, <2>1, <2>2 DEF NeverRaced, SnapshotsFresh
<1> DEFINE r == requests[w0]
<1>5. CASE \/ SendStart(w0) \/ ReadStart(w0) \/ DeleteStart(w0)
  <2>1. PICK q : /\ Load(w0, q)
                 /\ \/ q.pc = "sendFolder"
                    \/ /\ q.pc \in {"readFolder", "deleteFolder"}
                       /\ q.row = emails[q.id]
    <3>1. CASE SendStart(w0)
      <4>1. PICK row, used : Load(w0, [Idle EXCEPT !.pc = "sendFolder",
                                                  !.row = row, !.used = used])
        BY <3>1 DEF SendStart, Start
      <4> WITNESS [Idle EXCEPT !.pc = "sendFolder", !.row = row, !.used = used]
      <4> QED BY <4>1 DEF Idle
    <3>2. CASE ReadStart(w0)
      <4>1. PICK e : Load(w0, [Idle EXCEPT !.pc = "readFolder", !.id = e,
                                           !.row = emails[e]])
        BY <3>2 DEF ReadStart, Start
      <4> WITNESS [Idle EXCEPT !.pc = "readFolder", !.id = e, !.row = emails[e]]
      <4> QED BY <4>1 DEF Idle
    <3>3. CASE DeleteStart(w0)
      <4>1. PICK e : Load(w0, [Idle EXCEPT !.pc = "deleteFolder", !.id = e,
                                           !.row = emails[e]])
        BY <3>3 DEF DeleteStart, Start
      <4> WITNESS [Idle EXCEPT !.pc = "deleteFolder", !.id = e, !.row = emails[e]]
      <4> QED BY <4>1 DEF Idle
    <3> QED BY <1>5, <3>1, <3>2, <3>3
  <2>2. requests'[w0] = q
    BY <1>1, <2>1 DEF Load
  <2>3. q \in RequestState
    BY <1>1, <2>2
  <2> QED BY <1>4, <2>1, <2>3
<1>6. CASE SendLoadFolder(w0) \/ ReadLoadFolder(w0) \/ DeleteLoadFolder(w0)
  <2>1. PICK pc \in {"sendCommit", "readCommit", "purgeMailbox", "moveTrash"} :
          /\ Load(w0, [r EXCEPT !.pc = pc, !.folder = folders[r.row.folder]])
          /\ pc # "sendCommit" =>
               r.pc \notin {"idle", "sendFolder", "sendCommit"}
    BY <1>6 DEF SendLoadFolder, ReadLoadFolder, DeleteLoadFolder, Continue
  <2> DEFINE q == [r EXCEPT !.pc = pc, !.folder = folders[r.row.folder]]
  <2>2. requests'[w0] = q
    BY <1>1, <2>1 DEF Load
  <2>3. q \in RequestState
    BY <1>1, <2>2
  <2>4. /\ q.pc = pc /\ q.row = r.row /\ q.id = r.id
        /\ q.folder = folders[r.row.folder]
    BY <1>1 DEF RequestState
  <2>5. pc # "sendCommit" => r.row = emails[r.id]
    BY <2>1 DEF NeverRaced, SnapshotsFresh
  <2> HIDE DEF q
  <2> QED BY <1>4, <2>1, <2>3, <2>4, <2>5 DEF q
<1>7. CASE PurgeLoadMailbox(w0) \/ MoveLoadTrash(w0)
  <2>1. /\ r.pc \in {"purgeMailbox", "moveTrash"}
        /\ r.row = emails[r.id] /\ r.folder = folders[r.row.folder]
    BY <1>7 DEF PurgeLoadMailbox, MoveLoadTrash, NeverRaced, SnapshotsFresh
  <2>2. CASE PurgeLoadMailbox(w0)
    <3> DEFINE q == [r EXCEPT !.pc = "purgeCommit",
                              !.used = mailboxes[r.row.mailbox]]
    <3>1. Load(w0, q)
      BY <2>2 DEF PurgeLoadMailbox, Continue
    <3>2. q \in RequestState
      BY <1>1, <3>1 DEF Load
    <3>3. /\ q.pc = "purgeCommit" /\ q.row = r.row /\ q.id = r.id
          /\ q.folder = r.folder
      BY <1>1 DEF RequestState
    <3> QED BY <1>4, <2>1, <3>1, <3>2, <3>3
  <2>3. CASE MoveLoadTrash(w0)
    <3> DEFINE q == [r EXCEPT !.pc = "moveCommit",
                              !.trash = folders[TrashOf(r.row.mailbox)]]
    <3>1. Load(w0, q)
      BY <2>3 DEF MoveLoadTrash, Continue
    <3>2. q \in RequestState
      BY <1>1, <3>1 DEF Load
    <3>3. /\ q.pc = "moveCommit" /\ q.row = r.row /\ q.id = r.id
          /\ q.folder = r.folder /\ q.trash = folders[TrashOf(r.row.mailbox)]
      BY <1>1 DEF RequestState
    <3> QED BY <1>4, <2>1, <3>1, <3>2, <3>3
  <2> QED BY <1>7, <2>2, <2>3
<1>8. CASE SendCommit(w0)
  BY <1>3, <1>8 DEF SendCommit, StaleFolder, NeverRaced, SnapshotsFresh
<1>9. CASE ReadCommit(w0)
  BY <1>3, <1>9
     DEF ReadCommit, StaleFolder, StaleEmail, NeverRaced, SnapshotsFresh
<1>10. CASE PurgeCommit(w0)
  BY <1>3, <1>10
     DEF PurgeCommit, StaleFolder, StaleEmail, NeverRaced, SnapshotsFresh
<1>11. CASE MoveCommit(w0)
  BY <1>3, <1>11
     DEF MoveCommit, StaleFolder, StaleTrash, StaleEmail, NeverRaced,
         SnapshotsFresh
<1>12. CASE Rollback(w0)
  BY <1>3, <1>12 DEF Rollback, NeverRaced
<1>13. CASE NoEffect(w0)
  BY <1>2, <1>13 DEF NoEffect
<1> QED
  BY <1>2, <1>4, <1>5, <1>6, <1>7, <1>8, <1>9, <1>10, <1>11, <1>12, <1>13
     DEF Next

(* Run one transaction at a time, the service keeps the exact counts its   *)
(* folder list promises: the arithmetic of every operation is right, and   *)
(* only concurrency breaks it.                                             *)
THEOREM SerialExact ==
  ASSUME NEW w0, Worker = {w0}
  PROVE  Spec => []FolderCountsExact
<1>1. Init => NeverRaced
  BY DEF Init, NeverRaced, SnapshotsFresh, Idle
<1>2. WellFormed /\ NeverRaced /\ [Next]_vars => NeverRaced'
  BY SerialStep
<1>3. NeverRaced /\ CountsExactUnlessRaced => FolderCountsExact
  BY DEF NeverRaced, CountsExactUnlessRaced, FolderCountsExact
<1> QED
  BY <1>1, <1>2, <1>3, InitWellFormed, NextWellFormed, ExactUnlessRaced, PTL
     DEF Spec

-----------------------------------------------------------------------------
(* What a single transaction may do to a stored message.                   *)

(* A purge under way was decided for a message in a folder called Trash.   *)
PurgesTrash ==
  \A w \in Worker :
    requests[w].pc \in {"purgeMailbox", "purgeCommit"} =>
      IsTrash(requests[w].row.folder)

(* What a step of a lone transaction does to each stored message.          *)
SerialEffect(e) ==
  \/ emails'[e] = emails[e]
  \/ emails'[e] = [emails[e] EXCEPT !.isRead = TRUE]
  \/ emails'[e] = Purged /\ IsTrash(emails[e].folder)
  \/ /\ ~IsTrash(emails[e].folder)
     /\ emails'[e] = Moved(emails[e], TrashOf(emails[e].mailbox))

LEMMA PurgesTrashStep ==
  ASSUME WellFormed, PurgesTrash, [Next]_vars
  PROVE  PurgesTrash'
<1>1. requests \in [Worker -> RequestState]
  BY DEF WellFormed, TypeOK
<1>2. CASE UNCHANGED vars
  BY <1>2 DEF vars, PurgesTrash, IsTrash
<1>3. ASSUME NEW w \in Worker, NEW q,
             requests' = [requests EXCEPT ![w] = q],
             q.pc \in {"purgeMailbox", "purgeCommit"} => IsTrash(q.row.folder)
      PROVE  PurgesTrash'
  <2> SUFFICES ASSUME NEW v \in Worker,
                      requests'[v].pc \in {"purgeMailbox", "purgeCommit"}
               PROVE  IsTrash(requests'[v].row.folder)
    BY DEF PurgesTrash, IsTrash
  <2>1. CASE v = w
    BY <1>1, <1>3, <2>1
  <2>2. CASE v # w
    BY <1>1, <1>3, <2>2 DEF PurgesTrash
  <2> QED BY <2>1, <2>2
<1>4. ASSUME NEW w \in Worker, Finish(w) PROVE PurgesTrash'
  BY <1>3, <1>4 DEF Finish, Idle
<1>5. ASSUME NEW w \in Worker, SendStart(w) \/ ReadStart(w) \/ DeleteStart(w)
      PROVE  PurgesTrash'
  <2>1. PICK q : /\ requests' = [requests EXCEPT ![w] = q]
                 /\ q.pc \notin {"purgeMailbox", "purgeCommit"}
    <3>1. CASE SendStart(w)
      <4>1. PICK row, used :
              Load(w, [Idle EXCEPT !.pc = "sendFolder", !.row = row, !.used = used])
        BY <3>1 DEF SendStart, Start
      <4> WITNESS [Idle EXCEPT !.pc = "sendFolder", !.row = row, !.used = used]
      <4> QED BY <4>1 DEF Idle, Load
    <3>2. CASE ReadStart(w)
      <4>1. PICK e : Load(w, [Idle EXCEPT !.pc = "readFolder", !.id = e,
                                           !.row = emails[e]])
        BY <3>2 DEF ReadStart, Start
      <4> WITNESS [Idle EXCEPT !.pc = "readFolder", !.id = e, !.row = emails[e]]
      <4> QED BY <4>1 DEF Idle, Load
    <3>3. CASE DeleteStart(w)
      <4>1. PICK e : Load(w, [Idle EXCEPT !.pc = "deleteFolder", !.id = e,
                                           !.row = emails[e]])
        BY <3>3 DEF DeleteStart, Start
      <4> WITNESS [Idle EXCEPT !.pc = "deleteFolder", !.id = e, !.row = emails[e]]
      <4> QED BY <4>1 DEF Idle, Load
    <3> QED BY <1>5, <3>1, <3>2, <3>3
  <2> QED BY <1>3, <2>1
<1>6. ASSUME NEW w \in Worker,
             \/ SendLoadFolder(w) \/ ReadLoadFolder(w) \/ DeleteLoadFolder(w)
             \/ PurgeLoadMailbox(w) \/ MoveLoadTrash(w)
      PROVE  PurgesTrash'
  <2> DEFINE r == requests[w]
  <2>0. r \in RequestState
    BY <1>1
  <2>1. CASE SendLoadFolder(w) \/ ReadLoadFolder(w)
    <3>1. PICK pc \in {"sendCommit", "readCommit"} :
            requests' = [requests EXCEPT ![w] =
              [r EXCEPT !.pc = pc, !.folder = folders[r.row.folder]]]
      BY <2>1 DEF SendLoadFolder, ReadLoadFolder, Continue, Load
    <3> QED BY <1>3, <2>0, <3>1 DEF RequestState
  <2>2. CASE DeleteLoadFolder(w)
    <3> DEFINE pc == IF IsTrash(r.row.folder) THEN "purgeMailbox" ELSE "moveTrash"
    <3>1. requests' = [requests EXCEPT ![w] =
            [r EXCEPT !.pc = pc, !.folder = folders[r.row.folder]]]
      BY <2>2 DEF DeleteLoadFolder, Continue, Load
    <3>2. pc = "purgeMailbox" => IsTrash(r.row.folder)
      OBVIOUS
    <3>3. pc # "purgeCommit"
      OBVIOUS
    <3> HIDE DEF pc
    <3> QED BY <1>3, <2>0, <3>1, <3>2, <3>3 DEF RequestState
  <2>3. CASE PurgeLoadMailbox(w)
    <3>1. /\ requests' = [requests EXCEPT ![w] =
               [r EXCEPT !.pc = "purgeCommit", !.used = mailboxes[r.row.mailbox]]]
          /\ IsTrash(r.row.folder)
      BY <2>3 DEF PurgeLoadMailbox, Continue, Load, PurgesTrash
    <3> QED BY <1>3, <2>0, <3>1 DEF RequestState
  <2>4. CASE MoveLoadTrash(w)
    <3>1. requests' = [requests EXCEPT ![w] =
            [r EXCEPT !.pc = "moveCommit",
                      !.trash = folders[TrashOf(r.row.mailbox)]]]
      BY <2>4 DEF MoveLoadTrash, Continue, Load
    <3> QED BY <1>3, <2>0, <3>1 DEF RequestState
  <2> QED BY <1>6, <2>1, <2>2, <2>3, <2>4
<1>7. ASSUME NEW w \in Worker,
             \/ SendCommit(w) \/ ReadCommit(w) \/ PurgeCommit(w)
             \/ MoveCommit(w) \/ Rollback(w)
      PROVE  PurgesTrash'
  BY <1>4, <1>7 DEF SendCommit, ReadCommit, PurgeCommit, MoveCommit, Rollback
<1>8. ASSUME NEW w \in Worker, NoEffect(w) PROVE PurgesTrash'
  BY <1>2, <1>8 DEF NoEffect
<1> QED
  BY <1>2, <1>5, <1>6, <1>7, <1>8 DEF Next

(* A lone transaction works on the rows as they are, so it marks read,     *)
(* moves or purges the message it looked at and no other.                  *)
LEMMA SerialEffects ==
  ASSUME NEW w0, Worker = {w0}, WellFormed, NeverRaced, PurgesTrash,
         [Next]_vars, NEW e \in Stored
  PROVE  SerialEffect(e)
<1> DEFINE q == requests[w0]
<1>0. w0 \in Worker /\ e \in Email /\ emails[e] \notin {Fresh, Purged}
      /\ emails \in [Email -> EmailRow \cup {Fresh, Purged}]
  BY DEF Stored, WellFormed, TypeOK
<1>1. \/ UNCHANGED emails
      \/ SendCommit(w0) \/ ReadCommit(w0) \/ PurgeCommit(w0) \/ MoveCommit(w0)
  BY DEF Next, SendStart, SendLoadFolder, ReadStart, ReadLoadFolder,
         DeleteStart, DeleteLoadFolder, PurgeLoadMailbox, MoveLoadTrash,
         Rollback, NoEffect, Start, Continue, Load, vars
<1>2. CASE UNCHANGED emails
  BY <1>2 DEF SerialEffect
<1>3. CASE SendCommit(w0)
  BY <1>0, <1>3 DEF SendCommit, SerialEffect
<1>4. CASE ReadCommit(w0)
  <2>1. /\ q.row = emails[q.id]
        /\ emails' = [emails EXCEPT ![q.id] = [q.row EXCEPT !.isRead = TRUE]]
    BY <1>0, <1>4 DEF ReadCommit, NeverRaced, SnapshotsFresh
  <2> QED BY <1>0, <2>1 DEF SerialEffect
<1>5. CASE PurgeCommit(w0)
  <2>1. /\ q.row = emails[q.id] /\ IsTrash(q.row.folder)
        /\ emails' = [emails EXCEPT ![q.id] = Purged]
    BY <1>0, <1>5 DEF PurgeCommit, NeverRaced, SnapshotsFresh, PurgesTrash
  <2> QED BY <1>0, <2>1 DEF SerialEffect
<1>6. CASE MoveCommit(w0)
  <2>1. /\ q.row = emails[q.id] /\ ~IsTrash(q.row.folder)
        /\ emails' = [emails EXCEPT
             ![q.id] = Moved(q.row, TrashOf(q.row.mailbox))]
    BY <1>0, <1>6 DEF MoveCommit, NeverRaced, SnapshotsFresh, WellFormed,
                      RequestsOK
  <2> QED BY <1>0, <2>1 DEF SerialEffect
<1> QED BY <1>1, <1>2, <1>3, <1>4, <1>5, <1>6

(* The invariant of a lone transaction.                                    *)
SerialInv == WellFormed /\ NeverRaced /\ PurgesTrash

LEMMA SerialInvariance ==
  ASSUME NEW w0, Worker = {w0}
  PROVE  Spec => []SerialInv
<1>1. Init => NeverRaced /\ PurgesTrash
  BY DEF Init, NeverRaced, SnapshotsFresh, PurgesTrash, Idle
<1>2. SerialInv /\ [Next]_vars => SerialInv'
  BY NextWellFormed, SerialStep, PurgesTrashStep DEF SerialInv
<1> QED
  BY <1>1, <1>2, InitWellFormed, PTL DEF Spec, SerialInv

(* With one transaction at a time a message that was trashed stays in the  *)
(* Trash until it is purged: the run email_trash_undone shows that this is *)
(* lost as soon as there are two.                                          *)
THEOREM SerialTrashSticks ==
  ASSUME NEW w0, Worker = {w0}
  PROVE  Spec => TrashSticks
<1>1. SerialInv /\ [Next]_vars =>
        [\A e \in Stored :
           FolderName[emails[e].folder] = "Trash" =>
             \/ emails'[e] = Purged
             \/ emails'[e].folder = emails[e].folder]_vars
  <2> SUFFICES ASSUME SerialInv, [Next]_vars, NEW e \in Stored,
                      FolderName[emails[e].folder] = "Trash"
               PROVE  \/ emails'[e] = Purged
                      \/ emails'[e].folder = emails[e].folder
    OBVIOUS
  <2>1. SerialEffect(e) /\ IsTrash(emails[e].folder)
    BY SerialEffects DEF SerialInv, IsTrash, TrashSpellings
  <2>2. emails[e] \in EmailRow
    BY DEF SerialInv, WellFormed, TypeOK, Stored
  <2> QED BY <2>1, <2>2 DEF SerialEffect, EmailRow
<1> QED BY <1>1, SerialInvariance, PTL DEF Spec, TrashSticks

(* With one transaction at a time a message once read is never unread      *)
(* again, moved or not.                                                    *)
THEOREM SerialReadSticks ==
  ASSUME NEW w0, Worker = {w0}
  PROVE  Spec => ReadSticks
<1>1. SerialInv /\ [Next]_vars =>
        [\A e \in Stored :
           emails[e].isRead => emails'[e] = Purged \/ emails'[e].isRead]_vars
  <2> SUFFICES ASSUME SerialInv, [Next]_vars, NEW e \in Stored,
                      emails[e].isRead
               PROVE  emails'[e] = Purged \/ emails'[e].isRead
    OBVIOUS
  <2>1. SerialEffect(e)
    BY SerialEffects DEF SerialInv
  <2>2. emails[e] \in EmailRow
    BY DEF SerialInv, WellFormed, TypeOK, Stored
  <2> QED BY <2>1, <2>2 DEF SerialEffect, EmailRow, Moved
<1> QED BY <1>1, SerialInvariance, PTL DEF Spec, ReadSticks

(* With one transaction at a time, a message is purged only out of a       *)
(* folder called Trash up to case, whatever folders the mailboxes have.    *)
THEOREM SerialPurge ==
  ASSUME NEW w0, Worker = {w0}
  PROVE  Spec => PurgedOnlyFromTrashNames
<1>1. SerialInv /\ [Next]_vars =>
        [\A e \in Stored :
           emails'[e] = Purged => FolderName[emails[e].folder] \in TrashSpellings]_vars
  <2> SUFFICES ASSUME SerialInv, [Next]_vars, NEW e \in Stored,
                      emails'[e] = Purged
               PROVE  FolderName[emails[e].folder] \in TrashSpellings
    OBVIOUS
  <2>1. SerialEffect(e)
    BY SerialEffects DEF SerialInv
  <2>2. emails[e] \in EmailRow /\ emails[e] # Purged
    BY DEF SerialInv, WellFormed, TypeOK, Stored
  <2>3. TrashOf(emails[e].mailbox) \in Folder
    BY <2>2, TrashOfIsTrash DEF EmailRow
  <2>4. Moved(emails[e], TrashOf(emails[e].mailbox)) # Purged
        /\ [emails[e] EXCEPT !.isRead = TRUE] # Purged
    BY <2>2, <2>3, ConstantsAssumption DEF Moved, EmailRow
  <2> QED BY <2>1, <2>2, <2>4 DEF SerialEffect, IsTrash
<1> QED BY <1>1, SerialInvariance, PTL DEF Spec, PurgedOnlyFromTrashNames

-----------------------------------------------------------------------------
(* Sums of sizes.  MapThenSumSet is a fold by a function defined by        *)
(* recursion over the subsets of its argument.  That such a function       *)
(* exists, and that it does not depend on the order the members are picked *)
(* in, is shown by the least counterexample, by size.                      *)
Total(rows, S) == MapThenSumSet(LAMBDA e : rows[e].size, S)

Pick(s) == CHOOSE x \in s : TRUE

IsSum(f, rows, S) ==
   f = [s \in SUBSET S |-> IF s = {} THEN 0 ELSE rows[Pick(s)].size + f[s \ {Pick(s)}]]

LEMMA TotalIter == \A rows, S : Total(rows, S) = (CHOOSE f : IsSum(f, rows, S))[S]
BY DEF Total, MapThenSumSet, MapThenFoldSet, IsSum, Pick

(* Every set of numbers has a least one.                                   *)
LEMMA LeastNat ==
  ASSUME NEW T \in SUBSET Nat, T # {}
  PROVE  \E n \in T : \A k \in T : n <= k
<1>1. PICK n \in T : \A k \in T : ~ (<<k, n>> \in OpToRel(<, Nat))
  BY NatLessThanWellFounded, WFMin
<1>2. ASSUME NEW k \in T PROVE n <= k
  <2>1. ~(k < n)
    BY <1>1 DEF OpToRel
  <2> QED BY <2>1
<1> QED BY <1>2

(* A set and the set without one of its members.                         *)
LEMMA Smaller ==
  ASSUME NEW S, IsFiniteSet(S), NEW s \in SUBSET S, NEW x \in s
  PROVE  /\ s \ {x} \in SUBSET S
         /\ Cardinality(s) \in Nat /\ Cardinality(s) > 0
         /\ Cardinality(s \ {x}) = Cardinality(s) - 1
<1>1. IsFiniteSet(s)
  BY FS_Subset
<1>2. Cardinality(s) \in Nat /\ Cardinality(s \ {x}) = Cardinality(s) - 1
  BY <1>1, FS_RemoveElement, FS_CardinalityType
<1>3. Cardinality(s \ {x}) \in Nat
  BY <1>1, FS_Subset, FS_CardinalityType
<1> QED
  BY <1>2, <1>3

LEMMA Picked == \A s : s # {} => Pick(s) \in s
BY DEF Pick

(* A table for the sets of up to n members gives one for those of n + 1.   *)
LEMMA SumExists ==
  ASSUME NEW rows, NEW S, IsFiniteSet(S)
  PROVE  \E f : IsSum(f, rows, S)
<1> DEFINE Level(n) == {s \in SUBSET S : Cardinality(s) <= n}
           Body(f, s) == IF s = {} THEN 0 ELSE rows[Pick(s)].size + f[s \ {Pick(s)}]
           Sums(n) == \E f : f = [s \in Level(n) |-> Body(f, s)]
           T == {n \in Nat : ~Sums(n)}
<1>1. T = {}
  <2>1. SUFFICES ASSUME T # {} PROVE FALSE
    OBVIOUS
  <2>2. PICK n \in T : \A k \in T : n <= k
    <3> HIDE DEF T
    <3>1. T \in SUBSET Nat
      BY DEF T
    <3> QED BY <2>1, <3>1, LeastNat
  <2>3. CASE n = 0
    <3> DEFINE f == [s \in Level(0) |-> 0]
    <3>1. ASSUME NEW s \in Level(0) PROVE s = {}
      <4> DEFINE c == Cardinality(s)
      <4>1. \A x \in s : c \in Nat /\ c > 0
        BY <3>1, Smaller
      <4>2. c <= 0
        BY <3>1
      <4> HIDE DEF c
      <4>3. \A x \in s : FALSE
        BY <4>1, <4>2
      <4> QED
        BY <4>3
    <3>2. f = [s \in Level(0) |-> Body(f, s)]
      BY <3>1
    <3> QED
      BY <2>3, <3>2
  <2>4. CASE n # 0
    <3>1. n - 1 \in Nat /\ n - 1 \notin T
      <4>1. n \in Nat
        BY <2>2
      <4> HIDE DEF T
      <4> QED
        BY <2>2, <2>4, <4>1
    <3>2. PICK f : f = [s \in Level(n - 1) |-> Body(f, s)]
      BY <3>1
    <3> DEFINE g == [s \in Level(n) |-> Body(f, s)]
    <3>3. ASSUME NEW s \in Level(n), s # {}
          PROVE  g[s \ {Pick(s)}] = f[s \ {Pick(s)}]
      <4> DEFINE t == s \ {Pick(s)}
      <4>1. t \in SUBSET S /\ Cardinality(t) <= n - 1 /\ Cardinality(t) <= n
        BY <2>2, <3>3, Smaller, Picked
      <4> HIDE DEF t, Body
      <4>2. t \in Level(n - 1) /\ t \in Level(n)
        BY <4>1
      <4>3. f[t] = Body(f, t)
        BY <3>2, <4>2
      <4>4. g[t] = Body(f, t)
        BY <4>2
      <4> QED BY <4>3, <4>4 DEF t
    <3>4. \A s \in Level(n) : Body(f, s) = Body(g, s)
      BY <3>3
    <3>5. g = [s \in Level(n) |-> Body(g, s)]
      <4> HIDE DEF Body
      <4> QED BY <3>4
    <3> QED
      BY <2>2, <3>5
  <2> QED
    BY <2>3, <2>4
<1>2. Cardinality(S) \in Nat
  BY FS_CardinalityType
<1>3. PICK f : f = [s \in Level(Cardinality(S)) |-> Body(f, s)]
  BY <1>1, <1>2
<1>4. Level(Cardinality(S)) = SUBSET S
  BY FS_Subset
<1>5. f = [s \in SUBSET S |-> Body(f, s)]
  BY <1>3, <1>4
<1> QED
  BY <1>5 DEF IsSum

(* Two sums over the same members with the same sizes are equal.         *)
LEMMA SumsAgree ==
  ASSUME NEW rows, NEW S, IsFiniteSet(S), NEW f, IsSum(f, rows, S),
         NEW more, NEW R, IsFiniteSet(R), NEW g, IsSum(g, more, R),
         \A x \in S \cap R : rows[x].size = more[x].size
  PROVE  \A s \in SUBSET (S \cap R) : f[s] = g[s]
<1> DEFINE Differ(s) == f[s] # g[s]
           T == {n \in Nat : \E s \in SUBSET (S \cap R) : Cardinality(s) = n /\ Differ(s)}
<1>1. T = {}
  <2> SUFFICES ASSUME T # {} PROVE FALSE
    OBVIOUS
  <2>1. PICK n \in T : \A k \in T : n <= k
    <3> HIDE DEF T
    <3>1. T \in SUBSET Nat
      BY DEF T
    <3> QED BY <3>1, LeastNat
  <2>2. PICK s \in SUBSET (S \cap R) : Cardinality(s) = n /\ Differ(s)
    BY <2>1
  <2>3. n \in Nat /\ s \in SUBSET S /\ s \in SUBSET R
    BY <2>1
  <2>4. CASE s = {}
    BY <2>2, <2>3, <2>4 DEF IsSum
  <2>5. CASE s # {}
    <3> DEFINE x == Pick(s)
               t == s \ {x}
    <3>1. x \in s
      BY <2>5, Picked
    <3>2. /\ f[s] = rows[x].size + f[t] /\ g[s] = more[x].size + g[t]
      BY <2>3, <2>5 DEF IsSum
    <3>3. Differ(t)
      BY <2>2, <3>1, <3>2
    <3>4. Cardinality(t) = n - 1 /\ n - 1 \in Nat
      <4>1. /\ Cardinality(s) \in Nat /\ Cardinality(s) > 0
            /\ Cardinality(t) = Cardinality(s) - 1
        BY <2>3, <3>1, Smaller
      <4> HIDE DEF t, Differ, T
      <4> QED
        BY <2>2, <4>1
    <3> HIDE DEF x, Differ
    <3>5. n - 1 \in T
      BY <3>3, <3>4
    <3> HIDE DEF T, t
    <3> QED
      BY <2>1, <2>3, <3>5
  <2> QED
    BY <2>4, <2>5
<1>2. ASSUME NEW s \in SUBSET (S \cap R) PROVE Cardinality(s) \in Nat
  BY FS_Subset, FS_CardinalityType
<1> QED
  BY <1>1, <1>2

(* Any member can be taken out first.                                      *)
LEMMA SumStep ==
  ASSUME NEW rows, NEW S, IsFiniteSet(S), \A x \in S : rows[x].size \in Nat,
         NEW f, IsSum(f, rows, S)
  PROVE  /\ f[{}] = 0
         /\ \A s \in SUBSET S : f[s] \in Nat
         /\ \A s \in SUBSET S, x \in S : x \in s => f[s] = rows[x].size + f[s \ {x}]
<1>1. f[{}] = 0
  BY DEF IsSum
<1>2. ASSUME NEW s \in SUBSET S, s # {}
      PROVE  f[s] = rows[Pick(s)].size + f[s \ {Pick(s)}]
  BY <1>2 DEF IsSum
<1> DEFINE Good(s) == /\ f[s] \in Nat
                      /\ \A x \in s : f[s] = rows[x].size + f[s \ {x}]
           T == {n \in Nat : \E s \in SUBSET S : Cardinality(s) = n /\ ~Good(s)}
<1>3. T = {}
  <2> SUFFICES ASSUME T # {} PROVE FALSE
    OBVIOUS
  <2>1. PICK n \in T : \A k \in T : n <= k
    <3> HIDE DEF T
    <3>1. T \in SUBSET Nat
      BY DEF T
    <3> QED BY <3>1, LeastNat
  <2>2. PICK s \in SUBSET S : Cardinality(s) = n /\ ~Good(s)
    BY <2>1
  <2>3. n \in Nat /\ s # {}
    BY <1>1, <2>1, <2>2
  <2> DEFINE p == Pick(s)
  <2>4. p \in s /\ rows[p].size \in Nat
    BY <2>2, <2>3, Picked
  <2>5. ASSUME NEW x \in s PROVE s \ {x} \in SUBSET S /\ Good(s \ {x})
    <3> DEFINE t == s \ {x}
    <3>1. t \in SUBSET S /\ Cardinality(t) = n - 1 /\ n - 1 \in Nat
      BY <2>2, <2>3, <2>5, Smaller
    <3> HIDE DEF Good, T, t
    <3>2. n - 1 \notin T
      BY <2>1, <2>3, <3>1
    <3>3. Good(t)
      BY <3>1, <3>2 DEF T
    <3> QED
      BY <3>1, <3>3 DEF t
  <2>6. f[s] = rows[p].size + f[s \ {p}]
    BY <1>2, <2>3
  <2>7. f[s] \in Nat
    <3>1. f[s \ {p}] \in Nat
      BY <2>4, <2>5
    <3> HIDE DEF p
    <3> QED
      BY <2>4, <2>6, <3>1
  <2>8. ASSUME NEW x \in s PROVE f[s] = rows[x].size + f[s \ {x}]
    <3>1. CASE x = p
      BY <2>6, <3>1
    <3>2. CASE x # p
      <4> DEFINE r == (s \ {p}) \ {x}
      <4>1. r = (s \ {x}) \ {p} /\ x \in s \ {p} /\ p \in s \ {x} /\ r \in SUBSET S
        BY <2>4, <2>8, <3>2
      <4>2. f[s \ {p}] = rows[x].size + f[r]
        BY <2>4, <2>5, <4>1
      <4>3. f[s \ {x}] = rows[p].size + f[r]
        <5>1. p \in s \ {x} /\ Good(s \ {x})
          BY <2>5, <4>1
        <5>2. f[s \ {x}] = rows[p].size + f[(s \ {x}) \ {p}]
          BY <5>1
        <5> HIDE DEF r, p
        <5> QED
          BY <4>1, <5>2
      <4>4. f[r] \in Nat /\ rows[x].size \in Nat
        <5>1. r \in SUBSET S /\ Cardinality(r) \in Nat
          BY <4>1, FS_Subset, FS_CardinalityType
        <5>2. Cardinality(r) < n
          <6>1. Cardinality(s \ {p}) = n - 1 /\ s \ {p} \in SUBSET S
            BY <2>2, <2>4, Smaller
          <6>2. Cardinality(r) = Cardinality(s \ {p}) - 1
            BY <4>1, <6>1, Smaller
          <6> QED
            BY <2>3, <6>1, <6>2
        <5> HIDE DEF Good, T, r
        <5>3. Cardinality(r) \notin T
          BY <2>1, <2>3, <5>1, <5>2
        <5>4. Good(r)
          BY <5>1, <5>3 DEF T
        <5> QED
          BY <5>4 DEF Good
      <4> HIDE DEF r, p
      <4> QED
        BY <2>4, <2>6, <4>2, <4>3, <4>4
    <3> QED
      BY <3>1, <3>2
  <2> QED
    BY <2>2, <2>7, <2>8
<1>4. ASSUME NEW s \in SUBSET S PROVE Good(s)
  <2>1. Cardinality(s) \in Nat
    BY FS_Subset, FS_CardinalityType
  <2> HIDE DEF Good
  <2> QED
    BY <1>3, <2>1
<1> QED
  BY <1>1, <1>4

(* What the sum of a set does when a member comes or goes.               *)
LEMMA TotalIsSum ==
  ASSUME NEW rows, NEW S, IsFiniteSet(S)
  PROVE  \E f : IsSum(f, rows, S) /\ Total(rows, S) = f[S]
<1>1. IsSum(CHOOSE f : IsSum(f, rows, S), rows, S)
  BY SumExists
<1> QED
  BY <1>1, TotalIter

LEMMA TotalEqual ==
  ASSUME NEW rows, NEW more, NEW S, IsFiniteSet(S),
         \A x \in S : rows[x].size = more[x].size
  PROVE  Total(rows, S) = Total(more, S)
<1>1. PICK f : IsSum(f, rows, S) /\ Total(rows, S) = f[S]
  BY TotalIsSum
<1>2. PICK g : IsSum(g, more, S) /\ Total(more, S) = g[S]
  BY TotalIsSum
<1>3. f[S] = g[S]
  <2>1. S \in SUBSET (S \cap S)
    OBVIOUS
  <2> QED
    BY <1>1, <1>2, <2>1, SumsAgree
<1> QED
  BY <1>1, <1>2, <1>3

LEMMA TotalWithout ==
  ASSUME NEW rows, NEW S, IsFiniteSet(S), \A y \in S : rows[y].size \in Nat,
         NEW x \in S
  PROVE  /\ Total(rows, S) \in Nat /\ Total(rows, S \ {x}) \in Nat
         /\ Total(rows, S) = rows[x].size + Total(rows, S \ {x})
<1> DEFINE R == S \ {x}
<1>1. IsFiniteSet(R) /\ R \in SUBSET S /\ S \in SUBSET S /\ R \in SUBSET (S \cap R)
  BY FS_Subset
<1>2. PICK f : IsSum(f, rows, S) /\ Total(rows, S) = f[S]
  BY TotalIsSum
<1>3. PICK g : IsSum(g, rows, R) /\ Total(rows, R) = g[R]
  BY <1>1, TotalIsSum
<1>4. f[R] = g[R]
  BY <1>1, <1>2, <1>3, SumsAgree
<1>5. f[S] = rows[x].size + f[R] /\ f[S] \in Nat /\ f[R] \in Nat
  <2>1. /\ \A s \in SUBSET S : f[s] \in Nat
        /\ \A s \in SUBSET S, y \in S : y \in s => f[s] = rows[y].size + f[s \ {y}]
    BY <1>2, SumStep
  <2> QED
    BY <1>1, <2>1
<1> QED
  BY <1>2, <1>3, <1>4, <1>5

LEMMA TotalOfNone == \A rows : Total(rows, {}) = 0
<1> SUFFICES ASSUME NEW rows PROVE Total(rows, {}) = 0
  OBVIOUS
<1>1. PICK f : IsSum(f, rows, {}) /\ Total(rows, {}) = f[{}]
  BY FS_EmptySet, TotalIsSum
<1> QED
  BY <1>1 DEF IsSum

-----------------------------------------------------------------------------
(* The owner and the size of a message.  No write back changes them, so a  *)
(* snapshot of a message that is still stored has them right, however old  *)
(* it is.                                                                  *)
AgreesWith(q) ==
  q.pc \notin {"idle", "sendFolder", "sendCommit"} =>
    \/ emails[q.id] = Purged
    \/ /\ emails[q.id] \in EmailRow
       /\ q.row.mailbox = emails[q.id].mailbox
       /\ q.row.size = emails[q.id].size

LoadedAgree == \A w \in Worker : AgreesWith(requests[w])

(* What any step may do to a message, as far as its owner and size go.     *)
SameMessage(e) ==
  /\ emails[e] = Purged => emails'[e] = Purged
  /\ emails[e] \in EmailRow =>
       \/ emails'[e] = Purged
       \/ /\ emails'[e] \in EmailRow
          /\ emails'[e].mailbox = emails[e].mailbox
          /\ emails'[e].size = emails[e].size

(* Only the four commits touch the messages or the usage.                *)
LEMMA OnlyCommits ==
  ASSUME [Next]_vars
  PROVE  \/ UNCHANGED <<emails, mailboxes, racedMailboxes>>
         \/ \E w \in Worker :
              SendCommit(w) \/ ReadCommit(w) \/ PurgeCommit(w) \/ MoveCommit(w)
BY DEF Next, SendStart, SendLoadFolder, ReadStart, ReadLoadFolder,
       DeleteStart, DeleteLoadFolder, PurgeLoadMailbox, MoveLoadTrash,
       Rollback, NoEffect, Start, Continue, Load, vars

(* A write back of a loaded message: the row is there, and the new one     *)
(* belongs to the same mailbox and has the same size.                      *)
LEMMA WriteBack ==
  ASSUME WellFormed, LoadedAgree, NEW w \in Worker, ReadCommit(w) \/ MoveCommit(w)
  PROVE  /\ requests[w].id \in Stored
         /\ \A e \in Email \ {requests[w].id} : emails'[e] = emails[e]
         /\ emails[requests[w].id] \in EmailRow
         /\ emails'[requests[w].id] \in EmailRow
         /\ emails'[requests[w].id].mailbox = emails[requests[w].id].mailbox
         /\ emails'[requests[w].id].size = emails[requests[w].id].size
<1> DEFINE q == requests[w]
           e == q.id
           t == TrashOf(q.row.mailbox)
<1>1. /\ q.row \in EmailRow /\ e \in Stored /\ e \in Email
      /\ emails[e] \in EmailRow /\ emails[e] # Purged
      /\ q.pc \in {"readCommit", "moveCommit"}
  BY DEF ReadCommit, MoveCommit, Stored, RowExists, WellFormed, TypeOK, RequestsOK
<1>2. q.row.mailbox = emails[e].mailbox /\ q.row.size = emails[e].size
  BY <1>1 DEF LoadedAgree, AgreesWith
<1>3. t \in Folder
  BY <1>1, TrashOfIsTrash DEF EmailRow
<1>4. PICK r : /\ r = [q.row EXCEPT !.isRead = TRUE] \/ r = [q.row EXCEPT !.folder = t]
               /\ emails' = [emails EXCEPT ![e] = r]
  BY DEF ReadCommit, MoveCommit, Moved
<1> HIDE DEF t
<1>5. r \in EmailRow /\ r.mailbox = q.row.mailbox /\ r.size = q.row.size
  BY <1>1, <1>3, <1>4 DEF EmailRow
<1>6. emails'[e] = r /\ \A x \in Email \ {e} : emails'[x] = emails[x]
  BY <1>1, <1>4 DEF WellFormed, TypeOK
<1> QED
  BY <1>1, <1>2, <1>5, <1>6

LEMMA MessagesKept ==
  ASSUME WellFormed, LoadedAgree, [Next]_vars
  PROVE  \A e \in Email : SameMessage(e)
<1> SUFFICES ASSUME NEW e \in Email PROVE SameMessage(e)
  OBVIOUS
<1>1. CASE UNCHANGED emails
  BY <1>1 DEF SameMessage
<1>2. Purged \notin EmailRow /\ Fresh \notin EmailRow /\ Fresh # Purged
      /\ emails \in [Email -> EmailRow \cup {Fresh, Purged}]
  BY ConstantsAssumption DEF WellFormed, TypeOK
<1>3. ASSUME NEW w \in Worker, SendCommit(w) PROVE SameMessage(e)
  BY <1>2, <1>3 DEF SendCommit, SameMessage
<1>4. ASSUME NEW w \in Worker, ReadCommit(w) \/ MoveCommit(w) PROVE SameMessage(e)
  <2>1. CASE e = requests[w].id
    BY <1>2, <1>4, <2>1, WriteBack DEF SameMessage
  <2>2. CASE e # requests[w].id
    BY <1>4, <2>2, WriteBack DEF SameMessage
  <2> QED
    BY <2>1, <2>2
<1>5. ASSUME NEW w \in Worker, PurgeCommit(w) PROVE SameMessage(e)
  <2>1. emails'[e] = emails[e] \/ emails'[e] = Purged
    BY <1>2, <1>5 DEF PurgeCommit
  <2> QED
    BY <2>1 DEF SameMessage
<1> QED
  BY <1>1, <1>3, <1>4, <1>5, OnlyCommits

LEMMA LoadedAgreeStep ==
  ASSUME WellFormed, LoadedAgree, [Next]_vars
  PROVE  LoadedAgree'
<1>0. requests \in [Worker -> RequestState] /\ requests' \in [Worker -> RequestState]
  BY NextWellFormed DEF WellFormed, TypeOK
<1>1. ASSUME NEW v \in Worker, requests'[v] = requests[v]
      PROVE  AgreesWith(requests[v])'
  <2> DEFINE q == requests[v]
  <2>1. CASE q.pc \in {"idle", "sendFolder", "sendCommit"}
    BY <1>1, <2>1 DEF AgreesWith
  <2>2. CASE q.pc \notin {"idle", "sendFolder", "sendCommit"}
    <3>1. q.id \in Email /\ AgreesWith(q)
      BY <2>2 DEF WellFormed, RequestsOK, LoadedAgree
    <3>2. SameMessage(q.id)
      BY <3>1, MessagesKept
    <3> QED
      BY <1>1, <2>2, <3>1, <3>2 DEF AgreesWith, SameMessage
  <2> QED
    BY <2>1, <2>2
<1>2. ASSUME NEW w \in Worker, NEW q, requests' = [requests EXCEPT ![w] = q],
             AgreesWith(q)'
      PROVE  LoadedAgree'
  <2> SUFFICES ASSUME NEW v \in Worker PROVE AgreesWith(requests[v])'
    BY DEF LoadedAgree
  <2>1. CASE v = w
    <3>1. requests'[v] = q
      BY <1>0, <1>2, <2>1
    <3> QED
      BY <1>2, <3>1 DEF AgreesWith
  <2>2. CASE v # w
    BY <1>0, <1>1, <1>2, <2>2
  <2> QED
    BY <2>1, <2>2
<1>3. CASE UNCHANGED vars
  BY <1>1, <1>3 DEF vars, LoadedAgree
<1>4. ASSUME NEW w \in Worker, Finish(w) PROVE LoadedAgree'
  BY <1>2, <1>4 DEF Finish, Idle, AgreesWith
<1>5. ASSUME NEW w \in Worker, SendStart(w) PROVE LoadedAgree'
  <2>1. PICK row, used :
          Load(w, [Idle EXCEPT !.pc = "sendFolder", !.row = row, !.used = used])
    BY <1>5 DEF SendStart, Start
  <2> DEFINE q == [Idle EXCEPT !.pc = "sendFolder", !.row = row, !.used = used]
  <2>2. q.pc = "sendFolder"
    BY DEF Idle
  <2> HIDE DEF q
  <2> QED
    BY <1>2, <2>1, <2>2 DEF Load, AgreesWith, q
<1>6. ASSUME NEW w \in Worker, ReadStart(w) \/ DeleteStart(w) PROVE LoadedAgree'
  <2>1. PICK e \in Stored, pc \in {"readFolder", "deleteFolder"} :
          Load(w, [Idle EXCEPT !.pc = pc, !.id = e, !.row = emails[e]])
    BY <1>6 DEF ReadStart, DeleteStart, Start
  <2>2. PICK q : /\ q = [Idle EXCEPT !.pc = pc, !.id = e, !.row = emails[e]]
                 /\ requests' = [requests EXCEPT ![w] = q]
    BY <2>1 DEF Load
  <2>3. q.id = e /\ q.row = emails[e]
    BY <2>2 DEF Idle
  <2>4. emails[e] \in EmailRow /\ emails' = emails
    BY <2>1 DEF Stored, WellFormed, TypeOK, Load
  <2>5. AgreesWith(q)'
    BY <2>1, <2>3, <2>4 DEF AgreesWith
  <2> QED
    BY <1>2, <2>2, <2>5
<1>7. ASSUME NEW w \in Worker, NEW q, requests' = [requests EXCEPT ![w] = q],
             emails' = emails, q.row = requests[w].row, q.id = requests[w].id,
             \/ q.pc = "sendCommit"
             \/ requests[w].pc \notin {"idle", "sendFolder", "sendCommit"}
      PROVE  LoadedAgree'
  <2>1. AgreesWith(requests[w])
    BY DEF LoadedAgree
  <2>2. AgreesWith(q)'
    BY <1>7, <2>1 DEF AgreesWith
  <2> QED
    BY <1>2, <1>7, <2>2
<1>8. ASSUME NEW w \in Worker,
             \/ SendLoadFolder(w) \/ ReadLoadFolder(w) \/ DeleteLoadFolder(w)
             \/ PurgeLoadMailbox(w) \/ MoveLoadTrash(w)
      PROVE  LoadedAgree'
  <2> DEFINE r == requests[w]
  <2>0. r \in RequestState
    BY <1>0
  <2>1. PICK q : /\ requests' = [requests EXCEPT ![w] = q]
                 /\ q.row = r.row /\ q.id = r.id
                 /\ \/ q.pc = "sendCommit"
                    \/ r.pc \notin {"idle", "sendFolder", "sendCommit"}
    <3>1. CASE SendLoadFolder(w) \/ ReadLoadFolder(w) \/ DeleteLoadFolder(w)
      <4>1. PICK pc, c :
              /\ requests' = [requests EXCEPT ![w] = [r EXCEPT !.pc = pc, !.folder = c]]
              /\ \/ pc = "sendCommit"
                 \/ r.pc \notin {"idle", "sendFolder", "sendCommit"}
        BY <3>1 DEF SendLoadFolder, ReadLoadFolder, DeleteLoadFolder, Continue, Load
      <4> DEFINE q == [r EXCEPT !.pc = pc, !.folder = c]
      <4>2. q.row = r.row /\ q.id = r.id /\ q.pc = pc
        BY <2>0 DEF RequestState
      <4> HIDE DEF q
      <4> QED BY <4>1, <4>2 DEF q
    <3>2. CASE PurgeLoadMailbox(w)
      <4>1. PICK pc, n :
              requests' = [requests EXCEPT ![w] = [r EXCEPT !.pc = pc, !.used = n]]
        BY <3>2 DEF PurgeLoadMailbox, Continue, Load
      <4> DEFINE q == [r EXCEPT !.pc = pc, !.used = n]
      <4>2. q.row = r.row /\ q.id = r.id
        BY <2>0 DEF RequestState
      <4>3. r.pc = "purgeMailbox"
        BY <3>2 DEF PurgeLoadMailbox
      <4> HIDE DEF q
      <4> QED BY <4>1, <4>2, <4>3 DEF q
    <3>3. CASE MoveLoadTrash(w)
      <4>1. PICK pc, c :
              requests' = [requests EXCEPT ![w] = [r EXCEPT !.pc = pc, !.trash = c]]
        BY <3>3 DEF MoveLoadTrash, Continue, Load
      <4> DEFINE q == [r EXCEPT !.pc = pc, !.trash = c]
      <4>2. q.row = r.row /\ q.id = r.id
        BY <2>0 DEF RequestState
      <4>3. r.pc = "moveTrash"
        BY <3>3 DEF MoveLoadTrash
      <4> HIDE DEF q
      <4> QED BY <4>1, <4>2, <4>3 DEF q
    <3> QED BY <1>8, <3>1, <3>2, <3>3
  <2>2. emails' = emails
    BY <1>8 DEF SendLoadFolder, ReadLoadFolder, DeleteLoadFolder, PurgeLoadMailbox,
                MoveLoadTrash, Continue, Load
  <2> QED BY <1>7, <2>1, <2>2
<1>9. ASSUME NEW w \in Worker,
             \/ SendCommit(w) \/ ReadCommit(w) \/ PurgeCommit(w)
             \/ MoveCommit(w) \/ Rollback(w)
      PROVE  LoadedAgree'
  BY <1>4, <1>9 DEF SendCommit, ReadCommit, PurgeCommit, MoveCommit, Rollback
<1>10. ASSUME NEW w \in Worker, NoEffect(w) PROVE LoadedAgree'
  BY <1>3, <1>10 DEF NoEffect
<1> QED
  BY <1>3, <1>5, <1>6, <1>8, <1>9, <1>10 DEF Next

-----------------------------------------------------------------------------
(* Exact usage.                                                            *)
Members(m) == {e \in Stored : emails[e].mailbox = m}

LEMMA UsageIsTotal ==
  /\ \A m : UsageExact(m) <=> mailboxes[m] = Total(emails, Members(m))
  /\ \A m : UsageExact(m)' <=> mailboxes'[m] = Total(emails', Members(m)')
<1>1. \A m : UsageExact(m) <=> mailboxes[m] = Total(emails, Members(m))
  BY DEF UsageExact, Total, Members, SizeOfEmail
<1>2. \A m : UsageExact(m)' <=> mailboxes'[m] = Total(emails', Members(m)')
  BY DEF UsageExact, Total, Members, SizeOfEmail, MapThenSumSet, MapThenFoldSet
<1> QED
  BY <1>1, <1>2

LEMMA MembersTyped ==
  ASSUME TypeOK, NEW m
  PROVE  /\ IsFiniteSet(Members(m))
         /\ \A e : e \in Members(m) <=>
                     e \in Email /\ emails[e] \in EmailRow /\ emails[e].mailbox = m
         /\ \A e \in Members(m) : emails[e].size \in Nat
<1>1. Members(m) \in SUBSET Email
  BY DEF Members, Stored
<1>2. IsFiniteSet(Members(m))
  BY <1>1, ConstantsAssumption, FS_Subset
<1>3. \A e : e \in Members(m) <=>
              e \in Email /\ emails[e] \in EmailRow /\ emails[e].mailbox = m
  BY ConstantsAssumption DEF Members, Stored, TypeOK
<1>4. \A e \in Members(m) : emails[e].size \in Nat
  BY <1>3 DEF EmailRow
<1> QED
  BY <1>2, <1>3, <1>4

LEMMA MembersTypedNext ==
  ASSUME TypeOK', NEW m
  PROVE  /\ IsFiniteSet(Members(m)')
         /\ \A e : e \in Members(m)' <=>
                     e \in Email /\ emails'[e] \in EmailRow /\ emails'[e].mailbox = m
         /\ \A e \in Members(m)' : emails'[e].size \in Nat
<1>1. Members(m)' \in SUBSET Email
  BY DEF Members, Stored
<1>2. IsFiniteSet(Members(m)')
  BY <1>1, ConstantsAssumption, FS_Subset
<1>3. \A e : e \in Members(m)' <=>
              e \in Email /\ emails'[e] \in EmailRow /\ emails'[e].mailbox = m
  BY ConstantsAssumption DEF Members, Stored, TypeOK
<1>4. \A e \in Members(m)' : emails'[e].size \in Nat
  BY <1>3 DEF EmailRow
<1> QED
  BY <1>2, <1>3, <1>4

(* A step that keeps the members, their sizes and the usage keeps it exact. *)
LEMMA UsageUntouched ==
  ASSUME TypeOK, NEW m, UsageExact(m), mailboxes'[m] = mailboxes[m],
         Members(m)' = Members(m),
         \A e \in Members(m) : emails'[e].size = emails[e].size
  PROVE  UsageExact(m)'
<1>1. Total(emails, Members(m)) = Total(emails', Members(m))
  <2> DEFINE S == Members(m)
             rows == emails
             more == emails'
  <2>1. IsFiniteSet(S) /\ \A e \in S : rows[e].size = more[e].size
    BY MembersTyped
  <2> HIDE DEF S, rows, more
  <2>2. Total(rows, S) = Total(more, S)
    BY <2>1, TotalEqual
  <2> QED
    BY <2>2 DEF S, rows, more
<1> QED
  BY <1>1, UsageIsTotal

LEMMA SendKeepsUsage ==
  ASSUME WellFormed, WellFormed', NEW w \in Worker, SendCommit(w),
         NEW m \in Mailbox, UsageExact(m), m \notin racedMailboxes'
  PROVE  UsageExact(m)'
<1> DEFINE q == requests[w]
<1>1. /\ q.row \in EmailRow /\ q.used \in Nat /\ q.row.mailbox \in Mailbox
      /\ q.row.size \in Nat
  BY DEF SendCommit, WellFormed, TypeOK, RequestsOK, RequestState, EmailRow
<1>2. PICK e \in Email : emails[e] = Fresh /\ emails' = [emails EXCEPT ![e] = q.row]
  BY DEF SendCommit
<1>3. emails'[e] = q.row /\ \A x \in Email \ {e} : emails'[x] = emails[x]
  BY <1>2 DEF WellFormed, TypeOK
<1>4. e \notin Members(m)
  BY <1>2 DEF Members, Stored
<1>5. \A x \in Members(m) : x \in Email \ {e}
  BY <1>4, MembersTyped DEF WellFormed
<1>6. CASE q.row.mailbox # m
  <2>1. mailboxes'[m] = mailboxes[m]
    BY <1>1, <1>6 DEF SendCommit, WellFormed, TypeOK
  <2>2. Members(m)' = Members(m)
    <3>1. \A x : x \in Members(m)' <=> x \in Members(m)
      BY <1>2, <1>3, <1>4, <1>6, MembersTyped, MembersTypedNext DEF WellFormed
    <3> QED
      BY <3>1
  <2> QED
    BY <1>3, <1>5, <2>1, <2>2, UsageUntouched DEF WellFormed
<1>7. CASE q.row.mailbox = m
  <2>1. mailboxes[m] = q.used /\ mailboxes'[m] = mailboxes[m] + q.row.size
    BY <1>1, <1>7 DEF SendCommit, StaleMailbox, WellFormed, TypeOK
  <2> DEFINE S == Members(m)'
             R == Members(m)
             rows == emails
             more == emails'
  <2>2. e \in S /\ S \ {e} = R
    <3>1. e \in S
      BY <1>1, <1>3, <1>7, MembersTypedNext DEF WellFormed
    <3>2. \A x : x \in S \ {e} <=> x \in R
      BY <1>3, <1>4, MembersTyped, MembersTypedNext DEF WellFormed
    <3> QED
      BY <3>1, <3>2
  <2>3. /\ IsFiniteSet(S) /\ \A x \in S : more[x].size \in Nat
        /\ IsFiniteSet(R) /\ \A x \in R : rows[x].size = more[x].size
        /\ more[e].size = q.row.size
    BY <1>3, <1>5, MembersTyped, MembersTypedNext DEF WellFormed
  <2>4. mailboxes[m] = Total(rows, R)
    BY UsageIsTotal
  <2> HIDE DEF S, R, rows, more, q
  <2>5. Total(more, S) = more[e].size + Total(more, R) /\ Total(more, R) \in Nat
    BY <2>2, <2>3, TotalWithout
  <2>6. Total(rows, R) = Total(more, R)
    BY <2>3, TotalEqual
  <2>7. mailboxes'[m] = Total(more, S)
    BY <1>1, <2>1, <2>3, <2>4, <2>5, <2>6
  <2> QED
    BY <2>7, UsageIsTotal DEF S, more
<1> QED
  BY <1>6, <1>7

LEMMA PurgeKeepsUsage ==
  ASSUME WellFormed, WellFormed', LoadedAgree, NEW w \in Worker, PurgeCommit(w),
         NEW m \in Mailbox, UsageExact(m), m \notin racedMailboxes'
  PROVE  UsageExact(m)'
<1> DEFINE q == requests[w]
           e == q.id
<1>1. /\ q.row \in EmailRow /\ q.used \in Nat /\ q.row.mailbox \in Mailbox
      /\ q.row.size \in Nat /\ e \in Stored /\ e \in Email
      /\ q.pc = "purgeCommit" /\ emails[e] \in EmailRow /\ emails[e] # Purged
  BY DEF PurgeCommit, Stored, RowExists, WellFormed, TypeOK, RequestsOK,
         RequestState, EmailRow
<1>2. q.row.mailbox = emails[e].mailbox /\ q.row.size = emails[e].size
  BY <1>1 DEF LoadedAgree, AgreesWith
<1>3. /\ emails'[e] = Purged /\ Purged \notin EmailRow
      /\ \A x \in Email \ {e} : emails'[x] = emails[x]
  BY <1>1, ConstantsAssumption DEF PurgeCommit, WellFormed, TypeOK
<1>4. \A x : x \in Members(m)' <=> x \in Members(m) /\ x # e
  BY <1>3, MembersTyped, MembersTypedNext DEF WellFormed
<1>5. CASE q.row.mailbox # m
  <2>1. mailboxes'[m] = mailboxes[m]
    BY <1>1, <1>5 DEF PurgeCommit, WellFormed, TypeOK
  <2>2. e \notin Members(m)
    BY <1>2, <1>5 DEF Members
  <2>3. Members(m)' = Members(m)
    BY <1>4, <2>2
  <2>4. \A x \in Members(m) : x \in Email \ {e}
    BY <2>2, MembersTyped DEF WellFormed
  <2> QED
    BY <1>3, <2>1, <2>3, <2>4, UsageUntouched DEF WellFormed
<1>6. CASE q.row.mailbox = m
  <2>1. mailboxes[m] = q.used /\ mailboxes'[m] = Refund(q.used, q.row)
    BY <1>1, <1>6 DEF PurgeCommit, StaleMailbox, Flush, WellFormed, TypeOK
  <2> DEFINE S == Members(m)
             R == Members(m)'
             rows == emails
             more == emails'
  <2>2. e \in S /\ S \ {e} = R
    <3>1. e \in S
      BY <1>1, <1>2, <1>6, MembersTyped DEF WellFormed
    <3> QED
      BY <1>4, <3>1
  <2>3. /\ IsFiniteSet(S) /\ \A x \in S : rows[x].size \in Nat
        /\ IsFiniteSet(R) /\ \A x \in R : rows[x].size = more[x].size
        /\ rows[e].size = q.row.size
    <3>1. \A x \in R : x \in Email \ {e}
      BY <1>4, MembersTyped DEF WellFormed
    <3> QED
      BY <1>2, <1>3, <3>1, MembersTyped, MembersTypedNext DEF WellFormed
  <2>4. mailboxes[m] = Total(rows, S)
    BY UsageIsTotal
  <2>5. Refund(q.used, q.row) = IF q.used < q.row.size THEN 0 ELSE q.used - q.row.size
    BY DEF Refund, Minus
  <2> HIDE DEF S, R, rows, more, q, e
  <2>6. Total(rows, S) = rows[e].size + Total(rows, R) /\ Total(rows, R) \in Nat
    BY <2>2, <2>3, TotalWithout
  <2>7. Total(rows, R) = Total(more, R)
    BY <2>3, TotalEqual
  <2>8. mailboxes'[m] = Total(more, R)
    BY <1>1, <2>1, <2>3, <2>4, <2>5, <2>6, <2>7
  <2> QED
    BY <2>8, UsageIsTotal DEF R, more
<1> QED
  BY <1>5, <1>6

LEMMA WriteBackKeepsUsage ==
  ASSUME WellFormed, WellFormed', LoadedAgree, NEW w \in Worker,
         ReadCommit(w) \/ MoveCommit(w), NEW m \in Mailbox, UsageExact(m)
  PROVE  UsageExact(m)'
<1> DEFINE e == requests[w].id
<1>1. /\ e \in Stored /\ e \in Email
      /\ \A x \in Email \ {e} : emails'[x] = emails[x]
      /\ emails[e] \in EmailRow /\ emails'[e] \in EmailRow
      /\ emails'[e].mailbox = emails[e].mailbox /\ emails'[e].size = emails[e].size
  BY WriteBack DEF Stored
<1>2. mailboxes' = mailboxes
  BY DEF ReadCommit, MoveCommit
<1> HIDE DEF e
<1>3. Members(m)' = Members(m)
  <2>1. \A x : x \in Members(m)' <=> x \in Members(m)
    BY <1>1, MembersTyped, MembersTypedNext DEF WellFormed
  <2> QED
    BY <2>1
<1>4. \A x \in Members(m) : emails'[x].size = emails[x].size
  BY <1>1, MembersTyped DEF WellFormed
<1> QED
  BY <1>2, <1>3, <1>4, UsageUntouched DEF WellFormed

LEMMA NextUsageExact ==
  ASSUME WellFormed, LoadedAgree, UsageExactUnlessRaced, [Next]_vars
  PROVE  UsageExactUnlessRaced'
<1> SUFFICES ASSUME NEW m \in Mailbox, m \notin racedMailboxes'
             PROVE  UsageExact(m)'
  BY DEF UsageExactUnlessRaced
<1>1. WellFormed'
  BY NextWellFormed
<1>2. CASE UNCHANGED <<emails, mailboxes, racedMailboxes>>
  <2>1. UsageExact(m)
    BY <1>2 DEF UsageExactUnlessRaced
  <2>2. Members(m)' = Members(m)
    BY <1>2 DEF Members, Stored
  <2> QED
    BY <1>2, <2>1, <2>2, UsageUntouched DEF WellFormed
<1>3. ASSUME NEW w \in Worker, SendCommit(w) PROVE UsageExact(m)'
  <2>1. UsageExact(m)
    BY <1>3 DEF SendCommit, UsageExactUnlessRaced
  <2> QED
    BY <1>1, <1>3, <2>1, SendKeepsUsage
<1>4. ASSUME NEW w \in Worker, PurgeCommit(w) PROVE UsageExact(m)'
  <2>1. UsageExact(m)
    BY <1>4 DEF PurgeCommit, UsageExactUnlessRaced
  <2> QED
    BY <1>1, <1>4, <2>1, PurgeKeepsUsage
<1>5. ASSUME NEW w \in Worker, ReadCommit(w) \/ MoveCommit(w) PROVE UsageExact(m)'
  <2>1. UsageExact(m)
    BY <1>5 DEF ReadCommit, MoveCommit, UsageExactUnlessRaced
  <2> QED
    BY <1>1, <1>5, <2>1, WriteBackKeepsUsage
<1> QED
  BY <1>2, <1>3, <1>4, <1>5, OnlyCommits

LEMMA InitUsage == Init => LoadedAgree /\ UsageExactUnlessRaced
<1> SUFFICES ASSUME Init PROVE LoadedAgree /\ UsageExactUnlessRaced
  OBVIOUS
<1>1. LoadedAgree
  BY DEF Init, LoadedAgree, AgreesWith, Idle
<1>2. ASSUME NEW m \in Mailbox PROVE UsageExact(m)
  <2>1. Members(m) = {}
    BY DEF Init, Members, Stored
  <2>2. mailboxes[m] = 0
    BY DEF Init
  <2> QED
    BY <2>1, <2>2, TotalOfNone, UsageIsTotal
<1> QED
  BY <1>1, <1>2 DEF UsageExactUnlessRaced

(* The storage usage of a mailbox is the sum of the sizes of its messages, *)
(* whatever transactions interleave, as long as no send or purge has       *)
(* written back a usage that another one had changed meanwhile.            *)
THEOREM UsageUnlessRaced == Spec => []UsageExactUnlessRaced
<1>1. WellFormed /\ LoadedAgree /\ UsageExactUnlessRaced /\ [Next]_vars =>
        LoadedAgree' /\ UsageExactUnlessRaced'
  BY LoadedAgreeStep, NextUsageExact
<1> QED
  BY <1>1, InitWellFormed, InitUsage, NextWellFormed, PTL DEF Spec

(* The usage a lone transaction loaded is still the mailbox's usage.       *)
UsedFresh(q) ==
  q.pc \in {"sendFolder", "sendCommit", "purgeCommit"} =>
    q.used = mailboxes[q.row.mailbox]

UsageNeverRaced ==
  racedMailboxes = {} /\ \A w \in Worker : UsedFresh(requests[w])

LEMMA SerialUsageStep ==
  ASSUME NEW w0, Worker = {w0}, WellFormed, UsageNeverRaced, [Next]_vars
  PROVE  UsageNeverRaced'
<1> w0 \in Worker
  OBVIOUS
<1>0. requests \in [Worker -> RequestState]
  BY DEF WellFormed, TypeOK
<1>1. ASSUME NEW q, requests' = [requests EXCEPT ![w0] = q],
             UsedFresh(q)', racedMailboxes' = {}
      PROVE  UsageNeverRaced'
  <2>1. requests'[w0] = q
    BY <1>0, <1>1
  <2> QED
    BY <1>1, <2>1 DEF UsageNeverRaced, UsedFresh
<1>2. CASE UNCHANGED vars
  BY <1>2 DEF vars, UsageNeverRaced, UsedFresh
<1>3. ASSUME Finish(w0), racedMailboxes' = {} PROVE UsageNeverRaced'
  BY <1>1, <1>3 DEF Finish, Idle, UsedFresh
<1>4. CASE SendStart(w0)
  <2>1. PICK m \in Mailbox, f \in Folder, length \in BodyLengths :
          Start(w0, [Idle EXCEPT
                       !.pc = "sendFolder",
                       !.row = [mailbox |-> m, folder |-> f, isRead |-> FALSE,
                                size |-> SizeOf(length)],
                       !.used = mailboxes[m]])
    BY <1>4 DEF SendStart
  <2>2. PICK row, used :
          /\ row.mailbox = m /\ used = mailboxes[m]
          /\ Load(w0, [Idle EXCEPT !.pc = "sendFolder", !.row = row, !.used = used])
    BY <2>1 DEF Start
  <2>3. PICK q : /\ q = [Idle EXCEPT !.pc = "sendFolder", !.row = row, !.used = used]
                 /\ requests' = [requests EXCEPT ![w0] = q]
    BY <2>2 DEF Load
  <2>4. q.row = row /\ q.used = used
    BY <2>3 DEF Idle
  <2>5. UsedFresh(q)' /\ racedMailboxes' = {}
    BY <2>2, <2>4 DEF UsedFresh, Load, UsageNeverRaced
  <2> QED
    BY <1>1, <2>3, <2>5
<1>5. CASE ReadStart(w0) \/ DeleteStart(w0)
  <2>1. PICK q : /\ requests' = [requests EXCEPT ![w0] = q]
                 /\ q.pc \in {"readFolder", "deleteFolder"}
                 /\ UNCHANGED <<mailboxes, racedMailboxes>>
    <3>1. CASE ReadStart(w0)
      <4>1. PICK e : Load(w0, [Idle EXCEPT !.pc = "readFolder", !.id = e,
                                           !.row = emails[e]])
        BY <3>1 DEF ReadStart, Start
      <4> WITNESS [Idle EXCEPT !.pc = "readFolder", !.id = e, !.row = emails[e]]
      <4> QED BY <4>1 DEF Idle, Load
    <3>2. CASE DeleteStart(w0)
      <4>1. PICK e : Load(w0, [Idle EXCEPT !.pc = "deleteFolder", !.id = e,
                                           !.row = emails[e]])
        BY <3>2 DEF DeleteStart, Start
      <4> WITNESS [Idle EXCEPT !.pc = "deleteFolder", !.id = e, !.row = emails[e]]
      <4> QED BY <4>1 DEF Idle, Load
    <3> QED BY <1>5, <3>1, <3>2
  <2>2. UsedFresh(q)' /\ racedMailboxes' = {}
    BY <2>1 DEF UsedFresh, UsageNeverRaced
  <2> QED
    BY <1>1, <2>1, <2>2
<1> DEFINE r == requests[w0]
<1>6. CASE SendLoadFolder(w0) \/ ReadLoadFolder(w0) \/ DeleteLoadFolder(w0)
  <2>1. PICK pc \in {"sendCommit", "readCommit", "purgeMailbox", "moveTrash"} :
          /\ Load(w0, [r EXCEPT !.pc = pc, !.folder = folders[r.row.folder]])
          /\ pc = "sendCommit" => r.pc = "sendFolder"
    BY <1>6 DEF SendLoadFolder, ReadLoadFolder, DeleteLoadFolder, Continue
  <2>2. PICK q : /\ q = [r EXCEPT !.pc = pc, !.folder = folders[r.row.folder]]
                 /\ requests' = [requests EXCEPT ![w0] = q]
    BY <2>1 DEF Load
  <2>3. q.pc = pc /\ q.row = r.row /\ q.used = r.used
    BY <1>0, <2>2 DEF RequestState
  <2>4. UsedFresh(r)
    BY DEF UsageNeverRaced
  <2>5. UsedFresh(q)' /\ racedMailboxes' = {}
    BY <2>1, <2>3, <2>4 DEF UsedFresh, Load, UsageNeverRaced
  <2> QED
    BY <1>1, <2>2, <2>5
<1>7. CASE PurgeLoadMailbox(w0)
  <2>1. PICK n : /\ Load(w0, [r EXCEPT !.pc = "purgeCommit", !.used = n])
                 /\ n = mailboxes[r.row.mailbox]
    BY <1>7 DEF PurgeLoadMailbox, Continue
  <2>2. PICK q : /\ q = [r EXCEPT !.pc = "purgeCommit", !.used = n]
                 /\ requests' = [requests EXCEPT ![w0] = q]
    BY <2>1 DEF Load
  <2>3. q.row = r.row /\ q.used = n
    BY <1>0, <2>2 DEF RequestState
  <2>4. UsedFresh(q)' /\ racedMailboxes' = {}
    BY <2>1, <2>3 DEF UsedFresh, Load, UsageNeverRaced
  <2> QED
    BY <1>1, <2>2, <2>4
<1>8. CASE MoveLoadTrash(w0)
  <2>1. PICK c : Load(w0, [r EXCEPT !.pc = "moveCommit", !.trash = c])
    BY <1>8 DEF MoveLoadTrash, Continue
  <2>2. PICK q : /\ q = [r EXCEPT !.pc = "moveCommit", !.trash = c]
                 /\ requests' = [requests EXCEPT ![w0] = q]
    BY <2>1 DEF Load
  <2>3. q.pc = "moveCommit"
    BY <1>0, <2>2 DEF RequestState
  <2>4. UsedFresh(q)' /\ racedMailboxes' = {}
    BY <2>1, <2>3 DEF UsedFresh, Load, UsageNeverRaced
  <2> QED
    BY <1>1, <2>2, <2>4
<1>9. CASE SendCommit(w0) \/ PurgeCommit(w0)
  <2>1. UsedFresh(r) /\ r.pc \in {"sendCommit", "purgeCommit"}
    BY <1>9 DEF UsageNeverRaced, SendCommit, PurgeCommit
  <2>2. StaleMailbox(w0) = {}
    BY <2>1 DEF UsedFresh, StaleMailbox
  <2> QED
    BY <1>3, <1>9, <2>2 DEF SendCommit, PurgeCommit, UsageNeverRaced
<1>10. CASE ReadCommit(w0) \/ MoveCommit(w0) \/ Rollback(w0)
  BY <1>3, <1>10 DEF ReadCommit, MoveCommit, Rollback, UsageNeverRaced
<1>11. CASE NoEffect(w0)
  BY <1>2, <1>11 DEF NoEffect
<1> QED
  BY <1>2, <1>4, <1>5, <1>6, <1>7, <1>8, <1>9, <1>10, <1>11 DEF Next

(* Run one transaction at a time, every mailbox's usage is exactly the sum *)
(* of the sizes of its messages: what a send adds the purge takes back.    *)
THEOREM SerialUsage ==
  ASSUME NEW w0, Worker = {w0}
  PROVE  Spec => []UsageExactEverywhere
<1>1. Init => UsageNeverRaced
  BY DEF Init, UsageNeverRaced, UsedFresh, Idle
<1>2. WellFormed /\ UsageNeverRaced /\ [Next]_vars => UsageNeverRaced'
  BY SerialUsageStep
<1>3. UsageNeverRaced /\ UsageExactUnlessRaced => UsageExactEverywhere
  BY DEF UsageNeverRaced, UsageExactUnlessRaced, UsageExactEverywhere
<1> QED
  BY <1>1, <1>2, <1>3, InitWellFormed, NextWellFormed, UsageUnlessRaced, PTL DEF Spec
=============================================================================
