-------------------------- MODULE SchedulerProofs ---------------------------
(***************************************************************************)
(* Theorems about Scheduler, for any number of e-mails, ids, send times,   *)
(* any ticker period, any width of int and whatever retry counts clients   *)
(* send, and its refinement of ScheduledDelivery.                          *)
(***************************************************************************)
EXTENDS Scheduler, TLAPS

(* Only accepted e-mails are in the map.                                   *)
Listed == \A id \in Id : scheduled[id] = NoItem \/ scheduled[id] \in Added

(* The goroutine of an e-mail, what it has published, and its status.      *)
WorkerInv(i) ==
  /\ i \notin Added => /\ workers[i] = NoWorkers
                       /\ published[i] = 0 /\ attempts[i] = 0
  /\ i \in Added =>
       /\ WorkersOf(i) = IF items[i].status = "DISPATCHING" THEN 1 ELSE 0
       /\ published[i] = IF items[i].status = "SENT" THEN 1
                         ELSE workers[i].succeeded

IInv == TypeOK /\ Listed /\ \A i \in Item : WorkerInv(i)

(* Where the counting of an e-mail's retries begins: one below the         *)
(* smallest int when its request came with the largest.                    *)
Start(i) == IF requested[i] = MaxInt THEN MinInt - 1 ELSE requested[i]

(* How the retry count of an e-mail follows its tries.  The first try      *)
(* starts from the count of the request; after a failure the count is at   *)
(* most three, or the e-mail is FAILED.                                    *)
TryInv(i) ==
  i \in Added =>
    /\ items[i].status \in {"PENDING", "DISPATCHING"} =>
         LET tried == IF items[i].status = "PENDING" THEN attempts[i]
                                                     ELSE attempts[i] - 1
         IN  \/ tried = 0 /\ items[i].retry = requested[i]
             \/ /\ tried > 0 /\ items[i].retry <= 3
                /\ tried = items[i].retry - Start(i)
    /\ items[i].status = "SENT" => attempts[i] <= TriesAllowed(i)
    /\ items[i].status = "FAILED" => attempts[i] = TriesAllowed(i)

-----------------------------------------------------------------------------
LEMMA Bounds == Interval \in Nat /\ Interval # 0 /\ MaxClock \in Nat
  BY SchedulerAssumption

LEMMA IntRange ==
  /\ MinInt \in Int /\ MaxInt \in Int /\ MinInt <= 0 /\ MaxInt > 3
  /\ \A n \in Ints : n \in Int /\ MinInt <= n /\ n <= MaxInt
  BY SchedulerAssumption DEF Ints

LEMMA IncrementInt ==
  ASSUME NEW n \in Ints PROVE Increment(n) \in Ints /\ Increment(n) \in Int
  BY SchedulerAssumption DEF Ints, Increment

LEMMA AfterFailureType ==
  ASSUME NEW item \in ItemState
  PROVE  /\ AfterFailure(item) \in ItemState
         /\ AfterFailure(item).status \in {"PENDING", "FAILED"}
<1>1. item.sendAt \in SendTimes /\ item.retry \in Ints
  BY DEF ItemState
<1>2. /\ AfterFailure(item).status \in {"PENDING", "FAILED"}
      /\ AfterFailure(item) =
           [status |-> AfterFailure(item).status,
            sendAt |-> item.sendAt, retry |-> Increment(item.retry)]
  BY DEF AfterFailure
<1> QED
  BY <1>1, <1>2, IncrementInt DEF ItemState, Statuses

LEMMA InitIInv == Init => IInv /\ \A i \in Item : TryInv(i)
<1> SUFFICES ASSUME Init PROVE IInv /\ \A i \in Item : TryInv(i)
  OBVIOUS
<1>1. TypeOK
  <2>1. /\ clock \in 0..MaxClock /\ untilTick \in 1..Interval
        /\ ticked \in BOOLEAN /\ loop \in {"runs", "cancelled", "returned"}
    <3>1. clock = 0 /\ untilTick = Interval /\ ticked = FALSE /\ loop = "runs"
      BY DEF Init
    <3>2. 0 \in 0..MaxClock /\ Interval \in 1..Interval
      BY Bounds
    <3> QED
      BY <3>1, <3>2
  <2>2. /\ scheduled \in [Id -> Item \cup {NoItem}]
        /\ items \in [Item -> ItemState \cup {NoItem}]
    BY DEF Init
  <2>3. /\ workers \in [Item -> [publishing : Nat, succeeded : Nat,
                                 refused : Nat]]
        /\ published \in [Item -> Nat] /\ attempts \in [Item -> Nat]
        /\ requested \in [Item -> Ints]
    BY IntRange DEF Init, NoWorkers, Ints
  <2> QED
    BY <2>1, <2>2, <2>3 DEF TypeOK
<1>2. Listed
  BY DEF Init, Listed
<1>3. \A i \in Item : WorkerInv(i) /\ TryInv(i)
  BY DEF Init, WorkerInv, TryInv, Added
<1> QED
  BY <1>1, <1>2, <1>3 DEF IInv

LEMMA DueListed ==
  ASSUME IInv, NEW i \in Item, i \in Due
  PROVE  i \in Added /\ items[i] \in ItemState /\ items[i].status = "PENDING"
<1>1. PICK id \in Id : scheduled[id] = i /\ i # NoItem
  BY DEF Due, Range, IInv, TypeOK
<1>2. i \in Added
  BY <1>1 DEF IInv, Listed
<1>3. items[i] \in ItemState
  BY <1>2 DEF Added, IInv, TypeOK
<1> QED
  BY <1>2, <1>3 DEF Due

LEMMA DispatchIInv ==
  ASSUME IInv, DispatchPending PROVE IInv'
<1> USE SchedulerAssumption
<1>1. ASSUME NEW i \in Item, i \in Due
      PROVE  /\ items'[i] = [items[i] EXCEPT !.status = "DISPATCHING"]
             /\ items'[i] \in ItemState /\ items'[i].status = "DISPATCHING"
             /\ workers'[i] = [workers[i] EXCEPT !.publishing = @ + 1]
             /\ attempts'[i] = attempts[i] + 1
  BY <1>1, DueListed
     DEF DispatchPending, Dispatched, ItemState, Statuses
<1>2. ASSUME NEW i \in Item, i \notin Due
      PROVE  /\ items'[i] = items[i] /\ workers'[i] = workers[i]
             /\ attempts'[i] = attempts[i]
  BY <1>2 DEF DispatchPending, Dispatched
<1>3. /\ UNCHANGED <<clock, untilTick, loop, scheduled, published, requested>>
      /\ ticked' = FALSE
      /\ items' = [i \in Item |-> items'[i]]
      /\ workers' = [i \in Item |-> workers'[i]]
      /\ attempts' = [i \in Item |-> attempts'[i]]
  BY DEF DispatchPending, Dispatched
<1>4. \A i \in Item :
        /\ items'[i] \in ItemState \cup {NoItem}
        /\ workers'[i] \in [publishing : Nat, succeeded : Nat, refused : Nat]
        /\ attempts'[i] \in Nat
  <2> TAKE i \in Item
  <2>1. /\ items[i] \in ItemState \cup {NoItem}
        /\ workers[i] \in [publishing : Nat, succeeded : Nat, refused : Nat]
        /\ attempts[i] \in Nat
    BY DEF IInv, TypeOK
  <2>2. CASE i \in Due
    <3>1. /\ items'[i] \in ItemState
          /\ workers'[i] = [workers[i] EXCEPT !.publishing = @ + 1]
          /\ attempts'[i] = attempts[i] + 1
      BY <2>2, <1>1
    <3>2. workers'[i] \in [publishing : Nat, succeeded : Nat, refused : Nat]
      BY <2>1, <3>1
    <3>3. attempts'[i] \in Nat
      BY <2>1, <3>1
    <3> QED
      BY <3>1, <3>2, <3>3
  <2>3. CASE i \notin Due
    BY <2>1, <2>3, <1>2
  <2> QED
    BY <2>2, <2>3
<1>5. TypeOK'
  BY <1>3, <1>4 DEF IInv, TypeOK
<1>6. Added' = Added
  <2>1. \A i \in Item : items'[i] # NoItem <=> items[i] # NoItem
    BY <1>1, <1>2, DueListed DEF Added
  <2> QED
    BY <2>1 DEF Added
<1>7. Listed'
  BY <1>3, <1>6 DEF IInv, Listed
<1>8. ASSUME NEW i \in Item PROVE WorkerInv(i)'
  <2>1. WorkerInv(i) /\ workers[i] \in [publishing : Nat, succeeded : Nat,
                                        refused : Nat]
    BY DEF IInv, TypeOK
  <2>2. CASE i \in Due
    <3>1. /\ i \in Added /\ i \in Added' /\ items[i].status = "PENDING"
          /\ items'[i].status = "DISPATCHING" /\ published'[i] = published[i]
      BY <2>2, <1>1, <1>3, <1>6, DueListed
    <3>2. /\ workers'[i].publishing = workers[i].publishing + 1
          /\ workers'[i].succeeded = workers[i].succeeded
          /\ workers'[i].refused = workers[i].refused
      BY <2>1, <2>2, <1>1
    <3>3. /\ workers[i].publishing \in Nat /\ workers[i].succeeded \in Nat
          /\ workers[i].refused \in Nat
      BY <2>1
    <3>4. WorkersOf(i) = 0 /\ published[i] = workers[i].succeeded
      BY <2>1, <3>1 DEF WorkerInv
    <3>5. WorkersOf(i)' = 1 /\ published'[i] = workers'[i].succeeded
      BY <3>1, <3>2, <3>3, <3>4 DEF WorkersOf
    <3> QED
      BY <3>1, <3>5 DEF WorkerInv
  <2>3. CASE i \notin Due
    BY <2>1, <2>3, <1>2, <1>3, <1>6 DEF WorkerInv, WorkersOf
  <2> QED
    BY <2>2, <2>3
<1> QED
  BY <1>5, <1>7, <1>8 DEF IInv

LEMMA AddIInv ==
  ASSUME IInv, NEW i \in Item, NEW id \in Id, NEW sendAt \in SendTimes,
         NEW retry \in InitialRetries, AddScheduledEmail(i, id, sendAt, retry)
  PROVE  IInv'
<1> USE SchedulerAssumption
<1>1. TypeOK'
  BY DEF IInv, TypeOK, AddScheduledEmail, timing, ItemState, Statuses
<1>2. Added' = Added \cup {i} /\ \A j \in Item \ {i} : items'[j] = items[j]
  BY DEF IInv, TypeOK, AddScheduledEmail, Added, ItemState, Statuses
<1>3. Listed'
  BY <1>2 DEF IInv, TypeOK, Listed, AddScheduledEmail
<1>4. items'[i].status = "PENDING" /\ i \notin Added
  BY DEF IInv, TypeOK, AddScheduledEmail
<1>5. ASSUME NEW j \in Item PROVE WorkerInv(j)'
  BY <1>2, <1>4 DEF IInv, WorkerInv, WorkersOf, NoWorkers, AddScheduledEmail
<1> QED
  BY <1>1, <1>3, <1>5 DEF IInv

-----------------------------------------------------------------------------
(* A step of a worker: there is exactly one, and its e-mail is accepted.   *)

LEMMA WorkerOf ==
  ASSUME IInv, NEW i \in Item,
         \/ workers[i].publishing > 0 \/ workers[i].succeeded > 0
         \/ workers[i].refused > 0
  PROVE  /\ i \in Added /\ items[i] \in ItemState
         /\ items[i].status = "DISPATCHING"
         /\ WorkersOf(i) = 1
         /\ published[i] = workers[i].succeeded
<1>1. WorkerInv(i) /\ workers[i] \in [publishing : Nat, succeeded : Nat,
                                      refused : Nat]
  BY DEF IInv, TypeOK
<1>2. i \in Added
  BY <1>1 DEF WorkerInv, NoWorkers
<1>3. items[i] \in ItemState
  BY <1>2 DEF Added, IInv, TypeOK
<1>4. WorkersOf(i) # 0
  <2>1. /\ workers[i].publishing \in Nat /\ workers[i].succeeded \in Nat
        /\ workers[i].refused \in Nat
    BY <1>1
  <2> QED
    BY <2>1 DEF WorkersOf
<1> QED
  BY <1>1, <1>2, <1>3, <1>4 DEF WorkerInv

(* The other e-mails notice nothing.                                       *)
LEMMA WorkerLocal ==
  ASSUME IInv, NEW i \in Item, TypeOK', WorkerInv(i)',
         scheduled' = scheduled, Added' = Added,
         \A j \in Item \ {i} : /\ items'[j] = items[j]
                               /\ workers'[j] = workers[j]
                               /\ published'[j] = published[j]
                               /\ attempts'[j] = attempts[j]
  PROVE  IInv'
<1>1. Listed'
  BY DEF IInv, Listed
<1>2. ASSUME NEW j \in Item \ {i} PROVE WorkerInv(j)'
  BY DEF IInv, WorkerInv, WorkersOf
<1> QED
  BY <1>1, <1>2 DEF IInv

LEMMA PublishSucceedsIInv ==
  ASSUME IInv, NEW i \in Item, PublishSucceeds(i) PROVE IInv'
<1>1. /\ i \in Added /\ items[i].status = "DISPATCHING" /\ WorkersOf(i) = 1
      /\ published[i] = workers[i].succeeded
  BY WorkerOf DEF PublishSucceeds, Proceed
<1>2. workers'[i] = [workers[i] EXCEPT !.publishing = @ - 1, !.succeeded = @ + 1]
  BY DEF PublishSucceeds, Proceed, IInv, TypeOK
<1>3. TypeOK'
  BY DEF PublishSucceeds, Proceed, IInv, TypeOK, timing
<1>4. WorkerInv(i)' /\ Added' = Added
  BY <1>1, <1>2
     DEF PublishSucceeds, IInv, TypeOK, WorkerInv, WorkersOf, Added
<1> QED
  BY <1>3, <1>4, WorkerLocal DEF PublishSucceeds, Proceed, IInv, TypeOK

LEMMA PublishFailsIInv ==
  ASSUME IInv, NEW i \in Item, PublishFails(i) PROVE IInv'
<1>1. /\ i \in Added /\ items[i].status = "DISPATCHING" /\ WorkersOf(i) = 1
      /\ published[i] = workers[i].succeeded
  BY WorkerOf DEF history, PublishFails, Proceed
<1>2. workers'[i] = [workers[i] EXCEPT !.publishing = @ - 1, !.refused = @ + 1]
  BY DEF history, PublishFails, Proceed, IInv, TypeOK
<1>3. TypeOK'
  BY DEF history, PublishFails, Proceed, IInv, TypeOK, timing
<1>4. WorkerInv(i)' /\ Added' = Added
  BY <1>1, <1>2
     DEF history, PublishFails, IInv, TypeOK, WorkerInv, WorkersOf, Added
<1> QED
  BY <1>3, <1>4, WorkerLocal DEF history, PublishFails, Proceed, IInv, TypeOK

LEMMA RecordSuccessIInv ==
  ASSUME IInv, NEW i \in Item, RecordSuccess(i) PROVE IInv'
<1> USE SchedulerAssumption
<1>1. /\ i \in Added /\ items[i] \in ItemState
      /\ WorkersOf(i) = 1 /\ published[i] = workers[i].succeeded
  BY WorkerOf DEF RecordSuccess, Leave
<1>2. /\ workers'[i] = [workers[i] EXCEPT !.succeeded = @ - 1]
      /\ items'[i] = [items[i] EXCEPT !.status = "SENT"]
      /\ items'[i] \in ItemState /\ items'[i].status = "SENT"
  BY <1>1 DEF history, RecordSuccess, Leave, IInv, TypeOK, ItemState, Statuses
<1>3. TypeOK'
  BY <1>2 DEF history, RecordSuccess, Leave, IInv, TypeOK, timing
<1>4. WorkerInv(i)' /\ Added' = Added
  <2>1. Added' = Added
    BY <1>1, <1>2 DEF history, RecordSuccess, IInv, TypeOK, Added
  <2>2. workers[i] \in [publishing : Nat, succeeded : Nat, refused : Nat]
    BY DEF IInv, TypeOK
  <2>3. /\ workers[i].succeeded = 1 /\ workers[i].publishing = 0
        /\ workers[i].refused = 0
    BY <1>1, <2>2 DEF RecordSuccess, Leave, WorkersOf
  <2>4. /\ workers'[i].succeeded = 0 /\ workers'[i].publishing = 0
        /\ workers'[i].refused = 0 /\ published'[i] = 1
    BY <1>1, <1>2, <2>2, <2>3 DEF history, RecordSuccess
  <2> QED
    BY <1>1, <1>2, <2>1, <2>4 DEF WorkerInv, WorkersOf
<1> QED
  BY <1>3, <1>4, WorkerLocal DEF history, RecordSuccess, Leave, IInv, TypeOK

LEMMA RecordFailureIInv ==
  ASSUME IInv, NEW i \in Item, RecordFailure(i) PROVE IInv'
<1>1. /\ i \in Added /\ items[i] \in ItemState
      /\ WorkersOf(i) = 1 /\ published[i] = workers[i].succeeded
  BY WorkerOf DEF RecordFailure, Leave
<1>2. /\ workers'[i] = [workers[i] EXCEPT !.refused = @ - 1]
      /\ items'[i] = AfterFailure(items[i])
  BY DEF history, RecordFailure, Leave, IInv, TypeOK
<1>5. /\ AfterFailure(items[i]) \in ItemState
      /\ AfterFailure(items[i]).status \in {"PENDING", "FAILED"}
  BY <1>1, AfterFailureType
<1>3. TypeOK'
  BY <1>2, <1>5 DEF history, RecordFailure, Leave, IInv, TypeOK, timing
<1>4. WorkerInv(i)' /\ Added' = Added
  <2>1. Added' = Added
    BY <1>1, <1>2, <1>5, SchedulerAssumption
       DEF history, RecordFailure, IInv, TypeOK, Added
  <2>2. workers[i] \in [publishing : Nat, succeeded : Nat, refused : Nat]
    BY DEF IInv, TypeOK
  <2>3. /\ workers[i].refused = 1 /\ workers[i].publishing = 0
        /\ workers[i].succeeded = 0
    <3>1. /\ workers[i].publishing \in Nat /\ workers[i].succeeded \in Nat
          /\ workers[i].refused \in Nat /\ workers[i].refused > 0
      BY <2>2 DEF RecordFailure, Leave
    <3> QED
      BY <1>1, <3>1 DEF WorkersOf
  <2>4. /\ workers'[i].succeeded = 0 /\ workers'[i].publishing = 0
        /\ workers'[i].refused = 0 /\ published'[i] = 0
    BY <1>1, <1>2, <2>2, <2>3 DEF history, RecordFailure
  <2> QED
    BY <1>1, <1>2, <1>5, <2>1, <2>4 DEF WorkerInv, WorkersOf
<1> QED
  BY <1>3, <1>4, WorkerLocal DEF history, RecordFailure, Leave, IInv, TypeOK

(* Time, and the end of the loop, are no concern of the e-mails.           *)
LEMMA TimingIInv ==
  ASSUME IInv, Advance \/ Cancel \/ LoopReturns \/ UNCHANGED vars
  PROVE  IInv'
<1>1. UNCHANGED <<scheduled, items, workers, published, attempts, requested>>
  BY DEF history, Advance, Cancel, LoopReturns, vars
<1>2. TypeOK'
  <2>1. /\ clock \in 0..MaxClock /\ untilTick \in 1..Interval
        /\ ticked \in BOOLEAN /\ loop \in {"runs", "cancelled", "returned"}
    BY DEF IInv, TypeOK
  <2>2. /\ clock' \in 0..MaxClock /\ untilTick' \in 1..Interval
        /\ ticked' \in BOOLEAN
        /\ loop' \in {"runs", "cancelled", "returned"}
    <3>1. CASE Advance
      BY <2>1, <3>1, Bounds DEF history, Advance
    <3>2. CASE Cancel \/ LoopReturns \/ UNCHANGED vars
      BY <2>1, <3>2 DEF Cancel, LoopReturns, vars
    <3> QED
      BY <3>1, <3>2
  <2> QED
    BY <1>1, <2>2 DEF IInv, TypeOK, history
<1>3. Listed' /\ \A i \in Item : WorkerInv(i)'
  BY <1>1 DEF IInv, Listed, WorkerInv, WorkersOf, Added
<1> QED
  BY <1>2, <1>3 DEF IInv

LEMMA NextIInv == IInv /\ [Next]_vars => IInv'
<1> SUFFICES ASSUME IInv, [Next]_vars PROVE IInv'
  OBVIOUS
<1>1. CASE Advance \/ Cancel \/ LoopReturns \/ UNCHANGED vars
  BY <1>1, TimingIInv
<1>2. CASE DispatchPending
  BY <1>2, DispatchIInv
<1>3. ASSUME NEW i \in Item, NEW id \in Id, NEW sendAt \in SendTimes,
             NEW retry \in InitialRetries,
             AddScheduledEmail(i, id, sendAt, retry)
      PROVE  IInv'
  BY <1>3, AddIInv
<1>4. ASSUME NEW i \in Item, WorkerStep(i) PROVE IInv'
  BY <1>4, PublishSucceedsIInv, PublishFailsIInv, RecordSuccessIInv,
     RecordFailureIInv DEF WorkerStep
<1> QED
  BY <1>1, <1>2, <1>3, <1>4 DEF Next

LEMMA Invariance == Spec => []IInv
  BY InitIInv, NextIInv, PTL DEF Spec

-----------------------------------------------------------------------------
(* The objects, goroutines and counters keep their types.                  *)
THEOREM SchedulerTypeCorrect == Spec => []TypeOK
<1>1. IInv => TypeOK
  BY DEF IInv
<1> QED
  BY Invariance, <1>1, PTL

(* An e-mail never has two goroutines, however the ticks fall: marking it  *)
(* under the mutex before the goroutine is started is what excludes them.  *)
THEOREM OneWorker == Spec => []OneWorkerWhileDispatching
<1>1. IInv => OneWorkerWhileDispatching
  BY DEF IInv, WorkerInv, OneWorkerWhileDispatching, Added
<1> QED
  BY Invariance, <1>1, PTL

(* The invariant ties the publications of an e-mail to its status.         *)
LEMMA InvPublished == IInv => PublishedOnce /\ StatusTruthful
<1> SUFFICES ASSUME IInv PROVE PublishedOnce /\ StatusTruthful
  OBVIOUS
<1>1. ASSUME NEW i \in Item
      PROVE  /\ published[i] <= 1
             /\ i \in Added =>
                  /\ items[i].status = "SENT" => published[i] = 1
                  /\ items[i].status \in {"PENDING", "FAILED"} =>
                       published[i] = 0
  <2>1. WorkerInv(i) /\ workers[i] \in [publishing : Nat, succeeded : Nat,
                                        refused : Nat]
    BY DEF IInv, TypeOK
  <2>2. /\ workers[i].publishing \in Nat /\ workers[i].succeeded \in Nat
        /\ workers[i].refused \in Nat
    BY <2>1
  <2>3. CASE i \notin Added
    BY <2>1, <2>3 DEF WorkerInv
  <2>4. CASE i \in Added
    <3>1. workers[i].succeeded <= WorkersOf(i)
      BY <2>2 DEF WorkersOf
    <3> QED
      BY <2>1, <2>2, <2>4, <3>1 DEF WorkerInv
  <2> QED
    BY <2>3, <2>4
<1> QED
  BY <1>1 DEF PublishedOnce, StatusTruthful, Added

(* No e-mail is published twice, however ticks and retries overlap.        *)
THEOREM AtMostOnce == Spec => []PublishedOnce
  BY Invariance, InvPublished, PTL

(* The status shown tells the truth: SENT was published, PENDING and       *)
(* FAILED were not.                                                        *)
THEOREM StatusIsTrue == Spec => []StatusTruthful
  BY Invariance, InvPublished, PTL

-----------------------------------------------------------------------------
(* The tries.                                                              *)

TriesInv == IInv /\ \A i \in Item : TryInv(i)

(* What TriesAllowed says, by where the counting begins.          *)
LEMMA Allowed ==
  ASSUME TypeOK, NEW i \in Item
  PROVE  /\ requested[i] \in Ints /\ Start(i) \in Int
         /\ TriesAllowed(i) = IF Start(i) > 3 THEN 1 ELSE 4 - Start(i)
         /\ TriesAllowed(i) \in Nat \ {0}
<1>1. requested[i] \in Ints
  BY DEF TypeOK
<1>2. Start(i) \in Int
  BY <1>1, IntRange DEF Start
<1>3. TriesAllowed(i) = IF Start(i) > 3 THEN 1 ELSE 4 - Start(i)
  BY DEF TriesAllowed, Start
<1> QED
  BY <1>1, <1>2, <1>3

(* A try is one of those allowed; it is the last one if and only if the    *)
(* count it leaves behind is above three.                                  *)
LEMMA TryCounts ==
  ASSUME TriesInv, NEW i \in Item, i \in Added,
         items[i].status \in {"PENDING", "DISPATCHING"}
  PROVE  LET tried == IF items[i].status = "PENDING" THEN attempts[i]
                                                     ELSE attempts[i] - 1
         IN  /\ tried + 1 <= TriesAllowed(i)
             /\ Increment(items[i].retry) > 3 <=> tried + 1 = TriesAllowed(i)
             /\ Increment(items[i].retry) = tried + 1 + Start(i)
<1> DEFINE tried == IF items[i].status = "PENDING" THEN attempts[i]
                                                   ELSE attempts[i] - 1
<1>1. /\ TypeOK /\ TryInv(i) /\ attempts[i] \in Nat
      /\ items[i].retry \in Ints
  BY DEF TriesInv, IInv, TypeOK, Added, ItemState
<1>2. /\ requested[i] \in Ints /\ Start(i) \in Int
      /\ TriesAllowed(i) = IF Start(i) > 3 THEN 1 ELSE 4 - Start(i)
  BY <1>1, Allowed
<1>3. tried \in Int
  BY <1>1
<1>4. \/ tried = 0 /\ items[i].retry = requested[i]
      \/ tried > 0 /\ items[i].retry <= 3 /\ tried = items[i].retry - Start(i)
  BY <1>1 DEF TryInv
<1> HIDE DEF tried
<1> DEFINE Goal == /\ tried + 1 <= TriesAllowed(i)
                   /\ Increment(items[i].retry) > 3 <=>
                        tried + 1 = TriesAllowed(i)
                   /\ Increment(items[i].retry) = tried + 1 + Start(i)
<1>5. ASSUME tried = 0, items[i].retry = requested[i] PROVE Goal
  <2>1. Increment(items[i].retry) = 1 + Start(i)
    BY <1>2, <1>5, IntRange DEF Increment, Start
  <2> QED
    BY <1>2, <1>5, <2>1
<1>6. ASSUME tried > 0, items[i].retry <= 3, tried = items[i].retry - Start(i)
      PROVE  Goal
  <2>1. Increment(items[i].retry) = items[i].retry + 1
    BY <1>1, <1>6, IntRange DEF Increment
  <2> QED
    BY <1>1, <1>2, <1>3, <1>6, <2>1, IntRange
<1>7. Goal
  BY <1>4, <1>5, <1>6
<1> QED
  BY <1>7 DEF tried

LEMMA NextTriesInv == TriesInv /\ [Next]_vars => TriesInv'
<1> SUFFICES ASSUME TriesInv, [Next]_vars, NEW j \in Item PROVE TryInv(j)'
  BY NextIInv DEF TriesInv
<1>0. /\ IInv /\ TryInv(j)
      /\ attempts[j] \in Nat
      /\ items[j] \in ItemState \cup {NoItem}
      /\ \A i \in Item : i \in Added <=> items[i] # NoItem
  BY DEF TriesInv, IInv, TypeOK, Added
<1>6. ASSUME items'[j] = items[j], attempts'[j] = attempts[j],
             requested'[j] = requested[j]
      PROVE  TryInv(j)'
  BY <1>0, <1>6 DEF TryInv, TriesAllowed, Start, Added
<1>1. CASE Advance \/ Cancel \/ LoopReturns \/ UNCHANGED vars
  BY <1>1, <1>6 DEF Advance, Cancel, LoopReturns, vars, history
<1>2. CASE DispatchPending
  <2>0. requested' = requested
    BY <1>2 DEF DispatchPending, Dispatched
  <2>1. CASE j \in Due
    <3>1. j \in Added /\ items[j] \in ItemState /\ items[j].status = "PENDING"
      BY <1>0, <2>1, DueListed
    <3>2. /\ items'[j].status = "DISPATCHING" /\ items'[j].retry = items[j].retry
          /\ attempts'[j] = attempts[j] + 1
      BY <1>2, <2>1, <3>1 DEF DispatchPending, Dispatched, ItemState
    <3>3. Start(j)' = Start(j) /\ attempts'[j] - 1 = attempts[j]
      BY <1>0, <2>0, <3>2 DEF Start
    <3> QED
      BY <1>0, <2>0, <3>1, <3>2, <3>3 DEF TryInv
  <2>2. CASE j \notin Due
    BY <1>2, <1>6, <2>0, <2>2 DEF DispatchPending, Dispatched
  <2> QED
    BY <2>1, <2>2
<1>3. ASSUME NEW i \in Item, NEW id \in Id, NEW sendAt \in SendTimes,
             NEW retry \in InitialRetries,
             AddScheduledEmail(i, id, sendAt, retry)
      PROVE  TryInv(j)'
  <2>1. attempts' = attempts
    BY <1>3 DEF AddScheduledEmail
  <2>2. CASE j = i
    <3>1. attempts[j] = 0
      BY <1>0, <1>3, <2>2 DEF AddScheduledEmail, IInv, WorkerInv
    <3>2. /\ items'[j].status = "PENDING" /\ items'[j].retry = retry
          /\ requested'[j] = retry
      BY <1>0, <1>3, <2>2 DEF AddScheduledEmail, IInv, TypeOK
    <3> QED
      BY <2>1, <3>1, <3>2 DEF TryInv
  <2>3. CASE j # i
    BY <1>0, <1>3, <1>6, <2>1, <2>3 DEF AddScheduledEmail, IInv, TypeOK
  <2> QED
    BY <2>2, <2>3
<1>4. ASSUME NEW i \in Item, PublishSucceeds(i) \/ PublishFails(i)
      PROVE  TryInv(j)'
  BY <1>4, <1>6 DEF PublishSucceeds, PublishFails, history
<1>5. ASSUME NEW i \in Item, RecordSuccess(i) \/ RecordFailure(i)
      PROVE  TryInv(j)'
  <2>1. i \in Added /\ items[i] \in ItemState /\ items[i].status = "DISPATCHING"
    BY <1>0, <1>5, WorkerOf DEF RecordSuccess, RecordFailure, Leave
  <2>2. /\ attempts' = attempts /\ requested' = requested
        /\ j # i => items'[j] = items[j]
    BY <1>0, <1>5 DEF RecordSuccess, RecordFailure, IInv, TypeOK, history
  <2>3. /\ TriesAllowed(j)' = TriesAllowed(j) /\ Start(j)' = Start(j)
        /\ TriesAllowed(j) \in Nat /\ Start(j) \in Int
    BY <1>0, <2>2, Allowed DEF TriesAllowed, Start, IInv
  <2>4. j = i => /\ attempts[j] <= TriesAllowed(j)
                 /\ Increment(items[j].retry) > 3 <=>
                      attempts[j] = TriesAllowed(j)
                 /\ Increment(items[j].retry) = attempts[j] + Start(j)
    BY <1>0, <2>1, TryCounts
  <2>5. CASE j = i /\ RecordSuccess(i)
    <3>1. items'[j].status = "SENT"
      BY <1>0, <2>1, <2>5 DEF RecordSuccess, IInv, TypeOK, ItemState
    <3> QED
      BY <1>0, <2>2, <2>3, <2>4, <2>5, <3>1 DEF TryInv
  <2>6. CASE j = i /\ RecordFailure(i)
    <3>1. items'[j] = AfterFailure(items[j])
      BY <1>0, <2>6 DEF RecordFailure, IInv, TypeOK
    <3>2. /\ items'[j].retry = Increment(items[j].retry)
          /\ items'[j].status = IF Increment(items[j].retry) > 3 THEN "FAILED"
                                ELSE "PENDING"
      BY <3>1 DEF AfterFailure
    <3>3. attempts[j] > 0
      BY <1>0, <2>1, <2>6 DEF TryInv
    <3> QED
      BY <1>0, <2>2, <2>3, <2>4, <2>6, <3>2, <3>3 DEF TryInv
  <2>7. CASE j # i
    BY <1>6, <2>2, <2>7
  <2> QED
    BY <1>5, <2>5, <2>6, <2>7
<1> QED
  BY <1>1, <1>2, <1>3, <1>4, <1>5 DEF Next, WorkerStep

LEMMA TriesInvariance == Spec => []TriesInv
<1>1. Init => TriesInv
  BY InitIInv DEF TriesInv
<1>2. TriesInv /\ [Next]_vars => TriesInv'
  BY NextTriesInv
<1> QED
  BY <1>1, <1>2, PTL DEF Spec

(* An e-mail is tried as often as the retry count its request came with    *)
(* leaves it, whatever that count is, and is failed after the last try.    *)
THEOREM TriesBounded == Spec => []TriesAsRequested
<1>1. TriesInv => TriesAsRequested
  <2> SUFFICES ASSUME TriesInv, NEW i \in Added
               PROVE  /\ attempts[i] <= TriesAllowed(i)
                      /\ items[i].status = "FAILED" =>
                           attempts[i] = TriesAllowed(i)
    BY DEF TriesAsRequested
  <2>1. /\ i \in Item /\ TryInv(i) /\ attempts[i] \in Nat
        /\ items[i] \in ItemState /\ TypeOK
    BY DEF TriesInv, IInv, TypeOK, Added
  <2>2. items[i].status \in Statuses /\ TriesAllowed(i) \in Nat
    BY <2>1, Allowed DEF ItemState
  <2>3. items[i].status \in {"PENDING", "DISPATCHING"} =>
          attempts[i] <= TriesAllowed(i)
    BY <2>1, <2>2, TryCounts
  <2> QED
    BY <2>1, <2>2, <2>3 DEF TryInv, Statuses
<1> QED
  BY <1>1, TriesInvariance, PTL

-----------------------------------------------------------------------------
(* Refinement.                                                             *)

LEMMA InitPromise == Init => Delivery!Init
<1> SUFFICES ASSUME Init PROVE Delivery!Init
  OBVIOUS
<1>1. \A i \in Item : Progress(i) = "absent"
  BY DEF Init, Progress
<1> QED
  BY <1>1 DEF Init, Delivery!Init

(* How far an e-mail is, in terms of what its goroutine has done.          *)
LEMMA ProgressOf ==
  ASSUME IInv, NEW i \in Item, i \in Added
  PROVE  /\ items[i].status = "PENDING" => Progress(i) = "waiting"
         /\ items[i].status = "DISPATCHING" =>
              Progress(i) = IF published[i] = 0 THEN "sending" ELSE "sent"
         /\ items[i].status = "SENT" => Progress(i) = "sent"
         /\ items[i].status = "FAILED" => Progress(i) = "failed"
  BY DEF Progress, Added

LEMMA SameProgress ==
  ASSUME NEW j \in Item, items'[j] = items[j], published'[j] = published[j]
  PROVE  Progress(j)' = Progress(j)
  BY DEF Progress

(* A new state of an object, and what it maps to.                          *)
LEMMA NewProgress ==
  ASSUME NEW i \in Item, items'[i] # NoItem
  PROVE  /\ items'[i].status = "PENDING" => Progress(i)' = "waiting"
         /\ items'[i].status = "SENT" => Progress(i)' = "sent"
         /\ items'[i].status = "FAILED" => Progress(i)' = "failed"
  BY DEF Progress

(* The e-mail a step is about moves from one stage to another, and the     *)
(* rest stay where they are.                                               *)
LEMMA OneMoves ==
  ASSUME NEW i \in Item, NEW to, Progress(i)' = to,
         \A j \in Item \ {i} : Progress(j)' = Progress(j)
  PROVE  [j \in Item |-> Progress(j)]' =
           [[j \in Item |-> Progress(j)] EXCEPT ![i] = to]
  OBVIOUS

Given(i) == IF items[i] = NoItem THEN 0 ELSE TriesAllowed(i)

(* The tries given to accepted e-mails never change.                       *)
LEMMA GivenKept ==
  ASSUME NEW j \in Item, requested'[j] = requested[j],
         items'[j] # NoItem <=> items[j] # NoItem
  PROVE  Given(j)' = Given(j)
  BY DEF Given, TriesAllowed

(* A failure is for good exactly when it was the last try.                 *)
LEMMA LastTry ==
  ASSUME TriesInv, NEW i \in Item, i \in Added, items[i].status = "DISPATCHING"
  PROVE  /\ Increment(items[i].retry) > 3 => attempts[i] = Given(i)
         /\ Increment(items[i].retry) <= 3 => attempts[i] < Given(i)
<1>1. /\ TypeOK /\ attempts[i] \in Nat /\ items[i].retry \in Ints
      /\ Given(i) = TriesAllowed(i) /\ attempts[i] - 1 + 1 = attempts[i]
  BY DEF TriesInv, IInv, TypeOK, Added, ItemState, Given
<1>2. /\ TriesAllowed(i) \in Nat /\ Increment(items[i].retry) \in Int
      /\ attempts[i] <= TriesAllowed(i)
      /\ Increment(items[i].retry) > 3 <=> attempts[i] = TriesAllowed(i)
  BY <1>1, Allowed, IncrementInt, TryCounts
<1> QED
  BY <1>1, <1>2

(* What a worker records leaves its e-mail accepted.                       *)
LEMMA StillAccepted ==
  ASSUME IInv, NEW i \in Item, WorkerStep(i), i \in Added
  PROVE  items'[i] # NoItem
<1>1. CASE PublishSucceeds(i) \/ PublishFails(i)
  BY <1>1 DEF PublishSucceeds, PublishFails, history, Added
<1>2. CASE RecordSuccess(i)
  <2>1. items'[i] \in ItemState
    BY <1>2 DEF RecordSuccess, IInv, TypeOK, Added, ItemState, Statuses
  <2> QED
    BY <2>1, SchedulerAssumption
<1>3. CASE RecordFailure(i)
  <2>1. items'[i] = AfterFailure(items[i]) /\ items[i] \in ItemState
    BY <1>3 DEF RecordFailure, IInv, TypeOK, Added
  <2>2. items'[i] \in ItemState
    BY <2>1, AfterFailureType
  <2> QED
    BY <2>2, SchedulerAssumption
<1> QED
  BY <1>1, <1>2, <1>3 DEF WorkerStep

LEMMA StepPromise ==
  ASSUME TriesInv, [Next]_vars
  PROVE  [Delivery!Next]_(Delivery!promise)
<1> DEFINE mail == [j \in Item |-> Progress(j)]
           limit == [j \in Item |-> IF items[j] = NoItem THEN 0
                                   ELSE TriesAllowed(j)]
<1>0. IInv
  BY DEF TriesInv
<1>a. limit = [j \in Item |-> Given(j)] /\ limit' = [j \in Item |-> Given(j)']
  BY DEF Given
<1>b. ASSUME requested' = requested,
             \A j \in Item : items'[j] # NoItem <=> items[j] # NoItem
      PROVE  limit' = limit
  BY <1>a, <1>b, GivenKept
<1>1. CASE Advance \/ Cancel \/ LoopReturns \/ UNCHANGED vars
  <2>1. UNCHANGED <<items, published, attempts, requested>>
    BY <1>1 DEF Advance, Cancel, LoopReturns, vars, history
  <2>2. \A j \in Item : Progress(j)' = Progress(j)
    BY <2>1 DEF Progress
  <2>3. limit' = limit
    BY <1>b, <2>1
  <2> QED
    BY <2>1, <2>2, <2>3 DEF Delivery!promise
<1>2. CASE DispatchPending
  <2>1. ASSUME NEW j \in Item, j \in Due
        PROVE  /\ Progress(j) = "waiting" /\ attempts[j] < limit[j]
               /\ Progress(j)' = "sending" /\ attempts'[j] = attempts[j] + 1
               /\ items[j] # NoItem /\ items'[j] # NoItem
    <3>1. j \in Added /\ items[j] \in ItemState /\ items[j].status = "PENDING"
      BY <1>0, <2>1, DueListed
    <3>2. /\ items'[j].status = "DISPATCHING" /\ items'[j] # NoItem
          /\ attempts'[j] = attempts[j] + 1 /\ published' = published
      <4>1. /\ items'[j] = [items[j] EXCEPT !.status = "DISPATCHING"]
            /\ attempts'[j] = attempts[j] + 1 /\ published' = published
        BY <1>2, <2>1 DEF DispatchPending, Dispatched
      <4>2. items'[j] \in ItemState /\ items'[j].status = "DISPATCHING"
        BY <3>1, <4>1 DEF ItemState, Statuses
      <4> QED
        BY <4>1, <4>2, SchedulerAssumption
    <3>3. published[j] = 0
      <4>1. workers[j] \in [publishing : Nat, succeeded : Nat, refused : Nat]
        BY <1>0 DEF IInv, TypeOK
      <4>2. /\ workers[j].publishing \in Nat /\ workers[j].succeeded \in Nat
            /\ workers[j].refused \in Nat
        BY <4>1
      <4>3. WorkersOf(j) = 0 /\ published[j] = workers[j].succeeded
        BY <1>0, <3>1 DEF IInv, WorkerInv
      <4> QED
        BY <4>2, <4>3 DEF WorkersOf
    <3>4. attempts[j] < limit[j] /\ items[j] # NoItem
      <4>1. /\ attempts[j] + 1 <= TriesAllowed(j) /\ attempts[j] \in Nat
            /\ TriesAllowed(j) \in Nat
        BY <1>0, <3>1, TryCounts, Allowed DEF IInv, TypeOK
      <4> QED
        BY <3>1, <4>1 DEF Added
    <3> QED
      BY <1>0, <3>1, <3>2, <3>3, <3>4, ProgressOf DEF Progress
  <2>2. ASSUME NEW j \in Item, j \notin Due
        PROVE  /\ Progress(j)' = Progress(j) /\ attempts'[j] = attempts[j]
               /\ items'[j] = items[j]
    BY <1>2, <2>2, SameProgress DEF DispatchPending, Dispatched
  <2>3. published' = published /\ Due \subseteq Item
    BY <1>0, <1>2 DEF DispatchPending, Dispatched, Due, Range, IInv, TypeOK
  <2>4. attempts' = [j \in Item |-> IF j \in Due THEN attempts[j] + 1
                                    ELSE attempts[j]]
    BY <1>2 DEF DispatchPending, Dispatched
  <2>6. limit' = limit
    <3>1. requested' = requested
      BY <1>2 DEF DispatchPending, Dispatched
    <3> QED
      BY <1>b, <2>1, <2>2, <3>1
  <2>5. Delivery!Try(Due)
    BY <2>1, <2>2, <2>3, <2>4, <2>6 DEF Delivery!Try
  <2> QED
    BY <2>3, <2>5 DEF Delivery!Next
<1>3. ASSUME NEW i \in Item, NEW id \in Id, NEW sendAt \in SendTimes,
             NEW retry \in InitialRetries,
             AddScheduledEmail(i, id, sendAt, retry)
      PROVE  Delivery!Next
  <2>1. Progress(i) = "absent"
    BY <1>3 DEF AddScheduledEmail, Added, Progress
  <2>2. items'[i] \in ItemState /\ items'[i].status = "PENDING"
    BY <1>0, <1>3, SchedulerAssumption
       DEF AddScheduledEmail, IInv, TypeOK, ItemState, Statuses
  <2>3. Progress(i)' = "waiting"
    BY <2>2, SchedulerAssumption DEF Progress
  <2>4. \A j \in Item \ {i} : Progress(j)' = Progress(j)
    BY <1>0, <1>3, SameProgress DEF AddScheduledEmail, IInv, TypeOK
  <2>5. mail' = [mail EXCEPT ![i] = "waiting"]
    BY <2>3, <2>4
  <2>7. /\ limit'[i] \in Nat \ {0}
        /\ limit' = [limit EXCEPT ![i] = limit'[i]]
    <3>1. items'[i] # NoItem
      BY <2>2, SchedulerAssumption
    <3>2. limit'[i] = TriesAllowed(i)' /\ IInv'
      BY <1>0, <1>3, <3>1, AddIInv
    <3>3. TriesAllowed(i)' \in Nat \ {0}
      <4>1. requested'[i] \in Ints
        BY <3>2 DEF IInv, TypeOK
      <4> QED
        BY <4>1, IntRange DEF TriesAllowed
    <3>4. ASSUME NEW j \in Item \ {i} PROVE Given(j)' = Given(j)
      BY <1>0, <1>3, <3>4, GivenKept DEF AddScheduledEmail, IInv, TypeOK
    <3>5. limit' = [j \in Item |-> Given(j)'] /\ limit = [j \in Item |-> Given(j)]
      BY <1>a
    <3> HIDE DEF limit
    <3> QED
      BY <3>2, <3>3, <3>4, <3>5
  <2>6. Delivery!Accept(i)
    BY <1>3, <2>1, <2>5, <2>7 DEF AddScheduledEmail, Delivery!Accept
  <2> QED
    BY <2>6 DEF Delivery!Next
<1>4. ASSUME NEW i \in Item, WorkerStep(i)
      PROVE  [Delivery!Next]_(Delivery!promise)
  <2>0. /\ i \in Added /\ items[i] \in ItemState
        /\ items[i].status = "DISPATCHING" /\ WorkersOf(i) = 1
        /\ published[i] = workers[i].succeeded
        /\ workers[i].publishing \in Nat /\ workers[i].succeeded \in Nat
        /\ workers[i].refused \in Nat
    <3>1. workers[i] \in [publishing : Nat, succeeded : Nat, refused : Nat]
      BY <1>0 DEF IInv, TypeOK
    <3>2. /\ workers[i].publishing \in Nat /\ workers[i].succeeded \in Nat
          /\ workers[i].refused \in Nat
      BY <3>1
    <3> QED
      BY <1>0, <1>4, <3>2, WorkerOf
         DEF WorkerStep, PublishSucceeds, PublishFails, RecordSuccess,
             RecordFailure, Proceed, Leave
  <2>5. limit' = limit
    <3>1. requested' = requested /\ IInv'
      BY <1>0, <1>4, PublishSucceedsIInv, PublishFailsIInv, RecordSuccessIInv,
         RecordFailureIInv
         DEF WorkerStep, PublishSucceeds, PublishFails, RecordSuccess,
             RecordFailure, history
    <3>2. \A j \in Item \ {i} : items'[j] = items[j]
      BY <1>0, <1>4 DEF WorkerStep, PublishSucceeds, PublishFails,
                        RecordSuccess, RecordFailure, history, IInv, TypeOK
    <3>3. items'[i] # NoItem
      BY <1>0, <1>4, <2>0, StillAccepted
    <3> QED
      BY <1>b, <2>0, <3>1, <3>2, <3>3 DEF Added
  <2>1. CASE PublishSucceeds(i)
    <3>1. published[i] = 0
      BY <2>0, <2>1 DEF PublishSucceeds, Proceed, WorkersOf
    <3>2. /\ items' = items /\ attempts' = attempts
          /\ published' = [published EXCEPT ![i] = @ + 1]
          /\ published'[i] = 1
          /\ \A j \in Item \ {i} : published'[j] = published[j]
      BY <1>0, <2>1, <3>1 DEF PublishSucceeds, IInv, TypeOK
    <3>3. /\ Progress(i) = "sending" /\ Progress(i)' = "sent"
          /\ \A j \in Item \ {i} : Progress(j)' = Progress(j)
      BY <2>0, <3>1, <3>2 DEF Progress, Added
    <3>4. mail' = [mail EXCEPT ![i] = "sent"]
      BY <3>3
    <3>5. Delivery!Deliver(i)
      BY <2>5, <3>2, <3>3, <3>4 DEF Delivery!Deliver
    <3> QED
      BY <3>5 DEF Delivery!Next
  <2>2. CASE PublishFails(i)
    <3>1. UNCHANGED <<items, published, attempts>>
      BY <2>2 DEF PublishFails, history
    <3>2. \A j \in Item : Progress(j)' = Progress(j)
      BY <3>1 DEF Progress
    <3> QED
      BY <2>5, <3>1, <3>2 DEF Delivery!promise
  <2>3. CASE RecordSuccess(i)
    <3>1. published[i] # 0
      BY <2>0, <2>3 DEF RecordSuccess, Leave
    <3>2. /\ UNCHANGED <<published, attempts>>
          /\ items'[i].status = "SENT" /\ items'[i] \in ItemState
          /\ \A j \in Item \ {i} : items'[j] = items[j]
      BY <1>0, <2>0, <2>3 DEF RecordSuccess, history, IInv, TypeOK, ItemState, Statuses
    <3>3. Progress(i) = "sent" /\ Progress(i)' = "sent"
      BY <1>0, <2>0, <3>1, <3>2, SchedulerAssumption, ProgressOf, NewProgress
    <3>4. \A j \in Item : Progress(j)' = Progress(j)
      BY <3>2, <3>3, SameProgress
    <3> QED
      BY <2>5, <3>2, <3>4 DEF Delivery!promise
  <2>4. CASE RecordFailure(i)
    <3>1. published[i] = 0
      BY <2>0, <2>4 DEF RecordFailure, Leave, WorkersOf
    <3>2. /\ UNCHANGED <<published, attempts>>
          /\ items'[i] = AfterFailure(items[i])
          /\ \A j \in Item \ {i} : items'[j] = items[j]
      BY <1>0, <2>4 DEF RecordFailure, history, IInv, TypeOK
    <3>3. /\ items'[i].status \in {"PENDING", "FAILED"}
          /\ items'[i] # NoItem
      BY <2>0, <3>2, AfterFailureType, SchedulerAssumption
    <3>4. /\ Progress(i) = "sending"
          /\ Progress(i)' \in {"waiting", "failed"}
          /\ \A j \in Item \ {i} : Progress(j)' = Progress(j)
      BY <1>0, <2>0, <3>1, <3>2, <3>3, ProgressOf, NewProgress, SameProgress
    <3>5. CASE items'[i].status = "PENDING"
      <4>1. Progress(i)' = "waiting" /\ attempts[i] < limit[i]
        <5>1. Increment(items[i].retry) <= 3
          BY <2>0, <3>2, <3>5, IncrementInt DEF AfterFailure, ItemState
        <5> QED
          BY <1>a, <2>0, <3>5, <3>3, <5>1, NewProgress, LastTry
      <4>2. Delivery!GiveBack(i)
        BY <2>5, <3>2, <3>4, <4>1 DEF Delivery!GiveBack
      <4> QED
        BY <4>2 DEF Delivery!Next
    <3>7. CASE items'[i].status = "FAILED"
      <4>1. Progress(i)' = "failed" /\ attempts[i] = limit[i]
        <5>1. Increment(items[i].retry) > 3
          BY <2>0, <3>2, <3>7, IncrementInt DEF AfterFailure, ItemState
        <5> QED
          BY <1>a, <2>0, <3>7, <3>3, <5>1, NewProgress, LastTry
      <4>2. Delivery!GiveUp(i)
        BY <2>5, <3>2, <3>4, <4>1 DEF Delivery!GiveUp
      <4> QED
        BY <4>2 DEF Delivery!Next
    <3> QED
      BY <3>3, <3>5, <3>7
  <2> QED
    BY <1>4, <2>1, <2>2, <2>3, <2>4 DEF WorkerStep
<1> QED
  BY <1>1, <1>2, <1>3, <1>4 DEF Next

(* The ticker, the map, the mutex and the goroutines implement the promise *)
(* of ScheduledDelivery, whatever retry counts the requests come with: one *)
(* try at a time, as many as were fixed when the e-mail was accepted, one  *)
(* delivery at most, and an outcome that is final.                         *)
THEOREM Refinement == Spec => KeepsPromise
<1>1. TriesInv /\ [Next]_vars => [Delivery!Next]_(Delivery!promise)
  BY StepPromise
<1> QED
  BY <1>1, InitPromise, TriesInvariance, PTL
     DEF Spec, KeepsPromise, Delivery!Promise
=============================================================================
