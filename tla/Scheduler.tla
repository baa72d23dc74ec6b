----------------------------- MODULE Scheduler ------------------------------
(***************************************************************************)
(* Scheduled sending in the enterprise-service (Scheduler in scheduler.go, *)
(* fed by handleSchedule in server.go): a map of e-mails under a mutex, a  *)
(* ticker whose loop starts a goroutine for every e-mail that is due, and  *)
(* the goroutines, which publish without the mutex and take it again to    *)
(* record the outcome.                                                     *)
(*                                                                         *)
(* A critical section is one step.  Time advances in units; the ticker's   *)
(* channel holds one tick and later ones are dropped.                      *)
(***************************************************************************)
EXTENDS Integers, FiniteSets, Functions

CONSTANTS Item,            \* e-mails users schedule (a bound)
          Id,              \* "sched-" and the clock reading of the request
          NoItem,          \* no e-mail
          SendTimes,       \* send_at of the requests
          InitialRetries,  \* retry_count of the requests, taken over as it is
          MinInt, MaxInt,  \* range of int in the build (a bound)
          Interval,        \* ticker period
          MaxClock         \* the clock stops mattering here (a bound)

VARIABLES clock,      \* time.Now()
          untilTick,  \* time to the ticker's next tick
          ticked,     \* a tick is in the ticker's channel
          loop,       \* the dispatcher loop: runs, was cancelled, returned
          scheduled,  \* Scheduler.scheduled: id -> e-mail
          items,      \* the ScheduledEmail objects
          workers,    \* goroutines of each e-mail, by how far they are
          published,  \* history: publications of each e-mail that succeeded
          attempts,   \* history: goroutines started for each e-mail
          requested   \* history: retry_count each e-mail was accepted with

history == <<published, attempts, requested>>

vars == <<clock, untilTick, ticked, loop, scheduled, items, workers, history>>

timing == <<clock, untilTick, ticked, loop>>

Ints == MinInt..MaxInt

Statuses == {"PENDING", "DISPATCHING", "SENT", "FAILED"}

ItemState == [status : Statuses, sendAt : SendTimes, retry : Ints]

NoWorkers == [publishing |-> 0, succeeded |-> 0, refused |-> 0]

ASSUME SchedulerAssumption ==
  /\ SendTimes \subseteq Int
  /\ MinInt \in Int /\ MinInt <= 0 /\ MaxInt \in Int /\ MaxInt > 3
  /\ InitialRetries \subseteq Ints
  /\ Interval \in Nat \ {0} /\ MaxClock \in Nat
  /\ NoItem \notin Item /\ NoItem \notin ItemState

Added == {i \in Item : items[i] # NoItem}

Init ==
  /\ clock = 0 /\ untilTick = Interval /\ ticked = FALSE /\ loop = "runs"
  /\ scheduled = [id \in Id |-> NoItem]
  /\ items = [i \in Item |-> NoItem]
  /\ workers = [i \in Item |-> NoWorkers]
  /\ published = [i \in Item |-> 0]
  /\ attempts = [i \in Item |-> 0] /\ requested = [i \in Item |-> 0]

-----------------------------------------------------------------------------
(* Time goes by; past MaxClock only the ticker notices.                    *)
Advance ==
  /\ clock' = IF clock < MaxClock THEN clock + 1 ELSE clock
  /\ untilTick' = IF untilTick = 1 THEN Interval ELSE untilTick - 1
  /\ ticked' = (ticked \/ untilTick = 1)
  /\ UNCHANGED <<loop, scheduled, items, workers, history>>

(* handleSchedule and AddScheduledEmail.  The status a client sends is       *)
(* overwritten, its retry count is not.  Requests served at the same clock *)
(* reading get the same id, and the later one displaces the other.         *)
AddScheduledEmail(i, id, sendAt, retry) ==
  /\ i \notin Added
  /\ items' = [items EXCEPT ![i] =
       [status |-> "PENDING", sendAt |-> sendAt, retry |-> retry]]
  /\ scheduled' = [scheduled EXCEPT ![id] = i]
  /\ requested' = [requested EXCEPT ![i] = retry]
  /\ UNCHANGED <<timing, workers, published, attempts>>

-----------------------------------------------------------------------------
(* The loop.                                                               *)

Due ==
  {i \in Range(scheduled) \ {NoItem} :
     items[i].status = "PENDING" /\ clock > items[i].sendAt}

Dispatched(status) ==
  /\ loop \in {"runs", "cancelled"}
  /\ ticked /\ ticked' = FALSE
  /\ items' = [i \in Item |->
       IF i \in Due THEN [items[i] EXCEPT !.status = status] ELSE items[i]]
  /\ workers' = [i \in Item |->
       IF i \in Due THEN [workers[i] EXCEPT !.publishing = @ + 1]
                    ELSE workers[i]]
  /\ attempts' = [i \in Item |->
       IF i \in Due THEN attempts[i] + 1 ELSE attempts[i]]
  /\ UNCHANGED <<clock, untilTick, loop, scheduled, published, requested>>

FaultyDispatchPending == Dispatched("PENDING")

(* dispatchPending: every e-mail that is due is marked and gets a worker.  *)
DispatchPending == Dispatched("DISPATCHING")

(* main cancels the context; the loop returns when its select sees it.     *)
Cancel ==
  /\ loop = "runs"
  /\ loop' = "cancelled"
  /\ UNCHANGED <<clock, untilTick, ticked, scheduled, items, workers, history>>

LoopReturns ==
  /\ loop = "cancelled"
  /\ loop' = "returned"
  /\ UNCHANGED <<clock, untilTick, ticked, scheduled, items, workers, history>>

-----------------------------------------------------------------------------
(* A worker: PublishRawEmail outside the mutex, then its outcome.          *)

Proceed(i, from, to) ==
  /\ workers[i][from] > 0
  /\ workers' = [workers EXCEPT ![i][from] = @ - 1, ![i][to] = @ + 1]

Leave(i, from) ==
  /\ workers[i][from] > 0
  /\ workers' = [workers EXCEPT ![i][from] = @ - 1]

PublishSucceeds(i) ==
  /\ Proceed(i, "publishing", "succeeded")
  /\ published' = [published EXCEPT ![i] = @ + 1]
  /\ UNCHANGED <<timing, scheduled, items, attempts, requested>>

PublishFails(i) ==
  /\ Proceed(i, "publishing", "refused")
  /\ UNCHANGED <<timing, scheduled, items, history>>

FaultyRecordSuccess(i) ==
  /\ Leave(i, "succeeded")
  /\ items' = [items EXCEPT ![i].status = "PENDING"]
  /\ UNCHANGED <<timing, scheduled, history>>

RecordSuccess(i) ==
  /\ Leave(i, "succeeded")
  /\ items' = [items EXCEPT ![i].status = "SENT"]
  /\ UNCHANGED <<timing, scheduled, history>>

(* item.RetryCount++ on an int: the largest one wraps round.               *)
Increment(n) == IF n = MaxInt THEN MinInt ELSE n + 1

FaultyAfterFailure(item) ==
  [item EXCEPT !.retry = Increment(@),
               !.status = IF item.retry > 3 THEN "FAILED" ELSE "PENDING"]

FaultyForgetful(item) ==
  [item EXCEPT !.status = IF Increment(item.retry) > 3 THEN "FAILED"
                                                       ELSE "PENDING"]

FaultyStuck(item) ==
  [item EXCEPT !.retry = Increment(@),
               !.status = IF Increment(item.retry) > 3 THEN "FAILED" ELSE @]

(* The retry is counted before it is compared with the threshold.          *)
AfterFailure(item) ==
  [status |-> IF Increment(item.retry) > 3 THEN "FAILED" ELSE "PENDING",
   sendAt |-> item.sendAt,
   retry  |-> Increment(item.retry)]

RecordFailure(i) ==
  /\ Leave(i, "refused")
  /\ items' = [items EXCEPT ![i] = AfterFailure(@)]
  /\ UNCHANGED <<timing, scheduled, history>>

WorkerStep(i) ==
  \/ PublishSucceeds(i) \/ PublishFails(i)
  \/ RecordSuccess(i) \/ RecordFailure(i)

Next ==
  \/ Advance
  \/ \E i \in Item, id \in Id, sendAt \in SendTimes, retry \in InitialRetries :
       AddScheduledEmail(i, id, sendAt, retry)
  \/ DispatchPending \/ Cancel \/ LoopReturns
  \/ \E i \in Item : WorkerStep(i)

Spec == Init /\ [][Next]_vars

(* Time passes, the loop takes the tick that waits for it, and a call of   *)
(* the producer returns (the one installed only writes a log line).        *)
FairSpec ==
  /\ Spec
  /\ WF_vars(Advance)
  /\ WF_vars(DispatchPending)
  /\ \A i \in Item : WF_vars(WorkerStep(i))

-----------------------------------------------------------------------------
(* Types of the variables.                                                 *)
TypeOK ==
  /\ clock \in 0..MaxClock /\ untilTick \in 1..Interval /\ ticked \in BOOLEAN
  /\ loop \in {"runs", "cancelled", "returned"}
  /\ scheduled \in [Id -> Item \cup {NoItem}]
  /\ items \in [Item -> ItemState \cup {NoItem}]
  /\ workers \in [Item -> [publishing : Nat, succeeded : Nat, refused : Nat]]
  /\ published \in [Item -> Nat] /\ attempts \in [Item -> Nat]
  /\ requested \in [Item -> Ints]

WorkersOf(i) ==
  workers[i].publishing + workers[i].succeeded + workers[i].refused

(* An e-mail has one goroutine while it is DISPATCHING and none otherwise, *)
(* although ticks go on while goroutines of earlier ticks still publish    *)
(* and although the list endpoint is read, and e-mails are added, between. *)
OneWorkerWhileDispatching ==
  \A i \in Added :
    WorkersOf(i) = IF items[i].status = "DISPATCHING" THEN 1 ELSE 0

(* No e-mail is published twice, whatever ticks and failures came before.  *)
PublishedOnce == \A i \in Item : published[i] <= 1

(* The status users see tells what happened: SENT e-mails are in the       *)
(* queue, PENDING and FAILED ones are not.                                 *)
StatusTruthful ==
  \A i \in Added :
    /\ items[i].status = "SENT" => published[i] = 1
    /\ items[i].status \in {"PENDING", "FAILED"} => published[i] = 0

(* The tries the retry_count of its request leaves an e-mail: four when it *)
(* is left out, more when it is negative, one when it is above three.  The *)
(* largest int wraps round at the first failure, as if counting had begun  *)
(* below the smallest.                                                     *)
TriesAllowed(i) ==
  LET start == IF requested[i] = MaxInt THEN MinInt - 1 ELSE requested[i]
  IN  IF start > 3 THEN 1 ELSE 4 - start

(* The goroutines of many ticks together try an e-mail as often as the     *)
(* retry_count of its request allows and no more, and it is FAILED only    *)
(* after the last of these tries.                                          *)
TriesAsRequested ==
  \A i \in Added :
    /\ attempts[i] <= TriesAllowed(i)
    /\ items[i].status = "FAILED" => attempts[i] = TriesAllowed(i)

(* The loop refines the promise of ScheduledDelivery.                      *)
Progress(i) ==
  IF items[i] = NoItem THEN "absent"
  ELSE CASE items[i].status = "PENDING" -> "waiting"
         [] items[i].status = "DISPATCHING" ->
              IF published[i] = 0 THEN "sending" ELSE "sent"
         [] items[i].status = "SENT" -> "sent"
         [] items[i].status = "FAILED" -> "failed"

Delivery == INSTANCE ScheduledDelivery
              WITH mail <- [i \in Item |-> Progress(i)],
                   delivered <- published,
                   tries <- attempts,
                   limit <- [i \in Item |-> IF items[i] = NoItem THEN 0
                                           ELSE TriesAllowed(i)]

(* Every accepted e-mail is tried, delivered and settled as                *)
(* ScheduledDelivery promises.                                             *)
KeepsPromise == Delivery!Promise

(* An accepted e-mail is sent or failed for good in the end, unless        *)
(* another one was given its id or the service is shut down.               *)
EventuallySettled ==
  \A i \in Item :
    i \in Added ~>
      \/ i \in Added /\ items[i].status \in {"SENT", "FAILED"}
      \/ i \notin Range(scheduled)
      \/ loop # "runs"
=============================================================================
