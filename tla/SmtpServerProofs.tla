-------------------------- MODULE SmtpServerProofs --------------------------
(***************************************************************************)
(* Theorems about SmtpServer, for any number of clients and any limit.     *)
(***************************************************************************)
EXTENDS SmtpServer, FiniteSetTheorems, TLAPS

Running == In("running")

(* The holders of the slots that activeClients counts.                     *)
Holders ==
  In("running") \cup In("leaving") \cup {c \in {current} : acceptor = "count"}

(* The accept loop holds a connection exactly between Accept and the       *)
(* decision about it.                                                      *)
HandOver ==
  /\ acceptor \in {"check", "count"} => conns[current] = "accepted"
                                        /\ current \in Conn
  /\ acceptor = "count" => activeClients <= MaxClients

(* TypeOK without the two counters, whose type follows from their values.  *)
Typed ==
  /\ quit \in BOOLEAN /\ listening \in BOOLEAN
  /\ acceptor \in {"accept", "failed", "check", "count", "returned"}
  /\ current \in Conn \cup {NoConn}
  /\ conns \in [Conn -> ConnStates]
  /\ stopper \in {"idle", "quit", "waiting", "returned"}

IInv ==
  /\ Typed /\ HandOver
  /\ SlotsExact /\ WaitGroupExact
  /\ activeClients <= MaxClients
  /\ NothingAfterStop

-----------------------------------------------------------------------------
LEMMA FiniteHolders ==
  ASSUME Typed
  PROVE  /\ IsFiniteSet(Running) /\ Cardinality(Running) \in Nat
         /\ HandOver => IsFiniteSet(Holders) /\ Cardinality(Holders) \in Nat
<1>1. Running \subseteq Conn
  BY DEF Running, In
<1>2. HandOver => Holders \subseteq Conn
  BY DEF Holders, In, HandOver
<1> QED
  BY <1>1, <1>2, FS_Subset, FS_CardinalityType, ServerAssumption

(* What the counters are compared with when a step moves no connection     *)
(* into or out of a goroutine.                                             *)
LEMMA SameCounters ==
  ASSUME SlotsExact, WaitGroupExact,
         Holders' = Holders, Running' = Running,
         activeClients' = activeClients, wg' = wg,
         (acceptor = "returned") <=> (acceptor' = "returned")
  PROVE  SlotsExact' /\ WaitGroupExact'
  BY DEF SlotsExact, WaitGroupExact, Holders, Running

LEMMA InitIInv == Init => IInv
<1> SUFFICES ASSUME Init PROVE IInv
  OBVIOUS
<1>1. In("running") = {} /\ In("leaving") = {}
  BY DEF Init, In
<1>2. SlotsExact /\ WaitGroupExact
  BY <1>1, FS_EmptySet DEF Init, SlotsExact, WaitGroupExact
<1>3. Typed
  BY DEF Init, Typed, ConnStates
<1>4. HandOver /\ activeClients <= MaxClients /\ NothingAfterStop
  BY ServerAssumption DEF Init, HandOver, NothingAfterStop
<1> QED
  BY <1>2, <1>3, <1>4 DEF IInv

-----------------------------------------------------------------------------
(* One lemma for each action that changes a counter or a goroutine.        *)

LEMMA AcceptIInv ==
  ASSUME IInv, NEW c \in Conn, Accept(c) PROVE IInv'
<1>1. Typed' /\ HandOver'
  BY DEF IInv, Typed, HandOver, Accept, ConnStates
<1>2. Holders' = Holders /\ Running' = Running
  BY DEF IInv, Typed, Accept, Holders, Running, In
<1>3. SlotsExact' /\ WaitGroupExact'
  BY <1>2, SameCounters DEF IInv, Accept
<1> QED
  BY <1>1, <1>2, <1>3 DEF IInv, NothingAfterStop, Accept, Running

LEMMA AfterFailureIInv ==
  ASSUME IInv, AfterFailure PROVE IInv'
<1>1. Typed' /\ HandOver'
  BY DEF IInv, Typed, HandOver, AfterFailure
<1>2. Holders' = Holders /\ Running' = Running
  BY DEF AfterFailure, Holders, Running, In
<1>3. SlotsExact'
  BY <1>2 DEF IInv, SlotsExact, AfterFailure, Holders
<1>4. WaitGroupExact'
  BY <1>2, FiniteHolders DEF IInv, WaitGroupExact, AfterFailure, Running
<1> QED
  BY <1>1, <1>2, <1>3, <1>4
     DEF IInv, NothingAfterStop, AfterFailure, Running

LEMMA RefuseIInv ==
  ASSUME IInv, Refuse PROVE IInv'
<1>1. Typed' /\ HandOver'
  BY DEF IInv, Typed, HandOver, Refuse, ConnStates
<1>2. Holders' = Holders /\ Running' = Running
  BY DEF IInv, Typed, HandOver, Refuse, Holders, Running, In
<1>3. SlotsExact' /\ WaitGroupExact'
  BY <1>2, SameCounters DEF IInv, Refuse
<1> QED
  BY <1>1, <1>2, <1>3 DEF IInv, NothingAfterStop, Refuse, Running

(* The slot is taken before the session is there to hold it.               *)
LEMMA TakeSlotIInv ==
  ASSUME IInv, TakeSlot PROVE IInv'
<1>1. /\ current \in Conn /\ conns[current] = "accepted"
      /\ current \notin Holders
  BY DEF IInv, HandOver, TakeSlot, Holders, In
<1>2. Holders' = Holders \cup {current} /\ Running' = Running
  BY DEF TakeSlot, Holders, Running, In
<1>3. IsFiniteSet(Holders) /\ Cardinality(Holders) \in Nat
  BY FiniteHolders DEF IInv
<1>4. Cardinality(Holders') = Cardinality(Holders) + 1
  BY <1>1, <1>2, <1>3, FS_AddElement
<1>5. SlotsExact' /\ activeClients = Cardinality(Holders)
  BY <1>4 DEF IInv, SlotsExact, TakeSlot, Holders
<1>6. activeClients' <= MaxClients
  BY <1>3, <1>5, ServerAssumption DEF TakeSlot
<1>7. WaitGroupExact'
  BY <1>2 DEF IInv, WaitGroupExact, TakeSlot, Running
<1>8. Typed' /\ HandOver'
  BY <1>1, <1>6 DEF IInv, Typed, HandOver, TakeSlot
<1> QED
  BY <1>2, <1>5, <1>6, <1>7, <1>8 DEF IInv, NothingAfterStop, TakeSlot, Running

LEMMA SpawnIInv ==
  ASSUME IInv, Spawn PROVE IInv'
<1>1. /\ current \in Conn /\ conns[current] = "accepted"
      /\ current \notin Running
  BY DEF IInv, HandOver, Spawn, Running, In
<1>2. Holders' = Holders
  BY <1>1 DEF IInv, Typed, Spawn, Holders, In
<1>3. Running' = Running \cup {current}
  BY <1>1 DEF IInv, Typed, Spawn, Running, In
<1>4. Cardinality(Running') = Cardinality(Running) + 1
  BY <1>1, <1>3, FiniteHolders, FS_AddElement DEF IInv
<1>5. SlotsExact'
  BY <1>2 DEF IInv, SlotsExact, Spawn, Holders
<1>6. WaitGroupExact'
  BY <1>4, FiniteHolders DEF IInv, WaitGroupExact, Spawn, Running
<1>7. Typed' /\ HandOver'
  BY DEF IInv, Typed, HandOver, Spawn, ConnStates
<1> QED
  BY <1>5, <1>6, <1>7 DEF IInv, NothingAfterStop, Spawn

LEMMA SessionDoneIInv ==
  ASSUME IInv, NEW c \in Conn, SessionDone(c) PROVE IInv'
<1>1. c \in Running
  BY DEF SessionDone, Running, In
<1>2. Holders' = Holders
  BY DEF IInv, Typed, SessionDone, Holders, In
<1>3. Running' = Running \ {c}
  BY DEF IInv, Typed, SessionDone, Running, In
<1>4. Cardinality(Running') = Cardinality(Running) - 1
  BY <1>1, <1>3, FiniteHolders, FS_RemoveElement DEF IInv
<1>5. SlotsExact'
  BY <1>2 DEF IInv, SlotsExact, SessionDone, Holders
<1>6. WaitGroupExact'
  BY <1>4, FiniteHolders DEF IInv, WaitGroupExact, SessionDone, Running
<1>7. Typed' /\ HandOver'
  BY DEF IInv, Typed, HandOver, SessionDone, ConnStates
<1> QED
  BY <1>1, <1>3, <1>5, <1>6, <1>7
     DEF IInv, NothingAfterStop, SessionDone, Running

LEMMA GiveSlotBackIInv ==
  ASSUME IInv, NEW c \in Conn, GiveSlotBack(c) PROVE IInv'
<1>1. c \in Holders
  BY DEF GiveSlotBack, Holders, In
<1>2. Holders' = Holders \ {c}
  BY DEF IInv, Typed, HandOver, GiveSlotBack, Holders, In
<1>3. Running' = Running
  BY DEF IInv, Typed, GiveSlotBack, Running, In
<1>4. Cardinality(Holders') = Cardinality(Holders) - 1
  BY <1>1, <1>2, FiniteHolders, FS_RemoveElement DEF IInv
<1>5. SlotsExact' /\ activeClients = Cardinality(Holders)
  BY <1>4 DEF IInv, SlotsExact, GiveSlotBack, Holders
<1>6. activeClients' <= MaxClients
  BY <1>5, FiniteHolders, ServerAssumption DEF IInv, GiveSlotBack
<1>7. WaitGroupExact'
  BY <1>3 DEF IInv, WaitGroupExact, GiveSlotBack, Running
<1>8. Typed' /\ HandOver'
  BY <1>6 DEF IInv, Typed, HandOver, GiveSlotBack, ConnStates
<1> QED
  BY <1>3, <1>5, <1>6, <1>7, <1>8
     DEF IInv, NothingAfterStop, GiveSlotBack, Running

(* Wait lets Stop go on at zero: then nothing is left to run.              *)
LEMMA StopReturnsIInv ==
  ASSUME IInv, StopReturns PROVE IInv'
<1>1. Holders' = Holders /\ Running' = Running
  BY DEF StopReturns, Holders, Running, In
<1>2. SlotsExact' /\ WaitGroupExact'
  BY <1>1, SameCounters DEF IInv, StopReturns
<1>3. acceptor = "returned" /\ Cardinality(Running) = 0
  BY FiniteHolders DEF IInv, StopReturns, WaitGroupExact, Running
<1>4. Running = {}
  BY <1>3, FiniteHolders, FS_EmptySet DEF IInv
<1> QED
  BY <1>1, <1>2, <1>3, <1>4
     DEF IInv, Typed, HandOver, NothingAfterStop, StopReturns, Running

(* The steps that change neither a counter nor a goroutine.                *)
LEMMA QuietIInv ==
  ASSUME IInv,
         \/ \E c \in Conn : Connect(c)
         \/ AcceptFails \/ StopQuit \/ StopListener \/ UNCHANGED vars
  PROVE  IInv'
<1>1. Holders' = Holders /\ Running' = Running
  BY DEF IInv, Typed, Connect, AcceptFails, StopQuit, StopListener, vars,
         Holders, Running, In
<1>2. SlotsExact' /\ WaitGroupExact'
  BY <1>1, SameCounters
     DEF IInv, Connect, AcceptFails, StopQuit, StopListener, vars
<1>3. Typed' /\ HandOver' /\ activeClients' <= MaxClients
  BY DEF IInv, Typed, HandOver, Connect, AcceptFails, StopQuit, StopListener,
         vars, ConnStates
<1>4. NothingAfterStop'
  BY <1>1 DEF IInv, NothingAfterStop, Connect, AcceptFails, StopQuit,
              StopListener, vars, Running
<1> QED
  BY <1>2, <1>3, <1>4 DEF IInv

LEMMA NextIInv == IInv /\ [Next]_vars => IInv'
<1> SUFFICES ASSUME IInv, [Next]_vars PROVE IInv'
  OBVIOUS
<1>1. ASSUME NEW c \in Conn,
             Accept(c) \/ SessionDone(c) \/ GiveSlotBack(c) \/ Connect(c)
      PROVE  IInv'
  BY <1>1, AcceptIInv, SessionDoneIInv, GiveSlotBackIInv, QuietIInv
<1>2. CASE AcceptFails \/ AfterFailure \/ Refuse \/ TakeSlot \/ Spawn
  BY <1>2, QuietIInv, AfterFailureIInv, RefuseIInv, TakeSlotIInv, SpawnIInv
<1>3. CASE StopQuit \/ StopListener \/ StopReturns \/ UNCHANGED vars
  BY <1>3, QuietIInv, StopReturnsIInv
<1> QED
  BY <1>1, <1>2, <1>3 DEF Next, AcceptorStep, StopStep

LEMMA Invariance == Spec => []IInv
  BY InitIInv, NextIInv, PTL DEF Spec

-----------------------------------------------------------------------------
(* Both counters always have a value of their type: the WaitGroup never    *)
(* goes negative, so wg.Done never panics.                                 *)
THEOREM ServerTypeCorrect == Spec => []TypeOK
<1>1. IInv => TypeOK
  <2> SUFFICES ASSUME IInv PROVE TypeOK
    OBVIOUS
  <2>1. activeClients \in Nat
    BY FiniteHolders DEF IInv, SlotsExact, Holders
  <2>2. wg \in Nat
    BY FiniteHolders DEF IInv, WaitGroupExact, Running
  <2> QED
    BY <2>1, <2>2 DEF IInv, Typed, TypeOK
<1> QED
  BY Invariance, <1>1, PTL

(* The client limit holds although test, increment and start are three     *)
(* steps: only the accept loop takes slots, and sessions only give back.   *)
THEOREM LimitHolds == Spec => []ClientLimit
<1>1. IInv => ClientLimit
  <2> SUFFICES ASSUME IInv PROVE ClientLimit
    OBVIOUS
  <2> DEFINE Served == In("running") \cup In("leaving")
  <2>1. Served \subseteq Holders /\ IsFiniteSet(Holders)
    BY FiniteHolders DEF Holders, IInv
  <2>2. /\ Cardinality(Served) <= Cardinality(Holders)
        /\ Cardinality(Served) \in Nat /\ Cardinality(Holders) \in Nat
    BY <2>1, FS_Subset, FS_CardinalityType
  <2>3. Cardinality(Holders) <= MaxClients
    BY DEF IInv, SlotsExact, Holders
  <2> QED
    BY <2>2, <2>3, ServerAssumption DEF ClientLimit
<1> QED
  BY Invariance, <1>1, PTL

(* After Stop has returned no session runs or can start, so the publisher  *)
(* can be closed.                                                          *)
THEOREM StopWaitsForAll == Spec => []NothingAfterStop
<1>1. IInv => NothingAfterStop
  BY DEF IInv
<1> QED
  BY Invariance, <1>1, PTL

(* The client counter is exact at every step between accepting, refusing,  *)
(* starting and ending: no slot leaks and none is given twice.             *)
THEOREM SlotsAreExact == Spec => []SlotsExact
<1>1. IInv => SlotsExact
  BY DEF IInv
<1> QED
  BY Invariance, <1>1, PTL

(* The WaitGroup counts exactly the goroutines Stop must wait for.         *)
THEOREM WaitGroupIsExact == Spec => []WaitGroupExact
<1>1. IInv => WaitGroupExact
  BY DEF IInv
<1> QED
  BY Invariance, <1>1, PTL
=============================================================================
