----------------------------- MODULE SmtpServer -----------------------------
(***************************************************************************)
(* The SMTP ingress daemon (Server in server.go): the accept loop, the     *)
(* goroutine of every connection, and Stop, which main calls once on a     *)
(* termination signal.  They share an atomic client counter, a WaitGroup,  *)
(* the quit channel and the listener; each access to one of these is a     *)
(* step.  What a session says to its client is module SmtpSession; here it *)
(* runs until Handle returns.                                              *)
(***************************************************************************)
EXTENDS Integers, FiniteSets

CONSTANTS Conn,        \* the connections clients ever make (a bound)
          NoConn,      \* no connection
          MaxClients   \* maxClients, 1000 in the code

VARIABLES quit,          \* quit channel closed
          listening,     \* the listener is open
          activeClients, \* Server.activeClients
          wg,            \* the counter of Server.wg
          acceptor,      \* where acceptConnections is
          current,       \* the connection it holds, or NoConn
          conns,         \* what became of each connection
          stopper        \* where Stop is

vars == <<quit, listening, activeClients, wg, acceptor, current, conns, stopper>>

(* A goroutine "runs" Handle, "leaves" after its wg.Done and has "ended"   *)
(* after it has given its slot back: deferred calls run last first.        *)
ConnStates == {"new", "queued", "accepted", "dropped", "running", "leaving",
               "ended"}

ASSUME ServerAssumption ==
  /\ IsFiniteSet(Conn)
  /\ NoConn \notin Conn
  /\ MaxClients \in Nat \ {0}

In(s) == {c \in Conn : conns[c] = s}

(* Start: the listener is bound, the accept loop counted and launched.     *)
Init ==
  /\ quit = FALSE /\ listening = TRUE
  /\ activeClients = 0 /\ wg = 1
  /\ acceptor = "accept" /\ current = NoConn
  /\ conns = [c \in Conn |-> "new"]
  /\ stopper = "idle"

-----------------------------------------------------------------------------
(* A client connects: the kernel queues it while the listener is open.     *)
Connect(c) ==
  /\ listening
  /\ conns[c] = "new"
  /\ conns' = [conns EXCEPT ![c] = "queued"]
  /\ UNCHANGED <<quit, listening, activeClients, wg, acceptor, current, stopper>>

(* acceptConnections.                                                      *)
Accept(c) ==
  /\ acceptor = "accept" /\ listening
  /\ conns[c] = "queued"
  /\ conns' = [conns EXCEPT ![c] = "accepted"]
  /\ acceptor' = "check" /\ current' = c
  /\ UNCHANGED <<quit, listening, activeClients, wg, stopper>>

(* Accept fails: the listener is closed, or (while it is open) the process *)
(* is short of descriptors.                                                *)
AcceptFails ==
  /\ acceptor = "accept"
  /\ acceptor' = "failed"
  /\ UNCHANGED <<quit, listening, activeClients, wg, current, conns, stopper>>

FaultyAfterFailure ==
  /\ acceptor = "failed"
  /\ acceptor' = IF quit THEN "returned" ELSE "accept"
  /\ UNCHANGED <<quit, listening, activeClients, wg, current, conns, stopper>>

(* select on quit: return, or try again.                                   *)
AfterFailure ==
  /\ acceptor = "failed"
  /\ IF quit
     THEN acceptor' = "returned" /\ wg' = wg - 1
     ELSE acceptor' = "accept" /\ UNCHANGED wg
  /\ UNCHANGED <<quit, listening, activeClients, current, conns, stopper>>

(* The limit is reached: 421 and the connection is closed.                 *)
Refuse ==
  /\ acceptor = "check"
  /\ activeClients >= MaxClients
  /\ conns' = [conns EXCEPT ![current] = "dropped"]
  /\ acceptor' = "accept" /\ current' = NoConn
  /\ UNCHANGED <<quit, listening, activeClients, wg, stopper>>

FaultyTakeSlot ==
  /\ acceptor = "check"
  /\ activeClients <= MaxClients
  /\ activeClients' = activeClients + 1
  /\ acceptor' = "count"
  /\ UNCHANGED <<quit, listening, wg, current, conns, stopper>>

TakeSlot ==
  /\ acceptor = "check"
  /\ activeClients < MaxClients
  /\ activeClients' = activeClients + 1
  /\ acceptor' = "count"
  /\ UNCHANGED <<quit, listening, wg, current, conns, stopper>>

FaultySpawn ==
  /\ acceptor = "count"
  /\ conns' = [conns EXCEPT ![current] = "running"]
  /\ acceptor' = "accept" /\ current' = NoConn
  /\ UNCHANGED <<quit, listening, activeClients, wg, stopper>>

(* wg.Add(1) and the go statement.                                         *)
Spawn ==
  /\ acceptor = "count"
  /\ wg' = wg + 1
  /\ conns' = [conns EXCEPT ![current] = "running"]
  /\ acceptor' = "accept" /\ current' = NoConn
  /\ UNCHANGED <<quit, listening, activeClients, stopper>>

-----------------------------------------------------------------------------
(* Handle returns: the client quit or its connection broke.  Nothing else  *)
(* ends a session, and no deadline is set on its reads.                    *)
SessionDone(c) ==
  /\ conns[c] = "running"
  /\ conns' = [conns EXCEPT ![c] = "leaving"]
  /\ wg' = wg - 1
  /\ UNCHANGED <<quit, listening, activeClients, acceptor, current, stopper>>

FaultyGiveSlotBack(c) ==
  /\ conns[c] = "leaving"
  /\ conns' = [conns EXCEPT ![c] = "ended"]
  /\ UNCHANGED <<quit, listening, activeClients, wg, acceptor, current, stopper>>

GiveSlotBack(c) ==
  /\ conns[c] = "leaving"
  /\ conns' = [conns EXCEPT ![c] = "ended"]
  /\ activeClients' = activeClients - 1
  /\ UNCHANGED <<quit, listening, wg, acceptor, current, stopper>>

-----------------------------------------------------------------------------
(* Stop.                                                                   *)
StopQuit ==
  /\ stopper = "idle"
  /\ quit' = TRUE /\ stopper' = "quit"
  /\ UNCHANGED <<listening, activeClients, wg, acceptor, current, conns>>

(* Closing the listener resets the connections still in its queue.         *)
StopListener ==
  /\ stopper = "quit"
  /\ listening' = FALSE /\ stopper' = "waiting"
  /\ conns' = [c \in Conn |-> IF conns[c] = "queued" THEN "dropped"
                              ELSE conns[c]]
  /\ UNCHANGED <<quit, activeClients, wg, acceptor, current>>

StopReturns ==
  /\ stopper = "waiting"
  /\ wg = 0
  /\ stopper' = "returned"
  /\ UNCHANGED <<quit, listening, activeClients, wg, acceptor, current, conns>>

AcceptorStep ==
  (\E c \in Conn : Accept(c)) \/ AcceptFails \/ AfterFailure
    \/ Refuse \/ TakeSlot \/ Spawn

StopStep == StopListener \/ StopReturns

Next ==
  \/ AcceptorStep
  \/ \E c \in Conn : Connect(c) \/ SessionDone(c) \/ GiveSlotBack(c)
  \/ StopQuit \/ StopStep
  \/ stopper = "returned" /\ UNCHANGED vars

Spec == Init /\ [][Next]_vars

(* The Go scheduler runs every goroutine that can run; Stop, once called,  *)
(* goes on.  Nothing makes a client connect or leave, or a signal arrive.  *)
FairSpec ==
  /\ Spec
  /\ WF_vars(AcceptorStep)
  /\ WF_vars(StopStep)
  /\ \A c \in Conn : WF_vars(GiveSlotBack(c))

-----------------------------------------------------------------------------
(* Types of the variables; the WaitGroup never goes negative (which would  *)
(* panic) and neither does the client counter.                             *)
TypeOK ==
  /\ quit \in BOOLEAN /\ listening \in BOOLEAN
  /\ activeClients \in Nat /\ wg \in Nat
  /\ acceptor \in {"accept", "failed", "check", "count", "returned"}
  /\ current \in Conn \cup {NoConn}
  /\ conns \in [Conn -> ConnStates]
  /\ stopper \in {"idle", "quit", "waiting", "returned"}

(* Never more than MaxClients sessions are served at once, although the    *)
(* limit is tested in one step, the slot taken in another and the session  *)
(* started in a third.                                                     *)
ClientLimit == Cardinality(In("running") \cup In("leaving")) <= MaxClients

(* The counter is exact: a slot is held by every live session and by the   *)
(* connection about to become one, so that none leaks and none is granted  *)
(* twice.                                                                  *)
SlotsExact ==
  activeClients =
    Cardinality(In("running") \cup In("leaving")
                  \cup {c \in {current} : acceptor = "count"})

(* The WaitGroup counts exactly the goroutines Stop has to wait for.       *)
WaitGroupExact ==
  wg = Cardinality(In("running")) + (IF acceptor = "returned" THEN 0 ELSE 1)

(* Once Stop has returned no session runs or can still be started: the     *)
(* publisher that main closes next is no longer used.  In particular       *)
(* wg.Add never races with a Wait that sees zero.                          *)
NothingAfterStop ==
  stopper = "returned" => In("running") = {} /\ acceptor = "returned"

(* Stop returns, provided every client leaves sooner or later.             *)
ClientsLeave == \A c \in Conn : []<>(conns[c] # "running")

StopEnds == ClientsLeave => (stopper = "quit" ~> stopper = "returned")

(* The limit is never reached for good: when all slots are taken one       *)
(* becomes free again, provided the clients leave.                         *)
SlotsComeBack ==
  ClientsLeave => (activeClients = MaxClients ~> activeClients < MaxClients)
=============================================================================
