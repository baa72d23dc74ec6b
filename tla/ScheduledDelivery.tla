------------------------- MODULE ScheduledDelivery --------------------------
(***************************************************************************)
(* What the scheduler of the enterprise-service promises for every e-mail  *)
(* it accepts, without clock, locks or goroutines: the number of tries it  *)
(* will be given is fixed when it is accepted, it is tried once at a time, *)
(* is handed to the mail queue at most once, is given up after the last    *)
(* try and not before, and the outcome it ends with is final.              *)
(***************************************************************************)
EXTENDS Integers

CONSTANT Item  \* the e-mails users schedule

VARIABLES mail,      \* how far each e-mail is
          delivered, \* times it was handed to the queue
          tries,     \* times it was tried
          limit      \* tries it is given, once it is accepted

promise == <<mail, delivered, tries, limit>>

Init ==
  /\ mail = [i \in Item |-> "absent"]
  /\ delivered = [i \in Item |-> 0]
  /\ tries = [i \in Item |-> 0]
  /\ limit = [i \in Item |-> 0]

Accept(i) ==
  /\ mail[i] = "absent"
  /\ mail' = [mail EXCEPT ![i] = "waiting"]
  /\ limit'[i] \in Nat \ {0}
  /\ limit' = [limit EXCEPT ![i] = limit'[i]]
  /\ UNCHANGED <<delivered, tries>>

(* Any number of waiting e-mails are taken up together.                    *)
Try(batch) ==
  /\ \A i \in batch : mail[i] = "waiting" /\ tries[i] < limit[i]
  /\ mail' = [i \in Item |-> IF i \in batch THEN "sending" ELSE mail[i]]
  /\ tries' = [i \in Item |-> IF i \in batch THEN tries[i] + 1 ELSE tries[i]]
  /\ UNCHANGED <<delivered, limit>>

Deliver(i) ==
  /\ mail[i] = "sending"
  /\ mail' = [mail EXCEPT ![i] = "sent"]
  /\ delivered' = [delivered EXCEPT ![i] = @ + 1]
  /\ UNCHANGED <<tries, limit>>

GiveBack(i) ==
  /\ mail[i] = "sending" /\ tries[i] < limit[i]
  /\ mail' = [mail EXCEPT ![i] = "waiting"]
  /\ UNCHANGED <<delivered, tries, limit>>

GiveUp(i) ==
  /\ mail[i] = "sending" /\ tries[i] = limit[i]
  /\ mail' = [mail EXCEPT ![i] = "failed"]
  /\ UNCHANGED <<delivered, tries, limit>>

Next ==
  \/ \E i \in Item : Accept(i) \/ Deliver(i) \/ GiveBack(i) \/ GiveUp(i)
  \/ \E batch \in SUBSET Item : Try(batch)

Promise == Init /\ [][Next]_promise
=============================================================================
