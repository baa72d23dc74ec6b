---------------------------- MODULE MCScheduler -----------------------------
(***************************************************************************)
(* Two e-mails and two ids, so that two requests may share one; an int of  *)
(* seven values, so that the retry counts include one left out, one above  *)
(* the threshold and the largest, which wraps round to a negative one.     *)
(***************************************************************************)
EXTENDS Scheduler

Smallest == -1
Largest == 5
Retries == {0, 4, 5}
=============================================================================
