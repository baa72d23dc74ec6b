----------------------------- MODULE AuditLedger -----------------------------
(***************************************************************************)
(* The audit ledger of the web console (src/src/App.tsx): rows sealed with *)
(* a digest of their fields, the sweep that recomputes every digest, the   *)
(* "Hack IP" control that changes a field behind the digest's back and the *)
(* control that seals every row again.  The console's other modules add    *)
(* rows through Audit.  A row is added by a click of the user and named by *)
(* the clock in milliseconds, so its name is modelled as its number.       *)
(***************************************************************************)
EXTENDS Integers, Sequences, SequencesExt

CONSTANTS
  HashOf(_),       \* the 32-bit digest: any function of the sealed fields
  SeededRows,      \* the actions of the rows the ledger starts with
  LedgerPage,      \* rows the table shows (10)
  MaxRows          \* bound: rows the ledger may grow to

ASSUME LedgerAssumption ==
  /\ SeededRows \in Seq(STRING)
  /\ LedgerPage \in Nat \ {0}
  /\ MaxRows \in Nat

VARIABLES
  auditLogsList,       \* newest row first
  auditSweepStatus,
  auditCorruptedRows   \* ids the last failed sweep named

ledgerVars == <<auditLogsList, auditSweepStatus, auditCorruptedRows>>

OwnIP    == "192.168.1.100"
HackedIP == "10.0.0.99"

mockComputeAuditHash(id, ip, action) == HashOf(<<id, ip, action>>)

Row(id, action) ==
  [id |-> id, clientIP |-> OwnIP, action |-> action,
   auditHash |-> mockComputeAuditHash(id, OwnIP, action)]

Expected(row) == mockComputeAuditHash(row.id, row.clientIP, row.action)

Mismatching == {row \in Range(auditLogsList) : row.auditHash # Expected(row)}

Ids(rows) == {row.id : row \in rows}

LedgerInit ==
  /\ auditLogsList = [i \in 1..Len(SeededRows) |->
                        Row(Len(SeededRows) + 1 - i, SeededRows[i])]
  /\ auditSweepStatus = "unchecked"
  /\ auditCorruptedRows = {}

(* The block every audited handler ends with: a sealed row at the head and *)
(* the sweep's verdict withdrawn.  The rows named corrupt stay named.      *)
Audit(action) ==
  /\ Len(auditLogsList) < MaxRows
  /\ auditLogsList' = <<Row(Len(auditLogsList) + 1, action)>> \o auditLogsList
  /\ auditSweepStatus' = "unchecked"
  /\ UNCHANGED auditCorruptedRows

handleAuditTamperCheck ==
  /\ auditSweepStatus' = IF Mismatching # {} THEN "compromised" ELSE "valid"
  /\ auditCorruptedRows' = Ids(Mismatching)
  /\ UNCHANGED auditLogsList

\* Mutant of handleTamperAuditLog: the verdict is not withdrawn.
FaultyTamperAuditLog(id) ==
  /\ auditLogsList' = [i \in DOMAIN auditLogsList |->
                         IF auditLogsList[i].id = id
                           THEN [auditLogsList[i] EXCEPT !.clientIP = HackedIP]
                           ELSE auditLogsList[i]]
  /\ UNCHANGED <<auditSweepStatus, auditCorruptedRows>>

(* The table's only tampering control writes HackedIP into clientIP.       *)
handleTamperAuditLog(id) ==
  /\ auditLogsList' = [i \in DOMAIN auditLogsList |->
                         IF auditLogsList[i].id = id
                           THEN [auditLogsList[i] EXCEPT !.clientIP = HackedIP]
                           ELSE auditLogsList[i]]
  /\ auditSweepStatus' = "unchecked"
  /\ UNCHANGED auditCorruptedRows

\* Mutant of handleRestoreAuditIntegrity: the red rows stay red.
FaultyRestoreAuditIntegrity ==
  /\ auditLogsList' = [i \in DOMAIN auditLogsList |->
                         [auditLogsList[i] EXCEPT
                            !.auditHash = Expected(auditLogsList[i])]]
  /\ auditSweepStatus' = "unchecked"
  /\ UNCHANGED auditCorruptedRows

handleRestoreAuditIntegrity ==
  /\ auditLogsList' = [i \in DOMAIN auditLogsList |->
                         [auditLogsList[i] EXCEPT
                            !.auditHash = Expected(auditLogsList[i])]]
  /\ auditSweepStatus' = "unchecked"
  /\ auditCorruptedRows' = {}

(* What the ledger page offers: the two buttons, and "Hack IP" on the rows *)
(* of the table, which shows the newest LedgerPage rows.                   *)
LedgerPanel ==
  \/ handleAuditTamperCheck
  \/ handleRestoreAuditIntegrity
  \/ \E i \in 1..LedgerPage :
       i <= Len(auditLogsList) /\ handleTamperAuditLog(auditLogsList[i].id)

(* The state of the integrity label and of the alert under it: they test   *)
(* for words the sweep never stores.                                       *)
LedgerLabel ==
  IF auditSweepStatus = "pristine" THEN "PRISTINE"
  ELSE IF auditSweepStatus = "corrupted" THEN "CORRUPTED" ELSE "UNCHECKED"

AlertShown == auditSweepStatus = "corrupted"

-----------------------------------------------------------------------------

LedgerTypeOK ==
  /\ \A i \in DOMAIN auditLogsList :
       /\ auditLogsList[i].id = Len(auditLogsList) + 1 - i
       /\ auditLogsList[i].clientIP \in {OwnIP, HackedIP}
  /\ auditSweepStatus \in {"unchecked", "valid", "compromised"}
  /\ auditCorruptedRows \subseteq 1..Len(auditLogsList)

(* While a verdict stands it is true of the ledger as it is now: valid     *)
(* means that every row matches its digest, compromised that the rows      *)
(* named are exactly those that do not.  Every write to the ledger has to  *)
(* withdraw the verdict for this.                                          *)
VerdictStands ==
  /\ auditSweepStatus = "valid" => Mismatching = {}
  /\ auditSweepStatus = "compromised" =>
       /\ Mismatching # {}
       /\ auditCorruptedRows = Ids(Mismatching)

(* A row painted red does not match its digest, also after later rows,     *)
(* later tampering and withdrawn verdicts.                                 *)
RedRowsMismatch == auditCorruptedRows \subseteq Ids(Mismatching)
=============================================================================
