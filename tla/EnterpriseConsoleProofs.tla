----------------------- MODULE EnterpriseConsoleProofs -----------------------
(***************************************************************************)
(* Theorems about the settings tabs of the console: EnterpriseConsole and  *)
(* the audit ledger it writes, for any digest, packets, rules, channels    *)
(* and page length, and the identity page (IdentityFlow), for any users    *)
(* and roles.                                                              *)
(***************************************************************************)
EXTENDS EnterpriseConsole, IdentityFlow, SequenceTheorems, FiniteSetTheorems,
        WellFoundedInduction, TLAPS

Bad(row) == row.auditHash # Expected(row)

(* A row whose address nobody has changed matches its digest: tampering    *)
(* with a row that does not match changes nothing more.                    *)
RowOK(row) ==
  /\ row = [id |-> row.id, clientIP |-> row.clientIP, action |-> row.action,
            auditHash |-> row.auditHash]
  /\ row.clientIP = OwnIP => ~Bad(row)

LedgerInv ==
  /\ LedgerTypeOK
  /\ \E S : auditLogsList \in Seq(S)
  /\ \A i \in 1..Len(auditLogsList) : RowOK(auditLogsList[i])
  /\ VerdictStands
  /\ RedRowsMismatch

-----------------------------------------------------------------------------
(* The ids of the rows that do not match, by position.                     *)
LEMMA BadPositions ==
  ASSUME LedgerTypeOK, NEW S, auditLogsList \in Seq(S)
  PROVE  /\ \A k : k \in Ids(Mismatching) <=>
                     /\ k \in 1..Len(auditLogsList)
                     /\ Bad(auditLogsList[Len(auditLogsList) + 1 - k])
         /\ Mismatching = {} <=> Ids(Mismatching) = {}
<1> DEFINE n == Len(auditLogsList)
<1>1. /\ n \in Nat /\ DOMAIN auditLogsList = 1..n
      /\ \A i \in 1..n : auditLogsList[i].id = n + 1 - i
  BY LenProperties DEF LedgerTypeOK
<1>2. \A row : row \in Mismatching <=>
                 \E i \in 1..n : row = auditLogsList[i] /\ Bad(row)
  BY <1>1 DEF Mismatching, Range, Bad
<1>3. Mismatching = {} <=> Ids(Mismatching) = {}
  BY DEF Ids
<1>4. ASSUME NEW k \in Ids(Mismatching)
      PROVE  k \in 1..n /\ Bad(auditLogsList[n + 1 - k])
  <2>1. PICK i \in 1..n : Bad(auditLogsList[i]) /\ k = auditLogsList[i].id
    BY <1>2 DEF Ids
  <2>2. k = n + 1 - i /\ n + 1 - k = i
    BY <1>1, <2>1
  <2> QED
    BY <1>1, <2>1, <2>2
<1>5. ASSUME NEW k \in 1..n, Bad(auditLogsList[n + 1 - k])
      PROVE  k \in Ids(Mismatching)
  <2>1. n + 1 - k \in 1..n /\ n + 1 - (n + 1 - k) = k
    BY <1>1
  <2>2. auditLogsList[n + 1 - k].id = k
    BY <1>1, <2>1
  <2> QED
    BY <1>2, <1>5, <2>1, <2>2 DEF Ids
<1> QED
  BY <1>3, <1>4, <1>5

LEMMA SealedRow ==
  ASSUME NEW id, NEW action
  PROVE  /\ RowOK(Row(id, action)) /\ ~Bad(Row(id, action))
         /\ Row(id, action).id = id /\ Row(id, action).clientIP = OwnIP
  BY DEF RowOK, Bad, Row, Expected, mockComputeAuditHash

LEMMA LedgerInitInv == LedgerInit => LedgerInv
<1> SUFFICES ASSUME LedgerInit PROVE LedgerInv
  OBVIOUS
<1> DEFINE n == Len(SeededRows)
           row(i) == Row(n + 1 - i, SeededRows[i])
           S == {row(i) : i \in 1..n}
<1>1. n \in Nat
  BY LedgerAssumption, LenProperties
<1>2. /\ auditLogsList = [i \in 1..n |-> row(i)]
      /\ auditSweepStatus = "unchecked" /\ auditCorruptedRows = {}
  BY DEF LedgerInit
<1>3. /\ auditLogsList \in Seq(S) /\ Len(auditLogsList) = n
      /\ \A i \in 1..n : auditLogsList[i] = row(i)
  <2>1. auditLogsList \in [1..n -> S]
    BY <1>2
  <2> QED
    BY <1>1, <1>2, <2>1, IsASeq, LenProperties
<1>4. \A i \in 1..n : /\ RowOK(auditLogsList[i])
                      /\ auditLogsList[i].id = n + 1 - i
                      /\ auditLogsList[i].clientIP = OwnIP
  <2> SUFFICES ASSUME NEW i \in 1..n
               PROVE  /\ RowOK(auditLogsList[i])
                      /\ auditLogsList[i].id = n + 1 - i
                      /\ auditLogsList[i].clientIP = OwnIP
    OBVIOUS
  <2> DEFINE id == n + 1 - i
  <2>1. auditLogsList[i] = Row(id, SeededRows[i])
    BY <1>3
  <2> HIDE DEF id
  <2>2. /\ RowOK(Row(id, SeededRows[i])) /\ Row(id, SeededRows[i]).id = id
        /\ Row(id, SeededRows[i]).clientIP = OwnIP
    BY SealedRow
  <2> QED
    BY <2>1, <2>2 DEF id
<1>5. LedgerTypeOK
  BY <1>2, <1>3, <1>4 DEF LedgerTypeOK
<1>6. VerdictStands /\ RedRowsMismatch
  BY <1>2 DEF VerdictStands, RedRowsMismatch
<1> QED
  BY <1>3, <1>4, <1>5, <1>6 DEF LedgerInv

(* A new row at the head leaves the others where their ids say.            *)
LEMMA AuditStep ==
  ASSUME LedgerInv, NEW action, Audit(action)
  PROVE  LedgerInv'
<1> DEFINE n == Len(auditLogsList)
           head == Row(n + 1, action)
<1>1. PICK S : auditLogsList \in Seq(S)
  BY DEF LedgerInv
<1> DEFINE T == S \cup {head}
<1>2. /\ auditLogsList \in Seq(T) /\ <<head>> \in Seq(T) /\ Len(<<head>>) = 1
      /\ n \in Nat
  BY <1>1, LenProperties
<1>3. /\ auditLogsList' = <<head>> \o auditLogsList
      /\ auditSweepStatus' = "unchecked" /\ auditCorruptedRows' = auditCorruptedRows
  BY DEF Audit
<1>4. /\ auditLogsList' \in Seq(T) /\ Len(auditLogsList') = n + 1
      /\ auditLogsList'[1] = head
      /\ \A i \in 2..n + 1 : auditLogsList'[i] = auditLogsList[i - 1]
  <2> HIDE DEF head, T
  <2>1. <<head>>[1] = head
    OBVIOUS
  <2> QED
    BY <1>2, <1>3, <2>1, ConcatProperties
<1>5. /\ RowOK(head) /\ head.id = n + 1 /\ head.clientIP = OwnIP
  BY SealedRow
<1> HIDE DEF head
<1>6. /\ DOMAIN auditLogsList = 1..n /\ DOMAIN auditLogsList' = 1..n + 1
  BY <1>2, <1>4, LenProperties
<1>7. \A i \in 1..n + 1 : i = 1 \/ (i \in 2..n + 1 /\ i - 1 \in 1..n)
  BY <1>2
<1>8. LedgerTypeOK'
  <2>1. \A i \in 1..n + 1 : /\ auditLogsList'[i].id = n + 1 + 1 - i
                            /\ auditLogsList'[i].clientIP \in {OwnIP, HackedIP}
    <3>1. auditLogsList'[1].id = n + 1 + 1 - 1 /\ auditLogsList'[1].clientIP = OwnIP
      BY <1>2, <1>4, <1>5
    <3>2. ASSUME NEW i \in 2..n + 1
          PROVE  /\ auditLogsList'[i].id = n + 1 + 1 - i
                 /\ auditLogsList'[i].clientIP \in {OwnIP, HackedIP}
      <4>1. i - 1 \in DOMAIN auditLogsList
        BY <1>2, <1>6
      <4>2. /\ auditLogsList[i - 1].id = n + 1 - (i - 1)
            /\ auditLogsList[i - 1].clientIP \in {OwnIP, HackedIP}
        BY <4>1 DEF LedgerInv, LedgerTypeOK
      <4> QED
        BY <1>2, <1>4, <4>2
    <3> QED
      BY <1>7, <3>1, <3>2
  <2>2. auditCorruptedRows' \subseteq 1..n + 1
    BY <1>2, <1>3 DEF LedgerInv, LedgerTypeOK
  <2> QED
    BY <1>3, <1>4, <1>6, <2>1, <2>2 DEF LedgerTypeOK
<1>9. \A i \in 1..n + 1 : RowOK(auditLogsList'[i])
  BY <1>4, <1>5, <1>7 DEF LedgerInv
<1>10. RedRowsMismatch'
  <2>1. ASSUME NEW k \in auditCorruptedRows'
        PROVE  k \in Ids(Mismatching)'
    <3>1. k \in 1..n /\ Bad(auditLogsList[n + 1 - k])
      BY <1>1, <1>3, BadPositions DEF LedgerInv, RedRowsMismatch
    <3>2. /\ k \in 1..n + 1 /\ n + 1 + 1 - k \in 2..n + 1
          /\ n + 1 + 1 - k - 1 = n + 1 - k
      BY <1>2, <3>1
    <3>3. auditLogsList'[n + 1 + 1 - k] = auditLogsList[n + 1 - k]
      BY <1>4, <3>2
    <3> DEFINE r == auditLogsList'[n + 1 + 1 - k]
    <3>4. r.id = k /\ r \in {auditLogsList'[i] : i \in DOMAIN auditLogsList'}
      <4>1. n + 1 + 1 - k \in DOMAIN auditLogsList'
        BY <1>2, <1>6, <3>2
      <4>2. \A i \in DOMAIN auditLogsList' : auditLogsList'[i].id = Len(auditLogsList') + 1 - i
        BY <1>8 DEF LedgerTypeOK
      <4>3. Len(auditLogsList') + 1 - (n + 1 + 1 - k) = k
        BY <1>2, <1>4, <3>1
      <4> QED
        BY <4>1, <4>2, <4>3
    <3>5. r.auditHash # HashOf(<<r.id, r.clientIP, r.action>>)
      BY <3>1, <3>3 DEF Bad, Expected, mockComputeAuditHash
    <3> QED
      BY <3>4, <3>5 DEF Ids, Mismatching, Range, Expected, mockComputeAuditHash
  <2> QED
    BY <2>1 DEF RedRowsMismatch
<1>11. VerdictStands'
  BY <1>3 DEF VerdictStands
<1> QED
  BY <1>4, <1>8, <1>9, <1>10, <1>11 DEF LedgerInv

(* A sweep names the rows that do not match.                               *)
LEMMA SweepStep ==
  ASSUME LedgerInv, handleAuditTamperCheck
  PROVE  LedgerInv'
<1>1. PICK S : auditLogsList \in Seq(S)
  BY DEF LedgerInv
<1>2. /\ auditLogsList' = auditLogsList /\ auditCorruptedRows' = Ids(Mismatching)
      /\ auditSweepStatus' = IF Mismatching # {} THEN "compromised" ELSE "valid"
  BY DEF handleAuditTamperCheck
<1>3. Mismatching' = Mismatching /\ Ids(Mismatching)' = Ids(Mismatching)
  BY <1>2 DEF Mismatching, Expected, mockComputeAuditHash, Ids
<1>4. Ids(Mismatching) \subseteq 1..Len(auditLogsList)
  BY <1>1, BadPositions DEF LedgerInv
<1>5. LedgerTypeOK'
  BY <1>2, <1>4 DEF LedgerInv, LedgerTypeOK
<1>6. \A i \in 1..Len(auditLogsList) : RowOK(auditLogsList[i])
  BY DEF LedgerInv
<1>7. \A i \in 1..Len(auditLogsList') : RowOK(auditLogsList'[i])
  BY <1>2, <1>6 DEF RowOK, Bad, Expected, mockComputeAuditHash
<1>8. VerdictStands' /\ RedRowsMismatch'
  BY <1>2, <1>3 DEF VerdictStands, RedRowsMismatch
<1> QED
  BY <1>1, <1>2, <1>5, <1>7, <1>8 DEF LedgerInv

(* Tampering leaves rows that do not match as they are.                    *)
LEMMA TamperStep ==
  ASSUME LedgerInv, NEW id, handleTamperAuditLog(id)
  PROVE  LedgerInv'
<1> DEFINE n == Len(auditLogsList)
           hacked(row) == [row EXCEPT !.clientIP = HackedIP]
           T == {auditLogsList'[i] : i \in 1..n}
<1>1. PICK S : auditLogsList \in Seq(S)
  BY DEF LedgerInv
<1>2. /\ n \in Nat /\ DOMAIN auditLogsList = 1..n
  BY <1>1, LenProperties
<1>3. /\ auditLogsList' = [i \in 1..n |-> IF auditLogsList[i].id = id
                                            THEN hacked(auditLogsList[i])
                                            ELSE auditLogsList[i]]
      /\ auditSweepStatus' = "unchecked" /\ auditCorruptedRows' = auditCorruptedRows
  BY <1>2 DEF handleTamperAuditLog
<1>4. ASSUME NEW row, RowOK(row)
      PROVE  /\ RowOK(hacked(row)) /\ hacked(row).id = row.id
             /\ hacked(row).clientIP = HackedIP
             /\ Bad(row) /\ row.clientIP \in {OwnIP, HackedIP} => hacked(row) = row
  <2> DEFINE r == [id |-> row.id, clientIP |-> HackedIP, action |-> row.action,
                   auditHash |-> row.auditHash]
  <2>1. hacked(row) = r
    BY <1>4 DEF RowOK
  <2>2. /\ r.id = row.id /\ r.clientIP = HackedIP /\ r.action = row.action
        /\ r.auditHash = row.auditHash
    OBVIOUS
  <2>3. OwnIP # HackedIP
    BY DEF OwnIP, HackedIP
  <2>4. row.clientIP = HackedIP => r = row
    BY <1>4 DEF RowOK
  <2> HIDE DEF r
  <2>5. RowOK(r)
    BY <2>2, <2>3 DEF RowOK, r
  <2> QED
    BY <1>4, <2>1, <2>2, <2>4, <2>5 DEF RowOK
<1> HIDE DEF hacked
<1>5. /\ auditLogsList' \in Seq(T) /\ Len(auditLogsList') = n
      /\ DOMAIN auditLogsList' = 1..n
      /\ \A i \in 1..n : auditLogsList'[i] \in {auditLogsList[i], hacked(auditLogsList[i])}
  <2>1. auditLogsList' \in [1..n -> T]
    BY <1>3
  <2> QED
    BY <1>2, <1>3, <2>1, IsASeq, LenProperties
<1>6. \A i \in 1..n : /\ RowOK(auditLogsList[i])
                      /\ auditLogsList[i].id = n + 1 - i
                      /\ auditLogsList[i].clientIP \in {OwnIP, HackedIP}
  BY <1>2 DEF LedgerInv, LedgerTypeOK
<1>7. \A i \in 1..n : /\ RowOK(auditLogsList'[i])
                      /\ auditLogsList'[i].id = n + 1 - i
                      /\ auditLogsList'[i].clientIP \in {OwnIP, HackedIP}
                      /\ Bad(auditLogsList[i]) => auditLogsList'[i] = auditLogsList[i]
  BY <1>4, <1>5, <1>6
<1>8. LedgerTypeOK'
  BY <1>3, <1>5, <1>7 DEF LedgerInv, LedgerTypeOK
<1>9. RedRowsMismatch'
  <2>1. ASSUME NEW k \in auditCorruptedRows'
        PROVE  k \in Ids(Mismatching)'
    <3>1. k \in 1..n /\ Bad(auditLogsList[n + 1 - k])
      BY <1>1, <1>3, BadPositions DEF LedgerInv, RedRowsMismatch
    <3>2. n + 1 - k \in 1..n
      BY <1>2, <3>1
    <3> DEFINE r == auditLogsList'[n + 1 - k]
    <3>3. r = auditLogsList[n + 1 - k]
      BY <1>7, <3>1, <3>2
    <3>4. r.id = k /\ r \in {auditLogsList'[i] : i \in DOMAIN auditLogsList'}
      <4>1. n + 1 - (n + 1 - k) = k
        BY <1>2, <3>1
      <4>2. r.id = n + 1 - (n + 1 - k)
        BY <1>7, <3>2
      <4> QED
        BY <1>5, <3>2, <4>1, <4>2
    <3>5. r.auditHash # HashOf(<<r.id, r.clientIP, r.action>>)
      BY <3>1, <3>3 DEF Bad, Expected, mockComputeAuditHash
    <3>6. r \in Mismatching'
      BY <3>4, <3>5 DEF Mismatching, Range, Expected, mockComputeAuditHash
    <3> QED
      BY <3>4, <3>6 DEF Ids
  <2> QED
    BY <2>1 DEF RedRowsMismatch
<1>10. VerdictStands'
  BY <1>3 DEF VerdictStands
<1> QED
  BY <1>5, <1>7, <1>8, <1>9, <1>10 DEF LedgerInv

(* Sealing every row again keeps ids and addresses.                        *)
LEMMA RestoreStep ==
  ASSUME LedgerInv, handleRestoreAuditIntegrity
  PROVE  LedgerInv'
<1> DEFINE n == Len(auditLogsList)
           sealed(row) == [row EXCEPT !.auditHash = Expected(row)]
           T == {auditLogsList'[i] : i \in 1..n}
<1>1. PICK S : auditLogsList \in Seq(S)
  BY DEF LedgerInv
<1>2. n \in Nat /\ DOMAIN auditLogsList = 1..n
  BY <1>1, LenProperties
<1>3. /\ auditLogsList' = [i \in 1..n |-> sealed(auditLogsList[i])]
      /\ auditSweepStatus' = "unchecked" /\ auditCorruptedRows' = {}
  BY <1>2 DEF handleRestoreAuditIntegrity
<1>4. ASSUME NEW row, RowOK(row)
      PROVE  /\ RowOK(sealed(row)) /\ sealed(row).id = row.id
             /\ sealed(row).clientIP = row.clientIP
  <2> DEFINE r == [id |-> row.id, clientIP |-> row.clientIP, action |-> row.action,
                   auditHash |-> Expected(row)]
  <2>1. sealed(row) = r
    BY <1>4 DEF RowOK
  <2>2. /\ r.id = row.id /\ r.clientIP = row.clientIP /\ r.action = row.action
        /\ r.auditHash = Expected(row)
    OBVIOUS
  <2> HIDE DEF r
  <2>3. RowOK(r)
    BY <2>2 DEF RowOK, r, Bad, Expected
  <2> QED
    BY <2>1, <2>2, <2>3
<1> HIDE DEF sealed
<1>5. /\ auditLogsList' \in Seq(T) /\ Len(auditLogsList') = n
      /\ DOMAIN auditLogsList' = 1..n
      /\ \A i \in 1..n : auditLogsList'[i] = sealed(auditLogsList[i])
  <2>1. auditLogsList' \in [1..n -> T]
    BY <1>3
  <2> QED
    BY <1>2, <1>3, <2>1, IsASeq, LenProperties
<1>6. \A i \in 1..n : /\ RowOK(auditLogsList[i])
                      /\ auditLogsList[i].id = n + 1 - i
                      /\ auditLogsList[i].clientIP \in {OwnIP, HackedIP}
  BY <1>2 DEF LedgerInv, LedgerTypeOK
<1>7. \A i \in 1..n : /\ RowOK(auditLogsList'[i])
                      /\ auditLogsList'[i].id = n + 1 - i
                      /\ auditLogsList'[i].clientIP \in {OwnIP, HackedIP}
  BY <1>4, <1>5, <1>6
<1>8. LedgerTypeOK' /\ VerdictStands' /\ RedRowsMismatch'
  BY <1>3, <1>5, <1>7 DEF LedgerTypeOK, VerdictStands, RedRowsMismatch
<1> QED
  BY <1>5, <1>7, <1>8 DEF LedgerInv

LEMMA LedgerStutter ==
  ASSUME LedgerInv, UNCHANGED ledgerVars
  PROVE  LedgerInv'
<1>1. /\ auditLogsList' = auditLogsList /\ auditCorruptedRows' = auditCorruptedRows
      /\ auditSweepStatus' = auditSweepStatus
  BY DEF ledgerVars
<1>2. Mismatching' = Mismatching /\ Ids(Mismatching)' = Ids(Mismatching)
  BY <1>1 DEF Mismatching, Expected, mockComputeAuditHash, Ids
<1>3. \A i \in 1..Len(auditLogsList') : RowOK(auditLogsList'[i])
  BY <1>1 DEF LedgerInv, RowOK, Bad, Expected, mockComputeAuditHash
<1> QED
  BY <1>1, <1>2, <1>3 DEF LedgerInv, LedgerTypeOK, VerdictStands, RedRowsMismatch

-----------------------------------------------------------------------------
(* Folds.                                                                  *)

(* A set of naturals that is not empty has a least member: what is proved   *)
(* of sets and lists of every size below is proved of the least size it     *)
(* would fail for.                                                          *)
LEMMA LeastNat ==
  ASSUME NEW T \in SUBSET Nat, T # {}
  PROVE  \E n \in T : \A k \in T : n <= k
<1>1. PICK n \in T : \A k \in T : ~ (<<k, n>> \in OpToRel(<, Nat))
  BY NatLessThanWellFounded, WFMin
<1>2. ASSUME NEW k \in T PROVE n <= k
  <2>1. ~(k < n)
    BY <1>1 DEF OpToRel
  <2> QED BY <2>1
<1> QED BY <1>2

LEMMA SmallerPart ==
  ASSUME NEW D, IsFiniteSet(D), NEW s \in SUBSET D, NEW x \in s
  PROVE  /\ s \ {x} \in SUBSET D
         /\ Cardinality(s) \in Nat /\ Cardinality(s) > 0
         /\ Cardinality(s \ {x}) = Cardinality(s) - 1
<1>1. IsFiniteSet(s)
  BY FS_Subset
<1>2. Cardinality(s) \in Nat /\ Cardinality(s \ {x}) = Cardinality(s) - 1
  BY <1>1, FS_RemoveElement, FS_CardinalityType
<1>3. Cardinality(s \ {x}) \in Nat
  BY <1>1, FS_Subset, FS_CardinalityType
<1> QED
  BY <1>2, <1>3

(* A fold over the finite set D is the value at D of a function that its    *)
(* definition chooses: a set is mapped to what the member ch picks from it  *)
(* adds to the value of the rest.                                           *)
IsFoldTable(f, D, V, base, step, ch) ==
  /\ f \in [SUBSET D -> V]
  /\ f = [s \in SUBSET D |->
            IF s = {} THEN base ELSE step[<<f[s \ {ch[s]}], ch[s]>>]]

(* There is such a function, so that choosing one finds one.                *)
LEMMA FoldTable ==
  ASSUME NEW D, IsFiniteSet(D), NEW V, NEW base \in V, NEW step \in [V \X D -> V],
         NEW ch, \A s \in SUBSET D : s # {} => ch[s] \in s
  PROVE  \E f : IsFoldTable(f, D, V, base, step, ch)
<1> DEFINE Level(k) == {s \in SUBSET D : Cardinality(s) <= k}
           Body(f, s) == IF s = {} THEN base ELSE step[<<f[s \ {ch[s]}], ch[s]>>]
           Table(k) == \E f \in [Level(k) -> V] : f = [s \in Level(k) |-> Body(f, s)]
           T == {k \in Nat : ~Table(k)}
<1>1. T = {}
  <2>1. SUFFICES ASSUME T # {} PROVE FALSE
    OBVIOUS
  <2>2. PICK k \in T : \A j \in T : k <= j
    <3> HIDE DEF T
    <3>1. T \in SUBSET Nat
      BY DEF T
    <3> QED BY <2>1, <3>1, LeastNat
  <2>3. CASE k = 0
    <3> DEFINE f == [s \in Level(0) |-> base]
    <3>1. ASSUME NEW s \in Level(0) PROVE s = {}
      <4> DEFINE c == Cardinality(s)
      <4>1. \A x \in s : c \in Nat /\ c > 0
        BY <3>1, SmallerPart
      <4>2. c <= 0
        BY <3>1
      <4> HIDE DEF c
      <4>3. \A x \in s : FALSE
        BY <4>1, <4>2
      <4> QED
        BY <4>3
    <3>2. f = [s \in Level(0) |-> Body(f, s)]
      BY <3>1
    <3>3. f \in [Level(0) -> V]
      OBVIOUS
    <3> QED
      BY <2>3, <3>2, <3>3
  <2>4. CASE k # 0
    <3>1. k - 1 \in Nat /\ k - 1 \notin T
      <4>1. k \in Nat
        BY <2>2
      <4> HIDE DEF T
      <4> QED
        BY <2>2, <2>4, <4>1
    <3>2. PICK f \in [Level(k - 1) -> V] : f = [s \in Level(k - 1) |-> Body(f, s)]
      BY <3>1
    <3> DEFINE g == [s \in Level(k) |-> Body(f, s)]
    <3>3. ASSUME NEW s \in Level(k), s # {}
          PROVE  /\ g[s \ {ch[s]}] = f[s \ {ch[s]}]
                 /\ Body(f, s) \in V
      <4> DEFINE t == s \ {ch[s]}
      <4>1. ch[s] \in s /\ ch[s] \in D
        BY <3>3
      <4>2. t \in SUBSET D /\ Cardinality(t) <= k - 1 /\ Cardinality(t) <= k
        <5>1. s \in SUBSET D /\ Cardinality(s) <= k /\ k \in Nat
          BY <2>2, <3>3
        <5>2. /\ t \in SUBSET D /\ Cardinality(s) \in Nat
              /\ Cardinality(t) = Cardinality(s) - 1
          BY <4>1, <5>1, SmallerPart
        <5> HIDE DEF t, T
        <5> QED
          BY <5>1, <5>2
      <4>3. t \in Level(k - 1) /\ t \in Level(k)
        BY <4>2
      <4>4. f[t] \in V /\ Body(f, s) = step[<<f[t], ch[s]>>]
        BY <3>2, <3>3, <4>3
      <4>5. Body(f, s) \in V
        BY <4>1, <4>4
      <4>6. g[t] = f[t]
        <5> HIDE DEF t, Body
        <5>1. f[t] = Body(f, t)
          BY <3>2, <4>3
        <5>2. g[t] = Body(f, t)
          BY <4>3
        <5> QED BY <5>1, <5>2
      <4> QED BY <4>5, <4>6
    <3>4. \A s \in Level(k) : Body(f, s) = Body(g, s) /\ Body(f, s) \in V
      BY <3>3
    <3>5. g = [s \in Level(k) |-> Body(g, s)] /\ g \in [Level(k) -> V]
      <4> HIDE DEF Body
      <4> QED BY <3>4
    <3> QED
      BY <2>2, <3>5
  <2> QED
    BY <2>3, <2>4
<1> DEFINE c == Cardinality(D)
<1>2. c \in Nat
  BY FS_CardinalityType
<1>3. PICK f \in [Level(c) -> V] : f = [s \in Level(c) |-> Body(f, s)]
  <2> HIDE DEF c
  <2> QED BY <1>1, <1>2
<1>4. Level(c) = SUBSET D
  BY <1>2, FS_Subset
<1>5. f \in [SUBSET D -> V] /\ f = [s \in SUBSET D |-> Body(f, s)]
  BY <1>3, <1>4
<1> QED
  BY <1>5 DEF IsFoldTable

(* What holds of the empty set's value and is kept by every member added    *)
(* holds of the fold.                                                       *)
LEMMA FoldStays ==
  ASSUME NEW D, IsFiniteSet(D), NEW V, NEW f, NEW ch, f[{}] \in V,
         \A s \in SUBSET D : s # {} =>
            /\ ch[s] \in s
            /\ f[s \ {ch[s]}] \in V => f[s] \in V
  PROVE  f[D] \in V
<1> DEFINE Sizes == {k \in Nat : \E s \in SUBSET D : Cardinality(s) = k /\ f[s] \notin V}
<1>1. Sizes = {}
  <2>1. SUFFICES ASSUME Sizes # {} PROVE FALSE
    OBVIOUS
  <2>2. PICK k \in Sizes : \A j \in Sizes : k <= j
    <3>1. Sizes \in SUBSET Nat
      OBVIOUS
    <3> HIDE DEF Sizes
    <3> QED BY <2>1, <3>1, LeastNat
  <2>3. PICK s \in SUBSET D : Cardinality(s) = k /\ f[s] \notin V
    BY <2>2
  <2>4. s # {}
    BY <2>3
  <2> DEFINE rest == s \ {ch[s]}
  <2>5. ch[s] \in s /\ rest \in SUBSET D /\ f[rest] \notin V
    BY <2>3, <2>4
  <2>6. Cardinality(rest) = k - 1 /\ Cardinality(rest) \in Nat /\ k \in Nat
    <3>1. Cardinality(rest) \in Nat
      BY <2>5, FS_Subset, FS_CardinalityType
    <3> HIDE DEF Sizes
    <3> QED BY <2>3, <2>5, <3>1, SmallerPart
  <2>7. Cardinality(rest) \in Sizes
    BY <2>5, <2>6
  <2> HIDE DEF Sizes, rest
  <2> QED BY <2>2, <2>6, <2>7
<1>2. Cardinality(D) \in Nat
  BY FS_CardinalityType
<1> QED BY <1>1, <1>2

(* The function that NextId folds with.                                     *)
IsMaxTable(g, items) ==
  g = [s \in SUBSET items |->
         IF s = {} THEN 0
         ELSE IF (CHOOSE x \in s : TRUE).id > g[s \ {CHOOSE x \in s : TRUE}]
              THEN (CHOOSE x \in s : TRUE).id ELSE g[s \ {CHOOSE x \in s : TRUE}]]

LEMMA MaxIter ==
  \A items : NextId(items) = 1 + (CHOOSE g : IsMaxTable(g, items))[items]
BY DEF NextId, FoldSet, MapThenFoldSet, IsMaxTable

(* An item is named by a number if those before it are.                     *)
LEMMA NextIdNat ==
  ASSUME NEW items, IsFiniteSet(items), \A x \in items : x.id \in Nat
  PROVE  NextId(items) \in Nat
<1> DEFINE ch == [s \in SUBSET items |-> CHOOSE x \in s : TRUE]
           step == [p \in Nat \X items |-> IF p[2].id > p[1] THEN p[2].id ELSE p[1]]
<1>1. \A s \in SUBSET items : /\ ch[s] = CHOOSE x \in s : TRUE
                              /\ s # {} => ch[s] \in s
  OBVIOUS
<1>2. /\ step \in [Nat \X items -> Nat]
      /\ \A m \in Nat, x \in items : step[<<m, x>>] = IF x.id > m THEN x.id ELSE m
  OBVIOUS
<1> HIDE DEF ch, step
<1>3. PICK f : IsFoldTable(f, items, Nat, 0, step, ch)
  <2>1. 0 \in Nat
    OBVIOUS
  <2> QED
    BY ONLY <1>1, <1>2, <2>1, IsFiniteSet(items), FoldTable, Zenon
<1>4. /\ f \in [SUBSET items -> Nat]
      /\ f = [s \in SUBSET items |->
                IF s = {} THEN 0 ELSE step[<<f[s \ {ch[s]}], ch[s]>>]]
  BY <1>3 DEF IsFoldTable
<1>5. ASSUME NEW s \in SUBSET items, s # {}
      PROVE  step[<<f[s \ {ch[s]}], ch[s]>>] =
               IF ch[s].id > f[s \ {ch[s]}] THEN ch[s].id ELSE f[s \ {ch[s]}]
  <2>1. ch[s] \in items /\ f[s \ {ch[s]}] \in Nat
    BY <1>1, <1>4, <1>5
  <2> QED
    BY <1>2, <2>1
<1>6. IsMaxTable(f, items)
  <2> DEFINE Table(s) ==
               IF s = {} THEN 0
               ELSE IF (CHOOSE x \in s : TRUE).id > f[s \ {CHOOSE x \in s : TRUE}]
                    THEN (CHOOSE x \in s : TRUE).id ELSE f[s \ {CHOOSE x \in s : TRUE}]
             Steps(s) == IF s = {} THEN 0 ELSE step[<<f[s \ {ch[s]}], ch[s]>>]
  <2>1. \A s \in SUBSET items : Table(s) = Steps(s)
    BY <1>1, <1>5
  <2>2. f = [s \in SUBSET items |-> Table(s)]
    <3>1. f = [s \in SUBSET items |-> Steps(s)]
      BY <1>4
    <3> HIDE DEF Table, Steps
    <3> QED
      BY <2>1, <3>1
  <2> QED
    BY <2>2 DEF IsMaxTable
<1> DEFINE g == CHOOSE g : IsMaxTable(g, items)
<1>7. IsMaxTable(g, items)
  BY <1>6
<1> HIDE DEF g
<1>8. g[items] \in Nat
  <2>1. g[{}] \in Nat
    BY <1>7 DEF IsMaxTable
  <2>2. ASSUME NEW s \in SUBSET items, s # {}
        PROVE  ch[s] \in s /\ (g[s \ {ch[s]}] \in Nat => g[s] \in Nat)
    <3>1. ch[s] \in s /\ ch[s].id \in Nat
      BY <1>1, <2>2
    <3>2. g[s] = IF ch[s].id > g[s \ {ch[s]}] THEN ch[s].id ELSE g[s \ {ch[s]}]
      BY <1>1, <1>7, <2>2 DEF IsMaxTable
    <3> QED
      BY <3>1, <3>2
  <2> QED
    BY <2>1, <2>2, FoldStays
<1> QED
  BY <1>8, MaxIter DEF g

(* The greatest member of a set of positions.                               *)
LEMMA MaxOf ==
  ASSUME NEW n \in Nat, NEW s \in SUBSET (1..n), s # {}
  PROVE  Max(s) \in s /\ \A y \in s : Max(s) >= y
<1> DEFINE T == {k \in Nat : \A x \in s : x <= k}
<1>1. n \in T
  OBVIOUS
<1>2. PICK m \in T : \A k \in T : m <= k
  <2>1. T \in SUBSET Nat /\ T # {}
    BY <1>1
  <2> HIDE DEF T
  <2> QED BY <2>1, LeastNat
<1>3. m \in s
  <2> SUFFICES ASSUME m \notin s PROVE FALSE
    OBVIOUS
  <2>1. m \in Nat /\ m > 0
    <3>0. PICK x : x \in s
      OBVIOUS
    <3>1. x \in s /\ x \in Nat /\ x > 0
      BY <3>0
    <3>2. m \in Nat /\ x <= m
      BY <1>2, <3>1
    <3> QED
      BY <3>1, <3>2
  <2>2. m - 1 \in T
    BY <1>2, <2>1
  <2> HIDE DEF T
  <2> QED BY <1>2, <2>1, <2>2
<1>4. \E x \in s : \A y \in s : x >= y
  BY <1>2, <1>3
<1> QED
  BY <1>4 DEF Max

LEMMA PrefixMax ==
  ASSUME NEW k \in Nat, k > 0
  PROVE  /\ Max(1..k) = k /\ 1..k # {}
         /\ (1..k) \ {Max(1..k)} = 1..(k - 1)
<1>1. k \in 1..k
  OBVIOUS
<1>2. Max(1..k) \in 1..k /\ Max(1..k) >= k
  BY <1>1, MaxOf
<1>3. Max(1..k) = k
  BY <1>2
<1> QED
  BY <1>1, <1>3

(* What a fold over a list of n uses to pick the last of some positions.    *)
LastOf(n) == [s \in SUBSET (1..n) |-> Max(s)]

LEMMA LastOfPicks ==
  ASSUME NEW n \in Nat
  PROVE  /\ IsFiniteSet(1..n)
         /\ \A s \in SUBSET (1..n) : s # {} => LastOf(n)[s] \in s /\ LastOf(n)[s] = Max(s)
<1>1. IsFiniteSet(1..n)
  BY FS_Interval
<1>2. ASSUME NEW s \in SUBSET (1..n), s # {}
      PROVE  LastOf(n)[s] \in s /\ LastOf(n)[s] = Max(s)
  <2>1. Max(s) \in s
    BY <1>2, MaxOf
  <2>2. LastOf(n)[s] = Max(s)
    BY DEF LastOf
  <2> QED
    BY <2>1, <2>2
<1> QED
  BY <1>1, <1>2

-----------------------------------------------------------------------------
(* The rules.                                                              *)

(* The verdict before any rule, and the function that Verdict folds with.   *)
Blank == [folder |-> "Inbox", discard |-> FALSE]

IsVerdictTable(f, packet, rules) ==
  f = [s \in SUBSET (DOMAIN rules) |->
         IF s = {} THEN Blank
         ELSE ApplyRule(packet, f[s \ {Max(s)}], rules[Max(s)])]

LEMMA VerdictIter ==
  \A packet : Verdict(packet) = (CHOOSE f : IsVerdictTable(f, packet, rulesList))[DOMAIN rulesList]
BY DEF Verdict, FoldLeft, MapThenFoldSet, IsVerdictTable, Blank

(* The function that RulesWithout folds with.                               *)
IsFilterTable(f, rules, id) ==
  f = [s \in SUBSET (DOMAIN rules) |->
         IF s = {} THEN <<>>
         ELSE IF rules[Max(s)].id = id THEN f[s \ {Max(s)}] ELSE Append(f[s \ {Max(s)}], rules[Max(s)])]

LEMMA FilterIter ==
  \A id : RulesWithout(id) = (CHOOSE f : IsFilterTable(f, rulesList, id))[DOMAIN rulesList]
BY DEF RulesWithout, FoldLeft, MapThenFoldSet, IsFilterTable

Verdicts == [folder : {"Inbox", "Spam", "Trash"}, discard : BOOLEAN]

(* Whatever the rule is, the verdict stays one.                             *)
LEMMA ApplyRuleType ==
  ASSUME NEW v \in Verdicts, NEW packet, NEW rule
  PROVE  ApplyRule(packet, v, rule) \in Verdicts
<1>1. \A folder \in {"Inbox", "Spam", "Trash"} : [v EXCEPT !.folder = folder] \in Verdicts
  BY DEF Verdicts
<1>2. [folder |-> "Trash", discard |-> TRUE] \in Verdicts
  BY DEF Verdicts
<1> QED
  BY <1>1, <1>2 DEF ApplyRule

LEMMA VerdictTableExists ==
  ASSUME NEW S, NEW rules \in Seq(S), NEW packet
  PROVE  \E f : IsVerdictTable(f, packet, rules)
<1> DEFINE n == Len(rules)
           step == [p \in Verdicts \X (1..n) |-> ApplyRule(packet, p[1], rules[p[2]])]
<1>1. n \in Nat /\ DOMAIN rules = 1..n
  BY LenProperties
<1>2. Blank \in Verdicts
  BY DEF Blank, Verdicts
<1>3. step \in [Verdicts \X (1..n) -> Verdicts]
  <2>1. \A p \in Verdicts \X (1..n) : ApplyRule(packet, p[1], rules[p[2]]) \in Verdicts
    BY ApplyRuleType
  <2> QED
    BY <2>1
<1>4. \A v \in Verdicts, i \in 1..n : step[<<v, i>>] = ApplyRule(packet, v, rules[i])
  OBVIOUS
<1> HIDE DEF step, n
<1>5. /\ IsFiniteSet(1..n)
      /\ \A s \in SUBSET (1..n) : s # {} => LastOf(n)[s] \in s /\ LastOf(n)[s] = Max(s)
  BY <1>1, LastOfPicks
<1>6. PICK f : IsFoldTable(f, 1..n, Verdicts, Blank, step, LastOf(n))
  BY ONLY <1>2, <1>3, <1>5, FoldTable, Zenon
<1>7. /\ f \in [SUBSET (1..n) -> Verdicts]
      /\ f = [s \in SUBSET (1..n) |->
                IF s = {} THEN Blank ELSE step[<<f[s \ {Max(s)}], Max(s)>>]]
  BY <1>5, <1>6 DEF IsFoldTable
<1>8. ASSUME NEW s \in SUBSET (1..n), s # {}
      PROVE  step[<<f[s \ {Max(s)}], Max(s)>>] =
               ApplyRule(packet, f[s \ {Max(s)}], rules[Max(s)])
  <2>1. Max(s) \in 1..n /\ f[s \ {Max(s)}] \in Verdicts
    BY <1>1, <1>7, <1>8, MaxOf
  <2> QED
    BY <1>4, <2>1
<1>9. IsVerdictTable(f, packet, rules)
  <2> DEFINE Table(s) == IF s = {} THEN Blank
                         ELSE ApplyRule(packet, f[s \ {Max(s)}], rules[Max(s)])
             Steps(s) == IF s = {} THEN Blank
                         ELSE step[<<f[s \ {Max(s)}], Max(s)>>]
  <2>1. \A s \in SUBSET (1..n) : Table(s) = Steps(s)
    BY <1>8
  <2>2. f = [s \in SUBSET (1..n) |-> Table(s)]
    <3>1. f = [s \in SUBSET (1..n) |-> Steps(s)]
      BY <1>7
    <3> HIDE DEF Table, Steps
    <3> QED
      BY <2>1, <3>1
  <2> QED
    BY <1>1, <2>2 DEF IsVerdictTable
<1> QED
  BY <1>9

(* After k rules the verdict is that of the last of them that places the    *)
(* packet.                                                                  *)
LEMMA LastWord ==
  ASSUME NEW S, NEW rules \in Seq(S), \A r \in S : r.target \in Targets,
         NEW packet, NEW f, IsVerdictTable(f, packet, rules)
  PROVE  \A k \in 0..Len(rules) :
           /\ f[1..k] \in Verdicts
           /\ \/ /\ f[1..k].folder = "Inbox"
                 /\ \A i \in 1..k : ~Places(rules[i], packet)
              \/ \E i \in 1..k :
                   /\ f[1..k].folder = Placement(rules[i])
                   /\ Places(rules[i], packet)
                   /\ \A j \in 1..k : Places(rules[j], packet) => j <= i
<1> DEFINE n == Len(rules)
           Said(k) ==
             /\ f[1..k] \in Verdicts
             /\ \/ /\ f[1..k].folder = "Inbox"
                   /\ \A i \in 1..k : ~Places(rules[i], packet)
                \/ \E i \in 1..k :
                     /\ f[1..k].folder = Placement(rules[i])
                     /\ Places(rules[i], packet)
                     /\ \A j \in 1..k : Places(rules[j], packet) => j <= i
           T == {k \in 0..n : ~Said(k)}
<1>1. n \in Nat /\ DOMAIN rules = 1..n /\ \A i \in 1..n : rules[i].target \in Targets
  BY LenProperties, ElementOfSeq
<1>2. Said(0)
  <2>1. 1..0 = {}
    OBVIOUS
  <2>2. f[1..0] = Blank
    BY <2>1 DEF IsVerdictTable
  <2> QED
    BY <2>1, <2>2 DEF Blank, Verdicts
<1>3. ASSUME NEW k \in 1..n, Said(k - 1) PROVE Said(k)
  <2> DEFINE v == f[1..(k - 1)]
             w == f[1..k]
             rule == rules[k]
  <2>1. w = ApplyRule(packet, v, rule)
    <3>1. Max(1..k) = k /\ 1..k # {} /\ (1..k) \ {Max(1..k)} = 1..(k - 1)
      BY <1>1, PrefixMax
    <3>2. 1..k \in SUBSET (1..n)
      BY <1>1
    <3>3. f[1..k] = ApplyRule(packet, f[(1..k) \ {Max(1..k)}], rules[Max(1..k)])
      BY <1>1, <3>1, <3>2 DEF IsVerdictTable
    <3> QED
      BY <3>1, <3>3
  <2>2. v \in Verdicts /\ rule.target \in Targets
    BY <1>1, <1>3
  <2>3. w \in Verdicts
    BY <2>1, <2>2, ApplyRuleType
  <2>4. k \in Nat /\ k > 0 /\ \A i \in 1..k : i = k \/ i \in 1..(k - 1)
    BY <1>1
  <2>5. CASE Places(rule, packet)
    <3>1. w.folder = Placement(rule)
      <4>1. packet \in rule.matches
        BY <2>5 DEF Places
      <4>2. CASE rule.type = "DISCARD"
        BY <2>1, <4>1, <4>2 DEF ApplyRule, Placement
      <4>3. CASE rule.type = "MOVE_TO_FOLDER" /\ rule.target = "trash"
        BY <2>1, <2>2, <4>1, <4>3 DEF ApplyRule, Placement, Verdicts
      <4>4. CASE rule.type = "MOVE_TO_FOLDER" /\ rule.target = "spam"
        BY <2>1, <2>2, <4>1, <4>4 DEF ApplyRule, Placement, Verdicts
      <4> QED
        BY <2>2, <2>5, <4>2, <4>3, <4>4 DEF Places, Targets
    <3> HIDE DEF w
    <3>2. \A j \in 1..k : j <= k
      BY <2>4
    <3> QED
      BY <2>3, <2>4, <2>5, <3>1, <3>2 DEF w
  <2>6. CASE ~Places(rule, packet)
    <3>1. w.folder = v.folder
      BY <2>1, <2>6 DEF ApplyRule, Places
    <3>2. CASE v.folder = "Inbox" /\ \A i \in 1..(k - 1) : ~Places(rules[i], packet)
      <4> HIDE DEF v, w
      <4>1. \A i \in 1..k : ~Places(rules[i], packet)
        BY <2>4, <2>6, <3>2
      <4> QED
        BY <2>3, <3>1, <3>2, <4>1 DEF w
    <3>3. ASSUME NEW i \in 1..(k - 1), v.folder = Placement(rules[i]),
                 Places(rules[i], packet),
                 \A j \in 1..(k - 1) : Places(rules[j], packet) => j <= i
          PROVE  Said(k)
      <4> HIDE DEF v, w
      <4>1. i \in 1..k
        BY <2>4
      <4>2. \A j \in 1..k : Places(rules[j], packet) => j <= i
        BY <2>4, <2>6, <3>3
      <4> QED
        BY <2>3, <3>1, <3>3, <4>1, <4>2 DEF w
    <3> QED
      BY <1>3, <3>2, <3>3
  <2> QED
    BY <2>5, <2>6
<1>4. T = {}
  <2> SUFFICES ASSUME T # {} PROVE FALSE
    OBVIOUS
  <2>1. PICK k \in T : \A j \in T : k <= j
    <3>1. T \in SUBSET Nat
      BY <1>1
    <3> HIDE DEF T
    <3> QED BY <3>1, LeastNat
  <2>2. k \in 0..n /\ ~Said(k)
    BY <2>1
  <2> HIDE DEF Said
  <2>3. k # 0 /\ k \in 1..n /\ k - 1 \in 0..n
    BY <1>1, <1>2, <2>2
  <2>4. ~Said(k - 1)
    BY <1>3, <2>2, <2>3
  <2>5. k - 1 \in T
    BY <2>3, <2>4
  <2> HIDE DEF T
  <2> QED
    BY <2>1, <2>3, <2>5
<1> QED
  BY <1>4

LEMMA FilterTableExists ==
  ASSUME NEW S, NEW rules \in Seq(S), NEW id
  PROVE  \E f : IsFilterTable(f, rules, id)
<1> DEFINE n == Len(rules)
           step == [p \in Seq(S) \X (1..n) |->
                      IF rules[p[2]].id = id THEN p[1] ELSE Append(p[1], rules[p[2]])]
<1>1. n \in Nat /\ DOMAIN rules = 1..n /\ \A i \in 1..n : rules[i] \in S
  BY LenProperties, ElementOfSeq
<1>2. <<>> \in Seq(S)
  OBVIOUS
<1>3. step \in [Seq(S) \X (1..n) -> Seq(S)]
  <2>1. \A q \in Seq(S), i \in 1..n : Append(q, rules[i]) \in Seq(S)
    BY <1>1, AppendProperties
  <2>2. \A p \in Seq(S) \X (1..n) :
          (IF rules[p[2]].id = id THEN p[1] ELSE Append(p[1], rules[p[2]])) \in Seq(S)
    BY <2>1
  <2> QED
    BY <2>2
<1>4. \A q \in Seq(S), i \in 1..n :
        step[<<q, i>>] = IF rules[i].id = id THEN q ELSE Append(q, rules[i])
  OBVIOUS
<1> HIDE DEF step, n
<1>5. /\ IsFiniteSet(1..n)
      /\ \A s \in SUBSET (1..n) : s # {} => LastOf(n)[s] \in s /\ LastOf(n)[s] = Max(s)
  BY <1>1, LastOfPicks
<1>6. PICK f : IsFoldTable(f, 1..n, Seq(S), <<>>, step, LastOf(n))
  BY ONLY <1>2, <1>3, <1>5, FoldTable, Zenon
<1>7. /\ f \in [SUBSET (1..n) -> Seq(S)]
      /\ f = [s \in SUBSET (1..n) |->
                IF s = {} THEN <<>> ELSE step[<<f[s \ {Max(s)}], Max(s)>>]]
  BY <1>5, <1>6 DEF IsFoldTable
<1>8. ASSUME NEW s \in SUBSET (1..n), s # {}
      PROVE  step[<<f[s \ {Max(s)}], Max(s)>>] =
               IF rules[Max(s)].id = id THEN f[s \ {Max(s)}]
               ELSE Append(f[s \ {Max(s)}], rules[Max(s)])
  <2>1. Max(s) \in 1..n /\ f[s \ {Max(s)}] \in Seq(S)
    BY <1>1, <1>7, <1>8, MaxOf
  <2> QED
    BY <1>4, <2>1
<1>9. IsFilterTable(f, rules, id)
  <2> DEFINE Table(s) == IF s = {} THEN <<>>
                         ELSE IF rules[Max(s)].id = id THEN f[s \ {Max(s)}]
                         ELSE Append(f[s \ {Max(s)}], rules[Max(s)])
             Steps(s) == IF s = {} THEN <<>>
                         ELSE step[<<f[s \ {Max(s)}], Max(s)>>]
  <2>1. \A s \in SUBSET (1..n) : Table(s) = Steps(s)
    BY <1>8
  <2>2. f = [s \in SUBSET (1..n) |-> Table(s)]
    <3>1. f = [s \in SUBSET (1..n) |-> Steps(s)]
      BY <1>7
    <3> HIDE DEF Table, Steps
    <3> QED
      BY <2>1, <3>1
  <2> QED
    BY <1>1, <2>2 DEF IsFilterTable
<1> QED
  BY <1>9

(* Deleting a rule leaves a list of rules that were there.                  *)
LEMMA FilterKeepsSeq ==
  ASSUME NEW S, NEW rules \in Seq(S), NEW id, NEW f, IsFilterTable(f, rules, id)
  PROVE  f[DOMAIN rules] \in Seq(S)
<1> DEFINE n == Len(rules)
<1>1. n \in Nat /\ DOMAIN rules = 1..n /\ \A i \in 1..n : rules[i] \in S
  BY LenProperties, ElementOfSeq
<1>2. f[{}] \in Seq(S)
  BY DEF IsFilterTable
<1> HIDE DEF n
<1>3. ASSUME NEW s \in SUBSET (1..n), s # {}
      PROVE  /\ LastOf(n)[s] \in s
             /\ f[s \ {LastOf(n)[s]}] \in Seq(S) => f[s] \in Seq(S)
  <2> DEFINE x == LastOf(n)[s]
  <2>1. x \in s /\ x = Max(s)
    BY <1>1, <1>3, LastOfPicks
  <2>2. f[s] = IF rules[x].id = id THEN f[s \ {x}] ELSE Append(f[s \ {x}], rules[x])
    BY <1>1, <1>3, <2>1 DEF IsFilterTable
  <2> HIDE DEF x
  <2>3. f[s \ {x}] \in Seq(S) => Append(f[s \ {x}], rules[x]) \in Seq(S)
    BY <1>1, <2>1, AppendProperties
  <2>4. f[s \ {x}] \in Seq(S) => f[s] \in Seq(S)
    BY <2>2, <2>3
  <2> QED
    BY <2>1, <2>4 DEF x
<1>4. IsFiniteSet(1..n)
  BY <1>1, LastOfPicks
<1> QED
  BY <1>1, <1>2, <1>3, <1>4, FoldStays

(* The rules and the form they are added with.                             *)
RulesInv ==
  /\ rulesList \in Seq(Rules)
  /\ ruleActionType \in ActionOptions \cup {"FORWARD"}

(* The folder a packet is deposited in, from the rules as they are.        *)
LEMMA RulesDecide == RulesInv => PlacedByLastRule
<1> SUFFICES ASSUME RulesInv, NEW packet \in Packets
             PROVE  LET placing == {i \in DOMAIN rulesList : Places(rulesList[i], packet)}
                    IN DepositFolder(packet) =
                         IF packet \in SpamPackets THEN "Spam"
                         ELSE IF placing = {} THEN "Inbox"
                         ELSE Placement(rulesList[CHOOSE i \in placing : \A j \in placing : j <= i])
  BY DEF PlacedByLastRule
<1> DEFINE n == Len(rulesList)
           placing == {i \in DOMAIN rulesList : Places(rulesList[i], packet)}
           last == CHOOSE i \in placing : \A j \in placing : j <= i
           f == CHOOSE g : IsVerdictTable(g, packet, rulesList)
           verdict == f[1..n]
<1> DEFINE S == Rules
<1>1. rulesList \in Seq(S) /\ \A r \in S : r.target \in Targets
  BY DEF RulesInv, Rules
<1> HIDE DEF S
<1>2. n \in Nat /\ DOMAIN rulesList = 1..n
  BY <1>1, LenProperties
<1>3. IsVerdictTable(f, packet, rulesList)
  <2>1. \E g : IsVerdictTable(g, packet, rulesList)
    BY <1>1, VerdictTableExists
  <2> QED
    BY <2>1
<1>4. Verdict(packet) = verdict
  BY <1>2, VerdictIter
<1> HIDE DEF f
<1>5. \/ /\ verdict.folder = "Inbox"
         /\ \A i \in 1..n : ~Places(rulesList[i], packet)
      \/ \E i \in 1..n :
           /\ verdict.folder = Placement(rulesList[i])
           /\ Places(rulesList[i], packet)
           /\ \A j \in 1..n : Places(rulesList[j], packet) => j <= i
  <2>1. n \in 0..n
    BY <1>2
  <2> QED
    BY <1>1, <1>3, <2>1, LastWord
<1>6. (\A i \in 1..n : ~Places(rulesList[i], packet)) => placing = {}
  BY <1>2
<1>7. ASSUME NEW i \in 1..n, verdict.folder = Placement(rulesList[i]),
             Places(rulesList[i], packet),
             \A j \in 1..n : Places(rulesList[j], packet) => j <= i
      PROVE  verdict.folder = Placement(rulesList[last]) /\ placing # {}
  <2>1. i \in placing /\ \A j \in placing : j <= i /\ j \in Nat
    BY <1>2, <1>7
  <2> HIDE DEF placing
  <2>2. last \in placing /\ \A j \in placing : j <= last
    BY <2>1
  <2>3. last = i
    <3> HIDE DEF last
    <3> QED BY <2>1, <2>2
  <2> QED
    BY <1>7, <2>1, <2>3
<1>8. \/ verdict.folder = "Inbox" /\ placing = {}
      \/ verdict.folder = Placement(rulesList[last]) /\ placing # {}
  <2> HIDE DEF placing, last, verdict
  <2> QED BY <1>5, <1>6, <1>7
<1> QED
  BY <1>4, <1>8 DEF DepositFolder

LEMMA FolderType ==
  ASSUME RulesInv, NEW packet \in Packets
  PROVE  DepositFolder(packet) \in {"Inbox", "Spam", "Trash"}
<1>1. \A rule : Placement(rule) \in {"Inbox", "Spam", "Trash"}
  BY DEF Placement
<1> QED
  BY <1>1, RulesDecide DEF PlacedByLastRule

(* Adding a rule, deleting one, and leaving them alone.                    *)
LEMMA CreateKeepsRules ==
  ASSUME RulesInv, NEW matches \in Conditions, NEW target \in Targets,
         handleCreateEmailRule(matches, target)
  PROVE  RulesInv'
<1> DEFINE id == NextId(Range(rulesList))
           new == [id |-> id, matches |-> matches, type |-> ruleActionType, target |-> target]
<1>1. rulesList' = Append(rulesList, new) /\ ruleActionType' = ruleActionType
  BY DEF handleCreateEmailRule
<1>2. id \in Nat
  <2> DEFINE n == Len(rulesList)
  <2>1. n \in Nat /\ rulesList \in [1..n -> Rules] /\ DOMAIN rulesList = 1..n
    BY LenProperties DEF RulesInv
  <2>2. IsFiniteSet(Range(rulesList))
    <3>1. rulesList \in Surjection(1..n, Range(rulesList))
      BY <2>1 DEF Range, Surjection
    <3>2. IsFiniteSet(1..n)
      BY <2>1, FS_Interval
    <3> QED
      BY <3>1, <3>2, FS_Surjection
  <2>3. \A x \in Range(rulesList) : x.id \in Nat
    BY <2>1 DEF Range, Rules
  <2> QED
    BY <2>2, <2>3, NextIdNat
<1> HIDE DEF id
<1>3. new \in Rules
  BY <1>2, ConsoleAssumption DEF Rules, RulesInv
<1> HIDE DEF new
<1>4. rulesList' \in Seq(Rules)
  BY <1>1, <1>3, AppendProperties DEF RulesInv
<1> QED
  BY <1>1, <1>4 DEF RulesInv, Rules, ActionOptions, Targets

LEMMA DeleteKeepsRules ==
  ASSUME RulesInv, NEW id, handleDeleteEmailRule(id)
  PROVE  RulesInv'
<1> DEFINE f == CHOOSE g : IsFilterTable(g, rulesList, id)
<1>1. rulesList \in Seq(Rules)
  BY DEF RulesInv
<1>2. IsFilterTable(f, rulesList, id)
  <2>1. \E g : IsFilterTable(g, rulesList, id)
    BY <1>1, FilterTableExists
  <2> QED
    BY <2>1
<1>3. rulesList' = f[DOMAIN rulesList] /\ ruleActionType' = ruleActionType
  BY FilterIter DEF handleDeleteEmailRule
<1> HIDE DEF f
<1>4. rulesList' \in Seq(Rules)
  BY <1>1, <1>2, <1>3, FilterKeepsSeq
<1> QED
  BY <1>3, <1>4 DEF RulesInv, Rules, ActionOptions, Targets

LEMMA RulesStutter ==
  ASSUME RulesInv, UNCHANGED rulesList, ruleActionType' \in ActionOptions \cup {"FORWARD"}
  PROVE  RulesInv'
BY DEF RulesInv, Rules, ActionOptions, Targets

-----------------------------------------------------------------------------
(* Channels, auto-reply and the packets deposited.                         *)

ChannelsInv ==
  /\ forwardingList \subseteq Channels /\ IsFiniteSet(forwardingList)
  /\ autoReplyEnabled \in BOOLEAN

DepositInv ==
  /\ emails \in Seq({"Inbox", "Spam", "Trash"})
  /\ evaluated \in 0..MaxPackets

LEMMA ForwardStep ==
  ASSUME ChannelsInv, NEW toRecipient \in BOOLEAN, handleCreateForwarding(toRecipient)
  PROVE  ChannelsInv'
<1> DEFINE id == NextId(forwardingList)
           new == [id |-> id, toRecipient |-> toRecipient, keepCopy |-> TRUE]
<1>1. /\ forwardingList' = forwardingList \cup {new}
      /\ autoReplyEnabled' = autoReplyEnabled
  BY DEF handleCreateForwarding
<1>2. id \in Nat
  <2>1. \A f \in forwardingList : f.id \in Nat
    BY DEF ChannelsInv, Channels
  <2> QED
    BY <2>1, NextIdNat DEF ChannelsInv
<1> HIDE DEF id
<1>3. new \in Channels
  BY <1>2 DEF Channels
<1> HIDE DEF new
<1>4. IsFiniteSet(forwardingList')
  BY <1>1, FS_AddElement DEF ChannelsInv
<1> QED
  BY <1>1, <1>3, <1>4 DEF ChannelsInv, Channels

LEMMA UnforwardStep ==
  ASSUME ChannelsInv, NEW id, handleDeleteForwarding(id)
  PROVE  ChannelsInv'
<1>1. forwardingList' \subseteq forwardingList /\ autoReplyEnabled' = autoReplyEnabled
  BY DEF handleDeleteForwarding
<1>2. IsFiniteSet(forwardingList')
  BY <1>1, FS_Subset DEF ChannelsInv
<1> QED
  BY <1>1, <1>2 DEF ChannelsInv, Channels

LEMMA ChannelsStutter ==
  ASSUME ChannelsInv, UNCHANGED forwardingList, autoReplyEnabled' \in BOOLEAN
  PROVE  ChannelsInv'
BY DEF ChannelsInv, Channels

LEMMA DepositStep ==
  ASSUME RulesInv, DepositInv, NEW packet \in Packets,
         handleSimulateIncomingEmail(packet)
  PROVE  DepositInv'
<1> DEFINE folder == DepositFolder(packet)
           S == {"Inbox", "Spam", "Trash"}
<1>1. /\ emails' = emails \/ emails' = <<folder>> \o emails
      /\ evaluated' = evaluated + 1 /\ evaluated < MaxPackets
  BY DEF handleSimulateIncomingEmail
<1>2. folder \in S /\ emails \in Seq(S)
  BY FolderType DEF DepositInv
<1> HIDE DEF folder, S
<1>3. <<folder>> \in Seq(S)
  BY <1>2
<1>4. <<folder>> \o emails \in Seq(S)
  BY <1>2, <1>3, ConcatProperties
<1>5. evaluated' \in 0..MaxPackets
  BY <1>1, ConsoleAssumption DEF DepositInv
<1> QED
  BY <1>1, <1>2, <1>4, <1>5 DEF DepositInv, S

LEMMA DepositStutter ==
  ASSUME DepositInv, UNCHANGED <<emails, evaluated>>
  PROVE  DepositInv'
BY DEF DepositInv

-----------------------------------------------------------------------------
(* The console as a whole.                                                 *)

IInv == LedgerInv /\ RulesInv /\ ChannelsInv /\ DepositInv

LEMMA InitIInv == ConsoleInit => IInv
<1> SUFFICES ASSUME ConsoleInit PROVE IInv
  OBVIOUS
<1>1. LedgerInv
  BY LedgerInitInv DEF ConsoleInit
<1>2. RulesInv
  BY ConsoleAssumption DEF ConsoleInit, RulesInv
<1>3. ChannelsInv
  <2>1. IsFiniteSet({SeededChannel})
    BY FS_Singleton
  <2> QED
    BY <2>1, ConsoleAssumption DEF ConsoleInit, ChannelsInv
<1>4. DepositInv
  BY ConsoleAssumption DEF ConsoleInit, DepositInv
<1> QED
  BY <1>1, <1>2, <1>3, <1>4 DEF IInv

LEMMA NextIInv ==
  ASSUME IInv, [ConsoleNext]_vars
  PROVE  IInv'
<1> USE DEF IInv
<1>0. ruleActionType \in ActionOptions \cup {"FORWARD"} /\ autoReplyEnabled \in BOOLEAN
  BY DEF RulesInv, ChannelsInv
<1>1. CASE RuleForm
  <2>1. UNCHANGED <<emails, evaluated, forwardingList, autoReplyEnabled>>
    BY <1>1 DEF RuleForm, handleCreateEmailRule
  <2>2. UNCHANGED ledgerVars \/ Audit("RULE_CREATE")
    BY <1>1 DEF RuleForm, handleCreateEmailRule
  <2>3. RulesInv'
    <3>1. ASSUME NEW type \in ActionOptions \ {ShownAction}, ruleActionType' = type,
                 UNCHANGED rulesList
          PROVE  RulesInv'
      BY <3>1, RulesStutter
    <3> QED
      BY <1>1, <3>1, CreateKeepsRules DEF RuleForm
  <2> QED
    BY <1>0, <2>1, <2>2, <2>3, AuditStep, LedgerStutter, ChannelsStutter, DepositStutter
<1>2. CASE PacketSimulator
  BY <1>0, <1>2, LedgerStutter, RulesStutter, ChannelsStutter, DepositStep
     DEF PacketSimulator, handleSimulateIncomingEmail
<1>3. CASE RuleQueue
  <2>1. RulesInv'
    BY <1>3, DeleteKeepsRules DEF RuleQueue
  <2> QED
    BY <1>0, <1>3, <2>1, LedgerStutter, ChannelsStutter, DepositStutter
       DEF RuleQueue, handleDeleteEmailRule
<1>4. CASE AutoReplyForm
  <2>1. /\ UNCHANGED <<emails, evaluated, forwardingList, rulesList, ruleActionType>>
        /\ autoReplyEnabled' \in BOOLEAN
    BY <1>0, <1>4 DEF AutoReplyForm, handleUpdateAutoReply
  <2>2. UNCHANGED ledgerVars \/ Audit("AUTO_REPLY_UPDATE")
    BY <1>4 DEF AutoReplyForm, handleUpdateAutoReply
  <2> QED
    BY <1>0, <2>1, <2>2, AuditStep, LedgerStutter, RulesStutter, ChannelsStutter,
       DepositStutter
<1>5. CASE ForwardForm
  <2>1. /\ UNCHANGED <<emails, evaluated, rulesList, ruleActionType>>
        /\ Audit("FORWARD_CREATE")
    BY <1>5 DEF ForwardForm, handleCreateForwarding
  <2>2. ChannelsInv'
    BY <1>5, ForwardStep DEF ForwardForm
  <2> QED
    BY <1>0, <2>1, <2>2, AuditStep, RulesStutter, DepositStutter
<1>6. CASE ForwardTable
  <2>1. ChannelsInv'
    BY <1>6, UnforwardStep DEF ForwardTable
  <2> QED
    BY <1>0, <1>6, <2>1, LedgerStutter, RulesStutter, DepositStutter
       DEF ForwardTable, handleDeleteForwarding
<1>7. CASE LedgerTab
  <2>1. LedgerInv'
    BY <1>7, SweepStep, RestoreStep, TamperStep DEF LedgerTab, LedgerPanel
  <2>2. RulesInv' /\ ChannelsInv' /\ DepositInv'
    BY <1>0, <1>7, RulesStutter, ChannelsStutter, DepositStutter DEF LedgerTab
  <2> QED
    BY <2>1, <2>2
<1>8. CASE UNCHANGED vars
  BY <1>0, <1>8, LedgerStutter, RulesStutter, ChannelsStutter, DepositStutter DEF vars
<1> QED
  BY <1>1, <1>2, <1>3, <1>4, <1>5, <1>6, <1>7, <1>8 DEF ConsoleNext

LEMMA Invariant == ConsoleSpec => []IInv
<1>1. IInv /\ [ConsoleNext]_vars => IInv'
  BY NextIInv
<1> QED
  BY <1>1, InitIInv, PTL DEF ConsoleSpec

(* The state of the console keeps its types: every row is named by its     *)
(* place, every rule and channel by a number, and the mail lies in the     *)
(* three folders there are.                                                *)
THEOREM ConsoleTypeCorrect == ConsoleSpec => []ConsoleTypeOK
<1>1. IInv => ConsoleTypeOK
  BY DEF IInv, LedgerInv, RulesInv, ChannelsInv, DepositInv, ConsoleTypeOK
<1> QED
  BY <1>1, Invariant, PTL

(* A verdict that stands is true of the ledger as it is.                   *)
THEOREM VerdictIsTrue == ConsoleSpec => []VerdictStands
<1>1. IInv => VerdictStands
  BY DEF IInv, LedgerInv
<1> QED
  BY <1>1, Invariant, PTL

(* A row painted red does not match its digest.                            *)
THEOREM RedIsTrue == ConsoleSpec => []RedRowsMismatch
<1>1. IInv => RedRowsMismatch
  BY DEF IInv, LedgerInv
<1> QED
  BY <1>1, Invariant, PTL

(* A packet goes where the last rule that places it says, whatever rules    *)
(* have been added and deleted before.                                     *)
THEOREM LastRulePlaces == ConsoleSpec => []PlacedByLastRule
<1>1. IInv => PlacedByLastRule
  BY RulesDecide DEF IInv
<1> QED
  BY <1>1, Invariant, PTL

-----------------------------------------------------------------------------
(* The identity page.                                                      *)

AllClaims == [sub : Users, roles : SUBSET Roles, exp : Nat]

(* The session is whole and its parts are what they are called; the clock  *)
(* only goes forward, so that no token turns older than the bound.         *)
SessionOK ==
  /\ now \in Nat
  /\ \/ session = <<None, None, None>>
     \/ /\ loggedInUser \in Verified
        /\ simRefreshToken = loggedInUser
        /\ simToken \in AllClaims
        /\ simToken.sub = loggedInUser /\ simToken.roles = RolesOf[loggedInUser]
        /\ simToken.exp <= now + Lifetime

IdentityInv == SessionOK /\ AccessByRole

LEMMA ClaimsOf ==
  ASSUME NEW u \in Users, now \in Nat
  PROVE  /\ Claims(u) \in AllClaims
         /\ Claims(u).sub = u /\ Claims(u).roles = RolesOf[u]
         /\ Claims(u).exp = now + Lifetime
<1>1. RolesOf[u] \in SUBSET Roles /\ now + Lifetime \in Nat
  BY IdentityAssumption
<1> QED
  BY <1>1 DEF Claims, AllClaims

(* The three things that can happen to a session.                          *)
LEMMA SignedIn ==
  ASSUME SessionOK, NEW u \in Verified, now' = now,
         loggedInUser' = u, simToken' = Claims(u), simRefreshToken' = u
  PROVE  SessionOK'
<1>1. u \in Users /\ now \in Nat /\ now + Lifetime \in Nat
  BY IdentityAssumption DEF SessionOK
<1>2. /\ Claims(u) \in AllClaims /\ Claims(u).sub = u
      /\ Claims(u).roles = RolesOf[u] /\ Claims(u).exp = now + Lifetime
  BY <1>1, ClaimsOf
<1> QED
  BY <1>1, <1>2 DEF SessionOK

LEMMA SignedOut ==
  ASSUME SessionOK, now' = now,
         loggedInUser' = None, simToken' = None, simRefreshToken' = None
  PROVE  SessionOK'
BY DEF SessionOK, session

LEMMA SessionKept ==
  ASSUME SessionOK, UNCHANGED session, now' \in {now, now + 1}
  PROVE  SessionOK'
<1>1. now \in Nat /\ now' \in Nat /\ now' >= now /\ Lifetime \in Nat
  BY IdentityAssumption DEF SessionOK
<1>2. /\ loggedInUser' = loggedInUser /\ simToken' = simToken
      /\ simRefreshToken' = simRefreshToken
  BY DEF session
<1>3. CASE session = <<None, None, None>>
  BY <1>1, <1>3 DEF SessionOK
<1>4. CASE simToken \in AllClaims /\ simToken.exp <= now + Lifetime
  <2>1. simToken.exp \in Nat
    BY <1>4 DEF AllClaims
  <2>2. simToken.exp <= now' + Lifetime
    BY <1>1, <1>4, <2>1
  <2> QED
    BY <1>1, <1>2, <2>2 DEF SessionOK, session
<1> QED
  BY <1>3, <1>4 DEF SessionOK

(* The route test looks at the roles of the user shown, the page lists     *)
(* those of the token: the same, as long as the session is whole.          *)
LEMMA Decision ==
  ASSUME SessionOK, NEW resource \in Resources, resource # "/api/public/status"
  PROVE  ~Denied(resource) <=> /\ simToken # None
                               /\ simToken.roles \cap Required[resource] # {}
<1>1. /\ None \notin Users /\ None \notin AllClaims /\ Verified \subseteq Users
  BY IdentityAssumption DEF AllClaims
<1>2. CASE session = <<None, None, None>>
  BY <1>2 DEF Denied, session
<1>3. CASE /\ loggedInUser \in Verified /\ simToken \in AllClaims
           /\ simToken.roles = RolesOf[loggedInUser]
  <2>1. loggedInUser # None /\ simToken # None
    BY <1>1, <1>3
  <2>2. CASE resource = "/api/admin/dashboard"
    <3>1. Required[resource] = {"ROLE_ADMIN"}
      BY <2>2 DEF Required
    <3> QED
      BY <1>3, <2>1, <2>2, <3>1 DEF Denied
  <2>3. CASE resource = "/api/management/moderation"
    <3>1. Required[resource] = {"ROLE_ADMIN", "ROLE_MODERATOR"}
      BY <2>3 DEF Required, Resources
    <3> QED
      BY <1>3, <2>1, <2>3, <3>1 DEF Denied
  <2> QED
    BY <2>2, <2>3 DEF Resources
<1> QED
  BY <1>2, <1>3 DEF SessionOK

LEMMA IdentityInitInv == IdentityInit => IdentityInv
BY DEF IdentityInit, IdentityInv, SessionOK, AccessByRole, session

LEMMA IdentityNextInv ==
  ASSUME IdentityInv, [IdentityNext]_identityVars
  PROVE  IdentityInv'
<1> USE DEF IdentityInv
<1>1. ASSUME handleLogin PROVE IdentityInv'
  <2>1. SessionOK'
    BY <1>1, SignedIn DEF handleLogin
  <2> QED
    BY <1>1, <2>1 DEF handleLogin, AccessByRole
<1>2. ASSUME handleLogout PROVE IdentityInv'
  <2>1. SessionOK'
    BY <1>2, SignedOut DEF handleLogout
  <2> QED
    BY <1>2, <2>1 DEF handleLogout, AccessByRole
<1>3. ASSUME triggerRefreshJwtToken PROVE IdentityInv'
  <2>1. loggedInUser \in Verified /\ simRefreshToken = loggedInUser
    BY <1>3 DEF triggerRefreshJwtToken, SessionOK, session
  <2>2. SessionOK'
    BY <1>3, <2>1, SignedIn DEF triggerRefreshJwtToken, handleTriggerSessionRefresh
  <2> QED
    BY <1>3, <2>2 DEF triggerRefreshJwtToken, handleTriggerSessionRefresh, AccessByRole
<1>4. ASSUME UNCHANGED <<session, accessed>>, now' \in {now, now + 1}
      PROVE  IdentityInv'
  BY <1>4, SessionKept DEF AccessByRole
<1>5. ASSUME NEW resource \in Resources, testSecureRoleAccess(resource)
      PROVE  IdentityInv'
  <2>1. SessionOK'
    BY <1>5, SessionKept DEF testSecureRoleAccess
  <2>2. /\ accessed'.resource = resource /\ accessed'.granted = ~Denied(resource)
        /\ accessed'.claims = simToken
    BY <1>5 DEF testSecureRoleAccess
  <2>3. AccessByRole'
    BY <2>2, Decision DEF AccessByRole, Required
  <2> QED
    BY <2>1, <2>3
<1>6. CASE UserList
  BY <1>4, <1>6 DEF UserList
<1>7. CASE AuthPanel
  BY <1>1, <1>2, <1>3, <1>4, <1>7 DEF AuthPanel
<1>8. CASE ProfileBar
  BY <1>2, <1>8 DEF ProfileBar
<1>9. CASE RouteTest
  BY <1>5, <1>9 DEF RouteTest
<1>10. CASE Tick
  BY <1>4, <1>10 DEF Tick
<1>11. CASE UNCHANGED identityVars
  BY <1>4, <1>11 DEF identityVars
<1> QED
  BY <1>6, <1>7, <1>8, <1>9, <1>10, <1>11 DEF IdentityNext

LEMMA IdentityInvariant == IdentitySpec => []IdentityInv
<1>1. IdentityInv /\ [IdentityNext]_identityVars => IdentityInv'
  BY IdentityNextInv
<1> QED
  BY <1>1, IdentityInitInv, PTL DEF IdentitySpec

(* Signed out means that no token is left, signed in that both tokens are  *)
(* the shown user's, whichever controls were used before.                  *)
THEOREM SessionStaysWhole == IdentitySpec => []SessionWhole
<1>1. IdentityInv => SessionWhole
  BY DEF IdentityInv, SessionOK, SessionWhole
<1> QED
  BY <1>1, IdentityInvariant, PTL

(* A protected route opens exactly to a token with a role listed for it.   *)
THEOREM RolesDecideAccess == IdentitySpec => []AccessByRole
<1>1. IdentityInv => AccessByRole
  BY DEF IdentityInv
<1> QED
  BY <1>1, IdentityInvariant, PTL
=============================================================================
