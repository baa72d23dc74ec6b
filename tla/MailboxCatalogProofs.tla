------------------------ MODULE MailboxCatalogProofs ------------------------
(***************************************************************************)
(* Theorems about MailboxCatalog: addresses and standard folders are       *)
(* unique, whatever transactions overlap.                                  *)
(***************************************************************************)
EXTENDS MailboxCatalog, TLAPS

(* What an open transaction of createMailbox holds: an address and, after  *)
(* its INSERT, an id that no visible mailbox and no other one has.         *)
OpenMailboxes ==
  /\ \A w \in Worker : requests[w].pc = "addressFree" =>
       requests[w].address \in Address
  /\ \A w \in Worker : requests[w].pc = "mailboxInserted" =>
       /\ requests[w].address \in Address
       /\ requests[w].mailbox \in Mailbox \ Created
  /\ \A v, w \in Worker :
       /\ requests[v].pc = "mailboxInserted"
       /\ requests[w].pc = "mailboxInserted"
       /\ requests[v].mailbox = requests[w].mailbox
       => v = w

(* What an open transaction of createFolder holds: a visible mailbox and a *)
(* name that is not a standard one, for a visible mailbox has all of them. *)
OpenFolders ==
  \A w \in Worker : requests[w].pc = "nameFree" =>
    /\ requests[w].mailbox \in Created
    /\ requests[w].name \in Name \ SystemName

(* Folders come after their mailbox.                                       *)
NoOrphans == \A m \in Mailbox \ Created, n \in Name : folderRows[m][n] = 0

CatalogInv ==
  /\ TypeOK /\ AddressUnique /\ SystemFoldersUnique
  /\ OpenMailboxes /\ OpenFolders /\ NoOrphans

-----------------------------------------------------------------------------
(* An idle transaction holds nothing.                                      *)
LEMMA IdleHoldsNothing ==
  /\ Idle \in RequestState
  /\ Idle.pc = "idle"
BY DEF Idle, RequestState, Phases

(* The system starts empty.                                                *)
LEMMA CatalogInit == Init => CatalogInv
<1> SUFFICES ASSUME Init PROVE CatalogInv
  OBVIOUS
<1> USE IdleHoldsNothing
<1>1. Created = {}
  BY DEF Init, Created
<1>2. TypeOK
  BY DEF Init, TypeOK
<1>3. \A w \in Worker : requests[w].pc = "idle"
  BY DEF Init
<1>4. Locked = {} /\ AddressUnique
  BY <1>1, <1>3 DEF AddressUnique, Locked
<1>5. SystemFoldersUnique
  BY <1>1 DEF SystemFoldersUnique
<1>6. OpenMailboxes /\ OpenFolders
  BY <1>3 DEF OpenMailboxes, OpenFolders
<1>7. NoOrphans
  BY DEF Init, NoOrphans
<1> QED
  BY <1>2, <1>4, <1>5, <1>6, <1>7 DEF CatalogInv

(* A transaction that becomes idle releases what it held.                  *)
LEMMA Released ==
  ASSUME CatalogInv, NEW w \in Worker, Become(w, Idle),
         UNCHANGED <<mailboxes, folderRows>>
  PROVE  CatalogInv'
<1> USE IdleHoldsNothing DEF CatalogInv, Become
<1>1. requests' \in [Worker -> RequestState]
  BY DEF TypeOK
<1>2. \A v \in Worker : requests'[v] = requests[v] \/ requests'[v].pc = "idle"
  BY DEF TypeOK
<1>3. Created' = Created /\ Registered' = Registered
  BY DEF Created, Registered
<1>4. Locked' \subseteq Locked
  BY <1>2 DEF Locked
<1>5. TypeOK' /\ SystemFoldersUnique' /\ NoOrphans'
  BY <1>1, <1>3 DEF TypeOK, SystemFoldersUnique, NoOrphans
<1>6. AddressUnique'
  BY <1>2, <1>3, <1>4 DEF AddressUnique
<1>7. OpenMailboxes' /\ OpenFolders'
  BY <1>2, <1>3 DEF OpenMailboxes, OpenFolders
<1> QED
  BY <1>5, <1>6, <1>7

(* Every step keeps the invariant.                                         *)
LEMMA CatalogStep == CatalogInv /\ [Next]_vars => CatalogInv'
<1> SUFFICES ASSUME CatalogInv, [Next]_vars PROVE CatalogInv'
  OBVIOUS
<1> USE CatalogAssumption DEF CatalogInv
<1> DEFINE Kept(w) == \A v \in Worker \ {w} : requests'[v] = requests[v]
<1>1. ASSUME NEW w \in Worker, NEW a \in Address, CheckAddress(w, a)
      PROVE  CatalogInv'
  <2> DEFINE q == [Idle EXCEPT !.pc = "addressFree", !.address = a]
  <2>1. q \in RequestState /\ q.pc = "addressFree" /\ q.address = a
    BY DEF Idle, RequestState, Phases
  <2> HIDE DEF q
  <2>2. requests'[w] = q /\ Kept(w) /\ requests' \in [Worker -> RequestState]
    BY <1>1, <2>1 DEF CheckAddress, Become, TypeOK, q
  <2>3. UNCHANGED <<mailboxes, folderRows>>
    BY <1>1 DEF CheckAddress
  <2>4. Created' = Created /\ Registered' = Registered
    BY <2>3 DEF Created, Registered
  <2>5. Locked' \subseteq Locked
    BY <2>1, <2>2 DEF Locked
  <2>6. TypeOK' /\ SystemFoldersUnique' /\ NoOrphans'
    BY <2>2, <2>3, <2>4 DEF TypeOK, SystemFoldersUnique, NoOrphans
  <2>7. AddressUnique'
    BY <2>1, <2>2, <2>3, <2>4, <2>5 DEF AddressUnique
  <2>8. OpenMailboxes' /\ OpenFolders'
    BY <2>1, <2>2, <2>4 DEF OpenMailboxes, OpenFolders
  <2> QED
    BY <2>6, <2>7, <2>8
<1>2. ASSUME NEW w \in Worker, NEW m \in Mailbox, NEW n \in Name,
             CheckName(w, m, n)
      PROVE  CatalogInv'
  <2> DEFINE q == [Idle EXCEPT !.pc = "nameFree", !.mailbox = m, !.name = n]
  <2>1. /\ q \in RequestState /\ q.pc = "nameFree"
        /\ q.mailbox = m /\ q.name = n
    BY DEF Idle, RequestState, Phases
  <2> HIDE DEF q
  <2>2. requests'[w] = q /\ Kept(w) /\ requests' \in [Worker -> RequestState]
    BY <1>2, <2>1 DEF CheckName, Become, TypeOK, q
  <2>3. UNCHANGED <<mailboxes, folderRows>>
    BY <1>2 DEF CheckName
  <2>4. Created' = Created /\ Registered' = Registered
    BY <2>3 DEF Created, Registered
  <2>5. Locked' \subseteq Locked
    BY <2>1, <2>2 DEF Locked
  <2>6. TypeOK' /\ SystemFoldersUnique' /\ NoOrphans'
    BY <2>2, <2>3, <2>4 DEF TypeOK, SystemFoldersUnique, NoOrphans
  <2>7. AddressUnique'
    BY <2>1, <2>2, <2>3, <2>4, <2>5 DEF AddressUnique
  <2>8. m \in Created /\ n \notin SystemName
    BY <1>2 DEF CheckName, SystemFoldersUnique
  <2>9. OpenMailboxes' /\ OpenFolders'
    BY <2>1, <2>2, <2>4, <2>8 DEF OpenMailboxes, OpenFolders
  <2> QED
    BY <2>6, <2>7, <2>9
<1>3. ASSUME NEW w \in Worker, InsertMailbox(w)
      PROVE  CatalogInv'
  <2> PICK m \in Mailbox \ (Created \cup Pending) :
        Become(w, [requests[w] EXCEPT !.pc = "mailboxInserted", !.mailbox = m])
    BY <1>3 DEF InsertMailbox
  <2> DEFINE a == requests[w].address
             q == [requests[w] EXCEPT !.pc = "mailboxInserted", !.mailbox = m]
  <2>1. requests[w] \in RequestState /\ a \in Address
    BY <1>3 DEF InsertMailbox, TypeOK, OpenMailboxes
  <2>2. /\ q \in RequestState /\ q.pc = "mailboxInserted"
        /\ q.mailbox = m /\ q.address = a
    BY <2>1 DEF RequestState, Phases
  <2>3. a \notin Locked \cup Registered
    BY <1>3 DEF InsertMailbox
  <2> HIDE DEF q, a
  <2>4. requests'[w] = q /\ Kept(w) /\ requests' \in [Worker -> RequestState]
    BY <2>2 DEF Become, TypeOK, q
  <2>5. UNCHANGED <<mailboxes, folderRows>>
    BY <1>3 DEF InsertMailbox
  <2>6. Created' = Created /\ Registered' = Registered
    BY <2>5 DEF Created, Registered
  <2>7. Locked' \subseteq Locked \cup {a}
    BY <2>2, <2>4 DEF Locked
  <2>8. TypeOK' /\ SystemFoldersUnique' /\ NoOrphans'
    BY <2>4, <2>5, <2>6 DEF TypeOK, SystemFoldersUnique, NoOrphans
  <2>9. \A v \in Worker \ {w} : requests[v].pc = "mailboxInserted" =>
          requests[v].address # a /\ requests[v].mailbox # m
    BY <2>3 DEF Locked, Pending
  <2>10. AddressUnique'
    BY <2>2, <2>3, <2>4, <2>5, <2>6, <2>7, <2>9 DEF AddressUnique
  <2>11. OpenMailboxes' /\ OpenFolders'
    BY <2>1, <2>2, <2>4, <2>6, <2>9 DEF OpenMailboxes, OpenFolders
  <2> QED
    BY <2>8, <2>10, <2>11
<1>4. ASSUME NEW w \in Worker, CommitMailbox(w)
      PROVE  CatalogInv'
  <2> DEFINE m == requests[w].mailbox
             a == requests[w].address
  <2>1. m \in Mailbox \ Created /\ a \in Address /\ a \notin Registered
    BY <1>4 DEF CommitMailbox, OpenMailboxes, AddressUnique, Locked
  <2>2. /\ mailboxes' = [mailboxes EXCEPT ![m] = a]
        /\ folderRows' = [folderRows EXCEPT ![m] =
                            [n \in Name |-> @[n] + Defaults[n]]]
        /\ Become(w, Idle) /\ requests[w].pc = "mailboxInserted"
    BY <1>4 DEF CommitMailbox
  <2>3. \A v \in Worker \ {w} : requests[v].pc = "mailboxInserted" =>
          requests[v].address # a /\ requests[v].mailbox # m
    BY <2>2 DEF AddressUnique, OpenMailboxes
  <2> HIDE DEF m, a
  <2>4. /\ requests'[w].pc = "idle" /\ Kept(w)
        /\ requests' \in [Worker -> RequestState]
    BY <2>2, IdleHoldsNothing DEF Become, TypeOK
  <2>5. /\ mailboxes' \in [Mailbox -> Address \cup {None}]
        /\ mailboxes'[m] = a
        /\ \A o \in Mailbox \ {m} : mailboxes'[o] = mailboxes[o]
    BY <2>1, <2>2 DEF TypeOK
  <2>6. Created' = Created \cup {m} /\ Registered' = Registered \cup {a}
    <3>1. Created' = Created \cup {m}
      BY <2>1, <2>5 DEF Created
    <3>2. \A o \in Created : o # m
      BY <2>1
    <3> QED
      BY <2>1, <2>5, <3>1, <3>2 DEF Registered, Created
  <2>7. /\ folderRows' \in [Mailbox -> [Name -> Nat]]
        /\ \A n \in Name : folderRows'[m][n] = folderRows[m][n] + Defaults[n]
        /\ \A o \in Mailbox \ {m} : folderRows'[o] = folderRows[o]
    <3>1. folderRows \in [Mailbox -> [Name -> Nat]]
      BY DEF TypeOK
    <3>2. Defaults \in [Name -> Nat]
      BY DEF Defaults
    <3>3. [n \in Name |-> folderRows[m][n] + Defaults[n]] \in [Name -> Nat]
      BY <2>1, <3>1, <3>2
    <3> QED
      BY <2>1, <2>2, <3>1, <3>3
  <2>8. Locked' \subseteq Locked /\ a \notin Locked'
    BY <2>3, <2>4 DEF Locked
  <2>9. TypeOK'
    BY <2>4, <2>5, <2>7 DEF TypeOK
  <2>10. AddressUnique'
    <3>1. \A o, p \in Created' : mailboxes'[o] = mailboxes'[p] => o = p
      BY <2>1, <2>5, <2>6 DEF AddressUnique, Registered, Created
    <3>2. Locked' \cap Registered' = {}
      BY <2>6, <2>8 DEF AddressUnique
    <3>3. \A v, u \in Worker :
            /\ requests'[v].pc = "mailboxInserted"
            /\ requests'[u].pc = "mailboxInserted"
            /\ requests'[v].address = requests'[u].address
            => v = u
      BY <2>4 DEF AddressUnique
    <3> QED
      BY <3>1, <3>2, <3>3 DEF AddressUnique
  <2>11. SystemFoldersUnique'
    <3>1. ASSUME NEW n \in SystemName PROVE folderRows'[m][n] = 1
      <4>1. n \in Name /\ Defaults[n] = 1
        BY DEF Defaults, Name
      <4>2. folderRows[m][n] = 0
        BY <2>1, <4>1 DEF NoOrphans
      <4> QED
        BY <2>7, <4>1, <4>2
    <3>2. \A o \in Created, n \in SystemName : folderRows'[o][n] = 1
      BY <2>1, <2>7 DEF SystemFoldersUnique, Created
    <3> QED
      BY <2>6, <3>1, <3>2 DEF SystemFoldersUnique
  <2>12. OpenMailboxes' /\ OpenFolders'
    BY <2>3, <2>4, <2>6 DEF OpenMailboxes, OpenFolders
  <2>13. NoOrphans'
    BY <2>6, <2>7 DEF NoOrphans
  <2> QED
    BY <2>9, <2>10, <2>11, <2>12, <2>13
<1>5. ASSUME NEW w \in Worker, CommitFolder(w)
      PROVE  CatalogInv'
  <2> DEFINE m == requests[w].mailbox
             f == requests[w].name
  <2>1. m \in Created /\ f \in Name \ SystemName
    BY <1>5 DEF CommitFolder, OpenFolders
  <2>2. /\ folderRows' = [folderRows EXCEPT ![m][f] = @ + 1]
        /\ mailboxes' = mailboxes /\ Become(w, Idle)
    BY <1>5 DEF CommitFolder
  <2> HIDE DEF m, f
  <2>3. /\ requests'[w].pc = "idle" /\ Kept(w)
        /\ requests' \in [Worker -> RequestState]
    BY <2>2, IdleHoldsNothing DEF Become, TypeOK
  <2>4. Created' = Created /\ Registered' = Registered
    BY <2>2 DEF Created, Registered
  <2>5. m \in Mailbox
    BY <2>1 DEF Created
  <2>6. /\ folderRows' \in [Mailbox -> [Name -> Nat]]
        /\ \A o \in Mailbox, n \in Name :
             o # m \/ n # f => folderRows'[o][n] = folderRows[o][n]
    BY <2>1, <2>2, <2>5 DEF TypeOK
  <2>7. Locked' \subseteq Locked
    BY <2>3 DEF Locked
  <2>8. TypeOK'
    BY <2>2, <2>3, <2>6 DEF TypeOK
  <2>9. AddressUnique'
    BY <2>2, <2>3, <2>4, <2>7 DEF AddressUnique
  <2>10. SystemFoldersUnique'
    BY <2>1, <2>4, <2>6 DEF SystemFoldersUnique, Created, Name
  <2>11. OpenMailboxes' /\ OpenFolders'
    BY <2>3, <2>4 DEF OpenMailboxes, OpenFolders
  <2>12. NoOrphans'
    BY <2>1, <2>4, <2>6 DEF NoOrphans
  <2> QED
    BY <2>8, <2>9, <2>10, <2>11, <2>12
<1>6. ASSUME NEW w \in Worker, RejectMailbox(w) \/ Rollback(w)
      PROVE  CatalogInv'
  <2>1. Become(w, Idle) /\ UNCHANGED <<mailboxes, folderRows>>
    BY <1>6 DEF RejectMailbox, Rollback
  <2> QED
    BY <2>1, Released
<1>7. CASE UNCHANGED vars
  <2>1. UNCHANGED <<mailboxes, folderRows, requests>>
    BY <1>7 DEF vars
  <2>2. UNCHANGED <<Created, Registered, Locked>>
    BY <2>1 DEF Created, Registered, Locked
  <2>3. TypeOK' /\ SystemFoldersUnique' /\ NoOrphans'
    BY <2>1, <2>2 DEF TypeOK, SystemFoldersUnique, NoOrphans
  <2>4. AddressUnique'
    BY <2>1, <2>2 DEF AddressUnique
  <2>5. OpenMailboxes' /\ OpenFolders'
    BY <2>1, <2>2 DEF OpenMailboxes, OpenFolders
  <2> QED
    BY <2>3, <2>4, <2>5
<1>8. CASE Next
  <2> PICK w \in Worker :
        \/ \E a \in Address : CheckAddress(w, a)
        \/ \E m \in Mailbox, n \in Name : CheckName(w, m, n)
        \/ InsertMailbox(w) \/ RejectMailbox(w) \/ CommitMailbox(w)
        \/ CommitFolder(w) \/ Rollback(w) \/ Refuse(w)
    BY <1>8 DEF Next
  <2>1. CASE \E a \in Address : CheckAddress(w, a)
    BY <1>1, <2>1
  <2>2. CASE \E m \in Mailbox, n \in Name : CheckName(w, m, n)
    BY <1>2, <2>2
  <2>3. CASE InsertMailbox(w) \/ CommitMailbox(w) \/ CommitFolder(w)
    BY <1>3, <1>4, <1>5, <2>3
  <2>4. CASE RejectMailbox(w) \/ Rollback(w)
    BY <1>6, <2>4
  <2>5. CASE Refuse(w)
    BY <1>7, <2>5 DEF Refuse
  <2> QED
    BY <2>1, <2>2, <2>3, <2>4, <2>5
<1> QED
  BY <1>7, <1>8

(* The invariant holds in every reachable state.                           *)
LEMMA CatalogInvariant == Spec => []CatalogInv
BY CatalogInit, CatalogStep, PTL DEF Spec

(* The tables and the open transactions keep their types.                  *)
THEOREM CatalogTypeCorrect == Spec => []TypeOK
<1>1. CatalogInv => TypeOK
  BY DEF CatalogInv
<1> QED
  BY CatalogInvariant, <1>1, PTL

(* createMailbox never gives an address twice, for any number of           *)
(* concurrent registrations: the check alone does not ensure it, the       *)
(* unique index does.                                                      *)
THEOREM AddressesUnique == Spec => []AddressUnique
<1>1. CatalogInv => AddressUnique
  BY DEF CatalogInv
<1> QED
  BY CatalogInvariant, <1>1, PTL

(* No constraint guards folder names, and yet createFolder never adds a    *)
(* second Inbox or Trash: every visible mailbox already has one.           *)
THEOREM StandardFoldersUnique == Spec => []SystemFoldersUnique
<1>1. CatalogInv => SystemFoldersUnique
  BY DEF CatalogInv
<1> QED
  BY CatalogInvariant, <1>1, PTL
=============================================================================
