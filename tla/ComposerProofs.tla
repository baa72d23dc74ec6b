--------------------------- MODULE ComposerProofs ---------------------------
(***************************************************************************)
(* Theorems about Composer, for any number of compositions and files and   *)
(* any number of clicks on a leaving window.                               *)
(***************************************************************************)
EXTENDS Composer, SequenceTheorems, TLAPS

Clearing == {"reply", "replyAll", "quickDraft"}

(* The window is open while the last composition is, and no other is open. *)
OneOpen ==
  /\ isComposeOpen => composition # 0 /\ fates[composition] = "open"
  /\ \A c \in 1..composition : fates[c] = "open" => c = composition /\ isComposeOpen

(* Nothing that has been dispatched is in the queue.                       *)
QueueIsUnsent == \A i \in Dispatched : outbox[i].files \cap uploadedFiles = {}

(* A reply or quick draft being written has only its own files queued.     *)
QueueIsOwn ==
  isComposeOpen /\ opener \in Clearing =>
    \A f \in uploadedFiles : attachedTo[f] = composition

QueueInv ==
  /\ QueueTypes /\ OneOpen
  /\ FileSentOnceUnlessLate /\ QueueIsUnsent
  /\ NothingLeftBehind
  /\ RepliesCarryTheirOwn /\ QueueIsOwn

(* Files a window of the last composition may hand over: its own, if it is *)
(* a reply, and dispatched by no other composition.                        *)
Fit(files) ==
  /\ composition # 0
  /\ files \subseteq 1..Len(attachedTo)
  /\ opener \in Clearing => \A f \in files : attachedTo[f] = composition
  /\ \A i \in Dispatched :
       outbox[i].files \cap files # {} => outbox[i].composition = composition

WindowInv ==
  /\ WindowType
  /\ leavingWindow # NoWindow => ~isComposeOpen /\ Fit(leavingWindow.files)

IInv == QueueInv /\ WindowInv

(* A step within a composition: nothing is forgotten, and a new message is *)
(* the composition's own.                                                  *)
Kept ==
  /\ composition' = composition /\ opener' = opener
  /\ \A f \in 1..Len(attachedTo) : /\ f \in 1..Len(attachedTo')
                                   /\ attachedTo'[f] = attachedTo[f]
  /\ \A i \in Dispatched' : \/ i \in Dispatched /\ outbox'[i] = outbox[i]
                            \/ outbox'[i].composition = composition

-----------------------------------------------------------------------------
LEMMA InitIInv == ComposerInit => IInv
<1> SUFFICES ASSUME ComposerInit PROVE IInv
  OBVIOUS
<1>1. /\ fates = <<>> /\ opener = "none" /\ attachedTo = <<>> /\ uploadedFiles = {}
      /\ outbox = <<>> /\ isComposeOpen = FALSE /\ compSchedule = FALSE
      /\ leavingWindow = NoWindow
  BY DEF ComposerInit
<1>2. QueueTypes
  <2>1. Len(fates) = 0 /\ Len(attachedTo) = 0
    BY <1>1
  <2>2. fates \in Seq(Fates) /\ attachedTo \in Seq(0..0) /\ opener \in Openers
    BY <1>1 DEF Openers
  <2>3. outbox \in Seq(Messages(composition, Len(attachedTo)))
    BY <1>1
  <2> QED
    BY <1>1, <2>1, <2>2, <2>3 DEF QueueTypes, composition
<1>3. WindowInv
  BY <1>1, ComposerAssumption DEF WindowInv, WindowType, NoWindow
<1>4. DOMAIN outbox = {} /\ Dispatched = {}
  BY <1>1 DEF Dispatched
<1> QED
  BY <1>1, <1>2, <1>3, <1>4 DEF IInv, QueueInv, OneOpen, FileSentOnceUnlessLate,
     QueueIsUnsent, NothingLeftBehind, RepliesCarryTheirOwn, QueueIsOwn, composition

(* What the sequences hold.                                                *)
LEMMA TypeFacts ==
  ASSUME QueueTypes
  PROVE  /\ composition \in Nat /\ Len(attachedTo) \in Nat
         /\ DOMAIN fates = 1..composition
         /\ \A c \in 1..composition : fates[c] \in Fates
         /\ \A f \in 1..Len(attachedTo) : attachedTo[f] \in 0..composition
         /\ Len(outbox) \in Nat /\ DOMAIN outbox = 1..Len(outbox)
         /\ \A i \in DOMAIN outbox : /\ outbox[i].composition \in 1..composition
                                     /\ outbox[i].files \subseteq 1..Len(attachedTo)
<1>1. composition \in Nat /\ DOMAIN fates = 1..composition /\ Len(attachedTo) \in Nat
      /\ \A c \in 1..composition : fates[c] \in Fates
  BY DEF QueueTypes, composition
<1>2. \A f \in 1..Len(attachedTo) : attachedTo[f] \in 0..composition
  BY ElementOfSeq DEF QueueTypes
<1>3. /\ Len(outbox) \in Nat /\ DOMAIN outbox = 1..Len(outbox)
      /\ \A i \in 1..Len(outbox) :
           outbox[i] \in Messages(composition, Len(attachedTo))
  BY DEF QueueTypes
<1> QED
  BY <1>1, <1>2, <1>3 DEF Messages

(* More compositions or files do not make a message ill-typed.             *)
LEMMA OutboxType ==
  ASSUME QueueTypes, NEW c \in Nat, NEW n \in Nat,
         composition <= c, Len(attachedTo) <= n
  PROVE  outbox \in Seq(Messages(c, n))
<1> DEFINE Old == Messages(composition, Len(attachedTo))
           New == Messages(c, n)
<1>1. 1..composition \subseteq 1..c /\ 1..Len(attachedTo) \subseteq 1..n
  BY TypeFacts
<1>2. Old \subseteq New
  BY <1>1 DEF Messages
<1>3. outbox \in Seq(Old)
  BY DEF QueueTypes
<1> QED
  BY <1>2, <1>3, SeqMonotonic

-----------------------------------------------------------------------------
(* The window that leaves.                                                 *)

LEMMA OpenFit ==
  ASSUME QueueInv, isComposeOpen
  PROVE  Fit(uploadedFiles)
BY DEF QueueInv, QueueTypes, OneOpen, QueueIsUnsent, QueueIsOwn, Fit

LEMMA FitStays ==
  ASSUME QueueTypes, NEW files, Fit(files), Kept
  PROVE  Fit(files)'
<1>1. files \subseteq 1..Len(attachedTo')
  BY DEF Fit, Kept
<1>2. \A f \in files : attachedTo'[f] = attachedTo[f]
  BY DEF Fit, Kept
<1>3. \A i \in Dispatched' :
        outbox'[i].files \cap files # {} => outbox'[i].composition = composition
  BY DEF Fit, Kept
<1> QED
  BY <1>1, <1>2, <1>3 DEF Fit, Kept

LEMMA PresenceStep ==
  ASSUME IInv, Kept, AnimatePresence
  PROVE  WindowInv'
<1> DEFINE Types(files, scheduled, clicks) ==
             /\ files \subseteq 1..Len(attachedTo') /\ scheduled \in BOOLEAN
             /\ clicks \in 0..MaxExitClicks
<1>1. QueueTypes /\ WindowType
  BY DEF IInv, QueueInv, WindowInv
<1>2. leavingWindow' = NoWindow => WindowInv'
  BY ComposerAssumption DEF WindowInv, WindowType, NoWindow
<1>3. CASE ~isComposeOpen' /\ isComposeOpen
  <2>1. leavingWindow' = Rendered
    BY <1>3 DEF AnimatePresence
  <2>2. PICK files : files = uploadedFiles
    OBVIOUS
  <2>3. Fit(files)'
    BY <1>1, <1>3, <2>2, OpenFit, FitStays DEF IInv
  <2>4. WindowType'
    BY <1>1, <2>1, <2>2, <2>3, ComposerAssumption
    DEF WindowType, QueueTypes, Rendered, Fit
  <2>5. leavingWindow'.files = files
    BY <2>1, <2>2 DEF Rendered
  <2>6. Fit(leavingWindow.files)'
    BY <2>3, <2>5 DEF Fit
  <2> QED
    BY <1>3, <2>4, <2>6 DEF WindowInv
<1>4. CASE ~isComposeOpen' /\ ~isComposeOpen /\ leavingWindow.clicks > 1
  <2>1. leavingWindow' = [leavingWindow EXCEPT !.clicks = @ - 1]
    BY <1>4 DEF AnimatePresence
  <2>2. leavingWindow # NoWindow
    BY <1>4 DEF NoWindow
  <2>3. PICK files : files = leavingWindow.files
    OBVIOUS
  <2>4. Fit(files)'
    BY <1>1, <2>2, <2>3, FitStays DEF IInv, WindowInv
  <2>5. /\ leavingWindow'.files = files
        /\ leavingWindow' = [files |-> files, scheduled |-> leavingWindow.scheduled,
                             clicks |-> leavingWindow.clicks - 1]
    BY <1>1, <2>1, <2>3 DEF WindowType
  <2>6. leavingWindow.scheduled \in BOOLEAN /\ leavingWindow.clicks - 1 \in 0..MaxExitClicks
    BY <1>1, <1>4, ComposerAssumption DEF WindowType
  <2>7. files \subseteq 1..Len(attachedTo')
    BY <2>4 DEF Fit
  <2>8. WindowType'
    BY <2>5, <2>6, <2>7 DEF WindowType
  <2>9. Fit(leavingWindow.files)'
    BY <2>4, <2>5 DEF Fit
  <2> QED
    BY <1>4, <2>8, <2>9 DEF WindowInv
<1> QED
  BY <1>2, <1>3, <1>4 DEF AnimatePresence

-----------------------------------------------------------------------------
(* Opening: the number after the last one, and a queue kept or emptied.    *)
LEMMA OpenStep ==
  ASSUME IInv, NEW how \in Openers, NEW files \in SUBSET uploadedFiles,
         how \in Clearing => files = {}, Open(how, files), AnimatePresence
  PROVE  IInv'
<1> DEFINE fates1 == [c \in DOMAIN fates |-> IF fates[c] = "open" THEN "replaced" ELSE fates[c]]
<1> USE DEF Fates
<1>1. QueueTypes
  BY DEF IInv, QueueInv
<1>2. /\ fates1 \in Seq(Fates) /\ Len(fates1) = composition
      /\ \A c \in 1..composition :
           fates1[c] = IF fates[c] = "open" THEN "replaced" ELSE fates[c]
  <2>1. fates1 \in [1..composition -> Fates]
    BY <1>1, TypeFacts
  <2> QED
    BY <1>1, <2>1, TypeFacts DEF composition
<1>3. /\ fates' = Append(fates1, "open") /\ opener' = how
      /\ compSchedule' = FALSE /\ uploadedFiles' = files /\ isComposeOpen' = TRUE
      /\ UNCHANGED <<outbox, attachedTo>>
  BY DEF Open
<1> HIDE DEF fates1
<1>4. /\ fates' \in Seq(Fates) /\ composition' = composition + 1
      /\ fates'[composition + 1] = "open"
      /\ \A c \in 1..composition :
           fates'[c] = IF fates[c] = "open" THEN "replaced" ELSE fates[c]
  BY <1>1, <1>2, <1>3, TypeFacts DEF composition
<1>5. QueueTypes'
  <2>1. attachedTo \in Seq(0..composition + 1)
    BY <1>1, TypeFacts DEF QueueTypes
  <2>2. outbox \in Seq(Messages(composition + 1, Len(attachedTo)))
    BY <1>1, TypeFacts, OutboxType
  <2>3. uploadedFiles' \subseteq 1..Len(attachedTo')
    BY <1>1, <1>3 DEF QueueTypes
  <2>4. compSchedule' \in BOOLEAN /\ isComposeOpen' \in BOOLEAN /\ opener' \in Openers
    BY <1>3
  <2>5. attachedTo' = attachedTo /\ outbox' = outbox
    BY <1>3
  <2> QED
    BY <1>4, <2>1, <2>2, <2>3, <2>4, <2>5 DEF QueueTypes
<1>6. OneOpen'
  <2>1. composition \in Nat
    BY <1>1, TypeFacts
  <2>2. \A c \in 1..composition + 1 : fates'[c] = "open" => c = composition + 1
    BY <1>4, <2>1
  <2>3. isComposeOpen'
    BY <1>3
  <2>4. composition' # 0 /\ fates'[composition'] = "open"
    BY <1>4, <2>1
  <2>5. \A c \in 1..composition' : fates'[c] = "open" => c = composition'
    BY <1>4, <2>2
  <2> QED
    BY <2>3, <2>4, <2>5 DEF OneOpen
<1>7. FileSentOnceUnlessLate' /\ QueueIsUnsent'
  BY <1>3 DEF IInv, QueueInv, FileSentOnceUnlessLate, QueueIsUnsent, Dispatched
<1>8. NothingLeftBehind'
  <2>1. SUFFICES ASSUME NEW f \in uploadedFiles', attachedTo'[f] # 0
                 PROVE  fates'[attachedTo'[f]] \in {"open", "replaced", "draft"}
    BY DEF NothingLeftBehind
  <2>2. f \in uploadedFiles /\ attachedTo'[f] = attachedTo[f]
    BY <1>3
  <2>3. attachedTo[f] \in 1..composition
    BY <1>1, <2>1, <2>2, TypeFacts DEF QueueTypes
  <2>4. fates[attachedTo[f]] \in {"open", "replaced", "draft"}
    BY <2>1, <2>2 DEF IInv, QueueInv, NothingLeftBehind
  <2> QED
    BY <1>4, <2>2, <2>3, <2>4
<1>9. RepliesCarryTheirOwn'
  BY <1>3 DEF IInv, QueueInv, RepliesCarryTheirOwn
<1>10. QueueIsOwn'
  BY <1>3 DEF QueueIsOwn
<1>11. WindowInv'
  BY <1>3, ComposerAssumption DEF AnimatePresence, WindowInv, WindowType, NoWindow
<1> QED
  BY <1>5, <1>6, <1>7, <1>8, <1>9, <1>10, <1>11 DEF IInv, QueueInv

-----------------------------------------------------------------------------
(* The controls of a window.                                               *)

LEMMA AttachStep ==
  ASSUME QueueInv, composition # 0, NEW n \in 1..MaxFiles, AttachFiles(n)
  PROVE  QueueInv' /\ Kept
<1> DEFINE c == IF isComposeOpen THEN composition ELSE 0
           new == [i \in 1..n |-> c]
<1>1. QueueTypes /\ composition \in Nat /\ n \in Nat /\ c \in 0..composition
  BY TypeFacts, ComposerAssumption DEF QueueInv
<1>2. new \in Seq(0..composition) /\ Len(new) = n
  BY <1>1
<1>3. /\ attachedTo' = attachedTo \o new
      /\ uploadedFiles' = uploadedFiles \cup (Len(attachedTo) + 1 .. Len(attachedTo) + n)
      /\ UNCHANGED <<isComposeOpen, compSchedule, outbox, opener, fates>>
  BY DEF AttachFiles, history
<1>4. /\ attachedTo' \in Seq(0..composition)
      /\ Len(attachedTo') = Len(attachedTo) + n
      /\ \A f \in 1..Len(attachedTo) : attachedTo'[f] = attachedTo[f]
      /\ \A f \in Len(attachedTo) + 1 .. Len(attachedTo) + n : attachedTo'[f] = c
  BY <1>1, <1>2, <1>3, ConcatProperties DEF QueueTypes
<1> HIDE DEF new
<1>5. composition' = composition /\ Len(attachedTo) \in Nat
  BY <1>1, <1>3, TypeFacts DEF composition
<1>6. QueueTypes'
  <2>1. uploadedFiles' \subseteq 1..Len(attachedTo')
    <3>1. uploadedFiles \subseteq 1..Len(attachedTo)
      BY <1>1 DEF QueueTypes
    <3>2. 1..Len(attachedTo) \subseteq 1..Len(attachedTo) + n
      BY <1>1, <1>5
    <3>3. Len(attachedTo) + 1 .. Len(attachedTo) + n \subseteq 1..Len(attachedTo) + n
      BY <1>1, <1>5
    <3> QED
      BY <1>3, <1>4, <3>1, <3>2, <3>3
  <2>2. Len(attachedTo') \in Nat /\ Len(attachedTo) <= Len(attachedTo')
    BY <1>1, <1>4, <1>5
  <2>3. outbox' \in Seq(Messages(composition, Len(attachedTo')))
    BY <1>1, <1>3, <2>2, OutboxType
  <2> QED
    BY <1>1, <1>3, <1>4, <1>5, <2>1, <2>3 DEF QueueTypes
<1>7. OneOpen' /\ FileSentOnceUnlessLate'
  BY <1>3, <1>5 DEF QueueInv, OneOpen, FileSentOnceUnlessLate, Dispatched
<1>8. QueueIsUnsent'
  <2>1. \A i \in Dispatched : outbox[i].files \subseteq 1..Len(attachedTo)
    BY <1>1, TypeFacts DEF Dispatched
  <2> QED
    BY <1>3, <1>5, <2>1 DEF QueueInv, QueueIsUnsent, Dispatched
<1>9. NothingLeftBehind'
  <2>1. SUFFICES ASSUME NEW f \in uploadedFiles', attachedTo'[f] # 0
                 PROVE  fates[attachedTo'[f]] \in {"open", "replaced", "draft"}
    BY <1>3 DEF NothingLeftBehind
  <2>2. CASE f \in uploadedFiles
    BY <1>1, <1>4, <2>1, <2>2 DEF QueueInv, NothingLeftBehind, QueueTypes
  <2>3. CASE f \in Len(attachedTo) + 1 .. Len(attachedTo) + n
    BY <1>4, <2>1, <2>3 DEF QueueInv, OneOpen
  <2> QED
    BY <1>3, <2>2, <2>3
<1>10. RepliesCarryTheirOwn'
  <2>1. \A i \in DOMAIN outbox : outbox[i].files \subseteq 1..Len(attachedTo)
    BY <1>1, TypeFacts
  <2> QED
    BY <1>3, <1>4, <2>1 DEF QueueInv, RepliesCarryTheirOwn
<1>11. QueueIsOwn'
  <2>1. SUFFICES ASSUME isComposeOpen, opener \in Clearing, NEW f \in uploadedFiles'
                 PROVE  attachedTo'[f] = composition
    BY <1>3, <1>5 DEF QueueIsOwn
  <2>2. CASE f \in uploadedFiles
    BY <1>1, <1>4, <2>1, <2>2 DEF QueueInv, QueueIsOwn, QueueTypes
  <2>3. CASE f \in Len(attachedTo) + 1 .. Len(attachedTo) + n
    BY <1>4, <2>1, <2>3
  <2> QED
    BY <1>3, <2>2, <2>3
<1>12. Kept
  <2>1. \A f \in 1..Len(attachedTo) : f \in 1..Len(attachedTo')
    BY <1>1, <1>4, <1>5
  <2> QED
    BY <1>3, <1>4, <1>5, <2>1 DEF Kept, Dispatched
<1> QED
  BY <1>6, <1>7, <1>8, <1>9, <1>10, <1>11, <1>12 DEF QueueInv

(* A file is removed, the date changes, or nothing of the composer does.   *)
LEMMA IdleStep ==
  ASSUME QueueInv, uploadedFiles' \subseteq uploadedFiles, compSchedule' \in BOOLEAN,
         UNCHANGED <<isComposeOpen, outbox, opener, fates, attachedTo>>
  PROVE  QueueInv' /\ Kept
<1>1. composition' = composition /\ Dispatched' = Dispatched
  BY DEF composition, Dispatched
<1>2. QueueTypes' /\ OneOpen'
  BY <1>1 DEF QueueInv, QueueTypes, OneOpen
<1>3. FileSentOnceUnlessLate' /\ RepliesCarryTheirOwn' /\ NothingLeftBehind'
  BY <1>1 DEF QueueInv, FileSentOnceUnlessLate, RepliesCarryTheirOwn, NothingLeftBehind
<1>4. QueueIsUnsent' /\ QueueIsOwn'
  BY <1>1 DEF QueueInv, QueueIsUnsent, QueueIsOwn
<1>5. Kept
  BY <1>1 DEF Kept
<1> QED
  BY <1>2, <1>3, <1>4, <1>5 DEF QueueInv

(* Closing the window: the queue is emptied, or the composition a draft.   *)
LEMMA CloseStep ==
  ASSUME QueueInv, NEW window, Fit(window.files),
         isComposeOpen => window.files = uploadedFiles,
         NEW fate \in {"cancelled", "draft", "scheduled", "sent"},
         Close(fate),
         \/ outbox' = outbox
         \/ fate # "cancelled" /\ AddMessage(window, fate),
         \/ uploadedFiles' = {}
         \/ uploadedFiles' = uploadedFiles /\ fate = "draft",
         UNCHANGED <<compSchedule, attachedTo>>
  PROVE  QueueInv' /\ Kept
<1> DEFINE c == composition
           message == [composition |-> composition, opener |-> opener, kind |-> fate,
                       files |-> window.files, late |-> ~isComposeOpen]
           last == Len(outbox) + 1
<1> USE DEF Fates
<1>1. QueueTypes /\ c \in 1..c
  BY TypeFacts DEF QueueInv, Fit
<1>2. /\ isComposeOpen' = FALSE /\ opener' = opener
      /\ fates' \in Seq(Fates) /\ composition' = c
      /\ isComposeOpen => fates'[c] = fate
      /\ ~isComposeOpen => fates' = fates
      /\ \A d \in 1..c : d # c => fates'[d] = fates[d]
  <2>1. /\ fates \in Seq(Fates) /\ fate \in Fates /\ c \in 1..Len(fates)
        /\ isComposeOpen' = FALSE /\ opener' = opener
        /\ fates' = IF isComposeOpen THEN [fates EXCEPT ![c] = fate] ELSE fates
    BY <1>1 DEF Close, QueueTypes, composition
  <2>2. CASE isComposeOpen
    BY <2>1, <2>2, ExceptSeq DEF composition
  <2>3. CASE ~isComposeOpen
    BY <2>1, <2>3 DEF composition
  <2> QED
    BY <2>2, <2>3
<1>3. \/ outbox' = outbox
      \/ fate # "cancelled" /\ outbox' = Append(outbox, message)
  BY DEF AddMessage
<1>4. /\ message.composition = c /\ message.opener = opener /\ message.kind = fate
      /\ message.files = window.files /\ message.late = ~isComposeOpen
      /\ window.files \subseteq 1..Len(attachedTo)
  BY DEF Fit
<1>5. fate # "cancelled" =>
        message \in Messages(c, Len(attachedTo))
  BY <1>1, <1>4 DEF QueueTypes, Messages
<1> HIDE DEF message
<1>6. QueueTypes'
  <2>1. outbox' \in Seq(Messages(c, Len(attachedTo)))
    <3>1. outbox \in Seq(Messages(c, Len(attachedTo)))
      BY <1>1 DEF QueueTypes
    <3> HIDE DEF c
    <3> QED
      BY <1>3, <1>5, <3>1
  <2> QED
    BY <1>1, <1>2, <2>1 DEF QueueTypes
<1>7. /\ \A i \in DOMAIN outbox' : \/ i \in DOMAIN outbox /\ outbox'[i] = outbox[i]
                                   \/ i = last /\ outbox'[i] = message
      /\ last \notin DOMAIN outbox /\ \A i \in DOMAIN outbox : i < last
      /\ last \in Nat /\ DOMAIN outbox \subseteq Nat
  <2>1. outbox \in Seq(Messages(c, Len(attachedTo)))
    BY <1>1 DEF QueueTypes
  <2>2. Len(outbox) \in Nat /\ DOMAIN outbox = 1..Len(outbox)
    BY <2>1, LenProperties
  <2>3. \/ outbox' = outbox
        \/ /\ DOMAIN outbox' = 1..last /\ outbox'[last] = message
           /\ \A i \in 1..Len(outbox) : outbox'[i] = outbox[i]
    BY <1>3, <2>1, <2>2
  <2> QED
    BY <2>2, <2>3
<1> HIDE DEF last
<1>8. \A i \in Dispatched' : \/ i \in Dispatched /\ outbox'[i] = outbox[i]
                             \/ i = last /\ outbox'[i] = message
  BY <1>7 DEF Dispatched
<1>9. OneOpen'
  BY <1>1, <1>2, TypeFacts DEF QueueInv, OneOpen
<1>10. FileSentOnceUnlessLate'
  <2>1. SUFFICES ASSUME NEW i \in Dispatched', NEW j \in Dispatched', i < j,
                        outbox'[i].files \cap outbox'[j].files # {}
                 PROVE  outbox'[j].late /\ outbox'[j].composition = outbox'[i].composition
    BY DEF FileSentOnceUnlessLate
  <2>2. CASE /\ i \in Dispatched /\ outbox'[i] = outbox[i]
             /\ j \in Dispatched /\ outbox'[j] = outbox[j]
    BY <2>1, <2>2 DEF QueueInv, FileSentOnceUnlessLate
  <2>3. CASE /\ i \in Dispatched /\ outbox'[i] = outbox[i]
             /\ j = last /\ outbox'[j] = message
    <3>1. outbox[i].files \cap window.files # {}
      BY <1>4, <2>1, <2>3
    <3>2. ~isComposeOpen
      BY <2>3, <3>1 DEF QueueInv, QueueIsUnsent
    <3>3. outbox[i].composition = c
      BY <2>3, <3>1 DEF Fit
    <3> QED
      BY <1>4, <2>3, <3>2, <3>3
  <2>4. ~ (i = last)
    <3>1. i \in Nat /\ j \in Nat /\ j <= last
      BY <1>7, <1>8 DEF Dispatched
    <3> QED
      BY <1>7, <2>1, <3>1
  <2> QED
    BY <1>8, <2>2, <2>3, <2>4
<1>11. QueueIsUnsent'
  <2>1. CASE uploadedFiles' = {}
    BY <2>1 DEF QueueIsUnsent
  <2>2. CASE uploadedFiles' = uploadedFiles /\ fate = "draft"
    <3>1. \A i \in Dispatched' : i \in Dispatched /\ outbox'[i] = outbox[i]
      <4>1. SUFFICES ASSUME NEW i \in Dispatched', i = last, outbox'[i] = message
                     PROVE  FALSE
        BY <1>8
      <4>2. outbox'[i].kind \in {"scheduled", "sent"}
        BY DEF Dispatched
      <4> QED
        BY <1>4, <2>2, <4>1, <4>2
    <3> QED
      BY <2>2, <3>1 DEF QueueInv, QueueIsUnsent
  <2> QED
    BY <2>1, <2>2
<1>12. NothingLeftBehind'
  <2>1. SUFFICES ASSUME NEW f \in uploadedFiles', attachedTo[f] # 0
                 PROVE  fates'[attachedTo[f]] \in {"open", "replaced", "draft"}
    BY DEF NothingLeftBehind
  <2>2. f \in uploadedFiles /\ fate = "draft"
    BY <2>1
  <2>3. attachedTo[f] \in 1..c
    BY <1>1, <2>1, <2>2, TypeFacts DEF QueueTypes
  <2>4. fates[attachedTo[f]] \in {"open", "replaced", "draft"}
    BY <2>1, <2>2 DEF QueueInv, NothingLeftBehind
  <2> QED
    BY <1>2, <2>2, <2>3, <2>4
<1>13. RepliesCarryTheirOwn'
  <2>1. SUFFICES ASSUME NEW i \in DOMAIN outbox', outbox'[i].opener \in Clearing,
                        NEW f \in outbox'[i].files
                 PROVE  attachedTo[f] = outbox'[i].composition
    BY DEF RepliesCarryTheirOwn, Clearing
  <2>2. CASE i \in DOMAIN outbox /\ outbox'[i] = outbox[i]
    BY <2>1, <2>2 DEF QueueInv, RepliesCarryTheirOwn, Clearing
  <2>3. CASE outbox'[i] = message
    BY <1>4, <2>1, <2>3 DEF Fit
  <2> QED
    BY <1>7, <2>2, <2>3
<1>14. QueueIsOwn'
  BY <1>2 DEF QueueIsOwn
<1>15. Kept
  BY <1>2, <1>4, <1>8 DEF Kept
<1> QED
  BY <1>6, <1>9, <1>10, <1>11, <1>12, <1>13, <1>14, <1>15 DEF QueueInv

LEMMA ControlsStep ==
  ASSUME QueueInv, NEW window, Fit(window.files),
         isComposeOpen => window.files = uploadedFiles, Controls(window)
  PROVE  QueueInv' /\ Kept
<1>1. CASE DropZone \/ FilePicker
  BY <1>1, AttachStep DEF DropZone, FilePicker, Fit
<1>2. CASE FileQueue(window) \/ SchedulePicker
  BY <1>2, IdleStep DEF FileQueue, SchedulePicker, history, QueueInv, QueueTypes
<1>3. CASE CancelDispatch
  <2> DEFINE fate == "cancelled"
  <2>1. /\ Close(fate) /\ outbox' = outbox /\ uploadedFiles' = {}
        /\ UNCHANGED <<compSchedule, attachedTo>>
    BY <1>3 DEF CancelDispatch
  <2>2. fate \in {"cancelled", "draft", "scheduled", "sent"}
    OBVIOUS
  <2> HIDE DEF fate
  <2> QED
    BY <2>1, <2>2, CloseStep
<1>4. CASE handleSaveDraftFromCompose(window)
  BY <1>4, CloseStep DEF handleSaveDraftFromCompose
<1>5. CASE handleSendComposeEmail(window)
  <2>1. PICK kind \in {"scheduled", "sent"} : Close(kind) /\ AddMessage(window, kind)
    BY <1>5 DEF handleSendComposeEmail
  <2> QED
    BY <1>5, <2>1, CloseStep DEF handleSendComposeEmail
<1> QED
  BY <1>1, <1>2, <1>3, <1>4, <1>5 DEF Controls

LEMMA WindowStep ==
  ASSUME IInv, Window
  PROVE  QueueInv' /\ Kept
<1>1. CASE isComposeOpen /\ Controls(Rendered)
  <2>1. PICK window : window = Rendered
    OBVIOUS
  <2>2. window.files = uploadedFiles /\ Controls(window)
    BY <1>1, <2>1 DEF Rendered
  <2> QED
    BY <1>1, <2>2, OpenFit, ControlsStep DEF IInv
<1>2. CASE leavingWindow # NoWindow /\ Controls(leavingWindow)
  <2>1. PICK window : window = leavingWindow
    OBVIOUS
  <2> QED
    BY <1>2, <2>1, ControlsStep DEF IInv, WindowInv
<1> QED
  BY <1>1, <1>2 DEF Window

LEMMA NextIInv ==
  ASSUME IInv, [ComposerNext]_vars
  PROVE  IInv'
<1>1. CASE (handleOpenCompose \/ handleForwardMail) /\ AnimatePresence
  BY <1>1, OpenStep DEF handleOpenCompose, handleForwardMail, Openers, Clearing
<1>2. CASE /\ handleReplyMail \/ handleReplyAllMail \/ handleCreateQuickDraft
           /\ AnimatePresence
  BY <1>2, OpenStep
  DEF handleReplyMail, handleReplyAllMail, handleCreateQuickDraft, Openers
<1>3. CASE Window /\ AnimatePresence
  BY <1>3, WindowStep, PresenceStep DEF IInv
<1>4. CASE Sweep /\ AnimatePresence
  <2>1. QueueInv' /\ Kept
    BY <1>4, IdleStep DEF Sweep, history, IInv, QueueInv, QueueTypes
  <2> QED
    BY <1>4, <2>1, PresenceStep DEF IInv
<1>5. CASE ExitEnds
  <2>1. QueueInv'
    BY <1>5, IdleStep DEF ExitEnds, history, IInv, QueueInv, QueueTypes
  <2> QED
    BY <1>5, <2>1, ComposerAssumption DEF ExitEnds, IInv, WindowInv, WindowType, NoWindow
<1>6. CASE UNCHANGED vars
  BY <1>6 DEF vars, composer, history, IInv, QueueInv, QueueTypes, OneOpen,
     FileSentOnceUnlessLate, QueueIsUnsent, Dispatched, NothingLeftBehind,
     RepliesCarryTheirOwn, QueueIsOwn, composition, WindowInv, WindowType, Fit, NoWindow
<1> QED
  BY <1>1, <1>2, <1>3, <1>4, <1>5, <1>6 DEF ComposerNext, Click

LEMMA Invariant == ComposerSpec => []IInv
<1>1. IInv /\ [ComposerNext]_vars => IInv'
  BY NextIInv
<1> QED
  BY <1>1, InitIInv, PTL DEF ComposerSpec

(* The composer's variables keep their types.                              *)
THEOREM ComposerTypeCorrect == ComposerSpec => []ComposerTypeOK
<1>1. IInv => ComposerTypeOK
  BY DEF IInv, QueueInv, WindowInv, ComposerTypeOK
<1> QED
  BY <1>1, Invariant, PTL

(* An attached file leaves with one message, and again only when the same  *)
(* composition's window is pressed once more while it leaves.              *)
THEOREM FilesLeaveOnce == ComposerSpec => []FileSentOnceUnlessLate
<1>1. IInv => FileSentOnceUnlessLate
  BY DEF IInv, QueueInv
<1> QED
  BY <1>1, Invariant, PTL

(* Nothing of a dispatched or cancelled message waits for the next one.    *)
THEOREM QueueIsClean == ComposerSpec => []NothingLeftBehind
<1>1. IInv => NothingLeftBehind
  BY DEF IInv, QueueInv
<1> QED
  BY <1>1, Invariant, PTL

(* Replies and quick drafts carry only files attached to them.             *)
THEOREM RepliesAreClean == ComposerSpec => []RepliesCarryTheirOwn
<1>1. IInv => RepliesCarryTheirOwn
  BY DEF IInv, QueueInv
<1> QED
  BY <1>1, Invariant, PTL
=============================================================================
