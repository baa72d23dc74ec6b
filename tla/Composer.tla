------------------------------ MODULE Composer ------------------------------
(***************************************************************************)
(* The composer of the web console (src/src/App.tsx): one window and one   *)
(* queue of attached files, shared by every message written in turn.       *)
(* Opening it resets the form, and only some of the ways to open it empty  *)
(* the queue; a window left open may be opened again over what it holds.   *)
(* A closed window stays on the screen for a moment, and then its controls *)
(* still act, with the queue and the date it showed last.                  *)
(*                                                                         *)
(* A composition is what is written between one opening and the next; its  *)
(* number, how it began and how it ended are history.  Files are numbered  *)
(* in the order they were attached.  Texts, addresses and the encryption   *)
(* mark are left out.  Handlers write the audit ledger through Audit, and  *)
(* its sweep may run at any time.                                          *)
(***************************************************************************)
EXTENDS AuditLedger, FiniteSets

CONSTANTS
  MaxCompositions,   \* bound: times the composer is opened
  MaxFiles,          \* bound: files attached
  MaxExitClicks      \* clicks it takes a leaving window to be gone (0.2 s)

ASSUME ComposerAssumption ==
  MaxCompositions \in Nat /\ MaxFiles \in Nat /\ MaxExitClicks \in Nat \ {0}

VARIABLES
  isComposeOpen,
  compSchedule,      \* whether a date is filled in
  uploadedFiles,     \* numbers of the files in the queue
  outbox,            \* drafts, scheduled and sent messages the composer made, in order
  leavingWindow,     \* what the window that is leaving the screen showed last
  opener,            \* history: how the last composition began
  fates,             \* history: how each ended, "open" for the one that has not
  attachedTo         \* history: the composition each file was attached to,
                     \* 0 for one dropped on a leaving window

history  == <<opener, fates>>
composer == <<isComposeOpen, compSchedule, uploadedFiles, outbox, leavingWindow,
              history, attachedTo>>
vars == <<ledgerVars, composer>>

Openers == {"none", "compose", "reply", "replyAll", "forward", "quickDraft"}
Fates   == {"open", "replaced", "cancelled", "draft", "scheduled", "sent"}

composition == Len(fates)

(* A window: the queue and the date its handlers see, and the clicks that  *)
(* are left when it is leaving.                                            *)
Rendered == [files |-> uploadedFiles, scheduled |-> compSchedule, clicks |-> MaxExitClicks]

NoWindow == [files |-> {}, scheduled |-> FALSE, clicks |-> 0]

ComposerInit ==
  /\ LedgerInit
  /\ isComposeOpen = FALSE
  /\ compSchedule = FALSE
  /\ uploadedFiles = {}
  /\ outbox = <<>>
  /\ leavingWindow = NoWindow
  /\ opener = "none" /\ fates = <<>> /\ attachedTo = <<>>

-----------------------------------------------------------------------------
(* AnimatePresence, conjoined with every click: a closed window leaves as  *)
(* it was rendered before the click, and is as it should be when the       *)
(* composer opens again.                                                   *)

AnimatePresence ==
  leavingWindow' =
    IF isComposeOpen' THEN NoWindow
    ELSE IF isComposeOpen THEN Rendered
    ELSE IF leavingWindow.clicks > 1 THEN [leavingWindow EXCEPT !.clicks = @ - 1]
    ELSE NoWindow

ExitEnds ==
  /\ leavingWindow # NoWindow
  /\ leavingWindow' = NoWindow
  /\ UNCHANGED <<ledgerVars, isComposeOpen, compSchedule, uploadedFiles, outbox,
                 history, attachedTo>>

-----------------------------------------------------------------------------
(* Opening the composer: the form is reset, the files stay.              *)

Open(how, files) ==
  /\ composition < MaxCompositions
  /\ fates' = Append([c \in DOMAIN fates |->
                        IF fates[c] = "open" THEN "replaced" ELSE fates[c]], "open")
  /\ opener' = how
  /\ compSchedule' = FALSE
  /\ uploadedFiles' = files
  /\ isComposeOpen' = TRUE
  /\ UNCHANGED <<ledgerVars, outbox, attachedTo>>

handleOpenCompose == Open("compose", uploadedFiles)

\* Mutant of handleReplyMail: the queue is not emptied.
FaultyReplyMail == Open("reply", uploadedFiles)

handleReplyMail == Open("reply", {})

handleReplyAllMail == Open("replyAll", {})

handleForwardMail == Open("forward", uploadedFiles)

handleCreateQuickDraft == Open("quickDraft", {})

-----------------------------------------------------------------------------
(* The controls of a window, open or leaving.                              *)

(* Files chosen or dropped, one or several at a time.                      *)
AttachFiles(n) ==
  /\ Len(attachedTo) + n <= MaxFiles
  /\ attachedTo' = attachedTo \o [i \in 1..n |-> IF isComposeOpen THEN composition ELSE 0]
  /\ uploadedFiles' = uploadedFiles \cup (Len(attachedTo) + 1 .. Len(attachedTo) + n)
  /\ UNCHANGED <<ledgerVars, isComposeOpen, compSchedule, outbox, history>>

DropZone   == \E n \in 1..MaxFiles : AttachFiles(n)
FilePicker == \E n \in 1..MaxFiles : AttachFiles(n)

(* A cross removes the file that is now at the place its own has in the    *)
(* window's queue.                                                         *)
FileQueue(window) ==
  \E f \in uploadedFiles :
    /\ Cardinality({g \in uploadedFiles : g < f}) < Cardinality(window.files)
    /\ uploadedFiles' = uploadedFiles \ {f}
    /\ UNCHANGED <<ledgerVars, isComposeOpen, compSchedule, outbox, history, attachedTo>>

SchedulePicker ==
  /\ compSchedule' \in BOOLEAN
  /\ UNCHANGED <<ledgerVars, isComposeOpen, uploadedFiles, outbox, history, attachedTo>>

Close(fate) ==
  /\ isComposeOpen' = FALSE
  /\ fates' = IF isComposeOpen THEN [fates EXCEPT ![composition] = fate] ELSE fates
  /\ UNCHANGED opener

\* Mutant of CancelDispatch: the queue is kept, as when a draft is saved.
FaultyCancelDispatch ==
  /\ Close("cancelled")
  /\ UNCHANGED <<ledgerVars, compSchedule, uploadedFiles, outbox, attachedTo>>

CancelDispatch ==
  /\ Close("cancelled")
  /\ uploadedFiles' = {}
  /\ UNCHANGED <<ledgerVars, compSchedule, outbox, attachedTo>>

(* What a window adds to the lists, a new message each time it is pressed, *)
(* with every file in its queue.                                           *)
AddMessage(window, kind) ==
  outbox' = Append(outbox, [composition |-> composition, opener |-> opener,
                            kind |-> kind, files |-> window.files,
                            late |-> ~isComposeOpen])

(* The queue keeps its files.                                              *)
handleSaveDraftFromCompose(window) ==
  /\ AddMessage(window, "draft")
  /\ Audit("DRAFT_CREATE")
  /\ Close("draft")
  /\ UNCHANGED <<compSchedule, uploadedFiles, attachedTo>>

\* Mutant of handleSendComposeEmail: only an immediate dispatch empties the queue.
FaultySendComposeEmail(window) ==
  LET kind == IF window.scheduled THEN "scheduled" ELSE "sent"
  IN /\ AddMessage(window, kind)
     /\ Audit(IF window.scheduled THEN "SCHEDULED_CREATE" ELSE "EMAIL_SEND")
     /\ Close(kind)
     /\ uploadedFiles' = IF window.scheduled THEN uploadedFiles ELSE {}
     /\ UNCHANGED <<compSchedule, attachedTo>>

handleSendComposeEmail(window) ==
  LET kind == IF window.scheduled THEN "scheduled" ELSE "sent"
  IN /\ AddMessage(window, kind)
     /\ Audit(IF window.scheduled THEN "SCHEDULED_CREATE" ELSE "EMAIL_SEND")
     /\ Close(kind)
     /\ uploadedFiles' = {}
     /\ UNCHANGED <<compSchedule, attachedTo>>

Controls(window) ==
  \/ DropZone
  \/ FilePicker
  \/ FileQueue(window)
  \/ SchedulePicker
  \/ CancelDispatch
  \/ handleSaveDraftFromCompose(window)
  \/ handleSendComposeEmail(window)

Window ==
  \/ isComposeOpen /\ Controls(Rendered)
  \/ leavingWindow # NoWindow /\ Controls(leavingWindow)

(* The ledger page is reachable while the window is open or closed.        *)
Sweep ==
  /\ handleAuditTamperCheck
  /\ UNCHANGED <<isComposeOpen, compSchedule, uploadedFiles, outbox, history, attachedTo>>

Click ==
  \/ handleOpenCompose
  \/ handleReplyMail
  \/ handleReplyAllMail
  \/ handleForwardMail
  \/ handleCreateQuickDraft
  \/ Window
  \/ Sweep

ComposerNext == ExitEnds \/ (Click /\ AnimatePresence)

ComposerSpec == ComposerInit /\ [][ComposerNext]_vars

-----------------------------------------------------------------------------

Dispatched == {i \in DOMAIN outbox : outbox[i].kind \in {"scheduled", "sent"}}

Messages(last, attached) ==
  [composition : 1..last, opener : Openers, kind : {"draft", "scheduled", "sent"},
   files : SUBSET (1..attached), late : BOOLEAN]

QueueTypes ==
  /\ isComposeOpen \in BOOLEAN /\ compSchedule \in BOOLEAN
  /\ fates \in Seq(Fates) /\ opener \in Openers
  /\ attachedTo \in Seq(0..composition)
  /\ uploadedFiles \subseteq 1..Len(attachedTo)
  /\ outbox \in Seq(Messages(composition, Len(attachedTo)))

WindowType ==
  leavingWindow \in [files : SUBSET (1..Len(attachedTo)), scheduled : BOOLEAN,
                     clicks : 0..MaxExitClicks]

ComposerTypeOK == QueueTypes /\ WindowType

(* A file that was attached once leaves with one message, sent or          *)
(* scheduled, although saving a draft and reopening the composer carry the *)
(* queue from one composition to the next - unless "Secure Dispatch" is    *)
(* pressed again on a window that is leaving: then the files leave once    *)
(* more, with a second message of the same composition, and of no other.   *)
FileSentOnceUnlessLate ==
  \A i, j \in Dispatched :
    i < j /\ outbox[i].files \cap outbox[j].files # {} =>
      outbox[j].late /\ outbox[j].composition = outbox[i].composition

(* A file in the queue belongs to the message being written, or to one     *)
(* left as a draft or overwritten, or was dropped on a window as it left:  *)
(* nothing of a message that was sent, scheduled or cancelled is waiting   *)
(* to go out with the next, whatever is pressed on the leaving window.     *)
NothingLeftBehind ==
  \A f \in uploadedFiles :
    attachedTo[f] # 0 => fates[attachedTo[f]] \in {"open", "replaced", "draft"}

(* A reply or a quick draft, however it is saved or dispatched, from its   *)
(* open window or the leaving one, carries only files attached to it,      *)
(* whatever was in the queue before it.                                    *)
RepliesCarryTheirOwn ==
  \A i \in DOMAIN outbox :
    outbox[i].opener \in {"reply", "replyAll", "quickDraft"} =>
      \A f \in outbox[i].files : attachedTo[f] = outbox[i].composition
=============================================================================
