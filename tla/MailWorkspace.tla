---------------------------- MODULE MailWorkspace ----------------------------
(***************************************************************************)
(* The mail workspace of the web console (src/src/App.tsx): the sidebar,   *)
(* the dashboard, the message list with its check marks and bulk actions,  *)
(* the reading pane with its thread, and the timer that ends the loading   *)
(* skeleton.  One click is one step; React runs the effect of a changed    *)
(* folder or category before the next click.  The bar of bulk actions      *)
(* stays on the screen for a moment after the last tick is gone, and then  *)
(* its buttons still act on what it showed last.  The composer and the     *)
(* simulated incoming e-mail (Composer, EnterpriseConsole) appear by what  *)
(* they add to the lists.  Nothing here reads the audit rows that draft    *)
(* and schedule handlers add, which are left to AuditLedger.               *)
(***************************************************************************)
EXTENDS Naturals, FiniteSets

CONSTANTS
  MailIds, DraftIds, SchedIds,  \* what e-mails, drafts and scheduled ones are named by
  SeededEmails,    \* the e-mails the workspace starts with
  SeededDrafts, SeededScheduled,
  Categories,      \* category pills other than All
  CategoryOf,      \* each e-mail's category
  ThreadOf,        \* the subject each message is threaded by
  Hits,            \* the messages the one search text finds
  NoEmail,
  MaxExitClicks    \* bound: the clicks it takes a leaving bulk bar to be gone (0.22 s)

ASSUME WorkspaceAssumption ==
  /\ MailIds \cap DraftIds = {} /\ MailIds \cap SchedIds = {}
  /\ DraftIds \cap SchedIds = {}
  /\ NoEmail \notin [id : MailIds \cup DraftIds \cup SchedIds, folder : STRING]
  /\ SeededDrafts \subseteq DraftIds /\ SeededScheduled \subseteq SchedIds
  /\ MaxExitClicks \in Nat \ {0}

StoredFolders == {"Inbox", "Sent", "Spam", "Trash"}

Emails == [folder : StoredFolders, isStarred : BOOLEAN]

ASSUME SeedAssumption ==
  /\ DOMAIN SeededEmails \subseteq MailIds
  /\ SeededEmails \in [DOMAIN SeededEmails -> Emails]

VARIABLES
  emails,            \* id -> folder and star, for the e-mails there are
  draftsList, scheduledList,
  named,             \* ids given so far; made of the clock, none is given twice
  activeFolder, activeCategory, searching,
  isLoadingMails, loadTimer,
  selectedEmailIds,  \* the ticked ids
  selectedEmail,     \* the copy the reading pane shows
  leavingBar,        \* what the bulk bar that is leaving the screen showed last
  lateTicks,         \* history: the ticks that a leaving bar set
  paneMissed         \* history: a leaving bar moved the open message, and left it open

lists == <<emails, draftsList, scheduledList, named>>
place == <<activeFolder, activeCategory>>
load  == <<isLoadingMails, loadTimer>>
late  == <<lateTicks, paneMissed>>
vars  == <<lists, place, searching, load, selectedEmailIds, selectedEmail, leavingBar, late>>

Views == StoredFolders \cup {"Dashboard", "Starred", "Drafts", "Scheduled", "Settings"}

Ids == MailIds \cup DraftIds \cup SchedIds

(* A bulk bar: where it moves the ticked e-mails, whether its Delete       *)
(* purges them, the ticks and the list its handlers see, whether the open  *)
(* message was ticked, and the clicks that are left when it is leaving.    *)
Bars ==
  [moves : SUBSET {"Inbox", "Spam"}, purges : BOOLEAN, ticked : SUBSET Ids,
   listed : SUBSET Ids, closesPane : BOOLEAN, clicks : 0..MaxExitClicks]

NoBar == [moves |-> {}, purges |-> FALSE, ticked |-> {}, listed |-> {},
          closesPane |-> FALSE, clicks |-> 0]

Init ==
  /\ emails = SeededEmails
  /\ draftsList = SeededDrafts
  /\ scheduledList = SeededScheduled
  /\ named = DOMAIN SeededEmails \cup SeededDrafts \cup SeededScheduled
  /\ activeFolder = "Dashboard"
  /\ activeCategory = "All"
  /\ searching = FALSE
  /\ isLoadingMails = TRUE /\ loadTimer = TRUE
  /\ selectedEmailIds = {}
  /\ selectedEmail = NoEmail
  /\ leavingBar = NoBar
  /\ lateTicks = {} /\ paneMissed = FALSE

-----------------------------------------------------------------------------
(* Reading the lists.                                                      *)

InFolder(folder) == {m \in DOMAIN emails : emails[m].folder = folder}

Listing(folder, category) ==
  LET listed ==
        CASE folder = "Starred" -> {m \in DOMAIN emails : emails[m].isStarred}
          [] folder \in {"Sent", "Spam", "Trash"} -> InFolder(folder)
          [] folder = "Drafts" -> draftsList
          [] folder = "Scheduled" -> scheduledList
          [] OTHER -> {m \in InFolder("Inbox") :
                         category = "All" \/ CategoryOf[m] = category}
  IN IF searching THEN listed \cap Hits ELSE listed

getFolderEmails == Listing(activeFolder, activeCategory)

(* A message as a list or a thread hands it to a handler.                  *)
Item(id) ==
  [id |-> id,
   folder |-> IF id \in DOMAIN emails THEN emails[id].folder
              ELSE IF id \in DraftIds THEN "Drafts" ELSE "Scheduled"]

ListPane == activeFolder \notin {"Settings", "Dashboard"}

(* The bar as a render of this folder and category, with this message      *)
(* open, makes it.                                                         *)
BarIn(folder, category, open) ==
  [moves |-> {"Inbox", "Spam"} \ {folder}, purges |-> folder = "Trash",
   ticked |-> selectedEmailIds, listed |-> Listing(folder, category),
   closesPane |-> open # NoEmail /\ open.id \in selectedEmailIds,
   clicks |-> MaxExitClicks]

RenderedBar == BarIn(activeFolder, activeCategory, selectedEmail)

-----------------------------------------------------------------------------
(* AnimatePresence, conjoined with every click.  A bar with no tick left   *)
(* leaves as it was last rendered: before this click, or by the render in  *)
(* which the folder or the category changes, whose effect then clears the  *)
(* ticks.  It goes at once when the list itself is not shown, and is as it *)
(* should be again with the next tick.                                     *)

(* With no tick left, the master checkbox can only tick what was listed,   *)
(* and does nothing if all of it was ticked.                               *)
Leaving(bar) == IF bar.listed \subseteq bar.ticked THEN [bar EXCEPT !.listed = {}] ELSE bar

AnimatePresence ==
  \/ /\ ~ListPane' \/ selectedEmailIds' # {}
     /\ leavingBar' = NoBar
  \/ /\ ListPane' /\ selectedEmailIds' = {}
     /\ selectedEmailIds # {}
     /\ leavingBar' =
          Leaving(IF place' = place THEN RenderedBar
                                    ELSE BarIn(activeFolder', activeCategory', selectedEmail'))
  \/ /\ ListPane' /\ selectedEmailIds' = {}
     /\ selectedEmailIds = {}
     /\ leavingBar' = IF leavingBar.clicks > 1 THEN [leavingBar EXCEPT !.clicks = @ - 1]
                                               ELSE NoBar

ExitEnds ==
  /\ leavingBar # NoBar
  /\ leavingBar' = NoBar
  /\ UNCHANGED <<lists, place, searching, load, selectedEmailIds, selectedEmail, late>>

(* What becomes of the history when no leaving bar acts.                   *)
NothingLate ==
  /\ lateTicks' = lateTicks \cap selectedEmailIds'
  /\ paneMissed' = (paneMissed /\ selectedEmail' = selectedEmail)

-----------------------------------------------------------------------------
(* The effect of a changed folder or category: the skeleton, a new timer   *)
(* (the old one is cleared) and no ticks.                                  *)

(* Mutant of LoadEffect: the ticks stay.                                   *)
FaultyLoadEffectTicks(folder, category) ==
  /\ activeFolder' = folder
  /\ activeCategory' = category
  /\ IF <<folder, category>> # place
       THEN isLoadingMails' = TRUE /\ loadTimer' = TRUE
       ELSE UNCHANGED load
  /\ UNCHANGED selectedEmailIds

(* Mutant of LoadEffect: the old timer is cleared and no new one started.  *)
FaultyLoadEffectTimer(folder, category) ==
  /\ activeFolder' = folder
  /\ activeCategory' = category
  /\ IF <<folder, category>> # place
       THEN /\ isLoadingMails' = TRUE /\ loadTimer' = FALSE
            /\ selectedEmailIds' = {}
       ELSE UNCHANGED <<load, selectedEmailIds>>

LoadEffect(folder, category) ==
  /\ activeFolder' = folder
  /\ activeCategory' = category
  /\ IF <<folder, category>> # place
       THEN /\ isLoadingMails' = TRUE /\ loadTimer' = TRUE
            /\ selectedEmailIds' = {}
       ELSE UNCHANGED <<load, selectedEmailIds>>

LoadTimerFires ==
  /\ loadTimer
  /\ loadTimer' = FALSE
  /\ isLoadingMails' = FALSE
  /\ UNCHANGED <<lists, place, searching, selectedEmailIds, selectedEmail, leavingBar, late>>

-----------------------------------------------------------------------------
(* The handlers.                                                           *)

SetFolder(ids, folder) ==
  emails' = [m \in DOMAIN emails |->
               IF m \in ids THEN [emails[m] EXCEPT !.folder = folder] ELSE emails[m]]

Purge(ids) == emails' = [m \in DOMAIN emails \ ids |-> emails[m]]

handleToggleStar(id) ==
  /\ emails' = [m \in DOMAIN emails |->
                  IF m = id THEN [emails[m] EXCEPT !.isStarred = ~@] ELSE emails[m]]
  /\ UNCHANGED <<draftsList, scheduledList, named, place, searching, load,
                 selectedEmailIds, selectedEmail>>

handleDeleteDraft(id) == draftsList' = draftsList \ {id}

handleCancelSchedule(id) == scheduledList' = scheduledList \ {id}

(* It goes by the folder of the copy it is handed, and leaves the ticks.   *)
handleDeleteMail(item) ==
  /\ CASE item.folder = "Drafts" ->
            handleDeleteDraft(item.id) /\ UNCHANGED <<emails, scheduledList>>
       [] item.folder = "Scheduled" ->
            handleCancelSchedule(item.id) /\ UNCHANGED <<emails, draftsList>>
       [] item.folder = "Trash" ->
            Purge({item.id}) /\ UNCHANGED <<draftsList, scheduledList>>
       [] OTHER ->
            /\ SetFolder({item.id}, "Trash")
            /\ UNCHANGED <<draftsList, scheduledList>>
  /\ selectedEmail' = NoEmail
  /\ UNCHANGED <<named, place, searching, load, selectedEmailIds>>

(* The bulk handlers go by the bar they belong to.                         *)

(* Mutant of ClearTicked: the reading pane keeps its message.              *)
FaultyClearTicked(bar) ==
  /\ UNCHANGED selectedEmail
  /\ selectedEmailIds' = {}

(* What both handlers that move or remove end with.                        *)
ClearTicked(bar) ==
  /\ selectedEmail' = IF bar.closesPane THEN NoEmail ELSE selectedEmail
  /\ selectedEmailIds' = {}

(* The read flags are not modelled.                                        *)
handleBulkMarkRead(bar) ==
  /\ bar.ticked # {}
  /\ selectedEmailIds' = {}
  /\ UNCHANGED <<lists, place, searching, load, selectedEmail>>

(* Drafts and scheduled e-mails go here without the handlers above.        *)
handleBulkDelete(bar) ==
  /\ bar.ticked # {}
  /\ IF bar.purges THEN Purge(bar.ticked) ELSE SetFolder(bar.ticked, "Trash")
  /\ draftsList' = draftsList \ bar.ticked
  /\ scheduledList' = scheduledList \ bar.ticked
  /\ ClearTicked(bar)
  /\ UNCHANGED <<named, place, searching, load>>

(* Mutant of handleBulkMove: the ticks stay.                               *)
FaultyBulkMove(bar, folder) ==
  /\ bar.ticked # {}
  /\ SetFolder(bar.ticked, folder)
  /\ selectedEmail' = IF bar.closesPane THEN NoEmail ELSE selectedEmail
  /\ UNCHANGED <<draftsList, scheduledList, named, place, searching, load, selectedEmailIds>>

handleBulkMove(bar, folder) ==
  /\ bar.ticked # {}
  /\ SetFolder(bar.ticked, folder)
  /\ ClearTicked(bar)
  /\ UNCHANGED <<draftsList, scheduledList, named, place, searching, load>>

handleToggleSelectAll(bar) ==
  /\ selectedEmailIds' = IF bar.listed \subseteq bar.ticked
                           THEN selectedEmailIds \ bar.listed
                           ELSE selectedEmailIds \cup bar.listed
  /\ UNCHANGED <<lists, place, searching, load, selectedEmail>>

-----------------------------------------------------------------------------
(* The parts of the screen: what each offers.                              *)

SearchBar ==
  /\ searching' = ~searching
  /\ UNCHANGED <<lists, place, load, selectedEmailIds, selectedEmail>>

FolderMenu ==
  /\ \E folder \in Views \ {"Settings"} : LoadEffect(folder, activeCategory)
  /\ selectedEmail' = NoEmail
  /\ UNCHANGED <<lists, searching>>

(* The settings entry keeps the message open.                              *)
SettingsEntry ==
  /\ LoadEffect("Settings", activeCategory)
  /\ UNCHANGED <<lists, searching, selectedEmail>>

CategoryPills ==
  /\ activeFolder = "Inbox"
  /\ \E category \in Categories \cup {"All"} : LoadEffect("Inbox", category)
  /\ selectedEmail' = NoEmail
  /\ UNCHANGED <<lists, searching>>

(* The cards and the two "Go to" links.                                    *)
DashboardCards ==
  /\ activeFolder = "Dashboard"
  /\ \E folder \in {"Inbox", "Starred", "Drafts", "Sent"} :
       LoadEffect(folder, activeCategory)
  /\ UNCHANGED <<lists, searching, selectedEmail>>

RecentReceived == {m \in DOMAIN emails : emails[m].folder \notin {"Sent", "Drafts", "Trash"}}

(* The dashboard lists the newest four of each kind; which they are does   *)
(* not matter below, so that any may be among them.                        *)
DashboardRecent ==
  /\ activeFolder = "Dashboard"
  /\ \E m \in RecentReceived \cup InFolder("Sent") :
       /\ selectedEmail' = Item(m)
       /\ LoadEffect(emails[m].folder, activeCategory)
  /\ UNCHANGED <<lists, searching>>

(* A row of the list: open it, tick it, star it, delete it.                *)
ListItem(id) ==
  \/ /\ selectedEmail' = Item(id)
     /\ UNCHANGED <<lists, place, searching, load, selectedEmailIds>>
  \/ /\ selectedEmailIds' = IF id \in selectedEmailIds THEN selectedEmailIds \ {id}
                                                       ELSE selectedEmailIds \cup {id}
     /\ UNCHANGED <<lists, place, searching, load, selectedEmail>>
  \/ handleToggleStar(id)
  \/ handleDeleteMail(Item(id))

MessageList ==
  /\ ListPane
  /\ ~isLoadingMails
  /\ \E id \in getFolderEmails : ListItem(id)

BulkMoves(bar) ==
  \/ \E folder \in bar.moves : handleBulkMove(bar, folder)
  \/ handleBulkDelete(bar)

(* It is there while anything is ticked, loading or not.                   *)
BulkBar ==
  /\ ListPane
  /\ selectedEmailIds # {}
  /\ \/ handleToggleSelectAll(RenderedBar)
     \/ handleBulkMarkRead(RenderedBar)
     \/ BulkMoves(RenderedBar)

(* While it is leaving, nothing is ticked.                                 *)
LeavingBar ==
  /\ leavingBar # NoBar
  /\ \/ /\ handleToggleSelectAll(leavingBar)
        /\ lateTicks' = selectedEmailIds'
        /\ UNCHANGED paneMissed
     \/ handleBulkMarkRead(leavingBar) /\ UNCHANGED late
     \/ /\ BulkMoves(leavingBar)
        /\ paneMissed' = (selectedEmail' # NoEmail /\
                            (paneMissed \/ selectedEmail.id \in leavingBar.ticked))
        /\ UNCHANGED lateTicks

ReadingPane ==
  /\ ListPane
  /\ selectedEmail # NoEmail
  /\ \/ handleDeleteMail(selectedEmail)
     \/ handleToggleStar(selectedEmail.id)

(* "Activate Message" on another message of the thread, in any folder.     *)
ConversationThread ==
  /\ ListPane
  /\ selectedEmail # NoEmail
  /\ \E m \in DOMAIN emails \ {selectedEmail.id} :
       /\ ThreadOf[m] = ThreadOf[selectedEmail.id]
       /\ selectedEmail' = Item(m)
  /\ UNCHANGED <<lists, place, searching, load, selectedEmailIds>>

-----------------------------------------------------------------------------
(* What the other parts of the application add to the lists.               *)

AddEmail(id, folder) ==
  /\ id \in MailIds \ named
  /\ named' = named \cup {id}
  /\ emails' = [m \in DOMAIN emails \cup {id} |->
                  IF m = id THEN [folder |-> folder, isStarred |-> FALSE] ELSE emails[m]]
  /\ UNCHANGED <<draftsList, scheduledList, place, searching, load,
                 selectedEmailIds, selectedEmail>>

(* Incoming e-mail is simulated from the settings page.                    *)
ConsoleDeposits ==
  /\ activeFolder = "Settings"
  /\ \E id \in MailIds, folder \in {"Inbox", "Spam", "Trash"} : AddEmail(id, folder)

ComposerAdds ==
  \/ \E id \in MailIds : AddEmail(id, "Sent")
  \/ \E id \in (DraftIds \cup SchedIds) \ named :
       /\ named' = named \cup {id}
       /\ IF id \in DraftIds
            THEN draftsList' = draftsList \cup {id} /\ UNCHANGED scheduledList
            ELSE scheduledList' = scheduledList \cup {id} /\ UNCHANGED draftsList
       /\ UNCHANGED <<emails, place, searching, load, selectedEmailIds, selectedEmail>>

Click ==
  \/ SearchBar \/ FolderMenu \/ SettingsEntry \/ CategoryPills
  \/ DashboardCards \/ DashboardRecent
  \/ MessageList \/ BulkBar \/ ReadingPane \/ ConversationThread
  \/ ConsoleDeposits \/ ComposerAdds

Next ==
  \/ LoadTimerFires
  \/ ExitEnds
  \/ Click /\ NothingLate /\ AnimatePresence
  \/ LeavingBar /\ AnimatePresence

Spec == Init /\ [][Next]_vars /\ WF_vars(LoadTimerFires)

-----------------------------------------------------------------------------

MailTypes ==
  /\ DOMAIN emails \subseteq MailIds
  /\ emails \in [DOMAIN emails -> Emails]
  /\ draftsList \subseteq DraftIds
  /\ scheduledList \subseteq SchedIds
  /\ named \subseteq Ids
  /\ DOMAIN emails \cup draftsList \cup scheduledList \subseteq named
  /\ activeFolder \in Views
  /\ activeCategory \in Categories \cup {"All"}
  /\ searching \in BOOLEAN
  /\ isLoadingMails \in BOOLEAN /\ loadTimer \in BOOLEAN
  /\ selectedEmailIds \subseteq Ids
  /\ selectedEmail \in {NoEmail} \cup [id : Ids, folder : Views]

BarTypes ==
  /\ leavingBar \in Bars
  /\ lateTicks \subseteq selectedEmailIds
  /\ paneMissed \in BOOLEAN

TypeOK == MailTypes /\ BarTypes

(* The reading pane shows a message that still exists, in the folder the   *)
(* copy says, so that its Delete button does what that folder calls for:   *)
(* moving or removing a message leaves no stale copy behind, except where  *)
(* a bar that was leaving acted on the open message after it was opened    *)
(* under it.                                                               *)
SelectedIsLiveUnlessLate ==
  selectedEmail # NoEmail /\ ~paneMissed =>
    /\ selectedEmail.id \in DOMAIN emails \cup draftsList \cup scheduledList
    /\ selectedEmail = Item(selectedEmail.id)

(* The ticks never span folders: what is ticked in Inbox, Sent, Spam or    *)
(* Trash is still there, or has been deleted one by one meanwhile, unless  *)
(* the master checkbox of a leaving bar ticked it.  Where no list is shown *)
(* nothing is ticked and no bar is left.                                   *)
SelectionStaysUnlessLate ==
  /\ ~ListPane => selectedEmailIds = {} /\ leavingBar = NoBar
  /\ activeFolder \in StoredFolders =>
       \A id \in selectedEmailIds \ lateTicks :
         /\ id \in MailIds
         /\ id \in DOMAIN emails => emails[id].folder \in {activeFolder, "Trash"}

(* An e-mail leaves the workspace only from the Trash, whichever control   *)
(* deletes it and whatever was ticked or open before; or a bar that was    *)
(* leaving is behind it, in one of three ways: its Delete, when it was     *)
(* rendered for the Trash with that e-mail ticked; a tick that it set; or  *)
(* the open copy, which it left saying Trash.                              *)
PurgedFromTrashUnlessLate ==
  [][\A m \in DOMAIN emails \ DOMAIN emails' :
       \/ emails[m].folder = "Trash"
       \/ leavingBar.purges /\ m \in leavingBar.ticked
       \/ m \in lateTicks
       \/ paneMissed /\ selectedEmail.id = m /\ selectedEmail.folder = "Trash"]_vars

(* The skeleton gives way to the list.                                     *)
ListSettles == isLoadingMails ~> ~isLoadingMails
=============================================================================
