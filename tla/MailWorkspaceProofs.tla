------------------------- MODULE MailWorkspaceProofs -------------------------
(***************************************************************************)
(* Theorems about MailWorkspace, for any e-mails, threads, categories and  *)
(* search results.                                                         *)
(***************************************************************************)
EXTENDS MailWorkspace, TLAPS

(* A ticked id has been given, so that no new e-mail can take it over.     *)
TicksAreNamed == selectedEmailIds \subseteq named

(* SelectionStaysUnlessLate, without the bar.                              *)
TicksInFolder ==
  /\ ~ListPane => selectedEmailIds = {}
  /\ activeFolder \in StoredFolders =>
       \A id \in selectedEmailIds \ lateTicks :
         /\ id \in MailIds
         /\ id \in DOMAIN emails => emails[id].folder \in {activeFolder, "Trash"}

(* What a click keeps whatever bar it leaves behind.                       *)
PageInv ==
  /\ MailTypes /\ TicksAreNamed /\ SelectedIsLiveUnlessLate /\ TicksInFolder
  /\ lateTicks \subseteq selectedEmailIds /\ paneMissed \in BOOLEAN

(* A bar that is leaving stands above a list without ticks, and what it    *)
(* can tick has been given.                                                *)
BarInv ==
  /\ leavingBar \in Bars
  /\ leavingBar.listed \subseteq named
  /\ leavingBar # NoBar => ListPane /\ selectedEmailIds = {}

IInv == PageInv /\ BarInv

live == DOMAIN emails \cup draftsList \cup scheduledList

(* What PurgedFromTrashUnlessLate says of a step.                          *)
OnlyTrashLeaves ==
  \A m \in DOMAIN emails \ DOMAIN emails' :
    \/ emails[m].folder = "Trash"
    \/ leavingBar.purges /\ m \in leavingBar.ticked
    \/ m \in lateTicks
    \/ paneMissed /\ selectedEmail.id = m /\ selectedEmail.folder = "Trash"

-----------------------------------------------------------------------------
(* How the operators on e-mails leave the table.                           *)

LEMMA RowsType ==
  ASSUME MailTypes, NEW m \in DOMAIN emails
  PROVE  /\ emails[m] \in Emails /\ m \in MailIds /\ m \in named
         /\ emails[m].folder \in StoredFolders
  BY DEF MailTypes, Emails

LEMMA SetFolderRows ==
  ASSUME MailTypes, NEW ids, NEW folder \in StoredFolders, SetFolder(ids, folder)
  PROVE  /\ DOMAIN emails' = DOMAIN emails
         /\ emails' \in [DOMAIN emails -> Emails]
         /\ \A m \in DOMAIN emails :
              emails'[m].folder = IF m \in ids THEN folder ELSE emails[m].folder
<1>1. \A m \in DOMAIN emails :
        LET row == IF m \in ids THEN [emails[m] EXCEPT !.folder = folder] ELSE emails[m]
        IN /\ row \in Emails
           /\ row.folder = IF m \in ids THEN folder ELSE emails[m].folder
  BY RowsType DEF Emails
<1>2. QED
  BY <1>1 DEF SetFolder

LEMMA PurgeRows ==
  ASSUME MailTypes, NEW ids, Purge(ids)
  PROVE  /\ DOMAIN emails' = DOMAIN emails \ ids
         /\ emails' \in [DOMAIN emails \ ids -> Emails]
         /\ \A m \in DOMAIN emails \ ids : emails'[m].folder = emails[m].folder
  BY RowsType DEF Purge

LEMMA ToggleStarRows ==
  ASSUME MailTypes, NEW id, handleToggleStar(id)
  PROVE  /\ DOMAIN emails' = DOMAIN emails
         /\ emails' \in [DOMAIN emails -> Emails]
         /\ \A m \in DOMAIN emails : emails'[m].folder = emails[m].folder
<1>1. \A m \in DOMAIN emails :
        LET row == IF m = id THEN [emails[m] EXCEPT !.isStarred = ~@] ELSE emails[m]
        IN row \in Emails /\ row.folder = emails[m].folder
  BY RowsType DEF Emails
<1>2. QED
  BY <1>1 DEF handleToggleStar

LEMMA AddEmailRows ==
  ASSUME MailTypes, NEW id, NEW folder \in StoredFolders, AddEmail(id, folder)
  PROVE  /\ id \notin DOMAIN emails
         /\ DOMAIN emails' = DOMAIN emails \cup {id}
         /\ emails' \in [DOMAIN emails \cup {id} -> Emails]
         /\ \A m \in DOMAIN emails : emails'[m].folder = emails[m].folder
<1>1. [folder |-> folder, isStarred |-> FALSE] \in Emails
  BY DEF Emails
<1>2. id \notin DOMAIN emails
  BY DEF AddEmail, MailTypes
<1>3. QED
  BY <1>1, <1>2, RowsType DEF AddEmail

(* What is listed exists, and the folders that store e-mails list theirs.  *)
LEMMA Listed ==
  ASSUME MailTypes, NEW folder, NEW category
  PROVE  /\ Listing(folder, category) \subseteq live
         /\ live \subseteq named /\ named \subseteq Ids
         /\ folder \in StoredFolders => Listing(folder, category) \subseteq InFolder(folder)
  BY DEF Listing, live, InFolder, StoredFolders, MailTypes

LEMMA ItemType ==
  ASSUME MailTypes, NEW id \in live
  PROVE  Item(id) \in [id : Ids, folder : Views] /\ Item(id).id = id /\ id \in named
  BY RowsType DEF Item, live, MailTypes, Ids, Views

-----------------------------------------------------------------------------
(* What every click does to the bar.                                       *)

LEMMA RenderedBarType ==
  ASSUME MailTypes, NEW folder, NEW category, NEW open,
         NEW bar, bar = BarIn(folder, category, open)
  PROVE  Leaving(bar) \in Bars /\ Leaving(bar).listed \subseteq named
<1> DEFINE listing == Listing(folder, category)
           closes == open # NoEmail /\ open.id \in selectedEmailIds
<1>1. listing \subseteq named /\ listing \subseteq Ids
  BY Listed
<1>2. bar = [moves |-> {"Inbox", "Spam"} \ {folder}, purges |-> folder = "Trash",
             ticked |-> selectedEmailIds, listed |-> listing, closesPane |-> closes,
             clicks |-> MaxExitClicks]
  BY DEF BarIn
<1>3. selectedEmailIds \in SUBSET Ids /\ MaxExitClicks \in 0..MaxExitClicks
  BY WorkspaceAssumption DEF MailTypes
<1>4. closes \in BOOLEAN /\ (folder = "Trash") \in BOOLEAN
  OBVIOUS
<1> HIDE DEF listing, closes
<1>5. bar \in Bars /\ bar.listed = listing
  BY <1>1, <1>2, <1>3, <1>4 DEF Bars
<1>6. [bar EXCEPT !.listed = {}] \in Bars /\ [bar EXCEPT !.listed = {}].listed = {}
  BY <1>5 DEF Bars
<1> QED
  BY <1>1, <1>5, <1>6 DEF Leaving

LEMMA BarStep ==
  ASSUME IInv, MailTypes', named \subseteq named', AnimatePresence
  PROVE  BarInv'
<1>1. NoBar \in Bars /\ NoBar.listed = {}
  BY WorkspaceAssumption DEF NoBar, Bars
<1>2. CASE ~ListPane' \/ selectedEmailIds' # {}
  <2>1. leavingBar' = NoBar
    BY <1>2 DEF AnimatePresence
  <2>2. NoBar' = NoBar
    BY DEF NoBar
  <2> QED
    BY <1>1, <2>1, <2>2 DEF BarInv
<1>3. CASE ~(~ListPane' \/ selectedEmailIds' # {}) /\ selectedEmailIds # {}
  <2>1. PICK folder, category, open : leavingBar' = Leaving(BarIn(folder, category, open))
    BY <1>3 DEF AnimatePresence, RenderedBar
  <2>2. leavingBar' \in Bars /\ leavingBar'.listed \subseteq named
    BY <2>1, RenderedBarType DEF IInv, PageInv
  <2> QED
    BY <1>3, <2>2 DEF BarInv
<1>4. CASE ~(~ListPane' \/ selectedEmailIds' # {}) /\ selectedEmailIds = {}
  <2>1. leavingBar' = IF leavingBar.clicks > 1 THEN [leavingBar EXCEPT !.clicks = @ - 1]
                                               ELSE NoBar
    BY <1>4 DEF AnimatePresence
  <2>2. NoBar' = NoBar /\ (leavingBar = NoBar => ~(leavingBar.clicks > 1))
    BY DEF NoBar
  <2>3. CASE leavingBar.clicks > 1
    <3>1. leavingBar \in Bars /\ leavingBar # NoBar /\ leavingBar.listed \subseteq named
      BY <2>2, <2>3 DEF IInv, BarInv
    <3>2. [leavingBar EXCEPT !.clicks = @ - 1] \in Bars
      BY <2>3, <3>1, WorkspaceAssumption DEF Bars
    <3>3. [leavingBar EXCEPT !.clicks = @ - 1].listed = leavingBar.listed
      BY <3>1 DEF Bars
    <3> QED
      BY <1>4, <2>1, <2>3, <3>1, <3>2, <3>3 DEF BarInv
  <2>4. CASE ~(leavingBar.clicks > 1)
    BY <1>1, <2>1, <2>2, <2>4 DEF BarInv
  <2> QED
    BY <2>3, <2>4
<1> QED
  BY <1>2, <1>3, <1>4

-----------------------------------------------------------------------------
(* Clicks that leave the lists alone.                                      *)

(* A changed folder or category: what is open afterwards is given.         *)
LEMMA LoadEffectStep ==
  ASSUME PageInv, NothingLate, NEW folder \in Views, NEW category \in Categories \cup {"All"},
         LoadEffect(folder, category), UNCHANGED <<lists, searching>>,
         \/ selectedEmail' \in {NoEmail, selectedEmail}
         \/ \E id \in live : selectedEmail' = Item(id)
  PROVE  PageInv'
<1>1. MailTypes'
  <2>1. selectedEmail' \in {NoEmail} \cup [id : Ids, folder : Views]
    BY ItemType DEF PageInv, MailTypes
  <2>2. selectedEmailIds' \subseteq Ids
    BY DEF LoadEffect, PageInv, MailTypes
  <2>3. isLoadingMails' \in BOOLEAN /\ loadTimer' \in BOOLEAN
    BY DEF LoadEffect, load, PageInv, MailTypes
  <2> QED
    BY <2>1, <2>2, <2>3 DEF LoadEffect, lists, PageInv, MailTypes
<1>2. TicksAreNamed' /\ lateTicks' \subseteq selectedEmailIds' /\ paneMissed' \in BOOLEAN
  BY DEF LoadEffect, lists, PageInv, TicksAreNamed, NothingLate
<1>3. SelectedIsLiveUnlessLate'
  <2>1. CASE selectedEmail' \in {NoEmail, selectedEmail}
    BY <2>1 DEF lists, PageInv, SelectedIsLiveUnlessLate, Item, NothingLate
  <2>2. CASE \E id \in live : selectedEmail' = Item(id)
    BY <2>2, ItemType DEF lists, PageInv, SelectedIsLiveUnlessLate, Item, live
  <2> QED
    BY <2>1, <2>2
<1>4. TicksInFolder'
  <2>1. \/ selectedEmailIds' = {}
        \/ UNCHANGED <<selectedEmailIds, lateTicks, activeFolder>>
    BY DEF LoadEffect, place, NothingLate, PageInv
  <2> QED
    BY <2>1 DEF lists, PageInv, TicksInFolder, ListPane
<1> QED
  BY <1>1, <1>2, <1>3, <1>4 DEF PageInv

(* Another message is opened.                                              *)
LEMMA OpenStep ==
  ASSUME PageInv, NothingLate, NEW id \in live, selectedEmail' = Item(id),
         UNCHANGED <<lists, place, searching, load, selectedEmailIds>>
  PROVE  PageInv'
<1>1. lateTicks' = lateTicks /\ paneMissed' \in BOOLEAN
  BY DEF NothingLate, PageInv
<1> QED
  BY <1>1, ItemType
  DEF PageInv, MailTypes, TicksAreNamed, SelectedIsLiveUnlessLate, TicksInFolder,
      ListPane, Item, live, lists, place, load

(* The ticks change to a part of what was ticked or is listed.             *)
LEMMA TickStep ==
  ASSUME PageInv, NothingLate, ListPane,
         selectedEmailIds' \subseteq selectedEmailIds \cup getFolderEmails,
         UNCHANGED <<lists, place, searching, load, selectedEmail>>
  PROVE  PageInv'
<1>1. selectedEmailIds' \subseteq named /\ selectedEmailIds' \subseteq Ids
  BY Listed DEF PageInv, MailTypes, TicksAreNamed, getFolderEmails
<1>2. /\ lateTicks' = lateTicks \cap selectedEmailIds'
      /\ paneMissed' = paneMissed /\ paneMissed \in BOOLEAN
  BY DEF NothingLate, PageInv
<1>3. TicksInFolder'
  <2>1. ListPane'
    BY DEF ListPane, place
  <2>2. ASSUME activeFolder \in StoredFolders, NEW id \in selectedEmailIds' \ lateTicks'
        PROVE  /\ id \in MailIds
               /\ id \in DOMAIN emails => emails[id].folder \in {activeFolder, "Trash"}
    <3>1. CASE id \in selectedEmailIds
      BY <1>2, <2>2, <3>1 DEF PageInv, TicksInFolder
    <3>2. CASE id \in getFolderEmails
      BY <2>2, <3>2, Listed DEF PageInv, MailTypes, getFolderEmails, InFolder
    <3> QED
      BY <2>2, <3>1, <3>2
  <2> QED
    BY <2>1, <2>2 DEF TicksInFolder, place, lists
<1> QED
  BY <1>1, <1>2, <1>3
  DEF PageInv, MailTypes, TicksAreNamed, SelectedIsLiveUnlessLate, Item, lists, place, load

-----------------------------------------------------------------------------
(* Clicks that change the lists.                                           *)

LEMMA ToggleStarStep ==
  ASSUME PageInv, NothingLate, NEW id, handleToggleStar(id)
  PROVE  PageInv'
<1>1. MailTypes
  BY DEF PageInv
<1>2. lateTicks' = lateTicks /\ paneMissed' = paneMissed
  BY DEF NothingLate, PageInv, handleToggleStar
<1>3. MailTypes'
  BY <1>1, ToggleStarRows DEF handleToggleStar, place, load, MailTypes
<1>4. SelectedIsLiveUnlessLate'
  BY <1>1, <1>2, ToggleStarRows
  DEF handleToggleStar, PageInv, SelectedIsLiveUnlessLate, Item
<1>5. TicksAreNamed'
  BY DEF handleToggleStar, PageInv, TicksAreNamed
<1>6. TicksInFolder'
  BY <1>1, <1>2, ToggleStarRows
  DEF handleToggleStar, place, PageInv, TicksInFolder, ListPane
<1> QED
  BY <1>2, <1>3, <1>4, <1>5, <1>6 DEF PageInv, handleToggleStar

(* What is removed is the item handed over, and that one says Trash.       *)
LEMMA DeleteMailStep ==
  ASSUME PageInv, NothingLate, NEW item, handleDeleteMail(item)
  PROVE  /\ PageInv'
         /\ \A m \in DOMAIN emails \ DOMAIN emails' : m = item.id /\ item.folder = "Trash"
<1>1. MailTypes
  BY DEF PageInv
<1>2. /\ selectedEmail' = NoEmail
      /\ UNCHANGED <<named, activeFolder, activeCategory, searching, isLoadingMails,
                     loadTimer, selectedEmailIds>>
      /\ lateTicks' = lateTicks /\ paneMissed' \in BOOLEAN
  BY DEF handleDeleteMail, place, load, NothingLate, PageInv
<1>3. /\ draftsList' \subseteq draftsList /\ scheduledList' \subseteq scheduledList
      /\ DOMAIN emails' \subseteq DOMAIN emails
      /\ emails' \in [DOMAIN emails' -> Emails]
      /\ \A m \in DOMAIN emails' : emails'[m].folder \in {emails[m].folder, "Trash"}
      /\ \A m \in DOMAIN emails \ DOMAIN emails' : m = item.id /\ item.folder = "Trash"
  <2>1. CASE item.folder \in {"Drafts", "Scheduled"}
    BY <1>1, <2>1 DEF handleDeleteMail, handleDeleteDraft, handleCancelSchedule, MailTypes
  <2>2. CASE item.folder = "Trash"
    <3>1. Purge({item.id}) /\ UNCHANGED <<draftsList, scheduledList>>
      BY <2>2 DEF handleDeleteMail
    <3>2. /\ DOMAIN emails' = DOMAIN emails \ {item.id}
          /\ emails' \in [DOMAIN emails \ {item.id} -> Emails]
          /\ \A m \in DOMAIN emails \ {item.id} : emails'[m].folder = emails[m].folder
      BY <1>1, <3>1, PurgeRows
    <3> QED
      BY <2>2, <3>1, <3>2
  <2>3. CASE item.folder \notin {"Drafts", "Scheduled", "Trash"}
    <3>1. SetFolder({item.id}, "Trash") /\ UNCHANGED <<draftsList, scheduledList>>
      BY <2>3 DEF handleDeleteMail
    <3>2. /\ DOMAIN emails' = DOMAIN emails
          /\ emails' \in [DOMAIN emails -> Emails]
          /\ \A m \in DOMAIN emails :
               emails'[m].folder = IF m \in {item.id} THEN "Trash" ELSE emails[m].folder
      BY <1>1, <3>1, SetFolderRows DEF StoredFolders
    <3> QED
      BY <3>1, <3>2
  <2> QED
    BY <2>1, <2>2, <2>3
<1>4. MailTypes'
  BY <1>1, <1>2, <1>3 DEF MailTypes
<1>5. SelectedIsLiveUnlessLate' /\ TicksAreNamed'
  BY <1>2 DEF PageInv, SelectedIsLiveUnlessLate, TicksAreNamed
<1>6. TicksInFolder'
  BY <1>2, <1>3 DEF PageInv, TicksInFolder, ListPane
<1> QED
  BY <1>2, <1>3, <1>4, <1>5, <1>6 DEF PageInv

(* Both bulk moves, of a bar that ticked ids: nothing stays ticked, and    *)
(* what is still open was not among them.                                  *)
LEMMA BulkStep ==
  ASSUME PageInv, NEW ids, selectedEmailIds' = {}, lateTicks' = {}, paneMissed' \in BOOLEAN,
         selectedEmail' \in {NoEmail, selectedEmail},
         selectedEmail' # NoEmail /\ ~paneMissed' => ~paneMissed /\ selectedEmail.id \notin ids,
         DOMAIN emails' \subseteq DOMAIN emails,
         DOMAIN emails \ ids \subseteq DOMAIN emails',
         emails' \in [DOMAIN emails' -> Emails],
         \A m \in DOMAIN emails \ ids : emails'[m].folder = emails[m].folder,
         draftsList' \subseteq draftsList, draftsList \ ids \subseteq draftsList',
         scheduledList' \subseteq scheduledList, scheduledList \ ids \subseteq scheduledList',
         UNCHANGED <<named, place, searching, load>>
  PROVE  PageInv'
<1>1. MailTypes'
  BY DEF place, load, PageInv, MailTypes
<1>2. SelectedIsLiveUnlessLate'
  <2> SUFFICES ASSUME selectedEmail' # NoEmail, ~paneMissed'
               PROVE  /\ selectedEmail'.id \in live'
                      /\ selectedEmail' = Item(selectedEmail.id)'
    BY DEF SelectedIsLiveUnlessLate, live
  <2>1. /\ selectedEmail' = selectedEmail /\ selectedEmail.id \notin ids
        /\ selectedEmail.id \in live /\ selectedEmail = Item(selectedEmail.id)
    BY DEF PageInv, SelectedIsLiveUnlessLate, live
  <2>2. selectedEmail.id \in DOMAIN emails <=> selectedEmail.id \in DOMAIN emails'
    BY <2>1
  <2> QED
    BY <2>1, <2>2 DEF live, Item
<1>3. TicksAreNamed' /\ TicksInFolder'
  BY DEF TicksAreNamed, TicksInFolder
<1> QED
  BY <1>1, <1>2, <1>3 DEF PageInv

(* The bar that acts: whose ticks they are, and what becomes of the pane.  *)
LEMMA BulkMovesStep ==
  ASSUME PageInv, NEW bar, bar.moves \subseteq StoredFolders, BulkMoves(bar),
         lateTicks' = {}, paneMissed' \in BOOLEAN,
         selectedEmail' # NoEmail /\ ~paneMissed' =>
           ~paneMissed /\ selectedEmail.id \notin bar.ticked
  PROVE  /\ PageInv' /\ UNCHANGED named
         /\ \A m \in DOMAIN emails \ DOMAIN emails' : bar.purges /\ m \in bar.ticked
<1>1. MailTypes
  BY DEF PageInv
<1>2. ClearTicked(bar) /\ UNCHANGED <<named, place, searching, load>>
  BY DEF BulkMoves, handleBulkMove, handleBulkDelete
<1>3. /\ DOMAIN emails' \subseteq DOMAIN emails
      /\ DOMAIN emails \ bar.ticked \subseteq DOMAIN emails'
      /\ emails' \in [DOMAIN emails' -> Emails]
      /\ \A m \in DOMAIN emails \ bar.ticked : emails'[m].folder = emails[m].folder
      /\ \A m \in DOMAIN emails \ DOMAIN emails' : bar.purges /\ m \in bar.ticked
      /\ draftsList' \in {draftsList, draftsList \ bar.ticked}
      /\ scheduledList' \in {scheduledList, scheduledList \ bar.ticked}
  <2>1. CASE \E folder \in bar.moves : handleBulkMove(bar, folder)
    <3>1. PICK folder \in StoredFolders : handleBulkMove(bar, folder)
      BY <2>1
    <3>2. SetFolder(bar.ticked, folder) /\ UNCHANGED <<draftsList, scheduledList>>
      BY <3>1 DEF handleBulkMove
    <3>3. /\ DOMAIN emails' = DOMAIN emails /\ emails' \in [DOMAIN emails -> Emails]
          /\ \A m \in DOMAIN emails \ bar.ticked : emails'[m].folder = emails[m].folder
      BY <1>1, <3>2, SetFolderRows
    <3> QED
      BY <3>2, <3>3
  <2>2. CASE handleBulkDelete(bar) /\ bar.purges
    <3>1. Purge(bar.ticked)
      BY <2>2 DEF handleBulkDelete
    <3>2. /\ DOMAIN emails' = DOMAIN emails \ bar.ticked
          /\ emails' \in [DOMAIN emails' -> Emails]
          /\ \A m \in DOMAIN emails \ bar.ticked : emails'[m].folder = emails[m].folder
      BY <1>1, <3>1, PurgeRows
    <3> QED
      BY <2>2, <3>2 DEF handleBulkDelete
  <2>3. CASE handleBulkDelete(bar) /\ ~bar.purges
    <3>1. SetFolder(bar.ticked, "Trash")
      BY <2>3 DEF handleBulkDelete
    <3>2. /\ DOMAIN emails' = DOMAIN emails /\ emails' \in [DOMAIN emails -> Emails]
          /\ \A m \in DOMAIN emails \ bar.ticked : emails'[m].folder = emails[m].folder
      BY <1>1, <3>1, SetFolderRows DEF StoredFolders
    <3> QED
      BY <2>3, <3>2 DEF handleBulkDelete
  <2> QED
    BY <2>1, <2>2, <2>3 DEF BulkMoves
<1>4. selectedEmailIds' = {} /\ selectedEmail' \in {NoEmail, selectedEmail}
  BY <1>2 DEF ClearTicked
<1>5. /\ draftsList' \subseteq draftsList /\ draftsList \ bar.ticked \subseteq draftsList'
      /\ scheduledList' \subseteq scheduledList
      /\ scheduledList \ bar.ticked \subseteq scheduledList'
  BY <1>3
<1> QED
  BY <1>2, <1>3, <1>4, <1>5, BulkStep

(* A new name is not ticked and not open.                                  *)
LEMMA AddEmailStep ==
  ASSUME PageInv, NothingLate, NEW id \in MailIds, NEW folder \in StoredFolders,
         AddEmail(id, folder)
  PROVE  PageInv' /\ DOMAIN emails \subseteq DOMAIN emails'
<1>1. MailTypes
  BY DEF PageInv
<1>2. /\ id \notin named /\ named' = named \cup {id}
      /\ UNCHANGED <<draftsList, scheduledList, activeFolder, activeCategory, searching,
                     isLoadingMails, loadTimer, selectedEmailIds, selectedEmail>>
      /\ lateTicks' = lateTicks /\ paneMissed' = paneMissed
  BY DEF AddEmail, place, load, NothingLate, PageInv
<1>3. MailTypes'
  BY <1>1, <1>2, AddEmailRows DEF MailTypes, Ids
<1>4. TicksAreNamed'
  BY <1>2 DEF PageInv, TicksAreNamed
<1>5. SelectedIsLiveUnlessLate'
  <2> SUFFICES ASSUME selectedEmail # NoEmail, ~paneMissed
               PROVE  /\ selectedEmail.id \in live'
                      /\ selectedEmail = Item(selectedEmail.id)'
    BY <1>2 DEF SelectedIsLiveUnlessLate, live
  <2>1. selectedEmail.id \in live /\ selectedEmail = Item(selectedEmail.id)
    BY DEF PageInv, SelectedIsLiveUnlessLate, live
  <2>2. selectedEmail.id \in named
    BY <1>1, <2>1, ItemType
  <2>3. /\ DOMAIN emails' = DOMAIN emails \cup {id}
        /\ \A m \in DOMAIN emails : emails'[m].folder = emails[m].folder
    BY <1>1, AddEmailRows
  <2>4. selectedEmail.id # id
    BY <1>2, <2>2
  <2>5. selectedEmail.id \in live'
    BY <1>2, <2>1, <2>3 DEF live
  <2>6. Item(selectedEmail.id)' = Item(selectedEmail.id)
    BY <1>2, <2>3, <2>4 DEF Item
  <2> QED
    BY <1>2, <2>1, <2>5, <2>6
<1>6. TicksInFolder'
  <2>1. id \notin selectedEmailIds
    BY <1>2 DEF PageInv, TicksAreNamed
  <2>2. selectedEmailIds \cap DOMAIN emails' = selectedEmailIds \cap DOMAIN emails
    BY <1>1, <2>1, AddEmailRows
  <2>3. \A m \in selectedEmailIds \cap DOMAIN emails : emails'[m].folder = emails[m].folder
    BY <1>1, AddEmailRows
  <2> QED
    BY <1>2, <2>2, <2>3 DEF PageInv, TicksInFolder, ListPane
<1> QED
  BY <1>1, <1>2, <1>3, <1>4, <1>5, <1>6, AddEmailRows DEF PageInv

LEMMA ComposerAddsStep ==
  ASSUME PageInv, NothingLate, ComposerAdds
  PROVE  PageInv' /\ named \subseteq named' /\ DOMAIN emails \subseteq DOMAIN emails'
<1>1. CASE \E id \in MailIds : AddEmail(id, "Sent")
  BY <1>1, AddEmailStep DEF StoredFolders, AddEmail
<1>2. ASSUME NEW id \in (DraftIds \cup SchedIds) \ named, named' = named \cup {id},
             \/ draftsList' = draftsList
             \/ draftsList' = draftsList \cup {id} /\ id \in DraftIds,
             \/ scheduledList' = scheduledList
             \/ scheduledList' = scheduledList \cup {id} /\ id \in SchedIds,
             UNCHANGED <<emails, place, searching, load, selectedEmailIds, selectedEmail>>
      PROVE  PageInv'
  <2>1. lateTicks' = lateTicks /\ paneMissed' = paneMissed
    BY <1>2 DEF NothingLate, PageInv
  <2>2. MailTypes'
    BY <1>2 DEF PageInv, MailTypes, place, load, Ids
  <2>3. SelectedIsLiveUnlessLate'
    BY <1>2, <2>1 DEF PageInv, SelectedIsLiveUnlessLate, Item
  <2>4. TicksAreNamed' /\ TicksInFolder'
    BY <1>2, <2>1 DEF PageInv, TicksAreNamed, TicksInFolder, ListPane, place
  <2> QED
    BY <1>2, <2>1, <2>2, <2>3, <2>4 DEF PageInv
<1> QED
  BY <1>1, <1>2 DEF ComposerAdds

-----------------------------------------------------------------------------

LEMMA InitIInv == Init => IInv
<1> SUFFICES ASSUME Init PROVE IInv
  OBVIOUS
<1>1. MailTypes
  BY WorkspaceAssumption, SeedAssumption DEF Init, MailTypes, Ids, Views
<1>2. TicksAreNamed /\ SelectedIsLiveUnlessLate /\ TicksInFolder
  BY DEF Init, TicksAreNamed, SelectedIsLiveUnlessLate, TicksInFolder
<1>3. BarInv
  BY WorkspaceAssumption DEF Init, BarInv, NoBar, Bars
<1> QED
  BY <1>1, <1>2, <1>3 DEF IInv, PageInv, Init

LEMMA ListItemStep ==
  ASSUME PageInv, NothingLate, ListPane, NEW id \in getFolderEmails, ListItem(id)
  PROVE  PageInv' /\ OnlyTrashLeaves /\ UNCHANGED named
<1>1. MailTypes /\ id \in live
  BY Listed DEF PageInv, getFolderEmails
<1>2. CASE /\ selectedEmail' = Item(id)
           /\ UNCHANGED <<lists, place, searching, load, selectedEmailIds>>
  BY <1>1, <1>2, OpenStep DEF OnlyTrashLeaves, lists
<1>3. CASE /\ selectedEmailIds' = IF id \in selectedEmailIds
                                    THEN selectedEmailIds \ {id}
                                    ELSE selectedEmailIds \cup {id}
           /\ UNCHANGED <<lists, place, searching, load, selectedEmail>>
  <2>1. selectedEmailIds' \subseteq selectedEmailIds \cup getFolderEmails
    BY <1>3
  <2> QED
    BY <1>3, <2>1, TickStep DEF OnlyTrashLeaves, lists
<1>4. CASE handleToggleStar(id)
  BY <1>1, <1>4, ToggleStarStep, ToggleStarRows DEF OnlyTrashLeaves, handleToggleStar
<1>5. CASE handleDeleteMail(Item(id))
  <2>1. /\ PageInv' /\ UNCHANGED named
        /\ \A m \in DOMAIN emails \ DOMAIN emails' :
             m = Item(id).id /\ Item(id).folder = "Trash"
    BY <1>5, DeleteMailStep DEF handleDeleteMail
  <2> QED
    BY <2>1 DEF OnlyTrashLeaves, Item
<1> QED
  BY <1>2, <1>3, <1>4, <1>5 DEF ListItem

LEMMA BulkBarStep ==
  ASSUME PageInv, NothingLate, BulkBar
  PROVE  PageInv' /\ OnlyTrashLeaves /\ UNCHANGED named
<1> DEFINE bar == RenderedBar
<1>1. /\ bar.ticked = selectedEmailIds /\ bar.listed = getFolderEmails
      /\ bar.moves \subseteq StoredFolders /\ bar.purges = (activeFolder = "Trash")
      /\ bar.closesPane =
           (selectedEmail # NoEmail /\ selectedEmail.id \in selectedEmailIds)
  BY DEF RenderedBar, BarIn, StoredFolders, getFolderEmails
<1> HIDE DEF bar
<1>2. ListPane /\ lateTicks' = lateTicks \cap selectedEmailIds' /\ paneMissed' \in BOOLEAN
  BY DEF BulkBar, NothingLate, PageInv
<1>3. CASE handleToggleSelectAll(bar) \/ handleBulkMarkRead(bar)
  <2>1. /\ selectedEmailIds' \subseteq selectedEmailIds \cup getFolderEmails
        /\ UNCHANGED <<lists, place, searching, load, selectedEmail>>
    BY <1>1, <1>3 DEF handleToggleSelectAll, handleBulkMarkRead
  <2> QED
    BY <1>2, <2>1, TickStep DEF OnlyTrashLeaves, lists
<1>4. CASE BulkMoves(bar)
  <2>1. ClearTicked(bar)
    BY <1>4 DEF BulkMoves, handleBulkMove, handleBulkDelete
  <2>2. lateTicks' = {}
    BY <1>2, <2>1 DEF ClearTicked
  <2>3. selectedEmail' # NoEmail /\ ~paneMissed' =>
          ~paneMissed /\ selectedEmail.id \notin bar.ticked
    BY <1>1, <2>1 DEF ClearTicked, NothingLate
  <2>4. /\ PageInv' /\ UNCHANGED named
        /\ \A m \in DOMAIN emails \ DOMAIN emails' : bar.purges /\ m \in bar.ticked
    BY <1>1, <1>2, <1>4, <2>2, <2>3, BulkMovesStep
  <2>5. ASSUME NEW m \in DOMAIN emails \ DOMAIN emails'
        PROVE  emails[m].folder = "Trash" \/ m \in lateTicks
    BY <1>1, <2>4, <2>5 DEF PageInv, TicksInFolder, StoredFolders
  <2> QED
    BY <2>4, <2>5 DEF OnlyTrashLeaves
<1> QED
  BY <1>3, <1>4 DEF BulkBar, bar

LEMMA LeavingBarStep ==
  ASSUME IInv, LeavingBar
  PROVE  PageInv' /\ OnlyTrashLeaves /\ UNCHANGED named
<1>1. /\ selectedEmailIds = {} /\ lateTicks = {} /\ ListPane /\ leavingBar \in Bars
      /\ leavingBar.listed \subseteq named
  BY DEF LeavingBar, IInv, BarInv, PageInv
<1>2. CASE /\ handleToggleSelectAll(leavingBar)
           /\ lateTicks' = selectedEmailIds' /\ UNCHANGED paneMissed
  <2>1. /\ selectedEmailIds' \subseteq named /\ selectedEmailIds' \subseteq Ids
        /\ UNCHANGED <<lists, place, searching, load, selectedEmail>>
    BY <1>1, <1>2 DEF handleToggleSelectAll, IInv, PageInv, MailTypes
  <2>2. MailTypes'
    BY <2>1 DEF IInv, PageInv, MailTypes, lists, place, load
  <2>3. SelectedIsLiveUnlessLate'
    BY <1>2, <2>1 DEF IInv, PageInv, SelectedIsLiveUnlessLate, Item, lists
  <2>4. TicksInFolder' /\ TicksAreNamed'
    BY <1>1, <1>2, <2>1 DEF TicksInFolder, TicksAreNamed, ListPane, lists, place
  <2> QED
    BY <1>2, <2>1, <2>2, <2>3, <2>4 DEF IInv, PageInv, OnlyTrashLeaves, lists
<1>3. CASE handleBulkMarkRead(leavingBar) /\ UNCHANGED late
  <2>1. UNCHANGED <<lists, place, searching, load, selectedEmail, selectedEmailIds, late>>
    BY <1>1, <1>3 DEF handleBulkMarkRead
  <2> QED
    BY <2>1 DEF IInv, PageInv, MailTypes, TicksAreNamed, SelectedIsLiveUnlessLate,
       TicksInFolder, ListPane, Item, OnlyTrashLeaves, lists, place, load, late
<1>4. CASE /\ BulkMoves(leavingBar)
           /\ paneMissed' = (selectedEmail' # NoEmail /\
                               (paneMissed \/ selectedEmail.id \in leavingBar.ticked))
           /\ UNCHANGED lateTicks
  <2>1. leavingBar.moves \subseteq StoredFolders
    BY <1>1 DEF Bars, StoredFolders
  <2>2. /\ PageInv' /\ UNCHANGED named
        /\ \A m \in DOMAIN emails \ DOMAIN emails' :
             leavingBar.purges /\ m \in leavingBar.ticked
    BY <1>1, <1>4, <2>1, BulkMovesStep DEF IInv
  <2> QED
    BY <2>2 DEF OnlyTrashLeaves
<1> QED
  BY <1>2, <1>3, <1>4 DEF LeavingBar

LEMMA ReadingPaneStep ==
  ASSUME PageInv, NothingLate, ReadingPane
  PROVE  PageInv' /\ OnlyTrashLeaves /\ UNCHANGED named
<1>1. MailTypes /\ paneMissed \in BOOLEAN
  BY DEF PageInv
<1>2. CASE handleDeleteMail(selectedEmail)
  <2>1. /\ PageInv' /\ UNCHANGED named
        /\ \A m \in DOMAIN emails \ DOMAIN emails' :
             m = selectedEmail.id /\ selectedEmail.folder = "Trash"
    BY <1>2, DeleteMailStep DEF handleDeleteMail
  <2>2. ~paneMissed => selectedEmail = Item(selectedEmail.id)
    BY DEF ReadingPane, PageInv, SelectedIsLiveUnlessLate
  <2>3. \A m \in DOMAIN emails : Item(m).folder = emails[m].folder
    BY DEF Item
  <2> QED
    BY <1>1, <2>1, <2>2, <2>3 DEF OnlyTrashLeaves
<1>3. CASE handleToggleStar(selectedEmail.id)
  BY <1>1, <1>3, ToggleStarStep, ToggleStarRows DEF OnlyTrashLeaves, handleToggleStar
<1> QED
  BY <1>2, <1>3 DEF ReadingPane

(* The navigation: another folder, category or message of the dashboard.   *)
LEMMA NavigationStep ==
  ASSUME PageInv, NothingLate,
         FolderMenu \/ SettingsEntry \/ CategoryPills \/ DashboardCards \/ DashboardRecent
  PROVE  PageInv' /\ OnlyTrashLeaves /\ UNCHANGED named
<1>1. activeCategory \in Categories \cup {"All"} /\ MailTypes
  BY DEF PageInv, MailTypes
<1>2. CASE FolderMenu
  BY <1>1, <1>2, LoadEffectStep DEF FolderMenu, OnlyTrashLeaves, lists
<1>3. CASE SettingsEntry
  BY <1>1, <1>3, LoadEffectStep DEF SettingsEntry, OnlyTrashLeaves, lists, Views
<1>4. CASE CategoryPills
  BY <1>4, LoadEffectStep DEF CategoryPills, OnlyTrashLeaves, lists, Views, StoredFolders
<1>5. CASE DashboardCards
  BY <1>1, <1>5, LoadEffectStep
  DEF DashboardCards, OnlyTrashLeaves, lists, Views, StoredFolders
<1>6. CASE DashboardRecent
  <2>1. PICK m \in DOMAIN emails :
          selectedEmail' = Item(m) /\ LoadEffect(emails[m].folder, activeCategory)
    BY <1>6 DEF DashboardRecent, RecentReceived, InFolder
  <2>2. m \in live /\ emails[m].folder \in Views
    BY <1>1, RowsType DEF live, Views
  <2> QED
    BY <1>1, <1>6, <2>1, <2>2, LoadEffectStep DEF DashboardRecent, OnlyTrashLeaves, lists
<1> QED
  BY <1>2, <1>3, <1>4, <1>5, <1>6

LEMMA ClickStep ==
  ASSUME PageInv, NothingLate, Click
  PROVE  PageInv' /\ OnlyTrashLeaves /\ named \subseteq named'
<1>1. CASE SearchBar
  <2>1. lateTicks' = lateTicks /\ paneMissed' = paneMissed
    BY <1>1 DEF SearchBar, NothingLate, PageInv
  <2> QED
    BY <1>1, <2>1 DEF SearchBar, lists, place, load, PageInv, MailTypes, TicksAreNamed,
       SelectedIsLiveUnlessLate, TicksInFolder, ListPane, Item, OnlyTrashLeaves
<1>2. CASE FolderMenu \/ SettingsEntry \/ CategoryPills \/ DashboardCards \/ DashboardRecent
  BY <1>2, NavigationStep
<1>3. CASE MessageList
  BY <1>3, ListItemStep DEF MessageList
<1>4. CASE BulkBar
  BY <1>4, BulkBarStep
<1>5. CASE ReadingPane
  BY <1>5, ReadingPaneStep
<1>6. CASE ConversationThread
  BY <1>6, OpenStep DEF ConversationThread, OnlyTrashLeaves, lists, live
<1>7. CASE ConsoleDeposits
  BY <1>7, AddEmailStep DEF ConsoleDeposits, StoredFolders, OnlyTrashLeaves, AddEmail
<1>8. CASE ComposerAdds
  BY <1>8, ComposerAddsStep DEF OnlyTrashLeaves
<1> QED
  BY <1>1, <1>2, <1>3, <1>4, <1>5, <1>6, <1>7, <1>8 DEF Click

LEMMA NextIInv ==
  ASSUME IInv, [Next]_vars
  PROVE  IInv' /\ OnlyTrashLeaves
<1>1. CASE LoadTimerFires
  BY <1>1 DEF LoadTimerFires, lists, place, late, IInv, PageInv, BarInv, MailTypes,
     TicksAreNamed, SelectedIsLiveUnlessLate, TicksInFolder, ListPane, Item, OnlyTrashLeaves
<1>2. CASE ExitEnds
  <2>1. leavingBar' \in Bars /\ leavingBar'.listed = {}
    BY <1>2, WorkspaceAssumption DEF ExitEnds, NoBar, Bars
  <2> QED
    BY <1>2, <2>1 DEF ExitEnds, lists, place, load, late, IInv, PageInv, BarInv, MailTypes,
       TicksAreNamed, SelectedIsLiveUnlessLate, TicksInFolder, ListPane, Item,
       OnlyTrashLeaves
<1>3. CASE Click /\ NothingLate /\ AnimatePresence
  <2>1. PageInv' /\ OnlyTrashLeaves /\ named \subseteq named'
    BY <1>3, ClickStep DEF IInv
  <2> QED
    BY <1>3, <2>1, BarStep DEF IInv, PageInv
<1>4. CASE LeavingBar /\ AnimatePresence
  <2>1. PageInv' /\ OnlyTrashLeaves /\ UNCHANGED named
    BY <1>4, LeavingBarStep
  <2> QED
    BY <1>4, <2>1, BarStep DEF IInv, PageInv
<1>5. CASE UNCHANGED vars
  BY <1>5 DEF vars, lists, place, load, late, IInv, PageInv, BarInv, MailTypes,
     TicksAreNamed, SelectedIsLiveUnlessLate, TicksInFolder, ListPane, Item, OnlyTrashLeaves
<1> QED
  BY <1>1, <1>2, <1>3, <1>4, <1>5 DEF Next

LEMMA Invariant == Spec => []IInv
<1>1. IInv /\ [Next]_vars => IInv'
  BY NextIInv
<1> QED
  BY <1>1, InitIInv, PTL DEF Spec

(* The variables of the workspace keep their types.                        *)
THEOREM WorkspaceTypeCorrect == Spec => []TypeOK
<1>1. IInv => TypeOK
  BY DEF IInv, PageInv, BarInv, TypeOK, BarTypes
<1> QED
  BY <1>1, Invariant, PTL

(* The message in the reading pane exists and is where its copy says, but  *)
(* for one that a bar moved while it was leaving.                          *)
THEOREM PaneShowsLive == Spec => []SelectedIsLiveUnlessLate
<1>1. IInv => SelectedIsLiveUnlessLate
  BY DEF IInv, PageInv
<1> QED
  BY <1>1, Invariant, PTL

(* Ticks stay within the folder they were set in, but for those that a bar *)
(* set while it was leaving; and no bar outlives its list.                 *)
THEOREM TicksStay == Spec => []SelectionStaysUnlessLate
<1>1. IInv => SelectionStaysUnlessLate
  BY DEF IInv, PageInv, BarInv, TicksInFolder, SelectionStaysUnlessLate
<1> QED
  BY <1>1, Invariant, PTL

(* No click removes an e-mail that is not in the Trash, but for the three  *)
(* ways in which a bar that is leaving is behind it.                       *)
THEOREM PurgedFromTrash == Spec => PurgedFromTrashUnlessLate
<1>1. IInv /\ [Next]_vars => [OnlyTrashLeaves]_vars
  BY NextIInv
<1>2. [][OnlyTrashLeaves]_vars => PurgedFromTrashUnlessLate
  BY PTL DEF PurgedFromTrashUnlessLate, OnlyTrashLeaves
<1> QED
  BY <1>1, <1>2, Invariant, PTL DEF Spec
=============================================================================
