# Verification of the cloud mail server

TLA+ models of the services in `src/`, the TLC configurations that check them on
small instances, and TLAPS proofs of the properties that matter most.

## 1. Inventory of the system

| Component | State | Operations | Talks to |
|---|---|---|---|
| email-service, e-mail flow (`services-java/email-service`, `EmailPlatformService`) | tables `emails`, `folders` (with counters), `mailboxes` (with storage usage) | `sendAndStoreEmail`, `readEmail`, `deleteEmail`, listing | REST callers: retrieval-service, UI |
| email-service, mailboxes and folders | tables `mailboxes`, `folders` | `createMailbox`, `createFolder` | same |
| email-service, labels and drafts | tables `labels`, `drafts` | `createLabel`, `createOrUpdateDraft`, `deleteDraft` | same |
| smtp-ingress, session (`session.go`) | envelope, HELO name, body being read | HELO/EHLO, MAIL, RCPT, DATA, RSET, AUTH, NOOP, QUIT | Kafka publisher |
| smtp-ingress, server (`server.go`) | client counter, WaitGroup, `quit`, listener | accept loop, `Stop` | session goroutines |
| enterprise-service, scheduler (`scheduler.go`) | map of scheduled e-mails under a mutex | add, list, get, tick, dispatch, retry | HTTP handler, Kafka producer |
| enterprise-service, rules engine (`engine.go`) | rule list, auto-replies | evaluate, auto-reply, forward | HTTP handler |
| enterprise-service, API, audit and RBAC (`server.go`, `audit.go`) | audit log, role table | every HTTP route, `VerifyChainIntegrity` | all of the above |
| retrieval-service, POP3 (`pop3_server.go`) | session state, snapshot taken at PASS, deletion marks | USER, PASS, STAT, LIST, RETR, DELE, RSET, QUIT | email-service over REST (`client.go`, with mock answers when it is down) |
| retrieval-service, IMAP (`imap_server.go`) | session state, selected folder | LOGIN, LIST, SELECT, FETCH, STORE, LOGOUT | same client |
| security-and-search-service (`consumer.go`, `elasticsearch.go`, `spam.go`) | bounded channel of raw mail, index and its fallback map | inject, scan, index, search, stop | Kafka, Elasticsearch |
| attachment-service (`handler.go`) | metadata map, object store | upload, list with pages, download, delete | MinIO |
| account-service | entity classes only | none in the repository | |
| web console, mail workspace (`src/App.tsx`) | e-mails, drafts, scheduled e-mails, folder, category, search, ticks, the copy in the reading pane, loading timer | navigate, open, star, tick, delete, bulk actions | composer and simulator add to its lists |
| web console, composer | form, attachment queue | five ways to open it; attach, remove, schedule, save draft, send, cancel | lists, ledger |
| web console, rules, forwarding, auto-reply | rule list, channels, auto-reply switch | add and remove rules and channels, simulate an incoming e-mail | lists, ledger |
| web console, audit ledger | sealed rows, the sweep's verdict, the rows it named | sweep, "Hack IP", seal again; a row from each audited handler | all handlers above |
| web console, identity page | user, access token, refresh token | sign in, rotate, sign out (two places), test a route | the header |
| web console, SMTP terminal and unwired forms; theme and layout | presentation | bound to no control, or without effect on the rest | |
| deployment, monitoring | declarative | | |

What is hard in each, and what makes it correct:

* **e-mail flow.** Counters and usage are kept by hand, in transactions that
  read rows, compute, and write the whole rows back, without `@Version` or lock.
  Correct: counters equal the messages in the folder, usage equals the sizes
  stored; a message leaves the Trash only by a purge, and is purged only out of a
  folder called Trash; a purged message is gone.
* **mailboxes and folders.** Check-then-insert by concurrent transactions.
  Correct: addresses are unique, each mailbox has each standard folder once.
* **SMTP session.** An envelope built over several commands, kept after a refused
  DATA, discarded by MAIL/RSET/EHLO. Correct: a message goes to exactly the
  recipients of its own transaction, once, and 250 means it is queued.
* **SMTP server.** Counter, WaitGroup and `quit` touched by the accept loop, by
  session goroutines and by `Stop`. Correct: the limit holds, slots come back,
  after `Stop` nothing runs, and `Stop` ends.
* **scheduler.** Ticks keep coming while goroutines of earlier ticks publish
  outside the mutex, and requests bring their own retry count. Correct: one
  publication, the tries that count leaves, a truthful status, everything settles.
* **POP3, IMAP.** A session acts on a snapshot while others change the mailbox,
  through a client whose DELETE is not idempotent and which invents mock data
  when a call fails. Correct: what a session deletes is what its user saw.
* **search pipeline.** Stop against injection, a full buffer, an index that comes
  and goes. Correct: mail accepted is scanned once and then found.
* **attachments.** Two stores changed without a transaction; pages computed from a
  map in random order. Correct: metadata and objects agree; pages partition the
  list.
* **rules, audit, RBAC.** Order of the rules, change without trail.
* **drafts, labels.** Two saves of one draft.
* **mail workspace.** Ticks and the reading pane hold ids and copies that outlive
  the list they were taken from, the bulk handlers go by the folder shown, and the
  bulk bar can be clicked for another 0.22 s while it leaves, with the handlers of its
  last render. Correct: ticks and copy are of what is there, nothing outside the Trash
  is destroyed (the leaving bar breaks this: section 4), the loading skeleton ends.
* **composer.** One attachment queue for every message written in turn; only some
  ways of opening and closing the window empty it, and the window can be used for
  another 0.2 s while it leaves. Correct: a file leaves once (the leaving window breaks
  this: section 4), with a message it may be in.
* **rules, forwarding, simulator.** Rules in the order added, moves and DISCARD marks
  overriding one another. Correct: the last rule that places a packet decides.
* **audit ledger.** A verdict about the ledger as it was swept. Correct: while it
  stands, and for every row painted red, it is true of the ledger as it is.
* **identity page.** Three pieces of state make a session. Correct: all or none of
  them, and access to the protected routes by role.

The hazards, each at its line and with the properties that cover it, are in
`PROJECT.json`.

## 2. Plan

| Order | Module | Models | State |
|---|---|---|---|
| 1 | `EmailStore`, `MCEmailStore`, `EmailStoreProofs` | e-mail flow | done |
| 2 | `MailboxCatalog`, `MCMailboxCatalog`, `MailboxCatalogProofs` | mailboxes and folders | done |
| 3 | `SmtpSession`, `MCSmtpSession`, `SmtpSessionProofs` | one SMTP connection | done |
| 4 | `SmtpServer`, `SmtpServerProofs` | listener, limit, shutdown | done |
| 5 | `ScheduledDelivery` (abstract), `Scheduler`, `MCScheduler`, `SchedulerProofs` | scheduled sending | done |
| 6 | `MailWorkspace`, `MCMailWorkspace`, `MailWorkspaceProofs` | the console's mail workspace | done |
| 7 | `AuditLedger` | the console's ledger, extended by 8 and 9 | done |
| 8 | `EnterpriseConsole`, `MCEnterpriseConsole`, `EnterpriseConsoleProofs` | rules, channels, simulator, with the ledger | done |
| 9 | `Composer`, `MCComposer`, `ComposerProofs` | the composer, with the ledger | done |
| 10 | `IdentityFlow`, `MCIdentityFlow`; theorems in `EnterpriseConsoleProofs` | the identity page | done |
| 11 | `Pop3Session` | POP3 sessions over the e-mail flow's delete; lost answers, mock answers | open |
| 12 | `ImapSession`, `SearchPipeline`, `AttachmentCatalog`, `Pagination` | selection and flags; channel, workers and fallback; two stores; pages | open |

Compositions: `MailboxCatalog` justifies `TrashAssumption` of `EmailStore`;
`SmtpServer` and `SmtpSession` meet at `SessionDone`; `EnterpriseConsole` and
`Composer` extend `AuditLedger`, whose sweep, tampering and resealing interleave
with their handlers; `MailWorkspace` takes what composer and simulator put into its
lists (`ComposerAdds`, `ConsoleDeposits`). Abstract specification:
`ScheduledDelivery`, implemented by `Scheduler`.

## 3. Models

### EmailStore
Rows of the three tables are functions (`emails`, `folders`, `mailboxes`).
`Worker` are servlet threads; each runs one transaction (`requests`), whose
record is the persistence context of that transaction. Every row loaded is a step
(`SendStart`, `SendLoadFolder`, `ReadStart`, `DeleteStart`, `DeleteLoadFolder`,
`PurgeLoadMailbox`, `MoveLoadTrash`), and the commit writes the rows that changed
back whole, from the snapshot (`SendCommit`, `ReadCommit`, `PurgeCommit`,
`MoveCommit`), in a single step, because PostgreSQL holds the row locks from
the flush to the commit. Hibernate's check that an UPDATE or DELETE hit a row
(`RowExists`) makes a transaction roll back when the message was purged meanwhile;
any transaction may also be rolled back (`Rollback`: deadlock victim, lost
connection). `sendAndStoreEmail` takes the folder id from the request without
checking its owner, and so does the model. A message is its mailbox, folder, read
flag and size; texts, labels and headers are left out.
`racedFolders` and `racedMailboxes` are history: the rows written by a commit
whose snapshot was stale.

### MailboxCatalog
`createMailbox` is the address check, the insert (which waits for or fails on the
unique index entry of another open transaction), the five default folders and
the commit; `createFolder` is the name check and the insert. Uncommitted rows
are visible to their own transaction only.

### SmtpSession
One connection: the session's fields, and, as history, which MAIL command each
part of the envelope came from. An address is represented by the transaction it
belongs to, a line by its length. `Queued` and `Rejected` are the two outcomes of
the publication. `AnswerOnly` stands for the commands that change no field.

### SmtpServer
The accept loop (`Accept`, `AcceptFails`, `AfterFailure`, `Refuse`, `TakeSlot`,
`Spawn`), a goroutine per connection (`SessionDone`, `GiveSlotBack`: the deferred
decrement and `wg.Done`), and `Stop` (`StopQuit`, `StopListener`, `StopReturns`,
in the order of the code). `Connect` is a client in the listen queue.

### ScheduledDelivery and Scheduler
`ScheduledDelivery` is what the feature promises of each e-mail: the number of its
tries is fixed when it is accepted, it is tried once at a time, is delivered at most
once, is failed after the last try and not before, and what it ends as is final.
`Scheduler` is the code: the map, the ticker with its
one-element channel, the loop, and the goroutines which publish without the
mutex. A critical section is one step. Ids are clock readings, so two requests
may get the same one and the later displaces the earlier. The `retry_count` of a request
is taken over as it is (`server.go:225`, `:232`), so it can be any int;
`requested` remembers it and `TriesAllowed` says how many tries it leaves: four when
it is left out, more when it is negative, one when it is above three. `Increment` wraps
at the largest int, which the property follows.

### The web console
`src/App.tsx` is one component whose handlers run one at a time: a click is one step,
and React runs the effect of a changed folder or category (`LoadEffect`) before
the next click. Every control on the page is an action that calls its handler under
the condition in which the page shows it, so a handler bound to no control is in no
behaviour.

Two parts of the page are inside `AnimatePresence` and stay when their condition turns
false, for the time of an exit animation: the bulk bar (`App.tsx:5691-5698`, 0.22 s)
and the composer window (`App.tsx:6193-6199`, 0.2 s). They can still be clicked, and
their buttons run the handlers of the last render, with the state that render closed
over. `leavingBar` and `leavingWindow` are what that render knew, `AnimatePresence` sets
them with every click that ends the condition, and `ExitEnds` removes them at any
moment; handlers take the render they belong to as a parameter (`RenderedBar` or
`leavingBar`, `Rendered` or `leavingWindow`). `MaxExitClicks` bounds the clicks that
fit into one exit.

* **MailWorkspace.** `emails` is a function from ids to folder and star; drafts and
  scheduled e-mails are sets of ids; `selectedEmail` is the copy the reading pane
  holds, with the folder it was copied with, because `handleDeleteMail` decides by
  it. `SearchBar`, `FolderMenu`, `SettingsEntry`, `CategoryPills`, `DashboardCards`,
  `DashboardRecent`, `MessageList`, `BulkBar`, `LeavingBar`, `ReadingPane` and
  `ConversationThread` are the parts of the screen. A bar that leaves is the folder
  its Delete goes by, the ticks, the rows its master checkbox would tick, and whether
  it would close the pane. `lateTicks` (ticked by a leaving bar) and `paneMissed` (a
  leaving bar acted on the message open under it) are history. Texts and read flags are left
  out, and so are the audit rows of the draft and schedule deletions, which
  nothing here reads.
* **AuditLedger.** Rows are named by position (they are named by the clock, one per
  click). `HashOf` is a parameter: the properties hold for any digest, also one that
  collides. `Audit` is the block every audited handler ends with.
* **EnterpriseConsole.** A rule holds the set of packets its condition matches; a
  packet is what the evaluation can tell apart. `Verdict` folds `ApplyRule` over the
  rules in order. The screen has no control for `keepCopy`, the recipient or the
  rule's mailbox, so these are constant.
* **Composer.** Files are numbered. `outbox` is the sequence of messages made, one
  element per message as each has an id of its own, with the composition it was written
  in. `opener`, `fates` and `attachedTo` are history: how the last composition began,
  how each ended, and which one each file was attached to (0 when it was dropped on a
  window that was leaving). `Controls` is the window, open or leaving.
* **IdentityFlow.** The session is `loggedInUser`, `simToken` (its claims) and
  `simRefreshToken` (whom it was issued to). No handler compares the password or the
  expiry, so neither guards anything.

## 4. Runs

| Run | What it asks | Result |
|---|---|---|
| `email_serial` | one transaction at a time, two mailboxes, messages stored across mailboxes, a user folder spelt `TRASH`: exact counters and usage; purge only from a folder called Trash, in whatever case; trash and read stick | holds |
| `email_race` | two transactions at once, and a user folder spelt `TRASH`: drift only where a stale snapshot was written; purged is final | holds |
| `email_trash_undone` | does a message stay in the Trash? | violated: a read writes the old folder back |
| `catalog` | unique addresses and standard folders with three transactions | holds |
| `smtp_session` | envelopes, one publication, 250 only after it, and the published body is that of the DATA answered | holds |
| `smtp_server` | limit, counters, nothing after `Stop`; `Stop` ends and slots return | holds |
| `scheduler` | one worker, one publication, the tries that the request's retry count leaves, truthful status, refinement, settling | holds |
| `web_mail` | reading pane and ticks are never stale, purge only from the Trash, except behind a click on a leaving bulk bar; the skeleton ends | holds |
| `web_console` | a standing verdict and red rows are true; the last rule places | holds |
| `web_audit_alert` | does a sweep that finds tampering show the alert? | violated: it tests for words the sweep never stores |
| `web_compose` | a file leaves once, except by a second dispatch from the leaving window; nothing of a finished message waits; replies carry only their own files | holds |
| `web_identity` | a session is whole; access to a protected route is by role | holds |

### Disagreements between the code and what is said of it
`email_trash_undone` and `web_audit_alert` show one each, quoted in `PROJECT.json`.
Further ones, met while modelling and visible in the models, but without a run:

* Folder counters are documented as exact (`EmailPlatformController.java:57`,
  "exact counts"), but two concurrent transactions lose an update, because whole
  rows are written back without lock or `@Version`
  (`EmailPlatformService.java:190`). `CountsExactUnlessRaced` says where drift can
  be.
* `deleteEmail` purges from any folder whose name is Trash up to case
  (`EmailPlatformService.java:248`), and `createFolder` compares exactly
  (`EmailPlatformService.java:94`), so that a user's `TRASH` is purged from at the
  first delete, against `EmailPlatformController.java:95` ("Moves standard emails to
  system trash"). `PurgedOnlyFromTrashNames` says which folders are
  purged from, with such a folder in the run; it is not the controller's claim, which is
  false.
* `createFolder` checks the name and inserts with no constraint
  (`EmailPlatformService.java:94`): two at once both succeed although the check
  says "Folder already exists with name: " (line 96).
* A body over the announced SIZE (`session.go:120`, "10MB size restriction") is
  published truncated and answered 250 (`session.go:238`). `PublishedBody` says
  exactly what is kept.
* `TestSchedulerProcessing` waits 150 ms for an e-mail to be dispatched
  (`enterprise_test.go:155`), but the first tick comes after a whole second
  (`scheduler.go:60`).
* The bulk bar that is leaving acts with the state of its last render
  (`App.tsx:5691-5698`). Tick a message in the Inbox, enter the Trash from the sidebar,
  and press the bar's "Delete" before it is gone: the message is purged from the Inbox
  (`App.tsx:4489`). Press "Spam" and then the bar's master checkbox: rows that were
  moved are ticked. Open a message and press the bar's "Trash": it moves while the pane
  keeps a stale copy (`App.tsx:4504`). The three properties of `web_mail` hold
  except for what such a click is behind, and say so (`UnlessLate`); without these
  clauses TLC finds each of the three.
* The composer window that is leaving does so too (`App.tsx:6193-6199`). "Secure
  Dispatch" pressed again (`App.tsx:6463`) sends the same files in a second message,
  and a file dropped on it (`App.tsx:6216`) waits in the queue for the next message.
  `FileSentOnceUnlessLate` bounds the first to messages of the same
  composition; `NothingLeftBehind` and `RepliesCarryTheirOwn` hold all the same.
* The rules page calls an action "DISCARD MESSAGE" (`App.tsx:4879`) and speaks of
  "discard pipelines" (`App.tsx:4810`). No message is ever discarded: the evaluation
  drops one only when the copy is not kept, and every channel the page has or makes keeps a
  copy (`App.tsx:3252`; `setFwdKeepCopy` is bound to no control), so that DISCARD only
  sends the message to another folder.
* The identity page lists "Permit All" for `/api/public/status` (`App.tsx:5239`), and
  the route test denies it to whoever is not signed in (`App.tsx:4159`).
  `AccessByRole` is about the protected routes.
* The scheduler fails an e-mail with "Max retry thresholds exceeded."
  (`scheduler.go:96`) after three retries, unless the request brought a count of its
  own (`server.go:232`): then sooner or later than that; see `TriesAllowed`.
* The identity page offers to check token expirations (`App.tsx:5147`); no handler
  looks at one. No operation reads `storageCapacityBytes`, so the quota of the
  repository's README has no code to model.

### Bounds
* E-mails: three ids in the serial run and two with two workers, and at most
  `MaxRequests` transactions: a lost update needs two, an undone deletion
  needs a send, a read and a delete, a purge against a stale row one more.
* Catalog: three transactions, mailboxes and addresses: a third can act between
  another's check and its failure on the index.
* Session: three MAILs and two recipients, so that a stale recipient can survive one
  transaction and reach the next; bodies of up to three units against a SIZE of two
  reach and cross it.
* Server: four clients on two slots, so that slots are full, refused and reused.
* Scheduler: two e-mails on two ids (alone, or on the same id), an interval of two
  units and a clock that saturates at three, after both send times; the ticker goes
  on for ever, so retries are not cut off. An int of seven values (-1 to 5), and
  requests with 0 (left out), 4 (above the threshold) and 5 (the largest, which wraps
  round to -1 and is then a negative count). 0.98 million states.
* `web_mail`: two e-mails (a received one and one of its thread that may come or be
  sent) and a draft that may be saved, two clicks on a leaving bar: enough for ticks on
  one item, the copy of another, and one that arrives; a leaving bar can move
  twice, or tick and then delete. Every view, one category and one search text. No
  e-mail is scheduled there; the folder's items are handled as drafts are. 0.78 million
  states.
* `web_console`: a spammer's packet and a plain one, one seeded rule and room for two
  more, three ledger rows of which the table shows two, one simulated packet, and a
  digest with collisions. 1.5 million states.
* `web_compose`: three compositions, two files, two clicks on a leaving window, and
  two rows of the ledger, one for each message made: a file can be saved with a draft,
  pass another composition and meet a third, and both clicks of an exit can dispatch.
  7.9 million states.
* `web_identity`: two users, a third address nobody has, a token that expires within
  the clock's range. All its states are reached (868).

### Fairness
* `SmtpServer!FairSpec`: the acceptor, `Stop` and the deferred statements of a
  session are running goroutines and go on. Clients have no fairness: `session.go`
  sets no read deadline, so `StopEnds` is conditional on the clients leaving.
* `Scheduler!FairSpec`: time passes, the loop takes the tick in its channel, and the
  producer returns; the one installed only writes a log line. After four tries
  an e-mail is `FAILED`, so no strong fairness is needed.
* `MailWorkspace!Spec`: only the loading timer; the browser fires a due timer. Weak
  fairness excludes a user who changes folder within 450 ms for ever, since each
  change starts the timer anew without disabling it.

## 5. Proofs

All theorems hold for every value of the constants that satisfies the named
assumptions.

* `EmailStoreProofs` (`ConstantsAssumption`, `TrashAssumption`): `TypeCorrect`,
  `ExactUnlessRaced`, `UsageUnlessRaced`, `PurgeIsFinal`, `SerialExact`,
  `SerialUsage`, `SerialTrashSticks`, `SerialReadSticks`, `SerialPurge`. Counters are
  cardinalities and usage is a fold of the sizes over the table, so each commit is
  shown to change one summand; `IsSum` says what that fold computes, `SumExists` and
  `SumsAgree` that it does, `SumStep` what one more message adds. For usage, the
  invariant adds `LoadedAgree`: a message that a transaction has loaded still has the
  mailbox and the size loaded, unless it has been purged, so a purge subtracts what its
  message added. For counters it adds that a snapshot that
  differs from its row will mark the row as raced when it is written: without it
  a commit of a stale row looks like a correct one. The `Serial` theorems (one
  worker) add `SerialInv`: nothing is raced, the snapshot is the row, and a
  transaction purges only what it found in a Trash (`PurgesTrash`); for usage,
  `UsageNeverRaced`: no mailbox is raced, and the usage loaded is that of the row.
* `MailboxCatalogProofs` (`CatalogAssumption`): `CatalogTypeCorrect`,
  `AddressesUnique`, `StandardFoldersUnique`. The invariant adds what open
  transactions hold: an inserted mailbox has an id and an address nobody else has, and
  a folder about to be created has a name that is not a standard one, because
  its mailbox is visible and visible mailboxes have them all. This discharges
  `TrashAssumption`.
* `SmtpSessionProofs` (`SessionAssumption`): `SessionTypeCorrect`, `NeverMixed`,
  `PublishedExactly`, `AckedMeansPublished`, `BodyIsItsOwn`. The invariant adds
  `NotYetPublished`: a transaction whose envelope is still in the session has not
  been published, which is what makes repeating DATA after 451 safe; and
  `BodyKept`: while a body is read, the buffer holds what `KeptOf` allows of the
  lines of this DATA.
* `SmtpServerProofs` (`ServerAssumption`): `ServerTypeCorrect`, `LimitHolds`,
  `StopWaitsForAll`, `SlotsAreExact`, `WaitGroupIsExact`. The invariant counts the
  holders of slots and of the WaitGroup by where acceptor and sessions are, in
  particular between `TakeSlot` and `Spawn`.
* `SchedulerProofs` (`SchedulerAssumption`): `SchedulerTypeCorrect`, `OneWorker`,
  `AtMostOnce`, `StatusIsTrue`, `TriesBounded`, `Refinement`. The invariant ties
  status, the goroutine's progress, publications and retry count of each e-mail
  together; `TryInv` says where the counting of its retries began (`Start`) and that,
  once a try has failed, the count is at most three or the e-mail is failed.
  `Refinement` maps this to the states of `ScheduledDelivery`. Nothing is assumed of the
  retry counts but that they are ints of the build.
* `MailWorkspaceProofs` (`WorkspaceAssumption`, `SeedAssumption`):
  `WorkspaceTypeCorrect`, `PaneShowsLive`, `TicksStay`, `PurgedFromTrash`, for any
  number of clicks on a leaving bar. The invariant is `PageInv`, what every click keeps
  whatever bar it leaves behind, with `TicksAreNamed` (a ticked id was given before, so
  no new message can arrive ticked), and `BarInv`: a leaving bar stands above a
  list without ticks, and what its checkbox can tick has been given.
* `ComposerProofs` (`ComposerAssumption`): `ComposerTypeCorrect`, `FilesLeaveOnce`,
  `QueueIsClean`, `RepliesAreClean`, for any number of clicks on a leaving window. The
  invariant is `QueueInv`, with `OneOpen` (only the last composition is open, and only
  while the window is), `QueueIsUnsent` (no file of the queue has left) and `QueueIsOwn`
  (in a reply or quick draft the queue is its own), and `WindowInv`: the files a leaving
  window knows are `Fit`, that is, they have left with messages of its own
  composition only, and in a reply they are its own.
* `EnterpriseConsoleProofs`, first part (`LedgerAssumption`, `ConsoleAssumption`):
  `ConsoleTypeCorrect`, `VerdictIsTrue`, `RedIsTrue`, `LastRulePlaces`. The invariant has four parts: `LedgerInv` with `RowOK` (a row
  that still has its own address matches its digest, so that a row that does not match
  has been tampered with already, and tampering with it again changes nothing);
  `RulesInv` (the rules are a list of rules, through every deletion); `ChannelsInv`
  (finitely many channels, and the switch); `DepositInv`. `LastRulePlaces` is
  what the evaluation's loop computes for a list of any length (`LastWord`), and holds
  because `RulesInv` does.
* `EnterpriseConsoleProofs`, second part (`IdentityAssumption`): `SessionStaysWhole`,
  `RolesDecideAccess`. The invariant `SessionOK` types the three parts of a session and
  the clock; the second theorem needs it because the code decides by the roles of the
  user shown, and the property by those in the token.

Three operators are folds over data of any size: the usage of a mailbox, the verdict
of the rules (`Verdict`, `RulesWithout`), the next id (`NextId`). Induction is not
available as a rule here, so what they compute is proved from a least counterexample:
`LeastNat` (from `WFMin` and the well-foundedness of `<`) gives the smallest size at
which the claim would fail, and the lemma shows that it does not fail there.
`FoldTable` and `FoldStays` state this once for the folds of the console.
`RulesWithout` is written with a fold, and not with `SelectSeq`, for the same reason.

What the invariants say is checked by TLC where it is a property of a run; the parts
that are only in the proofs are listed above.

Model-checked only: `StopEnds`, `SlotsComeBack`, `EventuallySettled`, `ListSettles`
(liveness under fairness, out of the prover's reach), and the two violations,
`TrashSticks` with concurrent transactions and `CompromiseIsShown`. Every safety
invariant, action property and refinement that a passing run checks is also a theorem.
The type invariants of all modules but `EmailStore` are in no run; those of the SMTP,
scheduler, catalog, mail workspace, composer and console modules are proved.

## 6. Not modelled

* POP3, IMAP, the search pipeline, the attachment service, the rules engine and API
  of the enterprise service, and the e-mail service's drafts and labels: see the
  plan. Their hazards are named in `PROJECT.json` where they touch what is modelled.
* In the console, what no control reaches: `handleSmtpTerminalSubmit`,
  `handleRegister`, `handleVerifyCode`, `handleForgotPassword`,
  `handleResetPassword`, `handleCreateDraft`, `handleCreateSchedule`,
  `handleCreateSharedMailbox`, `handleEditDraftMail`, `executeCopy`; and the setters
  no control calls (`setFwdKeepCopy`, `setTestMailRecipient`, `setTestMailSubject`,
  `setRuleTargetMailbox`). Lines 78 to 2843 of `App.tsx` are strings with the source of
  the services, which nothing runs. Theme, sidebar, notifications and layout hold
  no state the modelled handlers read.
* Nowhere: texts, headers, HTML, logging, TLS, the content of the AUTH exchange
  (its outcome changes no field of the session), deployment files, and
  account-service, of which the repository has entity classes only. A crash of the
  enterprise-service loses the schedule, which is kept in memory only; there is
  nothing to recover and no property is stated about it.
