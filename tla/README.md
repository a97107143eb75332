# A TLA+ model of My-own-world's storage core

This directory holds a formal model of the parts of My-own-world that decide
whether a user's world survives: the queue through which every page is written,
the commands and the editor that use it, the background job queue, moves of
pages in the tree, their creation and deletion, backups and restores, the
adoption of old inventories, and the attacks of a combat with their undo.  TLC
checks the models on small instances, TLAPS proves the most important properties
for every instance.  Paths below are relative to the repository root.

The program is a single-page JavaScript application (browser or Tauri desktop)
that keeps a workspace of Markdown pages in a directory.  It is single-threaded:
everything that can go wrong between two operations goes wrong at an `await`,
when turns of the event loop that belong to different operations interleave.
Hence the rule of all modules here: **one action is one turn of the event
loop**, from the moment an awaited promise settles to the next `await` on
something that takes time.

## 1. The system

| Component | State it keeps | Operations | What is hard | What makes it correct |
|---|---|---|---|---|
| Page write queue (`js/storage/writeQueue.js`, `storageAdapter.js`) | `writeQueues` (one chain of promises per page), `writeRevisions`, `acceptedWriteRevisions`, the adapter's root | create, accept and mark a revision; queue a write; run its task (stale, context and pre-write checks, adapter write, readback) | writes numbered in one order and queued in another; checks that are old when the adapter's promise settles; rejected writes that reached the file; a workspace switch in between | one write of a page at a time; an older revision never over a newer one; what is reported saved stays until something newer is accepted; every write returns |
| Page commands (`pageCommandService.js`, `pageWritePreconditions.js`) | `page.content`, the undo stack, an expected base per command | save, rename, field change, publish, roll back, undo a rename | precondition read before queueing; conflicts found after a revision was taken; merges; results of racing commands in any order | conflicts change nothing; guarded writes extend their base; loaded page and file agree in the end |
| Editor session and autosave (`js/editor/autosave.js`, `editorSessionBase.js`, `editorOpenPage.js`, `editorSpecialSave.js`, `editConflictUi.js`) | `currentEditorPageBase`, autosave timer, `inFlightEditorSave`, the text on the screen | capture the base, schedule, flush, open, save, reload | timer against page change; stale results; the base that is advanced after an await | a draft is saved, reported or replaced by its author; a text stays on its page |
| Background jobs (`js/performance/backgroundCheckpointQueue.js`, `js/storage/workspaceCheckpointTasks.js`) | `queue`, `jobsByKey`, `activeJob`, `scheduledHandle` | enqueue or merge, run, rerun, flush | a request that races the end of a run; a flush that cancels the scheduled run | never two jobs of a key, none stranded, no request forgotten |
| Tree planner, compaction, drag and drop, undo of moves (`js/tree/`, `pageStorage.js`) | `dragState`, the compaction jobs, the undo entries | intent, plan, check, move; plan and run a compaction; take a move back | plans made before an await and carried out after it; moves taken back after others; gaps below the grain of a double, ties, cycles | pages land where the placeholder was, if there is a number left between the neighbours; cycles need a change that another one has overtaken; a compaction moves no page |
| Scoped tree moves, recovery, journal (`pageStorage.js`, `operationJournal.js`) | journal entries in `pending/`, `committed/`, `failed/`; the pages | guard, journal, write page after page, commit or fail; inspect and recover | crashes and failures between any two steps; editor saves in between | journal before write; what is replaced is recorded; a committed entry stands for a whole move |
| Page lifecycle (`pageStorage.js`) | the page list, the files, the trash, the undo entries | create, trash, delete, write back, restore | lists captured before an await and set after it; rollbacks that fail; saves in between | what is removed is in the trash; a failed deletion leaves the files; list and files agree in the end |
| Combat (`js/combat/`, `js/events/`, `js/editor/campaignMap*.js`) | session and turn order on the map page, health on character pages, the event log, lines of actions | attack, undo, turn controls, dropped tokens | an attack reads the turn, then waits; the page is written first and logged afterwards; undo twice, or after a restart | one reversal per attack; the log tells what happened; no attack after its turn |
| Backup and restore (`backupService.js`) | backups with manifests | back up, verify, restore, retention, sweep of incomplete ones | no lock between any of them; a restore or a removal that stops half way; files that the page list does not know | a manifest means complete until a removal has begun; the newest stay; what a restore overwrites is in its safety copy, if it was listed |
| Adoptions (`js/migration/`) | a plan, a backup, a journal record | preview, execute, resume, recover | several pages written one by one; stopped and resumed among saves and restores | actors follow their items; only what the backup holds is overwritten; the backup stays |
| World packages (`js/worldPackage/`) | staged import | import, roll back | partial imports | nothing half imported remains |
| Adapters (`browserStorageAdapter.js`, `desktopStorageAdapter.js`, `tauriBridge.js`, `src-tauri/`) | root, handles | read, write, list, remove | atomic replacement | a file is its old or its new content |
| Repository and indexes (`js/repository/`) | indexes of loaded pages | incremental update | agreement with a rebuild | equal to a rebuild |
| The rest | | record format, variables, characters, dice, map canvas, wiki and search, rules, templates, user interface, assets | mostly pure or DOM code | unit tests |

How they interact: the editor, the tree, combat and adoptions call page commands;
commands call `writePageContent` of the write queue with callbacks
(`beforeWrite`, `validateBeforeWrite`, `verifyAfterWrite`) that read the same
file again; the queue calls the adapter, which resolves a path under the root it
has *at that moment*.  Tree moves and adoptions run a page command per page
between two journal writes.  Backups, restores and the trash read and write
*past* the queue.  Loaded pages are shared, mutable objects: the turn that
receives a result writes `page.content`, the editor's base and the undo stack.

`PROJECT.json` lists every component with its status, and under `hazards` each
place where the code is hard to test, with the properties that watch it.

## 2. The modules

| Module | Models | Role |
|---|---|---|
| `WriteQueue` | `writeQueue.js`, root switches of `storageAdapter.js` | the core |
| `PageWriteLine` | what the queue promises: one line of requests per page | abstract specification; `WriteQueue` implements it through `Line` and `Served` |
| `PageCommand` | `pageCommandService.js`, `pageWritePreconditions.js`, the editor's base | EXTENDS `WriteQueue`: its steps *are* queue steps plus what commands do in the same turn |
| `EditorAutosave` | the editor's timer, chain of saves, openings, and the other writers of its base | uses a page command as one step |
| `CheckpointQueue` | `backgroundCheckpointQueue.js` | on its own |
| `TreeMoves` | drag and drop, arrow keys, planner, compaction and its queue, undo of moves and renames, recovery of moves | uses a moved page's write as one step |
| `ScopedTreeMove` | `executeScopedTreeChanges`, `inspectScopedTreeRecovery`, `recoverScopedTreeMove`, the journal, startup | uses the queue as `WriteQueue` shows it |
| `PageLifecycle` | `createPage`, `deletePage`, the trash, the undo of deletions | uses saves as check and landing |
| `CombatAttack` | `executeCombatAttack`, `compensateCombatAttack`, the map store and its turn controls, the event log | has the queue's revisions and its own line of actions |
| `Backups` | `createWorkspaceBackup`, `restoreWorkspaceBackup`, retention, the sweep | on its own, with saves and deletions |
| `InventoryAdoption` | `previewInventoryAdoption`, `executeInventoryAdoption`, resume and recovery | EXTENDS `Backups`: an adoption makes a backup, and restores, cleanups and saves go on around it |
| `MCPageCommand`, `MCTreeMoves`, `MCCombatAttack`, `MCPageLifecycle`, `MCInventoryAdoption` | | instances and symmetry for TLC, where a `.cfg` cannot say them |
| `PageCommandProofs` (with `WriteQueue`'s), `EditorAutosaveProofs`, `CheckpointQueueProofs`, `ScopedTreeMoveProofs`, `TreeMovesProofs`, `PageLifecycleProofs`, `CombatAttackProofs`, `InventoryAdoptionProofs` (with `Backups`') | | the theorems |

Definitions marked `Mutant:` are plausible mistakes (a dropped check, a swapped
order).  No specification uses them; each stands before the definition it
would replace, and shows that a property notices the mistake.

### 2.1 WriteQueue

A *call* is one write request.  `phase` is where it is: `created` (it has a
revision), `queued` (its task waits for the promise `prev`), `checking`,
`validating`, `writing`, `verifying` (its task awaits `beforeWrite`, the second
pair of callbacks, the adapter, `verifyAfterWrite`), `settled`.  `tail` is
`writeQueues`, `current` and `state` are the entry of `writeRevisions`,
`accepted` is `acceptedWriteRevisions`.  A content is named by the request that
wrote it.

| Action | Code |
|---|---|
| `CreateRevision` | `createWriteRevision`, called before a command awaits anything |
| `AbandonRevision` | a command that ends before the queue and marks its revision |
| `EnqueueRevised`, `EnqueuePlain` | `writePageContent` with and without options, with `acceptWriteRevisionForQueue` and `queueWrite` |
| `StartTask`, `BeforeWrite`, `Validate`, `AdapterSettles`, `VerifyReadback` | the turns of the task, each with the stale and context checks it repeats |
| `SwitchRoot` | the adapter gets another workspace |
| `ForeignWrite` | another program (external) |

Three kinds of request stand for the options the callers really pass.  A
rejected adapter write may or may not have changed the file.  What follows from
`SwitchRoot`: a request without a captured context that waits while the user
opens another workspace is written to the same path *there*.  The code protects
guarded writes only, and so does `GuardedWriteKeepsWorkspace`.

### 2.2 PageCommand

`BeginCommand` takes the revision and remembers `expectedBase` and
`rollbackData`; `ReadDurable` and `CheckPrecondition` are the read and the turn
that receives it, separated because other turns come in between; `MergeField` is
`createStructuredPageChangePreservation`; `RunTask` is a queue step together with
what the callbacks find in the file and, if it is the last one, with `Deliver`:
publication (`updateIndexes`, `publishEvent`) or `rollback`.  `UndoRename` is
`undoLastPageCommand`.  A content is abstracted to the command that last wrote
its *body* and the one that last wrote its *field*, which is all that
preconditions (digests of the whole) and merges can tell apart.

### 2.3 CheckpointQueue

`Add` is `enqueueBackgroundCheckpoint`: a new job, or a merge into the one the key
has.  `ScheduledRun` is the idle callback or timer, `SettleRun` the
`then`/`catch` of a run, `FinishJob` its `finally` block, `Flush` and `FlushNext`
are `flushBackgroundCheckpoints`.  A request is known by its number: `upTo` is the
newest one merged into a job, `served` the newest one a run has started with.

The model showed one thing worth knowing: between `then`/`catch` and `finally`
the job is still in `jobsByKey` but no longer `running`.  A request that arrives
there is merged into a job that is over.  The window is a few microtasks wide and
the repository promises nothing about it; the history variable `missed` marks
these requests, and the properties show that *no other* request is ever lost.

### 2.4 ScopedTreeMove

`stage` follows `executeScopedTreeChanges`: the guards of all pages, the pending
journal entry, then for each page `BeginPage` (a revision), `CheckPage` (the
precondition, queueing), `StartWrite`, `WriteSettles`, `ReadBack`; then `Commit`
and `RemovePending`, or `FailJournal`.  A recovery is an operation that first
inspects page after page (`Inspect`) and then goes on as a move back, based on
what the loaded pages hold *then*.  Editor saves run through the same line of
writes; `Restart` is a crash at any moment with the pages read again at startup.
A content is named by the operation or save that wrote it; operations are
numbered in the order in which they begin (`Begins`), which loses nothing, since
their numbers are only names.

Of the write queue the module keeps what section 2.1 shows of it: one task per page past
its start, a task dropped when a newer revision was accepted.  A task that starts
may be any queued one of the page, more orders than the chain allows.  The
checks that a guarded write repeats inside the queue (`beforeWrite`,
`validateBeforeWrite`, again `beforeWrite`) are one action here; `PageCommand` has
them one by one.

### 2.5 TreeMoves

`drag` is `dragState` with its intent, `parent` and `order` the tree of the loaded
pages, `by` the rest of a page's bytes.  A drop takes the *intent* as the pointer last left it, plans
with `TreeMovePlan`, and then awaits a guard and the write of each page; `canMovePage` was
asked when the pointer moved.  Other changes of the tree go on meanwhile: drops, arrow keys, the
compaction, and what takes a move back.  A page's write lands and is published in one
step or fails (`ScopedTreeMove` has the detail).  The compaction queue holds parents
(`queue`, the keys of `CheckpointQueue`), runs one at a time, and writes parent *and*
order of each sibling it had planned for.

| Action | Code |
|---|---|
| `PointerDown`, `PointerOverRow`, `PointerOverRoot`, `PointerElsewhere`, `PointerUp`, `PointerUpNowhere` | the handlers of `treeDragDrop.js` |
| `KeyboardReorder` | `handleTreeKeyboardReorder`, check and plan in one turn |
| `CompactTreeOrder` | `compactTreeOrderForParent`, a checkpoint job |
| `Rename` | a rename, of which only the undo entry matters here: it has the page's whole old content |
| `Undo` | `undoLastPageCommand`: `undoTreePositionChanges` (`pageStorage.js:2093`), or the undo of a rename (`pageCommandService.js:1450`), without a guard or a precondition |
| `Recover` | `recoverScopedTreeMove` (`pageStorage.js:173`), for any operation the journal has |
| `Guard`, `WritePage`, `Finish`, `Fail`, `Refuse` | `executeScopedTreeChanges` and what follows it |

Neither undo nor recovery asks `canMovePage`.  The settings' migration page recovers
moves; nothing in the user interface calls `undoLastPageCommand`, which `storage.js` exports.
The order in which the pages of an undo or a recovery are written is left open.

An order is a number of JavaScript.  The model counts in whole units and lets a page hold only those in
`Doubles`, as doubles are farther apart the larger they are: orders are dates, about 1.7e12,
where two neighbouring doubles are 0.00024 apart.  `Mean` is `(previousOrder +
nextOrder) / 2` with its rounding, one of the nearest doubles.  The least gap of the compaction, 0.000001,
lies *below* that grain, so `Crowded` says nothing of siblings that are next to each
other in doubles: a page dropped between them gets the order of one of them, no compaction is asked
for, and where the page is shown is decided by the page list.  `Now` is `Date.now()`,
later than every order that was given.

The parent walks of `isDescendantOf` are given without recursion: what they come by is in
every closed set (`IsDescendantOf`), and along a cycle they do not end (`WalkEnds`).
The history variable `overtaken` marks changes that go by a tree in which some page has
got another parent since: since `canMovePage` was asked, or since the change was made that
is now taken back.

### 2.6 EditorAutosave

`dom` is the text on the screen, `pending` the timer, `inFlight` and `after` the
promise `inFlightEditorSave` and the one a save is chained behind, `base` is
`currentEditorPageBase`.  `Type`, `Timer`, `SaveNow` and `Request` ask for a save;
`GoOn` is the turn in which it finds its page still open and builds its candidate
from loaded page and screen - or ends with the answer of the save it was chained
behind (`Inherited`: refused, stale, or given up because its page was left); `Saved`,
`StaleSave`, `Refuse` and `Skip` are its
answers.  `OpenPage` flushes and awaits; `Opened` shows the page.  A *writer* is any
other command of the page: tree move, property undo, character sheet, special save, outside edit.

A save that is refused, blocked or throws may all the same have reached the file (`Refuse` and
`WriterFails` with `landed`): a rejected adapter write, or one whose readback was uncertain
(`writeQueue.js:415`).  The editor keeps its base, and an error gives `page.content` back
what it was when the command began (`before`).  A conflict has two pages: `pageId` is the one the
evidence names, `page` the one whose file is read for it.  They are the same for a save of
the editor; a special save tells of `state.currentPage` as it is after the await
(`editorSpecialSave.js:484`).  `ReadCurrent` reads the file of `page`
(`editConflictUi.js:692`) - what has been read is kept with the conflict and may be old when it is
used - and `Reload` gives it to the page `pageId` (`:767`), drops the timer and opens that page,
whatever page is shown.

A page command is one step between its call and its answer: section 2.2 has what
happens inside.  `NothingAwaited` orders microtasks before the next task: the
continuation of a settled save runs before the next timer or event.

### 2.7 CombatAttack

A *call* is an attack, an undo, another edit of a character page, or a save of
the map.  The phases of an attack are those of `executeCombatAttack`: observe the map,
enter the target's line (`turnLine`, `combatActionQueue.js`), check map and
session again, roll, prepare, queue the write, pass the precondition, validate
once more inside the queue, write, look at the file after a throw, verify, append
the transaction.  An undo (`compensateCombatAttack`) reads the log *inside* the line.
`model` and `dirty` are the map store; `UseTurnControl` and `DropToken` change it
and save it; `DragToken` changes it without a save.  `writeLine` holds a queue per
page, so the map's file and a character's can change in either order.  `since` tells an
attack that its model object was replaced.  `Refuse` merges the
refusals: each leaves with nothing written.  An append to the log is one step that may
fail; dice are a choice of hit or miss of one point.  `Restart` drops what was in
memory.

### 2.8 PageLifecycle

A deletion copies page after page into the trash, writes the manifest, removes
the files, and writes back what it removed when a removal fails; an undo restores
the files and lists the pages; a creation sets the list it had captured before its
awaits when it fails.  `file` and `text` are the page on disk and as loaded, `listed` the
list of pages.  Parents are static except for created pages (moves are `TreeMoves`
and `ScopedTreeMove`).  The permission dialog comes before `BeginDelete`, so the
page need not be listed any more by then.  The undo of a deletion has no control
of its own in the user interface: it is called through `undoLastPageCommand`.
There is no restart action: the properties about files and trash hold at each
removal, so they cover a stop at any point.

### 2.9 Backups

The pages that are listed are read one after the other, then the directories are made and the
manifest gets its `createdAt` (`stamped` is the order of these), the copies are
written and last the manifest, and the backup is verified.  A restore has
checked the copies in memory (`BeginRestore`), makes a backup of its own, its
safety copy, and writes the pages of the restored backup through the adapter (`RestorePage`): no queue, no
precondition.  The two sets of pages are not the same: the safety copy is made of
`state.pages` (`Listed`; of all files only when an adoption is recovered), while what is written are the
pages of the manifest, be their files listed or not.

Retention lists the backups beyond the limit, those with as many newer
ones as the limit says (`Excess`, `Newer`), and for each of them, the newest first,
reads the journal (`CheckVictim`) and removes it, going on after a failure; the sweep
of incomplete backups takes what was shown and is still incomplete when it is confirmed, and stops at a
failure.  Removing a directory is `fs::remove_dir_all` or a recursive
`removeEntry`: its entries go one by one, in an order nobody promises
(`RemoveEntries`), last the directory (`RemoveVictim`), and it may fail or be cut short
anywhere in between (`RemovalFails`, `Restart`), with the manifest still there and copies gone.  A write
into a removed directory makes it again.

A save is what sections 2.1 and 2.2 leave of it: the content it is based on, the check,
the landing, one write of a page at a time (`InQueue`).  A deletion (`RemovePage`, `Unlist`) takes
the file first and the page from the list afterwards; a save that lands in between, a creation that
failed and could not remove its file, or another program leave a file that is not
listed (`LandSave`, `Arrive`).  The write-back and the undo of deletions are
`PageLifecycle`.  `Passing` are the pages to which this may happen.  `Stop` and
`Restart` drop what calls had in memory.  History: `missed` holds the pages that were
not listed when a running restore's safety copy was begun, or have been written since;
`swept` and `cleared` the backups that a sweep, or retention, has begun to remove.

### 2.10 InventoryAdoption

An adoption plans from the files (`Preview`), makes a backup, writes a pending
record that names it, and writes the planned pages one by one (`ValidatePage`,
`LandPage`, `VerifyPage`), items before the actors that list them; then the receipt
and the removal of the pending record.  Every guard of the code is a condition of
its action; a guard that is not met is `FailAdoption` or, before there is a record,
`AdoptionBlocked`.  `Resume` takes the plan from the backup and needs each page to
be what the backup holds or what the plan makes of it.  `ReadyActors` is the
planner's fixed point as the largest set that is closed under sharing an item.

Items and actors are not deleted while adoptions run (`AdoptionAssumption`; a missing
file is a guard that is not met).  A content has a text and whether it is adopted; nothing else can be told apart by
the guards.  `Others` is every step of `Backups`: saves, restores of any backup,
retention, the sweep.  History: `landed` (of the program), `exposed` (adoptions whose
backup was gone in whole or part, or its removal decided, when the record was written) and
`restored` (pages written by a restore since).

## 3. What the runs check

| Run | Instance | Shows |
|---|---|---|
| `WriteQueue` | 2 requests, 2 pages (1 structured), 2 roots, fairness | `GuardedWriteKeepsWorkspace`; `NewerNeverOverwritten`; `ImplementsLines`, the refinement of `PageWriteLine` with its liveness |
| `PageCommand` | 3 commands, 2 pages (1 structured), outside edits, undo depth 1 | `OneWriterPerPage`: tasks of a page never overlap; `SettlementSafety`: what was reported saved is in the file until something newer was accepted; `BlockedLeavesNoTrace`; `QuietRuntimeMatchesDisk`: once all commands of a page have returned without failing, the loaded page is the file; `GuardedWriteExtendsBase` |
| `CheckpointQueue` | 3 keys, 3 requests each, fairness | `OneJobPerKey`, `NothingForgotten`, `EveryRequestRuns` |
| `ScopedTreeMove` | 2 operations, 2 pages, 1 save, crashes, fairness | `WriteAhead`, `CommittedIsComplete`, `ReplacedIsInJournal`, `EveryMoveEnds` |
| `TreeMoves` | 3 pages, any 3 changes out of 1 drop, 1 keyboard move, 1 compaction, 1 rename, 1 undo, 1 recovery; orders with a coarse grain | `OnlyOvertakenMovesMakeCycles`, `DropLandsWhereShown`, `CompactionMovesNoPage` |
| `EditorAutosave` | 2 pages (1 special), 2 drafts, 2 openings, 1 explicit save, 1 writer, fairness | `TypeOK`, `OneSaveAtATime`, `BodiesStayHome`, `FlushedBeforeOpen`, `ConflictHasACause`, `EveryDraftIsAnswered` |
| `CombatUndo` | 2 attacks, 2 undos, 1 edit, 1 restart | `AtMostOneReversal`, `LogTellsWhatHappened`, `UnchangedLeftNothing`, `HealthMovesAsLogged` |
| `CombatTurns` | 2 attacks, 1 save of the map, fairness | `OvertakenAttackNeverLands`, `EveryActionReturns` |
| `PageLifecycle` | a folder and its card, 1 creation, 2 deletions, 1 undo, 1 save | `ListMatchesFiles`, `TrashHoldsWhatIsRemoved`, `FailedDeleteLeavesFiles` |
| `Backups` | 2 pages, 1 of which may come and go, 1 backup, 1 restore, 1 retention, 1 sweep, 1 deletion, limit 1, 1 restart | `ManifestMeansComplete`, `NewestSnapshotsStay`, `OverwrittenIsInSafetyCopy` |
| `InventoryAdoption` | an item and 2 actors that share it, 1 adoption, 1 restore, 1 retention, 1 save, limit 1 | `AdoptionTypeOK`, `ActorsFollowItems`, `AdoptionReplacesItsSource`, `UnresolvedKeepsSource` |
| `BackupSweep` | 1 backup, 1 sweep; **expected to be violated** | `SweepKeepsValidSnapshots` is what a contract claims (below) |

### What the properties except, and why

An exception names a behaviour the code really has; each was added because
TLC shows that without it the property is violated.

* `QuietRuntimeMatchesDisk`: pages with a failed command, and writes turned down
  after they were accepted (`BlockedInQueue`).
* `DropLandsWhereShown`: neighbours with no number left between them (`HasRoom`).  The middle of
  their orders is then one of the two.
* `OnlyOvertakenMovesMakeCycles`: changes that another one has overtaken, `undo` and `recovery`
  of a move among them; and undos or recoveries that bring back a tree which had a cycle.
* `BodiesStayHome`: pages that a reload has given another page's file (`misloaded`, see the
  divergences).
* `ConflictHasACause`: a save whose base was taken from another page (a special
  save advances the base of whatever page is open by then); pages whose file has what a
  save wrote that was reported as failed, or to which a reload gave what is not, or no longer, in
  their file (`apart`).  In all of these the next save is refused, so no text is
  lost, but the editor's conflict is with its own text.
* `FlushedBeforeOpen` and `EveryDraftIsAnswered`: drafts whose save was given up with
  the one it was chained behind (`unsaid`, see the divergences).  It takes two
  explicit saves, one more than the run has: the proof of `FlushedBeforeOpen` failed
  there, and TLC then found the behaviour with `Manual = {m1, m2}` and three openings, where both
  properties hold with the exception.
* `TrashHoldsWhatIsRemoved`: pages `rewritten` between copy and removal.
* `ListMatchesFiles`: histories with a failed call, a deletion that ended with
  its write-back failed, or a result that another call made obsolete without either
  noticing (a save that brings a removed file back, a creation's list that
  was set over a newer one).  Each of them leaves list and files apart in the code.
* `ManifestMeansComplete`: backups whose removal has begun, by a sweep under the hands of
  the call that makes them or by retention.  A removal that stops half way may leave the manifest
  with its pages gone.
* `NewestSnapshotsStay`: backups a sweep has begun to remove, and sweeps as such.
* `OverwrittenIsInSafetyCopy`: pages that were not listed when the safety copy was begun, or
  were written since they were copied (a backup is no point-in-time copy), and
  safety copies whose removal retention or a sweep have begun since.
* `ActorsFollowItems`, `AdoptionReplacesItsSource`: pages a restore has written.
  It writes past the queue, and the settings do not ask whether an adoption runs.
* `UnresolvedKeepsSource`: adoptions that were `exposed`.

### Known divergences

What a document of the repository says and the code does not do.  The first one is the
run `BackupSweep`; the others are steps of the models, met while a stronger form of
a property was checked.

* `BACKUP_AND_RECOVERY_CONTRACT.md:432`: a cleanup re-checks its candidates and does
  not delete valid backups.  `cleanupIncompleteWorkspaceBackups` lists once, awaits the
  journal for each and removes the directory: a backup that is being made and gets its
  manifest meanwhile is removed.
* `LIGHTWEIGHT_WORKSPACE_OPERATIONS_CONTRACT.md:520`: a stale save never silently
  overwrites a newer durable state.  On a page without structured variables the precondition is read
  once, before queueing (`pageCommandService.js:281`), and repeated by nothing: the
  second of two saves that both passed it overwrites what the first was told is saved.
* The same contract, `:176`: racing commands keep the newest write as runtime and
  file truth.  A write that is superseded while it is written is not published; if the newer
  one is then turned down by its own check, the file has the older content, the
  loaded page neither (`writeQueue.js:391`, `pageCommandService.js:385`).
* `REPOSITORY_MAINTAINABILITY_AUDIT_0.0.1.9.0.md:552`: a write is stale only when
  a newer one is queued.  With nothing accepted yet the newest *created* revision decides
  (`writeQueue.js:573`).
* The same audit, `:464` and `:480`: navigation flushes the pending save.  It does, once;
  what is typed while `openPage` awaits that save has a timer of its own, which finds
  another page and drops the draft (`autosave.js:533`).
* The same audit, again `:464`: two explicit saves are asked for while `openPage` awaits its
  flush; the first is written, the page changes, and the second gives up because its
  page was left.  A save of the new page that was chained behind it meanwhile
  returns *its* answer (`autosave.js:197`) without saving or reporting anything; with no
  timer left, the next opening replaces the text.
* `BACKUP_AND_RECOVERY_CONTRACT.md:58`: any third state blocks a recovery.  A save that
  completes after its page was inspected is taken as the recovery's base
  (`pageStorage.js:180`); the journal still has it (`ReplacedIsInJournal`).
* The same contract, `:316`: after a restore a stale save conflicts.  A save that
  passed its check before waits in the queue, the restore writes past it
  (`backupService.js:1032`), and the save replaces the restored content.
* The same contract, `:421`: a pending record protects its snapshot.  Retention reads
  the records and then awaits the removal (`backupService.js:1821`): a record written
  in between names a backup that is gone.  It takes a limit of 1, or as many newer
  backups as the limit.
* `WORKSPACE_SCHEMA_CONTRACT.md:49`: no cycles of parents.  Two moves that were each checked
  against the same tree make one.  So do three changes that never overlap: a page is moved out of
  another, that one is moved into it, and the first move is undone or recovered, because
  `undoTreePositionChanges` (`pageStorage.js:2093`), `recoverScopedTreeMove` (`:173`) and the undo of a
  rename (`pageCommandService.js:1450`) bring the old parent back without `canMovePage`.
  `OnlyOvertakenMovesMakeCycles` shows that, of the changes of the module, every cycle needs one that another has
  overtaken; section 5 lists the other writers of parents.
* `COMBAT_ACTION_PIPELINE_CONTRACT.md:269`: the current observations are rechecked immediately
  before writing.  After that check the callback awaits the card type catalogue
  (`combatCharacterHealth.js:56`) and the queue reads the file once more
  (`writeQueue.js:401`): a turn control used in between reaches its model, and as pages have
  lines of their own perhaps its file, before the attack lands.
  `OvertakenAttackNeverLands` covers everything up to the check.

Behaviours worth knowing, about which no document says anything (all are steps of the models and named
exceptions above):

* The conflict of a special save is reported with the page that is open after the await.  If
  that is another one, a reload reads the open page's file and gives its content to the
  page that was saved (`editorSpecialSave.js:484`, `editConflictUi.js:692`, `:767`): on the next save
  of that page one page's text replaces the other's.
* A save that failed or was blocked may have landed; the next save of the editor then conflicts with
  the editor's own text (`autosave.js:381`).
* The least gap of the order compaction is smaller than the distance of two dates as doubles, so that
  siblings which cannot be divided any more are not found crowded (`treeOrderCompaction.js:2`).
* Retention goes on after a removal that failed half way (`backupService.js:1845`): what it left may
  have its manifest, and counts for the limit at the next cleanup.
* A restore overwrites a file that is not in the page list without a copy of it
  (`backupService.js:1664`, `:1032`).

Designs worth knowing: a limit of 1 lets a backup made during an adoption remove
the adoption's own before there is a record; a resume after the receipt is no longer
protected; a backup made while a restore is half way is newer than the safety copy
and can displace it.


### Bounds, and why they are enough

* *Page commands.* A stale check compares two revisions, a third command is the
  predecessor or successor in the chain that removes or keeps the chain's entry;
  three commands over two pages give all of it, with one legacy and one structured page.
  `MaxUndo = 1` reaches the trimming of the undo stack with two renames.
* *Contents* are identities of their writers, so no two writes are ever confused; one
  or two foreign contents stand for everything else.
* *Checkpoint queue.* `MaxRequests = 3`: a request that runs, one that asks for a
  rerun, one that comes after it; three keys make the queue longer than head and running job.
* *Scoped moves.* Two operations are a move and its recovery, or two moves that overlap;
  two pages are the least with a first and a last one.
* *Tree moves.* Three pages are a mover, a neighbour and a parent, or a cycle; three changes are a
  move, one that overtakes it, and what takes the first back, or a drop, a key and the compaction.  From
  10 on every second number can be held, and `MinGap = 1` is below that grain as in the code: of the
  orders 12, 14 and 18 two are neighbours that are not crowded, and one gap has room.  The compaction
  takes the orders below 10, where all numbers can be held; it runs when a drop has made two orders equal.
* *Editor.* Two drafts and two openings: one draft in flight while the other waits, and a
  page that is left and opened again; of the two pages one is special, because only those
  have a save of their own, and it is open at first.
* *Combat.* Two attacks and two undos contend for one place in a line each; one edit is the other
  command that can change health between attack and undo; `MaxHp = 1` makes the second
  hit one that changes nothing; two rounds let the last turn wrap.
* *Lifecycle.* A folder with its card is the least branch, a created page the least that
  appears while a deletion waits.
* *Backups.* A backup and the restore's safety copy are two snapshots against a limit of 1, and two
  retentions, the backup's own and another, with lists of their own; a limit of 1 makes every one but the newest a
  victim, what a removal has left among them.  One page that stays and one that may be deleted or come
  unlisted are the least that a safety copy can miss.  The run has no saves: a file that
  a save brings back unlisted is an `Arrive` there, and a file that changes after it was copied comes and goes
  by deletion and `Arrive`.  Saves are in the run `InventoryAdoption`, and in the proofs.
* *Adoption.* An item that two actors share is the least in which the planner's set of
  ready actors matters.  The newer snapshot that can displace the adoption's is the
  safety copy of the restore.  A stop of the program is a failure at an await followed by
  `Resume`; `Restart` itself is exercised by the run `Backups`.
* Symmetry is used only where no liveness is checked.

Deadlock is not checked: all calls of an instance may have returned.  That
nothing *waits* for ever is what the liveness properties say.  The type invariants of
`WriteQueue`, `PageCommand`, `ScopedTreeMove`, `TreeMoves`, `PageLifecycle` and `CombatAttack` are proved (section 4),
and so is `NeverStranded` of the checkpoint queue; no run repeats them.

### Fairness

Weak fairness is given to the turns of the event loop and to the adapter's
promises: a promise settles with some outcome, and what waits for it runs.  Idle
callbacks are scheduled with a timeout (with a timer where there are none), so
`ScheduledRun` is fair, and so is the editor's timer.  In `CombatAttack` the fair
steps are `Progress` of each call that has begun.  Nothing is assumed of users, other
programs, failures, workspace switches or crashes: no request needs to be made and none
needs to succeed.  `EveryMoveEnds` holds with crashes because a stopped operation
has ended; `EveryDraftIsAnswered` counts as an answer the conflict shown to the user
and the replacement of the text by an opening or a reload.

## 4. What is proved

All proofs are checked by TLAPS for all values of the constants, from the
assumptions named in the modules: `QueueAssumption` and `ResultAssumption`
(requests, foreign contents and `None` differ), `UndoAssumption` (the stack has
room), `CheckpointAssumption` and `JobAssumption` (`None` is no key and no job),
`EditorAssumption` and `ContentAssumption` of `EditorAutosave` (drafts, saves,
openings and writers differ, `None` is none of them),
`MoveAssumption` and `MoveNumbers` (operations, saves and outside contents differ;
operations are numbered), `TreeAssumption` and `TreeValuesAssumption` (kinds of changes differ, the root is no
page, orders are numbers; `Doubles` is any set of them, and nothing is assumed of the least gap), `LifecycleAssumption`, `ContentAssumption` and
`ResultAssumption` of `PageLifecycle` (calls differ, `None` is no content and no
result), `CombatAssumption` and `CombatValuesAssumption` (the same for combat),
`BackupAssumption` and `DataAssumption` (kinds of calls differ, there are finitely many pages, the
limit is not 0, `None` is no directory and no content), `AdoptionAssumption` (items and actors are pages that are not
deleted, a page is not both, an actor lists items).  TLC evaluates them in the runs.

**PageCommandProofs**, the queue - `Spec => []WriteQueueInv`, with
`WriteQueueInv == TypeOK /\ ChainInv /\ RevisionInv /\ DiskInv`.

* `OneWriterPerPage` is not inductive: that a task which settles does not start two
  others follows only from the order of the chain.  `ChainInv` adds tickets: the
  predecessor of a waiting request is the one queued just before it, a request that
  may run is the oldest one pending, `writeQueues` has an entry exactly while
  something is pending.  `OneWriter` follows.
* `NewerNeverOverwritten` needs to know what is in the files when a write lands.
  `RevisionInv` (revisions are distinct; a queued request with the newest revision
  has been accepted) and `DiskInv` (revisions in files have been accepted; a request
  that is writing is newer than what its page's files hold) give it: `NewerWins`.

* `SavedIsSettled` and `GuardedWritesKeepTheirWorkspace` rest on a second invariant over the
  first, `SettlementInv == LineInv /\ LatestInv /\ ContextInv /\ GuardedWriteKeepsWorkspace`.
  Whether a saved content is still in its file depends on what may yet land:
  `LatestInv` says that once a request is the one accepted last, any other
  revised task of its page that is under way was queued before it, and that what it wrote is
  still there, or what an unrevisioned write or another program put over it
  (`StillHolds`).  `ContextInv`: a guarded write under way goes to the root it was
  asked for.
* `QueueImplementsLines` is the safety part of the refinement: initial states of the queue
  map to initial states of `PageWriteLine`, every step to one of its steps or a
  stutter, through `Line` (the requests of a page by their tickets) and `Served`
  (what has returned).  `LineInv` is what the map needs of the queue: the tickets of
  a page are 1 to `issued`, each given once, and requests return in that order.

**PageCommandProofs**, the commands - `CommandsUseTheQueue`: every behaviour of commands is a
behaviour of the queue, so the queue's theorems hold for commands.
`CommandSpec => []CommandInv`, which adds `ProgressInv` (where a command is agrees
with what it holds), `PublishedInv` (loaded pages, bases and undo entries hold
saved contents only: a rollback or an undo could otherwise bring a blocked content
back) and `GuardInv` (what a guarded write is about to replace is its base).
`BlockedCommandsLeaveNoTrace` and `GuardedWritesExtendTheirBase` follow.

`QuietPagesAreCurrent` compares the end of all commands with what each of them has done; it
rests on `PublicationInv`, over both invariants above.  `OwedInv` keeps the
account of each page: when the file holds what the loaded page does not, the write is still
being verified, or a request is pending whose revision was accepted last, which no
later one can supersede (`SuccessorIsPending`: by `LatestInv` it was queued behind
the one it supersedes, and by `LineInv` it has not returned), unless a command of the page
has failed or a queued write was turned down.  `AcceptedInv` says that an accepted revision has
its request, `WorkspaceInv` that commands stay in their workspace.

**EditorAutosaveProofs** - `Spec => []EditorInv`, with `EditorInv == Types /\ ProgressInv /\
ChainInv /\ HomeInv /\ CauseInv /\ FlushInv`.  All five safety properties of the run follow.

* `OneSaveAtATime` and the second half of `TypeOK` need the chain as a whole: `ChainInv` says that
  the saves under way are a line (`IsLine`) in which each is chained behind the one before,
  that only the first can be at its command, and that `inFlightEditorSave` is the last.
* `BodiesStayHome`: `HomeInv` follows a text through files, loaded pages, the screen, saves, what a
  rollback will bring back (`before`) and what was read for a reload; what was read is at home on the page whose file it
  is, which is why giving it to another page makes that one `misloaded`.
* `ConflictHasACause`: `CauseInv` says of a page that no other writer has touched
  (`Undisturbed`) that a save at its command has its newest revision and, unless the page is `apart`,
  that its loaded page and its file agree, and every base and every rollback taken from it is what the
  file holds.
* `FlushedBeforeOpen` compares the end of an opening with its beginning, many turns before.
  `FlushInv` keeps the account of the draft that was on the screen: as long as the
  opening waits, the save it awaits has the draft or a later one, or is about to take it from
  the screen (`OpeningKept`, `ScreenKept`); what is in the files, or is written or given back from
  them, was told of (`FilesTold`, `WritersTold`, `BackTold`, `ReadTold`), and so was the failure that a
  waiting save is about to inherit (`FailureTold`).  The attempt to prove it
  without `unsaid` failed on a save that inherits an answer about another
  page, and that is how the divergence in section 3 was found.

**CheckpointQueueProofs** - `QueueInv` is inductive as it stands; `NeverDoubled`,
`AlwaysLookedAfter` and `RequestsKept` are its parts.

**ScopedTreeMoveProofs** - `Spec => []MoveInv`, with
`MoveInv == TypeOK /\ PlanInv /\ LineInv /\ KnownInv`.  `WriteAhead` speaks of files
only, but a move's content also travels: it is loaded, becomes the base of a save
or of a second move, and comes back with a rollback or a recovery.  `KnownInv` says of
all these places that the journal knows the move; `PlanInv` says that a plan in the
journal is complete and final; `LineInv` that what a write is about to replace is still
what was recorded.  `JournalPrecedesWrites` and `ReplacedContentIsKept` follow.

`Spec => []LoopInv` adds what a move leaves behind.  `CommittedIsComplete` holds a page's file
against what it was before the move, for as long as the program is used.  `CompleteInv`
says so of every page the loop has left behind.  It is kept because a content that has been
written cannot be written again: `UnusedInv` says that as long as a move or a save may still
write a page (`MayWrite`), its content is not in the file, on the loaded page or in
what anyone recorded; `RecoveryInv` says that only a recovery writes contents of
others, and only on the pages of what it recovers.  The step lemmas say where contents come
from (`DiskComesFrom`, `RuntimeComesFrom`, `PlanComesFrom`) and that a plan in the journal is
final (`PlansAreFinal`).  `CommittedMovesAreWhole` follows.

**TreeMovesProofs** - `Spec => []TreeInv`, with `TreeInv == TypeOK /\ PlanInv /\ UndoInv /\
MixInv /\ DragInv`.  A change writes its pages one by one, and what takes it back writes them one by
one again, perhaps after a failure half way: that each of its moves was checked is not enough.
`MixInv` says of every change that nobody has overtaken that *all* the trees which it, or its taking back,
can leave - each of its pages at the old or the new parent, the rest as it is (`MixedTrees`) - are without a
cycle, and that the tree there is, is one of them.  A move of one page has two of them, the tree as it is and
the one that `canMovePage` was asked about (`AllowedIsSafe`, `SafeMoveKeepsAcyclic`); a compaction and a
rename have one, since they change no parent (`GentleMixes`); an undo or a recovery has some of those of what it
takes back (`TakeBackMixes`).  A write of one change is a change of the tree for all others, which are overtaken by
it unless no parent has changed (`WriteMixes`).  `PlanInv` ties what a change has found to what it
plans, `DragInv` says that a drag's intent was checked against the tree as it is.  `CyclesNeedOvertaking` follows;
`CompactionKeepsParents` needs `PlanInv` and the guard before each write.  `DropsLandWhereShown` is about
`OrderBetween`: `LastExists` and `FirstExists` say that a finite, non-empty set of siblings has an extreme
(strict inclusion of finite sets is well-founded), `RoomBetween` that the mean of two orders with a double between
them rounds to a double between them, whatever the doubles are.

**PageLifecycleProofs** - `Spec => []LifecycleInv`, with `LifecycleInv == TypeOK /\
ProgressInv /\ LoadedInv /\ CopiesInv /\ HistoryInv /\ MissingInv`.

* `RemovedIsInTrash` looks at one removal, the copy was made many steps before.  `ProgressInv`
  says that a deletion which removes has its manifest, `CopiesInv` that past its
  copying it has a copy of each page of its branch, `HistoryInv` that a file which is no longer
  what was copied has been written since.  `LoadedInv` (what is listed or taken is
  loaded) is what makes the copy of a page without a file possible.
* `FailedDeletionsWriteBack` says who has taken a file that is missing after a failure.
  `MissingInv` keeps the account: a loaded page without a file was taken by a deletion or
  belongs to a creation that failed; while a deletion turns back, what it has come by
  already is not missing on its account.  Its undo entry must be complete (`Undone`, in
  `ProgressInv`), or an undo would give back what it does not have.
* `ListIsTrue` looks only at moments when nothing runs, and is as far from inductive as can be:
  every call changes files and list at different steps.  `AccountHolds` adds to the invariant what
  the list is owed meanwhile (`ListInv`): a listed page without a file belongs to a deletion that
  has yet to take it off (`Leaving`), a file that is not listed to a creation or an undo that has yet
  to list it (`Arriving`).  For that a deletion must be undone only once, by an undo that keeps the
  pages it has in hand (`UndoInv`): otherwise the one that ends takes the branch of the other.  A
  call that fails half way settles nothing of this; what is `Spoilt` stays so, and the property excludes it.

**CombatAttackProofs** - `Spec => []CombatInv`, with `CombatInv == TypeOK /\ LinesInv /\
LogInv /\ AtMostOneReversal /\ NotesInv /\ PlanInv /\ LandingInv`.  All safety properties of
the two combat runs follow.

* `OneReversal`: that an undo which appends is the only one rests on the line it waits in
  (`LinesInv`: who acts is the head of its target's line and of its page's) and on what it read
  there (`LogInv`: while it acts, its attack has no reversal in the log).
* `HealthMoves`: `PlanInv` says what a call makes of its base, and of an undo that
  attack and undo are each other's inverse; `LandingInv` that the file still holds the base
  when the adapter writes.
* `UnchangedIsTrue`: a command that failed compares the file with its base, but others may have
  written since.  `NotesInv` says that notes on pages and in bases have been written
  before: so a command that has not written yet puts a note there that the failed one's base
  does not have, and the file never looks like that base again.
* `OvertakenNeverLands` needs the phases: `since` grows only before the last
  validation, and from then on it is empty.

**InventoryAdoptionProofs**, the backups - `Spec => []BackupInv`, with `BackupInv == TypeOK /\ StampInv /\
CopyInv /\ ManifestMeansComplete /\ VictimInv /\ SafetyInv /\ SaveInv`.  The properties
of the run follow.

* `ManifestsAreTrue` needs `CopyInv`: until the manifest is written the directory holds the
  pages that the loop has left behind, unless a sweep took it, and once the backup is made only a
  removal changes it, step by step.
* `NewestSnapshotsKept` looks at each step of a removal; the victim was listed many steps before, and other
  cleaners may have removed what it was compared with, in whole or in part.  `VictimInv` says that a listed or
  doomed backup, and one that retention has begun to remove, still has as many newer ones as the limit
  says, complete or swept (`NewerKept`).  It survives the removal of one of these, because that one has
  enough newer ones itself, and they are newer than the listed backup too (`NewerOrder`, `KeptStays`).
  Retention counts manifests, and a leftover may have one: but a leftover that it counts is in `cleared`, so it
  has enough newer complete ones, and these count for the victim (`EnoughNewer`).
  `StampInv` makes the order final: a backup is stamped once, before its directory is there.
* `SafetyInv` says of a running restore that the file of a page that is not in `missed` is yet to be read or
  is still what was copied; `SafetyCopyHolds` is that and `CopyInv`, stated for the backups alone and among adoptions.

The adoptions - `AdoptionSpec => []AdoptionInv`, with `AdoptionInv == BackupInv /\ AdoptionTypeOK /\
StageInv /\ OneWriter /\ LandingInv /\ ActorsFollowItems /\ SourceInv`.  All properties of the run follow,
for any number of adoptions, saves and restores; the run has one of each.

* `ItemsComeFirst` could be broken by the adoption, which checks an actor's items in one turn and writes
  the actor in another, and by a save that writes its old base.  `LandingInv` says
  that what either is about to replace is still what was checked, and that the items of an actor
  that is about to land are adopted; `OneWriter` that nobody else writes the page in between.
  A restore asks nobody: hence the exception for `restored` in all of them.
* `SourcesStay` is `SourceInv`: not only is the backup there, no cleaner has decided to remove
  it.  A cleaner that decided before the pending record was written is the one exception,
  `exposed`.
* `StageInv` ties what an adoption holds to its records: a record exists only past the backup, and then
  the backup's copies are the plan, so that `SourceIsReplaced` can speak of the backup.


Only model-checked: the liveness properties, that of `PageWriteLine` in the refinement among them
(liveness under fairness and `ENABLED` are beyond the proof system).  What a
recursive definition computes for all inputs could not be proved either (induction over
data); the modules have none.

## 5. What is not modelled

* Formatting and parsing of pages, digests, index structures, events to listeners,
  timing records, messages: data no property here is about.
* `clearBackgroundCheckpointQueue`, which only tests call.
* The metadata updates of a page command, and undo entries of other commands than
  renames and deletions.  An undo entry is removed before its undo is awaited
  (`pageCommandService.js:1359`), so an undo that fails cannot be repeated.
* Wide tree moves: more than ten legacy pages (`SCOPED_TREE_MOVE_LIMIT`) go through a
  loop with a rollback in memory (`pageStorage.js:2229`) and no journal.
* Of the event log: property resource transactions (a page first, its transaction
  afterwards, `pagePropertyResourceTransaction.js:639`), the identity cache, numeric
  reversals.
* Of combat: participants' flags, the roster's membership, the dice.
* Of the tree: other writers of a page's parent than those of `TreeMoves`.  `updatePageParent`
  (`pageStorage.js:1350`; the diagnostics detach pages to the root with it, and undo that),
  rollbacks, the reload after a conflict (`editConflictUi.js:806`), a restore and a
  reload of the files all bring parents without `canMovePage`, and so can make the cycles that
  section 3 describes.  A restart of the program empties the list of undo entries, which the
  model may just as well leave unused.  Of moves that failed although they landed
  `ScopedTreeMove` has the account.
* Of backups: assets and definitions, restores of selected or single pages; the write-back
  and the undo of deletions during a restore, which `PageLifecycle` has; deletions of items
  and actors during an adoption; the other adoptions and migrations, which follow the
  pattern of the one modelled.
* World packages, the rules workspace, templates: planned or pure.
* Storage adapters below "an adapter write is atomic and may land even if it is
  rejected".
* Rendering, pointer coordinates, pickers, permissions: DOM work or pure I/O.  They are most
  of the repository's lines: knowledge graph, settings panels, diagnostics,
  popups and build tools have no state that outlives a turn of the event loop
  except what is drawn, and a model of them would say nothing a unit test does not.

## 6. Plan

Done: `WriteQueue`, `PageWriteLine`, `PageCommand`, `EditorAutosave`, `CheckpointQueue`,
`ScopedTreeMove`, `TreeMoves`, `PageLifecycle`, `CombatAttack`, `Backups`, `InventoryAdoption` with
their runs and proofs.

To come, the most important first:

1. Property resource transactions and the identity cache of the event log, among
   switches of the workspace.
2. Wide tree moves; world package import with its rollback.
3. Small ones: the stack of popups, atomic replacement on the desktop.
