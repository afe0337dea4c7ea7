# TLA+ models of Caldo

Caldo is a self-hosted todo application for one user, written in Go.  Tasks live
in a SQLite database, but the CalDAV server leads: every change is written
through to the server, and whatever other CalDAV clients do is imported by
periodic syncs.  One process serves HTTP requests, runs the scheduler and owns
the database.  The hard part of the program is that three parties write the same
task - the user's requests, the sync, other clients - and that a write-through
is three steps (database, server, database) of which the middle one takes no
lock and may fail, be lost, or be cut off by a crash.

This directory holds TLA+ modules of the program, TLC configurations that check
them on small instances, and TLAPS proofs.  `PROJECT.json` is the index: which
lines each definition models, what each run checks, which mutation of the code's
logic each property catches, the hazards, the finding and the theorems.

    tlc -workers 2 -config MCTaskSync_edits.cfg MCTaskSync.tla
    tlapm TaskSync_proofs.tla

## 1. The system

Paths are under `src/internal/` unless they start with `docs/` or `cmd/`.

| Component | State it keeps | Operations | What makes it correct |
|---|---|---|---|
| Task writes (`handler/tasks_*.go`, `db/tasks_*.go`) | `tasks`: text (`raw_vtodo`), base text, etag, `sync_status`, `server_version` | load, prepare, PUT/DELETE, mark, for create, update, complete, favourite, move, delete | no lost update; nobody marks a text that is not theirs; a synced row names the version that holds its text |
| Undo (`db/tasks_undo.go`) | `undo_snapshots`, one per tab | snapshot in prepare, undo of updates and deletions, expiry | undo goes through the same write path |
| Conflicts (`db/conflicts_resolve.go`, `handler/conflicts_*.go`, `view/conflicts.go`) | `conflicts`: base, local and remote text, open or resolved | record, compare, resolve, split, delete | the local text is never lost while the conflict is open; what is written is what the page shows |
| Full scan (`sync/fullscan.go`, `db/fullscan.go`) | - | list all objects; then import, merge, delete or record a conflict per row; link parents | rows and server agree in the end |
| Incremental sync (`sync/ctag.go`, `sync/fullscan.go`, `db/webdav_sync.go`) | sync token, ctag per project | fetch changes since the token, apply | the token is never ahead of what was applied; a delta gives what a scan would |
| Task move (`handler/tasks_update.go`) | - | PUT in the new calendar, DELETE in the old one | the task is never lost, and in one place in the end |
| Subtasks (`handler/tasks_delete.go`, `tasks_completion.go`, `db/tasks_create.go`) | `tasks.parent_id` | delete, complete and create task by task | links refer to rows; bottom up; one level |
| Labels (`handler/labels_update.go`, `db/labels_*.go`, `db/task_labels.go`) | `labels`, `task_labels`, derived from the texts | rename and delete, task by task; derive | assignments say what the texts say |
| Sync runs (`db/sync_status.go`, `sync/engine.go`, `scheduler/periodic.go`, `handler/sync.go`) | `settings.sync_state`, the engine's mutex, `projects.sync_strategy` | tick, manual sync, run over all projects with fallback, report, cleanup | one run at a time; success means all projects; runs go on for ever |
| Process (`cmd/caldo/main.go`, `shutdown/shutdown.go`) | lifecycle context, coordinator | start, signal, drain, stop, timeout | a restart finds a usable state |
| Projects (`handler/projects_*.go`, `db/projects_*.go`, `db/settings_update.go`) | `projects` with a version, default project | create, rename, delete with a reservation around the remote request; select calendars | project and calendar agree; one default; tasks go only with a confirmed deletion |
| Setup (`handler/setup*.go`, `db/setup*.go`) | setup step, flags and queues of the import broker | credentials, calendars, import, events, completion | the gate opens only after a complete import |
| Texts (`model/`) | - | patch of a VTODO, three-way merge, categories, recurrence rules | unknown properties survive; a merge invents nothing |
| Filters, quick add (`query/`, `parser/`, `handler/quick_add.go`) | `saved_filters` | parse, compile, evaluate; parse, preview, create | a filter means what it says; no word is lost; what is shown is created |
| Pages (`db/tasks_views.go`, `db/navigation.go`, `view/`) | `list_view_preferences` | views, navigation, rows, fragments, sorting, grouping | counts, marks, links and lists agree with each other |
| Live events (`handler/events.go`) | a queue of 8 events per subscriber | subscribe, publish, drop when full | - (see 6) |
| Search, settings, startup lock, migrations, discovery, credentials | rows, files | single statements, pure functions | - (see 6) |

How they interact:

* Handlers, scanner and scheduler share the database.  Every database function
  that writes holds `WriteMu` and runs one transaction; between two such
  functions of one handler anything may happen.  Requests of different tabs run
  at the same time; `server_version` is the only guard between them.
* Handlers and sync talk to the CalDAV server without any lock.  `If-Match` with
  the row's etag is the only guard between them and other clients.
* Scheduler and manual sync call the same engine.  The flag `sync_state` in the
  database keeps them apart, the engine's mutex does so a second time.
* `main` starts the scheduler with a lifecycle context; the shutdown coordinator
  calls `http.Server.Shutdown`, which cancels that context, and then
  `PeriodicScheduler.Stop`.
* Labels, parent links, projects and undo snapshots hang on tasks by foreign
  keys; some are kept by the writers of texts, some only by syncs.
* The import of the setup runs in a goroutine of its own; its pages learn of it
  through the flags and queues of a broker in memory.

What is hard: interleavings between load, prepare, request and mark of several
handlers and a scan; lost answers that a retry turns into a 412 against one's
own write; crashes between any two of these steps; stale lists - of a scan, of a
rename, of the settings page - applied to rows that have moved on; sequences of
remote requests of which one fails; derived data that some writers forget; a flag
that outlives the process that set it.  `PROJECT.json` lists them under
`hazards`, each at its line and with the properties that watch it.

## 2. Modules

    Vtodo                contents, patch, merge             model/vtodo_*.go
      TaskRows           rows, conflicts, scan verdicts     db/fullscan.go
        TaskSync         one object: all who write it       handler/, db/, caldav/
          TaskSyncHistory, TaskSync_proofs
        TaskMove         one object in two calendars        handler/tasks_update.go
          TaskMove_proofs
        Families         parent links, cascades             handler/tasks_delete.go
          Families_proofs
        Labels           categories of many tasks           handler/labels_update.go
          Labels_proofs
        IncrementalSync  one project, several objects       sync/, db/webdav_sync.go
          (with CalDAVServer, Strategies)                   stagecaldav/server.go
      TaskStore          abstract: what optimistic locking promises
    SyncRuns             flag, engine, scheduler, process
      (with Strategies)
    Sync_proofs          about SyncRuns and IncrementalSync
    Projects             projects and calendars
      Projects_proofs
    Setup                wizard, import, broker
      Setup_proofs
    TaskViews, Pages     what lists, navigation and rows show
    FilterLanguage, QuickAdd, QuickAddCreate, Recurrence, LabelFields,
    ConflictForm, Description        pure algorithms
    Operators_proofs     lemmas on rows and texts for the proofs about TaskRows'
                         users; theorems about rules, views, saved filters,
                         favourites, conflict forms and quick add
    MC*                  instances for TLC

One action is one database transaction, or one CalDAV request at the moment the
server answers it.  Every concurrent module has the same kind of handlers: a
record of the local variables of a request, with the step it is at in `pc`, and
`Allowed`, the set of behaviours that an instance admits.

### Vtodo, TaskRows

A VTODO is a function from fields to values; `KnownField` are those that
`ParseVTODOFields` and the merge know.  `Patched` is what `PatchVTODO` does,
`MergedVTODO` and `MergeConflict` what `MergeVTODOFields` does: the result is a
patch of the *base* text.  Line folding, escaping and nested components are
abstracted away.

One row of `tasks` is a record of version, text, base text, etag and status; an
etag is the number of the server's version (0 for NULL).  A deleted row keeps its
number with status `absent`, since task ids never come back.  `Verdict` and
`MissingVerdict` are the branches of `ApplyFullScanProject`, in its order;
`AfterVerdict` and `ConflictsAfterVerdict` are their effects.

### TaskSync

Follows one VTODO of one project through everything that writes it.  State and
code:

| Variable | Code |
|---|---|
| `server` | the object on the CalDAV server: all versions in order, so that an etag is an index and remains meaningful after the version is gone |
| `rows` | the rows of `tasks` with this UID, in order of creation.  More than one is possible: two undos of one deletion each insert a row |
| `conflicts` | the entries of `conflicts` per row |
| `undo` | `undo_snapshots`, one per tab |
| `req` | the local variables of every handler, and where it is (`pc`) |
| `scan` | what `ListVTODOs` returned to the scanner |
| `started` | bound on requests |

| Code | Actions |
|---|---|
| update, complete, favourite: `LoadTaskUpdateBase`, `PrepareTaskUpdate` | `UpdateLoad`, `UpdatePrepare`, `UpdateRefused` |
| create, delete: first transaction | `CreateInsert`, `DeletePrepare` |
| `TaskUndo`: `prepareTaskUpdateUndo`, `prepareTaskDeletedUndo` | `UndoUpdatePrepare`, `UndoDeleteReuse`, `UndoDeleteInsert` |
| `ResolveConflict` | `ResolveLoad`, `SplitLoad` |
| PUT with its retries; GET after a 412; DELETE | `PutAccepted`, `PutLost`, `PutFailed`, `PutRefused`, `GetRemote`, `DeleteAccepted`, `DeleteLost`, `DeleteFailed`, `DeleteRefused` |
| `MarkTask...`, `MarkConflict...` | `MarkUpdateSynced`, `MarkError`, `MarkUpdateConflict`, `MarkCreateSynced`, `MarkCreateError`, `MarkCreateRowGone`, `MarkDeleteSynced`, `MarkDeleteConflict`, `MarkResolved`, `MarkSplit`, `MarkRefused`, `DropSnapshot` |
| scan: `ListVTODOs`, `ApplyFullScanProject` | `ScanFetch`, `ScanApply`, `ScanAbort` |
| crash, failed mark, early return | `Abandon` |
| other CalDAV client, expiry | `RemoteWrite`, `ExpireUndo` |

Choices worth knowing:

* A request with an `expected_version` older than the loaded one is refused by
  prepare without effect, so it would be a stuttering step and is left out.
* `PutCreate` has no `If-Match` and no retry.  PUT of an update and DELETE are
  retried `MaxAttempts` times; 412 ends them at once, 404 makes DELETE succeed.
  What a server does with an empty `If-Match` is its own choice, so it may do
  either.
* The server is assumed to answer a PUT with the new ETag.
* Failing to load credentials after prepare ends an update with an error mark
  (like `PutFailed`), and an undo without any mark (`Abandon`).
* `prepareTaskDeletedUndo` takes the most recently updated of the reusable rows;
  the model takes any of them.
* The undo of a deletion rebuilds the href from the UID.  In the model the object
  keeps its href.
* A crash of the process is every handler dying in some order; between two of
  them another handler may still take a step.  The model thereby has more
  behaviours than the code, never fewer.

`TaskSyncHistory` adds the history variable `stored`: for each field, the last
value Caldo accepted, unless another client has written the field since.

### TaskStore

The abstract specification of optimistic locking: edits are atomic
read-modify-write steps, whoever else writes; a version names one text; a row
that is gone stays gone.  `TaskSync` implements it under the mapping `StoredRows`
(version, text, existence of each row) and `Jobs` (handlers between load and
prepare).  `UpdateLoad` maps to `Begin`, `UpdatePrepare` to `Edit`,
`UpdateRefused` and a handler that dies before prepare to `Drop`; every other
step is a `Rewrite` or a stutter.

### TaskMove, Families, Labels

Three ways in which one request becomes a sequence of writes; each module keeps
the shape of `TaskSync` and adds what the sequence is about.

* `TaskMove`: `copies` is the object in each calendar, `cal` the project of each
  row.  `Start`, `Prepare`, `Put`, `Get`, `Delete`, `Mark` are the steps of
  `TaskUpdate` when the project changes: prepare moves the row, PUT goes to the
  new href without a precondition, so that it replaces whatever is there, DELETE to
  the old one with the etag, and the scans of the
  two calendars (`ScanFetch`, `ScanApply`) import whatever they find in between.
  The history variable `alone` names the move, if there is one, that no other move
  of the task has overlapped.
* `Families`: `parent` is `tasks.parent_id`, and `births` tells a row from a later
  one with the same UID.  `Start` and `List` are the confirmed request and
  `ListSubtasks...`; `Load`, `Prepare`, `Remote`, `MarkDeleted`, `MarkPut`,
  `MarkFailed` run once per subtask and then for the parent; `StartCreate` and
  `Insert` create a subtask; `ScanApply` rebuilds the links from RELATED-TO.
* `Labels`: `name` and `tags` are `labels` and `task_labels`, derived from the
  texts by `SyncTaskLabels`.  `StartLabel`, `List`, `Prepare`, `Remote`, `Mark`
  are a rename or a deletion; `RenameLabelRow`, `DeleteUnusedLabel`,
  `RenameUnusedLabel` what it does at the end; `StartEdit` and `StartUndo` are the
  writers that keep the assignments, and the one that does not.  The history
  variable `loose` remembers the tasks that such a writer was the last to store, and
  those whose label an overtaken rename gave an old name back (section 4).

### IncrementalSync, CalDAVServer

`CalDAVServer` is the server as operators on a record, in the form of the staging
server of the repository: every change has a revision; etags, ctags and sync
tokens are revisions.  `IncrementalSync` is one project with several objects.
`SyncCollection`, `CompareCTag`, `ReadStates`, `ListETags`, `Fetch`,
`FetchMissing`, `ScanFetch` are the requests of the three strategies, `Downgrade`
is `ErrFallbackRequired`, `Apply` is `applyIncrementalSyncProject` or
`ApplyFullScanProject`, and `Persist` stores the token.  `Applied` is a pure
function of rows and report, so that `DeltaIsScan` can compare two of them in one
state; it applies the objects one after the other in any order, as the code does,
and checks the versions of the rows it writes.  `Strategies` has what the engine
and the runs share.  The user's request is one at a time: its races with itself are
TaskSync's.  `raced` remembers, for each href, the last revision that an answer
applied between a request of the user at that href and its mark has covered: the
mark has no version check and may overwrite what that answer stored.
`NothingMissed` promises every change after it, at any time, also in the middle of a
run.  `Events` are what other clients, the server and the user do; the run leaves
out "move", an object that another client stores under another UID or at another
href (section 4).

### SyncRuns

Who runs the sync and when.  `syncState` and `strategy` are the database and
survive; `run`, `lock` and the shutdown variables are memory and do not.

| Code | Actions |
|---|---|
| `TryStartManualSync` from `runSyncTick` and `ManualSync` | `Tick`, `ManualSync` (both through `TryStart`) |
| `Engine.Run`, `runProject` | `EngineStart`, `EngineRefused`, `FallBack`, `SyncProject`, `SyncFails`, `EngineEnds` |
| `FinishManualSyncSuccess`, `...Error` | `FinishSuccess`, `FinishError` |
| `runCleanup`, end of the loop | `Cleanup`, `LoopEnds` |
| `main`, `Coordinator.handle`, `net/http` | `Boot`, `Signal`, `CancelLifecycle`, `Drained`, `Stopped`, `TimedOut`, `MainReturns`, `Crash`, `RequestArrives`, `RequestEnds` |

The history variable `synced` collects the projects synced since the last claim.
What one strategy does to a project's tasks is TaskSync's and IncrementalSync's
subject.  Setup is complete from the start; `SetInterval` is not modelled because
it only changes how often ticks come.

### Projects

`calendars` is the server (a name for each href), `projects` the rows, each with
the little that matters of its tasks: whether there are any, and the project name
they were stored with.  A rename or deletion is `Reserve` (the transaction that
checks the version and takes the next one), `RemoteRename`/`RemoteDelete`/
`RemoteFails`, then `CommitRename`/`CommitDelete`, or `Cancel`; `CreateCalendar`
and `InsertProject` create; `ListCalendars` and `SaveSettings` are the settings
page: a selection is looked up in the list of calendars that the request itself has
read from the server, and stored in a later transaction.  `TaskLoads`, `TaskStores`, `TasksGo`,
`ConflictRecorded`, `ConflictsExpire`, `StrategyStored` are what other components
do to a project.  The history variables are `commits` (renames per project) and
`disturbed` (projects that a lost answer, a crash or another client has touched).

### Setup

`broker` holds the flags of `setupImportEventBroker`, `page` the tabs with their
requests and event queues, `run` the goroutines of `executeSetupInitialImport`.
`SaveCalDAV`, `SaveCalendars`, `Visit`, `Subscribe`, `Cut`, `ImportCheck`,
`ImportStart`, `Receive` are what a tab does; `ImportLoad`, `ImportList`,
`ImportListFailed`, `ImportStore`, `ImportDone`, `ImportFinish` a goroutine;
`CompleteCheck`, `CompleteCommit`, `CompleteMark`, `CompleteStart` the steps of
`SetupComplete`; `Restart` a crash.  `gaps` remembers the two moments at which a
second import can start that nothing keeps apart from the first (section 4).

### Pages, TaskViews and the pure algorithms

`TaskViews` has the conditions and orders of the SQL views and the bundling,
sorting and grouping of `view/task_list_display.go`; `Pages` the counts of
the navigation, its marks, the limits and fragments, what a row offers, view
preferences and saved filters, as operators on one record of tables.
`FilterLanguage` goes from characters through lexer, parser and compiled SQL
condition to three-valued evaluation.  `QuickAdd` is the parser of a quick-add
line, `QuickAddCreate` its preview and the task that the confirmed form creates.
`Recurrence` edits rules and words them, `LabelFields` applies the rules for
categories, favourite and priority, `ConflictForm` compares three versions and
builds the text of a manual resolution, `Description` splits Markdown into
segments.  In all of them words, names, days and characters are members of small
sets.

## 3. Runs

Run names are those of `PROJECT.json`; each lists exactly the properties of its
`.cfg`, and each property has a mutant of the code's logic that breaks it.

| Run | Instance | Shows |
|---|---|---|
| `edits` | 2 fields, 2 values, 2 handlers, 2 requests of create, update, delete and undo, scans, 1 remote version, retries, lost answers | `PatchBaseIsCurrent`: an edit is never stored over text it was not computed from.  `MarkOwnContent`: between prepare and mark nobody slips a text under a handler's version.  `SyncedAsPushed`: a mark stores the etag of the version that holds the row's text.  `ImplementsTaskStore`: the refinement, also when rows are deleted, taken over and added |
| `resolve` | 1 field, 2 handlers, 3 requests of update, undo, resolve, split, 3 remote versions | `ConflictKeepsLocal`: a row in conflict has an open entry with its local text, if no task is deleted (section 4) |
| `converge` | 1 field, 2 handlers, 2 requests, 2 remote versions, all faults, fair | `SyncConverges`: in a project with the strategy `fullscan`, after everything else has stopped, scans bring all rows that claim to be synced into agreement with the server |
| `runs` | scheduler and 2 manual syncs, 3 projects, 2 requests, all faults, restarts without bound, fair | `EngineNeverRefuses`: flag and mutex agree.  `SuccessIsComplete`, `StrategyOnlyDegrades`.  `RunsRecur`: runs start and end again and again, unless the flag is left behind or the process keeps restarting |
| `incremental` | 2 hrefs and UIDs, 3 revisions after the initial one, 1 user request | `NothingMissed`: no change that the stored token or ctag covers is unknown to the rows.  `DeltaIsScan`: the delta since the token leaves the rows that a full scan would leave |
| `projects` | 2 calendars, 2 names, 2 project ids, 2 handlers, 4 requests, versions up to 4, all operations and faults | `ReservationsDistinct`, `HolderIsAlone`: versions that go up and down work as a lock.  `OneDefault`.  `Agreement`: a project that nobody is at work on has its calendar, under its name.  `TasksOnlyGoWithCalendar` |
| `families` | 3 tasks, 2 handlers, 2 requests, 1 remote write | `ParentExists`: links refer to rows.  `ScanFlattens`: one level after a scan.  `ParentGoesLast`: the DELETE of a parent follows those of its listed children |
| `move` | 2 calendars, 3 rows, 2 handlers, 2 requests, 1 remote write, fair | `NeverLost`: the object is always somewhere.  `MoveEndsAlone`: a move that ends well, and that no other move has overlapped, leaves one copy.  `RowsMatchCopies`: in the end every copy in a project with the strategy `fullscan` has its row; one of the two projects has it |
| `setup` | 2 tabs, 2 goroutines, 2 calendars, 3 forms, queues of 2, fair | `GateAfterCommit`, `OneImport`, `CompleteImported`, `OwnTasksSafe`; `WatchEnds`: a page that waits learns of the end; `CompleteOpens`: after the commit the application opens |
| `labels` | 2 tasks, 3 spellings of 2 labels, 3 label ids, 2 handlers, 2 requests, 1 remote write | `AssignedAsWritten`: assignments follow texts.  `ListedIsCurrent`: a rename writes only over what it has read.  `GoneFromTasks`: a label whose row goes is on no task |
| `algorithms` | 240,591 inputs, one per state | `FilterSelectsAsRead`, `TextIsKept`, `QuickAddAsShown`, `RuleEditKeepsRest`, `FavoriteFollowsPriority`, `ConflictAsShown`, `PagesAgree`, `FamiliesStayTogether`: each algorithm against a statement of what it is for |
| `claim_lost` | 1 handler, 1 request, 2 remote versions | `NoEditLost` is **violated** (section 4) |

The references of the `algorithms` run are written independently of the code: for
filters a two-valued reading of the syntax tree, in which "overdue" and labels mean
what `docs/arch.md` has them mean, and a printer that sets only the parentheses it
must; where a leaf of the filter diverges from the documentation for a task
(`Diverges`: a completed task under "overdue", a name within the name of a label),
`FilterSelectsAsRead` states the divergence, and fails in TLC without it; for quick-add lines an account of every word; for rules an
edit of one side and a look at the other; for pages the equality of what two
queries say about the same tasks.  `tlc -coverage` is slow in this run, since
TLC unfolds every call; the quantifiers over one-element sets in these properties
are there to name a value once.

### Bounds, and why they are enough

The races of TaskSync are between pairs: two edits, an edit and a scan, an edit
and an undo.  Two handlers and one scanner show all pairs and the scan as a third
party; a third request (`resolve`) gives each pair a history (a conflict to
resolve).  Two values suffice to tell equal from different texts, two fields to
tell a merge from an overwrite; with one field of two values every concurrent
change still either agrees or conflicts.  Two remote versions (counting the
imported one) are one change behind Caldo's back, three are a change and a second
one during its resolution.  Two attempts are enough for a retry to meet its own
write.

`SyncRuns` is finite by itself: three projects have a first, a middle and a last,
two manual syncs and the scheduler make three contenders.  In `projects` four
requests are two that race, with one before them and one that meets what they
left; versions up to 4 let a reservation be taken, given back and taken again.  In
`families` a parent, its child and a third task are what it takes to nest, and to
create a subtask while its parent goes.  `move` has a third row for the one that a
scan imports between PUT and DELETE.  `incremental` needs two objects to tell a
change from a deletion in one report, and three revisions: one before the token
and two around a fetch.  `setup` has one more tab and one more import than there
should be, and a queue that two events fill.  `labels` has two spellings of one
label, and another name to rename it to.

Deadlock is checked in the runs of TaskSync, SyncRuns and IncrementalSync, where
scans or ticks go on for ever; the others end when their requests are used up, and
`algorithms` stops at its inputs.  Type invariants are proved (section 5) or were
checked while the modules were written; the runs spend their time on the
properties.

### Fairness

`FairSpec` of TaskSync asks three things only.  A handler that has accepted a
request goes on (`WF` per handler): CalDAV requests have timeouts and bounded
retries, database writes wait only for other short transactions.  Full scans are
started again and again (`WF(ScanFetch)`), but only if `SyncStrategy`, the strategy
of the project, is `fullscan`: that runs recur is `RunsRecur`, checked in SyncRuns,
and `runnerFor` (`sync/engine.go:129-137`) makes them full scans.  The other
strategies fall back when the server refuses them, which nothing makes it do again
and again; for them `SyncConverges` promises nothing, since an unchanged token or
ctag reports nothing anew (section 4).  A scan that keeps being started is applied infinitely often
(`SF(ScanApply)`): it need not be every time, since `ScanAbort` may end it.
Users, other clients and faults are not bound to act, and are bounded in number.
`FairSpec` of TaskMove is the same, with a strongly fair scan of each calendar in
`FullScanned`, those of projects with that strategy: the engine takes the projects
in turn.  The run has one such calendar and one that is scanned fully at most by way
of a fallback, and `RowsMatchCopies` is about the first.

`FairSpec` of SyncRuns asks that the ticker ticks, that a run that is under way
goes on, and that a process that is down is started again.  It says nothing of
the shutdown.  `RunsRecur` has two exceptions, both real: a flag `running` that no
run holds (nothing resets it), and a process that keeps dying.  The word *crash*
in `converge` therefore means a handler or a scan that ends early, not a process
that dies during a run.

`FairSpec` of Setup asks that a tab that has sent a request, or has an event in
its queue, goes on, and that a goroutine goes on.  Visits and forms are up to the
user.

## 4. Findings

`claim_lost` checks one property and TLC finds it violated: the documentation
promises "no silent data loss" (`docs/arch.md:19`), but a text that a scan has
merged from a local edit and a remote change is never put on the server, and the
next import wipes the edit out without a conflict.

The models also contain the following, as the code does it; they have no run of
their own.  A passing property that mentions a history variable (`loose`, `gaps`,
`disturbed`, `found`, `raced`, `alone`) or a restricted `Allowed` leaves out exactly the paths
listed here.

Task writes, undo, conflicts:

* Undo after a remote change sends the present etag and overwrites
  (`db/tasks_undo.go:107`; `docs/arch.md:1458` wants a conflict).
* The mark of an undone deletion ignores versions; a row may stay synced with a
  text the server never had (`db/tasks_create.go:161`; `docs/prd.md:490`).
* Keeping both versions of a conflict marks the local row synced without a PUT
  (`db/conflicts_resolve.go:170`; `docs/arch.md:1572`).
* `MarkTaskUpdateSynced` leaves `base_vtodo` alone, where `docs/arch.md:1500` wants
  the text of the last successful sync: an edit during a scan can end in a
  conflict with Caldo's own earlier edit, without any other client.
* `PrepareTaskUpdate` compares only versions and so edits rows in conflict, which
  `docs/prd.md:1036` calls blocked.
* A refused deletion sets the state conflict without an entry in `conflicts`
  (`db/tasks_delete.go:167`, `docs/arch.md:1489`), and scans skip the row from then
  on.  `resolve` therefore leaves deletions out.
* An edit that meets a remote deletion is recorded as `field_conflict`
  (`handler/tasks_update.go:247`); resolving it for the local version
  (`docs/arch.md:1553`) is refused with 412 every time.
* A resolution of `edit_delete` puts without `If-Match`
  (`handler/conflicts_resolve.go:116`) and replaces what another client has
  created there since.
* A merge is a patch of the base text, so remote changes of properties outside
  `KnownField` are dropped (`model/vtodo_conflict.go:13`).
* In the conflict form, choosing a version without categories keeps the labels of
  the target though the preview shows none (a nil list means "leave alone");
  recurrence, attachments and favourite offer no choice and come from the remote
  version if there is one.
* The conflict page compares recurrences by their label, so two weekly rules on
  different days count as unchanged (`view/conflicts.go`, `conflictRecurrenceValue`).

Sync:

* `Engine.Run` ends at the first project that fails, so later projects are not
  synced as long as it does (`docs/arch.md:1148`: all calendars).
* Nothing resets the flag `running` after a crash or a shutdown during a run
  (`db/sync_status.go:40`), where `docs/operations/health-debugging.md:118` calls
  that a product bug; `RunsRecur` excepts it.
* `main` returns when `ListenAndServe` does, at the beginning of the shutdown, and
  so does not wait for work under way (`cmd/caldo/main.go:121`;
  `docs/operations/health-debugging.md:110`).
* WebDAV sync falls back to ctag only on `ErrFallbackRequired`, not whenever it
  fails (`docs/arch.md:1130`).
* Marks without a version check overwrite what an incremental sync has stored.
* A scan that merges a pending or failed edit with a remote change stores the merge
  as synced without a PUT (`db/fullscan.go:105`).  With the strategy `fullscan`
  the next scan replaces it by the server's text; with `webdav_sync` or `ctag` the
  row stays different from the server for as long as nobody else changes the object,
  since the token or ctag covers it.  `SyncConverges` and `RowsMatchCopies` are
  therefore about projects that are scanned fully.
* An object that is deleted and stored again at another href between two syncs: the
  delta matches the new href by UID and imports it, then deletes the same row by the
  old href with the version it was loaded with (`db/webdav_sync.go:112`,
  `db/fullscan.go:370`).  The version has changed, the transaction fails, the token
  stays, and so does every later delta of the project; a full scan would move the
  row.  With "move" in `Events` TLC finds `DeltaIsScan` violated.

Moves and families:

* The PUT of a move has no precondition (`caldav/todos.go:433`), and the new href is
  the task's own (`joinCalendarTaskHref`).  A copy that a failed DELETE has left
  there, or a move back that overlaps the first, is replaced unseen, and with it
  what another client has written to it.  `NeverLost` says that the task remains
  somewhere, not that every text of it does.
* Two moves of one task that overlap can leave a second copy behind: the second
  starts from the calendar the first has given the row, and may delete there, which
  a 404 lets succeed, before the first has put its copy (`handler/tasks_update.go`,
  the DELETE after the PUT of a move).  The row counts as synced in the third
  calendar, and a scan imports the copy as a second task.  `MoveEndsAlone` speaks of moves that no other overlapped;
  `NeverLost` of all.
* When the DELETE of a move fails, the copy in the old calendar stays and is
  imported as a second task.  The undo of a move (`docs/arch.md:1397`) restores
  the text only.
* A subtask created between the listing and the DELETE of its parent: the parent's
  object goes, the deletion of its row fails on the foreign key, and the next scan
  makes an `edit_delete` conflict of it.
* Of a family that was deleted or completed only the last task, the parent, can
  be undone.
* Two levels can come about by incremental syncs, which set no parent links, or
  where a row is in conflict (`docs/arch.md`, 17.2).

Projects and setup:

* Without credentials a rename keeps its reservation
  (`handler/projects_rename.go:68`).  Two renames that overlap can leave local and
  remote names different; a sync's fallback raises the version during a
  reservation, so that the commit is refused after the remote change.
* The settings page names projects without raising their version
  (`db/settings_update.go:107-121`).  A form shown before, or a request under way,
  is accepted all the same: it renames, or deletes, a project that by then has
  another name than the user has seen or confirmed.  `HolderIsAlone` excepts just
  this (`found` follows the names that selections give); without the exception TLC
  finds it violated.
* A rename raises the version with its reservation, not with its commit
  (`db/projects_rename.go:119-123`).  A form that shows the project in between has
  the new version and the old name, and its rename is accepted afterwards; a
  deletion compares the names.  `HolderIsAlone` speaks of the time from the
  reservation on.
* A task that was loaded before a rename stores the old `project_name`.
* A stale settings form removes a project created in another tab since, and its
  stale list overwrites names.  The foreign key of `conflicts.project_id` stops
  a deletion after the remote calendar is gone (`db/projects_delete.go:131`).
* An import started between the published end of another and its `FinishRun`
  (`gaps`: "early") runs beside it; one started while or after the setup is
  completed ("late") replaces the tasks of the projects, those that only the
  user's database holds too (`docs/arch.md:337`).
* `POST /setup/caldav` and `/setup/calendars` work after the completion and set
  `setup_step` back.  A page whose stream broke, or whose queue was full, misses
  "done" and waits for ever.

Labels:

* `task_labels` is not written by the setup's import, by undo, or by the
  resolution of conflicts (`db/setup_import.go`, `db/tasks_undo.go:117`,
  `db/conflicts_resolve.go:122`): such tasks are missing on label pages, and a
  rename or deletion does not reach them (`docs/prd.md:526`).  With `loose` dropped
  from `GoneFromTasks`, TLC finds it violated.
* The last step of a rename does not ask what name the label has by then
  (`db/labels.go:229`): of two renames that overlap, the older can give the label
  back a name it had lost, while its tasks carry the newer one, until each of them is
  stored again.

Filters, quick add, pages:

* `today`, `overdue`, `upcoming`, `no date`, `before` and `after` test `due_date`
  only: a task with a time is never `today` and always `no date`, though the
  system views see its day.  `priority:high` compares a word with a number.  NOT of
  a condition on a missing value excludes the row.  `overdue` includes completed
  tasks (`query/filter_compiler.go:90`; `docs/arch.md:1942` wants them left out),
  and a label condition matches parts of names (`query/filter_compiler.go:108`;
  `docs/arch.md:1958` resolves names to ids): these two are `Diverges`.  A bare word makes the whole list empty.
* Changing or deleting a saved filter that is gone is answered with a version
  conflict, so the 404 branches of the handlers are never reached.
* A label may have a comma in it (`token/prefix.go:16`).  The preview of quick add
  shows it as one label, but its form joins the labels with commas
  (`view/quick_add.go:46`) and the creation splits them at every comma
  (`handler/tasks_create.go:300`): `@garden,home` is shown as one label and becomes
  two, and of `@,` nothing is left.  `Pieces` models it, and `CreatedAsShown` says
  which labels come out; they are those shown where no label has a comma.
* Of several `#project` tokens the last wins silently.  A label of the reserved
  name makes the task a favourite that the preview does not show.
* The end of a rule (UNTIL with a time) becomes the end of its day when the form is
  saved unchanged.
* A row shows a star for priority up to 4, the page Favourites lists tasks with
  the category: a task of another client with priority 1 shows a star and is not
  listed.  A project named like a system view marks that view's entry too.

## 5. Proofs

TLC checks the instances above; the theorems hold for every number of handlers,
tabs, fields, values, objects, requests, projects and every choice of faults.  They assume
the named assumptions only: `VtodoAssumption` (known fields are fields, the empty
text is not a content), and for each module its own (`SyncAssumption`,
`RunsAssumption`, `ProjectsAssumption`, `SetupAssumption`, `MoveAssumption`,
`FamiliesAssumption`, `LabelsAssumption`, `ServerAssumption`,
`IncrementalAssumption`): types of the constants, distinctness of the special values,
finitely many calendars and handlers (moves), tasks (labels) or hrefs (incremental
sync), where the argument counts, and that two hrefs are not home to one UID.  Texts are contents; in Families those of other
clients name as parent a task the instance has, or none, as `RELATED-TO` to an
unknown UID sets no link.

### TaskSync_proofs

| Theorem | Statement |
|---|---|
| `InvariantHolds` | `Spec => []IInv` |
| `TypeCorrect` | `Spec => []TypeOK` |
| `EditsAreCurrent` | `Spec => []PatchBaseIsCurrent` |
| `MarksAreForOwnContent` | `Spec => []MarkOwnContent` |
| `SyncedRowsAreStored` | `Spec => SyncedAsPushed` |
| `ConflictsKeepLocal` | `"delete" \notin Allowed`, then `Spec => []ConflictKeepsLocal` |
| `OnlyRefusedDeletionsLose` | with deletions: no step but `MarkDeleteConflict` makes `ConflictKeepsLocal` false |
| `StoreImplemented` | `Spec => ImplementsTaskStore` |

None of the three safety properties is inductive.  `PatchBaseIsCurrent` says that
*equal* versions mean equal texts, which a step of somebody else could break from
an unreachable state in which a handler knows a version the row has not reached
yet.  `IInv` adds that no handler knows a version ahead of its row (`PrepareOK`,
`PendingOK`), that snapshots have texts, and that a successful PUT has left its
text on the server under the etag the handler holds (`StoredOK`).  The one fact
handlers need about each other is `Evolves`: no step changes a row's text without
a new version, removes the number of a row, or brings a row back.  `Evolves` is
proved once per action; the invariant of all *other* handlers then follows from it
alone, and so does the refinement, where `Evolves` is `Rewrite`.

`ConflictKeepsLocal` needs of the requests only `IInv`, which says that the text an
entry is made of is the text of the row: what is to be shown is that a step that
leaves a row in conflict, or makes it so, also leaves or makes the entry
(`OneRowKeepsLocal`), and that a step that closes an entry takes the row out of that
state.  The mark of a refused deletion does neither, as section 4 says; the second
theorem shows that it is the only one.

### Sync_proofs, on SyncRuns

| Theorem | Statement |
|---|---|
| `RunsInvariant` | `Spec => []IInv` |
| `RunsTypeCorrect` | `Spec => []TypeOK` |
| `NoRunRefused` | `Spec => []EngineNeverRefuses` |
| `SuccessComplete` | `Spec => SuccessIsComplete` |
| `StrategiesDegrade` | `Spec => StrategyOnlyDegrades` |

The invariant: at most one runner is between claim and report (`OneRun`), the
flag is set while there is one (`FlagSet`, not the converse: failed reports and
crashes leave it set), the mutex is held exactly by the runner in the engine
(`LockHeld`), and in the engine the strategies read at the start are still those
of the database for all projects to come, the projects before are synced
(`RunListOK`, `DoneOK`).  `StrategyOnlyDegrades` needs all of it: only because nobody
else is in the engine is the list still true when it is written back.

### Sync_proofs, on IncrementalSync

| Theorem | Statement |
|---|---|
| `SyncInvariant` | `SyncSpec => []SyncInv` |
| `SyncTypeCorrect` | `SyncSpec => []SyncTypeOK` |
| `NothingIsMissed` | `SyncSpec => []NothingMissed` |
| `DeltaMatchesScan` | `SyncSpec => []DeltaIsScan` |

All four assume `"move" \notin Events`: with moves they are false, as section 4 says.

`NothingMissed` speaks of what is stored: token, rows, server.  What keeps it is what
a run knows in between.  `Settled(h, bound)` says that h has not changed since `bound`
and no mark can overwrite it; `Known` that what the token or ctag covers and is
settled is in its row (`Good`), `Gathering` the same of the answer: every settled
object is in it as the server has it, or is not in it and its row is good, or is gone
on both sides.  `ListOK` is that fact for the comparison of etags of the ctag
strategy, between reading the rows and fetching.  An object that changes meanwhile
drops out of `Settled` and is the next run's; that the bound of a run is never above
the revision it was read at is in `RunOK`.  The user's requests change the server and
their row in two steps: `Marking` excepts the time in between, and `MarkIsNews` says
that such a mark brings an etag the row cannot have yet.  `RowsOK`, `ServerOK`,
`ProjectOK`, `UserOK`, `SyncedKnown` say which rows belong to which objects.

The loop over an answer is recursive, and the proof needs what it does for answers of
any length.  `LoopIs` gives the sequence of its intermediate results, and
`ObjectsApplied` shows that every one of them has applied exactly the objects before
it (`AppliedTo`): if one had not, there would be a first one (`LeastExists`), and
`InsertStep` and `MatchStep` show that a step after a good result is good.  From
`AppliedMeans` on, an answer is a function from rows to rows (`AfterAnswer`), in
which the order is gone; no version check of the transaction fails.  `DeltaIsScan`
compares two such functions: objects the delta does not name are those the token
covers, and by `Known` their rows are what a scan makes them, too.

### Projects_proofs

| Theorem | Statement |
|---|---|
| `ProjectsInvariant` | `Spec => []IInv` |
| `ProjectsTypeCorrect` | `Spec => []TypeOK` |
| `ReservationsNeverClash` | `Spec => []ReservationsDistinct` |
| `HoldersAlone` | `Spec => []HolderIsAlone` |
| `DefaultIsOne` | `Spec => []OneDefault` |
| `TasksGoWithCalendar` | `Spec => TasksOnlyGoWithCalendar` |
| `CalendarsAgree` | `Spec => []Agreement` |

A version that goes down again, when a remote request fails, is what makes
`HolderIsAlone` hard: a request that was overtaken could find its version back
after somebody else's cancellation.  The invariant says why it cannot.  The
versions that requests hold of a project are distinct and at most the present one
(`HeldOK`); and below the present version, but above what an overtaken request
holds, there is a version that nobody holds and that no cancellation can therefore
undo (`OvertakenOK`): the one the other rename was stored at.  Most steps neither
reserve nor cancel, and for them one lemma is enough (`LocksKept`): holders stay
who they were (`HoldersKept`) and rows never go back (`RowsGoOn`).  Storing a
selection of calendars changes all rows at once; `SelectionKeeps` states what it
does to them without the names, and `SelectedRowsAt` which row is which.

The name is a last step (`FoundOK`): while a request's count of the renames is the
project's, the project has the name the request has found, or the one a selection
has given it since, which `found` follows.

`Agreement` relates the server to the rows over several steps of several requests,
so it takes a second invariant (`Agreed`).  A request between its CalDAV request and
its commit *owes* a change (`Owing`).  The name of the calendar is the project's, or
it is *due*: some request that owes has given it that name, or deleted it
(`Due`, `AgreeOK`).  A rename stores its name only if nobody has overtaken it; what
it stores is then either what is due, or leaves it due with another request.  When
nobody works on a project nobody owes, and calendar and project agree.

### Setup_proofs

| Theorem | Statement |
|---|---|
| `SetupInvariant` | `Spec => []IInv` |
| `TypeCorrect` | `Spec => []TypeOK` |
| `GateWaits` | `Spec => []GateAfterCommit` |
| `ImportsAlone` | `Spec => []OneImport` |
| `CompletionImported` | `Spec => CompleteImported` |
| `ImportsSpareOwn` | `Spec => OwnTasksSafe` |

The invariant follows an import from its start to the completion.  While a goroutine
has not ended, the chosen calendars are among those that are imported and those it
has still to read, unless the choice has changed since (`ReadOK`); from the moment
the broker reports success nobody imports, and what is imported is the choice
(`ReadyOK`).  `OneRun` is the reason that there is one import to follow, `gaps` are
the two places where there is not.  That the gate opens after the commit only is
`CommittedOK`.

### TaskMove_proofs

| Theorem | Statement |
|---|---|
| `MoveInvariant` | `Spec => []IInv` |
| `TypeCorrect` | `Spec => []TypeOK` |
| `MovesLoseNothing` | `Spec => []NeverLost` |
| `MovesEndAlone` | `Spec => MoveEndsAlone` |

A PUT may replace the other copy, so there need be no more copies than deletions
under way.  That the task is never lost rests on the etags instead: there is always a
copy that no deletion under way will remove (`Safe`, `CopiesOK`).  A PUT makes one,
since its etag is above all that anybody knows (`Given`, `GivenOK`); and a deletion
removes only what has the etag its move started from, which is not the safe copy.
Without the etag in the DELETE two moves could each delete what the other has put,
and that is the mutant.  That every row knows an etag, and nothing that exists lacks
one, is `EtagsOK`.
`AloneOK` says where the copies of an undisturbed move are after its PUT and after
its DELETE.

### Families_proofs

| Theorem | Statement |
|---|---|
| `FamiliesInvariant` | `Spec => []IInv` |
| `TypeCorrect` | `Spec => []TypeOK` |
| `ParentsExist` | `Spec => []ParentExists` |
| `ScansFlatten` | `Spec => ScanFlattens` |
| `ParentsGoLast` | `Spec => ParentGoesLast` |

What a deletion has listed is still to be gone through, or the row it is at, or gone
(`LoopOK`), and what is gone stays gone since a row inserted again has another id
(`births`, `Given`).  Every text names a task or none as parent (`TextsOK`), so that
what a scan links exists; a scan sets the links of all rows after it has changed and
removed rows, and the proof goes through these three steps.

### Labels_proofs

| Theorem | Statement |
|---|---|
| `LabelsInvariant` | `Spec => []IInv` |
| `TypeCorrect` | `Spec => []TypeOK` |
| `TagsFollowTexts` | `Spec => []AssignedAsWritten` |
| `RenamesKnowTexts` | `Spec => []ListedIsCurrent` |
| `LabelsGo` | `Spec => GoneFromTasks` |

A text that was listed is the row's as long as the row has the version that was
listed (`Read`).  The assignments of a task follow its text because a label that is
assigned keeps its row and its name, and new labels get ids of their own, in the
order of their names: counting the keys up to a name numbers them without gaps
(`RankType`, `RankOne`).

### Operators_proofs

Lemmas that the proofs about tasks share: what patches, merges and verdicts of a scan
make of rows and texts, a highest number of finitely many.  Beyond them, properties
of the `algorithms` run, or parts of them.  The run enumerates inputs; here the
inputs are any.

| Theorem | Part of | Statement |
|---|---|---|
| `RuleEditsKeepRest` | `RuleEditKeepsRest` | one control of the rule editor changes one side of the rule, whatever words, repeated and unknown parts the rule has |
| `WordsTellRules` | `RuleEditKeepsRest` | the words for a rule say all it means |
| `ViewsSplit` | `PagesAgree` | the system views divide the tasks, for any day and window |
| `FormsDecide` | `PagesAgree` | a form decides how its page is shown, and no other |
| `FilterEditsLast` | `PagesAgree` | the second of two forms of one version of a filter changes nothing |
| `FavoritesFollowPriority` | `FavoriteFollowsPriority`, all of it | whatever categories and priority a task has and whichever fields a form sends, what is written is a favourite exactly when its priority is high, has the labels of form or task, each name once, and reads back as written |
| `ConflictsResolveAsShown` | `ConflictAsShown`, first half | what the manual resolution writes is what its preview shows, for every choice of every field |
| `ConflictPagesAreTrue` | `ConflictAsShown`, second half | the page offers what the handler accepts, and an unmarked field comes out the same from every version |
| `QuickAddCreatesAsShown` | `QuickAddAsShown`, the creation | whatever happens to the projects between preview and confirmation, the task is the one shown, in the project shown or chosen, or nowhere; its labels are the pieces of those shown, and those shown themselves if none has a comma in it |
| `QuickAddSuggestsWhatFits` | `QuickAddAsShown`, the suggestions | projects with a near name before others, labels the draft does not have, each once and as many as fit |

The last five rest on lists being defined by what they hold and in which order
(`InOrder`, `At`), and the first four of them on what a list of labels is after
Caldo has written it (`Plain`): in order, each name once, none of them reserved.  A
list is sorted by counting: in place n stands the spelling that n of them do not
exceed, and `Numbering` proves that this gives every element of a finite set a place
of its own if their ranks differ.  `PartAt` says the same of a part of a list, and
`WrittenAndRead` that the categories written for labels are read back as these
labels, with or without the star.  `ParsedLabels` says what `FlattenSeq` makes of
the pieces of labels: a smallest number of labels for which it failed would have one
label less.  The hypotheses are on data only: `Spelled`, that
the reserved name is a spelling and that different spellings have different ranks,
which the order by lower case and then by spelling gives them; the missing value is
no number, no project's id and none of the words of the form; no two projects have
one id.  What the user may choose in the preview of quick add is taken wider than
the page offers it: any id at all.  In a conflict form a source is one of the
versions there are, or the user's own input.

### Only model-checked

* Liveness: `SyncConverges`, `RunsRecur`, `RowsMatchCopies`, `WatchEnds`,
  `CompleteOpens`.  ENABLED, which fairness is made of, is outside the prover's reach.
* The rest of the `algorithms` run: `FilterSelectsAsRead`, `TextIsKept`,
  `FamiliesStayTogether`, and of `PagesAgree` what is about counts and rows.  Lexer,
  parser, quick add and descriptions run along sequences of characters or words, by
  recursion; families and rows are sorted and filtered sequences, whose operators
  (`SortSeq`, `SelectSeq`) the provers know nothing about beyond their recursive
  definitions.

## 6. Not modelled, and why

* *Live events and refresh on focus*: handlers publish every change, but no page
  connects to `/events` (`view/layout_test.go:297` asserts that).  A tab compares
  versions when it gets the focus and fetches rows that differ, which reads only;
  a write from an old tab meets the version checks of TaskSync.
* *Search*: its result is what SQLite's full-text index makes of words; the
  repository only strips punctuation from a token (`db/tasks_search.go`, which is
  why "e-mail" does not find "E-Mail": the index splits where the token is
  stripped).
* *Removal of projects whose calendar is gone* (`CleanupRemoteDeletedCalendars`):
  nothing calls it outside its tests.
* *Startup lock, migrations, database connection*: they run once before anything
  else; all modules take for granted that one process owns the database and that
  a transaction is atomic.
* *Discovery, credentials, tokens, configuration, logging, other settings, router,
  sessions*: single requests, single statements, pure functions.
* *Rendering*: the generated `*_templ.go` files, styles and browser code; they are
  a third of the implementation's lines, and hold no state.
* Within modelled parts: the syntax of iCalendar, XML and Markdown beyond what the
  properties tell apart; replacing an object by another UID at the same href, and
  bodies that are not VTODOs, in incremental syncs; projects that come and go
  during a run of the engine; the rebuilt href of an undone deletion.

## 7. What is left

1. Proofs: families and rows of any length, defined by what they hold and in which
   order, as lists of labels are.
2. Runs of TaskSync with a field outside `KnownField`.
3. Composition of TaskMove with IncrementalSync: a copy that a delta imports.
