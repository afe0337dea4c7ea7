-------------------------- MODULE IncrementalSync --------------------------
(***************************************************************************)
(* The sync of one project with several objects: a strategy runner asks    *)
(* the server what has changed since a token (WebDAV sync-collection), or  *)
(* compares ctag and etags, or lists everything, and one transaction       *)
(* applies the answer to the rows of the project.  The answer is gathered  *)
(* in several requests and without any lock, so that the user's own        *)
(* requests and other clients go on meanwhile.                             *)
(*                                                                         *)
(* Module TaskSync has the handlers in full; here one user request at a    *)
(* time edits, creates or removes a task, with the same three steps.       *)
(* Parent links and labels are left out.                                   *)
(***************************************************************************)
EXTENDS TaskRows, CalDAVServer, Strategies, SequencesExt

CONSTANTS Cal,         \* the calendar of the project
          HomeUID,     \* the UID of the first object stored at an href
          Events,      \* the operations and faults that occur
          MaxRevision, \* bound: changes on the server
          MaxRequests, \* bound: the user's requests
          MaxRows      \* bound: rows of the project, deleted ones included

Behaviour == {"edit", "create", "remove", "other", "move", "bare",
              "downgrade", "fail"}

\* The UIDs are those Caldo and other clients make up for new objects: no two
\* objects begin with the same.
ASSUME IncrementalAssumption ==
    /\ Cal \in Calendar
    /\ IsFiniteSet(Href)
    /\ \A h \in Href : CalendarOf[h] = Cal
    /\ HomeUID \in [Href -> UID]
    /\ \A g, h \in Href : HomeUID[g] = HomeUID[h] => g = h
    /\ Events \subseteq Behaviour
    /\ {MaxRevision, MaxRequests, MaxRows} \subseteq Nat

VARIABLES srv,        \* the CalDAV server
          rows,       \* the rows of tasks, in order of creation
          conflicts,  \* for each row, its entries in conflicts
          project,    \* sync_strategy, sync_token and ctag; 0 is NULL
          runner,     \* the sync run: its strategy, and what it has gathered
          user,       \* the user's request
          requests,   \* how many there have been
          raced       \* history: see Raced

syncVars == <<srv, rows, conflicts, project, runner, user, requests, raced>>

-----------------------------------------------------------------------------
Task == [uid : UID, href : Href, ver : Nat, raw : Content, base : Content,
         etag : Nat, status : SyncStatus]

TaskAt(row, uid, h) == [uid |-> uid, href |-> h, ver |-> row.ver, raw |-> row.raw,
                        base |-> row.base, etag |-> row.etag, status |-> row.status]

ProjectColumns == [strategy : Strategy, token : Nat, ctag : Nat]

\* What a run knows: the rows' hrefs and etags, the objects it will apply,
\* those it still has to GET, the hrefs it takes for deleted, and the token or
\* ctag to store with them.  The project it has read at its start is the one
\* in the database: nothing else writes these columns.
RunState(known, reported) ==
    [pc : {"idle", "start", "states", "list", "fetch", "apply", "persist"},
     strategy : Strategy, states : [known -> Nat], report : [reported -> Object],
     fetch : SUBSET Href, gone : SUBSET Href, meta : Nat]

NoRun == [pc |-> "idle", strategy |-> "fullscan", states |-> <<>>, report |-> <<>>,
          fetch |-> {}, gone |-> {}, meta |-> 0]

\* What a handler keeps between its three steps.
UserState == [pc : {"idle", "put", "get", "delete", "mark"},
              op : {"none", "edit", "create", "remove"},
              n : Nat, row : Task \cup {NoObject}, base : Text,
              result : {"none", "ok", "conflict", "fail"}, remote : Text,
              etag : Nat]

NoRequest == [pc |-> "idle", op |-> "none", n |-> 0, row |-> NoObject,
              base |-> NoText, result |-> "none", remote |-> NoText, etag |-> 0]

Live == {n \in DOMAIN rows : rows[n].status # "absent"}

\* Setup has imported what the server holds, one object after the other, and
\* no token yet.
SyncInit == \E order \in SetToAllKPermutations(Href), content \in Content,
               strategy \in Strategy :
    LET stored == {order[i] : i \in DOMAIN order}
        object(h) == [uid |-> HomeUID[h], vtodo |-> content,
                      etag |-> CHOOSE i \in DOMAIN order : order[i] = h]
    IN  /\ srv = [calendars |-> {Cal},
                  objects |-> [h \in Href |-> IF h \in stored THEN object(h) ELSE NoObject],
                  deleted |-> [h \in Href |-> 0],
                  revision |-> Len(order)]
        /\ rows = [n \in 1..Len(order) |->
                     TaskAt(ImportedRow(content, n), HomeUID[order[n]], order[n])]
        /\ conflicts = [n \in 1..Len(order) |-> <<>>]
        /\ project = [strategy |-> strategy, token |-> 0, ctag |-> 0]
        /\ runner = NoRun
        /\ user = NoRequest
        /\ requests = 0
        /\ raced = [h \in Href |-> 0]

-----------------------------------------------------------------------------
(***************************************************************************)
(* Applying an answer: local tasks are loaded once, at the beginning of    *)
(* the transaction; what is known of them grows stale while it goes on.    *)
(* An outcome has the rows, their conflicts, whether every version check   *)
(* has passed so far, and the rows that an object was matched with.        *)
(***************************************************************************)
\* localByUID: the oldest row of a UID; 0 if there is none.
ByUID(local, uid) ==
    LET found == {n \in DOMAIN local : local[n].status # "absent" /\ local[n].uid = uid}
    IN  IF found = {} THEN 0 ELSE Min(found)

\* localByHref: the newest row at an href.
ByHref(local, h) ==
    LET found == {n \in DOMAIN local : local[n].status # "absent" /\ local[n].href = h}
    IN  IF found = {} THEN 0 ELSE Max(found)

\* updateTaskFromImported, recordFullScanTaskConflict and deleteFullScanTasks
\* on row n: all of them check the version that was loaded.
Write(out, local, n, verdict, remote, etag) ==
    IF verdict = "keep" THEN out
    ELSE IF out.rows[n].ver # local[n].ver \/ out.rows[n].status = "absent"
    THEN [out EXCEPT !.ok = FALSE]
    ELSE [out EXCEPT
            !.rows[n] = AfterVerdict(@, verdict, remote, etag),
            !.conflicts[n] = ConflictsAfterVerdict(@, local[n], verdict, remote)]

Insert(out, object, h) ==
    [out EXCEPT !.rows = Append(@, TaskAt(ImportedRow(object.vtodo, object.etag),
                                          object.uid, h)),
                !.conflicts = Append(@, <<>>)]

\* applyWebDAVChangedTask.  A full scan looks for the UID only.
ApplyObject(out, local, object, h, byHref) ==
    LET n == ByUID(local, object.uid)
        m == IF byHref THEN ByHref(local, h) ELSE 0
        changed == RemoteChanged(local[n], object.vtodo, object.etag)
                   \/ local[n].href # h
        verdict == VerdictIf(changed, local[n], object.vtodo)
        written == Write(out, local, n, verdict, object.vtodo, object.etag)
    IN  CASE n = 0 /\ m = 0 -> Insert(out, object, h)
          [] n = 0 /\ m # 0 ->
               [Write(out, local, m,
                      IF local[m].status = "conflict" THEN "keep" ELSE "field_conflict",
                      object.vtodo, object.etag)
                   EXCEPT !.seen = @ \cup {m}]
          [] n # 0 -> [written EXCEPT
                         !.seen = @ \cup {n},
                         !.rows[n].href = IF verdict \in {"import", "merge"}
                                          THEN h ELSE @]

\* Only the first object of every UID counts (dedupeImportedTasks).
FirstOfUID(report, order, i) ==
    \A j \in 1..(i - 1) : report[order[j]].uid # report[order[i]].uid

ApplyObjects(local, report, order, byHref) ==
    LET start == [rows |-> local, conflicts |-> conflicts, ok |-> TRUE, seen |-> {}]
        After[i \in 0..Len(order)] ==
            IF i = 0 THEN start
            ELSE IF ~FirstOfUID(report, order, i) THEN After[i - 1]
            ELSE ApplyObject(After[i - 1], local, report[order[i]], order[i], byHref)
    IN  After[Len(order)]

\* The loops over what is not there any more, conflicts first, then the clean
\* rows in one go: every row is written once, with its version.
RemoveRows(out, local, missing) ==
    LET Removed(n) == Write(out, local, n, MissingVerdict(local[n]), NoText, 0)
    IN  [out EXCEPT
           !.rows = [n \in DOMAIN @ |-> IF n \in missing THEN Removed(n).rows[n] ELSE @[n]],
           !.conflicts = [n \in DOMAIN @ |-> IF n \in missing THEN Removed(n).conflicts[n]
                                                              ELSE @[n]],
           !.ok = @ /\ \A n \in missing : Removed(n).ok]

\* Mutant of MissingRows: a first sync does not look for rows that are not
\* in the answer.
MissingRowsDelta(local, strategy, baseline, report, gone, seen) ==
    IF strategy = "fullscan"
    THEN {n \in DOMAIN local : local[n].status # "absent" /\ n \notin seen}
    ELSE {ByHref(local, h) : h \in gone} \ {0}

\* A full scan misses every row that no object was matched with; otherwise
\* the rows at deleted hrefs, and on a baseline also those with neither UID
\* nor href in the answer.
MissingRows(local, strategy, baseline, report, gone, seen) ==
    LET uids == {report[h].uid : h \in DOMAIN report}
        live == {n \in DOMAIN local : local[n].status # "absent"}
        deleted == {ByHref(local, h) : h \in gone} \ {0}
    IN  CASE strategy = "fullscan" -> live \ seen
          [] baseline -> deleted \cup {n \in live \ seen : local[n].uid \notin uids}
          [] OTHER -> deleted

\* ApplyWebDAVSyncProject, ApplyCTagSyncProject, ApplyFullScanProject
Applied(strategy, baseline, report, order, gone) ==
    LET out == ApplyObjects(rows, report, order, strategy # "fullscan")
    IN  RemoveRows(out, rows,
                   MissingRows(rows, strategy, baseline, report, gone, out.seen))

-----------------------------------------------------------------------------
(***************************************************************************)
(* The run: Engine.runProject and the three runners.                       *)
(***************************************************************************)
KeepOthers == UNCHANGED <<srv, rows, conflicts, project, user, requests, raced>>

\* Engine.Run starts with the strategy of the project, or goes on with the
\* next one after ErrFallbackRequired.
Tries(strategy) == \/ runner.pc = "idle" /\ project.strategy = strategy
                   \/ runner.pc = "start" /\ runner.strategy = strategy

Trying(strategy) == [NoRun EXCEPT !.pc = "start", !.strategy = strategy]

\* A server may answer a report without the bodies, and one without a token
\* without what is deleted (RFC 6578).
Bodies(report) == IF "bare" \in Events THEN {{}, DOMAIN report} ELSE {{}}

Deletions(token) == {ReportedDeleted(srv, Cal, token)}
                    \cup IF "bare" \in Events /\ token = 0 THEN {{}} ELSE {}

\* What is left to do once the lists are there.
Gathered(r) == IF r.fetch = {} THEN [r EXCEPT !.pc = "apply"]
                               ELSE [r EXCEPT !.pc = "fetch"]

\* SyncCollection: one REPORT, with the token that goes with its answer.
SyncCollection ==
    /\ Tries("webdav_sync")
    /\ LET changed == ReportedChanged(srv, Cal, project.token)
           report == [h \in changed |-> srv.objects[h]]
       IN  \E bare \in Bodies(report), gone \in Deletions(project.token) :
              runner' = Gathered([Trying("webdav_sync") EXCEPT
                        !.report = report, !.fetch = bare, !.gone = gone,
                        !.meta = CTag(srv)])
    /\ KeepOthers

\* sync-collection, ctag or etags are not supported, or no longer.
Downgrade ==
    /\ "downgrade" \in Events
    /\ \/ Tries("webdav_sync") /\ runner' = Trying("ctag")
       \/ Tries("ctag") /\ runner' = Trying("fullscan")
    /\ KeepOthers

\* CTagSyncRunner.Run: an unchanged ctag ends the run.
CompareCTag ==
    /\ Tries("ctag")
    /\ runner' = IF project.ctag # 0 /\ project.ctag = CTag(srv)
              THEN [Trying("ctag") EXCEPT !.pc = "persist"]
              ELSE [Trying("ctag") EXCEPT !.pc = "states", !.meta = CTag(srv)]
    /\ KeepOthers

\* ListProjectRemoteTaskState; of several rows at one href the oldest counts.
ReadStates ==
    /\ runner.pc = "states"
    /\ LET hrefs == {rows[n].href : n \in Live}
           first(h) == Min({n \in Live : rows[n].href = h})
       IN  runner' = [runner EXCEPT !.pc = "list",
                              !.states = [h \in hrefs |-> rows[first(h)].etag]]
    /\ KeepOthers

\* ListVTODOETags and changedObjects, up to the GETs.
ListETags ==
    /\ runner.pc = "list"
    /\ LET remote == ETagList(srv, Cal)
           known == DOMAIN runner.states
       IN  runner' = Gathered([runner EXCEPT
                     !.fetch = {h \in DOMAIN remote :
                                   h \in known => runner.states[h] # remote[h]},
                     !.gone = known \ DOMAIN remote])
    /\ KeepOthers

\* The etag of a GET replaces that of the list; the etag of a report stays.
FetchedObject(h) ==
    IF runner.strategy = "webdav_sync"
    THEN [srv.objects[h] EXCEPT !.etag = runner.report[h].etag]
    ELSE srv.objects[h]

\* A report with the object that is at h.
With(report, h) == [g \in DOMAIN report \cup {h} |->
                       IF g = h THEN FetchedObject(h) ELSE report[g]]

\* GetVTODO for one object of the answer.
Fetch ==
    \E h \in runner.fetch :
        /\ runner.pc = "fetch"
        /\ Exists(srv, h)
        /\ runner' = Gathered([runner EXCEPT !.fetch = @ \ {h},
                                       !.report = With(@, h)])
        /\ KeepOthers

\* The object is gone by now: sync-collection fails, ctag falls back.
FetchMissing ==
    \E h \in runner.fetch :
        /\ runner.pc = "fetch"
        /\ ~Exists(srv, h)
        /\ IF runner.strategy = "webdav_sync" THEN runner' = NoRun
                                           ELSE runner' = Trying("fullscan")
        /\ KeepOthers

\* FullScanRunner.Run, ListVTODOs.
ScanFetch ==
    /\ Tries("fullscan")
    /\ runner' = [Trying("fullscan") EXCEPT !.pc = "apply", !.report = VTODOReport(srv, Cal)]
    /\ KeepOthers

Baseline == runner.strategy = "webdav_sync" /\ project.token = 0

\* Mutant of Recorded: the token is asked for after the changes.
RecordedNow(p, r) ==
    CASE r.strategy = "webdav_sync" ->
            [p EXCEPT !.token = CTag(srv), !.strategy = "webdav_sync"]
      [] r.strategy = "ctag" -> [p EXCEPT !.ctag = CTag(srv), !.strategy = "ctag"]
      [] r.strategy = "fullscan" -> p

\* updateIncrementalProjectMetadata; a full scan stores nothing.
Recorded(p, r) ==
    CASE r.strategy = "webdav_sync" ->
            [p EXCEPT !.token = r.meta, !.strategy = "webdav_sync"]
      [] r.strategy = "ctag" -> [p EXCEPT !.ctag = r.meta, !.strategy = "ctag"]
      [] r.strategy = "fullscan" -> p

\* The user's request is between prepare and mark while an answer is applied:
\* its mark will go by what the server said before.
Raced == IF user.pc # "idle"
         THEN [raced EXCEPT ![user.row.href] = srv.revision] ELSE raced

\* One transaction: rows, conflicts, and the token that covers them.
Apply ==
    /\ runner.pc = "apply"
    /\ \E order \in SetToSeqs(DOMAIN runner.report) :
          LET out == Applied(runner.strategy, Baseline, runner.report, order, runner.gone)
          IN  /\ Len(out.rows) <= MaxRows
              /\ IF out.ok
                 THEN /\ rows' = out.rows
                      /\ conflicts' = out.conflicts
                      /\ project' = Recorded(project, runner)
                      /\ runner' = [Trying(runner.strategy) EXCEPT !.pc = "persist"]
                      /\ raced' = Raced
                 ELSE /\ runner' = NoRun
                      /\ UNCHANGED <<rows, conflicts, project, raced>>
    /\ UNCHANGED <<srv, user, requests>>

\* UpdateProjectSyncStrategy, when the run ended with another strategy.
Persist ==
    /\ runner.pc = "persist"
    /\ project' = [project EXCEPT !.strategy = runner.strategy]
    /\ runner' = NoRun
    /\ UNCHANGED <<srv, rows, conflicts, user, requests, raced>>

\* A request fails for good, or the process dies.
RunFails ==
    /\ "fail" \in Events
    /\ runner.pc # "idle"
    /\ runner' = NoRun
    /\ KeepOthers

-----------------------------------------------------------------------------
(***************************************************************************)
(* The user: database, server, database, as in module TaskSync.            *)
(***************************************************************************)
KeepSync == UNCHANGED <<srv, project, runner, raced>>

MayChange == srv.revision < MaxRevision

Accept(behaviour, r) == /\ behaviour \in Events
                        /\ user.pc = "idle"
                        /\ requests < MaxRequests
                        /\ requests' = requests + 1
                        /\ user' = r

\* What the handler keeps: the pending row as it wrote it, the text before.
UserRequest(op, pc, n, row, base) ==
    [NoRequest EXCEPT !.op = op, !.pc = pc, !.n = n, !.row = row, !.base = base]

\* PrepareTaskUpdate
UserEdits ==
    \E n \in Live, content \in Content :
        /\ content # rows[n].raw
        /\ rows' = [rows EXCEPT ![n] = Pending(@, content)]
        /\ Accept("edit", UserRequest("edit", "put", n, rows'[n], rows[n].raw))
        /\ UNCHANGED conflicts
        /\ KeepSync

\* InsertPendingTask: a new UID, an href that was never used.
UserCreates ==
    \E h \in Href, content \in Content :
        /\ ~Exists(srv, h) /\ srv.deleted[h] = 0
        /\ \A n \in DOMAIN rows : rows[n].uid # HomeUID[h] /\ rows[n].href # h
        /\ Len(rows) < MaxRows
        /\ rows' = Append(rows, TaskAt(PendingRow(content), HomeUID[h], h))
        /\ conflicts' = Append(conflicts, <<>>)
        /\ Accept("create", UserRequest("create", "put", Len(rows) + 1,
                                    rows'[Len(rows) + 1], content))
        /\ KeepSync

\* PrepareTaskDelete
UserRemoves ==
    \E n \in Live :
        /\ rows' = [rows EXCEPT ![n] = Pending(@, @.raw)]
        /\ Accept("remove", UserRequest("remove", "delete", n, rows'[n], rows[n].raw))
        /\ UNCHANGED conflicts
        /\ KeepSync

IfMatch == IF user.op = "create" THEN 0 ELSE user.row.etag

\* The server's answer to the user's PUT: 412 is followed by a GET, any other
\* refusal counts as an error.
UserPuts ==
    LET r == user.row
        answer == PutAnswer(srv, r.href, IfMatch)
    IN  /\ user.pc = "put"
        /\ srv' = AfterPut(srv, r.href, IfMatch, r.uid, r.raw)
        /\ user' = CASE answer = "ok" ->
                          [user EXCEPT !.pc = "mark", !.result = "ok",
                                       !.etag = srv'.objects[r.href].etag]
                     [] answer = "precondition_failed" ->
                          [user EXCEPT !.pc = "get"]
                     [] OTHER -> [user EXCEPT !.pc = "mark", !.result = "fail"]
        /\ UNCHANGED <<rows, conflicts, project, runner, requests, raced>>

\* GetVTODO in markTaskUpdateConflict; an error is taken for "no text".
UserGets ==
    LET h == user.row.href
    IN  /\ user.pc = "get"
        /\ user' = IF Exists(srv, h)
                   THEN [user EXCEPT !.pc = "mark", !.result = "conflict",
                                     !.remote = srv.objects[h].vtodo,
                                     !.etag = srv.objects[h].etag]
                   ELSE [user EXCEPT !.pc = "mark", !.result = "conflict"]
        /\ UNCHANGED <<srv, rows, conflicts, project, runner, requests, raced>>

\* DeleteVTODO: 404 counts as success.
UserDeletes ==
    LET r == user.row
        answer == DeleteAnswer(srv, r.href, r.etag)
    IN  /\ user.pc = "delete"
        /\ srv' = AfterDelete(srv, r.href, r.etag)
        /\ user' = [user EXCEPT !.pc = "mark",
                                !.result = IF answer = "precondition_failed"
                                           THEN "conflict" ELSE "ok"]
        /\ UNCHANGED <<rows, conflicts, project, runner, requests, raced>>

\* The request fails for good before the server has seen it.
UserFails ==
    /\ "fail" \in Events
    /\ user.pc \in {"put", "delete"}
    /\ user' = [user EXCEPT !.pc = "mark", !.result = "fail"]
    /\ UNCHANGED <<srv, rows, conflicts, project, runner, requests, raced>>

\* The marks of an edit and of a removal carry the pending version, those of
\* a creation do not.
MarkApplies == /\ user.n \in Live
               /\ user.op # "create" => rows[user.n].ver = user.row.ver

Marked(row) ==
    CASE user.result = "ok" /\ user.op = "remove" -> [row EXCEPT !.status = "absent"]
      [] user.result = "ok" /\ user.op # "remove" -> Synced(row, user.etag)
      [] user.result = "conflict" -> Conflicted(row, user.etag)
      [] user.result = "fail" -> [row EXCEPT !.status = "error"]

\* MarkTask...Synced, ...Error, ...Conflict; a refused deletion records no
\* entry in conflicts.
UserMarks ==
    /\ user.pc = "mark"
    /\ IF ~MarkApplies THEN UNCHANGED <<rows, conflicts>>
       ELSE /\ rows' = [rows EXCEPT ![user.n] = Marked(@)]
            /\ IF user.result = "conflict" /\ user.op = "edit"
               THEN conflicts' = [conflicts EXCEPT ![user.n] = Append(@,
                        NewConflict("field_conflict", user.base, user.row.raw,
                                    user.remote))]
               ELSE UNCHANGED conflicts
    /\ user' = NoRequest
    /\ UNCHANGED requests
    /\ KeepSync

-----------------------------------------------------------------------------
\* The UIDs another client may store at an href.
UIDsFor(h) ==
    IF Exists(srv, h) THEN {srv.objects[h].uid}
    ELSE {u \in UID : /\ \A g \in Href : Exists(srv, g) => srv.objects[g].uid # u
                      /\ "move" \in Events \/ u = HomeUID[h]}

OtherWrites ==
    \E h \in Href, content \in Content :
        /\ "other" \in Events /\ MayChange
        /\ Exists(srv, h) => srv.objects[h].vtodo # content
        /\ \E u \in UIDsFor(h) : srv' = Stored(srv, h, u, content)
        /\ UNCHANGED <<rows, conflicts, project, runner, user, requests, raced>>

OtherDeletes ==
    \E h \in Href :
        /\ "other" \in Events /\ MayChange
        /\ Exists(srv, h)
        /\ srv' = Dropped(srv, h)
        /\ UNCHANGED <<rows, conflicts, project, runner, user, requests, raced>>

-----------------------------------------------------------------------------
Sync == \/ SyncCollection \/ Downgrade \/ CompareCTag \/ ReadStates
        \/ ListETags \/ Fetch \/ FetchMissing \/ ScanFetch \/ Apply \/ Persist

Serve == UserPuts \/ UserGets \/ UserDeletes \/ UserFails \/ UserMarks

SyncNext == \/ Sync \/ RunFails
        \/ UserEdits \/ UserCreates \/ UserRemoves \/ Serve
        \/ OtherWrites \/ OtherDeletes

SyncSpec == SyncInit /\ [][SyncNext]_syncVars

-----------------------------------------------------------------------------
SyncTypeOK == /\ srv \in ServerState
              /\ rows \in Seq(Task)
              /\ conflicts \in Seq(Seq(Conflict))
              /\ Len(conflicts) = Len(rows)
              /\ project \in ProjectColumns
              /\ \E known, reported \in SUBSET Href : runner \in RunState(known, reported)
              /\ user \in UserState
              /\ requests \in Nat
              /\ raced \in [Href -> Nat]

\* The revision of the last change the stored token, or ctag, stands for.
Covered == CASE project.strategy = "webdav_sync" -> project.token
             [] project.strategy = "ctag" -> project.ctag
             [] project.strategy = "fullscan" -> 0

\* What the server last did at an href.
LastChange(h) == IF Exists(srv, h) THEN srv.objects[h].etag ELSE srv.deleted[h]

\* A row that knows what the server did, or that waits for the user anyway.
Reflected(h) ==
    IF Exists(srv, h)
    THEN \E n \in Live : /\ rows[n].uid = srv.objects[h].uid
                         /\ \/ rows[n].etag = srv.objects[h].etag
                            \/ rows[n].status \in {"conflict", "pending", "error"}
    ELSE \A n \in Live : rows[n].href = h => rows[n].status # "synced"

\* The server will never mention a change again that the stored token covers:
\* whatever the user, other clients and failures did between the requests of
\* the run, the rows must know about all of them.
NothingMissed ==
    \A h \in Href : LastChange(h) \in (raced[h] + 1)..Covered => Reflected(h)

\* The tasks the user sees.
Shown(list) == {[uid |-> list[n].uid, href |-> list[n].href, raw |-> list[n].raw,
                 etag |-> list[n].etag, status |-> list[n].status] :
                   n \in {m \in DOMAIN list : list[m].status # "absent"}}

\* No row waits for the user, and none has a text that a merge has made up.
AllFromServer ==
    \A n \in Live : LET object == srv.objects[rows[n].href] IN
        /\ rows[n].status \in {"synced", "conflict"}
        /\ object # NoObject /\ rows[n].etag = object.etag => rows[n].raw = object.vtodo

\* Applying what has changed since the token gives the same tasks as applying
\* everything: the matching by UID or href, the deletions by href and the
\* baseline of applyIncrementalSyncProject do what ApplyFullScanProject does.
DeltaIsScan ==
    LET report == [h \in ReportedChanged(srv, Cal, project.token) |-> srv.objects[h]]
        all == VTODOReport(srv, Cal)
    IN  /\ runner.pc = "idle" /\ user.pc = "idle" /\ project.strategy = "webdav_sync"
        /\ \A h \in Href : raced[h] = 0
        /\ AllFromServer
        => \A order \in SetToSeqs(DOMAIN report), whole \in SetToSeqs(DOMAIN all),
              gone \in Deletions(project.token) :
              LET delta == Applied("webdav_sync", project.token = 0, report, order, gone)
                  scan == Applied("fullscan", FALSE, all, whole, {})
              IN  delta.ok /\ Shown(delta.rows) = Shown(scan.rows)
=============================================================================
