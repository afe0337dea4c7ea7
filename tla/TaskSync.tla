------------------------------ MODULE TaskSync ------------------------------
(***************************************************************************)
(* The write-through path of Caldo and its background full scan, followed  *)
(* for one VTODO of one project: HTTP handlers that write first to the     *)
(* database, then to the CalDAV server, then to the database again, a      *)
(* scanner that imports what the server holds, another CalDAV client, and  *)
(* failures and crashes between any two of those steps.                    *)
(*                                                                         *)
(* Database transactions run under WriteMu and are one action each; a      *)
(* CalDAV request is one action at the moment the server answers it.       *)
(*                                                                         *)
(* The object keeps its project and its href: moves between projects are   *)
(* not part of this module.                                                *)
(***************************************************************************)
EXTENDS TaskRows, Strategies, FiniteSets

CONSTANTS Handler,      \* HTTP requests being served at the same time
          Tab,          \* browser tabs of the session, one undo snapshot each
          NoTab,
          Allowed,      \* the operations and faults that occur
          SyncStrategy, \* projects.sync_strategy of the project
          MaxRequests,  \* bound: requests accepted in a behaviour
          MaxRemote,    \* bound: versions written by the other client
          MaxAttempts   \* maxRetryAttempts of internal/caldav/retry.go

Behaviour == {"create", "update", "delete", "undo", "resolve", "split",
              "scan", "other", "expire", "fail", "lost", "crash"}

ASSUME SyncAssumption == /\ Allowed \subseteq Behaviour
                         /\ SyncStrategy \in Strategy
                         /\ NoTab \notin Tab
                         /\ MaxRequests \in Nat
                         /\ MaxRemote \in Nat
                         /\ MaxAttempts \in Nat \ {0}

VARIABLES
    server,     \* every version the server ever had of the object, in order;
                \* the last one is current, and its number is its etag
    rows,       \* the rows of tasks with the object's UID, in order of creation
    conflicts,  \* for each row, the entries of conflicts with its task_id
    undo,       \* the table undo_snapshots: the snapshot of each tab
    req,        \* what each handler is doing
    scan,       \* what the scanner is doing
    started     \* number of requests accepted so far

vars == <<server, rows, conflicts, undo, req, scan, started>>

-----------------------------------------------------------------------------
Version == [vtodo : Text, by : {"caldo", "other"}]

CurrentVTODO == IF server = <<>> THEN NoText ELSE server[Len(server)].vtodo
CurrentETag  == IF CurrentVTODO = NoText THEN 0 ELSE Len(server)

Written(content, who) == Append(server, [vtodo |-> content, by |-> who])

Live == {n \in 1..Len(rows) : rows[n].status # "absent"}

\* A snapshot is named by the row and the row version it was taken from.
Snapshot == [kind : {"none", "task_updated", "task_deleted"}, n : Nat,
             ver : Nat, raw : Text, etag : Nat]

NoSnapshot == [kind |-> "none", n |-> 0, ver |-> 0, raw |-> NoText, etag |-> 0]

SnapshotOf(n, kind) == [kind |-> kind, n |-> n, ver |-> rows[n].ver,
                        raw |-> rows[n].raw, etag |-> rows[n].etag]

Op == {"none", "create", "update", "delete", "undo_update", "undo_delete",
       "resolve", "split"}

\* The local variables of a handler.  ver is the row version it relies on:
\* the one it loaded, and from the prepare transaction on the pending one.
Request == [op : Op,
            pc : {"idle", "prepare", "put", "delete", "get", "mark", "drop"},
            tab : Tab \cup {NoTab}, n : Nat, ver : Nat,
            base : Text, patch : Patch, raw : Text, etag : Nat,
            snapshot : Snapshot, conflict : Nat, tries : Nat,
            result : {"none", "ok", "fail", "conflict"},
            remote : Text, newETag : Nat]

Idle == [op |-> "none", pc |-> "idle", tab |-> NoTab, n |-> 0, ver |-> 0,
         base |-> NoText, patch |-> NoPatch, raw |-> NoText, etag |-> 0,
         snapshot |-> NoSnapshot, conflict |-> 0, tries |-> 0,
         result |-> "none", remote |-> NoText, newETag |-> 0]

Scan == [pc : {"idle", "fetched"}, vtodo : Text, etag : Nat]

NoScan == [pc |-> "idle", vtodo |-> NoText, etag |-> 0]

\* Either the object does not exist yet, or setup has imported it.
Init == /\ \/ /\ server = <<>>
              /\ rows = <<>>
              /\ conflicts = <<>>
           \/ \E content \in Content :
                 /\ server = <<[vtodo |-> content, by |-> "other"]>>
                 /\ rows = <<ImportedRow(content, 1)>>
                 /\ conflicts = << <<>> >>
        /\ undo = [tab \in Tab |-> NoSnapshot]
        /\ req = [h \in Handler |-> Idle]
        /\ scan = NoScan
        /\ started = 0

-----------------------------------------------------------------------------
\* A handler accepts a request and keeps what it knows about it in r.
Begin(h, behaviour, r) == /\ behaviour \in Allowed
                          /\ req[h].pc = "idle"
                          /\ started < MaxRequests
                          /\ started' = started + 1
                          /\ req' = [req EXCEPT ![h] = r]

Continue(h, r) == /\ req' = [req EXCEPT ![h] = r]
                  /\ UNCHANGED started

Finish(h) == Continue(h, Idle)

SetRow(n, row) == rows' = [rows EXCEPT ![n] = row]

AddConflict(n, c) == conflicts' = [conflicts EXCEPT ![n] = Append(@, c)]

-----------------------------------------------------------------------------
(***************************************************************************)
(* The first database steps of each handler, up to its CalDAV request.     *)
(***************************************************************************)
\* LoadTaskUpdateBase, and the new text computed from what it returned.  A
\* request whose expected_version is older than the loaded one is refused
\* by the prepare transaction without effect, and is left out.
UpdateLoad(h) ==
    \E n \in Live, tab \in Tab, patch \in Patch \ {NoPatch} :
        /\ \A f \in DOMAIN patch : patch[f] # rows[n].raw[f]
        /\ Begin(h, "update",
                 [Idle EXCEPT !.op = "update", !.pc = "prepare", !.tab = tab,
                              !.n = n, !.ver = rows[n].ver,
                              !.base = rows[n].raw, !.patch = patch,
                              !.raw = Patched(rows[n].raw, patch)])
        /\ UNCHANGED <<server, rows, conflicts, undo, scan>>

\* WHERE id = ? AND server_version = ? finds the row the handler relies on.
RowAsExpected(h) == /\ req[h].n \in Live
                    /\ rows[req[h].n].ver = req[h].ver

\* Mutant of UpdatePrepare: no AND server_version = ?.
UpdatePrepareUnchecked(h) ==
    LET r == req[h] IN
    /\ r.pc = "prepare"
    /\ r.n \in Live
    /\ undo' = [undo EXCEPT ![r.tab] = SnapshotOf(r.n, "task_updated")]
    /\ SetRow(r.n, Pending(rows[r.n], r.raw))
    /\ Continue(h, [r EXCEPT !.pc = "put", !.ver = rows[r.n].ver + 1,
                             !.tries = 1, !.etag = rows[r.n].etag])
    /\ UNCHANGED <<server, conflicts, scan>>

\* PrepareTaskUpdate: snapshot for undo and pending row, one transaction.
UpdatePrepare(h) ==
    LET r == req[h] IN
    /\ r.pc = "prepare"
    /\ RowAsExpected(h)
    /\ undo' = [undo EXCEPT ![r.tab] = SnapshotOf(r.n, "task_updated")]
    /\ SetRow(r.n, Pending(rows[r.n], r.raw))
    /\ Continue(h, [r EXCEPT !.pc = "put", !.ver = @ + 1, !.tries = 1,
                             !.etag = rows[r.n].etag])
    /\ UNCHANGED <<server, conflicts, scan>>

\* PrepareTaskUpdate returns ErrTaskVersionMismatch.
UpdateRefused(h) ==
    /\ req[h].pc = "prepare"
    /\ ~RowAsExpected(h)
    /\ Finish(h)
    /\ UNCHANGED <<server, rows, conflicts, undo, scan>>

\* createTask up to InsertPendingTask.  The UID is new, so this object has
\* neither rows nor versions on the server.
CreateInsert(h) ==
    \E content \in Content :
        /\ rows = <<>>
        /\ server = <<>>
        /\ rows' = <<PendingRow(content)>>
        /\ conflicts' = << <<>> >>
        /\ Begin(h, "create",
                 [Idle EXCEPT !.op = "create", !.pc = "put", !.n = 1,
                              !.ver = 1, !.raw = content, !.tries = 1])
        /\ UNCHANGED <<server, undo, scan>>

\* TaskDelete up to PrepareTaskDelete, which compares expected_version.
DeletePrepare(h) ==
    \E n \in Live, tab \in Tab :
        /\ Begin(h, "delete",
                 [Idle EXCEPT !.op = "delete", !.pc = "delete", !.n = n,
                              !.ver = rows[n].ver + 1, !.raw = rows[n].raw,
                              !.etag = rows[n].etag, !.tries = 1])
        /\ undo' = [undo EXCEPT ![tab] = SnapshotOf(n, "task_deleted")]
        /\ SetRow(n, Pending(rows[n], rows[n].raw))
        /\ UNCHANGED <<server, conflicts, scan>>

\* prepareTaskUpdateUndo.  The etag sent is the row's present one; the
\* handler later passes the snapshot as base and as local version.
UndoUpdatePrepare(h) ==
    \E tab \in Tab :
        LET s == undo[tab] IN
        /\ s.kind = "task_updated"
        /\ s.n \in Live
        /\ Begin(h, "undo",
                 [Idle EXCEPT !.op = "undo_update", !.pc = "put", !.tab = tab,
                              !.n = s.n, !.ver = rows[s.n].ver + 1,
                              !.base = s.raw, !.raw = s.raw, !.snapshot = s,
                              !.etag = rows[s.n].etag, !.tries = 1])
        /\ SetRow(s.n, Pending(rows[s.n], s.raw))
        /\ UNCHANGED <<server, conflicts, undo, scan>>

UndoDelete(h, tab, n, ver) ==
    Begin(h, "undo",
          [Idle EXCEPT !.op = "undo_delete", !.pc = "put", !.tab = tab,
                       !.n = n, !.ver = ver, !.raw = undo[tab].raw,
                       !.snapshot = undo[tab], !.tries = 1])

\* Rows the undo of a deletion may take over.
Reusable == {n \in Live : rows[n].status \in {"pending", "error"}}

\* prepareTaskDeletedUndo: a row in state pending or error is taken over,
\* whatever made it so; otherwise the task gets a new row.
UndoDeleteReuse(h) ==
    \E tab \in Tab, n \in Reusable :
        /\ undo[tab].kind = "task_deleted"
        /\ UndoDelete(h, tab, n, rows[n].ver + 1)
        /\ SetRow(n, [Pending(rows[n], undo[tab].raw)
                         EXCEPT !.base = undo[tab].raw])
        /\ UNCHANGED <<server, conflicts, undo, scan>>

UndoDeleteInsert(h) ==
    \E tab \in Tab :
        /\ undo[tab].kind = "task_deleted"
        /\ Reusable = {}
        /\ UndoDelete(h, tab, Len(rows) + 1, 1)
        /\ rows' = Append(rows, PendingRow(undo[tab].raw))
        /\ conflicts' = Append(conflicts, <<>>)
        /\ UNCHANGED <<server, undo, scan>>

\* The texts a user can choose for a conflict: either version, or any mix
\* and any new value for the fields of the form.  Unknown fields come from
\* the remote version if there is one, else from the local one.
Target(c) == IF c.remote = NoText THEN c.local ELSE c.remote

Manual(c) == {text \in Content :
                 \A f \in Field \ KnownField : text[f] = Target(c)[f]}

Resolutions(c) == ({c.local, c.remote} \cup Manual(c)) \ {NoText}

OpenConflict(n, k) == conflicts[n][k].open

\* LoadConflictResolutionBase, and the choice of the user.  Without a live
\* row there is no href to write to, and the request fails without effect.
ResolveLoad(h) ==
    \E n \in Live : \E k \in DOMAIN conflicts[n] :
        \E text \in Resolutions(conflicts[n][k]) :
            /\ OpenConflict(n, k)
            /\ Begin(h, "resolve",
                     [Idle EXCEPT !.op = "resolve", !.pc = "put", !.n = n,
                                  !.ver = rows[n].ver, !.etag = rows[n].etag,
                                  !.raw = text, !.conflict = k, !.tries = 1])
            /\ UNCHANGED <<server, rows, conflicts, undo, scan>>

\* "Keep both": the remote version is put under a new UID, another object;
\* a failure of that request ends the handler without effect on this one.
SplitLoad(h) ==
    \E n \in Live : \E k \in DOMAIN conflicts[n] :
        /\ OpenConflict(n, k)
        /\ conflicts[n][k].remote # NoText
        /\ Begin(h, "split",
                 [Idle EXCEPT !.op = "split", !.pc = "mark", !.n = n,
                              !.ver = rows[n].ver, !.conflict = k,
                              !.result = "ok"])
        /\ UNCHANGED <<server, rows, conflicts, undo, scan>>

-----------------------------------------------------------------------------
(***************************************************************************)
(* The CalDAV requests (internal/caldav/todos.go, retry.go).               *)
(***************************************************************************)
\* conflictRemoteWasDeleted
RemoteWasDeleted(c) == c.type = "edit_delete" /\ c.remote = NoText

\* PutVTODOCreate: no If-Match and no retry.
Unconditional(r) ==
    \/ r.op \in {"create", "undo_delete"}
    \/ r.op = "resolve" /\ RemoteWasDeleted(conflicts[r.n][r.conflict])

\* The server takes a PUT without If-Match, or with the current etag.  What
\* it does with the empty If-Match of a row without etag is its own choice.
PutPossible(r) == Unconditional(r) \/ r.etag \in {0, CurrentETag}

PutRefusable(r) == ~Unconditional(r) /\ (r.etag = 0 \/ r.etag # CurrentETag)

\* The handler learns nothing but an error: it tries again while the retry
\* executor lets it, or gives up (no attempt left, or the client is gone).
\* A resolution that fails ends without a database write.
NoAnswer(h) ==
    \/ /\ ~Unconditional(req[h])
       /\ req[h].tries < MaxAttempts
       /\ Continue(h, [req[h] EXCEPT !.tries = @ + 1])
    \/ /\ req[h].op # "resolve"
       /\ Continue(h, [req[h] EXCEPT !.pc = "mark", !.result = "fail"])
    \/ /\ req[h].op = "resolve"
       /\ Finish(h)

PutAccepted(h) ==
    LET r == req[h] IN
    /\ r.pc = "put"
    /\ PutPossible(r)
    /\ server' = Written(r.raw, "caldo")
    /\ Continue(h, [r EXCEPT !.pc = "mark", !.result = "ok",
                             !.newETag = Len(server) + 1])
    /\ UNCHANGED <<rows, conflicts, undo, scan>>

\* The server takes the PUT, and the answer does not arrive.
PutLost(h) ==
    /\ "lost" \in Allowed
    /\ req[h].pc = "put"
    /\ PutPossible(req[h])
    /\ server' = Written(req[h].raw, "caldo")
    /\ NoAnswer(h)
    /\ UNCHANGED <<rows, conflicts, undo, scan>>

\* The request does not arrive, or is answered with an error other than
\* 412; for an edit, also: the credentials cannot be loaded.
PutFailed(h) ==
    /\ "fail" \in Allowed
    /\ req[h].pc = "put"
    /\ NoAnswer(h)
    /\ UNCHANGED <<server, rows, conflicts, undo, scan>>

\* 412 Precondition Failed.  An edit and its undo read the remote version
\* next; a resolution ends, with its conflict still open.
PutRefused(h) ==
    LET r == req[h] IN
    /\ r.pc = "put"
    /\ PutRefusable(r)
    /\ IF r.op = "resolve" THEN Finish(h)
                           ELSE Continue(h, [r EXCEPT !.pc = "get"])
    /\ UNCHANGED <<server, rows, conflicts, undo, scan>>

\* GetVTODO in markTaskUpdateConflict; an error is taken for "no text".
GetRemote(h) ==
    /\ req[h].pc = "get"
    /\ \/ Continue(h, [req[h] EXCEPT !.pc = "mark", !.result = "conflict",
                                     !.remote = CurrentVTODO,
                                     !.newETag = CurrentETag])
       \/ /\ "fail" \in Allowed
          /\ Continue(h, [req[h] EXCEPT !.pc = "mark", !.result = "conflict"])
    /\ UNCHANGED <<server, rows, conflicts, undo, scan>>

\* DeleteVTODO sends If-Match if it has an etag; 404 counts as success.
DeletePossible(r) == CurrentETag = 0 \/ r.etag \in {0, CurrentETag}

Removed == IF CurrentETag = 0 THEN server ELSE Written(NoText, "caldo")

DeleteAccepted(h) ==
    /\ req[h].pc = "delete"
    /\ DeletePossible(req[h])
    /\ server' = Removed
    /\ Continue(h, [req[h] EXCEPT !.pc = "mark", !.result = "ok"])
    /\ UNCHANGED <<rows, conflicts, undo, scan>>

DeleteLost(h) ==
    /\ "lost" \in Allowed
    /\ req[h].pc = "delete"
    /\ DeletePossible(req[h])
    /\ server' = Removed
    /\ NoAnswer(h)
    /\ UNCHANGED <<rows, conflicts, undo, scan>>

DeleteFailed(h) ==
    /\ "fail" \in Allowed
    /\ req[h].pc = "delete"
    /\ NoAnswer(h)
    /\ UNCHANGED <<server, rows, conflicts, undo, scan>>

DeleteRefused(h) ==
    /\ req[h].pc = "delete"
    /\ ~DeletePossible(req[h])
    /\ Continue(h, [req[h] EXCEPT !.pc = "mark", !.result = "conflict"])
    /\ UNCHANGED <<server, rows, conflicts, undo, scan>>

-----------------------------------------------------------------------------
(***************************************************************************)
(* The last database step of each handler.  Marks that carry the pending   *)
(* version do nothing when the row has moved on, and the handler ends.     *)
(***************************************************************************)
Marking(h, ops, result) == /\ req[h].pc = "mark"
                           /\ req[h].op \in ops
                           /\ req[h].result = result

\* The row moved on under a handler whose mark carries a version.
MarkRefused(h) ==
    /\ req[h].pc = "mark"
    /\ req[h].op \notin {"create", "undo_delete"}
    /\ \/ ~RowAsExpected(h)
       \/ /\ req[h].op \in {"resolve", "split"}
          /\ ~OpenConflict(req[h].n, req[h].conflict)
    /\ Finish(h)
    /\ UNCHANGED <<server, rows, conflicts, undo, scan>>

\* An undo goes on to delete its snapshot, the other handlers end.
AfterSynced(h) ==
    IF req[h].op \in {"undo_update", "undo_delete"}
    THEN Continue(h, [req[h] EXCEPT !.pc = "drop"])
    ELSE Finish(h)

\* Mutant of MarkUpdateSynced: no AND server_version = ?.
MarkUpdateSyncedUnchecked(h) ==
    LET r == req[h] IN
    /\ Marking(h, {"update", "undo_update"}, "ok")
    /\ r.n \in Live
    /\ SetRow(r.n, Synced(rows[r.n], r.newETag))
    /\ AfterSynced(h)
    /\ UNCHANGED <<server, conflicts, undo, scan>>

\* MarkTaskUpdateSynced
MarkUpdateSynced(h) ==
    LET r == req[h] IN
    /\ Marking(h, {"update", "undo_update"}, "ok")
    /\ RowAsExpected(h)
    /\ SetRow(r.n, Synced(rows[r.n], r.newETag))
    /\ AfterSynced(h)
    /\ UNCHANGED <<server, conflicts, undo, scan>>

\* MarkTaskUpdateError and MarkTaskDeleteError
MarkError(h) ==
    LET r == req[h] IN
    /\ Marking(h, {"update", "undo_update", "delete"}, "fail")
    /\ RowAsExpected(h)
    /\ SetRow(r.n, [rows[r.n] EXCEPT !.status = "error"])
    /\ Finish(h)
    /\ UNCHANGED <<server, conflicts, undo, scan>>

\* MarkTaskUpdateConflict
MarkUpdateConflict(h) ==
    LET r == req[h] IN
    /\ Marking(h, {"update", "undo_update"}, "conflict")
    /\ RowAsExpected(h)
    /\ SetRow(r.n, Conflicted(rows[r.n], r.newETag))
    /\ AddConflict(r.n, NewConflict("field_conflict", r.base, r.raw, r.remote))
    /\ Finish(h)
    /\ UNCHANGED <<server, undo, scan>>

\* MarkTaskCreateSynced, WHERE id = ?: whatever version the row has.
MarkCreateSynced(h) ==
    LET r == req[h] IN
    /\ Marking(h, {"create", "undo_delete"}, "ok")
    /\ r.n \in Live
    /\ SetRow(r.n, Synced(rows[r.n], r.newETag))
    /\ AfterSynced(h)
    /\ UNCHANGED <<server, conflicts, undo, scan>>

\* MarkTaskCreateError, WHERE id = ?
MarkCreateError(h) ==
    LET r == req[h] IN
    /\ Marking(h, {"create", "undo_delete"}, "fail")
    /\ r.n \in Live
    /\ SetRow(r.n, [rows[r.n] EXCEPT !.status = "error"])
    /\ Finish(h)
    /\ UNCHANGED <<server, conflicts, undo, scan>>

\* The two marks above find no row.
MarkCreateRowGone(h) ==
    /\ req[h].pc = "mark"
    /\ req[h].op \in {"create", "undo_delete"}
    /\ req[h].n \notin Live
    /\ Finish(h)
    /\ UNCHANGED <<server, rows, conflicts, undo, scan>>

\* MarkTaskDeleteSynced
MarkDeleteSynced(h) ==
    LET r == req[h] IN
    /\ Marking(h, {"delete"}, "ok")
    /\ RowAsExpected(h)
    /\ SetRow(r.n, [rows[r.n] EXCEPT !.status = "absent"])
    /\ Finish(h)
    /\ UNCHANGED <<server, conflicts, undo, scan>>

\* MarkTaskDeleteConflict
MarkDeleteConflict(h) ==
    LET r == req[h] IN
    /\ Marking(h, {"delete"}, "conflict")
    /\ RowAsExpected(h)
    /\ SetRow(r.n, [rows[r.n] EXCEPT !.status = "conflict"])
    /\ Finish(h)
    /\ UNCHANGED <<server, conflicts, undo, scan>>

CloseConflict(n, k) == conflicts' = [conflicts EXCEPT ![n][k].open = FALSE]

\* MarkConflictResolved
MarkResolved(h) ==
    LET r == req[h] IN
    /\ Marking(h, {"resolve"}, "ok")
    /\ RowAsExpected(h)
    /\ OpenConflict(r.n, r.conflict)
    /\ SetRow(r.n, [Synced(rows[r.n], r.newETag) EXCEPT !.raw = r.raw])
    /\ CloseConflict(r.n, r.conflict)
    /\ Finish(h)
    /\ UNCHANGED <<server, undo, scan>>

\* MarkConflictSplitResolved, as far as it concerns this object.
MarkSplit(h) ==
    LET r == req[h] IN
    /\ Marking(h, {"split"}, "ok")
    /\ RowAsExpected(h)
    /\ OpenConflict(r.n, r.conflict)
    /\ SetRow(r.n, Synced(rows[r.n], rows[r.n].etag))
    /\ CloseConflict(r.n, r.conflict)
    /\ Finish(h)
    /\ UNCHANGED <<server, undo, scan>>

\* DeleteUndoSnapshot, by id: a newer snapshot of the tab survives.
DropSnapshot(h) ==
    LET r == req[h] IN
    /\ r.pc = "drop"
    /\ undo' = [undo EXCEPT ![r.tab] = IF @ = r.snapshot THEN NoSnapshot ELSE @]
    /\ Finish(h)
    /\ UNCHANGED <<server, rows, conflicts, scan>>

\* The handler dies: the process crashes (then all of them do, one by one),
\* the mark fails in the database, or an undo finds no credentials.
Abandon(h) ==
    /\ "crash" \in Allowed
    /\ req[h].pc # "idle"
    /\ Finish(h)
    /\ UNCHANGED <<server, rows, conflicts, undo, scan>>

-----------------------------------------------------------------------------
\* An expired snapshot is deleted by PrepareTaskUndo or CleanupSyncArtifacts.
ExpireUndo(tab) ==
    /\ "expire" \in Allowed
    /\ undo[tab] # NoSnapshot
    /\ undo' = [undo EXCEPT ![tab] = NoSnapshot]
    /\ UNCHANGED <<server, rows, conflicts, req, scan, started>>

\* FullScanRunner.Run, first half: ListVTODOs, outside any lock.  A project with
\* another strategy is fully scanned too, when its runner falls back.
ScanFetch ==
    /\ "scan" \in Allowed
    /\ scan.pc = "idle"
    /\ scan' = [pc |-> "fetched", vtodo |-> CurrentVTODO, etag |-> CurrentETag]
    /\ UNCHANGED <<server, rows, conflicts, undo, req, started>>

\* The oldest row stands for the UID, other rows match no remote object.
Matched(n) == /\ scan.vtodo # NoText
              /\ n \in Live
              /\ \A m \in Live : n <= m

RowVerdict(n) == IF Matched(n) THEN Verdict(rows[n], scan.vtodo, scan.etag)
                               ELSE MissingVerdict(rows[n])

\* Mutant of NewObject: the answer is not looked at.
NewObjectAlways == Live = {}

\* A scanned object without any row.
NewObject == scan.vtodo # NoText /\ Live = {}

\* Second half: ApplyFullScanProject, one transaction.
ScanApply ==
    LET after == [n \in DOMAIN rows |->
                    AfterVerdict(rows[n], RowVerdict(n), scan.vtodo, scan.etag)]
        noted == [n \in DOMAIN rows |->
                    ConflictsAfterVerdict(conflicts[n], rows[n], RowVerdict(n),
                                          scan.vtodo)]
    IN  /\ scan.pc = "fetched"
        /\ IF NewObject
           THEN /\ rows' = Append(after, ImportedRow(scan.vtodo, scan.etag))
                /\ conflicts' = Append(noted, <<>>)
           ELSE /\ rows' = after
                /\ conflicts' = noted
        /\ scan' = NoScan
        /\ UNCHANGED <<server, undo, req, started>>

\* The run ends without applying what it fetched.
ScanAbort ==
    /\ "crash" \in Allowed
    /\ scan.pc = "fetched"
    /\ scan' = NoScan
    /\ UNCHANGED <<server, rows, conflicts, undo, req, started>>

RemoteWrites == {e \in DOMAIN server : server[e].by = "other"}

\* Another CalDAV client writes the object, or deletes it.
RemoteWrite ==
    \E text \in Text \ {CurrentVTODO} :
        /\ "other" \in Allowed
        /\ Cardinality(RemoteWrites) < MaxRemote
        /\ server' = Written(text, "other")
        /\ UNCHANGED <<rows, conflicts, undo, req, scan, started>>

-----------------------------------------------------------------------------
Prepare(h) == \/ UpdateLoad(h) \/ UpdatePrepare(h) \/ UpdateRefused(h)
              \/ CreateInsert(h) \/ DeletePrepare(h)
              \/ UndoUpdatePrepare(h) \/ UndoDeleteReuse(h)
              \/ UndoDeleteInsert(h) \/ ResolveLoad(h) \/ SplitLoad(h)

CalDav(h) == \/ PutAccepted(h) \/ PutLost(h) \/ PutFailed(h) \/ PutRefused(h)
             \/ GetRemote(h) \/ DeleteAccepted(h) \/ DeleteLost(h)
             \/ DeleteFailed(h) \/ DeleteRefused(h)

Mark(h) == \/ MarkRefused(h) \/ MarkUpdateSynced(h) \/ MarkError(h)
           \/ MarkUpdateConflict(h) \/ MarkCreateSynced(h)
           \/ MarkCreateError(h) \/ MarkCreateRowGone(h)
           \/ MarkDeleteSynced(h) \/ MarkDeleteConflict(h)
           \/ MarkResolved(h) \/ MarkSplit(h) \/ DropSnapshot(h)

Next == \/ \E h \in Handler : Prepare(h) \/ CalDav(h) \/ Mark(h) \/ Abandon(h)
        \/ \E tab \in Tab : ExpireUndo(tab)
        \/ ScanFetch \/ ScanApply \/ ScanAbort
        \/ RemoteWrite

Spec == Init /\ [][Next]_vars

\* What a handler does once it has accepted a request.
Serve(h) == UpdatePrepare(h) \/ UpdateRefused(h) \/ CalDav(h) \/ Mark(h)

\* Handlers run to their end: CalDAV requests time out and are retried a
\* bounded number of times.  The scheduler runs again and again, which is a scan
\* only if the strategy is fullscan (runnerFor); a scan that has fetched goes on.
\* Nothing else is bound to happen.
FairSpec == /\ Spec
            /\ \A h \in Handler : WF_vars(Serve(h))
            /\ SyncStrategy = "fullscan" => WF_vars(ScanFetch)
            /\ SF_vars(ScanApply)

(***************************************************************************)
(* What optimistic locking promises (module TaskStore), read off the rows: *)
(* a handler between its load and its prepare transaction has an edit to   *)
(* store.                                                                  *)
(***************************************************************************)
Cell(row) == [ver |-> row.ver, raw |-> row.raw,
              state |-> IF row.status = "absent" THEN "gone" ELSE "live"]

StoredRows == [n \in DOMAIN rows |-> Cell(rows[n])]

JobOf(r) == IF r.pc = "prepare" THEN {[n |-> r.n, patch |-> r.patch]} ELSE {}

Jobs == [h \in Handler |-> JobOf(req[h])]

Store == INSTANCE TaskStore WITH store <- StoredRows, job <- Jobs

-----------------------------------------------------------------------------
\* Types, and: the lists kept per row have one entry for each row.
TypeOK == /\ server \in Seq(Version)
          /\ rows \in Seq(Row)
          /\ conflicts \in Seq(Seq(Conflict))
          /\ Len(conflicts) = Len(rows)
          /\ undo \in [Tab -> Snapshot]
          /\ req \in [Handler -> Request]
          /\ scan \in Scan
          /\ started \in Nat

\* An edit is a patch of the text the row holds at the moment it is stored:
\* LoadTaskUpdateBase reads the text outside any transaction, other handlers
\* and the scan write in between, and the version check of PrepareTaskUpdate
\* must refuse every request whose base text is no longer the row's text.
PatchBaseIsCurrent ==
    \A h \in Handler :
        req[h].pc = "prepare" /\ RowAsExpected(h) =>
            rows[req[h].n].raw = req[h].base

\* Between its prepare transaction and its mark a handler talks to the server
\* without any lock.  If the row still has the handler's pending version when
\* the mark comes, the row still has the text the handler sent: the version
\* checks of MarkTaskUpdateSynced, ...Error, ...Conflict and of the delete
\* marks never let a handler speak for someone else's text.
MarkOwnContent ==
    \A h \in Handler :
        /\ req[h].pc \in {"put", "delete", "get", "mark"}
        /\ req[h].op \notin {"resolve", "split"}
        /\ RowAsExpected(h)
        => rows[req[h].n].raw = req[h].raw

\* When an edit, its undo or a resolution makes a row synced, the etag it
\* stores names the server version that holds exactly the row's text.
SyncedAsPushed ==
    [][\A h \in Handler :
          MarkUpdateSynced(h) \/ MarkResolved(h) =>
              LET row == rows'[req[h].n]
              IN  row.etag \in DOMAIN server /\ server[row.etag].vtodo = row.raw]_vars

\* LoadTaskUpdateBase followed later by PrepareTaskUpdate behaves like one
\* atomic read-modify-write, versions name texts and rows never come back.
ImplementsTaskStore == Store!Spec

\* A row in state conflict has an unresolved entry in conflicts that keeps the
\* row's local text, so that the user can still choose it.
ConflictKeepsLocal ==
    \A n \in DOMAIN rows :
        rows[n].status = "conflict" =>
            \E k \in DOMAIN conflicts[n] : /\ OpenConflict(n, k)
                                          /\ conflicts[n][k].local = rows[n].raw

\* What Caldo shows as synced is what the server holds, and the server's
\* object is shown.
Agrees ==
    /\ \A n \in Live : rows[n].status = "synced" =>
          rows[n].raw = CurrentVTODO /\ rows[n].etag = CurrentETag
    /\ CurrentVTODO # NoText => Live # {}

\* Whatever edits, deletions, scans and other clients have done to each other,
\* once they stop the scans bring every row that claims to be synced into
\* agreement with the server, for good, in a project whose strategy is fullscan.
\* The others are told of an object only when it changes: a row that a scan has
\* merged, and no request has put, keeps its own text.
SyncConverges == SyncStrategy = "fullscan" => <>[]Agrees
=============================================================================
