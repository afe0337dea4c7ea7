------------------------------ MODULE Families ------------------------------
(***************************************************************************)
(* Tasks and their subtasks.  A subtask names its parent twice: by UID in  *)
(* its VTODO (RELATED-TO), and by id in the column tasks.parent_id, which  *)
(* creating a subtask and full scans keep.  Deleting and completing a      *)
(* parent goes through its subtasks one by one, each with its own prepare, *)
(* CalDAV request and mark, while other requests, scans and other clients  *)
(* change the family.                                                      *)
(***************************************************************************)
EXTENDS TaskRows, FiniteSets

CONSTANTS Task,       \* UIDs, one object and at most one row each
          None,       \* no task, no parent
          Handler,    \* requests in progress at the same time
          Allowed,    \* the operations and faults that occur
          MaxRequests,\* bound: requests
          MaxRemote,  \* bound: writes of other clients
          RemoteText  \* bound: the texts they write

Behaviour == {"create", "delete", "complete", "reopen", "scan", "fail",
              "lost", "crash", "other"}

ASSUME FamiliesAssumption ==
    /\ Field = {"status", "related"} /\ KnownField = {"status"}
    /\ Value = {"open", "done", None} \cup Task
    /\ None \notin Task
    /\ Allowed \subseteq Behaviour
    /\ {MaxRequests, MaxRemote} \subseteq Nat
    /\ RemoteText \subseteq {text \in Content : text["related"] \in Task \cup {None}}

VARIABLES server, \* for each object its text, and the number of its last version
          rows,   \* the row with each UID
          births, \* how often a row with that UID has been inserted
          parent, \* tasks.parent_id, as the UID of the row it refers to
          req,    \* for each handler its request
          scan,   \* the answer a full scan is about to apply
          requests, remoteWrites \* how many there have been

vars == <<server, rows, births, parent, req, scan, requests, remoteWrites>>

-----------------------------------------------------------------------------
NewTask(p) == [f \in Field |-> IF f = "status" THEN "open" ELSE p]

\* The etag of an object that there is not is 0, and no number comes twice.
Object == [text : Text, last : Nat]

ETag(o) == IF o.text = NoText THEN 0 ELSE o.last

Wrote(o, text) == [text |-> text, last |-> o.last + 1]

AbsentRow == [ver |-> 0, raw |-> NewTask(None), base |-> NewTask(None),
              etag |-> 0, status |-> "absent"]

Live == {t \in Task : rows[t].status # "absent"}

\* Ids are UUIDs: a row inserted again has another one.
Id(t) == <<t, births[t]>>

LiveId(id) == id[1] \in Live /\ births[id[1]] = id[2]

Children(p) == {c \in Live : parent[c] = p}

\* A request: what it works on (task, as the user has seen it, with its
\* version), the subtasks it still has to go through (todo, all of them in
\* listed), the one it is at (cur) and what it has read of it.
Request == [pc : {"idle", "list", "load", "prepare", "insert", "remote", "mark"},
            op : {"none", "create", "delete", "complete", "reopen"},
            task : (Task \X Nat) \cup {None}, ver : Nat,
            listed : SUBSET (Task \X Nat), todo : SUBSET (Task \X Nat),
            cur : (Task \X Nat) \cup {None}, seen : Nat, etag : Nat,
            raw : Text, base : Text, result : {"none", "ok", "fail", "conflict"},
            new : Nat]

NoRequest == [pc |-> "idle", op |-> "none", task |-> None, ver |-> 0,
              listed |-> {}, todo |-> {}, cur |-> None, seen |-> 0, etag |-> 0,
              raw |-> NoText, base |-> NoText, result |-> "none", new |-> 0]

NoScan == [pc |-> "idle", answer |-> [t \in Task |-> [text |-> NoText, last |-> 0]]]

\* A task has been imported, and a subtask of it.
Init == /\ \E p, kid \in Task :
              /\ p # kid
              /\ LET all == {p, kid}
                     text(t) == NewTask(IF t = p THEN None ELSE p)
                 IN  /\ server = [t \in Task |-> IF t \in all THEN [text |-> text(t), last |-> 1]
                                                  ELSE [text |-> NoText, last |-> 0]]
                     /\ rows = [t \in Task |-> IF t \in all THEN ImportedRow(text(t), 1)
                                                ELSE AbsentRow]
                     /\ births = [t \in Task |-> IF t \in all THEN 1 ELSE 0]
                     /\ parent = [t \in Task |-> IF t = kid THEN p ELSE None]
        /\ req = [h \in Handler |-> NoRequest]
        /\ scan = NoScan
        /\ requests = 0 /\ remoteWrites = 0

-----------------------------------------------------------------------------
Accept(h, op, r) == /\ op \in Allowed
                    /\ req[h].pc = "idle"
                    /\ requests < MaxRequests
                    /\ requests' = requests + 1
                    /\ req' = [req EXCEPT ![h] = [r EXCEPT !.op = op]]

Goes(h, r) == req' = [req EXCEPT ![h] = r] /\ UNCHANGED requests

Ends(h) == Goes(h, NoRequest)

SetRow(t, row) == rows' = [rows EXCEPT ![t] = row]

\* TaskDelete, TaskComplete and TaskReopen: the version that the user has seen
\* is the row's.  Only the first two look for subtasks.
Start(h) ==
    \E t \in Live, op \in {"delete", "complete", "reopen"} :
        /\ Accept(h, op, [NoRequest EXCEPT !.pc = IF op = "reopen" THEN "load" ELSE "list",
                              !.task = Id(t), !.ver = rows[t].ver])
        /\ UNCHANGED <<server, rows, births, parent, scan, remoteWrites>>

\* ListDirectSubtaskIDs, ListOpenDirectSubtaskIDs.  Subtasks need the user's
\* word (delete_all, complete_open); parent_only leaves them out, and without
\* it the request ends.
List(h) ==
    LET r == req[h]
        found == {Id(c) : c \in {d \in Children(r.task[1]) :
                        r.op = "complete" => rows[d].raw["status"] # "done"}}
    IN  /\ r.pc = "list"
        /\ \/ found # {} /\ Ends(h)
           \/ \E all \in {found} \cup (IF r.op = "complete" THEN {{}} ELSE {}) :
                 Goes(h, [r EXCEPT !.pc = "load", !.listed = all, !.todo = all])
        /\ UNCHANGED <<server, rows, births, parent, scan, remoteWrites>>

\* The parent comes after all of its subtasks.
Nexts(r) == IF r.todo = {} THEN {r.task} ELSE r.todo

\* LoadTaskUpdateBase: the version of a subtask is whatever it is now, that of
\* the parent is the one the user has seen.
Load(h) ==
    LET r == req[h]
    IN  /\ r.pc = "load"
        /\ \E id \in Nexts(r) :
              IF LiveId(id)
              THEN Goes(h, [r EXCEPT !.pc = "prepare", !.cur = id, !.todo = @ \ {id},
                             !.seen = IF id = r.task THEN r.ver ELSE rows[id[1]].ver])
              ELSE Ends(h)
        /\ UNCHANGED <<server, rows, births, parent, scan, remoteWrites>>

\* The text a completion puts.
Target(r, row) ==
    Patched(row.raw, [f \in {"status"} |-> IF r.op = "complete" THEN "done" ELSE "open"])

\* PrepareTaskDelete, PrepareTaskUpdate
Prepare(h) ==
    LET r == req[h]
        t == r.cur[1]
        row == rows[t]
        text == IF r.op = "delete" THEN row.raw ELSE Target(r, row)
    IN  /\ r.pc = "prepare"
        /\ IF LiveId(r.cur) /\ row.ver = r.seen
           THEN /\ SetRow(t, Pending(row, text))
                /\ Goes(h, [r EXCEPT !.pc = "remote", !.seen = row.ver + 1,
                                     !.etag = row.etag, !.raw = text, !.base = row.raw])
           ELSE Ends(h) /\ UNCHANGED rows
        /\ UNCHANGED <<server, births, parent, scan, remoteWrites>>

\* ResolveSubtaskParent: a subtask has no subtasks.
StartCreate(h) ==
    \E p \in Live :
        /\ parent[p] = None
        /\ Accept(h, "create", [NoRequest EXCEPT !.pc = "insert", !.task = Id(p)])
        /\ UNCHANGED <<server, rows, births, parent, scan, remoteWrites>>

\* InsertPendingTask: under a new UID; the foreign key wants the parent.
Insert(h) ==
    LET r == req[h]
        p == r.task[1]
    IN  /\ r.pc = "insert"
        /\ IF LiveId(r.task)
           THEN \E c \in {t \in Task : births[t] = 0 /\ server[t].last = 0} :
                   /\ SetRow(c, PendingRow(NewTask(p)))
                   /\ births' = [births EXCEPT ![c] = 1]
                   /\ parent' = [parent EXCEPT ![c] = p]
                   /\ Goes(h, [r EXCEPT !.pc = "remote", !.cur = <<c, 1>>,
                                        !.raw = NewTask(p)])
           ELSE Ends(h) /\ UNCHANGED <<rows, births, parent>>
        /\ UNCHANGED <<server, scan, remoteWrites>>

-----------------------------------------------------------------------------
\* What the server does with the request: DELETE succeeds if there is nothing,
\* or with the right etag (or none); PUT with the right etag, or any when the
\* row has none and If-Match is empty; the PUT of a new object always.
Possible(r) == LET now == ETag(server[r.cur[1]])
               IN  CASE r.op = "create" -> now = 0
                     [] r.op = "delete" -> now = 0 \/ r.etag \in {0, now}
                     [] OTHER -> r.etag \in {0, now}

Effect(r) == LET t == r.cur[1]
             IN  IF r.op # "delete" THEN Wrote(server[t], r.raw)
                 ELSE IF server[t].text = NoText THEN server[t]
                 ELSE Wrote(server[t], NoText)

\* A request that finds no answer is sent again, or given up; a new object is
\* put once.
Remote(h) ==
    LET r == req[h]
        t == r.cur[1]
        marks(result, new) == Goes(h, [r EXCEPT !.pc = "mark", !.result = result, !.new = new])
    IN  /\ r.pc = "remote"
        /\ \/ /\ Possible(r)
              /\ server' = [server EXCEPT ![t] = Effect(r)]
              /\ \/ marks("ok", server[t].last + 1)
                 \/ "lost" \in Allowed /\ marks("fail", 0)
                 \/ "lost" \in Allowed /\ r.op # "create" /\ Goes(h, r)
           \/ /\ r.op # "create"
              /\ ~Possible(r) \/ (r.op # "delete" /\ r.etag = 0)
              /\ marks("conflict", IF r.op = "delete" THEN 0 ELSE ETag(server[t]))
              /\ UNCHANGED server
           \/ /\ "fail" \in Allowed
              /\ marks("fail", 0)
              /\ UNCHANGED server
        /\ UNCHANGED <<rows, births, parent, scan, remoteWrites>>

\* The loop goes on, or the request is done.
Continues(h) == IF req[h].op = "create" \/ req[h].cur = req[h].task THEN Ends(h)
                ELSE Goes(h, [req[h] EXCEPT !.pc = "load", !.cur = None, !.result = "none"])

\* Mutant of AfterFailure: the loop goes on with the next task.
AfterFailureGoOn(h) == Continues(h)

\* A task that fails ends the loop.
AfterFailure(h) == Ends(h)

\* Marks carry the pending version, but for those of a creation.
Marked(r) == LiveId(r.cur) /\ (r.op = "create" \/ rows[r.cur[1]].ver = r.seen)

\* MarkTaskDeleteSynced: the foreign key refuses while a row refers to it.
MarkDeleted(h) ==
    LET t == req[h].cur[1]
    IN  /\ req[h].pc = "mark" /\ req[h].op = "delete" /\ req[h].result = "ok"
        /\ IF Marked(req[h]) /\ Children(t) = {}
           THEN /\ SetRow(t, AbsentRow)
                /\ parent' = [parent EXCEPT ![t] = None]
                /\ Continues(h)
           ELSE Ends(h) /\ UNCHANGED <<rows, parent>>
        /\ UNCHANGED <<server, births, scan, remoteWrites>>

\* MarkTaskUpdateSynced, MarkTaskCreateSynced
MarkPut(h) ==
    LET r == req[h]
    IN  /\ r.pc = "mark" /\ r.op # "delete" /\ r.result = "ok"
        /\ IF Marked(r)
           THEN SetRow(r.cur[1], Synced(rows[r.cur[1]], r.new)) /\ Continues(h)
           ELSE Ends(h) /\ UNCHANGED rows
        /\ UNCHANGED <<server, births, parent, scan, remoteWrites>>

\* MarkTaskDeleteConflict, MarkTaskUpdateConflict; the errors of both.
MarkFailed(h) ==
    LET r == req[h]
        row == rows[r.cur[1]]
    IN  /\ r.pc = "mark" /\ r.result \in {"fail", "conflict"}
        /\ IF ~Marked(r) THEN UNCHANGED rows
           ELSE SetRow(r.cur[1], IF r.result = "conflict" THEN Conflicted(row, r.new)
                                 ELSE [row EXCEPT !.status = "error"])
        /\ AfterFailure(h)
        /\ UNCHANGED <<server, births, parent, scan, remoteWrites>>

-----------------------------------------------------------------------------
\* ListVTODOs
ScanFetch == /\ "scan" \in Allowed
             /\ scan.pc = "idle"
             /\ scan' = [pc |-> "apply", answer |-> server]
             /\ UNCHANGED <<server, rows, births, parent, req, requests, remoteWrites>>

ScanVerdict(t) == LET o == scan.answer[t]
                  IN  IF o.text = NoText THEN MissingVerdict(rows[t])
                      ELSE Verdict(rows[t], o.text, o.last)

Inserted == {t \in Task : t \notin Live /\ scan.answer[t].text # NoText}

ScannedRow(t) == IF t \in Inserted THEN ImportedRow(scan.answer[t].text, scan.answer[t].last)
                 ELSE IF t \notin Live THEN rows[t]
                 ELSE LET row == AfterVerdict(rows[t], ScanVerdict(t),
                                              scan.answer[t].text, scan.answer[t].last)
                      IN  IF row.status = "absent" THEN AbsentRow ELSE row

\* Mutant of Cleared: subtasks go on referring to deleted rows.
ClearedNot(after) == [t \in Task |-> IF after[t].status = "absent" THEN None ELSE parent[t]]

\* deleteFullScanTasks clears the parent_id of what refers to a deleted row.
Cleared(after) == [t \in Task |-> IF after[t].status = "absent" \/ parent[t] = None THEN None
                                  ELSE IF after[parent[t]].status = "absent" THEN None
                                  ELSE parent[t]]

\* Mutant of LinkTarget: a parent may be a subtask.
LinkTargetAny(t, after) ==
    LET p == scan.answer[t].text["related"]
    IN  IF p = None THEN None ELSE IF after[p].status # "absent" THEN p ELSE None

\* The parent that the answer gives t: a row, and no subtask itself.
LinkTarget(t, after) ==
    LET related(u) == IF scan.answer[u].text = NoText THEN None
                      ELSE scan.answer[u].text["related"]
        p == related(t)
    IN  IF p = None THEN None
        ELSE IF after[p].status # "absent" /\ related(p) = None THEN p ELSE None

\* applyFullScanParentLinks: rows of the answer, but for those in conflict.
Linked(links, after) ==
    [t \in Task |-> IF scan.answer[t].text # NoText /\ after[t].status # "conflict"
                    THEN LinkTarget(t, after) ELSE links[t]]

\* ApplyFullScanProject, one transaction.
ScanApply ==
    LET after == [t \in Task |-> ScannedRow(t)]
    IN  /\ scan.pc = "apply"
        /\ rows' = after
        /\ births' = [t \in Task |-> IF t \in Inserted THEN births[t] + 1 ELSE births[t]]
        /\ parent' = Linked(Cleared(after), after)
        /\ scan' = NoScan
        /\ UNCHANGED <<server, req, requests, remoteWrites>>

\* Another client writes or deletes an object.
OtherClient ==
    /\ "other" \in Allowed
    /\ remoteWrites < MaxRemote
    /\ remoteWrites' = remoteWrites + 1
    /\ \E t \in Task, v \in RemoteText \cup {NoText} :
          /\ v # server[t].text
          /\ server' = [server EXCEPT ![t] = Wrote(@, v)]
    /\ UNCHANGED <<rows, births, parent, req, scan, requests>>

\* The process dies; no row changes.
Crash == /\ "crash" \in Allowed
         /\ (\E h \in Handler : req[h].pc # "idle") \/ scan.pc # "idle"
         /\ req' = [h \in Handler |-> NoRequest]
         /\ scan' = NoScan
         /\ UNCHANGED <<server, rows, births, parent, requests, remoteWrites>>

-----------------------------------------------------------------------------
Work(h) == \/ List(h) \/ Load(h) \/ Prepare(h) \/ Insert(h) \/ Remote(h)
           \/ MarkDeleted(h) \/ MarkPut(h) \/ MarkFailed(h)

Next == \/ \E h \in Handler : Start(h) \/ StartCreate(h) \/ Work(h)
        \/ ScanFetch \/ ScanApply \/ OtherClient \/ Crash

Spec == Init /\ [][Next]_vars

-----------------------------------------------------------------------------
TypeOK == /\ server \in [Task -> Object]
          /\ rows \in [Task -> Row]
          /\ births \in [Task -> Nat]
          /\ parent \in [Task -> Task \cup {None}]
          /\ req \in [Handler -> Request]
          /\ scan.pc \in {"idle", "apply"} /\ scan.answer \in [Task -> Object]

\* Every parent_id refers to a row.  Creating a subtask and deleting a parent
\* leave that to the foreign key; a scan deletes rows and sets links without
\* its transaction ever failing on it.
ParentExists == \A c \in Live : parent[c] # None => parent[c] \in Live

\* docs/arch.md 17.2: there is one level of subtasks.  A subtask created while
\* its parent became a subtask itself, or an answer that was stale, may break
\* that; the scan that follows puts it right, as far as no row is in conflict.
ScanFlattens ==
    [][ScanApply =>
        \A c \in Task : LET p == parent'[c]
                        IN  p # None => \/ parent'[p] = None
                                        \/ "conflict" \in {rows'[c].status, rows'[p].status}]_vars

\* Deleting a family goes bottom up: when Caldo sends the DELETE of the parent,
\* the subtasks that it has counted are gone, whatever failed, was refused or
\* was overtaken on the way; a failure leaves the parent alone.
ParentGoesLast ==
    [][\A h \in Handler :
          req[h].op = "delete" /\ req[h].cur = req[h].task /\ req[h].pc = "remote"
          => \A c \in req[h].listed : ~LiveId(c)]_vars
=============================================================================
