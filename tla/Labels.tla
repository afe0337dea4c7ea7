------------------------------- MODULE Labels -------------------------------
(***************************************************************************)
(* Renaming and deleting a label, a category of many tasks.  The label's   *)
(* row and the assignments in task_labels are derived from the texts; a    *)
(* rename lists the assigned tasks once and then writes them one by one,   *)
(* each with its own prepare, PUT and mark, while edits, undos, scans and  *)
(* another client go on.  What is derived stays with the text only where   *)
(* the writer calls syncTaskLabels.  The favourite category is left to     *)
(* LabelFields.                                                            *)
(***************************************************************************)
EXTENDS TaskRows, FiniteSets

CONSTANTS Task,        \* one object, and one row at a time each
          Spelling,    \* names of labels
          Fold,        \* spelling -> place of the name, whatever its case
          Handler,     \* requests in progress at the same time
          None,        \* no label, no task, no snapshot
          Allowed,     \* the operations and faults that occur
          RemoteText,  \* bound: the texts another client writes
          Choice,      \* bound: the labels that an edit gives a task
          MaxId,       \* bound: rows ever inserted into labels
          MaxRequests, \* bound: requests
          MaxRemote    \* bound: writes of another client

Behaviour == {"rename", "remove", "edit", "undo", "scan", "fail", "crash", "other"}
Id == 1 .. MaxId

ASSUME LabelsAssumption ==
    /\ Field = {"categories"} /\ KnownField = Field
    /\ Fold \in [Spelling -> Nat]
    /\ Value = {names \in SUBSET Spelling :
                   IsFiniteSet(names) /\ \A m, n \in names : Fold[m] = Fold[n] => m = n}
    /\ IsFiniteSet(Task)
    /\ None \notin Spelling \cup Task
    /\ Allowed \subseteq Behaviour
    /\ RemoteText \subseteq Content /\ Choice \subseteq Value
    /\ {MaxId, MaxRequests, MaxRemote} \subseteq Nat

VARIABLES server,  \* for each task its text on the server and its last version
          rows,    \* for each task its row
          name,    \* labels: for each id its name, None for no row
          tags,    \* task_labels: for each task the ids assigned to it
          issued,  \* how many ids there have been
          loose,   \* history: tasks whose text was last stored by a writer
                   \* that leaves task_labels alone, or that had a label
                   \* when a rename gave it back a name it had lost
          snap,    \* the undo snapshot of the user's tab, named by its task and
                   \* the row version it was taken from
          req,     \* for each handler its request
          requests, remoteWrites \* how many there have been

vars == <<server, rows, name, tags, issued, loose, snap, req, requests, remoteWrites>>

-----------------------------------------------------------------------------
Text1(names) == [f \in Field |-> names]
Names(text) == text["categories"]
Keys(text) == {Fold[n] : n \in Names(text)}

Live == {i \in Id : name[i] # None}
IdOf(key) == {i \in Live : Fold[name[i]] = key}

\* syncTaskLabels: the old assignments go, missing labels are inserted, the
\* task is assigned to the label of each of its names.
NewKeys(text) == {k \in Keys(text) : IdOf(k) = {}}
FreshId(k, text) == issued + Cardinality({j \in NewKeys(text) : j <= k})
SpellingOf(k, text) == CHOOSE n \in Names(text) : Fold[n] = k

\* Mutant of SyncTaskLabels: the old assignments stay.
SyncTaskLabelsAdd(t, text) ==
    LET new == NewKeys(text)
        fresh(i) == {k \in new : FreshId(k, text) = i}
    IN  /\ issued + Cardinality(new) <= MaxId
        /\ issued' = issued + Cardinality(new)
        /\ name' = [i \in Id |-> IF fresh(i) = {} THEN name[i]
                                 ELSE SpellingOf(CHOOSE k \in fresh(i) : TRUE, text)]
        /\ tags' = [tags EXCEPT ![t] = @ \cup {FreshId(k, text) : k \in new}
                                  \cup UNION {IdOf(k) : k \in Keys(text) \ new}]

SyncTaskLabels(t, text) ==
    LET new == NewKeys(text)
        fresh(i) == {k \in new : FreshId(k, text) = i}
    IN  /\ issued + Cardinality(new) <= MaxId
        /\ issued' = issued + Cardinality(new)
        /\ name' = [i \in Id |-> IF fresh(i) = {} THEN name[i]
                                 ELSE SpellingOf(CHOOSE k \in fresh(i) : TRUE, text)]
        /\ tags' = [tags EXCEPT ![t] = {FreshId(k, text) : k \in new}
                                  \cup UNION {IdOf(k) : k \in Keys(text) \ new}]

\* renameCategoriesLabel, deleteCategoriesLabel: of two spellings of one name
\* the first in the old order stays.
Renamed(names, old, new) ==
    LET hit == {n \in names : Fold[n] = Fold[old]}
        other == {n \in names \ hit : Fold[n] = Fold[new]}
    IN  IF hit = {} THEN names
        ELSE IF other # {} /\ Fold[new] < Fold[old] THEN names \ hit
        ELSE ((names \ hit) \ other) \cup {new}
Removed(names, old) == {n \in names : Fold[n] # Fold[old]}

\* A task as the request has read it.
Listed == [task : Task, ver : Nat, raw : Content]

\* new holds the one name of a rename, or the labels of an edit.
NoRequest == [pc |-> "idle", op |-> "none", label |-> None, old |-> None, new |-> {},
              todo |-> {}, cur |-> None, ver |-> 0, etag |-> 0, raw |-> NoText,
              result |-> "none", got |-> 0, snapshot |-> None]

NewName(r) == CHOOSE n \in Spelling : n \in r.new

\* What the request makes of the text of a task.
Target(r, text) == CASE r.op = "rename" -> Text1(Renamed(Names(text), r.old, NewName(r)))
                     [] r.op = "remove" -> Text1(Removed(Names(text), r.old))
                     [] r.op = "edit" -> Text1(r.new)

-----------------------------------------------------------------------------
\* A scan has inserted some of the tasks, with their assignments; the setup has
\* imported the others, and ReplaceSetupProjectTasks assigns no labels.
Init == \E text \in [Task -> RemoteText], scanned \in SUBSET Task :
    LET keys == UNION {Keys(text[t]) : t \in scanned}
        id(k) == Cardinality({j \in keys : j <= k})
        named(i) == {n \in UNION {Names(text[t]) : t \in scanned} : id(Fold[n]) = i}
    IN  /\ server = [t \in Task |-> [text |-> text[t], last |-> 1]]
        /\ rows = [t \in Task |-> ImportedRow(text[t], 1)]
        /\ issued = Cardinality(keys) /\ issued <= MaxId
        /\ name \in {f \in [Id -> Spelling \cup {None}] :
                       \A i \in Id : IF i > issued THEN f[i] = None ELSE f[i] \in named(i)}
        /\ tags = [t \in Task |-> IF t \in scanned THEN {id(k) : k \in Keys(text[t])} ELSE {}]
        /\ loose = Task \ scanned
        /\ snap = None
        /\ req = [h \in Handler |-> NoRequest]
        /\ requests = 0 /\ remoteWrites = 0

-----------------------------------------------------------------------------
Accept(h, op, r) == /\ op \in Allowed
                    /\ req[h].pc = "idle"
                    /\ requests < MaxRequests
                    /\ requests' = requests + 1
                    /\ req' = [req EXCEPT ![h] = [r EXCEPT !.op = op]]

Goes(h, r) == req' = [req EXCEPT ![h] = r] /\ UNCHANGED requests
Ends(h) == Goes(h, NoRequest)
Derived == <<name, tags, issued, loose>>

\* LoadLabelDetail, for a rename or a confirmed deletion.
StartLabel(h) ==
    /\ \E i \in Live, op \in {"rename", "remove"}, n \in Spelling :
          Accept(h, op, [NoRequest EXCEPT !.pc = "list", !.label = i, !.old = name[i],
                            !.new = IF op = "rename" THEN {n} ELSE {}])
    /\ UNCHANGED <<server, rows, name, tags, issued, loose, snap, remoteWrites>>

\* ListLabelMutationTasks, a second read.
List(h) ==
    LET assigned == {t \in Task : req[h].label \in tags[t]}
    IN  /\ req[h].pc = "list"
        /\ Goes(h, [req[h] EXCEPT !.pc = IF assigned = {} THEN "unused" ELSE "prepare",
              !.todo = {[task |-> t, ver |-> rows[t].ver, raw |-> rows[t].raw] : t \in assigned}])
        /\ UNCHANGED <<server, rows, Derived, snap, remoteWrites>>

\* TaskUpdate of one task: the user chooses its labels.
StartEdit(h) ==
    /\ \E t \in Task, names \in Choice :
          Accept(h, "edit", [NoRequest EXCEPT !.pc = "prepare", !.new = names,
              !.todo = {[task |-> t, ver |-> rows[t].ver, raw |-> rows[t].raw]}])
    /\ UNCHANGED <<server, rows, Derived, snap, remoteWrites>>

\* PrepareTaskUpdate, for one of the tasks that are left; a row that no longer
\* has the version that was listed ends the request.
Prepare(h) ==
    /\ req[h].pc = "prepare"
    /\ \E l \in req[h].todo :
          LET t == l.task
              text == Target(req[h], l.raw)
          IN  IF rows[t].ver = l.ver
              THEN /\ rows' = [rows EXCEPT ![t] = Pending(@, text)]
                   /\ SyncTaskLabels(t, text)
                   /\ loose' = loose \ {t}
                   /\ snap' = [task |-> t, ver |-> l.ver, raw |-> rows[t].raw]
                   /\ Goes(h, [req[h] EXCEPT !.pc = "remote", !.todo = @ \ {l}, !.cur = t,
                            !.ver = l.ver + 1, !.etag = rows[t].etag, !.raw = text])
              ELSE Ends(h) /\ UNCHANGED <<rows, Derived, snap>>
    /\ UNCHANGED <<server, remoteWrites>>

\* prepareTaskUpdateUndo: text and columns, but no assignments.
StartUndo(h) ==
    /\ snap # None
    /\ LET t == snap.task
       IN  /\ Accept(h, "undo", [NoRequest EXCEPT !.pc = "remote", !.cur = t,
                  !.ver = rows[t].ver + 1, !.etag = rows[t].etag, !.raw = snap.raw,
                  !.snapshot = snap])
           /\ rows' = [rows EXCEPT ![t] = Pending(@, snap.raw)]
           /\ loose' = loose \cup {t}
    /\ UNCHANGED <<server, name, tags, issued, snap, remoteWrites>>

\* PutVTODOUpdate.
Wrote(o, text) == [text |-> text, last |-> o.last + 1]

Remote(h) ==
    LET r == req[h]
        marks(result, got) == Goes(h, [r EXCEPT !.pc = "mark", !.result = result, !.got = got])
    IN  /\ r.pc = "remote"
        /\ \/ /\ r.etag \in {0, server[r.cur].last}
              /\ server' = [server EXCEPT ![r.cur] = Wrote(@, r.raw)]
              /\ marks("ok", server[r.cur].last + 1)
           \/ /\ r.etag # server[r.cur].last
              /\ marks("conflict", server[r.cur].last)
              /\ UNCHANGED server
           \/ /\ "fail" \in Allowed
              /\ marks("fail", 0)
              /\ UNCHANGED server
        /\ UNCHANGED <<rows, Derived, snap, remoteWrites>>

Marked(r) == rows[r.cur].ver = r.ver

\* The marks of an update; after the last task the label itself has its turn.
\* A task that fails ends the request.  An undo deletes its snapshot, by id: one
\* that an edit has put in its place meanwhile stays.
Mark(h) ==
    LET r == req[h]
        row == rows[r.cur]
    IN  /\ r.pc = "mark"
        /\ IF ~Marked(r) THEN Ends(h) /\ UNCHANGED <<rows, snap>>
           ELSE IF r.result = "ok"
           THEN /\ rows' = [rows EXCEPT ![r.cur] = Synced(row, r.got)]
                /\ snap' = IF r.op = "undo" /\ snap = r.snapshot THEN None ELSE snap
                /\ IF r.op \in {"edit", "undo"} THEN Ends(h)
                   ELSE Goes(h, [r EXCEPT !.pc = IF r.todo # {} THEN "prepare"
                            ELSE IF r.op = "rename" /\ Fold[r.old] = Fold[NewName(r)]
                                 THEN "row" ELSE "delete"])
           ELSE /\ rows' = [rows EXCEPT ![r.cur] =
                              IF r.result = "conflict" THEN Conflicted(row, r.got)
                              ELSE [row EXCEPT !.status = "error"]]
                /\ Ends(h) /\ UNCHANGED snap
        /\ UNCHANGED <<server, Derived, remoteWrites>>

-----------------------------------------------------------------------------
\* The label's own row, one transaction each.  What is not there or in use is
\* refused; the answer says so.
Unused(i) == i \in Live /\ \A t \in Task : i \notin tags[t]

\* Mutant of Deletable: assignments are not counted.
DeletableAny(i) == i \in Live

\* ensureLabelUnused
Deletable(i) == Unused(i)

DeleteUnusedLabel(h) ==
    LET r == req[h]
    IN  /\ r.pc = "delete" \/ (r.pc = "unused" /\ r.op = "remove")
        /\ name' = IF Deletable(r.label) THEN [name EXCEPT ![r.label] = None] ELSE name
        /\ tags' = IF Deletable(r.label) THEN [t \in Task |-> tags[t] \ {r.label}] ELSE tags
        /\ Ends(h)
        /\ UNCHANGED <<server, rows, issued, loose, snap, remoteWrites>>

\* RenameUnusedLabel: a name that another label has takes this one away.
RenameUnusedLabel(h) ==
    LET r == req[h]
        taken == IdOf(Fold[NewName(r)]) \ {r.label} # {}
    IN  /\ r.pc = "unused" /\ r.op = "rename"
        /\ name' = IF ~Unused(r.label) THEN name
                   ELSE [name EXCEPT ![r.label] = IF taken THEN None ELSE NewName(r)]
        /\ Ends(h)
        /\ UNCHANGED <<server, rows, tags, issued, loose, snap, remoteWrites>>

\* RenameLabelRow: the new spelling, unless the name is taken (UNIQUE).  What
\* name the label has by now is not asked: another rename may have given it to
\* other tasks under another one.
RenameLabelRow(h) ==
    LET r == req[h]
        renames == r.label \in Live /\ IdOf(Fold[NewName(r)]) \subseteq {r.label}
        other == renames /\ Fold[name[r.label]] # Fold[NewName(r)]
    IN  /\ r.pc = "row"
        /\ name' = IF renames THEN [name EXCEPT ![r.label] = NewName(r)] ELSE name
        /\ loose' = IF other THEN loose \cup {t \in Task : r.label \in tags[t]} ELSE loose
        /\ Ends(h)
        /\ UNCHANGED <<server, rows, tags, issued, snap, remoteWrites>>

-----------------------------------------------------------------------------
\* A full scan finds one task changed.  Its listing and its transaction are
\* taken together here; TaskSync tells them apart.
Scan ==
    /\ "scan" \in Allowed
    /\ \E t \in Task :
          LET o == server[t]
              verdict == Verdict(rows[t], o.text, o.last)
              row == AfterVerdict(rows[t], verdict, o.text, o.last)
          IN  /\ row # rows[t]
              /\ rows' = [rows EXCEPT ![t] = row]
              /\ IF verdict \in {"import", "merge"}
                 THEN SyncTaskLabels(t, row.raw) /\ loose' = loose \ {t}
                 ELSE UNCHANGED Derived
    /\ UNCHANGED <<server, snap, req, requests, remoteWrites>>

\* Another client writes the object of a task.
OtherClient ==
    /\ "other" \in Allowed
    /\ remoteWrites < MaxRemote
    /\ remoteWrites' = remoteWrites + 1
    /\ \E t \in Task, v \in RemoteText :
          v # server[t].text /\ server' = [server EXCEPT ![t] = Wrote(@, v)]
    /\ UNCHANGED <<rows, Derived, snap, req, requests>>

\* The process dies.
Crash == /\ "crash" \in Allowed
         /\ \E h \in Handler : req[h].pc # "idle"
         /\ req' = [h \in Handler |-> NoRequest]
         /\ UNCHANGED <<server, rows, Derived, snap, requests, remoteWrites>>

Work(h) == \/ List(h) \/ Prepare(h) \/ Remote(h) \/ Mark(h)
           \/ DeleteUnusedLabel(h) \/ RenameUnusedLabel(h) \/ RenameLabelRow(h)

Next == \/ \E h \in Handler : StartLabel(h) \/ StartEdit(h) \/ StartUndo(h) \/ Work(h)
        \/ Scan \/ OtherClient \/ Crash

Spec == Init /\ [][Next]_vars

-----------------------------------------------------------------------------
TypeOK == /\ server \in [Task -> [text : Content, last : Nat]]
          /\ rows \in [Task -> Row]
          /\ name \in [Id -> Spelling \cup {None}]
          /\ tags \in [Task -> SUBSET Id]
          /\ issued \in 0 .. MaxId
          /\ loose \subseteq Task

\* The assignments say what the text says: the label page, the label list and
\* every rename go by task_labels.  Renames of whole labels, refusals,
\* failures half-way and scans keep that up, for every task that a writer
\* with syncTaskLabels has stored last, unless a label is renamed twice at a
\* time and ends with the older name.
AssignedAsWritten ==
    \A t \in Task \ loose :
        tags[t] = UNION {IdOf(k) : k \in Keys(rows[t].raw)}
        /\ \A k \in Keys(rows[t].raw) : IdOf(k) # {}

\* A rename goes by texts that it has read before its first write.  Whatever
\* has happened since: it never stores a text over one that it has not read.
ListedIsCurrent ==
    \A h \in Handler : \A l \in req[h].todo :
        rows[l.task].ver = l.ver => rows[l.task].raw = l.raw

\* LabelDelete "removes a label from all affected tasks": once a rename or a
\* deletion has taken the label's row away, no task names it any more, but for
\* those whose assignments a writer has left out (the setup, an undo, the
\* older of two renames).
GoneFromTasks ==
    [][\A i \in Live : name'[i] = None =>
          \A t \in Task \ loose : Fold[name[i]] \notin Keys(rows[t].raw)]_vars
=============================================================================
