--------------------------- MODULE TaskSync_proofs --------------------------
(***************************************************************************)
(* Proofs about TaskSync, for any number of handlers, tabs, fields, values *)
(* and requests.                                                           *)
(*                                                                         *)
(* The inductive invariant says of every handler that the row version it   *)
(* relies on is not newer than the row, and that while the row still has   *)
(* that version it has the text the handler knows.  It is preserved        *)
(* because no step changes the text of a row without a new version: this   *)
(* is Evolves, the one fact the handlers need to know of each other.       *)
(*                                                                         *)
(* That a conflict keeps its text is proved on top of that, from what the  *)
(* steps do to a row and its entries together.                             *)
(***************************************************************************)
EXTENDS TaskSync, Operators_proofs, SequenceTheorems

\* What a step may do to a row, and to the rows.
RowStep(old, new) == Store!Successor(Cell(old), Cell(new))

Evolves == /\ Len(rows') \in {Len(rows), Len(rows) + 1}
           /\ \A n \in DOMAIN rows : RowStep(rows[n], rows'[n])
           /\ \A n \in DOMAIN rows' \ DOMAIN rows :
                 rows'[n].ver = 1 /\ rows'[n].status # "absent"

-----------------------------------------------------------------------------
\* A snapshot that exists has a text.
SnapshotOK(s) == s.kind # "none" => s.raw \in Content

\* A handler between load and prepare has an edit of a text it knows.
PrepareOK(r) ==
    r.pc = "prepare" =>
        /\ r.op = "update"
        /\ r.base \in Content
        /\ r.raw = Patched(r.base, r.patch)
        /\ r.ver <= rows[r.n].ver
        /\ r.ver = rows[r.n].ver => rows[r.n].raw = r.base

OnServer == {"put", "delete", "get", "mark"}

Resolving == {"resolve", "split"}

\* A handler past its prepare transaction has a text in its row.
PendingOK(r) ==
    r.pc \in OnServer /\ r.op \notin Resolving =>
        /\ r.raw \in Content
        /\ r.ver <= rows[r.n].ver
        /\ r.ver = rows[r.n].ver => rows[r.n].raw = r.raw

\* The parts of a request that depend on its operation.
OperationOK(r) ==
    /\ r.pc # "idle" => r.n \in DOMAIN rows
    /\ r.pc = "delete" => r.op = "delete"
    /\ r.op \in {"update", "undo_update", "undo_delete"} => r.tab \in Tab
    /\ r.op \in {"update", "undo_update"} => r.base \in Content
    /\ r.op = "resolve" => r.raw \in Content
    /\ r.op \in Resolving /\ r.pc # "idle" =>
           r.conflict \in DOMAIN conflicts[r.n]

\* After a PUT the server's new version has the text that was put.
StoredOK(r) ==
    r.pc = "mark" /\ r.result = "ok" /\ r.op \in {"update", "undo_update", "resolve"} =>
        /\ r.newETag \in DOMAIN server
        /\ server[r.newETag].vtodo = r.raw

RequestOK(r) == PrepareOK(r) /\ PendingOK(r) /\ OperationOK(r) /\ StoredOK(r)

IInv == /\ TypeOK
        /\ \A tab \in Tab : SnapshotOK(undo[tab])
        /\ \A h \in Handler : RequestOK(req[h])

-----------------------------------------------------------------------------
(***************************************************************************)
(* Steps of rows.                                                          *)
(***************************************************************************)
\* Every operation on a row that is not gone keeps the text or takes a new
\* version.
LEMMA RowSteps ==
    ASSUME NEW row \in Row, NEW content, NEW etag \in Nat, NEW status,
           row.status # "absent"
    PROVE  /\ RowStep(row, Pending(row, content))
           /\ RowStep(row, [Pending(row, content) EXCEPT !.base = content])
           /\ RowStep(row, Synced(row, etag))
           /\ RowStep(row, [Synced(row, etag) EXCEPT !.raw = content])
           /\ RowStep(row, Imported(row, content, etag))
           /\ RowStep(row, Conflicted(row, etag))
           /\ RowStep(row, [row EXCEPT !.status = status])
<1> USE DEF Row
<1>1. /\ RowStep(row, Pending(row, content))
      /\ RowStep(row, [Pending(row, content) EXCEPT !.base = content])
  BY DEF RowStep, Store!Successor, Cell, Pending
<1>2. /\ RowStep(row, Synced(row, etag))
      /\ RowStep(row, [Synced(row, etag) EXCEPT !.raw = content])
  BY DEF RowStep, Store!Successor, Cell, Synced
<1>3. RowStep(row, Imported(row, content, etag))
  BY DEF RowStep, Store!Successor, Cell, Imported
<1>4. RowStep(row, Conflicted(row, etag))
  BY DEF RowStep, Store!Successor, Cell, Conflicted
<1>5. RowStep(row, [row EXCEPT !.status = status])
  <2> DEFINE new == [row EXCEPT !.status = status]
  <2>1. new.ver = row.ver /\ new.raw = row.raw /\ new.status = status
    OBVIOUS
  <2> SUFFICES RowStep(row, new)
    OBVIOUS
  <2> HIDE DEF new
  <2>2. CASE status = "absent"
    <3>1. Cell(new) = [ver |-> row.ver, raw |-> row.raw, state |-> "gone"]
      BY <2>1, <2>2 DEF Cell
    <3>2. Cell(row).ver = row.ver /\ Cell(row).raw = row.raw
      BY DEF Cell
    <3> QED
      BY <3>1, <3>2 DEF RowStep, Store!Successor
  <2>3. CASE status # "absent"
    <3>1. Cell(new) = Cell(row)
      BY <2>1, <2>3 DEF Cell
    <3> QED
      BY <3>1 DEF RowStep, Store!Successor
  <2> QED
    BY <2>2, <2>3
<1> QED
  BY <1>1, <1>2, <1>3, <1>4, <1>5

\* What a step means for a row's version and text.
LEMMA RowStepMeans ==
    ASSUME NEW old \in Row, NEW new \in Row, RowStep(old, new)
    PROVE  /\ new.ver \in {old.ver, old.ver + 1}
           /\ new.ver = old.ver => new.raw = old.raw
<1> DEFINE gone == [ver |-> Cell(old).ver, raw |-> Cell(old).raw, state |-> "gone"]
<1>1. /\ Cell(old).ver = old.ver /\ Cell(old).raw = old.raw
      /\ Cell(new).ver = new.ver /\ Cell(new).raw = new.raw
      /\ gone.ver = old.ver /\ gone.raw = old.raw
  BY DEF Cell
<1>2. \/ Cell(new) = Cell(old)
      \/ Cell(new).ver = Cell(old).ver + 1
      \/ Cell(new) = gone
  BY DEF RowStep, Store!Successor
<1>3. old.ver \in Nat /\ new.ver \in Nat
  BY DEF Row
<1> HIDE DEF gone
<1> QED
  BY <1>1, <1>2, <1>3

LEMMA SameIsStep == ASSUME NEW row \in Row PROVE RowStep(row, row)
BY DEF RowStep, Store!Successor, Cell, Row

\* What a scan makes of a row is a row, and a successor of it.
LEMMA AfterVerdictOK ==
    ASSUME NEW row \in Row, NEW etag \in Nat, NEW remote \in Text,
           NEW verdict \in {"keep", "import", "merge", "field_conflict",
                            "edit_delete", "delete"},
           verdict \in {"import", "merge"} => remote # NoText,
           row.status = "absent" => verdict = "keep"
    PROVE  /\ AfterVerdict(row, verdict, remote, etag) \in Row
           /\ RowStep(row, AfterVerdict(row, verdict, remote, etag))
<1>1. row.base \in Content /\ row.raw \in Content
  BY DEF Row
<1>2. CASE verdict = "keep"
  BY <1>2, SameIsStep DEF AfterVerdict
<1>3. CASE verdict = "import"
  BY <1>3, RowTypes, RowSteps, ContentText DEF AfterVerdict, SyncStatus
<1>4. CASE verdict = "merge"
  <2>1. MergedVTODO(row.base, row.raw, remote) \in Content
    BY <1>1, <1>4, MergedType, ContentText
  <2> QED
    BY <2>1, <1>4, RowTypes, RowSteps DEF AfterVerdict, SyncStatus
<1>5. CASE verdict = "field_conflict"
  BY <1>1, <1>5, RowTypes, RowSteps DEF AfterVerdict, SyncStatus
<1>6. CASE verdict = "edit_delete"
  BY <1>1, <1>6, RowTypes, RowSteps DEF AfterVerdict, SyncStatus
<1>7. CASE verdict = "delete"
  BY <1>1, <1>7, RowTypes, RowSteps DEF AfterVerdict, SyncStatus
<1> QED
  BY <1>2, <1>3, <1>4, <1>5, <1>6, <1>7

\* What a scan makes of the conflicts of a row.
LEMMA ConflictsAfterOK ==
    ASSUME NEW list \in Seq(Conflict), NEW row \in Row, NEW verdict,
           NEW remote \in Text
    PROVE  /\ ConflictsAfterVerdict(list, row, verdict, remote) \in Seq(Conflict)
           /\ DOMAIN list \subseteq
                 DOMAIN ConflictsAfterVerdict(list, row, verdict, remote)
<1> DEFINE c == NewConflict(verdict, row.base, row.raw,
                    IF verdict = "edit_delete" THEN NoText ELSE remote)
<1>1. CASE verdict \in {"field_conflict", "edit_delete"}
  <2>1. c \in Conflict
    BY <1>1 DEF NewConflict, Conflict, Row, Text
  <2> HIDE DEF c
  <2>2. ConflictsAfterVerdict(list, row, verdict, remote) = Append(list, c)
    BY <1>1 DEF ConflictsAfterVerdict, c
  <2>3. /\ Append(list, c) \in Seq(Conflict)
        /\ Len(Append(list, c)) = Len(list) + 1
    BY <2>1, AppendProperties
  <2> QED
    BY <2>2, <2>3, LenProperties
<1>2. CASE verdict \notin {"field_conflict", "edit_delete"}
  BY <1>2 DEF ConflictsAfterVerdict
<1> QED
  BY <1>1, <1>2

-----------------------------------------------------------------------------
(***************************************************************************)
(* What the parts of an action do to the variables they write.             *)
(***************************************************************************)
\* A row is replaced.
LEMMA SetRowOK ==
    ASSUME TypeOK, NEW n \in DOMAIN rows, NEW row \in Row,
           RowStep(rows[n], row), SetRow(n, row)
    PROVE  /\ rows' \in Seq(Row)
           /\ Len(rows') = Len(rows)
           /\ DOMAIN rows' = DOMAIN rows
           /\ Evolves
           /\ rows'[n] = row
<1>1. rows \in Seq(Row) /\ n \in 1..Len(rows) /\ rows' = [rows EXCEPT ![n] = row]
  BY LenProperties DEF TypeOK, SetRow
<1>2. /\ rows' \in Seq(Row)
      /\ Len(rows') = Len(rows)
      /\ \A j \in 1..Len(rows) : rows'[j] = IF j = n THEN row ELSE rows[j]
  BY <1>1, ExceptSeq
<1>3. DOMAIN rows = 1..Len(rows) /\ DOMAIN rows' = 1..Len(rows')
  BY <1>1, <1>2, LenProperties
<1>4. \A j \in DOMAIN rows : RowStep(rows[j], rows'[j])
  BY <1>1, <1>2, <1>3, SameIsStep, ElementOfSeq
<1> QED
  BY <1>1, <1>2, <1>3, <1>4, LenProperties DEF Evolves

\* A row is added.
LEMMA AddRowOK ==
    ASSUME TypeOK, NEW row \in Row, row.ver = 1, row.status # "absent",
           rows' = Append(rows, row)
    PROVE  /\ rows' \in Seq(Row)
           /\ Len(rows') = Len(rows) + 1
           /\ Len(rows) + 1 \in DOMAIN rows'
           /\ Evolves
           /\ rows'[Len(rows) + 1] = row
<1>1. rows \in Seq(Row) /\ Len(rows) \in Nat
  BY LenProperties DEF TypeOK
<1>2. /\ rows' \in Seq(Row)
      /\ Len(rows') = Len(rows) + 1
      /\ \A j \in 1..Len(rows) : rows'[j] = rows[j]
      /\ rows'[Len(rows) + 1] = row
  BY <1>1, AppendProperties
<1>3. DOMAIN rows = 1..Len(rows) /\ DOMAIN rows' = 1..Len(rows')
  BY <1>1, <1>2, LenProperties
<1>4. \A j \in DOMAIN rows : RowStep(rows[j], rows'[j])
  BY <1>1, <1>2, <1>3, SameIsStep, ElementOfSeq
<1> QED
  BY <1>1, <1>2, <1>3, <1>4 DEF Evolves

\* The rows stay.
LEMMA SameRowsOK ==
    ASSUME TypeOK, rows' = rows
    PROVE  rows' \in Seq(Row) /\ Len(rows') = Len(rows) /\ Evolves
BY SameIsStep, ElementOfSeq, LenProperties DEF TypeOK, Evolves

\* Versions of the server's object are never rewritten.
ServerGrows ==
    \A e \in DOMAIN server : e \in DOMAIN server' /\ server'[e] = server[e]

\* The server takes a text or a deletion.
LEMMA WrittenOK ==
    ASSUME TypeOK, NEW text \in Text, NEW who \in {"caldo", "other"},
           server' = Written(text, who)
    PROVE  /\ server' \in Seq(Version)
           /\ ServerGrows
           /\ Len(server) + 1 \in DOMAIN server'
           /\ server'[Len(server) + 1].vtodo = text
<1> DEFINE v == [vtodo |-> text, by |-> who]
<1>1. server \in Seq(Version) /\ v \in Version /\ server' = Append(server, v)
  BY DEF TypeOK, Version, Written
<1>2. v.vtodo = text
  OBVIOUS
<1> HIDE DEF v
<1>3. /\ server' \in Seq(Version)
      /\ Len(server') = Len(server) + 1
      /\ \A j \in 1..Len(server) : server'[j] = server[j]
      /\ server'[Len(server) + 1] = v
  BY <1>1, AppendProperties
<1>4. /\ DOMAIN server = 1..Len(server) /\ Len(server) \in Nat
      /\ DOMAIN server' = 1..Len(server')
  BY <1>1, <1>3, LenProperties
<1> QED
  BY <1>2, <1>3, <1>4 DEF ServerGrows

LEMMA SameServerOK ==
    ASSUME TypeOK, server' = server
    PROVE  server' \in Seq(Version) /\ ServerGrows
BY DEF TypeOK, ServerGrows

\* Entries of conflicts stay, and every row keeps its list.
ConflictsGrow ==
    \A n \in DOMAIN conflicts : /\ n \in DOMAIN conflicts'
                                /\ DOMAIN conflicts[n] \subseteq DOMAIN conflicts'[n]

LEMMA SetConflictsOK ==
    ASSUME TypeOK, NEW n \in DOMAIN conflicts, NEW list \in Seq(Conflict),
           DOMAIN conflicts[n] \subseteq DOMAIN list,
           conflicts' = [conflicts EXCEPT ![n] = list]
    PROVE  /\ conflicts' \in Seq(Seq(Conflict))
           /\ Len(conflicts') = Len(conflicts)
           /\ ConflictsGrow
<1>1. conflicts \in Seq(Seq(Conflict)) /\ n \in 1..Len(conflicts)
  BY LenProperties DEF TypeOK
<1>2. /\ conflicts' \in Seq(Seq(Conflict))
      /\ Len(conflicts') = Len(conflicts)
      /\ \A j \in 1..Len(conflicts) :
            conflicts'[j] = IF j = n THEN list ELSE conflicts[j]
  BY <1>1, ExceptSeq
<1>3. /\ DOMAIN conflicts = 1..Len(conflicts)
      /\ DOMAIN conflicts' = 1..Len(conflicts')
  BY <1>1, <1>2, LenProperties
<1> QED
  BY <1>2, <1>3 DEF ConflictsGrow

LEMMA SameConflictsOK ==
    ASSUME TypeOK, conflicts' = conflicts
    PROVE  /\ conflicts' \in Seq(Seq(Conflict))
           /\ Len(conflicts') = Len(conflicts)
           /\ ConflictsGrow
BY DEF TypeOK, ConflictsGrow

\* The lists of a row that is added.
LEMMA AddListOK ==
    ASSUME TypeOK, conflicts' = Append(conflicts, <<>>)
    PROVE  /\ conflicts' \in Seq(Seq(Conflict))
           /\ Len(conflicts') = Len(conflicts) + 1
           /\ ConflictsGrow
<1>1. conflicts \in Seq(Seq(Conflict)) /\ <<>> \in Seq(Conflict)
  BY EmptySeq DEF TypeOK
<1>2. /\ conflicts' \in Seq(Seq(Conflict))
      /\ Len(conflicts') = Len(conflicts) + 1
      /\ \A j \in 1..Len(conflicts) : conflicts'[j] = conflicts[j]
  BY <1>1, AppendProperties
<1>3. /\ DOMAIN conflicts = 1..Len(conflicts) /\ Len(conflicts) \in Nat
      /\ DOMAIN conflicts' = 1..Len(conflicts')
  BY <1>1, <1>2, LenProperties
<1> QED
  BY <1>2, <1>3 DEF ConflictsGrow

-----------------------------------------------------------------------------
(***************************************************************************)
(* A step of one handler, or of none, keeps the invariant if it keeps the  *)
(* types, lets rows, versions and conflicts only grow, and keeps the       *)
(* invariant of the handler itself.                                        *)
(***************************************************************************)
\* What everybody else may rely on.
Grows == Evolves /\ ServerGrows /\ ConflictsGrow

LEMMA OthersKeep ==
    ASSUME IInv, TypeOK', Grows, NEW h \in Handler, req'[h] = req[h]
    PROVE  RequestOK(req[h])'
<1> DEFINE r == req[h]
<1>1. r \in Request /\ RequestOK(r)
  BY DEF IInv, TypeOK
<1>2. /\ DOMAIN rows = 1..Len(rows) /\ DOMAIN rows' = 1..Len(rows')
      /\ \A n \in DOMAIN rows : rows[n] \in Row /\ rows'[n] \in Row
      /\ DOMAIN rows \subseteq DOMAIN rows'
  <2>1. rows \in Seq(Row) /\ rows' \in Seq(Row)
    BY DEF IInv, TypeOK
  <2>2. /\ DOMAIN rows = 1..Len(rows) /\ Len(rows) \in Nat
        /\ DOMAIN rows' = 1..Len(rows') /\ Len(rows') \in Nat
    BY <2>1, LenProperties
  <2>3. Len(rows') = Len(rows) \/ Len(rows') = Len(rows) + 1
    BY DEF Grows, Evolves
  <2>4. DOMAIN rows \subseteq DOMAIN rows'
    <3> DEFINE old == Len(rows)
               new == Len(rows')
    <3>1. old \in Nat /\ (new = old \/ new = old + 1)
      BY <2>2, <2>3
    <3>2. DOMAIN rows = 1..old /\ DOMAIN rows' = 1..new
      BY <2>2
    <3> HIDE DEF old, new
    <3> QED
      BY <3>1, <3>2
  <2>5. \A n \in DOMAIN rows : rows[n] \in Row
    BY <2>1, <2>2, ElementOfSeq
  <2>6. \A n \in DOMAIN rows' : rows'[n] \in Row
    BY <2>1, <2>2, ElementOfSeq
  <2> QED
    BY <2>2, <2>4, <2>5, <2>6
<1>3. \A n \in DOMAIN rows :
        /\ rows'[n].ver \in Nat /\ rows[n].ver \in Nat
        /\ rows'[n].ver >= rows[n].ver
        /\ rows'[n].ver = rows[n].ver => rows'[n].raw = rows[n].raw
  <2> SUFFICES ASSUME NEW n \in DOMAIN rows
               PROVE  /\ rows'[n].ver \in Nat /\ rows[n].ver \in Nat
                      /\ rows'[n].ver >= rows[n].ver
                      /\ rows'[n].ver = rows[n].ver => rows'[n].raw = rows[n].raw
    OBVIOUS
  <2>1. rows[n] \in Row /\ rows'[n] \in Row /\ RowStep(rows[n], rows'[n])
    BY <1>2 DEF Grows, Evolves
  <2>2. rows'[n].ver \in Nat /\ rows[n].ver \in Nat
    BY <2>1 DEF Row
  <2> QED
    BY <2>1, <2>2, RowStepMeans
<1>4. r.ver \in Nat /\ r.n \in Nat
  BY <1>1 DEF Request
<1>5. r.pc # "idle" => r.n \in DOMAIN rows
  BY <1>1 DEF RequestOK, OperationOK
<1>6. PrepareOK(req[h])'
  <2> SUFFICES ASSUME r.pc = "prepare" PROVE PrepareOK(req[h])'
    BY DEF PrepareOK
  <2> QED
    BY <1>1, <1>3, <1>4, <1>5 DEF RequestOK, PrepareOK
<1>7. PendingOK(req[h])'
  <2> SUFFICES ASSUME r.pc \in OnServer PROVE PendingOK(req[h])'
    BY DEF PendingOK
  <2> QED
    BY <1>1, <1>3, <1>4, <1>5 DEF RequestOK, PendingOK, OnServer
<1>8. OperationOK(req[h])'
  <2>1. r.op \in Resolving /\ r.pc # "idle" =>
          r.conflict \in DOMAIN conflicts'[r.n]
    <3>1. DOMAIN conflicts = DOMAIN rows
      BY <1>2, LenProperties DEF IInv, TypeOK
    <3> QED
      BY <1>1, <1>5, <3>1 DEF RequestOK, OperationOK, Grows, ConflictsGrow
  <2> QED
    BY <1>1, <1>2, <1>5, <2>1 DEF RequestOK, OperationOK
<1>9. StoredOK(req[h])'
  BY <1>1 DEF RequestOK, StoredOK, Grows, ServerGrows
<1> QED
  BY <1>6, <1>7, <1>8, <1>9 DEF RequestOK

\* What every step is shown to do.
Kept == IInv' /\ Evolves

LEMMA Assembled ==
    ASSUME IInv, TypeOK', Grows, NEW h \in Handler,
           \A g \in Handler \ {h} : req'[g] = req[g],
           RequestOK(req[h])',
           \A tab \in Tab : SnapshotOK(undo'[tab])
    PROVE  Kept
<1>1. \A g \in Handler \ {h} : RequestOK(req[g])'
  BY OthersKeep
<1>2. \A g \in Handler : RequestOK(req[g])'
  BY <1>1
<1> QED
  BY <1>2 DEF IInv, Kept, Grows

LEMMA ContinueOK ==
    ASSUME TypeOK, NEW h \in Handler, NEW r \in Request,
           req' = [req EXCEPT ![h] = r]
    PROVE  /\ req' \in [Handler -> Request]
           /\ req'[h] = r
           /\ \A g \in Handler \ {h} : req'[g] = req[g]
BY DEF TypeOK

LEMMA IdleOK == Idle \in Request /\ NoSnapshot \in Snapshot
<1>1. NoSnapshot \in Snapshot
  BY DEF NoSnapshot, Snapshot, Text
<1>2. NoPatch \in Patch
  BY DEF NoPatch, Patch
<1> QED
  BY <1>1, <1>2 DEF Idle, Request, Op, Text

LEMMA FinishOK ==
    ASSUME TypeOK, NEW h \in Handler, Finish(h)
    PROVE  /\ req' \in [Handler -> Request]
           /\ started' \in Nat
           /\ \A g \in Handler \ {h} : req'[g] = req[g]
           /\ RequestOK(req[h])'
<1>1. /\ req' \in [Handler -> Request]
      /\ req'[h] = Idle
      /\ \A g \in Handler \ {h} : req'[g] = req[g]
  BY IdleOK, ContinueOK DEF Finish, Continue
<1>2. RequestOK(req[h])'
  BY <1>1 DEF RequestOK, PrepareOK, PendingOK, OperationOK, StoredOK, Idle,
              OnServer, Resolving
<1> QED
  BY <1>1, <1>2 DEF Finish, Continue, TypeOK

\* A step that leaves everything to the handler.
LEMMA OnlyReqOK ==
    ASSUME IInv, UNCHANGED <<server, rows, conflicts, undo, scan>>,
           req' \in [Handler -> Request], started' \in Nat
    PROVE  TypeOK' /\ Grows /\ \A tab \in Tab : SnapshotOK(undo'[tab])
BY SameRowsOK, SameServerOK, SameConflictsOK DEF IInv, TypeOK, Grows

\* The rows that exist.
LEMMA LiveOK ==
    ASSUME TypeOK, NEW n \in Live
    PROVE  /\ n \in DOMAIN rows /\ n \in Nat /\ n \in DOMAIN conflicts
           /\ rows[n] \in Row
           /\ rows[n].ver \in Nat /\ rows[n].raw \in Content
           /\ rows[n].etag \in Nat /\ rows[n].status # "absent"
<1>1. /\ DOMAIN rows = 1..Len(rows) /\ DOMAIN conflicts = 1..Len(conflicts)
      /\ \A m \in DOMAIN rows : rows[m] \in Row
  BY LenProperties, ElementOfSeq DEF TypeOK
<1> QED
  BY <1>1 DEF Live, TypeOK, Row

-----------------------------------------------------------------------------
(***************************************************************************)
(* The actions, one by one.                                                *)
(***************************************************************************)
LEMMA UpdateLoadKeeps ==
    ASSUME IInv, NEW h \in Handler, UpdateLoad(h) PROVE Kept
<1>1. TypeOK
  BY DEF IInv
<1>2. PICK n \in Live, tab \in Tab, patch \in Patch \ {NoPatch} :
        /\ Begin(h, "update",
                 [Idle EXCEPT !.op = "update", !.pc = "prepare", !.tab = tab,
                              !.n = n, !.ver = rows[n].ver,
                              !.base = rows[n].raw, !.patch = patch,
                              !.raw = Patched(rows[n].raw, patch)])
        /\ UNCHANGED <<server, rows, conflicts, undo, scan>>
  BY DEF UpdateLoad
<1> DEFINE r == [Idle EXCEPT !.op = "update", !.pc = "prepare", !.tab = tab,
                             !.n = n, !.ver = rows[n].ver,
                             !.base = rows[n].raw, !.patch = patch,
                             !.raw = Patched(rows[n].raw, patch)]
<1>3. /\ rows[n].raw \in Content /\ rows[n].ver \in Nat
      /\ n \in Nat /\ n \in DOMAIN rows
  BY <1>1, LiveOK
<1>4. Patched(rows[n].raw, patch) \in Content
  BY <1>3, PatchedType
<1>5. r \in Request
  BY <1>3, <1>4, IdleOK, ContentText DEF Request, Op
<1>6. /\ r.op = "update" /\ r.pc = "prepare" /\ r.tab = tab /\ r.n = n
      /\ r.ver = rows[n].ver /\ r.base = rows[n].raw /\ r.patch = patch
      /\ r.raw = Patched(rows[n].raw, patch)
  BY IdleOK DEF Request
<1> HIDE DEF r
<1>7. /\ req' \in [Handler -> Request] /\ req'[h] = r
      /\ \A g \in Handler \ {h} : req'[g] = req[g]
      /\ started' \in Nat
  BY <1>1, <1>2, <1>5, ContinueOK DEF Begin, r, TypeOK
<1>8. RequestOK(req[h])'
  BY <1>2, <1>3, <1>6, <1>7
     DEF RequestOK, PrepareOK, PendingOK, OperationOK, StoredOK, OnServer, Resolving
<1> QED
  BY <1>2, <1>7, <1>8, OnlyReqOK, Assembled

\* The facts about one handler that its actions start from.
LEMMA HandlerOK ==
    ASSUME IInv, NEW h \in Handler
    PROVE  /\ TypeOK
           /\ req[h] \in Request
           /\ PrepareOK(req[h]) /\ PendingOK(req[h])
           /\ OperationOK(req[h]) /\ StoredOK(req[h])
           /\ req[h].n \in Nat /\ req[h].ver \in Nat
           /\ \A n \in DOMAIN rows : rows[n] \in Row
           /\ DOMAIN conflicts = DOMAIN rows
<1>1. TypeOK /\ req[h] \in Request /\ RequestOK(req[h])
  BY DEF IInv, TypeOK
<1>2. /\ \A n \in DOMAIN rows : rows[n] \in Row
      /\ DOMAIN conflicts = DOMAIN rows
  BY <1>1, LenProperties, ElementOfSeq DEF TypeOK
<1> QED
  BY <1>1, <1>2 DEF RequestOK, Request

LEMMA SnapshotOfOK ==
    ASSUME TypeOK, NEW n \in Live, NEW kind \in {"task_updated", "task_deleted"}
    PROVE  SnapshotOf(n, kind) \in Snapshot /\ SnapshotOK(SnapshotOf(n, kind))
<1>1. /\ n \in Nat /\ rows[n].ver \in Nat /\ rows[n].raw \in Content
      /\ rows[n].etag \in Nat
  BY LiveOK
<1> QED
  BY <1>1, ContentText DEF SnapshotOf, Snapshot, SnapshotOK

\* A handler that ends.
LEMMA FinishKeeps ==
    ASSUME IInv, NEW h \in Handler, Finish(h),
           UNCHANGED <<server, rows, conflicts, undo, scan>>
    PROVE  Kept
BY FinishOK, OnlyReqOK, Assembled DEF IInv

LEMMA UpdatePrepareKeeps ==
    ASSUME IInv, NEW h \in Handler, UpdatePrepare(h) PROVE Kept
<1> DEFINE r == req[h]
           row == Pending(rows[r.n], r.raw)
           next == [r EXCEPT !.pc = "put", !.ver = @ + 1, !.tries = 1,
                             !.etag = rows[r.n].etag]
           s == SnapshotOf(r.n, "task_updated")
<1>1. /\ r.pc = "prepare" /\ RowAsExpected(h)
      /\ undo' = [undo EXCEPT ![r.tab] = s]
      /\ SetRow(r.n, row) /\ Continue(h, next)
      /\ UNCHANGED <<server, conflicts, scan>>
  BY DEF UpdatePrepare
<1>2. /\ r \in Request /\ r.op = "update" /\ r.tab \in Tab /\ r.base \in Content
      /\ r.patch \in Patch /\ r.raw = Patched(r.base, r.patch) /\ r.ver \in Nat
      /\ TypeOK
  BY <1>1, HandlerOK DEF PrepareOK, OperationOK, Request
<1>3. r.raw \in Content
  BY <1>2, PatchedType
<1>4. /\ r.n \in Live /\ r.n \in DOMAIN rows /\ rows[r.n] \in Row
      /\ rows[r.n].status # "absent" /\ rows[r.n].etag \in Nat
      /\ rows[r.n].ver = r.ver
  BY <1>1, <1>2, LiveOK DEF RowAsExpected
<1>5. row \in Row /\ RowStep(rows[r.n], row)
  BY <1>3, <1>4, RowTypes, RowSteps DEF SyncStatus
<1>6. row.raw = r.raw /\ row.ver = r.ver + 1 /\ r.ver + 1 \in Nat
  BY <1>2, <1>4 DEF Pending, Row
<1>7. next \in Request
  BY <1>2, <1>4, <1>6 DEF Request
<1>8. /\ next.pc = "put" /\ next.op = "update" /\ next.n = r.n /\ next.ver = r.ver + 1
      /\ next.raw = r.raw /\ next.tab = r.tab /\ next.base = r.base
  BY <1>2 DEF Request
<1>9. s \in Snapshot /\ SnapshotOK(s)
  BY <1>2, <1>4, SnapshotOfOK
<1> HIDE DEF row, next, s
<1>10. /\ undo' \in [Tab -> Snapshot]
       /\ \A tab \in Tab : SnapshotOK(undo'[tab])
  BY <1>1, <1>2, <1>9 DEF IInv, TypeOK
<1>11. /\ rows' \in Seq(Row) /\ Len(rows') = Len(rows) /\ DOMAIN rows' = DOMAIN rows
       /\ Evolves /\ rows'[r.n] = row
  BY <1>1, <1>2, <1>4, <1>5, SetRowOK
<1>12. /\ req' \in [Handler -> Request] /\ req'[h] = next
       /\ \A g \in Handler \ {h} : req'[g] = req[g]
       /\ started' \in Nat
  BY <1>1, <1>2, <1>7, ContinueOK DEF Continue, TypeOK
<1>13. TypeOK' /\ Grows
  <2>1. ServerGrows /\ ConflictsGrow
    BY <1>1, <1>2, <1>11, SameServerOK, SameConflictsOK
  <2>2. TypeOK'
    BY <1>1, <1>2, <1>10, <1>11, <1>12 DEF TypeOK
  <2> QED
    BY <1>11, <2>1, <2>2 DEF Grows
<1>14. RequestOK(req[h])'
  BY <1>2, <1>3, <1>4, <1>6, <1>8, <1>11, <1>12
     DEF RequestOK, PrepareOK, PendingOK, OperationOK, StoredOK, OnServer, Resolving
<1> QED
  BY <1>10, <1>12, <1>13, <1>14, Assembled

LEMMA CreateInsertKeeps ==
    ASSUME IInv, NEW h \in Handler, CreateInsert(h) PROVE Kept
<1>1. TypeOK
  BY DEF IInv
<1>2. PICK content \in Content :
        /\ rows = <<>>
        /\ rows' = <<PendingRow(content)>>
        /\ conflicts' = << <<>> >>
        /\ Begin(h, "create",
                 [Idle EXCEPT !.op = "create", !.pc = "put", !.n = 1,
                              !.ver = 1, !.raw = content, !.tries = 1])
        /\ UNCHANGED <<server, undo, scan>>
  BY DEF CreateInsert
<1> DEFINE r == [Idle EXCEPT !.op = "create", !.pc = "put", !.n = 1,
                             !.ver = 1, !.raw = content, !.tries = 1]
           row == PendingRow(content)
<1>3. row \in Row /\ row.ver = 1 /\ row.raw = content /\ row.status # "absent"
  BY DEF PendingRow, Row, SyncStatus
<1>4. r \in Request
  BY IdleOK, ContentText DEF Request, Op
<1>5. r.op = "create" /\ r.pc = "put" /\ r.n = 1 /\ r.ver = 1 /\ r.raw = content
  BY IdleOK DEF Request
<1> HIDE DEF r, row
<1>6. /\ req' \in [Handler -> Request] /\ req'[h] = r
      /\ \A g \in Handler \ {h} : req'[g] = req[g]
      /\ started' \in Nat
  BY <1>1, <1>2, <1>4, ContinueOK DEF Begin, r, TypeOK
<1>7. Len(rows) = 0 /\ rows' = Append(rows, row)
  BY <1>2 DEF row
<1>8. /\ rows' \in Seq(Row) /\ Len(rows') = Len(rows) + 1
      /\ 1 \in DOMAIN rows' /\ Evolves /\ rows'[1] = row
  BY <1>1, <1>3, <1>7, AddRowOK
<1>9. conflicts = <<>>
  BY <1>1, <1>7, EmptySeq DEF TypeOK
<1>10. conflicts' = Append(conflicts, <<>>)
  BY <1>2, <1>9
<1>11. /\ conflicts' \in Seq(Seq(Conflict)) /\ Len(conflicts') = Len(conflicts) + 1
       /\ ConflictsGrow
  BY <1>1, <1>10, AddListOK
<1>12. TypeOK' /\ Grows
  BY <1>1, <1>2, <1>6, <1>8, <1>11, SameServerOK DEF TypeOK, Grows
<1>13. RequestOK(req[h])'
  BY <1>3, <1>5, <1>6, <1>8
     DEF RequestOK, PrepareOK, PendingOK, OperationOK, StoredOK, OnServer, Resolving
<1> QED
  BY <1>2, <1>6, <1>12, <1>13, Assembled DEF IInv

\* A request that begins with a transaction on one live row.
LEMMA BeginOnRowKeeps ==
    ASSUME IInv, NEW h \in Handler, NEW n \in Live, NEW row \in Row,
           NEW r \in Request, NEW behaviour,
           Begin(h, behaviour, r), SetRow(n, row), RowStep(rows[n], row),
           UNCHANGED <<server, conflicts, scan>>,
           undo' \in [Tab -> Snapshot], \A tab \in Tab : SnapshotOK(undo'[tab]),
           r.op \in {"delete", "undo_update", "undo_delete"},
           r.pc \in {"put", "delete"}, r.pc = "delete" => r.op = "delete",
           r.n = n, r.ver = row.ver, r.raw = row.raw,
           r.op \in {"undo_update", "undo_delete"} => r.tab \in Tab,
           r.op = "undo_update" => r.base \in Content
    PROVE  Kept
<1>1. TypeOK /\ n \in DOMAIN rows
  BY LiveOK DEF IInv
<1>2. /\ rows' \in Seq(Row) /\ Len(rows') = Len(rows) /\ DOMAIN rows' = DOMAIN rows
      /\ Evolves /\ rows'[n] = row
  BY <1>1, SetRowOK
<1>3. /\ req' \in [Handler -> Request] /\ req'[h] = r
      /\ \A g \in Handler \ {h} : req'[g] = req[g]
      /\ started' \in Nat
  BY <1>1, ContinueOK DEF Begin, TypeOK
<1>4. TypeOK' /\ Grows
  BY <1>1, <1>2, <1>3, SameServerOK, SameConflictsOK DEF TypeOK, Grows
<1>5. row.raw \in Content /\ row.ver \in Nat
  BY DEF Row
<1>6. RequestOK(req[h])'
  BY <1>1, <1>2, <1>3, <1>5
     DEF RequestOK, PrepareOK, PendingOK, OperationOK, StoredOK, OnServer, Resolving
<1> QED
  BY <1>3, <1>4, <1>6, Assembled

LEMMA DeletePrepareKeeps ==
    ASSUME IInv, NEW h \in Handler, DeletePrepare(h) PROVE Kept
<1>1. TypeOK
  BY DEF IInv
<1>2. PICK n \in Live, tab \in Tab :
        /\ Begin(h, "delete",
                 [Idle EXCEPT !.op = "delete", !.pc = "delete", !.n = n,
                              !.ver = rows[n].ver + 1, !.raw = rows[n].raw,
                              !.etag = rows[n].etag, !.tries = 1])
        /\ undo' = [undo EXCEPT ![tab] = SnapshotOf(n, "task_deleted")]
        /\ SetRow(n, Pending(rows[n], rows[n].raw))
        /\ UNCHANGED <<server, conflicts, scan>>
  BY DEF DeletePrepare
<1> DEFINE r == [Idle EXCEPT !.op = "delete", !.pc = "delete", !.n = n,
                             !.ver = rows[n].ver + 1, !.raw = rows[n].raw,
                             !.etag = rows[n].etag, !.tries = 1]
           row == Pending(rows[n], rows[n].raw)
           s == SnapshotOf(n, "task_deleted")
<1>3. /\ n \in Nat /\ rows[n] \in Row /\ rows[n].raw \in Content
      /\ rows[n].etag \in Nat /\ rows[n].ver + 1 \in Nat
      /\ rows[n].status # "absent"
  BY <1>1, LiveOK
<1>4. row \in Row /\ RowStep(rows[n], row)
  BY <1>3, RowTypes, RowSteps DEF SyncStatus
<1>5. row.ver = rows[n].ver + 1 /\ row.raw = rows[n].raw
  BY <1>3 DEF Pending, Row
<1>6. r \in Request
  BY <1>3, IdleOK, ContentText DEF Request, Op
<1>7. /\ r.op = "delete" /\ r.pc = "delete" /\ r.n = n
      /\ r.ver = rows[n].ver + 1 /\ r.raw = rows[n].raw
  BY IdleOK DEF Request
<1>8. s \in Snapshot /\ SnapshotOK(s)
  BY <1>1, SnapshotOfOK
<1>9. Begin(h, "delete", r) /\ SetRow(n, row) /\ undo' = [undo EXCEPT ![tab] = s]
  BY <1>2
<1> HIDE DEF r, row, s
<1>10. /\ undo' \in [Tab -> Snapshot]
       /\ \A t \in Tab : SnapshotOK(undo'[t])
  BY <1>1, <1>8, <1>9 DEF IInv, TypeOK
<1> QED
  BY <1>2, <1>4, <1>5, <1>6, <1>7, <1>9, <1>10, BeginOnRowKeeps

LEMMA UndoUpdatePrepareKeeps ==
    ASSUME IInv, NEW h \in Handler, UndoUpdatePrepare(h) PROVE Kept
<1>1. TypeOK
  BY DEF IInv
<1>2. PICK tab \in Tab :
        /\ undo[tab].kind = "task_updated"
        /\ undo[tab].n \in Live
        /\ Begin(h, "undo",
                 [Idle EXCEPT !.op = "undo_update", !.pc = "put", !.tab = tab,
                              !.n = undo[tab].n, !.ver = rows[undo[tab].n].ver + 1,
                              !.base = undo[tab].raw, !.raw = undo[tab].raw,
                              !.snapshot = undo[tab],
                              !.etag = rows[undo[tab].n].etag, !.tries = 1])
        /\ SetRow(undo[tab].n, Pending(rows[undo[tab].n], undo[tab].raw))
        /\ UNCHANGED <<server, conflicts, undo, scan>>
  BY DEF UndoUpdatePrepare
<1> DEFINE s == undo[tab]
           n == s.n
           r == [Idle EXCEPT !.op = "undo_update", !.pc = "put", !.tab = tab,
                             !.n = n, !.ver = rows[n].ver + 1,
                             !.base = s.raw, !.raw = s.raw, !.snapshot = s,
                             !.etag = rows[n].etag, !.tries = 1]
           row == Pending(rows[n], s.raw)
<1>3. s \in Snapshot /\ s.raw \in Content
  BY <1>1, <1>2 DEF IInv, TypeOK, SnapshotOK
<1>4. /\ n \in Live /\ n \in Nat /\ rows[n] \in Row
      /\ rows[n].etag \in Nat /\ rows[n].ver + 1 \in Nat
      /\ rows[n].status # "absent"
  BY <1>1, <1>2, LiveOK
<1>5. row \in Row /\ RowStep(rows[n], row)
  BY <1>3, <1>4, RowTypes, RowSteps DEF SyncStatus
<1>6. row.ver = rows[n].ver + 1 /\ row.raw = s.raw
  BY <1>4 DEF Pending, Row
<1>7. r \in Request
  BY <1>3, <1>4, IdleOK, ContentText DEF Request, Op
<1>8. /\ r.op = "undo_update" /\ r.pc = "put" /\ r.n = n /\ r.tab = tab
      /\ r.ver = rows[n].ver + 1 /\ r.raw = s.raw /\ r.base = s.raw
  BY IdleOK DEF Request
<1>9. Begin(h, "undo", r) /\ SetRow(n, row) /\ UNCHANGED <<server, conflicts, undo, scan>>
  BY <1>2
<1> HIDE DEF r, row, s
<1>10. undo' \in [Tab -> Snapshot] /\ \A t \in Tab : SnapshotOK(undo'[t])
  BY <1>1, <1>9 DEF IInv, TypeOK
<1> QED
  BY <1>3, <1>4, <1>5, <1>6, <1>7, <1>8, <1>9, <1>10, BeginOnRowKeeps

LEMMA UndoDeleteReuseKeeps ==
    ASSUME IInv, NEW h \in Handler, UndoDeleteReuse(h) PROVE Kept
<1>1. TypeOK
  BY DEF IInv
<1>2. PICK tab \in Tab, n \in Reusable :
        /\ undo[tab].kind = "task_deleted"
        /\ UndoDelete(h, tab, n, rows[n].ver + 1)
        /\ SetRow(n, [Pending(rows[n], undo[tab].raw)
                         EXCEPT !.base = undo[tab].raw])
        /\ UNCHANGED <<server, conflicts, undo, scan>>
  BY DEF UndoDeleteReuse
<1> DEFINE s == undo[tab]
           r == [Idle EXCEPT !.op = "undo_delete", !.pc = "put", !.tab = tab,
                             !.n = n, !.ver = rows[n].ver + 1, !.raw = s.raw,
                             !.snapshot = s, !.tries = 1]
           row == [Pending(rows[n], s.raw) EXCEPT !.base = s.raw]
<1>3. s \in Snapshot /\ s.raw \in Content
  BY <1>1, <1>2 DEF IInv, TypeOK, SnapshotOK
<1>4. n \in Live
  BY DEF Reusable
<1>5. /\ n \in Nat /\ rows[n] \in Row /\ rows[n].ver + 1 \in Nat
      /\ rows[n].status # "absent"
  BY <1>1, <1>4, LiveOK
<1>6. row \in Row /\ RowStep(rows[n], row)
  BY <1>3, <1>5, RowTypes, RowSteps DEF SyncStatus
<1>7. row.ver = rows[n].ver + 1 /\ row.raw = s.raw
  BY <1>5 DEF Pending, Row
<1>8. r \in Request
  BY <1>3, <1>5, IdleOK, ContentText DEF Request, Op
<1>9. /\ r.op = "undo_delete" /\ r.pc = "put" /\ r.n = n /\ r.tab = tab
      /\ r.ver = rows[n].ver + 1 /\ r.raw = s.raw
  BY IdleOK DEF Request
<1>10. Begin(h, "undo", r) /\ SetRow(n, row) /\ UNCHANGED <<server, conflicts, undo, scan>>
  BY <1>2 DEF UndoDelete
<1> HIDE DEF r, row, s
<1>11. undo' \in [Tab -> Snapshot] /\ \A t \in Tab : SnapshotOK(undo'[t])
  BY <1>1, <1>10 DEF IInv, TypeOK
<1> QED
  BY <1>4, <1>6, <1>7, <1>8, <1>9, <1>10, <1>11, BeginOnRowKeeps

LEMMA UndoDeleteInsertKeeps ==
    ASSUME IInv, NEW h \in Handler, UndoDeleteInsert(h) PROVE Kept
<1>1. TypeOK
  BY DEF IInv
<1>2. PICK tab \in Tab :
        /\ undo[tab].kind = "task_deleted"
        /\ UndoDelete(h, tab, Len(rows) + 1, 1)
        /\ rows' = Append(rows, PendingRow(undo[tab].raw))
        /\ conflicts' = Append(conflicts, <<>>)
        /\ UNCHANGED <<server, undo, scan>>
  BY DEF UndoDeleteInsert
<1> DEFINE s == undo[tab]
           n == Len(rows) + 1
           r == [Idle EXCEPT !.op = "undo_delete", !.pc = "put", !.tab = tab,
                             !.n = n, !.ver = 1, !.raw = s.raw,
                             !.snapshot = s, !.tries = 1]
           row == PendingRow(s.raw)
<1>3. s \in Snapshot /\ s.raw \in Content
  BY <1>1, <1>2 DEF IInv, TypeOK, SnapshotOK
<1>4. n \in Nat
  BY <1>1, LenProperties DEF TypeOK
<1>5. row \in Row /\ row.ver = 1 /\ row.raw = s.raw /\ row.status # "absent"
  BY <1>3 DEF PendingRow, Row, SyncStatus
<1>6. r \in Request
  BY <1>3, <1>4, IdleOK, ContentText DEF Request, Op
<1>7. /\ r.op = "undo_delete" /\ r.pc = "put" /\ r.n = n /\ r.tab = tab
      /\ r.ver = 1 /\ r.raw = s.raw
  BY IdleOK DEF Request
<1>8. /\ started' = started + 1 /\ req' = [req EXCEPT ![h] = r]
      /\ rows' = Append(rows, row)
  BY <1>2 DEF UndoDelete, Begin
<1> HIDE DEF r, row, s
<1>9. /\ req' \in [Handler -> Request] /\ req'[h] = r
      /\ \A g \in Handler \ {h} : req'[g] = req[g]
      /\ started' \in Nat
  BY <1>1, <1>6, <1>8, ContinueOK DEF TypeOK
<1>10. /\ rows' \in Seq(Row) /\ Len(rows') = Len(rows) + 1
       /\ n \in DOMAIN rows' /\ Evolves /\ rows'[n] = row
  BY <1>1, <1>5, <1>8, AddRowOK
<1>11. /\ conflicts' \in Seq(Seq(Conflict)) /\ Len(conflicts') = Len(conflicts) + 1
       /\ ConflictsGrow
  BY <1>1, <1>2, AddListOK
<1>12. TypeOK' /\ Grows
  BY <1>1, <1>2, <1>9, <1>10, <1>11, SameServerOK DEF TypeOK, Grows
<1>13. RequestOK(req[h])'
  <2> HIDE DEF n
  <2> QED
    BY <1>3, <1>5, <1>7, <1>9, <1>10
       DEF RequestOK, PrepareOK, PendingOK, OperationOK, StoredOK, OnServer, Resolving
<1> QED
  BY <1>2, <1>9, <1>12, <1>13, Assembled DEF IInv

\* The texts a resolution can choose.
LEMMA ResolutionsType ==
    ASSUME NEW c \in Conflict PROVE Resolutions(c) \subseteq Content
BY ContentText DEF Resolutions, Manual, Conflict

\* The entries of a row.
LEMMA EntryType ==
    ASSUME TypeOK, NEW n \in DOMAIN conflicts, NEW k \in DOMAIN conflicts[n]
    PROVE  conflicts[n] \in Seq(Conflict) /\ conflicts[n][k] \in Conflict /\ k \in Nat
<1>1. conflicts[n] \in Seq(Conflict)
  BY LenProperties, ElementOfSeq DEF TypeOK
<1>2. DOMAIN conflicts[n] = 1..Len(conflicts[n]) /\ Len(conflicts[n]) \in Nat
  BY <1>1, LenProperties
<1> QED
  BY <1>1, <1>2, ElementOfSeq

\* A request that begins by reading a conflict.
LEMMA BeginOnConflictKeeps ==
    ASSUME IInv, NEW h \in Handler, NEW n \in Live, NEW k \in DOMAIN conflicts[n],
           NEW r \in Request, NEW behaviour, Begin(h, behaviour, r),
           r.op \in Resolving, r.pc \in {"put", "mark"}, r.n = n, r.conflict = k,
           r.op = "resolve" => r.raw \in Content /\ r.pc = "put",
           UNCHANGED <<server, rows, conflicts, undo, scan>>
    PROVE  Kept
<1>1. TypeOK /\ n \in DOMAIN rows
  BY LiveOK DEF IInv
<1>2. /\ req' \in [Handler -> Request] /\ req'[h] = r
      /\ \A g \in Handler \ {h} : req'[g] = req[g]
      /\ started' \in Nat
  BY <1>1, ContinueOK DEF Begin, TypeOK
<1>3. RequestOK(req[h])'
  BY <1>1, <1>2
     DEF RequestOK, PrepareOK, PendingOK, OperationOK, StoredOK, OnServer, Resolving
<1> QED
  BY <1>2, <1>3, OnlyReqOK, Assembled

LEMMA ResolveLoadKeeps ==
    ASSUME IInv, NEW h \in Handler, ResolveLoad(h) PROVE Kept
<1>1. TypeOK
  BY DEF IInv
<1>2. PICK n \in Live : \E k \in DOMAIN conflicts[n] :
        \E text \in Resolutions(conflicts[n][k]) :
            /\ Begin(h, "resolve",
                     [Idle EXCEPT !.op = "resolve", !.pc = "put", !.n = n,
                                  !.ver = rows[n].ver, !.etag = rows[n].etag,
                                  !.raw = text, !.conflict = k, !.tries = 1])
            /\ UNCHANGED <<server, rows, conflicts, undo, scan>>
  BY DEF ResolveLoad
<1>3. PICK k \in DOMAIN conflicts[n] :
        \E text \in Resolutions(conflicts[n][k]) :
            /\ Begin(h, "resolve",
                     [Idle EXCEPT !.op = "resolve", !.pc = "put", !.n = n,
                                  !.ver = rows[n].ver, !.etag = rows[n].etag,
                                  !.raw = text, !.conflict = k, !.tries = 1])
            /\ UNCHANGED <<server, rows, conflicts, undo, scan>>
  BY <1>2
<1>4. PICK text \in Resolutions(conflicts[n][k]) :
        /\ Begin(h, "resolve",
                 [Idle EXCEPT !.op = "resolve", !.pc = "put", !.n = n,
                              !.ver = rows[n].ver, !.etag = rows[n].etag,
                              !.raw = text, !.conflict = k, !.tries = 1])
        /\ UNCHANGED <<server, rows, conflicts, undo, scan>>
  BY <1>3
<1> DEFINE r == [Idle EXCEPT !.op = "resolve", !.pc = "put", !.n = n,
                             !.ver = rows[n].ver, !.etag = rows[n].etag,
                             !.raw = text, !.conflict = k, !.tries = 1]
<1>5. /\ n \in DOMAIN conflicts /\ n \in Nat
      /\ rows[n].ver \in Nat /\ rows[n].etag \in Nat
  BY <1>1, LiveOK
<1>6. k \in Nat /\ text \in Content
  BY <1>1, <1>5, EntryType, ResolutionsType
<1>7. r \in Request
  BY <1>5, <1>6, IdleOK, ContentText DEF Request, Op
<1>8. /\ r.op = "resolve" /\ r.pc = "put" /\ r.n = n /\ r.conflict = k /\ r.raw = text
  BY IdleOK DEF Request
<1>9. Begin(h, "resolve", r)
  BY <1>4
<1> HIDE DEF r
<1> QED
  BY <1>4, <1>6, <1>7, <1>8, <1>9, BeginOnConflictKeeps DEF Resolving

LEMMA SplitLoadKeeps ==
    ASSUME IInv, NEW h \in Handler, SplitLoad(h) PROVE Kept
<1>1. TypeOK
  BY DEF IInv
<1>2. PICK n \in Live : \E k \in DOMAIN conflicts[n] :
        /\ Begin(h, "split",
                 [Idle EXCEPT !.op = "split", !.pc = "mark", !.n = n,
                              !.ver = rows[n].ver, !.conflict = k,
                              !.result = "ok"])
        /\ UNCHANGED <<server, rows, conflicts, undo, scan>>
  BY DEF SplitLoad
<1>3. PICK k \in DOMAIN conflicts[n] :
        /\ Begin(h, "split",
                 [Idle EXCEPT !.op = "split", !.pc = "mark", !.n = n,
                              !.ver = rows[n].ver, !.conflict = k,
                              !.result = "ok"])
        /\ UNCHANGED <<server, rows, conflicts, undo, scan>>
  BY <1>2
<1> DEFINE r == [Idle EXCEPT !.op = "split", !.pc = "mark", !.n = n,
                             !.ver = rows[n].ver, !.conflict = k, !.result = "ok"]
<1>4. /\ n \in DOMAIN conflicts /\ n \in Nat /\ rows[n].ver \in Nat
  BY <1>1, LiveOK
<1>5. k \in Nat
  BY <1>1, <1>4, EntryType
<1>6. r \in Request
  BY <1>4, <1>5, IdleOK DEF Request, Op
<1>7. r.op = "split" /\ r.pc = "mark" /\ r.n = n /\ r.conflict = k
  BY IdleOK DEF Request
<1>8. Begin(h, "split", r)
  BY <1>3
<1> HIDE DEF r
<1> QED
  BY <1>3, <1>6, <1>7, <1>8, BeginOnConflictKeeps DEF Resolving

-----------------------------------------------------------------------------
\* What the server holds now.
LEMMA CurrentType ==
    ASSUME TypeOK PROVE CurrentVTODO \in Text /\ CurrentETag \in Nat
<1>1. server \in Seq(Version) /\ Len(server) \in Nat
  BY LenProperties DEF TypeOK
<1>2. CASE server = <<>>
  BY <1>2 DEF CurrentVTODO, CurrentETag, Text
<1>3. CASE server # <<>>
  <2>1. Len(server) \in 1..Len(server)
    BY <1>1, <1>3, EmptySeq
  <2>2. server[Len(server)] \in Version
    BY <1>1, <2>1, ElementOfSeq
  <2> QED
    BY <1>1, <1>3, <2>2 DEF CurrentVTODO, CurrentETag, Version
<1> QED
  BY <1>2, <1>3

\* The server changes or not, and the database does not.
LEMMA ServerStepOK ==
    ASSUME IInv, server' \in Seq(Version), ServerGrows,
           UNCHANGED <<rows, conflicts, undo, scan>>,
           req' \in [Handler -> Request], started' \in Nat
    PROVE  TypeOK' /\ Grows /\ \A tab \in Tab : SnapshotOK(undo'[tab])
BY SameRowsOK, SameConflictsOK DEF IInv, TypeOK, Grows

\* A handler goes on after its CalDAV request; next is what it knows then.
LEMMA AnsweredKeeps ==
    ASSUME IInv, NEW h \in Handler, NEW next \in Request,
           req[h].pc \in {"put", "delete", "get"},
           next.pc \in {"put", "delete", "get", "mark"},
           next.pc = "delete" => next.op = "delete",
           next.op = req[h].op, next.n = req[h].n, next.ver = req[h].ver,
           next.raw = req[h].raw, next.base = req[h].base, next.tab = req[h].tab,
           next.conflict = req[h].conflict,
           next.pc = "mark" /\ next.result = "ok"
             /\ next.op \in {"update", "undo_update", "resolve"} =>
               next.newETag \in DOMAIN server' /\ server'[next.newETag].vtodo = next.raw,
           Continue(h, next),
           server' \in Seq(Version), ServerGrows,
           UNCHANGED <<rows, conflicts, undo, scan>>
    PROVE  Kept
<1>1. TypeOK
  BY DEF IInv
<1>2. /\ req' \in [Handler -> Request] /\ req'[h] = next
      /\ \A g \in Handler \ {h} : req'[g] = req[g]
      /\ started' \in Nat
  BY <1>1, ContinueOK DEF Continue, TypeOK
<1>3. RequestOK(req[h])'
  BY <1>2, HandlerOK
     DEF RequestOK, PrepareOK, PendingOK, OperationOK, StoredOK, OnServer, Resolving
<1> QED
  BY <1>2, <1>3, ServerStepOK, Assembled

\* A handler ends after its CalDAV request.
LEMMA FinishOnServerKeeps ==
    ASSUME IInv, NEW h \in Handler, Finish(h),
           server' \in Seq(Version), ServerGrows,
           UNCHANGED <<rows, conflicts, undo, scan>>
    PROVE  Kept
BY FinishOK, ServerStepOK, Assembled DEF IInv

LEMMA NoAnswerKeeps ==
    ASSUME IInv, NEW h \in Handler, req[h].pc \in {"put", "delete"}, NoAnswer(h),
           server' \in Seq(Version), ServerGrows,
           UNCHANGED <<rows, conflicts, undo, scan>>
    PROVE  Kept
<1> DEFINE r == req[h]
<1>1. r \in Request /\ r.tries + 1 \in Nat /\ (r.pc = "delete" => r.op = "delete")
  BY HandlerOK DEF Request, OperationOK
<1>2. CASE Continue(h, [r EXCEPT !.tries = @ + 1])
  <2> DEFINE next == [r EXCEPT !.tries = @ + 1]
  <2>1. next \in Request
    BY <1>1 DEF Request
  <2>2. /\ next.pc = r.pc /\ next.op = r.op /\ next.n = r.n /\ next.ver = r.ver
        /\ next.raw = r.raw /\ next.base = r.base /\ next.tab = r.tab
        /\ next.conflict = r.conflict
    BY <1>1 DEF Request
  <2>3. Continue(h, next)
    BY <1>2
  <2> HIDE DEF next
  <2> QED
    BY <1>1, <2>1, <2>2, <2>3, AnsweredKeeps
<1>3. CASE Continue(h, [r EXCEPT !.pc = "mark", !.result = "fail"])
  <2> DEFINE next == [r EXCEPT !.pc = "mark", !.result = "fail"]
  <2>1. next \in Request
    BY <1>1 DEF Request
  <2>2. /\ next.pc = "mark" /\ next.result = "fail"
        /\ next.op = r.op /\ next.n = r.n /\ next.ver = r.ver
        /\ next.raw = r.raw /\ next.base = r.base /\ next.tab = r.tab
        /\ next.conflict = r.conflict
    BY <1>1 DEF Request
  <2>3. Continue(h, next)
    BY <1>3
  <2> HIDE DEF next
  <2> QED
    BY <2>1, <2>2, <2>3, AnsweredKeeps
<1>4. CASE Finish(h)
  BY <1>4, FinishOnServerKeeps
<1> QED
  BY <1>2, <1>3, <1>4 DEF NoAnswer

LEMMA PutAcceptedKeeps ==
    ASSUME IInv, NEW h \in Handler, PutAccepted(h) PROVE Kept
<1> DEFINE r == req[h]
           next == [r EXCEPT !.pc = "mark", !.result = "ok",
                             !.newETag = Len(server) + 1]
<1>1. /\ r.pc = "put" /\ server' = Written(r.raw, "caldo") /\ Continue(h, next)
      /\ UNCHANGED <<rows, conflicts, undo, scan>>
  BY DEF PutAccepted
<1>2. r \in Request /\ TypeOK /\ r.raw \in Text /\ Len(server) + 1 \in Nat
  <2>1. r \in Request /\ TypeOK
    BY HandlerOK
  <2>2. server \in Seq(Version)
    BY <2>1 DEF TypeOK
  <2>3. Len(server) + 1 \in Nat
    BY <2>2, LenProperties
  <2> QED
    BY <2>1, <2>3 DEF Request
<1>3. next \in Request
  BY <1>2 DEF Request
<1>4. /\ next.pc = "mark" /\ next.newETag = Len(server) + 1
      /\ next.op = r.op /\ next.n = r.n /\ next.ver = r.ver
      /\ next.raw = r.raw /\ next.base = r.base /\ next.tab = r.tab
      /\ next.conflict = r.conflict
  BY <1>2 DEF Request
<1> HIDE DEF next
<1>5. /\ server' \in Seq(Version) /\ ServerGrows
      /\ Len(server) + 1 \in DOMAIN server'
      /\ server'[Len(server) + 1].vtodo = r.raw
  BY <1>1, <1>2, WrittenOK
<1> QED
  BY <1>1, <1>3, <1>4, <1>5, AnsweredKeeps

\* The other outcomes of a PUT.
LEMMA PutOtherKeeps ==
    ASSUME IInv, NEW h \in Handler, PutLost(h) \/ PutFailed(h) \/ PutRefused(h)
    PROVE  Kept
<1> DEFINE r == req[h]
<1>1. r \in Request /\ TypeOK /\ r.raw \in Text
  BY HandlerOK DEF Request
<1>2. CASE PutLost(h)
  <2>1. server' \in Seq(Version) /\ ServerGrows
    BY <1>1, <1>2, WrittenOK DEF PutLost
  <2> QED
    BY <1>2, <2>1, NoAnswerKeeps DEF PutLost
<1>3. CASE PutFailed(h)
  BY <1>1, <1>3, SameServerOK, NoAnswerKeeps DEF PutFailed
<1>4. CASE PutRefused(h)
  <2>1. CASE r.op = "resolve"
    BY <1>4, <2>1, FinishKeeps DEF PutRefused
  <2>2. CASE r.op # "resolve"
    <3> DEFINE next == [r EXCEPT !.pc = "get"]
    <3>1. next \in Request
      BY <1>1 DEF Request
    <3>2. /\ next.pc = "get" /\ next.op = r.op /\ next.n = r.n /\ next.ver = r.ver
          /\ next.raw = r.raw /\ next.base = r.base /\ next.tab = r.tab
          /\ next.conflict = r.conflict
      BY <1>1 DEF Request
    <3>3. Continue(h, next) /\ r.pc = "put"
      BY <1>4, <2>2 DEF PutRefused
    <3> HIDE DEF next
    <3> QED
      BY <1>1, <1>4, <3>1, <3>2, <3>3, SameServerOK, AnsweredKeeps DEF PutRefused
  <2> QED
    BY <2>1, <2>2
<1> QED
  BY <1>2, <1>3, <1>4

LEMMA GetRemoteKeeps ==
    ASSUME IInv, NEW h \in Handler, GetRemote(h) PROVE Kept
<1> DEFINE r == req[h]
           found == [r EXCEPT !.pc = "mark", !.result = "conflict",
                              !.remote = CurrentVTODO, !.newETag = CurrentETag]
           unknown == [r EXCEPT !.pc = "mark", !.result = "conflict"]
<1>1. /\ r \in Request /\ TypeOK /\ r.pc = "get"
      /\ CurrentVTODO \in Text /\ CurrentETag \in Nat
      /\ UNCHANGED <<server, rows, conflicts, undo, scan>>
      /\ server' \in Seq(Version) /\ ServerGrows
  BY HandlerOK, CurrentType, SameServerOK DEF GetRemote
<1>2. CASE Continue(h, found)
  <2>1. found \in Request
    BY <1>1 DEF Request
  <2>2. /\ found.pc = "mark" /\ found.result = "conflict"
        /\ found.op = r.op /\ found.n = r.n /\ found.ver = r.ver
        /\ found.raw = r.raw /\ found.base = r.base /\ found.tab = r.tab
        /\ found.conflict = r.conflict
    BY <1>1 DEF Request
  <2> HIDE DEF found
  <2> QED
    BY <1>1, <1>2, <2>1, <2>2, AnsweredKeeps
<1>3. CASE Continue(h, unknown)
  <2>1. unknown \in Request
    BY <1>1 DEF Request
  <2>2. /\ unknown.pc = "mark" /\ unknown.result = "conflict"
        /\ unknown.op = r.op /\ unknown.n = r.n /\ unknown.ver = r.ver
        /\ unknown.raw = r.raw /\ unknown.base = r.base /\ unknown.tab = r.tab
        /\ unknown.conflict = r.conflict
    BY <1>1 DEF Request
  <2> HIDE DEF unknown
  <2> QED
    BY <1>1, <1>3, <2>1, <2>2, AnsweredKeeps
<1> QED
  BY <1>2, <1>3 DEF GetRemote

LEMMA RemovedOK ==
    ASSUME TypeOK, server' = Removed PROVE server' \in Seq(Version) /\ ServerGrows
<1>1. NoText \in Text
  BY DEF Text
<1> QED
  BY <1>1, SameServerOK, WrittenOK DEF Removed

LEMMA DeleteKeeps ==
    ASSUME IInv, NEW h \in Handler,
           \/ DeleteAccepted(h) \/ DeleteLost(h)
           \/ DeleteFailed(h) \/ DeleteRefused(h)
    PROVE  Kept
<1> DEFINE r == req[h]
           Outcome(result) == [r EXCEPT !.pc = "mark", !.result = result]
<1>1. /\ r \in Request /\ TypeOK /\ r.pc = "delete" /\ r.op = "delete"
  BY HandlerOK DEF OperationOK, DeleteAccepted, DeleteLost, DeleteFailed, DeleteRefused
<1>2. ASSUME NEW result \in {"ok", "conflict"}, Continue(h, Outcome(result)),
             server' \in Seq(Version), ServerGrows,
             UNCHANGED <<rows, conflicts, undo, scan>>
      PROVE  Kept
  <2> DEFINE next == Outcome(result)
  <2>1. next \in Request
    BY <1>1 DEF Request
  <2>2. /\ next.pc = "mark" /\ next.op = r.op /\ next.n = r.n /\ next.ver = r.ver
        /\ next.raw = r.raw /\ next.base = r.base /\ next.tab = r.tab
        /\ next.conflict = r.conflict
    BY <1>1 DEF Request
  <2>3. Continue(h, next)
    BY <1>2
  <2> HIDE DEF next
  <2> QED
    BY <1>1, <1>2, <2>1, <2>2, <2>3, AnsweredKeeps
<1>3. CASE DeleteAccepted(h)
  BY <1>1, <1>2, <1>3, RemovedOK DEF DeleteAccepted
<1>4. CASE DeleteLost(h)
  BY <1>1, <1>4, RemovedOK, NoAnswerKeeps DEF DeleteLost
<1>5. CASE DeleteFailed(h)
  BY <1>1, <1>5, SameServerOK, NoAnswerKeeps DEF DeleteFailed
<1>6. CASE DeleteRefused(h)
  BY <1>1, <1>2, <1>6, SameServerOK DEF DeleteRefused
<1> QED
  BY <1>3, <1>4, <1>5, <1>6

-----------------------------------------------------------------------------
\* A mark that writes one row, and perhaps the conflicts, and ends.
LEMMA MarkRowKeeps ==
    ASSUME IInv, NEW h \in Handler, NEW n \in Live, NEW row \in Row,
           SetRow(n, row), RowStep(rows[n], row), Finish(h),
           conflicts' \in Seq(Seq(Conflict)), Len(conflicts') = Len(conflicts),
           ConflictsGrow,
           UNCHANGED <<server, undo, scan>>
    PROVE  Kept
<1>1. TypeOK /\ n \in DOMAIN rows
  BY LiveOK DEF IInv
<1>2. /\ rows' \in Seq(Row) /\ Len(rows') = Len(rows) /\ Evolves
  BY <1>1, SetRowOK
<1>3. /\ req' \in [Handler -> Request] /\ started' \in Nat
      /\ \A g \in Handler \ {h} : req'[g] = req[g]
      /\ RequestOK(req[h])'
  BY <1>1, FinishOK
<1>4. TypeOK' /\ Grows
  BY <1>1, <1>2, <1>3, SameServerOK DEF TypeOK, Grows
<1> QED
  BY <1>3, <1>4, Assembled DEF IInv

\* The handler's row in a mark that found it.
LEMMA ExpectedRowOK ==
    ASSUME IInv, NEW h \in Handler, req[h].n \in Live
    PROVE  /\ TypeOK /\ req[h] \in Request
           /\ req[h].n \in DOMAIN rows /\ req[h].n \in DOMAIN conflicts
           /\ rows[req[h].n] \in Row /\ rows[req[h].n].status # "absent"
           /\ rows[req[h].n].raw \in Content
           /\ rows[req[h].n].etag \in Nat /\ req[h].newETag \in Nat
           /\ req[h].n \in Nat
<1>1. TypeOK /\ req[h] \in Request
  BY HandlerOK
<1> QED
  BY <1>1, LiveOK DEF Request

\* MarkUpdateSynced and MarkCreateSynced: an undo goes on to drop its snapshot.
LEMMA MarkSyncedKeeps ==
    ASSUME IInv, NEW h \in Handler, MarkUpdateSynced(h) \/ MarkCreateSynced(h)
    PROVE  Kept
<1> DEFINE r == req[h]
           row == Synced(rows[r.n], r.newETag)
           next == [r EXCEPT !.pc = "drop"]
<1>1. /\ r.n \in Live /\ r.pc = "mark"
      /\ r.op \in {"update", "undo_update", "create", "undo_delete"}
      /\ SetRow(r.n, row) /\ AfterSynced(h)
      /\ UNCHANGED <<server, conflicts, undo, scan>>
  BY DEF MarkUpdateSynced, MarkCreateSynced, Marking, RowAsExpected
<1>2. /\ TypeOK /\ r \in Request /\ r.n \in DOMAIN rows /\ rows[r.n] \in Row
      /\ rows[r.n].status # "absent" /\ rows[r.n].raw \in Content /\ r.newETag \in Nat
  BY <1>1, ExpectedRowOK
<1>3. row \in Row /\ RowStep(rows[r.n], row)
  BY <1>2, RowTypes, RowSteps DEF SyncStatus
<1>4. /\ conflicts' \in Seq(Seq(Conflict)) /\ Len(conflicts') = Len(conflicts)
      /\ ConflictsGrow
  BY <1>1, <1>2, SameConflictsOK
<1>5. CASE Finish(h)
  <2> HIDE DEF row
  <2> QED
    BY <1>1, <1>3, <1>4, <1>5, MarkRowKeeps
<1>6. CASE r.op \in {"undo_update", "undo_delete"} /\ Continue(h, next)
  <2>1. next \in Request
    BY <1>2 DEF Request
  <2>2. /\ next.pc = "drop" /\ next.op = r.op /\ next.n = r.n
        /\ next.base = r.base /\ next.tab = r.tab
    BY <1>2 DEF Request
  <2> HIDE DEF next, row
  <2>3. /\ req' \in [Handler -> Request] /\ req'[h] = next
        /\ \A g \in Handler \ {h} : req'[g] = req[g]
        /\ started' \in Nat
    BY <1>2, <1>6, <2>1, ContinueOK DEF Continue, TypeOK
  <2>4. /\ rows' \in Seq(Row) /\ Len(rows') = Len(rows) /\ DOMAIN rows' = DOMAIN rows
        /\ Evolves
    BY <1>1, <1>2, <1>3, SetRowOK
  <2>5. TypeOK' /\ Grows
    BY <1>1, <1>2, <1>4, <2>3, <2>4, SameServerOK DEF TypeOK, Grows
  <2>6. RequestOK(req[h])'
    BY <1>2, <1>6, <2>2, <2>3, <2>4, HandlerOK
       DEF RequestOK, PrepareOK, PendingOK, OperationOK, StoredOK, OnServer, Resolving
  <2> QED
    BY <1>1, <2>3, <2>5, <2>6, Assembled DEF IInv
<1> QED
  BY <1>1, <1>5, <1>6 DEF AfterSynced

\* The marks that only set the state of the row.
LEMMA MarkStatusKeeps ==
    ASSUME IInv, NEW h \in Handler,
           \/ MarkError(h) \/ MarkCreateError(h)
           \/ MarkDeleteSynced(h) \/ MarkDeleteConflict(h)
    PROVE  Kept
<1> DEFINE r == req[h]
<1>1. /\ r.n \in Live /\ Finish(h)
      /\ UNCHANGED <<server, conflicts, undo, scan>>
      /\ \E status \in SyncStatus : SetRow(r.n, [rows[r.n] EXCEPT !.status = status])
  BY DEF MarkError, MarkCreateError, MarkDeleteSynced, MarkDeleteConflict,
         RowAsExpected, SyncStatus
<1>2. PICK status \in SyncStatus : SetRow(r.n, [rows[r.n] EXCEPT !.status = status])
  BY <1>1
<1> DEFINE row == [rows[r.n] EXCEPT !.status = status]
<1>3. /\ TypeOK /\ rows[r.n] \in Row /\ rows[r.n].status # "absent"
      /\ rows[r.n].raw \in Content /\ rows[r.n].etag \in Nat
  BY <1>1, ExpectedRowOK
<1>4. row \in Row /\ RowStep(rows[r.n], row)
  BY <1>3, RowTypes, RowSteps
<1>5. SetRow(r.n, row)
  BY <1>2
<1> HIDE DEF row
<1> QED
  BY <1>1, <1>3, <1>4, <1>5, SameConflictsOK, MarkRowKeeps

LEMMA MarkUpdateConflictKeeps ==
    ASSUME IInv, NEW h \in Handler, MarkUpdateConflict(h) PROVE Kept
<1> DEFINE r == req[h]
           row == Conflicted(rows[r.n], r.newETag)
           c == NewConflict("field_conflict", r.base, r.raw, r.remote)
           list == Append(conflicts[r.n], c)
<1>1. /\ r.pc = "mark" /\ r.op \in {"update", "undo_update"}
      /\ r.n \in Live /\ SetRow(r.n, row)
      /\ conflicts' = [conflicts EXCEPT ![r.n] = list]
      /\ Finish(h) /\ UNCHANGED <<server, undo, scan>>
  BY DEF MarkUpdateConflict, Marking, RowAsExpected, AddConflict
<1>2. /\ TypeOK /\ r \in Request /\ r.n \in DOMAIN conflicts /\ rows[r.n] \in Row
      /\ rows[r.n].status # "absent" /\ rows[r.n].raw \in Content /\ r.newETag \in Nat
  BY <1>1, ExpectedRowOK
<1>3. r.base \in Content /\ r.raw \in Content /\ r.remote \in Text
  BY <1>1, HandlerOK DEF OperationOK, PendingOK, OnServer, Resolving, Request
<1>4. row \in Row /\ RowStep(rows[r.n], row)
  BY <1>2, RowTypes, RowSteps DEF SyncStatus
<1>5. c \in Conflict
  BY <1>3 DEF NewConflict, Conflict
<1> HIDE DEF row, c
<1>6. conflicts[r.n] \in Seq(Conflict)
  BY <1>2, LenProperties, ElementOfSeq DEF TypeOK
<1>7. list \in Seq(Conflict) /\ Len(list) = Len(conflicts[r.n]) + 1
  BY <1>5, <1>6, AppendProperties
<1>8. DOMAIN conflicts[r.n] \subseteq DOMAIN list
  BY <1>6, <1>7, LenProperties
<1> HIDE DEF list
<1>9. /\ conflicts' \in Seq(Seq(Conflict)) /\ Len(conflicts') = Len(conflicts)
      /\ ConflictsGrow
  BY <1>1, <1>2, <1>7, <1>8, SetConflictsOK
<1> QED
  BY <1>1, <1>4, <1>9, MarkRowKeeps

LEMMA CloseConflictOK ==
    ASSUME TypeOK, NEW n \in DOMAIN conflicts, NEW k \in DOMAIN conflicts[n],
           CloseConflict(n, k)
    PROVE  /\ conflicts' \in Seq(Seq(Conflict)) /\ Len(conflicts') = Len(conflicts)
           /\ ConflictsGrow
<1> DEFINE c == [conflicts[n][k] EXCEPT !.open = FALSE]
           list == [conflicts[n] EXCEPT ![k] = c]
<1>1. conflicts[n] \in Seq(Conflict) /\ conflicts[n][k] \in Conflict
  BY EntryType
<1>2. c \in Conflict
  BY <1>1 DEF Conflict
<1>3. conflicts' = [conflicts EXCEPT ![n] = list]
  BY DEF CloseConflict
<1> HIDE DEF c
<1>4. k \in 1..Len(conflicts[n])
  BY <1>1, LenProperties
<1>5. list \in Seq(Conflict) /\ Len(list) = Len(conflicts[n])
  BY <1>1, <1>2, <1>4, ExceptSeq
<1>6. DOMAIN conflicts[n] \subseteq DOMAIN list
  BY <1>1, <1>5, LenProperties
<1> HIDE DEF list
<1> QED
  BY <1>3, <1>5, <1>6, SetConflictsOK

LEMMA MarkResolvedKeeps ==
    ASSUME IInv, NEW h \in Handler, MarkResolved(h) \/ MarkSplit(h) PROVE Kept
<1> DEFINE r == req[h]
<1>1. /\ r.pc = "mark" /\ r.op \in Resolving /\ r.n \in Live
      /\ CloseConflict(r.n, r.conflict)
      /\ Finish(h) /\ UNCHANGED <<server, undo, scan>>
  BY DEF MarkResolved, MarkSplit, Marking, RowAsExpected, Resolving
<1>2. /\ TypeOK /\ r.n \in DOMAIN conflicts /\ rows[r.n] \in Row
      /\ rows[r.n].status # "absent" /\ r.newETag \in Nat
      /\ rows[r.n].raw \in Content /\ rows[r.n].etag \in Nat
      /\ r.conflict \in DOMAIN conflicts[r.n]
  BY <1>1, ExpectedRowOK, HandlerOK DEF OperationOK
<1>3. /\ conflicts' \in Seq(Seq(Conflict)) /\ Len(conflicts') = Len(conflicts)
      /\ ConflictsGrow
  BY <1>1, <1>2, CloseConflictOK
<1>4. CASE MarkResolved(h)
  <2> DEFINE row == [Synced(rows[r.n], r.newETag) EXCEPT !.raw = r.raw]
  <2>1. r.raw \in Content
    BY <1>4, HandlerOK DEF OperationOK, MarkResolved, Marking
  <2>2. row \in Row /\ RowStep(rows[r.n], row)
    BY <1>2, <2>1, RowTypes, RowSteps DEF SyncStatus
  <2>3. SetRow(r.n, row)
    BY <1>4 DEF MarkResolved
  <2> HIDE DEF row
  <2> QED
    BY <1>1, <1>3, <2>2, <2>3, MarkRowKeeps
<1>5. CASE MarkSplit(h)
  <2> DEFINE row == Synced(rows[r.n], rows[r.n].etag)
  <2>1. row \in Row /\ RowStep(rows[r.n], row)
    BY <1>2, RowTypes, RowSteps DEF SyncStatus
  <2>2. SetRow(r.n, row)
    BY <1>5 DEF MarkSplit
  <2> HIDE DEF row
  <2> QED
    BY <1>1, <1>3, <2>1, <2>2, MarkRowKeeps
<1> QED
  BY <1>4, <1>5

\* The handlers that end without a write.
LEMMA EndKeeps ==
    ASSUME IInv, NEW h \in Handler,
           \/ UpdateRefused(h) \/ MarkRefused(h)
           \/ MarkCreateRowGone(h) \/ Abandon(h)
    PROVE  Kept
BY FinishKeeps DEF UpdateRefused, MarkRefused, MarkCreateRowGone, Abandon

LEMMA DropSnapshotKeeps ==
    ASSUME IInv, NEW h \in Handler, DropSnapshot(h) PROVE Kept
<1>1. TypeOK /\ Finish(h) /\ UNCHANGED <<server, rows, conflicts, scan>>
  BY DEF IInv, DropSnapshot
<1>2. /\ undo' \in [Tab -> Snapshot]
      /\ \A tab \in Tab : undo'[tab] = undo[tab] \/ undo'[tab] = NoSnapshot
  BY <1>1, IdleOK DEF DropSnapshot, TypeOK
<1>3. \A tab \in Tab : SnapshotOK(undo'[tab])
  BY <1>2 DEF IInv, SnapshotOK, NoSnapshot
<1>4. TypeOK' /\ Grows
  BY <1>1, <1>2, FinishOK, SameServerOK, SameRowsOK, SameConflictsOK DEF TypeOK, Grows
<1> QED
  BY <1>1, <1>3, <1>4, FinishOK, Assembled

-----------------------------------------------------------------------------
(***************************************************************************)
(* The steps of the scanner, of the other client, and of time.             *)
(***************************************************************************)
LEMMA NoHandlerKeeps ==
    ASSUME IInv, TypeOK', Grows, req' = req,
           \A tab \in Tab : SnapshotOK(undo'[tab])
    PROVE  Kept
BY OthersKeep DEF IInv, Kept, Grows

LEMMA ExpireUndoKeeps ==
    ASSUME IInv, NEW tab \in Tab, ExpireUndo(tab) PROVE Kept
<1>1. TypeOK /\ UNCHANGED <<server, rows, conflicts, req, scan, started>>
  BY DEF IInv, ExpireUndo
<1>2. /\ undo' \in [Tab -> Snapshot]
      /\ \A t \in Tab : undo'[t] = undo[t] \/ undo'[t] = NoSnapshot
  BY <1>1, IdleOK DEF ExpireUndo, TypeOK
<1>3. \A t \in Tab : SnapshotOK(undo'[t])
  BY <1>2 DEF IInv, SnapshotOK, NoSnapshot
<1>4. TypeOK' /\ Grows
  BY <1>1, <1>2, SameServerOK, SameRowsOK, SameConflictsOK DEF TypeOK, Grows
<1> QED
  BY <1>1, <1>3, <1>4, NoHandlerKeeps

LEMMA ScanReadKeeps ==
    ASSUME IInv, ScanFetch \/ ScanAbort PROVE Kept
<1>1. /\ TypeOK /\ UNCHANGED <<server, rows, conflicts, undo, req, started>>
      /\ CurrentVTODO \in Text /\ CurrentETag \in Nat
  BY CurrentType DEF IInv, ScanFetch, ScanAbort
<1>2. scan' \in Scan
  BY <1>1 DEF ScanFetch, ScanAbort, Scan, NoScan, Text
<1>3. TypeOK' /\ Grows
  BY <1>1, <1>2, SameServerOK, SameRowsOK, SameConflictsOK DEF TypeOK, Grows
<1> QED
  BY <1>1, <1>3, NoHandlerKeeps DEF IInv

LEMMA RemoteWriteKeeps ==
    ASSUME IInv, RemoteWrite PROVE Kept
<1>1. TypeOK /\ UNCHANGED <<rows, conflicts, undo, req, scan, started>>
  BY DEF IInv, RemoteWrite
<1>2. server' \in Seq(Version) /\ ServerGrows
  BY <1>1, WrittenOK DEF RemoteWrite
<1>3. TypeOK' /\ Grows
  BY <1>1, <1>2, SameRowsOK, SameConflictsOK DEF TypeOK, Grows
<1> QED
  BY <1>1, <1>3, NoHandlerKeeps DEF IInv

LEMMA FunctionIsSeq ==
    ASSUME NEW S, NEW n \in Nat, NEW f \in [1..n -> S]
    PROVE  f \in Seq(S) /\ Len(f) = n
OBVIOUS

\* What the scan decides about a row fits the row and the scanned object.
LEMMA RowVerdictOK ==
    ASSUME TypeOK, NEW n \in DOMAIN rows
    PROVE  /\ RowVerdict(n) \in {"keep", "import", "merge", "field_conflict",
                                 "edit_delete", "delete"}
           /\ RowVerdict(n) \in {"import", "merge"} => scan.vtodo # NoText
           /\ rows[n].status = "absent" => RowVerdict(n) = "keep"
<1>1. CASE Matched(n)
  <2>1. scan.vtodo # NoText /\ rows[n].status # "absent"
    BY <1>1 DEF Matched, Live
  <2>2. RowVerdict(n) = Verdict(rows[n], scan.vtodo, scan.etag)
    BY <1>1 DEF RowVerdict
  <2>3. Verdict(rows[n], scan.vtodo, scan.etag)
          \in {"keep", "import", "merge", "field_conflict"}
    BY DEF Verdict, VerdictIf
  <2> QED
    BY <2>1, <2>2, <2>3
<1>2. CASE ~Matched(n)
  <2>1. RowVerdict(n) = MissingVerdict(rows[n])
    BY <1>2 DEF RowVerdict
  <2>2. MissingVerdict(rows[n]) \in {"keep", "delete", "edit_delete"}
    BY DEF MissingVerdict
  <2>3. CASE rows[n].status = "absent"
    <3>1. rows[n].status \in {"conflict", "absent"} /\ ~Clean(rows[n])
      BY <2>3 DEF Clean
    <3> QED
      BY <2>1, <2>2, <3>1 DEF MissingVerdict
  <2> QED
    BY <2>1, <2>2, <2>3
<1> QED
  BY <1>1, <1>2

LEMMA ScanApplyKeeps ==
    ASSUME IInv, ScanApply PROVE Kept
<1> DEFINE after == [n \in DOMAIN rows |->
                       AfterVerdict(rows[n], RowVerdict(n), scan.vtodo, scan.etag)]
           noted == [n \in DOMAIN rows |->
                       ConflictsAfterVerdict(conflicts[n], rows[n], RowVerdict(n),
                                             scan.vtodo)]
           row == ImportedRow(scan.vtodo, scan.etag)
<1>1. TypeOK
  BY DEF IInv
<1>2. /\ DOMAIN rows = 1..Len(rows) /\ Len(rows) \in Nat
      /\ DOMAIN conflicts = 1..Len(rows)
      /\ \A n \in DOMAIN rows : rows[n] \in Row /\ conflicts[n] \in Seq(Conflict)
      /\ scan.vtodo \in Text /\ scan.etag \in Nat
  BY <1>1, LenProperties, ElementOfSeq DEF TypeOK, Scan
<1>3. ASSUME NEW n \in DOMAIN rows
      PROVE  /\ after[n] \in Row /\ RowStep(rows[n], after[n])
             /\ noted[n] \in Seq(Conflict)
             /\ DOMAIN conflicts[n] \subseteq DOMAIN noted[n]
  <2>1. /\ RowVerdict(n) \in {"keep", "import", "merge", "field_conflict",
                              "edit_delete", "delete"}
        /\ RowVerdict(n) \in {"import", "merge"} => scan.vtodo # NoText
        /\ rows[n].status = "absent" => RowVerdict(n) = "keep"
    BY <1>1, RowVerdictOK
  <2>2. rows[n] \in Row /\ conflicts[n] \in Seq(Conflict)
    BY <1>2
  <2> QED
    BY <1>2, <2>1, <2>2, AfterVerdictOK, ConflictsAfterOK
<1>4. /\ after \in [1..Len(rows) -> Row]
      /\ noted \in [1..Len(rows) -> Seq(Conflict)]
  BY <1>2, <1>3
<1>5. /\ UNCHANGED <<server, undo, req, started>> /\ scan' = NoScan
      /\ \/ /\ rows' = Append(after, row) /\ conflicts' = Append(noted, <<>>)
            /\ scan.vtodo # NoText
         \/ rows' = after /\ conflicts' = noted
  BY DEF ScanApply, NewObject
<1>6. \A n \in DOMAIN rows : /\ RowStep(rows[n], after[n])
                             /\ DOMAIN conflicts[n] \subseteq DOMAIN noted[n]
  BY <1>3
<1> HIDE DEF after, noted
<1>7. /\ after \in Seq(Row) /\ Len(after) = Len(rows)
      /\ noted \in Seq(Seq(Conflict)) /\ Len(noted) = Len(rows)
  BY <1>2, <1>4, FunctionIsSeq
<1>8. scan' \in Scan
  BY <1>5 DEF Scan, NoScan, Text
<1>9. CASE rows' = after /\ conflicts' = noted
  <2>1. Evolves
    BY <1>2, <1>6, <1>7, <1>9, LenProperties DEF Evolves
  <2>2. ConflictsGrow
    BY <1>2, <1>4, <1>6, <1>9 DEF ConflictsGrow
  <2> QED
    BY <1>1, <1>5, <1>7, <1>8, <1>9, <2>1, <2>2, SameServerOK, NoHandlerKeeps
       DEF IInv, TypeOK, Grows
<1>10. CASE /\ rows' = Append(after, row) /\ conflicts' = Append(noted, <<>>)
            /\ scan.vtodo # NoText
  <2>1. row \in Row /\ row.ver = 1 /\ row.status # "absent"
    BY <1>2, <1>10, ContentText DEF ImportedRow, Row, SyncStatus
  <2> HIDE DEF row
  <2>2. /\ rows' \in Seq(Row) /\ Len(rows') = Len(rows) + 1
        /\ rows'[Len(rows) + 1] = row
        /\ \A n \in 1..Len(rows) : rows'[n] = after[n]
    BY <1>7, <1>10, <2>1, AppendProperties
  <2>3. <<>> \in Seq(Conflict)
    BY EmptySeq
  <2>4. /\ conflicts' \in Seq(Seq(Conflict)) /\ Len(conflicts') = Len(rows) + 1
        /\ \A n \in 1..Len(rows) : conflicts'[n] = noted[n]
    BY <1>7, <1>10, <2>3, AppendProperties
  <2>5. Evolves
    <3>1. DOMAIN rows' = 1..(Len(rows) + 1)
      BY <2>2, LenProperties
    <3>2. Len(rows') \in {Len(rows), Len(rows) + 1}
      BY <2>2
    <3>3. \A n \in DOMAIN rows : RowStep(rows[n], rows'[n])
      BY <1>2, <1>6, <2>2
    <3>4. \A n \in DOMAIN rows' \ DOMAIN rows :
             rows'[n].status # "absent" /\ rows'[n].ver = 1
      BY <1>2, <2>1, <2>2, <3>1
    <3> QED
      BY <3>2, <3>3, <3>4 DEF Evolves
  <2>6. DOMAIN conflicts' = 1..(Len(rows) + 1)
    BY <2>4, LenProperties
  <2>7. ConflictsGrow
    <3>1. ASSUME NEW n \in DOMAIN conflicts
          PROVE  /\ n \in DOMAIN conflicts'
                 /\ DOMAIN conflicts[n] \subseteq DOMAIN conflicts'[n]
      <4>1. n \in 1..Len(rows) /\ n \in DOMAIN rows
        BY <1>2, <3>1
      <4>2. conflicts'[n] = noted[n]
        BY <2>4, <4>1
      <4>3. n \in DOMAIN conflicts'
        BY <1>2, <2>6, <4>1
      <4> QED
        BY <1>6, <4>1, <4>2, <4>3
    <3> QED
      BY <3>1 DEF ConflictsGrow
  <2>8. TypeOK'
    <3>1. Len(conflicts') = Len(rows')
      BY <2>2, <2>4
    <3> QED
      BY <1>1, <1>5, <1>8, <2>2, <2>4, <3>1 DEF TypeOK
  <2>9. Grows
    BY <1>1, <1>5, <2>5, <2>7, SameServerOK DEF Grows
  <2>10. \A tab \in Tab : SnapshotOK(undo'[tab])
    BY <1>5 DEF IInv
  <2> QED
    BY <1>5, <2>8, <2>9, <2>10, NoHandlerKeeps
<1> QED
  BY <1>5, <1>9, <1>10

-----------------------------------------------------------------------------
(***************************************************************************)
(* The invariant, and the properties that follow from it.                  *)
(***************************************************************************)
LEMMA InitIInv == Init => IInv
<1> SUFFICES ASSUME Init PROVE IInv
  OBVIOUS
<1>1. /\ undo \in [Tab -> Snapshot] /\ \A tab \in Tab : SnapshotOK(undo[tab])
      /\ req \in [Handler -> Request] /\ scan \in Scan /\ started \in Nat
  BY IdleOK DEF Init, SnapshotOK, NoSnapshot, Scan, NoScan, Text
<1>2. \A h \in Handler : RequestOK(req[h])
  BY DEF Init, Idle, RequestOK, PrepareOK, PendingOK, OperationOK, StoredOK,
         OnServer, Resolving
<1>3. /\ server \in Seq(Version) /\ rows \in Seq(Row)
      /\ conflicts \in Seq(Seq(Conflict)) /\ Len(conflicts) = Len(rows)
  <2>1. CASE server = <<>> /\ rows = <<>> /\ conflicts = <<>>
    BY <2>1, EmptySeq
  <2>2. ASSUME NEW content \in Content,
               server = <<[vtodo |-> content, by |-> "other"]>>,
               rows = <<ImportedRow(content, 1)>>, conflicts = << <<>> >>
        PROVE  /\ server \in Seq(Version) /\ rows \in Seq(Row)
               /\ conflicts \in Seq(Seq(Conflict)) /\ Len(conflicts) = Len(rows)
    <3>1. [vtodo |-> content, by |-> "other"] \in Version
      BY ContentText DEF Version
    <3>2. ImportedRow(content, 1) \in Row
      BY DEF ImportedRow, Row, SyncStatus
    <3>3. <<>> \in Seq(Conflict)
      BY EmptySeq
    <3> QED
      BY <2>2, <3>1, <3>2, <3>3
  <2> QED
    BY <2>1, <2>2 DEF Init
<1> QED
  BY <1>1, <1>2, <1>3 DEF IInv, TypeOK

LEMMA NextIInv == IInv /\ [Next]_vars => Kept
<1> SUFFICES ASSUME IInv, [Next]_vars PROVE Kept
  OBVIOUS
<1>1. CASE UNCHANGED vars
  <2>1. IInv'
    BY <1>1 DEF vars, IInv, TypeOK, SnapshotOK, RequestOK, PrepareOK, PendingOK,
                OperationOK, StoredOK, Text, Snapshot
  <2> QED
    BY <1>1, <2>1, SameRowsOK DEF vars, IInv, Kept
<1>2. ASSUME NEW h \in Handler, Prepare(h) PROVE Kept
  BY <1>2, UpdateLoadKeeps, UpdatePrepareKeeps, EndKeeps, CreateInsertKeeps,
     DeletePrepareKeeps, UndoUpdatePrepareKeeps, UndoDeleteReuseKeeps,
     UndoDeleteInsertKeeps, ResolveLoadKeeps, SplitLoadKeeps DEF Prepare
<1>3. ASSUME NEW h \in Handler, CalDav(h) PROVE Kept
  BY <1>3, PutAcceptedKeeps, PutOtherKeeps, GetRemoteKeeps, DeleteKeeps DEF CalDav
<1>4. ASSUME NEW h \in Handler, Mark(h) PROVE Kept
  BY <1>4, EndKeeps, MarkSyncedKeeps, MarkStatusKeeps, MarkUpdateConflictKeeps,
     MarkResolvedKeeps, DropSnapshotKeeps DEF Mark
<1>5. ASSUME NEW h \in Handler, Abandon(h) PROVE Kept
  BY <1>5, EndKeeps
<1>6. ASSUME NEW tab \in Tab, ExpireUndo(tab) PROVE Kept
  BY <1>6, ExpireUndoKeeps
<1>7. CASE ScanFetch \/ ScanApply \/ ScanAbort \/ RemoteWrite
  BY <1>7, ScanReadKeeps, ScanApplyKeeps, RemoteWriteKeeps
<1> QED
  BY <1>1, <1>2, <1>3, <1>4, <1>5, <1>6, <1>7 DEF Next

\* The inductive invariant holds: handlers never rely on a row version newer
\* than the row, and as long as the version is the row's so is the text.
THEOREM InvariantHolds == Spec => []IInv
<1>1. IInv /\ [Next]_vars => IInv'
  BY NextIInv DEF Kept
<1> QED
  BY <1>1, InitIInv, PTL DEF Spec

\* The program's tables and handlers stay well-formed whatever interleaves.
THEOREM TypeCorrect == Spec => []TypeOK
<1>1. IInv => TypeOK
  BY DEF IInv
<1> QED
  BY <1>1, InvariantHolds, PTL

\* An edit that passes the version check of PrepareTaskUpdate was computed
\* from the text the row has at that moment: no lost update between tabs,
\* handlers and scans.
THEOREM EditsAreCurrent == Spec => []PatchBaseIsCurrent
<1>1. IInv => PatchBaseIsCurrent
  BY DEF IInv, PatchBaseIsCurrent, RequestOK, PrepareOK, RowAsExpected
<1> QED
  BY <1>1, InvariantHolds, PTL

\* A mark that finds its pending version finds the text the handler sent.
THEOREM MarksAreForOwnContent == Spec => []MarkOwnContent
<1>1. IInv => MarkOwnContent
  BY DEF IInv, MarkOwnContent, RequestOK, PendingOK, RowAsExpected, OnServer, Resolving
<1> QED
  BY <1>1, InvariantHolds, PTL

\* The row that a successful write leaves is the version the server stored.
LEMMA SyncedRowIsStored ==
    ASSUME IInv, NEW h \in Handler, MarkUpdateSynced(h) \/ MarkResolved(h)
    PROVE  /\ rows'[req[h].n].etag \in DOMAIN server
           /\ server[rows'[req[h].n].etag].vtodo = rows'[req[h].n].raw
<1> DEFINE r == req[h]
<1>1. /\ r.pc = "mark" /\ r.result = "ok" /\ r.op \in {"update", "undo_update", "resolve"}
      /\ r.n \in Live /\ rows[r.n].ver = r.ver
  BY DEF MarkUpdateSynced, MarkResolved, Marking, RowAsExpected
<1>2. /\ TypeOK /\ r.n \in DOMAIN rows /\ rows[r.n] \in Row
      /\ rows[r.n].status # "absent" /\ r.newETag \in Nat
  BY <1>1, ExpectedRowOK
<1>3. r.newETag \in DOMAIN server /\ server[r.newETag].vtodo = r.raw
  BY <1>1, HandlerOK DEF StoredOK
<1>4. PICK row : SetRow(r.n, row) /\ row.etag = r.newETag /\ row.raw = r.raw
  <2>1. CASE MarkUpdateSynced(h)
    <3>1. r.op \notin Resolving /\ rows[r.n].raw = r.raw
      BY <1>1, <2>1, HandlerOK
         DEF MarkUpdateSynced, Marking, PendingOK, OnServer, Resolving
    <3> DEFINE row == Synced(rows[r.n], r.newETag)
    <3>2. row.etag = r.newETag /\ row.raw = rows[r.n].raw
      BY <1>2 DEF Synced, Row
    <3>3. SetRow(r.n, row)
      BY <2>1 DEF MarkUpdateSynced
    <3> HIDE DEF row
    <3> QED
      BY <3>1, <3>2, <3>3
  <2>2. CASE MarkResolved(h)
    <3> DEFINE row == [Synced(rows[r.n], r.newETag) EXCEPT !.raw = r.raw]
    <3>1. row.etag = r.newETag /\ row.raw = r.raw
      BY <1>2 DEF Synced, Row
    <3>2. SetRow(r.n, row)
      BY <2>2 DEF MarkResolved
    <3> HIDE DEF row
    <3> QED
      BY <3>1, <3>2
  <2> QED
    BY <2>1, <2>2
<1>5. rows'[r.n] = row
  BY <1>2, <1>4 DEF SetRow
<1> QED
  BY <1>3, <1>4, <1>5

\* Caldo never shows an edit, an undo or a resolution as synced under an etag
\* whose text on the server is another one.
THEOREM SyncedRowsAreStored == Spec => SyncedAsPushed
<1> DEFINE Stored ==
             \A h \in Handler :
                MarkUpdateSynced(h) \/ MarkResolved(h) =>
                    LET row == rows'[req[h].n]
                    IN  row.etag \in DOMAIN server /\ server[row.etag].vtodo = row.raw
<1>1. IInv /\ [Next]_vars => [Stored]_vars
  BY SyncedRowIsStored
<1> QED
  BY <1>1, InvariantHolds, PTL DEF Spec, SyncedAsPushed

-----------------------------------------------------------------------------
(***************************************************************************)
(* A row in state conflict has an open entry with its text.  The refused   *)
(* deletion (MarkDeleteConflict) is the one step that adds no entry, and   *)
(* the steps that close an entry make its row synced.                      *)
(***************************************************************************)
\* What ConflictKeepsLocal says of one row and its entries.
KeepsLocal(row, list) ==
    row.status = "conflict" =>
        \E k \in DOMAIN list : list[k].open /\ list[k].local = row.raw

LEMMA KeepsLocalMeans ==
    ConflictKeepsLocal <=> \A n \in DOMAIN rows : KeepsLocal(rows[n], conflicts[n])
BY DEF ConflictKeepsLocal, KeepsLocal, OpenConflict

\* A new entry with the row's text is enough.
LEMMA NewEntryKeeps ==
    ASSUME NEW list \in Seq(Conflict), NEW c \in Conflict, NEW row,
           c.open, c.local = row.raw
    PROVE  KeepsLocal(row, Append(list, c))
<1>1. /\ Append(list, c) \in Seq(Conflict)
      /\ Len(Append(list, c)) = Len(list) + 1
      /\ Append(list, c)[Len(list) + 1] = c
      /\ Len(list) \in Nat
  BY AppendProperties, LenProperties
<1>2. Len(list) + 1 \in DOMAIN Append(list, c)
  BY <1>1, LenProperties
<1> QED
  BY <1>1, <1>2 DEF KeepsLocal

\* A step that writes one row and at most its own entries.
LEMMA OneRowKeepsLocal ==
    ASSUME TypeOK, ConflictKeepsLocal, NEW n \in DOMAIN rows, NEW row,
           SetRow(n, row),
           \A m \in DOMAIN rows \ {n} : conflicts'[m] = conflicts[m],
           KeepsLocal(row, conflicts'[n])
    PROVE  ConflictKeepsLocal'
<1>1. /\ DOMAIN rows' = DOMAIN rows /\ rows'[n] = row
      /\ \A m \in DOMAIN rows \ {n} : rows'[m] = rows[m]
  BY DEF TypeOK, SetRow
<1>2. ASSUME NEW m \in DOMAIN rows' PROVE KeepsLocal(rows'[m], conflicts'[m])
  BY <1>1, <1>2, KeepsLocalMeans
<1> QED
  BY <1>2, KeepsLocalMeans DEF ConflictKeepsLocal, KeepsLocal, OpenConflict

\* A row that is not in state conflict needs no entry.
LEMMA OtherStateKeepsLocal ==
    ASSUME TypeOK, ConflictKeepsLocal, NEW n \in DOMAIN rows, NEW row,
           SetRow(n, row), row.status # "conflict",
           \A m \in DOMAIN rows \ {n} : conflicts'[m] = conflicts[m]
    PROVE  ConflictKeepsLocal'
BY OneRowKeepsLocal DEF KeepsLocal

\* A row that is added is not in state conflict, and the others stay.
LEMMA AddedKeepsLocal ==
    ASSUME NEW table \in Seq(Row), NEW lists \in Seq(Seq(Conflict)),
           Len(lists) = Len(table),
           \A n \in DOMAIN table : KeepsLocal(table[n], lists[n]),
           NEW row \in Row, row.status # "conflict",
           rows' = Append(table, row), conflicts' = Append(lists, <<>>)
    PROVE  ConflictKeepsLocal'
<1>1. /\ rows' \in Seq(Row) /\ Len(rows') = Len(table) + 1
      /\ \A j \in 1..Len(table) : rows'[j] = table[j]
      /\ rows'[Len(table) + 1] = row
  BY AppendProperties
<1>2. \A j \in 1..Len(table) : conflicts'[j] = lists[j]
  <2>1. <<>> \in Seq(Conflict)
    BY EmptySeq
  <2> QED
    BY <2>1, AppendProperties
<1>3. /\ DOMAIN table = 1..Len(table) /\ Len(table) \in Nat
      /\ DOMAIN rows' = 1..(Len(table) + 1)
  BY <1>1, LenProperties
<1>4. ASSUME NEW n \in DOMAIN rows' PROVE KeepsLocal(rows'[n], conflicts'[n])
  <2>1. CASE n = Len(table) + 1
    BY <1>1, <2>1 DEF KeepsLocal
  <2>2. CASE n \in 1..Len(table)
    BY <1>1, <1>2, <1>3, <2>2
  <2> QED
    BY <1>3, <2>1, <2>2
<1> QED
  BY <1>4 DEF ConflictKeepsLocal, KeepsLocal, OpenConflict

\* The prepare transactions leave a pending row.
LEMMA PrepareKeepsLocal ==
    ASSUME IInv, ConflictKeepsLocal, NEW h \in Handler, Prepare(h)
    PROVE  ConflictKeepsLocal'
<1> USE DEF Row
<1>1. TypeOK /\ req[h] \in Request
  BY HandlerOK DEF IInv
<1>2. ASSUME NEW n \in Live, NEW content, NEW row,
             row = Pending(rows[n], content) \/
             row = [Pending(rows[n], content) EXCEPT !.base = content],
             SetRow(n, row), conflicts' = conflicts
      PROVE  ConflictKeepsLocal'
  <2>1. n \in DOMAIN rows /\ rows[n] \in Row
    BY <1>1, LiveOK
  <2>2. row.status = "pending"
    BY <1>2, <2>1 DEF Pending
  <2> QED
    BY <1>1, <1>2, <2>1, <2>2, OtherStateKeepsLocal
<1>3. CASE UpdateLoad(h) \/ UpdateRefused(h) \/ ResolveLoad(h) \/ SplitLoad(h)
  <2>1. rows' = rows /\ conflicts' = conflicts
    BY <1>3 DEF UpdateLoad, UpdateRefused, ResolveLoad, SplitLoad
  <2> QED
    BY <2>1 DEF ConflictKeepsLocal, OpenConflict
<1>4. CASE UpdatePrepare(h)
  <2>1. /\ req[h].n \in Live /\ conflicts' = conflicts
        /\ SetRow(req[h].n, Pending(rows[req[h].n], req[h].raw))
    BY <1>4 DEF UpdatePrepare, RowAsExpected
  <2> QED
    BY <1>2, <2>1
<1>5. CASE DeletePrepare(h)
  <2>1. PICK n \in Live : SetRow(n, Pending(rows[n], rows[n].raw)) /\ conflicts' = conflicts
    BY <1>5 DEF DeletePrepare
  <2> QED
    BY <1>2, <2>1
<1>6. CASE UndoUpdatePrepare(h)
  <2>1. PICK tab \in Tab : /\ undo[tab].n \in Live /\ conflicts' = conflicts
                           /\ SetRow(undo[tab].n, Pending(rows[undo[tab].n], undo[tab].raw))
    BY <1>6 DEF UndoUpdatePrepare
  <2> QED
    BY <1>2, <2>1
<1>7. CASE UndoDeleteReuse(h)
  <2>1. PICK tab \in Tab, n \in Reusable :
           /\ SetRow(n, [Pending(rows[n], undo[tab].raw) EXCEPT !.base = undo[tab].raw])
           /\ conflicts' = conflicts
    BY <1>7 DEF UndoDeleteReuse
  <2>2. n \in Live
    BY DEF Reusable
  <2> QED
    BY <1>2, <2>1, <2>2
<1>8. CASE CreateInsert(h)
  <2>1. PICK content \in Content : /\ rows' = <<PendingRow(content)>>
                                   /\ conflicts' = << <<>> >>
    BY <1>8 DEF CreateInsert
  <2>2. PendingRow(content).status # "conflict"
    BY DEF PendingRow
  <2> QED
    BY <2>1, <2>2 DEF ConflictKeepsLocal
<1>9. CASE UndoDeleteInsert(h)
  <2>1. PICK tab \in Tab :
           /\ undo[tab].kind = "task_deleted"
           /\ rows' = Append(rows, PendingRow(undo[tab].raw))
           /\ conflicts' = Append(conflicts, <<>>)
    BY <1>9 DEF UndoDeleteInsert
  <2>2. undo[tab].raw \in Content
    BY <2>1 DEF IInv, SnapshotOK
  <2>3. PendingRow(undo[tab].raw) \in Row /\ PendingRow(undo[tab].raw).status # "conflict"
    BY <2>2 DEF PendingRow, SyncStatus
  <2> HIDE DEF Row
  <2> QED
    BY <1>1, <2>1, <2>3, KeepsLocalMeans, AddedKeepsLocal DEF TypeOK
<1> QED
  BY <1>3, <1>4, <1>5, <1>6, <1>7, <1>8, <1>9 DEF Prepare

\* Of the marks only the one for a refused deletion lacks an entry.
LEMMA MarkKeepsLocal ==
    ASSUME IInv, ConflictKeepsLocal, NEW h \in Handler, Mark(h), ~MarkDeleteConflict(h)
    PROVE  ConflictKeepsLocal'
<1> DEFINE r == req[h]
<1>1. CASE MarkRefused(h) \/ MarkCreateRowGone(h) \/ DropSnapshot(h)
  <2>1. rows' = rows /\ conflicts' = conflicts
    BY <1>1 DEF MarkRefused, MarkCreateRowGone, DropSnapshot
  <2> QED
    BY <2>1 DEF ConflictKeepsLocal, OpenConflict
<1>2. ASSUME r.n \in Live
      PROVE  /\ TypeOK /\ r \in Request /\ r.n \in DOMAIN rows
             /\ rows[r.n] \in Row /\ r.n \in DOMAIN conflicts
             /\ conflicts[r.n] \in Seq(Conflict)
             /\ DOMAIN conflicts = DOMAIN rows
  <2>1. /\ TypeOK /\ r \in Request /\ r.n \in DOMAIN rows
        /\ rows[r.n] \in Row /\ r.n \in DOMAIN conflicts
    BY <1>2, ExpectedRowOK
  <2> QED
    BY <2>1, LenProperties, ElementOfSeq DEF TypeOK
<1>3. CASE \/ MarkUpdateSynced(h) \/ MarkCreateSynced(h)
           \/ MarkError(h) \/ MarkCreateError(h) \/ MarkDeleteSynced(h)
  <2>1. /\ r.n \in Live /\ conflicts' = conflicts
        /\ \/ SetRow(r.n, Synced(rows[r.n], r.newETag))
           \/ SetRow(r.n, [rows[r.n] EXCEPT !.status = "error"])
           \/ SetRow(r.n, [rows[r.n] EXCEPT !.status = "absent"])
    BY <1>3 DEF MarkUpdateSynced, MarkCreateSynced, MarkError, MarkCreateError,
                MarkDeleteSynced, RowAsExpected
  <2>2. /\ Synced(rows[r.n], r.newETag).status # "conflict"
        /\ [rows[r.n] EXCEPT !.status = "error"].status # "conflict"
        /\ [rows[r.n] EXCEPT !.status = "absent"].status # "conflict"
    BY <1>2, <2>1 DEF Synced, Row
  <2>3. PICK row : SetRow(r.n, row) /\ row.status # "conflict"
    BY <2>1, <2>2
  <2> QED
    BY <1>2, <2>1, <2>3, OtherStateKeepsLocal
<1>4. CASE MarkResolved(h) \/ MarkSplit(h)
  <2>1. /\ r.n \in Live
        /\ conflicts' = [conflicts EXCEPT ![r.n][r.conflict].open = FALSE]
        /\ \/ SetRow(r.n, [Synced(rows[r.n], r.newETag) EXCEPT !.raw = r.raw])
           \/ SetRow(r.n, Synced(rows[r.n], rows[r.n].etag))
    BY <1>4 DEF MarkResolved, MarkSplit, RowAsExpected, CloseConflict
  <2>2. /\ [Synced(rows[r.n], r.newETag) EXCEPT !.raw = r.raw].status # "conflict"
        /\ Synced(rows[r.n], rows[r.n].etag).status # "conflict"
    BY <1>2, <2>1 DEF Synced, Row
  <2>3. PICK row : SetRow(r.n, row) /\ row.status # "conflict"
    BY <2>1, <2>2
  <2>4. \A m \in DOMAIN rows \ {r.n} : conflicts'[m] = conflicts[m]
    BY <1>2, <2>1
  <2> QED
    BY <1>2, <2>1, <2>3, <2>4, OtherStateKeepsLocal
<1>5. CASE MarkUpdateConflict(h)
  <2> DEFINE row == Conflicted(rows[r.n], r.newETag)
             c == NewConflict("field_conflict", r.base, r.raw, r.remote)
  <2>1. /\ r.pc = "mark" /\ r.op \in {"update", "undo_update"}
        /\ r.n \in Live /\ rows[r.n].ver = r.ver /\ SetRow(r.n, row)
        /\ conflicts' = [conflicts EXCEPT ![r.n] = Append(@, c)]
    BY <1>5 DEF MarkUpdateConflict, Marking, RowAsExpected, AddConflict
  <2>2. /\ rows[r.n].raw = r.raw /\ r.raw \in Content
        /\ r.base \in Content /\ r.remote \in Text
    BY <2>1, HandlerOK DEF OperationOK, PendingOK, OnServer, Resolving, Request
  <2>3. c \in Conflict /\ c.open /\ c.local = r.raw
    BY <2>2 DEF NewConflict, Conflict
  <2>4. row.raw = r.raw
    BY <1>2, <2>1, <2>2 DEF Conflicted, Row
  <2> HIDE DEF row, c
  <2>5. KeepsLocal(row, Append(conflicts[r.n], c))
    BY <1>2, <2>1, <2>3, <2>4, NewEntryKeeps
  <2>6. conflicts'[r.n] = Append(conflicts[r.n], c)
    BY <1>2, <2>1
  <2>7. \A m \in DOMAIN rows \ {r.n} : conflicts'[m] = conflicts[m]
    BY <1>2, <2>1
  <2> QED
    BY <1>2, <2>1, <2>5, <2>6, <2>7, OneRowKeepsLocal
<1> QED
  BY <1>1, <1>3, <1>4, <1>5 DEF Mark

\* A scan leaves rows in state conflict alone, and the rows it puts into that
\* state get an entry with their text.
LEMMA VerdictKeepsLocal ==
    ASSUME NEW row \in Row, NEW list \in Seq(Conflict), NEW remote \in Text,
           NEW etag \in Nat, KeepsLocal(row, list),
           NEW verdict \in {"keep", "import", "merge", "field_conflict",
                            "edit_delete", "delete"}
    PROVE  KeepsLocal(AfterVerdict(row, verdict, remote, etag),
                      ConflictsAfterVerdict(list, row, verdict, remote))
<1>1. CASE verdict = "keep"
  BY <1>1 DEF AfterVerdict, ConflictsAfterVerdict
<1>2. CASE verdict \in {"import", "merge", "delete"}
  <2>1. AfterVerdict(row, verdict, remote, etag).status \in {"synced", "absent"}
    BY <1>2 DEF AfterVerdict, Imported, Row
  <2> QED
    BY <2>1 DEF KeepsLocal
<1>3. CASE verdict \in {"field_conflict", "edit_delete"}
  <2> DEFINE c == NewConflict(verdict, row.base, row.raw,
                      IF verdict = "edit_delete" THEN NoText ELSE remote)
             after == AfterVerdict(row, verdict, remote, etag)
  <2>1. c \in Conflict /\ c.open /\ c.local = row.raw
    BY <1>3 DEF NewConflict, Conflict, Row, Text
  <2>2. after.raw = row.raw
    BY <1>3 DEF AfterVerdict, Conflicted, Row
  <2>3. ConflictsAfterVerdict(list, row, verdict, remote) = Append(list, c)
    BY <1>3 DEF ConflictsAfterVerdict
  <2> HIDE DEF c, after
  <2>4. KeepsLocal(after, Append(list, c))
    BY <2>1, <2>2, NewEntryKeeps
  <2> QED
    BY <2>3, <2>4 DEF after
<1> QED
  BY <1>1, <1>2, <1>3

LEMMA ScanKeepsLocal ==
    ASSUME IInv, ConflictKeepsLocal, ScanApply PROVE ConflictKeepsLocal'
<1> DEFINE after == [n \in DOMAIN rows |->
                       AfterVerdict(rows[n], RowVerdict(n), scan.vtodo, scan.etag)]
           noted == [n \in DOMAIN rows |->
                       ConflictsAfterVerdict(conflicts[n], rows[n], RowVerdict(n),
                                             scan.vtodo)]
           row == ImportedRow(scan.vtodo, scan.etag)
<1>1. /\ TypeOK /\ DOMAIN rows = 1..Len(rows) /\ Len(rows) \in Nat
      /\ DOMAIN conflicts = 1..Len(rows)
      /\ \A n \in DOMAIN rows : rows[n] \in Row /\ conflicts[n] \in Seq(Conflict)
      /\ scan.vtodo \in Text /\ scan.etag \in Nat
  BY LenProperties, ElementOfSeq DEF IInv, TypeOK, Scan
<1>2. ASSUME NEW n \in DOMAIN rows
      PROVE  /\ after[n] \in Row /\ noted[n] \in Seq(Conflict)
             /\ KeepsLocal(after[n], noted[n])
  <2>1. /\ RowVerdict(n) \in {"keep", "import", "merge", "field_conflict",
                              "edit_delete", "delete"}
        /\ RowVerdict(n) \in {"import", "merge"} => scan.vtodo # NoText
        /\ rows[n].status = "absent" => RowVerdict(n) = "keep"
    BY <1>1, RowVerdictOK
  <2>2. /\ rows[n] \in Row /\ conflicts[n] \in Seq(Conflict)
        /\ KeepsLocal(rows[n], conflicts[n])
    BY <1>1, KeepsLocalMeans
  <2> QED
    BY <1>1, <2>1, <2>2, AfterVerdictOK, ConflictsAfterOK, VerdictKeepsLocal
<1>3. /\ after \in [1..Len(rows) -> Row]
      /\ noted \in [1..Len(rows) -> Seq(Conflict)]
      /\ \A n \in 1..Len(rows) : KeepsLocal(after[n], noted[n])
  BY <1>1, <1>2
<1>4. \/ /\ rows' = Append(after, row) /\ conflicts' = Append(noted, <<>>)
         /\ scan.vtodo # NoText
      \/ rows' = after /\ conflicts' = noted
  BY DEF ScanApply, NewObject
<1> HIDE DEF after, noted
<1>5. /\ after \in Seq(Row) /\ Len(after) = Len(rows)
      /\ noted \in Seq(Seq(Conflict)) /\ Len(noted) = Len(rows)
      /\ DOMAIN after = 1..Len(rows)
  BY <1>1, <1>3, FunctionIsSeq
<1>6. CASE rows' = after /\ conflicts' = noted
  BY <1>3, <1>5, <1>6 DEF ConflictKeepsLocal, KeepsLocal, OpenConflict
<1>7. CASE /\ rows' = Append(after, row) /\ conflicts' = Append(noted, <<>>)
           /\ scan.vtodo # NoText
  <2>1. row \in Row /\ row.status # "conflict"
    BY <1>1, <1>7, ContentText DEF ImportedRow, Row, SyncStatus
  <2> HIDE DEF row
  <2> QED
    BY <1>3, <1>5, <1>7, <2>1, AddedKeepsLocal
<1> QED
  BY <1>4, <1>6, <1>7

\* No step but the mark of a refused deletion breaks ConflictKeepsLocal.
LEMMA StepKeepsLocal ==
    ASSUME IInv, ConflictKeepsLocal, [Next]_vars,
           ~\E h \in Handler : MarkDeleteConflict(h)
    PROVE  ConflictKeepsLocal'
<1>1. CASE rows' = rows /\ conflicts' = conflicts
  BY <1>1 DEF ConflictKeepsLocal, OpenConflict
<1>2. ASSUME NEW h \in Handler, CalDav(h) \/ Abandon(h) PROVE ConflictKeepsLocal'
  BY <1>1, <1>2 DEF CalDav, PutAccepted, PutLost, PutFailed, PutRefused, GetRemote,
                    DeleteAccepted, DeleteLost, DeleteFailed, DeleteRefused, Abandon
<1>3. ASSUME NEW h \in Handler, Prepare(h) \/ Mark(h) PROVE ConflictKeepsLocal'
  BY <1>3, PrepareKeepsLocal, MarkKeepsLocal
<1>4. CASE \/ UNCHANGED vars \/ \E tab \in Tab : ExpireUndo(tab)
           \/ ScanFetch \/ ScanAbort \/ RemoteWrite
  BY <1>1, <1>4 DEF vars, ExpireUndo, ScanFetch, ScanAbort, RemoteWrite
<1>5. CASE ScanApply
  BY <1>5, ScanKeepsLocal
<1> QED
  BY <1>2, <1>3, <1>4, <1>5 DEF Next

LEMMA InitKeepsLocal == Init => ConflictKeepsLocal
BY DEF Init, ConflictKeepsLocal, ImportedRow

\* A handler that deletes has begun as a deletion.
NoDeletion == \A h \in Handler : req[h].op # "delete"

\* Without deletions no handler ever is one.
LEMMA NoDeletionKept ==
    ASSUME IInv, NoDeletion, "delete" \notin Allowed, [Next]_vars
    PROVE  NoDeletion'
<1>1. req \in [Handler -> Request]
  BY DEF IInv, TypeOK
<1>2. ASSUME NEW h \in Handler, NEW r, req' = [req EXCEPT ![h] = r], r.op # "delete"
      PROVE  NoDeletion'
  BY <1>1, <1>2 DEF NoDeletion
<1>3. CASE req' = req
  BY <1>3 DEF NoDeletion
<1>4. ASSUME NEW h \in Handler, Finish(h) PROVE NoDeletion'
  <2>1. Idle.op # "delete"
    BY DEF Idle
  <2> QED
    BY <1>2, <1>4, <2>1 DEF Finish, Continue
<1>5. ASSUME NEW h \in Handler, NEW r, Continue(h, r), r.op = req[h].op
      PROVE  NoDeletion'
  BY <1>2, <1>5 DEF Continue, NoDeletion
<1>6. ASSUME NEW h \in Handler, NoAnswer(h) PROVE NoDeletion'
  <2>1. /\ [req[h] EXCEPT !.tries = @ + 1].op = req[h].op
        /\ [req[h] EXCEPT !.pc = "mark", !.result = "fail"].op = req[h].op
    BY <1>1 DEF Request
  <2> QED
    BY <1>4, <1>5, <1>6, <2>1 DEF NoAnswer
<1>7. ASSUME NEW h \in Handler, CalDav(h) PROVE NoDeletion'
  <2>1. /\ [req[h] EXCEPT !.pc = "mark", !.result = "ok",
                          !.newETag = Len(server) + 1].op = req[h].op
        /\ [req[h] EXCEPT !.pc = "get"].op = req[h].op
        /\ [req[h] EXCEPT !.pc = "mark", !.result = "conflict",
                          !.remote = CurrentVTODO,
                          !.newETag = CurrentETag].op = req[h].op
        /\ [req[h] EXCEPT !.pc = "mark", !.result = "conflict"].op = req[h].op
        /\ [req[h] EXCEPT !.pc = "mark", !.result = "ok"].op = req[h].op
    BY <1>1 DEF Request
  <2>2. CASE PutAccepted(h)
    BY <1>5, <2>1, <2>2 DEF PutAccepted
  <2>3. CASE PutRefused(h)
    BY <1>4, <1>5, <2>1, <2>3 DEF PutRefused
  <2>4. CASE GetRemote(h)
    BY <1>5, <2>1, <2>4 DEF GetRemote
  <2>5. CASE DeleteAccepted(h) \/ DeleteRefused(h)
    BY <1>5, <2>1, <2>5 DEF DeleteAccepted, DeleteRefused
  <2>6. CASE PutLost(h) \/ PutFailed(h) \/ DeleteLost(h) \/ DeleteFailed(h)
    BY <1>6, <2>6 DEF PutLost, PutFailed, DeleteLost, DeleteFailed
  <2> QED
    BY <1>7, <2>2, <2>3, <2>4, <2>5, <2>6 DEF CalDav
<1>8. ASSUME NEW h \in Handler, Mark(h) PROVE NoDeletion'
  <2>1. AfterSynced(h) \/ Finish(h)
    BY <1>8 DEF Mark, MarkRefused, MarkUpdateSynced, MarkError, MarkUpdateConflict,
                MarkCreateSynced, MarkCreateError, MarkCreateRowGone,
                MarkDeleteSynced, MarkDeleteConflict, MarkResolved, MarkSplit,
                DropSnapshot
  <2>2. [req[h] EXCEPT !.pc = "drop"].op = req[h].op
    BY <1>1 DEF Request
  <2> QED
    BY <1>4, <1>5, <2>1, <2>2 DEF AfterSynced
<1>9. ASSUME NEW h \in Handler, Prepare(h) PROVE NoDeletion'
  <2>1. ASSUME NEW b, NEW r, Begin(h, b, r), r.op # "delete" PROVE NoDeletion'
    BY <1>2, <2>1 DEF Begin
  <2>2. CASE UpdateLoad(h)
    <3>1. PICK n, tab, patch :
             Begin(h, "update",
                   [Idle EXCEPT !.op = "update", !.pc = "prepare", !.tab = tab,
                                !.n = n, !.ver = rows[n].ver,
                                !.base = rows[n].raw, !.patch = patch,
                                !.raw = Patched(rows[n].raw, patch)])
      BY <2>2 DEF UpdateLoad
    <3>2. [Idle EXCEPT !.op = "update", !.pc = "prepare", !.tab = tab,
                       !.n = n, !.ver = rows[n].ver,
                       !.base = rows[n].raw, !.patch = patch,
                       !.raw = Patched(rows[n].raw, patch)].op = "update"
      BY DEF Idle
    <3> QED
      BY <2>1, <3>1, <3>2
  <2>3. CASE UpdatePrepare(h)
    <3>1. [req[h] EXCEPT !.pc = "put", !.ver = @ + 1, !.tries = 1,
                         !.etag = rows[req[h].n].etag].op = req[h].op
      BY <1>1 DEF Request
    <3> QED
      BY <1>5, <2>3, <3>1 DEF UpdatePrepare
  <2>4. CASE CreateInsert(h)
    <3>1. PICK content :
             Begin(h, "create",
                   [Idle EXCEPT !.op = "create", !.pc = "put", !.n = 1,
                                !.ver = 1, !.raw = content, !.tries = 1])
      BY <2>4 DEF CreateInsert
    <3>2. [Idle EXCEPT !.op = "create", !.pc = "put", !.n = 1,
                       !.ver = 1, !.raw = content, !.tries = 1].op = "create"
      BY DEF Idle
    <3> QED
      BY <2>1, <3>1, <3>2
  <2>5. ~DeletePrepare(h)
    BY DEF DeletePrepare, Begin
  <2>6. CASE UndoUpdatePrepare(h)
    <3>1. PICK tab :
             Begin(h, "undo",
                   [Idle EXCEPT !.op = "undo_update", !.pc = "put", !.tab = tab,
                                !.n = undo[tab].n, !.ver = rows[undo[tab].n].ver + 1,
                                !.base = undo[tab].raw, !.raw = undo[tab].raw,
                                !.snapshot = undo[tab],
                                !.etag = rows[undo[tab].n].etag, !.tries = 1])
      BY <2>6 DEF UndoUpdatePrepare
    <3>2. [Idle EXCEPT !.op = "undo_update", !.pc = "put", !.tab = tab,
                       !.n = undo[tab].n, !.ver = rows[undo[tab].n].ver + 1,
                       !.base = undo[tab].raw, !.raw = undo[tab].raw,
                       !.snapshot = undo[tab],
                       !.etag = rows[undo[tab].n].etag, !.tries = 1].op = "undo_update"
      BY DEF Idle
    <3> QED
      BY <2>1, <3>1, <3>2
  <2>7. CASE UndoDeleteReuse(h) \/ UndoDeleteInsert(h)
    <3>1. PICK tab, n, ver : UndoDelete(h, tab, n, ver)
      BY <2>7 DEF UndoDeleteReuse, UndoDeleteInsert
    <3>2. [Idle EXCEPT !.op = "undo_delete", !.pc = "put", !.tab = tab,
                       !.n = n, !.ver = ver, !.raw = undo[tab].raw,
                       !.snapshot = undo[tab], !.tries = 1].op = "undo_delete"
      BY DEF Idle
    <3> QED
      BY <2>1, <3>1, <3>2 DEF UndoDelete
  <2>8. CASE ResolveLoad(h)
    <3>1. PICK n, k, text :
             Begin(h, "resolve",
                   [Idle EXCEPT !.op = "resolve", !.pc = "put", !.n = n,
                                !.ver = rows[n].ver, !.etag = rows[n].etag,
                                !.raw = text, !.conflict = k, !.tries = 1])
      BY <2>8 DEF ResolveLoad
    <3>2. [Idle EXCEPT !.op = "resolve", !.pc = "put", !.n = n,
                       !.ver = rows[n].ver, !.etag = rows[n].etag,
                       !.raw = text, !.conflict = k, !.tries = 1].op = "resolve"
      BY DEF Idle
    <3> QED
      BY <2>1, <3>1, <3>2
  <2>9. CASE SplitLoad(h)
    <3>1. PICK n, k :
             Begin(h, "split",
                   [Idle EXCEPT !.op = "split", !.pc = "mark", !.n = n,
                                !.ver = rows[n].ver, !.conflict = k,
                                !.result = "ok"])
      BY <2>9 DEF SplitLoad
    <3>2. [Idle EXCEPT !.op = "split", !.pc = "mark", !.n = n,
                       !.ver = rows[n].ver, !.conflict = k,
                       !.result = "ok"].op = "split"
      BY DEF Idle
    <3> QED
      BY <2>1, <3>1, <3>2
  <2>10. CASE UpdateRefused(h)
    BY <1>4, <2>10 DEF UpdateRefused
  <2> QED
    BY <1>9, <2>2, <2>3, <2>4, <2>5, <2>6, <2>7, <2>8, <2>9, <2>10 DEF Prepare
<1>10. ASSUME NEW h \in Handler, Abandon(h) PROVE NoDeletion'
  BY <1>4, <1>10 DEF Abandon
<1>11. CASE \/ UNCHANGED vars \/ \E tab \in Tab : ExpireUndo(tab)
            \/ ScanFetch \/ ScanApply \/ ScanAbort \/ RemoteWrite
  BY <1>3, <1>11 DEF vars, ExpireUndo, ScanFetch, ScanApply, ScanAbort, RemoteWrite
<1> QED
  BY <1>7, <1>8, <1>9, <1>10, <1>11 DEF Next

\* Whatever edits, undos, resolutions, scans and other clients do to each
\* other, a row in state conflict keeps an open entry with its text for the
\* user to choose.  Deletions are left out: a refused one sets the state
\* without an entry (src/internal/db/tasks_delete.go:167).
THEOREM ConflictsKeepLocal ==
    ASSUME "delete" \notin Allowed
    PROVE  Spec => []ConflictKeepsLocal
<1> DEFINE Kind == ConflictKeepsLocal /\ NoDeletion
<1>1. Init => Kind
  <2>1. Init => NoDeletion
    BY DEF Init, Idle, NoDeletion
  <2> QED
    BY <2>1, InitKeepsLocal
<1>2. IInv /\ Kind /\ [Next]_vars => Kind'
  <2> SUFFICES ASSUME IInv, Kind, [Next]_vars PROVE Kind'
    OBVIOUS
  <2>1. ~\E h \in Handler : MarkDeleteConflict(h)
    BY DEF NoDeletion, MarkDeleteConflict, Marking
  <2> QED
    BY <2>1, StepKeepsLocal, NoDeletionKept
<1>3. Kind => ConflictKeepsLocal
  OBVIOUS
<1> HIDE DEF Kind
<1> QED
  BY <1>1, <1>2, <1>3, InvariantHolds, PTL DEF Spec

\* With deletions too, the mark of a refused deletion is the only step of the
\* program after which a row in state conflict may lack its entry.
THEOREM OnlyRefusedDeletionsLose ==
    Spec => [][ConflictKeepsLocal /\ ~(\E h \in Handler : MarkDeleteConflict(h))
                  => ConflictKeepsLocal']_vars
<1>1. IInv /\ [Next]_vars
        => [ConflictKeepsLocal /\ ~(\E h \in Handler : MarkDeleteConflict(h))
               => ConflictKeepsLocal']_vars
  BY StepKeepsLocal
<1> QED
  BY <1>1, InvariantHolds, PTL DEF Spec

-----------------------------------------------------------------------------
(***************************************************************************)
(* Every step of TaskSync is a step of TaskStore on what the rows and the  *)
(* handlers stand for, or changes none of it.                              *)
(***************************************************************************)
\* The rows of the abstract store are a sequence as long as the table.
LEMMA StoredRowsOK ==
    ASSUME NEW table \in Seq(Row)
    PROVE  LET cells == [n \in DOMAIN table |-> Cell(table[n])]
           IN  /\ Len(cells) = Len(table)
               /\ DOMAIN cells = DOMAIN table
               /\ \A n \in DOMAIN table : cells[n] = Cell(table[n])
<1> DEFINE cells == [n \in DOMAIN table |-> Cell(table[n])]
<1>1. DOMAIN table = 1..Len(table) /\ Len(table) \in Nat
  BY LenProperties
<1>2. DOMAIN cells = 1..Len(table)
  BY <1>1
<1>3. Len(cells) = Len(table)
  <2> DEFINE S == {Cell(table[n]) : n \in DOMAIN table}
  <2>1. cells \in [1..Len(table) -> S]
    BY <1>1
  <2> HIDE DEF cells, S
  <2> QED
    BY <1>1, <2>1, FunctionIsSeq
<1> QED
  BY <1>1, <1>2, <1>3

\* A step that leaves the stored edits alone rewrites rows.
LEMMA StepRewrites ==
    ASSUME IInv, IInv', Evolves, Jobs' = Jobs
    PROVE  Store!Rewrite
<1>1. rows \in Seq(Row) /\ rows' \in Seq(Row)
  BY DEF IInv, TypeOK
<1>2. /\ Len(StoredRows) = Len(rows) /\ DOMAIN StoredRows = DOMAIN rows
      /\ \A n \in DOMAIN rows : StoredRows[n] = Cell(rows[n])
  BY <1>1, StoredRowsOK DEF StoredRows
<1>3. /\ Len(StoredRows') = Len(rows') /\ DOMAIN StoredRows' = DOMAIN rows'
      /\ \A n \in DOMAIN rows' : StoredRows'[n] = Cell(rows'[n])
  BY <1>1, StoredRowsOK DEF StoredRows
<1>4. DOMAIN rows \subseteq DOMAIN rows'
  BY <1>1, LenProperties DEF Evolves
<1>5. \A n \in DOMAIN rows : Store!Successor(StoredRows[n], StoredRows'[n])
  BY <1>2, <1>3, <1>4 DEF Evolves, RowStep
<1>6. \A n \in DOMAIN rows' \ DOMAIN rows :
          StoredRows'[n].ver = 1 /\ StoredRows'[n].state = "live"
  <2> SUFFICES ASSUME NEW n \in DOMAIN rows' \ DOMAIN rows
               PROVE  StoredRows'[n].ver = 1 /\ StoredRows'[n].state = "live"
    OBVIOUS
  <2>1. rows'[n].ver = 1 /\ rows'[n].status # "absent"
    BY DEF Evolves
  <2>2. StoredRows'[n] = Cell(rows'[n])
    BY <1>3
  <2>3. Cell(rows'[n]).ver = 1 /\ Cell(rows'[n]).state = "live"
    BY <2>1 DEF Cell
  <2> QED
    BY <2>2, <2>3
<1> HIDE DEF StoredRows
<1> QED
  BY <1>2, <1>3, <1>5, <1>6 DEF Evolves, Store!Rewrite

\* A handler that neither had nor gets an edit to store changes no job.
LEMMA NoJob ==
    ASSUME NEW h \in Handler,
           req \in [Handler -> Request], req' \in [Handler -> Request],
           \A g \in Handler \ {h} : req'[g] = req[g],
           req[h].pc # "prepare", req'[h].pc # "prepare"
    PROVE  Jobs' = Jobs
BY DEF Jobs, JobOf

\* What becomes of the jobs when one handler changes.
LEMMA JobSet ==
    ASSUME NEW h \in Handler, req \in [Handler -> Request],
           NEW r, req' = [req EXCEPT ![h] = r]
    PROVE  Jobs' = [Jobs EXCEPT ![h] = JobOf(r)]
<1>1. /\ DOMAIN Jobs = Handler /\ DOMAIN Jobs' = Handler
      /\ Jobs'[h] = JobOf(r)
      /\ \A g \in Handler \ {h} : Jobs'[g] = Jobs[g]
  BY DEF Jobs, JobOf
<1> QED
  BY <1>1 DEF Jobs

\* A handler that ends without a write drops its edit, if it had one.
LEMMA FinishDrops ==
    ASSUME NEW h \in Handler, req \in [Handler -> Request], Finish(h), rows' = rows
    PROVE  Store!Drop(h)
<1>1. Jobs' = [Jobs EXCEPT ![h] = {}]
  <2>1. req' = [req EXCEPT ![h] = Idle] /\ JobOf(Idle) = {}
    BY DEF Finish, Continue, Idle, JobOf
  <2> QED
    BY <2>1, JobSet
<1>2. StoredRows' = StoredRows
  BY DEF StoredRows
<1> QED
  BY <1>1, <1>2 DEF Store!Drop

\* LoadTaskUpdateBase takes on an edit.
LEMMA UpdateLoadBegins ==
    ASSUME IInv, NEW h \in Handler, UpdateLoad(h) PROVE Store!Begin(h)
<1>1. PICK n \in Live, tab \in Tab, patch \in Patch :
         /\ req[h].pc = "idle"
         /\ req' = [req EXCEPT ![h] =
                [Idle EXCEPT !.op = "update", !.pc = "prepare", !.tab = tab,
                             !.n = n, !.ver = rows[n].ver,
                             !.base = rows[n].raw, !.patch = patch,
                             !.raw = Patched(rows[n].raw, patch)]]
         /\ rows' = rows
  <2>1. PICK n \in Live, tab \in Tab, patch \in Patch :
           /\ Begin(h, "update",
                 [Idle EXCEPT !.op = "update", !.pc = "prepare", !.tab = tab,
                              !.n = n, !.ver = rows[n].ver,
                              !.base = rows[n].raw, !.patch = patch,
                              !.raw = Patched(rows[n].raw, patch)])
           /\ rows' = rows
    BY DEF UpdateLoad
  <2> QED
    BY <2>1 DEF Begin
<1> DEFINE next == [Idle EXCEPT !.op = "update", !.pc = "prepare", !.tab = tab,
                             !.n = n, !.ver = rows[n].ver,
                             !.base = rows[n].raw, !.patch = patch,
                             !.raw = Patched(rows[n].raw, patch)]
<1>2. next.pc = "prepare" /\ next.n = n /\ next.patch = patch
  BY DEF Idle
<1>4. req' = [req EXCEPT ![h] = next]
  BY <1>1
<1> HIDE DEF next
<1>5. req \in [Handler -> Request]
  BY DEF IInv, TypeOK
<1>6. Jobs[h] = {} /\ Jobs' = [Jobs EXCEPT ![h] = {[n |-> n, patch |-> patch]}]
  <2>1. req'[h] = next /\ \A g \in Handler \ {h} : req'[g] = req[g]
    BY <1>4, <1>5
  <2>2. JobOf(req[h]) = {} /\ JobOf(req'[h]) = {[n |-> n, patch |-> patch]}
    BY <1>1, <1>2, <2>1 DEF JobOf
  <2> QED
    BY <2>1, <2>2 DEF Jobs
<1>7. n \in DOMAIN rows /\ rows[n].status # "absent"
  BY LiveOK DEF IInv, TypeOK
<1>8. n \in DOMAIN StoredRows /\ StoredRows[n].state = "live"
  BY <1>7 DEF StoredRows, Cell
<1>9. StoredRows' = StoredRows
  BY <1>1 DEF StoredRows
<1>10. patch \in Store!Patch
  BY DEF Patch, Store!Patch
<1> QED
  BY <1>6, <1>8, <1>9, <1>10 DEF Store!Begin

\* PrepareTaskUpdate is the atomic edit: it patches the text the row has.
LEMMA UpdatePrepareEdits ==
    ASSUME IInv, NEW h \in Handler, UpdatePrepare(h) PROVE Store!Edit(h)
<1> DEFINE r == req[h]
           job == [n |-> r.n, patch |-> r.patch]
           row == Pending(rows[r.n], r.raw)
           next == [r EXCEPT !.pc = "put", !.ver = @ + 1, !.tries = 1,
                             !.etag = rows[r.n].etag]
<1>1. /\ r.pc = "prepare" /\ r.n \in Live /\ rows[r.n].ver = r.ver
      /\ rows' = [rows EXCEPT ![r.n] = row]
      /\ req' = [req EXCEPT ![h] = next]
  BY DEF UpdatePrepare, RowAsExpected, SetRow, Continue
<1>2. /\ TypeOK /\ r \in Request /\ RequestOK(r)
      /\ r.n \in DOMAIN rows /\ rows[r.n] \in Row /\ rows[r.n].status # "absent"
  BY <1>1, HandlerOK, LiveOK, ElementOfSeq DEF IInv, TypeOK
<1>3. r.raw = Patched(rows[r.n].raw, r.patch)
  BY <1>1, <1>2 DEF RequestOK, PrepareOK
<1>4. /\ row.ver = rows[r.n].ver + 1 /\ row.raw = r.raw /\ row.status = "pending"
  BY <1>2 DEF Pending, Row
<1>5. next.pc = "put"
  BY <1>2 DEF Request
<1> HIDE DEF row, next
<1>6. Jobs[h] = {job} /\ Jobs' = [Jobs EXCEPT ![h] = {}]
  BY <1>1, <1>2, <1>5, JobSet DEF JobOf, Jobs, TypeOK
<1>7. /\ StoredRows[r.n] = Cell(rows[r.n]) /\ StoredRows[r.n].state = "live"
      /\ r.n \in DOMAIN StoredRows
  BY <1>2 DEF StoredRows, Cell
<1>8. Cell(row) = [ver |-> StoredRows[r.n].ver + 1,
                   raw |-> Patched(StoredRows[r.n].raw, r.patch), state |-> "live"]
  <2>1. /\ StoredRows[r.n].ver = rows[r.n].ver
        /\ StoredRows[r.n].raw = rows[r.n].raw
    BY <1>7 DEF Cell
  <2> QED
    BY <1>3, <1>4, <2>1 DEF Cell
<1>9. StoredRows' = [StoredRows EXCEPT ![r.n] = Cell(row)]
  BY <1>1, <1>2 DEF StoredRows
<1>10. StoredRows' = [StoredRows EXCEPT ![r.n] =
          [ver |-> @.ver + 1, raw |-> Patched(@.raw, r.patch), state |-> "live"]]
  BY <1>8, <1>9
<1>11. job \in Jobs[h] /\ job.n = r.n /\ job.patch = r.patch
  BY <1>6
<1> HIDE DEF job
<1>12. StoredRows' = [StoredRows EXCEPT ![job.n] =
          [ver |-> @.ver + 1, raw |-> Store!Patched(@.raw, job.patch),
           state |-> "live"]]
  BY <1>10, <1>11 DEF Patched, Store!Patched
<1>13. StoredRows[job.n].state = "live"
  BY <1>7, <1>11
<1> QED
  BY <1>6, <1>11, <1>12, <1>13 DEF Store!Edit

\* The other steps of a handler: it has no edit to store, before or after.
LEMMA HandlerRewrites ==
    ASSUME IInv, IInv', Evolves, NEW h \in Handler,
           \/ CreateInsert(h) \/ DeletePrepare(h) \/ UndoUpdatePrepare(h)
           \/ UndoDeleteReuse(h) \/ UndoDeleteInsert(h)
           \/ ResolveLoad(h) \/ SplitLoad(h)
           \/ CalDav(h) \/ Mark(h)
    PROVE  Store!Rewrite
<1>1. /\ req \in [Handler -> Request] /\ req[h] \in Request
      /\ req' \in [Handler -> Request]
  BY DEF IInv, TypeOK
<1>2. ASSUME NEW r, req' = [req EXCEPT ![h] = r],
             req[h].pc # "prepare", r.pc # "prepare"
      PROVE  Store!Rewrite
  BY <1>1, <1>2, NoJob, StepRewrites
<1>3. ASSUME NEW b, NEW r, Begin(h, b, r), r.pc # "prepare"
      PROVE  Store!Rewrite
  <2>1. req[h].pc = "idle" /\ req' = [req EXCEPT ![h] = r]
    BY <1>3 DEF Begin
  <2> QED
    BY <1>2, <1>3, <2>1
<1>4. CASE CreateInsert(h)
  <2>1. PICK content \in Content :
           Begin(h, "create",
                 [Idle EXCEPT !.op = "create", !.pc = "put", !.n = 1,
                              !.ver = 1, !.raw = content, !.tries = 1])
    BY <1>4 DEF CreateInsert
  <2>2. [Idle EXCEPT !.op = "create", !.pc = "put", !.n = 1,
                     !.ver = 1, !.raw = content, !.tries = 1].pc = "put"
    BY DEF Idle
  <2> QED
    BY <1>3, <2>1, <2>2
<1>5. CASE DeletePrepare(h)
  <2>1. PICK n \in Live, tab \in Tab :
           Begin(h, "delete",
                 [Idle EXCEPT !.op = "delete", !.pc = "delete", !.n = n,
                              !.ver = rows[n].ver + 1, !.raw = rows[n].raw,
                              !.etag = rows[n].etag, !.tries = 1])
    BY <1>5 DEF DeletePrepare
  <2>2. [Idle EXCEPT !.op = "delete", !.pc = "delete", !.n = n,
                     !.ver = rows[n].ver + 1, !.raw = rows[n].raw,
                     !.etag = rows[n].etag, !.tries = 1].pc = "delete"
    BY DEF Idle
  <2> QED
    BY <1>3, <2>1, <2>2
<1>6. CASE UndoUpdatePrepare(h)
  <2>1. PICK tab \in Tab :
           Begin(h, "undo",
                 [Idle EXCEPT !.op = "undo_update", !.pc = "put", !.tab = tab,
                              !.n = undo[tab].n, !.ver = rows[undo[tab].n].ver + 1,
                              !.base = undo[tab].raw, !.raw = undo[tab].raw,
                              !.snapshot = undo[tab],
                              !.etag = rows[undo[tab].n].etag, !.tries = 1])
    BY <1>6 DEF UndoUpdatePrepare
  <2>2. [Idle EXCEPT !.op = "undo_update", !.pc = "put", !.tab = tab,
                     !.n = undo[tab].n, !.ver = rows[undo[tab].n].ver + 1,
                     !.base = undo[tab].raw, !.raw = undo[tab].raw,
                     !.snapshot = undo[tab],
                     !.etag = rows[undo[tab].n].etag, !.tries = 1].pc = "put"
    BY DEF Idle
  <2> QED
    BY <1>3, <2>1, <2>2
<1>7. ASSUME NEW tab, NEW n, NEW ver, UndoDelete(h, tab, n, ver)
      PROVE  Store!Rewrite
  <2>1. [Idle EXCEPT !.op = "undo_delete", !.pc = "put", !.tab = tab,
                     !.n = n, !.ver = ver, !.raw = undo[tab].raw,
                     !.snapshot = undo[tab], !.tries = 1].pc = "put"
    BY DEF Idle
  <2> QED
    BY <1>3, <1>7, <2>1 DEF UndoDelete
<1>8. CASE UndoDeleteReuse(h)
  <2>1. PICK tab \in Tab, n \in Reusable : UndoDelete(h, tab, n, rows[n].ver + 1)
    BY <1>8 DEF UndoDeleteReuse
  <2> QED
    BY <1>7, <2>1
<1>9. CASE UndoDeleteInsert(h)
  <2>1. PICK tab \in Tab : UndoDelete(h, tab, Len(rows) + 1, 1)
    BY <1>9 DEF UndoDeleteInsert
  <2> QED
    BY <1>7, <2>1
<1>10. CASE ResolveLoad(h)
  <2>1. PICK n \in Live : \E k \in DOMAIN conflicts[n] :
           \E text \in Resolutions(conflicts[n][k]) :
              Begin(h, "resolve",
                 [Idle EXCEPT !.op = "resolve", !.pc = "put", !.n = n,
                              !.ver = rows[n].ver, !.etag = rows[n].etag,
                              !.raw = text, !.conflict = k, !.tries = 1])
    BY <1>10 DEF ResolveLoad
  <2>2. PICK k, text :
           Begin(h, "resolve",
              [Idle EXCEPT !.op = "resolve", !.pc = "put", !.n = n,
                           !.ver = rows[n].ver, !.etag = rows[n].etag,
                           !.raw = text, !.conflict = k, !.tries = 1])
    BY <2>1
  <2>3. [Idle EXCEPT !.op = "resolve", !.pc = "put", !.n = n,
                     !.ver = rows[n].ver, !.etag = rows[n].etag,
                     !.raw = text, !.conflict = k, !.tries = 1].pc = "put"
    BY DEF Idle
  <2> QED
    BY <1>3, <2>2, <2>3
<1>11. CASE SplitLoad(h)
  <2>1. PICK n \in Live : \E k \in DOMAIN conflicts[n] :
           Begin(h, "split",
              [Idle EXCEPT !.op = "split", !.pc = "mark", !.n = n,
                           !.ver = rows[n].ver, !.conflict = k,
                           !.result = "ok"])
    BY <1>11 DEF SplitLoad
  <2>2. PICK k :
           Begin(h, "split",
              [Idle EXCEPT !.op = "split", !.pc = "mark", !.n = n,
                           !.ver = rows[n].ver, !.conflict = k,
                           !.result = "ok"])
    BY <2>1
  <2>3. [Idle EXCEPT !.op = "split", !.pc = "mark", !.n = n,
                     !.ver = rows[n].ver, !.conflict = k,
                     !.result = "ok"].pc = "mark"
    BY DEF Idle
  <2> QED
    BY <1>3, <2>2, <2>3
<1>12. ASSUME NEW r, Continue(h, r), r.pc # "prepare", req[h].pc # "prepare"
       PROVE  Store!Rewrite
  BY <1>2, <1>12 DEF Continue
<1>13. ASSUME Finish(h), req[h].pc # "prepare"
       PROVE  Store!Rewrite
  <2>1. Idle.pc # "prepare"
    BY DEF Idle
  <2> QED
    BY <1>12, <1>13, <2>1 DEF Finish
<1>14. ASSUME NoAnswer(h), req[h].pc # "prepare"
       PROVE  Store!Rewrite
  <2>1. CASE Continue(h, [req[h] EXCEPT !.tries = @ + 1])
    <3>1. [req[h] EXCEPT !.tries = @ + 1].pc = req[h].pc
      BY <1>1 DEF Request
    <3> QED
      BY <1>12, <1>14, <2>1, <3>1
  <2>2. CASE Continue(h, [req[h] EXCEPT !.pc = "mark", !.result = "fail"])
    <3>1. [req[h] EXCEPT !.pc = "mark", !.result = "fail"].pc = "mark"
      BY <1>1 DEF Request
    <3> QED
      BY <1>12, <1>14, <2>2, <3>1
  <2> QED
    BY <1>13, <1>14, <2>1, <2>2 DEF NoAnswer
<1>15. CASE CalDav(h)
  <2>1. CASE PutAccepted(h)
    <3>1. /\ req[h].pc = "put"
          /\ Continue(h, [req[h] EXCEPT !.pc = "mark", !.result = "ok",
                                        !.newETag = Len(server) + 1])
      BY <2>1 DEF PutAccepted
    <3>2. [req[h] EXCEPT !.pc = "mark", !.result = "ok",
                         !.newETag = Len(server) + 1].pc = "mark"
      BY <1>1 DEF Request
    <3> QED
      BY <1>12, <3>1, <3>2
  <2>2. CASE PutLost(h) \/ PutFailed(h)
    BY <1>14, <2>2 DEF PutLost, PutFailed
  <2>3. CASE PutRefused(h)
    <3>1. /\ req[h].pc = "put"
          /\ Finish(h) \/ Continue(h, [req[h] EXCEPT !.pc = "get"])
      BY <2>3 DEF PutRefused
    <3>2. [req[h] EXCEPT !.pc = "get"].pc = "get"
      BY <1>1 DEF Request
    <3> QED
      BY <1>12, <1>13, <3>1, <3>2
  <2>4. CASE GetRemote(h)
    <3>1. PICK r : r.pc = "mark" /\ Continue(h, r)
      <4>1. [req[h] EXCEPT !.pc = "mark", !.result = "conflict",
                           !.remote = CurrentVTODO,
                           !.newETag = CurrentETag].pc = "mark"
        BY <1>1 DEF Request
      <4>2. [req[h] EXCEPT !.pc = "mark", !.result = "conflict"].pc = "mark"
        BY <1>1 DEF Request
      <4> QED
        BY <2>4, <4>1, <4>2 DEF GetRemote
    <3> QED
      BY <1>12, <2>4, <3>1 DEF GetRemote
  <2>5. CASE DeleteAccepted(h)
    <3>1. /\ req[h].pc = "delete"
          /\ Continue(h, [req[h] EXCEPT !.pc = "mark", !.result = "ok"])
      BY <2>5 DEF DeleteAccepted
    <3>2. [req[h] EXCEPT !.pc = "mark", !.result = "ok"].pc = "mark"
      BY <1>1 DEF Request
    <3> QED
      BY <1>12, <3>1, <3>2
  <2>6. CASE DeleteLost(h) \/ DeleteFailed(h)
    BY <1>14, <2>6 DEF DeleteLost, DeleteFailed
  <2>7. CASE DeleteRefused(h)
    <3>1. /\ req[h].pc = "delete"
          /\ Continue(h, [req[h] EXCEPT !.pc = "mark", !.result = "conflict"])
      BY <2>7 DEF DeleteRefused
    <3>2. [req[h] EXCEPT !.pc = "mark", !.result = "conflict"].pc = "mark"
      BY <1>1 DEF Request
    <3> QED
      BY <1>12, <3>1, <3>2
  <2> QED
    BY <1>15, <2>1, <2>2, <2>3, <2>4, <2>5, <2>6, <2>7 DEF CalDav
<1>16. CASE Mark(h)
  <2>1. req[h].pc \in {"mark", "drop"}
    BY <1>16 DEF Mark, MarkRefused, MarkUpdateSynced, MarkError, MarkUpdateConflict,
                MarkCreateSynced, MarkCreateError, MarkCreateRowGone,
                MarkDeleteSynced, MarkDeleteConflict, MarkResolved, MarkSplit,
                DropSnapshot, Marking
  <2>2. AfterSynced(h) \/ Finish(h)
    BY <1>16 DEF Mark, MarkRefused, MarkUpdateSynced, MarkError, MarkUpdateConflict,
                MarkCreateSynced, MarkCreateError, MarkCreateRowGone,
                MarkDeleteSynced, MarkDeleteConflict, MarkResolved, MarkSplit,
                DropSnapshot
  <2>3. [req[h] EXCEPT !.pc = "drop"].pc = "drop"
    BY <1>1 DEF Request
  <2> QED
    BY <1>12, <1>13, <2>1, <2>2, <2>3 DEF AfterSynced
<1> QED
  BY <1>4, <1>5, <1>6, <1>8, <1>9, <1>10, <1>11, <1>15, <1>16

\* Every step is a step of the abstract store.
LEMMA StepImplements ==
    ASSUME IInv, [Next]_vars
    PROVE  [Store!Next]_<<StoredRows, Jobs>>
<1>1. IInv' /\ Evolves
  BY NextIInv DEF Kept
<1>2. req \in [Handler -> Request]
  BY DEF IInv, TypeOK
<1>3. CASE UNCHANGED vars
  BY <1>3 DEF vars, StoredRows, Jobs
<1>4. ASSUME NEW h \in Handler, Prepare(h) \/ CalDav(h) \/ Mark(h) \/ Abandon(h)
      PROVE  Store!Next
  <2>1. CASE UpdateLoad(h)
    BY <2>1, UpdateLoadBegins DEF Store!Next
  <2>2. CASE UpdatePrepare(h)
    BY <2>2, UpdatePrepareEdits DEF Store!Next
  <2>3. CASE UpdateRefused(h) \/ Abandon(h)
    BY <1>2, <2>3, FinishDrops DEF UpdateRefused, Abandon, Store!Next
  <2>4. CASE \/ CreateInsert(h) \/ DeletePrepare(h) \/ UndoUpdatePrepare(h)
             \/ UndoDeleteReuse(h) \/ UndoDeleteInsert(h)
             \/ ResolveLoad(h) \/ SplitLoad(h)
             \/ CalDav(h) \/ Mark(h)
    BY <1>1, <2>4, HandlerRewrites DEF Store!Next
  <2> QED
    BY <1>4, <2>1, <2>2, <2>3, <2>4 DEF Prepare
<1>5. CASE \/ \E tab \in Tab : ExpireUndo(tab)
           \/ ScanFetch \/ ScanApply \/ ScanAbort \/ RemoteWrite
  <2>1. Jobs' = Jobs
    BY <1>5 DEF ExpireUndo, ScanFetch, ScanApply, ScanAbort, RemoteWrite, Jobs, JobOf
  <2> QED
    BY <1>1, <2>1, StepRewrites DEF Store!Next
<1> QED
  BY <1>3, <1>4, <1>5 DEF Next

LEMMA InitImplements == Init => Store!Init
<1> SUFFICES ASSUME Init PROVE Store!Init
  OBVIOUS
<1>1. Jobs = [h \in Handler |-> {}]
  BY DEF Init, Idle, Jobs, JobOf
<1>2. StoredRows \in {<<>>} \cup {<<cell>> : cell \in
          [ver : {1}, raw : Store!Content, state : {"live"}]}
  <2>1. CASE rows = <<>>
    BY <2>1 DEF StoredRows
  <2>2. ASSUME NEW content \in Content, rows = <<ImportedRow(content, 1)>>
        PROVE  StoredRows \in {<<cell>> : cell \in
                   [ver : {1}, raw : Store!Content, state : {"live"}]}
    <3> DEFINE cell == [ver |-> 1, raw |-> content, state |-> "live"]
    <3>1. Cell(ImportedRow(content, 1)) = cell
      BY DEF Cell, ImportedRow
    <3>2. StoredRows = <<cell>>
      BY <2>2, <3>1 DEF StoredRows
    <3>3. cell \in [ver : {1}, raw : Store!Content, state : {"live"}]
      BY DEF Content, Store!Content
    <3> QED
      BY <3>2, <3>3
  <2> QED
    BY <2>1, <2>2 DEF Init
<1> QED
  BY <1>1, <1>2 DEF Store!Init

\* The unlocked load followed by the checked prepare transaction is one atomic
\* edit, however many handlers, scans and undos run in between.
THEOREM StoreImplemented == Spec => ImplementsTaskStore
<1>1. Init => Store!Init
  BY InitImplements
<1>2. IInv /\ [Next]_vars => [Store!Next]_<<StoredRows, Jobs>>
  BY StepImplements
<1> QED
  BY <1>1, <1>2, InvariantHolds, PTL DEF Spec, Store!Spec, ImplementsTaskStore
=============================================================================
