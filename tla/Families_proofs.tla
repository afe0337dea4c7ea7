-------------------------- MODULE Families_proofs ---------------------------
(***************************************************************************)
(* Proofs about Families, for any tasks, handlers, texts of other clients  *)
(* and numbers of requests, and all faults.                                *)
(*                                                                         *)
(* What a deletion has counted is either still to be gone through, or the  *)
(* row it is at, or gone; and a row that is gone never comes back, since a *)
(* row inserted again has another id.                                      *)
(***************************************************************************)
EXTENDS Families, Operators_proofs

\* Texts that name a task as parent, or none.
Kin == {text \in Content : text["related"] \in Task \cup {None}}

KinRow(row) == row.raw \in Kin /\ row.base \in Kin

\* Ids that no row has, and those that some row has had.
Dead == {id \in Task \X Nat : ~LiveId(id)}

Given == {id \in Task \X Nat : id[2] <= births[id[1]]}

TextsOK == \A t \in Task : /\ server[t].text \in Kin \cup {NoText}
                           /\ scan.answer[t].text \in Kin \cup {NoText}

RowsOK == /\ rows \in [Task -> Row] /\ births \in [Task -> Nat]
          /\ parent \in [Task -> Task \cup {None}]
          /\ \A t \in Task : /\ KinRow(rows[t]) /\ parent[t] # t
                             /\ t \in Live => births[t] # 0
          /\ ParentExists

AtTask == {"prepare", "remote", "mark"}

RequestOK(r) == /\ r.pc # "idle" => r.task \in Task \X Nat
                /\ r.pc \in AtTask => r.cur \in Task \X Nat
                /\ r.pc = "remote" => r.raw \in Kin
                /\ r.pc = "insert" => r.op = "create"

\* How far the loop of a deletion has come.
LoopOK(r, dead) ==
    r.op = "delete" =>
        /\ r.todo \subseteq r.listed /\ r.task \notin r.listed
        /\ r.pc = "load" => r.listed \subseteq r.todo \cup dead
        /\ r.pc \in AtTask => /\ r.listed \subseteq r.todo \cup {r.cur} \cup dead
                              /\ r.cur = r.task => r.todo = {}

RequestsOK == \A h \in Handler : /\ RequestOK(req[h])
                                 /\ req[h].listed \subseteq Given
                                 /\ LoopOK(req[h], Dead)

IInv == TypeOK /\ TextsOK /\ RowsOK /\ RequestsOK

-----------------------------------------------------------------------------
(* Texts and rows.                                                         *)

LEMMA NewTaskKin ==
    ASSUME NEW p \in Task \cup {None}
    PROVE  NewTask(p) \in Kin
<1>1. NewTask(p) \in Content
  BY FamiliesAssumption DEF NewTask, Content
<1>2. NewTask(p)["related"] = p
  BY FamiliesAssumption DEF NewTask
<1> QED
  BY <1>1, <1>2 DEF Kin

LEMMA PatchedKin ==
    ASSUME NEW text \in Kin, NEW patch \in Patch
    PROVE  Patched(text, patch) \in Kin
<1>1. text \in Content /\ Patched(text, patch) \in Content
  BY PatchedType DEF Kin
<1>2. "related" \in Field /\ "related" \notin DOMAIN patch
  BY FamiliesAssumption DEF Patch
<1>3. Patched(text, patch)["related"] = text["related"]
  BY <1>2 DEF Patched
<1> QED
  BY <1>1, <1>3 DEF Kin

LEMMA TargetKin ==
    ASSUME NEW r, NEW row, row.raw \in Kin
    PROVE  Target(r, row) \in Kin
<1> DEFINE patch == [f \in {"status"} |-> IF r.op = "complete" THEN "done" ELSE "open"]
<1>1. patch \in [{"status"} -> Value] /\ {"status"} \in SUBSET KnownField
  BY FamiliesAssumption
<1>2. patch \in Patch
  BY <1>1 DEF Patch
<1> HIDE DEF patch
<1>3. Patched(row.raw, patch) \in Kin
  BY <1>2, PatchedKin
<1> QED
  BY <1>3 DEF Target, patch

LEMMA MergedKin ==
    ASSUME NEW base \in Kin, NEW local \in Kin, NEW remote \in Kin
    PROVE  MergedVTODO(base, local, remote) \in Kin
<1> DEFINE merged == [f \in KnownField |-> IF Changed(base, local, f)
                                          THEN local[f] ELSE remote[f]]
<1>1. \A f \in KnownField : merged[f] \in Value
  BY VtodoAssumption DEF Kin, Content
<1>2. merged \in [KnownField -> Value]
  BY <1>1
<1>3. merged \in Patch
  BY <1>2 DEF Patch
<1> HIDE DEF merged
<1>4. Patched(base, merged) \in Kin
  BY <1>3, PatchedKin
<1> QED
  BY <1>4 DEF MergedVTODO, merged

\* What the operations on rows make of one.
LEMMA KinPending ==
    ASSUME NEW row \in Row, KinRow(row), NEW text \in Kin
    PROVE  KinRow(Pending(row, text))
BY DEF KinRow, Pending, Row

LEMMA KinSynced ==
    ASSUME NEW row \in Row, KinRow(row), NEW etag \in Nat
    PROVE  KinRow(Synced(row, etag)) /\ KinRow(Conflicted(row, etag))
BY DEF KinRow, Synced, Conflicted, Row

LEMMA KinStatus ==
    ASSUME NEW row \in Row, KinRow(row), NEW status
    PROVE  KinRow([row EXCEPT !.status = status])
BY DEF KinRow, Row

LEMMA KinNew ==
    ASSUME NEW text \in Kin, NEW etag \in Nat, NEW row \in Row
    PROVE  /\ KinRow(ImportedRow(text, etag)) /\ KinRow(PendingRow(text))
           /\ KinRow(Imported(row, text, etag))
BY DEF KinRow, ImportedRow, PendingRow, Imported, Row

LEMMA AbsentRowOK == AbsentRow \in Row /\ KinRow(AbsentRow) /\ AbsentRow.status = "absent"
<1>1. NewTask(None) \in Kin /\ NewTask(None) \in Content
  BY NewTaskKin DEF Kin
<1> QED
  BY <1>1 DEF AbsentRow, Row, SyncStatus, KinRow

\* What a scan makes of the texts of a row.
LEMMA AfterVerdictKin ==
    ASSUME NEW row \in Row, KinRow(row), NEW etag \in Nat,
           NEW remote \in Kin \cup {NoText},
           NEW verdict \in {"keep", "import", "merge", "field_conflict",
                            "edit_delete", "delete"},
           verdict \in {"import", "merge"} => remote # NoText
    PROVE  KinRow(AfterVerdict(row, verdict, remote, etag))
<1>1. CASE verdict \in {"keep", "import"}
  BY <1>1, KinNew DEF AfterVerdict
<1>2. CASE verdict = "merge"
  <2>1. MergedVTODO(row.base, row.raw, remote) \in Kin
    BY <1>2, MergedKin DEF KinRow
  <2> QED
    BY <2>1, <1>2, KinNew DEF AfterVerdict
<1>3. CASE verdict \in {"field_conflict", "edit_delete"}
  BY <1>3, KinSynced DEF AfterVerdict
<1>4. CASE verdict = "delete"
  BY <1>4, KinStatus DEF AfterVerdict
<1> QED
  BY <1>1, <1>2, <1>3, <1>4

-----------------------------------------------------------------------------
(* Ids.                                                                    *)

\* A row that comes to be has an id that is new.
Evolves == \A t \in Task : /\ births[t] <= births'[t]
                           /\ t \in Live' => t \in Live \/ births[t] < births'[t]

LEMMA DeadStays ==
    ASSUME births \in [Task -> Nat], births' \in [Task -> Nat], Evolves
    PROVE  Given \subseteq Given' /\ Given \cap Dead \subseteq Dead'
<1> SUFFICES ASSUME NEW id \in Given
             PROVE  id \in Given' /\ (id \in Dead => id \in Dead')
  OBVIOUS
<1>1. /\ id \in Task \X Nat /\ id[1] \in Task /\ id[2] \in Nat
      /\ id[2] <= births[id[1]] /\ births[id[1]] \in Nat /\ births'[id[1]] \in Nat
      /\ births[id[1]] <= births'[id[1]]
  BY DEF Given, Evolves
<1>2. id \in Given'
  BY <1>1 DEF Given
<1>3. id \in Dead => id \in Dead'
  <2> SUFFICES ASSUME id \in Dead, LiveId(id)' PROVE FALSE
    BY <1>1 DEF Dead
  <2>1. id[1] \in Live' /\ births'[id[1]] = id[2]
    BY DEF LiveId
  <2>2. id[1] \in Live /\ births[id[1]] = id[2]
    BY <1>1, <2>1 DEF Evolves
  <2> QED
    BY <2>2 DEF Dead, LiveId
<1> QED
  BY <1>2, <1>3

\* More ids are gone.
LEMMA LoopMore ==
    ASSUME NEW r, NEW dead, NEW more, r.listed \cap dead \subseteq more, LoopOK(r, dead)
    PROVE  LoopOK(r, more)
BY DEF LoopOK

\* A request goes on to what fits the rows after the step.
GoesOn(h) == \E r \in Request : /\ req' = [req EXCEPT ![h] = r]
                                /\ RequestOK(r) /\ r.listed \subseteq Given'
                                /\ LoopOK(r, Dead')

\* Steps of a handler.
LEMMA HandlerStep ==
    ASSUME IInv, NEW h \in Handler, GoesOn(h), RowsOK', Evolves,
           server' \in [Task -> Object],
           \A t \in Task : server'[t].text \in Kin \cup {NoText},
           UNCHANGED scan
    PROVE  IInv'
<1>1. PICK r \in Request : /\ req' = [req EXCEPT ![h] = r]
                           /\ RequestOK(r) /\ r.listed \subseteq Given'
                           /\ LoopOK(r, Dead')
  BY DEF GoesOn
<1>2. /\ req' \in [Handler -> Request] /\ req'[h] = r
      /\ \A k \in Handler \ {h} : req'[k] = req[k]
  BY <1>1 DEF IInv, TypeOK
<1>3. TypeOK'
  BY <1>2 DEF IInv, TypeOK, RowsOK
<1>4. TextsOK'
  BY DEF IInv, TextsOK
<1>5. Given \subseteq Given' /\ Given \cap Dead \subseteq Dead'
  BY DeadStays DEF IInv, RowsOK
<1>6. \A k \in Handler : /\ RequestOK(req'[k]) /\ req'[k].listed \subseteq Given'
                         /\ LoopOK(req'[k], Dead')
  <2> TAKE k \in Handler
  <2>1. CASE k = h
    BY <1>1, <1>2, <2>1
  <2>2. CASE k # h
    <3>1. /\ req'[k] = req[k] /\ RequestOK(req[k]) /\ req[k].listed \subseteq Given
          /\ LoopOK(req[k], Dead)
      BY <1>2, <2>2 DEF IInv, RequestsOK
    <3>2. req[k].listed \cap Dead \subseteq Dead'
      BY <1>5, <3>1
    <3>3. LoopOK(req[k], Dead')
      BY <3>1, <3>2, LoopMore
    <3> QED
      BY <1>5, <3>1, <3>3
  <2> QED
    BY <2>1, <2>2
<1>7. RequestsOK'
  BY <1>6 DEF RequestsOK, RequestOK, LoopOK, AtTask
<1> QED
  BY <1>3, <1>4, <1>7 DEF IInv

LEMMA RowsKept ==
    ASSUME RowsOK, UNCHANGED <<rows, births, parent>>
    PROVE  RowsOK' /\ Evolves
<1>1. Evolves
  BY DEF RowsOK, Evolves, Live
<1> QED
  BY <1>1 DEF RowsOK, ParentExists, Live

\* One row is rewritten.
LEMMA RowRewritten ==
    ASSUME RowsOK, NEW t \in Live, NEW row \in Row, KinRow(row), row.status # "absent",
           SetRow(t, row), UNCHANGED <<births, parent>>
    PROVE  RowsOK' /\ Evolves /\ Live' = Live
<1>1. /\ t \in Task /\ rows' \in [Task -> Row] /\ rows'[t] = row
      /\ \A u \in Task \ {t} : rows'[u] = rows[u]
  BY DEF RowsOK, SetRow, Live
<1>2. Live' = Live
  BY <1>1 DEF Live
<1>3. Evolves
  BY <1>2 DEF Evolves, RowsOK
<1>4. \A u \in Task : KinRow(rows'[u])
  BY <1>1 DEF RowsOK
<1>5. RowsOK'
  <2>1. ParentExists'
    BY <1>2 DEF RowsOK, ParentExists
  <2> QED
    BY <1>1, <1>2, <1>4, <2>1 DEF RowsOK, KinRow
<1> QED
  BY <1>2, <1>3, <1>5

\* Steps that change at most the rows and the requests.
LEMMA RowStep ==
    ASSUME IInv, NEW h \in Handler, GoesOn(h), RowsOK', Evolves,
           UNCHANGED <<server, scan>>
    PROVE  IInv'
<1>1. /\ server' \in [Task -> Object]
      /\ \A t \in Task : server'[t].text \in Kin \cup {NoText}
  BY DEF IInv, TypeOK, TextsOK
<1> QED
  BY <1>1, HandlerStep

\* Steps that change one request only.
LEMMA OnlyRequest ==
    ASSUME IInv, NEW h \in Handler, GoesOn(h), UNCHANGED <<server, rows, births, parent, scan>>
    PROVE  IInv'
<1>1. RowsOK' /\ Evolves
  BY RowsKept DEF IInv
<1> QED
  BY <1>1, RowStep

-----------------------------------------------------------------------------
(* How requests go on.                                                     *)

LEMMA NoRequestOK ==
    /\ NoRequest \in Request /\ RequestOK(NoRequest) /\ NoRequest.pc = "idle"
    /\ NoRequest.listed = {} /\ NoRequest.todo = {} /\ NoRequest.op = "none"
    /\ \A dead : LoopOK(NoRequest, dead)
BY DEF NoRequest, Request, Text, RequestOK, LoopOK, AtTask

LEMMA EndsGoesOn ==
    ASSUME NEW h \in Handler, Ends(h)
    PROVE  GoesOn(h)
<1>1. NoRequest.listed \subseteq Given'
  BY NoRequestOK
<1> QED
  BY <1>1, NoRequestOK, Zenon DEF Ends, Goes, GoesOn

LEMMA NewId ==
    ASSUME IInv, NEW t \in Live
    PROVE  /\ t \in Task /\ Id(t) \in Task \X Nat /\ Id(t) \in Given /\ rows[t] \in Row
           /\ Id(t)[1] = t
<1>1. t \in Task /\ births[t] \in Nat /\ rows[t] \in Row
  BY DEF IInv, RowsOK, Live
<1> QED
  BY <1>1 DEF Id, Given

LEMMA StartStep ==
    ASSUME IInv, NEW h \in Handler, Start(h)
    PROVE  IInv'
<1>1. PICK t \in Live, op \in {"delete", "complete", "reopen"} :
          Accept(h, op, [NoRequest EXCEPT !.pc = IF op = "reopen" THEN "load" ELSE "list",
                             !.task = Id(t), !.ver = rows[t].ver])
  BY DEF Start
<1> DEFINE pc == IF op = "reopen" THEN "load" ELSE "list"
           q == [NoRequest EXCEPT !.pc = pc, !.task = Id(t), !.ver = rows[t].ver]
           r == [q EXCEPT !.op = op]
<1>2. Id(t) \in Task \X Nat /\ rows[t].ver \in Nat /\ pc \in {"load", "list"}
  BY NewId DEF Row
<1>3. req' = [req EXCEPT ![h] = r]
  BY <1>1 DEF Accept
<1> HIDE DEF pc
<1>4. /\ q \in Request /\ q.pc \in {"load", "list"} /\ q.task = Id(t)
      /\ q.listed = {} /\ q.todo = {}
  BY <1>2 DEF NoRequest, Request, Text
<1>5. /\ r \in Request /\ r.task = Id(t) /\ r.pc \in {"load", "list"} /\ r.op = op
      /\ r.listed = {} /\ r.todo = {}
  BY <1>2, <1>4 DEF Request
<1> HIDE DEF r, q
<1>6. RequestOK(r) /\ LoopOK(r, Dead') /\ r.listed \subseteq Given'
  BY <1>2, <1>5 DEF RequestOK, LoopOK, AtTask
<1>7. GoesOn(h)
  BY <1>3, <1>5, <1>6 DEF GoesOn
<1> QED
  BY <1>7, OnlyRequest DEF Start

LEMMA StartCreateStep ==
    ASSUME IInv, NEW h \in Handler, StartCreate(h)
    PROVE  IInv'
<1>1. PICK p \in Live :
          Accept(h, "create", [NoRequest EXCEPT !.pc = "insert", !.task = Id(p)])
  BY DEF StartCreate
<1> DEFINE q == [NoRequest EXCEPT !.pc = "insert", !.task = Id(p)]
           r == [q EXCEPT !.op = "create"]
<1>2. Id(p) \in Task \X Nat
  BY NewId
<1>3. /\ r \in Request /\ r.task = Id(p) /\ r.pc = "insert" /\ r.op = "create"
      /\ r.listed = {}
  BY <1>2 DEF NoRequest, Request, Text
<1>4. req' = [req EXCEPT ![h] = r]
  BY <1>1 DEF Accept
<1> HIDE DEF r
<1>5. RequestOK(r) /\ LoopOK(r, Dead') /\ r.listed \subseteq Given'
  BY <1>2, <1>3 DEF RequestOK, LoopOK, AtTask
<1>6. GoesOn(h)
  BY <1>3, <1>4, <1>5 DEF GoesOn
<1> QED
  BY <1>6, OnlyRequest DEF StartCreate

LEMMA ListStep ==
    ASSUME IInv, NEW h \in Handler, List(h)
    PROVE  IInv'
<1> DEFINE q == req[h]
           kids == {d \in Children(q.task[1]) :
                       q.op = "complete" => rows[d].raw["status"] # "done"}
           found == {Id(c) : c \in kids}
           r(all) == [q EXCEPT !.pc = "load", !.listed = all, !.todo = all]
<1>1. /\ q \in Request /\ q.pc = "list" /\ RequestOK(q) /\ q.task \in Task \X Nat
      /\ UNCHANGED <<server, rows, births, parent, scan>>
  BY DEF IInv, TypeOK, RequestsOK, RequestOK, List
<1>2. \A id \in found : id \in Task \X Nat /\ id \in Given /\ id # q.task
  <2> TAKE id \in found
  <2>1. PICK c \in kids : id = Id(c)
    OBVIOUS
  <2>2. c \in Live /\ parent[c] = q.task[1]
    BY DEF Children
  <2>3. Id(c)[1] = c /\ Id(c) \in Given /\ Id(c) \in Task \X Nat /\ c \in Task
    BY <2>2, NewId
  <2>4. parent[c] # c
    BY <2>3 DEF IInv, RowsOK
  <2> QED
    BY <2>1, <2>2, <2>3, <2>4
<1>3. \/ Ends(h)
      \/ \E all \in {found, {}} : Goes(h, r(all))
  BY DEF List
<1>4. ASSUME NEW all \in {found, {}}, Goes(h, r(all))
      PROVE  GoesOn(h)
  <2>1. all \in SUBSET (Task \X Nat) /\ all \subseteq Given /\ q.task \notin all
    BY <1>2
  <2> HIDE DEF found
  <2>2. /\ r(all) \in Request /\ r(all).pc = "load" /\ r(all).listed = all
        /\ r(all).todo = all /\ r(all).task = q.task
    BY <1>1, <2>1 DEF Request
  <2>3. req' = [req EXCEPT ![h] = r(all)]
    BY <1>4 DEF Goes
  <2>4. Given' = Given
    BY <1>1 DEF Given
  <2> HIDE DEF r
  <2>5. RequestOK(r(all)) /\ LoopOK(r(all), Dead') /\ r(all).listed \subseteq Given'
    BY <1>1, <2>1, <2>2, <2>4 DEF RequestOK, LoopOK, AtTask
  <2> QED
    BY <2>2, <2>3, <2>5 DEF GoesOn
<1>5. GoesOn(h)
  BY <1>3, <1>4, EndsGoesOn
<1> QED
  BY <1>1, <1>5, OnlyRequest

LEMMA LoadStep ==
    ASSUME IInv, NEW h \in Handler, Load(h)
    PROVE  IInv'
<1> DEFINE q == req[h]
<1>1. /\ q \in Request /\ q.pc = "load" /\ RequestOK(q) /\ q.task \in Task \X Nat
      /\ q.listed \subseteq Given /\ LoopOK(q, Dead)
      /\ UNCHANGED <<server, rows, births, parent, scan>>
  BY DEF IInv, TypeOK, RequestsOK, RequestOK, Load
<1>2. PICK id \in Nexts(q) :
          IF LiveId(id)
          THEN Goes(h, [q EXCEPT !.pc = "prepare", !.cur = id, !.todo = q.todo \ {id},
                         !.seen = IF id = q.task THEN q.ver ELSE rows[id[1]].ver])
          ELSE Ends(h)
  BY DEF Load
<1>3. id \in Task \X Nat /\ (id \in q.todo \/ (q.todo = {} /\ id = q.task))
  BY <1>1 DEF Nexts, Request
<1> DEFINE seen == IF id = q.task THEN q.ver ELSE rows[id[1]].ver
           r == [q EXCEPT !.pc = "prepare", !.cur = id, !.todo = q.todo \ {id}, !.seen = seen]
<1>4. Dead' = Dead /\ Given' = Given
  BY <1>1 DEF Dead, Given, LiveId, Live
<1>5. CASE ~LiveId(id)
  BY <1>1, <1>2, <1>5, EndsGoesOn, OnlyRequest
<1>6. CASE LiveId(id)
  <2>1. seen \in Nat
    BY <1>1, <1>3 DEF Request, IInv, TypeOK, Row
  <2>2. Goes(h, r)
    BY <1>2, <1>6
  <2> HIDE DEF seen
  <2>3. /\ r \in Request /\ r.pc = "prepare" /\ r.cur = id /\ r.todo = q.todo \ {id}
        /\ r.listed = q.listed /\ r.task = q.task /\ r.op = q.op
    BY <1>1, <1>3, <2>1 DEF Request
  <2> HIDE DEF r
  <2>4. RequestOK(r) /\ r.listed \subseteq Given'
    BY <1>1, <1>3, <1>4, <2>3 DEF RequestOK, AtTask
  <2>5. LoopOK(r, Dead')
    BY <1>1, <1>3, <1>4, <2>3 DEF LoopOK, AtTask
  <2>6. GoesOn(h)
    BY <2>2, <2>3, <2>4, <2>5 DEF GoesOn, Goes
  <2> QED
    BY <1>1, <2>6, OnlyRequest
<1> QED
  BY <1>5, <1>6

LEMMA PrepareStep ==
    ASSUME IInv, NEW h \in Handler, Prepare(h)
    PROVE  IInv'
<1> DEFINE q == req[h]
           t == q.cur[1]
           row == rows[t]
           text == IF q.op = "delete" THEN row.raw ELSE Target(q, row)
           r == [q EXCEPT !.pc = "remote", !.seen = row.ver + 1, !.etag = row.etag,
                          !.raw = text, !.base = row.raw]
<1>1. /\ q \in Request /\ q.pc = "prepare" /\ RequestOK(q) /\ q.cur \in Task \X Nat
      /\ q.task \in Task \X Nat /\ q.listed \subseteq Given /\ LoopOK(q, Dead)
      /\ UNCHANGED <<server, births, parent, scan>>
  BY DEF IInv, TypeOK, RequestsOK, RequestOK, AtTask, Prepare
<1>2. CASE ~(LiveId(q.cur) /\ row.ver = q.seen)
  BY <1>1, <1>2, EndsGoesOn, OnlyRequest DEF Prepare
<1>3. CASE LiveId(q.cur) /\ row.ver = q.seen
  <2>1. SetRow(t, Pending(row, text)) /\ Goes(h, r)
    BY <1>3 DEF Prepare
  <2>2. t \in Live /\ row \in Row /\ KinRow(row)
    BY <1>3 DEF LiveId, IInv, RowsOK, Live
  <2>3. text \in Kin /\ text \in Content
    BY <2>2, TargetKin DEF KinRow, Kin
  <2>4. row.ver + 1 \in Nat /\ row.etag \in Nat /\ row.raw \in Text /\ text \in Text
    BY <2>2, <2>3 DEF Row, Text
  <2> HIDE DEF text
  <2>5. /\ r \in Request /\ r.pc = "remote" /\ r.cur = q.cur /\ r.todo = q.todo
        /\ r.listed = q.listed /\ r.task = q.task /\ r.op = q.op /\ r.raw = text
    BY <1>1, <2>4 DEF Request
  <2> HIDE DEF r
  <2>6. /\ Pending(row, text) \in Row /\ Pending(row, text).status # "absent"
        /\ KinRow(Pending(row, text))
    BY <2>2, <2>3, PendingRowOK, KinPending
  <2>7. RowsOK' /\ Evolves /\ Live' = Live
    BY <1>1, <2>1, <2>2, <2>6, RowRewritten DEF IInv
  <2>8. Dead' = Dead /\ Given' = Given
    BY <1>1, <2>7 DEF Dead, Given, LiveId
  <2>9. RequestOK(r) /\ r.listed \subseteq Given'
    BY <1>1, <2>3, <2>5, <2>8 DEF RequestOK, AtTask
  <2>10. LoopOK(r, Dead')
    BY <1>1, <2>5, <2>8 DEF LoopOK, AtTask
  <2>11. GoesOn(h)
    BY <2>1, <2>5, <2>9, <2>10 DEF GoesOn, Goes
  <2> QED
    BY <1>1, <2>7, <2>11, RowStep
<1> QED
  BY <1>2, <1>3

LEMMA InsertStep ==
    ASSUME IInv, NEW h \in Handler, Insert(h)
    PROVE  IInv'
<1> DEFINE q == req[h]
           p == q.task[1]
           r(c) == [q EXCEPT !.pc = "remote", !.cur = <<c, 1>>, !.raw = NewTask(p)]
<1>1. /\ q \in Request /\ q.pc = "insert" /\ q.task \in Task \X Nat
      /\ UNCHANGED <<server, scan>>
  BY DEF IInv, TypeOK, RequestsOK, RequestOK, Insert
<1>2. CASE ~LiveId(q.task)
  BY <1>1, <1>2, EndsGoesOn, OnlyRequest DEF Insert
<1>3. CASE LiveId(q.task)
  <2>1. PICK c \in Task : /\ births[c] = 0
                          /\ SetRow(c, PendingRow(NewTask(p)))
                          /\ births' = [births EXCEPT ![c] = 1]
                          /\ parent' = [parent EXCEPT ![c] = p]
                          /\ Goes(h, r(c))
    BY <1>3 DEF Insert
  <2>2. /\ p \in Live /\ c \notin Live /\ p # c /\ p \in Task
        /\ NewTask(p) \in Kin /\ NewTask(p) \in Content /\ NewTask(p) \in Text
    <3>1. p \in Live /\ p \in Task
      BY <1>3 DEF LiveId, Live
    <3>2. c \notin Live
      BY <2>1 DEF IInv, RowsOK
    <3>3. NewTask(p) \in Kin
      BY <3>1, NewTaskKin
    <3> QED
      BY <3>1, <3>2, <3>3 DEF Kin, Text
  <2> DEFINE new == PendingRow(NewTask(p))
  <2>3. new \in Row /\ KinRow(new) /\ new.status = "pending"
    BY <2>2, NewRowOK, KinNew
  <2> HIDE DEF new
  <2>4. /\ rows' \in [Task -> Row] /\ rows'[c] = new
        /\ births' \in [Task -> Nat] /\ births'[c] = 1
        /\ parent' \in [Task -> Task \cup {None}] /\ parent'[c] = p
        /\ \A t \in Task \ {c} : /\ rows'[t] = rows[t] /\ births'[t] = births[t]
                                 /\ parent'[t] = parent[t]
    BY <2>1, <2>2, <2>3 DEF IInv, RowsOK, SetRow, new
  <2>5. Live' = Live \cup {c}
    BY <2>2, <2>3, <2>4 DEF Live
  <2>6. Evolves
    BY <2>1, <2>4, <2>5 DEF Evolves, IInv, RowsOK
  <2>7. RowsOK'
    <3>1. ParentExists'
      BY <2>2, <2>4, <2>5 DEF ParentExists, IInv, RowsOK, Live
    <3>2. \A t \in Task : KinRow(rows'[t]) /\ parent'[t] # t
      BY <2>2, <2>3, <2>4 DEF IInv, RowsOK
    <3>3. \A t \in Live' : births'[t] # 0
      BY <2>4, <2>5 DEF IInv, RowsOK, Live
    <3> QED
      BY <2>4, <3>1, <3>2, <3>3 DEF RowsOK, KinRow
  <2>8. /\ r(c) \in Request /\ r(c).pc = "remote" /\ r(c).cur = <<c, 1>>
        /\ r(c).raw = NewTask(p) /\ r(c).task = q.task /\ r(c).op = q.op
        /\ r(c).listed = q.listed /\ r(c).todo = q.todo
    BY <1>1, <2>2 DEF Request
  <2>9. GoesOn(h)
    <3>1. RequestOK(r(c))
      BY <1>1, <2>2, <2>8 DEF RequestOK
    <3>2. q.listed \subseteq Given /\ q.op # "delete"
      BY <1>1 DEF IInv, RequestsOK, RequestOK
    <3>3. r(c).listed \subseteq Given' /\ LoopOK(r(c), Dead')
      BY <2>4, <2>6, <2>8, <3>2, DeadStays DEF IInv, RowsOK, LoopOK
    <3> HIDE DEF r
    <3> QED
      BY <2>1, <2>8, <3>1, <3>3 DEF GoesOn, Goes
  <2> QED
    BY <1>1, <2>6, <2>7, <2>9, RowStep
<1> QED
  BY <1>2, <1>3

\* The marks end with one of these.
LEMMA ContinuesGoesOn ==
    ASSUME IInv, NEW h \in Handler, req[h].pc = "mark", Continues(h),
           births' \in [Task -> Nat], Evolves,
           req[h].op = "delete" => req[h].cur \in Dead'
    PROVE  GoesOn(h)
<1> DEFINE q == req[h]
           r == [q EXCEPT !.pc = "load", !.cur = None, !.result = "none"]
<1>1. /\ q \in Request /\ q.task \in Task \X Nat /\ q.listed \subseteq Given
      /\ LoopOK(q, Dead)
  BY DEF IInv, TypeOK, RequestsOK, RequestOK
<1>2. Ends(h) \/ Goes(h, r)
  BY DEF Continues
<1>3. CASE Goes(h, r)
  <2>1. /\ r \in Request /\ r.pc = "load" /\ r.task = q.task /\ r.op = q.op
        /\ r.listed = q.listed /\ r.todo = q.todo
    BY <1>1 DEF Request
  <2> HIDE DEF r
  <2>2. Given \subseteq Given' /\ Given \cap Dead \subseteq Dead'
    BY DeadStays DEF IInv, RowsOK
  <2>3. RequestOK(r) /\ r.listed \subseteq Given'
    BY <1>1, <2>1, <2>2 DEF RequestOK, AtTask
  <2>4. LoopOK(r, Dead')
    BY <1>1, <2>1, <2>2 DEF LoopOK, AtTask
  <2> QED
    BY <1>3, <2>1, <2>3, <2>4 DEF GoesOn, Goes
<1> QED
  BY <1>2, <1>3, EndsGoesOn

LEMMA RemoteStep ==
    ASSUME IInv, NEW h \in Handler, Remote(h)
    PROVE  IInv'
<1> DEFINE q == req[h]
           t == q.cur[1]
           marked(result, new) == [q EXCEPT !.pc = "mark", !.result = result, !.new = new]
<1>1. /\ q \in Request /\ q.pc = "remote" /\ RequestOK(q) /\ q.cur \in Task \X Nat
      /\ q.task \in Task \X Nat /\ q.listed \subseteq Given /\ LoopOK(q, Dead)
      /\ q.raw \in Kin /\ t \in Task
      /\ UNCHANGED <<rows, births, parent, scan>>
  BY DEF IInv, TypeOK, RequestsOK, RequestOK, AtTask, Remote
<1>2. RowsOK' /\ Evolves /\ Dead' = Dead /\ Given' = Given
  BY <1>1, RowsKept DEF IInv, Dead, Given, LiveId, Live
<1>3. ASSUME NEW result \in {"ok", "fail", "conflict"}, NEW new \in Nat,
             Goes(h, marked(result, new))
      PROVE  GoesOn(h)
  <2> DEFINE r == marked(result, new)
  <2>1. /\ r \in Request /\ r.pc = "mark" /\ r.cur = q.cur /\ r.task = q.task
        /\ r.op = q.op /\ r.listed = q.listed /\ r.todo = q.todo
    BY <1>1 DEF Request
  <2>2. Goes(h, r)
    BY <1>3
  <2> HIDE DEF r
  <2>3. RequestOK(r) /\ r.listed \subseteq Given' /\ LoopOK(r, Dead')
    BY <1>1, <1>2, <2>1 DEF RequestOK, LoopOK, AtTask
  <2> QED
    BY <2>1, <2>2, <2>3 DEF GoesOn, Goes
<1>4. ASSUME Goes(h, q)
      PROVE  GoesOn(h)
  BY <1>1, <1>2, <1>4 DEF GoesOn, Goes
<1>5. /\ server[t] \in Object /\ server[t].last \in Nat /\ server[t].last + 1 \in Nat
      /\ ETag(server[t]) \in Nat /\ 0 \in Nat /\ server[t].text \in Kin \cup {NoText}
  BY <1>1 DEF IInv, TypeOK, TextsOK, Object, ETag
<1>6. GoesOn(h)
  <2> DEFINE n == server[t].last + 1
             e == IF q.op = "delete" THEN 0 ELSE ETag(server[t])
  <2>1. n \in Nat /\ e \in Nat
    BY <1>5
  <2>2. \/ Goes(h, marked("ok", n)) \/ Goes(h, marked("fail", 0)) \/ Goes(h, q)
        \/ Goes(h, marked("conflict", e))
    BY DEF Remote
  <2> HIDE DEF n, e, marked
  <2> QED
    BY <1>3, <1>4, <1>5, <2>1, <2>2
<1>7. CASE UNCHANGED server
  BY <1>1, <1>2, <1>6, <1>7, RowStep
<1>8. CASE server' = [server EXCEPT ![t] = Effect(q)]
  <2>1. Effect(q) \in Object /\ Effect(q).text \in Kin \cup {NoText}
    BY <1>1, <1>5 DEF Effect, Wrote, Object, Kin, Text
  <2>2. /\ server' \in [Task -> Object]
        /\ \A u \in Task : server'[u].text \in Kin \cup {NoText}
    BY <1>1, <1>8, <2>1 DEF IInv, TypeOK, TextsOK
  <2> QED
    BY <1>1, <1>2, <1>6, <2>2, HandlerStep
<1>9. UNCHANGED server \/ server' = [server EXCEPT ![t] = Effect(q)]
  BY DEF Remote
<1> QED
  BY <1>7, <1>8, <1>9

LEMMA MarkDeletedStep ==
    ASSUME IInv, NEW h \in Handler, MarkDeleted(h)
    PROVE  IInv'
<1> DEFINE q == req[h]
           t == q.cur[1]
<1>1. /\ q \in Request /\ q.pc = "mark" /\ q.cur \in Task \X Nat /\ t \in Task
      /\ UNCHANGED <<server, births, scan>>
  BY DEF IInv, TypeOK, RequestsOK, RequestOK, AtTask, MarkDeleted
<1>2. CASE ~(Marked(q) /\ Children(t) = {})
  BY <1>1, <1>2, EndsGoesOn, OnlyRequest DEF MarkDeleted
<1>3. CASE Marked(q) /\ Children(t) = {}
  <2>1. /\ SetRow(t, AbsentRow) /\ parent' = [parent EXCEPT ![t] = None]
        /\ Continues(h)
    BY <1>3 DEF MarkDeleted
  <2>2. /\ rows' \in [Task -> Row] /\ rows'[t] = AbsentRow
        /\ parent' \in [Task -> Task \cup {None}] /\ parent'[t] = None
        /\ births' = births
        /\ \A u \in Task \ {t} : rows'[u] = rows[u] /\ parent'[u] = parent[u]
    BY <1>1, <2>1, AbsentRowOK DEF IInv, RowsOK, SetRow
  <2>3. Live' = Live \ {t}
    BY <2>2, AbsentRowOK DEF Live
  <2>4. Evolves
    BY <2>2, <2>3 DEF Evolves, IInv, RowsOK
  <2>5. RowsOK'
    <3>1. ParentExists'
      <4> SUFFICES ASSUME NEW c \in Live', parent'[c] # None
                   PROVE  parent'[c] \in Live'
        BY DEF ParentExists
      <4>1. c \in Live /\ c # t /\ parent'[c] = parent[c] /\ c \in Task
        BY <2>2, <2>3 DEF Live
      <4>2. parent[c] \in Live /\ parent[c] # t
        BY <1>3, <4>1 DEF IInv, RowsOK, ParentExists, Children
      <4> QED
        BY <2>3, <4>1, <4>2
    <3>2. \A u \in Task : KinRow(rows'[u]) /\ parent'[u] # u
      BY <2>2, AbsentRowOK, FamiliesAssumption DEF IInv, RowsOK
    <3>3. \A u \in Live' : births'[u] # 0
      BY <2>2, <2>3 DEF IInv, RowsOK, Live
    <3> QED
      BY <2>2, <3>1, <3>2, <3>3 DEF IInv, RowsOK, KinRow
  <2>6. q.cur \in Dead'
    BY <1>1, <2>3 DEF Dead, LiveId
  <2>7. births' \in [Task -> Nat]
    BY <1>1 DEF IInv, RowsOK
  <2>8. GoesOn(h)
    BY <1>1, <2>1, <2>4, <2>6, <2>7, ContinuesGoesOn
  <2> QED
    BY <1>1, <2>4, <2>5, <2>8, RowStep
<1> QED
  BY <1>2, <1>3

LEMMA MarkPutStep ==
    ASSUME IInv, NEW h \in Handler, MarkPut(h)
    PROVE  IInv'
<1> DEFINE q == req[h]
           t == q.cur[1]
           row == Synced(rows[t], q.new)
<1>1. /\ q \in Request /\ q.pc = "mark" /\ q.op # "delete" /\ q.new \in Nat
      /\ UNCHANGED <<server, births, parent, scan>>
  BY DEF IInv, TypeOK, Request, MarkPut
<1>2. CASE ~Marked(q)
  BY <1>1, <1>2, EndsGoesOn, OnlyRequest DEF MarkPut
<1>3. CASE Marked(q)
  <2>1. SetRow(t, row) /\ Continues(h)
    BY <1>3 DEF MarkPut
  <2>2. t \in Live /\ rows[t] \in Row /\ KinRow(rows[t])
    BY <1>3 DEF Marked, LiveId, Live, IInv, RowsOK
  <2>3. row \in Row /\ KinRow(row) /\ row.status # "absent"
    BY <1>1, <2>2, SyncedRowOK, KinSynced
  <2> HIDE DEF row
  <2>4. RowsOK' /\ Evolves
    BY <1>1, <2>1, <2>2, <2>3, RowRewritten DEF IInv
  <2>5. GoesOn(h)
    BY <1>1, <2>1, <2>4, ContinuesGoesOn DEF RowsOK
  <2> QED
    BY <1>1, <2>4, <2>5, RowStep
<1> QED
  BY <1>2, <1>3

LEMMA MarkFailedStep ==
    ASSUME IInv, NEW h \in Handler, MarkFailed(h)
    PROVE  IInv'
<1> DEFINE q == req[h]
           t == q.cur[1]
           row == IF q.result = "conflict" THEN Conflicted(rows[t], q.new)
                  ELSE [rows[t] EXCEPT !.status = "error"]
<1>1. /\ q \in Request /\ q.new \in Nat /\ GoesOn(h)
      /\ UNCHANGED <<server, births, parent, scan>>
  BY EndsGoesOn DEF IInv, TypeOK, Request, MarkFailed, AfterFailure
<1>2. CASE ~Marked(q)
  BY <1>1, <1>2, OnlyRequest DEF MarkFailed
<1>3. CASE Marked(q)
  <2>1. SetRow(t, row)
    BY <1>3 DEF MarkFailed
  <2>2. t \in Live /\ rows[t] \in Row /\ KinRow(rows[t])
    BY <1>3 DEF Marked, LiveId, Live, IInv, RowsOK
  <2>3. row \in Row /\ KinRow(row) /\ row.status # "absent"
    <3>1. CASE q.result = "conflict"
      BY <1>1, <2>2, <3>1, ConflictedRowOK, KinSynced
    <3>2. CASE q.result # "conflict"
      BY <2>2, <3>2, StatusRowOK, KinStatus DEF SyncStatus
    <3> QED
      BY <3>1, <3>2
  <2> HIDE DEF row
  <2>4. RowsOK' /\ Evolves
    BY <1>1, <2>1, <2>2, <2>3, RowRewritten DEF IInv
  <2> QED
    BY <1>1, <2>4, RowStep
<1> QED
  BY <1>2, <1>3

-----------------------------------------------------------------------------
(* The scans, the other clients and the end of the process.                *)

LEMMA ScanFetchStep ==
    ASSUME IInv, ScanFetch
    PROVE  IInv'
<1>1. /\ scan' = [pc |-> "apply", answer |-> server]
      /\ UNCHANGED <<server, rows, births, parent, req>>
  BY DEF ScanFetch
<1>2. RowsOK' /\ Dead' = Dead /\ Given' = Given
  BY <1>1, RowsKept DEF IInv, Dead, Given, LiveId, Live
<1>3. TypeOK'
  BY <1>1 DEF IInv, TypeOK
<1>4. TextsOK'
  BY <1>1 DEF IInv, TextsOK
<1>5. RequestsOK'
  BY <1>1, <1>2 DEF IInv, RequestsOK
<1> QED
  BY <1>2, <1>3, <1>4, <1>5 DEF IInv

\* What the scan makes of a row, and when a row is in conflict afterwards.
LEMMA ScannedRowOK ==
    ASSUME IInv, NEW t \in Task
    PROVE  /\ ScannedRow(t) \in Row /\ KinRow(ScannedRow(t))
           /\ ScannedRow(t).status # "absent" => t \in Live \cup Inserted
           /\ ScannedRow(t).status # "absent" /\ scan.answer[t].text = NoText
                  => ScannedRow(t).status = "conflict"
<1> DEFINE o == scan.answer[t]
           row == AfterVerdict(rows[t], ScanVerdict(t), o.text, o.last)
<1>1. /\ rows[t] \in Row /\ KinRow(rows[t]) /\ o.text \in Kin \cup {NoText}
      /\ o.text \in Text /\ o.last \in Nat
  BY DEF IInv, TypeOK, TextsOK, RowsOK, Object
<1>2. CASE t \in Inserted
  <2>1. ScannedRow(t) = ImportedRow(o.text, o.last) /\ o.text # NoText
    BY <1>2 DEF ScannedRow, Inserted
  <2>2. o.text \in Kin /\ o.text \in Content
    BY <1>1, <2>1, ContentText
  <2> QED
    BY <1>1, <1>2, <2>1, <2>2, NewRowOK, KinNew
<1>3. CASE t \notin Inserted /\ t \notin Live
  <2>1. ScannedRow(t) = rows[t]
    BY <1>3 DEF ScannedRow
  <2> QED
    BY <1>1, <1>3, <2>1 DEF Live
<1>4. CASE t \notin Inserted /\ t \in Live
  <2>1. ScannedRow(t) = IF row.status = "absent" THEN AbsentRow ELSE row
    BY <1>4 DEF ScannedRow
  <2>2. /\ ScanVerdict(t) \in {"keep", "import", "merge", "field_conflict",
                               "edit_delete", "delete"}
        /\ ScanVerdict(t) \in {"import", "merge"} => o.text # NoText
    BY VerdictTypes DEF ScanVerdict
  <2>3. row \in Row /\ KinRow(row)
    BY <1>1, <2>2, AfterVerdictType, AfterVerdictKin
  <2>4. row.status # "absent" /\ o.text = NoText => row.status = "conflict"
    <3> SUFFICES ASSUME row.status # "absent", o.text = NoText
                 PROVE  row.status = "conflict"
      OBVIOUS
    <3>1. ScanVerdict(t) = MissingVerdict(rows[t])
      BY DEF ScanVerdict
    <3>2. CASE rows[t].status \in {"conflict", "absent"}
      <4>1. rows[t].status = "conflict" /\ MissingVerdict(rows[t]) = "keep"
        BY <1>4, <3>2, VerdictTypes DEF Live
      <4> QED
        BY <3>1, <4>1 DEF AfterVerdict
    <3>3. CASE rows[t].status \notin {"conflict", "absent"} /\ Clean(rows[t])
      <4>1. ScanVerdict(t) = "delete"
        BY <3>1, <3>3 DEF MissingVerdict
      <4>2. row.status = "absent"
        BY <1>1, <4>1, StatusRowOK DEF AfterVerdict, SyncStatus
      <4> QED
        BY <4>2
    <3>4. CASE rows[t].status \notin {"conflict", "absent"} /\ ~Clean(rows[t])
      <4>1. ScanVerdict(t) = "edit_delete"
        BY <3>1, <3>4 DEF MissingVerdict
      <4> QED
        BY <1>1, <4>1, ConflictedRowOK DEF AfterVerdict
    <3> QED
      BY <3>2, <3>3, <3>4
  <2> HIDE DEF row
  <2> QED
    BY <1>4, <2>1, <2>3, <2>4, AbsentRowOK
<1> QED
  BY <1>2, <1>3, <1>4

\* The links that a scan leaves: a link goes to another row, and that row has
\* none itself, or one of the two is in conflict.
LEMMA ScannedLinks ==
    ASSUME IInv, NEW after, after = [t \in Task |-> ScannedRow(t)],
           NEW links, links = Linked(Cleared(after), after), NEW c \in Task
    PROVE  /\ links[c] \in Task \cup {None} /\ links[c] # c
           /\ links[c] # None => /\ after[links[c]].status # "absent"
                                 /\ \/ links[links[c]] = None
                                    \/ after[c].status = "conflict"
                                    \/ after[links[c]].status = "conflict"
<1> DEFINE related(u) == IF scan.answer[u].text = NoText THEN None
                         ELSE scan.answer[u].text["related"]
           bound(u) == scan.answer[u].text # NoText /\ after[u].status # "conflict"
<1>1. \A u \in Task : related(u) \in Task \cup {None}
  BY DEF IInv, TextsOK, Kin
<1>2. \A u \in Task : links[u] = IF bound(u) THEN LinkTarget(u, after)
                                 ELSE Cleared(after)[u]
  BY DEF Linked
<1>3. \A u \in Task : LinkTarget(u, after) =
          IF related(u) = None THEN None
          ELSE IF after[related(u)].status # "absent" /\ related(related(u)) = None
               THEN related(u) ELSE None
  BY DEF LinkTarget
<1>4. \A u \in Task : Cleared(after)[u] =
          IF after[u].status = "absent" \/ parent[u] = None THEN None
          ELSE IF after[parent[u]].status = "absent" THEN None ELSE parent[u]
  BY DEF Cleared
<1>5. \A u \in Task : parent[u] \in Task \cup {None} /\ parent[u] # u
  BY DEF IInv, RowsOK
<1>6. \A u \in Task : /\ after[u] = ScannedRow(u)
                      /\ after[u].status # "absent" /\ scan.answer[u].text = NoText
                             => after[u].status = "conflict"
  BY ScannedRowOK
<1>7. scan.answer[c].text = NoText => related(c) = None
  OBVIOUS
<1> HIDE DEF related
<1>8. CASE bound(c)
  <2>1. links[c] = LinkTarget(c, after)
    BY <1>2, <1>8
  <2>2. CASE links[c] = None
    BY <2>2, FamiliesAssumption
  <2>3. CASE links[c] # None
    <3> DEFINE p == related(c)
    <3>1. /\ links[c] = p /\ p \in Task /\ after[p].status # "absent"
          /\ related(p) = None /\ p # c
      BY <1>1, <1>3, <2>1, <2>3
    <3>2. CASE bound(p)
      <4>1. links[p] = None
        BY <1>2, <1>3, <3>1, <3>2
      <4> QED
        BY <3>1, <4>1
    <3>3. CASE ~bound(p)
      <4>1. after[p].status = "conflict"
        BY <1>6, <3>1, <3>3
      <4> QED
        BY <3>1, <4>1
    <3> QED
      BY <3>2, <3>3
  <2> QED
    BY <2>2, <2>3
<1>9. CASE ~bound(c)
  <2>1. links[c] = Cleared(after)[c]
    BY <1>2, <1>9
  <2>2. after[c].status = "absent" \/ after[c].status = "conflict"
    BY <1>6, <1>9
  <2> QED
    BY <1>4, <1>5, <2>1, <2>2, FamiliesAssumption
<1> QED
  BY <1>8, <1>9

LEMMA ScanApplyStep ==
    ASSUME IInv, ScanApply
    PROVE  IInv'
<1> DEFINE after == [t \in Task |-> ScannedRow(t)]
           links == Linked(Cleared(after), after)
<1>1. /\ rows' = after /\ parent' = links
      /\ births' = [t \in Task |-> IF t \in Inserted THEN births[t] + 1 ELSE births[t]]
      /\ scan' = NoScan /\ UNCHANGED <<server, req>>
  BY DEF ScanApply
<1>2. \A t \in Task : /\ after[t] \in Row /\ KinRow(after[t])
                      /\ after[t].status # "absent" => t \in Live \cup Inserted
  BY ScannedRowOK
<1>3. \A t \in Task : /\ links[t] \in Task \cup {None} /\ links[t] # t
                      /\ links[t] # None => after[links[t]].status # "absent"
  <2> TAKE t \in Task
  <2> HIDE DEF links, after
  <2> QED
    BY ScannedLinks DEF links, after
<1>4. DOMAIN links = Task /\ links = [t \in Task |-> links[t]]
  BY DEF Linked
<1> HIDE DEF after, links
<1>5. /\ rows' \in [Task -> Row] /\ parent' \in [Task -> Task \cup {None}]
      /\ births' \in [Task -> Nat]
  <2>1. \A t \in Task : births[t] \in Nat /\ births[t] + 1 \in Nat
    BY DEF IInv, RowsOK
  <2>2. after = [t \in Task |-> after[t]]
    BY DEF after
  <2> QED
    BY <1>1, <1>2, <1>3, <1>4, <2>1, <2>2
<1>6. \A t \in Task : /\ births[t] \in Nat
                      /\ t \in Live' => t \in Live \/ births'[t] = births[t] + 1
                      /\ births'[t] \in {births[t], births[t] + 1}
  BY <1>1, <1>2 DEF IInv, RowsOK, Live
<1>7. Evolves
  BY <1>6 DEF Evolves
<1>8. RowsOK'
  <2>1. ParentExists'
    BY <1>1, <1>3 DEF ParentExists, Live
  <2>2. \A t \in Task : /\ KinRow(rows'[t]) /\ parent'[t] # t
                        /\ t \in Live' => births'[t] # 0
    BY <1>1, <1>2, <1>3, <1>6 DEF IInv, RowsOK
  <2> QED
    BY <1>5, <2>1, <2>2 DEF RowsOK, KinRow
<1>9. TypeOK' /\ TextsOK'
  BY <1>1, <1>5 DEF IInv, TypeOK, TextsOK, NoScan, Object, Text
<1>10. RequestsOK'
  <2>1. Given \subseteq Given' /\ Given \cap Dead \subseteq Dead'
    BY <1>5, <1>7, DeadStays DEF IInv, RowsOK
  <2>2. \A h \in Handler : LoopOK(req[h], Dead')
    <3> TAKE h \in Handler
    <3>1. LoopOK(req[h], Dead) /\ req[h].listed \cap Dead \subseteq Dead'
      BY <2>1 DEF IInv, RequestsOK
    <3> QED
      BY <3>1, LoopMore
  <2> QED
    BY <1>1, <2>1, <2>2 DEF IInv, RequestsOK
<1> QED
  BY <1>8, <1>9, <1>10 DEF IInv

LEMMA OtherClientStep ==
    ASSUME IInv, OtherClient
    PROVE  IInv'
<1>1. PICK t \in Task, v \in RemoteText \cup {NoText} :
          server' = [server EXCEPT ![t] = Wrote(server[t], v)]
  BY DEF OtherClient
<1>2. UNCHANGED <<rows, births, parent, req, scan>>
  BY DEF OtherClient
<1>3. v \in Kin \cup {NoText} /\ v \in Text /\ server[t].last + 1 \in Nat
  BY FamiliesAssumption DEF Kin, Text, IInv, TypeOK, Object
<1>4. Wrote(server[t], v) \in Object /\ Wrote(server[t], v).text = v
  BY <1>3 DEF Wrote, Object
<1>5. RowsOK' /\ Dead' = Dead /\ Given' = Given
  BY <1>2, RowsKept DEF IInv, Dead, Given, LiveId, Live
<1>6. TypeOK' /\ TextsOK'
  BY <1>1, <1>2, <1>3, <1>4 DEF IInv, TypeOK, TextsOK
<1>7. RequestsOK'
  BY <1>2, <1>5 DEF IInv, RequestsOK
<1> QED
  BY <1>5, <1>6, <1>7 DEF IInv

LEMMA CrashStep ==
    ASSUME IInv, Crash
    PROVE  IInv'
<1>1. /\ req' = [h \in Handler |-> NoRequest] /\ scan' = NoScan
      /\ UNCHANGED <<server, rows, births, parent>>
  BY DEF Crash
<1>2. RowsOK'
  BY <1>1, RowsKept DEF IInv
<1>3. TypeOK' /\ TextsOK'
  BY <1>1, NoRequestOK DEF IInv, TypeOK, TextsOK, NoScan, Object, Text
<1>4. RequestsOK'
  BY <1>1, NoRequestOK DEF RequestsOK
<1> QED
  BY <1>2, <1>3, <1>4 DEF IInv

LEMMA InitIInv == Init => IInv
<1> SUFFICES ASSUME Init PROVE IInv
  OBVIOUS
<1>1. PICK p \in Task, kid \in Task :
          /\ p # kid
          /\ LET all == {p, kid}
                 text(t) == NewTask(IF t = p THEN None ELSE p)
             IN  /\ server = [t \in Task |-> IF t \in all THEN [text |-> text(t), last |-> 1]
                                              ELSE [text |-> NoText, last |-> 0]]
                 /\ rows = [t \in Task |-> IF t \in all THEN ImportedRow(text(t), 1)
                                            ELSE AbsentRow]
                 /\ births = [t \in Task |-> IF t \in all THEN 1 ELSE 0]
                 /\ parent = [t \in Task |-> IF t = kid THEN p ELSE None]
  BY DEF Init
<1> DEFINE text(t) == NewTask(IF t = p THEN None ELSE p)
<1>2. \A t \in Task : text(t) \in Kin /\ text(t) \in Text /\ text(t) \in Content
  BY NewTaskKin DEF Kin, Text
<1>3. req = [h \in Handler |-> NoRequest] /\ scan = NoScan
  BY DEF Init
<1>4. \A t \in Task : ImportedRow(text(t), 1) \in Row /\ KinRow(ImportedRow(text(t), 1))
  BY <1>2, NewRowOK, KinNew, AbsentRowOK
<1>5. /\ server = [t \in Task |-> IF t \in {p, kid} THEN [text |-> text(t), last |-> 1]
                                  ELSE [text |-> NoText, last |-> 0]]
      /\ rows = [t \in Task |-> IF t \in {p, kid} THEN ImportedRow(text(t), 1)
                                ELSE AbsentRow]
  BY <1>1
<1> HIDE DEF text
<1>6. TypeOK /\ TextsOK
  <2>1. server \in [Task -> Object] /\ \A t \in Task : server[t].text \in Kin \cup {NoText}
    BY <1>2, <1>5 DEF Object, Text
  <2>2. rows \in [Task -> Row] /\ births \in [Task -> Nat]
    BY <1>1, <1>4, <1>5, AbsentRowOK
  <2>3. parent \in [Task -> Task \cup {None}] /\ req \in [Handler -> Request]
    BY <1>1, <1>3, NoRequestOK
  <2> QED
    BY <1>3, <2>1, <2>2, <2>3 DEF TypeOK, TextsOK, NoScan, Object, Text
<1>7. RowsOK
  <2>1. Live = {p, kid}
    <3>1. \A t \in Task : ImportedRow(text(t), 1).status # "absent"
      BY <1>2, NewRowOK
    <3> QED
      BY <1>5, <3>1, AbsentRowOK DEF Live
  <2>2. \A t \in Task : KinRow(rows[t]) /\ parent[t] # t
    BY <1>1, <1>4, <1>5, AbsentRowOK, FamiliesAssumption
  <2>3. ParentExists /\ \A t \in Live : births[t] # 0
    BY <1>1, <2>1 DEF ParentExists
  <2> QED
    BY <1>6, <2>2, <2>3 DEF RowsOK, TypeOK
<1>8. RequestsOK
  BY <1>3, NoRequestOK DEF RequestsOK
<1> QED
  BY <1>6, <1>7, <1>8 DEF IInv

LEMMA NextIInv ==
    ASSUME IInv, [Next]_vars
    PROVE  IInv'
<1>1. ASSUME NEW h \in Handler, Start(h) \/ StartCreate(h) \/ Work(h)
      PROVE  IInv'
  BY <1>1, StartStep, StartCreateStep, ListStep, LoadStep, PrepareStep, InsertStep,
     RemoteStep, MarkDeletedStep, MarkPutStep, MarkFailedStep DEF Work
<1>2. CASE UNCHANGED vars
  <2>1. RowsOK' /\ Dead' = Dead /\ Given' = Given
    BY <1>2, RowsKept DEF vars, IInv, Dead, Given, LiveId, Live
  <2> QED
    BY <1>2, <2>1 DEF vars, IInv, TypeOK, TextsOK, RequestsOK
<1> QED
  BY <1>1, <1>2, ScanFetchStep, ScanApplyStep, OtherClientStep, CrashStep DEF Next

-----------------------------------------------------------------------------
\* Every parent_id refers to a row, every text names a task or none as its
\* parent, and what TaskDelete has counted and gone through is gone: whatever
\* requests, scans and clients do to the family in between.
THEOREM FamiliesInvariant == Spec => []IInv
<1>1. Init => IInv
  BY InitIInv
<1>2. IInv /\ [Next]_vars => IInv'
  BY NextIInv
<1> QED
  BY <1>1, <1>2, PTL DEF Spec

\* The state keeps its types.
THEOREM TypeCorrect == Spec => []TypeOK
<1>1. IInv => TypeOK
  BY DEF IInv
<1> QED
  BY <1>1, FamiliesInvariant, PTL

\* Every parent_id refers to a row: InsertPendingTask and MarkTaskDeleteSynced
\* under the foreign key, and a scan, which deletes rows and sets links in one
\* transaction, without it.
THEOREM ParentsExist == Spec => []ParentExists
<1>1. IInv => ParentExists
  BY DEF IInv, RowsOK
<1> QED
  BY <1>1, FamiliesInvariant, PTL

\* After ApplyFullScanProject no subtask has subtasks, but for rows in
\* conflict, however stale the answer is and whatever was linked before.
THEOREM ScansFlatten == Spec => ScanFlattens
<1>1. IInv /\ [Next]_vars =>
         [ScanApply =>
             \A c \in Task : LET p == parent'[c]
                             IN  p # None => \/ parent'[p] = None
                                             \/ "conflict" \in {rows'[c].status,
                                                                rows'[p].status}]_vars
  <2> SUFFICES ASSUME IInv, ScanApply, NEW c \in Task, parent'[c] # None
               PROVE  \/ parent'[parent'[c]] = None
                      \/ "conflict" \in {rows'[c].status, rows'[parent'[c]].status}
    OBVIOUS
  <2> DEFINE after == [t \in Task |-> ScannedRow(t)]
             links == Linked(Cleared(after), after)
  <2>1. rows' = after /\ parent' = links
    BY DEF ScanApply
  <2> HIDE DEF after, links
  <2> QED
    BY <2>1, ScannedLinks DEF after, links
<1> QED
  BY <1>1, FamiliesInvariant, PTL DEF Spec, ScanFlattens

\* When TaskDelete sends the DELETE of a parent, none of the subtasks that it
\* has counted still has its row, whatever failed or was overtaken on the way.
THEOREM ParentsGoLast == Spec => ParentGoesLast
<1>1. IInv /\ [Next]_vars =>
         [\A h \in Handler :
             req[h].op = "delete" /\ req[h].cur = req[h].task /\ req[h].pc = "remote"
             => \A c \in req[h].listed : ~LiveId(c)]_vars
  <2> SUFFICES ASSUME IInv, NEW h \in Handler, req[h].op = "delete",
                      req[h].cur = req[h].task, req[h].pc = "remote",
                      NEW c \in req[h].listed
               PROVE  ~LiveId(c)
    OBVIOUS
  <2>1. LoopOK(req[h], Dead)
    BY DEF IInv, RequestsOK
  <2>2. c \in Dead
    BY <2>1 DEF LoopOK, AtTask
  <2> QED
    BY <2>2 DEF Dead
<1> QED
  BY <1>1, FamiliesInvariant, PTL DEF Spec, ParentGoesLast
=============================================================================
