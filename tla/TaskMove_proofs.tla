-------------------------- MODULE TaskMove_proofs ---------------------------
(***************************************************************************)
(* Proofs about TaskMove, for any calendars, rows, handlers, texts and     *)
(* numbers of requests, and all faults.                                    *)
(*                                                                         *)
(* That the task is never lost rests on the DELETE with the etag that was  *)
(* known before the PUT: no two objects have the same etag, so what a PUT  *)
(* has just written is a copy that no deletion under way can hit, also     *)
(* when it replaced another.  That a move ends alone rests on the etags    *)
(* too: nothing but a move puts an object where there is none, since every *)
(* row knows an etag.                                                      *)
(***************************************************************************)
EXTENDS TaskMove, Operators_proofs, FiniteSetTheorems

\* The calendars that hold a copy.
Filled == {c \in Calendar : copies[c].text # NoText}

\* A copy that no deletion under way will remove.
Safe(c) == /\ copies[c].text # NoText
           /\ \A h \in Handler : req[h].pc = "delete" /\ req[h].from = c
                                   => req[h].etag # copies[c].last

CopiesOK == "otherDelete" \notin Allowed => \E c \in Calendar : Safe(c)

\* An etag that some calendar has already given.
Given(n, objects) == \E c \in Calendar : n <= objects[c].last

GivenOK == /\ \A i \in Id : Given(rows[i].etag, copies)
           /\ Given(scan.answer.last, copies)
           /\ \A h \in Handler : /\ Given(req[h].etag, copies)
                                   /\ Given(req[h].new, copies)

\* What there is has an etag.
ObjectOK(o) == o.text # NoText => o.last # 0

EtagsOK == /\ \A c \in Calendar : ObjectOK(copies[c])
           /\ ObjectOK(scan.answer)
           /\ \A i \in Live : rows[i].etag # 0

OnServer == {"put", "delete", "get", "mark"}

RequestOK(r) ==
    /\ r.pc # "idle" => r.id \in Id /\ r.to \in Calendar /\ r.raw \in Content
    /\ r.pc \in OnServer => r.from \in Calendar /\ r.etag # 0
    /\ r.pc = "delete" => Moves(r) /\ r.new # 0
    /\ r.pc = "mark" /\ r.result \in {"ok", "copied"} => r.new # 0
    /\ r.pc = "mark" => r.result # "none"

RequestsOK == \A h \in Handler : RequestOK(req[h])

\* The move that has the task for itself, after its PUT and after its DELETE.
AloneOK ==
    \A h \in Handler : alone = h =>
        /\ \A k \in Handler : Moving(req[k]) => k = h
        /\ LET r == req[h]
               ended == r.pc = "mark" /\ r.result = "ok"
           IN  Moves(r) =>
               /\ (r.pc = "delete" \/ ended) /\ "otherDelete" \notin Allowed
                      => copies[r.to].text # NoText
               /\ ended => copies[r.from].text = NoText

IInv == TypeOK /\ CopiesOK /\ GivenOK /\ EtagsOK /\ RequestsOK /\ AloneOK

-----------------------------------------------------------------------------
(* Numbers of versions.                                                    *)

\* The number of a new version is one that no calendar has had.
LEMMA HighestType ==
    ASSUME copies \in [Calendar -> Object]
    PROVE  Highest \in Nat /\ \A c \in Calendar : copies[c].last <= Highest
<1> DEFINE f == [c \in Calendar |-> copies[c].last]
<1>1. f \in [Calendar -> Nat]
  BY DEF Object
<1>2. \E c \in Calendar : \A d \in Calendar : f[d] <= f[c]
  <2> HIDE DEF f
  <2> QED
    BY <1>1, HighestExists, MoveAssumption
<1>3. \E n \in {copies[c].last : c \in Calendar} : \A c \in Calendar : copies[c].last <= n
  BY <1>2
<1> QED
  BY <1>1, <1>3 DEF Highest

LEMMA WroteType ==
    ASSUME copies \in [Calendar -> Object], NEW text \in Text
    PROVE  /\ Wrote(text) \in Object /\ Wrote(text).text = text
           /\ Wrote(text).last # 0 /\ Highest + 1 # 0 /\ Highest + 1 \in Nat
BY HighestType DEF Wrote, Object

\* A write to one calendar raises its number above all that are given.
LEMMA WroteGiven ==
    ASSUME copies \in [Calendar -> Object], NEW c \in Calendar, NEW text \in Text,
           copies' = [copies EXCEPT ![c] = Wrote(text)]
    PROVE  /\ \A d \in Calendar : copies[d].last <= copies'[d].last
           /\ Given(Highest + 1, copies')
           /\ \A n \in Nat : Given(n, copies) => n # copies'[c].last
<1>1. Highest \in Nat /\ \A d \in Calendar : copies[d].last <= Highest
  BY HighestType
<1>2. Wrote(text).last = Highest + 1
  BY DEF Wrote
<1>3. /\ copies'[c].last = Highest + 1
      /\ \A d \in Calendar \ {c} : copies'[d] = copies[d]
  BY <1>2
<1>4. \A d \in Calendar : copies[d].last \in Nat
  BY DEF Object
<1>5. \A d \in Calendar : copies[d].last <= copies'[d].last
  <2> TAKE d \in Calendar
  <2> QED
    BY <1>1, <1>3, <1>4
<1>6. Given(Highest + 1, copies')
  BY <1>1, <1>3 DEF Given
<1>7. \A n \in Nat : Given(n, copies) => n # copies'[c].last
  <2> SUFFICES ASSUME NEW n \in Nat, NEW d \in Calendar, n <= copies[d].last
               PROVE  n # copies'[c].last
    BY DEF Given
  <2> QED
    BY <1>1, <1>3, <1>4
<1> QED
  BY <1>5, <1>6, <1>7

\* What is given stays given.
LEMMA GivenStays ==
    ASSUME copies \in [Calendar -> Object], copies' \in [Calendar -> Object],
           \A c \in Calendar : copies[c].last <= copies'[c].last,
           NEW n \in Nat, Given(n, copies)
    PROVE  Given(n, copies')
<1>1. PICK c \in Calendar : n <= copies[c].last
  BY DEF Given
<1>2. copies[c].last \in Nat /\ copies'[c].last \in Nat
  BY DEF Object
<1>3. n <= copies'[c].last
  BY <1>1, <1>2
<1> QED
  BY <1>3 DEF Given

LEMMA ZeroGiven ==
    ASSUME copies \in [Calendar -> Object]
    PROVE  Given(0, copies)
<1>1. PICK c \in Calendar : TRUE
  BY MoveAssumption
<1>2. 0 <= copies[c].last
  BY DEF Object
<1> QED
  BY <1>2 DEF Given

LEMMA GivenKept ==
    ASSUME TypeOK, TypeOK', \A c \in Calendar : copies[c].last <= copies'[c].last,
           \A i \in Id : Given(rows'[i].etag, copies),
           Given(scan'.answer.last, copies),
           \A h \in Handler : Given(req'[h].etag, copies),
           \A h \in Handler : Given(req'[h].new, copies) \/ Given(req'[h].new, copies')
    PROVE  GivenOK'
<1>1. copies \in [Calendar -> Object] /\ copies' \in [Calendar -> Object]
  BY DEF TypeOK
<1>2. \A i \in Id : Given(rows'[i].etag, copies')
  <2> TAKE i \in Id
  <2>1. rows'[i].etag \in Nat
    BY DEF TypeOK, Row
  <2> QED
    BY <1>1, <2>1, GivenStays
<1>3. Given(scan'.answer.last, copies')
  <2>1. scan'.answer.last \in Nat
    BY DEF TypeOK, Object
  <2> QED
    BY <1>1, <2>1, GivenStays
<1>4. \A h \in Handler : Given(req'[h].etag, copies') /\ Given(req'[h].new, copies')
  <2> TAKE h \in Handler
  <2>1. req'[h].etag \in Nat /\ req'[h].new \in Nat
    BY DEF TypeOK, Request
  <2>2. Given(req'[h].etag, copies')
    BY <1>1, <2>1, GivenStays
  <2>3. Given(req'[h].new, copies')
    BY <1>1, <2>1, GivenStays
  <2> QED
    BY <2>2, <2>3
<1> QED
  BY <1>2, <1>3, <1>4 DEF GivenOK, Given

\* Nothing is written, and no deletion begins.
LEMMA SafeStays ==
    ASSUME CopiesOK, copies' = copies,
           \A h \in Handler : req'[h].pc = "delete" => req'[h] = req[h]
    PROVE  CopiesOK'
<1> SUFFICES ASSUME "otherDelete" \notin Allowed, NEW c \in Calendar, Safe(c)
             PROVE  Safe(c)'
  BY DEF CopiesOK
<1> QED
  BY DEF Safe

\* What has just been written is safe from the deletions under way, and from
\* the one that the writer begins in another calendar.
LEMMA WrittenSafe ==
    ASSUME IInv, NEW c \in Calendar, NEW text \in Text,
           text = NoText => "otherDelete" \in Allowed,
           copies' = [copies EXCEPT ![c] = Wrote(text)],
           \A h \in Handler : req'[h].pc = "delete" /\ req'[h].from = c
                                => req'[h].etag = req[h].etag
    PROVE  CopiesOK'
<1> SUFFICES ASSUME "otherDelete" \notin Allowed
             PROVE  Safe(c)'
  BY DEF CopiesOK
<1>1. /\ copies \in [Calendar -> Object] /\ req \in [Handler -> Request]
      /\ \A h \in Handler : Given(req[h].etag, copies)
  BY DEF IInv, TypeOK, GivenOK
<1>2. \A h \in Handler : req[h].etag # copies'[c].last
  <2> TAKE h \in Handler
  <2>1. req[h].etag \in Nat /\ Given(req[h].etag, copies)
    BY <1>1 DEF Request
  <2>2. \A n \in Nat : Given(n, copies) => n # copies'[c].last
    BY <1>1, WroteGiven
  <2> QED
    BY <2>1, <2>2
<1>3. copies'[c].text # NoText
  BY <1>1 DEF Wrote
<1> QED
  BY <1>2, <1>3 DEF Safe

-----------------------------------------------------------------------------
(* Parts of the steps.                                                     *)

LEMMA NoRequestOK == NoRequest \in Request /\ RequestOK(NoRequest) /\ ~Moving(NoRequest)
BY DEF NoRequest, Request, Text, RequestOK, Moving, OnServer

\* One handler goes on.
LEMMA GoesType ==
    ASSUME TypeOK, NEW h \in Handler, NEW r \in Request, Goes(h, r)
    PROVE  /\ req' \in [Handler -> Request] /\ req'[h] = r
           /\ \A k \in Handler \ {h} : req'[k] = req[k]
BY DEF TypeOK, Goes

LEMMA GoesOK ==
    ASSUME IInv, NEW h \in Handler, NEW r \in Request, RequestOK(r), Goes(h, r)
    PROVE  RequestsOK'
<1>1. \A k \in Handler : RequestOK(req'[k])
  BY GoesType DEF IInv, RequestsOK
<1> QED
  BY <1>1 DEF RequestsOK, RequestOK, OnServer, Moves

\* What the step of one handler keeps of the move that is alone.
LEMMA AloneKept ==
    ASSUME IInv, NEW h \in Handler, NEW r \in Request, Goes(h, r), alone' = alone,
           Moving(r) => Moving(req[h]),
           alone \in Handler \ {h} =>
               /\ "otherDelete" \notin Allowed => Filled \subseteq Filled'
               /\ Filled' \subseteq Filled,
           alone = h /\ Moves(r) =>
               /\ (r.pc = "delete" \/ (r.pc = "mark" /\ r.result = "ok"))
                     /\ "otherDelete" \notin Allowed => r.to \in Filled'
               /\ r.pc = "mark" /\ r.result = "ok" => r.from \notin Filled',
           r.pc # "idle" /\ Moves(r) => r.to \in Calendar,
           r.pc \in OnServer => r.from \in Calendar
    PROVE  AloneOK'
<1> SUFFICES ASSUME NEW k \in Handler, alone = k
             PROVE  /\ \A j \in Handler : Moving(req'[j]) => j = k
                    /\ LET q == req'[k]
                           ended == q.pc = "mark" /\ q.result = "ok"
                       IN  Moves(q) =>
                           /\ (q.pc = "delete" \/ ended) /\ "otherDelete" \notin Allowed
                                 => copies'[q.to].text # NoText
                           /\ ended => copies'[q.from].text = NoText
  BY DEF AloneOK, Moving, Moves
<1>1. /\ req' \in [Handler -> Request] /\ req'[h] = r
      /\ \A j \in Handler \ {h} : req'[j] = req[j]
  BY GoesType DEF IInv
<1>2. \A j \in Handler : Moving(req'[j]) => j = k
  BY <1>1 DEF IInv, AloneOK
<1>3. CASE k = h
  BY <1>1, <1>2, <1>3 DEF Filled, OnServer
<1>4. CASE k # h
  <2>1. req'[k] = req[k] /\ RequestOK(req[k])
    BY <1>1, <1>4 DEF IInv, RequestsOK
  <2>2. /\ "otherDelete" \notin Allowed => Filled \subseteq Filled'
        /\ Filled' \subseteq Filled
    BY <1>4
  <2> QED
    BY <1>2, <2>1, <2>2 DEF IInv, AloneOK, Filled, RequestOK, OnServer
<1> QED
  BY <1>3, <1>4

\* One row is replaced.
LEMMA SetRowOK ==
    ASSUME TypeOK, EtagsOK, NEW i \in Id, NEW row \in Row, SetRow(i, row),
           row.status # "absent" => row.etag # 0
    PROVE  /\ rows' \in [Id -> Row] /\ rows'[i] = row
           /\ \A j \in Live' : rows'[j].etag # 0
BY DEF TypeOK, EtagsOK, SetRow, Live

\* Steps of a handler that write to no calendar.
LEMMA LocalStep ==
    ASSUME IInv, NEW h \in Handler, NEW r \in Request, RequestOK(r), Goes(h, r),
           r.pc # "delete", Moving(r) => Moving(req[h]),
           r.pc = "mark" => r.result # "ok",
           UNCHANGED <<copies, scan, alone, remoteWrites>>,
           rows' \in [Id -> Row], cal' \in [Id -> Calendar],
           \A i \in Live' : rows'[i].etag # 0,
           \A i \in Id : Given(rows'[i].etag, copies),
           Given(r.etag, copies), Given(r.new, copies),
           requests' \in 0 .. MaxRequests
    PROVE  IInv'
<1>1. /\ req' \in [Handler -> Request] /\ req'[h] = r
      /\ \A k \in Handler \ {h} : req'[k] = req[k]
  BY GoesType DEF IInv
<1>2. TypeOK'
  BY <1>1 DEF IInv, TypeOK
<1>3. CopiesOK'
  BY <1>1, SafeStays DEF IInv
<1>4. EtagsOK'
  BY DEF IInv, EtagsOK, ObjectOK
<1>5. RequestsOK'
  BY GoesOK
<1>7. GivenOK'
  <2>1. \A k \in Handler : Given(req'[k].etag, copies) /\ Given(req'[k].new, copies)
    BY <1>1 DEF IInv, GivenOK
  <2>2. Given(scan'.answer.last, copies) /\ TypeOK
    BY DEF IInv, GivenOK
  <2>3. \A c \in Calendar : copies[c].last <= copies'[c].last
    BY DEF IInv, TypeOK, Object
  <2> QED
    BY <1>2, <2>1, <2>2, <2>3, GivenKept
<1>6. AloneOK'
  <2>1. Filled' = Filled
    BY DEF Filled
  <2>2. /\ r.pc # "idle" /\ Moves(r) => r.to \in Calendar
        /\ r.pc \in OnServer => r.from \in Calendar
    BY DEF RequestOK
  <2> QED
    BY <2>1, <2>2, AloneKept
<1> QED
  BY <1>2, <1>3, <1>4, <1>5, <1>6, <1>7 DEF IInv

-----------------------------------------------------------------------------
LEMMA AbsentRowOK == /\ AnyText \in Content /\ AbsentRow \in Row
                     /\ AbsentRow.status = "absent" /\ AbsentRow.etag = 0
<1>1. AnyText \in Content
  BY MoveAssumption DEF AnyText
<1>2. ImportedRow(AnyText, 0) \in Row /\ ImportedRow(AnyText, 0).etag = 0
  BY <1>1, NewRowOK
<1> QED
  BY <1>1, <1>2 DEF AbsentRow, Row, SyncStatus

LEMMA InitIInv == Init => IInv
<1> SUFFICES ASSUME Init PROVE IInv
  OBVIOUS
<1> DEFINE c == CHOOSE d \in Calendar : TRUE
           i == CHOOSE j \in Id : TRUE
<1>1. c \in Calendar /\ i \in Id
  BY MoveAssumption
<1>2. /\ copies = [d \in Calendar |-> IF d = c THEN [text |-> AnyText, last |-> 1]
                                      ELSE [text |-> NoText, last |-> 0]]
      /\ rows = [j \in Id |-> IF j = i THEN ImportedRow(AnyText, 1) ELSE AbsentRow]
      /\ cal = [j \in Id |-> c]
      /\ req = [h \in Handler |-> NoRequest]
      /\ scan = NoScan /\ alone = None /\ requests = 0 /\ remoteWrites = 0
  BY DEF Init
<1> HIDE DEF c, i
<1>3. AnyText \in Content /\ AnyText # NoText /\ AnyText \in Text /\ NoText \in Text
  BY AbsentRowOK, VtodoAssumption DEF Text
<1>4. ImportedRow(AnyText, 1) \in Row /\ ImportedRow(AnyText, 1).etag = 1
  BY <1>3, NewRowOK
<1>5. TypeOK
  <2>1. copies \in [Calendar -> Object]
    BY <1>2, <1>3 DEF Object
  <2>2. rows \in [Id -> Row]
    BY <1>2, <1>4, AbsentRowOK
  <2>3. cal \in [Id -> Calendar] /\ req \in [Handler -> Request]
    BY <1>1, <1>2, NoRequestOK
  <2>4. scan \in [cal : Calendar \cup {None}, answer : Object]
    BY <1>2, <1>3 DEF NoScan, Object
  <2>5. requests \in 0 .. MaxRequests /\ remoteWrites \in 0 .. MaxRemote
    BY <1>2, MoveAssumption
  <2> QED
    BY <1>2, <2>1, <2>2, <2>3, <2>4, <2>5 DEF TypeOK
<1>6. CopiesOK
  BY <1>1, <1>2, <1>3 DEF CopiesOK, Safe, NoRequest
<1>10. GivenOK
  <2>1. copies[c].last = 1 /\ Given(1, copies)
    BY <1>1, <1>2 DEF Given
  <2>2. Given(0, copies)
    BY <1>5, ZeroGiven DEF TypeOK
  <2>3. \A j \in Id : rows[j].etag \in {0, 1}
    BY <1>2, <1>4, AbsentRowOK
  <2> QED
    BY <1>2, <2>1, <2>2, <2>3 DEF GivenOK, NoScan, NoRequest
<1>7. EtagsOK
  <2>1. \A j \in Live : rows[j].etag # 0
    BY <1>2, <1>4, AbsentRowOK DEF Live
  <2> QED
    BY <1>2, <2>1 DEF EtagsOK, ObjectOK, NoScan
<1>8. RequestsOK
  BY <1>2, NoRequestOK DEF RequestsOK
<1>9. AloneOK
  BY <1>2, MoveAssumption DEF AloneOK
<1> QED
  BY <1>5, <1>6, <1>7, <1>8, <1>9, <1>10 DEF IInv

-----------------------------------------------------------------------------
(* The steps of a request.                                                 *)

LEMMA StartStep ==
    ASSUME IInv, NEW h \in Handler, Start(h)
    PROVE  IInv'
<1>1. PICK i \in Live, c \in Calendar, text \in Content :
          /\ requests < MaxRequests /\ requests' = requests + 1
          /\ Goes(h, [NoRequest EXCEPT !.pc = "prepare", !.id = i, !.ver = rows[i].ver,
                                       !.to = c, !.raw = text])
          /\ UNCHANGED <<copies, rows, cal, scan, alone, remoteWrites>>
  BY DEF Start
<1> DEFINE r == [NoRequest EXCEPT !.pc = "prepare", !.id = i, !.ver = rows[i].ver,
                                  !.to = c, !.raw = text]
<1>2. i \in Id /\ rows[i].ver \in Nat /\ text \in Text
  BY DEF IInv, TypeOK, Live, Row, Text
<1>3. r \in Request /\ r.pc = "prepare" /\ r.id = i /\ r.to = c /\ r.raw = text
  BY <1>2 DEF NoRequest, Request, Text
<1>4. RequestOK(r) /\ ~Moving(r)
  BY <1>2, <1>3 DEF RequestOK, Moving, OnServer
<1>5. /\ rows' \in [Id -> Row] /\ cal' \in [Id -> Calendar]
      /\ \A j \in Live' : rows'[j].etag # 0
      /\ \A j \in Id : Given(rows'[j].etag, copies)
  BY <1>1 DEF IInv, TypeOK, EtagsOK, GivenOK, Live
<1>6. requests' \in 0 .. MaxRequests
  BY <1>1, MoveAssumption DEF IInv, TypeOK
<1>7. Goes(h, r) /\ UNCHANGED <<copies, scan, alone, remoteWrites>>
  BY <1>1
<1>8. Given(r.etag, copies) /\ Given(r.new, copies)
  BY ZeroGiven DEF NoRequest, IInv, TypeOK
<1> HIDE DEF r
<1> QED
  BY <1>3, <1>4, <1>5, <1>6, <1>7, <1>8, LocalStep

\* A request that ends without a trace.
LEMMA EndsStep ==
    ASSUME IInv, NEW h \in Handler, Ends(h),
           UNCHANGED <<copies, rows, cal, scan, alone, requests, remoteWrites>>
    PROVE  IInv'
<1>1. /\ rows' \in [Id -> Row] /\ cal' \in [Id -> Calendar]
      /\ \A j \in Live' : rows'[j].etag # 0 /\ requests' \in 0 .. MaxRequests
      /\ \A j \in Id : Given(rows'[j].etag, copies)
  BY DEF IInv, TypeOK, EtagsOK, GivenOK, Live
<1>2. /\ NoRequest.pc = "idle"
      /\ Given(NoRequest.etag, copies) /\ Given(NoRequest.new, copies)
  BY ZeroGiven DEF NoRequest, IInv, TypeOK
<1>3. requests' \in 0 .. MaxRequests
  BY DEF IInv, TypeOK
<1> QED
  BY <1>1, <1>2, <1>3, NoRequestOK, LocalStep DEF Ends

LEMMA PrepareStep ==
    ASSUME IInv, NEW h \in Handler, Prepare(h)
    PROVE  IInv'
<1> DEFINE q == req[h]
<1>1. /\ q \in Request /\ q.pc = "prepare" /\ RequestOK(q)
      /\ UNCHANGED <<copies, scan, requests, remoteWrites>>
  BY DEF IInv, TypeOK, RequestsOK, Prepare
<1>2. q.id \in Id /\ q.to \in Calendar /\ q.raw \in Content
  BY <1>1 DEF RequestOK
<1>3. CASE ~(q.id \in Live /\ rows[q.id].ver = q.ver)
  BY <1>1, <1>3, EndsStep DEF Prepare
<1>4. CASE q.id \in Live /\ rows[q.id].ver = q.ver
  <2> DEFINE row == rows[q.id]
             r == [q EXCEPT !.pc = "put", !.ver = @ + 1, !.from = cal[q.id],
                            !.etag = row.etag]
  <2>1. /\ SetRow(q.id, Pending(row, q.raw)) /\ Goes(h, r)
        /\ cal' = [cal EXCEPT ![q.id] = q.to]
        /\ alone' = IF cal[q.id] = q.to THEN alone
                    ELSE IF \E k \in Handler : Moving(req[k]) THEN None ELSE h
    BY <1>4 DEF Prepare
  <2>2. /\ row \in Row /\ row.etag # 0 /\ row.etag \in Nat /\ cal[q.id] \in Calendar
        /\ Pending(row, q.raw) \in Row /\ Pending(row, q.raw).etag = row.etag
    <3>1. row \in Row /\ row.etag # 0 /\ cal[q.id] \in Calendar
      BY <1>2, <1>4 DEF IInv, TypeOK, EtagsOK
    <3>2. row.etag \in Nat
      BY <3>1 DEF Row
    <3> QED
      BY <1>2, <3>1, <3>2, PendingRowOK
  <2>3. /\ r \in Request /\ r.pc = "put" /\ r.from = cal[q.id] /\ r.to = q.to
        /\ r.id = q.id /\ r.raw = q.raw /\ r.etag = row.etag
    <3>1. q.ver + 1 \in Nat
      BY <1>1 DEF Request
    <3> QED
      BY <1>1, <2>2, <3>1 DEF Request
  <2> HIDE DEF r
  <2>4. RequestOK(r)
    BY <1>2, <2>2, <2>3 DEF RequestOK, OnServer
  <2>5. /\ req' \in [Handler -> Request] /\ req'[h] = r
        /\ \A k \in Handler \ {h} : req'[k] = req[k]
    BY <2>1, <2>3, GoesType DEF IInv
  <2>6. rows' \in [Id -> Row] /\ \A j \in Live' : rows'[j].etag # 0
    BY <1>2, <2>1, <2>2, SetRowOK DEF IInv
  <2>7. alone' \in Handler \cup {None}
    BY <2>1 DEF IInv, TypeOK
  <2>8. TypeOK'
    BY <1>1, <1>2, <2>1, <2>5, <2>6, <2>7 DEF IInv, TypeOK
  <2>9. CopiesOK'
    BY <1>1, <2>3, <2>5, SafeStays DEF IInv
  <2>13. GivenOK'
    <3>1. r.new = q.new
      BY <1>1 DEF r, Request
    <3>2. Given(row.etag, copies) /\ Given(q.new, copies)
      BY <1>2 DEF IInv, GivenOK
    <3>3. \A k \in Handler : Given(req'[k].etag, copies) /\ Given(req'[k].new, copies)
      BY <2>3, <2>5, <3>1, <3>2 DEF IInv, GivenOK
    <3>4. \A j \in Id : rows'[j].etag = rows[j].etag
      BY <1>2, <2>1, <2>2 DEF SetRow, IInv, TypeOK
    <3>5. /\ \A j \in Id : Given(rows'[j].etag, copies)
          /\ Given(scan'.answer.last, copies) /\ TypeOK
      BY <1>1, <3>4 DEF IInv, GivenOK
    <3>6. \A c \in Calendar : copies[c].last <= copies'[c].last
      BY <1>1 DEF IInv, TypeOK, Object
    <3> QED
      BY <2>8, <3>3, <3>5, <3>6, GivenKept
  <2>10. EtagsOK'
    BY <1>1, <2>6 DEF IInv, EtagsOK, ObjectOK
  <2>11. RequestsOK'
    BY <2>1, <2>3, <2>4, GoesOK
  <2>12. AloneOK'
    <3>1. CASE cal[q.id] = q.to
      <4>1. alone' = alone /\ ~Moves(r) /\ ~Moving(r) /\ Filled' = Filled
        BY <1>1, <2>1, <2>3, <3>1 DEF Moves, Moving, Filled
      <4> QED
        BY <1>2, <2>1, <2>2, <2>3, <4>1, AloneKept
    <3>2. CASE cal[q.id] # q.to /\ \E k \in Handler : Moving(req[k])
      BY <2>1, <3>2, MoveAssumption DEF AloneOK
    <3>3. CASE cal[q.id] # q.to /\ ~ \E k \in Handler : Moving(req[k])
      <4>1. alone' = h
        BY <2>1, <3>3
      <4>2. \A k \in Handler : Moving(req'[k]) => k = h
        BY <2>5, <3>3
      <4> QED
        BY <2>3, <2>5, <4>1, <4>2 DEF AloneOK, Moving, Moves
    <3> QED
      BY <3>1, <3>2, <3>3
  <2> QED
    BY <2>8, <2>9, <2>10, <2>11, <2>12, <2>13 DEF IInv
<1> QED
  BY <1>3, <1>4

\* The server has been asked: the request goes on to its mark.
LEMMA GetStep ==
    ASSUME IInv, NEW h \in Handler, Get(h)
    PROVE  IInv'
<1> DEFINE q == req[h]
           e == ETag(copies[q.from])
           r == [q EXCEPT !.pc = "mark", !.result = "conflict", !.new = e]
<1>1. /\ q \in Request /\ q.pc = "get" /\ RequestOK(q) /\ Goes(h, r)
      /\ UNCHANGED <<copies, rows, cal, scan, alone, requests, remoteWrites>>
  BY DEF IInv, TypeOK, RequestsOK, Get
<1>2. e \in Nat /\ Given(e, copies)
  <2>1. q.from \in Calendar /\ copies[q.from].last \in Nat
    BY <1>1 DEF IInv, TypeOK, RequestOK, OnServer, Object
  <2>2. Given(0, copies) /\ Given(copies[q.from].last, copies)
    BY <2>1, ZeroGiven DEF Given, IInv, TypeOK
  <2> QED
    BY <2>1, <2>2 DEF ETag
<1> HIDE DEF e
<1>3. /\ r \in Request /\ r.pc = "mark" /\ r.result = "conflict" /\ r.id = q.id
      /\ r.from = q.from /\ r.to = q.to /\ r.raw = q.raw /\ r.etag = q.etag
      /\ r.new = e
  BY <1>1, <1>2 DEF Request
<1> HIDE DEF r
<1>4. RequestOK(r) /\ (Moving(r) => Moving(q))
  BY <1>1, <1>3 DEF RequestOK, OnServer, Moving, Moves
<1>5. /\ rows' \in [Id -> Row] /\ cal' \in [Id -> Calendar]
      /\ \A j \in Live' : rows'[j].etag # 0
      /\ \A j \in Id : Given(rows'[j].etag, copies)
      /\ Given(q.etag, copies)
  BY <1>1 DEF IInv, TypeOK, EtagsOK, GivenOK, Live
<1>6. requests' \in 0 .. MaxRequests
  BY <1>1 DEF IInv, TypeOK
<1> QED
  BY <1>1, <1>2, <1>3, <1>4, <1>5, <1>6, LocalStep

LEMMA MarkStep ==
    ASSUME IInv, NEW h \in Handler, Mark(h)
    PROVE  IInv'
<1> DEFINE q == req[h]
           row == rows[q.id]
<1>1. /\ q \in Request /\ q.pc = "mark" /\ RequestOK(q) /\ Ends(h)
      /\ UNCHANGED <<copies, cal, scan, alone, requests, remoteWrites>>
  BY DEF IInv, TypeOK, RequestsOK, Mark
<1>2. CASE ~(q.id \in Live /\ row.ver = q.ver)
  BY <1>1, <1>2, EndsStep DEF Mark
<1>3. CASE q.id \in Live /\ row.ver = q.ver
  <2>1. /\ row \in Row /\ row.etag # 0 /\ q.new \in Nat /\ q.id \in Id
        /\ q.result \in {"ok", "fail", "conflict", "copied"}
        /\ q.result \in {"ok", "copied"} => q.new # 0
    BY <1>1, <1>3 DEF IInv, TypeOK, EtagsOK, Live, RequestOK, Request
  <2> DEFINE new == CASE q.result = "ok" -> Synced(row, q.new)
                      [] q.result = "fail" -> [row EXCEPT !.status = "error"]
                      [] q.result = "copied" -> [row EXCEPT !.status = "error", !.etag = q.new]
                      [] q.result = "conflict" -> Conflicted(row, q.new)
  <2>2. SetRow(q.id, new)
    BY <1>3 DEF Mark
  <2>3. new \in Row /\ new.etag # 0 /\ new.etag \in {row.etag, q.new}
    <3>1. CASE q.result = "ok"
      BY <2>1, <3>1, SyncedRowOK
    <3>2. CASE q.result = "fail"
      BY <2>1, <3>2 DEF SyncStatus, Row
    <3>3. CASE q.result = "copied"
      BY <2>1, <3>3 DEF SyncStatus, Row
    <3>4. CASE q.result = "conflict"
      BY <2>1, <3>4, ConflictedRowOK
    <3> QED
      BY <2>1, <3>1, <3>2, <3>3, <3>4
  <2> HIDE DEF new
  <2>4. rows' \in [Id -> Row] /\ \A j \in Live' : rows'[j].etag # 0
    BY <2>1, <2>2, <2>3, SetRowOK DEF IInv
  <2>5. NoRequest.pc = "idle" /\ cal' \in [Id -> Calendar] /\ requests' \in 0 .. MaxRequests
    BY <1>1 DEF IInv, TypeOK, NoRequest
  <2>6. Given(NoRequest.etag, copies) /\ Given(NoRequest.new, copies)
    BY ZeroGiven DEF NoRequest, IInv, TypeOK
  <2>7. Given(new.etag, copies)
    BY <2>1, <2>3 DEF IInv, GivenOK
  <2>8. \A j \in Id : Given(rows'[j].etag, copies)
    BY <2>1, <2>2, <2>7 DEF SetRow, IInv, TypeOK, GivenOK
  <2> QED
    BY <1>1, <2>4, <2>5, <2>6, <2>8, NoRequestOK, LocalStep DEF Ends
<1> QED
  BY <1>2, <1>3

-----------------------------------------------------------------------------
(* The steps of the server.                                                *)

LEMMA ServerStep ==
    ASSUME IInv, NEW h \in Handler, NEW r \in Request, RequestOK(r), Goes(h, r),
           copies' \in [Calendar -> Object], \A c \in Calendar : ObjectOK(copies'[c]),
           \A c \in Calendar : copies[c].last <= copies'[c].last,
           Given(r.etag, copies), Given(r.new, copies) \/ Given(r.new, copies'),
           UNCHANGED <<rows, cal, scan, alone, requests, remoteWrites>>,
           CopiesOK', AloneOK'
    PROVE  IInv'
<1>1. req' \in [Handler -> Request]
  BY GoesType DEF IInv
<1>2. TypeOK'
  BY <1>1 DEF IInv, TypeOK
<1>3. EtagsOK'
  BY DEF IInv, EtagsOK, ObjectOK, Live
<1>4. RequestsOK'
  BY GoesOK
<1>5. GivenOK'
  <2>1. req'[h] = r /\ \A k \in Handler \ {h} : req'[k] = req[k]
    BY GoesType DEF IInv
  <2>2. \A k \in Handler : Given(req'[k].etag, copies)
    BY <2>1 DEF IInv, GivenOK
  <2>4. \A k \in Handler : Given(req'[k].new, copies) \/ Given(req'[k].new, copies')
    BY <2>1 DEF IInv, GivenOK
  <2>3. /\ \A j \in Id : Given(rows'[j].etag, copies)
        /\ Given(scan'.answer.last, copies) /\ TypeOK
    BY DEF IInv, GivenOK
  <2> QED
    BY <1>2, <2>2, <2>3, <2>4, GivenKept
<1> QED
  BY <1>2, <1>3, <1>4, <1>5 DEF IInv

\* A PUT that the server has accepted; its answer may be lost.
LEMMA PutDone ==
    ASSUME IInv, NEW h \in Handler, req[h].pc = "put", PutPossible(req[h]),
           copies' = [copies EXCEPT ![req[h].to] = Wrote(req[h].raw)],
           NEW r,
           \/ r = AfterPut([req[h] EXCEPT !.new = Highest + 1])
           \/ r = PutFailed(req[h])
           \/ r = req[h] /\ ~Moves(req[h]),
           Goes(h, r),
           UNCHANGED <<rows, cal, scan, alone, requests, remoteWrites>>
    PROVE  IInv'
<1> DEFINE q == req[h]
           n == Highest + 1
<1>1. /\ q \in Request /\ q.pc = "put" /\ RequestOK(q) /\ q.raw \in Content
      /\ q.from \in Calendar /\ q.to \in Calendar /\ q.etag # 0
      /\ q.raw # NoText /\ q.raw \in Text
  BY VtodoAssumption DEF IInv, TypeOK, RequestsOK, RequestOK, OnServer, Text
<1>2. /\ Wrote(q.raw) \in Object /\ Wrote(q.raw).text = q.raw
      /\ Wrote(q.raw).last # 0 /\ n # 0 /\ n \in Nat
  BY <1>1, WroteType DEF IInv, TypeOK
<1> HIDE DEF n
<1>3. /\ copies' \in [Calendar -> Object] /\ copies'[q.to] = Wrote(q.raw)
      /\ \A c \in Calendar \ {q.to} : copies'[c] = copies[c]
  BY <1>1, <1>2 DEF IInv, TypeOK
<1>4. \A c \in Calendar : ObjectOK(copies'[c])
  BY <1>2, <1>3 DEF IInv, EtagsOK, ObjectOK
<1>5. Filled' = Filled \cup {q.to}
  BY <1>1, <1>2, <1>3 DEF Filled
<1>6. /\ r \in Request /\ RequestOK(r) /\ r.from = q.from /\ r.to = q.to
      /\ r.pc = "delete" => Moves(q)
      /\ r.pc \in {"put", "delete", "mark"}
      /\ Moves(q) /\ r.pc = "mark" => r.result # "ok"
      /\ r.etag = q.etag /\ r.new \in {q.new, n}
  <2>1. CASE r = AfterPut([q EXCEPT !.new = n])
    <3> DEFINE put == [q EXCEPT !.new = n]
    <3>1. /\ put \in Request /\ put.from = q.from /\ put.to = q.to /\ put.new # 0
          /\ put.new = n
          /\ put.id = q.id /\ put.raw = q.raw /\ put.etag = q.etag
      BY <1>1, <1>2 DEF Request
    <3> HIDE DEF put
    <3>2. CASE Moves(q)
      <4>1. r = [put EXCEPT !.pc = "delete"]
        BY <2>1, <3>1, <3>2 DEF AfterPut, Moves, put
      <4>2. /\ r \in Request /\ r.pc = "delete" /\ r.from = q.from /\ r.to = q.to
            /\ r.new = n /\ r.new # 0 /\ r.id = q.id /\ r.raw = q.raw /\ r.etag = q.etag
        BY <3>1, <4>1 DEF Request
      <4> QED
        BY <1>1, <3>2, <4>2 DEF RequestOK, OnServer, Moves
    <3>3. CASE ~Moves(q)
      <4>1. r = [put EXCEPT !.pc = "mark", !.result = "ok"]
        BY <2>1, <3>1, <3>3 DEF AfterPut, Moves, put
      <4>2. /\ r \in Request /\ r.pc = "mark" /\ r.from = q.from /\ r.to = q.to
            /\ r.new = n /\ r.new # 0 /\ r.id = q.id /\ r.raw = q.raw /\ r.etag = q.etag
            /\ r.result = "ok"
        BY <3>1, <4>1 DEF Request
      <4> QED
        BY <1>1, <3>3, <4>2 DEF RequestOK, OnServer, Moves
    <3> QED
      BY <3>2, <3>3
  <2>2. CASE r = PutFailed(q)
    <3>1. /\ r \in Request /\ r.pc = "mark" /\ r.from = q.from /\ r.to = q.to
          /\ r.result = "fail" /\ r.id = q.id /\ r.raw = q.raw /\ r.etag = q.etag
          /\ r.new = q.new
      BY <1>1, <2>2 DEF PutFailed, Request
    <3> QED
      BY <1>1, <3>1 DEF RequestOK, OnServer, Moves
  <2>3. CASE r = q /\ ~Moves(q)
    BY <1>1, <2>3
  <2> QED
    BY <2>1, <2>2, <2>3 DEF n
<1>7. ~Moves(q) => q.to \in Filled
  <2>1. ETag(copies[q.to]) = 0 <=> copies[q.to].text = NoText
    BY <1>1 DEF IInv, EtagsOK, ObjectOK, ETag
  <2> QED
    BY <1>1, <2>1 DEF PutPossible, Filled
<1>8. /\ req' \in [Handler -> Request] /\ req'[h] = r
      /\ \A k \in Handler \ {h} : req'[k] = req[k]
  BY <1>6, GoesType DEF IInv
<1>9. CopiesOK'
  <2>1. \A k \in Handler : req'[k].pc = "delete" /\ req'[k].from = q.to
                           => req'[k].etag = req[k].etag
    BY <1>6, <1>8
  <2>2. q.raw \in Text /\ (q.raw = NoText => "otherDelete" \in Allowed)
    BY <1>1
  <2> QED
    BY <1>1, <2>1, <2>2, WrittenSafe
<1>11. /\ \A c \in Calendar : copies[c].last <= copies'[c].last
       /\ Given(r.etag, copies) /\ (Given(r.new, copies) \/ Given(r.new, copies'))
  <2>1. /\ \A c \in Calendar : copies[c].last <= copies'[c].last
        /\ Given(n, copies')
    BY <1>1, WroteGiven DEF n, IInv, TypeOK
  <2>2. Given(q.etag, copies) /\ Given(q.new, copies)
    BY DEF IInv, GivenOK
  <2> QED
    BY <1>6, <2>1, <2>2
<1>10. AloneOK'
  <2>1. Moving(r) => Moving(q)
    BY <1>1, <1>6 DEF Moving, Moves
  <2>2. alone \in Handler \ {h} => Filled' = Filled
    <3>1. alone \in Handler \ {h} => ~Moving(q)
      BY DEF IInv, AloneOK
    <3> QED
      BY <1>1, <1>5, <1>7, <3>1 DEF Moving
  <2>3. Moves(r) => Moves(q) /\ r.to \in Filled'
    BY <1>5, <1>6 DEF Moves
  <2> QED
    BY <1>1, <1>6, <2>1, <2>2, <2>3, AloneKept
<1> QED
  BY <1>3, <1>4, <1>6, <1>9, <1>10, <1>11, ServerStep

LEMMA PutStep ==
    ASSUME IInv, NEW h \in Handler, Put(h)
    PROVE  IInv'
<1> DEFINE q == req[h]
<1>1. /\ q \in Request /\ q.pc = "put" /\ RequestOK(q)
      /\ UNCHANGED <<rows, cal, scan, alone, requests, remoteWrites>>
  BY DEF IInv, TypeOK, RequestsOK, Put
<1>2. CASE /\ PutPossible(q) /\ copies' = [copies EXCEPT ![q.to] = Wrote(q.raw)]
           /\ \/ Goes(h, AfterPut([q EXCEPT !.new = Highest + 1]))
              \/ Goes(h, PutFailed(q))
              \/ ~Moves(q) /\ Goes(h, q)
  BY <1>1, <1>2, PutDone
<1>3. CASE Goes(h, [q EXCEPT !.pc = "get"]) /\ UNCHANGED copies
  <2> DEFINE r == [q EXCEPT !.pc = "get"]
  <2>1. /\ r \in Request /\ r.pc = "get" /\ r.id = q.id
        /\ r.from = q.from /\ r.to = q.to /\ r.raw = q.raw /\ r.etag = q.etag
        /\ r.new = q.new
    BY <1>1 DEF Request
  <2> HIDE DEF r
  <2>2. RequestOK(r) /\ (Moving(r) => Moving(q))
    BY <1>1, <2>1 DEF RequestOK, OnServer, Moving, Moves
  <2>3. /\ rows' \in [Id -> Row] /\ cal' \in [Id -> Calendar]
        /\ \A j \in Live' : rows'[j].etag # 0
        /\ \A j \in Id : Given(rows'[j].etag, copies)
        /\ Given(q.etag, copies) /\ Given(q.new, copies)
    BY <1>1 DEF IInv, TypeOK, EtagsOK, GivenOK, Live
  <2>4. requests' \in 0 .. MaxRequests
    BY <1>1 DEF IInv, TypeOK
  <2>5. Goes(h, r)
    BY <1>3 DEF r
  <2> QED
    BY <1>1, <1>3, <2>1, <2>2, <2>3, <2>4, <2>5, LocalStep
<1>4. CASE Goes(h, PutFailed(q)) /\ UNCHANGED copies
  <2> DEFINE r == PutFailed(q)
  <2>1. /\ r \in Request /\ r.pc = "mark" /\ r.id = q.id /\ r.result = "fail"
        /\ r.from = q.from /\ r.to = q.to /\ r.raw = q.raw /\ r.etag = q.etag
        /\ r.new = q.new
    BY <1>1 DEF PutFailed, Request
  <2> HIDE DEF r
  <2>2. RequestOK(r) /\ (Moving(r) => Moving(q))
    BY <1>1, <2>1 DEF RequestOK, OnServer, Moving, Moves
  <2>3. /\ rows' \in [Id -> Row] /\ cal' \in [Id -> Calendar]
        /\ \A j \in Live' : rows'[j].etag # 0
        /\ \A j \in Id : Given(rows'[j].etag, copies)
        /\ Given(q.etag, copies) /\ Given(q.new, copies)
    BY <1>1 DEF IInv, TypeOK, EtagsOK, GivenOK, Live
  <2>4. requests' \in 0 .. MaxRequests
    BY <1>1 DEF IInv, TypeOK
  <2>5. Goes(h, r)
    BY <1>4 DEF r
  <2> QED
    BY <1>1, <1>4, <2>1, <2>2, <2>3, <2>4, <2>5, LocalStep
<1> QED
  BY <1>2, <1>3, <1>4 DEF Put

LEMMA DeleteStep ==
    ASSUME IInv, NEW h \in Handler, Delete(h)
    PROVE  IInv'
<1> DEFINE q == req[h]
<1>1. /\ q \in Request /\ q.pc = "delete" /\ RequestOK(q) /\ Moves(q)
      /\ q.from \in Calendar /\ q.to \in Calendar
      /\ UNCHANGED <<rows, cal, scan, alone, requests, remoteWrites>>
  BY DEF IInv, TypeOK, RequestsOK, RequestOK, OnServer, Delete
<1>2. PICK result \in {"ok", "copied"} :
          /\ Goes(h, [q EXCEPT !.pc = "mark", !.result = result])
          /\ \/ /\ DeletePossible(q)
                /\ copies' = IF copies[q.from].text = NoText THEN copies
                             ELSE [copies EXCEPT ![q.from] = Wrote(NoText)]
             \/ result = "copied" /\ UNCHANGED copies
  BY DEF Delete
<1> DEFINE r == [q EXCEPT !.pc = "mark", !.result = result]
<1>3. /\ r \in Request /\ r.pc = "mark" /\ r.id = q.id /\ r.result = result
      /\ r.from = q.from /\ r.to = q.to /\ r.raw = q.raw /\ r.etag = q.etag
      /\ r.new = q.new
  BY <1>1 DEF Request
<1>4. Goes(h, r)
  BY <1>2
<1> HIDE DEF r
<1>5. RequestOK(r) /\ Moving(r) /\ Moving(q)
  BY <1>1, <1>3 DEF RequestOK, OnServer, Moving, Moves
<1>6. CASE result = "copied" /\ UNCHANGED copies
  <2>1. /\ rows' \in [Id -> Row] /\ cal' \in [Id -> Calendar]
        /\ \A j \in Live' : rows'[j].etag # 0
        /\ \A j \in Id : Given(rows'[j].etag, copies)
        /\ Given(q.etag, copies) /\ Given(q.new, copies)
    BY <1>1 DEF IInv, TypeOK, EtagsOK, GivenOK, Live
  <2>2. requests' \in 0 .. MaxRequests
    BY <1>1 DEF IInv, TypeOK
  <2> QED
    BY <1>1, <1>3, <1>4, <1>5, <1>6, <2>1, <2>2, LocalStep
<1>7. CASE /\ DeletePossible(q)
           /\ copies' = IF copies[q.from].text = NoText THEN copies
                        ELSE [copies EXCEPT ![q.from] = Wrote(NoText)]
  <2>1. Wrote(NoText) \in Object /\ Wrote(NoText).text = NoText
    BY WroteType DEF IInv, TypeOK, Text
  <2>2. /\ copies' \in [Calendar -> Object] /\ copies'[q.from].text = NoText
        /\ \A c \in Calendar \ {q.from} : copies'[c] = copies[c]
    BY <1>1, <1>7, <2>1 DEF IInv, TypeOK
  <2>3. \A c \in Calendar : ObjectOK(copies'[c])
    BY <2>2 DEF IInv, EtagsOK, ObjectOK
  <2>4. Filled' = Filled \ {q.from}
    BY <1>1, <2>2 DEF Filled
  <2>5. /\ req'[h] = r
        /\ \A k \in Handler \ {h} : req'[k] = req[k]
    BY <1>3, <1>4, GoesType DEF IInv
  <2>7. CopiesOK'
    <3> SUFFICES ASSUME "otherDelete" \notin Allowed, NEW c \in Calendar, Safe(c)
                 PROVE  Safe(c)'
      BY DEF CopiesOK, IInv
    <3>1. copies'[c] = copies[c]
      <4>1. CASE c # q.from
        BY <2>2, <4>1
      <4>2. CASE c = q.from
        <5>1. copies[c].text # NoText /\ q.etag # copies[c].last
          BY <1>1, <4>2 DEF Safe
        <5>2. ETag(copies[c]) = copies[c].last /\ copies[c].last # 0 /\ q.etag # 0
          BY <1>1, <5>1 DEF ETag, IInv, EtagsOK, ObjectOK, RequestOK, OnServer
        <5> QED
          BY <1>7, <4>2, <5>1, <5>2 DEF DeletePossible
      <4> QED
        BY <4>1, <4>2
    <3>2. \A k \in Handler : req'[k].pc = "delete" => req'[k] = req[k]
      BY <1>3, <2>5
    <3> QED
      BY <3>1, <3>2 DEF Safe
  <2>9. \A c \in Calendar : copies[c].last <= copies'[c].last
    <3>1. CASE copies' = copies
      BY <3>1 DEF IInv, TypeOK, Object
    <3>2. CASE copies' = [copies EXCEPT ![q.from] = Wrote(NoText)]
      <4>1. NoText \in Text
        BY DEF Text
      <4> QED
        BY <1>1, <3>2, <4>1, WroteGiven DEF IInv, TypeOK
    <3> QED
      BY <1>7, <3>1, <3>2
  <2>10. Given(r.etag, copies) /\ Given(r.new, copies)
    BY <1>3 DEF IInv, GivenOK
  <2>8. AloneOK'
    <3>1. alone \notin Handler \ {h}
      BY <1>5 DEF IInv, AloneOK
    <3>2. alone = h /\ "otherDelete" \notin Allowed => r.to \in Filled'
      BY <1>1, <1>3, <2>4 DEF IInv, AloneOK, Filled, Moves
    <3>3. r.from \notin Filled'
      BY <1>3, <2>4
    <3> QED
      BY <1>1, <1>3, <1>4, <1>5, <3>1, <3>2, <3>3, AloneKept
  <2> QED
    BY <1>1, <1>3, <1>4, <1>5, <2>2, <2>3, <2>7, <2>8, <2>9, <2>10, ServerStep
<1> QED
  BY <1>2, <1>6, <1>7

-----------------------------------------------------------------------------
(* The scans, the other clients and the end of the process.                *)

LEMMA ScanFetchStep ==
    ASSUME IInv, ScanFetch
    PROVE  IInv'
<1>1. PICK c \in Calendar :
          /\ scan' = [cal |-> c, answer |-> copies[c]]
          /\ UNCHANGED <<copies, rows, cal, req, alone, requests, remoteWrites>>
  BY DEF ScanFetch
<1>2. TypeOK'
  BY <1>1 DEF IInv, TypeOK
<1>3. CopiesOK'
  BY <1>1, SafeStays DEF IInv
<1>4. EtagsOK'
  BY <1>1 DEF IInv, EtagsOK, Live, ObjectOK
<1>5. RequestsOK'
  BY <1>1 DEF IInv, RequestsOK
<1>6. AloneOK'
  BY <1>1 DEF IInv, AloneOK
<1>7. GivenOK'
  <2>1. Given(scan'.answer.last, copies)
    BY <1>1 DEF Given, IInv, TypeOK, Object
  <2> QED
    BY <1>1, <2>1 DEF IInv, GivenOK, Given
<1> QED
  BY <1>2, <1>3, <1>4, <1>5, <1>6, <1>7 DEF IInv

\* What a scan makes of one row of the project.
LEMMA ScannedRow ==
    ASSUME IInv, NEW i \in Live, NEW m, i \in m => scan.answer.text # NoText,
           NEW verdict,
           verdict = IF i \in m THEN Verdict(rows[i], scan.answer.text, scan.answer.last)
                     ELSE MissingVerdict(rows[i]),
           NEW row,
           row = IF verdict = "delete" THEN AbsentRow
                 ELSE AfterVerdict(rows[i], verdict, scan.answer.text, scan.answer.last)
    PROVE  /\ row \in Row /\ (row.status # "absent" => row.etag # 0)
           /\ row.etag \in {0, rows[i].etag, scan.answer.last}
<1>1. /\ rows[i] \in Row /\ rows[i].etag # 0
      /\ scan.answer.text \in Text /\ scan.answer.last \in Nat
      /\ scan.answer.text # NoText => scan.answer.last # 0
  BY DEF IInv, TypeOK, EtagsOK, ObjectOK, Object, Live
<1>2. verdict \in {"keep", "import", "merge", "field_conflict", "edit_delete", "delete"}
  BY VerdictTypes
<1>3. verdict \in {"import", "merge"} => scan.answer.text # NoText
  BY VerdictTypes
<1>4. CASE verdict = "delete"
  BY <1>4, AbsentRowOK
<1>5. CASE verdict # "delete"
  <2>1. row \in Row /\ row.etag # 0
    BY <1>1, <1>2, <1>3, <1>5, AfterVerdictType, AfterVerdictETag
  <2>2. row.etag \in {rows[i].etag, scan.answer.last}
    <3>1. CASE verdict = "keep"
      BY <1>5, <3>1 DEF AfterVerdict
    <3>2. CASE verdict = "import"
      BY <1>1, <1>5, <3>2 DEF AfterVerdict, Imported, Row
    <3>3. CASE verdict = "merge"
      BY <1>1, <1>5, <3>3 DEF AfterVerdict, Imported, Row
    <3>4. CASE verdict = "field_conflict"
      BY <1>1, <1>5, <3>4, ConflictedRowOK DEF AfterVerdict
    <3>5. CASE verdict = "edit_delete"
      BY <1>1, <1>5, <3>5, ConflictedRowOK DEF AfterVerdict
    <3> QED
      BY <1>2, <1>5, <3>1, <3>2, <3>3, <3>4, <3>5
  <2> QED
    BY <2>1, <2>2
<1> QED
  BY <1>4, <1>5

LEMMA ScanApplyStep ==
    ASSUME IInv, ScanApply
    PROVE  IInv'
<1> DEFINE c == scan.cal
           o == scan.answer
           verdict(i, m) == IF i \in m THEN Verdict(rows[i], o.text, o.last)
                            ELSE MissingVerdict(rows[i])
           after(i, m) == IF verdict(i, m) = "delete" THEN AbsentRow
                          ELSE AfterVerdict(rows[i], verdict(i, m), o.text, o.last)
           unseen(m) == m = {} /\ o.text # NoText
<1>1. PICK m \in Matching(c) :
          LET new == IF unseen(m) THEN NewId ELSE None
          IN  /\ unseen(m) => Unknown # {}
              /\ rows' = [i \in Id |-> IF i = new THEN ImportedRow(o.text, o.last)
                                       ELSE IF i \in InProject(c) THEN after(i, m)
                                       ELSE rows[i]]
              /\ cal' = [i \in Id |-> IF i = new THEN c ELSE cal[i]]
  BY DEF ScanApply
<1>2. /\ c \in Calendar /\ scan' = NoScan
      /\ UNCHANGED <<copies, req, alone, requests, remoteWrites>>
      /\ o.text \in Text /\ o.last \in Nat /\ (o.text # NoText => o.last # 0)
  BY DEF IInv, TypeOK, EtagsOK, ObjectOK, Object, ScanApply
<1> DEFINE new == IF unseen(m) THEN NewId ELSE None
<1>3. new \in Id => o.text # NoText
  BY MoveAssumption
<1>4. \A i \in m : o.text # NoText
  BY DEF Matching
<1>5. \A i \in InProject(c) : /\ after(i, m) \in Row
                              /\ after(i, m).status # "absent" => after(i, m).etag # 0
                              /\ after(i, m).etag \in {0, rows[i].etag, o.last}
  <2> TAKE i \in InProject(c)
  <2>1. i \in Live
    BY DEF InProject
  <2> QED
    BY <1>4, <2>1, ScannedRow
<1>6. o.text # NoText => /\ ImportedRow(o.text, o.last) \in Row
                         /\ ImportedRow(o.text, o.last).etag # 0
                         /\ ImportedRow(o.text, o.last).etag = o.last
  BY <1>2, NewRowOK, ContentText
<1>7. /\ rows' = [i \in Id |-> IF i = new THEN ImportedRow(o.text, o.last)
                               ELSE IF i \in InProject(c) THEN after(i, m)
                               ELSE rows[i]]
      /\ cal' = [i \in Id |-> IF i = new THEN c ELSE cal[i]]
  BY <1>1
<1> HIDE DEF after, new
<1>8. /\ rows' \in [Id -> Row]
      /\ \A i \in Live' : rows'[i].etag # 0
  BY <1>3, <1>5, <1>6, <1>7 DEF IInv, TypeOK, EtagsOK, Live
<1>9. cal' \in [Id -> Calendar]
  BY <1>2, <1>7 DEF IInv, TypeOK
<1>10. NoScan \in [cal : Calendar \cup {None}, answer : Object] /\ ObjectOK(NoScan.answer)
  BY DEF NoScan, Object, Text, ObjectOK
<1>11. TypeOK'
  BY <1>2, <1>8, <1>9, <1>10 DEF IInv, TypeOK
<1>12. CopiesOK'
  BY <1>2, SafeStays DEF IInv
<1>16. GivenOK'
  <2>1. Given(0, copies) /\ Given(o.last, copies) /\ TypeOK
    BY ZeroGiven DEF IInv, TypeOK, GivenOK
  <2>2. \A i \in Id : Given(rows'[i].etag, copies)
    <3> TAKE i \in Id
    <3>1. rows'[i].etag \in {0, rows[i].etag, o.last}
      BY <1>3, <1>5, <1>6, <1>7
    <3> QED
      BY <2>1, <3>1 DEF IInv, GivenOK
  <2>3. \A h \in Handler : Given(req'[h].etag, copies) /\ Given(req'[h].new, copies)
    BY <1>2 DEF IInv, GivenOK
  <2>4. Given(scan'.answer.last, copies)
    BY <1>2, <2>1 DEF NoScan
  <2>5. \A d \in Calendar : copies[d].last <= copies'[d].last
    BY <1>2 DEF IInv, TypeOK, Object
  <2> HIDE DEF o
  <2> QED
    BY <1>11, <2>1, <2>2, <2>3, <2>4, <2>5, GivenKept
<1>13. EtagsOK'
  BY <1>2, <1>8, <1>10 DEF IInv, EtagsOK, ObjectOK
<1>14. RequestsOK'
  BY <1>2 DEF IInv, RequestsOK
<1>15. AloneOK'
  BY <1>2 DEF IInv, AloneOK
<1> QED
  BY <1>11, <1>12, <1>13, <1>14, <1>15, <1>16 DEF IInv

LEMMA OtherClientStep ==
    ASSUME IInv, OtherClient
    PROVE  IInv'
<1>1. PICK c \in Calendar, text \in Text :
          /\ copies[c].text # NoText
          /\ text = NoText => "otherDelete" \in Allowed
          /\ copies' = [copies EXCEPT ![c] = Wrote(text)]
  BY DEF OtherClient
<1>2. /\ remoteWrites < MaxRemote /\ remoteWrites' = remoteWrites + 1
      /\ UNCHANGED <<rows, cal, req, scan, alone, requests>>
  BY DEF OtherClient
<1>3. Wrote(text) \in Object /\ Wrote(text).text = text /\ Wrote(text).last # 0
  BY WroteType DEF IInv, TypeOK
<1>4. /\ copies' \in [Calendar -> Object] /\ copies'[c] = Wrote(text)
      /\ \A d \in Calendar \ {c} : copies'[d] = copies[d]
  BY <1>1, <1>3 DEF IInv, TypeOK
<1>5. remoteWrites' \in 0 .. MaxRemote
  BY <1>2, MoveAssumption DEF IInv, TypeOK
<1>6. TypeOK'
  BY <1>2, <1>4, <1>5 DEF IInv, TypeOK
<1>7. /\ Filled' \subseteq Filled
      /\ "otherDelete" \notin Allowed => Filled \subseteq Filled'
  BY <1>1, <1>3, <1>4 DEF Filled
<1>8. CopiesOK'
  BY <1>1, <1>2, WrittenSafe
<1>12. GivenOK'
  <2>1. \A d \in Calendar : copies[d].last <= copies'[d].last
    BY <1>1, WroteGiven DEF IInv, TypeOK
  <2>2. /\ \A i \in Id : Given(rows'[i].etag, copies)
        /\ \A h \in Handler : Given(req'[h].etag, copies) /\ Given(req'[h].new, copies)
        /\ Given(scan'.answer.last, copies) /\ TypeOK
    BY <1>2 DEF IInv, GivenOK
  <2> QED
    BY <1>6, <2>1, <2>2, GivenKept
<1>9. EtagsOK'
  BY <1>2, <1>3, <1>4 DEF IInv, EtagsOK, ObjectOK, Live
<1>10. RequestsOK'
  BY <1>2 DEF IInv, RequestsOK
<1>11. AloneOK'
  <2>1. \A d \in Calendar : /\ copies[d].text = NoText => copies'[d].text = NoText
                            /\ "otherDelete" \notin Allowed =>
                                  (copies[d].text # NoText => copies'[d].text # NoText)
    BY <1>7 DEF Filled
  <2>2. \A h \in Handler : req[h].pc \in OnServer =>
            req[h].from \in Calendar /\ req[h].to \in Calendar
    BY DEF IInv, RequestsOK, RequestOK, OnServer
  <2> QED
    BY <1>2, <2>1, <2>2 DEF IInv, AloneOK, OnServer
<1> QED
  BY <1>6, <1>8, <1>9, <1>10, <1>11, <1>12 DEF IInv

LEMMA CrashStep ==
    ASSUME IInv, Crash
    PROVE  IInv'
<1>1. /\ req' = [h \in Handler |-> NoRequest] /\ scan' = NoScan
      /\ UNCHANGED <<copies, rows, cal, alone, requests, remoteWrites>>
  BY DEF Crash
<1>2. NoScan \in [cal : Calendar \cup {None}, answer : Object] /\ ObjectOK(NoScan.answer)
  BY DEF NoScan, Object, Text, ObjectOK
<1>3. TypeOK'
  BY <1>1, <1>2, NoRequestOK DEF IInv, TypeOK
<1>4. CopiesOK'
  <2>1. \A h \in Handler : req'[h].pc # "delete"
    BY <1>1 DEF NoRequest
  <2> QED
    BY <1>1, <2>1, SafeStays DEF IInv
<1>8. GivenOK'
  <2>1. Given(0, copies)
    BY ZeroGiven DEF IInv, TypeOK
  <2> QED
    BY <1>1, <2>1 DEF IInv, GivenOK, Given, NoRequest, NoScan
<1>5. EtagsOK'
  BY <1>1, <1>2 DEF IInv, EtagsOK, ObjectOK, Live
<1>6. RequestsOK'
  BY <1>1, NoRequestOK DEF RequestsOK
<1>7. AloneOK'
  BY <1>1, NoRequestOK DEF AloneOK, NoRequest, Moving, Moves
<1> QED
  BY <1>3, <1>4, <1>5, <1>6, <1>7, <1>8 DEF IInv

LEMMA NextIInv ==
    ASSUME IInv, [Next]_vars
    PROVE  IInv'
<1>1. ASSUME NEW h \in Handler, Start(h) \/ Work(h) PROVE IInv'
  BY <1>1, StartStep, PrepareStep, PutStep, GetStep, DeleteStep, MarkStep DEF Work
<1>2. CASE UNCHANGED vars
  BY <1>2 DEF vars, IInv, TypeOK, CopiesOK, Safe, GivenOK, Given, EtagsOK, Live,
              ObjectOK, RequestsOK, AloneOK
<1> QED
  BY <1>1, <1>2, ScanFetchStep, ScanApplyStep, OtherClientStep, CrashStep DEF Next

-----------------------------------------------------------------------------
\* Some copy is safe from every deletion under way, what exists has an etag that
\* no other version had, and the move that no other has overlapped leaves what it
\* should: this holds however PrepareTaskUpdate, the PUT and the DELETE of UpdateTask, the marks,
\* the scans and the other clients come one after the other.
THEOREM MoveInvariant == Spec => []IInv
<1>1. Init => IInv
  BY InitIInv
<1>2. IInv /\ [Next]_vars => IInv'
  BY NextIInv
<1> QED
  BY <1>1, <1>2, PTL DEF Spec

\* The state keeps its types.
THEOREM TypeCorrect == Spec => []TypeOK
<1>1. IInv => TypeOK
  BY DEF IInv
<1> QED
  BY <1>1, MoveInvariant, PTL

\* As long as no other client deletes it, the task is in some calendar at any
\* moment, whatever moves overlap, replace each other's copies, fail or die in
\* UpdateTask between the PUT into the new calendar and the DELETE in the old one.
THEOREM MovesLoseNothing == Spec => []NeverLost
<1>1. IInv => NeverLost
  <2> SUFFICES ASSUME IInv, "otherDelete" \notin Allowed
               PROVE  \E c \in Calendar : copies[c].text # NoText
    BY DEF NeverLost
  <2> QED
    BY DEF IInv, CopiesOK, Safe
<1> QED
  BY <1>1, MoveInvariant, PTL

\* When MarkTaskUpdateSynced marks a move that no other move has overlapped,
\* the task is no longer in the old calendar, and unless another client has
\* deleted it, it is in the new one.
THEOREM MovesEndAlone == Spec => MoveEndsAlone
<1>1. IInv /\ [Next]_vars =>
         [\A h \in Handler :
             LET r == req[h]
             IN  /\ alone = h /\ r.pc = "mark" /\ r.result = "ok" /\ Moves(r)
                 /\ req'[h].pc = "idle" /\ rows' # rows
                 => /\ copies[r.from].text = NoText
                    /\ "otherDelete" \notin Allowed => copies[r.to].text # NoText]_vars
  BY DEF IInv, AloneOK
<1> QED
  BY <1>1, MoveInvariant, PTL DEF Spec, MoveEndsAlone
=============================================================================
