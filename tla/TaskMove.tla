------------------------------ MODULE TaskMove ------------------------------
(***************************************************************************)
(* A task moves from one project to another: its row changes project and   *)
(* href when the request is prepared, then the object is put into the new  *)
(* calendar, then deleted in the old one, then the row is marked.  Edits,  *)
(* other moves, other clients and the full scans of the two calendars, one *)
(* at a time, come in between.  One UID, so at most one object for each    *)
(* calendar; but a scan may import a copy as a task of its own.            *)
(***************************************************************************)
EXTENDS TaskRows, FiniteSets

CONSTANTS Calendar,   \* the calendars, each of one project
          Id,         \* bound: the rows there may be at the same time
          Handler,    \* requests in progress at the same time
          None,       \* no calendar, no row
          Allowed,    \* the operations and faults that occur
          FullScanned,\* the calendars whose project has the strategy fullscan
          MaxRequests,\* bound: requests
          MaxRemote   \* bound: writes of other clients

Behaviour == {"move", "edit", "scan", "fail", "lost", "crash", "other", "otherDelete"}

ASSUME MoveAssumption == /\ None \notin Calendar \cup Id \cup Handler
                         /\ Calendar # {} /\ IsFiniteSet(Calendar)
                         /\ Id # {} /\ Content # {} /\ IsFiniteSet(Handler)
                         /\ Allowed \subseteq Behaviour
                         /\ FullScanned \subseteq Calendar
                         /\ {MaxRequests, MaxRemote} \subseteq Nat

VARIABLES copies, \* for each calendar the text of the object, and its last version
          rows,   \* the rows with the UID
          cal,    \* the project of each row, as its calendar
          req,    \* for each handler its request
          scan,   \* the calendar being scanned, and the answer
          alone,  \* history: the move that no other move has overlapped
          requests, remoteWrites \* how many there have been

vars == <<copies, rows, cal, req, scan, alone, requests, remoteWrites>>

-----------------------------------------------------------------------------
Object == [text : Text, last : Nat]

\* Etags: 0 is none, and no number is given twice.
ETag(o) == IF o.text = NoText THEN 0 ELSE o.last

Highest == CHOOSE n \in {copies[c].last : c \in Calendar} :
               \A c \in Calendar : copies[c].last <= n

Wrote(text) == [text |-> text, last |-> Highest + 1]

AnyText == CHOOSE text \in Content : TRUE

AbsentRow == [ImportedRow(AnyText, 0) EXCEPT !.ver = 0, !.status = "absent"]

Live == {i \in Id : rows[i].status # "absent"}

\* An id that no row has and no request knows; which one is all the same.
Unknown == {i \in Id \ Live : \A h \in Handler : req[h].id # i}

NewId == CHOOSE i \in Unknown : TRUE

\* from is the calendar of PreviousHref, to that of NextHref; etag the
\* PreviousETag; new the etag of the object put.
Request == [pc : {"idle", "prepare", "put", "delete", "get", "mark"}, id : Id \cup {None},
            ver : Nat, from : Calendar \cup {None}, to : Calendar \cup {None},
            raw : Text, etag : Nat, new : Nat,
            result : {"none", "ok", "fail", "conflict", "copied"}]

NoRequest == [pc |-> "idle", id |-> None, ver |-> 0, from |-> None, to |-> None,
              raw |-> NoText, etag |-> 0, new |-> 0, result |-> "none"]

NoScan == [cal |-> None, answer |-> [text |-> NoText, last |-> 0]]

\* The task has been imported from a calendar; which one is all the same.
Init == LET c == CHOOSE d \in Calendar : TRUE
            i == CHOOSE j \in Id : TRUE
            text == AnyText
        IN  /\ copies = [d \in Calendar |-> IF d = c THEN [text |-> text, last |-> 1]
                                            ELSE [text |-> NoText, last |-> 0]]
            /\ rows = [j \in Id |-> IF j = i THEN ImportedRow(text, 1) ELSE AbsentRow]
            /\ cal = [j \in Id |-> c]
            /\ req = [h \in Handler |-> NoRequest]
            /\ scan = NoScan
            /\ alone = None
            /\ requests = 0 /\ remoteWrites = 0

-----------------------------------------------------------------------------
Goes(h, r) == req' = [req EXCEPT ![h] = r]

Ends(h) == Goes(h, NoRequest)

SetRow(i, row) == rows' = [rows EXCEPT ![i] = row]

\* The user sends a form for the row as it is now: another text, or another
\* project.  LoadTaskUpdateBase.
Start(h) ==
    \E i \in Live, c \in Calendar, text \in Content :
        /\ c # cal[i] => "move" \in Allowed /\ text = rows[i].raw
        /\ c = cal[i] => "edit" \in Allowed /\ text # rows[i].raw
        /\ req[h].pc = "idle"
        /\ requests < MaxRequests
        /\ requests' = requests + 1
        /\ Goes(h, [NoRequest EXCEPT !.pc = "prepare", !.id = i, !.ver = rows[i].ver,
                                     !.to = c, !.raw = text])
        /\ UNCHANGED <<copies, rows, cal, scan, alone, remoteWrites>>

Moves(r) == r.from # r.to

\* A move between its prepare and its mark.
Moving(r) == r.pc \in {"put", "delete", "get", "mark"} /\ Moves(r)

\* PrepareTaskUpdate: the row is in its new project from here on, with the etag
\* of the object in the old one.
Prepare(h) ==
    LET r == req[h]
    IN  /\ r.pc = "prepare"
        /\ IF r.id \in Live /\ rows[r.id].ver = r.ver
           THEN /\ SetRow(r.id, Pending(rows[r.id], r.raw))
                /\ cal' = [cal EXCEPT ![r.id] = r.to]
                /\ Goes(h, [r EXCEPT !.pc = "put", !.ver = @ + 1, !.from = cal[r.id],
                                     !.etag = rows[r.id].etag])
                /\ alone' = IF cal[r.id] = r.to THEN alone
                            ELSE IF \E k \in Handler : Moving(req[k]) THEN None ELSE h
           ELSE Ends(h) /\ UNCHANGED <<rows, cal, alone>>
        /\ UNCHANGED <<copies, scan, requests, remoteWrites>>

\* PutVTODOCreate sends no precondition: a move replaces whatever it finds at the
\* new href.  PutVTODOUpdate sends If-Match; what the server does with an empty
\* one is its own choice.
PutPossible(r) == Moves(r) \/ r.etag \in {0, ETag(copies[r.to])}

PutRefusable(r) == ~Moves(r) /\ (r.etag = 0 \/ r.etag # ETag(copies[r.to]))

\* Mutant of AfterPut: the old object is not deleted.
AfterPutDone(r) == [r EXCEPT !.pc = "mark", !.result = "ok"]

\* An object that has been put in the new calendar is deleted in the old one.
AfterPut(r) == IF Moves(r) THEN [r EXCEPT !.pc = "delete"]
               ELSE [r EXCEPT !.pc = "mark", !.result = "ok"]

PutFailed(r) == [r EXCEPT !.pc = "mark", !.result = "fail"]

\* A new object is put once, an update again when no answer comes.
Put(h) ==
    LET r == req[h]
    IN  /\ r.pc = "put"
        /\ \/ /\ PutPossible(r)
              /\ copies' = [copies EXCEPT ![r.to] = Wrote(r.raw)]
              /\ \/ Goes(h, AfterPut([r EXCEPT !.new = Highest + 1]))
                 \/ "lost" \in Allowed /\ Goes(h, PutFailed(r))
                 \/ "lost" \in Allowed /\ ~Moves(r) /\ Goes(h, r)
           \/ /\ PutRefusable(r)
              /\ Goes(h, [r EXCEPT !.pc = "get"])
              /\ UNCHANGED copies
           \/ /\ "fail" \in Allowed
              /\ Goes(h, PutFailed(r))
              /\ UNCHANGED copies
        /\ UNCHANGED <<rows, cal, scan, alone, requests, remoteWrites>>

\* markTaskUpdateConflict reads the object at the previous href.
Get(h) ==
    LET o == copies[req[h].from]
    IN  /\ req[h].pc = "get"
        /\ Goes(h, [req[h] EXCEPT !.pc = "mark", !.result = "conflict", !.new = ETag(o)])
        /\ UNCHANGED <<copies, rows, cal, scan, alone, requests, remoteWrites>>

\* Mutant of DeletePossible: the DELETE carries no etag.
DeleteAlways(r) == TRUE

DeletePossible(r) == ETag(copies[r.from]) \in {0, r.etag} \/ r.etag = 0

\* DeleteVTODO; whatever goes wrong is an error with the new object's etag.
Delete(h) ==
    LET r == req[h]
        copied == Goes(h, [r EXCEPT !.pc = "mark", !.result = "copied"])
    IN  /\ r.pc = "delete"
        /\ \/ /\ DeletePossible(r)
              /\ copies' = IF copies[r.from].text = NoText THEN copies
                           ELSE [copies EXCEPT ![r.from] = Wrote(NoText)]
              /\ \/ Goes(h, [r EXCEPT !.pc = "mark", !.result = "ok"])
                 \/ "lost" \in Allowed /\ copied
           \/ /\ ~DeletePossible(r) \/ "fail" \in Allowed
              /\ copied
              /\ UNCHANGED copies
        /\ UNCHANGED <<rows, cal, scan, alone, requests, remoteWrites>>

\* MarkTaskUpdateSynced, MarkTaskUpdateError, MarkTaskUpdateErrorWithETag and
\* MarkTaskUpdateConflict, if the row still has the pending version.
Mark(h) ==
    LET r == req[h]
        row == rows[r.id]
    IN  /\ r.pc = "mark"
        /\ IF r.id \in Live /\ row.ver = r.ver
           THEN SetRow(r.id, CASE r.result = "ok" -> Synced(row, r.new)
                               [] r.result = "fail" -> [row EXCEPT !.status = "error"]
                               [] r.result = "copied" -> [row EXCEPT !.status = "error",
                                                                     !.etag = r.new]
                               [] r.result = "conflict" -> Conflicted(row, r.new))
           ELSE UNCHANGED rows
        /\ Ends(h)
        /\ UNCHANGED <<copies, cal, scan, alone, requests, remoteWrites>>

-----------------------------------------------------------------------------
\* Engine.Run goes through the projects one after the other.  A project with
\* another strategy is fully scanned too, when its runner falls back.
ScanFetch == \E c \in Calendar :
    /\ "scan" \in Allowed
    /\ scan = NoScan
    /\ scan' = [cal |-> c, answer |-> copies[c]]
    /\ UNCHANGED <<copies, rows, cal, req, alone, requests, remoteWrites>>

InProject(c) == {i \in Live : cal[i] = c}

\* The first row of the project with the UID stands for the object.
Matching(c) == {m \in SUBSET InProject(c) :
                   IF InProject(c) = {} \/ scan.answer.text = NoText
                   THEN m = {} ELSE Cardinality(m) = 1}

\* ApplyFullScanProject, for the rows of one project.
ScanApply ==
    LET c == scan.cal
        o == scan.answer
        after(i, m) == LET verdict == IF i \in m THEN Verdict(rows[i], o.text, o.last)
                                      ELSE MissingVerdict(rows[i])
                       IN  IF verdict = "delete" THEN AbsentRow
                           ELSE AfterVerdict(rows[i], verdict, o.text, o.last)
        unseen(m) == m = {} /\ o.text # NoText
    IN  /\ c # None
        /\ \E m \in Matching(c) :
           LET new == IF unseen(m) THEN NewId ELSE None
           IN /\ unseen(m) => Unknown # {}
              /\ rows' = [i \in Id |-> IF i = new THEN ImportedRow(o.text, o.last)
                                       ELSE IF i \in InProject(c) THEN after(i, m)
                                       ELSE rows[i]]
              /\ cal' = [i \in Id |-> IF i = new THEN c ELSE cal[i]]
        /\ scan' = NoScan
        /\ UNCHANGED <<copies, req, alone, requests, remoteWrites>>

\* Another client changes an object, or deletes it.
OtherClient ==
    /\ remoteWrites < MaxRemote
    /\ remoteWrites' = remoteWrites + 1
    /\ \E c \in Calendar, text \in Text :
          /\ copies[c].text # NoText /\ text # copies[c].text
          /\ IF text = NoText THEN "otherDelete" \in Allowed ELSE "other" \in Allowed
          /\ copies' = [copies EXCEPT ![c] = Wrote(text)]
    /\ UNCHANGED <<rows, cal, req, scan, alone, requests>>

\* The process dies.
Crash == /\ "crash" \in Allowed
         /\ \E h \in Handler : req[h].pc # "idle"
         /\ req' = [h \in Handler |-> NoRequest]
         /\ scan' = NoScan
         /\ UNCHANGED <<copies, rows, cal, alone, requests, remoteWrites>>

-----------------------------------------------------------------------------
Work(h) == Prepare(h) \/ Put(h) \/ Get(h) \/ Delete(h) \/ Mark(h)

Next == \/ \E h \in Handler : Start(h) \/ Work(h)
        \/ ScanFetch \/ ScanApply \/ OtherClient \/ Crash

Spec == Init /\ [][Next]_vars

\* Handlers get on.  runnerFor has a project scanned again and again only if its
\* strategy is fullscan; nothing makes the others fall back.
FairSpec == /\ Spec
            /\ \A h \in Handler : WF_vars(Work(h))
            /\ \A c \in FullScanned : SF_vars(ScanFetch /\ scan'.cal = c)
            /\ WF_vars(ScanApply)

-----------------------------------------------------------------------------
TypeOK == /\ copies \in [Calendar -> Object]
          /\ rows \in [Id -> Row]
          /\ cal \in [Id -> Calendar]
          /\ req \in [Handler -> Request]
          /\ scan \in [cal : Calendar \cup {None}, answer : Object]
          /\ alone \in Handler \cup {None}
          /\ requests \in 0 .. MaxRequests /\ remoteWrites \in 0 .. MaxRemote

\* As long as no other client deletes it, the task is in some calendar at any
\* moment: whatever moves overlap, fail or die, no two of them delete the last
\* two copies.
NeverLost == "otherDelete" \notin Allowed =>
                 \E c \in Calendar : copies[c].text # NoText

\* When a move ends well that no other move has overlapped, the task is where
\* it should be and not where it was: whatever edits, scans, other clients and
\* earlier moves have done, what could leave a second copy has made the mark
\* come too late, or fail.
MoveEndsAlone ==
    [][\A h \in Handler :
          LET r == req[h]
          IN  /\ alone = h /\ r.pc = "mark" /\ r.result = "ok" /\ Moves(r)
              /\ req'[h].pc = "idle" /\ rows' # rows
              => /\ copies[r.from].text = NoText
                 /\ "otherDelete" \notin Allowed => copies[r.to].text # NoText]_vars

\* In the end every copy in a project that is synced by full scans has one row
\* there, whatever the scans of this and of the other projects have imported in
\* between, and every row has an object; rows in conflict wait for the user.
RowsMatchCopies ==
    <>[](\A c \in FullScanned :
            LET settled == {i \in InProject(c) : rows[i].status # "conflict"}
            IN  /\ Cardinality(settled) <= 1
                /\ settled # {} => copies[c].text # NoText
                /\ copies[c].text # NoText => InProject(c) # {})
=============================================================================
