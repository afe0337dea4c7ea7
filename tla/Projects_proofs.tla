--------------------------- MODULE Projects_proofs --------------------------
(***************************************************************************)
(* Proofs about Projects, for any calendars, names, projects and requests, *)
(* and all faults.                                                         *)
(*                                                                         *)
(* The invariant: the versions that requests have reserved of a project    *)
(* are different and not above its present one; and a request that another *)
(* one has overtaken is below a version that nobody holds, so that no      *)
(* cancellation ever takes the project back to what it has reserved.       *)
(*                                                                         *)
(* That calendars and projects agree is a second argument, on top of it: a *)
(* request that has changed a calendar and not stored the change yet owes  *)
(* it, and a calendar parts from its project only while a change is owed.  *)
(* What a request has found is a third: its project keeps that name for as *)
(* long as the request's count of the renames is the project's.            *)
(***************************************************************************)
EXTENDS Projects, TLAPS

Rival(g, h) == Holding(g) /\ g # h /\ req[g].project = req[h].project

HeldOK(h) ==
    /\ req[h].project \in Project
    /\ projects[req[h].project].state # "unused"
    /\ req[h].reserved > 0
    /\ req[h].project \in Present => req[h].reserved <= projects[req[h].project].ver
    /\ \A g \in Handler : Rival(g, h) => req[g].reserved # req[h].reserved

\* Another request has stored its name since h made its reservation; it has
\* left the version v behind, which is above what h holds.
OvertakenOK(h) ==
    req[h].project \in Present /\ commits[req[h].project] # req[h].commits
    => \E v \in Nat : /\ req[h].reserved < v
                      /\ v <= projects[req[h].project].ver
                      /\ \A g \in Handler : Rival(g, h) => req[g].reserved # v

Locks == \A h \in Handler : Holding(h) => HeldOK(h) /\ OvertakenOK(h)

IInv == StateOK /\ OneDefault /\ Locks

-----------------------------------------------------------------------------
\* The records the steps are made of are well typed.
LEMMA NewRowType ==
    ASSUME NEW c \in Calendar, NEW n \in Name
    PROVE  /\ NewRow(c, n) \in Row
           /\ NewRow(c, n).state = "present" /\ NewRow(c, n).href = c
           /\ NewRow(c, n).isDefault = FALSE /\ NewRow(c, n).ver = 1
BY DEF NewRow, NoRow, Row

LEMMA OldRowType ==
    /\ NoRow \in Row /\ NoRow.state = "unused" /\ NoRow.isDefault = FALSE
    /\ DeletedRow \in Row /\ DeletedRow.state = "deleted" /\ DeletedRow.isDefault = FALSE
BY DEF NoRow, DeletedRow, Row

LEMMA NamedType ==
    ASSUME NEW row \in Row, NEW n \in Name \cup {None}
    PROVE  /\ Named(row, n) \in Row
           /\ Named(row, n).state = row.state /\ Named(row, n).href = row.href
           /\ Named(row, n).ver = row.ver /\ Named(row, n).isDefault = row.isDefault
BY DEF Named, Row

LEMMA VersionType ==
    ASSUME NEW row \in Row, NEW v \in Nat
    PROVE  LET new == [row EXCEPT !.ver = v]
           IN  /\ new \in Row /\ new.state = row.state /\ new.href = row.href
               /\ new.isDefault = row.isDefault /\ new.ver = v
BY DEF Row

LEMMA NoRequestType == NoRequest \in Request /\ NoRequest.pc = "idle"
BY DEF NoRequest, Request, Listing

-----------------------------------------------------------------------------
\* The initial states satisfy the invariant.
LEMMA InitIInv == Init => IInv
<1> SUFFICES ASSUME Init PROVE IInv
  OBVIOUS
<1>1. PICK c \in Calendar, n \in Name, p \in Project :
          /\ calendars = [d \in Calendar |-> IF d = c THEN n ELSE None]
          /\ projects = [q \in Project |->
                IF q = p THEN [NewRow(c, n) EXCEPT !.isDefault = TRUE] ELSE NoRow]
          /\ default = p
          /\ req = [h \in Handler |-> NoRequest]
          /\ requests = 0
          /\ commits = [q \in Project |-> 0]
          /\ disturbed = {}
  BY Zenon DEF Init
<1>2. [NewRow(c, n) EXCEPT !.isDefault = TRUE] \in Row
  BY <1>1 DEF NewRow, NoRow, Row
<1>3. Present = {p} /\ projects[p].isDefault
  BY <1>1, OldRowType DEF Present, NewRow, NoRow
<1>4. \A h \in Handler : req[h] = NoRequest
  BY DEF Init
<1>5. StateOK
  <2>1. projects \in [Project -> Row]
    BY <1>1, <1>2, OldRowType
  <2>2. /\ calendars \in Listing
        /\ req \in [Handler -> Request]
        /\ requests \in Nat /\ commits \in [Project -> Nat] /\ disturbed \subseteq Project
    BY <1>1, NoRequestType DEF Init, Listing
  <2> QED
    BY <1>1, <1>3, <2>1, <2>2 DEF StateOK
<1>6. OneDefault
  BY <1>1, <1>3 DEF OneDefault
<1>7. Locks
  BY <1>4, NoRequestType DEF Locks, Holding
<1> QED
  BY <1>5, <1>6, <1>7 DEF IInv

-----------------------------------------------------------------------------
(* What a step may do without a thought for the holders: no new holder, and *)
(* no project goes back in its life or its version.                         *)
HoldersKept ==
    \A g \in Handler : Holding(g)' =>
        /\ Holding(g)
        /\ req'[g].project = req[g].project
        /\ req'[g].reserved = req[g].reserved
        /\ req'[g].commits = req[g].commits

RowsGoOn ==
    \A p \in Project : projects[p].state # "unused" =>
        /\ projects'[p].state # "unused"
        /\ projects'[p].state = "present" =>
              projects[p].state = "present" /\ projects'[p].ver >= projects[p].ver

LEMMA LocksKept ==
    ASSUME IInv, StateOK', HoldersKept, RowsGoOn, UNCHANGED commits
    PROVE  Locks'
<1> SUFFICES ASSUME NEW h \in Handler, Holding(h)'
             PROVE  HeldOK(h)' /\ OvertakenOK(h)'
  BY DEF Locks
<1>1. /\ Holding(h)
      /\ req'[h].project = req[h].project
      /\ req'[h].reserved = req[h].reserved
      /\ req'[h].commits = req[h].commits
  BY DEF HoldersKept
<1>2. HeldOK(h) /\ OvertakenOK(h)
  BY <1>1 DEF IInv, Locks
<1>3. /\ projects \in [Project -> Row] /\ projects' \in [Project -> Row]
      /\ req \in [Handler -> Request]
  BY DEF IInv, StateOK
<1>4. /\ req[h].reserved \in Nat
      /\ \A p \in Project : projects[p].ver \in Nat /\ projects'[p].ver \in Nat
  BY <1>3 DEF Request, Row
<1>5. \A g \in Handler : Rival(g, h)' =>
          Rival(g, h) /\ req'[g].reserved = req[g].reserved
  BY <1>1 DEF Rival, HoldersKept
<1>6. req'[h].project \in Present' =>
          /\ req[h].project \in Present
          /\ projects'[req[h].project].ver >= projects[req[h].project].ver
  BY <1>1, <1>2 DEF HeldOK, Present, RowsGoOn
<1>7. HeldOK(h)'
  BY <1>1, <1>2, <1>4, <1>5, <1>6 DEF HeldOK, RowsGoOn
<1>8. OvertakenOK(h)'
  <2> SUFFICES ASSUME req'[h].project \in Present',
                      commits'[req'[h].project] # req'[h].commits
               PROVE  \E v \in Nat : /\ req'[h].reserved < v
                                     /\ v <= projects'[req'[h].project].ver
                                     /\ \A g \in Handler :
                                           Rival(g, h)' => req'[g].reserved # v
    BY DEF OvertakenOK
  <2>1. PICK v \in Nat : /\ req[h].reserved < v
                         /\ v <= projects[req[h].project].ver
                         /\ \A g \in Handler : Rival(g, h) => req[g].reserved # v
    BY <1>1, <1>2, <1>6 DEF OvertakenOK
  <2>2. v <= projects'[req[h].project].ver
    BY <1>2, <1>4, <1>6, <2>1 DEF HeldOK
  <2> QED
    BY <1>1, <1>5, <2>1, <2>2
<1> QED
  BY <1>7, <1>8

-----------------------------------------------------------------------------
\* What accepting, going on and ending do to the requests.
LEMMA AcceptStep ==
    ASSUME StateOK, NEW h \in Handler, NEW r \in Request,
           NEW op \in {"create", "rename", "delete", "settings", "task"},
           r.pc \in {"form", "insert", "list", "task"},
           Accept(h, op, r)
    PROVE  req' \in [Handler -> Request] /\ requests' \in Nat /\ HoldersKept
<1>1. req \in [Handler -> Request] /\ requests \in Nat
  BY DEF StateOK
<1>2. [r EXCEPT !.op = op] \in Request /\ [r EXCEPT !.op = op].pc = r.pc
  BY DEF Request
<1>3. req' \in [Handler -> Request] /\ requests' \in Nat
  BY <1>1, <1>2 DEF Accept
<1>4. req'[h].pc = r.pc /\ \A g \in Handler \ {h} : req'[g] = req[g]
  BY <1>1, <1>2 DEF Accept
<1> QED
  BY <1>3, <1>4 DEF HoldersKept, Holding

LEMMA GoesStep ==
    ASSUME StateOK, NEW h \in Handler, Holding(h),
           NEW pc \in {"local", "cancel"}, Goes(h, pc)
    PROVE  req' \in [Handler -> Request] /\ requests' \in Nat /\ HoldersKept
<1>1. req \in [Handler -> Request] /\ requests \in Nat
  BY DEF StateOK
<1>2. [req[h] EXCEPT !.pc = pc] \in Request
  BY <1>1 DEF Request
<1>3. req' \in [Handler -> Request] /\ requests' \in Nat
  BY <1>1, <1>2 DEF Goes
<1>4. /\ req'[h] = [req[h] EXCEPT !.pc = pc]
      /\ \A g \in Handler \ {h} : req'[g] = req[g]
  BY <1>1 DEF Goes
<1>5. /\ req'[h].project = req[h].project
      /\ req'[h].reserved = req[h].reserved /\ req'[h].commits = req[h].commits
  BY <1>1, <1>4 DEF Request
<1> QED
  BY <1>3, <1>4, <1>5 DEF HoldersKept, Holding

LEMMA EndsStep ==
    ASSUME StateOK, NEW h \in Handler, Ends(h)
    PROVE  /\ req' \in [Handler -> Request] /\ requests' \in Nat /\ HoldersKept
           /\ ~Holding(h)' /\ \A g \in Handler \ {h} : req'[g] = req[g]
<1>1. req \in [Handler -> Request] /\ requests \in Nat
  BY DEF StateOK
<1>2. req' \in [Handler -> Request] /\ requests' \in Nat
  BY <1>1, NoRequestType DEF Ends
<1>3. req'[h].pc = "idle" /\ \A g \in Handler \ {h} : req'[g] = req[g]
  BY <1>1, NoRequestType DEF Ends
<1> QED
  BY <1>2, <1>3 DEF HoldersKept, Holding

\* Where the rows stay as they are, only types are left to show.
LEMMA RowsUnchanged ==
    ASSUME IInv, StateOK', HoldersKept, UNCHANGED <<projects, default, commits>>
    PROVE  IInv'
<1>1. RowsGoOn
  <2>1. projects \in [Project -> Row]
    BY DEF IInv, StateOK
  <2>2. \A p \in Project : projects[p].ver \in Nat
    BY <2>1 DEF Row
  <2> QED
    BY <2>2 DEF RowsGoOn
<1>2. Locks'
  BY <1>1, LocksKept
<1>3. OneDefault'
  BY DEF IInv, OneDefault, Present
<1> QED
  BY <1>2, <1>3 DEF IInv

-----------------------------------------------------------------------------
\* Steps that leave the rows alone and do not end in a transaction.
LEMMA RequestSteps ==
    ASSUME IInv, NEW h \in Handler,
           \/ FillForm(h) \/ ReserveRefused(h) \/ NoCredentials(h)
           \/ RemoteRename(h) \/ RemoteDelete(h) \/ RemoteFails(h)
           \/ CreateCalendar(h) \/ ListCalendars(h) \/ TaskLoads(h)
    PROVE  IInv' /\ HoldersKept
<1> USE DEF IInv
<1>1. /\ projects \in [Project -> Row] /\ calendars \in Listing
      /\ req \in [Handler -> Request] /\ disturbed \subseteq Project
  BY DEF StateOK
<1>2. \A p \in Present : /\ p \in Project /\ projects[p].ver \in Nat
                         /\ projects[p].name \in Name \cup {None}
  BY <1>1 DEF Present, Row
<1>3. /\ UNCHANGED <<projects, default, commits>>
      /\ calendars' \in Listing /\ disturbed' \subseteq Project
  <2>1. Touched(h) \subseteq Project
    BY DEF Touched, Present
  <2>2. req[h].href \in Calendar \cup {None} /\ req[h].name \in Name \cup {None}
    BY <1>1 DEF Request
  <2>3. CASE RemoteRename(h) \/ RemoteDelete(h) \/ RemoteFails(h)
    BY <1>1, <2>1, <2>2, <2>3
       DEF RemoteRename, RemoteDelete, RemoteFails, Goes, Listing
  <2>4. CASE CreateCalendar(h)
    BY <1>1, <2>4 DEF CreateCalendar, Listing
  <2> QED
    BY <1>1, <2>3, <2>4 DEF FillForm, ReserveRefused, NoCredentials, ListCalendars, TaskLoads
<1>4. req' \in [Handler -> Request] /\ requests' \in Nat /\ HoldersKept
  <2>1. CASE FillForm(h)
    <3>1. PICK p \in Present, n \in Name, op \in {"rename", "delete"} :
              Accept(h, op, [NoRequest EXCEPT !.pc = "form", !.project = p,
                                              !.ver = projects[p].ver, !.name = n])
      BY <2>1 DEF FillForm
    <3> DEFINE r == [NoRequest EXCEPT !.pc = "form", !.project = p,
                                      !.ver = projects[p].ver, !.name = n]
    <3>2. r \in Request /\ r.pc = "form"
      BY <1>2, NoRequestType DEF Request, NoRequest
    <3> HIDE DEF r
    <3> QED
      BY <3>1, <3>2, AcceptStep DEF r
  <2>2. CASE CreateCalendar(h)
    <3>1. PICK n \in Name :
              Accept(h, "create", [NoRequest EXCEPT !.pc = "insert", !.name = n,
                                                    !.href = SlugOf[n]])
      BY <2>2 DEF CreateCalendar
    <3> DEFINE r == [NoRequest EXCEPT !.pc = "insert", !.name = n, !.href = SlugOf[n]]
    <3>2. r \in Request /\ r.pc = "insert"
      BY NoRequestType, ProjectsAssumption DEF Request, NoRequest
    <3> HIDE DEF r
    <3> QED
      BY <3>1, <3>2, AcceptStep DEF r
  <2>3. CASE ListCalendars(h)
    <3> DEFINE r == [NoRequest EXCEPT !.pc = "list", !.listing = calendars]
    <3>1. r \in Request /\ r.pc = "list"
      BY <1>1, NoRequestType DEF Request, NoRequest
    <3>2. Accept(h, "settings", r)
      BY <2>3 DEF ListCalendars
    <3> HIDE DEF r
    <3> QED
      BY <3>1, <3>2, AcceptStep
  <2>4. CASE TaskLoads(h)
    <3>1. PICK p \in Present :
              Accept(h, "task", [NoRequest EXCEPT !.pc = "task", !.project = p,
                                                  !.name = projects[p].name])
      BY <2>4 DEF TaskLoads
    <3> DEFINE r == [NoRequest EXCEPT !.pc = "task", !.project = p,
                                      !.name = projects[p].name]
    <3>2. r \in Request /\ r.pc = "task"
      BY <1>2, NoRequestType DEF Request, NoRequest
    <3> HIDE DEF r
    <3> QED
      BY <3>1, <3>2, AcceptStep DEF r
  <2>5. CASE ReserveRefused(h)
    BY <2>5, EndsStep DEF ReserveRefused
  <2>6. CASE NoCredentials(h)
    BY <2>6, EndsStep, GoesStep DEF NoCredentials, Holding
  <2>7. CASE RemoteRename(h)
    BY <2>7, GoesStep DEF RemoteRename, Holding
  <2>8. CASE RemoteDelete(h) \/ RemoteFails(h)
    BY <2>8, GoesStep DEF RemoteDelete, RemoteFails, Holding
  <2> QED
    BY <2>1, <2>2, <2>3, <2>4, <2>5, <2>6, <2>7, <2>8
<1>5. StateOK'
  BY <1>3, <1>4 DEF StateOK, Present
<1> QED
  BY <1>3, <1>4, <1>5, RowsUnchanged

\* The process dies; another client works on the calendars.
LEMMA CrashAndOther ==
    ASSUME IInv, Crash \/ OtherClient
    PROVE  IInv'
<1> USE DEF IInv
<1>1. \A h \in Handler : Touched(h) \subseteq Project
  BY DEF Touched, Present
<1>2. CASE Crash
  <2>1. req' \in [Handler -> Request] /\ HoldersKept
    BY <1>2, NoRequestType DEF Crash, HoldersKept, Holding
  <2>2. disturbed' \subseteq Project
    BY <1>1, <1>2 DEF Crash, StateOK
  <2>3. StateOK'
    BY <1>2, <2>1, <2>2 DEF Crash, StateOK, Present
  <2> QED
    BY <1>2, <2>1, <2>3, RowsUnchanged DEF Crash
<1>3. CASE OtherClient
  <2>1. PICK c \in Calendar, n \in Name \cup {None} :
            /\ calendars' = [calendars EXCEPT ![c] = n]
            /\ disturbed' = disturbed \cup {p \in Present : projects[p].href = c}
    BY <1>3 DEF OtherClient
  <2>2. calendars' \in Listing /\ disturbed' \subseteq Project
    BY <2>1 DEF StateOK, Listing, Present
  <2>3. requests' \in Nat /\ UNCHANGED <<projects, default, req, commits>>
    BY <1>3 DEF OtherClient, StateOK
  <2>4. StateOK' /\ HoldersKept
    BY <2>2, <2>3 DEF StateOK, Present, HoldersKept, Holding
  <2> QED
    BY <2>3, <2>4, RowsUnchanged
<1> QED
  BY <1>2, <1>3

-----------------------------------------------------------------------------
\* A step that changes one row, and neither its life, address, default nor,
\* downwards, its version.
LEMMA RowChanges ==
    ASSUME IInv, NEW p \in Present, NEW row \in Row,
           row.state = "present", row.href = projects[p].href,
           row.isDefault = projects[p].isDefault,
           projects' = [projects EXCEPT ![p] = row],
           calendars' \in Listing, UNCHANGED default,
           req' \in [Handler -> Request], requests' \in Nat,
           commits' \in [Project -> Nat], disturbed' \subseteq Project
    PROVE  /\ StateOK' /\ OneDefault' /\ Present' = Present
           /\ projects'[p] = row /\ \A q \in Project \ {p} : projects'[q] = projects[q]
           /\ row.ver >= projects[p].ver => RowsGoOn
<1>1. projects \in [Project -> Row] /\ p \in Project /\ projects[p].state = "present"
  BY DEF IInv, StateOK, Present
<1>2. projects'[p] = row /\ \A q \in Project \ {p} : projects'[q] = projects[q]
  BY <1>1
<1>3. projects' \in [Project -> Row]
  BY <1>1
<1>4. Present' = Present
  BY <1>1, <1>2 DEF Present
<1>5. \A q \in Project : /\ projects'[q].href = projects[q].href
                         /\ projects'[q].isDefault = projects[q].isDefault
  BY <1>2
<1>6. StateOK'
  BY <1>3, <1>4, <1>5 DEF IInv, StateOK, Present
<1>7. OneDefault'
  BY <1>4, <1>5 DEF IInv, OneDefault, Present
<1>8. ASSUME row.ver >= projects[p].ver PROVE RowsGoOn
  <2>1. \A q \in Project : projects[q].ver \in Nat
    BY <1>1 DEF Row
  <2> QED
    BY <1>1, <1>2, <1>8, <2>1 DEF RowsGoOn
<1> QED
  BY <1>2, <1>4, <1>6, <1>7, <1>8

\* Tasks and conflicts come and go; the sync stores its strategy.
LEMMA RowSteps ==
    ASSUME IInv,
           \/ \E h \in Handler : TaskStores(h)
           \/ TasksGo \/ ConflictRecorded \/ ConflictsExpire \/ StrategyStored
    PROVE  IInv'
<1>1. /\ projects \in [Project -> Row] /\ req \in [Handler -> Request]
      /\ calendars \in Listing /\ commits \in [Project -> Nat]
      /\ requests \in Nat /\ disturbed \subseteq Project /\ StateOK
  BY DEF IInv, StateOK
<1>2. \A p \in Present : /\ p \in Project /\ projects[p].state = "present"
                         /\ projects[p] \in Row /\ projects[p].ver \in Nat
  BY <1>1 DEF Present, Row
<1>3. /\ req' \in [Handler -> Request] /\ requests' \in Nat /\ HoldersKept
      /\ UNCHANGED <<calendars, default, commits, disturbed>>
  <2>1. ASSUME NEW h \in Handler, TaskStores(h)
        PROVE  /\ req' \in [Handler -> Request] /\ requests' \in Nat /\ HoldersKept
               /\ UNCHANGED <<calendars, default, commits, disturbed>>
    BY <1>1, <2>1, EndsStep DEF TaskStores
  <2>2. CASE TasksGo \/ ConflictRecorded \/ ConflictsExpire \/ StrategyStored
    BY <1>1, <2>2
       DEF TasksGo, ConflictRecorded, ConflictsExpire, StrategyStored, HoldersKept, Holding
  <2> QED
    BY <2>1, <2>2
<1>4. \/ UNCHANGED projects
      \/ \E p \in Present : \E row \in Row :
            /\ row.state = "present" /\ row.href = projects[p].href
            /\ row.isDefault = projects[p].isDefault /\ row.ver >= projects[p].ver
            /\ projects' = [projects EXCEPT ![p] = row]
  <2>1. ASSUME NEW h \in Handler, TaskStores(h), ~UNCHANGED projects
        PROVE  \E p \in Present : \E row \in Row :
                  /\ row.state = "present" /\ row.href = projects[p].href
                  /\ row.isDefault = projects[p].isDefault /\ row.ver >= projects[p].ver
                  /\ projects' = [projects EXCEPT ![p] = row]
    <3> DEFINE p == req[h].project
               row == [projects[p] EXCEPT !.task = req[h].name]
    <3>1. p \in Present /\ projects' = [projects EXCEPT ![p] = row]
      BY <2>1 DEF TaskStores
    <3>2. req[h].name \in Name \cup {None}
      BY <1>1 DEF Request
    <3>3. /\ row \in Row /\ row.state = "present" /\ row.href = projects[p].href
          /\ row.isDefault = projects[p].isDefault /\ row.ver >= projects[p].ver
      BY <1>2, <3>1, <3>2 DEF Row
    <3> HIDE DEF row
    <3> QED
      BY <3>1, <3>3
  <2>2. ASSUME NEW p \in Present, NEW row \in Row,
               \/ row = [projects[p] EXCEPT !.task = None]
               \/ \E b \in BOOLEAN : row = [projects[p] EXCEPT !.entries = b]
               \/ row = [projects[p] EXCEPT !.ver = @ + 1]
        PROVE  /\ row.state = "present" /\ row.href = projects[p].href
               /\ row.isDefault = projects[p].isDefault /\ row.ver >= projects[p].ver
    BY <1>2, <2>2 DEF Row
  <2>3. \A p \in Present : /\ [projects[p] EXCEPT !.task = None] \in Row
                           /\ \A b \in BOOLEAN : [projects[p] EXCEPT !.entries = b] \in Row
                           /\ [projects[p] EXCEPT !.ver = @ + 1] \in Row
    BY <1>2 DEF Row
  <2>4. CASE TasksGo
    <3>1. PICK p \in Present : projects' = [projects EXCEPT ![p].task = None]
      BY <2>4 DEF TasksGo
    <3>2. projects' = [projects EXCEPT ![p] = [projects[p] EXCEPT !.task = None]]
      BY <1>1, <1>2, <3>1
    <3> QED
      BY <2>2, <2>3, <3>2
  <2>5. CASE ConflictRecorded \/ ConflictsExpire
    <3>1. PICK p \in Present, b \in BOOLEAN : projects' = [projects EXCEPT ![p].entries = b]
      BY <2>5 DEF ConflictRecorded, ConflictsExpire
    <3>2. projects' = [projects EXCEPT ![p] = [projects[p] EXCEPT !.entries = b]]
      BY <1>1, <1>2, <3>1
    <3> QED
      BY <2>2, <2>3, <3>2
  <2>6. CASE StrategyStored
    <3>1. PICK p \in Present : projects' = [projects EXCEPT ![p].ver = @ + 1]
      BY <2>6 DEF StrategyStored
    <3>2. projects' = [projects EXCEPT ![p] = [projects[p] EXCEPT !.ver = @ + 1]]
      BY <1>1, <1>2, <3>1
    <3> QED
      BY <2>2, <2>3, <3>2
  <2> QED
    BY <2>1, <2>4, <2>5, <2>6
<1>5. CASE UNCHANGED projects
  <2>1. StateOK'
    BY <1>1, <1>3, <1>5 DEF StateOK, Present
  <2> QED
    BY <1>3, <1>5, <2>1, RowsUnchanged
<1>6. ASSUME NEW p \in Present, NEW row \in Row,
             row.state = "present", row.href = projects[p].href,
             row.isDefault = projects[p].isDefault, row.ver >= projects[p].ver,
             projects' = [projects EXCEPT ![p] = row]
      PROVE  IInv'
  <2>1. StateOK' /\ OneDefault' /\ RowsGoOn
    BY <1>1, <1>3, <1>6, RowChanges
  <2> QED
    BY <1>3, <2>1, LocksKept DEF IInv
<1> QED
  BY <1>4, <1>5, <1>6

\* A new project takes an id that no request has known.
LEMMA InsertStep ==
    ASSUME IInv, NEW h \in Handler, InsertProject(h)
    PROVE  IInv'
<1>1. /\ projects \in [Project -> Row] /\ req \in [Handler -> Request]
      /\ calendars \in Listing /\ commits \in [Project -> Nat]
      /\ disturbed \subseteq Project /\ StateOK
  BY DEF IInv, StateOK
<1>2. /\ req' \in [Handler -> Request] /\ requests' \in Nat /\ HoldersKept
      /\ UNCHANGED <<calendars, default, commits>>
  BY <1>1, EndsStep DEF InsertProject
<1>3. CASE UNCHANGED <<projects, disturbed>>
  <2>1. StateOK'
    BY <1>1, <1>2, <1>3 DEF StateOK, Present
  <2> QED
    BY <1>2, <1>3, <2>1, RowsUnchanged
<1>4. ASSUME NEW p \in Unused, ~Taken(req[h].href),
             projects' = [projects EXCEPT ![p] = NewRow(req[h].href, req[h].name)],
             disturbed' \subseteq Project
      PROVE  IInv'
  <2> DEFINE row == NewRow(req[h].href, req[h].name)
  <2>1. /\ row \in Row /\ row.state = "present" /\ row.href = req[h].href
        /\ row.isDefault = FALSE
    <3>1. req[h].href \in Calendar \cup {None} /\ req[h].name \in Name \cup {None}
      BY <1>1 DEF Request
    <3> QED
      BY <3>1 DEF NewRow, NoRow, Row
  <2> HIDE DEF row
  <2>2. p \in Project /\ projects[p].state = "unused" /\ p \notin Present
    BY DEF Unused, Present
  <2>3. /\ projects' \in [Project -> Row] /\ projects'[p] = row
        /\ \A q \in Project \ {p} : projects'[q] = projects[q]
    BY <1>1, <1>4, <2>1, <2>2 DEF row
  <2>4. Present' = Present \cup {p}
    BY <2>1, <2>2, <2>3 DEF Present
  <2>5. \A q, r \in Present' : projects'[q].href = projects'[r].href => q = r
    <3>1. \A q \in Present : q \in Project \ {p} /\ projects[q].href # req[h].href
      BY <1>4, <2>2 DEF Taken, Present
    <3>2. \A q, r \in Present : projects[q].href = projects[r].href => q = r
      BY <1>1 DEF StateOK
    <3> QED
      BY <2>1, <2>3, <2>4, <3>1, <3>2
  <2>6. StateOK'
    BY <1>1, <1>2, <1>4, <2>3, <2>5 DEF StateOK
  <2>7. OneDefault'
    <3>1. default # p /\ \A q \in Present : q \in Project \ {p}
      BY <2>2, ProjectsAssumption DEF IInv, OneDefault, Present
    <3> QED
      BY <1>2, <2>1, <2>3, <2>4, <3>1 DEF IInv, OneDefault
  <2>8. RowsGoOn
    <3>1. \A q \in Project : projects[q].ver \in Nat
      BY <1>1 DEF Row
    <3> QED
      BY <2>2, <2>3, <3>1 DEF RowsGoOn
  <2> QED
    BY <1>2, <2>6, <2>7, <2>8, LocksKept DEF IInv
<1> QED
  BY <1>1, <1>3, <1>4 DEF InsertProject, Unused

\* A project that goes stays gone, and is no longer the default.
LEMMA CommitDeleteStep ==
    ASSUME IInv, NEW h \in Handler, CommitDelete(h)
    PROVE  IInv'
<1> DEFINE p == req[h].project
<1>1. /\ projects \in [Project -> Row] /\ req \in [Handler -> Request]
      /\ calendars \in Listing /\ commits \in [Project -> Nat]
      /\ disturbed \subseteq Project /\ StateOK /\ default \in Project \cup {None}
  BY DEF IInv, StateOK
<1>2. /\ req' \in [Handler -> Request] /\ requests' \in Nat /\ HoldersKept
      /\ UNCHANGED <<calendars, commits>>
  BY <1>1, EndsStep DEF CommitDelete
<1>3. disturbed' \subseteq Project
  BY <1>1 DEF CommitDelete, Touched, Present
<1>4. CASE UNCHANGED <<projects, default>>
  <2>1. StateOK'
    BY <1>1, <1>2, <1>3, <1>4 DEF StateOK, Present
  <2> QED
    BY <1>2, <1>4, <2>1, RowsUnchanged
<1>5. CASE /\ StillReserved(h) /\ projects' = [projects EXCEPT ![p] = DeletedRow]
           /\ default' = WithoutProject(p)
  <2>1. p \in Project /\ p \in Present
    BY <1>5 DEF StillReserved, Present
  <2>2. /\ projects' \in [Project -> Row] /\ projects'[p] = DeletedRow
        /\ \A q \in Project \ {p} : projects'[q] = projects[q]
    BY <1>1, <1>5, <2>1, OldRowType
  <2>3. Present' = Present \ {p}
    BY <2>1, <2>2, OldRowType DEF Present
  <2>4. StateOK'
    <3>1. default' \in Project \cup {None}
      BY <1>1, <1>5 DEF WithoutProject
    <3>2. \A q, r \in Present' : projects'[q].href = projects'[r].href => q = r
      BY <1>1, <2>2, <2>3 DEF StateOK, Present
    <3> QED
      BY <1>1, <1>2, <1>3, <2>2, <3>1, <3>2 DEF StateOK
  <2>5. OneDefault'
    <3>1. /\ default' # None => default' = default /\ default # p
          /\ \A q \in Present \ {p} : (q = default') <=> (q = default)
      BY <1>5, <2>1, ProjectsAssumption DEF WithoutProject, Present
    <3> QED
      BY <2>2, <2>3, <3>1 DEF IInv, OneDefault, Present
  <2>6. RowsGoOn
    <3>1. \A q \in Project : projects[q].ver \in Nat
      BY <1>1 DEF Row
    <3> QED
      BY <2>2, <3>1, OldRowType DEF RowsGoOn
  <2> QED
    BY <1>2, <2>4, <2>5, <2>6, LocksKept DEF IInv
<1> QED
  BY <1>4, <1>5 DEF CommitDelete

-----------------------------------------------------------------------------
\* What is known before each of the steps that count on the version.
LEMMA TypeFacts ==
    ASSUME IInv
    PROVE  /\ StateOK
           /\ projects \in [Project -> Row] /\ req \in [Handler -> Request]
           /\ calendars \in Listing /\ commits \in [Project -> Nat]
           /\ requests \in Nat /\ disturbed \subseteq Project
           /\ \A p \in Project : projects[p].ver \in Nat /\ commits[p] \in Nat
           /\ \A h \in Handler : /\ req[h].reserved \in Nat /\ req[h].commits \in Nat
                                 /\ req[h].name \in Name \cup {None}
           /\ \A p \in Present : /\ p \in Project /\ projects[p].state = "present"
                                 /\ projects[p] \in Row
<1>1. /\ StateOK /\ projects \in [Project -> Row] /\ req \in [Handler -> Request]
      /\ calendars \in Listing /\ commits \in [Project -> Nat]
      /\ requests \in Nat /\ disturbed \subseteq Project
  BY DEF IInv, StateOK
<1>2. \A p \in Project : projects[p].ver \in Nat /\ commits[p] \in Nat
  BY <1>1 DEF Row
<1>3. \A h \in Handler : /\ req[h].reserved \in Nat /\ req[h].commits \in Nat
                         /\ req[h].name \in Name \cup {None}
  BY <1>1 DEF Request
<1> QED
  BY <1>1, <1>2, <1>3 DEF Present

\* A reservation is a new number, above all that are held.
LEMMA ReserveStep ==
    ASSUME IInv, NEW h \in Handler, Reserve(h)
    PROVE  IInv'
<1> DEFINE p == req[h].project
           row == [projects[p] EXCEPT !.ver = @ + 1]
<1>1. /\ req[h].pc = "form" /\ p \in Present /\ p \in Project
      /\ projects[p].href \in Calendar \cup {None}
      /\ UNCHANGED <<calendars, default, requests, commits, disturbed>>
  BY TypeFacts DEF Reserve, Row
<1>2. /\ row \in Row /\ row.state = "present" /\ row.href = projects[p].href
      /\ row.isDefault = projects[p].isDefault /\ row.ver = projects[p].ver + 1
  BY <1>1, TypeFacts DEF Row
<1>3. projects' = [projects EXCEPT ![p] = row]
  BY <1>1, TypeFacts DEF Reserve
<1>4. /\ req' \in [Handler -> Request] /\ Holding(h)'
      /\ req'[h].project = p /\ req'[h].reserved = projects[p].ver + 1
      /\ req'[h].commits = commits[p]
      /\ \A g \in Handler \ {h} : req'[g] = req[g]
  <2> DEFINE r == [req[h] EXCEPT !.pc = "remote", !.href = projects[p].href,
                                 !.reserved = projects[p].ver + 1, !.commits = commits[p]]
  <2>1. /\ r \in Request /\ r.pc = "remote" /\ r.project = p
        /\ r.reserved = projects[p].ver + 1 /\ r.commits = commits[p]
    <3>1. /\ req[h] \in Request /\ projects[p].ver + 1 \in Nat /\ commits[p] \in Nat
      BY <1>1, TypeFacts
    <3>2. r = [req[h] EXCEPT !.pc = "remote", !.href = projects[p].href,
                             !.reserved = projects[p].ver + 1, !.commits = commits[p]]
      OBVIOUS
    <3> HIDE DEF r, row
    <3> QED
      BY <1>1, <3>1, <3>2 DEF Request
  <2>2. req' = [req EXCEPT ![h] = r]
    BY TypeFacts DEF Reserve
  <2> HIDE DEF r
  <2>3. req'[h] = r /\ req' \in [Handler -> Request]
    BY <2>1, <2>2, TypeFacts
  <2> QED
    BY <2>1, <2>2, <2>3, TypeFacts DEF Holding
<1> HIDE DEF row
<1>5. /\ StateOK' /\ OneDefault' /\ Present' = Present
      /\ projects'[p] = row /\ \A q \in Project \ {p} : projects'[q] = projects[q]
  BY <1>1, <1>2, <1>3, <1>4, RowChanges, TypeFacts
<1>6. \A g \in Handler \ {h} : Holding(g)' => /\ Holding(g) /\ HeldOK(g) /\ OvertakenOK(g)
                                              /\ req[g].project \in Project
  BY <1>4 DEF Holding, IInv, Locks, HeldOK
<1>7. \A g \in Handler \ {h} : Holding(g)' /\ req[g].project = p
          => req[g].reserved <= projects[p].ver
  BY <1>1, <1>6 DEF HeldOK
<1>8. HeldOK(h)' /\ OvertakenOK(h)'
  <2>1. \A g \in Handler : Rival(g, h)' => req'[g].reserved # req'[h].reserved
    BY <1>1, <1>4, <1>7, TypeFacts DEF Rival
  <2>2. HeldOK(h)'
    BY <1>1, <1>2, <1>4, <1>5, <2>1, TypeFacts DEF HeldOK
  <2>3. OvertakenOK(h)'
    BY <1>1, <1>4 DEF OvertakenOK
  <2> QED
    BY <2>2, <2>3
<1>9. ASSUME NEW g \in Handler \ {h}, Holding(g)'
      PROVE  HeldOK(g)' /\ OvertakenOK(g)'
  <2>1. \A k \in Handler : Rival(k, g)' =>
            \/ k = h /\ req[g].project = p /\ req'[k].reserved = projects[p].ver + 1
            \/ Rival(k, g) /\ req'[k].reserved = req[k].reserved
    BY <1>4, <1>9 DEF Rival, Holding
  <2>2. req'[g] = req[g] /\ HeldOK(g) /\ OvertakenOK(g) /\ req[g].project \in Project
    BY <1>4, <1>6, <1>9
  <2>3. /\ projects'[req[g].project].state = projects[req[g].project].state
        /\ projects'[req[g].project].ver \in Nat
        /\ projects'[req[g].project].ver >= projects[req[g].project].ver
    BY <1>1, <1>2, <1>5, <2>2, TypeFacts
  <2>4. HeldOK(g)'
    BY <1>5, <1>7, <1>9, <2>1, <2>2, <2>3, TypeFacts DEF HeldOK
  <2>5. OvertakenOK(g)'
    <3> SUFFICES ASSUME req[g].project \in Present, commits[req[g].project] # req[g].commits
                 PROVE  \E v \in Nat : /\ req[g].reserved < v
                                       /\ v <= projects'[req[g].project].ver
                                       /\ \A k \in Handler : Rival(k, g)' => req'[k].reserved # v
      BY <1>1, <1>5, <2>2 DEF OvertakenOK
    <3>1. PICK v \in Nat : /\ req[g].reserved < v
                           /\ v <= projects[req[g].project].ver
                           /\ \A k \in Handler : Rival(k, g) => req[k].reserved # v
      BY <2>2 DEF OvertakenOK
    <3> QED
      BY <1>1, <2>1, <2>2, <2>3, <3>1, TypeFacts
  <2> QED
    BY <2>4, <2>5
<1> QED
  BY <1>5, <1>8, <1>9 DEF IInv, Locks

\* A version goes back only from the number that the cancelled request held,
\* so to none below what others hold or have left behind.
LEMMA CancelStep ==
    ASSUME IInv, NEW h \in Handler, Cancel(h)
    PROVE  IInv'
<1> DEFINE p == req[h].project
           row == [projects[p] EXCEPT !.ver = @ - 1]
<1>1. /\ req' \in [Handler -> Request] /\ requests' \in Nat /\ HoldersKept
      /\ ~Holding(h)' /\ \A g \in Handler \ {h} : req'[g] = req[g]
      /\ UNCHANGED <<calendars, default, commits, disturbed>>
  BY TypeFacts, EndsStep DEF Cancel
<1>2. CASE UNCHANGED projects
  <2>1. StateOK'
    BY <1>1, <1>2, TypeFacts DEF StateOK, Present
  <2> QED
    BY <1>1, <1>2, <2>1, RowsUnchanged
<1>3. CASE StillReserved(h) /\ projects' = [projects EXCEPT ![p].ver = @ - 1]
  <2>1. /\ p \in Present /\ p \in Project /\ projects[p].ver = req[h].reserved
        /\ Holding(h) /\ HeldOK(h) /\ projects[p].ver > 0
    BY <1>3, TypeFacts DEF StillReserved, Cancel, Holding, IInv, Locks, HeldOK
  <2>2. /\ row \in Row /\ row.state = "present" /\ row.href = projects[p].href
        /\ row.isDefault = projects[p].isDefault /\ row.ver = projects[p].ver - 1
    <3>1. projects[p].ver - 1 \in Nat
      BY <2>1, TypeFacts
    <3> QED
      BY <2>1, <3>1, VersionType, TypeFacts
  <2>3. projects' = [projects EXCEPT ![p] = row]
    BY <1>3, <2>1, TypeFacts
  <2> HIDE DEF row
  <2>4. /\ StateOK' /\ OneDefault' /\ Present' = Present
        /\ projects'[p] = row /\ \A q \in Project \ {p} : projects'[q] = projects[q]
    BY <1>1, <2>1, <2>2, <2>3, RowChanges, TypeFacts
  <2>5. ASSUME NEW g \in Handler, Holding(g)'
        PROVE  HeldOK(g)' /\ OvertakenOK(g)'
    <3>1. /\ g # h /\ req'[g] = req[g] /\ Holding(g) /\ HeldOK(g) /\ OvertakenOK(g)
          /\ req[g].project \in Project
      BY <1>1, <2>5 DEF Holding, IInv, Locks, HeldOK
    <3>2. \A k \in Handler : Rival(k, g)' =>
              k # h /\ Rival(k, g) /\ req'[k].reserved = req[k].reserved
      BY <1>1, <3>1 DEF Rival, Holding
    <3>3. req[g].project = p => Rival(h, g) /\ req[g].reserved < projects[p].ver
      BY <2>1, <3>1, TypeFacts DEF Rival, HeldOK
    <3>4. HeldOK(g)'
      <4>1. projects'[req[g].project].state # "unused"
        BY <2>2, <2>4, <3>1 DEF HeldOK
      <4>2. req[g].project \in Present => req[g].reserved <= projects'[req[g].project].ver
        BY <2>1, <2>2, <2>4, <3>1, <3>3, TypeFacts DEF HeldOK
      <4> QED
        BY <2>4, <3>1, <3>2, <4>1, <4>2 DEF HeldOK
    <3>5. OvertakenOK(g)'
      <4> SUFFICES ASSUME req[g].project \in Present, commits[req[g].project] # req[g].commits
                   PROVE  \E v \in Nat : /\ req[g].reserved < v
                                         /\ v <= projects'[req[g].project].ver
                                         /\ \A k \in Handler : Rival(k, g)' => req'[k].reserved # v
        BY <1>1, <2>4, <3>1 DEF OvertakenOK
      <4>1. PICK v \in Nat : /\ req[g].reserved < v
                             /\ v <= projects[req[g].project].ver
                             /\ \A k \in Handler : Rival(k, g) => req[k].reserved # v
        BY <3>1 DEF OvertakenOK
      <4>2. req[g].project = p => v # projects[p].ver
        BY <2>1, <3>3, <4>1
      <4>3. v <= projects'[req[g].project].ver
        BY <2>1, <2>2, <2>4, <3>1, <4>1, <4>2, TypeFacts
      <4> QED
        BY <3>2, <4>1, <4>3
    <3> QED
      BY <3>4, <3>5
  <2> QED
    BY <2>4, <2>5 DEF IInv, Locks
<1> QED
  BY <1>2, <1>3 DEF Cancel

\* A request that stores its name leaves the number it held to nobody: that
\* is the version above all whom it has overtaken.
LEMMA CommitRenameStep ==
    ASSUME IInv, NEW h \in Handler, CommitRename(h)
    PROVE  IInv'
<1> DEFINE p == req[h].project
           row == Named(projects[p], req[h].name)
<1>1. /\ req' \in [Handler -> Request] /\ requests' \in Nat /\ HoldersKept
      /\ ~Holding(h)' /\ \A g \in Handler \ {h} : req'[g] = req[g]
      /\ UNCHANGED <<calendars, default>>
  BY TypeFacts, EndsStep DEF CommitRename
<1>2. CASE UNCHANGED <<projects, commits>> /\ disturbed' = disturbed \cup Touched(h)
  <2>1. StateOK'
    BY <1>1, <1>2, TypeFacts DEF StateOK, Present, Touched
  <2> QED
    BY <1>1, <1>2, <2>1, RowsUnchanged
<1>3. CASE /\ StillReserved(h)
           /\ projects' = [projects EXCEPT ![p] = Named(@, req[h].name)]
           /\ commits' = [commits EXCEPT ![p] = @ + 1]
           /\ UNCHANGED disturbed
  <2>1. /\ p \in Present /\ p \in Project /\ projects[p].ver = req[h].reserved
        /\ Holding(h) /\ HeldOK(h)
    BY <1>3, TypeFacts DEF StillReserved, CommitRename, Holding, IInv, Locks
  <2>2. /\ row \in Row /\ row.state = "present" /\ row.href = projects[p].href
        /\ row.isDefault = projects[p].isDefault /\ row.ver = projects[p].ver
    BY <2>1, NamedType, TypeFacts
  <2>3. projects' = [projects EXCEPT ![p] = row]
    BY <1>3, <2>1, TypeFacts
  <2> HIDE DEF row
  <2>4. /\ commits' \in [Project -> Nat]
        /\ \A q \in Project \ {p} : commits'[q] = commits[q]
    BY <1>3, <2>1, TypeFacts
  <2>5. /\ StateOK' /\ OneDefault' /\ Present' = Present
        /\ projects'[p] = row /\ \A q \in Project \ {p} : projects'[q] = projects[q]
    BY <1>1, <1>3, <2>1, <2>2, <2>3, <2>4, RowChanges, TypeFacts
  <2>6. \A q \in Project : /\ projects'[q].state = projects[q].state
                           /\ projects'[q].ver = projects[q].ver
    BY <2>1, <2>2, <2>5, TypeFacts
  <2>7. ASSUME NEW g \in Handler, Holding(g)'
        PROVE  HeldOK(g)' /\ OvertakenOK(g)'
    <3>1. /\ g # h /\ req'[g] = req[g] /\ Holding(g) /\ HeldOK(g) /\ OvertakenOK(g)
          /\ req[g].project \in Project
      BY <1>1, <2>7 DEF Holding, IInv, Locks, HeldOK
    <3>2. \A k \in Handler : Rival(k, g)' =>
              k # h /\ Rival(k, g) /\ req'[k].reserved = req[k].reserved
      BY <1>1, <3>1 DEF Rival, Holding
    <3>3. HeldOK(g)'
      BY <2>5, <2>6, <3>1, <3>2 DEF HeldOK
    <3>4. CASE req[g].project # p
      <4>1. commits'[req[g].project] = commits[req[g].project]
        BY <2>4, <3>1, <3>4
      <4> QED
        BY <2>5, <2>6, <3>1, <3>2, <3>3, <4>1 DEF OvertakenOK
    <3>5. CASE req[g].project = p
      <4> DEFINE v == projects[p].ver
      <4>1. v \in Nat /\ req[g].reserved < v
        BY <2>1, <3>1, <3>5, TypeFacts DEF HeldOK, Rival
      <4>2. \A k \in Handler : Rival(k, g)' => req'[k].reserved # v
        BY <2>1, <3>2, <3>5 DEF HeldOK, Rival
      <4>3. v <= projects'[p].ver
        BY <2>1, <2>6, <4>1
      <4> HIDE DEF v
      <4> QED
        BY <3>1, <3>3, <3>5, <4>1, <4>2, <4>3 DEF OvertakenOK
    <3> QED
      BY <3>3, <3>4, <3>5
  <2> QED
    BY <2>5, <2>7 DEF IInv, Locks
<1> QED
  BY <1>2, <1>3 DEF CommitRename

-----------------------------------------------------------------------------
\* A row takes its mark as the default project and nothing else.
LEMMA DefaultType ==
    ASSUME NEW row \in Row, NEW b \in BOOLEAN, NEW new, new = [row EXCEPT !.isDefault = b]
    PROVE  /\ new \in Row /\ new.state = row.state /\ new.href = row.href
           /\ new.ver = row.ver /\ (new.isDefault <=> b)
BY DEF Row

\* A selection of calendars: projects stay or come in at the selected ones, go
\* or keep their place elsewhere, and one that is selected is the default.
LEMMA SelectionKeeps ==
    ASSUME IInv, NEW stays \in SUBSET Present, NEW inserted \in SUBSET Unused,
           projects' \in [Project -> Row],
           \A p \in stays : /\ projects'[p].state = "present"
                            /\ projects'[p].href = projects[p].href
                            /\ projects'[p].ver = projects[p].ver,
           \A p \in inserted :
              /\ projects'[p].state = "present"
              /\ \A q \in Present : projects[q].href # projects'[p].href
              /\ \A q \in inserted : projects'[p].href = projects'[q].href => p = q,
           \A p \in Project \ (stays \cup inserted) :
              \/ projects[p].state = "present" /\ projects'[p].state = "deleted"
              \/ /\ projects'[p].state = projects[p].state
                 /\ projects'[p].href = projects[p].href
                 /\ projects'[p].ver = projects[p].ver,
           default' \in stays \cup inserted,
           \A p \in Project : projects'[p].isDefault <=> p = default'
    PROVE  /\ OneDefault' /\ RowsGoOn
           /\ \A p, q \in Present' : projects'[p].href = projects'[q].href => p = q
<1>1. projects \in [Project -> Row]
  BY DEF IInv, StateOK
<1>2. \A p \in Project : projects[p].ver \in Nat
  BY <1>1 DEF Row
<1>3. stays \subseteq Present /\ Present \subseteq Project /\ Unused \subseteq Project
  BY DEF Present, Unused
<1>4. \A p \in Present' : \/ p \in inserted
                          \/ p \in Present /\ projects'[p].href = projects[p].href
  BY <1>3 DEF Present
<1>5. \A p \in Present' : p \in Project
  BY DEF Present
<1>6. default' \in Present'
  BY <1>3 DEF Present
<1>7. OneDefault'
  BY <1>5, <1>6 DEF OneDefault
<1>8. RowsGoOn
  <2> SUFFICES ASSUME NEW p \in Project, projects[p].state # "unused"
               PROVE  /\ projects'[p].state # "unused"
                      /\ projects'[p].state = "present" =>
                            /\ projects[p].state = "present"
                            /\ projects'[p].ver >= projects[p].ver
    BY DEF RowsGoOn
  <2>1. p \notin inserted
    BY DEF Unused
  <2>2. CASE p \in stays
    BY <1>2, <1>3, <2>2 DEF Present
  <2>3. CASE p \notin stays
    BY <1>2, <2>1, <2>3
  <2> QED
    BY <2>2, <2>3
<1>9. ASSUME NEW p \in Present', NEW q \in Present', projects'[p].href = projects'[q].href
      PROVE  p = q
  <2>1. CASE p \in inserted /\ q \in inserted
    BY <1>9, <2>1
  <2>2. CASE p \notin inserted /\ q \notin inserted
    <3>1. p \in Present /\ q \in Present /\ projects[p].href = projects[q].href
      BY <1>4, <1>9, <2>2
    <3> QED
      BY <3>1 DEF IInv, StateOK
  <2>3. CASE p \in inserted /\ q \notin inserted
    BY <1>4, <1>9, <2>3
  <2>4. CASE p \notin inserted /\ q \in inserted
    BY <1>4, <1>9, <2>4
  <2> QED
    BY <2>1, <2>2, <2>3, <2>4
<1> QED
  BY <1>7, <1>8, <1>9

\* What becomes of the selected projects: the rows are typed, those that stay
\* keep address and version, and a new one is at the calendar it is for.
LEMMA StaysType ==
    ASSUME IInv, NEW listing \in Listing, NEW chosen \in SUBSET Selectable(listing),
           NEW new, NEW p \in Stays(chosen)
    PROVE  LET row == SelectedRow(listing, new, p)
           IN  /\ row \in Row /\ row.state = "present"
               /\ row.href = projects[p].href /\ row.ver = projects[p].ver
<1>1. /\ p \in Present /\ projects[p] \in Row /\ projects[p].state = "present"
      /\ projects[p].href \in chosen
  BY DEF Stays, Present, IInv, StateOK
<1>2. projects[p].href \in Calendar
  BY <1>1 DEF Selectable
<1>3. listing[projects[p].href] \in Name \cup {None}
  BY <1>2 DEF Listing
<1>4. SelectedRow(listing, new, p) = Named(projects[p], listing[projects[p].href])
  BY <1>1 DEF SelectedRow
<1> QED
  BY <1>1, <1>3, <1>4, NamedType

LEMMA InsertedType ==
    ASSUME NEW listing \in Listing, NEW chosen \in SUBSET Selectable(listing),
           NEW new \in [Calendar -> Unused \cup {None}], NewIds(chosen, new),
           NEW p \in Inserted(new), NEW c, c = (CHOOSE d \in Calendar : new[d] = p)
    PROVE  /\ p \in Unused /\ c \in chosen /\ new[c] = p
           /\ \A q \in Present : projects[q].href # c
           /\ SelectedRow(listing, new, p) \in Row
           /\ SelectedRow(listing, new, p).state = "present"
           /\ SelectedRow(listing, new, p).href = c
<1>1. PICK d \in Calendar : new[d] = p /\ p # None
  BY DEF Inserted
<1>2. c \in Calendar /\ new[c] = p
  BY <1>1
<1>3. p \in Unused
  BY <1>1
<1>4. c \in chosen /\ \A q \in Present : projects[q].href # c
  BY <1>1, <1>2 DEF NewIds
<1>5. listing[c] \in Name
  BY <1>2, <1>4 DEF Listing, Selectable
<1>6. SelectedRow(listing, new, p) = NewRow(c, listing[c])
  BY <1>3 DEF SelectedRow, Unused, Present
<1>7. /\ NewRow(c, listing[c]) \in Row
      /\ NewRow(c, listing[c]).state = "present" /\ NewRow(c, listing[c]).href = c
  BY <1>2, <1>5, NewRowType
<1> QED
  BY <1>2, <1>3, <1>4, <1>6, <1>7

\* Every row after the selection is one of these, or gone, or as before.
LEMMA SelectedRowsAt ==
    ASSUME NEW listing, NEW chosen, NEW new \in [Calendar -> Unused \cup {None}],
           NEW p \in Project
    PROVE  /\ p \in Stays(chosen) \cup Inserted(new) =>
                 SelectedRows(listing, chosen, new)[p] = SelectedRow(listing, new, p)
           /\ p \notin Stays(chosen) \cup Inserted(new) =>
                 \/ /\ p \in Removable(chosen)
                    /\ SelectedRows(listing, chosen, new)[p] = DeletedRow
                 \/ SelectedRows(listing, chosen, new)[p] = projects[p]
<1>1. SelectedRows(listing, chosen, new)[p]
         = CASE p \in Stays(chosen) \cup Inserted(new) -> SelectedRow(listing, new, p)
             [] p \in Removable(chosen) -> DeletedRow
             [] OTHER -> projects[p]
  BY DEF SelectedRows
<1>2. CASE p \in Stays(chosen) \cup Inserted(new)
  <2>1. p \notin Removable(chosen)
    BY <1>2 DEF Stays, Inserted, Removable, Present, Unused
  <2> QED
    BY <1>1, <1>2, <2>1
<1>3. CASE p \notin Stays(chosen) \cup Inserted(new)
  BY <1>1, <1>3
<1> QED
  BY <1>2, <1>3

LEMMA SettingsStep ==
    ASSUME IInv, NEW h \in Handler, SaveSettings(h)
    PROVE  IInv'
<1>1. /\ req' \in [Handler -> Request] /\ requests' \in Nat /\ HoldersKept
      /\ UNCHANGED <<calendars, commits>>
  BY EndsStep DEF SaveSettings, IInv
<1>2. /\ projects \in [Project -> Row] /\ req[h].listing \in Listing
      /\ calendars \in Listing /\ commits \in [Project -> Nat]
      /\ disturbed \subseteq Project /\ default \in Project \cup {None}
      /\ \A p, q \in Present : projects[p].href = projects[q].href => p = q
  BY DEF IInv, StateOK, Request
<1> DEFINE listing == req[h].listing
<1>3. PICK chosen \in SUBSET Selectable(listing) :
         \E c0 \in chosen, new \in [Calendar -> Unused \cup {None}] :
            /\ NewIds(chosen, new)
            /\ \/ UNCHANGED <<projects, default, disturbed>>
               \/ StoreSelection(listing, chosen, new, c0)
  BY Zenon DEF SaveSettings
<1>4. PICK c0 \in chosen, new \in [Calendar -> Unused \cup {None}] :
         /\ NewIds(chosen, new)
         /\ \/ UNCHANGED <<projects, default, disturbed>>
            \/ StoreSelection(listing, chosen, new, c0)
  BY <1>3, Zenon
<1> HIDE DEF listing
<1>5. CASE UNCHANGED <<projects, default, disturbed>>
  <2>1. StateOK'
    BY <1>1, <1>2, <1>5 DEF StateOK, Present
  <2> QED
    BY <1>1, <1>5, <2>1, RowsUnchanged
<1>6. CASE StoreSelection(listing, chosen, new, c0)
  <2> DEFINE stays == Stays(chosen)
             inserted == Inserted(new)
             rows == SelectedRows(listing, chosen, new)
             d == CHOOSE p \in stays \cup inserted : rows[p].href = c0
             at == [p \in inserted |-> CHOOSE c \in Calendar : new[c] = p]
  <2>1. listing \in Listing /\ c0 \in Calendar
    BY <1>2 DEF listing, Selectable
  <2>2. stays \subseteq Present /\ Present \subseteq Project
    BY DEF Stays, Present
  <2>3. \A p \in stays : /\ SelectedRow(listing, new, p) \in Row
                         /\ SelectedRow(listing, new, p).state = "present"
                         /\ SelectedRow(listing, new, p).href = projects[p].href
                         /\ SelectedRow(listing, new, p).ver = projects[p].ver
    BY <2>1, StaysType
  <2>4. \A p \in inserted : /\ p \in Unused /\ at[p] \in chosen /\ new[at[p]] = p
                            /\ \A q \in Present : projects[q].href # at[p]
                            /\ SelectedRow(listing, new, p) \in Row
                            /\ SelectedRow(listing, new, p).state = "present"
                            /\ SelectedRow(listing, new, p).href = at[p]
    <3> SUFFICES ASSUME NEW p \in inserted
                 PROVE  /\ p \in Unused /\ at[p] \in chosen /\ new[at[p]] = p
                        /\ \A q \in Present : projects[q].href # at[p]
                        /\ SelectedRow(listing, new, p) \in Row
                        /\ SelectedRow(listing, new, p).state = "present"
                        /\ SelectedRow(listing, new, p).href = at[p]
      OBVIOUS
    <3>1. at[p] = (CHOOSE c \in Calendar : new[c] = p)
      OBVIOUS
    <3> HIDE DEF at
    <3> QED
      BY <1>4, <2>1, <3>1, InsertedType
  <2>5. inserted \subseteq Unused /\ Unused \subseteq Project
    BY <2>4 DEF Unused
  <2>6. \A p \in stays \cup inserted : rows[p] = SelectedRow(listing, new, p)
    <3> SUFFICES ASSUME NEW p \in stays \cup inserted
                 PROVE  rows[p] = SelectedRow(listing, new, p)
      OBVIOUS
    <3>1. p \in Project
      BY <2>2, <2>5
    <3> QED
      BY <3>1, SelectedRowsAt
  <2>7. \A p \in Project \ (stays \cup inserted) :
            \/ p \in Removable(chosen) /\ rows[p] = DeletedRow
            \/ rows[p] = projects[p]
    BY SelectedRowsAt
  <2>8. \A p \in Project : rows[p] \in Row
    BY <1>2, <2>3, <2>4, <2>6, <2>7, OldRowType
  <2>9. d \in stays \cup inserted
    <3>1. CASE \E p \in Present : projects[p].href = c0
      <4>1. PICK p \in Present : projects[p].href = c0
        BY <3>1
      <4>2. p \in stays
        BY <4>1 DEF Stays
      <4> QED
        BY <2>3, <2>6, <4>1, <4>2
    <3>2. CASE \A p \in Present : projects[p].href # c0
      <4>1. new[c0] # None
        BY <1>4, <2>1, <3>2 DEF NewIds
      <4>2. new[c0] \in inserted
        BY <2>1, <4>1 DEF Inserted
      <4>3. at[new[c0]] = c0
        <5>1. at[new[c0]] \in Calendar /\ new[at[new[c0]]] = new[c0]
          BY <2>4, <4>2 DEF Selectable
        <5> QED
          BY <1>4, <2>1, <4>1, <5>1 DEF NewIds
      <4> HIDE DEF rows, stays, inserted, at
      <4>4. rows[new[c0]].href = c0
        BY <2>4, <2>6, <4>2, <4>3
      <4> QED
        BY <4>2, <4>4
    <3> QED
      BY <3>1, <3>2
  <2>10. /\ projects' = [p \in Project |-> [rows[p] EXCEPT !.isDefault = (p = d)]]
         /\ default' = d
         /\ disturbed' = (disturbed \ {p \in stays : \A g \in Handler :
                                          Holding(g) => p \notin Touched(g)})
                         \cup {p \in stays \cup inserted :
                                 listing[rows[p].href] # calendars[rows[p].href]}
    BY <1>6 DEF StoreSelection
  <2> HIDE DEF stays, inserted, rows, d, at
  <2>11. disturbed' \subseteq Project
    BY <1>2, <2>2, <2>5, <2>10
  <2>12. /\ projects' \in [Project -> Row]
         /\ \A p \in Project : /\ projects'[p].state = rows[p].state
                               /\ projects'[p].href = rows[p].href
                               /\ projects'[p].ver = rows[p].ver
                               /\ projects'[p].isDefault <=> p = d
    <3>1. \A p \in Project : projects'[p] = [rows[p] EXCEPT !.isDefault = (p = d)]
      BY <2>10
    <3>2. ASSUME NEW p \in Project
          PROVE  /\ projects'[p] \in Row
                 /\ projects'[p].state = rows[p].state
                 /\ projects'[p].href = rows[p].href
                 /\ projects'[p].ver = rows[p].ver
                 /\ projects'[p].isDefault <=> p = d
      <4> DEFINE b == (p = d)
      <4>1. b \in BOOLEAN /\ rows[p] \in Row
        BY <2>8
      <4>2. projects'[p] = [rows[p] EXCEPT !.isDefault = b]
        BY <3>1
      <4>3. /\ projects'[p] \in Row
            /\ projects'[p].state = rows[p].state
            /\ projects'[p].href = rows[p].href
            /\ projects'[p].ver = rows[p].ver
            /\ projects'[p].isDefault <=> b
        <5> HIDE DEF b
        <5> QED
          BY <4>1, <4>2, DefaultType
      <4> QED
        BY <4>3
    <3>3. projects' = [p \in Project |-> projects'[p]]
      BY <2>10
    <3> QED
      BY <3>2, <3>3
  <2>13. \A p \in stays : /\ projects'[p].state = "present"
                          /\ projects'[p].href = projects[p].href
                          /\ projects'[p].ver = projects[p].ver
    BY <2>2, <2>3, <2>6, <2>12
  <2>14. \A p \in inserted : projects'[p].state = "present" /\ projects'[p].href = at[p]
    BY <2>4, <2>5, <2>6, <2>12
  <2>15. \A p \in Project \ (stays \cup inserted) :
            \/ projects[p].state = "present" /\ projects'[p].state = "deleted"
            \/ /\ projects'[p].state = projects[p].state
               /\ projects'[p].href = projects[p].href
               /\ projects'[p].ver = projects[p].ver
    BY <2>7, <2>12, OldRowType DEF Removable, Present
  <2>16. /\ OneDefault' /\ RowsGoOn
         /\ \A p, q \in Present' : projects'[p].href = projects'[q].href => p = q
    <3>1. \A p \in inserted :
             /\ projects'[p].state = "present"
             /\ \A q \in Present : projects[q].href # projects'[p].href
             /\ \A q \in inserted : projects'[p].href = projects'[q].href => p = q
      BY <2>4, <2>14
    <3>2. /\ projects' \in [Project -> Row] /\ default' \in stays \cup inserted
          /\ \A p \in Project : projects'[p].isDefault <=> p = default'
      BY <2>9, <2>10, <2>12, Zenon
    <3> QED
      BY <2>2, <2>5, <2>13, <2>15, <3>1, <3>2, SelectionKeeps
  <2>17. StateOK'
    BY <1>1, <1>2, <2>2, <2>5, <2>9, <2>10, <2>11, <2>12, <2>16 DEF StateOK
  <2> QED
    BY <1>1, <2>16, <2>17, LocksKept DEF IInv
<1> QED
  BY <1>4, <1>5, <1>6

-----------------------------------------------------------------------------
\* Every step preserves the invariant.
LEMMA NextIInv == IInv /\ [Next]_vars => IInv'
<1> SUFFICES ASSUME IInv, [Next]_vars PROVE IInv'
  OBVIOUS
<1>1. ASSUME NEW h \in Handler, Serve(h) PROVE IInv'
  <2>1. CASE \/ FillForm(h) \/ ReserveRefused(h) \/ NoCredentials(h)
             \/ RemoteRename(h) \/ RemoteDelete(h) \/ RemoteFails(h)
             \/ CreateCalendar(h) \/ ListCalendars(h) \/ TaskLoads(h)
    BY <2>1, RequestSteps
  <2>2. CASE Reserve(h) \/ Cancel(h) \/ CommitRename(h) \/ CommitDelete(h)
    BY <2>2, ReserveStep, CancelStep, CommitRenameStep, CommitDeleteStep
  <2>3. CASE InsertProject(h) \/ SaveSettings(h) \/ TaskStores(h)
    BY <2>3, InsertStep, SettingsStep, RowSteps
  <2> QED
    BY <1>1, <2>1, <2>2, <2>3 DEF Serve
<1>2. CASE TasksGo \/ ConflictRecorded \/ ConflictsExpire \/ StrategyStored
  BY <1>2, RowSteps
<1>3. CASE Crash \/ OtherClient
  BY <1>3, CrashAndOther
<1>4. CASE UNCHANGED vars
  <2>1. /\ UNCHANGED <<projects, default, commits>> /\ HoldersKept /\ StateOK'
    BY <1>4, TypeFacts DEF vars, HoldersKept, Holding, StateOK, Present
  <2> QED
    BY <2>1, RowsUnchanged
<1> QED
  BY <1>1, <1>2, <1>3, <1>4 DEF Next

\* In every reachable state the types are right, one present project at most is
\* the default, and requests between reservation and commit hold different
\* versions, none of which a cancellation can bring back to an overtaken one.
THEOREM ProjectsInvariant == Spec => []IInv
<1>1. IInv /\ [Next]_vars => IInv'
  BY NextIInv
<1> QED
  BY <1>1, InitIInv, PTL DEF Spec

\* No two renames or deletions of a project ever hold the same reserved version
\* (db/projects_rename.go, db/projects_delete.go), whatever is cancelled, raised
\* by a sync run, or lost in a crash between reservation and commit.
THEOREM ReservationsNeverClash == Spec => []ReservationsDistinct
<1>1. IInv => ReservationsDistinct
  BY DEF IInv, Locks, HeldOK, Rival, ReservationsDistinct
<1> QED
  BY <1>1, ProjectsInvariant, PTL

\* The default project of the settings and the flag in projects always name the
\* same project, and it exists: through deletions (ON DELETE SET NULL), new
\* selections of calendars and everything between.
THEOREM DefaultIsOne == Spec => []OneDefault
<1>1. IInv => OneDefault
  BY DEF IInv
<1> QED
  BY <1>1, ProjectsInvariant, PTL

\* A step that neither stores a selection nor commits a deletion deletes nothing.
LEMMA NothingDeleted ==
    ASSUME IInv, [Next]_vars, NEW p \in Present,
           \A h \in Handler : ~CommitDelete(h) /\ ~SaveSettings(h)
    PROVE  projects'[p].state = "present"
<1>1. /\ projects \in [Project -> Row] /\ p \in Project
      /\ projects[p].state = "present" /\ projects[p] \in Row
  BY TypeFacts DEF Present
<1>2. ASSUME NEW q \in Project, NEW row \in Row, row.state = projects[q].state,
             projects' = [projects EXCEPT ![q] = row]
      PROVE  projects'[p].state = "present"
  BY <1>1, <1>2
<1>3. CASE UNCHANGED projects
  BY <1>1, <1>3
<1>4. ASSUME NEW h \in Handler, Serve(h)
      PROVE  projects'[p].state = "present"
  <2> DEFINE q == req[h].project
  <2>1. q \in Present => /\ q \in Project /\ projects[q] \in Row
                         /\ projects[q].ver \in Nat /\ projects[q].state = "present"
    BY TypeFacts DEF Present
  <2>2. req[h].name \in Name \cup {None}
    BY TypeFacts
  <2>3. CASE Reserve(h)
    <3> DEFINE row == [projects[q] EXCEPT !.ver = @ + 1]
    <3>1. q \in Present /\ projects' = [projects EXCEPT ![q] = row]
      BY <2>3 DEF Reserve
    <3>2. row \in Row /\ row.state = projects[q].state
      BY <2>1, <3>1 DEF Row
    <3> HIDE DEF row, q
    <3> QED
      BY <1>2, <2>1, <3>1, <3>2
  <2>4. CASE Cancel(h) /\ ~UNCHANGED projects
    <3> DEFINE row == [projects[q] EXCEPT !.ver = @ - 1]
    <3>1. /\ q \in Present /\ projects' = [projects EXCEPT ![q] = row]
          /\ Holding(h) /\ projects[q].ver = req[h].reserved
      BY <2>4 DEF Cancel, StillReserved, Holding
    <3>2. req[h].reserved > 0 /\ req[h].reserved \in Nat
      BY <3>1, TypeFacts DEF IInv, Locks, HeldOK
    <3>3. row \in Row /\ row.state = projects[q].state
      BY <2>1, <3>1, <3>2 DEF Row
    <3> HIDE DEF row, q
    <3> QED
      BY <1>2, <2>1, <3>1, <3>3
  <2>5. CASE CommitRename(h) /\ ~UNCHANGED projects
    <3>1. q \in Present /\ projects' = [projects EXCEPT ![q] = Named(projects[q], req[h].name)]
      BY <2>5 DEF CommitRename, StillReserved
    <3>2. /\ Named(projects[q], req[h].name) \in Row
          /\ Named(projects[q], req[h].name).state = projects[q].state
      BY <2>1, <2>2, <3>1, NamedType
    <3> HIDE DEF q
    <3> QED
      BY <1>2, <2>1, <3>1, <3>2
  <2>6. CASE TaskStores(h) /\ ~UNCHANGED projects
    <3> DEFINE row == [projects[q] EXCEPT !.task = req[h].name]
    <3>1. q \in Present /\ projects' = [projects EXCEPT ![q] = row]
      BY <2>6 DEF TaskStores
    <3>2. row \in Row /\ row.state = projects[q].state
      BY <2>1, <2>2, <3>1 DEF Row
    <3> HIDE DEF row, q
    <3> QED
      BY <1>2, <2>1, <3>1, <3>2
  <2>7. CASE InsertProject(h) /\ ~UNCHANGED projects
    <3>1. PICK new \in Unused :
              projects' = [projects EXCEPT ![new] = NewRow(req[h].href, req[h].name)]
      BY <2>7 DEF InsertProject
    <3>2. p # new
      BY <1>1, <3>1 DEF Unused
    <3> QED
      BY <1>1, <3>1, <3>2
  <2>8. CASE \/ FillForm(h) \/ ReserveRefused(h) \/ NoCredentials(h)
             \/ RemoteRename(h) \/ RemoteDelete(h) \/ RemoteFails(h)
             \/ CreateCalendar(h) \/ ListCalendars(h) \/ TaskLoads(h)
    <3>1. UNCHANGED projects
      BY <2>8 DEF FillForm, ReserveRefused, NoCredentials, RemoteRename, RemoteDelete,
                  RemoteFails, CreateCalendar, ListCalendars, TaskLoads
    <3> QED
      BY <1>3, <3>1
  <2> QED
    BY <1>3, <1>4, <2>3, <2>4, <2>5, <2>6, <2>7, <2>8 DEF Serve
<1>5. CASE TasksGo
  <2>1. PICK q \in Present : projects' = [projects EXCEPT ![q].task = None]
    BY <1>5 DEF TasksGo
  <2> QED
    BY <1>1, <2>1 DEF Row
<1>6. CASE ConflictRecorded
  <2>1. PICK q \in Present : projects' = [projects EXCEPT ![q].entries = TRUE]
    BY <1>6 DEF ConflictRecorded
  <2> QED
    BY <1>1, <2>1 DEF Row
<1>7. CASE ConflictsExpire
  <2>1. PICK q \in Present : projects' = [projects EXCEPT ![q].entries = FALSE]
    BY <1>7 DEF ConflictsExpire
  <2> QED
    BY <1>1, <2>1 DEF Row
<1>8. CASE StrategyStored
  <2>1. PICK q \in Present : projects' = [projects EXCEPT ![q].ver = @ + 1]
    BY <1>8 DEF StrategyStored
  <2> QED
    BY <1>1, <2>1 DEF Row
<1>9. CASE Crash \/ OtherClient \/ UNCHANGED vars
  BY <1>3, <1>9 DEF Crash, OtherClient, vars
<1> QED
  BY <1>4, <1>5, <1>6, <1>7, <1>8, <1>9 DEF Next

\* A selection of calendars keeps every project that has tasks.
LEMMA SelectionKeepsTasks ==
    ASSUME IInv, NEW h \in Handler, SaveSettings(h), NEW p \in Present,
           projects[p].task # None
    PROVE  projects'[p].state = "present"
<1>1. /\ p \in Project /\ projects[p] \in Row /\ projects[p].state = "present"
      /\ req[h].listing \in Listing
  BY TypeFacts DEF Present, StateOK, Request
<1> DEFINE listing == req[h].listing
<1>2. PICK chosen \in SUBSET Selectable(listing) :
         \E c0 \in chosen, new \in [Calendar -> Unused \cup {None}] :
            /\ NewIds(chosen, new)
            /\ \/ UNCHANGED projects
               \/ StoreSelection(listing, chosen, new, c0)
  BY Zenon DEF SaveSettings
<1>3. PICK c0 \in chosen, new \in [Calendar -> Unused \cup {None}] :
         \/ UNCHANGED projects
         \/ StoreSelection(listing, chosen, new, c0)
  BY <1>2, Zenon
<1>4. listing \in Listing
  BY <1>1
<1> HIDE DEF listing
<1>5. CASE StoreSelection(listing, chosen, new, c0)
  <2> DEFINE rows == SelectedRows(listing, chosen, new)
  <2>1. p \notin Removable(chosen) /\ p \notin Unused
    BY <1>1 DEF Removable, Unused
  <2>2. p \notin Inserted(new)
    <3>1. \A c \in Calendar : new[c] \in Unused \cup {None}
      OBVIOUS
    <3> QED
      BY <2>1, <3>1 DEF Inserted
  <2>3. rows[p].state = "present" /\ rows[p] \in Row
    <3>1. CASE p \in Stays(chosen)
      <4>1. rows[p] = SelectedRow(listing, new, p)
        BY <1>1, <3>1, SelectedRowsAt
      <4> HIDE DEF rows
      <4> QED
        BY <1>4, <3>1, <4>1, StaysType
    <3>2. CASE p \notin Stays(chosen)
      <4>1. rows[p] = projects[p]
        BY <1>1, <2>1, <2>2, <3>2, SelectedRowsAt
      <4> HIDE DEF rows
      <4> QED
        BY <1>1, <4>1
    <3> QED
      BY <3>1, <3>2
  <2>4. \E b \in BOOLEAN : projects'[p] = [rows[p] EXCEPT !.isDefault = b]
    BY <1>1, <1>5 DEF StoreSelection
  <2> HIDE DEF rows
  <2> QED
    BY <2>3, <2>4, DefaultType
<1> QED
  BY <1>1, <1>3, <1>5

\* A project with tasks goes only by its own deletion, after the request to the
\* server has deleted its calendar: never by a selection in the settings, however
\* old the list it was made from (db/settings_update.go).
THEOREM TasksGoWithCalendar == Spec => TasksOnlyGoWithCalendar
<1>1. ASSUME IInv, [Next]_vars
      PROVE  \A p \in Present : projects[p].task # None /\ projects'[p].state = "deleted"
                => \E h \in Handler : req[h].pc = "local" /\ req[h].op = "delete"
                                      /\ req[h].project = p
  <2> SUFFICES ASSUME NEW p \in Present,
                      projects[p].task # None, projects'[p].state = "deleted"
               PROVE  \E h \in Handler : /\ req[h].pc = "local" /\ req[h].op = "delete"
                                         /\ req[h].project = p
    OBVIOUS
  <2>1. PICK h \in Handler : CommitDelete(h) \/ SaveSettings(h)
    BY <1>1, NothingDeleted
  <2>2. CommitDelete(h)
    BY <1>1, <2>1, SelectionKeepsTasks
  <2>3. req[h].pc = "local" /\ req[h].op = "delete"
    BY <2>2 DEF CommitDelete
  <2>4. req[h].project = p
    <3> SUFFICES ASSUME req[h].project # p PROVE FALSE
      OBVIOUS
    <3>1. /\ projects \in [Project -> Row] /\ p \in Project
          /\ projects[p].state = "present"
      BY <1>1, TypeFacts
    <3>2. projects'[p] = projects[p]
      BY <2>2, <3>1 DEF CommitDelete
    <3> QED
      BY <3>1, <3>2
  <2> QED
    BY <2>3, <2>4
<1>2. IInv /\ [Next]_vars
        => [\A p \in Present : projects[p].task # None /\ projects'[p].state = "deleted"
              => \E h \in Handler : req[h].pc = "local" /\ req[h].op = "delete"
                                    /\ req[h].project = p]_vars
  BY <1>1
<1> QED
  BY <1>2, ProjectsInvariant, PTL DEF Spec, TasksOnlyGoWithCalendar

-----------------------------------------------------------------------------
(* Projects and their calendars.  A request that has changed a calendar and *)
(* has not stored it yet owes the change to the project.  A deletion pays   *)
(* in any case: the project goes, or is counted as disturbed.               *)
Owing(c) == {h \in Handler : req[h].pc = "local" /\ req[h].href = c}

Due(c) == \E g \in Owing(c) : req[g].op = "delete" \/ req[g].name = calendars[c]

\* A request of this project that no other has overtaken can still store its
\* name; then something is due, this name or that of a request to come.
AgreeOK(p) ==
    LET c == projects[p].href
    IN  /\ calendars[c] = projects[p].name \/ Due(c)
        /\ \A h \in Owing(c) : req[h].project = p /\ commits[p] = req[h].commits => Due(c)

NamesOK == \A p \in Present : projects[p].href \in Calendar /\ projects[p].name \in Name

\* Requests that name what there is, or was.
Sound ==
    {r \in Request :
       /\ r.pc \in {"form", "remote", "local", "cancel"} =>
              r.op \in {"rename", "delete"} /\ r.name \in Name
       /\ r.pc \in {"remote", "local", "cancel"} =>
              /\ r.project \in Project /\ projects[r.project].state # "unused"
              /\ r.href \in Calendar /\ r.commits <= commits[r.project]
              /\ r.project \in Present => projects[r.project].href = r.href
       /\ r.pc = "insert" => r.href \in Calendar /\ r.name \in Name}

Agreed == /\ NamesOK
          /\ \A h \in Handler : req[h] \in Sound
          /\ \A p \in Present \ disturbed : AgreeOK(p)

-----------------------------------------------------------------------------
\* Used ids stay used, and a project keeps its address for life.
RowsStay ==
    \A p \in Project : projects[p].state # "unused" =>
        /\ projects'[p].state # "unused"
        /\ projects'[p].state = "present" =>
              projects[p].state = "present" /\ projects'[p].href = projects[p].href

CommitsGrow == \A p \in Project : commits[p] <= commits'[p]

LEMMA SoundKept ==
    ASSUME IInv, StateOK', RowsStay, CommitsGrow
    PROVE  Sound \subseteq Sound'
<1> SUFFICES ASSUME NEW r \in Sound
             PROVE  r \in Sound'
  OBVIOUS
<1>1. /\ r \in Request
      /\ r.pc \in {"form", "remote", "local", "cancel"} =>
             r.op \in {"rename", "delete"} /\ r.name \in Name
      /\ r.pc \in {"remote", "local", "cancel"} =>
             /\ r.project \in Project /\ projects[r.project].state # "unused"
             /\ r.href \in Calendar /\ r.commits <= commits[r.project]
             /\ r.project \in Present => projects[r.project].href = r.href
      /\ r.pc = "insert" => r.href \in Calendar /\ r.name \in Name
  BY DEF Sound
<1>2. /\ r.commits \in Nat
      /\ \A p \in Project : commits[p] \in Nat /\ commits'[p] \in Nat
  BY <1>1 DEF Request, IInv, StateOK
<1>3. ASSUME r.pc \in {"remote", "local", "cancel"}
      PROVE  /\ projects'[r.project].state # "unused"
             /\ r.commits <= commits'[r.project]
             /\ r.project \in Present' => projects'[r.project].href = r.href
  BY <1>1, <1>2, <1>3 DEF RowsStay, CommitsGrow, Present
<1> QED
  BY <1>1, <1>3 DEF Sound

\* Request g does nothing to the calendar of project p.
Apart(p, g) == \A r \in {req[g], req'[g]} : r.pc = "local" => r.href # projects[p].href

LEMMA AgreeKept ==
    ASSUME NEW p, AgreeOK(p), projects'[p].href = projects[p].href,
           projects'[p].name = projects[p].name,
           calendars'[projects[p].href] = calendars[projects[p].href],
           commits'[p] = commits[p],
           \A g \in Handler : req'[g] = req[g] \/ Apart(p, g)
    PROVE  AgreeOK(p)'
<1> DEFINE c == projects[p].href
<1>1. \A g \in Handler : \/ req'[g] = req[g]
                         \/ g \notin Owing(c) /\ ~(req'[g].pc = "local" /\ req'[g].href = c)
  BY DEF Apart, Owing
<1>2. \A g \in Handler : g \in Owing(c)' <=> req'[g].pc = "local" /\ req'[g].href = c
  BY DEF Owing
<1>3. Owing(c)' = Owing(c) /\ \A g \in Owing(c) : req'[g] = req[g]
  BY <1>1 DEF Owing
<1>4. Due(c)' <=> Due(c)
  BY <1>3 DEF Due
<1> QED
  BY <1>3, <1>4 DEF AgreeOK

\* A step that leaves the names alone, and for the projects that it does not
\* disturb their calendars and what is owed to them.
LEMMA Keeps ==
    ASSUME IInv, StateOK', Agreed, RowsStay, UNCHANGED commits,
           \A g \in Handler : req'[g] \in Sound,
           disturbed \subseteq disturbed',
           \A p \in Present' : p \in Present /\ projects'[p].name = projects[p].name,
           \A p \in Present \ disturbed' :
               /\ calendars'[projects[p].href] = calendars[projects[p].href]
               /\ \A g \in Handler : req'[g] = req[g] \/ Apart(p, g)
    PROVE  Agreed'
<1>1. \A p \in Project : commits[p] \in Nat
  BY DEF IInv, StateOK
<1>2. \A g \in Handler : req'[g] \in Sound'
  BY <1>1, SoundKept DEF CommitsGrow
<1>3. \A p \in Present' : /\ p \in Present /\ projects'[p].name = projects[p].name
                          /\ projects'[p].href = projects[p].href
  BY DEF Present, RowsStay
<1>4. NamesOK'
  BY <1>3 DEF Agreed, NamesOK
<1>5. ASSUME NEW p \in Present' \ disturbed'
      PROVE  AgreeOK(p)'
  <2>1. p \in Present \ disturbed /\ AgreeOK(p)
    BY <1>3 DEF Agreed
  <2> QED
    BY <1>3, <2>1, AgreeKept
<1> QED
  BY <1>2, <1>4, <1>5 DEF Agreed

-----------------------------------------------------------------------------
\* What becomes of the requests.
OnlyHere(h) == \A g \in Handler : /\ g # h => req'[g] = req[g]
                                  /\ req'[g] \in Sound

LEMMA EndsSound ==
    ASSUME IInv, Agreed, NEW h \in Handler, Ends(h)
    PROVE  OnlyHere(h) /\ req'[h].pc = "idle"
<1>1. NoRequest \in Sound /\ NoRequest.pc = "idle"
  BY NoRequestType DEF Sound
<1>2. \A g \in Handler : req'[g] = IF g = h THEN NoRequest ELSE req[g]
  BY TypeFacts DEF Ends
<1> QED
  BY <1>1, <1>2 DEF OnlyHere, Agreed

LEMMA AcceptSound ==
    ASSUME IInv, Agreed, NEW h \in Handler, NEW r \in Request, NEW op,
           op \in {"create", "rename", "delete", "settings", "task"},
           r.pc \in {"form", "insert", "list", "task"},
           r.pc = "form" => op \in {"rename", "delete"} /\ r.name \in Name,
           r.pc = "insert" => r.href \in Calendar /\ r.name \in Name,
           Accept(h, op, r)
    PROVE  OnlyHere(h) /\ req[h].pc = "idle" /\ req'[h].pc = r.pc
<1> DEFINE q == [r EXCEPT !.op = op]
<1>1. /\ q \in Request /\ q.pc = r.pc /\ q.op = op /\ q.name = r.name /\ q.href = r.href
  BY DEF Request
<1>2. req[h].pc = "idle" /\ req' = [req EXCEPT ![h] = q]
  BY DEF Accept
<1> HIDE DEF q
<1>3. q \in Sound
  BY <1>1 DEF Sound
<1>4. \A g \in Handler : req'[g] = IF g = h THEN q ELSE req[g]
  BY <1>2, TypeFacts
<1> QED
  BY <1>1, <1>2, <1>3, <1>4 DEF OnlyHere, Agreed

LEMMA GoesSound ==
    ASSUME IInv, Agreed, NEW h \in Handler, req[h].pc = "remote",
           NEW pc \in {"local", "cancel"}, Goes(h, pc)
    PROVE  /\ OnlyHere(h) /\ req'[h].pc = pc /\ req'[h].href = req[h].href
           /\ req'[h].op = req[h].op /\ req'[h].name = req[h].name
<1> DEFINE q == [req[h] EXCEPT !.pc = pc]
<1>1. req[h] \in Request /\ req[h] \in Sound
  BY TypeFacts DEF Agreed
<1>2. /\ q \in Request /\ q.pc = pc /\ q.op = req[h].op /\ q.name = req[h].name
      /\ q.href = req[h].href /\ q.project = req[h].project
      /\ q.commits = req[h].commits
  BY <1>1 DEF Request
<1>3. \A g \in Handler : req'[g] = IF g = h THEN q ELSE req[g]
  BY TypeFacts DEF Goes
<1> HIDE DEF q
<1>4. q \in Sound
  BY <1>1, <1>2 DEF Sound
<1> QED
  BY <1>2, <1>3, <1>4 DEF OnlyHere, Agreed

\* What a step of a request does that neither touches the calendars nor comes
\* from or leads to the last transaction.
SameNames == \A p \in Project : /\ projects'[p].state = projects[p].state
                                /\ projects'[p].href = projects[p].href
                                /\ projects'[p].name = projects[p].name

LEMMA Plain ==
    ASSUME IInv, StateOK', Agreed, NEW h \in Handler, OnlyHere(h),
           req[h].pc # "local", req'[h].pc # "local",
           SameNames, UNCHANGED <<calendars, commits>>, disturbed \subseteq disturbed'
    PROVE  Agreed'
<1>1. RowsStay /\ \A p \in Present' : p \in Present /\ projects'[p].name = projects[p].name
  BY DEF SameNames, RowsStay, Present
<1>2. \A p : \A g \in Handler : req'[g] = req[g] \/ Apart(p, g)
  BY DEF OnlyHere, Apart
<1> QED
  BY <1>1, <1>2, Keeps DEF OnlyHere

\* The rows where the requests stay as they are.
LEMMA PlainRows ==
    ASSUME IInv, StateOK', Agreed, SameNames, UNCHANGED <<calendars, commits, req, disturbed>>
    PROVE  Agreed'
<1>1. RowsStay /\ \A p \in Present' : p \in Present /\ projects'[p].name = projects[p].name
  BY DEF SameNames, RowsStay, Present
<1> QED
  BY <1>1, Keeps DEF Agreed

-----------------------------------------------------------------------------
\* The form, its reservation, and what gives it back.
LEMMA PlainSteps ==
    ASSUME IInv, StateOK', Agreed, NEW h \in Handler,
           \/ FillForm(h) \/ Reserve(h) \/ ReserveRefused(h) \/ NoCredentials(h)
           \/ Cancel(h) \/ ListCalendars(h) \/ TaskLoads(h) \/ TaskStores(h)
    PROVE  Agreed'
<1>1. UNCHANGED <<calendars, commits, disturbed>>
  BY DEF FillForm, Reserve, ReserveRefused, NoCredentials, Cancel, ListCalendars,
         TaskLoads, TaskStores
<1>2. \A p \in Project : projects[p] \in Row
  BY TypeFacts
<1>3. UNCHANGED projects => SameNames
  BY DEF SameNames
<1>4. SameNames
  <2>1. CASE Reserve(h) \/ Cancel(h)
    BY <1>2, <2>1, <1>3, TypeFacts DEF Reserve, Cancel, StillReserved, SameNames, Row
  <2>2. CASE TaskStores(h)
    BY <1>2, <2>2, <1>3, TypeFacts DEF TaskStores, SameNames, Row
  <2>3. CASE \/ FillForm(h) \/ ReserveRefused(h) \/ NoCredentials(h)
             \/ ListCalendars(h) \/ TaskLoads(h)
    BY <1>3, <2>3 DEF FillForm, ReserveRefused, NoCredentials, ListCalendars, TaskLoads
  <2> QED
    BY <2>1, <2>2, <2>3
<1>5. OnlyHere(h) /\ req[h].pc # "local" /\ req'[h].pc # "local"
  <2>1. CASE FillForm(h)
    <3>1. PICK p \in Present, n \in Name, op \in {"rename", "delete"} :
              Accept(h, op, [NoRequest EXCEPT !.pc = "form", !.project = p,
                                              !.ver = projects[p].ver, !.name = n])
      BY <2>1 DEF FillForm
    <3> DEFINE r == [NoRequest EXCEPT !.pc = "form", !.project = p,
                                      !.ver = projects[p].ver, !.name = n]
    <3>2. r \in Request /\ r.pc = "form" /\ r.name \in Name
      BY NoRequestType, TypeFacts DEF Request, NoRequest
    <3>3. Accept(h, op, r)
      BY <3>1
    <3> HIDE DEF r
    <3> QED
      BY <3>2, <3>3, AcceptSound
  <2>2. CASE ListCalendars(h)
    <3> DEFINE r == [NoRequest EXCEPT !.pc = "list", !.listing = calendars]
    <3>1. r \in Request /\ r.pc = "list"
      BY NoRequestType, TypeFacts DEF Request, NoRequest
    <3>2. Accept(h, "settings", r)
      BY <2>2 DEF ListCalendars
    <3> HIDE DEF r
    <3> QED
      BY <3>1, <3>2, AcceptSound
  <2>3. CASE TaskLoads(h)
    <3>1. PICK p \in Present :
              Accept(h, "task", [NoRequest EXCEPT !.pc = "task", !.project = p,
                                                  !.name = projects[p].name])
      BY <2>3 DEF TaskLoads
    <3> DEFINE r == [NoRequest EXCEPT !.pc = "task", !.project = p,
                                      !.name = projects[p].name]
    <3>2. r \in Request /\ r.pc = "task"
      <4>1. p \in Project /\ projects[p].name \in Name \cup {None}
        BY TypeFacts DEF Row
      <4> QED
        BY <4>1, NoRequestType DEF Request, NoRequest
    <3>3. Accept(h, "task", r)
      BY <3>1
    <3> HIDE DEF r
    <3> QED
      BY <3>2, <3>3, AcceptSound
  <2>4. CASE ReserveRefused(h) \/ Cancel(h) \/ TaskStores(h)
    BY <2>4, EndsSound DEF ReserveRefused, Cancel, TaskStores
  <2>5. CASE NoCredentials(h)
    BY <2>5, EndsSound, GoesSound DEF NoCredentials
  <2>6. CASE Reserve(h)
    <3> DEFINE p == req[h].project
               r == [req[h] EXCEPT !.pc = "remote", !.href = projects[p].href,
                              !.reserved = projects[p].ver + 1, !.commits = commits[p]]
    <3>1. /\ req[h] \in Request /\ req[h] \in Sound /\ req[h].pc = "form"
          /\ p \in Present /\ p \in Project /\ projects[p].state = "present"
          /\ projects[p].ver + 1 \in Nat /\ commits[p] \in Nat
      BY <2>6, TypeFacts DEF Reserve, Agreed
    <3>2. projects[p].href \in Calendar
      BY <3>1 DEF Agreed, NamesOK
    <3>3. req' = [req EXCEPT ![h] = r]
      BY <2>6, TypeFacts DEF Reserve
    <3> HIDE DEF p
    <3>4. /\ r \in Request /\ r.pc = "remote" /\ r.op = req[h].op /\ r.name = req[h].name
          /\ r.project = req[h].project /\ r.href = projects[p].href
          /\ r.commits = commits[p]
      BY <3>1, <3>2 DEF Request
    <3> HIDE DEF r
    <3>5. r \in Sound
      BY <3>1, <3>2, <3>4 DEF Sound, p
    <3>6. \A g \in Handler : req'[g] = IF g = h THEN r ELSE req[g]
      BY <3>3, TypeFacts
    <3> QED
      BY <3>1, <3>4, <3>5, <3>6 DEF OnlyHere, Agreed
  <2> QED
    BY <2>1, <2>2, <2>3, <2>4, <2>5, <2>6
<1> QED
  BY <1>1, <1>4, <1>5, Plain

\* Tasks, conflicts and the strategy of the sync.
LEMMA PlainRowSteps ==
    ASSUME IInv, StateOK', Agreed,
           TasksGo \/ ConflictRecorded \/ ConflictsExpire \/ StrategyStored
    PROVE  Agreed'
<1>1. UNCHANGED <<calendars, commits, req, disturbed>>
  BY DEF TasksGo, ConflictRecorded, ConflictsExpire, StrategyStored
<1>2. SameNames
  BY TypeFacts
     DEF TasksGo, ConflictRecorded, ConflictsExpire, StrategyStored, SameNames, Row
<1> QED
  BY <1>1, <1>2, PlainRows

-----------------------------------------------------------------------------
(* The requests to the server.                                             *)

\* A request that has done its work at the server owes it, and nobody else is
\* worse off.
LEMMA Changed ==
    ASSUME IInv, StateOK', Agreed, NEW h \in Handler, OnlyHere(h), req[h].pc = "remote",
           req'[h].pc = "local", req'[h].href = req[h].href,
           req'[h].op = "delete" \/ req'[h].name = calendars'[req[h].href],
           \A c \in Calendar \ {req[h].href} : calendars'[c] = calendars[c],
           UNCHANGED <<projects, commits, disturbed>>
    PROVE  Agreed'
<1>1. RowsStay /\ CommitsGrow
  BY DEF RowsStay, CommitsGrow, IInv, StateOK
<1>2. \A g \in Handler : req'[g] \in Sound'
  BY <1>1, SoundKept DEF OnlyHere
<1>3. Present' = Present /\ NamesOK'
  BY DEF Agreed, NamesOK, Present
<1>4. ASSUME NEW p \in Present \ disturbed
      PROVE  AgreeOK(p)'
  <2>1. projects[p].href \in Calendar /\ AgreeOK(p)
    BY DEF Agreed, NamesOK
  <2>2. CASE projects[p].href = req[h].href
    <3>1. h \in Owing(req[h].href)'
      BY DEF Owing
    <3>2. Due(req[h].href)'
      BY <3>1 DEF Due
    <3> QED
      BY <2>2, <3>2 DEF AgreeOK
  <2>3. CASE projects[p].href # req[h].href
    <3>1. \A g \in Handler : req'[g] = req[g] \/ Apart(p, g)
      BY <2>3 DEF OnlyHere, Apart
    <3> QED
      BY <2>1, <2>3, <3>1, AgreeKept
  <2> QED
    BY <2>2, <2>3
<1> QED
  BY <1>2, <1>3, <1>4 DEF Agreed

LEMMA RemoteSteps ==
    ASSUME IInv, StateOK', Agreed, NEW h \in Handler,
           RemoteRename(h) \/ RemoteDelete(h) \/ RemoteFails(h)
    PROVE  Agreed'
<1> DEFINE c == req[h].href
<1>1. /\ req[h].pc = "remote" /\ c \in Calendar /\ req[h] \in Sound
      /\ UNCHANGED <<projects, commits>> /\ calendars \in Listing
  BY TypeFacts DEF RemoteRename, RemoteDelete, RemoteFails, Agreed, Sound
<1>2. CASE RemoteRename(h) /\ calendars[c] = None
  <2>1. OnlyHere(h) /\ req'[h].pc = "cancel" /\ UNCHANGED <<calendars, disturbed>>
    BY <1>2, GoesSound DEF RemoteRename
  <2> QED
    BY <1>1, <2>1, Plain DEF SameNames
<1>3. CASE RemoteRename(h) /\ calendars[c] # None
  <2>1. /\ OnlyHere(h) /\ req'[h].pc = "local" /\ req'[h].href = c
        /\ req'[h].name = req[h].name /\ UNCHANGED disturbed
        /\ calendars' = [calendars EXCEPT ![c] = req[h].name]
    BY <1>3, GoesSound DEF RemoteRename
  <2>2. /\ calendars'[c] = req[h].name
        /\ \A d \in Calendar \ {c} : calendars'[d] = calendars[d]
    BY <1>1, <2>1 DEF Listing
  <2> QED
    BY <1>1, <2>1, <2>2, Changed
<1>4. CASE RemoteDelete(h)
  <2>1. /\ OnlyHere(h) /\ req'[h].pc = "local" /\ req'[h].href = c
        /\ req'[h].op = "delete" /\ UNCHANGED disturbed
        /\ calendars' = [calendars EXCEPT ![c] = None]
    BY <1>4, GoesSound DEF RemoteDelete
  <2>2. \A d \in Calendar \ {c} : calendars'[d] = calendars[d]
    BY <1>1, <2>1 DEF Listing
  <2> QED
    BY <1>1, <2>1, <2>2, Changed
<1>5. CASE RemoteFails(h)
  <2>1. OnlyHere(h) /\ req'[h].pc = "cancel"
    BY <1>5, GoesSound DEF RemoteFails
  <2>2. CASE UNCHANGED <<calendars, disturbed>>
    BY <1>1, <2>1, <2>2, Plain DEF SameNames
  <2>3. CASE /\ disturbed' = disturbed \cup Touched(h)
             /\ \E n : calendars' = [calendars EXCEPT ![c] = n]
    <3>1. \A d \in Calendar \ {c} : calendars'[d] = calendars[d]
      BY <1>1, <2>3 DEF Listing
    <3>2. \A p \in Present \ disturbed' : projects[p].href \in Calendar \ {c}
      BY <2>3 DEF Touched, Agreed, NamesOK
    <3>3. \A p : \A g \in Handler : req'[g] = req[g] \/ Apart(p, g)
      BY <1>1, <2>1 DEF OnlyHere, Apart
    <3>4. RowsStay /\ Present' = Present
      BY <1>1 DEF RowsStay, Present
    <3> QED
      BY <1>1, <2>1, <2>3, <3>1, <3>2, <3>3, <3>4, Keeps DEF OnlyHere
  <2> QED
    BY <1>5, <2>2, <2>3 DEF RemoteFails
<1> QED
  BY <1>2, <1>3, <1>4, <1>5

\* A calendar comes where there was none: if there is a project, it is being
\* deleted.
LEMMA CreateCalendarStep ==
    ASSUME IInv, StateOK', Agreed, NEW h \in Handler, CreateCalendar(h)
    PROVE  Agreed'
<1>1. PICK n \in Name :
          /\ calendars[SlugOf[n]] = None
          /\ calendars' = [calendars EXCEPT ![SlugOf[n]] = n]
          /\ Accept(h, "create", [NoRequest EXCEPT !.pc = "insert", !.name = n,
                                                   !.href = SlugOf[n]])
  BY DEF CreateCalendar
<1> DEFINE c == SlugOf[n]
           r == [NoRequest EXCEPT !.pc = "insert", !.name = n, !.href = c]
<1>2. UNCHANGED <<projects, commits, disturbed>> /\ None \notin Name /\ c \in Calendar
  BY ProjectsAssumption DEF CreateCalendar
<1>3. OnlyHere(h) /\ req[h].pc = "idle" /\ req'[h].pc = "insert"
  <2>1. r \in Request /\ r.pc = "insert" /\ r.name \in Name /\ r.href \in Calendar
    BY <1>2, NoRequestType DEF Request, NoRequest
  <2>2. Accept(h, "create", r)
    BY <1>1
  <2> HIDE DEF r
  <2> QED
    BY <2>1, <2>2, AcceptSound
<1> HIDE DEF c
<1>4. /\ calendars[c] = None /\ calendars'[c] = n
      /\ \A d \in Calendar \ {c} : calendars'[d] = calendars[d]
  BY <1>1, <1>2, TypeFacts DEF c, Listing
<1>5. RowsStay /\ CommitsGrow
  BY <1>2 DEF RowsStay, CommitsGrow, IInv, StateOK
<1>6. \A g \in Handler : req'[g] \in Sound'
  BY <1>3, <1>5, SoundKept DEF OnlyHere
<1>7. Present' = Present /\ NamesOK'
  BY <1>2 DEF Agreed, NamesOK, Present
<1>8. \A p : \A g \in Handler : req'[g] = req[g] \/ Apart(p, g)
  BY <1>3 DEF OnlyHere, Apart
<1>9. ASSUME NEW p \in Present \ disturbed
      PROVE  AgreeOK(p)'
  <2>1. projects[p].href \in Calendar /\ projects[p].name \in Name /\ AgreeOK(p)
    BY DEF Agreed, NamesOK
  <2>2. CASE projects[p].href = c
    <3>1. Due(c)
      BY <1>2, <1>4, <2>1, <2>2 DEF AgreeOK
    <3>2. PICK g \in Owing(c) : req[g].op = "delete" \/ req[g].name = calendars[c]
      BY <3>1 DEF Due
    <3>3. req[g].op = "delete" /\ req'[g] = req[g]
      BY <1>2, <1>3, <1>4, <3>2 DEF Owing, Agreed, Sound, OnlyHere
    <3>4. Due(c)'
      BY <3>2, <3>3 DEF Due, Owing
    <3> QED
      BY <1>2, <2>2, <3>4 DEF AgreeOK
  <2>3. CASE projects[p].href # c
    BY <1>2, <1>4, <1>8, <2>1, <2>3, AgreeKept
  <2> QED
    BY <2>2, <2>3
<1> QED
  BY <1>2, <1>6, <1>7, <1>9 DEF Agreed

-----------------------------------------------------------------------------
(* The last transactions.                                                  *)

\* Where a request ends without storing what it has done, its project counts as
\* disturbed.
LEMMA Refused ==
    ASSUME IInv, StateOK', Agreed, NEW h \in Handler, Ends(h),
           disturbed' = disturbed \cup Touched(h), UNCHANGED <<calendars, projects, commits>>
    PROVE  Agreed'
<1>1. OnlyHere(h) /\ req'[h].pc = "idle"
  BY EndsSound
<1>2. RowsStay /\ Present' = Present
  BY DEF RowsStay, Present
<1>3. \A p \in Present \ disturbed' : \A g \in Handler : req'[g] = req[g] \/ Apart(p, g)
  BY <1>1 DEF OnlyHere, Apart, Touched
<1> QED
  BY <1>1, <1>2, <1>3, Keeps DEF OnlyHere

\* A name that may still be stored is the calendar's, or another one is due.
LEMMA RenameSettles ==
    ASSUME IInv, StateOK', Agreed, NEW h \in Handler, CommitRename(h)
    PROVE  Agreed'
<1>1. /\ req[h].pc = "local" /\ req[h].op = "rename" /\ Ends(h) /\ UNCHANGED calendars
      /\ OnlyHere(h) /\ req'[h].pc = "idle"
  BY EndsSound DEF CommitRename
<1>2. CASE ~StillReserved(h)
  BY <1>1, <1>2, Refused DEF CommitRename
<1>3. CASE StillReserved(h)
  <2> PICK p \in Present : p = req[h].project
    BY <1>3 DEF StillReserved
  <2> DEFINE row == Named(projects[p], req[h].name)
  <2>1. /\ p \in Present /\ p \in Project /\ req[h] \in Sound /\ projects[p] \in Row
        /\ req[h].name \in Name /\ projects[p].href = req[h].href
        /\ projects' = [projects EXCEPT ![p] = row]
        /\ commits' = [commits EXCEPT ![p] = commits[p] + 1] /\ UNCHANGED disturbed
    BY <1>1, <1>3, TypeFacts DEF CommitRename, StillReserved, Agreed, Sound
  <2>2. /\ row \in Row /\ row.state = projects[p].state /\ row.href = projects[p].href
        /\ row.name = req[h].name
    BY <2>1, NamedType DEF Named, Row
  <2> HIDE DEF row
  <2>3. /\ projects'[p] = row /\ \A q \in Project \ {p} : projects'[q] = projects[q]
        /\ commits'[p] = commits[p] + 1
        /\ \A q \in Project \ {p} : commits'[q] = commits[q]
    BY <2>1, TypeFacts
  <2>4. RowsStay /\ CommitsGrow
    BY <2>1, <2>2, <2>3, TypeFacts DEF RowsStay, CommitsGrow
  <2>5. \A g \in Handler : req'[g] \in Sound'
    BY <1>1, <2>4, SoundKept DEF OnlyHere
  <2>6. Present' = Present /\ NamesOK'
    BY <2>1, <2>2, <2>3 DEF Agreed, NamesOK, Present
  <2>7. PICK c \in Calendar : c = req[h].href
    BY <1>1, <2>1 DEF Sound
  <2>8. ASSUME p \notin disturbed
        PROVE  AgreeOK(p)'
    <3>1. AgreeOK(p) /\ h \in Owing(c) /\ projects[p].href = c /\ projects'[p].href = c
      BY <1>1, <2>1, <2>2, <2>3, <2>7, <2>8 DEF Agreed, Owing
    <3>2. commits[p] = req[h].commits
      <4>1. Holding(h) /\ HeldOK(h) /\ OvertakenOK(h)
        BY <1>1 DEF Holding, IInv, Locks
      <4> SUFFICES ASSUME commits[p] # req[h].commits
                   PROVE  FALSE
        OBVIOUS
      <4>2. PICK v \in Nat : /\ req[h].reserved < v /\ v <= projects[p].ver
                             /\ \A g \in Handler : Rival(g, h) => req[g].reserved # v
        BY <2>1, <4>1 DEF OvertakenOK
      <4>3. projects[p].ver = req[h].reserved
        BY <1>3 DEF StillReserved
      <4> QED
        BY <2>1, <4>2, <4>3, TypeFacts
    <3>3. PICK g \in Owing(c) : req[g].op = "delete" \/ req[g].name = calendars[c]
      BY <3>1, <3>2 DEF AgreeOK, Due
    <3>4. calendars'[c] = projects'[p].name \/ Due(c)'
      <4>1. CASE g = h
        BY <1>1, <2>2, <2>3, <3>3, <4>1
      <4>2. CASE g # h
        <5>1. req'[g] = req[g] /\ g \in Owing(c)'
          BY <1>1, <3>3, <4>2 DEF OnlyHere, Owing
        <5> QED
          BY <1>1, <3>3, <5>1 DEF Due
      <4> QED
        BY <4>1, <4>2
    <3>5. \A k \in Owing(c)' : req'[k].project = p => commits'[p] # req'[k].commits
      <4> SUFFICES ASSUME NEW k \in Handler, req'[k].pc = "local", req'[k].project = p
                   PROVE  commits'[p] # req'[k].commits
        BY DEF Owing
      <4>1. k # h /\ req[k].pc = "local" /\ req'[k] = req[k]
        BY <1>1 DEF OnlyHere
      <4>2. req[k].commits <= commits[p] /\ req[k].commits \in Nat /\ commits[p] \in Nat
        BY <2>1, <4>1, TypeFacts DEF Agreed, Sound
      <4> QED
        BY <2>3, <4>1, <4>2
    <3> QED
      BY <3>1, <3>4, <3>5 DEF AgreeOK
  <2>9. ASSUME NEW q \in Present \ disturbed, q # p
        PROVE  AgreeOK(q)'
    <3>1. q \in Project /\ AgreeOK(q) /\ projects[q].href # req[h].href
      BY <2>1, <2>9, TypeFacts DEF Agreed, StateOK
    <3>2. \A g \in Handler : req'[g] = req[g] \/ Apart(q, g)
      BY <1>1, <3>1 DEF OnlyHere, Apart
    <3> QED
      BY <1>1, <2>3, <2>9, <3>1, <3>2, AgreeKept
  <2>10. \A q \in Present' \ disturbed' : AgreeOK(q)'
    BY <2>1, <2>6, <2>8, <2>9
  <2> QED
    BY <2>5, <2>6, <2>10 DEF Agreed
<1> QED
  BY <1>2, <1>3

\* With its project goes what was due to it.
LEMMA DeleteSettles ==
    ASSUME IInv, StateOK', Agreed, NEW h \in Handler, CommitDelete(h)
    PROVE  Agreed'
<1> DEFINE p == req[h].project
<1>1. /\ req[h].pc = "local" /\ Ends(h) /\ UNCHANGED <<calendars, commits>>
      /\ OnlyHere(h) /\ req'[h].pc = "idle"
  BY EndsSound DEF CommitDelete
<1>2. CASE UNCHANGED projects /\ disturbed' = disturbed \cup Touched(h)
  BY <1>1, <1>2, Refused
<1>3. CASE /\ StillReserved(h) /\ projects' = [projects EXCEPT ![p] = DeletedRow]
           /\ UNCHANGED disturbed
  <2>1. /\ p \in Present /\ p \in Project /\ projects[p].href = req[h].href
        /\ projects'[p].state = "deleted"
        /\ \A q \in Project \ {p} : projects'[q] = projects[q]
    BY <1>1, <1>3, TypeFacts, OldRowType DEF StillReserved, Agreed, Sound
  <2>2. RowsStay
    BY <2>1 DEF RowsStay
  <2>3. \A q \in Present' : q \in Present /\ q # p /\ projects'[q] = projects[q]
    BY <2>1 DEF Present
  <2>4. ASSUME NEW q \in Present'
        PROVE  projects[q].href # req[h].href
    BY <2>1, <2>3 DEF IInv, StateOK
  <2>5. \A q \in Present' : \A g \in Handler : req'[g] = req[g] \/ Apart(q, g)
    BY <1>1, <2>4 DEF OnlyHere, Apart
  <2>6. ASSUME NEW q \in Present' \ disturbed'
        PROVE  AgreeOK(q)'
    <3>1. AgreeOK(q)
      BY <1>3, <2>3 DEF Agreed
    <3> QED
      BY <1>1, <2>3, <2>5, <3>1, AgreeKept
  <2>7. NamesOK'
    BY <2>3 DEF Agreed, NamesOK
  <2>8. \A g \in Handler : req'[g] \in Sound'
    BY <1>1, <2>2, TypeFacts, SoundKept DEF OnlyHere, CommitsGrow
  <2> QED
    BY <2>6, <2>7, <2>8 DEF Agreed
<1> QED
  BY <1>2, <1>3 DEF CommitDelete

\* A new project is at a calendar of its name, or counts as disturbed; nothing
\* is owed to it.
LEMMA InsertSettles ==
    ASSUME IInv, StateOK', Agreed, NEW h \in Handler, InsertProject(h)
    PROVE  Agreed'
<1> DEFINE c == req[h].href
           n == req[h].name
<1>1. /\ req[h].pc = "insert" /\ Ends(h) /\ UNCHANGED <<calendars, commits>>
      /\ OnlyHere(h) /\ req'[h].pc = "idle" /\ c \in Calendar /\ n \in Name
  BY EndsSound DEF InsertProject, Agreed, Sound
<1>2. CASE UNCHANGED <<projects, disturbed>>
  BY <1>1, <1>2, Plain DEF SameNames
<1>3. ASSUME NEW p \in Unused,
             projects' = [projects EXCEPT ![p] = NewRow(c, n)],
             disturbed' = IF calendars[c] = n THEN disturbed ELSE disturbed \cup {p}
      PROVE  Agreed'
  <2>1. /\ p \in Project /\ projects[p].state = "unused"
        /\ projects'[p].state = "present" /\ projects'[p].href = c /\ projects'[p].name = n
        /\ \A q \in Project \ {p} : projects'[q] = projects[q]
    <3>1. NewRow(c, n).name = n
      BY DEF NewRow, NoRow
    <3> QED
      BY <1>1, <1>3, <3>1, TypeFacts, NewRowType DEF Unused
  <2>2. RowsStay
    BY <2>1 DEF RowsStay
  <2>3. \A q \in Present' \ {p} : q \in Present /\ projects'[q] = projects[q]
    BY <2>1 DEF Present
  <2>4. \A g \in Handler : req'[g] \in Sound /\ req'[g] \in Sound'
    BY <1>1, <2>2, TypeFacts, SoundKept DEF OnlyHere, CommitsGrow
  <2>5. NamesOK'
    BY <1>1, <2>1, <2>3 DEF Agreed, NamesOK
  <2>6. p \notin disturbed' => AgreeOK(p)'
    <3> SUFFICES ASSUME p \notin disturbed'
                 PROVE  AgreeOK(p)'
      OBVIOUS
    <3>1. calendars'[c] = n
      BY <1>1, <1>3
    <3>2. projects'[p].href = c /\ projects'[p].name = n
      BY <2>1
    <3>3. \A g \in Handler : req'[g].pc = "local" /\ req'[g].href = c => req'[g].project # p
      BY <2>1, <2>4 DEF Sound
    <3> HIDE DEF c, n
    <3> QED
      BY <3>1, <3>2, <3>3 DEF AgreeOK, Owing
  <2>7. ASSUME NEW q \in Present' \ disturbed', q # p
        PROVE  AgreeOK(q)'
    <3>1. AgreeOK(q)
      BY <1>3, <2>3, <2>7 DEF Agreed
    <3>2. \A g \in Handler : req'[g] = req[g] \/ Apart(q, g)
      BY <1>1 DEF OnlyHere, Apart
    <3> QED
      BY <1>1, <2>3, <2>7, <3>1, <3>2, AgreeKept
  <2> QED
    BY <2>4, <2>5, <2>6, <2>7 DEF Agreed
<1> QED
  BY <1>2, <1>3 DEF InsertProject

\* A selection takes names from a listing; where it was read too early the
\* project counts as disturbed, and where a request is at work it goes on to.
LEMMA SelectionSettles ==
    ASSUME IInv, StateOK', Agreed, NEW h \in Handler, SaveSettings(h)
    PROVE  Agreed'
<1> DEFINE listing == req[h].listing
<1>1. /\ req[h].pc = "list" /\ Ends(h) /\ UNCHANGED <<calendars, commits>>
      /\ OnlyHere(h) /\ req'[h].pc = "idle" /\ listing \in Listing
  BY EndsSound, TypeFacts DEF SaveSettings, Request
<1>2. PICK chosen \in SUBSET Selectable(listing) :
         \E c0 \in chosen, new \in [Calendar -> Unused \cup {None}] :
            /\ NewIds(chosen, new)
            /\ \/ UNCHANGED <<projects, disturbed>>
               \/ StoreSelection(listing, chosen, new, c0)
  BY Zenon DEF SaveSettings
<1>3. PICK c0 \in chosen, new \in [Calendar -> Unused \cup {None}] :
         /\ NewIds(chosen, new)
         /\ \/ UNCHANGED <<projects, disturbed>>
            \/ StoreSelection(listing, chosen, new, c0)
  BY <1>2, Zenon
<1>4. CASE UNCHANGED <<projects, disturbed>>
  BY <1>1, <1>4, Plain DEF SameNames
<1>5. CASE StoreSelection(listing, chosen, new, c0)
  <2> DEFINE stays == Stays(chosen)
             inserted == Inserted(new)
             rows == SelectedRows(listing, chosen, new)
  <2>1. stays \subseteq Present /\ Present \subseteq Project /\ Unused \subseteq Project
    BY DEF Stays, Present, Unused
  <2>2. ASSUME NEW p \in stays
        PROVE  /\ rows[p] \in Row /\ rows[p].state = "present"
               /\ rows[p].href = projects[p].href /\ projects[p].href \in Calendar
               /\ rows[p].name = listing[projects[p].href] /\ rows[p].name \in Name
    <3>1. rows[p] = SelectedRow(listing, new, p) /\ p \in Present
      BY <2>1, SelectedRowsAt
    <3> HIDE DEF rows
    <3>2. projects[p].href \in chosen /\ projects[p].href \in Calendar /\ projects[p] \in Row
      BY <2>1, TypeFacts DEF Stays, Selectable
    <3>3. listing[projects[p].href] \in Name
      BY <1>1, <3>2 DEF Selectable, Listing
    <3>4. SelectedRow(listing, new, p).name = listing[projects[p].href]
      BY <3>1, <3>2 DEF SelectedRow, Named, Row
    <3> HIDE DEF listing
    <3> QED
      BY <1>1, <3>1, <3>2, <3>3, <3>4, StaysType
  <2>3. ASSUME NEW p \in inserted
        PROVE  \E c \in Calendar : /\ p \in Unused /\ rows[p] \in Row
                                   /\ rows[p].state = "present" /\ rows[p].href = c
                                   /\ rows[p].name = listing[c] /\ rows[p].name \in Name
    <3> DEFINE c == CHOOSE d \in Calendar : new[d] = p
    <3> HIDE DEF listing
    <3>1. /\ p \in Unused /\ c \in chosen
          /\ SelectedRow(listing, new, p) \in Row
          /\ SelectedRow(listing, new, p).state = "present"
          /\ SelectedRow(listing, new, p).href = c
      <4>1. c = (CHOOSE d \in Calendar : new[d] = p) /\ p \in Inserted(new)
        OBVIOUS
      <4>2. /\ listing \in Listing /\ chosen \in SUBSET Selectable(listing)
            /\ NewIds(chosen, new)
        BY <1>1, <1>3
      <4> HIDE DEF c, rows, stays, inserted
      <4> QED
        BY <4>1, <4>2, InsertedType
    <3> HIDE DEF c
    <3>2. rows[p] = SelectedRow(listing, new, p)
      BY <2>1, <3>1, SelectedRowsAt
    <3>3. p \notin Present
      BY <3>1 DEF Unused, Present
    <3> HIDE DEF rows
    <3>4. SelectedRow(listing, new, p) = NewRow(c, listing[c])
      BY <3>3 DEF SelectedRow, c
    <3>5. NewRow(c, listing[c]).name = listing[c]
      BY DEF NewRow, NoRow
    <3>6. c \in Calendar /\ listing[c] \in Name
      BY <1>1, <3>1 DEF Selectable, Listing
    <3> QED
      BY <3>1, <3>2, <3>4, <3>5, <3>6
  <2>4. ASSUME NEW p \in Project, p \notin stays, p \notin inserted
        PROVE  \/ rows[p].state = "deleted" /\ p \in Present
               \/ rows[p] = projects[p]
    BY <2>4, SelectedRowsAt, OldRowType DEF Removable
  <2>5. \A p \in Project : rows[p] \in Row
    BY <2>2, <2>3, SelectedRowsAt, OldRowType, TypeFacts
  <2>6. PICK d : projects' = [p \in Project |-> [rows[p] EXCEPT !.isDefault = (p = d)]]
    BY <1>5 DEF StoreSelection
  <2>7. disturbed' = (disturbed \ {p \in stays : \A g \in Handler :
                                       Holding(g) => p \notin Touched(g)})
                     \cup {p \in stays \cup inserted :
                              listing[rows[p].href] # calendars[rows[p].href]}
    BY <1>5 DEF StoreSelection
  <2> HIDE DEF rows, stays, inserted, listing
  <2>8. \A p \in Project : /\ projects'[p].state = rows[p].state
                           /\ projects'[p].href = rows[p].href
                           /\ projects'[p].name = rows[p].name
    BY <2>5, <2>6 DEF Row
  <2>9. \A p \in Present' : \/ p \in stays \/ p \in inserted
                            \/ p \in Present \ (stays \cup inserted) /\ rows[p] = projects[p]
    BY <2>4, <2>8 DEF Present
  <2>10. NamesOK'
    <3> SUFFICES ASSUME NEW p \in Present'
                 PROVE  rows[p].href \in Calendar /\ rows[p].name \in Name
      BY <2>8 DEF NamesOK, Present
    <3> QED
      BY <2>2, <2>3, <2>9 DEF Agreed, NamesOK
  <2>11. RowsStay
    <3> SUFFICES ASSUME NEW p \in Project, projects[p].state # "unused"
                 PROVE  /\ rows[p].state # "unused"
                        /\ rows[p].state = "present" =>
                              projects[p].state = "present" /\ rows[p].href = projects[p].href
      BY <2>8 DEF RowsStay
    <3>1. p \notin inserted
      BY <2>3 DEF Unused
    <3> QED
      BY <2>1, <2>2, <2>4, <3>1 DEF Present
  <2>12. \A g \in Handler : req'[g] \in Sound'
    BY <1>1, <2>11, TypeFacts, SoundKept DEF OnlyHere, CommitsGrow
  <2>13. \A p : \A g \in Handler : req'[g] = req[g] \/ Apart(p, g)
    BY <1>1 DEF OnlyHere, Apart
  <2>14. \A c : Owing(c)' = Owing(c) /\ \A g \in Owing(c) : req'[g] = req[g]
    BY <1>1 DEF OnlyHere, Owing
  <2>15. ASSUME NEW p \in stays, p \notin disturbed'
         PROVE  AgreeOK(p)'
    <3>1. /\ projects'[p].href = projects[p].href
          /\ projects'[p].name = calendars[projects[p].href]
      BY <2>1, <2>2, <2>7, <2>8, <2>15
    <3>2. CASE p \in disturbed
      <4>1. \A g \in Handler : Holding(g) => p \notin Touched(g)
        BY <2>7, <2>15, <3>2
      <4>2. Owing(projects[p].href) = {}
        BY <2>1, <4>1 DEF Owing, Holding, Touched
      <4> QED
        BY <1>1, <2>14, <3>1, <4>2 DEF AgreeOK
    <3>3. CASE p \notin disturbed
      <4>1. AgreeOK(p)
        BY <2>1, <3>3 DEF Agreed
      <4>2. \A c : Due(c)' <=> Due(c)
        BY <1>1, <2>14 DEF Due
      <4> QED
        BY <1>1, <2>14, <3>1, <4>1, <4>2 DEF AgreeOK
    <3> QED
      BY <3>2, <3>3
  <2>16. ASSUME NEW p \in inserted, p \notin disturbed'
         PROVE  AgreeOK(p)'
    <3>1. /\ projects'[p].name = calendars'[projects'[p].href]
          /\ p \in Project /\ projects[p].state = "unused"
      BY <1>1, <2>1, <2>3, <2>7, <2>8, <2>16 DEF Unused
    <3>2. \A g \in Handler : req'[g].pc = "local" => req'[g].project # p
      BY <1>1, <3>1 DEF OnlyHere, Sound
    <3> QED
      BY <3>1, <3>2 DEF AgreeOK, Owing
  <2>17. ASSUME NEW p \in Present, p \notin stays, rows[p] = projects[p], p \notin disturbed'
         PROVE  AgreeOK(p)'
    <3>1. AgreeOK(p) /\ p \in Project
      BY <2>1, <2>7, <2>17 DEF Agreed
    <3> QED
      BY <1>1, <2>8, <2>13, <2>17, <3>1, TypeFacts, AgreeKept
  <2>18. \A p \in Present' \ disturbed' : AgreeOK(p)'
    BY <2>9, <2>15, <2>16, <2>17
  <2> QED
    BY <2>10, <2>12, <2>18 DEF Agreed
<1> QED
  BY <1>3, <1>4, <1>5

\* With the process go all requests; the projects they were at work on count
\* as disturbed, and so do those whose calendar another client changes.
LEMMA CrashAndOtherSettle ==
    ASSUME IInv, StateOK', Agreed, Crash \/ OtherClient
    PROVE  Agreed'
<1>1. CASE Crash
  <2>1. /\ req' = [g \in Handler |-> NoRequest] /\ UNCHANGED <<calendars, projects, commits>>
        /\ disturbed' = disturbed \cup
                        UNION {Touched(g) : g \in {k \in Handler : req[k].pc = "local"}}
    BY <1>1 DEF Crash
  <2>2. NoRequest \in Sound /\ NoRequest.pc = "idle"
    BY NoRequestType DEF Sound
  <2>3. RowsStay /\ Present' = Present
    BY <2>1 DEF RowsStay, Present
  <2>4. \A p \in Present \ disturbed' : \A g \in Handler : Apart(p, g)
    BY <2>1, <2>2 DEF Apart, Touched
  <2> QED
    BY <2>1, <2>2, <2>3, <2>4, Keeps
<1>2. CASE OtherClient
  <2>1. PICK c \in Calendar, n \in Name \cup {None} :
            /\ calendars' = [calendars EXCEPT ![c] = n]
            /\ disturbed' = disturbed \cup {p \in Present : projects[p].href = c}
    BY <1>2 DEF OtherClient
  <2>2. UNCHANGED <<projects, req, commits>>
    BY <1>2 DEF OtherClient
  <2>3. RowsStay /\ Present' = Present
    BY <2>2 DEF RowsStay, Present
  <2>4. \A p \in Present \ disturbed' :
            calendars'[projects[p].href] = calendars[projects[p].href]
    BY <2>1, TypeFacts DEF Agreed, NamesOK, Listing
  <2> QED
    BY <2>1, <2>2, <2>3, <2>4, Keeps DEF Agreed
<1> QED
  BY <1>1, <1>2

LEMMA InitAgreed == Init => Agreed
<1> SUFFICES ASSUME Init PROVE Agreed
  OBVIOUS
<1>1. PICK c \in Calendar, n \in Name, p \in Project :
          /\ calendars = [d \in Calendar |-> IF d = c THEN n ELSE None]
          /\ projects = [q \in Project |->
                IF q = p THEN [NewRow(c, n) EXCEPT !.isDefault = TRUE] ELSE NoRow]
          /\ default = p
          /\ req = [h \in Handler |-> NoRequest]
          /\ requests = 0
          /\ commits = [q \in Project |-> 0]
          /\ disturbed = {}
  BY Zenon DEF Init
<1>2. Present = {p} /\ projects[p].href = c /\ projects[p].name = n
  BY <1>1, OldRowType DEF Present, NewRow, NoRow
<1>3. NoRequest \in Sound /\ NoRequest.pc = "idle"
  BY NoRequestType DEF Sound
<1> QED
  BY <1>1, <1>2, <1>3 DEF Agreed, NamesOK, AgreeOK, Owing

LEMMA NextAgreed == IInv /\ Agreed /\ [Next]_vars => Agreed'
<1> SUFFICES ASSUME IInv, Agreed, [Next]_vars PROVE Agreed'
  OBVIOUS
<1>1. StateOK'
  BY NextIInv DEF IInv
<1>2. ASSUME NEW h \in Handler, Serve(h)
      PROVE  Agreed'
  BY <1>1, <1>2, PlainSteps, RemoteSteps, CreateCalendarStep, RenameSettles,
     DeleteSettles, InsertSettles, SelectionSettles DEF Serve
<1>3. CASE UNCHANGED vars
  BY <1>1, <1>3, PlainRows DEF vars, SameNames
<1> QED
  BY <1>1, <1>2, <1>3, PlainRowSteps, CrashAndOtherSettle DEF Next

\* A project has its calendar under its name whenever nobody is at work on it,
\* whatever requests overlap, fail, are refused or saved from an old listing
\* (RenameProject, DeleteProject, ProjectCreate, SaveSettingsCalendars): what
\* can part them is a lost answer, the end of the process, another client, or a
\* request that cannot store what it has done.
THEOREM CalendarsAgree == Spec => []Agreement
<1>1. IInv /\ Agreed => Agreement
  <2> SUFFICES ASSUME IInv, Agreed, NEW p \in Present \ disturbed, Quiet(p)
               PROVE  calendars[projects[p].href] = projects[p].name
    BY DEF Agreement
  <2>1. Owing(projects[p].href) = {}
    BY DEF Quiet, Owing, Holding, Touched
  <2> QED
    BY <2>1 DEF Agreed, AgreeOK, Due
<1> QED
  BY <1>1, InitAgreed, NextAgreed, ProjectsInvariant, PTL DEF Spec

-----------------------------------------------------------------------------
(* What a request has found.  As long as no other rename has been stored,   *)
(* the project keeps the name that the request has found, or takes that of  *)
(* a selection and the request's history with it.                           *)
FoundOK ==
    /\ found \in [Handler -> Name \cup {None}]
    /\ \A h \in Handler :
          /\ Holding(h) /\ req[h].project \in Present
          /\ commits[req[h].project] = req[h].commits
          => projects[req[h].project].name = found[h]

LEMMA FoundKept ==
    ASSUME IInv, FoundOK, found' \in [Handler -> Name \cup {None}],
           HoldersKept, UNCHANGED commits,
           \A g \in Handler : Holding(g)' => found'[g] = found[g],
           \A p \in Project : projects[p].state # "unused" /\ p \in Present'
               => p \in Present /\ projects'[p].name = projects[p].name
    PROVE  FoundOK'
<1> SUFFICES ASSUME NEW h \in Handler, Holding(h)', req'[h].project \in Present',
                    commits'[req'[h].project] = req'[h].commits
             PROVE  projects'[req'[h].project].name = found'[h]
  BY DEF FoundOK
<1>1. /\ Holding(h) /\ req'[h].project = req[h].project
      /\ req'[h].commits = req[h].commits
  BY DEF HoldersKept
<1>2. req[h].project \in Project /\ projects[req[h].project].state # "unused"
  BY <1>1 DEF IInv, Locks, HeldOK
<1> QED
  BY <1>1, <1>2 DEF FoundOK

\* Steps that rename nothing.
LEMMA FoundPlain ==
    ASSUME IInv, FoundOK, NEW h \in Handler,
           \/ FillForm(h) \/ ReserveRefused(h) \/ NoCredentials(h)
           \/ RemoteRename(h) \/ RemoteDelete(h) \/ RemoteFails(h)
           \/ CreateCalendar(h) \/ ListCalendars(h) \/ TaskLoads(h)
    PROVE  FoundOK'
<1>1. HoldersKept /\ UNCHANGED <<projects, commits>>
  BY RequestSteps
     DEF FillForm, ReserveRefused, NoCredentials, RemoteRename, RemoteDelete, RemoteFails,
         CreateCalendar, ListCalendars, TaskLoads
<1>2. UNCHANGED found \/ (Ends(h) /\ Forgets(h))
  <2>1. CASE NoCredentials(h)
    BY <2>1 DEF NoCredentials
  <2> QED
    BY <2>1 DEF FillForm, ReserveRefused, RemoteRename, RemoteDelete, RemoteFails,
                CreateCalendar, ListCalendars, TaskLoads
<1>3. /\ found' \in [Handler -> Name \cup {None}]
      /\ \A g \in Handler : Holding(g)' => found'[g] = found[g]
  BY <1>2, TypeFacts, EndsStep DEF FoundOK, Forgets
<1> QED
  BY <1>1, <1>3, FoundKept DEF Present

\* Transactions that end a request.  The rename that is stored parts every other
\* holder from its count of the renames.
LEMMA FoundEnds ==
    ASSUME IInv, Agreed, FoundOK, NEW h \in Handler,
           \/ Cancel(h) \/ CommitRename(h) \/ CommitDelete(h)
           \/ InsertProject(h) \/ TaskStores(h)
    PROVE  FoundOK'
<1>1. /\ HoldersKept /\ ~Holding(h)'
      /\ \A g \in Handler \ {h} : req'[g] = req[g]
      /\ found' = found \/ Forgets(h)
  BY TypeFacts, EndsStep DEF Cancel, CommitRename, CommitDelete, InsertProject, TaskStores
<1>2. /\ found' \in [Handler -> Name \cup {None}]
      /\ \A g \in Handler : Holding(g)' => found'[g] = found[g]
  BY <1>1 DEF FoundOK, Forgets
<1>3. CASE Cancel(h) \/ TaskStores(h)
  <2>1. \A p \in Project : /\ projects'[p].state = projects[p].state
                           /\ projects'[p].name = projects[p].name
    BY <1>3, TypeFacts DEF Cancel, TaskStores, StillReserved, Row
  <2> QED
    BY <1>1, <1>2, <1>3, <2>1, FoundKept DEF Cancel, TaskStores, Present
<1>4. CASE CommitDelete(h)
  <2>1. \A p \in Project : projects'[p] = projects[p] \/ projects'[p].state = "deleted"
    BY <1>4, TypeFacts, OldRowType DEF CommitDelete, StillReserved
  <2> QED
    BY <1>1, <1>2, <1>4, <2>1, FoundKept DEF CommitDelete, Present
<1>5. CASE InsertProject(h)
  <2>1. \A p \in Project : projects'[p] = projects[p] \/ projects[p].state = "unused"
    BY <1>5, TypeFacts DEF InsertProject, Unused
  <2> QED
    BY <1>1, <1>2, <1>5, <2>1, FoundKept DEF InsertProject, Present
<1>6. CASE CommitRename(h) /\ UNCHANGED <<projects, commits>>
  BY <1>1, <1>2, <1>6, FoundKept DEF Present
<1>7. CASE CommitRename(h) /\ StillReserved(h)
  <2> DEFINE p == req[h].project
  <2>1. /\ p \in Project /\ commits \in [Project -> Nat]
        /\ commits' = [commits EXCEPT ![p] = commits[p] + 1]
    BY <1>7, TypeFacts DEF CommitRename, StillReserved
  <2>2. \A q \in Project : /\ projects'[q].state = projects[q].state
                           /\ q # p => projects'[q] = projects[q]
    BY <1>7, <2>1, NamedType, TypeFacts DEF CommitRename, StillReserved
  <2>3. commits'[p] = commits[p] + 1 /\ \A q \in Project \ {p} : commits'[q] = commits[q]
    BY <2>1
  <2> SUFFICES ASSUME NEW g \in Handler, Holding(g)', req'[g].project \in Present',
                      commits'[req'[g].project] = req'[g].commits
               PROVE  projects'[req'[g].project].name = found'[g]
    BY <1>2 DEF FoundOK
  <2>4. Holding(g) /\ req'[g] = req[g] /\ req[g].project \in Project
    BY <1>1 DEF HoldersKept, IInv, Locks, HeldOK
  <2>5. req[g].commits \in Nat /\ req[g].commits <= commits[req[g].project]
    BY <2>4, TypeFacts DEF Agreed, Sound, Holding
  <2>6. req[g].project # p
    BY <2>1, <2>3, <2>4, <2>5
  <2> HIDE DEF p
  <2>7. /\ req[g].project \in Present
        /\ projects'[req[g].project].name = projects[req[g].project].name
        /\ commits[req[g].project] = req[g].commits
    BY <2>2, <2>3, <2>4, <2>6 DEF Present
  <2> QED
    BY <1>2, <2>4, <2>7 DEF FoundOK
<1> QED
  BY <1>3, <1>4, <1>5, <1>6, <1>7 DEF CommitRename

\* The settings page names the projects that stay, and what their holders have
\* found with them.
LEMMA FoundSelection ==
    ASSUME IInv, FoundOK, NEW h \in Handler, SaveSettings(h)
    PROVE  FoundOK'
<1> DEFINE listing == req[h].listing
<1>1. /\ HoldersKept /\ UNCHANGED commits /\ listing \in Listing
      /\ \A g \in Handler : Holding(g)' => req'[g] = req[g]
  BY TypeFacts, EndsStep DEF SaveSettings, Request, IInv
<1>2. PICK chosen \in SUBSET Selectable(listing) :
         \E c0 \in chosen, new \in [Calendar -> Unused \cup {None}] :
            /\ NewIds(chosen, new)
            /\ \/ UNCHANGED <<projects, found>>
               \/ StoreSelection(listing, chosen, new, c0)
  BY Zenon DEF SaveSettings
<1>3. PICK c0 \in chosen, new \in [Calendar -> Unused \cup {None}] :
         /\ NewIds(chosen, new)
         /\ \/ UNCHANGED <<projects, found>>
            \/ StoreSelection(listing, chosen, new, c0)
  BY <1>2, Zenon
<1>4. CASE UNCHANGED <<projects, found>>
  BY <1>1, <1>4, FoundKept DEF FoundOK, Present
<1>5. CASE StoreSelection(listing, chosen, new, c0)
  <2> DEFINE stays == Stays(chosen)
             inserted == Inserted(new)
             rows == SelectedRows(listing, chosen, new)
  <2>1. stays \subseteq Present /\ Present \subseteq Project
    BY DEF Stays, Present
  <2>2. \A p \in stays : rows[p] \in Row
    <3> SUFFICES ASSUME NEW p \in stays PROVE rows[p] \in Row
      OBVIOUS
    <3>1. rows[p] = SelectedRow(listing, new, p)
      BY <2>1, SelectedRowsAt
    <3> HIDE DEF rows, listing
    <3> QED
      BY <1>1, <3>1, StaysType
  <2>3. \A p \in inserted : p \in Unused
    BY DEF Inserted
  <2>4. ASSUME NEW p \in Project, p \notin stays, p \notin inserted
        PROVE  rows[p].state = "deleted" \/ rows[p] = projects[p]
    BY <2>4, SelectedRowsAt, OldRowType
  <2>5. PICK d : projects' = [p \in Project |-> [rows[p] EXCEPT !.isDefault = (p = d)]]
    BY <1>5 DEF StoreSelection
  <2>6. found' = [g \in Handler |-> IF Holding(g) /\ req[g].project \in stays
                                    THEN rows[req[g].project].name ELSE found[g]]
    BY <1>5 DEF StoreSelection
  <2> HIDE DEF rows, stays, inserted, listing
  <2>7. ASSUME NEW p \in Project, rows[p] \in Row
        PROVE  projects'[p].state = rows[p].state /\ projects'[p].name = rows[p].name
    BY <2>5, <2>7 DEF Row
  <2>8. found' \in [Handler -> Name \cup {None}]
    BY <2>2, <2>6 DEF FoundOK, Row
  <2> SUFFICES ASSUME NEW g \in Handler, Holding(g)', req'[g].project \in Present',
                      commits'[req'[g].project] = req'[g].commits
               PROVE  projects'[req'[g].project].name = found'[g]
    BY <2>8 DEF FoundOK
  <2> DEFINE p == req[g].project
  <2>9. /\ Holding(g) /\ req'[g] = req[g] /\ p \in Project
        /\ projects[p].state # "unused" /\ commits[p] = req[g].commits
    BY <1>1 DEF HoldersKept, IInv, Locks, HeldOK
  <2>10. CASE p \in stays
    BY <2>2, <2>6, <2>7, <2>9, <2>10
  <2>11. CASE p \notin stays
    <3>1. p \notin inserted
      BY <2>3, <2>9 DEF Unused
    <3>2. rows[p].state = "deleted" \/ rows[p] = projects[p]
      BY <2>4, <2>9, <2>11, <3>1
    <3>3. rows[p] = projects[p] /\ projects'[p].name = projects[p].name /\ p \in Present
      BY <2>5, <2>7, <2>9, <3>2, OldRowType, TypeFacts DEF Present
    <3> QED
      BY <2>6, <2>9, <2>11, <3>3 DEF FoundOK
  <2> QED
    BY <2>10, <2>11
<1> QED
  BY <1>3, <1>4, <1>5

LEMMA NextFound == IInv /\ Agreed /\ FoundOK /\ [Next]_vars => FoundOK'
<1> SUFFICES ASSUME IInv, Agreed, FoundOK, [Next]_vars PROVE FoundOK'
  OBVIOUS
<1>1. ASSUME NEW h \in Handler, Serve(h) PROVE FoundOK'
  <2>1. CASE Reserve(h)
    <3> DEFINE p == req[h].project
    <3>1. /\ p \in Project /\ projects[p].name \in Name \cup {None}
          /\ found' = [found EXCEPT ![h] = projects[p].name] /\ commits' = commits
      BY <2>1, TypeFacts DEF Reserve, Row
    <3>2. /\ req'[h].project = p
          /\ \A g \in Handler \ {h} : req'[g] = req[g]
      BY <2>1, TypeFacts DEF Reserve, Request
    <3>3. \A q \in Project : /\ projects'[q].state = projects[q].state
                             /\ projects'[q].name = projects[q].name
      BY <2>1, TypeFacts DEF Reserve, Row
    <3>4. /\ found' \in [Handler -> Name \cup {None}] /\ found'[h] = projects[p].name
          /\ \A g \in Handler \ {h} : found'[g] = found[g]
      BY <3>1 DEF FoundOK
    <3> HIDE DEF p
    <3> QED
      BY <3>1, <3>2, <3>3, <3>4 DEF FoundOK, Present, Holding
  <2>2. CASE \/ FillForm(h) \/ ReserveRefused(h) \/ NoCredentials(h)
             \/ RemoteRename(h) \/ RemoteDelete(h) \/ RemoteFails(h)
             \/ CreateCalendar(h) \/ ListCalendars(h) \/ TaskLoads(h)
    BY <2>2, FoundPlain
  <2>3. CASE \/ Cancel(h) \/ CommitRename(h) \/ CommitDelete(h)
             \/ InsertProject(h) \/ TaskStores(h)
    BY <2>3, FoundEnds
  <2> QED
    BY <1>1, <2>1, <2>2, <2>3, FoundSelection DEF Serve
<1>2. CASE TasksGo \/ ConflictRecorded \/ ConflictsExpire \/ StrategyStored
  <2>1. UNCHANGED <<req, commits, found>>
    BY <1>2 DEF TasksGo, ConflictRecorded, ConflictsExpire, StrategyStored
  <2>2. \A p \in Project : /\ projects'[p].state = projects[p].state
                           /\ projects'[p].name = projects[p].name
    BY <1>2, TypeFacts
       DEF TasksGo, ConflictRecorded, ConflictsExpire, StrategyStored, Row
  <2> QED
    BY <2>1, <2>2, FoundKept DEF FoundOK, HoldersKept, Holding, Present
<1>3. CASE Crash
  <2>1. /\ \A h \in Handler : ~Holding(h)'
        /\ found' = [h \in Handler |-> None]
    BY <1>3, NoRequestType DEF Crash, Holding
  <2> QED
    BY <2>1 DEF FoundOK
<1>4. CASE OtherClient
  BY <1>4 DEF OtherClient, FoundOK, Holding, Present
<1>5. CASE UNCHANGED vars
  BY <1>5 DEF vars, FoundOK, Holding, Present
<1> QED
  BY <1>1, <1>2, <1>3, <1>4, <1>5 DEF Next

\* A rename or deletion that finds its reserved version again has been overtaken
\* by no other rename, though versions go back when requests are cancelled; and
\* what it replaces is the name that its reservation found or, since the settings
\* page renames without a version (db/settings_update.go), the last name that a
\* selection has given the project since then.
THEOREM HoldersAlone == Spec => []HolderIsAlone
<1>1. ASSUME IInv, FoundOK, NEW h \in Handler, Holding(h), StillReserved(h)
      PROVE  /\ commits[req[h].project] = req[h].commits
             /\ projects[req[h].project].name = found[h]
  <2>1. OvertakenOK(h) /\ req[h].project \in Present
    BY <1>1 DEF IInv, Locks, StillReserved
  <2>2. /\ projects[req[h].project].ver = req[h].reserved
        /\ req[h].reserved \in Nat
    BY <1>1, TypeFacts DEF StillReserved
  <2>3. commits[req[h].project] = req[h].commits
    BY <2>1, <2>2 DEF OvertakenOK
  <2> QED
    BY <1>1, <2>1, <2>3 DEF FoundOK
<1>2. IInv /\ FoundOK => HolderIsAlone
  BY <1>1 DEF HolderIsAlone
<1>3. Init => FoundOK
  BY NoRequestType DEF Init, FoundOK, Holding
<1> QED
  BY <1>2, <1>3, InitAgreed, NextAgreed, NextFound, ProjectsInvariant, PTL DEF Spec

\* Requests, rows, calendars and what requests have found are well typed, and no
\* two projects ever stand for the same calendar: insertions and selections
\* interleave on the UNIQUE column calendar_href.
THEOREM ProjectsTypeCorrect == Spec => []TypeOK
<1>1. IInv /\ FoundOK => TypeOK
  BY DEF IInv, FoundOK, TypeOK
<1>2. Init => FoundOK
  BY NoRequestType DEF Init, FoundOK, Holding
<1> QED
  BY <1>1, <1>2, InitAgreed, NextAgreed, NextFound, ProjectsInvariant, PTL DEF Spec
=============================================================================
