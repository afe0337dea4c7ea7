------------------------------ MODULE Projects ------------------------------
(***************************************************************************)
(* Projects and the calendars they stand for.  Renaming and deleting a     *)
(* project takes three steps: a transaction that checks the version the    *)
(* user has seen and reserves the next one, a request to the CalDAV        *)
(* server, and a transaction that stores the outcome if the reserved       *)
(* version is still there.  Creating takes the last two.  The settings     *)
(* page lists the server's calendars and stores a selection of them as     *)
(* projects.  Handlers, sync runs and other clients interleave at will.    *)
(***************************************************************************)
EXTENDS Naturals, FiniteSets

CONSTANTS Calendar,   \* hrefs of calendars
          Name,       \* display names
          SlugOf,     \* the href a new calendar of some name gets
          Project,    \* ids of projects, a new one for every insertion
          Handler,    \* requests in progress at the same time
          None,       \* no calendar, no task, no project
          Allowed,    \* the operations and faults that occur
          MaxVersion, \* bound: server_version
          MaxRequests \* bound: requests

Behaviour == {"create", "rename", "delete", "settings", "task", "conflict",
              "sync", "fail", "crash", "other"}

ASSUME ProjectsAssumption == /\ None \notin Name \cup Project
                             /\ SlugOf \in [Name -> Calendar]
                             /\ Allowed \subseteq Behaviour
                             /\ {MaxVersion, MaxRequests} \subseteq Nat

VARIABLES calendars, \* the server: for each href the display name, or None
          projects,  \* the rows of projects, with what matters of their tasks
          default,   \* settings.default_project_id
          req,       \* for each handler its request
          requests,  \* how many there have been
          commits,   \* history: for each project, how many requests have renamed it
          found,     \* history: for each handler at work on a project the name that
                     \* it has found, or that the settings page has given it since
          disturbed  \* history: projects that may disagree with their calendar

vars == <<calendars, projects, default, req, requests, commits, found, disturbed>>

-----------------------------------------------------------------------------
\* task is the project_name that the project's tasks carry, None if it has no
\* tasks; entries says whether rows of conflicts refer to the project.
Row == [state : {"unused", "present", "deleted"}, href : Calendar \cup {None},
        name : Name \cup {None}, ver : Nat, isDefault : BOOLEAN,
        task : Name \cup {None}, entries : BOOLEAN]

NoRow == [state |-> "unused", href |-> None, name |-> None, ver |-> 0,
          isDefault |-> FALSE, task |-> None, entries |-> FALSE]

\* INSERT INTO projects, with the defaults of its columns.
NewRow(href, name) == [NoRow EXCEPT !.state = "present", !.href = href,
                                    !.name = name, !.ver = 1]

DeletedRow == [NoRow EXCEPT !.state = "deleted"]

Present == {p \in Project : projects[p].state = "present"}

Unused == {p \in Project : projects[p].state = "unused"}

Listing == [Calendar -> Name \cup {None}]

\* What a handler knows: the form the user has sent (ver and name, as shown),
\* the name it is to give, the version it has reserved, the listing it has read.
Request == [pc : {"idle", "form", "remote", "local", "cancel", "insert", "list", "task"},
            op : {"none", "create", "rename", "delete", "settings", "task"},
            project : Project \cup {None}, ver : Nat, name : Name \cup {None},
            href : Calendar \cup {None}, reserved : Nat, commits : Nat,
            listing : Listing]

NoRequest == [pc |-> "idle", op |-> "none", project |-> None, ver |-> 0,
              name |-> None, href |-> None, reserved |-> 0, commits |-> 0,
              listing |-> [c \in Calendar |-> None]]

Init == \E c \in Calendar, n \in Name, p \in Project :
            /\ calendars = [d \in Calendar |-> IF d = c THEN n ELSE None]
            /\ projects = [q \in Project |->
                  IF q = p THEN [NewRow(c, n) EXCEPT !.isDefault = TRUE] ELSE NoRow]
            /\ default = p
            /\ req = [h \in Handler |-> NoRequest]
            /\ requests = 0
            /\ commits = [q \in Project |-> 0]
            /\ found = [h \in Handler |-> None]
            /\ disturbed = {}

-----------------------------------------------------------------------------
\* A handler between its reservation and its last transaction.
Holding(h) == req[h].pc \in {"remote", "local", "cancel"}

\* The project at the calendar a request works on: its own, unless that has
\* gone and the calendar has been created again.
Touched(h) == {p \in Present : projects[p].href = req[h].href}

\* The condition of every last transaction: server_version = reserved.
StillReserved(h) == /\ req[h].project \in Present
                    /\ projects[req[h].project].ver = req[h].reserved

Accept(h, op, r) == /\ op \in Allowed
                    /\ req[h].pc = "idle"
                    /\ requests < MaxRequests
                    /\ requests' = requests + 1
                    /\ req' = [req EXCEPT ![h] = [r EXCEPT !.op = op]]

Goes(h, pc) == /\ req' = [req EXCEPT ![h].pc = pc]
               /\ UNCHANGED requests

Ends(h) == /\ req' = [req EXCEPT ![h] = NoRequest]
           /\ UNCHANGED requests

Forgets(h) == found' = [found EXCEPT ![h] = None]

\* The user fills in a form: the page shows the project as it is now, and the
\* confirmation of a deletion is the name that it shows.
FillForm(h) ==
    \E p \in Present, n \in Name, op \in {"rename", "delete"} :
        /\ op = "delete" => n = projects[p].name
        /\ Accept(h, op, [NoRequest EXCEPT !.pc = "form", !.project = p,
                              !.ver = projects[p].ver, !.name = n])
        /\ UNCHANGED <<calendars, projects, default, commits, found, disturbed>>

\* LoadProjectRenameBase and LoadProjectDeleteBase
Reserve(h) ==
    LET r == req[h]
        row == projects[r.project]
    IN  /\ r.pc = "form"
        /\ r.project \in Present
        /\ row.ver = r.ver
        /\ r.op = "delete" => row.name = r.name
        /\ row.ver < MaxVersion
        /\ projects' = [projects EXCEPT ![r.project].ver = @ + 1]
        /\ req' = [req EXCEPT ![h].pc = "remote", ![h].href = row.href,
                              ![h].reserved = row.ver + 1, ![h].commits = commits[r.project]]
        /\ found' = [found EXCEPT ![h] = row.name]
        /\ UNCHANGED <<calendars, default, requests, commits, disturbed>>

\* The project is gone, has another version, or another name.
ReserveRefused(h) ==
    LET r == req[h]
    IN  /\ r.pc = "form"
        /\ \/ r.project \notin Present
           \/ projects[r.project].ver # r.ver
           \/ r.op = "delete" /\ projects[r.project].name # r.name
        /\ Ends(h)
        /\ UNCHANGED <<calendars, projects, default, commits, found, disturbed>>

\* LoadCalDAVCredentials fails: only the deletion gives its reservation back.
NoCredentials(h) ==
    /\ "fail" \in Allowed
    /\ req[h].pc = "remote"
    /\ IF req[h].op = "delete" THEN Goes(h, "cancel") /\ UNCHANGED found
                               ELSE Ends(h) /\ Forgets(h)
    /\ UNCHANGED <<calendars, projects, default, commits, disturbed>>

\* RenameCalendar: a calendar that is not there cannot be renamed.
RemoteRename(h) ==
    LET c == req[h].href
    IN  /\ req[h].pc = "remote" /\ req[h].op = "rename"
        /\ IF calendars[c] = None
           THEN Goes(h, "cancel") /\ UNCHANGED calendars
           ELSE Goes(h, "local") /\ calendars' = [calendars EXCEPT ![c] = req[h].name]
        /\ UNCHANGED <<projects, default, commits, found, disturbed>>

\* DeleteCalendar: 404 counts as success.
RemoteDelete(h) ==
    /\ req[h].pc = "remote" /\ req[h].op = "delete"
    /\ calendars' = [calendars EXCEPT ![req[h].href] = None]
    /\ Goes(h, "local")
    /\ UNCHANGED <<projects, default, commits, found, disturbed>>

\* The request fails: the server has not seen it, or its answer is lost.
RemoteFails(h) ==
    /\ "fail" \in Allowed
    /\ req[h].pc = "remote"
    /\ Goes(h, "cancel")
    /\ \/ UNCHANGED <<calendars, disturbed>>
       \/ /\ disturbed' = disturbed \cup Touched(h)
          /\ calendars' = [calendars EXCEPT ![req[h].href] =
                IF req[h].op = "delete" \/ @ = None THEN None ELSE req[h].name]
    /\ UNCHANGED <<projects, default, commits, found>>

\* Mutant of Cancel: the version is not compared.
CancelUnchecked(h) ==
    /\ req[h].pc = "cancel"
    /\ IF req[h].project \in Present
       THEN projects' = [projects EXCEPT ![req[h].project].ver = @ - 1]
       ELSE UNCHANGED projects
    /\ Ends(h) /\ Forgets(h)
    /\ UNCHANGED <<calendars, default, commits, disturbed>>

\* CancelProjectRenameReservation, CancelProjectDeleteReservation
Cancel(h) ==
    /\ req[h].pc = "cancel"
    /\ IF StillReserved(h)
       THEN projects' = [projects EXCEPT ![req[h].project].ver = @ - 1]
       ELSE UNCHANGED projects
    /\ Ends(h) /\ Forgets(h)
    /\ UNCHANGED <<calendars, default, commits, disturbed>>

\* UPDATE projects and UPDATE tasks: the name, here and in the tasks.
Named(row, n) == [row EXCEPT !.name = n, !.task = IF @ = None THEN None ELSE n]

\* Mutant of CommitRename: the version is not compared.
CommitRenameUnchecked(h) ==
    LET p == req[h].project
    IN  /\ req[h].pc = "local" /\ req[h].op = "rename"
        /\ IF p \in Present
           THEN /\ projects' = [projects EXCEPT ![p] = Named(@, req[h].name)]
                /\ commits' = [commits EXCEPT ![p] = @ + 1]
                /\ UNCHANGED disturbed
           ELSE UNCHANGED <<projects, commits, disturbed>>
        /\ Ends(h) /\ Forgets(h)
        /\ UNCHANGED <<calendars, default>>

\* RenameProject; the version stays the reserved one.
CommitRename(h) ==
    LET p == req[h].project
    IN  /\ req[h].pc = "local" /\ req[h].op = "rename"
        /\ IF StillReserved(h)
           THEN /\ projects' = [projects EXCEPT ![p] = Named(@, req[h].name)]
                /\ commits' = [commits EXCEPT ![p] = @ + 1]
                /\ UNCHANGED disturbed
           ELSE /\ disturbed' = disturbed \cup Touched(h)
                /\ UNCHANGED <<projects, commits>>
        /\ Ends(h) /\ Forgets(h)
        /\ UNCHANGED <<calendars, default>>

\* Mutant of WithoutProject: the default project goes on being the deleted one.
WithoutProjectDangling(p) == default

\* ON DELETE SET NULL
WithoutProject(p) == IF default = p THEN None ELSE default

\* DeleteProject: the tasks and the project, unless conflicts refer to it.
CommitDelete(h) ==
    LET p == req[h].project
    IN  /\ req[h].pc = "local" /\ req[h].op = "delete"
        /\ IF StillReserved(h) /\ ~projects[p].entries
           THEN /\ projects' = [projects EXCEPT ![p] = DeletedRow]
                /\ default' = WithoutProject(p)
                /\ UNCHANGED disturbed
           ELSE /\ disturbed' = disturbed \cup Touched(h)
                /\ UNCHANGED <<projects, default>>
        /\ Ends(h) /\ Forgets(h)
        /\ UNCHANGED <<calendars, commits>>

-----------------------------------------------------------------------------
\* ProjectCreate: MKCALENDAR at the href the name gives; an existing calendar
\* stays as it is, and the request fails.
CreateCalendar(h) ==
    \E n \in Name :
        /\ calendars[SlugOf[n]] = None
        /\ calendars' = [calendars EXCEPT ![SlugOf[n]] = n]
        /\ Accept(h, "create", [NoRequest EXCEPT !.pc = "insert", !.name = n,
                                                 !.href = SlugOf[n]])
        /\ UNCHANGED <<projects, default, commits, found, disturbed>>

\* Mutant of Taken: the column is not UNIQUE.
TakenNever(href) == FALSE

\* calendar_href is UNIQUE.
Taken(href) == \E p \in Present : projects[p].href = href

InsertProject(h) ==
    /\ req[h].pc = "insert"
    /\ IF Taken(req[h].href)
       THEN UNCHANGED <<projects, disturbed>>
       ELSE \E p \in Unused :
               /\ projects' = [projects EXCEPT ![p] = NewRow(req[h].href, req[h].name)]
               /\ disturbed' = IF calendars[req[h].href] = req[h].name
                               THEN disturbed ELSE disturbed \cup {p}
    /\ Ends(h)
    /\ UNCHANGED <<calendars, default, commits, found>>

\* SettingsCalendarsUpdate: loadSettingsCalendars.
ListCalendars(h) ==
    /\ Accept(h, "settings", [NoRequest EXCEPT !.pc = "list", !.listing = calendars])
    /\ UNCHANGED <<calendars, projects, default, commits, found, disturbed>>

\* The calendars that a form can select: it names them by href, and they are
\* looked up in the listing.
Selectable(listing) == {c \in Calendar : listing[c] # None}

\* Mutant of Removable: projects with tasks go as well.
RemovableAlways(chosen) == {p \in Present : projects[p].href \notin chosen}

Removable(chosen) == {p \in Present : /\ projects[p].href \notin chosen
                                      /\ projects[p].task = None}

\* The selected projects, those that exist and those to be inserted with ids
\* that new gives to their calendars.
Stays(chosen) == {p \in Present : projects[p].href \in chosen}
Inserted(new) == {new[c] : c \in Calendar} \ {None}
NewIds(chosen, new) ==
    /\ \A c \in Calendar : new[c] # None <=>
           c \in chosen /\ \A p \in Present : projects[p].href # c
    /\ \A c, d \in Calendar : new[c] = new[d] /\ new[c] # None => c = d

\* The rows after the selection: selected projects take the name in the
\* listing, new ones are inserted, projects that may go do so.
SelectedRow(listing, new, p) ==
    IF p \in Present THEN Named(projects[p], listing[projects[p].href])
    ELSE LET c == CHOOSE d \in Calendar : new[d] = p IN NewRow(c, listing[c])

SelectedRows(listing, chosen, new) ==
    [p \in Project |->
       CASE p \in Stays(chosen) \cup Inserted(new) -> SelectedRow(listing, new, p)
         [] p \in Removable(chosen) -> DeletedRow
         [] OTHER -> projects[p]]

\* One of the selected projects is the default.
StoreSelection(listing, chosen, new, c0) ==
    LET rows == SelectedRows(listing, chosen, new)
        selected == Stays(chosen) \cup Inserted(new)
        defaultRow == CHOOSE p \in selected : rows[p].href = c0
    IN  /\ projects' = [p \in Project |->
                          [rows[p] EXCEPT !.isDefault = (p = defaultRow)]]
        /\ default' = defaultRow
        /\ disturbed' = (disturbed \ {p \in Stays(chosen) : \A g \in Handler :
                                          Holding(g) => p \notin Touched(g)})
                        \cup {p \in selected :
                                 listing[rows[p].href] # calendars[rows[p].href]}
        /\ found' = [g \in Handler |->
                        IF Holding(g) /\ req[g].project \in Stays(chosen)
                        THEN rows[req[g].project].name ELSE found[g]]

\* SaveSettingsCalendars: the selection is stored, or nothing is when conflicts
\* refer to a project that must go.
SaveSettings(h) ==
    /\ req[h].pc = "list"
    /\ \E chosen \in SUBSET Selectable(req[h].listing) :
       \E c0 \in chosen, new \in [Calendar -> Unused \cup {None}] :
          /\ NewIds(chosen, new)
          /\ IF \E p \in Removable(chosen) : projects[p].entries
             THEN UNCHANGED <<projects, default, found, disturbed>>
             ELSE StoreSelection(req[h].listing, chosen, new, c0)
    /\ Ends(h)
    /\ UNCHANGED <<calendars, commits>>

-----------------------------------------------------------------------------
\* Creating or editing a task reads the project's name first ...
TaskLoads(h) ==
    \E p \in Present :
        /\ Accept(h, "task", [NoRequest EXCEPT !.pc = "task", !.project = p,
                                               !.name = projects[p].name])
        /\ UNCHANGED <<calendars, projects, default, commits, found, disturbed>>

\* ... and stores it with the task in a transaction of its own.
TaskStores(h) ==
    /\ req[h].pc = "task"
    /\ IF req[h].project \in Present
       THEN projects' = [projects EXCEPT ![req[h].project].task = req[h].name]
       ELSE UNCHANGED projects
    /\ Ends(h)
    /\ UNCHANGED <<calendars, default, commits, found, disturbed>>

\* The last task of a project is deleted.
TasksGo == \E p \in Present :
    /\ "task" \in Allowed
    /\ projects[p].task # None
    /\ projects' = [projects EXCEPT ![p].task = None]
    /\ UNCHANGED <<calendars, default, req, requests, commits, found, disturbed>>

\* A scan or a refused request records a conflict; it refers to the project.
ConflictRecorded == \E p \in Present :
    /\ "conflict" \in Allowed
    /\ projects[p].task # None /\ ~projects[p].entries
    /\ projects' = [projects EXCEPT ![p].entries = TRUE]
    /\ UNCHANGED <<calendars, default, req, requests, commits, found, disturbed>>

\* CleanupSyncArtifacts: old conflicts go, once they are resolved.
ConflictsExpire == \E p \in Present :
    /\ "conflict" \in Allowed
    /\ projects[p].entries
    /\ projects' = [projects EXCEPT ![p].entries = FALSE]
    /\ UNCHANGED <<calendars, default, req, requests, commits, found, disturbed>>

\* UpdateProjectSyncStrategy
StrategyStored == \E p \in Present :
    /\ "sync" \in Allowed
    /\ projects[p].ver < MaxVersion
    /\ projects' = [projects EXCEPT ![p].ver = @ + 1]
    /\ UNCHANGED <<calendars, default, req, requests, commits, found, disturbed>>

\* The process dies, and all requests with it.
Crash ==
    /\ "crash" \in Allowed
    /\ \E h \in Handler : req[h].pc # "idle"
    /\ req' = [h \in Handler |-> NoRequest]
    /\ found' = [h \in Handler |-> None]
    /\ disturbed' = disturbed \cup
                    UNION {Touched(h) : h \in {g \in Handler : req[g].pc = "local"}}
    /\ UNCHANGED <<calendars, projects, default, requests, commits>>

\* Another client creates, renames or deletes a calendar.
OtherClient ==
    /\ "other" \in Allowed
    /\ requests < MaxRequests
    /\ requests' = requests + 1
    /\ \E c \in Calendar, n \in Name \cup {None} :
          /\ calendars' = [calendars EXCEPT ![c] = n]
          /\ disturbed' = disturbed \cup {p \in Present : projects[p].href = c}
    /\ UNCHANGED <<projects, default, req, commits, found>>

-----------------------------------------------------------------------------
Serve(h) == \/ FillForm(h) \/ Reserve(h) \/ ReserveRefused(h) \/ NoCredentials(h)
            \/ RemoteRename(h) \/ RemoteDelete(h) \/ RemoteFails(h) \/ Cancel(h)
            \/ CommitRename(h) \/ CommitDelete(h)
            \/ CreateCalendar(h) \/ InsertProject(h)
            \/ ListCalendars(h) \/ SaveSettings(h)
            \/ TaskLoads(h) \/ TaskStores(h)

Next == \/ \E h \in Handler : Serve(h)
        \/ TasksGo \/ ConflictRecorded \/ ConflictsExpire \/ StrategyStored
        \/ Crash \/ OtherClient

Spec == Init /\ [][Next]_vars

-----------------------------------------------------------------------------
StateOK == /\ calendars \in Listing
           /\ projects \in [Project -> Row]
           /\ \A p, q \in Present : projects[p].href = projects[q].href => p = q
           /\ default \in Project \cup {None}
           /\ req \in [Handler -> Request]
           /\ requests \in Nat
           /\ commits \in [Project -> Nat]
           /\ disturbed \subseteq Project

TypeOK == StateOK /\ found \in [Handler -> Name \cup {None}]

\* Reservations are a lock without a lock: although a version goes back when a
\* request fails, and sync runs raise it at any time, no two requests ever hold
\* the same version of a project, and none holds one that is still to come.
ReservationsDistinct ==
    \A h \in Handler : Holding(h) =>
        /\ req[h].project \in Present => req[h].reserved <= projects[req[h].project].ver
        /\ \A g \in Handler : /\ Holding(g) /\ g # h
                              /\ req[g].project = req[h].project
                              => req[g].reserved # req[h].reserved

\* A request that finds its reserved version again is the only one that can
\* have renamed the project since its reservation, the settings page aside: no
\* other rename has been stored, not even one that was taken back again, and the
\* project has the name that the reservation found (for a deletion, the one the
\* user has confirmed) or the last one that the settings page has given it since
\* then.  The settings page renames without raising the version
\* (db/settings_update.go), so a rename or deletion goes through although the
\* project has another name by now than the user has seen; found follows it.
HolderIsAlone ==
    \A h \in Handler : Holding(h) /\ StillReserved(h) =>
        /\ commits[req[h].project] = req[h].commits
        /\ projects[req[h].project].name = found[h]

\* settings.default_project_id and is_default say the same: at most one
\* project is the default, and it exists.
OneDefault ==
    /\ default # None => default \in Present
    /\ \A p \in Present : projects[p].isDefault <=> p = default

\* Nobody works on the calendar of project p.
Quiet(p) == \A h \in Handler : Holding(h) => p \notin Touched(h)

\* A project has its calendar, under its name, whatever requests overlapped,
\* failed or were refused, except after a lost answer, a crash, a change by
\* another client, or a request that could not store what it had done.
Agreement ==
    \A p \in Present \ disturbed : Quiet(p) =>
        calendars[projects[p].href] = projects[p].name

\* A project with tasks is never removed by way of the settings, and a project
\* goes by a deletion only when its calendar has gone.
TasksOnlyGoWithCalendar ==
    [][\A p \in Present : projects[p].task # None /\ projects'[p].state = "deleted"
          => \E h \in Handler : req[h].pc = "local" /\ req[h].op = "delete"
                                /\ req[h].project = p]_vars
=============================================================================
