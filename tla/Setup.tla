-------------------------------- MODULE Setup --------------------------------
(***************************************************************************)
(* The setup wizard: credentials, choice of calendars, initial import and  *)
(* completion, from several tabs.  The tabs learn of the import's progress *)
(* from bounded queues; requests and the import's goroutine interleave at  *)
(* their accesses to the database and to the broker's flags.  A crash      *)
(* restarts the process, which then knows only what the database holds.    *)
(***************************************************************************)
EXTENDS Naturals, Sequences, FiniteSets

CONSTANTS Page,       \* the tabs
          Run,        \* goroutines that import, at the same time
          Calendar,   \* the calendars of the account
          Full,       \* those that hold a task
          None,       \* no calendar
          Allowed,    \* the faults that occur
          QueueBound, \* capacity of a subscriber's channel: 16 in the code
          MaxForms    \* bound: forms sent, pages of the import opened again

ASSUME SetupAssumption == /\ Full \subseteq Calendar
                          /\ None \notin Calendar
                          /\ Allowed \subseteq {"fail", "cut", "crash"}
                          /\ QueueBound \in Nat \ {0}
                          /\ MaxForms \in Nat

VARIABLES step, complete, \* setup_step and setup_complete of the settings
          gate,     \* SetupState: normal routes are let through
          ticking,  \* the scheduler has been started
          projects, \* the chosen calendars, and how many choices there were
          imported, \* the calendars whose project has been filled
          own,      \* the projects with a task only the user's database holds
          broker,   \* the flags of setupImportEventBroker
          run,      \* the goroutines of executeSetupInitialImport
          page,     \* the tabs, their queues and their requests
          gaps,     \* history: the gaps in which an import was started
          known,    \* history: the choice that the latest import loaded
          forms     \* how many there have been

vars == <<step, complete, gate, ticking, projects, imported, own, broker, run,
          page, gaps, known, forms>>

database == <<step, complete, projects, imported, own>>
memory == <<gate, ticking>>

-----------------------------------------------------------------------------
Event == {"progress", "done", "error"}

Flags == [running : BOOLEAN, started : BOOLEAN, succeeded : BOOLEAN, failed : BOOLEAN]

\* post and finish are the tab's requests to /setup/import and /setup/complete:
\* what the server does next for them.  asked is importStarted of the page, and
\* missed says that an event since its connection did not get through.
Tab == [stage : {"away", "connect", "watch", "complete", "home", "error"},
        post : {"none", "load", "start"},
        finish : {"none", "can", "commit", "mark", "start"},
        queue : Seq(Event), subscribed : BOOLEAN, asked : BOOLEAN, missed : BOOLEAN]

Import == [pc : {"none", "load", "list", "store", "done", "finish"},
           todo : SUBSET Calendar, at : Calendar \cup {None}, choice : Nat]

NewBroker == [running |-> FALSE, started |-> FALSE, succeeded |-> FALSE, failed |-> FALSE]

NoTab == [stage |-> "away", post |-> "none", finish |-> "none", queue |-> <<>>,
          subscribed |-> FALSE, asked |-> FALSE, missed |-> FALSE]

NoRun == [pc |-> "none", todo |-> {}, at |-> None, choice |-> 0]

Init == /\ step = "caldav" /\ complete = FALSE
        /\ gate = FALSE /\ ticking = FALSE
        /\ projects = [chosen |-> {}, choice |-> 0]
        /\ imported = {} /\ own = {}
        /\ broker = NewBroker
        /\ run = [r \in Run |-> NoRun]
        /\ page = [p \in Page |-> NoTab]
        /\ gaps = {} /\ known = 0
        /\ forms = 0

-----------------------------------------------------------------------------
(* The broker.                                                             *)

\* StartRun, when no import is running.
Started == [running |-> TRUE, started |-> TRUE, succeeded |-> FALSE, failed |-> FALSE]

\* Mutant of MayStart: a second import may start at any time.
MayStartAlways(b) == TRUE

MayStart(b) == ~b.running

\* Mutant of CanCompleteSetup: an import that was started is enough.
CanCompleteStarted(b) == b.started

CanCompleteSetup(b) == b.started /\ b.succeeded /\ ~b.running /\ ~b.failed

\* The flags after an event.
Published(b, event) ==
    CASE event = "done"     -> [b EXCEPT !.running = FALSE, !.succeeded = TRUE, !.failed = FALSE]
      [] event = "error"    -> [b EXCEPT !.running = FALSE, !.succeeded = FALSE, !.failed = TRUE]
      [] event = "progress" -> b

\* A subscriber with a full channel does not get the event.
Delivered(event) ==
    [p \in Page |->
        CASE ~page[p].subscribed -> page[p]
          [] page[p].subscribed /\ Len(page[p].queue) < QueueBound ->
                 [page[p] EXCEPT !.queue = Append(@, event)]
          [] OTHER -> [page[p] EXCEPT !.missed = TRUE]]

Publish(event) == /\ broker' = Published(broker, event)
                  /\ page' = Delivered(event)

-----------------------------------------------------------------------------
(* The first two steps of the wizard.  Neither asks whether the setup is   *)
(* complete, so a form that was left open still works.                     *)

SaveCalDAV ==
    /\ forms < MaxForms /\ forms' = forms + 1
    /\ step' = "calendars"
    /\ UNCHANGED <<complete, projects, imported, own, memory, broker, run, page, gaps, known>>

\* A tab that has left the wizard behind; it may open one again.
Free(p) == page[p].stage \in {"away", "home", "error"} /\ page[p].post = "none"

OnImportPage(p) == [NoTab EXCEPT !.stage = "connect"]

\* DELETE FROM projects fails as long as there are tasks.  The answer is the
\* page of the import.
SaveCalendars(p, chosen) ==
    /\ forms < MaxForms /\ forms' = forms + 1
    /\ step # "caldav" /\ chosen # {} /\ Free(p)
    /\ imported \cap Full = {} /\ own = {}
    /\ projects' = [chosen |-> chosen, choice |-> projects.choice + 1]
    /\ imported' = {}
    /\ step' = "import"
    /\ page' = [page EXCEPT ![p] = OnImportPage(p)]
    /\ UNCHANGED <<complete, own, memory, broker, run, gaps, known>>

-----------------------------------------------------------------------------
(* The page of the import.                                                 *)

\* GET /setup, a reload, or the retry button.
Visit(p) ==
    /\ forms < MaxForms /\ forms' = forms + 1
    /\ Free(p)
    /\ (step = "import" /\ ~complete) \/ page[p].stage = "error"
    /\ page' = [page EXCEPT ![p] = OnImportPage(p)]
    /\ UNCHANGED <<database, memory, broker, run, gaps, known>>

\* The event stream is open; "ready" makes the page post its request, once.
Subscribe(p) ==
    /\ page[p].stage = "connect"
    /\ page' = [page EXCEPT ![p].stage = "watch", ![p].subscribed = TRUE, ![p].asked = TRUE,
                            ![p].post = IF page[p].asked THEN @ ELSE "load"]
    /\ UNCHANGED <<database, memory, broker, run, gaps, known, forms>>

\* The connection breaks; the browser opens it again by itself.
Cut(p) ==
    /\ "cut" \in Allowed
    /\ page[p].stage = "watch"
    /\ page' = [page EXCEPT ![p].stage = "connect", ![p].subscribed = FALSE,
                            ![p].queue = <<>>, ![p].missed = TRUE]
    /\ UNCHANGED <<database, memory, broker, run, gaps, known, forms>>

Closed(tab, stage) == [tab EXCEPT !.stage = stage, !.subscribed = FALSE, !.queue = <<>>]

\* SetupImport reads the step, then starts the run.
ImportCheck(p) ==
    /\ page[p].post = "load"
    /\ page' = [page EXCEPT ![p] =
           IF step = "import" THEN [@ EXCEPT !.post = "start"]
           ELSE [(IF @.stage \in {"watch", "connect"} THEN Closed(@, "error") ELSE @)
                 EXCEPT !.post = "none"]]
    /\ UNCHANGED <<database, memory, broker, run, gaps, known, forms>>

\* The gaps that the flags leave open: a run that has published its end, but
\* not finished; and a setup that is being completed, or is complete.
Gaps == {gap \in {"early", "late"} :
            \/ gap = "early" /\ \E r \in Run : run[r].pc = "finish"
            \/ gap = "late"  /\ \/ complete
                                \/ \E p \in Page : page[p].finish \in {"commit", "mark", "start"}}

ImportStart(p) ==
    /\ page[p].post = "start"
    /\ page' = [page EXCEPT ![p].post = "none"]
    /\ IF MayStart(broker)
       THEN /\ broker' = Started
            /\ gaps' = gaps \cup Gaps
            /\ \E r \in Run : run[r].pc = "none"
            /\ run' = [run EXCEPT ![CHOOSE r \in Run : run[r].pc = "none"].pc = "load"]
       ELSE UNCHANGED <<broker, run, gaps>>
    /\ UNCHANGED <<database, memory, known, forms>>

\* The page handles the next event.
Receive(p) ==
    /\ page[p].stage = "watch" /\ page[p].queue # <<>>
    /\ page' = [page EXCEPT ![p] =
           CASE Head(@.queue) = "progress" -> [@ EXCEPT !.queue = Tail(page[p].queue)]
             [] Head(@.queue) = "done"  -> [Closed(@, "complete") EXCEPT !.finish = "can"]
             [] Head(@.queue) = "error" -> Closed(@, "error")]
    /\ UNCHANGED <<database, memory, broker, run, gaps, known, forms>>

-----------------------------------------------------------------------------
(* executeSetupInitialImport.                                              *)

ImportLoad(r) ==
    /\ run[r].pc = "load"
    /\ run' = [run EXCEPT ![r].pc = "list", ![r].todo = projects.chosen,
                          ![r].choice = projects.choice]
    /\ known' = projects.choice
    /\ Publish("progress")
    /\ UNCHANGED <<database, memory, gaps, forms>>

ImportList(r) ==
    /\ run[r].pc = "list"
    /\ \E c \in run[r].todo :
           run' = [run EXCEPT ![r].pc = "store", ![r].at = c, ![r].todo = @ \ {c}]
    /\ UNCHANGED <<database, memory, broker, page, gaps, known, forms>>

\* Mutant of Failed: the error is not published.
FailedSilently(r) == /\ run' = [run EXCEPT ![r].pc = "finish"]
                     /\ UNCHANGED <<broker, page>>

Failed(r) == /\ run' = [run EXCEPT ![r].pc = "finish"]
             /\ Publish("error")

ImportListFailed(r) ==
    /\ "fail" \in Allowed
    /\ run[r].pc = "list"
    /\ Failed(r)
    /\ UNCHANGED <<database, memory, gaps, known, forms>>

\* ReplaceSetupProjectTasks: a project of an earlier choice is gone, and only
\* an empty list can still be stored for it.
ImportStore(r) ==
    LET c == run[r].at
        current == run[r].choice = projects.choice
    IN  /\ run[r].pc = "store"
        /\ IF current \/ c \notin Full
           THEN /\ imported' = IF current THEN imported \cup {c} ELSE imported
                /\ own' = IF current THEN own \ {c} ELSE own
                /\ run' = [run EXCEPT ![r].at = None,
                                      ![r].pc = IF run[r].todo = {} THEN "done" ELSE "list"]
                /\ Publish("progress")
           ELSE Failed(r) /\ UNCHANGED <<imported, own>>
        /\ UNCHANGED <<step, complete, projects, memory, gaps, known, forms>>

ImportDone(r) ==
    /\ run[r].pc = "done"
    /\ run' = [run EXCEPT ![r].pc = "finish"]
    /\ Publish("done")
    /\ UNCHANGED <<database, memory, gaps, known, forms>>

\* The deferred FinishRun.
ImportFinish(r) ==
    /\ run[r].pc = "finish"
    /\ run' = [run EXCEPT ![r] = NoRun]
    /\ broker' = [broker EXCEPT !.running = FALSE]
    /\ UNCHANGED <<database, memory, page, gaps, known, forms>>

-----------------------------------------------------------------------------
(* SetupComplete: the check, the transaction, the gate, the scheduler.     *)

\* Mutant of Refused: the error is not returned, and the handler goes on.
RefusedGoesOn(p) == page' = [page EXCEPT ![p].finish = "mark"]

Refused(p) == page' = [page EXCEPT ![p].finish = "none", ![p].stage = "error"]

CompleteCheck(p) ==
    /\ page[p].finish = "can"
    /\ IF CanCompleteSetup(broker) THEN page' = [page EXCEPT ![p].finish = "commit"]
       ELSE Refused(p)
    /\ UNCHANGED <<database, memory, broker, run, gaps, known, forms>>

CompleteCommit(p) ==
    /\ page[p].finish = "commit"
    /\ IF step = "import" /\ projects.chosen # {} /\ own = {}
       THEN /\ step' = "complete" /\ complete' = TRUE
            /\ page' = [page EXCEPT ![p].finish = "mark"]
       ELSE Refused(p) /\ UNCHANGED <<step, complete>>
    /\ UNCHANGED <<projects, imported, own, memory, broker, run, gaps, known, forms>>

CompleteMark(p) ==
    /\ page[p].finish = "mark"
    /\ gate' = TRUE
    /\ page' = [page EXCEPT ![p].finish = "start"]
    /\ UNCHANGED <<database, ticking, broker, run, gaps, known, forms>>

CompleteStart(p) ==
    /\ page[p].finish = "start"
    /\ ticking' = TRUE
    /\ page' = [page EXCEPT ![p].finish = "none", ![p].stage = "home"]
    /\ UNCHANGED <<database, gate, broker, run, gaps, known, forms>>

-----------------------------------------------------------------------------
\* The user creates a task that has not reached the server yet.
Work(c) ==
    /\ gate
    /\ c \in projects.chosen \ own
    /\ own' = own \cup {c}
    /\ UNCHANGED <<step, complete, projects, imported, memory, broker, run, page, gaps, known, forms>>

\* Mutant of Completed: the step of the wizard decides.
CompletedStep == step = "complete"

\* What main reads of LoadSetupStatus for the gate and the scheduler.
Completed == complete

\* The process dies and starts again.  An open stream is opened again, an open
\* request has failed.
Restart ==
    /\ "crash" \in Allowed
    /\ gate' = Completed /\ ticking' = Completed
    /\ broker' = NewBroker
    /\ run' = [r \in Run |-> NoRun]
    /\ page' = [p \in Page |->
           LET tab == [page[p] EXCEPT !.queue = <<>>, !.subscribed = FALSE,
                                      !.post = "none", !.finish = "none"]
           IN  CASE page[p].finish # "none" \/ page[p].post # "none" -> Closed(tab, "error")
                 [] page[p].finish = "none" /\ page[p].post = "none"
                    /\ page[p].stage = "watch" ->
                        [tab EXCEPT !.stage = "connect", !.missed = TRUE]
                 [] OTHER -> tab]
    /\ UNCHANGED <<database, gaps, known, forms>>

-----------------------------------------------------------------------------
PageStep(p) == \/ Subscribe(p) \/ Receive(p) \/ ImportCheck(p) \/ ImportStart(p)
               \/ CompleteCheck(p) \/ CompleteCommit(p) \/ CompleteMark(p) \/ CompleteStart(p)

RunStep(r) == \/ ImportLoad(r) \/ ImportList(r) \/ ImportListFailed(r) \/ ImportStore(r)
              \/ ImportDone(r) \/ ImportFinish(r)

Next == \/ SaveCalDAV
        \/ \E p \in Page : \/ \E chosen \in SUBSET Calendar : SaveCalendars(p, chosen)
                           \/ Visit(p) \/ Cut(p) \/ PageStep(p)
        \/ \E r \in Run : RunStep(r)
        \/ \E c \in Calendar : Work(c)
        \/ Restart

Spec == Init /\ [][Next]_vars

\* Scripts in an open tab, requests and goroutines that have begun go on; what
\* the user does, and what breaks, has no fairness.
FairSpec == /\ Spec
            /\ \A p \in Page : WF_vars(PageStep(p))
            /\ \A r \in Run : WF_vars(RunStep(r))

-----------------------------------------------------------------------------
TypeOK ==
    /\ step \in {"caldav", "calendars", "import", "complete"}
    /\ {complete, gate, ticking} \subseteq BOOLEAN
    /\ projects \in [chosen : SUBSET Calendar, choice : Nat]
    /\ imported \subseteq projects.chosen /\ own \subseteq projects.chosen
    /\ broker \in Flags
    /\ run \in [Run -> Import]
    /\ page \in [Page -> Tab] /\ \A p \in Page : Len(page[p].queue) <= QueueBound
    /\ gaps \subseteq {"early", "late"} /\ known \in 0 .. projects.choice
    /\ forms \in 0 .. MaxForms

\* The normal routes and the scheduler are closed until setup_complete is
\* committed, through crashes, retries and refused completions: step 4 of
\* SetupComplete comes before its steps 5 and 6, and main follows the database.
GateAfterCommit == gate \/ ticking => complete

\* StartRun lets one import run at a time, however many tabs ask, unless one
\* was started between the end that the last published and its FinishRun.
OneImport == "early" \notin gaps =>
                 Cardinality({r \in Run : run[r].pc \notin {"none", "finish"}}) <= 1

\* The setup is completed only when every chosen calendar has been read, if
\* the choice is the one that the latest import loaded, and no import began in
\* a gap: flags of an earlier import, or of another process, do not count.
CompleteImported ==
    [][complete' /\ ~complete /\ known = projects.choice /\ gaps = {}
           => imported = projects.chosen]_vars

\* The import replaces all tasks of a project, and never one of the user's,
\* unless it was started in one of the gaps.
OwnTasksSafe == [][gaps = {} => own \subseteq own']_vars

\* A page that waits for the import learns of its end, unless an event did not
\* get through to it.
WatchEnds == \A p \in Page :
                 page[p].stage = "watch" ~> page[p].stage # "watch" \/ page[p].missed

\* Once the setup is committed the application opens and synchronizes, in the
\* same process or, after a crash or another use of the wizard's forms, in the
\* next.
CompleteOpens == complete ~> gate /\ ticking

=============================================================================
