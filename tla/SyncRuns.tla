------------------------------ MODULE SyncRuns ------------------------------
(***************************************************************************)
(* Who runs the sync of all projects, and when: the ticks of the periodic  *)
(* scheduler and the goroutines of manual syncs claim the flag sync_state  *)
(* in the table settings, run the engine with its fallback from strategy   *)
(* to strategy, and report success or failure.  Around them the life of    *)
(* the process: start, crash, and the graceful shutdown after a signal.    *)
(*                                                                         *)
(* What one strategy does to the tasks of one project is TaskSync's        *)
(* business.  Setup is complete: the scheduler starts with the process.    *)
(***************************************************************************)
EXTENDS Naturals, Strategies

CONSTANTS Manual,     \* goroutines that manual syncs may start
          Scheduler,  \* the loop of the periodic scheduler
          Nobody,
          Request,    \* HTTP requests in flight at the same time
          Projects,   \* number of projects, in order of creation
          Allowed     \* the faults that occur: a project cannot be synced, the
                      \* database fails, the process crashes or is stopped

Runner == Manual \cup {Scheduler}

ASSUME RunsAssumption == /\ Projects \in Nat
                         /\ Scheduler \notin Manual
                         /\ Nobody \notin Runner
                         /\ Allowed \subseteq {"fail", "dbfail", "crash", "signal"}

Project == 1..Projects

VARIABLES
    syncState,  \* settings.sync_state
    strategy,   \* projects.sync_strategy
    run,        \* what each runner is doing
    lock,       \* the mutex of the engine: who holds it
    process,    \* "up" or "down"
    listening,  \* the HTTP server accepts requests
    serving,    \* the HTTP requests in flight
    cancelled,  \* lifecycleCtx is cancelled
    coord,      \* how far the shutdown coordinator is
    synced      \* history: projects synced since the flag was last claimed

disk == <<syncState, strategy>>
memory == <<run, lock, process, listening, serving, cancelled, coord>>
server == <<process, listening, serving, cancelled, coord>>
vars == <<disk, memory, synced>>

-----------------------------------------------------------------------------
\* known is what ListSyncProjects returned, at the position in it.
Run == [pc : {"idle", "waiting", "claimed", "syncing", "failed", "cleaning",
              "succeeded", "tidying"},
        known : [Project -> Strategy], at : 1..(Projects + 1),
        strategy : Strategy]

Unlisted == [p \in Project |-> "fullscan"]

Idle == [pc |-> "idle", known |-> Unlisted, at |-> 1, strategy |-> "fullscan"]

\* The loop of the scheduler waits for a tick.
Started == [r \in Runner |->
              IF r = Scheduler THEN [Idle EXCEPT !.pc = "waiting"] ELSE Idle]

Init == /\ syncState = "idle"
        /\ strategy \in [Project -> Strategy]
        /\ run = Started
        /\ lock = Nobody
        /\ process = "up"
        /\ listening = TRUE
        /\ serving = {}
        /\ cancelled = FALSE
        /\ coord = "listening"
        /\ synced = {}

\* r goes on outside the engine, whose local variables are gone.
Go(r, pc) == run' = [run EXCEPT ![r] = [Idle EXCEPT !.pc = pc]]

\* The context of the run: lifecycleCtx, and for the scheduler a child of it
\* that Stop cancels too.
Interrupted(r) == cancelled \/ (r = Scheduler /\ coord \in {"stopping", "timeout"})

-----------------------------------------------------------------------------
(***************************************************************************)
(* Claiming the flag.                                                      *)
(***************************************************************************)
\* Mutant of TryStart: no AND sync_state != 'running'.
TryStartUnchecked(r) == /\ syncState' = "running"
                        /\ synced' = {}
                        /\ Go(r, "claimed")
                        /\ UNCHANGED <<strategy, lock, server>>

\* TryStartManualSync.  Who finds the flag set goes away without a run.
TryStart(r) == /\ syncState # "running"
               /\ syncState' = "running"
               /\ synced' = {}
               /\ Go(r, "claimed")
               /\ UNCHANGED <<strategy, lock, server>>

\* The loop may take a tick even if its context is cancelled already.
Tick == /\ run[Scheduler].pc = "waiting"
        /\ TryStart(Scheduler)

\* The handler of a manual sync claims the flag and starts a goroutine.
ManualSync(m) == /\ serving # {}
                 /\ run[m].pc = "idle"
                 /\ TryStart(m)

-----------------------------------------------------------------------------
(***************************************************************************)
(* Engine.Run.                                                             *)
(***************************************************************************)
At(r, known, p) == [run[r] EXCEPT !.pc = "syncing", !.known = known, !.at = p,
                       !.strategy = IF p \in Project THEN known[p] ELSE "fullscan"]

\* Mutant of EngineStart: the stored strategies are ignored.
EngineStartFresh(r) ==
    /\ run[r].pc = "claimed"
    /\ lock = Nobody
    /\ lock' = r
    /\ run' = [run EXCEPT ![r] = At(r, [p \in Project |-> "webdav_sync"], 1)]
    /\ UNCHANGED <<disk, server, synced>>

\* TryLock succeeds, and so does ListSyncProjects.
EngineStart(r) == /\ run[r].pc = "claimed"
                  /\ lock = Nobody
                  /\ lock' = r
                  /\ run' = [run EXCEPT ![r] = At(r, strategy, 1)]
                  /\ UNCHANGED <<disk, server, synced>>

\* ErrAlreadyRunning, or ListSyncProjects fails.
EngineRefused(r) == /\ run[r].pc = "claimed"
                    /\ \/ lock # Nobody
                       \/ "dbfail" \in Allowed
                       \/ Interrupted(r)
                    /\ Go(r, "failed")
                    /\ UNCHANGED <<disk, lock, server, synced>>

\* The strategy answers ErrFallbackRequired: the server does not support it,
\* or ctag cannot fetch an object.  The full scan never does.
FallBack(r) == /\ run[r].pc = "syncing"
               /\ run[r].at \in Project
               /\ run[r].strategy # "fullscan"
               /\ run' = [run EXCEPT ![r].strategy = NextStrategy[@]]
               /\ UNCHANGED <<disk, lock, server, synced>>

\* The strategy that worked is stored, and the next project follows.
SyncProject(r) == LET p == run[r].at IN
                  /\ run[r].pc = "syncing"
                  /\ p \in Project
                  /\ strategy' = [strategy EXCEPT ![p] = run[r].strategy]
                  /\ synced' = synced \cup {p}
                  /\ run' = [run EXCEPT ![r] = At(r, run[r].known, p + 1)]
                  /\ UNCHANGED <<syncState, lock, server>>

\* Mutant of SyncFails: the engine goes on with the next project.
SyncFailsGoesOn(r) ==
    LET p == run[r].at IN
    /\ run[r].pc = "syncing"
    /\ p \in Project
    /\ "fail" \in Allowed \/ Interrupted(r)
    /\ run' = [run EXCEPT ![r] = At(r, run[r].known, p + 1)]
    /\ UNCHANGED <<disk, lock, server, synced>>

\* Any other error ends the run, whatever projects are left.  The transaction
\* of the ctag strategy may have stored the strategy before the error.
SyncFails(r) == LET p == run[r].at IN
                /\ run[r].pc = "syncing"
                /\ p \in Project
                /\ "fail" \in Allowed \/ Interrupted(r)
                /\ \/ UNCHANGED strategy
                   \/ /\ run[r].strategy = "ctag"
                      /\ strategy' = [strategy EXCEPT ![p] = "ctag"]
                /\ lock' = Nobody
                /\ Go(r, "failed")
                /\ UNCHANGED <<syncState, server, synced>>

\* Mutant of EngineEnds: manual runs clean up as well.
EngineEndsCleaning(r) == /\ run[r].pc = "syncing"
                         /\ run[r].at = Projects + 1
                         /\ lock' = Nobody
                         /\ Go(r, "cleaning")
                         /\ UNCHANGED <<disk, server, synced>>

EngineEnds(r) == /\ run[r].pc = "syncing"
                 /\ run[r].at = Projects + 1
                 /\ lock' = Nobody
                 /\ Go(r, IF r = Scheduler THEN "cleaning" ELSE "succeeded")
                 /\ UNCHANGED <<disk, server, synced>>

-----------------------------------------------------------------------------
(***************************************************************************)
(* After the engine.  The scheduler cleans up before it reports success,   *)
(* and after it has reported failure (CleanupSyncArtifacts, which does not *)
(* touch what this module is about).  The result of these writes is not    *)
(* looked at.                                                              *)
(***************************************************************************)
Report(state) == \/ syncState' = state
                 \/ "dbfail" \in Allowed /\ UNCHANGED syncState

FinishSuccess(r) == /\ run[r].pc = "succeeded"
                    /\ Report("idle")
                    /\ Go(r, IF r = Scheduler THEN "waiting" ELSE "idle")
                    /\ UNCHANGED <<strategy, lock, server, synced>>

FinishError(r) == /\ run[r].pc = "failed"
                  /\ Report("error")
                  /\ Go(r, IF r = Scheduler THEN "tidying" ELSE "idle")
                  /\ UNCHANGED <<strategy, lock, server, synced>>

\* Mutant of Cleanup: the loop returns after a failed run.
CleanupReturns ==
    /\ \/ run[Scheduler].pc = "cleaning" /\ Go(Scheduler, "succeeded")
       \/ run[Scheduler].pc = "tidying" /\ Go(Scheduler, "idle")
    /\ UNCHANGED <<disk, lock, server, synced>>

Cleanup == /\ \/ run[Scheduler].pc = "cleaning" /\ Go(Scheduler, "succeeded")
              \/ run[Scheduler].pc = "tidying" /\ Go(Scheduler, "waiting")
           /\ UNCHANGED <<disk, lock, server, synced>>

\* The loop of the scheduler returns.
LoopEnds == /\ run[Scheduler].pc = "waiting"
            /\ Interrupted(Scheduler)
            /\ Go(Scheduler, "idle")
            /\ UNCHANGED <<disk, lock, server, synced>>

-----------------------------------------------------------------------------
(***************************************************************************)
(* The process (cmd/caldo/main.go, internal/shutdown).                     *)
(***************************************************************************)
\* Whatever the process was doing is gone; the database stays.
Dies == /\ process = "up"
        /\ process' = "down"
        /\ run' = [r \in Runner |-> Idle]
        /\ lock' = Nobody
        /\ listening' = FALSE
        /\ serving' = {}
        /\ cancelled' = FALSE
        /\ coord' = "listening"
        /\ UNCHANGED <<disk, synced>>

Crash == "crash" \in Allowed /\ Dies

\* Nothing resets sync_state.
Boot == /\ process = "down"
        /\ process' = "up"
        /\ run' = Started
        /\ lock' = Nobody
        /\ listening' = TRUE
        /\ UNCHANGED <<disk, serving, cancelled, coord, synced>>

RequestArrives(q) == /\ listening
                     /\ serving' = serving \cup {q}
                     /\ UNCHANGED <<disk, run, lock, process, listening,
                                    cancelled, coord, synced>>

RequestEnds(q) == /\ q \in serving
                  /\ serving' = serving \ {q}
                  /\ UNCHANGED <<disk, run, lock, process, listening,
                                 cancelled, coord, synced>>

\* SIGTERM or SIGINT: http.Server.Shutdown closes the listener, and
\* ListenAndServe returns.
Signal == /\ "signal" \in Allowed
          /\ process = "up"
          /\ coord = "listening"
          /\ coord' = "draining"
          /\ listening' = FALSE
          /\ UNCHANGED <<disk, run, lock, process, serving, cancelled, synced>>

\* The function that main registered with RegisterOnShutdown.
CancelLifecycle == /\ coord # "listening"
                   /\ ~cancelled
                   /\ cancelled' = TRUE
                   /\ UNCHANGED <<disk, run, lock, process, listening, serving,
                                  coord, synced>>

Coordinate(from, to) == /\ coord = from
                        /\ coord' = to
                        /\ UNCHANGED <<disk, run, lock, process, listening,
                                       serving, cancelled, synced>>

\* Shutdown has seen all requests end, and the scheduler is stopped.
Drained == serving = {} /\ Coordinate("draining", "stopping")

\* PeriodicScheduler.Stop has seen the loop return.
Stopped == run[Scheduler].pc = "idle" /\ Coordinate("stopping", "success")

TimedOut == \E step \in {"draining", "stopping"} : Coordinate(step, "timeout")

\* main waits for ListenAndServe to return or for the coordinator's code,
\* whichever comes first, and returns.
MainReturns == /\ process = "up"
               /\ \/ ~listening
                  \/ coord \in {"success", "timeout"}
               /\ Dies

-----------------------------------------------------------------------------
Engine(r) == \/ EngineStart(r) \/ EngineRefused(r) \/ FallBack(r)
             \/ SyncProject(r) \/ SyncFails(r) \/ EngineEnds(r)

Finish(r) == FinishSuccess(r) \/ FinishError(r)

Next == \/ Tick \/ Cleanup \/ LoopEnds
        \/ \E m \in Manual : ManualSync(m)
        \/ \E r \in Runner : Engine(r) \/ Finish(r)
        \/ \E q \in Request : RequestArrives(q) \/ RequestEnds(q)
        \/ Crash \/ Boot \/ Signal \/ CancelLifecycle
        \/ Drained \/ Stopped \/ TimedOut \/ MainReturns

Spec == Init /\ [][Next]_vars

\* The ticker goes on ticking, and a run goes on until it ends: its requests
\* time out and its steps do not wait for anything but the database.  main
\* returns once ListenAndServe has returned, and the process is restarted.
FairSpec == /\ Spec
            /\ WF_vars(Tick) /\ WF_vars(Cleanup)
            /\ WF_vars(MainReturns) /\ WF_vars(Boot)
            /\ \A r \in Runner : WF_vars(Engine(r)) /\ WF_vars(Finish(r))

-----------------------------------------------------------------------------
\* Types, and: only the scheduler waits for ticks and cleans up.
TypeOK == /\ syncState \in {"idle", "running", "error"}
          /\ strategy \in [Project -> Strategy]
          /\ run \in [Runner -> Run]
          /\ \A m \in Manual : run[m].pc \notin {"waiting", "cleaning", "tidying"}
          /\ lock \in Runner \cup {Nobody}
          /\ process \in {"up", "down"}
          /\ listening \in BOOLEAN
          /\ serving \subseteq Request
          /\ cancelled \in BOOLEAN
          /\ coord \in {"listening", "draining", "stopping", "success", "timeout"}
          /\ synced \subseteq Project

\* The flag in the database, which outlives the process, and the mutex in
\* memory agree: a run that has claimed the flag finds the engine free, so a
\* claimed run never fails with ErrAlreadyRunning and no two runs overlap,
\* whatever crashes, shutdowns and failed reports have happened before.
EngineNeverRefuses ==
    \A r \in Runner : run[r].pc = "claimed" => lock = Nobody

\* When a run reports success, every project has been synced since the run
\* claimed the flag: a project that fails is not passed over.
SuccessIsComplete ==
    [][syncState = "running" /\ syncState' = "idle" => synced = Project]_vars

Rank == [webdav_sync |-> 1, ctag |-> 2, fullscan |-> 3]

\* Periodic and manual runs never move a project back up to a strategy it has
\* fallen back from, although each run works on a list of strategies read at
\* its start.
StrategyOnlyDegrades ==
    [][\A p \in Project : Rank[strategy'[p]] >= Rank[strategy[p]]]_vars

Active == {r \in Runner : run[r].pc \notin {"idle", "waiting", "tidying"}}

\* The flag says "running", and nothing runs: a crash, a shutdown or a failed
\* write has left it behind, and nothing resets it.
Stuck == process = "up" /\ syncState = "running" /\ Active = {}

\* Runs start and end again and again, also when every one of them fails: the
\* only ways to stop them for good are to restart the process for ever and to
\* leave the flag behind.
RunsRecur == \/ []<>(syncState = "running") /\ []<>(syncState # "running")
             \/ []<>(process = "down")
             \/ <>[]Stuck
=============================================================================
