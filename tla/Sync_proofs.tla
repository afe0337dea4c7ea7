----------------------------- MODULE Sync_proofs ----------------------------
(***************************************************************************)
(* Proofs about SyncRuns, for any number of projects, manual syncs and     *)
(* requests, and all faults; and about IncrementalSync, for any number of  *)
(* objects, requests and rows, and any order in which things happen.       *)
(***************************************************************************)
EXTENDS SyncRuns, IncrementalSync, Operators_proofs, FunctionTheorems

(***************************************************************************)
(* SyncRuns.  The invariant: at most one runner is between its claim and   *)
(* its report, the flag is set as long as there is one, and the mutex is   *)
(* held exactly while that runner is in the engine.  So nobody else writes *)
(* strategies during a run, and what it has read at its start stays true   *)
(* for the projects it has not come to.                                    *)
(***************************************************************************)
InRun(r) == run[r].pc \in {"claimed", "syncing", "failed", "cleaning", "succeeded"}

OneRun == \A r, q \in Runner : InRun(r) /\ InRun(q) => r = q

FlagSet == \A r \in Runner : InRun(r) => syncState = "running"

LockHeld == \A r \in Runner : lock = r <=> run[r].pc = "syncing"

\* In the engine: what is known of the projects to come is still true, the
\* strategy being tried is not above the stored one, the others are synced.
RunListOK(r) ==
    run[r].pc = "syncing" =>
        /\ \A p \in Project : p >= run[r].at => run[r].known[p] = strategy[p]
        /\ run[r].at \in Project =>
              Rank[run[r].strategy] >= Rank[strategy[run[r].at]]
        /\ \A p \in Project : p < run[r].at => p \in synced

DoneOK(r) == run[r].pc \in {"cleaning", "succeeded"} => synced = Project

RunsOK == \A r \in Runner : RunListOK(r) /\ DoneOK(r)

IInv == TypeOK /\ OneRun /\ FlagSet /\ LockHeld /\ RunsOK

-----------------------------------------------------------------------------
\* The initial states satisfy the invariant.
LEMMA InitIInv == Init => IInv
<1> SUFFICES ASSUME Init PROVE IInv
  OBVIOUS
<1> USE DEF Init, Started
<1>1. Idle \in Run /\ [Idle EXCEPT !.pc = "waiting"] \in Run
  BY RunsAssumption DEF Idle, Run, Unlisted, Strategy
<1>2. \A r \in Runner : run[r].pc \in {"idle", "waiting"}
  BY DEF Idle
<1>3. TypeOK
  <2>1. \A m \in Manual : run[m].pc = "idle"
    BY RunsAssumption DEF Idle, Runner
  <2> QED
    BY <1>1, <2>1 DEF TypeOK
<1>4. OneRun /\ FlagSet /\ RunsOK
  BY <1>2 DEF OneRun, FlagSet, RunsOK, InRun, RunListOK, DoneOK
<1>5. LockHeld
  BY <1>2, RunsAssumption DEF LockHeld
<1> QED
  BY <1>3, <1>4, <1>5 DEF IInv

-----------------------------------------------------------------------------
\* Where a runner goes outside the engine is a well-typed record.
LEMMA GoType ==
    ASSUME NEW pc \in {"idle", "waiting", "claimed", "syncing", "failed",
                       "cleaning", "succeeded", "tidying"}
    PROVE  /\ [Idle EXCEPT !.pc = pc] \in Run
           /\ [Idle EXCEPT !.pc = pc].pc = pc
BY RunsAssumption DEF Idle, Run, Unlisted, Strategy

\* A runner that goes on outside the engine, and outside the run as well,
\* keeps the types.
LEMMA GoKeepsType ==
    ASSUME TypeOK, NEW r \in Runner,
           NEW pc \in {"idle", "waiting", "claimed", "failed", "cleaning",
                       "succeeded", "tidying"},
           pc \in {"waiting", "cleaning", "tidying"} => r = Scheduler,
           Go(r, pc)
    PROVE  /\ run' \in [Runner -> Run]
           /\ \A m \in Manual : run'[m].pc \notin {"waiting", "cleaning", "tidying"}
           /\ run'[r].pc = pc
           /\ \A q \in Runner \ {r} : run'[q] = run[q]
<1>1. run \in [Runner -> Run]
  BY DEF TypeOK
<1>2. /\ run' \in [Runner -> Run]
      /\ run'[r] = [Idle EXCEPT !.pc = pc]
      /\ \A q \in Runner \ {r} : run'[q] = run[q]
  BY <1>1, GoType DEF Go
<1>3. run'[r].pc = pc
  BY <1>2, GoType
<1>4. \A m \in Manual : run'[m].pc \notin {"waiting", "cleaning", "tidying"}
  BY <1>2, <1>3, RunsAssumption DEF TypeOK, Runner
<1> QED
  BY <1>2, <1>3, <1>4

\* Claiming the flag: nobody else is in a run, or the flag would be set.
LEMMA TryStartKeeps ==
    ASSUME IInv, NEW r \in Runner, TryStart(r), ~InRun(r)
    PROVE  IInv'
<1> USE DEF IInv
<1>1. \A q \in Runner : ~InRun(q)
  BY DEF TryStart, FlagSet
<1>2. /\ run' \in [Runner -> Run]
      /\ \A m \in Manual : run'[m].pc \notin {"waiting", "cleaning", "tidying"}
      /\ run'[r].pc = "claimed"
      /\ \A q \in Runner \ {r} : run'[q] = run[q]
  BY GoKeepsType DEF TryStart
<1>3. TypeOK'
  BY <1>2 DEF TypeOK, TryStart, server
<1>4. OneRun' /\ FlagSet'
  BY <1>1, <1>2 DEF OneRun, FlagSet, InRun, TryStart
<1>5. LockHeld'
  BY <1>1, <1>2 DEF LockHeld, InRun, TryStart
<1>6. RunsOK'
  BY <1>1, <1>2 DEF RunsOK, RunListOK, DoneOK, InRun
<1> QED
  BY <1>3, <1>4, <1>5, <1>6

\* Leaving the run: whoever reports is the only one in it.
LEMMA LeaveKeeps ==
    ASSUME IInv, NEW r \in Runner, NEW pc \in {"idle", "waiting", "tidying"},
           pc \in {"waiting", "tidying"} => r = Scheduler,
           Go(r, pc), run[r].pc # "syncing",
           syncState' \in {"idle", "running", "error"},
           InRun(r) \/ syncState' = syncState,
           UNCHANGED <<strategy, lock, server, synced>>
    PROVE  IInv'
<1> USE DEF IInv
<1>1. /\ run' \in [Runner -> Run]
      /\ \A m \in Manual : run'[m].pc \notin {"waiting", "cleaning", "tidying"}
      /\ run'[r].pc = pc
      /\ \A q \in Runner \ {r} : run'[q] = run[q]
  BY GoKeepsType
<1>2. TypeOK'
  BY <1>1 DEF TypeOK, server
<1>3. OneRun' /\ FlagSet'
  BY <1>1 DEF OneRun, FlagSet, InRun
<1>4. LockHeld'
  BY <1>1 DEF LockHeld
<1>5. RunsOK'
  BY <1>1 DEF RunsOK, RunListOK, DoneOK
<1> QED
  BY <1>2, <1>3, <1>4, <1>5

\* Going on outside the engine, in the same run.
LEMMA StayKeeps ==
    ASSUME IInv, NEW r \in Runner, InRun(r),
           NEW pc \in {"failed", "cleaning", "succeeded"},
           pc = "cleaning" => r = Scheduler,
           Go(r, pc), pc = "failed" \/ synced = Project,
           lock' = IF run[r].pc = "syncing" THEN Nobody ELSE lock,
           strategy' \in [Project -> Strategy],
           run[r].pc = "syncing" \/ strategy' = strategy,
           UNCHANGED <<syncState, server, synced>>
    PROVE  IInv'
<1> USE DEF IInv
<1>1. /\ run' \in [Runner -> Run]
      /\ \A m \in Manual : run'[m].pc \notin {"waiting", "cleaning", "tidying"}
      /\ run'[r].pc = pc
      /\ \A q \in Runner \ {r} : run'[q] = run[q]
  BY GoKeepsType
<1>2. \A q \in Runner \ {r} : ~InRun(q)
  BY DEF OneRun
<1>3. TypeOK'
  BY <1>1 DEF TypeOK, server
<1>4. OneRun' /\ FlagSet'
  BY <1>1 DEF OneRun, FlagSet, InRun
<1>5. LockHeld'
  BY <1>1, <1>2, RunsAssumption DEF LockHeld, InRun
<1>6. RunsOK'
  BY <1>1, <1>2 DEF RunsOK, RunListOK, DoneOK, InRun
<1> QED
  BY <1>3, <1>4, <1>5, <1>6

-----------------------------------------------------------------------------
\* The runner in the engine, at a position of its list.
LEMMA AtType ==
    ASSUME TypeOK, NEW r \in Runner, NEW known \in [Project -> Strategy],
           NEW p \in 1..(Projects + 1)
    PROVE  /\ At(r, known, p) \in Run
           /\ At(r, known, p).pc = "syncing"
           /\ At(r, known, p).known = known
           /\ At(r, known, p).at = p
           /\ p \in Project => At(r, known, p).strategy = known[p]
<1> DEFINE next == IF p \in Project THEN known[p] ELSE "fullscan"
<1>1. run[r] \in Run
  BY DEF TypeOK
<1>2. next \in Strategy
  BY DEF Strategy
<1>3. At(r, known, p) = [run[r] EXCEPT !.pc = "syncing", !.known = known,
                                       !.at = p, !.strategy = next]
  BY DEF At
<1> HIDE DEF next
<1>4. /\ At(r, known, p) \in Run
      /\ At(r, known, p).pc = "syncing"
      /\ At(r, known, p).known = known
      /\ At(r, known, p).at = p
      /\ At(r, known, p).strategy = next
  BY <1>1, <1>2, <1>3 DEF Run
<1>5. p \in Project => next = known[p]
  BY DEF next
<1> QED
  BY <1>4, <1>5

\* A step inside the engine, or into it, to the record next.
LEMMA EngineKeeps ==
    ASSUME IInv, NEW r \in Runner, run[r].pc \in {"claimed", "syncing"},
           NEW next \in Run, next.pc = "syncing",
           run' = [run EXCEPT ![r] = next], lock' = r,
           strategy' \in [Project -> Strategy], synced' \subseteq Project,
           \A p \in Project : p >= next.at => next.known[p] = strategy'[p],
           next.at \in Project => Rank[next.strategy] >= Rank[strategy'[next.at]],
           \A p \in Project : p < next.at => p \in synced',
           UNCHANGED <<syncState, server>>
    PROVE  IInv'
<1> USE DEF IInv
<1>1. /\ run' \in [Runner -> Run]
      /\ run'[r] = next
      /\ \A q \in Runner \ {r} : run'[q] = run[q]
  BY DEF TypeOK
<1>2. \A q \in Runner \ {r} : ~InRun(q)
  BY DEF OneRun, InRun
<1>3. TypeOK'
  BY <1>1 DEF TypeOK, server
<1>4. OneRun' /\ FlagSet'
  BY <1>1 DEF OneRun, FlagSet, InRun
<1>5. LockHeld'
  BY <1>1, <1>2 DEF LockHeld, InRun
<1>6. RunsOK'
  BY <1>1, <1>2 DEF RunsOK, RunListOK, DoneOK, InRun
<1> QED
  BY <1>3, <1>4, <1>5, <1>6

\* The ranks of the strategies: falling back goes up.
LEMMA RankFacts ==
    /\ \A s \in Strategy : Rank[s] \in Nat
    /\ \A s \in Strategy : NextStrategy[s] \in Strategy
    /\ \A s \in Strategy : Rank[NextStrategy[s]] >= Rank[s]
BY DEF Rank, NextStrategy, Strategy

\* The steps of the engine.
LEMMA EngineIInv ==
    ASSUME IInv, NEW r \in Runner, Engine(r)
    PROVE  IInv'
<1> USE DEF IInv
<1>0. /\ run[r] \in Run
      /\ strategy \in [Project -> Strategy]
      /\ synced \subseteq Project
      /\ Projects \in Nat
  BY RunsAssumption DEF TypeOK
<1>1. CASE EngineStart(r)
  <2> DEFINE next == At(r, strategy, 1)
  <2>1. /\ next \in Run /\ next.pc = "syncing" /\ next.known = strategy
        /\ next.at = 1 /\ (1 \in Project => next.strategy = strategy[1])
    BY <1>0, AtType
  <2>2. /\ run' = [run EXCEPT ![r] = next] /\ lock' = r
        /\ UNCHANGED <<disk, server, synced>> /\ run[r].pc = "claimed"
    BY <1>1 DEF EngineStart
  <2>3. 1 \in Project => Rank[next.strategy] >= Rank[strategy[1]]
    BY <1>0, <2>1, RankFacts
  <2>4. \A p \in Project : ~(p < 1)
    BY DEF Project
  <2> HIDE DEF next
  <2> QED
    BY <1>0, <2>1, <2>2, <2>3, <2>4, EngineKeeps DEF disk
<1>2. CASE EngineRefused(r)
  BY <1>0, <1>2, StayKeeps DEF EngineRefused, InRun, disk
<1>3. CASE FallBack(r)
  <2> DEFINE next == [run[r] EXCEPT !.strategy = NextStrategy[@]]
  <2>1. /\ run' = [run EXCEPT ![r] = next] /\ run[r].pc = "syncing"
        /\ UNCHANGED <<disk, lock, server, synced>>
    BY <1>3, <1>0 DEF FallBack, TypeOK
  <2>2. run[r].strategy \in Strategy /\ NextStrategy[run[r].strategy] \in Strategy
    BY <1>0, RankFacts DEF Run
  <2>3. /\ next \in Run /\ next.pc = "syncing" /\ next.known = run[r].known
        /\ next.at = run[r].at /\ next.strategy = NextStrategy[run[r].strategy]
    BY <1>0, <2>1, <2>2 DEF Run
  <2>4. RunListOK(r) /\ lock = r
    BY <2>1 DEF RunsOK, LockHeld
  <2>5. run[r].at \in Project =>
            Rank[NextStrategy[run[r].strategy]] >= Rank[strategy[run[r].at]]
    <3> SUFFICES ASSUME run[r].at \in Project
                 PROVE  Rank[NextStrategy[run[r].strategy]] >= Rank[strategy[run[r].at]]
      OBVIOUS
    <3>1. Rank[run[r].strategy] >= Rank[strategy[run[r].at]]
      BY <2>1, <2>4 DEF RunListOK
    <3>2. strategy[run[r].at] \in Strategy
      BY <1>0
    <3> QED
      BY <2>2, <3>1, <3>2, RankFacts
  <2> HIDE DEF next
  <2> QED
    BY <1>0, <2>1, <2>3, <2>4, <2>5, EngineKeeps DEF disk, RunListOK
<1>4. CASE SyncProject(r)
  <2> DEFINE p == run[r].at
             next == At(r, run[r].known, p + 1)
  <2>1. /\ run[r].pc = "syncing" /\ p \in Project
        /\ strategy' = [strategy EXCEPT ![p] = run[r].strategy]
        /\ synced' = synced \cup {p}
        /\ run' = [run EXCEPT ![r] = next]
        /\ UNCHANGED <<syncState, lock, server>>
    BY <1>4 DEF SyncProject
  <2>2. run[r].known \in [Project -> Strategy] /\ run[r].strategy \in Strategy
    BY <1>0 DEF Run
  <2>3. p + 1 \in 1..(Projects + 1)
    BY <1>0, <2>1 DEF Project
  <2>4. /\ next \in Run /\ next.pc = "syncing" /\ next.known = run[r].known
        /\ next.at = p + 1 /\ (p + 1 \in Project => next.strategy = run[r].known[p + 1])
    BY <2>2, <2>3, AtType
  <2>5. RunListOK(r) /\ lock = r
    BY <2>1 DEF RunsOK, LockHeld
  <2>6. strategy' \in [Project -> Strategy] /\ synced' \subseteq Project
    BY <1>0, <2>1, <2>2
  <2>7. \A q \in Project : q >= p + 1 => run[r].known[q] = strategy'[q]
    BY <1>0, <2>1, <2>5 DEF RunListOK, Project
  <2>8. p + 1 \in Project => Rank[next.strategy] >= Rank[strategy'[p + 1]]
    <3> SUFFICES ASSUME p + 1 \in Project
                 PROVE  Rank[next.strategy] >= Rank[strategy'[p + 1]]
      OBVIOUS
    <3>1. next.strategy = strategy'[p + 1]
      BY <2>1, <2>4, <2>7 DEF Project
    <3>2. strategy'[p + 1] \in Strategy
      BY <2>6
    <3> QED
      BY <3>1, <3>2, RankFacts
  <2>9. \A q \in Project : q < p + 1 => q \in synced'
    BY <2>1, <2>5 DEF RunListOK, Project
  <2>10. /\ \A q \in Project : q >= next.at => next.known[q] = strategy'[q]
         /\ next.at \in Project => Rank[next.strategy] >= Rank[strategy'[next.at]]
         /\ \A q \in Project : q < next.at => q \in synced'
    <3> HIDE DEF next, p
    <3> QED
      BY <2>4, <2>7, <2>8, <2>9
  <2>11. lock' = r
    BY <2>1, <2>5
  <2> HIDE DEF next, p
  <2> QED
    BY <2>1, <2>4, <2>6, <2>10, <2>11, EngineKeeps
<1>5. CASE SyncFails(r)
  <2>1. strategy' \in [Project -> Strategy]
    BY <1>0, <1>5 DEF SyncFails, Strategy
  <2> QED
    BY <1>5, <2>1, StayKeeps DEF SyncFails, InRun
<1>6. CASE EngineEnds(r)
  <2>1. run[r].pc = "syncing" /\ run[r].at = Projects + 1
    BY <1>6 DEF EngineEnds
  <2>2. \A p \in Project : p < Projects + 1
    BY <1>0 DEF Project
  <2>3. RunListOK(r)
    BY DEF RunsOK
  <2>4. synced = Project
    BY <1>0, <2>1, <2>2, <2>3 DEF RunListOK
  <2>5. CASE r = Scheduler
    BY <1>0, <1>6, <2>1, <2>4, <2>5, StayKeeps DEF EngineEnds, InRun, disk
  <2>6. CASE r # Scheduler
    BY <1>0, <1>6, <2>1, <2>4, <2>6, StayKeeps DEF EngineEnds, InRun, disk
  <2> QED
    BY <2>5, <2>6
<1> QED
  BY <1>1, <1>2, <1>3, <1>4, <1>5, <1>6 DEF Engine

\* The reports.
LEMMA FinishIInv ==
    ASSUME IInv, NEW r \in Runner, Finish(r)
    PROVE  IInv'
<1>1. syncState \in {"idle", "running", "error"}
  BY DEF IInv, TypeOK
<1>2. CASE FinishSuccess(r)
  <2>1. syncState' \in {"idle", "running", "error"}
    BY <1>1, <1>2 DEF FinishSuccess, Report
  <2>2. CASE r = Scheduler
    BY <1>2, <2>1, <2>2, LeaveKeeps DEF FinishSuccess, InRun
  <2>3. CASE r # Scheduler
    BY <1>2, <2>1, <2>3, LeaveKeeps DEF FinishSuccess, InRun
  <2> QED
    BY <2>2, <2>3
<1>3. CASE FinishError(r)
  <2>1. syncState' \in {"idle", "running", "error"}
    BY <1>1, <1>3 DEF FinishError, Report
  <2>2. CASE r = Scheduler
    BY <1>3, <2>1, <2>2, LeaveKeeps DEF FinishError, InRun
  <2>3. CASE r # Scheduler
    BY <1>3, <2>1, <2>3, LeaveKeeps DEF FinishError, InRun
  <2> QED
    BY <2>2, <2>3
<1> QED
  BY <1>2, <1>3 DEF Finish

\* The loop of the scheduler.
LEMMA SchedulerIInv ==
    ASSUME IInv, Tick \/ Cleanup \/ LoopEnds
    PROVE  IInv'
<1> USE DEF Runner
<1>1. CASE Tick
  BY <1>1, TryStartKeeps DEF Tick, InRun
<1>2. CASE Cleanup
  <2>1. CASE run[Scheduler].pc = "cleaning" /\ Go(Scheduler, "succeeded")
    <3>1. synced = Project
      BY <2>1 DEF IInv, RunsOK, DoneOK
    <3> QED
      BY <1>2, <2>1, <3>1, StayKeeps DEF Cleanup, InRun, disk, IInv, TypeOK
  <2>2. CASE run[Scheduler].pc = "tidying" /\ Go(Scheduler, "waiting")
    BY <1>2, <2>2, LeaveKeeps DEF Cleanup, disk, IInv, TypeOK
  <2> QED
    BY <1>2, <2>1, <2>2 DEF Cleanup
<1>3. CASE LoopEnds
  BY <1>3, LeaveKeeps DEF LoopEnds, disk, IInv, TypeOK
<1> QED
  BY <1>1, <1>2, <1>3

\* The steps of the process that leave its runs alone.
LEMMA ProcessIInv ==
    ASSUME IInv, UNCHANGED <<disk, run, lock, synced>>,
           process' \in {"up", "down"}, listening' \in BOOLEAN,
           serving' \subseteq Request, cancelled' \in BOOLEAN,
           coord' \in {"listening", "draining", "stopping", "success", "timeout"}
    PROVE  IInv'
BY DEF IInv, TypeOK, OneRun, FlagSet, LockHeld, RunsOK, RunListOK, DoneOK, InRun, disk

\* Starting and dying: no runner is in a run afterwards.
LEMMA RestartIInv ==
    ASSUME IInv, Dies \/ Boot
    PROVE  IInv'
<1> USE DEF IInv
<1>1. Idle \in Run /\ Idle.pc = "idle"
  BY RunsAssumption DEF Idle, Run, Unlisted, Strategy
<1>2. [Idle EXCEPT !.pc = "waiting"] \in Run /\ [Idle EXCEPT !.pc = "waiting"].pc = "waiting"
  BY GoType
<1>3. /\ run' \in [Runner -> Run]
      /\ \A r \in Runner : run'[r].pc \in {"idle", "waiting"}
      /\ \A m \in Manual : run'[m].pc = "idle"
  BY <1>1, <1>2, RunsAssumption DEF Dies, Boot, Started, Runner
<1>4. lock' = Nobody
  BY DEF Dies, Boot
<1>5. TypeOK'
  BY <1>3, <1>4 DEF TypeOK, Dies, Boot, disk
<1>6. OneRun' /\ FlagSet' /\ RunsOK'
  BY <1>3 DEF OneRun, FlagSet, RunsOK, InRun, RunListOK, DoneOK
<1>7. LockHeld'
  BY <1>3, <1>4, RunsAssumption DEF LockHeld
<1> QED
  BY <1>5, <1>6, <1>7

-----------------------------------------------------------------------------
\* Every step preserves the invariant.
LEMMA NextIInv ==
    ASSUME IInv, [Next]_vars
    PROVE  IInv'
<1> USE DEF server
<1>0. TypeOK
  BY DEF IInv
<1>1. CASE Tick \/ Cleanup \/ LoopEnds
  BY <1>1, SchedulerIInv
<1>2. ASSUME NEW m \in Manual, ManualSync(m) PROVE IInv'
  BY <1>2, TryStartKeeps DEF ManualSync, InRun, Runner
<1>3. ASSUME NEW r \in Runner, Engine(r) \/ Finish(r) PROVE IInv'
  BY <1>3, EngineIInv, FinishIInv
<1>4. ASSUME NEW q \in Request, RequestArrives(q) \/ RequestEnds(q) PROVE IInv'
  BY <1>0, <1>4, ProcessIInv DEF RequestArrives, RequestEnds, TypeOK
<1>5. CASE Crash \/ Boot \/ MainReturns
  BY <1>5, RestartIInv DEF Crash, MainReturns
<1>6. CASE Signal \/ CancelLifecycle
  BY <1>0, <1>6, ProcessIInv DEF Signal, CancelLifecycle, TypeOK
<1>7. CASE Drained \/ Stopped \/ TimedOut
  BY <1>0, <1>7, ProcessIInv DEF Drained, Stopped, TimedOut, Coordinate, TypeOK
<1>8. CASE UNCHANGED vars
  BY <1>0, <1>8, ProcessIInv DEF vars, memory, TypeOK
<1> QED
  BY <1>1, <1>2, <1>3, <1>4, <1>5, <1>6, <1>7, <1>8 DEF Next

\* The invariant holds in every reachable state.
THEOREM RunsInvariant == Spec => []IInv
<1>1. Init => IInv
  BY InitIInv
<1>2. IInv /\ [Next]_vars => IInv'
  BY NextIInv
<1> QED
  BY <1>1, <1>2, PTL DEF Spec

\* The variables have their types, and no manual sync does what only the loop
\* of the scheduler does.
THEOREM RunsTypeCorrect == Spec => []TypeOK
<1>1. IInv => TypeOK
  BY DEF IInv
<1> QED
  BY <1>1, RunsInvariant, PTL

\* Whoever has claimed the flag in the database finds the engine free
\* (TryStartManualSync, Engine.Run), whatever has failed, crashed or been shut
\* down before.
THEOREM NoRunRefused == Spec => []EngineNeverRefuses
<1>1. IInv => EngineNeverRefuses
  <2> SUFFICES ASSUME IInv, NEW r \in Runner, run[r].pc = "claimed"
               PROVE  lock = Nobody
    BY DEF EngineNeverRefuses
  <2>1. lock \in Runner \cup {Nobody}
    BY DEF IInv, TypeOK
  <2>2. lock \in Runner => run[lock].pc = "syncing"
    BY DEF IInv, LockHeld
  <2>3. lock \in Runner => lock = r
    BY <2>2 DEF IInv, OneRun, InRun
  <2> QED
    BY <2>1, <2>2, <2>3
<1> QED
  BY <1>1, RunsInvariant, PTL

\* The steps that leave the flag or the strategies alone.
LEMMA OtherSteps ==
    ASSUME IInv, [Next]_vars
    PROVE  /\ \/ UNCHANGED syncState
              \/ syncState' = "running"
              \/ \E r \in Runner : FinishSuccess(r) \/ FinishError(r)
           /\ \/ UNCHANGED strategy
              \/ \E r \in Runner : SyncProject(r) \/ SyncFails(r)
<1> USE DEF disk
<1>1. CASE Tick \/ Cleanup \/ LoopEnds
  BY <1>1 DEF Tick, TryStart, Cleanup, LoopEnds
<1>2. ASSUME NEW m \in Manual, ManualSync(m)
      PROVE  UNCHANGED strategy /\ syncState' = "running"
  BY <1>2 DEF ManualSync, TryStart
<1>3. ASSUME NEW r \in Runner, Engine(r)
      PROVE  /\ UNCHANGED syncState
             /\ UNCHANGED strategy \/ SyncProject(r) \/ SyncFails(r)
  BY <1>3 DEF Engine, EngineStart, EngineRefused, FallBack, SyncProject,
              SyncFails, EngineEnds
<1>4. ASSUME NEW r \in Runner, Finish(r)
      PROVE  UNCHANGED strategy /\ (FinishSuccess(r) \/ FinishError(r))
  BY <1>4 DEF Finish, FinishSuccess, FinishError
<1>5. ASSUME NEW q \in Request, RequestArrives(q) \/ RequestEnds(q)
      PROVE  UNCHANGED disk
  BY <1>5 DEF RequestArrives, RequestEnds
<1>6. CASE Crash \/ Boot \/ Signal \/ CancelLifecycle \/ MainReturns
  BY <1>6 DEF Crash, Boot, Signal, CancelLifecycle, MainReturns, Dies
<1>7. CASE Drained \/ Stopped \/ TimedOut
  BY <1>7 DEF Drained, Stopped, TimedOut, Coordinate
<1>8. CASE UNCHANGED vars
  BY <1>8 DEF vars
<1> QED
  BY <1>1, <1>2, <1>3, <1>4, <1>5, <1>6, <1>7, <1>8 DEF Next

\* Success is reported (FinishManualSyncSuccess) only when the run has synced
\* every project.
THEOREM SuccessComplete == Spec => SuccessIsComplete
<1>1. ASSUME IInv, [Next]_vars, syncState = "running", syncState' = "idle"
      PROVE  synced = Project
  <2>1. PICK r \in Runner : FinishSuccess(r) \/ FinishError(r)
    BY <1>1, OtherSteps
  <2>2. FinishSuccess(r)
    BY <1>1, <2>1 DEF FinishError, Report
  <2> QED
    BY <1>1, <2>2 DEF FinishSuccess, IInv, RunsOK, DoneOK
<1>2. IInv /\ [Next]_vars
        => [syncState = "running" /\ syncState' = "idle" => synced = Project]_vars
  BY <1>1
<1> QED
  BY <1>2, RunsInvariant, PTL DEF Spec, SuccessIsComplete

\* No run, however old the list of strategies it works on, moves a project up
\* to a strategy that it has fallen back from (Engine.runProject).
THEOREM StrategiesDegrade == Spec => StrategyOnlyDegrades
<1>1. ASSUME IInv, [Next]_vars, NEW p \in Project
      PROVE  Rank[strategy'[p]] >= Rank[strategy[p]]
  <2>1. /\ strategy \in [Project -> Strategy]
        /\ run \in [Runner -> Run]
    BY <1>1 DEF IInv, TypeOK
  <2>2. Rank[strategy[p]] \in Nat
    BY <1>1, <2>1, RankFacts
  <2>3. CASE UNCHANGED strategy
    BY <2>2, <2>3
  <2>4. ASSUME NEW r \in Runner, SyncProject(r) \/ SyncFails(r)
        PROVE  Rank[strategy'[p]] >= Rank[strategy[p]]
    <3>1. run[r].at \in Project =>
              Rank[run[r].strategy] >= Rank[strategy[run[r].at]]
      BY <1>1, <2>4 DEF SyncProject, SyncFails, IInv, RunsOK, RunListOK
    <3>2. CASE SyncProject(r)
      <4>1. strategy' = [strategy EXCEPT ![run[r].at] = run[r].strategy]
        BY <3>2 DEF SyncProject
      <4>2. CASE p = run[r].at
        BY <1>1, <2>1, <3>1, <4>1, <4>2
      <4>3. CASE p # run[r].at
        BY <1>1, <2>1, <2>2, <4>1, <4>3
      <4> QED
        BY <4>2, <4>3
    <3>3. CASE SyncFails(r) /\ ~UNCHANGED strategy
      <4>1. /\ strategy' = [strategy EXCEPT ![run[r].at] = "ctag"]
            /\ run[r].strategy = "ctag"
        BY <3>3 DEF SyncFails
      <4>2. CASE p = run[r].at
        BY <1>1, <2>1, <3>1, <4>1, <4>2
      <4>3. CASE p # run[r].at
        BY <1>1, <2>1, <2>2, <4>1, <4>3
      <4> QED
        BY <4>2, <4>3
    <3> QED
      BY <2>3, <2>4, <3>2, <3>3
  <2> QED
    BY <1>1, <2>3, <2>4, OtherSteps
<1>2. IInv /\ [Next]_vars
        => [\A p \in Project : Rank[strategy'[p]] >= Rank[strategy[p]]]_vars
  BY <1>1
<1> QED
  BY <1>2, RunsInvariant, PTL DEF Spec, StrategyOnlyDegrades

-----------------------------------------------------------------------------
(***************************************************************************)
(* IncrementalSync.  The invariant's heart is Known: what the token or the *)
(* ctag covers, the rows know.  It is kept because, while an answer is     *)
(* gathered, what it says of each object is what the server did, or the    *)
(* object has changed again and is going to be reported by the next run    *)
(* (Gathering, ListOK).  An answer of the server to the user's own request *)
(* is older than anything a run has read after it (MarkIsNews), or an      *)
(* answer has been applied in between, which raced remembers.              *)
(***************************************************************************)

\* The only row at an href, if there is one.
RowsOK ==
    /\ \A n \in DOMAIN rows : /\ rows[n].uid = HomeUID[rows[n].href]
                              /\ rows[n].etag <= srv.revision
    /\ \A m, n \in Live : rows[m].href = rows[n].href => m = n

ServerOK ==
    \A h \in Href :
        /\ Exists(srv, h) => /\ srv.objects[h].uid = HomeUID[h]
                             /\ srv.objects[h].etag \in 1 .. srv.revision
                             /\ srv.deleted[h] = 0
        /\ srv.deleted[h] <= srv.revision

ProjectOK ==
    /\ project.token <= srv.revision
    /\ project.ctag <= srv.revision
    /\ project.strategy = "webdav_sync" => project.ctag = 0

UserOK ==
    user.pc # "idle" =>
        /\ user.row \in Task
        /\ user.n \in DOMAIN rows
        /\ rows[user.n].href = user.row.href
        /\ user.row.uid = HomeUID[user.row.href]
        /\ user.base # NoText
        /\ user.etag <= srv.revision
        /\ user.pc \in {"put", "get"} => user.op \in {"edit", "create"}
        /\ user.pc = "delete" => user.op = "remove"
        /\ user.pc = "mark" => user.result # "none"
        /\ user.pc = "mark" /\ user.result = "ok" /\ user.op # "remove"
             => LastChange(user.row.href) > 0

\* A row in state synced is about an object that is or was there.
SyncedKnown ==
    \A n \in Live : rows[n].status = "synced" => LastChange(rows[n].href) > 0

All == Baseline \/ runner.strategy = "fullscan"

RunOK ==
    /\ runner.pc # "idle" =>
         /\ runner.strategy = "webdav_sync" => project.strategy = "webdav_sync"
         /\ runner.strategy = "ctag" => project.strategy # "fullscan"
    /\ runner.pc = "persist" => runner.strategy \in {project.strategy, "fullscan"}
    /\ runner.pc \in {"states", "list"} => /\ runner.strategy = "ctag"
                                          /\ DOMAIN runner.report = {}
    /\ runner.pc = "fetch" => runner.strategy # "fullscan"
    /\ runner.meta <= srv.revision
    /\ runner.pc = "fetch" /\ runner.strategy = "webdav_sync" => runner.fetch \subseteq DOMAIN runner.report
    /\ runner.gone \cap (DOMAIN runner.report \cup runner.fetch) = {}
    /\ runner.pc = "apply" => runner.fetch = {}
    /\ \A h \in DOMAIN runner.report : /\ runner.report[h].uid = HomeUID[h]
                                       /\ runner.report[h].etag \in 1 .. srv.revision
                                       /\ LastChange(h) > 0

-----------------------------------------------------------------------------
\* The user has changed h on the server, and will mark its row.
Marking(h) ==
    /\ user.pc = "mark" /\ user.result = "ok" /\ user.row.href = h
    /\ user.n \in Live
    /\ user.op # "remove" \/ Exists(srv, h)

Good(h) == Reflected(h) /\ ~Marking(h)

\* h has not changed since bound, and no answer has been applied between a
\* request of the user and its mark.
Settled(h, bound) == raced[h] < LastChange(h) /\ LastChange(h) <= bound

Known == \A h \in Href : Settled(h, Covered) => Good(h)

MarkIsNews == \A h \in Href : Marking(h) /\ raced[h] < LastChange(h)
                  => rows[user.n].etag < LastChange(h)

\* ctag
ListOK ==
    runner.pc = "list" =>
        \A h \in Href : Settled(h, runner.meta) =>
            /\ Exists(srv, h) /\ h \in DOMAIN runner.states
               /\ runner.states[h] = srv.objects[h].etag => Good(h)
            /\ ~Exists(srv, h) /\ h \notin DOMAIN runner.states => Good(h)

Bound == IF runner.strategy = "fullscan" THEN Covered ELSE runner.meta

Mentioned == DOMAIN runner.report \cup runner.fetch

\* What the answer says of h is what the server did, and what the answer does
\* not mention, the rows know.
AnswerOK(h) ==
    /\ Exists(srv, h) =>
          /\ h \notin runner.gone
          /\ All => h \in Mentioned
          /\ h \in DOMAIN runner.report => runner.report[h].etag = srv.objects[h].etag
    /\ ~Exists(srv, h) => h \notin Mentioned
    /\ ~All /\ h \notin Mentioned \cup runner.gone => Good(h)

Gathering == runner.pc \in {"fetch", "apply"} =>
                 \A h \in Href : Settled(h, Bound) => AnswerOK(h)

SyncInv == /\ SyncTypeOK /\ RowsOK /\ ServerOK /\ ProjectOK /\ UserOK
           /\ SyncedKnown /\ RunOK /\ Known /\ MarkIsNews /\ ListOK /\ Gathering

-----------------------------------------------------------------------------
(* The server.                                                             *)

\* What another client or the user stores is the newest change.
LEMMA StoredChanges ==
    ASSUME SyncTypeOK, ServerOK, NEW h \in Href, NEW vtodo \in Content,
           srv' = Stored(srv, h, HomeUID[h], vtodo)
    PROVE  /\ srv' \in ServerState /\ ServerOK'
           /\ srv'.revision = srv.revision + 1
           /\ srv'.objects[h].etag = srv.revision + 1
           /\ Exists(srv', h) /\ LastChange(h)' = srv.revision + 1
           /\ \A g \in Href \ {h} : /\ srv'.objects[g] = srv.objects[g]
                                    /\ srv'.deleted[g] = srv.deleted[g]
<1> DEFINE object == [uid |-> HomeUID[h], vtodo |-> vtodo, etag |-> srv.revision + 1]
<1>1. srv \in ServerState /\ srv.revision \in Nat
  BY DEF SyncTypeOK, ServerState
<1>2. object \in Object /\ object # NoObject
  BY <1>1, IncrementalAssumption, ServerAssumption DEF Object
<1>3. /\ srv' \in ServerState
      /\ srv'.revision = srv.revision + 1
      /\ srv'.objects[h] = object /\ srv'.deleted[h] = 0
      /\ \A g \in Href \ {h} : /\ srv'.objects[g] = srv.objects[g]
                               /\ srv'.deleted[g] = srv.deleted[g]
  <2>1. srv' = [calendars |-> srv.calendars,
                objects |-> [srv.objects EXCEPT ![h] = object],
                deleted |-> [srv.deleted EXCEPT ![h] = 0],
                revision |-> srv.revision + 1]
    BY <1>1 DEF Stored, ServerState
  <2>2. /\ srv.calendars \in SUBSET Calendar
        /\ srv.objects \in [Href -> Object \cup {NoObject}]
        /\ srv.deleted \in [Href -> Nat]
    BY <1>1 DEF ServerState
  <2> HIDE DEF object
  <2> QED
    BY <1>1, <1>2, <2>1, <2>2 DEF ServerState
<1>4. \A g \in Href : srv'.deleted[g] \in Nat /\ srv.deleted[g] \in Nat
  BY <1>1, <1>3 DEF ServerState
<1>5. \A g \in Href : Exists(srv, g) => srv.objects[g].etag \in Nat
  BY <1>1 DEF ServerState, Exists, Object
<1>6. ServerOK'
  BY <1>1, <1>2, <1>3, <1>4, <1>5 DEF ServerOK, Exists
<1> QED
  BY <1>2, <1>3, <1>6 DEF LastChange, Exists

\* An object that goes, too.
LEMMA DroppedChanges ==
    ASSUME SyncTypeOK, ServerOK, NEW h \in Href, srv' = Dropped(srv, h)
    PROVE  /\ srv' \in ServerState /\ ServerOK'
           /\ srv'.revision = srv.revision + 1
           /\ ~Exists(srv', h) /\ LastChange(h)' = srv.revision + 1
           /\ \A g \in Href \ {h} : /\ srv'.objects[g] = srv.objects[g]
                                    /\ srv'.deleted[g] = srv.deleted[g]
<1>1. srv \in ServerState /\ srv.revision \in Nat
  BY DEF SyncTypeOK, ServerState
<1>2. /\ srv' \in ServerState
      /\ srv'.revision = srv.revision + 1
      /\ srv'.objects[h] = NoObject /\ srv'.deleted[h] = srv.revision + 1
      /\ \A g \in Href \ {h} : /\ srv'.objects[g] = srv.objects[g]
                               /\ srv'.deleted[g] = srv.deleted[g]
  <2>1. srv' = [calendars |-> srv.calendars,
                objects |-> [srv.objects EXCEPT ![h] = NoObject],
                deleted |-> [srv.deleted EXCEPT ![h] = srv.revision + 1],
                revision |-> srv.revision + 1]
    BY <1>1 DEF Dropped, ServerState
  <2>2. /\ srv.calendars \in SUBSET Calendar
        /\ srv.objects \in [Href -> Object \cup {NoObject}]
        /\ srv.deleted \in [Href -> Nat]
    BY <1>1 DEF ServerState
  <2> QED
    BY <1>1, <2>1, <2>2 DEF ServerState
<1>3. \A g \in Href : srv'.deleted[g] \in Nat /\ srv.deleted[g] \in Nat
  BY <1>1, <1>2 DEF ServerState
<1>4. \A g \in Href : Exists(srv, g) => srv.objects[g].etag \in Nat
  BY <1>1 DEF ServerState, Exists, Object
<1>5. ServerOK'
  BY <1>1, <1>2, <1>3, <1>4 DEF ServerOK, Exists
<1> QED
  BY <1>2, <1>5 DEF LastChange, Exists

\* Changes are numbered, and none is later than the last.
LEMMA ChangeType ==
    ASSUME SyncTypeOK, ServerOK, NEW h \in Href
    PROVE  /\ LastChange(h) \in Nat /\ LastChange(h) <= srv.revision
           /\ srv.revision \in Nat
           /\ Exists(srv, h) => LastChange(h) > 0 /\ srv.objects[h] \in Object
<1>1. srv \in ServerState
  BY DEF SyncTypeOK
<1>2. srv.deleted[h] \in Nat /\ srv.revision \in Nat
  BY <1>1 DEF ServerState
<1>3. Exists(srv, h) => srv.objects[h] \in Object
  BY <1>1 DEF ServerState, Exists
<1> QED
  BY <1>2, <1>3 DEF LastChange, ServerOK, Object

-----------------------------------------------------------------------------
(* The rows.                                                               *)

\* A row's fields, by their types.
LEMMA RowTask ==
    ASSUME SyncTypeOK, NEW n \in DOMAIN rows
    PROVE  /\ rows[n] \in Task
           /\ n \in Nat /\ n \in 1 .. Len(rows)
           /\ rows[n].href \in Href /\ rows[n].uid \in UID
           /\ rows[n].ver \in Nat /\ rows[n].etag \in Nat
           /\ rows[n].raw \in Content /\ rows[n].base \in Content
           /\ rows[n].status \in SyncStatus
<1>1. rows \in Seq(Task)
  BY DEF SyncTypeOK
<1>2. DOMAIN rows = 1 .. Len(rows) /\ Len(rows) \in Nat
  BY <1>1, LenProperties
<1>3. rows[n] \in Task /\ n \in Nat /\ n \in 1 .. Len(rows)
  BY <1>1, <1>2, ElementOfSeq
<1> QED
  BY <1>3 DEF Task

-----------------------------------------------------------------------------
(* Steps outside the run: user and other clients.                          *)

\* Nothing happens at h that the server is not going to report, and the user
\* does not take back what the row knows.
HrefStep(h) ==
    \/ LastChange(h)' > srv.revision /\ rows' = rows
    \/ /\ srv'.objects[h] = srv.objects[h] /\ srv'.deleted[h] = srv.deleted[h]
       /\ Good(h) => Reflected(h)'
       /\ Marking(h)' => /\ Marking(h) /\ user'.n = user.n
                         /\ rows'[user.n].etag = rows[user.n].etag

Outside == /\ srv.revision <= srv'.revision
           /\ UNCHANGED <<project, runner, raced>>
           /\ \A h \in Href : HrefStep(h)

\* What is settled before and after an outside step has not been touched.
LEMMA SettledStays ==
    ASSUME SyncInv, Outside, SyncTypeOK', ServerOK', NEW h \in Href,
           NEW bound, bound <= srv.revision, bound \in Nat
    PROVE  /\ LastChange(h) <= LastChange(h)'
           /\ Settled(h, bound)' =>
                 /\ Settled(h, bound)
                 /\ srv'.objects[h] = srv.objects[h]
                 /\ Good(h) => Good(h)'
<1>1. LastChange(h) \in Nat /\ LastChange(h) <= srv.revision /\ srv.revision \in Nat
  BY ChangeType DEF SyncInv
<1>2. LastChange(h)' \in Nat
  BY ChangeType DEF SyncInv, SyncTypeOK, ServerState, LastChange, Exists, Object
<1>3. HrefStep(h) /\ raced' = raced
  BY DEF Outside
<1>4. CASE LastChange(h)' > srv.revision
  BY <1>1, <1>2, <1>4 DEF Settled
<1>5. CASE /\ srv'.objects[h] = srv.objects[h] /\ srv'.deleted[h] = srv.deleted[h]
           /\ Good(h) => Reflected(h)'
           /\ Marking(h)' => Marking(h)
  <2>1. LastChange(h)' = LastChange(h)
    BY <1>5 DEF LastChange, Exists
  <2>2. Good(h) => Good(h)'
    BY <1>5 DEF Good
  <2> QED
    BY <1>1, <1>3, <1>5, <2>1, <2>2 DEF Settled
<1> QED
  BY <1>3, <1>4, <1>5 DEF HrefStep

\* What the invariant says of the run and of what rows know survives.
LEMMA OutsideKeeps ==
    ASSUME SyncInv, Outside, SyncTypeOK', ServerOK'
    PROVE  ProjectOK' /\ RunOK' /\ Known' /\ MarkIsNews' /\ ListOK' /\ Gathering'
<1>1. /\ project' = project /\ runner' = runner /\ raced' = raced
      /\ srv.revision <= srv'.revision
      /\ \A h \in Href : HrefStep(h)
  BY DEF Outside
<1>2. srv.revision \in Nat /\ srv'.revision \in Nat
  BY DEF SyncInv, SyncTypeOK, ServerState
<1>3. project.token \in Nat /\ project.ctag \in Nat /\ runner.meta \in Nat
  BY DEF SyncInv, SyncTypeOK, ProjectColumns, RunState
<1>4. Covered \in Nat /\ Covered <= srv.revision /\ Covered' = Covered
  BY <1>1, <1>2, <1>3 DEF SyncInv, ProjectOK, Covered, SyncTypeOK, ProjectColumns, Strategy
<1>5. Bound \in Nat /\ Bound <= srv.revision /\ Bound' = Bound
  BY <1>1, <1>3, <1>4 DEF Bound, SyncInv, RunOK
<1>6. ProjectOK'
  BY <1>1, <1>2, <1>3 DEF SyncInv, ProjectOK
<1>7. RunOK'
  <2>1. \A h \in Href : LastChange(h) \in Nat /\ LastChange(h)' \in Nat
                        /\ LastChange(h) <= LastChange(h)'
    <3>1. \A h \in Href : LastChange(h) <= LastChange(h)'
      BY <1>3, SettledStays, <1>2, SyncInv DEF SyncInv, RunOK
    <3> QED
      BY <3>1, ChangeType DEF SyncInv, SyncTypeOK, ServerState, LastChange, Exists, Object
  <2>2. DOMAIN runner.report \subseteq Href
        /\ \A h \in DOMAIN runner.report : runner.report[h].etag \in Nat
    BY DEF SyncInv, SyncTypeOK, RunState, Object
  <2> QED
    BY <1>1, <1>2, <1>3, <2>1, <2>2 DEF SyncInv, RunOK
<1>8. Known'
  BY <1>4, SettledStays DEF SyncInv, Known
<1>9. MarkIsNews'
  <2> SUFFICES ASSUME NEW h \in Href, Marking(h)', raced'[h] < LastChange(h)'
               PROVE  rows'[user'.n].etag < LastChange(h)'
    BY DEF MarkIsNews
  <2>1. CASE LastChange(h)' > srv.revision /\ rows' = rows
    <3>1. user'.n \in DOMAIN rows
      BY <2>1 DEF Marking, Live
    <3>2. rows[user'.n].etag <= srv.revision /\ rows[user'.n].etag \in Nat
      BY <3>1, RowTask DEF SyncInv, RowsOK
    <3>3. LastChange(h)' \in Nat
      BY ChangeType DEF SyncInv, SyncTypeOK, ServerState, LastChange, Exists, Object
    <3> QED
      BY <1>2, <2>1, <3>2, <3>3
  <2>2. CASE /\ srv'.objects[h] = srv.objects[h] /\ srv'.deleted[h] = srv.deleted[h]
             /\ Marking(h)' => /\ Marking(h) /\ user'.n = user.n
                               /\ rows'[user.n].etag = rows[user.n].etag
    <3>1. LastChange(h)' = LastChange(h)
      BY <2>2 DEF LastChange, Exists
    <3> QED
      BY <1>1, <2>2, <3>1 DEF SyncInv, MarkIsNews
  <2> QED
    BY <1>1, <2>1, <2>2 DEF HrefStep
<1>10. ListOK'
  <2> SUFFICES ASSUME NEW h \in Href, runner.pc = "list", Settled(h, runner.meta)'
               PROVE  /\ Exists(srv', h) /\ h \in DOMAIN runner.states
                         /\ runner.states[h] = srv'.objects[h].etag => Good(h)'
                      /\ ~Exists(srv', h) /\ h \notin DOMAIN runner.states => Good(h)'
    BY <1>1 DEF ListOK
  <2>1. /\ Settled(h, runner.meta) /\ srv'.objects[h] = srv.objects[h]
        /\ Good(h) => Good(h)'
    BY <1>1, <1>3, SettledStays DEF SyncInv, RunOK, Settled
  <2> QED
    BY <2>1 DEF SyncInv, ListOK, Exists
<1>11. Gathering'
  <2> SUFFICES ASSUME NEW h \in Href, runner.pc \in {"fetch", "apply"},
                      Settled(h, Bound)'
               PROVE  AnswerOK(h)'
    BY <1>1 DEF Gathering
  <2>1. /\ Settled(h, Bound) /\ srv'.objects[h] = srv.objects[h]
        /\ Good(h) => Good(h)'
    BY <1>1, <1>5, SettledStays DEF Settled
  <2>2. AnswerOK(h)
    BY <2>1 DEF SyncInv, Gathering
  <2> QED
    BY <1>1, <2>1, <2>2 DEF AnswerOK, Exists, All, Baseline, Mentioned
<1> QED
  BY <1>6, <1>7, <1>8, <1>9, <1>10, <1>11

OutsideOK == SyncTypeOK' /\ RowsOK' /\ ServerOK' /\ UserOK' /\ SyncedKnown' /\ Outside

\* The same for the whole invariant.
LEMMA OutsideInv == ASSUME SyncInv, OutsideOK PROVE SyncInv'
BY OutsideKeeps DEF SyncInv, OutsideOK

\* Rows that nobody writes stay as the invariant wants them.
LEMMA SameRowsKeep ==
    ASSUME SyncInv, Outside, rows' = rows, conflicts' = conflicts,
           srv' \in ServerState, ServerOK'
    PROVE  /\ RowsOK' /\ SyncedKnown'
           /\ \A h \in Href : LastChange(h) <= LastChange(h)'
<1>1. \A h \in Href : /\ LastChange(h) \in Nat /\ LastChange(h)' \in Nat
                      /\ LastChange(h) <= LastChange(h)'
  <2> TAKE h \in Href
  <2>1. LastChange(h) \in Nat /\ LastChange(h) <= srv.revision /\ srv.revision \in Nat
    BY ChangeType DEF SyncInv
  <2>2. LastChange(h)' \in Nat
    BY DEF ServerState, LastChange, Exists, Object
  <2>3. LastChange(h)' = LastChange(h) \/ LastChange(h)' > srv.revision
    BY DEF Outside, HrefStep, LastChange, Exists
  <2> QED
    BY <2>1, <2>2, <2>3
<1>2. \A n \in DOMAIN rows : rows[n].etag \in Nat /\ rows[n].href \in Href
  BY RowTask DEF SyncInv
<1>3. srv.revision \in Nat /\ srv'.revision \in Nat /\ srv.revision <= srv'.revision
  BY DEF SyncInv, SyncTypeOK, ServerState, Outside
<1>4. RowsOK'
  BY <1>2, <1>3 DEF SyncInv, RowsOK, Live
<1>5. SyncedKnown'
  BY <1>1, <1>2 DEF SyncInv, SyncedKnown, Live
<1> QED
  BY <1>1, <1>4, <1>5

\* Nor does a request of the user notice what others do.
LEMMA SameRowsKeepUser ==
    ASSUME SyncInv, Outside, rows' = rows, user' = user,
           srv' \in ServerState, ServerOK',
           \A h \in Href : LastChange(h) <= LastChange(h)'
    PROVE  UserOK'
<1>1. CASE user.pc = "idle"
  BY <1>1 DEF UserOK
<1>2. CASE user.pc # "idle"
  <2>1. user.etag \in Nat /\ srv.revision \in Nat /\ srv'.revision \in Nat
        /\ srv.revision <= srv'.revision
    BY DEF SyncInv, SyncTypeOK, UserState, ServerState, Outside
  <2>2. user.row.href \in Href
    BY <1>2 DEF SyncInv, UserOK, Task
  <2>3. /\ LastChange(user.row.href) \in Nat /\ LastChange(user.row.href)' \in Nat
        /\ LastChange(user.row.href) <= LastChange(user.row.href)'
    <3>1. \A h \in Href : LastChange(h) \in Nat
      BY ChangeType DEF SyncInv
    <3>2. \A h \in Href : LastChange(h)' \in Nat
      BY DEF ServerState, LastChange, Exists, Object
    <3> QED
      BY <2>2, <3>1, <3>2
  <2> QED
    BY <1>2, <2>1, <2>3 DEF SyncInv, UserOK
<1> QED
  BY <1>1, <1>2

\* Another client stores an object: a UID never comes back at another href.
LEMMA OtherWritesKeeps ==
    ASSUME SyncInv, "move" \notin Events, OtherWrites PROVE SyncInv'
<1>1. PICK h \in Href, vtodo \in Content :
         srv' = Stored(srv, h, HomeUID[h], vtodo)
  BY DEF OtherWrites, UIDsFor, SyncInv, ServerOK
<1>2. UNCHANGED <<rows, conflicts, project, runner, user, requests, raced>>
  BY DEF OtherWrites
<1>3. /\ srv' \in ServerState /\ ServerOK'
      /\ srv'.revision = srv.revision + 1
      /\ LastChange(h)' = srv.revision + 1
      /\ \A g \in Href \ {h} : /\ srv'.objects[g] = srv.objects[g]
                               /\ srv'.deleted[g] = srv.deleted[g]
  BY <1>1, StoredChanges DEF SyncInv
<1>4. srv.revision \in Nat
  BY DEF SyncInv, SyncTypeOK, ServerState
<1>5. Outside
  <2>1. ASSUME NEW g \in Href \ {h} PROVE HrefStep(g)
    BY <1>2, <1>3, <2>1 DEF HrefStep, Good, Reflected, Marking, Live, Exists
  <2>2. HrefStep(h)
    BY <1>2, <1>3, <1>4 DEF HrefStep
  <2> QED
    BY <1>2, <1>3, <1>4, <2>1, <2>2 DEF Outside
<1>6. RowsOK' /\ SyncedKnown' /\ \A g \in Href : LastChange(g) <= LastChange(g)'
  BY <1>2, <1>3, <1>5, SameRowsKeep
<1>7. SyncTypeOK'
  BY <1>2, <1>3 DEF SyncInv, SyncTypeOK
<1>8. UserOK'
  BY <1>2, <1>3, <1>5, <1>6, SameRowsKeepUser
<1> QED
  BY <1>3, <1>5, <1>6, <1>7, <1>8, OutsideInv DEF OutsideOK

\* Another client deletes one.
LEMMA OtherDeletesKeeps == ASSUME SyncInv, OtherDeletes PROVE SyncInv'
<1>1. PICK h \in Href : srv' = Dropped(srv, h)
  BY DEF OtherDeletes
<1>2. UNCHANGED <<rows, conflicts, project, runner, user, requests, raced>>
  BY DEF OtherDeletes
<1>3. /\ srv' \in ServerState /\ ServerOK'
      /\ srv'.revision = srv.revision + 1
      /\ LastChange(h)' = srv.revision + 1
      /\ \A g \in Href \ {h} : /\ srv'.objects[g] = srv.objects[g]
                               /\ srv'.deleted[g] = srv.deleted[g]
  BY <1>1, DroppedChanges DEF SyncInv
<1>4. srv.revision \in Nat
  BY DEF SyncInv, SyncTypeOK, ServerState
<1>5. Outside
  <2>1. ASSUME NEW g \in Href \ {h} PROVE HrefStep(g)
    BY <1>2, <1>3, <2>1 DEF HrefStep, Good, Reflected, Marking, Live, Exists
  <2>2. HrefStep(h)
    BY <1>2, <1>3, <1>4 DEF HrefStep
  <2> QED
    BY <1>2, <1>3, <1>4, <2>1, <2>2 DEF Outside
<1>6. RowsOK' /\ SyncedKnown' /\ \A g \in Href : LastChange(g) <= LastChange(g)'
  BY <1>2, <1>3, <1>5, SameRowsKeep
<1>7. SyncTypeOK'
  BY <1>2, <1>3 DEF SyncInv, SyncTypeOK
<1>8. UserOK'
  BY <1>2, <1>3, <1>5, <1>6, SameRowsKeepUser
<1> QED
  BY <1>3, <1>5, <1>6, <1>7, <1>8, OutsideInv DEF OutsideOK

\* What a handler knows of its row.
LEMMA UserRow ==
    ASSUME SyncInv, user.pc # "idle"
    PROVE  /\ user.row \in Task /\ user.row.href \in Href
           /\ user.row.uid = HomeUID[user.row.href]
           /\ user.row.raw \in Content /\ user.row.etag \in Nat
           /\ user.n \in DOMAIN rows /\ rows[user.n].href = user.row.href
           /\ user.pc \in {"put", "get"} => user.op \in {"edit", "create"}
           /\ user.pc = "delete" => user.op = "remove"
           /\ user \in UserState
BY DEF SyncInv, UserOK, SyncTypeOK, Task

ChangeIn(s, h) == IF Exists(s, h) THEN s.objects[h].etag ELSE s.deleted[h]

\* A handler gets an answer of the server.
LEMMA AnswerKeeps ==
    ASSUME SyncInv, user.pc # "idle",
           NEW pc \in {"get", "mark"}, NEW result \in {"none", "ok", "conflict", "fail"},
           NEW remote \in Text, NEW etag \in Nat, NEW h, h = user.row.href,
           user' = [user EXCEPT !.pc = pc, !.result = result, !.remote = remote,
                                !.etag = etag],
           UNCHANGED <<rows, conflicts, project, runner, requests, raced>>,
           srv' \in ServerState, ServerOK', srv.revision <= srv'.revision,
           etag <= srv'.revision,
           pc = "get" => user.op \in {"edit", "create"},
           pc = "mark" => result # "none",
           pc = "mark" /\ result = "ok" /\ user.op # "remove" => ChangeIn(srv', h) > 0,
           \A g \in Href \ {h} : /\ srv'.objects[g] = srv.objects[g]
                                 /\ srv'.deleted[g] = srv.deleted[g],
           \/ ChangeIn(srv', h) > srv.revision
           \/ /\ srv' = srv
              /\ pc = "mark" /\ result = "ok" => user.op = "remove" /\ ~Exists(srv, h)
    PROVE  SyncInv'
<1>1. /\ user.row \in Task /\ h \in Href /\ user.row.uid = HomeUID[h]
      /\ user.n \in DOMAIN rows /\ rows[user.n].href = h
      /\ user \in UserState
  BY UserRow
<1>2. /\ user' \in UserState
      /\ user'.pc = pc /\ user'.result = result /\ user'.etag = etag
      /\ user'.row = user.row /\ user'.n = user.n /\ user'.op = user.op
      /\ user'.base = user.base
  BY <1>1 DEF UserState
<1> \A g : ChangeIn(srv', g) = LastChange(g)'
  BY DEF ChangeIn, LastChange
<1>3. Outside
  <2>1. ASSUME NEW g \in Href \ {h} PROVE HrefStep(g)
    BY <1>2, <2>1 DEF HrefStep, Good, Reflected, Marking, Live, Exists
  <2>2. HrefStep(h)
    BY <1>1, <1>2 DEF HrefStep, Good, Reflected, Marking, Live, Exists
  <2> QED
    BY <1>1, <2>1, <2>2 DEF Outside
<1>4. RowsOK' /\ SyncedKnown'
  BY <1>3, SameRowsKeep
<1>5. SyncTypeOK'
  BY <1>2 DEF SyncInv, SyncTypeOK
<1>6. UserOK'
  <2>1. user.base # NoText
    BY DEF SyncInv, UserOK
  <2> QED
    BY <1>1, <1>2, <2>1 DEF UserOK
<1> QED
  BY <1>3, <1>4, <1>5, <1>6, OutsideInv DEF OutsideOK

\* The PUT of a handler.
LEMMA UserPutsKeeps == ASSUME SyncInv, UserPuts PROVE SyncInv'
<1>1. user.pc = "put" /\ UNCHANGED <<rows, conflicts, project, runner, requests, raced>>
  BY DEF UserPuts
<1> PICK r \in Task, h \in Href : r = user.row /\ h = r.href
  BY <1>1, UserRow
<1> DEFINE answer == PutAnswer(srv, h, IfMatch)
<1>2. /\ r.uid = HomeUID[h] /\ r.raw \in Content
      /\ user.op \in {"edit", "create"} /\ user \in UserState
  BY <1>1, UserRow
<1>3. /\ srv \in ServerState /\ ServerOK /\ srv.revision \in Nat
      /\ user.result \in {"none", "ok", "conflict", "fail"} /\ user.remote \in Text
      /\ user.etag \in Nat /\ user.etag <= srv.revision
  BY <1>1, <1>2 DEF SyncInv, SyncTypeOK, ServerState, UserState, UserOK
<1>4. CASE answer = "ok"
  <2>1. /\ srv' = Stored(srv, h, HomeUID[h], r.raw)
        /\ user' = [user EXCEPT !.pc = "mark", !.result = "ok",
                                !.etag = srv'.objects[h].etag]
    BY <1>2, <1>4 DEF UserPuts, AfterPut
  <2>2. /\ srv' \in ServerState /\ ServerOK'
        /\ srv'.revision = srv.revision + 1
        /\ srv'.objects[h].etag = srv.revision + 1
        /\ LastChange(h)' = srv.revision + 1
        /\ \A g \in Href \ {h} : /\ srv'.objects[g] = srv.objects[g]
                                 /\ srv'.deleted[g] = srv.deleted[g]
    BY <1>2, <2>1, StoredChanges DEF SyncInv
  <2>3. user' = [user EXCEPT !.pc = "mark", !.result = "ok", !.remote = user.remote,
                             !.etag = srv.revision + 1]
    BY <1>2, <2>1, <2>2 DEF UserState
  <2>4. /\ srv.revision + 1 \in Nat /\ srv.revision + 1 <= srv'.revision
        /\ srv.revision <= srv'.revision
        /\ ChangeIn(srv', h) > srv.revision /\ ChangeIn(srv', h) > 0
    BY <1>3, <2>2 DEF ChangeIn, LastChange
  <2>5. h = user.row.href /\ user.pc # "idle"
    BY <1>1
  <2>6. user.remote \in Text
    BY <1>3
  <2>8. /\ UNCHANGED <<rows, conflicts, project, runner, requests, raced>>
        /\ "mark" \in {"get", "mark"} /\ "ok" \in {"none", "ok", "conflict", "fail"}
        /\ "mark" # "get" /\ "ok" # "none"
    BY <1>1
  <2>9. /\ srv' \in ServerState /\ ServerOK'
        /\ \A g \in Href \ {h} : /\ srv'.objects[g] = srv.objects[g]
                                 /\ srv'.deleted[g] = srv.deleted[g]
    BY <2>2
  <2> QED
    BY <2>3, <2>4, <2>5, <2>6, <2>8, <2>9, AnswerKeeps, ZenonT(40)
<1>5. CASE answer # "ok"
  <2>1. /\ srv' = srv
        /\ \/ user' = [user EXCEPT !.pc = "get"]
           \/ user' = [user EXCEPT !.pc = "mark", !.result = "fail"]
    BY <1>5 DEF UserPuts, AfterPut
  <2>2. \/ user' = [user EXCEPT !.pc = "get", !.result = user.result,
                                !.remote = user.remote, !.etag = user.etag]
        \/ user' = [user EXCEPT !.pc = "mark", !.result = "fail",
                                !.remote = user.remote, !.etag = user.etag]
    BY <1>2, <2>1 DEF UserState
  <2>3. srv' \in ServerState /\ ServerOK' /\ \A g \in Href : srv'.objects[g] = srv.objects[g]
                             /\ srv'.deleted[g] = srv.deleted[g]
    BY <1>3, <2>1 DEF ServerOK, Exists
  <2>4. srv.revision <= srv'.revision /\ user.etag <= srv'.revision
    BY <1>3, <2>1
  <2>5. CASE user' = [user EXCEPT !.pc = "get", !.result = user.result,
                                  !.remote = user.remote, !.etag = user.etag]
    BY <1>1, <1>2, <1>3, <2>1, <2>3, <2>4, <2>5, AnswerKeeps
  <2>6. CASE user' = [user EXCEPT !.pc = "mark", !.result = "fail",
                                  !.remote = user.remote, !.etag = user.etag]
    BY <1>1, <1>2, <1>3, <2>1, <2>3, <2>4, <2>6, AnswerKeeps
  <2> QED
    BY <2>2, <2>5, <2>6
<1> QED
  BY <1>4, <1>5

\* The GET after a refused one.
LEMMA UserGetsKeeps == ASSUME SyncInv, UserGets PROVE SyncInv'
<1> DEFINE h == user.row.href
<1>1. user.pc = "get"
      /\ UNCHANGED <<srv, rows, conflicts, project, runner, requests, raced>>
  BY DEF UserGets
<1>2. /\ h \in Href /\ user.op \in {"edit", "create"} /\ user \in UserState
  BY <1>1, UserRow
<1>3. /\ srv' = srv /\ srv' \in ServerState /\ ServerOK' /\ srv.revision \in Nat
      /\ srv.revision <= srv'.revision
      /\ user.remote \in Text /\ user.etag \in Nat /\ user.etag <= srv'.revision
  BY <1>1, <1>2 DEF SyncInv, SyncTypeOK, ServerState, UserState, UserOK, ServerOK, Exists
<1>4. PICK remote \in Text, etag \in Nat :
         /\ user' = [user EXCEPT !.pc = "mark", !.result = "conflict",
                                 !.remote = remote, !.etag = etag]
         /\ etag <= srv'.revision
  <2>1. CASE Exists(srv, h)
    <3>1. srv.objects[h].vtodo \in Text /\ srv.objects[h].etag \in Nat
          /\ srv.objects[h].etag <= srv'.revision
      <4>1. srv.objects[h] \in Object
        BY <1>2, <2>1, ChangeType DEF SyncInv
      <4>2. srv.objects[h].etag \in 1 .. srv.revision
        BY <1>2, <2>1 DEF SyncInv, ServerOK
      <4> QED
        BY <1>3, <4>1, <4>2 DEF Object, Text
    <3> QED
      BY <2>1, <3>1 DEF UserGets
  <2>2. CASE ~Exists(srv, h)
    <3>1. user' = [user EXCEPT !.pc = "mark", !.result = "conflict"]
      BY <2>2 DEF UserGets
    <3>2. user' = [user EXCEPT !.pc = "mark", !.result = "conflict",
                               !.remote = user.remote, !.etag = user.etag]
      BY <1>2, <3>1 DEF UserState
    <3> QED
      BY <1>3, <3>2
  <2> QED
    BY <2>1, <2>2
<1> QED
  BY <1>1, <1>3, <1>4, AnswerKeeps

\* The DELETE of a handler.
LEMMA UserDeletesKeeps == ASSUME SyncInv, UserDeletes PROVE SyncInv'
<1>1. user.pc = "delete" /\ UNCHANGED <<rows, conflicts, project, runner, requests, raced>>
  BY DEF UserDeletes
<1> PICK r \in Task, h \in Href : r = user.row /\ h = r.href
  BY <1>1, UserRow
<1> DEFINE answer == DeleteAnswer(srv, h, r.etag)
<1>2. user.op = "remove" /\ user \in UserState
  BY <1>1, UserRow
<1>3. /\ srv \in ServerState /\ ServerOK /\ srv.revision \in Nat
      /\ user.remote \in Text /\ user.etag \in Nat /\ user.etag <= srv.revision
  BY <1>1, <1>2 DEF SyncInv, SyncTypeOK, ServerState, UserState, UserOK
<1> DEFINE result == IF answer = "precondition_failed" THEN "conflict" ELSE "ok"
<1>4. user' = [user EXCEPT !.pc = "mark", !.result = result, !.remote = user.remote,
                           !.etag = user.etag]
  BY <1>2 DEF UserDeletes, UserState
<1>5. CASE answer = "ok"
  <2>1. srv' = Dropped(srv, h)
    BY <1>5 DEF UserDeletes, AfterDelete
  <2>2. /\ srv' \in ServerState /\ ServerOK'
        /\ srv'.revision = srv.revision + 1
        /\ LastChange(h)' = srv.revision + 1
        /\ \A g \in Href \ {h} : /\ srv'.objects[g] = srv.objects[g]
                                 /\ srv'.deleted[g] = srv.deleted[g]
    BY <1>2, <2>1, DroppedChanges DEF SyncInv
  <2>3. result = "ok"
    BY <1>5
  <2>4. /\ srv.revision <= srv'.revision /\ user.etag <= srv'.revision
        /\ ChangeIn(srv', h) > srv.revision /\ ChangeIn(srv', h) > 0
    BY <1>3, <2>2 DEF ChangeIn, LastChange
  <2>5. h = user.row.href /\ user.pc # "idle"
    BY <1>1
  <2>6. user' = [user EXCEPT !.pc = "mark", !.result = "ok", !.remote = user.remote,
                             !.etag = user.etag]
    BY <1>4, <2>3
  <2>7. user.remote \in Text /\ user.etag \in Nat
    BY <1>3
  <2>8. /\ UNCHANGED <<rows, conflicts, project, runner, requests, raced>>
        /\ "mark" \in {"get", "mark"} /\ "ok" \in {"none", "ok", "conflict", "fail"}
        /\ "mark" # "get" /\ "ok" # "none"
    BY <1>1
  <2>9. /\ srv' \in ServerState /\ ServerOK'
        /\ \A g \in Href \ {h} : /\ srv'.objects[g] = srv.objects[g]
                                 /\ srv'.deleted[g] = srv.deleted[g]
    BY <2>2
  <2> QED
    BY <2>4, <2>5, <2>6, <2>7, <2>8, <2>9, AnswerKeeps, ZenonT(40)
<1>6. CASE answer # "ok"
  <2>1. srv' = srv
    BY <1>6 DEF UserDeletes, AfterDelete
  <2>2. /\ srv' \in ServerState /\ ServerOK'
        /\ \A g \in Href : srv'.objects[g] = srv.objects[g] /\ srv'.deleted[g] = srv.deleted[g]
        /\ srv.revision <= srv'.revision /\ user.etag <= srv'.revision
    BY <1>3, <2>1 DEF ServerOK, Exists
  <2>3. result = "ok" => ~Exists(srv, h)
    BY <1>6 DEF DeleteAnswer
  <2>4. result \in {"none", "ok", "conflict", "fail"} /\ result # "none"
    OBVIOUS
  <2> HIDE DEF result
  <2> QED
    BY <1>1, <1>2, <1>3, <1>4, <2>1, <2>2, <2>3, <2>4, AnswerKeeps
<1> QED
  BY <1>5, <1>6

\* A request that gets no answer.
LEMMA UserFailsKeeps == ASSUME SyncInv, UserFails PROVE SyncInv'
<1>1. user.pc \in {"put", "delete"}
      /\ UNCHANGED <<srv, rows, conflicts, project, runner, requests, raced>>
  BY DEF UserFails
<1>2. user \in UserState /\ user.row.href \in Href
  BY <1>1, UserRow
<1>3. /\ srv' = srv /\ srv' \in ServerState /\ ServerOK' /\ srv.revision \in Nat
      /\ srv.revision <= srv'.revision
      /\ user.remote \in Text /\ user.etag \in Nat /\ user.etag <= srv'.revision
  BY <1>1, <1>2 DEF SyncInv, SyncTypeOK, ServerState, UserState, UserOK, ServerOK, Exists
<1>4. user' = [user EXCEPT !.pc = "mark", !.result = "fail", !.remote = user.remote,
                           !.etag = user.etag]
  BY <1>2 DEF UserFails, UserState
<1> QED
  BY <1>1, <1>3, <1>4, AnswerKeeps

-----------------------------------------------------------------------------
(* The user's own writes to the rows.                                      *)

\* What writes make of a row is a row at the same href.
LEMMA PendingTask ==
    ASSUME NEW row \in Task, NEW content \in Content
    PROVE  LET new == Pending(row, content)
           IN  /\ new \in Task /\ new.uid = row.uid /\ new.href = row.href
               /\ new.etag = row.etag /\ new.status = "pending"
<1>1. row.ver + 1 \in Nat /\ "pending" \in SyncStatus
  BY DEF Task, SyncStatus
<1> QED
  BY <1>1 DEF Pending, Task

\* A row marked synced has the answer's etag.
LEMMA SyncedTask ==
    ASSUME NEW row \in Task, NEW etag \in Nat
    PROVE  LET new == Synced(row, etag)
           IN  /\ new \in Task /\ new.uid = row.uid /\ new.href = row.href
               /\ new.etag = etag /\ new.status = "synced"
<1>1. row.ver + 1 \in Nat /\ "synced" \in SyncStatus
  BY DEF Task, SyncStatus
<1> QED
  BY <1>1 DEF Synced, Task

\* A row in conflict keeps its etag, unless the answer has one.
LEMMA ConflictedTask ==
    ASSUME NEW row \in Task, NEW etag \in Nat
    PROVE  LET new == Conflicted(row, etag)
           IN  /\ new \in Task /\ new.uid = row.uid /\ new.href = row.href
               /\ new.etag = (IF etag = 0 THEN row.etag ELSE etag)
               /\ new.status = "conflict"
<1>1. row.etag \in Nat /\ "conflict" \in SyncStatus
  BY DEF Task, SyncStatus
<1> QED
  BY <1>1 DEF Conflicted, Task

\* A status alone.
LEMMA StatusTask ==
    ASSUME NEW row \in Task, NEW status \in SyncStatus
    PROVE  LET new == [row EXCEPT !.status = status]
           IN  /\ new \in Task /\ new.uid = row.uid /\ new.href = row.href
               /\ new.etag = row.etag /\ new.status = status
BY DEF Task

\* One row is written, and stays where it is.
LEMMA OneRow ==
    ASSUME SyncTypeOK, NEW n \in DOMAIN rows, NEW new \in Task,
           rows' = [rows EXCEPT ![n] = new]
    PROVE  /\ rows' \in Seq(Task) /\ Len(rows') = Len(rows)
           /\ DOMAIN rows' = DOMAIN rows
           /\ rows'[n] = new
           /\ \A m \in DOMAIN rows : m # n => rows'[m] = rows[m]
<1>1. rows \in Seq(Task) /\ n \in 1 .. Len(rows)
  BY RowTask DEF SyncTypeOK
<1>2. /\ rows' \in Seq(Task) /\ Len(rows') = Len(rows)
      /\ \A m \in 1 .. Len(rows) : rows'[m] = IF m = n THEN new ELSE rows[m]
  BY <1>1, ExceptSeq
<1>3. DOMAIN rows = 1 .. Len(rows) /\ DOMAIN rows' = 1 .. Len(rows')
  BY <1>1, <1>2, LenProperties
<1> QED
  BY <1>1, <1>2, <1>3

\* What a row knows of h is lost only when its own row is, or is marked with
\* an answer.
LEMMA OneRowReflects ==
    ASSUME SyncInv, NEW n \in Live, NEW new \in Task,
           new.uid = rows[n].uid, new.href = rows[n].href,
           rows' = [rows EXCEPT ![n] = new],
           NEW h \in Href, srv'.objects[h] = srv.objects[h], Reflected(h),
           rows[n].href = h =>
               \/ new.status \in {"conflict", "pending", "error"}
               \/ new.status = "absent" /\ ~Exists(srv, h)
    PROVE  Reflected(h)'
<1>1. /\ n \in DOMAIN rows /\ DOMAIN rows' = DOMAIN rows /\ rows'[n] = new
      /\ \A m \in DOMAIN rows : m # n => rows'[m] = rows[m]
  BY OneRow DEF SyncInv, Live
<1>2. CASE Exists(srv, h)
  <2>1. PICK m \in Live : /\ rows[m].uid = srv.objects[h].uid
                          /\ \/ rows[m].etag = srv.objects[h].etag
                             \/ rows[m].status \in {"conflict", "pending", "error"}
    BY <1>2 DEF Reflected
  <2>2. rows[m].uid = HomeUID[h] /\ rows[m].uid = HomeUID[rows[m].href]
    BY <1>2, <2>1 DEF SyncInv, ServerOK, RowsOK, Live
  <2>3. rows[m].href = h
    BY <2>1, <2>2, RowTask, IncrementalAssumption DEF SyncInv, Live
  <2> QED
    BY <1>1, <1>2, <2>1, <2>3 DEF Reflected, Live, Exists
<1>3. CASE ~Exists(srv, h)
  BY <1>1, <1>3 DEF Reflected, Live, Exists
<1> QED
  BY <1>2, <1>3

\* No request is a state of the user.
LEMMA UserIdle == NoRequest \in UserState
BY DEF NoRequest, UserState, Text

\* The prepare transaction of an edit or a removal.
LEMMA PrepareKeeps ==
    ASSUME SyncInv, user.pc = "idle", NEW n \in Live, NEW content \in Content,
           NEW op \in {"edit", "remove"}, NEW pc,
           pc = IF op = "edit" THEN "put" ELSE "delete",
           rows' = [rows EXCEPT ![n] = Pending(@, content)],
           user' = UserRequest(op, pc, n, rows'[n], rows[n].raw),
           requests' = requests + 1,
           UNCHANGED <<conflicts, srv, project, runner, raced>>
    PROVE  SyncInv'
<1> DEFINE new == Pending(rows[n], content)
<1>1. n \in DOMAIN rows /\ rows[n] \in Task /\ rows[n].status # "absent"
  BY RowTask DEF SyncInv, Live
<1>2. /\ new \in Task /\ new.uid = rows[n].uid /\ new.href = rows[n].href
      /\ new.etag = rows[n].etag /\ new.status = "pending"
  BY <1>1, PendingTask
<1>3. rows' = [rows EXCEPT ![n] = new]
  BY <1>1
<1> HIDE DEF new
<1>4. /\ rows' \in Seq(Task) /\ Len(rows') = Len(rows) /\ DOMAIN rows' = DOMAIN rows
      /\ rows'[n] = new
      /\ \A m \in DOMAIN rows : m # n => rows'[m] = rows[m]
  BY <1>1, <1>2, <1>3, OneRow DEF SyncInv
<1>5. /\ user' \in UserState /\ user'.pc = pc /\ user'.row = new /\ user'.n = n
      /\ user'.op = op /\ user'.result = "none" /\ user'.etag = 0
      /\ user'.base = rows[n].raw
  <2>1. rows[n].raw \in Text /\ n \in Nat
    BY <1>1, RowTask DEF SyncInv, Text
  <2> QED
    BY <1>2, <1>4, <2>1 DEF UserRequest, NoRequest, UserState, Text
<1>6. SyncTypeOK'
  BY <1>4, <1>5 DEF SyncInv, SyncTypeOK
<1>7. ServerOK' /\ srv.revision \in Nat
  BY DEF SyncInv, ServerOK, Exists, SyncTypeOK, ServerState
<1>8. Live' = Live
  BY <1>1, <1>2, <1>4 DEF Live
<1>9. RowsOK'
  BY <1>1, <1>2, <1>4, <1>8 DEF SyncInv, RowsOK, Live
<1>10. SyncedKnown'
  BY <1>1, <1>2, <1>4, <1>8 DEF SyncInv, SyncedKnown, Live, LastChange, Exists
<1>11. UserOK'
  BY <1>1, <1>2, <1>4, <1>5, <1>7, RowTask, VtodoAssumption DEF SyncInv, UserOK, RowsOK
<1>12. Outside
  <2>1. ASSUME NEW h \in Href PROVE HrefStep(h)
    <3>1. Good(h) => Reflected(h)'
      BY <1>2, <1>3, OneRowReflects DEF Good
    <3>2. ~Marking(h)'
      BY <1>5 DEF Marking
    <3> QED
      BY <3>1, <3>2 DEF HrefStep
  <2> QED
    BY <1>7, <2>1 DEF Outside
<1> QED
  BY <1>6, <1>7, <1>9, <1>10, <1>11, <1>12, OutsideInv DEF OutsideOK

\* PrepareTaskUpdate.
LEMMA UserEditsKeeps == ASSUME SyncInv, UserEdits PROVE SyncInv'
<1>1. PICK n \in Live, content \in Content :
        /\ rows' = [rows EXCEPT ![n] = Pending(@, content)]
        /\ Accept("edit", UserRequest("edit", "put", n, rows'[n], rows[n].raw))
        /\ UNCHANGED conflicts
        /\ KeepSync
  BY DEF UserEdits
<1> QED
  BY <1>1, PrepareKeeps DEF Accept, KeepSync

\* PrepareTaskDelete.
LEMMA UserRemovesKeeps == ASSUME SyncInv, UserRemoves PROVE SyncInv'
<1>1. PICK n \in Live :
        /\ rows' = [rows EXCEPT ![n] = Pending(@, @.raw)]
        /\ Accept("remove", UserRequest("remove", "delete", n, rows'[n], rows[n].raw))
        /\ UNCHANGED conflicts
        /\ KeepSync
  BY DEF UserRemoves
<1>2. rows[n].raw \in Content /\ rows' = [rows EXCEPT ![n] = Pending(@, rows[n].raw)]
  BY <1>1, RowTask DEF SyncInv, Live
<1> QED
  BY <1>1, <1>2, PrepareKeeps DEF Accept, KeepSync

\* InsertPendingTask.
LEMMA UserCreatesKeeps == ASSUME SyncInv, UserCreates PROVE SyncInv'
<1>1. PICK h \in Href, content \in Content :
        /\ ~Exists(srv, h) /\ srv.deleted[h] = 0
        /\ \A n \in DOMAIN rows : rows[n].uid # HomeUID[h] /\ rows[n].href # h
        /\ rows' = Append(rows, TaskAt(PendingRow(content), HomeUID[h], h))
        /\ conflicts' = Append(conflicts, <<>>)
        /\ Accept("create", UserRequest("create", "put", Len(rows) + 1,
                                        rows'[Len(rows) + 1], content))
        /\ KeepSync
  BY DEF UserCreates
<1> DEFINE new == TaskAt(PendingRow(content), HomeUID[h], h)
<1> PICK k \in Nat : k = Len(rows) + 1
  BY LenProperties DEF SyncInv, SyncTypeOK
<1>2. /\ new \in Task /\ new.uid = HomeUID[h] /\ new.href = h
      /\ new.etag = 0 /\ new.status = "pending"
  BY IncrementalAssumption DEF TaskAt, PendingRow, Task, SyncStatus
<1>3. user.pc = "idle" /\ requests' = requests + 1
      /\ UNCHANGED <<srv, project, runner, raced>>
  BY <1>1 DEF Accept, KeepSync
<1> HIDE DEF new
<1>4. /\ rows' \in Seq(Task) /\ Len(rows') = k /\ rows'[k] = new
      /\ \A m \in 1 .. Len(rows) : rows'[m] = rows[m]
      /\ Len(rows) \in Nat /\ DOMAIN rows = 1 .. Len(rows) /\ DOMAIN rows' = 1 .. k
  <2>1. rows \in Seq(Task) /\ rows' = Append(rows, new)
    BY <1>1 DEF SyncInv, SyncTypeOK, new
  <2>2. /\ rows' \in Seq(Task) /\ Len(rows') = Len(rows) + 1
        /\ rows'[Len(rows) + 1] = new
        /\ \A m \in 1 .. Len(rows) : rows'[m] = rows[m]
    BY <1>2, <2>1, AppendProperties
  <2> QED
    BY <2>1, <2>2, LenProperties
<1>5. conflicts' \in Seq(Seq(Conflict)) /\ Len(conflicts') = Len(rows')
  <2>1. conflicts \in Seq(Seq(Conflict)) /\ <<>> \in Seq(Conflict)
        /\ Len(conflicts) = Len(rows)
    BY EmptySeq DEF SyncInv, SyncTypeOK
  <2> QED
    BY <1>1, <1>4, <2>1, AppendProperties
<1>6. /\ user' \in UserState /\ user'.pc = "put" /\ user'.row = new /\ user'.n = k
      /\ user'.op = "create" /\ user'.result = "none" /\ user'.etag = 0
      /\ user'.base = content
  <2>1. content \in Text /\ NoText \in Text /\ k \in Nat
    BY <1>4 DEF Text
  <2>2. user' = UserRequest("create", "put", k, new, content)
    BY <1>1, <1>4 DEF Accept
  <2>3. user' = [pc |-> "put", op |-> "create", n |-> k, row |-> new, base |-> content,
                 result |-> "none", remote |-> NoText, etag |-> 0]
    BY <2>2 DEF UserRequest, NoRequest
  <2> QED
    BY <1>2, <2>1, <2>3 DEF UserState
<1>7. SyncTypeOK'
  <2>1. rows' \in Seq(Task) /\ user' \in UserState
    BY <1>4, <1>6
  <2>2. SyncTypeOK
    BY DEF SyncInv
  <2>3. /\ srv' = srv /\ project' = project /\ runner' = runner /\ raced' = raced
        /\ requests' \in Nat
    BY <1>3, <2>2 DEF SyncTypeOK
  <2> QED
    BY <1>5, <2>1, <2>2, <2>3 DEF SyncTypeOK
<1>8. ServerOK' /\ srv.revision \in Nat
  BY <1>3 DEF SyncInv, ServerOK, Exists, SyncTypeOK, ServerState
<1>9. /\ Live' = Live \cup {k} /\ k \notin DOMAIN rows
      /\ \A m \in DOMAIN rows : rows[m].href # h
      /\ \A m \in DOMAIN rows' : m = k \/ (m \in DOMAIN rows /\ rows'[m] = rows[m])
  <2>1. DOMAIN rows' = DOMAIN rows \cup {k} /\ k \notin DOMAIN rows
    BY <1>4
  <2>2. /\ rows'[k].status # "absent"
        /\ \A m \in DOMAIN rows : rows'[m] = rows[m] /\ rows[m].href # h
    BY <1>1, <1>2, <1>4
  <2> QED
    BY <2>1, <2>2 DEF Live
<1>10. RowsOK'
  BY <1>2, <1>3, <1>4, <1>8, <1>9 DEF SyncInv, RowsOK, Live
<1>11. SyncedKnown'
  BY <1>2, <1>3, <1>4, <1>9 DEF SyncInv, SyncedKnown, Live, LastChange, Exists
<1>12. UserOK'
  BY <1>2, <1>3, <1>4, <1>6, <1>8, VtodoAssumption DEF UserOK
<1>13. Outside
  <2>1. ASSUME NEW g \in Href PROVE HrefStep(g)
    <3>1. Reflected(g) => Reflected(g)'
      BY <1>2, <1>3, <1>4, <1>9 DEF Reflected, Live, Exists
    <3>2. ~Marking(g)'
      BY <1>6 DEF Marking
    <3> QED
      BY <1>3, <3>1, <3>2 DEF HrefStep, Good
  <2> QED
    BY <1>3, <1>8, <2>1 DEF Outside
<1> QED
  BY <1>7, <1>8, <1>10, <1>11, <1>12, <1>13, OutsideInv DEF OutsideOK

\* An entry is added to those of a row.
LEMMA EntryAdded ==
    ASSUME NEW list \in Seq(Seq(Conflict)), NEW n \in 1 .. Len(list),
           NEW entry \in Conflict
    PROVE  /\ [list EXCEPT ![n] = Append(@, entry)] \in Seq(Seq(Conflict))
           /\ Len([list EXCEPT ![n] = Append(@, entry)]) = Len(list)
<1>1. list[n] \in Seq(Conflict)
  BY ElementOfSeq
<1>2. Append(list[n], entry) \in Seq(Conflict)
  BY <1>1, AppendProperties
<1>3. [list EXCEPT ![n] = Append(@, entry)] = [list EXCEPT ![n] = Append(list[n], entry)]
  OBVIOUS
<1> QED
  BY <1>2, <1>3, ExceptSeq

\* The mark of a request, whether it applies or not.
LEMMA UserMarksKeeps == ASSUME SyncInv, UserMarks PROVE SyncInv'
<1>1. /\ user.pc = "mark" /\ user' = NoRequest /\ requests' = requests
      /\ srv' = srv /\ project' = project /\ runner' = runner /\ raced' = raced
  BY DEF UserMarks, KeepSync
<1> PICK n \in DOMAIN rows, h \in Href : n = user.n /\ h = user.row.href
  BY <1>1, UserRow
<1>2. /\ rows[n] \in Task /\ rows[n].href = h /\ user.row.raw \in Content
      /\ user.etag \in Nat /\ user.etag <= srv.revision /\ srv.revision \in Nat
      /\ user.base \in Content /\ user.remote \in Text
      /\ user.result \in {"ok", "conflict", "fail"}
      /\ user.op \in {"none", "edit", "create", "remove"}
      /\ user.result = "ok" /\ user.op # "remove" => LastChange(h) > 0
  BY <1>1, UserRow, RowTask
     DEF SyncInv, SyncTypeOK, UserOK, UserState, Text, ServerState
<1>3. user'.pc = "idle" /\ user' \in UserState
  BY <1>1, UserIdle DEF NoRequest
<1>4. ServerOK' /\ \A g \in Href : ~Marking(g)'
  BY <1>1, <1>3 DEF SyncInv, ServerOK, Exists, Marking
<1>5. UserOK'
  BY <1>3 DEF UserOK
<1>6. CASE ~MarkApplies
  <2>1. rows' = rows /\ conflicts' = conflicts
    BY <1>6 DEF UserMarks
  <2>2. Outside
    BY <1>1, <1>2, <1>4, <2>1 DEF Outside, HrefStep, Good, Reflected, Live, Exists
  <2>3. RowsOK' /\ SyncedKnown'
    BY <1>1, <1>4, <2>1, <2>2, SameRowsKeep DEF SyncInv, SyncTypeOK
  <2>4. SyncTypeOK'
    BY <1>1, <1>3, <2>1 DEF SyncInv, SyncTypeOK
  <2> QED
    BY <1>4, <1>5, <2>2, <2>3, <2>4, OutsideInv DEF OutsideOK
<1>7. CASE MarkApplies
  <2> DEFINE new == Marked(rows[n])
  <2>1. n \in Live /\ rows' = [rows EXCEPT ![n] = new]
    BY <1>7 DEF UserMarks, MarkApplies
  <2>2. /\ new \in Task /\ new.uid = rows[n].uid /\ new.href = h
        /\ new.etag \in {rows[n].etag, user.etag}
        /\ user.result = "ok" /\ user.op = "remove" => new.status = "absent"
        /\ user.result = "ok" /\ user.op # "remove" => new.status = "synced"
        /\ user.result = "conflict" => new.status = "conflict"
        /\ user.result = "fail" => new.status = "error"
    <3>1. CASE user.result = "ok" /\ user.op = "remove"
      <4>1. new = [rows[n] EXCEPT !.status = "absent"] /\ "absent" \in SyncStatus
        BY <3>1 DEF Marked, SyncStatus
      <4> HIDE DEF new
      <4> QED
        BY <1>2, <3>1, <4>1, StatusTask
    <3>2. CASE user.result = "ok" /\ user.op # "remove"
      <4>1. new = Synced(rows[n], user.etag)
        BY <3>2 DEF Marked
      <4> HIDE DEF new
      <4> QED
        BY <1>2, <3>2, <4>1, SyncedTask
    <3>3. CASE user.result = "conflict"
      <4>1. new = Conflicted(rows[n], user.etag)
        BY <3>3 DEF Marked
      <4> HIDE DEF new
      <4> QED
        BY <1>2, <3>3, <4>1, ConflictedTask
    <3>4. CASE user.result = "fail"
      <4>1. new = [rows[n] EXCEPT !.status = "error"] /\ "error" \in SyncStatus
        BY <3>4 DEF Marked, SyncStatus
      <4> HIDE DEF new
      <4> QED
        BY <1>2, <3>4, <4>1, StatusTask
    <3> QED
      BY <1>2, <3>1, <3>2, <3>3, <3>4
  <2> HIDE DEF new
  <2>3. /\ rows' \in Seq(Task) /\ Len(rows') = Len(rows) /\ DOMAIN rows' = DOMAIN rows
        /\ rows'[n] = new
        /\ \A m \in DOMAIN rows : m # n => rows'[m] = rows[m]
    BY <2>1, <2>2, OneRow DEF SyncInv
  <2>4. conflicts' \in Seq(Seq(Conflict)) /\ Len(conflicts') = Len(rows')
    <3>1. conflicts \in Seq(Seq(Conflict)) /\ n \in 1 .. Len(conflicts)
          /\ Len(conflicts) = Len(rows)
      BY RowTask DEF SyncInv, SyncTypeOK
    <3> DEFINE entry == NewConflict("field_conflict", user.base, user.row.raw, user.remote)
    <3>2. entry \in Conflict
      BY <1>2 DEF NewConflict, Conflict
    <3>3. conflicts' = conflicts \/ conflicts' = [conflicts EXCEPT ![n] = Append(@, entry)]
      BY <1>7 DEF UserMarks
    <3> HIDE DEF entry
    <3>4. /\ [conflicts EXCEPT ![n] = Append(@, entry)] \in Seq(Seq(Conflict))
          /\ Len([conflicts EXCEPT ![n] = Append(@, entry)]) = Len(conflicts)
      BY <3>1, <3>2, EntryAdded
    <3> QED
      BY <2>3, <3>1, <3>3, <3>4
  <2>5. SyncTypeOK'
    BY <1>1, <1>3, <2>3, <2>4 DEF SyncInv, SyncTypeOK
  <2>6. Live' \subseteq Live
    BY <2>1, <2>2, <2>3 DEF Live
  <2>7. RowsOK'
    <3>1. \A m \in DOMAIN rows : rows'[m].href = rows[m].href /\ rows'[m].uid = rows[m].uid
                                 /\ rows'[m].etag <= srv.revision
      BY <1>2, <2>2, <2>3 DEF SyncInv, RowsOK
    <3> QED
      BY <1>1, <2>3, <2>6, <3>1 DEF SyncInv, RowsOK, Live
  <2>8. SyncedKnown'
    <3>1. ASSUME NEW m \in Live', rows'[m].status = "synced"
          PROVE  LastChange(rows'[m].href) > 0
      <4>1. CASE m = n
        BY <1>2, <2>2, <2>3, <3>1, <4>1
      <4>2. CASE m # n
        BY <2>3, <2>6, <3>1, <4>2 DEF SyncInv, SyncedKnown, Live
      <4> QED
        BY <4>1, <4>2
    <3> QED
      BY <1>1, <3>1 DEF SyncedKnown, LastChange, Exists
  <2>9. Outside
    <3>1. ASSUME NEW g \in Href, Good(g) PROVE Reflected(g)'
      <4>1. rows[n].href = g =>
                \/ new.status \in {"conflict", "pending", "error"}
                \/ new.status = "absent" /\ ~Exists(srv, g)
        BY <1>1, <1>2, <2>1, <2>2, <3>1 DEF Good, Marking
      <4> QED
        BY <1>1, <1>2, <2>1, <2>2, <3>1, <4>1, OneRowReflects DEF Good
    <3> QED
      BY <1>1, <1>2, <1>4, <3>1 DEF Outside, HrefStep
  <2> QED
    BY <1>4, <1>5, <2>5, <2>7, <2>8, <2>9, OutsideInv DEF OutsideOK
<1> QED
  BY <1>6, <1>7

-----------------------------------------------------------------------------
(* Steps of the run before its answer is applied.                          *)

RunType == \E known, reported \in SUBSET Href : runner \in RunState(known, reported)

\* What a step of the run alone leaves alone.
LEMMA OthersStay ==
    ASSUME KeepOthers
    PROVE  /\ \A h : (Good(h)' <=> Good(h)) /\ LastChange(h)' = LastChange(h)
           /\ \A h, bound : Settled(h, bound)' <=> Settled(h, bound)
           /\ Covered' = Covered
<1>1. /\ srv' = srv /\ rows' = rows /\ project' = project /\ user' = user /\ raced' = raced
  BY DEF KeepOthers
<1>2. \A h : LastChange(h)' = LastChange(h)
  BY <1>1 DEF LastChange, Exists
<1>3. \A h : Good(h)' <=> Good(h)
  BY <1>1 DEF Good, Reflected, Marking, Live, Exists
<1>4. \A h, bound : Settled(h, bound)' <=> Settled(h, bound)
  BY <1>1 DEF Settled, LastChange, Exists
<1>5. Covered' = Covered
  BY <1>1 DEF Covered
<1> QED
  BY <1>2, <1>3, <1>4, <1>5

\* A step of the run has to keep what is said of the run only.
LEMMA RunStepInv ==
    ASSUME SyncInv, KeepOthers, RunType', RunOK', ListOK', Gathering'
    PROVE  SyncInv'
<1> USE DEF SyncInv
<1>1. /\ srv' = srv /\ rows' = rows /\ project' = project /\ user' = user
      /\ raced' = raced /\ conflicts' = conflicts /\ requests' = requests
  BY DEF KeepOthers
<1>2. SyncTypeOK'
  BY <1>1 DEF SyncTypeOK, RunType
<1>3. RowsOK' /\ ServerOK' /\ ProjectOK'
  BY <1>1 DEF RowsOK, ServerOK, ProjectOK, Live, Exists
<1>4. UserOK' /\ SyncedKnown'
  BY <1>1 DEF UserOK, SyncedKnown, Live, LastChange, Exists
<1>5. Known'
  BY OthersStay DEF Known
<1>6. MarkIsNews'
  BY <1>1 DEF MarkIsNews, Marking, Live, LastChange, Exists
<1> QED
  BY <1>2, <1>3, <1>4, <1>5, <1>6

\* A run that knows nothing.
Blank(pc, strategy0, meta) ==
    [pc |-> pc, strategy |-> strategy0, states |-> <<>>, report |-> <<>>,
     fetch |-> {}, gone |-> {}, meta |-> meta]

\* Whatever it is about to do, if it may try that strategy.
LEMMA BlankKeeps ==
    ASSUME SyncInv, KeepOthers, NEW pc \in {"idle", "start", "states", "persist"},
           NEW strategy0 \in Strategy, NEW meta \in Nat, meta <= srv.revision,
           runner' = Blank(pc, strategy0, meta),
           pc # "idle" /\ strategy0 = "webdav_sync" => project.strategy = "webdav_sync",
           pc # "idle" /\ strategy0 = "ctag" => project.strategy # "fullscan",
           pc = "persist" => strategy0 \in {project.strategy, "fullscan"},
           pc = "states" => strategy0 = "ctag"
    PROVE  SyncInv'
<1>1. /\ srv' = srv /\ project' = project
  BY DEF KeepOthers
<1>2. <<>> \in [{} -> Nat] /\ <<>> \in [{} -> Object]
  <2>1. /\ <<>> \in Seq(Nat) /\ <<>> \in Seq(Object)
        /\ Len(<<>>) = 0 /\ 1 .. 0 = {}
    BY EmptySeq
  <2> QED
    BY <2>1, LenProperties
<1>3. DOMAIN <<>> = {}
  BY <1>2
<1>4. /\ runner'.pc = pc /\ runner'.strategy = strategy0 /\ runner'.meta = meta
      /\ runner'.fetch = {} /\ runner'.gone = {}
      /\ DOMAIN runner'.report = {}
  BY <1>3 DEF Blank
<1>5. RunType'
  <2>1. runner' \in RunState({}, {})
    BY <1>2 DEF Blank, RunState
  <2> QED
    BY <2>1 DEF RunType
<1>6. RunOK'
  BY <1>1, <1>4 DEF RunOK
<1>7. ListOK' /\ Gathering'
  BY <1>4 DEF ListOK, Gathering
<1> QED
  BY <1>5, <1>6, <1>7, RunStepInv

\* The strategy that is tried is not above the stored one.
LEMMA TriesMeans ==
    ASSUME SyncInv, NEW strategy0, Tries(strategy0)
    PROVE  /\ strategy0 = "webdav_sync" => project.strategy = "webdav_sync"
           /\ strategy0 = "ctag" => project.strategy # "fullscan"
BY DEF Tries, SyncInv, RunOK

\* No run says nothing.
LEMMA NoRunKeeps == ASSUME SyncInv, KeepOthers, runner' = NoRun PROVE SyncInv'
<1>1. runner' = Blank("idle", "fullscan", 0)
  BY DEF NoRun, Blank
<1>2. 0 <= srv.revision /\ "fullscan" \in Strategy
  BY DEF SyncInv, SyncTypeOK, ServerState, Strategy
<1> QED
  BY <1>1, <1>2, BlankKeeps

\* A run that begins with a strategy knows nothing yet.
LEMMA TryingIs ==
    ASSUME NEW strategy0, NEW r, r = Trying(strategy0)
    PROVE  r = Blank("start", strategy0, 0)
BY DEF Trying, NoRun, Blank

\* The project's strategy is lowered, and the run begins again.
LEMMA DowngradeKeeps == ASSUME SyncInv, Downgrade PROVE SyncInv'
<1>1. KeepOthers /\ 0 <= srv.revision /\ {"ctag", "fullscan"} \subseteq Strategy
  BY DEF Downgrade, SyncInv, SyncTypeOK, ServerState, Strategy
<1>2. CASE Tries("webdav_sync") /\ runner' = Trying("ctag")
  <2>1. project.strategy # "fullscan"
    BY <1>2, TriesMeans
  <2> QED
    BY <1>1, <1>2, <2>1, TryingIs, BlankKeeps
<1>3. CASE runner' = Trying("fullscan")
  BY <1>1, <1>3, TryingIs, BlankKeeps
<1> QED
  BY <1>2, <1>3 DEF Downgrade

\* The ctag is compared with the stored one.
LEMMA CompareCTagKeeps == ASSUME SyncInv, CompareCTag PROVE SyncInv'
<1>1. KeepOthers /\ Tries("ctag") /\ "ctag" \in Strategy
  BY DEF CompareCTag, Strategy
<1>2. project.strategy # "fullscan" /\ project.strategy \in Strategy
      /\ srv.revision \in Nat
  BY <1>1, TriesMeans DEF SyncInv, SyncTypeOK, ProjectColumns, ServerState
<1>3. CASE project.ctag # 0 /\ runner' = [Trying("ctag") EXCEPT !.pc = "persist"]
  <2>1. project.strategy = "ctag"
    BY <1>2, <1>3 DEF SyncInv, ProjectOK, Strategy
  <2>2. runner' = Blank("persist", "ctag", 0)
    BY <1>3 DEF Trying, NoRun, Blank
  <2> QED
    BY <1>1, <1>2, <2>1, <2>2, BlankKeeps
<1>4. CASE runner' = [Trying("ctag") EXCEPT !.pc = "states", !.meta = CTag(srv)]
  <2>1. runner' = Blank("states", "ctag", srv.revision)
    BY <1>4 DEF Trying, NoRun, Blank, CTag
  <2> QED
    BY <1>1, <1>2, <2>1, BlankKeeps
<1> QED
  BY <1>3, <1>4 DEF CompareCTag

\* A run that fails leaves what it has found.
LEMMA RunFailsKeeps == ASSUME SyncInv, RunFails PROVE SyncInv'
BY NoRunKeeps DEF RunFails

\* An object has gone before its GET.
LEMMA FetchMissingKeeps == ASSUME SyncInv, FetchMissing PROVE SyncInv'
<1>1. KeepOthers /\ (runner' = NoRun \/ runner' = Trying("fullscan"))
      /\ 0 <= srv.revision /\ "fullscan" \in Strategy
  BY DEF FetchMissing, SyncInv, SyncTypeOK, ServerState, Strategy
<1>2. CASE runner' = Trying("fullscan")
  BY <1>1, <1>2, TryingIs, BlankKeeps
<1> QED
  BY <1>1, <1>2, NoRunKeeps

\* persistIncrementalSyncSuccess, and the end of a run.
LEMMA PersistKeeps == ASSUME SyncInv, Persist PROVE SyncInv'
<1>1. /\ runner.pc = "persist" /\ runner' = NoRun
      /\ project' = [project EXCEPT !.strategy = runner.strategy]
      /\ UNCHANGED <<srv, rows, conflicts, user, requests, raced>>
  BY DEF Persist
<1>2. /\ project \in ProjectColumns /\ runner.strategy \in Strategy
      /\ runner.strategy \in {project.strategy, "fullscan"}
      /\ srv.revision \in Nat
  BY <1>1 DEF SyncInv, SyncTypeOK, RunState, RunOK, ServerState
<1>3. /\ project' \in ProjectColumns /\ project'.strategy = runner.strategy
      /\ project'.token = project.token /\ project'.ctag = project.ctag
  BY <1>1, <1>2 DEF ProjectColumns
<1>4. Covered' \in {Covered, 0}
  BY <1>2, <1>3 DEF Covered
<1>5. runner' = Blank("idle", "fullscan", 0)
  BY <1>1 DEF NoRun, Blank
<1> USE DEF SyncInv
<1>6. runner' \in RunState({}, {}) /\ DOMAIN runner'.report = {}
  <2>1. /\ <<>> \in Seq(Nat) /\ <<>> \in Seq(Object)
        /\ Len(<<>>) = 0 /\ 1 .. 0 = {}
    BY EmptySeq
  <2>2. <<>> \in [{} -> Nat] /\ <<>> \in [{} -> Object]
    BY <2>1, LenProperties
  <2> QED
    BY <1>5, <2>2 DEF Blank, RunState, Strategy
<1>7. SyncTypeOK'
  BY <1>1, <1>3, <1>6 DEF SyncTypeOK
<1>8. RowsOK' /\ ServerOK'
  BY <1>1 DEF RowsOK, ServerOK, Live, Exists
<1>9. ProjectOK'
  BY <1>1, <1>2, <1>3 DEF ProjectOK
<1>10. UserOK' /\ SyncedKnown'
  BY <1>1 DEF UserOK, SyncedKnown, Live, LastChange, Exists
<1>11. Known'
  <2> SUFFICES ASSUME NEW h \in Href, Settled(h, Covered)' PROVE Good(h)'
    BY DEF Known
  <2>1. LastChange(h)' = LastChange(h) /\ (Good(h)' <=> Good(h)) /\ raced' = raced
    BY <1>1 DEF LastChange, Good, Reflected, Marking, Live, Exists
  <2>2. LastChange(h) \in Nat /\ raced[h] \in Nat
    BY ChangeType DEF SyncTypeOK
  <2>3. Settled(h, Covered)
    BY <1>4, <2>1, <2>2 DEF Settled
  <2> QED
    BY <2>1, <2>3 DEF Known
<1>12. MarkIsNews'
  BY <1>1 DEF MarkIsNews, Marking, Live, LastChange, Exists
<1>13. RunOK' /\ ListOK' /\ Gathering'
  BY <1>1, <1>2, <1>5, <1>6 DEF RunOK, ListOK, Gathering, Blank
<1> QED
  BY <1>7, <1>8, <1>9, <1>10, <1>11, <1>12, <1>13

-----------------------------------------------------------------------------
(* Steps of the run that gather the answer.                                *)

\* The project's calendar has all the objects.
LEMMA TheObjects ==
    ASSUME SyncTypeOK, ServerOK
    PROVE  /\ ObjectsOf(srv, Cal) = {h \in Href : Exists(srv, h)}
           /\ \A h \in Href : Exists(srv, h) =>
                 /\ srv.objects[h] \in Object /\ srv.objects[h].uid = HomeUID[h]
                 /\ srv.objects[h].etag \in 1 .. srv.revision
                 /\ LastChange(h) = srv.objects[h].etag
           /\ \A h \in Href : ~Exists(srv, h) => LastChange(h) = srv.deleted[h]
           /\ srv.revision \in Nat
<1>1. ObjectsOf(srv, Cal) = {h \in Href : Exists(srv, h)}
  BY IncrementalAssumption DEF ObjectsOf
<1>2. srv.revision \in Nat /\ \A h \in Href : Exists(srv, h) => srv.objects[h] \in Object
  BY DEF SyncTypeOK, ServerState, Exists
<1> QED
  BY <1>1, <1>2 DEF ServerOK, LastChange

\* Of a run, one field at a time.
LEMMA RunFields ==
    ASSUME NEW known \in SUBSET Href, NEW reported \in SUBSET Href,
           NEW r \in RunState(known, reported)
    PROVE  /\ r = [pc |-> r.pc, strategy |-> r.strategy, states |-> r.states,
                   report |-> r.report, fetch |-> r.fetch, gone |-> r.gone,
                   meta |-> r.meta]
           /\ r.strategy \in Strategy /\ r.states \in [known -> Nat]
           /\ r.report \in [reported -> Object] /\ r.fetch \in SUBSET Href
           /\ r.gone \in SUBSET Href /\ r.meta \in Nat
           /\ DOMAIN r.report = reported /\ DOMAIN r.states = known
BY DEF RunState

\* A run that goes on to fetch or to apply.
LEMMA GatheredIs ==
    ASSUME NEW known \in SUBSET Href, NEW reported \in SUBSET Href,
           NEW r \in RunState(known, reported), NEW g, g = Gathered(r)
    PROVE  /\ g \in RunState(known, reported)
           /\ g.pc = IF r.fetch = {} THEN "apply" ELSE "fetch"
           /\ g.strategy = r.strategy /\ g.states = r.states /\ g.report = r.report
           /\ g.fetch = r.fetch /\ g.gone = r.gone /\ g.meta = r.meta
BY DEF Gathered, RunState

\* An answer is gathered: what there is to show.
LEMMA GatheringKeeps ==
    ASSUME SyncInv, KeepOthers, NEW known \in SUBSET Href, NEW reported \in SUBSET Href,
           runner' \in RunState(known, reported),
           runner'.pc \in {"fetch", "apply"},
           runner'.pc = "apply" => runner'.fetch = {},
           runner'.strategy = "webdav_sync" => project.strategy = "webdav_sync",
           runner'.strategy = "ctag" => project.strategy # "fullscan",
           runner'.pc = "fetch" => runner'.strategy # "fullscan",
           runner'.strategy = "webdav_sync" => runner'.fetch \subseteq reported,
           runner'.meta <= srv.revision,
           runner'.gone \cap (reported \cup runner'.fetch) = {},
           \A h \in reported : /\ runner'.report[h].uid = HomeUID[h]
                               /\ runner'.report[h].etag \in 1 .. srv.revision
                               /\ LastChange(h) > 0,
           \A h \in Href : Settled(h, Bound') => AnswerOK(h)'
    PROVE  SyncInv'
<1>1. DOMAIN runner'.report = reported
  BY DEF RunState
<1>2. srv' = srv /\ project' = project
  BY DEF KeepOthers
<1>3. RunType'
  BY DEF RunType
<1>4. \A h \in reported : LastChange(h)' = LastChange(h)
  BY OthersStay
<1>5. RunOK'
  BY <1>1, <1>2, <1>4 DEF RunOK
<1>6. ListOK'
  BY DEF ListOK
<1>7. Gathering'
  <2> SUFFICES ASSUME NEW h \in Href, Settled(h, Bound)' PROVE AnswerOK(h)'
    BY DEF Gathering
  <2>1. Settled(h, Bound')
    BY <1>2 DEF Settled, LastChange, Exists, KeepOthers
  <2> QED
    BY <2>1
<1> QED
  BY <1>3, <1>5, <1>6, <1>7, RunStepInv

\* What AnswerOK says after a step of the run.
LEMMA AnswerAfter ==
    ASSUME KeepOthers, NEW h \in Href,
           Exists(srv, h) =>
              /\ h \notin runner'.gone
              /\ All' => h \in DOMAIN runner'.report \cup runner'.fetch
              /\ h \in DOMAIN runner'.report
                    => runner'.report[h].etag = srv.objects[h].etag,
           ~Exists(srv, h) => h \notin DOMAIN runner'.report \cup runner'.fetch,
           ~All' /\ h \notin DOMAIN runner'.report \cup runner'.fetch \cup runner'.gone
              => Good(h)
    PROVE  AnswerOK(h)'
<1>1. srv' = srv /\ (Good(h)' <=> Good(h))
  BY OthersStay DEF KeepOthers
<1>2. Mentioned' = DOMAIN runner'.report \cup runner'.fetch
  BY DEF Mentioned
<1> QED
  BY <1>1, <1>2 DEF AnswerOK, Exists

\* The answer to sync-collection says what has changed since the token.
LEMMA SyncCollectionKeeps == ASSUME SyncInv, SyncCollection PROVE SyncInv'
<1> DEFINE changed == ReportedChanged(srv, Cal, project.token)
           report == [h \in changed |-> srv.objects[h]]
<1>1. KeepOthers /\ Tries("webdav_sync") /\ SyncTypeOK /\ ServerOK /\ Known
  BY DEF SyncCollection, SyncInv
<1>2. PICK bare \in Bodies(report), gone \in Deletions(project.token) :
         runner' = Gathered([Trying("webdav_sync") EXCEPT
                      !.report = report, !.fetch = bare, !.gone = gone,
                      !.meta = CTag(srv)])
  BY DEF SyncCollection
<1>3. project.strategy = "webdav_sync" /\ "webdav_sync" \in Strategy
      /\ project.token \in Nat
  BY <1>1, TriesMeans DEF Strategy, SyncTypeOK, ProjectColumns
<1>4. changed = {h \in Href : Exists(srv, h) /\ srv.objects[h].etag > project.token}
  BY <1>1, TheObjects DEF ReportedChanged
<1>5. /\ gone \subseteq {h \in Href : ~Exists(srv, h)}
      /\ project.token # 0 => gone = {h \in Href : ~Exists(srv, h) /\ srv.deleted[h] > project.token}
  BY IncrementalAssumption DEF Deletions, ReportedDeleted
<1>6. report \in [changed -> Object] /\ DOMAIN report = changed
      /\ \A h \in changed : report[h] = srv.objects[h]
  BY <1>1, <1>4, TheObjects
<1>7. bare \subseteq changed
  BY <1>6 DEF Bodies
<1>8. srv.revision \in Nat
  BY <1>1, TheObjects
<1> HIDE DEF changed, report
<1>9. PICK r : r = [Trying("webdav_sync") EXCEPT
                      !.report = report, !.fetch = bare, !.gone = gone,
                      !.meta = CTag(srv)]
  OBVIOUS
<1>10. r = [pc |-> "start", strategy |-> "webdav_sync", states |-> <<>>,
            report |-> report, fetch |-> bare, gone |-> gone, meta |-> srv.revision]
  BY <1>9 DEF Trying, NoRun, CTag
<1>11. <<>> \in [{} -> Nat]
  <2>1. <<>> \in Seq(Nat) /\ Len(<<>>) = 0 /\ 1 .. 0 = {}
    BY EmptySeq
  <2> QED
    BY <2>1, LenProperties
<1>12. r \in RunState({}, changed)
  BY <1>3, <1>4, <1>5, <1>6, <1>7, <1>8, <1>10, <1>11 DEF RunState
<1>13. /\ runner' \in RunState({}, changed)
       /\ runner'.pc = IF bare = {} THEN "apply" ELSE "fetch"
       /\ runner'.strategy = "webdav_sync" /\ runner'.report = report
       /\ runner'.fetch = bare /\ runner'.gone = gone /\ runner'.meta = srv.revision
  <2>1. runner' = Gathered(r) /\ {} \in SUBSET Href /\ changed \in SUBSET Href
    BY <1>2, <1>4, <1>9
  <2> QED
    BY <1>10, <1>12, <2>1, GatheredIs
<1>14. ASSUME NEW h \in Href, Settled(h, Bound')
       PROVE  AnswerOK(h)'
  <2>1. All' <=> project.token = 0
    BY <1>1, <1>13 DEF All, Baseline, KeepOthers
  <2>2. raced[h] < LastChange(h)
    BY <1>14 DEF Settled
  <2>3. Covered = project.token
    BY <1>3 DEF Covered
  <2>4. h \notin changed \cup gone /\ project.token # 0 => Good(h)
    <3> SUFFICES ASSUME h \notin changed \cup gone, project.token # 0 PROVE Good(h)
      OBVIOUS
    <3>1. LastChange(h) <= project.token
      <4>1. CASE Exists(srv, h)
        BY <1>1, <1>3, <1>4, <4>1, TheObjects
      <4>2. CASE ~Exists(srv, h)
        BY <1>1, <1>3, <1>5, <4>2, TheObjects, ChangeType
      <4> QED
        BY <4>1, <4>2
    <3> QED
      BY <1>1, <2>2, <2>3, <3>1 DEF Known, Settled
  <2>5. Exists(srv, h) => h \notin gone /\ (project.token = 0 => h \in changed)
    BY <1>1, <1>4, <1>5, TheObjects
  <2>6. ~Exists(srv, h) => h \notin changed
    BY <1>4
  <2> QED
    BY <1>1, <1>6, <1>7, <1>13, <2>1, <2>4, <2>5, <2>6, AnswerAfter
<1>15. \A h \in changed : /\ report[h].uid = HomeUID[h]
                          /\ report[h].etag \in 1 .. srv.revision
                          /\ LastChange(h) > 0
  BY <1>1, <1>4, <1>6, TheObjects
<1>16. gone \cap (changed \cup bare) = {}
  BY <1>4, <1>5, <1>7
<1>17. {} \in SUBSET Href /\ changed \in SUBSET Href /\ srv.revision <= srv.revision
  BY <1>4, <1>8
<1> QED
  BY <1>1, <1>3, <1>7, <1>13, <1>14, <1>15, <1>16, <1>17, GatheringKeeps

\* The answer of a full scan says everything.
LEMMA ScanFetchKeeps == ASSUME SyncInv, ScanFetch PROVE SyncInv'
<1> DEFINE stored == {h \in Href : Exists(srv, h)}
           report == [h \in stored |-> srv.objects[h]]
<1>1. KeepOthers /\ SyncTypeOK /\ ServerOK /\ "fullscan" \in Strategy
  BY DEF ScanFetch, SyncInv, Strategy
<1>2. VTODOReport(srv, Cal) = report
  BY <1>1, TheObjects DEF VTODOReport
<1>3. report \in [stored -> Object] /\ DOMAIN report = stored
      /\ \A h \in stored : report[h] = srv.objects[h]
  BY <1>1, TheObjects
<1>4. srv.revision \in Nat
  BY <1>1, TheObjects
<1> HIDE DEF report
<1>5. runner' = [pc |-> "apply", strategy |-> "fullscan", states |-> <<>>,
                 report |-> report, fetch |-> {}, gone |-> {}, meta |-> 0]
  BY <1>2 DEF ScanFetch, Trying, NoRun
<1>6. <<>> \in [{} -> Nat]
  <2>1. <<>> \in Seq(Nat) /\ Len(<<>>) = 0 /\ 1 .. 0 = {}
    BY EmptySeq
  <2> QED
    BY <2>1, LenProperties
<1>7. runner' \in RunState({}, stored)
  BY <1>1, <1>3, <1>5, <1>6 DEF RunState
<1>8. ASSUME NEW h \in Href, Settled(h, Bound')
      PROVE  AnswerOK(h)'
  <2>1. All'
    BY <1>5 DEF All
  <2> QED
    BY <1>1, <1>3, <1>5, <2>1, AnswerAfter
<1>9. \A h \in stored : /\ report[h].uid = HomeUID[h]
                        /\ report[h].etag \in 1 .. srv.revision
                        /\ LastChange(h) > 0
  BY <1>1, <1>3, TheObjects
<1>10. {} \in SUBSET Href /\ stored \in SUBSET Href /\ 0 <= srv.revision
  BY <1>4
<1>11. /\ runner'.pc = "apply" /\ runner'.strategy = "fullscan" /\ runner'.report = report
       /\ runner'.fetch = {} /\ runner'.gone = {} /\ runner'.meta = 0
  BY <1>5
<1> HIDE DEF stored
<1> QED
  BY <1>1, <1>7, <1>8, <1>9, <1>10, <1>11, GatheringKeeps

LEMMA MinOfOne == ASSUME NEW n \in Nat PROVE Min({n}) = n
BY DEF Min

\* What the rows say of themselves, as the ctag strategy reads it.
LEMMA ReadStatesKeeps == ASSUME SyncInv, ReadStates PROVE SyncInv'
<1> DEFINE hrefs == {rows[n].href : n \in Live}
           first(h) == Min({n \in Live : rows[n].href = h})
           states == [h \in hrefs |-> rows[first(h)].etag]
<1>1. KeepOthers /\ SyncTypeOK /\ ServerOK /\ RowsOK /\ UserOK /\ MarkIsNews /\ RunOK
      /\ runner.pc = "states" /\ runner' = [runner EXCEPT !.pc = "list", !.states = states]
  BY DEF ReadStates, SyncInv
<1>2. PICK known \in SUBSET Href, reported \in SUBSET Href :
         runner \in RunState(known, reported)
  BY <1>1 DEF SyncTypeOK
<1>3. ASSUME NEW n \in Live
      PROVE  /\ n \in DOMAIN rows /\ rows[n].href \in hrefs
             /\ states[rows[n].href] = rows[n].etag
  <2>1. n \in Nat /\ n \in DOMAIN rows
    BY <1>1, RowTask DEF Live
  <2>2. {m \in Live : rows[m].href = rows[n].href} = {n}
    BY <1>1 DEF RowsOK
  <2>3. first(rows[n].href) = n
    BY <2>1, <2>2, MinOfOne
  <2> QED
    BY <2>1, <2>3
<1>4. states \in [hrefs -> Nat] /\ hrefs \in SUBSET Href
  <2>1. \A n \in Live : rows[n].etag \in Nat /\ rows[n].href \in Href
    BY <1>1, <1>3, RowTask
  <2>2. \A h \in hrefs : states[h] \in Nat
    BY <1>3, <2>1
  <2> QED
    BY <2>1, <2>2
<1>5. \A n \in Live : rows[n].href \in hrefs
  OBVIOUS
<1>6. \A h \in hrefs : \E n \in Live : rows[n].href = h
  OBVIOUS
<1>7. DOMAIN states = hrefs
  OBVIOUS
<1> HIDE DEF hrefs, first, states
<1>8. /\ runner' \in RunState(hrefs, reported)
      /\ runner'.pc = "list" /\ runner'.states = states
      /\ runner'.strategy = runner.strategy /\ runner'.report = runner.report
      /\ runner'.fetch = runner.fetch /\ runner'.gone = runner.gone
      /\ runner'.meta = runner.meta
  BY <1>1, <1>2, <1>4 DEF RunState
<1>9. RunType'
  BY <1>4, <1>8 DEF RunType
<1>10. RunOK'
  <2>1. \A h : LastChange(h)' = LastChange(h)
    BY <1>1, OthersStay
  <2>2. srv' = srv /\ project' = project
    BY <1>1 DEF KeepOthers
  <2> QED
    BY <1>1, <1>8, <2>1, <2>2 DEF RunOK
<1>11. ListOK'
  <2> SUFFICES ASSUME NEW h \in Href, Settled(h, runner.meta)
               PROVE  /\ Exists(srv, h) /\ h \in hrefs
                         /\ states[h] = srv.objects[h].etag => Good(h)
                      /\ ~Exists(srv, h) /\ h \notin hrefs => Good(h)
    <3>1. /\ srv' = srv /\ \A g : (Good(g)' <=> Good(g))
          /\ \A g, bound : Settled(g, bound)' <=> Settled(g, bound)
      BY <1>1, OthersStay DEF KeepOthers
    <3>2. runner'.meta = runner.meta /\ runner'.states = states
      BY <1>8
    <3> QED
      BY <1>7, <1>8, <3>1 DEF ListOK, Exists
  <2>1. ASSUME Exists(srv, h), h \in hrefs, states[h] = srv.objects[h].etag
        PROVE  Good(h)
    <3>1. PICK n \in Live : rows[n].href = h
      BY <1>6, <2>1
    <3>2. rows[n].uid = srv.objects[h].uid /\ rows[n].etag = srv.objects[h].etag
      BY <1>1, <1>3, <2>1, <3>1 DEF RowsOK, ServerOK
    <3>3. Reflected(h)
      BY <2>1, <3>2 DEF Reflected
    <3>4. ~Marking(h)
      <4> SUFFICES ASSUME Marking(h) PROVE FALSE
        OBVIOUS
      <4>1. user.n \in Live /\ rows[user.n].href = h
        BY <1>1 DEF Marking, UserOK
      <4>2. user.n = n
        BY <1>1, <3>1, <4>1 DEF RowsOK
      <4>3. rows[user.n].etag < LastChange(h)
        BY <1>1 DEF MarkIsNews, Settled
      <4>4. LastChange(h) = srv.objects[h].etag /\ srv.objects[h].etag \in Nat
        BY <1>1, <2>1, TheObjects
      <4> QED
        BY <3>2, <4>2, <4>3, <4>4
    <3> QED
      BY <3>3, <3>4 DEF Good
  <2>2. ASSUME ~Exists(srv, h), h \notin hrefs
        PROVE  Good(h)
    <3>1. \A n \in Live : rows[n].href # h
      BY <1>5, <2>2
    <3>2. ~Marking(h)
      BY <1>1, <3>1 DEF Marking, UserOK
    <3> QED
      BY <2>2, <3>1, <3>2 DEF Good, Reflected
  <2> QED
    BY <2>1, <2>2
<1>12. Gathering'
  BY <1>8 DEF Gathering
<1> QED
  BY <1>1, <1>9, <1>10, <1>11, <1>12, RunStepInv

\* The ETags of all objects, against the rows' own.
LEMMA ListETagsKeeps == ASSUME SyncInv, ListETags PROVE SyncInv'
<1> DEFINE remote == ETagList(srv, Cal)
           fetch == {h \in DOMAIN remote : h \in DOMAIN runner.states
                                              => runner.states[h] # remote[h]}
           gone == DOMAIN runner.states \ DOMAIN remote
<1>1. /\ KeepOthers /\ SyncTypeOK /\ ServerOK /\ RunOK /\ ListOK
      /\ runner.pc = "list" /\ runner.strategy = "ctag" /\ DOMAIN runner.report = {}
      /\ project.strategy # "fullscan" /\ runner.meta <= srv.revision
      /\ runner' = Gathered([runner EXCEPT !.fetch = fetch, !.gone = gone])
  BY DEF ListETags, SyncInv, RunOK
<1>2. PICK known \in SUBSET Href, reported \in SUBSET Href :
         runner \in RunState(known, reported)
  BY <1>1 DEF SyncTypeOK
<1>3. DOMAIN runner.states = known /\ reported = {}
  BY <1>1, <1>2 DEF RunState
<1>4. /\ DOMAIN remote = {h \in Href : Exists(srv, h)}
      /\ \A h \in Href : Exists(srv, h) => remote[h] = srv.objects[h].etag
  BY <1>1, TheObjects DEF ETagList
<1>5. fetch = {h \in Href : Exists(srv, h) /\ (h \in known => runner.states[h] # srv.objects[h].etag)}
  BY <1>3, <1>4
<1>6. gone = {h \in known : ~Exists(srv, h)}
  BY <1>2, <1>3, <1>4
<1> HIDE DEF fetch, gone, remote
<1>7. PICK r : r = [runner EXCEPT !.fetch = fetch, !.gone = gone]
  OBVIOUS
<1>8. /\ r \in RunState(known, {}) /\ r.fetch = fetch /\ r.gone = gone
      /\ r.report = runner.report /\ r.strategy = "ctag" /\ r.meta = runner.meta
  BY <1>1, <1>2, <1>3, <1>5, <1>6, <1>7 DEF RunState
<1>9. /\ runner' \in RunState(known, {})
      /\ runner'.pc = (IF fetch = {} THEN "apply" ELSE "fetch")
      /\ runner'.strategy = "ctag" /\ runner'.report = runner.report
      /\ runner'.fetch = fetch /\ runner'.gone = gone /\ runner'.meta = runner.meta
  <2>1. runner' = Gathered(r) /\ {} \in SUBSET Href
    BY <1>1, <1>7
  <2> QED
    BY <1>8, <2>1, GatheredIs
<1>10. ASSUME NEW h \in Href, Settled(h, Bound')
       PROVE  AnswerOK(h)'
  <2>1. ~All'
    BY <1>9 DEF All, Baseline
  <2>2. Settled(h, runner.meta)
    BY <1>9, <1>10 DEF Bound
  <2>3. h \notin fetch \cup gone => Good(h)
    BY <1>1, <1>3, <1>5, <1>6, <2>2 DEF ListOK
  <2>4. /\ Exists(srv, h) => h \notin gone
        /\ ~Exists(srv, h) => h \notin fetch
    BY <1>5, <1>6
  <2> QED
    BY <1>1, <1>9, <2>1, <2>3, <2>4, AnswerAfter
<1>11. gone \cap ({} \cup fetch) = {} /\ {} \in SUBSET Href
  BY <1>5, <1>6
<1> QED
  BY <1>1, <1>9, <1>10, <1>11, GatheringKeeps

\* What a GET adds to the report.
LEMMA FetchedIs ==
    ASSUME SyncTypeOK, ServerOK, RunOK, NEW h \in Href, h \in runner.fetch,
           runner.pc = "fetch", Exists(srv, h)
    PROVE  /\ FetchedObject(h) \in Object /\ FetchedObject(h).uid = HomeUID[h]
           /\ FetchedObject(h).etag \in 1 .. srv.revision
           /\ FetchedObject(h).etag = IF runner.strategy = "webdav_sync"
                                      THEN runner.report[h].etag
                                      ELSE srv.objects[h].etag
<1>1. srv.objects[h] \in Object /\ srv.objects[h].uid = HomeUID[h]
      /\ srv.objects[h].etag \in 1 .. srv.revision /\ srv.revision \in Nat
  BY TheObjects
<1>2. CASE runner.strategy = "webdav_sync"
  <2>1. runner.report[h].etag \in 1 .. srv.revision
    BY <1>2 DEF RunOK
  <2>2. PICK etag : etag = runner.report[h].etag
    OBVIOUS
  <2>3. FetchedObject(h) = [srv.objects[h] EXCEPT !.etag = etag] /\ etag \in Nat
    BY <1>1, <1>2, <2>1, <2>2 DEF FetchedObject
  <2> QED
    BY <1>1, <1>2, <2>1, <2>2, <2>3 DEF Object
<1>3. CASE runner.strategy # "webdav_sync"
  BY <1>1, <1>3 DEF FetchedObject
<1> QED
  BY <1>2, <1>3

\* A GET adds an object as it is now.
LEMMA FetchKeeps == ASSUME SyncInv, Fetch PROVE SyncInv'
<1>1. PICK h \in runner.fetch :
        /\ runner.pc = "fetch" /\ Exists(srv, h)
        /\ runner' = Gathered([runner EXCEPT !.fetch = @ \ {h},
                                       !.report = With(@, h)])
        /\ KeepOthers
  BY DEF Fetch
<1>2. SyncTypeOK /\ ServerOK /\ RunOK /\ Gathering
  BY DEF SyncInv
<1>3. PICK known \in SUBSET Href, reported \in SUBSET Href :
         runner \in RunState(known, reported)
  BY <1>2 DEF SyncTypeOK
<1>4. /\ h \in Href /\ DOMAIN runner.report = reported
      /\ runner.strategy # "fullscan" /\ runner.gone \cap (reported \cup runner.fetch) = {}
      /\ runner.fetch \subseteq Href /\ runner.strategy \in Strategy
  BY <1>1, <1>2, <1>3 DEF RunState, RunOK
<1> DEFINE object == FetchedObject(h)
           more == reported \cup {h}
           report == With(runner.report, h)
<1>5. /\ object \in Object /\ object.uid = HomeUID[h]
      /\ object.etag \in 1 .. srv.revision
      /\ object.etag = IF runner.strategy = "webdav_sync" THEN runner.report[h].etag
                                                          ELSE srv.objects[h].etag
  BY <1>1, <1>2, <1>4, FetchedIs
<1> HIDE DEF object
<1>6. report = [g \in more |-> IF g = h THEN object ELSE runner.report[g]]
  BY <1>4 DEF object, With
<1>7. /\ report \in [more -> Object] /\ DOMAIN report = more /\ report[h] = object
      /\ \A g \in reported : g # h => report[g] = runner.report[g]
  BY <1>3, <1>5, <1>6 DEF RunState
<1> HIDE DEF report
<1>8. PICK r : r = [runner EXCEPT !.fetch = runner.fetch \ {h}, !.report = report]
  OBVIOUS
<1>9. more \in SUBSET Href
  BY <1>4
<1>10. /\ r \in RunState(known, more) /\ r.fetch = runner.fetch \ {h} /\ r.gone = runner.gone
       /\ r.report = report /\ r.strategy = runner.strategy /\ r.meta = runner.meta
  BY <1>3, <1>7, <1>8, <1>9 DEF RunState
<1> HIDE DEF more
<1>11. /\ runner' \in RunState(known, more)
       /\ runner'.pc = (IF runner.fetch \ {h} = {} THEN "apply" ELSE "fetch")
       /\ runner'.strategy = runner.strategy /\ runner'.report = report
       /\ runner'.fetch = runner.fetch \ {h} /\ runner'.gone = runner.gone
       /\ runner'.meta = runner.meta
  <2>1. runner' = Gathered(r)
    <3>1. runner' = Gathered([runner EXCEPT !.fetch = runner.fetch \ {h}, !.report = report])
      BY <1>1, <1>3 DEF report, RunState
    <3> QED
      BY <1>8, <3>1
  <2> QED
    BY <1>9, <1>10, <2>1, GatheredIs
<1>12. \A g \in more : /\ report[g].uid = HomeUID[g]
                       /\ report[g].etag \in 1 .. srv.revision
                       /\ LastChange(g) > 0
  <2>1. LastChange(h) > 0
    BY <1>1, <1>2, <1>4, ChangeType
  <2> QED
    BY <1>2, <1>4, <1>5, <1>7, <2>1 DEF RunOK, more
<1>13. ASSUME NEW g \in Href, Settled(g, Bound')
       PROVE  AnswerOK(g)'
  <2>1. Bound' = Bound /\ (All' <=> All)
    BY <1>1, <1>4, <1>11 DEF Bound, All, Baseline, KeepOthers
  <2>2. AnswerOK(g)
    BY <1>1, <1>2, <1>13, <2>1 DEF Gathering
  <2>3. more \cup (runner.fetch \ {h}) = Mentioned
    BY <1>1, <1>4 DEF Mentioned, more
  <2>4. Exists(srv, g) /\ g \in more => report[g].etag = srv.objects[g].etag
    <3>1. CASE g = h
      <4>1. runner.strategy = "webdav_sync" => h \in DOMAIN runner.report
        BY <1>1, <1>2 DEF RunOK
      <4> QED
        BY <1>5, <1>7, <2>2, <3>1, <4>1 DEF AnswerOK
    <3>2. CASE g # h
      BY <1>4, <1>7, <2>2, <3>2 DEF AnswerOK, more
    <3> QED
      BY <3>1, <3>2
  <2> QED
    BY <1>1, <1>7, <1>11, <2>1, <2>2, <2>3, <2>4, AnswerAfter DEF AnswerOK
<1>14. runner.gone \cap (more \cup (runner.fetch \ {h})) = {}
  BY <1>1, <1>4 DEF more
<1>15. runner.strategy = "webdav_sync" => (runner.fetch \ {h}) \subseteq more
  BY <1>1, <1>2, <1>4 DEF RunOK, more
<1>16. /\ runner.strategy = "webdav_sync" => project.strategy = "webdav_sync"
       /\ runner.strategy = "ctag" => project.strategy # "fullscan"
       /\ runner.meta <= srv.revision
  BY <1>1, <1>2 DEF RunOK
<1> QED
  BY <1>1, <1>4, <1>7, <1>9, <1>11, <1>12, <1>13, <1>14, <1>15, <1>16, GatheringKeeps

-----------------------------------------------------------------------------
(* Applying an answer.                                                     *)

\* An order of a set has each of its elements once.
LEMMA OrderIs ==
    ASSUME NEW S, IsFiniteSet(S), NEW order \in SetToSeqs(S)
    PROVE  /\ order \in Seq(S) /\ Len(order) \in Nat
           /\ \A i \in 1 .. Len(order) : order[i] \in S
           /\ \A i, j \in 1 .. Len(order) : order[i] = order[j] => i = j
           /\ \A x \in S : \E i \in 1 .. Len(order) : order[i] = x
<1> DEFINE n == Cardinality(S)
<1>1. n \in Nat
  BY FS_CardinalityType
<1>2. order \in [1 .. n -> S] /\ \A i, j \in 1 .. n : i # j => order[i] # order[j]
  BY DEF SetToSeqs
<1>3. order \in Seq(S) /\ Len(order) = n
  BY <1>1, <1>2, LenProperties
<1>4. ASSUME NEW x \in S, \A i \in 1 .. n : order[i] # x
      PROVE  FALSE
  <2> DEFINE T == S \ {x}
  <2>1. IsFiniteSet(T) /\ Cardinality(T) = n - 1
    BY FS_RemoveElement
  <2>2. IsFiniteSet(1 .. n) /\ Cardinality(1 .. n) = n
    BY <1>1, FS_Interval
  <2>3. order \in [1 .. n -> T]
    BY <1>2, <1>4
  <2>4. Cardinality(T) < Cardinality(1 .. n)
    BY <1>1, <2>1, <2>2
  <2> HIDE DEF T, n
  <2>5. \E i, j \in 1 .. n : i # j /\ order[i] = order[j]
    BY <2>1, <2>2, <2>3, <2>4, FS_PigeonHole
  <2> QED
    BY <1>2, <2>5
<1> QED
  BY <1>1, <1>2, <1>3, <1>4

\* The loop over the objects, step by step.
Start == [rows |-> rows, conflicts |-> conflicts, ok |-> TRUE, seen |-> {}]

StepOf(out, report, order, byHref, i) ==
    IF ~FirstOfUID(report, order, i) THEN out
    ELSE ApplyObject(out, rows, report[order[i]], order[i], byHref)

Loop(g, n, report, order, byHref) ==
    g = [i \in 0 .. n |-> IF i = 0 THEN Start
                          ELSE StepOf(g[i - 1], report, order, byHref, i)]

\* Every loop has a record of its steps.
LEMMA LoopExists ==
    ASSUME NEW report, NEW order, NEW byHref, NEW n \in Nat
    PROVE  \E g : Loop(g, n, report, order, byHref)
<1> DEFINE step(out, i) == StepOf(out, report, order, byHref, i)
           is(g, k) == g = [i \in 0 .. k |-> IF i = 0 THEN Start ELSE step(g[i - 1], i)]
           bad == {k \in 0 .. n : ~ \E g : is(g, k)}
<1> HIDE DEF step
<1>1. SUFFICES ASSUME bad # {} PROVE FALSE
  <2>1. bad = {} => \E g : is(g, n)
    OBVIOUS
  <2> QED
    BY <2>1 DEF Loop, step
<1>2. PICK k \in bad : \A j \in bad : k <= j
  <2>1. bad \in SUBSET (0 .. n)
    OBVIOUS
  <2> HIDE DEF bad
  <2> QED
    BY <1>1, <2>1, LeastExists
<1>3. k \in 0 .. n /\ ~ \E g : is(g, k)
  BY <1>2
<1>4. k # 0
  <2>1. PICK g : g = [i \in 0 .. 0 |-> Start]
    OBVIOUS
  <2>2. is(g, 0)
    BY <2>1
  <2> QED
    BY <1>3, <2>2
<1>5. k - 1 \in 0 .. n /\ k - 1 \notin bad
  <2>1. k - 1 \in 0 .. n /\ ~ (k <= k - 1)
    BY <1>3, <1>4
  <2> HIDE DEF bad
  <2> QED
    BY <1>2, <2>1
<1>6. PICK g : is(g, k - 1)
  BY <1>5
<1>7. PICK f : f = [i \in 0 .. k |-> IF i < k THEN g[i] ELSE step(g[k - 1], k)]
  OBVIOUS
<1>8. \A i \in 0 .. k : f[i] = IF i = 0 THEN Start ELSE step(f[i - 1], i)
  <2> TAKE i \in 0 .. k
  <2>1. CASE i = k
    BY <1>3, <1>4, <1>7, <2>1
  <2>2. CASE i < k /\ i # 0
    <3>1. f[i] = g[i] /\ f[i - 1] = g[i - 1]
      BY <1>3, <1>7, <2>2
    <3>2. g[i] = step(g[i - 1], i)
      BY <1>3, <1>6, <2>2
    <3> QED
      BY <2>2, <3>1, <3>2
  <2>3. CASE i < k /\ i = 0
    BY <1>3, <1>4, <1>6, <1>7, <2>3
  <2> QED
    BY <1>3, <2>1, <2>2, <2>3
<1>9. is(f, k)
  BY <1>7, <1>8
<1> QED
  BY <1>3, <1>9

\* ApplyObjects is the last of them.
LEMMA LoopIs ==
    ASSUME NEW report, NEW order, NEW byHref, Len(order) \in Nat
    PROVE  \E g : /\ Loop(g, Len(order), report, order, byHref)
                  /\ ApplyObjects(rows, report, order, byHref) = g[Len(order)]
<1> DEFINE h == CHOOSE g : Loop(g, Len(order), report, order, byHref)
<1>1. Loop(h, Len(order), report, order, byHref)
  BY LoopExists
<1>2. ApplyObjects(rows, report, order, byHref) = h[Len(order)]
  BY DEF ApplyObjects, Loop, StepOf, Start
<1> QED
  BY <1>1, <1>2

Verdicts == {"keep", "import", "merge", "field_conflict", "edit_delete", "delete"}

\* A row after a verdict: the same task, and how far it knows the server.
LEMMA AfterVerdictTask ==
    ASSUME NEW row \in Task, NEW etag \in Nat, NEW remote \in Text,
           NEW verdict \in Verdicts,
           verdict \in {"import", "merge"} => remote # NoText,
           NEW new, new = AfterVerdict(row, verdict, remote, etag)
    PROVE  /\ new \in Task /\ new.uid = row.uid /\ new.href = row.href
           /\ verdict = "keep" => new = row
           /\ verdict \in {"import", "merge"} => new.etag = etag /\ new.status = "synced"
           /\ verdict = "import" => new.raw = remote
           /\ verdict \in {"field_conflict", "edit_delete"} => new.status = "conflict"
           /\ verdict = "delete" => new.status = "absent"
           /\ new.etag \in {row.etag, etag}
<1>1. row.base \in Content /\ row.raw \in Content /\ row.ver + 1 \in Nat
      /\ row.etag \in Nat
  BY DEF Task
<1>2. {"synced", "absent", "conflict"} \subseteq SyncStatus
  BY DEF SyncStatus
<1>3. CASE verdict = "keep"
  BY <1>3 DEF AfterVerdict
<1>4. CASE verdict = "import"
  <2>1. new = Imported(row, remote, etag) /\ remote \in Content
    BY <1>4, ContentText DEF AfterVerdict
  <2> QED
    BY <1>1, <1>2, <1>4, <2>1 DEF Imported, Task
<1>5. CASE verdict = "merge"
  <2>1. MergedVTODO(row.base, row.raw, remote) \in Content
    BY <1>1, <1>5, MergedType, ContentText
  <2>2. PICK content \in Content : content = MergedVTODO(row.base, row.raw, remote)
    BY <2>1
  <2>3. new = Imported(row, content, etag)
    BY <1>5, <2>2 DEF AfterVerdict
  <2> QED
    BY <1>1, <1>2, <1>5, <2>3 DEF Imported, Task
<1>6. CASE verdict = "field_conflict"
  <2>1. new = Conflicted(row, etag)
    BY <1>6 DEF AfterVerdict
  <2> QED
    BY <1>1, <1>2, <1>6, <2>1 DEF Conflicted, Task
<1>7. CASE verdict = "edit_delete"
  <2>1. new = Conflicted(row, 0)
    BY <1>7 DEF AfterVerdict
  <2> QED
    BY <1>1, <1>2, <1>7, <2>1 DEF Conflicted, Task
<1>8. CASE verdict = "delete"
  <2>1. new = [row EXCEPT !.status = "absent"]
    BY <1>8 DEF AfterVerdict
  <2> QED
    BY <1>1, <1>2, <1>8, <2>1 DEF Task
<1> QED
  BY <1>3, <1>4, <1>5, <1>6, <1>7, <1>8 DEF Verdicts

\* A verdict's entry in conflicts.
LEMMA VerdictEntry ==
    ASSUME NEW list \in Seq(Conflict), NEW row \in Task, NEW remote \in Text,
           NEW verdict \in Verdicts
    PROVE  ConflictsAfterVerdict(list, row, verdict, remote) \in Seq(Conflict)
<1>1. CASE verdict \in {"field_conflict", "edit_delete"}
  <2>1. PICK text \in Text : text = IF verdict = "edit_delete" THEN NoText ELSE remote
    BY DEF Text
  <2>2. PICK entry : entry = NewConflict(verdict, row.base, row.raw, text)
    OBVIOUS
  <2>3. entry \in Conflict
    BY <1>1, <2>2 DEF NewConflict, Conflict, Task
  <2>4. ConflictsAfterVerdict(list, row, verdict, remote) = Append(list, entry)
    BY <1>1, <2>1, <2>2 DEF ConflictsAfterVerdict
  <2> QED
    BY <2>3, <2>4, AppendProperties
<1>2. CASE verdict \notin {"field_conflict", "edit_delete"}
  BY <1>2 DEF ConflictsAfterVerdict
<1> QED
  BY <1>1, <1>2

\* What the transaction has made of the rows.
Outcome(out) ==
    /\ out = [rows |-> out.rows, conflicts |-> out.conflicts, ok |-> TRUE,
              seen |-> out.seen]
    /\ out.rows \in Seq(Task) /\ out.conflicts \in Seq(Seq(Conflict))
    /\ Len(out.conflicts) = Len(out.rows) /\ Len(rows) <= Len(out.rows)

\* Its fields.
LEMMA OutcomeFields ==
    ASSUME NEW out, Outcome(out)
    PROVE  /\ DOMAIN out.rows = 1 .. Len(out.rows) /\ Len(out.rows) \in Nat
           /\ DOMAIN out.conflicts = DOMAIN out.rows
           /\ \A n \in DOMAIN out.rows : /\ out.rows[n] \in Task
                                         /\ out.conflicts[n] \in Seq(Conflict)
           /\ out.ok = TRUE
<1>1. /\ DOMAIN out.rows = 1 .. Len(out.rows) /\ Len(out.rows) \in Nat
      /\ DOMAIN out.conflicts = 1 .. Len(out.conflicts)
  BY LenProperties DEF Outcome
<1>2. \A n \in 1 .. Len(out.rows) : out.rows[n] \in Task
  BY ElementOfSeq DEF Outcome
<1>3. \A n \in 1 .. Len(out.conflicts) : out.conflicts[n] \in Seq(Conflict)
  BY ElementOfSeq DEF Outcome
<1>4. out.ok = TRUE
  BY DEF Outcome
<1> QED
  BY <1>1, <1>2, <1>3, <1>4 DEF Outcome

\* Writing a row that nobody has written since it was loaded.
LEMMA WriteIs ==
    ASSUME SyncTypeOK, NEW out, Outcome(out), NEW n \in Live, out.rows[n] = rows[n],
           NEW remote \in Text, NEW etag \in Nat,
           NEW verdict \in Verdicts,
           verdict \in {"import", "merge"} => remote # NoText,
           NEW new, new = Write(out, rows, n, verdict, remote, etag)
    PROVE  /\ Outcome(new) /\ Len(new.rows) = Len(out.rows) /\ new.seen = out.seen
           /\ new.rows[n] = AfterVerdict(rows[n], verdict, remote, etag)
           /\ \A m \in DOMAIN out.rows : m # n => new.rows[m] = out.rows[m]
<1>1. /\ n \in DOMAIN rows /\ rows[n] \in Task /\ rows[n].status # "absent"
      /\ n \in 1 .. Len(rows)
  BY RowTask DEF Live
<1>2. /\ Len(out.rows) \in Nat /\ DOMAIN out.rows = 1 .. Len(out.rows)
      /\ DOMAIN out.conflicts = DOMAIN out.rows
      /\ \A m \in DOMAIN out.rows : /\ out.rows[m] \in Task
                                    /\ out.conflicts[m] \in Seq(Conflict)
  BY OutcomeFields
<1>3. Len(rows) \in Nat
  BY LenProperties DEF SyncTypeOK
<1>4. n \in 1 .. Len(out.rows)
  BY <1>1, <1>2, <1>3 DEF Outcome
<1>5. CASE verdict = "keep"
  BY <1>5 DEF Write, AfterVerdict
<1>6. CASE verdict # "keep"
  <2>1. PICK row : row = AfterVerdict(rows[n], verdict, remote, etag)
    OBVIOUS
  <2>2. PICK list : list = ConflictsAfterVerdict(out.conflicts[n], rows[n], verdict, remote)
    OBVIOUS
  <2>3. row \in Task /\ list \in Seq(Conflict)
    <3>1. row \in Task
      <4>1. PICK loaded \in Task : loaded = rows[n]
        BY <1>1
      <4>2. row = AfterVerdict(loaded, verdict, remote, etag)
        BY <2>1, <4>1
      <4> QED
        BY <4>2, AfterVerdictTask
    <3>2. out.conflicts[n] \in Seq(Conflict)
      BY <1>2, <1>4
    <3> QED
      BY <1>1, <2>2, <3>1, <3>2, VerdictEntry
  <2>4. new = [rows |-> [out.rows EXCEPT ![n] = row],
               conflicts |-> [out.conflicts EXCEPT ![n] = list],
               ok |-> TRUE, seen |-> out.seen]
    <3>1. PICK a, b, s : out = [rows |-> a, conflicts |-> b, ok |-> TRUE, seen |-> s]
      BY DEF Outcome
    <3>2. out.rows = a /\ out.conflicts = b /\ out.seen = s
      BY <3>1
    <3>3. ~(out.rows[n].ver # rows[n].ver \/ out.rows[n].status = "absent")
      BY <1>1
    <3>4. new = [out EXCEPT !.rows[n] = AfterVerdict(@, verdict, remote, etag),
                            !.conflicts[n] = ConflictsAfterVerdict(@, rows[n], verdict, remote)]
      BY <1>6, <3>3 DEF Write
    <3>5. new = [rows |-> [a EXCEPT ![n] = AfterVerdict(a[n], verdict, remote, etag)],
                 conflicts |-> [b EXCEPT ![n] =
                     ConflictsAfterVerdict(b[n], rows[n], verdict, remote)],
                 ok |-> TRUE, seen |-> s]
      BY <3>1, <3>4
    <3>6. AfterVerdict(a[n], verdict, remote, etag) = row
          /\ ConflictsAfterVerdict(b[n], rows[n], verdict, remote) = list
      BY <2>1, <2>2, <3>2
    <3> QED
      BY <3>2, <3>5, <3>6
  <2>5. /\ new.rows \in Seq(Task) /\ Len(new.rows) = Len(out.rows)
        /\ \A m \in 1 .. Len(out.rows) : new.rows[m] = IF m = n THEN row ELSE out.rows[m]
    BY <1>4, <2>3, <2>4, ExceptSeq DEF Outcome
  <2>6. new.conflicts \in Seq(Seq(Conflict)) /\ Len(new.conflicts) = Len(out.conflicts)
    BY <1>4, <2>3, <2>4, ExceptSeq DEF Outcome
  <2>7. Outcome(new)
    BY <2>4, <2>5, <2>6 DEF Outcome
  <2> QED
    BY <1>2, <1>4, <2>1, <2>4, <2>5, <2>7
<1> QED
  BY <1>5, <1>6

-----------------------------------------------------------------------------
\* An answer's objects are those that Caldo knows by their UIDs.
GoodReport(report) == /\ DOMAIN report \subseteq Href
                      /\ \A h \in DOMAIN report : /\ report[h] \in Object
                                                  /\ report[h].uid = HomeUID[h]

NoRowAt(h) == \A n \in Live : rows[n].href # h

NewRow(object, h) == TaskAt(ImportedRow(object.vtodo, object.etag), object.uid, h)

AfterObject(n, object) ==
    AfterVerdict(rows[n], Verdict(rows[n], object.vtodo, object.etag),
                 object.vtodo, object.etag)

AddedRows(out, report, D) ==
    /\ \A n \in DOMAIN out.rows \ DOMAIN rows :
          \E h \in D : NoRowAt(h) /\ out.rows[n] = NewRow(report[h], h)
    /\ \A h \in D : NoRowAt(h) =>
          \E n \in DOMAIN out.rows \ DOMAIN rows : out.rows[n] = NewRow(report[h], h)
    /\ \A m, n \in DOMAIN out.rows \ DOMAIN rows :
          out.rows[m].href = out.rows[n].href => m = n

\* The objects at the hrefs D have been applied.
AppliedTo(out, report, D) ==
    /\ Outcome(out)
    /\ out.seen = {n \in Live : rows[n].href \in D}
    /\ \A n \in DOMAIN rows :
          out.rows[n] = IF n \in Live /\ rows[n].href \in D
                        THEN AfterObject(n, report[rows[n].href]) ELSE rows[n]
    /\ AddedRows(out, report, D)

\* A new row has the object's text and etag.
LEMMA NewRowTask ==
    ASSUME NEW object \in Object, NEW h \in Href
    PROVE  LET new == NewRow(object, h)
           IN  /\ new \in Task /\ new.uid = object.uid /\ new.href = h
               /\ new.raw = object.vtodo /\ new.etag = object.etag
               /\ new.status = "synced"
<1>1. "synced" \in SyncStatus /\ 1 \in Nat
  BY DEF SyncStatus
<1> QED
  BY <1>1 DEF NewRow, TaskAt, ImportedRow, Object, Task

\* An object finds the only row at its href, by UID and by href.
LEMMA TheRow ==
    ASSUME SyncTypeOK, RowsOK, NEW h \in Href
    PROVE  /\ NoRowAt(h) => ByUID(rows, HomeUID[h]) = 0 /\ ByHref(rows, h) = 0
           /\ \A n \in Live : rows[n].href = h =>
                 ByUID(rows, HomeUID[h]) = n /\ ByHref(rows, h) = n
<1> DEFINE uids == {n \in DOMAIN rows : rows[n].status # "absent" /\ rows[n].uid = HomeUID[h]}
           hrefs == {n \in DOMAIN rows : rows[n].status # "absent" /\ rows[n].href = h}
<1>1. uids = hrefs
  BY RowTask, IncrementalAssumption DEF RowsOK
<1>2. hrefs = {n \in Live : rows[n].href = h}
  BY DEF Live
<1>3. ASSUME NoRowAt(h) PROVE ByUID(rows, HomeUID[h]) = 0 /\ ByHref(rows, h) = 0
  <2>1. hrefs = {}
    BY <1>2, <1>3 DEF NoRowAt
  <2> QED
    BY <1>1, <2>1 DEF ByUID, ByHref
<1>4. ASSUME NEW n \in Live, rows[n].href = h
      PROVE  ByUID(rows, HomeUID[h]) = n /\ ByHref(rows, h) = n
  <2>1. hrefs = {n}
    BY <1>2, <1>4 DEF RowsOK
  <2>2. n \in Nat
    BY RowTask DEF Live
  <2>3. Min({n}) = n /\ Max({n}) = n
    BY <2>2 DEF Min, Max
  <2> QED
    BY <1>1, <2>1, <2>3 DEF ByUID, ByHref
<1> QED
  BY <1>3, <1>4

\* A row is added for an object that no row is for.
LEMMA InsertStep ==
    ASSUME SyncTypeOK, RowsOK, NEW report, GoodReport(report),
           NEW D \in SUBSET DOMAIN report, NEW h \in DOMAIN report \ D,
           NEW out, AppliedTo(out, report, D), NEW byHref \in BOOLEAN, NoRowAt(h),
           NEW new, new = ApplyObject(out, rows, report[h], h, byHref)
    PROVE  AppliedTo(new, report, D \cup {h})
<1>1. h \in Href /\ report[h] \in Object /\ report[h].uid = HomeUID[h]
  BY DEF GoodReport
<1>2. ByUID(rows, report[h].uid) = 0 /\ (IF byHref THEN ByHref(rows, h) ELSE 0) = 0
  BY <1>1, TheRow
<1>3. new = Insert(out, report[h], h)
  BY <1>2, Zenon DEF ApplyObject
<1>4. Outcome(out)
  BY DEF AppliedTo
<1>5. new = [rows |-> Append(out.rows, NewRow(report[h], h)),
             conflicts |-> Append(out.conflicts, <<>>), ok |-> TRUE, seen |-> out.seen]
  <2>1. PICK a, b, s : out = [rows |-> a, conflicts |-> b, ok |-> TRUE, seen |-> s]
    BY <1>4 DEF Outcome
  <2>2. out.rows = a /\ out.conflicts = b /\ out.seen = s
    BY <2>1
  <2> QED
    BY <1>3, <2>1, <2>2 DEF Insert, NewRow
<1>6. PICK row : row = NewRow(report[h], h)
  OBVIOUS
<1>7. row \in Task /\ row.href = h
  BY <1>1, <1>6, NewRowTask
<1>8. PICK last : last = Len(out.rows) + 1
  OBVIOUS
<1>9. /\ DOMAIN out.rows = 1 .. Len(out.rows) /\ Len(out.rows) \in Nat
      /\ Len(rows) \in Nat /\ DOMAIN rows = 1 .. Len(rows) /\ Len(rows) <= Len(out.rows)
      /\ \A n \in DOMAIN out.rows : out.rows[n] \in Task
  BY <1>4, OutcomeFields, LenProperties DEF Outcome, SyncTypeOK
<1>10. /\ new.rows \in Seq(Task) /\ Len(new.rows) = last
       /\ new.rows[last] = row
       /\ \A n \in DOMAIN out.rows : new.rows[n] = out.rows[n]
       /\ DOMAIN new.rows = DOMAIN out.rows \cup {last}
       /\ last \notin DOMAIN rows /\ last \notin DOMAIN out.rows
       /\ DOMAIN rows \subseteq DOMAIN out.rows
  <2>1. new.rows = Append(out.rows, row) /\ out.rows \in Seq(Task)
    BY <1>4, <1>5, <1>6 DEF Outcome
  <2>2. /\ new.rows \in Seq(Task) /\ Len(new.rows) = last
        /\ \A n \in 1 .. Len(out.rows) : new.rows[n] = out.rows[n]
        /\ new.rows[last] = row
    BY <1>7, <1>8, <2>1, AppendProperties
  <2>3. DOMAIN new.rows = 1 .. last
    BY <2>2, LenProperties
  <2> QED
    BY <1>8, <1>9, <2>2, <2>3
<1>11. new.conflicts \in Seq(Seq(Conflict)) /\ Len(new.conflicts) = Len(out.conflicts) + 1
  <2>1. <<>> \in Seq(Conflict) /\ new.conflicts = Append(out.conflicts, <<>>)
    BY <1>5, EmptySeq
  <2> QED
    BY <1>4, <2>1, AppendProperties DEF Outcome
<1>12. Outcome(new) /\ new.seen = out.seen
  BY <1>4, <1>5, <1>8, <1>9, <1>10, <1>11 DEF Outcome
<1>13. new.seen = {n \in Live : rows[n].href \in D \cup {h}}
  BY <1>12 DEF AppliedTo, NoRowAt
<1>14. \A n \in DOMAIN rows :
          new.rows[n] = IF n \in Live /\ rows[n].href \in D \cup {h}
                        THEN AfterObject(n, report[rows[n].href]) ELSE rows[n]
  BY <1>10 DEF AppliedTo, NoRowAt
<1>15. \A n \in DOMAIN new.rows \ DOMAIN rows :
          \/ n = last
          \/ n \in DOMAIN out.rows \ DOMAIN rows /\ new.rows[n] = out.rows[n]
  BY <1>10
<1>16. \A n \in DOMAIN out.rows \ DOMAIN rows :
          \E g \in D : out.rows[n] = NewRow(report[g], g) /\ NoRowAt(g)
  BY DEF AppliedTo, AddedRows
<1>17. \A n \in DOMAIN out.rows \ DOMAIN rows : out.rows[n].href # h
  <2> TAKE n \in DOMAIN out.rows \ DOMAIN rows
  <2>1. PICK g \in D : out.rows[n] = NewRow(report[g], g)
    BY <1>16
  <2>2. g \in Href /\ report[g] \in Object
    BY DEF GoodReport
  <2> QED
    BY <2>1, <2>2, NewRowTask
<1>18. AddedRows(new, report, D \cup {h})
  <2>1. \A n \in DOMAIN new.rows \ DOMAIN rows :
           \E g \in D \cup {h} : NoRowAt(g) /\ new.rows[n] = NewRow(report[g], g)
    BY <1>6, <1>10, <1>15, <1>16
  <2>2. \A g \in D \cup {h} : NoRowAt(g) =>
           \E n \in DOMAIN new.rows \ DOMAIN rows : new.rows[n] = NewRow(report[g], g)
    <3> SUFFICES ASSUME NEW g \in D \cup {h}, NoRowAt(g)
                 PROVE  \E n \in DOMAIN new.rows \ DOMAIN rows : new.rows[n] = NewRow(report[g], g)
      OBVIOUS
    <3>1. CASE g = h
      <4>1. last \in DOMAIN new.rows \ DOMAIN rows /\ new.rows[last] = NewRow(report[h], h)
        BY <1>6, <1>10
      <4> QED
        BY <3>1, <4>1
    <3>2. CASE g \in D
      <4>1. PICK n \in DOMAIN out.rows \ DOMAIN rows : out.rows[n] = NewRow(report[g], g)
        BY <3>2 DEF AppliedTo, AddedRows
      <4> QED
        BY <1>10, <4>1
    <3> QED
      BY <3>1, <3>2
  <2>3. \A m, n \in DOMAIN new.rows \ DOMAIN rows :
           new.rows[m].href = new.rows[n].href => m = n
    <3>1. \A m, n \in DOMAIN out.rows \ DOMAIN rows :
             out.rows[m].href = out.rows[n].href => m = n
      BY DEF AppliedTo, AddedRows
    <3> QED
      BY <1>7, <1>10, <1>15, <1>17, <3>1
  <2> QED
    BY <2>1, <2>2, <2>3 DEF AddedRows
<1> QED
  BY <1>12, <1>13, <1>14, <1>18 DEF AppliedTo

\* The row that an object is for is written.
LEMMA MatchStep ==
    ASSUME SyncTypeOK, RowsOK, NEW report, GoodReport(report),
           NEW D \in SUBSET DOMAIN report, NEW h \in DOMAIN report \ D,
           NEW out, AppliedTo(out, report, D), NEW byHref \in BOOLEAN,
           NEW n \in Live, rows[n].href = h,
           NEW new, new = ApplyObject(out, rows, report[h], h, byHref)
    PROVE  AppliedTo(new, report, D \cup {h})
<1> DEFINE object == report[h]
           verdict == Verdict(rows[n], object.vtodo, object.etag)
           written == Write(out, rows, n, verdict, object.vtodo, object.etag)
<1>1. h \in Href /\ object \in Object /\ object.uid = HomeUID[h]
  BY DEF GoodReport
<1>2. ByUID(rows, object.uid) = n /\ n \in DOMAIN rows /\ n \in Nat /\ n # 0
  <2>1. n \in DOMAIN rows /\ n \in 1 .. Len(rows)
    BY RowTask DEF Live
  <2> QED
    BY <1>1, <2>1, TheRow
<1>3. new = [written EXCEPT !.seen = @ \cup {n},
                            !.rows[n].href = IF verdict \in {"import", "merge"}
                                             THEN h ELSE @]
  <2> DEFINE remote == RemoteChanged(rows[n], object.vtodo, object.etag)
  <2>1. (remote \/ rows[n].href # h) = remote
    BY DEF RemoteChanged
  <2>2. VerdictIf(remote \/ rows[n].href # h, rows[n], object.vtodo) = verdict
    BY <2>1 DEF Verdict
  <2> HIDE DEF verdict, remote
  <2> QED
    BY <1>2, <2>2, Zenon DEF ApplyObject, remote
<1>4. verdict \in {"keep", "import", "merge", "field_conflict"}
  BY VerdictTypes
<1>5. object.vtodo \in Content /\ object.vtodo \in Text /\ object.etag \in Nat
      /\ object.vtodo # NoText
  BY <1>1, VtodoAssumption DEF Object, Text
<1>6. Outcome(out) /\ out.rows[n] = rows[n]
  BY <1>2 DEF AppliedTo
<1>7. PICK w : w = written
  OBVIOUS
<1> HIDE DEF verdict
<1>8. PICK row : row = AfterVerdict(rows[n], verdict, object.vtodo, object.etag)
  OBVIOUS
<1>9. row \in Task /\ row.href = h
  <2>1. rows[n] \in Task
    BY <1>2, RowTask
  <2>2. verdict \in Verdicts
    BY <1>4 DEF Verdicts
  <2>3. PICK loaded \in Task, etag \in Nat, remote0 \in Text :
           loaded = rows[n] /\ etag = object.etag /\ remote0 = object.vtodo
    BY <1>5, <2>1
  <2>4. row = AfterVerdict(loaded, verdict, remote0, etag)
    BY <1>8, <2>3
  <2>5. verdict \in {"import", "merge"} => remote0 # NoText
    BY <1>5, <2>3
  <2>6. row \in Task /\ row.href = loaded.href
    BY <2>2, <2>3, <2>4, <2>5, AfterVerdictTask
  <2> QED
    BY <2>3, <2>6
<1>10. /\ Outcome(w) /\ Len(w.rows) = Len(out.rows) /\ w.seen = out.seen
       /\ w.rows[n] = row
       /\ \A m \in DOMAIN out.rows : m # n => w.rows[m] = out.rows[m]
  <2>1. verdict \in Verdicts
    BY <1>4 DEF Verdicts
  <2>2. PICK etag \in Nat, remote0 \in Text :
           etag = object.etag /\ remote0 = object.vtodo /\ remote0 # NoText
    BY <1>5
  <2>3. w = Write(out, rows, n, verdict, remote0, etag)
    BY <1>7, <2>2
  <2>4. row = AfterVerdict(rows[n], verdict, remote0, etag)
    BY <1>8, <2>2
  <2> QED
    BY <1>2, <1>6, <2>1, <2>2, <2>3, <2>4, WriteIs
<1> HIDE DEF written
<1>11. DOMAIN w.rows = DOMAIN out.rows /\ DOMAIN rows \subseteq DOMAIN out.rows
  BY <1>6, <1>10, OutcomeFields, LenProperties DEF Outcome, SyncTypeOK
<1>12. new = [rows |-> w.rows, conflicts |-> w.conflicts, ok |-> TRUE,
              seen |-> out.seen \cup {n}]
  <2>1. [row EXCEPT !.href = IF verdict \in {"import", "merge"} THEN h ELSE row.href] = row
    <3>1. PICK same : same = [row EXCEPT !.href = IF verdict \in {"import", "merge"}
                                                   THEN h ELSE row.href]
      OBVIOUS
    <3>2. same = row
      BY <1>9, <3>1 DEF Task
    <3> QED
      BY <3>1, <3>2
  <2>2. [w.rows EXCEPT ![n] = row] = w.rows
    <3>1. w.rows = [m \in DOMAIN w.rows |-> w.rows[m]]
      BY <1>10, LenProperties DEF Outcome
    <3>2. PICK same : same = [w.rows EXCEPT ![n] = row]
      OBVIOUS
    <3>3. DOMAIN same = DOMAIN w.rows /\ \A m \in DOMAIN w.rows : same[m] = w.rows[m]
      BY <1>10, <3>2
    <3>4. same = [m \in DOMAIN w.rows |-> w.rows[m]]
      BY <3>1, <3>2, <3>3
    <3> QED
      BY <3>1, <3>2, <3>4
  <2>3. PICK a, b, s : w = [rows |-> a, conflicts |-> b, ok |-> TRUE, seen |-> s]
    BY <1>10 DEF Outcome
  <2>4. w.rows = a /\ w.conflicts = b /\ w.seen = s /\ a[n] = row
    BY <1>10, <2>3
  <2>5. new = [w EXCEPT !.seen = @ \cup {n},
                        !.rows[n].href = IF verdict \in {"import", "merge"}
                                         THEN h ELSE @]
    BY <1>3, <1>7
  <2>6. new = [rows |-> [a EXCEPT ![n] = [a[n] EXCEPT !.href =
                            IF verdict \in {"import", "merge"} THEN h ELSE a[n].href]],
               conflicts |-> b, ok |-> TRUE, seen |-> s \cup {n}]
    BY <2>3, <2>5
  <2> QED
    BY <1>10, <2>1, <2>2, <2>4, <2>6
<1>13. Outcome(new) /\ new.rows = w.rows
  BY <1>10, <1>12 DEF Outcome
<1>14. new.seen = {m \in Live : rows[m].href \in D \cup {h}}
  <2>1. out.seen = {m \in Live : rows[m].href \in D}
    BY DEF AppliedTo
  <2> QED
    BY <1>12, <2>1 DEF RowsOK
<1>15. \A m \in DOMAIN rows :
          new.rows[m] = IF m \in Live /\ rows[m].href \in D \cup {h}
                        THEN AfterObject(m, report[rows[m].href]) ELSE rows[m]
  <2> TAKE m \in DOMAIN rows
  <2>1. CASE m = n
    BY <1>8, <1>10, <1>13, <2>1 DEF AfterObject, verdict
  <2>2. CASE m # n
    <3>1. new.rows[m] = out.rows[m]
      BY <1>10, <1>11, <1>13, <2>2
    <3>2. m \in Live => rows[m].href # h
      BY <2>2 DEF RowsOK
    <3> QED
      BY <3>1, <3>2 DEF AppliedTo
  <2> QED
    BY <2>1, <2>2
<1>16. AddedRows(new, report, D \cup {h})
  <2>1. ~NoRowAt(h)
    BY DEF NoRowAt
  <2>2. \A m \in DOMAIN out.rows \ DOMAIN rows : new.rows[m] = out.rows[m]
    BY <1>2, <1>10, <1>13
  <2>3. AddedRows(out, report, D)
    BY DEF AppliedTo
  <2>4. DOMAIN new.rows \ DOMAIN rows = DOMAIN out.rows \ DOMAIN rows
    BY <1>11, <1>13
  <2> QED
    BY <2>1, <2>2, <2>3, <2>4 DEF AddedRows
<1> QED
  BY <1>13, <1>14, <1>15, <1>16 DEF AppliedTo

\* The loop applies every object once, whatever their order.
LEMMA ObjectsApplied ==
    ASSUME SyncTypeOK, RowsOK, NEW report, GoodReport(report),
           NEW order \in SetToSeqs(DOMAIN report), NEW byHref \in BOOLEAN
    PROVE  AppliedTo(ApplyObjects(rows, report, order, byHref), report, DOMAIN report)
<1> DEFINE S == DOMAIN report
           n == Len(order)
           D(k) == {order[j] : j \in 1 .. k}
<1>1. IsFiniteSet(S)
  BY IncrementalAssumption, FS_Subset DEF GoodReport
<1>2. /\ n \in Nat
      /\ \A i \in 1 .. n : order[i] \in S
      /\ \A i, j \in 1 .. n : order[i] = order[j] => i = j
      /\ \A x \in S : \E i \in 1 .. n : order[i] = x
  BY <1>1, OrderIs
<1>3. PICK g : /\ Loop(g, n, report, order, byHref)
               /\ ApplyObjects(rows, report, order, byHref) = g[n]
  BY <1>2, LoopIs
<1>4. /\ g[0] = Start
      /\ \A k \in 1 .. n : g[k] = StepOf(g[k - 1], report, order, byHref, k)
  <2>1. g = [i \in 0 .. n |-> IF i = 0 THEN Start
                              ELSE StepOf(g[i - 1], report, order, byHref, i)]
    BY <1>3 DEF Loop
  <2>2. 0 \in 0 .. n /\ \A k \in 1 .. n : k \in 0 .. n /\ k # 0
    BY <1>2
  <2> HIDE DEF n
  <2> QED
    BY <2>1, <2>2
<1>5. D(n) = S
  <2>1. ASSUME NEW x \in S PROVE x \in D(n)
    BY <1>2
  <2>2. ASSUME NEW x \in D(n) PROVE x \in S
    BY <1>2
  <2> QED
    BY <2>1, <2>2
<1>6. AppliedTo(g[0], report, D(0))
  <2>1. D(0) = {}
    OBVIOUS
  <2>2. /\ g[0].rows = rows /\ g[0].seen = {}
        /\ g[0].conflicts = conflicts /\ g[0].ok = TRUE
        /\ g[0] = [rows |-> rows, conflicts |-> conflicts, ok |-> TRUE, seen |-> {}]
    BY <1>4 DEF Start
  <2>3. Outcome(g[0])
    <3>1. Len(rows) <= Len(rows)
      BY LenProperties DEF SyncTypeOK
    <3> QED
      BY <2>2, <3>1 DEF Outcome, SyncTypeOK
  <2>4. AddedRows(g[0], report, {})
    BY <2>2 DEF AddedRows
  <2> QED
    BY <2>1, <2>2, <2>3, <2>4 DEF AppliedTo
<1>7. ASSUME NEW k \in 1 .. n, AppliedTo(g[k - 1], report, D(k - 1))
      PROVE  AppliedTo(g[k], report, D(k))
  <2> DEFINE h == order[k]
  <2>1. FirstOfUID(report, order, k)
    <3> SUFFICES ASSUME NEW j \in 1 .. (k - 1) PROVE report[order[j]].uid # report[h].uid
      BY DEF FirstOfUID
    <3>1. j \in 1 .. n /\ j # k
      BY <1>2
    <3>2. order[j] \in S /\ h \in S /\ order[j] # h
      BY <1>2, <3>1
    <3> QED
      BY <3>2, IncrementalAssumption DEF GoodReport
  <2>2. g[k] = ApplyObject(g[k - 1], rows, report[h], h, byHref)
    BY <1>4, <2>1 DEF StepOf
  <2>3. D(k) = D(k - 1) \cup {h}
    <3>1. 1 .. k = 1 .. (k - 1) \cup {k}
      BY <1>2
    <3> QED
      BY <3>1
  <2>4. h \in S \ D(k - 1) /\ D(k - 1) \in SUBSET S
    BY <1>2
  <2> HIDE DEF D, h, S
  <2>5. CASE NoRowAt(h)
    BY <1>7, <2>2, <2>3, <2>4, <2>5, InsertStep DEF S
  <2>6. CASE ~NoRowAt(h)
    <3>1. PICK m \in Live : rows[m].href = h
      BY <2>6 DEF NoRowAt
    <3> QED
      BY <1>7, <2>2, <2>3, <2>4, <3>1, MatchStep DEF S
  <2> QED
    BY <2>5, <2>6
<1> DEFINE bad == {k \in 0 .. n : ~AppliedTo(g[k], report, D(k))}
<1>8. SUFFICES ASSUME bad # {} PROVE FALSE
  <2>1. n \in 0 .. n
    BY <1>2
  <2> HIDE DEF n
  <2> QED
    BY <1>3, <1>5, <2>1
<1> HIDE DEF D, n
<1>9. PICK k \in bad : \A j \in bad : k <= j
  <2>1. bad \in SUBSET (0 .. n)
    OBVIOUS
  <2> HIDE DEF bad
  <2> QED
    BY <1>2, <1>8, <2>1, LeastExists
<1>10. k \in 1 .. n
  BY <1>2, <1>6
<1>11. k - 1 \in 0 .. n /\ ~ (k <= k - 1)
  BY <1>2, <1>10
<1>12. k - 1 \notin bad
  <2> HIDE DEF bad
  <2> QED
    BY <1>9, <1>11
<1> QED
  BY <1>7, <1>9, <1>10, <1>11, <1>12

\* The rows the loops over what is missing go through.
LEMMA MissingIs ==
    ASSUME SyncTypeOK, RowsOK, NEW report, GoodReport(report),
           NEW strategy0 \in Strategy, NEW baseline \in BOOLEAN,
           strategy0 = "fullscan" => ~baseline,
           NEW gone \in SUBSET Href, gone \cap DOMAIN report = {}
    PROVE  MissingRows(rows, strategy0, baseline, report, gone,
                       {n \in Live : rows[n].href \in DOMAIN report})
             = {n \in Live : /\ rows[n].href \notin DOMAIN report
                             /\ strategy0 = "fullscan" \/ baseline \/ rows[n].href \in gone}
<1> DEFINE seen == {n \in Live : rows[n].href \in DOMAIN report}
           uids == {report[h].uid : h \in DOMAIN report}
           live == {n \in DOMAIN rows : rows[n].status # "absent"}
           deleted == {ByHref(rows, h) : h \in gone} \ {0}
<1>1. live = Live
  BY DEF Live
<1>2. deleted = {n \in Live : rows[n].href \in gone}
  <2>1. ASSUME NEW n \in Live, rows[n].href \in gone PROVE n \in deleted
    <3>1. n # 0 /\ rows[n].href \in Href
      BY RowTask DEF Live
    <3>2. ByHref(rows, rows[n].href) = n
      BY <3>1, TheRow
    <3> QED
      BY <2>1, <3>1, <3>2
  <2>2. ASSUME NEW n \in deleted PROVE n \in Live /\ rows[n].href \in gone
    <3>1. PICK h \in gone : n = ByHref(rows, h) /\ n # 0
      OBVIOUS
    <3>2. PICK m \in Live : rows[m].href = h
      BY <3>1, TheRow DEF NoRowAt
    <3> QED
      BY <3>1, <3>2, TheRow
  <2> QED
    BY <2>1, <2>2
<1>3. \A n \in Live : rows[n].uid \in uids <=> rows[n].href \in DOMAIN report
  <2> TAKE n \in Live
  <2>1. rows[n].href \in Href /\ rows[n].uid = HomeUID[rows[n].href]
    BY RowTask DEF Live, RowsOK
  <2> QED
    BY <2>1, IncrementalAssumption DEF GoodReport
<1>4. live \ seen = {n \in Live : rows[n].href \notin DOMAIN report}
  BY <1>1
<1> HIDE DEF deleted
<1>5. CASE strategy0 = "fullscan"
  <2>1. MissingRows(rows, strategy0, baseline, report, gone, seen) = live \ seen
    BY <1>5 DEF MissingRows
  <2> QED
    BY <1>4, <1>5, <2>1
<1>6. CASE strategy0 # "fullscan" /\ baseline
  <2>1. MissingRows(rows, strategy0, baseline, report, gone, seen)
          = deleted \cup {n \in live \ seen : rows[n].uid \notin uids}
    BY <1>6 DEF MissingRows, deleted
  <2> QED
    BY <1>2, <1>3, <1>4, <1>6, <2>1
<1>7. CASE strategy0 # "fullscan" /\ ~baseline
  <2>1. MissingRows(rows, strategy0, baseline, report, gone, seen) = deleted
    BY <1>7 DEF MissingRows, deleted
  <2> QED
    BY <1>2, <1>7, <2>1
<1> QED
  BY <1>5, <1>6, <1>7

-----------------------------------------------------------------------------
\* What an answer makes of a row.
AfterAnswer(n, report, gone, all) ==
    LET h == rows[n].href
    IN  IF n \notin Live THEN rows[n]
        ELSE IF h \in DOMAIN report THEN AfterObject(n, report[h])
        ELSE IF all \/ h \in gone
             THEN AfterVerdict(rows[n], MissingVerdict(rows[n]), NoText, 0)
        ELSE rows[n]

\* The verdicts on a row whose object is missing.
LEMMA MissingOf ==
    ASSUME NEW row PROVE MissingVerdict(row) \in {"keep", "delete", "edit_delete"}
BY VerdictTypes

\* Every version check of the transaction passes, and what it makes of a row
\* depends on the row's own object only.
LEMMA AppliedMeans ==
    ASSUME SyncTypeOK, RowsOK, NEW report, GoodReport(report),
           NEW order \in SetToSeqs(DOMAIN report),
           NEW strategy0 \in Strategy, NEW baseline \in BOOLEAN,
           strategy0 = "fullscan" => ~baseline,
           NEW gone \in SUBSET Href, gone \cap DOMAIN report = {},
           NEW out, out = Applied(strategy0, baseline, report, order, gone)
    PROVE  /\ Outcome(out)
           /\ \A n \in DOMAIN rows :
                 out.rows[n] = AfterAnswer(n, report, gone, strategy0 = "fullscan" \/ baseline)
           /\ AddedRows(out, report, DOMAIN report)
<1> DEFINE byHref == strategy0 # "fullscan"
           all == strategy0 = "fullscan" \/ baseline
           missing == {n \in Live : /\ rows[n].href \notin DOMAIN report
                                    /\ all \/ rows[n].href \in gone}
<1>1. PICK mid : mid = ApplyObjects(rows, report, order, byHref)
  OBVIOUS
<1>2. AppliedTo(mid, report, DOMAIN report)
  BY <1>1, ObjectsApplied
<1>3. MissingRows(rows, strategy0, baseline, report, gone, mid.seen) = missing
  <2>1. mid.seen = {n \in Live : rows[n].href \in DOMAIN report}
    BY <1>2 DEF AppliedTo
  <2> QED
    BY <2>1, MissingIs
<1> HIDE DEF missing
<1>4. out = RemoveRows(mid, rows, missing)
  BY <1>1, <1>3 DEF Applied
<1> DEFINE Removed(n) == Write(mid, rows, n, MissingVerdict(rows[n]), NoText, 0)
<1>5. Outcome(mid) /\ DOMAIN rows \subseteq DOMAIN mid.rows
      /\ DOMAIN mid.conflicts = DOMAIN mid.rows
      /\ \A n \in DOMAIN mid.rows : /\ mid.rows[n] \in Task
                                    /\ mid.conflicts[n] \in Seq(Conflict)
  BY <1>2, OutcomeFields, LenProperties DEF AppliedTo, Outcome, SyncTypeOK
<1>6. ASSUME NEW n \in missing
      PROVE  /\ Outcome(Removed(n)) /\ Len(Removed(n).rows) = Len(mid.rows)
             /\ Removed(n).rows[n] = AfterVerdict(rows[n], MissingVerdict(rows[n]), NoText, 0)
  <2>1. n \in Live /\ n \in DOMAIN rows /\ rows[n].href \notin DOMAIN report
    BY DEF missing, Live
  <2>2. mid.rows[n] = rows[n]
    BY <1>2, <2>1 DEF AppliedTo
  <2>3. MissingVerdict(rows[n]) \in {"keep", "delete", "edit_delete"}
    BY MissingOf
  <2>4. PICK verdict : verdict = MissingVerdict(rows[n])
    OBVIOUS
  <2>5. NoText \in Text /\ 0 \in Nat
        /\ verdict \in Verdicts /\ verdict \notin {"import", "merge"}
    BY <2>3, <2>4 DEF Text, Verdicts
  <2>6. PICK new : new = Write(mid, rows, n, verdict, NoText, 0)
    OBVIOUS
  <2>7. /\ Outcome(new) /\ Len(new.rows) = Len(mid.rows)
        /\ new.rows[n] = AfterVerdict(rows[n], verdict, NoText, 0)
    BY <1>5, <2>1, <2>2, <2>5, <2>6, WriteIs
  <2> QED
    BY <2>4, <2>6, <2>7
<1>7. \A n \in missing : /\ n \in DOMAIN mid.rows /\ n \in DOMAIN rows
                         /\ Removed(n).ok = TRUE
                         /\ Removed(n).rows[n] \in Task
                         /\ Removed(n).conflicts[n] \in Seq(Conflict)
  <2> TAKE n \in missing
  <2>1. n \in DOMAIN mid.rows /\ n \in DOMAIN rows
    BY <1>5 DEF missing, Live
  <2>2. PICK new : new = Removed(n)
    OBVIOUS
  <2>3. Outcome(new) /\ Len(new.rows) = Len(mid.rows)
    BY <1>6, <2>2
  <2>4. DOMAIN new.rows = DOMAIN mid.rows
    BY <1>5, <2>3, OutcomeFields
  <2> HIDE DEF Removed
  <2>5. new.ok = TRUE /\ new.rows[n] \in Task /\ new.conflicts[n] \in Seq(Conflict)
    BY <2>1, <2>3, <2>4, OutcomeFields
  <2> QED
    BY <2>1, <2>2, <2>5
<1>8. PICK rs : rs = [n \in DOMAIN mid.rows |-> IF n \in missing THEN Removed(n).rows[n]
                                                ELSE mid.rows[n]]
  OBVIOUS
<1>9. PICK cs : cs = [n \in DOMAIN mid.conflicts |->
                        IF n \in missing THEN Removed(n).conflicts[n] ELSE mid.conflicts[n]]
  OBVIOUS
<1>10. out = [rows |-> rs, conflicts |-> cs, ok |-> TRUE, seen |-> mid.seen]
  <2>1. (mid.ok /\ \A n \in missing : Removed(n).ok) = TRUE
    BY <1>5, <1>7, OutcomeFields
  <2>2. PICK a, b, s : mid = [rows |-> a, conflicts |-> b, ok |-> TRUE, seen |-> s]
    BY <1>5 DEF Outcome
  <2>3. mid.rows = a /\ mid.conflicts = b /\ mid.ok = TRUE /\ mid.seen = s
    BY <2>2
  <2>4. out = [mid EXCEPT !.rows = rs, !.conflicts = cs, !.ok = TRUE]
    BY <1>4, <1>8, <1>9, <2>1 DEF RemoveRows
  <2> QED
    BY <2>2, <2>3, <2>4
<1> HIDE DEF Removed
<1>11. Outcome(out) /\ DOMAIN out.rows = DOMAIN mid.rows
  <2>1. /\ DOMAIN mid.rows = 1 .. Len(mid.rows) /\ Len(mid.rows) \in Nat
    BY <1>5, OutcomeFields
  <2>2. rs \in [1 .. Len(mid.rows) -> Task] /\ cs \in [1 .. Len(mid.rows) -> Seq(Conflict)]
    BY <1>5, <1>7, <1>8, <1>9, <2>1
  <2>3. /\ rs \in Seq(Task) /\ Len(rs) = Len(mid.rows)
        /\ cs \in Seq(Seq(Conflict)) /\ Len(cs) = Len(mid.rows)
    BY <2>1, <2>2, LenProperties
  <2>4. out.rows = rs /\ out.conflicts = cs /\ out.seen = mid.seen
    BY <1>10
  <2> QED
    BY <1>5, <1>8, <1>10, <2>3, <2>4 DEF Outcome
<1>12. out.rows = rs
  BY <1>10
<1>13. \A n \in DOMAIN rows : out.rows[n] = AfterAnswer(n, report, gone, all)
  <2> TAKE n \in DOMAIN rows
  <2>1. n \in DOMAIN mid.rows
    BY <1>5
  <2>2. CASE n \in missing
    <3>1. out.rows[n] = AfterVerdict(rows[n], MissingVerdict(rows[n]), NoText, 0)
      BY <1>6, <1>8, <1>12, <2>1, <2>2 DEF Removed
    <3>2. n \in Live /\ rows[n].href \notin DOMAIN report /\ (all \/ rows[n].href \in gone)
      BY <2>2 DEF missing
    <3> QED
      BY <3>1, <3>2, Zenon DEF AfterAnswer
  <2>3. CASE n \notin missing
    <3>1. out.rows[n] = mid.rows[n]
      BY <1>8, <1>12, <2>1, <2>3
    <3>2. mid.rows[n] = IF n \in Live /\ rows[n].href \in DOMAIN report
                        THEN AfterObject(n, report[rows[n].href]) ELSE rows[n]
      BY <1>2 DEF AppliedTo
    <3>3. n \in Live /\ rows[n].href \notin DOMAIN report
             => ~(all \/ rows[n].href \in gone)
      BY <2>3 DEF missing
    <3> HIDE DEF all
    <3>4. CASE n \notin Live
      BY <3>1, <3>2, <3>4, Zenon DEF AfterAnswer
    <3>5. CASE n \in Live /\ rows[n].href \in DOMAIN report
      BY <3>1, <3>2, <3>5, Zenon DEF AfterAnswer
    <3>6. CASE n \in Live /\ rows[n].href \notin DOMAIN report
      BY <3>1, <3>2, <3>3, <3>6, Zenon DEF AfterAnswer
    <3> QED
      BY <3>4, <3>5, <3>6
  <2> QED
    BY <2>2, <2>3
<1>14. AddedRows(out, report, DOMAIN report)
  <2>1. \A n \in DOMAIN mid.rows \ DOMAIN rows : out.rows[n] = mid.rows[n]
    BY <1>7, <1>8, <1>12
  <2>2. AddedRows(mid, report, DOMAIN report)
    BY <1>2 DEF AppliedTo
  <2> QED
    BY <1>11, <2>1, <2>2 DEF AddedRows
<1> QED
  BY <1>11, <1>13, <1>14

\* The same, of an object that is there.
LEMMA ObjectVerdictTask ==
    ASSUME NEW row \in Task, NEW etag \in Nat, NEW remote \in Text, remote # NoText,
           NEW verdict \in {"keep", "import", "merge", "field_conflict"},
           NEW new, new = AfterVerdict(row, verdict, remote, etag)
    PROVE  /\ new \in Task /\ new.uid = row.uid /\ new.href = row.href
           /\ verdict = "keep" => new = row
           /\ verdict \in {"import", "merge"} => new.etag = etag /\ new.status = "synced"
           /\ verdict = "import" => new.raw = remote
           /\ verdict = "field_conflict" => new.status = "conflict"
           /\ new.etag \in {row.etag, etag}
<1>1. verdict \in Verdicts
  BY DEF Verdicts
<1> QED
  BY <1>1, AfterVerdictTask

\* A row after an answer knows its object, or waits for the user.
LEMMA AnswerRow ==
    ASSUME SyncTypeOK, NEW report, GoodReport(report), NEW gone, NEW all \in BOOLEAN,
           NEW n \in DOMAIN rows, NEW new, new = AfterAnswer(n, report, gone, all)
    PROVE  /\ new \in Task /\ new.uid = rows[n].uid /\ new.href = rows[n].href
           /\ n \notin Live => new = rows[n]
           /\ \/ new.etag \in {rows[n].etag, 0}
              \/ rows[n].href \in DOMAIN report /\ new.etag = report[rows[n].href].etag
           /\ n \in Live /\ rows[n].href \in DOMAIN report =>
                 /\ new.etag = report[rows[n].href].etag \/ new.status = "conflict"
                 /\ new.status # "absent"
           /\ n \in Live /\ rows[n].href \notin DOMAIN report =>
                 IF all \/ rows[n].href \in gone
                 THEN new.status \in {"absent", "conflict"} ELSE new = rows[n]
<1> DEFINE h == rows[n].href
<1>1. rows[n] \in Task /\ rows[n].etag \in Nat
  BY RowTask
<1>2. CASE n \notin Live
  BY <1>1, <1>2, Zenon DEF AfterAnswer
<1>3. CASE n \in Live /\ h \in DOMAIN report
  <2>1. PICK object \in Object : object = report[h]
    BY <1>3 DEF GoodReport
  <2>2. object.vtodo \in Text /\ object.vtodo # NoText /\ object.etag \in Nat
    BY VtodoAssumption DEF Object, Text
  <2>3. PICK verdict : verdict = Verdict(rows[n], object.vtodo, object.etag)
    OBVIOUS
  <2>4. verdict \in {"keep", "import", "merge", "field_conflict"}
    BY <2>3, VerdictTypes
  <2>5. new = AfterVerdict(rows[n], verdict, object.vtodo, object.etag)
    BY <1>3, <2>1, <2>3, Zenon DEF AfterAnswer, AfterObject
  <2>6. /\ new \in Task /\ new.uid = rows[n].uid /\ new.href = rows[n].href
        /\ verdict = "keep" => new = rows[n]
        /\ verdict \in {"import", "merge"} => new.etag = object.etag /\ new.status = "synced"
        /\ verdict = "field_conflict" => new.status = "conflict"
        /\ new.etag \in {rows[n].etag, object.etag}
    <3>3. PICK row \in Task : row = rows[n]
      BY <1>1
    <3>4. PICK remote \in Text : remote = object.vtodo /\ remote # NoText
      BY <2>2
    <3>5. PICK etag \in Nat : etag = object.etag
      BY <2>2
    <3>6. new = AfterVerdict(row, verdict, remote, etag)
      BY <2>5, <3>3, <3>4, <3>5
    <3>7. /\ new \in Task /\ new.uid = row.uid /\ new.href = row.href
          /\ verdict = "keep" => new = row
          /\ verdict \in {"import", "merge"} => new.etag = etag /\ new.status = "synced"
          /\ verdict = "field_conflict" => new.status = "conflict"
          /\ new.etag \in {row.etag, etag}
      BY <2>4, <3>4, <3>6, ObjectVerdictTask
    <3> QED
      BY <3>3, <3>5, <3>7
  <2>7. verdict = "keep" => rows[n].status = "conflict" \/ rows[n].etag = object.etag
    BY <2>3 DEF Verdict, VerdictIf, RemoteChanged
  <2>8. rows[n].status # "absent"
    BY <1>3 DEF Live
  <2> QED
    BY <1>3, <2>1, <2>4, <2>6, <2>7, <2>8
<1>4. CASE n \in Live /\ h \notin DOMAIN report /\ (all \/ h \in gone)
  <2>1. PICK verdict : verdict = MissingVerdict(rows[n])
    OBVIOUS
  <2>2. verdict \in {"keep", "delete", "edit_delete"}
    BY <2>1, MissingOf
  <2>3. new = AfterVerdict(rows[n], verdict, NoText, 0)
    BY <1>4, <2>1, Zenon DEF AfterAnswer
  <2>4. /\ new \in Task /\ new.uid = rows[n].uid /\ new.href = rows[n].href
        /\ verdict = "keep" => new = rows[n]
        /\ verdict = "edit_delete" => new.status = "conflict"
        /\ verdict = "delete" => new.status = "absent"
        /\ new.etag \in {rows[n].etag, 0}
    <3>1. /\ verdict \in Verdicts
          /\ verdict \notin {"import", "merge"} /\ NoText \in Text /\ 0 \in Nat
      BY <2>2 DEF Text, Verdicts
    <3>2. PICK row \in Task : row = rows[n]
      BY <1>1
    <3>3. new = AfterVerdict(row, verdict, NoText, 0)
      BY <2>3, <3>2
    <3>4. verdict \in {"import", "merge"} => NoText # NoText
      BY <3>1
    <3>5. /\ new \in Task /\ new.uid = row.uid /\ new.href = row.href
          /\ verdict = "keep" => new = row
          /\ verdict \in {"field_conflict", "edit_delete"} => new.status = "conflict"
          /\ verdict = "delete" => new.status = "absent"
          /\ new.etag \in {row.etag, 0}
      BY <3>1, <3>3, <3>4, AfterVerdictTask
    <3> QED
      BY <3>2, <3>5
  <2>5. verdict = "keep" => rows[n].status \in {"conflict", "absent"}
    BY <2>1 DEF MissingVerdict
  <2>6. rows[n].status # "absent"
    BY <1>4 DEF Live
  <2> QED
    BY <1>4, <2>2, <2>4, <2>5, <2>6
<1>5. CASE n \in Live /\ h \notin DOMAIN report /\ ~(all \/ h \in gone)
  <2>1. new = rows[n]
    BY <1>5, Zenon DEF AfterAnswer
  <2> QED
    BY <1>1, <1>5, <2>1
<1> QED
  BY <1>2, <1>3, <1>4, <1>5

\* What a run applies.
LEMMA RunReport ==
    ASSUME SyncInv, runner.pc = "apply"
    PROVE  /\ GoodReport(runner.report) /\ runner.gone \in SUBSET Href
           /\ runner.gone \cap DOMAIN runner.report = {} /\ runner.fetch = {}
           /\ runner.strategy \in Strategy /\ Baseline \in BOOLEAN
           /\ runner.strategy = "fullscan" => ~Baseline
           /\ runner.meta \in Nat /\ runner.meta <= srv.revision
           /\ \A h \in DOMAIN runner.report : /\ runner.report[h].etag \in 1 .. srv.revision
                                              /\ LastChange(h) > 0
<1>1. PICK known \in SUBSET Href, reported \in SUBSET Href :
         runner \in RunState(known, reported)
  BY DEF SyncInv, SyncTypeOK
<1>2. /\ DOMAIN runner.report = reported /\ runner.gone \in SUBSET Href
      /\ runner.report \in [reported -> Object]
      /\ runner.strategy \in Strategy /\ runner.meta \in Nat
  BY <1>1, RunFields
<1>3. RunOK
  BY DEF SyncInv
<1>4. GoodReport(runner.report)
  BY <1>2, <1>3 DEF GoodReport, RunOK
<1>5. runner.gone \cap DOMAIN runner.report = {} /\ runner.fetch = {}
      /\ runner.meta <= srv.revision
  BY <1>3 DEF RunOK
<1>6. Baseline \in BOOLEAN /\ (runner.strategy = "fullscan" => ~Baseline)
  BY DEF Baseline
<1>7. \A h \in DOMAIN runner.report : /\ runner.report[h].etag \in 1 .. srv.revision
                                      /\ LastChange(h) > 0
  BY <1>3 DEF RunOK
<1> QED
  BY <1>2, <1>4, <1>5, <1>6, <1>7

\* The rows after an answer, one by one.
AnswerApplied ==
    /\ rows' \in Seq(Task) /\ conflicts' \in Seq(Seq(Conflict))
    /\ Len(conflicts') = Len(rows') /\ DOMAIN rows \subseteq DOMAIN rows'
    /\ \A n \in DOMAIN rows : rows'[n] = AfterAnswer(n, runner.report, runner.gone, All)
    /\ \A n \in DOMAIN rows' \ DOMAIN rows :
          \E h \in DOMAIN runner.report :
              NoRowAt(h) /\ rows'[n] = NewRow(runner.report[h], h)
    /\ \A h \in DOMAIN runner.report : NoRowAt(h) =>
          \E n \in DOMAIN rows' \ DOMAIN rows : rows'[n] = NewRow(runner.report[h], h)
    /\ \A m, n \in DOMAIN rows' \ DOMAIN rows : rows'[m].href = rows'[n].href => m = n

\* Apply, by what it does to each row.
LEMMA ApplyMeans ==
    ASSUME SyncInv, Apply
    PROVE  /\ runner.pc = "apply" /\ UNCHANGED <<srv, user, requests>>
           /\ AnswerApplied
           /\ project' = Recorded(project, runner)
           /\ runner' = [Trying(runner.strategy) EXCEPT !.pc = "persist"]
           /\ raced' = Raced
<1>1. runner.pc = "apply" /\ UNCHANGED <<srv, user, requests>>
  BY DEF Apply
<1>2. PICK order \in SetToSeqs(DOMAIN runner.report) :
         LET out == Applied(runner.strategy, Baseline, runner.report, order, runner.gone)
         IN  /\ Len(out.rows) <= MaxRows
             /\ IF out.ok
                THEN /\ rows' = out.rows
                     /\ conflicts' = out.conflicts
                     /\ project' = Recorded(project, runner)
                     /\ runner' = [Trying(runner.strategy) EXCEPT !.pc = "persist"]
                     /\ raced' = Raced
                ELSE /\ runner' = NoRun
                     /\ UNCHANGED <<rows, conflicts, project, raced>>
  BY Zenon DEF Apply
<1>3. PICK out : out = Applied(runner.strategy, Baseline, runner.report, order, runner.gone)
  OBVIOUS
<1>4. SyncTypeOK /\ RowsOK
  BY DEF SyncInv
<1>5. /\ GoodReport(runner.report) /\ runner.gone \in SUBSET Href
      /\ runner.gone \cap DOMAIN runner.report = {}
      /\ runner.strategy \in Strategy /\ Baseline \in BOOLEAN
      /\ runner.strategy = "fullscan" => ~Baseline
  BY <1>1, RunReport
<1>6. /\ Outcome(out)
      /\ \A n \in DOMAIN rows :
            out.rows[n] = AfterAnswer(n, runner.report, runner.gone,
                                      runner.strategy = "fullscan" \/ Baseline)
      /\ AddedRows(out, runner.report, DOMAIN runner.report)
  BY <1>3, <1>4, <1>5, AppliedMeans
<1>7. out.ok = TRUE /\ DOMAIN out.rows = 1 .. Len(out.rows)
  BY <1>6, OutcomeFields
<1>8. /\ rows' = out.rows /\ conflicts' = out.conflicts
      /\ project' = Recorded(project, runner)
      /\ runner' = [Trying(runner.strategy) EXCEPT !.pc = "persist"]
      /\ raced' = Raced
  BY <1>2, <1>3, <1>7, Zenon
<1>9. (runner.strategy = "fullscan" \/ Baseline) = All
  BY DEF All
<1>10. DOMAIN rows \subseteq DOMAIN out.rows
  BY <1>4, <1>6, <1>7, LenProperties, OutcomeFields DEF SyncTypeOK, Outcome
<1>11. AnswerApplied
  BY <1>6, <1>8, <1>9, <1>10 DEF AnswerApplied, Outcome, AddedRows
<1> QED
  BY <1>1, <1>8, <1>11

\* The rows after an answer are rows as before.
LEMMA AppliedTypes ==
    ASSUME SyncInv, Apply
    PROVE  SyncTypeOK' /\ RowsOK'
<1>1. /\ runner.pc = "apply" /\ UNCHANGED <<srv, user, requests>> /\ AnswerApplied
      /\ project' = Recorded(project, runner)
      /\ runner' = [Trying(runner.strategy) EXCEPT !.pc = "persist"]
      /\ raced' = Raced
  BY ApplyMeans
<1>2. SyncTypeOK /\ RowsOK /\ ServerOK /\ UserOK
  BY DEF SyncInv
<1>3. /\ GoodReport(runner.report) /\ runner.strategy \in Strategy /\ runner.meta \in Nat
      /\ \A h \in DOMAIN runner.report : runner.report[h].etag \in 1 .. srv.revision
  BY <1>1, RunReport
<1>4. srv \in ServerState /\ srv.revision \in Nat /\ project \in ProjectColumns
      /\ raced \in [Href -> Nat] /\ user \in UserState
  BY <1>2 DEF SyncTypeOK, ServerState
<1>5. project' \in ProjectColumns
  <2>1. \/ project' = [project EXCEPT !.token = runner.meta, !.strategy = "webdav_sync"]
        \/ project' = [project EXCEPT !.ctag = runner.meta, !.strategy = "ctag"]
        \/ project' = project
    BY <1>1, <1>3 DEF Recorded, Strategy
  <2> QED
    BY <1>3, <1>4, <2>1 DEF ProjectColumns, Strategy
<1>6. raced' \in [Href -> Nat]
  <2>1. CASE user.pc # "idle"
    <3>1. raced' = [raced EXCEPT ![user.row.href] = srv.revision]
      BY <1>1, <2>1 DEF Raced
    <3> QED
      BY <1>4, <3>1
  <2>2. CASE user.pc = "idle"
    BY <1>1, <1>4, <2>2 DEF Raced
  <2> QED
    BY <2>1, <2>2
<1>7. \E known, reported \in SUBSET Href : runner' \in RunState(known, reported)
  <2>1. <<>> \in [{} -> Nat] /\ <<>> \in [{} -> Object]
    <3>1. /\ <<>> \in Seq(Nat) /\ <<>> \in Seq(Object)
          /\ Len(<<>>) = 0 /\ 1 .. 0 = {}
      BY EmptySeq
    <3> QED
      BY <3>1, LenProperties
  <2>2. runner' = Blank("persist", runner.strategy, 0)
    BY <1>1 DEF Trying, NoRun, Blank
  <2>3. runner' \in RunState({}, {})
    BY <1>3, <2>1, <2>2 DEF Blank, RunState
  <2> QED
    BY <2>3
<1>8. SyncTypeOK'
  BY <1>1, <1>2, <1>5, <1>6, <1>7 DEF SyncTypeOK, AnswerApplied
<1>9. All \in BOOLEAN
  BY DEF All, Baseline
<1>10. ASSUME NEW n \in DOMAIN rows'
       PROVE  rows'[n].uid = HomeUID[rows'[n].href] /\ rows'[n].etag <= srv.revision
  <2>1. CASE n \in DOMAIN rows
    <3>1. rows'[n] = AfterAnswer(n, runner.report, runner.gone, All)
      BY <1>1, <2>1 DEF AnswerApplied
    <3>2. /\ rows'[n].uid = rows[n].uid /\ rows'[n].href = rows[n].href
          /\ \/ rows'[n].etag \in {rows[n].etag, 0}
             \/ /\ rows[n].href \in DOMAIN runner.report
                /\ rows'[n].etag = runner.report[rows[n].href].etag
      BY <1>2, <1>3, <1>9, <2>1, <3>1, AnswerRow
    <3> QED
      BY <1>2, <1>3, <1>4, <2>1, <3>2 DEF RowsOK
  <2>2. CASE n \notin DOMAIN rows
    <3>1. PICK h \in DOMAIN runner.report : rows'[n] = NewRow(runner.report[h], h)
      BY <1>1, <2>2 DEF AnswerApplied
    <3>2. h \in Href /\ runner.report[h] \in Object /\ runner.report[h].uid = HomeUID[h]
      BY <1>3 DEF GoodReport
    <3>3. /\ rows'[n].uid = runner.report[h].uid /\ rows'[n].href = h
          /\ rows'[n].etag = runner.report[h].etag
      BY <3>1, <3>2, NewRowTask
    <3> QED
      BY <1>3, <3>2, <3>3
  <2> QED
    BY <2>1, <2>2
<1>11. ASSUME NEW n \in DOMAIN rows, n \in Live' PROVE n \in Live /\ rows'[n].href = rows[n].href
  <2>1. rows'[n] = AfterAnswer(n, runner.report, runner.gone, All)
    BY <1>1 DEF AnswerApplied
  <2>2. /\ n \notin Live => rows'[n] = rows[n]
        /\ rows'[n].href = rows[n].href
    BY <1>2, <1>3, <1>9, <2>1, AnswerRow
  <2> QED
    BY <1>11, <2>2 DEF Live
<1>12. ASSUME NEW n \in DOMAIN rows' \ DOMAIN rows
       PROVE  \A m \in Live : rows[m].href # rows'[n].href
  <2>1. PICK h \in DOMAIN runner.report : NoRowAt(h) /\ rows'[n] = NewRow(runner.report[h], h)
    BY <1>1 DEF AnswerApplied
  <2>2. h \in Href /\ runner.report[h] \in Object
    BY <1>3 DEF GoodReport
  <2>3. rows'[n].href = h
    BY <2>1, <2>2, NewRowTask
  <2> QED
    BY <2>1, <2>3 DEF NoRowAt
<1>13. ASSUME NEW m \in Live', NEW n \in Live', rows'[m].href = rows'[n].href
       PROVE  m = n
  <2>1. m \in DOMAIN rows' /\ n \in DOMAIN rows'
    BY DEF Live
  <2>2. CASE m \in DOMAIN rows /\ n \in DOMAIN rows
    BY <1>2, <1>11, <1>13, <2>2 DEF RowsOK
  <2>3. CASE m \in DOMAIN rows /\ n \notin DOMAIN rows
    BY <1>11, <1>12, <1>13, <2>1, <2>3
  <2>4. CASE m \notin DOMAIN rows /\ n \in DOMAIN rows
    BY <1>11, <1>12, <1>13, <2>1, <2>4
  <2>5. CASE m \notin DOMAIN rows /\ n \notin DOMAIN rows
    BY <1>1, <1>13, <2>1, <2>5 DEF AnswerApplied
  <2> QED
    BY <2>2, <2>3, <2>4, <2>5
<1>14. RowsOK'
  <2>1. srv'.revision = srv.revision
    BY <1>1
  <2>2. (\A n \in DOMAIN rows : /\ rows[n].uid = HomeUID[rows[n].href]
                                /\ rows[n].etag <= srv.revision)'
    BY <1>10, <2>1
  <2>3. (\A m, n \in Live : rows[m].href = rows[n].href => m = n)'
    BY <1>13
  <2> QED
    BY <2>2, <2>3 DEF RowsOK
<1> QED
  BY <1>8, <1>14

\* What an answer makes the rows know.
LEMMA AnswerReflects ==
    ASSUME SyncInv, Apply, RowsOK', NEW h \in Href, AnswerOK(h)
    PROVE  Reflected(h)'
<1>1. /\ runner.pc = "apply" /\ UNCHANGED <<srv, user, requests>> /\ AnswerApplied
  BY ApplyMeans
<1>2. SyncTypeOK /\ RowsOK /\ ServerOK
  BY DEF SyncInv
<1>3. GoodReport(runner.report) /\ runner.fetch = {} /\ All \in BOOLEAN
  BY <1>1, RunReport DEF All
<1>4. Mentioned = DOMAIN runner.report
  BY <1>3 DEF Mentioned
<1>5. ASSUME NEW n \in Live, rows[n].href = h
      PROVE  /\ n \in DOMAIN rows' /\ rows'[n].uid = HomeUID[h] /\ rows'[n].href = h
             /\ h \in DOMAIN runner.report =>
                   /\ rows'[n].etag = runner.report[h].etag \/ rows'[n].status = "conflict"
                   /\ rows'[n].status # "absent"
             /\ h \notin DOMAIN runner.report =>
                   IF All \/ h \in runner.gone
                   THEN rows'[n].status \in {"absent", "conflict"} ELSE rows'[n] = rows[n]
  <2>1. n \in DOMAIN rows /\ rows[n].uid = HomeUID[h]
    BY <1>2, <1>5 DEF Live, RowsOK
  <2>2. rows'[n] = AfterAnswer(n, runner.report, runner.gone, All)
    BY <1>1, <2>1 DEF AnswerApplied
  <2>3. n \in DOMAIN rows'
    BY <1>1, <2>1 DEF AnswerApplied
  <2> QED
    BY <1>2, <1>3, <1>5, <2>1, <2>2, <2>3, AnswerRow
<1>6. \A g : Exists(srv', g) <=> Exists(srv, g)
  BY <1>1 DEF Exists
<1>7. CASE Exists(srv, h) /\ h \in DOMAIN runner.report
  <2>1. runner.report[h].etag = srv.objects[h].etag /\ srv.objects[h].uid = HomeUID[h]
    BY <1>2, <1>7 DEF AnswerOK, ServerOK
  <2>2. CASE NoRowAt(h)
    <3>1. PICK n \in DOMAIN rows' \ DOMAIN rows : rows'[n] = NewRow(runner.report[h], h)
      BY <1>1, <1>7, <2>2 DEF AnswerApplied
    <3>2. runner.report[h] \in Object /\ runner.report[h].uid = HomeUID[h]
      BY <1>3, <1>7 DEF GoodReport
    <3>3. /\ rows'[n].uid = HomeUID[h] /\ rows'[n].etag = runner.report[h].etag
          /\ rows'[n].status = "synced"
      BY <3>1, <3>2, NewRowTask
    <3>4. n \in Live'
      BY <3>1, <3>3 DEF Live
    <3> QED
      BY <1>1, <1>6, <1>7, <2>1, <3>3, <3>4 DEF Reflected
  <2>3. CASE ~NoRowAt(h)
    <3>1. PICK n \in Live : rows[n].href = h
      BY <2>3 DEF NoRowAt
    <3>2. /\ n \in DOMAIN rows' /\ rows'[n].uid = HomeUID[h] /\ rows'[n].status # "absent"
          /\ rows'[n].etag = runner.report[h].etag \/ rows'[n].status = "conflict"
      BY <1>5, <1>7, <3>1
    <3>3. n \in Live'
      BY <3>2 DEF Live
    <3> QED
      BY <1>1, <1>6, <1>7, <2>1, <3>2, <3>3 DEF Reflected
  <2> QED
    BY <2>2, <2>3
<1>8. CASE Exists(srv, h) /\ h \notin DOMAIN runner.report
  <2>1. ~All /\ h \notin runner.gone /\ Good(h)
    BY <1>4, <1>8 DEF AnswerOK
  <2>2. PICK n \in Live : /\ rows[n].uid = srv.objects[h].uid
                          /\ \/ rows[n].etag = srv.objects[h].etag
                             \/ rows[n].status \in {"conflict", "pending", "error"}
    BY <1>8, <2>1 DEF Good, Reflected
  <2>3. rows[n].href = h
    <3>1. n \in DOMAIN rows /\ rows[n].href \in Href
      BY <1>2, RowTask DEF Live
    <3>2. HomeUID[rows[n].href] = HomeUID[h]
      BY <1>2, <1>8, <2>2, <3>1 DEF RowsOK, ServerOK
    <3> QED
      BY <3>1, <3>2, IncrementalAssumption
  <2>4. rows'[n] = rows[n] /\ n \in DOMAIN rows'
    BY <1>5, <1>8, <2>1, <2>3
  <2>5. n \in Live'
    BY <2>4 DEF Live
  <2> QED
    BY <1>1, <1>6, <1>8, <2>2, <2>4, <2>5 DEF Reflected
<1>9. CASE ~Exists(srv, h)
  <2>1. h \notin DOMAIN runner.report
    BY <1>4, <1>9 DEF AnswerOK
  <2>2. ASSUME NEW n \in Live', rows'[n].href = h, rows'[n].status = "synced"
        PROVE  FALSE
    <3>1. n \in DOMAIN rows
      <4> SUFFICES ASSUME n \notin DOMAIN rows PROVE FALSE
        OBVIOUS
      <4>1. n \in DOMAIN rows' \ DOMAIN rows
        BY DEF Live
      <4>2. PICK g \in DOMAIN runner.report : rows'[n] = NewRow(runner.report[g], g)
        BY <1>1, <4>1 DEF AnswerApplied
      <4>3. g \in Href /\ runner.report[g] \in Object
        BY <1>3 DEF GoodReport
      <4>4. rows'[n].href = g
        BY <4>2, <4>3, NewRowTask
      <4> QED
        BY <2>1, <2>2, <4>4
    <3>2. n \in Live /\ rows[n].href = h
      <4>1. rows'[n] = AfterAnswer(n, runner.report, runner.gone, All)
        BY <1>1, <3>1 DEF AnswerApplied
      <4>2. (n \notin Live => rows'[n] = rows[n]) /\ rows'[n].href = rows[n].href
        BY <1>2, <1>3, <3>1, <4>1, AnswerRow
      <4> QED
        BY <2>2, <3>1, <4>2 DEF Live
    <3>3. ~(All \/ h \in runner.gone) /\ rows'[n] = rows[n]
      BY <1>5, <2>1, <2>2, <3>2
    <3>4. Good(h)
      BY <1>4, <2>1, <3>3 DEF AnswerOK
    <3> QED
      BY <1>9, <2>2, <3>2, <3>3, <3>4 DEF Good, Reflected
  <2> QED
    BY <1>6, <1>9, <2>2 DEF Reflected
<1> QED
  BY <1>7, <1>8, <1>9

\* The transaction that applies the answer.
LEMMA ApplyKeeps == ASSUME SyncInv, Apply PROVE SyncInv'
<1>1. /\ runner.pc = "apply" /\ UNCHANGED <<srv, user, requests>> /\ AnswerApplied
      /\ project' = Recorded(project, runner)
      /\ runner' = [Trying(runner.strategy) EXCEPT !.pc = "persist"]
      /\ raced' = Raced
  BY ApplyMeans
<1>2. SyncTypeOK /\ RowsOK /\ ServerOK /\ ProjectOK /\ UserOK /\ SyncedKnown /\ RunOK
      /\ Gathering
  BY DEF SyncInv
<1>3. SyncTypeOK' /\ RowsOK'
  BY AppliedTypes
<1>4. /\ GoodReport(runner.report) /\ runner.strategy \in Strategy /\ runner.meta \in Nat
      /\ runner.meta <= srv.revision /\ All \in BOOLEAN
      /\ \A h \in DOMAIN runner.report : LastChange(h) > 0
  BY <1>1, RunReport DEF All
<1>5. project \in ProjectColumns /\ srv.revision \in Nat
      /\ raced \in [Href -> Nat] /\ user \in UserState
  BY <1>2 DEF SyncTypeOK, ServerState
<1>6. /\ \A h : LastChange(h)' = LastChange(h)
      /\ srv'.revision = srv.revision
  BY <1>1 DEF LastChange, Exists
<1>7. ServerOK'
  BY <1>1 DEF SyncInv, ServerOK, Exists
<1>8. /\ runner.strategy = "webdav_sync" =>
            project' = [project EXCEPT !.token = runner.meta, !.strategy = "webdav_sync"]
      /\ runner.strategy = "ctag" =>
            project' = [project EXCEPT !.ctag = runner.meta, !.strategy = "ctag"]
      /\ runner.strategy = "fullscan" => project' = project
  BY <1>1 DEF Recorded
<1>9. /\ runner.strategy = "webdav_sync" =>
            /\ project'.token = runner.meta /\ project'.strategy = "webdav_sync"
            /\ project'.ctag = project.ctag /\ project.strategy = "webdav_sync"
      /\ runner.strategy = "ctag" =>
            /\ project'.ctag = runner.meta /\ project'.strategy = "ctag"
            /\ project'.token = project.token
  BY <1>1, <1>2, <1>5, <1>8 DEF ProjectColumns, RunOK
<1>10. ProjectOK'
  BY <1>2, <1>4, <1>6, <1>8, <1>9 DEF ProjectOK, Strategy
<1>11. UserOK'
  <2> SUFFICES ASSUME user.pc # "idle"
               PROVE  user.n \in DOMAIN rows' /\ rows'[user.n].href = user.row.href
    BY <1>1, <1>2, <1>6 DEF UserOK
  <2>1. user.n \in DOMAIN rows /\ rows[user.n].href = user.row.href
    BY <1>2 DEF UserOK
  <2>2. rows'[user.n] = AfterAnswer(user.n, runner.report, runner.gone, All)
        /\ user.n \in DOMAIN rows'
    BY <1>1, <2>1 DEF AnswerApplied
  <2> QED
    BY <1>2, <1>4, <2>1, <2>2, AnswerRow
<1>12. SyncedKnown'
  <2> SUFFICES ASSUME NEW n \in Live', rows'[n].status = "synced"
               PROVE  LastChange(rows'[n].href) > 0
    BY <1>6 DEF SyncedKnown
  <2>1. CASE n \in DOMAIN rows
    <3>1. rows'[n] = AfterAnswer(n, runner.report, runner.gone, All)
      BY <1>1, <2>1 DEF AnswerApplied
    <3>2. /\ rows'[n].href = rows[n].href
          /\ n \notin Live => rows'[n] = rows[n]
          /\ n \in Live /\ rows[n].href \notin DOMAIN runner.report =>
                \/ rows'[n].status \in {"absent", "conflict"}
                \/ rows'[n] = rows[n]
      BY <1>2, <1>4, <2>1, <3>1, AnswerRow
    <3>3. n \in Live
      BY <2>1, <3>2 DEF Live
    <3> QED
      BY <1>2, <1>4, <3>2, <3>3 DEF SyncedKnown
  <2>2. CASE n \notin DOMAIN rows
    <3>1. n \in DOMAIN rows' \ DOMAIN rows
      BY <2>2 DEF Live
    <3>2. PICK h \in DOMAIN runner.report : rows'[n] = NewRow(runner.report[h], h)
      BY <1>1, <3>1 DEF AnswerApplied
    <3>3. h \in Href /\ runner.report[h] \in Object
      BY <1>4 DEF GoodReport
    <3>4. rows'[n].href = h
      BY <3>2, <3>3, NewRowTask
    <3> QED
      BY <1>4, <3>4
  <2> QED
    BY <2>1, <2>2
<1>13. runner' = Blank("persist", runner.strategy, 0)
  BY <1>1 DEF Trying, NoRun, Blank
<1>14. /\ runner'.pc = "persist" /\ runner'.strategy = runner.strategy /\ runner'.meta = 0
       /\ runner'.gone = {} /\ runner'.fetch = {} /\ DOMAIN runner'.report = {}
  <2>1. DOMAIN <<>> = {}
    OBVIOUS
  <2> QED
    BY <1>13, <2>1 DEF Blank
<1>15. RunOK'
  <2>1. /\ runner.strategy = "webdav_sync" => project'.strategy = "webdav_sync"
        /\ runner.strategy = "ctag" => project'.strategy = "ctag"
        /\ runner.strategy \in {"webdav_sync", "ctag", "fullscan"}
    BY <1>4, <1>9 DEF Strategy
  <2>2. 0 <= srv'.revision
    BY <1>5, <1>6
  <2> QED
    BY <1>14, <2>1, <2>2 DEF RunOK
<1>16. ListOK' /\ Gathering'
  BY <1>14 DEF ListOK, Gathering
<1>17. ASSUME NEW h \in Href, Settled(h, srv.revision)'
       PROVE  /\ raced[h] < LastChange(h) /\ ~Marking(h)'
  <2>1. raced'[h] < LastChange(h) /\ LastChange(h) <= srv.revision /\ LastChange(h) \in Nat
    BY <1>2, <1>6, <1>17, ChangeType DEF Settled
  <2>2. CASE user.pc # "idle" /\ user.row.href = h
    <3>1. raced' = [raced EXCEPT ![h] = srv.revision]
      BY <1>1, <2>2 DEF Raced
    <3>2. raced'[h] = srv.revision
      BY <1>5, <3>1
    <3> QED
      BY <1>5, <2>1, <3>2
  <2>3. CASE ~(user.pc # "idle" /\ user.row.href = h)
    <3>1. raced'[h] = raced[h]
      BY <1>1, <1>5, <2>3 DEF Raced
    <3>2. ~Marking(h)'
      BY <1>1, <2>3 DEF Marking
    <3> QED
      BY <2>1, <3>1, <3>2
  <2> QED
    BY <2>2, <2>3
<1>18. MarkIsNews'
  <2> SUFFICES ASSUME NEW h \in Href, Marking(h)', raced'[h] < LastChange(h)' PROVE FALSE
    BY DEF MarkIsNews
  <2>1. LastChange(h)' <= srv.revision
    BY <1>2, <1>6, ChangeType
  <2>2. Settled(h, srv.revision)'
    BY <1>6, <2>1 DEF Settled
  <2> QED
    BY <1>17, <2>2
<1>19. Known'
  <2> SUFFICES ASSUME NEW h \in Href, Settled(h, Covered)' PROVE Good(h)'
    BY DEF Known
  <2>1. Covered' = Bound
    <3>1. CASE runner.strategy = "webdav_sync"
      BY <1>9, <3>1 DEF Covered, Bound
    <3>2. CASE runner.strategy = "ctag"
      BY <1>9, <3>2 DEF Covered, Bound
    <3>3. CASE runner.strategy = "fullscan"
      <4>1. Bound = Covered
        BY <3>3 DEF Bound
      <4>2. project' = project
        BY <1>8, <3>3
      <4>3. Covered' = Covered
        BY <4>2 DEF Covered
      <4> QED
        BY <4>1, <4>3
    <3> QED
      BY <1>4, <3>1, <3>2, <3>3 DEF Strategy
  <2>2. raced'[h] < LastChange(h) /\ LastChange(h) <= Bound
    BY <1>6, <2>1 DEF Settled
  <2>3. LastChange(h) <= srv.revision
    BY <1>2, ChangeType
  <2>4. Settled(h, srv.revision)'
    BY <1>6, <2>2, <2>3 DEF Settled
  <2>5. raced[h] < LastChange(h) /\ ~Marking(h)'
    BY <1>17, <2>4
  <2>6. AnswerOK(h)
    BY <1>1, <1>2, <2>2, <2>5 DEF Gathering, Settled
  <2>7. Reflected(h)'
    BY <1>3, <2>6, AnswerReflects
  <2> QED
    BY <2>5, <2>7 DEF Good
<1> QED
  BY <1>3, <1>7, <1>10, <1>11, <1>12, <1>15, <1>16, <1>18, <1>19 DEF SyncInv

-----------------------------------------------------------------------------
(* The beginning.                                                          *)

\* The initial states satisfy the invariant.
LEMMA InitInv == ASSUME SyncInit PROVE SyncInv
<1>1. PICK order \in SetToAllKPermutations(Href), content \in Content, strategy0 \in Strategy :
        LET stored == {order[i] : i \in DOMAIN order}
            object(h) == [uid |-> HomeUID[h], vtodo |-> content,
                          etag |-> CHOOSE i \in DOMAIN order : order[i] = h]
        IN  /\ srv = [calendars |-> {Cal},
                      objects |-> [h \in Href |-> IF h \in stored THEN object(h) ELSE NoObject],
                      deleted |-> [h \in Href |-> 0],
                      revision |-> Len(order)]
            /\ rows = [n \in 1..Len(order) |->
                         TaskAt(ImportedRow(content, n), HomeUID[order[n]], order[n])]
            /\ conflicts = [n \in 1..Len(order) |-> <<>>]
            /\ project = [strategy |-> strategy0, token |-> 0, ctag |-> 0]
            /\ runner = NoRun
            /\ user = NoRequest
            /\ requests = 0
            /\ raced = [h \in Href |-> 0]
  BY Zenon DEF SyncInit
<1>2. PICK S \in SUBSET Href : order \in SetToSeqs(S)
  BY DEF SetToAllKPermutations
<1> DEFINE N == Len(order)
           Object0(h, i) == [uid |-> HomeUID[h], vtodo |-> content, etag |-> i]
           Row0(n) == TaskAt(ImportedRow(content, n), HomeUID[order[n]], order[n])
<1>3. /\ order \in Seq(S) /\ N \in Nat /\ DOMAIN order = 1 .. N
      /\ \A i \in 1 .. N : order[i] \in S
      /\ \A i, j \in 1 .. N : order[i] = order[j] => i = j
      /\ \A x \in S : \E i \in 1 .. N : order[i] = x
  <2>1. IsFiniteSet(S)
    BY IncrementalAssumption, FS_Subset
  <2> QED
    BY <1>2, <2>1, OrderIs, LenProperties
<1>4. {order[i] : i \in DOMAIN order} = S
  BY <1>3
<1>5. \A i \in 1 .. N : (CHOOSE j \in DOMAIN order : order[j] = order[i]) = i
  BY <1>3
<1>6. /\ srv.calendars = {Cal} /\ srv.deleted = [h \in Href |-> 0] /\ srv.revision = N
      /\ srv.objects = [h \in Href |->
            IF h \in S THEN Object0(h, CHOOSE i \in DOMAIN order : order[i] = h) ELSE NoObject]
      /\ srv = [calendars |-> srv.calendars, objects |-> srv.objects,
                deleted |-> srv.deleted, revision |-> srv.revision]
  BY <1>1, <1>4
<1> HIDE DEF N
<1> HIDE DEF Object0
<1>7. /\ srv.revision = N /\ \A h \in Href : srv.deleted[h] = 0
  BY <1>6
<1> USE DEF Object0
<1>7a. /\ rows = [n \in 1 .. N |-> Row0(n)]
      /\ conflicts = [n \in 1 .. N |-> <<>>]
      /\ project = [strategy |-> strategy0, token |-> 0, ctag |-> 0]
      /\ runner = NoRun /\ user = NoRequest /\ requests = 0
      /\ raced = [h \in Href |-> 0]
  BY <1>1 DEF N
<1>8. \A i \in 1 .. N : /\ srv.objects[order[i]] = Object0(order[i], i)
                        /\ Object0(order[i], i) \in Object
                        /\ Exists(srv, order[i])
  <2> TAKE i \in 1 .. N
  <2>1. order[i] \in S /\ order[i] \in Href
    BY <1>3
  <2>2. srv.objects[order[i]] = Object0(order[i], i)
    BY <1>5, <1>6, <2>1
  <2>3. Object0(order[i], i) \in Object
    BY <1>3, <2>1, IncrementalAssumption DEF Object
  <2> HIDE DEF Object0
  <2> QED
    BY <2>2, <2>3, ServerAssumption DEF Exists
<1>9. \A h \in Href : h \notin S => srv.objects[h] = NoObject
  BY <1>6
<1>10. \A h \in Href : srv.deleted[h] = 0 /\ raced[h] = 0
  BY <1>6, <1>7a
<1>11. srv \in ServerState
  <2>1. srv.objects \in [Href -> Object \cup {NoObject}]
    <3>1. \A h \in Href : srv.objects[h] \in Object \cup {NoObject}
      <4> TAKE h \in Href
      <4>1. CASE h \in S
        <5>1. PICK i \in 1 .. N : order[i] = h
          BY <1>3, <4>1
        <5> HIDE DEF Object0
        <5> QED
          BY <1>8, <5>1
      <4>2. CASE h \notin S
        BY <1>9, <4>2
      <4> QED
        BY <4>1, <4>2
    <3> HIDE DEF Object0
    <3>2. srv.objects = [h \in Href |-> srv.objects[h]]
      BY <1>6
    <3> QED
      BY <3>1, <3>2
  <2>2. srv.calendars \in SUBSET Calendar
    BY <1>6, IncrementalAssumption
  <2>3. srv.deleted \in [Href -> Nat] /\ srv.revision \in Nat
    BY <1>3, <1>6
  <2> HIDE DEF Object0
  <2> QED
    BY <1>6, <2>1, <2>2, <2>3 DEF ServerState
<1>12. \A n \in 1 .. N :
          LET row == Row0(n)
          IN  /\ row \in Task /\ row.uid = HomeUID[order[n]] /\ row.href = order[n]
              /\ row.etag = n
  <2> TAKE n \in 1 .. N
  <2>1. PICK h \in Href : h = order[n]
    BY <1>3
  <2>2. n \in Nat /\ HomeUID[h] \in UID /\ "synced" \in SyncStatus /\ 1 \in Nat
    BY <1>3, IncrementalAssumption DEF SyncStatus
  <2>3. Row0(n) = TaskAt(ImportedRow(content, n), HomeUID[h], h)
    BY <2>1
  <2> QED
    BY <2>1, <2>2, <2>3 DEF TaskAt, ImportedRow, Task
<1>13. \A n \in 1 .. N : /\ rows[n] \in Task /\ rows[n].uid = HomeUID[order[n]]
                         /\ rows[n].href = order[n] /\ rows[n].etag = n
  BY <1>7a, <1>12
<1> HIDE DEF Row0, Object0
<1>14. /\ rows \in Seq(Task) /\ Len(rows) = N /\ DOMAIN rows = 1 .. N
       /\ conflicts \in Seq(Seq(Conflict)) /\ Len(conflicts) = N
  <2>1. rows \in [1 .. N -> Task] /\ conflicts \in [1 .. N -> Seq(Conflict)]
    BY <1>7a, <1>12
  <2> QED
    BY <1>3, <2>1, LenProperties
<1>15. SyncTypeOK
  <2>1. project \in ProjectColumns
    BY <1>7a DEF ProjectColumns
  <2>2. raced \in [Href -> Nat] /\ requests \in Nat
    BY <1>7a
  <2>3. user \in UserState
    BY <1>7a DEF UserState, NoRequest, Text
  <2>4. \E known, reported \in SUBSET Href : runner \in RunState(known, reported)
    <3>1. /\ <<>> \in Seq(Nat) /\ <<>> \in Seq(Object)
          /\ Len(<<>>) = 0 /\ 1 .. 0 = {}
      BY EmptySeq
    <3>2. <<>> \in [{} -> Nat] /\ <<>> \in [{} -> Object]
      BY <3>1, LenProperties
    <3>3. runner \in RunState({}, {})
      BY <1>7a, <3>2 DEF NoRun, RunState, Strategy
    <3> QED
      BY <3>3
  <2> QED
    BY <1>11, <1>14, <2>1, <2>2, <2>3, <2>4 DEF SyncTypeOK
<1>16. ServerOK
  <2> SUFFICES ASSUME NEW h \in Href
               PROVE  /\ Exists(srv, h) => /\ srv.objects[h].uid = HomeUID[h]
                                           /\ srv.objects[h].etag \in 1 .. N
    BY <1>3, <1>7 DEF ServerOK
  <2> SUFFICES ASSUME Exists(srv, h)
               PROVE  srv.objects[h].uid = HomeUID[h] /\ srv.objects[h].etag \in 1 .. N
    OBVIOUS
  <2>1. PICK i \in 1 .. N : order[i] = h
    BY <1>3, <1>9 DEF Exists
  <2>2. PICK object : object = Object0(h, i)
    OBVIOUS
  <2>3. object.uid = HomeUID[h] /\ object.etag = i
    BY <2>2 DEF Object0
  <2> QED
    BY <1>8, <2>1, <2>2, <2>3
<1>17. RowsOK
  BY <1>3, <1>6, <1>13, <1>14 DEF RowsOK, Live
<1>18. user.pc = "idle" /\ runner.pc = "idle" /\ DOMAIN runner.report = {}
       /\ runner.meta = 0 /\ runner.gone = {} /\ runner.fetch = {}
  <2>1. DOMAIN <<>> = {}
    OBVIOUS
  <2> QED
    BY <1>7a, <2>1 DEF NoRequest, NoRun
<1>19. ProjectOK /\ UserOK /\ MarkIsNews
  BY <1>3, <1>6, <1>7a, <1>18 DEF ProjectOK, UserOK, MarkIsNews, Marking
<1>20. SyncedKnown
  <2> SUFFICES ASSUME NEW n \in Live PROVE LastChange(rows[n].href) > 0
    BY DEF SyncedKnown
  <2>1. n \in 1 .. N
    BY <1>14 DEF Live
  <2>2. LastChange(rows[n].href) = n
    <3>1. PICK object : object = Object0(order[n], n)
      OBVIOUS
    <3>2. object.etag = n
      BY <3>1 DEF Object0
    <3> QED
      BY <1>8, <1>13, <2>1, <3>1, <3>2 DEF LastChange
  <2> QED
    BY <1>3, <2>1, <2>2
<1>21. RunOK /\ ListOK /\ Gathering
  BY <1>3, <1>6, <1>18 DEF RunOK, ListOK, Gathering
<1>22. Known
  <2> SUFFICES ASSUME NEW h \in Href, Settled(h, Covered) PROVE FALSE
    BY DEF Known
  <2>1. Covered = 0
    BY <1>7a DEF Covered, Strategy
  <2>2. LastChange(h) \in Nat /\ raced[h] = 0
    BY <1>10, <1>15, <1>16, ChangeType
  <2> QED
    BY <2>1, <2>2 DEF Settled
<1> QED
  BY <1>15, <1>16, <1>17, <1>19, <1>20, <1>21, <1>22 DEF SyncInv

\* Every step keeps the invariant.
LEMMA StepInv ==
    ASSUME "move" \notin Events, SyncInv, [SyncNext]_syncVars
    PROVE  SyncInv'
<1>1. CASE Sync
  BY <1>1, SyncCollectionKeeps, DowngradeKeeps, CompareCTagKeeps, ReadStatesKeeps,
     ListETagsKeeps, FetchKeeps, FetchMissingKeeps, ScanFetchKeeps, ApplyKeeps,
     PersistKeeps DEF Sync
<1>2. CASE RunFails
  BY <1>2, RunFailsKeeps
<1>3. CASE UserEdits \/ UserCreates \/ UserRemoves
  BY <1>3, UserEditsKeeps, UserCreatesKeeps, UserRemovesKeeps
<1>4. CASE Serve
  BY <1>4, UserPutsKeeps, UserGetsKeeps, UserDeletesKeeps, UserFailsKeeps,
     UserMarksKeeps DEF Serve
<1>5. CASE OtherWrites \/ OtherDeletes
  BY <1>5, OtherWritesKeeps, OtherDeletesKeeps
<1>6. CASE UNCHANGED syncVars
  <2>1. KeepOthers /\ runner' = runner
    BY <1>6 DEF syncVars, KeepOthers
  <2>2. /\ srv' = srv /\ project' = project
        /\ \A h : (Good(h)' <=> Good(h)) /\ LastChange(h)' = LastChange(h)
        /\ \A h, bound : Settled(h, bound)' <=> Settled(h, bound)
        /\ Covered' = Covered
    BY <2>1, OthersStay DEF KeepOthers
  <2>3. RunType'
    BY <2>1 DEF SyncInv, SyncTypeOK, RunType
  <2>4. RunOK'
    BY <2>1, <2>2 DEF SyncInv, RunOK
  <2>5. ListOK'
    BY <2>1, <2>2 DEF SyncInv, ListOK, Exists
  <2>6. Gathering'
    <3>1. Bound' = Bound /\ (All' <=> All) /\ Mentioned' = Mentioned
      BY <2>1, <2>2 DEF Bound, All, Baseline, Mentioned
    <3>2. \A h \in Href : AnswerOK(h)' <=> AnswerOK(h)
      BY <2>1, <2>2, <3>1 DEF AnswerOK, Exists
    <3> QED
      BY <2>1, <2>2, <3>1, <3>2 DEF SyncInv, Gathering
  <2> QED
    BY <2>1, <2>3, <2>4, <2>5, <2>6, RunStepInv
<1> QED
  BY <1>1, <1>2, <1>3, <1>4, <1>5, <1>6 DEF SyncNext

\* What the invariant means for NothingMissed.
LEMMA InvNothingMissed == ASSUME SyncInv PROVE NothingMissed
<1> SUFFICES ASSUME NEW h \in Href, LastChange(h) \in (raced[h] + 1) .. Covered
             PROVE  Reflected(h)
  BY DEF NothingMissed
<1>1. raced[h] \in Nat
  BY DEF SyncInv, SyncTypeOK
<1>2. Settled(h, Covered)
  BY <1>1, ChangeType DEF Settled, SyncInv
<1> QED
  BY <1>2 DEF SyncInv, Known, Good

-----------------------------------------------------------------------------
(* What has changed, and everything.                                       *)

SameShown(a, b) == /\ a.uid = b.uid /\ a.href = b.href /\ a.raw = b.raw
                   /\ a.etag = b.etag /\ a.status = b.status

\* Rows shown alike show the same tasks.
LEMMA ShownWithin ==
    ASSUME NEW a, NEW b,
           \A n \in DOMAIN a : a[n].status # "absent" =>
              \E m \in DOMAIN b : SameShown(a[n], b[m])
    PROVE  Shown(a) \subseteq Shown(b)
<1> SUFFICES ASSUME NEW n \in DOMAIN a, a[n].status # "absent"
             PROVE  [uid |-> a[n].uid, href |-> a[n].href, raw |-> a[n].raw,
                     etag |-> a[n].etag, status |-> a[n].status] \in Shown(b)
  BY DEF Shown
<1>1. PICK m \in DOMAIN b : SameShown(a[n], b[m])
  OBVIOUS
<1> QED
  BY <1>1 DEF Shown, SameShown

\* A row that the user need not see, and has the object's text and etag, stays
\* what it is, or takes the text for its base.
LEMMA SameAfterScan ==
    ASSUME NEW row \in Task, NEW object \in Object,
           \/ row.status = "conflict"
           \/ row.status = "synced" /\ row.etag = object.etag /\ row.raw = object.vtodo
    PROVE  SameShown(row, AfterVerdict(row, Verdict(row, object.vtodo, object.etag),
                                       object.vtodo, object.etag))
<1>1. PICK verdict : verdict = Verdict(row, object.vtodo, object.etag)
  OBVIOUS
<1>2. verdict = "keep" \/ (verdict = "import" /\ row.status = "synced")
  BY <1>1 DEF Verdict, VerdictIf
<1>3. CASE verdict = "keep"
  BY <1>1, <1>3 DEF AfterVerdict, SameShown
<1>4. CASE verdict = "import" /\ row.status = "synced"
  <2>1. PICK remote \in Text, etag \in Nat :
           remote = object.vtodo /\ etag = object.etag /\ remote # NoText
    BY VtodoAssumption DEF Object, Text
  <2>2. PICK new : new = AfterVerdict(row, verdict, remote, etag)
    OBVIOUS
  <2>3. /\ new.uid = row.uid /\ new.href = row.href
        /\ verdict \in {"import", "merge"} => new.etag = etag /\ new.status = "synced"
        /\ verdict = "import" => new.raw = remote
    <3>1. verdict \in {"keep", "import", "merge", "field_conflict"}
      BY <1>4
    <3> QED
      BY <2>1, <2>2, <3>1, ObjectVerdictTask
  <2>4. row.status # "conflict"
    BY <1>4
  <2>5. SameShown(row, new)
    BY <1>4, <2>1, <2>3, <2>4 DEF SameShown
  <2> QED
    BY <1>1, <2>1, <2>2, <2>5
<1> QED
  BY <1>2, <1>3, <1>4

\* What the invariant means for DeltaIsScan.
LEMMA InvDeltaIsScan == ASSUME SyncInv PROVE DeltaIsScan
<1> DEFINE token == project.token
           report == [h \in ReportedChanged(srv, Cal, token) |-> srv.objects[h]]
           whole == VTODOReport(srv, Cal)
<1> SUFFICES ASSUME user.pc = "idle", project.strategy = "webdav_sync",
                    \A h \in Href : raced[h] = 0, AllFromServer,
                    NEW order \in SetToSeqs(DOMAIN report),
                    NEW allOrder \in SetToSeqs(DOMAIN whole),
                    NEW gone \in Deletions(token)
             PROVE  LET delta == Applied("webdav_sync", token = 0, report, order, gone)
                        scan == Applied("fullscan", FALSE, whole, allOrder, {})
                    IN  delta.ok /\ Shown(delta.rows) = Shown(scan.rows)
  BY Zenon DEF DeltaIsScan
<1>1. SyncTypeOK /\ RowsOK /\ ServerOK /\ SyncedKnown /\ Known
  BY DEF SyncInv
<1>2. project \in ProjectColumns /\ token \in Nat
  BY <1>1 DEF SyncTypeOK, ProjectColumns
<1> DEFINE changed == {h \in Href : Exists(srv, h) /\ srv.objects[h].etag > token}
           stored == {h \in Href : Exists(srv, h)}
<1>3. ReportedChanged(srv, Cal, token) = changed /\ ObjectsOf(srv, Cal) = stored
  BY <1>1, TheObjects DEF ReportedChanged
<1>4. /\ DOMAIN report = changed /\ \A h \in changed : report[h] = srv.objects[h]
      /\ DOMAIN whole = stored /\ \A h \in stored : whole[h] = srv.objects[h]
  BY <1>3 DEF VTODOReport
<1>5. GoodReport(report) /\ GoodReport(whole)
  BY <1>1, <1>4, TheObjects DEF GoodReport
<1>6. /\ gone \in SUBSET Href /\ gone \cap stored = {}
      /\ token # 0 => gone = {h \in Href : ~Exists(srv, h) /\ srv.deleted[h] > token}
  BY IncrementalAssumption DEF Deletions, ReportedDeleted
<1>7. Covered = token
  BY DEF Covered
<1> HIDE DEF report, whole, token
<1>8. PICK d : d = Applied("webdav_sync", token = 0, report, order, gone)
  OBVIOUS
<1>9. PICK s : s = Applied("fullscan", FALSE, whole, allOrder, {})
  OBVIOUS
<1>10. /\ Outcome(d)
       /\ \A n \in DOMAIN rows : d.rows[n] = AfterAnswer(n, report, gone, token = 0)
       /\ AddedRows(d, report, changed)
  <2>1. (token = 0) \in BOOLEAN /\ "webdav_sync" \in Strategy
        /\ gone \cap DOMAIN report = {} /\ "webdav_sync" # "fullscan"
    BY <1>4, <1>6 DEF Strategy
  <2>2. PICK baseline \in BOOLEAN : baseline = (token = 0)
    BY <2>1
  <2>3. d = Applied("webdav_sync", baseline, report, order, gone)
    BY <1>8, <2>2
  <2>4. /\ Outcome(d)
        /\ \A n \in DOMAIN rows :
              d.rows[n] = AfterAnswer(n, report, gone, "webdav_sync" = "fullscan" \/ baseline)
        /\ AddedRows(d, report, DOMAIN report)
    BY <1>1, <1>5, <1>6, <2>1, <2>3, AppliedMeans
  <2>5. ("webdav_sync" = "fullscan" \/ baseline) = (token = 0)
    BY <2>1, <2>2
  <2> QED
    BY <1>4, <2>4, <2>5
<1>11. /\ Outcome(s)
       /\ \A n \in DOMAIN rows : s.rows[n] = AfterAnswer(n, whole, {}, TRUE)
       /\ AddedRows(s, whole, stored)
  <2>1. PICK strategy0 \in Strategy, baseline \in BOOLEAN, gone0 \in SUBSET Href :
           strategy0 = "fullscan" /\ ~baseline /\ gone0 = {}
    BY DEF Strategy
  <2>2. s = Applied(strategy0, baseline, whole, allOrder, gone0)
    BY <1>9, <2>1
  <2>3. gone0 \cap DOMAIN whole = {}
    BY <2>1
  <2>4. /\ Outcome(s)
        /\ \A n \in DOMAIN rows :
              s.rows[n] = AfterAnswer(n, whole, gone0, strategy0 = "fullscan" \/ baseline)
        /\ AddedRows(s, whole, DOMAIN whole)
    BY <1>1, <1>5, <2>1, <2>2, <2>3, AppliedMeans
  <2>5. (strategy0 = "fullscan" \/ baseline) = TRUE
    BY <2>1
  <2> QED
    BY <1>4, <2>1, <2>4, <2>5
\* What the token covers, the rows know.
<1>12. ASSUME NEW h \in Href, LastChange(h) > 0, LastChange(h) <= token
       PROVE  Reflected(h)
  BY <1>1, <1>7, <1>12 DEF Known, Settled, Good
<1>13. ASSUME NEW h \in stored \ changed
       PROVE  /\ token # 0
              /\ \E n \in Live : /\ rows[n].href = h
                                 /\ rows[n].etag = srv.objects[h].etag
                                       \/ rows[n].status = "conflict"
  <2>1. LastChange(h) > 0 /\ LastChange(h) <= token /\ srv.objects[h].uid = HomeUID[h]
    BY <1>1, <1>2, TheObjects
  <2>2. Reflected(h)
    BY <1>12, <2>1
  <2>3. PICK n \in Live : /\ rows[n].uid = srv.objects[h].uid
                          /\ \/ rows[n].etag = srv.objects[h].etag
                             \/ rows[n].status \in {"conflict", "pending", "error"}
    BY <2>2 DEF Reflected
  <2>4. rows[n].href = h
    <3>1. n \in DOMAIN rows /\ rows[n].href \in Href
      BY <1>1, RowTask DEF Live
    <3>2. HomeUID[rows[n].href] = HomeUID[h]
      BY <1>1, <2>1, <2>3, <3>1 DEF RowsOK
    <3> QED
      BY <3>1, <3>2, IncrementalAssumption
  <2>5. rows[n].status \in {"synced", "conflict"}
    BY DEF AllFromServer
  <2>6. token # 0
    BY <1>2, <1>1, <2>1, ChangeType
  <2> QED
    BY <2>3, <2>4, <2>5, <2>6
<1>14. ASSUME NEW n \in DOMAIN rows
       PROVE  d.rows[n] = s.rows[n] \/ SameShown(d.rows[n], s.rows[n])
  <2> DEFINE h == rows[n].href
  <2>1. rows[n] \in Task /\ h \in Href
    BY <1>1, RowTask
  <2>2. d.rows[n] = AfterAnswer(n, report, gone, token = 0)
        /\ s.rows[n] = AfterAnswer(n, whole, {}, TRUE)
    BY <1>10, <1>11
  <2>3. CASE n \notin Live
    BY <2>2, <2>3, Zenon DEF AfterAnswer
  <2>4. CASE n \in Live /\ h \in changed
    <3>1. h \in stored
      BY <2>4
    <3>2. d.rows[n] = AfterObject(n, report[h]) /\ s.rows[n] = AfterObject(n, whole[h])
      BY <1>4, <2>2, <2>4, <3>1, Zenon DEF AfterAnswer
    <3> QED
      BY <1>4, <2>4, <3>1, <3>2
  <2>5. CASE n \in Live /\ h \in stored \ changed
    <3>1. h \notin DOMAIN report /\ h \notin gone /\ token # 0 /\ h \in DOMAIN whole
      BY <1>4, <1>6, <1>13, <2>5
    <3>2. d.rows[n] = rows[n]
      BY <2>2, <2>5, <3>1, Zenon DEF AfterAnswer
    <3>3. s.rows[n] = AfterObject(n, srv.objects[h])
      BY <1>4, <2>2, <2>5, <3>1, Zenon DEF AfterAnswer
    <3>4. PICK m \in Live : /\ rows[m].href = h
                            /\ rows[m].etag = srv.objects[h].etag
                                  \/ rows[m].status = "conflict"
      BY <1>13, <2>5
    <3>5. m = n
      BY <1>1, <2>5, <3>4 DEF RowsOK
    <3>6. srv.objects[h] \in Object /\ srv.objects[h] # NoObject
      BY <1>1, <2>5, TheObjects DEF Exists
    <3>7. /\ rows[n].status \in {"synced", "conflict"}
          /\ rows[n].etag = srv.objects[h].etag => rows[n].raw = srv.objects[h].vtodo
      BY <2>5, <3>6 DEF AllFromServer
    <3>8. SameShown(rows[n], AfterObject(n, srv.objects[h]))
      BY <2>1, <3>4, <3>5, <3>6, <3>7, SameAfterScan DEF AfterObject
    <3> QED
      BY <3>2, <3>3, <3>8
  <2>6. CASE n \in Live /\ h \notin stored
    <3>1. h \notin DOMAIN report /\ h \notin DOMAIN whole /\ ~Exists(srv, h)
      BY <1>4, <2>1, <2>6
    <3>2. s.rows[n] = AfterVerdict(rows[n], MissingVerdict(rows[n]), NoText, 0)
      BY <2>2, <2>6, <3>1, Zenon DEF AfterAnswer
    <3>3. CASE token = 0 \/ h \in gone
      BY <2>2, <2>6, <3>1, <3>2, <3>3, Zenon DEF AfterAnswer
    <3>4. CASE ~(token = 0 \/ h \in gone)
      <4>1. d.rows[n] = rows[n]
        BY <2>2, <2>6, <3>1, <3>4, Zenon DEF AfterAnswer
      <4>2. LastChange(h) = srv.deleted[h] /\ LastChange(h) \in Nat
            /\ ~(srv.deleted[h] > token)
        BY <1>1, <1>6, <2>1, <3>1, <3>4, TheObjects, ChangeType
      <4>3. rows[n].status # "synced"
        <5> SUFFICES ASSUME rows[n].status = "synced" PROVE FALSE
          OBVIOUS
        <5>1. LastChange(h) > 0
          BY <1>1, <2>6 DEF SyncedKnown
        <5>2. Reflected(h)
          BY <1>2, <1>12, <2>1, <4>2, <5>1
        <5> QED
          BY <2>6, <3>1, <5>2 DEF Reflected
      <4>4. rows[n].status = "conflict"
        BY <2>6, <4>3 DEF AllFromServer
      <4>5. MissingVerdict(rows[n]) = "keep"
        BY <4>4, VerdictTypes
      <4>6. s.rows[n] = rows[n]
        BY <3>2, <4>5 DEF AfterVerdict
      <4> QED
        BY <4>1, <4>6
    <3> QED
      BY <3>3, <3>4
  <2> QED
    BY <2>3, <2>4, <2>5, <2>6
<1>15. \A h \in stored : NoRowAt(h) => h \in changed
  BY <1>13 DEF NoRowAt
<1>16. changed \subseteq stored /\ \A h \in changed : report[h] = whole[h]
  BY <1>4
<1> HIDE DEF changed, stored
<1>17. \A n \in DOMAIN d.rows \ DOMAIN rows :
          \E m \in DOMAIN s.rows \ DOMAIN rows : d.rows[n] = s.rows[m]
  <2> TAKE n \in DOMAIN d.rows \ DOMAIN rows
  <2>1. PICK h \in changed : NoRowAt(h) /\ d.rows[n] = NewRow(report[h], h)
    BY <1>10 DEF AddedRows
  <2>2. PICK m \in DOMAIN s.rows \ DOMAIN rows : s.rows[m] = NewRow(whole[h], h)
    BY <1>11, <1>16, <2>1 DEF AddedRows
  <2> QED
    BY <1>16, <2>1, <2>2
<1>18. \A n \in DOMAIN s.rows \ DOMAIN rows :
          \E m \in DOMAIN d.rows \ DOMAIN rows : s.rows[n] = d.rows[m]
  <2> TAKE n \in DOMAIN s.rows \ DOMAIN rows
  <2>1. PICK h \in stored : NoRowAt(h) /\ s.rows[n] = NewRow(whole[h], h)
    BY <1>11 DEF AddedRows
  <2>2. h \in changed
    BY <1>15, <2>1
  <2>3. PICK m \in DOMAIN d.rows \ DOMAIN rows : d.rows[m] = NewRow(report[h], h)
    BY <1>10, <2>1, <2>2 DEF AddedRows
  <2>4. report[h] = whole[h]
    BY <1>16, <2>2
  <2> QED
    BY <2>1, <2>3, <2>4
<1>19. \A n \in DOMAIN rows : n \in DOMAIN d.rows /\ n \in DOMAIN s.rows
  BY <1>1, <1>10, <1>11, OutcomeFields, LenProperties DEF Outcome, SyncTypeOK
<1>20. Shown(d.rows) \subseteq Shown(s.rows)
  <2>1. ASSUME NEW n \in DOMAIN d.rows
        PROVE  \E m \in DOMAIN s.rows : SameShown(d.rows[n], s.rows[m])
    <3>1. CASE n \in DOMAIN rows
      <4>1. n \in DOMAIN s.rows
        BY <1>19, <3>1
      <4>2. SameShown(d.rows[n], s.rows[n])
        BY <1>14, <3>1 DEF SameShown
      <4> QED
        BY <4>1, <4>2
    <3>2. CASE n \notin DOMAIN rows
      <4>1. PICK m \in DOMAIN s.rows : d.rows[n] = s.rows[m]
        BY <1>17, <3>2
      <4> QED
        BY <4>1 DEF SameShown
    <3> QED
      BY <3>1, <3>2
  <2>2. PICK from : from = d.rows
    OBVIOUS
  <2>3. PICK to : to = s.rows
    OBVIOUS
  <2>4. \A n \in DOMAIN from : from[n].status # "absent" =>
           \E m \in DOMAIN to : SameShown(from[n], to[m])
    BY <2>1, <2>2, <2>3
  <2>5. Shown(from) \subseteq Shown(to)
    BY <2>4, ShownWithin
  <2> QED
    BY <2>2, <2>3, <2>5
<1>21. Shown(s.rows) \subseteq Shown(d.rows)
  <2>1. ASSUME NEW n \in DOMAIN s.rows
        PROVE  \E m \in DOMAIN d.rows : SameShown(s.rows[n], d.rows[m])
    <3>1. CASE n \in DOMAIN rows
      <4>1. n \in DOMAIN d.rows
        BY <1>19, <3>1
      <4>2. SameShown(s.rows[n], d.rows[n])
        BY <1>14, <3>1 DEF SameShown
      <4> QED
        BY <4>1, <4>2
    <3>2. CASE n \notin DOMAIN rows
      <4>1. PICK m \in DOMAIN d.rows : s.rows[n] = d.rows[m]
        BY <1>18, <3>2
      <4> QED
        BY <4>1 DEF SameShown
    <3> QED
      BY <3>1, <3>2
  <2>2. PICK from : from = s.rows
    OBVIOUS
  <2>3. PICK to : to = d.rows
    OBVIOUS
  <2>4. \A n \in DOMAIN from : from[n].status # "absent" =>
           \E m \in DOMAIN to : SameShown(from[n], to[m])
    BY <2>1, <2>2, <2>3
  <2>5. Shown(from) \subseteq Shown(to)
    BY <2>4, ShownWithin
  <2> QED
    BY <2>2, <2>3, <2>5
<1>22. d.ok = TRUE
  BY <1>10, OutcomeFields
<1> QED
  BY <1>8, <1>9, <1>20, <1>21, <1>22

-----------------------------------------------------------------------------
(* The theorems.                                                           *)

\* The inductive invariant: what the project's token or ctag covers, the rows
\* know, unless an answer has been applied between a request of the user and
\* its mark; and what a run has gathered so far says what the server did.
THEOREM SyncInvariant ==
    ASSUME "move" \notin Events
    PROVE  SyncSpec => []SyncInv
<1>1. SyncInit => SyncInv
  BY InitInv
<1>2. SyncInv /\ [SyncNext]_syncVars => SyncInv'
  BY StepInv
<1> QED
  BY <1>1, <1>2, PTL DEF SyncSpec

\* Every variable of the sync of a project keeps its type.
THEOREM SyncTypeCorrect ==
    ASSUME "move" \notin Events
    PROVE  SyncSpec => []SyncTypeOK
<1>1. SyncInv => SyncTypeOK
  BY DEF SyncInv
<1> QED
  BY <1>1, SyncInvariant, PTL

\* No change on the server is lost between two tokens: a change that the
\* stored sync token or ctag covers is known to its row, or waits for the user
\* or for a retry, whatever the user and other clients do while a run gathers
\* its answer object by object and applies it (webDAVSyncStrategy, ctagStrategy,
\* applyIncrementalSyncProject, persistIncrementalSyncSuccess).  Without
\* "move": an object that another client stores at another href is not
\* followed.
THEOREM NothingIsMissed ==
    ASSUME "move" \notin Events
    PROVE  SyncSpec => []NothingMissed
<1>1. SyncInv => NothingMissed
  BY InvNothingMissed
<1> QED
  BY <1>1, SyncInvariant, PTL

\* Applying what has changed since the token (applyIncrementalSyncProject)
\* leaves the same tasks as applying everything (ApplyFullScanProject), for any
\* number of objects and rows, in any order of the answer: the matching by UID
\* or href, the deletions by href and the baseline agree.
THEOREM DeltaMatchesScan ==
    ASSUME "move" \notin Events
    PROVE  SyncSpec => []DeltaIsScan
<1>1. SyncInv => DeltaIsScan
  BY InvDeltaIsScan
<1> QED
  BY <1>1, SyncInvariant, PTL
=============================================================================
