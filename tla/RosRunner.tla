------------------------------ MODULE RosRunner ------------------------------
(***************************************************************************)
(* The ROS runner, ROSScenarioExecution.run(): every scenario on its own   *)
(* node and executor, its tree ticked by a timer callback in a worker      *)
(* thread ("ticker") while the main thread spins the executor, steps the   *)
(* simulation and watches /clock; the end of a scenario is an executor     *)
(* task (shutdown_task) that shuts the tree down.  Both threads and the    *)
(* signal handlers report through on_scenario_shutdown, which returns      *)
(* early when shutdown_requested is already set.                           *)
(***************************************************************************)
EXTENDS Integers, Sequences

CONSTANTS
    NumScenarios,   \* length of scenarios_list
    MaxSignals      \* bound on the signals of one run

ASSUME RosRunnerAssumption == NumScenarios \in Nat /\ MaxSignals \in Nat

VARIABLES
    mode,               \* how the runner was started; never changes
    pc,                 \* where the main thread is
    idx,                \* position of the for loop over scenarios_list
    shutdownRequested,  \* self.shutdown_requested
    current,            \* self.current_scenario
    visitorSet,         \* self.last_snapshot_visitor is not None
    events,             \* the blackboard's "end" and "fail"
    executorUp,         \* self.node is on a live executor
    simUp,              \* simulation.setup() not followed by shutdown()
    treeUp,             \* behaviours set up and not yet shut down
    timerOn,            \* the tick-tock timer runs
    ticker,             \* the worker thread of the timer callback
    tickOf,             \* the scenario whose tree its last tick is (or was) on
    task,               \* self.shutdown_task: "none", "pending" or "done"
    futures,            \* ShutdownHandler holds an unfinished future
    results,            \* self.results
    raised,             \* an exception left run()
    exit,               \* the exit status of main()
    signals,            \* signals handled so far
    spun,               \* history: the scenarios whose tree was ticked
    lateTick            \* history: a tick outlived its scenario's teardown

vars == <<mode, pc, idx, shutdownRequested, current, visitorSet, events, executorUp, simUp,
          treeUp, timerOn, ticker, tickOf, task, futures, results, raised, exit, signals,
          spun, lateTick>>

verdictVars == <<shutdownRequested, timerOn, results, task>>
scenarioVars == <<current, visitorSet, events>>
tickerVars == <<ticker, tickOf>>
historyVars == <<spun, lateTick>>
-----------------------------------------------------------------------------
Scenarios == 1..NumScenarios
NoScenario == 0
Multiple == NumScenarios > 1

Modes == [sim: BOOLEAN, simTime: BOOLEAN, outputDir: BOOLEAN]

Pcs == {"head", "dir", "node", "sim", "clock", "setup", "attach", "treeSetup",
        "spin", "teardown", "process", "done"}

Results == [name: 0..NumScenarios, result: BOOLEAN, about: 0..NumScenarios]

TypeOK ==
    /\ mode \in Modes
    /\ pc \in Pcs
    /\ idx \in 0..NumScenarios
    /\ current \in 0..NumScenarios
    /\ events \in [end: BOOLEAN, fail: BOOLEAN]
    /\ {shutdownRequested, visitorSet, executorUp, simUp, treeUp, timerOn, futures,
        raised, lateTick} \subseteq BOOLEAN
    /\ tickOf \in 0..NumScenarios
    /\ ticker \in {"idle", "ticking", "postTick", "verdict", "raised"}
    /\ task \in {"none", "pending", "done"}
    /\ results \in Seq(Results)
    /\ exit \in {"running", "pass", "fail", "crash"}
    /\ signals \in 0..MaxSignals
    /\ spun \in SUBSET Scenarios

\* run() has destroyed the bootstrap node, which never had an executor.
Init ==
    /\ mode \in Modes
    /\ pc = "head"
    /\ idx = 0
    /\ current = NoScenario
    /\ events = [end |-> FALSE, fail |-> FALSE]
    /\ shutdownRequested = FALSE
    /\ visitorSet = FALSE
    /\ executorUp = FALSE
    /\ simUp = FALSE
    /\ treeUp = FALSE
    /\ timerOn = FALSE
    /\ ticker = "idle"
    /\ tickOf = NoScenario
    /\ task = "none"
    /\ futures = FALSE
    /\ results = <<>>
    /\ raised = FALSE
    /\ exit = "running"
    /\ signals = 0
    /\ spun = {}
    /\ lateTick = FALSE
-----------------------------------------------------------------------------
(* Reporting                                                               *)

\* The inherited report reads last_snapshot_visitor.last_snapshot of a failed
\* scenario, and the override then needs an executor for its task.
Recordable(res) == current = NoScenario \/ res \/ visitorSet

ReportRaises(res) == ~shutdownRequested /\ ~(Recordable(res) /\ executorUp)

Report(res) == [name |-> current, result |-> res, about |-> idx]

\* on_scenario_shutdown once past its early return: request, interrupt (which
\* cancels the timer), result, shutdown task.
Shutdown(res) ==
    /\ shutdownRequested' = TRUE
    /\ timerOn' = FALSE
    /\ results' = IF Recordable(res) THEN Append(results, Report(res)) ELSE results
    /\ task' = IF Recordable(res) /\ executorUp THEN "pending" ELSE task

\* on_scenario_shutdown as the main thread calls it.
OnScenarioShutdown(res) ==
    IF shutdownRequested THEN UNCHANGED verdictVars ELSE Shutdown(res)

AllPassed(rs) == \A i \in 1..Len(rs) : rs[i].result

Verdict(rs) == rs # <<>> /\ AllPassed(rs)
-----------------------------------------------------------------------------
(* The main thread: bringing a scenario up                                 *)

\* A loop that runs once more than there are scenarios.
NextScenarioOffByOne ==
    /\ pc = "head"
    /\ idx <= NumScenarios
    /\ idx' = idx + 1
    /\ pc' = "dir"
    /\ UNCHANGED <<mode, verdictVars, scenarioVars, executorUp, simUp, treeUp, tickerVars,
                   futures, raised, exit, signals, historyVars>>

NextScenario ==
    /\ pc = "head"
    /\ idx < NumScenarios
    /\ idx' = idx + 1
    /\ pc' = "dir"
    /\ UNCHANGED <<mode, verdictVars, scenarioVars, executorUp, simUp, treeUp, tickerVars,
                   futures, raised, exit, signals, historyVars>>

AllScenariosDone ==
    /\ pc = "head"
    /\ idx = NumScenarios
    /\ pc' = "process"
    /\ UNCHANGED <<mode, idx, verdictVars, scenarioVars, executorUp, simUp, treeUp, tickerVars,
                   futures, raised, exit, signals, historyVars>>

DirResolved ==
    /\ pc = "dir"
    /\ pc' = "node"
    /\ UNCHANGED <<mode, idx, verdictVars, scenarioVars, executorUp, simUp, treeUp, tickerVars,
                   futures, raised, exit, signals, historyVars>>

\* makedirs failed; the loop continues with the next scenario.
DirFails ==
    /\ pc = "dir"
    /\ mode.outputDir /\ Multiple
    /\ OnScenarioShutdown(FALSE)
    /\ raised' = ReportRaises(FALSE)
    /\ pc' = IF ReportRaises(FALSE) THEN "process" ELSE "head"
    /\ UNCHANGED <<mode, idx, scenarioVars, executorUp, simUp, treeUp, tickerVars,
                   futures, exit, signals, historyVars>>

\* A fresh node and executor; the previous scenario's task and futures are dropped.
CreateNode ==
    /\ pc = "node"
    /\ task' = "none"
    /\ futures' = FALSE
    /\ executorUp' = TRUE
    /\ pc' = IF mode.sim THEN "sim" ELSE "clock"
    /\ UNCHANGED <<mode, idx, shutdownRequested, timerOn, results, scenarioVars, simUp,
                   treeUp, tickerVars, raised, exit, signals, historyVars>>

SimOk ==
    /\ pc = "sim"
    /\ simUp' = TRUE
    /\ pc' = "clock"
    /\ UNCHANGED <<mode, idx, verdictVars, scenarioVars, executorUp, treeUp, tickerVars,
                   futures, raised, exit, signals, historyVars>>

\* A failure before setup(): report, simulation.shutdown(), destroy_node, return.
GiveUpScenario ==
    /\ OnScenarioShutdown(FALSE)
    /\ simUp' = FALSE
    /\ executorUp' = FALSE
    /\ pc' = "head"
    /\ UNCHANGED <<mode, idx, scenarioVars, treeUp, tickerVars, futures, raised, exit,
                   signals, historyVars>>

\* simulation.setup() or reset() raised.
SimFails == pc = "sim" /\ GiveUpScenario

\* wait_for_clock: inert on the system clock, two increasing readings otherwise.
ClockAdvances ==
    /\ pc = "clock"
    /\ pc' = "setup"
    /\ UNCHANGED <<mode, idx, verdictVars, scenarioVars, executorUp, simUp, treeUp, tickerVars,
                   futures, raised, exit, signals, historyVars>>

ClockNeverStarts == pc = "clock" /\ mode.simTime /\ GiveUpScenario

\* simulation.step() raised while waiting for /clock: nothing catches it.
ClockWaitRaises ==
    /\ pc = "clock"
    /\ mode.simTime /\ mode.sim
    /\ raised' = TRUE
    /\ pc' = "process"
    /\ UNCHANGED <<mode, idx, verdictVars, scenarioVars, executorUp, simUp, treeUp, tickerVars,
                   futures, exit, signals, historyVars>>

\* A setup() that keeps the previous scenario's request.
ClearRequestForgotten ==
    /\ pc = "setup"
    /\ pc' = "attach"
    /\ UNCHANGED <<mode, idx, shutdownRequested, timerOn, results, task, scenarioVars, executorUp,
                   simUp, treeUp, tickerVars, futures, raised, exit, signals, historyVars>>

\* setup() of the base runner, up to shutdown_requested = False.
ClearRequest ==
    /\ pc = "setup"
    /\ shutdownRequested' = FALSE
    /\ pc' = "attach"
    /\ UNCHANGED <<mode, idx, timerOn, results, task, scenarioVars, executorUp, simUp, treeUp,
                   tickerVars, futures, raised, exit, signals, historyVars>>

AttachTree ==
    /\ pc = "attach"
    /\ current' = idx
    /\ events' = [end |-> FALSE, fail |-> FALSE]
    /\ pc' = "treeSetup"
    /\ UNCHANGED <<mode, idx, verdictVars, visitorSet, executorUp, simUp, treeUp, tickerVars,
                   futures, raised, exit, signals, historyVars>>

\* The tree is set up and tick_tock starts the timer.
TreeSetupOk ==
    /\ pc = "treeSetup"
    /\ visitorSet' = TRUE
    /\ treeUp' = TRUE
    /\ timerOn' = TRUE
    /\ spun' = spun \cup {idx}
    /\ pc' = "spin"
    /\ UNCHANGED <<mode, idx, shutdownRequested, results, task, current, events, executorUp,
                   simUp, tickerVars, futures, raised, exit, signals, lateTick>>

\* A recorder or the visitors: raised before last_snapshot_visitor is set.
SetupRaisesEarly ==
    /\ pc = "treeSetup"
    /\ OnScenarioShutdown(FALSE)
    /\ raised' = ReportRaises(FALSE)
    /\ executorUp' = FALSE
    /\ pc' = IF ReportRaises(FALSE) THEN "process" ELSE "head"
    /\ UNCHANGED <<mode, idx, scenarioVars, simUp, treeUp, tickerVars, futures, exit, signals,
                   historyVars>>

\* A behaviour's setup() raised after the visitors were added and possibly
\* other behaviours set up.  Only the node is destroyed: neither the tree nor
\* the simulation is shut down, and the executor runs the task no more.
SetupRaisesLate ==
    /\ pc = "treeSetup"
    /\ visitorSet' = TRUE
    /\ treeUp' = TRUE
    /\ IF shutdownRequested THEN UNCHANGED verdictVars
       ELSE /\ shutdownRequested' = TRUE
            /\ timerOn' = FALSE
            /\ results' = Append(results, Report(FALSE))
            /\ task' = "pending"
    /\ executorUp' = FALSE
    /\ pc' = "head"
    /\ UNCHANGED <<mode, idx, current, events, simUp, tickerVars, futures, raised, exit, signals,
                   historyVars>>
-----------------------------------------------------------------------------
(* The worker thread: one pass of the tick timer's callback                *)

TickStarts ==
    /\ pc = "spin"
    /\ timerOn
    /\ ticker = "idle"
    /\ ticker' = "ticking"
    /\ tickOf' = idx
    /\ UNCHANGED <<mode, pc, idx, verdictVars, scenarioVars, executorUp, simUp, treeUp,
                   futures, raised, exit, signals, historyVars>>

\* The events are on the blackboard of the scenario the ticked tree belongs to.
Tick(e) ==
    /\ ticker = "ticking"
    /\ events' = IF tickOf = current
                 THEN [end |-> events.end \/ e.end, fail |-> events.fail \/ e.fail]
                 ELSE events
    /\ ticker' = "postTick"
    /\ UNCHANGED <<mode, tickOf, pc, idx, verdictVars, current, visitorSet, executorUp, simUp, treeUp,
                   futures, raised, exit, signals, historyVars>>

\* The executor hands the exception of a callback to the main thread that spins
\* it; once that has left the scenario nobody looks.
TickRaises ==
    /\ ticker = "ticking"
    /\ ticker' = IF pc = "spin" /\ tickOf = idx THEN "raised" ELSE "idle"
    /\ UNCHANGED <<mode, tickOf, pc, idx, verdictVars, scenarioVars, executorUp, simUp, treeUp,
                   futures, raised, exit, signals, historyVars>>

\* post_tick_handler and the early return both read shutdown_requested ...
PostTick ==
    /\ ticker = "postTick"
    /\ ticker' = IF (events.fail \/ events.end) /\ ~shutdownRequested THEN "verdict" ELSE "idle"
    /\ UNCHANGED <<mode, tickOf, pc, idx, verdictVars, scenarioVars, executorUp, simUp, treeUp,
                   futures, raised, exit, signals, historyVars>>

TickResult == ~events.fail

\* ... and what they read may be stale when the result is recorded.
RecordVerdict ==
    /\ ticker = "verdict"
    /\ Shutdown(TickResult)
    /\ ticker' = "idle"
    /\ UNCHANGED <<mode, tickOf, pc, idx, scenarioVars, executorUp, simUp, treeUp, futures,
                   raised, exit, signals, historyVars>>
-----------------------------------------------------------------------------
(* The executor: the shutdown task, and what it waits for                  *)

\* A shutdown of the tree that leaves its timer running.
RunShutdownTaskKeepsTimer ==
    /\ pc \in {"clock", "spin"}
    /\ task = "pending"
    /\ task' = "done"
    /\ treeUp' = FALSE
    /\ futures' \in BOOLEAN
    /\ UNCHANGED <<mode, pc, idx, shutdownRequested, timerOn, results, scenarioVars, executorUp,
                   simUp, tickerVars, raised, exit, signals, historyVars>>

\* self.shutdown: the tree cancels its timer and every behaviour is shut down;
\* an action may leave a cancellation future with the ShutdownHandler.
RunShutdownTask ==
    /\ pc \in {"clock", "spin"}
    /\ task = "pending"
    /\ task' = "done"
    /\ treeUp' = FALSE
    /\ timerOn' = FALSE
    /\ futures' \in BOOLEAN
    /\ UNCHANGED <<mode, pc, idx, shutdownRequested, results, scenarioVars, executorUp, simUp,
                   tickerVars, raised, exit, signals, historyVars>>

FutureDone ==
    /\ futures
    /\ futures' = FALSE
    /\ UNCHANGED <<mode, pc, idx, verdictVars, scenarioVars, executorUp, simUp, treeUp, tickerVars,
                   raised, exit, signals, historyVars>>
-----------------------------------------------------------------------------
(* The main thread: the spin loop and the teardown                         *)

\* /clock stalled or jumped backwards, checked until there is a shutdown task.
ClockFails ==
    /\ pc = "spin"
    /\ mode.simTime
    /\ task = "none"
    /\ OnScenarioShutdown(FALSE)
    /\ UNCHANGED <<mode, pc, idx, scenarioVars, executorUp, simUp, treeUp, tickerVars, futures,
                   raised, exit, signals, historyVars>>

\* simulation.step() or a callback raised: "Run failed".
SpinRaises ==
    /\ pc = "spin"
    /\ mode.sim \/ ticker = "raised"
    /\ OnScenarioShutdown(FALSE)
    /\ ticker' = IF ticker = "raised" THEN "idle" ELSE ticker
    /\ pc' = "teardown"
    /\ UNCHANGED <<mode, tickOf, idx, scenarioVars, executorUp, simUp, treeUp, futures, raised, exit,
                   signals, historyVars>>

\* A loop that waits for the futures however long they take.
SpinEndsPatiently ==
    /\ pc = "spin"
    /\ task = "done"
    /\ ~futures
    /\ pc' = "teardown"
    /\ UNCHANGED <<mode, idx, verdictVars, scenarioVars, executorUp, simUp, treeUp, tickerVars,
                   futures, raised, exit, signals, historyVars>>

\* The task is done, and the futures are, or SHUTDOWN_TIMEOUT has passed.
SpinEnds ==
    /\ pc = "spin"
    /\ task = "done"
    /\ pc' = "teardown"
    /\ UNCHANGED <<mode, idx, verdictVars, scenarioVars, executorUp, simUp, treeUp, tickerVars,
                   futures, raised, exit, signals, historyVars>>

\* finally: _robust_tree_shutdown, _shutdown_simulation, destroy_node.  A tick
\* still in progress is not waited for.
Teardown ==
    /\ pc = "teardown"
    /\ treeUp' = FALSE
    /\ timerOn' = FALSE
    /\ simUp' = FALSE
    /\ executorUp' = FALSE
    /\ ticker' = IF ticker = "raised" THEN "idle" ELSE ticker
    /\ lateTick' = (lateTick \/ ticker \notin {"idle", "raised"})
    /\ pc' = "head"
    /\ UNCHANGED <<mode, idx, shutdownRequested, results, task, scenarioVars, tickOf, futures,
                   raised, exit, signals, spun>>

ProcessResults ==
    /\ pc = "process"
    /\ exit' = IF raised THEN "crash" ELSE IF Verdict(results) THEN "pass" ELSE "fail"
    /\ pc' = "done"
    /\ UNCHANGED <<mode, idx, verdictVars, scenarioVars, executorUp, simUp, treeUp, tickerVars,
                   futures, raised, signals, historyVars>>
-----------------------------------------------------------------------------
(* Signals                                                                 *)

\* signal_handler runs in the main thread.  Its exception leaves run(), except
\* inside setup(), where the except clause's own report returns early.
Signal ==
    /\ pc # "done"
    /\ signals < MaxSignals
    /\ signals' = signals + 1
    /\ OnScenarioShutdown(FALSE)
    /\ IF ~ReportRaises(FALSE)
       THEN UNCHANGED <<pc, raised, executorUp>>
       ELSE IF pc \in {"attach", "treeSetup"}
       THEN pc' = "head" /\ executorUp' = FALSE /\ UNCHANGED raised
       ELSE pc' = "process" /\ raised' = TRUE /\ UNCHANGED executorUp
    /\ UNCHANGED <<mode, idx, scenarioVars, simUp, treeUp, tickerVars, futures, exit, historyVars>>
-----------------------------------------------------------------------------
BringUp ==
    \/ NextScenario \/ AllScenariosDone
    \/ DirResolved \/ DirFails
    \/ CreateNode
    \/ SimOk \/ SimFails
    \/ ClockAdvances \/ ClockNeverStarts \/ ClockWaitRaises
    \/ ClearRequest \/ AttachTree
    \/ TreeSetupOk \/ SetupRaisesEarly \/ SetupRaisesLate

Ticker ==
    \/ TickStarts
    \/ \E e \in [end: BOOLEAN, fail: BOOLEAN] : Tick(e)
    \/ TickRaises
    \/ PostTick \/ RecordVerdict

Main == BringUp \/ SpinRaises \/ SpinEnds \/ Teardown \/ ProcessResults

Next == Main \/ Ticker \/ ClockFails \/ RunShutdownTask \/ FutureDone \/ Signal

\* The main thread keeps spinning (its loop bounds the wait for the futures by
\* SHUTDOWN_TIMEOUT) and the executor runs a task it was given.  No fairness
\* for the ticks, the futures, the clock or the signals.
Fairness ==
    /\ WF_vars(BringUp \/ SpinEnds \/ Teardown \/ ProcessResults)
    /\ WF_vars(RunShutdownTask)

Spec == Init /\ [][Next]_vars /\ Fairness
-----------------------------------------------------------------------------
(* Properties                                                              *)

Judged(k) == \E i \in 1..Len(results) : results[i].name = k /\ results[i].result

\* A passing run judged every scenario whose tree was ticked, whichever thread
\* ended it: the early return of on_scenario_shutdown never loses the verdict
\* of a running scenario to the request of another thread.
TickedScenariosJudged ==
    exit = "pass" /\ ~lateTick => \A k \in spun : Judged(k)

\* The tree is never ticked after its behaviours were shut down: an action
\* would start again what shutdown() has just stopped.
NoTickAfterTeardown == [][ticker = "idle" /\ ticker' = "ticking" => treeUp]_vars

\* Once the end of a scenario is scheduled, its spin loop is left, even when a
\* cancellation future never finishes.
ShutdownEndsSpin == (pc = "spin" /\ task # "none") ~> pc # "spin"

\* docs/architecture.rst:197: "A simulation whose setup() or reset() raises fails
\* that one scenario", so a passing run has judged all of them.
VerdictSound == exit = "pass" => \A k \in Scenarios : Judged(k)
=============================================================================
