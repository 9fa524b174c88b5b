--------------------------- MODULE ScenarioRunner ---------------------------
(***************************************************************************)
(* The middleware-independent runner, ScenarioExecution, from parse() to   *)
(* the exit status of main(): the scenarios of a file run one after the    *)
(* other, each one set up, ticked until shutdown_requested, and judged by  *)
(* a ScenarioResult.  SIGHUP, SIGTERM and SIGINT run on_scenario_shutdown  *)
(* in the main thread between any two of its steps, so every place where   *)
(* the state the handler reads or writes changes is a value of pc.         *)
(***************************************************************************)
EXTENDS Integers, Sequences

CONSTANTS
    NumScenarios,   \* length of scenarios_list
    MaxSignals      \* bound on the signals of one run

ASSUME RunnerAssumption == NumScenarios \in Nat /\ MaxSignals \in Nat

VARIABLES
    mode,               \* how the runner was constructed; never changes
    pc,                 \* where the main thread is
    idx,                \* position of the for loop over scenarios_list
    shutdownRequested,  \* self.shutdown_requested
    current,            \* self.current_scenario, NoScenario before the first setup
    currentDir,         \* self.current_scenario_output_dir
    visitorSet,         \* self.last_snapshot_visitor is not None
    loggersOpen,        \* the status log or the tick recorder is open
    events,             \* the blackboard's "end" and "fail"
    simulation,         \* "down", "up" or "released"
    results,            \* self.results
    reports,            \* the test.xml files, by directory
    raised,             \* an exception left run(): no verdict is computed
    exit,               \* the exit status of main()
    signals             \* signals handled so far

vars == <<mode, pc, idx, shutdownRequested, current, currentDir, visitorSet,
          loggersOpen, events, simulation, results, reports, raised, exit, signals>>

scenarioVars == <<current, currentDir, visitorSet, events>>
-----------------------------------------------------------------------------
Scenarios == 1..NumScenarios
NoScenario == 0
RootDir == 0
Multiple == NumScenarios > 1

Modes == [sim: BOOLEAN, outputDir: BOOLEAN, override: BOOLEAN,
          logging: BOOLEAN, perScenario: BOOLEAN]

\* setup() up to and including the attach of the visitors, then the tick loop.
SetupPcs == {"setup", "clear", "attach", "loggers", "visitors", "treeSetup"}
LoopPcs == {"loop", "tick", "postTick", "verdict"}
Pcs == SetupPcs \cup LoopPcs \cup
         {"parse", "simSetup", "head", "dir", "reset", "simRelease", "process", "done"}

\* A ScenarioResult: whose it claims to be, its verdict and its directory.
\* "about" and "at" are history: the scenario the loop was on, and pc.
Results == [name: 0..NumScenarios, result: BOOLEAN, dir: 0..NumScenarios,
            about: 0..NumScenarios, at: Pcs]

TypeOK ==
    /\ mode \in Modes
    /\ pc \in Pcs
    /\ idx \in 0..NumScenarios
    /\ shutdownRequested \in BOOLEAN
    /\ current \in 0..NumScenarios
    /\ currentDir \in 0..NumScenarios
    /\ visitorSet \in BOOLEAN
    /\ loggersOpen \in BOOLEAN
    /\ events \in [end: BOOLEAN, fail: BOOLEAN]
    /\ simulation \in {"down", "up", "released"}
    /\ results \in Seq(Results)
    /\ reports \in [0..NumScenarios -> SUBSET Nat]
    /\ raised \in BOOLEAN
    /\ exit \in {"running", "pass", "fail", "crash"}
    /\ signals \in 0..MaxSignals

Init ==
    /\ mode \in Modes
    /\ pc = "parse"
    /\ idx = 0
    /\ shutdownRequested = FALSE
    /\ current = NoScenario
    /\ currentDir = RootDir
    /\ visitorSet = FALSE
    /\ loggersOpen = FALSE
    /\ events = [end |-> FALSE, fail |-> FALSE]
    /\ simulation = "down"
    /\ results = <<>>
    /\ reports = [d \in 0..NumScenarios |-> {}]
    /\ raised = FALSE
    /\ exit = "running"
    /\ signals = 0
-----------------------------------------------------------------------------
(* Results                                                                 *)

Result(name, res, dir) ==
    [name |-> name, result |-> res, dir |-> dir, about |-> idx, at |-> pc]

\* A failure report of a scenario reads last_snapshot_visitor.last_snapshot:
\* before the first scenario's visitor exists that is an AttributeError.
Reportable(res) == current = NoScenario \/ res \/ visitorSet

\* What a missing assignment to shutdown_requested would leave.
ShutdownForgetsRequest(res) ==
    /\ loggersOpen' = FALSE
    /\ results' = IF Reportable(res)
                  THEN Append(results, Result(current, res, currentDir)) ELSE results
    /\ UNCHANGED shutdownRequested

\* A handler that leaves the status log and the recorder to run().
ShutdownKeepsLoggers(res) ==
    /\ shutdownRequested' = TRUE
    /\ results' = IF Reportable(res)
                  THEN Append(results, Result(current, res, currentDir)) ELSE results
    /\ UNCHANGED loggersOpen

\* on_scenario_shutdown(result, ...).  It raises when ~Reportable(res), after
\* the request is set and the files are closed.
OnScenarioShutdown(res) ==
    /\ shutdownRequested' = TRUE
    /\ loggersOpen' = FALSE
    /\ results' = IF Reportable(res)
                  THEN Append(results, Result(current, res, currentDir)) ELSE results

AllPassed(rs) == \A i \in 1..Len(rs) : rs[i].result

\* The verdict of process_results (the run is not a dry run).
Verdict(rs) == rs # <<>> /\ AllPassed(rs)

\* The test.xml files process_results writes, as the positions of their test
\* cases in self.results: one file per directory, or one in all.
Reports(rs) ==
    [d \in 0..NumScenarios |->
        {i \in 1..Len(rs) : IF mode.perScenario THEN rs[i].dir = d ELSE d = RootDir}]
-----------------------------------------------------------------------------
(* Control                                                                 *)

\* Leaving run_with_simulation forgetting its finally clause.
AfterRunSkipsFinally == "process"

\* Where a return (or an exception) in the scenario loop leads: the simulation
\* runner has a finally clause, run() has none.
AfterRun == IF simulation = "up" THEN "simRelease" ELSE "process"

\* Where an exception of the signal handler leads: out of the scenario loop like
\* any other, but out of the finally clause itself when it hits there before
\* simulation.shutdown() (inside that call it is caught: ReleaseSimulation).
AfterHandlerRaises == IF pc = "simRelease" THEN "process"
                      ELSE IF pc = "process" THEN pc ELSE AfterRun

\* on_scenario_shutdown(False, ...) and return; its own exception leaves run().
FailAndReturn ==
    /\ OnScenarioShutdown(FALSE)
    /\ raised' = ~Reportable(FALSE)
    /\ pc' = AfterRun

\* The output directory of the scenario the loop is on.
ScenarioDir == IF mode.outputDir /\ (Multiple \/ mode.override) THEN idx ELSE RootDir
-----------------------------------------------------------------------------
(* The main thread                                                         *)

ParseOk ==
    /\ pc = "parse"
    /\ pc' = IF mode.sim THEN "simSetup" ELSE "head"
    /\ UNCHANGED <<mode, idx, shutdownRequested, scenarioVars, loggersOpen,
                   simulation, results, reports, raised, exit, signals>>

\* Unknown extension, missing file or a parser error; main() skips run().
ParseFails ==
    /\ pc = "parse"
    /\ results' = Append(results, Result(NoScenario, FALSE, RootDir))
    /\ pc' = "process"
    /\ UNCHANGED <<mode, idx, shutdownRequested, scenarioVars, loggersOpen,
                   simulation, reports, raised, exit, signals>>

SimSetupOk ==
    /\ pc = "simSetup"
    /\ simulation' = "up"
    /\ pc' = "head"
    /\ UNCHANGED <<mode, idx, shutdownRequested, scenarioVars, loggersOpen,
                   results, reports, raised, exit, signals>>

SimSetupRaises ==
    /\ pc = "simSetup"
    /\ FailAndReturn
    /\ UNCHANGED <<mode, idx, scenarioVars, simulation, reports, exit, signals>>

\* A loop that runs once more than there are scenarios.
NextScenarioOffByOne ==
    /\ pc = "head"
    /\ idx <= NumScenarios
    /\ idx' = idx + 1
    /\ pc' = "dir"
    /\ UNCHANGED <<mode, shutdownRequested, scenarioVars, loggersOpen,
                   simulation, results, reports, raised, exit, signals>>

NextScenario ==
    /\ pc = "head"
    /\ idx < NumScenarios
    /\ idx' = idx + 1
    /\ pc' = "dir"
    /\ UNCHANGED <<mode, shutdownRequested, scenarioVars, loggersOpen,
                   simulation, results, reports, raised, exit, signals>>

AllScenariosDone ==
    /\ pc = "head"
    /\ idx = NumScenarios
    /\ pc' = AfterRun
    /\ UNCHANGED <<mode, idx, shutdownRequested, scenarioVars, loggersOpen,
                   simulation, results, reports, raised, exit, signals>>

DirResolved ==
    /\ pc = "dir"
    /\ pc' = IF mode.sim THEN "reset" ELSE "setup"
    /\ UNCHANGED <<mode, idx, shutdownRequested, scenarioVars, loggersOpen,
                   simulation, results, reports, raised, exit, signals>>

\* makedirs failed.  Only a run of several scenarios gives up: a single
\* scenario goes on in the root output directory, its failure recorded.
DirFails ==
    /\ pc = "dir"
    /\ ScenarioDir # RootDir
    /\ OnScenarioShutdown(FALSE)
    /\ raised' = ~Reportable(FALSE)
    /\ pc' = IF Multiple \/ ~Reportable(FALSE) THEN AfterRun
             ELSE IF mode.sim THEN "reset" ELSE "setup"
    /\ UNCHANGED <<mode, idx, scenarioVars, simulation, reports, exit, signals>>

ResetOk ==
    /\ pc = "reset"
    /\ pc' = "setup"
    /\ UNCHANGED <<mode, idx, shutdownRequested, scenarioVars, loggersOpen,
                   simulation, results, reports, raised, exit, signals>>

\* A required reset() parameter is missing, or reset() raised.
ResetFails ==
    /\ pc = "reset"
    /\ FailAndReturn
    /\ UNCHANGED <<mode, idx, scenarioVars, simulation, reports, exit, signals>>

\* setup(), up to the assignment of current_scenario_output_dir.
SetOutputDir ==
    /\ pc = "setup"
    /\ currentDir' = ScenarioDir
    /\ pc' = "clear"
    /\ UNCHANGED <<mode, idx, shutdownRequested, current, visitorSet, events,
                   loggersOpen, simulation, results, reports, raised, exit, signals>>

\* A setup() that keeps the previous scenario's request.
ClearRequestForgotten ==
    /\ pc = "clear"
    /\ pc' = "attach"
    /\ UNCHANGED <<mode, idx, shutdownRequested, scenarioVars, loggersOpen,
                   simulation, results, reports, raised, exit, signals>>

\* A setup() that names the scenario only when the tree has been built.
AttachTreeKeepsScenario ==
    /\ pc = "attach"
    /\ current' = IF current = NoScenario THEN idx ELSE current
    /\ events' = [end |-> FALSE, fail |-> FALSE]
    /\ pc' = "loggers"
    /\ UNCHANGED <<mode, idx, shutdownRequested, currentDir, visitorSet, loggersOpen,
                   simulation, results, reports, raised, exit, signals>>

\* shutdown_requested = False, whatever was requested since the last scenario.
ClearRequest ==
    /\ pc = "clear"
    /\ shutdownRequested' = FALSE
    /\ pc' = "attach"
    /\ UNCHANGED <<mode, idx, scenarioVars, loggersOpen,
                   simulation, results, reports, raised, exit, signals>>

\* current_scenario, the blackboard with its two events, the new tree.
AttachTree ==
    /\ pc = "attach"
    /\ current' = idx
    /\ events' = [end |-> FALSE, fail |-> FALSE]
    /\ pc' = "loggers"
    /\ UNCHANGED <<mode, idx, shutdownRequested, currentDir, visitorSet, loggersOpen,
                   simulation, results, reports, raised, exit, signals>>

OpenLoggers ==
    /\ pc = "loggers"
    /\ mode.logging => mode.outputDir
    /\ loggersOpen' = mode.logging
    /\ pc' = "visitors"
    /\ UNCHANGED <<mode, idx, shutdownRequested, scenarioVars,
                   simulation, results, reports, raised, exit, signals>>

\* --bt-log or --tick-log without --output-dir, or a file that does not open.
LoggersRaise ==
    /\ pc = "loggers"
    /\ mode.logging
    /\ FailAndReturn
    /\ UNCHANGED <<mode, idx, scenarioVars, simulation, reports, exit, signals>>

AddVisitors ==
    /\ pc = "visitors"
    /\ visitorSet' = TRUE
    /\ pc' = "treeSetup"
    /\ UNCHANGED <<mode, idx, shutdownRequested, current, currentDir, events, loggersOpen,
                   simulation, results, reports, raised, exit, signals>>

TreeSetupOk ==
    /\ pc = "treeSetup"
    /\ pc' = "loop"
    /\ UNCHANGED <<mode, idx, shutdownRequested, scenarioVars, loggersOpen,
                   simulation, results, reports, raised, exit, signals>>

\* A behaviour's setup() raised.
TreeSetupRaises ==
    /\ pc = "treeSetup"
    /\ FailAndReturn
    /\ UNCHANGED <<mode, idx, scenarioVars, simulation, reports, exit, signals>>

\* while not self.shutdown_requested
EnterTick ==
    /\ pc = "loop"
    /\ ~shutdownRequested
    /\ pc' = "tick"
    /\ UNCHANGED <<mode, idx, shutdownRequested, scenarioVars, loggersOpen,
                   simulation, results, reports, raised, exit, signals>>

LeaveLoop ==
    /\ pc = "loop"
    /\ shutdownRequested
    /\ pc' = "head"
    /\ UNCHANGED <<mode, idx, shutdownRequested, scenarioVars, loggersOpen,
                   simulation, results, reports, raised, exit, signals>>

\* One pass over the tree: behaviours may emit either event, and the root's own
\* SUCCESS or FAILURE is written over the events by the post-tick handler.
Tick(e) ==
    /\ pc = "tick"
    /\ events' = [end |-> events.end \/ e.end, fail |-> events.fail \/ e.fail]
    /\ pc' = "postTick"
    /\ UNCHANGED <<mode, idx, shutdownRequested, current, currentDir, visitorSet, loggersOpen,
                   simulation, results, reports, raised, exit, signals>>

\* simulation.step() or a behaviour raised: nothing in the loop catches it.
TickRaises ==
    /\ pc = "tick"
    /\ raised' = TRUE
    /\ pc' = AfterRun
    /\ UNCHANGED <<mode, idx, shutdownRequested, scenarioVars, loggersOpen,
                   simulation, results, reports, exit, signals>>

\* post_tick_handler: the end of the scenario is noticed and the request checked.
PostTick ==
    /\ pc = "postTick"
    /\ pc' = IF (events.fail \/ events.end) /\ ~shutdownRequested THEN "verdict" ELSE "loop"
    /\ UNCHANGED <<mode, idx, shutdownRequested, scenarioVars, loggersOpen,
                   simulation, results, reports, raised, exit, signals>>

\* A post_tick_handler that lets end win over fail.
TickResultEndWins == events.end

\* result in post_tick_handler: fail dominates end.
TickResult == ~events.fail

\* ... and on_scenario_shutdown(result) called: the check and the call are not atomic.
RecordVerdict ==
    /\ pc = "verdict"
    /\ OnScenarioShutdown(TickResult)
    /\ pc' = "loop"
    /\ UNCHANGED <<mode, idx, scenarioVars, simulation, reports, raised, exit, signals>>

\* finally: close both files; simulation.shutdown(), whose exception is only logged.
ReleaseSimulation ==
    /\ pc = "simRelease"
    /\ loggersOpen' = FALSE
    /\ simulation' = "released"
    /\ pc' = "process"
    /\ UNCHANGED <<mode, idx, shutdownRequested, scenarioVars,
                   results, reports, raised, exit, signals>>

\* process_results, or the traceback of an exception nothing caught.
ProcessResults ==
    /\ pc = "process"
    /\ IF raised
       THEN exit' = "crash" /\ UNCHANGED reports
       ELSE /\ exit' = IF Verdict(results) THEN "pass" ELSE "fail"
            /\ reports' = IF mode.outputDir THEN Reports(results) ELSE reports
    /\ pc' = "done"
    /\ UNCHANGED <<mode, idx, shutdownRequested, scenarioVars, loggersOpen,
                   simulation, results, raised, signals>>
-----------------------------------------------------------------------------
(* Signals                                                                 *)

\* signal_handler: on_scenario_shutdown(False, "Aborted").  While a failure is not
\* reportable it raises where the main thread is: inside setup(), whose except
\* clause reports that exception and raises it once more, or, on the way out after
\* that, inside the finally clause or process_results.
Signal ==
    /\ pc # "done"
    /\ signals < MaxSignals
    /\ signals' = signals + 1
    /\ OnScenarioShutdown(FALSE)
    /\ IF Reportable(FALSE)
       THEN UNCHANGED <<pc, raised>>
       ELSE raised' = TRUE /\ pc' = AfterHandlerRaises
    /\ UNCHANGED <<mode, idx, scenarioVars, simulation, reports, exit>>
-----------------------------------------------------------------------------
Main ==
    \/ ParseOk \/ ParseFails
    \/ SimSetupOk \/ SimSetupRaises
    \/ NextScenario \/ AllScenariosDone
    \/ DirResolved \/ DirFails
    \/ ResetOk \/ ResetFails
    \/ SetOutputDir \/ ClearRequest \/ AttachTree
    \/ OpenLoggers \/ LoggersRaise
    \/ AddVisitors
    \/ TreeSetupOk \/ TreeSetupRaises
    \/ EnterTick \/ LeaveLoop
    \/ \E e \in [end: BOOLEAN, fail: BOOLEAN] : Tick(e)
    \/ TickRaises
    \/ PostTick \/ RecordVerdict
    \/ ReleaseSimulation
    \/ ProcessResults

Next == Main \/ Signal

\* The main thread is a running loop: it keeps taking steps.  How long a
\* scenario stays RUNNING, and whether a signal ever comes, is not assumed.
Spec == Init /\ [][Next]_vars /\ WF_vars(Main)
-----------------------------------------------------------------------------
(* Properties                                                              *)

PassedIn(rs, k) == \E i \in 1..Len(rs) : rs[i].name = k /\ rs[i].result

Judged(k) == PassedIn(results, k)

\* Exit status 0 is only reported when every scenario of the file ran to its
\* own successful end, whatever failed, raised or was signalled in between: no
\* early return, no cleared request and no stale current_scenario turns into a
\* pass (process_results only sees the results that were recorded).
VerdictSound == exit = "pass" => \A k \in Scenarios : Judged(k)

\* Why VerdictSound holds: as long as no failure is recorded, every scenario
\* before the loop position has passed; the current one has once its loop was
\* asked to end; and a run that returned without an exception has seen all.
Progress ==
    /\ \A k \in 1..(idx - 1) : Judged(k)
    /\ pc \in {"parse", "simSetup"} => idx = 0
    /\ pc \in {"attach", "loggers", "visitors", "treeSetup"} => ~shutdownRequested
    /\ pc \in LoopPcs /\ shutdownRequested => Judged(idx)
    /\ pc = "head" /\ idx # 0 => Judged(idx)
    /\ pc \in {"simRelease", "process", "done"} /\ ~raised => \A k \in Scenarios : Judged(k)

\* The invariant VerdictSound and KeepsPromise are proved from.
RunInv ==
    /\ pc \notin {"parse", "simSetup", "head", "simRelease", "process", "done"} => idx # 0
    /\ pc \in LoopPcs \cup {"loggers", "visitors", "treeSetup"} => current = idx
    /\ pc \in LoopPcs \cup {"treeSetup"} => visitorSet
    /\ current <= idx
    /\ \A k \in Scenarios : Judged(k) => k <= idx
    /\ AllPassed(results) => Progress
    /\ exit = "running" <=> pc # "done"
    /\ exit = "pass" => AllPassed(results) /\ ~raised

\* A scenario that emitted "fail" never gets a successful result, even when
\* it emitted "end" or its root succeeded in the same tick.
FailDominates ==
    current = idx /\ events.fail => ~ Judged(idx)

\* Without signals the runner judges each scenario at most once and in the
\* order of the file: an early return, the post-tick handler and the exception
\* handlers never judge one scenario twice.
OneResultPerScenario ==
    signals = 0 /\ Multiple =>
        \A i, j \in 1..Len(results) : i < j => results[i].about < results[j].about

\* A simulation that was brought up is shut down before the process exits, also
\* after an exception that nothing caught: whatever step failed when there was no
\* signal, and whenever signals came once a failure can be reported.  Before that,
\* when the first scenario's setup() failed ahead of its visitors, a signal inside
\* the finally block has its handler raise in front of simulation.shutdown().
ReleasedOnceReportable ==
    pc = "done" /\ (signals = 0 \/ Reportable(FALSE)) => simulation # "up"

\* The status log and the tick records are closed when a run ends normally:
\* always with a simulation (finally), and without one unless a signal arrived
\* inside setup(), before the files were opened.
LoggersClosed ==
    pc = "done" /\ (simulation = "released" \/ (signals = 0 /\ ~raised)) => ~loggersOpen

\* A result recorded while a scenario was being ticked (its own verdict, or an
\* abort) ends its loop: the runner does not tick on forever.
VerdictEndsScenario ==
    (\E i \in 1..Len(results) : results[i].about = idx /\ results[i].at \in LoopPcs)
        ~> pc \notin LoopPcs

\* The run keeps the promise of RunVerdicts: passes are given in the order of
\* the file, never revoked, and the exit status agrees with all of them.
Promise == INSTANCE RunVerdicts WITH passed <- {k \in Scenarios : Judged(k)}

KeepsPromise == Promise!Spec
=============================================================================
