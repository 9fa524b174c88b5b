------------------------ MODULE ScenarioRunnerProofs ------------------------
(***************************************************************************)
(* Proofs about ScenarioRunner, for any number of scenarios and signals:   *)
(* type correctness, the soundness of the exit status, and that the runner *)
(* implements RunVerdicts.                                                 *)
(***************************************************************************)
EXTENDS ScenarioRunner, TLAPS
-----------------------------------------------------------------------------
(* Lists of results                                                        *)

\* Appending a result to the list adds exactly that result to what the list
\* says about passes, and keeps "no failure" only when the new one is a pass.
LEMMA AppendResult ==
    ASSUME NEW rs \in Seq(Results), NEW r \in Results
    PROVE  /\ Append(rs, r) \in Seq(Results)
           /\ \A k : PassedIn(Append(rs, r), k) <=> PassedIn(rs, k) \/ (r.name = k /\ r.result)
           /\ AllPassed(Append(rs, r)) <=> AllPassed(rs) /\ r.result
<1>1. /\ Append(rs, r) \in Seq(Results)
      /\ Len(rs) \in Nat
      /\ Len(Append(rs, r)) = Len(rs) + 1
      /\ \A i \in 1..Len(rs) : Append(rs, r)[i] = rs[i]
      /\ Append(rs, r)[Len(rs) + 1] = r
  OBVIOUS
<1>2. \A i : i \in 1..(Len(rs) + 1) <=> i \in 1..Len(rs) \/ i = Len(rs) + 1
  BY <1>1
<1>3. \A k : PassedIn(Append(rs, r), k) <=> PassedIn(rs, k) \/ (r.name = k /\ r.result)
  BY <1>1, <1>2, Zenon DEF PassedIn
<1>4. AllPassed(Append(rs, r)) <=> AllPassed(rs) /\ r.result
  BY <1>1, <1>2, Zenon DEF AllPassed
<1> QED
  BY <1>1, <1>3, <1>4

\* The results the runner builds are well-typed.
LEMMA ResultType ==
    ASSUME TypeOK, NEW res \in BOOLEAN
    PROVE  /\ Result(current, res, currentDir) \in Results
           /\ Result(NoScenario, res, RootDir) \in Results
BY RunnerAssumption DEF TypeOK, Result, Results, NoScenario, RootDir

\* The shared tail of every failure report keeps the variables it writes typed.
LEMMA ShutdownType ==
    ASSUME TypeOK, NEW res \in BOOLEAN, OnScenarioShutdown(res)
    PROVE  /\ shutdownRequested' = TRUE
           /\ loggersOpen' = FALSE
           /\ results' \in Seq(Results)
BY ResultType, AppendResult DEF OnScenarioShutdown, TypeOK

\* The test.xml files hold positions of results.
LEMMA ReportsType ==
    ASSUME TypeOK
    PROVE  Reports(results) \in [0..NumScenarios -> SUBSET Nat]
BY DEF Reports, TypeOK
-----------------------------------------------------------------------------
(* Type correctness                                                        *)

\* Every reachable state of the runner is well-typed.
THEOREM Typing == Spec => []TypeOK
<1>1. Init => TypeOK
  BY RunnerAssumption DEF Init, TypeOK, Pcs, SetupPcs, LoopPcs, NoScenario, RootDir, Modes
<1>2. TypeOK /\ [Next]_vars => TypeOK'
  <2> SUFFICES ASSUME TypeOK, [Next]_vars PROVE TypeOK'
    OBVIOUS
  <2> USE RunnerAssumption DEF TypeOK, Pcs, SetupPcs, LoopPcs
  <2>1. CASE UNCHANGED vars
    BY <2>1 DEF vars
  <2>2. ASSUME FailAndReturn,
               UNCHANGED <<mode, idx, scenarioVars, simulation, reports, exit, signals>>
        PROVE  TypeOK'
    BY <2>2, ShutdownType DEF FailAndReturn, AfterRun, scenarioVars
  <2>3. CASE SimSetupRaises \/ ResetFails \/ LoggersRaise \/ TreeSetupRaises
    BY <2>2, <2>3, Zenon DEF SimSetupRaises, ResetFails, LoggersRaise, TreeSetupRaises
  <2>4. CASE ParseFails
    BY <2>4, ResultType, AppendResult DEF ParseFails, scenarioVars
  <2>5. CASE DirFails
    BY <2>5, ShutdownType DEF DirFails, AfterRun, scenarioVars
  <2>6. CASE RecordVerdict
    BY <2>6, ShutdownType DEF RecordVerdict, TickResult, scenarioVars
  <2>7. CASE Signal
    <3>1. signals' \in 0..MaxSignals
      <4>1. signals \in Nat /\ signals < MaxSignals /\ signals' = signals + 1
        BY <2>7 DEF Signal
      <4> QED
        BY <4>1
    <3>3. OnScenarioShutdown(FALSE)
      BY <2>7 DEF Signal
    <3>2. pc' \in Pcs /\ raised' \in BOOLEAN
      BY <2>7 DEF Signal, AfterHandlerRaises, AfterRun
    <3> QED
      BY <2>7, <3>1, <3>2, <3>3, ShutdownType DEF Signal, scenarioVars
  <2>8. CASE ProcessResults
    BY <2>8, ReportsType DEF ProcessResults, scenarioVars
  <2>9. CASE ParseOk \/ SimSetupOk \/ NextScenario \/ AllScenariosDone \/ DirResolved \/ ResetOk
    BY <2>9 DEF ParseOk, SimSetupOk, NextScenario, AllScenariosDone, DirResolved, ResetOk,
                AfterRun, scenarioVars
  <2>10. CASE ClearRequest \/ AddVisitors
    BY <2>10 DEF ClearRequest, AddVisitors, scenarioVars
  <2>16. CASE AttachTree
    BY <2>16 DEF AttachTree, scenarioVars
  <2>11. CASE SetOutputDir
    <3>1. ScenarioDir \in 0..NumScenarios
      <4>1. RootDir \in 0..NumScenarios /\ idx \in 0..NumScenarios
        BY DEF RootDir
      <4> QED
        BY <4>1, Zenon DEF ScenarioDir
    <3> QED
      BY <2>11, <3>1 DEF SetOutputDir
  <2>12. CASE OpenLoggers
    <3>1. mode.logging \in BOOLEAN
      BY DEF Modes
    <3>2. loggersOpen' \in BOOLEAN
      BY <2>12, <3>1, Zenon DEF OpenLoggers
    <3>3. /\ pc' = "visitors"
          /\ UNCHANGED <<mode, idx, shutdownRequested, current, currentDir, visitorSet, events,
                         simulation, results, reports, raised, exit, signals>>
      BY <2>12, Zenon DEF OpenLoggers, scenarioVars
    <3> QED
      BY <3>2, <3>3
  <2>13. CASE TreeSetupOk \/ EnterTick \/ LeaveLoop \/ PostTick \/ TickRaises
    BY <2>13 DEF TreeSetupOk, EnterTick, LeaveLoop, PostTick, TickRaises, AfterRun, scenarioVars
  <2>14. CASE ReleaseSimulation
    BY <2>14 DEF ReleaseSimulation, scenarioVars
  <2>15. ASSUME NEW e \in [end: BOOLEAN, fail: BOOLEAN], Tick(e)
         PROVE  TypeOK'
    BY <2>15 DEF Tick
  <2> QED
    BY <2>1, <2>3, <2>4, <2>5, <2>6, <2>7, <2>8, <2>9, <2>10, <2>11, <2>12, <2>13, <2>14, <2>15, <2>16
    DEF Next, Main
<1> QED
  BY <1>1, <1>2, PTL DEF Spec
-----------------------------------------------------------------------------
(* The exit status                                                         *)

\* A failure report either records a failure, which rules out a passing
\* verdict for good, or raises and records nothing; it never adds a pass.
LEMMA FailureReport ==
    ASSUME TypeOK, OnScenarioShutdown(FALSE)
    PROVE  /\ \A k : Judged(k)' <=> Judged(k)
           /\ Reportable(FALSE) => ~AllPassed(results')
           /\ ~Reportable(FALSE) => results' = results
           /\ AllPassed(results') => AllPassed(results)
<1>1. CASE ~Reportable(FALSE)
  <2>1. results' = results
    BY <1>1 DEF OnScenarioShutdown
  <2> QED
    BY <1>1, <2>1 DEF Judged
<1>2. CASE Reportable(FALSE)
  <2> DEFINE r == Result(current, FALSE, currentDir)
  <2>1. r \in Results /\ ~r.result /\ results \in Seq(Results)
    BY ResultType DEF TypeOK, Result
  <2>2. results' = Append(results, r)
    BY <1>2 DEF OnScenarioShutdown
  <2> HIDE DEF r
  <2>3. /\ \A k : PassedIn(results', k) <=> PassedIn(results, k)
        /\ ~AllPassed(results')
    BY <2>1, <2>2, AppendResult
  <2> QED
    BY <1>2, <2>3 DEF Judged
<1> QED
  BY <1>1, <1>2

\* RunInv only depends on these variables.
LEMMA RunInvStep ==
    ASSUME TypeOK, RunInv, [Next]_vars
    PROVE  RunInv'
<1> USE RunnerAssumption DEF SetupPcs, LoopPcs
<1>1. CASE UNCHANGED vars
  BY <1>1 DEF vars, RunInv, Progress, Judged
<1>2. ASSUME OnScenarioShutdown(FALSE), pc # "done", pc' \in {"simRelease", "process"},
             raised' = ~Reportable(FALSE), UNCHANGED <<idx, scenarioVars, exit>>
      PROVE  RunInv'
  <2>1. AllPassed(results') => raised' /\ AllPassed(results)
    BY <1>2, FailureReport
  <2>2. \A k : Judged(k)' <=> Judged(k)
    BY <1>2, FailureReport
  <2>3. AllPassed(results') => Progress'
    BY <1>2, <2>1, <2>2 DEF RunInv, Progress
  <2> QED
    BY <1>2, <2>2, <2>3 DEF RunInv, scenarioVars
<1>3. ASSUME FailAndReturn, pc # "done", UNCHANGED <<idx, scenarioVars, exit>>
      PROVE  RunInv'
  BY <1>2, <1>3 DEF FailAndReturn, AfterRun
<1>4. CASE SimSetupRaises \/ ResetFails \/ LoggersRaise \/ TreeSetupRaises
  BY <1>3, <1>4 DEF SimSetupRaises, ResetFails, LoggersRaise, TreeSetupRaises
<1>5. CASE ParseFails
  <2> DEFINE r == Result(NoScenario, FALSE, RootDir)
  <2>1. r \in Results /\ ~r.result /\ results \in Seq(Results)
    BY ResultType DEF TypeOK, Result
  <2>2. results' = Append(results, r)
    BY <1>5 DEF ParseFails
  <2> HIDE DEF r
  <2>3. ~AllPassed(results') /\ \A k : Judged(k)' <=> Judged(k)
    BY <2>1, <2>2, AppendResult DEF Judged
  <2> QED
    BY <1>5, <2>3 DEF ParseFails, RunInv, scenarioVars
<1>6. CASE DirFails
  <2>1. OnScenarioShutdown(FALSE)
    BY <1>6 DEF DirFails
  <2>2. CASE ~Reportable(FALSE)
    BY <1>6, <1>2, <2>1, <2>2 DEF DirFails, AfterRun
  <2>3. CASE Reportable(FALSE)
    <3>1. ~AllPassed(results') /\ \A k : Judged(k)' <=> Judged(k)
      BY <2>1, <2>3, FailureReport
    <3>2. pc = "dir" /\ pc' \in {"simRelease", "process", "reset", "setup"}
      BY <1>6 DEF DirFails, AfterRun
    <3>3. UNCHANGED <<idx, scenarioVars, exit>>
      BY <1>6 DEF DirFails
    <3> QED
      BY <3>1, <3>2, <3>3 DEF RunInv, scenarioVars
  <2> QED
    BY <2>2, <2>3
<1>7. CASE RecordVerdict
  <2> DEFINE r == Result(current, TickResult, currentDir)
  <2>1. /\ pc = "verdict" /\ pc' = "loop" /\ current = idx /\ visitorSet
        /\ UNCHANGED <<idx, scenarioVars, raised, exit>>
        /\ shutdownRequested' = TRUE
    BY <1>7 DEF RecordVerdict, RunInv, OnScenarioShutdown
  <2>2. results' = Append(results, r)
    BY <1>7, <2>1 DEF RecordVerdict, OnScenarioShutdown, Reportable
  <2>3. TickResult \in BOOLEAN
    BY DEF TickResult, TypeOK
  <2>4. r \in Results /\ r.result = TickResult /\ r.name = idx /\ results \in Seq(Results)
    BY <2>1, <2>3, ResultType DEF TypeOK, Result
  <2> HIDE DEF r
  <2>5. /\ \A k : Judged(k)' <=> Judged(k) \/ (k = idx /\ TickResult)
        /\ AllPassed(results') <=> AllPassed(results) /\ TickResult
    BY <2>2, <2>4, AppendResult DEF Judged
  <2>6. AllPassed(results') => Progress'
    BY <2>1, <2>5 DEF RunInv, Progress
  <2>7. \A k \in Scenarios : Judged(k)' => k <= idx'
    BY <2>1, <2>5 DEF RunInv, Scenarios, TypeOK
  <2> QED
    BY <2>1, <2>6, <2>7 DEF RunInv, scenarioVars
<1>8. CASE Signal
  <2>1. OnScenarioShutdown(FALSE) /\ pc # "done" /\ UNCHANGED <<idx, scenarioVars, exit>>
    BY <1>8 DEF Signal
  <2>2. CASE ~Reportable(FALSE)
    BY <1>8, <1>2, <2>1, <2>2 DEF Signal, AfterHandlerRaises, AfterRun
  <2>3. CASE Reportable(FALSE)
    <3>1. ~AllPassed(results') /\ \A k : Judged(k)' <=> Judged(k)
      BY <2>1, <2>3, FailureReport
    <3>2. UNCHANGED <<pc, raised>>
      BY <1>8, <2>3 DEF Signal
    <3> QED
      BY <2>1, <3>1, <3>2 DEF RunInv, scenarioVars
  <2> QED
    BY <2>2, <2>3
<1>9. CASE ProcessResults
  <2>1. /\ pc = "process" /\ pc' = "done"
        /\ UNCHANGED <<idx, results, scenarioVars, shutdownRequested, raised>>
        /\ exit' # "running"
        /\ exit' = "pass" => AllPassed(results) /\ ~raised
    BY <1>9 DEF ProcessResults, Verdict
  <2>2. \A k : Judged(k)' <=> Judged(k)
    BY <2>1 DEF Judged
  <2> QED
    BY <2>1, <2>2 DEF RunInv, Progress, scenarioVars
<1>10. ASSUME UNCHANGED <<results, exit>>, pc # "done"
       PROVE  \A k : Judged(k)' <=> Judged(k)
  BY <1>10 DEF Judged
<1>11. CASE NextScenario
  <2>1. \A k : Judged(k)' <=> Judged(k)
    BY <1>11, <1>10 DEF NextScenario
  <2>2. idx \in Nat /\ idx' = idx + 1 /\ current \in Nat
    BY <1>11 DEF NextScenario, TypeOK
  <2>3. \A k \in 1..(idx' - 1) : k \in 1..(idx - 1) \/ (k = idx /\ idx # 0)
    BY <2>2
  <2>4. AllPassed(results) => \A k \in 1..(idx' - 1) : Judged(k)'
    BY <1>11, <2>1, <2>3 DEF NextScenario, RunInv, Progress
  <2> QED
    BY <1>11, <2>1, <2>2, <2>4 DEF NextScenario, RunInv, Progress, scenarioVars, Scenarios
<1>12. CASE AllScenariosDone
  <2>1. \A k : Judged(k)' <=> Judged(k)
    BY <1>12, <1>10 DEF AllScenariosDone
  <2>2. \A k \in Scenarios : k \in 1..(idx - 1) \/ (k = idx /\ idx # 0)
    BY <1>12 DEF AllScenariosDone, Scenarios
  <2>3. AllPassed(results) => \A k \in Scenarios : Judged(k)
    BY <1>12, <2>2 DEF AllScenariosDone, RunInv, Progress
  <2>4. pc' \in {"simRelease", "process"}
    BY <1>12 DEF AllScenariosDone, AfterRun
  <2> QED
    BY <1>12, <2>1, <2>3, <2>4 DEF AllScenariosDone, RunInv, Progress, scenarioVars
<1>13. CASE ParseOk \/ SimSetupOk \/ DirResolved \/ ResetOk \/ SetOutputDir
  <2>1. \A k : Judged(k)' <=> Judged(k)
    BY <1>13, <1>10 DEF ParseOk, SimSetupOk, DirResolved, ResetOk, SetOutputDir
  <2> QED
    BY <1>13, <2>1 DEF ParseOk, SimSetupOk, DirResolved, ResetOk, SetOutputDir,
                       RunInv, Progress, scenarioVars
<1>14. CASE ClearRequest \/ AttachTree \/ OpenLoggers \/ AddVisitors \/ TreeSetupOk
  <2>1. \A k : Judged(k)' <=> Judged(k)
    BY <1>14, <1>10 DEF ClearRequest, AttachTree, OpenLoggers, AddVisitors, TreeSetupOk
  <2> QED
    BY <1>14, <2>1 DEF ClearRequest, AttachTree, OpenLoggers, AddVisitors, TreeSetupOk,
                       RunInv, Progress, scenarioVars, TypeOK
<1>15. CASE EnterTick \/ LeaveLoop \/ PostTick \/ \E e \in [end: BOOLEAN, fail: BOOLEAN] : Tick(e)
  <2>1. \A k : Judged(k)' <=> Judged(k)
    BY <1>15, <1>10 DEF EnterTick, LeaveLoop, PostTick, Tick
  <2> QED
    BY <1>15, <2>1 DEF EnterTick, LeaveLoop, PostTick, Tick, RunInv, Progress, scenarioVars
<1>16. CASE TickRaises \/ ReleaseSimulation
  <2>1. \A k : Judged(k)' <=> Judged(k)
    BY <1>16, <1>10 DEF TickRaises, ReleaseSimulation
  <2> QED
    BY <1>16, <2>1 DEF TickRaises, ReleaseSimulation, AfterRun, RunInv, Progress, scenarioVars
<1> QED
  BY <1>1, <1>4, <1>5, <1>6, <1>7, <1>8, <1>9, <1>11, <1>12, <1>13, <1>14, <1>15, <1>16
  DEF Next, Main

\* The strengthening holds in every reachable state.
LEMMA RunInvariant == Spec => []RunInv
<1>1. Init => RunInv
  BY RunnerAssumption DEF Init, RunInv, Progress, Judged, PassedIn, LoopPcs, NoScenario,
     Scenarios, AllPassed
<1> QED
  BY <1>1, RunInvStep, Typing, PTL DEF Spec

\* Exit status 0 is reported only when every scenario of the file passed, for
\* every file and however many signals arrive.
THEOREM ExitStatusSound == Spec => []VerdictSound
<1>1. TypeOK /\ RunInv => VerdictSound
  BY DEF TypeOK, RunInv, Progress, VerdictSound
<1> QED
  BY <1>1, RunInvariant, Typing, PTL
-----------------------------------------------------------------------------
(* The simulation                                                          *)

\* Every way out of the scenario loop goes through the finally clause while the
\* simulation is up; it is not up yet when there is no loop to leave.  Only a
\* signal that hits the finally clause while it cannot be reported skips the release.
UpWhileInLoop ==
    /\ pc \in {"parse", "simSetup"} => simulation = "down"
    /\ pc \in {"process", "done"} /\ (signals = 0 \/ Reportable(FALSE)) => simulation # "up"

\* A simulation that was set up has been shut down when the process exits: after
\* any step that failed or raised when no signal came, and whenever signals came
\* once the first scenario got as far as its visitors or before it was attached.
THEOREM SimulationReleasedOnceReportable == Spec => []ReleasedOnceReportable
<1>1. Init => UpWhileInLoop
  BY DEF Init, UpWhileInLoop
<1>2. TypeOK /\ UpWhileInLoop /\ [Next]_vars => UpWhileInLoop'
  <2> SUFFICES ASSUME TypeOK, UpWhileInLoop, [Next]_vars PROVE UpWhileInLoop'
    OBVIOUS
  <2> USE DEF UpWhileInLoop, Reportable, scenarioVars
  <2>1. CASE UNCHANGED vars
    BY <2>1 DEF vars
  <2>2. CASE SimSetupRaises \/ ResetFails \/ LoggersRaise \/ TreeSetupRaises
    BY <2>2 DEF SimSetupRaises, ResetFails, LoggersRaise, TreeSetupRaises, FailAndReturn, AfterRun
  <2>3. CASE DirFails
    BY <2>3 DEF DirFails, AfterRun
  <2>4. CASE AllScenariosDone \/ TickRaises
    BY <2>4 DEF AllScenariosDone, TickRaises, AfterRun
  <2>5. CASE ParseOk \/ ParseFails \/ SimSetupOk \/ NextScenario \/ DirResolved \/ ResetOk
    BY <2>5 DEF ParseOk, ParseFails, SimSetupOk, NextScenario, DirResolved, ResetOk
  <2>6. CASE SetOutputDir \/ ClearRequest \/ AttachTree \/ OpenLoggers \/ AddVisitors \/ TreeSetupOk
    BY <2>6 DEF SetOutputDir, ClearRequest, AttachTree, OpenLoggers, AddVisitors, TreeSetupOk
  <2>7. CASE EnterTick \/ LeaveLoop \/ PostTick \/ RecordVerdict
             \/ \E e \in [end: BOOLEAN, fail: BOOLEAN] : Tick(e)
    BY <2>7 DEF EnterTick, LeaveLoop, PostTick, RecordVerdict, Tick
  <2>8. CASE ReleaseSimulation \/ ProcessResults
    BY <2>8 DEF ReleaseSimulation, ProcessResults
  <2>9. CASE Signal
    <3>1. signals' # 0 /\ UNCHANGED <<simulation, current, visitorSet>>
      BY <2>9 DEF Signal, TypeOK
    <3>2. CASE Reportable(FALSE)
      BY <2>9, <3>1, <3>2 DEF Signal
    <3>3. CASE ~Reportable(FALSE)
      <4>1. pc' \notin {"parse", "simSetup"}
        BY <2>9, <3>3 DEF Signal, AfterHandlerRaises, AfterRun
      <4> QED
        BY <3>1, <3>3, <4>1
    <3> QED
      BY <3>2, <3>3
  <2> QED
    BY <2>1, <2>2, <2>3, <2>4, <2>5, <2>6, <2>7, <2>8, <2>9 DEF Next, Main
<1>3. UpWhileInLoop => ReleasedOnceReportable
  BY DEF UpWhileInLoop, ReleasedOnceReportable
<1> QED
  BY <1>1, <1>2, <1>3, Typing, PTL DEF Spec
-----------------------------------------------------------------------------
(* The log files                                                           *)

\* The finally clause closes the files; without one, the report that requests the
\* end of a scenario does, unless a signal or an exception ended it.
ClosedWhenLeft ==
    /\ simulation = "released" => ~loggersOpen /\ pc \in {"process", "done"}
    /\ pc \in {"attach", "loggers"} /\ signals = 0 => ~shutdownRequested
    /\ loggersOpen /\ signals = 0 /\ ~raised =>
           pc \in {"visitors", "treeSetup"} \cup LoopPcs /\ ~shutdownRequested

LEMMA ClosedStep ==
    ASSUME TypeOK, ClosedWhenLeft, [Next]_vars
    PROVE  ClosedWhenLeft'
<1> USE DEF ClosedWhenLeft, LoopPcs
<1>1. CASE UNCHANGED vars
  BY <1>1 DEF vars
<1>2. ASSUME NEW res, OnScenarioShutdown(res), UNCHANGED simulation,
             pc' \in {"process", "done"} \/ simulation # "released",
             pc' \notin {"attach", "loggers"} \/ signals' # 0
      PROVE  ClosedWhenLeft'
  BY <1>2 DEF OnScenarioShutdown
<1>3. CASE SimSetupRaises \/ ResetFails \/ LoggersRaise \/ TreeSetupRaises
  BY <1>2, <1>3 DEF SimSetupRaises, ResetFails, LoggersRaise, TreeSetupRaises, FailAndReturn, AfterRun
<1>4. CASE DirFails \/ RecordVerdict
  BY <1>2, <1>4 DEF DirFails, RecordVerdict, AfterRun
<1>5. CASE Signal
  <2>1. signals' # 0
    BY <1>5 DEF Signal, TypeOK
  <2> QED
    BY <1>2, <1>5, <2>1 DEF Signal, AfterHandlerRaises, AfterRun
<1>6. CASE \/ ParseOk \/ ParseFails \/ SimSetupOk \/ NextScenario \/ AllScenariosDone \/ DirResolved
           \/ ResetOk \/ SetOutputDir \/ ClearRequest \/ AttachTree
  <2>1. /\ pc \in {"parse", "simSetup", "head", "dir", "reset", "setup", "clear", "attach"}
        /\ UNCHANGED <<loggersOpen, signals, raised>>
        /\ simulation' \in {simulation, "up"}
    BY <1>6 DEF ParseOk, ParseFails, SimSetupOk, NextScenario, AllScenariosDone, DirResolved,
                ResetOk, SetOutputDir, ClearRequest, AttachTree
  <2>2. pc' \in {"attach", "loggers"} => ~shutdownRequested' \/ (pc = "attach" /\ UNCHANGED shutdownRequested)
    BY <1>6 DEF ParseOk, ParseFails, SimSetupOk, NextScenario, AllScenariosDone, DirResolved,
                ResetOk, SetOutputDir, ClearRequest, AttachTree, AfterRun
  <2> QED
    BY <2>1, <2>2
<1>7. CASE OpenLoggers \/ AddVisitors \/ TreeSetupOk
  <2>1. /\ pc \in {"loggers", "visitors", "treeSetup"}
        /\ UNCHANGED <<simulation, signals, raised, shutdownRequested>>
        /\ pc' \in {"visitors", "treeSetup", "loop"}
        /\ pc # "loggers" => UNCHANGED loggersOpen
    BY <1>7 DEF OpenLoggers, AddVisitors, TreeSetupOk
  <2> QED
    BY <2>1
<1>8. CASE EnterTick \/ LeaveLoop \/ TickRaises \/ PostTick
           \/ \E e \in [end: BOOLEAN, fail: BOOLEAN] : Tick(e)
  <2>1. /\ pc \in {"loop", "tick", "postTick"}
        /\ UNCHANGED <<loggersOpen, simulation, signals, shutdownRequested>>
        /\ pc' \notin {"attach", "loggers"}
    BY <1>8 DEF EnterTick, LeaveLoop, TickRaises, PostTick, Tick, AfterRun
  <2>2. \/ raised'
        \/ raised' = raised /\ pc' \in LoopPcs
        \/ raised' = raised /\ pc = "loop" /\ shutdownRequested
    BY <1>8 DEF EnterTick, LeaveLoop, TickRaises, PostTick, Tick
  <2> QED
    BY <2>1, <2>2
<1>9. CASE ReleaseSimulation \/ ProcessResults
  BY <1>9 DEF ReleaseSimulation, ProcessResults
<1> QED
  BY <1>1, <1>3, <1>4, <1>5, <1>6, <1>7, <1>8, <1>9 DEF Next, Main

\* The log and the recorder are closed at the end of every run that a finally
\* clause or no signal and no exception brought there.
THEOREM LogsAreClosed == Spec => []LoggersClosed
<1>1. Init => ClosedWhenLeft
  BY DEF Init, ClosedWhenLeft
<1>2. ClosedWhenLeft => LoggersClosed
  BY DEF ClosedWhenLeft, LoggersClosed, LoopPcs
<1> QED
  BY <1>1, <1>2, ClosedStep, Typing, PTL DEF Spec
-----------------------------------------------------------------------------
(* fail and end                                                            *)

\* A scenario passes with the verdict of its last tick: once it has, there is no
\* further tick that could still emit "fail".
NoTickAfterPass ==
    Judged(idx) =>
        /\ pc \in {"loop", "head", "simRelease", "process", "done"}
        /\ pc = "loop" => shutdownRequested

FailInv == FailDominates /\ NoTickAfterPass

LEMMA FailInvStep ==
    ASSUME TypeOK, RunInv, FailInv, [Next]_vars
    PROVE  FailInv'
<1> USE DEF FailInv, FailDominates, NoTickAfterPass, scenarioVars
<1>1. CASE UNCHANGED vars
  BY <1>1 DEF vars, Judged
<1>2. ASSUME \A k : Judged(k)' <=> Judged(k), UNCHANGED <<idx, scenarioVars>>,
             pc' \in {"simRelease", "process"} \/ (pc' = pc /\ shutdownRequested')
      PROVE  FailInv'
  BY <1>2
<1>3. CASE SimSetupRaises \/ ResetFails \/ LoggersRaise \/ TreeSetupRaises
  <2>1. OnScenarioShutdown(FALSE) /\ UNCHANGED <<idx, scenarioVars>>
    BY <1>3 DEF SimSetupRaises, ResetFails, LoggersRaise, TreeSetupRaises, FailAndReturn
  <2>2. pc' \in {"simRelease", "process"}
    BY <1>3 DEF SimSetupRaises, ResetFails, LoggersRaise, TreeSetupRaises, FailAndReturn, AfterRun
  <2> QED
    BY <1>2, <2>1, <2>2, FailureReport
<1>4. CASE DirFails
  <2>1. OnScenarioShutdown(FALSE) /\ UNCHANGED <<idx, scenarioVars>> /\ pc = "dir"
    BY <1>4 DEF DirFails
  <2> QED
    BY <2>1, FailureReport
<1>5. CASE Signal
  <2>1. OnScenarioShutdown(FALSE) /\ UNCHANGED <<idx, scenarioVars>>
    BY <1>5 DEF Signal
  <2>2. pc' \in {"simRelease", "process"} \/ pc' = pc
    BY <1>5 DEF Signal, AfterHandlerRaises, AfterRun
  <2>3. shutdownRequested' = TRUE
    BY <2>1 DEF OnScenarioShutdown
  <2> QED
    BY <1>2, <2>1, <2>2, <2>3, FailureReport
<1>6. CASE ParseFails
  <2> DEFINE r == Result(NoScenario, FALSE, RootDir)
  <2>1. r \in Results /\ ~r.result /\ results \in Seq(Results)
    BY ResultType DEF TypeOK, Result
  <2>2. results' = Append(results, r)
    BY <1>6 DEF ParseFails
  <2> HIDE DEF r
  <2>3. \A k : Judged(k)' <=> Judged(k)
    BY <2>1, <2>2, AppendResult DEF Judged
  <2> QED
    BY <1>2, <1>6, <2>3 DEF ParseFails
<1>7. CASE RecordVerdict
  <2> DEFINE r == Result(current, TickResult, currentDir)
  <2>1. /\ pc = "verdict" /\ pc' = "loop" /\ current = idx /\ visitorSet
        /\ UNCHANGED <<idx, scenarioVars>>
        /\ shutdownRequested' = TRUE
    BY <1>7 DEF RecordVerdict, RunInv, OnScenarioShutdown, LoopPcs
  <2>2. results' = Append(results, r)
    BY <1>7, <2>1 DEF RecordVerdict, OnScenarioShutdown, Reportable
  <2>3. TickResult \in BOOLEAN
    BY DEF TickResult, TypeOK
  <2>4. r \in Results /\ r.result = TickResult /\ results \in Seq(Results)
    BY <2>3, ResultType DEF TypeOK, Result
  <2> HIDE DEF r
  <2>5. \A k : Judged(k)' => Judged(k) \/ TickResult
    BY <2>2, <2>4, AppendResult DEF Judged
  <2> QED
    BY <2>1, <2>5 DEF TickResult
<1>8. ASSUME UNCHANGED results
      PROVE  \A k : Judged(k)' <=> Judged(k)
  BY <1>8 DEF Judged
<1>9. CASE NextScenario
  <2>1. idx' = idx + 1 /\ idx \in Nat /\ idx' \in Scenarios /\ current' = current
    BY <1>9, RunnerAssumption DEF NextScenario, TypeOK, Scenarios
  <2>2. \A k \in Scenarios : Judged(k)' => k <= idx
    BY <1>8, <1>9 DEF NextScenario, RunInv
  <2> QED
    BY <2>1, <2>2, RunnerAssumption DEF Judged, Scenarios
<1>10. CASE AttachTree
  <2>1. pc = "attach" /\ idx' = idx /\ ~events'.fail /\ \A k : Judged(k)' <=> Judged(k)
    BY <1>8, <1>10 DEF AttachTree
  <2> QED
    BY <2>1
<1>11. ASSUME UNCHANGED <<idx, scenarioVars>>, UNCHANGED results,
              pc \notin {"loop", "head", "simRelease", "process", "done"}
       PROVE  FailInv'
  BY <1>8, <1>11
<1>12. CASE ParseOk \/ SimSetupOk \/ DirResolved \/ ResetOk \/ ClearRequest \/ OpenLoggers
            \/ TreeSetupOk \/ PostTick \/ TickRaises
  BY <1>11, <1>12 DEF ParseOk, SimSetupOk, DirResolved, ResetOk, ClearRequest, OpenLoggers,
                      TreeSetupOk, PostTick, TickRaises
<1>13. CASE SetOutputDir \/ AddVisitors \/ \E e \in [end: BOOLEAN, fail: BOOLEAN] : Tick(e)
  <2>1. UNCHANGED <<idx, results, current>> /\ pc \in {"setup", "visitors", "tick"}
    BY <1>13 DEF SetOutputDir, AddVisitors, Tick
  <2> QED
    BY <1>8, <2>1
<1>14. CASE AllScenariosDone \/ EnterTick \/ LeaveLoop \/ ReleaseSimulation \/ ProcessResults
  <2>1. UNCHANGED <<idx, scenarioVars, results, shutdownRequested>>
    BY <1>14 DEF AllScenariosDone, EnterTick, LeaveLoop, ReleaseSimulation, ProcessResults
  <2>2. CASE EnterTick
    BY <1>8, <2>1, <2>2 DEF EnterTick
  <2>3. CASE ~EnterTick
    BY <1>8, <1>14, <2>1, <2>3 DEF AllScenariosDone, LeaveLoop, ReleaseSimulation, ProcessResults, AfterRun
  <2> QED
    BY <2>2, <2>3
<1> QED
  BY <1>1, <1>3, <1>4, <1>5, <1>6, <1>7, <1>9, <1>10, <1>12, <1>13, <1>14 DEF Next, Main

\* A scenario that emitted "fail" is never judged a success, whatever else its
\* ticks emitted and whenever a signal arrived.
THEOREM FailNeverPasses == Spec => []FailDominates
<1>1. Init => FailInv
  BY DEF Init, FailInv, FailDominates, NoTickAfterPass, Judged, PassedIn
<1>2. FailInv => FailDominates
  BY DEF FailInv
<1> QED
  BY <1>1, <1>2, FailInvStep, RunInvariant, Typing, PTL DEF Spec
-----------------------------------------------------------------------------
(* One result per scenario                                                 *)

Increasing(rs) == \A i, j \in 1..Len(rs) : i < j => rs[i].about < rs[j].about
AllBefore(rs, k) == \A i \in 1..Len(rs) : rs[i].about < k

\* A result about a later scenario keeps the order.
LEMMA AppendLater ==
    ASSUME NEW rs \in Seq(Results), NEW r \in Results, NEW k \in Nat, r.about = k,
           Increasing(rs), AllBefore(rs, k)
    PROVE  Increasing(Append(rs, r)) /\ AllBefore(Append(rs, r), k + 1)
<1>1. /\ Len(rs) \in Nat
      /\ Len(Append(rs, r)) = Len(rs) + 1
      /\ \A i \in 1..Len(rs) : Append(rs, r)[i] = rs[i] /\ rs[i] \in Results
      /\ Append(rs, r)[Len(rs) + 1] = r
  OBVIOUS
<1>2. \A i \in 1..Len(rs) : rs[i].about \in Int
  BY <1>1, RunnerAssumption DEF Results
<1>3. \A i, j \in 1..(Len(rs) + 1) :
          i < j => i \in 1..Len(rs) /\ (j \in 1..Len(rs) \/ j = Len(rs) + 1)
  BY <1>1
<1> QED
  BY <1>1, <1>2, <1>3 DEF Increasing, AllBefore

\* Where the loop is done with the scenario it is on.
Judging == pc \in {"head", "simRelease", "process", "done"} \/ (pc = "loop" /\ shutdownRequested)

\* Without signals the results are in order, none is about a scenario to come,
\* and the scenario of the loop has none while it can still be judged.
OneInv ==
    signals = 0 /\ Multiple =>
        /\ Increasing(results)
        /\ AllBefore(results, idx + 1)
        /\ ~Judging => AllBefore(results, idx)

LEMMA OneInvStep ==
    ASSUME TypeOK, OneInv, [Next]_vars
    PROVE  OneInv'
<1> SUFFICES ASSUME signals' = 0, Multiple'
             PROVE  /\ Increasing(results')
                    /\ AllBefore(results', idx' + 1)
                    /\ ~Judging' => AllBefore(results', idx')
  BY DEF OneInv
<1> USE DEF Judging, scenarioVars
<1>1. signals \in Nat /\ idx \in Nat /\ Multiple
  BY RunnerAssumption DEF TypeOK, Multiple
<1>2. ASSUME signals' = signals
      PROVE  /\ Increasing(results)
             /\ AllBefore(results, idx + 1)
             /\ ~Judging => AllBefore(results, idx)
  BY <1>1, <1>2 DEF OneInv
<1>3. CASE UNCHANGED vars
  BY <1>2, <1>3 DEF vars
<1>4. CASE Signal
  BY <1>1, <1>4 DEF Signal
<1>5. ASSUME UNCHANGED <<signals, idx>>, ~Judging, Judging',
             NEW r \in Results, r.about = idx, results' = results \/ results' = Append(results, r)
      PROVE  Increasing(results') /\ AllBefore(results', idx' + 1)
  <2>1. results \in Seq(Results)
    BY DEF TypeOK
  <2>2. Increasing(results) /\ AllBefore(results, idx + 1) /\ AllBefore(results, idx)
    BY <1>2, <1>5
  <2>3. Increasing(Append(results, r)) /\ AllBefore(Append(results, r), idx + 1)
    BY <1>1, <1>5, <2>1, <2>2, AppendLater
  <2> QED
    BY <1>5, <2>2, <2>3
<1>6. CASE SimSetupRaises \/ ResetFails \/ LoggersRaise \/ TreeSetupRaises
  <2>1. ~Judging /\ Judging' /\ UNCHANGED <<signals, idx>> /\ OnScenarioShutdown(FALSE)
    BY <1>6 DEF SimSetupRaises, ResetFails, LoggersRaise, TreeSetupRaises, FailAndReturn, AfterRun
  <2> DEFINE r == Result(current, FALSE, currentDir)
  <2>2. r \in Results /\ r.about = idx
    BY ResultType DEF Result
  <2>3. results' = results \/ results' = Append(results, r)
    BY <2>1 DEF OnScenarioShutdown
  <2> QED
    BY <1>5, <2>1, <2>2, <2>3
<1>7. CASE DirFails
  <2>1. ~Judging /\ Judging' /\ UNCHANGED <<signals, idx>> /\ OnScenarioShutdown(FALSE)
    BY <1>1, <1>7 DEF DirFails, AfterRun
  <2> DEFINE r == Result(current, FALSE, currentDir)
  <2>2. r \in Results /\ r.about = idx
    BY ResultType DEF Result
  <2>3. results' = results \/ results' = Append(results, r)
    BY <2>1 DEF OnScenarioShutdown
  <2> QED
    BY <1>5, <2>1, <2>2, <2>3
<1>8. CASE ParseFails
  <2>1. ~Judging /\ Judging' /\ UNCHANGED <<signals, idx>>
    BY <1>8 DEF ParseFails
  <2> DEFINE r == Result(NoScenario, FALSE, RootDir)
  <2>2. r \in Results /\ r.about = idx
    BY ResultType DEF Result
  <2>3. results' = Append(results, r)
    BY <1>8 DEF ParseFails
  <2> QED
    BY <1>5, <2>1, <2>2, <2>3
<1>9. CASE RecordVerdict
  <2>1. ~Judging /\ Judging' /\ UNCHANGED <<signals, idx>> /\ OnScenarioShutdown(TickResult)
    BY <1>9 DEF RecordVerdict, OnScenarioShutdown
  <2> DEFINE r == Result(current, TickResult, currentDir)
  <2>2. r \in Results /\ r.about = idx
    BY ResultType DEF Result, TickResult, TypeOK
  <2>3. results' = results \/ results' = Append(results, r)
    BY <2>1 DEF OnScenarioShutdown
  <2> QED
    BY <1>5, <2>1, <2>2, <2>3
<1>10. CASE NextScenario
  <2>1. /\ idx' = idx + 1 /\ results' = results /\ signals' = signals
        /\ ~Judging'
    BY <1>10 DEF NextScenario
  <2>2. Increasing(results) /\ AllBefore(results, idx + 1)
    BY <1>2, <2>1
  <2>3. \A i \in 1..Len(results) : results[i].about \in Int
    <3>1. \A i \in 1..Len(results) : results[i] \in Results
      BY DEF TypeOK
    <3> QED
      BY <3>1, RunnerAssumption DEF Results
  <2> QED
    BY <1>1, <2>1, <2>2, <2>3 DEF AllBefore
<1>11. ASSUME UNCHANGED <<signals, idx, results>>, ~Judging' => ~Judging
       PROVE  /\ Increasing(results')
              /\ AllBefore(results', idx' + 1)
              /\ ~Judging' => AllBefore(results', idx')
  BY <1>2, <1>11
<1>12. CASE ParseOk \/ SimSetupOk \/ AllScenariosDone \/ DirResolved \/ ResetOk \/ SetOutputDir
            \/ ClearRequest \/ AttachTree \/ OpenLoggers \/ AddVisitors \/ TreeSetupOk
  BY <1>11, <1>12 DEF ParseOk, SimSetupOk, AllScenariosDone, DirResolved, ResetOk, SetOutputDir,
                      ClearRequest, AttachTree, OpenLoggers, AddVisitors, TreeSetupOk, AfterRun
<1>13. CASE EnterTick \/ LeaveLoop \/ TickRaises \/ PostTick \/ ReleaseSimulation \/ ProcessResults
            \/ \E e \in [end: BOOLEAN, fail: BOOLEAN] : Tick(e)
  BY <1>11, <1>13 DEF EnterTick, LeaveLoop, TickRaises, PostTick, ReleaseSimulation, ProcessResults,
                      Tick, AfterRun
<1> QED
  BY <1>3, <1>4, <1>6, <1>7, <1>8, <1>9, <1>10, <1>12, <1>13 DEF Next, Main

\* Without signals every scenario is judged at most once and in the order of
\* the file, however many scenarios there are and whatever fails.
THEOREM JudgedOnceInOrder == Spec => []OneResultPerScenario
<1>1. Init => OneInv
  BY DEF Init, OneInv, Increasing, AllBefore
<1>2. OneInv => OneResultPerScenario
  BY DEF OneInv, OneResultPerScenario, Increasing
<1> QED
  BY <1>1, <1>2, OneInvStep, Typing, PTL DEF Spec
-----------------------------------------------------------------------------
(* Refinement                                                              *)

\* Every step of the runner gives the scenario it is on a pass, ends the run
\* with a status the passes justify, or is invisible to RunVerdicts.
THEOREM RunnerKeepsPromise == Spec => KeepsPromise
<1> DEFINE passed == {k \in Scenarios : Judged(k)}
<1>1. Init => Promise!Init
  BY DEF Init, Promise!Init, Judged, PassedIn
<1>2. ASSUME TypeOK, RunInv, VerdictSound', [Next]_vars
      PROVE  [Promise!Next]_<<passed, exit>>
  <2>1. ASSUME \A k : Judged(k)' <=> Judged(k), exit' = exit
        PROVE  UNCHANGED <<passed, exit>>
    <3>1. \A k : k \in passed' <=> k \in passed
      BY <2>1 DEF Scenarios
    <3> QED
      BY <2>1, <3>1
  <2>2. ASSUME UNCHANGED <<results, exit>>
        PROVE  UNCHANGED <<passed, exit>>
    <3>1. \A k : Judged(k)' <=> Judged(k)
      BY <2>2 DEF Judged
    <3> QED
      BY <2>1, <2>2, <3>1
  <2>3. ASSUME OnScenarioShutdown(FALSE), exit' = exit
        PROVE  UNCHANGED <<passed, exit>>
    BY <1>2, <2>1, <2>3, FailureReport
  <2>4. CASE ParseFails
    <3> DEFINE r == Result(NoScenario, FALSE, RootDir)
    <3>1. r \in Results /\ ~r.result /\ results \in Seq(Results)
      BY <1>2, ResultType DEF TypeOK, Result
    <3>2. results' = Append(results, r) /\ exit' = exit
      BY <2>4 DEF ParseFails
    <3> HIDE DEF r
    <3>3. \A k : Judged(k)' <=> Judged(k)
      BY <3>1, <3>2, AppendResult DEF Judged
    <3> QED
      BY <2>1, <3>2, <3>3
  <2>5. CASE RecordVerdict
    <3> DEFINE r == Result(current, TickResult, currentDir)
    <3>1. /\ pc = "verdict" /\ current = idx /\ visitorSet /\ exit = "running" /\ exit' = exit
          /\ idx \in Scenarios
      BY <1>2, <2>5, RunnerAssumption DEF RecordVerdict, RunInv, LoopPcs, Scenarios, TypeOK
    <3>2. results' = Append(results, r)
      BY <2>5, <3>1 DEF RecordVerdict, OnScenarioShutdown, Reportable
    <3>3. TickResult \in BOOLEAN
      BY <1>2 DEF TickResult, TypeOK
    <3>4. r \in Results /\ r.result = TickResult /\ r.name = idx /\ results \in Seq(Results)
      BY <1>2, <3>1, <3>3, ResultType DEF TypeOK, Result
    <3> HIDE DEF r
    <3>5. \A k : Judged(k)' <=> Judged(k) \/ (k = idx /\ TickResult)
      BY <3>2, <3>4, AppendResult DEF Judged
    <3>6. CASE Judged(idx) \/ ~TickResult
      BY <2>1, <3>1, <3>5, <3>6
    <3>7. CASE ~Judged(idx) /\ TickResult
      <4>1. passed' = passed \cup {idx}
        BY <3>1, <3>5, <3>7 DEF Scenarios
      <4>2. \A j \in passed : j < idx
        BY <1>2, <3>1, <3>7 DEF RunInv, Scenarios
      <4> QED
        BY <3>1, <4>1, <4>2 DEF Promise!Next, Promise!Pass, Scenarios
    <3> QED
      BY <3>6, <3>7
  <2>6. CASE ProcessResults
    <3>1. /\ exit = "running" /\ exit' \in {"pass", "fail", "crash"}
          /\ results' = results
      BY <1>2, <2>6 DEF ProcessResults, RunInv
    <3>2. passed' = passed
      BY <3>1 DEF Judged
    <3>3. exit' = "pass" => passed = 1..NumScenarios
      BY <1>2, <3>2 DEF VerdictSound, Scenarios
    <3> QED
      BY <3>1, <3>2, <3>3 DEF Promise!Next, Promise!Finish
  <2>7. CASE SimSetupRaises \/ ResetFails \/ LoggersRaise \/ TreeSetupRaises \/ DirFails \/ Signal
    BY <2>3, <2>7 DEF SimSetupRaises, ResetFails, LoggersRaise, TreeSetupRaises, DirFails, Signal,
       FailAndReturn
  <2>8. CASE UNCHANGED vars
    BY <2>2, <2>8 DEF vars
  <2>9. CASE ParseOk \/ SimSetupOk \/ NextScenario \/ AllScenariosDone \/ DirResolved \/ ResetOk
             \/ SetOutputDir \/ ClearRequest \/ AttachTree \/ OpenLoggers \/ AddVisitors
    BY <2>2, <2>9 DEF ParseOk, SimSetupOk, NextScenario, AllScenariosDone, DirResolved, ResetOk,
       SetOutputDir, ClearRequest, AttachTree, OpenLoggers, AddVisitors
  <2>10. CASE TreeSetupOk \/ EnterTick \/ LeaveLoop \/ PostTick \/ TickRaises \/ ReleaseSimulation
              \/ \E e \in [end: BOOLEAN, fail: BOOLEAN] : Tick(e)
    BY <2>2, <2>10 DEF TreeSetupOk, EnterTick, LeaveLoop, PostTick, TickRaises, ReleaseSimulation,
       Tick
  <2> QED
    BY <1>2, <2>4, <2>5, <2>6, <2>7, <2>8, <2>9, <2>10 DEF Next, Main
<1> QED
  BY <1>1, <1>2, Typing, RunInvariant, ExitStatusSound, PTL DEF Spec, KeepsPromise, Promise!Spec
=============================================================================
