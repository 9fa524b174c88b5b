---------------------------- MODULE RosRunnerProofs ----------------------------
(***************************************************************************)
(* Proofs about RosRunner, for any number of scenarios and signals: type    *)
(* correctness, that a passing run has judged every scenario it ticked,     *)
(* and that no tree is ticked after its shutdown.                           *)
(***************************************************************************)
EXTENDS RosRunner, SequenceTheorems, TLAPS
-----------------------------------------------------------------------------
(* The inductive invariant                                                 *)

BeforeSpin == {"dir", "node", "sim", "clock", "setup", "attach", "treeSetup"}

\* What the place of the main thread says of the scenario at hand.
Places ==
    /\ spun \subseteq 1..idx
    /\ pc \in BeforeSpin => idx > 0 /\ idx \notin spun
    /\ pc \in {"treeSetup", "spin", "teardown"} => current = idx
    /\ pc \in {"spin", "teardown"} => idx > 0 /\ visitorSet
    /\ pc \in (BeforeSpin \ {"dir", "node"}) \cup {"spin", "teardown"} => executorUp
    /\ raised => pc \in {"process", "done"}
    /\ pc = "spin" /\ timerOn => treeUp

\* As long as nothing has failed, no exception has left run() and no tick has outlived its scenario.
Good == AllPassed(results) /\ ~raised /\ ~lateTick

\* Then the scenarios that were ticked have passed, and a request to shut down the one that is
\* ticked, or a shutdown task for it, stands for its pass.
Progress ==
    Good =>
        /\ ticker # "idle" => pc \in {"spin", "teardown"}
        /\ \A k \in spun : k < idx => Judged(k)
        /\ idx \in spun => pc \in {"spin", "teardown"} \/ Judged(idx)
        /\ pc \in {"sim", "clock", "setup", "attach", "treeSetup"} => task = "none"
        /\ pc \in {"attach", "treeSetup"} => ~shutdownRequested
        /\ pc = "spin" /\ (task # "none" \/ shutdownRequested) => Judged(idx)
        /\ pc = "teardown" => Judged(idx)

Passed == exit = "pass" => pc = "done" /\ ~raised /\ (~lateTick => AllPassed(results))

IInv == TypeOK /\ Places /\ Progress /\ Passed
-----------------------------------------------------------------------------
(* The list of results                                                     *)

\* What appending a result does to the statements about the list.
LEMMA AppendReport ==
    ASSUME TypeOK, NEW res \in BOOLEAN, results' = Append(results, Report(res))
    PROVE  /\ results' \in Seq(Results)
           /\ AllPassed(results') => AllPassed(results) /\ res
           /\ \A k : Judged(k) => Judged(k)'
           /\ \A k : res /\ k = current => Judged(k)'
<1>1. Report(res) \in Results
  BY DEF TypeOK, Report, Results
<1>2. results \in Seq(Results) /\ Len(results) \in Nat
  BY DEF TypeOK
<1>3. /\ results' \in Seq(Results) /\ Len(results') = Len(results) + 1
      /\ \A i \in 1..Len(results) : results'[i] = results[i]
      /\ results'[Len(results) + 1] = Report(res)
  BY <1>1, <1>2
<1>4. AllPassed(results') => AllPassed(results) /\ res
  <2>1. Len(results) + 1 \in 1..Len(results')
    BY <1>2, <1>3
  <2>2. Report(res).result = res
    BY DEF Report
  <2> QED
    BY <1>2, <1>3, <2>1, <2>2 DEF AllPassed
<1>5. \A k : Judged(k) => Judged(k)'
  BY <1>2, <1>3 DEF Judged
<1>6. \A k : res /\ k = current => Judged(k)'
  <2>1. Len(results) + 1 \in 1..Len(results')
    BY <1>2, <1>3
  <2>2. Report(res).result = res /\ Report(res).name = current
    BY DEF Report
  <2> QED
    BY <1>3, <2>1, <2>2 DEF Judged
<1> QED
  BY <1>3, <1>4, <1>5, <1>6

LEMMA KeepResults ==
    ASSUME results' = results
    PROVE  \A k : Judged(k) => Judged(k)'
BY DEF Judged

\* A report that all failing steps share: it appends a failure, or nothing.
LEMMA FailureReport ==
    ASSUME TypeOK, OnScenarioShutdown(FALSE)
    PROVE  /\ results' \in Seq(Results)
           /\ shutdownRequested' = TRUE
           /\ timerOn' \in BOOLEAN /\ (timerOn' => timerOn)
           /\ task' \in {"none", "pending", "done"}
           /\ \A k : Judged(k) => Judged(k)'
           /\ AllPassed(results') => /\ AllPassed(results)
                                     /\ shutdownRequested \/ ~Recordable(FALSE)
                                     /\ task' = task
<1>1. CASE shutdownRequested
  BY <1>1, KeepResults DEF TypeOK, OnScenarioShutdown, verdictVars
<1>2. CASE ~shutdownRequested /\ ~Recordable(FALSE)
  BY <1>2, KeepResults DEF TypeOK, OnScenarioShutdown, Shutdown
<1>3. CASE ~shutdownRequested /\ Recordable(FALSE)
  <2>1. results' = Append(results, Report(FALSE))
    BY <1>3 DEF OnScenarioShutdown, Shutdown
  <2>2. shutdownRequested' = TRUE /\ timerOn' = FALSE /\ task' \in {"none", "pending", "done"}
    BY <1>3 DEF TypeOK, OnScenarioShutdown, Shutdown
  <2> QED
    BY <2>1, <2>2, AppendReport
<1> QED
  BY <1>1, <1>2, <1>3
-----------------------------------------------------------------------------
LEMMA InitInv == Init => IInv
<1> SUFFICES ASSUME Init PROVE IInv
  OBVIOUS
<1>1. TypeOK
  <2>1. idx \in 0..NumScenarios /\ current \in 0..NumScenarios /\ tickOf \in 0..NumScenarios
        /\ signals \in 0..MaxSignals
    BY RosRunnerAssumption DEF Init, NoScenario
  <2>2. results \in Seq(Results)
    BY DEF Init
  <2>3. {shutdownRequested, visitorSet, executorUp, simUp, treeUp, timerOn, futures,
         raised, lateTick} \subseteq BOOLEAN
    BY DEF Init
  <2>4. mode \in Modes /\ pc \in Pcs /\ events \in [end: BOOLEAN, fail: BOOLEAN] /\ spun \in SUBSET Scenarios
    BY DEF Init, Pcs
  <2>5. ticker = "idle" /\ task = "none" /\ exit = "running"
    BY DEF Init
  <2> QED
    BY <2>1, <2>2, <2>3, <2>4, <2>5 DEF TypeOK
<1>2. Places /\ Progress /\ Passed
  BY DEF Init, Places, BeforeSpin, Progress, Passed
<1> QED
  BY <1>1, <1>2 DEF IInv

\* No step leaves the invariant: one step per action.
LEMMA StepInv == ASSUME IInv, [Next]_vars PROVE IInv'
<1> USE DEF verdictVars, scenarioVars, tickerVars, historyVars, BeforeSpin
<1>0. TypeOK /\ Places /\ Progress /\ Passed /\ NumScenarios \in Nat /\ MaxSignals \in Nat
  BY RosRunnerAssumption DEF IInv
<1>1. CASE NextScenario
  <2>1. TypeOK'
    BY <1>0, <1>1 DEF TypeOK, Pcs, Scenarios, Places, NextScenario
  <2>2. results' = results /\ \A k : Judged(k) => Judged(k)'
    BY <1>1, KeepResults DEF NextScenario
  <2>3. Places'
    BY <1>0, <1>1 DEF TypeOK, Places, NextScenario
  <2>4. Progress'
    BY <1>0, <1>1, <2>2 DEF TypeOK, Places, Progress, Good, NextScenario
  <2>5. Passed'
    BY <1>0, <1>1, <2>2 DEF Passed, NextScenario
  <2> QED
    BY <2>1, <2>3, <2>4, <2>5 DEF IInv
<1>2. CASE AllScenariosDone
  <2>1. TypeOK'
    BY <1>0, <1>2 DEF TypeOK, Pcs, Scenarios, Places, AllScenariosDone
  <2>2. results' = results /\ \A k : Judged(k) => Judged(k)'
    BY <1>2, KeepResults DEF AllScenariosDone
  <2>3. Places'
    BY <1>0, <1>2 DEF TypeOK, Places, AllScenariosDone
  <2>4. Progress'
    BY <1>0, <1>2, <2>2 DEF TypeOK, Places, Progress, Good, AllScenariosDone
  <2>5. Passed'
    BY <1>0, <1>2, <2>2 DEF Passed, AllScenariosDone
  <2> QED
    BY <2>1, <2>3, <2>4, <2>5 DEF IInv
<1>3. CASE DirResolved
  <2>1. TypeOK'
    BY <1>0, <1>3 DEF TypeOK, Pcs, Scenarios, Places, DirResolved
  <2>2. results' = results /\ \A k : Judged(k) => Judged(k)'
    BY <1>3, KeepResults DEF DirResolved
  <2>3. Places'
    BY <1>0, <1>3 DEF TypeOK, Places, DirResolved
  <2>4. Progress'
    BY <1>0, <1>3, <2>2 DEF TypeOK, Places, Progress, Good, DirResolved
  <2>5. Passed'
    BY <1>0, <1>3, <2>2 DEF Passed, DirResolved
  <2> QED
    BY <2>1, <2>3, <2>4, <2>5 DEF IInv
<1>4. CASE CreateNode
  <2>1. TypeOK'
    BY <1>0, <1>4 DEF TypeOK, Pcs, Scenarios, Places, CreateNode, Modes
  <2>2. results' = results /\ \A k : Judged(k) => Judged(k)'
    BY <1>4, KeepResults DEF CreateNode
  <2>3. Places'
    BY <1>0, <1>4 DEF TypeOK, Places, CreateNode, Modes
  <2>4. Progress'
    BY <1>0, <1>4, <2>2 DEF TypeOK, Places, Progress, Good, CreateNode, Modes
  <2>5. Passed'
    BY <1>0, <1>4, <2>2 DEF Passed, CreateNode, Modes
  <2> QED
    BY <2>1, <2>3, <2>4, <2>5 DEF IInv
<1>5. CASE SimOk
  <2>1. TypeOK'
    BY <1>0, <1>5 DEF TypeOK, Pcs, Scenarios, Places, SimOk
  <2>2. results' = results /\ \A k : Judged(k) => Judged(k)'
    BY <1>5, KeepResults DEF SimOk
  <2>3. Places'
    BY <1>0, <1>5 DEF TypeOK, Places, SimOk
  <2>4. Progress'
    BY <1>0, <1>5, <2>2 DEF TypeOK, Places, Progress, Good, SimOk
  <2>5. Passed'
    BY <1>0, <1>5, <2>2 DEF Passed, SimOk
  <2> QED
    BY <2>1, <2>3, <2>4, <2>5 DEF IInv
<1>6. CASE ClockAdvances
  <2>1. TypeOK'
    BY <1>0, <1>6 DEF TypeOK, Pcs, Scenarios, Places, ClockAdvances
  <2>2. results' = results /\ \A k : Judged(k) => Judged(k)'
    BY <1>6, KeepResults DEF ClockAdvances
  <2>3. Places'
    BY <1>0, <1>6 DEF TypeOK, Places, ClockAdvances
  <2>4. Progress'
    BY <1>0, <1>6, <2>2 DEF TypeOK, Places, Progress, Good, ClockAdvances
  <2>5. Passed'
    BY <1>0, <1>6, <2>2 DEF Passed, ClockAdvances
  <2> QED
    BY <2>1, <2>3, <2>4, <2>5 DEF IInv
<1>7. CASE ClockWaitRaises
  <2>1. TypeOK'
    BY <1>0, <1>7 DEF TypeOK, Pcs, Scenarios, Places, ClockWaitRaises
  <2>2. results' = results /\ \A k : Judged(k) => Judged(k)'
    BY <1>7, KeepResults DEF ClockWaitRaises
  <2>3. Places'
    BY <1>0, <1>7 DEF TypeOK, Places, ClockWaitRaises
  <2>4. Progress'
    BY <1>0, <1>7, <2>2 DEF TypeOK, Places, Progress, Good, ClockWaitRaises
  <2>5. Passed'
    BY <1>0, <1>7, <2>2 DEF Passed, ClockWaitRaises
  <2> QED
    BY <2>1, <2>3, <2>4, <2>5 DEF IInv
<1>8. CASE ClearRequest
  <2>1. TypeOK'
    BY <1>0, <1>8 DEF TypeOK, Pcs, Scenarios, Places, ClearRequest
  <2>2. results' = results /\ \A k : Judged(k) => Judged(k)'
    BY <1>8, KeepResults DEF ClearRequest
  <2>3. Places'
    BY <1>0, <1>8 DEF TypeOK, Places, ClearRequest
  <2>4. Progress'
    BY <1>0, <1>8, <2>2 DEF TypeOK, Places, Progress, Good, ClearRequest
  <2>5. Passed'
    BY <1>0, <1>8, <2>2 DEF Passed, ClearRequest
  <2> QED
    BY <2>1, <2>3, <2>4, <2>5 DEF IInv
<1>9. CASE AttachTree
  <2>1. TypeOK'
    BY <1>0, <1>9 DEF TypeOK, Pcs, Scenarios, Places, AttachTree
  <2>2. results' = results /\ \A k : Judged(k) => Judged(k)'
    BY <1>9, KeepResults DEF AttachTree
  <2>3. Places'
    BY <1>0, <1>9 DEF TypeOK, Places, AttachTree
  <2>4. Progress'
    BY <1>0, <1>9, <2>2 DEF TypeOK, Places, Progress, Good, AttachTree
  <2>5. Passed'
    BY <1>0, <1>9, <2>2 DEF Passed, AttachTree
  <2> QED
    BY <2>1, <2>3, <2>4, <2>5 DEF IInv
<1>10. CASE TreeSetupOk
  <2>1. TypeOK'
    BY <1>0, <1>10 DEF TypeOK, Pcs, Scenarios, Places, TreeSetupOk
  <2>2. results' = results /\ \A k : Judged(k) => Judged(k)'
    BY <1>10, KeepResults DEF TreeSetupOk
  <2>3. Places'
    <3>1. idx \in Nat /\ idx > 0 /\ spun \subseteq 1..idx
      BY <1>0, <1>10 DEF TypeOK, Places, TreeSetupOk
    <3>2. spun' \subseteq 1..idx'
      BY <1>10, <3>1 DEF TreeSetupOk
    <3> QED
      BY <1>0, <1>10, <3>1, <3>2 DEF TypeOK, Places, TreeSetupOk
  <2>4. Progress'
    BY <1>0, <1>10, <2>2 DEF TypeOK, Places, Progress, Good, TreeSetupOk
  <2>5. Passed'
    BY <1>0, <1>10, <2>2 DEF Passed, TreeSetupOk
  <2> QED
    BY <2>1, <2>3, <2>4, <2>5 DEF IInv
<1>11. CASE TickStarts
  <2>1. TypeOK'
    BY <1>0, <1>11 DEF TypeOK, Pcs, Scenarios, Places, TickStarts
  <2>2. results' = results /\ \A k : Judged(k) => Judged(k)'
    BY <1>11, KeepResults DEF TickStarts
  <2>3. Places'
    BY <1>0, <1>11 DEF TypeOK, Places, TickStarts
  <2>4. Progress'
    BY <1>0, <1>11, <2>2 DEF TypeOK, Places, Progress, Good, TickStarts
  <2>5. Passed'
    BY <1>0, <1>11, <2>2 DEF Passed, TickStarts
  <2> QED
    BY <2>1, <2>3, <2>4, <2>5 DEF IInv
<1>12. ASSUME NEW e \in [end: BOOLEAN, fail: BOOLEAN], Tick(e) PROVE IInv'
  <2>1. TypeOK'
    BY <1>0, <1>12 DEF TypeOK, Pcs, Scenarios, Places, Tick
  <2>2. results' = results /\ \A k : Judged(k) => Judged(k)'
    BY <1>12, KeepResults DEF Tick
  <2>3. Places'
    BY <1>0, <1>12 DEF TypeOK, Places, Tick
  <2>4. Progress'
    BY <1>0, <1>12, <2>2 DEF TypeOK, Places, Progress, Good, Tick
  <2>5. Passed'
    BY <1>0, <1>12, <2>2 DEF Passed, Tick
  <2> QED
    BY <2>1, <2>3, <2>4, <2>5 DEF IInv
<1>13. CASE TickRaises
  <2>1. TypeOK'
    BY <1>0, <1>13 DEF TypeOK, Pcs, Scenarios, Places, TickRaises
  <2>2. results' = results /\ \A k : Judged(k) => Judged(k)'
    BY <1>13, KeepResults DEF TickRaises
  <2>3. Places'
    BY <1>0, <1>13 DEF TypeOK, Places, TickRaises
  <2>4. Progress'
    BY <1>0, <1>13, <2>2 DEF TypeOK, Places, Progress, Good, TickRaises
  <2>5. Passed'
    BY <1>0, <1>13, <2>2 DEF Passed, TickRaises
  <2> QED
    BY <2>1, <2>3, <2>4, <2>5 DEF IInv
<1>14. CASE PostTick
  <2>1. TypeOK'
    BY <1>0, <1>14 DEF TypeOK, Pcs, Scenarios, Places, PostTick
  <2>2. results' = results /\ \A k : Judged(k) => Judged(k)'
    BY <1>14, KeepResults DEF PostTick
  <2>3. Places'
    BY <1>0, <1>14 DEF TypeOK, Places, PostTick
  <2>4. Progress'
    BY <1>0, <1>14, <2>2 DEF TypeOK, Places, Progress, Good, PostTick
  <2>5. Passed'
    BY <1>0, <1>14, <2>2 DEF Passed, PostTick
  <2> QED
    BY <2>1, <2>3, <2>4, <2>5 DEF IInv
<1>15. CASE RunShutdownTask
  <2>1. TypeOK'
    BY <1>0, <1>15 DEF TypeOK, Pcs, Scenarios, Places, RunShutdownTask
  <2>2. results' = results /\ \A k : Judged(k) => Judged(k)'
    BY <1>15, KeepResults DEF RunShutdownTask
  <2>3. Places'
    BY <1>0, <1>15 DEF TypeOK, Places, RunShutdownTask
  <2>4. Progress'
    BY <1>0, <1>15, <2>2 DEF TypeOK, Places, Progress, Good, RunShutdownTask
  <2>5. Passed'
    BY <1>0, <1>15, <2>2 DEF Passed, RunShutdownTask
  <2> QED
    BY <2>1, <2>3, <2>4, <2>5 DEF IInv
<1>16. CASE FutureDone
  <2>1. TypeOK'
    BY <1>0, <1>16 DEF TypeOK, Pcs, Scenarios, Places, FutureDone
  <2>2. results' = results /\ \A k : Judged(k) => Judged(k)'
    BY <1>16, KeepResults DEF FutureDone
  <2>3. Places'
    BY <1>0, <1>16 DEF TypeOK, Places, FutureDone
  <2>4. Progress'
    BY <1>0, <1>16, <2>2 DEF TypeOK, Places, Progress, Good, FutureDone
  <2>5. Passed'
    BY <1>0, <1>16, <2>2 DEF Passed, FutureDone
  <2> QED
    BY <2>1, <2>3, <2>4, <2>5 DEF IInv
<1>17. CASE SpinEnds
  <2>1. TypeOK'
    BY <1>0, <1>17 DEF TypeOK, Pcs, Scenarios, Places, SpinEnds
  <2>2. results' = results /\ \A k : Judged(k) => Judged(k)'
    BY <1>17, KeepResults DEF SpinEnds
  <2>3. Places'
    BY <1>0, <1>17 DEF TypeOK, Places, SpinEnds
  <2>4. Progress'
    BY <1>0, <1>17, <2>2 DEF TypeOK, Places, Progress, Good, SpinEnds
  <2>5. Passed'
    BY <1>0, <1>17, <2>2 DEF Passed, SpinEnds
  <2> QED
    BY <2>1, <2>3, <2>4, <2>5 DEF IInv
<1>18. CASE Teardown
  <2>1. TypeOK'
    BY <1>0, <1>18 DEF TypeOK, Pcs, Scenarios, Places, Teardown
  <2>2. results' = results /\ \A k : Judged(k) => Judged(k)'
    BY <1>18, KeepResults DEF Teardown
  <2>3. Places'
    BY <1>0, <1>18 DEF TypeOK, Places, Teardown
  <2>4. Progress'
    BY <1>0, <1>18, <2>2 DEF TypeOK, Places, Progress, Good, Teardown
  <2>5. Passed'
    BY <1>0, <1>18, <2>2 DEF Passed, Teardown
  <2> QED
    BY <2>1, <2>3, <2>4, <2>5 DEF IInv
<1>19. CASE ProcessResults
  <2>1. TypeOK'
    BY <1>0, <1>19 DEF TypeOK, Pcs, Scenarios, Places, ProcessResults, Verdict
  <2>2. results' = results /\ \A k : Judged(k) => Judged(k)'
    BY <1>19, KeepResults DEF ProcessResults
  <2>3. Places'
    BY <1>0, <1>19 DEF TypeOK, Places, ProcessResults, Verdict
  <2>4. Progress'
    BY <1>0, <1>19, <2>2 DEF TypeOK, Places, Progress, Good, ProcessResults, Verdict
  <2>5. Passed'
    BY <1>0, <1>19, <2>2 DEF Passed, ProcessResults, Verdict
  <2> QED
    BY <2>1, <2>3, <2>4, <2>5 DEF IInv
<1>20. CASE DirFails
  <2>0. OnScenarioShutdown(FALSE)
    BY <1>20 DEF DirFails
  <2> HIDE DEF verdictVars
  <2>1. /\ results' \in Seq(Results) /\ shutdownRequested' = TRUE
        /\ timerOn' \in BOOLEAN /\ (timerOn' => timerOn)
        /\ task' \in {"none", "pending", "done"}
        /\ \A k : Judged(k) => Judged(k)'
        /\ AllPassed(results') => /\ AllPassed(results)
                                  /\ shutdownRequested \/ ~Recordable(FALSE)
                                  /\ task' = task
    BY <1>0, <2>0, FailureReport
  <2>2. TypeOK'
    BY <1>0, <1>20, <2>1 DEF TypeOK, Pcs, DirFails, ReportRaises
  <2>3. Places'
    BY <1>0, <1>20, <2>1 DEF TypeOK, Places, DirFails, ReportRaises
  <2>4. Progress'
    BY <1>0, <1>20, <2>1 DEF TypeOK, Places, Progress, Good, DirFails, ReportRaises
  <2>5. Passed'
    BY <1>0, <1>20, <2>1 DEF TypeOK, Passed, DirFails, ReportRaises
  <2> QED
    BY <2>2, <2>3, <2>4, <2>5 DEF IInv
<1>21. CASE SimFails
  <2>0. OnScenarioShutdown(FALSE)
    BY <1>21 DEF SimFails, GiveUpScenario
  <2> HIDE DEF verdictVars
  <2>1. /\ results' \in Seq(Results) /\ shutdownRequested' = TRUE
        /\ timerOn' \in BOOLEAN /\ (timerOn' => timerOn)
        /\ task' \in {"none", "pending", "done"}
        /\ \A k : Judged(k) => Judged(k)'
        /\ AllPassed(results') => /\ AllPassed(results)
                                  /\ shutdownRequested \/ ~Recordable(FALSE)
                                  /\ task' = task
    BY <1>0, <2>0, FailureReport
  <2>2. TypeOK'
    BY <1>0, <1>21, <2>1 DEF TypeOK, Pcs, SimFails, GiveUpScenario
  <2>3. Places'
    BY <1>0, <1>21, <2>1 DEF TypeOK, Places, SimFails, GiveUpScenario
  <2>4. Progress'
    BY <1>0, <1>21, <2>1 DEF TypeOK, Places, Progress, Good, SimFails, GiveUpScenario
  <2>5. Passed'
    BY <1>0, <1>21, <2>1 DEF TypeOK, Passed, SimFails, GiveUpScenario
  <2> QED
    BY <2>2, <2>3, <2>4, <2>5 DEF IInv
<1>22. CASE ClockNeverStarts
  <2>0. OnScenarioShutdown(FALSE)
    BY <1>22 DEF ClockNeverStarts, GiveUpScenario
  <2> HIDE DEF verdictVars
  <2>1. /\ results' \in Seq(Results) /\ shutdownRequested' = TRUE
        /\ timerOn' \in BOOLEAN /\ (timerOn' => timerOn)
        /\ task' \in {"none", "pending", "done"}
        /\ \A k : Judged(k) => Judged(k)'
        /\ AllPassed(results') => /\ AllPassed(results)
                                  /\ shutdownRequested \/ ~Recordable(FALSE)
                                  /\ task' = task
    BY <1>0, <2>0, FailureReport
  <2>2. TypeOK'
    BY <1>0, <1>22, <2>1 DEF TypeOK, Pcs, ClockNeverStarts, GiveUpScenario
  <2>3. Places'
    BY <1>0, <1>22, <2>1 DEF TypeOK, Places, ClockNeverStarts, GiveUpScenario
  <2>4. Progress'
    BY <1>0, <1>22, <2>1 DEF TypeOK, Places, Progress, Good, ClockNeverStarts, GiveUpScenario
  <2>5. Passed'
    BY <1>0, <1>22, <2>1 DEF TypeOK, Passed, ClockNeverStarts, GiveUpScenario
  <2> QED
    BY <2>2, <2>3, <2>4, <2>5 DEF IInv
<1>23. CASE SetupRaisesEarly
  <2>0. OnScenarioShutdown(FALSE)
    BY <1>23 DEF SetupRaisesEarly
  <2> HIDE DEF verdictVars
  <2>1. /\ results' \in Seq(Results) /\ shutdownRequested' = TRUE
        /\ timerOn' \in BOOLEAN /\ (timerOn' => timerOn)
        /\ task' \in {"none", "pending", "done"}
        /\ \A k : Judged(k) => Judged(k)'
        /\ AllPassed(results') => /\ AllPassed(results)
                                  /\ shutdownRequested \/ ~Recordable(FALSE)
                                  /\ task' = task
    BY <1>0, <2>0, FailureReport
  <2>2. TypeOK'
    BY <1>0, <1>23, <2>1 DEF TypeOK, Pcs, SetupRaisesEarly, ReportRaises
  <2>3. Places'
    BY <1>0, <1>23, <2>1 DEF TypeOK, Places, SetupRaisesEarly, ReportRaises
  <2>4. Progress'
    BY <1>0, <1>23, <2>1 DEF TypeOK, Places, Progress, Good, SetupRaisesEarly, ReportRaises
  <2>5. Passed'
    BY <1>0, <1>23, <2>1 DEF TypeOK, Passed, SetupRaisesEarly, ReportRaises
  <2> QED
    BY <2>2, <2>3, <2>4, <2>5 DEF IInv
<1>24. CASE ClockFails
  <2>0. OnScenarioShutdown(FALSE)
    BY <1>24 DEF ClockFails
  <2> HIDE DEF verdictVars
  <2>1. /\ results' \in Seq(Results) /\ shutdownRequested' = TRUE
        /\ timerOn' \in BOOLEAN /\ (timerOn' => timerOn)
        /\ task' \in {"none", "pending", "done"}
        /\ \A k : Judged(k) => Judged(k)'
        /\ AllPassed(results') => /\ AllPassed(results)
                                  /\ shutdownRequested \/ ~Recordable(FALSE)
                                  /\ task' = task
    BY <1>0, <2>0, FailureReport
  <2>2. TypeOK'
    BY <1>0, <1>24, <2>1 DEF TypeOK, Pcs, ClockFails, Recordable
  <2>3. Places'
    BY <1>0, <1>24, <2>1 DEF TypeOK, Places, ClockFails, Recordable
  <2>4. Progress'
    BY <1>0, <1>24, <2>1 DEF TypeOK, Places, Progress, Good, ClockFails, Recordable
  <2>5. Passed'
    BY <1>0, <1>24, <2>1 DEF TypeOK, Passed, ClockFails, Recordable
  <2> QED
    BY <2>2, <2>3, <2>4, <2>5 DEF IInv
<1>25. CASE SpinRaises
  <2>0. OnScenarioShutdown(FALSE)
    BY <1>25 DEF SpinRaises
  <2> HIDE DEF verdictVars
  <2>1. /\ results' \in Seq(Results) /\ shutdownRequested' = TRUE
        /\ timerOn' \in BOOLEAN /\ (timerOn' => timerOn)
        /\ task' \in {"none", "pending", "done"}
        /\ \A k : Judged(k) => Judged(k)'
        /\ AllPassed(results') => /\ AllPassed(results)
                                  /\ shutdownRequested \/ ~Recordable(FALSE)
                                  /\ task' = task
    BY <1>0, <2>0, FailureReport
  <2>2. TypeOK'
    BY <1>0, <1>25, <2>1 DEF TypeOK, Pcs, SpinRaises, Recordable
  <2>3. Places'
    BY <1>0, <1>25, <2>1 DEF TypeOK, Places, SpinRaises, Recordable
  <2>4. Progress'
    BY <1>0, <1>25, <2>1 DEF TypeOK, Places, Progress, Good, SpinRaises, Recordable
  <2>5. Passed'
    BY <1>0, <1>25, <2>1 DEF TypeOK, Passed, SpinRaises, Recordable
  <2> QED
    BY <2>2, <2>3, <2>4, <2>5 DEF IInv
<1>26. CASE Signal
  <2>0. OnScenarioShutdown(FALSE)
    BY <1>26 DEF Signal
  <2> HIDE DEF verdictVars
  <2>1. /\ results' \in Seq(Results) /\ shutdownRequested' = TRUE
        /\ timerOn' \in BOOLEAN /\ (timerOn' => timerOn)
        /\ task' \in {"none", "pending", "done"}
        /\ \A k : Judged(k) => Judged(k)'
        /\ AllPassed(results') => /\ AllPassed(results)
                                  /\ shutdownRequested \/ ~Recordable(FALSE)
                                  /\ task' = task
    BY <1>0, <2>0, FailureReport
  <2>2. TypeOK'
    <3>1. pc' \in Pcs
      BY <1>0, <1>26 DEF TypeOK, Pcs, Signal
    <3>2. raised' \in BOOLEAN /\ executorUp' \in BOOLEAN
      BY <1>0, <1>26 DEF TypeOK, Signal
    <3>3. signals' \in 0..MaxSignals
      BY <1>0, <1>26 DEF TypeOK, Signal
    <3>4. UNCHANGED <<mode, idx, scenarioVars, simUp, treeUp, tickerVars, futures, exit, historyVars>>
      BY <1>26 DEF Signal
    <3> QED
      BY <1>0, <2>1, <3>1, <3>2, <3>3, <3>4 DEF TypeOK
  <2>3. Places'
    BY <1>0, <1>26, <2>1 DEF TypeOK, Places, Signal, ReportRaises, Recordable
  <2>4. Progress'
    BY <1>0, <1>26, <2>1 DEF TypeOK, Places, Progress, Good, Signal, ReportRaises, Recordable
  <2>5. Passed'
    BY <1>0, <1>26, <2>1 DEF TypeOK, Passed, Signal, ReportRaises, Recordable
  <2> QED
    BY <2>2, <2>3, <2>4, <2>5 DEF IInv
<1>27. CASE SetupRaisesLate
  <2>1. CASE shutdownRequested
    <3>1. results' = results /\ \A k : Judged(k) => Judged(k)'
      BY <1>27, <2>1, KeepResults DEF SetupRaisesLate
    <3>2. TypeOK' /\ Places'
      BY <1>0, <1>27, <2>1 DEF TypeOK, Pcs, Places, SetupRaisesLate
    <3>3. Progress' /\ Passed'
      BY <1>0, <1>27, <2>1, <3>1 DEF TypeOK, Places, Progress, Good, Passed, SetupRaisesLate
    <3> QED
      BY <3>2, <3>3 DEF IInv
  <2>2. CASE ~shutdownRequested
    <3>1. results' = Append(results, Report(FALSE))
      BY <1>27, <2>2 DEF SetupRaisesLate
    <3>2. results' \in Seq(Results) /\ ~AllPassed(results')
      BY <1>0, <3>1, AppendReport
    <3>3. TypeOK' /\ Places'
      BY <1>0, <1>27, <2>2, <3>2 DEF TypeOK, Pcs, Places, SetupRaisesLate
    <3>4. Progress' /\ Passed'
      BY <1>0, <1>27, <3>2 DEF Progress, Good, Passed, SetupRaisesLate
    <3> QED
      BY <3>3, <3>4 DEF IInv
  <2> QED
    BY <2>1, <2>2
<1>28. CASE RecordVerdict
  <2>0. TickResult \in BOOLEAN
    BY <1>0 DEF TypeOK, TickResult
  <2>1. /\ results' \in Seq(Results)
        /\ AllPassed(results') => AllPassed(results)
        /\ \A k : Judged(k) => Judged(k)'
    <3>1. CASE Recordable(TickResult)
      BY <1>0, <1>28, <2>0, <3>1, AppendReport DEF RecordVerdict, Shutdown
    <3>2. CASE ~Recordable(TickResult)
      BY <1>0, <1>28, <3>2, KeepResults DEF TypeOK, RecordVerdict, Shutdown
    <3> QED
      BY <3>1, <3>2
  <2>2. TypeOK'
    BY <1>0, <1>28, <2>1 DEF TypeOK, RecordVerdict, Shutdown
  <2>3. Places'
    BY <1>0, <1>28 DEF TypeOK, Places, RecordVerdict, Shutdown
  <2>4. Good' => Good /\ pc \in {"spin", "teardown"} /\ Judged(idx)'
    <3> SUFFICES ASSUME Good' PROVE Good /\ pc \in {"spin", "teardown"} /\ Judged(idx)'
      OBVIOUS
    <3>1. Good
      BY <1>28, <2>1 DEF Good, RecordVerdict
    <3>2. pc \in {"spin", "teardown"} /\ current = idx /\ Recordable(TickResult)
      BY <1>0, <1>28, <3>1 DEF Progress, Places, RecordVerdict, Recordable
    <3>3. results' = Append(results, Report(TickResult))
      BY <1>28, <3>2 DEF RecordVerdict, Shutdown
    <3>4. TickResult
      BY <1>0, <2>0, <3>3, AppendReport DEF Good
    <3>5. Judged(idx)'
      BY <1>0, <1>28, <2>0, <3>2, <3>3, <3>4, AppendReport DEF RecordVerdict
    <3> QED
      BY <3>1, <3>2, <3>5
  <2>5. Progress'
    BY <1>0, <1>28, <2>1, <2>4 DEF TypeOK, Progress, RecordVerdict, Shutdown
  <2>6. Passed'
    BY <1>0, <1>28 DEF TypeOK, Passed, Progress, Good, RecordVerdict, Shutdown
  <2> QED
    BY <2>2, <2>3, <2>5, <2>6 DEF IInv
<1>29. CASE UNCHANGED vars
  <2>1. \A k : Judged(k) => Judged(k)'
    BY <1>29, KeepResults DEF vars
  <2> QED
    BY <1>0, <1>29, <2>1 DEF vars, IInv, TypeOK, Places, Progress, Good, Passed
<1> QED
  BY <1>1, <1>2, <1>3, <1>4, <1>5, <1>6, <1>7, <1>8, <1>9, <1>10, <1>11, <1>12, <1>13, <1>14, <1>15,
     <1>16, <1>17, <1>18, <1>19, <1>20, <1>21, <1>22, <1>23, <1>24, <1>25, <1>26, <1>27, <1>28, <1>29
     DEF Next, Main, BringUp, Ticker
-----------------------------------------------------------------------------
(* The theorems                                                            *)

\* The strengthening that carries the theorems below.
THEOREM RosRunnerInvariant == Spec => []IInv
<1>1. IInv /\ [Next]_vars => IInv'
  BY StepInv
<1> QED
  BY InitInv, <1>1, PTL DEF Spec

\* Every reachable state of the ROS runner is well-typed.
THEOREM RosRunnerTyping == Spec => []TypeOK
<1>1. IInv => TypeOK
  BY DEF IInv
<1> QED
  BY RosRunnerInvariant, <1>1, PTL

\* A run that passes has judged every scenario whose tree it ticked, whichever thread ended it and
\* whenever signals came, unless a tick outlived the teardown of its scenario.
THEOREM NoVerdictLost == Spec => []TickedScenariosJudged
<1>1. IInv => TickedScenariosJudged
  <2> SUFFICES ASSUME IInv, exit = "pass", ~lateTick, NEW k \in spun PROVE Judged(k)
    BY DEF TickedScenariosJudged
  <2>1. Good /\ pc = "done"
    BY DEF IInv, Passed, Good
  <2>2. k \in 1..idx /\ idx \in Nat
    BY DEF IInv, Places, TypeOK
  <2> QED
    BY <2>1, <2>2 DEF IInv, Progress
<1> QED
  BY RosRunnerInvariant, <1>1, PTL

\* The timer never starts a tick of a tree whose behaviours have been shut down.
THEOREM TreesStayDown == Spec => NoTickAfterTeardown
<1>1. IInv /\ [Next]_vars => [ticker = "idle" /\ ticker' = "ticking" => treeUp]_vars
  <2> SUFFICES ASSUME IInv, Next, ticker = "idle", ticker' = "ticking" PROVE treeUp
    OBVIOUS
  <2> USE DEF verdictVars, scenarioVars, tickerVars, historyVars
  <2>1. TickStarts
    BY DEF Next, Main, BringUp, Ticker, NextScenario, AllScenariosDone, DirResolved, DirFails, CreateNode,
       SimOk, SimFails, GiveUpScenario, ClockAdvances, ClockNeverStarts, ClockWaitRaises, ClearRequest,
       AttachTree, TreeSetupOk, SetupRaisesEarly, SetupRaisesLate, Tick, TickRaises, PostTick,
       RecordVerdict, SpinRaises, SpinEnds, Teardown, ProcessResults, ClockFails, RunShutdownTask,
       FutureDone, Signal
  <2> QED
    BY <2>1 DEF IInv, Places, TickStarts
<1> QED
  BY RosRunnerInvariant, <1>1, PTL DEF Spec, NoTickAfterTeardown
=============================================================================
