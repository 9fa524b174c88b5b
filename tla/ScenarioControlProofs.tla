------------------------- MODULE ScenarioControlProofs -------------------------
(***************************************************************************)
(* Proofs about ScenarioControl, for any number of requests, however many    *)
(* of them are open at once: type correctness; that only tasks that were     *)
(* under way at once can have started two applications beside each other;    *)
(* and that stop_scenario and main leave no process, unless a task was       *)
(* under way beside them.                                                    *)
(***************************************************************************)
EXTENDS ScenarioControl, TLAPS
-----------------------------------------------------------------------------
(* The inductive invariant                                                 *)

Counts == executes + tasks <= MaxRequests /\ stops.open <= stops.sent

\* A process is alive only as long as its thread watches it.
AliveWatched == \A a \in Apps : Alive(a) => thread[a] = "watching"

\* Main goes on when spin() has ended.
MainWaits == spinning => pc[Main] = "idle"

OneTask ==
    "tasks" \notin met => \A s, t \in Tasks : Busy(s) /\ Busy(t) => s = t

TasksAlone ==
    met = {} => \A c \in {Stopper, Main}, t \in Tasks : ~(Busy(c) /\ Busy(t))

\* Only the thread in _app_thread goes on, and none does when a task starts another.
OnlyThread ==
    "tasks" \notin met =>
        /\ \A a \in Apps : thread[a] \notin {"none", "dead"} => a = appThread
        /\ \A t \in Tasks : pc[t] \in {"clear", "assign", "start"} =>
               \A a \in Apps : thread[a] \in {"none", "dead"}

\* stop_scenario and main join the thread that is in _app_thread.
StopsJoin ==
    met = {} => \A c \in {Stopper, Main} : pc[c] = "joining" => joined[c] = appThread

IInv ==
    /\ TypeOK /\ Counts /\ AliveWatched /\ MainWaits
    /\ OneTask /\ TasksAlone /\ OnlyThread /\ StopsJoin
-----------------------------------------------------------------------------
LEMMA CallerFacts ==
    /\ MaxRequests \in Nat \ {0} /\ MaxStops \in Nat
    /\ Stopper \notin Tasks /\ Main \notin Tasks /\ Stopper # Main /\ Tasks = Apps
    /\ Tasks \subseteq Callers /\ Stopper \in Callers /\ Main \in Callers
    /\ NoApp \notin Apps
BY ControlAssumption DEF Stopper, Main, Callers, Tasks, Apps, NoApp

LEMMA InitInv == Init => IInv
<1> SUFFICES ASSUME Init PROVE IInv
  OBVIOUS
<1>1. TypeOK
  <2>1. /\ executes \in 0..MaxRequests /\ tasks \in 0..MaxRequests
        /\ stops \in [open: 0..MaxStops, sent: 0..MaxStops]
    BY CallerFacts DEF Init
  <2>2. pc \in [Callers -> Steps] /\ joined \in [Callers -> Apps \cup {NoApp}]
    BY DEF Init, Steps
  <2>3. /\ thread \in [Apps -> ThreadSteps]
        /\ process \in [Apps -> {"none", "alive", "deaf", "exited"}]
        /\ scenario \in [Apps -> {"none", "alive", "exited"}]
    BY DEF Init, ThreadSteps
  <2>4. ready \in [Apps -> BOOLEAN] /\ asked \in [Apps -> BOOLEAN]
    BY DEF Init
  <2>5. {spinning, event, shutdownRequested} \subseteq BOOLEAN /\ met \subseteq {"tasks", "stop"}
    BY DEF Init
  <2>6. appThread \in Apps \cup {NoApp} /\ published \in Statuses /\ view \in Statuses
    BY DEF Init, Statuses
  <2> QED
    BY <2>1, <2>2, <2>3, <2>4, <2>5, <2>6 DEF TypeOK
<1>2. Counts /\ MainWaits
  BY CallerFacts DEF Init, Counts, MainWaits
<1>3. AliveWatched /\ OneTask /\ TasksAlone /\ OnlyThread /\ StopsJoin
  BY CallerFacts DEF Init, AliveWatched, Alive, OneTask, TasksAlone, Busy, OnlyThread, StopsJoin
<1> QED
  BY <1>1, <1>2, <1>3 DEF IInv

\* No step leaves the invariant: one step per action.
LEMMA StepInv == ASSUME IInv, [Next]_vars PROVE IInv'
<1> USE DEF requests, appVars, processes, shared, status, Busy, ATaskRuns
<1>0. /\ TypeOK /\ Counts /\ AliveWatched /\ MainWaits
      /\ OneTask /\ TasksAlone /\ OnlyThread /\ StopsJoin
  BY DEF IInv
<1>1. CASE PressExecute
  <2>1. TypeOK' /\ Counts'
    BY <1>0, <1>1, CallerFacts DEF TypeOK, Counts, Steps, Statuses, ThreadSteps, PressExecute
  <2>2. AliveWatched' /\ MainWaits'
    BY <1>0, <1>1, CallerFacts DEF TypeOK, AliveWatched, MainWaits, Alive, PressExecute
  <2>3. OneTask' /\ TasksAlone'
    BY <1>0, <1>1, CallerFacts DEF TypeOK, MainWaits, OneTask, TasksAlone, PressExecute
  <2>4. OnlyThread'
    BY <1>0, <1>1, CallerFacts DEF TypeOK, OneTask, OnlyThread, PressExecute
  <2>5. StopsJoin'
    BY <1>0, <1>1, CallerFacts DEF TypeOK, MainWaits, TasksAlone, StopsJoin, PressExecute
  <2> QED
    BY <2>1, <2>2, <2>3, <2>4, <2>5 DEF IInv
<1>2. CASE PressStop
  <2>1. TypeOK' /\ Counts'
    BY <1>0, <1>2, CallerFacts DEF TypeOK, Counts, Steps, Statuses, ThreadSteps, PressStop
  <2>2. AliveWatched' /\ MainWaits'
    BY <1>0, <1>2, CallerFacts DEF TypeOK, AliveWatched, MainWaits, Alive, PressStop
  <2>3. OneTask' /\ TasksAlone'
    BY <1>0, <1>2, CallerFacts DEF TypeOK, MainWaits, OneTask, TasksAlone, PressStop
  <2>4. OnlyThread'
    BY <1>0, <1>2, CallerFacts DEF TypeOK, OneTask, OnlyThread, PressStop
  <2>5. StopsJoin'
    BY <1>0, <1>2, CallerFacts DEF TypeOK, MainWaits, TasksAlone, StopsJoin, PressStop
  <2> QED
    BY <2>1, <2>2, <2>3, <2>4, <2>5 DEF IInv
<1>3. CASE Receive
  <2>1. TypeOK' /\ Counts'
    BY <1>0, <1>3, CallerFacts DEF TypeOK, Counts, Steps, Statuses, ThreadSteps, Receive
  <2>2. AliveWatched' /\ MainWaits'
    BY <1>0, <1>3, CallerFacts DEF TypeOK, AliveWatched, MainWaits, Alive, Receive
  <2>3. OneTask' /\ TasksAlone'
    BY <1>0, <1>3, CallerFacts DEF TypeOK, MainWaits, OneTask, TasksAlone, Receive
  <2>4. OnlyThread'
    BY <1>0, <1>3, CallerFacts DEF TypeOK, OneTask, OnlyThread, Receive
  <2>5. StopsJoin'
    BY <1>0, <1>3, CallerFacts DEF TypeOK, MainWaits, TasksAlone, StopsJoin, Receive
  <2> QED
    BY <2>1, <2>2, <2>3, <2>4, <2>5 DEF IInv
<1>4. ASSUME NEW exists \in BOOLEAN, ExecuteScenario(exists) PROVE IInv'
  <2>0. /\ executes' \in 0..MaxRequests /\ tasks' \in 0..MaxRequests /\ Counts'
        /\ tasks + 1 \in Tasks
    BY <1>0, <1>4, CallerFacts DEF TypeOK, Counts, Tasks, ExecuteScenario
  <2>1. TypeOK' /\ Counts'
    <3>1. pc' \in [Callers -> Steps]
      BY <1>0, <1>4 DEF TypeOK, Steps, ExecuteScenario
    <3>2. met' \subseteq {"tasks", "stop"}
      BY <1>0, <1>4 DEF TypeOK, ExecuteScenario
    <3> QED
      BY <1>0, <1>4, <2>0, <3>1, <3>2 DEF TypeOK, ExecuteScenario
  <2>2. AliveWatched' /\ MainWaits'
    BY <1>0, <1>4, <2>0, CallerFacts DEF TypeOK, AliveWatched, MainWaits, Alive, ExecuteScenario
  <2>3. OneTask' /\ TasksAlone'
    BY <1>0, <1>4, <2>0, CallerFacts DEF TypeOK, MainWaits, OneTask, TasksAlone, ExecuteScenario
  <2>4. OnlyThread'
    BY <1>0, <1>4, <2>0, CallerFacts DEF TypeOK, OneTask, OnlyThread, ExecuteScenario
  <2>5. StopsJoin'
    BY <1>0, <1>4, <2>0, CallerFacts DEF TypeOK, MainWaits, TasksAlone, StopsJoin, ExecuteScenario
  <2> QED
    BY <2>1, <2>2, <2>3, <2>4, <2>5 DEF IInv
<1>5. CASE StopScenario
  <2>1. TypeOK' /\ Counts'
    BY <1>0, <1>5, CallerFacts DEF TypeOK, Counts, Steps, Statuses, ThreadSteps, StopScenario
  <2>2. AliveWatched' /\ MainWaits'
    BY <1>0, <1>5, CallerFacts DEF TypeOK, AliveWatched, MainWaits, Alive, StopScenario
  <2>3. OneTask' /\ TasksAlone'
    <3>1. \A t \in Tasks : pc'[t] = pc[t]
      BY <1>0, <1>5, CallerFacts DEF TypeOK, StopScenario
    <3>2. met \subseteq met' /\ ("tasks" \in met' => "tasks" \in met)
      BY <1>5 DEF StopScenario
    <3>3. met' = {} => met = {} /\ \A t \in Tasks : ~Busy(t)
      BY <1>5 DEF StopScenario
    <3> QED
      BY <1>0, <3>1, <3>2, <3>3 DEF OneTask, TasksAlone
  <2>4. OnlyThread'
    BY <1>0, <1>5, CallerFacts DEF TypeOK, OneTask, OnlyThread, StopScenario
  <2>5. StopsJoin'
    BY <1>0, <1>5, CallerFacts DEF TypeOK, MainWaits, TasksAlone, StopsJoin, StopScenario
  <2> QED
    BY <2>1, <2>2, <2>3, <2>4, <2>5 DEF IInv
<1>6. CASE InterruptNode
  <2>1. TypeOK' /\ Counts'
    BY <1>0, <1>6, CallerFacts DEF TypeOK, Counts, Steps, Statuses, ThreadSteps, InterruptNode
  <2>2. AliveWatched' /\ MainWaits'
    BY <1>0, <1>6, CallerFacts DEF TypeOK, AliveWatched, MainWaits, Alive, InterruptNode
  <2>3. OneTask' /\ TasksAlone'
    BY <1>0, <1>6, CallerFacts DEF TypeOK, MainWaits, OneTask, TasksAlone, InterruptNode
  <2>4. OnlyThread'
    BY <1>0, <1>6, CallerFacts DEF TypeOK, OneTask, OnlyThread, InterruptNode
  <2>5. StopsJoin'
    BY <1>0, <1>6, CallerFacts DEF TypeOK, MainWaits, TasksAlone, StopsJoin, InterruptNode
  <2> QED
    BY <2>1, <2>2, <2>3, <2>4, <2>5 DEF IInv
<1>7. ASSUME NEW c \in Callers, Check(c) PROVE IInv'
  <2>1. TypeOK' /\ Counts'
    BY <1>0, <1>7, CallerFacts DEF TypeOK, Counts, Steps, Statuses, ThreadSteps, Check, After,
       IsRunning
  <2>2. AliveWatched' /\ MainWaits'
    BY <1>0, <1>7, CallerFacts DEF TypeOK, AliveWatched, MainWaits, Alive, Check, After, IsRunning
  <2>3. OneTask' /\ TasksAlone'
    BY <1>0, <1>7, CallerFacts DEF TypeOK, MainWaits, OneTask, TasksAlone, Check, After, IsRunning
  <2>4. OnlyThread'
    BY <1>0, <1>7, CallerFacts DEF TypeOK, OneTask, OnlyThread, Check, After, IsRunning
  <2>5. StopsJoin'
    BY <1>0, <1>7, CallerFacts DEF TypeOK, MainWaits, TasksAlone, StopsJoin, Check, After, IsRunning
  <2> QED
    BY <2>1, <2>2, <2>3, <2>4, <2>5 DEF IInv
<1>8. ASSUME NEW c \in Callers, CheckAgain(c) PROVE IInv'
  <2>1. TypeOK' /\ Counts'
    BY <1>0, <1>8, CallerFacts DEF TypeOK, Counts, Steps, Statuses, ThreadSteps, CheckAgain, After,
       IsRunning
  <2>2. AliveWatched' /\ MainWaits'
    BY <1>0, <1>8, CallerFacts DEF TypeOK, AliveWatched, MainWaits, Alive, CheckAgain, After,
       IsRunning
  <2>3. OneTask' /\ TasksAlone'
    BY <1>0, <1>8, CallerFacts DEF TypeOK, MainWaits, OneTask, TasksAlone, CheckAgain, After,
       IsRunning
  <2>4. OnlyThread'
    BY <1>0, <1>8, CallerFacts DEF TypeOK, OneTask, OnlyThread, CheckAgain, After, IsRunning
  <2>5. StopsJoin'
    BY <1>0, <1>8, CallerFacts DEF TypeOK, MainWaits, TasksAlone, StopsJoin, CheckAgain, After,
       IsRunning
  <2> QED
    BY <2>1, <2>2, <2>3, <2>4, <2>5 DEF IInv
<1>9. ASSUME NEW c \in Callers, PublishShuttingDown(c) PROVE IInv'
  <2>1. TypeOK' /\ Counts'
    BY <1>0, <1>9, CallerFacts DEF TypeOK, Counts, Steps, Statuses, ThreadSteps, PublishShuttingDown
  <2>2. AliveWatched' /\ MainWaits'
    BY <1>0, <1>9, CallerFacts DEF TypeOK, AliveWatched, MainWaits, Alive, PublishShuttingDown
  <2>3. OneTask' /\ TasksAlone'
    BY <1>0, <1>9, CallerFacts DEF TypeOK, MainWaits, OneTask, TasksAlone, PublishShuttingDown
  <2>4. OnlyThread'
    BY <1>0, <1>9, CallerFacts DEF TypeOK, OneTask, OnlyThread, PublishShuttingDown
  <2>5. StopsJoin'
    BY <1>0, <1>9, CallerFacts DEF TypeOK, MainWaits, TasksAlone, StopsJoin, PublishShuttingDown
  <2> QED
    BY <2>1, <2>2, <2>3, <2>4, <2>5 DEF IInv
<1>10. ASSUME NEW c \in Callers, SetEvent(c) PROVE IInv'
  <2>1. TypeOK' /\ Counts'
    BY <1>0, <1>10, CallerFacts DEF TypeOK, Counts, Steps, Statuses, ThreadSteps, SetEvent
  <2>2. AliveWatched' /\ MainWaits'
    BY <1>0, <1>10, CallerFacts DEF TypeOK, AliveWatched, MainWaits, Alive, SetEvent
  <2>3. OneTask' /\ TasksAlone'
    BY <1>0, <1>10, CallerFacts DEF TypeOK, MainWaits, OneTask, TasksAlone, SetEvent
  <2>4. OnlyThread'
    BY <1>0, <1>10, CallerFacts DEF TypeOK, OneTask, OnlyThread, SetEvent
  <2>5. StopsJoin'
    BY <1>0, <1>10, CallerFacts DEF TypeOK, MainWaits, TasksAlone, StopsJoin, SetEvent
  <2> QED
    BY <2>1, <2>2, <2>3, <2>4, <2>5 DEF IInv
<1>11. ASSUME NEW c \in Callers, JoinThread(c) PROVE IInv'
  <2>1. TypeOK' /\ Counts'
    BY <1>0, <1>11, CallerFacts DEF TypeOK, Counts, Steps, Statuses, ThreadSteps, JoinThread
  <2>2. AliveWatched' /\ MainWaits'
    BY <1>0, <1>11, CallerFacts DEF TypeOK, AliveWatched, MainWaits, Alive, JoinThread
  <2>3. OneTask' /\ TasksAlone'
    BY <1>0, <1>11, CallerFacts DEF TypeOK, MainWaits, OneTask, TasksAlone, JoinThread
  <2>4. OnlyThread'
    BY <1>0, <1>11, CallerFacts DEF TypeOK, OneTask, OnlyThread, JoinThread
  <2>5. StopsJoin'
    BY <1>0, <1>11, CallerFacts DEF TypeOK, MainWaits, TasksAlone, StopsJoin, JoinThread
  <2> QED
    BY <2>1, <2>2, <2>3, <2>4, <2>5 DEF IInv
<1>12. ASSUME NEW c \in Callers, JoinRaises(c) PROVE IInv'
  <2>1. TypeOK' /\ Counts'
    BY <1>0, <1>12, CallerFacts DEF TypeOK, Counts, Steps, Statuses, ThreadSteps, JoinRaises
  <2>2. AliveWatched' /\ MainWaits'
    BY <1>0, <1>12, CallerFacts DEF TypeOK, AliveWatched, MainWaits, Alive, JoinRaises
  <2>3. OneTask' /\ TasksAlone'
    <3>1. \A d \in Callers : Busy(d)' => Busy(d) \/ (d = Main /\ spinning)
      BY <1>0, <1>12, CallerFacts DEF TypeOK, JoinRaises
    <3>2. OneTask'
      BY <1>0, <1>12, <3>1, CallerFacts DEF OneTask, JoinRaises
    <3>3. ASSUME met = {}, NEW t \in Tasks, Busy(t)' PROVE FALSE
      <4>1. Busy(t) /\ c # t
        BY <1>0, <1>12, <3>1, <3>3, CallerFacts DEF TypeOK, JoinRaises
      <4>2. c \in Tasks \/ c \in {Stopper, Main}
        BY DEF Callers
      <4> QED
        BY <1>0, <1>12, <3>3, <4>1, <4>2 DEF OneTask, TasksAlone, JoinRaises
    <3>4. met' = met
      BY <1>12 DEF JoinRaises
    <3>5. TasksAlone'
      BY <3>3, <3>4, Zenon DEF TasksAlone
    <3> QED
      BY <3>2, <3>5
  <2>4. OnlyThread'
    BY <1>0, <1>12, CallerFacts DEF TypeOK, OneTask, OnlyThread, JoinRaises
  <2>5. StopsJoin'
    BY <1>0, <1>12, CallerFacts DEF TypeOK, MainWaits, TasksAlone, StopsJoin, JoinRaises
  <2> QED
    BY <2>1, <2>2, <2>3, <2>4, <2>5 DEF IInv
<1>13. ASSUME NEW c \in Callers, Joined(c) PROVE IInv'
  <2>1. TypeOK' /\ Counts'
    BY <1>0, <1>13, CallerFacts DEF TypeOK, Counts, Steps, Statuses, ThreadSteps, Joined, After
  <2>2. AliveWatched' /\ MainWaits'
    BY <1>0, <1>13, CallerFacts DEF TypeOK, AliveWatched, MainWaits, Alive, Joined, After
  <2>3. OneTask' /\ TasksAlone'
    BY <1>0, <1>13, CallerFacts DEF TypeOK, MainWaits, OneTask, TasksAlone, Joined, After
  <2>4. OnlyThread'
    BY <1>0, <1>13, CallerFacts DEF TypeOK, OneTask, OnlyThread, Joined, After
  <2>5. StopsJoin'
    BY <1>0, <1>13, CallerFacts DEF TypeOK, MainWaits, TasksAlone, StopsJoin, Joined, After
  <2> QED
    BY <2>1, <2>2, <2>3, <2>4, <2>5 DEF IInv
<1>14. ASSUME NEW t \in Tasks, ResetRequested(t) PROVE IInv'
  <2>1. TypeOK' /\ Counts'
    BY <1>0, <1>14, CallerFacts DEF TypeOK, Counts, Steps, Statuses, ThreadSteps, ResetRequested
  <2>2. AliveWatched' /\ MainWaits'
    BY <1>0, <1>14, CallerFacts DEF TypeOK, AliveWatched, MainWaits, Alive, ResetRequested
  <2>3. OneTask' /\ TasksAlone'
    BY <1>0, <1>14, CallerFacts DEF TypeOK, MainWaits, OneTask, TasksAlone, ResetRequested
  <2>4. OnlyThread'
    BY <1>0, <1>14, CallerFacts DEF TypeOK, OneTask, OnlyThread, ResetRequested
  <2>5. StopsJoin'
    BY <1>0, <1>14, CallerFacts DEF TypeOK, MainWaits, TasksAlone, StopsJoin, ResetRequested
  <2> QED
    BY <2>1, <2>2, <2>3, <2>4, <2>5 DEF IInv
<1>15. ASSUME NEW t \in Tasks, Execute(t) PROVE IInv'
  <2>1. TypeOK' /\ Counts'
    BY <1>0, <1>15, CallerFacts DEF TypeOK, Counts, Steps, Statuses, ThreadSteps, Execute, IsRunning
  <2>2. AliveWatched' /\ MainWaits'
    BY <1>0, <1>15, CallerFacts DEF TypeOK, AliveWatched, MainWaits, Alive, Execute, IsRunning
  <2>3. OneTask' /\ TasksAlone'
    BY <1>0, <1>15, CallerFacts DEF TypeOK, MainWaits, OneTask, TasksAlone, Execute, IsRunning
  <2>4. OnlyThread'
    BY <1>0, <1>15, CallerFacts DEF TypeOK, OneTask, OnlyThread, Execute, IsRunning
  <2>5. StopsJoin'
    BY <1>0, <1>15, CallerFacts DEF TypeOK, MainWaits, TasksAlone, StopsJoin, Execute, IsRunning
  <2> QED
    BY <2>1, <2>2, <2>3, <2>4, <2>5 DEF IInv
<1>16. ASSUME NEW t \in Tasks, ClearEvent(t) PROVE IInv'
  <2>1. TypeOK' /\ Counts'
    BY <1>0, <1>16, CallerFacts DEF TypeOK, Counts, Steps, Statuses, ThreadSteps, ClearEvent
  <2>2. AliveWatched' /\ MainWaits'
    BY <1>0, <1>16, CallerFacts DEF TypeOK, AliveWatched, MainWaits, Alive, ClearEvent
  <2>3. OneTask' /\ TasksAlone'
    BY <1>0, <1>16, CallerFacts DEF TypeOK, MainWaits, OneTask, TasksAlone, ClearEvent
  <2>4. OnlyThread'
    BY <1>0, <1>16, CallerFacts DEF TypeOK, OneTask, OnlyThread, ClearEvent
  <2>5. StopsJoin'
    BY <1>0, <1>16, CallerFacts DEF TypeOK, MainWaits, TasksAlone, StopsJoin, ClearEvent
  <2> QED
    BY <2>1, <2>2, <2>3, <2>4, <2>5 DEF IInv
<1>17. ASSUME NEW t \in Tasks, AssignThread(t) PROVE IInv'
  <2>1. TypeOK' /\ Counts'
    BY <1>0, <1>17, CallerFacts DEF TypeOK, Counts, Steps, Statuses, ThreadSteps, AssignThread
  <2>2. AliveWatched' /\ MainWaits'
    BY <1>0, <1>17, CallerFacts DEF TypeOK, AliveWatched, MainWaits, Alive, AssignThread
  <2>3. OneTask' /\ TasksAlone'
    BY <1>0, <1>17, CallerFacts DEF TypeOK, MainWaits, OneTask, TasksAlone, AssignThread
  <2>4. OnlyThread'
    BY <1>0, <1>17, CallerFacts DEF TypeOK, OneTask, OnlyThread, AssignThread
  <2>5. StopsJoin'
    BY <1>0, <1>17, CallerFacts DEF TypeOK, MainWaits, TasksAlone, StopsJoin, AssignThread
  <2> QED
    BY <2>1, <2>2, <2>3, <2>4, <2>5 DEF IInv
<1>18. ASSUME NEW t \in Tasks, StartThread(t) PROVE IInv'
  <2>1. TypeOK' /\ Counts'
    BY <1>0, <1>18, CallerFacts DEF TypeOK, Counts, Steps, Statuses, ThreadSteps, StartThread
  <2>2. AliveWatched' /\ MainWaits'
    BY <1>0, <1>18, CallerFacts DEF TypeOK, AliveWatched, MainWaits, Alive, StartThread
  <2>3. OneTask' /\ TasksAlone'
    BY <1>0, <1>18, CallerFacts DEF TypeOK, MainWaits, OneTask, TasksAlone, StartThread
  <2>4. OnlyThread'
    BY <1>0, <1>18, CallerFacts DEF TypeOK, OneTask, OnlyThread, StartThread
  <2>5. StopsJoin'
    BY <1>0, <1>18, CallerFacts DEF TypeOK, MainWaits, TasksAlone, StopsJoin, StartThread
  <2> QED
    BY <2>1, <2>2, <2>3, <2>4, <2>5 DEF IInv
<1>19. ASSUME NEW a \in Apps, PublishStarting(a) PROVE IInv'
  <2>1. TypeOK' /\ Counts'
    BY <1>0, <1>19, CallerFacts DEF TypeOK, Counts, Steps, Statuses, ThreadSteps, PublishStarting
  <2>2. AliveWatched' /\ MainWaits'
    BY <1>0, <1>19, CallerFacts DEF TypeOK, AliveWatched, MainWaits, Alive, PublishStarting
  <2>3. OneTask' /\ TasksAlone'
    BY <1>0, <1>19, CallerFacts DEF TypeOK, MainWaits, OneTask, TasksAlone, PublishStarting
  <2>4. OnlyThread'
    BY <1>0, <1>19, CallerFacts DEF TypeOK, OneTask, OnlyThread, PublishStarting
  <2>5. StopsJoin'
    BY <1>0, <1>19, CallerFacts DEF TypeOK, MainWaits, TasksAlone, StopsJoin, PublishStarting
  <2> QED
    BY <2>1, <2>2, <2>3, <2>4, <2>5 DEF IInv
<1>20. ASSUME NEW a \in Apps, StartProcess(a) PROVE IInv'
  <2>1. TypeOK' /\ Counts'
    BY <1>0, <1>20, CallerFacts DEF TypeOK, Counts, Steps, Statuses, ThreadSteps, StartProcess
  <2>2. AliveWatched' /\ MainWaits'
    BY <1>0, <1>20, CallerFacts DEF TypeOK, AliveWatched, MainWaits, Alive, StartProcess
  <2>3. OneTask' /\ TasksAlone'
    BY <1>0, <1>20, CallerFacts DEF TypeOK, MainWaits, OneTask, TasksAlone, StartProcess
  <2>4. OnlyThread'
    BY <1>0, <1>20, CallerFacts DEF TypeOK, OneTask, OnlyThread, StartProcess
  <2>5. StopsJoin'
    BY <1>0, <1>20, CallerFacts DEF TypeOK, MainWaits, TasksAlone, StopsJoin, StartProcess
  <2> QED
    BY <2>1, <2>2, <2>3, <2>4, <2>5 DEF IInv
<1>21. ASSUME NEW a \in Apps, AskProcess(a) PROVE IInv'
  <2>1. TypeOK' /\ Counts'
    BY <1>0, <1>21, CallerFacts DEF TypeOK, Counts, Steps, Statuses, ThreadSteps, AskProcess
  <2>2. AliveWatched' /\ MainWaits'
    BY <1>0, <1>21, CallerFacts DEF TypeOK, AliveWatched, MainWaits, Alive, AskProcess
  <2>3. OneTask' /\ TasksAlone'
    BY <1>0, <1>21, CallerFacts DEF TypeOK, MainWaits, OneTask, TasksAlone, AskProcess
  <2>4. OnlyThread'
    BY <1>0, <1>21, CallerFacts DEF TypeOK, OneTask, OnlyThread, AskProcess
  <2>5. StopsJoin'
    BY <1>0, <1>21, CallerFacts DEF TypeOK, MainWaits, TasksAlone, StopsJoin, AskProcess
  <2> QED
    BY <2>1, <2>2, <2>3, <2>4, <2>5 DEF IInv
<1>22. ASSUME NEW a \in Apps, KillProcess(a) PROVE IInv'
  <2>1. TypeOK' /\ Counts'
    BY <1>0, <1>22, CallerFacts DEF TypeOK, Counts, Steps, Statuses, ThreadSteps, KillProcess
  <2>2. AliveWatched' /\ MainWaits'
    BY <1>0, <1>22, CallerFacts DEF TypeOK, AliveWatched, MainWaits, Alive, KillProcess
  <2>3. OneTask' /\ TasksAlone'
    BY <1>0, <1>22, CallerFacts DEF TypeOK, MainWaits, OneTask, TasksAlone, KillProcess
  <2>4. OnlyThread'
    BY <1>0, <1>22, CallerFacts DEF TypeOK, OneTask, OnlyThread, KillProcess
  <2>5. StopsJoin'
    BY <1>0, <1>22, CallerFacts DEF TypeOK, MainWaits, TasksAlone, StopsJoin, KillProcess
  <2> QED
    BY <2>1, <2>2, <2>3, <2>4, <2>5 DEF IInv
<1>23. ASSUME NEW a \in Apps, ReadEof(a) PROVE IInv'
  <2>1. TypeOK' /\ Counts'
    BY <1>0, <1>23, CallerFacts DEF TypeOK, Counts, Steps, Statuses, ThreadSteps, ReadEof
  <2>2. AliveWatched' /\ MainWaits'
    BY <1>0, <1>23, CallerFacts DEF TypeOK, AliveWatched, MainWaits, Alive, ReadEof
  <2>3. OneTask' /\ TasksAlone'
    BY <1>0, <1>23, CallerFacts DEF TypeOK, MainWaits, OneTask, TasksAlone, ReadEof
  <2>4. OnlyThread'
    BY <1>0, <1>23, CallerFacts DEF TypeOK, OneTask, OnlyThread, ReadEof
  <2>5. StopsJoin'
    BY <1>0, <1>23, CallerFacts DEF TypeOK, MainWaits, TasksAlone, StopsJoin, ReadEof
  <2> QED
    BY <2>1, <2>2, <2>3, <2>4, <2>5 DEF IInv
<1>24. ASSUME NEW a \in Apps, PublishEnd(a) PROVE IInv'
  <2>1. TypeOK' /\ Counts'
    BY <1>0, <1>24, CallerFacts DEF TypeOK, Counts, Steps, Statuses, ThreadSteps, PublishEnd,
       StatusOf
  <2>2. AliveWatched' /\ MainWaits'
    BY <1>0, <1>24, CallerFacts DEF TypeOK, AliveWatched, MainWaits, Alive, PublishEnd, StatusOf
  <2>3. OneTask' /\ TasksAlone'
    BY <1>0, <1>24, CallerFacts DEF TypeOK, MainWaits, OneTask, TasksAlone, PublishEnd, StatusOf
  <2>4. OnlyThread'
    BY <1>0, <1>24, CallerFacts DEF TypeOK, OneTask, OnlyThread, PublishEnd, StatusOf
  <2>5. StopsJoin'
    BY <1>0, <1>24, CallerFacts DEF TypeOK, MainWaits, TasksAlone, StopsJoin, PublishEnd, StatusOf
  <2> QED
    BY <2>1, <2>2, <2>3, <2>4, <2>5 DEF IInv
<1>25. ASSUME NEW a \in Apps, ReadReady(a) PROVE IInv'
  <2>1. TypeOK' /\ Counts'
    BY <1>0, <1>25, CallerFacts DEF TypeOK, Counts, Steps, Statuses, ThreadSteps, ReadReady
  <2>2. AliveWatched' /\ MainWaits'
    BY <1>0, <1>25, CallerFacts DEF TypeOK, AliveWatched, MainWaits, Alive, ReadReady
  <2>3. OneTask' /\ TasksAlone'
    BY <1>0, <1>25, CallerFacts DEF TypeOK, MainWaits, OneTask, TasksAlone, ReadReady
  <2>4. OnlyThread'
    BY <1>0, <1>25, CallerFacts DEF TypeOK, OneTask, OnlyThread, ReadReady
  <2>5. StopsJoin'
    BY <1>0, <1>25, CallerFacts DEF TypeOK, MainWaits, TasksAlone, StopsJoin, ReadReady
  <2> QED
    BY <2>1, <2>2, <2>3, <2>4, <2>5 DEF IInv
<1>26. ASSUME NEW a \in Apps, LaunchScenario(a) PROVE IInv'
  <2>1. TypeOK' /\ Counts'
    BY <1>0, <1>26, CallerFacts DEF TypeOK, Counts, Steps, Statuses, ThreadSteps, LaunchScenario
  <2>2. AliveWatched' /\ MainWaits'
    BY <1>0, <1>26, CallerFacts DEF TypeOK, AliveWatched, MainWaits, Alive, LaunchScenario
  <2>3. OneTask' /\ TasksAlone'
    BY <1>0, <1>26, CallerFacts DEF TypeOK, MainWaits, OneTask, TasksAlone, LaunchScenario
  <2>4. OnlyThread'
    BY <1>0, <1>26, CallerFacts DEF TypeOK, OneTask, OnlyThread, LaunchScenario
  <2>5. StopsJoin'
    BY <1>0, <1>26, CallerFacts DEF TypeOK, MainWaits, TasksAlone, StopsJoin, LaunchScenario
  <2> QED
    BY <2>1, <2>2, <2>3, <2>4, <2>5 DEF IInv
<1>27. ASSUME NEW a \in Apps, ScenarioEnds(a) PROVE IInv'
  <2>1. TypeOK' /\ Counts'
    BY <1>0, <1>27, CallerFacts DEF TypeOK, Counts, Steps, Statuses, ThreadSteps, ScenarioEnds
  <2>2. AliveWatched' /\ MainWaits'
    BY <1>0, <1>27, CallerFacts DEF TypeOK, AliveWatched, MainWaits, Alive, ScenarioEnds
  <2>3. OneTask' /\ TasksAlone'
    BY <1>0, <1>27, CallerFacts DEF TypeOK, MainWaits, OneTask, TasksAlone, ScenarioEnds
  <2>4. OnlyThread'
    BY <1>0, <1>27, CallerFacts DEF TypeOK, OneTask, OnlyThread, ScenarioEnds
  <2>5. StopsJoin'
    BY <1>0, <1>27, CallerFacts DEF TypeOK, MainWaits, TasksAlone, StopsJoin, ScenarioEnds
  <2> QED
    BY <2>1, <2>2, <2>3, <2>4, <2>5 DEF IInv
<1>28. ASSUME NEW a \in Apps, LauncherEnds(a) PROVE IInv'
  <2>1. TypeOK' /\ Counts'
    BY <1>0, <1>28, CallerFacts DEF TypeOK, Counts, Steps, Statuses, ThreadSteps, LauncherEnds
  <2>2. AliveWatched' /\ MainWaits'
    BY <1>0, <1>28, CallerFacts DEF TypeOK, AliveWatched, MainWaits, Alive, LauncherEnds
  <2>3. OneTask' /\ TasksAlone'
    BY <1>0, <1>28, CallerFacts DEF TypeOK, MainWaits, OneTask, TasksAlone, LauncherEnds
  <2>4. OnlyThread'
    BY <1>0, <1>28, CallerFacts DEF TypeOK, OneTask, OnlyThread, LauncherEnds
  <2>5. StopsJoin'
    BY <1>0, <1>28, CallerFacts DEF TypeOK, MainWaits, TasksAlone, StopsJoin, LauncherEnds
  <2> QED
    BY <2>1, <2>2, <2>3, <2>4, <2>5 DEF IInv
<1>29. CASE UNCHANGED vars
  BY <1>0, <1>29 DEF vars, IInv, TypeOK, Counts, AliveWatched, Alive, MainWaits, OneTask,
     TasksAlone,
     OnlyThread, StopsJoin
<1> QED
  BY <1>1, <1>2, <1>3, <1>4, <1>5, <1>6, <1>7, <1>8, <1>9, <1>10, <1>11, <1>12, <1>13, <1>14,
     <1>15, <1>16, <1>17, <1>18, <1>19, <1>20, <1>21, <1>22, <1>23, <1>24, <1>25, <1>26, <1>27,
     <1>28, <1>29
     DEF Next, ShutdownSteps, TaskSteps, AppSteps
-----------------------------------------------------------------------------
(* The theorems                                                            *)

\* The strengthening that carries the theorems below.
THEOREM ControlInvariant == Spec => []IInv
<1>1. IInv /\ [Next]_vars => IInv'
  BY StepInv
<1> QED
  BY InitInv, <1>1, PTL DEF Spec

\* Every reachable state of node, applications and panel is well-typed.
THEOREM ControlTyping == Spec => []TypeOK
<1>1. IInv => TypeOK
  BY DEF IInv
<1> QED
  BY ControlInvariant, <1>1, PTL

\* However many requests are open at once: as long as no two tasks were under way together, no
\* application is started beside another.
THEOREM TasksApartStartOne == Spec => []OneApplication
<1>1. IInv => OneApplication
  BY DEF IInv, OnlyThread, OneApplication
<1> QED
  BY ControlInvariant, <1>1, PTL

\* When stop_scenario answers or main goes on, and no task was under way beside them, no process
\* that the node has spawned is left.
THEOREM StopLeavesNoProcess == Spec => StoppedWhenAnswered
<1>1. ASSUME IInv, [Next]_vars, NEW c \in {Stopper, Main}, Answers(c), met = {}
      PROVE  \A a \in Apps : ~Alive(a)'
  <2> USE DEF requests, appVars, processes, shared, status, Busy
  <2>0. TypeOK /\ Counts /\ OnlyThread /\ AliveWatched /\ StopsJoin
    BY <1>1 DEF IInv
  <2>1. Check(c) \/ CheckAgain(c) \/ JoinRaises(c) \/ Joined(c)
    <3>1. CASE PressExecute \/ PressStop \/ Receive \/ UNCHANGED vars
      BY <1>1, <3>1 DEF Answers, PressExecute, PressStop, Receive, vars
    <3>2. CASE StopScenario \/ InterruptNode \/ \E exists \in BOOLEAN : ExecuteScenario(exists)
      BY <1>1, <2>0, <3>2, CallerFacts DEF Answers, TypeOK, Counts, Tasks, StopScenario,
         InterruptNode, ExecuteScenario
    <3>3. ASSUME NEW d \in Callers, ShutdownSteps(d)
          PROVE  Check(c) \/ CheckAgain(c) \/ JoinRaises(c) \/ Joined(c)
      BY <1>1, <2>0, <3>3, CallerFacts DEF Answers, TypeOK, ShutdownSteps, Check, CheckAgain,
         PublishShuttingDown, SetEvent, JoinThread, JoinRaises, Joined
    <3>4. ASSUME NEW t \in Tasks, TaskSteps(t) PROVE FALSE
      BY <1>1, <2>0, <3>4, CallerFacts DEF Answers, TypeOK, TaskSteps, ResetRequested, Execute,
         ClearEvent, AssignThread, StartThread
    <3>5. ASSUME NEW a \in Apps,
                 \/ AppSteps(a) \/ ReadReady(a)
                 \/ LaunchScenario(a) \/ ScenarioEnds(a) \/ LauncherEnds(a)
          PROVE  FALSE
      BY <1>1, <3>5 DEF Answers, AppSteps, PublishStarting, StartProcess, AskProcess, KillProcess,
         ReadEof, PublishEnd, ReadReady, LaunchScenario, ScenarioEnds, LauncherEnds
    <3> QED
      BY <1>1, <3>1, <3>2, <3>3, <3>4, <3>5 DEF Next
  <2>2. UNCHANGED <<thread, process>>
    BY <2>1 DEF Check, CheckAgain, JoinRaises, Joined
  <2>3. ASSUME NEW a \in Apps PROVE thread[a] \in {"none", "dead"}
    <3>1. thread[a] \notin {"none", "dead"} => a = appThread /\ appThread # NoApp
      BY <1>1, <2>0, CallerFacts DEF OnlyThread
    <3>2. CASE Check(c) \/ CheckAgain(c)
      <4>1. ~IsRunning
        BY <1>1, <2>0, <3>2 DEF TypeOK, Answers, Check, CheckAgain, Callers
      <4> QED
        BY <3>1, <4>1 DEF IsRunning
    <3>3. CASE JoinRaises(c)
      BY <3>1, <3>3 DEF JoinRaises
    <3>4. CASE Joined(c)
      BY <1>1, <2>0, <3>1, <3>4 DEF StopsJoin, Joined
    <3> QED
      BY <2>1, <3>2, <3>3, <3>4
  <2>4. \A a \in Apps : ~Alive(a)
    BY <2>0, <2>3 DEF AliveWatched
  <2> QED
    BY <2>2, <2>4 DEF Alive
<1>2. IInv /\ [Next]_vars =>
          [\A c \in {Stopper, Main} : Answers(c) /\ met = {} => \A a \in Apps : ~Alive(a)']_vars
  BY <1>1
<1> QED
  BY ControlInvariant, <1>2, PTL DEF Spec, StoppedWhenAnswered
=============================================================================
