--------------------------- MODULE ScenarioControl ---------------------------
(***************************************************************************)
(* The control node, which starts and stops one scenario application at the *)
(* request of the panel.  The two services exclude each other; a request to *)
(* execute becomes a task of its own, which runs beside them, and each      *)
(* application has a thread that watches its process.  _app_thread, the     *)
(* shutdown event and the status are shared without a lock.  The process    *)
(* is the "ros2 run" that pexpect spawned: it launches the scenario as a    *)
(* process of its own, which the node neither signals nor waits for.        *)
(***************************************************************************)
EXTENDS Integers

CONSTANTS
    MaxRequests,        \* bound on the requests to execute
    MaxStops            \* bound on the requests to stop

ASSUME ControlAssumption ==
    /\ MaxRequests \in Nat \ {0}
    /\ MaxStops \in Nat

VARIABLES
    executes,           \* requests to execute the service has not taken yet
    stops,              \* requests to stop: not taken yet, and taken or not
    pc,                 \* where stop_scenario, each task and main are
    joined,             \* the thread each of them waits for
    tasks,              \* tasks created by execute_scenario
    spinning,           \* the executor runs
    appThread,          \* _app_thread
    event,              \* _shutdown_requested_event is set
    shutdownRequested,  \* the node's shutdown_requested
    thread,             \* where the thread of each application is
    ready,              \* signaled_running of each application
    asked,              \* shutting_down_trigger_time of each application is set
    process,            \* the ros2 run of each application, pexpect's child
    scenario,           \* the scenario that it launches
    published,          \* the status the node published last
    view,               \* the status the panel received last
    met                 \* history: what has been under way at the same time

vars == <<executes, stops, pc, joined, tasks, spinning, appThread, event, shutdownRequested,
          thread, ready, asked, process, scenario, published, view, met>>

requests == <<executes, stops, tasks>>
processes == <<process, scenario>>
appVars == <<thread, ready, asked, processes>>
shared == <<appThread, event, shutdownRequested>>
status == <<published, view>>
-----------------------------------------------------------------------------
Tasks == 1..MaxRequests
Apps == 1..MaxRequests
NoApp == 0

\* Who calls shutdown(): a task, the stop service, and main at its end.
Stopper == MaxRequests + 1
Main == MaxRequests + 2
Callers == Tasks \cup {Stopper, Main}

Statuses == {"STOPPED", "STARTING", "RUNNING", "SHUTTINGDOWN", "ERROR"}
Steps == {"idle", "check", "again", "publish", "set", "join", "joining",
          "reset", "execute", "clear", "assign", "start", "over"}
ThreadSteps == {"none", "new", "starting", "watching", "closing", "failed", "dead"}

TypeOK ==
    /\ executes \in 0..MaxRequests
    /\ stops \in [open: 0..MaxStops, sent: 0..MaxStops]
    /\ pc \in [Callers -> Steps]
    /\ joined \in [Callers -> Apps \cup {NoApp}]
    /\ tasks \in 0..MaxRequests
    /\ {spinning, event, shutdownRequested} \subseteq BOOLEAN
    /\ appThread \in Apps \cup {NoApp}
    /\ thread \in [Apps -> ThreadSteps]
    /\ ready \in [Apps -> BOOLEAN]
    /\ asked \in [Apps -> BOOLEAN]
    /\ process \in [Apps -> {"none", "alive", "deaf", "exited"}]
    /\ scenario \in [Apps -> {"none", "alive", "exited"}]
    /\ published \in Statuses
    /\ view \in Statuses
    /\ met \subseteq {"tasks", "stop"}

Init ==
    /\ executes = 0
    /\ stops = [open |-> 0, sent |-> 0]
    /\ pc = [c \in Callers |-> "idle"]
    /\ joined = [c \in Callers |-> NoApp]
    /\ tasks = 0
    /\ spinning = TRUE
    /\ appThread = NoApp
    /\ event = FALSE
    /\ shutdownRequested = FALSE
    /\ thread = [a \in Apps |-> "none"]
    /\ ready = [a \in Apps |-> FALSE]
    /\ asked = [a \in Apps |-> FALSE]
    /\ process = [a \in Apps |-> "none"]
    /\ scenario = [a \in Apps |-> "none"]
    /\ published = "STOPPED"
    /\ view = "STOPPED"
    /\ met = {}
-----------------------------------------------------------------------------
(* The panel: one button, which stops what it believes to be running       *)

ViewRunning == view \in {"STARTING", "RUNNING", "SHUTTINGDOWN"}

PressExecute ==
    /\ spinning /\ ~ViewRunning
    /\ executes + tasks < MaxRequests
    /\ executes' = executes + 1
    /\ UNCHANGED <<stops, pc, joined, tasks, spinning, shared, appVars, status, met>>

PressStop ==
    /\ spinning /\ ViewRunning
    /\ stops.sent < MaxStops
    /\ stops' = [open |-> stops.open + 1, sent |-> stops.sent + 1]
    /\ UNCHANGED <<executes, pc, joined, tasks, spinning, shared, appVars, status, met>>

Receive ==
    /\ view # published
    /\ view' = published
    /\ UNCHANGED <<requests, pc, joined, spinning, shared, appVars, published, met>>
-----------------------------------------------------------------------------
(* The services and the tasks                                              *)

Busy(c) == pc[c] \notin {"idle", "over"}
ATaskRuns == \E t \in Tasks : Busy(t)

\* execute_scenario: the answer does not wait for the task, nor the task for others.
ExecuteScenario(exists) ==
    /\ spinning /\ executes > 0
    /\ pc[Stopper] = "idle"
    /\ executes' = executes - 1
    /\ tasks' = IF exists THEN tasks + 1 ELSE tasks
    /\ pc' = IF exists THEN [pc EXCEPT ![tasks + 1] = "check"] ELSE pc
    /\ met' = IF exists /\ ATaskRuns THEN met \cup {"tasks"} ELSE met
    /\ UNCHANGED <<stops, joined, spinning, shared, appVars, status>>

StopScenario ==
    /\ spinning /\ stops.open > 0
    /\ pc[Stopper] = "idle"
    /\ stops' = [stops EXCEPT !.open = @ - 1]
    /\ pc' = [pc EXCEPT ![Stopper] = "check"]
    /\ met' = IF ATaskRuns THEN met \cup {"stop"} ELSE met
    /\ UNCHANGED <<executes, joined, tasks, spinning, shared, appVars, status>>

\* Ctrl-C ends spin(); main goes on while the callbacks in progress finish.
InterruptNode ==
    /\ spinning
    /\ spinning' = FALSE
    /\ pc' = [pc EXCEPT ![Main] = "check"]
    /\ met' = IF ATaskRuns THEN met \cup {"stop"} ELSE met
    /\ UNCHANGED <<requests, joined, shared, appVars, status>>

\* An application that counts as running only once it is ready.
IsReady == appThread # NoApp /\ thread[appThread] \notin {"none", "dead"} /\ ready[appThread]

IsRunning == appThread # NoApp /\ thread[appThread] \notin {"none", "dead"}

\* What a caller does once the application is stopped, or was not running.
After(c) == IF c \in Tasks THEN "reset" ELSE IF c = Stopper THEN "idle" ELSE "over"

\* is_running() of the caller; stop_scenario then sets shutdown_requested.
Check(c) ==
    /\ pc[c] = "check"
    /\ pc' = [pc EXCEPT ![c] = IF IsRunning THEN "again" ELSE After(c)]
    /\ shutdownRequested' = (shutdownRequested \/ (c = Stopper /\ IsRunning))
    /\ UNCHANGED <<requests, joined, spinning, appThread, event, appVars, status, met>>

\* shutdown(): is_running() again, the status, the event, the join.
CheckAgain(c) ==
    /\ pc[c] = "again"
    /\ pc' = [pc EXCEPT ![c] = IF IsRunning THEN "publish" ELSE After(c)]
    /\ UNCHANGED <<requests, joined, spinning, shared, appVars, status, met>>

PublishShuttingDown(c) ==
    /\ pc[c] = "publish"
    /\ published' = "SHUTTINGDOWN"
    /\ pc' = [pc EXCEPT ![c] = "set"]
    /\ UNCHANGED <<requests, joined, spinning, shared, appVars, view, met>>

SetEvent(c) ==
    /\ pc[c] = "set"
    /\ event' = TRUE
    /\ pc' = [pc EXCEPT ![c] = "join"]
    /\ UNCHANGED <<requests, joined, spinning, appThread, shutdownRequested, appVars, status, met>>

JoinThread(c) ==
    /\ pc[c] = "join" /\ thread[appThread] # "none"
    /\ joined' = [joined EXCEPT ![c] = appThread]
    /\ pc' = [pc EXCEPT ![c] = "joining"]
    /\ UNCHANGED <<requests, spinning, shared, appVars, status, met>>

\* join() raises if another caller has just put a thread there that it has not started yet; what
\* a callback raises ends spin().
JoinRaises(c) ==
    /\ pc[c] = "join" /\ thread[appThread] = "none"
    /\ spinning' = FALSE
    /\ pc' = IF spinning THEN [pc EXCEPT ![c] = "over", ![Main] = "check"]
             ELSE [pc EXCEPT ![c] = "over"]
    /\ UNCHANGED <<requests, joined, shared, appVars, status, met>>

\* A join() with a timeout, which gives up on a thread that goes on.
JoinTimesOut(c) ==
    /\ pc[c] = "joining"
    /\ joined' = [joined EXCEPT ![c] = NoApp]
    /\ pc' = [pc EXCEPT ![c] = After(c)]
    /\ UNCHANGED <<requests, spinning, shared, appVars, status, met>>

Joined(c) ==
    /\ pc[c] = "joining"
    /\ thread[joined[c]] = "dead"
    /\ joined' = [joined EXCEPT ![c] = NoApp]
    /\ pc' = [pc EXCEPT ![c] = After(c)]
    /\ UNCHANGED <<requests, spinning, shared, appVars, status, met>>

\* The rest of a task.
ResetRequested(t) ==
    /\ pc[t] = "reset"
    /\ shutdownRequested' = FALSE
    /\ pc' = [pc EXCEPT ![t] = "execute"]
    /\ UNCHANGED <<requests, joined, spinning, appThread, event, appVars, status, met>>

\* execute(): "Application already running!", or the event, then the thread.
Execute(t) ==
    /\ pc[t] = "execute"
    /\ pc' = [pc EXCEPT ![t] = IF IsRunning THEN "over" ELSE "clear"]
    /\ UNCHANGED <<requests, joined, spinning, shared, appVars, status, met>>

ClearEvent(t) ==
    /\ pc[t] = "clear"
    /\ event' = FALSE
    /\ pc' = [pc EXCEPT ![t] = "assign"]
    /\ UNCHANGED <<requests, joined, spinning, appThread, shutdownRequested, appVars, status, met>>

AssignThread(t) ==
    /\ pc[t] = "assign"
    /\ appThread' = t
    /\ pc' = [pc EXCEPT ![t] = "start"]
    /\ UNCHANGED <<requests, joined, spinning, event, shutdownRequested, appVars, status, met>>

\* start() of the thread that _app_thread holds by then; a second start() of one thread raises.
StartThread(t) ==
    /\ pc[t] = "start"
    /\ IF thread[appThread] = "none"
       THEN /\ thread' = [thread EXCEPT ![appThread] = "new"]
            /\ pc' = [pc EXCEPT ![t] = "over"]
            /\ UNCHANGED spinning
       ELSE /\ spinning' = FALSE
            /\ pc' = IF spinning THEN [pc EXCEPT ![t] = "over", ![Main] = "check"]
                     ELSE [pc EXCEPT ![t] = "over"]
            /\ UNCHANGED thread
    /\ UNCHANGED <<requests, joined, shared, ready, asked, processes, status, met>>
-----------------------------------------------------------------------------
(* The thread of an application                                            *)

\* A status that has no counterpart in ScenarioExecutionStatus.
StatusUnmapped(update) == IF update = "ERROR" /\ ~shutdownRequested THEN "FAILED" ELSE update

\* scenario_execution_status_updated: an error after a stop is none.
StatusOf(update) == IF update = "ERROR" /\ shutdownRequested THEN "STOPPED" ELSE update

PublishStarting(a) ==
    /\ thread[a] = "new"
    /\ published' = "STARTING"
    /\ thread' = [thread EXCEPT ![a] = "starting"]
    /\ UNCHANGED <<requests, pc, joined, spinning, shared, ready, asked, processes, view, met>>

\* pexpect.spawn of "ros2 run", which may be deaf to SIGHUP and SIGINT.
StartProcess(a) ==
    /\ thread[a] = "starting"
    /\ \/ /\ \E kind \in {"alive", "deaf"} : process' = [process EXCEPT ![a] = kind]
          /\ thread' = [thread EXCEPT ![a] = "watching"]
       \/ /\ thread' = [thread EXCEPT ![a] = "failed"]
          /\ UNCHANGED process
    /\ UNCHANGED <<requests, pc, joined, spinning, shared, ready, asked, scenario, status, met>>

\* The first turn of the loop that sees the event sends SIGHUP and SIGINT to ros2 run.
AskProcess(a) ==
    /\ thread[a] = "watching"
    /\ event /\ ~asked[a]
    /\ asked' = [asked EXCEPT ![a] = TRUE]
    /\ process' = [process EXCEPT ![a] = IF @ = "alive" THEN "exited" ELSE @]
    /\ UNCHANGED <<requests, pc, joined, spinning, shared, thread, ready, scenario, status, met>>

\* A loop that asks again after 8 s instead of killing.
AskAgain(a) ==
    /\ thread[a] = "watching"
    /\ event /\ asked[a]
    /\ process[a] = "deaf"
    /\ UNCHANGED vars

\* A later turn, 8 s after, sends SIGKILL.
KillProcess(a) ==
    /\ thread[a] = "watching"
    /\ event /\ asked[a]
    /\ process[a] = "deaf"
    /\ process' = [process EXCEPT ![a] = "exited"]
    /\ UNCHANGED <<requests, pc, joined, spinning, shared, thread, ready, asked, scenario, status,
                   met>>

\* The ready string in the output, which the scenario prints and ros2 run passes on.
ReadReady(a) ==
    /\ thread[a] = "watching"
    /\ scenario[a] # "none" /\ ~ready[a]
    /\ ready' = [ready EXCEPT ![a] = TRUE]
    /\ published' = "RUNNING"
    /\ UNCHANGED <<requests, pc, joined, spinning, shared, thread, asked, processes, view, met>>

\* pexpect.EOF: ros2 run is gone.
ReadEof(a) ==
    /\ thread[a] = "watching"
    /\ process[a] = "exited"
    /\ thread' = [thread EXCEPT ![a] = "closing"]
    /\ UNCHANGED <<requests, pc, joined, spinning, shared, ready, asked, processes, status, met>>

\* The last status, and the thread ends a moment later.
PublishEnd(a) ==
    /\ thread[a] \in {"closing", "failed"}
    /\ \E update \in (IF thread[a] = "closing" THEN {"STOPPED", "ERROR"} ELSE {"ERROR"}) :
           published' = StatusOf(update)
    /\ thread' = [thread EXCEPT ![a] = "dead"]
    /\ UNCHANGED <<requests, pc, joined, spinning, shared, ready, asked, processes, view, met>>
-----------------------------------------------------------------------------
(* ros2 run and the scenario                                               *)

Alive(a) == process[a] \in {"alive", "deaf"}

LaunchScenario(a) ==
    /\ Alive(a) /\ scenario[a] = "none"
    /\ scenario' = [scenario EXCEPT ![a] = "alive"]
    /\ UNCHANGED <<requests, pc, joined, spinning, shared, thread, ready, asked, process, status,
                   met>>

\* By itself, or of the hangup when ros2 run, the leader of its session, is gone.
ScenarioEnds(a) ==
    /\ scenario[a] = "alive"
    /\ scenario' = [scenario EXCEPT ![a] = "exited"]
    /\ UNCHANGED <<requests, pc, joined, spinning, shared, thread, ready, asked, process, status,
                   met>>

\* ros2 run waits for what it has launched; it may also fail to launch anything.
LauncherEnds(a) ==
    /\ Alive(a) /\ scenario[a] # "alive"
    /\ process' = [process EXCEPT ![a] = "exited"]
    /\ UNCHANGED <<requests, pc, joined, spinning, shared, thread, ready, asked, scenario, status,
                   met>>
-----------------------------------------------------------------------------
ShutdownSteps(c) ==
    \/ Check(c) \/ CheckAgain(c) \/ PublishShuttingDown(c) \/ SetEvent(c) \/ JoinThread(c)
    \/ JoinRaises(c) \/ Joined(c)

TaskSteps(t) ==
    ResetRequested(t) \/ Execute(t) \/ ClearEvent(t) \/ AssignThread(t) \/ StartThread(t)

AppSteps(a) ==
    \/ PublishStarting(a) \/ StartProcess(a) \/ AskProcess(a) \/ KillProcess(a) \/ ReadEof(a)
    \/ PublishEnd(a)

Next ==
    \/ PressExecute \/ PressStop \/ Receive
    \/ \E exists \in BOOLEAN : ExecuteScenario(exists)
    \/ StopScenario \/ InterruptNode
    \/ \E c \in Callers : ShutdownSteps(c)
    \/ \E t \in Tasks : TaskSteps(t)
    \/ \E a \in Apps :
           AppSteps(a) \/ ReadReady(a) \/ LaunchScenario(a) \/ ScenarioEnds(a) \/ LauncherEnds(a)

\* The threads go on; the panel owes nothing, nor does a scenario end by itself.
Fairness ==
    /\ \A c \in Callers : WF_vars(ShutdownSteps(c))
    /\ \A t \in Tasks : WF_vars(TaskSteps(t))
    /\ \A a \in Apps : WF_vars(AppSteps(a))

Spec == Init /\ [][Next]_vars /\ Fairness
-----------------------------------------------------------------------------
(* Properties                                                              *)

Answers(c) == Busy(c) /\ ~Busy(c)'
Stops(c) == pc[c] \in {"set", "join", "joining"}

\* An application is not started beside another, however starts, ends and stops cross, when the
\* panel asks for it before the thread of the last one has ended too ("Application already
\* running!", application_runner.py:59-61), as long as no two tasks were under way at once:
\* nothing keeps those from starting one each.
OneApplication ==
    "tasks" \notin met =>
        \A a, b \in Apps :
            thread[a] \notin {"none", "dead"} /\ thread[b] \notin {"none", "dead"} => a = b

\* When stop_scenario answers, and when main goes on at the end, no ros2 run is alive, neither
\* the one of the application that was to be stopped nor one that was just being started, as long
\* as no task was under way beside it.  The scenario below that may still be ending: nothing
\* waits for it.
StoppedWhenAnswered ==
    [][\A c \in {Stopper, Main} : Answers(c) /\ met = {} => \A a \in Apps : ~Alive(a)']_vars

\* Whoever calls shutdown() gets past it, deaf as the process may be, so that neither the services
\* nor the next scenario nor the end of the node wait for ever; unless a task under way beside it
\* clears the event that its thread was to see.
ShutdownReturns ==
    (\E c \in Callers : Stops(c)) ~> ((\A c \in Callers : ~Stops(c)) \/ met # {})
=============================================================================
