------------------------------ MODULE RunProcess ------------------------------
(***************************************************************************)
(* The run_process action and the classes built on it: a behaviour that    *)
(* spawns one OS process, polls it on every tick, asks it to stop when its *)
(* branch is abandoned (terminate(INVALID) -> request_cancel) and, on the  *)
(* ROS runner, stops it when the scenario shuts down.  The process is a    *)
(* participant of its own: it exits when it likes and may ignore           *)
(* shutdown_signal, never SIGKILL.  So is a tick the teardown of the ROS   *)
(* runner finds under way in another thread of the executor.               *)
(***************************************************************************)
EXTENDS Integers

CONSTANTS
    MaxSpawns,          \* bound on the processes of one run
    ShutdownTimeout,    \* shutdown_timeout
    MaxNow              \* bound on the host clock

ASSUME RunProcessAssumption ==
    MaxSpawns \in Nat /\ ShutdownTimeout \in Nat /\ MaxNow \in Nat

VARIABLES
    mode,               \* runner and subclass; never changes
    phase,              \* where the scenario is
    shutdowns,          \* calls of shutdown() so far
    lateTick,           \* a tick the teardown found under way has not ended yet
    status,             \* the py_trees status of the action
    executed,           \* self.executed
    held,               \* self.process
    procs,              \* the state of every process ever spawned
    cancelRequested,    \* self.cancel_requested
    cancelSent,         \* self.cancel_signal_sent
    killDeadline,       \* self.cancel_kill_deadline
    awaited,            \* the process whose wait() shutdown() is in
    waitUntil,          \* when that wait() times out
    now,                \* self.host_clock
    asked,              \* history: when a process was first sent shutdown_signal
    killed,             \* history: the processes sent SIGKILL
    outlived            \* history: a tick was under way at the latest shutdown()

vars == <<mode, phase, shutdowns, lateTick, status, executed, held, procs, cancelRequested,
          cancelSent, killDeadline, awaited, waitUntil, now, asked, killed, outlived>>

teardownVars == <<phase, shutdowns, lateTick, awaited, waitUntil, outlived>>
cancelVars == <<cancelRequested, cancelSent, killDeadline>>
historyVars == <<asked, killed>>
-----------------------------------------------------------------------------
Pids == 1..MaxSpawns
None == 0       \* no process
Never == -1     \* no deadline, not asked

\* RunProcess: execute() and the hooks are RunProcess's own (RosRun, RosLaunch,
\* RosBagPlay).  OwnExecute: execute() only sets the command, the hooks judge the
\* process (GazeboDeleteActor, GazeboActorExists, GazeboWaitForSim).  OwnShutdown:
\* so does GazeboSpawnActor, which overrides shutdown() too.
Classes == {"RunProcess", "OwnExecute", "OwnShutdown"}

\* ros: the runner calls shutdown() on every behaviour.  wait: wait_for_shutdown.
Modes == [ros: BOOLEAN, wait: BOOLEAN, class: Classes]

\* Two passes of the ROS runner, with two calls each.
MaxShutdowns == 4

Times == {Never} \cup Nat

TypeOK ==
    /\ mode \in Modes
    /\ phase \in {"tree", "waiting", "killed", "killing", "stopped", "ended"}
    /\ shutdowns \in 0..MaxShutdowns
    /\ status \in {"INVALID", "RUNNING", "SUCCESS", "FAILURE"}
    /\ {executed, cancelRequested, cancelSent, lateTick, outlived} \subseteq BOOLEAN
    /\ {held, awaited} \subseteq Pids \cup {None}
    /\ procs \in [Pids -> {"unborn", "running", "exited0", "exited1"}]
    /\ killDeadline \in Times
    /\ waitUntil \in Times
    /\ now \in 0..MaxNow
    /\ asked \in [Pids -> Times]
    /\ killed \subseteq Pids

\* wait_for_shutdown is only ever set by RunProcess.execute(); GazeboSpawnActor
\* needs the node of the ROS runner.
Init ==
    /\ mode \in Modes
    /\ mode.class # "RunProcess" => ~mode.wait
    /\ mode.class = "OwnShutdown" => mode.ros
    /\ phase = "tree"
    /\ shutdowns = 0
    /\ lateTick = FALSE
    /\ outlived = FALSE
    /\ awaited = None
    /\ status = "INVALID"
    /\ executed = FALSE
    /\ held = None
    /\ procs = [p \in Pids |-> "unborn"]
    /\ cancelRequested = FALSE
    /\ cancelSent = FALSE
    /\ killDeadline = Never
    /\ waitUntil = Never
    /\ now = 0
    /\ asked = [p \in Pids |-> Never]
    /\ killed = {}

Running(p) == p # None /\ procs[p] = "running"

\* The tree ticks until the scenario ends.  A tick already under way then is not
\* waited for: it may reach the action at any time, also after the last shutdown().
Ticks == phase = "tree" \/ lateTick

\* Sending shutdown_signal to the process group.
Ask(p) == asked' = IF asked[p] = Never THEN [asked EXCEPT ![p] = now] ELSE asked

Kill(p) == killed' = killed \cup {p}
-----------------------------------------------------------------------------
(* Cancelling                                                              *)

\* An _apply_cancel that escalates on the next tick, whatever the deadline.
ApplyCancelAtOnce(p, alive, requested, sent, deadline) ==
    /\ cancelRequested' = requested
    /\ \/ /\ requested /\ alive /\ ~sent
          /\ Ask(p)
          /\ cancelSent' = TRUE
          /\ killDeadline' = now + ShutdownTimeout
          /\ UNCHANGED killed
       \/ /\ requested /\ alive /\ sent
          /\ Kill(p)
          /\ killDeadline' = Never
          /\ cancelSent' = sent
          /\ UNCHANGED asked
       \/ /\ ~(requested /\ alive)
          /\ cancelSent' = sent
          /\ killDeadline' = deadline
          /\ UNCHANGED historyVars

\* _apply_cancel for process p and given cancel flags: the first call sends
\* shutdown_signal, one at the deadline or later sends SIGKILL, once.
ApplyCancel(p, alive, requested, sent, deadline) ==
    LET expired == deadline # Never /\ now >= deadline IN
    /\ cancelRequested' = requested
    /\ \/ /\ requested /\ alive /\ ~sent
          /\ Ask(p)
          /\ cancelSent' = TRUE
          /\ killDeadline' = now + ShutdownTimeout
          /\ UNCHANGED killed
       \/ /\ requested /\ alive /\ sent /\ expired
          /\ Kill(p)
          /\ killDeadline' = Never
          /\ cancelSent' = sent
          /\ UNCHANGED asked
       \/ /\ ~(requested /\ alive /\ (sent => expired))
          /\ cancelSent' = sent
          /\ killDeadline' = deadline
          /\ UNCHANGED historyVars

\* The branch is abandoned: a losing one_of child, a timeout, or a parent that
\* starts over (py_trees stops the children that are not INVALID first).
Invalidate ==
    /\ Ticks
    /\ status # "INVALID"
    /\ status' = "INVALID"
    /\ ApplyCancel(held, Running(held), TRUE, cancelSent, killDeadline)
    /\ UNCHANGED <<mode, teardownVars, executed, held, procs, now>>
-----------------------------------------------------------------------------
(* One tick: initialise() unless RUNNING, then update()                    *)

\* RunProcess.execute() runs first and clears "executed" and the cancel flags.
Rearmed == status # "RUNNING" /\ mode.class = "RunProcess"

Requested == cancelRequested /\ ~Rearmed

Sent == cancelSent /\ ~Rearmed

Deadline == IF Rearmed THEN Never ELSE killDeadline

\* A respawn that does not look at the process it already owns.
NeedsProcessAlways == Rearmed \/ ~executed

\* update() has to start a process: execute() cleared "executed" and the
\* process it owns, if any, has exited.
NeedsProcess == (Rearmed \/ ~executed) /\ ~Running(held)

\* An on_process_finished that reports nothing for a failed process.
StatusOfNoResult(state) ==
    CASE state = "running" -> {IF mode.wait THEN "RUNNING" ELSE "SUCCESS"}
      [] state = "exited0" -> {"SUCCESS"}
      [] OTHER             -> {"None"}

\* check_running_process and on_process_finished.  Those of the other classes read
\* the output and the state of the action: INVALID is an end they did not expect.
StatusOf(state) ==
    CASE mode.class = "RunProcess" /\ state = "exited0" -> {"SUCCESS"}
      [] mode.class = "RunProcess" /\ state = "exited1" -> {"FAILURE"}
      [] mode.class # "RunProcess" /\ state # "running" -> {"SUCCESS", "FAILURE", "INVALID"}
      [] mode.class = "OwnExecute" /\ state = "running" -> {"RUNNING", "SUCCESS", "FAILURE"}
      [] OTHER -> {IF mode.wait THEN "RUNNING" ELSE "SUCCESS"}

Spawn(p) ==
    /\ Ticks /\ NeedsProcess
    /\ procs[p] = "unborn"
    /\ \A q \in Pids : procs[q] = "unborn" => p <= q
    /\ procs' = [procs EXCEPT ![p] = "running"]
    /\ held' = p
    /\ executed' = TRUE
    /\ ApplyCancel(p, TRUE, Requested, Sent, Deadline)
    /\ status' \in StatusOf("running")
    /\ UNCHANGED <<mode, teardownVars, now>>

\* Popen raised; self.process keeps the previous, exited one.
SpawnFails ==
    /\ Ticks /\ NeedsProcess
    /\ executed' = TRUE
    /\ cancelRequested' = Requested
    /\ cancelSent' = Sent
    /\ killDeadline' = Deadline
    /\ status' = "FAILURE"
    /\ UNCHANGED <<mode, teardownVars, held, procs, now, historyVars>>

\* update() with the process it already owns, also right after a re-initialise.
\* A result INVALID stops the action as an abandoned branch does: with a cancel.
Monitor ==
    /\ Ticks /\ ~NeedsProcess
    /\ executed' = TRUE
    /\ status' \in IF held = None THEN {"FAILURE"} ELSE StatusOf(procs[held])
    /\ ApplyCancel(held, Running(held), Requested \/ status' = "INVALID", Sent, Deadline)
    /\ UNCHANGED <<mode, teardownVars, held, procs, now>>

\* GazeboSpawnActor waits for its model, or finds it unusable, before it calls
\* RunProcess.update().
HoldBack ==
    /\ Ticks
    /\ mode.class = "OwnShutdown" /\ ~executed
    /\ status' \in {"RUNNING", "FAILURE"}
    /\ UNCHANGED <<mode, teardownVars, executed, held, procs, cancelVars, now, historyVars>>
-----------------------------------------------------------------------------
(* The end of the scenario                                                 *)

\* The base runner only interrupts the tree; its process then exits.
BaseRunnerEnds ==
    /\ phase = "tree"
    /\ ~mode.ros
    /\ phase' = "ended"
    /\ UNCHANGED <<mode, shutdowns, lateTick, awaited, waitUntil, outlived, status, executed, held,
                   procs, cancelVars, now, historyVars>>

\* The ROS runner makes two passes over the tree, in its shutdown task and in its
\* finally clause; each crawls the tree (and may give up before it gets here) and
\* then calls shutdown() of every behaviour.  The first one stops the timer.
ShutdownCalled ==
    /\ mode.ros
    /\ phase = "tree" \/ (phase = "stopped" /\ shutdowns < MaxShutdowns)
    /\ shutdowns' = shutdowns + 1
    /\ lateTick' \in IF phase = "tree" THEN BOOLEAN ELSE {lateTick}
    /\ outlived' = lateTick'
    /\ UNCHANGED <<mode, status, executed, held, procs, cancelVars, now, killed>>

\* A shutdown() that returns once a cancel has been asked for.
ShutdownTrustsCancel ==
    /\ ShutdownCalled
    /\ mode.class # "OwnShutdown"
    /\ IF Running(held) /\ ~cancelRequested
       THEN /\ Ask(held)
            /\ awaited' = held
            /\ waitUntil' = now + ShutdownTimeout
            /\ phase' = "waiting"
       ELSE phase' = "stopped" /\ UNCHANGED <<awaited, waitUntil, asked>>

\* RunProcess.shutdown(), up to its process.wait(shutdown_timeout).
Shutdown ==
    /\ ShutdownCalled
    /\ mode.class # "OwnShutdown"
    /\ IF Running(held)
       THEN /\ Ask(held)
            /\ awaited' = held
            /\ waitUntil' = now + ShutdownTimeout
            /\ phase' = "waiting"
       ELSE phase' = "stopped" /\ UNCHANGED <<awaited, waitUntil, asked>>

\* GazeboSpawnActor.shutdown() has its entity removed from the simulation and
\* never looks at self.process.
ShutdownOfSpawnActor ==
    /\ ShutdownCalled
    /\ mode.class = "OwnShutdown"
    /\ phase' = "stopped"
    /\ UNCHANGED <<awaited, waitUntil, asked>>

\* process.wait(shutdown_timeout) expired.
ShutdownEscalates ==
    /\ phase = "waiting"
    /\ Running(awaited)
    /\ now >= waitUntil
    /\ Kill(awaited)
    /\ phase' = "killed"
    /\ UNCHANGED <<mode, shutdowns, lateTick, awaited, waitUntil, outlived, status, executed, held,
                   procs, cancelVars, now, asked>>

\* The second wait() reads self.process again, and has no timeout.
ShutdownWaitsAgain ==
    /\ phase = "killed"
    /\ phase' = "killing"
    /\ awaited' = held
    /\ UNCHANGED <<mode, shutdowns, lateTick, waitUntil, outlived, status, executed, held, procs,
                   cancelVars, now, historyVars>>

\* One of the two process.wait() calls returned.
ShutdownReaps ==
    /\ phase \in {"waiting", "killing"}
    /\ ~Running(awaited)
    /\ phase' = "stopped"
    /\ UNCHANGED <<mode, shutdowns, lateTick, awaited, waitUntil, outlived, status, executed, held,
                   procs, cancelVars, now, historyVars>>

RosRunnerEnds ==
    /\ phase = "stopped"
    /\ phase' = "ended"
    /\ UNCHANGED <<mode, shutdowns, lateTick, awaited, waitUntil, outlived, status, executed, held,
                   procs, cancelVars, now, historyVars>>

\* The late tick is through.
LateTickEnds ==
    /\ lateTick
    /\ lateTick' = FALSE
    /\ UNCHANGED <<mode, phase, shutdowns, awaited, waitUntil, outlived, status, executed, held,
                   procs, cancelVars, now, historyVars>>
-----------------------------------------------------------------------------
(* The process and the host clock                                          *)

Exit(p, state) ==
    /\ procs[p] = "running"
    /\ p \in killed => state = "exited1"
    /\ procs' = [procs EXCEPT ![p] = state]
    /\ UNCHANGED <<mode, teardownVars, status, executed, held, cancelVars, now, historyVars>>

Advance ==
    /\ now < MaxNow
    /\ now' = now + 1
    /\ UNCHANGED <<mode, teardownVars, status, executed, held, procs, cancelVars, historyVars>>
-----------------------------------------------------------------------------
Tick == (\E p \in Pids : Spawn(p)) \/ SpawnFails \/ Monitor \/ HoldBack

Teardown ==
    \/ BaseRunnerEnds \/ RosRunnerEnds \/ LateTickEnds
    \/ Shutdown \/ ShutdownOfSpawnActor
    \/ ShutdownEscalates \/ ShutdownWaitsAgain \/ ShutdownReaps

Die == \E p \in killed : Exit(p, "exited1")

Next ==
    \/ Tick
    \/ Invalidate
    \/ Teardown
    \/ \E p \in Pids, state \in {"exited0", "exited1"} : Exit(p, state)
    \/ Advance

\* The thread that runs a shutdown() it has begun, the host clock and the
\* kernel's SIGKILL.  A process need not react to shutdown_signal, and nothing
\* makes the scenario end.
Fairness ==
    /\ WF_vars(ShutdownEscalates)
    /\ WF_vars(ShutdownWaitsAgain)
    /\ WF_vars(ShutdownReaps)
    /\ WF_vars(Advance)
    /\ WF_vars(Die)

Spec == Init /\ [][Next]_vars /\ Fairness
-----------------------------------------------------------------------------
(* Properties                                                              *)

NoneRuns == \A p \in Pids : procs[p] # "running"

\* However often the tree starts the action over, at most one process runs and
\* it is the one self.process holds: none is lost to shutdown() (the comment at
\* run_process.py:136-142).
OwnsWhatRuns == \A p \in Pids : procs[p] = "running" => p = held

\* On the ROS runner no process of a class that keeps RunProcess.shutdown()
\* outlives the scenario, not even one that ignores shutdown_signal or that a late
\* tick started between two shutdown() calls: the last one finds it, provided that
\* tick was over by then.  One that outlives the last shutdown() may start a process
\* that nobody stops.
NoneOutlivesShutdown ==
    mode.ros /\ mode.class # "OwnShutdown" /\ phase = "ended" /\ ~outlived => NoneRuns

\* SIGKILL reaches a process only when it has had shutdown_timeout to react to
\* shutdown_signal, over any sequence of cancels, re-initialises and shutdowns:
\* a simulator writes its results in that time.
GraceBeforeKill ==
    [][\A p \in killed' \ killed : asked[p] # Never /\ now >= asked[p] + ShutdownTimeout]_vars

\* docs/libraries.rst:637: a process still running on scenario shutdown is sent
\* shutdown_signal.
AskedAtScenarioEnd ==
    phase = "ended" => \A p \in Pids : procs[p] = "running" => asked[p] # Never
=============================================================================
