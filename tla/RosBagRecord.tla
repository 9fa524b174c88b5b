----------------------------- MODULE RosBagRecord -----------------------------
(***************************************************************************)
(* The bag_record action: a RunProcess whose process is "ros2 bag record".  *)
(* It succeeds when all topics are subscribed and records until the ROS     *)
(* runner shuts it down; a recorder closes its bag on SIGINT only.  Unlike  *)
(* RunProcess.execute(), its own leaves "executed" and the cancel flags as  *)
(* they are, and removes the bag directory instead.                         *)
(***************************************************************************)
EXTENDS Naturals

CONSTANT MaxRuns        \* bound on the executions of one action

ASSUME BagRecordAssumption == MaxRuns \in Nat \ {0}

VARIABLES
    timestamp_suffix,   \* every execution has a directory of its own; never changes
    phase,              \* where the scenario is
    shutdowns,          \* calls of shutdown() so far
    lateTick,           \* a tick the teardown found under way has not ended yet
    outlived,           \* history: a tick was under way at the latest shutdown()
    runs,               \* calls of execute() so far
    status,             \* the py_trees status of the action
    current_state,
    executed,           \* update() has tried to start the process
    process,            \* the recorder
    bag_dir,            \* the directory the action takes for its bag, or 0
    bags,               \* what is in every directory: no, an open or a closed bag
    written,            \* the directory the recorder was started with
    made,               \* the recorder has made its directory
    subscribed,         \* "All requested topics are subscribed" is in the output
    cancel_requested,
    interrupted,        \* history: the recorder was sent SIGINT
    killed,             \* history: the recorder was sent SIGKILL
    recorded,           \* history: the action has reported that it records
    reported            \* history: report_unclosed_bag() has logged its error

recorder == <<process, written, made, subscribed>>
signals == <<interrupted, killed>>
late == <<lateTick, outlived>>
vars == <<timestamp_suffix, phase, shutdowns, late, runs, status, current_state, executed, recorder,
          bag_dir, bags, cancel_requested, signals, recorded, reported>>
-----------------------------------------------------------------------------
Dirs == 1..MaxRuns

\* Two passes of the ROS runner, with two calls each.
MaxShutdowns == 4

TypeOK ==
    /\ timestamp_suffix \in BOOLEAN
    /\ phase \in {"tree", "waiting", "stopped", "ended"}
    /\ shutdowns \in 0..MaxShutdowns
    /\ runs \in 0..MaxRuns
    /\ status \in {"INVALID", "RUNNING", "SUCCESS", "FAILURE"}
    /\ current_state \in {"WAITING_FOR_TOPICS", "RECORDING", "FAILURE"}
    /\ process \in {"none", "running", "exited0", "exited1"}
    /\ {bag_dir, written} \subseteq Dirs \cup {0}
    /\ bags \in [Dirs -> {"none", "open", "closed"}]
    /\ {executed, made, subscribed, cancel_requested, interrupted, killed, recorded, reported,
        lateTick, outlived} \subseteq BOOLEAN

\* The directory without a suffix may hold the bag of an earlier scenario.
Init ==
    /\ timestamp_suffix \in BOOLEAN
    /\ phase = "tree" /\ shutdowns = 0 /\ lateTick = FALSE /\ outlived = FALSE /\ runs = 0
    /\ status = "INVALID" /\ current_state = "WAITING_FOR_TOPICS" /\ executed = FALSE
    /\ process = "none" /\ written = 0 /\ made = FALSE /\ subscribed = FALSE
    /\ bag_dir = 0
    /\ bags \in [Dirs -> {"none", "closed"}]
    /\ \A d \in Dirs : bags[d] = "closed" => d = 1 /\ ~timestamp_suffix
    /\ cancel_requested = FALSE /\ interrupted = FALSE /\ killed = FALSE
    /\ recorded = FALSE /\ reported = FALSE

\* As in RunProcess: a tick that is under way when the teardown begins is not waited for.
Ticks == phase = "tree" \/ lateTick
-----------------------------------------------------------------------------
(* One tick: initialise() unless RUNNING, then update()                    *)

\* execute(): another directory, or the bag in the only one removed.
Restarts == status # "RUNNING"
execute ==
    IF ~Restarts THEN UNCHANGED <<runs, bag_dir, bags>>
    ELSE /\ runs < MaxRuns
         /\ runs' = runs + 1
         /\ bag_dir' = IF timestamp_suffix THEN runs + 1 ELSE 1
         /\ bags' = IF timestamp_suffix THEN bags ELSE [bags EXCEPT ![1] = "none"]

\* _apply_cancel: SIGINT once, then SIGKILL on a tick after shutdown_timeout, which may have
\* passed or not.
_apply_cancel ==
    \/ /\ cancel_requested' /\ process' = "running" /\ ~interrupted
       /\ interrupted' = TRUE /\ UNCHANGED killed
    \/ /\ cancel_requested' /\ process' = "running" /\ interrupted
       /\ killed' = TRUE /\ UNCHANGED interrupted
    \/ /\ ~cancel_requested' \/ process' # "running" \/ interrupted
       /\ UNCHANGED signals

\* The process is started by the first update() and by no other: it runs, is gone at once, or
\* cannot be started.
Start ==
    /\ Ticks /\ ~executed
    /\ execute
    /\ executed' = TRUE
    /\ \/ /\ \/ process' = "running" /\ status' = "RUNNING"
             \/ process' = "exited1" /\ status' = "FAILURE"
          /\ written' = bag_dir' /\ current_state' = "WAITING_FOR_TOPICS"
       \/ /\ status' = "FAILURE" /\ UNCHANGED <<process, written, current_state>>
    /\ UNCHANGED cancel_requested /\ _apply_cancel
    /\ UNCHANGED <<timestamp_suffix, phase, shutdowns, late, made, subscribed, recorded, reported>>

\* check_running_process: the recorder runs.
check_running_process ==
    \/ /\ current_state = "WAITING_FOR_TOPICS" /\ subscribed
       /\ current_state' = "RECORDING" /\ status' = "SUCCESS" /\ recorded' = TRUE
    \/ /\ current_state = "WAITING_FOR_TOPICS" /\ ~subscribed
       /\ status' = "RUNNING" /\ UNCHANGED <<current_state, recorded>>
    \/ /\ current_state # "WAITING_FOR_TOPICS"
       /\ current_state' = "FAILURE" /\ status' = "FAILURE" /\ UNCHANGED recorded

\* on_process_finished: the recorder is gone, or there was never one.
on_process_finished ==
    /\ status' = "FAILURE"
    /\ current_state' = IF current_state = "RECORDING" /\ process # "none" THEN "FAILURE" ELSE current_state
    /\ UNCHANGED recorded

Monitor ==
    /\ Ticks /\ executed
    /\ execute
    /\ UNCHANGED <<process, cancel_requested>> /\ _apply_cancel
    /\ IF process = "running" THEN check_running_process ELSE on_process_finished
    /\ UNCHANGED <<timestamp_suffix, phase, shutdowns, late, executed, written, made, subscribed, reported>>

\* The branch is abandoned: terminate(INVALID) asks for a cancel.
Invalidate ==
    /\ Ticks /\ status # "INVALID"
    /\ status' = "INVALID"
    /\ cancel_requested' = TRUE
    /\ UNCHANGED process /\ _apply_cancel
    /\ UNCHANGED <<timestamp_suffix, phase, shutdowns, late, runs, current_state, executed, written, made,
                   subscribed, bag_dir, bags, recorded, reported>>
-----------------------------------------------------------------------------
(* shutdown()                                                              *)

BagExists == bag_dir # 0 /\ bags[bag_dir] # "none"

\* What shutdown() does when the recorder is gone: an open bag is reported, the bag of an action
\* that never came to record is removed.
report_unclosed_bag ==
    reported' = (reported \/ (current_state = "RECORDING" /\ BagExists /\ bags[bag_dir] # "closed"))
KeepsIncompleteBag == UNCHANGED bags
RemovesIncompleteBag ==
    bags' = IF current_state = "WAITING_FOR_TOPICS" /\ BagExists
            THEN [bags EXCEPT ![bag_dir] = "none"] ELSE bags
ShutdownDone ==
    /\ phase' = "stopped"
    /\ report_unclosed_bag
    /\ RemovesIncompleteBag

\* shutdown() does not touch the process of an action in FAILURE; otherwise it interrupts it.
shutdown ==
    /\ phase = "tree" \/ (phase = "stopped" /\ shutdowns < MaxShutdowns)
    /\ shutdowns' = shutdowns + 1
    /\ lateTick' \in IF phase = "tree" THEN BOOLEAN ELSE {lateTick}
    /\ outlived' = lateTick'
    /\ IF current_state # "FAILURE" /\ process = "running"
       THEN /\ phase' = "waiting" /\ interrupted' = TRUE
            /\ UNCHANGED <<reported, bags>>
       ELSE ShutdownDone /\ UNCHANGED interrupted
    /\ UNCHANGED <<timestamp_suffix, runs, status, current_state, executed, recorder, bag_dir,
                   cancel_requested, killed, recorded>>

\* process.wait(SHUTDOWN_TIMEOUT) expires.
ShutdownKills ==
    /\ phase = "waiting" /\ process = "running" /\ ~killed
    /\ killed' = TRUE
    /\ UNCHANGED <<timestamp_suffix, phase, shutdowns, late, runs, status, current_state, executed,
                   recorder, bag_dir, bags, cancel_requested, interrupted, recorded, reported>>

ShutdownReaps ==
    /\ phase = "waiting" /\ process # "running"
    /\ ShutdownDone
    /\ UNCHANGED <<timestamp_suffix, shutdowns, late, runs, status, current_state, executed, recorder,
                   bag_dir, cancel_requested, signals, recorded>>

ScenarioEnds ==
    /\ phase = "stopped"
    /\ phase' = "ended"
    /\ UNCHANGED <<timestamp_suffix, shutdowns, late, runs, status, current_state, executed, recorder,
                   bag_dir, bags, cancel_requested, signals, recorded, reported>>

LateTickEnds ==
    /\ lateTick /\ lateTick' = FALSE
    /\ UNCHANGED <<timestamp_suffix, phase, shutdowns, outlived, runs, status, current_state, executed,
                   recorder, bag_dir, bags, cancel_requested, signals, recorded, reported>>
-----------------------------------------------------------------------------
(* The recorder                                                            *)

Records ==
    /\ process = "running" /\ ~killed
    /\ \/ /\ ~made
          /\ made' = TRUE /\ bags' = [bags EXCEPT ![written] = "open"] /\ UNCHANGED subscribed
       \/ /\ made /\ ~subscribed
          /\ subscribed' = TRUE /\ UNCHANGED <<made, bags>>
    /\ UNCHANGED <<timestamp_suffix, phase, shutdowns, late, runs, status, current_state, executed, process,
                   written, bag_dir, cancel_requested, signals, recorded, reported>>

\* It acts on SIGINT: the bag is closed, if it was not removed under it.
Closes ==
    /\ process = "running" /\ interrupted /\ ~killed
    /\ process' = "exited0"
    /\ bags' = IF bags[written] = "open" THEN [bags EXCEPT ![written] = "closed"] ELSE bags
    /\ UNCHANGED <<timestamp_suffix, phase, shutdowns, late, runs, status, current_state, executed, written,
                   made, subscribed, bag_dir, cancel_requested, signals, recorded, reported>>

\* It crashes or is killed and leaves the bag as it is.
Dies ==
    /\ process = "running"
    /\ process' = "exited1"
    /\ UNCHANGED <<timestamp_suffix, phase, shutdowns, late, runs, status, current_state, executed, written,
                   made, subscribed, bag_dir, bags, cancel_requested, signals, recorded, reported>>

Next ==
    \/ Start \/ Monitor \/ Invalidate
    \/ shutdown \/ ShutdownKills \/ ShutdownReaps \/ ScenarioEnds \/ LateTickEnds
    \/ Records \/ Closes \/ Dies

Spec == Init /\ [][Next]_vars
-----------------------------------------------------------------------------
(* Properties                                                              *)

\* What a scenario leaves of a recording that was started once, however cancels, crashes of the
\* recorder, a recorder deaf to SIGINT and late ticks fall between the calls of shutdown(), if no
\* tick outlives the last of them: no recorder; a bag that is closed or was reported as unreadable
\* if the action said that it records, and otherwise no bag.
EndsWithItsBag ==
    phase = "ended" /\ runs = 1 /\ ~outlived =>
        /\ process # "running"
        /\ IF recorded THEN bags[bag_dir] = "closed" \/ reported ELSE bags[bag_dir] = "none"
=============================================================================
