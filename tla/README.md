# scenario_execution in TLA+

scenario_execution runs scenarios written in OpenSCENARIO 2: a file is parsed into a model, each
scenario of it is turned into a behaviour tree (py_trees), the tree is ticked until it emits `end`
or `fail` or its root finishes, and the results become a report and an exit status. A base runner
does this in one thread; a ROS runner does it on rclpy executors, optionally beside a simulation
that publishes `/clock`; a control node starts runners as processes at the request of an RViz panel.

The modules in this directory model what decides whether a file means what its author wrote,
whether a verdict can be trusted, and whether anything is left running afterwards. Where the prose
below says "the model", it means the definitions that `PROJECT.json` ("map") pairs with lines of the
source.

    tlc -workers 2 -config MCScenarioRunner.cfg MCScenarioRunner
    tlapm ScenarioRunnerProofs.tla

## 1. Inventory

Paths are relative to `src/scenario_execution/scenario_execution/` unless a package is named.

| component | state it keeps | operations | what is hard about it | what makes it correct |
|---|---|---|---|---|
| base runner, `scenario_execution_base.py` | `shutdown_requested`, `current_scenario` and its output directory, the blackboard's `end` and `fail`, `results`, the open logs | `parse`, `setup`, `run` (loop, tick, `finally`), `post_tick_handler`, `on_scenario_shutdown`, `process_results`, the signal handlers | a signal between any two statements; errors at every stage of a scenario; state of the previous scenario | exit status 0 only when every scenario passed; `fail` wins; one result per scenario; simulation and logs released |
| simulation and clock, `simulation.py` | up or down, simulated time | `setup`, `reset`, `step`, `shutdown`, `now` | every call may raise; set up once per run by the base runner, once per scenario by the ROS runner | always shut down, never set up twice |
| ROS runner, `scenario_execution_ros` | as the base runner, and the node, the timer, `shutdown_task`, the futures of `ShutdownHandler` | `run`, `_run_single_scenario`, the timer's tick, the shutdown task, `on_scenario_shutdown` | ticks on worker threads while the main thread spins; the early return while a request is pending; timeouts | as above; no tick after teardown; the spin loop ends |
| behaviour-tree builder, `model/model_to_py_tree.py`, `clock_behaviors.py` | the tree: status and memory of each behaviour, events, timers | the visitors of composition, wait, emit, modifiers, `until`; `initialise`, `update`, `stop` | nesting of modifiers; memory left from an earlier activation; several ends in one tick | what ends a branch ends all of it; waits mean what the documentation says |
| base action, `actions/base_action.py` | arguments, the cancel | `initialise`, `terminate`, `request_cancel` | abandonment is the only cancel there is | an abandoned action is asked to stop |
| `run_process`, `actions/run_process.py` | `process`, `shutdown_requested`, `cancel_kill_deadline` | `execute`, `update`, `request_cancel`, `shutdown` | started over while running; ticks after shutdown; processes that ignore signals | the action never loses a process; grace before SIGKILL |
| `action_call`, `scenario_execution_ros/actions/ros_action_call.py` | `current_state`, `goal_handle`, cancel flags and deadline | `execute`, `update`, `goal_response_callback`, `get_result_callback`, `request_cancel`, `shutdown` | executor threads against the tick; goals of earlier executions | a cancel reaches the server; success is earned; the end of the goal ends the action |
| control node, `scenario_execution_control` | `_app_thread`, `_shutdown_requested_event`, `shutdown_requested`, the latched status | `execute_scenario`, `stop_scenario`, `run`; `ApplicationRunner.execute`, `shutdown`, its thread | services, tasks, threads and Ctrl-C share state without a lock | one application; stop means stopped |
| RViz panel, `scenario_execution_rviz` | the status it has seen | the button | acts on an old status | asks what the status allows |
| front end, `model/osc2_parser.py`, `osc2_parsing/` | the files parsed, the lexer's stack of indentations, brackets and tokens | lexing, parsing, imports, documents of parameters, templates | blocks by indentation; files that import each other; one model for many documents | a line belongs to the block it is indented into; each file is read once; a document changes what it names and nothing else |
| model, `model/model_builder.py`, `types.py`, `model_resolver.py` | the tree of elements, the links of names to declarations, the guard of an evaluation | building, lookup, inheritance, types, values, units, constraints | order of precedence, defaults under arguments under overrides, values that lead back to themselves | an expression is worth what it says; a circle is refused, never evaluated |
| reports, `introspection.py`, `tree_state.py`, `tick_report.py` | none | read-only views | none that changes a decision | not modelled |
| recorder and log, `utils/tick_recorder.py`, `utils/bt_logger.py` | rows, open files | `install_on_tree`, `flush`, `close` | rows not flushed, a tree that changes shape | opening and closing is in the runner's model; the rest is planned |
| other actions (core, ROS, libraries) | flags set by subscriptions | `execute`, `update` | external systems | an action with any outcome in the tree's model |
| `bag_record`, `scenario_execution_ros/actions/ros_bag_record.py` | `current_state`, the directory, the recorder | `execute`, the hooks of `update`, `shutdown` | a recorder that ignores SIGINT or dies; a directory from before | a scenario leaves a closed bag, a reported one, or none |
| `service_call`, `scenario_execution_ros/actions/ros_service_call.py` | `current_state`, `future` | `execute`, `update`, `done_callback` | callbacks on other threads, also those of earlier requests | the reply ends the action, and as it says |
| batch, variation, list publisher, tools, examples | results per process | loops | partial results | batch planned |

How they interact: the runner calls the builder once per scenario and then owns the tree; the tree
calls actions in its tick and tells them that they are abandoned through `terminate(INVALID)`;
actions and conditions reach the runner only through the blackboard (`end`, `fail`) and the root's
status, which `post_tick_handler` reads after the tick. `on_scenario_shutdown` is the one place
results are recorded, and it is reached from the main thread, from the tick, and from signal
handlers. On ROS, callbacks of the executor change the state of actions beside the tick. The front end
runs before all this, in `parse`: it hands the runner one tree for each scenario and document, and what
it refuses ends the run. The control
node knows a runner only as a process: its output, its exit and the signals it can be sent.

Every hazard found in this survey is in `PROJECT.json` ("hazards") at its line, with the properties
that cover it or the reason none does yet.

## 2. Modules

| module | models | checked by |
|---|---|---|
| `RunVerdicts` | the abstract promise of a run: passes in file order, never revoked, exit status justified by all | refined by `ScenarioRunner` |
| `ScenarioRunner` | the base runner with a simulation's lifecycle | `MCScenarioRunner` |
| `RosRunner` | the ROS runner | `MCRosRunner` |
| `BehaviourTree` | the tree the builder makes, ticked | `MCBehaviourTree` |
| `RunProcess` | the `run_process` action, its processes and both runners' endings | `MCRunProcess` |
| `RosBagRecord` | the `bag_record` action, its recorder and its directories | `MCRosActions` |
| `RosActionCall` | the `action_call` action, its goals and the server | `MCRosActionCall` |
| `RosServiceCall` | the `service_call` action and the callbacks of its requests | `MCRosActions` |
| `ScenarioControl` | control node, application runner, panel | `MCScenarioControl` |
| `OscLexicon`, `OscLexer` | the words of a file; lines to tokens, with NEWLINE, INDENT and DEDENT | `MCFrontEnd` |
| `OscGrammar`, `OscParser` | one production for each rule of the generated parser; what the ANTLR runtime does with them (external) | `MCFrontEnd` |
| `OscModel` | `ModelBuilder`: parse tree to model | `MCFrontEnd` |
| `OscValues`, `OscResolver` | names, types and values of a model; what the resolver refuses | `MCFrontEnd` |
| `OscOverrides` | a document laid over a model, and the template written from one | `MCFrontEnd` |
| `FrontEnd` | `process_file`: the composition of the six above over files, imports and documents | `MCFrontEnd` |
| `ImportWalk` | the abstract promise of loading: every file once, every declaration once, imported ones first | refined by `FrontEnd` |
| `FrontEndProperties` | its properties, the refinement mapping to `ImportWalk`, and the reference definitions they use | `MCFrontEnd` |
| `ScenarioRunnerProofs`, `RosRunnerProofs`, `BehaviourTreeProofs`, `RunProcessProofs`, `RosActionCallProofs`, `ScenarioControlProofs` | theorems about the module they name | tlapm |
| `RosActionsProofs` | theorems about `RosBagRecord`, `RosServiceCall` and their instance `MCRosActions` | tlapm |
| `FrontEndProofs` | theorems about `ImportWalk` and `OscLexer` | tlapm |

Definitions that precede the one they vary and whose name says what goes wrong in them
(`TickResultEndWins`, `KeepsIncompleteBag`, ...) are alternatives: none is used by `Next`. Each is a
plausible mistake at that place in the code, and putting it in the place of the real definition
makes the named property fail, which shows that the property depends on that definition
(`PROJECT.json`, "mutants").

### ScenarioRunner

`pc` is the main thread's place between the calls that can raise or be interrupted: `parse`,
`simSetup`, `head` (the `for` over the scenarios), the output directory, the simulation's reset,
clearing of the request, attaching the tree (`current_scenario`, the blackboard), opening the
loggers, adding the visitors, the tree's own setup, then the loop (tick, post-tick, `finally`),
`simRelease`, `process`, `done`. `Signal` may fire between any two of them and does what the
installed handler does, `on_scenario_shutdown(False)`, which itself raises when there is no visitor
to read a snapshot from yet. `results` has for each entry the name it was recorded under and, as
history, the scenario the loop was at (`about`) and the place (`at`). Where such an exception leads
depends on the place: out of the loop into the `finally` block, or out of that block itself, in front
of `simulation.shutdown()` (`AfterHandlerRaises`). `reports[k]` is what has been
written into scenario `k`'s own `test.xml`. `mode` fixes how the runner was constructed: with a
simulation, an output directory, separate reports. A tick is one action that adds any of `end` and
`fail` to the blackboard and may end the root or raise. `KeyboardInterrupt` branches are not
reachable once the SIGINT handler is installed and have no action. The dry run and the template mode
reach no verdict and have no action; the template is in `FrontEnd`.

### RosRunner

Two threads of control: `pc` of the main thread (node, simulation, wait for the clock, `setup`,
spin, teardown) and `ticker`, the timer's callback on a worker thread, split into tick, test of the
request and report, since the report acts on what was read before. `task` is `shutdown_task`,
`futures` whether the `ShutdownHandler` holds an unfinished future. `OnScenarioShutdown` is the
override with its early return. `ClockFails` stands for the watchdog of `/clock`, whenever the
runner is on simulated time and there is no shutdown task. `tickOf`, `spun` and `lateTick` are
history. A tick that is still in progress at teardown (`MultiThreadedExecutor`, nothing waits for
it) goes on in the model, and `lateTick` records it: where a property is stated for runs in which no
tick outlived its scenario, it says so. What such a tick can do to an action is in `RunProcess`; the
verdict it may record is a listed hazard without a property.

### BehaviourTree

`Elements` gives the scenarios as a forest of elements (`serial`, `parallel`, `one_of`, a wait, `emit`,
an action), each with its members, its modifiers and the conditions of its `until`; `TreeAssumption`
says that it is one, which is how a parser hands them to the builder. `Children`, `Kind` and `Modifier`
are the builder: modifiers nest from the inside out in the order `reversed(modifiers)` leaves them,
`until` is a Parallel around all of them with the conditions as further children, and
`wait @event if condition` is a Sequence without memory. A node of the tree is a pair of element and
layer: 0 is the `until`, 1, 2, ... the modifiers from the outside, the last the behaviour itself.

A tick walks the tree as the generators of py_trees 2.4 do (external; modelled from how the builder uses
them): `path` is the stack of behaviours whose `tick()` is under way. A behaviour that starts may stop
its children and goes down to one (`StartSequence`, `StartParallel`, `StartModifier`); when a child has
returned, the one above goes on to the next (`NextInSequence`, `NextInParallel`) or returns itself
(`EndSequence`, `EndParallel`, `Expire`, `Again`, `PassOn`, ...); a leaf returns at once. What a
behaviour returns, and what it stops with that, is one step. `memo` is what it keeps between ticks: the
finish time of `ClockTimer` and `ClockTimeout`, the count of a retry, the child of a Sequence.
`TickTree` begins a tick: time passes, and the watched variable takes any value, also one that is no
bool. Each action answers anything. The clock and the variable change only between ticks, events also
within one. Whether the end is a pass is the runner's business and is judged in `ScenarioRunner`.
Argument and name resolution, wording and plugin modifiers are left out.

### RunProcess

`procs` are the processes spawned so far, `held` the one `self.process` holds, `asked[p]` the time a
process was first sent `shutdown_signal`, `killed` the ones sent SIGKILL. The tree may start the
action, tick it, abandon it (`terminate(INVALID)`, `request_cancel`) and start it over in any order;
a process may die, finish or ignore the signal. `mode.class` tells the classes apart: `RunProcess`
has the `execute()`, the hooks and the `shutdown()` of the module of that name; `OwnExecute` stands for
the Gazebo actions whose `execute()` leaves the cancel flags as they are and whose hooks judge the
process themselves; `OwnShutdown` is `GazeboSpawnActor`, which also holds its process back (`HoldBack`)
and whose `shutdown()` never looks at it (`ShutdownOfSpawnActor`). On the ROS runner the shutdown is two
passes over the tree (the shutdown task's and the one in the `finally` clause) with two calls of
`shutdown()` each, of which a pass that gives up leaves some out. A tick that is under way when the
first one begins is not waited for: `lateTick` says that it has not ended yet, and until it has, it may
reach the action at any moment, after the last call too. `outlived` is history: a tick was under way at
the latest `shutdown()`. `awaited` is the process whose `wait()` a `shutdown()` is in; the wait after
SIGKILL reads `self.process` again. On the base runner the scenario just ends. The command, the
environment, the reader threads and the process registry are left out.

### RosActionCall

The tick thread (`thread`), the two callbacks of each goal (`response`, `result`), the flags and the
handle they share, and for every execution a goal as the server sees it (`pending`, `rejected`,
`executing`, or a final state) with the cancels it has received. `_send_cancel` is split into its
check, its assignments and its call, on the tick thread and in `goal_response_callback` alike: the
result callback may clear the handle in between, and the call then raises (`raised`).
`get_result_callback` is one step. `mode` holds `success_on_acceptance`, whether there is a
`cancel_after`, and the expected status. `shutdown()` runs on the tick thread. That cancelling an
unfinished `send_goal_future` runs its callback without a result is an assumption about rclpy.
Feedback and the goal's data are left out.

### ScenarioControl

`pc[c]` is the statement of each caller of `shutdown()`: the tasks created by `execute_scenario`,
the stop service, and `main` after Ctrl-C. `thread[a]` is the thread of application `a`. An application
is two processes: `process[a]` is the `ros2 run` that pexpect has spawned, which may be deaf to SIGHUP
and SIGINT, and `scenario[a]` what that launches. The node signals, and reads the end of, the first
one only. `published` is the latched status, `view` what the panel has received of it. The services
exclude each other (one callback group); tasks run beside them and beside each other, and several
requests may be open at once, from a user who does not wait or from a second panel. Then two tasks may
both find no application running, one may clear the event that another caller has just set
(`ClearEvent`), put its thread in the place of one that is not started yet, so that a `join()` or a
second `start()` raises (`JoinRaises`, `StartThread`), which ends `spin()`. `met` is history: whether
tasks, or a task and a stop, have been under way together. Nothing in the code keeps them apart, which
is listed as a hazard, and the properties that need it say so.

### RosBagRecord

The action is a `RunProcess` whose `execute()`, hooks and `shutdown()` are its own, so the inherited
`update()` and cancel are modelled here with the hooks in their places. `bags` says of each directory
whether there is nothing, an open or a closed bag in it; an execution with a timestamp has a directory
of its own, one without shares the first with whatever was there before (`Init`). `RecorderStep` is
the environment: the recorder makes its directory, announces that all topics are subscribed, closes
its bag on SIGINT or ignores it, or dies. `phase` goes through the calls of `shutdown()` of both passes,
with a tick that may outlive them (`lateTick`, `outlived`), as in `RunProcess`. Left out: a
recording without a list of topics, which the code never reports as complete.

### RosServiceCall

`pc` is the place of the tick between two accesses to `current_state`: `update()` sets the state, then
cancels the future it holds, then sends. A future's callback is two steps, the test of the state and
the assignment (`checked` between them), on another thread; the cancelling of a future runs its
callback at once, in the tick. `reads` tells the subclasses apart that look into the response.
`futures` keeps what became of every request, so an earlier one can still answer. What rclpy does is
external: a done callback runs once, for a result, an exception or a cancel.

`MCRosActions` is one instance for both actions; a behaviour is of one or the other, and the fields
both classes have are the same variables.

### The front end

`OscLexer` reads a line in one step: `indents` is the stack the generated lexer keeps, `opened` its
count of brackets, and `ReadLine` makes the NEWLINE, INDENT and DEDENT tokens its embedded code makes,
at the end of the file too. A lexeme is a word of the source; which words are literals, and what they
denote, is a constant (`Lexicon`), because the characters of a number or a string are not what any
property is about. `OscGrammar` gives each method of the generated parser as a production, in the
order of its alternatives; the generated classes' accessors, listeners and prediction tables say the
same again and are part of those lines. `OscParser` stands for the ANTLR runtime and is not paired
with any line: it follows all alternatives and prefers the first, which is what ALL(*) decides; a
file is parsed or refused, and recovery after an error is left out because `process_file` refuses a
file with any error.

`OscModel` is `ModelBuilder`, one case for each `enter` method; a rule without one leaves its parts to
the element around it, which is what the stack of current elements comes to. An element is known by
its path in the tree, `to` holds what the resolver links it to. `OscValues` is
`find_reference_by_name`, the types and `get_resolved_value` of the classes in `types.py`; `active` is
the guard against circles and is handed down as the code hands its set. An exception is a value (`Error`),
so that it can be compared. `OscOverrides` puts the entries of a document into the model: into the
arguments a file gives, by position or name, or as new ones. `FrontEnd` composes them: `walks` is the
stack of files being walked (an import puts the rest of the file aside), `parsed_files` what has been
opened, `base_model` the model that each document is laid over a copy of. What a document says of its
output directory is taken out of it first (`Cleaned`) and refused when it leads out of the directory of
the run (`OutputRefused`; `Escaping` are the paths that do). With a template asked for, nothing is
overridden or run: `WriteTemplate` writes `template_file`, unless there is a file of that name.

The parser, the model and the resolver use `RECURSIVE` operators and no theorem reaches them; `OscLexer`
and `ImportWalk` use none. Recursion also keeps TLC's statistics of coverage small: it counts the
expressions of an operator anew wherever one is used, but those of a recursive one once, which is why
rules of the grammar refer to each other by name (`Ref`).

## 3. What is checked

Each `.cfg` is one run. Of the `MC*.tla` modules most add only the step in which a finished system
stays as it is (so that deadlock checking stays on for every other state), those of the tree and the
front end the scenarios, and `MCScenarioControl` a bound (`PanelRests`). `MCRosActions` and the front
end switch deadlock checking off: an action that is done or out of executions, and a file that is
loaded or refused, has no further step, and that loading ends is a property of its own. No run uses
symmetry: scenarios, goals, requests and files are ordered. A state constraint is used nowhere; every
bound is a guard.

| run | shows | bounds |
|---|---|---|
| `runner` | exit status 0 only if every scenario has a pass of its own (`VerdictSound`); `fail` wins over `end` (`FailDominates`); a simulation is released whatever raises, and whenever signals come once a failure can be reported (`ReleasedOnceReportable`), logs are closed (`LoggersClosed`); refinement of `RunVerdicts` (`KeepsPromise`); a verdict ends the loop (`VerdictEndsScenario`) | 2 scenarios, 2 signals, all 32 constructions |
| `ros_runner` | no ticked scenario's verdict is lost (`TickedScenariosJudged`), no tick on a torn-down tree (`NoTickAfterTeardown`); the spin loop ends (`ShutdownEndsSpin`) | 2 scenarios, 1 signal |
| `ros_verdict` | *violation:* a failure before `setup()` of a later scenario leaves no result, and the run passes | 2 scenarios, no signal |
| `behaviour_tree` | see below | 5 scenarios, 8 s in steps of 1 or 2 |
| `run_process` | the action owns what runs (`OwnsWhatRuns`); nothing outlives a ROS scenario unless a tick outlives the last `shutdown()` (`NoneOutlivesShutdown`); SIGKILL not before the grace (`GraceBeforeKill`) | 3 classes, 3 spawns, timeout 2, clock to 4, 4 calls of `shutdown()` |
| `run_process_orphan` | *violation:* on the base runner a process is left without a signal | 2 spawns |
| `action_call` | in its first execution a cancel reaches the server (`FirstCancelReachesServer`), success is earned (`SuccessIsEarned`), the end of the goal ends the action (`OutcomeEndsAction`) | 2 executions |
| `control` | one application, as long as no two tasks were under way together (`OneApplication`); an answered stop leaves no `ros2 run`, as long as no task was under way beside it (`StoppedWhenAnswered`); a deaf one does not block who stops it (`ShutdownReturns`) | 2 requests to execute, 1 to stop, all open at once; no stop once two tasks have met |
| `ros_actions` | a scenario leaves a closed bag, a reported one, or none, if no tick outlives the last `shutdown()` (`EndsWithItsBag`); a service_call ends as its reply says and not before (`FirstCallDecides`), and the reply does end it (`ReplyEndsAction`) | 2 executions of bag_record, 3 of service_call |
| `service_reply` | *violation:* started over, a service_call succeeds without a reply to its request | 2 executions |
| `front_end` | see below | 70 programs (a file, its imports, its documents, a template) |
| `override_flag` | *violation:* a bool field without an argument in the file becomes true when it is overridden with false | 1 file, 2 documents |

The tree's scenarios are the documented shapes: a condition held for two seconds, stopping a retried
action from another branch, a guarded event in a repeated branch, rises that are given up and waited
for again, and a timeout around a retry without bound around further modifiers.
All properties speak of the tree between two ticks. `NothingLeftRunning`: nothing runs below something
that does not. `UntilEnds`: an event set before a tick ends the whole invocation, its modifiers
included. `HeldForDuration`: the documented pattern succeeds only if the variable was low on every tick
for the duration. `TimeoutEnds`: a timeout ends the scenario on the first tick past it.

The properties of the front end compare it with definitions that do without parser, resolver and
overriding. `BlocksFollowIndentation`: what a line says belongs to the element whose block the line is
indented into, over comments, blank and joined lines, tabs and blocks that end together; the reference
reads the lines alone. While a file is read it also says what the lexer's tokens promise by themselves
(`BlocksNest`, `BlocksByColumn`), which is proved (section 5). `EvaluatesAsWritten`: an expression of
a file is worth what its words mean, by the precedence of operators, factors of units, numbers of
enums, and fields by position, name, default and inheritance. `OverridesLayOver`: with a document, a
parameter is what it would have been with the entries laid over it field by field, all others are what
they were, and no document leaves anything for the next. A field may have its value by name, by
default, or by position in a struct that inherits none: the files of `front_end` are made of those,
and section 6 says where the code does otherwise. `TemplateReadsBack`: a template that was written
from a file is accepted as a document for that file and changes none of its values, if they are
literals in SI base units or lists of them; one that is computed gives a template that is refused.
`LoadsAsPromised`: however files import each other, the front end implements `ImportWalk`, which takes
only their statements, imports and what an import names (`StatementsOf` reads these off the lines):
each file is opened once, and an import of a new file is walked through before the rest of the one
that imports it. What follows from that walk is proved (section 5). `CyclesAreDiagnosed`: a value that
leads back to itself over any parameters, fields and defaults by a reference to a plain name is
refused with its diagnosis, and no other is; Python gives out only where no such reference is on the
way (section 6). `LoadingEnds`: the program comes to an end. The files give every pair of arithmetic
operators, the boolean operators in the orders that tell precedence apart, 27 ways to indent three
lines in an open block, half-dedented ones among them, each declaration and invocation the grammar
has, a diamond and a circle of imports with a library, and every kind of parameter under entries that
fit and that do not.

**Why the bounds are enough to meet the hazards.** Two scenarios give the second one a predecessor
whose request, name, directory, simulation or task may be stale; a third would meet nothing that the
second does not. Two signals let one find the effects of another (one on the ROS runner, where tick,
main thread and shutdown task already report concurrently). Three spawns are a first process, one
after a re-initialise and one of a late tick; four calls of `shutdown()` are all there are. Two
executions give the second goal an old handle, response and result. Two requests and a stop that are
open at once let an application be replaced, and two be started, while it starts, runs or stops; once
two tasks have been under way together the properties of `control` end, so nothing more is pressed
then. Two executions of `bag_record` are one whose directory the next finds, and three of
`service_call` let two earlier requests answer during one execution. The files of the front end nest
blocks, structs and imports three deep, so that two levels can end at once. The clock of the tree
allows each timer to be started twice and to be overrun by a step of 2. For the runner and the actions
the theorems of section 5 drop the bounds.

## 4. Fairness

*ScenarioRunner:* `WF(Main)`, the one thread goes on; a tick may add no event for ever, and
`VerdictEndsScenario` only speaks of what follows a result. *RosRunner:* the main thread goes on (its
wait for futures is bounded by `SHUTDOWN_TIMEOUT`) and the executor runs a task it was given. Nothing
is assumed of ticks, futures, the clock or signals. *RosServiceCall:* a tick that has begun ends, and
the callback of a reply that is there runs; nothing is assumed of the service, nor that the tree ticks
again. *FrontEnd:* the program goes on; stated for the computing steps with their guards, because
`ENABLED` would make TLC evaluate whole files. *RosActionCall:* the tree keeps ticking a running
action (`WF(Update)`) and the callbacks of a goal that has one due are run; the server is under no
obligation. *ScenarioControl:* every caller, task and application thread takes its next step, since
each is a thread of its own; neither `ros2 run` nor the scenario is assumed to end by itself, and
SIGKILL ends the first one (`KillProcess`). *BehaviourTree*, *RunProcess* and *RosBagRecord* need
none: their properties are safety, a tick that ends too late included (`TimeoutEnds`). (`RunProcess`
states the fairness of its environment; no property of a run uses it.)

## 5. What is proved

`tlapm` checks eight proof modules to the last leaf. The assumptions are the named ones of the
component modules, that the constants are natural numbers, and one that theorems state as their
hypothesis: that `MaxCalls` is a natural number in `RosActionsProofs`.

**ScenarioRunner, for any number of scenarios and signals.** `Typing`: `TypeOK`. `ExitStatusSound`:
`VerdictSound`. It is not inductive: exit status 0 depends on the list of results, and nothing in
`VerdictSound` says why a list without failures is complete. `RunInv` adds that; its heart is
`Progress`, required *as long as all results are passes*: every scenario before the loop's has
passed; a request to shut down seen in the loop stands for a pass of the current scenario; `setup()`
has cleared the request of the last; and a run that has left its loop without an exception has
passed them all. Around it: `current` is the loop's scenario once attached, the visitor a failure
report reads exists by then, names never run ahead of the loop. `FailureReport` is the lemma all
failing steps share: the report of a failure either appends a failure, which falsifies the premise
of `Progress`, or raises, which leaves the run without a verdict. `AppendResult` says what appending
does to the statements about the list. `RunnerKeepsPromise`: the runner implements `RunVerdicts`
under `passed <- {k : Judged(k)}`; each step is a `Pass` of the loop's scenario, a `Finish`, or a
stutter, and `RunInv` supplies the order and the completeness.

The other safety invariants of the runner have a theorem each. `FailNeverPasses` (`FailDominates`)
adds to `RunInv` that there is no tick after a pass (`NoTickAfterPass`): a judged scenario only
leaves its loop, so no later tick can still emit "fail". `JudgedOnceInOrder` (`OneResultPerScenario`,
which only the proof establishes: without signals, one result per scenario and in file order)
rests on `OneInv`: the results are in order, none is about a scenario to come, and none about the
loop's scenario while it can still be judged. `LogsAreClosed` (`LoggersClosed`) follows from
`ClosedWhenLeft`: without signals and exceptions, open files and no request to shut down mean that
the run is between `open()` and the end of its loop. `SimulationReleasedOnceReportable`
(`ReleasedOnceReportable`) follows from `UpWhileInLoop`: a simulation that is up at the end was skipped by
an exception of the handler, which raises only with a signal and as long as no failure can be reported.
In those cases it is not released (section 6).

**RosRunner, for any number of scenarios and signals.** `RosRunnerTyping`, `NoVerdictLost`
(`TickedScenariosJudged`) and `TreesStayDown` (`NoTickAfterTeardown`). The argument is that of
`RunInv`, with two differences. A failure may leave no result at all here (the early return), so
`Progress` speaks only of the scenarios that were ticked (`spun`). And a request or a shutdown task
seen while spinning stands for the pass of the scenario at hand only as long as nothing has failed, no
exception has left `run()` and no tick has outlived its scenario (`Good`): a late tick may report
under the name of the next scenario. `Places` says what holds at each place of the main thread, among
it that a running timer has a tree that is up, which is all `TreesStayDown` needs.

**RunProcess, for any number of processes, timeout and clock.** The invariant `IInv` is the type
invariant with `LateTickSeen` (the tree ticks on its own only before the first `shutdown()`, and after
it only what was under way at all calls so far), `OwnsWhatRuns`, `NothingBeforeUpdate` (no process is
held before the action has executed), `CancelGrace` and `WaitGrace` (a deadline that is set leaves the
held process its whole grace since it was first asked), `AskedInThePast` and `NoneAfterShutdown` (a
call of `shutdown()` that no tick outlives leaves none running, for the classes that keep
`RunProcess.shutdown()`). `RunProcessTyping`, `ProcessOwned`, `ShutdownStopsAll` and `KillLeavesGrace`
follow; the last is an action property and comes from the invariant's step lemma, which also bounds
what a step may kill.

**BehaviourTree, for every forest of elements, any clock and any number of ticks.** `TreeTyping`
(`TypeOK`), `LosersAreStopped` (`NothingLeftRunning`), `UntilEndsTheInvocation` (`UntilEnds`),
`TimeoutEndsTheScenario` (`TimeoutEnds`) and `ConditionHasHeld` (`HeldForDuration`): the tree may have
any shape and depth, and the run's five scenarios are one value of it. None of the properties is
inductive, since they hold only when a tick is over; `IInv` says what holds while it is under way.
`PathInv`: the path leads from the root through the children the behaviours on it have come to, and
none of them has returned yet. A behaviour is either on the path and has started (`Entered`), or
`Settled`: if it runs, what runs below it is a child it knows of, and if it does not, nothing below it
runs. `UnderWay` says for the entered ones which children may still run: those a Sequence has come to
or that lie behind it, those a Parallel has yet to tick, or has ticked in this tick. `ChildReturned`
ties the last step to the child it returned from. `EventSeen` is what `UntilEnds` needs (no wait for
an event set before the tick has gone on in it), `StraightDown` and `Deadline` what `TimeoutEnds`
needs: every modifier from the root to the timeout ends with its child, so either one of them has
ended in this tick, or the clock is within the duration and one step. `AtRest` and `OthersRest` say
what nobody has ticked.

A tick is proved about as steps of four kinds, each with one lemma that preserves `IInv` for any
behaviour: `PushStep` down to a child, `OpenStep` of a composite that starts, `ReturnStep`, and
`TickStep`, which begins a tick. The lemma of each action (`EndParallelStep`, `ExpireStep`, ...) then
only shows that it is a step of its kind: which children it stops, and that those it leaves alone may
run. They need that `Stopped` reaches all of a branch. `above`, the behaviours around one, is defined
by recursion over the tree; `AboveStep` proves that the recursion has a solution (its least one), so
that it may be unfolded, `AboveChild` unfolds it by one parent, and `BelowFacts` says what a stop
leaves alone. That its values are sets of behaviours is part of `TreeAssumption`, which TLC evaluates.
Where the argument goes along the path or along the layers of an element, it is an induction in the
form "a non-empty set of numbers has a least one" (`LeastNumber`, `FromTheScenarios`), which is
first-order.

`HeldForDuration` speaks of a succeeded scenario and of two elements deep inside it, so it needs what
the behaviours between them have answered in the latest tick. `Lasting` adds that to `IInv`:
`Answered` says what a status means for a behaviour that was ticked (a waiting condition does not
hold; a serial that succeeded has a last child that did; a race that is won has lasted), and
`TimerRuns` that, as long as the timer of a race runs and the value is unbroken, the timer ends no
earlier than the duration after `since`, the time of the last break. `AnswersInvariant` is proved
action by action; `LastOfASuccess` then leads from the scenario to the race. One definition had to
change for it: `Verdict`, what a Parallel returns, was a `CASE` with guards that overlap. TLA+ fixes
no branch then, while TLC takes the first, so that the order of the tests in py_trees was in TLC's
reading of the module and not in the module. It is an `IF` now, and so are the three other definitions
(`Entered`, `CreatedValue`, `get_resolved_value`) whose guards overlapped.

**RosBagRecord, for any number of executions.** `RecordingEndsWithItsBag` (`EndsWithItsBag`) and
`BagRecordTyping`. The property looks at the end of a scenario only; the invariant carries what it
needs from the first execution there: before it nothing is touched (`Untouched`), in it the state
says what recorder and process are up to (`FirstState`) and what lies in the directory (`FirstBag`),
and the phases of the ending come in order (`TreeFirst`, and `Over` for an ending that no tick outlives).

**RosServiceCall, for any number of executions.** `FirstReplyDecides` (`FirstCallDecides`) and
`ServiceCallTyping`. An action that was started once cannot have been decided by any reply but its own,
because there is no earlier request (`Unrequested`, `Requested`), the one there is was sent after the
state was set (`Sending`), and nobody else moves it while the reply is out (`Waiting`).

**Both actions side by side.** `MCRosActions` runs them on the same variables, each in its own kind of
behaviour. `RosActionsTyping` (`Types`), `RecordingEnds` (`EndsWithItsBag`) and `ReplyDecides`
(`FirstCallDecides`) carry the results over to what the run checks: a step of one is a step of its
module or leaves all that the other's invariant speaks of alone.

**RosActionCall, for any number of executions.** `ActionCallTyping`, `SuccessEarned`
(`SuccessIsEarned`) and `FirstCancelArrives` (`FirstCancelReachesServer`). `Before` and `OneGoal` say
that the first execution has one goal, so every callback is about it. `Earned` ties a success to what
the server has answered. `Handle` relates the handle to the goal's response, and `OnItsWay` is the
proof of arrival: a cancel that is requested and has not reached the server is between two statements
of a `_send_cancel`, or waits for the response, whose callback will send it.

**ScenarioControl, for any number of requests and applications.** Any number of requests may be open at
once; nothing is assumed about who makes them. `ControlTyping` (`TypeOK`), `TasksApartStartOne`
(`OneApplication`) and `StopLeavesNoProcess` (`StoppedWhenAnswered`), from `ControlInvariant`. The
properties speak of behaviours by what `met` has recorded, so the invariant says what that means for the
callers: at most one task is busy (`OneTask`), and none beside the stop service or main (`TasksAlone`).
Then the thread in `_app_thread` is the only one that goes on, and none does while a task is about to
start another (`OnlyThread`); it is the one a stop joins (`StopsJoin`), and as a process is alive only
while its thread watches it (`AliveWatched`), none is left when the join returns.

**ImportWalk, for any number of files that import each other in any way.** `FilesOnce`
(`EveryFileOnce`), `DeclarationsOnce` (`EveryDeclarationOnce`) and `ImportsFirst`
(`ImportedComesFirst`), from `WalkInvariant`. The three promises speak mostly of a file that is loaded;
the invariant says what holds before. `Stacked`: the files that are walked through were opened in the
order of the stack. That is why nothing that was opened behind the one on top is still on it
(`TopOfTheStack`), which is the heart of `ImportsFirst`: at a declaration, all that was opened since its
file began is through. `Passed` is what the walk is behind, all of a file that has left the stack, and
`Progress` says that a passed import has its file opened and a passed declaration is made, and nothing
else is. `OpenedOnce` says of each file which earlier one imports it, so that no file is read that is not
needed (`FromTheFirst`). A refused file may name one more that cannot be opened, hence `Progress` only
while nothing is refused, and `ImportsBefore` shows that this one changes nothing about the order.
The run `front_end` checks that the front end takes the steps of `ImportWalk`; that every set of files is
walked through so is not proved, since `FrontEnd` reaches recursive operators.

**OscLexer, for every text.** `LexerSpec` is the lexer alone, which reads one file after the other in any
order; `FrontEnd` takes its steps. `LexerTyping` (`LexerTypeOK`, part of the run's `TypeOK`),
`BlocksAreNested` (`BlocksNest`) and `BlocksFromColumns` (`BlocksByColumn`), the last two parts of
`BlocksFollowIndentation`, from `LexerInvariant`. The properties speak of the tokens alone, which the
parser sees, the lexer decides by its stack of columns; so the invariant (`Blocks`) relates the two.
`Mirrored`: the stack is, outermost first, the columns at which the blocks `Around` the last token begin.
`Nested`: in every prefix of the tokens no more blocks end than began, and behind all of them as many are
open as there are columns. `Marked`: an INDENT is where a block `Begins`, and none is due behind the last
token, without which the first word of the next line could stand in its place. Each of the three has a
lemma for words, for a NEWLINE, for an INDENT and for DEDENTs behind tokens of which it holds;
`BlocksGoOn`, `BlocksBegin` and `BlocksEnd` put them together for the three ways a line break may lead,
and `StillOpenSplits` shows that the loop that pops columns stops where the increasing stack splits.
`LexerAssumption` says that a line is its blanks and words and that the count of blanks is a number (a
fold, so its value is an induction); `LexiconAssumption` that no literal is a token of layout. The proof
needs nothing about what is counted in brackets: whichever line breaks count for nothing, it holds.

**Only model-checked.** Liveness (`VerdictEndsScenario`, `ShutdownEndsSpin`, `ShutdownReturns`,
`OutcomeEndsAction`, `ReplyEndsAction`, `LoadingEnds`): temporal reasoning under fairness is out of
the prover's reach. Of the front end: `TypeOK`, `BlocksFollowIndentation`, `EvaluatesAsWritten`,
`OverridesLayOver`, `CyclesAreDiagnosed`, `TemplateReadsBack` and the refinement `LoadsAsPromised`,
beyond what the lexer and `ImportWalk` promise: its other modules have `RECURSIVE` operators, and what
a parser or an evaluation computes is an induction over data.

## 6. Findings

Four runs end in a counterexample on purpose: the code disagrees with its own documents, comments or
tests. `PROJECT.json` ("findings") quotes both sides.

1. `ros_verdict`: on ROS a failure before `setup()` of a later scenario leaves no result at all, and the exit status is 0 if the other scenarios passed.
2. `run_process_orphan`: the base runner never calls an action's `shutdown()`; a process with `wait_for_shutdown: false` outlives the runner unsignalled.
3. `override_flag`: a bool field for which the file passes no argument cannot be overridden with false: an argument is created for it, and on that path the string `"false"` is tested for truth. One that the file passes is overridden correctly.
4. `service_reply`: a `service_call` that is started over cancels its old future in the state in which a finished future means success, and succeeds without a reply to its request.

Other disagreements met on the way, which no run shows. The models have this behaviour unless noted;
where a property above is for the first execution only, these are the reason.

- `scenario_execution_base.py:780`: a failure before `setup()` of the second scenario is named after the first and written into its `test.xml`.
- `scenario_execution_ros.py:435`: a failed tree setup returns without shutting down the simulation and the tree.
- `ros_action_call.py:138`: `execute()` keeps `goal_handle`, so a cancel in a second execution goes to the first goal.
- `ros_action_call.py:202`: a `cancel_after` due right after a rejection overwrites `ERROR` with `ACTION_CANCELING`, and the action runs for ever.
- `ros_bag_record.py:143`, `:155`: a recorder that is ticked again while recording is left running after the scenario, against docs/libraries.rst ("The recording is active until the end of the scenario."). Not modelled: without a list of topics the recorder is never reported as ready.
- `model/types.py:2455`: `a and b and c` is refused, although docs/openscenarioDSL.rst:141 describes the operators without that limit. A unary minus is dropped, and adding a string to a number is never diagnosed.
- `model/model_resolver.py:236`: an action declared in the file does not shadow one of an import.
- The lexer accepts a line whose indentation lies between two open blocks as part of the outer one.
- Constraints and documents: `default` beside `keep` loses what a document sets, `keep` ignores it; a unit without a factor ends in an `AttributeError`; a field inherited and not among the defaults cannot be overridden.
- Templates: a computed parameter, or a struct field without default, gives a template that is refused when read; lengths are written multiplied with their factor and, read again, multiplied once more.
- `osc2_parser.py:545`: a document's number for a parameter given as `2 km` is taken in km, against docs/how_to_run.rst:318 ("the values are expected in SI base units").
- `osc2_parser.py:406`: values are bound to the fields of a struct with the inherited ones first (`types.py:1795`), overriding counts the struct's own alone. With `b` a field of `sign` and `a` one it inherits, overriding `b` in `p: sign = sign(5)` changes `a`, against the comment at :393 ("A POSITIONAL default value's Nth argument binds to the struct's Nth FIELD").
- `types.py:2333`: only references to a plain name are guarded; a parameter that refers to a field of itself, and a struct that contains itself, recurse until Python gives out, against test_self_referential_parameter.py:16 ("A parameter that is its own value is refused, not recursed into."). Both are among the files of `front_end`.
- `scenario_execution_base.py:589`: a signal inside the `finally` block, before its `try`, has its handler raise as long as there is no visitor to read a snapshot from (:772), and `simulation.shutdown()` is skipped, against :524 ("called once in a ``finally`` block").
- `scenario_execution_ros.py:478`: a tick that outlives the last `shutdown()` may start a process that nobody stops, against :504 ("guaranteeing every behaviour gets torn down").
- `application_runner.py:155`: stop signals, and waits for, the `ros2 run` alone and answers while the scenario below it may still be running, against docs/tutorials.rst:384 ("click the stop/pause button to terminate it").
- `osc2_parser.py:406`: more positional arguments than the struct declares itself end in an `IndexError` when it is overridden.
- `application_runner.py:59`: two tasks under way together both find no application running and start one each, of which only one can be stopped afterwards; no document says what should happen.
- `gazebo_spawn_actor.py:123`: `shutdown()` removes the entity and leaves a process that is still spawning it alone.

## 7. Plan

Done: `ScenarioRunner` and `RunVerdicts` (the verdict), `RosRunner`, `RunProcess`, `RosActionCall`,
`BehaviourTree`, `ScenarioControl`, `RosBagRecord`, `RosServiceCall`, and the front end from the
lexer to overrides and templates; proofs of all of them but the front end, of which the lexer and the walk
through imports (`ImportWalk`) are proved.

What is left, by weight of the behaviour:

1. `ClockWatch` and `SteppedClock`: the stall timeout, set-up time that is counted against it, steps per second.
2. What a late tick of the ROS runner may still record, as a property; its effect on `run_process` is modelled.
3. The tick recorder and the tree log (no row is lost between flushes, a tree that changes shape); introspection's snapshot against the tree.
4. Batch execution and variation: the combined result against the results of the processes, interruption included; the product of variations.
5. What the control node still promises when two tasks have been under way together, which the model has and the properties leave out: that no thread is left without a process to watch, and that a later stop ends the application `_app_thread` holds.
6. The ROS actions that follow a subscription, and external methods and coverage of the front end.

Hazards known and not in `PROJECT.json`, which keeps those of the models first: points 1 and 5 above;
rows of the recorder between two flushes; a process of a batch that is interrupted after it wrote its
result; `run_process.py:118`, where the escalation to SIGKILL of an abandoned action needs a tick it
does not get before the end of the scenario, and `:143`, where an action started over right after a
cancel adopts the process it has just signalled.

## 8. Not modelled

Front end: the prediction tables and error recovery of the ANTLR runtime (`OscParser` stands for what
they decide), the characters of a lexeme, files fetched from elsewhere, expressions over the
blackboard, external methods beyond their declaration, coverage, and the serialised model. Formatting,
logging and reports' texts, argument parsing of the programs and the dry run, the parsing of action
arguments in the actions themselves. The libraries that wrap Docker, Kubernetes, Nav2, MoveIt, Gazebo,
PyBullet and the operating system, whose behaviour is that of external systems and which
`BehaviourTree` represents as actions with any outcome; launch files, tools and examples.
`PROJECT.json` ("components") has each part with its reason.
