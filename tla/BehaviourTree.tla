---------------------------- MODULE BehaviourTree ----------------------------
(***************************************************************************)
(* How a scenario becomes a behaviour tree and what ticking it does.  The   *)
(* elements of a scenario are wrapped in what their with: block holds, the  *)
(* modifiers inside and until outside.  A tick walks the tree once, at one  *)
(* time of the clock: a behaviour starts, ticks a child, goes on when the   *)
(* child has returned, and returns, and each of these is a step.  The       *)
(* composites and decorators of py_trees are external; the tree built from  *)
(* them, the timers and the conditions are this repository's.               *)
(***************************************************************************)
EXTENDS Integers, Sequences

CONSTANTS
    Elements,       \* what the scenarios are written with, numbered as it is written
    Scenarios,      \* the elements that are the scenarios
    MaxNow,         \* bound on the clock
    MaxStep         \* bound on the time between two ticks

VARIABLES
    scenario,       \* the scenario that runs; never changes
    status,         \* the py_trees status of every behaviour
    memo,           \* what a behaviour keeps between ticks: its finish time, its count, its child
    previous,       \* the value a rise saw on the last tick
    emitted,        \* the events whose flag is set on the blackboard
    level,          \* the variable the conditions read, as the latest tick saw it
    since,          \* the tick at which it took that value
    now,            \* the clock at the latest tick
    path,           \* the behaviours whose tick() is under way, the root first
    started,        \* the last of them has started, and no child of it is being ticked
    ticked,         \* history: the behaviours whose tick() has returned in the latest tick
    before          \* history: the events that were set before the latest tick

inputs == <<scenario, level, since, now, before>>
kept == <<memo, previous, emitted>>
vars == <<scenario, status, memo, previous, emitted, level, since, now, path, started, ticked,
          before>>
-----------------------------------------------------------------------------
(* The tree                                                                *)

Leaves == {"event", "condition", "rise", "elapsed", "emit", "action"}
Sequential == {"serial", "guarded"}
Concurrent == {"parallel", "one_of"}
Modifiers == {"timeout", "retry", "repeat", "is", "inverter"}
Statuses == {"INVALID", "RUNNING", "SUCCESS", "FAILURE"}
Levels == {"low", "high", "odd"}        \* odd: a value that is not a bool
NoReference == "none"

\* What an element may be: a leaf has no members, a composition has one at least, and the conditions
\* of an until are conditions without a with: block of their own.
IsElement(x) ==
    /\ x.op \in Leaves \cup Sequential \cup Concurrent
    /\ x.members \in Seq(DOMAIN Elements) /\ x.untils \in Seq(DOMAIN Elements)
    /\ x.members = <<>> <=> x.op \in Leaves
    /\ x.op = "elapsed" => x.arg \in Nat
    /\ DOMAIN x.modifiers = 1..Len(x.modifiers) /\ Len(x.modifiers) \in Nat
    /\ \A k \in 1..Len(x.modifiers) :
           LET m == x.modifiers[k]
           IN  /\ m.kind \in Modifiers
               /\ m.kind = "timeout" => m.duration \in Nat
               /\ m.kind \in {"retry", "repeat"} => m.count \in Nat
               /\ m.kind = "is" => m.to \in Statuses \ {"INVALID"}
    /\ \A i \in DOMAIN x.untils :
           Elements[x.untils[i]].modifiers = <<>> /\ Elements[x.untils[i]].untils = <<>>

\* Elements are written inside one another: each comes after the one it is a part of, and is at one
\* place of one other element, unless it is a scenario.
Part(e, i) == IF i > 0 THEN Elements[e].members[i] ELSE Elements[e].untils[-i]
Places(e) == DOMAIN Elements[e].members \cup {-i : i \in DOMAIN Elements[e].untils}

\* An element of the scenario is wrapped in layers: 0 is the until around all,
\* 1.. are its modifiers as they are written, and the last is the behaviour.
Innermost(e) == Len(Elements[e].modifiers) + 1
Outermost(e) == <<e, IF Elements[e].untils = <<>> THEN 1 ELSE 0>>

Nodes == UNION {{e} \X (Outermost(e)[2]..Innermost(e)) : e \in DOMAIN Elements}
Root == Outermost(scenario)

\* The modifier at a layer when the block is applied front to back.
ModifierReversed(e, layer) == Elements[e].modifiers[Innermost(e) - layer]

\* The block is applied back to front: what is written last is next to the behaviour.
Modifier(e, layer) == Elements[e].modifiers[layer]

\* A block whose conditions are lost when it also holds modifiers.
ChildrenOfEither(n) ==
    LET e == n[1]
        outermosts(f) == [i \in DOMAIN f |-> Outermost(f[i])]
    IN  CASE n[2] = 0 -> <<<<e, 1>>>> \o IF Innermost(e) = 1 THEN outermosts(Elements[e].untils) ELSE <<>>
          [] n[2] \in 1..(Innermost(e) - 1) -> <<<<e, n[2] + 1>>>>
          [] OTHER -> outermosts(Elements[e].members)

\* until adds the target first, then its conditions.
Children(n) ==
    LET e == n[1]
        outermosts(f) == [i \in DOMAIN f |-> Outermost(f[i])]
    IN  CASE n[2] = 0            -> <<<<e, 1>>>> \o outermosts(Elements[e].untils)
          [] n[2] \in 1..(Innermost(e) - 1) -> <<<<e, n[2] + 1>>>>
          [] OTHER               -> outermosts(Elements[e].members)

Kids(n) == {Children(n)[i] : i \in DOMAIN Children(n)}

\* until is a one_of between the target and its conditions.
Kind(n) ==
    CASE n[2] = 0                -> "one_of"
      [] n[2] = Innermost(n[1])  -> Elements[n[1]].op
      [] OTHER                   -> Modifier(n[1], n[2]).kind

Edges == {n \in Nodes : Kind(n) = "rise"}
Events == {Elements[e].arg : e \in {f \in DOMAIN Elements : Elements[f].op = "emit"}}

\* A behaviour and all that is around it.
above[n \in Nodes] == {n} \cup UNION {above[m] : m \in {p \in Nodes : n \in Kids(p)}}

ASSUME TreeAssumption ==
    /\ MaxNow \in Nat /\ MaxStep \in Nat \ {0}
    /\ DOMAIN Elements \subseteq Nat /\ Scenarios \subseteq DOMAIN Elements
    /\ \A e \in DOMAIN Elements : IsElement(Elements[e])
    /\ \A e \in DOMAIN Elements : \A i \in Places(e) :
           Part(e, i) > e /\ Part(e, i) \notin Scenarios
    /\ \A e, f \in DOMAIN Elements : \A i \in Places(e), j \in Places(f) :
           Part(e, i) = Part(f, j) => e = f /\ i = j
    /\ \A e \in DOMAIN Elements \ Scenarios : \E f \in DOMAIN Elements : \E i \in Places(f) : Part(f, i) = e
    /\ above \in [Nodes -> SUBSET Nodes]

TypeOK ==
    /\ scenario \in Scenarios
    /\ status \in [Nodes -> Statuses]
    /\ memo \in [Nodes -> Nat]
    /\ previous \in [Edges -> Levels \cup {NoReference}]
    /\ emitted \subseteq Events
    /\ before \subseteq emitted
    /\ level \in Levels
    /\ now \in 0..MaxNow
    /\ since \in 0..now
    /\ path \in Seq(Nodes)
    /\ started \in BOOLEAN
    /\ ticked \subseteq Nodes

\* The flag of every event is unset; nothing has been ticked.
Init ==
    /\ scenario \in Scenarios
    /\ status = [n \in Nodes |-> "INVALID"]
    /\ memo = [n \in Nodes |-> 0] /\ previous = [n \in Edges |-> NoReference]
    /\ emitted = {} /\ before = {}
    /\ level = "low"
    /\ since = 0 /\ now = 0
    /\ path = <<>> /\ started = FALSE /\ ticked = {}
-----------------------------------------------------------------------------
(* tick()                                                                  *)

Current == path[Len(path)]
Starts(kinds) == path # <<>> /\ ~started /\ Kind(Current) \in kinds
GoesOn(kinds) == started /\ Kind(Current) \in kinds
Fresh == status[Current] # "RUNNING"
Child(i) == Children(Current)[i]

\* stop(INVALID): an INVALID behaviour has nothing but INVALID below it.
Stopped(roots) ==
    [n \in Nodes |-> IF status[n] # "INVALID" /\ above[n] \cap roots # {} THEN "INVALID" ELSE status[n]]

Keep(value) == memo' = [memo EXCEPT ![Current] = value]

Descend(child) ==
    /\ path' = Append(path, child) /\ started' = FALSE
    /\ UNCHANGED <<inputs, previous, emitted, ticked>>

Return(new, roots) ==
    /\ status' = [Stopped(roots) EXCEPT ![Current] = new]
    /\ path' = SubSeq(path, 1, Len(path) - 1)
    /\ started' = (Len(path) > 1)
    /\ ticked' = ticked \cup {Current}
    /\ UNCHANGED inputs
-----------------------------------------------------------------------------
(* Leaves: TopicEquals, TopicPublish, ExpressionBehavior, EdgeBehavior,     *)
(* ClockTimer, an action with any outcome                                   *)

Arg == Elements[Current[1]].arg

WaitForEvent ==
    /\ Starts({"event"})
    /\ Return(IF Arg \in emitted THEN "SUCCESS" ELSE "RUNNING", {})
    /\ UNCHANGED kept

Emit ==
    /\ Starts({"emit"})
    /\ emitted' = emitted \cup {Arg}
    /\ Return("SUCCESS", {})
    /\ UNCHANGED <<memo, previous>>

\* A condition that answers with its value.
HoldsValue == level

\* A condition that reads something other than a bool fails.
Holds == IF level = "odd" THEN "FAILURE" ELSE IF level = Arg THEN "SUCCESS" ELSE "RUNNING"

WaitForCondition ==
    /\ Starts({"condition"})
    /\ Return(Holds, {})
    /\ UNCHANGED kept

\* EdgeBehavior(target True): the value on the first tick is the reference.
WaitForRise ==
    /\ Starts({"rise"})
    /\ LET reference == IF Fresh THEN NoReference ELSE previous[Current]
           rises == reference = "low" /\ level = "high"
       IN  /\ previous' = [previous EXCEPT ![Current] = IF level = "odd" THEN reference ELSE level]
           /\ Return(IF level = "odd" THEN "FAILURE" ELSE IF rises THEN "SUCCESS" ELSE "RUNNING", {})
    /\ UNCHANGED <<memo, emitted>>

\* A ClockTimer that keeps the finish time of its first activation.
FinishOnce == IF memo[Current] = 0 THEN now + Arg ELSE memo[Current]

Finish == IF Fresh THEN now + Arg ELSE memo[Current]

WaitElapsed ==
    /\ Starts({"elapsed"})
    /\ Keep(Finish)
    /\ Return(IF now >= Finish THEN "SUCCESS" ELSE "RUNNING", {})
    /\ UNCHANGED <<previous, emitted>>

Act ==
    /\ Starts({"action"})
    /\ \E answer \in {"RUNNING", "SUCCESS", "FAILURE"} : Return(answer, {})
    /\ UNCHANGED kept
-----------------------------------------------------------------------------
(* Compositions: one that starts stops its children first                   *)

StopsChildren == status' = Stopped(IF Fresh THEN Kids(Current) ELSE {})

\* A serial remembers its child; "wait @event if condition" looks at both again.
HasMemory == Kind(Current) = "serial"

StartSequence ==
    /\ Starts(Sequential)
    /\ StopsChildren
    /\ LET first == IF Fresh \/ ~HasMemory THEN 1 ELSE memo[Current]
       IN  Keep(first) /\ Descend(Child(first))

NextInSequence ==
    /\ GoesOn(Sequential)
    /\ status[Child(memo[Current])] = "SUCCESS" /\ memo[Current] < Len(Children(Current))
    /\ Keep(memo[Current] + 1) /\ Descend(Child(memo[Current] + 1))
    /\ UNCHANGED status

\* All have succeeded, or one has not: then a guarded one stops what comes behind.
EndSequence ==
    /\ GoesOn(Sequential)
    /\ LET of == status[Child(memo[Current])]
           behind == {Child(i) : i \in (memo[Current] + 1)..Len(Children(Current))}
       IN  /\ of # "SUCCESS" \/ memo[Current] = Len(Children(Current))
           /\ Return(of, IF of = "SUCCESS" \/ HasMemory THEN {} ELSE behind)
    /\ UNCHANGED kept

\* memo is the child that was ticked last; a parallel does not tick again what has succeeded.
Skips(i) == Kind(Current) = "parallel" /\ status[Child(i)] = "SUCCESS"

StartParallel ==
    /\ Starts(Concurrent)
    /\ StopsChildren
    /\ Keep(0)
    /\ started' = TRUE
    /\ UNCHANGED <<inputs, previous, emitted, path, ticked>>

NextInParallel ==
    /\ GoesOn(Concurrent)
    /\ \E i \in DOMAIN Children(Current) :
           /\ i > memo[Current] /\ ~Skips(i)
           /\ \A j \in (memo[Current] + 1)..(i - 1) : Skips(j)
           /\ Keep(i) /\ Descend(Child(i))
    /\ UNCHANGED status

\* What a parallel or a one_of makes of its children: a failure comes first.
Verdict ==
    LET of == {status[c] : c \in Kids(Current)}
    IN  IF "FAILURE" \in of THEN "FAILURE"
        ELSE IF of = {"SUCCESS"} \/ (Kind(Current) = "one_of" /\ "SUCCESS" \in of) THEN "SUCCESS"
        ELSE "RUNNING"

\* A one_of that leaves the losers to themselves.
AbandonedOnFailure == {c \in Kids(Current) : Verdict = "FAILURE" /\ status[c] = "RUNNING"}

\* The end of a Parallel stops the children that still run.
Abandoned == {c \in Kids(Current) : Verdict # "RUNNING" /\ status[c] = "RUNNING"}

EndParallel ==
    /\ GoesOn(Concurrent)
    /\ \A i \in (memo[Current] + 1)..Len(Children(Current)) : Skips(i)
    /\ Return(Verdict, Abandoned)
    /\ Keep(0)
    /\ UNCHANGED <<previous, emitted>>
-----------------------------------------------------------------------------
(* Modifiers                                                               *)

This == Modifier(Current[1], Current[2])
Of == status[Child(1)]

\* What a modifier remembers when it starts: a timeout its end, the others how often they counted.
StartModifier ==
    /\ Starts(Modifiers)
    /\ Keep(IF ~Fresh THEN memo[Current] ELSE IF Kind(Current) = "timeout" THEN now + This.duration ELSE 0)
    /\ Descend(Child(1))
    /\ UNCHANGED status

Expired == Kind(Current) = "timeout" /\ now > memo[Current]
Expire ==
    /\ GoesOn({"timeout"}) /\ Expired
    /\ Return("FAILURE", {Child(1)})
    /\ UNCHANGED kept

\* retry counts failures and repeat successes (0: no bound).
Counts == (Kind(Current) = "retry" /\ Of = "FAILURE") \/ (Kind(Current) = "repeat" /\ Of = "SUCCESS")
Again ==
    /\ GoesOn({"retry", "repeat"}) /\ Counts
    /\ \/ This.count = 0 /\ UNCHANGED memo
       \/ memo[Current] + 1 < This.count /\ Keep(memo[Current] + 1)
    /\ Return("RUNNING", {})
    /\ UNCHANGED <<previous, emitted>>
Enough ==
    /\ GoesOn({"retry", "repeat"}) /\ Counts
    /\ This.count # 0 /\ memo[Current] + 1 >= This.count
    /\ Keep(memo[Current] + 1)
    /\ Return(Of, {})
    /\ UNCHANGED <<previous, emitted>>

\* failure_is_success and its like: a child that is RUNNING when its end is claimed is stopped.
Maps == Kind(Current) = "is" /\ Of = This.from
MapStatus ==
    /\ GoesOn({"is"}) /\ Maps
    /\ Return(This.to, IF This.to # "RUNNING" /\ Of = "RUNNING" THEN {Child(1)} ELSE {})
    /\ UNCHANGED kept

Inverts == Kind(Current) = "inverter" /\ Of # "RUNNING"
Invert ==
    /\ GoesOn({"inverter"}) /\ Inverts
    /\ Return(IF Of = "SUCCESS" THEN "FAILURE" ELSE "SUCCESS", {})
    /\ UNCHANGED kept

PassOn ==
    /\ GoesOn(Modifiers) /\ ~Expired /\ ~Counts /\ ~Maps /\ ~Inverts
    /\ Return(Of, {})
    /\ UNCHANGED kept
-----------------------------------------------------------------------------
(* The runner                                                              *)

\* What the variable may be at a tick; without a condition nothing reads it.
Reads == {s \in Scenarios : \E n \in Nodes : Outermost(s) \in above[n] /\ Kind(n) \in {"condition", "rise"}}
Readings == IF scenario \in Reads THEN Levels ELSE {level}

\* The runner ends the scenario on a final status of the root or an emitted end or fail.
Over == status[Root] \in {"SUCCESS", "FAILURE"} \/ emitted \cap {"end", "fail"} # {}

\* The tree is ticked again, some time after the last tick.
TickTree(delay, seen) ==
    /\ path = <<>> /\ ~Over
    /\ now' = IF now + delay > MaxNow THEN MaxNow ELSE now + delay
    /\ level' = seen
    /\ since' = IF seen = level THEN since ELSE now'
    /\ path' = <<Root>> /\ ticked' = {} /\ before' = emitted
    /\ UNCHANGED <<scenario, status, kept, started>>

TickLeaf == WaitForEvent \/ Emit \/ WaitForCondition \/ WaitForRise \/ WaitElapsed \/ Act
TickComposition ==
    \/ StartSequence \/ NextInSequence \/ EndSequence
    \/ StartParallel \/ NextInParallel \/ EndParallel
TickModifier == StartModifier \/ Expire \/ Again \/ Enough \/ MapStatus \/ Invert \/ PassOn

Next ==
    \/ \E delay \in 1..MaxStep, seen \in Readings : TickTree(delay, seen)
    \/ TickLeaf \/ TickComposition \/ TickModifier

Spec == Init /\ [][Next]_vars
-----------------------------------------------------------------------------
(* Properties, of the tree between two ticks                               *)

\* Nothing runs in a branch that has ended: a loser of a one_of, the target of
\* an until, a branch a timeout gave up on is stopped in the tick that ends it,
\* with everything below it (terminate(), base_action.py:80-90).
NothingLeftRunning ==
    path = <<>> => \A n \in Nodes : \A c \in Kids(n) : status[c] = "RUNNING" => status[n] = "RUNNING"

\* until ends the whole invocation, its modifiers included: when the event was
\* set before the tick, nothing of it runs after (openscenarioDSL.rst:297).
UntilEnds ==
    path = <<>> =>
        \A e \in DOMAIN Elements :
            (\E i \in DOMAIN Elements[e].untils :
                 LET u == Elements[Elements[e].untils[i]] IN u.op = "event" /\ u.arg \in before)
            => \A layer \in 1..Innermost(e) : status[<<e, layer>>] # "RUNNING"

\* Modifiers that end when what is inside ends.
EndsWithChild(m) == m.kind \in {"timeout", "inverter"} \/ (m.kind = "is" /\ m.to # "RUNNING")

\* A timeout around the scenario ends it on the first tick past its duration,
\* whatever retries, repeats or waits without a bound of its own are written
\* after it (libraries.rst:493-497); the clock starts with the first tick.
TimeoutEnds ==
    path = <<>> /\ ~Over =>
        LET written == Elements[scenario].modifiers
        IN  \A k \in DOMAIN written :
                written[k].kind = "timeout" /\ (\A j \in 1..(k - 1) : EndsWithChild(written[j]))
                    => now <= MaxStep + written[k].duration

\* The documented pattern for a condition that lasts: attempts, each of which ends with a race between
\* a timer and a watch that fails when the condition breaks.
Plain(e) == Elements[e].modifiers = <<>> /\ Elements[e].untils = <<>>
SuccessIsFailure(m) == m.kind = "is" /\ m.from = "SUCCESS" /\ m.to = "FAILURE"
EndsWith(e, last) ==
    /\ Elements[e].op = "serial" /\ Elements[e].untils = <<>>
    /\ \A k \in DOMAIN Elements[e].modifiers : Elements[e].modifiers[k].kind \in {"timeout", "retry"}
    /\ Elements[e].members[Len(Elements[e].members)] = last
TimerOf(race) == Elements[race].members[1]
WatchOf(race) == Elements[race].members[2]
BreakOf(race) == Elements[WatchOf(race)].members[1]
IsRace(e) ==
    /\ Elements[e].op = "one_of" /\ Plain(e) /\ Len(Elements[e].members) = 2
    /\ Elements[TimerOf(e)].op = "elapsed" /\ Plain(TimerOf(e))
    /\ Elements[WatchOf(e)].op = "serial" /\ Len(Elements[WatchOf(e)].members) = 1
    /\ Elements[WatchOf(e)].untils = <<>> /\ Len(Elements[WatchOf(e)].modifiers) = 1
    /\ SuccessIsFailure(Elements[WatchOf(e)].modifiers[1])
    /\ Elements[BreakOf(e)].op = "condition" /\ Plain(BreakOf(e)) /\ Elements[BreakOf(e)].arg \in {"low", "high"}

Unbroken(race) == level \notin {"odd", Elements[BreakOf(race)].arg}
Lasted(race) == Unbroken(race) /\ now - since >= Elements[TimerOf(race)].arg

\* Such a scenario succeeds only if the condition held on every tick of the whole duration; a break
\* and the end of the time on one tick count as a break (openscenarioDSL.rst:234-276).
HeldForDuration ==
    path = <<>> /\ status[Root] = "SUCCESS" =>
        \A attempt, race \in DOMAIN Elements :
            EndsWith(scenario, attempt) /\ EndsWith(attempt, race) /\ IsRace(race) => Lasted(race)
=============================================================================
