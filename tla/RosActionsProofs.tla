--------------------------- MODULE RosActionsProofs ---------------------------
(***************************************************************************)
(* Proofs about RosBagRecord and RosServiceCall, for any number of          *)
(* executions, and about MCRosActions, in which a behaviour is one of       *)
(* either: type correctness, that a recording that was started once ends    *)
(* with a closed or a reported bag, or with none, and that a service_call   *)
(* that was started once ends as the reply says.                            *)
(***************************************************************************)
EXTENDS MCRosActions, TLAPS
-----------------------------------------------------------------------------
(* bag_record: the inductive invariant                                     *)

\* Before the first tick: nothing is recorded, and only the directory without a suffix may exist.
Untouched ==
    runs = 0 =>
        /\ ~executed /\ status = "INVALID" /\ current_state = "WAITING_FOR_TOPICS"
        /\ process = "none" /\ ~made /\ ~subscribed /\ ~recorded /\ bag_dir = 0
        /\ bags[1] # "none" => ~timestamp_suffix

\* The first execution: how far the recorder and the action are, and that the action has not come
\* to FAILURE, in which shutdown() would leave the recorder alone.
FirstState ==
    runs = 1 =>
        /\ executed /\ bag_dir = 1
        /\ current_state # "FAILURE"
        /\ recorded <=> current_state = "RECORDING"
        /\ status = "RUNNING" => ~recorded
        /\ recorded => subscribed
        /\ subscribed => made
        /\ made => process # "none"
        /\ process # "none" => written = 1

\* What is in its directory.
FirstBag ==
    runs = 1 =>
        /\ ~made => bags[1] = "none"
        /\ made /\ process = "running" => bags[1] = "open"
        /\ recorded => bags[1] \in {"open", "closed"}

\* No shutdown() while the tree is ticked, and no late tick that the latest shutdown() did not find.
TreeFirst ==
    /\ phase = "tree" => shutdowns = 0 /\ ~lateTick /\ ~outlived
    /\ lateTick => outlived

\* After a shutdown() that no tick outlives nothing changes any more.
Over ==
    phase \in {"stopped", "ended"} /\ ~outlived =>
        (runs = 1 => /\ process # "running"
                     /\ IF recorded THEN bags[1] = "closed" \/ reported ELSE bags[1] = "none")

BagInv == TypeOK /\ Untouched /\ FirstState /\ FirstBag /\ TreeFirst /\ Over
-----------------------------------------------------------------------------
LEMMA OneIsADir == 1 \in Dirs
BY BagRecordAssumption DEF Dirs

LEMMA BagInitInv == Init => BagInv
<1> SUFFICES ASSUME Init PROVE BagInv
  OBVIOUS
<1>1. TypeOK
  <2>1. bags \in [Dirs -> {"none", "open", "closed"}]
    BY DEF Init
  <2>2. runs \in 0..MaxRuns /\ {bag_dir, written} \subseteq Dirs \cup {0}
    BY BagRecordAssumption DEF Init
  <2>3. shutdowns \in 0..MaxShutdowns /\ phase = "tree" /\ timestamp_suffix \in BOOLEAN
    BY DEF Init, MaxShutdowns
  <2>4. {executed, made, subscribed, cancel_requested, interrupted, killed, recorded, reported,
         lateTick, outlived} \subseteq BOOLEAN
    BY DEF Init
  <2>5. /\ status = "INVALID" /\ current_state = "WAITING_FOR_TOPICS" /\ process = "none"
    BY DEF Init
  <2> QED
    BY <2>1, <2>2, <2>3, <2>4, <2>5 DEF TypeOK
<1>2. Untouched
  BY OneIsADir DEF Init, Untouched
<1>3. FirstState /\ FirstBag /\ TreeFirst /\ Over
  BY DEF Init, FirstState, FirstBag, TreeFirst, Over
<1> QED
  BY <1>1, <1>2, <1>3 DEF BagInv

\* The end of a shutdown() that found, or made, the recorder dead.
LEMMA ShutdownDoneStep ==
    ASSUME BagInv, process # "running", ShutdownDone, shutdowns' \in 0..MaxShutdowns,
           lateTick' \in BOOLEAN, outlived' \in BOOLEAN, (lateTick => outlived)',
           UNCHANGED <<timestamp_suffix, runs, status, current_state, executed, recorder, bag_dir,
                       cancel_requested, recorded, killed>>,
           interrupted' \in BOOLEAN
    PROVE  BagInv'
<1>0. TypeOK /\ Untouched /\ FirstState /\ FirstBag /\ 1 \in Dirs
  BY OneIsADir DEF BagInv
<1>1. TypeOK'
  BY <1>0 DEF TypeOK, ShutdownDone, report_unclosed_bag, RemovesIncompleteBag, recorder
<1>2. Untouched' /\ FirstState' /\ TreeFirst'
  BY <1>0 DEF TypeOK, Untouched, FirstState, TreeFirst, ShutdownDone, RemovesIncompleteBag,
              BagExists, recorder
<1>3. FirstBag' /\ Over'
  BY <1>0 DEF TypeOK, FirstState, FirstBag, Over, ShutdownDone, report_unclosed_bag,
              RemovesIncompleteBag, BagExists, recorder
<1> QED
  BY <1>1, <1>2, <1>3 DEF BagInv

\* No step leaves the invariant: one step per action.
LEMMA BagStepInv == ASSUME BagInv, [Next]_vars PROVE BagInv'
<1> USE DEF recorder, signals, late, vars
<1>0. TypeOK /\ Untouched /\ FirstState /\ FirstBag /\ TreeFirst /\ Over /\ 1 \in Dirs
  BY OneIsADir DEF BagInv
<1>1. CASE Start
  <2>1. runs \in 0..MaxRuns /\ MaxRuns \in Nat \ {0} /\ Ticks
    BY <1>0, <1>1, BagRecordAssumption DEF TypeOK, Start
  <2>2. /\ runs' \in 0..MaxRuns /\ bag_dir' \in Dirs \cup {0}
        /\ bags' \in [Dirs -> {"none", "open", "closed"}]
    BY <1>0, <1>1, <2>1 DEF TypeOK, Start, execute, Dirs
  <2>3. TypeOK'
    BY <1>0, <1>1, <2>2 DEF TypeOK, Start, _apply_cancel
  <2>4. Untouched' /\ TreeFirst' /\ Over'
    BY <1>0, <1>1, <2>1 DEF Untouched, FirstState, TreeFirst, Over, Start, execute, Restarts, Ticks
  <2>5. FirstState'
    BY <1>0, <1>1, <2>1 DEF TypeOK, Untouched, FirstState, Start, execute, Restarts
  <2>6. FirstBag'
    BY <1>0, <1>1, <2>1 DEF TypeOK, Untouched, FirstState, FirstBag, Start, execute, Restarts
  <2> QED
    BY <2>3, <2>4, <2>5, <2>6 DEF BagInv
<1>2. CASE Monitor
  <2>1. runs \in 0..MaxRuns /\ MaxRuns \in Nat \ {0} /\ Ticks /\ executed
    BY <1>0, <1>2, BagRecordAssumption DEF TypeOK, Monitor
  <2>2. /\ runs' \in 0..MaxRuns /\ bag_dir' \in Dirs \cup {0}
        /\ bags' \in [Dirs -> {"none", "open", "closed"}]
    BY <1>0, <1>2, <2>1 DEF TypeOK, Monitor, execute, Dirs
  <2>3. TypeOK'
    BY <1>0, <1>2, <2>2 DEF TypeOK, Monitor, _apply_cancel, check_running_process, on_process_finished
  <2>4. /\ runs # 0 /\ runs' # 0
        /\ runs' = 1 => /\ runs = 1 /\ status = "RUNNING"
                        /\ UNCHANGED <<bag_dir, bags>>
    BY <1>0, <1>2, <2>1 DEF Untouched, Monitor, execute, Restarts
  <2>5. Untouched' /\ TreeFirst' /\ Over'
    BY <1>0, <1>2, <2>1, <2>4 DEF Untouched, TreeFirst, Over, Monitor, Ticks
  <2>6. FirstState' /\ FirstBag'
    BY <1>0, <1>2, <2>4 DEF TypeOK, FirstState, FirstBag, Monitor, check_running_process,
        on_process_finished
  <2> QED
    BY <2>3, <2>5, <2>6 DEF BagInv
<1>3. CASE Invalidate
  <2>1. TypeOK'
    BY <1>0, <1>3 DEF TypeOK, Invalidate, _apply_cancel
  <2>2. Untouched' /\ FirstState' /\ FirstBag' /\ TreeFirst' /\ Over'
    BY <1>0, <1>3 DEF Untouched, FirstState, FirstBag, TreeFirst, Over, Invalidate
  <2> QED
    BY <2>1, <2>2 DEF BagInv
<1>4. CASE shutdown
  <2>0. shutdowns' \in 0..MaxShutdowns
    BY <1>0, <1>4 DEF TypeOK, TreeFirst, shutdown, MaxShutdowns
  <2>1. /\ shutdowns' \in 0..MaxShutdowns /\ interrupted' \in BOOLEAN
        /\ lateTick' \in BOOLEAN /\ outlived' = lateTick'
    BY <1>0, <1>4, <2>0 DEF TypeOK, shutdown
  <2>2. CASE current_state # "FAILURE" /\ process = "running"
    <3>1. TypeOK'
      BY <1>0, <1>4, <2>1, <2>2 DEF TypeOK, shutdown
    <3>2. Untouched' /\ FirstState' /\ FirstBag' /\ TreeFirst' /\ Over'
      BY <1>0, <1>4, <2>2 DEF Untouched, FirstState, FirstBag, TreeFirst, Over, shutdown
    <3> QED
      BY <3>1, <3>2 DEF BagInv
  <2>3. CASE ~(current_state # "FAILURE" /\ process = "running") /\ process # "running"
    BY <1>4, <2>1, <2>3, ShutdownDoneStep DEF shutdown
  <2>4. CASE current_state = "FAILURE" /\ process = "running"
    <3>1. ShutdownDone /\ runs # 0 /\ runs # 1 /\ UNCHANGED runs /\ UNCHANGED bags
      BY <1>0, <1>4, <2>4 DEF Untouched, FirstState, shutdown, ShutdownDone, RemovesIncompleteBag
    <3>2. TypeOK'
      BY <1>0, <1>4, <2>1, <2>4, <3>1 DEF TypeOK, shutdown, ShutdownDone, report_unclosed_bag
    <3>3. Untouched' /\ FirstState' /\ FirstBag' /\ TreeFirst' /\ Over'
      BY <2>1, <3>1 DEF Untouched, FirstState, FirstBag, TreeFirst, Over, ShutdownDone
    <3> QED
      BY <3>2, <3>3 DEF BagInv
  <2> QED
    BY <2>2, <2>3, <2>4
<1>5. CASE ShutdownKills
  BY <1>0, <1>5 DEF BagInv, TypeOK, Untouched, FirstState, FirstBag, TreeFirst, Over, ShutdownKills
<1>6. CASE ShutdownReaps
  <2>1. /\ shutdowns' \in 0..MaxShutdowns /\ interrupted' \in BOOLEAN
        /\ lateTick' \in BOOLEAN /\ outlived' \in BOOLEAN /\ (lateTick => outlived)'
    BY <1>0, <1>6 DEF TypeOK, TreeFirst, ShutdownReaps
  <2> QED
    BY <1>6, <2>1, ShutdownDoneStep DEF ShutdownReaps
<1>7. CASE ScenarioEnds
  BY <1>0, <1>7 DEF BagInv, TypeOK, Untouched, FirstState, FirstBag, TreeFirst, Over, ScenarioEnds
<1>8. CASE Records
  <2>1. TypeOK'
    BY <1>0, <1>8 DEF TypeOK, Records
  <2>2. Untouched' /\ FirstState' /\ FirstBag' /\ TreeFirst' /\ Over'
    BY <1>0, <1>8 DEF TypeOK, Untouched, FirstState, FirstBag, TreeFirst, Over, Records
  <2> QED
    BY <2>1, <2>2 DEF BagInv
<1>9. CASE Closes
  <2>1. TypeOK'
    BY <1>0, <1>9 DEF TypeOK, Closes
  <2>2. Untouched' /\ FirstState' /\ FirstBag' /\ TreeFirst' /\ Over'
    BY <1>0, <1>9 DEF TypeOK, Untouched, FirstState, FirstBag, TreeFirst, Over, Closes
  <2> QED
    BY <2>1, <2>2 DEF BagInv
<1>10. CASE Dies
  BY <1>0, <1>10 DEF BagInv, TypeOK, Untouched, FirstState, FirstBag, TreeFirst, Over, Dies
<1>11. CASE LateTickEnds
  BY <1>0, <1>11 DEF BagInv, TypeOK, Untouched, FirstState, FirstBag, TreeFirst, Over, LateTickEnds
<1>12. CASE UNCHANGED vars
  BY <1>0, <1>12 DEF BagInv, TypeOK, Untouched, FirstState, FirstBag, TreeFirst, Over
<1> QED
  BY <1>1, <1>2, <1>3, <1>4, <1>5, <1>6, <1>7, <1>8, <1>9, <1>10, <1>11, <1>12 DEF Next
-----------------------------------------------------------------------------
(* bag_record: the theorems                                                *)

\* The strengthening that carries the theorems below.
THEOREM BagRecordInvariant == Spec => []BagInv
<1>1. BagInv /\ [Next]_vars => BagInv'
  BY BagStepInv
<1> QED
  BY BagInitInv, <1>1, PTL DEF Spec

\* Every reachable state of a bag_record is well-typed.
THEOREM BagRecordTyping == Spec => []TypeOK
<1>1. BagInv => TypeOK
  BY DEF BagInv
<1> QED
  BY BagRecordInvariant, <1>1, PTL

\* A scenario leaves a recording that was started once as a bag that is closed or was reported, or
\* not at all, and no recorder.
THEOREM RecordingEndsWithItsBag == Spec => []EndsWithItsBag
<1>1. BagInv => EndsWithItsBag
  BY DEF BagInv, FirstState, Over, EndsWithItsBag
<1> QED
  BY BagRecordInvariant, <1>1, PTL
-----------------------------------------------------------------------------
(* service_call: the inductive invariant                                   *)

\* No request was sent after the one of self.future.
Requested == \A c \in S!Calls : c > future => futures[c] = "none"

\* Before the first tick.
Unrequested == runs = 0 => pc = "out" /\ status = "INVALID" /\ current_state = "IDLE"

\* The first execution, before its request is out ...
Sending ==
    runs = 1 /\ future = 0 =>
        /\ status = "INVALID"
        /\ \/ pc = "update" /\ current_state = "IDLE"
           \/ pc \in {"cancel", "send"} /\ current_state = "SERVICE_CALLED"

\* ... and after: the state is what its one callback makes of it.
Waiting ==
    runs = 1 /\ future = 1 =>
        /\ pc \in {"out", "update", "sent"}
        /\ futures[1] \in {"pending", "done", "checked", "called"}
        /\ current_state = IF futures[1] = "called" THEN S!NewState("SERVICE_CALLED", accepted[1])
                           ELSE "SERVICE_CALLED"
        /\ status \in {"SUCCESS", "FAILURE"} =>
               futures[1] = "called" /\ (status = "SUCCESS" <=> accepted[1])

CallInv == S!TypeOK /\ Requested /\ Unrequested /\ Sending /\ Waiting
-----------------------------------------------------------------------------
LEMMA CallInitInv == ASSUME MaxCalls \in Nat, S!Init PROVE CallInv
BY DEF S!Init, CallInv, S!TypeOK, Requested, Unrequested, Sending, Waiting, S!Calls

\* No step leaves the invariant: one step per action.
LEMMA CallStepInv == ASSUME MaxCalls \in Nat, CallInv, [S!Next]_(S!vars) PROVE CallInv'
<1> USE DEF S!Calls, S!tick, S!vars
<1>0. S!TypeOK /\ Requested /\ Unrequested /\ Sending /\ Waiting
  BY DEF CallInv
<1>1. CASE S!execute
  <2>1. S!TypeOK'
    BY <1>0, <1>1 DEF S!TypeOK, S!execute
  <2>2. Requested'
    BY <1>0, <1>1 DEF S!TypeOK, Requested, S!execute
  <2>3. Unrequested' /\ Sending' /\ Waiting'
    BY <1>0, <1>1 DEF S!TypeOK, Unrequested, Sending, Waiting, S!execute
  <2> QED
    BY <2>1, <2>2, <2>3 DEF CallInv
<1>2. CASE S!TickAgain
  <2>1. S!TypeOK' /\ Requested' /\ Unrequested'
    BY <1>0, <1>2 DEF S!TypeOK, Requested, Unrequested, S!TickAgain
  <2>2. Sending' /\ Waiting'
    BY <1>0, <1>2 DEF S!TypeOK, Sending, Waiting, S!TickAgain, S!NewState
  <2> QED
    BY <2>1, <2>2 DEF CallInv
<1>3. CASE S!update
  <2>1. S!TypeOK' /\ Requested' /\ Unrequested'
    BY <1>0, <1>3 DEF S!TypeOK, Requested, Unrequested, S!update, S!Result
  <2>2. Sending'
    BY <1>0, <1>3 DEF S!TypeOK, Sending, S!update
  <2>3. Waiting'
    BY <1>0, <1>3 DEF S!TypeOK, Waiting, S!update, S!Result, S!NewState
  <2> QED
    BY <2>1, <2>2, <2>3 DEF CallInv
<1>4. CASE S!Cancel
  <2>1. S!TypeOK' /\ Requested' /\ Unrequested'
    BY <1>0, <1>4 DEF S!TypeOK, Requested, Unrequested, S!Cancel, S!NewState
  <2>2. Sending' /\ Waiting'
    BY <1>0, <1>4 DEF S!TypeOK, Sending, Waiting, S!Cancel
  <2> QED
    BY <2>1, <2>2 DEF CallInv
<1>5. CASE S!Send
  <2>1. runs \in S!Calls
    BY <1>0, <1>5 DEF S!TypeOK, Unrequested, S!Send
  <2>2. S!TypeOK' /\ Requested' /\ Unrequested'
    BY <1>0, <1>5, <2>1 DEF S!TypeOK, Requested, Unrequested, S!Send
  <2>3. Sending' /\ Waiting'
    BY <1>0, <1>5, <2>1 DEF S!TypeOK, Sending, Waiting, S!Send
  <2> QED
    BY <2>2, <2>3 DEF CallInv
<1>6. CASE S!Return
  <2>1. S!TypeOK' /\ Requested' /\ Unrequested'
    BY <1>0, <1>6 DEF S!TypeOK, Requested, Unrequested, S!Return
  <2>2. Sending' /\ Waiting'
    BY <1>0, <1>6 DEF S!TypeOK, Sending, Waiting, S!Return
  <2> QED
    BY <2>1, <2>2 DEF CallInv
<1>7. CASE S!Invalidate
  <2>1. S!TypeOK' /\ Requested' /\ Unrequested'
    BY <1>0, <1>7 DEF S!TypeOK, Requested, Unrequested, S!Invalidate
  <2>2. Sending' /\ Waiting'
    BY <1>0, <1>7 DEF S!TypeOK, Sending, Waiting, S!Invalidate
  <2> QED
    BY <2>1, <2>2 DEF CallInv
<1>8. ASSUME NEW c \in S!Calls, S!Answer(c)
      PROVE  CallInv'
  <2>1. S!TypeOK' /\ Requested' /\ Unrequested'
    BY <1>0, <1>8 DEF S!TypeOK, Requested, Unrequested, S!Answer
  <2>2. Sending' /\ Waiting'
    BY <1>0, <1>8 DEF S!TypeOK, Sending, Waiting, S!Answer
  <2> QED
    BY <2>1, <2>2 DEF CallInv
<1>9. ASSUME NEW c \in S!Calls, S!Callback(c)
      PROVE  CallInv'
  <2>1. CASE S!CallbackTests(c)
    <3>1. S!TypeOK' /\ Requested' /\ Unrequested'
      BY <1>0, <2>1 DEF S!TypeOK, Requested, Unrequested, S!CallbackTests
    <3>2. Sending' /\ Waiting'
      BY <1>0, <2>1 DEF S!TypeOK, Requested, Sending, Waiting, S!CallbackTests
    <3> QED
      BY <3>1, <3>2 DEF CallInv
  <2>2. CASE S!CallbackAssigns(c)
    <3>1. S!TypeOK' /\ Requested' /\ Unrequested'
      BY <1>0, <2>2 DEF S!TypeOK, Requested, Unrequested, S!CallbackAssigns, S!NewState
    <3>2. Sending' /\ Waiting'
      BY <1>0, <2>2 DEF S!TypeOK, Requested, Sending, Waiting, S!CallbackAssigns, S!NewState
    <3> QED
      BY <3>1, <3>2 DEF CallInv
  <2> QED
    BY <1>9, <2>1, <2>2 DEF S!Callback
<1>10. CASE UNCHANGED S!vars
  BY <1>0, <1>10 DEF CallInv, S!TypeOK, Requested, Unrequested, Sending, Waiting
<1> QED
  BY <1>1, <1>2, <1>3, <1>4, <1>5, <1>6, <1>7, <1>8, <1>9, <1>10 DEF S!Next, S!Tick
-----------------------------------------------------------------------------
(* service_call: the theorems                                              *)

\* The strengthening that carries the theorems below.
THEOREM ServiceCallInvariant == ASSUME MaxCalls \in Nat PROVE S!Spec => []CallInv
<1>1. S!Init => CallInv
  BY CallInitInv
<1>2. CallInv /\ [S!Next]_(S!vars) => CallInv'
  BY CallStepInv
<1> QED
  BY <1>1, <1>2, PTL DEF S!Spec

\* Every reachable state of a service_call is well-typed.
THEOREM ServiceCallTyping == ASSUME MaxCalls \in Nat PROVE S!Spec => []S!TypeOK
<1>1. CallInv => S!TypeOK
  BY DEF CallInv
<1> QED
  BY ServiceCallInvariant, <1>1, PTL

\* A service_call that was started once ends as its reply says, and not before the reply.
THEOREM FirstReplyDecides == ASSUME MaxCalls \in Nat PROVE S!Spec => []S!FirstCallDecides
<1>1. CallInv => S!FirstCallDecides
  BY DEF CallInv, S!TypeOK, Sending, Waiting, S!FirstCallDecides
<1> QED
  BY ServiceCallInvariant, <1>1, PTL
-----------------------------------------------------------------------------
(* The actions together                                                    *)

ActionInv ==
    /\ action \in {"bag_record", "service_call"}
    /\ action = "bag_record" => BagInv
    /\ action = "service_call" => CallInv /\ phase = "tree"

\* One of the two actions is chosen, and no step changes to the other.
LEMMA ActionsInvariant == ASSUME MaxCalls \in Nat PROVE MCSpec => []ActionInv
<1>1. BagInit \/ CallInit => ActionInv
  BY BagInitInv, CallInitInv DEF BagInit, CallInit, ActionInv
<1>2. ASSUME ActionInv, [MCNext]_all
      PROVE  ActionInv'
  <2>1. CASE action = "bag_record" /\ Next /\ UNCHANGED <<action, ownOfCall>>
    BY <1>2, <2>1, BagStepInv DEF ActionInv
  <2>2. CASE CallStep(S!Next)
    BY <1>2, <2>2, CallStepInv DEF ActionInv, CallStep, own
  <2>3. CASE UNCHANGED all
    <3>1. UNCHANGED <<action, phase>> /\ UNCHANGED vars /\ UNCHANGED S!vars
      BY <2>3 DEF all, vars, recorder, signals, late, ownOfCall, S!vars, S!tick
    <3> QED
      BY <1>2, <3>1, BagStepInv, CallStepInv DEF ActionInv
  <2> QED
    BY <1>2, <2>1, <2>2, <2>3 DEF MCNext
<1> QED
  BY <1>1, <1>2, PTL DEF MCSpec

\* The state that both actions share is well-typed for the one that is chosen.
THEOREM RosActionsTyping == ASSUME MaxCalls \in Nat PROVE MCSpec => []Types
<1>1. ActionInv => Types
  BY DEF ActionInv, BagInv, CallInv, Types
<1> QED
  BY ActionsInvariant, <1>1, PTL

\* Of the composition: a scenario leaves a recording that was started once as a bag that is closed or
\* was reported, or not at all, and no recorder.
THEOREM RecordingEnds == ASSUME MaxCalls \in Nat PROVE MCSpec => []EndsWithItsBag
<1>1. BagInv => EndsWithItsBag
  BY DEF BagInv, FirstState, Over, EndsWithItsBag
<1>2. ActionInv => EndsWithItsBag
  BY <1>1 DEF ActionInv, EndsWithItsBag
<1> QED
  BY ActionsInvariant, <1>2, PTL

\* Of the composition: a service_call that was started once ends as its reply says, and not before.
THEOREM ReplyDecides == ASSUME MaxCalls \in Nat PROVE MCSpec => []FirstCallDecides
<1>1. CallInv => S!FirstCallDecides
  BY DEF CallInv, S!TypeOK, Sending, Waiting, S!FirstCallDecides
<1>2. ActionInv => FirstCallDecides
  BY <1>1 DEF ActionInv, FirstCallDecides
<1> QED
  BY ActionsInvariant, <1>2, PTL
=============================================================================
