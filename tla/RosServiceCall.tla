---------------------------- MODULE RosServiceCall ----------------------------
(***************************************************************************)
(* The service_call action and its subclasses (set_node_parameter and the   *)
(* actions of scenario_execution_sim).  The tree's thread ticks it while    *)
(* the done callbacks of its futures run on other threads of the executor:  *)
(* the steps of both interleave between any two accesses to current_state.  *)
(***************************************************************************)
EXTENDS Naturals

CONSTANT MaxCalls       \* bound on the executions, and so on the requests, of one action

VARIABLES
    reads,              \* the action looks into the response: never changes
    pc,                 \* where the tick is: out, update, cancel, send, sent
    status,             \* the py_trees status of the action
    current_state,
    runs,               \* calls of execute() so far
    future,             \* the request self.future stands for, or 0
    futures,            \* what became of every request's future
    accepted            \* the reply is one that check_response() accepts

tick == <<pc, status, runs>>
vars == <<reads, tick, current_state, future, futures, accepted>>
-----------------------------------------------------------------------------
Calls == 1..MaxCalls

TypeOK ==
    /\ reads \in BOOLEAN
    /\ pc \in {"out", "update", "cancel", "send", "sent"}
    /\ status \in {"INVALID", "RUNNING", "SUCCESS", "FAILURE"}
    /\ current_state \in {"IDLE", "SERVICE_CALLED", "DONE", "ERROR"}
    /\ runs \in 0..MaxCalls
    /\ future \in 0..runs
    /\ futures \in [Calls -> {"none", "pending", "cancelled", "done", "checked", "called"}]
    /\ accepted \in [Calls -> BOOLEAN]

Init ==
    /\ reads \in BOOLEAN
    /\ pc = "out" /\ status = "INVALID" /\ current_state = "IDLE"
    /\ runs = 0 /\ future = 0
    /\ futures = [c \in Calls |-> "none"]
    /\ accepted = [c \in Calls |-> FALSE]
-----------------------------------------------------------------------------
(* The tick                                                                *)

\* initialise() calls execute() unless the action is RUNNING.
execute ==
    /\ pc = "out" /\ status # "RUNNING" /\ runs < MaxCalls
    /\ runs' = runs + 1
    /\ current_state' = "IDLE"
    /\ pc' = "update"
    /\ UNCHANGED <<reads, status, future, futures, accepted>>

TickAgain ==
    /\ pc = "out" /\ status = "RUNNING"
    /\ pc' = "update"
    /\ UNCHANGED <<reads, status, runs, current_state, future, futures, accepted>>

ResultUnmapped(state) == IF state = "DONE" THEN "SUCCESS" ELSE state
Result(state) ==
    CASE state = "SERVICE_CALLED" -> "RUNNING" [] state = "DONE" -> "SUCCESS" [] OTHER -> "FAILURE"

update ==
    /\ pc = "update"
    /\ IF current_state = "IDLE"
       THEN /\ current_state' = "SERVICE_CALLED" /\ pc' = "cancel"
            /\ UNCHANGED status
       ELSE /\ status' = Result(current_state) /\ pc' = "out"
            /\ UNCHANGED current_state
    /\ UNCHANGED <<reads, runs, future, futures, accepted>>

\* What done_callback() makes of a future whose result check_response() takes or not.
NewStateUnread(state, ok) == IF state = "SERVICE_CALLED" THEN "DONE" ELSE "ERROR"
NewState(state, ok) == IF state = "SERVICE_CALLED" /\ ok THEN "DONE" ELSE "ERROR"

\* future.cancel(): a reply that is not there yet is given up, and the callback runs at once, with
\* the result None: looking into that raises an exception, which rclpy catches.
Cancel ==
    /\ pc = "cancel"
    /\ IF future # 0 /\ futures[future] = "pending"
       THEN /\ futures' = [futures EXCEPT ![future] = "cancelled"]
            /\ current_state' = IF current_state = "SERVICE_CALLED" /\ reads THEN current_state
                                ELSE NewState(current_state, TRUE)
       ELSE UNCHANGED <<futures, current_state>>
    /\ pc' = "send"
    /\ UNCHANGED <<reads, status, runs, future, accepted>>

Send ==
    /\ pc = "send"
    /\ future' = runs
    /\ futures' = [futures EXCEPT ![runs] = "pending"]
    /\ pc' = "sent"
    /\ UNCHANGED <<reads, status, runs, current_state, accepted>>

ReturnMarksCalled ==
    /\ pc = "sent"
    /\ status' = "RUNNING" /\ pc' = "out" /\ current_state' = "SERVICE_CALLED"
    /\ UNCHANGED <<reads, runs, future, futures, accepted>>
Return ==
    /\ pc = "sent"
    /\ status' = "RUNNING" /\ pc' = "out"
    /\ UNCHANGED <<reads, runs, current_state, future, futures, accepted>>

\* The branch is abandoned: terminate(INVALID) leaves the request as it is.
Invalidate ==
    /\ pc = "out" /\ status # "INVALID"
    /\ status' = "INVALID"
    /\ UNCHANGED <<reads, pc, runs, current_state, future, futures, accepted>>
-----------------------------------------------------------------------------
(* The service and the callbacks                                           *)

\* The reply: an action that does not look into it accepts every one.
Answer(c) ==
    /\ futures[c] = "pending"
    /\ futures' = [futures EXCEPT ![c] = "done"]
    /\ \E ok \in BOOLEAN :
           /\ reads \/ ok
           /\ accepted' = [accepted EXCEPT ![c] = ok]
    /\ UNCHANGED <<reads, tick, current_state, future>>

\* done_callback() of a reply: the test of current_state, then the assignment.
CallbackTests(c) ==
    /\ futures[c] = "done"
    /\ IF current_state = "SERVICE_CALLED"
       THEN /\ futures' = [futures EXCEPT ![c] = "checked"] /\ UNCHANGED current_state
       ELSE /\ futures' = [futures EXCEPT ![c] = "called"] /\ current_state' = "ERROR"
    /\ UNCHANGED <<reads, tick, future, accepted>>

CallbackAssigns(c) ==
    /\ futures[c] = "checked"
    /\ current_state' = NewState("SERVICE_CALLED", accepted[c])
    /\ futures' = [futures EXCEPT ![c] = "called"]
    /\ UNCHANGED <<reads, tick, future, accepted>>

Tick == execute \/ TickAgain \/ update \/ Cancel \/ Send \/ Return
Callback(c) == CallbackTests(c) \/ CallbackAssigns(c)
Next == Tick \/ Invalidate \/ \E c \in Calls : Answer(c) \/ Callback(c)

\* A running action is ticked again and a tick ends; the executor runs the callbacks of what has
\* arrived.  Nothing is assumed of the service, and nobody has to start the action over.
TickEnds == TickAgain \/ update \/ Cancel \/ Send \/ Return
Fairness ==
    /\ WF_vars(TickEnds)
    /\ \A c \in Calls : WF_vars(Callback(c))

Spec == Init /\ [][Next]_vars
FairSpec == Spec /\ Fairness
-----------------------------------------------------------------------------
(* Properties                                                              *)

\* An action that was started once ends as its reply says, and not before the reply.
FirstCallDecides ==
    runs = 1 /\ pc = "out" /\ status \in {"SUCCESS", "FAILURE"} =>
        futures[1] = "called" /\ (status = "SUCCESS" <=> accepted[1])

\* The reply to the request of this execution ends it, however early it comes and whatever the
\* callbacks of earlier requests do in between: the state is SERVICE_CALLED before the request.
ReplyEndsAction ==
    \A c \in Calls :
        (runs = c /\ futures[c] = "done") ~> (pc = "out" /\ status # "RUNNING") \/ runs # c

\* docs/libraries.rst, service_call(): "Call a ROS service and wait for the reply."
WaitsForReply ==
    pc = "out" /\ status = "SUCCESS" =>
        runs > 0 /\ futures[runs] \in {"done", "checked", "called"}
=============================================================================
