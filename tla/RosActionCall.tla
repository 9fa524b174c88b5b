---------------------------- MODULE RosActionCall ----------------------------
(***************************************************************************)
(* The action_call action: a goal is sent from the tick thread, its        *)
(* response and its result arrive as callbacks of a reentrant group on     *)
(* other threads of the executor, and a cancel may come from the tick      *)
(* (cancel_after), from an abandoned branch or from shutdown() before      *)
(* there is a goal to cancel.  No lock protects what they share.           *)
(***************************************************************************)
EXTENDS Integers

CONSTANTS MaxExecutions     \* bound on how often the tree starts the action over

ASSUME ActionCallAssumption == MaxExecutions \in Nat \ {0}

VARIABLES
    mode,               \* the arguments of the action; never changes
    status,             \* its py_trees status
    executions,         \* calls of execute(); the goal of the k-th is goal k
    state,              \* self.current_state
    goalHandle,         \* self.goal_handle
    cancelRequested,    \* self.cancel_requested
    cancelSent,         \* self.cancel_sent
    cancelDeadline,     \* self.cancel_deadline is set
    thread,             \* where the tick thread is
    ended,              \* shutdown() was called
    response,           \* where goal_response_callback of each goal is
    result,             \* where get_result_callback of each goal is
    server,             \* the action server's view of each goal
    cancels,            \* the goals the server was asked to cancel
    raised              \* an exception left the action

vars == <<mode, status, executions, state, goalHandle, cancelRequested, cancelSent,
          cancelDeadline, thread, ended, response, result, server, cancels, raised>>

cancelVars == <<cancelRequested, cancelSent>>
serverVars == <<server, cancels>>
-----------------------------------------------------------------------------
Goals == 1..MaxExecutions
NoGoal == 0

\* acceptOnly: success_on_acceptance.  cancelAfter: cancel_after >= 0.
\* execute() refuses success_on_acceptance with another expected_status.
Modes == {m \in [acceptOnly: BOOLEAN, cancelAfter: BOOLEAN,
                 expected: {"succeeded", "canceled", "aborted"}] :
              m.acceptOnly => m.expected = "succeeded"}

\* self.current_state
States == {"idle", "serverAvailable", "called", "accepted", "canceling", "done", "error"}

Terminal == {"succeeded", "canceled", "aborted"}

\* The steps of _send_cancel: the check, the assignments, the call.
CancelSteps == {"check", "mark", "send"}

TypeOK ==
    /\ mode \in Modes
    /\ status \in {"INVALID", "RUNNING", "SUCCESS", "FAILURE"}
    /\ executions \in 0..MaxExecutions
    /\ state \in States
    /\ goalHandle \in Goals \cup {NoGoal}
    /\ {cancelRequested, cancelSent, cancelDeadline, ended, raised} \subseteq BOOLEAN
    /\ thread \in [at: {"idle", "dispatch"} \cup CancelSteps, next: {"idle", "dispatch"}]
    /\ response \in [Goals -> {"none", "waiting", "dropped", "handled", "over"} \cup CancelSteps]
    /\ result \in [Goals -> {"none", "waiting", "over"}]
    /\ server \in [Goals -> {"none", "pending", "rejected", "executing"} \cup Terminal]
    /\ cancels \subseteq Goals

Idle == [at |-> "idle", next |-> "idle"]

Init ==
    /\ mode \in Modes
    /\ status = "INVALID"
    /\ executions = 0
    /\ state = "idle"
    /\ goalHandle = NoGoal
    /\ cancelRequested = FALSE
    /\ cancelSent = FALSE
    /\ cancelDeadline = FALSE
    /\ thread = Idle
    /\ ended = FALSE
    /\ response = [g \in Goals |-> "none"]
    /\ result = [g \in Goals |-> "none"]
    /\ server = [g \in Goals |-> "none"]
    /\ cancels = {}
    /\ raised = FALSE
-----------------------------------------------------------------------------
(* _send_cancel, run by the tick thread and by goal_response_callback      *)

CancelDue == cancelRequested /\ ~cancelSent /\ goalHandle # NoGoal

\* Between the check and the call another thread may clear the handle.
Mark == cancelSent' = TRUE /\ state' = "canceling"

Send ==
    /\ cancels' = cancels \cup ({goalHandle} \ {NoGoal})
    /\ raised' = (raised \/ goalHandle = NoGoal)

TickChecksCancel ==
    /\ thread.at = "check"
    /\ thread' = IF CancelDue THEN [thread EXCEPT !.at = "mark"] ELSE [thread EXCEPT !.at = thread.next]
    /\ UNCHANGED <<mode, status, executions, state, goalHandle, cancelVars, cancelDeadline, ended,
                   response, result, serverVars, raised>>

TickMarksCancel ==
    /\ thread.at = "mark"
    /\ Mark
    /\ thread' = [thread EXCEPT !.at = "send"]
    /\ UNCHANGED <<mode, status, executions, goalHandle, cancelRequested, cancelDeadline, ended,
                   response, result, serverVars, raised>>

TickSendsCancel ==
    /\ thread.at = "send"
    /\ Send
    /\ thread' = IF goalHandle = NoGoal THEN Idle ELSE [thread EXCEPT !.at = thread.next]
    /\ UNCHANGED <<mode, status, executions, state, goalHandle, cancelVars, cancelDeadline, ended,
                   response, result, server>>

ResponseChecksCancel(g) ==
    /\ response[g] = "check"
    /\ response' = [response EXCEPT ![g] = IF CancelDue THEN "mark" ELSE "over"]
    /\ UNCHANGED <<mode, status, executions, state, goalHandle, cancelVars, cancelDeadline, thread,
                   ended, result, serverVars, raised>>

ResponseMarksCancel(g) ==
    /\ response[g] = "mark"
    /\ Mark
    /\ response' = [response EXCEPT ![g] = "send"]
    /\ UNCHANGED <<mode, status, executions, goalHandle, cancelRequested, cancelDeadline, thread,
                   ended, result, serverVars, raised>>

ResponseSendsCancel(g) ==
    /\ response[g] = "send"
    /\ Send
    /\ response' = [response EXCEPT ![g] = "over"]
    /\ UNCHANGED <<mode, status, executions, state, goalHandle, cancelVars, cancelDeadline, thread,
                   ended, result, server>>
-----------------------------------------------------------------------------
(* The tick thread                                                         *)

\* execute(), then update() up to its test of cancel_deadline.  goal_handle
\* stays what it was.
Execute ==
    /\ thread = Idle /\ ~ended /\ ~raised
    /\ status # "RUNNING"
    /\ executions < MaxExecutions
    /\ executions' = executions + 1
    /\ cancelRequested' = FALSE
    /\ cancelSent' = FALSE
    /\ cancelDeadline' = FALSE
    /\ state' = "idle"
    /\ thread' = [at |-> "dispatch", next |-> "idle"]
    /\ UNCHANGED <<mode, status, goalHandle, ended, response, result, serverVars, raised>>

\* update() of a running action; the deadline may have passed.
StartUpdate(due) ==
    /\ thread = Idle /\ ~ended /\ ~raised
    /\ status = "RUNNING"
    /\ due => cancelDeadline
    /\ cancelDeadline' = (cancelDeadline /\ ~due)
    /\ cancelRequested' = (cancelRequested \/ due)
    /\ thread' = [at |-> IF due THEN "check" ELSE "dispatch", next |-> IF due THEN "dispatch" ELSE "idle"]
    /\ UNCHANGED <<mode, status, executions, state, goalHandle, cancelSent, ended, response, result,
                   serverVars, raised>>

\* IDLE: wait_for_server(0.0).
WaitForServer(available) ==
    /\ thread.at = "dispatch"
    /\ state = "idle"
    /\ state' = IF available THEN "serverAvailable" ELSE "idle"
    /\ status' = "RUNNING"
    /\ thread' = Idle
    /\ UNCHANGED <<mode, executions, goalHandle, cancelVars, cancelDeadline, ended, response, result,
                   serverVars, raised>>

\* ACTION_SERVER_AVAILABLE: cancelling an unfinished send_goal_future runs its
\* callback, with no result.
SendGoal ==
    /\ thread.at = "dispatch"
    /\ state = "serverAvailable"
    /\ state' = "called"
    /\ response' = [g \in Goals |-> IF g = executions THEN "waiting"
                                    ELSE IF response[g] = "waiting" THEN "dropped"
                                    ELSE response[g]]
    /\ server' = [server EXCEPT ![executions] = "pending"]
    /\ cancelDeadline' = mode.cancelAfter
    /\ status' = "RUNNING"
    /\ thread' = Idle
    /\ UNCHANGED <<mode, executions, goalHandle, cancelVars, ended, result, cancels, raised>>

\* An update() that returns its own state for a py_trees status.
StatusOfState(s) == s

\* The states in which update() only reports.
StatusOf(s) ==
    CASE s = "done" -> "SUCCESS"
      [] s = "error" -> "FAILURE"
      [] s = "accepted" /\ mode.acceptOnly -> "SUCCESS"
      [] OTHER -> "RUNNING"

Report ==
    /\ thread.at = "dispatch"
    /\ state \notin {"idle", "serverAvailable"}
    /\ status' = StatusOf(state)
    /\ thread' = Idle
    /\ UNCHANGED <<mode, executions, state, goalHandle, cancelVars, cancelDeadline, ended, response,
                   result, serverVars, raised>>

\* terminate(INVALID): request_cancel().
Invalidate ==
    /\ thread = Idle /\ ~ended /\ ~raised
    /\ status # "INVALID"
    /\ status' = "INVALID"
    /\ cancelRequested' = TRUE
    /\ thread' = [at |-> "check", next |-> "idle"]
    /\ UNCHANGED <<mode, executions, state, goalHandle, cancelSent, cancelDeadline, ended, response,
                   result, serverVars, raised>>

\* shutdown(), once the ticks are over, of an exception too.
Shutdown ==
    /\ thread = Idle /\ ~ended
    /\ ended' = TRUE
    /\ cancelRequested' = TRUE
    /\ thread' = [at |-> "check", next |-> "idle"]
    /\ UNCHANGED <<mode, status, executions, state, goalHandle, cancelSent, cancelDeadline, response,
                   result, serverVars, raised>>
-----------------------------------------------------------------------------
(* The callbacks                                                           *)

\* goal_response_callback, its first assignment and the rejection.
TakeHandle(g) ==
    /\ response[g] = "waiting"
    /\ server[g] \notin {"none", "pending"}
    /\ goalHandle' = g
    /\ IF server[g] = "rejected"
       THEN state' = "error" /\ response' = [response EXCEPT ![g] = "over"]
       ELSE response' = [response EXCEPT ![g] = "handled"] /\ UNCHANGED state
    /\ UNCHANGED <<mode, status, executions, cancelVars, cancelDeadline, thread, ended, result,
                   serverVars, raised>>

\* future.result() of a cancelled future is None.
TakeNothing(g) ==
    /\ response[g] = "dropped"
    /\ goalHandle' = NoGoal
    /\ raised' = TRUE
    /\ response' = [response EXCEPT ![g] = "over"]
    /\ UNCHANGED <<mode, status, executions, state, cancelVars, cancelDeadline, thread, ended,
                   result, serverVars>>

\* An acceptance that does not look for a cancel that has been waiting.
AcceptWithoutCancel(g) ==
    /\ response[g] = "handled"
    /\ state' = "accepted"
    /\ result' = IF mode.acceptOnly THEN result ELSE [result EXCEPT ![g] = "waiting"]
    /\ response' = [response EXCEPT ![g] = "over"]
    /\ UNCHANGED <<mode, status, executions, goalHandle, cancelVars, cancelDeadline, thread, ended,
                   serverVars, raised>>

\* The rest of it: accepted, the result asked for, then _send_cancel.
Accept(g) ==
    /\ response[g] = "handled"
    /\ state' = "accepted"
    /\ result' = IF mode.acceptOnly THEN result ELSE [result EXCEPT ![g] = "waiting"]
    /\ response' = [response EXCEPT ![g] = "check"]
    /\ UNCHANGED <<mode, status, executions, goalHandle, cancelVars, cancelDeadline, thread, ended,
                   serverVars, raised>>

\* A result that passes whatever the status.
OutcomesAny(g) == {"done"}

\* check_result() of a subclass may refuse the result of a goal that succeeded.
Outcomes(g) ==
    IF server[g] # mode.expected THEN {"error"}
    ELSE IF server[g] = "succeeded" THEN {"done", "error"}
    ELSE {"done"}

\* A callback that ignores the result of a goal being cancelled.
TakeResultIfAccepted(g) ==
    /\ result[g] = "waiting"
    /\ server[g] \in Terminal
    /\ IF state = "accepted"
       THEN goalHandle' = NoGoal /\ state' \in Outcomes(g)
       ELSE UNCHANGED <<goalHandle, state>>
    /\ result' = [result EXCEPT ![g] = "over"]
    /\ UNCHANGED <<mode, status, executions, cancelVars, cancelDeadline, thread, ended, response,
                   serverVars, raised>>

\* get_result_callback.
TakeResult(g) ==
    /\ result[g] = "waiting"
    /\ server[g] \in Terminal
    /\ IF state \in {"accepted", "canceling"}
       THEN goalHandle' = NoGoal /\ state' \in Outcomes(g)
       ELSE state' = "error" /\ UNCHANGED goalHandle
    /\ result' = [result EXCEPT ![g] = "over"]
    /\ UNCHANGED <<mode, status, executions, cancelVars, cancelDeadline, thread, ended, response,
                   serverVars, raised>>
-----------------------------------------------------------------------------
(* The action server                                                       *)

Decide(g, accepted) ==
    /\ server[g] = "pending"
    /\ server' = [server EXCEPT ![g] = IF accepted THEN "executing" ELSE "rejected"]
    /\ UNCHANGED <<mode, status, executions, state, goalHandle, cancelVars, cancelDeadline, thread,
                   ended, response, result, cancels, raised>>

\* It may refuse a cancel, so any outcome but "canceled" is always possible.
Finish(g, outcome) ==
    /\ server[g] = "executing"
    /\ outcome = "canceled" => g \in cancels
    /\ server' = [server EXCEPT ![g] = outcome]
    /\ UNCHANGED <<mode, status, executions, state, goalHandle, cancelVars, cancelDeadline, thread,
                   ended, response, result, cancels, raised>>
-----------------------------------------------------------------------------
Update ==
    \/ Execute
    \/ \E due \in BOOLEAN : StartUpdate(due)
    \/ \E available \in BOOLEAN : WaitForServer(available)
    \/ SendGoal \/ Report
    \/ TickChecksCancel \/ TickMarksCancel \/ TickSendsCancel

Callbacks(g) ==
    \/ TakeHandle(g) \/ TakeNothing(g) \/ Accept(g)
    \/ ResponseChecksCancel(g) \/ ResponseMarksCancel(g) \/ ResponseSendsCancel(g)
    \/ TakeResult(g)

Next ==
    \/ Update
    \/ Invalidate
    \/ Shutdown
    \/ \E g \in Goals :
           \/ Callbacks(g)
           \/ \E accepted \in BOOLEAN : Decide(g, accepted)
           \/ \E outcome \in Terminal : Finish(g, outcome)

\* A running action is ticked and the executor runs the callbacks.  The server
\* owes nothing, and nothing makes the tree abandon the action.
Fairness == WF_vars(Update) /\ \A g \in Goals : WF_vars(Callbacks(g))

Spec == Init /\ [][Next]_vars /\ Fairness
-----------------------------------------------------------------------------
(* Properties                                                              *)

Quiet ==
    /\ thread = Idle
    /\ \A g \in Goals : response[g] \in {"none", "over"}

\* A cancel asked for at any moment, also while the goal is still being
\* accepted on another thread, reaches the server: when no thread is at work the
\* goal of the present execution does not go on without having been asked to
\* stop (the docstring of _send_cancel, ros_action_call.py:260-262).
CancelReachesServer ==
    cancelRequested /\ Quiet /\ ~raised /\ executions # 0 =>
        (server[executions] = "executing" => executions \in cancels)

\* As long as the action has been started once.
FirstCancelReachesServer == executions = 1 => CancelReachesServer

\* An action that was started once succeeds only with a goal the server ended as
\* expected, or accepted when success_on_acceptance asks for no more.
SuccessIsEarned ==
    status = "SUCCESS" /\ executions = 1 =>
        IF mode.acceptOnly THEN server[1] \in {"executing"} \cup Terminal
        ELSE server[1] = mode.expected

\* The end of its goal ends the action, whatever cancel crosses the result: it
\* is not left running in a state no callback will ever change.
OutcomeEndsAction ==
    server[1] \in Terminal /\ status = "RUNNING" /\ executions = 1 /\ ~mode.acceptOnly
        ~> status # "RUNNING" \/ executions # 1 \/ ended \/ raised
=============================================================================
