-------------------------- MODULE RosActionCallProofs --------------------------
(***************************************************************************)
(* Proofs about RosActionCall, for any number of executions: type           *)
(* correctness, that a success is earned, and that a cancel of the first    *)
(* execution reaches the server.                                            *)
(***************************************************************************)
EXTENDS RosActionCall, TLAPS
-----------------------------------------------------------------------------
(* The inductive invariant                                                 *)

\* Before the first execute() there is no goal, and no update() in progress.
Before ==
    executions = 0 =>
        /\ status = "INVALID" /\ goalHandle = NoGoal
        /\ thread.at \in {"idle", "check"} /\ thread.next = "idle"
        /\ \A g \in Goals : response[g] = "none" /\ result[g] = "none" /\ server[g] = "none"

\* In the first execution there is one goal.
OneGoal ==
    executions = 1 =>
        /\ \A g \in Goals \ {1} : response[g] = "none" /\ result[g] = "none" /\ server[g] = "none"
        /\ goalHandle \in {NoGoal, 1}
        /\ response[1] # "dropped"
        /\ state \in {"idle", "serverAvailable"} => response[1] = "none"

\* What the state of the action says of its goal.
Earned ==
    executions = 1 =>
        /\ response[1] = "handled" \/ state = "accepted" => server[1] \in {"executing"} \cup Terminal
        /\ result[1] = "waiting" => ~mode.acceptOnly
        /\ state = "done" => ~mode.acceptOnly /\ server[1] = mode.expected
        /\ SuccessIsEarned

\* The handle is there from the answer to the goal to its end, and no cancel is sent before.
Handle ==
    executions = 1 =>
        /\ server[1] = "pending" => response[1] = "waiting"
        /\ response[1] \in {"none", "waiting"} =>
               goalHandle = NoGoal /\ ~cancelSent /\ thread.at \notin {"mark", "send"}
        /\ server[1] = "executing" =>
               /\ response[1] # "none"
               /\ response[1] # "waiting" => goalHandle = 1

\* A cancel that has been asked for is at the server or on its way there.
OnItsWay ==
    executions = 1 /\ ~raised =>
        /\ thread.at = "check" => cancelRequested
        /\ server[1] = "executing" /\ cancelSent =>
               1 \in cancels \/ thread.at = "send" \/ response[1] = "send"
        /\ server[1] = "executing" /\ cancelRequested =>
               1 \in cancels \/ thread.at \in CancelSteps
                             \/ response[1] \in {"waiting", "handled"} \cup CancelSteps

IInv == TypeOK /\ Before /\ OneGoal /\ Earned /\ Handle /\ OnItsWay
-----------------------------------------------------------------------------
LEMMA GoalFacts == 1 \in Goals /\ NoGoal \notin Goals /\ Goals \subseteq Nat
BY ActionCallAssumption DEF Goals, NoGoal

LEMMA InitInv == Init => IInv
<1> SUFFICES ASSUME Init PROVE IInv
  OBVIOUS
<1>1. TypeOK
  <2>1. executions \in 0..MaxExecutions /\ goalHandle \in Goals \cup {NoGoal} /\ cancels \subseteq Goals
    BY ActionCallAssumption DEF Init
  <2>2. response \in [Goals -> {"none", "waiting", "dropped", "handled", "over"} \cup CancelSteps]
    BY DEF Init
  <2>3. /\ result \in [Goals -> {"none", "waiting", "over"}]
        /\ server \in [Goals -> {"none", "pending", "rejected", "executing"} \cup Terminal]
    BY DEF Init
  <2>4. thread \in [at : {"idle", "dispatch"} \cup CancelSteps, next : {"idle", "dispatch"}]
    BY DEF Init, Idle
  <2>5. {cancelRequested, cancelSent, cancelDeadline, ended, raised} \subseteq BOOLEAN
    BY DEF Init
  <2>6. mode \in Modes /\ status = "INVALID" /\ state \in States
    BY DEF Init, States
  <2> QED
    BY <2>1, <2>2, <2>3, <2>4, <2>5, <2>6 DEF TypeOK
<1>2. Before
  BY DEF Init, Before, Idle
<1>3. OneGoal /\ Earned /\ Handle /\ OnItsWay
  BY DEF Init, OneGoal, Earned, Handle, OnItsWay
<1> QED
  BY <1>1, <1>2, <1>3 DEF IInv

\* No step leaves the invariant: one step per action.
LEMMA StepInv == ASSUME IInv, [Next]_vars PROVE IInv'
<1> USE DEF cancelVars, serverVars, Idle, CancelSteps, Terminal
<1>0. TypeOK /\ Before /\ OneGoal /\ Earned /\ Handle /\ OnItsWay /\ 1 \in Goals /\ NoGoal \notin Goals
      /\ NoGoal # 1
  BY GoalFacts DEF IInv
<1>1. CASE Execute
  <2>1. TypeOK'
    <3>1. executions' \in 0..MaxExecutions
      BY <1>0, <1>1, ActionCallAssumption DEF TypeOK, Execute
    <3>2. thread' \in [at : {"idle", "dispatch"} \cup CancelSteps, next : {"idle", "dispatch"}]
      BY <1>1 DEF Execute
    <3> QED
      BY <1>0, <1>1, <3>1, <3>2 DEF TypeOK, States, Execute
  <2>2. Before'
    BY <1>0, <1>1 DEF TypeOK, Before, Execute
  <2>3. OneGoal' /\ Handle'
    BY <1>0, <1>1 DEF TypeOK, Before, OneGoal, Handle, Execute
  <2>4. Earned'
    BY <1>0, <1>1 DEF TypeOK, Before, OneGoal, Earned, SuccessIsEarned, Modes, Execute
  <2>5. OnItsWay'
    BY <1>0, <1>1 DEF TypeOK, Before, OneGoal, Handle, OnItsWay, Execute
  <2> QED
    BY <2>1, <2>2, <2>3, <2>4, <2>5 DEF IInv
<1>2. ASSUME NEW due \in BOOLEAN, StartUpdate(due) PROVE IInv'
  <2>1. TypeOK'
    BY <1>0, <1>2 DEF TypeOK, States, StartUpdate
  <2>2. Before'
    BY <1>0, <1>2 DEF TypeOK, Before, StartUpdate
  <2>3. OneGoal' /\ Handle'
    BY <1>0, <1>2 DEF TypeOK, Before, OneGoal, Handle, StartUpdate
  <2>4. Earned'
    BY <1>0, <1>2 DEF TypeOK, Before, OneGoal, Earned, SuccessIsEarned, Modes, StartUpdate
  <2>5. OnItsWay'
    BY <1>0, <1>2 DEF TypeOK, Before, OneGoal, Handle, OnItsWay, StartUpdate
  <2> QED
    BY <2>1, <2>2, <2>3, <2>4, <2>5 DEF IInv
<1>3. ASSUME NEW available \in BOOLEAN, WaitForServer(available) PROVE IInv'
  <2>1. TypeOK'
    BY <1>0, <1>3 DEF TypeOK, States, WaitForServer
  <2>2. Before'
    BY <1>0, <1>3 DEF TypeOK, Before, WaitForServer
  <2>3. OneGoal' /\ Handle'
    BY <1>0, <1>3 DEF TypeOK, Before, OneGoal, Handle, WaitForServer
  <2>4. Earned'
    BY <1>0, <1>3 DEF TypeOK, Before, OneGoal, Earned, SuccessIsEarned, Modes, WaitForServer
  <2>5. OnItsWay'
    BY <1>0, <1>3 DEF TypeOK, Before, OneGoal, Handle, OnItsWay, WaitForServer
  <2> QED
    BY <2>1, <2>2, <2>3, <2>4, <2>5 DEF IInv
<1>4. CASE SendGoal
  <2>1. TypeOK'
    <3>1. response' \in [Goals -> {"none", "waiting", "dropped", "handled", "over"} \cup CancelSteps]
      BY <1>0, <1>4 DEF TypeOK, SendGoal
    <3>2. server' \in [Goals -> {"none", "pending", "rejected", "executing"} \cup Terminal]
      BY <1>0, <1>4 DEF TypeOK, SendGoal
    <3>3. cancelDeadline' \in BOOLEAN
      BY <1>0, <1>4 DEF TypeOK, Modes, SendGoal
    <3> QED
      BY <1>0, <1>4, <3>1, <3>2, <3>3 DEF TypeOK, States, SendGoal
  <2>2. Before'
    BY <1>0, <1>4 DEF TypeOK, Before, SendGoal
  <2>3. OneGoal' /\ Handle'
    BY <1>0, <1>4 DEF TypeOK, Before, OneGoal, Handle, SendGoal
  <2>4. Earned'
    BY <1>0, <1>4 DEF TypeOK, Before, OneGoal, Earned, SuccessIsEarned, Modes, SendGoal
  <2>5. OnItsWay'
    BY <1>0, <1>4 DEF TypeOK, Before, OneGoal, Handle, OnItsWay, SendGoal
  <2> QED
    BY <2>1, <2>2, <2>3, <2>4, <2>5 DEF IInv
<1>5. CASE Report
  <2>1. TypeOK'
    BY <1>0, <1>5 DEF TypeOK, States, Report, StatusOf
  <2>2. Before'
    BY <1>0, <1>5 DEF TypeOK, Before, Report, StatusOf
  <2>3. OneGoal' /\ Handle'
    BY <1>0, <1>5 DEF TypeOK, Before, OneGoal, Handle, Report, StatusOf
  <2>4. Earned'
    BY <1>0, <1>5 DEF TypeOK, Before, OneGoal, Earned, SuccessIsEarned, Modes, Report, StatusOf
  <2>5. OnItsWay'
    BY <1>0, <1>5 DEF TypeOK, Before, OneGoal, Handle, OnItsWay, Report, StatusOf
  <2> QED
    BY <2>1, <2>2, <2>3, <2>4, <2>5 DEF IInv
<1>6. CASE TickChecksCancel
  <2>1. TypeOK'
    BY <1>0, <1>6 DEF TypeOK, States, TickChecksCancel, CancelDue
  <2>2. Before'
    BY <1>0, <1>6 DEF TypeOK, Before, TickChecksCancel, CancelDue
  <2>3. OneGoal' /\ Handle'
    BY <1>0, <1>6 DEF TypeOK, Before, OneGoal, Handle, TickChecksCancel, CancelDue
  <2>4. Earned'
    BY <1>0, <1>6 DEF TypeOK, Before, OneGoal, Earned, SuccessIsEarned, Modes, TickChecksCancel, CancelDue
  <2>5. OnItsWay'
    BY <1>0, <1>6 DEF TypeOK, Before, OneGoal, Handle, OnItsWay, TickChecksCancel, CancelDue
  <2> QED
    BY <2>1, <2>2, <2>3, <2>4, <2>5 DEF IInv
<1>7. CASE TickMarksCancel
  <2>1. TypeOK'
    BY <1>0, <1>7 DEF TypeOK, States, TickMarksCancel, Mark
  <2>2. Before'
    BY <1>0, <1>7 DEF TypeOK, Before, TickMarksCancel, Mark
  <2>3. OneGoal' /\ Handle'
    BY <1>0, <1>7 DEF TypeOK, Before, OneGoal, Handle, TickMarksCancel, Mark
  <2>4. Earned'
    BY <1>0, <1>7 DEF TypeOK, Before, OneGoal, Earned, SuccessIsEarned, Modes, TickMarksCancel, Mark
  <2>5. OnItsWay'
    BY <1>0, <1>7 DEF TypeOK, Before, OneGoal, Handle, OnItsWay, TickMarksCancel, Mark
  <2> QED
    BY <2>1, <2>2, <2>3, <2>4, <2>5 DEF IInv
<1>8. CASE TickSendsCancel
  <2>1. TypeOK'
    BY <1>0, <1>8 DEF TypeOK, States, TickSendsCancel, Send
  <2>2. Before'
    BY <1>0, <1>8 DEF TypeOK, Before, TickSendsCancel, Send
  <2>3. OneGoal' /\ Handle'
    BY <1>0, <1>8 DEF TypeOK, Before, OneGoal, Handle, TickSendsCancel, Send
  <2>4. Earned'
    BY <1>0, <1>8 DEF TypeOK, Before, OneGoal, Earned, SuccessIsEarned, Modes, TickSendsCancel, Send
  <2>5. OnItsWay'
    BY <1>0, <1>8 DEF TypeOK, Before, OneGoal, Handle, OnItsWay, TickSendsCancel, Send
  <2> QED
    BY <2>1, <2>2, <2>3, <2>4, <2>5 DEF IInv
<1>9. CASE Invalidate
  <2>1. TypeOK'
    BY <1>0, <1>9 DEF TypeOK, States, Invalidate
  <2>2. Before'
    BY <1>0, <1>9 DEF TypeOK, Before, Invalidate
  <2>3. OneGoal' /\ Handle'
    BY <1>0, <1>9 DEF TypeOK, Before, OneGoal, Handle, Invalidate
  <2>4. Earned'
    BY <1>0, <1>9 DEF TypeOK, Before, OneGoal, Earned, SuccessIsEarned, Modes, Invalidate
  <2>5. OnItsWay'
    BY <1>0, <1>9 DEF TypeOK, Before, OneGoal, Handle, OnItsWay, Invalidate
  <2> QED
    BY <2>1, <2>2, <2>3, <2>4, <2>5 DEF IInv
<1>10. CASE Shutdown
  <2>1. TypeOK'
    BY <1>0, <1>10 DEF TypeOK, States, Shutdown
  <2>2. Before'
    BY <1>0, <1>10 DEF TypeOK, Before, Shutdown
  <2>3. OneGoal' /\ Handle'
    BY <1>0, <1>10 DEF TypeOK, Before, OneGoal, Handle, Shutdown
  <2>4. Earned'
    BY <1>0, <1>10 DEF TypeOK, Before, OneGoal, Earned, SuccessIsEarned, Modes, Shutdown
  <2>5. OnItsWay'
    BY <1>0, <1>10 DEF TypeOK, Before, OneGoal, Handle, OnItsWay, Shutdown
  <2> QED
    BY <2>1, <2>2, <2>3, <2>4, <2>5 DEF IInv
<1>11. ASSUME NEW g \in Goals, TakeHandle(g) PROVE IInv'
  <2>1. TypeOK'
    BY <1>0, <1>11 DEF TypeOK, States, TakeHandle
  <2>2. Before'
    BY <1>0, <1>11 DEF TypeOK, Before, TakeHandle
  <2>3. OneGoal' /\ Handle'
    BY <1>0, <1>11 DEF TypeOK, Before, OneGoal, Handle, TakeHandle
  <2>4. Earned'
    BY <1>0, <1>11 DEF TypeOK, Before, OneGoal, Earned, SuccessIsEarned, Modes, TakeHandle
  <2>5. OnItsWay'
    BY <1>0, <1>11 DEF TypeOK, Before, OneGoal, Handle, OnItsWay, TakeHandle
  <2> QED
    BY <2>1, <2>2, <2>3, <2>4, <2>5 DEF IInv
<1>12. ASSUME NEW g \in Goals, TakeNothing(g) PROVE IInv'
  <2>1. TypeOK'
    BY <1>0, <1>12 DEF TypeOK, States, TakeNothing
  <2>2. Before'
    BY <1>0, <1>12 DEF TypeOK, Before, TakeNothing
  <2>3. OneGoal' /\ Handle'
    BY <1>0, <1>12 DEF TypeOK, Before, OneGoal, Handle, TakeNothing
  <2>4. Earned'
    BY <1>0, <1>12 DEF TypeOK, Before, OneGoal, Earned, SuccessIsEarned, Modes, TakeNothing
  <2>5. OnItsWay'
    BY <1>0, <1>12 DEF TypeOK, Before, OneGoal, Handle, OnItsWay, TakeNothing
  <2> QED
    BY <2>1, <2>2, <2>3, <2>4, <2>5 DEF IInv
<1>13. ASSUME NEW g \in Goals, Accept(g) PROVE IInv'
  <2>1. TypeOK'
    BY <1>0, <1>13 DEF TypeOK, States, Accept
  <2>2. Before'
    BY <1>0, <1>13 DEF TypeOK, Before, Accept
  <2>3. OneGoal' /\ Handle'
    BY <1>0, <1>13 DEF TypeOK, Before, OneGoal, Handle, Accept
  <2>4. Earned'
    BY <1>0, <1>13 DEF TypeOK, Before, OneGoal, Earned, SuccessIsEarned, Modes, Accept
  <2>5. OnItsWay'
    BY <1>0, <1>13 DEF TypeOK, Before, OneGoal, Handle, OnItsWay, Accept
  <2> QED
    BY <2>1, <2>2, <2>3, <2>4, <2>5 DEF IInv
<1>14. ASSUME NEW g \in Goals, ResponseChecksCancel(g) PROVE IInv'
  <2>1. TypeOK'
    BY <1>0, <1>14 DEF TypeOK, States, ResponseChecksCancel, CancelDue
  <2>2. Before'
    BY <1>0, <1>14 DEF TypeOK, Before, ResponseChecksCancel, CancelDue
  <2>3. OneGoal' /\ Handle'
    BY <1>0, <1>14 DEF TypeOK, Before, OneGoal, Handle, ResponseChecksCancel, CancelDue
  <2>4. Earned'
    BY <1>0, <1>14 DEF TypeOK, Before, OneGoal, Earned, SuccessIsEarned, Modes, ResponseChecksCancel, CancelDue
  <2>5. OnItsWay'
    BY <1>0, <1>14 DEF TypeOK, Before, OneGoal, Handle, OnItsWay, ResponseChecksCancel, CancelDue
  <2> QED
    BY <2>1, <2>2, <2>3, <2>4, <2>5 DEF IInv
<1>15. ASSUME NEW g \in Goals, ResponseMarksCancel(g) PROVE IInv'
  <2>1. TypeOK'
    BY <1>0, <1>15 DEF TypeOK, States, ResponseMarksCancel, Mark
  <2>2. Before'
    BY <1>0, <1>15 DEF TypeOK, Before, ResponseMarksCancel, Mark
  <2>3. OneGoal' /\ Handle'
    BY <1>0, <1>15 DEF TypeOK, Before, OneGoal, Handle, ResponseMarksCancel, Mark
  <2>4. Earned'
    BY <1>0, <1>15 DEF TypeOK, Before, OneGoal, Earned, SuccessIsEarned, Modes, ResponseMarksCancel, Mark
  <2>5. OnItsWay'
    BY <1>0, <1>15 DEF TypeOK, Before, OneGoal, Handle, OnItsWay, ResponseMarksCancel, Mark
  <2> QED
    BY <2>1, <2>2, <2>3, <2>4, <2>5 DEF IInv
<1>16. ASSUME NEW g \in Goals, ResponseSendsCancel(g) PROVE IInv'
  <2>1. TypeOK'
    BY <1>0, <1>16 DEF TypeOK, States, ResponseSendsCancel, Send
  <2>2. Before'
    BY <1>0, <1>16 DEF TypeOK, Before, ResponseSendsCancel, Send
  <2>3. OneGoal' /\ Handle'
    BY <1>0, <1>16 DEF TypeOK, Before, OneGoal, Handle, ResponseSendsCancel, Send
  <2>4. Earned'
    BY <1>0, <1>16 DEF TypeOK, Before, OneGoal, Earned, SuccessIsEarned, Modes, ResponseSendsCancel, Send
  <2>5. OnItsWay'
    BY <1>0, <1>16 DEF TypeOK, Before, OneGoal, Handle, OnItsWay, ResponseSendsCancel, Send
  <2> QED
    BY <2>1, <2>2, <2>3, <2>4, <2>5 DEF IInv
<1>17. ASSUME NEW g \in Goals, TakeResult(g) PROVE IInv'
  <2>1. TypeOK'
    BY <1>0, <1>17 DEF TypeOK, States, TakeResult, Outcomes
  <2>2. Before'
    BY <1>0, <1>17 DEF TypeOK, Before, TakeResult, Outcomes
  <2>3. OneGoal' /\ Handle'
    BY <1>0, <1>17 DEF TypeOK, Before, OneGoal, Handle, TakeResult, Outcomes
  <2>4. Earned'
    BY <1>0, <1>17 DEF TypeOK, Before, OneGoal, Earned, SuccessIsEarned, Modes, TakeResult, Outcomes
  <2>5. OnItsWay'
    BY <1>0, <1>17 DEF TypeOK, Before, OneGoal, Handle, OnItsWay, TakeResult, Outcomes
  <2> QED
    BY <2>1, <2>2, <2>3, <2>4, <2>5 DEF IInv
<1>18. ASSUME NEW g \in Goals, NEW accepted \in BOOLEAN, Decide(g, accepted) PROVE IInv'
  <2>1. TypeOK'
    BY <1>0, <1>18 DEF TypeOK, States, Decide
  <2>2. Before'
    BY <1>0, <1>18 DEF TypeOK, Before, Decide
  <2>3. OneGoal' /\ Handle'
    BY <1>0, <1>18 DEF TypeOK, Before, OneGoal, Handle, Decide
  <2>4. Earned'
    BY <1>0, <1>18 DEF TypeOK, Before, OneGoal, Earned, SuccessIsEarned, Modes, Decide
  <2>5. OnItsWay'
    BY <1>0, <1>18 DEF TypeOK, Before, OneGoal, Handle, OnItsWay, Decide
  <2> QED
    BY <2>1, <2>2, <2>3, <2>4, <2>5 DEF IInv
<1>19. ASSUME NEW g \in Goals, NEW outcome \in Terminal, Finish(g, outcome) PROVE IInv'
  <2>1. TypeOK'
    BY <1>0, <1>19 DEF TypeOK, States, Finish
  <2>2. Before'
    BY <1>0, <1>19 DEF TypeOK, Before, Finish
  <2>3. OneGoal' /\ Handle'
    BY <1>0, <1>19 DEF TypeOK, Before, OneGoal, Handle, Finish
  <2>4. Earned'
    BY <1>0, <1>19 DEF TypeOK, Before, OneGoal, Earned, SuccessIsEarned, Modes, Finish
  <2>5. OnItsWay'
    BY <1>0, <1>19 DEF TypeOK, Before, OneGoal, Handle, OnItsWay, Finish
  <2> QED
    BY <2>1, <2>2, <2>3, <2>4, <2>5 DEF IInv
<1>20. CASE UNCHANGED vars
  BY <1>0, <1>20 DEF vars, IInv, TypeOK, Before, OneGoal, Earned, SuccessIsEarned, Handle, OnItsWay
<1> QED
  BY <1>1, <1>2, <1>3, <1>4, <1>5, <1>6, <1>7, <1>8, <1>9, <1>10, <1>11, <1>12, <1>13, <1>14, <1>15, <1>16, <1>17, <1>18, <1>19, <1>20
     DEF Next, Update, Callbacks
-----------------------------------------------------------------------------
(* The theorems                                                            *)

\* The strengthening that carries the theorems below.
THEOREM ActionCallInvariant == Spec => []IInv
<1>1. IInv /\ [Next]_vars => IInv'
  BY StepInv
<1> QED
  BY InitInv, <1>1, PTL DEF Spec

\* Every reachable state of an action_call is well-typed.
THEOREM ActionCallTyping == Spec => []TypeOK
<1>1. IInv => TypeOK
  BY DEF IInv
<1> QED
  BY ActionCallInvariant, <1>1, PTL

\* An action that was started once succeeds only with a goal that the server ended as expected, or
\* accepted if no more is asked for, whatever cancels and callbacks cross.
THEOREM SuccessEarned == Spec => []SuccessIsEarned
<1>1. IInv => SuccessIsEarned
  BY DEF IInv, Earned, SuccessIsEarned
<1> QED
  BY ActionCallInvariant, <1>1, PTL

\* A cancel that is asked for at any moment of the first execution reaches the server.
THEOREM FirstCancelArrives == Spec => []FirstCancelReachesServer
<1>1. IInv => FirstCancelReachesServer
  BY GoalFacts DEF IInv, Handle, OnItsWay, FirstCancelReachesServer, CancelReachesServer, Quiet, Idle, CancelSteps
<1> QED
  BY ActionCallInvariant, <1>1, PTL
=============================================================================
