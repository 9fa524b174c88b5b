----------------------------- MODULE MCRosActions -----------------------------
(***************************************************************************)
(* One instance for two actions of scenario_execution_ros: every behaviour  *)
(* is one of RosBagRecord or one of RosServiceCall.  status, current_state  *)
(* and runs are fields of both; the other variables of the one that is not  *)
(* chosen keep their initial values.                                        *)
(***************************************************************************)
EXTENDS RosBagRecord

CONSTANT MaxCalls
VARIABLES action, reads, pc, future, futures, accepted

S == INSTANCE RosServiceCall

own == <<timestamp_suffix, phase, shutdowns, late, executed, recorder, bag_dir, bags, cancel_requested,
         signals, recorded, reported>>
ownOfCall == <<reads, pc, future, futures, accepted>>
all == <<action, vars, ownOfCall>>

BagInit ==
    /\ action = "bag_record" /\ Init
    /\ reads = FALSE /\ pc = "out" /\ future = 0
    /\ futures = [c \in S!Calls |-> "none"] /\ accepted = [c \in S!Calls |-> FALSE]
CallInit ==
    /\ action = "service_call" /\ S!Init
    /\ timestamp_suffix = FALSE /\ phase = "tree" /\ shutdowns = 0 /\ executed = FALSE
    /\ lateTick = FALSE /\ outlived = FALSE
    /\ process = "none" /\ written = 0 /\ made = FALSE /\ subscribed = FALSE
    /\ bag_dir = 0 /\ bags = [d \in Dirs |-> "none"]
    /\ cancel_requested = FALSE /\ interrupted = FALSE /\ killed = FALSE
    /\ recorded = FALSE /\ reported = FALSE

CallStep(A) == action = "service_call" /\ A /\ UNCHANGED <<action, own>>

MCNext ==
    \/ action = "bag_record" /\ Next /\ UNCHANGED <<action, ownOfCall>>
    \/ CallStep(S!Next)

MCSpec ==
    /\ (BagInit \/ CallInit) /\ [][MCNext]_all
    /\ WF_all(CallStep(S!TickEnds))
    /\ \A c \in S!Calls : WF_all(CallStep(S!Callback(c)))

\* The type invariants of the two modules.
Types == IF action = "bag_record" THEN TypeOK ELSE S!TypeOK

\* FirstCallDecides of RosServiceCall: a service_call that was started once ends as its reply says,
\* and not before the reply.
FirstCallDecides == action = "service_call" => S!FirstCallDecides

\* ReplyEndsAction of RosServiceCall: the reply to the request of this execution ends the action.
ReplyEndsAction == S!ReplyEndsAction
=============================================================================
