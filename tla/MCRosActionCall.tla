--------------------------- MODULE MCRosActionCall ---------------------------
(* The action is started once or twice, with every crossing of its cancels.   *)
EXTENDS RosActionCall

\* shutdown() is done and every callback has run.
Terminated == ended /\ Quiet /\ UNCHANGED vars

MCSpec == Init /\ [][Next \/ Terminated]_vars /\ Fairness
=============================================================================
