----------------------------- MODULE MCRosRunner -----------------------------
(* Two scenarios, so that the second one meets the state the first one left. *)
EXTENDS RosRunner

\* main() has exited and no tick is left running.
Terminated == pc = "done" /\ UNCHANGED vars

MCSpec == Init /\ [][Next \/ Terminated]_vars /\ Fairness
=============================================================================
