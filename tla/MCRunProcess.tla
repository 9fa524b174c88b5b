----------------------------- MODULE MCRunProcess -----------------------------
(* Three spawns: a first process, one after a re-initialise, and a late one. *)
EXTENDS RunProcess

\* The scenario is over and every process has exited, or is left behind.
Terminated == phase = "ended" /\ UNCHANGED vars

MCSpec == Init /\ [][Next \/ Terminated]_vars /\ Fairness
=============================================================================
