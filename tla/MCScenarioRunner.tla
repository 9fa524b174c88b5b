-------------------------- MODULE MCScenarioRunner --------------------------
(* Two scenarios (the second one has a predecessor whose state can be stale) *)
(* and two signals (one may find the first one's effects).                   *)
EXTENDS ScenarioRunner

\* The process exits; nothing happens after that.
Terminated == pc = "done" /\ UNCHANGED vars

MCSpec == Init /\ [][Next \/ Terminated]_vars /\ WF_vars(Main)
=============================================================================
