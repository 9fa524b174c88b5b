----------------------------- MODULE RunVerdicts -----------------------------
(***************************************************************************)
(* What a run over the scenarios of a file promises its caller: scenarios  *)
(* pass one at a time and in the order of the file, a pass is never taken  *)
(* back, and the exit status is "pass" only when all of them passed.       *)
(***************************************************************************)
EXTENDS Integers

CONSTANT NumScenarios

VARIABLES passed, exit

Init == passed = {} /\ exit = "running"

Pass(k) ==
    /\ exit = "running"
    /\ \A j \in passed : j < k
    /\ passed' = passed \cup {k}
    /\ UNCHANGED exit

Finish(status) ==
    /\ exit = "running"
    /\ status = "pass" => passed = 1..NumScenarios
    /\ exit' = status
    /\ UNCHANGED passed

Next == (\E k \in 1..NumScenarios : Pass(k)) \/ (\E s \in {"pass", "fail", "crash"} : Finish(s))

Spec == Init /\ [][Next]_<<passed, exit>>
=============================================================================
