-------------------------- MODULE MCScenarioControl --------------------------
EXTENDS ScenarioControl

\* A bound: once two tasks have been under way together, the panel takes no further part.  The
\* properties end there.
PanelRests == "tasks" \in met => view' = view /\ stops'.sent = stops.sent

\* Nobody presses the button any more and no application is left; the requests
\* that are open when the node is interrupted stay so.
Terminated ==
    /\ \A c \in Callers : ~Busy(c)
    /\ spinning => executes = 0 /\ stops.open = 0
    /\ \A a \in Apps : thread[a] \in {"none", "dead"}
    /\ UNCHANGED vars

MCSpec == Init /\ [][(Next /\ PanelRests) \/ Terminated]_vars /\ Fairness
=============================================================================
