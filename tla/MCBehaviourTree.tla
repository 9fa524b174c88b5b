--------------------------- MODULE MCBehaviourTree ---------------------------
(* Scenarios of the documentation, small: each puts one way to end a branch  *)
(* inside another.                                                           *)
EXTENDS BehaviourTree, TLC

Element(op, members, arg) ==
    [op |-> op, members |-> members, arg |-> arg, modifiers |-> <<>>, untils |-> <<>>]
Composed(op, members) == Element(op, members, 0)
Waits(op, arg) == Element(op, <<>>, arg)
Action == Element("action", <<>>, 0)
With(e, modifiers) == [e EXCEPT !.modifiers = modifiers]
Until(e, conditions) == [e EXCEPT !.untils = conditions]

Timeout(duration) == [kind |-> "timeout", duration |-> duration]
Retry(count) == [kind |-> "retry", count |-> count]
Repeat(count) == [kind |-> "repeat", count |-> count]
Mapped(from, to) == [kind |-> "is", from |-> from, to |-> to]
Inverter == [kind |-> "inverter"]

\* "Wait until a condition has held for a duration".
Held ==
    100 :> With(Composed("serial", <<101>>), <<Timeout(5)>>) @@             \* root
    101 :> With(Composed("serial", <<102, 103>>), <<Retry(0)>>) @@          \* attempt
    102 :> Waits("condition", "low") @@                                     \* isLow
    103 :> Composed("one_of", <<104, 105>>) @@                              \* race
    104 :> Waits("elapsed", 2) @@                                           \* held2s
    105 :> With(Composed("serial", <<106>>), <<Mapped("SUCCESS", "FAILURE")>>) @@\* broken
    106 :> Waits("condition", "high")                                       \* isHigh

\* "Stop from another branch", the action retried.
StopOnEvent ==
    200 :> With(Composed("parallel", <<201, 203>>), <<Timeout(4)>>) @@      \* root
    201 :> Until(With(Action, <<Retry(0)>>), <<202>>) @@                    \* drive
    202 :> Waits("event", "obstacle") @@                                    \* detected
    203 :> Composed("serial", <<204, 205, 206>>) @@                         \* detect
    204 :> Action @@                                                        \* sensor
    205 :> Waits("emit", "obstacle") @@                                     \* signal
    206 :> Waits("elapsed", 2)                                              \* watch

\* "Require more than the event", in a branch that is repeated.
Guarded ==
    300 :> Composed("parallel", <<301, 307>>) @@                            \* root
    301 :> With(Composed("serial", <<302, 306>>), <<Repeat(2)>>) @@         \* batches
    302 :> Until(Action, <<303>>) @@                                        \* work
    303 :> Composed("guarded", <<304, 305>>) @@                             \* second
    304 :> Waits("event", "batch") @@                                       \* done
    305 :> Waits("condition", "high") @@                                    \* isHigh
    306 :> Waits("elapsed", 1) @@                                           \* settle
    307 :> Composed("serial", <<308, 309>>) @@                              \* signal
    308 :> Waits("elapsed", 2) @@                                           \* later
    309 :> Waits("emit", "batch")                                           \* emit

\* A rise after an event, and a rise waited for again and again, given up in between.
Rises ==
    400 :> With(Composed("parallel", <<401, 404, 407>>), <<Timeout(5)>>) @@ \* root
    401 :> Composed("guarded", <<402, 403>>) @@                             \* first
    402 :> Waits("event", "start") @@                                       \* started
    403 :> Waits("rise", 0) @@                                              \* rose
    404 :> With(Composed("one_of", <<405, 406>>), <<Repeat(2)>>) @@         \* each
    405 :> Waits("rise", 0) @@                                              \* again
    406 :> Waits("elapsed", 2) @@                                           \* turn
    407 :> Composed("serial", <<408, 409>>) @@                              \* go
    408 :> Waits("elapsed", 1) @@                                           \* pause
    409 :> Waits("emit", "start")                                           \* emit

\* "Combining modifiers": the timeout is around a retry without a bound.
Stacked ==
    500 :> With(Composed("one_of", <<501, 502>>), <<Mapped("FAILURE", "SUCCESS"), Timeout(3), Retry(0)>>) @@\* root
    501 :> With(Action, <<Timeout(2), Mapped("FAILURE", "RUNNING")>>) @@    \* load
    502 :> Composed("serial", <<503, 504>>) @@                              \* probe
    503 :> With(Action, <<Repeat(2), Inverter>>) @@                         \* check
    504 :> Waits("emit", "fail")                                            \* finish

MCElements == Held @@ StopOnEvent @@ Guarded @@ Rises @@ Stacked
MCScenarios == {100, 200, 300, 400, 500}

\* The scenario is over; one without a timeout also stops with the clock.
Terminated == path = <<>> /\ Over /\ UNCHANGED vars
MCSpec == Init /\ [][Next \/ Terminated]_vars
=============================================================================
