--------------------------- MODULE RunProcessProofs ---------------------------
(***************************************************************************)
(* Proofs about RunProcess, for any number of processes, any timeout and   *)
(* any run of the clock: type correctness, that the action owns the only   *)
(* process that runs, that none outlives the last shutdown() of the ROS    *)
(* runner unless a tick does, and the grace a process has before SIGKILL.  *)
(***************************************************************************)
EXTENDS RunProcess, TLAPS
-----------------------------------------------------------------------------
(* The inductive invariant                                                 *)

\* Before the first update() there is neither a process nor a signal sent.
NothingBeforeUpdate ==
    ~executed => held = None /\ killDeadline = Never /\ ~cancelSent

\* The escalation of a cancel leaves the process its time.
CancelGrace ==
    Running(held) /\ killDeadline # Never =>
        asked[held] # Never /\ killDeadline >= asked[held] + ShutdownTimeout

\* So does the wait of shutdown().
WaitGrace ==
    phase = "waiting" =>
        /\ awaited # None
        /\ asked[awaited] # Never
        /\ waitUntil >= asked[awaited] + ShutdownTimeout

AskedInThePast == \A p \in Pids : asked[p] # Never => asked[p] <= now

\* A shutdown() no tick outlives waits for the process held, and leaves none.
NoneAfterShutdown ==
    mode.class # "OwnShutdown" /\ ~outlived =>
        /\ phase \in {"waiting", "killing"} => awaited = held
        /\ phase = "stopped" \/ (phase = "ended" /\ mode.ros) => NoneRuns

\* There is a late tick only if the first shutdown() found one, and it lasts.
LateTickSeen ==
    /\ phase = "tree" => shutdowns = 0 /\ ~lateTick /\ ~outlived
    /\ lateTick => outlived

IInv ==
    /\ TypeOK
    /\ LateTickSeen
    /\ OwnsWhatRuns
    /\ NothingBeforeUpdate
    /\ CancelGrace
    /\ WaitGrace
    /\ AskedInThePast
    /\ NoneAfterShutdown

\* What a step may send SIGKILL to.
Grace == \A p \in killed' \ killed : asked[p] # Never /\ now >= asked[p] + ShutdownTimeout
-----------------------------------------------------------------------------
(* The helpers                                                             *)

\* Sending shutdown_signal keeps the times typed, in the past, and leaves the
\* process a whole ShutdownTimeout from now.
LEMMA AskStep ==
    ASSUME TypeOK, AskedInThePast, NEW p \in Pids, Ask(p)
    PROVE  /\ asked' \in [Pids -> Times]
           /\ \A q \in Pids : asked'[q] # Never => asked'[q] <= now
           /\ \A q \in Pids : asked[q] # Never => asked'[q] = asked[q]
           /\ asked'[p] # Never /\ now + ShutdownTimeout >= asked'[p] + ShutdownTimeout
<1>1. /\ now \in Nat /\ now # Never /\ ShutdownTimeout \in Nat
      /\ asked \in [Pids -> Times]
  BY RunProcessAssumption DEF TypeOK, Never
<1>2. CASE asked[p] = Never
  BY <1>1, <1>2 DEF Ask, Times, AskedInThePast
<1>3. CASE asked[p] # Never
  BY <1>1, <1>3 DEF Ask, Times, AskedInThePast, Never
<1> QED
  BY <1>2, <1>3

\* _apply_cancel keeps the flags and the history typed and grants the grace,
\* whenever the deadline it is given does.
LEMMA CancelStep ==
    ASSUME TypeOK, AskedInThePast,
           NEW p \in Pids \cup {None}, NEW alive \in BOOLEAN, NEW requested \in BOOLEAN,
           NEW sent \in BOOLEAN, NEW deadline \in Times,
           alive => p \in Pids,
           alive /\ deadline # Never =>
               asked[p] # Never /\ deadline >= asked[p] + ShutdownTimeout,
           ApplyCancel(p, alive, requested, sent, deadline)
    PROVE  /\ cancelRequested' \in BOOLEAN
           /\ cancelSent' \in BOOLEAN
           /\ killDeadline' \in Times
           /\ asked' \in [Pids -> Times]
           /\ killed' \subseteq Pids
           /\ \A q \in Pids : asked'[q] # Never => asked'[q] <= now
           /\ \A q \in Pids : asked[q] # Never => asked'[q] = asked[q]
           /\ alive /\ killDeadline' # Never =>
                asked'[p] # Never /\ killDeadline' >= asked'[p] + ShutdownTimeout
           /\ Grace
<1>1. now \in Nat /\ ShutdownTimeout \in Nat /\ asked \in [Pids -> Times] /\ killed \subseteq Pids
  BY RunProcessAssumption DEF TypeOK
<1>2. cancelRequested' = requested
  BY DEF ApplyCancel
<1>3. CASE requested /\ alive /\ ~sent /\ Ask(p) /\ cancelSent' = TRUE
           /\ killDeadline' = now + ShutdownTimeout /\ UNCHANGED killed
  BY <1>1, <1>2, <1>3, AskStep DEF Grace, Times
<1>4. CASE requested /\ alive /\ sent /\ deadline # Never /\ now >= deadline /\ Kill(p)
           /\ killDeadline' = Never /\ cancelSent' = sent /\ UNCHANGED asked
  <2>1. asked[p] # Never /\ asked[p] \in Nat /\ now >= asked[p] + ShutdownTimeout
    BY <1>1, <1>4 DEF Times, Never
  <2>2. killed' = killed \cup {p}
    BY <1>4 DEF Kill
  <2> QED
    BY <1>1, <1>2, <1>4, <2>1, <2>2 DEF Grace, Times, AskedInThePast
<1>5. CASE cancelSent' = sent /\ killDeadline' = deadline /\ UNCHANGED historyVars
  BY <1>1, <1>2, <1>5 DEF Grace, historyVars, AskedInThePast
<1> QED
  BY <1>3, <1>4, <1>5, Zenon DEF ApplyCancel

\* The flags as execute() leaves them are typed, and they are those of before
\* or clear.
LEMMA RearmedFlags ==
    ASSUME TypeOK
    PROVE  /\ Requested \in BOOLEAN /\ Sent \in BOOLEAN /\ Deadline \in Times
           /\ Deadline \in {killDeadline, Never}
BY DEF TypeOK, Requested, Sent, Deadline, Times, Never

\* The hooks return a status of py_trees.
LEMMA StatusType ==
    ASSUME NEW state
    PROVE  StatusOf(state) \subseteq {"INVALID", "RUNNING", "SUCCESS", "FAILURE"}
BY DEF StatusOf
-----------------------------------------------------------------------------
(* Initial states and steps                                                *)

LEMMA InitInv == Init => IInv
<1> SUFFICES ASSUME Init PROVE IInv
  OBVIOUS
<1>1. TypeOK
  <2>1. /\ {executed, cancelRequested, cancelSent, lateTick, outlived} \subseteq BOOLEAN
        /\ {held, awaited} \subseteq Pids \cup {None}
        /\ procs \in [Pids -> {"unborn", "running", "exited0", "exited1"}]
        /\ asked \in [Pids -> Times]
        /\ killDeadline \in Times /\ waitUntil \in Times
    BY DEF Init, Times
  <2>2. now \in 0..MaxNow /\ shutdowns \in 0..MaxShutdowns /\ killed \subseteq Pids
    BY RunProcessAssumption DEF Init, MaxShutdowns
  <2> QED
    BY <2>1, <2>2 DEF Init, TypeOK
<1>2. OwnsWhatRuns /\ NothingBeforeUpdate
  BY DEF Init, OwnsWhatRuns, NothingBeforeUpdate
<1>3. CancelGrace /\ WaitGrace
  BY DEF Init, CancelGrace, WaitGrace
<1>4. AskedInThePast /\ NoneAfterShutdown
  BY DEF Init, AskedInThePast, NoneAfterShutdown
<1>5. LateTickSeen
  BY DEF Init, LateTickSeen
<1> QED
  BY <1>1, <1>2, <1>3, <1>4, <1>5 DEF IInv

\* A process is started only when none runs, and is the one held.
LEMMA SpawnInv ==
    ASSUME IInv, NEW p \in Pids, Spawn(p)
    PROVE  IInv' /\ Grace
<1> USE RunProcessAssumption DEF IInv
<1>1. \A q \in Pids : procs[q] # "running"
  BY DEF Spawn, NeedsProcess, OwnsWhatRuns, Running, None, Pids
<1>2. /\ procs' = [procs EXCEPT ![p] = "running"]
      /\ procs \in [Pids -> {"unborn", "running", "exited0", "exited1"}]
      /\ held' = p /\ p # None
      /\ executed' = TRUE
      /\ UNCHANGED <<mode, teardownVars, now>>
  BY DEF Spawn, TypeOK, Pids, None
<1>3. Deadline = Never
  <2>1. Rearmed \/ ~executed
    BY DEF Spawn, NeedsProcess
  <2> QED
    BY <2>1 DEF NothingBeforeUpdate, Deadline
<1>4. /\ cancelRequested' \in BOOLEAN
      /\ cancelSent' \in BOOLEAN
      /\ killDeadline' \in Times
      /\ asked' \in [Pids -> Times]
      /\ killed' \subseteq Pids
      /\ \A q \in Pids : asked'[q] # Never => asked'[q] <= now
      /\ \A q \in Pids : asked[q] # Never => asked'[q] = asked[q]
      /\ killDeadline' # Never =>
           asked'[p] # Never /\ killDeadline' >= asked'[p] + ShutdownTimeout
      /\ Grace
  <2>1. ApplyCancel(p, TRUE, Requested, Sent, Deadline)
    BY DEF Spawn
  <2> HIDE DEF IInv
  <2>2. TypeOK /\ AskedInThePast
    BY DEF IInv
  <2> QED
    BY <1>3, <2>1, <2>2, RearmedFlags, CancelStep
<1>5. status' \in {"INVALID", "RUNNING", "SUCCESS", "FAILURE"}
  BY StatusType DEF Spawn
<1>6. TypeOK'
  BY <1>2, <1>4, <1>5 DEF TypeOK, Times, teardownVars
<1>7. OwnsWhatRuns' /\ NothingBeforeUpdate' /\ CancelGrace' /\ AskedInThePast'
  BY <1>1, <1>2, <1>4 DEF OwnsWhatRuns, NothingBeforeUpdate, CancelGrace, AskedInThePast, Running
<1>8. WaitGrace'
  BY <1>2, <1>4 DEF WaitGrace, TypeOK, teardownVars
<1>9. NoneAfterShutdown' /\ LateTickSeen'
  BY <1>2 DEF Spawn, Ticks, NoneAfterShutdown, LateTickSeen, teardownVars
<1> QED
  BY <1>4, <1>6, <1>7, <1>8, <1>9

\* Steps that leave the processes, the one held and "executed" alone, or set it,
\* and run _apply_cancel on the process held.
LEMMA CancelsHeld ==
    ASSUME IInv, NEW requested \in BOOLEAN, NEW sent \in BOOLEAN,
           NEW deadline \in {killDeadline, Never},
           ApplyCancel(held, Running(held), requested, sent, deadline),
           Ticks,
           status' \in {"INVALID", "RUNNING", "SUCCESS", "FAILURE"},
           executed' = TRUE \/ (executed' = executed /\ (sent => cancelSent)),
           UNCHANGED <<mode, teardownVars, held, procs, now>>
    PROVE  IInv' /\ Grace
<1>1. TypeOK /\ AskedInThePast /\ deadline \in Times /\ Running(held) \in BOOLEAN
  BY DEF IInv, TypeOK, Running, Times
<1>2. Running(held) => held \in Pids
  BY <1>1 DEF Running, TypeOK
<1>3. Running(held) /\ deadline # Never =>
        asked[held] # Never /\ deadline >= asked[held] + ShutdownTimeout
  BY DEF IInv, CancelGrace
<1>4. held \in Pids \cup {None}
  BY <1>1 DEF TypeOK
<1>5. /\ cancelRequested' \in BOOLEAN
      /\ cancelSent' \in BOOLEAN
      /\ killDeadline' \in Times
      /\ asked' \in [Pids -> Times]
      /\ killed' \subseteq Pids
      /\ \A q \in Pids : asked'[q] # Never => asked'[q] <= now
      /\ \A q \in Pids : asked[q] # Never => asked'[q] = asked[q]
      /\ Running(held) /\ killDeadline' # Never =>
           asked'[held] # Never /\ killDeadline' >= asked'[held] + ShutdownTimeout
      /\ Grace
  BY <1>1, <1>2, <1>3, <1>4, CancelStep
<1>6. TypeOK'
  BY <1>1, <1>5 DEF TypeOK, teardownVars
<1>7. OwnsWhatRuns' /\ CancelGrace' /\ AskedInThePast'
  BY <1>5 DEF IInv, OwnsWhatRuns, CancelGrace, AskedInThePast, Running
<1>8. NothingBeforeUpdate'
  <2>1. CASE executed' = TRUE
    BY <2>1 DEF NothingBeforeUpdate
  <2>2. CASE executed /\ executed' = executed
    BY <2>2 DEF NothingBeforeUpdate
  <2>3. CASE ~executed /\ executed' = executed /\ (sent => cancelSent)
    <3>1. held = None /\ killDeadline = Never /\ ~cancelSent
      BY <2>3 DEF IInv, NothingBeforeUpdate
    <3>2. cancelSent' = sent /\ killDeadline' = deadline
      BY <3>1 DEF ApplyCancel, Running
    <3> QED
      BY <2>3, <3>1, <3>2 DEF NothingBeforeUpdate
  <2> QED
    BY <2>1, <2>2, <2>3
<1>9. WaitGrace'
  BY <1>1, <1>5 DEF IInv, WaitGrace, TypeOK, teardownVars
<1>10. NoneAfterShutdown' /\ LateTickSeen'
  BY DEF IInv, Ticks, NoneAfterShutdown, LateTickSeen, NoneRuns, teardownVars
<1> QED
  BY <1>5, <1>6, <1>7, <1>8, <1>9, <1>10 DEF IInv

LEMMA StepInv == IInv /\ [Next]_vars => IInv' /\ (Grace \/ UNCHANGED vars)
<1> SUFFICES ASSUME IInv, [Next]_vars PROVE IInv' /\ (Grace \/ UNCHANGED vars)
  OBVIOUS
<1>0. TypeOK
  BY DEF IInv
<1>1. CASE UNCHANGED vars
  BY <1>1 DEF vars, IInv, TypeOK, OwnsWhatRuns, NothingBeforeUpdate, CancelGrace, WaitGrace,
              AskedInThePast, NoneAfterShutdown, Running, LateTickSeen, NoneRuns
<1>2. ASSUME NEW p \in Pids, Spawn(p) PROVE IInv' /\ Grace
  BY <1>2, SpawnInv
<1>3. CASE SpawnFails
  <2>1. /\ Requested \in BOOLEAN /\ Sent \in BOOLEAN /\ Deadline \in Times
        /\ Deadline \in {killDeadline, Never}
    BY <1>0, RearmedFlags
  <2>2. TypeOK'
    BY <1>0, <1>3, <2>1 DEF SpawnFails, TypeOK, historyVars, teardownVars
  <2> QED
    BY <1>3, <2>1, <2>2 DEF SpawnFails, IInv, OwnsWhatRuns, NothingBeforeUpdate, CancelGrace,
        WaitGrace, AskedInThePast, NoneAfterShutdown, Running, Grace, historyVars, LateTickSeen,
        NoneRuns, teardownVars
<1>4. CASE Monitor
  <2>1. status' \in {"INVALID", "RUNNING", "SUCCESS", "FAILURE"}
    BY <1>4, StatusType DEF Monitor
  <2>2. (Requested \/ status' = "INVALID") \in BOOLEAN
    OBVIOUS
  <2> QED
    BY <1>0, <1>4, <2>1, <2>2, RearmedFlags, CancelsHeld DEF Monitor
<1>5. CASE Invalidate
  <2>1. cancelSent \in BOOLEAN /\ TRUE \in BOOLEAN
    BY <1>0 DEF TypeOK
  <2> QED
    BY <1>5, <2>1, CancelsHeld DEF Invalidate
<1>6. CASE HoldBack
  BY <1>6 DEF HoldBack, IInv, TypeOK, OwnsWhatRuns, NothingBeforeUpdate, CancelGrace, WaitGrace,
      AskedInThePast, NoneAfterShutdown, Running, LateTickSeen, Grace, historyVars, cancelVars,
      teardownVars, NoneRuns
<1>7. CASE BaseRunnerEnds \/ RosRunnerEnds \/ LateTickEnds
  <2>1. UNCHANGED <<mode, shutdowns, awaited, waitUntil, outlived, status, executed, held, procs,
                    cancelVars, now, historyVars>>
    BY <1>7 DEF BaseRunnerEnds, RosRunnerEnds, LateTickEnds
  <2>2. \/ phase' = "ended" /\ UNCHANGED lateTick /\ (phase = "stopped" \/ ~mode.ros)
        \/ UNCHANGED phase /\ lateTick' = FALSE
    BY <1>7 DEF BaseRunnerEnds, RosRunnerEnds, LateTickEnds
  <2>3. TypeOK'
    BY <1>0, <2>1, <2>2 DEF TypeOK, cancelVars, historyVars
  <2>4. NoneAfterShutdown' /\ LateTickSeen' /\ WaitGrace'
    BY <2>1, <2>2 DEF IInv, NoneAfterShutdown, LateTickSeen, WaitGrace, NoneRuns, historyVars
  <2>5. /\ OwnsWhatRuns' /\ NothingBeforeUpdate' /\ CancelGrace' /\ AskedInThePast'
        /\ Grace
    BY <2>1 DEF IInv, OwnsWhatRuns, NothingBeforeUpdate, CancelGrace, AskedInThePast, Running,
       Grace, cancelVars, historyVars
  <2> QED
    BY <2>3, <2>4, <2>5 DEF IInv
<1>8. ASSUME ShutdownCalled
       PROVE  /\ shutdowns' \in 0..MaxShutdowns /\ {lateTick, outlived}' \subseteq BOOLEAN
              /\ UNCHANGED <<mode, status, executed, held, procs, cancelRequested, cancelSent,
                             killDeadline, now, killed>>
              /\ (lateTick => outlived)'
  BY <1>0, <1>8 DEF ShutdownCalled, TypeOK, IInv, LateTickSeen, MaxShutdowns, cancelVars
<1>9. CASE Shutdown
  <2>1. /\ shutdowns' \in 0..MaxShutdowns /\ {lateTick, outlived}' \subseteq BOOLEAN
        /\ UNCHANGED <<mode, status, executed, held, procs, cancelRequested, cancelSent,
                       killDeadline, now, killed>>
        /\ (lateTick => outlived)'
    BY <1>9, <1>8 DEF Shutdown
  <2>2. CASE Running(held)
    <3>1. /\ held \in Pids /\ Ask(held) /\ awaited' = held /\ waitUntil' = now + ShutdownTimeout
          /\ phase' = "waiting"
      BY <1>0, <1>9, <2>2 DEF Shutdown, TypeOK, Running
    <3>2. AskedInThePast /\ now \in Nat /\ ShutdownTimeout \in Nat /\ held # None
      BY <1>0, <3>1, RunProcessAssumption DEF IInv, TypeOK, Pids, None
    <3>3. /\ asked' \in [Pids -> Times]
          /\ \A q \in Pids : asked'[q] # Never => asked'[q] <= now
          /\ asked'[held] # Never /\ now + ShutdownTimeout >= asked'[held] + ShutdownTimeout
      BY <1>0, <3>1, <3>2, AskStep
    <3>4. TypeOK'
      BY <1>0, <2>1, <3>1, <3>2, <3>3 DEF TypeOK, Times
    <3>5. CancelGrace'
      <4>1. asked[held] # Never => asked' = asked
        BY <3>1 DEF Ask
      <4>2. killDeadline # Never => asked[held] # Never
        BY <2>2 DEF IInv, CancelGrace
      <4> QED
        BY <2>1, <4>1, <4>2 DEF IInv, CancelGrace, Running
    <3>6. WaitGrace' /\ AskedInThePast' /\ NoneAfterShutdown' /\ LateTickSeen'
      BY <2>1, <3>1, <3>2, <3>3 DEF LateTickSeen, WaitGrace, AskedInThePast, NoneAfterShutdown
    <3> QED
      BY <2>1, <3>4, <3>5, <3>6 DEF IInv, OwnsWhatRuns, NothingBeforeUpdate, Grace
  <2>3. CASE ~Running(held)
    <3>1. phase' = "stopped" /\ UNCHANGED <<awaited, waitUntil, asked>>
      BY <1>9, <2>3 DEF Shutdown
    <3>2. NoneRuns
      BY <2>3 DEF IInv, OwnsWhatRuns, Running, None, Pids, NoneRuns
    <3>3. TypeOK'
      BY <1>0, <2>1, <3>1 DEF TypeOK
    <3>4. NoneAfterShutdown' /\ OwnsWhatRuns' /\ WaitGrace' /\ LateTickSeen'
      BY <2>1, <3>1, <3>2 DEF LateTickSeen, NoneAfterShutdown, OwnsWhatRuns, WaitGrace, NoneRuns
    <3>5. CancelGrace' /\ NothingBeforeUpdate' /\ AskedInThePast' /\ Grace
      BY <2>1, <3>1 DEF IInv, CancelGrace, NothingBeforeUpdate, AskedInThePast, Running, Grace
    <3> QED
      BY <3>3, <3>4, <3>5 DEF IInv
  <2> QED
    BY <2>2, <2>3
<1>10. CASE ShutdownOfSpawnActor
  <2>1. /\ shutdowns' \in 0..MaxShutdowns /\ {lateTick, outlived}' \subseteq BOOLEAN
        /\ UNCHANGED <<mode, status, executed, held, procs, cancelRequested, cancelSent,
                       killDeadline, now, killed>>
        /\ (lateTick => outlived)'
    BY <1>10, <1>8 DEF ShutdownOfSpawnActor
  <2>2. mode.class = "OwnShutdown" /\ phase' = "stopped" /\ UNCHANGED <<awaited, waitUntil, asked>>
    BY <1>10 DEF ShutdownOfSpawnActor
  <2>3. TypeOK'
    BY <1>0, <2>1, <2>2 DEF TypeOK
  <2> QED
    BY <2>1, <2>2, <2>3 DEF IInv, OwnsWhatRuns, NothingBeforeUpdate, CancelGrace, WaitGrace,
        AskedInThePast, NoneAfterShutdown, Running, LateTickSeen, Grace
<1>11. CASE ShutdownEscalates
  <2>1. /\ phase = "waiting" /\ phase' = "killed"
        /\ killed' = killed \cup {awaited}
        /\ awaited \in Pids
        /\ UNCHANGED <<mode, shutdowns, lateTick, awaited, waitUntil, outlived, status, executed,
                       held, procs, cancelVars, now, asked>>
    BY <1>0, <1>11 DEF ShutdownEscalates, Kill, TypeOK, Running
  <2>2. Grace
    <3>1. /\ asked[awaited] # Never /\ waitUntil >= asked[awaited] + ShutdownTimeout
          /\ now >= waitUntil
      BY <1>11, <2>1 DEF IInv, WaitGrace, ShutdownEscalates
    <3>2. /\ asked[awaited] \in Nat /\ waitUntil \in Nat \cup {Never} /\ now \in Nat
          /\ ShutdownTimeout \in Nat
      BY <1>0, <2>1, <3>1, RunProcessAssumption DEF TypeOK, Times
    <3> QED
      BY <2>1, <3>1, <3>2 DEF Grace, Never
  <2> QED
    BY <1>0, <2>1, <2>2 DEF IInv, TypeOK, OwnsWhatRuns, NothingBeforeUpdate, CancelGrace,
        WaitGrace, AskedInThePast, NoneAfterShutdown, Running, LateTickSeen, cancelVars
<1>12. CASE ShutdownWaitsAgain
  BY <1>0, <1>12 DEF ShutdownWaitsAgain, IInv, TypeOK, OwnsWhatRuns, NothingBeforeUpdate,
      CancelGrace, WaitGrace, AskedInThePast, NoneAfterShutdown, Running, LateTickSeen, Grace,
      cancelVars, historyVars
<1>13. CASE ShutdownReaps
  <2>1. /\ phase \in {"waiting", "killing"} /\ phase' = "stopped"
        /\ ~Running(awaited)
        /\ UNCHANGED <<mode, shutdowns, lateTick, awaited, waitUntil, outlived, status, executed,
                       held, procs, cancelVars, now, historyVars>>
    BY <1>13 DEF ShutdownReaps
  <2>2. awaited = held => NoneRuns
    BY <2>1 DEF IInv, OwnsWhatRuns, Running, None, Pids, NoneRuns
  <2> QED
    BY <1>0, <2>1, <2>2 DEF IInv, TypeOK, OwnsWhatRuns, NothingBeforeUpdate, CancelGrace,
        WaitGrace, AskedInThePast, NoneAfterShutdown, Running, LateTickSeen, Grace, cancelVars,
        historyVars, NoneRuns
<1>14. ASSUME NEW p \in Pids, NEW state \in {"exited0", "exited1"}, Exit(p, state)
       PROVE  IInv' /\ Grace
  <2>1. /\ procs' = [procs EXCEPT ![p] = state]
        /\ state # "running"
        /\ UNCHANGED <<mode, teardownVars, status, executed, held, cancelVars, now, historyVars>>
    BY <1>14 DEF Exit
  <2>2. \A q \in Pids : procs'[q] = "running" => procs[q] = "running"
    BY <1>0, <2>1 DEF TypeOK
  <2>3. TypeOK'
    BY <1>0, <2>1 DEF TypeOK, cancelVars, historyVars, teardownVars
  <2>4. Running(held)' => Running(held)
    BY <1>0, <2>1, <2>2 DEF Running, TypeOK
  <2> QED
    BY <2>1, <2>2, <2>3, <2>4 DEF IInv, OwnsWhatRuns, NothingBeforeUpdate, CancelGrace,
        WaitGrace, AskedInThePast, NoneAfterShutdown, LateTickSeen, Grace, cancelVars, historyVars,
        teardownVars, NoneRuns
<1>15. CASE Advance
  <2>1. /\ now' = now + 1 /\ now \in 0..MaxNow /\ now' \in 0..MaxNow
        /\ UNCHANGED <<mode, teardownVars, status, executed, held, procs, cancelVars, historyVars>>
    BY <1>0, <1>15, RunProcessAssumption DEF Advance, TypeOK
  <2>2. TypeOK'
    BY <1>0, <2>1 DEF TypeOK, cancelVars, historyVars, teardownVars
  <2>3. AskedInThePast'
    BY <1>0, <2>1 DEF IInv, AskedInThePast, TypeOK, Times, historyVars
  <2> QED
    BY <2>1, <2>2, <2>3 DEF IInv, OwnsWhatRuns, NothingBeforeUpdate, CancelGrace,
        WaitGrace, NoneAfterShutdown, Running, LateTickSeen, Grace, cancelVars, historyVars,
        teardownVars, NoneRuns
<1> QED
  BY <1>1, <1>2, <1>3, <1>4, <1>5, <1>6, <1>9, <1>11, <1>13, <1>14, <1>15, <1>7, <1>10, <1>12
     DEF Next, Tick, Teardown
-----------------------------------------------------------------------------
(* The theorems                                                            *)

\* The strengthening that carries the theorems below.
THEOREM RunProcessInvariant == Spec => []IInv
<1>1. IInv /\ [Next]_vars => IInv'
  BY StepInv
<1> QED
  BY InitInv, <1>1, PTL DEF Spec

\* Every reachable state of the action is well-typed.
THEOREM RunProcessTyping == Spec => []TypeOK
<1>1. IInv => TypeOK
  BY DEF IInv
<1> QED
  BY RunProcessInvariant, <1>1, PTL

\* However often the action is started over, abandoned or shut down, at most
\* one process runs, and it is the one self.process holds.
THEOREM ProcessOwned == Spec => []OwnsWhatRuns
<1>1. IInv => OwnsWhatRuns
  BY DEF IInv
<1> QED
  BY RunProcessInvariant, <1>1, PTL

\* On the ROS runner no process of a class that keeps RunProcess.shutdown() runs
\* after the scenario, unless a tick was still under way at its last shutdown().
THEOREM ShutdownStopsAll == Spec => []NoneOutlivesShutdown
<1>1. IInv => NoneOutlivesShutdown
  BY DEF IInv, NoneAfterShutdown, NoneOutlivesShutdown
<1> QED
  BY RunProcessInvariant, <1>1, PTL

\* SIGKILL comes no sooner than shutdown_timeout after shutdown_signal.
THEOREM KillLeavesGrace == Spec => GraceBeforeKill
<1>1. IInv /\ [Next]_vars =>
        [\A p \in killed' \ killed : asked[p] # Never /\ now >= asked[p] + ShutdownTimeout]_vars
  BY StepInv DEF Grace
<1> QED
  BY RunProcessInvariant, <1>1, PTL DEF Spec, GraceBeforeKill
=============================================================================
