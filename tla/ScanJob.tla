------------------------------- MODULE ScanJob -------------------------------
(***************************************************************************)
(* The pointer scan window and its workers.  A frame of the GUI thread     *)
(* looks whether a run is going, and offers a button for the one or the    *)
(* other case; each run is a thread of its own, which nothing stops.  What *)
(* they share is one mutex-guarded state and a flag per run.               *)
(***************************************************************************)
EXTENDS Integers, FiniteSets

CONSTANT MaxRuns  \* bound: scans started in a session

ASSUME ScanAssumption == MaxRuns \in Nat

Runs == 1 .. MaxRuns

\* The flag that a job has before its first run.
NoRun == 0

Outcomes == {"Done", "Failed"}

VARIABLES
    state,      \* ScanState, with the run it is of
    abandoned,  \* per run: the flag its worker was given
    current,    \* the run whose flag the job holds
    worker,     \* per run: how far its thread is
    frame,      \* how far the GUI thread is
    running     \* what the frame saw when it looked

vars == <<state, abandoned, current, worker, frame, running>>

Init ==
    /\ state = [tag |-> "Idle", run |-> NoRun]
    /\ abandoned = [r \in {NoRun} \cup Runs |-> FALSE]
    /\ current = NoRun
    /\ worker = [r \in Runs |-> [at |-> "unborn", outcome |-> "none"]]
    /\ frame = "between"
    /\ running = FALSE

-----------------------------------------------------------------------------
(* The GUI thread.                                                         *)

BeginFrame ==
    /\ frame = "between"
    /\ running' = (state.tag = "Running")
    /\ frame' = "drawing"
    /\ UNCHANGED <<state, abandoned, current, worker>>

EndFrame ==
    /\ frame \in {"drawing", "drawn"}
    /\ frame' = "between"
    /\ UNCHANGED <<state, abandoned, current, worker, running>>

\* Variant for a mutant run: a new run leaves the one before its flag.
DisownNobody ==
    /\ frame = "drawing" /\ ~running /\ current < MaxRuns
    /\ frame' = "starting"
    /\ UNCHANGED <<state, abandoned, current, worker, running>>

\* start: disown the run before ...
Disown ==
    /\ frame = "drawing" /\ ~running /\ current < MaxRuns
    /\ abandoned' = [abandoned EXCEPT ![current] = TRUE]
    /\ frame' = "starting"
    /\ UNCHANGED <<state, current, worker, running>>

\* Variant for a mutant run: the new run goes on with the flag that was just set.
SetRunningOldFlag ==
    /\ frame = "starting"
    /\ current' = current + 1
    /\ state' = [tag |-> "Running", run |-> current + 1]
    /\ abandoned' = [abandoned EXCEPT ![current + 1] = TRUE]
    /\ frame' = "spawning"
    /\ UNCHANGED <<worker, running>>

\* ... take a new flag, lock the state and set it ...
SetRunning ==
    /\ frame = "starting"
    /\ current' = current + 1
    /\ state' = [tag |-> "Running", run |-> current + 1]
    /\ frame' = "spawning"
    /\ UNCHANGED <<abandoned, worker, running>>

\* ... and spawn the worker.
Spawn ==
    /\ frame = "spawning"
    /\ worker' = [worker EXCEPT ![current].at = "scanning"]
    /\ frame' = "drawn"
    /\ UNCHANGED <<state, abandoned, current, running>>

\* abandon: the flag, then the state.
Abandon ==
    /\ frame = "drawing" /\ running
    /\ abandoned' = [abandoned EXCEPT ![current] = TRUE]
    /\ frame' = "abandoning"
    /\ UNCHANGED <<state, current, worker, running>>

\* Variant for a mutant run: abandoning sets the flag only.
SetIdleForgotten ==
    /\ frame = "abandoning"
    /\ frame' = "drawn"
    /\ UNCHANGED <<state, abandoned, current, worker, running>>

SetIdle ==
    /\ frame = "abandoning"
    /\ state' = [tag |-> "Idle", run |-> NoRun]
    /\ frame' = "drawn"
    /\ UNCHANGED <<abandoned, current, worker, running>>

-----------------------------------------------------------------------------
(* The worker of run r.                                                    *)

Finish(r, outcome) ==
    /\ worker[r].at = "scanning"
    /\ worker' = [worker EXCEPT ![r] = [at |-> "finished", outcome |-> outcome]]
    /\ UNCHANGED <<state, abandoned, current, frame, running>>

\* Variant for a mutant run: the worker does not look at its flag.
LoadNoFlag(r) ==
    /\ worker[r].at = "finished"
    /\ worker' = [worker EXCEPT ![r].at = "reporting"]
    /\ UNCHANGED <<state, abandoned, current, frame, running>>

LoadFlag(r) ==
    /\ worker[r].at = "finished"
    /\ worker' = [worker EXCEPT ![r].at = IF abandoned[r] THEN "ended" ELSE "reporting"]
    /\ UNCHANGED <<state, abandoned, current, frame, running>>

Report(r) ==
    /\ worker[r].at = "reporting"
    /\ state' = [tag |-> worker[r].outcome, run |-> r]
    /\ worker' = [worker EXCEPT ![r].at = "ended"]
    /\ UNCHANGED <<abandoned, current, frame, running>>

-----------------------------------------------------------------------------
\* What a click has begun, which the GUI thread goes on with.
Clicked == SetRunning \/ Spawn \/ SetIdle

Gui == BeginFrame \/ Disown \/ Abandon \/ Clicked \/ EndFrame

Worker(r) ==
    \/ \E outcome \in Outcomes : Finish(r, outcome)
    \/ LoadFlag(r)
    \/ Report(r)

Next == Gui \/ \E r \in Runs : Worker(r)

\* A scan is bounded by its depth and its result cap, so that a worker comes
\* to its end; nobody has to click.
Fairness == WF_vars(Clicked) /\ \A r \in Runs : WF_vars(Worker(r))

Spec == Init /\ [][Next]_vars /\ Fairness

-----------------------------------------------------------------------------
TypeOK ==
    /\ state \in [tag : {"Idle", "Running"} \cup Outcomes, run : {NoRun} \cup Runs]
    /\ abandoned \in [{NoRun} \cup Runs -> BOOLEAN]
    /\ current \in {NoRun} \cup Runs
    /\ worker \in [Runs -> [at : {"unborn", "scanning", "finished", "reporting", "ended"},
                           outcome : {"none"} \cup Outcomes]]
    /\ frame \in {"between", "drawing", "starting", "spawning", "abandoning", "drawn"}
    /\ running \in BOOLEAN

InFlight(r) == worker[r].at \in {"scanning", "finished", "reporting"}

\* The window says "scanning" only while the worker it waits for is alive and
\* is still listened to, or while a click is being carried out: it never waits
\* for nobody, whatever older workers are still about.
RunningIsBacked ==
    state.tag = "Running" /\ frame \notin {"spawning", "abandoning"} =>
        InFlight(current) /\ ~abandoned[current]

\* One result at most is awaited: a new run disowns the one before, also one
\* that an older worker's late result has hidden from the window.
OneAwaited == Cardinality({r \in Runs : InFlight(r) /\ ~abandoned[r]}) <= 1

\* A run that was disowned before its worker looked at the flag is never shown.
DisownedStaysSilent == \A r \in Runs :
    [](abandoned[r] /\ worker[r].at \in {"scanning", "finished"}
         => [](state.tag \in Outcomes => state.run # r))

\* A scan that is running stops running, even if nobody touches the window.
ScanEnds == state.tag = "Running" ~> state.tag # "Running"

\* A late worker drops its result instead of overwriting whatever the window
\* shows by then (crates/app/src/gui/scan.rs:42).
LateResultDropped == [][
    state' # state /\ state'.tag \in Outcomes => ~abandoned[state'.run]]_vars
=============================================================================
