------------------------------ MODULE Tracker ------------------------------
(***************************************************************************)
(* The access tracker of backend-vmem: one call of watch, which attaches   *)
(* to a process, arms a debug register, lets it run from stop to stop      *)
(* until the deadline, disarms and detaches.                               *)
(*                                                                         *)
(* The process runs on its own: it touches the watched address, is sent a  *)
(* signal, may die at any time.  Of the kernel's ptrace this much is       *)
(* modelled: a traced process stops for every signal before it gets it,    *)
(* and goes on with the signal that PTRACE_CONT names; PTRACE_ATTACH sends *)
(* SIGSTOP; a SIGSTOP that reaches a process nobody traces halts it; the   *)
(* trap of an armed register kills a process nobody traces.                *)
(***************************************************************************)
EXTENDS Naturals

CONSTANTS MaxHits,     \* max_hits of the call, 0 for no limit
          MaxAccesses  \* bound: times the process touches the address

ASSUME TrackerAssumption == MaxHits \in Nat /\ MaxAccesses \in Nat

VARIABLES
    \* the process
    run,      \* "running", "stopped" by the tracer, "halted", "dead", or "reaped"
    stop,     \* what it stopped for
    pending,  \* signals it has still to take
    traced,
    armed,    \* DR7 traps accesses
    accesses, \* times it touched the address
    sent,     \* signals it was sent by others
    got,      \* of those, how many reached it
    \* the call
    pc,
    status,   \* what waitpid reported
    deliver,  \* signal for the next PTRACE_CONT
    hits,
    late,     \* the deadline has passed
    early     \* a signal came before the stop of the attach

process == <<run, stop, pending, traced, armed, accesses, sent, got>>

call == <<pc, status, deliver, hits, early>>

vars == <<process, call, late>>

None == "none"

Signal == {None, "STOP", "TRAP", "USR"}

Phases == {"begin", "attached", "arm0", "arm7", "cont", "poll", "reap", "judge",
           "disarm", "detach", "done"}

TypeOK ==
    /\ run \in {"running", "stopped", "halted", "dead", "reaped"}
    /\ stop \in Signal
    /\ pending \subseteq Signal
    /\ traced \in BOOLEAN
    /\ armed \in BOOLEAN
    /\ late \in BOOLEAN
    /\ early \in BOOLEAN
    /\ accesses \in 0 .. MaxAccesses
    /\ sent \in {0, 1}
    /\ got \in Nat
    /\ pc \in Phases
    /\ status \in Signal \cup {"exited"}
    /\ deliver \in Signal
    /\ hits \in 0 .. MaxAccesses

Init ==
    /\ run = "running"
    /\ stop = None
    /\ pending = {}
    /\ traced = FALSE
    /\ armed = FALSE
    /\ accesses = 0
    /\ sent = 0
    /\ got = 0
    /\ pc = "begin"
    /\ status = None
    /\ deliver = None
    /\ hits = 0
    /\ late = FALSE
    /\ early = FALSE

Alive == run \notin {"dead", "reaped"}

-----------------------------------------------------------------------------
(* The process.                                                            *)

\* It touches the watched address.
Touch ==
    /\ run = "running"
    /\ armed
    /\ accesses < MaxAccesses
    /\ accesses' = accesses + 1
    /\ run' = IF traced THEN "stopped" ELSE "dead"
    /\ stop' = IF traced THEN "TRAP" ELSE None
    /\ armed' = traced
    /\ UNCHANGED <<pending, traced, sent, got, call, late>>

\* Another process sends it a signal that it handles.
SendSignal ==
    /\ Alive
    /\ sent = 0
    /\ sent' = 1
    /\ pending' = pending \cup {"USR"}
    /\ UNCHANGED <<run, stop, traced, armed, accesses, got, call, late>>

\* It takes a signal: stops with it under a tracer, and has it otherwise.
TakeSignal ==
    /\ run = "running"
    /\ \E sig \in pending :
         /\ pending' = pending \ {sig}
         /\ stop' = IF traced THEN sig ELSE None
         /\ run' = IF traced THEN "stopped" ELSE IF sig = "STOP" THEN "halted" ELSE run
         /\ got' = IF ~traced /\ sig = "USR" THEN got + 1 ELSE got
    /\ UNCHANGED <<traced, armed, accesses, sent, call, late>>

\* It ends, or is killed.
Die ==
    /\ Alive
    /\ run' = "dead"
    /\ stop' = None
    /\ armed' = FALSE
    /\ UNCHANGED <<pending, traced, accesses, sent, got, call, late>>

\* Time goes by.
Deadline ==
    /\ ~late
    /\ pc \notin {"begin", "attached", "arm0", "arm7", "done"}
    /\ late' = TRUE
    /\ UNCHANGED <<process, call>>

-----------------------------------------------------------------------------
(* The call.                                                               *)

Goto(p) == pc' = p

\* A size that is none, an address that is not aligned, or no right to trace.
Refuse ==
    /\ pc = "begin"
    /\ Goto("done")
    /\ UNCHANGED <<process, status, deliver, hits, early, late>>

Attach ==
    /\ pc = "begin"
    /\ Alive
    /\ traced' = TRUE
    /\ pending' = pending \cup {"STOP"}
    /\ Goto("attached")
    /\ UNCHANGED <<run, stop, armed, accesses, sent, got, status, deliver, hits, early, late>>

\* waitpid: a stop or the end of the process, whichever it is.
Reap ==
    /\ run \in {"stopped", "dead"}
    /\ status' = IF run = "dead" THEN "exited" ELSE stop
    /\ run' = IF run = "dead" THEN "reaped" ELSE run
    /\ traced' = (traced /\ run # "dead")
    /\ UNCHANGED <<stop, pending, armed, accesses, sent, got>>

\* The stop of the attach is waited for; what comes is not looked at.
AwaitStop ==
    /\ pc = "attached"
    /\ Reap
    /\ early' = (run = "stopped" /\ stop # "STOP")
    /\ Goto("arm0")
    /\ UNCHANGED <<deliver, hits, late>>

\* DR0 gets the address; the kernel may refuse it.
PokeAddress ==
    /\ pc = "arm0"
    /\ Goto(IF run = "stopped" THEN "arm7" ELSE "disarm")
    /\ UNCHANGED <<process, status, deliver, hits, early, late>>

PokeRefused ==
    /\ pc \in {"arm0", "arm7"}
    /\ Goto("disarm")
    /\ UNCHANGED <<process, status, deliver, hits, early, late>>

Arm ==
    /\ pc = "arm7"
    /\ run = "stopped"
    /\ armed' = TRUE
    /\ Goto("cont")
    /\ UNCHANGED <<run, stop, pending, traced, accesses, sent, got, status, deliver, hits,
                   early, late>>

\* Variant for a mutant run: the signal to deliver is not reset.
ContinueAgain ==
    /\ pc = "cont"
    /\ run = "stopped"
    /\ run' = "running"
    /\ stop' = None
    /\ got' = IF deliver = "USR" THEN got + 1 ELSE got
    /\ Goto("poll")
    /\ UNCHANGED <<pending, traced, armed, accesses, sent, status, deliver, hits, early, late>>

\* PTRACE_CONT, with the signal the process stopped for if it was one.
Continue ==
    /\ pc = "cont"
    /\ run = "stopped"
    /\ run' = "running"
    /\ stop' = None
    /\ got' = IF deliver = "USR" THEN got + 1 ELSE got
    /\ deliver' = None
    /\ Goto("poll")
    /\ UNCHANGED <<pending, traced, armed, accesses, sent, status, hits, early, late>>

ContinueFails ==
    /\ pc = "cont"
    /\ ~Alive
    /\ Goto("disarm")
    /\ UNCHANGED <<process, status, deliver, hits, early, late>>

Poll ==
    /\ pc = "poll"
    /\ Reap
    /\ Goto("judge")
    /\ UNCHANGED <<deliver, hits, early, late>>

\* Variant for a mutant run: the process is waited for without a deadline.
InterruptNever == FALSE /\ UNCHANGED vars

\* The deadline passes while the process runs: it is stopped.
Interrupt ==
    /\ pc = "poll"
    /\ run = "running"
    /\ late
    /\ pending' = pending \cup {"STOP"}
    /\ Goto("reap")
    /\ UNCHANGED <<run, stop, traced, armed, accesses, sent, got, status, deliver, hits,
                   early, late>>

\* The stop is waited for; another one may have come first.
ReapStop ==
    /\ pc = "reap"
    /\ Reap
    /\ Goto("judge")
    /\ UNCHANGED <<deliver, hits, early, late>>

\* A trap is a hit, if the process is still there to be asked for its RIP.
HitsNow == IF status = "TRAP" /\ run = "stopped" THEN hits + 1 ELSE hits

\* What a stop ends the call for: the end of the process, enough hits, a
\* SIGSTOP, or the deadline.
Ends ==
    \/ status \in {"exited", "STOP"}
    \/ status = "TRAP" /\ MaxHits > 0 /\ HitsNow >= MaxHits
    \/ late

\* A signal of the process is kept for it.
Judge ==
    /\ pc = "judge"
    /\ hits' = HitsNow
    /\ deliver' = IF status = "USR" THEN "USR" ELSE deliver
    /\ Goto(IF Ends THEN "disarm" ELSE "cont")
    /\ UNCHANGED <<process, status, early, late>>

\* Variant for a mutant run: it detaches first, and cannot disarm then.
DisarmLate ==
    /\ pc = "disarm"
    /\ Goto("detach")
    /\ UNCHANGED <<process, status, deliver, hits, early, late>>

\* cleanup: DR7 is cleared, and the process let go without a signal.  Both are
\* errors that nobody looks at if it is dead.
Disarm ==
    /\ pc = "disarm"
    /\ armed' = (armed /\ run # "stopped")
    /\ Goto("detach")
    /\ UNCHANGED <<run, stop, pending, traced, accesses, sent, got, status, deliver, hits,
                   early, late>>

Detach ==
    /\ pc = "detach"
    /\ run' = IF run = "stopped" THEN "running" ELSE run
    /\ stop' = IF run = "stopped" THEN None ELSE stop
    /\ traced' = (traced /\ run # "stopped" /\ run # "dead")
    /\ Goto("done")
    /\ UNCHANGED <<pending, armed, accesses, sent, got, status, deliver, hits, early, late>>

-----------------------------------------------------------------------------
Process == Touch \/ SendSignal \/ TakeSignal \/ Die

Watch ==
    \/ Refuse
    \/ Attach
    \/ AwaitStop
    \/ PokeAddress
    \/ PokeRefused
    \/ Arm
    \/ Continue
    \/ ContinueFails
    \/ Poll
    \/ Interrupt
    \/ ReapStop
    \/ Judge
    \/ Disarm
    \/ Detach

Next == Process \/ Deadline \/ Watch

\* The thread that called goes on, time passes, and the kernel lets a running
\* process take its signals.
Fairness == WF_vars(Watch) /\ WF_vars(Deadline) /\ WF_vars(TakeSignal)

Spec == Init /\ [][Next]_vars /\ Fairness

-----------------------------------------------------------------------------
\* Whatever the process does meanwhile, the watchpoint never outlives the
\* tracer: armed without one, its next access would kill it; and when the call
\* is over the process is not traced, nor stopped for a tracer that is gone.
TargetUnharmed ==
    /\ armed => traced
    /\ pc = "done" => ~traced /\ run # "stopped"

\* While the tracker waits for hits, a signal sent to the process is on its way,
\* or in the hands of the tracker, or has reached it, exactly once: "any other
\* signal the tracee receives is forwarded so we don't silently alter its
\* behaviour".  Nothing is said of a call whose attach reaped a signal for its
\* own stop (early), nor of one past its deadline (late), which reaps whatever
\* stop comes first, nor of the detach.
SignalsForwarded ==
    Alive /\ ~late /\ ~early /\ pc \in {"cont", "poll", "reap", "judge"} =>
        sent = got + (IF "USR" \in pending THEN 1 ELSE 0)
                   + (IF stop = "USR" THEN 1 ELSE 0)

\* The process is watched and nothing else happens to it.
TargetUndisturbed == TargetUnharmed /\ SignalsForwarded

\* A call returns, also when nothing ever touches the address.
WatchEnds == <>(pc = "done")

\* "SIGSTOP is never left dangling for a detached or reused pid": the process
\* does not come to a halt by the tracker's own signal.
NoStopLeft == run # "halted"
=============================================================================
