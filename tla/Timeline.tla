------------------------------ MODULE Timeline ------------------------------
(***************************************************************************)
(* What undo and redo promise a user: the documents of the session stand   *)
(* in one line, and the user is at one of them.  An edit cuts off what is  *)
(* ahead and adds a document there; it may forget old ones, never the one  *)
(* it started from.  Undo and redo only move along the line.               *)
(***************************************************************************)
EXTENDS Integers, Sequences

VARIABLES line,  \* every document that undo or redo can come to, and this one
          at     \* the position of this one

vars == <<line, at>>

Init == at = 1 /\ Len(line) = 1

\* `d' documents are forgotten.
Edit == \E d \in 0 .. at - 1 :
    /\ at' = at - d + 1
    /\ Len(line') = at'
    /\ SubSeq(line', 1, at' - 1) = SubSeq(line, d + 1, at)

StepBack == at > 1 /\ at' = at - 1 /\ UNCHANGED line

StepForward == at < Len(line) /\ at' = at + 1 /\ UNCHANGED line

\* The document changes where it stands: views open and close, and so do
\* the edits that record no undo point.
Amend ==
    /\ at' = at
    /\ DOMAIN line' = DOMAIN line
    /\ \A i \in DOMAIN line \ {at} : line'[i] = line[i]

\* Another document is opened, and the line starts anew.
Reset == at' = 1 /\ Len(line') = 1

Next == Edit \/ StepBack \/ StepForward \/ Amend \/ Reset

Spec == Init /\ [][Next]_vars
=============================================================================
