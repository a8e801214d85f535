------------------------------- MODULE History -------------------------------
(***************************************************************************)
(* The undo and redo stacks of AppState: whole projects, each with its     *)
(* node count, trimmed from the old end when there are more than DEPTH of  *)
(* them or when their counts together exceed MAX_NODES.                    *)
(***************************************************************************)
EXTENDS Integers, Sequences, FiniteSets

CONSTANTS DEPTH, MAX_NODES

ASSUME HistoryAssumption == DEPTH \in Nat \ {0} /\ MAX_NODES \in Nat

\* The nodes of a project, each as its class and position.
NodesOf(p) ==
    UNION {{c} \X DOMAIN p.registry.nodes[c] : c \in p.registry.live}

CountNodes(p) == Cardinality(NodesOf(p))

Snapshot(p) == [project |-> p, count |-> CountNodes(p)]

\* The counts of a sequence of snapshots, together: the size of the disjoint
\* union of their nodes.
Units(s) == UNION {{i} \X (1 .. s[i].count) : i \in DOMAIN s}

Weight(s) == Cardinality(Units(s))

EmptyHistory == [undo |-> <<>>, redo |-> <<>>, nodes |-> 0]

CanUndo(h) == h.undo # <<>>

CanRedo(h) == h.redo # <<>>

-----------------------------------------------------------------------------
\* Variant for a mutant run: one snapshot more than DEPTH may stay.
SurplusOffByOne(grown, nodes) ==
    {d \in 0 .. Len(grown) - 1 :
        \/ d = Len(grown) - 1
        \/ /\ Len(grown) - d <= DEPTH + 1
           /\ nodes - Weight(SubSeq(grown, 1, d)) <= MAX_NODES}

\* How many of the oldest of `grown' may go: as few as bring the rest within
\* both caps, and never the newest.
Surplus(grown, nodes) ==
    {d \in 0 .. Len(grown) - 1 :
        \/ d = Len(grown) - 1
        \/ /\ Len(grown) - d <= DEPTH
           /\ nodes - Weight(SubSeq(grown, 1, d)) <= MAX_NODES}

Least(S) == CHOOSE d \in S : \A e \in S : d <= e

\* Variant for a mutant run: the redo branch survives an edit.
PushKeepingRedo(h, before) ==
    LET grown == Append(h.undo, Snapshot(before))
        nodes == h.nodes + CountNodes(before)
        d     == Least(Surplus(grown, nodes))
    IN  [undo  |-> SubSeq(grown, d + 1, Len(grown)),
         redo  |-> h.redo,
         nodes |-> nodes - Weight(SubSeq(grown, 1, d))]

\* Record `before' as an undo point.
Push(h, before) ==
    LET grown == Append(h.undo, Snapshot(before))
        nodes == h.nodes + CountNodes(before)
        d     == Least(Surplus(grown, nodes))
    IN  [undo  |-> SubSeq(grown, d + 1, Len(grown)),
         redo  |-> <<>>,
         nodes |-> nodes - Weight(SubSeq(grown, 1, d))]

\* Variant for a mutant run: the count of the popped snapshot stays in the total.
UndoneUncounted(h, current) ==
    [undo  |-> SubSeq(h.undo, 1, Len(h.undo) - 1),
     redo  |-> Append(h.redo, Snapshot(current)),
     nodes |-> h.nodes]

\* The stacks after a step back from `current', and the project it lands on.
Undone(h, current) ==
    [undo  |-> SubSeq(h.undo, 1, Len(h.undo) - 1),
     redo  |-> Append(h.redo, Snapshot(current)),
     nodes |-> h.nodes - h.undo[Len(h.undo)].count]

UndoTarget(h) == h.undo[Len(h.undo)].project

Redone(h, current) ==
    [undo  |-> Append(h.undo, Snapshot(current)),
     redo  |-> SubSeq(h.redo, 1, Len(h.redo) - 1),
     nodes |-> h.nodes + CountNodes(current)]

RedoTarget(h) == h.redo[Len(h.redo)].project
=============================================================================
