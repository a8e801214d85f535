----------------------------- MODULE EditorLoops -----------------------------
(***************************************************************************)
(* The loops of the code against the closed forms that Registry, History   *)
(* and Editor use, and against what they are for, in every state that      *)
(* Editor reaches.                                                         *)
(***************************************************************************)
EXTENDS Editor, RegistryLoops

\* Variant for a mutant run: the newest snapshot may go as well.
TrimLoopToNothing(h, before) ==
    LET grown == Append(h.undo, Snapshot(before))
        trim[at \in Nat \X Int] ==
            LET d     == at[1]
                nodes == at[2]
            IN  IF Len(grown) - d > 0 /\ (Len(grown) - d > DEPTH \/ nodes > MAX_NODES)
                THEN trim[<<d + 1, nodes - grown[d + 1].count>>]
                ELSE [undo  |-> SubSeq(grown, d + 1, Len(grown)),
                      redo  |-> <<>>,
                      nodes |-> nodes]
    IN  trim[<<0, h.nodes + CountNodes(before)>>]

\* History::push: one snapshot after the other is dropped.
TrimLoop(h, before) ==
    LET grown == Append(h.undo, Snapshot(before))
        trim[at \in Nat \X Int] ==
            LET d     == at[1]
                nodes == at[2]
            IN  IF Len(grown) - d > 1 /\ (Len(grown) - d > DEPTH \/ nodes > MAX_NODES)
                THEN trim[<<d + 1, nodes - grown[d + 1].count>>]
                ELSE [undo  |-> SubSeq(grown, d + 1, Len(grown)),
                      redo  |-> <<>>,
                      nodes |-> nodes]
    IN  trim[<<0, h.nodes + CountNodes(before)>>]

-----------------------------------------------------------------------------
\* The guard refuses an inline instance exactly when it would close a cycle:
\* the work list of would_cycle finds every nesting, through classes that are
\* open, closed, shared or gone, and no other.
GuardExact ==
    \A p \in registry.live, c \in Ids :
        /\ CycleWalk(registry, p, c) = WouldCycle(registry, p, c)
        /\ Acyclic(registry) =>
              (CycleWalk(registry, p, c)
                 <=> ~Acyclic(NodesPushed(registry, p, <<Plain(Instance(c))>>)))

\* Project::load refuses exactly the registries with an inline cycle: the
\* depth-first search of validate visits each class once and misses none.
\* Each node of the registry is turned towards each class in turn, for the
\* registries the editor itself has no cycle in.
SearchExact ==
    \A c \in registry.live : \A i \in DOMAIN registry.nodes[c], d \in registry.live :
        LET reg == KindSet(registry, c, i - 1, Instance(d))
        IN  DepthFirst(reg) = Acyclic(reg)

\* delete_many takes out the nodes that were selected and no other, whatever
\* the selection spans and however stale it is.
DeletesSelection ==
    \A targets \in Selections : DeleteLoop(registry, targets) = NodesDeleted(registry, targets)

\* paste_nodes keeps the clipboard's order, and pastes all of it or nothing.
PastesInOrder ==
    \A c \in registry.live, pos \in 0 .. MaxNodes :
        PasteLoop(registry, c, pos, clipboard) = NodesInserted(registry, c, pos, clipboard)

\* The selected classes are removed in the order of a hash set, which differs
\* from run to run: what is left is the same in every order, down to the bytes
\* left where one of them held another.
RemovesInAnyOrder ==
    \A gone \in SUBSET registry.live : \A s, t \in SetToSeqs(gone) :
        RemoveLoop(registry, s) = RemoveLoop(registry, t)

\* The loops over the class graph do what they are for: the guard, the search
\* of validate, delete_many, paste_nodes and the removal of several classes.
LoopsExact ==
    /\ GuardExact
    /\ SearchExact
    /\ DeletesSelection
    /\ PastesInOrder
    /\ RemovesInAnyOrder

\* The trimming loop drops no more than the caps ask for, and its running
\* count is that of what it keeps, which is the sum over the undo stack.
TrimsLeast == CountsExact /\ TrimLoop(history, project) = Push(history, project)
=============================================================================
