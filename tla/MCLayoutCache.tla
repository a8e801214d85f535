---------------------------- MODULE MCLayoutCache ----------------------------
(***************************************************************************)
(* LayoutCache for TLC: three classes that hold one another, singly and in *)
(* arrays, and a pointer, the width of which may change.                   *)
(***************************************************************************)
EXTENDS LayoutCache

MCLabels == {"none"}

MCKinds == {Pointer, Instance(0), Instance(1)}

Three == ClassAdded(ClassAdded(ClassAdded(EmptyRegistry, NoLabel), NoLabel), NoLabel)

Holding(r, c, kinds) ==
    NodesPushed(r, c, [i \in DOMAIN kinds |-> Plain(kinds[i])])

\* Class 2 holds three of class 1, which holds class 0 and a pointer.
MCNested ==
    Holding(Holding(Holding(Three, 0, <<Scalar(4)>>), 1, <<Instance(0), Pointer>>),
            2, <<ArrayOf(Instance(1), 3), Pointer>>)

\* Classes 0 and 1 hold one another, as a plugin may leave them, and class 2
\* holds class 1.
MCCyclic ==
    Holding(Holding(Holding(Three, 0, <<Instance(1), Scalar(4)>>), 1, <<Instance(0), Pointer>>),
            2, <<Instance(1)>>)

MCStarts == {EmptyRegistry, MCNested, MCCyclic}

-----------------------------------------------------------------------------
CONSTANT MaxCalls  \* bound: calls of a session

VARIABLE calls

MCInit == Init /\ calls = 0

MCNext == calls < MaxCalls /\ Next /\ calls' = calls + 1

MCSpec == MCInit /\ [][MCNext]_<<vars, calls>>
=============================================================================
