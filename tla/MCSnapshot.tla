----------------------------- MODULE MCSnapshot -----------------------------
(***************************************************************************)
(* Snapshot for TLC: a class with an array of instances that hold pointers,*)
(* a class with a string and a pointer back, an array of an empty class,   *)
(* and a view of that class, over sixteen addresses.                       *)
(***************************************************************************)
EXTENDS RowSearch, TLC

MCNodes ==
    ("A" :> <<Data(1), ClassPtr("B"), ArrayOf(Instance("P"), 3)>>)
    @@ ("P" :> <<Data(1), ClassPtr("B")>>)
    @@ ("B" :> <<PtrText(3), ClassPtr("A"), ArrayOf(Instance("E"), 2)>>)
    @@ ("E" :> <<>>)

MCKinds ==
    UNION {{MCNodes[c][i] : i \in DOMAIN MCNodes[c]} : c \in DOMAIN MCNodes}
    \cup {Instance("P"), Instance("E")}

MCRoots == <<[cls |-> "A", base |-> 0], [cls |-> "E", base |-> 5], [cls |-> "B", base |-> 12]>>

\* A at 0 and B at 12, which point to one another and into A.
Whole == [a \in 0 .. 15 |-> <<1, 0, 3, 1, 0, 3, 2, 0, 0, 3, 1, 2, 1, 2, 0, 0>>[a + 1]]

Without(image, addrs) == [a \in DOMAIN image \ addrs |-> image[a]]

MCImages ==
    {Whole,
     [Whole EXCEPT ![1] = 1, ![2] = 1, ![4] = 2],  \* other pointers
     Without(Whole, {14, 15}),                     \* B is cut off behind its string
     Without(Whole, 5 .. 8)}                       \* A is cut off within a pointer

MCExpansions ==
    {[expanded |-> {<<1, <<1>>>>, <<1, <<2, 0, 1>>>>, <<1, <<2, 1, 1>>>>, <<1, <<1, 1>>>>,
                    <<1, <<1, 1, 1>>>>},
      collapsed |-> {}],
     [expanded |-> {<<1, <<2, 0, 1>>>>, <<3, <<1>>>>, <<3, <<1, 2, 0, 1>>>>},
      collapsed |-> {<<1, <<2>>>>}]}

\* An address or an offset, or a kind.
MCQueries == {[at |-> n, tag |-> "none"] : n \in 0 .. 15}
             \cup {[at |-> -1, tag |-> t] : t \in {"data", "class_ptr", "text", "array"}}

MCNoQuery == [at |-> -1, tag |-> "none"]

MCMatches(row, query) ==
    row.offset = query.at \/ row.address = query.at \/ row.kind.tag = query.tag
=============================================================================
