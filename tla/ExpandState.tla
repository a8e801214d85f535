----------------------------- MODULE ExpandState -----------------------------
(***************************************************************************)
(* Which pointers are followed and which aggregates are folded, keyed by   *)
(* the position of a view and a path in it.  A path is kept by its first   *)
(* segment, the index of a node of the class the view shows.               *)
(***************************************************************************)
EXTENDS Integers

NothingExpanded == [set |-> {}, collapsed |-> {}]

Flip(S, x) == IF x \in S THEN S \ {x} ELSE S \cup {x}

Toggled(x, root, path) == [x EXCEPT !.set = Flip(@, <<root, path>>)]

CollapseToggled(x, root, path) == [x EXCEPT !.collapsed = Flip(@, <<root, path>>)]

Expanded(x, root, path) == [x EXCEPT !.set = @ \cup {<<root, path>>}]

ButRoot(S, root) == {e \in S : e[1] # root}

\* clear_root and then one expand for each of `paths'.
ExpandedOnly(x, root, paths) ==
    [set |-> ButRoot(x.set, root) \cup ({root} \X paths),
     collapsed |-> ButRoot(x.collapsed, root)]

\* clear_root and then one mark_collapsed for each of `paths'.
CollapsedOnly(x, root, paths) ==
    [set |-> ButRoot(x.set, root),
     collapsed |-> ButRoot(x.collapsed, root) \cup ({root} \X paths)]

\* Variant for a mutant run: the views behind keep their position.
ShiftNothing(S, idx) == ButRoot(S, idx)

\* The view at idx is gone, and those behind it have moved up.
Shift(S, idx) ==
    {<<IF e[1] > idx THEN e[1] - 1 ELSE e[1], e[2]>> : e \in ButRoot(S, idx)}

RootDropped(x, idx) ==
    [set |-> Shift(x.set, idx), collapsed |-> Shift(x.collapsed, idx)]
=============================================================================
