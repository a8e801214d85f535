----------------------------- MODULE RowSearch -----------------------------
(***************************************************************************)
(* The search box of the node table: of the rows of the view that is open, *)
(* in a snapshot, those whose columns match a query and those above them.  *)
(***************************************************************************)
EXTENDS Snapshot

CONSTANTS Queries,        \* what may be typed
          NoQuery,        \* nothing, or blanks
          Matches(_, _)   \* matches: whether a row's columns hold a query

\* The rows of a view, in order.
OfView(list, v) ==
    LET found[k \in 0 .. Len(list)] ==
            IF k = 0 THEN <<>>
            ELSE IF list[k].root = v THEN Append(found[k - 1], list[k]) ELSE found[k - 1]
    IN  found[Len(list)]

\* Variant for a mutant run: what is owed stays the first of all.
KeptOnce(acc, row, i, query) ==
    IF Matches(row, query) \/ row.depth < acc.needed
    THEN [keep   |-> acc.keep \cup {i},
          needed |-> IF acc.needed = 0 THEN row.depth ELSE acc.needed] ELSE acc

\* One step of the backward pass, by what is owed a shallower row.
Kept(acc, row, i, query) ==
    IF Matches(row, query) \/ row.depth < acc.needed
    THEN [keep |-> acc.keep \cup {i}, needed |-> row.depth] ELSE acc

\* filter_rows: the rows that stay, as their places.
FilterRows(list, query) ==
    LET n == Len(list)
        pass[k \in 0 .. n] ==
            IF k = 0 THEN [keep |-> {}, needed |-> 0]
            ELSE Kept(pass[k - 1], list[n - k + 1], n - k + 1, query)
    IN  IF query = NoQuery THEN 1 .. n ELSE pass[n].keep

-----------------------------------------------------------------------------
\* The rows under a row: those that follow it as long as they are deeper.
Under(list, i) ==
    {j \in i + 1 .. Len(list) : \A k \in i + 1 .. j : list[k].depth > list[i].depth}

\* What is looked for, and what that is reached through.
Belongs(list, i, query) ==
    \E j \in {i} \cup Under(list, i) : Matches(list[j], query)

\* search.rs: of the rows of a view the filter leaves those that match and those
\* they are reached through, and no others, by the depths alone; and whatever it
\* leaves hangs from a row one less deep that it leaves too, up to a root.
FilterKeepsBranches ==
    \A v \in DOMAIN Roots, query \in Queries \cup {NoQuery} :
        LET all  == OfView(rows, v)
            kept == FilterRows(all, query)
        IN  /\ query # NoQuery => kept = {i \in DOMAIN all : Belongs(all, i, query)}
            /\ \A i \in kept : all[i].depth > 0 =>
                   \E k \in kept : all[i].depth = all[k].depth + 1 /\ i \in Under(all, k)
=============================================================================
