---------------------------- MODULE RegistryLoops ----------------------------
(***************************************************************************)
(* The loops over the class graph, as they run.  Registry states what they *)
(* come to in closed form; here they go from class to class and from node  *)
(* to node as the code does, as functions that can be proved about.        *)
(***************************************************************************)
EXTENDS Registry

\* The work list of would_cycle names a class at most once.
WorkLists == {seen \in Seq(Ids) : IsInjective(seen)}

\* The work list after the nodes of a class, each class they hold noted once.
WithInlined(seen, ns) ==
    LET noted[j \in 0 .. Len(ns)] ==
            LET last == noted[j - 1]
                k    == ns[j].kind
            IN  IF j = 0 THEN seen
                ELSE IF Inline(k) \subseteq ToSet(last) THEN last
                ELSE Append(last, k.arg)
    IN  noted[Len(ns)]

\* Variant for a mutant run: only what the child holds itself.
CycleLook(reg, parent, child) == parent = child \/ parent \in InlineOf(reg, child)

\* would_cycle: a work list `seen' and the position `i' in it.
CycleWalk(reg, parent, child) ==
    LET walk[at \in (1 .. MaxId + 1) \X WorkLists] ==
            LET i    == at[1]
                seen == at[2]
            IN  IF i > Len(seen) THEN FALSE
                ELSE \/ seen[i] = parent
                     \/ walk[<<i + 1, WithInlined(seen, reg.nodes[seen[i]])>>]
    IN  parent = child \/ walk[<<1, <<child>>>>]

-----------------------------------------------------------------------------
(* The depth-first search of validate.  A search returns whether it met no *)
(* class of its own path, and the classes that are done.                   *)

\* The nodes of a class one after the other, up to the first cycle; `below'
\* is what the search finds from a class with the classes done so far.
Descended(below, ns, done) ==
    LET after[j \in 0 .. Len(ns)] ==
            LET last == after[j - 1]
                k    == ns[j].kind
            IN  IF j = 0 THEN <<TRUE, done>>
                ELSE IF last[1] /\ Inline(k) # {} THEN below[<<k.arg, last[2]>>]
                ELSE last
    IN  after[Len(ns)]

\* Variant for a mutant run: a class met twice counts as a cycle.
SearchedOnce(id, path, done, found) ==
    IF id \in done \cup path THEN <<FALSE, done>>
    ELSE <<found[1], IF found[1] THEN found[2] \cup {id} ELSE found[2]>>

\* dfs of a class, with what it found from its nodes.
Searched(id, path, done, found) ==
    IF id \in done THEN <<TRUE, done>>
    ELSE IF id \in path THEN <<FALSE, done>>
    ELSE <<found[1], IF found[1] THEN found[2] \cup {id} ELSE found[2]>>

\* dfs: a class, the path to it, and the classes done.
Search(reg) ==
    LET dfs[at \in Ids \X (SUBSET Ids) \X (SUBSET Ids)] ==
            LET id    == at[1]
                path  == at[2]
                done  == at[3]
                below == [b \in Ids \X (SUBSET Ids) |-> dfs[<<b[1], path \cup {id}, b[2]>>]]
            IN  Searched(id, path, done, Descended(below, reg.nodes[id], done))
    IN  dfs

\* The search of validate, from the classes in id order: whether it ends
\* without a cycle.
DepthFirst(reg) ==
    LET upto[c \in 0 .. MaxId] ==
            LET last == upto[c - 1]
            IN  IF c = 0 THEN <<TRUE, {}>>
                ELSE IF last[1] /\ c - 1 \in reg.live THEN Search(reg)[<<c - 1, {}, last[2]>>]
                ELSE last
    IN  upto[MaxId][1]

-----------------------------------------------------------------------------
(* Edits of several rows or classes.                                       *)

\* Variant for a mutant run: from the lowest index up.
SweptUpwards(reg, c, targets) ==
    LET after[k \in 0 .. Len(reg.nodes[c])] ==
            LET last == after[k - 1]
            IN  IF k = 0 THEN reg
                ELSE IF <<c, k - 1>> \in targets THEN NodeRemoved(last, c, k - 1)
                ELSE last
    IN  after[Len(reg.nodes[c])]

\* delete_many in a class, from the highest index down.  An index behind the
\* last node is an error of remove_node, which the loop goes on after.
Swept(reg, c, targets) ==
    LET after[k \in 0 .. Len(reg.nodes[c])] ==
            LET last == after[k - 1]
                idx  == Len(reg.nodes[c]) - k
            IN  IF k = 0 THEN reg
                ELSE IF <<c, idx>> \in targets THEN NodeRemoved(last, c, idx)
                ELSE last
    IN  after[Len(reg.nodes[c])]

\* delete_many: its targets are sorted by class, each once.
DeleteLoop(reg, targets) ==
    LET after[c \in 0 .. MaxId] ==
            IF c = 0 THEN reg ELSE Swept(after[c - 1], c - 1, targets)
    IN  after[MaxId]

\* Variant for a mutant run: from the first node of the clipboard to the last.
PasteLoopForwards(reg, c, pos, ns) ==
    LET after[k \in 0 .. Len(ns)] ==
            IF k = 0 THEN reg ELSE NodesInserted(after[k - 1], c, pos, <<ns[k]>>)
    IN  after[Len(ns)]

\* paste_nodes after a node: from the last node of the clipboard to the
\* first, each inserted at the same place.
PasteLoop(reg, c, pos, ns) ==
    LET after[k \in 0 .. Len(ns)] ==
            IF k = 0 THEN reg ELSE NodesInserted(after[k - 1], c, pos, <<ns[Len(ns) - k + 1]>>)
    IN  after[Len(ns)]

\* The selected classes, removed one after the other.
RemoveLoop(reg, order) ==
    LET after[k \in 0 .. Len(order)] ==
            IF k = 0 THEN reg ELSE ClassRemoved(after[k - 1], order[k])
    IN  after[Len(order)]
=============================================================================
