----------------------------- MODULE LayoutCache -----------------------------
(***************************************************************************)
(* The memo of sizes and offsets that a registry carries: queries fill it, *)
(* edits clear it, and an undo point is a clone of the registry with the   *)
(* memo it had.  The walk below a class stops where a cycle re-enters, so  *)
(* what it finds there depends on where it began; registries with a cycle  *)
(* are among the states, since plugins can make them.                      *)
(***************************************************************************)
EXTENDS Registry

CONSTANTS Kinds,    \* the kinds there are to choose from
          Counts,   \* element counts for arrays
          Starts,   \* registries a session begins with
          MaxNodes  \* bound: nodes of one class

ASSUME CacheAssumption ==
    /\ Kinds \subseteq Kind
    /\ Counts \subseteq Nat
    /\ Starts \subseteq RegistryType
    /\ MaxNodes \in Nat

VARIABLES
    reg,    \* the registry without its memo
    cache,  \* sizes and offsets of the classes they are known of
    saved   \* a clone to go back to: registry and memo

vars == <<reg, cache, saved>>

NoCache == [sizes |-> <<>>, offsets |-> <<>>]

Init ==
    /\ reg \in Starts
    /\ cache = NoCache
    /\ saved = [reg |-> reg, cache |-> NoCache]

-----------------------------------------------------------------------------
(* Queries.  A walk returns the size, whether it is complete, and the sizes *)
(* in the memo afterwards.                                                  *)

\* The sizes a memo can hold.
Memos == UNION {[S -> 0 .. MaxSize] : S \in SUBSET Ids}

\* node_size_checked, with what size_of_checked finds of a class and a memo.
NodeSize(below, k, memo) ==
    LET elem == IF k.tag = "instance"
                THEN below[<<k.arg, memo>>]
                ELSE [size |-> FixedSize(k, reg.ptr), complete |-> TRUE, memo |-> memo]
    IN  [elem EXCEPT !.size = SatTimes(k.dims, @)]

\* The nodes of a class one after the other: the sizes of the nodes so far,
\* whether all are complete, and the memo.
Summing(below, ns, memo) ==
    LET sum[i \in 0 .. Len(ns)] ==
            LET last == sum[i - 1]
                r    == NodeSize(below, ns[i].kind, last.memo)
            IN  IF i = 0
                THEN [each |-> <<>>, complete |-> TRUE, memo |-> memo]
                ELSE [each     |-> Append(last.each, r.size),
                      complete |-> last.complete /\ r.complete,
                      memo     |-> r.memo]
    IN  sum[Len(ns)]

\* A memo with one more entry.
Noted(memo, id, value) == [c \in DOMAIN memo \cup {id} |-> IF c = id THEN value ELSE memo[c]]

\* Variant for a mutant run: what was found before the cycle is kept.
MemoisedAlways(memo, id, total, complete) == Noted(memo, id, total)

\* What a class has come to is kept if it is complete.
Memoised(memo, id, total, complete) ==
    IF complete THEN Noted(memo, id, total) ELSE memo

\* size_of_checked: a class below a stack, with a memo.
SizeWalk ==
    LET walk[at \in (SUBSET Ids) \X Ids \X Memos] ==
            LET stack == at[1]
                id    == at[2]
                memo  == at[3]
                below == [b \in Ids \X Memos |-> walk[<<stack \cup {id}, b[1], b[2]>>]]
                r     == Summing(below, reg.nodes[id], memo)
                total == SatSum(r.each)
            IN  IF id \in stack
                THEN [size |-> 0, complete |-> FALSE, memo |-> memo]
                ELSE IF id \in DOMAIN memo
                THEN [size |-> memo[id], complete |-> TRUE, memo |-> memo]
                ELSE [size     |-> total,
                      complete |-> r.complete,
                      memo     |-> Memoised(r.memo, id, total, r.complete)]
    IN  walk

SizeFound(id) == SizeWalk[<<{}, id, cache.sizes>>]

\* The nodes of a class, each below the class alone.
NodesFound(id) ==
    Summing([b \in Ids \X Memos |-> SizeWalk[<<{id}, b[1], b[2]>>]], reg.nodes[id], cache.sizes)

\* The offsets where each of the nodes begins.
Begins(each) == [i \in DOMAIN each |-> SatSum(SubSeq(each, 1, i - 1))]

\* Variant for a mutant run: offsets below a cycle are kept.
OffsetsFoundAlways(id) ==
    LET r    == NodesFound(id)
        offs == Begins(r.each)
    IN  IF id \in DOMAIN cache.offsets
        THEN [offsets |-> cache.offsets[id], cache |-> cache]
        ELSE [offsets |-> offs,
              cache   |-> [sizes |-> r.memo, offsets |-> Noted(cache.offsets, id, offs)]]

\* offsets: a class's own.
OffsetsFound(id) ==
    LET r    == NodesFound(id)
        offs == Begins(r.each)
    IN  IF id \in DOMAIN cache.offsets
        THEN [offsets |-> cache.offsets[id], cache |-> cache]
        ELSE [offsets |-> offs,
              cache   |-> [sizes   |-> r.memo,
                           offsets |-> IF r.complete
                                       THEN Noted(cache.offsets, id, offs)
                                       ELSE cache.offsets]]

AskSize(id) ==
    /\ cache' = [cache EXCEPT !.sizes = SizeFound(id).memo]
    /\ UNCHANGED <<reg, saved>>

AskOffsets(id) ==
    /\ cache' = OffsetsFound(id).cache
    /\ UNCHANGED <<reg, saved>>

-----------------------------------------------------------------------------
(* Edits.                                                                  *)

\* Variant for a mutant run: the offsets stay.
InvalidateSizes == [cache EXCEPT !.sizes = NoCache.sizes]

Invalidate == NoCache

\* An edit clears the memo if it is `done', and is an error otherwise.
Edit(done, new) ==
    /\ \A c \in Ids : Len(new.nodes[c]) <= MaxNodes
    /\ reg' = new
    /\ cache' = IF done THEN Invalidate ELSE cache
    /\ UNCHANGED saved

AddClass == reg.next_id < MaxId /\ Edit(TRUE, ClassAdded(reg, NoLabel))

PushNode(c, k) == Edit(c \in reg.live, NodesPushed(reg, c, <<Plain(k)>>))

InsertNode(c, idx, k) ==
    Edit(c \in reg.live /\ idx <= Len(reg.nodes[c]), NodesInserted(reg, c, idx, <<Plain(k)>>))

RemoveNode(c, idx) == Edit(HasNode(reg, c, idx), NodeRemoved(reg, c, idx))

SetKind(c, idx, k) == Edit(HasNode(reg, c, idx), KindSet(reg, c, idx, k))

SetArrayCount(c, idx, count) ==
    Edit(HasNode(reg, c, idx) /\ reg.nodes[c][idx + 1].kind.dims # <<>>,
         ArrayCountSet(reg, c, idx, count))

SetPtrWidth(ptr) == Edit(reg.ptr # ptr, PtrWidthSet(reg, ptr))

\* remove_class asks for the size first, also of a class that is not there.
RemoveClass(id) ==
    /\ reg' = ClassDropped(reg, id, SizeFound(id).size)
    /\ cache' = IF id \in reg.live
                THEN Invalidate
                ELSE [cache EXCEPT !.sizes = SizeFound(id).memo]
    /\ UNCHANGED saved

\* insert_class: a class made elsewhere, over one that has its id.
InsertClass(id, ns) ==
    Edit(TRUE,
         [reg EXCEPT !.live = @ \cup {id},
              !.nodes[id] = ns,
              !.next_id = IF @ > id THEN @ ELSE id + 1])

\* An undo point, and undo.
Save ==
    /\ saved' = [reg |-> reg, cache |-> cache]
    /\ UNCHANGED <<reg, cache>>

Restore ==
    /\ reg' = saved.reg
    /\ cache' = saved.cache
    /\ saved' = [reg |-> reg, cache |-> cache]

-----------------------------------------------------------------------------
Index == 0 .. MaxNodes - 1

Next ==
    \/ \E id \in Ids : AskSize(id)
    \/ \E id \in Ids : AskOffsets(id)
    \/ AddClass
    \/ \E c \in Ids, k \in Kinds : PushNode(c, k)
    \/ \E c \in Ids, idx \in Index, k \in Kinds : InsertNode(c, idx, k)
    \/ \E c \in Ids, idx \in Index : RemoveNode(c, idx)
    \/ \E c \in Ids, idx \in Index, k \in Kinds : SetKind(c, idx, k)
    \/ \E c \in Ids, idx \in Index, count \in Counts : SetArrayCount(c, idx, count)
    \/ \E ptr \in PtrWidth : SetPtrWidth(ptr)
    \/ \E id \in Ids : RemoveClass(id)
    \/ \E id \in Ids, k \in Kinds : InsertClass(id, <<Plain(k)>>)
    \/ Save
    \/ Restore

Spec == Init /\ [][Next]_vars

-----------------------------------------------------------------------------
\* Whatever has been asked and edited before, the size of a class is that of
\* its nodes now, also in a registry with a cycle: an entry left behind by an
\* edit, or by a walk that a cycle cut short, would shift fields for good.
SizesAnswered == \A id \in Ids : SizeFound(id).size = SizeOf(reg, id)

\* So are its offsets, with which the engine reads and the generated code is
\* laid out.
OffsetsAnswered == \A id \in Ids : OffsetsFound(id).offsets = Offsets(reg, id)

\* Whatever is asked is answered as if there were no memo.
LayoutAnswered == SizesAnswered /\ OffsetsAnswered

\* Nothing that a cycle goes through or hangs below is ever remembered, in the
\* registry or in a clone of it.
CyclesForgotten == \A r \in {[reg |-> reg, cache |-> cache], saved} :
    \A id \in Ids, c \in Ids :
        Reaches(r.reg, id, c) /\ (\E d \in InlineOf(r.reg, c) : Reaches(r.reg, d, c))
            => id \notin DOMAIN r.cache.sizes \cup DOMAIN r.cache.offsets
=============================================================================
