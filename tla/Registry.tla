------------------------------ MODULE Registry ------------------------------
(***************************************************************************)
(* The class registry of reclass_core::class, as pure operators on a       *)
(* registry value: the edits AppState makes on it, the inline-cycle guard  *)
(* and the size and offset queries.                                        *)
(*                                                                         *)
(* Data kept: which ids are classes, their nodes in order, what each node  *)
(* refers to and how large it is, the pointer width and next_id.  Names,   *)
(* comments and address expressions are one label per node and one per     *)
(* class.  A nest of Array kinds is its innermost kind and the sequence of *)
(* its counts, outermost first: every function of the code that meets an   *)
(* Array goes on to its element.                                           *)
(***************************************************************************)
EXTENDS Integers, Sequences, FiniteSets, SequencesExt

CONSTANTS MaxId,     \* ids are below MaxId: 2^32 in the code, a bound for TLC
          Labels,    \* the strings a class or a node may be called
          NoLabel,   \* names the program makes up, and ids that are no class
          MaxSize    \* usize::MAX, where sizes saturate

ASSUME RegistryAssumption ==
    /\ MaxId \in Nat
    /\ MaxId > 0
    /\ MaxSize \in Nat
    /\ NoLabel \in Labels

Ids == 0 .. MaxId - 1

PtrWidth == {4, 8}

\* "scalar" is every kind of a size of its own, "unknown" the raw bytes that
\* remove_class leaves, "pointer" every pointer that names no class.
Kind ==
    [tag : {"scalar", "unknown"}, arg : Nat, dims : Seq(Nat)]
    \cup [tag : {"pointer"}, arg : {0}, dims : Seq(Nat)]
    \cup [tag : {"class_ptr", "instance"}, arg : Ids, dims : Seq(Nat)]

Node == [kind : Kind, label : Labels]

RegistryType ==
    [live    : SUBSET Ids,
     nodes   : [Ids -> Seq(Node)],
     name    : [Ids -> Labels],
     next_id : 0 .. MaxId,
     ptr     : PtrWidth]

EmptyRegistry ==
    [live    |-> {},
     nodes   |-> [c \in Ids |-> <<>>],
     name    |-> [c \in Ids |-> NoLabel],
     next_id |-> 0,
     ptr     |-> 8]

Scalar(size) == [tag |-> "scalar", arg |-> size, dims |-> <<>>]

Unknown(size) == [tag |-> "unknown", arg |-> size, dims |-> <<>>]

Pointer == [tag |-> "pointer", arg |-> 0, dims |-> <<>>]

ClassPtr(c) == [tag |-> "class_ptr", arg |-> c, dims |-> <<>>]

Instance(c) == [tag |-> "instance", arg |-> c, dims |-> <<>>]

ArrayOf(element, count) == [element EXCEPT !.dims = <<count>> \o @]

\* A node under a name the program makes up.
Plain(k) == [kind |-> k, label |-> NoLabel]

\* The rows of a new class.
Scalars(n, size) == [i \in 1 .. n |-> Plain(Scalar(size))]

-----------------------------------------------------------------------------
(* What a kind refers to.  Option<ClassId> is a set of at most one id.     *)

Inline(k) == IF k.tag = "instance" THEN {k.arg} ELSE {}

Referenced(k) == IF k.tag \in {"instance", "class_ptr"} THEN {k.arg} ELSE {}

KindsOf(reg, c) == {reg.nodes[c][i].kind : i \in DOMAIN reg.nodes[c]}

\* The classes that class c holds by value.
InlineOf(reg, c) == UNION {Inline(k) : k \in KindsOf(reg, c)}

\* A set of classes that no inline edge leaves.
InlineClosed(reg, S) == \A c \in S : InlineOf(reg, c) \subseteq S

\* b is a, or is nested in it at some depth: what the work list of
\* would_cycle decides (CycleWalk in RegistryLoops).
Reaches(reg, a, b) ==
    \A S \in SUBSET Ids : a \in S /\ InlineClosed(reg, S) => b \in S

WouldCycle(reg, parent, child) == parent = child \/ Reaches(reg, child, parent)

KindWouldCycle(reg, parent, k) == \E child \in Inline(k) : WouldCycle(reg, parent, child)

\* No class holds itself by value: every set of classes has one that holds
\* none of the set.
Acyclic(reg) ==
    \A S \in SUBSET Ids : S # {} => \E c \in S : InlineOf(reg, c) \cap S = {}

NoDangling(reg) ==
    \A c \in reg.live : \A k \in KindsOf(reg, c) : Referenced(k) \subseteq reg.live

Validates(reg) == NoDangling(reg) /\ Acyclic(reg)

-----------------------------------------------------------------------------
(* Sizes and offsets.                                                      *)

\* A usize that saturates.
Sat(n) == IF n \in 0 .. MaxSize THEN n ELSE MaxSize

SatAdd(a, b) == Sat(a + b)

SatMul(a, b) == Sat(a * b)

FixedSize(k, ptr) == IF k.tag \in {"pointer", "class_ptr"} THEN ptr ELSE k.arg

\* What node after node adds up to.
SatSum(sizes) ==
    LET sum[i \in 0 .. Len(sizes)] == IF i = 0 THEN 0 ELSE SatAdd(sum[i - 1], sizes[i])
    IN  sum[Len(sizes)]

\* An element of a nest of arrays, as often as they hold it.
SatTimes(dims, size) == FoldRight(SatMul, dims, size)

\* (size, complete) of the element of a kind, with `inner' that of classes.
ElementSize(reg, k, inner) ==
    IF k.tag = "instance" THEN inner[k.arg] ELSE <<FixedSize(k, reg.ptr), TRUE>>

\* (size, complete) of a class, likewise.
Measured(reg, id, inner) ==
    LET ns == reg.nodes[id]
    IN  <<SatSum([i \in DOMAIN ns |->
              SatTimes(ns[i].kind.dims, ElementSize(reg, ns[i].kind, inner)[1])]),
          \A i \in DOMAIN ns : ElementSize(reg, ns[i].kind, inner)[2]>>

\* (size, complete) of a class met below the classes of a stack.
SizeChecked(reg) ==
    LET walk[at \in (SUBSET Ids) \X Ids] ==
            LET stack == at[1]
                id    == at[2]
            IN  IF id \in stack
                THEN <<0, FALSE>>
                ELSE Measured(reg, id, [c \in Ids |-> walk[<<stack \cup {id}, c>>]])
    IN  walk

\* The same of each class met below those of `stack'.
SizesBelow(reg, stack) == [c \in Ids |-> SizeChecked(reg)[<<stack, c>>]]

SizeOf(reg, id) == SizesBelow(reg, {})[id][1]

KindSize(reg, owner, k) == SatTimes(k.dims, ElementSize(reg, k, SizesBelow(reg, {owner}))[1])

\* The offset of each node of class id, in order.
Offsets(reg, id) ==
    LET ns == reg.nodes[id]
    IN  [i \in DOMAIN ns |->
            SatSum([j \in 1 .. i - 1 |-> KindSize(reg, id, ns[j].kind)])]

-----------------------------------------------------------------------------
(* Edits.  Each returns the registry as it is afterwards: the same one     *)
(* where the code returns an error.                                        *)

Smaller(a, b) == IF a < b THEN a ELSE b

HasNode(reg, c, idx) == c \in reg.live /\ idx \in 0 .. Len(reg.nodes[c]) - 1

\* Variant for a mutant run: the next id is the number of classes.
ClassAddedByCount(reg, name) ==
    [reg EXCEPT !.live = @ \cup {reg.next_id},
                !.nodes[reg.next_id] = <<>>,
                !.name[reg.next_id] = name,
                !.next_id = Smaller(MaxId, Cardinality(reg.live \cup {reg.next_id}))]

ClassAdded(reg, name) ==
    [reg EXCEPT !.live = @ \cup {reg.next_id},
                !.nodes[reg.next_id] = <<>>,
                !.name[reg.next_id] = name,
                !.next_id = @ + 1]

\* Variant for a mutant run: what held the class keeps no room for it.
DropClassRefShrinking(k, gone, size) ==
    IF k.tag = "class_ptr" /\ k.arg = gone
    THEN [k EXCEPT !.tag = "pointer", !.arg = 0]
    ELSE IF k.tag = "instance" /\ k.arg = gone
    THEN [k EXCEPT !.tag = "unknown", !.arg = 0]
    ELSE k

DropClassRef(k, gone, size) ==
    IF k.tag = "class_ptr" /\ k.arg = gone
    THEN [k EXCEPT !.tag = "pointer", !.arg = 0]
    ELSE IF k.tag = "instance" /\ k.arg = gone
    THEN [k EXCEPT !.tag = "unknown", !.arg = size]
    ELSE k

\* The class goes, and leaves `orphan_size' bytes where it was held.
ClassDropped(reg, id, orphan_size) ==
    LET Rewritten(ns) ==
            [i \in DOMAIN ns |-> [ns[i] EXCEPT !.kind = DropClassRef(@, id, orphan_size)]]
    IN  IF id \notin reg.live
        THEN reg
        ELSE [reg EXCEPT !.live = @ \ {id},
                         !.nodes = [c \in Ids |-> IF c = id THEN <<>> ELSE Rewritten(@[c])],
                         !.name[id] = NoLabel]

ClassRemoved(reg, id) == ClassDropped(reg, id, SizeOf(reg, id))

NodesPushed(reg, c, ns) ==
    IF c \in reg.live THEN [reg EXCEPT !.nodes[c] = @ \o ns] ELSE reg

\* `ns' before the node that is at idx now: insert_node for one node.
NodesInserted(reg, c, idx, ns) ==
    IF c \in reg.live /\ idx \in 0 .. Len(reg.nodes[c])
    THEN [reg EXCEPT !.nodes[c] =
            SubSeq(@, 1, idx) \o ns \o SubSeq(@, idx + 1, Len(@))]
    ELSE reg

NodeRemoved(reg, c, idx) ==
    IF HasNode(reg, c, idx)
    THEN [reg EXCEPT !.nodes[c] = SubSeq(@, 1, idx) \o SubSeq(@, idx + 2, Len(@))]
    ELSE reg

KindSet(reg, c, idx, k) ==
    IF HasNode(reg, c, idx) THEN [reg EXCEPT !.nodes[c][idx + 1].kind = k] ELSE reg

ArrayCountSet(reg, c, idx, count) ==
    IF HasNode(reg, c, idx) /\ reg.nodes[c][idx + 1].kind.dims # <<>>
    THEN [reg EXCEPT !.nodes[c][idx + 1].kind.dims[1] = count]
    ELSE reg

\* rename_node and set_comment.
NodeRelabelled(reg, c, idx, label) ==
    IF HasNode(reg, c, idx) THEN [reg EXCEPT !.nodes[c][idx + 1].label = label] ELSE reg

\* rename_class and set_address_expr.
ClassRelabelled(reg, c, label) ==
    IF c \in reg.live THEN [reg EXCEPT !.name[c] = label] ELSE reg

PtrWidthSet(reg, ptr) == [reg EXCEPT !.ptr = ptr]

\* The elements of a set of numbers in order: the j-th has j - 1 below it.
Listing(S) ==
    [j \in 1 .. Cardinality(S) |->
        CHOOSE i \in S : Cardinality({k \in S : k < i}) = j - 1]

\* What the loop of delete_many leaves, which takes the indices of a class from
\* the highest down (DeleteLoop in RegistryLoops): `targets' are <<class, index>>.
NodesDeleted(reg, targets) ==
    LET kept(c) == Listing({i \in DOMAIN reg.nodes[c] : <<c, i - 1>> \notin targets})
    IN  [reg EXCEPT !.nodes =
            [c \in Ids |-> IF c \in reg.live
                           THEN [j \in DOMAIN kept(c) |-> reg.nodes[c][kept(c)[j]]]
                           ELSE reg.nodes[c]]]
=============================================================================
