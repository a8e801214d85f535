-------------------------- MODULE LayoutCacheProofs --------------------------
(***************************************************************************)
(* Theorems about LayoutCache, for every number of ids, every registry,    *)
(* with cycles or without, and every memo a session can come to: a walk    *)
(* with a memo finds what one without finds, and remembers only what no    *)
(* cycle can change.                                                       *)
(***************************************************************************)
EXTENDS LayoutCache, RegistryProofs

-----------------------------------------------------------------------------
(* Walks with a memo.                                                      *)

Answers == [size : 0 .. MaxSize, complete : BOOLEAN, memo : Memos]

Below == [Ids \X Memos -> Answers]

LEMMA MemoType ==
    /\ \A m \in Memos : DOMAIN m \in SUBSET Ids /\ m \in [DOMAIN m -> 0 .. MaxSize]
    /\ \A m : DOMAIN m \in SUBSET Ids /\ m \in [DOMAIN m -> 0 .. MaxSize] => m \in Memos
BY DEF Memos

LEMMA NotedType ==
    ASSUME NEW m \in Memos, NEW id \in Ids, NEW total \in 0 .. MaxSize
    PROVE  /\ Noted(m, id, total) \in Memos
           /\ DOMAIN Noted(m, id, total) = DOMAIN m \cup {id}
           /\ Noted(m, id, total)[id] = total
           /\ \A c \in DOMAIN m \ {id} : Noted(m, id, total)[c] = m[c]
<1>1. DOMAIN m \in SUBSET Ids /\ m \in [DOMAIN m -> 0 .. MaxSize]
  BY MemoType
<1>2. Noted(m, id, total) \in Memos
  BY <1>1, MemoType DEF Noted
<1> QED
  BY <1>2 DEF Noted

LEMMA MemoisedType ==
    ASSUME NEW m \in Memos, NEW id \in Ids, NEW total \in 0 .. MaxSize, NEW complete
    PROVE  Memoised(m, id, total, complete) \in Memos
BY NotedType DEF Memoised

\* What a node adds to a sum.
LEMMA NodeSizeType ==
    ASSUME reg \in RegistryType, NEW k \in Kind, NEW memo \in Memos, NEW below \in Below
    PROVE  LET elem == IF k.tag = "instance" THEN below[<<k.arg, memo>>]
                       ELSE [size |-> FixedSize(k, reg.ptr), complete |-> TRUE, memo |-> memo]
               r == NodeSize(below, k, memo)
           IN  /\ elem.size \in Nat
               /\ r.size = SatTimes(k.dims, elem.size)
               /\ r.complete = elem.complete
               /\ r.memo = elem.memo
               /\ r.complete \in BOOLEAN
               /\ r.memo \in Memos
<1> DEFINE elem == IF k.tag = "instance" THEN below[<<k.arg, memo>>]
                   ELSE [size |-> FixedSize(k, reg.ptr), complete |-> TRUE, memo |-> memo]
<1>1. elem \in [size : Nat, complete : BOOLEAN, memo : Memos]
  <2>1. CASE k.tag = "instance"
    <3>1. k.arg \in Ids
      BY <2>1 DEF Kind
    <3>2. below[<<k.arg, memo>>] \in Answers
      BY <3>1 DEF Below
    <3> QED
      BY <2>1, <3>2, RegistryAssumption DEF Answers
  <2>2. CASE k.tag # "instance"
    <3>1. FixedSize(k, reg.ptr) \in Nat
      BY <2>2 DEF FixedSize, Kind, RegistryType, PtrWidth, Ids
    <3> QED
      BY <2>2, <3>1
  <2> QED
    BY <2>1, <2>2
<1>2. NodeSize(below, k, memo) = [elem EXCEPT !.size = SatTimes(k.dims, @)]
  BY DEF NodeSize
<1> HIDE DEF elem
<1>3. /\ NodeSize(below, k, memo).size = SatTimes(k.dims, elem.size)
      /\ NodeSize(below, k, memo).complete = elem.complete
      /\ NodeSize(below, k, memo).memo = elem.memo
  BY <1>1, <1>2
<1> QED
  BY <1>1, <1>3 DEF elem

\* A sum over the nodes of a class, node after node.
SumOf(ns) ==
    [each     : Seq({SatTimes(ns[i].kind.dims, size) : i \in DOMAIN ns, size \in Nat}),
     complete : BOOLEAN,
     memo     : Memos]

None(memo) == [each |-> <<>>, complete |-> TRUE, memo |-> memo]

More(below, n, last) ==
    [each     |-> Append(last.each, NodeSize(below, n.kind, last.memo).size),
     complete |-> last.complete /\ NodeSize(below, n.kind, last.memo).complete,
     memo     |-> NodeSize(below, n.kind, last.memo).memo]

Sums(below, ns, memo) ==
    {f \in [0 .. Len(ns) -> SumOf(ns)] :
        f[0] = None(memo) /\ \A i \in 1 .. Len(ns) : f[i] = More(below, ns[i], f[i - 1])}

LEMMA MoreType ==
    ASSUME reg \in RegistryType, NEW id \in Ids, NEW below \in Below,
           NEW i \in DOMAIN reg.nodes[id], NEW last \in SumOf(reg.nodes[id])
    PROVE  More(below, reg.nodes[id][i], last) \in SumOf(reg.nodes[id])
<1> DEFINE ns == reg.nodes[id]
           r  == NodeSize(below, ns[i].kind, last.memo)
           V  == {SatTimes(ns[j].kind.dims, size) : j \in DOMAIN ns, size \in Nat}
<1>1. last.each \in Seq(V) /\ last.complete \in BOOLEAN /\ last.memo \in Memos
  BY DEF SumOf
<1>2. ns[i].kind \in Kind
  BY NodeList
<1>3. \E size \in Nat : r.size = SatTimes(ns[i].kind.dims, size)
  <2> DEFINE k    == ns[i].kind
             memo == last.memo
  <2>1. k \in Kind /\ memo \in Memos
    BY <1>1, <1>2
  <2> HIDE DEF k, memo
  <2>2. \E size \in Nat : NodeSize(below, k, memo).size = SatTimes(k.dims, size)
    BY <2>1, NodeSizeType
  <2> QED
    BY <2>2 DEF k, memo
<1>4. r.complete \in BOOLEAN /\ r.memo \in Memos
  <2> DEFINE k    == ns[i].kind
             memo == last.memo
  <2>1. k \in Kind /\ memo \in Memos
    BY <1>1, <1>2
  <2> HIDE DEF k, memo
  <2>2. NodeSize(below, k, memo).complete \in BOOLEAN /\ NodeSize(below, k, memo).memo \in Memos
    BY <2>1, NodeSizeType
  <2> QED
    BY <2>2 DEF k, memo
<1>5. r.size \in V
  BY <1>3
<1> HIDE DEF r, V
<1>6. Append(last.each, r.size) \in Seq(V)
  BY <1>1, <1>5
<1> QED
  BY <1>1, <1>4, <1>6 DEF More, SumOf, r, V

LEMMA SumStep ==
    ASSUME reg \in RegistryType, NEW id \in Ids, NEW below \in Below, NEW memo \in Memos
    PROVE  \E f \in Sums(below, reg.nodes[id], memo) :
               Summing(below, reg.nodes[id], memo) = f[Len(reg.nodes[id])]
<1> DEFINE ns == reg.nodes[id]
           n  == Len(ns)
           X  == SumOf(ns)
           g  == [i \in 1 .. n |-> [x \in X |-> More(below, ns[i], x)]]
<1>1. n \in Nat /\ DOMAIN ns = 1 .. n
  BY NodeList
<1>2. None(memo) \in X
  BY DEF None, SumOf
<1>3. g \in Steps(n, X)
  <2>1. \A i \in 1 .. n : \A x \in X : More(below, ns[i], x) \in X
    BY <1>1, MoreType
  <2> HIDE DEF X, n, ns
  <2> QED
    BY <2>1 DEF Steps
<1>4. PICK f \in [0 .. n -> X] : f[0] = None(memo) /\ \A i \in 1 .. n : f[i] = g[i][f[i - 1]]
  <2> HIDE DEF g, X, n
  <2>1. Walks(n, X, None(memo), g) # {}
    BY <1>1, <1>2, <1>3, Along
  <2> QED
    BY <2>1 DEF Walks
<1>5. ASSUME NEW i \in 1 .. n PROVE f[i] = More(below, ns[i], f[i - 1])
  <2>1. f[i - 1] \in X
    BY <1>1, <1>4
  <2> HIDE DEF X, n, ns
  <2> QED
    BY <1>4, <2>1
<1>6. f \in Sums(below, ns, memo)
  BY <1>4, <1>5 DEF Sums
<1> HIDE DEF g, X
<1>7. f = [i \in 0 .. n |->
             IF i = 0
             THEN [each |-> <<>>, complete |-> TRUE, memo |-> memo]
             ELSE [each     |-> Append(f[i - 1].each, NodeSize(below, ns[i].kind, f[i - 1].memo).size),
                   complete |-> f[i - 1].complete /\ NodeSize(below, ns[i].kind, f[i - 1].memo).complete,
                   memo     |-> NodeSize(below, ns[i].kind, f[i - 1].memo).memo]]
  <2>1. \A i \in 0 .. n : i = 0 \/ i \in 1 .. n
    BY <1>1
  <2> HIDE DEF n, ns
  <2> QED
    BY <1>4, <1>5, <2>1 DEF None, More
<1> DEFINE sum[i \in 0 .. n] ==
             LET last == sum[i - 1]
                 r    == NodeSize(below, ns[i].kind, last.memo)
             IN  IF i = 0
                 THEN [each |-> <<>>, complete |-> TRUE, memo |-> memo]
                 ELSE [each     |-> Append(last.each, r.size),
                       complete |-> last.complete /\ r.complete,
                       memo     |-> r.memo]
<1>8. sum = [i \in 0 .. n |->
             IF i = 0
             THEN [each |-> <<>>, complete |-> TRUE, memo |-> memo]
             ELSE [each     |-> Append(sum[i - 1].each, NodeSize(below, ns[i].kind, sum[i - 1].memo).size),
                   complete |-> sum[i - 1].complete /\ NodeSize(below, ns[i].kind, sum[i - 1].memo).complete,
                   memo     |-> NodeSize(below, ns[i].kind, sum[i - 1].memo).memo]]
  <2> HIDE DEF n, ns
  <2> QED
    BY <1>7
<1>9. Summing(below, ns, memo) = sum[n]
  BY DEF Summing
<1> HIDE DEF sum
<1>10. sum = f
  <2> DEFINE S == {i \in 0 .. n : sum[i] = f[i]}
  <2>1. 0 \in 0 .. n /\ \A i \in 1 .. n : i \in 0 .. n /\ i # 0 /\ i - 1 \in 0 .. n
    BY <1>1
  <2> HIDE DEF n, ns
  <2>2. 0 \in S
    BY <1>7, <1>8, <2>1
  <2>3. ASSUME NEW i \in 1 .. n, i - 1 \in S PROVE i \in S
    <3>1. i \in 0 .. n /\ i # 0 /\ sum[i - 1] = f[i - 1]
      BY <2>1, <2>3
    <3>2. f[i] = [each     |-> Append(f[i - 1].each, NodeSize(below, ns[i].kind, f[i - 1].memo).size),
                   complete |-> f[i - 1].complete /\ NodeSize(below, ns[i].kind, f[i - 1].memo).complete,
                   memo     |-> NodeSize(below, ns[i].kind, f[i - 1].memo).memo]
      BY <1>7, <3>1
    <3>3. sum[i] = [each     |-> Append(sum[i - 1].each, NodeSize(below, ns[i].kind, sum[i - 1].memo).size),
                   complete |-> sum[i - 1].complete /\ NodeSize(below, ns[i].kind, sum[i - 1].memo).complete,
                   memo     |-> NodeSize(below, ns[i].kind, sum[i - 1].memo).memo]
      BY <1>8, <3>1
    <3> QED
      BY <3>1, <3>2, <3>3
  <2>4. \A i \in 0 .. n : i \in S
    <3>1. \A i \in 1 .. n : i - 1 \in S => i \in S
      BY <2>3
    <3> HIDE DEF S
    <3> QED
      BY <1>1, <2>2, <3>1, UpTo
  <2>5. sum = [i \in 0 .. n |-> sum[i]] /\ f = [i \in 0 .. n |-> f[i]]
    BY <1>7, <1>8
  <2> QED
    BY <2>4, <2>5
<1> QED
  BY <1>6, <1>9, <1>10

LEMMA SummingType ==
    ASSUME reg \in RegistryType, NEW id \in Ids, NEW below \in Below, NEW memo \in Memos
    PROVE  /\ Summing(below, reg.nodes[id], memo) \in SumOf(reg.nodes[id])
           /\ SatSum(Summing(below, reg.nodes[id], memo).each) \in 0 .. MaxSize
<1> DEFINE ns == reg.nodes[id]
           r  == Summing(below, ns, memo)
<1>1. Len(ns) \in 0 .. Len(ns)
  BY NodeList
<1>2. r \in SumOf(ns)
  <2>1. PICK f \in Sums(below, ns, memo) : r = f[Len(ns)]
    BY SumStep
  <2> QED
    BY <1>1, <2>1 DEF Sums
<1> HIDE DEF r
<1>3. Len(r.each) \in Nat
  BY <1>2 DEF SumOf
<1>4. SatSum(r.each) \in 0 .. MaxSize
  BY <1>3, SatSumType
<1> QED
  BY <1>2, <1>4 DEF r

Places == (SUBSET Ids) \X Ids \X Memos

\* What a walk finds at a place, when `walk' is what it finds below.
AnswerAt(walk, at) ==
    LET below == [b \in Ids \X Memos |-> walk[<<at[1] \cup {at[2]}, b[1], b[2]>>]]
        r     == Summing(below, reg.nodes[at[2]], at[3])
        total == SatSum(r.each)
    IN  IF at[2] \in at[1]
        THEN [size |-> 0, complete |-> FALSE, memo |-> at[3]]
        ELSE IF at[2] \in DOMAIN at[3]
        THEN [size |-> at[3][at[2]], complete |-> TRUE, memo |-> at[3]]
        ELSE [size     |-> total,
              complete |-> r.complete,
              memo     |-> Memoised(r.memo, at[2], total, r.complete)]

LEMMA PlaceType ==
    ASSUME NEW p \in Places
    PROVE  /\ p[1] \in SUBSET Ids /\ p[2] \in Ids /\ p[3] \in Memos
           /\ \A b \in Ids \X Memos :
                  /\ b[1] \in Ids /\ b[2] \in Memos
                  /\ <<p[1] \cup {p[2]}, b[1], b[2]>> \in Places
BY DEF Places

LEMMA AnswerType ==
    ASSUME reg \in RegistryType, NEW F \in [Places -> Answers], NEW p \in Places
    PROVE  AnswerAt(F, p) \in Answers
<1> DEFINE stack == p[1]
           id    == p[2]
           memo  == p[3]
           below == [b \in Ids \X Memos |-> F[<<stack \cup {id}, b[1], b[2]>>]]
           r     == Summing(below, reg.nodes[id], memo)
           total == SatSum(r.each)
<1>1. stack \in SUBSET Ids /\ id \in Ids /\ memo \in Memos
  BY PlaceType
<1>2. below \in Below
  BY PlaceType DEF Below
<1>3. 0 \in 0 .. MaxSize
  BY RegistryAssumption
<1>4. id \in DOMAIN memo => memo[id] \in 0 .. MaxSize
  BY <1>1, MemoType
<1> HIDE DEF below, id, memo, stack
<1>5. r \in SumOf(reg.nodes[id]) /\ total \in 0 .. MaxSize
  BY <1>1, <1>2, SummingType
<1>6. r.complete \in BOOLEAN /\ r.memo \in Memos
  BY <1>5 DEF SumOf
<1> HIDE DEF r, total
<1>7. Memoised(r.memo, id, total, r.complete) \in Memos
  BY <1>1, <1>5, <1>6, MemoisedType
<1>8. AnswerAt(F, p) = IF id \in stack
                       THEN [size |-> 0, complete |-> FALSE, memo |-> memo]
                       ELSE IF id \in DOMAIN memo
                       THEN [size |-> memo[id], complete |-> TRUE, memo |-> memo]
                       ELSE [size     |-> total,
                             complete |-> r.complete,
                             memo     |-> Memoised(r.memo, id, total, r.complete)]
  BY DEF AnswerAt, below, id, memo, stack, r, total
<1> QED
  BY <1>1, <1>3, <1>4, <1>5, <1>6, <1>7, <1>8 DEF Answers

\* The walk is defined: its stack grows, and there are finitely many classes.
LEMMA MemoWalkStep ==
    ASSUME reg \in RegistryType
    PROVE  /\ SizeWalk \in [Places -> Answers]
           /\ \A at \in Places : SizeWalk[at] = AnswerAt(SizeWalk, at)
<1> DEFINE X    == [Places -> Answers]
           rank == [p \in Places |-> Cardinality(p[1])]
           G    == [F \in X |-> [p \in Places |-> AnswerAt(F, p)]]
           zero == [p \in Places |-> [size |-> 0, complete |-> FALSE, memo |-> p[3]]]
<1>1. zero \in X
  <2>1. 0 \in 0 .. MaxSize
    BY RegistryAssumption
  <2> QED
    BY <2>1, PlaceType DEF Answers
<1>2. ASSUME NEW p \in Places, p[2] \notin p[1], NEW b \in Ids \X Memos
      PROVE  /\ <<p[1] \cup {p[2]}, b[1], b[2]>> \in Places
             /\ rank[<<p[1] \cup {p[2]}, b[1], b[2]>>] > rank[p]
  <2> DEFINE q == <<p[1] \cup {p[2]}, b[1], b[2]>>
  <2>1. p[1] \in SUBSET Ids /\ p[2] \in Ids \ p[1] /\ q \in Places /\ q[1] = p[1] \cup {p[2]}
    BY <1>2, PlaceType
  <2> HIDE DEF q
  <2>2. rank[q] = Cardinality(p[1]) + 1 /\ rank[p] = Cardinality(p[1]) /\ Cardinality(p[1]) \in Nat
    BY <2>1, StackSize
  <2>3. rank[q] > rank[p]
    BY <2>2
  <2> QED
    BY <2>1, <2>3 DEF q
<1>3. rank \in [Places -> 0 .. MaxId]
  <2>1. ASSUME NEW p \in Places PROVE Cardinality(p[1]) \in 0 .. MaxId
    BY PlaceType, StackSize
  <2> QED
    BY <2>1
<1>4. G \in [X -> X]
  <2>1. ASSUME NEW F \in X PROVE [p \in Places |-> AnswerAt(F, p)] \in X
    BY AnswerType
  <2> HIDE DEF X
  <2> QED
    BY <2>1
<1>5. ASSUME NEW F, NEW H, NEW p \in Places,
             \A q \in Places : rank[q] > rank[p] => F[q] = H[q]
      PROVE  AnswerAt(F, p) = AnswerAt(H, p)
  <2> HIDE DEF rank
  <2>1. CASE p[2] \in p[1]
    BY <2>1 DEF AnswerAt
  <2>2. CASE p[2] \notin p[1]
    <3>1. [b \in Ids \X Memos |-> F[<<p[1] \cup {p[2]}, b[1], b[2]>>]]
          = [b \in Ids \X Memos |-> H[<<p[1] \cup {p[2]}, b[1], b[2]>>]]
      BY <1>2, <1>5, <2>2
    <3> QED
      BY <3>1, Zenon DEF AnswerAt
  <2> QED
    BY <2>1, <2>2
<1>6. PICK F \in X : F = G[F]
  <2>1. MaxId \in Nat
    BY RegistryAssumption
  <2> HIDE DEF rank, G, zero
  <2>2. Ranked(MaxId, Places, Answers, rank, G)
    <3>1. ASSUME NEW F \in X, NEW H \in X, NEW p \in Places,
                 \A q \in Places : rank[q] > rank[p] => F[q] = H[q]
          PROVE  G[F][p] = G[H][p]
      <4>1. AnswerAt(F, p) = AnswerAt(H, p)
        BY <1>5, <3>1
      <4> HIDE DEF X
      <4> QED
        BY <4>1 DEF G
    <3> QED
      BY <1>3, <1>4, <3>1 DEF Ranked
  <2>3. Fixed(Places, Answers, G) # {}
    BY <1>1, <2>1, <2>2, Settles
  <2> QED
    BY <2>3 DEF Fixed
<1>7. F = [p \in Places |-> AnswerAt(F, p)]
  <2> HIDE DEF X
  <2> QED
    BY <1>6
<1> DEFINE walk[at \in (SUBSET Ids) \X Ids \X Memos] ==
               LET stack == at[1]
                   id    == at[2]
                   memo  == at[3]
                   below == [b \in Ids \X Memos |-> walk[<<stack \cup {id}, b[1], b[2]>>]]
                   r     == Summing(below, reg.nodes[id], memo)
                   total == SatSum(r.each)
               IN  IF id \in stack
                   THEN [size |-> 0, complete |-> FALSE, memo |-> memo]
                   ELSE IF id \in DOMAIN memo
                   THEN [size |-> memo[id], complete |-> TRUE, memo |-> memo]
                   ELSE [size     |-> total,
                         complete |-> r.complete,
                         memo     |-> Memoised(r.memo, id, total, r.complete)]
<1>8. \E W : W = [p \in Places |-> AnswerAt(W, p)]
  BY <1>7
<1>9. walk = [p \in Places |-> AnswerAt(walk, p)]
  BY <1>8, Zenon DEF AnswerAt, Places
<1>10. SizeWalk = walk
  BY DEF SizeWalk
<1> HIDE DEF walk
<1>11. \A p \in Places : walk[p] = F[p]
  <2> DEFINE left == {MaxId - rank[p] : p \in {p \in Places : walk[p] # F[p]}}
  <2>1. \A p \in Places : rank[p] \in Int /\ MaxId - rank[p] \in Nat
    <3> HIDE DEF rank
    <3> QED
      BY <1>3, RegistryAssumption
  <2> SUFFICES ASSUME left # {} PROVE FALSE
    OBVIOUS
  <2>2. PICK x \in left : \A y \in left : x <= y
    <3>1. left \in SUBSET Nat
      BY <2>1
    <3> HIDE DEF left
    <3> QED
      BY <3>1, LeastNatural
  <2>3. PICK p \in Places : walk[p] # F[p] /\ x = MaxId - rank[p]
    BY <2>2
  <2>4. ASSUME NEW q \in Places, rank[q] > rank[p] PROVE walk[q] = F[q]
    <3> SUFFICES ASSUME walk[q] # F[q] PROVE FALSE
      OBVIOUS
    <3>1. MaxId - rank[q] \in left
      OBVIOUS
    <3> HIDE DEF left, rank
    <3> QED
      BY <2>1, <2>2, <2>3, <2>4, <3>1, RegistryAssumption
  <2>5. AnswerAt(walk, p) = AnswerAt(F, p)
    <3> HIDE DEF rank
    <3> QED
      BY <1>5, <2>4
  <2> QED
    BY <1>7, <1>9, <2>3, <2>5
<1>12. walk = F
  <2>1. walk = [p \in Places |-> walk[p]] /\ F = [p \in Places |-> F[p]]
    BY <1>9
  <2> QED
    BY <1>11, <2>1
<1> QED
  BY <1>7, <1>10, <1>12

-----------------------------------------------------------------------------
(* Memos that tell what a walk without one would find.                     *)

\* Only classes that no cycle is below are in it, with their sizes.
Right(r, memo) ==
    /\ memo \in Memos
    /\ DOMAIN memo \subseteq Settled(r)
    /\ \A c \in DOMAIN memo : memo[c] = SizeOf(r, c)

\* The answer is that of a walk below `stack' without a memo, and leaves a
\* right one.
Told(answer, stack, id) ==
    /\ answer.size = SizesBelow(reg, stack)[id][1]
    /\ answer.complete = SizesBelow(reg, stack)[id][2]
    /\ Right(reg, answer.memo)

Tells(below, stack, id) ==
    \A d \in InlineOf(reg, id), m \in Memos : Right(reg, m) => Told(below[<<d, m>>], stack, d)

\* What each node of a class is measured at below a stack.
SizeAt(stack, id, i) ==
    SatTimes(reg.nodes[id][i].kind.dims,
             ElementSize(reg, reg.nodes[id][i].kind, SizesBelow(reg, stack))[1])

CompleteAt(stack, id, i) ==
    ElementSize(reg, reg.nodes[id][i].kind, SizesBelow(reg, stack))[2]

LEMMA NodeTold ==
    ASSUME reg \in RegistryType, NEW id \in Ids, NEW i \in DOMAIN reg.nodes[id],
           NEW stack \in SUBSET Ids, NEW below \in Below, Tells(below, stack, id),
           NEW memo, Right(reg, memo)
    PROVE  LET r == NodeSize(below, reg.nodes[id][i].kind, memo)
           IN  /\ r.size = SizeAt(stack, id, i)
               /\ r.complete = CompleteAt(stack, id, i)
               /\ r.complete \in BOOLEAN
               /\ Right(reg, r.memo)
<1> DEFINE k    == reg.nodes[id][i].kind
           elem == IF k.tag = "instance" THEN below[<<k.arg, memo>>]
                   ELSE [size |-> FixedSize(k, reg.ptr), complete |-> TRUE, memo |-> memo]
           e    == ElementSize(reg, k, SizesBelow(reg, stack))
<1>1. k \in Kind /\ memo \in Memos
  BY NodeList DEF Right
<1>2. elem.size = e[1] /\ elem.complete = e[2] /\ Right(reg, elem.memo)
  <2>1. CASE k.tag = "instance"
    <3>1. k.arg \in InlineOf(reg, id)
      BY <2>1 DEF InlineOf, KindsOf, Inline
    <3>2. Told(below[<<k.arg, memo>>], stack, k.arg)
      BY <1>1, <3>1 DEF Tells
    <3>3. elem = below[<<k.arg, memo>>] /\ e = SizesBelow(reg, stack)[k.arg]
      BY <2>1 DEF ElementSize
    <3> HIDE DEF elem, e, k
    <3> QED
      BY <3>2, <3>3 DEF Told
  <2>2. CASE k.tag # "instance"
    <3>1. elem = [size |-> FixedSize(k, reg.ptr), complete |-> TRUE, memo |-> memo]
      BY <2>2
    <3>2. e = <<FixedSize(k, reg.ptr), TRUE>>
      BY <2>2 DEF ElementSize
    <3> HIDE DEF elem, e, k
    <3> QED
      BY <3>1, <3>2
  <2> QED
    BY <2>1, <2>2
<1> HIDE DEF k
<1>3. /\ NodeSize(below, k, memo).size = SatTimes(k.dims, elem.size)
      /\ NodeSize(below, k, memo).complete = elem.complete
      /\ NodeSize(below, k, memo).memo = elem.memo
      /\ NodeSize(below, k, memo).complete \in BOOLEAN
  BY <1>1, NodeSizeType
<1> HIDE DEF elem
<1> QED
  BY <1>2, <1>3 DEF k, SizeAt, CompleteAt

LEMMA Appended ==
    ASSUME NEW N \in Nat, NEW v, DOMAIN v = 1 .. N, NEW j \in 1 .. N
    PROVE  Append([i \in 1 .. j - 1 |-> v[i]], v[j]) = [i \in 1 .. j |-> v[i]]
<1> DEFINE V == {v[i] : i \in 1 .. N}
           s == [i \in 1 .. j - 1 |-> v[i]]
<1>1. s \in Seq(V) /\ v[j] \in V /\ Len(s) = j - 1
  OBVIOUS
<1>2. \A i \in 1 .. j - 1 : s[i] = v[i]
  OBVIOUS
<1> HIDE DEF V, s
<1>3. /\ Append(s, v[j]) \in Seq(V)
      /\ Len(Append(s, v[j])) = j
      /\ \A i \in 1 .. j - 1 : Append(s, v[j])[i] = v[i]
      /\ Append(s, v[j])[j] = v[j]
  BY <1>1, <1>2
<1>4. Append(s, v[j]) = [i \in 1 .. j |-> Append(s, v[j])[i]]
  BY <1>3
<1>5. \A i \in 1 .. j : Append(s, v[j])[i] = v[i]
  BY <1>3
<1> QED
  BY <1>4, <1>5 DEF s

LEMMA SumTold ==
    ASSUME reg \in RegistryType, NEW id \in Ids, NEW stack \in SUBSET Ids,
           NEW below \in Below, Tells(below, stack, id), NEW memo, Right(reg, memo)
    PROVE  LET r == Summing(below, reg.nodes[id], memo)
           IN  /\ r.each = [i \in DOMAIN reg.nodes[id] |-> SizeAt(stack, id, i)]
               /\ r.complete = (\A i \in DOMAIN reg.nodes[id] : CompleteAt(stack, id, i))
               /\ Right(reg, r.memo)
<1> DEFINE ns == reg.nodes[id]
           n  == Len(ns)
           v  == [i \in 1 .. n |-> SizeAt(stack, id, i)]
           c  == [i \in 1 .. n |-> CompleteAt(stack, id, i)]
<1>1. n \in Nat /\ DOMAIN ns = 1 .. n
  BY NodeList
<1>2. memo \in Memos
  BY DEF Right
<1>3. PICK f \in Sums(below, ns, memo) : Summing(below, ns, memo) = f[n]
  BY <1>2, SumStep
<1>4. /\ f[0] = None(memo)
      /\ \A i \in 1 .. n : f[i] = More(below, ns[i], f[i - 1])
      /\ \A i \in 0 .. n : f[i].complete \in BOOLEAN
  <2>1. \A x \in SumOf(ns) : x.complete \in BOOLEAN
    BY DEF SumOf
  <2> HIDE DEF ns
  <2> QED
    BY <1>3, <2>1 DEF Sums
<1> DEFINE Good(i) == /\ f[i].each = [j \in 1 .. i |-> v[j]]
                      /\ f[i].complete = (\A j \in 1 .. i : c[j])
                      /\ Right(reg, f[i].memo)
           S == {i \in 0 .. n : Good(i)}
<1>5. Good(0)
  BY <1>4 DEF None
<1>6. ASSUME NEW i \in 1 .. n, Good(i - 1) PROVE Good(i)
  <2> DEFINE last == f[i - 1]
             r    == NodeSize(below, ns[i].kind, last.memo)
  <2>1. f[i] = [each     |-> Append(last.each, r.size),
                complete |-> last.complete /\ r.complete,
                memo     |-> r.memo]
    BY <1>4 DEF More
  <2>2. Right(reg, last.memo)
    BY <1>6
  <2>3. r.size = v[i] /\ r.complete = c[i] /\ r.complete \in BOOLEAN /\ Right(reg, r.memo)
    <3> DEFINE m == last.memo
    <3>1. Right(reg, m) /\ i \in DOMAIN ns
      BY <1>1, <2>2
    <3> HIDE DEF m
    <3>2. LET q == NodeSize(below, ns[i].kind, m)
          IN  /\ q.size = SizeAt(stack, id, i)
              /\ q.complete = CompleteAt(stack, id, i)
              /\ q.complete \in BOOLEAN
              /\ Right(reg, q.memo)
      BY <3>1, NodeTold
    <3> QED
      BY <3>2 DEF m
  <2>4. last.complete \in BOOLEAN /\ last.each = [j \in 1 .. i - 1 |-> v[j]]
        /\ last.complete = (\A j \in 1 .. i - 1 : c[j])
    <3>1. i - 1 \in 0 .. n
      BY <1>1
    <3> QED
      BY <1>4, <1>6, <3>1
  <2>5. Append(last.each, v[i]) = [j \in 1 .. i |-> v[j]]
    <3>1. DOMAIN v = 1 .. n
      OBVIOUS
    <3>2. Append([j \in 1 .. i - 1 |-> v[j]], v[i]) = [j \in 1 .. i |-> v[j]]
      <4> HIDE DEF v, n
      <4> QED
        BY <1>1, <3>1, Appended
    <3> QED
      BY <2>4, <3>2
  <2> HIDE DEF v, c, last, r, n, ns
  <2>6. (\A j \in 1 .. i : c[j]) = ((\A j \in 1 .. i - 1 : c[j]) /\ c[i])
    <3>1. 1 .. i = (1 .. i - 1) \cup {i}
      BY <1>1
    <3> QED
      BY <3>1
  <2>7. f[i].each = [j \in 1 .. i |-> v[j]]
    BY <2>1, <2>3, <2>5
  <2>8. f[i].complete = (\A j \in 1 .. i : c[j])
    <3>1. f[i].complete = (last.complete /\ r.complete)
      BY <2>1
    <3> QED
      BY <2>3, <2>4, <2>6, <3>1
  <2>9. Right(reg, f[i].memo)
    BY <2>1, <2>3
  <2> QED
    BY <2>7, <2>8, <2>9
<1>7. \A i \in 0 .. n : i \in S
  <2> HIDE DEF Good, n
  <2>1. 0 \in S
    BY <1>1, <1>5
  <2>2. \A i \in 1 .. n : i - 1 \in S => i \in S
    BY <1>1, <1>6
  <2> HIDE DEF S
  <2> QED
    BY <1>1, <2>1, <2>2, UpTo
<1>8. Good(n)
  <2> HIDE DEF Good, n
  <2> QED
    BY <1>1, <1>7
<1> QED
  BY <1>1, <1>3, <1>8

\* Below any stack of classes a class is nested in, a walk with a right memo
\* answers what one without a memo does.
LEMMA WalkTold ==
    ASSUME reg \in RegistryType
    PROVE  \A stack \in SUBSET Ids, id \in Ids, memo \in Memos :
               /\ \A t \in stack : Reaches(reg, t, id)
               /\ Right(reg, memo)
               => Told(SizeWalk[<<stack, id, memo>>], stack, id)
<1> DEFINE Fine(T, id, memo) ==
               /\ \A t \in T : Reaches(reg, t, id)
               /\ Right(reg, memo)
               => Told(SizeWalk[<<T, id, memo>>], T, id)
           left == {MaxId - Cardinality(T) :
                       T \in {T \in SUBSET Ids : \E id \in Ids, memo \in Memos : ~Fine(T, id, memo)}}
<1> SUFFICES ASSUME left # {} PROVE FALSE
  OBVIOUS
<1>1. PICK T \in SUBSET Ids :
          /\ \E id \in Ids, memo \in Memos : ~Fine(T, id, memo)
          /\ \A U \in SUBSET Ids :
                 MaxId - Cardinality(U) < MaxId - Cardinality(T) =>
                     \A id \in Ids, memo \in Memos : Fine(U, id, memo)
  <2>1. left \in SUBSET Nat
    BY StackSize, RegistryAssumption
  <2>2. PICK x \in left : \A y \in left : x <= y
    <3> HIDE DEF left
    <3> QED
      BY <2>1, LeastNatural
  <2>3. PICK T \in SUBSET Ids :
            x = MaxId - Cardinality(T) /\ \E id \in Ids, memo \in Memos : ~Fine(T, id, memo)
    BY <2>2
  <2>4. ASSUME NEW U \in SUBSET Ids, MaxId - Cardinality(U) < MaxId - Cardinality(T),
               NEW id \in Ids, NEW memo \in Memos
        PROVE  Fine(U, id, memo)
    <3> SUFFICES ASSUME ~Fine(U, id, memo) PROVE FALSE
      OBVIOUS
    <3>1. MaxId - Cardinality(U) \in left
      <4> HIDE DEF Fine
      <4> QED
        OBVIOUS
    <3>2. Cardinality(U) \in Nat /\ Cardinality(T) \in Nat /\ MaxId \in Nat
      BY StackSize, RegistryAssumption
    <3> HIDE DEF left
    <3> QED
      BY <2>2, <2>3, <2>4, <3>1, <3>2
  <2> HIDE DEF Fine
  <2> QED
    BY <2>3, <2>4
<1>2. PICK id \in Ids, memo \in Memos : ~Fine(T, id, memo)
  BY <1>1
<1> DEFINE ans == SizeWalk[<<T, id, memo>>]
<1>3. (\A t \in T : Reaches(reg, t, id)) /\ Right(reg, memo) /\ ~Told(ans, T, id)
  BY <1>2
<1> DEFINE below == [b \in Ids \X Memos |-> SizeWalk[<<T \cup {id}, b[1], b[2]>>]]
           r     == Summing(below, reg.nodes[id], memo)
           total == SatSum(r.each)
<1>4. ans = IF id \in T
            THEN [size |-> 0, complete |-> FALSE, memo |-> memo]
            ELSE IF id \in DOMAIN memo
            THEN [size |-> memo[id], complete |-> TRUE, memo |-> memo]
            ELSE [size     |-> total,
                  complete |-> r.complete,
                  memo     |-> Memoised(r.memo, id, total, r.complete)]
  <2> DEFINE at == <<T, id, memo>>
  <2>1. at \in Places /\ at[1] = T /\ at[2] = id /\ at[3] = memo
    BY DEF Places
  <2> HIDE DEF at
  <2>2. SizeWalk[at] = AnswerAt(SizeWalk, at)
    BY <2>1, MemoWalkStep
  <2>3. AnswerAt(SizeWalk, at) = IF id \in T
            THEN [size |-> 0, complete |-> FALSE, memo |-> memo]
            ELSE IF id \in DOMAIN memo
            THEN [size |-> memo[id], complete |-> TRUE, memo |-> memo]
            ELSE [size     |-> total,
                  complete |-> r.complete,
                  memo     |-> Memoised(r.memo, id, total, r.complete)]
    BY <2>1, Zenon DEF AnswerAt
  <2> QED
    BY <2>2, <2>3 DEF at
<1>5. SizesBelow(reg, T)[id] = IF id \in T THEN <<0, FALSE>>
                               ELSE Measured(reg, id, SizesBelow(reg, T \cup {id}))
  BY BelowStep
<1> HIDE DEF ans, r, total, below
<1>6. id \notin T
  <2> SUFFICES ASSUME id \in T PROVE FALSE
    OBVIOUS
  <2>1. ans = [size |-> 0, complete |-> FALSE, memo |-> memo]
    BY <1>4
  <2>2. SizesBelow(reg, T)[id] = <<0, FALSE>>
    BY <1>5
  <2> QED
    BY <1>3, <2>1, <2>2 DEF Told
<1>7. id \notin DOMAIN memo
  <2> SUFFICES ASSUME id \in DOMAIN memo PROVE FALSE
    OBVIOUS
  <2>1. ans = [size |-> memo[id], complete |-> TRUE, memo |-> memo]
    BY <1>4, <1>6
  <2>2. id \in Settled(reg) /\ memo[id] = SizeOf(reg, id)
    BY <1>3 DEF Right
  <2>3. ASSUME NEW t \in T PROVE ~Reaches(reg, id, t)
    <3> SUFFICES ASSUME Reaches(reg, id, t) PROVE FALSE
      OBVIOUS
    <3>1. t \in Ids /\ t # id /\ Reaches(reg, t, id)
      BY <1>3, <1>6
    <3>2. PICK e \in InlineOf(reg, id) : Reaches(reg, e, t)
      BY <3>1, ReachesFirst
    <3>3. Reaches(reg, e, id)
      BY <3>1, <3>2, ReachesJoin
    <3>4. Circular(reg, id) /\ Reaches(reg, id, id)
      BY <3>2, <3>3, ReachesSelf DEF Circular
    <3> QED
      BY <2>2, <3>4 DEF Settled
  <2>4. SizesBelow(reg, T)[id] = Measured(reg, id, SizesBelow(reg, {}))
        /\ SizesBelow(reg, T)[id][2] = TRUE
    BY <2>2, <2>3, SettledSizes
  <2>5. SizesBelow(reg, {})[id] = Measured(reg, id, SizesBelow(reg, {}))
    BY <2>2, SettledSizes
  <2> QED
    BY <1>3, <2>1, <2>2, <2>4, <2>5 DEF Told, SizeOf
<1>8. ans = [size     |-> total,
             complete |-> r.complete,
             memo     |-> Memoised(r.memo, id, total, r.complete)]
  BY <1>4, <1>6, <1>7
<1>9. below \in Below
  <2>1. \A b \in Ids \X Memos : <<T \cup {id}, b[1], b[2]>> \in Places
    BY DEF Places
  <2>2. SizeWalk \in [Places -> Answers]
    BY MemoWalkStep
  <2> QED
    BY <2>1, <2>2 DEF below, Below
<1>10. Tells(below, T \cup {id}, id)
  <2>1. /\ Cardinality(T \cup {id}) = Cardinality(T) + 1
        /\ Cardinality(T) \in 0 .. MaxId
        /\ T \cup {id} \in SUBSET Ids
    BY <1>6, StackSize
  <2>2. MaxId - Cardinality(T \cup {id}) < MaxId - Cardinality(T)
    BY <2>1, RegistryAssumption
  <2>3. ASSUME NEW d \in InlineOf(reg, id), NEW m \in Memos, Right(reg, m)
        PROVE  Told(below[<<d, m>>], T \cup {id}, d)
    <3>1. d \in Ids
      BY InlineType
    <3>2. \A t \in T \cup {id} : Reaches(reg, t, d)
      BY <1>3, ReachesOn, ReachesSelf
    <3>3. Fine(T \cup {id}, d, m)
      <4> HIDE DEF Fine
      <4> QED
        BY <1>1, <2>1, <2>2, <3>1
    <3>4. Told(SizeWalk[<<T \cup {id}, d, m>>], T \cup {id}, d)
      BY <2>3, <3>2, <3>3
    <3>5. below[<<d, m>>] = SizeWalk[<<T \cup {id}, d, m>>]
      BY <3>1 DEF below
    <3> QED
      BY <3>4, <3>5
  <2> QED
    BY <2>3 DEF Tells
<1>11. /\ r.each = [i \in DOMAIN reg.nodes[id] |-> SizeAt(T \cup {id}, id, i)]
       /\ r.complete = (\A i \in DOMAIN reg.nodes[id] : CompleteAt(T \cup {id}, id, i))
       /\ Right(reg, r.memo)
  <2>1. T \cup {id} \in SUBSET Ids
    OBVIOUS
  <2> QED
    BY <1>3, <1>9, <1>10, <2>1, SumTold DEF r
<1>12. total = SizesBelow(reg, T)[id][1] /\ r.complete = SizesBelow(reg, T)[id][2]
  <2> DEFINE m == Measured(reg, id, SizesBelow(reg, T \cup {id}))
  <2>1. SizesBelow(reg, T)[id] = m
    BY <1>5, <1>6
  <2>2. m[1] = SatSum([i \in DOMAIN reg.nodes[id] |-> SizeAt(T \cup {id}, id, i)])
    BY DEF Measured, SizeAt
  <2>3. m[2] = (\A i \in DOMAIN reg.nodes[id] : CompleteAt(T \cup {id}, id, i))
    BY DEF Measured, CompleteAt
  <2> HIDE DEF m
  <2> QED
    BY <1>11, <2>1, <2>2, <2>3 DEF total
<1>13. Right(reg, Memoised(r.memo, id, total, r.complete))
  <2>1. r.memo \in Memos /\ total \in 0 .. MaxSize
    <3>1. SizesBelow(reg, T)[id] \in Sizes
      BY SizesType
    <3> QED
      BY <1>11, <1>12, <3>1 DEF Right, Sizes
  <2>3. r.complete => id \in Settled(reg) /\ total = SizeOf(reg, id)
    <3> SUFFICES ASSUME r.complete PROVE id \in Settled(reg) /\ total = SizeOf(reg, id)
      OBVIOUS
    <3>1. SizesBelow(reg, T)[id][2]
      BY <1>12
    <3>2. id \in Settled(reg) /\ \A t \in T : ~Reaches(reg, id, t)
      BY <3>1, CompleteSettled
    <3>3. SizesBelow(reg, T)[id] = Measured(reg, id, SizesBelow(reg, {}))
      BY <3>2, SettledSizes
    <3>4. SizesBelow(reg, {})[id] = Measured(reg, id, SizesBelow(reg, {}))
      BY <3>2, SettledSizes
    <3> QED
      BY <1>12, <3>2, <3>3, <3>4 DEF SizeOf
  <2>4. DOMAIN r.memo \subseteq Settled(reg) /\ \A c \in DOMAIN r.memo : r.memo[c] = SizeOf(reg, c)
    BY <1>11 DEF Right
  <2>5. CASE r.complete
    <3> DEFINE base  == r.memo
               after == Noted(base, id, total)
    <3>1. base \in Memos
      BY <2>1
    <3> HIDE DEF base
    <3>2. /\ after \in Memos
          /\ DOMAIN after = DOMAIN base \cup {id}
          /\ after[id] = total
          /\ \A c \in DOMAIN base \ {id} : after[c] = base[c]
      BY <2>1, <3>1, NotedType
    <3>3. Memoised(base, id, total, r.complete) = after
      BY <2>5 DEF Memoised
    <3> HIDE DEF after
    <3>4. DOMAIN after \subseteq Settled(reg)
      BY <2>3, <2>4, <2>5, <3>2 DEF base
    <3>5. \A c \in DOMAIN after : after[c] = SizeOf(reg, c)
      BY <2>3, <2>4, <2>5, <3>2 DEF base
    <3>6. Right(reg, after)
      BY <3>2, <3>4, <3>5 DEF Right
    <3> QED
      BY <3>3, <3>6 DEF base
  <2>6. CASE ~r.complete
    BY <1>11, <2>6 DEF Memoised
  <2> QED
    BY <2>5, <2>6
<1> QED
  BY <1>3, <1>8, <1>12, <1>13 DEF Told

\* Of a class by itself: its size, and its nodes for its offsets.
LEMMA SizeTold ==
    ASSUME reg \in RegistryType, NEW id \in Ids, Right(reg, cache.sizes)
    PROVE  /\ SizeFound(id).size = SizeOf(reg, id)
           /\ Right(reg, SizeFound(id).memo)
<1> DEFINE memo == cache.sizes
<1>1. memo \in Memos
  BY DEF Right
<1>2. \A t \in {} : Reaches(reg, t, id)
  OBVIOUS
<1>3. SizeFound(id) = SizeWalk[<<{}, id, memo>>]
  BY DEF SizeFound
<1>4. Right(reg, memo)
  OBVIOUS
<1> HIDE DEF memo
<1>5. {} \in SUBSET Ids
  OBVIOUS
<1>6. Told(SizeWalk[<<{}, id, memo>>], {}, id)
  BY <1>1, <1>2, <1>4, <1>5, WalkTold
<1> QED
  BY <1>3, <1>6 DEF Told, SizeOf

LEMMA NodesTold ==
    ASSUME reg \in RegistryType, NEW id \in Ids, Right(reg, cache.sizes)
    PROVE  /\ NodesFound(id).each = [i \in DOMAIN reg.nodes[id] |-> SizeAt({id}, id, i)]
           /\ NodesFound(id).complete => id \in Settled(reg)
           /\ Right(reg, NodesFound(id).memo)
<1> DEFINE memo  == cache.sizes
           below == [b \in Ids \X Memos |-> SizeWalk[<<{id}, b[1], b[2]>>]]
<1>1. {id} \in SUBSET Ids /\ memo \in Memos /\ Right(reg, memo)
  BY DEF Right
<1>2. NodesFound(id) = Summing(below, reg.nodes[id], memo)
  BY DEF NodesFound
<1>3. below \in Below
  <2>1. \A b \in Ids \X Memos : <<{id}, b[1], b[2]>> \in Places
    BY DEF Places
  <2>2. SizeWalk \in [Places -> Answers]
    BY MemoWalkStep
  <2> QED
    BY <2>1, <2>2 DEF Below
<1>4. Tells(below, {id}, id)
  <2>1. ASSUME NEW d \in InlineOf(reg, id), NEW m \in Memos, Right(reg, m)
        PROVE  Told(below[<<d, m>>], {id}, d)
    <3>1. d \in Ids
      BY InlineType
    <3>2. \A t \in {id} : Reaches(reg, t, d)
      BY ReachesOn, ReachesSelf
    <3>3. Told(SizeWalk[<<{id}, d, m>>], {id}, d)
      BY <1>1, <2>1, <3>1, <3>2, WalkTold
    <3>4. below[<<d, m>>] = SizeWalk[<<{id}, d, m>>]
      BY <3>1
    <3> QED
      BY <3>3, <3>4
  <2> HIDE DEF below
  <2> QED
    BY <2>1 DEF Tells
<1> HIDE DEF below, memo
<1>5. /\ NodesFound(id).each = [i \in DOMAIN reg.nodes[id] |-> SizeAt({id}, id, i)]
      /\ NodesFound(id).complete = (\A i \in DOMAIN reg.nodes[id] : CompleteAt({id}, id, i))
      /\ Right(reg, NodesFound(id).memo)
  <2>1. LET r == Summing(below, reg.nodes[id], memo)
        IN  /\ r.each = [i \in DOMAIN reg.nodes[id] |-> SizeAt({id}, id, i)]
            /\ r.complete = (\A i \in DOMAIN reg.nodes[id] : CompleteAt({id}, id, i))
            /\ Right(reg, r.memo)
    BY <1>1, <1>3, <1>4, SumTold
  <2> QED
    BY <1>2, <2>1
<1>6. ASSUME NodesFound(id).complete PROVE id \in Settled(reg)
  <2> DEFINE m == Measured(reg, id, SizesBelow(reg, {id}))
  <2>1. m[2] = (\A i \in DOMAIN reg.nodes[id] : CompleteAt({id}, id, i))
    BY DEF Measured, CompleteAt
  <2>2. SizesBelow(reg, {})[id] = m
    <3>1. {} \in SUBSET Ids /\ id \notin {} /\ {} \cup {id} = {id}
      OBVIOUS
    <3> QED
      BY <3>1, BelowStep
  <2> HIDE DEF m
  <2>3. SizesBelow(reg, {})[id][2]
    BY <1>5, <1>6, <2>1, <2>2
  <2> QED
    BY <2>3, CompleteSettled
<1> QED
  BY <1>5, <1>6

\* The offsets that the sizes add up to.
LEMMA BeginsTold ==
    ASSUME reg \in RegistryType, NEW id \in Ids, Right(reg, cache.sizes)
    PROVE  Begins(NodesFound(id).each) = Offsets(reg, id)
<1> DEFINE ns   == reg.nodes[id]
           n    == Len(ns)
           each == NodesFound(id).each
<1>1. n \in Nat /\ DOMAIN ns = 1 .. n
  BY NodeList
<1>2. each = [i \in 1 .. n |-> SizeAt({id}, id, i)]
  BY <1>1, NodesTold
<1>3. \A i \in 1 .. n : SizeAt({id}, id, i) = KindSize(reg, id, ns[i].kind)
  BY DEF SizeAt, KindSize
<1> HIDE DEF each, n
<1>4. ASSUME NEW i \in 1 .. n
      PROVE  SubSeq(each, 1, i - 1) = [j \in 1 .. i - 1 |-> KindSize(reg, id, ns[j].kind)]
  <2> DEFINE s == [j \in 1 .. i - 1 |-> KindSize(reg, id, ns[j].kind)]
             V == {each[j] : j \in 1 .. n}
  <2>1. each \in Seq(V) /\ Len(each) = n
    BY <1>1, <1>2
  <2>2. \A j \in 1 .. i - 1 : j \in 1 .. n /\ each[j] = KindSize(reg, id, ns[j].kind)
    <3>1. \A j \in 1 .. i - 1 : j \in 1 .. n
      BY <1>1
    <3> HIDE DEF ns
    <3> QED
      BY <1>2, <1>3, <3>1
  <2> HIDE DEF V
  <2>3. /\ SubSeq(each, 1, i - 1) \in Seq(V)
        /\ Len(SubSeq(each, 1, i - 1)) = i - 1
        /\ \A j \in 1 .. i - 1 : SubSeq(each, 1, i - 1)[j] = each[j]
    BY <1>1, <2>1
  <2>4. SubSeq(each, 1, i - 1) = [j \in 1 .. i - 1 |-> SubSeq(each, 1, i - 1)[j]]
    BY <1>1, <2>3
  <2> QED
    BY <2>2, <2>3, <2>4
<1>5. DOMAIN each = 1 .. n
  BY <1>2
<1>6. Begins(each) = [i \in 1 .. n |-> SatSum(SubSeq(each, 1, i - 1))]
  BY <1>5 DEF Begins
<1>7. Offsets(reg, id) = [i \in 1 .. n |->
          SatSum([j \in 1 .. i - 1 |-> KindSize(reg, id, ns[j].kind)])]
  BY <1>1 DEF Offsets
<1> QED
  BY <1>4, <1>6, <1>7 DEF each

-----------------------------------------------------------------------------
(* What the memos hold.                                                    *)

OffsetMemos == UNION {[S -> Seq(0 .. MaxSize)] : S \in SUBSET Ids}

Caches == [sizes : Memos, offsets : OffsetMemos]

Remembered(r, c) ==
    /\ r \in RegistryType
    /\ c \in Caches
    /\ Right(r, c.sizes)
    /\ DOMAIN c.offsets \subseteq Settled(r)
    /\ \A id \in DOMAIN c.offsets : c.offsets[id] = Offsets(r, id)

\* What holds after every call: the registry and the clone of it each have a
\* memo that is right.
CacheInv ==
    /\ Remembered(reg, cache)
    /\ saved \in [reg : {saved.reg}, cache : {saved.cache}]
    /\ Remembered(saved.reg, saved.cache)

LEMMA OffsetsType ==
    ASSUME NEW r \in RegistryType, NEW id \in Ids
    PROVE  Offsets(r, id) \in Seq(0 .. MaxSize)
<1> DEFINE ns == r.nodes[id]
           n  == Len(ns)
<1>1. n \in Nat /\ DOMAIN ns = 1 .. n
  BY NodeList
<1>2. ASSUME NEW i \in 1 .. n
      PROVE  SatSum([j \in 1 .. i - 1 |-> KindSize(r, id, ns[j].kind)]) \in 0 .. MaxSize
  <2> DEFINE s == [j \in 1 .. i - 1 |-> KindSize(r, id, ns[j].kind)]
             V == {KindSize(r, id, ns[j].kind) : j \in 1 .. i - 1}
  <2>1. s \in Seq(V) /\ Len(s) = i - 1 /\ i - 1 \in Nat
    BY <1>1
  <2> HIDE DEF s
  <2> QED
    BY <2>1, SatSumType
<1>3. Offsets(r, id) = [i \in 1 .. n |->
          SatSum([j \in 1 .. i - 1 |-> KindSize(r, id, ns[j].kind)])]
  BY <1>1 DEF Offsets
<1>4. Offsets(r, id) \in [1 .. n -> 0 .. MaxSize]
  BY <1>2, <1>3
<1> HIDE DEF n, ns
<1> DEFINE f == Offsets(r, id)
           B == 0 .. MaxSize
<1>5. f \in [1 .. n -> B] /\ n \in Nat
  BY <1>1, <1>4
<1> HIDE DEF f, B
<1>6. f = [i \in 1 .. n |-> f[i]] /\ \A i \in 1 .. n : f[i] \in B
  BY <1>5
<1>7. [i \in 1 .. n |-> f[i]] \in Seq(B)
  BY <1>5, <1>6
<1>8. f \in Seq(B)
  BY <1>6, <1>7
<1> QED
  BY <1>8 DEF f, B

LEMMA EmptyRemembered ==
    ASSUME NEW r \in RegistryType
    PROVE  Remembered(r, NoCache)
<1>1. <<>> \in [{} -> 0 .. MaxSize] /\ <<>> \in [{} -> Seq(0 .. MaxSize)]
  OBVIOUS
<1>2. <<>> \in Memos /\ <<>> \in OffsetMemos /\ DOMAIN <<>> = {}
  BY <1>1 DEF Memos, OffsetMemos
<1> QED
  BY <1>2 DEF Remembered, Right, NoCache, Caches

\* A registry's memo is right again after an offset is noted.
LEMMA OffsetNoted ==
    ASSUME NEW r, NEW c, Remembered(r, c), NEW sizes, Right(r, sizes), NEW id \in Settled(r)
    PROVE  /\ Remembered(r, [sizes |-> sizes, offsets |-> c.offsets])
           /\ Remembered(r, [sizes |-> sizes, offsets |-> Noted(c.offsets, id, Offsets(r, id))])
<1> DEFINE old == c.offsets
           new == Noted(old, id, Offsets(r, id))
<1>1. r \in RegistryType /\ old \in OffsetMemos /\ sizes \in Memos
  BY DEF Remembered, Caches, Right
<1>2. DOMAIN old \in SUBSET Ids /\ old \in [DOMAIN old -> Seq(0 .. MaxSize)]
  BY <1>1 DEF OffsetMemos
<1>3. id \in Ids /\ Offsets(r, id) \in Seq(0 .. MaxSize)
  BY <1>1, OffsetsType DEF Settled
<1>4. DOMAIN old \subseteq Settled(r) /\ \A i \in DOMAIN old : old[i] = Offsets(r, i)
  BY DEF Remembered
<1> HIDE DEF old
<1>5. new \in [DOMAIN old \cup {id} -> Seq(0 .. MaxSize)]
  BY <1>2, <1>3 DEF Noted
<1>6. new \in OffsetMemos
  BY <1>2, <1>3, <1>5 DEF OffsetMemos
<1>7. DOMAIN new \subseteq Settled(r) /\ \A i \in DOMAIN new : new[i] = Offsets(r, i)
  BY <1>4 DEF Noted
<1> HIDE DEF new
<1> QED
  BY <1>1, <1>4, <1>6, <1>7 DEF Remembered, Caches, new, old

LEMMA InitCache == Init => CacheInv
<1> SUFFICES ASSUME Init PROVE CacheInv
  OBVIOUS
<1>1. reg \in RegistryType
  BY CacheAssumption DEF Init
<1> QED
  BY <1>1, EmptyRemembered DEF Init, CacheInv

\* An edit that is done clears the memo, and one that is not changes nothing.
LEMMA EditKeeps ==
    ASSUME CacheInv, NEW done, NEW new \in RegistryType, done \/ new = reg, Edit(done, new)
    PROVE  CacheInv'
<1>1. reg' = new /\ cache' = (IF done THEN NoCache ELSE cache) /\ saved' = saved
  BY DEF Edit, Invalidate
<1>2. Remembered(reg', cache')
  <2>1. CASE done
    BY <1>1, <2>1, EmptyRemembered
  <2>2. CASE ~done
    BY <1>1, <2>2 DEF CacheInv
  <2> QED
    BY <2>1, <2>2
<1> QED
  BY <1>1, <1>2 DEF CacheInv

LEMMA SizeAskedKeeps ==
    ASSUME CacheInv, NEW id \in Ids
    PROVE  Remembered(reg, [cache EXCEPT !.sizes = SizeFound(id).memo])
<1> DEFINE found == SizeFound(id).memo
<1>1. Remembered(reg, cache) /\ reg \in RegistryType /\ cache \in Caches
  BY DEF CacheInv, Remembered
<1>2. Right(reg, found)
  BY <1>1, SizeTold DEF Remembered
<1> HIDE DEF found
<1>3. found \in Memos
  BY <1>2 DEF Right
<1> QED
  BY <1>1, <1>2, <1>3 DEF Remembered, Caches, found

LEMMA OffsetsAskedKeeps ==
    ASSUME CacheInv, NEW id \in Ids
    PROVE  /\ OffsetsFound(id).offsets = Offsets(reg, id)
           /\ Remembered(reg, OffsetsFound(id).cache)
<1> DEFINE sizes == NodesFound(id).memo
           offs  == Begins(NodesFound(id).each)
           done  == NodesFound(id).complete
<1>1. Remembered(reg, cache) /\ reg \in RegistryType /\ cache \in Caches
  BY DEF CacheInv, Remembered
<1>2. Right(reg, cache.sizes)
  BY <1>1 DEF Remembered
<1>3. Right(reg, sizes) /\ (done => id \in Settled(reg)) /\ offs = Offsets(reg, id)
  BY <1>1, <1>2, NodesTold, BeginsTold
<1>4. OffsetsFound(id) =
          IF id \in DOMAIN cache.offsets
          THEN [offsets |-> cache.offsets[id], cache |-> cache]
          ELSE [offsets |-> offs,
                cache   |-> [sizes   |-> sizes,
                             offsets |-> IF done THEN Noted(cache.offsets, id, offs)
                                         ELSE cache.offsets]]
  BY DEF OffsetsFound
<1> HIDE DEF sizes, offs, done
<1>5. CASE id \in DOMAIN cache.offsets
  BY <1>1, <1>4, <1>5 DEF Remembered
<1>6. CASE id \notin DOMAIN cache.offsets
  <2>1. CASE done
    <3>1. OffsetsFound(id) =
              [offsets |-> offs,
               cache   |-> [sizes |-> sizes, offsets |-> Noted(cache.offsets, id, offs)]]
      BY <1>4, <1>6, <2>1
    <3>2. Remembered(reg, [sizes |-> sizes, offsets |-> Noted(cache.offsets, id, offs)])
      BY <1>1, <1>3, <2>1, OffsetNoted
    <3> QED
      BY <1>3, <3>1, <3>2
  <2>2. CASE ~done
    <3>1. OffsetsFound(id) =
              [offsets |-> offs, cache |-> [sizes |-> sizes, offsets |-> cache.offsets]]
      BY <1>4, <1>6, <2>2
    <3>2. sizes \in Memos
      BY <1>3 DEF Right
    <3>3. Remembered(reg, [sizes |-> sizes, offsets |-> cache.offsets])
      BY <1>1, <1>3, <3>2 DEF Remembered, Caches
    <3> QED
      BY <1>3, <3>1, <3>3
  <2> QED
    BY <2>1, <2>2
<1> QED
  BY <1>5, <1>6

\* remove_class asks for the size, of a class that is there or not.
LEMMA RemoveClassKeeps ==
    ASSUME CacheInv, NEW id \in Ids, RemoveClass(id)
    PROVE  CacheInv'
<1>1. Remembered(reg, cache) /\ reg \in RegistryType
  BY DEF CacheInv, Remembered
<1>2. SizeFound(id).size = SizeOf(reg, id)
  BY <1>1, SizeTold DEF Remembered
<1>3. reg' = ClassRemoved(reg, id) /\ saved' = saved
  BY <1>2 DEF RemoveClass, ClassRemoved
<1>4. Remembered(reg', cache')
  <2>1. CASE id \in reg.live
    <3>1. cache' = NoCache
      BY <2>1 DEF RemoveClass, Invalidate
    <3>2. ClassRemoved(reg, id) \in RegistryType
      BY <1>1, ClassRemovedType
    <3> QED
      BY <1>3, <3>1, <3>2, EmptyRemembered
  <2>2. CASE id \notin reg.live
    <3>1. cache' = [cache EXCEPT !.sizes = SizeFound(id).memo]
      BY <2>2 DEF RemoveClass
    <3>2. reg' = reg
      BY <1>3, <2>2 DEF ClassRemoved, ClassDropped
    <3> QED
      BY <3>1, <3>2, SizeAskedKeeps
  <2> QED
    BY <2>1, <2>2
<1> QED
  BY <1>3, <1>4 DEF CacheInv

LEMMA InsertClassType ==
    ASSUME NEW r \in RegistryType, NEW id \in Ids, NEW ns \in Seq(Node)
    PROVE  [r EXCEPT !.live = @ \cup {id},
                     !.nodes[id] = ns,
                     !.next_id = IF @ > id THEN @ ELSE id + 1] \in RegistryType
<1>1. (IF r.next_id > id THEN r.next_id ELSE id + 1) \in 0 .. MaxId
  BY RegistryAssumption DEF RegistryType, Ids
<1>2. [r.nodes EXCEPT ![id] = ns] \in [Ids -> Seq(Node)]
  BY DEF RegistryType
<1> QED
  BY <1>1, <1>2 DEF RegistryType

LEMMA NextCache == CacheInv /\ [Next]_vars => CacheInv'
<1> SUFFICES ASSUME CacheInv, [Next]_vars PROVE CacheInv'
  OBVIOUS
<1>1. reg \in RegistryType /\ reg.next_id \in 0 .. MaxId
  BY DEF CacheInv, Remembered, RegistryType
<1>2. Kinds \subseteq Kind /\ Counts \subseteq Nat /\ Index \subseteq Nat /\ NoLabel \in Labels
  BY CacheAssumption, RegistryAssumption DEF Index
<1>3. \A k \in Kinds : Plain(k) \in Node /\ <<Plain(k)>> \in Seq(Node)
  <2>1. \A k \in Kinds : Plain(k) \in Node
    BY <1>2, KindTypes
  <2>2. \A x \in Node : <<x>> \in Seq(Node)
    OBVIOUS
  <2> QED
    BY <2>1, <2>2
<1>4. CASE UNCHANGED vars
  BY <1>4 DEF vars, CacheInv
<1>5. ASSUME NEW id \in Ids, AskSize(id) PROVE CacheInv'
  BY <1>5, SizeAskedKeeps DEF AskSize, CacheInv
<1>6. ASSUME NEW id \in Ids, AskOffsets(id) PROVE CacheInv'
  BY <1>6, OffsetsAskedKeeps DEF AskOffsets, CacheInv
<1>7. CASE AddClass
  <2>1. ClassAdded(reg, NoLabel) \in RegistryType
    BY <1>1, <1>2, <1>7, ClassAddedType DEF AddClass
  <2> QED
    BY <1>7, <2>1, EditKeeps DEF AddClass
<1>8. ASSUME NEW c \in Ids, NEW k \in Kinds, PushNode(c, k) PROVE CacheInv'
  <2>1. NodesPushed(reg, c, <<Plain(k)>>) \in RegistryType
    BY <1>1, <1>3, NodesPushedType
  <2>2. c \in reg.live \/ NodesPushed(reg, c, <<Plain(k)>>) = reg
    BY DEF NodesPushed
  <2> QED
    BY <1>8, <2>1, <2>2, EditKeeps DEF PushNode
<1>9. ASSUME NEW c \in Ids, NEW idx \in Index, NEW k \in Kinds, InsertNode(c, idx, k)
      PROVE  CacheInv'
  <2>1. NodesInserted(reg, c, idx, <<Plain(k)>>) \in RegistryType
    BY <1>1, <1>2, <1>3, NodesInsertedType
  <2>2. (c \in reg.live /\ idx <= Len(reg.nodes[c]))
        \/ NodesInserted(reg, c, idx, <<Plain(k)>>) = reg
    BY <1>1, NodeList DEF NodesInserted
  <2> QED
    BY <1>9, <2>1, <2>2, EditKeeps DEF InsertNode
<1>10. ASSUME NEW c \in Ids, NEW idx \in Index, RemoveNode(c, idx) PROVE CacheInv'
  <2>1. NodeRemoved(reg, c, idx) \in RegistryType
    BY <1>1, <1>2, NodeRemovedType
  <2>2. HasNode(reg, c, idx) \/ NodeRemoved(reg, c, idx) = reg
    BY DEF NodeRemoved
  <2> QED
    BY <1>10, <2>1, <2>2, EditKeeps DEF RemoveNode
<1>11. ASSUME NEW c \in Ids, NEW idx \in Index, NEW k \in Kinds, SetKind(c, idx, k)
       PROVE  CacheInv'
  <2>1. KindSet(reg, c, idx, k) \in RegistryType
    BY <1>1, <1>2, KindSetType
  <2>2. HasNode(reg, c, idx) \/ KindSet(reg, c, idx, k) = reg
    BY DEF KindSet
  <2> QED
    BY <1>11, <2>1, <2>2, EditKeeps DEF SetKind
<1>12. ASSUME NEW c \in Ids, NEW idx \in Index, NEW count \in Counts, SetArrayCount(c, idx, count)
       PROVE  CacheInv'
  <2>1. ArrayCountSet(reg, c, idx, count) \in RegistryType
    BY <1>1, <1>2, ArrayCountSetType
  <2>2. (HasNode(reg, c, idx) /\ reg.nodes[c][idx + 1].kind.dims # <<>>)
        \/ ArrayCountSet(reg, c, idx, count) = reg
    BY DEF ArrayCountSet
  <2> QED
    BY <1>12, <2>1, <2>2, EditKeeps DEF SetArrayCount
<1>13. ASSUME NEW ptr \in PtrWidth, SetPtrWidth(ptr) PROVE CacheInv'
  <2>1. PtrWidthSet(reg, ptr) \in RegistryType
    BY <1>1, PtrWidthSetType
  <2>2. reg.ptr # ptr \/ PtrWidthSet(reg, ptr) = reg
    BY <1>1 DEF PtrWidthSet, RegistryType
  <2> QED
    BY <1>13, <2>1, <2>2, EditKeeps DEF SetPtrWidth
<1>14. ASSUME NEW id \in Ids, RemoveClass(id) PROVE CacheInv'
  BY <1>14, RemoveClassKeeps
<1>15. ASSUME NEW id \in Ids, NEW k \in Kinds, InsertClass(id, <<Plain(k)>>) PROVE CacheInv'
  <2>1. [reg EXCEPT !.live = @ \cup {id},
                    !.nodes[id] = <<Plain(k)>>,
                    !.next_id = IF @ > id THEN @ ELSE id + 1] \in RegistryType
    BY <1>1, <1>3, InsertClassType
  <2> QED
    BY <1>15, <2>1, EditKeeps DEF InsertClass
<1>16. CASE Save
  BY <1>16 DEF Save, CacheInv
<1>17. CASE Restore
  BY <1>17 DEF Restore, CacheInv
<1> QED
  BY <1>4, <1>5, <1>6, <1>7, <1>8, <1>9, <1>10, <1>11, <1>12, <1>13, <1>14, <1>15, <1>16, <1>17
  DEF Next

\* In every registry that a session comes to, and in every clone to go back to,
\* the memo has sizes and offsets of classes that no cycle is below, and they
\* are those of the nodes as they are.
THEOREM MemosAreRight == Spec => []CacheInv
<1>1. Init => CacheInv
  BY InitCache
<1>2. CacheInv /\ [Next]_vars => CacheInv'
  BY NextCache
<1> QED
  BY <1>1, <1>2, PTL DEF Spec

LEMMA CacheAnswers == CacheInv => LayoutAnswered
<1> SUFFICES ASSUME CacheInv PROVE LayoutAnswered
  OBVIOUS
<1>1. ASSUME NEW id \in Ids PROVE SizeFound(id).size = SizeOf(reg, id)
  BY SizeTold DEF CacheInv, Remembered
<1>2. ASSUME NEW id \in Ids PROVE OffsetsFound(id).offsets = Offsets(reg, id)
  BY OffsetsAskedKeeps
<1> QED
  BY <1>1, <1>2 DEF LayoutAnswered, SizesAnswered, OffsetsAnswered

LEMMA CacheForgets == CacheInv => CyclesForgotten
<1> SUFFICES ASSUME CacheInv,
                    NEW r \in {[reg |-> reg, cache |-> cache], saved},
                    NEW id \in Ids, NEW c \in Ids,
                    Reaches(r.reg, id, c), NEW d \in InlineOf(r.reg, c), Reaches(r.reg, d, c)
             PROVE  id \notin DOMAIN r.cache.sizes \cup DOMAIN r.cache.offsets
  BY DEF CyclesForgotten
<1>1. Remembered(r.reg, r.cache)
  BY DEF CacheInv
<1>2. DOMAIN r.cache.sizes \cup DOMAIN r.cache.offsets \subseteq Settled(r.reg)
  BY <1>1 DEF Remembered, Right
<1>3. id \notin Settled(r.reg)
  BY DEF Settled, Circular
<1> QED
  BY <1>2, <1>3

\* Whatever has been asked and edited, the sizes and offsets answered from the
\* memo are those of the nodes as they are now.
THEOREM AnswersAreRight == Spec => []LayoutAnswered
BY MemosAreRight, CacheAnswers, PTL

\* Nothing that a cycle goes through or hangs below is ever remembered.
THEOREM CyclesStayForgotten == Spec => []CyclesForgotten
BY MemosAreRight, CacheForgets, PTL
=============================================================================
