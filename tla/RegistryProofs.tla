--------------------------- MODULE RegistryProofs ---------------------------
(***************************************************************************)
(* Lemmas about the operators of Registry, for every number of ids and     *)
(* every registry: what each edit keeps of the registry's type, of its     *)
(* references and of its inline edges; sizes; and the loops of             *)
(* RegistryLoops, which come to the closed forms of Registry.              *)
(***************************************************************************)
EXTENDS RegistryLoops, FiniteSetTheorems, SequenceTheorems, TLAPS

-----------------------------------------------------------------------------
(* Induction along the natural numbers, and recursion along them.          *)

\* A set of natural numbers has a least one.
LEMMA LeastNatural ==
    ASSUME NEW T \in SUBSET Nat, T # {}
    PROVE  \E x \in T : \A y \in T : x <= y
<1>1. \E x \in T : \A y \in T : ~(<<y, x>> \in OpToRel(<, Nat))
  BY NatLessThanWellFounded, WFMin
<1>2. \A x, y \in Nat : ~(<<y, x>> \in OpToRel(<, Nat)) => x <= y
  BY DEF OpToRel
<1> QED
  BY <1>1, <1>2

\* What holds of 0 and passes on to the next up to n holds of all up to n.
LEMMA UpTo ==
    ASSUME NEW n \in Nat, NEW S, 0 \in S, \A i \in 1 .. n : i - 1 \in S => i \in S
    PROVE  \A i \in 0 .. n : i \in S
<1> DEFINE T == {i \in 0 .. n : i \notin S}
<1> SUFFICES ASSUME T # {} PROVE FALSE
  OBVIOUS
<1>1. PICK m \in T : \A y \in T : m <= y
  <2>1. T \in SUBSET Nat
    OBVIOUS
  <2> QED
    BY <2>1, LeastNatural
<1>2. m \in 1 .. n /\ m - 1 \in 0 .. n /\ ~(m <= m - 1)
  BY <1>1
<1> QED
  BY <1>1, <1>2

\* A function that is defined along 0 .. n by what it is one before.
Steps(n, X) == [1 .. n -> [X -> X]]

Walks(n, X, a, g) ==
    {f \in [0 .. n -> X] : f[0] = a /\ \A i \in 1 .. n : f[i] = g[i][f[i - 1]]}

LEMMA Along ==
    ASSUME NEW n \in Nat, NEW X, NEW a \in X, NEW g \in Steps(n, X)
    PROVE  Walks(n, X, a, g) # {}
<1> USE DEF Steps, Walks
<1> DEFINE Good(m) == {f \in [0 .. m -> X] :
                         f[0] = a /\ \A i \in 1 .. m : f[i] = g[i][f[i - 1]]}
           S == {m \in 0 .. n : Good(m) # {}}
<1>1. 0 \in S
  <2> DEFINE f == [i \in {0} |-> a]
  <2>1. 0 .. 0 = {0} /\ 1 .. 0 = {}
    OBVIOUS
  <2>2. f \in Good(0)
    BY <2>1
  <2> HIDE DEF Good, f
  <2> QED
    BY <2>2
<1>2. ASSUME NEW m \in 1 .. n, m - 1 \in S PROVE m \in S
  <2> DEFINE k == m - 1
  <2>1. /\ k \in 0 .. k /\ m \notin 0 .. k /\ 0 \in 0 .. k
        /\ \A i \in 0 .. m : i = m \/ i \in 0 .. k
        /\ \A i \in 1 .. m : i = m \/ i \in 1 .. k
        /\ \A i \in 1 .. k : i \in 0 .. k /\ i - 1 \in 0 .. k /\ i - 1 # m /\ i - 1 \in 0 .. m
        /\ 0 .. k \subseteq 0 .. m /\ m \in 0 .. m
    OBVIOUS
  <2>2. PICK f \in [0 .. k -> X] : f[0] = a /\ \A i \in 1 .. k : f[i] = g[i][f[i - 1]]
    BY <1>2
  <2> DEFINE h == [i \in 0 .. m |-> IF i = m THEN g[m][f[k]] ELSE f[i]]
  <2>3. h \in [0 .. m -> X]
    BY <2>1, <2>2
  <2>4. h[0] = a
    BY <2>1, <2>2
  <2>5. h[m] = g[m][h[k]]
    BY <2>1, <2>2
  <2>6. \A i \in 1 .. k : h[i] = f[i] /\ h[i - 1] = f[i - 1]
    BY <2>1
  <2>7. m - 1 = k
    OBVIOUS
  <2> HIDE DEF h, k
  <2>8. \A i \in 1 .. m : h[i] = g[i][h[i - 1]]
    BY <2>1, <2>2, <2>5, <2>6, <2>7
  <2> QED
    BY <2>3, <2>4, <2>8
<1>3. n \in S
  <2>1. \A i \in 1 .. n : i - 1 \in S => i \in S
    BY <1>2
  <2>2. n \in 0 .. n
    OBVIOUS
  <2> HIDE DEF S
  <2>3. \A i \in 0 .. n : i \in S
    BY <1>1, <2>1, UpTo
  <2> QED
    BY <2>2, <2>3
<1> QED
  BY <1>3

\* A function over P whose value at a place depends only on its values at places
\* of a higher rank is defined, when ranks go up to n.
Ranked(n, P, X, rank, G) ==
    /\ rank \in [P -> 0 .. n]
    /\ G \in [[P -> X] -> [P -> X]]
    /\ \A F, H \in [P -> X], p \in P :
           (\A q \in P : rank[q] > rank[p] => F[q] = H[q]) => G[F][p] = G[H][p]

Fixed(P, X, G) == {F \in [P -> X] : F = G[F]}

LEMMA Settles ==
    ASSUME NEW n \in Nat, NEW P, NEW X, NEW a \in [P -> X], NEW rank, NEW G,
           Ranked(n, P, X, rank, G)
    PROVE  Fixed(P, X, G) # {}
<1> USE DEF Ranked, Fixed
<1> DEFINE Y == [P -> X]
           m == n + 1
           g == [i \in 1 .. m |-> G]
<1>1. m \in Nat /\ m \in 1 .. m /\ n = m - 1 /\ n \in 0 .. m /\ m \in 0 .. m
  OBVIOUS
<1>2. PICK f \in [0 .. m -> Y] : f[0] = a /\ \A i \in 1 .. m : f[i] = g[i][f[i - 1]]
  <2>1. g \in Steps(m, Y)
    BY DEF Steps
  <2> HIDE DEF g, m, Y
  <2>2. Walks(m, Y, a, g) # {}
    BY <1>1, <2>1, Along DEF Y
  <2> QED
    BY <2>2 DEF Walks
<1>3. \A i \in 1 .. m : f[i] = G[f[i - 1]] /\ f[i - 1] \in Y /\ f[i] \in Y
  <2> SUFFICES ASSUME NEW i \in 1 .. m
               PROVE  f[i] = G[f[i - 1]] /\ f[i - 1] \in Y /\ f[i] \in Y
    OBVIOUS
  <2>1. i - 1 \in 0 .. m /\ i \in 0 .. m
    BY <1>1
  <2> QED
    BY <1>2, <2>1
<1> HIDE DEF g, Y
\* After i steps the values of the i highest ranks stay.
<1> DEFINE T == {i \in 0 .. m : i < m => \A p \in P : rank[p] > n - i => f[i + 1][p] = f[i][p]}
<1>4. 0 \in T
  BY <1>1
<1>5. ASSUME NEW i \in 1 .. m, i - 1 \in T PROVE i \in T
  <2> SUFFICES ASSUME i < m, NEW p \in P, rank[p] > n - i
               PROVE  f[i + 1][p] = f[i][p]
    OBVIOUS
  <2>1. i + 1 \in 1 .. m /\ (i + 1) - 1 = i /\ (i - 1) + 1 = i /\ i - 1 < m
    BY <1>1
  <2>2. f[i + 1] = G[f[i]] /\ f[i] = G[f[i - 1]] /\ f[i] \in Y /\ f[i - 1] \in Y
    BY <1>3, <2>1
  <2>3. \A q \in P : rank[q] > n - (i - 1) => f[i][q] = f[i - 1][q]
    BY <1>5, <2>1
  <2>4. \A q \in P : rank[q] > rank[p] => rank[q] > n - (i - 1)
    OBVIOUS
  <2>5. \A q \in P : rank[q] > rank[p] => f[i][q] = f[i - 1][q]
    BY <2>3, <2>4
  <2>6. G[f[i]][p] = G[f[i - 1]][p]
    BY <2>2, <2>5 DEF Y
  <2> QED
    BY <2>2, <2>6
<1>6. \A i \in 0 .. m : i \in T
  <2>1. \A i \in 1 .. m : i - 1 \in T => i \in T
    BY <1>5
  <2> HIDE DEF T, m
  <2> QED
    BY <1>1, <1>4, <2>1, UpTo
\* The last step changes at most the lowest rank, which nothing depends on.
<1>7. f[m] = G[f[n]] /\ f[n] \in Y /\ f[m] \in Y
  <2>1. m \in 1 .. m /\ m - 1 = n
    OBVIOUS
  <2> QED
    BY <1>3, <2>1
<1>8. \A q \in P : rank[q] > 0 => f[m][q] = f[n][q]
  <2>1. n \in T /\ n < m /\ n + 1 = m /\ n - n = 0
    BY <1>1, <1>6
  <2> QED
    BY <2>1
<1>9. ASSUME NEW p \in P PROVE G[f[m]][p] = G[f[n]][p]
  <2>1. \A q \in P : rank[q] > rank[p] => rank[q] > 0
    OBVIOUS
  <2>2. \A q \in P : rank[q] > rank[p] => f[m][q] = f[n][q]
    BY <1>8, <2>1
  <2> QED
    BY <1>7, <2>2 DEF Y
<1> HIDE DEF m, T
<1>10. G[f[m]] \in Y
  BY <1>7 DEF Y
<1>11. f[m] = G[f[m]]
  BY <1>7, <1>9, <1>10 DEF Y
<1> QED
  BY <1>7, <1>11 DEF Y

-----------------------------------------------------------------------------
(* Types.                                                                  *)

\* A registry whose node lists are replaced is a registry.
LEMMA WithNodes ==
    ASSUME NEW reg \in RegistryType, NEW nodes \in [Ids -> Seq(Node)]
    PROVE  [reg EXCEPT !.nodes = nodes] \in RegistryType
BY DEF RegistryType

\* So is one in which one node list is replaced.
LEMMA WithNodesOf ==
    ASSUME NEW reg \in RegistryType, NEW c \in Ids, NEW ns \in Seq(Node)
    PROVE  [reg EXCEPT !.nodes[c] = ns] \in RegistryType
BY DEF RegistryType

\* A node list is a sequence of nodes at the positions of its domain.
LEMMA NodeList ==
    ASSUME NEW reg \in RegistryType, NEW c \in Ids
    PROVE  /\ reg.nodes[c] \in Seq(Node)
           /\ Len(reg.nodes[c]) \in Nat
           /\ DOMAIN reg.nodes[c] = 1 .. Len(reg.nodes[c])
           /\ \A i \in DOMAIN reg.nodes[c] :
                  reg.nodes[c][i] \in Node /\ reg.nodes[c][i].kind \in Kind
<1>1. reg.nodes[c] \in Seq(Node)
  BY DEF RegistryType
<1>2. \A n \in Node : n.kind \in Kind
  BY DEF Node
<1> QED
  BY <1>1, <1>2, LenProperties, ElementOfSeq

\* The kinds the program makes are kinds.
LEMMA KindTypes ==
    /\ \A n \in Nat : Scalar(n) \in Kind /\ Unknown(n) \in Kind
    /\ Pointer \in Kind
    /\ \A c \in Ids : ClassPtr(c) \in Kind /\ Instance(c) \in Kind
    /\ \A k \in Kind : Plain(k) \in Node
<1>1. <<>> \in Seq(Nat)
  OBVIOUS
<1>2. \A n \in Nat : Scalar(n) \in Kind /\ Unknown(n) \in Kind
  BY <1>1 DEF Scalar, Unknown, Kind
<1>3. Pointer \in Kind
  BY <1>1 DEF Pointer, Kind
<1>4. \A c \in Ids : ClassPtr(c) \in Kind /\ Instance(c) \in Kind
  BY <1>1 DEF ClassPtr, Instance, Kind
<1>5. \A k \in Kind : Plain(k) \in Node
  BY RegistryAssumption DEF Plain, Node
<1> QED
  BY <1>2, <1>3, <1>4, <1>5

\* What a kind refers to is a class id, and only an instance is inline.
LEMMA KindRefs ==
    ASSUME NEW k \in Kind
    PROVE  /\ Referenced(k) \in SUBSET Ids
           /\ Inline(k) \in SUBSET Ids
           /\ Inline(k) \subseteq Referenced(k)
BY DEF Kind, Referenced, Inline

\* Numbers and raw bytes refer to nothing.
LEMMA ScalarRefs == \A n : Inline(Scalar(n)) = {} /\ Referenced(Scalar(n)) = {}
BY DEF Scalar, Inline, Referenced

\* An array of a kind is a kind and refers to what its element refers to.
LEMMA ArrayType ==
    ASSUME NEW k \in Kind, NEW count \in Nat
    PROVE  /\ ArrayOf(k, count) \in Kind
           /\ Inline(ArrayOf(k, count)) = Inline(k)
           /\ Referenced(ArrayOf(k, count)) = Referenced(k)
<1>1. k.dims \in Seq(Nat)
  BY DEF Kind
<1>2. <<count>> \o k.dims \in Seq(Nat)
  BY <1>1
<1> QED
  BY <1>2 DEF ArrayOf, Kind, Inline, Referenced

-----------------------------------------------------------------------------
(* Sizes, of any registry: what the walk of size_of_checked computes.      *)

\* A saturating sum of any sizes stays within usize.
LEMMA SatSumType ==
    ASSUME NEW n \in Nat, NEW s, Len(s) = n
    PROVE  SatSum(s) \in 0 .. MaxSize
<1> DEFINE X == 0 .. MaxSize
           g == [i \in 1 .. n |-> [x \in X |-> SatAdd(x, s[i])]]
           sum[i \in 0 .. n] == IF i = 0 THEN 0 ELSE SatAdd(sum[i - 1], s[i])
<1>1. 0 \in X /\ \A a, b : SatAdd(a, b) \in X
  BY RegistryAssumption DEF SatAdd, Sat
<1>2. g \in Steps(n, X)
  BY <1>1 DEF Steps
<1>3. PICK f \in [0 .. n -> X] : f[0] = 0 /\ \A i \in 1 .. n : f[i] = g[i][f[i - 1]]
  <2>1. Walks(n, X, 0, g) # {}
    <3> HIDE DEF g, X
    <3> QED
      BY <1>1, <1>2, Along
  <2> HIDE DEF g, X
  <2> QED
    BY <2>1 DEF Walks
<1>4. f = [i \in 0 .. n |-> IF i = 0 THEN 0 ELSE SatAdd(f[i - 1], s[i])]
  <2>1. ASSUME NEW i \in 0 .. n PROVE f[i] = IF i = 0 THEN 0 ELSE SatAdd(f[i - 1], s[i])
    <3>1. CASE i = 0
      BY <3>1, <1>3
    <3>2. CASE i # 0
      <4>1. i \in 1 .. n /\ i - 1 \in 0 .. n
        BY <3>2
      <4>2. f[i - 1] \in X
        BY <1>3, <4>1
      <4> QED
        BY <1>3, <3>2, <4>1, <4>2
    <3> QED
      BY <3>1, <3>2
  <2> QED
    BY <1>3, <2>1
<1>5. sum = [i \in 0 .. n |-> IF i = 0 THEN 0 ELSE SatAdd(sum[i - 1], s[i])]
  BY <1>4
<1>6. SatSum(s) = sum[n]
  BY DEF SatSum
<1> HIDE DEF sum
<1> QED
  BY <1>1, <1>5, <1>6

\* Sizes, each with whether it is complete.
Sizes == (0 .. MaxSize) \X BOOLEAN

LEMMA ZeroSize == <<0, FALSE>> \in Sizes
<1>1. 0 \in 0 .. MaxSize
  BY RegistryAssumption
<1> QED
  BY <1>1 DEF Sizes

Ats == (SUBSET Ids) \X Ids

\* What a walk is at a place, when `walk' is what it is below.
WalkAt(reg, walk, at) ==
    IF at[2] \in at[1]
    THEN <<0, FALSE>>
    ELSE Measured(reg, at[2], [c \in Ids |-> walk[<<at[1] \cup {at[2]}, c>>]])

\* The size of a class depends on those of the classes it holds, and no other.
LEMMA MeasuredType ==
    ASSUME NEW reg \in RegistryType, NEW id \in Ids, NEW inner
    PROVE  Measured(reg, id, inner) \in Sizes
<1> DEFINE ns == reg.nodes[id]
           s  == [i \in DOMAIN ns |->
                     SatTimes(ns[i].kind.dims, ElementSize(reg, ns[i].kind, inner)[1])]
<1>1. Len(ns) \in Nat /\ DOMAIN ns = 1 .. Len(ns)
  BY NodeList
<1>2. Len(s) = Len(ns)
  BY <1>1
<1>3. SatSum(s) \in 0 .. MaxSize
  <2> HIDE DEF s, ns
  <2> QED
    BY <1>1, <1>2, SatSumType
<1> QED
  BY <1>3 DEF Measured, Sizes

LEMMA MeasuredSame ==
    ASSUME NEW reg \in RegistryType, NEW id \in Ids, NEW f, NEW g,
           \A c \in InlineOf(reg, id) : f[c] = g[c]
    PROVE  Measured(reg, id, f) = Measured(reg, id, g)
<1> DEFINE ns == reg.nodes[id]
<1>1. ASSUME NEW i \in DOMAIN ns
      PROVE  ElementSize(reg, ns[i].kind, f) = ElementSize(reg, ns[i].kind, g)
  BY DEF ElementSize, InlineOf, KindsOf, Inline
<1>2. [i \in DOMAIN ns |-> SatTimes(ns[i].kind.dims, ElementSize(reg, ns[i].kind, f)[1])]
      = [i \in DOMAIN ns |-> SatTimes(ns[i].kind.dims, ElementSize(reg, ns[i].kind, g)[1])]
  BY <1>1
<1>3. (\A i \in DOMAIN ns : ElementSize(reg, ns[i].kind, f)[2])
      = (\A i \in DOMAIN ns : ElementSize(reg, ns[i].kind, g)[2])
  BY <1>1
<1> QED
  BY <1>2, <1>3 DEF Measured

\* A stack of a walk can be counted.
LEMMA StackSize ==
    ASSUME NEW S \in SUBSET Ids
    PROVE  /\ Cardinality(S) \in 0 .. MaxId
           /\ \A c \in Ids \ S : Cardinality(S \cup {c}) = Cardinality(S) + 1
<1>1. IsFiniteSet(Ids) /\ Cardinality(Ids) = MaxId
  <2>1. 0 \in Int /\ MaxId - 1 \in Int /\ 0 <= MaxId - 1
    BY RegistryAssumption
  <2>2. IsFiniteSet(0 .. MaxId - 1) /\ Cardinality(0 .. MaxId - 1) = MaxId - 1 - 0 + 1
    BY <2>1, FS_Interval
  <2> QED
    BY <2>2, RegistryAssumption DEF Ids
<1>2. IsFiniteSet(S) /\ Cardinality(S) <= MaxId
  BY <1>1, FS_Subset
<1>3. Cardinality(S) \in Nat
  BY <1>2, FS_CardinalityType
<1>4. \A c \in Ids \ S : Cardinality(S \cup {c}) = Cardinality(S) + 1
  BY <1>2, FS_AddElement
<1> QED
  BY <1>2, <1>3, <1>4, RegistryAssumption

\* The walk is defined: its stack grows, and there are finitely many classes.
LEMMA WalkStep ==
    ASSUME NEW reg \in RegistryType, NEW at \in Ats
    PROVE  SizeChecked(reg)[at] = WalkAt(reg, SizeChecked(reg), at)
<1> DEFINE X    == [Ats -> Sizes]
           rank == [p \in Ats |-> Cardinality(p[1])]
           G    == [F \in X |-> [p \in Ats |-> WalkAt(reg, F, p)]]
           zero == [p \in Ats |-> <<0, FALSE>>]
<1>1. zero \in X
  BY ZeroSize
<1>2. ASSUME NEW p \in Ats
      PROVE  /\ p[1] \in SUBSET Ids
             /\ rank[p] \in 0 .. MaxId
             /\ p[2] \notin p[1] => \A c \in Ids :
                    /\ <<p[1] \cup {p[2]}, c>> \in Ats
                    /\ rank[<<p[1] \cup {p[2]}, c>>] > rank[p]
  <2>1. p[1] \in SUBSET Ids /\ p[2] \in Ids
    BY DEF Ats
  <2>2. rank[p] = Cardinality(p[1]) /\ Cardinality(p[1]) \in 0 .. MaxId
    BY <2>1, StackSize
  <2>3. ASSUME p[2] \notin p[1], NEW c \in Ids
        PROVE  /\ <<p[1] \cup {p[2]}, c>> \in Ats
               /\ rank[<<p[1] \cup {p[2]}, c>>] > rank[p]
    <3> DEFINE q == <<p[1] \cup {p[2]}, c>>
    <3>1. q \in Ats /\ q[1] = p[1] \cup {p[2]}
      BY <2>1 DEF Ats
    <3> HIDE DEF q
    <3>2. rank[q] = Cardinality(p[1]) + 1
      BY <2>1, <2>3, <3>1, StackSize
    <3>3. rank[q] > rank[p]
      BY <2>2, <3>2
    <3> QED
      BY <3>1, <3>3 DEF q
  <2> QED
    BY <2>1, <2>2, <2>3
<1>3. rank \in [Ats -> 0 .. MaxId]
  BY <1>2
<1>4. ASSUME NEW F, NEW p \in Ats PROVE WalkAt(reg, F, p) \in Sizes
  <2>1. <<0, FALSE>> \in Sizes
    BY ZeroSize
  <2>2. p[2] \in Ids
    BY DEF Ats
  <2> QED
    BY <2>1, <2>2, MeasuredType DEF WalkAt
<1>5. G \in [X -> X]
  <2>1. ASSUME NEW F \in X PROVE [p \in Ats |-> WalkAt(reg, F, p)] \in X
    BY <1>4
  <2> HIDE DEF X
  <2> QED
    BY <2>1
<1>6. ASSUME NEW F \in X, NEW H \in X, NEW p \in Ats,
             \A q \in Ats : rank[q] > rank[p] => F[q] = H[q]
      PROVE  G[F][p] = G[H][p]
  <2> HIDE DEF rank
  <2>1. p[2] \notin p[1] =>
            [c \in Ids |-> F[<<p[1] \cup {p[2]}, c>>]] = [c \in Ids |-> H[<<p[1] \cup {p[2]}, c>>]]
    BY <1>2, <1>6
  <2>2. WalkAt(reg, F, p) = WalkAt(reg, H, p)
    BY <2>1 DEF WalkAt
  <2> HIDE DEF X
  <2> QED
    BY <2>2
<1>7. PICK F \in X : F = G[F]
  <2>1. MaxId \in Nat
    BY RegistryAssumption
  <2> HIDE DEF rank, G, zero
  <2>2. Ranked(MaxId, Ats, Sizes, rank, G)
    BY <1>3, <1>5, <1>6 DEF Ranked
  <2>3. Fixed(Ats, Sizes, G) # {}
    BY <1>1, <2>1, <2>2, Settles
  <2> QED
    BY <2>3 DEF Fixed
<1>8. F = [p \in Ats |-> WalkAt(reg, F, p)]
  <2> HIDE DEF X
  <2> QED
    BY <1>7
<1> DEFINE walk[p \in (SUBSET Ids) \X Ids] ==
               IF p[2] \in p[1]
               THEN <<0, FALSE>>
               ELSE Measured(reg, p[2], [c \in Ids |-> walk[<<p[1] \cup {p[2]}, c>>]])
<1>9. \E W : W = [p \in (SUBSET Ids) \X Ids |->
                     IF p[2] \in p[1]
                     THEN <<0, FALSE>>
                     ELSE Measured(reg, p[2], [c \in Ids |-> W[<<p[1] \cup {p[2]}, c>>]])]
  BY <1>8 DEF WalkAt, Ats
<1>10. walk = [p \in (SUBSET Ids) \X Ids |->
                 IF p[2] \in p[1]
                 THEN <<0, FALSE>>
                 ELSE Measured(reg, p[2], [c \in Ids |-> walk[<<p[1] \cup {p[2]}, c>>]])]
  BY <1>9
<1>11. SizeChecked(reg) = walk
  BY DEF SizeChecked
<1> HIDE DEF walk
<1> QED
  BY <1>10, <1>11 DEF WalkAt, Ats

LEMMA BelowStep ==
    ASSUME NEW reg \in RegistryType, NEW stack \in SUBSET Ids, NEW id \in Ids
    PROVE  SizesBelow(reg, stack)[id] =
               IF id \in stack THEN <<0, FALSE>>
               ELSE Measured(reg, id, SizesBelow(reg, stack \cup {id}))
<1> DEFINE at == <<stack, id>>
<1>1. at \in Ats /\ at[1] = stack /\ at[2] = id
  BY DEF Ats
<1> HIDE DEF at
<1>2. SizeChecked(reg)[at] = WalkAt(reg, SizeChecked(reg), at)
  BY <1>1, WalkStep
<1>3. SizesBelow(reg, stack)[id] = SizeChecked(reg)[at]
  BY DEF SizesBelow, at
<1> QED
  BY <1>1, <1>2, <1>3 DEF WalkAt, SizesBelow

\* A size is a usize.
LEMMA SizesType ==
    ASSUME NEW reg \in RegistryType, NEW stack \in SUBSET Ids, NEW id \in Ids
    PROVE  SizesBelow(reg, stack)[id] \in Sizes
<1> DEFINE below == SizesBelow(reg, stack \cup {id})
<1>1. SizesBelow(reg, stack)[id] =
          IF id \in stack THEN <<0, FALSE>> ELSE Measured(reg, id, below)
  BY BelowStep
<1> HIDE DEF below
<1>2. Measured(reg, id, below) \in Sizes
  BY MeasuredType
<1> QED
  BY <1>1, <1>2, ZeroSize

LEMMA SizeType ==
    ASSUME NEW reg \in RegistryType, NEW c \in Ids
    PROVE  SizeOf(reg, c) \in 0 .. MaxSize
<1>1. SizesBelow(reg, {})[c] \in Sizes
  BY SizesType
<1> QED
  BY <1>1 DEF SizeOf, Sizes

-----------------------------------------------------------------------------
(* The type of what each edit leaves.                                      *)

\* A new class changes no type.
LEMMA ClassAddedType ==
    ASSUME NEW reg \in RegistryType, NEW name \in Labels, reg.next_id < MaxId
    PROVE  /\ ClassAdded(reg, name) \in RegistryType
           /\ reg.next_id \in Ids
<1>1. reg.next_id \in Ids /\ reg.next_id + 1 \in 0 .. MaxId
  BY RegistryAssumption DEF RegistryType, Ids
<1>2. <<>> \in Seq(Node)
  OBVIOUS
<1> QED
  BY <1>1, <1>2 DEF ClassAdded, RegistryType

\* A kind that referred to the class that goes is of its size, or a pointer.
LEMMA DropClassRefType ==
    ASSUME NEW k \in Kind, NEW gone, NEW size \in Nat
    PROVE  /\ DropClassRef(k, gone, size) \in Kind
           /\ Inline(DropClassRef(k, gone, size)) = Inline(k) \ {gone}
           /\ Referenced(DropClassRef(k, gone, size)) = Referenced(k) \ {gone}
BY DEF DropClassRef, Kind, Inline, Referenced

\* Nodes at the end.
LEMMA NodesPushedType ==
    ASSUME NEW reg \in RegistryType, NEW c \in Ids, NEW ns \in Seq(Node)
    PROVE  NodesPushed(reg, c, ns) \in RegistryType
<1>1. reg.nodes[c] \o ns \in Seq(Node)
  BY NodeList, ConcatProperties
<1> QED
  BY <1>1, WithNodesOf DEF NodesPushed

\* Nodes in between.
LEMMA NodesInsertedType ==
    ASSUME NEW reg \in RegistryType, NEW c \in Ids, NEW idx \in Nat, NEW ns \in Seq(Node)
    PROVE  NodesInserted(reg, c, idx, ns) \in RegistryType
<1> DEFINE old == reg.nodes[c]
<1>1. CASE idx \in 0 .. Len(old)
  <2>1. SubSeq(old, 1, idx) \in Seq(Node) /\ SubSeq(old, idx + 1, Len(old)) \in Seq(Node)
    BY <1>1, NodeList, SubSeqProperties
  <2>2. SubSeq(old, 1, idx) \o ns \o SubSeq(old, idx + 1, Len(old)) \in Seq(Node)
    BY <2>1, ConcatProperties
  <2> QED
    BY <2>2, WithNodesOf DEF NodesInserted
<1>2. CASE idx \notin 0 .. Len(old)
  BY <1>2 DEF NodesInserted
<1> QED
  BY <1>1, <1>2

\* One node less.
LEMMA NodeRemovedType ==
    ASSUME NEW reg \in RegistryType, NEW c \in Ids, NEW idx \in Nat
    PROVE  NodeRemoved(reg, c, idx) \in RegistryType
<1> DEFINE old == reg.nodes[c]
<1>1. CASE HasNode(reg, c, idx)
  <2>1. SubSeq(old, 1, idx) \in Seq(Node) /\ SubSeq(old, idx + 2, Len(old)) \in Seq(Node)
    BY <1>1, NodeList, SubSeqProperties DEF HasNode
  <2>2. SubSeq(old, 1, idx) \o SubSeq(old, idx + 2, Len(old)) \in Seq(Node)
    BY <2>1, ConcatProperties
  <2> QED
    BY <1>1, <2>2, WithNodesOf DEF NodeRemoved
<1>2. CASE ~HasNode(reg, c, idx)
  BY <1>2 DEF NodeRemoved
<1> QED
  BY <1>1, <1>2

\* A node's kind or label.
LEMMA NodeReplacedType ==
    ASSUME NEW reg \in RegistryType, NEW c \in Ids, NEW i \in DOMAIN reg.nodes[c],
           NEW n \in Node
    PROVE  [reg EXCEPT !.nodes[c][i] = n] \in RegistryType
<1>1. [reg.nodes[c] EXCEPT ![i] = n] \in Seq(Node)
  BY NodeList, ExceptSeq
<1>2. [reg EXCEPT !.nodes[c] = [reg.nodes[c] EXCEPT ![i] = n]] \in RegistryType
  BY <1>1, WithNodesOf
<1> QED
  BY <1>2

LEMMA KindSetType ==
    ASSUME NEW reg \in RegistryType, NEW c \in Ids, NEW idx \in Nat, NEW k \in Kind
    PROVE  KindSet(reg, c, idx, k) \in RegistryType
<1>1. CASE HasNode(reg, c, idx)
  <2> DEFINE i == idx + 1
             n == [reg.nodes[c][i] EXCEPT !.kind = k]
  <2>1. i \in DOMAIN reg.nodes[c]
    BY <1>1, NodeList DEF HasNode
  <2>2. n \in Node
    BY <2>1, NodeList DEF Node
  <2>3. [reg EXCEPT !.nodes[c][i] = n] \in RegistryType
    BY <2>1, <2>2, NodeReplacedType
  <2>4. KindSet(reg, c, idx, k) = [reg EXCEPT !.nodes[c][i] = n]
    BY <1>1 DEF KindSet
  <2> QED
    BY <2>3, <2>4
<1>2. CASE ~HasNode(reg, c, idx)
  BY <1>2 DEF KindSet
<1> QED
  BY <1>1, <1>2

LEMMA ArrayCountSetType ==
    ASSUME NEW reg \in RegistryType, NEW c \in Ids, NEW idx \in Nat, NEW count \in Nat
    PROVE  ArrayCountSet(reg, c, idx, count) \in RegistryType
<1> DEFINE i == idx + 1
           old == reg.nodes[c][i]
<1>1. CASE HasNode(reg, c, idx) /\ old.kind.dims # <<>>
  <2> DEFINE k == [old.kind EXCEPT !.dims[1] = count]
             n == [old EXCEPT !.kind = k]
  <2>1. i \in DOMAIN reg.nodes[c] /\ old \in Node /\ old.kind \in Kind
    BY <1>1, NodeList DEF HasNode
  <2>2. old.kind.dims \in Seq(Nat) /\ 1 \in 1 .. Len(old.kind.dims)
    BY <1>1, <2>1, EmptySeq DEF Kind
  <2>3. [old.kind.dims EXCEPT ![1] = count] \in Seq(Nat)
    BY <2>2, ExceptSeq
  <2>4. k \in Kind
    BY <2>1, <2>3 DEF Kind
  <2>5. n \in Node
    BY <2>1, <2>4 DEF Node
  <2>6. [reg EXCEPT !.nodes[c][i] = n] \in RegistryType
    BY <2>1, <2>5, NodeReplacedType
  <2>7. ArrayCountSet(reg, c, idx, count) = [reg EXCEPT !.nodes[c][i] = n]
    BY <1>1 DEF ArrayCountSet
  <2> QED
    BY <2>6, <2>7
<1>2. CASE ~(HasNode(reg, c, idx) /\ old.kind.dims # <<>>)
  BY <1>2 DEF ArrayCountSet
<1> QED
  BY <1>1, <1>2

LEMMA NodeRelabelledType ==
    ASSUME NEW reg \in RegistryType, NEW c \in Ids, NEW idx \in Nat, NEW label \in Labels
    PROVE  NodeRelabelled(reg, c, idx, label) \in RegistryType
<1>1. CASE HasNode(reg, c, idx)
  <2> DEFINE i == idx + 1
             n == [reg.nodes[c][i] EXCEPT !.label = label]
  <2>1. i \in DOMAIN reg.nodes[c]
    BY <1>1, NodeList DEF HasNode
  <2>2. n \in Node
    BY <2>1, NodeList DEF Node
  <2>3. [reg EXCEPT !.nodes[c][i] = n] \in RegistryType
    BY <2>1, <2>2, NodeReplacedType
  <2>4. NodeRelabelled(reg, c, idx, label) = [reg EXCEPT !.nodes[c][i] = n]
    BY <1>1 DEF NodeRelabelled
  <2> QED
    BY <2>3, <2>4
<1>2. CASE ~HasNode(reg, c, idx)
  BY <1>2 DEF NodeRelabelled
<1> QED
  BY <1>1, <1>2

LEMMA ClassRelabelledType ==
    ASSUME NEW reg \in RegistryType, NEW c \in Ids, NEW label \in Labels
    PROVE  ClassRelabelled(reg, c, label) \in RegistryType
BY DEF ClassRelabelled, RegistryType

LEMMA PtrWidthSetType ==
    ASSUME NEW reg \in RegistryType, NEW ptr \in PtrWidth
    PROVE  PtrWidthSet(reg, ptr) \in RegistryType
BY DEF PtrWidthSet, RegistryType

\* A finite set of numbers is listed completely: the number of elements below
\* an element tells it from the others.
LEMMA ListingType ==
    ASSUME NEW S \in SUBSET Nat, IsFiniteSet(S)
    PROVE  /\ Cardinality(S) \in Nat
           /\ Listing(S) \in [1 .. Cardinality(S) -> S]
           /\ \A j \in 1 .. Cardinality(S) : Cardinality({k \in S : k < Listing(S)[j]}) = j - 1
           /\ \A i \in S : \A j \in 1 .. Cardinality(S) :
                  Cardinality({k \in S : k < i}) = j - 1 => Listing(S)[j] = i
<1> DEFINE below(i) == {k \in S : k < i}
           n == Cardinality(S)
           rank == [i \in S |-> Cardinality(below(i))]
<1>1. n \in Nat
  BY FS_CardinalityType
<1>2. \A i \in S : IsFiniteSet(below(i)) /\ Cardinality(below(i)) \in 0 .. n - 1
  <2> SUFFICES ASSUME NEW i \in S
               PROVE  IsFiniteSet(below(i)) /\ Cardinality(below(i)) \in 0 .. n - 1
    OBVIOUS
  <2>1. below(i) \in SUBSET S /\ below(i) # S
    <3>1. i \notin below(i)
      OBVIOUS
    <3> QED
      BY <3>1
  <2>2. IsFiniteSet(below(i)) /\ Cardinality(below(i)) <= n /\ Cardinality(below(i)) # n
    BY <2>1, FS_Subset
  <2>3. Cardinality(below(i)) \in Nat
    BY <2>2, FS_CardinalityType
  <2> QED
    BY <1>1, <2>2, <2>3
<1>3. \A i, j \in S : i < j => Cardinality(below(i)) < Cardinality(below(j))
  <2> SUFFICES ASSUME NEW i \in S, NEW j \in S, i < j
               PROVE  Cardinality(below(i)) < Cardinality(below(j))
    OBVIOUS
  <2>1. below(i) \in SUBSET below(j) /\ below(i) # below(j)
    <3>1. i \in below(j) /\ i \notin below(i)
      OBVIOUS
    <3>2. \A k \in below(i) : k \in below(j)
      OBVIOUS
    <3> QED
      BY <3>1, <3>2
  <2>2. IsFiniteSet(below(j)) /\ Cardinality(below(j)) \in Nat
    BY <1>2
  <2>3. Cardinality(below(i)) <= Cardinality(below(j))
        /\ Cardinality(below(i)) # Cardinality(below(j))
    BY <2>1, <2>2, FS_Subset
  <2> QED
    BY <1>2, <2>2, <2>3
<1>4. rank \in Injection(S, 0 .. n - 1)
  <2>1. rank \in [S -> 0 .. n - 1]
    BY <1>2
  <2>2. \A i, j \in S : rank[i] = rank[j] => i = j
    BY <1>2, <1>3
  <2> QED
    BY <2>1, <2>2 DEF Injection, IsInjective
<1>5. IsFiniteSet(0 .. n - 1) /\ Cardinality(0 .. n - 1) = n
  <2> HIDE DEF n
  <2>1. 0 \in Int /\ n - 1 \in Int
    BY <1>1
  <2> QED
    BY <1>1, <2>1, FS_Interval
<1>6. rank \in Surjection(S, 0 .. n - 1)
  BY <1>4, <1>5, FS_Injection
<1>7. \A j \in 1 .. n : \E i \in S : Cardinality(below(i)) = j - 1
  <2> SUFFICES ASSUME NEW j \in 1 .. n PROVE \E i \in S : Cardinality(below(i)) = j - 1
    OBVIOUS
  <2>1. j - 1 \in 0 .. n - 1
    BY <1>1
  <2>2. PICK i \in S : rank[i] = j - 1
    BY <1>6, <2>1 DEF Surjection
  <2> QED
    BY <2>2
<1>8. ASSUME NEW j \in 1 .. n
      PROVE  Listing(S)[j] \in S /\ Cardinality(below(Listing(S)[j])) = j - 1
  BY <1>7 DEF Listing
<1>9. ASSUME NEW i \in S, NEW j \in 1 .. n, Cardinality(below(i)) = j - 1
      PROVE  Listing(S)[j] = i
  <2>1. rank[i] = rank[Listing(S)[j]] /\ Listing(S)[j] \in S
    BY <1>8, <1>9
  <2> QED
    BY <1>4, <2>1 DEF Injection, IsInjective
<1>10. Listing(S) \in [1 .. n -> S]
  BY <1>8 DEF Listing
<1> QED
  BY <1>1, <1>8, <1>9, <1>10

\* delete_many keeps nodes of the class, each as it was.
LEMMA NodesDeletedNodes ==
    ASSUME NEW reg \in RegistryType, NEW targets, NEW c \in Ids
    PROVE  /\ NodesDeleted(reg, targets).nodes[c] \in Seq(Node)
           /\ KindsOf(NodesDeleted(reg, targets), c) \subseteq KindsOf(reg, c)
<1> DEFINE old  == reg.nodes[c]
           S    == {i \in DOMAIN old : <<c, i - 1>> \notin targets}
           kept == Listing(S)
           n    == Cardinality(S)
           new  == NodesDeleted(reg, targets).nodes[c]
<1>0. CASE c \notin reg.live
  <2>1. new = old
    BY <1>0 DEF NodesDeleted, RegistryType
  <2> QED
    BY <2>1, NodeList DEF KindsOf
<1> SUFFICES ASSUME c \in reg.live
             PROVE  new \in Seq(Node) /\ KindsOf(NodesDeleted(reg, targets), c) \subseteq KindsOf(reg, c)
  BY <1>0
<1>1. S \in SUBSET (1 .. Len(old)) /\ S \in SUBSET Nat
  BY NodeList
<1>2. IsFiniteSet(S)
  <2>1. Len(old) \in Nat
    BY NodeList
  <2>2. IsFiniteSet(1 .. Len(old))
    BY <2>1, FS_Interval
  <2> QED
    BY <1>1, <2>2, FS_Subset
<1>3. n \in Nat /\ kept \in [1 .. n -> S]
  BY <1>1, <1>2, ListingType
<1>4. new = [j \in 1 .. n |-> old[kept[j]]]
  BY <1>3 DEF NodesDeleted, RegistryType
<1>5. \A j \in 1 .. n : old[kept[j]] \in Node /\ kept[j] \in DOMAIN old
  BY <1>1, <1>3, NodeList
<1>6. new \in Seq(Node)
  <2>1. new \in [1 .. n -> Node]
    BY <1>4, <1>5
  <2> HIDE DEF n, new
  <2> QED
    BY <1>3, <2>1
<1>7. \A j \in DOMAIN new : new[j].kind \in KindsOf(reg, c)
  BY <1>4, <1>5 DEF KindsOf
<1> QED
  BY <1>6, <1>7 DEF KindsOf

LEMMA NodesDeletedType ==
    ASSUME NEW reg \in RegistryType, NEW targets
    PROVE  NodesDeleted(reg, targets) \in RegistryType
<1> DEFINE new == NodesDeleted(reg, targets)
<1>1. \A c \in Ids : new.nodes[c] \in Seq(Node)
  BY NodesDeletedNodes
<1>2. new.nodes = [c \in Ids |-> new.nodes[c]] /\ new = [reg EXCEPT !.nodes = new.nodes]
  BY DEF NodesDeleted, RegistryType
<1>3. new.nodes \in [Ids -> Seq(Node)]
  BY <1>1, <1>2
<1> QED
  BY <1>2, <1>3, WithNodes

\* The node lists that remove_class leaves: references to the class are gone,
\* and no other.
LEMMA ClassRemovedNodes ==
    ASSUME NEW reg \in RegistryType, NEW id \in reg.live, NEW c \in Ids
    PROVE  /\ ClassRemoved(reg, id).nodes[c] \in Seq(Node)
           /\ \A k \in KindsOf(ClassRemoved(reg, id), c) : \E j \in KindsOf(reg, c) :
                  /\ Inline(k) = Inline(j) \ {id}
                  /\ Referenced(k) = Referenced(j) \ {id}
<1> DEFINE size == SizeOf(reg, id)
           old  == reg.nodes[c]
           new  == ClassRemoved(reg, id).nodes[c]
           moved == [i \in DOMAIN old |-> [old[i] EXCEPT !.kind = DropClassRef(@, id, size)]]
<1>1. size \in Nat
  BY SizeType, RegistryAssumption DEF RegistryType
<1>2. Len(old) \in Nat /\ DOMAIN old = 1 .. Len(old)
  BY NodeList
<1>3. \A i \in DOMAIN old :
          /\ moved[i] \in Node
          /\ moved[i].kind = DropClassRef(old[i].kind, id, size)
          /\ old[i].kind \in Kind
  <2> HIDE DEF size
  <2> SUFFICES ASSUME NEW i \in DOMAIN old
               PROVE  /\ moved[i] \in Node
                      /\ moved[i].kind = DropClassRef(old[i].kind, id, size)
                      /\ old[i].kind \in Kind
    OBVIOUS
  <2>1. old[i] \in Node /\ old[i].kind \in Kind
    BY NodeList
  <2>2. DropClassRef(old[i].kind, id, size) \in Kind
    BY <1>1, <2>1, DropClassRefType
  <2> QED
    BY <2>1, <2>2 DEF Node
<1>4. moved \in Seq(Node)
  <2>1. moved \in [1 .. Len(old) -> Node]
    BY <1>2, <1>3
  <2> HIDE DEF moved
  <2> QED
    BY <1>2, <2>1
<1>5. new = IF c = id THEN <<>> ELSE moved
  BY DEF ClassRemoved, ClassDropped, RegistryType
<1>6. <<>> \in Seq(Node) /\ DOMAIN <<>> = {}
  OBVIOUS
<1>7. ASSUME NEW i \in DOMAIN new
      PROVE  \E j \in KindsOf(reg, c) :
                 /\ Inline(new[i].kind) = Inline(j) \ {id}
                 /\ Referenced(new[i].kind) = Referenced(j) \ {id}
  <2>1. new = moved /\ i \in DOMAIN old
    BY <1>5, <1>6, <1>7
  <2>2. old[i].kind \in KindsOf(reg, c)
    BY <2>1 DEF KindsOf
  <2> HIDE DEF size, new, moved
  <2> QED
    BY <1>1, <1>3, <2>1, <2>2, DropClassRefType
<1> QED
  BY <1>4, <1>5, <1>6, <1>7 DEF KindsOf

LEMMA ClassRemovedType ==
    ASSUME NEW reg \in RegistryType, NEW id \in Ids
    PROVE  /\ ClassRemoved(reg, id) \in RegistryType
           /\ ClassRemoved(reg, id).live = reg.live \ {id}
<1> DEFINE new == ClassRemoved(reg, id)
<1>1. CASE id \in reg.live
  <2>1. \A c \in Ids : new.nodes[c] \in Seq(Node)
    BY <1>1, ClassRemovedNodes
  <2>2. new.nodes \in [Ids -> Seq(Node)]
    <3>1. new.nodes = [c \in Ids |-> new.nodes[c]]
      BY <1>1 DEF ClassRemoved, ClassDropped, RegistryType
    <3> QED
      BY <2>1, <3>1
  <2> QED
    BY <1>1, <2>2, RegistryAssumption DEF ClassRemoved, ClassDropped, RegistryType
<1>2. CASE id \notin reg.live
  BY <1>2 DEF ClassRemoved, ClassDropped
<1> QED
  BY <1>1, <1>2

-----------------------------------------------------------------------------
(* References.                                                             *)

SameRefs(j, k) == Inline(k) = Inline(j) /\ Referenced(k) = Referenced(j)

Refless(k) == Inline(k) = {} /\ Referenced(k) = {}

\* `new' refers to nothing that `old' does not, but for the kinds K that class
\* c has gained.  Kinds that refer to nothing may come anywhere.
Grows(old, new, c, K) ==
    \A d \in Ids : \A k \in KindsOf(new, d) :
        \/ Refless(k)
        \/ \E j \in KindsOf(old, d) : SameRefs(j, k)
        \/ d = c /\ \E j \in K : SameRefs(j, k)

KindsIn(ns) == {ns[i].kind : i \in DOMAIN ns}

\* An edit of one class grows the registry by what its new nodes hold.
LEMMA OneClassGrows ==
    ASSUME NEW old, NEW new, NEW c \in Ids, NEW K,
           \A d \in Ids \ {c} : new.nodes[d] = old.nodes[d],
           \A i \in DOMAIN new.nodes[c] : \E j \in KindsOf(old, c) \cup K :
               SameRefs(j, new.nodes[c][i].kind)
    PROVE  Grows(old, new, c, K)
BY DEF Grows, KindsOf, SameRefs

LEMMA UnchangedGrows ==
    ASSUME NEW old, NEW new, NEW c, NEW K, \A d \in Ids : new.nodes[d] = old.nodes[d]
    PROVE  Grows(old, new, c, K)
BY DEF Grows, KindsOf, SameRefs

\* Nodes that refer to nothing count as no growth.
LEMMA ReflessGrows ==
    ASSUME NEW old, NEW new, NEW c, NEW K, Grows(old, new, c, K), \A k \in K : Refless(k),
           NEW d
    PROVE  Grows(old, new, d, {})
BY DEF Grows, SameRefs, Refless

\* Growth after no growth.
LEMMA GrowsAfter ==
    ASSUME NEW old, NEW mid, NEW new, NEW c, NEW d, NEW K,
           Grows(old, mid, d, {}), Grows(mid, new, c, K)
    PROVE  Grows(old, new, c, K)
BY DEF Grows, SameRefs, Refless

LEMMA PushedGrows ==
    ASSUME NEW reg \in RegistryType, NEW c \in Ids, NEW ns \in Seq(Node)
    PROVE  /\ Grows(reg, NodesPushed(reg, c, ns), c, KindsIn(ns))
           /\ NodesPushed(reg, c, ns).live = reg.live
<1> DEFINE old == reg.nodes[c]
           new == NodesPushed(reg, c, ns)
<1>1. CASE c \in reg.live
  <2>1. \A d \in Ids \ {c} : new.nodes[d] = reg.nodes[d]
    BY <1>1 DEF NodesPushed, RegistryType
  <2>2. new.nodes[c] = old \o ns
    BY <1>1 DEF NodesPushed, RegistryType
  <2>3. old \in Seq(Node) /\ DOMAIN old = 1 .. Len(old) /\ Len(old) \in Nat
    BY NodeList
  <2>4. ASSUME NEW i \in DOMAIN (old \o ns)
        PROVE  \E j \in KindsOf(reg, c) \cup KindsIn(ns) : SameRefs(j, (old \o ns)[i].kind)
    <3>1. i \in 1 .. Len(old) + Len(ns) /\ Len(ns) \in Nat /\ DOMAIN ns = 1 .. Len(ns)
      BY <2>3
    <3>2. CASE i <= Len(old)
      <4>1. (old \o ns)[i] = old[i] /\ i \in DOMAIN old
        BY <2>3, <3>1, <3>2
      <4> QED
        BY <4>1 DEF KindsOf, SameRefs
    <3>3. CASE ~(i <= Len(old))
      <4>1. (old \o ns)[i] = ns[i - Len(old)] /\ i - Len(old) \in DOMAIN ns
        BY <2>3, <3>1, <3>3
      <4> QED
        BY <4>1 DEF KindsIn, SameRefs
    <3> QED
      BY <3>2, <3>3
  <2>5. new.live = reg.live
    BY DEF NodesPushed
  <2> QED
    BY <2>1, <2>2, <2>4, <2>5, OneClassGrows
<1>2. CASE c \notin reg.live
  BY <1>2, UnchangedGrows DEF NodesPushed
<1> QED
  BY <1>1, <1>2

LEMMA InsertedGrows ==
    ASSUME NEW reg \in RegistryType, NEW c \in Ids, NEW idx \in Nat, NEW ns \in Seq(Node)
    PROVE  /\ Grows(reg, NodesInserted(reg, c, idx, ns), c, KindsIn(ns))
           /\ NodesInserted(reg, c, idx, ns).live = reg.live
<1> DEFINE old  == reg.nodes[c]
           head == SubSeq(old, 1, idx)
           tail == SubSeq(old, idx + 1, Len(old))
           new  == NodesInserted(reg, c, idx, ns)
<1>1. CASE c \in reg.live /\ idx \in 0 .. Len(old)
  <2>1. \A d \in Ids \ {c} : new.nodes[d] = reg.nodes[d]
    BY <1>1 DEF NodesInserted, RegistryType
  <2>2. new.nodes[c] = head \o ns \o tail
    BY <1>1 DEF NodesInserted, RegistryType
  <2>3. old \in Seq(Node) /\ DOMAIN old = 1 .. Len(old) /\ Len(old) \in Nat
    BY NodeList
  <2>4. /\ head \in Seq(Node) /\ Len(head) = idx
        /\ \A i \in 1 .. idx : head[i] = old[i]
    BY <1>1, <2>3
  <2>5. /\ tail \in Seq(Node) /\ Len(tail) = Len(old) - idx
        /\ \A i \in 1 .. Len(old) - idx : tail[i] = old[idx + i]
    BY <1>1, <2>3
  <2>6. ASSUME NEW i \in DOMAIN (head \o ns \o tail)
        PROVE  \E j \in KindsOf(reg, c) \cup KindsIn(ns) :
                   SameRefs(j, (head \o ns \o tail)[i].kind)
    <3>1. Len(ns) \in Nat /\ DOMAIN ns = 1 .. Len(ns)
      OBVIOUS
    <3> HIDE DEF head, tail
    <3>2. head \o ns \in Seq(Node) /\ Len(head \o ns) = idx + Len(ns)
      BY <2>4, <3>1
    <3>3. i \in 1 .. Len(old) + Len(ns)
      BY <2>3, <2>5, <3>1, <3>2
    <3>4. CASE i <= idx
      <4>1. (head \o ns \o tail)[i] = old[i] /\ i \in DOMAIN old
        BY <1>1, <2>3, <2>4, <2>5, <3>1, <3>2, <3>3, <3>4
      <4> QED
        BY <4>1 DEF KindsOf, SameRefs
    <3>5. CASE i > idx /\ i <= idx + Len(ns)
      <4>1. (head \o ns \o tail)[i] = ns[i - idx] /\ i - idx \in DOMAIN ns
        BY <2>3, <2>4, <2>5, <3>1, <3>2, <3>3, <3>5
      <4> QED
        BY <4>1 DEF KindsIn, SameRefs
    <3>6. CASE i > idx + Len(ns)
      <4>1. (head \o ns \o tail)[i] = old[i - Len(ns)] /\ i - Len(ns) \in DOMAIN old
        BY <2>3, <2>4, <2>5, <3>1, <3>2, <3>3, <3>6
      <4> QED
        BY <4>1 DEF KindsOf, SameRefs
    <3> QED
      BY <3>1, <3>3, <3>4, <3>5, <3>6
  <2>7. new.live = reg.live
    BY DEF NodesInserted
  <2> HIDE DEF head, tail
  <2> QED
    BY <2>1, <2>2, <2>6, <2>7, OneClassGrows
<1>2. CASE ~(c \in reg.live /\ idx \in 0 .. Len(old))
  BY <1>2, UnchangedGrows DEF NodesInserted
<1> QED
  BY <1>1, <1>2

LEMMA NodeRemovedGrows ==
    ASSUME NEW reg \in RegistryType, NEW c \in Ids, NEW idx \in Nat
    PROVE  /\ Grows(reg, NodeRemoved(reg, c, idx), c, {})
           /\ NodeRemoved(reg, c, idx).live = reg.live
<1> DEFINE old  == reg.nodes[c]
           head == SubSeq(old, 1, idx)
           tail == SubSeq(old, idx + 2, Len(old))
           new  == NodeRemoved(reg, c, idx)
<1>1. CASE HasNode(reg, c, idx)
  <2>1. \A d \in Ids \ {c} : new.nodes[d] = reg.nodes[d]
    BY <1>1 DEF NodeRemoved, RegistryType
  <2>2. new.nodes[c] = head \o tail
    BY <1>1 DEF NodeRemoved, RegistryType
  <2>3. /\ old \in Seq(Node) /\ DOMAIN old = 1 .. Len(old) /\ Len(old) \in Nat
        /\ idx < Len(old)
    BY <1>1, NodeList DEF HasNode
  <2>4. /\ head \in Seq(Node) /\ Len(head) = idx
        /\ \A i \in 1 .. idx : head[i] = old[i]
    BY <2>3
  <2>5. /\ tail \in Seq(Node) /\ Len(tail) = Len(old) - idx - 1
        /\ \A i \in 1 .. Len(old) - idx - 1 : tail[i] = old[idx + 1 + i]
    BY <2>3
  <2>6. ASSUME NEW i \in DOMAIN (head \o tail)
        PROVE  \E j \in KindsOf(reg, c) \cup {} : SameRefs(j, (head \o tail)[i].kind)
    <3> HIDE DEF head, tail
    <3>1. i \in 1 .. Len(old) - 1
      BY <2>3, <2>4, <2>5
    <3>2. CASE i <= idx
      <4>1. (head \o tail)[i] = old[i] /\ i \in DOMAIN old
        BY <2>3, <2>4, <2>5, <3>1, <3>2
      <4> QED
        BY <4>1 DEF KindsOf, SameRefs
    <3>3. CASE ~(i <= idx)
      <4>1. (head \o tail)[i] = old[i + 1] /\ i + 1 \in DOMAIN old
        BY <2>3, <2>4, <2>5, <3>1, <3>3
      <4> QED
        BY <4>1 DEF KindsOf, SameRefs
    <3> QED
      BY <3>2, <3>3
  <2>7. new.live = reg.live
    BY DEF NodeRemoved
  <2> HIDE DEF head, tail
  <2> QED
    BY <2>1, <2>2, <2>6, <2>7, OneClassGrows
<1>2. CASE ~HasNode(reg, c, idx)
  BY <1>2, UnchangedGrows DEF NodeRemoved
<1> QED
  BY <1>1, <1>2

\* Replacing one node by another grows the class by the kind of the other.
LEMMA NodeReplacedGrows ==
    ASSUME NEW reg \in RegistryType, NEW c \in Ids, NEW i \in DOMAIN reg.nodes[c], NEW n
    PROVE  Grows(reg, [reg EXCEPT !.nodes[c][i] = n], c, {n.kind})
<1> DEFINE new == [reg EXCEPT !.nodes[c][i] = n]
<1>1. \A d \in Ids \ {c} : new.nodes[d] = reg.nodes[d]
  BY DEF RegistryType
<1>2. new.nodes[c] = [reg.nodes[c] EXCEPT ![i] = n]
  BY DEF RegistryType
<1>3. ASSUME NEW j \in DOMAIN new.nodes[c]
      PROVE  \E k \in KindsOf(reg, c) \cup {n.kind} : SameRefs(k, new.nodes[c][j].kind)
  BY <1>2, <1>3 DEF KindsOf, SameRefs
<1> QED
  BY <1>1, <1>3, OneClassGrows

LEMMA KindSetGrows ==
    ASSUME NEW reg \in RegistryType, NEW c \in Ids, NEW idx \in Nat, NEW k \in Kind
    PROVE  /\ Grows(reg, KindSet(reg, c, idx, k), c, {k})
           /\ KindSet(reg, c, idx, k).live = reg.live
<1>1. CASE HasNode(reg, c, idx)
  <2> DEFINE i == idx + 1
             n == [reg.nodes[c][i] EXCEPT !.kind = k]
  <2>1. i \in DOMAIN reg.nodes[c]
    BY <1>1, NodeList DEF HasNode
  <2>2. n.kind = k
    BY <2>1, NodeList DEF Node
  <2>3. KindSet(reg, c, idx, k) = [reg EXCEPT !.nodes[c][i] = n]
    BY <1>1 DEF KindSet
  <2>4. Grows(reg, [reg EXCEPT !.nodes[c][i] = n], c, {n.kind})
    BY <2>1, NodeReplacedGrows
  <2> QED
    BY <2>2, <2>3, <2>4 DEF KindSet
<1>2. CASE ~HasNode(reg, c, idx)
  BY <1>2, UnchangedGrows DEF KindSet
<1> QED
  BY <1>1, <1>2

LEMMA ArrayCountSetGrows ==
    ASSUME NEW reg \in RegistryType, NEW c \in Ids, NEW idx \in Nat, NEW count
    PROVE  /\ Grows(reg, ArrayCountSet(reg, c, idx, count), c, {})
           /\ ArrayCountSet(reg, c, idx, count).live = reg.live
<1> DEFINE i == idx + 1
           old == reg.nodes[c][i]
           new == ArrayCountSet(reg, c, idx, count)
<1>1. CASE HasNode(reg, c, idx) /\ old.kind.dims # <<>>
  <2> DEFINE n == [old EXCEPT !.kind.dims[1] = count]
  <2>1. i \in DOMAIN reg.nodes[c] /\ old \in Node /\ old.kind \in KindsOf(reg, c)
    BY <1>1, NodeList DEF HasNode, KindsOf
  <2>2. SameRefs(old.kind, n.kind)
    BY <2>1 DEF Node, Kind, SameRefs, Inline, Referenced
  <2>3. new = [reg EXCEPT !.nodes[c][i] = n]
    BY <1>1 DEF ArrayCountSet
  <2>4. \A d \in Ids \ {c} : new.nodes[d] = reg.nodes[d]
    BY <2>3 DEF RegistryType
  <2>5. new.nodes[c] = [reg.nodes[c] EXCEPT ![i] = n]
    BY <2>3 DEF RegistryType
  <2>6. ASSUME NEW j \in DOMAIN new.nodes[c]
        PROVE  \E k \in KindsOf(reg, c) \cup {} : SameRefs(k, new.nodes[c][j].kind)
    <3> HIDE DEF new, n
    <3>1. CASE j = i
      BY <2>1, <2>2, <2>5, <3>1
    <3>2. CASE j # i
      BY <2>5, <2>6, <3>2 DEF KindsOf, SameRefs
    <3> QED
      BY <3>1, <3>2
  <2>7. new.live = reg.live
    BY DEF ArrayCountSet
  <2> QED
    BY <2>4, <2>6, <2>7, OneClassGrows
<1>2. CASE ~(HasNode(reg, c, idx) /\ old.kind.dims # <<>>)
  BY <1>2, UnchangedGrows DEF ArrayCountSet
<1> QED
  BY <1>1, <1>2

LEMMA NodeRelabelledGrows ==
    ASSUME NEW reg \in RegistryType, NEW c \in Ids, NEW idx \in Nat, NEW label
    PROVE  /\ Grows(reg, NodeRelabelled(reg, c, idx, label), c, {})
           /\ NodeRelabelled(reg, c, idx, label).live = reg.live
<1> DEFINE i == idx + 1
           old == reg.nodes[c][i]
           new == NodeRelabelled(reg, c, idx, label)
<1>1. CASE HasNode(reg, c, idx)
  <2> DEFINE n == [old EXCEPT !.label = label]
  <2>1. i \in DOMAIN reg.nodes[c] /\ old \in Node /\ old.kind \in KindsOf(reg, c)
    BY <1>1, NodeList DEF HasNode, KindsOf
  <2>2. SameRefs(old.kind, n.kind)
    BY <2>1 DEF Node, SameRefs
  <2>3. new = [reg EXCEPT !.nodes[c][i] = n]
    BY <1>1 DEF NodeRelabelled
  <2>4. \A d \in Ids \ {c} : new.nodes[d] = reg.nodes[d]
    BY <2>3 DEF RegistryType
  <2>5. new.nodes[c] = [reg.nodes[c] EXCEPT ![i] = n]
    BY <2>3 DEF RegistryType
  <2>6. ASSUME NEW j \in DOMAIN new.nodes[c]
        PROVE  \E k \in KindsOf(reg, c) \cup {} : SameRefs(k, new.nodes[c][j].kind)
    <3> HIDE DEF new, n
    <3>1. CASE j = i
      BY <2>1, <2>2, <2>5, <3>1
    <3>2. CASE j # i
      BY <2>5, <2>6, <3>2 DEF KindsOf, SameRefs
    <3> QED
      BY <3>1, <3>2
  <2>7. new.live = reg.live
    BY DEF NodeRelabelled
  <2> QED
    BY <2>4, <2>6, <2>7, OneClassGrows
<1>2. CASE ~HasNode(reg, c, idx)
  BY <1>2, UnchangedGrows DEF NodeRelabelled
<1> QED
  BY <1>1, <1>2

LEMMA ClassRelabelledGrows ==
    ASSUME NEW reg \in RegistryType, NEW c, NEW label, NEW d
    PROVE  /\ Grows(reg, ClassRelabelled(reg, c, label), d, {})
           /\ ClassRelabelled(reg, c, label).live = reg.live
<1>1. /\ ClassRelabelled(reg, c, label).nodes = reg.nodes
      /\ ClassRelabelled(reg, c, label).live = reg.live
  BY DEF ClassRelabelled, RegistryType
<1> QED
  BY <1>1, UnchangedGrows

LEMMA PtrWidthSetGrows ==
    ASSUME NEW reg \in RegistryType, NEW ptr, NEW d
    PROVE  /\ Grows(reg, PtrWidthSet(reg, ptr), d, {})
           /\ PtrWidthSet(reg, ptr).live = reg.live
<1>1. /\ PtrWidthSet(reg, ptr).nodes = reg.nodes
      /\ PtrWidthSet(reg, ptr).live = reg.live
  BY DEF PtrWidthSet, RegistryType
<1> QED
  BY <1>1, UnchangedGrows

LEMMA NodesDeletedGrows ==
    ASSUME NEW reg \in RegistryType, NEW targets, NEW d
    PROVE  /\ Grows(reg, NodesDeleted(reg, targets), d, {})
           /\ NodesDeleted(reg, targets).live = reg.live
<1>1. NodesDeleted(reg, targets).live = reg.live
  BY DEF NodesDeleted
<1>2. \A c \in Ids : KindsOf(NodesDeleted(reg, targets), c) \subseteq KindsOf(reg, c)
  BY NodesDeletedNodes
<1> QED
  BY <1>1, <1>2 DEF Grows, SameRefs

\* A new class is empty, whatever its id had before.
LEMMA ClassAddedGrows ==
    ASSUME NEW reg \in RegistryType, NEW name, NEW d, reg.next_id < MaxId
    PROVE  /\ Grows(reg, ClassAdded(reg, name), d, {})
           /\ ClassAdded(reg, name).live = reg.live \cup {reg.next_id}
           /\ KindsOf(ClassAdded(reg, name), reg.next_id) = {}
<1> DEFINE new == ClassAdded(reg, name)
<1>1. reg.next_id \in Ids
  BY RegistryAssumption DEF RegistryType, Ids
<1>2. new.live = reg.live \cup {reg.next_id}
  BY DEF ClassAdded, RegistryType
<1>3. new.nodes[reg.next_id] = <<>>
  BY <1>1 DEF ClassAdded, RegistryType
<1>4. \A c \in Ids \ {reg.next_id} : new.nodes[c] = reg.nodes[c]
  BY <1>1 DEF ClassAdded, RegistryType
<1>5. KindsOf(new, reg.next_id) = {}
  BY <1>3 DEF KindsOf
<1>6. Grows(reg, new, d, {})
  BY <1>4, <1>5 DEF Grows, KindsOf, SameRefs
<1> QED
  BY <1>2, <1>5, <1>6

-----------------------------------------------------------------------------
(* What the guards are for.                                                *)

\* Inline edges lead from ids to ids.
LEMMA InlineType ==
    ASSUME NEW reg \in RegistryType, NEW c \in Ids
    PROVE  InlineOf(reg, c) \in SUBSET Ids
<1>1. \A k \in KindsOf(reg, c) : Inline(k) \in SUBSET Ids
  BY NodeList, KindRefs DEF KindsOf
<1> QED
  BY <1>1 DEF InlineOf

\* The classes that parent is not nested in are closed under inline edges, and
\* parent is not one of them.
LEMMA UnreachableClosed ==
    ASSUME NEW reg \in RegistryType, NEW parent \in Ids
    PROVE  LET R == {d \in Ids : ~Reaches(reg, d, parent)}
           IN  InlineClosed(reg, R) /\ parent \notin R
<1> DEFINE R == {d \in Ids : ~Reaches(reg, d, parent)}
<1>1. parent \notin R
  BY DEF Reaches
<1>2. ASSUME NEW c \in R, NEW d \in InlineOf(reg, c) PROVE d \in R
  <2>1. d \in Ids
    BY InlineType
  <2>2. PICK S \in SUBSET Ids : c \in S /\ InlineClosed(reg, S) /\ parent \notin S
    BY DEF Reaches
  <2>3. d \in S
    BY <2>2 DEF InlineClosed
  <2> QED
    BY <2>1, <2>2, <2>3 DEF Reaches
<1>3. InlineClosed(reg, R)
  BY <1>2 DEF InlineClosed
<1> QED
  BY <1>1, <1>3

\* Paths along inline edges: a class is at the end of its own, a path begins
\* with an edge unless it ends at once, an edge can be added at either end.
LEMMA ReachesSelf == \A reg, c : Reaches(reg, c, c)
BY DEF Reaches

LEMMA ReachesFirst ==
    ASSUME NEW reg \in RegistryType, NEW c \in Ids, NEW d \in Ids, c # d, Reaches(reg, c, d)
    PROVE  \E e \in InlineOf(reg, c) : Reaches(reg, e, d)
<1> SUFFICES ASSUME \A e \in InlineOf(reg, c) : ~Reaches(reg, e, d) PROVE FALSE
  OBVIOUS
<1> DEFINE T == {e \in Ids : ~Reaches(reg, e, d)}
<1>1. InlineClosed(reg, T) /\ d \notin T
  BY UnreachableClosed
<1>2. InlineClosed(reg, T \cup {c})
  BY <1>1, InlineType DEF InlineClosed
<1> QED
  BY <1>1, <1>2 DEF Reaches

LEMMA ReachesOn ==
    \A reg, c, d, e : Reaches(reg, c, d) /\ e \in InlineOf(reg, d) => Reaches(reg, c, e)
BY DEF Reaches, InlineClosed

LEMMA ReachesThrough ==
    ASSUME NEW reg \in RegistryType, NEW c \in Ids, NEW d \in InlineOf(reg, c), NEW t,
           Reaches(reg, d, t)
    PROVE  Reaches(reg, c, t)
BY InlineType DEF Reaches, InlineClosed

LEMMA ReachesJoin ==
    ASSUME NEW reg, NEW c, NEW d \in Ids, NEW e,
           Reaches(reg, c, d), Reaches(reg, d, e)
    PROVE  Reaches(reg, c, e)
BY DEF Reaches

\* An edit that adds inline edges out of one class alone, to classes that it
\* is not nested in, closes no cycle: the guard of would_cycle is enough, for
\* one node and for a whole clipboard.
THEOREM GuardSuffices ==
    ASSUME NEW old \in RegistryType, NEW new \in RegistryType, NEW parent \in Ids, NEW K,
           Grows(old, new, parent, K),
           \A k \in K : ~KindWouldCycle(old, parent, k),
           Acyclic(old)
    PROVE  Acyclic(new)
<1> DEFINE R == {d \in Ids : ~Reaches(old, d, parent)}
<1>1. InlineClosed(old, R) /\ parent \notin R
  BY UnreachableClosed
<1>2. \A c \in Ids \ {parent} : InlineOf(new, c) \subseteq InlineOf(old, c)
  BY DEF Grows, InlineOf, SameRefs, Refless
<1>3. InlineOf(new, parent) \subseteq InlineOf(old, parent) \cup R
  <2> SUFFICES ASSUME NEW d \in InlineOf(new, parent), d \notin InlineOf(old, parent)
               PROVE  d \in R
    OBVIOUS
  <2>1. d \in Ids
    BY InlineType
  <2>2. PICK k \in K : d \in Inline(k)
    BY DEF Grows, InlineOf, SameRefs, Refless
  <2>3. ~WouldCycle(old, parent, d)
    BY <2>2 DEF KindWouldCycle
  <2> QED
    BY <2>1, <2>3 DEF WouldCycle
<1> SUFFICES ASSUME NEW S \in SUBSET Ids, S # {}
             PROVE  \E c \in S : InlineOf(new, c) \cap S = {}
  BY DEF Acyclic
<1>4. CASE S \cap R = {}
  <2>1. PICK c \in S : InlineOf(old, c) \cap S = {}
    BY DEF Acyclic
  <2>2. InlineOf(new, c) \subseteq InlineOf(old, c) \cup R
    BY <1>2, <1>3
  <2> QED
    BY <1>4, <2>1, <2>2
<1>5. CASE S \cap R # {}
  <2>1. PICK c \in S \cap R : InlineOf(old, c) \cap (S \cap R) = {}
    BY <1>5 DEF Acyclic
  <2>2. InlineOf(old, c) \subseteq R
    BY <1>1, <2>1 DEF InlineClosed
  <2>3. InlineOf(new, c) \subseteq InlineOf(old, c)
    BY <1>1, <1>2, <2>1
  <2> QED
    BY <2>1, <2>2, <2>3
<1> QED
  BY <1>4, <1>5

\* The guard is needed as well: an edge it refuses would close a cycle.
THEOREM GuardNeeded ==
    ASSUME NEW reg \in RegistryType, NEW parent \in reg.live, NEW child \in Ids,
           WouldCycle(reg, parent, child)
    PROVE  ~Acyclic(NodesPushed(reg, parent, <<Plain(Instance(child))>>))
<1> DEFINE ns  == <<Plain(Instance(child))>>
           old == reg.nodes[parent]
           new == NodesPushed(reg, parent, ns)
<1>1. parent \in Ids /\ ns \in Seq(Node) /\ new \in RegistryType
  <2>1. parent \in Ids
    BY DEF RegistryType
  <2>2. ns \in Seq(Node)
    BY KindTypes
  <2> QED
    BY <2>1, <2>2, NodesPushedType
<1>2. new.nodes[parent] = old \o ns
  BY <1>1 DEF NodesPushed, RegistryType
<1>3. \A c \in Ids \ {parent} : new.nodes[c] = reg.nodes[c]
  BY DEF NodesPushed, RegistryType
<1>4. child \in InlineOf(new, parent)
  <2>1. old \in Seq(Node) /\ Len(old) \in Nat
    BY <1>1, NodeList
  <2>2. Len(old) + 1 \in DOMAIN (old \o ns) /\ (old \o ns)[Len(old) + 1] = Plain(Instance(child))
    BY <1>1, <2>1
  <2>3. Inline(Plain(Instance(child)).kind) = {child}
    BY DEF Plain, Instance, Inline
  <2> HIDE DEF ns, new
  <2> QED
    BY <1>2, <2>2, <2>3 DEF InlineOf, KindsOf
<1>5. \A c \in Ids : InlineOf(reg, c) \subseteq InlineOf(new, c)
  <2>1. old \in Seq(Node) /\ DOMAIN old = 1 .. Len(old)
    BY <1>1, NodeList
  <2>2. \A i \in DOMAIN old : i \in DOMAIN (old \o ns) /\ (old \o ns)[i] = old[i]
    BY <1>1, <2>1
  <2>3. KindsOf(reg, parent) \subseteq KindsOf(new, parent)
    BY <1>2, <2>2 DEF KindsOf
  <2> QED
    BY <1>3, <2>3 DEF InlineOf, KindsOf
<1> HIDE DEF new
\* The classes that child leads to without meeting parent again, and parent:
\* each of them holds one of them.
<1> DEFINE C == {d \in Ids : Reaches(reg, child, d) /\ Reaches(reg, d, parent)} \cup {parent}
<1>6. ASSUME NEW c \in C PROVE InlineOf(new, c) \cap C # {}
  <2>1. CASE c = parent
    <3>1. child = parent \/ Reaches(reg, child, parent)
      BY DEF WouldCycle
    <3>2. child \in C
      BY <3>1, ReachesSelf
    <3> QED
      BY <1>4, <2>1, <3>2
  <2>2. CASE c # parent
    <3>1. c \in Ids /\ Reaches(reg, child, c) /\ Reaches(reg, c, parent)
      BY <2>2
    <3>2. PICK e \in InlineOf(reg, c) : Reaches(reg, e, parent)
      BY <1>1, <2>2, <3>1, ReachesFirst
    <3>3. e \in Ids
      BY <3>1, InlineType
    <3>4. e \in C
      BY <3>1, <3>2, <3>3, ReachesOn
    <3> QED
      BY <1>5, <3>1, <3>2, <3>4
  <2> QED
    BY <2>1, <2>2
<1>7. C \in SUBSET Ids /\ C # {}
  BY <1>1
<1> HIDE DEF C
<1>8. ~Acyclic(new)
  BY <1>6, <1>7 DEF Acyclic
<1> QED
  BY <1>8 DEF new

\* Removing a class closes no cycle.
LEMMA ClassRemovedAcyclic ==
    ASSUME NEW reg \in RegistryType, NEW id \in Ids, Acyclic(reg)
    PROVE  Acyclic(ClassRemoved(reg, id))
<1> DEFINE new == ClassRemoved(reg, id)
<1>1. CASE id \in reg.live
  <2>1. \A c \in Ids : InlineOf(new, c) \subseteq InlineOf(reg, c)
    BY <1>1, ClassRemovedNodes DEF InlineOf
  <2> QED
    BY <2>1 DEF Acyclic
<1>2. CASE id \notin reg.live
  BY <1>2 DEF ClassRemoved, ClassDropped
<1> QED
  BY <1>1, <1>2

\* An edit whose new nodes refer to classes there are leaves none dangling.
LEMMA GrowsNoDangling ==
    ASSUME NEW old, NEW new, NEW c, NEW K,
           Grows(old, new, c, K),
           new.live \subseteq Ids,
           old.live \subseteq new.live,
           \A d \in new.live \ old.live : \A k \in KindsOf(new, d) :
               Referenced(k) \subseteq new.live,
           \A k \in K : Referenced(k) \subseteq new.live,
           NoDangling(old)
    PROVE  NoDangling(new)
BY DEF Grows, NoDangling, SameRefs, Refless

\* Removing a class takes every reference to it along.
LEMMA ClassRemovedNoDangling ==
    ASSUME NEW reg \in RegistryType, NEW id \in Ids, NoDangling(reg)
    PROVE  NoDangling(ClassRemoved(reg, id))
<1> DEFINE new == ClassRemoved(reg, id)
<1>1. CASE id \in reg.live
  <2>1. new.live = reg.live \ {id} /\ reg.live \subseteq Ids
    BY ClassRemovedType DEF RegistryType
  <2>2. \A c \in Ids : \A k \in KindsOf(new, c) :
            \E j \in KindsOf(reg, c) : Referenced(k) = Referenced(j) \ {id}
    BY <1>1, ClassRemovedNodes
  <2> HIDE DEF new
  <2>3. NoDangling(new)
    BY <2>1, <2>2 DEF NoDangling
  <2> QED
    BY <2>3 DEF new
<1>2. CASE id \notin reg.live
  BY <1>2 DEF ClassRemoved, ClassDropped
<1> QED
  BY <1>1, <1>2

-----------------------------------------------------------------------------
(* Sizes that no cycle cuts short.                                         *)

\* A class that is nested in itself.
Circular(reg, c) == \E d \in InlineOf(reg, c) : Reaches(reg, d, c)

\* The classes that neither are such nor hold one.
Settled(reg) == {id \in Ids : \A c \in Ids : Reaches(reg, id, c) => ~Circular(reg, c)}

LEMMA SettledClosed ==
    ASSUME NEW reg \in RegistryType
    PROVE  /\ Settled(reg) \in SUBSET Ids
           /\ \A c \in Settled(reg) :
                  /\ InlineOf(reg, c) \subseteq Settled(reg)
                  /\ \A d \in InlineOf(reg, c) : ~Reaches(reg, d, c)
<1>1. Settled(reg) \in SUBSET Ids
  BY DEF Settled
<1>2. ASSUME NEW c \in Settled(reg), NEW d \in InlineOf(reg, c)
      PROVE  d \in Settled(reg) /\ ~Reaches(reg, d, c)
  <2>1. c \in Ids /\ d \in Ids
    BY <1>1, InlineType
  <2>2. ASSUME NEW x \in Ids, Reaches(reg, d, x) PROVE ~Circular(reg, x)
    <3>1. Reaches(reg, c, x)
      BY <2>1, <2>2, ReachesThrough
    <3> QED
      BY <3>1 DEF Settled
  <2>3. ~Circular(reg, c)
    BY <2>1, ReachesSelf DEF Settled
  <2> QED
    BY <2>1, <2>2, <2>3 DEF Settled, Circular
<1> QED
  BY <1>1, <1>2

\* Among settled classes there is one that holds none of the others.
LEMMA SettledAcyclic ==
    ASSUME NEW reg \in RegistryType, NEW S \in SUBSET Settled(reg), S # {}
    PROVE  \E c \in S : InlineOf(reg, c) \cap S = {}
<1> DEFINE R(c) == {x \in Ids : Reaches(reg, c, x)}
           sizes == {Cardinality(R(c)) : c \in S}
<1>1. S \in SUBSET Ids
  BY SettledClosed
<1>2. ASSUME NEW T \in SUBSET Ids PROVE IsFiniteSet(T) /\ Cardinality(T) \in Nat
  <2>1. IsFiniteSet(Ids)
    <3>1. 0 \in Int /\ MaxId - 1 \in Int
      BY RegistryAssumption
    <3> QED
      BY <3>1, FS_Interval DEF Ids
  <2>2. IsFiniteSet(T)
    BY <2>1, FS_Subset
  <2> QED
    BY <2>2, FS_CardinalityType
<1>3. PICK c \in S : \A d \in S : Cardinality(R(c)) <= Cardinality(R(d))
  <2>1. sizes \in SUBSET Nat /\ sizes # {}
    BY <1>2
  <2>2. PICK x \in sizes : \A y \in sizes : x <= y
    <3> HIDE DEF sizes
    <3> QED
      BY <2>1, LeastNatural
  <2> QED
    BY <2>2
<1> SUFFICES ASSUME NEW d \in InlineOf(reg, c), d \in S PROVE FALSE
  BY <1>3
<1>4. c \in Ids /\ d \in Ids /\ ~Reaches(reg, d, c) /\ Reaches(reg, c, c)
  BY <1>1, SettledClosed, ReachesSelf
<1>5. R(d) \subseteq R(c) \ {c}
  BY <1>4, ReachesThrough
<1>6. R(c) \in SUBSET Ids /\ R(c) \ {c} \in SUBSET Ids /\ R(d) \in SUBSET Ids /\ c \in R(c)
  BY <1>4
<1> HIDE DEF R
<1>7. Cardinality(R(c) \ {c}) = Cardinality(R(c)) - 1
  BY <1>2, <1>6, FS_RemoveElement
<1>8. Cardinality(R(d)) <= Cardinality(R(c) \ {c})
  BY <1>2, <1>5, <1>6, FS_Subset
<1>9. Cardinality(R(c)) \in Nat /\ Cardinality(R(d)) \in Nat
  BY <1>2, <1>6
<1> QED
  BY <1>3, <1>7, <1>8, <1>9

\* The size of a class is complete if those of what it holds are, and not
\* otherwise.
LEMMA MeasuredComplete ==
    ASSUME NEW reg \in RegistryType, NEW id \in Ids, NEW inner,
           \A c \in InlineOf(reg, id) : inner[c][2] \in BOOLEAN
    PROVE  Measured(reg, id, inner)[2] = (\A c \in InlineOf(reg, id) : inner[c][2])
<1> DEFINE ns == reg.nodes[id]
<1>1. Measured(reg, id, inner)[2] = (\A i \in DOMAIN ns : ElementSize(reg, ns[i].kind, inner)[2])
  BY DEF Measured
<1>2. ASSUME NEW i \in DOMAIN ns, \A c \in InlineOf(reg, id) : inner[c][2]
      PROVE  ElementSize(reg, ns[i].kind, inner)[2]
  BY <1>2 DEF ElementSize, InlineOf, KindsOf, Inline
<1>3. ASSUME NEW c \in InlineOf(reg, id), \A i \in DOMAIN ns : ElementSize(reg, ns[i].kind, inner)[2]
      PROVE  inner[c][2]
  <2>1. PICK i \in DOMAIN ns : c \in Inline(ns[i].kind)
    BY DEF InlineOf, KindsOf
  <2> QED
    BY <1>3, <2>1 DEF ElementSize, Inline
<1> QED
  BY <1>1, <1>2, <1>3

\* Where it is met does not matter to the size of a settled class, if the walk
\* has not come through what is nested in it.
LEMMA SettledSizes ==
    ASSUME NEW reg \in RegistryType
    PROVE  \A id \in Settled(reg), T \in SUBSET Ids :
               (\A t \in T : ~Reaches(reg, id, t)) =>
                   /\ SizesBelow(reg, T)[id] = Measured(reg, id, SizesBelow(reg, {}))
                   /\ SizesBelow(reg, T)[id][2] = TRUE
<1> DEFINE Fine(id, T) == (\A t \in T : ~Reaches(reg, id, t)) =>
                            /\ SizesBelow(reg, T)[id] = Measured(reg, id, SizesBelow(reg, {}))
                            /\ SizesBelow(reg, T)[id][2] = TRUE
           Bad == {id \in Settled(reg) : \E T \in SUBSET Ids : ~Fine(id, T)}
<1> SUFFICES ASSUME Bad # {} PROVE FALSE
  OBVIOUS
<1>1. PICK id \in Bad : InlineOf(reg, id) \cap Bad = {}
  <2>1. Bad \in SUBSET Settled(reg)
    OBVIOUS
  <2> HIDE DEF Bad
  <2> QED
    BY <2>1, SettledAcyclic
<1>2. ASSUME NEW d \in InlineOf(reg, id), NEW T \in SUBSET Ids, \A t \in T : ~Reaches(reg, d, t)
      PROVE  /\ SizesBelow(reg, T)[d] = SizesBelow(reg, {})[d]
             /\ SizesBelow(reg, T)[d][2] = TRUE
  <2>1. d \in Settled(reg) /\ d \notin Bad
    BY <1>1, SettledClosed
  <2>2. Fine(d, T) /\ Fine(d, {})
    BY <2>1
  <2> QED
    BY <1>2, <2>2
<1>3. ASSUME NEW T \in SUBSET Ids, \A t \in T : ~Reaches(reg, id, t)
      PROVE  /\ SizesBelow(reg, T)[id] = Measured(reg, id, SizesBelow(reg, {}))
             /\ SizesBelow(reg, T)[id][2] = TRUE
  <2> DEFINE below == SizesBelow(reg, T \cup {id})
  <2>1. id \in Settled(reg) /\ id \in Ids /\ id \notin T
    BY <1>1, <1>3, SettledClosed, ReachesSelf
  <2>2. SizesBelow(reg, T)[id] = Measured(reg, id, below)
    BY <2>1, BelowStep
  <2>3. ASSUME NEW d \in InlineOf(reg, id)
        PROVE  below[d] = SizesBelow(reg, {})[d] /\ below[d][2] = TRUE
    <3>1. \A t \in T \cup {id} : ~Reaches(reg, d, t)
      BY <1>3, <2>1, SettledClosed, ReachesThrough
    <3> QED
      BY <1>2, <2>1, <3>1
  <2> HIDE DEF below
  <2>4. Measured(reg, id, below) = Measured(reg, id, SizesBelow(reg, {}))
    <3> DEFINE N == SizesBelow(reg, {})
    <3>1. \A d \in InlineOf(reg, id) : below[d] = N[d]
      BY <2>3
    <3> HIDE DEF N
    <3>2. Measured(reg, id, below) = Measured(reg, id, N)
      BY <2>1, <3>1, MeasuredSame
    <3> QED
      BY <3>2 DEF N
  <2>5. Measured(reg, id, below)[2] = TRUE
    BY <2>1, <2>3, MeasuredComplete
  <2> QED
    BY <2>2, <2>4, <2>5
<1> QED
  BY <1>1, <1>3

\* A size that is complete is that of a settled class, met where the walk has
\* not come through what is nested in it.
LEMMA CompleteSettled ==
    ASSUME NEW reg \in RegistryType
    PROVE  \A id \in Ids, T \in SUBSET Ids :
               SizesBelow(reg, T)[id][2] =>
                   id \in Settled(reg) /\ \A t \in T : ~Reaches(reg, id, t)
<1> DEFINE Fine(id, T) == SizesBelow(reg, T)[id][2] =>
                              id \in Settled(reg) /\ \A t \in T : ~Reaches(reg, id, t)
           left == {MaxId - Cardinality(T) :
                       T \in {T \in SUBSET Ids : \E id \in Ids : ~Fine(id, T)}}
<1> SUFFICES ASSUME left # {} PROVE FALSE
  OBVIOUS
<1>1. PICK T \in SUBSET Ids :
          /\ \E id \in Ids : ~Fine(id, T)
          /\ \A U \in SUBSET Ids :
                 MaxId - Cardinality(U) < MaxId - Cardinality(T) => \A id \in Ids : Fine(id, U)
  <2>1. left \in SUBSET Nat
    BY StackSize, RegistryAssumption
  <2>2. PICK x \in left : \A y \in left : x <= y
    <3> HIDE DEF left
    <3> QED
      BY <2>1, LeastNatural
  <2>3. PICK T \in SUBSET Ids : x = MaxId - Cardinality(T) /\ \E id \in Ids : ~Fine(id, T)
    BY <2>2
  <2>4. ASSUME NEW U \in SUBSET Ids, MaxId - Cardinality(U) < MaxId - Cardinality(T), NEW id \in Ids
        PROVE  Fine(id, U)
    <3> SUFFICES ASSUME ~Fine(id, U) PROVE FALSE
      OBVIOUS
    <3>1. MaxId - Cardinality(U) \in left
      OBVIOUS
    <3>2. Cardinality(U) \in Nat /\ Cardinality(T) \in Nat /\ MaxId \in Nat
      BY StackSize, RegistryAssumption
    <3> HIDE DEF left
    <3> QED
      BY <2>2, <2>3, <2>4, <3>1, <3>2
  <2> QED
    BY <2>3, <2>4
<1>2. PICK id \in Ids : ~Fine(id, T)
  BY <1>1
<1> DEFINE below == SizesBelow(reg, T \cup {id})
<1>3. SizesBelow(reg, T)[id][2] /\ id \notin T /\ SizesBelow(reg, T)[id] = Measured(reg, id, below)
  <2>1. SizesBelow(reg, T)[id] = IF id \in T THEN <<0, FALSE>> ELSE Measured(reg, id, below)
    BY BelowStep
  <2>2. SizesBelow(reg, T)[id][2]
    BY <1>2
  <2> HIDE DEF below
  <2>3. id \notin T
    <3> SUFFICES ASSUME id \in T PROVE FALSE
      OBVIOUS
    <3>1. SizesBelow(reg, T)[id] = <<0, FALSE>>
      BY <2>1
    <3> QED
      BY <2>2, <3>1
  <2> QED
    BY <2>1, <2>2, <2>3
<1>4. \A d \in InlineOf(reg, id) : d \in Ids /\ Fine(d, T \cup {id})
  <2>1. \A d \in InlineOf(reg, id) : d \in Ids
    BY InlineType
  <2>2. /\ Cardinality(T \cup {id}) = Cardinality(T) + 1
        /\ Cardinality(T) \in 0 .. MaxId
        /\ T \cup {id} \in SUBSET Ids
    BY <1>3, StackSize
  <2>3. MaxId - Cardinality(T \cup {id}) < MaxId - Cardinality(T)
    BY <2>2, RegistryAssumption
  <2> HIDE DEF Fine
  <2> QED
    BY <1>1, <2>1, <2>2, <2>3
<1>5. \A d \in InlineOf(reg, id) : below[d][2]
  <2>1. \A d \in Ids : below[d] \in Sizes
    BY SizesType
  <2> HIDE DEF below
  <2>2. \A d \in InlineOf(reg, id) : below[d][2] \in BOOLEAN
    BY <2>1, InlineType DEF Sizes
  <2> QED
    BY <1>3, <2>2, MeasuredComplete
<1>6. \A d \in InlineOf(reg, id) :
          d \in Settled(reg) /\ \A t \in T \cup {id} : ~Reaches(reg, d, t)
  BY <1>4, <1>5
<1>7. \A t \in T : ~Reaches(reg, id, t)
  BY <1>3, <1>6, ReachesFirst
<1>8. ASSUME NEW c \in Ids, Reaches(reg, id, c) PROVE ~Circular(reg, c)
  <2>1. CASE c = id
    BY <1>6, <2>1 DEF Circular
  <2>2. CASE c # id
    BY <1>6, <1>8, <2>2, ReachesFirst DEF Settled
  <2> QED
    BY <2>1, <2>2
<1> QED
  BY <1>2, <1>7, <1>8 DEF Settled

-----------------------------------------------------------------------------
(* Sizes, of a registry without an inline cycle.                           *)

\* No class is nested in what it holds.
LEMMA NoReturn ==
    ASSUME NEW reg \in RegistryType, Acyclic(reg), NEW c \in Ids, NEW d \in InlineOf(reg, c)
    PROVE  d \in Ids /\ ~Reaches(reg, d, c)
<1>1. d \in Ids
  BY InlineType
<1> SUFFICES ASSUME Reaches(reg, d, c) PROVE FALSE
  BY <1>1
<1> DEFINE R == {x \in Ids : ~Reaches(reg, x, c)}
           S == Ids \ R
<1>2. InlineClosed(reg, R) /\ c \notin R
  BY UnreachableClosed
<1>3. d \in S /\ c \in S
  BY <1>1, <1>2
<1>4. PICK x \in S : InlineOf(reg, x) \cap S = {}
  BY <1>3 DEF Acyclic
<1>5. x # c
  BY <1>3, <1>4
<1>6. InlineOf(reg, x) \subseteq R
  BY <1>4, InlineType
<1>7. InlineClosed(reg, R \cup {x})
  BY <1>2, <1>6 DEF InlineClosed
<1>8. R \cup {x} \in SUBSET Ids /\ x \in R \cup {x} /\ c \notin R \cup {x}
  BY <1>2, <1>5
<1>9. ~Reaches(reg, x, c)
  <2> HIDE DEF R, S
  <2> QED
    BY <1>7, <1>8 DEF Reaches
<1> QED
  BY <1>4, <1>9

\* Such a registry has settled classes only.
LEMMA AcyclicSettled ==
    ASSUME NEW reg \in RegistryType, Acyclic(reg)
    PROVE  Settled(reg) = Ids
BY NoReturn DEF Settled, Circular

LEMMA SizeAnywhere ==
    ASSUME NEW reg \in RegistryType, Acyclic(reg)
    PROVE  \A id \in Ids, T \in SUBSET Ids :
               (\A t \in T : ~Reaches(reg, id, t)) =>
                   /\ SizesBelow(reg, T)[id] = Measured(reg, id, SizesBelow(reg, {}))
                   /\ SizesBelow(reg, T)[id][2] = TRUE
BY AcyclicSettled, SettledSizes

\* In particular when it is met within a class that holds it.
LEMMA SizeWithin ==
    ASSUME NEW reg \in RegistryType, Acyclic(reg), NEW c \in Ids
    PROVE  /\ SizesBelow(reg, {})[c] = Measured(reg, c, SizesBelow(reg, {}))
           /\ SizesBelow(reg, {})[c][2] = TRUE
           /\ \A d \in InlineOf(reg, c) : SizesBelow(reg, {c})[d] = SizesBelow(reg, {})[d]
<1>1. ASSUME NEW d \in InlineOf(reg, c) PROVE SizesBelow(reg, {c})[d] = SizesBelow(reg, {})[d]
  <2>1. d \in Ids /\ ~Reaches(reg, d, c)
    BY NoReturn
  <2>2. /\ SizesBelow(reg, {c})[d] = Measured(reg, d, SizesBelow(reg, {}))
        /\ SizesBelow(reg, {})[d] = Measured(reg, d, SizesBelow(reg, {}))
    BY <2>1, SizeAnywhere
  <2> QED
    BY <2>2
<1> QED
  BY <1>1, SizeAnywhere

\* The bytes that remove_class leaves are those of the class that went, and
\* nothing else of a node has changed.
LEMMA RemovedNode ==
    ASSUME NEW reg \in RegistryType, NEW gone \in reg.live, NEW c \in Ids, c # gone,
           NEW i \in DOMAIN reg.nodes[c]
    PROVE  /\ DOMAIN ClassRemoved(reg, gone).nodes[c] = DOMAIN reg.nodes[c]
           /\ ClassRemoved(reg, gone).nodes[c][i].kind =
                  DropClassRef(reg.nodes[c][i].kind, gone, SizeOf(reg, gone))
           /\ ClassRemoved(reg, gone).ptr = reg.ptr
<1> DEFINE size == SizeOf(reg, gone)
           old  == reg.nodes[c]
<1>1. old[i] \in Node /\ DOMAIN old = DOMAIN old
  BY NodeList
<1> HIDE DEF size
<1>2. ClassDropped(reg, gone, size).nodes[c] =
          [j \in DOMAIN old |-> [old[j] EXCEPT !.kind = DropClassRef(@, gone, size)]]
  BY DEF ClassDropped, RegistryType
<1>3. ClassDropped(reg, gone, size).ptr = reg.ptr
  BY DEF ClassDropped, RegistryType
<1>4. [old[i] EXCEPT !.kind = DropClassRef(@, gone, size)].kind =
          DropClassRef(old[i].kind, gone, size)
  BY <1>1 DEF Node
<1>5. ClassRemoved(reg, gone) = ClassDropped(reg, gone, size)
  BY DEF ClassRemoved, size
<1> QED
  BY <1>2, <1>3, <1>4, <1>5 DEF size

LEMMA RemovedElement ==
    ASSUME NEW reg \in RegistryType, Acyclic(reg), NEW gone \in reg.live,
           NEW c \in Ids, c # gone, NEW i \in DOMAIN reg.nodes[c],
           NEW f, \A d \in InlineOf(reg, c) \ {gone} : f[d] = SizesBelow(reg, {})[d]
    PROVE  LET k == reg.nodes[c][i].kind
               l == ClassRemoved(reg, gone).nodes[c][i].kind
           IN  /\ l.dims = k.dims
               /\ ElementSize(ClassRemoved(reg, gone), l, f) =
                      ElementSize(reg, k, SizesBelow(reg, {}))
<1> DEFINE k    == reg.nodes[c][i].kind
           new  == ClassRemoved(reg, gone)
           l    == new.nodes[c][i].kind
           size == SizeOf(reg, gone)
           N    == SizesBelow(reg, {})
<1>1. l = DropClassRef(k, gone, size) /\ new.ptr = reg.ptr
  BY RemovedNode
<1>2. k \in Kind /\ k \in KindsOf(reg, c)
  BY NodeList DEF KindsOf
<1>3. N[gone] \in Sizes /\ N[gone][2] = TRUE
  <2>1. gone \in Ids
    BY DEF RegistryType
  <2>2. N[gone] = Measured(reg, gone, N) /\ N[gone][2] = TRUE
    BY <2>1, SizeWithin
  <2> HIDE DEF N
  <2> QED
    BY <2>1, <2>2, MeasuredType
<1>4. N[gone] = <<size, TRUE>>
  <2>1. size = N[gone][1]
    BY DEF SizeOf
  <2> HIDE DEF N, size
  <2>2. N[gone] = <<N[gone][1], N[gone][2]>> /\ N[gone][1] \in 0 .. MaxSize
    BY <1>3 DEF Sizes
  <2> QED
    BY <1>3, <2>1, <2>2
<1> HIDE DEF new, size, N
<1>5. CASE k.tag = "instance" /\ k.arg = gone
  <2>1. l = [k EXCEPT !.tag = "unknown", !.arg = size]
    BY <1>1, <1>5 DEF DropClassRef
  <2>2. l.tag = "unknown" /\ l.arg = size /\ l.dims = k.dims
    BY <1>2, <2>1 DEF Kind
  <2> QED
    BY <1>4, <1>5, <2>2 DEF ElementSize, FixedSize, new, N
<1>6. CASE k.tag = "class_ptr" /\ k.arg = gone
  <2>1. l = [k EXCEPT !.tag = "pointer", !.arg = 0]
    BY <1>1, <1>6 DEF DropClassRef
  <2>2. l.tag = "pointer" /\ l.dims = k.dims
    BY <1>2, <2>1 DEF Kind
  <2> QED
    BY <1>1, <1>6, <2>2 DEF ElementSize, FixedSize, new, N
<1>7. CASE ~(k.tag \in {"instance", "class_ptr"} /\ k.arg = gone)
  <2>1. l = k
    BY <1>1, <1>7 DEF DropClassRef
  <2>2. k.tag = "instance" => k.arg \in InlineOf(reg, c) \ {gone}
    BY <1>2, <1>7 DEF InlineOf, Inline
  <2> QED
    BY <1>1, <2>1, <2>2 DEF ElementSize, FixedSize, new, N
<1> QED
  BY <1>5, <1>6, <1>7 DEF new

\* So the classes that are left are as large as they were.
LEMMA RemovedSizes ==
    ASSUME NEW reg \in RegistryType, Acyclic(reg), NEW gone \in reg.live
    PROVE  \A c \in Ids \ {gone} :
               SizesBelow(ClassRemoved(reg, gone), {})[c] = SizesBelow(reg, {})[c]
<1> DEFINE new == ClassRemoved(reg, gone)
           N   == SizesBelow(reg, {})
           M   == SizesBelow(new, {})
           Bad == {c \in Ids \ {gone} : M[c] # N[c]}
<1> SUFFICES ASSUME Bad # {} PROVE FALSE
  OBVIOUS
<1>1. gone \in Ids /\ new \in RegistryType /\ Acyclic(new)
  BY ClassRemovedType, ClassRemovedAcyclic DEF RegistryType
<1>2. PICK c \in Bad : InlineOf(reg, c) \cap Bad = {}
  BY DEF Acyclic
<1>3. c \in Ids /\ c # gone /\ M[c] # N[c]
  BY <1>2
<1>4. \A d \in InlineOf(reg, c) \ {gone} : M[d] = N[d]
  BY <1>2, <1>3, InlineType
<1>5. M[c] = Measured(new, c, M) /\ N[c] = Measured(reg, c, N)
  <2>1. N[c] = Measured(reg, c, N)
    BY <1>3, SizeWithin
  <2> HIDE DEF new, N
  <2>2. M[c] = Measured(new, c, M)
    BY <1>1, <1>3, SizeWithin
  <2> QED
    BY <2>1, <2>2
<1> HIDE DEF M
<1>6. ASSUME NEW i \in DOMAIN reg.nodes[c]
      PROVE  /\ DOMAIN new.nodes[c] = DOMAIN reg.nodes[c]
             /\ new.nodes[c][i].kind.dims = reg.nodes[c][i].kind.dims
             /\ ElementSize(new, new.nodes[c][i].kind, M)
                    = ElementSize(reg, reg.nodes[c][i].kind, N)
  BY <1>3, <1>4, RemovedNode, RemovedElement
<1>7. DOMAIN new.nodes[c] = DOMAIN reg.nodes[c]
  BY <1>1, <1>3 DEF ClassRemoved, ClassDropped, RegistryType
<1> HIDE DEF new, N, Bad
<1>8. [i \in DOMAIN new.nodes[c] |->
          SatTimes(new.nodes[c][i].kind.dims, ElementSize(new, new.nodes[c][i].kind, M)[1])]
      = [i \in DOMAIN reg.nodes[c] |->
          SatTimes(reg.nodes[c][i].kind.dims, ElementSize(reg, reg.nodes[c][i].kind, N)[1])]
  BY <1>6, <1>7
<1>9. (\A i \in DOMAIN new.nodes[c] : ElementSize(new, new.nodes[c][i].kind, M)[2])
      = (\A i \in DOMAIN reg.nodes[c] : ElementSize(reg, reg.nodes[c][i].kind, N)[2])
  BY <1>6, <1>7
<1>10. Measured(new, c, M) = Measured(reg, c, N)
  BY <1>8, <1>9 DEF Measured
<1> QED
  BY <1>3, <1>5, <1>10

\* Nothing is nested in a class that was not before another one went.
LEMMA RemovedReaches ==
    ASSUME NEW reg \in RegistryType, NEW gone \in reg.live, NEW d \in Ids, NEW c \in Ids,
           ~Reaches(reg, d, c)
    PROVE  ~Reaches(ClassRemoved(reg, gone), d, c)
<1> DEFINE new == ClassRemoved(reg, gone)
<1>1. \A x \in Ids : InlineOf(new, x) \subseteq InlineOf(reg, x)
  BY ClassRemovedNodes DEF InlineOf
<1>2. PICK S \in SUBSET Ids : d \in S /\ InlineClosed(reg, S) /\ c \notin S
  BY DEF Reaches
<1> HIDE DEF new
<1>3. InlineClosed(new, S)
  BY <1>1, <1>2 DEF InlineClosed
<1>4. ~Reaches(new, d, c)
  BY <1>2, <1>3 DEF Reaches
<1> QED
  BY <1>4 DEF new

\* Removing a class keeps the layout of every other, by value several levels up
\* and in arrays of any dimensions, saturated or not.
LEMMA RemovedLayout ==
    ASSUME NEW reg \in RegistryType, Acyclic(reg), NEW gone \in Ids,
           NEW c \in ClassRemoved(reg, gone).live
    PROVE  /\ Offsets(ClassRemoved(reg, gone), c) = Offsets(reg, c)
           /\ SizeOf(ClassRemoved(reg, gone), c) = SizeOf(reg, c)
<1> DEFINE new == ClassRemoved(reg, gone)
<1>1. CASE gone \notin reg.live
  BY <1>1 DEF ClassRemoved, ClassDropped
<1>2. CASE gone \in reg.live
  <2>1. c \in Ids /\ c # gone /\ new \in RegistryType /\ Acyclic(new)
    BY <1>2, ClassRemovedType, ClassRemovedAcyclic DEF RegistryType, ClassRemoved, ClassDropped
  <2>2. SizeOf(new, c) = SizeOf(reg, c)
    BY <1>2, <2>1, RemovedSizes DEF SizeOf
  <2>3. DOMAIN new.nodes[c] = DOMAIN reg.nodes[c]
    BY <1>2, <2>1 DEF ClassRemoved, ClassDropped, RegistryType
  <2>4. ASSUME NEW i \in DOMAIN reg.nodes[c]
        PROVE  KindSize(new, c, new.nodes[c][i].kind) = KindSize(reg, c, reg.nodes[c][i].kind)
    <3> DEFINE k == reg.nodes[c][i].kind
               l == new.nodes[c][i].kind
               f == SizesBelow(new, {c})
               g == SizesBelow(reg, {c})
               N == SizesBelow(reg, {})
    <3>1. k \in KindsOf(reg, c)
      BY DEF KindsOf
    <3>2. \A d \in InlineOf(reg, c) : g[d] = N[d]
      BY <2>1, SizeWithin
    <3>3. \A d \in InlineOf(reg, c) \ {gone} : d \in Ids /\ d # gone
      BY <2>1, InlineType
    <3>4. ASSUME NEW d \in InlineOf(reg, c) \ {gone} PROVE f[d] = N[d]
      <4>1. d \in Ids /\ d # gone /\ ~Reaches(reg, d, c)
        BY <2>1, <3>3, NoReturn
      <4>2. N[d] = SizesBelow(new, {})[d]
        BY <1>2, <4>1, RemovedSizes
      <4>3. ~Reaches(new, d, c)
        BY <1>2, <2>1, <4>1, RemovedReaches
      <4> HIDE DEF new, N
      <4>4. /\ SizesBelow(new, {c})[d] = Measured(new, d, SizesBelow(new, {}))
            /\ SizesBelow(new, {})[d] = Measured(new, d, SizesBelow(new, {}))
        BY <2>1, <4>1, <4>3, SizeAnywhere
      <4> QED
        BY <4>2, <4>4
    <3>5. l.dims = k.dims /\ ElementSize(new, l, f) = ElementSize(reg, k, N)
      BY <1>2, <2>1, <3>4, RemovedElement
    <3>6. ElementSize(reg, k, g) = ElementSize(reg, k, N)
      BY <3>1, <3>2 DEF ElementSize, InlineOf, Inline
    <3> HIDE DEF k, l, f, g, N, new
    <3> QED
      BY <3>5, <3>6 DEF KindSize, k, l, f, g
  <2> HIDE DEF new
  <2>5. DOMAIN reg.nodes[c] = 1 .. Len(reg.nodes[c]) /\ Len(reg.nodes[c]) \in Nat
    BY <2>1, NodeList
  <2>6. ASSUME NEW i \in DOMAIN reg.nodes[c]
        PROVE  [j \in 1 .. i - 1 |-> KindSize(new, c, new.nodes[c][j].kind)]
               = [j \in 1 .. i - 1 |-> KindSize(reg, c, reg.nodes[c][j].kind)]
    <3>1. \A j \in 1 .. i - 1 : j \in DOMAIN reg.nodes[c]
      BY <2>5
    <3> QED
      BY <2>4, <3>1
  <2>7. Offsets(new, c) = Offsets(reg, c)
    BY <2>3, <2>6 DEF Offsets
  <2> QED
    BY <2>2, <2>7 DEF new
<1> QED
  BY <1>1, <1>2

-----------------------------------------------------------------------------
(* The work list of would_cycle.                                           *)

\* A work list after the nodes of a class: it goes on with the classes that
\* they hold and were not in it.
LEMMA WithInlinedIs ==
    ASSUME NEW reg \in RegistryType, NEW id \in Ids, NEW seen \in WorkLists
    PROVE  LET new == WithInlined(seen, reg.nodes[id])
           IN  /\ new \in WorkLists
               /\ Len(seen) <= Len(new)
               /\ \A i \in 1 .. Len(seen) : new[i] = seen[i]
               /\ ToSet(new) = ToSet(seen) \cup InlineOf(reg, id)
<1> DEFINE ns == reg.nodes[id]
           n  == Len(ns)
           X  == WorkLists
           Grown(k, last) == IF Inline(k) \subseteq ToSet(last) THEN last ELSE Append(last, k.arg)
           g  == [j \in 1 .. n |-> [x \in X |-> Grown(ns[j].kind, x)]]
<1>1. n \in Nat /\ DOMAIN ns = 1 .. n /\ \A j \in 1 .. n : ns[j].kind \in Kind
  BY NodeList
<1>2. ASSUME NEW x \in X, NEW k \in Kind
      PROVE  /\ Grown(k, x) \in X
             /\ Len(x) <= Len(Grown(k, x))
             /\ \A i \in 1 .. Len(x) : Grown(k, x)[i] = x[i]
             /\ ToSet(Grown(k, x)) = ToSet(x) \cup Inline(k)
  <2>1. CASE Inline(k) \subseteq ToSet(x)
    <3>1. Grown(k, x) = x /\ Len(x) \in Nat
      BY <2>1 DEF WorkLists
    <3> QED
      BY <2>1, <3>1
  <2>2. CASE ~(Inline(k) \subseteq ToSet(x))
    <3> DEFINE y == Append(x, k.arg)
    <3>1. k.tag = "instance" /\ k.arg \in Ids /\ Inline(k) = {k.arg} /\ k.arg \notin ToSet(x)
      BY <2>2 DEF Inline, Kind
    <3>2. x \in Seq(Ids) /\ Len(x) \in Nat /\ DOMAIN x = 1 .. Len(x) /\ IsInjective(x)
      BY DEF WorkLists
    <3>3. /\ y \in Seq(Ids) /\ Len(y) = Len(x) + 1 /\ DOMAIN y = 1 .. Len(x) + 1
          /\ \A i \in 1 .. Len(x) : y[i] = x[i]
          /\ y[Len(x) + 1] = k.arg
      BY <3>1, <3>2
    <3>4. Grown(k, x) = y
      BY <2>2
    <3> HIDE DEF y
    <3>5. \A i \in 1 .. Len(x) + 1 : i \in 1 .. Len(x) \/ i = Len(x) + 1
      BY <3>2
    <3>6. ToSet(y) = ToSet(x) \cup {k.arg}
      <4>1. \A i \in 1 .. Len(x) : i \in 1 .. Len(x) + 1
        BY <3>2
      <4>2. Len(x) + 1 \in 1 .. Len(x) + 1
        BY <3>2
      <4> QED
        BY <3>2, <3>3, <3>5, <4>1, <4>2 DEF ToSet
    <3>7. \A i \in 1 .. Len(x) : y[i] \in ToSet(x)
      BY <3>2, <3>3 DEF ToSet
    <3>8. ASSUME NEW a \in 1 .. Len(x) + 1, NEW b \in 1 .. Len(x) + 1, y[a] = y[b] PROVE a = b
      <4>1. CASE a \in 1 .. Len(x) /\ b \in 1 .. Len(x)
        <5>1. x[a] = x[b]
          BY <3>3, <3>8, <4>1
        <5> QED
          BY <3>2, <4>1, <5>1 DEF IsInjective
      <4>2. CASE a = Len(x) + 1 /\ b = Len(x) + 1
        BY <4>2
      <4>3. CASE a \in 1 .. Len(x) /\ b = Len(x) + 1
        BY <3>1, <3>3, <3>7, <3>8, <4>3
      <4>4. CASE b \in 1 .. Len(x) /\ a = Len(x) + 1
        BY <3>1, <3>3, <3>7, <3>8, <4>4
      <4> QED
        BY <3>5, <4>1, <4>2, <4>3, <4>4
    <3>9. IsInjective(y)
      BY <3>3, <3>8 DEF IsInjective
    <3>10. y \in X
      BY <3>3, <3>9 DEF WorkLists
    <3>11. Len(x) <= Len(y)
      BY <3>2, <3>3
    <3> HIDE DEF Grown
    <3> QED
      BY <3>1, <3>3, <3>4, <3>6, <3>10, <3>11
  <2> QED
    BY <2>1, <2>2
<1> HIDE DEF Grown
<1>3. PICK f \in [0 .. n -> X] : f[0] = seen /\ \A j \in 1 .. n : f[j] = g[j][f[j - 1]]
  <2>1. g \in Steps(n, X)
    <3> HIDE DEF X, n, ns
    <3> QED
      BY <1>1, <1>2 DEF Steps
  <2> HIDE DEF g, X, n
  <2>2. Walks(n, X, seen, g) # {}
    BY <1>1, <2>1, Along DEF X
  <2> QED
    BY <2>2 DEF Walks
<1>4. ASSUME NEW j \in 1 .. n PROVE f[j] = Grown(ns[j].kind, f[j - 1])
  <2>1. f[j - 1] \in X
    BY <1>1, <1>3
  <2> HIDE DEF X, n, ns
  <2> QED
    BY <1>3, <2>1
<1> HIDE DEF g, X
<1>5. f = [j \in 0 .. n |->
             IF j = 0 THEN seen
             ELSE IF Inline(ns[j].kind) \subseteq ToSet(f[j - 1]) THEN f[j - 1]
             ELSE Append(f[j - 1], ns[j].kind.arg)]
  <2>1. \A j \in 0 .. n : j = 0 \/ j \in 1 .. n
    BY <1>1
  <2> HIDE DEF n, ns
  <2> QED
    BY <1>3, <1>4, <2>1 DEF Grown
<1> DEFINE noted[j \in 0 .. n] ==
             LET last == noted[j - 1]
                 k    == ns[j].kind
             IN  IF j = 0 THEN seen
                 ELSE IF Inline(k) \subseteq ToSet(last) THEN last
                 ELSE Append(last, k.arg)
<1>6. noted = [j \in 0 .. n |->
             IF j = 0 THEN seen
             ELSE IF Inline(ns[j].kind) \subseteq ToSet(noted[j - 1]) THEN noted[j - 1]
             ELSE Append(noted[j - 1], ns[j].kind.arg)]
  <2> HIDE DEF n, ns
  <2> QED
    BY <1>5
<1>7. WithInlined(seen, ns) = noted[n]
  BY DEF WithInlined
<1> HIDE DEF noted
<1> DEFINE Held(j) == UNION {Inline(ns[m].kind) : m \in 1 .. j}
           Good(j) == /\ noted[j] \in X
                      /\ Len(seen) <= Len(noted[j])
                      /\ \A i \in 1 .. Len(seen) : noted[j][i] = seen[i]
                      /\ ToSet(noted[j]) = ToSet(seen) \cup Held(j)
           S == {j \in 0 .. n : Good(j)}
<1>8. 0 \in 0 .. n /\ \A j \in 1 .. n : j \in 0 .. n /\ j # 0 /\ j - 1 \in 0 .. n
  BY <1>1
<1>9. 0 \in S
  <2>1. noted[0] = seen
    BY <1>6, <1>8
  <2>2. Held(0) = {}
    <3>1. 1 .. 0 = {}
      OBVIOUS
    <3> QED
      BY <3>1
  <2>3. seen \in X /\ Len(seen) <= Len(seen)
    <3>1. Len(seen) \in Nat
      BY DEF WorkLists
    <3> QED
      BY <3>1 DEF X
  <2> HIDE DEF n, ns, Held
  <2> QED
    BY <1>8, <2>1, <2>2, <2>3
<1>10. ASSUME NEW j \in 1 .. n, j - 1 \in S PROVE j \in S
  <2> DEFINE x == noted[j - 1]
             k == ns[j].kind
  <2>1. j \in 0 .. n /\ j # 0 /\ Good(j - 1) /\ k \in Kind
    BY <1>1, <1>8, <1>10
  <2>2. noted[j] = Grown(k, x)
    <3> HIDE DEF n, ns
    <3> QED
      BY <1>6, <2>1 DEF Grown
  <2>3. /\ x \in X /\ Len(seen) <= Len(x)
        /\ \A i \in 1 .. Len(seen) : x[i] = seen[i]
        /\ ToSet(x) = ToSet(seen) \cup Held(j - 1)
    BY <2>1
  <2>4. Held(j) = Held(j - 1) \cup Inline(k)
    <3>1. \A m \in 1 .. j : m = j \/ m \in 1 .. j - 1
      BY <1>1
    <3>2. j \in 1 .. j /\ \A m \in 1 .. j - 1 : m \in 1 .. j
      BY <1>1
    <3> HIDE DEF n, ns
    <3> QED
      BY <3>1, <3>2
  <2> HIDE DEF x, k, Held
  <2>5. /\ Grown(k, x) \in X
        /\ Len(x) <= Len(Grown(k, x))
        /\ \A i \in 1 .. Len(x) : Grown(k, x)[i] = x[i]
        /\ ToSet(Grown(k, x)) = ToSet(x) \cup Inline(k)
    BY <1>2, <2>1, <2>3 DEF X
  <2>6. Len(seen) \in Nat /\ Len(x) \in Nat /\ Len(Grown(k, x)) \in Nat
    BY <2>3, <2>5 DEF WorkLists, X
  <2>7. \A i \in 1 .. Len(seen) : i \in 1 .. Len(x)
    BY <2>3, <2>6
  <2>8. Len(seen) <= Len(Grown(k, x))
    BY <2>3, <2>5, <2>6
  <2>9. \A i \in 1 .. Len(seen) : Grown(k, x)[i] = seen[i]
    BY <2>3, <2>5, <2>7
  <2>10. ToSet(Grown(k, x)) = ToSet(seen) \cup Held(j)
    BY <2>3, <2>4, <2>5
  <2> QED
    BY <2>1, <2>2, <2>5, <2>8, <2>9, <2>10
<1>11. n \in S
  <2>1. \A j \in 1 .. n : j - 1 \in S => j \in S
    BY <1>10
  <2>2. n \in 0 .. n
    BY <1>1
  <2> HIDE DEF S
  <2> QED
    BY <1>1, <1>9, <2>1, <2>2, UpTo
<1>12. Held(n) = InlineOf(reg, id)
  BY <1>1 DEF InlineOf, KindsOf
<1> HIDE DEF Held
<1> QED
  BY <1>7, <1>11, <1>12 DEF X

\* The places of a work list that a walk can be at.
Looks == (1 .. MaxId + 1) \X WorkLists

\* What a walk answers at a place, when `walk' is what it answers further on.
LookAt(reg, parent, walk, at) ==
    IF at[1] > Len(at[2]) THEN FALSE
    ELSE \/ at[2][at[1]] = parent
         \/ walk[<<at[1] + 1, WithInlined(at[2], reg.nodes[at[2][at[1]]])>>]

\* A work list is no longer than there are classes.
LEMMA WorkListLength ==
    ASSUME NEW seen \in WorkLists
    PROVE  /\ seen \in Seq(Ids) /\ Len(seen) \in 0 .. MaxId /\ DOMAIN seen = 1 .. Len(seen)
           /\ \A i \in 1 .. Len(seen) : seen[i] \in Ids
<1>1. seen \in Seq(Ids) /\ Len(seen) \in Nat /\ DOMAIN seen = 1 .. Len(seen)
  BY DEF WorkLists
<1>2. \A i \in 1 .. Len(seen) : seen[i] \in Ids
  BY <1>1
<1>3. IsFiniteSet(Ids) /\ Cardinality(Ids) = MaxId
  <2>1. 0 \in Int /\ MaxId - 1 \in Int /\ 0 <= MaxId - 1
    BY RegistryAssumption
  <2>2. IsFiniteSet(0 .. MaxId - 1) /\ Cardinality(0 .. MaxId - 1) = MaxId - 1 - 0 + 1
    BY <2>1, FS_Interval
  <2> QED
    BY <2>2, RegistryAssumption DEF Ids
<1>4. seen \in Injection(1 .. Len(seen), Ids)
  <2>1. seen \in [1 .. Len(seen) -> Ids]
    BY <1>1, <1>2
  <2> QED
    BY <2>1 DEF Injection, WorkLists
<1>5. Cardinality(1 .. Len(seen)) <= MaxId
  BY <1>3, <1>4, FS_Injection
<1>6. Cardinality(1 .. Len(seen)) = Len(seen)
  <2> DEFINE m == Len(seen)
  <2>1. 1 \in Int /\ m \in Int /\ m \in Nat
    BY <1>1
  <2> HIDE DEF m
  <2>2. Cardinality(1 .. m) = IF 1 > m THEN 0 ELSE m - 1 + 1
    BY <2>1, FS_Interval
  <2>3. Cardinality(1 .. m) = m
    BY <2>1, <2>2
  <2> QED
    BY <2>3 DEF m
<1> QED
  BY <1>1, <1>2, <1>5, <1>6, RegistryAssumption

\* From a place that is not the end a walk goes on to the next.
LEMMA NextLook ==
    ASSUME NEW reg \in RegistryType, NEW at \in Looks, at[1] <= Len(at[2])
    PROVE  /\ at[2][at[1]] \in Ids
           /\ WithInlined(at[2], reg.nodes[at[2][at[1]]]) \in WorkLists
           /\ <<at[1] + 1, WithInlined(at[2], reg.nodes[at[2][at[1]]])>> \in Looks
<1> DEFINE i == at[1]
           seen == at[2]
<1>1. i \in 1 .. MaxId + 1 /\ seen \in WorkLists
  BY DEF Looks
<1>2. i <= Len(seen)
  OBVIOUS
<1> HIDE DEF i, seen
<1>3. Len(seen) \in 0 .. MaxId /\ \A k \in 1 .. Len(seen) : seen[k] \in Ids
  BY <1>1, WorkListLength
<1>4. i + 1 \in 1 .. MaxId + 1 /\ i \in 1 .. Len(seen)
  BY <1>1, <1>2, <1>3, RegistryAssumption
<1>5. seen[i] \in Ids
  BY <1>3, <1>4
<1>6. WithInlined(seen, reg.nodes[seen[i]]) \in WorkLists
  BY <1>1, <1>5, WithInlinedIs
<1>7. <<i + 1, WithInlined(seen, reg.nodes[seen[i]])>> \in Looks
  BY <1>4, <1>6 DEF Looks
<1> QED
  BY <1>5, <1>6, <1>7 DEF i, seen

\* The walk is defined: its place moves on, and the list cannot outgrow the
\* number of classes.
LEMMA CycleWalkStep ==
    ASSUME NEW reg \in RegistryType, NEW parent, NEW child
    PROVE  \E walk :
               /\ \A at \in Looks : walk[at] = LookAt(reg, parent, walk, at)
               /\ CycleWalk(reg, parent, child) = (parent = child \/ walk[<<1, <<child>>>>])
<1> DEFINE X    == [Looks -> BOOLEAN]
           rank == [p \in Looks |-> p[1]]
           G    == [F \in X |-> [p \in Looks |-> LookAt(reg, parent, F, p)]]
           no   == [p \in Looks |-> FALSE]
           top  == MaxId + 1
<1>1. no \in X /\ top \in Nat
  BY RegistryAssumption
<1>2. rank \in [Looks -> 0 .. top]
  BY RegistryAssumption DEF Looks
<1>3. ASSUME NEW F \in X, NEW p \in Looks PROVE LookAt(reg, parent, F, p) \in BOOLEAN
  BY DEF LookAt
<1>4. G \in [X -> X]
  <2>1. ASSUME NEW F \in X PROVE [p \in Looks |-> LookAt(reg, parent, F, p)] \in X
    BY <1>3
  <2> HIDE DEF X
  <2> QED
    BY <2>1
<1>5. ASSUME NEW F \in X, NEW H \in X, NEW p \in Looks,
             \A q \in Looks : rank[q] > rank[p] => F[q] = H[q]
      PROVE  G[F][p] = G[H][p]
  <2>1. LookAt(reg, parent, F, p) = LookAt(reg, parent, H, p)
    <3>1. CASE p[1] > Len(p[2])
      BY <3>1 DEF LookAt
    <3>2. CASE ~(p[1] > Len(p[2]))
      <4> DEFINE q == <<p[1] + 1, WithInlined(p[2], reg.nodes[p[2][p[1]]])>>
      <4>1. p[1] \in Nat /\ p[2] \in WorkLists
        BY DEF Looks
      <4>2. Len(p[2]) \in Nat
        BY <4>1 DEF WorkLists
      <4>3. p[1] <= Len(p[2])
        BY <3>2, <4>1, <4>2
      <4>4. q \in Looks
        BY <4>3, NextLook
      <4>5. q[1] = p[1] + 1
        OBVIOUS
      <4> HIDE DEF q
      <4>6. rank[q] > rank[p]
        BY <4>1, <4>4, <4>5
      <4>7. F[q] = H[q]
        BY <1>5, <4>4, <4>6
      <4> QED
        BY <4>7 DEF LookAt, q
    <3> QED
      BY <3>1, <3>2
  <2> HIDE DEF X
  <2> QED
    BY <2>1
<1>6. PICK F \in X : F = G[F]
  <2> HIDE DEF rank, G, no, top
  <2>1. Ranked(top, Looks, BOOLEAN, rank, G)
    BY <1>2, <1>4, <1>5 DEF Ranked
  <2>2. Fixed(Looks, BOOLEAN, G) # {}
    BY <1>1, <2>1, Settles
  <2> QED
    BY <2>2 DEF Fixed
<1>7. F = [p \in Looks |-> LookAt(reg, parent, F, p)]
  <2> HIDE DEF X
  <2> QED
    BY <1>6
<1> DEFINE walk[p \in (1 .. MaxId + 1) \X WorkLists] ==
               IF p[1] > Len(p[2]) THEN FALSE
               ELSE \/ p[2][p[1]] = parent
                    \/ walk[<<p[1] + 1, WithInlined(p[2], reg.nodes[p[2][p[1]]])>>]
<1>8. \E W : W = [p \in (1 .. MaxId + 1) \X WorkLists |->
                     IF p[1] > Len(p[2]) THEN FALSE
                     ELSE \/ p[2][p[1]] = parent
                          \/ W[<<p[1] + 1, WithInlined(p[2], reg.nodes[p[2][p[1]]])>>]]
  BY <1>7 DEF LookAt, Looks
<1>9. walk = [p \in (1 .. MaxId + 1) \X WorkLists |->
                 IF p[1] > Len(p[2]) THEN FALSE
                 ELSE \/ p[2][p[1]] = parent
                      \/ walk[<<p[1] + 1, WithInlined(p[2], reg.nodes[p[2][p[1]]])>>]]
  BY <1>8
<1>10. CycleWalk(reg, parent, child) = (parent = child \/ walk[<<1, <<child>>>>])
  BY DEF CycleWalk
<1> HIDE DEF walk
<1>11. \A at \in Looks : walk[at] = LookAt(reg, parent, walk, at)
  BY <1>9 DEF LookAt, Looks
<1> QED
  BY <1>10, <1>11

\* The work list of would_cycle finds what its closed form says: the guard
\* refuses a class for a parent exactly when the parent is the class or is
\* nested in it, at whatever depth and by whatever cycles and diamonds.
THEOREM GuardWalks ==
    ASSUME NEW reg \in RegistryType, NEW parent \in Ids, NEW child \in Ids
    PROVE  CycleWalk(reg, parent, child) <=> WouldCycle(reg, parent, child)
<1>1. PICK walk :
          /\ \A at \in Looks : walk[at] = LookAt(reg, parent, walk, at)
          /\ CycleWalk(reg, parent, child) = (parent = child \/ walk[<<1, <<child>>>>])
  BY CycleWalkStep
<1> DEFINE Listed(i, seen) ==
             /\ i \in 1 .. MaxId + 1 /\ seen \in WorkLists /\ i <= Len(seen) + 1
             /\ child \in ToSet(seen)
             /\ \A x \in ToSet(seen) : Reaches(reg, child, x)
             /\ \A k \in 1 .. i - 1 :
                    seen[k] # parent /\ InlineOf(reg, seen[k]) \subseteq ToSet(seen)
           Decides(i, seen) == walk[<<i, seen>>] <=> Reaches(reg, child, parent)
           Bad == {m \in 0 .. MaxId : \E i \in 1 .. MaxId + 1, seen \in WorkLists :
                       m = MaxId + 1 - i /\ Listed(i, seen) /\ ~Decides(i, seen)}
<1>2. ASSUME NEW i \in 1 .. MaxId + 1, NEW seen \in WorkLists, Listed(i, seen), i > Len(seen)
      PROVE  Decides(i, seen)
  <2>1. <<i, seen>> \in Looks
    BY DEF Looks
  <2>2. ~walk[<<i, seen>>]
    <3> DEFINE at == <<i, seen>>
    <3>1. at \in Looks /\ at[1] = i /\ at[2] = seen
      BY <2>1
    <3> HIDE DEF at, Listed
    <3>2. LookAt(reg, parent, walk, at) = FALSE
      BY <1>2, <3>1 DEF LookAt
    <3>3. walk[at] = LookAt(reg, parent, walk, at)
      BY <1>1, <3>1
    <3> QED
      BY <3>2, <3>3 DEF at
  <2>3. Len(seen) \in 0 .. MaxId /\ DOMAIN seen = 1 .. Len(seen) /\ \A k \in 1 .. Len(seen) : seen[k] \in Ids
    BY WorkListLength
  <2>4. \A k \in 1 .. Len(seen) : k \in 1 .. i - 1
    BY <1>2, <2>3, RegistryAssumption
  <2>5. ToSet(seen) \in SUBSET Ids
    BY <2>3 DEF ToSet
  <2>6. \A x \in ToSet(seen) : x # parent /\ InlineOf(reg, x) \subseteq ToSet(seen)
    BY <1>2, <2>3, <2>4 DEF ToSet
  <2>7. ~Reaches(reg, child, parent)
    BY <1>2, <2>5, <2>6 DEF Reaches, InlineClosed
  <2> HIDE DEF Listed
  <2> QED
    BY <2>2, <2>7
<1>3. ASSUME NEW i \in 1 .. MaxId + 1, NEW seen \in WorkLists, Listed(i, seen), i <= Len(seen)
      PROVE  LET new == WithInlined(seen, reg.nodes[seen[i]])
             IN  \/ Decides(i, seen)
                 \/ /\ i + 1 \in 1 .. MaxId + 1 /\ new \in WorkLists
                    /\ Listed(i + 1, new) /\ ~Decides(i + 1, new)
  <2> DEFINE new == WithInlined(seen, reg.nodes[seen[i]])
             at  == <<i, seen>>
  <2>1. at \in Looks /\ at[1] = i /\ at[2] = seen /\ <<i + 1, new>> = <<at[1] + 1, WithInlined(at[2], reg.nodes[at[2][at[1]]])>>
    BY DEF Looks
  <2>2. seen[i] \in Ids /\ <<i + 1, new>> \in Looks
    <3> HIDE DEF Listed, at, new
    <3>1. at[1] <= Len(at[2])
      BY <1>3, <2>1
    <3> QED
      BY <2>1, <3>1, NextLook
  <2>3. i + 1 \in 1 .. MaxId + 1 /\ new \in WorkLists
    BY <2>2 DEF Looks
  <2>4. walk[<<i, seen>>] <=> (seen[i] = parent \/ walk[<<i + 1, new>>])
    <3>1. walk[at] = LookAt(reg, parent, walk, at)
      BY <1>1, <2>1
    <3>2. ~(i > Len(seen))
      BY <1>3, WorkListLength
    <3> HIDE DEF at, new, Listed
    <3>3. LookAt(reg, parent, walk, at) <=> (seen[i] = parent \/ walk[<<i + 1, new>>])
      BY <2>1, <3>2 DEF LookAt
    <3> QED
      BY <3>1, <3>3 DEF at
  <2>5. Len(seen) \in 0 .. MaxId /\ DOMAIN seen = 1 .. Len(seen)
    BY WorkListLength
  <2>6. i \in 1 .. Len(seen) /\ seen[i] \in ToSet(seen)
    BY <1>3, <2>5, RegistryAssumption DEF ToSet
  <2>7. CASE seen[i] = parent
    <3>1. Reaches(reg, child, parent)
      BY <1>3, <2>6, <2>7
    <3> HIDE DEF Listed, new
    <3> QED
      BY <2>4, <2>7, <3>1
  <2>8. CASE seen[i] # parent
    <3>1. /\ Len(seen) <= Len(new)
          /\ \A k \in 1 .. Len(seen) : new[k] = seen[k]
          /\ ToSet(new) = ToSet(seen) \cup InlineOf(reg, seen[i])
      BY <2>2, WithInlinedIs
    <3> HIDE DEF new
    <3>2. Len(new) \in 0 .. MaxId
      BY <2>3, WorkListLength
    <3>3. i + 1 <= Len(new) + 1
      BY <1>3, <2>5, <3>1, <3>2, RegistryAssumption
    <3>4. \A x \in ToSet(new) : Reaches(reg, child, x)
      BY <1>3, <2>6, <3>1, ReachesOn
    <3>5. ASSUME NEW k \in 1 .. (i + 1) - 1
          PROVE  new[k] # parent /\ InlineOf(reg, new[k]) \subseteq ToSet(new)
      <4>1. k \in 1 .. Len(seen) /\ (k = i \/ k \in 1 .. i - 1)
        BY <2>5, <2>6
      <4>2. new[k] = seen[k]
        BY <3>1, <4>1
      <4> QED
        BY <1>3, <2>8, <3>1, <4>1, <4>2
    <3>6. Listed(i + 1, new)
      BY <1>3, <2>3, <3>1, <3>3, <3>4, <3>5
    <3>7. walk[<<i, seen>>] <=> walk[<<i + 1, new>>]
      BY <2>4, <2>8
    <3> HIDE DEF Listed
    <3> QED
      BY <2>3, <3>6, <3>7 DEF new
  <2> QED
    BY <2>7, <2>8
<1> HIDE DEF Listed, Decides
<1>4. Bad = {}
  <2> SUFFICES ASSUME Bad # {} PROVE FALSE
    OBVIOUS
  <2>1. PICK m \in Bad : \A y \in Bad : m <= y
    <3>1. Bad \in SUBSET Nat
      BY RegistryAssumption
    <3> HIDE DEF Bad
    <3> QED
      BY <3>1, LeastNatural
  <2>2. PICK i \in 1 .. MaxId + 1, seen \in WorkLists :
            m = MaxId + 1 - i /\ Listed(i, seen) /\ ~Decides(i, seen)
    BY <2>1
  <2>3. Len(seen) \in Nat /\ i \in Nat /\ MaxId \in Nat
    BY WorkListLength, RegistryAssumption
  <2>4. i <= Len(seen)
    BY <1>2, <2>2, <2>3
  <2>5. PICK new \in WorkLists :
            i + 1 \in 1 .. MaxId + 1 /\ Listed(i + 1, new) /\ ~Decides(i + 1, new)
    BY <1>3, <2>2, <2>4
  <2>6. MaxId + 1 - (i + 1) \in Bad
    <3>1. MaxId + 1 - (i + 1) \in 0 .. MaxId
      BY <2>3, <2>5
    <3> QED
      BY <2>5, <3>1
  <2> HIDE DEF Bad
  <2>7. m <= MaxId + 1 - (i + 1)
    BY <2>1, <2>6
  <2> QED
    BY <2>2, <2>3, <2>7
<1> DEFINE first == <<child>>
<1>5. first \in WorkLists /\ Len(first) = 1 /\ ToSet(first) = {child}
  BY DEF WorkLists, IsInjective, ToSet
<1>6. 1 \in 1 .. MaxId + 1 /\ 1 <= 1 + 1 /\ 1 .. 1 - 1 = {}
  BY RegistryAssumption
<1> HIDE DEF first
<1>7. Listed(1, first)
  BY <1>5, <1>6, ReachesSelf DEF Listed
<1>8. Decides(1, first)
  <2> SUFFICES ASSUME ~Decides(1, first) PROVE FALSE
    OBVIOUS
  <2>1. MaxId + 1 - 1 \in 0 .. MaxId
    BY RegistryAssumption
  <2>2. MaxId + 1 - 1 \in Bad
    BY <1>5, <1>6, <1>7, <2>1
  <2> HIDE DEF Bad
  <2> QED
    BY <1>4, <2>2
<1> QED
  BY <1>1, <1>8 DEF Decides, WouldCycle, first

-----------------------------------------------------------------------------
(* The depth-first search of validate.                                     *)

\* What a search returns.
Finds == BOOLEAN \X (SUBSET Ids)

\* The nodes of a class, as a search goes through them: `after' is what it has
\* found after each.
Goes(below, ns, done, after) ==
    /\ after[0] = <<TRUE, done>>
    /\ \A j \in 1 .. Len(ns) :
           after[j] = IF after[j - 1][1] /\ Inline(ns[j].kind) # {}
                      THEN below[<<ns[j].kind.arg, after[j - 1][2]>>]
                      ELSE after[j - 1]

LEMMA DescendedSteps ==
    ASSUME NEW reg \in RegistryType, NEW id \in Ids, NEW done \in SUBSET Ids,
           NEW below \in [Ids \X (SUBSET Ids) -> Finds]
    PROVE  \E after \in [0 .. Len(reg.nodes[id]) -> Finds] :
               /\ Goes(below, reg.nodes[id], done, after)
               /\ Descended(below, reg.nodes[id], done) = after[Len(reg.nodes[id])]
<1> DEFINE ns == reg.nodes[id]
           n  == Len(ns)
           X  == Finds
           Turn(k, last) == IF last[1] /\ Inline(k) # {} THEN below[<<k.arg, last[2]>>] ELSE last
           g  == [j \in 1 .. n |-> [x \in X |-> Turn(ns[j].kind, x)]]
           first == <<TRUE, done>>
<1>1. n \in Nat /\ DOMAIN ns = 1 .. n /\ \A j \in 1 .. n : ns[j].kind \in Kind
  BY NodeList
<1>2. ASSUME NEW x \in X, NEW k \in Kind PROVE Turn(k, x) \in X
  <2>1. x[1] \in BOOLEAN /\ x[2] \in SUBSET Ids
    BY DEF Finds
  <2>2. Inline(k) # {} => k.arg \in Ids
    BY DEF Inline, Kind
  <2> QED
    BY <2>1, <2>2
<1> HIDE DEF Turn
<1>3. first \in X
  BY DEF Finds
<1>4. PICK f \in [0 .. n -> X] : f[0] = first /\ \A j \in 1 .. n : f[j] = g[j][f[j - 1]]
  <2>1. g \in Steps(n, X)
    <3> HIDE DEF X, n, ns
    <3> QED
      BY <1>1, <1>2 DEF Steps
  <2> HIDE DEF g, X, n, first
  <2>2. Walks(n, X, first, g) # {}
    BY <1>1, <1>3, <2>1, Along
  <2> QED
    BY <2>2 DEF Walks
<1>5. ASSUME NEW j \in 1 .. n PROVE f[j] = Turn(ns[j].kind, f[j - 1])
  <2>1. f[j - 1] \in X
    BY <1>1, <1>4
  <2> HIDE DEF X, n, ns
  <2> QED
    BY <1>4, <2>1
<1> HIDE DEF g, X
<1>6. f = [j \in 0 .. n |->
             IF j = 0 THEN <<TRUE, done>>
             ELSE IF f[j - 1][1] /\ Inline(ns[j].kind) # {}
                  THEN below[<<ns[j].kind.arg, f[j - 1][2]>>]
                  ELSE f[j - 1]]
  <2>1. \A j \in 0 .. n : j = 0 \/ j \in 1 .. n
    BY <1>1
  <2> HIDE DEF n, ns
  <2> QED
    BY <1>4, <1>5, <2>1 DEF Turn
<1> DEFINE after[j \in 0 .. n] ==
             LET last == after[j - 1]
                 k    == ns[j].kind
             IN  IF j = 0 THEN <<TRUE, done>>
                 ELSE IF last[1] /\ Inline(k) # {} THEN below[<<k.arg, last[2]>>]
                 ELSE last
<1>7. after = [j \in 0 .. n |->
             IF j = 0 THEN <<TRUE, done>>
             ELSE IF after[j - 1][1] /\ Inline(ns[j].kind) # {}
                  THEN below[<<ns[j].kind.arg, after[j - 1][2]>>]
                  ELSE after[j - 1]]
  <2> HIDE DEF n, ns
  <2> QED
    BY <1>6
<1>8. Descended(below, ns, done) = after[n]
  BY DEF Descended
<1> HIDE DEF after, first
<1>9. 0 \in 0 .. n /\ n \in 0 .. n /\ \A j \in 1 .. n : j \in 0 .. n /\ j # 0
  BY <1>1
<1>10. after[0] = <<TRUE, done>>
  BY <1>7, <1>9
<1>11. ASSUME NEW j \in 1 .. n
       PROVE  after[j] = Turn(ns[j].kind, after[j - 1])
  <2>1. j \in 0 .. n /\ j # 0
    BY <1>9
  <2> HIDE DEF n, ns
  <2> QED
    BY <1>7, <2>1 DEF Turn
<1>12. \A j \in 0 .. n : after[j] \in X
  <2> DEFINE S == {j \in 0 .. n : after[j] \in X}
  <2>1. 0 \in S
    BY <1>3, <1>9, <1>10 DEF first
  <2>2. ASSUME NEW j \in 1 .. n, j - 1 \in S PROVE j \in S
    <3> HIDE DEF n, ns
    <3> QED
      BY <1>1, <1>2, <1>9, <1>11, <2>2 DEF X
  <2>3. \A j \in 1 .. n : j - 1 \in S => j \in S
    BY <2>2
  <2> HIDE DEF S, n
  <2>4. \A j \in 0 .. n : j \in S
    BY <1>1, <2>1, <2>3, UpTo
  <2> QED
    BY <2>4 DEF S
<1>13. after \in [0 .. n -> X]
  <2> HIDE DEF n, ns
  <2> QED
    BY <1>7, <1>12
<1>14. Goes(below, ns, done, after)
  BY <1>10, <1>11 DEF Goes, Turn
<1> QED
  BY <1>8, <1>13, <1>14 DEF X

LEMMA SearchedType ==
    ASSUME NEW id \in Ids, NEW path, NEW done \in SUBSET Ids, NEW found \in Finds
    PROVE  Searched(id, path, done, found) \in Finds
<1>1. found[1] \in BOOLEAN /\ found[2] \in SUBSET Ids
  BY DEF Finds
<1> QED
  BY <1>1 DEF Searched, Finds

Searches == Ids \X (SUBSET Ids) \X (SUBSET Ids)

\* What a search finds at a place, when `dfs' is what it finds below.
SearchAt(reg, dfs, at) ==
    Searched(at[1], at[2], at[3],
             Descended([b \in Ids \X (SUBSET Ids) |-> dfs[<<b[1], at[2] \cup {at[1]}, b[2]>>]],
                       reg.nodes[at[1]], at[3]))

LEMMA SearchPlaces ==
    ASSUME NEW p \in Searches
    PROVE  /\ p[1] \in Ids /\ p[2] \in SUBSET Ids /\ p[3] \in SUBSET Ids
           /\ \A b \in Ids \X (SUBSET Ids) :
                  /\ b[1] \in Ids /\ b[2] \in SUBSET Ids
                  /\ <<b[1], p[2] \cup {p[1]}, b[2]>> \in Searches
BY DEF Searches

LEMMA SearchAtType ==
    ASSUME NEW reg \in RegistryType, NEW F \in [Searches -> Finds], NEW p \in Searches
    PROVE  SearchAt(reg, F, p) \in Finds
<1> DEFINE below == [b \in Ids \X (SUBSET Ids) |-> F[<<b[1], p[2] \cup {p[1]}, b[2]>>]]
           ns == reg.nodes[p[1]]
<1>1. below \in [Ids \X (SUBSET Ids) -> Finds]
  BY SearchPlaces
<1> HIDE DEF below
<1>2. Descended(below, ns, p[3]) \in Finds
  <2>1. p[1] \in Ids /\ p[3] \in SUBSET Ids
    BY SearchPlaces
  <2>2. Len(ns) \in 0 .. Len(ns)
    BY <2>1, NodeList
  <2>3. PICK after \in [0 .. Len(ns) -> Finds] : Descended(below, ns, p[3]) = after[Len(ns)]
    BY <1>1, <2>1, DescendedSteps
  <2> QED
    BY <2>2, <2>3
<1> QED
  BY <1>2, SearchPlaces, SearchedType DEF SearchAt, below

\* The search is defined: its path grows, and there are finitely many classes.
LEMMA SearchStep ==
    ASSUME NEW reg \in RegistryType
    PROVE  /\ Search(reg) \in [Searches -> Finds]
           /\ \A at \in Searches : Search(reg)[at] = SearchAt(reg, Search(reg), at)
<1> DEFINE X    == [Searches -> Finds]
           rank == [p \in Searches |-> Cardinality(p[2])]
           G    == [F \in X |-> [p \in Searches |-> SearchAt(reg, F, p)]]
           none == [p \in Searches |-> <<FALSE, {}>>]
<1>1. none \in X
  BY DEF Finds
<1>2. ASSUME NEW p \in Searches, p[1] \notin p[2], NEW b \in Ids \X (SUBSET Ids)
      PROVE  /\ <<b[1], p[2] \cup {p[1]}, b[2]>> \in Searches
             /\ rank[<<b[1], p[2] \cup {p[1]}, b[2]>>] > rank[p]
  <2> DEFINE q == <<b[1], p[2] \cup {p[1]}, b[2]>>
  <2>1. p[2] \in SUBSET Ids /\ p[1] \in Ids \ p[2] /\ q \in Searches /\ q[2] = p[2] \cup {p[1]}
    BY <1>2, SearchPlaces
  <2> HIDE DEF q
  <2>2. rank[q] = Cardinality(p[2]) + 1 /\ rank[p] = Cardinality(p[2])
    BY <2>1, StackSize
  <2>3. Cardinality(p[2]) \in 0 .. MaxId
    BY <2>1, StackSize
  <2>4. rank[q] > rank[p]
    BY <2>2, <2>3, RegistryAssumption
  <2> QED
    BY <2>1, <2>4 DEF q
<1>3. rank \in [Searches -> 0 .. MaxId]
  BY SearchPlaces, StackSize
<1>4. G \in [X -> X]
  <2>1. ASSUME NEW F \in X PROVE [p \in Searches |-> SearchAt(reg, F, p)] \in X
    BY SearchAtType
  <2> HIDE DEF X
  <2> QED
    BY <2>1
<1>5. ASSUME NEW F, NEW H, NEW p \in Searches,
             \A q \in Searches : rank[q] > rank[p] => F[q] = H[q]
      PROVE  SearchAt(reg, F, p) = SearchAt(reg, H, p)
  <2> DEFINE f == [b \in Ids \X (SUBSET Ids) |-> F[<<b[1], p[2] \cup {p[1]}, b[2]>>]]
             h == [b \in Ids \X (SUBSET Ids) |-> H[<<b[1], p[2] \cup {p[1]}, b[2]>>]]
  <2> HIDE DEF rank
  <2>1. p[1] \notin p[2] => f = h
    BY <1>2, <1>5
  <2> HIDE DEF f, h
  <2>2. SearchAt(reg, F, p) = Searched(p[1], p[2], p[3], Descended(f, reg.nodes[p[1]], p[3]))
    BY DEF SearchAt, f
  <2>3. SearchAt(reg, H, p) = Searched(p[1], p[2], p[3], Descended(h, reg.nodes[p[1]], p[3]))
    BY DEF SearchAt, h
  <2>4. CASE p[1] \in p[2]
    BY <2>2, <2>3, <2>4 DEF Searched
  <2>5. CASE p[1] \notin p[2]
    BY <2>1, <2>2, <2>3, <2>5
  <2> QED
    BY <2>4, <2>5
<1>6. PICK F \in X : F = G[F]
  <2>1. MaxId \in Nat
    BY RegistryAssumption
  <2>4. ASSUME NEW F \in X, NEW H \in X, NEW p \in Searches,
               \A q \in Searches : rank[q] > rank[p] => F[q] = H[q]
        PROVE  G[F][p] = G[H][p]
    <3>1. SearchAt(reg, F, p) = SearchAt(reg, H, p)
      <4> HIDE DEF rank
      <4> QED
        BY <1>5, <2>4
    <3> HIDE DEF X
    <3> QED
      BY <3>1
  <2> HIDE DEF rank, G, none
  <2>2. Ranked(MaxId, Searches, Finds, rank, G)
    BY <1>3, <1>4, <2>4 DEF Ranked
  <2>3. Fixed(Searches, Finds, G) # {}
    BY <1>1, <2>1, <2>2, Settles
  <2> QED
    BY <2>3 DEF Fixed
<1>7. F = [p \in Searches |-> SearchAt(reg, F, p)]
  <2> HIDE DEF X
  <2> QED
    BY <1>6
<1> DEFINE dfs[p \in Ids \X (SUBSET Ids) \X (SUBSET Ids)] ==
             Searched(p[1], p[2], p[3],
                      Descended([b \in Ids \X (SUBSET Ids) |-> dfs[<<b[1], p[2] \cup {p[1]}, b[2]>>]],
                                reg.nodes[p[1]], p[3]))
<1>8. \E W : W = [p \in Ids \X (SUBSET Ids) \X (SUBSET Ids) |->
             Searched(p[1], p[2], p[3],
                      Descended([b \in Ids \X (SUBSET Ids) |-> W[<<b[1], p[2] \cup {p[1]}, b[2]>>]],
                                reg.nodes[p[1]], p[3]))]
  BY <1>7 DEF SearchAt, Searches
<1>9. dfs = [p \in Ids \X (SUBSET Ids) \X (SUBSET Ids) |->
             Searched(p[1], p[2], p[3],
                      Descended([b \in Ids \X (SUBSET Ids) |-> dfs[<<b[1], p[2] \cup {p[1]}, b[2]>>]],
                                reg.nodes[p[1]], p[3]))]
  BY <1>8
<1>10. Search(reg) = dfs
  BY DEF Search
<1> HIDE DEF dfs
<1>11. dfs = [p \in Searches |-> SearchAt(reg, dfs, p)]
  BY <1>9 DEF SearchAt, Searches
<1>12. \A p \in Searches : dfs[p] = F[p]
  <2> DEFINE left == {MaxId - rank[p] : p \in {p \in Searches : dfs[p] # F[p]}}
  <2>1. \A p \in Searches : rank[p] \in Int /\ MaxId - rank[p] \in Nat
    <3> HIDE DEF rank
    <3> QED
      BY <1>3, RegistryAssumption
  <2> SUFFICES ASSUME left # {} PROVE FALSE
    OBVIOUS
  <2>2. PICK x \in left : \A y \in left : x <= y
    <3>1. left \in SUBSET Nat
      BY <2>1
    <3> HIDE DEF left
    <3> QED
      BY <3>1, LeastNatural
  <2>3. PICK p \in Searches : dfs[p] # F[p] /\ x = MaxId - rank[p]
    BY <2>2
  <2>4. ASSUME NEW q \in Searches, rank[q] > rank[p] PROVE dfs[q] = F[q]
    <3> SUFFICES ASSUME dfs[q] # F[q] PROVE FALSE
      OBVIOUS
    <3>1. MaxId - rank[q] \in left
      OBVIOUS
    <3> HIDE DEF left, rank
    <3> QED
      BY <2>1, <2>2, <2>3, <2>4, <3>1, RegistryAssumption
  <2>5. SearchAt(reg, dfs, p) = SearchAt(reg, F, p)
    <3> HIDE DEF rank
    <3> QED
      BY <1>5, <2>4
  <2> QED
    BY <1>7, <1>11, <2>3, <2>5
<1>13. dfs = F
  <2>1. dfs = [p \in Searches |-> dfs[p]] /\ F = [p \in Searches |-> F[p]]
    BY <1>7, <1>11
  <2> QED
    BY <1>12, <2>1
<1> QED
  BY <1>7, <1>10, <1>13

\* A class that c is nested in, below its own nodes.
Leads(reg, p, c) == \E d \in InlineOf(reg, p) : Reaches(reg, d, c)

\* What a search may return of `classes': all of them are done, with nothing
\* done that a cycle goes through or hangs below, or there is a cycle.
FoundOf(reg, classes, done, found) ==
    /\ found[1] => /\ done \subseteq found[2] /\ found[2] \subseteq Settled(reg)
                   /\ classes \subseteq found[2]
    /\ ~found[1] => \E c \in Ids : Circular(reg, c)

\* A search from a class, when those from the classes it holds are right.
LEMMA SearchedRight ==
    ASSUME NEW reg \in RegistryType, NEW id \in Ids, NEW done \in SUBSET Settled(reg),
           NEW below \in [Ids \X (SUBSET Ids) -> Finds],
           \A d \in InlineOf(reg, id), m \in SUBSET Settled(reg) :
               FoundOf(reg, {d}, m, below[<<d, m>>])
    PROVE  FoundOf(reg, InlineOf(reg, id), done, Descended(below, reg.nodes[id], done))
<1> DEFINE ns == reg.nodes[id]
           n  == Len(ns)
           Held(j) == UNION {Inline(ns[m].kind) : m \in 1 .. j}
<1>1. n \in Nat /\ DOMAIN ns = 1 .. n
  BY NodeList
<1>2. Settled(reg) \in SUBSET Ids /\ done \in SUBSET Ids
  BY SettledClosed
<1>3. PICK after \in [0 .. n -> Finds] :
          Goes(below, ns, done, after) /\ Descended(below, ns, done) = after[n]
  BY <1>2, DescendedSteps
<1> DEFINE S == {j \in 0 .. n : FoundOf(reg, Held(j), done, after[j])}
<1>4. 0 \in S
  <2>1. after[0] = <<TRUE, done>> /\ 0 \in 0 .. n
    BY <1>1, <1>3 DEF Goes
  <2>2. Held(0) = {}
    <3>1. 1 .. 0 = {}
      OBVIOUS
    <3> QED
      BY <3>1
  <2> HIDE DEF Held, n, ns
  <2>3. FoundOf(reg, Held(0), done, after[0])
    BY <2>1, <2>2 DEF FoundOf
  <2> QED
    BY <2>1, <2>3
<1>5. ASSUME NEW j \in 1 .. n, j - 1 \in S PROVE j \in S
  <2> DEFINE k == ns[j].kind
             last == after[j - 1]
  <2>1. j \in 0 .. n /\ j - 1 \in 0 .. n
    BY <1>1
  <2>2. last \in Finds /\ last[1] \in BOOLEAN /\ last[2] \in SUBSET Ids
    BY <1>3, <2>1 DEF Finds
  <2>3. after[j] = IF last[1] /\ Inline(k) # {} THEN below[<<k.arg, last[2]>>] ELSE last
    BY <1>3 DEF Goes
  <2>4. Held(j) = Held(j - 1) \cup Inline(k)
    <3>1. \A m \in 1 .. j : m = j \/ m \in 1 .. j - 1
      BY <1>1
    <3>2. j \in 1 .. j /\ \A m \in 1 .. j - 1 : m \in 1 .. j
      BY <1>1
    <3> HIDE DEF n, ns
    <3> QED
      BY <3>1, <3>2
  <2>5. FoundOf(reg, Held(j - 1), done, last)
    BY <1>5
  <2>6. Inline(k) \subseteq InlineOf(reg, id)
    BY <1>1 DEF InlineOf, KindsOf
  <2>7. Inline(k) = {} \/ Inline(k) = {k.arg}
    BY DEF Inline
  <2> HIDE DEF k, last, Held, n, ns
  <2>8. CASE ~last[1]
    <3>1. after[j] = last
      BY <2>3, <2>8
    <3>2. FoundOf(reg, Held(j), done, after[j])
      BY <2>5, <2>8, <3>1 DEF FoundOf
    <3> QED
      BY <2>1, <3>2
  <2>9. CASE last[1] /\ Inline(k) = {}
    <3>1. after[j] = last
      BY <2>3, <2>9
    <3>2. FoundOf(reg, Held(j), done, after[j])
      BY <2>4, <2>5, <2>9, <3>1 DEF FoundOf
    <3> QED
      BY <2>1, <3>2
  <2>10. CASE last[1] /\ Inline(k) # {}
    <3> DEFINE d == k.arg
               m == last[2]
               found == below[<<d, m>>]
    <3>1. after[j] = found
      BY <2>3, <2>10
    <3>2. d \in InlineOf(reg, id) /\ Inline(k) = {d}
      BY <2>6, <2>7, <2>10
    <3>3. m \subseteq Settled(reg) /\ done \subseteq m /\ Held(j - 1) \subseteq m
      BY <2>5, <2>10 DEF FoundOf
    <3> HIDE DEF d, m
    <3>4. FoundOf(reg, {d}, m, found)
      BY <3>2, <3>3
    <3> HIDE DEF found
    <3>5. FoundOf(reg, Held(j), done, after[j])
      BY <2>4, <3>1, <3>2, <3>3, <3>4 DEF FoundOf
    <3> QED
      BY <2>1, <3>5
  <2> QED
    BY <2>8, <2>9, <2>10
<1>6. n \in S
  <2>1. \A j \in 1 .. n : j - 1 \in S => j \in S
    BY <1>5
  <2>2. n \in 0 .. n
    BY <1>1
  <2> HIDE DEF S, n
  <2> QED
    BY <1>1, <1>4, <2>1, <2>2, UpTo
<1>7. Held(n) = InlineOf(reg, id)
  BY <1>1 DEF InlineOf, KindsOf
<1> HIDE DEF Held, n, ns
<1>8. FoundOf(reg, Held(n), done, after[n])
  BY <1>6
<1> QED
  BY <1>3, <1>7, <1>8 DEF n, ns

\* A class that holds settled classes is settled.
LEMMA SettledAbove ==
    ASSUME NEW reg \in RegistryType, NEW id \in Ids, InlineOf(reg, id) \subseteq Settled(reg)
    PROVE  id \in Settled(reg)
<1>1. ~Circular(reg, id)
  BY DEF Circular, Settled
<1>2. ASSUME NEW c \in Ids, Reaches(reg, id, c) PROVE ~Circular(reg, c)
  <2>1. CASE c = id
    BY <1>1, <2>1
  <2>2. CASE c # id
    BY <1>2, <2>2, ReachesFirst DEF Settled
  <2> QED
    BY <2>1, <2>2
<1> QED
  BY <1>2 DEF Settled

\* The search is right wherever it is, if each class of its path leads there.
LEMMA SearchRight ==
    ASSUME NEW reg \in RegistryType
    PROVE  \A path \in SUBSET Ids, id \in Ids, done \in SUBSET Settled(reg) :
               (\A p \in path : Leads(reg, p, id)) =>
                   FoundOf(reg, {id}, done, Search(reg)[<<id, path, done>>])
<1> DEFINE Fine(id, path) == (\A p \in path : Leads(reg, p, id)) =>
                \A done \in SUBSET Settled(reg) :
                    FoundOf(reg, {id}, done, Search(reg)[<<id, path, done>>])
           left == {MaxId - Cardinality(T) :
                       T \in {T \in SUBSET Ids : \E id \in Ids : ~Fine(id, T)}}
<1> SUFFICES ASSUME left # {} PROVE FALSE
  OBVIOUS
<1>1. PICK path \in SUBSET Ids :
          /\ \E id \in Ids : ~Fine(id, path)
          /\ \A U \in SUBSET Ids :
                 MaxId - Cardinality(U) < MaxId - Cardinality(path) => \A id \in Ids : Fine(id, U)
  <2>1. left \in SUBSET Nat
    BY StackSize, RegistryAssumption
  <2>2. PICK x \in left : \A y \in left : x <= y
    <3> HIDE DEF left
    <3> QED
      BY <2>1, LeastNatural
  <2>3. PICK T \in SUBSET Ids : x = MaxId - Cardinality(T) /\ \E id \in Ids : ~Fine(id, T)
    BY <2>2
  <2>4. ASSUME NEW U \in SUBSET Ids, MaxId - Cardinality(U) < MaxId - Cardinality(T), NEW id \in Ids
        PROVE  Fine(id, U)
    <3> SUFFICES ASSUME ~Fine(id, U) PROVE FALSE
      OBVIOUS
    <3>1. MaxId - Cardinality(U) \in left
      OBVIOUS
    <3>2. Cardinality(U) \in Nat /\ Cardinality(T) \in Nat /\ MaxId \in Nat
      BY StackSize, RegistryAssumption
    <3> HIDE DEF left, Fine
    <3> QED
      BY <2>2, <2>3, <2>4, <3>1, <3>2
  <2> QED
    BY <2>3, <2>4
<1> HIDE DEF left
<1>2. PICK id \in Ids : ~Fine(id, path)
  BY <1>1
<1>3. /\ \A p \in path : Leads(reg, p, id)
      /\ \E done \in SUBSET Settled(reg) :
             ~FoundOf(reg, {id}, done, Search(reg)[<<id, path, done>>])
  BY <1>2
<1>4. PICK done \in SUBSET Settled(reg) :
          ~FoundOf(reg, {id}, done, Search(reg)[<<id, path, done>>])
  BY <1>3
<1> DEFINE at == <<id, path, done>>
           below == [b \in Ids \X (SUBSET Ids) |-> Search(reg)[<<b[1], path \cup {id}, b[2]>>]]
           found == Descended(below, reg.nodes[id], done)
<1>5. done \in SUBSET Ids /\ Settled(reg) \in SUBSET Ids
  BY SettledClosed
<1>6. at \in Searches /\ at[1] = id /\ at[2] = path /\ at[3] = done
  BY <1>5 DEF Searches
<1>7. Search(reg)[at] = Searched(id, path, done, found)
  <2>1. Search(reg)[at] = SearchAt(reg, Search(reg), at)
    BY <1>6, SearchStep
  <2> HIDE DEF at
  <2> QED
    BY <1>6, <2>1 DEF SearchAt
<1>8. below \in [Ids \X (SUBSET Ids) -> Finds]
  <2>1. Search(reg) \in [Searches -> Finds]
    BY SearchStep
  <2>2. \A b \in Ids \X (SUBSET Ids) : <<b[1], path \cup {id}, b[2]>> \in Searches
    BY DEF Searches
  <2> QED
    BY <2>1, <2>2
<1>9. CASE id \in done
  <2>1. Search(reg)[at] = <<TRUE, done>>
    BY <1>7, <1>9 DEF Searched
  <2> HIDE DEF below, found
  <2> QED
    BY <1>4, <1>9, <2>1 DEF FoundOf
<1>10. CASE id \notin done /\ id \in path
  <2>1. Search(reg)[at] = <<FALSE, done>>
    BY <1>7, <1>10 DEF Searched
  <2>2. Circular(reg, id)
    BY <1>3, <1>10 DEF Leads, Circular
  <2> HIDE DEF below, found
  <2> QED
    BY <1>4, <2>1, <2>2 DEF FoundOf
<1>11. CASE id \notin done /\ id \notin path
  <2>1. \A d \in Ids : Fine(d, path \cup {id})
    <3>1. /\ Cardinality(path \cup {id}) = Cardinality(path) + 1
          /\ Cardinality(path) \in 0 .. MaxId
          /\ path \cup {id} \in SUBSET Ids
      BY <1>11, StackSize
    <3>2. MaxId - Cardinality(path \cup {id}) < MaxId - Cardinality(path)
      BY <3>1, RegistryAssumption
    <3> HIDE DEF Fine
    <3> QED
      BY <1>1, <3>1, <3>2
  <2>2. ASSUME NEW d \in InlineOf(reg, id), NEW m \in SUBSET Settled(reg)
        PROVE  FoundOf(reg, {d}, m, below[<<d, m>>])
    <3>1. d \in Ids /\ m \in SUBSET Ids
      BY <1>5, InlineType
    <3>2. \A p \in path \cup {id} : Leads(reg, p, d)
      BY <1>3, ReachesOn, ReachesSelf DEF Leads
    <3>3. FoundOf(reg, {d}, m, Search(reg)[<<d, path \cup {id}, m>>])
      BY <2>1, <3>1, <3>2
    <3>4. below[<<d, m>>] = Search(reg)[<<d, path \cup {id}, m>>]
      BY <3>1
    <3> QED
      BY <3>3, <3>4
  <2> HIDE DEF below
  <2>3. FoundOf(reg, InlineOf(reg, id), done, found)
    BY <1>8, <2>2, SearchedRight
  <2> HIDE DEF found
  <2>4. Search(reg)[at] = <<found[1], IF found[1] THEN found[2] \cup {id} ELSE found[2]>>
    BY <1>7, <1>11 DEF Searched
  <2>5. found[1] => id \in Settled(reg)
    BY <2>3, SettledAbove DEF FoundOf
  <2>6. FoundOf(reg, {id}, done, Search(reg)[at])
    BY <2>3, <2>4, <2>5 DEF FoundOf
  <2> QED
    BY <1>4, <2>6
<1> QED
  BY <1>9, <1>10, <1>11

\* The search from each class in turn.
LEMMA SearchFrom ==
    ASSUME NEW reg \in RegistryType
    PROVE  \E upto \in [0 .. MaxId -> Finds] :
               /\ upto[0] = <<TRUE, {}>>
               /\ \A c \in 1 .. MaxId :
                      upto[c] = IF upto[c - 1][1] /\ c - 1 \in reg.live
                                THEN Search(reg)[<<c - 1, {}, upto[c - 1][2]>>]
                                ELSE upto[c - 1]
               /\ DepthFirst(reg) = upto[MaxId][1]
<1> DEFINE n == MaxId
           X == Finds
           Turn(c, last) == IF last[1] /\ c - 1 \in reg.live
                            THEN Search(reg)[<<c - 1, {}, last[2]>>] ELSE last
           g == [c \in 1 .. n |-> [x \in X |-> Turn(c, x)]]
           first == <<TRUE, {}>>
<1>1. n \in Nat
  BY RegistryAssumption
<1>2. ASSUME NEW x \in X, NEW c \in 1 .. n PROVE Turn(c, x) \in X
  <2>1. x[2] \in SUBSET Ids /\ c - 1 \in Ids
    BY <1>1 DEF Finds, Ids
  <2>2. <<c - 1, {}, x[2]>> \in Searches
    BY <2>1 DEF Searches
  <2> QED
    BY <2>2, SearchStep
<1> HIDE DEF Turn
<1>3. first \in X
  BY DEF Finds
<1>4. PICK f \in [0 .. n -> X] : f[0] = first /\ \A c \in 1 .. n : f[c] = g[c][f[c - 1]]
  <2>1. g \in Steps(n, X)
    <3> HIDE DEF X, n
    <3> QED
      BY <1>2 DEF Steps
  <2> HIDE DEF g, X, n, first
  <2>2. Walks(n, X, first, g) # {}
    BY <1>1, <1>3, <2>1, Along
  <2> QED
    BY <2>2 DEF Walks
<1>5. ASSUME NEW c \in 1 .. n PROVE f[c] = Turn(c, f[c - 1])
  <2>1. f[c - 1] \in X
    BY <1>1, <1>4
  <2> HIDE DEF X, n
  <2> QED
    BY <1>4, <2>1
<1> HIDE DEF g, X
<1>6. f = [c \in 0 .. n |->
             IF c = 0 THEN <<TRUE, {}>>
             ELSE IF f[c - 1][1] /\ c - 1 \in reg.live
                  THEN Search(reg)[<<c - 1, {}, f[c - 1][2]>>]
                  ELSE f[c - 1]]
  <2>1. \A c \in 0 .. n : c = 0 \/ c \in 1 .. n
    BY <1>1
  <2> HIDE DEF n
  <2> QED
    BY <1>4, <1>5, <2>1 DEF Turn
<1> DEFINE upto[c \in 0 .. n] ==
             LET last == upto[c - 1]
             IN  IF c = 0 THEN <<TRUE, {}>>
                 ELSE IF last[1] /\ c - 1 \in reg.live THEN Search(reg)[<<c - 1, {}, last[2]>>]
                 ELSE last
<1>7. upto = [c \in 0 .. n |->
             IF c = 0 THEN <<TRUE, {}>>
             ELSE IF upto[c - 1][1] /\ c - 1 \in reg.live
                  THEN Search(reg)[<<c - 1, {}, upto[c - 1][2]>>]
                  ELSE upto[c - 1]]
  <2> HIDE DEF n
  <2> QED
    BY <1>6
<1>8. DepthFirst(reg) = upto[n][1]
  BY DEF DepthFirst
<1> HIDE DEF upto, first
<1>9. 0 \in 0 .. n /\ n \in 0 .. n /\ \A c \in 1 .. n : c \in 0 .. n /\ c # 0
  BY <1>1
<1>10. upto[0] = <<TRUE, {}>>
  BY <1>7, <1>9
<1>11. ASSUME NEW c \in 1 .. n PROVE upto[c] = Turn(c, upto[c - 1])
  <2>1. c \in 0 .. n /\ c # 0
    BY <1>9
  <2> HIDE DEF n
  <2> QED
    BY <1>7, <2>1 DEF Turn
<1>12. \A c \in 0 .. n : upto[c] \in X
  <2> DEFINE S == {c \in 0 .. n : upto[c] \in X}
  <2>1. 0 \in S
    BY <1>3, <1>9, <1>10 DEF first
  <2>2. ASSUME NEW c \in 1 .. n, c - 1 \in S PROVE c \in S
    <3> HIDE DEF n
    <3> QED
      BY <1>2, <1>9, <1>11, <2>2 DEF X
  <2>3. \A c \in 1 .. n : c - 1 \in S => c \in S
    BY <2>2
  <2> HIDE DEF S, n
  <2>4. \A c \in 0 .. n : c \in S
    BY <1>1, <2>1, <2>3, UpTo
  <2> QED
    BY <2>4 DEF S
<1>13. upto \in [0 .. n -> X]
  <2> HIDE DEF n
  <2> QED
    BY <1>7, <1>12
<1> QED
  BY <1>8, <1>10, <1>11, <1>13 DEF X, Turn

\* The depth-first search of validate ends well exactly when no class holds
\* itself, if none does among the ids that are no classes.
THEOREM SearchDecides ==
    ASSUME NEW reg \in RegistryType,
           \A S \in SUBSET (Ids \ reg.live) : S # {} => \E c \in S : InlineOf(reg, c) \cap S = {}
    PROVE  DepthFirst(reg) \in BOOLEAN /\ (DepthFirst(reg) <=> Acyclic(reg))
<1> DEFINE n == MaxId
<1>1. PICK upto \in [0 .. n -> Finds] :
          /\ upto[0] = <<TRUE, {}>>
          /\ \A c \in 1 .. n :
                 upto[c] = IF upto[c - 1][1] /\ c - 1 \in reg.live
                           THEN Search(reg)[<<c - 1, {}, upto[c - 1][2]>>]
                           ELSE upto[c - 1]
          /\ DepthFirst(reg) = upto[n][1]
  BY SearchFrom
<1>2. n \in Nat /\ 0 \in 0 .. n /\ n \in 0 .. n /\ Settled(reg) \in SUBSET Ids
  BY RegistryAssumption, SettledClosed
<1> DEFINE Earlier(c) == {d \in reg.live : d < c}
           S == {c \in 0 .. n : FoundOf(reg, Earlier(c), {}, upto[c])}
<1>3. 0 \in S
  <2>1. Earlier(0) = {}
    BY DEF RegistryType, Ids
  <2> HIDE DEF Earlier, n
  <2>2. FoundOf(reg, Earlier(0), {}, upto[0])
    BY <1>1, <2>1 DEF FoundOf
  <2> QED
    BY <1>2, <2>2
<1>4. ASSUME NEW c \in 1 .. n, c - 1 \in S PROVE c \in S
  <2> DEFINE last == upto[c - 1]
             d == c - 1
  <2>1. c \in 0 .. n /\ c - 1 \in 0 .. n /\ d \in Ids
    BY <1>2 DEF Ids
  <2>2. last \in Finds /\ FoundOf(reg, Earlier(d), {}, last)
    BY <1>1, <1>4, <2>1
  <2>3. upto[c] = IF last[1] /\ d \in reg.live THEN Search(reg)[<<d, {}, last[2]>>] ELSE last
    BY <1>1
  <2>4. Earlier(c) = IF d \in reg.live THEN Earlier(d) \cup {d} ELSE Earlier(d)
    <3>1. \A x \in reg.live : x \in Int
      BY DEF RegistryType, Ids
    <3> QED
      BY <2>1, <3>1, <1>2
  <2> HIDE DEF last, d, Earlier, n
  <2>5. CASE ~last[1]
    <3>1. FoundOf(reg, Earlier(c), {}, upto[c])
      BY <2>2, <2>3, <2>5 DEF FoundOf
    <3> QED
      BY <2>1, <3>1
  <2>6. CASE last[1] /\ d \notin reg.live
    <3>1. FoundOf(reg, Earlier(c), {}, upto[c])
      BY <2>2, <2>3, <2>4, <2>6 DEF FoundOf
    <3> QED
      BY <2>1, <3>1
  <2>7. CASE last[1] /\ d \in reg.live
    <3>1. last[2] \in SUBSET Settled(reg) /\ Earlier(d) \subseteq last[2]
      BY <2>2, <2>7 DEF FoundOf
    <3>2. FoundOf(reg, {d}, last[2], Search(reg)[<<d, {}, last[2]>>])
      BY <2>1, <3>1, SearchRight
    <3>3. FoundOf(reg, Earlier(c), {}, upto[c])
      BY <2>3, <2>4, <2>7, <3>1, <3>2 DEF FoundOf
    <3> QED
      BY <2>1, <3>3
  <2> QED
    BY <2>5, <2>6, <2>7
<1>5. n \in S
  <2>1. \A c \in 1 .. n : c - 1 \in S => c \in S
    BY <1>4
  <2> HIDE DEF S, n
  <2> QED
    BY <1>2, <1>3, <2>1, UpTo
<1>6. Earlier(n) = reg.live
  BY <1>2 DEF RegistryType, Ids
<1> HIDE DEF Earlier, n
<1>7. FoundOf(reg, reg.live, {}, upto[n]) /\ upto[n][1] \in BOOLEAN
  BY <1>1, <1>2, <1>5, <1>6 DEF Finds
<1>8. ASSUME upto[n][1] PROVE Acyclic(reg)
  <2>1. reg.live \subseteq Settled(reg)
    BY <1>7, <1>8 DEF FoundOf
  <2> SUFFICES ASSUME NEW T \in SUBSET Ids, T # {}
               PROVE  \E c \in T : InlineOf(reg, c) \cap T = {}
    BY DEF Acyclic
  <2>2. CASE T \cap Settled(reg) = {}
    <3>1. T \in SUBSET (Ids \ reg.live)
      BY <2>1, <2>2
    <3> QED
      BY <3>1
  <2>3. CASE T \cap Settled(reg) # {}
    <3>1. T \cap Settled(reg) \in SUBSET Settled(reg)
      OBVIOUS
    <3>2. PICK c \in T \cap Settled(reg) : InlineOf(reg, c) \cap (T \cap Settled(reg)) = {}
      BY <2>3, <3>1, SettledAcyclic
    <3>3. InlineOf(reg, c) \subseteq Settled(reg)
      BY <3>2, SettledClosed
    <3> QED
      BY <3>2, <3>3
  <2> QED
    BY <2>2, <2>3
<1>9. ASSUME ~upto[n][1], Acyclic(reg) PROVE FALSE
  <2>1. PICK c \in Ids : Circular(reg, c)
    BY <1>7, <1>9 DEF FoundOf
  <2> QED
    BY <1>9, <2>1, NoReturn DEF Circular
<1> QED
  BY <1>1, <1>7, <1>8, <1>9

-----------------------------------------------------------------------------
(* delete_many.                                                            *)

\* The listing of a set without one of its numbers, when it has all those below.
LEMMA ListingWithout ==
    ASSUME NEW n \in Nat, NEW S \in SUBSET (1 .. n), NEW p \in S, 1 .. p \subseteq S
    PROVE  /\ Cardinality(S) \in Nat /\ p <= Cardinality(S)
           /\ Cardinality(S \ {p}) = Cardinality(S) - 1
           /\ Listing(S)[p] = p
           /\ \A j \in 1 .. Cardinality(S) - 1 :
                  Listing(S \ {p})[j] = IF j < p THEN Listing(S)[j] ELSE Listing(S)[j + 1]
<1> DEFINE T == S \ {p}
           m == Cardinality(S)
           L == Listing(S)
           under(U, i) == {k \in U : k < i}
<1>1. S \in SUBSET Nat /\ T \in SUBSET Nat /\ p \in Nat /\ p > 0
  OBVIOUS
<1>2. IsFiniteSet(S) /\ \A U \in SUBSET S : IsFiniteSet(U) /\ Cardinality(U) \in Nat
  <2>1. IsFiniteSet(1 .. n)
    BY FS_Interval
  <2>2. IsFiniteSet(S)
    BY <2>1, FS_Subset
  <2>3. ASSUME NEW U \in SUBSET S PROVE IsFiniteSet(U)
    BY <2>2, FS_Subset
  <2> QED
    BY <2>2, <2>3, FS_CardinalityType
<1>3. T \in SUBSET S /\ IsFiniteSet(T) /\ Cardinality(T) = m - 1 /\ m \in Nat
  <2>1. T \in SUBSET S /\ S \in SUBSET S
    OBVIOUS
  <2>2. Cardinality(S \ {p}) = Cardinality(S) - 1
    BY <1>2, FS_RemoveElement
  <2> QED
    BY <1>2, <2>1, <2>2
<1>4. /\ L \in [1 .. m -> S]
      /\ \A j \in 1 .. m : Cardinality(under(S, L[j])) = j - 1
      /\ \A i \in S : \A j \in 1 .. m : Cardinality(under(S, i)) = j - 1 => L[j] = i
  <2> HIDE DEF T
  <2> QED
    BY <1>1, <1>2, ListingType
<1>5. \A i \in T : \A j \in 1 .. m - 1 : Cardinality(under(T, i)) = j - 1 => Listing(T)[j] = i
  <2> HIDE DEF m, L
  <2>1. Cardinality(T) = m - 1
    BY <1>3
  <2> HIDE DEF T
  <2> QED
    BY <1>1, <1>3, <2>1, ListingType
<1> HIDE DEF L
<1>6. \A i \in 1 .. p : i \in S /\ Cardinality(under(S, i)) = i - 1
  <2> SUFFICES ASSUME NEW i \in 1 .. p PROVE i \in S /\ Cardinality(under(S, i)) = i - 1
    OBVIOUS
  <2>1. i \in S /\ i \in Nat
    OBVIOUS
  <2>2. under(S, i) = 1 .. i - 1
    <3>1. \A k \in under(S, i) : k \in 1 .. i - 1
      <4>1. \A k \in S : k \in Int /\ 1 <= k
        OBVIOUS
      <4>2. \A k \in Int : 1 <= k /\ k < i => k \in 1 .. i - 1
        BY <2>1
      <4> QED
        BY <4>1, <4>2
    <3>2. \A k \in 1 .. i - 1 : k \in 1 .. p /\ k < i
      BY <1>1, <2>1
    <3>3. \A k \in 1 .. i - 1 : k \in under(S, i)
      <4>1. \A k \in 1 .. i - 1 : k \in S
        BY <3>2
      <4> QED
        BY <3>2, <4>1
    <3> HIDE DEF under
    <3> QED
      BY <3>1, <3>3
  <2>3. Cardinality(1 .. i - 1) = i - 1
    <3>1. 1 \in Int /\ i - 1 \in Int
      OBVIOUS
    <3>2. Cardinality(1 .. i - 1) = IF 1 > i - 1 THEN 0 ELSE (i - 1) - 1 + 1
      BY <3>1, FS_Interval
    <3> QED
      BY <3>2
  <2> QED
    BY <2>1, <2>2, <2>3
<1>7. p <= m
  <2>1. 1 .. p \in SUBSET S
    OBVIOUS
  <2>2. Cardinality(1 .. p) <= m
    BY <1>2, <2>1, FS_Subset
  <2>3. Cardinality(1 .. p) = p
    <3>1. 1 \in Int /\ p \in Int
      OBVIOUS
    <3>2. Cardinality(1 .. p) = IF 1 > p THEN 0 ELSE p - 1 + 1
      BY <3>1, FS_Interval
    <3> QED
      BY <3>2
  <2> QED
    BY <2>2, <2>3
<1>8. L[p] = p
  <2>1. p \in 1 .. p /\ p \in 1 .. m
    BY <1>3, <1>7
  <2> HIDE DEF under
  <2> QED
    BY <1>4, <1>6, <2>1
<1>9. ASSUME NEW j \in 1 .. m - 1, j < p PROVE Listing(T)[j] = L[j]
  <2>1. j \in 1 .. p /\ j \in 1 .. m
    <3> HIDE DEF m, T
    <3> QED
      BY <1>1, <1>3, <1>9
  <2>2. L[j] = j
    <3> HIDE DEF under
    <3> QED
      BY <1>4, <1>6, <2>1
  <2>3. j \in T /\ under(T, j) = under(S, j)
    BY <1>9, <2>1
  <2>4. Cardinality(under(T, j)) = j - 1
    BY <1>6, <2>1, <2>3
  <2> HIDE DEF under
  <2> QED
    BY <1>5, <2>2, <2>3, <2>4
<1>10. ASSUME NEW j \in 1 .. m - 1, ~(j < p) PROVE Listing(T)[j] = L[j + 1]
  <2> DEFINE i == L[j + 1]
  <2>1. j + 1 \in 1 .. m /\ j \in Nat
    BY <1>3
  <2>2. i \in S /\ Cardinality(under(S, i)) = j
    <3> HIDE DEF under
    <3>1. (j + 1) - 1 = j
      BY <2>1
    <3> QED
      BY <1>4, <2>1, <3>1
  <2>3. i \notin 1 .. p
    <3> SUFFICES ASSUME i \in 1 .. p PROVE FALSE
      OBVIOUS
    <3>1. Cardinality(under(S, i)) = i - 1
      BY <1>6
    <3> HIDE DEF under
    <3> QED
      BY <1>10, <2>1, <2>2, <3>1
  <2> HIDE DEF i
  <2>4. i \in T /\ p < i
    BY <1>1, <2>2, <2>3
  <2>5. under(T, i) = under(S, i) \ {p} /\ p \in under(S, i) /\ under(S, i) \in SUBSET S
    BY <2>4
  <2> HIDE DEF under
  <2>6. Cardinality(under(T, i)) = j - 1
    <3> DEFINE U == under(S, i)
    <3>1. IsFiniteSet(U) /\ p \in U
      BY <1>2, <2>5
    <3> HIDE DEF U
    <3>2. Cardinality(U \ {p}) = Cardinality(U) - 1
      BY <3>1, FS_RemoveElement
    <3> QED
      BY <2>2, <2>5, <3>2 DEF U
  <2> QED
    BY <1>5, <2>4, <2>6 DEF i
<1> QED
  BY <1>3, <1>7, <1>8, <1>9, <1>10 DEF L

\* The nodes at some positions, in order.
Picked(ns, S) == [j \in 1 .. Cardinality(S) |-> ns[Listing(S)[j]]]

LEMMA PickedType ==
    ASSUME NEW ns \in Seq(Node), NEW S \in SUBSET (1 .. Len(ns))
    PROVE  /\ Cardinality(S) \in Nat
           /\ Picked(ns, S) \in Seq(Node)
           /\ Len(Picked(ns, S)) = Cardinality(S)
           /\ \A j \in 1 .. Cardinality(S) : Picked(ns, S)[j] = ns[Listing(S)[j]]
<1> DEFINE m == Cardinality(S)
           n == Len(ns)
<1>1. n \in Nat
  BY LenProperties
<1>2. m \in Nat /\ Listing(S) \in [1 .. m -> S]
  <2>1. IsFiniteSet(S) /\ S \in SUBSET Nat
    <3>1. IsFiniteSet(1 .. n)
      BY <1>1, FS_Interval
    <3> DEFINE R == 1 .. n
    <3>2. IsFiniteSet(R) /\ S \in SUBSET R /\ R \in SUBSET Nat
      BY <1>1, <3>1
    <3> HIDE DEF R, n
    <3> QED
      BY <3>2, FS_Subset
  <2> QED
    BY <2>1, ListingType
<1>3. \A j \in 1 .. m : ns[Listing(S)[j]] \in Node
  <2>1. \A i \in 1 .. n : ns[i] \in Node
    BY ElementOfSeq
  <2> QED
    BY <1>2, <2>1
<1> HIDE DEF m
<1>4. Picked(ns, S) = [j \in 1 .. m |-> ns[Listing(S)[j]]]
  BY DEF Picked, m
<1>5. Picked(ns, S) \in [1 .. m -> Node]
  BY <1>3, <1>4
<1>6. Picked(ns, S) \in Seq(Node) /\ Len(Picked(ns, S)) = m
  BY <1>2, <1>5
<1> QED
  BY <1>2, <1>4, <1>6 DEF m

\* One position less, when all those below it are picked.
LEMMA PickedWithout ==
    ASSUME NEW ns \in Seq(Node), NEW S \in SUBSET (1 .. Len(ns)),
           NEW p \in S, 1 .. p \subseteq S
    PROVE  LET now == Picked(ns, S)
           IN  /\ p \in 1 .. Len(now)
               /\ SubSeq(now, 1, p - 1) \o SubSeq(now, p + 1, Len(now)) = Picked(ns, S \ {p})
<1> DEFINE m   == Cardinality(S)
           T   == S \ {p}
           L   == Listing(S)
           now == Picked(ns, S)
           a   == SubSeq(now, 1, p - 1)
           b   == SubSeq(now, p + 1, m)
           new == Picked(ns, T)
<1>1. /\ m \in Nat /\ p <= m /\ p \in Int /\ p >= 1
      /\ Cardinality(T) = m - 1
      /\ \A j \in 1 .. m - 1 : Listing(T)[j] = IF j < p THEN L[j] ELSE L[j + 1]
  <2>1. Len(ns) \in Nat
    BY LenProperties
  <2>2. p \in Int /\ p >= 1
    BY <2>1
  <2> QED
    BY <2>1, <2>2, ListingWithout
<1>2. T \in SUBSET (1 .. Len(ns))
  OBVIOUS
<1>3. /\ now \in Seq(Node) /\ Len(now) = m
      /\ \A j \in 1 .. m : now[j] = ns[L[j]]
  BY PickedType
<1> HIDE DEF L, now
<1>4. /\ new \in Seq(Node) /\ Len(new) = m - 1
      /\ \A j \in 1 .. m - 1 : new[j] = ns[Listing(T)[j]]
  <2> HIDE DEF T, m
  <2> QED
    BY <1>1, <1>2, PickedType
<1> HIDE DEF new, T, m
<1>5. \A j \in 1 .. m : now[j] \in Node
  BY <1>3, ElementOfSeq
<1>6. /\ a \in Seq(Node) /\ Len(a) = p - 1
      /\ \A j \in 1 .. p - 1 : a[j] = now[j]
  <2> DEFINE q == p - 1
  <2>1. q \in Int /\ q \in Nat /\ \A i \in 1 .. q : i \in 1 .. m
    BY <1>1
  <2> HIDE DEF q
  <2>2. /\ SubSeq(now, 1, q) \in Seq(Node)
        /\ Len(SubSeq(now, 1, q)) = IF 1 <= q THEN q - 1 + 1 ELSE 0
        /\ \A i \in 1 .. q - 1 + 1 : SubSeq(now, 1, q)[i] = now[1 + i - 1]
    BY <1>5, <2>1, SubSeqProperties
  <2>3. SubSeq(now, 1, q) \in Seq(Node) /\ Len(SubSeq(now, 1, q)) = q
    BY <2>1, <2>2
  <2>4. ASSUME NEW j \in 1 .. q PROVE SubSeq(now, 1, q)[j] = now[j]
    <3>1. j \in 1 .. q - 1 + 1 /\ 1 + j - 1 = j
      BY <2>1
    <3> QED
      BY <2>2, <3>1
  <2> QED
    BY <2>3, <2>4 DEF q
<1>7. /\ b \in Seq(Node) /\ Len(b) = m - p
      /\ \A j \in 1 .. m - p : b[j] = now[p + j]
  <2> DEFINE lo == p + 1
  <2>1. lo \in Int /\ m \in Int /\ lo >= 1 /\ \A i \in lo .. m : i \in 1 .. m
    BY <1>1
  <2>2. m - lo + 1 = m - p /\ (lo <= m <=> p < m)
    BY <1>1
  <2>3. \A i \in Int : lo + i - 1 = p + i
    BY <1>1
  <2> HIDE DEF lo
  <2>4. /\ SubSeq(now, lo, m) \in Seq(Node)
        /\ Len(SubSeq(now, lo, m)) = IF lo <= m THEN m - lo + 1 ELSE 0
        /\ \A i \in 1 .. m - lo + 1 : SubSeq(now, lo, m)[i] = now[lo + i - 1]
    BY <1>5, <2>1, SubSeqProperties
  <2>5. SubSeq(now, lo, m) \in Seq(Node) /\ Len(SubSeq(now, lo, m)) = m - p
    BY <1>1, <2>2, <2>4
  <2>6. ASSUME NEW j \in 1 .. m - p PROVE SubSeq(now, lo, m)[j] = now[p + j]
    BY <2>2, <2>3, <2>4
  <2> QED
    BY <2>5, <2>6 DEF lo
<1> HIDE DEF a, b
<1>8. /\ a \o b \in Seq(Node) /\ Len(a \o b) = m - 1
      /\ \A j \in 1 .. m - 1 : (a \o b)[j] = IF j <= p - 1 THEN a[j] ELSE b[j - (p - 1)]
  <2>1. /\ a \o b \in Seq(Node)
        /\ Len(a \o b) = Len(a) + Len(b)
        /\ \A j \in 1 .. Len(a) + Len(b) : (a \o b)[j] = IF j <= Len(a) THEN a[j] ELSE b[j - Len(a)]
    BY <1>6, <1>7, ConcatProperties
  <2>2. Len(a) + Len(b) = m - 1
    BY <1>1, <1>6, <1>7
  <2> QED
    BY <1>6, <2>1, <2>2
<1>9. ASSUME NEW j \in 1 .. m - 1 PROVE (a \o b)[j] = new[j]
  <2>1. j \in Int /\ j \in 1 .. m /\ j + 1 \in 1 .. m
    BY <1>1
  <2>2. CASE j < p
    <3>1. j <= p - 1 /\ j \in 1 .. p - 1
      BY <1>1, <2>1, <2>2
    <3>2. (a \o b)[j] = ns[L[j]]
      BY <1>3, <1>6, <1>8, <2>1, <3>1
    <3>3. new[j] = ns[L[j]]
      BY <1>1, <1>4, <2>2
    <3> QED
      BY <3>2, <3>3
  <2>3. CASE ~(j < p)
    <3> DEFINE i == j - (p - 1)
    <3>1. ~(j <= p - 1) /\ i \in 1 .. m - p /\ p + i = j + 1
      BY <1>1, <2>1, <2>3
    <3>2. (a \o b)[j] = b[i]
      BY <1>8, <3>1
    <3> HIDE DEF i
    <3>3. b[i] = now[p + i]
      BY <1>7, <3>1
    <3>4. now[j + 1] = ns[L[j + 1]]
      BY <1>3, <2>1
    <3>5. new[j] = ns[L[j + 1]]
      BY <1>1, <1>4, <2>3
    <3> QED
      BY <3>1, <3>2, <3>3, <3>4, <3>5
  <2> QED
    BY <1>1, <2>1, <2>2, <2>3
<1>10. a \o b = new
  BY <1>4, <1>8, <1>9, SeqEqual
<1>11. p \in 1 .. Len(now) /\ Len(now) = m
  BY <1>1, <1>3
<1> QED
  BY <1>10, <1>11 DEF a, b, new, now, T

\* All positions, picked.
LEMMA PickedAll ==
    ASSUME NEW ns \in Seq(Node)
    PROVE  Picked(ns, 1 .. Len(ns)) = ns
<1> DEFINE n == Len(ns)
           S == 1 .. n
           under(i) == {k \in S : k < i}
<1>1. n \in Nat /\ IsFiniteSet(S) /\ S \in SUBSET Nat
  BY LenProperties, FS_Interval
<1>2. Cardinality(S) = n
  <2>1. Cardinality(1 .. n) = IF 1 > n THEN 0 ELSE n - 1 + 1
    BY <1>1, FS_Interval
  <2> QED
    BY <1>1, <2>1
<1>3. ASSUME NEW j \in 1 .. n PROVE Listing(S)[j] = j
  <2>1. under(j) = 1 .. j - 1
    BY <1>1
  <2>2. Cardinality(under(j)) = j - 1
    <3>1. 1 \in Int /\ j - 1 \in Int
      BY <1>1
    <3>2. Cardinality(1 .. j - 1) = IF 1 > j - 1 THEN 0 ELSE (j - 1) - 1 + 1
      BY <3>1, FS_Interval
    <3>3. Cardinality(1 .. j - 1) = j - 1
      BY <1>1, <3>2
    <3> QED
      BY <2>1, <3>3
  <2>3. j \in S
    OBVIOUS
  <2> HIDE DEF S
  <2> QED
    BY <1>1, <1>2, <2>2, <2>3, ListingType
<1>4. /\ Picked(ns, S) \in Seq(Node)
      /\ Len(Picked(ns, S)) = n
      /\ \A j \in 1 .. n : Picked(ns, S)[j] = ns[j]
  <2>1. S \in SUBSET (1 .. Len(ns))
    OBVIOUS
  <2> HIDE DEF S
  <2> QED
    BY <1>2, <1>3, <2>1, PickedType
<1> HIDE DEF S
<1>5. Picked(ns, S) = ns
  BY <1>4, SeqEqual
<1> QED
  BY <1>5 DEF S

\* The positions in a class of what is not deleted.
Remaining(reg, c, targets) == {i \in DOMAIN reg.nodes[c] : <<c, i - 1>> \notin targets}

\* A registry with another node list of a class.
WithNodeList(reg, c, ns) == [reg EXCEPT !.nodes[c] = ns]

\* One step of the loop: the node behind those that it is done with.
LEMMA SweepStep ==
    ASSUME NEW reg \in RegistryType, NEW c \in reg.live, NEW S \in SUBSET (1 .. Len(reg.nodes[c])),
           NEW idx \in Nat, idx + 1 \in S, 1 .. idx + 1 \subseteq S
    PROVE  NodeRemoved(WithNodeList(reg, c, Picked(reg.nodes[c], S)), c, idx) =
               WithNodeList(reg, c, Picked(reg.nodes[c], S \ {idx + 1}))
<1> DEFINE ns  == reg.nodes[c]
           p   == idx + 1
           now == Picked(ns, S)
           mid == [reg EXCEPT !.nodes[c] = now]
<1>1. c \in Ids /\ ns \in Seq(Node) /\ p \in S /\ 1 .. p \subseteq S /\ p - 1 = idx /\ p + 1 = idx + 2
  BY NodeList DEF RegistryType
<1>2. mid.live = reg.live /\ mid.nodes[c] = now
  <2> HIDE DEF now
  <2> QED
    BY <1>1 DEF RegistryType
<1>3. /\ p \in 1 .. Len(now) /\ Len(now) \in Nat
      /\ SubSeq(now, 1, p - 1) \o SubSeq(now, p + 1, Len(now)) = Picked(ns, S \ {p})
  <2>1. Len(now) \in Nat
    <3> HIDE DEF ns
    <3> QED
      BY <1>1, PickedType, LenProperties DEF ns
  <2> HIDE DEF ns, p
  <2> QED
    BY <1>1, <2>1, PickedWithout DEF ns
<1> HIDE DEF now
<1>4. HasNode(mid, c, idx)
  <2>1. idx \in 0 .. Len(now) - 1
    BY <1>3
  <2> HIDE DEF mid
  <2> QED
    BY <1>2, <2>1 DEF HasNode
<1>5. NodeRemoved(mid, c, idx) =
          [mid EXCEPT !.nodes[c] = SubSeq(now, 1, idx) \o SubSeq(now, idx + 2, Len(now))]
  <2> HIDE DEF mid
  <2> QED
    BY <1>2, <1>4 DEF NodeRemoved
<1>6. SubSeq(now, 1, idx) \o SubSeq(now, idx + 2, Len(now)) = Picked(ns, S \ {idx + 1})
  BY <1>1, <1>3
<1>7. [mid EXCEPT !.nodes[c] = Picked(ns, S \ {idx + 1})]
      = [reg EXCEPT !.nodes[c] = Picked(ns, S \ {idx + 1})]
  BY DEF RegistryType
<1> QED
  BY <1>5, <1>6, <1>7 DEF now, WithNodeList

\* delete_many in a class leaves the nodes that are no targets.
LEMMA SweptIs ==
    ASSUME NEW reg \in RegistryType, NEW c \in Ids, NEW targets
    PROVE  Swept(reg, c, targets) =
               IF c \in reg.live
               THEN WithNodeList(reg, c, Picked(reg.nodes[c], Remaining(reg, c, targets)))
               ELSE reg
<1> DEFINE ns == reg.nodes[c]
           n == Len(ns)
           S(k) == {i \in 1 .. n : i > n - k => <<c, i - 1>> \notin targets}
           f == [k \in 0 .. n |->
                    IF c \in reg.live THEN WithNodeList(reg, c, Picked(ns, S(k))) ELSE reg]
           Step(r, k) == IF <<c, n - k>> \in targets THEN NodeRemoved(r, c, n - k) ELSE r
<1>1. n \in Nat /\ ns \in Seq(Node) /\ DOMAIN ns = 1 .. n
  BY NodeList
<1>2. S(0) = 1 .. n /\ S(n) = Remaining(reg, c, targets)
  <2>1. \A i \in 1 .. n : ~(i > n - 0) /\ i > n - n
    BY <1>1
  <2> HIDE DEF n
  <2> QED
    BY <1>1, <2>1 DEF Remaining
<1>3. ASSUME NEW k \in 1 .. n
      PROVE  /\ S(k - 1) \in SUBSET (1 .. n) /\ n - k \in Nat
             /\ n - k + 1 \in S(k - 1) /\ 1 .. n - k + 1 \subseteq S(k - 1)
             /\ S(k) = IF <<c, n - k>> \in targets THEN S(k - 1) \ {n - k + 1} ELSE S(k - 1)
  <2> DEFINE p == n - k + 1
  <2>1. p \in 1 .. n /\ n - k \in Nat /\ p - 1 = n - k
    <3> HIDE DEF n
    <3> QED
      BY <1>1
  <2>2. \A i \in 1 .. n : (i > n - k <=> i = p \/ i > n - (k - 1)) /\ (i = p => ~(i > n - (k - 1)))
    BY <1>1
  <2>3. \A i \in 1 .. p : i \in 1 .. n /\ ~(i > n - (k - 1))
    BY <1>1
  <2> HIDE DEF p, n
  <2>4. p \in S(k - 1) /\ 1 .. p \subseteq S(k - 1)
    BY <2>1, <2>2, <2>3
  <2>5. S(k) = IF <<c, n - k>> \in targets THEN S(k - 1) \ {p} ELSE S(k - 1)
    <3>1. \A i \in 1 .. n : i \in S(k) <=> i \in S(k - 1) /\ (i = p => <<c, n - k>> \notin targets)
      BY <2>1, <2>2
    <3>2. S(k) \in SUBSET (1 .. n) /\ S(k - 1) \in SUBSET (1 .. n)
      OBVIOUS
    <3> HIDE DEF S
    <3> QED
      BY <2>1, <3>1, <3>2
  <2> QED
    BY <2>1, <2>4, <2>5 DEF p
<1> HIDE DEF S
<1>4. f[0] = reg
  <2>1. 0 \in 0 .. n
    BY <1>1
  <2>2. Picked(ns, S(0)) = ns
    BY <1>1, <1>2, PickedAll
  <2>3. WithNodeList(reg, c, ns) = reg
    BY DEF WithNodeList, RegistryType
  <2> HIDE DEF ns, n
  <2> QED
    BY <2>1, <2>2, <2>3
<1>5. ASSUME NEW k \in 1 .. n PROVE f[k] = Step(f[k - 1], k)
  <2>1. k \in 0 .. n /\ k - 1 \in 0 .. n
    BY <1>1
  <2>2. CASE c \notin reg.live
    <3>1. f[k] = reg /\ f[k - 1] = reg
      BY <2>1, <2>2
    <3>2. NodeRemoved(reg, c, n - k) = reg
      BY <2>2 DEF NodeRemoved, HasNode
    <3> HIDE DEF f
    <3> QED
      BY <3>1, <3>2
  <2>3. CASE c \in reg.live
    <3>1. /\ f[k] = WithNodeList(reg, c, Picked(ns, S(k)))
          /\ f[k - 1] = WithNodeList(reg, c, Picked(ns, S(k - 1)))
      BY <2>1, <2>3
    <3> DEFINE idx == n - k
               R == S(k - 1)
    <3>2. /\ R \in SUBSET (1 .. n) /\ idx \in Nat
          /\ idx + 1 \in R /\ 1 .. idx + 1 \subseteq R
          /\ S(k) = IF <<c, idx>> \in targets THEN R \ {idx + 1} ELSE R
      BY <1>3
    <3>3. NodeRemoved(WithNodeList(reg, c, Picked(ns, R)), c, idx) =
              WithNodeList(reg, c, Picked(ns, R \ {idx + 1}))
      <4>1. R \in SUBSET (1 .. Len(reg.nodes[c]))
        BY <3>2
      <4>2. idx \in Nat /\ idx + 1 \in R /\ 1 .. idx + 1 \subseteq R
        BY <3>2
      <4> HIDE DEF R, idx
      <4>3. NodeRemoved(WithNodeList(reg, c, Picked(reg.nodes[c], R)), c, idx) =
                WithNodeList(reg, c, Picked(reg.nodes[c], R \ {idx + 1}))
        BY <2>3, <4>1, <4>2, SweepStep
      <4> QED
        BY <4>3
    <3> HIDE DEF f
    <3> QED
      BY <3>1, <3>2, <3>3
  <2> QED
    BY <2>2, <2>3
<1> HIDE DEF Step
<1>6. f = [k \in 0 .. n |-> IF k = 0 THEN reg ELSE Step(f[k - 1], k)]
  <2>1. \A k \in 0 .. n : k = 0 \/ k \in 1 .. n
    BY <1>1
  <2>2. f = [k \in 0 .. n |-> f[k]]
    OBVIOUS
  <2> HIDE DEF f, n
  <2>3. \A k \in 0 .. n : f[k] = IF k = 0 THEN reg ELSE Step(f[k - 1], k)
    BY <1>4, <1>5, <2>1
  <2> QED
    BY <2>2, <2>3
<1> DEFINE after[k \in 0 .. n] ==
             LET last == after[k - 1]
                 idx  == n - k
             IN  IF k = 0 THEN reg
                 ELSE IF <<c, idx>> \in targets THEN NodeRemoved(last, c, idx)
                 ELSE last
<1>7. after = [k \in 0 .. n |-> IF k = 0 THEN reg ELSE Step(after[k - 1], k)]
  <2> HIDE DEF f, n
  <2> QED
    BY <1>6 DEF Step
<1>8. Swept(reg, c, targets) = after[n]
  BY DEF Swept
<1> HIDE DEF after
<1>9. f[n] = IF c \in reg.live
             THEN WithNodeList(reg, c, Picked(ns, Remaining(reg, c, targets))) ELSE reg
  BY <1>1, <1>2
<1> HIDE DEF f
<1>10. after[n] = f[n]
  <2> HIDE DEF n
  <2>1. 0 \in 0 .. n /\ n \in 0 .. n /\ \A k \in 1 .. n : k \in 0 .. n /\ k # 0
    BY <1>1
  <2>2. after[0] = f[0]
    BY <1>4, <1>7, <2>1
  <2>3. \A k \in 1 .. n : after[k - 1] = f[k - 1] => after[k] = f[k]
    BY <1>5, <1>7, <2>1
  <2> DEFINE U == {k \in 0 .. n : after[k] = f[k]}
  <2>4. 0 \in U /\ \A k \in 1 .. n : k - 1 \in U => k \in U
    BY <2>1, <2>2, <2>3
  <2> HIDE DEF U
  <2>5. \A k \in 0 .. n : k \in U
    BY <1>1, <2>4, UpTo
  <2> QED
    BY <2>1, <2>5 DEF U
<1> QED
  BY <1>8, <1>9, <1>10

\* delete_many takes out its targets and nothing else.
THEOREM DeletesTargets ==
    ASSUME NEW reg \in RegistryType, NEW targets
    PROVE  DeleteLoop(reg, targets) = NodesDeleted(reg, targets)
<1> DEFINE n == MaxId
           kept(d) == Picked(reg.nodes[d], Remaining(reg, d, targets))
           nodes(c) == [d \in Ids |-> IF d \in reg.live /\ d < c THEN kept(d) ELSE reg.nodes[d]]
           f == [c \in 0 .. n |-> [reg EXCEPT !.nodes = nodes(c)]]
           Step(r, c) == Swept(r, c - 1, targets)
<1>1. n \in Nat
  BY RegistryAssumption
<1>2. \A d \in Ids : kept(d) \in Seq(Node)
  <2> SUFFICES ASSUME NEW d \in Ids PROVE kept(d) \in Seq(Node)
    OBVIOUS
  <2>1. reg.nodes[d] \in Seq(Node) /\ Remaining(reg, d, targets) \in SUBSET (1 .. Len(reg.nodes[d]))
    BY NodeList DEF Remaining
  <2> QED
    BY <2>1, PickedType
<1> HIDE DEF kept
<1>3. \A c : nodes(c) \in [Ids -> Seq(Node)]
  BY <1>2, NodeList
<1>4. f[0] = reg
  <2>1. \A d \in Ids : ~(d < 0)
    BY <1>1 DEF Ids
  <2>2. nodes(0) = reg.nodes
    BY <2>1 DEF RegistryType
  <2>3. 0 \in 0 .. n
    BY <1>1
  <2> HIDE DEF nodes
  <2> QED
    BY <2>2, <2>3 DEF RegistryType
<1>5. f[n] = NodesDeleted(reg, targets)
  <2>1. n \in 0 .. n /\ \A d \in Ids : d < n
    BY <1>1 DEF Ids
  <2> DEFINE list(c) == Listing({i \in DOMAIN reg.nodes[c] : <<c, i - 1>> \notin targets})
             left(c) == [j \in DOMAIN list(c) |-> reg.nodes[c][list(c)[j]]]
  <2>2. ASSUME NEW d \in Ids PROVE kept(d) = left(d)
    <3>1. DOMAIN list(d) = 1 .. Cardinality(Remaining(reg, d, targets))
      BY DEF Listing, Remaining
    <3>2. list(d) = Listing(Remaining(reg, d, targets))
      BY DEF Remaining
    <3> HIDE DEF list
    <3> QED
      BY <3>1, <3>2 DEF kept, Picked
  <2>3. nodes(n) = [d \in Ids |-> IF d \in reg.live THEN left(d) ELSE reg.nodes[d]]
    <3> HIDE DEF left, n
    <3> QED
      BY <2>1, <2>2
  <2>4. NodesDeleted(reg, targets) =
            [reg EXCEPT !.nodes = [d \in Ids |-> IF d \in reg.live THEN left(d) ELSE reg.nodes[d]]]
    BY DEF NodesDeleted
  <2> HIDE DEF left, nodes, n
  <2> QED
    BY <2>1, <2>3, <2>4
<1>6. ASSUME NEW c \in 1 .. n PROVE f[c] = Step(f[c - 1], c)
  <2> DEFINE d == c - 1
             r == f[d]
  <2>1. c \in 0 .. n /\ d \in 0 .. n /\ d \in Ids
    BY <1>1 DEF Ids
  <2>2. r = [reg EXCEPT !.nodes = nodes(d)] /\ f[c] = [reg EXCEPT !.nodes = nodes(c)]
    BY <2>1
  <2>3. r \in RegistryType /\ r.live = reg.live /\ r.nodes = nodes(d) /\ r.nodes[d] = reg.nodes[d]
    <3>1. ~(d < d)
      BY <2>1
    <3>2. nodes(d)[d] = reg.nodes[d]
      BY <2>1, <3>1
    <3> HIDE DEF nodes, f, d
    <3>3. [reg EXCEPT !.nodes = nodes(d)] \in RegistryType
      BY <1>3, WithNodes
    <3> QED
      BY <2>2, <3>2, <3>3 DEF RegistryType
  <2>4. Remaining(r, d, targets) = Remaining(reg, d, targets)
    BY <2>3 DEF Remaining
  <2>5. nodes(c) = IF d \in reg.live THEN [nodes(d) EXCEPT ![d] = kept(d)] ELSE nodes(d)
    <3>1. \A e \in Ids : e < c <=> e < d \/ e = d
      BY <1>1 DEF Ids
    <3> HIDE DEF d
    <3> QED
      BY <2>1, <3>1
  <2>6. Swept(r, d, targets) =
            IF d \in r.live
            THEN WithNodeList(r, d, Picked(r.nodes[d], Remaining(r, d, targets)))
            ELSE r
    <3> HIDE DEF r, d, nodes
    <3> QED
      BY <2>1, <2>3, SweptIs
  <2>7. Swept(r, d, targets) = IF d \in reg.live THEN WithNodeList(r, d, kept(d)) ELSE r
    <3> HIDE DEF r, d, nodes
    <3> QED
      BY <2>3, <2>4, <2>6 DEF kept
  <2>8. WithNodeList(r, d, kept(d)) = [reg EXCEPT !.nodes = [nodes(d) EXCEPT ![d] = kept(d)]]
    <3> HIDE DEF nodes, d, f
    <3> QED
      BY <1>3, <2>1, <2>2 DEF WithNodeList, RegistryType
  <2> HIDE DEF f, nodes, d
  <2> QED
    BY <2>2, <2>5, <2>7, <2>8 DEF d
<1> HIDE DEF Step, nodes
<1>7. f = [c \in 0 .. n |-> IF c = 0 THEN reg ELSE Step(f[c - 1], c)]
  <2>1. \A c \in 0 .. n : c = 0 \/ c \in 1 .. n
    BY <1>1
  <2>2. f = [c \in 0 .. n |-> f[c]]
    OBVIOUS
  <2> HIDE DEF f, n
  <2>3. \A c \in 0 .. n : f[c] = IF c = 0 THEN reg ELSE Step(f[c - 1], c)
    BY <1>4, <1>6, <2>1
  <2> QED
    BY <2>2, <2>3
<1> DEFINE after[c \in 0 .. n] == IF c = 0 THEN reg ELSE Swept(after[c - 1], c - 1, targets)
<1>8. after = [c \in 0 .. n |-> IF c = 0 THEN reg ELSE Step(after[c - 1], c)]
  <2> HIDE DEF f, n
  <2> QED
    BY <1>7 DEF Step
<1>9. DeleteLoop(reg, targets) = after[n]
  BY DEF DeleteLoop
<1> HIDE DEF after, f
<1>10. after[n] = f[n]
  <2> HIDE DEF n
  <2>1. 0 \in 0 .. n /\ n \in 0 .. n /\ \A c \in 1 .. n : c \in 0 .. n /\ c # 0
    BY <1>1
  <2>2. after[0] = f[0]
    BY <1>4, <1>8, <2>1
  <2>3. \A c \in 1 .. n : after[c - 1] = f[c - 1] => after[c] = f[c]
    BY <1>6, <1>8, <2>1
  <2> DEFINE U == {c \in 0 .. n : after[c] = f[c]}
  <2>4. 0 \in U /\ \A c \in 1 .. n : c - 1 \in U => c \in U
    BY <2>1, <2>2, <2>3
  <2> HIDE DEF U
  <2>5. \A c \in 0 .. n : c \in U
    BY <1>1, <2>4, UpTo
  <2> QED
    BY <2>1, <2>5 DEF U
<1> QED
  BY <1>5, <1>9, <1>10

-----------------------------------------------------------------------------
(* paste_nodes.                                                            *)

\* What was put behind a sequence comes off again.
LEMMA SplitAgain ==
    ASSUME NEW S, NEW s \in Seq(S), NEW t \in Seq(S)
    PROVE  /\ SubSeq(s \o t, 1, Len(s)) = s
           /\ SubSeq(s \o t, Len(s) + 1, Len(s \o t)) = t
<1> DEFINE u == s \o t
           k == Len(s)
           m == Len(t)
<1>1. /\ u \in Seq(S) /\ k \in Nat /\ m \in Nat
      /\ Len(u) = k + m
      /\ \A i \in 1 .. k + m : u[i] = IF i <= k THEN s[i] ELSE t[i - k]
  BY ConcatProperties, LenProperties
<1>2. \A i \in 1 .. k + m : u[i] \in S
  BY <1>1, ElementOfSeq
<1> HIDE DEF u, k, m
<1>3. SubSeq(u, 1, k) = s
  <2> DEFINE v == SubSeq(u, 1, k)
  <2>1. \A i \in 1 .. k : u[i] \in S
    BY <1>1, <1>2
  <2>2. 1 \in Int /\ k \in Int
    BY <1>1
  <2>3. /\ v \in Seq(S)
        /\ Len(v) = IF 1 <= k THEN k - 1 + 1 ELSE 0
        /\ \A i \in 1 .. k - 1 + 1 : v[i] = u[1 + i - 1]
    BY <2>1, <2>2, SubSeqProperties
  <2> HIDE DEF v
  <2>4. Len(v) = k
    BY <1>1, <2>3
  <2>5. \A i \in 1 .. k : v[i] = s[i]
    <3> SUFFICES ASSUME NEW i \in 1 .. k PROVE v[i] = s[i]
      OBVIOUS
    <3>1. i \in 1 .. k - 1 + 1 /\ 1 + i - 1 = i /\ i \in 1 .. k + m /\ i <= k
      BY <1>1
    <3> QED
      BY <1>1, <2>3, <3>1
  <2>6. v = s
    BY <2>3, <2>4, <2>5, SeqEqual DEF k
  <2> QED
    BY <2>6 DEF v
<1>4. SubSeq(u, k + 1, k + m) = t
  <2> DEFINE lo == k + 1
             hi == k + m
             v == SubSeq(u, lo, hi)
  <2>1. /\ lo \in Int /\ hi \in Int
        /\ \A i \in lo .. hi : u[i] \in S
        /\ hi - lo + 1 = m
        /\ (lo <= hi) = (m # 0)
    BY <1>1, <1>2
  <2> HIDE DEF lo, hi
  <2>2. /\ v \in Seq(S)
        /\ Len(v) = IF lo <= hi THEN hi - lo + 1 ELSE 0
        /\ \A i \in 1 .. hi - lo + 1 : v[i] = u[lo + i - 1]
    BY <2>1, SubSeqProperties
  <2> HIDE DEF v
  <2>3. v \in Seq(S) /\ Len(v) = m
    BY <1>1, <2>1, <2>2
  <2>4. \A i \in 1 .. m : v[i] = u[lo + i - 1]
    BY <2>1, <2>2
  <2>5. \A i \in 1 .. m : v[i] = t[i]
    <3> SUFFICES ASSUME NEW i \in 1 .. m PROVE v[i] = t[i]
      OBVIOUS
    <3>1. i \in Int /\ lo \in Int /\ lo = k + 1
      BY <1>1, <2>1 DEF lo
    <3>2. lo + i - 1 = k + i /\ k + i \in 1 .. k + m /\ ~(k + i <= k) /\ k + i - k = i
      BY <1>1, <3>1
    <3> DEFINE j == k + i
    <3>3. v[i] = u[j]
      BY <2>4, <3>2
    <3>4. j \in 1 .. k + m /\ ~(j <= k) /\ j - k = i
      BY <1>1, <3>1, <3>2
    <3> HIDE DEF j
    <3>5. u[j] = t[j - k]
      BY <1>1, <3>4
    <3> QED
      BY <3>3, <3>4, <3>5
  <2>6. v = t
    BY <2>3, <2>5, SeqEqual DEF m
  <2> QED
    BY <2>6 DEF v, lo, hi
<1> QED
  BY <1>1, <1>3, <1>4 DEF u, k

\* Nodes that go before others inserted at the same place.
LEMMA InsertedBefore ==
    ASSUME NEW reg \in RegistryType, NEW c \in Ids, NEW pos \in Nat,
           NEW ns \in Seq(Node), NEW n \in Node
    PROVE  /\ NodesInserted(NodesInserted(reg, c, pos, ns), c, pos, <<n>>) =
                  NodesInserted(reg, c, pos, <<n>> \o ns)
           /\ NodesInserted(reg, c, pos, <<>>) = reg
<1> DEFINE old  == reg.nodes[c]
           head == SubSeq(old, 1, pos)
           rest == SubSeq(old, pos + 1, Len(old))
<1>1. CASE ~(c \in reg.live /\ pos \in 0 .. Len(old))
  BY <1>1 DEF NodesInserted
<1>2. CASE c \in reg.live /\ pos \in 0 .. Len(old)
  <2>1. old \in Seq(Node) /\ Len(old) \in Nat
    BY NodeList
  <2>2. head \in Seq(Node) /\ rest \in Seq(Node) /\ Len(head) = pos
    BY <1>2, NodeList, SubSeqProperties
  <2>3. head \o rest = old
    <3> DEFINE L == Len(old)
    <3>1. L \in Nat /\ 1 \in 1 .. L + 1 /\ pos \in 1 - 1 .. L /\ L \in pos .. L
      BY <1>2, <2>1
    <3> HIDE DEF L
    <3>2. SubSeq(old, 1, pos) \o SubSeq(old, pos + 1, L) = SubSeq(old, 1, L)
      <4> HIDE DEF old
      <4> QED
        BY <2>1, <3>1, ConcatAdjacentSubSeq DEF L
    <3> QED
      BY <2>1, <3>2, SubSeqFull DEF L
  <2>4. \A s \in Seq(Node) :
            NodesInserted(reg, c, pos, s) = [reg EXCEPT !.nodes[c] = head \o s \o rest]
    BY <1>2 DEF NodesInserted
  <2> HIDE DEF head, rest
  <2>5. NodesInserted(reg, c, pos, <<>>) = reg
    <3>1. <<>> \in Seq(Node) /\ head \o <<>> \o rest = old
      BY <2>2, <2>3, ConcatEmptySeq, EmptySeq
    <3>2. NodesInserted(reg, c, pos, <<>>) = [reg EXCEPT !.nodes[c] = old]
      BY <2>4, <3>1
    <3> QED
      BY <3>2 DEF RegistryType
  <2> DEFINE mid == NodesInserted(reg, c, pos, ns)
             back == ns \o rest
  <2>6. mid = [reg EXCEPT !.nodes[c] = head \o back]
    <3>1. head \o ns \o rest = head \o back
      BY <2>2, ConcatAssociative
    <3> QED
      BY <2>4, <3>1
  <2>7. mid.live = reg.live /\ mid.nodes[c] = head \o back
    BY <2>6 DEF RegistryType
  <2>8. back \in Seq(Node) /\ <<n>> \in Seq(Node)
    BY <2>2, ConcatProperties
  <2> HIDE DEF back
  <2>9. /\ Len(head \o back) \in Nat /\ pos <= Len(head \o back)
        /\ SubSeq(head \o back, 1, pos) = head
        /\ SubSeq(head \o back, pos + 1, Len(head \o back)) = back
    <3>1. Len(head \o back) = pos + Len(back) /\ Len(back) \in Nat
      BY <2>2, <2>8, ConcatProperties, LenProperties
    <3>2. /\ SubSeq(head \o back, 1, Len(head)) = head
          /\ SubSeq(head \o back, Len(head) + 1, Len(head \o back)) = back
      BY <2>2, <2>8, SplitAgain
    <3> QED
      BY <2>2, <3>1, <3>2
  <2> HIDE DEF mid
  <2>10. NodesInserted(mid, c, pos, <<n>>) = [mid EXCEPT !.nodes[c] = head \o <<n>> \o back]
    <3> DEFINE now == mid.nodes[c]
    <3>1. c \in mid.live /\ pos \in 0 .. Len(now)
      BY <1>2, <2>7, <2>9
    <3>2. SubSeq(now, 1, pos) = head /\ SubSeq(now, pos + 1, Len(now)) = back
      BY <2>7, <2>9
    <3>3. NodesInserted(mid, c, pos, <<n>>) =
              [mid EXCEPT !.nodes[c] = SubSeq(now, 1, pos) \o <<n>> \o SubSeq(now, pos + 1, Len(now))]
      BY <3>1 DEF NodesInserted
    <3> HIDE DEF now
    <3> QED
      BY <3>2, <3>3
  <2>11. head \o <<n>> \o back = head \o (<<n>> \o ns) \o rest
    <3>1. <<n>> \o ns \in Seq(Node)
      BY <2>8, ConcatProperties
    <3>2. head \o <<n>> \o back = head \o (<<n>> \o back)
      BY <2>2, <2>8, ConcatAssociative
    <3>3. <<n>> \o back = (<<n>> \o ns) \o rest
      BY <2>2, <2>8, ConcatAssociative DEF back
    <3>4. head \o (<<n>> \o ns) \o rest = head \o ((<<n>> \o ns) \o rest)
      BY <2>2, <3>1, ConcatAssociative
    <3> QED
      BY <3>2, <3>3, <3>4
  <2>12. [mid EXCEPT !.nodes[c] = head \o <<n>> \o back]
         = [reg EXCEPT !.nodes[c] = head \o <<n>> \o back]
    BY <2>6 DEF RegistryType
  <2>13. <<n>> \o ns \in Seq(Node)
    BY <2>8, ConcatProperties
  <2> QED
    BY <2>4, <2>5, <2>10, <2>11, <2>12, <2>13 DEF mid
<1> QED
  BY <1>1, <1>2

\* paste_nodes, which goes backwards, keeps the order of what it pastes.
THEOREM PasteInOrder ==
    ASSUME NEW reg \in RegistryType, NEW c \in Ids, NEW pos \in Nat, NEW ns \in Seq(Node)
    PROVE  PasteLoop(reg, c, pos, ns) = NodesInserted(reg, c, pos, ns)
<1> DEFINE m == Len(ns)
           last(k) == SubSeq(ns, m - k + 1, m)
           f == [k \in 0 .. m |-> NodesInserted(reg, c, pos, last(k))]
           Step(r, k) == NodesInserted(r, c, pos, <<ns[m - k + 1]>>)
<1>1. m \in Nat
  BY LenProperties
<1>2. last(0) = <<>> /\ last(m) = ns
  <2>1. m + 1 \in Int /\ m \in Int /\ m < m + 1 /\ m - 0 + 1 = m + 1 /\ m - m + 1 = 1
    BY <1>1
  <2>2. SubSeq(ns, m + 1, m) = <<>>
    BY <2>1, SubSeqEmpty
  <2> QED
    BY <2>1, <2>2, SubSeqFull
<1>3. f[0] = reg /\ f[m] = NodesInserted(reg, c, pos, ns)
  <2>1. 0 \in 0 .. m /\ m \in 0 .. m
    BY <1>1
  <2>2. NodesInserted(reg, c, pos, <<>>) = reg
    <3>1. \E k \in Kind : TRUE
      BY KindTypes
    <3>2. \E n \in Node : TRUE
      BY <3>1, KindTypes
    <3> QED
      BY <3>2, InsertedBefore
  <2> HIDE DEF last, m
  <2> QED
    BY <1>2, <2>1, <2>2
<1>4. ASSUME NEW k \in 1 .. m PROVE f[k] = Step(f[k - 1], k)
  <2> DEFINE i == m - k + 1
             n == ns[i]
  <2>1. i \in 1 .. m /\ m \in i .. m /\ k - 1 \in 0 .. m /\ k \in 0 .. m /\ m - (k - 1) + 1 = i + 1
    BY <1>1
  <2>2. n \in Node
    BY <2>1, ElementOfSeq
  <2>3. last(k) = <<n>> \o last(k - 1)
    BY <2>1, SubSeqRecursiveFirst
  <2>4. last(k - 1) \in Seq(Node)
    <3>1. \A j \in i + 1 .. m : ns[j] \in Node
      BY <2>1, ElementOfSeq
    <3>2. i + 1 \in Int /\ m \in Int
      BY <1>1, <2>1
    <3>3. SubSeq(ns, i + 1, m) \in Seq(Node)
      BY <3>1, <3>2, SubSeqProperties
    <3> QED
      BY <2>1, <3>3
  <2>5. f[k] = NodesInserted(reg, c, pos, last(k)) /\ f[k - 1] = NodesInserted(reg, c, pos, last(k - 1))
    BY <2>1
  <2> HIDE DEF last, m, f
  <2> QED
    BY <2>2, <2>3, <2>4, <2>5, InsertedBefore
<1> HIDE DEF Step, last
<1>5. f = [k \in 0 .. m |-> IF k = 0 THEN reg ELSE Step(f[k - 1], k)]
  <2>1. \A k \in 0 .. m : k = 0 \/ k \in 1 .. m
    BY <1>1
  <2>2. f = [k \in 0 .. m |-> f[k]]
    OBVIOUS
  <2> HIDE DEF f, m
  <2>3. \A k \in 0 .. m : f[k] = IF k = 0 THEN reg ELSE Step(f[k - 1], k)
    BY <1>3, <1>4, <2>1
  <2> QED
    BY <2>2, <2>3
<1> DEFINE after[k \in 0 .. m] == IF k = 0 THEN reg ELSE Step(after[k - 1], k)
<1>6. after = [k \in 0 .. m |-> IF k = 0 THEN reg ELSE Step(after[k - 1], k)]
  <2> HIDE DEF f, m
  <2> QED
    BY <1>5
<1>7. PasteLoop(reg, c, pos, ns) = after[m]
  BY DEF PasteLoop, Step
<1> HIDE DEF after, f
<1>8. after[m] = f[m]
  <2> HIDE DEF m
  <2>1. 0 \in 0 .. m /\ m \in 0 .. m /\ \A k \in 1 .. m : k \in 0 .. m /\ k # 0
    BY <1>1
  <2>2. after[0] = f[0]
    BY <1>3, <1>6, <2>1
  <2>3. \A k \in 1 .. m : after[k - 1] = f[k - 1] => after[k] = f[k]
    BY <1>4, <1>6, <2>1
  <2> DEFINE S == {k \in 0 .. m : after[k] = f[k]}
  <2>4. 0 \in S /\ \A k \in 1 .. m : k - 1 \in S => k \in S
    BY <2>1, <2>2, <2>3
  <2> HIDE DEF S
  <2>5. \A k \in 0 .. m : k \in S
    BY <1>1, <2>4, UpTo
  <2> QED
    BY <2>1, <2>5 DEF S
<1> QED
  BY <1>3, <1>7, <1>8

-----------------------------------------------------------------------------
(* The removal of several classes.                                         *)

\* What a kind becomes when some classes are gone, and its class's registry.
Freed(reg, gone, k) ==
    IF k.tag = "class_ptr" /\ k.arg \in gone THEN [k EXCEPT !.tag = "pointer", !.arg = 0]
    ELSE IF k.tag = "instance" /\ k.arg \in gone
    THEN [k EXCEPT !.tag = "unknown", !.arg = SizeOf(reg, k.arg)]
    ELSE k

FreedNodes(reg, gone, c) ==
    IF c \in gone THEN <<>>
    ELSE [i \in DOMAIN reg.nodes[c] |->
             [reg.nodes[c][i] EXCEPT !.kind = Freed(reg, gone, @)]]

WithoutThose(reg, gone) ==
    [live    |-> reg.live \ gone,
     nodes   |-> [c \in Ids |-> FreedNodes(reg, gone, c)],
     name    |-> [c \in Ids |-> IF c \in gone THEN NoLabel ELSE reg.name[c]],
     next_id |-> reg.next_id,
     ptr     |-> reg.ptr]

\* A kind frees one class after the other.
LEMMA FreedMore ==
    ASSUME NEW reg, NEW gone, NEW id, id \notin gone, NEW k \in Kind
    PROVE  /\ Freed(reg, gone \cup {id}, k) = DropClassRef(Freed(reg, gone, k), id, SizeOf(reg, id))
           /\ Freed(reg, {}, k) = k
<1> DEFINE size == SizeOf(reg, k.arg)
           new == Freed(reg, gone, k)
<1>1. Freed(reg, {}, k) = k
  BY DEF Freed
<1>2. CASE k.tag = "class_ptr" /\ k.arg \in gone
  <2>1. new = [k EXCEPT !.tag = "pointer", !.arg = 0]
    BY <1>2 DEF Freed
  <2>2. new.tag = "pointer"
    BY <2>1 DEF Kind
  <2>3. Freed(reg, gone \cup {id}, k) = new
    BY <1>2, <2>1 DEF Freed
  <2> HIDE DEF new
  <2> QED
    BY <1>1, <2>2, <2>3 DEF DropClassRef, new
<1>3. CASE k.tag = "instance" /\ k.arg \in gone
  <2> HIDE DEF size
  <2>1. new = [k EXCEPT !.tag = "unknown", !.arg = size]
    BY <1>3 DEF Freed, size
  <2>2. new.tag = "unknown"
    BY <2>1 DEF Kind
  <2>3. Freed(reg, gone \cup {id}, k) = new
    BY <1>3, <2>1 DEF Freed, size
  <2> HIDE DEF new
  <2> QED
    BY <1>1, <2>2, <2>3 DEF DropClassRef, new
<1>4. CASE ~(k.tag \in {"class_ptr", "instance"} /\ k.arg \in gone)
  <2>1. new = k
    BY <1>4 DEF Freed
  <2> HIDE DEF new
  <2>2. DropClassRef(k, id, SizeOf(reg, id)) = Freed(reg, gone \cup {id}, k)
    BY <1>4 DEF DropClassRef, Freed
  <2> QED
    BY <1>1, <2>1, <2>2 DEF new
<1> QED
  BY <1>2, <1>3, <1>4

LEMMA WithoutNoClass ==
    ASSUME NEW reg \in RegistryType
    PROVE  WithoutThose(reg, {}) = reg
<1>1. ASSUME NEW c \in Ids PROVE FreedNodes(reg, {}, c) = reg.nodes[c]
  <2> DEFINE ns == reg.nodes[c]
  <2>1. ASSUME NEW i \in DOMAIN ns PROVE [ns[i] EXCEPT !.kind = Freed(reg, {}, @)] = ns[i]
    <3>1. ns[i] \in Node /\ ns[i].kind \in Kind
      BY NodeList
    <3>2. Freed(reg, {}, ns[i].kind) = ns[i].kind
      BY DEF Freed
    <3> HIDE DEF ns
    <3> QED
      BY <3>1, <3>2 DEF Node
  <2>2. FreedNodes(reg, {}, c) = [i \in DOMAIN ns |-> [ns[i] EXCEPT !.kind = Freed(reg, {}, @)]]
    BY DEF FreedNodes
  <2>3. ns = [i \in DOMAIN ns |-> ns[i]]
    BY NodeList, LenProperties
  <2> HIDE DEF ns
  <2>4. FreedNodes(reg, {}, c) = ns
    BY <2>1, <2>2, <2>3
  <2> QED
    BY <2>4 DEF ns
<1>2. [c \in Ids |-> FreedNodes(reg, {}, c)] = reg.nodes
  BY <1>1 DEF RegistryType
<1>3. [c \in Ids |-> IF c \in {} THEN NoLabel ELSE reg.name[c]] = reg.name
  BY DEF RegistryType
<1> QED
  BY <1>2, <1>3 DEF WithoutThose, RegistryType

LEMMA WithoutOneMore ==
    ASSUME NEW reg \in RegistryType, NEW gone \in SUBSET reg.live, NEW id \in reg.live \ gone,
           SizeOf(WithoutThose(reg, gone), id) = SizeOf(reg, id)
    PROVE  ClassRemoved(WithoutThose(reg, gone), id) = WithoutThose(reg, gone \cup {id})
<1> DEFINE mid  == WithoutThose(reg, gone)
           more == gone \cup {id}
           size == SizeOf(reg, id)
           Cut(ns) == [i \in DOMAIN ns |-> [ns[i] EXCEPT !.kind = DropClassRef(@, id, size)]]
<1>1. /\ mid.live = reg.live \ gone /\ mid.next_id = reg.next_id /\ mid.ptr = reg.ptr
      /\ mid.name = [c \in Ids |-> IF c \in gone THEN NoLabel ELSE reg.name[c]]
      /\ mid.nodes = [c \in Ids |-> FreedNodes(reg, gone, c)]
  BY DEF WithoutThose
<1>2. ClassRemoved(mid, id) = ClassDropped(mid, id, size)
  <2>1. SizeOf(mid, id) = size
    OBVIOUS
  <2> HIDE DEF mid, size
  <2> QED
    BY <2>1 DEF ClassRemoved
<1> HIDE DEF size
<1>3. ASSUME NEW c \in Ids
      PROVE  (IF c = id THEN <<>> ELSE Cut(FreedNodes(reg, gone, c))) = FreedNodes(reg, more, c)
  <2>1. CASE c = id
    BY <2>1 DEF FreedNodes
  <2>2. CASE c # id /\ c \in gone
    BY <2>2 DEF FreedNodes
  <2>3. CASE c # id /\ c \notin gone
    <3> DEFINE ns == reg.nodes[c]
               old == FreedNodes(reg, gone, c)
               new == FreedNodes(reg, more, c)
    <3>1. /\ old = [i \in DOMAIN ns |-> [ns[i] EXCEPT !.kind = Freed(reg, gone, @)]]
          /\ new = [i \in DOMAIN ns |-> [ns[i] EXCEPT !.kind = Freed(reg, more, @)]]
      BY <2>3 DEF FreedNodes
    <3> HIDE DEF old, new
    <3>2. ASSUME NEW i \in DOMAIN ns
          PROVE  [old[i] EXCEPT !.kind = DropClassRef(@, id, size)] = new[i]
      <4> DEFINE k == ns[i].kind
      <4>1. ns[i] \in Node /\ k \in Kind
        BY NodeList
      <4>2. Freed(reg, more, k) = DropClassRef(Freed(reg, gone, k), id, size)
        BY <4>1, FreedMore DEF size
      <4>3. /\ old[i] = [ns[i] EXCEPT !.kind = Freed(reg, gone, k)]
            /\ new[i] = [ns[i] EXCEPT !.kind = Freed(reg, more, k)]
        BY <3>1
      <4> HIDE DEF ns, k, more
      <4> QED
        BY <4>1, <4>2, <4>3 DEF Node
    <3>3. DOMAIN old = DOMAIN ns /\ DOMAIN new = DOMAIN ns /\ new = [i \in DOMAIN ns |-> new[i]]
      BY <3>1
    <3> HIDE DEF ns
    <3>4. Cut(old) = new
      BY <3>2, <3>3
    <3> QED
      BY <2>3, <3>4 DEF old, new
  <2> QED
    BY <2>1, <2>2, <2>3
<1> HIDE DEF Cut
<1>4. ClassDropped(mid, id, size) =
          [mid EXCEPT !.live = @ \ {id},
                      !.nodes = [c \in Ids |-> IF c = id THEN <<>> ELSE Cut(@[c])],
                      !.name[id] = NoLabel]
  <2> HIDE DEF mid
  <2> QED
    BY <1>1 DEF ClassDropped, Cut
<1>5. [c \in Ids |-> IF c = id THEN <<>> ELSE Cut(mid.nodes[c])]
      = [c \in Ids |-> FreedNodes(reg, more, c)]
  <2> HIDE DEF mid
  <2> QED
    BY <1>1, <1>3
<1>6. [mid.name EXCEPT ![id] = NoLabel]
      = [c \in Ids |-> IF c \in more THEN NoLabel ELSE reg.name[c]]
  <2> HIDE DEF mid
  <2> QED
    BY <1>1
<1>7. mid.live \ {id} = reg.live \ more
  <2> HIDE DEF mid
  <2> QED
    BY <1>1
<1> DEFINE nodes == [c \in Ids |-> IF c = id THEN <<>> ELSE Cut(mid.nodes[c])]
<1>8. ClassDropped(mid, id, size) =
          [live |-> mid.live \ {id}, nodes |-> nodes, name |-> [mid.name EXCEPT ![id] = NoLabel],
           next_id |-> mid.next_id, ptr |-> mid.ptr]
  BY <1>4 DEF WithoutThose
<1> HIDE DEF mid, more
<1>9. ClassDropped(mid, id, size) = WithoutThose(reg, more)
  BY <1>1, <1>5, <1>6, <1>7, <1>8 DEF WithoutThose
<1> QED
  BY <1>2, <1>9 DEF mid, more

\* An order of a set names each of its elements once.
LEMMA OrderType ==
    ASSUME NEW gone, IsFiniteSet(gone), NEW order \in SetToSeqs(gone)
    PROVE  /\ Len(order) \in Nat
           /\ DOMAIN order = 1 .. Len(order)
           /\ \A i \in 1 .. Len(order) : order[i] \in gone
           /\ \A i, j \in 1 .. Len(order) : order[i] = order[j] => i = j
           /\ {order[i] : i \in 1 .. Len(order)} = gone
<1> DEFINE n == Cardinality(gone)
           D == 1 .. n
<1>1. n \in Nat
  BY FS_CardinalityType
<1>2. order \in [D -> gone] /\ \A i, j \in D : i # j => order[i] # order[j]
  BY DEF SetToSeqs
<1> HIDE DEF n
<1>3. Len(order) = n
  BY <1>1, <1>2
<1>4. IsFiniteSet(D) /\ Cardinality(D) = n
  <2>1. Cardinality(1 .. n) = IF 1 > n THEN 0 ELSE n - 1 + 1
    BY <1>1, FS_Interval
  <2> QED
    BY <1>1, <2>1, FS_Interval
<1> HIDE DEF D
<1>5. order \in Surjection(D, gone)
  <2>1. order \in Injection(D, gone)
    BY <1>2 DEF Injection, IsInjective
  <2> QED
    BY <1>4, <2>1, FS_Injection DEF n
<1>6. {order[i] : i \in D} = gone
  BY <1>2, <1>5 DEF Surjection
<1> QED
  BY <1>1, <1>2, <1>3, <1>6 DEF D

\* Classes removed one after the other: what is left depends on which they
\* are, and not on the order.
THEOREM RemovedAnyOrder ==
    ASSUME NEW reg \in RegistryType, Acyclic(reg), NEW gone \in SUBSET reg.live,
           NEW order \in SetToSeqs(gone)
    PROVE  RemoveLoop(reg, order) = WithoutThose(reg, gone)
<1> DEFINE n == Len(order)
           G(k) == {order[i] : i \in 1 .. k}
           f == [k \in 0 .. n |-> WithoutThose(reg, G(k))]
           Same(r, k) == \A c \in Ids \ G(k) : SizeOf(r, c) = SizeOf(reg, c)
<1>1. /\ n \in Nat
      /\ \A i \in 1 .. n : order[i] \in gone
      /\ \A i, j \in 1 .. n : order[i] = order[j] => i = j
      /\ G(n) = gone
      /\ IsFiniteSet(gone)
  <2>1. IsFiniteSet(gone)
    <3>1. IsFiniteSet(0 .. MaxId - 1)
      BY RegistryAssumption, FS_Interval
    <3>2. gone \in SUBSET Ids
      BY DEF RegistryType
    <3> QED
      BY <3>1, <3>2, FS_Subset DEF Ids
  <2> QED
    BY <2>1, OrderType
<1>2. G(0) = {}
  OBVIOUS
<1>3. ASSUME NEW k \in 1 .. n
      PROVE  /\ G(k - 1) \in SUBSET reg.live
             /\ order[k] \in reg.live \ G(k - 1)
             /\ G(k) = G(k - 1) \cup {order[k]}
  <2>1. \A i \in 1 .. k - 1 : i \in 1 .. n /\ i # k
    BY <1>1
  <2>2. \A i : i \in 1 .. k <=> i \in 1 .. k - 1 \/ i = k
    BY <1>1
  <2> HIDE DEF n
  <2>3. G(k - 1) \in SUBSET reg.live /\ order[k] \in reg.live /\ order[k] \notin G(k - 1)
    BY <1>1, <2>1
  <2>4. G(k) = G(k - 1) \cup {order[k]}
    BY <2>2
  <2> HIDE DEF G
  <2> QED
    BY <2>3, <2>4
<1> HIDE DEF G, n
<1>4. f[0] = reg /\ f[n] = WithoutThose(reg, gone)
  <2>1. 0 \in 0 .. n /\ n \in 0 .. n
    BY <1>1
  <2> QED
    BY <1>1, <1>2, <2>1, WithoutNoClass
<1>5. ASSUME NEW k \in 1 .. n,
             f[k - 1] \in RegistryType, Acyclic(f[k - 1]), Same(f[k - 1], k - 1)
      PROVE  /\ f[k] = ClassRemoved(f[k - 1], order[k])
             /\ f[k] \in RegistryType /\ Acyclic(f[k]) /\ Same(f[k], k)
  <2> DEFINE id == order[k]
             last == f[k - 1]
             before == G(k - 1)
  <2>1. /\ f[k] = WithoutThose(reg, G(k)) /\ last = WithoutThose(reg, before)
        /\ id \in Ids
    <3>1. k \in 0 .. n /\ k - 1 \in 0 .. n
      BY <1>1
    <3> QED
      BY <1>3, <3>1 DEF RegistryType
  <2>2. before \in SUBSET reg.live /\ id \in reg.live \ before /\ G(k) = before \cup {id}
    BY <1>3
  <2>3. SizeOf(last, id) = SizeOf(reg, id)
    BY <1>5, <2>1, <2>2
  <2> HIDE DEF id, before, f
  <2>4. ClassRemoved(last, id) = WithoutThose(reg, before \cup {id})
    BY <2>1, <2>2, <2>3, WithoutOneMore
  <2>5. id \in last.live
    BY <2>1, <2>2 DEF WithoutThose
  <2> HIDE DEF last
  <2>6. last \in RegistryType /\ Acyclic(last)
    BY <1>5 DEF last
  <2>7. f[k] = ClassRemoved(last, id)
    BY <2>1, <2>2, <2>4
  <2>8. f[k] \in RegistryType /\ Acyclic(f[k])
    BY <2>1, <2>6, <2>7, ClassRemovedType, ClassRemovedAcyclic
  <2>9. Same(f[k], k)
    <3> SUFFICES ASSUME NEW c \in Ids \ G(k) PROVE SizeOf(f[k], c) = SizeOf(reg, c)
      OBVIOUS
    <3>1. c \in Ids \ {id} /\ c \in Ids \ before
      BY <2>2
    <3>2. SizesBelow(ClassRemoved(last, id), {})[c] = SizesBelow(last, {})[c]
      BY <2>5, <2>6, <3>1, RemovedSizes
    <3>3. SizeOf(ClassRemoved(last, id), c) = SizeOf(last, c)
      BY <3>2 DEF SizeOf
    <3>4. SizeOf(last, c) = SizeOf(reg, c)
      BY <1>5, <3>1 DEF last, before
    <3> QED
      BY <2>7, <3>3, <3>4
  <2> QED
    BY <2>7, <2>8, <2>9 DEF last, id
<1> HIDE DEF f
<1>6. ASSUME NEW k \in 1 .. n PROVE f[k] = ClassRemoved(f[k - 1], order[k])
  <2> DEFINE S == {j \in 0 .. n : f[j] \in RegistryType /\ Acyclic(f[j]) /\ Same(f[j], j)}
  <2>1. 0 \in S
    <3>1. 0 \in 0 .. n
      BY <1>1
    <3>2. Same(f[0], 0)
      BY <1>4
    <3> HIDE DEF Same
    <3> QED
      BY <1>4, <3>1, <3>2
  <2>2. ASSUME NEW j \in 1 .. n, j - 1 \in S PROVE j \in S
    <3>1. j \in 0 .. n
      BY <1>1
    <3> HIDE DEF Same
    <3> QED
      BY <1>5, <2>2, <3>1
  <2>3. \A j \in 1 .. n : j - 1 \in S => j \in S
    BY <2>2
  <2> HIDE DEF S
  <2>4. \A j \in 0 .. n : j \in S
    BY <1>1, <2>1, <2>3, UpTo
  <2>5. k - 1 \in S
    BY <1>1, <2>4
  <2> HIDE DEF Same
  <2> QED
    BY <1>5, <2>5 DEF S
<1>7. f = [k \in 0 .. n |-> IF k = 0 THEN reg ELSE ClassRemoved(f[k - 1], order[k])]
  <2>1. \A k \in 0 .. n : k = 0 \/ k \in 1 .. n
    BY <1>1
  <2>2. f = [k \in 0 .. n |-> f[k]]
    BY DEF f
  <2>3. \A k \in 0 .. n : f[k] = IF k = 0 THEN reg ELSE ClassRemoved(f[k - 1], order[k])
    BY <1>4, <1>6, <2>1
  <2> QED
    BY <2>2, <2>3
<1> DEFINE after[k \in 0 .. n] == IF k = 0 THEN reg ELSE ClassRemoved(after[k - 1], order[k])
<1>8. after = [k \in 0 .. n |-> IF k = 0 THEN reg ELSE ClassRemoved(after[k - 1], order[k])]
  BY <1>7
<1>9. RemoveLoop(reg, order) = after[n]
  BY DEF RemoveLoop, n
<1> HIDE DEF after
<1>10. after[n] = f[n]
  <2>1. 0 \in 0 .. n /\ n \in 0 .. n /\ \A k \in 1 .. n : k \in 0 .. n /\ k # 0
    BY <1>1
  <2>2. after[0] = f[0]
    BY <1>4, <1>8, <2>1
  <2>3. \A k \in 1 .. n : after[k - 1] = f[k - 1] => after[k] = f[k]
    BY <1>6, <1>8, <2>1
  <2> DEFINE U == {k \in 0 .. n : after[k] = f[k]}
  <2>4. 0 \in U /\ \A k \in 1 .. n : k - 1 \in U => k \in U
    BY <2>1, <2>2, <2>3
  <2> HIDE DEF U
  <2>5. \A k \in 0 .. n : k \in U
    BY <1>1, <2>4, UpTo
  <2> QED
    BY <2>1, <2>5 DEF U
<1> QED
  BY <1>4, <1>9, <1>10
=============================================================================
