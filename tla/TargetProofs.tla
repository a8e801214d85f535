---------------------------- MODULE TargetProofs ----------------------------
(***************************************************************************)
(* What reclass does to a process that runs on, for every process: what a  *)
(* snapshot shows of its memory, what a watch leaves of it, and what is    *)
(* written to it for a value that is typed.                                *)
(***************************************************************************)
EXTENDS RowSearch, Tracker, NodeValue, FiniteSetTheorems, SequenceTheorems, TLAPS

-----------------------------------------------------------------------------
(* Induction, and functions that are defined along a relation.             *)

\* A set of natural numbers has a least one.
LEMMA LeastNatural ==
    ASSUME NEW T \in SUBSET Nat, T # {}
    PROVE  \E x \in T : \A y \in T : x <= y
<1>1. \E x \in T : \A y \in T : ~(<<y, x>> \in OpToRel(<, Nat))
  BY NatLessThanWellFounded, WFMin
<1>2. \A x, y \in Nat : ~(<<y, x>> \in OpToRel(<, Nat)) => x <= y
  BY DEF OpToRel
<1> QED
  BY <1>1, <1>2

\* What holds of 0 and passes on to the next up to n holds of all up to n.
LEMMA UpTo ==
    ASSUME NEW n \in Nat, NEW S, 0 \in S, \A i \in 1 .. n : i - 1 \in S => i \in S
    PROVE  \A i \in 0 .. n : i \in S
<1> DEFINE T == {i \in 0 .. n : i \notin S}
<1> SUFFICES ASSUME T # {} PROVE FALSE
  OBVIOUS
<1>1. PICK m \in T : \A y \in T : m <= y
  <2>1. T \in SUBSET Nat
    OBVIOUS
  <2> QED
    BY <2>1, LeastNatural
<1>2. m \in 1 .. n /\ m - 1 \in 0 .. n /\ ~(m <= m - 1)
  BY <1>1
<1> QED
  BY <1>1, <1>2

\* A relation down which one can go only so far: what a place depends on.
Grounded(P, under) ==
    /\ under \in [P -> SUBSET P]
    /\ \A T \in SUBSET P : T # {} => \E p \in T : under[p] \cap T = {}

\* A definition of which the value at a place depends only on those under it.
Local(P, X, under, G) ==
    /\ G \in [[P -> X] -> [P -> X]]
    /\ \A F, H \in [P -> X], p \in P :
           (\A q \in under[p] : F[q] = H[q]) => G[F][p] = G[H][p]

\* A set that holds a place whenever it holds those under it holds all.
LEMMA GroundUp ==
    ASSUME NEW P, NEW under, Grounded(P, under), NEW S,
           \A p \in P : (\A q \in under[p] : q \in S) => p \in S
    PROVE  P \subseteq S
<1> DEFINE T == {p \in P : p \notin S}
<1> SUFFICES ASSUME T # {} PROVE FALSE
  OBVIOUS
<1>1. PICK p \in T : under[p] \cap T = {}
  BY DEF Grounded
<1>2. under[p] \in SUBSET P
  BY DEF Grounded
<1> QED
  BY <1>1, <1>2

\* Such a definition defines a function.
HasFixpoint(P, X, G) == \E F \in [P -> X] : F = G[F]

LEMMA Defined ==
    ASSUME NEW P, NEW X, NEW under, NEW G, X # {},
           Grounded(P, under), Local(P, X, under, G)
    PROVE  HasFixpoint(P, X, G)
<1> PICK a \in X : TRUE
  OBVIOUS
<1> DEFINE Y == [P -> X]
           Whole(A, F) == /\ \A p \in A : under[p] \subseteq A
                          /\ \A p \in A : F[p] = G[F][p]
           parts == {pr \in (SUBSET P) \X Y : Whole(pr[1], pr[2])}
           C == {p \in P : \E pr \in parts : p \in pr[1]}
           of(p) == CHOOSE pr \in parts : p \in pr[1]
           U == [p \in P |-> IF p \in C THEN of(p)[2][p] ELSE a]
<1>0. /\ \A p \in P : under[p] \subseteq P
      /\ \A F \in Y : G[F] \in Y
      /\ \A F, H \in Y, p \in P :
             (\A q \in under[p] : F[q] = H[q]) => G[F][p] = G[H][p]
  BY DEF Grounded, Local
<1>1. ASSUME NEW pr \in parts, NEW qr \in parts
      PROVE  \A p \in pr[1] \cap qr[1] : pr[2][p] = qr[2][p]
  <2> DEFINE T == {p \in pr[1] \cap qr[1] : pr[2][p] # qr[2][p]}
  <2> SUFFICES ASSUME T # {} PROVE FALSE
    OBVIOUS
  <2>1. T \in SUBSET P
    OBVIOUS
  <2>2. PICK p \in T : under[p] \cap T = {}
    BY <2>1 DEF Grounded
  <2>3. under[p] \subseteq pr[1] /\ under[p] \subseteq qr[1]
    OBVIOUS
  <2>4. \A q \in under[p] : pr[2][q] = qr[2][q]
    BY <2>2, <2>3
  <2>5. G[pr[2]][p] = G[qr[2]][p]
    BY <1>0, <2>1, <2>4
  <2> QED
    BY <2>5
<1>2. U \in Y
  <2>1. ASSUME NEW p \in C PROVE of(p)[2][p] \in X
    OBVIOUS
  <2> HIDE DEF C, of
  <2> QED
    BY <2>1
<1>3. ASSUME NEW pr \in parts, NEW p \in pr[1]
      PROVE  p \in C /\ U[p] = pr[2][p]
  <2>1. p \in P /\ p \in C
    OBVIOUS
  <2>2. of(p) \in parts /\ p \in of(p)[1]
    BY <2>1
  <2>3. of(p)[2][p] = pr[2][p]
    BY <1>1, <2>2
  <2> HIDE DEF parts, C, of
  <2> QED
    BY <2>1, <2>3
<1>4. ASSUME NEW p \in C
      PROVE  /\ under[p] \subseteq C
             /\ U[p] = G[U][p]
  <2>1. PICK pr \in parts : p \in pr[1]
    OBVIOUS
  <2>2. pr[2] \in Y /\ under[p] \subseteq pr[1] /\ pr[2][p] = G[pr[2]][p] /\ p \in P
    BY <2>1
  <2> HIDE DEF parts, C, U, Y
  <2>3. under[p] \subseteq C /\ \A q \in under[p] : U[q] = pr[2][q]
    BY <1>3, <2>2
  <2>4. G[U][p] = G[pr[2]][p]
    BY <1>0, <1>2, <2>2, <2>3
  <2> QED
    BY <1>3, <2>1, <2>2, <2>3, <2>4
<1>5. C = P
  <2> SUFFICES ASSUME P \ C # {} PROVE FALSE
    OBVIOUS
  <2>1. PICK p \in P \ C : under[p] \cap (P \ C) = {}
    BY DEF Grounded
  <2> DEFINE A == C \cup {p}
             H == [x \in P |-> IF x = p THEN G[U][p] ELSE U[x]]
  <2>2. under[p] \subseteq C
    BY <1>0, <2>1
  <2>3. H \in Y /\ G[U] \in Y
    <3>1. G[U] \in Y
      BY <1>0, <1>2
    <3> HIDE DEF U, C
    <3> QED
      BY <1>2, <3>1
  <2> HIDE DEF C, U, of, parts, Y
  <2>4. A \in SUBSET P /\ p \in P /\ p \notin C /\ C \subseteq P
    BY <2>1 DEF C
  <2>5. \A x \in C : H[x] = U[x]
    BY <2>4
  <2>6. H[p] = G[U][p]
    BY <2>4
  <2> HIDE DEF H
  <2>7. ASSUME NEW x \in A PROVE under[x] \subseteq A /\ H[x] = G[H][x]
    <3>1. under[x] \subseteq C
      BY <1>4, <2>2
    <3>2. G[H][x] = G[U][x]
      BY <1>0, <1>2, <2>3, <2>4, <2>5, <3>1
    <3>3. H[x] = G[U][x]
      BY <1>4, <2>5, <2>6
    <3> QED
      BY <3>1, <3>2, <3>3
  <2>8. <<A, H>> \in parts
    BY <2>3, <2>4, <2>7 DEF parts
  <2> QED
    BY <1>3, <2>1, <2>8
<1> HIDE DEF U, C, of, parts
<1>6. \A p \in P : U[p] = G[U][p]
  BY <1>4, <1>5
<1>7. U = G[U]
  BY <1>0, <1>2, <1>6
<1> QED
  BY <1>2, <1>7 DEF HasFixpoint

-----------------------------------------------------------------------------
(* Sums, and sequences one after the other.                                *)

\* The chain of values of a recursion along 0 .. n, whatever its steps are.
LEMMA SumSteps ==
    ASSUME NEW n \in Nat, NEW s, \A i \in 1 .. n : s[i] \in Nat
    PROVE  \E f \in [0 .. n -> Nat] :
               f[0] = 0 /\ f[n] = Sum(n, s) /\ \A i \in 1 .. n : f[i] = f[i - 1] + s[i]
<1> DEFINE P     == 0 .. n
           under == [i \in P |-> IF i = 0 THEN {} ELSE {i - 1}]
           G     == [F \in [P -> Nat] |->
                        [i \in P |-> IF i = 0 THEN 0 ELSE F[i - 1] + s[i]]]
<1>1. \A i \in P : i # 0 => i \in 1 .. n /\ i - 1 \in P
  OBVIOUS
<1>2. Grounded(P, under)
  <2>1. under \in [P -> SUBSET P]
    BY <1>1
  <2>2. ASSUME NEW T \in SUBSET P, T # {} PROVE \E p \in T : under[p] \cap T = {}
    <3>1. PICK p \in T : \A y \in T : p <= y
      BY <2>2, LeastNatural
    <3>2. p \in P /\ ~(p <= p - 1)
      OBVIOUS
    <3> QED
      BY <3>1, <3>2
  <2> QED
    BY <2>1, <2>2 DEF Grounded
<1>3. Local(P, Nat, under, G)
  <2>1. ASSUME NEW F \in [P -> Nat], NEW i \in P
        PROVE  (IF i = 0 THEN 0 ELSE F[i - 1] + s[i]) \in Nat
    BY <1>1
  <2>2. G \in [[P -> Nat] -> [P -> Nat]]
    BY <2>1
  <2>3. \A F, H \in [P -> Nat], p \in P :
            (\A q \in under[p] : F[q] = H[q]) => G[F][p] = G[H][p]
    OBVIOUS
  <2> QED
    BY <2>2, <2>3 DEF Local
<1>4. PICK f \in [P -> Nat] : f = G[f]
  <2> HIDE DEF P, under, G
  <2> QED
    BY <1>2, <1>3, Defined DEF HasFixpoint
<1> DEFINE upto[i \in 0 .. n] == IF i = 0 THEN 0 ELSE upto[i - 1] + s[i]
<1>5. f = [i \in 0 .. n |-> IF i = 0 THEN 0 ELSE f[i - 1] + s[i]]
  BY <1>4
<1>6. upto = [i \in 0 .. n |-> IF i = 0 THEN 0 ELSE upto[i - 1] + s[i]]
  BY <1>5
<1>7. Sum(n, s) = upto[n]
  BY DEF Sum
<1> HIDE DEF upto
<1>8. \A i \in P : upto[i] = IF i = 0 THEN 0 ELSE upto[i - 1] + s[i]
  BY <1>6
<1>9. \A i \in P : upto[i] = f[i]
  <2> DEFINE S == {i \in P : upto[i] = f[i]}
  <2>1. 0 \in S
    BY <1>5, <1>8
  <2>2. \A i \in 1 .. n : i - 1 \in S => i \in S
    BY <1>5, <1>8
  <2> HIDE DEF S
  <2>3. \A i \in 0 .. n : i \in S
    BY <2>1, <2>2, UpTo
  <2> QED
    BY <2>3 DEF S
<1>10. f[n] = Sum(n, s) /\ f[0] = 0
  BY <1>5, <1>7, <1>9
<1>11. \A i \in 1 .. n : f[i] = f[i - 1] + s[i]
  BY <1>5
<1> QED
  BY <1>10, <1>11

\* A sum of natural numbers is one, and without size only if each is.
LEMMA Sums ==
    ASSUME NEW n \in Nat, NEW s, \A i \in 1 .. n : s[i] \in Nat
    PROVE  /\ Sum(n, s) \in Nat
           /\ Sum(n, s) = 0 => \A i \in 1 .. n : s[i] = 0
<1>1. PICK f \in [0 .. n -> Nat] :
          f[0] = 0 /\ f[n] = Sum(n, s) /\ \A i \in 1 .. n : f[i] = f[i - 1] + s[i]
  BY SumSteps
<1> DEFINE S == {k \in 0 .. n : \A i \in 1 .. n : i <= k => s[i] <= f[k]}
<1>2. 0 \in S
  OBVIOUS
<1>3. ASSUME NEW k \in 1 .. n, k - 1 \in S PROVE k \in S
  <2>1. f[k - 1] \in Nat /\ f[k] = f[k - 1] + s[k] /\ s[k] \in Nat
    BY <1>1
  <2>2. ASSUME NEW i \in 1 .. n, i <= k PROVE s[i] <= f[k]
    <3>1. CASE i = k
      BY <2>1, <3>1
    <3>2. CASE i # k
      <4>1. i <= k - 1
        BY <2>2, <3>2
      <4>2. s[i] <= f[k - 1] /\ s[i] \in Nat
        BY <1>3, <4>1
      <4> QED
        BY <2>1, <4>2
    <3> QED
      BY <3>1, <3>2
  <2> QED
    BY <2>2
<1>4. n \in S
  <2> HIDE DEF S
  <2>1. \A i \in 0 .. n : i \in S
    BY <1>2, <1>3, UpTo
  <2> QED
    BY <2>1
<1> QED
  BY <1>1, <1>4

\* How sequences are put one after the other.
Chain(f, n, ss) ==
    /\ f[0] = <<>>
    /\ f[n] = Concat(n, ss)
    /\ \A i \in 1 .. n : f[i] = f[i - 1] \o ss[i]

LEMMA ConcatSteps ==
    ASSUME NEW n \in Nat, NEW X, NEW ss, \A i \in 1 .. n : ss[i] \in Seq(X)
    PROVE  \E f \in [0 .. n -> Seq(X)] : Chain(f, n, ss)
<1> DEFINE P     == 0 .. n
           Y     == Seq(X)
           under == [i \in P |-> IF i = 0 THEN {} ELSE {i - 1}]
           G     == [F \in [P -> Y] |->
                        [i \in P |-> IF i = 0 THEN <<>> ELSE F[i - 1] \o ss[i]]]
<1>1. \A i \in P : i # 0 => i \in 1 .. n /\ i - 1 \in P
  OBVIOUS
<1>2. Grounded(P, under)
  <2>1. under \in [P -> SUBSET P]
    BY <1>1
  <2>2. ASSUME NEW T \in SUBSET P, T # {} PROVE \E p \in T : under[p] \cap T = {}
    <3>1. PICK p \in T : \A y \in T : p <= y
      BY <2>2, LeastNatural
    <3>2. p \in P /\ ~(p <= p - 1)
      OBVIOUS
    <3> QED
      BY <3>1, <3>2
  <2> QED
    BY <2>1, <2>2 DEF Grounded
<1>3. <<>> \in Y
  OBVIOUS
<1>4. Local(P, Y, under, G)
  <2>1. ASSUME NEW F \in [P -> Y], NEW i \in P
        PROVE  (IF i = 0 THEN <<>> ELSE F[i - 1] \o ss[i]) \in Y
    <3>1. CASE i = 0
      BY <1>3, <3>1
    <3>2. CASE i # 0
      <4>1. F[i - 1] \in Seq(X) /\ ss[i] \in Seq(X)
        BY <1>1, <3>2
      <4>2. F[i - 1] \o ss[i] \in Seq(X)
        BY <4>1
      <4> QED
        BY <3>2, <4>2
    <3> QED
      BY <3>1, <3>2
  <2> HIDE DEF Y
  <2>2. G \in [[P -> Y] -> [P -> Y]]
    BY <2>1
  <2>3. \A F, H \in [P -> Y], p \in P :
            (\A q \in under[p] : F[q] = H[q]) => G[F][p] = G[H][p]
    OBVIOUS
  <2> QED
    BY <2>2, <2>3 DEF Local
<1>5. PICK f \in [P -> Y] : f = G[f]
  <2> HIDE DEF P, under, G, Y
  <2> QED
    BY <1>2, <1>3, <1>4, Defined DEF HasFixpoint
<1> DEFINE upto[i \in 0 .. n] == IF i = 0 THEN <<>> ELSE upto[i - 1] \o ss[i]
<1>6. f = [i \in 0 .. n |-> IF i = 0 THEN <<>> ELSE f[i - 1] \o ss[i]]
  BY <1>5
<1>7. upto = [i \in 0 .. n |-> IF i = 0 THEN <<>> ELSE upto[i - 1] \o ss[i]]
  BY <1>6
<1>8. Concat(n, ss) = upto[n]
  BY DEF Concat
<1> HIDE DEF upto, Y
<1>9. \A i \in P : upto[i] = IF i = 0 THEN <<>> ELSE upto[i - 1] \o ss[i]
  BY <1>7
<1>10. \A i \in P : upto[i] = f[i]
  <2> DEFINE S == {i \in P : upto[i] = f[i]}
  <2>1. 0 \in S
    BY <1>6, <1>9
  <2>2. ASSUME NEW i \in 1 .. n, i - 1 \in S PROVE i \in S
    <3>1. i \in P /\ i # 0
      OBVIOUS
    <3>2. upto[i] = upto[i - 1] \o ss[i] /\ f[i] = f[i - 1] \o ss[i]
      BY ONLY <1>6, <1>9, <3>1, Zenon
    <3> QED
      BY <2>2, <3>1, <3>2
  <2> HIDE DEF S
  <2>3. \A i \in 0 .. n : i \in S
    BY <2>1, <2>2, UpTo
  <2> QED
    BY <2>3 DEF S
<1>11. f[n] = Concat(n, ss) /\ f[0] = <<>>
  BY <1>6, <1>8, <1>10
<1>12. ASSUME NEW i \in 1 .. n PROVE f[i] = f[i - 1] \o ss[i]
  <2>1. i \in 0 .. n /\ i # 0
    OBVIOUS
  <2> QED
    BY ONLY <1>6, <2>1, Zenon
<1>13. Chain(f, n, ss)
  BY <1>11, <1>12 DEF Chain
<1> QED
  BY <1>13 DEF Y

\* What is kept from one to the next when sequences are put one after the
\* other: S[i] holds what the first i may make.
LEMMA ConcatInduct ==
    ASSUME NEW n \in Nat, NEW X, NEW ss, \A i \in 1 .. n : ss[i] \in Seq(X),
           NEW S, <<>> \in S[0],
           \A i \in 1 .. n, s \in Seq(X) : s \in S[i - 1] => s \o ss[i] \in S[i]
    PROVE  Concat(n, ss) \in Seq(X) /\ Concat(n, ss) \in S[n]
<1>1. PICK f \in [0 .. n -> Seq(X)] : Chain(f, n, ss)
  BY ConcatSteps
<1>2. \A i \in 1 .. n : i - 1 \in 0 .. n
  OBVIOUS
<1>3. ASSUME NEW i \in 1 .. n, f[i - 1] \in S[i - 1]
      PROVE  f[i] \in S[i]
  <2>1. f[i - 1] \in Seq(X)
    BY <1>2
  <2>2. f[i] = f[i - 1] \o ss[i]
    BY <1>1 DEF Chain
  <2>3. f[i - 1] \o ss[i] \in S[i]
    BY <1>3, <2>1
  <2> QED
    BY <2>2, <2>3
<1>4. f[0] = <<>> /\ f[n] = Concat(n, ss)
  BY <1>1 DEF Chain
<1> DEFINE T == {i \in 0 .. n : f[i] \in S[i]}
<1>5. 0 \in T
  BY <1>4
<1>6. \A i \in 1 .. n : i - 1 \in T => i \in T
  <2>1. \A i \in 1 .. n : i \in 0 .. n
    OBVIOUS
  <2> QED
    BY ONLY <1>3, <2>1, Zenon
<1>7. n \in T
  <2> HIDE DEF T
  <2>1. \A i \in 0 .. n : i \in T
    BY <1>5, <1>6, UpTo
  <2> QED
    BY <2>1
<1>8. f[n] \in Seq(X)
  OBVIOUS
<1> QED
  BY <1>4, <1>7, <1>8

LEMMA ConcatType ==
    ASSUME NEW n \in Nat, NEW X, NEW ss, \A i \in 1 .. n : ss[i] \in Seq(X)
    PROVE  Concat(n, ss) \in Seq(X)
<1> DEFINE S == [i \in 0 .. n |-> Seq(X)]
<1>1. <<>> \in S[0]
  OBVIOUS
<1>2. ASSUME NEW i \in 1 .. n, NEW s \in Seq(X), s \in S[i - 1]
      PROVE  s \o ss[i] \in S[i]
  <2>1. s \o ss[i] \in Seq(X)
    OBVIOUS
  <2>2. S[i] = Seq(X)
    OBVIOUS
  <2> QED
    BY <2>1, <2>2
<1> HIDE DEF S
<1> QED
  BY <1>1, <1>2, ConcatInduct

\* Two sequences of one type, end to end.
LEMMA TwoSequences ==
    ASSUME NEW X, NEW s \in Seq(X), NEW t \in Seq(X)
    PROVE  /\ s \o t \in Seq(X)
           /\ Len(s) \in Nat /\ Len(t) \in Nat
           /\ Len(s \o t) = Len(s) + Len(t)
           /\ \A i \in 1 .. Len(s) : (s \o t)[i] = s[i]
           /\ \A i \in 1 .. Len(t) : (s \o t)[Len(s) + i] = t[i]
           /\ \A i \in 1 .. Len(s) + Len(t) : i \in 1 .. Len(s) \/ i - Len(s) \in 1 .. Len(t)
           /\ s = <<>> => s \o t = t
           /\ t = <<>> => s \o t = s
<1>1. Len(s) \in Nat /\ Len(t) \in Nat
  BY LenProperties
<1>2. /\ s \o t \in Seq(X) /\ Len(s \o t) = Len(s) + Len(t)
      /\ \A i \in 1 .. Len(s) + Len(t) :
             (s \o t)[i] = IF i <= Len(s) THEN s[i] ELSE t[i - Len(s)]
  BY ConcatProperties
<1>3. \A i \in 1 .. Len(s) : i \in 1 .. Len(s) + Len(t) /\ i <= Len(s)
  BY <1>1
<1>4. \A i \in 1 .. Len(t) : /\ Len(s) + i \in 1 .. Len(s) + Len(t)
                             /\ ~(Len(s) + i <= Len(s)) /\ (Len(s) + i) - Len(s) = i
  BY <1>1
<1>5. \A i \in 1 .. Len(s) + Len(t) : i \in 1 .. Len(s) \/ i - Len(s) \in 1 .. Len(t)
  BY <1>1
<1>6. (s = <<>> => s \o t = t) /\ (t = <<>> => s \o t = s)
  BY ConcatEmptySeq
<1>7. \A i \in 1 .. Len(s) : (s \o t)[i] = s[i]
  BY <1>2, <1>3
<1>8. ASSUME NEW i \in 1 .. Len(t) PROVE (s \o t)[Len(s) + i] = t[i]
  <2>1. (s \o t)[Len(s) + i] = t[(Len(s) + i) - Len(s)]
    BY <1>2, <1>4
  <2> QED
    BY <2>1, <1>4
<1> QED
  BY <1>1, <1>2, <1>5, <1>6, <1>7, <1>8

\* What is in one of the sequences is in the whole.
Holds(s, x) == \E i \in 1 .. Len(s) : s[i] = x

LEMMA ConcatHolds ==
    ASSUME NEW n \in Nat, NEW X, NEW ss, \A i \in 1 .. n : ss[i] \in Seq(X),
           NEW i \in 1 .. n, NEW x, Holds(ss[i], x)
    PROVE  Holds(Concat(n, ss), x)
<1>0. PICK j \in 1 .. Len(ss[i]) : ss[i][j] = x
  BY DEF Holds
<1> DEFINE Held(s) == \E k \in 1 .. Len(s) : s[k] = ss[i][j]
           S == [m \in 0 .. n |-> {s \in Seq(X) : m >= i => Held(s)}]
<1>1. <<>> \in S[0]
  OBVIOUS
<1>2. ASSUME NEW m \in 1 .. n, NEW s \in Seq(X), s \in S[m - 1]
      PROVE  s \o ss[m] \in S[m]
  <2> DEFINE t == ss[m]
             u == s \o t
  <2>1. t \in Seq(X)
    OBVIOUS
  <2> HIDE DEF t
  <2>2. /\ u \in Seq(X) /\ Len(s) \in Nat /\ Len(t) \in Nat /\ Len(u) = Len(s) + Len(t)
        /\ \A y \in 1 .. Len(s) : u[y] = s[y]
        /\ \A y \in 1 .. Len(t) : u[Len(s) + y] = t[y]
    BY <2>1, TwoSequences
  <2> HIDE DEF u
  <2>3. ASSUME m >= i PROVE Held(u)
    <3>1. CASE m = i
      <4>1. Len(s) + j \in 1 .. Len(u) /\ u[Len(s) + j] = ss[i][j]
        BY <2>2, <3>1 DEF t
      <4> QED
        BY <4>1
    <3>2. CASE m # i
      <4>1. m - 1 >= i
        BY <2>3, <3>2
      <4>2. PICK k \in 1 .. Len(s) : s[k] = ss[i][j]
        <5>1. m - 1 \in 0 .. n
          OBVIOUS
        <5>2. Held(s)
          BY <1>2, <4>1, <5>1
        <5> QED
          BY <5>2
      <4>3. k \in 1 .. Len(u) /\ u[k] = ss[i][j]
        BY <2>2, <4>2
      <4> QED
        BY <4>3
    <3> QED
      BY <3>1, <3>2
  <2>4. u \in S[m]
    <3>1. m \in 0 .. n
      OBVIOUS
    <3> HIDE DEF Held
    <3> QED
      BY <2>2, <2>3, <3>1
  <2> QED
    BY <2>4 DEF u, t
<1>3. Concat(n, ss) \in S[n]
  <2> HIDE DEF S
  <2> QED
    BY <1>1, <1>2, ConcatInduct
<1> QED
  BY <1>0, <1>3 DEF Holds

\* Each element stands to the next as R says.
Linked(s, R) == \A i \in 1 .. Len(s) : i + 1 <= Len(s) => <<s[i], s[i + 1]>> \in R

LEMMA LinkedTwo ==
    ASSUME NEW X, NEW R, NEW s \in Seq(X), NEW t \in Seq(X), Linked(s, R), Linked(t, R),
           s # <<>> /\ t # <<>> => <<s[Len(s)], t[1]>> \in R
    PROVE  Linked(s \o t, R)
<1>1. /\ Len(s) \in Nat /\ Len(t) \in Nat /\ Len(s \o t) = Len(s) + Len(t)
      /\ \A i \in 1 .. Len(s) : (s \o t)[i] = s[i]
      /\ \A i \in 1 .. Len(t) : (s \o t)[Len(s) + i] = t[i]
  BY TwoSequences
<1>2. s # <<>> /\ t # <<>> => <<s[Len(s)], t[1]>> \in R
  OBVIOUS
<1>3. (Len(s) > 0 => s # <<>>) /\ (Len(t) > 0 => t # <<>>)
  OBVIOUS
<1> DEFINE u == s \o t
<1> HIDE DEF u
<1>4. ASSUME NEW i \in 1 .. Len(u), i + 1 <= Len(u) PROVE <<u[i], u[i + 1]>> \in R
  <2>1. CASE i + 1 <= Len(s)
    <3>1. i \in 1 .. Len(s) /\ i + 1 \in 1 .. Len(s)
      BY <1>1, <2>1
    <3>2. u[i] = s[i] /\ u[i + 1] = s[i + 1]
      BY <1>1, <3>1 DEF u
    <3> QED
      BY <2>1, <3>1, <3>2 DEF Linked
  <2>2. CASE i = Len(s)
    <3>1. i \in 1 .. Len(s) /\ 1 \in 1 .. Len(t) /\ i + 1 = Len(s) + 1
      BY <1>1, <1>4, <2>2 DEF u
    <3>2. u[i] = s[Len(s)] /\ u[i + 1] = t[1]
      BY <1>1, <2>2, <3>1 DEF u
    <3>3. s # <<>> /\ t # <<>>
      BY <1>1, <1>3, <3>1
    <3> QED
      BY <1>2, <3>2, <3>3
  <2>3. CASE i > Len(s)
    <3> DEFINE j == i - Len(s)
    <3>1. /\ j \in 1 .. Len(t) /\ j + 1 \in 1 .. Len(t) /\ j + 1 <= Len(t)
          /\ i = Len(s) + j /\ i + 1 = Len(s) + (j + 1)
      BY <1>1, <1>4, <2>3 DEF u
    <3> HIDE DEF j
    <3>2. u[i] = t[j] /\ u[i + 1] = t[j + 1]
      BY <1>1, <3>1 DEF u
    <3>3. <<t[j], t[j + 1]>> \in R
      BY <3>1 DEF Linked
    <3> QED
      BY ONLY <3>2, <3>3, Zenon
  <2>4. i + 1 <= Len(s) \/ i = Len(s) \/ i > Len(s)
    BY <1>1 DEF u
  <2> QED
    BY <2>1, <2>2, <2>3, <2>4
<1> QED
  BY <1>4 DEF u, Linked

\* Sequences of X that are linked and begin in H, where anything of X may stand
\* before what is in H, are linked when they are put one after the other.
LEMMA ConcatLinked ==
    ASSUME NEW n \in Nat, NEW X, NEW H, NEW R, NEW ss,
           \A i \in 1 .. n : /\ ss[i] \in Seq(X) /\ Linked(ss[i], R)
                             /\ ss[i] # <<>> => ss[i][1] \in H,
           \A x \in X, h \in H : <<x, h>> \in R
    PROVE  /\ Concat(n, ss) \in Seq(X)
           /\ Linked(Concat(n, ss), R)
           /\ Concat(n, ss) # <<>> => Concat(n, ss)[1] \in H
<1> DEFINE Good(s) == Linked(s, R) /\ (s # <<>> => s[1] \in H)
           S == [m \in 0 .. n |-> {s \in Seq(X) : Good(s)}]
<1>1. <<>> \in S[0]
  <2>1. Len(<<>>) = 0
    OBVIOUS
  <2>2. Good(<<>>)
    BY <2>1 DEF Linked
  <2> HIDE DEF Good
  <2> QED
    BY <2>2
<1>2. ASSUME NEW m \in 1 .. n, NEW a \in Seq(X), a \in S[m - 1]
      PROVE  a \o ss[m] \in S[m]
  <2> DEFINE b == ss[m]
  <2>1. m \in 0 .. n
    OBVIOUS
  <2>2. b \in Seq(X) /\ Linked(b, R) /\ (b # <<>> => b[1] \in H)
    OBVIOUS
  <2>3. Linked(a, R) /\ (a # <<>> => a[1] \in H)
    <3>1. m - 1 \in 0 .. n
      OBVIOUS
    <3>2. Good(a)
      <4> HIDE DEF Good
      <4> QED
        BY <1>2, <3>1
    <3> QED
      BY <3>2
  <2> HIDE DEF b
  <2>4. a # <<>> => Len(a) \in 1 .. Len(a) /\ 1 \in 1 .. Len(a) /\ a[Len(a)] \in X
    OBVIOUS
  <2>5. Linked(a \o b, R)
    <3>1. a # <<>> /\ b # <<>> => <<a[Len(a)], b[1]>> \in R
      BY <2>2, <2>3, <2>4
    <3> QED
      BY <2>2, <2>3, <3>1, LinkedTwo
  <2>6. a \o b # <<>> => (a \o b)[1] \in H
    <3>1. CASE a = <<>>
      BY <2>2, <3>1, TwoSequences
    <3>2. CASE a # <<>>
      <4>1. (a \o b)[1] = a[1]
        BY <2>2, <2>4, <3>2, TwoSequences
      <4> QED
        BY <2>3, <3>2, <4>1
    <3> QED
      BY <3>1, <3>2
  <2>7. a \o b \in Seq(X)
    BY <2>2
  <2>8. a \o b \in S[m]
    <3>1. Good(a \o b)
      BY <2>5, <2>6
    <3> HIDE DEF Good
    <3> QED
      BY <2>1, <2>7, <3>1
  <2> QED
    BY <2>8 DEF b
<1>3. Concat(n, ss) \in Seq(X) /\ Concat(n, ss) \in S[n]
  <2> HIDE DEF S
  <2> QED
    BY <1>1, <1>2, ConcatInduct
<1> QED
  BY <1>3

-----------------------------------------------------------------------------
(* Kinds.                                                                  *)

LEMMA ClassNodes ==
    ASSUME NEW c \in Classes
    PROVE  /\ Nodes[c] \in Seq(Kinds)
           /\ Len(Nodes[c]) \in Nat
           /\ DOMAIN Nodes[c] = 1 .. Len(Nodes[c])
           /\ \A i \in DOMAIN Nodes[c] : Nodes[c][i] \in Kinds
<1>1. Nodes[c] \in Seq(Kinds)
  BY KindsAssumption
<1> QED
  BY <1>1, ElementOfSeq, LenProperties

LEMMA KindFields ==
    ASSUME NEW k \in Kinds
    PROVE  /\ k.tag \in {"data", "instance", "class_ptr", "array", "text"}
           /\ k.tag = "data" => k.size \in Nat
           /\ k.tag \in {"instance", "class_ptr"} => k.cls \in Classes
           /\ k.tag = "array" => k.elem \in Kinds /\ k.count \in Nat
           /\ k.tag = "text" => k.max \in Nat
BY KindsAssumption DEF IsKind

\* What a kind depends on: the kinds inside it.
Parts == [k \in Kinds |-> Inside(k)]

LEMMA KindsInside ==
    ASSUME NEW k \in Kinds
    PROVE  /\ Inside(k) \subseteq Kinds
           /\ k.tag = "array" => Inside(k) = {k.elem}
           /\ k.tag = "instance" =>
                  \A i \in DOMAIN Nodes[k.cls] : Nodes[k.cls][i] \in Inside(k)
<1>1. CASE k.tag = "array"
  BY <1>1, KindFields DEF Inside
<1>2. CASE k.tag = "instance"
  BY <1>2, KindFields, ClassNodes DEF Inside
<1>3. CASE k.tag \notin {"array", "instance"}
  BY <1>3, KindFields DEF Inside
<1> QED
  BY <1>1, <1>2, <1>3

LEMMA PartsGrounded == Grounded(Kinds, Parts)
<1>1. Parts \in [Kinds -> SUBSET Kinds]
  BY KindsInside DEF Parts
<1>2. \A T \in SUBSET Kinds : T # {} => \E k \in T : Inside(k) \cap T = {}
  BY KindsAssumption
<1>3. \A T \in SUBSET Kinds : T # {} => \E k \in T : Parts[k] \cap T = {}
  BY <1>2 DEF Parts
<1> QED
  BY <1>1, <1>3 DEF Grounded

\* The size of a kind, from those of the kinds inside it.
Measured(size, k) ==
    CASE k.tag = "data"     -> k.size
      [] k.tag = "instance" ->
           Sum(Len(Nodes[k.cls]), [i \in DOMAIN Nodes[k.cls] |-> size[Nodes[k.cls][i]]])
      [] k.tag = "array"    -> k.count * size[k.elem]
      [] OTHER              -> PtrBytes

LEMMA MeasuredType ==
    ASSUME NEW k \in Kinds, NEW size, \A e \in Inside(k) : size[e] \in Nat
    PROVE  Measured(size, k) \in Nat
<1>1. CASE k.tag = "data"
  BY <1>1, KindFields DEF Measured
<1>2. CASE k.tag = "instance"
  <2> DEFINE c == k.cls
             s == [i \in DOMAIN Nodes[c] |-> size[Nodes[c][i]]]
  <2>1. c \in Classes
    BY <1>2, KindFields
  <2>2. \A i \in 1 .. Len(Nodes[c]) : s[i] \in Nat
    BY <1>2, <2>1, ClassNodes, KindsInside
  <2>3. Sum(Len(Nodes[c]), s) \in Nat
    <3> HIDE DEF s
    <3> QED
      BY <2>1, <2>2, ClassNodes, Sums
  <2> QED
    BY <1>2, <2>3 DEF Measured
<1>3. CASE k.tag = "array"
  <2>1. k.count \in Nat /\ size[k.elem] \in Nat
    BY <1>3, KindFields, KindsInside
  <2>2. k.count * size[k.elem] \in Nat
    BY <2>1
  <2> QED
    BY <1>3, <2>2 DEF Measured
<1>4. CASE k.tag \notin {"data", "instance", "array"}
  BY <1>4, TargetAssumption DEF Measured
<1> QED
  BY <1>1, <1>2, <1>3, <1>4

LEMMA MeasuredLocal ==
    ASSUME NEW k \in Kinds, NEW F, NEW H, \A e \in Inside(k) : F[e] = H[e]
    PROVE  Measured(F, k) = Measured(H, k)
<1>1. CASE k.tag = "instance"
  <2> DEFINE c == k.cls
  <2>1. \A i \in DOMAIN Nodes[c] : F[Nodes[c][i]] = H[Nodes[c][i]]
    BY <1>1, KindsInside
  <2>2. [i \in DOMAIN Nodes[c] |-> F[Nodes[c][i]]] = [i \in DOMAIN Nodes[c] |-> H[Nodes[c][i]]]
    BY <2>1
  <2> QED
    BY <1>1, <2>2 DEF Measured
<1>2. CASE k.tag = "array"
  BY <1>2, KindsInside DEF Measured
<1>3. CASE k.tag \notin {"instance", "array"}
  BY <1>3 DEF Measured
<1> QED
  BY <1>1, <1>2, <1>3

\* KindSize is what its definition says.
LEMMA KindSizes ==
    /\ KindSize = [k \in Kinds |-> Measured(KindSize, k)]
    /\ \A k \in Kinds : KindSize[k] \in Nat
<1> DEFINE G == [F \in [Kinds -> Nat] |-> [k \in Kinds |-> Measured(F, k)]]
<1>1. Local(Kinds, Nat, Parts, G)
  <2>1. ASSUME NEW F \in [Kinds -> Nat], NEW k \in Kinds
        PROVE  Measured(F, k) \in Nat
    BY MeasuredType, KindsInside
  <2>2. G \in [[Kinds -> Nat] -> [Kinds -> Nat]]
    BY <2>1
  <2>3. ASSUME NEW F \in [Kinds -> Nat], NEW H \in [Kinds -> Nat], NEW k \in Kinds,
               \A e \in Parts[k] : F[e] = H[e]
        PROVE  G[F][k] = G[H][k]
    <3>1. Measured(F, k) = Measured(H, k)
      BY <2>3, MeasuredLocal DEF Parts
    <3> QED
      BY <3>1
  <2> HIDE DEF G
  <2> QED
    BY <2>2, <2>3 DEF Local
<1>2. PICK F \in [Kinds -> Nat] : F = G[F]
  <2> HIDE DEF G
  <2> QED
    BY <1>1, PartsGrounded, Defined DEF HasFixpoint
<1>3. F = [k \in Kinds |-> Measured(F, k)]
  BY <1>2
<1>4. KindSize = [k \in Kinds |-> Measured(KindSize, k)]
  BY <1>3 DEF KindSize, Measured
<1>5. \A k \in Kinds : KindSize[k] \in Nat
  <2> DEFINE S == {k \in Kinds : KindSize[k] \in Nat}
  <2>1. ASSUME NEW k \in Kinds, \A e \in Parts[k] : e \in S PROVE k \in S
    <3>1. Measured(KindSize, k) \in Nat
      BY <2>1, MeasuredType DEF Parts
    <3> QED
      BY <1>4, <3>1
  <2>2. Kinds \subseteq S
    <3> HIDE DEF S
    <3> QED
      BY <2>1, PartsGrounded, GroundUp
  <2> QED
    BY <2>2
<1> QED
  BY <1>4, <1>5

\* The kinds with pointers in them are those that have to be looked into.
LEMMA DiscoveryNeeded ==
    \A k \in Kinds :
        NeedsDiscovery[k] <=> \/ k.tag \in {"instance", "class_ptr", "text"}
                              \/ k.tag = "array" /\ NeedsDiscovery[k.elem]
<1> DEFINE Needs(F, k) == \/ k.tag \in {"instance", "class_ptr", "text"}
                          \/ k.tag = "array" /\ F[k.elem]
           G == [F \in [Kinds -> BOOLEAN] |-> [k \in Kinds |-> Needs(F, k)]]
<1>1. Local(Kinds, BOOLEAN, Parts, G)
  <2>1. ASSUME NEW F \in [Kinds -> BOOLEAN], NEW k \in Kinds
        PROVE  Needs(F, k) \in BOOLEAN
    OBVIOUS
  <2>2. ASSUME NEW F \in [Kinds -> BOOLEAN], NEW H \in [Kinds -> BOOLEAN], NEW k \in Kinds,
               \A e \in Parts[k] : F[e] = H[e]
        PROVE  Needs(F, k) = Needs(H, k)
    <3>1. CASE k.tag = "array"
      <4>1. F[k.elem] = H[k.elem]
        BY <2>2, <3>1, KindsInside DEF Parts
      <4> QED
        BY <4>1
    <3>2. CASE k.tag # "array"
      BY <3>2
    <3> QED
      BY <3>1, <3>2
  <2> HIDE DEF Needs
  <2>3. G \in [[Kinds -> BOOLEAN] -> [Kinds -> BOOLEAN]]
    BY <2>1
  <2>4. ASSUME NEW F \in [Kinds -> BOOLEAN], NEW H \in [Kinds -> BOOLEAN], NEW k \in Kinds,
               \A e \in Parts[k] : F[e] = H[e]
        PROVE  G[F][k] = G[H][k]
    BY <2>2, <2>4
  <2> HIDE DEF G
  <2> QED
    BY <2>3, <2>4 DEF Local
<1>2. PICK F \in [Kinds -> BOOLEAN] : F = G[F]
  <2> HIDE DEF G
  <2>1. HasFixpoint(Kinds, BOOLEAN, G)
    BY <1>1, PartsGrounded, Defined
  <2> QED
    BY <2>1 DEF HasFixpoint
<1>3. F = [k \in Kinds |-> Needs(F, k)]
  BY <1>2
<1>4. NeedsDiscovery = [k \in Kinds |-> Needs(NeedsDiscovery, k)]
  BY <1>3 DEF NeedsDiscovery
<1> QED
  BY <1>4

\* A kind below which there is no pointer to follow.
Plain(k) == KindSize[k] = 0 \/ ~NeedsDiscovery[k]

LEMMA PlainInside ==
    ASSUME NEW k \in Kinds, Plain(k)
    PROVE  /\ k.tag \in {"data", "instance", "array"}
           /\ k.tag = "array" /\ k.count > 0 => Plain(k.elem)
           /\ k.tag = "instance" => \A i \in DOMAIN Nodes[k.cls] : Plain(Nodes[k.cls][i])
<1>1. KindSize[k] = Measured(KindSize, k)
  BY KindSizes
<1>2. k.tag \in {"data", "instance", "class_ptr", "array", "text"}
  BY KindFields
<1>3. k.tag \notin {"class_ptr", "text"}
  BY <1>1, DiscoveryNeeded, TargetAssumption DEF Plain, Measured
<1>4. ASSUME k.tag = "array", k.count > 0 PROVE Plain(k.elem)
  <2>1. k.count \in Nat /\ k.elem \in Kinds /\ KindSize[k.elem] \in Nat
    BY <1>4, KindFields, KindSizes
  <2>2. KindSize[k] = k.count * KindSize[k.elem]
    BY <1>1, <1>4 DEF Measured
  <2>3. KindSize[k] = 0 => KindSize[k.elem] = 0
    BY <1>4, <2>1, <2>2
  <2>4. ~NeedsDiscovery[k] => ~NeedsDiscovery[k.elem]
    BY <1>4, DiscoveryNeeded
  <2> QED
    BY <2>3, <2>4 DEF Plain
<1>5. ASSUME k.tag = "instance", NEW i \in DOMAIN Nodes[k.cls] PROVE Plain(Nodes[k.cls][i])
  <2> DEFINE c == k.cls
             s == [j \in DOMAIN Nodes[c] |-> KindSize[Nodes[c][j]]]
  <2>1. c \in Classes
    BY <1>5, KindFields
  <2>2. Len(Nodes[c]) \in Nat /\ DOMAIN Nodes[c] = 1 .. Len(Nodes[c])
    BY <2>1, ClassNodes
  <2>3. \A j \in 1 .. Len(Nodes[c]) : s[j] \in Nat
    BY <2>1, <2>2, ClassNodes, KindSizes
  <2>4. Sum(Len(Nodes[c]), s) = 0
    <3>1. KindSize[k] = 0
      BY <1>5, DiscoveryNeeded DEF Plain
    <3> QED
      BY <1>1, <1>5, <3>1 DEF Measured
  <2>5. s[i] = 0
    <3> HIDE DEF s
    <3> QED
      BY <2>2, <2>3, <2>4, Sums
  <2> QED
    BY <2>5 DEF Plain
<1> QED
  BY <1>2, <1>3, <1>4, <1>5

\* Where the nodes of a class begin, and how far it goes.
LEMMA ClassSizes ==
    ASSUME NEW c \in Classes
    PROVE  /\ SizeOf(c) \in Nat
           /\ \A i \in DOMAIN Nodes[c] : Offsets[c][i] \in Nat
<1>1. /\ Len(Nodes[c]) \in Nat /\ DOMAIN Nodes[c] = 1 .. Len(Nodes[c])
      /\ \A i \in DOMAIN Nodes[c] : KindSize[Nodes[c][i]] \in Nat
  BY ClassNodes, KindSizes
<1>2. SizeOf(c) \in Nat
  <2> DEFINE s == [i \in DOMAIN Nodes[c] |-> KindSize[Nodes[c][i]]]
  <2>1. \A i \in 1 .. Len(Nodes[c]) : s[i] \in Nat
    BY <1>1
  <2>2. Sum(Len(Nodes[c]), s) \in Nat
    <3> HIDE DEF s
    <3> QED
      BY <1>1, <2>1, Sums
  <2> QED
    BY <2>2 DEF SizeOf
<1>3. ASSUME NEW i \in DOMAIN Nodes[c] PROVE Offsets[c][i] \in Nat
  <2> DEFINE s == [j \in 1 .. i - 1 |-> KindSize[Nodes[c][j]]]
  <2>1. i - 1 \in Nat /\ 1 .. i - 1 \subseteq DOMAIN Nodes[c]
    BY <1>1
  <2>2. \A j \in 1 .. i - 1 : s[j] \in Nat
    BY <1>1, <2>1
  <2>3. Sum(i - 1, s) \in Nat
    <3> HIDE DEF s
    <3> QED
      BY <2>1, <2>2, Sums
  <2>4. Offsets[c][i] = Sum(i - 1, s)
    BY DEF Offsets
  <2> QED
    BY <2>3, <2>4
<1> QED
  BY <1>2, <1>3

-----------------------------------------------------------------------------
(* Cells.                                                                  *)

Cells == 0 .. CellBase - 1

\* A pointer is a natural number.
LEMMA PointerType ==
    ASSUME NEW cells \in Seq(Cells)
    PROVE  PtrOf(cells) \in Nat
<1> DEFINE n     == Len(cells)
           P     == 0 .. n
           under == [i \in P |-> IF i = 0 THEN {} ELSE {i - 1}]
           step(v, i) == v * CellBase + cells[n + 1 - i]
           G     == [F \in [P -> Nat] |->
                        [i \in P |-> IF i = 0 THEN 0 ELSE step(F[i - 1], i)]]
<1>0. n \in Nat /\ CellBase \in Nat /\ \A i \in 1 .. n : cells[i] \in Nat
  BY TargetAssumption DEF Cells
<1>1. \A i \in P : i # 0 => i \in 1 .. n /\ i - 1 \in P /\ n + 1 - i \in 1 .. n
  BY <1>0
<1>2. Grounded(P, under)
  <2>1. under \in [P -> SUBSET P]
    BY <1>1
  <2>2. ASSUME NEW T \in SUBSET P, T # {} PROVE \E p \in T : under[p] \cap T = {}
    <3>1. PICK p \in T : \A y \in T : p <= y
      BY <2>2, LeastNatural
    <3>2. p \in P /\ ~(p <= p - 1)
      OBVIOUS
    <3> QED
      BY <3>1, <3>2
  <2> QED
    BY <2>1, <2>2 DEF Grounded
<1>3. \A v \in Nat, i \in P : i # 0 => step(v, i) \in Nat
  <2>1. \A v \in Nat : v * CellBase \in Nat
    BY <1>0
  <2> QED
    BY <1>0, <1>1, <2>1
<1>4. Local(P, Nat, under, G)
  <2> HIDE DEF step
  <2>1. ASSUME NEW F \in [P -> Nat], NEW i \in P
        PROVE  (IF i = 0 THEN 0 ELSE step(F[i - 1], i)) \in Nat
    <3>1. i # 0 => F[i - 1] \in Nat
      BY <1>1
    <3> QED
      BY <1>3, <3>1
  <2>2. G \in [[P -> Nat] -> [P -> Nat]]
    BY <2>1
  <2>3. \A F, H \in [P -> Nat], p \in P :
            (\A q \in under[p] : F[q] = H[q]) => G[F][p] = G[H][p]
    OBVIOUS
  <2> QED
    BY <2>2, <2>3 DEF Local
<1>5. PICK f \in [P -> Nat] : f = G[f]
  <2> HIDE DEF P, under, G, n, step
  <2>1. HasFixpoint(P, Nat, G)
    BY <1>2, <1>4, Defined
  <2> QED
    BY <2>1 DEF HasFixpoint
<1> DEFINE from[i \in 0 .. n] ==
               IF i = 0 THEN 0 ELSE from[i - 1] * CellBase + cells[n + 1 - i]
<1>6. f = [i \in 0 .. n |-> IF i = 0 THEN 0 ELSE f[i - 1] * CellBase + cells[n + 1 - i]]
  BY <1>5
<1>7. from = [i \in 0 .. n |->
                 IF i = 0 THEN 0 ELSE from[i - 1] * CellBase + cells[n + 1 - i]]
  BY <1>6
<1>8. PtrOf(cells) = from[n]
  BY DEF PtrOf
<1> HIDE DEF from
<1>9. \A i \in P : i # 0 => from[i] = step(from[i - 1], i)
  BY <1>7
<1>10. n \in P /\ from[0] = 0
  BY <1>0, <1>7
<1> DEFINE S == {i \in P : from[i] \in Nat}
<1>11. 0 \in S
  BY <1>0, <1>10
<1>12. \A i \in 1 .. n : i - 1 \in S => i \in S
  <2>1. \A i \in 1 .. n : i \in P /\ i # 0
    BY <1>0
  <2> HIDE DEF step, P
  <2> QED
    BY <1>3, <1>9, <2>1
<1> HIDE DEF S
<1>13. n \in S
  <2>1. \A i \in 0 .. n : i \in S
    BY <1>0, <1>11, <1>12, UpTo
  <2> QED
    BY <1>10, <2>1
<1> QED
  BY <1>8, <1>13 DEF S

\* What is read of mapped cells.
LEMMA CellsRead ==
    ASSUME NEW image \in Images, NEW addr \in Nat, NEW n \in Nat, IsMapped(image, addr, n)
    PROVE  /\ CellsAt(image, addr, n) \in Seq(Cells)
           /\ Len(CellsAt(image, addr, n)) = n
           /\ \A i \in 1 .. n : CellsAt(image, addr, n)[i] = image[addr + i - 1]
           /\ \A i \in 1 .. n : addr + i - 1 \in DOMAIN image
<1> DEFINE s == CellsAt(image, addr, n)
<1>1. s = [i \in 1 .. n |-> image[addr + i - 1]]
  BY DEF CellsAt
<1>2. ASSUME NEW i \in 1 .. n
      PROVE  addr + i - 1 \in DOMAIN image /\ image[addr + i - 1] \in Cells
  <2>1. addr + i - 1 \in addr .. addr + n - 1
    OBVIOUS
  <2>2. addr + i - 1 \in DOMAIN image
    BY <2>1 DEF IsMapped
  <2> QED
    BY <2>2, TargetAssumption DEF Cells
<1> HIDE DEF s
<1>3. s \in [1 .. n -> Cells]
  BY <1>1, <1>2
<1>4. s \in Seq(Cells) /\ Len(s) = n
  BY <1>3
<1>5. \A i \in 1 .. n : s[i] = image[addr + i - 1]
  BY <1>1
<1> QED
  BY <1>2, <1>4, <1>5 DEF s

\* What can be had is what is mapped up to the first gap.
LEMMA ReachIs ==
    ASSUME NEW image, NEW base \in Nat, NEW n \in Nat
    PROVE  /\ Reach(image, base, n) \in Int
           /\ IsMapped(image, base, Reach(image, base, n))
           /\ n = 0 \/ base \in DOMAIN image => Reach(image, base, n) \in 0 .. n
           /\ \A p \in 0 .. n :
                  IsMapped(image, base, p) /\ (p = n \/ base + p \notin DOMAIN image) =>
                      Reach(image, base, n) = IF n = 0 \/ p > 0 THEN p ELSE -1
<1> DEFINE GapAt(p) == IsMapped(image, base, p) /\ (p = n \/ base + p \notin DOMAIN image)
           here    == CHOOSE p \in 0 .. n : GapAt(p)
<1>1. \E p \in 0 .. n : GapAt(p)
  <2> DEFINE T == {p \in 0 .. n : p = n \/ base + p \notin DOMAIN image}
  <2>1. T \in SUBSET Nat /\ n \in T
    OBVIOUS
  <2>2. PICK p \in T : \A q \in T : p <= q
    <3> HIDE DEF T
    <3> QED
      BY <2>1, LeastNatural
  <2>3. ASSUME NEW a \in base .. base + p - 1 PROVE a \in DOMAIN image
    <3>1. a - base \in 0 .. n /\ ~(p <= a - base) /\ base + (a - base) = a
      BY <2>2
    <3>2. a - base \notin T
      BY <2>2, <3>1
    <3> QED
      BY <3>1, <3>2
  <2>4. p \in 0 .. n /\ GapAt(p)
    BY <2>3 DEF IsMapped
  <2> QED
    BY <2>4
<1>2. here \in 0 .. n /\ GapAt(here)
  <2> HIDE DEF GapAt
  <2> QED
    BY <1>1
<1>3. ASSUME NEW p \in 0 .. n, NEW q \in 0 .. n, GapAt(p), GapAt(q), p < q PROVE FALSE
  <2>1. base + p \in base .. base + q - 1
    BY <1>3
  <2>2. base + p \in DOMAIN image
    BY <1>3, <2>1 DEF IsMapped
  <2>3. p # n
    BY <1>3
  <2> QED
    BY <1>3, <2>2, <2>3
<1>4. ASSUME NEW p \in 0 .. n, GapAt(p) PROVE p = here
  <2>1. ~(p < here) /\ ~(here < p)
    BY <1>2, <1>3, <1>4
  <2> HIDE DEF here
  <2> QED
    BY <1>2, <2>1
<1>5. Reach(image, base, n) = IF n > 0 /\ base \notin DOMAIN image THEN -1 ELSE here
  BY DEF Reach
<1>6. n > 0 /\ base \notin DOMAIN image => GapAt(0)
  BY DEF IsMapped
<1>7. ASSUME n > 0, base \in DOMAIN image PROVE here > 0
  BY <1>2, <1>7 DEF IsMapped
<1>8. IsMapped(image, base, -1)
  BY DEF IsMapped
<1>9. ASSUME NEW p \in 0 .. n, GapAt(p)
      PROVE  Reach(image, base, n) = IF n = 0 \/ p > 0 THEN p ELSE -1
  <2>1. p = here
    BY <1>4, <1>9
  <2>2. CASE n > 0 /\ base \notin DOMAIN image
    <3>1. 0 = here
      BY <1>4, <1>6, <2>2
    <3> HIDE DEF here
    <3> QED
      BY <1>5, <2>1, <2>2, <3>1
  <2>3. CASE ~(n > 0 /\ base \notin DOMAIN image)
    <3> HIDE DEF here
    <3> QED
      BY <1>2, <1>5, <1>7, <2>1, <2>3
  <2> QED
    BY <2>2, <2>3
<1>10. /\ Reach(image, base, n) \in Int
       /\ IsMapped(image, base, Reach(image, base, n))
       /\ n = 0 \/ base \in DOMAIN image => Reach(image, base, n) \in 0 .. n
  <2> HIDE DEF here
  <2> QED
    BY <1>2, <1>5, <1>8
<1> QED
  BY <1>9, <1>10

-----------------------------------------------------------------------------
(* Frames, and the nodes and elements of one that discovery comes to.      *)

ChildMaps == UNION {[D -> Nat] : D \in SUBSET Paths}

FrameType ==
    [cls : Classes, base : Nat, depth : Nat, root : DOMAIN Roots, path : Paths, text : Nat,
     buf : Seq(Cells), readable : BOOLEAN, len : Nat, children : ChildMaps]

Filled(f) == f \in FrameType /\ f.len <= Len(f.buf)

\* The nodes of a frame's class.
Tops(f) == {NodeSpot(f.cls, i, 0, f.path) : i \in DOMAIN Nodes[f.cls]}

\* Those inside a node or an element that is looked into.
Opened(ex, f, s) ==
    CASE s.kind.tag = "instance" /\ <<f.root, s.path>> \notin ex.collapsed ->
           {NodeSpot(s.kind.cls, i, s.off, s.path) : i \in DOMAIN Nodes[s.kind.cls]}
      [] /\ s.kind.tag = "array" /\ NeedsDiscovery[s.kind.elem]
         /\ <<f.root, s.path>> \notin ex.collapsed ->
           {ElemSpot(s, e) : e \in 1 .. Shown(s.kind)}
      [] OTHER -> {}

SpotsClosed(ex, f, T) == Tops(f) \subseteq T /\ \A s \in T : Opened(ex, f, s) \subseteq T

\* All that discovery comes to.
Spots(ex, f) == {s \in Spot : \A T \in SUBSET Spot : SpotsClosed(ex, f, T) => s \in T}

LEMMA ShownType ==
    ASSUME NEW k \in Kinds, k.tag = "array"
    PROVE  Shown(k) \in Nat /\ Shown(k) <= k.count
BY KindFields, TargetAssumption DEF Shown

LEMMA NodeSpotType ==
    ASSUME NEW c \in Classes, NEW i \in DOMAIN Nodes[c], NEW off \in Nat, NEW path \in Paths
    PROVE  /\ NodeSpot(c, i, off, path) \in Spot
           /\ NodeSpot(c, i, off, path).kind = Nodes[c][i]
           /\ NodeSpot(c, i, off, path).path = Append(path, i - 1)
           /\ i - 1 \in Nat
<1>1. Nodes[c][i] \in Kinds /\ Offsets[c][i] \in Nat /\ i - 1 \in Nat
  BY ClassNodes, ClassSizes
<1>2. Append(path, i - 1) \in Paths
  BY <1>1 DEF Paths
<1>3. off + Offsets[c][i] \in Nat
  BY <1>1
<1> QED
  BY <1>1, <1>2, <1>3 DEF NodeSpot, Spot

LEMMA ElemSpotType ==
    ASSUME NEW s \in Spot, s.kind.tag = "array", NEW e \in 1 .. Shown(s.kind)
    PROVE  /\ ElemSpot(s, e) \in Spot
           /\ ElemSpot(s, e).kind = s.kind.elem
           /\ ElemSpot(s, e).path = Append(s.path, e - 1)
           /\ e - 1 \in Nat
<1>1. s.kind \in Kinds /\ s.off \in Nat /\ s.path \in Paths
  BY DEF Spot
<1>2. s.kind.elem \in Kinds /\ KindSize[s.kind.elem] \in Nat /\ e - 1 \in Nat
  BY <1>1, KindFields, KindSizes, ShownType
<1>3. (e - 1) * KindSize[s.kind.elem] \in Nat
  BY <1>2
<1>4. s.off + (e - 1) * KindSize[s.kind.elem] \in Nat
  BY <1>1, <1>3
<1>5. Append(s.path, e - 1) \in Paths
  BY <1>1, <1>2 DEF Paths
<1> QED
  BY <1>2, <1>4, <1>5 DEF ElemSpot, Spot

\* What is inside a node is a node or element of a kind inside its kind, with
\* one index more in its path.
LEMMA OpenedType ==
    ASSUME NEW ex, NEW f, NEW s \in Spot, NEW t \in Opened(ex, f, s)
    PROVE  /\ t \in Spot
           /\ t.kind \in Inside(s.kind)
           /\ \E n \in Nat : t.path = Append(s.path, n)
<1>1. s.kind \in Kinds /\ s.off \in Nat /\ s.path \in Paths
  BY DEF Spot
<1>2. CASE s.kind.tag = "instance" /\ <<f.root, s.path>> \notin ex.collapsed
  <2>1. PICK i \in DOMAIN Nodes[s.kind.cls] : t = NodeSpot(s.kind.cls, i, s.off, s.path)
    BY <1>2 DEF Opened
  <2>2. s.kind.cls \in Classes /\ Nodes[s.kind.cls][i] \in Inside(s.kind)
    BY <1>1, <1>2, KindFields, KindsInside
  <2> QED
    BY <1>1, <2>1, <2>2, NodeSpotType
<1>3. CASE /\ s.kind.tag = "array" /\ NeedsDiscovery[s.kind.elem]
           /\ <<f.root, s.path>> \notin ex.collapsed
  <2>1. PICK e \in 1 .. Shown(s.kind) : t = ElemSpot(s, e)
    BY <1>3 DEF Opened
  <2>2. Inside(s.kind) = {s.kind.elem}
    BY <1>1, <1>3, KindsInside
  <2> QED
    BY <1>3, <2>1, <2>2, ElemSpotType
<1>4. CASE ~(s.kind.tag = "instance" /\ <<f.root, s.path>> \notin ex.collapsed)
           /\ ~(/\ s.kind.tag = "array" /\ NeedsDiscovery[s.kind.elem]
                /\ <<f.root, s.path>> \notin ex.collapsed)
  BY <1>4 DEF Opened
<1> QED
  BY <1>2, <1>3, <1>4

LEMMA TopsType ==
    ASSUME NEW f, f.cls \in Classes, f.path \in Paths, NEW t \in Tops(f)
    PROVE  /\ t \in Spot
           /\ \E n \in Nat : t.path = Append(f.path, n)
BY NodeSpotType DEF Tops

\* Spots is closed, and the least such set.
LEMMA SpotsAreClosed ==
    ASSUME NEW ex, NEW f, f.cls \in Classes, f.path \in Paths
    PROVE  /\ Spots(ex, f) \subseteq Spot
           /\ Tops(f) \subseteq Spots(ex, f)
           /\ \A s \in Spots(ex, f) : Opened(ex, f, s) \subseteq Spots(ex, f)
           /\ \A T \in SUBSET Spot : SpotsClosed(ex, f, T) => Spots(ex, f) \subseteq T
<1>1. Spots(ex, f) \subseteq Spot
  BY DEF Spots
<1>2. Tops(f) \subseteq Spots(ex, f)
  <2>1. \A t \in Tops(f) : t \in Spot
    BY TopsType
  <2> QED
    BY <2>1 DEF Spots, SpotsClosed
<1>3. ASSUME NEW s \in Spots(ex, f), NEW t \in Opened(ex, f, s) PROVE t \in Spots(ex, f)
  <2>1. t \in Spot
    BY <1>1, OpenedType
  <2>2. ASSUME NEW T \in SUBSET Spot, SpotsClosed(ex, f, T) PROVE t \in T
    <3>1. s \in T
      BY <2>2 DEF Spots
    <3> QED
      BY <2>2, <3>1 DEF SpotsClosed
  <2> QED
    BY <2>1, <2>2 DEF Spots
<1>4. \A T \in SUBSET Spot : SpotsClosed(ex, f, T) => Spots(ex, f) \subseteq T
  BY DEF Spots
<1> QED
  BY <1>1, <1>2, <1>3, <1>4

\* What discovery comes to, it comes to from somewhere.
LEMMA SpotOrigin ==
    ASSUME NEW ex, NEW f, f.cls \in Classes, f.path \in Paths, NEW t \in Spots(ex, f)
    PROVE  t \in Tops(f) \/ \E s \in Spots(ex, f) : t \in Opened(ex, f, s)
<1> DEFINE T == {u \in Spots(ex, f) : u \in Tops(f) \/ \E s \in Spots(ex, f) : u \in Opened(ex, f, s)}
<1>1. T \in SUBSET Spot
  BY SpotsAreClosed
<1>2. Tops(f) \subseteq T
  BY SpotsAreClosed
<1>3. \A s \in T : Opened(ex, f, s) \subseteq T
  BY SpotsAreClosed
<1>4. SpotsClosed(ex, f, T)
  BY <1>2, <1>3 DEF SpotsClosed
<1>5. Spots(ex, f) \subseteq T
  <2> HIDE DEF T
  <2> QED
    BY <1>1, <1>4, SpotsAreClosed
<1> QED
  BY <1>5

\* The path of a node or element goes beyond that of its frame.
LEMMA SpotDeeper ==
    ASSUME NEW ex, NEW f, f.cls \in Classes, f.path \in Paths, NEW t \in Spots(ex, f)
    PROVE  t.path # f.path
<1> DEFINE T == {s \in Spot : Len(s.path) > Len(f.path)}
<1>1. \A p \in Paths, n \in Nat : Len(Append(p, n)) = Len(p) + 1 /\ Len(p) \in Nat
  BY LenProperties DEF Paths
<1>2. Tops(f) \subseteq T
  <2>1. ASSUME NEW s \in Tops(f) PROVE s \in T
    <3>1. s \in Spot /\ \E n \in Nat : s.path = Append(f.path, n)
      BY TopsType
    <3> QED
      BY <1>1, <3>1
  <2> QED
    BY <2>1
<1>3. ASSUME NEW s \in T, NEW u \in Opened(ex, f, s) PROVE u \in T
  <2>1. u \in Spot /\ \E n \in Nat : u.path = Append(s.path, n)
    BY OpenedType
  <2>2. s.path \in Paths /\ Len(s.path) \in Nat /\ Len(f.path) \in Nat
    BY <1>1 DEF Spot
  <2> QED
    BY <1>1, <2>1, <2>2
<1>4. SpotsClosed(ex, f, T)
  BY <1>2, <1>3 DEF SpotsClosed
<1>5. t \in T
  <2>1. T \in SUBSET Spot
    OBVIOUS
  <2> HIDE DEF T
  <2> QED
    BY <1>4, <2>1, SpotsAreClosed
<1> QED
  BY <1>1, <1>5

LEMMA SamePath ==
    ASSUME NEW p \in Paths, NEW q \in Paths, NEW m \in Nat, NEW n \in Nat,
           Append(p, m) = Append(q, n)
    PROVE  p = q /\ m = n
BY AppendInjective DEF Paths

LEMMA OpenedOnce ==
    ASSUME NEW ex, NEW f, NEW s \in Spot, NEW t \in Opened(ex, f, s), NEW u \in Opened(ex, f, s),
           t.path = u.path
    PROVE  t = u
<1>1. s.kind \in Kinds /\ s.off \in Nat /\ s.path \in Paths
  BY DEF Spot
<1>2. CASE s.kind.tag = "instance" /\ <<f.root, s.path>> \notin ex.collapsed
  <2>1. PICK i \in DOMAIN Nodes[s.kind.cls] : t = NodeSpot(s.kind.cls, i, s.off, s.path)
    BY <1>2 DEF Opened
  <2>2. PICK j \in DOMAIN Nodes[s.kind.cls] : u = NodeSpot(s.kind.cls, j, s.off, s.path)
    BY <1>2 DEF Opened
  <2>3. s.kind.cls \in Classes
    BY <1>1, <1>2, KindFields
  <2>4. Append(s.path, i - 1) = Append(s.path, j - 1) /\ i - 1 \in Nat /\ j - 1 \in Nat
    BY <1>1, <2>1, <2>2, <2>3, NodeSpotType
  <2>5. i - 1 = j - 1
    BY <1>1, <2>4, SamePath
  <2>6. i \in Nat /\ j \in Nat
    BY <2>3, ClassNodes
  <2>7. i = j
    BY <2>5, <2>6
  <2> QED
    BY <2>1, <2>2, <2>7
<1>3. CASE /\ s.kind.tag = "array" /\ NeedsDiscovery[s.kind.elem]
           /\ <<f.root, s.path>> \notin ex.collapsed
  <2>1. PICK i \in 1 .. Shown(s.kind) : t = ElemSpot(s, i)
    BY <1>3 DEF Opened
  <2>2. PICK j \in 1 .. Shown(s.kind) : u = ElemSpot(s, j)
    BY <1>3 DEF Opened
  <2>3. Append(s.path, i - 1) = Append(s.path, j - 1) /\ i - 1 \in Nat /\ j - 1 \in Nat
    BY <1>3, <2>1, <2>2, ElemSpotType
  <2>4. i - 1 = j - 1
    BY <1>1, <2>3, SamePath
  <2>5. i = j
    BY <2>4
  <2> QED
    BY <2>1, <2>2, <2>5
<1>4. CASE ~(s.kind.tag = "instance" /\ <<f.root, s.path>> \notin ex.collapsed)
           /\ ~(/\ s.kind.tag = "array" /\ NeedsDiscovery[s.kind.elem]
                /\ <<f.root, s.path>> \notin ex.collapsed)
  BY <1>4 DEF Opened
<1> QED
  BY <1>2, <1>3, <1>4

LEMMA TopsOnce ==
    ASSUME NEW f, f.cls \in Classes, f.path \in Paths, NEW t \in Tops(f), NEW u \in Tops(f),
           t.path = u.path
    PROVE  t = u
<1>1. PICK i \in DOMAIN Nodes[f.cls] : t = NodeSpot(f.cls, i, 0, f.path)
  BY DEF Tops
<1>2. PICK j \in DOMAIN Nodes[f.cls] : u = NodeSpot(f.cls, j, 0, f.path)
  BY DEF Tops
<1>3. Append(f.path, i - 1) = Append(f.path, j - 1) /\ i - 1 \in Nat /\ j - 1 \in Nat
  BY <1>1, <1>2, NodeSpotType
<1>4. i - 1 = j - 1 /\ i \in Nat /\ j \in Nat
  BY <1>3, SamePath, ClassNodes
<1>5. i = j
  BY <1>4
<1> QED
  BY <1>1, <1>2, <1>5

\* Of one path there is one node or element.
LEMMA OneSpot ==
    ASSUME NEW ex, NEW f, f.cls \in Classes, f.path \in Paths,
           NEW s \in Spots(ex, f), NEW t \in Spots(ex, f), s.path = t.path
    PROVE  s = t
<1> DEFINE T == {u \in Spots(ex, f) : \A v \in Spots(ex, f) : v.path = u.path => v = u}
<1>1. T \in SUBSET Spot
  BY SpotsAreClosed
<1>2. \A u \in Spots(ex, f) : u.path \in Paths
  BY SpotsAreClosed DEF Spot
<1>3. ASSUME NEW u \in Spots(ex, f), NEW v \in Spots(ex, f), u \in Tops(f), v.path = u.path
      PROVE  v = u
  <2>1. CASE v \in Tops(f)
    BY <1>3, <2>1, TopsOnce
  <2>2. CASE \E w \in Spots(ex, f) : v \in Opened(ex, f, w)
    <3>1. PICK w \in Spots(ex, f) : v \in Opened(ex, f, w)
      BY <2>2
    <3>2. w \in Spot
      BY SpotsAreClosed
    <3>3. PICK n \in Nat : v.path = Append(w.path, n)
      BY <3>1, <3>2, OpenedType
    <3>4. PICK m \in Nat : u.path = Append(f.path, m)
      BY <1>3, TopsType
    <3>5. w.path = f.path
      <4>1. Append(w.path, n) = Append(f.path, m) /\ w.path \in Paths /\ f.path \in Paths
        BY <1>2, <1>3, <3>3, <3>4
      <4> QED
        BY ONLY <4>1, SamePath, n \in Nat, m \in Nat, Zenon
    <3> QED
      BY <3>5, SpotDeeper
  <2> QED
    BY <2>1, <2>2, SpotOrigin
<1>4. ASSUME NEW w \in T, NEW u \in Opened(ex, f, w), NEW v \in Spots(ex, f), v.path = u.path
      PROVE  v = u
  <2>0. u \in Spots(ex, f) /\ w \in Spot
    BY SpotsAreClosed
  <2>1. CASE v \in Tops(f)
    BY <1>3, <1>4, <2>0, <2>1
  <2>2. CASE \E x \in Spots(ex, f) : v \in Opened(ex, f, x)
    <3>1. PICK x \in Spots(ex, f) : v \in Opened(ex, f, x)
      BY <2>2
    <3>2. x \in Spot
      BY SpotsAreClosed
    <3>3. PICK n \in Nat : v.path = Append(x.path, n)
      BY <3>1, <3>2, OpenedType
    <3>4. PICK m \in Nat : u.path = Append(w.path, m)
      BY <1>4, <2>0, OpenedType
    <3>5. x.path = w.path
      <4>1. Append(x.path, n) = Append(w.path, m) /\ x.path \in Paths /\ w.path \in Paths
        BY <1>2, <1>4, <3>3, <3>4
      <4> QED
        BY <4>1, SamePath
    <3>6. x = w
      BY <3>5
    <3> QED
      BY <1>4, <2>0, <3>1, <3>6, OpenedOnce
  <2> QED
    BY <2>1, <2>2, SpotOrigin
<1>5. SpotsClosed(ex, f, T)
  <2>1. Tops(f) \subseteq T
    BY <1>3, SpotsAreClosed
  <2>2. \A w \in T : Opened(ex, f, w) \subseteq T
    BY <1>4, SpotsAreClosed
  <2> QED
    BY <2>1, <2>2 DEF SpotsClosed
<1>6. Spots(ex, f) \subseteq T
  <2> HIDE DEF T
  <2> QED
    BY <1>1, <1>5, SpotsAreClosed
<1> QED
  BY <1>6

\* Among nodes and elements there is one with no other one's kind inside its own.
LEMMA LeastKind ==
    ASSUME NEW T, T # {}, \A t \in T : t.kind \in Kinds
    PROVE  \E t \in T : \A u \in T : u.kind \notin Inside(t.kind)
<1> DEFINE K == {k \in Kinds : \E t \in T : t.kind = k}
<1>1. K \in SUBSET Kinds /\ K # {}
  OBVIOUS
<1>2. PICK k \in K : Inside(k) \cap K = {}
  <2> HIDE DEF K
  <2> QED
    BY <1>1, KindsAssumption
<1>3. PICK t \in T : t.kind = k
  OBVIOUS
<1> QED
  BY <1>2, <1>3

-----------------------------------------------------------------------------
(* Discovery.                                                              *)

\* Whether the pointer at t is followed, and the frame that is asked for.
Wanted(ex, f, t) ==
    \/ /\ t.kind.tag = "class_ptr"
       /\ <<f.root, t.path>> \in ex.expanded
       /\ HoldsPointer(f, t.off)
    \/ /\ t.kind.tag = "text"
       /\ HoldsPointer(f, t.off)
       /\ PointerAt(f, t.off) # 0
       /\ t.kind.max > 0

Ask(f, t) ==
    IF t.kind.tag = "class_ptr"
    THEN FrameAt(t.kind.cls, PointerAt(f, t.off), f.depth + 1, f.root, t.path, 0)
    ELSE FrameAt(f.cls, PointerAt(f, t.off), f.depth + 1, f.root, t.path, t.kind.max)

LEMMA NoChildren == <<>> \in ChildMaps /\ DOMAIN <<>> = {}
<1>1. DOMAIN <<>> = {}
  OBVIOUS
<1>2. <<>> \in [{} -> Nat] /\ {} \in SUBSET Paths
  OBVIOUS
<1> QED
  BY <1>1, <1>2 DEF ChildMaps

LEMMA FrameAtType ==
    ASSUME NEW c \in Classes, NEW base \in Nat, NEW depth \in Nat, NEW root \in DOMAIN Roots,
           NEW path \in Paths, NEW text \in Nat
    PROVE  FrameAt(c, base, depth, root, path, text) \in FrameType
<1>1. <<>> \in Seq(Cells)
  OBVIOUS
<1> QED
  BY <1>1, NoChildren DEF FrameAt, FrameType

\* Any cells of a buffer, and the pointer they make.
LEMMA BufferCells ==
    ASSUME NEW s \in Seq(Cells), NEW off \in Nat, NEW n \in Nat, off + n <= Len(s)
    PROVE  /\ SubSeq(s, off + 1, off + n) \in Seq(Cells)
           /\ Len(SubSeq(s, off + 1, off + n)) = n
           /\ \A i \in 1 .. n : SubSeq(s, off + 1, off + n)[i] = s[off + i]
           /\ PtrOf(SubSeq(s, off + 1, off + n)) \in Nat
<1>1. Len(s) \in Nat /\ \A i \in off + 1 .. off + n : s[i] \in Cells
  BY ElementOfSeq, LenProperties
<1>2. off + 1 \in Int /\ off + n \in Int
  OBVIOUS
<1>3. /\ SubSeq(s, off + 1, off + n) \in Seq(Cells)
      /\ Len(SubSeq(s, off + 1, off + n)) =
             IF off + 1 <= off + n THEN (off + n) - (off + 1) + 1 ELSE 0
      /\ \A i \in 1 .. (off + n) - (off + 1) + 1 :
             SubSeq(s, off + 1, off + n)[i] = s[off + 1 + i - 1]
  BY <1>1, <1>2, SubSeqProperties
<1>4. (IF off + 1 <= off + n THEN (off + n) - (off + 1) + 1 ELSE 0) = n
  OBVIOUS
<1>5. \A i \in 1 .. n : i \in 1 .. (off + n) - (off + 1) + 1 /\ off + 1 + i - 1 = off + i
  OBVIOUS
<1>6. PtrOf(SubSeq(s, off + 1, off + n)) \in Nat
  BY <1>3, PointerType
<1>7. ASSUME NEW i \in 1 .. n PROVE SubSeq(s, off + 1, off + n)[i] = s[off + i]
  <2>1. SubSeq(s, off + 1, off + n)[i] = s[off + 1 + i - 1] /\ off + 1 + i - 1 = off + i
    BY <1>3, <1>5
  <2> QED
    BY ONLY <2>1, Zenon
<1>8. Len(SubSeq(s, off + 1, off + n)) = n
  BY <1>3, <1>4
<1> QED
  BY <1>3, <1>6, <1>7, <1>8

LEMMA PointerThere ==
    ASSUME NEW f, Filled(f), NEW off \in Nat, HoldsPointer(f, off)
    PROVE  PointerAt(f, off) \in Nat
<1>1. f.buf \in Seq(Cells) /\ f.len \in Nat /\ f.len <= Len(f.buf) /\ Len(f.buf) \in Nat
  BY LenProperties DEF Filled, FrameType
<1>2. PtrBytes \in Nat
  BY TargetAssumption
<1>3. off + PtrBytes <= Len(f.buf)
  BY <1>1, <1>2 DEF HoldsPointer
<1> QED
  BY <1>1, <1>2, <1>3, BufferCells DEF PointerAt

LEMMA AskType ==
    ASSUME NEW ex, NEW f, Filled(f), NEW t \in Spot, Wanted(ex, f, t)
    PROVE  Ask(f, t) \in FrameType
<1>1. /\ f.cls \in Classes /\ f.depth + 1 \in Nat /\ f.root \in DOMAIN Roots
      /\ t.kind \in Kinds /\ t.off \in Nat /\ t.path \in Paths
  BY DEF Filled, FrameType, Spot
<1>2. PointerAt(f, t.off) \in Nat
  BY <1>1, PointerThere DEF Wanted
<1>3. CASE t.kind.tag = "class_ptr"
  BY <1>1, <1>2, <1>3, FrameAtType, KindFields DEF Ask
<1>4. CASE t.kind.tag = "text"
  BY <1>1, <1>2, <1>4, FrameAtType, KindFields DEF Ask
<1> QED
  BY <1>3, <1>4 DEF Wanted

\* What is found at a node or an element: the frame it asks for, or what is
\* found inside.
LEMMA DiscoveredIs ==
    ASSUME NEW f, NEW found, NEW s \in Spot
    PROVE  /\ Wanted(expand, f, s) => Discovered(f, found, s) = <<Ask(f, s)>>
           /\ s.kind.tag = "instance" /\ <<f.root, s.path>> \notin expand.collapsed =>
                  Discovered(f, found, s) = InClass(found, s.kind.cls, s.off, s.path)
           /\ /\ s.kind.tag = "array" /\ NeedsDiscovery[s.kind.elem]
              /\ <<f.root, s.path>> \notin expand.collapsed
              => Discovered(f, found, s) = InArray(found, s)
           /\ /\ ~Wanted(expand, f, s)
              /\ ~(s.kind.tag = "instance" /\ <<f.root, s.path>> \notin expand.collapsed)
              /\ ~(/\ s.kind.tag = "array" /\ NeedsDiscovery[s.kind.elem]
                   /\ <<f.root, s.path>> \notin expand.collapsed)
              => Discovered(f, found, s) = <<>>
<1>1. ASSUME Wanted(expand, f, s) PROVE Discovered(f, found, s) = <<Ask(f, s)>>
  <2>1. CASE s.kind.tag = "class_ptr"
    BY <1>1, <2>1 DEF Wanted, Ask, Discovered, IsExpanded
  <2>2. CASE s.kind.tag = "text"
    BY <1>1, <2>2 DEF Wanted, Ask, Discovered
  <2> QED
    BY <1>1, <2>1, <2>2 DEF Wanted
<1>2. ASSUME s.kind.tag = "instance", <<f.root, s.path>> \notin expand.collapsed
      PROVE  Discovered(f, found, s) = InClass(found, s.kind.cls, s.off, s.path)
  BY <1>2 DEF Discovered, IsCollapsed
<1>3. ASSUME s.kind.tag = "array", NeedsDiscovery[s.kind.elem],
             <<f.root, s.path>> \notin expand.collapsed
      PROVE  Discovered(f, found, s) = InArray(found, s)
  BY <1>3 DEF Discovered, IsCollapsed
<1>4. ASSUME ~Wanted(expand, f, s),
             ~(s.kind.tag = "instance" /\ <<f.root, s.path>> \notin expand.collapsed),
             ~(/\ s.kind.tag = "array" /\ NeedsDiscovery[s.kind.elem]
               /\ <<f.root, s.path>> \notin expand.collapsed)
      PROVE  Discovered(f, found, s) = <<>>
  BY <1>4 DEF Discovered, Wanted, IsCollapsed, IsExpanded
<1> QED
  BY <1>1, <1>2, <1>3, <1>4

\* What is found inside a class or an array is what is found at each node or
\* element there.
LEMMA InClassHolds ==
    ASSUME NEW X, NEW found, NEW c \in Classes, NEW off, NEW path,
           \A i \in DOMAIN Nodes[c] : found[NodeSpot(c, i, off, path)] \in Seq(X)
    PROVE  /\ InClass(found, c, off, path) \in Seq(X)
           /\ \A i \in DOMAIN Nodes[c] : \A x :
                  Holds(found[NodeSpot(c, i, off, path)], x) =>
                      Holds(InClass(found, c, off, path), x)
<1> DEFINE n  == Len(Nodes[c])
           ss == [i \in DOMAIN Nodes[c] |-> found[NodeSpot(c, i, off, path)]]
<1>1. n \in Nat /\ DOMAIN Nodes[c] = 1 .. n
  BY ClassNodes
<1>2. \A i \in 1 .. n : ss[i] \in Seq(X) /\ ss[i] = found[NodeSpot(c, i, off, path)]
  BY <1>1
<1>3. InClass(found, c, off, path) = Concat(n, ss)
  BY DEF InClass
<1> HIDE DEF ss, n
<1>4. Concat(n, ss) \in Seq(X)
  BY <1>1, <1>2, ConcatType
<1>5. ASSUME NEW i \in 1 .. n, NEW x, Holds(ss[i], x) PROVE Holds(Concat(n, ss), x)
  BY <1>1, <1>2, <1>5, ConcatHolds
<1> QED
  BY <1>1, <1>2, <1>3, <1>4, <1>5

LEMMA InArrayHolds ==
    ASSUME NEW X, NEW found, NEW s \in Spot, s.kind.tag = "array",
           \A e \in 1 .. Shown(s.kind) : found[ElemSpot(s, e)] \in Seq(X)
    PROVE  /\ InArray(found, s) \in Seq(X)
           /\ \A e \in 1 .. Shown(s.kind) : \A x :
                  Holds(found[ElemSpot(s, e)], x) => Holds(InArray(found, s), x)
<1> DEFINE n  == Shown(s.kind)
           ss == [e \in 1 .. Shown(s.kind) |-> found[ElemSpot(s, e)]]
<1>1. n \in Nat
  BY ShownType DEF Spot
<1>2. \A i \in 1 .. n : ss[i] \in Seq(X) /\ ss[i] = found[ElemSpot(s, i)]
  OBVIOUS
<1>3. InArray(found, s) = Concat(n, ss)
  BY DEF InArray
<1> HIDE DEF ss
<1>4. Concat(n, ss) \in Seq(X)
  BY <1>1, <1>2, ConcatType
<1>5. ASSUME NEW i \in 1 .. n, NEW x, Holds(ss[i], x) PROVE Holds(Concat(n, ss), x)
  BY <1>1, <1>2, <1>5, ConcatHolds
<1> QED
  BY <1>2, <1>3, <1>4, <1>5

LEMMA DiscoveredType ==
    ASSUME NEW X, NEW f, NEW found, NEW s \in Spot,
           \A t \in Opened(expand, f, s) : found[t] \in Seq(X),
           Wanted(expand, f, s) => Ask(f, s) \in X
    PROVE  Discovered(f, found, s) \in Seq(X)
<1> DEFINE open == <<f.root, s.path>> \notin expand.collapsed
<1>1. s.kind \in Kinds
  BY DEF Spot
<1>2. CASE Wanted(expand, f, s)
  <2>1. Discovered(f, found, s) = <<Ask(f, s)>>
    BY <1>2, DiscoveredIs
  <2> QED
    BY <1>2, <2>1
<1>3. CASE s.kind.tag = "instance" /\ open
  <2> DEFINE c    == s.kind.cls
             off  == s.off
             path == s.path
  <2>1. c \in Classes
    BY <1>1, <1>3, KindFields
  <2>2. \A i \in DOMAIN Nodes[c] : found[NodeSpot(c, i, off, path)] \in Seq(X)
    BY <1>3 DEF Opened
  <2>3. Discovered(f, found, s) = InClass(found, c, off, path)
    BY <1>3, DiscoveredIs
  <2> HIDE DEF c, off, path
  <2>4. InClass(found, c, off, path) \in Seq(X)
    BY <2>1, <2>2, InClassHolds
  <2> QED
    BY <2>3, <2>4
<1>4. CASE s.kind.tag = "array" /\ NeedsDiscovery[s.kind.elem] /\ open
  <2>1. \A e \in 1 .. Shown(s.kind) : found[ElemSpot(s, e)] \in Seq(X)
    BY <1>4 DEF Opened
  <2> QED
    BY <1>4, <2>1, InArrayHolds, DiscoveredIs
<1>5. CASE /\ ~Wanted(expand, f, s)
           /\ ~(s.kind.tag = "instance" /\ open)
           /\ ~(s.kind.tag = "array" /\ NeedsDiscovery[s.kind.elem] /\ open)
  <2>1. Discovered(f, found, s) = <<>>
    BY <1>5, DiscoveredIs
  <2> QED
    BY <2>1
<1> QED
  BY <1>2, <1>3, <1>4, <1>5

LEMMA DiscoveredLocal ==
    ASSUME NEW f, NEW F, NEW H, NEW s \in Spot, \A t \in Opened(expand, f, s) : F[t] = H[t]
    PROVE  Discovered(f, F, s) = Discovered(f, H, s)
<1> DEFINE open == <<f.root, s.path>> \notin expand.collapsed
<1>1. s.kind \in Kinds
  BY DEF Spot
<1>2. CASE Wanted(expand, f, s)
  BY <1>2, DiscoveredIs
<1>3. CASE s.kind.tag = "instance" /\ open
  <2> DEFINE c == s.kind.cls
  <2>1. \A i \in DOMAIN Nodes[c] : F[NodeSpot(c, i, s.off, s.path)]
                               = H[NodeSpot(c, i, s.off, s.path)]
    BY <1>3 DEF Opened
  <2>2. [i \in DOMAIN Nodes[c] |-> F[NodeSpot(c, i, s.off, s.path)]] = [i \in DOMAIN Nodes[c] |-> H[NodeSpot(c, i, s.off, s.path)]]
    BY <2>1
  <2>3. InClass(F, c, s.off, s.path) = InClass(H, c, s.off, s.path)
    BY <2>2 DEF InClass
  <2> QED
    BY <1>3, <2>3, DiscoveredIs
<1>4. CASE s.kind.tag = "array" /\ NeedsDiscovery[s.kind.elem] /\ open
  <2>1. \A e \in 1 .. Shown(s.kind) : F[ElemSpot(s, e)] = H[ElemSpot(s, e)]
    BY <1>4 DEF Opened
  <2>2. [e \in 1 .. Shown(s.kind) |-> F[ElemSpot(s, e)]]
        = [e \in 1 .. Shown(s.kind) |-> H[ElemSpot(s, e)]]
    BY <2>1
  <2>3. InArray(F, s) = InArray(H, s)
    BY <2>2 DEF InArray
  <2> QED
    BY <1>4, <2>3, DiscoveredIs
<1>5. CASE /\ ~Wanted(expand, f, s)
           /\ ~(s.kind.tag = "instance" /\ open)
           /\ ~(s.kind.tag = "array" /\ NeedsDiscovery[s.kind.elem] /\ open)
  BY <1>5, DiscoveredIs
<1> QED
  BY <1>2, <1>3, <1>4, <1>5

LEMMA SpotsGrounded ==
    ASSUME NEW ex, NEW f
    PROVE  Grounded(Spot, [s \in Spot |-> Opened(ex, f, s)])
<1> DEFINE under == [s \in Spot |-> Opened(ex, f, s)]
<1>1. under \in [Spot -> SUBSET Spot]
  BY OpenedType
<1>2. ASSUME NEW T \in SUBSET Spot, T # {} PROVE \E s \in T : under[s] \cap T = {}
  <2>1. \A t \in T : t.kind \in Kinds
    BY DEF Spot
  <2>2. PICK s \in T : \A u \in T : u.kind \notin Inside(s.kind)
    BY <1>2, <2>1, LeastKind
  <2>3. \A u \in under[s] : u.kind \in Inside(s.kind)
    BY OpenedType
  <2> QED
    BY <2>2, <2>3
<1> QED
  BY <1>1, <1>2 DEF Grounded

\* What is found is what is said to be discovered, all the way down.
LEMMA FoundIs ==
    ASSUME NEW f, Filled(f)
    PROVE  \A s \in Spot : Found(f)[s] = Discovered(f, Found(f), s)
<1> DEFINE X     == Seq(FrameType)
           under == [s \in Spot |-> Opened(expand, f, s)]
           G     == [F \in [Spot -> X] |-> [s \in Spot |-> Discovered(f, F, s)]]
<1>1. Grounded(Spot, under)
  BY SpotsGrounded
<1>2. ASSUME NEW F \in [Spot -> X], NEW s \in Spot PROVE Discovered(f, F, s) \in X
  <2>1. \A t \in Opened(expand, f, s) : F[t] \in Seq(FrameType)
    BY OpenedType
  <2>2. Wanted(expand, f, s) => Ask(f, s) \in FrameType
    BY AskType
  <2> QED
    BY <2>1, <2>2, DiscoveredType
<1>3. Local(Spot, X, under, G)
  <2> HIDE DEF X
  <2>1. G \in [[Spot -> X] -> [Spot -> X]]
    BY <1>2
  <2>2. ASSUME NEW F \in [Spot -> X], NEW H \in [Spot -> X], NEW s \in Spot,
               \A t \in under[s] : F[t] = H[t]
        PROVE  G[F][s] = G[H][s]
    <3>1. Discovered(f, F, s) = Discovered(f, H, s)
      BY <2>2, DiscoveredLocal
    <3> QED
      BY <3>1
  <2> HIDE DEF under, G
  <2> QED
    BY <2>1, <2>2 DEF Local
<1>4. X # {}
  <2>1. <<>> \in Seq(FrameType)
    OBVIOUS
  <2> QED
    BY <2>1
<1>5. HasFixpoint(Spot, X, G)
  <2> HIDE DEF X, G, under
  <2> QED
    BY <1>1, <1>3, <1>4, Defined
<1>6. PICK F \in [Spot -> X] : F = [s \in Spot |-> Discovered(f, F, s)]
  <2> HIDE DEF X
  <2> QED
    BY <1>5 DEF HasFixpoint
<1> DEFINE found[s \in Spot] == Discovered(f, found, s)
<1>7. found = [s \in Spot |-> Discovered(f, found, s)]
  BY <1>6
<1>8. Found(f) = found
  BY DEF Found
<1> HIDE DEF found
<1> QED
  BY <1>7, <1>8

Asks(ex, f) == {Ask(f, t) : t \in {u \in Spots(ex, f) : Wanted(ex, f, u)}}

\* What is found where discovery comes is what is asked for there or inside.
LEMMA FoundSound ==
    ASSUME NEW f, Filled(f), NEW s \in Spots(expand, f)
    PROVE  Found(f)[s] \in Seq(Asks(expand, f))
<1> DEFINE X     == Asks(expand, f)
           under == [t \in Spot |-> Opened(expand, f, t)]
           S     == {t \in Spot : t \in Spots(expand, f) => Found(f)[t] \in Seq(X)}
<1>1. f.cls \in Classes /\ f.path \in Paths
  BY DEF Filled, FrameType
<1>2. ASSUME NEW t \in Spot, \A u \in under[t] : u \in S PROVE t \in S
  <2> SUFFICES ASSUME t \in Spots(expand, f) PROVE Found(f)[t] \in Seq(X)
    OBVIOUS
  <2>1. \A u \in Opened(expand, f, t) : Found(f)[u] \in Seq(X)
    BY <1>1, <1>2, SpotsAreClosed
  <2>2. Wanted(expand, f, t) => Ask(f, t) \in X
    BY DEF Asks
  <2>3. Discovered(f, Found(f), t) \in Seq(X)
    <3> HIDE DEF X
    <3> QED
      BY <2>1, <2>2, DiscoveredType
  <2> QED
    BY <2>3, FoundIs
<1>3. Spot \subseteq S
  <2>1. Grounded(Spot, under)
    BY SpotsGrounded
  <2> HIDE DEF S, under
  <2> QED
    BY <1>2, <2>1, GroundUp
<1> QED
  BY <1>1, <1>3, SpotsAreClosed

\* What is inside is found.
LEMMA FoundInside ==
    ASSUME NEW f, Filled(f), NEW s \in Spots(expand, f), NEW t \in Opened(expand, f, s),
           NEW x, Holds(Found(f)[t], x)
    PROVE  Holds(Found(f)[s], x)
<1> DEFINE open == <<f.root, s.path>> \notin expand.collapsed
           X    == Asks(expand, f)
<1>1. f.cls \in Classes /\ f.path \in Paths
  BY DEF Filled, FrameType
<1>2. /\ s \in Spot /\ s.kind \in Kinds
      /\ \A u \in Opened(expand, f, s) : Found(f)[u] \in Seq(X)
  BY <1>1, FoundSound, SpotsAreClosed DEF Spot
<1>3. Found(f)[s] = Discovered(f, Found(f), s)
  BY <1>2, FoundIs
<1> HIDE DEF X
<1>4. CASE s.kind.tag = "instance" /\ open
  <2>1. s.kind.cls \in Classes
    BY <1>2, <1>4, KindFields
  <2>2. \A i \in DOMAIN Nodes[s.kind.cls] :
            Found(f)[NodeSpot(s.kind.cls, i, s.off, s.path)] \in Seq(X)
    BY <1>2, <1>4 DEF Opened
  <2>3. PICK i \in DOMAIN Nodes[s.kind.cls] : t = NodeSpot(s.kind.cls, i, s.off, s.path)
    BY <1>4 DEF Opened
  <2>4. Holds(InClass(Found(f), s.kind.cls, s.off, s.path), x)
    BY <2>1, <2>2, <2>3, InClassHolds
  <2> QED
    BY <1>2, <1>3, <1>4, <2>4, DiscoveredIs
<1>5. CASE s.kind.tag = "array" /\ NeedsDiscovery[s.kind.elem] /\ open
  <2>1. \A e \in 1 .. Shown(s.kind) : Found(f)[ElemSpot(s, e)] \in Seq(X)
    BY <1>2, <1>5 DEF Opened
  <2>2. PICK e \in 1 .. Shown(s.kind) : t = ElemSpot(s, e)
    BY <1>5 DEF Opened
  <2>3. Holds(InArray(Found(f), s), x)
    BY <1>2, <1>5, <2>1, <2>2, InArrayHolds
  <2> QED
    BY <1>2, <1>3, <1>5, <2>3, DiscoveredIs
<1>6. CASE ~(s.kind.tag = "instance" /\ open)
           /\ ~(s.kind.tag = "array" /\ NeedsDiscovery[s.kind.elem] /\ open)
  BY <1>6 DEF Opened
<1> QED
  BY <1>4, <1>5, <1>6

\* A frame asks for what is wanted at one of its nodes or elements, and for
\* nothing else.
LEMMA SpecsSound ==
    ASSUME NEW f, Filled(f)
    PROVE  /\ Specs(f) \in Seq(Asks(expand, f))
           /\ IsText(f) => Specs(f) = <<>>
<1>1. f.cls \in Classes /\ f.path \in Paths
  BY DEF Filled, FrameType
<1>2. CASE ~f.readable \/ IsText(f)
  BY <1>2 DEF Specs
<1>3. CASE ~(~f.readable \/ IsText(f))
  <2>1. \A i \in DOMAIN Nodes[f.cls] :
            Found(f)[NodeSpot(f.cls, i, 0, f.path)] \in Seq(Asks(expand, f))
    BY <1>1, FoundSound, SpotsAreClosed DEF Tops
  <2>2. InClass(Found(f), f.cls, 0, f.path) \in Seq(Asks(expand, f))
    BY <1>1, <2>1, InClassHolds
  <2> QED
    BY <1>3, <2>2 DEF Specs
<1> QED
  BY <1>2, <1>3

LEMMA SpecsComplete ==
    ASSUME NEW f, Filled(f), f.readable, ~IsText(f),
           NEW t \in Spots(expand, f), Wanted(expand, f, t)
    PROVE  Holds(Specs(f), Ask(f, t))
<1> DEFINE W == {s \in Spots(expand, f) : \A x : Holds(Found(f)[s], x) => Holds(Specs(f), x)}
<1>1. f.cls \in Classes /\ f.path \in Paths
  BY DEF Filled, FrameType
<1>2. W \in SUBSET Spot
  BY <1>1, SpotsAreClosed
<1>3. ASSUME NEW s \in Tops(f) PROVE s \in W
  <2>1. \A i \in DOMAIN Nodes[f.cls] :
            Found(f)[NodeSpot(f.cls, i, 0, f.path)] \in Seq(Asks(expand, f))
    BY <1>1, FoundSound, SpotsAreClosed DEF Tops
  <2>2. PICK i \in DOMAIN Nodes[f.cls] : s = NodeSpot(f.cls, i, 0, f.path)
    BY DEF Tops
  <2>3. Specs(f) = InClass(Found(f), f.cls, 0, f.path)
    BY DEF Specs
  <2>4. \A x : Holds(Found(f)[s], x) => Holds(Specs(f), x)
    BY <1>1, <2>1, <2>2, <2>3, InClassHolds
  <2> QED
    BY <1>1, <2>4, SpotsAreClosed
<1>4. ASSUME NEW s \in W, NEW u \in Opened(expand, f, s) PROVE u \in W
  <2>1. u \in Spots(expand, f)
    BY <1>1, SpotsAreClosed
  <2>2. \A x : Holds(Found(f)[u], x) => Holds(Found(f)[s], x)
    BY FoundInside
  <2> QED
    BY <2>1, <2>2
<1>5. SpotsClosed(expand, f, W)
  <2> HIDE DEF W
  <2> QED
    BY <1>3, <1>4 DEF SpotsClosed
<1>6. t \in W
  <2> HIDE DEF W
  <2> QED
    BY <1>1, <1>2, <1>5, SpotsAreClosed
<1>7. Found(f)[t] = <<Ask(f, t)>>
  <2>1. t \in Spot
    BY <1>1, SpotsAreClosed
  <2> QED
    BY <2>1, FoundIs, DiscoveredIs
<1>8. Holds(Found(f)[t], Ask(f, t))
  <2>1. Len(<<Ask(f, t)>>) = 1 /\ <<Ask(f, t)>>[1] = Ask(f, t)
    OBVIOUS
  <2> QED
    BY <1>7, <2>1 DEF Holds
<1> QED
  BY <1>6, <1>8

-----------------------------------------------------------------------------
(* Reads.                                                                  *)

\* Two states of one frame.
SameFrame(f, g) ==
    /\ f.cls = g.cls /\ f.base = g.base /\ f.depth = g.depth
    /\ f.root = g.root /\ f.path = g.path /\ f.text = g.text

\* The first n cells of a buffer were in one of the images at that address.
FromTarget(sn, base, buf, n) ==
    \A i \in 1 .. n : \E m \in DOMAIN sn :
        base + i - 1 \in DOMAIN sn[m] /\ sn[m][base + i - 1] = buf[i]

\* A frame that has been read: all of it, or what there is up to a gap that is
\* a gap of the target if the target has kept still.
IsRead(sn, f) ==
    /\ f.readable <=> ReadLength(f) = 0 \/ f.len > 0
    /\ Len(f.buf) = ReadLength(f)
    /\ f.len <= ReadLength(f)
    /\ FromTarget(sn, f.base, f.buf, f.len)
    /\ Len(sn) = 1 => f.len = ReadLength(f) \/ f.base + f.len \notin DOMAIN sn[1]

Untouched(f) == f.len = 0 /\ ~f.readable /\ f.children = <<>>

LEMMA ReadLengthType ==
    ASSUME NEW f \in FrameType
    PROVE  /\ ReadLength(f) \in Nat
           /\ \A g : SameFrame(f, g) => ReadLength(g) = ReadLength(f)
<1>1. f.text \in Nat /\ SizeOf(f.cls) \in Nat /\ MaxClass \in Nat
  BY ClassSizes, TargetAssumption DEF FrameType
<1>2. ReadLength(f) \in Nat
  BY <1>1 DEF ReadLength, Capped
<1>3. ASSUME NEW g, SameFrame(f, g) PROVE ReadLength(g) = ReadLength(f)
  <2>1. f.text = g.text /\ f.cls = g.cls
    BY <1>3 DEF SameFrame
  <2> QED
    BY <2>1 DEF ReadLength, IsText
<1> QED
  BY <1>2, <1>3

LEMMA ZerosType ==
    ASSUME NEW n \in Nat
    PROVE  Zeros(n) \in Seq(Cells) /\ Len(Zeros(n)) = n
<1>1. 0 \in Cells
  BY TargetAssumption DEF Cells
<1>2. Zeros(n) \in [1 .. n -> Cells]
  BY <1>1 DEF Zeros
<1> QED
  BY <1>2

\* A frame with what was read of it.
LEMMA ReadToIs ==
    ASSUME NEW f \in FrameType, NEW sn, NEW cells \in Seq(Cells), Len(cells) <= ReadLength(f),
           FromTarget(sn, f.base, cells, Len(cells)),
           Len(sn) = 1 => \/ Len(cells) = ReadLength(f)
                          \/ f.base + Len(cells) \notin DOMAIN sn[1]
    PROVE  /\ ReadTo(f, cells) \in FrameType
           /\ SameFrame(f, ReadTo(f, cells))
           /\ ReadTo(f, cells).children = f.children
           /\ IsRead(sn, ReadTo(f, cells))
<1> DEFINE n   == ReadLength(f)
           z   == Zeros(n - Len(cells))
           g   == ReadTo(f, cells)
           buf == cells \o z
<1>1. n \in Nat /\ Len(cells) \in Nat /\ n - Len(cells) \in Nat
  BY ReadLengthType, LenProperties
<1>2. z \in Seq(Cells) /\ Len(z) = n - Len(cells)
  BY <1>1, ZerosType
<1> HIDE DEF z
<1>3. /\ buf \in Seq(Cells) /\ Len(buf) = Len(cells) + Len(z)
      /\ \A i \in 1 .. Len(cells) : buf[i] = cells[i]
  BY <1>2, TwoSequences
<1>4. Len(buf) = n
  BY <1>1, <1>2, <1>3
<1> HIDE DEF buf
<1>5. g = [f EXCEPT !.buf = buf, !.readable = n = 0 \/ cells # <<>>, !.len = Len(cells)]
  BY DEF ReadTo, buf, z
<1>6. /\ g.cls = f.cls /\ g.base = f.base /\ g.depth = f.depth /\ g.root = f.root
      /\ g.path = f.path /\ g.text = f.text /\ g.children = f.children
      /\ g.buf = buf /\ g.len = Len(cells) /\ g.readable = (n = 0 \/ cells # <<>>)
  BY <1>5 DEF FrameType
<1>7. g \in FrameType
  <2> HIDE DEF n
  <2> QED
    BY <1>1, <1>3, <1>5 DEF FrameType
<1> HIDE DEF g
<1>8. SameFrame(f, g)
  BY <1>6 DEF SameFrame
<1>9. ReadLength(g) = n
  BY <1>8, ReadLengthType
<1>10. cells # <<>> <=> Len(cells) > 0
  BY EmptySeq
<1>11. FromTarget(sn, g.base, g.buf, g.len)
  BY <1>3, <1>6 DEF FromTarget
<1>12. IsRead(sn, g)
  <2>1. g.readable <=> ReadLength(g) = 0 \/ g.len > 0
    BY <1>6, <1>9, <1>10
  <2>2. Len(g.buf) = ReadLength(g) /\ g.len <= ReadLength(g)
    BY <1>4, <1>6, <1>9
  <2>3. Len(sn) = 1 => g.len = ReadLength(g) \/ g.base + g.len \notin DOMAIN sn[1]
    BY <1>6, <1>9
  <2> QED
    BY <1>11, <2>1, <2>2, <2>3 DEF IsRead
<1> QED
  BY <1>6, <1>7, <1>8, <1>12 DEF g

LEMMA ReadFullyIs ==
    ASSUME NEW f \in FrameType, NEW sn, mem \in Images, sn # <<>>, sn \in Seq(Images),
           mem = sn[Len(sn)], Readable(f)
    PROVE  /\ ReadFully(f) \in FrameType
           /\ SameFrame(f, ReadFully(f))
           /\ ReadFully(f).children = f.children
           /\ IsRead(sn, ReadFully(f))
<1> DEFINE cells == CellsAt(mem, f.base, ReadLength(f))
<1>1. f.base \in Nat /\ ReadLength(f) \in Nat
  BY ReadLengthType DEF FrameType
<1>2. /\ cells \in Seq(Cells) /\ Len(cells) = ReadLength(f)
      /\ \A i \in 1 .. ReadLength(f) : cells[i] = mem[f.base + i - 1]
                                   /\ f.base + i - 1 \in DOMAIN mem
  BY <1>1, CellsRead DEF Readable
<1>3. Len(sn) \in DOMAIN sn
  BY LenProperties
<1> HIDE DEF cells
<1>4. FromTarget(sn, f.base, cells, Len(cells))
  BY <1>2, <1>3 DEF FromTarget
<1>5. Len(cells) <= ReadLength(f)
  BY <1>1, <1>2
<1>6. ReadFully(f) = ReadTo(f, cells)
  BY DEF ReadFully, cells
<1> QED
  BY <1>2, <1>4, <1>5, <1>6, ReadToIs

-----------------------------------------------------------------------------
(* The tree of frames.                                                     *)

\* The pointers that frame fi has followed, each to a frame behind it.
KidsOK(ex, fs, fi) ==
    \A p \in DOMAIN fs[fi].children :
        /\ fs[fi].children[p] \in fi + 1 .. Len(fs)
        /\ \E t \in Spots(ex, fs[fi]) :
               /\ Wanted(ex, fs[fi], t)
               /\ t.path = p
               /\ SameFrame(Ask(fs[fi], t), fs[fs[fi].children[p]])

\* It has followed all there were to follow.
AllFollowed(ex, fs, fi) ==
    ~IsText(fs[fi]) =>
        \A t \in Spots(ex, fs[fi]) :
            Wanted(ex, fs[fi], t) => t.path \in DOMAIN fs[fi].children

LEMMA AskFresh ==
    ASSUME NEW f, NEW t
    PROVE  Untouched(Ask(f, t)) /\ Ask(f, t).path = t.path
BY DEF Ask, FrameAt, Untouched

\* Frames that differ in what they have followed only look for the same.
LEMMA SameSearch ==
    ASSUME NEW ex, NEW f, NEW g, SameFrame(f, g), f.buf = g.buf, f.len = g.len
    PROVE  /\ Spots(ex, f) = Spots(ex, g)
           /\ \A t : (Wanted(ex, f, t) <=> Wanted(ex, g, t)) /\ Ask(f, t) = Ask(g, t)
<1>1. f.cls = g.cls /\ f.path = g.path /\ f.root = g.root /\ f.depth = g.depth
  BY DEF SameFrame
<1>2. Tops(f) = Tops(g)
  BY <1>1 DEF Tops
<1>3. \A s : Opened(ex, f, s) = Opened(ex, g, s)
  BY <1>1 DEF Opened
<1>4. \A T : SpotsClosed(ex, f, T) <=> SpotsClosed(ex, g, T)
  BY <1>2, <1>3 DEF SpotsClosed
<1>5. Spots(ex, f) = Spots(ex, g)
  BY <1>4 DEF Spots
<1>6. \A off : PointerAt(f, off) = PointerAt(g, off)
             /\ (HoldsPointer(f, off) <=> HoldsPointer(g, off))
  BY DEF PointerAt, HoldsPointer
<1>7. ASSUME NEW t PROVE (Wanted(ex, f, t) <=> Wanted(ex, g, t)) /\ Ask(f, t) = Ask(g, t)
  <2>1. Wanted(ex, f, t) <=> Wanted(ex, g, t)
    BY <1>1, <1>6 DEF Wanted
  <2>2. Ask(f, t) = Ask(g, t)
    BY <1>1, <1>6 DEF Ask
  <2> QED
    BY <2>1, <2>2
<1> QED
  BY <1>5, <1>7

\* Reading the frames behind leaves the tree as it is, and so do new ones.
LEMMA ReadsKeepTree ==
    ASSUME NEW ex, NEW fs, NEW gs, Len(fs) \in Nat, Len(gs) \in Nat, Len(fs) <= Len(gs),
           \A i \in 1 .. Len(fs) : SameFrame(fs[i], gs[i]),
           NEW fi \in 1 .. Len(fs), gs[fi] = fs[fi], KidsOK(ex, fs, fi)
    PROVE  KidsOK(ex, gs, fi)
<1> SUFFICES ASSUME NEW p \in DOMAIN gs[fi].children
             PROVE  /\ gs[fi].children[p] \in fi + 1 .. Len(gs)
                    /\ \E t \in Spots(ex, gs[fi]) :
                           /\ Wanted(ex, gs[fi], t)
                           /\ t.path = p
                           /\ SameFrame(Ask(gs[fi], t), gs[gs[fi].children[p]])
  BY DEF KidsOK
<1> DEFINE c == fs[fi].children[p]
<1>1. c \in fi + 1 .. Len(fs)
  BY DEF KidsOK
<1>2. PICK t \in Spots(ex, fs[fi]) :
          Wanted(ex, fs[fi], t) /\ t.path = p /\ SameFrame(Ask(fs[fi], t), fs[c])
  BY DEF KidsOK
<1>3. c \in 1 .. Len(fs) /\ c \in fi + 1 .. Len(gs)
  BY <1>1
<1>4. SameFrame(Ask(fs[fi], t), gs[c])
  BY <1>2, <1>3 DEF SameFrame
<1> QED
  BY <1>2, <1>3, <1>4

-----------------------------------------------------------------------------
(* What holds in every state of a snapshot.                                *)

OneByOne == {"alone", "chunks", "bytes"}

\* The frames of the earlier levels, and all that have been read.
Older == Len(frames) - Len(wave)

ReadCount ==
    IF phase = "scatter" THEN Older ELSE IF phase \in OneByOne THEN Older + at - 1 ELSE Len(frames)

SnapTypes ==
    /\ mem \in Images /\ seen \in Seq(Images) /\ seen # <<>> /\ mem = seen[Len(seen)]
    /\ expand \in Expansions
    /\ frames \in Seq(FrameType)
    /\ wave \in Seq(Nat) /\ Len(wave) <= Len(frames)
    /\ \A i \in 1 .. Len(wave) : wave[i] = Older + i
    /\ phase \in OneByOne \cup {"scatter", "discover", "done"}
    /\ phase \in OneByOne => at \in 1 .. Len(wave)
    /\ have \in Nat /\ levels \in Nat

\* The frames are read in order, and of the one that is being read there is
\* more to come.
FramesRead ==
    /\ \A fi \in 1 .. ReadCount : IsRead(seen, frames[fi])
    /\ \A fi \in ReadCount + 1 .. Len(frames) : Untouched(frames[fi])
    /\ phase \notin {"chunks", "bytes"} => have = 0
    /\ phase \in {"chunks", "bytes"} =>
           /\ have < ReadLength(Current) /\ have <= Len(Current.buf)
           /\ FromTarget(seen, Current.base, Current.buf, have)

\* The frames are the roots' and, level by level, those that the pointers of
\* earlier ones lead to.
TreeOK ==
    /\ Len(Roots) <= Len(frames)
    /\ \A r \in 1 .. Len(Roots) :
           SameFrame(FrameAt(Roots[r].cls, Roots[r].base, 0, r, <<>>, 0), frames[r])
    /\ \A fi \in Older + 1 .. Len(frames) : frames[fi].children = <<>>
    /\ \A fi \in 1 .. Older : KidsOK(expand, frames, fi) /\ AllFollowed(expand, frames, fi)

RowType ==
    [path : Paths, root : DOMAIN Roots, depth : Nat, offset : Nat, address : Nat,
     kind : Kinds \cup {[tag |-> "more"]}, readable : BOOLEAN, value : Seq(Int),
     text : Seq(Cells)]

\* Rows are trees rendered flat, each view's by itself: a row that is no root's
\* comes behind one of the same view that is at most one less deep.
Hanging(s) ==
    \A i \in DOMAIN s :
        s[i].depth > 0 => i > 1 /\ s[i - 1].root = s[i].root /\ s[i].depth <= s[i - 1].depth + 1

RowsOK ==
    /\ phase # "done" => rows = <<>>
    /\ phase = "done" => RowsTrue
    /\ rows \in Seq(RowType) /\ Hanging(rows)

SnapInv == SnapTypes /\ FramesRead /\ TreeOK /\ RowsOK

\* The numbers that the invariant is about.
LEMMA Counts ==
    ASSUME SnapTypes
    PROVE  /\ Len(frames) \in Nat /\ Len(wave) \in Nat /\ Older \in Nat
           /\ Older + Len(wave) = Len(frames)
           /\ DOMAIN frames = 1 .. Len(frames) /\ DOMAIN wave = 1 .. Len(wave)
           /\ \A fi \in 1 .. Len(frames) : frames[fi] \in FrameType
           /\ \A fi \in 1 .. Len(frames) : InWave(fi) <=> fi \in Older + 1 .. Len(frames)
           /\ phase \in OneByOne => /\ wave[at] = Older + at
                                    /\ Older + at \in 1 .. Len(frames)
                                    /\ Current = frames[Older + at]
                                    /\ Current \in FrameType
<1>1. Len(frames) \in Nat /\ Len(wave) \in Nat
  BY LenProperties DEF SnapTypes
<1>2. DOMAIN frames = 1 .. Len(frames) /\ DOMAIN wave = 1 .. Len(wave)
  BY LenProperties DEF SnapTypes
<1>3. \A fi \in 1 .. Len(frames) : frames[fi] \in FrameType
  BY ElementOfSeq DEF SnapTypes
<1>4. Older \in Nat /\ Older + Len(wave) = Len(frames)
  BY <1>1 DEF SnapTypes, Older
<1>5. ASSUME NEW fi \in 1 .. Len(frames)
      PROVE  InWave(fi) <=> fi \in Older + 1 .. Len(frames)
  <2>1. \A i \in 1 .. Len(wave) : wave[i] = Older + i
    BY DEF SnapTypes
  <2>2. ASSUME fi \in Older + 1 .. Len(frames) PROVE InWave(fi)
    <3>1. fi - Older \in 1 .. Len(wave) /\ Older + (fi - Older) = fi
      BY <1>1, <1>4, <2>2
    <3> QED
      BY <1>2, <2>1, <3>1 DEF InWave
  <2>3. ASSUME InWave(fi) PROVE fi \in Older + 1 .. Len(frames)
    <3>1. PICK i \in 1 .. Len(wave) : wave[i] = fi
      BY <1>2, <2>3 DEF InWave
    <3> QED
      BY <1>1, <1>4, <2>1, <3>1
  <2> QED
    BY <2>2, <2>3
<1>6. ASSUME phase \in OneByOne
      PROVE  /\ wave[at] = Older + at
             /\ Older + at \in 1 .. Len(frames)
             /\ Current = frames[Older + at]
             /\ Current \in FrameType
  <2>1. at \in 1 .. Len(wave) /\ wave[at] = Older + at
    BY <1>6 DEF SnapTypes
  <2>2. Older + at \in 1 .. Len(frames)
    BY <1>1, <1>4, <2>1
  <2> QED
    BY <1>3, <2>1, <2>2 DEF Current
<1> QED
  BY <1>1, <1>2, <1>3, <1>4, <1>5, <1>6

\* Frames are read and nothing else is touched: the tree stays.
LEMMA TreeKept ==
    ASSUME SnapTypes, TreeOK, frames' \in Seq(FrameType), Len(frames') = Len(frames),
           wave' = wave, expand' = expand,
           \A fi \in 1 .. Len(frames) : /\ SameFrame(frames[fi], frames'[fi])
                                        /\ frames'[fi].children = frames[fi].children,
           \A fi \in 1 .. Older : frames'[fi] = frames[fi]
    PROVE  TreeOK' /\ Older' = Older
<1>1. Len(frames) \in Nat /\ Len(wave) \in Nat /\ Older \in Nat /\ Older <= Len(frames)
  BY Counts
<1>2. Older' = Older
  BY DEF Older
<1>3. Len(Roots) \in Nat
  BY TargetAssumption, LenProperties
<1>4. ASSUME NEW r \in 1 .. Len(Roots)
      PROVE  SameFrame(FrameAt(Roots[r].cls, Roots[r].base, 0, r, <<>>, 0), frames'[r])
  <2>1. r \in 1 .. Len(frames)
    BY <1>1, <1>3 DEF TreeOK
  <2>2. SameFrame(FrameAt(Roots[r].cls, Roots[r].base, 0, r, <<>>, 0), frames[r])
    BY DEF TreeOK
  <2>3. SameFrame(frames[r], frames'[r])
    BY <2>1
  <2> QED
    BY <2>2, <2>3 DEF SameFrame
<1>5. \A fi \in Older + 1 .. Len(frames) : frames'[fi].children = <<>>
  <2>1. \A fi \in Older + 1 .. Len(frames) : fi \in 1 .. Len(frames)
    BY <1>1
  <2> QED
    BY <2>1 DEF TreeOK
<1>6. ASSUME NEW fi \in 1 .. Older
      PROVE  KidsOK(expand, frames', fi) /\ AllFollowed(expand, frames', fi)
  <2>1. fi \in 1 .. Len(frames) /\ frames'[fi] = frames[fi]
    BY <1>1
  <2>2. KidsOK(expand, frames, fi) /\ AllFollowed(expand, frames, fi)
    BY DEF TreeOK
  <2>3. KidsOK(expand, frames', fi)
    BY <1>1, <2>1, <2>2, ReadsKeepTree
  <2>4. AllFollowed(expand, frames', fi)
    BY <2>1, <2>2 DEF AllFollowed
  <2> QED
    BY <2>3, <2>4
<1>7. Len(Roots) <= Len(frames')
  BY DEF TreeOK
<1> QED
  BY <1>2, <1>4, <1>5, <1>6, <1>7 DEF TreeOK

\* The frame that is read on its own is done with.
LEMMA Settled ==
    ASSUME SnapInv, phase \in OneByOne, NEW g \in FrameType, Settle(g),
           SameFrame(Current, g), g.children = Current.children, IsRead(seen, g)
    PROVE  SnapInv'
<1> USE DEF SnapInv
<1> DEFINE cur == Older + at
<1>1. /\ Len(frames) \in Nat /\ Len(wave) \in Nat /\ Older \in Nat
      /\ Older + Len(wave) = Len(frames) /\ DOMAIN frames = 1 .. Len(frames)
      /\ \A fi \in 1 .. Len(frames) : frames[fi] \in FrameType
      /\ wave[at] = cur /\ cur \in 1 .. Len(frames) /\ Current = frames[cur]
      /\ at \in 1 .. Len(wave)
  BY Counts DEF SnapTypes
<1>2. /\ frames' = [frames EXCEPT ![cur] = g]
      /\ at' = at + 1 /\ have' = 0
      /\ phase' = IF at < Len(wave) THEN "alone" ELSE "discover"
      /\ mem' = mem /\ seen' = seen /\ expand' = expand /\ wave' = wave
      /\ levels' = levels /\ rows' = rows
  BY <1>1 DEF Settle
<1>3. /\ frames' \in Seq(FrameType) /\ Len(frames') = Len(frames)
      /\ frames'[cur] = g
      /\ \A fi \in 1 .. Len(frames) : fi # cur => frames'[fi] = frames[fi]
  BY <1>1, <1>2, ExceptSeq DEF SnapTypes
<1>4. TreeOK' /\ Older' = Older
  <2>1. ASSUME NEW fi \in 1 .. Len(frames)
        PROVE  SameFrame(frames[fi], frames'[fi]) /\ frames'[fi].children = frames[fi].children
    <3>1. CASE fi = cur
      BY <1>1, <1>3, <3>1
    <3>2. CASE fi # cur
      BY <1>3, <3>2 DEF SameFrame
    <3> QED
      BY <3>1, <3>2
  <2>2. \A fi \in 1 .. Older : fi \in 1 .. Len(frames) /\ fi # cur
    BY <1>1
  <2>3. \A fi \in 1 .. Older : frames'[fi] = frames[fi]
    BY <1>3, <2>2
  <2> QED
    BY <1>2, <1>3, <2>1, <2>3, TreeKept
<1>5. SnapTypes'
  <2>1. phase' \in OneByOne \cup {"scatter", "discover", "done"}
    BY <1>2 DEF OneByOne
  <2>2. phase' \in OneByOne => at' \in 1 .. Len(wave')
    <3>1. at < Len(wave) => at + 1 \in 1 .. Len(wave)
      BY <1>1
    <3> QED
      BY <1>2, <3>1 DEF OneByOne
  <2>3. \A i \in 1 .. Len(wave') : wave'[i] = Older' + i
    BY <1>2, <1>4 DEF SnapTypes
  <2>4. Len(wave') <= Len(frames')
    BY <1>2, <1>3 DEF SnapTypes
  <2> QED
    BY <1>2, <1>3, <2>1, <2>2, <2>3, <2>4 DEF SnapTypes
<1>6. ReadCount = cur - 1 /\ ReadCount' = cur
  <2>1. ReadCount = cur - 1
    BY <1>1 DEF ReadCount, OneByOne
  <2>2. CASE at < Len(wave)
    <3>1. phase' = "alone" /\ at' = at + 1
      BY <1>2, <2>2
    <3>2. Older + (at + 1) - 1 = cur
      BY <1>1
    <3> QED
      BY <1>4, <2>1, <3>1, <3>2 DEF ReadCount, OneByOne
  <2>3. CASE ~(at < Len(wave))
    <3>1. phase' = "discover" /\ at = Len(wave)
      <4>1. at \in 1 .. Len(wave) /\ Len(wave) \in Nat
        BY <1>1
      <4>2. \A n \in Nat : \A a \in 1 .. n : ~(a < n) => a = n
        OBVIOUS
      <4>3. at = Len(wave)
        BY ONLY <2>3, <4>1, <4>2, Zenon
      <4> QED
        BY <1>2, <2>3, <4>3
    <3> QED
      BY <1>1, <1>3, <2>1, <3>1 DEF ReadCount, OneByOne
  <2> QED
    BY <2>2, <2>3
<1>7. FramesRead'
  <2>1. ASSUME NEW fi \in 1 .. cur PROVE IsRead(seen, frames'[fi])
    <3>1. CASE fi = cur
      BY <1>3, <3>1
    <3>2. CASE fi # cur
      <4>1. fi \in 1 .. ReadCount /\ fi \in 1 .. Len(frames)
        BY <1>1, <1>6, <3>2
      <4> QED
        BY <1>3, <3>2, <4>1 DEF FramesRead
    <3> QED
      BY <3>1, <3>2
  <2>2. ASSUME NEW fi \in cur + 1 .. Len(frames) PROVE Untouched(frames'[fi])
    <3>1. fi \in ReadCount + 1 .. Len(frames) /\ fi \in 1 .. Len(frames) /\ fi # cur
      BY <1>1, <1>6
    <3> QED
      BY <1>3, <3>1 DEF FramesRead
  <2>3. phase' \notin {"chunks", "bytes"}
    BY <1>2
  <2> QED
    BY <1>2, <1>3, <1>6, <2>1, <2>2, <2>3 DEF FramesRead
<1>8. RowsOK'
  BY <1>2 DEF RowsOK, OneByOne
<1> QED
  BY <1>4, <1>5, <1>7, <1>8

LEMMA ReadScatteredStep ==
    ASSUME SnapInv, ReadScattered
    PROVE  SnapInv'
<1> USE DEF SnapInv
<1>1. /\ Len(frames) \in Nat /\ Len(wave) \in Nat /\ Older \in Nat
      /\ Older + Len(wave) = Len(frames) /\ DOMAIN frames = 1 .. Len(frames)
      /\ \A fi \in 1 .. Len(frames) : frames[fi] \in FrameType
      /\ \A fi \in 1 .. Len(frames) : InWave(fi) <=> fi \in Older + 1 .. Len(frames)
      /\ DOMAIN wave = 1 .. Len(wave) /\ ReadCount = Older
  BY Counts DEF ReadScattered, ReadCount
<1>2. /\ frames' = [fi \in DOMAIN frames |-> IF InWave(fi) THEN ReadFully(frames[fi]) ELSE frames[fi]]
      /\ phase' = "discover" /\ mem' = mem /\ seen' = seen /\ expand' = expand
      /\ wave' = wave /\ at' = at /\ have' = have /\ rows' = rows
      /\ levels' \in Nat /\ phase = "scatter"
  BY DEF ReadScattered, SnapTypes
<1>3. ASSUME NEW fi \in 1 .. Len(frames), InWave(fi)
      PROVE  /\ frames'[fi] \in FrameType
             /\ SameFrame(frames[fi], frames'[fi])
             /\ frames'[fi].children = frames[fi].children
             /\ IsRead(seen, frames'[fi])
  <2>1. frames'[fi] = ReadFully(frames[fi])
    BY <1>1, <1>2, <1>3
  <2>2. Readable(frames[fi])
    BY <1>1, <1>3 DEF ReadScattered, InWave
  <2> QED
    BY <1>1, <2>1, <2>2, ReadFullyIs DEF SnapTypes
<1>4. ASSUME NEW fi \in 1 .. Len(frames), ~InWave(fi) PROVE frames'[fi] = frames[fi]
  BY <1>1, <1>2, <1>4
<1>5. frames' \in Seq(FrameType) /\ Len(frames') = Len(frames)
  <2>1. frames' \in [1 .. Len(frames) -> FrameType]
    <3>1. \A fi \in 1 .. Len(frames) : frames'[fi] \in FrameType
      BY <1>1, <1>3, <1>4
    <3>2. DOMAIN frames' = 1 .. Len(frames) /\ frames' = [fi \in DOMAIN frames' |-> frames'[fi]]
      BY <1>1, <1>2
    <3> QED
      BY <3>1, <3>2
  <2> QED
    BY <1>1, <2>1
<1>6. TreeOK' /\ Older' = Older
  <2>1. \A fi \in 1 .. Len(frames) : /\ SameFrame(frames[fi], frames'[fi])
                                     /\ frames'[fi].children = frames[fi].children
    <3>1. \A fi \in 1 .. Len(frames) : SameFrame(frames[fi], frames[fi])
      BY DEF SameFrame
    <3> QED
      BY <1>3, <1>4, <3>1
  <2>2. \A fi \in 1 .. Older : fi \in 1 .. Len(frames) /\ ~(fi \in Older + 1 .. Len(frames))
    BY <1>1
  <2>3. \A fi \in 1 .. Older : frames'[fi] = frames[fi]
    BY <1>1, <1>4, <2>2
  <2> QED
    BY <1>2, <1>5, <2>1, <2>3, TreeKept
<1>7. ReadCount' = Len(frames)
  BY <1>2, <1>5 DEF ReadCount, OneByOne
<1>8. SnapTypes'
  BY <1>2, <1>5, <1>6 DEF SnapTypes, OneByOne
<1>9. FramesRead'
  <2>1. ASSUME NEW fi \in 1 .. Len(frames) PROVE IsRead(seen, frames'[fi])
    <3>1. CASE ~InWave(fi)
      <4>1. fi \in 1 .. Older
        BY <1>1, <3>1
      <4> QED
        BY <1>1, <1>4, <3>1, <4>1 DEF FramesRead
    <3> QED
      BY <1>3, <3>1
  <2>2. \A fi \in Len(frames) + 1 .. Len(frames) : FALSE
    BY <1>1
  <2>3. have = 0
    BY <1>2 DEF FramesRead
  <2> QED
    BY <1>2, <1>5, <1>7, <2>1, <2>2, <2>3 DEF FramesRead
<1>10. RowsOK'
  BY <1>2 DEF RowsOK
<1> QED
  BY <1>6, <1>8, <1>9, <1>10

\* Only how the level is read changes.
LEMMA OtherRead ==
    ASSUME SnapInv, frames' = frames, wave' = wave, mem' = mem, seen' = seen,
           expand' = expand, rows' = rows, have' = have, levels' \in Nat,
           phase # "done", phase' \in OneByOne, at' \in 1 .. Len(wave),
           ReadCount' = ReadCount, phase' \notin {"chunks", "bytes"} => have = 0,
           phase' \in {"chunks", "bytes"} =>
               /\ have < ReadLength(Current') /\ have <= Len(Current'.buf)
               /\ FromTarget(seen, Current'.base, Current'.buf, have)
    PROVE  SnapInv'
<1> USE DEF SnapInv
<1>1. Older' = Older
  BY DEF Older
<1>2. SnapTypes'
  BY <1>1 DEF SnapTypes
<1>3. FramesRead'
  BY DEF FramesRead
<1>4. TreeOK'
  BY <1>1 DEF TreeOK
<1>5. RowsOK'
  <2>1. phase' # "done"
    BY DEF OneByOne
  <2> QED
    BY <2>1 DEF RowsOK
<1> QED
  BY <1>2, <1>3, <1>4, <1>5

LEMMA ScatterFailsStep ==
    ASSUME SnapInv, ScatterFails
    PROVE  SnapInv'
<1>1. /\ phase = "scatter" /\ phase' = "alone" /\ at' = 1 /\ levels' \in Nat
      /\ frames' = frames /\ wave' = wave /\ mem' = mem /\ seen' = seen
      /\ expand' = expand /\ rows' = rows /\ have' = have
  BY DEF ScatterFails, SnapInv, SnapTypes
<1>2. 1 \in 1 .. Len(wave)
  <2>1. PICK i \in DOMAIN wave : TRUE
    BY DEF ScatterFails
  <2> QED
    BY <2>1, Counts DEF SnapInv
<1>3. ReadCount' = ReadCount
  <2>1. Older \in Nat /\ Older' = Older
    BY <1>1, Counts DEF SnapInv, Older
  <2> QED
    BY <1>1, <2>1 DEF ReadCount, OneByOne
<1>4. have = 0
  BY <1>1 DEF SnapInv, FramesRead
<1> QED
  BY <1>1, <1>2, <1>3, <1>4, OtherRead DEF OneByOne

LEMMA AloneFailsStep ==
    ASSUME SnapInv, AloneFails
    PROVE  SnapInv'
<1>1. /\ phase = "alone" /\ phase' = "chunks" /\ at' = at /\ levels' = levels
      /\ frames' = frames /\ wave' = wave /\ mem' = mem /\ seen' = seen
      /\ expand' = expand /\ rows' = rows /\ have' = have /\ ~Readable(Current)
  BY DEF AloneFails
<1>2. at \in 1 .. Len(wave) /\ levels \in Nat /\ have = 0 /\ Current \in FrameType
  BY <1>1, Counts DEF SnapInv, SnapTypes, FramesRead, OneByOne
<1>3. ReadCount' = ReadCount
  <2>1. Older' = Older
    BY <1>1 DEF Older
  <2> QED
    BY <1>1, <2>1 DEF ReadCount, OneByOne
<1>4. Current' = Current
  BY <1>1 DEF Current
<1>5. 0 < ReadLength(Current) /\ 0 <= Len(Current.buf)
  <2>1. ReadLength(Current) \in Nat /\ Current.base \in Nat /\ Current.buf \in Seq(Cells)
    BY <1>2, ReadLengthType DEF FrameType
  <2>2. ReadLength(Current) # 0
    BY <1>1, <2>1 DEF Readable, IsMapped
  <2>3. Len(Current.buf) \in Nat
    BY <2>1, LenProperties
  <2> QED
    BY <2>1, <2>2, <2>3
<1>6. FromTarget(seen, Current.base, Current.buf, 0)
  BY DEF FromTarget
<1> QED
  BY <1>1, <1>2, <1>3, <1>4, <1>5, <1>6, OtherRead DEF OneByOne

LEMMA NarrowToBytesStep ==
    ASSUME SnapInv, NarrowToBytes
    PROVE  SnapInv'
<1>1. /\ phase = "chunks" /\ phase' = "bytes" /\ at' = at /\ levels' = levels
      /\ frames' = frames /\ wave' = wave /\ mem' = mem /\ seen' = seen
      /\ expand' = expand /\ rows' = rows /\ have' = have
  BY DEF NarrowToBytes
<1>2. at \in 1 .. Len(wave) /\ levels \in Nat
  BY <1>1 DEF SnapInv, SnapTypes, OneByOne
<1>3. ReadCount' = ReadCount
  <2>1. Older' = Older
    BY <1>1 DEF Older
  <2> QED
    BY <1>1, <2>1 DEF ReadCount, OneByOne
<1>4. Current' = Current
  BY <1>1 DEF Current
<1>5. /\ have < ReadLength(Current) /\ have <= Len(Current.buf)
      /\ FromTarget(seen, Current.base, Current.buf, have)
  BY <1>1 DEF SnapInv, FramesRead
<1> QED
  BY <1>1, <1>2, <1>3, <1>4, <1>5, OtherRead DEF OneByOne

LEMMA ReadAloneStep ==
    ASSUME SnapInv, ReadAlone
    PROVE  SnapInv'
<1>1. phase \in OneByOne /\ Readable(Current) /\ Settle(ReadFully(Current))
  BY DEF ReadAlone, OneByOne
<1>2. /\ Current \in FrameType /\ mem \in Images /\ seen # <<>> /\ seen \in Seq(Images)
      /\ mem = seen[Len(seen)]
  BY <1>1, Counts DEF SnapInv, SnapTypes
<1>3. /\ ReadFully(Current) \in FrameType
      /\ SameFrame(Current, ReadFully(Current))
      /\ ReadFully(Current).children = Current.children
      /\ IsRead(seen, ReadFully(Current))
  BY <1>1, <1>2, ReadFullyIs
<1> QED
  BY <1>1, <1>3, Settled

\* What has been read of the current frame, and n cells more.
LEMMA CellsSoFar ==
    ASSUME SnapInv, phase \in {"chunks", "bytes"}
    PROVE  /\ Current \in FrameType /\ ReadLength(Current) \in Nat /\ have \in Nat
           /\ SubSeq(Current.buf, 1, have) \in Seq(Cells)
           /\ Len(SubSeq(Current.buf, 1, have)) = have
           /\ FromTarget(seen, Current.base, SubSeq(Current.buf, 1, have), have)
<1> DEFINE s == Current.buf
<1>1. Current \in FrameType /\ have \in Nat
  BY Counts DEF SnapInv, SnapTypes, OneByOne
<1>2. s \in Seq(Cells) /\ ReadLength(Current) \in Nat
  BY <1>1, ReadLengthType DEF FrameType
<1>3. have <= Len(s) /\ FromTarget(seen, Current.base, s, have)
  BY DEF SnapInv, FramesRead
<1> HIDE DEF s
<1>4. 0 + have = have /\ 0 + 1 = 1 /\ \A i \in 1 .. have : 0 + i = i
  BY <1>1
<1>5. /\ SubSeq(s, 0 + 1, 0 + have) \in Seq(Cells)
      /\ Len(SubSeq(s, 0 + 1, 0 + have)) = have
      /\ \A i \in 1 .. have : SubSeq(s, 0 + 1, 0 + have)[i] = s[0 + i]
  BY <1>1, <1>2, <1>3, BufferCells
<1>6. /\ SubSeq(s, 1, have) \in Seq(Cells)
      /\ Len(SubSeq(s, 1, have)) = have
      /\ \A i \in 1 .. have : SubSeq(s, 1, have)[i] = s[i]
  BY <1>4, <1>5
<1>7. FromTarget(seen, Current.base, SubSeq(s, 1, have), have)
  BY <1>3, <1>6 DEF FromTarget
<1> QED
  BY <1>1, <1>2, <1>6, <1>7 DEF s

LEMMA Advanced ==
    ASSUME SnapInv, phase \in {"chunks", "bytes"}, NEW n \in Nat \ {0},
           have + n <= ReadLength(Current), IsMapped(mem, Current.base + have, n), Advance(n)
    PROVE  SnapInv'
<1> DEFINE cur   == Older + at
           got1  == SubSeq(Current.buf, 1, have)
           more  == CellsAt(mem, Current.base + have, n)
           cells == got1 \o more
           len   == ReadLength(Current)
<1>1. /\ Current \in FrameType /\ len \in Nat /\ have \in Nat
      /\ got1 \in Seq(Cells) /\ Len(got1) = have
      /\ FromTarget(seen, Current.base, got1, have)
  BY CellsSoFar
<1>2. /\ mem \in Images /\ seen \in Seq(Images) /\ seen # <<>> /\ mem = seen[Len(seen)]
      /\ Current.base \in Nat /\ Current.base + have \in Nat
  <2>1. Current.base \in Nat
    BY <1>1 DEF FrameType
  <2>2. Current.base + have \in Nat
    BY <1>1, <2>1
  <2> QED
    BY <2>1, <2>2 DEF SnapInv, SnapTypes
<1>3. /\ more \in Seq(Cells) /\ Len(more) = n
      /\ \A i \in 1 .. n : /\ more[i] = mem[Current.base + have + i - 1]
                           /\ Current.base + have + i - 1 \in DOMAIN mem
  BY <1>2, CellsRead
<1> HIDE DEF more, got1
<1>4. /\ cells \in Seq(Cells) /\ Len(cells) = have + n
      /\ \A i \in 1 .. have : cells[i] = got1[i]
      /\ \A i \in 1 .. n : cells[have + i] = more[i]
  <2>1. got1 \in Seq(Cells) /\ more \in Seq(Cells)
    BY <1>1, <1>3
  <2>2. /\ cells \in Seq(Cells) /\ Len(cells) = Len(got1) + Len(more)
        /\ \A i \in 1 .. Len(got1) : cells[i] = got1[i]
        /\ \A i \in 1 .. Len(more) : cells[Len(got1) + i] = more[i]
    BY <2>1, TwoSequences
  <2>3. Len(got1) = have /\ Len(more) = n
    BY <1>1, <1>3
  <2> HIDE DEF cells
  <2> QED
    BY <2>2, <2>3
<1> HIDE DEF cells
<1>5. Len(seen) \in DOMAIN seen
  BY <1>2, LenProperties, EmptySeq
<1>6. FromTarget(seen, Current.base, cells, have + n)
  <2>1. ASSUME NEW i \in 1 .. have + n
        PROVE  \E m \in DOMAIN seen : /\ Current.base + i - 1 \in DOMAIN seen[m]
                                      /\ seen[m][Current.base + i - 1] = cells[i]
    <3>1. CASE i <= have
      <4>1. i \in 1 .. have
        BY <1>1, <3>1
      <4> QED
        BY <1>1, <1>4, <4>1 DEF FromTarget
    <3>2. CASE i > have
      <4> DEFINE j == i - have
      <4>1. j \in 1 .. n /\ have + j = i /\ Current.base + have + j - 1 = Current.base + i - 1
        BY <1>1, <1>2, <3>2
      <4> HIDE DEF j
      <4>2. more[j] = mem[Current.base + i - 1] /\ Current.base + i - 1 \in DOMAIN mem
        BY <1>3, <4>1
      <4>3. cells[i] = more[j]
        BY <1>4, <4>1
      <4> QED
        BY <1>2, <1>5, <4>2, <4>3
    <3> QED
      BY <1>1, <3>1, <3>2
  <2> QED
    BY <2>1 DEF FromTarget
<1>7. CASE have + n = len
  <2>1. Settle(ReadTo(Current, cells))
    BY <1>4, <1>7 DEF Advance, cells, got1, more
  <2>2. Len(cells) <= ReadLength(Current) /\ FromTarget(seen, Current.base, cells, Len(cells))
    BY <1>1, <1>4, <1>6, <1>7
  <2>3. /\ ReadTo(Current, cells) \in FrameType
        /\ SameFrame(Current, ReadTo(Current, cells))
        /\ ReadTo(Current, cells).children = Current.children
        /\ IsRead(seen, ReadTo(Current, cells))
    BY <1>1, <1>4, <1>7, <2>2, ReadToIs
  <2> QED
    BY <2>1, <2>3, Settled DEF OneByOne
<1>8. CASE have + n # len
  <2>1. /\ frames' = [frames EXCEPT ![wave[at]].buf = cells] /\ have' = have + n
        /\ mem' = mem /\ seen' = seen /\ expand' = expand /\ wave' = wave
        /\ phase' = phase /\ at' = at /\ levels' = levels /\ rows' = rows
    BY <1>4, <1>8 DEF Advance, cells, got1, more
  <2>2. /\ Len(frames) \in Nat /\ Len(wave) \in Nat /\ Older \in Nat
        /\ Older + Len(wave) = Len(frames) /\ DOMAIN frames = 1 .. Len(frames)
        /\ wave[at] = cur /\ cur \in 1 .. Len(frames) /\ Current = frames[cur]
        /\ at \in 1 .. Len(wave) /\ frames \in Seq(FrameType)
    BY Counts DEF SnapInv, SnapTypes, OneByOne
  <2> DEFINE g == [Current EXCEPT !.buf = cells]
  <2>3. /\ g \in FrameType /\ SameFrame(Current, g) /\ g.children = Current.children
        /\ g.buf = cells /\ g.base = Current.base
        /\ g.len = Current.len /\ g.readable = Current.readable
    BY <1>1, <1>4 DEF FrameType, SameFrame
  <2>4. frames' = [frames EXCEPT ![cur] = g]
    BY <2>1, <2>2
  <2> HIDE DEF g
  <2>5. /\ frames' \in Seq(FrameType) /\ Len(frames') = Len(frames) /\ frames'[cur] = g
        /\ \A fi \in 1 .. Len(frames) : fi # cur => frames'[fi] = frames[fi]
    BY <2>2, <2>3, <2>4, ExceptSeq
  <2>6. TreeOK' /\ Older' = Older
    <3>1. \A fi \in 1 .. Len(frames) : /\ SameFrame(frames[fi], frames'[fi])
                                       /\ frames'[fi].children = frames[fi].children
      <4>1. \A fi \in 1 .. Len(frames) : SameFrame(frames[fi], frames[fi])
        BY DEF SameFrame
      <4> QED
        BY <2>2, <2>3, <2>5, <4>1
    <3>2. \A fi \in 1 .. Older : fi \in 1 .. Len(frames) /\ fi # cur
      BY <2>2
    <3>3. \A fi \in 1 .. Older : frames'[fi] = frames[fi]
      BY <2>5, <3>2
    <3> QED
      BY <2>1, <2>5, <3>1, <3>3, TreeKept DEF SnapInv
  <2>7. ReadCount' = ReadCount /\ ReadCount = cur - 1
    BY <2>1, <2>2, <2>6 DEF ReadCount, OneByOne
  <2>8. Current' = g
    BY <2>1, <2>2, <2>5 DEF Current
  <2>9. FramesRead'
    <3>1. ASSUME NEW fi \in 1 .. ReadCount PROVE IsRead(seen, frames'[fi])
      <4>1. fi \in 1 .. Len(frames) /\ fi # cur
        BY <2>2, <2>7
      <4> QED
        BY <2>5, <4>1 DEF SnapInv, FramesRead
    <3>2. ASSUME NEW fi \in ReadCount + 1 .. Len(frames) PROVE Untouched(frames'[fi])
      <4>1. fi \in 1 .. Len(frames)
        BY <2>2, <2>7
      <4>2. Untouched(frames[fi])
        BY DEF SnapInv, FramesRead
      <4>3. CASE fi = cur
        BY <2>2, <2>3, <2>5, <4>2, <4>3 DEF Untouched
      <4>4. CASE fi # cur
        BY <2>5, <4>1, <4>2, <4>4
      <4> QED
        BY <4>3, <4>4
    <3>3. /\ have' < ReadLength(Current') /\ have' <= Len(Current'.buf)
          /\ FromTarget(seen, Current'.base, Current'.buf, have')
      <4>1. have + n < len
        BY <1>1, <1>8
      <4>2. ReadLength(g) = len
        BY <1>1, <2>3, ReadLengthType
      <4> QED
        BY <1>1, <1>4, <1>6, <2>1, <2>3, <2>8, <4>1, <4>2
    <3>4. phase' \in {"chunks", "bytes"}
      BY <2>1
    <3> QED
      BY <2>1, <2>5, <2>7, <3>1, <3>2, <3>3, <3>4 DEF FramesRead
  <2>10. SnapTypes'
    BY <1>1, <2>1, <2>5, <2>6 DEF SnapInv, SnapTypes
  <2>11. RowsOK'
    BY <2>1 DEF SnapInv, RowsOK
  <2> QED
    BY <2>6, <2>9, <2>10, <2>11 DEF SnapInv
<1> QED
  BY <1>7, <1>8

LEMMA ReadChunkStep ==
    ASSUME SnapInv, ReadChunk
    PROVE  SnapInv'
<1>1. phase = "chunks"
  BY DEF ReadChunk
<1>2. have \in Nat /\ ReadLength(Current) \in Nat /\ Chunk \in Nat \ {0}
  BY <1>1, CellsSoFar, TargetAssumption
<1>3. have < ReadLength(Current)
  BY <1>1 DEF SnapInv, FramesRead
<1>4. NextChunk \in Nat \ {0} /\ have + NextChunk <= ReadLength(Current)
  BY <1>2, <1>3 DEF NextChunk
<1> QED
  BY <1>1, <1>4, Advanced DEF ReadChunk

LEMMA ReadByteStep ==
    ASSUME SnapInv, ReadByte
    PROVE  SnapInv'
<1>1. phase = "bytes"
  BY DEF ReadByte
<1>2. have \in Nat /\ ReadLength(Current) \in Nat
  BY <1>1, CellsSoFar
<1>3. have < ReadLength(Current)
  BY <1>1 DEF SnapInv, FramesRead
<1>4. 1 \in Nat \ {0} /\ have + 1 <= ReadLength(Current)
  BY <1>2, <1>3
<1> QED
  BY <1>1, <1>4, Advanced DEF ReadByte

LEMMA ReachEndStep ==
    ASSUME SnapInv, ReachEnd
    PROVE  SnapInv'
<1> DEFINE cells == SubSeq(Current.buf, 1, have)
<1>1. phase = "bytes"
  BY DEF ReachEnd
<1>2. /\ Current \in FrameType /\ ReadLength(Current) \in Nat /\ have \in Nat
      /\ cells \in Seq(Cells) /\ Len(cells) = have
      /\ FromTarget(seen, Current.base, cells, have)
  BY <1>1, CellsSoFar
<1>3. have < ReadLength(Current)
  BY <1>1 DEF SnapInv, FramesRead
<1>4. Current.base + have \notin DOMAIN mem
  <2>1. ~IsMapped(mem, Current.base + have, 1)
    BY DEF ReachEnd
  <2>2. Current.base \in Nat
    BY <1>2 DEF FrameType
  <2>3. (Current.base + have) .. (Current.base + have) + 1 - 1 = {Current.base + have}
    BY <1>2, <2>2
  <2> QED
    BY <2>1, <2>3 DEF IsMapped
<1>5. Len(seen) = 1 => mem = seen[1]
  BY DEF SnapInv, SnapTypes
<1>6. Settle(ReadTo(Current, cells))
  BY DEF ReachEnd
<1> HIDE DEF cells
<1>7. Len(cells) <= ReadLength(Current)
  BY <1>2, <1>3
<1>8. /\ ReadTo(Current, cells) \in FrameType
      /\ SameFrame(Current, ReadTo(Current, cells))
      /\ ReadTo(Current, cells).children = Current.children
      /\ IsRead(seen, ReadTo(Current, cells))
  BY <1>2, <1>4, <1>5, <1>7, ReadToIs
<1> QED
  BY <1>1, <1>6, <1>8, Settled DEF OneByOne

\* The target moves: what has been read was there still.
LEMMA FromMore ==
    ASSUME NEW base, NEW buf, NEW n, NEW image \in Images, seen \in Seq(Images),
           FromTarget(seen, base, buf, n)
    PROVE  FromTarget(Append(seen, image), base, buf, n)
<1>1. \A m \in DOMAIN seen : m \in DOMAIN Append(seen, image) /\ Append(seen, image)[m] = seen[m]
  OBVIOUS
<1> QED
  BY <1>1 DEF FromTarget

LEMMA TargetMovesStep ==
    ASSUME SnapInv, TargetMoves
    PROVE  SnapInv'
<1>1. PICK image \in Images : mem' = image /\ seen' = Append(seen, image)
  BY DEF TargetMoves
<1>2. /\ phase # "done" /\ expand' = expand /\ frames' = frames /\ wave' = wave
      /\ phase' = phase /\ at' = at /\ have' = have /\ levels' = levels /\ rows' = rows
  BY DEF TargetMoves, reading
<1>3. /\ seen \in Seq(Images) /\ seen # <<>> /\ seen' \in Seq(Images) /\ Len(seen) >= 1
      /\ Len(seen') = Len(seen) + 1 /\ Len(seen) \in Nat /\ seen'[Len(seen')] = image
  BY <1>1, LenProperties, EmptySeq DEF SnapInv, SnapTypes
<1>4. Older' = Older /\ ReadCount' = ReadCount /\ Current' = Current
  BY <1>2 DEF Older, ReadCount, Current
<1>5. SnapTypes'
  <2>1. seen' # <<>>
    BY <1>3, EmptySeq
  <2> QED
    BY <1>1, <1>2, <1>3, <1>4, <2>1 DEF SnapInv, SnapTypes
<1>6. ASSUME NEW f, IsRead(seen, f) PROVE IsRead(seen', f)
  <2>1. FromTarget(seen', f.base, f.buf, f.len)
    BY <1>1, <1>3, <1>6, FromMore DEF IsRead
  <2>2. Len(seen') # 1
    BY <1>3
  <2> QED
    BY <1>6, <2>1, <2>2 DEF IsRead
<1>7. FramesRead'
  <2>1. \A fi \in 1 .. ReadCount : IsRead(seen', frames[fi])
    BY <1>6 DEF SnapInv, FramesRead
  <2>2. phase \in {"chunks", "bytes"} => FromTarget(seen', Current.base, Current.buf, have)
    BY <1>1, <1>3, FromMore DEF SnapInv, FramesRead
  <2> QED
    BY <1>2, <1>4, <2>1, <2>2 DEF SnapInv, FramesRead
<1>8. TreeOK'
  BY <1>2, <1>4 DEF SnapInv, TreeOK
<1>9. RowsOK'
  BY <1>2 DEF SnapInv, RowsOK
<1> QED
  BY <1>5, <1>7, <1>8, <1>9 DEF SnapInv

-----------------------------------------------------------------------------
(* The next level.                                                         *)

\* What the frames of the wave ask for.
Asked ==
    {sp \in [parent : 1 .. Len(frames), frame : FrameType] :
        /\ sp.parent \in Older + 1 .. Len(frames)
        /\ ~IsText(frames[sp.parent])
        /\ sp.frame \in Asks(expand, frames[sp.parent])}

LEMMA AllFilled ==
    ASSUME SnapInv, phase = "discover"
    PROVE  /\ ReadCount = Len(frames)
           /\ \A fi \in 1 .. Len(frames) : IsRead(seen, frames[fi]) /\ Filled(frames[fi])
<1>1. ReadCount = Len(frames)
  BY DEF ReadCount, OneByOne
<1>2. ASSUME NEW fi \in 1 .. Len(frames) PROVE IsRead(seen, frames[fi]) /\ Filled(frames[fi])
  <2>1. IsRead(seen, frames[fi]) /\ frames[fi] \in FrameType
    BY <1>1, Counts DEF SnapInv, FramesRead
  <2> QED
    BY <2>1 DEF IsRead, Filled
<1> QED
  BY <1>1, <1>2

LEMMA AsksType ==
    ASSUME NEW ex, NEW f, Filled(f), NEW g \in Asks(ex, f)
    PROVE  g \in FrameType
<1>1. PICK t \in Spots(ex, f) : Wanted(ex, f, t) /\ g = Ask(f, t)
  BY DEF Asks
<1>2. t \in Spot
  BY SpotsAreClosed DEF Filled, FrameType
<1> QED
  BY <1>1, <1>2, AskType

LEMMA WaveSpecsIs ==
    ASSUME SnapInv, phase = "discover"
    PROVE  /\ WaveSpecs \in Seq(Asked)
           /\ \A fi \in Older + 1 .. Len(frames) : \A g :
                  Holds(Specs(frames[fi]), g) => Holds(WaveSpecs, [parent |-> fi, frame |-> g])
<1> DEFINE n     == Len(wave)
           of(fi) == [j \in DOMAIN Specs(frames[fi]) |->
                         [parent |-> fi, frame |-> Specs(frames[fi])[j]]]
           ss    == [i \in DOMAIN wave |-> of(wave[i])]
<1>1. /\ n \in Nat /\ Older \in Nat /\ Older + n = Len(frames) /\ DOMAIN wave = 1 .. n
      /\ Len(frames) \in Nat
  BY Counts DEF SnapInv
<1>2. \A i \in 1 .. n : wave[i] = Older + i
  BY DEF SnapInv, SnapTypes
<1>3. ASSUME NEW fi \in Older + 1 .. Len(frames)
      PROVE  /\ of(fi) \in Seq(Asked)
             /\ \A g : Holds(Specs(frames[fi]), g) => Holds(of(fi), [parent |-> fi, frame |-> g])
  <2> DEFINE s == Specs(frames[fi])
  <2>1. fi \in 1 .. Len(frames) /\ Filled(frames[fi])
    BY <1>1, AllFilled
  <2>2. s \in Seq(Asks(expand, frames[fi])) /\ (IsText(frames[fi]) => s = <<>>)
    BY <2>1, SpecsSound
  <2>3. /\ Len(s) \in Nat /\ DOMAIN s = 1 .. Len(s)
        /\ \A j \in 1 .. Len(s) : s[j] \in Asks(expand, frames[fi])
    BY <2>2, LenProperties, ElementOfSeq
  <2>4. IsText(frames[fi]) => Len(s) = 0
    BY <2>2
  <2> HIDE DEF s
  <2>5. \A j \in 1 .. Len(s) : [parent |-> fi, frame |-> s[j]] \in Asked
    <3>1. \A j \in 1 .. Len(s) : s[j] \in FrameType
      BY <2>1, <2>3, AsksType
    <3>2. Len(s) # 0 => ~IsText(frames[fi])
      BY <2>4
    <3> QED
      BY <2>1, <2>3, <3>1, <3>2 DEF Asked
  <2> DEFINE u == [j \in 1 .. Len(s) |-> [parent |-> fi, frame |-> s[j]]]
  <2>6. of(fi) = u
    BY <2>3 DEF s
  <2>7. u \in [1 .. Len(s) -> Asked]
    BY <2>5
  <2>8. u \in Seq(Asked) /\ Len(u) = Len(s)
    <3> HIDE DEF u
    <3> QED
      BY <2>3, <2>7
  <2>9. ASSUME NEW g, Holds(s, g) PROVE Holds(u, [parent |-> fi, frame |-> g])
    <3>1. PICK j \in 1 .. Len(s) : s[j] = g
      BY <2>9 DEF Holds
    <3>2. u[j] = [parent |-> fi, frame |-> g]
      BY <3>1
    <3> HIDE DEF u
    <3> QED
      BY <2>8, <3>2 DEF Holds
  <2> HIDE DEF u, of
  <2> QED
    BY <2>6, <2>8, <2>9 DEF s
<1>4. WaveSpecs = Concat(n, ss)
  BY DEF WaveSpecs
<1> HIDE DEF of
<1>5. ASSUME NEW i \in 1 .. n
      PROVE  ss[i] = of(Older + i) /\ ss[i] \in Seq(Asked) /\ Older + i \in Older + 1 .. Len(frames)
  <2>1. Older + i \in Older + 1 .. Len(frames)
    BY <1>1
  <2>2. ss[i] = of(Older + i)
    BY <1>1, <1>2
  <2> HIDE DEF ss
  <2> QED
    BY <1>3, <2>1, <2>2
<1> HIDE DEF ss
<1>6. Concat(n, ss) \in Seq(Asked)
  BY <1>1, <1>5, ConcatType
<1>7. ASSUME NEW fi \in Older + 1 .. Len(frames), NEW g, Holds(Specs(frames[fi]), g)
      PROVE  Holds(Concat(n, ss), [parent |-> fi, frame |-> g])
  <2> DEFINE i == fi - Older
  <2>1. i \in 1 .. n /\ Older + i = fi
    BY <1>1
  <2> HIDE DEF i
  <2>2. Holds(ss[i], [parent |-> fi, frame |-> g])
    BY <1>3, <1>5, <1>7, <2>1
  <2> QED
    BY <1>1, <1>5, <2>1, <2>2, ConcatHolds
<1> QED
  BY <1>4, <1>6, <1>7

\* A frame with its pointers followed: the same frame, with a child for each.
LEMMA Followed ==
    ASSUME SnapInv, phase = "discover", NEW fi \in 1 .. Len(frames),
           NEW n \in Nat, n = Len(frames)
    PROVE  LET g == WithChildren(fi, WaveSpecs, n)
           IN  /\ g \in FrameType
               /\ SameFrame(frames[fi], g) /\ g.buf = frames[fi].buf /\ g.len = frames[fi].len
               /\ IsRead(seen, g)
               /\ fi \in 1 .. Older => g = frames[fi]
               /\ fi \in Older + 1 .. Len(frames) =>
                      /\ \A p \in DOMAIN g.children :
                             \E j \in DOMAIN WaveSpecs : /\ g.children[p] = n + j
                                                         /\ WaveSpecs[j].parent = fi
                                                         /\ WaveSpecs[j].frame.path = p
                      /\ \A j \in DOMAIN WaveSpecs :
                             WaveSpecs[j].parent = fi =>
                                 WaveSpecs[j].frame.path \in DOMAIN g.children
<1> DEFINE f     == frames[fi]
           specs == WaveSpecs
           mine  == {j \in DOMAIN specs : specs[j].parent = fi}
           paths == {specs[j].frame.path : j \in mine}
           first(p) == CHOOSE j \in mine : specs[j].frame.path = p
           new   == [p \in paths |-> n + first(p)]
           kids  == IF mine = {} THEN f.children ELSE new
           g     == WithChildren(fi, specs, n)
<1>1. /\ Older \in Nat /\ Len(frames) \in Nat /\ f \in FrameType
      /\ IsRead(seen, f) /\ Older + Len(wave) = Len(frames) /\ Len(wave) \in Nat
  BY Counts, AllFilled DEF SnapInv
<1>2. specs \in Seq(Asked)
  BY WaveSpecsIs
<1> HIDE DEF specs
<1>3. /\ DOMAIN specs = 1 .. Len(specs) /\ Len(specs) \in Nat
      /\ \A j \in DOMAIN specs : specs[j] \in Asked
  BY <1>2, LenProperties, ElementOfSeq
<1>4. \A j \in DOMAIN specs : /\ specs[j].parent \in Older + 1 .. Len(frames)
                              /\ specs[j].frame \in FrameType
                              /\ specs[j].frame.path \in Paths
  BY <1>3 DEF Asked, FrameType
<1>5. g = [f EXCEPT !.children = kids]
  BY DEF WithChildren
<1>6. \A p \in paths : first(p) \in mine /\ specs[first(p)].frame.path = p
  OBVIOUS
<1>7. kids \in ChildMaps
  <2>1. CASE mine = {}
    BY <1>1, <2>1 DEF FrameType
  <2>2. CASE mine # {}
    <3>1. \A p \in paths : n + first(p) \in Nat
      <4> HIDE DEF first, paths
      <4>1. \A p \in paths : first(p) \in Nat
        BY <1>3, <1>6
      <4> QED
        BY <4>1
    <3>2. paths \in SUBSET Paths
      BY <1>4
    <3> HIDE DEF paths, first, mine
    <3>3. new \in [paths -> Nat]
      BY <3>1
    <3> HIDE DEF new
    <3> QED
      BY <2>2, <3>2, <3>3 DEF ChildMaps
  <2> QED
    BY <2>1, <2>2
<1> HIDE DEF kids
<1>8. /\ g \in FrameType /\ SameFrame(f, g) /\ g.buf = f.buf /\ g.len = f.len
      /\ g.readable = f.readable /\ g.children = kids
  BY <1>1, <1>5, <1>7 DEF FrameType, SameFrame
<1> HIDE DEF g
<1>9. IsRead(seen, g)
  <2>1. ReadLength(g) = ReadLength(f) /\ g.base = f.base
    BY <1>1, <1>8, ReadLengthType DEF SameFrame
  <2> QED
    BY <1>1, <1>8, <2>1 DEF IsRead
<1>10. ASSUME fi \in 1 .. Older PROVE g = f
  <2>1. mine = {}
    BY <1>1, <1>4, <1>10
  <2>2. kids = f.children
    BY <2>1 DEF kids
  <2>3. g = [f EXCEPT !.children = f.children]
    BY <1>5, <2>2 DEF g
  <2> QED
    BY <1>1, <2>3 DEF FrameType
<1>11. ASSUME fi \in Older + 1 .. Len(frames)
       PROVE  DOMAIN g.children = paths /\ \A p \in paths : g.children[p] = n + first(p)
  <2>1. CASE mine = {}
    <3>1. f.children = <<>>
      BY <1>11 DEF SnapInv, TreeOK
    <3>2. kids = <<>> /\ paths = {}
      BY <2>1, <3>1 DEF kids
    <3> QED
      BY <1>8, <3>2, NoChildren
  <2>2. CASE mine # {}
    <3>1. kids = new
      BY <2>2 DEF kids
    <3> HIDE DEF paths, first, mine
    <3> QED
      BY <1>8, <3>1
  <2> QED
    BY <2>1, <2>2
<1>12. ASSUME fi \in Older + 1 .. Len(frames)
       PROVE  /\ \A p \in DOMAIN g.children :
                     \E j \in DOMAIN specs : /\ g.children[p] = n + j
                                             /\ specs[j].parent = fi
                                             /\ specs[j].frame.path = p
              /\ \A j \in DOMAIN specs :
                     specs[j].parent = fi => specs[j].frame.path \in DOMAIN g.children
  <2>1. \A p \in paths : first(p) \in DOMAIN specs /\ specs[first(p)].parent = fi
    BY <1>6
  <2>2. \A j \in DOMAIN specs : specs[j].parent = fi => specs[j].frame.path \in paths
    OBVIOUS
  <2> HIDE DEF first, paths
  <2> QED
    BY <1>6, <1>11, <1>12, <2>1, <2>2
<1> QED
  BY <1>8, <1>9, <1>10, <1>12 DEF g, specs

LEMMA WantedRead ==
    ASSUME NEW ex, NEW sn, NEW f, Filled(f), IsRead(sn, f), NEW t \in Spot, Wanted(ex, f, t)
    PROVE  f.readable
<1>1. f.len \in Nat /\ t.off \in Nat /\ PtrBytes \in Nat \ {0}
  BY TargetAssumption DEF Filled, FrameType, Spot
<1>2. t.off + PtrBytes <= f.len
  BY DEF Wanted, HoldsPointer
<1>3. f.len > 0
  BY <1>1, <1>2
<1> QED
  BY <1>3 DEF IsRead

LEMMA DescendStep ==
    ASSUME SnapInv, Descend
    PROVE  SnapInv'
<1> DEFINE specs == WaveSpecs
           n     == Len(frames)
           m     == Len(specs)
           old   == [fi \in 1 .. n |-> WithChildren(fi, specs, n)]
           new   == [j \in DOMAIN specs |-> specs[j].frame]
<1>1. /\ phase = "discover" /\ specs # <<>> /\ frames' = old \o new
      /\ wave' = [j \in DOMAIN specs |-> n + j]
      /\ phase' = "scatter" /\ mem' = mem /\ seen' = seen /\ expand' = expand
      /\ have' = have /\ levels' = levels /\ rows' = rows
  BY DEF Descend
<1>2. /\ n \in Nat /\ Older \in Nat /\ Older <= n
      /\ \A fi \in 1 .. n : /\ frames[fi] \in FrameType /\ IsRead(seen, frames[fi])
                            /\ Filled(frames[fi])
  BY <1>1, Counts, AllFilled DEF SnapInv
<1>3. specs \in Seq(Asked)
  BY <1>1, WaveSpecsIs
<1>4. /\ DOMAIN specs = 1 .. m /\ m \in Nat
      /\ \A j \in 1 .. m : specs[j] \in Asked
  BY <1>3, LenProperties, ElementOfSeq
<1>5. \A fi \in 1 .. n :
          LET g == WithChildren(fi, specs, n)
          IN  /\ g \in FrameType
              /\ SameFrame(frames[fi], g) /\ g.buf = frames[fi].buf /\ g.len = frames[fi].len
              /\ IsRead(seen, g)
              /\ fi \in 1 .. Older => g = frames[fi]
              /\ fi \in Older + 1 .. n =>
                     /\ \A p \in DOMAIN g.children :
                            \E j \in DOMAIN specs : /\ g.children[p] = n + j
                                                    /\ specs[j].parent = fi
                                                    /\ specs[j].frame.path = p
                     /\ \A j \in DOMAIN specs :
                            specs[j].parent = fi => specs[j].frame.path \in DOMAIN g.children
  BY <1>1, <1>2, Followed
<1>6. ASSUME NEW fi \in Older + 1 .. n, NEW x, Holds(Specs(frames[fi]), x)
      PROVE  Holds(specs, [parent |-> fi, frame |-> x])
  BY <1>1, <1>6, WaveSpecsIs
<1> HIDE DEF specs
<1>7. old \in Seq(FrameType) /\ Len(old) = n /\ \A fi \in 1 .. n : old[fi] = WithChildren(fi, specs, n)
  <2>1. old \in [1 .. n -> FrameType]
    BY <1>5
  <2>2. \A fi \in 1 .. n : old[fi] = WithChildren(fi, specs, n)
    OBVIOUS
  <2> HIDE DEF old, n
  <2> QED
    BY <1>2, <2>1, <2>2
<1>8. new \in Seq(FrameType) /\ Len(new) = m /\ \A j \in 1 .. m : new[j] = specs[j].frame
  <2>1. new \in [1 .. m -> FrameType]
    BY <1>4 DEF Asked
  <2>2. \A j \in 1 .. m : new[j] = specs[j].frame
    BY <1>4
  <2> HIDE DEF new, m
  <2> QED
    BY <1>4, <2>1, <2>2
<1> HIDE DEF old, new
<1>9. /\ frames' \in Seq(FrameType) /\ Len(frames') = n + m
      /\ \A fi \in 1 .. n : frames'[fi] = WithChildren(fi, specs, n)
      /\ \A j \in 1 .. m : frames'[n + j] = specs[j].frame
  <2>1. /\ old \o new \in Seq(FrameType) /\ Len(old \o new) = Len(old) + Len(new)
        /\ \A i \in 1 .. Len(old) : (old \o new)[i] = old[i]
        /\ \A i \in 1 .. Len(new) : (old \o new)[Len(old) + i] = new[i]
    <3>1. old \in Seq(FrameType) /\ new \in Seq(FrameType)
      BY <1>7, <1>8
    <3> QED
      BY ONLY <3>1, TwoSequences
  <2>2. \A j \in 1 .. m : frames'[n + j] = new[j]
    BY <1>1, <1>7, <1>8, <2>1
  <2>3. \A fi \in 1 .. n : frames'[fi] = old[fi]
    BY <1>1, <1>7, <2>1
  <2> QED
    BY <1>1, <1>7, <1>8, <2>1, <2>2, <2>3
<1>10. m > 0
  BY <1>1, <1>3, EmptySeq
<1>11. wave' \in Seq(Nat) /\ Len(wave') = m /\ \A j \in 1 .. m : wave'[j] = n + j
  <2>1. wave' \in [1 .. m -> Nat]
    BY <1>1, <1>2, <1>4
  <2>2. \A j \in 1 .. m : wave'[j] = n + j
    BY <1>1, <1>4
  <2> HIDE DEF m, n
  <2> QED
    BY <1>4, <2>1, <2>2
<1> HIDE DEF n, m
<1>12. Older' = n /\ ReadCount' = n
  <2>1. Older' = (n + m) - m
    BY <1>9, <1>11 DEF Older
  <2> QED
    BY <1>1, <1>2, <1>4, <2>1 DEF ReadCount
<1>13. SnapTypes'
  <2>1. Len(wave') <= Len(frames')
    BY <1>2, <1>4, <1>9, <1>11
  <2>2. \A i \in 1 .. Len(wave') : wave'[i] = Older' + i
    BY <1>11, <1>12
  <2> QED
    BY <1>1, <1>9, <1>11, <2>1, <2>2 DEF SnapInv, SnapTypes, OneByOne
<1>14. FramesRead'
  <2>1. \A fi \in 1 .. n : IsRead(seen, frames'[fi])
    BY <1>5, <1>9
  <2>2. ASSUME NEW fi \in n + 1 .. n + m PROVE Untouched(frames'[fi])
    <3> DEFINE j == fi - n
    <3>1. j \in 1 .. m /\ n + j = fi
      BY <1>2, <1>4
    <3> HIDE DEF j
    <3>2. frames'[fi] \in Asks(expand, frames[specs[j].parent])
      BY <1>4, <1>9, <3>1 DEF Asked
    <3> QED
      BY <3>2, AskFresh DEF Asks
  <2>3. have = 0
    BY <1>1 DEF SnapInv, FramesRead
  <2> QED
    BY <1>1, <1>9, <1>12, <2>1, <2>2, <2>3 DEF FramesRead
<1>15. ASSUME NEW fi \in 1 .. Older
       PROVE  KidsOK(expand, frames', fi) /\ AllFollowed(expand, frames', fi)
  <2>1. fi \in 1 .. n /\ frames'[fi] = frames[fi]
    BY <1>2, <1>5, <1>9
  <2>2. KidsOK(expand, frames, fi) /\ AllFollowed(expand, frames, fi)
    BY DEF SnapInv, TreeOK
  <2>3. \A i \in 1 .. n : SameFrame(frames[i], frames'[i])
    BY <1>5, <1>9
  <2>4. KidsOK(expand, frames', fi)
    <3>1. Len(frames) = n /\ Len(frames) \in Nat /\ Len(frames') \in Nat /\ Len(frames) <= Len(frames')
      BY <1>2, <1>4, <1>9 DEF n
    <3> QED
      BY <2>1, <2>2, <2>3, <3>1, ReadsKeepTree
  <2>5. AllFollowed(expand, frames', fi)
    BY <2>1, <2>2 DEF AllFollowed
  <2> QED
    BY <2>4, <2>5
<1>16. ASSUME NEW fi \in Older + 1 .. n
       PROVE  KidsOK(expand, frames', fi) /\ AllFollowed(expand, frames', fi)
  <2> DEFINE f == frames[fi]
             g == frames'[fi]
  <2>1. fi \in 1 .. n
    BY <1>2
  <2>2. /\ SameFrame(f, g) /\ g.buf = f.buf /\ g.len = f.len
        /\ \A p \in DOMAIN g.children :
               \E j \in DOMAIN specs : /\ g.children[p] = n + j
                                       /\ specs[j].parent = fi
                                       /\ specs[j].frame.path = p
        /\ \A j \in DOMAIN specs :
               specs[j].parent = fi => specs[j].frame.path \in DOMAIN g.children
    BY <1>5, <1>9, <2>1
  <2>3. f \in FrameType /\ IsRead(seen, f) /\ Filled(f)
    BY <1>2, <2>1
  <2> HIDE DEF f, g
  <2>4. /\ Spots(expand, f) = Spots(expand, g)
        /\ \A t : (Wanted(expand, f, t) <=> Wanted(expand, g, t)) /\ Ask(f, t) = Ask(g, t)
    BY <2>2, SameSearch
  <2>5. ASSUME NEW p \in DOMAIN g.children
        PROVE  /\ g.children[p] \in fi + 1 .. Len(frames')
               /\ \E t \in Spots(expand, g) :
                      /\ Wanted(expand, g, t)
                      /\ t.path = p
                      /\ SameFrame(Ask(g, t), frames'[g.children[p]])
    <3>1. PICK j \in 1 .. m : g.children[p] = n + j /\ specs[j].parent = fi /\ specs[j].frame.path = p
      BY <1>4, <2>2
    <3>2. n + j \in fi + 1 .. Len(frames')
      BY <1>2, <1>4, <1>9
    <3>3. frames'[n + j] \in Asks(expand, f)
      BY <1>4, <1>9, <3>1 DEF Asked, f
    <3>4. PICK t \in Spots(expand, f) : Wanted(expand, f, t) /\ frames'[n + j] = Ask(f, t)
      BY <3>3 DEF Asks
    <3>5. t.path = p
      BY <1>9, <3>1, <3>4, AskFresh
    <3>6. SameFrame(Ask(g, t), frames'[n + j])
      BY <2>4, <3>4 DEF SameFrame
    <3> QED
      BY <2>4, <3>1, <3>2, <3>4, <3>5, <3>6
  <2>6. KidsOK(expand, frames', fi)
    BY <2>5 DEF KidsOK, g
  <2>7. ASSUME ~IsText(g), NEW t \in Spots(expand, g), Wanted(expand, g, t)
        PROVE  t.path \in DOMAIN g.children
    <3>1. t \in Spots(expand, f) /\ Wanted(expand, f, t) /\ ~IsText(f)
      BY <2>2, <2>4, <2>7 DEF SameFrame, IsText
    <3>2. t \in Spot
      BY <2>3, <3>1, SpotsAreClosed DEF FrameType
    <3>3. f.readable
      BY <2>3, <3>1, <3>2, WantedRead
    <3>4. Holds(Specs(f), Ask(f, t))
      BY <2>3, <3>1, <3>3, SpecsComplete
    <3>5. Holds(specs, [parent |-> fi, frame |-> Ask(f, t)])
      BY <1>6, <3>4 DEF f
    <3>6. PICK j \in 1 .. m : specs[j] = [parent |-> fi, frame |-> Ask(f, t)]
      BY <3>5 DEF Holds, m
    <3>7. specs[j].parent = fi /\ specs[j].frame.path = t.path
      BY <3>6, AskFresh
    <3> QED
      BY <1>4, <2>2, <3>7
  <2>8. AllFollowed(expand, frames', fi)
    BY <2>7 DEF AllFollowed, g
  <2> QED
    BY <2>6, <2>8
<1>17. TreeOK'
  <2>1. Len(Roots) <= n /\ Len(Roots) \in Nat
    BY TargetAssumption, LenProperties DEF SnapInv, TreeOK, n
  <2>2. ASSUME NEW r \in 1 .. Len(Roots)
        PROVE  SameFrame(FrameAt(Roots[r].cls, Roots[r].base, 0, r, <<>>, 0), frames'[r])
    <3>1. r \in 1 .. n
      BY <1>2, <2>1
    <3>2. SameFrame(FrameAt(Roots[r].cls, Roots[r].base, 0, r, <<>>, 0), frames[r])
      BY DEF SnapInv, TreeOK
    <3>3. SameFrame(frames[r], frames'[r])
      BY <1>5, <1>9, <3>1
    <3> QED
      BY <3>2, <3>3 DEF SameFrame
  <2>3. ASSUME NEW fi \in n + 1 .. n + m PROVE frames'[fi].children = <<>>
    <3>1. Untouched(frames'[fi])
      BY <1>9, <1>12, <1>14 DEF FramesRead
    <3> QED
      BY <3>1 DEF Untouched
  <2>4. ASSUME NEW fi \in 1 .. n
        PROVE  KidsOK(expand, frames', fi) /\ AllFollowed(expand, frames', fi)
    <3>1. fi \in 1 .. Older \/ fi \in Older + 1 .. n
      BY <1>2
    <3> QED
      BY <1>15, <1>16, <3>1
  <2>5. Len(Roots) <= Len(frames')
    BY <1>2, <1>4, <1>9, <2>1
  <2> QED
    BY <1>1, <1>9, <1>12, <2>2, <2>3, <2>4, <2>5 DEF TreeOK
<1>18. RowsOK'
  BY <1>1 DEF SnapInv, RowsOK
<1> QED
  BY <1>13, <1>14, <1>17, <1>18 DEF SnapInv

-----------------------------------------------------------------------------
(* The places that rows are made for.                                      *)

\* The tree is complete: no frame has a pointer left to follow.
Complete ==
    \A fi \in 1 .. Len(frames) :
        /\ frames[fi] \in FrameType /\ Filled(frames[fi]) /\ IsRead(seen, frames[fi])
        /\ KidsOK(expand, frames, fi) /\ AllFollowed(expand, frames, fi)

LEMMA TreeComplete ==
    ASSUME SnapInv, phase = "discover", WaveSpecs = <<>>
    PROVE  Complete
<1> SUFFICES ASSUME NEW fi \in 1 .. Len(frames)
             PROVE  /\ frames[fi] \in FrameType /\ Filled(frames[fi]) /\ IsRead(seen, frames[fi])
                    /\ KidsOK(expand, frames, fi) /\ AllFollowed(expand, frames, fi)
  BY DEF Complete
<1> DEFINE f == frames[fi]
<1>1. /\ f \in FrameType /\ Filled(f) /\ IsRead(seen, f)
      /\ Older \in Nat /\ Len(frames) \in Nat /\ Older <= Len(frames)
  BY Counts, AllFilled DEF SnapInv
<1>2. CASE fi \in 1 .. Older
  BY <1>1, <1>2 DEF SnapInv, TreeOK
<1>3. CASE fi \in Older + 1 .. Len(frames)
  <2>1. f.children = <<>>
    BY <1>3 DEF SnapInv, TreeOK
  <2>2. KidsOK(expand, frames, fi)
    BY <2>1, NoChildren DEF KidsOK
  <2>3. ASSUME ~IsText(f), NEW t \in Spots(expand, f), Wanted(expand, f, t) PROVE FALSE
    <3>1. t \in Spot
      BY <1>1, SpotsAreClosed DEF FrameType
    <3>2. f.readable
      BY <1>1, <2>3, <3>1, WantedRead
    <3>3. Holds(Specs(f), Ask(f, t))
      BY <1>1, <2>3, <3>2, SpecsComplete
    <3>4. Holds(WaveSpecs, [parent |-> fi, frame |-> Ask(f, t)])
      BY <1>3, <3>3, WaveSpecsIs
    <3>5. Len(<<>>) = 0
      OBVIOUS
    <3> QED
      BY <3>4, <3>5 DEF Holds
  <2>4. AllFollowed(expand, frames, fi)
    BY <2>3 DEF AllFollowed
  <2> QED
    BY <1>1, <2>2, <2>4
<1> QED
  BY <1>1, <1>2, <1>3

\* What a place depends on: what lies inside it, and behind its pointer.
PlacesUnder(p) ==
    LET k == p.kind
        f == frames[p.fi]
    IN  CASE k.tag = "instance" /\ ~IsCollapsed(f.root, p.path) ->
               {NodePlace(p.fi, k.cls, i, p.off, p.depth + 1, p.path) : i \in DOMAIN Nodes[k.cls]}
          [] k.tag = "array" /\ ~IsCollapsed(f.root, p.path) ->
               {ElemPlace(p, e) : e \in 1 .. Shown(k)}
          [] k.tag = "class_ptr" /\ IsExpanded(f.root, p.path) /\ p.path \in DOMAIN f.children ->
               {NodePlace(f.children[p.path], k.cls, i, 0, p.depth + 1, p.path) :
                    i \in DOMAIN Nodes[k.cls]}
          [] OTHER -> {}

\* How a place is laid out.
OpenInstance(p) ==
    p.kind.tag = "instance" /\ ~IsCollapsed(frames[p.fi].root, p.path)

OpenArray(p) ==
    p.kind.tag = "array" /\ ~IsCollapsed(frames[p.fi].root, p.path)

OpenPointer(p) ==
    /\ p.kind.tag = "class_ptr" /\ IsExpanded(frames[p.fi].root, p.path)
    /\ p.path \in DOMAIN frames[p.fi].children

OpenText(p) == p.kind.tag = "text" /\ p.path \in DOMAIN frames[p.fi].children

Closed(p) == ~OpenInstance(p) /\ ~OpenArray(p) /\ ~OpenPointer(p) /\ ~OpenText(p)

Behind(p) == frames[frames[p.fi].children[p.path]]

LEMMA FormattedIs ==
    ASSUME NEW shown, NEW p
    PROVE  /\ OpenInstance(p) =>
                  Formatted(shown, p) =
                      <<RowOf(p)>> \o ClassRows(shown, p.fi, p.kind.cls, p.off, p.depth + 1, p.path)
           /\ OpenArray(p) => Formatted(shown, p) = <<RowOf(p)>> \o ArrayRows(shown, p)
           /\ OpenPointer(p) =>
                  Formatted(shown, p) =
                      <<RowOf(p)>> \o ClassRows(shown, frames[p.fi].children[p.path], p.kind.cls, 0,
                                                p.depth + 1, p.path)
           /\ OpenText(p) =>
                  Formatted(shown, p) =
                      <<[RowOf(p) EXCEPT !.text = SubSeq(Behind(p).buf, 1, Behind(p).len)]>>
           /\ Closed(p) => Formatted(shown, p) = <<RowOf(p)>>
<1>1. ASSUME OpenInstance(p)
      PROVE  Formatted(shown, p) =
                 <<RowOf(p)>> \o ClassRows(shown, p.fi, p.kind.cls, p.off, p.depth + 1, p.path)
  BY <1>1 DEF OpenInstance, Formatted
<1>2. ASSUME OpenArray(p) PROVE Formatted(shown, p) = <<RowOf(p)>> \o ArrayRows(shown, p)
  BY <1>2 DEF OpenArray, Formatted
<1>3. ASSUME OpenPointer(p)
      PROVE  Formatted(shown, p) =
                 <<RowOf(p)>> \o ClassRows(shown, frames[p.fi].children[p.path], p.kind.cls, 0,
                                           p.depth + 1, p.path)
  BY <1>3 DEF OpenPointer, Formatted
<1>4. ASSUME OpenText(p)
      PROVE  Formatted(shown, p) =
                 <<[RowOf(p) EXCEPT !.text = SubSeq(Behind(p).buf, 1, Behind(p).len)]>>
  BY <1>4 DEF OpenText, Formatted, Behind
<1>5. ASSUME Closed(p) PROVE Formatted(shown, p) = <<RowOf(p)>>
  BY <1>5 DEF Closed, OpenInstance, OpenArray, OpenPointer, OpenText, Formatted
<1> QED
  BY <1>1, <1>2, <1>3, <1>4, <1>5

LEMMA UnderIs ==
    ASSUME NEW p
    PROVE  /\ OpenInstance(p) =>
                  PlacesUnder(p) = {NodePlace(p.fi, p.kind.cls, i, p.off, p.depth + 1, p.path) :
                                        i \in DOMAIN Nodes[p.kind.cls]}
           /\ OpenArray(p) => PlacesUnder(p) = {ElemPlace(p, e) : e \in 1 .. Shown(p.kind)}
           /\ OpenPointer(p) =>
                  PlacesUnder(p) = {NodePlace(frames[p.fi].children[p.path], p.kind.cls, i, 0,
                                              p.depth + 1, p.path) :
                                        i \in DOMAIN Nodes[p.kind.cls]}
           /\ ~OpenInstance(p) /\ ~OpenArray(p) /\ ~OpenPointer(p) => PlacesUnder(p) = {}
<1>1. ASSUME OpenInstance(p)
      PROVE  PlacesUnder(p) = {NodePlace(p.fi, p.kind.cls, i, p.off, p.depth + 1, p.path) :
                                   i \in DOMAIN Nodes[p.kind.cls]}
  BY <1>1 DEF OpenInstance, PlacesUnder
<1>2. ASSUME OpenArray(p) PROVE PlacesUnder(p) = {ElemPlace(p, e) : e \in 1 .. Shown(p.kind)}
  BY <1>2 DEF OpenArray, PlacesUnder
<1>3. ASSUME OpenPointer(p)
      PROVE  PlacesUnder(p) = {NodePlace(frames[p.fi].children[p.path], p.kind.cls, i, 0,
                                         p.depth + 1, p.path) :
                                   i \in DOMAIN Nodes[p.kind.cls]}
  BY <1>3 DEF OpenPointer, PlacesUnder
<1>4. ASSUME ~OpenInstance(p), ~OpenArray(p), ~OpenPointer(p) PROVE PlacesUnder(p) = {}
  BY <1>4 DEF OpenInstance, OpenArray, OpenPointer, PlacesUnder
<1> QED
  BY <1>1, <1>2, <1>3, <1>4

LEMMA NodePlaceType ==
    ASSUME NEW fi \in DOMAIN frames, NEW c \in Classes, NEW i \in DOMAIN Nodes[c],
           NEW off \in Nat, NEW depth \in Nat, NEW path \in Paths
    PROVE  LET q == NodePlace(fi, c, i, off, depth, path)
           IN  /\ q \in Place
               /\ q.fi = fi /\ q.kind = Nodes[c][i] /\ q.off = off + Offsets[c][i]
               /\ q.local = Offsets[c][i] /\ q.depth = depth /\ q.path = Append(path, i - 1)
               /\ [kind |-> q.kind, off |-> q.off, path |-> q.path] = NodeSpot(c, i, off, path)
<1>1. Nodes[c][i] \in Kinds /\ Offsets[c][i] \in Nat /\ i - 1 \in Nat
  BY ClassNodes, ClassSizes
<1>2. Append(path, i - 1) \in Paths
  BY <1>1 DEF Paths
<1>3. off + Offsets[c][i] \in Nat
  BY <1>1
<1> QED
  BY <1>1, <1>2, <1>3 DEF NodePlace, Place, NodeSpot

LEMMA ElemPlaceType ==
    ASSUME NEW p \in Place, p.kind.tag = "array", NEW e \in 1 .. Shown(p.kind)
    PROVE  LET q == ElemPlace(p, e)
           IN  /\ q \in Place
               /\ q.fi = p.fi /\ q.kind = p.kind.elem
               /\ q.off = p.off + (e - 1) * Stride(p.kind.elem)
               /\ q.local = (e - 1) * Stride(p.kind.elem)
               /\ q.depth = p.depth + 1 /\ q.path = Append(p.path, e - 1)
<1>1. p.kind \in Kinds /\ p.off \in Nat /\ p.path \in Paths /\ p.depth \in Nat
  BY DEF Place
<1>2. p.kind.elem \in Kinds /\ e - 1 \in Nat
  BY <1>1, KindFields, ShownType
<1>3. Stride(p.kind.elem) \in Nat
  BY <1>2, KindSizes DEF Stride
<1>4. (e - 1) * Stride(p.kind.elem) \in Nat
  BY <1>2, <1>3
<1>5. p.off + (e - 1) * Stride(p.kind.elem) \in Nat /\ p.depth + 1 \in Nat
  BY <1>1, <1>4
<1>6. Append(p.path, e - 1) \in Paths
  BY <1>1, <1>2 DEF Paths
<1> QED
  BY <1>1, <1>2, <1>4, <1>5, <1>6 DEF ElemPlace, Place

\* What lies under a place is of a kind inside its own, or in a later frame.
LEMMA UnderType ==
    ASSUME SnapTypes, Complete, NEW p \in Place, NEW q \in PlacesUnder(p)
    PROVE  /\ q \in Place
           /\ (q.fi = p.fi /\ q.kind \in Inside(p.kind)) \/ q.fi > p.fi
<1>1. /\ p.fi \in 1 .. Len(frames) /\ p.kind \in Kinds /\ p.off \in Nat /\ p.depth + 1 \in Nat
      /\ p.path \in Paths /\ DOMAIN frames = 1 .. Len(frames) /\ Len(frames) \in Nat
  BY Counts DEF Place
<1>2. CASE OpenInstance(p)
  <2>1. p.kind.tag = "instance" /\ p.kind.cls \in Classes
    BY <1>1, <1>2, KindFields DEF OpenInstance
  <2>2. PICK i \in DOMAIN Nodes[p.kind.cls] :
            q = NodePlace(p.fi, p.kind.cls, i, p.off, p.depth + 1, p.path)
    BY <1>2, UnderIs
  <2>3. q \in Place /\ q.fi = p.fi /\ q.kind = Nodes[p.kind.cls][i]
    BY <1>1, <2>1, <2>2, NodePlaceType
  <2> QED
    BY <1>1, <2>1, <2>3, KindsInside
<1>3. CASE OpenArray(p)
  <2>1. p.kind.tag = "array"
    BY <1>3 DEF OpenArray
  <2>2. PICK e \in 1 .. Shown(p.kind) : q = ElemPlace(p, e)
    BY <1>3, UnderIs
  <2>3. q \in Place /\ q.fi = p.fi /\ q.kind = p.kind.elem
    BY <2>1, <2>2, ElemPlaceType
  <2> QED
    BY <1>1, <2>1, <2>3, KindsInside
<1>4. CASE OpenPointer(p)
  <2> DEFINE ch == frames[p.fi].children[p.path]
  <2>1. p.kind.cls \in Classes /\ p.path \in DOMAIN frames[p.fi].children
    BY <1>1, <1>4, KindFields DEF OpenPointer
  <2>2. KidsOK(expand, frames, p.fi)
    BY <1>1 DEF Complete
  <2>3. ch \in p.fi + 1 .. Len(frames)
    BY <2>1, <2>2 DEF KidsOK
  <2>4. ch \in DOMAIN frames /\ ch > p.fi
    BY <1>1, <2>3
  <2>5. PICK i \in DOMAIN Nodes[p.kind.cls] :
            q = NodePlace(ch, p.kind.cls, i, 0, p.depth + 1, p.path)
    BY <1>4, UnderIs
  <2> HIDE DEF ch
  <2>6. q \in Place /\ q.fi = ch
    BY <1>1, <2>1, <2>4, <2>5, NodePlaceType
  <2> QED
    BY <2>4, <2>6
<1> QED
  BY <1>2, <1>3, <1>4, UnderIs

\* Below a place one can go only so far.
LEMMA PlacesGrounded ==
    ASSUME SnapTypes, Complete
    PROVE  Grounded(Place, [p \in Place |-> PlacesUnder(p)])
<1> DEFINE under == [p \in Place |-> PlacesUnder(p)]
           n     == Len(frames)
<1>1. under \in [Place -> SUBSET Place]
  BY UnderType
<1>2. n \in Nat /\ \A p \in Place : p.fi \in 1 .. n /\ p.kind \in Kinds
  BY Counts DEF Place
<1>3. ASSUME NEW T \in SUBSET Place, T # {} PROVE \E t \in T : under[t] \cap T = {}
  <2> DEFINE D == {n - t.fi : t \in T}
  <2>1. D \in SUBSET Nat /\ D # {}
    BY <1>2, <1>3
  <2>2. PICK d \in D : \A y \in D : d <= y
    <3> HIDE DEF D
    <3> QED
      BY <2>1, LeastNatural
  <2>3. PICK a \in T : \A t \in T : n - a.fi <= n - t.fi
    BY <2>2
  <2>4. \A t \in T : ~(t.fi > a.fi)
    BY <1>2, <2>3
  <2> DEFINE T1 == {t \in T : t.fi = a.fi}
  <2>5. T1 # {} /\ \A t \in T1 : t.kind \in Kinds
    BY <1>2
  <2>6. PICK t \in T1 : \A u \in T1 : u.kind \notin Inside(t.kind)
    <3> HIDE DEF T1
    <3> QED
      BY <2>5, LeastKind
  <2>7. ASSUME NEW q \in PlacesUnder(t), q \in T PROVE FALSE
    <3>1. (q.fi = t.fi /\ q.kind \in Inside(t.kind)) \/ q.fi > t.fi
      BY UnderType
    <3> QED
      BY <2>4, <2>6, <2>7, <3>1
  <2> QED
    BY <2>7
<1> QED
  BY <1>1, <1>3 DEF Grounded

\* A place lies in a frame of nodes, and where a pointer may be below it, it is
\* one that discovery came to.
SpotOf(p) == [kind |-> p.kind, off |-> p.off, path |-> p.path]

PlaceFits(p) ==
    /\ ~IsText(frames[p.fi])
    /\ Plain(p.kind) \/ SpotOf(p) \in Spots(expand, frames[p.fi])

LEMMA PlaceType ==
    ASSUME SnapTypes, Complete, NEW p \in Place
    PROVE  /\ p.fi \in 1 .. Len(frames) /\ p.kind \in Kinds /\ p.off \in Nat /\ p.local \in Nat
           /\ p.depth \in Nat /\ p.path \in Paths /\ SpotOf(p) \in Spot
           /\ KindSize[p.kind] \in Nat
           /\ LET f == frames[p.fi]
              IN  /\ f \in FrameType /\ Filled(f) /\ IsRead(seen, f)
                  /\ KidsOK(expand, frames, p.fi) /\ AllFollowed(expand, frames, p.fi)
                  /\ f.cls \in Classes /\ f.path \in Paths /\ f.base \in Nat
                  /\ f.root \in DOMAIN Roots /\ f.len \in Nat /\ f.buf \in Seq(Cells)
<1>1. p.fi \in 1 .. Len(frames)
  BY Counts DEF Place
<1>2. p.kind \in Kinds /\ p.off \in Nat /\ p.local \in Nat /\ p.depth \in Nat /\ p.path \in Paths
  BY DEF Place
<1>3. SpotOf(p) \in Spot
  BY <1>2 DEF SpotOf, Spot
<1>4. LET f == frames[p.fi]
      IN  /\ f \in FrameType /\ Filled(f) /\ IsRead(seen, f)
          /\ KidsOK(expand, frames, p.fi) /\ AllFollowed(expand, frames, p.fi)
  BY <1>1 DEF Complete
<1>5. \A f \in FrameType : /\ f.cls \in Classes /\ f.path \in Paths /\ f.base \in Nat
                           /\ f.root \in DOMAIN Roots /\ f.len \in Nat /\ f.buf \in Seq(Cells)
  BY DEF FrameType
<1> QED
  BY <1>1, <1>2, <1>3, <1>4, <1>5, KindSizes

\* Discovery came to every pointer that is laid out.
LEMMA PointerPlace ==
    ASSUME SnapTypes, Complete, NEW p \in Place, PlaceFits(p), p.kind.tag \in {"class_ptr", "text"}
    PROVE  /\ SpotOf(p) \in Spots(expand, frames[p.fi])
           /\ KindSize[p.kind] = PtrBytes
           /\ Wanted(expand, frames[p.fi], SpotOf(p)) => p.path \in DOMAIN frames[p.fi].children
<1> DEFINE f == frames[p.fi]
<1>1. p.kind \in Kinds /\ AllFollowed(expand, frames, p.fi)
  BY PlaceType
<1>2. KindSize[p.kind] = PtrBytes
  BY <1>1, KindSizes DEF Measured
<1>3. NeedsDiscovery[p.kind]
  BY <1>1, DiscoveryNeeded
<1>4. SpotOf(p) \in Spots(expand, f)
  BY <1>2, <1>3, TargetAssumption DEF PlaceFits, Plain
<1>5. SpotOf(p).path = p.path
  BY DEF SpotOf
<1> QED
  BY <1>1, <1>2, <1>4, <1>5 DEF PlaceFits, AllFollowed

\* What it was followed to.
LEMMA ChildOf ==
    ASSUME SnapTypes, Complete, NEW p \in Place, PlaceFits(p), p.kind.tag \in {"class_ptr", "text"},
           p.path \in DOMAIN frames[p.fi].children
    PROVE  LET f  == frames[p.fi]
               ch == f.children[p.path]
               g  == frames[ch]
           IN  /\ ch \in 1 .. Len(frames) /\ ch \in DOMAIN frames
               /\ Wanted(expand, f, SpotOf(p))
               /\ HoldsPointer(f, p.off)
               /\ g.base = PointerAt(f, p.off) /\ g.root = f.root /\ g.path = p.path
               /\ p.kind.tag = "class_ptr" => g.cls = p.kind.cls /\ g.text = 0
               /\ p.kind.tag = "text" => g.text = p.kind.max /\ g.text > 0 /\ g.base # 0
<1> DEFINE f  == frames[p.fi]
           ch == f.children[p.path]
           g  == frames[ch]
           s  == SpotOf(p)
<1>1. /\ f.cls \in Classes /\ f.path \in Paths /\ p.kind \in Kinds /\ KidsOK(expand, frames, p.fi)
      /\ p.fi \in 1 .. Len(frames) /\ DOMAIN frames = 1 .. Len(frames) /\ Len(frames) \in Nat
  BY PlaceType, Counts
<1>2. s \in Spots(expand, f)
  BY PointerPlace
<1>3. /\ ch \in p.fi + 1 .. Len(frames)
      /\ \E t \in Spots(expand, f) :
             Wanted(expand, f, t) /\ t.path = p.path /\ SameFrame(Ask(f, t), g)
  BY <1>1 DEF KidsOK
<1>4. PICK t \in Spots(expand, f) :
          Wanted(expand, f, t) /\ t.path = p.path /\ SameFrame(Ask(f, t), g)
  BY <1>3
<1>5. s.path = p.path /\ s.kind = p.kind /\ s.off = p.off
  BY DEF SpotOf
<1> HIDE DEF s, ch, g
<1>6. t = s
  BY <1>1, <1>2, <1>4, <1>5, OneSpot
<1>7. Wanted(expand, f, s) /\ SameFrame(Ask(f, s), g)
  BY <1>4, <1>6
<1>8. HoldsPointer(f, p.off)
  BY <1>5, <1>7 DEF Wanted
<1>9. /\ g.base = PointerAt(f, p.off) /\ g.root = f.root /\ g.path = p.path
      /\ p.kind.tag = "class_ptr" => g.cls = p.kind.cls /\ g.text = 0
      /\ p.kind.tag = "text" => g.text = p.kind.max
  BY <1>5, <1>7 DEF Ask, FrameAt, SameFrame
<1>10. p.kind.tag = "text" => p.kind.max > 0 /\ PointerAt(f, p.off) # 0
  BY <1>5, <1>7 DEF Wanted
<1>11. ch \in 1 .. Len(frames)
  BY <1>1, <1>3
<1> QED
  BY <1>1, <1>7, <1>8, <1>9, <1>10, <1>11 DEF ch, g, s

\* And the same holds of all that is laid out below it.
LEMMA FitsUnder ==
    ASSUME SnapTypes, Complete, NEW p \in Place, PlaceFits(p), NEW q \in PlacesUnder(p)
    PROVE  PlaceFits(q)
<1> DEFINE f == frames[p.fi]
           s == SpotOf(p)
<1>1. /\ p.fi \in DOMAIN frames /\ p.kind \in Kinds /\ p.off \in Nat /\ p.depth + 1 \in Nat
      /\ p.path \in Paths /\ f.cls \in Classes /\ f.path \in Paths
      /\ Plain(p.kind) \/ s \in Spots(expand, f)
      /\ s.path = p.path /\ s.kind = p.kind /\ s.off = p.off
      /\ s \in Spot
  BY PlaceType, Counts DEF PlaceFits, SpotOf
<1> HIDE DEF s
<1>2. CASE OpenInstance(p)
  <2>1. p.kind.tag = "instance" /\ p.kind.cls \in Classes
    BY <1>1, <1>2, KindFields DEF OpenInstance
  <2>2. PICK i \in DOMAIN Nodes[p.kind.cls] :
            q = NodePlace(p.fi, p.kind.cls, i, p.off, p.depth + 1, p.path)
    BY <1>2, UnderIs
  <2>3. /\ q.fi = p.fi /\ q.kind = Nodes[p.kind.cls][i]
        /\ SpotOf(q) = NodeSpot(p.kind.cls, i, p.off, p.path)
    BY <1>1, <2>1, <2>2, NodePlaceType DEF SpotOf
  <2>4. CASE Plain(p.kind)
    BY <1>1, <2>1, <2>3, <2>4, PlainInside DEF PlaceFits
  <2>5. CASE s \in Spots(expand, f)
    <3>1. SpotOf(q) \in Opened(expand, f, s)
      BY <1>1, <1>2, <2>1, <2>3 DEF Opened, OpenInstance, IsCollapsed
    <3>2. SpotOf(q) \in Spots(expand, f)
      BY <1>1, <2>5, <3>1, SpotsAreClosed
    <3> QED
      BY <2>3, <3>2 DEF PlaceFits
  <2> QED
    BY <1>1, <2>4, <2>5
<1>3. CASE OpenArray(p)
  <2>1. p.kind.tag = "array" /\ p.kind.elem \in Kinds /\ p.kind.count \in Nat
    BY <1>1, <1>3, KindFields DEF OpenArray
  <2>2. PICK e \in 1 .. Shown(p.kind) : q = ElemPlace(p, e)
    BY <1>3, UnderIs
  <2>3. /\ q.fi = p.fi /\ q.kind = p.kind.elem /\ q.path = Append(p.path, e - 1)
        /\ q.off = p.off + (e - 1) * Stride(p.kind.elem)
    BY <2>1, <2>2, ElemPlaceType
  <2>4. p.kind.count > 0
    BY <1>1, <2>1, ShownType
  <2>5. CASE Plain(p.kind)
    BY <1>1, <2>1, <2>3, <2>4, <2>5, PlainInside DEF PlaceFits
  <2>6. CASE ~Plain(p.kind)
    <3>1. KindSize[p.kind] # 0 /\ NeedsDiscovery[p.kind] /\ s \in Spots(expand, f)
      BY <1>1, <2>6 DEF Plain
    <3>2. NeedsDiscovery[p.kind.elem]
      BY <1>1, <2>1, <3>1, DiscoveryNeeded
    <3>3. KindSize[p.kind] = p.kind.count * KindSize[p.kind.elem] /\ KindSize[p.kind.elem] \in Nat
      BY <1>1, <2>1, KindSizes DEF Measured
    <3>4. Stride(p.kind.elem) = KindSize[p.kind.elem]
      BY <2>1, <3>1, <3>3 DEF Stride
    <3>5. SpotOf(q) = ElemSpot(s, e)
      BY <1>1, <2>3, <3>4 DEF SpotOf, ElemSpot
    <3>6. SpotOf(q) \in Opened(expand, f, s)
      BY <1>1, <1>3, <2>1, <2>2, <3>2, <3>5 DEF Opened, OpenArray, IsCollapsed
    <3>7. SpotOf(q) \in Spots(expand, f)
      BY <1>1, <3>1, <3>6, SpotsAreClosed
    <3> QED
      BY <2>3, <3>7 DEF PlaceFits
  <2> QED
    BY <2>5, <2>6
<1>4. CASE OpenPointer(p)
  <2> DEFINE ch == f.children[p.path]
             g  == frames[ch]
  <2>1. p.kind.tag = "class_ptr" /\ p.kind.cls \in Classes /\ p.path \in DOMAIN f.children
    BY <1>1, <1>4, KindFields DEF OpenPointer
  <2>2. ch \in DOMAIN frames /\ g.path = p.path /\ g.cls = p.kind.cls /\ g.text = 0
    BY <2>1, ChildOf
  <2>3. PICK i \in DOMAIN Nodes[p.kind.cls] :
            q = NodePlace(ch, p.kind.cls, i, 0, p.depth + 1, p.path)
    BY <1>4, UnderIs
  <2> HIDE DEF ch
  <2>4. q.fi = ch /\ SpotOf(q) = NodeSpot(p.kind.cls, i, 0, p.path)
    BY <1>1, <2>1, <2>2, <2>3, NodePlaceType DEF SpotOf
  <2>5. SpotOf(q) \in Tops(g)
    BY <2>2, <2>4 DEF Tops
  <2>6. SpotOf(q) \in Spots(expand, g)
    BY <1>1, <2>1, <2>2, <2>5, SpotsAreClosed
  <2> QED
    BY <2>2, <2>4, <2>6 DEF PlaceFits, IsText
<1> QED
  BY <1>2, <1>3, <1>4, UnderIs

-----------------------------------------------------------------------------
(* Rows.                                                                   *)

LEMMA RowsEqual ==
    ASSUME NEW r \in RowType, NEW t \in RowType,
           r.path = t.path, r.root = t.root, r.depth = t.depth, r.offset = t.offset,
           r.address = t.address, r.kind = t.kind, r.readable = t.readable,
           r.value = t.value, r.text = t.text
    PROVE  r = t
<1>1. \A x \in RowType :
          x = [path |-> x.path, root |-> x.root, depth |-> x.depth, offset |-> x.offset,
               address |-> x.address, kind |-> x.kind, readable |-> x.readable,
               value |-> x.value, text |-> x.text]
  BY DEF RowType
<1>2. r = [path |-> r.path, root |-> r.root, depth |-> r.depth, offset |-> r.offset,
           address |-> r.address, kind |-> r.kind, readable |-> r.readable,
           value |-> r.value, text |-> r.text]
  BY <1>1
<1>3. t = [path |-> t.path, root |-> t.root, depth |-> t.depth, offset |-> t.offset,
           address |-> t.address, kind |-> t.kind, readable |-> t.readable,
           value |-> t.value, text |-> t.text]
  BY <1>1
<1> QED
  BY <1>2, <1>3

LEMMA CellsAreInts ==
    ASSUME NEW s \in Seq(Cells)
    PROVE  s \in Seq(Int)
<1>0. CellBase \in Nat
  BY TargetAssumption
<1>1. \A i \in 1 .. Len(s) : s[i] \in Int
  <2>1. \A i \in 1 .. Len(s) : s[i] \in Cells
    OBVIOUS
  <2> QED
    BY <1>0, <2>1 DEF Cells
<1>2. s \in [1 .. Len(s) -> Int] /\ Len(s) \in Nat
  BY <1>1
<1> QED
  BY <1>2

\* The row of a place.
LEMMA RowOfIs ==
    ASSUME SnapTypes, Complete, NEW p \in Place
    PROVE  LET f    == frames[p.fi]
               size == KindSize[p.kind]
               r    == RowOf(p)
           IN  /\ r \in RowType
               /\ r.path = p.path /\ r.root = f.root /\ r.depth = p.depth /\ r.offset = p.local
               /\ r.address = f.base + p.off /\ r.kind = p.kind /\ r.text = <<>>
               /\ r.readable <=> f.readable /\ p.off + size <= f.len
               /\ ~r.readable => r.value = Unread
               /\ r.readable => /\ r.value = SubSeq(f.buf, p.off + 1, p.off + size)
                                /\ r.value \in Seq(Cells) /\ Len(r.value) = size
                                /\ \A i \in 1 .. size : r.value[i] = f.buf[p.off + i]
<1> DEFINE f    == frames[p.fi]
           size == KindSize[p.kind]
           ok   == RowReadable(f, p.off, size)
           val  == IF ok THEN SubSeq(f.buf, p.off + 1, p.off + size) ELSE Unread
<1>1. /\ p.kind \in Kinds /\ p.off \in Nat /\ p.local \in Nat /\ p.depth \in Nat /\ p.path \in Paths
      /\ size \in Nat /\ f \in FrameType /\ Filled(f)
      /\ f.base \in Nat /\ f.root \in DOMAIN Roots /\ f.len \in Nat /\ f.buf \in Seq(Cells)
  BY PlaceType
<1>2. f.readable \in BOOLEAN /\ f.len <= Len(f.buf) /\ Len(f.buf) \in Nat
  BY <1>1 DEF FrameType, Filled
<1>3. ok <=> f.readable /\ p.off + size <= f.len
  BY DEF RowReadable
<1>4. ok \in BOOLEAN
  BY DEF RowReadable
<1>5. RowOf(p) = [path |-> p.path, root |-> f.root, depth |-> p.depth, offset |-> p.local,
                  address |-> f.base + p.off, kind |-> p.kind, readable |-> ok,
                  value |-> val, text |-> <<>>]
  BY DEF RowOf
<1>6. ok => /\ val = SubSeq(f.buf, p.off + 1, p.off + size)
            /\ val \in Seq(Cells) /\ Len(val) = size
            /\ \A i \in 1 .. size : val[i] = f.buf[p.off + i]
  <2> SUFFICES ASSUME ok PROVE /\ val = SubSeq(f.buf, p.off + 1, p.off + size)
                               /\ val \in Seq(Cells) /\ Len(val) = size
                               /\ \A i \in 1 .. size : val[i] = f.buf[p.off + i]
    OBVIOUS
  <2>1. p.off + size <= Len(f.buf)
    BY <1>1, <1>2, <1>3
  <2>2. val = SubSeq(f.buf, p.off + 1, p.off + size)
    OBVIOUS
  <2> HIDE DEF f, size, val
  <2> QED
    BY <1>1, <2>1, <2>2, BufferCells
<1>7. ~ok => val = Unread
  OBVIOUS
<1>8. val \in Seq(Int)
  <2>1. Unread \in Seq(Int)
    BY DEF Unread
  <2> HIDE DEF val, ok
  <2> QED
    BY <1>6, <1>7, <2>1, CellsAreInts
<1>9. f.base + p.off \in Nat /\ <<>> \in Seq(Cells)
  BY <1>1
<1> HIDE DEF ok, val, f, size
<1>10. RowOf(p) \in RowType
  BY <1>1, <1>4, <1>5, <1>8, <1>9 DEF RowType
<1> QED
  BY <1>3, <1>5, <1>6, <1>7, <1>10 DEF f, size

\* The row that tells how much more there is.
LEMMA MoreIs ==
    ASSUME NEW row \in RowType, row.kind \in Kinds, row.kind.tag = "array"
    PROVE  /\ More(row) \in RowType
           /\ More(row).depth = row.depth + 1 /\ More(row).kind.tag = "more"
           /\ More(row).value = <<>> /\ More(row).text = row.text /\ More(row).root = row.root
           /\ More(row).offset = ArrayLimit * Stride(row.kind.elem)
           /\ More(row).address = row.address + ArrayLimit * Stride(row.kind.elem)
<1> DEFINE shown == ArrayLimit * Stride(row.kind.elem)
<1>1. row.kind.elem \in Kinds
  BY KindFields
<1>2. Stride(row.kind.elem) \in Nat
  BY <1>1, KindSizes DEF Stride
<1>3. shown \in Nat
  BY <1>2, TargetAssumption
<1>4. row.depth \in Nat /\ row.address \in Nat
  BY DEF RowType
<1>5. row.depth + 1 \in Nat /\ row.address + shown \in Nat /\ <<>> \in Seq(Int)
  BY <1>3, <1>4
<1>6. More(row) = [row EXCEPT !.depth = @ + 1, !.offset = shown, !.address = @ + shown,
                              !.kind = [tag |-> "more"], !.value = <<>>]
  BY DEF More
<1> DEFINE more == [tag |-> "more"]
<1>7. More(row) = [row EXCEPT !.depth = row.depth + 1, !.offset = shown,
                              !.address = row.address + shown, !.kind = more, !.value = <<>>]
  BY <1>6 DEF RowType
<1>8. more \in Kinds \cup {[tag |-> "more"]} /\ more.tag = "more"
  OBVIOUS
<1> HIDE DEF shown, more
<1>9. /\ More(row) \in RowType
      /\ More(row).depth = row.depth + 1 /\ More(row).kind = more
      /\ More(row).value = <<>> /\ More(row).text = row.text /\ More(row).root = row.root
      /\ More(row).offset = shown /\ More(row).address = row.address + shown
  BY <1>3, <1>5, <1>7, <1>8 DEF RowType
<1> QED
  BY <1>8, <1>9 DEF shown

\* A row with the cells of a string.
TextRow(p) == [RowOf(p) EXCEPT !.text = SubSeq(Behind(p).buf, 1, Behind(p).len)]

LEMMA TextRowIs ==
    ASSUME SnapTypes, Complete, NEW p \in Place, OpenText(p)
    PROVE  LET g == Behind(p)
           IN  /\ g \in FrameType /\ IsRead(seen, g) /\ g.len \in Nat
               /\ TextRow(p) \in RowType
               /\ TextRow(p).text = SubSeq(g.buf, 1, g.len)
               /\ TextRow(p).text \in Seq(Cells) /\ Len(TextRow(p).text) = g.len
               /\ \A i \in 1 .. g.len : TextRow(p).text[i] = g.buf[i]
               /\ TextRow(p).path = RowOf(p).path /\ TextRow(p).root = RowOf(p).root
               /\ TextRow(p).depth = RowOf(p).depth /\ TextRow(p).offset = RowOf(p).offset
               /\ TextRow(p).address = RowOf(p).address /\ TextRow(p).kind = RowOf(p).kind
               /\ TextRow(p).readable = RowOf(p).readable /\ TextRow(p).value = RowOf(p).value
<1> DEFINE ch == frames[p.fi].children[p.path]
           g  == frames[ch]
           t  == SubSeq(g.buf, 1, g.len)
<1>1. RowOf(p) \in RowType
  BY RowOfIs
<1>2. /\ p.fi \in 1 .. Len(frames) /\ Len(frames) \in Nat /\ KidsOK(expand, frames, p.fi)
      /\ p.path \in DOMAIN frames[p.fi].children
  BY PlaceType, Counts DEF OpenText
<1>3. ch \in p.fi + 1 .. Len(frames)
  BY <1>2 DEF KidsOK
<1>4. ch \in 1 .. Len(frames)
  BY <1>2, <1>3
<1>5. g \in FrameType /\ Filled(g) /\ IsRead(seen, g)
  BY <1>4 DEF Complete
<1>6. Behind(p) = g
  BY DEF Behind
<1> HIDE DEF g, ch
<1>7. g.buf \in Seq(Cells) /\ g.len \in Nat /\ g.len <= Len(g.buf)
  BY <1>5 DEF FrameType, Filled
<1>8. t \in Seq(Cells) /\ Len(t) = g.len /\ \A i \in 1 .. g.len : t[i] = g.buf[i]
  BY <1>7
<1>9. TextRow(p) = [RowOf(p) EXCEPT !.text = t]
  BY <1>6 DEF TextRow
<1> HIDE DEF t
<1>10. /\ TextRow(p) \in RowType /\ TextRow(p).text = t
       /\ TextRow(p).path = RowOf(p).path /\ TextRow(p).root = RowOf(p).root
       /\ TextRow(p).depth = RowOf(p).depth /\ TextRow(p).offset = RowOf(p).offset
       /\ TextRow(p).address = RowOf(p).address /\ TextRow(p).kind = RowOf(p).kind
       /\ TextRow(p).readable = RowOf(p).readable /\ TextRow(p).value = RowOf(p).value
  BY <1>1, <1>8, <1>9 DEF RowType
<1> QED
  BY <1>5, <1>6, <1>7, <1>8, <1>10 DEF t

\* The rows of a class are those of its nodes, and those of an array are those
\* of its elements with at most one more behind.
LEMMA ClassRowsIs ==
    ASSUME NEW shown, NEW F, NEW X, NEW fi, NEW c \in Classes, NEW off, NEW depth, NEW path,
           \A i \in DOMAIN Nodes[c] :
               /\ shown[NodePlace(fi, c, i, off, depth, path)] \in Seq(X)
               /\ F[NodePlace(fi, c, i, off, depth, path)]
                  = shown[NodePlace(fi, c, i, off, depth, path)]
    PROVE  /\ ClassRows(shown, fi, c, off, depth, path) \in Seq(X)
           /\ ClassRows(F, fi, c, off, depth, path) = ClassRows(shown, fi, c, off, depth, path)
<1> DEFINE n  == Len(Nodes[c])
           ss == [i \in DOMAIN Nodes[c] |-> shown[NodePlace(fi, c, i, off, depth, path)]]
<1>1. n \in Nat /\ DOMAIN Nodes[c] = 1 .. n
  BY ClassNodes
<1>2. \A i \in 1 .. n : ss[i] \in Seq(X)
  BY <1>1
<1>3. ClassRows(shown, fi, c, off, depth, path) = Concat(n, ss)
  BY DEF ClassRows
<1>4. [i \in DOMAIN Nodes[c] |-> F[NodePlace(fi, c, i, off, depth, path)]] = ss
  OBVIOUS
<1>5. ClassRows(F, fi, c, off, depth, path) = Concat(n, ss)
  BY <1>4 DEF ClassRows
<1> HIDE DEF n, ss
<1> QED
  BY <1>1, <1>2, <1>3, <1>5, ConcatType

LEMMA ArrayRowsIs ==
    ASSUME SnapTypes, Complete, NEW p \in Place, p.kind.tag = "array", NEW shown, NEW F,
           \A e \in 1 .. Shown(p.kind) :
               /\ shown[ElemPlace(p, e)] \in Seq(RowType)
               /\ F[ElemPlace(p, e)] = shown[ElemPlace(p, e)]
    PROVE  /\ ArrayRows(shown, p) \in Seq(RowType)
           /\ ArrayRows(F, p) = ArrayRows(shown, p)
<1> DEFINE n    == Shown(p.kind)
           ss   == [e \in 1 .. n |-> shown[ElemPlace(p, e)]]
           more == IF p.kind.count > n THEN <<More(RowOf(p))>> ELSE <<>>
<1>1. p.kind \in Kinds /\ n \in Nat
  BY PlaceType, ShownType
<1>2. \A e \in 1 .. n : ss[e] \in Seq(RowType)
  OBVIOUS
<1>3. Concat(n, ss) \in Seq(RowType)
  <2> HIDE DEF n, ss
  <2> QED
    BY <1>1, <1>2, ConcatType
<1>4. More(RowOf(p)) \in RowType
  <2>1. RowOf(p) \in RowType /\ RowOf(p).kind = p.kind
    BY RowOfIs
  <2> QED
    BY <1>1, <2>1, MoreIs
<1>5. more \in Seq(RowType)
  BY <1>4
<1>6. ArrayRows(shown, p) = Concat(n, ss) \o more
  BY DEF ArrayRows
<1>7. [e \in 1 .. n |-> F[ElemPlace(p, e)]] = ss
  OBVIOUS
<1>8. ArrayRows(F, p) = Concat(n, ss) \o more
  BY <1>7 DEF ArrayRows
<1> HIDE DEF more, ss, n
<1> QED
  BY <1>3, <1>5, <1>6, <1>8, TwoSequences

LEMMA FormattedType ==
    ASSUME SnapTypes, Complete, NEW p \in Place, NEW shown, NEW F,
           \A q \in PlacesUnder(p) : shown[q] \in Seq(RowType) /\ F[q] = shown[q]
    PROVE  /\ Formatted(shown, p) \in Seq(RowType)
           /\ Formatted(F, p) = Formatted(shown, p)
<1>1. RowOf(p) \in RowType /\ p.kind \in Kinds
  BY RowOfIs, PlaceType
<1>2. <<RowOf(p)>> \in Seq(RowType)
  BY <1>1
<1>3. CASE OpenInstance(p)
  <2> DEFINE fi   == p.fi
             c    == p.kind.cls
             off  == p.off
             d    == p.depth + 1
             path == p.path
  <2>1. c \in Classes
    BY <1>1, <1>3, KindFields DEF OpenInstance
  <2>2. ASSUME NEW i \in DOMAIN Nodes[c]
        PROVE  /\ shown[NodePlace(fi, c, i, off, d, path)] \in Seq(RowType)
               /\ F[NodePlace(fi, c, i, off, d, path)] = shown[NodePlace(fi, c, i, off, d, path)]
    <3>1. NodePlace(fi, c, i, off, d, path) \in PlacesUnder(p)
      BY <1>3, UnderIs
    <3> QED
      BY <3>1
  <2>3. /\ Formatted(shown, p) = <<RowOf(p)>> \o ClassRows(shown, fi, c, off, d, path)
        /\ Formatted(F, p) = <<RowOf(p)>> \o ClassRows(F, fi, c, off, d, path)
    BY <1>3, FormattedIs
  <2> HIDE DEF fi, c, off, d, path
  <2>4. /\ ClassRows(shown, fi, c, off, d, path) \in Seq(RowType)
        /\ ClassRows(F, fi, c, off, d, path) = ClassRows(shown, fi, c, off, d, path)
    BY <2>1, <2>2, ClassRowsIs
  <2> QED
    BY <1>2, <2>3, <2>4, TwoSequences
<1>4. CASE OpenArray(p)
  <2>1. p.kind.tag = "array"
    BY <1>4 DEF OpenArray
  <2>2. \A e \in 1 .. Shown(p.kind) : ElemPlace(p, e) \in PlacesUnder(p)
    BY <1>4, UnderIs
  <2>3. ArrayRows(shown, p) \in Seq(RowType) /\ ArrayRows(F, p) = ArrayRows(shown, p)
    BY <2>1, <2>2, ArrayRowsIs
  <2>4. /\ Formatted(shown, p) = <<RowOf(p)>> \o ArrayRows(shown, p)
        /\ Formatted(F, p) = <<RowOf(p)>> \o ArrayRows(shown, p)
    BY <1>4, <2>3, FormattedIs
  <2> QED
    BY <1>2, <2>3, <2>4, TwoSequences
<1>5. CASE OpenPointer(p)
  <2> DEFINE fi   == frames[p.fi].children[p.path]
             c    == p.kind.cls
             off  == 0
             d    == p.depth + 1
             path == p.path
  <2>1. c \in Classes
    BY <1>1, <1>5, KindFields DEF OpenPointer
  <2>2. ASSUME NEW i \in DOMAIN Nodes[c]
        PROVE  /\ shown[NodePlace(fi, c, i, off, d, path)] \in Seq(RowType)
               /\ F[NodePlace(fi, c, i, off, d, path)] = shown[NodePlace(fi, c, i, off, d, path)]
    <3>1. NodePlace(fi, c, i, off, d, path) \in PlacesUnder(p)
      BY <1>5, UnderIs
    <3> QED
      BY <3>1
  <2>3. Formatted(shown, p) = <<RowOf(p)>> \o ClassRows(shown, fi, c, off, d, path)
    BY <1>5, FormattedIs
  <2>4. Formatted(F, p) = <<RowOf(p)>> \o ClassRows(F, fi, c, off, d, path)
    BY <1>5, FormattedIs
  <2> HIDE DEF fi, c, off, d, path
  <2>5. /\ ClassRows(shown, fi, c, off, d, path) \in Seq(RowType)
        /\ ClassRows(F, fi, c, off, d, path) = ClassRows(shown, fi, c, off, d, path)
    BY <2>1, <2>2, ClassRowsIs
  <2> QED
    BY <1>2, <2>3, <2>4, <2>5, TwoSequences
<1>6. CASE OpenText(p)
  <2>1. Formatted(shown, p) = <<TextRow(p)>> /\ Formatted(F, p) = <<TextRow(p)>>
    BY <1>6, FormattedIs DEF TextRow
  <2>2. TextRow(p) \in RowType
    BY <1>6, TextRowIs
  <2> QED
    BY <2>1, <2>2
<1>7. CASE Closed(p)
  BY <1>2, <1>7, FormattedIs
<1> QED
  BY <1>3, <1>4, <1>5, <1>6, <1>7 DEF Closed

\* What is laid out is what is said to be, all the way down.
LEMMA KindRowsIs ==
    ASSUME SnapTypes, Complete
    PROVE  \A p \in Place : KindRows[p] \in Seq(RowType) /\ KindRows[p] = Formatted(KindRows, p)
<1> DEFINE X     == Seq(RowType)
           under == [p \in Place |-> PlacesUnder(p)]
           G     == [F \in [Place -> X] |-> [p \in Place |-> Formatted(F, p)]]
<1>1. Grounded(Place, under)
  BY PlacesGrounded
<1>2. \A p \in Place : PlacesUnder(p) \subseteq Place
  BY UnderType
<1>3. ASSUME NEW F \in [Place -> X], NEW p \in Place PROVE Formatted(F, p) \in X
  <2>1. \A q \in PlacesUnder(p) : F[q] \in Seq(RowType) /\ F[q] = F[q]
    BY <1>2
  <2> QED
    BY <2>1, FormattedType
<1>4. Local(Place, X, under, G)
  <2>1. \A F \in [Place -> X] : [p \in Place |-> Formatted(F, p)] \in [Place -> X]
    BY <1>3
  <2>2. G \in [[Place -> X] -> [Place -> X]]
    BY <2>1
  <2>3. ASSUME NEW F \in [Place -> X], NEW H \in [Place -> X], NEW p \in Place,
               \A q \in under[p] : F[q] = H[q]
        PROVE  G[F][p] = G[H][p]
    <3>1. \A q \in PlacesUnder(p) : H[q] \in Seq(RowType) /\ F[q] = H[q]
      BY <1>2, <2>3
    <3>2. Formatted(F, p) = Formatted(H, p)
      BY <3>1, FormattedType
    <3> QED
      BY <3>2
  <2> HIDE DEF X, under, G
  <2> QED
    BY <2>2, <2>3 DEF Local
<1>5. X # {}
  <2>1. <<>> \in Seq(RowType)
    OBVIOUS
  <2> QED
    BY <2>1
<1>6. HasFixpoint(Place, X, G)
  <2> HIDE DEF X, G, under
  <2> QED
    BY <1>1, <1>4, <1>5, Defined
<1>7. PICK F \in [Place -> X] : F = [p \in Place |-> Formatted(F, p)]
  <2> HIDE DEF X
  <2> QED
    BY <1>6 DEF HasFixpoint
<1>8. KindRows = [p \in Place |-> Formatted(KindRows, p)]
  BY <1>7 DEF KindRows
<1> DEFINE S == {p \in Place : KindRows[p] \in X}
<1>9. ASSUME NEW p \in Place, \A q \in under[p] : q \in S
      PROVE  p \in S
  <2>1. \A q \in PlacesUnder(p) : KindRows[q] \in Seq(RowType)
    BY <1>9
  <2>2. Formatted(KindRows, p) \in Seq(RowType)
    BY <2>1, FormattedType
  <2>3. KindRows[p] = Formatted(KindRows, p)
    BY <1>8
  <2> QED
    BY <2>2, <2>3
<1>10. Place \subseteq S
  <2> HIDE DEF S, under
  <2> QED
    BY <1>1, <1>9, GroundUp
<1>11. \A p \in Place : KindRows[p] = Formatted(KindRows, p)
  BY <1>8
<1> QED
  BY <1>10, <1>11

-----------------------------------------------------------------------------
(* Nothing is made up.                                                     *)

\* What a row shows was there.
SoundRows ==
    {r \in RowType :
        /\ r.readable => WasThere(r.address, r.value)
        /\ r.kind.tag = "text" /\ r.text # <<>> => r.readable /\ WasThere(PtrOf(r.value), r.text)}

RowsFrom(d, v) == {r \in SoundRows : r.depth >= d /\ r.root = v}

\* A row that is no root's is of the view of the one before it, and at most one
\* deeper; and if that is a pointer's, and it is deeper, it lies where that points.
Neighbours ==
    {pr \in RowType \X RowType :
        /\ pr[2].depth > 0 => pr[1].root = pr[2].root /\ pr[2].depth <= pr[1].depth + 1
        /\ pr[1].kind.tag = "class_ptr" /\ pr[2].depth = pr[1].depth + 1 =>
               pr[1].readable /\ pr[2].address = PtrOf(pr[1].value) + pr[2].offset}

\* Rows of a view from depth d on, the first of which is at d.
Rows(d, v, s) ==
    /\ s \in Seq(RowsFrom(d, v)) /\ Linked(s, Neighbours)
    /\ s # <<>> => s[1].depth = d

LEMMA SeqOfMore ==
    ASSUME NEW X, NEW Y, X \subseteq Y, NEW s \in Seq(X)
    PROVE  s \in Seq(Y)
<1>1. Len(s) \in Nat /\ DOMAIN s = 1 .. Len(s) /\ \A i \in 1 .. Len(s) : s[i] \in Y
  OBVIOUS
<1>2. s \in [1 .. Len(s) -> Y]
  BY <1>1
<1> QED
  BY <1>1, <1>2

LEMMA RowsFromMore ==
    ASSUME NEW d \in Nat, NEW v
    PROVE  /\ RowsFrom(d + 1, v) \subseteq RowsFrom(d, v)
           /\ \A x \in RowsFrom(d, v), h \in RowsFrom(d, v) : h.depth = d => <<x, h>> \in Neighbours
<1>1. \A x \in RowsFrom(d, v) : x \in RowType /\ x.depth >= d /\ x.root = v
  BY DEF RowsFrom, SoundRows
<1>2. \A x \in RowType : x.depth \in Nat
  BY DEF RowType
<1>3. RowsFrom(d + 1, v) \subseteq RowsFrom(d, v)
  <2>1. \A x \in SoundRows : x.depth \in Nat
    BY <1>2 DEF SoundRows
  <2> QED
    BY <2>1 DEF RowsFrom
<1>4. ASSUME NEW x \in RowsFrom(d, v), NEW h \in RowsFrom(d, v), h.depth = d
      PROVE  <<x, h>> \in Neighbours
  <2>1. h.depth # x.depth + 1 /\ h.depth <= x.depth + 1
    BY <1>1, <1>2, <1>4
  <2> QED
    BY <1>1, <2>1 DEF Neighbours
<1> QED
  BY <1>3, <1>4

\* A row and those below it.
LEMMA RowAndBelow ==
    ASSUME NEW d \in Nat, NEW r \in SoundRows, r.depth = d, NEW rest, Rows(d + 1, r.root, rest),
           rest # <<>> => <<r, rest[1]>> \in Neighbours
    PROVE  /\ Rows(d, r.root, <<r>> \o rest)
           /\ <<r>> \o rest # <<>> /\ (<<r>> \o rest)[1] = r
<1> DEFINE X == RowsFrom(d, r.root)
           one == <<r>>
<1>1. r \in X
  BY DEF RowsFrom
<1>2. one \in Seq(X) /\ Len(one) = 1 /\ one[1] = r /\ one # <<>>
  BY <1>1
<1>3. rest \in Seq(X) /\ Linked(rest, Neighbours)
  BY RowsFromMore, SeqOfMore DEF Rows
<1>4. Linked(one, Neighbours)
  BY <1>2 DEF Linked
<1> HIDE DEF X, one
<1>5. Linked(one \o rest, Neighbours)
  <2>1. one # <<>> /\ rest # <<>> => <<one[Len(one)], rest[1]>> \in Neighbours
    BY <1>2
  <2> QED
    BY <1>2, <1>3, <1>4, <2>1, LinkedTwo
<1>6. one \o rest \in Seq(X) /\ (one \o rest)[1] = r /\ Len(one \o rest) >= 1
  BY <1>2, <1>3, TwoSequences
<1>7. one \o rest # <<>>
  BY <1>6
<1> QED
  BY <1>5, <1>6, <1>7 DEF one, X, Rows

\* The row of a place shows what was there.
LEMMA RowSound ==
    ASSUME SnapTypes, Complete, NEW p \in Place
    PROVE  RowOf(p) \in SoundRows
<1> DEFINE f    == frames[p.fi]
           size == KindSize[p.kind]
           r    == RowOf(p)
<1>1. /\ f.base \in Nat /\ p.off \in Nat /\ size \in Nat /\ f.len \in Nat /\ IsRead(seen, f)
      /\ r \in RowType /\ r.address = f.base + p.off /\ r.text = <<>>
      /\ r.readable <=> f.readable /\ p.off + size <= f.len
      /\ r.readable => /\ r.value \in Seq(Cells) /\ Len(r.value) = size
                       /\ \A i \in 1 .. size : r.value[i] = f.buf[p.off + i]
  BY PlaceType, RowOfIs
<1> HIDE DEF r, size, f
<1>2. ASSUME r.readable PROVE WasThere(r.address, r.value)
  <2>1. DOMAIN r.value = 1 .. size
    BY <1>1, <1>2
  <2>2. ASSUME NEW i \in 1 .. size
        PROVE  \E m \in DOMAIN seen : /\ r.address + i - 1 \in DOMAIN seen[m]
                                      /\ seen[m][r.address + i - 1] = r.value[i]
    <3>1. p.off + i \in 1 .. f.len
      BY <1>1, <1>2
    <3>2. PICK m \in DOMAIN seen : /\ f.base + (p.off + i) - 1 \in DOMAIN seen[m]
                                   /\ seen[m][f.base + (p.off + i) - 1] = f.buf[p.off + i]
      BY <1>1, <3>1 DEF IsRead, FromTarget
    <3>3. f.base + (p.off + i) - 1 = r.address + i - 1 /\ r.value[i] = f.buf[p.off + i]
      BY <1>1, <1>2
    <3> QED
      BY ONLY <3>2, <3>3
  <2> QED
    BY <2>1, <2>2 DEF WasThere
<1> QED
  BY <1>1, <1>2 DEF SoundRows, r

\* A pointer that is followed can be read, and leads where its row says.
LEMMA PointerShown ==
    ASSUME SnapTypes, Complete, NEW p \in Place, PlaceFits(p), p.kind.tag \in {"class_ptr", "text"},
           p.path \in DOMAIN frames[p.fi].children
    PROVE  RowOf(p).readable /\ PtrOf(RowOf(p).value) = Behind(p).base
<1> DEFINE f  == frames[p.fi]
           g  == frames[f.children[p.path]]
           r  == RowOf(p)
<1>1. HoldsPointer(f, p.off) /\ g.base = PointerAt(f, p.off) /\ Behind(p) = g
  BY ChildOf DEF Behind
<1>2. KindSize[p.kind] = PtrBytes /\ PtrBytes \in Nat \ {0}
  BY PointerPlace, TargetAssumption
<1>3. /\ p.off \in Nat /\ f.len \in Nat /\ IsRead(seen, f)
      /\ r.readable <=> f.readable /\ p.off + PtrBytes <= f.len
      /\ r.readable => r.value = SubSeq(f.buf, p.off + 1, p.off + PtrBytes)
  BY <1>2, PlaceType, RowOfIs
<1> HIDE DEF f, g, r
<1>4. p.off + PtrBytes <= f.len
  BY <1>1 DEF HoldsPointer
<1>5. f.readable
  BY <1>2, <1>3, <1>4 DEF IsRead
<1>6. r.readable /\ r.value = SubSeq(f.buf, p.off + 1, p.off + PtrBytes)
  BY <1>3, <1>4, <1>5
<1>7. PtrOf(r.value) = g.base
  BY <1>1, <1>6 DEF PointerAt
<1> QED
  BY <1>1, <1>6, <1>7 DEF r

\* So does that of a string.
LEMMA TextRowSound ==
    ASSUME SnapTypes, Complete, NEW p \in Place, PlaceFits(p), OpenText(p)
    PROVE  TextRow(p) \in SoundRows
<1> DEFINE g == Behind(p)
           r == RowOf(p)
           t == TextRow(p)
<1>1. p.kind.tag = "text" /\ p.path \in DOMAIN frames[p.fi].children
  BY DEF OpenText
<1>2. /\ IsRead(seen, g) /\ g.len \in Nat /\ t \in RowType
      /\ t.text \in Seq(Cells) /\ Len(t.text) = g.len
      /\ \A i \in 1 .. g.len : t.text[i] = g.buf[i]
      /\ t.address = r.address /\ t.readable = r.readable /\ t.value = r.value
  BY TextRowIs
<1>3. r.readable /\ PtrOf(r.value) = g.base
  BY <1>1, PointerShown
<1>4. WasThere(r.address, r.value)
  BY <1>3, RowSound DEF SoundRows
<1> HIDE DEF g, r, t
<1>5. WasThere(PtrOf(t.value), t.text)
  <2>1. DOMAIN t.text = 1 .. g.len
    BY <1>2
  <2>2. FromTarget(seen, g.base, g.buf, g.len)
    BY <1>2 DEF IsRead
  <2> QED
    BY <1>2, <1>3, <2>1, <2>2 DEF WasThere, FromTarget
<1> QED
  BY <1>2, <1>3, <1>4, <1>5 DEF SoundRows, t

\* What is laid out for a place: its own row, and those below it.
Block(p, s) ==
    /\ Rows(p.depth, frames[p.fi].root, s) /\ s # <<>>
    /\ s[1].address = frames[p.fi].base + p.off /\ s[1].offset = p.local

\* Blocks at one depth, one after the other.
RowsAt(d, v, a, s) == Rows(d, v, s) /\ (s # <<>> => s[1].address = a + s[1].offset)

LEMMA BlocksJoined ==
    ASSUME NEW n \in Nat, NEW d \in Nat, NEW v, NEW ss, NEW a,
           \A i \in 1 .. n : RowsAt(d, v, a, ss[i])
    PROVE  RowsAt(d, v, a, Concat(n, ss))
<1> DEFINE X == RowsFrom(d, v)
           H == {r \in X : r.depth = d /\ r.address = a + r.offset}
<1>1. \A i \in 1 .. n : ss[i] \in Seq(X) /\ Linked(ss[i], Neighbours)
  BY DEF Rows, RowsAt
<1>2. ASSUME NEW i \in 1 .. n, ss[i] # <<>> PROVE ss[i][1] \in H
  <2>1. ss[i][1] \in X
    BY <1>1, <1>2
  <2>2. ss[i][1].depth = d /\ ss[i][1].address = a + ss[i][1].offset
    BY <1>2 DEF Rows, RowsAt
  <2> QED
    BY <2>1, <2>2
<1>3. \A x \in X, h \in H : <<x, h>> \in Neighbours
  BY RowsFromMore
<1>4. \A h \in H : h.depth = d /\ h.address = a + h.offset
  OBVIOUS
<1> HIDE DEF H, X
<1>5. /\ Concat(n, ss) \in Seq(X)
      /\ Linked(Concat(n, ss), Neighbours)
      /\ Concat(n, ss) # <<>> => Concat(n, ss)[1] \in H
  BY <1>1, <1>2, <1>3, ConcatLinked
<1> QED
  BY <1>4, <1>5 DEF Rows, RowsAt, X

\* The rows of a class.
LEMMA ClassBlocks ==
    ASSUME SnapTypes, Complete, NEW shown, NEW fi \in DOMAIN frames, NEW c \in Classes,
           NEW off \in Nat, NEW d \in Nat, NEW path \in Paths,
           \A i \in DOMAIN Nodes[c] :
               Block(NodePlace(fi, c, i, off, d, path), shown[NodePlace(fi, c, i, off, d, path)])
    PROVE  LET s == ClassRows(shown, fi, c, off, d, path)
           IN  /\ Rows(d, frames[fi].root, s)
               /\ s # <<>> => s[1].address = frames[fi].base + off + s[1].offset
<1> DEFINE n  == Len(Nodes[c])
           ss == [i \in DOMAIN Nodes[c] |-> shown[NodePlace(fi, c, i, off, d, path)]]
           a  == frames[fi].base + off
           v  == frames[fi].root
<1>1. n \in Nat /\ DOMAIN Nodes[c] = 1 .. n
  BY ClassNodes
<1>2. frames[fi].base \in Nat
  BY Counts DEF Complete, FrameType
<1>3. ASSUME NEW i \in 1 .. n
      PROVE  /\ Rows(d, v, ss[i])
             /\ ss[i] # <<>> => ss[i][1].address = a + ss[i][1].offset
  <2> DEFINE q == NodePlace(fi, c, i, off, d, path)
  <2>1. Block(q, shown[q]) /\ ss[i] = shown[q]
    BY <1>1
  <2>2. q.depth = d /\ q.fi = fi /\ q.off = off + Offsets[c][i] /\ q.local = Offsets[c][i]
    <3>1. i \in DOMAIN Nodes[c]
      BY <1>1
    <3> QED
      BY <3>1, NodePlaceType
  <2>3. Offsets[c][i] \in Nat
    BY <1>1, ClassSizes
  <2> HIDE DEF q, ss
  <2>4. frames[fi].base + (off + Offsets[c][i]) = a + Offsets[c][i]
    BY <1>2, <2>3
  <2> QED
    BY <2>1, <2>2, <2>4 DEF Block
<1>4. ClassRows(shown, fi, c, off, d, path) = Concat(n, ss)
  BY DEF ClassRows
<1> HIDE DEF n, ss, a, v
<1>5. RowsAt(d, v, a, Concat(n, ss))
  <2>1. \A i \in 1 .. n : RowsAt(d, v, a, ss[i])
    BY <1>3 DEF RowsAt
  <2> QED
    BY <1>1, <2>1, BlocksJoined
<1> DEFINE all == Concat(n, ss)
<1>6. Rows(d, v, all) /\ (all # <<>> => all[1].address = a + all[1].offset)
  BY <1>5 DEF RowsAt
<1> HIDE DEF all
<1>7. ClassRows(shown, fi, c, off, d, path) = all
  BY <1>4 DEF all
<1> QED
  BY <1>6, <1>7 DEF a, v

\* The rows of an array.
LEMMA ArrayBlocks ==
    ASSUME SnapTypes, Complete, NEW p \in Place, p.kind.tag = "array", NEW shown,
           \A e \in 1 .. Shown(p.kind) : Block(ElemPlace(p, e), shown[ElemPlace(p, e)])
    PROVE  Rows(p.depth + 1, frames[p.fi].root, ArrayRows(shown, p))
<1> DEFINE n    == Shown(p.kind)
           d    == p.depth + 1
           a    == frames[p.fi].base + p.off
           v    == frames[p.fi].root
           ss   == [e \in 1 .. n |-> shown[ElemPlace(p, e)]]
           all  == Concat(n, ss)
           more == <<More(RowOf(p))>>
           X    == RowsFrom(d, v)
<1>1. /\ p.kind \in Kinds /\ n \in Nat /\ d \in Nat /\ p.off \in Nat
      /\ frames[p.fi].base \in Nat /\ p.kind.elem \in Kinds
  BY PlaceType, ShownType, KindFields
<1>2. ASSUME NEW e \in 1 .. n
      PROVE  /\ Rows(d, v, ss[e])
             /\ ss[e] # <<>> => ss[e][1].address = a + ss[e][1].offset
  <2> DEFINE q == ElemPlace(p, e)
             o == (e - 1) * Stride(p.kind.elem)
  <2>1. Block(q, shown[q]) /\ ss[e] = shown[q]
    OBVIOUS
  <2>2. q.depth = d /\ q.fi = p.fi /\ q.off = p.off + o /\ q.local = o /\ q.local \in Nat
    BY ElemPlaceType DEF Place
  <2> HIDE DEF q, ss, d, o
  <2>3. frames[p.fi].base + (p.off + o) = a + o
    BY <1>1, <2>2
  <2> QED
    BY <2>1, <2>2, <2>3 DEF Block
<1>3. Rows(d, v, all)
  <2> HIDE DEF n, d, ss, v, a
  <2>1. \A e \in 1 .. n : RowsAt(d, v, a, ss[e])
    BY <1>2 DEF RowsAt
  <2>2. RowsAt(d, v, a, Concat(n, ss))
    BY <1>1, <2>1, BlocksJoined
  <2> QED
    BY <2>2 DEF RowsAt
<1>4. CASE ~(p.kind.count > n)
  <2>1. ArrayRows(shown, p) = all \o <<>>
    BY <1>4 DEF ArrayRows
  <2>2. all \in Seq(X) /\ <<>> \in Seq(X)
    BY <1>3 DEF Rows
  <2> HIDE DEF all, d, v
  <2>3. all \o <<>> = all
    BY <2>2, TwoSequences
  <2> QED
    BY <1>3, <2>1, <2>3 DEF d, v
<1>5. CASE p.kind.count > n
  <2> DEFINE m == More(RowOf(p))
  <2>1. ArrayRows(shown, p) = all \o more
    BY <1>5 DEF ArrayRows
  <2>2. RowOf(p) \in RowType /\ RowOf(p).kind = p.kind /\ RowOf(p).depth = p.depth
        /\ RowOf(p).text = <<>> /\ RowOf(p).root = v
    BY RowOfIs
  <2>3. m \in RowType /\ m.depth = d /\ m.kind.tag = "more" /\ m.value = <<>> /\ m.root = v
    BY <1>1, <2>2, MoreIs
  <2> HIDE DEF m
  <2>4. m \in SoundRows
    <3>1. WasThere(m.address, m.value)
      BY <2>3 DEF WasThere
    <3> QED
      BY <2>3, <3>1 DEF SoundRows
  <2>5. m \in X
    BY <1>1, <2>3, <2>4 DEF RowsFrom
  <2>6. more \in Seq(X) /\ Len(more) = 1 /\ more[1] = m /\ more # <<>>
    BY <2>5 DEF m
  <2>7. Linked(more, Neighbours)
    BY <2>6 DEF Linked
  <2>8. all \in Seq(X) /\ Linked(all, Neighbours)
    BY <1>3 DEF Rows
  <2> HIDE DEF all, more, d, v
  <2>9. all # <<>> => <<all[Len(all)], more[1]>> \in Neighbours
    <3>1. all # <<>> => all[Len(all)] \in X
      BY <2>8
    <3> QED
      BY <1>1, <2>3, <2>5, <2>6, <3>1, RowsFromMore
  <2>10. Linked(all \o more, Neighbours)
    <3> HIDE DEF X
    <3> QED
      BY <2>6, <2>7, <2>8, <2>9, LinkedTwo
  <2>11. all \o more \in Seq(X) /\ (all \o more)[1].depth = d
    <3>1. CASE all = <<>>
      BY <2>3, <2>6, <2>8, <3>1, TwoSequences
    <3>2. CASE all # <<>>
      <4>1. Len(all) >= 1 /\ all[1].depth = d
        BY <1>3, <2>8, <3>2 DEF Rows
      <4>2. (all \o more)[1] = all[1] /\ all \o more \in Seq(X)
        BY <2>6, <2>8, <4>1, TwoSequences
      <4> QED
        BY <4>1, <4>2
    <3> QED
      BY <3>1, <3>2
  <2> QED
    BY <2>1, <2>10, <2>11 DEF Rows, d, v
<1> QED
  BY <1>4, <1>5

\* A place is laid out as a block when those under it are.
LEMMA BlockUp ==
    ASSUME SnapTypes, Complete, NEW p \in Place, PlaceFits(p), NEW shown,
           \A q \in PlacesUnder(p) : Block(q, shown[q])
    PROVE  Block(p, Formatted(shown, p))
<1> DEFINE f == frames[p.fi]
           r == RowOf(p)
           d == p.depth
<1>1. /\ p.kind \in Kinds /\ p.off \in Nat /\ d \in Nat /\ d + 1 \in Nat /\ p.path \in Paths
      /\ p.fi \in DOMAIN frames
  BY PlaceType, Counts
<1>2. /\ r \in SoundRows /\ r \in RowType /\ r.depth = d /\ r.kind = p.kind /\ r.offset = p.local
      /\ r.address = f.base + p.off /\ r.root = f.root
  BY RowOfIs, RowSound
<1>3. \A x \in SoundRows : x \in RowType
  BY DEF SoundRows
<1>4. ASSUME NEW rest, Rows(d + 1, f.root, rest), Formatted(shown, p) = <<r>> \o rest,
             rest # <<>> => <<r, rest[1]>> \in Neighbours
      PROVE  Block(p, Formatted(shown, p))
  <2> HIDE DEF r, d, f
  <2>1. /\ Rows(d, f.root, <<r>> \o rest)
        /\ <<r>> \o rest # <<>> /\ (<<r>> \o rest)[1] = r
    BY <1>1, <1>2, <1>4, RowAndBelow
  <2> QED
    BY <1>2, <1>4, <2>1 DEF Block, d, f
<1>5. ASSUME NEW rest, Rows(d + 1, f.root, rest), rest # <<>>, p.kind.tag # "class_ptr"
      PROVE  <<r, rest[1]>> \in Neighbours
  <2>1. rest[1] \in RowType /\ rest[1].depth = d + 1 /\ rest[1].root = f.root
    <3>1. rest[1] \in RowsFrom(d + 1, f.root) /\ rest[1].depth = d + 1
      BY <1>5 DEF Rows
    <3> QED
      BY <1>3, <3>1 DEF RowsFrom
  <2> HIDE DEF r
  <2>2. rest[1].depth <= r.depth + 1
    BY <1>1, <1>2, <2>1
  <2> QED
    BY <1>2, <1>5, <2>1, <2>2 DEF Neighbours
<1>6. Rows(d + 1, f.root, <<>>)
  <2>1. <<>> \in Seq(RowsFrom(d + 1, f.root)) /\ Len(<<>>) = 0
    OBVIOUS
  <2> QED
    BY <2>1 DEF Rows, Linked
<1>7. <<r>> \o <<>> = <<r>>
  <2>1. <<r>> \in Seq(RowType) /\ <<>> \in Seq(RowType)
    BY <1>2
  <2> HIDE DEF r
  <2> QED
    BY <2>1, TwoSequences
<1>8. CASE OpenInstance(p)
  <2> DEFINE c    == p.kind.cls
             rest == ClassRows(shown, p.fi, c, p.off, d + 1, p.path)
  <2>1. p.kind.tag = "instance" /\ c \in Classes
    BY <1>1, <1>8, KindFields DEF OpenInstance
  <2>2. \A i \in DOMAIN Nodes[c] :
            NodePlace(p.fi, c, i, p.off, d + 1, p.path) \in PlacesUnder(p)
    BY <1>8, UnderIs
  <2>3. Formatted(shown, p) = <<r>> \o rest
    BY <1>8, FormattedIs
  <2> HIDE DEF c
  <2>4. \A i \in DOMAIN Nodes[c] :
            Block(NodePlace(p.fi, c, i, p.off, d + 1, p.path),
                  shown[NodePlace(p.fi, c, i, p.off, d + 1, p.path)])
    BY <2>2
  <2> HIDE DEF r, d
  <2>5. Rows(d + 1, f.root, rest)
    BY <1>1, <2>1, <2>4, ClassBlocks
  <2> HIDE DEF rest
  <2> QED
    BY <1>4, <1>5, <2>1, <2>3, <2>5
<1>9. CASE OpenArray(p)
  <2>1. p.kind.tag = "array"
    BY <1>9 DEF OpenArray
  <2>2. \A e \in 1 .. Shown(p.kind) : ElemPlace(p, e) \in PlacesUnder(p)
    BY <1>9, UnderIs
  <2>3. Rows(d + 1, f.root, ArrayRows(shown, p))
    BY <2>1, <2>2, ArrayBlocks
  <2>4. Formatted(shown, p) = <<r>> \o ArrayRows(shown, p)
    BY <1>9, FormattedIs
  <2> HIDE DEF r, d
  <2> QED
    BY <1>4, <1>5, <2>1, <2>3, <2>4
<1>10. CASE OpenPointer(p)
  <2> DEFINE c    == p.kind.cls
             ch   == f.children[p.path]
             off  == 0
             rest == ClassRows(shown, ch, c, off, d + 1, p.path)
  <2>1. p.kind.tag = "class_ptr" /\ c \in Classes /\ p.path \in DOMAIN f.children
    BY <1>1, <1>10, KindFields DEF OpenPointer
  <2>2. \A i \in DOMAIN Nodes[c] :
            NodePlace(ch, c, i, off, d + 1, p.path) \in PlacesUnder(p)
    BY <1>10, UnderIs
  <2>3. Formatted(shown, p) = <<r>> \o rest
    BY <1>10, FormattedIs
  <2>4. ch \in DOMAIN frames /\ off \in Nat /\ frames[ch].root = f.root
    BY <2>1, ChildOf
  <2>5. r.readable /\ PtrOf(r.value) = frames[ch].base
    BY <2>1, PointerShown DEF Behind
  <2>6. frames[ch].base \in Nat
    BY <2>4, Counts DEF Complete, FrameType
  <2>7. frames[ch].base + off = frames[ch].base
    BY <2>6
  <2> HIDE DEF c, ch, off
  <2>8. \A i \in DOMAIN Nodes[c] :
            Block(NodePlace(ch, c, i, off, d + 1, p.path),
                  shown[NodePlace(ch, c, i, off, d + 1, p.path)])
    BY <2>2
  <2> HIDE DEF r, d
  <2>9. /\ Rows(d + 1, f.root, rest)
        /\ rest # <<>> => rest[1].address = frames[ch].base + off + rest[1].offset
    <3> DEFINE d1 == d + 1
    <3>1. d1 \in Nat /\ p.path \in Paths
      BY <1>1
    <3> HIDE DEF d1
    <3>2. \A i \in DOMAIN Nodes[c] :
              Block(NodePlace(ch, c, i, off, d1, p.path), shown[NodePlace(ch, c, i, off, d1, p.path)])
      BY <2>8 DEF d1
    <3>3. LET s == ClassRows(shown, ch, c, off, d1, p.path)
          IN  /\ Rows(d1, frames[ch].root, s)
              /\ s # <<>> => s[1].address = frames[ch].base + off + s[1].offset
      BY <2>1, <2>4, <3>1, <3>2, ClassBlocks
    <3> QED
      BY <2>4, <3>3 DEF d1
  <2> HIDE DEF rest
  <2>10. ASSUME rest # <<>> PROVE <<r, rest[1]>> \in Neighbours
    <3>1. rest[1] \in RowsFrom(d + 1, f.root) /\ rest[1].depth = d + 1
      BY <2>9, <2>10 DEF Rows
    <3>2. rest[1] \in RowType /\ rest[1].root = f.root
      BY <1>3, <3>1 DEF RowsFrom
    <3>3. rest[1].address = PtrOf(r.value) + rest[1].offset
      BY <2>5, <2>7, <2>9, <2>10
    <3>4. rest[1].depth <= r.depth + 1
      BY <1>1, <1>2, <3>1
    <3> QED
      BY <1>2, <2>5, <3>2, <3>3, <3>4 DEF Neighbours
  <2> QED
    BY <1>4, <2>3, <2>9, <2>10
<1>11. CASE OpenText(p)
  <2> DEFINE t == TextRow(p)
  <2>1. Formatted(shown, p) = <<t>>
    BY <1>11, FormattedIs DEF TextRow
  <2>2. t \in SoundRows /\ t.depth = d /\ t.offset = p.local
      /\ t.address = f.base + p.off /\ t.root = f.root
    BY <1>2, <1>11, TextRowIs, TextRowSound
  <2>3. <<t>> \o <<>> = <<t>>
    <3>1. <<t>> \in Seq(SoundRows) /\ <<>> \in Seq(SoundRows)
      BY <2>2
    <3> HIDE DEF t
    <3> QED
      BY <3>1, TwoSequences
  <2> HIDE DEF t, d, f
  <2>4. /\ Rows(d, f.root, <<t>> \o <<>>)
        /\ <<t>> \o <<>> # <<>> /\ (<<t>> \o <<>>)[1] = t
    <3>1. t.root = f.root
      BY <2>2
    <3>2. Rows(d + 1, t.root, <<>>)
      BY <1>6, <3>1
    <3> DEFINE none == <<>>
    <3>3. none # <<>> => <<t, none[1]>> \in Neighbours
      OBVIOUS
    <3> HIDE DEF none
    <3>4. Rows(d + 1, t.root, none)
      BY <3>2 DEF none
    <3>5. /\ Rows(d, t.root, <<t>> \o none)
          /\ <<t>> \o none # <<>> /\ (<<t>> \o none)[1] = t
      BY <1>1, <2>2, <3>3, <3>4, RowAndBelow
    <3> QED
      BY <3>1, <3>5 DEF none
  <2> QED
    BY <2>1, <2>2, <2>3, <2>4 DEF Block, d, f
<1>12. CASE Closed(p)
  <2>1. Formatted(shown, p) = <<r>>
    BY <1>12, FormattedIs
  <2> HIDE DEF r, d
  <2> QED
    BY <1>4, <1>6, <1>7, <2>1
<1> QED
  BY <1>8, <1>9, <1>10, <1>11, <1>12 DEF Closed

\* And so is every place.
LEMMA AllBlocks ==
    ASSUME SnapTypes, Complete, NEW p \in Place, PlaceFits(p)
    PROVE  Block(p, KindRows[p])
<1> DEFINE under == [x \in Place |-> PlacesUnder(x)]
           S     == {x \in Place : PlaceFits(x) => Block(x, KindRows[x])}
<1>1. Grounded(Place, under)
  BY PlacesGrounded
<1>2. ASSUME NEW x \in Place, \A q \in under[x] : q \in S PROVE x \in S
  <2>1. SUFFICES ASSUME PlaceFits(x) PROVE Block(x, KindRows[x])
    OBVIOUS
  <2>2. ASSUME NEW q \in PlacesUnder(x) PROVE Block(q, KindRows[q])
    <3>1. PlaceFits(q)
      BY <2>1, FitsUnder
    <3>2. q \in S
      BY <1>2
    <3> QED
      BY <3>1, <3>2
  <2>3. Block(x, Formatted(KindRows, x))
    BY <2>1, <2>2, BlockUp
  <2>4. KindRows[x] = Formatted(KindRows, x)
    BY KindRowsIs
  <2> QED
    BY <2>3, <2>4
<1>3. Place \subseteq S
  <2> HIDE DEF S, under
  <2> QED
    BY <1>1, <1>2, GroundUp
<1> QED
  BY <1>3

\* What is laid out for the roots.
LEMMA RootFrame ==
    ASSUME SnapTypes, TreeOK, NEW r \in DOMAIN Roots
    PROVE  LET f == frames[r]
           IN  /\ r \in DOMAIN frames
               /\ f.cls = Roots[r].cls /\ f.base = Roots[r].base /\ f.root = r /\ f.path = <<>>
               /\ f.text = 0 /\ f.cls \in Classes /\ f.base \in Nat
<1> DEFINE R == [cls : Classes, base : Nat]
<1>1. Roots \in Seq(R)
  BY TargetAssumption
<1>2. r \in 1 .. Len(Roots) /\ Len(Roots) \in Nat
      /\ Roots[r].cls \in Classes /\ Roots[r].base \in Nat
  <2> HIDE DEF R
  <2>1. r \in 1 .. Len(Roots) /\ Len(Roots) \in Nat /\ Roots[r] \in R
    BY <1>1
  <2> QED
    BY <2>1 DEF R
<1>3. r \in DOMAIN frames
  BY <1>2, Counts DEF TreeOK
<1>4. SameFrame(FrameAt(Roots[r].cls, Roots[r].base, 0, r, <<>>, 0), frames[r])
  BY <1>2 DEF TreeOK
<1> QED
  BY <1>2, <1>3, <1>4 DEF SameFrame, FrameAt

LEMMA RootPlace ==
    ASSUME SnapTypes, TreeOK, Complete, NEW r \in DOMAIN Roots,
           NEW i \in DOMAIN Nodes[frames[r].cls]
    PROVE  LET p == NodePlace(r, frames[r].cls, i, 0, 0, <<>>)
           IN  p \in Place /\ PlaceFits(p)
<1> DEFINE c == frames[r].cls
           p == NodePlace(r, c, i, 0, 0, <<>>)
<1>1. /\ r \in DOMAIN frames /\ c \in Classes /\ frames[r].path = <<>> /\ frames[r].text = 0
      /\ <<>> \in Paths
  BY RootFrame DEF Paths
<1>2. p \in Place /\ p.fi = r /\ SpotOf(p) = NodeSpot(c, i, 0, <<>>)
  BY <1>1, NodePlaceType DEF SpotOf
<1>3. SpotOf(p) \in Spots(expand, frames[r])
  <2> DEFINE f == frames[r]
  <2>1. f.cls = c /\ f.path = <<>> /\ f.text = 0
    BY <1>1
  <2>2. NodeSpot(c, i, 0, <<>>) \in Tops(f)
    BY <2>1 DEF Tops
  <2>3. f.cls \in Classes /\ f.path \in Paths
    BY <1>1
  <2> HIDE DEF f, c, p
  <2>4. Tops(f) \subseteq Spots(expand, f)
    BY <2>3, SpotsAreClosed
  <2>5. SpotOf(p) \in Spots(expand, f)
    BY <1>2, <2>2, <2>4
  <2> QED
    BY <2>5 DEF f
<1> QED
  BY <1>1, <1>2, <1>3 DEF PlaceFits, IsText

LEMMA FormatSound ==
    ASSUME SnapTypes, TreeOK, Complete, Format
    PROVE  NothingMadeUp' /\ rows' \in Seq(RowType) /\ Hanging(rows')
<1> DEFINE n  == Len(Roots)
           ss == [r \in DOMAIN Roots |-> ClassRows(KindRows, r, frames[r].cls, 0, 0, <<>>)]
           X  == SoundRows
           H  == {x \in X : x.depth = 0}
<1>1. n \in Nat /\ DOMAIN Roots = 1 .. n
  BY TargetAssumption
<1>2. ASSUME NEW r \in 1 .. n PROVE Rows(0, r, ss[r])
  <2> DEFINE c    == frames[r].cls
             path == <<>>
             z    == 0
  <2>1. r \in DOMAIN frames /\ frames[r].root = r /\ c \in Classes
      /\ path \in Paths /\ z \in Nat /\ r \in DOMAIN Roots
    BY <1>1, RootFrame DEF Paths
  <2>2. \A i \in DOMAIN Nodes[c] :
            Block(NodePlace(r, c, i, z, z, path), KindRows[NodePlace(r, c, i, z, z, path)])
    BY <2>1, RootPlace, AllBlocks
  <2>3. ss[r] = ClassRows(KindRows, r, c, z, z, path)
    BY <2>1
  <2> HIDE DEF c, z, path, ss
  <2>4. Rows(z, r, ClassRows(KindRows, r, c, z, z, path))
    <3>1. LET s == ClassRows(KindRows, r, c, z, z, path)
          IN  /\ Rows(z, frames[r].root, s)
              /\ s # <<>> => s[1].address = frames[r].base + z + s[1].offset
      BY <2>1, <2>2, ClassBlocks
    <3> QED
      BY <2>1, <3>1
  <2> QED
    BY <2>3, <2>4 DEF z
<1>3. \A r \in 1 .. n : /\ ss[r] \in Seq(X) /\ Linked(ss[r], Neighbours)
                        /\ ss[r] # <<>> => ss[r][1] \in H
  <2> SUFFICES ASSUME NEW r \in 1 .. n
               PROVE  /\ ss[r] \in Seq(X) /\ Linked(ss[r], Neighbours)
                      /\ ss[r] # <<>> => ss[r][1] \in H
    OBVIOUS
  <2> HIDE DEF ss
  <2>1. Rows(0, r, ss[r])
    BY <1>2
  <2>2. Linked(ss[r], Neighbours) /\ (ss[r] # <<>> => ss[r][1].depth = 0)
    BY <2>1 DEF Rows
  <2>3. ss[r] \in Seq(X)
    <3>1. RowsFrom(0, r) \subseteq X
      BY DEF RowsFrom
    <3> HIDE DEF X
    <3> QED
      BY <2>1, <3>1, SeqOfMore DEF Rows
  <2>4. ss[r] # <<>> => ss[r][1] \in X
    BY <2>3
  <2> QED
    BY <2>2, <2>3, <2>4
<1>4. \A x \in X, h \in H : <<x, h>> \in Neighbours
  <2>1. \A x \in X : x \in RowType /\ x.depth \in Nat
    BY DEF SoundRows, RowType
  <2> QED
    BY <2>1 DEF Neighbours
<1> DEFINE all == Concat(n, ss)
<1>5. all \in Seq(X) /\ Linked(all, Neighbours) /\ (all # <<>> => all[1] \in H)
  <2> HIDE DEF H, X, n, ss
  <2> QED
    BY <1>1, <1>3, <1>4, ConcatLinked
<1>6. rows' = all /\ seen' = seen
  BY DEF Format
<1> HIDE DEF all, H, ss, n
<1>7. DOMAIN all = 1 .. Len(all) /\ Len(all) \in Nat
  BY <1>5
<1>8. all \in Seq(RowType)
  <2>1. X \subseteq RowType
    BY DEF SoundRows
  <2> HIDE DEF X
  <2> QED
    BY <1>5, <2>1, SeqOfMore
<1> HIDE DEF X
<1>9. Hanging(all)
  <2>1. ASSUME NEW i \in DOMAIN all, all[i].depth > 0
        PROVE  i > 1 /\ all[i - 1].root = all[i].root /\ all[i].depth <= all[i - 1].depth + 1
    <3>1. CASE i = 1
      <4>1. all # <<>>
        BY <1>7
      <4>2. all[1] \in H
        BY <1>5, <4>1
      <4> QED
        BY <2>1, <3>1, <4>2 DEF H
    <3>2. CASE i # 1
      <4>1. i - 1 \in 1 .. Len(all) /\ (i - 1) + 1 = i /\ i <= Len(all) /\ i > 1
        BY <1>7, <3>2
      <4>2. <<all[i - 1], all[i]>> \in Neighbours
        BY <1>5, <4>1 DEF Linked
      <4> QED
        BY <2>1, <4>1, <4>2 DEF Neighbours
    <3> QED
      BY <3>1, <3>2
  <2> QED
    BY <2>1 DEF Hanging
<1>10. ASSUME NEW j \in DOMAIN all
      PROVE  LET r == all[j]
             IN  /\ r.readable => WasThere(r.address, r.value)
                 /\ r.kind.tag = "text" /\ r.text # <<>> =>
                        r.readable /\ WasThere(PtrOf(r.value), r.text)
  <2>1. all[j] \in X
    BY <1>5, <1>7
  <2> QED
    BY <2>1 DEF X, SoundRows
<1>11. ASSUME NEW j \in DOMAIN all, all[j].kind.tag = "class_ptr", NEW i \in DOMAIN all,
             i = j + 1, all[i].depth = all[j].depth + 1
      PROVE  all[j].readable /\ all[i].address = PtrOf(all[j].value) + all[i].offset
  <2>1. j \in 1 .. Len(all) /\ j + 1 <= Len(all)
    BY <1>7, <1>11
  <2>2. <<all[j], all[j + 1]>> \in Neighbours
    BY <1>5, <2>1 DEF Linked
  <2> QED
    BY <1>11, <2>2 DEF Neighbours
<1>12. NothingMadeUp'
  BY <1>6, <1>10, <1>11 DEF NothingMadeUp, WasThere, Below
<1> QED
  BY <1>6, <1>8, <1>9, <1>12

-----------------------------------------------------------------------------
(* The rows of a memory that can be read at will.                          *)

\* What is expanded goes only so deep.
LEMMA DeepestExpanded ==
    ASSUME NEW ex \in Expansions
    PROVE  \E M \in Nat : \A e \in ex.expanded : Len(e[2]) \in Nat /\ Len(e[2]) <= M
<1> DEFINE E == ex.expanded
<1>1. E \subseteq Nat \X Paths /\ IsFiniteSet(E)
  BY TargetAssumption
<1>2. \A e \in E : Len(e[2]) \in Nat
  <2>1. \A e \in E : e[2] \in Seq(Nat)
    BY <1>1 DEF Paths
  <2> QED
    BY <2>1, LenProperties
<1> HIDE DEF E
<1>3. PICK n \in Nat : ExistsSurjection(1 .. n, E)
  BY <1>1, FS_NatSurjection
<1>4. PICK f \in Surjection(1 .. n, E) : TRUE
  BY <1>3 DEF ExistsSurjection
<1>5. f \in [1 .. n -> E] /\ \A e \in E : \E i \in 1 .. n : f[i] = e
  BY <1>4 DEF Surjection
<1> DEFINE L == [i \in 1 .. n |-> Len(f[i][2])]
<1>6. \A i \in 1 .. n : L[i] \in Nat
  BY <1>2, <1>5
<1> HIDE DEF L
<1> DEFINE S == {k \in 0 .. n : \E M \in Nat : \A i \in 1 .. n : i <= k => L[i] <= M}
<1>7. 0 \in S
  OBVIOUS
<1>8. ASSUME NEW k \in 1 .. n, k - 1 \in S PROVE k \in S
  <2>1. PICK M \in Nat : \A i \in 1 .. n : i <= k - 1 => L[i] <= M
    BY <1>8
  <2> DEFINE M1 == M + L[k]
  <2>2. L[k] \in Nat /\ M1 \in Nat
    BY <1>6
  <2>3. \A i \in 1 .. n : i <= k => L[i] <= M1
    <3> SUFFICES ASSUME NEW i \in 1 .. n, i <= k PROVE L[i] <= M1
      OBVIOUS
    <3>1. CASE i = k
      BY <2>2, <3>1
    <3>2. CASE i # k
      <4>1. i <= k - 1
        BY <3>2
      <4>2. L[i] <= M /\ L[i] \in Nat
        BY <1>6, <2>1, <4>1
      <4> QED
        BY <2>2, <4>2
    <3> QED
      BY <3>1, <3>2
  <2> HIDE DEF M1
  <2>4. \E M2 \in Nat : \A i \in 1 .. n : i <= k => L[i] <= M2
    BY <2>2, <2>3
  <2>5. k \in 0 .. n
    OBVIOUS
  <2> QED
    BY <2>4, <2>5
<1>9. n \in S
  <2> HIDE DEF S
  <2>1. \A i \in 0 .. n : i \in S
    BY <1>7, <1>8, UpTo
  <2> QED
    BY <2>1
<1>10. PICK M \in Nat : \A i \in 1 .. n : L[i] <= M
  BY <1>9
<1>11. ASSUME NEW e \in E PROVE Len(e[2]) <= M
  <2>1. PICK i \in 1 .. n : f[i] = e
    BY <1>5
  <2>2. L[i] = Len(e[2])
    BY <2>1 DEF L
  <2> QED
    BY <1>10, <2>2
<1> QED
  BY <1>2, <1>11 DEF E

\* The parts of Plainly, each with a name.
Fully(v) == v.off + KindSize[v.kind] <= v.len

Here(image, v) == CellsAt(image, v.base + v.off, KindSize[v.kind])

PlainRow(image, v) ==
    [path |-> v.path, root |-> v.root, depth |-> v.depth, offset |-> v.local,
     address |-> v.base + v.off, kind |-> v.kind, readable |-> Fully(v),
     value |-> IF Fully(v) THEN Here(image, v) ELSE Unread, text |-> <<>>]

NodeView(root, c, i, base, len, off, depth, path) ==
    [root |-> root, kind |-> Nodes[c][i], base |-> base, len |-> len, off |-> off + Offsets[c][i],
     local |-> Offsets[c][i], depth |-> depth, path |-> Append(path, i - 1)]

ElemView(v, e) ==
    [v EXCEPT !.kind = v.kind.elem, !.off = @ + (e - 1) * Stride(v.kind.elem),
              !.local = (e - 1) * Stride(v.kind.elem), !.depth = @ + 1,
              !.path = Append(@, e - 1)]

ElemRows(direct, row, v) ==
    Concat(Shown(v.kind), [e \in 1 .. Shown(v.kind) |-> direct[ElemView(v, e)]])
    \o IF v.kind.count > Shown(v.kind) THEN <<More(row)>> ELSE <<>>

ViewedInstance(ex, v) == v.kind.tag = "instance" /\ <<v.root, v.path>> \notin ex.collapsed

ViewedArray(ex, v) == v.kind.tag = "array" /\ <<v.root, v.path>> \notin ex.collapsed

ViewedPointer(ex, v) == v.kind.tag = "class_ptr" /\ Fully(v) /\ <<v.root, v.path>> \in ex.expanded

ViewedText(image, v) ==
    /\ v.kind.tag = "text" /\ Fully(v)
    /\ PtrOf(Here(image, v)) # 0 /\ PtrOf(Here(image, v)) \in DOMAIN image

\* How much of what a pointer leads to there is.
ReachOf(image, v) ==
    Reach(image, PtrOf(Here(image, v)),
          Capped(IF v.kind.tag = "text" THEN v.kind.max ELSE SizeOf(v.kind.cls)))

ViewText(image, v) ==
    [PlainRow(image, v) EXCEPT !.text = CellsAt(image, PtrOf(Here(image, v)), ReachOf(image, v))]

ViewedClosed(image, ex, v) ==
    ~ViewedInstance(ex, v) /\ ~ViewedArray(ex, v) /\ ~ViewedPointer(ex, v) /\ ~ViewedText(image, v)

LEMMA PlainlyIs ==
    ASSUME NEW image, NEW ex, NEW direct, NEW v
    PROVE  /\ ViewedInstance(ex, v) =>
                  Plainly(image, ex, direct, v) =
                      <<PlainRow(image, v)>>
                      \o Within(direct, v.root, v.kind.cls, v.base, v.len, v.off, v.depth + 1, v.path)
           /\ ViewedArray(ex, v) =>
                  Plainly(image, ex, direct, v) =
                      <<PlainRow(image, v)>> \o ElemRows(direct, PlainRow(image, v), v)
           /\ ViewedPointer(ex, v) =>
                  Plainly(image, ex, direct, v) =
                      <<PlainRow(image, v)>>
                      \o Within(direct, v.root, v.kind.cls, PtrOf(Here(image, v)),
                                ReachOf(image, v), 0, v.depth + 1, v.path)
<1>1. ASSUME ViewedInstance(ex, v)
      PROVE  Plainly(image, ex, direct, v) =
                 <<PlainRow(image, v)>>
                 \o Within(direct, v.root, v.kind.cls, v.base, v.len, v.off, v.depth + 1, v.path)
  BY <1>1 DEF ViewedInstance, Plainly, PlainRow, Fully, Here
<1>2. ASSUME ViewedArray(ex, v)
      PROVE  Plainly(image, ex, direct, v) =
                 <<PlainRow(image, v)>> \o ElemRows(direct, PlainRow(image, v), v)
  BY <1>2 DEF ViewedArray, Plainly, PlainRow, Fully, Here, ElemRows, ElemView
<1>3. ASSUME ViewedPointer(ex, v)
      PROVE  Plainly(image, ex, direct, v) =
                 <<PlainRow(image, v)>>
                 \o Within(direct, v.root, v.kind.cls, PtrOf(Here(image, v)),
                           ReachOf(image, v), 0, v.depth + 1, v.path)
  BY <1>3 DEF ViewedPointer, Plainly, PlainRow, Fully, Here, ReachOf
<1> QED
  BY <1>1, <1>2, <1>3

LEMMA PlainlyText ==
    ASSUME NEW image, NEW ex, NEW direct, NEW v, ViewedText(image, v)
    PROVE  Plainly(image, ex, direct, v) = <<ViewText(image, v)>>
BY DEF ViewedText, ViewText, Plainly, PlainRow, Fully, Here, ReachOf

LEMMA PlainlyClosed ==
    ASSUME NEW image, NEW ex, NEW direct, NEW v, ViewedClosed(image, ex, v)
    PROVE  Plainly(image, ex, direct, v) = <<PlainRow(image, v)>>
BY DEF ViewedClosed, ViewedInstance, ViewedArray, ViewedPointer, ViewedText, Plainly,
       PlainRow, Fully, Here

LEMMA ViewFields ==
    ASSUME NEW image, NEW v \in View(image)
    PROVE  /\ v.root \in DOMAIN Roots /\ v.kind \in Kinds /\ v.base \in Nat /\ v.len \in Int
           /\ v.off \in Nat /\ v.local \in Nat /\ v.depth \in Nat /\ v.path \in Paths
           /\ IsMapped(image, v.base, v.len) /\ KindSize[v.kind] \in Nat
BY KindSizes DEF View

\* What is there for a view can be read.
LEMMA HereType ==
    ASSUME NEW image \in Images, NEW v \in View(image), Fully(v)
    PROVE  /\ IsMapped(image, v.base + v.off, KindSize[v.kind])
           /\ Here(image, v) \in Seq(Cells) /\ Len(Here(image, v)) = KindSize[v.kind]
           /\ \A i \in 1 .. KindSize[v.kind] :
                  Here(image, v)[i] = image[v.base + v.off + i - 1]
           /\ PtrOf(Here(image, v)) \in Nat
<1> DEFINE n == KindSize[v.kind]
           a == v.base + v.off
<1>1. /\ v.base \in Nat /\ v.off \in Nat /\ v.len \in Int /\ n \in Nat
      /\ IsMapped(image, v.base, v.len)
  BY ViewFields
<1> HIDE DEF n
<1>2. v.off + n <= v.len
  BY DEF Fully, n
<1>3. a \in Nat /\ IsMapped(image, a, n)
  BY <1>1, <1>2 DEF IsMapped
<1>4. Here(image, v) = CellsAt(image, a, n)
  BY DEF Here, n
<1> HIDE DEF a
<1> QED
  BY <1>1, <1>3, <1>4, CellsRead, PointerType DEF n, a

LEMMA NodeViewType ==
    ASSUME NEW image, NEW root \in DOMAIN Roots, NEW c \in Classes, NEW i \in DOMAIN Nodes[c],
           NEW base \in Nat, NEW len \in Int, IsMapped(image, base, len),
           NEW off \in Nat, NEW depth \in Nat, NEW path \in Paths
    PROVE  LET w == NodeView(root, c, i, base, len, off, depth, path)
           IN  /\ w \in View(image)
               /\ w.kind = Nodes[c][i] /\ w.path = Append(path, i - 1)
               /\ Len(w.path) = Len(path) + 1
<1>1. Nodes[c][i] \in Kinds /\ Offsets[c][i] \in Nat /\ i - 1 \in Nat
  BY ClassNodes, ClassSizes
<1>2. Append(path, i - 1) \in Paths /\ Len(Append(path, i - 1)) = Len(path) + 1
  BY <1>1 DEF Paths
<1>3. off + Offsets[c][i] \in Nat
  BY <1>1
<1> QED
  BY <1>1, <1>2, <1>3 DEF NodeView, View

LEMMA ElemViewType ==
    ASSUME NEW image, NEW v \in View(image), v.kind.tag = "array", NEW e \in 1 .. Shown(v.kind)
    PROVE  LET w == ElemView(v, e)
           IN  /\ w \in View(image)
               /\ w.kind = v.kind.elem /\ w.path = Append(v.path, e - 1)
               /\ Len(w.path) = Len(v.path) + 1
<1> DEFINE o == (e - 1) * Stride(v.kind.elem)
<1>1. /\ v.root \in DOMAIN Roots /\ v.kind \in Kinds /\ v.base \in Nat /\ v.len \in Int
      /\ v.off \in Nat /\ v.local \in Nat /\ v.depth \in Nat /\ v.path \in Paths
      /\ IsMapped(image, v.base, v.len)
  BY ViewFields
<1>2. v.kind.elem \in Kinds /\ e - 1 \in Nat
  BY <1>1, KindFields, ShownType
<1>3. Stride(v.kind.elem) \in Nat
  BY <1>2, KindSizes DEF Stride
<1>4. o \in Nat
  BY <1>2, <1>3
<1>5. Append(v.path, e - 1) \in Paths /\ Len(Append(v.path, e - 1)) = Len(v.path) + 1
  BY <1>1, <1>2 DEF Paths
<1>6. ElemView(v, e) = [v EXCEPT !.kind = v.kind.elem, !.off = @ + o, !.local = o,
                                 !.depth = @ + 1, !.path = Append(@, e - 1)]
  BY DEF ElemView
<1> HIDE DEF o
<1>7. v.off + o \in Nat /\ v.depth + 1 \in Nat
  BY <1>1, <1>4
<1> QED
  BY <1>1, <1>2, <1>4, <1>5, <1>6, <1>7 DEF View

\* What a view depends on.
ViewsUnder(image, ex, v) ==
    CASE ViewedInstance(ex, v) ->
           {NodeView(v.root, v.kind.cls, i, v.base, v.len, v.off, v.depth + 1, v.path) :
                i \in DOMAIN Nodes[v.kind.cls]}
      [] ViewedArray(ex, v) -> {ElemView(v, e) : e \in 1 .. Shown(v.kind)}
      [] ViewedPointer(ex, v) ->
           {NodeView(v.root, v.kind.cls, i, PtrOf(Here(image, v)), ReachOf(image, v), 0,
                     v.depth + 1, v.path) : i \in DOMAIN Nodes[v.kind.cls]}
      [] OTHER -> {}

LEMMA ViewsUnderIs ==
    ASSUME NEW image, NEW ex, NEW v
    PROVE  /\ ViewedInstance(ex, v) =>
                  ViewsUnder(image, ex, v) =
                      {NodeView(v.root, v.kind.cls, i, v.base, v.len, v.off, v.depth + 1, v.path) :
                           i \in DOMAIN Nodes[v.kind.cls]}
           /\ ViewedArray(ex, v) =>
                  ViewsUnder(image, ex, v) = {ElemView(v, e) : e \in 1 .. Shown(v.kind)}
           /\ ViewedPointer(ex, v) =>
                  ViewsUnder(image, ex, v) =
                      {NodeView(v.root, v.kind.cls, i, PtrOf(Here(image, v)), ReachOf(image, v), 0,
                                v.depth + 1, v.path) : i \in DOMAIN Nodes[v.kind.cls]}
           /\ ~ViewedInstance(ex, v) /\ ~ViewedArray(ex, v) /\ ~ViewedPointer(ex, v) =>
                  ViewsUnder(image, ex, v) = {}
<1>1. ViewedInstance(ex, v) => ~ViewedArray(ex, v) /\ ~ViewedPointer(ex, v)
  BY DEF ViewedInstance, ViewedArray, ViewedPointer
<1>2. ViewedArray(ex, v) => ~ViewedPointer(ex, v)
  BY DEF ViewedArray, ViewedPointer
<1> QED
  BY <1>1, <1>2 DEF ViewsUnder

\* Views go on where there is something to read, or nothing.
LEMMA ReachOfType ==
    ASSUME NEW image \in Images, NEW v \in View(image), Fully(v), v.kind.tag \in {"class_ptr", "text"}
    PROVE  LET to == PtrOf(Here(image, v))
           IN  /\ to \in Nat /\ ReachOf(image, v) \in Int
               /\ IsMapped(image, to, ReachOf(image, v))
               /\ to \in DOMAIN image => ReachOf(image, v) \in Nat
<1> DEFINE n == Capped(IF v.kind.tag = "text" THEN v.kind.max ELSE SizeOf(v.kind.cls))
<1>1. v.kind \in Kinds /\ PtrOf(Here(image, v)) \in Nat
  BY ViewFields, HereType
<1>2. v.kind.tag = "text" => v.kind.max \in Nat
  BY <1>1, KindFields
<1>3. v.kind.tag = "class_ptr" => SizeOf(v.kind.cls) \in Nat
  BY <1>1, KindFields, ClassSizes
<1>4. n \in Nat
  BY <1>2, <1>3, TargetAssumption DEF Capped
<1>5. ReachOf(image, v) = Reach(image, PtrOf(Here(image, v)), n)
  BY DEF ReachOf
<1> HIDE DEF n
<1> QED
  BY <1>1, <1>4, <1>5, ReachIs

\* Each view below goes one index deeper, and to a kind inside unless it is
\* behind a pointer that is expanded.
LEMMA ViewsUnderType ==
    ASSUME NEW image \in Images, NEW ex, NEW v \in View(image), NEW w \in ViewsUnder(image, ex, v)
    PROVE  /\ w \in View(image) /\ Len(w.path) = Len(v.path) + 1
           /\ w.kind \in Inside(v.kind) \/ <<v.root, v.path>> \in ex.expanded
<1>1. /\ v.root \in DOMAIN Roots /\ v.kind \in Kinds /\ v.base \in Nat /\ v.len \in Int
      /\ v.off \in Nat /\ v.depth \in Nat /\ v.depth + 1 \in Nat /\ v.path \in Paths
      /\ IsMapped(image, v.base, v.len)
  BY ViewFields
<1>2. CASE ViewedInstance(ex, v)
  <2> DEFINE c    == v.kind.cls
             d    == v.depth + 1
             root == v.root
             base == v.base
             len  == v.len
             off  == v.off
             path == v.path
  <2>1. v.kind.tag = "instance" /\ c \in Classes /\ d \in Nat
    BY <1>1, <1>2, KindFields DEF ViewedInstance
  <2>2. PICK i \in DOMAIN Nodes[c] : w = NodeView(root, c, i, base, len, off, d, path)
    BY <1>2, ViewsUnderIs
  <2>3. Nodes[c][i] \in Inside(v.kind)
    BY <1>1, <2>1, KindsInside
  <2>4. w \in View(image) /\ w.kind = Nodes[c][i] /\ Len(w.path) = Len(path) + 1
    <3>1. /\ root \in DOMAIN Roots /\ base \in Nat /\ len \in Int /\ IsMapped(image, base, len)
          /\ off \in Nat /\ path \in Paths
      BY <1>1
    <3> HIDE DEF c, d, root, base, len, off, path
    <3>2. LET x == NodeView(root, c, i, base, len, off, d, path)
          IN  x \in View(image) /\ x.kind = Nodes[c][i] /\ Len(x.path) = Len(path) + 1
      BY <2>1, <3>1, NodeViewType
    <3> QED
      BY <2>2, <3>2
  <2> QED
    BY <2>3, <2>4
<1>3. CASE ViewedArray(ex, v)
  <2>1. v.kind.tag = "array"
    BY <1>3 DEF ViewedArray
  <2>2. PICK e \in 1 .. Shown(v.kind) : w = ElemView(v, e)
    BY <1>3, ViewsUnderIs
  <2>3. w \in View(image) /\ w.kind = v.kind.elem /\ Len(w.path) = Len(v.path) + 1
    BY <2>1, <2>2, ElemViewType
  <2> QED
    BY <1>1, <2>1, <2>3, KindsInside
<1>4. CASE ViewedPointer(ex, v)
  <2> DEFINE c   == v.kind.cls
             d   == v.depth + 1
             to  == PtrOf(Here(image, v))
             len == ReachOf(image, v)
             off == 0
             root == v.root
             path == v.path
  <2>1. v.kind.tag = "class_ptr" /\ c \in Classes /\ d \in Nat /\ off \in Nat /\ Fully(v)
    BY <1>1, <1>4, KindFields DEF ViewedPointer
  <2>2. PICK i \in DOMAIN Nodes[c] : w = NodeView(root, c, i, to, len, off, d, path)
    BY <1>4, ViewsUnderIs
  <2>3. to \in Nat /\ len \in Int /\ IsMapped(image, to, len)
    BY <2>1, ReachOfType
  <2>4. w \in View(image) /\ Len(w.path) = Len(path) + 1
    <3>1. root \in DOMAIN Roots /\ path \in Paths
      BY <1>1
    <3> HIDE DEF c, d, to, len, off, root, path
    <3> QED
      BY <2>1, <2>2, <2>3, <3>1, NodeViewType
  <2> QED
    BY <1>4, <2>4 DEF ViewedPointer
<1> QED
  BY <1>2, <1>3, <1>4, ViewsUnderIs

\* Below a view one can go only so far, also where pointers lead in circles:
\* it is the paths that are expanded, and these are finitely many.
LEMMA ViewsGrounded ==
    ASSUME NEW image \in Images, NEW ex \in Expansions
    PROVE  Grounded(View(image), [v \in View(image) |-> ViewsUnder(image, ex, v)])
<1> DEFINE V     == View(image)
           under == [v \in V |-> ViewsUnder(image, ex, v)]
<1>1. under \in [V -> SUBSET V]
  BY ViewsUnderType
<1>2. PICK M \in Nat : \A e \in ex.expanded : Len(e[2]) \in Nat /\ Len(e[2]) <= M
  BY DeepestExpanded
<1>3. \A v \in V : v.kind \in Kinds /\ Len(v.path) \in Nat
  <2> SUFFICES ASSUME NEW v \in V PROVE v.kind \in Kinds /\ Len(v.path) \in Nat
    OBVIOUS
  <2>1. v.kind \in Kinds /\ v.path \in Seq(Nat)
    BY ViewFields DEF Paths
  <2> QED
    BY <2>1, LenProperties
<1>4. ASSUME NEW T \in SUBSET V, T # {} PROVE \E t \in T : under[t] \cap T = {}
  <2> DEFINE T1 == {t \in T : Len(t.path) > M}
  <2>1. CASE T1 # {}
    <3>1. \A t \in T1 : t.kind \in Kinds
      BY <1>3
    <3>2. PICK t \in T1 : \A u \in T1 : u.kind \notin Inside(t.kind)
      <4> HIDE DEF T1
      <4> QED
        BY <2>1, <3>1, LeastKind
    <3>3. t \in V /\ Len(t.path) \in Nat /\ Len(t.path) > M
      BY <1>3
    <3>4. <<t.root, t.path>> \notin ex.expanded
      <4> SUFFICES ASSUME <<t.root, t.path>> \in ex.expanded PROVE FALSE
        OBVIOUS
      <4>1. Len(<<t.root, t.path>>[2]) <= M
        BY <1>2
      <4> QED
        BY <3>3, <4>1
    <3>5. ASSUME NEW w \in ViewsUnder(image, ex, t), w \in T PROVE FALSE
      <4>1. Len(w.path) = Len(t.path) + 1 /\ w.kind \in Inside(t.kind)
        BY <3>3, <3>4, ViewsUnderType
      <4>2. w \in T1
        BY <3>3, <3>5, <4>1
      <4> QED
        BY <3>2, <4>1, <4>2
    <3> QED
      BY <3>5
  <2>2. CASE T1 = {}
    <3>1. \A t \in T : Len(t.path) \in Nat /\ Len(t.path) <= M
      <4> SUFFICES ASSUME NEW t \in T PROVE Len(t.path) \in Nat /\ Len(t.path) <= M
        OBVIOUS
      <4>1. Len(t.path) \in Nat /\ ~(Len(t.path) > M)
        BY <1>3, <2>2
      <4> QED
        BY <4>1
    <3> DEFINE D == {M - Len(t.path) : t \in T}
    <3>2. D \in SUBSET Nat /\ D # {}
      BY <1>4, <3>1
    <3>3. PICK d \in D : \A y \in D : d <= y
      <4> HIDE DEF D
      <4> QED
        BY <3>2, LeastNatural
    <3>4. PICK a \in T : \A t \in T : M - Len(a.path) <= M - Len(t.path)
      BY <3>3
    <3>5. ASSUME NEW w \in ViewsUnder(image, ex, a), w \in T PROVE FALSE
      <4>1. Len(w.path) = Len(a.path) + 1
        BY ViewsUnderType
      <4>2. M - Len(a.path) <= M - Len(w.path)
        BY <3>4, <3>5
      <4> QED
        BY <3>1, <4>1, <4>2
    <3> QED
      BY <3>5
  <2> QED
    BY <2>1, <2>2
<1> QED
  BY <1>1, <1>4 DEF Grounded

\* The row of a view.
LEMMA PlainRowType ==
    ASSUME NEW image \in Images, NEW v \in View(image)
    PROVE  LET r == PlainRow(image, v)
           IN  /\ r \in RowType /\ r.kind = v.kind /\ r.depth = v.depth /\ r.text = <<>>
               /\ r.address = v.base + v.off /\ r.path = v.path /\ r.root = v.root
               /\ r.offset = v.local /\ r.readable = Fully(v)
               /\ r.value = IF Fully(v) THEN Here(image, v) ELSE Unread
<1> DEFINE val == IF Fully(v) THEN Here(image, v) ELSE Unread
<1>1. /\ v.root \in DOMAIN Roots /\ v.kind \in Kinds /\ v.base \in Nat /\ v.len \in Int
      /\ v.off \in Nat /\ v.local \in Nat /\ v.depth \in Nat /\ v.path \in Paths
  BY ViewFields
<1>2. val \in Seq(Int)
  <2>1. Fully(v) => Here(image, v) \in Seq(Cells)
    BY HereType
  <2>2. Fully(v) => Here(image, v) \in Seq(Int)
    BY <2>1, CellsAreInts
  <2>3. Unread \in Seq(Int)
    BY DEF Unread
  <2> QED
    BY <2>2, <2>3
<1>3. Fully(v) \in BOOLEAN
  BY DEF Fully
<1>4. v.base + v.off \in Nat /\ <<>> \in Seq(Cells)
  BY <1>1
<1>5. PlainRow(image, v) =
          [path |-> v.path, root |-> v.root, depth |-> v.depth, offset |-> v.local,
           address |-> v.base + v.off, kind |-> v.kind, readable |-> Fully(v),
           value |-> val, text |-> <<>>]
  BY DEF PlainRow
<1> HIDE DEF val
<1>6. PlainRow(image, v) \in RowType
  BY <1>1, <1>2, <1>3, <1>4, <1>5 DEF RowType
<1> QED
  BY <1>5, <1>6 DEF val

LEMMA WithinIs ==
    ASSUME NEW direct, NEW F, NEW X, NEW root, NEW c \in Classes, NEW base, NEW len, NEW off,
           NEW depth, NEW path,
           \A i \in DOMAIN Nodes[c] :
               /\ direct[NodeView(root, c, i, base, len, off, depth, path)] \in Seq(X)
               /\ F[NodeView(root, c, i, base, len, off, depth, path)]
                  = direct[NodeView(root, c, i, base, len, off, depth, path)]
    PROVE  /\ Within(direct, root, c, base, len, off, depth, path) \in Seq(X)
           /\ Within(F, root, c, base, len, off, depth, path)
              = Within(direct, root, c, base, len, off, depth, path)
<1> DEFINE n  == Len(Nodes[c])
           ss == [i \in DOMAIN Nodes[c] |->
                     direct[NodeView(root, c, i, base, len, off, depth, path)]]
<1>1. n \in Nat /\ DOMAIN Nodes[c] = 1 .. n
  BY ClassNodes
<1>2. \A i \in 1 .. n : ss[i] \in Seq(X)
  BY <1>1
<1>3. Within(direct, root, c, base, len, off, depth, path) = Concat(n, ss)
  BY DEF Within, NodeView
<1>4. [i \in DOMAIN Nodes[c] |-> F[NodeView(root, c, i, base, len, off, depth, path)]] = ss
  OBVIOUS
<1>5. Within(F, root, c, base, len, off, depth, path) = Concat(n, ss)
  <2>1. Within(F, root, c, base, len, off, depth, path)
        = Concat(n, [i \in DOMAIN Nodes[c] |->
                        F[NodeView(root, c, i, base, len, off, depth, path)]])
    BY DEF Within, NodeView
  <2> QED
    BY <1>4, <2>1
<1> HIDE DEF n, ss
<1> QED
  BY <1>1, <1>2, <1>3, <1>5, ConcatType

LEMMA ElemRowsIs ==
    ASSUME NEW v, v.kind \in Kinds, v.kind.tag = "array", NEW row \in RowType, row.kind = v.kind,
           NEW direct, NEW F,
           \A e \in 1 .. Shown(v.kind) :
               /\ direct[ElemView(v, e)] \in Seq(RowType)
               /\ F[ElemView(v, e)] = direct[ElemView(v, e)]
    PROVE  /\ ElemRows(direct, row, v) \in Seq(RowType)
           /\ ElemRows(F, row, v) = ElemRows(direct, row, v)
<1> DEFINE n    == Shown(v.kind)
           ss   == [e \in 1 .. n |-> direct[ElemView(v, e)]]
           more == IF v.kind.count > n THEN <<More(row)>> ELSE <<>>
<1>1. n \in Nat
  BY ShownType
<1>2. \A e \in 1 .. n : ss[e] \in Seq(RowType)
  OBVIOUS
<1>3. Concat(n, ss) \in Seq(RowType)
  <2> HIDE DEF n, ss
  <2> QED
    BY <1>1, <1>2, ConcatType
<1>4. More(row) \in RowType
  BY MoreIs
<1>5. more \in Seq(RowType)
  BY <1>4
<1>6. ElemRows(direct, row, v) = Concat(n, ss) \o more
  BY DEF ElemRows
<1>7. [e \in 1 .. n |-> F[ElemView(v, e)]] = ss
  OBVIOUS
<1>8. ElemRows(F, row, v) = Concat(n, ss) \o more
  BY <1>7 DEF ElemRows
<1> HIDE DEF more, ss, n
<1> QED
  BY <1>3, <1>5, <1>6, <1>8, TwoSequences

LEMMA PlainlyType ==
    ASSUME NEW image \in Images, NEW ex, NEW v \in View(image), NEW direct, NEW F,
           \A w \in ViewsUnder(image, ex, v) : direct[w] \in Seq(RowType) /\ F[w] = direct[w]
    PROVE  /\ Plainly(image, ex, direct, v) \in Seq(RowType)
           /\ Plainly(image, ex, F, v) = Plainly(image, ex, direct, v)
<1> DEFINE row == PlainRow(image, v)
           to  == PtrOf(Here(image, v))
           len == ReachOf(image, v)
<1>1. row \in RowType /\ v.kind \in Kinds /\ row.kind = v.kind
  BY PlainRowType, ViewFields
<1>2. <<row>> \in Seq(RowType)
  BY <1>1
<1>3. CASE ViewedInstance(ex, v)
  <2> DEFINE c    == v.kind.cls
             d    == v.depth + 1
             root == v.root
             base == v.base
             vlen == v.len
             off  == v.off
             path == v.path
             rest == Within(direct, root, c, base, vlen, off, d, path)
  <2>1. c \in Classes
    BY <1>1, <1>3, KindFields DEF ViewedInstance
  <2>2. \A i \in DOMAIN Nodes[c] :
            NodeView(root, c, i, base, vlen, off, d, path) \in ViewsUnder(image, ex, v)
    BY <1>3, ViewsUnderIs
  <2>3. /\ Plainly(image, ex, direct, v) = <<row>> \o rest
        /\ Plainly(image, ex, F, v) = <<row>> \o Within(F, root, c, base, vlen, off, d, path)
    BY <1>3, PlainlyIs
  <2> HIDE DEF c, d, root, base, vlen, off, path
  <2>4. rest \in Seq(RowType) /\ Within(F, root, c, base, vlen, off, d, path) = rest
    BY <2>1, <2>2, WithinIs
  <2> HIDE DEF rest, row
  <2> QED
    BY <1>2, <2>3, <2>4, TwoSequences
<1>4. CASE ViewedArray(ex, v)
  <2>1. v.kind.tag = "array"
    BY <1>4 DEF ViewedArray
  <2>2. \A e \in 1 .. Shown(v.kind) : ElemView(v, e) \in ViewsUnder(image, ex, v)
    BY <1>4, ViewsUnderIs
  <2>3. /\ Plainly(image, ex, direct, v) = <<row>> \o ElemRows(direct, row, v)
        /\ Plainly(image, ex, F, v) = <<row>> \o ElemRows(F, row, v)
    BY <1>4, PlainlyIs
  <2> HIDE DEF row
  <2>4. ElemRows(direct, row, v) \in Seq(RowType) /\ ElemRows(F, row, v) = ElemRows(direct, row, v)
    BY <1>1, <2>1, <2>2, ElemRowsIs
  <2> QED
    BY <1>2, <2>3, <2>4, TwoSequences
<1>5. CASE ViewedPointer(ex, v)
  <2> DEFINE c    == v.kind.cls
             d    == v.depth + 1
             root == v.root
             off  == 0
             path == v.path
             rest == Within(direct, root, c, to, len, off, d, path)
  <2>1. c \in Classes
    BY <1>1, <1>5, KindFields DEF ViewedPointer
  <2>2. \A i \in DOMAIN Nodes[c] :
            NodeView(root, c, i, to, len, off, d, path) \in ViewsUnder(image, ex, v)
    BY <1>5, ViewsUnderIs
  <2>3. /\ Plainly(image, ex, direct, v) = <<row>> \o rest
        /\ Plainly(image, ex, F, v) = <<row>> \o Within(F, root, c, to, len, off, d, path)
    BY <1>5, PlainlyIs
  <2> HIDE DEF c, d, root, to, len, off, path
  <2>4. rest \in Seq(RowType) /\ Within(F, root, c, to, len, off, d, path) = rest
    BY <2>1, <2>2, WithinIs
  <2> HIDE DEF rest, row
  <2>5. <<row>> \o rest \in Seq(RowType)
    BY <1>2, <2>4, TwoSequences
  <2>6. Plainly(image, ex, F, v) = <<row>> \o rest
    BY <2>3, <2>4
  <2> QED
    BY <2>3, <2>5, <2>6
<1>6. CASE ViewedText(image, v)
  <2> DEFINE t == ViewText(image, v)
  <2>1. Plainly(image, ex, direct, v) = <<t>> /\ Plainly(image, ex, F, v) = <<t>>
    <3>1. Plainly(image, ex, direct, v) = <<t>>
      BY <1>6, PlainlyText
    <3>2. Plainly(image, ex, F, v) = <<t>>
      BY <1>6, PlainlyText
    <3> QED
      BY <3>1, <3>2
  <2>2. Fully(v) /\ v.kind.tag = "text" /\ to \in DOMAIN image
    BY <1>6 DEF ViewedText
  <2>3. to \in Nat /\ len \in Nat /\ IsMapped(image, to, len)
    BY <2>2, ReachOfType
  <2>4. CellsAt(image, to, len) \in Seq(Cells)
    <3> HIDE DEF to, len
    <3> QED
      BY <2>3, CellsRead
  <2>5. t \in RowType
    <3>1. t = [row EXCEPT !.text = CellsAt(image, to, len)]
      BY DEF ViewText
    <3> HIDE DEF row, to, len, t
    <3> QED
      BY <1>1, <2>4, <3>1 DEF RowType
  <2> HIDE DEF t
  <2> QED
    BY <2>1, <2>5
<1>7. CASE ViewedClosed(image, ex, v)
  <2>1. Plainly(image, ex, direct, v) = <<row>> /\ Plainly(image, ex, F, v) = <<row>>
    <3>1. Plainly(image, ex, direct, v) = <<row>>
      BY <1>7, PlainlyClosed
    <3>2. Plainly(image, ex, F, v) = <<row>>
      BY <1>7, PlainlyClosed
    <3> QED
      BY <3>1, <3>2
  <2> HIDE DEF row
  <2> QED
    BY <1>2, <2>1
<1> QED
  BY <1>3, <1>4, <1>5, <1>6, <1>7 DEF ViewedClosed

\* What is shown of a view is what is said to be, all the way down.
LEMMA DirectIs ==
    ASSUME NEW image \in Images, NEW ex \in Expansions
    PROVE  \A v \in View(image) :
               Direct(image, ex)[v] = Plainly(image, ex, Direct(image, ex), v)
<1> DEFINE V     == View(image)
           X     == Seq(RowType)
           under == [v \in V |-> ViewsUnder(image, ex, v)]
           G     == [F \in [V -> X] |-> [v \in V |-> Plainly(image, ex, F, v)]]
<1>1. Grounded(V, under)
  BY ViewsGrounded
<1>2. \A v \in V : ViewsUnder(image, ex, v) \subseteq V
  BY ViewsUnderType
<1>3. ASSUME NEW F \in [V -> X], NEW v \in V PROVE Plainly(image, ex, F, v) \in X
  <2>1. \A w \in ViewsUnder(image, ex, v) : F[w] \in Seq(RowType) /\ F[w] = F[w]
    BY <1>2
  <2> QED
    BY <2>1, PlainlyType
<1>4. Local(V, X, under, G)
  <2>1. \A F \in [V -> X] : [v \in V |-> Plainly(image, ex, F, v)] \in [V -> X]
    BY <1>3
  <2>2. G \in [[V -> X] -> [V -> X]]
    BY <2>1
  <2>3. ASSUME NEW F \in [V -> X], NEW H \in [V -> X], NEW v \in V,
               \A w \in under[v] : F[w] = H[w]
        PROVE  G[F][v] = G[H][v]
    <3>1. \A w \in ViewsUnder(image, ex, v) : H[w] \in Seq(RowType) /\ F[w] = H[w]
      BY <1>2, <2>3
    <3>2. Plainly(image, ex, F, v) = Plainly(image, ex, H, v)
      BY <3>1, PlainlyType
    <3> QED
      BY <3>2
  <2> HIDE DEF X, under, G, V
  <2> QED
    BY <2>2, <2>3 DEF Local
<1>5. X # {}
  <2>1. <<>> \in Seq(RowType)
    OBVIOUS
  <2> QED
    BY <2>1
<1>6. HasFixpoint(V, X, G)
  <2> HIDE DEF X, G, under, V
  <2> QED
    BY <1>1, <1>4, <1>5, Defined
<1>7. PICK F \in [V -> X] : F = [v \in V |-> Plainly(image, ex, F, v)]
  <2> HIDE DEF X, V
  <2> QED
    BY <1>6 DEF HasFixpoint
<1> DEFINE direct[v \in View(image)] == Plainly(image, ex, direct, v)
<1>8. direct = [v \in View(image) |-> Plainly(image, ex, direct, v)]
  BY <1>7
<1>9. Direct(image, ex) = direct
  BY DEF Direct
<1> HIDE DEF direct
<1>10. \A v \in View(image) : direct[v] = Plainly(image, ex, direct, v)
  BY <1>8
<1> QED
  BY <1>9, <1>10

\* What can be read of a frame.
Extent(f) == IF f.readable THEN f.len ELSE -1

\* A frame of a target that keeps still holds what is there, to its end or to
\* the first gap.
LEMMA StillFrame ==
    ASSUME SnapTypes, Len(seen) = 1, NEW f \in FrameType, IsRead(seen, f)
    PROVE  /\ mem \in Images
           /\ \A i \in 1 .. f.len : f.base + i - 1 \in DOMAIN mem /\ mem[f.base + i - 1] = f.buf[i]
           /\ Extent(f) \in Int /\ IsMapped(mem, f.base, Extent(f))
           /\ Reach(mem, f.base, ReadLength(f)) = Extent(f)
<1>1. mem \in Images /\ mem = seen[1] /\ DOMAIN seen = {1}
  BY DEF SnapTypes
<1>2. /\ f.base \in Nat /\ f.len \in Nat /\ f.readable \in BOOLEAN /\ ReadLength(f) \in Nat
      /\ f.len <= ReadLength(f)
  BY ReadLengthType DEF FrameType, IsRead
<1>3. \A i \in 1 .. f.len : f.base + i - 1 \in DOMAIN mem /\ mem[f.base + i - 1] = f.buf[i]
  BY <1>1 DEF IsRead, FromTarget
<1>4. f.len = ReadLength(f) \/ f.base + f.len \notin DOMAIN mem
  BY <1>1 DEF IsRead
<1>5. f.readable <=> ReadLength(f) = 0 \/ f.len > 0
  BY DEF IsRead
<1>6. IsMapped(mem, f.base, f.len)
  <2> SUFFICES ASSUME NEW a \in f.base .. f.base + f.len - 1 PROVE a \in DOMAIN mem
    BY DEF IsMapped
  <2> DEFINE i == a - f.base + 1
  <2>1. i \in 1 .. f.len /\ f.base + i - 1 = a
    BY <1>2
  <2> HIDE DEF i
  <2> QED
    BY <1>3, <2>1
<1>7. Extent(f) \in Int
  BY <1>2 DEF Extent
<1>8. IsMapped(mem, f.base, Extent(f))
  <2>1. CASE f.readable
    BY <1>6, <2>1 DEF Extent
  <2>2. CASE ~f.readable
    BY <1>2, <2>2 DEF Extent, IsMapped
  <2> QED
    BY <2>1, <2>2
<1>9. Reach(mem, f.base, ReadLength(f)) = IF ReadLength(f) = 0 \/ f.len > 0 THEN f.len ELSE -1
  <2> DEFINE n    == ReadLength(f)
             base == f.base
             p    == f.len
  <2>1. base \in Nat /\ n \in Nat /\ p \in 0 .. n /\ IsMapped(mem, base, p)
        /\ (p = n \/ base + p \notin DOMAIN mem)
    BY <1>2, <1>4, <1>6
  <2> HIDE DEF n, base, p
  <2>2. Reach(mem, base, n) = IF n = 0 \/ p > 0 THEN p ELSE -1
    BY <2>1, ReachIs
  <2> QED
    BY <2>2 DEF n, base, p
<1> QED
  BY <1>1, <1>3, <1>5, <1>7, <1>8, <1>9 DEF Extent

\* The view that a place is.
ViewOf(p) ==
    [root |-> frames[p.fi].root, kind |-> p.kind, base |-> frames[p.fi].base,
     len |-> Extent(frames[p.fi]), off |-> p.off, local |-> p.local, depth |-> p.depth,
     path |-> p.path]

LEMMA ViewOfType ==
    ASSUME SnapTypes, Complete, Len(seen) = 1, NEW p \in Place
    PROVE  /\ ViewOf(p) \in View(mem)
           /\ ViewOf(p).root = frames[p.fi].root /\ ViewOf(p).kind = p.kind
           /\ ViewOf(p).base = frames[p.fi].base /\ ViewOf(p).len = Extent(frames[p.fi])
           /\ ViewOf(p).off = p.off /\ ViewOf(p).local = p.local /\ ViewOf(p).depth = p.depth
           /\ ViewOf(p).path = p.path
<1>1. LET f == frames[p.fi]
      IN  /\ f.root \in DOMAIN Roots /\ f.base \in Nat /\ Extent(f) \in Int
          /\ IsMapped(mem, f.base, Extent(f))
  BY PlaceType, StillFrame
<1>2. p.kind \in Kinds /\ p.off \in Nat /\ p.local \in Nat /\ p.depth \in Nat /\ p.path \in Paths
  BY PlaceType
<1> QED
  BY <1>1, <1>2 DEF ViewOf, View

\* Its row is that of the place.
LEMMA SameRow ==
    ASSUME SnapTypes, Complete, Len(seen) = 1, NEW p \in Place
    PROVE  /\ RowOf(p) = PlainRow(mem, ViewOf(p))
           /\ RowOf(p).readable = Fully(ViewOf(p))
<1> DEFINE f    == frames[p.fi]
           v    == ViewOf(p)
           r    == RowOf(p)
           t    == PlainRow(mem, v)
           size == KindSize[p.kind]
<1>1. /\ f.base \in Nat /\ p.off \in Nat /\ size \in Nat /\ f.len \in Nat
      /\ f \in FrameType /\ IsRead(seen, f)
  BY PlaceType
<1>2. /\ mem \in Images
      /\ \A i \in 1 .. f.len : f.base + i - 1 \in DOMAIN mem /\ mem[f.base + i - 1] = f.buf[i]
  BY <1>1, StillFrame
<1>3. /\ v \in View(mem) /\ v.root = f.root /\ v.kind = p.kind /\ v.base = f.base
      /\ v.len = Extent(f) /\ v.off = p.off /\ v.local = p.local /\ v.depth = p.depth
      /\ v.path = p.path
  BY ViewOfType
<1>4. /\ r \in RowType
      /\ r.path = p.path /\ r.root = f.root /\ r.depth = p.depth /\ r.offset = p.local
      /\ r.address = f.base + p.off /\ r.kind = p.kind /\ r.text = <<>>
      /\ r.readable <=> f.readable /\ p.off + size <= f.len
      /\ ~r.readable => r.value = Unread
      /\ r.readable => /\ r.value \in Seq(Cells) /\ Len(r.value) = size
                       /\ \A i \in 1 .. size : r.value[i] = f.buf[p.off + i]
  BY RowOfIs
<1>5. /\ t \in RowType /\ t.kind = v.kind /\ t.depth = v.depth /\ t.text = <<>>
      /\ t.address = v.base + v.off /\ t.path = v.path /\ t.root = v.root
      /\ t.offset = v.local /\ t.readable = Fully(v)
      /\ t.value = IF Fully(v) THEN Here(mem, v) ELSE Unread
  BY <1>2, <1>3, PlainRowType
<1>6. Fully(v) => /\ Here(mem, v) \in Seq(Cells) /\ Len(Here(mem, v)) = size
                  /\ \A i \in 1 .. size : Here(mem, v)[i] = mem[f.base + p.off + i - 1]
  BY <1>2, <1>3, HereType
<1>7. Fully(v) <=> p.off + size <= Extent(f)
  BY <1>3 DEF Fully
<1> HIDE DEF f, v, r, t, size
<1>8. Fully(v) <=> f.readable /\ p.off + size <= f.len
  BY <1>1, <1>7 DEF Extent
<1>9. r.readable = t.readable
  <2>1. r.readable \in BOOLEAN /\ t.readable \in BOOLEAN
    BY <1>4, <1>5 DEF RowType
  <2>2. r.readable <=> t.readable
    BY <1>4, <1>5, <1>8
  <2> QED
    BY <2>1, <2>2
<1>10. r.value = t.value
  <2>1. CASE ~Fully(v)
    BY <1>4, <1>5, <1>8, <2>1
  <2>2. CASE Fully(v)
    <3>1. /\ r.value \in Seq(Cells) /\ Len(r.value) = size /\ t.value = Here(mem, v)
          /\ t.value \in Seq(Cells) /\ Len(t.value) = size
      BY <1>4, <1>5, <1>6, <1>8, <2>2
    <3>2. ASSUME NEW i \in 1 .. size PROVE r.value[i] = t.value[i]
      <4>1. r.value[i] = f.buf[p.off + i] /\ t.value[i] = mem[f.base + p.off + i - 1]
        BY <1>4, <1>6, <1>8, <2>2, <3>1
      <4>2. p.off + i \in 1 .. f.len /\ f.base + (p.off + i) - 1 = f.base + p.off + i - 1
        BY <1>1, <1>8, <2>2
      <4>3. mem[f.base + (p.off + i) - 1] = f.buf[p.off + i]
        BY ONLY <1>2, <4>2, Zenon
      <4> QED
        BY ONLY <4>1, <4>2, <4>3
    <3> QED
      BY <3>1, <3>2
  <2> QED
    BY <2>1, <2>2
<1>11. /\ r.path = t.path /\ r.root = t.root /\ r.depth = t.depth /\ r.offset = t.offset
       /\ r.address = t.address /\ r.kind = t.kind /\ r.text = t.text
  BY <1>3, <1>4, <1>5
<1>12. r = t
  BY <1>4, <1>5, <1>9, <1>10, <1>11, RowsEqual
<1> QED
  BY <1>5, <1>12 DEF r, t, v

\* A pointer that is there is the one that was followed, and what it was
\* followed to is what there is.
LEMMA SamePointer ==
    ASSUME SnapTypes, Complete, Len(seen) = 1, NEW p \in Place, PlaceFits(p),
           p.kind.tag \in {"class_ptr", "text"}
    PROVE  LET v == ViewOf(p)
               f == frames[p.fi]
               g == Behind(p)
           IN  /\ Fully(v) => HoldsPointer(f, p.off) /\ PointerAt(f, p.off) = PtrOf(Here(mem, v))
               /\ p.path \in DOMAIN f.children =>
                      /\ Fully(v) /\ g \in FrameType /\ IsRead(seen, g)
                      /\ f.children[p.path] \in DOMAIN frames
                      /\ g.base = PtrOf(Here(mem, v)) /\ g.root = f.root
                      /\ Extent(g) = ReachOf(mem, v)
<1> DEFINE v  == ViewOf(p)
           f  == frames[p.fi]
           ch == f.children[p.path]
           g  == frames[ch]
           r  == RowOf(p)
<1>1. /\ p.kind \in Kinds /\ p.off \in Nat /\ f \in FrameType /\ IsRead(seen, f)
      /\ f.len \in Nat /\ mem \in Images
  BY PlaceType, StillFrame
<1>2. v \in View(mem) /\ v.kind = p.kind
  BY ViewOfType
<1>3. KindSize[p.kind] = PtrBytes
  BY PointerPlace
<1>4. /\ r.readable <=> f.readable /\ p.off + PtrBytes <= f.len
      /\ r.readable => r.value = SubSeq(f.buf, p.off + 1, p.off + PtrBytes)
  BY <1>3, RowOfIs
<1>5. r.readable = Fully(v) /\ r = PlainRow(mem, v)
  BY SameRow
<1>6. Fully(v) => r.value = Here(mem, v)
  BY <1>1, <1>2, <1>5, PlainRowType
<1>7. Fully(v) => HoldsPointer(f, p.off) /\ PointerAt(f, p.off) = PtrOf(Here(mem, v))
  <2> HIDE DEF v, f, r
  <2> QED
    BY <1>4, <1>5, <1>6 DEF HoldsPointer, PointerAt
<1>8. ASSUME p.path \in DOMAIN f.children
      PROVE  /\ Fully(v) /\ g \in FrameType /\ IsRead(seen, g) /\ ch \in DOMAIN frames
             /\ g.base = PtrOf(Here(mem, v)) /\ g.root = f.root
             /\ Extent(g) = ReachOf(mem, v)
  <2>1. /\ ch \in 1 .. Len(frames) /\ ch \in DOMAIN frames
        /\ g.base = PointerAt(f, p.off) /\ g.root = f.root
        /\ p.kind.tag = "class_ptr" => g.cls = p.kind.cls /\ g.text = 0
        /\ p.kind.tag = "text" => g.text = p.kind.max /\ g.text > 0 /\ g.base # 0
    BY <1>8, ChildOf
  <2>2. Fully(v)
    BY <1>5, <1>8, PointerShown
  <2>3. g \in FrameType /\ IsRead(seen, g)
    BY <2>1 DEF Complete
  <2>4. g.base = PtrOf(Here(mem, v))
    BY <1>7, <2>1, <2>2
  <2>5. Reach(mem, g.base, ReadLength(g)) = Extent(g)
    BY <2>3, StillFrame
  <2> HIDE DEF v, f, g, ch
  <2>6. ReadLength(g) = Capped(IF p.kind.tag = "text" THEN p.kind.max ELSE SizeOf(p.kind.cls))
    <3>1. CASE p.kind.tag = "class_ptr"
      BY <2>1, <3>1 DEF ReadLength, IsText
    <3>2. CASE p.kind.tag = "text"
      <4>1. g.text # 0 /\ g.text = p.kind.max
        <5>1. g.text \in Nat
          BY <2>3 DEF FrameType
        <5> QED
          BY <2>1, <3>2, <5>1
      <4> QED
        BY <3>2, <4>1 DEF ReadLength, IsText
    <3> QED
      BY <3>1, <3>2
  <2>7. Extent(g) = ReachOf(mem, v)
    BY <1>2, <2>4, <2>5, <2>6 DEF ReachOf
  <2> QED
    BY <2>1, <2>2, <2>3, <2>4, <2>7
<1>9. Behind(p) = g
  BY DEF Behind
<1> HIDE DEF g, ch
<1> QED
  BY <1>7, <1>8, <1>9 DEF ch

\* The same is followed as would be.
LEMMA SameOpen ==
    ASSUME SnapTypes, Complete, Len(seen) = 1, NEW p \in Place, PlaceFits(p)
    PROVE  LET v == ViewOf(p)
           IN  /\ OpenInstance(p) <=> ViewedInstance(expand, v)
               /\ OpenArray(p) <=> ViewedArray(expand, v)
               /\ OpenPointer(p) <=> ViewedPointer(expand, v)
<1> DEFINE v == ViewOf(p)
           f == frames[p.fi]
<1>1. v.kind = p.kind /\ v.root = f.root /\ v.path = p.path
  BY ViewOfType
<1> HIDE DEF v
<1>2. OpenInstance(p) <=> ViewedInstance(expand, v)
  BY <1>1 DEF OpenInstance, ViewedInstance, IsCollapsed
<1>3. OpenArray(p) <=> ViewedArray(expand, v)
  BY <1>1 DEF OpenArray, ViewedArray, IsCollapsed
<1>4. ASSUME p.kind.tag = "class_ptr", <<f.root, p.path>> \in expand.expanded
      PROVE  p.path \in DOMAIN f.children <=> Fully(v)
  <2>1. p.path \in DOMAIN f.children => Fully(v)
    BY <1>4, SamePointer DEF v
  <2>2. ASSUME Fully(v) PROVE p.path \in DOMAIN f.children
    <3>1. HoldsPointer(f, p.off)
      BY <1>4, <2>2, SamePointer DEF v
    <3>2. Wanted(expand, f, SpotOf(p))
      BY <1>4, <3>1 DEF Wanted, SpotOf
    <3> QED
      BY <1>4, <3>2, PointerPlace
  <2> QED
    BY <2>1, <2>2
<1>5. OpenPointer(p) <=> ViewedPointer(expand, v)
  BY <1>1, <1>4 DEF OpenPointer, ViewedPointer, IsExpanded
<1> QED
  BY <1>2, <1>3, <1>5 DEF v

\* So is the string that is shown.
LEMMA SameText ==
    ASSUME SnapTypes, Complete, Len(seen) = 1, NEW p \in Place, PlaceFits(p), p.kind.tag = "text"
    PROVE  (IF OpenText(p) THEN TextRow(p) ELSE RowOf(p))
           = IF ViewedText(mem, ViewOf(p)) THEN ViewText(mem, ViewOf(p)) ELSE PlainRow(mem, ViewOf(p))
<1> DEFINE v  == ViewOf(p)
           f  == frames[p.fi]
           to == PtrOf(Here(mem, v))
           n  == ReachOf(mem, v)
           r  == RowOf(p)
           g  == Behind(p)
<1>1. mem \in Images /\ p.kind \in Kinds /\ p.kind.max \in Nat
  BY PlaceType, StillFrame, KindFields
<1>2. v \in View(mem) /\ v.kind = p.kind
  BY ViewOfType
<1>3. r \in RowType /\ r.text = <<>> /\ PlainRow(mem, v) = r
  BY RowOfIs, SameRow
<1>4. ViewText(mem, v) = [r EXCEPT !.text = CellsAt(mem, to, n)]
  BY <1>3 DEF ViewText
<1>5. Fully(v) => /\ to \in Nat /\ n \in Int /\ IsMapped(mem, to, n)
                  /\ to \in DOMAIN mem => n \in Nat
  BY <1>1, <1>2, ReachOfType
<1>6. [r EXCEPT !.text = <<>>] = r
  <2> HIDE DEF r
  <2> QED
    BY <1>3 DEF RowType
<1>7. CASE OpenText(p)
  <2>1. /\ Fully(v) /\ g \in FrameType /\ IsRead(seen, g)
        /\ g.base = to /\ Extent(g) = n
    BY <1>7, SamePointer DEF OpenText
  <2>2. p.path \in DOMAIN f.children
    BY <1>7 DEF OpenText
  <2>3. g.text = p.kind.max /\ g.text > 0 /\ g.base # 0
    BY <2>2, ChildOf DEF Behind
  <2>4. /\ TextRow(p) = [r EXCEPT !.text = SubSeq(g.buf, 1, g.len)]
        /\ g.len \in Nat
        /\ TextRow(p).text = SubSeq(g.buf, 1, g.len)
        /\ TextRow(p).text \in Seq(Cells) /\ Len(TextRow(p).text) = g.len
        /\ \A i \in 1 .. g.len : TextRow(p).text[i] = g.buf[i]
    BY <1>7, TextRowIs DEF TextRow
  <2> DEFINE s == SubSeq(g.buf, 1, g.len)
  <2>5. \A i \in 1 .. g.len : to + i - 1 \in DOMAIN mem /\ mem[to + i - 1] = g.buf[i]
    BY <2>1, StillFrame
  <2>6. s \in Seq(Cells) /\ Len(s) = g.len /\ \A i \in 1 .. g.len : s[i] = g.buf[i]
    BY <2>4
  <2>7. g.readable <=> ReadLength(g) = 0 \/ g.len > 0
    BY <2>1 DEF IsRead
  <2> HIDE DEF v, f, to, n, r, g, s
  <2>8. CASE to \in DOMAIN mem
    <3>1. n \in Nat
      BY <1>5, <2>1, <2>8
    <3>2. n = g.len
      BY <2>1, <3>1 DEF Extent
    <3>3. CellsAt(mem, to, n) \in Seq(Cells) /\ Len(CellsAt(mem, to, n)) = n
          /\ \A i \in 1 .. n : CellsAt(mem, to, n)[i] = mem[to + i - 1]
      BY <1>1, <1>5, <2>1, <3>1, CellsRead
    <3>4. s = CellsAt(mem, to, n)
      <4> DEFINE cells == CellsAt(mem, to, n)
                 m     == g.len
      <4>1. cells \in Seq(Cells) /\ Len(cells) = m
        BY <3>2, <3>3
      <4>2. s \in Seq(Cells) /\ Len(s) = m
        BY <2>6
      <4>3. ASSUME NEW i \in 1 .. m PROVE s[i] = cells[i]
        <5>1. s[i] = g.buf[i]
          BY <2>6
        <5>2. mem[to + i - 1] = g.buf[i]
          BY <2>5
        <5>3. cells[i] = mem[to + i - 1]
          BY <3>2, <3>3
        <5> QED
          BY <5>1, <5>2, <5>3
      <4> HIDE DEF cells, m
      <4>4. s = cells
        BY <4>1, <4>2, <4>3
      <4> QED
        BY <4>4 DEF cells
    <3>5. TextRow(p) = ViewText(mem, v)
      BY <1>4, <2>4, <3>4 DEF s
    <3>6. ViewedText(mem, v)
      BY <1>2, <2>1, <2>3, <2>8 DEF ViewedText, to
    <3> QED
      BY <1>7, <3>5, <3>6 DEF v
  <2>9. CASE to \notin DOMAIN mem
    <3>1. g.len = 0
      <4> SUFFICES ASSUME g.len # 0 PROVE FALSE
        OBVIOUS
      <4>1. 1 \in 1 .. g.len /\ to \in Nat
        BY <1>5, <2>1, <2>4
      <4>2. to + 1 - 1 \in DOMAIN mem /\ to + 1 - 1 = to
        BY <2>5, <4>1
      <4> QED
        BY <2>9, <4>2
    <3>2. s = <<>>
      BY <2>6, <3>1
    <3>3. TextRow(p) = r
      BY <1>6, <2>4, <3>2 DEF s
    <3>4. ~ViewedText(mem, v)
      BY <2>9 DEF ViewedText, to
    <3> QED
      BY <1>3, <1>7, <3>3, <3>4 DEF v, r
  <2> QED
    BY <2>8, <2>9
<1>8. CASE ~OpenText(p)
  <2>1. CASE ~ViewedText(mem, v)
    BY <1>3, <1>8, <2>1
  <2>2. CASE ViewedText(mem, v)
    <3>1. Fully(v) /\ to # 0 /\ to \in DOMAIN mem
      BY <2>2 DEF ViewedText
    <3>2. HoldsPointer(f, p.off) /\ PointerAt(f, p.off) = to
      BY <3>1, SamePointer
    <3>3. p.path \notin DOMAIN f.children
      BY <1>8 DEF OpenText
    <3>4. ~Wanted(expand, f, SpotOf(p))
      BY <3>3, PointerPlace
    <3>5. p.kind.max = 0
      BY <1>1, <3>1, <3>2, <3>4 DEF Wanted, SpotOf
    <3>6. n = Reach(mem, to, Capped(0))
      BY <1>2, <3>5 DEF ReachOf
    <3>7. Capped(0) = 0
      BY TargetAssumption DEF Capped
    <3>8. n \in 0 .. 0
      <4> DEFINE z == 0
      <4>1. z \in Nat /\ to \in Nat /\ z = 0
        BY <1>5, <3>1
      <4> HIDE DEF z, to
      <4>2. Reach(mem, to, z) \in 0 .. z
        BY <3>1, <4>1, ReachIs
      <4> QED
        BY <3>6, <3>7, <4>1, <4>2 DEF z
    <3>9. CellsAt(mem, to, n) = <<>>
      <4> HIDE DEF to, n
      <4>1. n = 0
        BY <3>8
      <4> QED
        BY <4>1 DEF CellsAt
    <3>10. ViewText(mem, v) = r
      BY <1>4, <1>6, <3>9
    <3> QED
      BY <1>8, <2>2, <3>10
  <2> QED
    BY <2>1, <2>2
<1> QED
  BY <1>7, <1>8

\* A place is laid out as its view when those under it are.
LEMMA SameUp ==
    ASSUME SnapTypes, Complete, Len(seen) = 1, NEW p \in Place, PlaceFits(p), NEW shown, NEW direct,
           \A q \in PlacesUnder(p) : shown[q] = direct[ViewOf(q)]
    PROVE  Formatted(shown, p) = Plainly(mem, expand, direct, ViewOf(p))
<1> DEFINE v == ViewOf(p)
           f == frames[p.fi]
           r == RowOf(p)
<1>1. /\ p.kind \in Kinds /\ p.off \in Nat /\ p.depth + 1 \in Nat /\ p.path \in Paths
      /\ p.fi \in DOMAIN frames
  BY PlaceType, Counts
<1>2. /\ v.root = f.root /\ v.kind = p.kind /\ v.base = f.base /\ v.len = Extent(f)
      /\ v.off = p.off /\ v.local = p.local /\ v.depth = p.depth /\ v.path = p.path
  BY ViewOfType
<1>3. r = PlainRow(mem, v)
  BY SameRow
<1>4. CASE OpenInstance(p)
  <2> DEFINE c    == p.kind.cls
             d    == p.depth + 1
             rest == ClassRows(shown, p.fi, c, p.off, d, p.path)
  <2>1. c \in Classes /\ d \in Nat
    BY <1>1, <1>4, KindFields DEF OpenInstance
  <2>2. ASSUME NEW i \in DOMAIN Nodes[c]
        PROVE  shown[NodePlace(p.fi, c, i, p.off, d, p.path)]
               = direct[NodeView(f.root, c, i, f.base, Extent(f), p.off, d, p.path)]
    <3> DEFINE q == NodePlace(p.fi, c, i, p.off, d, p.path)
    <3>1. q \in PlacesUnder(p)
      BY <1>4, UnderIs
    <3>2. ViewOf(q) = NodeView(f.root, c, i, f.base, Extent(f), p.off, d, p.path)
      BY DEF ViewOf, NodeView, NodePlace
    <3> HIDE DEF q
    <3>3. shown[q] = direct[ViewOf(q)]
      BY <3>1
    <3> QED
      BY <3>2, <3>3 DEF q
  <2>3. rest = Within(direct, f.root, c, f.base, Extent(f), p.off, d, p.path)
    <3> HIDE DEF c, d, f
    <3>1. [i \in DOMAIN Nodes[c] |-> shown[NodePlace(p.fi, c, i, p.off, d, p.path)]]
          = [i \in DOMAIN Nodes[c] |->
                direct[NodeView(f.root, c, i, f.base, Extent(f), p.off, d, p.path)]]
      BY <2>2
    <3> QED
      BY <3>1 DEF ClassRows, Within, NodeView
  <2>4. Formatted(shown, p) = <<r>> \o rest
    BY <1>4, FormattedIs
  <2>5. ViewedInstance(expand, v)
    BY <1>4, SameOpen
  <2>6. Plainly(mem, expand, direct, v) =
            <<PlainRow(mem, v)>>
            \o Within(direct, v.root, v.kind.cls, v.base, v.len, v.off, v.depth + 1, v.path)
    BY <2>5, PlainlyIs
  <2>7. Within(direct, v.root, v.kind.cls, v.base, v.len, v.off, v.depth + 1, v.path) = rest
    <3> HIDE DEF v, rest, f
    <3> QED
      BY <1>2, <2>3
  <2> HIDE DEF v, rest, r
  <2> QED
    BY <1>3, <2>4, <2>6, <2>7 DEF v
<1>5. CASE OpenArray(p)
  <2>1. p.kind.tag = "array"
    BY <1>5 DEF OpenArray
  <2>2. ASSUME NEW e \in 1 .. Shown(p.kind)
        PROVE  shown[ElemPlace(p, e)] = direct[ElemView(v, e)]
    <3> DEFINE q == ElemPlace(p, e)
               o == (e - 1) * Stride(p.kind.elem)
    <3>1. q \in PlacesUnder(p)
      BY <1>5, UnderIs
    <3>2. /\ q.fi = p.fi /\ q.kind = p.kind.elem /\ q.off = p.off + o /\ q.local = o
          /\ q.depth = p.depth + 1 /\ q.path = Append(p.path, e - 1)
      BY <2>1, ElemPlaceType
    <3>3. v = [root |-> f.root, kind |-> p.kind, base |-> f.base, len |-> Extent(f),
               off |-> p.off, local |-> p.local, depth |-> p.depth, path |-> p.path]
      BY DEF ViewOf
    <3>4. ViewOf(q) = [root |-> f.root, kind |-> p.kind.elem, base |-> f.base, len |-> Extent(f),
                       off |-> p.off + o, local |-> o, depth |-> p.depth + 1,
                       path |-> Append(p.path, e - 1)]
      <4> HIDE DEF q, o
      <4> QED
        BY <3>2 DEF ViewOf
    <3>5. ElemView(v, e) = [root |-> f.root, kind |-> p.kind.elem, base |-> f.base,
                            len |-> Extent(f), off |-> p.off + o, local |-> o,
                            depth |-> p.depth + 1, path |-> Append(p.path, e - 1)]
      <4>1. ElemView(v, e) = [v EXCEPT !.kind = p.kind.elem, !.off = p.off + o, !.local = o,
                                       !.depth = p.depth + 1, !.path = Append(p.path, e - 1)]
        BY <1>2 DEF ElemView
      <4> HIDE DEF v, o, f
      <4> QED
        BY <3>3, <4>1
    <3> HIDE DEF q, v
    <3>6. shown[q] = direct[ViewOf(q)]
      BY <3>1
    <3> QED
      BY <3>4, <3>5, <3>6 DEF q
  <2>3. ArrayRows(shown, p) = ElemRows(direct, r, v)
    <3> HIDE DEF v, r
    <3>1. [e \in 1 .. Shown(p.kind) |-> shown[ElemPlace(p, e)]]
          = [e \in 1 .. Shown(p.kind) |-> direct[ElemView(v, e)]]
      BY <2>2
    <3> QED
      BY <1>2, <3>1 DEF ArrayRows, ElemRows, r
  <2>4. Formatted(shown, p) = <<r>> \o ArrayRows(shown, p)
    BY <1>5, FormattedIs
  <2>5. ViewedArray(expand, v)
    BY <1>5, SameOpen
  <2>6. Plainly(mem, expand, direct, v) =
            <<PlainRow(mem, v)>> \o ElemRows(direct, PlainRow(mem, v), v)
    BY <2>5, PlainlyIs
  <2> HIDE DEF v, r
  <2> QED
    BY <1>3, <2>3, <2>4, <2>6 DEF v
<1>6. CASE OpenPointer(p)
  <2> DEFINE c    == p.kind.cls
             d    == p.depth + 1
             ch   == f.children[p.path]
             g    == Behind(p)
             to   == PtrOf(Here(mem, v))
             n    == ReachOf(mem, v)
             off  == 0
             rest == ClassRows(shown, ch, c, off, d, p.path)
  <2>1. p.kind.tag = "class_ptr" /\ c \in Classes /\ d \in Nat /\ p.path \in DOMAIN f.children
    BY <1>1, <1>6, KindFields DEF OpenPointer
  <2>2. ch \in DOMAIN frames /\ g.base = to /\ g.root = f.root /\ Extent(g) = n
    BY <2>1, SamePointer
  <2>3. g = frames[ch]
    BY DEF Behind
  <2>4. ASSUME NEW i \in DOMAIN Nodes[c]
        PROVE  shown[NodePlace(ch, c, i, off, d, p.path)]
               = direct[NodeView(f.root, c, i, to, n, off, d, p.path)]
    <3> DEFINE q == NodePlace(ch, c, i, off, d, p.path)
    <3>1. q \in PlacesUnder(p)
      BY <1>6, UnderIs
    <3> HIDE DEF ch, c, d, off, g, to, n, f
    <3>2. /\ q.fi = ch /\ q.kind = Nodes[c][i] /\ q.off = off + Offsets[c][i]
          /\ q.local = Offsets[c][i] /\ q.depth = d /\ q.path = Append(p.path, i - 1)
      BY DEF NodePlace
    <3> HIDE DEF q
    <3>3. ViewOf(q) = NodeView(f.root, c, i, to, n, off, d, p.path)
      BY <2>2, <2>3, <3>2 DEF ViewOf, NodeView
    <3>4. shown[q] = direct[ViewOf(q)]
      BY <3>1
    <3> QED
      BY <3>3, <3>4 DEF q
  <2>5. rest = Within(direct, f.root, c, to, n, off, d, p.path)
    <3> HIDE DEF c, d, f, ch, to, n, off
    <3>1. [i \in DOMAIN Nodes[c] |-> shown[NodePlace(ch, c, i, off, d, p.path)]]
          = [i \in DOMAIN Nodes[c] |-> direct[NodeView(f.root, c, i, to, n, off, d, p.path)]]
      BY <2>4
    <3> QED
      BY <3>1 DEF ClassRows, Within, NodeView
  <2>6. Formatted(shown, p) = <<r>> \o rest
    BY <1>6, FormattedIs
  <2>7. ViewedPointer(expand, v)
    BY <1>6, SameOpen
  <2>8. Plainly(mem, expand, direct, v) =
            <<PlainRow(mem, v)>>
            \o Within(direct, v.root, v.kind.cls, to, n, off, v.depth + 1, v.path)
    BY <2>7, PlainlyIs
  <2>9. Within(direct, v.root, v.kind.cls, to, n, off, v.depth + 1, v.path) = rest
    <3> HIDE DEF v, rest, f, to, n, off
    <3> QED
      BY <1>2, <2>5
  <2> HIDE DEF v, rest, r, to, n
  <2> QED
    BY <1>3, <2>6, <2>8, <2>9 DEF v
<1>7. CASE ~OpenInstance(p) /\ ~OpenArray(p) /\ ~OpenPointer(p)
  <2>1. ~ViewedInstance(expand, v) /\ ~ViewedArray(expand, v) /\ ~ViewedPointer(expand, v)
    BY <1>7, SameOpen
  <2>2. Formatted(shown, p) = IF OpenText(p) THEN <<TextRow(p)>> ELSE <<r>>
    <3>1. OpenText(p) => Formatted(shown, p) = <<TextRow(p)>>
      BY FormattedIs DEF TextRow
    <3>2. ~OpenText(p) => Formatted(shown, p) = <<r>>
      BY <1>7, FormattedIs DEF Closed
    <3> QED
      BY <3>1, <3>2
  <2>3. Plainly(mem, expand, direct, v) =
            IF ViewedText(mem, v) THEN <<ViewText(mem, v)>> ELSE <<PlainRow(mem, v)>>
    <3>1. ViewedText(mem, v) => Plainly(mem, expand, direct, v) = <<ViewText(mem, v)>>
      BY PlainlyText
    <3>2. ~ViewedText(mem, v) => Plainly(mem, expand, direct, v) = <<PlainRow(mem, v)>>
      BY <2>1, PlainlyClosed DEF ViewedClosed
    <3> QED
      BY <3>1, <3>2
  <2>4. CASE p.kind.tag = "text"
    <3>1. (IF OpenText(p) THEN TextRow(p) ELSE r)
          = IF ViewedText(mem, v) THEN ViewText(mem, v) ELSE PlainRow(mem, v)
      BY <2>4, SameText
    <3> HIDE DEF r, v
    <3> QED
      BY <2>2, <2>3, <3>1 DEF v
  <2>5. CASE p.kind.tag # "text"
    <3>1. ~OpenText(p) /\ ~ViewedText(mem, v)
      BY <1>2, <2>5 DEF OpenText, ViewedText
    <3> HIDE DEF r, v
    <3> QED
      BY <1>3, <2>2, <2>3, <3>1 DEF v
  <2> QED
    BY <2>4, <2>5
<1> QED
  BY <1>4, <1>5, <1>6, <1>7

\* And so is every place.
LEMMA AllSame ==
    ASSUME SnapTypes, Complete, Len(seen) = 1, NEW p \in Place, PlaceFits(p)
    PROVE  KindRows[p] = Direct(mem, expand)[ViewOf(p)]
<1> DEFINE under  == [x \in Place |-> PlacesUnder(x)]
           direct == Direct(mem, expand)
           S      == {x \in Place : PlaceFits(x) => KindRows[x] = direct[ViewOf(x)]}
<1>1. Grounded(Place, under)
  BY PlacesGrounded
<1>2. mem \in Images /\ expand \in Expansions
  BY DEF SnapTypes
<1>3. \A v \in View(mem) : direct[v] = Plainly(mem, expand, direct, v)
  BY <1>2, DirectIs
<1> HIDE DEF direct
<1>4. ASSUME NEW x \in Place, \A q \in under[x] : q \in S PROVE x \in S
  <2>1. SUFFICES ASSUME PlaceFits(x) PROVE KindRows[x] = direct[ViewOf(x)]
    OBVIOUS
  <2>2. ASSUME NEW q \in PlacesUnder(x) PROVE KindRows[q] = direct[ViewOf(q)]
    <3>1. PlaceFits(q)
      BY <2>1, FitsUnder
    <3>2. q \in S
      BY <1>4
    <3> QED
      BY <3>1, <3>2
  <2>3. Formatted(KindRows, x) = Plainly(mem, expand, direct, ViewOf(x))
    BY <2>1, <2>2, SameUp
  <2>4. KindRows[x] = Formatted(KindRows, x)
    BY KindRowsIs
  <2>5. ViewOf(x) \in View(mem)
    BY ViewOfType
  <2> QED
    BY <1>3, <2>3, <2>4, <2>5
<1>5. Place \subseteq S
  <2> HIDE DEF S, under
  <2> QED
    BY <1>1, <1>4, GroundUp
<1> QED
  BY <1>5 DEF direct

LEMMA FormatExact ==
    ASSUME SnapTypes, TreeOK, Complete, Format
    PROVE  StillTargetExact'
<1> SUFFICES ASSUME Len(seen) = 1 PROVE rows' = RowsOf(mem, expand)
  BY DEF Format, StillTargetExact
<1> DEFINE direct == Direct(mem, expand)
           shown(r) == ClassRows(KindRows, r, frames[r].cls, 0, 0, <<>>)
           plain(r) == LET c == Roots[r].cls
                           b == Roots[r].base
                       IN  Within(direct, r, c, b, Reach(mem, b, Capped(SizeOf(c))), 0, 0, <<>>)
<1>1. rows' = Concat(Len(Roots), [r \in DOMAIN Roots |-> shown(r)])
  BY DEF Format
<1>2. RowsOf(mem, expand) = Concat(Len(Roots), [r \in DOMAIN Roots |-> plain(r)])
  BY DEF RowsOf
<1>3. ASSUME NEW r \in DOMAIN Roots PROVE shown(r) = plain(r)
  <2> DEFINE f    == frames[r]
             c    == f.cls
             len  == Extent(f)
             off  == 0
             path == <<>>
  <2>1. /\ r \in DOMAIN frames /\ r \in 1 .. Len(frames)
        /\ c = Roots[r].cls /\ f.base = Roots[r].base /\ f.root = r /\ f.text = 0
    BY RootFrame, Counts
  <2>2. f \in FrameType /\ IsRead(seen, f)
    BY <2>1 DEF Complete
  <2>3. Reach(mem, f.base, ReadLength(f)) = len
    BY <2>2, StillFrame
  <2>4. ReadLength(f) = Capped(SizeOf(c))
    <3> HIDE DEF f
    <3> QED
      BY <2>1 DEF ReadLength, IsText
  <2>5. plain(r) = Within(direct, r, c, f.base, len, off, off, path)
    <3> HIDE DEF f, len, direct
    <3> QED
      BY <2>1, <2>3, <2>4
  <2>6. ASSUME NEW i \in DOMAIN Nodes[c]
        PROVE  KindRows[NodePlace(r, c, i, off, off, path)]
               = direct[NodeView(r, c, i, f.base, len, off, off, path)]
    <3> DEFINE q == NodePlace(r, c, i, off, off, path)
    <3>1. q \in Place /\ PlaceFits(q)
      BY RootPlace
    <3> HIDE DEF f, c, len, off, path, direct
    <3>2. /\ q.fi = r /\ q.kind = Nodes[c][i] /\ q.off = off + Offsets[c][i]
          /\ q.local = Offsets[c][i] /\ q.depth = off /\ q.path = Append(path, i - 1)
      BY DEF NodePlace
    <3>3. ViewOf(q) = NodeView(r, c, i, f.base, len, off, off, path)
      <4> HIDE DEF q
      <4> QED
        BY <2>1, <3>2 DEF ViewOf, NodeView, f, len
    <3> HIDE DEF q
    <3>4. KindRows[q] = direct[ViewOf(q)]
      BY <3>1, AllSame DEF direct
    <3> QED
      BY <3>3, <3>4 DEF q
  <2>7. shown(r) = ClassRows(KindRows, r, c, off, off, path)
    OBVIOUS
  <2>8. ClassRows(KindRows, r, c, off, off, path)
        = Within(direct, r, c, f.base, len, off, off, path)
    <3> HIDE DEF f, c, len, off, path, direct
    <3>1. [i \in DOMAIN Nodes[c] |-> KindRows[NodePlace(r, c, i, off, off, path)]]
          = [i \in DOMAIN Nodes[c] |->
                direct[NodeView(r, c, i, f.base, len, off, off, path)]]
      BY <2>6
    <3> QED
      BY <3>1 DEF ClassRows, Within, NodeView
  <2> HIDE DEF shown, plain
  <2> QED
    BY <2>5, <2>7, <2>8
<1>4. [r \in DOMAIN Roots |-> shown(r)] = [r \in DOMAIN Roots |-> plain(r)]
  <2> HIDE DEF shown, plain
  <2> QED
    BY <1>3
<1> HIDE DEF shown, plain
<1> QED
  BY <1>1, <1>2, <1>4

LEMMA FormatStep ==
    ASSUME SnapInv, Format
    PROVE  SnapInv'
<1>1. /\ phase = "discover" /\ WaveSpecs = <<>> /\ phase' = "done"
      /\ mem' = mem /\ seen' = seen /\ expand' = expand /\ frames' = frames /\ wave' = wave
      /\ at' = at /\ have' = have /\ levels' = levels
  BY DEF Format
<1>2. Complete /\ ReadCount = Len(frames)
  BY <1>1, TreeComplete, AllFilled
<1>3. NothingMadeUp' /\ StillTargetExact' /\ rows' \in Seq(RowType) /\ Hanging(rows')
  BY <1>2, FormatSound, FormatExact DEF SnapInv
<1>4. Older' = Older /\ ReadCount' = ReadCount
  BY <1>1, <1>2 DEF Older, ReadCount, OneByOne
<1>5. SnapTypes'
  BY <1>1, <1>4 DEF SnapInv, SnapTypes, OneByOne
<1>6. FramesRead'
  BY <1>1, <1>4 DEF SnapInv, FramesRead
<1>7. TreeOK'
  BY <1>1, <1>4 DEF SnapInv, TreeOK
<1>8. RowsOK'
  BY <1>1, <1>3 DEF RowsOK, RowsTrue
<1> QED
  BY <1>5, <1>6, <1>7, <1>8 DEF SnapInv

-----------------------------------------------------------------------------
(* The filter over the rows.                                               *)

Accs(n) == [keep : SUBSET (1 .. n), needed : Nat]

\* The backward pass, row by row.
LEMMA PassSteps ==
    ASSUME NEW list \in Seq(RowType), NEW query, query # NoQuery
    PROVE  LET n == Len(list)
           IN  \E f \in [0 .. n -> Accs(n)] :
                   /\ f[0] = [keep |-> {}, needed |-> 0]
                   /\ f[n].keep = FilterRows(list, query)
                   /\ \A k \in 1 .. n : f[k] = Kept(f[k - 1], list[n - k + 1], n - k + 1, query)
<1> DEFINE n     == Len(list)
           P     == 0 .. n
           X     == Accs(n)
           none  == [keep |-> {}, needed |-> 0]
           under == [k \in P |-> IF k = 0 THEN {} ELSE {k - 1}]
           G     == [F \in [P -> X] |->
                        [k \in P |-> IF k = 0 THEN none
                                     ELSE Kept(F[k - 1], list[n - k + 1], n - k + 1, query)]]
<1>1. n \in Nat /\ \A k \in P : k # 0 => /\ k - 1 \in P /\ n - k + 1 \in 1 .. n
                                        /\ list[n - k + 1] \in RowType
  <2>1. n \in Nat /\ \A i \in 1 .. n : list[i] \in RowType
    OBVIOUS
  <2> HIDE DEF n
  <2> QED
    BY <2>1
<1>2. Grounded(P, under)
  <2>1. under \in [P -> SUBSET P]
    BY <1>1
  <2>2. ASSUME NEW T \in SUBSET P, T # {} PROVE \E p \in T : under[p] \cap T = {}
    <3>1. PICK p \in T : \A y \in T : p <= y
      BY <2>2, LeastNatural
    <3>2. p \in P /\ ~(p <= p - 1)
      OBVIOUS
    <3> QED
      BY <3>1, <3>2
  <2> QED
    BY <2>1, <2>2 DEF Grounded
<1>3. none \in X /\ X # {}
  <2>1. none \in X
    BY DEF Accs
  <2> HIDE DEF X, none
  <2> QED
    BY <2>1
<1>4. ASSUME NEW acc \in X, NEW i \in 1 .. n, NEW row \in RowType
      PROVE Kept(acc, row, i, query) \in X
  BY <1>1, <1>4 DEF Accs, Kept, RowType
<1>5. Local(P, X, under, G)
  <2>1. ASSUME NEW F \in [P -> X], NEW k \in P
        PROVE  (IF k = 0 THEN none ELSE Kept(F[k - 1], list[n - k + 1], n - k + 1, query)) \in X
    <3>1. CASE k = 0
      BY <1>3, <3>1
    <3>2. CASE k # 0
      <4>1. k - 1 \in P /\ n - k + 1 \in 1 .. n /\ list[n - k + 1] \in RowType
        BY <1>1, <3>2
      <4>2. F[k - 1] \in X
        BY <4>1
      <4> HIDE DEF X, P, n
      <4>3. Kept(F[k - 1], list[n - k + 1], n - k + 1, query) \in X
        BY <1>4, <4>1, <4>2
      <4> QED
        BY <3>2, <4>3
    <3> QED
      BY <3>1, <3>2
  <2>2. G \in [[P -> X] -> [P -> X]]
    <3> HIDE DEF X, P, none, n
    <3> QED
      BY <2>1
  <2>3. \A F, H \in [P -> X], p \in P :
            (\A q \in under[p] : F[q] = H[q]) => G[F][p] = G[H][p]
    <3> HIDE DEF X, n, none
    <3> QED
      OBVIOUS
  <2> QED
    BY <2>2, <2>3 DEF Local
<1>6. PICK f \in [P -> X] : f = G[f]
  <2> HIDE DEF P, X, under, G
  <2> QED
    BY <1>2, <1>3, <1>5, Defined DEF HasFixpoint
<1> DEFINE pass[k \in 0 .. n] ==
               IF k = 0 THEN [keep |-> {}, needed |-> 0]
               ELSE Kept(pass[k - 1], list[n - k + 1], n - k + 1, query)
<1>7. f = [k \in 0 .. n |-> IF k = 0 THEN none ELSE Kept(f[k - 1], list[n - k + 1], n - k + 1, query)]
  <2> HIDE DEF X, n, none
  <2> QED
    BY <1>6
<1>8. pass = [k \in 0 .. n |-> IF k = 0 THEN none
                               ELSE Kept(pass[k - 1], list[n - k + 1], n - k + 1, query)]
  <2> HIDE DEF n
  <2> QED
    BY <1>7
<1>9. FilterRows(list, query) = pass[n].keep
  BY DEF FilterRows
<1> HIDE DEF pass, X, none, n
<1>10. \A k \in P : /\ pass[k] = IF k = 0 THEN none
                                 ELSE Kept(pass[k - 1], list[n - k + 1], n - k + 1, query)
                    /\ f[k] = IF k = 0 THEN none
                              ELSE Kept(f[k - 1], list[n - k + 1], n - k + 1, query)
  BY <1>7, <1>8
<1>11. \A k \in P : pass[k] = f[k]
  <2> DEFINE S == {k \in P : pass[k] = f[k]}
  <2>1. 0 \in S
    BY <1>1, <1>10
  <2>2. \A k \in 1 .. n : k - 1 \in S => k \in S
    <3> SUFFICES ASSUME NEW k \in 1 .. n, pass[k - 1] = f[k - 1] PROVE pass[k] = f[k]
      OBVIOUS
    <3>1. k \in P /\ k # 0
      BY <1>1
    <3> QED
      BY <1>10, <3>1
  <2> HIDE DEF S
  <2>3. \A k \in 0 .. n : k \in S
    BY <1>1, <2>1, <2>2, UpTo
  <2> QED
    BY <2>3 DEF S
<1>12. /\ f[0] = none /\ f[n].keep = FilterRows(list, query)
       /\ \A k \in 1 .. n : f[k] = Kept(f[k - 1], list[n - k + 1], n - k + 1, query)
  BY <1>1, <1>9, <1>10, <1>11
<1> QED
  BY <1>12 DEF none, n, X

\* After the rows from m on: those of them that are wanted are kept, and what
\* is owed is the depth of the first of these.
PassedFrom(list, m, acc, query) ==
    /\ acc.keep = {i \in m .. Len(list) : Belongs(list, i, query)}
    /\ acc.keep = {} => acc.needed = 0
    /\ \A q \in acc.keep : (\A i \in acc.keep : q <= i) => acc.needed = list[q].depth

\* What is under a row that is under another is under that too.
LEMMA UnderWithin ==
    ASSUME NEW list \in Seq(RowType), NEW k \in 1 .. Len(list), NEW q \in Under(list, k)
    PROVE  Under(list, q) \cup {q} \subseteq Under(list, k)
<1> DEFINE n == Len(list)
           d(i) == list[i].depth
<1>1. n \in Nat /\ k \in 1 .. n /\ \A i \in 1 .. n : d(i) \in Nat
  <2>1. n \in Nat /\ k \in 1 .. n /\ \A i \in 1 .. n : list[i] \in RowType
    OBVIOUS
  <2>2. \A r \in RowType : r.depth \in Nat
    BY DEF RowType
  <2> HIDE DEF n
  <2> QED
    BY <2>1, <2>2
<1>2. q \in k + 1 .. n /\ \A i \in k + 1 .. q : d(i) > d(k)
  BY DEF Under
<1>3. ASSUME NEW j \in Under(list, q) PROVE j \in Under(list, k)
  <2>1. j \in q + 1 .. n /\ \A i \in q + 1 .. j : d(i) > d(q)
    BY DEF Under
  <2>2. ASSUME NEW i \in k + 1 .. j PROVE d(i) > d(k)
    <3>1. i \in 1 .. n /\ (i \in k + 1 .. q \/ i \in q + 1 .. j) /\ q \in k + 1 .. q /\ q \in 1 .. n
      BY <1>1, <1>2, <2>1
    <3> QED
      BY <1>1, <1>2, <2>1, <3>1
  <2>3. j \in k + 1 .. n
    BY <1>1, <1>2, <2>1
  <2> QED
    BY <2>2, <2>3 DEF Under
<1> QED
  BY <1>3

LEMMA BelongsAbove ==
    ASSUME NEW list \in Seq(RowType), NEW query, NEW k \in 1 .. Len(list), NEW q \in Under(list, k),
           Belongs(list, q, query)
    PROVE  Belongs(list, k, query)
<1>1. PICK j \in Under(list, q) \cup {q} : Matches(list[j], query)
  BY DEF Belongs
<1>2. j \in Under(list, k)
  BY UnderWithin
<1> QED
  BY <1>1, <1>2 DEF Belongs

\* A row above the first of those that are kept has it below itself just when
\* it is less deep: what lies between, and is less deep too, would be kept.
LEMMA OwedAbove ==
    ASSUME NEW list \in Seq(RowType), NEW query, NEW m \in 1 .. Len(list), NEW acc,
           PassedFrom(list, m + 1, acc, query)
    PROVE  (\E j \in Under(list, m) : Matches(list[j], query)) <=> list[m].depth < acc.needed
<1> DEFINE n == Len(list)
           d(i) == list[i].depth
<1>1. /\ n \in Nat /\ m \in Nat /\ m \in 1 .. n
      /\ \A i \in 1 .. n : list[i] \in RowType /\ d(i) \in Nat
  <2>1. n \in Nat /\ \A i \in 1 .. n : list[i] \in RowType
    OBVIOUS
  <2>2. m \in 1 .. n
    OBVIOUS
  <2>3. \A r \in RowType : r.depth \in Nat
    BY DEF RowType
  <2> HIDE DEF n
  <2>4. m \in Nat
    BY <2>1, <2>2
  <2> QED
    BY <2>1, <2>2, <2>3, <2>4
<1>2. acc.keep = {i \in m + 1 .. n : Belongs(list, i, query)}
  BY DEF PassedFrom
<1> HIDE DEF n
<1>3. CASE acc.keep = {}
  <2>1. acc.needed = 0
    BY <1>3 DEF PassedFrom
  <2>2. ASSUME NEW j \in Under(list, m), Matches(list[j], query) PROVE FALSE
    <3>1. j \in m + 1 .. n
      BY DEF Under, n
    <3>2. Belongs(list, j, query)
      BY <2>2 DEF Belongs
    <3> QED
      BY <1>2, <1>3, <3>1, <3>2
  <2> QED
    BY <1>1, <2>1, <2>2
<1>4. CASE acc.keep # {}
  <2>1. PICK q \in acc.keep : \A i \in acc.keep : q <= i
    <3>1. acc.keep \in SUBSET Nat
      BY <1>1, <1>2
    <3> QED
      BY <1>4, <3>1, LeastNatural
  <2>2. acc.needed = d(q) /\ q \in m + 1 .. n /\ Belongs(list, q, query) /\ q \in 1 .. n
    BY <1>1, <1>2, <2>1 DEF PassedFrom
  <2>3. ASSUME NEW j \in Under(list, m), Matches(list[j], query) PROVE d(m) < d(q)
    <3>1. j \in m + 1 .. n /\ \A k \in m + 1 .. j : d(k) > d(m)
      BY DEF Under, n
    <3>2. j \in acc.keep
      BY <1>2, <2>3, <3>1 DEF Belongs
    <3>3. q \in m + 1 .. j
      BY <1>1, <2>1, <2>2, <3>1, <3>2
    <3> QED
      BY <1>1, <2>2, <3>1, <3>3
  <2>4. ASSUME d(m) < d(q) PROVE \E j \in Under(list, m) : Matches(list[j], query)
    <3> DEFINE L == {k \in m .. q - 1 : d(k) < d(q)}
    <3>1. PICK k \in L : \A i \in k + 1 .. q - 1 : d(i) >= d(q)
      <4> DEFINE B == {q - i : i \in L}
      <4>1. B \in SUBSET Nat /\ q - m \in B
        BY <1>1, <2>2, <2>4
      <4>2. PICK b \in B : \A y \in B : b <= y
        <5> HIDE DEF B
        <5> QED
          BY <4>1, LeastNatural
      <4>3. PICK k \in L : b = q - k
        BY <4>2
      <4>4. ASSUME NEW i \in k + 1 .. q - 1 PROVE d(i) >= d(q)
        <5>1. i \in m .. q - 1 /\ i \in 1 .. n /\ q - i < q - k
          BY <1>1, <2>2, <4>3
        <5>2. ASSUME i \in L PROVE FALSE
          <6>1. b <= q - i
            BY <4>2, <5>2
          <6> QED
            BY <1>1, <2>2, <4>3, <5>1, <6>1
        <5>3. ~(d(i) < d(q))
          BY <5>1, <5>2
        <5>4. d(i) \in Nat /\ d(q) \in Nat
          BY <1>1, <2>2, <5>1
        <5> HIDE DEF d
        <5> QED
          BY <5>3, <5>4
      <4> QED
        BY <4>3, <4>4
    <3>2. k \in m .. q - 1 /\ d(k) < d(q) /\ k \in 1 .. n
      BY <1>1, <2>2, <3>1
    <3>3. \A i \in k + 1 .. q : d(i) > d(k)
      <4> SUFFICES ASSUME NEW i \in k + 1 .. q PROVE d(i) > d(k)
        OBVIOUS
      <4>1. i \in 1 .. n /\ (i = q \/ i \in k + 1 .. q - 1)
        BY <1>1, <2>2, <3>2
      <4> QED
        BY <1>1, <2>2, <3>1, <3>2, <4>1
    <3>4. q \in Under(list, k) /\ k \in 1 .. Len(list)
      BY <1>1, <2>2, <3>2, <3>3 DEF Under, n
    <3> HIDE DEF L
    <3>5. Belongs(list, k, query)
      BY <2>2, <3>4, BelongsAbove
    <3>6. k = m
      <4>1. k # m => k \in m + 1 .. n
        BY <1>1, <2>2, <3>2
      <4>2. k # m => q <= k
        BY <1>2, <2>1, <3>5, <4>1
      <4> QED
        BY <1>1, <2>2, <3>2, <4>2
    <3>7. \E j \in Under(list, q) \cup {q} : Matches(list[j], query)
      BY <2>2 DEF Belongs
    <3>8. Under(list, q) \cup {q} \subseteq Under(list, k)
      BY <3>4, UnderWithin
    <3> QED
      BY <3>6, <3>7, <3>8
  <2>5. (\E j \in Under(list, m) : Matches(list[j], query)) <=> d(m) < d(q)
    <3> HIDE DEF d
    <3> QED
      BY ONLY <2>3, <2>4, Zenon
  <2> QED
    BY <2>2, <2>5
<1> QED
  BY <1>3, <1>4

\* The filter leaves the rows that match and those above them that they are
\* reached through, and no others: one pass backwards with one number finds
\* them, in any list of rows (search.rs).
THEOREM FilterKeeps ==
    ASSUME NEW list \in Seq(RowType), NEW query, query # NoQuery
    PROVE  FilterRows(list, query) = {i \in DOMAIN list : Belongs(list, i, query)}
<1> DEFINE n == Len(list)
<1>1. n \in Nat /\ DOMAIN list = 1 .. n /\ \A i \in 1 .. n : list[i] \in RowType
  OBVIOUS
<1>2. PICK f \in [0 .. n -> Accs(n)] :
          /\ f[0] = [keep |-> {}, needed |-> 0]
          /\ f[n].keep = FilterRows(list, query)
          /\ \A k \in 1 .. n : f[k] = Kept(f[k - 1], list[n - k + 1], n - k + 1, query)
  BY PassSteps
<1> DEFINE S == {k \in 0 .. n : PassedFrom(list, n - k + 1, f[k], query)}
<1>3. 0 \in S
  BY <1>1, <1>2 DEF PassedFrom
<1>4. ASSUME NEW k \in 1 .. n, k - 1 \in S PROVE k \in S
  <2> DEFINE m   == n - k + 1
             acc == f[k - 1]
  <2>1. m \in 1 .. n /\ n - (k - 1) + 1 = m + 1 /\ k \in 0 .. n /\ k - 1 \in 0 .. n
    BY <1>1
  <2>2. PassedFrom(list, m + 1, acc, query) /\ f[k] = Kept(acc, list[m], m, query) /\ acc \in Accs(n)
    BY <1>2, <1>4, <2>1
  <2> HIDE DEF m, acc
  <2>3. Belongs(list, m, query) <=> Matches(list[m], query) \/ list[m].depth < acc.needed
    BY <2>1, <2>2, OwedAbove DEF Belongs
  <2>4. acc.keep = {i \in m + 1 .. n : Belongs(list, i, query)}
    BY <2>2 DEF PassedFrom
  <2>5. PassedFrom(list, m, f[k], query)
    <3>1. CASE Belongs(list, m, query)
      <4>1. f[k] = [keep |-> acc.keep \cup {m}, needed |-> list[m].depth]
        BY <2>2, <2>3, <3>1 DEF Kept
      <4>2. acc.keep \cup {m} = {i \in m .. n : Belongs(list, i, query)}
        BY <1>1, <2>1, <2>4, <3>1
      <4>3. \A q \in acc.keep : ~(q <= m)
        BY <1>1, <2>1, <2>4
      <4> QED
        BY <1>1, <4>1, <4>2, <4>3 DEF PassedFrom
    <3>2. CASE ~Belongs(list, m, query)
      <4>1. f[k] = acc
        BY <2>2, <2>3, <3>2 DEF Kept
      <4>2. acc.keep = {i \in m .. n : Belongs(list, i, query)}
        BY <1>1, <2>1, <2>4, <3>2
      <4> QED
        BY <2>2, <4>1, <4>2 DEF PassedFrom
    <3> QED
      BY <3>1, <3>2
  <2> QED
    BY <2>1, <2>5 DEF m
<1>5. n \in S
  <2> HIDE DEF S
  <2>1. \A k \in 0 .. n : k \in S
    BY <1>1, <1>3, <1>4, UpTo
  <2> QED
    BY <1>1, <2>1
<1>6. n - n + 1 = 1
  BY <1>1
<1> QED
  BY <1>1, <1>2, <1>5, <1>6 DEF PassedFrom

\* In a tree rendered flat a row that is not at the top has one it hangs from.
LEMMA TreeParent ==
    ASSUME NEW list \in Seq(RowType), Hanging(list), NEW i \in DOMAIN list, list[i].depth > 0
    PROVE  \E k \in DOMAIN list : list[i].depth = list[k].depth + 1 /\ i \in Under(list, k)
<1> DEFINE n == Len(list)
           d(j) == list[j].depth
<1>1. n \in Nat /\ DOMAIN list = 1 .. n /\ i \in 1 .. n
      /\ d(i) > 0 /\ \A j \in 1 .. n : d(j) \in Nat
  <2>1. n \in Nat /\ DOMAIN list = 1 .. n /\ i \in 1 .. n /\ \A j \in 1 .. n : list[j] \in RowType
    OBVIOUS
  <2>2. \A r \in RowType : r.depth \in Nat
    BY DEF RowType
  <2> HIDE DEF n
  <2> QED
    BY <2>1, <2>2
<1> HIDE DEF n
<1>2. d(1) <= 0 /\ \A j \in 2 .. n : d(j) <= d(j - 1) + 1
  <2>1. \A j \in 1 .. n : d(j) > 0 => j > 1 /\ d(j) <= d(j - 1) + 1
    BY <1>1 DEF Hanging
  <2>2. /\ 1 \in 1 .. n /\ d(1) \in Nat
        /\ \A j \in 2 .. n : j \in 1 .. n /\ d(j) \in Nat /\ j - 1 \in 1 .. n /\ d(j - 1) \in Nat
    BY <1>1
  <2> HIDE DEF d
  <2>3. d(1) <= 0
    BY <2>1, <2>2
  <2>4. ASSUME NEW j \in 2 .. n PROVE d(j) <= d(j - 1) + 1
    <3>1. j \in 1 .. n /\ d(j) \in Nat /\ d(j - 1) \in Nat
      BY <2>2
    <3>2. CASE d(j) > 0
      BY <2>1, <3>1, <3>2
    <3>3. CASE d(j) = 0
      BY <3>1, <3>3
    <3> QED
      BY <3>1, <3>2, <3>3
  <2> QED
    BY <2>3, <2>4
<1> DEFINE L == {k \in 1 .. i - 1 : d(k) < d(i)}
<1>3. PICK k \in L : \A j \in k + 1 .. i - 1 : d(j) >= d(i)
  <2> DEFINE B == {i - k : k \in L}
  <2>1. B \in SUBSET Nat /\ i - 1 \in B
    <3>1. i # 1 /\ 1 \in 1 .. n
      BY <1>1, <1>2
    <3>2. 1 \in L
      BY <1>1, <1>2, <3>1
    <3> QED
      BY <1>1, <3>2
  <2>2. PICK b \in B : \A y \in B : b <= y
    <3> HIDE DEF B
    <3> QED
      BY <2>1, LeastNatural
  <2>3. PICK k \in L : b = i - k
    BY <2>2
  <2>4. ASSUME NEW j \in k + 1 .. i - 1 PROVE d(j) >= d(i)
    <3>1. j \in 1 .. i - 1 /\ j \in 1 .. n /\ i - j < i - k /\ k \in 1 .. i - 1
      BY <1>1
    <3>2. ASSUME j \in L PROVE FALSE
      <4>1. b <= i - j
        BY <2>2, <3>2
      <4> QED
        BY <1>1, <2>3, <3>1, <4>1
    <3>3. ~(d(j) < d(i))
      BY <3>1, <3>2
    <3>4. d(j) \in Nat /\ d(i) \in Nat
      BY <1>1, <3>1
    <3> HIDE DEF d
    <3> QED
      BY <3>3, <3>4
  <2> QED
    BY <2>4
<1>4. k \in 1 .. n /\ k + 1 \in 2 .. n /\ (k + 1) - 1 = k /\ k + 1 \in 1 .. i
  BY <1>1
<1>5. d(k + 1) <= d(k) + 1 /\ d(k) < d(i)
  BY <1>2, <1>4
<1>6. d(k + 1) >= d(i)
  <2>1. k + 1 = i \/ k + 1 \in k + 1 .. i - 1
    BY <1>1, <1>4
  <2> QED
    BY <1>1, <1>3, <2>1
<1>7. d(i) = d(k) + 1
  BY <1>1, <1>4, <1>5, <1>6
<1>8. i \in Under(list, k)
  <2>1. \A j \in k + 1 .. i : d(j) > d(k)
    <3> SUFFICES ASSUME NEW j \in k + 1 .. i PROVE d(j) > d(k)
      OBVIOUS
    <3>1. j \in 1 .. n /\ (j = i \/ j \in k + 1 .. i - 1)
      BY <1>1, <1>4
    <3> QED
      BY <1>1, <1>3, <1>4, <1>5, <3>1
  <2>2. i \in k + 1 .. n
    BY <1>1, <1>4
  <2> QED
    BY <2>1, <2>2 DEF Under, n
<1> QED
  BY <1>1, <1>4, <1>7, <1>8

\* The rows of a view hang together as those of all views do.
LEMMA OfViewIs ==
    ASSUME NEW list \in Seq(RowType), Hanging(list), NEW v
    PROVE  OfView(list, v) \in Seq(RowType) /\ Hanging(OfView(list, v))
<1> DEFINE n     == Len(list)
           P     == 0 .. n
           X     == Seq(RowType)
           next(s, k) == IF list[k].root = v THEN Append(s, list[k]) ELSE s
           under == [k \in P |-> IF k = 0 THEN {} ELSE {k - 1}]
           G     == [F \in [P -> X] |-> [k \in P |-> IF k = 0 THEN <<>> ELSE next(F[k - 1], k)]]
<1>1. n \in Nat /\ \A k \in P : k # 0 => k - 1 \in P /\ k \in 1 .. n /\ list[k] \in RowType
  <2>1. n \in Nat /\ \A k \in 1 .. n : list[k] \in RowType
    OBVIOUS
  <2> HIDE DEF n
  <2> QED
    BY <2>1
<1>2. Grounded(P, under)
  <2>1. under \in [P -> SUBSET P]
    BY <1>1
  <2>2. ASSUME NEW T \in SUBSET P, T # {} PROVE \E p \in T : under[p] \cap T = {}
    <3>1. PICK p \in T : \A y \in T : p <= y
      BY <2>2, LeastNatural
    <3>2. p \in P /\ ~(p <= p - 1)
      OBVIOUS
    <3> QED
      BY <3>1, <3>2
  <2> QED
    BY <2>1, <2>2 DEF Grounded
<1>3. <<>> \in X /\ X # {}
  OBVIOUS
<1>4. ASSUME NEW s \in X, NEW k \in 1 .. n PROVE next(s, k) \in X
  <2>1. list[k] \in RowType
    BY <1>1
  <2> QED
    BY <2>1
<1>5. Local(P, X, under, G)
  <2>1. ASSUME NEW F \in [P -> X], NEW k \in P
        PROVE  (IF k = 0 THEN <<>> ELSE next(F[k - 1], k)) \in X
    <3>1. CASE k = 0
      BY <1>3, <3>1
    <3>2. CASE k # 0
      <4>1. k \in 1 .. n /\ F[k - 1] \in X
        BY <1>1, <3>2
      <4> HIDE DEF X, P, n, next
      <4> QED
        BY <1>4, <3>2, <4>1
    <3> QED
      BY <3>1, <3>2
  <2>2. G \in [[P -> X] -> [P -> X]]
    <3> HIDE DEF X, P, n, next
    <3> QED
      BY <2>1
  <2>3. \A F, H \in [P -> X], p \in P : (\A q \in under[p] : F[q] = H[q]) => G[F][p] = G[H][p]
    <3> HIDE DEF X, n, next
    <3> QED
      OBVIOUS
  <2> QED
    BY <2>2, <2>3 DEF Local
<1>6. PICK f \in [P -> X] : f = G[f]
  <2> HIDE DEF P, X, under, G
  <2> QED
    BY <1>2, <1>3, <1>5, Defined DEF HasFixpoint
<1> DEFINE found[k \in 0 .. Len(list)] ==
               IF k = 0 THEN <<>>
               ELSE IF list[k].root = v THEN Append(found[k - 1], list[k]) ELSE found[k - 1]
<1>7. f = [k \in 0 .. n |-> IF k = 0 THEN <<>> ELSE next(f[k - 1], k)]
  <2> HIDE DEF X, n, next
  <2> QED
    BY <1>6
<1>8. found = [k \in 0 .. n |-> IF k = 0 THEN <<>> ELSE next(found[k - 1], k)]
  BY <1>7
<1>9. OfView(list, v) = found[n]
  BY DEF OfView
<1> HIDE DEF found, X, n, next
<1>10. /\ found[0] = <<>> /\ f[0] = <<>>
       /\ \A k \in 1 .. n : found[k] = next(found[k - 1], k) /\ f[k] = next(f[k - 1], k)
  BY <1>1, <1>7, <1>8
<1> DEFINE S == {k \in P : /\ found[k] = f[k] /\ Hanging(found[k])
                           /\ k > 0 /\ list[k].root = v =>
                                  found[k] # <<>> /\ found[k][Len(found[k])] = list[k]}
<1>11. 0 \in S
  <2>1. Hanging(<<>>)
    <3>1. DOMAIN <<>> = {}
      OBVIOUS
    <3> QED
      BY <3>1 DEF Hanging
  <2> QED
    BY <1>1, <1>10, <2>1
<1>12. ASSUME NEW k \in 1 .. n, k - 1 \in S PROVE k \in S
  <2> DEFINE s == found[k - 1]
             r == list[k]
  <2>1. k \in P /\ k - 1 \in P /\ r \in RowType /\ r.depth \in Nat
    BY <1>1 DEF RowType
  <2>2. found[k] = next(s, k) /\ f[k] = next(s, k) /\ s \in Seq(RowType) /\ Hanging(s)
    BY <1>6, <1>10, <1>12, <2>1 DEF X
  <2>3. CASE r.root # v
    BY <2>1, <2>2, <2>3 DEF next
  <2>4. CASE r.root = v
    <3>1. found[k] = Append(s, r) /\ f[k] = found[k]
      BY <2>2, <2>4 DEF next
    <3>2. ASSUME r.depth > 0
          PROVE  /\ s # <<>> /\ s[Len(s)].root = r.root /\ r.depth <= s[Len(s)].depth + 1
      <4>1. k > 1 /\ list[k - 1].root = r.root /\ r.depth <= list[k - 1].depth + 1
        <5>1. k \in DOMAIN list
          BY DEF n
        <5> QED
          BY <3>2, <5>1 DEF Hanging
      <4>2. s # <<>> /\ s[Len(s)] = list[k - 1]
        BY <1>12, <2>4, <4>1
      <4> QED
        BY <4>1, <4>2
    <3> DEFINE u == Append(s, r)
               m == Len(s)
    <3>3. /\ m \in Nat /\ u \in Seq(RowType) /\ Len(u) = m + 1 /\ DOMAIN u = 1 .. m + 1
          /\ u[m + 1] = r /\ (\A i \in 1 .. m : u[i] = s[i] /\ i \in DOMAIN s)
          /\ s # <<>> => m \in 1 .. m
      BY <2>1, <2>2
    <3> HIDE DEF u, m, s, r
    <3>4. Hanging(u)
      <4> SUFFICES ASSUME NEW i \in 1 .. m + 1, u[i].depth > 0
                   PROVE  i > 1 /\ u[i - 1].root = u[i].root /\ u[i].depth <= u[i - 1].depth + 1
        BY <3>3 DEF Hanging
      <4>1. CASE i = m + 1
        <5>1. s # <<>> /\ s[m].root = r.root /\ r.depth <= s[m].depth + 1
          BY <3>2, <3>3, <4>1 DEF m
        <5> QED
          BY <3>3, <4>1, <5>1
      <4>2. CASE i # m + 1
        <5>1. i \in 1 .. m /\ u[i] = s[i]
          BY <3>3, <4>2
        <5>2. i > 1 /\ s[i - 1].root = s[i].root /\ s[i].depth <= s[i - 1].depth + 1
          BY <2>2, <3>3, <5>1 DEF Hanging
        <5>3. u[i - 1] = s[i - 1]
          BY <3>3, <5>1, <5>2
        <5> QED
          BY <5>1, <5>2, <5>3
      <4> QED
        BY <4>1, <4>2
    <3>5. u # <<>> /\ u[Len(u)] = r
      BY <3>3
    <3> QED
      BY <2>1, <3>1, <3>4, <3>5 DEF u, r
  <2> QED
    BY <2>3, <2>4
<1>13. n \in S
  <2> HIDE DEF S, P
  <2>1. \A k \in 0 .. n : k \in S
    BY <1>1, <1>11, <1>12, UpTo
  <2> QED
    BY <1>1, <2>1
<1> QED
  BY <1>6, <1>9, <1>13 DEF X

\* What the filter leaves of rows that hang together.
LEMMA BranchesKept ==
    ASSUME NEW list \in Seq(RowType), Hanging(list), NEW query
    PROVE  LET kept == FilterRows(list, query)
           IN  /\ query # NoQuery => kept = {i \in DOMAIN list : Belongs(list, i, query)}
               /\ \A i \in kept : list[i].depth > 0 =>
                      \E k \in kept : list[i].depth = list[k].depth + 1 /\ i \in Under(list, k)
<1> DEFINE kept == FilterRows(list, query)
<1>1. DOMAIN list = 1 .. Len(list)
  OBVIOUS
<1>2. query # NoQuery => kept = {i \in DOMAIN list : Belongs(list, i, query)}
  BY FilterKeeps
<1>3. query = NoQuery => kept = DOMAIN list
  BY <1>1 DEF FilterRows
<1> HIDE DEF kept
<1>4. ASSUME NEW i \in kept, list[i].depth > 0
      PROVE  \E k \in kept : list[i].depth = list[k].depth + 1 /\ i \in Under(list, k)
  <2>1. i \in DOMAIN list
    BY <1>2, <1>3
  <2>2. PICK k \in DOMAIN list : list[i].depth = list[k].depth + 1 /\ i \in Under(list, k)
    BY <1>4, <2>1, TreeParent
  <2>3. query # NoQuery => Belongs(list, k, query)
    <3>1. query # NoQuery => Belongs(list, i, query)
      BY <1>2
    <3>2. k \in 1 .. Len(list)
      BY <1>1
    <3> QED
      BY <2>2, <3>1, <3>2, BelongsAbove
  <2>4. k \in kept
    BY <1>2, <1>3, <2>3
  <2> QED
    BY <2>2, <2>4
<1> QED
  BY <1>2, <1>4 DEF kept

-----------------------------------------------------------------------------
(* The snapshot.                                                           *)

LEMMA SnapStart ==
    ASSUME SnapInit
    PROVE  SnapInv
<1> DEFINE n == Len(Roots)
           R == [cls : Classes, base : Nat]
<1>1. n \in Nat /\ DOMAIN Roots = 1 .. n
  BY TargetAssumption
<1>2. /\ mem \in Images /\ seen = <<mem>> /\ expand \in Expansions
      /\ frames = [r \in DOMAIN Roots |-> FrameAt(Roots[r].cls, Roots[r].base, 0, r, <<>>, 0)]
      /\ wave = [r \in DOMAIN Roots |-> r]
      /\ phase = "scatter" /\ at = 0 /\ have = 0 /\ levels = 0 /\ rows = <<>>
  BY DEF SnapInit
<1>3. \A r \in 1 .. n : Roots[r].cls \in Classes /\ Roots[r].base \in Nat
  <2>1. Roots \in Seq(R)
    BY TargetAssumption
  <2> HIDE DEF R
  <2>2. \A r \in 1 .. n : Roots[r] \in R
    BY <1>1, <2>1
  <2> QED
    BY <2>2 DEF R
<1>4. ASSUME NEW r \in 1 .. n
      PROVE  /\ frames[r] = FrameAt(Roots[r].cls, Roots[r].base, 0, r, <<>>, 0)
             /\ frames[r] \in FrameType /\ Untouched(frames[r])
  <2>1. frames[r] = FrameAt(Roots[r].cls, Roots[r].base, 0, r, <<>>, 0)
    BY <1>1, <1>2
  <2> DEFINE c == Roots[r].cls
             b == Roots[r].base
             d == 0
             p == <<>>
  <2>2. c \in Classes /\ b \in Nat /\ d \in Nat /\ p \in Paths /\ r \in DOMAIN Roots
    BY <1>1, <1>3 DEF Paths
  <2> HIDE DEF c, b, d, p
  <2>3. FrameAt(c, b, d, r, p, d) \in FrameType
    BY <2>2, FrameAtType
  <2>4. Untouched(FrameAt(c, b, d, r, p, d))
    BY DEF Untouched, FrameAt
  <2> QED
    BY <2>1, <2>3, <2>4 DEF c, b, d, p
<1> HIDE DEF n
<1>5. frames \in Seq(FrameType) /\ Len(frames) = n
  <2>1. DOMAIN frames = 1 .. n
    BY <1>1, <1>2
  <2>2. frames \in [1 .. n -> FrameType]
    BY <1>1, <1>2, <1>4, <2>1
  <2> QED
    BY <1>1, <2>2
<1>6. wave \in Seq(Nat) /\ Len(wave) = n /\ \A i \in 1 .. n : wave[i] = i
  <2>1. wave \in [1 .. n -> Nat]
    BY <1>1, <1>2
  <2> QED
    BY <1>1, <1>2, <2>1
<1>7. Older = 0 /\ ReadCount = 0
  BY <1>1, <1>2, <1>5, <1>6 DEF Older, ReadCount
<1>8. SnapTypes
  <2>1. seen \in Seq(Images) /\ seen # <<>> /\ mem = seen[Len(seen)]
    BY <1>2
  <2>2. \A i \in 1 .. Len(wave) : wave[i] = Older + i
    BY <1>6, <1>7
  <2> QED
    BY <1>1, <1>2, <1>5, <1>6, <2>1, <2>2 DEF SnapTypes, OneByOne
<1>9. FramesRead
  BY <1>2, <1>4, <1>5, <1>7 DEF FramesRead
<1>10. TreeOK
  <2>1. \A r \in 1 .. n : frames[r].children = <<>>
    BY <1>4 DEF Untouched
  <2>2. \A r \in 1 .. n :
            SameFrame(FrameAt(Roots[r].cls, Roots[r].base, 0, r, <<>>, 0), frames[r])
    BY <1>4 DEF SameFrame
  <2> QED
    BY <1>1, <1>5, <1>7, <2>1, <2>2 DEF TreeOK, n
<1>11. RowsOK
  <2>1. DOMAIN <<>> = {}
    OBVIOUS
  <2> QED
    BY <1>2, <2>1 DEF RowsOK, Hanging
<1> QED
  BY <1>8, <1>9, <1>10, <1>11 DEF SnapInv

LEMMA SnapStep ==
    ASSUME SnapInv, [SnapNext]_snapVars
    PROVE  SnapInv'
<1>1. CASE TargetMoves
  BY <1>1, TargetMovesStep
<1>2. CASE ReadScattered
  BY <1>2, ReadScatteredStep
<1>3. CASE ScatterFails
  BY <1>3, ScatterFailsStep
<1>4. CASE ReadAlone
  BY <1>4, ReadAloneStep
<1>5. CASE AloneFails
  BY <1>5, AloneFailsStep
<1>6. CASE ReadChunk
  BY <1>6, ReadChunkStep
<1>7. CASE NarrowToBytes
  BY <1>7, NarrowToBytesStep
<1>8. CASE ReadByte
  BY <1>8, ReadByteStep
<1>9. CASE ReachEnd
  BY <1>9, ReachEndStep
<1>10. CASE Descend
  BY <1>10, DescendStep
<1>11. CASE Format
  BY <1>11, FormatStep
<1>12. CASE UNCHANGED snapVars
  <2>1. /\ mem' = mem /\ seen' = seen /\ expand' = expand /\ frames' = frames /\ wave' = wave
        /\ phase' = phase /\ at' = at /\ have' = have /\ levels' = levels /\ rows' = rows
    BY <1>12 DEF snapVars
  <2>2. Older' = Older /\ ReadCount' = ReadCount /\ Current' = Current
    BY <2>1 DEF Older, ReadCount, Current
  <2>3. SnapTypes' /\ FramesRead' /\ TreeOK'
    BY <2>1, <2>2 DEF SnapInv, SnapTypes, FramesRead, TreeOK
  <2>4. (RowsTrue => RowsTrue') /\ rows' \in Seq(RowType) /\ Hanging(rows')
    BY <2>1 DEF SnapInv, RowsOK, RowsTrue, NothingMadeUp, StillTargetExact, WasThere, Below
  <2>5. RowsOK'
    BY <2>1, <2>4 DEF SnapInv, RowsOK
  <2> QED
    BY <2>3, <2>5 DEF SnapInv
<1> QED
  BY <1>1, <1>2, <1>3, <1>4, <1>5, <1>6, <1>7, <1>8, <1>9, <1>10, <1>11, <1>12
     DEF SnapNext, Engine

\* What holds of a snapshot from its first read to its last row, as long as
\* the target may move: the frames are a tree of what was found, each holds
\* what was read of the target, and those of the earlier levels have followed
\* all of their pointers.
THEOREM SnapshotInvariant == SnapSpec => []SnapInv
<1>1. SnapInit => SnapInv
  BY SnapStart
<1>2. SnapInv /\ [SnapNext]_snapVars => SnapInv'
  BY SnapStep
<1> QED
  BY <1>1, <1>2, PTL DEF SnapSpec

\* The rows of a snapshot show what was there, and all of it when the target
\* keeps still (engine.rs): for every set of classes, every memory, every
\* state of expansion and however many levels there are.
THEOREM RowsAreTrue == SnapSpec => []RowsTrue
<1>1. SnapInv => RowsTrue
  <2>1. phase # "done" /\ rows = <<>> => RowsTrue
    <3>1. DOMAIN <<>> = {}
      OBVIOUS
    <3> QED
      BY <3>1 DEF RowsTrue, NothingMadeUp, StillTargetExact
  <2> QED
    BY <2>1 DEF SnapInv, RowsOK
<1> QED
  BY <1>1, SnapshotInvariant, PTL

\* The filter leaves, of the rows of any view, just those that match and those
\* they are reached through, and each of them still hangs from the one above it
\* (engine.rs, search.rs): whatever matches, in whatever a snapshot comes to.
THEOREM SearchKeepsBranches == SnapSpec => []FilterKeepsBranches
<1>1. SnapInv => FilterKeepsBranches
  <2> SUFFICES ASSUME SnapInv, NEW v \in DOMAIN Roots, NEW query \in Queries \cup {NoQuery}
               PROVE  LET all  == OfView(rows, v)
                          kept == FilterRows(all, query)
                      IN  /\ query # NoQuery => kept = {i \in DOMAIN all : Belongs(all, i, query)}
                          /\ \A i \in kept : all[i].depth > 0 =>
                                 \E k \in kept : all[i].depth = all[k].depth + 1 /\ i \in Under(all, k)
    BY DEF FilterKeepsBranches
  <2> DEFINE all == OfView(rows, v)
  <2>1. all \in Seq(RowType) /\ Hanging(all)
    BY OfViewIs DEF SnapInv, RowsOK
  <2> HIDE DEF all
  <2>2. LET kept == FilterRows(all, query)
        IN  /\ query # NoQuery => kept = {i \in DOMAIN all : Belongs(all, i, query)}
            /\ \A i \in kept : all[i].depth > 0 =>
                   \E k \in kept : all[i].depth = all[k].depth + 1 /\ i \in Under(all, k)
    BY <2>1, BranchesKept
  <2> QED
    BY <2>2 DEF all
<1> QED
  BY <1>1, SnapshotInvariant, PTL

-----------------------------------------------------------------------------
(* A watch: what it leaves of the process, however often that touches the  *)
(* address, whatever signal comes and whenever the process dies.           *)

\* The process runs freely until the attach, under the tracer while the call
\* waits for it, and stands still, or is gone, at all other steps of the call.
Attached ==
    /\ pc = "begin" => ~traced /\ run \in {"running", "dead"} /\ pending \subseteq {"USR"}
    /\ pc \in {"attached", "poll", "reap"} =>
           traced /\ run \in {"running", "stopped", "dead"}
    /\ pc \in {"arm0", "arm7", "cont", "judge", "disarm", "detach"} =>
           run \in {"stopped", "dead", "reaped"}
    /\ run = "stopped" => traced
    /\ pc \notin {"begin", "done"} /\ run = "dead" => traced
    /\ run = "reaped" => ~traced
    /\ pc = "done" => ~traced /\ run # "stopped"

\* The register traps under the tracer only, from arming to the clean-up.
Armed ==
    /\ armed => traced /\ Alive
    /\ pc \in {"begin", "attached", "arm0", "arm7", "detach", "done"} => ~armed

\* What the tracker holds is what the process stopped for.
Held ==
    /\ run # "stopped" => stop = None
    /\ pc \in {"begin", "attached", "arm0", "arm7", "poll", "reap", "judge"} => deliver = None
    /\ pc = "judge" /\ Alive => status = stop
    /\ pc = "cont" /\ Alive /\ ~early => (deliver = "USR" <=> stop = "USR")
    /\ pc \in {"begin", "attached"} => ~early
    /\ pc \in {"arm0", "arm7"} /\ Alive /\ ~early => stop = "STOP"

\* Each hit is an access, and so is a trap that is still to be judged.
HitsCounted ==
    /\ hits <= accesses
    /\ pc \in {"attached", "arm0", "arm7"} => stop # "TRAP"
    /\ pc \in {"poll", "reap", "judge"} /\ stop = "TRAP" => hits < accesses
    /\ "TRAP" \notin pending

\* Nothing is lost and nothing is doubled up to the clean-up.
SignalsKept ==
    Alive /\ ~early /\ pc \notin {"disarm", "detach", "done"} =>
        sent = got + (IF "USR" \in pending THEN 1 ELSE 0)
                   + (IF stop = "USR" THEN 1 ELSE 0)

WatchInv == TypeOK /\ Attached /\ Armed /\ Held /\ HitsCounted /\ SignalsKept

\* The process is not traced before the call.
LEMMA WatchStart == Init => WatchInv
<1> SUFFICES ASSUME Init PROVE WatchInv
  OBVIOUS
<1>1. TypeOK
  <2>1. traced \in BOOLEAN /\ armed \in BOOLEAN /\ late \in BOOLEAN /\ early \in BOOLEAN
    BY Zenon DEF Init
  <2>2. accesses \in 0 .. MaxAccesses /\ hits \in 0 .. MaxAccesses /\ got \in Nat
    BY TrackerAssumption DEF Init
  <2>3. /\ run \in {"running", "stopped", "halted", "dead", "reaped"}
        /\ stop \in Signal /\ pending \subseteq Signal /\ sent \in {0, 1}
        /\ pc \in Phases /\ status \in Signal \cup {"exited"} /\ deliver \in Signal
    BY DEF Init, Signal, Phases, None
  <2> QED
    BY <2>1, <2>2, <2>3 DEF TypeOK
<1>2. Attached /\ Armed /\ Held /\ HitsCounted /\ SignalsKept
  BY DEF Init, Attached, Armed, Held, HitsCounted, SignalsKept, Alive, None
<1> QED
  BY <1>1, <1>2 DEF WatchInv

\* Every step of the process and of the call keeps the invariant.
LEMMA WatchStep == WatchInv /\ [Next]_vars => WatchInv'
<1> SUFFICES ASSUME WatchInv, [Next]_vars PROVE WatchInv'
  OBVIOUS
<1> USE TrackerAssumption
    DEF WatchInv, TypeOK, Attached, Armed, Held, HitsCounted, SignalsKept, Alive, Signal,
        Phases, None
<1>1. CASE Touch
  BY <1>1 DEF Touch, Goto, process, call
<1>2. CASE SendSignal
  BY <1>2 DEF SendSignal, Goto, process, call
<1>3. CASE TakeSignal
  BY <1>3 DEF TakeSignal, Goto, process, call
<1>4. CASE Die
  BY <1>4 DEF Die, Goto, process, call
<1>5. CASE Deadline
  BY <1>5 DEF Deadline, Goto, process, call
<1>6. CASE Refuse
  BY <1>6 DEF Refuse, Goto, process, call
<1>7. CASE Attach
  BY <1>7 DEF Attach, Goto, process, call
<1>8. CASE AwaitStop
  <2>1. early' = (run = "stopped" /\ stop # "STOP") /\ early' \in BOOLEAN
    BY <1>8 DEF AwaitStop
  <2>2. CASE run = "dead"
    <3>1. ~traced' /\ traced' \in BOOLEAN
      BY <1>8, <2>2 DEF AwaitStop, Reap
    <3> QED
      BY <1>8, <2>1, <2>2, <3>1 DEF AwaitStop, Reap, Goto
  <2>3. CASE run = "stopped"
    <3>1. traced' = traced
      BY <1>8, <2>3 DEF AwaitStop, Reap
    <3>2. traced' = TRUE /\ run' = run /\ status' = stop /\ pc' = "arm0"
      BY <1>8, <2>3 DEF AwaitStop, Reap, Goto
    <3>3. TypeOK' /\ Attached' /\ Armed'
      BY <1>8, <2>1, <2>3, <3>1, <3>2 DEF AwaitStop, Reap
    <3>4. Held' /\ HitsCounted'
      BY <1>8, <2>1, <2>3, <3>1, <3>2 DEF AwaitStop, Reap
    <3>5. SignalsKept'
      BY <1>8, <2>1, <2>3, <3>1, <3>2 DEF AwaitStop, Reap
    <3> QED
      BY <3>3, <3>4, <3>5
  <2> QED
    BY <1>8, <2>2, <2>3 DEF AwaitStop, Reap
<1>9. CASE PokeAddress
  BY <1>9 DEF PokeAddress, Goto, process, call
<1>10. CASE PokeRefused
  BY <1>10 DEF PokeRefused, Goto, process, call
<1>11. CASE Arm
  BY <1>11 DEF Arm, Goto, process, call
<1>12. CASE Continue
  BY <1>12 DEF Continue, Goto, process, call
<1>13. CASE ContinueFails
  BY <1>13 DEF ContinueFails, Goto, process, call
<1>14. CASE Poll
  BY <1>14 DEF Poll, Reap, Goto, process, call
<1>15. CASE Interrupt
  BY <1>15 DEF Interrupt, Goto, process, call
<1>16. CASE ReapStop
  BY <1>16 DEF ReapStop, Reap, Goto, process, call
<1>17. CASE Judge
  BY <1>17 DEF Judge, HitsNow, Goto, process, call
<1>18. CASE Disarm
  BY <1>18 DEF Disarm, Goto, process, call
<1>19. CASE Detach
  BY <1>19 DEF Detach, Goto, process, call
<1>20. CASE UNCHANGED vars
  BY <1>20 DEF vars, process, call
<1> QED
  BY <1>1, <1>2, <1>3, <1>4, <1>5, <1>6, <1>7, <1>8, <1>9, <1>10,
     <1>11, <1>12, <1>13, <1>14, <1>15, <1>16, <1>17, <1>18, <1>19, <1>20
  DEF Next, Process, Watch

\* The invariant holds in every state of every call.
THEOREM WatchInvariance == Spec => []WatchInv
<1>1. Init => WatchInv
  BY WatchStart
<1>2. WatchInv /\ [Next]_vars => WatchInv'
  BY WatchStep
<1> QED
  BY <1>1, <1>2, PTL DEF Spec

\* Every variable of the process and of the call keeps its type.
THEOREM WatchTypeCorrect == Spec => []TypeOK
<1>1. WatchInv => TypeOK
  BY DEF WatchInv
<1> QED
  BY <1>1, WatchInvariance, PTL

\* However long the process is watched, it keeps no watchpoint that would kill
\* it, and between an attach that saw its own stop and the deadline each signal
\* of others reaches it just once.
THEOREM Undisturbed == Spec => []TargetUndisturbed
<1>1. WatchInv => TargetUnharmed
  BY DEF WatchInv, Attached, Armed, TargetUnharmed
<1>2. WatchInv => SignalsForwarded
  BY DEF WatchInv, SignalsKept, SignalsForwarded
<1>3. WatchInv => TargetUndisturbed
  BY <1>1, <1>2 DEF TargetUndisturbed
<1> QED
  BY <1>3, WatchInvariance, PTL
-----------------------------------------------------------------------------
(* A value in a cell: powers and division.                                 *)

\* A recursion along the natural numbers defines a function.
Places(P) == P \subseteq Nat /\ \A i \in P : i # 0 => i - 1 \in P

Walks(P, X, a, g) ==
    {f \in [P -> X] : \A i \in P : f[i] = IF i = 0 THEN a ELSE g[i][f[i - 1]]}

LEMMA AlongNumbers ==
    ASSUME NEW P, Places(P), NEW X, NEW a \in X, NEW g \in [P -> [X -> X]]
    PROVE  Walks(P, X, a, g) # {}
<1> USE DEF Places
<1> DEFINE under == [i \in P |-> IF i = 0 THEN {} ELSE {i - 1}]
           G == [F \in [P -> X] |-> [i \in P |-> IF i = 0 THEN a ELSE g[i][F[i - 1]]]]
<1>1. Grounded(P, under)
  <2>1. under \in [P -> SUBSET P]
    OBVIOUS
  <2>2. ASSUME NEW T \in SUBSET P, T # {} PROVE \E p \in T : under[p] \cap T = {}
    <3>1. PICK p \in T : \A y \in T : p <= y
      BY <2>2, LeastNatural
    <3>2. p \in P /\ ~(p <= p - 1)
      OBVIOUS
    <3> QED
      BY <3>1, <3>2
  <2> QED
    BY <2>1, <2>2 DEF Grounded
<1>2. Local(P, X, under, G)
  <2>1. ASSUME NEW F \in [P -> X], NEW i \in P
        PROVE  (IF i = 0 THEN a ELSE g[i][F[i - 1]]) \in X
    OBVIOUS
  <2>2. G \in [[P -> X] -> [P -> X]]
    BY <2>1
  <2>3. \A F, H \in [P -> X], p \in P :
            (\A q \in under[p] : F[q] = H[q]) => G[F][p] = G[H][p]
    OBVIOUS
  <2> QED
    BY <2>2, <2>3 DEF Local
<1>3. PICK f \in [P -> X] : f = G[f]
  <2> HIDE DEF under, G
  <2>1. X # {}
    OBVIOUS
  <2> QED
    BY <1>1, <1>2, <2>1, Defined DEF HasFixpoint
<1>4. \A i \in P : f[i] = IF i = 0 THEN a ELSE g[i][f[i - 1]]
  BY <1>3
<1> QED
  BY <1>4 DEF Walks

\* The recursion of a power.
LEMMA PowerIs ==
    ASSUME NEW b \in Nat
    PROVE  /\ Power(b, 0) = 1
           /\ \A n \in Nat : Power(b, n) \in Nat /\ Power(b, n + 1) = b * Power(b, n)
<1> DEFINE g == [i \in Nat |-> [x \in Nat |-> b * x]]
           to[i \in Nat] == IF i = 0 THEN 1 ELSE b * to[i - 1]
<1>1. PICK f \in [Nat -> Nat] : \A i \in Nat : f[i] = IF i = 0 THEN 1 ELSE g[i][f[i - 1]]
  <2>1. g \in [Nat -> [Nat -> Nat]]
    OBVIOUS
  <2>2. Places(Nat) /\ 1 \in Nat
    BY DEF Places
  <2> HIDE DEF g
  <2>3. Walks(Nat, Nat, 1, g) # {}
    BY <2>1, <2>2, AlongNumbers
  <2> QED
    BY <2>3 DEF Walks
<1>2. f = [i \in Nat |-> IF i = 0 THEN 1 ELSE b * f[i - 1]]
  <2>1. \A i \in Nat : i # 0 => g[i][f[i - 1]] = b * f[i - 1]
    OBVIOUS
  <2> QED
    BY <1>1, <2>1
<1>3. to = [i \in Nat |-> IF i = 0 THEN 1 ELSE b * to[i - 1]]
  BY <1>2
<1>4. \A n \in Nat : Power(b, n) = to[n]
  BY DEF Power
<1> HIDE DEF to
<1>5. to[0] = 1 /\ \A n \in Nat : to[n + 1] = b * to[n]
  BY <1>3
<1>6. ASSUME NEW n \in Nat PROVE to[n] \in Nat
  <2> DEFINE S == {m \in Nat : to[m] \in Nat}
  <2>1. 0 \in S
    BY <1>5
  <2>2. ASSUME NEW i \in 1 .. n, i - 1 \in S PROVE i \in S
    <3>1. to[i - 1 + 1] = b * to[i - 1]
      BY <1>5, <2>2
    <3> QED
      BY <2>2, <3>1
  <2>3. \A i \in 1 .. n : i - 1 \in S => i \in S
    BY <2>2
  <2> HIDE DEF S
  <2>4. n \in S
    BY <2>1, <2>3, UpTo
  <2> QED
    BY <2>4 DEF S
<1> QED
  BY <1>4, <1>5, <1>6

\* A power is no less than one, and more than its exponent.
LEMMA PowerGrows ==
    ASSUME NEW b \in Nat, b >= 2, NEW n \in Nat
    PROVE  n < Power(b, n)
<1> DEFINE S == {m \in Nat : m < Power(b, m)}
<1>1. 0 \in S
  BY PowerIs
<1>2. ASSUME NEW i \in 1 .. n, i - 1 \in S PROVE i \in S
  <2>1. i - 1 \in Nat /\ i - 1 < Power(b, i - 1) /\ Power(b, i - 1) \in Nat
    BY <1>2, PowerIs
  <2>2. Power(b, i - 1 + 1) = b * Power(b, i - 1)
    BY <2>1, PowerIs
  <2>3. \A p \in Nat : b * p >= 2 * p
    OBVIOUS
  <2> DEFINE p == Power(b, i - 1)
             q == Power(b, i)
  <2>5. p \in Nat /\ q \in Nat /\ q = b * p
    <3>1. i - 1 + 1 = i /\ i \in Nat
      OBVIOUS
    <3> QED
      BY <2>1, <2>2, <3>1, PowerIs
  <2> HIDE DEF p, q
  <2>4. q >= 2 * p
    BY <2>3, <2>5
  <2>6. i - 1 < p
    BY <2>1 DEF p
  <2>7. i < q
    BY <2>4, <2>5, <2>6
  <2> QED
    BY <2>7 DEF q
<1>3. \A i \in 1 .. n : i - 1 \in S => i \in S
  BY <1>2
<1> HIDE DEF S
<1>4. n \in S
  BY <1>1, <1>3, UpTo
<1> QED
  BY <1>4 DEF S

\* What is added in the exponent is multiplied.
LEMMA PowerAdds ==
    ASSUME NEW b \in Nat, NEW m \in Nat, NEW n \in Nat
    PROVE  Power(b, m + n) = Power(b, m) * Power(b, n)
<1> DEFINE S == {k \in Nat : Power(b, m + k) = Power(b, m) * Power(b, k)}
<1>1. 0 \in S
  BY PowerIs
<1>2. ASSUME NEW i \in 1 .. n, i - 1 \in S PROVE i \in S
  <2> DEFINE k == i - 1
  <2>1. k \in Nat /\ i = k + 1 /\ m + i = m + k + 1 /\ m + k \in Nat
    OBVIOUS
  <2>2. Power(b, m + k) = Power(b, m) * Power(b, k)
    BY <1>2
  <2>3. /\ Power(b, k + 1) = b * Power(b, k) /\ Power(b, m + k + 1) = b * Power(b, m + k)
        /\ Power(b, m) \in Nat /\ Power(b, k) \in Nat
    BY <2>1, PowerIs
  <2>4. \A x, y \in Nat : b * (x * y) = x * (b * y)
    OBVIOUS
  <2> QED
    BY <2>1, <2>2, <2>3, <2>4
<1>3. \A i \in 1 .. n : i - 1 \in S => i \in S
  BY <1>2
<1> HIDE DEF S
<1>4. n \in S
  BY <1>1, <1>3, UpTo
<1> QED
  BY <1>4 DEF S

\* To divide twice is to divide by the product.
LEMMA DivideTwice ==
    ASSUME NEW n \in Nat, NEW p \in Nat \ {0}, NEW b \in Nat \ {0}
    PROVE  (n \div p) \div b = n \div (p * b) /\ n \div p \in Nat
OBVIOUS

\* Division leaves a rest below the divisor.
LEMMA DivideRest ==
    ASSUME NEW n \in Int, NEW b \in Nat \ {0}
    PROVE  /\ n = b * (n \div b) + (n % b)
           /\ n % b \in 0 .. b - 1 /\ n \div b \in Int /\ (n >= 0 => n \div b \in Nat)
OBVIOUS

\* The lowest digits of two numbers of a base p: what is above is divided off.
LEMMA RestOfTwo ==
    ASSUME NEW n \in Nat, NEW p \in Nat \ {0}, NEW b \in Nat \ {0}
    PROVE  n % (p * b) = (n % p) + ((n \div p) % b) * p
<1> DEFINE q == n \div p
           r == n % p
           c == q % b
           h == q \div b
           m == p * b
           x == n % m
<1>1. q \in Nat /\ r \in Nat /\ n = p * q + r
  BY DivideRest
<1>2. m \in Nat \ {0} /\ n \div m = h
  <2>1. p * b \in Nat \ {0}
    OBVIOUS
  <2>2. n \div (p * b) = (n \div p) \div b
    BY DivideTwice
  <2> QED
    BY <2>1, <2>2
<1> HIDE DEF q, r, m
<1>3. c \in Nat /\ h \in Nat /\ q = b * h + c
  BY <1>1
<1>4. x \in Nat /\ n = m * h + x
  <2>1. x \in Nat /\ n = m * (n \div m) + x
    BY <1>2
  <2> QED
    BY <1>2, <2>1
<1> HIDE DEF c, h, x
<1>5. p * q = m * h + c * p
  BY <1>1, <1>3 DEF m
<1>6. m * h \in Nat /\ c * p \in Nat
  BY <1>2, <1>3
<1>7. x = r + c * p
  BY <1>1, <1>4, <1>5, <1>6
<1> QED
  BY <1>7 DEF q, r, c, m, x

-----------------------------------------------------------------------------
(* Digits.                                                                 *)

\* The recursion that reads digits.
LEMMA ValueSteps ==
    ASSUME NEW b \in Nat, NEW digits \in Seq(Nat)
    PROVE  \E f \in [0 .. Len(digits) -> Nat] :
               /\ f[0] = 0 /\ Value(digits, b) = f[Len(digits)]
               /\ \A i \in 1 .. Len(digits) : f[i] = f[i - 1] * b + digits[i]
<1> DEFINE n == Len(digits)
           g == [i \in 0 .. n |-> [x \in Nat |-> IF i = 0 THEN 0 ELSE x * b + digits[i]]]
           upto[i \in 0 .. Len(digits)] == IF i = 0 THEN 0 ELSE upto[i - 1] * b + digits[i]
<1>0. n \in Nat /\ \A i \in 1 .. n : digits[i] \in Nat
  OBVIOUS
<1>1. PICK f \in [0 .. n -> Nat] : \A i \in 0 .. n : f[i] = IF i = 0 THEN 0 ELSE g[i][f[i - 1]]
  <2>1. g \in [0 .. n -> [Nat -> Nat]]
    BY <1>0
  <2>2. Places(0 .. n) /\ 0 \in Nat
    BY <1>0 DEF Places
  <2> HIDE DEF g, n
  <2>3. Walks(0 .. n, Nat, 0, g) # {}
    BY <2>1, <2>2, AlongNumbers
  <2> QED
    BY <2>3 DEF Walks
<1>2. f = [i \in 0 .. Len(digits) |-> IF i = 0 THEN 0 ELSE f[i - 1] * b + digits[i]]
  <2>1. \A i \in 0 .. n : i # 0 => g[i][f[i - 1]] = f[i - 1] * b + digits[i]
    <3>1. \A i \in 0 .. n : i # 0 => i - 1 \in 0 .. n
      BY <1>0
    <3>2. \A i \in 0 .. n : i # 0 => f[i - 1] \in Nat
      BY <3>1
    <3> QED
      BY <3>2
  <2> HIDE DEF g
  <2>2. \A i \in 0 .. n : f[i] = IF i = 0 THEN 0 ELSE f[i - 1] * b + digits[i]
    BY <1>1, <2>1
  <2> DEFINE e(i) == IF i = 0 THEN 0 ELSE f[i - 1] * b + digits[i]
  <2>3. \A i \in 0 .. n : f[i] = e(i)
    BY <2>2
  <2> HIDE DEF e
  <2>4. f = [i \in 0 .. n |-> e(i)]
    BY <1>1, <2>3
  <2> QED
    BY <2>4 DEF e
<1>3. upto = [i \in 0 .. Len(digits) |-> IF i = 0 THEN 0 ELSE upto[i - 1] * b + digits[i]]
  BY <1>2
<1>4. Value(digits, b) = upto[Len(digits)]
  BY DEF Value
<1> HIDE DEF upto
<1>5. \A i \in 0 .. n : upto[i] = f[i]
  <2> DEFINE S == {i \in 0 .. n : upto[i] = f[i]}
  <2>1. \A i \in 0 .. n : /\ upto[i] = IF i = 0 THEN 0 ELSE upto[i - 1] * b + digits[i]
                          /\ f[i] = IF i = 0 THEN 0 ELSE f[i - 1] * b + digits[i]
    BY <1>2, <1>3
  <2>2. 0 \in S
    BY <1>0, <2>1
  <2>3. \A i \in 1 .. n : i - 1 \in S => i \in S
    BY <1>0, <2>1
  <2> HIDE DEF S, n
  <2>4. \A i \in 0 .. n : i \in S
    BY <1>0, <2>2, <2>3, UpTo
  <2> QED
    BY <2>4 DEF S
<1>6. f[0] = 0 /\ Value(digits, b) = f[Len(digits)]
  BY <1>0, <1>2, <1>4, <1>5
<1>7. \A i \in 1 .. Len(digits) : f[i] = f[i - 1] * b + digits[i]
  BY <1>0, <1>2
<1> QED
  BY <1>6, <1>7

\* There are enough digits for the number.
LEMMA DigitsAre ==
    ASSUME NEW b \in Nat, b >= 2, NEW n \in Nat, NEW least \in Nat
    PROVE  \E size \in Nat \ {0} :
               /\ n < Power(b, size)
               /\ Digits(n, b, least) = [i \in 1 .. size |-> (n \div Power(b, size - i)) % b]
<1> DEFINE Wide(k) == n < Power(b, k) /\ (k = 1 \/ Power(b, k - 1) <= n)
           width == CHOOSE k \in 1 .. n + 1 : Wide(k)
           size == IF width < least THEN least ELSE width
<1>1. \E k \in 1 .. n + 1 : Wide(k)
  <2> DEFINE T == {k \in 1 .. n + 1 : n < Power(b, k)}
  <2>1. n + 1 \in T
    <3>1. n + 1 < Power(b, n + 1) /\ Power(b, n + 1) \in Nat
      BY PowerGrows, PowerIs
    <3> QED
      BY <3>1
  <2>2. PICK k \in T : \A j \in T : k <= j
    <3>1. T \in SUBSET Nat /\ T # {}
      BY <2>1
    <3> HIDE DEF T
    <3> QED
      BY <3>1, LeastNatural
  <2>3. ASSUME k # 1 PROVE Power(b, k - 1) <= n
    <3>1. k - 1 \in 1 .. n + 1 /\ ~(k <= k - 1) /\ k - 1 \in Nat
      BY <2>3
    <3>2. ~(n < Power(b, k - 1)) /\ Power(b, k - 1) \in Nat
      BY <2>2, <3>1, PowerIs
    <3> QED
      BY <3>2
  <2> QED
    BY <2>2, <2>3
<1>2. width \in 1 .. n + 1 /\ n < Power(b, width)
  BY <1>1
<1>3. Digits(n, b, least) = [i \in 1 .. size |-> (n \div Power(b, size - i)) % b]
  BY DEF Digits
<1> HIDE DEF width
<1>4. size \in Nat \ {0} /\ width \in Nat /\ size - width \in Nat
  BY <1>2
<1>5. n < Power(b, size)
  <2>1. Power(b, width + (size - width)) = Power(b, width) * Power(b, size - width)
    BY <1>4, PowerAdds
  <2>2. width + (size - width) = size
    BY <1>4
  <2>3. size - width < Power(b, size - width)
    BY <1>4, PowerGrows
  <2> DEFINE x == Power(b, width)
             y == Power(b, size - width)
  <2>4. x \in Nat /\ y \in Nat /\ y > 0
    <3>1. x \in Nat /\ y \in Nat
      BY <1>4, PowerIs
    <3>2. size - width < y
      BY <2>3
    <3> HIDE DEF x, y, size
    <3> QED
      BY <1>4, <3>1, <3>2
  <2>5. n < x /\ Power(b, size) = x * y
    BY <1>2, <2>1, <2>2
  <2> HIDE DEF x, y, size
  <2>6. x <= x * y /\ x * y \in Nat
    BY <2>4
  <2> QED
    BY <2>4, <2>5, <2>6
<1> HIDE DEF size
<1> QED
  BY <1>3, <1>4, <1>5

\* What is written in digits is read as the number it was.
LEMMA DigitsRead ==
    ASSUME NEW b \in Nat, b >= 2, NEW n \in Nat, NEW least \in Nat
    PROVE  /\ Digits(n, b, least) \in Seq(Nat)
           /\ Value(Digits(n, b, least), b) = n
           /\ InBase(Digits(n, b, least), b)
<1> DEFINE d == Digits(n, b, least)
<1>1. PICK size \in Nat \ {0} :
          /\ n < Power(b, size)
          /\ d = [i \in 1 .. size |-> (n \div Power(b, size - i)) % b]
  BY DigitsAre
<1> HIDE DEF d
<1>0. b \in Nat \ {0}
  OBVIOUS
<1>2. \A i \in 0 .. size : Power(b, size - i) \in Nat \ {0}
  <2>1. \A i \in 0 .. size : size - i \in Nat
    OBVIOUS
  <2> QED
    BY <2>1, PowerIs, PowerGrows
<1>3. \A i \in 1 .. size : d[i] \in 0 .. b - 1
  <2> TAKE i \in 1 .. size
  <2> DEFINE p == Power(b, size - i)
             q == n \div p
  <2>1. p \in Nat \ {0}
    BY <1>2
  <2>2. d[i] = q % b
    BY <1>1
  <2> HIDE DEF p
  <2>3. q \in Nat
    BY <2>1
  <2> HIDE DEF q
  <2>4. q % b \in 0 .. b - 1
    BY <1>0, <2>3
  <2> QED
    BY <2>2, <2>4
<1>4. d \in Seq(Nat) /\ Len(d) = size
  <2>1. d \in [1 .. size -> Nat]
    BY <1>1, <1>3
  <2> QED
    BY <2>1
<1>5. PICK f \in [0 .. size -> Nat] :
          /\ f[0] = 0 /\ Value(d, b) = f[size]
          /\ \A i \in 1 .. size : f[i] = f[i - 1] * b + d[i]
  BY <1>4, ValueSteps
<1>6. f[size] = n
  <2> DEFINE S == {i \in 0 .. size : f[i] = n \div Power(b, size - i)}
  <2>1. 0 \in S
    <3>1. Power(b, size - 0) = Power(b, size) /\ Power(b, size) \in Nat \ {0}
      BY <1>2
    <3>2. \A x \in Nat \ {0} : n < x => n \div x = 0
      OBVIOUS
    <3> QED
      BY <1>1, <1>5, <3>1, <3>2
  <2>2. ASSUME NEW i \in 1 .. size, i - 1 \in S PROVE i \in S
    <3> DEFINE p == Power(b, size - i)
               q == n \div p
    <3>1. p \in Nat \ {0} /\ Power(b, size - (i - 1)) = p * b
      <4>1. size - i \in Nat /\ size - (i - 1) = size - i + 1 /\ i \in 0 .. size
        OBVIOUS
      <4>2. Power(b, size - i + 1) = b * p
        BY <4>1, PowerIs
      <4> QED
        BY <1>2, <4>1, <4>2
    <3> HIDE DEF p
    <3>2. q \in Nat /\ q \div b = n \div (p * b)
      BY <1>0, <3>1, DivideTwice
    <3>3. f[i - 1] = q \div b
      BY <2>2, <3>1, <3>2
    <3>4. d[i] = q % b
      BY <1>1 DEF p
    <3> HIDE DEF q
    <3>5. q = b * (q \div b) + (q % b) /\ q \div b \in Nat /\ q % b \in Nat
      BY <1>0, <3>2
    <3>6. f[i] = q
      BY <1>5, <3>3, <3>4, <3>5
    <3> QED
      BY <3>6 DEF q, p
  <2>3. \A i \in 1 .. size : i - 1 \in S => i \in S
    BY <2>2
  <2> HIDE DEF S
  <2>4. size \in S
    <3>1. size \in Nat /\ size \in 0 .. size
      OBVIOUS
    <3> QED
      BY <2>1, <2>3, <3>1, UpTo
  <2>5. size - size = 0
    OBVIOUS
  <2>6. f[size] = n \div 1
    BY <2>4, <2>5, PowerIs DEF S
  <2> QED
    BY <2>6
<1>7. Value(d, b) = n
  BY <1>5, <1>6
<1>8. \A i \in DOMAIN d : d[i] < b
  BY <1>3, <1>4
<1> QED
  BY <1>4, <1>7, <1>8 DEF d, InBase
-----------------------------------------------------------------------------
(* Bytes.                                                                  *)

\* A byte more is a factor more; and half of a limit is a number.
LEMMA Limits ==
    /\ Limit(0) = 1 /\ Limit(1) \in Nat /\ Limit(1) >= 2
    /\ \A w \in Nat : Limit(w) \in Nat \ {0} /\ Limit(w + 1) = Limit(w) * Limit(1)
    /\ \A w \in Nat \ {0} : \E h \in Nat \ {0} : Limit(w) = 2 * h
    /\ \A v, w \in Nat : v <= w => Limit(v) <= Limit(w)
<1>0. BITS \in Nat \ {0}
  BY ValueInputs
<1>1. \A n \in Nat : Power(2, n) \in Nat \ {0}
  <2> TAKE n \in Nat
  <2>1. n < Power(2, n) /\ Power(2, n) \in Nat
    BY PowerGrows, PowerIs
  <2> QED
    BY <2>1
<1>2. ASSUME NEW w \in Nat PROVE BITS * w \in Nat
  BY <1>0
<1>3. \A w \in Nat : Limit(w) \in Nat \ {0}
  BY <1>1, <1>2 DEF Limit
<1>4. ASSUME NEW v \in Nat, NEW d \in Nat PROVE Limit(v + d) = Limit(v) * Limit(d)
  <2>1. BITS * (v + d) = BITS * v + BITS * d
    BY <1>0
  <2>2. Power(2, BITS * v + BITS * d) = Power(2, BITS * v) * Power(2, BITS * d)
    BY <1>2, PowerAdds
  <2> QED
    BY <2>1, <2>2 DEF Limit
<1>5. ASSUME NEW w \in Nat \ {0} PROVE \E h \in Nat \ {0} : Limit(w) = 2 * h
  <2> DEFINE n == BITS * w - 1
  <2>1. n \in Nat /\ BITS * w = n + 1
    <3>1. \A x, y \in Nat \ {0} : x * y \in Nat \ {0}
      OBVIOUS
    <3>2. BITS * w \in Nat \ {0}
      BY <1>0, <3>1
    <3> QED
      BY <3>2
  <2> HIDE DEF n
  <2>2. Power(2, n + 1) = 2 * Power(2, n)
    BY <2>1, PowerIs
  <2>3. Limit(w) = 2 * Power(2, n)
    BY <2>1, <2>2 DEF Limit
  <2> QED
    BY <1>1, <2>1, <2>3
<1>6. ASSUME NEW v \in Nat, NEW w \in Nat, v <= w PROVE Limit(v) <= Limit(w)
  <2> DEFINE d == w - v
  <2>1. d \in Nat /\ w = v + d
    BY <1>6
  <2> HIDE DEF d
  <2>2. Limit(w) = Limit(v) * Limit(d)
    BY <1>4, <2>1
  <2>3. \A x, y \in Nat \ {0} : x <= x * y
    OBVIOUS
  <2> QED
    BY <1>3, <2>1, <2>2, <2>3
<1>7. Limit(0) = 1
  BY <1>0, PowerIs DEF Limit
<1>8. Limit(1) \in Nat /\ Limit(1) >= 2
  <2>1. PICK h \in Nat \ {0} : Limit(1) = 2 * h
    BY <1>5
  <2> QED
    BY <2>1
<1>9. \A w \in Nat : Limit(w + 1) = Limit(w) * Limit(1)
  BY <1>4
<1> QED
  BY <1>3, <1>5, <1>6, <1>7, <1>8, <1>9

\* The recursion that reads bytes.
LEMMA UnsignedSteps ==
    ASSUME NEW bytes \in Seq(Nat)
    PROVE  \E f \in [0 .. Len(bytes) -> Nat] :
               /\ f[0] = 0 /\ Unsigned(bytes) = f[Len(bytes)]
               /\ \A i \in 1 .. Len(bytes) : f[i] = f[i - 1] + bytes[i] * Limit(i - 1)
<1> DEFINE n == Len(bytes)
           g == [i \in 0 .. n |-> [x \in Nat |-> IF i = 0 THEN 0 ELSE x + bytes[i] * Limit(i - 1)]]
           upto[i \in 0 .. Len(bytes)] == IF i = 0 THEN 0 ELSE upto[i - 1] + bytes[i] * Limit(i - 1)
<1>0. n \in Nat /\ \A i \in 1 .. n : bytes[i] * Limit(i - 1) \in Nat
  <2>1. \A i \in 1 .. n : bytes[i] \in Nat /\ i - 1 \in Nat
    OBVIOUS
  <2>2. \A i \in 1 .. n : Limit(i - 1) \in Nat
    BY <2>1, Limits
  <2>3. \A x, y \in Nat : x * y \in Nat
    OBVIOUS
  <2> QED
    BY <2>1, <2>2, <2>3
<1>1. PICK f \in [0 .. n -> Nat] : \A i \in 0 .. n : f[i] = IF i = 0 THEN 0 ELSE g[i][f[i - 1]]
  <2>1. g \in [0 .. n -> [Nat -> Nat]]
    BY <1>0
  <2>2. Places(0 .. n) /\ 0 \in Nat
    BY <1>0 DEF Places
  <2> HIDE DEF g, n
  <2>3. Walks(0 .. n, Nat, 0, g) # {}
    BY <2>1, <2>2, AlongNumbers
  <2> QED
    BY <2>3 DEF Walks
<1>2. f = [i \in 0 .. Len(bytes) |-> IF i = 0 THEN 0 ELSE f[i - 1] + bytes[i] * Limit(i - 1)]
  <2>1. \A i \in 0 .. n : i # 0 => g[i][f[i - 1]] = f[i - 1] + bytes[i] * Limit(i - 1)
    <3>1. \A i \in 0 .. n : i # 0 => i - 1 \in 0 .. n
      BY <1>0
    <3>2. \A i \in 0 .. n : i # 0 => f[i - 1] \in Nat
      BY <3>1
    <3> QED
      BY <3>2
  <2> HIDE DEF g
  <2>2. \A i \in 0 .. n : f[i] = IF i = 0 THEN 0 ELSE f[i - 1] + bytes[i] * Limit(i - 1)
    BY <1>1, <2>1
  <2> QED
    BY <2>2
<1>3. upto = [i \in 0 .. Len(bytes) |-> IF i = 0 THEN 0 ELSE upto[i - 1] + bytes[i] * Limit(i - 1)]
  BY <1>2
<1>4. Unsigned(bytes) = upto[Len(bytes)]
  BY DEF Unsigned
<1> HIDE DEF upto
<1>5. \A i \in 0 .. n : upto[i] = f[i]
  <2> DEFINE S == {i \in 0 .. n : upto[i] = f[i]}
  <2>1. \A i \in 0 .. n : /\ upto[i] = IF i = 0 THEN 0 ELSE upto[i - 1] + bytes[i] * Limit(i - 1)
                          /\ f[i] = IF i = 0 THEN 0 ELSE f[i - 1] + bytes[i] * Limit(i - 1)
    BY <1>2, <1>3
  <2>2. 0 \in S
    BY <1>0, <2>1
  <2>3. \A i \in 1 .. n : i - 1 \in S => i \in S
    BY <1>0, <2>1
  <2> HIDE DEF S, n
  <2>4. \A i \in 0 .. n : i \in S
    BY <1>0, <2>2, <2>3, UpTo
  <2> QED
    BY <2>4 DEF S
<1>6. f[0] = 0 /\ Unsigned(bytes) = f[Len(bytes)]
  BY <1>0, <1>2, <1>4, <1>5
<1>7. \A i \in 1 .. Len(bytes) : f[i] = f[i - 1] + bytes[i] * Limit(i - 1)
  <2> HIDE DEF g
  <2>1. \A i \in 1 .. n : i \in 0 .. n /\ i # 0
    BY <1>0
  <2> QED
    BY <1>2, <2>1
<1> QED
  BY <1>6, <1>7

\* What so many bytes hold is below the limit.
LEMMA UnsignedType ==
    ASSUME NEW w \in Nat, NEW bytes \in [1 .. w -> Byte]
    PROVE  Unsigned(bytes) \in 0 .. Limit(w) - 1
<1>1. bytes \in Seq(Nat) /\ Len(bytes) = w /\ \A i \in 1 .. w : bytes[i] \in 0 .. Limit(1) - 1
  <2>1. Byte \subseteq Nat
    BY Limits DEF Byte
  <2> QED
    BY <2>1 DEF Byte
<1>2. PICK f \in [0 .. w -> Nat] :
          /\ f[0] = 0 /\ Unsigned(bytes) = f[w]
          /\ \A i \in 1 .. w : f[i] = f[i - 1] + bytes[i] * Limit(i - 1)
  BY <1>1, UnsignedSteps
<1> DEFINE S == {i \in 0 .. w : f[i] < Limit(i)}
<1>3. 0 \in S
  BY <1>2, Limits
<1>4. ASSUME NEW i \in 1 .. w, i - 1 \in S PROVE i \in S
  <2> DEFINE x == f[i - 1]
             p == Limit(i - 1)
             b == Limit(1)
             c == bytes[i]
  <2>1. i - 1 \in Nat /\ i - 1 \in 0 .. w /\ i = (i - 1) + 1
    OBVIOUS
  <2>2. x \in Nat /\ p \in Nat \ {0} /\ b \in Nat \ {0} /\ c \in 0 .. b - 1 /\ x < p
    BY <1>1, <1>4, <2>1, Limits
  <2>3. Limit(i) = p * b /\ f[i] = x + c * p
    BY <1>2, <2>1, Limits
  <2> HIDE DEF x, p, b, c
  <2>4. x + c * p < p * b
    <3>1. c * p <= (b - 1) * p
      BY <2>2
    <3>2. (b - 1) * p = p * b - p /\ p * b \in Nat /\ c * p \in Nat
      BY <2>2
    <3> QED
      BY <2>2, <3>1, <3>2
  <2> QED
    BY <2>3, <2>4
<1>5. \A i \in 1 .. w : i - 1 \in S => i \in S
  BY <1>4
<1> HIDE DEF S
<1>6. w \in S
  <2>1. w \in 0 .. w
    OBVIOUS
  <2> QED
    BY <1>3, <1>5, <2>1, UpTo
<1>7. f[w] < Limit(w) /\ f[w] \in Nat /\ Limit(w) \in Nat
  BY <1>2, <1>6, Limits DEF S
<1> QED
  BY <1>2, <1>7

\* A number that is stored in so many bytes, and that they hold, is read again.
LEMMA BytesRead ==
    ASSUME NEW w \in Nat, NEW n \in 0 .. Limit(w) - 1
    PROVE  /\ LittleEndian(n, w) \in [1 .. w -> Byte]
           /\ Unsigned(LittleEndian(n, w)) = n
<1> DEFINE bytes == LittleEndian(n, w)
           b == Limit(1)
<1>0. /\ n \in Nat /\ Limit(w) \in Nat \ {0} /\ n < Limit(w)
      /\ b \in Nat \ {0}
      /\ \A i \in 1 .. w : i - 1 \in Nat /\ i - 1 \in 0 .. w /\ i = (i - 1) + 1
  <2>1. Limit(w) \in Nat \ {0} /\ b \in Nat \ {0}
    BY Limits
  <2> QED
    BY <2>1
<1>1. \A i \in 1 .. w : bytes[i] = (n \div Limit(i - 1)) % b
  BY DEF LittleEndian
<1>2. ASSUME NEW i \in 1 .. w
      PROVE  /\ Limit(i - 1) \in Nat \ {0} /\ Limit(i) = Limit(i - 1) * b
             /\ bytes[i] \in 0 .. b - 1
             /\ n % Limit(i) = (n % Limit(i - 1)) + bytes[i] * Limit(i - 1)
  <2> DEFINE p == Limit(i - 1)
             q == n \div p
  <2>1. p \in Nat \ {0} /\ Limit(i) = p * b
    BY <1>0, Limits
  <2>2. bytes[i] = q % b
    BY <1>1
  <2> HIDE DEF p, b
  <2>3. q \in Nat
    BY <1>0, <2>1
  <2>4. n % (p * b) = (n % p) + (q % b) * p
    BY <1>0, <2>1, RestOfTwo
  <2> HIDE DEF q
  <2>5. q % b \in 0 .. b - 1
    BY <1>0, <2>3
  <2> QED
    BY <2>1, <2>2, <2>4, <2>5 DEF p
<1>3. bytes \in [1 .. w -> Byte]
  BY <1>1, <1>2 DEF LittleEndian, Byte
<1> HIDE DEF bytes
<1>4. bytes \in Seq(Nat) /\ Len(bytes) = w
  <2>1. Byte \subseteq Nat
    BY Limits DEF Byte
  <2>2. bytes \in [1 .. w -> Nat]
    BY <1>3, <2>1
  <2> QED
    BY <2>2
<1>5. PICK f \in [0 .. w -> Nat] :
          /\ f[0] = 0 /\ Unsigned(bytes) = f[w]
          /\ \A i \in 1 .. w : f[i] = f[i - 1] + bytes[i] * Limit(i - 1)
  BY <1>4, UnsignedSteps
<1> DEFINE S == {i \in 0 .. w : f[i] = n % Limit(i)}
<1>6. 0 \in S
  <2>1. n % 1 = 0
    BY <1>0
  <2> QED
    BY <1>5, <2>1, Limits
<1>7. \A i \in 1 .. w : i - 1 \in S => i \in S
  BY <1>2, <1>5
<1> HIDE DEF S
<1>8. w \in S
  <2>1. w \in 0 .. w
    OBVIOUS
  <2> QED
    BY <1>6, <1>7, <2>1, UpTo
<1>9. n % Limit(w) = n
  <2>1. \A x \in Nat, m \in Nat \ {0} : x < m => x % m = x
    OBVIOUS
  <2> QED
    BY <1>0, <2>1
<1> QED
  BY <1>3, <1>5, <1>8, <1>9 DEF S, bytes
\* The numbers that so many bytes hold with a sign.
SignedRange(w) == -(Limit(w) \div 2) .. (Limit(w) \div 2) - 1

\* With a sign a number is the one without, or that less the limit.
LEMMA SignedIs ==
    ASSUME NEW w \in Nat \ {0}, NEW bytes \in [1 .. w -> Byte]
    PROVE  Signed(bytes) \in SignedRange(w) /\ Signed(bytes) % Limit(w) = Unsigned(bytes)
<1> DEFINE n == Unsigned(bytes)
           m == Limit(w)
<1>1. n \in 0 .. m - 1 /\ m \in Nat \ {0}
  BY UnsignedType, Limits
<1>2. PICK h \in Nat \ {0} : m = 2 * h
  BY Limits
<1>3. Len(bytes) = w
  OBVIOUS
<1>4. Signed(bytes) = IF 2 * n < m THEN n ELSE n - m
  BY <1>3 DEF Signed
<1> HIDE DEF n, m
<1>5. m \div 2 = h
  BY <1>2
<1>6. CASE 2 * n < m
  <2>1. n % m = n
    BY <1>1
  <2> QED
    BY <1>1, <1>2, <1>4, <1>5, <1>6, <2>1 DEF SignedRange, m, n
<1>7. CASE ~(2 * n < m)
  <2>1. (n - m) % m = n
    <3>1. \A x, y \in Int : y > 0 /\ x < 0 /\ -y <= x => x % y = x + y
      OBVIOUS
    <3>2. n - m \in Int /\ m \in Int /\ n - m < 0 /\ -m <= n - m /\ n - m + m = n /\ m > 0
      BY <1>1
    <3> QED
      BY <3>1, <3>2
  <2>2. n - m \in -h .. h - 1
    BY <1>1, <1>2, <1>7
  <2> QED
    BY <1>4, <1>5, <1>7, <2>1, <2>2 DEF SignedRange, m, n
<1> QED
  BY <1>6, <1>7

\* A number without a sign that is stored is taken just when there is room, and
\* is what the bytes hold.
LEMMA StoresUnsigned ==
    ASSUME NEW w \in Nat, NEW n \in Int
    PROVE  \/ /\ n \in 0 .. Limit(w) - 1
              /\ \E bytes \in [1 .. w -> Byte] :
                     IntToLe(n, w, FALSE) = Taken(bytes) /\ Unsigned(bytes) = n
           \/ n \notin 0 .. Limit(w) - 1 /\ IntToLe(n, w, FALSE) = Refused
<1>1. Limit(w) \in Nat \ {0}
  BY Limits
<1>2. CASE n \in 0 .. Limit(w) - 1
  <2>1. n % Limit(w) = n
    BY <1>1, <1>2
  <2>2. IntToLe(n, w, FALSE) = Taken(LittleEndian(n, w))
    BY <1>1, <1>2, <2>1 DEF IntToLe
  <2> QED
    BY <1>2, <2>2, BytesRead
<1>3. CASE n \notin 0 .. Limit(w) - 1
  BY <1>1, <1>3 DEF IntToLe
<1> QED
  BY <1>2, <1>3

\* The same with a sign.
LEMMA StoresSigned ==
    ASSUME NEW w \in Nat \ {0}, NEW n \in Int
    PROVE  \/ /\ n \in SignedRange(w)
              /\ \E bytes \in [1 .. w -> Byte] :
                     IntToLe(n, w, TRUE) = Taken(bytes) /\ Signed(bytes) = n
           \/ n \notin SignedRange(w) /\ IntToLe(n, w, TRUE) = Refused
<1> DEFINE m == Limit(w)
           r == n % m
           bytes == LittleEndian(r, w)
<1>1. PICK h \in Nat \ {0} : m = 2 * h
  BY Limits
<1>2. m \in Nat \ {0} /\ m \div 2 = h
  BY <1>1
<1>3. SignedRange(w) = -h .. h - 1
  BY <1>2 DEF SignedRange
<1>4. CASE n \in SignedRange(w)
  <2>1. IntToLe(n, w, TRUE) = Taken(bytes)
    BY <1>2, <1>3, <1>4 DEF IntToLe
  <2>2. r \in 0 .. m - 1
    <3> HIDE DEF m
    <3> QED
      BY <1>2
  <2>3. bytes \in [1 .. w -> Byte] /\ Unsigned(bytes) = r
    <3> HIDE DEF r
    <3> QED
      BY <2>2, BytesRead
  <2>4. r = IF n < 0 THEN n + m ELSE n
    <3> HIDE DEF m
    <3> QED
      BY <1>1, <1>2, <1>3, <1>4
  <2>5. Len(bytes) = w
    <3> HIDE DEF bytes
    <3> QED
      BY <2>3
  <2>6. Signed(bytes) = IF 2 * r < m THEN r ELSE r - m
    BY <2>3, <2>5 DEF Signed
  <2>7. Signed(bytes) = n
    <3> HIDE DEF m, r, bytes
    <3> QED
      BY <1>1, <1>3, <1>4, <2>2, <2>4, <2>6
  <2> QED
    BY <1>4, <2>1, <2>3, <2>7
<1>5. CASE n \notin SignedRange(w)
  BY <1>2, <1>3, <1>5 DEF IntToLe
<1> QED
  BY <1>4, <1>5

-----------------------------------------------------------------------------
(* Texts.                                                                  *)

\* A number in decimal is read again,
LEMMA DecimalRead == \A n \in Int : ParseInt(Decimal(n)) = Read(n)
<1> TAKE n \in Int
<1> DEFINE x == IF n < 0 THEN -n ELSE n
           d == Digits(x, 10, 1)
<1>1. x \in Nat
  OBVIOUS
<1>2. Value(d, 10) = x /\ InBase(d, 10)
  BY <1>1, DigitsRead
<1> HIDE DEF d
<1> DEFINE t == Decimal(n)
<1>3. t.form = "numeral" /\ (t.neg <=> n < 0) /\ t.prefix = "none" /\ t.digits = d
  BY DEF Decimal, Numeral, d
<1> HIDE DEF t, x
<1>4. ParseInt(t) = Read(IF n < 0 THEN -x ELSE x)
  <2>1. CASE n < 0
    BY <1>2, <1>3, <2>1 DEF ParseInt
  <2>2. CASE ~(n < 0)
    BY <1>2, <1>3, <2>2 DEF ParseInt
  <2> QED
    BY <2>1, <2>2
<1>5. (IF n < 0 THEN -x ELSE x) = n
  BY DEF x
<1> QED
  BY <1>4, <1>5 DEF t

\* or in hexadecimal,
LEMMA HexRead ==
    \A n \in Nat, least \in Nat : ParseInt(Numeral(FALSE, "0x", Digits(n, 16, least))) = Read(n)
<1> TAKE n \in Nat, least \in Nat
<1>1. Value(Digits(n, 16, least), 16) = n /\ InBase(Digits(n, 16, least), 16)
  BY DigitsRead
<1> QED
  BY <1>1 DEF ParseInt, Numeral

\* or in binary,
LEMMA BitsRead ==
    \A n \in Nat, least \in Nat : ParseBits(Numeral(FALSE, "none", Digits(n, 2, least))) = Read(n)
<1> TAKE n \in Nat, least \in Nat
<1>1. Value(Digits(n, 2, least), 2) = n /\ InBase(Digits(n, 2, least), 2)
  BY DigitsRead
<1> QED
  BY <1>1 DEF ParseBits, Numeral

\* or as an address, if that is one.
LEMMA AddrRead ==
    \A n \in 0 .. Limit(LONG) - 1 : ParseAddr(Hexadecimal(n)) = Read(n)
<1> TAKE n \in 0 .. Limit(LONG) - 1
<1>1. n \in Nat /\ n < Limit(LONG)
  <2>1. Limit(LONG) \in Nat
    BY ValueInputs, Limits
  <2> QED
    BY <2>1
<1>2. Value(Digits(n, 16, 1), 16) = n
  BY <1>1, DigitsRead
<1> QED
  BY <1>1, <1>2 DEF ParseAddr, AddrDigits, Hexadecimal, Numeral

\* Whatever number is typed, a number is read or none.
LEMMA TypedRead ==
    \A n \in Int : /\ ParseBits(Decimal(n)) \in {Read(i) : i \in Int}
                   /\ ParseAddr(Decimal(n)) \in {NoNumber} \cup {Read(i) : i \in Int}
<1> TAKE n \in Int
<1> DEFINE x == IF n < 0 THEN -n ELSE n
           d == Digits(x, 10, 1)
<1>1. x \in Nat
  OBVIOUS
<1>2. d \in Seq(Nat)
  <2> HIDE DEF x
  <2>1. 10 \in Nat /\ 10 >= 2 /\ 1 \in Nat
    OBVIOUS
  <2> QED
    BY <1>1, <2>1, DigitsRead
<1> HIDE DEF d
<1> DEFINE t == Decimal(n)
<1>3. t.form = "numeral" /\ t.prefix = "none" /\ t.digits = d
  BY DEF Decimal, Numeral, d
<1>4. ASSUME NEW b \in Nat PROVE Value(d, b) \in Int
  <2>1. PICK f \in [0 .. Len(d) -> Nat] : Value(d, b) = f[Len(d)]
    BY <1>2, ValueSteps
  <2>2. Len(d) \in 0 .. Len(d)
    BY <1>2
  <2> QED
    BY <2>1, <2>2
<1>8. ParseInt(t) = Read(n)
  BY DecimalRead
<1> HIDE DEF t
<1>5. ParseBits(t) = Read(Value(d, 2)) \/ ParseBits(t) = ParseInt(t)
  BY <1>3 DEF ParseBits
<1>6. ParseAddr(t) = NoNumber \/ ParseAddr(t) = Read(Value(d, 16)) \/ ParseAddr(t) = Read(Value(d, 10))
  BY <1>3 DEF ParseAddr, AddrDigits
<1>7. Value(d, 2) \in Int /\ Value(d, 16) \in Int /\ Value(d, 10) \in Int
  BY <1>4
<1> QED
  BY <1>5, <1>6, <1>7, <1>8 DEF t
-----------------------------------------------------------------------------
(* What is written.                                                        *)

NodeBytes(k) == [1 .. k.size -> Byte]

LEMMA SmallBytes == 0 \in Byte /\ 1 \in Byte
<1>1. Limit(1) \in Nat /\ Limit(1) >= 2
  BY Limits
<1> QED
  BY <1>1 DEF Byte

\* A text is cut at its first terminator; what is filled up has it there again.
LEMMA TextBack ==
    ASSUME NEW w \in Nat, NEW bytes \in [1 .. w -> Byte]
    PROVE  /\ EncodeText(Terminated(bytes), w) \in [1 .. w -> Byte]
           /\ Terminated(EncodeText(Terminated(bytes), w)) = Terminated(bytes)
<1> DEFINE ends == {i \in 1 .. w : bytes[i] = 0}
           chars == Terminated(bytes)
           filled == EncodeText(chars, w)
<1>0. 0 \in Byte /\ DOMAIN bytes = 1 .. w /\ bytes \in Seq(Byte) /\ Len(bytes) = w
  <2>1. DOMAIN bytes = 1 .. w /\ bytes \in Seq(Byte) /\ Len(bytes) = w
    OBVIOUS
  <2> QED
    BY <2>1, SmallBytes
<1>1. CASE ends = {}
  <2>1. chars = bytes
    BY <1>0, <1>1 DEF Terminated
  <2>2. filled = bytes
    BY <1>0, <2>1 DEF EncodeText
  <2> QED
    BY <2>1, <2>2
<1>2. CASE ends # {}
  <2> DEFINE first == CHOOSE i \in ends : \A j \in ends : i <= j
  <2>1. first \in ends /\ \A j \in ends : first <= j
    <3>1. ends \in SUBSET Nat
      OBVIOUS
    <3> HIDE DEF ends
    <3> QED
      BY <1>2, <3>1, LeastNatural
  <2>2. chars = SubSeq(bytes, 1, first - 1)
    BY <1>0, <1>2 DEF Terminated
  <2> HIDE DEF first
  <2>3. first \in 1 .. w /\ bytes[first] = 0 /\ \A j \in 1 .. first - 1 : bytes[j] # 0
    BY <2>1
  <2>4. chars \in Seq(Byte) /\ Len(chars) = first - 1 /\ \A j \in 1 .. first - 1 : chars[j] = bytes[j]
    BY <1>0, <2>2, <2>3
  <2> HIDE DEF chars, ends
  <2>5. filled \in [1 .. w -> Byte]
    <3>1. \A i \in 1 .. w : i <= Len(chars) => chars[i] \in Byte
      BY <2>3, <2>4
    <3> QED
      BY <1>0, <3>1 DEF EncodeText
  <2>6. filled[first] = 0 /\ \A j \in 1 .. first - 1 : filled[j] = bytes[j] /\ filled[j] # 0
    BY <2>3, <2>4 DEF EncodeText
  <2> HIDE DEF filled
  <2> DEFINE zeros == {i \in DOMAIN filled : filled[i] = 0}
             least == CHOOSE i \in zeros : \A j \in zeros : i <= j
  <2>7. first \in zeros /\ \A j \in zeros : first <= j
    BY <2>3, <2>5, <2>6
  <2>8. least \in zeros /\ \A j \in zeros : least <= j
    BY <2>7
  <2>9. least = first
    BY <2>5, <2>7, <2>8
  <2>10. Terminated(filled) = SubSeq(filled, 1, first - 1)
    BY <2>7, <2>9 DEF Terminated
  <2>11. SubSeq(filled, 1, first - 1) = SubSeq(bytes, 1, first - 1)
    BY <1>0, <2>3, <2>5, <2>6
  <2> QED
    BY <2>2, <2>5, <2>10, <2>11 DEF filled, chars
<1> QED
  BY <1>1, <1>2

\* To put back what is shown, if it is taken, changes nothing that is shown.
LEMMA PutBack ==
    ASSUME NEW k \in ValueNodes, NEW bytes \in NodeBytes(k),
           NEW w, w = ParseEdit(k, CellText(k, bytes)), w.ok
    PROVE  w.bytes \in NodeBytes(k) /\ CellText(k, w.bytes) = CellText(k, bytes)
<1>0. /\ k.kind \in ValueKinds /\ k.size \in Nat
      /\ k.kind # "text" => k.size \in 1 .. LONG /\ k.size \in Nat \ {0}
      /\ k.kind = "bool" => k.size = 1
      /\ LONG \in Nat /\ BITS \in Nat \ {0}
  BY ValueInputs
<1> DEFINE u == Unsigned(bytes)
<1>1. u \in 0 .. Limit(k.size) - 1 /\ u \in Nat
  <2>1. u \in 0 .. Limit(k.size) - 1 /\ Limit(k.size) \in Nat
    BY <1>0, UnsignedType, Limits DEF NodeBytes
  <2> QED
    BY <2>1
<1> HIDE DEF u
<1>2. ASSUME IntToLe(u, k.size, FALSE) = w
      PROVE  w.bytes \in NodeBytes(k) /\ Unsigned(w.bytes) = u
  <2>1. u \in Int /\ k.size \in Nat
    BY <1>0, <1>1
  <2>2. PICK b \in [1 .. k.size -> Byte] : IntToLe(u, k.size, FALSE) = Taken(b) /\ Unsigned(b) = u
    BY <1>1, <2>1, StoresUnsigned
  <2>3. w = Taken(b)
    BY <1>2, <2>2
  <2> QED
    BY <2>2, <2>3 DEF Taken, NodeBytes
<1>3. ASSUME k.size \in Nat \ {0}, IntToLe(Signed(bytes), k.size, TRUE) = w
      PROVE  w.bytes \in NodeBytes(k) /\ Signed(w.bytes) = Signed(bytes)
  <2>1. Signed(bytes) \in SignedRange(k.size) /\ Signed(bytes) \in Int
    <3>1. Signed(bytes) \in SignedRange(k.size)
      BY <1>3, SignedIs DEF NodeBytes
    <3>2. SignedRange(k.size) \subseteq Int
      BY DEF SignedRange
    <3> QED
      BY <3>1, <3>2
  <2>2. PICK b \in [1 .. k.size -> Byte] : w = Taken(b) /\ Signed(b) = Signed(bytes)
    BY <1>3, <2>1, StoresSigned
  <2> QED
    BY <2>2 DEF Taken, NodeBytes
<1>4. CASE k.kind = "hex"
  <2> DEFINE least == (k.size * BITS) \div 4
  <2>1. least \in Nat
    <3>1. \A x, y \in Nat : (x * y) \div 4 \in Nat
      OBVIOUS
    <3> QED
      BY <1>0, <3>1, ValueInputs
  <2> HIDE DEF least
  <2>2. ParseInt(CellText(k, bytes)) = Read(u)
    BY <1>1, <1>4, <2>1, HexRead DEF CellText, FormatValue, u, least
  <2>3. w = IntToLe(u, k.size, FALSE)
    BY <1>4, <2>2 DEF ParseEdit, Stored, Read
  <2> QED
    BY <1>2, <1>4, <2>3 DEF CellText, FormatValue, u
<1>5. CASE k.kind = "uint"
  <2>1. ParseInt(CellText(k, bytes)) = Read(u)
    BY <1>1, <1>5, DecimalRead DEF CellText, FormatValue, u
  <2>2. w = IntToLe(u, k.size, FALSE)
    BY <1>5, <2>1 DEF ParseEdit, Stored, Read
  <2> QED
    BY <1>2, <1>5, <2>2 DEF CellText, FormatValue, u
<1>6. CASE k.kind = "int"
  <2>1. Signed(bytes) \in Int
    <3>1. Signed(bytes) \in SignedRange(k.size)
      BY <1>0, <1>6, SignedIs DEF NodeBytes
    <3> QED
      BY <3>1 DEF SignedRange
  <2>2. ParseInt(CellText(k, bytes)) = Read(Signed(bytes))
    BY <1>6, <2>1, DecimalRead DEF CellText, FormatValue
  <2>3. w = IntToLe(Signed(bytes), k.size, TRUE)
    BY <1>6, <2>2 DEF ParseEdit, Stored, Read
  <2> QED
    BY <1>0, <1>3, <1>6, <2>3 DEF CellText, FormatValue
<1>7. CASE k.kind = "bits"
  <2> DEFINE least == k.size * BITS
  <2>1. least \in Nat
    <3>1. \A x, y \in Nat : x * y \in Nat
      OBVIOUS
    <3> QED
      BY <1>0, <3>1, ValueInputs
  <2> HIDE DEF least
  <2>2. ParseBits(CellText(k, bytes)) = Read(u)
    BY <1>1, <1>7, <2>1, BitsRead DEF CellText, FormatValue, u, least
  <2>3. w = IntToLe(u, k.size, FALSE)
    BY <1>7, <2>2 DEF ParseEdit, Stored, Read
  <2> QED
    BY <1>2, <1>7, <2>3 DEF CellText, FormatValue, u
<1>8. CASE k.kind = "bool"
  <2>1. CellText(k, bytes) = Word("true") \/ CellText(k, bytes) = Word("false")
    BY <1>8 DEF CellText, FormatValue
  <2>2. 0 \in Byte /\ 1 \in Byte /\ k.size = 1
    BY <1>0, <1>8, SmallBytes
  <2>3. CASE CellText(k, bytes) = Word("true")
    <3>1. ParseEdit(k, Word("true")) = Taken(<<1>>)
      <4>1. Word("true") # Word("false") /\ Word("true") # Decimal(0)
        BY DEF Word, Decimal, Numeral
      <4> QED
        BY <1>8, <4>1 DEF ParseEdit
    <3>2. CellText(k, <<1>>) = Word("true")
      BY <1>8 DEF CellText, FormatValue
    <3> QED
      BY <2>2, <2>3, <3>1, <3>2 DEF Taken, NodeBytes
  <2>4. CASE CellText(k, bytes) = Word("false")
    <3>1. Word("false") # Word("true") /\ Word("false") # Decimal(1)
      BY DEF Word, Decimal, Numeral
    <3>2. ParseEdit(k, Word("false")) = Taken(<<0>>)
      BY <1>8, <3>1 DEF ParseEdit
    <3>3. CellText(k, <<0>>) = Word("false")
      BY <1>8 DEF CellText, FormatValue
    <3> QED
      BY <2>2, <2>4, <3>2, <3>3 DEF Taken, NodeBytes
  <2> QED
    BY <2>1, <2>3, <2>4
<1>9. CASE k.kind = "enum"
  <2> DEFINE n == Signed(bytes)
  <2>1. n \in Int
    <3>1. n \in SignedRange(k.size)
      BY <1>0, <1>9, SignedIs DEF NodeBytes
    <3> QED
      BY <3>1 DEF SignedRange
  <2>2. ASSUME NEW t, t.form # "word" PROVE ParseEdit(k, t) = Stored(ParseInt(t), k.size, TRUE)
    <3>1. \A i \in DOMAIN k.variants : t # Word(k.variants[i].name)
      BY <2>2 DEF Word
    <3> QED
      BY <1>9, <3>1 DEF ParseEdit
  <2>3. CASE VariantOf(k.variants, n) = <<>>
    <3>1. CellText(k, bytes) = Decimal(n)
      BY <1>9, <2>3 DEF CellText, FormatValue
    <3>2. Decimal(n).form # "word"
      BY DEF Decimal, Numeral
    <3>3. w = IntToLe(n, k.size, TRUE)
      <4>1. ParseInt(Decimal(n)) = Read(n)
        BY <2>1, DecimalRead
      <4>2. ParseEdit(k, Decimal(n)) = Stored(Read(n), k.size, TRUE)
        BY <2>2, <3>2, <4>1
      <4> QED
        BY <3>1, <4>2 DEF Stored, Read
    <3> QED
      BY <1>0, <1>3, <1>9, <3>3 DEF CellText, FormatValue
  <2>4. CASE VariantOf(k.variants, n) # <<>>
    <3> DEFINE t == CellText(k, bytes)
    <3>1. t.form = "other"
      BY <1>9, <2>4 DEF CellText, FormatValue, Other
    <3> HIDE DEF t
    <3>2. ParseEdit(k, t) = Refused
      BY <2>2, <3>1 DEF ParseInt, Stored, NoNumber
    <3> QED
      BY <3>2 DEF Refused, t
  <2> QED
    BY <2>3, <2>4
<1>10. CASE k.kind = "text"
  <2>1. CellText(k, bytes) = Quoted(Terminated(bytes))
    BY <1>10 DEF CellText, FormatValue
  <2>2. w = Taken(EncodeText(Terminated(bytes), k.size))
    BY <1>10, <2>1 DEF ParseEdit, Quoted
  <2>3. CellText(k, w.bytes) = Quoted(Terminated(w.bytes))
    BY <1>10 DEF CellText, FormatValue
  <2> QED
    BY <1>0, <2>1, <2>2, <2>3, TextBack DEF Taken, NodeBytes
<1>11. CASE k.kind = "pointer"
  <2>1. CASE u = 0
    <3> DEFINE t == CellText(k, bytes)
    <3>1. t.form = "word"
      BY <1>11, <2>1 DEF CellText, FormatValue, Word, u
    <3> HIDE DEF t
    <3>2. ParseEdit(k, t) = Refused
      BY <1>11, <3>1 DEF ParseEdit, ParseAddr, Stored, NoNumber
    <3> QED
      BY <3>2 DEF Refused, t
  <2>2. CASE u # 0
    <3>1. CellText(k, bytes) = Hexadecimal(u)
      BY <1>11, <2>2 DEF CellText, FormatValue, u
    <3>2. u \in 0 .. Limit(LONG) - 1
      <4>1. Limit(k.size) <= Limit(LONG) /\ Limit(k.size) \in Nat /\ Limit(LONG) \in Nat
        <5>1. k.size \in Nat /\ LONG \in Nat /\ k.size <= LONG
          BY <1>0, <1>11
        <5> QED
          BY <5>1, Limits
      <4> QED
        BY <1>1, <4>1
    <3>3. w = IntToLe(u, k.size, FALSE)
      <4>1. ParseAddr(Hexadecimal(u)) = Read(u)
        BY <3>2, AddrRead
      <4> QED
        BY <1>11, <3>1, <4>1 DEF ParseEdit, Stored, Read
    <3> QED
      BY <1>2, <1>11, <3>3 DEF CellText, FormatValue, u
  <2> QED
    BY <2>1, <2>2
<1>12. CASE k.kind = "classptr"
  <2> DEFINE t == CellText(k, bytes)
  <2>1. t.form = "other"
    BY <1>12 DEF CellText, FormatValue, Other
  <2> HIDE DEF t
  <2>2. ParseEdit(k, t) = Refused
    BY <1>12, <2>1 DEF ParseEdit, ParseAddr, Stored, NoNumber
  <2> QED
    BY <2>2 DEF Refused, t
<1> QED
  BY <1>0, <1>4, <1>5, <1>6, <1>7, <1>8, <1>9, <1>10, <1>11, <1>12 DEF ValueKinds

\* A number that is typed is taken just when the node can hold it, and is then what
\* the node shows.
LEMMA TypedNumber ==
    ASSUME NEW k \in ValueNodes, k.kind # "text", NEW n \in Int,
           NEW w, w = ParseEdit(k, Decimal(n))
    PROVE  /\ w.ok => w.bytes \in NodeBytes(k)
           /\ k.kind \in {"int", "uint", "enum"} =>
                  /\ w.ok <=> Fits(k, n)
                  /\ w.ok => Shows(k, w.bytes, n)
<1>0. k.kind \in ValueKinds /\ k.size \in Nat \ {0} /\ (k.kind = "bool" => k.size = 1)
  BY ValueInputs
<1>1. ASSUME NEW i \in Int, w = IntToLe(i, k.size, FALSE)
      PROVE  /\ w.ok <=> i \in 0 .. Limit(k.size) - 1
             /\ w.ok => w.bytes \in NodeBytes(k) /\ Unsigned(w.bytes) = i
  <2>1. CASE w = Refused /\ i \notin 0 .. Limit(k.size) - 1
    BY <2>1 DEF Refused
  <2>2. CASE i \in 0 .. Limit(k.size) - 1 /\ w # Refused
    <3>1. PICK b \in [1 .. k.size -> Byte] : IntToLe(i, k.size, FALSE) = Taken(b) /\ Unsigned(b) = i
      BY <1>0, <2>2, StoresUnsigned
    <3>2. w = Taken(b)
      BY <1>1, <3>1
    <3> QED
      BY <2>2, <3>1, <3>2 DEF Taken, NodeBytes
  <2>3. \/ w = Refused /\ i \notin 0 .. Limit(k.size) - 1
        \/ i \in 0 .. Limit(k.size) - 1 /\ \E b \in [1 .. k.size -> Byte] : w = Taken(b)
    BY <1>0, <1>1, StoresUnsigned
  <2>4. \A b : Taken(b) # Refused
    BY DEF Taken, Refused
  <2> QED
    BY <2>1, <2>2, <2>3, <2>4
<1>2. ASSUME NEW i \in Int, w = IntToLe(i, k.size, TRUE)
      PROVE  /\ w.ok <=> i \in SignedRange(k.size)
             /\ w.ok => w.bytes \in NodeBytes(k) /\ Signed(w.bytes) = i
  <2>1. CASE w = Refused /\ i \notin SignedRange(k.size)
    BY <2>1 DEF Refused
  <2>2. CASE i \in SignedRange(k.size) /\ w # Refused
    <3>1. PICK b \in [1 .. k.size -> Byte] : IntToLe(i, k.size, TRUE) = Taken(b) /\ Signed(b) = i
      BY <1>0, <2>2, StoresSigned
    <3>2. w = Taken(b)
      BY <1>2, <3>1
    <3> QED
      BY <2>2, <3>1, <3>2 DEF Taken, NodeBytes
  <2>3. \/ w = Refused /\ i \notin SignedRange(k.size)
        \/ i \in SignedRange(k.size) /\ \E b \in [1 .. k.size -> Byte] : w = Taken(b)
    BY <1>0, <1>2, StoresSigned
  <2>4. \A b : Taken(b) # Refused
    BY DEF Taken, Refused
  <2> QED
    BY <2>1, <2>2, <2>3, <2>4
<1>3. ParseInt(Decimal(n)) = Read(n)
  BY DecimalRead
<1>4. CASE k.kind = "uint"
  <2>1. w = IntToLe(n, k.size, FALSE)
    BY <1>3, <1>4 DEF ParseEdit, Stored, Read
  <2>2. Fits(k, n) <=> n \in 0 .. Limit(k.size) - 1
    BY <1>4 DEF Fits
  <2>3. ASSUME Unsigned(w.bytes) = n PROVE Shows(k, w.bytes, n)
    BY <1>4, <2>3 DEF Shows, CellText, FormatValue
  <2> QED
    BY <1>1, <2>1, <2>2, <2>3
<1>5. CASE k.kind \in {"int", "enum"}
  <2>1. w = IntToLe(n, k.size, TRUE)
    <3>1. CASE k.kind = "int"
      BY <1>3, <3>1 DEF ParseEdit, Stored, Read
    <3>2. CASE k.kind = "enum"
      <4>1. \A i \in DOMAIN k.variants : Decimal(n) # Word(k.variants[i].name)
        BY DEF Word, Decimal, Numeral
      <4>2. ParseEdit(k, Decimal(n)) = Stored(ParseInt(Decimal(n)), k.size, TRUE)
        BY <3>2, <4>1 DEF ParseEdit
      <4>3. Stored(Read(n), k.size, TRUE) = IntToLe(n, k.size, TRUE)
        BY DEF Stored, Read
      <4> QED
        BY <1>3, <4>2, <4>3
    <3> QED
      BY <1>5, <3>1, <3>2
  <2>2. Fits(k, n) <=> n \in SignedRange(k.size)
    BY <1>5 DEF Fits, SignedRange
  <2>3. ASSUME Signed(w.bytes) = n PROVE Shows(k, w.bytes, n)
    BY <1>5, <2>3 DEF Shows, CellText, FormatValue
  <2> QED
    BY <1>2, <2>1, <2>2, <2>3
<1>6. ASSUME NEW p, p \in {NoNumber} \cup {Read(i) : i \in Int}, w = Stored(p, k.size, FALSE)
      PROVE  w.ok => w.bytes \in NodeBytes(k)
  <2>1. CASE p = NoNumber
    BY <1>6, <2>1 DEF NoNumber, Stored, Refused
  <2>2. CASE p \in {Read(i) : i \in Int}
    <3>1. PICK i \in Int : p = Read(i)
      BY <2>2
    <3>2. w = IntToLe(i, k.size, FALSE)
      BY <1>6, <3>1 DEF Stored, Read
    <3> QED
      BY <1>1, <3>2
  <2> QED
    BY <1>6, <2>1, <2>2
<1>7. CASE k.kind \in {"hex", "bits", "pointer", "classptr"}
  <2>1. PICK p \in {NoNumber} \cup {Read(i) : i \in Int} : w = Stored(p, k.size, FALSE)
    <3>1. CASE k.kind = "hex"
      <4>1. w = Stored(Read(n), k.size, FALSE)
        BY <1>3, <3>1 DEF ParseEdit
      <4> QED
        BY <4>1
    <3>2. CASE k.kind = "bits"
      <4>1. w = Stored(ParseBits(Decimal(n)), k.size, FALSE)
        BY <3>2 DEF ParseEdit
      <4>2. ParseBits(Decimal(n)) \in {Read(i) : i \in Int}
        BY TypedRead
      <4> QED
        BY <4>1, <4>2
    <3>3. CASE k.kind \in {"pointer", "classptr"}
      <4>1. w = Stored(ParseAddr(Decimal(n)), k.size, FALSE)
        BY <3>3 DEF ParseEdit
      <4>2. ParseAddr(Decimal(n)) \in {NoNumber} \cup {Read(i) : i \in Int}
        BY TypedRead
      <4> QED
        BY <4>1, <4>2
    <3> QED
      BY <1>7, <3>1, <3>2, <3>3
  <2> QED
    BY <1>6, <1>7, <2>1
<1>8. CASE k.kind = "bool"
  <2>1. w = Taken(<<1>>) \/ w = Taken(<<0>>) \/ w = Refused
    BY <1>8 DEF ParseEdit
  <2>2. <<0>> \in [1 .. 1 -> Byte] /\ <<1>> \in [1 .. 1 -> Byte]
    BY SmallBytes
  <2>3. <<0>> \in NodeBytes(k) /\ <<1>> \in NodeBytes(k)
    BY <1>0, <1>8, <2>2 DEF NodeBytes
  <2>4. w.ok => w.bytes \in NodeBytes(k)
    BY <2>1, <2>3 DEF Taken, Refused
  <2> QED
    BY <1>8, <2>4
<1> QED
  BY <1>0, <1>4, <1>5, <1>7, <1>8 DEF ValueKinds
-----------------------------------------------------------------------------
(* Cells.                                                                  *)

\* A cell holds a node with its bytes; what is written is what the text is read as.
CellInv ==
    /\ cell.node \in ValueNodes /\ cell.bytes \in NodeBytes(cell.node)
    /\ typed = <<>> \/ \E n \in Int : typed = <<n>> /\ cell.node.kind # "text"
    /\ written = <<>> \/
       written = <<ParseEdit(cell.node, IF typed = <<>> THEN CellText(cell.node, cell.bytes)
                                        ELSE Decimal(typed[1]))>>

\* It holds when the cell is opened,
LEMMA CellOpened == CellInit => CellInv
<1> SUFFICES ASSUME CellInit PROVE CellInv
  OBVIOUS
<1>1. PICK k \in ValueNodes : \E b \in [1 .. k.size -> Byte] : cell = [node |-> k, bytes |-> b]
  BY DEF CellInit
<1>2. PICK b \in [1 .. k.size -> Byte] : cell = [node |-> k, bytes |-> b]
  BY <1>1
<1>3. cell.node \in ValueNodes /\ cell.bytes \in NodeBytes(cell.node)
  BY <1>2 DEF NodeBytes
<1>4. typed = <<>> \/ \E n \in Int : typed = <<n>> /\ cell.node.kind # "text"
  BY ValueInputs DEF CellInit
<1> QED
  BY <1>3, <1>4 DEF CellInv, CellInit

\* is kept when it is left,
LEMMA CellLeft == CellInv /\ [Commit]_cellVars => CellInv'
BY DEF CellInv, Commit, cellVars

\* and says that the edit is exact.
LEMMA CellExact == CellInv => EditsExact
<1> SUFFICES ASSUME CellInv, written # <<>> PROVE EditsExact
  BY DEF EditsExact
<1> DEFINE k == cell.node
           w == written[1]
<1>1. k \in ValueNodes /\ cell.bytes \in NodeBytes(k)
  BY DEF CellInv
<1>2. w = ParseEdit(k, IF typed = <<>> THEN CellText(k, cell.bytes) ELSE Decimal(typed[1]))
  BY DEF CellInv
<1>3. ASSUME NEW b \in NodeBytes(k) PROVE Len(b) = k.size /\ \A i \in 1 .. k.size : b[i] \in Byte
  <2>1. k.size \in Nat
    BY <1>1, ValueInputs
  <2> QED
    BY <1>3, <2>1 DEF NodeBytes
<1> HIDE DEF k, w
<1>4. CASE typed = <<>>
  <2>1. w.ok => w.bytes \in NodeBytes(k) /\ CellText(k, w.bytes) = CellText(k, cell.bytes)
    BY <1>1, <1>2, <1>4, PutBack
  <2> QED
    BY <1>3, <1>4, <2>1 DEF EditsExact, k, w
<1>5. CASE typed # <<>>
  <2>1. typed[1] \in Int /\ k.kind # "text"
    BY <1>5 DEF CellInv, k
  <2>2. w = ParseEdit(k, Decimal(typed[1]))
    BY <1>2, <1>5
  <2>3. /\ w.ok => w.bytes \in NodeBytes(k)
        /\ k.kind \in {"int", "uint", "enum"} =>
               /\ w.ok <=> Fits(k, typed[1])
               /\ w.ok => Shows(k, w.bytes, typed[1])
    BY <1>1, <2>1, <2>2, TypedNumber
  <2> QED
    BY <1>3, <1>5, <2>3 DEF EditsExact, k, w
<1> QED
  BY <1>4, <1>5

\* For every node, every bytes of it and every number that is typed: what is written
\* takes the node's own bytes; what is shown and put back changes nothing that is
\* shown; and a number is taken just when the node can hold it, and is then shown.
THEOREM EditsAreExact == CellSpec => []EditsExact
<1>1. CellInit => CellInv
  BY CellOpened
<1>2. CellInv /\ [Commit]_cellVars => CellInv'
  BY CellLeft
<1>3. CellInv => EditsExact
  BY CellExact
<1> QED
  BY <1>1, <1>2, <1>3, PTL DEF CellSpec
=============================================================================
