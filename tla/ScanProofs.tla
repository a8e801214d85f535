----------------------------- MODULE ScanProofs -----------------------------
(***************************************************************************)
(* What ScanJob guarantees however many runs a session starts, in any      *)
(* order of the frame's steps and the workers'; and what PointerScan finds *)
(* in whatever is mapped, whatever the target does while it is read.       *)
(***************************************************************************)
EXTENDS ScanJob, PointerScan, FiniteSetTheorems, SequenceTheorems, TLAPS

-----------------------------------------------------------------------------
(* The window and its workers.                                             *)

\* Runs that have not been started have neither a worker nor a flag.
Unstarted == \A r \in Runs : r > current => worker[r].at = "unborn" /\ ~abandoned[r]

\* What the frame has done and seen before each step of a click.
Clicking ==
    /\ frame = "drawing" /\ ~running => state.tag # "Running"
    /\ frame = "starting" =>
           state.tag # "Running" /\ abandoned[current] /\ current < MaxRuns
    /\ frame = "spawning" =>
           current \in Runs /\ worker[current].at = "unborn" /\ ~abandoned[current]

\* Only the run whose flag the job holds is in flight and listened to.
OnlyCurrent == \A r \in Runs : InFlight(r) /\ ~abandoned[r] => r = current

\* A run in the window is one that was started: the current one while it runs,
\* and one whose worker has ended when its outcome is shown.
Shown ==
    /\ state.tag = "Running" => current \in Runs
    /\ \A r \in Runs : state.tag \in Outcomes /\ state.run = r => worker[r].at = "ended"

\* A worker that is done scanning has an outcome to report.
Outcome == \A r \in Runs :
    worker[r].at \in {"finished", "reporting"} => worker[r].outcome \in Outcomes

IInv ==
    /\ TypeOK
    /\ Unstarted
    /\ Clicking
    /\ OnlyCurrent
    /\ Shown
    /\ Outcome
    /\ RunningIsBacked

\* The window of a new session is idle and has no run in flight.
LEMMA InitIInv == Init => IInv
<1> SUFFICES ASSUME Init PROVE IInv
  OBVIOUS
<1>1. TypeOK
  BY DEF Init, TypeOK, Outcomes
<1>2. Unstarted /\ Clicking /\ OnlyCurrent /\ Shown /\ Outcome /\ RunningIsBacked
  BY DEF Init, Unstarted, Clicking, OnlyCurrent, Shown, Outcome, RunningIsBacked, InFlight,
         Outcomes, Runs, NoRun
<1> QED
  BY <1>1, <1>2 DEF IInv

\* Every step of the frame and of a worker keeps the invariant.
LEMMA NextIInv == IInv /\ [Next]_vars => IInv'
<1> SUFFICES ASSUME IInv, [Next]_vars PROVE IInv'
  OBVIOUS
<1> USE ScanAssumption DEF IInv, TypeOK, Unstarted, Clicking, OnlyCurrent, Shown,
        Outcome, RunningIsBacked, InFlight, Runs, NoRun, Outcomes
<1>1. CASE BeginFrame
  BY <1>1 DEF BeginFrame
<1>2. CASE EndFrame
  BY <1>2 DEF EndFrame
<1>3. CASE Disown
  <2>1. (TypeOK /\ Unstarted)'
    BY <1>3 DEF Disown
  <2>2. Clicking'
    BY <1>3 DEF Disown
  <2>3. (OnlyCurrent /\ Shown /\ Outcome /\ RunningIsBacked)'
    BY <1>3 DEF Disown
  <2> QED
    BY <2>1, <2>2, <2>3
<1>4. CASE SetRunning
  <2>1. TypeOK'
    BY <1>4 DEF SetRunning
  <2>2. (Unstarted /\ Clicking)'
    BY <1>4 DEF SetRunning
  <2>3. (OnlyCurrent /\ Shown /\ Outcome /\ RunningIsBacked)'
    BY <1>4 DEF SetRunning
  <2> QED
    BY <2>1, <2>2, <2>3
<1>5. CASE Spawn
  <2>1. (TypeOK /\ Unstarted)'
    BY <1>5 DEF Spawn
  <2>2. Clicking'
    BY <1>5 DEF Spawn
  <2>3. (OnlyCurrent /\ Shown /\ Outcome /\ RunningIsBacked)'
    BY <1>5 DEF Spawn
  <2> QED
    BY <2>1, <2>2, <2>3
<1>6. CASE Abandon
  <2>1. (TypeOK /\ Unstarted)'
    BY <1>6 DEF Abandon
  <2>2. Clicking'
    BY <1>6 DEF Abandon
  <2>3. (OnlyCurrent /\ Shown /\ Outcome /\ RunningIsBacked)'
    BY <1>6 DEF Abandon
  <2> QED
    BY <2>1, <2>2, <2>3
<1>7. CASE SetIdle
  <2>1. (TypeOK /\ Unstarted)'
    BY <1>7 DEF SetIdle
  <2>2. Clicking'
    BY <1>7 DEF SetIdle
  <2>3. (OnlyCurrent /\ Shown /\ Outcome /\ RunningIsBacked)'
    BY <1>7 DEF SetIdle
  <2> QED
    BY <2>1, <2>2, <2>3
<1>8. ASSUME NEW r \in Runs, NEW outcome \in Outcomes, Finish(r, outcome) PROVE IInv'
  <2>1. (TypeOK /\ Unstarted)'
    BY <1>8 DEF Finish
  <2>2. Clicking'
    BY <1>8 DEF Finish
  <2>3. (OnlyCurrent /\ Shown /\ Outcome /\ RunningIsBacked)'
    BY <1>8 DEF Finish
  <2> QED
    BY <2>1, <2>2, <2>3
<1>9. ASSUME NEW r \in Runs, LoadFlag(r) PROVE IInv'
  <2>1. (TypeOK /\ Unstarted)'
    BY <1>9 DEF LoadFlag
  <2>2. Clicking'
    BY <1>9 DEF LoadFlag
  <2>3. (OnlyCurrent /\ Shown /\ Outcome /\ RunningIsBacked)'
    BY <1>9 DEF LoadFlag
  <2> QED
    BY <2>1, <2>2, <2>3
<1>10. ASSUME NEW r \in Runs, Report(r) PROVE IInv'
  <2>1. (TypeOK /\ Unstarted)'
    BY <1>10 DEF Report
  <2>2. Clicking'
    BY <1>10 DEF Report
  <2>3. (OnlyCurrent /\ Shown /\ Outcome /\ RunningIsBacked)'
    BY <1>10 DEF Report
  <2> QED
    BY <2>1, <2>2, <2>3
<1>11. CASE UNCHANGED vars
  BY <1>11 DEF vars
<1> QED
  BY <1>1, <1>2, <1>3, <1>4, <1>5, <1>6, <1>7, <1>8, <1>9, <1>10, <1>11
  DEF Next, Gui, Clicked, Worker

\* The invariant holds in every state, for any number of runs.
THEOREM Invariance == Spec => []IInv
<1>1. Init => IInv
  BY InitIInv
<1>2. IInv /\ [Next]_vars => IInv'
  BY NextIInv
<1> QED
  BY <1>1, <1>2, PTL DEF Spec

\* Every variable of the window, its flags and its workers keeps its type.
THEOREM TypeCorrect == Spec => []TypeOK
<1>1. IInv => TypeOK
  BY DEF IInv
<1> QED
  BY <1>1, Invariance, PTL

\* The window never waits for a worker that is gone or is not listened to.
THEOREM Backed == Spec => []RunningIsBacked
<1>1. IInv => RunningIsBacked
  BY DEF IInv
<1> QED
  BY <1>1, Invariance, PTL

\* At most one result is awaited, however many workers are still about.
THEOREM Awaited == Spec => []OneAwaited
<1>1. IInv => OneAwaited
  <2> SUFFICES ASSUME OnlyCurrent PROVE OneAwaited
    BY DEF IInv
  <2> DEFINE A == {r \in Runs : InFlight(r) /\ ~abandoned[r]}
  <2>1. A \subseteq {current}
    BY DEF OnlyCurrent
  <2>2. IsFiniteSet({current}) /\ Cardinality({current}) = 1
    BY FS_Singleton
  <2>3. Cardinality(A) <= 1
    BY <2>1, <2>2, FS_Subset
  <2> QED
    BY <2>3 DEF OneAwaited
<1> QED
  BY <1>1, Invariance, PTL

\* A run disowned before its worker looked at the flag is never shown.
THEOREM Silent == Spec => DisownedStaysSilent
<1>1. ASSUME NEW r \in Runs
      PROVE  Spec => [](abandoned[r] /\ worker[r].at \in {"scanning", "finished"}
                          => [](state.tag \in Outcomes => state.run # r))
  <2> DEFINE Disowned == abandoned[r] /\ worker[r].at \in {"scanning", "finished"}
             Hidden   == state.tag \in Outcomes => state.run # r
             Quiet    == abandoned[r] /\ worker[r].at \in {"scanning", "finished", "ended"}
                           /\ Hidden
  <2>1. IInv /\ Disowned => Quiet
    BY DEF IInv, Shown
  <2>2. IInv /\ Quiet /\ [Next]_vars => Quiet'
    <3> SUFFICES ASSUME IInv, Quiet, [Next]_vars PROVE Quiet'
      OBVIOUS
    <3> USE DEF IInv, TypeOK, Runs, NoRun, Outcomes
    <3>1. CASE BeginFrame
      BY <3>1 DEF BeginFrame
    <3>2. CASE EndFrame
      BY <3>2 DEF EndFrame
    <3>3. CASE Disown
      BY <3>3 DEF Disown
    <3>4. CASE SetRunning
      BY <3>4 DEF SetRunning
    <3>5. CASE Spawn
      BY <3>5 DEF Spawn, Clicking
    <3>6. CASE Abandon
      BY <3>6 DEF Abandon
    <3>7. CASE SetIdle
      BY <3>7 DEF SetIdle
    <3>8. CASE UNCHANGED vars
      BY <3>8 DEF vars
    <3>9. ASSUME NEW s \in Runs, NEW outcome \in Outcomes, Finish(s, outcome) PROVE Quiet'
      BY <3>9 DEF Finish
    <3>10. ASSUME NEW s \in Runs, LoadFlag(s) PROVE Quiet'
      BY <3>10 DEF LoadFlag
    <3>11. ASSUME NEW s \in Runs, Report(s) PROVE Quiet'
      BY <3>11 DEF Report
    <3> QED
      BY <3>1, <3>2, <3>3, <3>4, <3>5, <3>6, <3>7, <3>8, <3>9, <3>10, <3>11
      DEF Next, Gui, Clicked, Worker
  <2>3. Quiet => Hidden
    OBVIOUS
  <2> QED
    BY <2>1, <2>2, <2>3, Invariance, PTL DEF Spec
<1> QED
  BY <1>1 DEF DisownedStaysSilent

-----------------------------------------------------------------------------
(* Induction along the natural numbers, and recursion along them.          *)

\* A set of natural numbers has a least one.
LEMMA LeastNatural ==
    ASSUME NEW T \in SUBSET Nat, T # {}
    PROVE  \E x \in T : \A y \in T : x <= y
<1>1. \E x \in T : \A y \in T : ~(<<y, x>> \in OpToRel(<, Nat))
  BY NatLessThanWellFounded, WFMin
<1>2. \A x, y \in Nat : ~(<<y, x>> \in OpToRel(<, Nat)) => x <= y
  BY DEF OpToRel
<1> QED
  BY <1>1, <1>2

\* What holds of 0 and passes on to the next up to n holds of all up to n.
LEMMA UpTo ==
    ASSUME NEW n \in Nat, NEW S, 0 \in S, \A i \in 1 .. n : i - 1 \in S => i \in S
    PROVE  \A i \in 0 .. n : i \in S
<1> DEFINE T == {i \in 0 .. n : i \notin S}
<1> SUFFICES ASSUME T # {} PROVE FALSE
  OBVIOUS
<1>1. PICK m \in T : \A y \in T : m <= y
  <2>1. T \in SUBSET Nat
    OBVIOUS
  <2> QED
    BY <2>1, LeastNatural
<1>2. m \in 1 .. n /\ m - 1 \in 0 .. n /\ ~(m <= m - 1)
  BY <1>1
<1> QED
  BY <1>1, <1>2

\* A function that is defined along 0 .. n by what it is one before.
Steps(n, X) == [1 .. n -> [X -> X]]

Walks(n, X, a, g) ==
    {f \in [0 .. n -> X] : f[0] = a /\ \A i \in 1 .. n : f[i] = g[i][f[i - 1]]}

LEMMA Along ==
    ASSUME NEW n \in Nat, NEW X, NEW a \in X, NEW g \in Steps(n, X)
    PROVE  Walks(n, X, a, g) # {}
<1> USE DEF Steps, Walks
<1> DEFINE Good(m) == {f \in [0 .. m -> X] :
                         f[0] = a /\ \A i \in 1 .. m : f[i] = g[i][f[i - 1]]}
           S == {m \in 0 .. n : Good(m) # {}}
<1>1. 0 \in S
  <2> DEFINE f == [i \in {0} |-> a]
  <2>1. 0 .. 0 = {0} /\ 1 .. 0 = {}
    OBVIOUS
  <2>2. f \in Good(0)
    BY <2>1
  <2> HIDE DEF Good, f
  <2> QED
    BY <2>2
<1>2. ASSUME NEW m \in 1 .. n, m - 1 \in S PROVE m \in S
  <2> DEFINE k == m - 1
  <2>1. /\ k \in 0 .. k /\ m \notin 0 .. k /\ 0 \in 0 .. k
        /\ \A i \in 0 .. m : i = m \/ i \in 0 .. k
        /\ \A i \in 1 .. m : i = m \/ i \in 1 .. k
        /\ \A i \in 1 .. k : i \in 0 .. k /\ i - 1 \in 0 .. k /\ i - 1 # m /\ i - 1 \in 0 .. m
        /\ 0 .. k \subseteq 0 .. m /\ m \in 0 .. m
    OBVIOUS
  <2>2. PICK f \in [0 .. k -> X] : f[0] = a /\ \A i \in 1 .. k : f[i] = g[i][f[i - 1]]
    BY <1>2
  <2> DEFINE h == [i \in 0 .. m |-> IF i = m THEN g[m][f[k]] ELSE f[i]]
  <2>3. h \in [0 .. m -> X]
    BY <2>1, <2>2
  <2>4. h[0] = a
    BY <2>1, <2>2
  <2>5. h[m] = g[m][h[k]]
    BY <2>1, <2>2
  <2>6. \A i \in 1 .. k : h[i] = f[i] /\ h[i - 1] = f[i - 1]
    BY <2>1
  <2>7. m - 1 = k
    OBVIOUS
  <2> HIDE DEF h, k
  <2>8. \A i \in 1 .. m : h[i] = g[i][h[i - 1]]
    BY <2>1, <2>2, <2>5, <2>6, <2>7
  <2> QED
    BY <2>3, <2>4, <2>8
<1>3. n \in S
  <2>1. \A i \in 1 .. n : i - 1 \in S => i \in S
    BY <1>2
  <2>2. n \in 0 .. n
    OBVIOUS
  <2> HIDE DEF S
  <2>3. \A i \in 0 .. n : i \in S
    BY <1>1, <2>1, UpTo
  <2> QED
    BY <2>2, <2>3
<1> QED
  BY <1>3


-----------------------------------------------------------------------------
(* The operators of a scan, of the scan and of the slots.                  *)

MappedIn(sc, a) == \E i \in DOMAIN sc.regions : a \in Cells(sc.regions[i])

ModuleIn(sc, a) ==
    IF MappedIn(sc, a)
    THEN sc.regions[CHOOSE i \in DOMAIN sc.regions : a \in Cells(sc.regions[i])].module
    ELSE NoModule

BaseIn(sc, module) ==
    LET its == {i \in DOMAIN sc.regions : sc.regions[i].module = module}
    IN  sc.regions[CHOOSE i \in its : \A j \in its : i <= j].start

PointerIn(sc, image, a) == IF sc.ptr = 1 THEN image[a] ELSE WordAt(image, a)

HeldIn(sc, w, S) ==
    {PointerIn(sc, p[1], p[2]) : p \in {p \in w \X S : Readable(p[1], p[2], sc.ptr)}}

FollowIn(sc, w, path) ==
    LET at[k \in 0 .. Len(path.offsets)] ==
            IF k = 0 THEN {BaseIn(sc, path.module) + path.base}
            ELSE {v + path.offsets[k] : v \in HeldIn(sc, w, at[k - 1])}
    IN  at[Len(path.offsets)]

Holds(sc, sl, a, h) ==
    h \in DOMAIN sl /\ a - sl[h] \in {off \in 0 .. MAX_OFFSET : off % sc.ptr = 0}

Plain(sc, a) == ModuleIn(sc, a) = NoModule

AwayIn(sc, sl) ==
    LET at[n \in 0 .. MAX_HOPS] ==
            IF n = 0 THEN {sc.target}
            ELSE {h \in DOMAIN sl : \E a \in at[n - 1] :
                     (n = 1 \/ ModuleIn(sc, a) = NoModule)
                        /\ a - sl[h] \in {off \in 0 .. MAX_OFFSET : off % sc.ptr = 0}}
    IN  at

LengthsIn(sc, sl) ==
    LET away == AwayIn(sc, sl)
    IN  {n \in 1 .. MAX_HOPS : \E a \in away[n] : ModuleIn(sc, a) # NoModule}

LEMMA Twins ==
    /\ \A a : IsMapped(a) = MappedIn(scan, a)
    /\ \A a : ModuleOf(a) = ModuleIn(scan, a)
    /\ \A m : BaseOf(m) = BaseIn(scan, m)
    /\ \A i, a : PointerAt(i, a) = PointerIn(scan, i, a)
    /\ Offsets = {off \in 0 .. MAX_OFFSET : off % scan.ptr = 0}
<1>1. \A a : IsMapped(a) = MappedIn(scan, a)
  BY DEF IsMapped, MappedIn
<1>2. \A a : ModuleOf(a) = ModuleIn(scan, a)
  BY DEF ModuleOf, ModuleIn, IsMapped, MappedIn
<1>3. \A m : BaseOf(m) = BaseIn(scan, m)
  BY DEF BaseOf, BaseIn
<1>4. \A i, a : PointerAt(i, a) = PointerIn(scan, i, a)
  BY DEF PointerAt, PointerIn
<1>5. Offsets = {off \in 0 .. MAX_OFFSET : off % scan.ptr = 0}
  BY DEF Offsets
<1> QED
  BY <1>1, <1>2, <1>3, <1>4, <1>5

LEMMA FollowTwin == ASSUME NEW path PROVE Follow(path) = FollowIn(scan, was, path)
BY DEF Follow, FollowIn, BaseOf, BaseIn, Held, HeldIn, PointerAt, PointerIn

LEMMA AwayTwin == Away = AwayIn(scan, slots)
BY DEF Away, AwayIn, ModuleOf, ModuleIn, IsMapped, MappedIn, Offsets

LEMMA LengthsTwin == Lengths = LengthsIn(scan, slots)
BY AwayTwin, Twins DEF Lengths, LengthsIn

\* How far the slots are away: what each length of AwayIn is.
LEMMA AwayIs ==
    ASSUME NEW sc, NEW sl, MAX_HOPS \in Nat
    PROVE  /\ AwayIn(sc, sl)[0] = {sc.target}
           /\ \A n \in 1 .. MAX_HOPS :
                  AwayIn(sc, sl)[n] =
                      {h \in DOMAIN sl : \E a \in AwayIn(sc, sl)[n - 1] :
                           (n = 1 \/ Plain(sc, a)) /\ Holds(sc, sl, a, h)}
<1> DEFINE D == MAX_HOPS
           back(n, S) == {h \in DOMAIN sl : \E a \in S : (n = 1 \/ Plain(sc, a)) /\ Holds(sc, sl, a, h)}
           X == SUBSET (DOMAIN sl \cup {sc.target})
           g == [n \in 1 .. D |-> [S \in X |-> back(n, S)]]
<1>1. D \in Nat /\ {sc.target} \in X
  OBVIOUS
<1>2. g \in Steps(D, X)
  BY DEF Steps
<1>3. PICK f \in [0 .. D -> X] : f[0] = {sc.target} /\ \A n \in 1 .. D : f[n] = g[n][f[n - 1]]
  <2> HIDE DEF g, X, D
  <2>1. Walks(D, X, {sc.target}, g) # {}
    BY <1>1, <1>2, Along
  <2> QED
    BY <2>1 DEF Walks
<1>4. \A n \in 1 .. D : f[n] = back(n, f[n - 1])
  <2> SUFFICES ASSUME NEW n \in 1 .. D PROVE f[n] = back(n, f[n - 1])
    OBVIOUS
  <2>1. f[n - 1] \in X
    BY <1>1, <1>3
  <2> HIDE DEF X, D, back
  <2> QED
    BY <1>3, <2>1
<1> HIDE DEF g, X
<1>5. f = [n \in 0 .. D |-> IF n = 0 THEN {sc.target} ELSE back(n, f[n - 1])]
  <2>1. \A n \in 0 .. D : n = 0 \/ n \in 1 .. D
    BY <1>1
  <2> HIDE DEF D, back
  <2> QED
    BY <1>3, <1>4, <2>1
<1> DEFINE at[n \in 0 .. MAX_HOPS] == IF n = 0 THEN {sc.target} ELSE back(n, at[n - 1])
<1>6. at = [n \in 0 .. D |-> IF n = 0 THEN {sc.target} ELSE back(n, at[n - 1])]
  <2> HIDE DEF back
  <2> QED
    BY <1>5
<1>7. AwayIn(sc, sl) = at
  BY DEF AwayIn, Plain, Holds
<1>8. at[0] = {sc.target} /\ \A n \in 1 .. D : at[n] = back(n, at[n - 1])
  <2>1. 0 \in 0 .. D /\ \A n \in 1 .. D : n \in 0 .. D /\ n # 0
    BY <1>1
  <2> HIDE DEF at, back
  <2> QED
    BY <1>6, <2>1
<1> HIDE DEF at
<1> QED
  BY <1>7, <1>8

\* An address that holds one of those a hop nearer is that far away.
LEMMA AwayStep ==
    ASSUME NEW sc, NEW sl, MAX_HOPS \in Nat, NEW n \in 0 .. MAX_HOPS - 1, NEW h,
           NEW a \in AwayIn(sc, sl)[n], n = 0 \/ Plain(sc, a), Holds(sc, sl, a, h)
    PROVE  h \in AwayIn(sc, sl)[n + 1]
<1>1. n + 1 \in 1 .. MAX_HOPS /\ (n + 1) - 1 = n /\ (n + 1 = 1 \/ Plain(sc, a))
  OBVIOUS
<1>2. h \in DOMAIN sl
  BY DEF Holds
<1> HIDE DEF AwayIn
<1> QED
  BY <1>1, <1>2, AwayIs


\* What a slot that can be read holds is a number.
LEMMA HeldNat ==
    ASSUME NEW sc \in Scans, NEW w \in SUBSET Images, NEW S \in SUBSET Nat
    PROVE  HeldIn(sc, w, S) \in SUBSET Nat
<1> SUFFICES ASSUME NEW m \in w, NEW a \in S, Readable(m, a, sc.ptr) PROVE PointerIn(sc, m, a) \in Nat
  BY DEF HeldIn
<1>1. sc.ptr \in {1, 2} /\ \A b \in DOMAIN m : m[b] \in Nat
  BY ScanInputs
<1>2. CASE sc.ptr = 1
  BY <1>1, <1>2 DEF Readable, PointerIn
<1>3. CASE sc.ptr = 2
  <2>1. a \in a .. a + sc.ptr - 1 /\ a + 1 \in a .. a + sc.ptr - 1
    BY <1>3
  <2>2. m[a] \in Nat /\ m[a + 1] \in Nat
    BY <1>1, <2>1 DEF Readable
  <2>3. \A x, y, z \in Nat : x + y * z \in Nat
    OBVIOUS
  <2>4. WordAt(m, a) \in Nat
    BY <2>2, <2>3, CellAssumption DEF WordAt
  <2> QED
    BY <1>3, <2>4 DEF PointerIn
<1> QED
  BY <1>1, <1>2, <1>3

Root(sc, path) == BaseIn(sc, path.module) + path.base

\* What a path leads to after each of its hops.
Follows(sc, w, path) ==
    {f \in [0 .. Len(path.offsets) -> SUBSET Nat] :
        /\ f[0] = {Root(sc, path)}
        /\ \A k \in 1 .. Len(path.offsets) :
               f[k] = {v + path.offsets[k] : v \in HeldIn(sc, w, f[k - 1])}}

LEMMA FollowIs ==
    ASSUME NEW sc \in Scans, NEW w \in SUBSET Images, NEW path, path.offsets \in Seq(Nat),
           Root(sc, path) \in Nat
    PROVE  \E f \in Follows(sc, w, path) : FollowIn(sc, w, path) = f[Len(path.offsets)]
<1> DEFINE offs == path.offsets
           D    == Len(offs)
           X    == SUBSET Nat
           onto(k, S) == {v + offs[k] : v \in HeldIn(sc, w, S)}
           g    == [k \in 1 .. D |-> [S \in X |-> onto(k, S)]]
<1>1. D \in Nat /\ {Root(sc, path)} \in X
  OBVIOUS
<1>2. g \in Steps(D, X)
  <2>1. ASSUME NEW k \in 1 .. D, NEW S \in X PROVE onto(k, S) \in X
    <3>1. offs[k] \in Nat
      OBVIOUS
    <3> QED
      BY <3>1, HeldNat
  <2> HIDE DEF onto, X, D
  <2> QED
    BY <2>1 DEF Steps
<1>3. PICK f \in [0 .. D -> X] : f[0] = {Root(sc, path)} /\ \A k \in 1 .. D : f[k] = g[k][f[k - 1]]
  <2> HIDE DEF g, X, D
  <2>1. Walks(D, X, {Root(sc, path)}, g) # {}
    BY <1>1, <1>2, Along
  <2> QED
    BY <2>1 DEF Walks
<1>4. \A k \in 1 .. D : f[k] = onto(k, f[k - 1])
  <2> SUFFICES ASSUME NEW k \in 1 .. D PROVE f[k] = onto(k, f[k - 1])
    OBVIOUS
  <2>1. f[k - 1] \in X
    BY <1>1, <1>3
  <2> HIDE DEF X, D, onto
  <2> QED
    BY <1>3, <2>1
<1>5. f \in Follows(sc, w, path)
  BY <1>3, <1>4 DEF Follows
<1> HIDE DEF g, X
<1>6. f = [k \in 0 .. D |-> IF k = 0 THEN {Root(sc, path)} ELSE onto(k, f[k - 1])]
  <2>1. \A k \in 0 .. D : k = 0 \/ k \in 1 .. D
    BY <1>1
  <2> HIDE DEF D, onto
  <2> QED
    BY <1>3, <1>4, <2>1
<1> DEFINE at[k \in 0 .. Len(path.offsets)] ==
            IF k = 0 THEN {BaseIn(sc, path.module) + path.base}
            ELSE {v + path.offsets[k] : v \in HeldIn(sc, w, at[k - 1])}
<1>7. at = [k \in 0 .. D |-> IF k = 0 THEN {Root(sc, path)} ELSE onto(k, at[k - 1])]
  BY <1>6 DEF Root
<1>8. FollowIn(sc, w, path) = at[D]
  BY DEF FollowIn
<1> HIDE DEF at
<1>9. at = f
  <2> DEFINE S == {k \in 0 .. D : at[k] = f[k]}
  <2>1. 0 \in 0 .. D /\ \A k \in 1 .. D : k \in 0 .. D /\ k # 0 /\ k - 1 \in 0 .. D
    BY <1>1
  <2> HIDE DEF D, onto
  <2>2. 0 \in S
    BY <1>6, <1>7, <2>1
  <2>3. ASSUME NEW k \in 1 .. D, k - 1 \in S PROVE k \in S
    BY <1>6, <1>7, <2>1, <2>3
  <2>4. \A k \in 0 .. D : k \in S
    <3>1. \A k \in 1 .. D : k - 1 \in S => k \in S
      BY <2>3
    <3> HIDE DEF S
    <3> QED
      BY <1>1, <2>2, <3>1, UpTo
  <2>5. at = [k \in 0 .. D |-> at[k]] /\ f = [k \in 0 .. D |-> f[k]]
    BY <1>6, <1>7
  <2> QED
    BY <2>4, <2>5
<1> QED
  BY <1>5, <1>8, <1>9

\* A module that an address is within starts somewhere.
LEMMA ModuleBase ==
    ASSUME NEW sc \in Scans, NEW a, ~Plain(sc, a)
    PROVE  ModuleIn(sc, a) \in Modules /\ BaseIn(sc, ModuleIn(sc, a)) \in Nat
<1> DEFINE rs == sc.regions
           m  == ModuleIn(sc, a)
           its == {i \in DOMAIN rs : rs[i].module = m}
<1>1. rs \in Seq(RegionType)
  BY ScanInputs
<1>2. PICK i \in DOMAIN rs : m = rs[i].module
  <2>1. MappedIn(sc, a) /\ m = rs[CHOOSE i \in DOMAIN rs : a \in Cells(rs[i])].module
    BY DEF Plain, ModuleIn
  <2>2. PICK i \in DOMAIN rs : a \in Cells(rs[i])
    BY <2>1 DEF MappedIn
  <2>3. (CHOOSE k \in DOMAIN rs : a \in Cells(rs[k])) \in DOMAIN rs
    BY <2>2
  <2> QED
    BY <2>1, <2>3
<1>3. m \in Modules
  <2>1. rs[i] \in RegionType
    BY <1>1
  <2>2. rs[i].module \in Modules \cup {NoModule}
    BY <2>1 DEF RegionType
  <2> QED
    BY <1>2, <2>2 DEF Plain
<1>4. \E j \in its : \A k \in its : j <= k
  <2>1. its \in SUBSET Nat
    BY <1>1
  <2>2. its # {}
    BY <1>2
  <2> HIDE DEF its
  <2> QED
    BY <2>1, <2>2, LeastNatural
<1> DEFINE b == CHOOSE j \in its : \A k \in its : j <= k
<1>5. b \in its
  <2> HIDE DEF its
  <2> QED
    BY <1>4
<1>6. BaseIn(sc, m) = rs[b].start
  BY DEF BaseIn
<1> HIDE DEF b, m
<1>7. rs[b] \in RegionType
  BY <1>1, <1>5
<1>8. rs[b].start \in Nat
  BY <1>7 DEF RegionType
<1> QED
  BY <1>3, <1>6, <1>8 DEF m

-----------------------------------------------------------------------------
(* The ways to the target.                                                 *)

\* The addresses passed on the way from one to another: what each slot holds, and
\* the offset there.
Ways(sl, from, tail, to) ==
    {p \in [0 .. Len(tail) -> Nat] :
        /\ p[0] = from /\ p[Len(tail)] = to
        /\ \A k \in 1 .. Len(tail) : p[k - 1] \in DOMAIN sl /\ p[k] = sl[p[k - 1]] + tail[k]}

Leads(sl, from, tail, to) == Ways(sl, from, tail, to) # {}

\* A slot that holds a pointer to a way leads to where the way leads.
LEMMA LeadsOn ==
    ASSUME NEW sl, NEW tail \in Seq(Nat), NEW to, NEW h \in DOMAIN sl, h \in Nat, NEW off \in Nat,
           Leads(sl, sl[h] + off, tail, to)
    PROVE  Leads(sl, h, <<off>> \o tail, to)
<1> DEFINE n == Len(tail)
           more == <<off>> \o tail
<1>1. PICK p \in Ways(sl, sl[h] + off, tail, to) : TRUE
  BY DEF Leads
<1>2. /\ p \in [0 .. n -> Nat] /\ p[0] = sl[h] + off /\ p[n] = to
      /\ \A k \in 1 .. n : p[k - 1] \in DOMAIN sl /\ p[k] = sl[p[k - 1]] + tail[k]
  BY <1>1 DEF Ways
<1>3. /\ n \in Nat /\ Len(more) = n + 1
      /\ more[1] = off /\ \A k \in 2 .. n + 1 : more[k] = tail[k - 1]
  OBVIOUS
<1> HIDE DEF more, n
<1> DEFINE q == [k \in 0 .. n + 1 |-> IF k = 0 THEN h ELSE p[k - 1]]
<1>4. q \in [0 .. n + 1 -> Nat]
  <2>1. \A k \in 0 .. n + 1 : k = 0 \/ k - 1 \in 0 .. n
    BY <1>3
  <2> QED
    BY <1>2, <2>1
<1>5. q[0] = h /\ q[n + 1] = to /\ \A k \in 1 .. n + 1 : q[k] = p[k - 1]
  BY <1>2, <1>3
<1> HIDE DEF q
<1>6. ASSUME NEW k \in 1 .. n + 1 PROVE q[k - 1] \in DOMAIN sl /\ q[k] = sl[q[k - 1]] + more[k]
  <2>1. CASE k = 1
    BY <1>2, <1>3, <1>5, <2>1
  <2>2. CASE k \in 2 .. n + 1
    <3>1. k - 1 \in 1 .. n /\ k - 1 \in 1 .. n + 1
      BY <1>3, <2>2
    <3> QED
      BY <1>2, <1>3, <1>5, <2>2, <3>1
  <2> QED
    BY <1>3, <2>1, <2>2
<1>7. q \in Ways(sl, h, more, to)
  BY <1>3, <1>4, <1>5, <1>6 DEF Ways
<1> QED
  BY <1>7 DEF Leads, more

\* The slots that are recorded, and that were read so at some time.
WereRead(sc, w, sl) ==
    \A h \in DOMAIN sl :
        /\ h \in Nat /\ sl[h] \in Nat
        /\ \E m \in w : Readable(m, h, sc.ptr) /\ sl[h] = PointerIn(sc, m, h)

Unmoved(w) == \A x, y \in w : x = y

\* A way leads where its path is followed to, and nowhere else in a target that
\* kept still.
PathOf(sc, w, sl, to, path) ==
    /\ sc \in Scans /\ w \subseteq Images /\ WereRead(sc, w, sl)
    /\ path.offsets \in Seq(Nat) /\ Root(sc, path) \in Nat
    /\ Leads(sl, Root(sc, path), path.offsets, to)

LEMMA LeadsFollow ==
    ASSUME NEW sc, NEW w, NEW sl, NEW to, NEW path, PathOf(sc, w, sl, to, path)
    PROVE  /\ to \in FollowIn(sc, w, path)
           /\ Unmoved(w) => FollowIn(sc, w, path) = {to}
<1> DEFINE offs == path.offsets
           n == Len(offs)
<1>0. /\ sc \in Scans /\ w \in SUBSET Images /\ WereRead(sc, w, sl)
      /\ path.offsets \in Seq(Nat) /\ Root(sc, path) \in Nat
      /\ Leads(sl, Root(sc, path), path.offsets, to)
  BY DEF PathOf
<1>1. PICK p \in Ways(sl, Root(sc, path), offs, to) : TRUE
  BY <1>0 DEF Leads
<1>2. /\ p \in [0 .. n -> Nat] /\ p[0] = Root(sc, path) /\ p[n] = to
      /\ \A k \in 1 .. n : p[k - 1] \in DOMAIN sl /\ p[k] = sl[p[k - 1]] + offs[k]
  BY <1>1 DEF Ways
<1>3. PICK f \in Follows(sc, w, path) : FollowIn(sc, w, path) = f[n]
  BY <1>0, FollowIs
<1>4. /\ f[0] = {Root(sc, path)}
      /\ \A k \in 1 .. n : f[k] = {v + offs[k] : v \in HeldIn(sc, w, f[k - 1])}
  BY <1>3 DEF Follows
<1>5. n \in Nat /\ n \in 0 .. n /\ 0 \in 0 .. n /\ \A k \in 1 .. n : k \in 0 .. n /\ k - 1 \in 0 .. n
  BY <1>0
<1> HIDE DEF n, offs
<1>6. \A k \in 0 .. n : p[k] \in f[k]
  <2> DEFINE S == {k \in 0 .. n : p[k] \in f[k]}
  <2>1. 0 \in S
    BY <1>2, <1>4, <1>5
  <2>2. ASSUME NEW k \in 1 .. n, k - 1 \in S PROVE k \in S
    <3>1. p[k - 1] \in DOMAIN sl /\ p[k] = sl[p[k - 1]] + offs[k] /\ p[k - 1] \in f[k - 1]
      BY <1>2, <2>2
    <3>2. PICK m \in w : Readable(m, p[k - 1], sc.ptr) /\ sl[p[k - 1]] = PointerIn(sc, m, p[k - 1])
      BY <1>0, <3>1 DEF WereRead
    <3>3. sl[p[k - 1]] \in HeldIn(sc, w, f[k - 1])
      <4>1. <<m, p[k - 1]>> \in {r \in w \X f[k - 1] : Readable(r[1], r[2], sc.ptr)}
        BY <3>1, <3>2
      <4> QED
        BY <3>2, <4>1 DEF HeldIn
    <3> QED
      BY <1>4, <1>5, <3>1, <3>3
  <2>3. \A k \in 1 .. n : k - 1 \in S => k \in S
    BY <2>2
  <2> HIDE DEF S
  <2>4. \A k \in 0 .. n : k \in S
    BY <1>5, <2>1, <2>3, UpTo
  <2> QED
    BY <2>4 DEF S
<1>7. ASSUME Unmoved(w) PROVE \A k \in 0 .. n : f[k] = {p[k]}
  <2> DEFINE S == {k \in 0 .. n : f[k] = {p[k]}}
  <2>1. 0 \in S
    BY <1>2, <1>4, <1>5
  <2>2. ASSUME NEW k \in 1 .. n, k - 1 \in S PROVE k \in S
    <3>1. p[k - 1] \in DOMAIN sl /\ p[k] = sl[p[k - 1]] + offs[k] /\ f[k - 1] = {p[k - 1]}
      BY <1>2, <2>2
    <3>2. PICK m \in w : Readable(m, p[k - 1], sc.ptr) /\ sl[p[k - 1]] = PointerIn(sc, m, p[k - 1])
      BY <1>0, <3>1 DEF WereRead
    <3>3. HeldIn(sc, w, f[k - 1]) = {sl[p[k - 1]]}
      <4>1. {r \in w \X f[k - 1] : Readable(r[1], r[2], sc.ptr)} = {<<m, p[k - 1]>>}
        <5>1. w = {m}
          BY <1>7, <3>2 DEF Unmoved
        <5> QED
          BY <3>1, <3>2, <5>1
      <4>2. HeldIn(sc, w, f[k - 1]) = {PointerIn(sc, r[1], r[2]) : r \in {<<m, p[k - 1]>>}}
        BY <4>1 DEF HeldIn
      <4> QED
        BY <3>2, <4>2
    <3>4. f[k] = {v + offs[k] : v \in {sl[p[k - 1]]}}
      BY <1>4, <3>3
    <3>5. f[k] = {p[k]}
      BY <3>1, <3>4
    <3> QED
      BY <1>5, <3>5
  <2>3. \A k \in 1 .. n : k - 1 \in S => k \in S
    BY <2>2
  <2> HIDE DEF S
  <2>4. \A k \in 0 .. n : k \in S
    BY <1>5, <2>1, <2>3, UpTo
  <2> QED
    BY <2>4 DEF S
<1> QED
  BY <1>2, <1>3, <1>5, <1>6, <1>7 DEF n

-----------------------------------------------------------------------------
(* The walk's frontier.                                                    *)

Entry == [addr : Nat, tail : Seq(Nat)]

\* No shorter chain of slots comes from the entry's address to the target.
Nearest(sc, sl, e) == \A n \in 0 .. Len(e.tail) - 1 : e.addr \notin AwayIn(sc, sl)[n]

\* The slots that hold a pointer to the address are known and within no module.
Passed(sc, sl, sn, a) == \A h \in DOMAIN sl : Holds(sc, sl, a, h) => Plain(sc, h) /\ h \in sn

\* So it is for each address that was seen and is not in the frontier.
Shut(sc, sl, sn, E) ==
    \A a \in sn : (\A e \in E : e.addr # a) =>
        \A n \in 0 .. MAX_HOPS - 1 : a \in AwayIn(sc, sl)[n] => Passed(sc, sl, sn, a)

\* Behind a frontier that is N hops away all is seen, and none of it is within a module.
LEMMA BehindFrontier ==
    ASSUME NEW sc, NEW sl, NEW sn, NEW E \in SUBSET Entry, MAX_HOPS \in Nat, NEW N \in 0 .. MAX_HOPS,
           sc.target \in sn, Shut(sc, sl, sn, E),
           \A e \in E : N <= Len(e.tail) /\ Nearest(sc, sl, e)
    PROVE  \A n \in 0 .. N : AwayIn(sc, sl)[n] \subseteq sn
                               /\ (n >= 1 => \A a \in AwayIn(sc, sl)[n] : Plain(sc, a))
<1> DEFINE A == AwayIn(sc, sl)
           S == {n \in 0 .. N : A[n] \subseteq sn /\ (n >= 1 => \A a \in A[n] : Plain(sc, a))}
<1>1. 0 \in S
  BY AwayIs
<1>2. ASSUME NEW n \in 1 .. N, n - 1 \in S PROVE n \in S
  <2>1. n \in 1 .. MAX_HOPS /\ n - 1 \in 0 .. MAX_HOPS - 1 /\ n \in 0 .. N
    OBVIOUS
  <2>2. A[n] = {h \in DOMAIN sl : \E a \in A[n - 1] : (n = 1 \/ Plain(sc, a)) /\ Holds(sc, sl, a, h)}
    BY <2>1, AwayIs
  <2>3. ASSUME NEW a \in A[n - 1] PROVE Passed(sc, sl, sn, a)
    <3>1. a \in sn
      BY <1>2
    <3>2. ASSUME NEW e \in E PROVE e.addr # a
      <4>1. Len(e.tail) \in Nat /\ N <= Len(e.tail) /\ Nearest(sc, sl, e)
        BY DEF Entry
      <4>2. n - 1 \in 0 .. Len(e.tail) - 1
        BY <4>1
      <4> QED
        BY <4>1, <4>2 DEF Nearest
    <3> QED
      BY <2>1, <3>1, <3>2 DEF Shut
  <2> HIDE DEF A
  <2>4. \A h \in A[n] : Plain(sc, h) /\ h \in sn
    BY <2>2, <2>3 DEF Passed
  <2> QED
    BY <2>1, <2>4
<1>3. \A n \in 1 .. N : n - 1 \in S => n \in S
  BY <1>2
<1>4. N \in Nat
  OBVIOUS
<1> HIDE DEF S
<1>5. \A n \in 0 .. N : n \in S
  BY <1>1, <1>3, <1>4, UpTo
<1> QED
  BY <1>5 DEF S

\* So that no path is that short.
LEMMA NoneBehind ==
    ASSUME NEW sc, NEW sl, NEW sn, NEW E \in SUBSET Entry, MAX_HOPS \in Nat, NEW N \in 0 .. MAX_HOPS,
           sc.target \in sn, Shut(sc, sl, sn, E),
           \A e \in E : N <= Len(e.tail) /\ Nearest(sc, sl, e)
    PROVE  \A n \in LengthsIn(sc, sl) : N < n
<1>1. \A n \in 0 .. N : n >= 1 => \A a \in AwayIn(sc, sl)[n] : Plain(sc, a)
  BY BehindFrontier
<1>2. \A n \in LengthsIn(sc, sl) : n \in 1 .. MAX_HOPS /\ ~(\A a \in AwayIn(sc, sl)[n] : Plain(sc, a))
  BY DEF LengthsIn, Plain
<1> QED
  BY <1>1, <1>2

\* Where no slot was recorded there is no path.
LEMMA NoSlots ==
    ASSUME NEW sc, NEW sl, DOMAIN sl = {}, MAX_HOPS \in Nat
    PROVE  LengthsIn(sc, sl) = {}
BY AwayIs DEF LengthsIn

-----------------------------------------------------------------------------
(* The invariant.                                                          *)

PathType == [module : Modules, base : Int, offsets : Seq(Nat)]

\* What is queued, and what is visited.
Frontier == {queue[i] : i \in DOMAIN queue} \cup {e \in {visit} : stage = "visit"}

ScanTypes ==
    /\ scan \in Scans /\ was \subseteq Images /\ mem \in was
    /\ stage \in {"record", "walk", "visit", "done"}
    /\ stage # "done" => MAX_RESULTS > 0
    /\ queue \in Seq(Entry) /\ visit \in Entry /\ out \in Seq(PathType)
    /\ seen \subseteq Nat /\ tried \subseteq Nat /\ scan.target \in seen

\* While slots are recorded the walk has yet to begin.
AtFirst ==
    stage = "record" =>
        /\ region \in DOMAIN scan.regions /\ addr \in Nat
        /\ queue = <<[addr |-> scan.target, tail |-> <<>>]>>
        /\ seen = {scan.target} /\ out = <<>>

\* Each slot was read so at some time.
SlotsRead == WereRead(scan, was, slots)

\* From each address of the frontier the target is reached by the tail it has.
Leading ==
    stage \in {"walk", "visit"} => \A e \in Frontier :
        /\ Len(e.tail) <= MAX_HOPS
        /\ e.addr \in seen
        /\ e.addr \in AwayIn(scan, slots)[Len(e.tail)]
        /\ e.tail = <<>> \/ Plain(scan, e.addr)
        /\ Leads(slots, e.addr, e.tail, scan.target)

\* The queue is in the order of distance, and has each address once.
InLine ==
    /\ \A i, j \in DOMAIN queue : i < j =>
           /\ queue[i].addr # queue[j].addr
           /\ Len(queue[i].tail) <= Len(queue[j].tail)
           /\ Len(queue[j].tail) <= Len(queue[i].tail) + 1
    /\ stage = "visit" =>
           /\ Len(visit.tail) < MAX_HOPS
           /\ \A i \in DOMAIN queue :
                  /\ queue[i].addr # visit.addr
                  /\ Len(visit.tail) <= Len(queue[i].tail)
                  /\ Len(queue[i].tail) <= Len(visit.tail) + 1

\* As long as no path is found, what is behind the frontier has none.
NoneSoFar ==
    stage \in {"walk", "visit"} /\ out = <<>> =>
        /\ \A e \in Frontier : Nearest(scan, slots, e)
        /\ Shut(scan, slots, seen, Frontier)
        /\ stage = "visit" => \A h \in tried : Plain(scan, h) /\ h \in seen

\* The address that a path goes to from its root.
Reached(sc, sl, path) == sl[Root(sc, path)] + path.offsets[1]

\* Each path leads to the target, nearer ones first.
Found ==
    /\ \A i \in DOMAIN out :
           /\ Root(scan, out[i]) \in DOMAIN slots
           /\ Len(out[i].offsets) >= 1
           /\ Leads(slots, Root(scan, out[i]), out[i].offsets, scan.target)
           /\ stage \in {"walk", "visit"} =>
                  \A e \in Frontier : Len(out[i].offsets) <= Len(e.tail) + 1
    /\ \A i, j \in DOMAIN out : i < j => Len(out[i].offsets) <= Len(out[j].offsets)

\* Each path is found when the address that it goes to is visited, by its root.
Once ==
    /\ \A i, j \in DOMAIN out :
           i # j => \/ Root(scan, out[i]) # Root(scan, out[j])
                    \/ Reached(scan, slots, out[i]) # Reached(scan, slots, out[j])
    /\ \A i \in DOMAIN out :
           /\ Reached(scan, slots, out[i]) \in seen
           /\ \A k \in DOMAIN queue : queue[k].addr # Reached(scan, slots, out[i])
           /\ stage = "visit" /\ Reached(scan, slots, out[i]) = visit.addr
                => Root(scan, out[i]) \in tried

\* The first is as short as can be, and there is one if the slots have any.
Shortest ==
    /\ out # <<>> =>
           /\ Len(out[1].offsets) \in LengthsIn(scan, slots)
           /\ \A n \in LengthsIn(scan, slots) : Len(out[1].offsets) <= n
    /\ stage = "done" /\ out = <<>> => LengthsIn(scan, slots) = {}

ScanInv ==
    /\ ScanTypes
    /\ AtFirst
    /\ SlotsRead
    /\ Leading
    /\ InLine
    /\ NoneSoFar
    /\ Found
    /\ Once
    /\ Shortest

\* Before the walk nothing is found and the queue has the target only.
Starting ==
    /\ ScanTypes /\ AtFirst /\ SlotsRead
    /\ stage \in {"record", "done"}
    /\ queue = <<[addr |-> scan.target, tail |-> <<>>]>> /\ out = <<>>
    /\ stage = "done" => DOMAIN slots = {}

LEMMA BeforeWalk == Starting => ScanInv
<1> SUFFICES ASSUME Starting PROVE ScanInv
  OBVIOUS
<1> USE DEF Starting
<1>1. Leading /\ NoneSoFar
  BY DEF Leading, NoneSoFar
<1>2. InLine
  <2>1. DOMAIN queue = 1 .. 1
    OBVIOUS
  <2> QED
    BY <2>1 DEF InLine
<1>3. Found /\ Once
  <2>1. DOMAIN out = {}
    OBVIOUS
  <2> QED
    BY <2>1 DEF Found, Once
<1>4. Shortest
  <2>1. MAX_HOPS \in Nat
    BY ScanInputs
  <2>2. stage = "done" => LengthsIn(scan, slots) = {}
    BY <2>1, NoSlots
  <2> QED
    BY <2>2 DEF Shortest
<1> QED
  BY <1>1, <1>2, <1>3, <1>4 DEF ScanInv

LEMMA InitScanInv == ScanInit => ScanInv
<1> SUFFICES ASSUME ScanInit PROVE ScanInv
  OBVIOUS
<1>1. PICK s \in Scans : scan = s /\ mem = s.image /\ was = {s.image}
  BY DEF ScanInit
<1>2. /\ s.target \in Nat /\ s.image \in Images /\ s.regions \in Seq(RegionType)
      /\ MAX_RESULTS \in Nat
  BY ScanInputs
<1>3. ScanTypes
  <2>1. [addr |-> s.target, tail |-> <<>>] \in Entry
    BY <1>2 DEF Entry
  <2>2. queue \in Seq(Entry) /\ visit \in Entry
    BY <1>1, <2>1 DEF ScanInit
  <2>3. out \in Seq(PathType) /\ seen \subseteq Nat /\ tried \subseteq Nat /\ scan.target \in seen
    BY <1>1, <1>2 DEF ScanInit
  <2>4. stage \in {"record", "done"} /\ (stage # "done" => MAX_RESULTS > 0)
    BY <1>1, <1>2 DEF ScanInit
  <2> QED
    BY <1>1, <1>2, <2>2, <2>3, <2>4 DEF ScanTypes
<1>4. AtFirst
  <2> SUFFICES ASSUME stage = "record"
               PROVE  region \in DOMAIN scan.regions /\ addr \in Nat
    BY DEF AtFirst, ScanInit
  <2>1. scan.regions # <<>> /\ region = 1 /\ addr = scan.regions[1].start
    BY DEF ScanInit
  <2>2. 1 \in DOMAIN scan.regions /\ scan.regions[1] \in RegionType
    BY <1>1, <1>2, <2>1
  <2> QED
    BY <2>1, <2>2 DEF RegionType
<1>5. DOMAIN slots = {}
  BY DEF ScanInit
<1>6. SlotsRead
  BY <1>5 DEF SlotsRead, WereRead
<1>7. /\ stage \in {"record", "done"} /\ out = <<>>
      /\ queue = <<[addr |-> scan.target, tail |-> <<>>]>>
  BY <1>1 DEF ScanInit
<1> QED
  BY <1>3, <1>4, <1>5, <1>6, <1>7, BeforeWalk DEF Starting

\* The same of the state after a step.
LEMMA BeforeWalkNext == Starting' => ScanInv'
BY BeforeWalk, PTL

\* What stays true while slots are recorded.
LEMMA StillRecording ==
    ASSUME ScanInv, stage = "record", stage' = "record", UNCHANGED <<scan, walking>>,
           was' \subseteq Images, mem' \in was', region' \in DOMAIN scan.regions, addr' \in Nat,
           WereRead(scan, was', slots')
    PROVE  ScanInv'
<1>1. ScanTypes'
  BY DEF ScanInv, ScanTypes, walking
<1>2. AtFirst'
  BY DEF ScanInv, AtFirst, walking
<1>3. SlotsRead'
  BY DEF SlotsRead
<1>4. /\ (queue = <<[addr |-> scan.target, tail |-> <<>>]>>)' /\ (out = <<>>)'
  BY DEF ScanInv, AtFirst, walking
<1>5. Starting'
  BY <1>1, <1>2, <1>3, <1>4 DEF Starting
<1> QED
  BY <1>5, BeforeWalkNext

\* What can be read of a region is read as it is.
LEMMA RecordKeeps == ASSUME ScanInv, Record PROVE ScanInv'
<1> DEFINE rs == scan.regions
           found == Recorded(addr, PieceEnd)
<1>1. /\ stage = "record" /\ stage' = "record" /\ UNCHANGED <<scan, mem, was, region, walking>>
      /\ slots' = [a \in DOMAIN slots \cup found |-> IF a \in found THEN PointerAt(mem, a) ELSE slots[a]]
      /\ addr' = PieceEnd
  BY DEF Record, target
<1>2. /\ scan \in Scans /\ was \subseteq Images /\ mem \in was
      /\ region \in DOMAIN rs /\ addr \in Nat
  BY <1>1 DEF ScanInv, ScanTypes, AtFirst
<1>3. /\ rs \in Seq(RegionType) /\ CHUNK \in Nat /\ scan.ptr \in {1, 2}
  BY <1>2, ScanInputs
<1>4. \A i \in DOMAIN rs : rs[i].start \in Nat /\ rs[i].end \in Nat
  <2>1. \A i \in DOMAIN rs : rs[i] \in RegionType
    BY <1>3
  <2> QED
    BY <2>1 DEF RegionType
<1>5. PieceEnd \in Nat
  BY <1>2, <1>3, <1>4 DEF PieceEnd
<1>6. ASSUME NEW a \in found
      PROVE  /\ a \in Nat /\ PointerAt(mem, a) \in Nat
             /\ Readable(mem, a, scan.ptr)
  <2>1. /\ a \in addr .. PieceEnd - scan.ptr /\ Readable(mem, addr, PieceEnd - addr)
        /\ IsMapped(PointerAt(mem, a))
    BY DEF Recorded
  <2>2. PICK i \in DOMAIN rs : PointerAt(mem, a) \in Cells(rs[i])
    BY <2>1 DEF IsMapped
  <2>3. PointerAt(mem, a) \in Nat
    <3>1. \A x, y, z : x \in Nat /\ y \in Nat /\ z \in x .. y - 1 => z \in Nat
      OBVIOUS
    <3> QED
      BY <1>4, <2>2, <3>1 DEF Cells
  <2>4. a .. a + scan.ptr - 1 \subseteq addr .. addr + (PieceEnd - addr) - 1
    BY <1>2, <1>3, <1>5, <2>1
  <2> QED
    BY <1>2, <1>3, <1>5, <2>1, <2>3, <2>4 DEF Readable
<1>7. WereRead(scan, was, slots)
  BY DEF ScanInv, SlotsRead
<1>8. WereRead(scan', was', slots')
  <2>1. \A a : PointerAt(mem, a) = PointerIn(scan, mem, a)
    BY Twins
  <2>2. ASSUME NEW h \in DOMAIN slots'
        PROVE  /\ h \in Nat /\ slots'[h] \in Nat
               /\ \E m \in was : Readable(m, h, scan.ptr) /\ slots'[h] = PointerIn(scan, m, h)
    <3>1. CASE h \in found
      <4>1. slots'[h] = PointerIn(scan, mem, h)
        BY <1>1, <2>1, <3>1
      <4> HIDE DEF found
      <4> QED
        BY <1>2, <1>6, <2>1, <3>1, <4>1
    <3>2. CASE h \notin found
      <4>1. h \in DOMAIN slots /\ slots'[h] = slots[h]
        BY <1>1, <3>2
      <4> QED
        BY <1>7, <4>1 DEF WereRead
    <3> QED
      BY <3>1, <3>2
  <2> QED
    BY <1>1, <2>2 DEF WereRead
<1> HIDE DEF found
<1> QED
  BY <1>1, <1>2, <1>5, <1>8, StillRecording

LEMMA NextRegionKeeps == ASSUME ScanInv, NextRegion PROVE ScanInv'
<1>1. /\ stage = "record" /\ stage' = "record" /\ UNCHANGED <<scan, mem, was, slots, walking>>
      /\ region < Len(scan.regions) /\ region' = region + 1
      /\ addr' = scan.regions[region + 1].start
  BY DEF NextRegion, target
<1>2. /\ scan \in Scans /\ was \subseteq Images /\ mem \in was
      /\ region \in DOMAIN scan.regions
  BY <1>1 DEF ScanInv, ScanTypes, AtFirst
<1>3. scan.regions \in Seq(RegionType)
  BY <1>2, ScanInputs
<1>4. region + 1 \in DOMAIN scan.regions
  BY <1>1, <1>2, <1>3
<1>5. scan.regions[region + 1] \in RegionType
  BY <1>3, <1>4
<1>6. addr' \in Nat
  BY <1>1, <1>5 DEF RegionType
<1>7. WereRead(scan', was', slots')
  BY <1>1 DEF ScanInv, SlotsRead
<1>8. region' \in DOMAIN scan.regions'
  BY <1>1, <1>4
<1> QED
  BY <1>1, <1>2, <1>6, <1>7, <1>8, StillRecording

\* What was read once was so, whatever the target does later.
LEMMA TargetMovesKeeps == ASSUME ScanInv, TargetMoves PROVE ScanInv'
<1>1. PICK image \in Becomes(mem) : mem' = image /\ was' = was \cup {image}
  BY DEF TargetMoves
<1>2. stage = "record" /\ UNCHANGED <<scan, stage, region, addr, slots, walking>>
  BY DEF TargetMoves, recording
<1>3. /\ scan \in Scans /\ was \subseteq Images /\ mem \in was
      /\ region \in DOMAIN scan.regions /\ addr \in Nat
  BY <1>2 DEF ScanInv, ScanTypes, AtFirst
<1>4. image \in Images
  BY <1>3, ScanInputs
<1>5. WereRead(scan', was', slots')
  BY <1>1, <1>2 DEF ScanInv, SlotsRead, WereRead
<1> QED
  BY <1>1, <1>2, <1>3, <1>4, <1>5, StillRecording

-----------------------------------------------------------------------------
(* The steps of the walk.                                                  *)

\* The target leads to itself.
LEMMA LeadsNowhere == ASSUME NEW sl, NEW a \in Nat PROVE Leads(sl, a, <<>>, a)
<1> DEFINE p == [k \in 0 .. 0 |-> a]
<1>1. Len(<<>>) = 0 /\ 1 .. 0 = {} /\ 0 .. 0 = {0}
  OBVIOUS
<1>2. p \in [0 .. 0 -> Nat] /\ p[0] = a
  BY <1>1
<1> HIDE DEF p
<1>3. p \in Ways(sl, a, <<>>, a)
  BY <1>1, <1>2 DEF Ways
<1> QED
  BY <1>3 DEF Leads

LEMMA BeginWalkKeeps == ASSUME ScanInv, BeginWalk PROVE ScanInv'
<1> DEFINE first == [addr |-> scan.target, tail |-> <<>>]
<1>1. /\ stage = "record" /\ stage' = "walk"
      /\ UNCHANGED <<scan, mem, was, region, addr, slots, queue, seen, visit, tried, out>>
  BY DEF BeginWalk, target, recording, walking
<1>2. /\ scan \in Scans /\ scan.target \in Nat /\ MAX_HOPS \in Nat
      /\ queue = <<first>> /\ seen = {scan.target} /\ out = <<>>
  BY <1>1, ScanInputs DEF ScanInv, ScanTypes, AtFirst
<1>3. DOMAIN queue = {1} /\ queue[1] = first
  BY <1>2
<1>4. Frontier' = {first}
  BY <1>1, <1>3 DEF Frontier
<1>5. first.addr = scan.target /\ first.tail = <<>> /\ Len(first.tail) = 0
  OBVIOUS
<1> HIDE DEF first
<1>6. ScanTypes' /\ AtFirst' /\ SlotsRead'
  BY <1>1 DEF ScanInv, ScanTypes, AtFirst, SlotsRead
<1>7. Leading'
  <2>1. Leads(slots, scan.target, <<>>, scan.target)
    BY <1>2, LeadsNowhere
  <2>2. scan.target \in AwayIn(scan, slots)[0]
    BY <1>2, AwayIs
  <2> QED
    BY <1>1, <1>2, <1>4, <1>5, <2>1, <2>2 DEF Leading
<1>8. InLine'
  BY <1>1, <1>3 DEF InLine
<1>9. NoneSoFar'
  <2>1. Nearest(scan, slots, first)
    <3>1. 0 .. Len(first.tail) - 1 = {}
      BY <1>5
    <3> QED
      BY <3>1 DEF Nearest
  <2>2. Shut(scan, slots, seen, {first})
    BY <1>2, <1>5 DEF Shut
  <2> QED
    BY <1>1, <1>4, <2>1, <2>2 DEF NoneSoFar
<1>10. Found' /\ Once'
  <2>1. DOMAIN out = {}
    BY <1>2
  <2> QED
    BY <1>1, <2>1 DEF Found, Once
<1>11. Shortest'
  BY <1>1, <1>2 DEF Shortest
<1> QED
  BY <1>6, <1>7, <1>8, <1>9, <1>10, <1>11 DEF ScanInv

\* An address for which there is no room has been passed in fewer hops, or has none.
LEMMA PopKeeps == ASSUME ScanInv, Pop PROVE ScanInv'
<1> DEFINE e == Head(queue)
           room == ~(Len(e.tail) >= MAX_HOPS)
<1>1. /\ stage = "walk" /\ queue # <<>> /\ queue' = Tail(queue)
      /\ UNCHANGED <<scan, mem, was, region, addr, slots, seen, out>>
      /\ ~room => UNCHANGED <<stage, visit, tried>>
      /\ room => stage' = "visit" /\ visit' = e /\ tried' = {}
  BY DEF Pop, target, recording
<1>2. /\ scan \in Scans /\ MAX_HOPS \in Nat /\ queue \in Seq(Entry) /\ visit \in Entry
  BY ScanInputs DEF ScanInv, ScanTypes
<1>3. /\ 1 \in DOMAIN queue /\ e = queue[1] /\ e \in Entry
      /\ queue' \in Seq(Entry)
      /\ \A i \in DOMAIN queue' : i + 1 \in DOMAIN queue /\ i + 1 # 1 /\ queue'[i] = queue[i + 1]
      /\ \A i \in DOMAIN queue : i = 1 \/ (i - 1 \in DOMAIN queue' /\ queue[i] = queue'[i - 1])
  BY <1>1, <1>2
<1>4. Len(e.tail) \in Nat
  BY <1>3 DEF Entry
<1> HIDE DEF e
<1>5. e \in Frontier
  BY <1>3 DEF Frontier
<1>6. Frontier' \subseteq Frontier
  <2> SUFFICES ASSUME NEW f \in Frontier' PROVE f \in Frontier
    OBVIOUS
  <2>1. CASE \E i \in DOMAIN queue' : f = queue'[i]
    <3>1. \E i \in DOMAIN queue : f = queue[i]
      BY <1>3, <2>1
    <3> QED
      BY <3>1 DEF Frontier
  <2>2. CASE stage' = "visit" /\ f = visit'
    <3>1. f = e
      BY <1>1, <2>2
    <3> QED
      BY <1>5, <3>1
  <2> QED
    BY <2>1, <2>2 DEF Frontier
<1>7. Frontier \subseteq Frontier' \cup {e}
  <2> SUFFICES ASSUME NEW f \in Frontier, f # e PROVE f \in Frontier'
    OBVIOUS
  <2>1. PICK i \in DOMAIN queue : f = queue[i]
    BY <1>1 DEF Frontier
  <2>2. \E k \in DOMAIN queue' : f = queue'[k]
    BY <1>3, <2>1
  <2> QED
    BY <2>2 DEF Frontier
<1>8. room => Frontier' = Frontier
  <2>1. room => e \in Frontier'
    BY <1>1 DEF Frontier
  <2> QED
    BY <1>6, <1>7, <2>1
<1> HIDE DEF room
<1>9. stage' \in {"walk", "visit"}
  BY <1>1
<1>10. ScanTypes' /\ AtFirst' /\ SlotsRead'
  BY <1>1, <1>3 DEF ScanInv, ScanTypes, AtFirst, SlotsRead
<1>11. Leading'
  BY <1>1, <1>6 DEF ScanInv, Leading
<1>12. InLine'
  <2>1. \A i, j \in DOMAIN queue' : i < j =>
            /\ i + 1 \in DOMAIN queue /\ j + 1 \in DOMAIN queue /\ i + 1 < j + 1
            /\ queue'[i] = queue[i + 1] /\ queue'[j] = queue[j + 1]
    <3>1. DOMAIN queue' \subseteq Int
      BY <1>3
    <3> QED
      BY <1>3, <3>1
  <2>2. \A i, j \in DOMAIN queue' : i < j =>
            /\ queue'[i].addr # queue'[j].addr
            /\ Len(queue'[i].tail) <= Len(queue'[j].tail)
            /\ Len(queue'[j].tail) <= Len(queue'[i].tail) + 1
    BY <2>1 DEF ScanInv, InLine
  <2>3. ASSUME room
        PROVE  /\ Len(e.tail) < MAX_HOPS
               /\ \A i \in DOMAIN queue' :
                      /\ queue'[i].addr # e.addr
                      /\ Len(e.tail) <= Len(queue'[i].tail)
                      /\ Len(queue'[i].tail) <= Len(e.tail) + 1
    <3>1. Len(e.tail) < MAX_HOPS
      BY <1>2, <1>4, <2>3 DEF room
    <3>2. \A i \in DOMAIN queue' : 1 < i + 1
      <4>1. DOMAIN queue' = 1 .. Len(queue')
        BY <1>3
      <4> QED
        BY <4>1
    <3> QED
      BY <1>3, <3>1, <3>2 DEF ScanInv, InLine
  <2> QED
    BY <1>1, <2>2, <2>3 DEF InLine
<1>13. NoneSoFar'
  <2> SUFFICES ASSUME out = <<>>
               PROVE  /\ \A f \in Frontier' : Nearest(scan, slots, f)
                      /\ Shut(scan, slots, seen, Frontier')
                      /\ stage' = "visit" => tried' = {}
    BY <1>1 DEF NoneSoFar
  <2>1. /\ \A f \in Frontier : Nearest(scan, slots, f)
        /\ Shut(scan, slots, seen, Frontier)
    BY <1>1 DEF ScanInv, NoneSoFar
  <2>2. CASE room
    BY <1>1, <1>8, <2>1, <2>2
  <2>3. CASE ~room
    <3>1. Len(e.tail) = MAX_HOPS
      <4>1. Len(e.tail) <= MAX_HOPS
        BY <1>1, <1>5 DEF ScanInv, Leading
      <4>2. Len(e.tail) >= MAX_HOPS
        BY <2>3 DEF room
      <4>3. \A x, y \in Nat : x <= y /\ x >= y => x = y
        OBVIOUS
      <4> QED
        BY <1>2, <1>4, <4>1, <4>2, <4>3
    <3>2. \A n \in 0 .. MAX_HOPS - 1 : e.addr \notin AwayIn(scan, slots)[n]
      BY <1>5, <2>1, <3>1 DEF Nearest
    <3>3. Shut(scan, slots, seen, Frontier')
      BY <1>7, <2>1, <3>2 DEF Shut
    <3> QED
      BY <1>1, <1>6, <2>1, <2>3, <3>3
  <2> QED
    BY <2>2, <2>3
<1>14. Found'
  BY <1>1, <1>6 DEF ScanInv, Found
<1>15. Once'
  <2>1. \A i \in DOMAIN out :
            /\ Reached(scan, slots, out[i]) \in seen
            /\ \A k \in DOMAIN queue' : queue'[k].addr # Reached(scan, slots, out[i])
            /\ e.addr # Reached(scan, slots, out[i])
    BY <1>3 DEF ScanInv, Once
  <2> QED
    BY <1>1, <2>1 DEF ScanInv, Once
<1>16. Shortest'
  BY <1>1, <1>9 DEF ScanInv, Shortest
<1> QED
  BY <1>10, <1>11, <1>12, <1>13, <1>14, <1>15, <1>16 DEF ScanInv

\* One that holds a pointer to what is visited is a hop further away.
LEMMA HopFacts ==
    ASSUME ScanInv, NEW h, Hop(h)
    PROVE  LET off == visit.addr - slots[h]
               offs == <<off>> \o visit.tail
           IN  /\ stage = "visit" /\ h \in Nat /\ h \in DOMAIN slots /\ h \notin tried
               /\ off \in Nat /\ offs = OffsetsFrom(h) /\ offs \in Seq(Nat)
               /\ Len(visit.tail) \in Nat /\ Len(offs) = Len(visit.tail) + 1
               /\ Len(offs) <= MAX_HOPS
               /\ slots[h] + offs[1] = visit.addr
               /\ Holds(scan, slots, visit.addr, h)
               /\ h \in AwayIn(scan, slots)[Len(offs)]
               /\ Leads(slots, h, offs, scan.target)
<1> DEFINE off == visit.addr - slots[h]
           offs == <<off>> \o visit.tail
           N == Len(visit.tail)
<1>1. /\ stage = "visit" /\ h \in DOMAIN slots /\ h \notin tried /\ off \in Offsets
  BY DEF Hop, Untried, Offset
<1>2. /\ scan \in Scans /\ MAX_HOPS \in Nat /\ visit \in Entry
  BY ScanInputs DEF ScanInv, ScanTypes
<1>3. visit.addr \in Nat /\ visit.tail \in Seq(Nat) /\ N \in Nat
  BY <1>2 DEF Entry
<1>4. h \in Nat /\ slots[h] \in Nat
  BY <1>1 DEF ScanInv, SlotsRead, WereRead
<1>5. Holds(scan, slots, visit.addr, h)
  BY <1>1, Twins DEF Holds
<1>6. off \in Nat
  BY <1>1 DEF Offsets
<1>7. offs = OffsetsFrom(h)
  BY DEF OffsetsFrom, Offset
<1>8. slots[h] + off = visit.addr
  BY <1>3, <1>4
<1> HIDE DEF off
<1>9. offs \in Seq(Nat) /\ Len(offs) = N + 1 /\ offs[1] = off
  BY <1>3, <1>6
<1>10. visit \in Frontier
  BY <1>1 DEF Frontier
<1>11. /\ visit.addr \in AwayIn(scan, slots)[N]
       /\ visit.tail = <<>> \/ Plain(scan, visit.addr)
       /\ Leads(slots, visit.addr, visit.tail, scan.target)
       /\ N < MAX_HOPS
  BY <1>1, <1>10 DEF ScanInv, Leading, InLine
<1>12. Leads(slots, h, offs, scan.target)
  BY <1>1, <1>3, <1>4, <1>6, <1>8, <1>11, LeadsOn
<1>13. h \in AwayIn(scan, slots)[N + 1]
  <2>1. N \in 0 .. MAX_HOPS - 1 /\ (N = 0 \/ Plain(scan, visit.addr))
    BY <1>2, <1>3, <1>11
  <2> HIDE DEF N
  <2> QED
    BY <1>2, <1>5, <1>11, <2>1, AwayStep
<1>14. N + 1 <= MAX_HOPS
  BY <1>2, <1>3, <1>11
<1> HIDE DEF offs, N
<1> QED
  BY <1>1, <1>3, <1>4, <1>5, <1>6, <1>7, <1>8, <1>9, <1>12, <1>13, <1>14 DEF offs, off, N

\* A path is found: no shorter one, nor the same, was found before.
LEMMA HopPathKeeps ==
    ASSUME ScanInv, NEW h, Hop(h), ~Plain(scan, h)
    PROVE  ScanInv'
<1> DEFINE offs == <<visit.addr - slots[h]>> \o visit.tail
           m == ModuleIn(scan, h)
           path == [module |-> m, base |-> h - BaseIn(scan, m), offsets |-> offs]
           n == Len(out)
<1>1. /\ stage = "visit" /\ stage' \in {"visit", "done"}
      /\ UNCHANGED <<scan, mem, was, region, addr, slots, queue, seen, visit>>
      /\ tried' = tried \cup {h} /\ out' = Append(out, path)
  <2>1. ModuleOf(h) = m /\ BaseOf(m) = BaseIn(scan, m) /\ m # NoModule
    BY Twins DEF Plain
  <2>2. offs = OffsetsFrom(h)
    BY HopFacts
  <2> HIDE DEF m, offs
  <2> QED
    BY <2>1, <2>2 DEF Hop, target, recording
<1>2. /\ scan \in Scans /\ MAX_HOPS \in Nat /\ MAX_RESULTS \in Nat /\ queue \in Seq(Entry) /\ visit \in Entry
      /\ out \in Seq(PathType)
  BY ScanInputs DEF ScanInv, ScanTypes
<1>3. /\ h \in Nat /\ h \in DOMAIN slots /\ h \notin tried /\ offs \in Seq(Nat)
      /\ Len(visit.tail) \in Nat /\ Len(offs) = Len(visit.tail) + 1 /\ Len(offs) <= MAX_HOPS
      /\ slots[h] + offs[1] = visit.addr
      /\ h \in AwayIn(scan, slots)[Len(offs)]
      /\ Leads(slots, h, offs, scan.target)
  BY HopFacts
<1>4. m \in Modules /\ BaseIn(scan, m) \in Nat
  BY <1>2, ModuleBase
<1> HIDE DEF offs, m
<1>5. Root(scan, path) = h /\ path.offsets = offs /\ path \in PathType
  BY <1>3, <1>4 DEF Root, PathType
<1>6. Reached(scan, slots, path) = visit.addr
  BY <1>3, <1>5 DEF Reached
<1> HIDE DEF path
<1>7. /\ n \in Nat /\ DOMAIN out = 1 .. n /\ DOMAIN out' = 1 .. n + 1 /\ out' \in Seq(PathType)
      /\ \A i \in 1 .. n : out'[i] = out[i]
      /\ out'[n + 1] = path /\ out' # <<>>
  BY <1>1, <1>2, <1>5
<1>8. \A i \in 1 .. n + 1 : i = n + 1 \/ i \in 1 .. n
  BY <1>7
<1> HIDE DEF n
<1>9. visit \in Frontier /\ Frontier' \subseteq Frontier
  BY <1>1 DEF Frontier
<1>10. ScanTypes'
  BY <1>1, <1>3, <1>7 DEF ScanInv, ScanTypes
<1>11. AtFirst' /\ SlotsRead'
  BY <1>1 DEF ScanInv, AtFirst, SlotsRead
<1>12. Leading'
  BY <1>1, <1>9 DEF ScanInv, Leading
<1>13. InLine'
  BY <1>1 DEF ScanInv, InLine
<1>14. NoneSoFar'
  BY <1>7 DEF NoneSoFar
<1>15. Found'
  <2>1. \A i \in DOMAIN out : Len(out[i].offsets) <= Len(offs)
    BY <1>1, <1>3, <1>9 DEF ScanInv, Found
  <2>2. ASSUME NEW f \in Frontier PROVE Len(offs) <= Len(f.tail) + 1
    <3>1. CASE f = visit
      BY <1>2, <1>3, <3>1
    <3>2. CASE \E i \in DOMAIN queue : f = queue[i]
      <4>1. f \in Entry /\ Len(visit.tail) <= Len(f.tail)
        BY <1>1, <1>2, <3>2 DEF ScanInv, InLine
      <4> QED
        BY <1>3, <4>1 DEF Entry
    <3> QED
      BY <3>1, <3>2 DEF Frontier
  <2>3. ASSUME NEW i \in DOMAIN out'
        PROVE  /\ Root(scan, out'[i]) \in DOMAIN slots
               /\ Len(out'[i].offsets) >= 1
               /\ Leads(slots, Root(scan, out'[i]), out'[i].offsets, scan.target)
               /\ \A f \in Frontier : Len(out'[i].offsets) <= Len(f.tail) + 1
    <3>1. CASE i = n + 1
      BY <1>3, <1>5, <1>7, <2>2, <3>1
    <3>2. CASE i \in 1 .. n
      BY <1>1, <1>7, <3>2 DEF ScanInv, Found
    <3> QED
      BY <1>7, <1>8, <3>1, <3>2
  <2>4. ASSUME NEW i \in DOMAIN out', NEW j \in DOMAIN out', i < j
        PROVE  Len(out'[i].offsets) <= Len(out'[j].offsets)
    <3>1. i \in 1 .. n
      BY <1>7, <2>4
    <3>2. CASE j = n + 1
      BY <1>5, <1>7, <2>1, <3>1, <3>2
    <3>3. CASE j \in 1 .. n
      BY <1>7, <2>4, <3>1, <3>3 DEF ScanInv, Found
    <3> QED
      BY <1>7, <1>8, <3>2, <3>3
  <2> QED
    BY <1>1, <1>9, <2>3, <2>4 DEF Found
<1>16. Once'
  <2>1. ASSUME NEW i \in DOMAIN out
        PROVE  Root(scan, out[i]) # h \/ Reached(scan, slots, out[i]) # visit.addr
    BY <1>1, <1>3 DEF ScanInv, Once
  <2>2. ASSUME NEW i \in DOMAIN out', NEW j \in DOMAIN out', i # j
        PROVE  \/ Root(scan, out'[i]) # Root(scan, out'[j])
               \/ Reached(scan, slots, out'[i]) # Reached(scan, slots, out'[j])
    <3>1. CASE i = n + 1 /\ j \in 1 .. n
      BY <1>5, <1>6, <1>7, <2>1, <3>1
    <3>2. CASE j = n + 1 /\ i \in 1 .. n
      BY <1>5, <1>6, <1>7, <2>1, <3>2
    <3>3. CASE i \in 1 .. n /\ j \in 1 .. n
      BY <1>7, <2>2, <3>3 DEF ScanInv, Once
    <3> QED
      BY <1>7, <1>8, <2>2, <3>1, <3>2, <3>3
  <2>3. ASSUME NEW i \in DOMAIN out'
        PROVE  /\ Reached(scan, slots, out'[i]) \in seen
               /\ \A k \in DOMAIN queue : queue[k].addr # Reached(scan, slots, out'[i])
               /\ Reached(scan, slots, out'[i]) = visit.addr => Root(scan, out'[i]) \in tried'
    <3>1. CASE i = n + 1
      <4>1. visit.addr \in seen /\ \A k \in DOMAIN queue : queue[k].addr # visit.addr
        BY <1>1, <1>9 DEF ScanInv, Leading, InLine
      <4> QED
        BY <1>1, <1>5, <1>6, <1>7, <3>1, <4>1
    <3>2. CASE i \in 1 .. n
      BY <1>1, <1>7, <3>2 DEF ScanInv, Once
    <3> QED
      BY <1>7, <1>8, <3>1, <3>2
  <2> QED
    BY <1>1, <2>2, <2>3 DEF Once
<1>17. Shortest'
  <2>1. CASE out = <<>>
    <3>1. n = 0 /\ out'[1] = path
      BY <1>2, <1>7, <2>1 DEF n
    <3>2. Len(offs) \in LengthsIn(scan, slots)
      BY <1>2, <1>3 DEF LengthsIn, Plain
    <3>3. \A k \in LengthsIn(scan, slots) : Len(visit.tail) < k
      <4>1. Frontier \in SUBSET Entry
        BY <1>2 DEF Frontier
      <4>2. Len(visit.tail) \in 0 .. MAX_HOPS
        BY <1>2, <1>3
      <4>3. \A f \in Frontier : Len(visit.tail) <= Len(f.tail)
        BY <1>1, <1>3 DEF ScanInv, InLine, Frontier
      <4>4. /\ scan.target \in seen /\ Shut(scan, slots, seen, Frontier)
            /\ \A f \in Frontier : Nearest(scan, slots, f)
        BY <1>1, <2>1 DEF ScanInv, ScanTypes, NoneSoFar
      <4> QED
        BY <1>2, <4>1, <4>2, <4>3, <4>4, NoneBehind
    <3>4. \A k \in LengthsIn(scan, slots) : Len(offs) <= k
      <4>1. LengthsIn(scan, slots) \subseteq Int
        BY DEF LengthsIn
      <4> QED
        BY <1>3, <3>3, <4>1
    <3> QED
      BY <1>1, <1>5, <1>7, <3>1, <3>2, <3>4 DEF Shortest
  <2>2. CASE out # <<>>
    <3>1. out'[1] = out[1]
      BY <1>2, <1>7, <2>2 DEF n
    <3> QED
      BY <1>1, <1>7, <2>2, <3>1 DEF ScanInv, Shortest
  <2> QED
    BY <2>1, <2>2
<1> QED
  BY <1>10, <1>11, <1>12, <1>13, <1>14, <1>15, <1>16, <1>17 DEF ScanInv

\* A slot that was not seen is a hop further away, and no nearer: else the walk had
\* passed it.
LEMMA HopSlotKeeps ==
    ASSUME ScanInv, NEW h, Hop(h), Plain(scan, h)
    PROVE  ScanInv'
<1> DEFINE offs == <<visit.addr - slots[h]>> \o visit.tail
           e == [addr |-> h, tail |-> offs]
           n == Len(queue)
<1>1. /\ stage = "visit" /\ stage' = "visit"
      /\ UNCHANGED <<scan, mem, was, region, addr, slots, visit, out>>
      /\ tried' = tried \cup {h} /\ seen' = seen \cup {h}
      /\ h \in seen => queue' = queue
      /\ h \notin seen => queue' = Append(queue, e)
  <2>1. ModuleOf(h) = NoModule
    BY Twins DEF Plain
  <2>2. offs = OffsetsFrom(h)
    BY HopFacts
  <2> HIDE DEF offs
  <2> QED
    BY <2>1, <2>2 DEF Hop, target, recording
<1>2. /\ scan \in Scans /\ MAX_HOPS \in Nat /\ queue \in Seq(Entry) /\ visit \in Entry
      /\ scan.target \in seen
  BY ScanInputs DEF ScanInv, ScanTypes
<1>3. /\ h \in Nat /\ h \in DOMAIN slots /\ h \notin tried /\ offs \in Seq(Nat)
      /\ Len(visit.tail) \in Nat /\ Len(offs) = Len(visit.tail) + 1 /\ Len(offs) <= MAX_HOPS
      /\ h \in AwayIn(scan, slots)[Len(offs)]
      /\ Leads(slots, h, offs, scan.target)
  BY HopFacts
<1> HIDE DEF offs
<1>4. e \in Entry /\ e.addr = h /\ e.tail = offs
  BY <1>3 DEF Entry
<1> HIDE DEF e
<1>5. visit \in Frontier /\ Frontier \subseteq Entry
  BY <1>1, <1>2 DEF Frontier
<1>6. \A f \in Frontier : Len(visit.tail) <= Len(f.tail)
  BY <1>1, <1>3 DEF ScanInv, InLine, Frontier
<1>7. h \in seen => Frontier' = Frontier
  BY <1>1 DEF Frontier
<1>8. n \in Nat /\ DOMAIN queue = 1 .. n
  BY <1>2
<1>9. ASSUME h \notin seen
      PROVE  /\ DOMAIN queue' = 1 .. n + 1 /\ queue' \in Seq(Entry)
             /\ \A i \in 1 .. n : queue'[i] = queue[i]
             /\ queue'[n + 1] = e
  BY <1>1, <1>2, <1>4, <1>9
<1>10. \A i \in 1 .. n + 1 : i = n + 1 \/ i \in 1 .. n
  BY <1>8
<1> HIDE DEF n
<1>11. h \notin seen => Frontier' = Frontier \cup {e}
  <2> SUFFICES ASSUME h \notin seen PROVE Frontier' = Frontier \cup {e}
    OBVIOUS
  <2>1. {queue'[i] : i \in 1 .. n + 1} = {queue[i] : i \in 1 .. n} \cup {e}
    <3>1. \A i \in 1 .. n : i \in 1 .. n + 1
      BY <1>8
    <3>2. n + 1 \in 1 .. n + 1
      BY <1>8
    <3> QED
      BY <1>9, <1>10, <3>1, <3>2
  <2> QED
    BY <1>1, <1>8, <1>9, <2>1 DEF Frontier
<1>12. ScanTypes'
  <2>1. queue' \in Seq(Entry)
    BY <1>1, <1>2, <1>9
  <2>2. seen' \subseteq Nat /\ tried' \subseteq Nat /\ scan.target \in seen'
    BY <1>1, <1>3 DEF ScanInv, ScanTypes
  <2> QED
    BY <1>1, <2>1, <2>2 DEF ScanInv, ScanTypes
<1>13. AtFirst' /\ SlotsRead'
  BY <1>1 DEF ScanInv, AtFirst, SlotsRead
<1>14. Leading'
  <2>1. /\ Len(e.tail) <= MAX_HOPS /\ e.addr \in seen'
        /\ e.addr \in AwayIn(scan, slots)[Len(e.tail)]
        /\ Plain(scan, e.addr)
        /\ Leads(slots, e.addr, e.tail, scan.target)
    BY <1>1, <1>3, <1>4
  <2>2. \A f \in Frontier :
            /\ Len(f.tail) <= MAX_HOPS /\ f.addr \in seen'
            /\ f.addr \in AwayIn(scan, slots)[Len(f.tail)]
            /\ f.tail = <<>> \/ Plain(scan, f.addr)
            /\ Leads(slots, f.addr, f.tail, scan.target)
    BY <1>1 DEF ScanInv, Leading
  <2> QED
    BY <1>1, <1>7, <1>11, <2>1, <2>2 DEF Leading
<1>15. InLine'
  <2>1. CASE h \in seen
    BY <1>1, <2>1 DEF ScanInv, InLine
  <2>2. CASE h \notin seen
    <3>1. \A i \in 1 .. n : queue[i] \in Frontier /\ queue[i].addr # h
      BY <1>1, <1>8, <2>2 DEF ScanInv, Leading, Frontier
    <3>2. \A i \in 1 .. n :
              /\ Len(visit.tail) <= Len(queue[i].tail)
              /\ Len(queue[i].tail) <= Len(visit.tail) + 1
              /\ Len(queue[i].tail) \in Nat
      <4>1. \A i \in 1 .. n : queue[i] \in Entry
        BY <1>5, <3>1
      <4>2. \A i \in 1 .. n : Len(queue[i].tail) \in Nat
        BY <4>1 DEF Entry
      <4> QED
        BY <1>1, <1>8, <4>2 DEF ScanInv, InLine
    <3>3. visit.addr # h
      BY <1>1, <1>5, <2>2 DEF ScanInv, Leading
    <3>4. ASSUME NEW i \in DOMAIN queue', NEW j \in DOMAIN queue', i < j
          PROVE  /\ queue'[i].addr # queue'[j].addr
                 /\ Len(queue'[i].tail) <= Len(queue'[j].tail)
                 /\ Len(queue'[j].tail) <= Len(queue'[i].tail) + 1
      <4>1. i \in 1 .. n
        BY <1>8, <1>9, <2>2, <3>4
      <4>2. CASE j = n + 1
        <5>1. queue'[j] = e /\ queue'[i] = queue[i]
          BY <1>9, <2>2, <4>1, <4>2
        <5> QED
          BY <1>3, <1>4, <3>1, <3>2, <4>1, <5>1
      <4>3. CASE j \in 1 .. n
        <5>1. queue'[j] = queue[j] /\ queue'[i] = queue[i]
          BY <1>9, <2>2, <4>1, <4>3
        <5> QED
          BY <1>8, <3>4, <4>1, <4>3, <5>1 DEF ScanInv, InLine
      <4> QED
        BY <1>9, <1>10, <2>2, <4>2, <4>3
    <3>5. ASSUME NEW i \in DOMAIN queue'
          PROVE  /\ queue'[i].addr # visit.addr
                 /\ Len(visit.tail) <= Len(queue'[i].tail)
                 /\ Len(queue'[i].tail) <= Len(visit.tail) + 1
      <4>1. CASE i = n + 1
        BY <1>3, <1>4, <1>9, <2>2, <3>3, <4>1
      <4>2. CASE i \in 1 .. n
        BY <1>1, <1>8, <1>9, <2>2, <4>2 DEF ScanInv, InLine
      <4> QED
        BY <1>9, <1>10, <2>2, <4>1, <4>2
    <3>6. Len(visit.tail) < MAX_HOPS
      BY <1>1 DEF ScanInv, InLine
    <3> QED
      BY <1>1, <3>4, <3>5, <3>6 DEF InLine
  <2> QED
    BY <2>1, <2>2
<1>16. NoneSoFar'
  <2> SUFFICES ASSUME out = <<>>
               PROVE  /\ \A f \in Frontier' : Nearest(scan, slots, f)
                      /\ Shut(scan, slots, seen', Frontier')
                      /\ \A g \in tried' : Plain(scan, g) /\ g \in seen'
    BY <1>1 DEF NoneSoFar
  <2>1. /\ \A f \in Frontier : Nearest(scan, slots, f)
        /\ Shut(scan, slots, seen, Frontier)
        /\ \A g \in tried : Plain(scan, g) /\ g \in seen
    BY <1>1 DEF ScanInv, NoneSoFar
  <2>2. h \notin seen => Nearest(scan, slots, e)
    <3> SUFFICES ASSUME h \notin seen, NEW k \in 0 .. Len(e.tail) - 1 PROVE e.addr \notin AwayIn(scan, slots)[k]
      BY DEF Nearest
    <3>1. Len(visit.tail) \in 0 .. MAX_HOPS /\ k \in 0 .. Len(visit.tail)
      BY <1>2, <1>3, <1>4
    <3>2. AwayIn(scan, slots)[k] \subseteq seen
      BY <1>2, <1>5, <1>6, <2>1, <3>1, BehindFrontier
    <3> QED
      BY <1>4, <3>2
  <2>3. Shut(scan, slots, seen', Frontier')
    <3> SUFFICES ASSUME NEW a \in seen', \A f \in Frontier' : f.addr # a,
                        NEW k \in 0 .. MAX_HOPS - 1, a \in AwayIn(scan, slots)[k]
                 PROVE  Passed(scan, slots, seen', a)
      BY DEF Shut
    <3>1. a \in seen
      BY <1>1, <1>4, <1>11
    <3>2. \A f \in Frontier : f.addr # a
      BY <1>7, <1>11
    <3>3. Passed(scan, slots, seen, a)
      BY <2>1, <3>1, <3>2 DEF Shut
    <3> QED
      BY <1>1, <3>3 DEF Passed
  <2> QED
    BY <1>1, <1>7, <1>11, <2>1, <2>2, <2>3
<1>17. Found'
  <2>1. ASSUME NEW i \in DOMAIN out PROVE Len(out[i].offsets) <= Len(e.tail) + 1
    <3>1. out[i] \in PathType
      BY DEF ScanInv, ScanTypes
    <3>2. Len(out[i].offsets) \in Nat
      BY <3>1 DEF PathType
    <3>3. Len(out[i].offsets) <= Len(visit.tail) + 1
      BY <1>1, <1>5 DEF ScanInv, Found
    <3> QED
      BY <1>3, <1>4, <3>2, <3>3
  <2>2. \A i \in DOMAIN out : \A f \in Frontier : Len(out[i].offsets) <= Len(f.tail) + 1
    BY <1>1 DEF ScanInv, Found
  <2>3. \A i \in DOMAIN out : \A f \in Frontier' : Len(out[i].offsets) <= Len(f.tail) + 1
    BY <1>7, <1>11, <2>1, <2>2
  <2> QED
    BY <1>1, <2>3 DEF ScanInv, Found
<1>18. Once'
  <2>1. ASSUME NEW i \in DOMAIN out, NEW k \in DOMAIN queue'
        PROVE  queue'[k].addr # Reached(scan, slots, out[i])
    <3>1. Reached(scan, slots, out[i]) \in seen
      BY DEF ScanInv, Once
    <3>2. CASE h \in seen
      BY <1>1, <3>2 DEF ScanInv, Once
    <3>3. CASE h \notin seen /\ k = n + 1
      BY <1>4, <1>9, <3>1, <3>3
    <3>4. CASE h \notin seen /\ k \in 1 .. n
      BY <1>8, <1>9, <3>4 DEF ScanInv, Once
    <3> QED
      BY <1>9, <1>10, <3>2, <3>3, <3>4
  <2>2. \A i \in DOMAIN out :
            /\ Reached(scan, slots, out[i]) \in seen'
            /\ Reached(scan, slots, out[i]) = visit.addr => Root(scan, out[i]) \in tried'
    BY <1>1 DEF ScanInv, Once
  <2> QED
    BY <1>1, <2>1, <2>2 DEF ScanInv, Once
<1>19. Shortest'
  BY <1>1 DEF ScanInv, Shortest
<1> QED
  BY <1>12, <1>13, <1>14, <1>15, <1>16, <1>17, <1>18, <1>19 DEF ScanInv

\* What was visited is passed: each slot that holds a pointer to it was tried.
LEMMA LeaveKeeps == ASSUME ScanInv, Leave PROVE ScanInv'
<1>1. /\ stage = "visit" /\ stage' = "walk" /\ Untried = {}
      /\ UNCHANGED <<scan, mem, was, region, addr, slots, queue, seen, visit, tried, out>>
  BY DEF Leave, target, recording, walking
<1>2. Frontier' \subseteq Frontier /\ Frontier \subseteq Frontier' \cup {visit}
  BY <1>1 DEF Frontier
<1>3. ScanTypes' /\ AtFirst' /\ SlotsRead'
  BY <1>1 DEF ScanInv, ScanTypes, AtFirst, SlotsRead
<1>4. Leading' /\ InLine'
  BY <1>1, <1>2 DEF ScanInv, Leading, InLine
<1>5. NoneSoFar'
  <2> SUFFICES ASSUME out = <<>>
               PROVE  /\ \A f \in Frontier' : Nearest(scan, slots, f)
                      /\ Shut(scan, slots, seen, Frontier')
    BY <1>1 DEF NoneSoFar
  <2>1. /\ \A f \in Frontier : Nearest(scan, slots, f)
        /\ Shut(scan, slots, seen, Frontier)
        /\ \A g \in tried : Plain(scan, g) /\ g \in seen
    BY <1>1 DEF ScanInv, NoneSoFar
  <2>2. Passed(scan, slots, seen, visit.addr)
    <3> SUFFICES ASSUME NEW h \in DOMAIN slots, Holds(scan, slots, visit.addr, h) PROVE h \in tried
      BY <2>1 DEF Passed
    <3>1. Offset(h) \in Offsets
      BY Twins DEF Holds, Offset
    <3> QED
      BY <1>1, <3>1 DEF Untried
  <2>3. Shut(scan, slots, seen, Frontier')
    BY <1>2, <2>1, <2>2 DEF Shut
  <2> QED
    BY <1>2, <2>1, <2>3
<1>6. Found' /\ Once' /\ Shortest'
  BY <1>1, <1>2 DEF ScanInv, Found, Once, Shortest
<1> QED
  BY <1>3, <1>4, <1>5, <1>6 DEF ScanInv

\* When the queue is empty without a path there is none.
LEMMA ReturnKeeps == ASSUME ScanInv, Return PROVE ScanInv'
<1>1. /\ stage = "walk" /\ stage' = "done" /\ (queue = <<>> \/ Len(out) >= MAX_RESULTS)
      /\ UNCHANGED <<scan, mem, was, region, addr, slots, queue, seen, visit, tried, out>>
  BY DEF Return, target, recording, walking
<1>2. MAX_HOPS \in Nat /\ MAX_RESULTS \in Nat /\ MAX_RESULTS > 0 /\ scan.target \in seen
  BY <1>1, ScanInputs DEF ScanInv, ScanTypes
<1>3. ScanTypes' /\ AtFirst' /\ SlotsRead'
  BY <1>1 DEF ScanInv, ScanTypes, AtFirst, SlotsRead
<1>4. Leading' /\ InLine' /\ NoneSoFar' /\ Found' /\ Once'
  BY <1>1 DEF ScanInv, Leading, InLine, NoneSoFar, Found, Once
<1>5. Shortest'
  <2>1. ASSUME out = <<>> PROVE LengthsIn(scan, slots) = {}
    <3>1. queue = <<>>
      <4>1. Len(out) = 0
        BY <2>1
      <4> QED
        BY <1>1, <1>2, <4>1
    <3>2. Frontier = {}
      BY <1>1, <3>1 DEF Frontier
    <3>3. Shut(scan, slots, seen, {})
      BY <1>1, <2>1, <3>2 DEF ScanInv, NoneSoFar
    <3>4. \A n \in LengthsIn(scan, slots) : MAX_HOPS < n
      <4>1. MAX_HOPS \in 0 .. MAX_HOPS
        BY <1>2
      <4> QED
        BY <1>2, <3>3, <4>1, NoneBehind
    <3>5. \A n \in LengthsIn(scan, slots) : n \in 1 .. MAX_HOPS
      BY DEF LengthsIn
    <3> QED
      BY <1>2, <3>4, <3>5
  <2> QED
    BY <1>1, <2>1 DEF ScanInv, Shortest
<1> QED
  BY <1>3, <1>4, <1>5 DEF ScanInv

\* Every step of a scan and of its target keeps the invariant.
LEMMA NextScanInv == ScanInv /\ [ScanNext]_scanVars => ScanInv'
<1> SUFFICES ASSUME ScanInv, [ScanNext]_scanVars PROVE ScanInv'
  OBVIOUS
<1>1. CASE Record
  BY <1>1, RecordKeeps
<1>2. CASE NextRegion
  BY <1>2, NextRegionKeeps
<1>3. CASE BeginWalk
  BY <1>3, BeginWalkKeeps
<1>4. CASE Pop
  BY <1>4, PopKeeps
<1>5. ASSUME NEW h \in DOMAIN slots, Hop(h) PROVE ScanInv'
  BY <1>5, HopPathKeeps, HopSlotKeeps
<1>6. CASE Leave
  BY <1>6, LeaveKeeps
<1>7. CASE Return
  BY <1>7, ReturnKeeps
<1>8. CASE TargetMoves
  BY <1>8, TargetMovesKeeps
<1>9. CASE UNCHANGED scanVars
  BY <1>9 DEF scanVars, ScanInv, ScanTypes, AtFirst, SlotsRead, Leading, InLine, NoneSoFar,
              Found, Once, Shortest, Frontier
<1> QED
  BY <1>1, <1>2, <1>3, <1>4, <1>5, <1>6, <1>7, <1>8, <1>9 DEF ScanNext

\* What the invariant says of the paths.
LEMMA InvPaths == ScanInv => PathsFound
<1> SUFFICES ASSUME ScanInv PROVE PathsFound
  OBVIOUS
<1>1. scan \in Scans /\ was \in SUBSET Images /\ out \in Seq(PathType) /\ WereRead(scan, was, slots)
  BY DEF ScanInv, ScanTypes, SlotsRead
<1>2. ASSUME NEW i \in DOMAIN out
      PROVE  /\ scan.target \in Follow(out[i])
             /\ was = {mem} => Follow(out[i]) = {scan.target}
  <2>1. out[i] \in PathType
    BY <1>1
  <2>2. out[i].offsets \in Seq(Nat)
    BY <2>1 DEF PathType
  <2>3. Root(scan, out[i]) \in DOMAIN slots /\ Leads(slots, Root(scan, out[i]), out[i].offsets, scan.target)
    BY DEF ScanInv, Found
  <2>4. Root(scan, out[i]) \in Nat
    BY <1>1, <2>3 DEF WereRead
  <2>5. /\ scan.target \in FollowIn(scan, was, out[i])
        /\ Unmoved(was) => FollowIn(scan, was, out[i]) = {scan.target}
    <3>1. PathOf(scan, was, slots, scan.target, out[i])
      BY <1>1, <2>2, <2>3, <2>4 DEF PathOf
    <3> QED
      BY <3>1, LeadsFollow
  <2>6. Follow(out[i]) = FollowIn(scan, was, out[i])
    BY FollowTwin
  <2>7. was = {mem} => Unmoved(was)
    BY DEF Unmoved
  <2> QED
    BY <2>5, <2>6, <2>7
<1>3. \A i, j \in DOMAIN out : i < j => out[i] # out[j] /\ Len(out[i].offsets) <= Len(out[j].offsets)
  <2>1. DOMAIN out \subseteq Nat
    BY <1>1
  <2>2. \A i, j \in DOMAIN out : i < j => out[i] # out[j]
    <3>1. \A i, j \in Nat : i < j => i # j
      OBVIOUS
    <3> QED
      BY <2>1, <3>1 DEF ScanInv, Once
  <2> QED
    BY <2>2 DEF ScanInv, Found
<1>4. LengthsIn(scan, slots) = Lengths
  BY LengthsTwin
<1> QED
  BY <1>2, <1>3, <1>4 DEF ScanInv, Shortest, PathsFound

\* scan.rs: each path that a scan finds leads to the target by what was read, once
\* each and nearer ones first, and the shortest that the slots have is among them,
\* whatever is mapped and however the target moves meanwhile.
THEOREM PathsLead == ScanSpec => []PathsFound
<1>1. ScanSpec => []ScanInv
  BY InitScanInv, NextScanInv, PTL DEF ScanSpec
<1> QED
  BY <1>1, InvPaths, PTL
=============================================================================
