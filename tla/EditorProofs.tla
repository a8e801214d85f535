---------------------------- MODULE EditorProofs ----------------------------
(***************************************************************************)
(* Theorems about Editor, for every number of ids, every depth of the      *)
(* history and every set of kinds, files and imports: types, the class     *)
(* graph, the stacks, then what a session keeps, the views with everything *)
(* that is a position in their list and the line of documents that undo    *)
(* and redo move along.                                                    *)
(***************************************************************************)
EXTENDS EditorLoops, RegistryProofs

-----------------------------------------------------------------------------
(* The undo and redo stacks, for every DEPTH and MAX_NODES and every set P *)
(* of projects the snapshots are taken of.                                 *)

\* A family of finite sets over a finite set has a finite union.
LEMMA FiniteFamily ==
    ASSUME NEW S, IsFiniteSet(S), NEW f, \A x \in S : IsFiniteSet(f[x])
    PROVE  IsFiniteSet(UNION {f[x] : x \in S})
<1> DEFINE T == {f[x] : x \in S}
           g == [x \in S |-> f[x]]
<1>1. g \in Surjection(S, T)
  BY DEF Surjection
<1>2. IsFiniteSet(T)
  BY <1>1, FS_Surjection
<1> QED
  BY <1>2, FS_UNION

\* The nodes of a project can be counted.
LEMMA CountType ==
    ASSUME NEW p, IsFiniteSet(p.registry.live),
           \A c \in p.registry.live : IsFiniteSet(DOMAIN p.registry.nodes[c])
    PROVE  CountNodes(p) \in Nat
<1> DEFINE f == [c \in p.registry.live |-> {c} \X DOMAIN p.registry.nodes[c]]
<1>1. \A c \in p.registry.live : IsFiniteSet(f[c])
  <2> SUFFICES ASSUME NEW c \in p.registry.live PROVE IsFiniteSet(f[c])
    OBVIOUS
  <2>1. IsFiniteSet({c}) /\ IsFiniteSet(DOMAIN p.registry.nodes[c])
    BY FS_Singleton
  <2> QED
    BY <2>1, FS_Product
<1>2. IsFiniteSet(UNION {f[c] : c \in p.registry.live})
  <2> HIDE DEF f
  <2> QED
    BY <1>1, FiniteFamily
<1>3. NodesOf(p) = UNION {f[c] : c \in p.registry.live}
  BY DEF NodesOf
<1> QED
  BY <1>2, <1>3, FS_CardinalityType DEF CountNodes

Saves(P) == [project : P, count : Nat]

HistoryOf(P) == [undo : Seq(Saves(P)), redo : Seq(Saves(P)), nodes : Int]

\* The units of a stack, one for every node counted in it, are finite: there is
\* a set to take the cardinality of.
LEMMA UnitsFinite ==
    ASSUME NEW P, NEW s \in Seq(Saves(P))
    PROVE  IsFiniteSet(Units(s))
<1> DEFINE f == [i \in DOMAIN s |-> {i} \X (1 .. s[i].count)]
<1>1. DOMAIN s = 1 .. Len(s) /\ Len(s) \in Nat
  OBVIOUS
<1>2. IsFiniteSet(DOMAIN s)
  BY <1>1, FS_Interval
<1>3. \A i \in DOMAIN s : IsFiniteSet(f[i])
  <2> SUFFICES ASSUME NEW i \in DOMAIN s PROVE IsFiniteSet(f[i])
    OBVIOUS
  <2>1. s[i] \in Saves(P)
    BY <1>1, ElementOfSeq
  <2>2. s[i].count \in Int /\ 1 \in Int
    BY <2>1 DEF Saves
  <2>3. IsFiniteSet(1 .. s[i].count)
    BY <2>2, FS_Interval
  <2>4. IsFiniteSet({i})
    BY FS_Singleton
  <2> QED
    BY <2>3, <2>4, FS_Product
<1>4. IsFiniteSet(UNION {f[i] : i \in DOMAIN s})
  <2> HIDE DEF f
  <2> QED
    BY <1>2, <1>3, FiniteFamily
<1>5. Units(s) = UNION {f[i] : i \in DOMAIN s}
  BY DEF Units
<1> QED
  BY <1>4, <1>5

\* The counts of a stack have a sum.
LEMMA WeightType ==
    ASSUME NEW P, NEW s \in Seq(Saves(P))
    PROVE  Weight(s) \in Nat
BY UnitsFinite, FS_CardinalityType DEF Weight

\* Trimming drops a number of snapshots that may go, and not the newest.
LEMMA LeastSurplus ==
    ASSUME NEW grown, NEW nodes, Len(grown) \in Nat \ {0}
    PROVE  Least(Surplus(grown, nodes)) \in Surplus(grown, nodes)
<1> DEFINE S == Surplus(grown, nodes)
<1>1. S \in SUBSET Nat
  BY DEF Surplus
<1>2. Len(grown) - 1 \in S
  <2>1. Len(grown) - 1 \in 0 .. Len(grown) - 1
    OBVIOUS
  <2> QED
    BY <2>1, Zenon DEF Surplus
<1>3. \E x \in S : \A y \in S : x <= y
  BY <1>1, <1>2, LeastNatural
<1> QED
  BY <1>3 DEF Least

\* Where the last of n elements is when the first d are dropped.
LEMMA LastKept ==
    ASSUME NEW n \in Nat, NEW d \in 0 .. n - 1
    PROVE  /\ n - (d + 1) + 1 = n - d
           /\ n - d \in 1 .. n - (d + 1) + 1
           /\ d + 1 + (n - d) - 1 = n
OBVIOUS

\* After an edit the stacks hold what they held, less some of the oldest, and
\* on top the project as it was before: undo leads there, redo nowhere.
LEMMA PushProperties ==
    ASSUME NEW P, NEW h \in HistoryOf(P), NEW before \in P, CountNodes(before) \in Nat
    PROVE  LET new == Push(h, before)
           IN  /\ new \in HistoryOf(P)
               /\ new.redo = <<>>
               /\ Len(new.undo) \in 1 .. DEPTH
               /\ new.undo[Len(new.undo)] = Snapshot(before)
<1> DEFINE grown == Append(h.undo, Snapshot(before))
           nodes == h.nodes + CountNodes(before)
           d     == Least(Surplus(grown, nodes))
           kept  == SubSeq(grown, d + 1, Len(grown))
           gone  == SubSeq(grown, 1, d)
<1>1. h.undo \in Seq(Saves(P)) /\ h.nodes \in Int /\ nodes \in Int
  BY DEF HistoryOf
<1>2. Snapshot(before) \in Saves(P)
  BY DEF Snapshot, Saves
<1>3. /\ grown \in Seq(Saves(P))
      /\ Len(grown) = Len(h.undo) + 1
      /\ Len(grown) \in Nat \ {0}
      /\ grown[Len(grown)] = Snapshot(before)
  BY <1>1, <1>2, AppendProperties, LenProperties
<1> HIDE DEF grown
<1>4. d \in Surplus(grown, nodes)
  BY <1>3, LeastSurplus
<1> HIDE DEF d, nodes
<1>5. d \in 0 .. Len(grown) - 1 /\ Len(grown) - d <= DEPTH
  BY <1>3, <1>4, HistoryAssumption DEF Surplus
<1>6. /\ kept \in Seq(Saves(P))
      /\ Len(kept) = Len(grown) - d
      /\ kept[Len(kept)] = grown[Len(grown)]
  <2>1. d + 1 \in Int /\ Len(grown) \in Int /\ d + 1 <= Len(grown)
    BY <1>3, <1>5
  <2>2. \A i \in d + 1 .. Len(grown) : grown[i] \in Saves(P)
    BY <1>3, <1>5, ElementOfSeq
  <2>3. /\ kept \in Seq(Saves(P))
        /\ Len(kept) = Len(grown) - (d + 1) + 1
        /\ \A i \in 1 .. Len(grown) - (d + 1) + 1 : kept[i] = grown[d + 1 + i - 1]
    BY <2>1, <2>2, SubSeqProperties
  <2>4. Len(grown) \in Nat /\ d \in 0 .. Len(grown) - 1
    BY <1>3, <1>5
  <2>5. /\ Len(grown) - (d + 1) + 1 = Len(grown) - d
        /\ Len(grown) - d \in 1 .. Len(grown) - (d + 1) + 1
        /\ d + 1 + (Len(grown) - d) - 1 = Len(grown)
    BY <2>4, LastKept
  <2> HIDE DEF kept
  <2>6. Len(kept) = Len(grown) - d
    BY <2>3, <2>5
  <2>7. kept[Len(grown) - d] = grown[d + 1 + (Len(grown) - d) - 1]
    BY <2>3, <2>5
  <2> QED
    BY <2>3, <2>5, <2>6, <2>7
<1>7. gone \in Seq(Saves(P))
  BY <1>3, <1>5
<1>8. nodes - Weight(gone) \in Int
  <2>1. Weight(gone) \in Nat
    BY <1>7, WeightType
  <2> QED
    BY <1>1, <2>1
<1>9. <<>> \in Seq(Saves(P))
  OBVIOUS
<1>10. Push(h, before) = [undo |-> kept, redo |-> <<>>, nodes |-> nodes - Weight(gone)]
  BY DEF Push, grown, d, nodes
<1> HIDE DEF kept, gone
<1> QED
  BY <1>3, <1>5, <1>6, <1>8, <1>9, <1>10 DEF HistoryOf

\* Undo and redo move one snapshot from one stack to the other.
LEMMA UndoneProperties ==
    ASSUME NEW P, NEW h \in HistoryOf(P), NEW current \in P, CountNodes(current) \in Nat,
           CanUndo(h)
    PROVE  /\ UndoTarget(h) \in P
           /\ Undone(h, current) \in HistoryOf(P)
           /\ Len(Undone(h, current).undo) + Len(Undone(h, current).redo)
                = Len(h.undo) + Len(h.redo)
<1>1. /\ h.undo \in Seq(Saves(P)) /\ h.redo \in Seq(Saves(P)) /\ h.nodes \in Int
      /\ Len(h.undo) \in Nat \ {0} /\ Len(h.redo) \in Nat
  BY DEF HistoryOf, CanUndo
<1>2. h.undo[Len(h.undo)] \in Saves(P)
  BY <1>1
<1>3. Snapshot(current) \in Saves(P)
  BY DEF Snapshot, Saves
<1>4. /\ SubSeq(h.undo, 1, Len(h.undo) - 1) \in Seq(Saves(P))
      /\ Len(SubSeq(h.undo, 1, Len(h.undo) - 1)) = Len(h.undo) - 1
  BY <1>1
<1>5. /\ Append(h.redo, Snapshot(current)) \in Seq(Saves(P))
      /\ Len(Append(h.redo, Snapshot(current))) = Len(h.redo) + 1
  BY <1>1, <1>3
<1>6. h.nodes - h.undo[Len(h.undo)].count \in Int
  BY <1>1, <1>2 DEF Saves
<1>7. UndoTarget(h) \in P
  BY <1>2 DEF Saves, UndoTarget
<1> DEFINE u == SubSeq(h.undo, 1, Len(h.undo) - 1)
           r == Append(h.redo, Snapshot(current))
           n == h.nodes - h.undo[Len(h.undo)].count
<1>8. Undone(h, current) = [undo |-> u, redo |-> r, nodes |-> n]
  BY DEF Undone
<1>9. u \in Seq(Saves(P)) /\ Len(u) = Len(h.undo) - 1
  BY <1>4
<1>10. r \in Seq(Saves(P)) /\ Len(r) = Len(h.redo) + 1
  BY <1>5
<1>11. n \in Int
  BY <1>6
<1> HIDE DEF u, r, n
<1>12. Undone(h, current) \in HistoryOf(P)
  BY <1>8, <1>9, <1>10, <1>11 DEF HistoryOf
<1>13. Undone(h, current).undo = u /\ Undone(h, current).redo = r
  BY <1>8
<1>14. Len(u) + Len(r) = Len(h.undo) + Len(h.redo)
  <2> DEFINE m == Len(h.undo)
             w == Len(h.redo)
  <2>1. m \in Int /\ w \in Int
    BY <1>1
  <2>2. Len(u) = m - 1 /\ Len(r) = w + 1
    BY <1>9, <1>10
  <2> HIDE DEF m, w
  <2>3. Len(u) + Len(r) = m + w
    BY <2>1, <2>2
  <2> QED
    BY <2>3 DEF m, w
<1> QED
  BY <1>7, <1>12, <1>13, <1>14

LEMMA RedoneProperties ==
    ASSUME NEW P, NEW h \in HistoryOf(P), NEW current \in P, CountNodes(current) \in Nat,
           CanRedo(h)
    PROVE  /\ RedoTarget(h) \in P
           /\ Redone(h, current) \in HistoryOf(P)
           /\ Len(Redone(h, current).undo) + Len(Redone(h, current).redo)
                = Len(h.undo) + Len(h.redo)
<1>1. /\ h.undo \in Seq(Saves(P)) /\ h.redo \in Seq(Saves(P)) /\ h.nodes \in Int
      /\ Len(h.redo) \in Nat \ {0} /\ Len(h.undo) \in Nat
  BY DEF HistoryOf, CanRedo
<1>2. h.redo[Len(h.redo)] \in Saves(P)
  BY <1>1
<1>3. Snapshot(current) \in Saves(P)
  BY DEF Snapshot, Saves
<1>4. /\ SubSeq(h.redo, 1, Len(h.redo) - 1) \in Seq(Saves(P))
      /\ Len(SubSeq(h.redo, 1, Len(h.redo) - 1)) = Len(h.redo) - 1
  BY <1>1
<1>5. /\ Append(h.undo, Snapshot(current)) \in Seq(Saves(P))
      /\ Len(Append(h.undo, Snapshot(current))) = Len(h.undo) + 1
  BY <1>1, <1>3
<1>6. h.nodes + CountNodes(current) \in Int
  BY <1>1
<1>7. RedoTarget(h) \in P
  BY <1>2 DEF Saves, RedoTarget
<1> DEFINE u == Append(h.undo, Snapshot(current))
           r == SubSeq(h.redo, 1, Len(h.redo) - 1)
           n == h.nodes + CountNodes(current)
<1>8. Redone(h, current) = [undo |-> u, redo |-> r, nodes |-> n]
  BY DEF Redone
<1>9. u \in Seq(Saves(P)) /\ Len(u) = Len(h.undo) + 1
  BY <1>5
<1>10. r \in Seq(Saves(P)) /\ Len(r) = Len(h.redo) - 1
  BY <1>4
<1>11. n \in Int
  BY <1>6
<1> HIDE DEF u, r, n
<1>12. Redone(h, current) \in HistoryOf(P)
  BY <1>8, <1>9, <1>10, <1>11 DEF HistoryOf
<1>13. Redone(h, current).undo = u /\ Redone(h, current).redo = r
  BY <1>8
<1>14. Len(u) + Len(r) = Len(h.undo) + Len(h.redo)
  <2> DEFINE m == Len(h.undo)
             w == Len(h.redo)
  <2>1. m \in Int /\ w \in Int
    BY <1>1
  <2>2. Len(u) = m + 1 /\ Len(r) = w - 1
    BY <1>9, <1>10
  <2> HIDE DEF m, w
  <2>3. Len(u) + Len(r) = m + w
    BY <2>1, <2>2
  <2> QED
    BY <2>3 DEF m, w
<1> QED
  BY <1>7, <1>12, <1>13, <1>14

\* A new session and a loaded project start with empty stacks.
LEMMA EmptyHistoryProperties ==
    \A P : EmptyHistory \in HistoryOf(P)
BY DEF EmptyHistory, HistoryOf

-----------------------------------------------------------------------------
(* Types of the parts that the operations share.                           *)

\* The nodes of a project can be counted.
LEMMA ProjectCount == ASSUME NEW p \in Project PROVE CountNodes(p) \in Nat
<1>1. p.registry \in RegistryType
  BY DEF Project
<1>2. p.registry.live \subseteq Ids
  BY <1>1 DEF RegistryType
<1>3. IsFiniteSet(Ids)
  <2>1. 0 \in Int /\ MaxId - 1 \in Int
    BY RegistryAssumption
  <2> QED
    BY <2>1, FS_Interval DEF Ids
<1>4. IsFiniteSet(p.registry.live)
  BY <1>2, <1>3, FS_Subset
<1>5. ASSUME NEW c \in p.registry.live PROVE IsFiniteSet(DOMAIN p.registry.nodes[c])
  <2>1. /\ Len(p.registry.nodes[c]) \in Nat
        /\ DOMAIN p.registry.nodes[c] = 1 .. Len(p.registry.nodes[c])
    BY <1>1, <1>2, NodeList
  <2>2. 1 \in Int /\ Len(p.registry.nodes[c]) \in Int
    BY <2>1
  <2> QED
    BY <2>1, <2>2, FS_Interval
<1> QED
  BY <1>4, <1>5, CountType

\* A snapshot of a project is one of the projects P that the stacks hold.
LEMMA PushType ==
    ASSUME NEW P \in SUBSET Project, project \in P, history \in HistoryOf(P)
    PROVE  Push(history, project) \in HistoryOf(P)
<1>1. CountNodes(project) \in Nat
  BY ProjectCount
<1> QED
  BY <1>1, PushProperties

\* What TypeOK says of the history.
LEMMA HistoryType == TypeOK => project \in Project /\ history \in HistoryOf(Project)
BY DEF TypeOK, HistoryOf, Saves, Saved

LEMMA TypeFields ==
    ASSUME TypeOK
    PROVE  /\ registry \in RegistryType
           /\ views \in Seq(Ids) /\ Len(views) \in Nat /\ DOMAIN views = 1 .. Len(views)
           /\ project = [registry |-> registry, views |-> views]
BY DEF TypeOK, Project, registry, views

\* A mutator that changes nothing but the registry.
LEMMA EditRegistryType ==
    ASSUME TypeOK, NEW reg \in RegistryType, EditRegistry(reg)
    PROVE  TypeOK' /\ registry' = reg /\ views' = views
<1>1. project' = [project EXCEPT !.registry = reg]
  BY DEF EditRegistry, Commit
<1>2. project' \in Project /\ registry' = reg /\ views' = views
  BY <1>1 DEF TypeOK, Project, registry, views
<1>3. history' \in HistoryOf(Project)
  BY HistoryType, PushType DEF EditRegistry, Commit
<1>4. UNCHANGED <<selected, view_status, expand, clipboard>>
  BY DEF EditRegistry
<1> QED
  BY <1>2, <1>3, <1>4 DEF TypeOK, HistoryOf, Saves, Saved

\* An edit of the registry that records no undo point.
LEMMA UnrecordedType ==
    ASSUME TypeOK, NEW reg \in RegistryType,
           project' = [project EXCEPT !.registry = reg],
           UNCHANGED <<history, selected, view_status, expand, clipboard>>
    PROVE  TypeOK' /\ registry' = reg /\ views' = views
<1>1. project' \in Project /\ registry' = reg /\ views' = views
  BY DEF TypeOK, Project, registry, views
<1> QED
  BY <1>1 DEF TypeOK

\* A class that is open has a position, the first of those that show it.
LEMMA ViewOfType ==
    ASSUME NEW p \in Project, NEW c, IsOpen(p, c)
    PROVE  /\ ViewOf(p, c) \in Nat
           /\ ViewOf(p, c) < Len(p.views)
           /\ p.views[ViewOf(p, c) + 1] = c
<1> DEFINE T == {i \in DOMAIN p.views : p.views[i] = c}
<1>1. DOMAIN p.views = 1 .. Len(p.views) /\ Len(p.views) \in Nat
  BY DEF Project
<1>2. T \in SUBSET Nat /\ T # {}
  BY <1>1 DEF IsOpen
<1>3. Least(T) \in T
  BY <1>2, LeastNatural DEF Least
<1> HIDE DEF T
<1>4. Least(T) \in DOMAIN p.views /\ p.views[Least(T)] = c
  BY <1>3 DEF T
<1> DEFINE l == Least(T)
<1>5. ViewOf(p, c) = l - 1
  BY DEF ViewOf, T
<1>6. l \in 1 .. Len(p.views) /\ p.views[l] = c
  BY <1>1, <1>4
<1> HIDE DEF l
<1> QED
  BY <1>1, <1>5, <1>6

\* Opening a class leaves it open.
LEMMA OpenedType ==
    ASSUME NEW p \in Project, NEW c \in Ids
    PROVE  /\ Opened(p, c) \in Project
           /\ Opened(p, c).registry = p.registry
           /\ IsOpen(Opened(p, c), c)
<1>1. CASE IsOpen(p, c)
  BY <1>1 DEF Opened
<1>2. CASE ~IsOpen(p, c)
  <2>1. /\ Append(p.views, c) \in Seq(Ids)
        /\ DOMAIN Append(p.views, c) = 1 .. Len(p.views) + 1
        /\ Append(p.views, c)[Len(p.views) + 1] = c
        /\ Len(p.views) \in Nat
    BY DEF Project
  <2>2. Opened(p, c) = [p EXCEPT !.views = Append(p.views, c)]
    BY <1>2 DEF Opened
  <2>3. Opened(p, c).views = Append(p.views, c)
    BY <2>2 DEF Project
  <2>4. Opened(p, c) \in Project /\ Opened(p, c).registry = p.registry
    BY <2>1, <2>2 DEF Project
  <2>5. Len(p.views) + 1 \in DOMAIN Opened(p, c).views
        /\ Opened(p, c).views[Len(p.views) + 1] = c
    BY <2>1, <2>3
  <2>6. IsOpen(Opened(p, c), c)
    BY <2>5 DEF IsOpen
  <2> QED
    BY <2>4, <2>6
<1> QED
  BY <1>1, <1>2

Statuses == Ids \cup {NoStatus}

LEMMA ResizeType ==
    ASSUME NEW s \in Seq(Statuses), NEW n \in Nat
    PROVE  Resize(s, n) \in Seq(Statuses) /\ Len(Resize(s, n)) = n
<1>1. \A i \in 1 .. n : (IF i <= Len(s) THEN s[i] ELSE NoStatus) \in Statuses
  <2> SUFFICES ASSUME NEW i \in 1 .. n
               PROVE  (IF i <= Len(s) THEN s[i] ELSE NoStatus) \in Statuses
    OBVIOUS
  <2>1. i <= Len(s) => s[i] \in Statuses
    BY ElementOfSeq, LenProperties
  <2> QED
    BY <2>1 DEF Statuses
<1>2. Resize(s, n) \in [1 .. n -> Statuses]
  BY <1>1 DEF Resize
<1> QED
  BY <1>2

\* open_view keeps the types.
LEMMA OpenInType ==
    ASSUME TypeOK, NEW p \in Project, NEW c \in Ids, OpenIn(p, c),
           history' \in HistoryOf(Project), UNCHANGED <<expand, clipboard>>
    PROVE  TypeOK' /\ registry' = p.registry
<1>1. /\ Opened(p, c) \in Project
      /\ Opened(p, c).registry = p.registry
      /\ IsOpen(Opened(p, c), c)
  BY OpenedType
<1>2. ViewOf(Opened(p, c), c) \in Nat
  BY <1>1, ViewOfType
<1>3. Len(Opened(p, c).views) \in Nat
  BY <1>1 DEF Project
<1>4. Resize(view_status, Len(Opened(p, c).views)) \in Seq(Statuses)
  BY <1>3, ResizeType DEF TypeOK, Statuses
<1>5. /\ project' = Opened(p, c)
      /\ selected' = ViewOf(Opened(p, c), c)
      /\ view_status' = Resize(view_status, Len(Opened(p, c).views))
  BY DEF OpenIn
<1> QED
  BY <1>1, <1>2, <1>4, <1>5 DEF TypeOK, HistoryOf, Saves, Saved, Statuses, registry

\* Cutting one element out of a sequence.
LEMMA WithoutType ==
    ASSUME NEW S, NEW s \in Seq(S), NEW idx \in Nat, idx < Len(s)
    PROVE  Without(s, idx) \in Seq(S) /\ Len(Without(s, idx)) = Len(s) - 1
<1> DEFINE a == SubSeq(s, 1, idx)
           b == SubSeq(s, idx + 2, Len(s))
<1>1. a \in Seq(S) /\ Len(a) = idx
  OBVIOUS
<1>2. b \in Seq(S) /\ Len(b) = Len(s) - idx - 1
  OBVIOUS
<1>3. Without(s, idx) = a \o b
  BY DEF Without
<1> HIDE DEF a, b
<1>4. a \o b \in Seq(S) /\ Len(a \o b) = Len(a) + Len(b)
  BY <1>1, <1>2, ConcatProperties
<1> QED
  BY <1>1, <1>2, <1>3, <1>4

\* An expansion is of a position and a path.
Marks == SUBSET (Nat \X Nat)

LEMMA ShiftType ==
    ASSUME NEW S \in Marks, NEW idx \in Nat
    PROVE  Shift(S, idx) \in Marks
BY DEF Shift, ButRoot, Marks

\* Closing a view keeps the types.
LEMMA DropViewType ==
    ASSUME TypeOK, NEW reg \in RegistryType, NEW idx \in Nat, idx < Len(views),
           DropView(reg, idx), history' \in HistoryOf(Project), UNCHANGED clipboard
    PROVE  TypeOK' /\ registry' = reg
<1> DEFINE left == Len(views) - 1
           m    == Smaller(left, Len(view_status))
<1>1. left \in Nat /\ views \in Seq(Ids) /\ view_status \in Seq(Statuses)
  BY TypeFields DEF TypeOK, Statuses
<1>2. Without(views, idx) \in Seq(Ids)
  BY <1>1, WithoutType
<1>3. project' = [registry |-> reg, views |-> Without(views, idx)]
  BY DEF DropView
<1>4. project' \in Project /\ registry' = reg
  BY <1>2, <1>3 DEF Project, registry
<1>5. view_status' \in Seq(Statuses)
  <2>1. m \in Nat /\ m <= Len(view_status)
    BY <1>1, LenProperties DEF Smaller
  <2>2. view_status' = SubSeq(view_status, 1, m)
    BY DEF DropView
  <2> HIDE DEF m
  <2>3. \A i \in 1 .. m : view_status[i] \in Statuses
    BY <1>1, <2>1, ElementOfSeq, LenProperties
  <2> QED
    BY <2>1, <2>2, <2>3, SubSeqProperties
<1>6. selected' \in Nat
  <2>1. selected' = IF selected >= left THEN Saturating(left) ELSE selected
    BY DEF DropView
  <2> HIDE DEF left
  <2>2. Saturating(left) \in Nat /\ selected \in Nat
    BY <1>1 DEF Saturating, TypeOK
  <2> QED
    BY <2>1, <2>2
<1>7. expand' \in [set : Marks, collapsed : Marks]
  <2>1. expand.set \in Marks /\ expand.collapsed \in Marks
    BY DEF TypeOK, Marks
  <2> QED
    BY <2>1, ShiftType DEF DropView, RootDropped
<1> QED
  BY <1>4, <1>5, <1>6, <1>7 DEF TypeOK, HistoryOf, Saves, Saved, Statuses, Marks

\* So does coming to another project.
LEMMA ResyncType ==
    ASSUME TypeOK, NEW p \in Project, NEW cursor \in Nat, project' = p, Resync(p, cursor),
           history' \in HistoryOf(Project), UNCHANGED clipboard
    PROVE  TypeOK' /\ registry' = p.registry
<1>1. p.views \in Seq(Ids) /\ DOMAIN p.views = 1 .. Len(p.views) /\ Len(p.views) \in Nat
  BY DEF Project
<1>2. view_status' \in Seq(Statuses)
  <2>1. view_status' = [i \in 1 .. Len(p.views) |-> NoStatus]
    BY <1>1 DEF Resync
  <2> QED
    BY <1>1, <2>1 DEF Statuses
<1>3. selected' \in Nat
  BY <1>1 DEF Resync, Smaller, Saturating
<1>4. expand' \in [set : Marks, collapsed : Marks]
  BY DEF Resync, NothingExpanded, Marks
<1> QED
  BY <1>2, <1>3, <1>4 DEF TypeOK, HistoryOf, Saves, Saved, Statuses, Marks, registry

\* An import opens the largest class, which is one of the registry's.
LEMMA BiggestType ==
    ASSUME NEW reg \in RegistryType, reg.live # {}
    PROVE  Biggest(reg) \in reg.live
<1> DEFINE size(c) == SizeOf(reg, c)
           T == {MaxSize - size(c) : c \in reg.live}
           last(t) == {MaxId - c : c \in {d \in reg.live : MaxSize - size(d) = t}}
<1>1. \A c \in reg.live : size(c) \in 0 .. MaxSize
  BY SizeType DEF RegistryType
<1> HIDE DEF size
<1>2. reg.live \subseteq 0 .. MaxId - 1
  BY DEF RegistryType, Ids
<1>3. PICK t \in T : \A u \in T : t <= u
  <2>1. T \in SUBSET Nat /\ T # {}
    BY <1>1, RegistryAssumption
  <2> HIDE DEF T
  <2> QED
    BY <2>1, LeastNatural
<1>4. PICK n \in last(t) : \A o \in last(t) : n <= o
  <2>1. last(t) \in SUBSET Nat /\ last(t) # {}
    BY <1>2, RegistryAssumption
  <2> HIDE DEF last
  <2> QED
    BY <2>1, LeastNatural
<1>5. PICK c \in reg.live : n = MaxId - c /\ MaxSize - size(c) = t
  BY <1>4
<1>6. \A d \in reg.live : size(d) < size(c) \/ (size(d) = size(c) /\ d <= c)
  <2> SUFFICES ASSUME NEW d \in reg.live, ~(size(d) < size(c))
               PROVE  size(d) = size(c) /\ d <= c
    OBVIOUS
  <2>1. size(c) \in Nat /\ size(d) \in Nat /\ c \in Nat /\ d \in Nat
    BY <1>1, <1>2
  <2>2. t <= MaxSize - size(d)
    BY <1>3
  <2>3. size(d) = size(c)
    BY <1>5, <2>1, <2>2, RegistryAssumption
  <2>4. MaxId - d \in last(t)
    BY <1>5, <2>3
  <2>5. MaxId - c <= MaxId - d
    BY <1>4, <1>5, <2>4
  <2> QED
    BY <2>1, <2>3, <2>5, RegistryAssumption
<1>7. \E x \in reg.live : \A d \in reg.live :
          SizeOf(reg, d) < SizeOf(reg, x) \/ (SizeOf(reg, d) = SizeOf(reg, x) /\ d <= x)
  BY <1>6 DEF size
<1> QED
  BY <1>7 DEF Biggest

-----------------------------------------------------------------------------
(* What a step does to the registry.                                       *)

\* The user, a plugin or an agent asks for a node of kind k.
AsksFor(k) == \E c \in Ids :
    \/ AddNode(c, k)
    \/ \E count \in Counts : AddArray(c, k, count)
    \/ \E idx \in Index : ChangeKind(c, idx, k)
    \/ PushNode(c, k)
    \/ \E idx \in Index : InsertAfter(c, idx, k)
    \/ \E idx \in 0 .. MaxNodes : McpInsertNode(c, idx, k)

\* One of them names a class that is not there.
NamesGone == \E k \in Kinds \cup PluginKinds :
    /\ ~(Referenced(k) \subseteq registry.live)
    /\ AsksFor(k)

\* A plugin, whose push nobody looks at, puts a class into one that it holds.
PluginCycle == \E c \in Ids, k \in PluginKinds :
    /\ KindWouldCycle(registry, c, k)
    /\ PushNode(c, k) \/ \E idx \in Index : InsertAfter(c, idx, k)

Named == LiveRefsOnly \/ ~NamesGone

\* What a caller may add to class c: the guard has looked at it, or a plugin
\* pushes it; and where callers name only classes there are, it does.
Permitted(c, k) ==
    /\ KindWouldCycle(registry, c, k) => k \in PluginKinds /\ PluginCycle
    /\ Named => Referenced(k) \subseteq registry'.live

\* No class comes, or one with the next id, whose own nodes refer to no other.
Numbered ==
    \/ registry'.live = registry.live /\ registry'.next_id = registry.next_id
    \/ /\ registry'.live = registry.live \cup {registry.next_id}
       /\ registry'.next_id = registry.next_id + 1
       /\ \A k \in KindsOf(registry', registry.next_id) :
              Referenced(k) \subseteq {registry.next_id}

\* Class c, and no other, gains references, to what its caller was permitted.
Gains(c, K) ==
    /\ Grows(registry, registry', c, K)
    /\ \A k \in K : Permitted(c, k)
    /\ Numbered

Grew == \E c \in Ids, K \in SUBSET Kind : Gains(c, K)

Shrank == \E id \in Ids : registry' = ClassRemoved(registry, id)

\* Nothing that an edit could move has moved.
Kept ==
    /\ registry'.live = registry.live
    /\ registry'.nodes = registry.nodes
    /\ registry'.next_id = registry.next_id

Edited == Kept \/ Grew \/ Shrank

\* An edit of the registry alone that has grown it.
LEMMA EditGrew ==
    ASSUME TypeOK, NEW reg \in RegistryType, NEW c \in Ids, NEW K \in SUBSET Kind,
           reg.live = registry.live, reg.next_id = registry.next_id,
           Grows(registry, reg, c, K),
           \A k \in K :
               /\ KindWouldCycle(registry, c, k) => k \in PluginKinds /\ PluginCycle
               /\ Named => Referenced(k) \subseteq registry.live,
           EditRegistry(reg)
    PROVE  TypeOK' /\ Grew /\ views' = views
<1>1. TypeOK' /\ registry' = reg /\ views' = views
  BY EditRegistryType
<1>2. Gains(c, K)
  BY <1>1 DEF Gains, Permitted, Numbered
<1> QED
  BY <1>1, <1>2 DEF Grew

\* Edits with no reference to a class: `K' is empty.
LEMMA EditPlain ==
    ASSUME TypeOK, NEW reg \in RegistryType, NEW c \in Ids,
           reg.live = registry.live, reg.next_id = registry.next_id,
           Grows(registry, reg, c, {}), EditRegistry(reg)
    PROVE  TypeOK' /\ Grew /\ views' = views
BY EditGrew

\* No operation but add_class touches next_id.
LEMMA NextIdKept ==
    ASSUME NEW reg \in RegistryType, NEW c, NEW idx, NEW ns, NEW k, NEW x
    PROVE  /\ NodesPushed(reg, c, ns).next_id = reg.next_id
           /\ NodesInserted(reg, c, idx, ns).next_id = reg.next_id
           /\ NodeRemoved(reg, c, idx).next_id = reg.next_id
           /\ KindSet(reg, c, idx, k).next_id = reg.next_id
           /\ ArrayCountSet(reg, c, idx, x).next_id = reg.next_id
           /\ NodeRelabelled(reg, c, idx, x).next_id = reg.next_id
           /\ ClassRelabelled(reg, c, x).next_id = reg.next_id
           /\ PtrWidthSet(reg, x).next_id = reg.next_id
           /\ NodesDeleted(reg, x).next_id = reg.next_id
           /\ ClassRemoved(reg, c).next_id = reg.next_id
BY DEF NodesPushed, NodesInserted, NodeRemoved, KindSet, ArrayCountSet, NodeRelabelled,
       ClassRelabelled, PtrWidthSet, NodesDeleted, ClassRemoved, ClassDropped,
       RegistryType

\* Rows of numbers are nodes that refer to nothing.
LEMMA ScalarsType ==
    ASSUME NEW n \in Nat, NEW size \in Nat
    PROVE  /\ Scalars(n, size) \in Seq(Node)
           /\ \A k \in KindsIn(Scalars(n, size)) : Refless(k)
<1>1. Plain(Scalar(size)) \in Node /\ Plain(Scalar(size)).kind = Scalar(size)
  BY KindTypes DEF Plain
<1>2. Scalars(n, size) \in [1 .. n -> {Plain(Scalar(size))}]
  BY DEF Scalars
<1>3. Scalars(n, size) \in [1 .. n -> Node]
  BY <1>1, <1>2
<1>4. Scalars(n, size) \in Seq(Node)
  BY <1>3
<1>5. \A k \in KindsIn(Scalars(n, size)) : k = Scalar(size)
  BY <1>1, <1>2 DEF KindsIn
<1> QED
  BY <1>4, <1>5, ScalarRefs DEF Refless

\* A new class with rows that refer to nothing.
LEMMA SeededType ==
    ASSUME NEW reg \in RegistryType, NEW name \in Labels, NEW n \in Nat, NEW size \in Nat,
           reg.next_id < MaxId, NEW d
    PROVE  LET new == NodesPushed(ClassAdded(reg, name), reg.next_id,
                                  Scalars(n, size))
           IN  /\ new \in RegistryType
               /\ new.live = reg.live \cup {reg.next_id}
               /\ new.next_id = reg.next_id + 1
               /\ Grows(reg, new, d, {})
               /\ \A k \in KindsOf(new, reg.next_id) : Refless(k)
<1> DEFINE c == reg.next_id
           ns == Scalars(n, size)
           mid == ClassAdded(reg, name)
           new == NodesPushed(mid, c, ns)
<1>1. c \in Ids /\ mid \in RegistryType
  BY ClassAddedType
<1>2. ns \in Seq(Node) /\ \A k \in KindsIn(ns) : Refless(k)
  BY ScalarsType
<1>3. Grows(reg, mid, c, {}) /\ mid.live = reg.live \cup {c} /\ KindsOf(mid, c) = {}
  BY ClassAddedGrows
<1>4. mid.next_id = c + 1
  BY DEF ClassAdded, RegistryType
<1> HIDE DEF ns, mid
<1>6. Grows(mid, new, c, KindsIn(ns)) /\ new.live = mid.live
  BY <1>1, <1>2, PushedGrows
<1>7. new.next_id = mid.next_id
  BY <1>1, NextIdKept
<1>8. new \in RegistryType
  BY <1>1, <1>2, NodesPushedType
<1> HIDE DEF c, new
<1>9. Grows(mid, new, d, {})
  BY <1>2, <1>6, ReflessGrows
<1>10. Grows(reg, new, d, {})
  <2>1. Grows(reg, mid, c, {})
    BY <1>3
  <2> QED
    BY <1>9, <2>1, GrowsAfter
<1>11. \A k \in KindsOf(new, c) : Refless(k)
  BY <1>1, <1>2, <1>3, <1>6 DEF Grows, SameRefs, Refless
<1> QED
  BY <1>3, <1>4, <1>6, <1>7, <1>8, <1>10, <1>11 DEF new, mid, ns, c

LEMMA ClassStepsEdit == TypeOK /\ ClassSteps => TypeOK' /\ Edited
<1> SUFFICES ASSUME TypeOK, ClassSteps PROVE TypeOK' /\ Edited
  OBVIOUS
<1>0. project \in Project /\ history \in HistoryOf(Project) /\ registry \in RegistryType
  BY HistoryType, TypeFields
<1>1. ASSUME NEW name \in Labels, NEW rows \in SeedRows, AddClass(name, rows)
      PROVE  TypeOK' /\ Edited
  <2> DEFINE reg == NodesPushed(ClassAdded(registry, name), registry.next_id,
                                Scalars(rows, 8))
             p   == [project EXCEPT !.registry = reg]
  <2>1. rows \in Nat /\ 8 \in Nat /\ registry.next_id < MaxId
    BY <1>1, EditorAssumption DEF AddClass
  <2>2. registry.next_id \in Ids
    BY <1>0, <2>1, ClassAddedType
  <2>3. /\ reg \in RegistryType
        /\ reg.live = registry.live \cup {registry.next_id}
        /\ reg.next_id = registry.next_id + 1
        /\ Grows(registry, reg, registry.next_id, {})
        /\ \A k \in KindsOf(reg, registry.next_id) : Refless(k)
    BY <1>0, <2>1, SeededType
  <2>4. history' = Push(history, project) /\ OpenIn(p, registry.next_id)
        /\ UNCHANGED <<expand, clipboard>>
    BY <1>1 DEF AddClass
  <2> HIDE DEF reg
  <2>5. p \in Project /\ p.registry = reg
    BY <1>0, <2>3 DEF Project
  <2>6. history' \in HistoryOf(Project)
    BY <1>0, <2>4, PushType
  <2> HIDE DEF p
  <2>7. TypeOK' /\ registry' = reg
    BY <2>2, <2>4, <2>5, <2>6, OpenInType
  <2>8. Gains(registry.next_id, {})
    BY <2>3, <2>7 DEF Gains, Numbered, Refless
  <2> QED
    BY <2>2, <2>7, <2>8 DEF Edited, Grew
<1>2. ASSUME NEW c \in Ids, RemoveClass(c) PROVE TypeOK' /\ Edited
  <2> DEFINE reg == ClassRemoved(registry, c)
  <2>1. reg \in RegistryType
    BY <1>0, ClassRemovedType
  <2>2. history' \in HistoryOf(Project)
    BY <1>0, <1>2, PushType DEF RemoveClass
  <2> HIDE DEF reg
  <2>3. CASE IsOpen(project, c)
    <3>1. ViewOf(project, c) \in Nat /\ ViewOf(project, c) < Len(views)
      BY <1>0, <2>3, ViewOfType DEF views
    <3>2. DropView(reg, ViewOf(project, c)) /\ UNCHANGED clipboard
      BY <1>2, <2>3 DEF RemoveClass, reg
    <3>3. TypeOK' /\ registry' = reg
      BY <2>1, <2>2, <3>1, <3>2, DropViewType
    <3> QED
      BY <3>3 DEF Edited, Shrank, reg
  <2>4. CASE ~IsOpen(project, c)
    <3>1. /\ project' = [project EXCEPT !.registry = reg]
          /\ UNCHANGED <<selected, view_status, expand, clipboard>>
      BY <1>2, <2>4 DEF RemoveClass, reg
    <3>2. project' \in Project /\ registry' = reg
      BY <1>0, <2>1, <3>1 DEF Project, registry
    <3>3. TypeOK'
      BY <2>2, <3>1, <3>2 DEF TypeOK, HistoryOf, Saves, Saved
    <3> QED
      BY <3>2, <3>3 DEF Edited, Shrank, reg
  <2> QED
    BY <2>3, <2>4
<1>3. ASSUME NEW owner \in Ids, NEW idx \in Index, NEW path \in Index, NEW root \in Roots,
             ExpandPointer(owner, idx, root, path)
      PROVE  TypeOK' /\ Edited
  <2> DEFINE target == registry.next_id
             grown  == NodesPushed(ClassAdded(registry, NoLabel), target,
                                   Scalars(AutoRows, registry.ptr))
             reg    == KindSet(grown, owner, idx, ClassPtr(target))
  <2>1. /\ AutoRows \in Nat /\ registry.ptr \in Nat /\ target < MaxId
        /\ NoLabel \in Labels /\ idx \in Nat /\ path \in Nat /\ root \in Nat
    BY <1>0, <1>3, EditorAssumption, RegistryAssumption
    DEF ExpandPointer, RegistryType, PtrWidth, Index, Roots
  <2>2. target \in Ids
    BY <1>0, <2>1, ClassAddedType
  <2>3. /\ grown \in RegistryType
        /\ grown.live = registry.live \cup {target}
        /\ grown.next_id = target + 1
        /\ Grows(registry, grown, owner, {})
        /\ \A k \in KindsOf(grown, target) : Refless(k)
    BY <1>0, <2>1, SeededType
  <2>4. /\ Commit(reg)
        /\ expand' \in {expand, Expanded(expand, root, path)}
        /\ UNCHANGED <<selected, view_status, clipboard>>
    BY <1>3 DEF ExpandPointer
  <2> HIDE DEF grown
  <2>5. ClassPtr(target) \in Kind
    BY <2>2, KindTypes
  <2>6. reg \in RegistryType
    BY <2>1, <2>3, <2>5, KindSetType
  <2>7. Grows(grown, reg, owner, {ClassPtr(target)}) /\ reg.live = grown.live
    BY <2>1, <2>3, <2>5, KindSetGrows
  <2>8. reg.next_id = grown.next_id
    BY <2>3, NextIdKept
  <2> HIDE DEF reg
  <2>9. Grows(registry, reg, owner, {ClassPtr(target)})
    BY <2>3, <2>7, GrowsAfter
  <2>10. Inline(ClassPtr(target)) = {} /\ Referenced(ClassPtr(target)) = {target}
    BY DEF ClassPtr, Inline, Referenced
  <2>11. \A k \in KindsOf(reg, target) : Referenced(k) \subseteq {target}
    BY <2>2, <2>3, <2>7, <2>10 DEF Grows, SameRefs, Refless
  <2>12. project' \in Project /\ registry' = reg
    BY <1>0, <2>4, <2>6 DEF Commit, Project, registry
  <2>13. history' \in HistoryOf(Project)
    BY <1>0, <2>4, PushType DEF Commit
  <2>14. expand' \in [set : Marks, collapsed : Marks]
    BY <2>1, <2>4 DEF Expanded, TypeOK, Marks
  <2>15. TypeOK'
    BY <2>4, <2>12, <2>13, <2>14 DEF TypeOK, HistoryOf, Saves, Saved, Marks
  <2>16. Gains(owner, {ClassPtr(target)})
    BY <2>3, <2>7, <2>8, <2>9, <2>10, <2>11, <2>12
    DEF Gains, Permitted, Numbered, KindWouldCycle
  <2> QED
    BY <2>5, <2>15, <2>16 DEF Edited, Grew
<1> QED
  BY <1>1, <1>2, <1>3 DEF ClassSteps

LEMMA ViewStepsEdit == TypeOK /\ ViewSteps => TypeOK' /\ Edited
<1> SUFFICES ASSUME TypeOK, ViewSteps PROVE TypeOK' /\ Edited
  OBVIOUS
<1>0. /\ project \in Project /\ history \in HistoryOf(Project) /\ registry \in RegistryType
      /\ views \in Seq(Ids) /\ Len(views) \in Nat /\ MaxNodes \in Nat
      /\ expand \in [set : Marks, collapsed : Marks] /\ selected \in Nat
  BY HistoryType, TypeFields, EditorAssumption DEF TypeOK, Marks
<1>1. ASSUME NEW c \in Ids, OpenView(c) PROVE TypeOK' /\ Edited
  <2>1. OpenIn(project, c) /\ UNCHANGED <<history, expand, clipboard>>
    BY <1>1 DEF OpenView
  <2>2. history' \in HistoryOf(Project)
    BY <1>0, <2>1
  <2>3. TypeOK' /\ registry' = registry
    BY <1>0, <2>1, <2>2, OpenInType DEF registry
  <2> QED
    BY <2>3 DEF Edited, Kept
<1>2. ASSUME NEW idx \in Roots, CloseView(idx) PROVE TypeOK' /\ Edited
  <2>1. DropView(registry, idx) /\ UNCHANGED <<history, clipboard>>
    BY <1>2 DEF CloseView
  <2>2. idx \in Nat /\ idx < Len(views)
    BY <1>0 DEF Roots
  <2>3. history' \in HistoryOf(Project)
    BY <1>0, <2>1
  <2>4. TypeOK' /\ registry' = registry
    BY <1>0, <2>1, <2>2, <2>3, DropViewType
  <2> QED
    BY <2>4 DEF Edited, Kept
<1>3. ASSUME NEW idx \in Roots, SelectView(idx) PROVE TypeOK' /\ Edited
  BY <1>0, <1>3 DEF SelectView, Roots, TypeOK, Edited, Kept, registry
<1>4. ASSUME NEW x \in [set : Marks, collapsed : Marks], SetExpand(x) PROVE TypeOK' /\ Edited
  BY <1>4 DEF SetExpand, TypeOK, Marks, Edited, Kept, registry
<1>5. ASSUME NEW root \in Roots, NEW i \in Index,
             ToggleExpand(root, i) \/ ToggleCollapse(root, i)
      PROVE  TypeOK' /\ Edited
  <2>1. <<root, i>> \in Nat \X Nat
    BY <1>0 DEF Roots, Index
  <2>2. /\ Toggled(expand, root, i) \in [set : Marks, collapsed : Marks]
        /\ CollapseToggled(expand, root, i) \in [set : Marks, collapsed : Marks]
    BY <1>0, <2>1 DEF Toggled, CollapseToggled, Flip, Marks
  <2> QED
    BY <1>4, <1>5, <2>2 DEF ToggleExpand, ToggleCollapse
<1>6. ASSUME NEW paths \in SUBSET Nat
      PROVE  /\ ExpandedOnly(expand, selected, paths) \in [set : Marks, collapsed : Marks]
             /\ CollapsedOnly(expand, selected, paths) \in [set : Marks, collapsed : Marks]
  <2>1. {selected} \X paths \in Marks
    BY <1>0 DEF Marks
  <2>2. /\ ButRoot(expand.set, selected) \in Marks
        /\ ButRoot(expand.collapsed, selected) \in Marks
    BY <1>0 DEF ButRoot, Marks
  <2> QED
    BY <2>1, <2>2 DEF ExpandedOnly, CollapsedOnly, Marks
<1>7. CASE ExpandAll
  <2> DEFINE paths == {i \in Rows(selected) : IsClassPtr(RowKind(selected, i))}
  <2>1. paths \in SUBSET Nat
    BY DEF Rows
  <2>2. SetExpand(ExpandedOnly(expand, selected, paths))
    BY <1>7 DEF ExpandAll
  <2> HIDE DEF paths
  <2> QED
    BY <1>4, <1>6, <2>1, <2>2
<1>8. CASE CollapseAll
  <2> DEFINE paths == {i \in Rows(selected) : IsAggregate(RowKind(selected, i))}
  <2>1. paths \in SUBSET Nat
    BY DEF Rows
  <2>2. SetExpand(CollapsedOnly(expand, selected, paths))
    BY <1>8 DEF CollapseAll
  <2> HIDE DEF paths
  <2> QED
    BY <1>4, <1>6, <2>1, <2>2
<1>9. CASE ComputeRows
  <2>1. views \in Seq(Statuses)
    BY <1>0, SeqMonotonic DEF Statuses
  <2> QED
    BY <1>9, <2>1 DEF ComputeRows, TypeOK, Statuses, Edited, Kept, registry
<1> QED
  BY <1>1, <1>2, <1>3, <1>5, <1>7, <1>8, <1>9 DEF ViewSteps

LEMMA OneNode ==
    ASSUME NEW k \in Kind
    PROVE  <<Plain(k)>> \in Seq(Node) /\ KindsIn(<<Plain(k)>>) = {k}
<1>1. Plain(k) \in Node /\ Plain(k).kind = k
  BY KindTypes DEF Plain
<1>2. <<Plain(k)>> \in Seq(Node) /\ DOMAIN <<Plain(k)>> = {1} /\ <<Plain(k)>>[1] = Plain(k)
  BY <1>1
<1> QED
  BY <1>1, <1>2 DEF KindsIn

LEMMA GuardedStepsEdit == TypeOK /\ GuardedSteps => TypeOK' /\ Edited
<1> SUFFICES ASSUME TypeOK, NEW c \in Ids, NEW k \in Choice(Kinds),
                    \/ AddNode(c, k)
                    \/ \E count \in Counts : AddArray(c, k, count)
                    \/ \E idx \in Index : ChangeKind(c, idx, k)
             PROVE  TypeOK' /\ Edited
  BY DEF GuardedSteps
<1>0. /\ registry \in RegistryType /\ k \in Kind /\ MaxNodes \in Nat
      /\ Named => Referenced(k) \subseteq registry.live
  <2>1. registry \in RegistryType /\ k \in Kind /\ MaxNodes \in Nat /\ k \in Kinds
    BY TypeFields, EditorAssumption DEF Choice
  <2>2. LiveRefsOnly => Referenced(k) \subseteq registry.live
    BY DEF Choice
  <2>3. AsksFor(k)
    BY DEF AsksFor
  <2>4. ~NamesGone => Referenced(k) \subseteq registry.live
    BY <2>1, <2>3 DEF NamesGone
  <2> QED
    BY <2>1, <2>2, <2>4 DEF Named
<1>1. CASE AddNode(c, k)
  <2> DEFINE ns == <<Plain(k)>>
  <2>1. ns \in Seq(Node) /\ KindsIn(ns) = {k}
    BY <1>0, OneNode
  <2>2. Guarded(c, k) /\ EditRegistry(NodesPushed(registry, c, ns))
    BY <1>1 DEF AddNode
  <2> HIDE DEF ns
  <2>3. NodesPushed(registry, c, ns) \in RegistryType
    BY <1>0, <2>1, NodesPushedType
  <2>4. /\ Grows(registry, NodesPushed(registry, c, ns), c, {k})
        /\ NodesPushed(registry, c, ns).live = registry.live
    BY <1>0, <2>1, PushedGrows
  <2>5. NodesPushed(registry, c, ns).next_id = registry.next_id
    BY <1>0, NextIdKept
  <2>6. TypeOK' /\ Grew
    BY <1>0, <2>2, <2>3, <2>4, <2>5, EditGrew DEF Guarded
  <2> QED
    BY <2>6 DEF Edited
<1>2. ASSUME NEW count \in Counts, AddArray(c, k, count) PROVE TypeOK' /\ Edited
  <2> DEFINE a  == ArrayOf(k, count)
             ns == <<Plain(a)>>
  <2>1. count \in Nat
    BY EditorAssumption
  <2>2. a \in Kind /\ Inline(a) = Inline(k) /\ Referenced(a) = Referenced(k)
    BY <1>0, <2>1, ArrayType
  <2>3. ~KindWouldCycle(registry, c, a)
    BY <1>2, <2>2 DEF AddArray, Guarded, KindWouldCycle
  <2>4. ns \in Seq(Node) /\ KindsIn(ns) = {a}
    BY <2>2, OneNode
  <2>5. EditRegistry(NodesPushed(registry, c, ns))
    BY <1>2 DEF AddArray
  <2> HIDE DEF a, ns
  <2>6. NodesPushed(registry, c, ns) \in RegistryType
    BY <1>0, <2>4, NodesPushedType
  <2>7. /\ Grows(registry, NodesPushed(registry, c, ns), c, {a})
        /\ NodesPushed(registry, c, ns).live = registry.live
    BY <1>0, <2>4, PushedGrows
  <2>8. NodesPushed(registry, c, ns).next_id = registry.next_id
    BY <1>0, NextIdKept
  <2>9. TypeOK' /\ Grew
    BY <1>0, <2>2, <2>3, <2>5, <2>6, <2>7, <2>8, EditGrew
  <2> QED
    BY <2>9 DEF Edited
<1>3. ASSUME NEW idx \in Index, ChangeKind(c, idx, k) PROVE TypeOK' /\ Edited
  <2>1. idx \in Nat
    BY <1>0 DEF Index
  <2>2. Guarded(c, k) /\ EditRegistry(KindSet(registry, c, idx, k))
    BY <1>3 DEF ChangeKind
  <2>3. KindSet(registry, c, idx, k) \in RegistryType
    BY <1>0, <2>1, KindSetType
  <2>4. /\ Grows(registry, KindSet(registry, c, idx, k), c, {k})
        /\ KindSet(registry, c, idx, k).live = registry.live
    BY <1>0, <2>1, KindSetGrows
  <2>5. KindSet(registry, c, idx, k).next_id = registry.next_id
    BY <1>0, NextIdKept
  <2>6. TypeOK' /\ Grew
    BY <1>0, <2>2, <2>3, <2>4, <2>5, EditGrew DEF Guarded
  <2> QED
    BY <2>6 DEF Edited
<1> QED
  BY <1>1, <1>2, <1>3

LEMMA UncheckedStepsEdit == TypeOK /\ UncheckedSteps => TypeOK' /\ Edited
<1> SUFFICES ASSUME TypeOK, NEW c \in Ids, NEW k \in Choice(PluginKinds),
                    PushNode(c, k) \/ \E idx \in Index : InsertAfter(c, idx, k)
             PROVE  TypeOK' /\ Edited
  BY DEF UncheckedSteps
<1> DEFINE ns == <<Plain(k)>>
<1>0. /\ registry \in RegistryType /\ k \in Kind /\ k \in PluginKinds /\ MaxNodes \in Nat
      /\ KindWouldCycle(registry, c, k) => PluginCycle
      /\ Named => Referenced(k) \subseteq registry.live
  <2>1. registry \in RegistryType /\ k \in Kind /\ MaxNodes \in Nat /\ k \in PluginKinds
    BY TypeFields, EditorAssumption DEF Choice
  <2>2. LiveRefsOnly => Referenced(k) \subseteq registry.live
    BY DEF Choice
  <2>3. AsksFor(k)
    BY DEF AsksFor
  <2>4. ~NamesGone => Referenced(k) \subseteq registry.live
    BY <2>1, <2>3 DEF NamesGone
  <2>5. KindWouldCycle(registry, c, k) => PluginCycle
    BY <2>1 DEF PluginCycle
  <2> QED
    BY <2>1, <2>2, <2>4, <2>5 DEF Named
<1>1. ns \in Seq(Node) /\ KindsIn(ns) = {k}
  BY <1>0, OneNode
<1>2. CASE PushNode(c, k)
  <2>1. EditRegistry(NodesPushed(registry, c, ns))
    BY <1>2 DEF PushNode
  <2> HIDE DEF ns
  <2>2. NodesPushed(registry, c, ns) \in RegistryType
    BY <1>0, <1>1, NodesPushedType
  <2>3. /\ Grows(registry, NodesPushed(registry, c, ns), c, {k})
        /\ NodesPushed(registry, c, ns).live = registry.live
    BY <1>0, <1>1, PushedGrows
  <2>4. NodesPushed(registry, c, ns).next_id = registry.next_id
    BY <1>0, NextIdKept
  <2>5. TypeOK' /\ Grew
    BY <1>0, <2>1, <2>2, <2>3, <2>4, EditGrew
  <2> QED
    BY <2>5 DEF Edited
<1>3. ASSUME NEW idx \in Index, InsertAfter(c, idx, k) PROVE TypeOK' /\ Edited
  <2> DEFINE at == idx + 1
  <2>1. at \in Nat
    BY <1>0 DEF Index
  <2>2. EditRegistry(NodesInserted(registry, c, at, ns))
    BY <1>3 DEF InsertAfter
  <2> HIDE DEF ns, at
  <2>3. NodesInserted(registry, c, at, ns) \in RegistryType
    BY <1>0, <1>1, <2>1, NodesInsertedType
  <2>4. /\ Grows(registry, NodesInserted(registry, c, at, ns), c, {k})
        /\ NodesInserted(registry, c, at, ns).live = registry.live
    BY <1>0, <1>1, <2>1, InsertedGrows
  <2>5. NodesInserted(registry, c, at, ns).next_id = registry.next_id
    BY <1>0, NextIdKept
  <2>6. TypeOK' /\ Grew
    BY <1>0, <2>2, <2>3, <2>4, <2>5, EditGrew
  <2> QED
    BY <2>6 DEF Edited
<1> QED
  BY <1>2, <1>3

LEMMA PlainStepsEdit == TypeOK /\ PlainSteps => TypeOK' /\ Edited
<1> SUFFICES ASSUME TypeOK, NEW c \in Ids,
                    \/ \E n \in ByteCounts : AddBytes(c, n)
                    \/ \E idx \in Index : DeleteNode(c, idx)
                    \/ \E idx \in Index, count \in Counts : SetArrayCount(c, idx, count)
                    \/ \E idx \in Index, label \in Labels : RelabelNode(c, idx, label)
                    \/ \E label \in Labels : RelabelClass(c, label)
             PROVE  TypeOK' /\ Edited
  BY DEF PlainSteps
<1>0. registry \in RegistryType /\ Index \subseteq Nat
  BY TypeFields, EditorAssumption DEF Index
<1>1. ASSUME NEW reg \in RegistryType, reg.live = registry.live,
             reg.next_id = registry.next_id, Grows(registry, reg, c, {}), EditRegistry(reg)
      PROVE  TypeOK' /\ Edited
  <2>1. TypeOK' /\ Grew
    BY <1>1, EditPlain
  <2> QED
    BY <2>1 DEF Edited
<1>2. ASSUME NEW n \in ByteCounts, AddBytes(c, n) PROVE TypeOK' /\ Edited
  <2> DEFINE a  == Scalars(n \div 8, 8)
             b  == Scalars(n % 8, 1)
             ns == a \o b
             reg == NodesPushed(registry, c, ns)
  <2>1. n \div 8 \in Nat /\ n % 8 \in Nat
    BY EditorAssumption
  <2>2. /\ a \in Seq(Node) /\ \A k \in KindsIn(a) : Refless(k)
        /\ b \in Seq(Node) /\ \A k \in KindsIn(b) : Refless(k)
    BY <2>1, ScalarsType
  <2>3. EditRegistry(reg)
    BY <1>2 DEF AddBytes
  <2> HIDE DEF a, b
  <2>4. ns \in Seq(Node) /\ \A k \in KindsIn(ns) : Refless(k)
    <3>1. \A i \in DOMAIN ns :
              (\E j \in DOMAIN a : ns[i] = a[j]) \/ (\E j \in DOMAIN b : ns[i] = b[j])
      <4> SUFFICES ASSUME NEW i \in DOMAIN ns
                   PROVE  (\E j \in DOMAIN a : ns[i] = a[j]) \/ (\E j \in DOMAIN b : ns[i] = b[j])
        OBVIOUS
      <4>1. /\ Len(a) \in Nat /\ DOMAIN a = 1 .. Len(a)
            /\ Len(b) \in Nat /\ DOMAIN b = 1 .. Len(b)
        BY <2>2
      <4>2. /\ DOMAIN ns = 1 .. Len(a) + Len(b)
            /\ ns[i] = IF i <= Len(a) THEN a[i] ELSE b[i - Len(a)]
        BY <2>2
      <4>3. CASE i <= Len(a)
        BY <4>1, <4>2, <4>3
      <4>4. CASE ~(i <= Len(a))
        <5> DEFINE m == Len(a)
                   n2 == Len(b)
        <5>1. m \in Nat /\ n2 \in Nat /\ i \in 1 .. m + n2 /\ ~(i <= m)
          BY <4>1, <4>2, <4>4
        <5>2. ns[i] = b[i - m]
          BY <4>2, <4>4
        <5> HIDE DEF m, n2
        <5>3. i - m \in 1 .. n2
          BY <5>1
        <5> QED
          BY <4>1, <5>2, <5>3 DEF n2
      <4> QED
        BY <4>3, <4>4
    <3>2. ns \in Seq(Node)
      BY <2>2, ConcatProperties
    <3> HIDE DEF ns
    <3> QED
      BY <2>2, <3>1, <3>2 DEF KindsIn
  <2> HIDE DEF ns
  <2>5. reg \in RegistryType
    BY <1>0, <2>4, NodesPushedType
  <2>6. Grows(registry, reg, c, KindsIn(ns)) /\ reg.live = registry.live
    BY <1>0, <2>4, PushedGrows
  <2>7. reg.next_id = registry.next_id
    BY <1>0, NextIdKept
  <2> HIDE DEF reg
  <2>8. Grows(registry, reg, c, {})
    BY <2>4, <2>6, ReflessGrows
  <2> QED
    BY <1>1, <2>3, <2>5, <2>6, <2>7, <2>8
<1>3. ASSUME NEW idx \in Index, DeleteNode(c, idx) PROVE TypeOK' /\ Edited
  <2> DEFINE reg == NodeRemoved(registry, c, idx)
  <2>1. idx \in Nat /\ EditRegistry(reg)
    BY <1>0, <1>3 DEF DeleteNode
  <2>2. reg \in RegistryType
    BY <1>0, <2>1, NodeRemovedType
  <2>3. Grows(registry, reg, c, {}) /\ reg.live = registry.live
    BY <1>0, <2>1, NodeRemovedGrows
  <2>4. reg.next_id = registry.next_id
    BY <1>0, NextIdKept
  <2> HIDE DEF reg
  <2> QED
    BY <1>1, <2>1, <2>2, <2>3, <2>4
<1>4. ASSUME NEW idx \in Index, NEW count \in Counts, SetArrayCount(c, idx, count)
      PROVE  TypeOK' /\ Edited
  <2> DEFINE reg == ArrayCountSet(registry, c, idx, count)
  <2>1. idx \in Nat /\ count \in Nat /\ EditRegistry(reg)
    BY <1>0, <1>4, EditorAssumption DEF SetArrayCount
  <2>2. reg \in RegistryType
    BY <1>0, <2>1, ArrayCountSetType
  <2>3. Grows(registry, reg, c, {}) /\ reg.live = registry.live
    BY <1>0, <2>1, ArrayCountSetGrows
  <2>4. reg.next_id = registry.next_id
    BY <1>0, NextIdKept
  <2> HIDE DEF reg
  <2> QED
    BY <1>1, <2>1, <2>2, <2>3, <2>4
<1>5. ASSUME NEW idx \in Index, NEW label \in Labels, RelabelNode(c, idx, label)
      PROVE  TypeOK' /\ Edited
  <2> DEFINE reg == NodeRelabelled(registry, c, idx, label)
  <2>1. idx \in Nat /\ EditRegistry(reg)
    BY <1>0, <1>5 DEF RelabelNode
  <2>2. reg \in RegistryType
    BY <1>0, <2>1, NodeRelabelledType
  <2>3. Grows(registry, reg, c, {}) /\ reg.live = registry.live
    BY <1>0, <2>1, NodeRelabelledGrows
  <2>4. reg.next_id = registry.next_id
    BY <1>0, NextIdKept
  <2> HIDE DEF reg
  <2> QED
    BY <1>1, <2>1, <2>2, <2>3, <2>4
<1>6. ASSUME NEW label \in Labels, RelabelClass(c, label) PROVE TypeOK' /\ Edited
  <2> DEFINE reg == ClassRelabelled(registry, c, label)
  <2>1. EditRegistry(reg)
    BY <1>6 DEF RelabelClass
  <2>2. reg \in RegistryType
    BY <1>0, ClassRelabelledType
  <2>3. Grows(registry, reg, c, {}) /\ reg.live = registry.live
    BY <1>0, ClassRelabelledGrows
  <2>4. reg.next_id = registry.next_id
    BY <1>0, NextIdKept
  <2> HIDE DEF reg
  <2> QED
    BY <1>1, <2>1, <2>2, <2>3, <2>4
<1> QED
  BY <1>2, <1>3, <1>4, <1>5, <1>6

LEMMA UnrecordedStepsEdit == TypeOK /\ UnrecordedSteps => TypeOK' /\ Edited
<1> SUFFICES ASSUME TypeOK, UnrecordedSteps PROVE TypeOK' /\ Edited
  OBVIOUS
<1>0. registry \in RegistryType /\ MaxNodes \in Nat
  BY TypeFields, EditorAssumption
<1>1. ASSUME NEW c \in Ids, NEW idx \in 0 .. MaxNodes, NEW k \in Choice(Kinds),
             McpInsertNode(c, idx, k)
      PROVE  TypeOK' /\ Edited
  <2> DEFINE ns  == <<Plain(k)>>
             reg == NodesInserted(registry, c, idx, ns)
  <2>1. k \in Kind /\ idx \in Nat /\ (Named => Referenced(k) \subseteq registry.live)
    <3>1. k \in Kind /\ idx \in Nat /\ k \in Kinds
      BY <1>0, EditorAssumption DEF Choice
    <3>2. LiveRefsOnly => Referenced(k) \subseteq registry.live
      BY DEF Choice
    <3>3. AsksFor(k)
      BY <1>1 DEF AsksFor
    <3>4. ~NamesGone => Referenced(k) \subseteq registry.live
      BY <3>1, <3>3 DEF NamesGone
    <3> QED
      BY <3>1, <3>2, <3>4 DEF Named
  <2>2. ns \in Seq(Node) /\ KindsIn(ns) = {k}
    BY <2>1, OneNode
  <2>3. /\ Guarded(c, k)
        /\ project' = [project EXCEPT !.registry = reg]
        /\ UNCHANGED <<history, selected, view_status, expand, clipboard>>
    BY <1>1 DEF McpInsertNode
  <2> HIDE DEF ns
  <2>4. reg \in RegistryType
    BY <1>0, <2>1, <2>2, NodesInsertedType
  <2>5. Grows(registry, reg, c, {k}) /\ reg.live = registry.live
    BY <1>0, <2>1, <2>2, InsertedGrows
  <2>6. reg.next_id = registry.next_id
    BY <1>0, NextIdKept
  <2> HIDE DEF reg
  <2>7. TypeOK' /\ registry' = reg
    BY <2>3, <2>4, UnrecordedType
  <2>8. Gains(c, {k})
    BY <2>1, <2>3, <2>5, <2>6, <2>7 DEF Gains, Permitted, Numbered, Guarded
  <2> QED
    BY <2>1, <2>7, <2>8 DEF Edited, Grew
<1>2. ASSUME NEW ptr \in PtrWidth, SetPtrWidth(ptr) PROVE TypeOK' /\ Edited
  <2> DEFINE reg == PtrWidthSet(registry, ptr)
  <2>1. /\ project' = [project EXCEPT !.registry = PtrWidthSet(@, ptr)]
        /\ UNCHANGED <<history, selected, view_status, expand, clipboard>>
    BY <1>2 DEF SetPtrWidth
  <2>2. project' = [project EXCEPT !.registry = reg]
    BY <2>1 DEF registry
  <2>3. reg \in RegistryType
    BY <1>0, PtrWidthSetType
  <2>4. reg.nodes = registry.nodes /\ reg.live = registry.live
    BY <1>0 DEF PtrWidthSet, RegistryType
  <2>5. reg.next_id = registry.next_id
    BY <1>0, NextIdKept
  <2> HIDE DEF reg
  <2>6. TypeOK' /\ registry' = reg
    BY <2>1, <2>2, <2>3, UnrecordedType
  <2> QED
    BY <2>4, <2>5, <2>6 DEF Edited, Kept
<1> QED
  BY <1>1, <1>2 DEF UnrecordedSteps

\* What is found of a selection is finitely many nodes there are.
LEMMA FoundType ==
    ASSUME TypeOK, NEW targets \in Selections
    PROVE  /\ Cardinality(Found(targets)) \in Nat
           /\ \A t \in Found(targets) :
                  registry.nodes[t[1]][t[2] + 1] \in Node
<1>0. registry \in RegistryType /\ MaxNodes \in Nat
  BY TypeFields, EditorAssumption
<1>1. targets \subseteq Targets
  BY DEF Selections
<1>2. IsFiniteSet(Targets)
  <2>1. 0 \in Int /\ MaxId - 1 \in Int /\ MaxNodes \in Int
    BY <1>0, RegistryAssumption
  <2>2. IsFiniteSet(Ids) /\ IsFiniteSet(0 .. MaxNodes)
    BY <2>1, FS_Interval DEF Ids
  <2> QED
    BY <2>2, FS_Product DEF Targets
<1>3. Found(targets) \subseteq Targets
  BY <1>1 DEF Found
<1>4. Cardinality(Found(targets)) \in Nat
  BY <1>2, <1>3, FS_Subset, FS_CardinalityType
<1>5. ASSUME NEW t \in Found(targets) PROVE registry.nodes[t[1]][t[2] + 1] \in Node
  <2>1. t[1] \in Ids /\ t[2] \in 0 .. Len(registry.nodes[t[1]]) - 1
    BY <1>3, <1>5 DEF Found, HasNode, Targets
  <2>2. t[2] + 1 \in DOMAIN registry.nodes[t[1]]
    BY <1>0, <2>1, NodeList
  <2> QED
    BY <1>0, <2>1, <2>2, NodeList
<1> QED
  BY <1>4, <1>5

LEMMA SelectionStepsEdit == TypeOK /\ SelectionSteps => TypeOK' /\ Edited
<1> SUFFICES ASSUME TypeOK, SelectionSteps PROVE TypeOK' /\ Edited
  OBVIOUS
<1>0. registry \in RegistryType /\ MaxNodes \in Nat
  BY TypeFields, EditorAssumption
<1>1. ASSUME NEW targets \in Selections, DeleteMany(targets) PROVE TypeOK' /\ Edited
  <2> DEFINE reg == NodesDeleted(registry, targets)
  <2>1. EditRegistry(reg)
    BY <1>1 DEF DeleteMany
  <2>2. PICK c \in Ids : TRUE
    BY RegistryAssumption DEF Ids
  <2>3. reg \in RegistryType
    BY <1>0, NodesDeletedType
  <2>4. Grows(registry, reg, c, {}) /\ reg.live = registry.live
    BY <1>0, NodesDeletedGrows
  <2>5. reg.next_id = registry.next_id
    BY <1>0, NextIdKept
  <2> HIDE DEF reg
  <2>6. TypeOK' /\ Grew
    BY <2>1, <2>2, <2>3, <2>4, <2>5, EditPlain
  <2> QED
    BY <2>6 DEF Edited
<1>2. ASSUME NEW targets \in Selections, CopyNodes(targets) PROVE TypeOK' /\ Edited
  <2> DEFINE T == Found(targets)
             n == Cardinality(T)
  <2>1. n \in Nat /\ \A t \in T : registry.nodes[t[1]][t[2] + 1] \in Node
    BY FoundType
  <2>2. PICK order \in [1 .. n -> T] :
            clipboard' = [i \in DOMAIN order |->
                             registry.nodes[order[i][1]][order[i][2] + 1]]
    BY <1>2 DEF CopyNodes, InOrder
  <2>3. UNCHANGED <<project, history, selected, view_status, expand>>
    BY <1>2 DEF CopyNodes
  <2> HIDE DEF T, n
  <2>4. clipboard' \in [1 .. n -> Node]
    <3>1. \A i \in 1 .. n : registry.nodes[order[i][1]][order[i][2] + 1] \in Node
      BY <2>1
    <3>2. DOMAIN order = 1 .. n
      OBVIOUS
    <3> QED
      BY <2>2, <3>1, <3>2
  <2>5. clipboard' \in Seq(Node)
    BY <2>1, <2>4
  <2> QED
    BY <2>3, <2>5 DEF TypeOK, Edited, Kept, registry
<1>3. ASSUME NEW c \in Ids, NEW pos \in 0 .. MaxNodes, PasteNodes(c, pos)
      PROVE  TypeOK' /\ Edited
  <2> DEFINE K   == KindsIn(clipboard)
             reg == IF pos = 0 THEN NodesPushed(registry, c, clipboard)
                    ELSE NodesInserted(registry, c, pos, clipboard)
  <2>1. clipboard \in Seq(Node) /\ pos \in Nat
    BY <1>0 DEF TypeOK
  <2>2. \A k \in K : /\ k \in Kind
                    /\ ~KindWouldCycle(registry, c, k)
                    /\ Referenced(k) \subseteq registry.live
    <3> SUFFICES ASSUME NEW i \in DOMAIN clipboard
                 PROVE  /\ clipboard[i].kind \in Kind
                        /\ ~KindWouldCycle(registry, c, clipboard[i].kind)
                        /\ Referenced(clipboard[i].kind) \subseteq registry.live
      BY DEF KindsIn
    <3>1. clipboard[i] \in Node
      BY <2>1
    <3> QED
      BY <1>3, <3>1 DEF PasteNodes, Pastable, Guarded, Node
  <2>3. EditRegistry(reg)
    BY <1>3 DEF PasteNodes
  <2>4. /\ reg \in RegistryType
        /\ Grows(registry, reg, c, K)
        /\ reg.live = registry.live
        /\ reg.next_id = registry.next_id
    <3>1. CASE pos = 0
      <4>1. reg = NodesPushed(registry, c, clipboard)
        BY <3>1
      <4> HIDE DEF reg, K
      <4>2. NodesPushed(registry, c, clipboard) \in RegistryType
        BY <1>0, <2>1, NodesPushedType
      <4>3. /\ Grows(registry, NodesPushed(registry, c, clipboard), c, K)
            /\ NodesPushed(registry, c, clipboard).live = registry.live
        BY <1>0, <2>1, PushedGrows DEF K
      <4>4. NodesPushed(registry, c, clipboard).next_id = registry.next_id
        BY <1>0, NextIdKept
      <4> QED
        BY <4>1, <4>2, <4>3, <4>4
    <3>2. CASE pos # 0
      <4>1. reg = NodesInserted(registry, c, pos, clipboard)
        BY <3>2
      <4> HIDE DEF reg, K
      <4>2. NodesInserted(registry, c, pos, clipboard) \in RegistryType
        BY <1>0, <2>1, NodesInsertedType
      <4>3. /\ Grows(registry, NodesInserted(registry, c, pos, clipboard), c, K)
            /\ NodesInserted(registry, c, pos, clipboard).live = registry.live
        BY <1>0, <2>1, InsertedGrows DEF K
      <4>4. NodesInserted(registry, c, pos, clipboard).next_id = registry.next_id
        BY <1>0, NextIdKept
      <4> QED
        BY <4>1, <4>2, <4>3, <4>4
    <3> QED
      BY <3>1, <3>2
  <2> HIDE DEF reg, K
  <2>5. K \in SUBSET Kind
    BY <2>2
  <2>6. TypeOK' /\ Grew
    BY <2>2, <2>3, <2>4, <2>5, EditGrew
  <2> QED
    BY <2>6 DEF Edited
<1> QED
  BY <1>1, <1>2, <1>3 DEF SelectionSteps

\* The project that an import leaves.
LEMMA ImportType ==
    ASSUME NEW reg \in Imports
    PROVE  [registry |-> reg,
            views    |-> IF reg.live = {} THEN <<>> ELSE <<Biggest(reg)>>] \in Project
<1>1. reg \in RegistryType /\ reg.live \subseteq Ids
  BY FilesAssumption DEF RegistryType
<1>2. CASE reg.live = {}
  BY <1>1, <1>2 DEF Project
<1>3. CASE reg.live # {}
  <2>1. Biggest(reg) \in Ids
    BY <1>1, <1>3, BiggestType
  <2>2. <<Biggest(reg)>> \in Seq(Ids)
    BY <2>1
  <2> QED
    BY <1>1, <1>3, <2>2 DEF Project
<1> QED
  BY <1>2, <1>3

LEMMA ProjectStepsType == TypeOK /\ ProjectSteps => TypeOK'
<1> SUFFICES ASSUME TypeOK, ProjectSteps PROVE TypeOK'
  OBVIOUS
<1>0. /\ project \in Project /\ history \in HistoryOf(Project) /\ selected \in Nat
      /\ CountNodes(project) \in Nat
  BY HistoryType, ProjectCount DEF TypeOK
<1>1. ASSUME NEW reg \in Imports, ImportRcnet(reg) PROVE TypeOK'
  <2> DEFINE p == [registry |-> reg,
                   views    |-> IF reg.live = {} THEN <<>> ELSE <<Biggest(reg)>>]
  <2>1. p \in Project
    BY ImportType
  <2>2. project' = p /\ Resync(p, 0) /\ UNCHANGED clipboard
    BY <1>1 DEF ImportRcnet
  <2> HIDE DEF p
  <2>3. history' \in HistoryOf(Project)
    BY <1>0, <1>1, PushType DEF ImportRcnet
  <2> QED
    BY <2>1, <2>2, <2>3, ResyncType
<1>2. ASSUME NEW file \in Files, Load(file) PROVE TypeOK'
  <2>1. file \in Project
    BY FilesAssumption
  <2>2. /\ file.views \in Seq(Ids) /\ DOMAIN file.views = 1 .. Len(file.views)
        /\ Len(file.views) \in Nat
    BY <2>1 DEF Project
  <2>3. view_status' = [i \in 1 .. Len(file.views) |-> NoStatus]
    BY <1>2, <2>2 DEF Load
  <2>4. view_status' \in Seq(Statuses)
    BY <2>2, <2>3 DEF Statuses
  <2>5. expand' \in [set : Marks, collapsed : Marks]
    BY <1>2 DEF Load, NothingExpanded, Marks
  <2>6. history' \in HistoryOf(Project)
    BY <1>2, EmptyHistoryProperties DEF Load
  <2>7. project' = file /\ selected' = 0 /\ UNCHANGED clipboard
    BY <1>2 DEF Load
  <2> QED
    BY <2>1, <2>4, <2>5, <2>6, <2>7 DEF TypeOK, HistoryOf, Saves, Saved, Statuses, Marks
<1>3. CASE Undo
  <2>1. UndoTarget(history) \in Project /\ Undone(history, project) \in HistoryOf(Project)
    BY <1>0, <1>3, UndoneProperties DEF Undo
  <2>2. /\ project' = UndoTarget(history)
        /\ history' = Undone(history, project)
        /\ Resync(UndoTarget(history), selected)
        /\ UNCHANGED clipboard
    BY <1>3 DEF Undo
  <2> QED
    BY <1>0, <2>1, <2>2, ResyncType
<1>4. CASE Redo
  <2>1. RedoTarget(history) \in Project /\ Redone(history, project) \in HistoryOf(Project)
    BY <1>0, <1>4, RedoneProperties DEF Redo
  <2>2. /\ project' = RedoTarget(history)
        /\ history' = Redone(history, project)
        /\ Resync(RedoTarget(history), selected)
        /\ UNCHANGED clipboard
    BY <1>4 DEF Redo
  <2> QED
    BY <1>0, <2>1, <2>2, ResyncType
<1> QED
  BY <1>1, <1>2, <1>3, <1>4 DEF ProjectSteps

LEMMA InitType == Init => TypeOK
<1> SUFFICES ASSUME Init PROVE TypeOK
  OBVIOUS
<1>1. EmptyProject \in Project
  <2>1. EmptyRegistry \in RegistryType
    <3>1. [c \in Ids |-> <<>>] \in [Ids -> Seq(Node)]
      OBVIOUS
    <3> QED
      BY <3>1, RegistryAssumption DEF EmptyRegistry, RegistryType, PtrWidth
  <2> QED
    BY <2>1 DEF EmptyProject, Project
<1>2. project \in Project
  BY <1>1, FilesAssumption DEF Init, Starts, LoadableFiles
<1>3. views \in Seq(Ids) /\ DOMAIN views = 1 .. Len(views) /\ Len(views) \in Nat
  BY <1>2 DEF Project, views
<1>4. view_status = [i \in 1 .. Len(views) |-> NoStatus]
  BY <1>3 DEF Init
<1>5. view_status \in Seq(Statuses)
  BY <1>3, <1>4 DEF Statuses
<1>6. expand \in [set : Marks, collapsed : Marks]
  BY DEF Init, NothingExpanded, Marks
<1>7. history \in HistoryOf(Project)
  BY EmptyHistoryProperties DEF Init
<1> QED
  BY <1>2, <1>5, <1>6, <1>7 DEF Init, TypeOK, HistoryOf, Saves, Saved, Statuses, Marks

\* Every step keeps the types, and all but those that bring another project
\* edit the registry in one of three ways.
LEMMA StepEdits ==
    ASSUME TypeOK, [Next]_vars
    PROVE  TypeOK' /\ (ProjectSteps \/ Edited)
<1>1. CASE UNCHANGED vars
  BY <1>1 DEF vars, TypeOK, Edited, Kept, registry
<1> QED
  BY <1>1, ClassStepsEdit, ViewStepsEdit, GuardedStepsEdit, UncheckedStepsEdit, PlainStepsEdit,
     SelectionStepsEdit, UnrecordedStepsEdit, ProjectStepsType
  DEF Next

\* Every variable always has its type: no stale index, and no order of edits,
\* undos and loads, takes a cursor or a count out of its range.
THEOREM TypeCorrect == Spec => []TypeOK
<1>1. Init => TypeOK
  BY InitType
<1>2. TypeOK /\ [Next]_vars => TypeOK'
  BY StepEdits
<1> QED
  BY <1>1, <1>2, PTL DEF Spec

-----------------------------------------------------------------------------
(* What holds of every registry there is.  The invariants below say one    *)
(* thing R of the registry of the project and of those undo and redo come  *)
(* back to; each follows when the edits keep R and imports and files       *)
(* have it, because the stacks are made of projects that were current.     *)

\* The projects whose registry is one of R.
Over(R) == {p \in Project : p.registry \in R}

AllOver(R) == project \in Over(R) /\ history \in HistoryOf(Over(R))

\* A step that does not bring another project records the one it leaves, or
\* nothing.
Recorded == history' = history \/ history' = Push(history, project)

LEMMA StepRecords == Next => ProjectSteps \/ Recorded
<1> USE DEF Recorded
<1>1. ClassSteps => Recorded
  BY DEF ClassSteps, AddClass, RemoveClass, ExpandPointer, Commit
<1>2. ViewSteps => Recorded
  BY DEF ViewSteps, OpenView, CloseView, SelectView, ToggleExpand, ToggleCollapse,
         ExpandAll, CollapseAll, ComputeRows, SetExpand
<1>3. \A reg : EditRegistry(reg) => Recorded
  BY DEF EditRegistry, Commit
<1>4. GuardedSteps => Recorded
  BY <1>3 DEF GuardedSteps, AddNode, AddArray, ChangeKind
<1>5. UncheckedSteps => Recorded
  BY <1>3 DEF UncheckedSteps, PushNode, InsertAfter
<1>6. PlainSteps => Recorded
  BY <1>3 DEF PlainSteps, AddBytes, DeleteNode, SetArrayCount, RelabelNode, RelabelClass
<1>7. SelectionSteps => Recorded
  BY <1>3 DEF SelectionSteps, DeleteMany, CopyNodes, PasteNodes
<1>8. UnrecordedSteps => Recorded
  BY DEF UnrecordedSteps, McpInsertNode, SetPtrWidth
<1> QED
  BY <1>1, <1>2, <1>4, <1>5, <1>6, <1>7, <1>8 DEF Next

LEMMA AllOverStart ==
    ASSUME NEW R, Init, EmptyRegistry \in R, \A f \in LoadableFiles : f.registry \in R
    PROVE  AllOver(R)
<1>1. project \in Project /\ history = EmptyHistory
  BY InitType DEF Init, TypeOK
<1>2. project.registry \in R
  BY DEF Init, Starts, EmptyProject
<1> QED
  BY <1>1, <1>2, EmptyHistoryProperties DEF AllOver, Over

LEMMA AllOverStep ==
    ASSUME NEW R, TypeOK, AllOver(R), [Next]_vars,
           Edited /\ ~ProjectSteps => registry' \in R,
           \A f \in LoadableFiles : f.registry \in R,
           \A reg \in Imports : ImportRcnet(reg) => reg \in R
    PROVE  AllOver(R)'
<1> DEFINE P == Over(R)
<1>0. /\ P \in SUBSET Project /\ project \in P /\ history \in HistoryOf(P)
      /\ CountNodes(project) \in Nat /\ TypeOK' /\ project' \in Project
  BY StepEdits, ProjectCount DEF AllOver, Over, TypeOK
<1>1. CASE UNCHANGED vars
  BY <1>0, <1>1 DEF vars, AllOver
<1>2. CASE Next /\ ~ProjectSteps
  <2>1. Edited /\ Recorded
    BY <1>2, StepEdits, StepRecords
  <2>2. history' \in HistoryOf(P)
    BY <1>0, <2>1, PushType DEF Recorded
  <2>3. project' \in P
    BY <1>0, <1>2, <2>1 DEF Over, registry
  <2> QED
    BY <2>2, <2>3 DEF AllOver
<1>3. ASSUME NEW reg \in Imports, ImportRcnet(reg) PROVE AllOver(R)'
  <2>1. project'.registry = reg /\ history' = Push(history, project)
    BY <1>3 DEF ImportRcnet
  <2>2. history' \in HistoryOf(P)
    BY <1>0, <2>1, PushType
  <2>3. reg \in R
    BY <1>3
  <2>4. project' \in P
    BY <1>0, <2>1, <2>3 DEF Over
  <2> QED
    BY <2>2, <2>4 DEF AllOver
<1>4. ASSUME NEW file \in Files, Load(file) PROVE AllOver(R)'
  <2>1. file \in LoadableFiles /\ project' = file /\ history' = EmptyHistory
    BY <1>4 DEF Load
  <2> QED
    BY <1>0, <2>1, EmptyHistoryProperties DEF AllOver, Over
<1>5. CASE Undo
  <2>1. UndoTarget(history) \in P /\ Undone(history, project) \in HistoryOf(P)
    BY <1>0, <1>5, UndoneProperties DEF Undo
  <2> QED
    BY <1>5, <2>1 DEF Undo, AllOver
<1>6. CASE Redo
  <2>1. RedoTarget(history) \in P /\ Redone(history, project) \in HistoryOf(P)
    BY <1>0, <1>6, RedoneProperties DEF Redo
  <2> QED
    BY <1>6, <2>1 DEF Redo, AllOver
<1> QED
  BY <1>1, <1>2, <1>3, <1>4, <1>5, <1>6 DEF ProjectSteps

\* AllOver says R of all the projects that can be reached by undo and redo.
LEMMA AllOverReachable ==
    ASSUME NEW R, AllOver(R)
    PROVE  \A p \in Reachable : p.registry \in R
<1>1. ASSUME NEW s \in Seq(Saves(Over(R))), NEW i \in DOMAIN s PROVE s[i].project.registry \in R
  <2>1. s[i] \in Saves(Over(R))
    OBVIOUS
  <2> QED
    BY <2>1 DEF Saves, Over
<1>2. history.undo \in Seq(Saves(Over(R))) /\ history.redo \in Seq(Saves(Over(R)))
  BY DEF AllOver, HistoryOf
<1> QED
  BY <1>1, <1>2 DEF Reachable, Undoable, Redoable, AllOver, Over

\* With no class there is nothing to hold or to refer to.
LEMMA EmptyRegistryValid ==
    /\ EmptyRegistry \in RegistryType
    /\ Acyclic(EmptyRegistry)
    /\ NoDangling(EmptyRegistry)
<1>1. \A c \in Ids : EmptyRegistry.nodes[c] = <<>>
  BY DEF EmptyRegistry
<1>2. \A c \in Ids : KindsOf(EmptyRegistry, c) = {}
  BY <1>1 DEF KindsOf
<1>3. \A c \in Ids : InlineOf(EmptyRegistry, c) = {}
  BY <1>2 DEF InlineOf
<1>4. Acyclic(EmptyRegistry)
  BY <1>3 DEF Acyclic
<1>5. NoDangling(EmptyRegistry)
  BY DEF NoDangling, EmptyRegistry
<1>6. [c \in Ids |-> <<>>] \in [Ids -> Seq(Node)]
  OBVIOUS
<1> QED
  BY <1>4, <1>5, <1>6, RegistryAssumption DEF EmptyRegistry, RegistryType, PtrWidth

AcyclicRegistries == {reg \in RegistryType : Acyclic(reg)}

ValidRegistries == {reg \in RegistryType : Validates(reg)}

FreshRegistries == {reg \in RegistryType : \A c \in reg.live : c < reg.next_id}

\* The guard keeps the classes of an edit that passed it well founded.
LEMMA EditAcyclic ==
    ASSUME registry \in RegistryType, registry' \in RegistryType, Edited, Acyclic(registry),
           ~PluginCycle
    PROVE  Acyclic(registry')
<1>1. CASE Kept
  <2>1. \A c \in Ids : InlineOf(registry', c) = InlineOf(registry, c)
    BY <1>1 DEF Kept, InlineOf, KindsOf
  <2> QED
    BY <2>1 DEF Acyclic
<1>2. ASSUME NEW c \in Ids, NEW K \in SUBSET Kind, Gains(c, K) PROVE Acyclic(registry')
  <2>1. Grows(registry, registry', c, K)
    BY <1>2 DEF Gains
  <2>2. \A k \in K : ~KindWouldCycle(registry, c, k)
    BY <1>2 DEF Gains, Permitted
  <2> QED
    BY <2>1, <2>2, GuardSuffices
<1>3. ASSUME NEW id \in Ids, registry' = ClassRemoved(registry, id) PROVE Acyclic(registry')
  BY <1>3, ClassRemovedAcyclic
<1> QED
  BY <1>1, <1>2, <1>3 DEF Edited, Grew, Shrank

\* Callers that name classes there are leave no reference dangling.
LEMMA EditNoDangling ==
    ASSUME registry \in RegistryType, registry' \in RegistryType, Edited,
           NoDangling(registry), Named
    PROVE  NoDangling(registry')
<1>1. CASE Kept
  <2>1. registry'.live \subseteq Ids
    BY DEF RegistryType
  <2>2. \A c \in Ids : KindsOf(registry', c) = KindsOf(registry, c)
    BY <1>1 DEF Kept, KindsOf
  <2> QED
    BY <1>1, <2>1, <2>2 DEF Kept, NoDangling
<1>2. ASSUME NEW c \in Ids, NEW K \in SUBSET Kind, Gains(c, K) PROVE NoDangling(registry')
  <2>1. Grows(registry, registry', c, K) /\ Numbered
        /\ \A k \in K : Referenced(k) \subseteq registry'.live
    BY <1>2 DEF Gains, Permitted
  <2>2. registry'.live \subseteq Ids
    BY DEF RegistryType
  <2>3. registry.live \subseteq registry'.live
    BY <2>1 DEF Numbered
  <2>4. \A d \in registry'.live \ registry.live : \A k \in KindsOf(registry', d) :
            Referenced(k) \subseteq registry'.live
    BY <2>1 DEF Numbered
  <2> QED
    BY <2>1, <2>2, <2>3, <2>4, GrowsNoDangling
<1>3. ASSUME NEW id \in Ids, registry' = ClassRemoved(registry, id) PROVE NoDangling(registry')
  BY <1>3, ClassRemovedNoDangling
<1> QED
  BY <1>1, <1>2, <1>3 DEF Edited, Grew, Shrank

\* A plugin that pushes no instance closes no cycle.
LEMMA NoPluginCycle == (\A k \in PluginKinds : Inline(k) = {}) => ~PluginCycle
BY DEF PluginCycle, KindWouldCycle

\* Only add_class brings a class, and it moves next_id past it.
LEMMA EditFresh ==
    ASSUME registry \in FreshRegistries, registry' \in RegistryType, Edited
    PROVE  registry' \in FreshRegistries
<1>0. registry \in RegistryType /\ \A c \in registry.live : c < registry.next_id
  BY DEF FreshRegistries
<1>1. registry.next_id \in Int /\ registry.live \subseteq Int
  BY <1>0, RegistryAssumption DEF RegistryType, Ids
<1>2. CASE Kept
  BY <1>0, <1>2 DEF Kept, FreshRegistries
<1>3. CASE Grew
  <2>1. Numbered
    BY <1>3 DEF Grew, Gains
  <2>2. \A c \in registry'.live : c < registry'.next_id
    BY <1>0, <1>1, <2>1 DEF Numbered
  <2> QED
    BY <2>2 DEF FreshRegistries
<1>4. ASSUME NEW id \in Ids, registry' = ClassRemoved(registry, id)
      PROVE  registry' \in FreshRegistries
  <2>1. registry'.live \subseteq registry.live
    BY <1>0, <1>4, ClassRemovedType
  <2>2. registry'.next_id = registry.next_id
    BY <1>0, <1>4, NextIdKept
  <2> QED
    BY <1>0, <2>1, <2>2 DEF FreshRegistries
<1> QED
  BY <1>2, <1>3, <1>4 DEF Edited, Shrank

\* No interleaving of edits, undo, redo, paste and load makes a class hold
\* itself by value, in the project or on the stacks, when plugins push no
\* inline instance: every other caller goes through the guard.
THEOREM InlineAcyclic ==
    ASSUME \A k \in PluginKinds : Inline(k) = {},
           \A reg \in Imports : Acyclic(reg)
    PROVE  Spec => []NoInlineCycle
<1> DEFINE R == AcyclicRegistries
           IInv == TypeOK /\ AllOver(R)
<1>0. /\ EmptyRegistry \in R
      /\ \A f \in LoadableFiles : f.registry \in R
      /\ Imports \subseteq R
  BY EmptyRegistryValid, FilesAssumption
  DEF AcyclicRegistries, LoadableFiles, Loadable, Validates, Project
<1>1. Init => IInv
  BY <1>0, InitType, AllOverStart
<1>2. IInv /\ [Next]_vars => IInv'
  <2> SUFFICES ASSUME IInv, [Next]_vars PROVE IInv'
    OBVIOUS
  <2>1. TypeOK' /\ registry \in R /\ registry' \in RegistryType
    BY StepEdits, TypeFields DEF AllOver, Over, TypeOK, Project, registry
  <2>2. Edited => registry' \in R
    BY <2>1, EditAcyclic, NoPluginCycle DEF AcyclicRegistries
  <2> HIDE DEF R
  <2>3. AllOver(R)'
    BY <1>0, <2>2, AllOverStep
  <2> QED
    BY <2>1, <2>3
<1>3. IInv => NoInlineCycle
  BY AllOverReachable DEF NoInlineCycle, AcyclicRegistries
<1> QED
  BY <1>1, <1>2, <1>3, PTL DEF Spec

\* Removing a class keeps the offsets and the size of every other: what held
\* it by value, however far up, leaves as many bytes in its place.
THEOREM RemovesKeepLayout ==
    ASSUME \A k \in PluginKinds : Inline(k) = {},
           \A reg \in Imports : Acyclic(reg)
    PROVE  Spec => RemoveKeepsLayout
<1> DEFINE Stays == (\E gone \in Ids : RemoveClass(gone)) =>
                       \A c \in registry'.live :
                           /\ Offsets(registry', c) = Offsets(registry, c)
                           /\ SizeOf(registry', c) = SizeOf(registry, c)
<1>1. Spec => []TypeOK
  BY TypeCorrect
<1>2. Spec => []NoInlineCycle
  BY InlineAcyclic
<1>3. TypeOK /\ NoInlineCycle /\ [Next]_vars => [Stays]_vars
  <2> SUFFICES ASSUME TypeOK, NoInlineCycle, NEW gone \in Ids, RemoveClass(gone),
                      NEW c \in registry'.live
               PROVE  /\ Offsets(registry', c) = Offsets(registry, c)
                      /\ SizeOf(registry', c) = SizeOf(registry, c)
    BY Zenon
  <2>1. registry \in RegistryType /\ Acyclic(registry)
    BY DEF TypeOK, Project, NoInlineCycle, Reachable, registry
  <2>2. registry' = ClassRemoved(registry, gone)
    BY <2>1 DEF RemoveClass, DropView, TypeOK, Project, registry
  <2> QED
    BY <2>1, <2>2, RemovedLayout
<1> QED
  BY <1>1, <1>2, <1>3, PTL DEF Spec, RemoveKeepsLayout

\* An import brings classes that load would refuse.
ImportsBroken == \E reg \in Imports : ~Validates(reg) /\ ImportRcnet(reg)

\* What the editor saves loads again, whatever was removed, pasted, undone
\* and redone before, as long as nobody names a class that is not there, no
\* plugin closes a cycle and no import is broken: nothing else that the user,
\* plugins and agents do makes a project, or one on the stacks, that load
\* refuses.
THEOREM SavedLoads ==
    Spec /\ [][~(NamesGone \/ PluginCycle \/ ImportsBroken)]_vars => []SavesLoad
<1> DEFINE R == ValidRegistries
           IInv == TypeOK /\ AllOver(R)
           Fair == ~(NamesGone \/ PluginCycle \/ ImportsBroken)
<1>0. /\ EmptyRegistry \in R
      /\ \A f \in LoadableFiles : f.registry \in R
  BY EmptyRegistryValid, FilesAssumption
  DEF ValidRegistries, LoadableFiles, Loadable, Validates, Project
<1>1. Init => IInv
  BY <1>0, InitType, AllOverStart
<1>2. IInv /\ [Next]_vars /\ [Fair]_vars => IInv'
  <2>1. ASSUME IInv, UNCHANGED vars PROVE IInv'
    BY <2>1 DEF vars, TypeOK, AllOver
  <2>2. ASSUME IInv, [Next]_vars, Fair PROVE IInv'
    <3>1. TypeOK' /\ registry \in R /\ registry' \in RegistryType
      BY <2>2, StepEdits, TypeFields DEF AllOver, Over, TypeOK, Project, registry
    <3>2. Edited => registry' \in R
      BY <2>2, <3>1, EditAcyclic, EditNoDangling DEF ValidRegistries, Validates, Named
    <3>3. \A reg \in Imports : ImportRcnet(reg) => reg \in R
      <4>1. \A reg \in Imports : ImportRcnet(reg) => Validates(reg)
        BY <2>2 DEF ImportsBroken
      <4> QED
        BY <4>1, FilesAssumption DEF ValidRegistries
    <3> HIDE DEF R, Fair
    <3>4. AllOver(R)'
      BY <1>0, <2>2, <3>2, <3>3, AllOverStep
    <3> QED
      BY <3>1, <3>4
  <2> QED
    BY <2>1, <2>2
<1>3. IInv => SavesLoad
  BY AllOverReachable DEF SavesLoad, Loadable, ValidRegistries
<1> QED
  BY <1>1, <1>2, <1>3, PTL DEF Spec

\* A new class never takes the id of one there is, undone or redone, when the
\* files and imports were written with next_id ahead of their classes.
THEOREM FreshIds ==
    ASSUME \A f \in Files : f.registry \in FreshRegistries,
           Imports \subseteq FreshRegistries
    PROVE  Spec => []IdsFresh
<1> DEFINE R == FreshRegistries
           IInv == TypeOK /\ AllOver(R)
<1>0. /\ EmptyRegistry \in R
      /\ \A f \in LoadableFiles : f.registry \in R
      /\ Imports \subseteq R
  BY EmptyRegistryValid DEF FreshRegistries, EmptyRegistry, LoadableFiles
<1>1. Init => IInv
  BY <1>0, InitType, AllOverStart
<1>2. IInv /\ [Next]_vars => IInv'
  <2> SUFFICES ASSUME IInv, [Next]_vars PROVE IInv'
    OBVIOUS
  <2>1. TypeOK' /\ registry \in R /\ registry' \in RegistryType
    BY StepEdits, TypeFields DEF AllOver, Over, TypeOK, Project, registry
  <2>2. Edited => registry' \in R
    BY <2>1, EditFresh
  <2> HIDE DEF R
  <2>3. AllOver(R)'
    BY <1>0, <2>2, AllOverStep
  <2> QED
    BY <2>1, <2>3
<1>3. IInv => IdsFresh
  BY AllOverReachable DEF IdsFresh, FreshRegistries
<1> QED
  BY <1>1, <1>2, <1>3, PTL DEF Spec

\* The two stacks together never hold more than DEPTH projects: only Push looks
\* at the cap, but it empties the redo stack, and undo and redo only move one
\* project from one stack to the other.
THEOREM StacksCapped == Spec => []HistoryCapped
<1> DEFINE IInv == TypeOK /\ HistoryCapped
<1>1. Init => IInv
  <2> SUFFICES ASSUME Init PROVE HistoryCapped
    BY InitType
  <2>1. history.undo = <<>> /\ history.redo = <<>>
    BY DEF Init, EmptyHistory
  <2> QED
    BY <2>1, HistoryAssumption DEF HistoryCapped
<1>2. IInv /\ [Next]_vars => IInv'
  <2> SUFFICES ASSUME IInv, [Next]_vars PROVE HistoryCapped'
    BY StepEdits
  <2>1. project \in Project /\ history \in HistoryOf(Project) /\ CountNodes(project) \in Nat
    BY HistoryType, ProjectCount
  <2>2. ASSUME history' = Push(history, project) PROVE HistoryCapped'
    <3> DEFINE new == Push(history, project)
    <3>1. new.redo = <<>> /\ Len(new.undo) \in 1 .. DEPTH
      BY <2>1, PushProperties
    <3> HIDE DEF new
    <3>2. history'.redo = <<>> /\ Len(history'.undo) \in 1 .. DEPTH
      BY <2>2, <3>1 DEF new
    <3> QED
      BY <3>2, HistoryAssumption DEF HistoryCapped
  <2>3. CASE UNCHANGED history
    BY <2>3 DEF HistoryCapped
  <2>4. ASSUME NEW reg \in Imports, ImportRcnet(reg) PROVE HistoryCapped'
    BY <2>2, <2>4 DEF ImportRcnet
  <2>5. ASSUME NEW file \in Files, Load(file) PROVE HistoryCapped'
    <3>1. history'.undo = <<>> /\ history'.redo = <<>>
      BY <2>5 DEF Load, EmptyHistory
    <3> QED
      BY <3>1, HistoryAssumption DEF HistoryCapped
  <2>6. CASE Undo
    <3>1. Len(history'.undo) + Len(history'.redo) = Len(history.undo) + Len(history.redo)
      BY <2>1, <2>6, UndoneProperties DEF Undo
    <3> QED
      BY <3>1 DEF HistoryCapped
  <2>7. CASE Redo
    <3>1. Len(history'.undo) + Len(history'.redo) = Len(history.undo) + Len(history.redo)
      BY <2>1, <2>7, RedoneProperties DEF Redo
    <3> QED
      BY <3>1 DEF HistoryCapped
  <2>8. CASE ProjectSteps
    BY <2>4, <2>5, <2>6, <2>7, <2>8 DEF ProjectSteps
  <2> QED
    BY <2>2, <2>3, <2>8, StepRecords DEF Recorded, vars
<1>3. IInv => HistoryCapped
  OBVIOUS
<1> QED
  BY <1>1, <1>2, <1>3, PTL DEF Spec

-----------------------------------------------------------------------------
(* The counts the history keeps, and the loop that trims it.               *)

LEMMA AppendUnits ==
    ASSUME NEW P, NEW s \in Seq(Saves(P)), NEW x \in Saves(P)
    PROVE  /\ Append(s, x) \in Seq(Saves(P))
           /\ Units(Append(s, x)) = Units(s) \cup ({Len(s) + 1} \X (1 .. x.count))
           /\ Units(s) \cap ({Len(s) + 1} \X (1 .. x.count)) = {}
<1> DEFINE t == Append(s, x)
           n == Len(s)
<1>1. /\ t \in Seq(Saves(P))
      /\ Len(t) = n + 1
      /\ \A i \in 1 .. n : t[i] = s[i]
      /\ t[n + 1] = x
  BY AppendProperties
<1>2. DOMAIN s = 1 .. n /\ DOMAIN t = 1 .. n + 1 /\ n \in Nat
  BY <1>1, LenProperties
<1> HIDE DEF t, n
<1>3. 1 .. n + 1 = (1 .. n) \cup {n + 1} /\ n + 1 \notin 1 .. n
  BY <1>2
<1>4. Units(s) = UNION {{i} \X (1 .. s[i].count) : i \in 1 .. n}
  BY <1>2 DEF Units
<1>5. Units(t) = UNION {{i} \X (1 .. t[i].count) : i \in 1 .. n + 1}
  BY <1>2 DEF Units
<1>6. Units(t) = Units(s) \cup ({n + 1} \X (1 .. x.count))
  BY <1>1, <1>3, <1>4, <1>5
<1>7. Units(s) \cap ({n + 1} \X (1 .. x.count)) = {}
  BY <1>3, <1>4
<1> QED
  BY <1>1, <1>6, <1>7 DEF t, n

LEMMA AppendWeight ==
    ASSUME NEW P, NEW s \in Seq(Saves(P)), NEW x \in Saves(P)
    PROVE  /\ Append(s, x) \in Seq(Saves(P))
           /\ Weight(Append(s, x)) = Weight(s) + x.count
           /\ Weight(s) \in Nat
<1> DEFINE new == {Len(s) + 1} \X (1 .. x.count)
<1>1. /\ Append(s, x) \in Seq(Saves(P))
      /\ Units(Append(s, x)) = Units(s) \cup new
      /\ Units(s) \cap new = {}
  BY AppendUnits
<1>2. IsFiniteSet(Units(s))
  BY UnitsFinite
<1>3. IsFiniteSet(new) /\ Cardinality(new) = x.count
  <2> DEFINE A == {Len(s) + 1}
             B == 1 .. x.count
  <2>1. x.count \in Nat
    BY DEF Saves
  <2>2. IsFiniteSet(A) /\ Cardinality(A) = 1
    BY FS_Singleton
  <2>3. IsFiniteSet(B) /\ Cardinality(B) = x.count
    <3>1. 1 \in Int /\ x.count \in Int
      BY <2>1
    <3>2. IsFiniteSet(B) /\ Cardinality(B) = IF 1 > x.count THEN 0 ELSE x.count - 1 + 1
      BY <3>1, FS_Interval
    <3> QED
      BY <2>1, <3>2
  <2> HIDE DEF A, B
  <2>4. IsFiniteSet(A \X B) /\ Cardinality(A \X B) = Cardinality(A) * Cardinality(B)
    BY <2>2, <2>3, FS_Product
  <2> QED
    BY <2>1, <2>2, <2>3, <2>4 DEF A, B
<1>4. Weight(s) \in Nat
  BY WeightType
<1>5. x.count \in Nat
  BY DEF Saves
<1> HIDE DEF new
<1>6. Cardinality(Units(s) \cup new) =
          Cardinality(Units(s)) + Cardinality(new) - Cardinality(Units(s) \cap new)
  BY <1>2, <1>3, FS_Union
<1>7. Cardinality(Units(s) \cap new) = 0
  BY <1>1, FS_EmptySet
<1> QED
  BY <1>1, <1>3, <1>4, <1>5, <1>6, <1>7 DEF Weight

\* The empty part of a stack, and one snapshot more.
LEMMA PartGrows ==
    ASSUME NEW P, NEW s \in Seq(Saves(P)), NEW a \in 1 .. Len(s) + 1
    PROVE  /\ SubSeq(s, a, a - 1) = <<>>
           /\ \A k \in a - 1 .. Len(s) : SubSeq(s, a, k) \in Seq(Saves(P))
           /\ \A k \in a .. Len(s) :
                  SubSeq(s, a, k) = Append(SubSeq(s, a, k - 1), s[k])
<1> DEFINE S == Saves(P)
           n == Len(s)
<1>1. n \in Nat /\ \A i \in 1 .. n : s[i] \in S
  BY ElementOfSeq, LenProperties
<1>2. s \in Seq(S)
  OBVIOUS
<1> HIDE DEF S, n
<1>3. a \in 1 .. n + 1
  BY DEF n
<1>4. SubSeq(s, a, a - 1) = <<>>
  BY <1>1, <1>3, SubSeqEmpty
<1>5. ASSUME NEW k \in a - 1 .. n
      PROVE  /\ SubSeq(s, a, k) \in Seq(S)
             /\ Len(SubSeq(s, a, k)) = k - a + 1
             /\ \A i \in 1 .. k - a + 1 : SubSeq(s, a, k)[i] = s[a + i - 1]
  <2>1. a \in Int /\ k \in Int /\ \A i \in a .. k : s[i] \in S
    BY <1>1, <1>3
  <2> QED
    BY <1>3, <2>1, SubSeqProperties
<1>6. ASSUME NEW k \in a .. n
      PROVE  SubSeq(s, a, k) = Append(SubSeq(s, a, k - 1), s[k])
  <2> DEFINE t == SubSeq(s, a, k - 1)
             u == SubSeq(s, a, k)
             v == Append(t, s[k])
  <2>1. k - 1 \in a - 1 .. n /\ k \in a - 1 .. n /\ k \in 1 .. n /\ k - 1 - a + 1 = k - a
        /\ k - a \in Nat
    BY <1>1, <1>3
  <2>2. t \in Seq(S) /\ Len(t) = k - a /\ \A i \in 1 .. k - a : t[i] = s[a + i - 1]
    <3>1. /\ SubSeq(s, a, k - 1) \in Seq(S)
          /\ Len(SubSeq(s, a, k - 1)) = k - 1 - a + 1
          /\ \A i \in 1 .. k - 1 - a + 1 : SubSeq(s, a, k - 1)[i] = s[a + i - 1]
      BY <1>5, <2>1
    <3> QED
      BY <2>1, <3>1
  <2>3. u \in Seq(S) /\ Len(u) = k - a + 1 /\ \A i \in 1 .. k - a + 1 : u[i] = s[a + i - 1]
    BY <1>5, <2>1
  <2>4. s[k] \in S
    BY <1>1, <2>1
  <2> HIDE DEF t, u
  <2>5. v \in Seq(S) /\ Len(v) = k - a + 1 /\ (\A i \in 1 .. k - a : v[i] = t[i])
        /\ v[k - a + 1] = s[k]
    BY <2>2, <2>4, AppendProperties
  <2> HIDE DEF v
  <2>6. ASSUME NEW i \in 1 .. k - a + 1 PROVE u[i] = v[i]
    <3>1. CASE i = k - a + 1
      <4>1. a + i - 1 = k
        BY <1>3, <2>1, <3>1
      <4> QED
        BY <2>3, <2>5, <3>1, <4>1
    <3>2. CASE i # k - a + 1
      <4>1. i \in 1 .. k - a
        BY <2>1, <3>2
      <4> QED
        BY <2>2, <2>3, <2>5, <4>1
    <3> QED
      BY <3>1, <3>2
  <2>7. u = v
    BY <2>3, <2>5, <2>6, SeqEqual
  <2> QED
    BY <2>7 DEF u, v, t
<1> QED
  BY <1>4, <1>5, <1>6 DEF S, n

\* A stack weighs what its two parts weigh.
LEMMA SplitWeight ==
    ASSUME NEW P, NEW s \in Seq(Saves(P)), NEW d \in 0 .. Len(s)
    PROVE  /\ Weight(SubSeq(s, 1, d)) + Weight(SubSeq(s, d + 1, Len(s))) = Weight(s)
           /\ \A k \in 0 .. Len(s) - 1 :
                  Weight(SubSeq(s, 1, k + 1)) = Weight(SubSeq(s, 1, k)) + s[k + 1].count
<1> DEFINE S     == Saves(P)
           n     == Len(s)
           W(a, k) == Weight(SubSeq(s, a, k))
<1>1. n \in Nat /\ \A i \in 1 .. n : s[i] \in S
  BY ElementOfSeq, LenProperties
<1>2. ASSUME NEW a \in 1 .. n + 1
      PROVE  /\ W(a, a - 1) = 0
             /\ \A k \in a - 1 .. n : W(a, k) \in Nat
             /\ \A k \in a .. n : W(a, k) = W(a, k - 1) + s[k].count
  <2>1. /\ SubSeq(s, a, a - 1) = <<>>
        /\ \A k \in a - 1 .. n : SubSeq(s, a, k) \in Seq(S)
        /\ \A k \in a .. n : SubSeq(s, a, k) = Append(SubSeq(s, a, k - 1), s[k])
    BY PartGrows
  <2>2. W(a, a - 1) = 0
    <3>1. DOMAIN <<>> = {}
      OBVIOUS
    <3>2. Units(<<>>) = {}
      BY <3>1 DEF Units
    <3> QED
      BY <2>1, <3>2, FS_EmptySet DEF Weight
  <2>3. ASSUME NEW k \in a .. n PROVE W(a, k) = W(a, k - 1) + s[k].count
    <3> DEFINE t == SubSeq(s, a, k - 1)
               x == s[k]
    <3>1. k - 1 \in a - 1 .. n /\ k \in 1 .. n
      BY <1>1
    <3>2. t \in Seq(Saves(P)) /\ x \in Saves(P)
      BY <1>1, <2>1, <3>1
    <3>3. SubSeq(s, a, k) = Append(t, x)
      BY <2>1
    <3> HIDE DEF t, x
    <3>4. Weight(Append(t, x)) = Weight(t) + x.count
      BY <3>2, AppendWeight
    <3> QED
      BY <3>3, <3>4 DEF t, x
  <2>4. \A k \in a - 1 .. n : W(a, k) \in Nat
    BY <2>1, WeightType
  <2> QED
    BY <2>2, <2>3, <2>4
<1>3. \A i \in 1 .. n : s[i].count \in Nat
  BY <1>1 DEF Saves
<1> HIDE DEF W, S, n
<1>4. d \in 0 .. n /\ d + 1 \in 1 .. n + 1 /\ 1 \in 1 .. n + 1
  BY <1>1 DEF n
<1> DEFINE Good(i) == W(1, d) + W(d + 1, d + i) = W(1, d + i)
           T == {i \in 0 .. n - d : Good(i)}
<1>5. Good(0)
  <2>1. W(d + 1, d + 1 - 1) = 0 /\ d + 1 - 1 = d /\ d + 0 = d
    BY <1>2, <1>4
  <2>2. W(1, d) \in Nat
    <3>1. d \in 1 - 1 .. n
      BY <1>4
    <3> QED
      BY <1>2, <1>4, <3>1
  <2> QED
    BY <2>1, <2>2
<1>6. ASSUME NEW i \in 1 .. n - d, Good(i - 1) PROVE Good(i)
  <2> DEFINE k == d + i
  <2>1. /\ k \in 1 .. n /\ k \in d + 1 .. n
        /\ k - 1 = d + (i - 1)
        /\ k - 1 \in 1 - 1 .. n /\ k - 1 \in d + 1 - 1 .. n /\ d \in 1 - 1 .. n
    BY <1>1, <1>4
  <2> HIDE DEF k
  <2>2. W(d + 1, k) = W(d + 1, k - 1) + s[k].count
    BY <1>2, <1>4, <2>1
  <2>3. W(1, k) = W(1, k - 1) + s[k].count
    BY <1>2, <1>4, <2>1
  <2>4. W(1, d) + W(d + 1, k - 1) = W(1, k - 1)
    BY <1>6, <2>1
  <2>5. W(1, d) \in Nat /\ W(d + 1, k - 1) \in Nat /\ W(1, k - 1) \in Nat /\ s[k].count \in Nat
    BY <1>2, <1>3, <1>4, <2>1
  <2>6. W(1, d) + W(d + 1, k) = W(1, k)
    BY <2>2, <2>3, <2>4, <2>5
  <2> QED
    BY <2>6 DEF k
<1>7. Good(n - d)
  <2>1. n - d \in Nat
    BY <1>1, <1>4
  <2>2. 0 \in T /\ \A i \in 1 .. n - d : i - 1 \in T => i \in T
    <3>1. 0 \in 0 .. n - d /\ \A i \in 1 .. n - d : i \in 0 .. n - d
      BY <2>1
    <3> HIDE DEF Good
    <3> QED
      BY <1>5, <1>6, <3>1
  <2> HIDE DEF T
  <2>3. \A i \in 0 .. n - d : i \in T
    BY <2>1, <2>2, UpTo
  <2> QED
    BY <2>1, <2>3 DEF T
<1>8. d + (n - d) = n
  BY <1>1, <1>4
<1>9. SubSeq(s, 1, n) = s
  <2>1. \A i \in 1 .. n : s[i] \in S
    BY <1>1
  <2>2. /\ SubSeq(s, 1, n) \in Seq(S)
        /\ Len(SubSeq(s, 1, n)) = n
        /\ \A i \in 1 .. n : SubSeq(s, 1, n)[i] = s[i]
    <3>1. 1 \in Int /\ n \in Int /\ \A i \in 1 .. n : 1 + i - 1 = i
      BY <1>1
    <3>2. /\ SubSeq(s, 1, n) \in Seq(S)
          /\ Len(SubSeq(s, 1, n)) = IF 1 <= n THEN n - 1 + 1 ELSE 0
          /\ \A i \in 1 .. n - 1 + 1 : SubSeq(s, 1, n)[i] = s[1 + i - 1]
      BY <2>1, <3>1, SubSeqProperties
    <3>3. n - 1 + 1 = n
      BY <1>1
    <3> QED
      BY <1>1, <3>1, <3>2, <3>3
  <2>3. s \in Seq(S) /\ Len(s) = n
    BY DEF S, n
  <2> QED
    BY <2>2, <2>3, SeqEqual
<1>10. \A k \in 0 .. n - 1 : W(1, k + 1) = W(1, k) + s[k + 1].count
  <2> SUFFICES ASSUME NEW k \in 0 .. n - 1 PROVE W(1, k + 1) = W(1, k) + s[k + 1].count
    OBVIOUS
  <2>1. k + 1 \in 1 .. n /\ k + 1 - 1 = k
    BY <1>1
  <2> QED
    BY <1>2, <1>4, <2>1
<1>11. W(1, d) + W(d + 1, n) = W(1, n)
  BY <1>7, <1>8
<1> QED
  BY <1>9, <1>10, <1>11 DEF W, n

\* The whole of a stack, as a part of itself.
LEMMA WholePart ==
    ASSUME NEW P, NEW s \in Seq(Saves(P))
    PROVE  SubSeq(s, 1, Len(s)) = s
<1> DEFINE S == Saves(P)
           n == Len(s)
<1>1. n \in Nat /\ \A i \in 1 .. n : s[i] \in S
  BY ElementOfSeq, LenProperties
<1>2. s \in Seq(S)
  OBVIOUS
<1> HIDE DEF S
<1>3. 1 \in Int /\ n \in Int /\ n - 1 + 1 = n /\ \A i \in 1 .. n : 1 + i - 1 = i
  BY <1>1
<1>4. /\ SubSeq(s, 1, n) \in Seq(S)
      /\ Len(SubSeq(s, 1, n)) = IF 1 <= n THEN n - 1 + 1 ELSE 0
      /\ \A i \in 1 .. n - 1 + 1 : SubSeq(s, 1, n)[i] = s[1 + i - 1]
  BY <1>1, <1>3, SubSeqProperties
<1>5. Len(SubSeq(s, 1, n)) = n /\ \A i \in 1 .. n : SubSeq(s, 1, n)[i] = s[i]
  BY <1>1, <1>3, <1>4
<1> QED
  BY <1>2, <1>4, <1>5, SeqEqual

\* The counts are those of the projects, and together the total.
Exact(h) ==
    /\ \A i \in DOMAIN h.undo : h.undo[i].count = CountNodes(h.undo[i].project)
    /\ h.nodes = Weight(h.undo)

LEMMA AppendExact ==
    ASSUME NEW h \in HistoryOf(Project), Exact(h), NEW p \in Project
    PROVE  LET grown == Append(h.undo, Snapshot(p))
           IN  /\ grown \in Seq(Saves(Project))
               /\ Len(grown) = Len(h.undo) + 1
               /\ Len(h.undo) \in Nat
               /\ \A i \in DOMAIN grown : grown[i].count = CountNodes(grown[i].project)
               /\ Weight(grown) = h.nodes + CountNodes(p)
<1> DEFINE u     == h.undo
           x     == Snapshot(p)
           grown == Append(u, x)
<1>1. u \in Seq(Saves(Project)) /\ Len(u) \in Nat
  BY DEF HistoryOf
<1>2. x \in Saves(Project) /\ x.count = CountNodes(p) /\ x.project = p
  BY ProjectCount DEF Snapshot, Saves
<1>3. Weight(u) = h.nodes /\ \A i \in 1 .. Len(u) : u[i].count = CountNodes(u[i].project)
  BY <1>1, LenProperties DEF Exact
<1> HIDE DEF u, x
<1>4. /\ grown \in Seq(Saves(Project))
      /\ Len(grown) = Len(u) + 1
      /\ \A i \in 1 .. Len(u) : grown[i] = u[i]
      /\ grown[Len(u) + 1] = x
  BY <1>1, <1>2, AppendProperties
<1>5. Weight(grown) = h.nodes + CountNodes(p)
  BY <1>1, <1>2, <1>3, AppendWeight
<1> HIDE DEF grown
<1>6. DOMAIN grown = (1 .. Len(u)) \cup {Len(u) + 1}
  BY <1>1, <1>4, LenProperties
<1>7. \A i \in DOMAIN grown : grown[i].count = CountNodes(grown[i].project)
  BY <1>2, <1>3, <1>4, <1>6
<1> QED
  BY <1>1, <1>4, <1>5, <1>7 DEF grown, u, x

\* What is left of a stack of right counts when some of it goes.
LEMMA PartExact ==
    ASSUME NEW s \in Seq(Saves(Project)), NEW a \in 1 .. Len(s) + 1, NEW b \in a - 1 .. Len(s),
           \A i \in DOMAIN s : s[i].count = CountNodes(s[i].project)
    PROVE  \A i \in DOMAIN SubSeq(s, a, b) :
               SubSeq(s, a, b)[i].count = CountNodes(SubSeq(s, a, b)[i].project)
<1> DEFINE S == Saves(Project)
           n == Len(s)
           t == SubSeq(s, a, b)
<1>1. n \in Nat /\ DOMAIN s = 1 .. n /\ \A i \in 1 .. n : s[i] \in S
  BY ElementOfSeq, LenProperties
<1> HIDE DEF S
<1>2. a \in Int /\ b \in Int /\ \A i \in a .. b : i \in 1 .. n
  BY <1>1
<1>3. /\ t \in Seq(S)
      /\ Len(t) = IF a <= b THEN b - a + 1 ELSE 0
      /\ \A i \in 1 .. b - a + 1 : t[i] = s[a + i - 1]
  BY <1>1, <1>2, SubSeqProperties
<1>4. DOMAIN t = 1 .. b - a + 1 /\ \A i \in 1 .. b - a + 1 : a + i - 1 \in 1 .. n
  BY <1>1, <1>2, <1>3, LenProperties
<1> HIDE DEF t
<1> QED
  BY <1>1, <1>3, <1>4 DEF t

LEMMA PushExact ==
    ASSUME NEW h \in HistoryOf(Project), Exact(h), NEW p \in Project
    PROVE  Exact(Push(h, p))
<1> DEFINE grown == Append(h.undo, Snapshot(p))
           n     == Len(grown)
           nodes == h.nodes + CountNodes(p)
           d     == Least(Surplus(grown, nodes))
           kept  == SubSeq(grown, d + 1, n)
           gone  == SubSeq(grown, 1, d)
<1>1. /\ grown \in Seq(Saves(Project))
      /\ n \in Nat \ {0}
      /\ \A i \in DOMAIN grown : grown[i].count = CountNodes(grown[i].project)
      /\ Weight(grown) = nodes
  BY AppendExact
<1>2. Push(h, p) = [undo |-> kept, redo |-> <<>>, nodes |-> nodes - Weight(gone)]
  BY DEF Push
<1> HIDE DEF grown, nodes
<1>3. d \in Surplus(grown, nodes)
  BY <1>1, LeastSurplus
<1>4. d \in 0 .. n - 1
  BY <1>3 DEF Surplus
<1> HIDE DEF d
<1>5. d \in 0 .. n /\ d + 1 \in 1 .. n + 1 /\ n \in d + 1 - 1 .. n /\ d \in 1 - 1 .. n /\ 1 \in 1 .. n + 1
  BY <1>1, <1>4
<1>6. Weight(gone) + Weight(kept) = Weight(grown)
  BY <1>1, <1>5, SplitWeight
<1>7. Weight(gone) \in Nat /\ Weight(kept) \in Nat
  <2>1. gone \in Seq(Saves(Project)) /\ kept \in Seq(Saves(Project))
    <3> HIDE DEF gone, kept
    <3>1. \A a \in 1 .. n + 1 : \A k \in a - 1 .. n : SubSeq(grown, a, k) \in Seq(Saves(Project))
      BY <1>1, PartGrows
    <3> QED
      BY <1>5, <3>1 DEF gone, kept
  <2> HIDE DEF gone, kept
  <2> QED
    BY <2>1, WeightType
<1>8. \A i \in DOMAIN kept : kept[i].count = CountNodes(kept[i].project)
  BY <1>1, <1>5, PartExact
<1> HIDE DEF kept, gone
<1>9. nodes - Weight(gone) = Weight(kept)
  BY <1>1, <1>6, <1>7
<1> QED
  BY <1>2, <1>8, <1>9 DEF Exact

LEMMA UndoneExact ==
    ASSUME NEW h \in HistoryOf(Project), Exact(h), CanUndo(h), NEW p
    PROVE  Exact(Undone(h, p))
<1> DEFINE u == h.undo
           n == Len(u)
           t == SubSeq(u, 1, n - 1)
<1>1. u \in Seq(Saves(Project)) /\ n \in Nat \ {0}
  BY DEF HistoryOf, CanUndo
<1>2. Weight(u) = h.nodes /\ \A i \in DOMAIN u : u[i].count = CountNodes(u[i].project)
  BY DEF Exact
<1>3. Undone(h, p).undo = t /\ Undone(h, p).nodes = h.nodes - u[n].count
  BY DEF Undone
<1> HIDE DEF u
<1>4. n - 1 \in 0 .. n - 1 /\ n - 1 + 1 = n /\ 0 \in 0 .. n
      /\ 1 \in 1 .. n + 1 /\ n - 1 \in 1 - 1 .. n /\ n \in 1 .. n
  BY <1>1
<1>5. Weight(SubSeq(u, 1, n)) = Weight(t) + u[n].count
  <2>1. \A k \in 0 .. n - 1 : Weight(SubSeq(u, 1, k + 1)) = Weight(SubSeq(u, 1, k)) + u[k + 1].count
    BY <1>1, <1>4, SplitWeight
  <2> QED
    BY <1>4, <2>1
<1>6. SubSeq(u, 1, n) = u
  BY <1>1, WholePart
<1>7. u[n].count \in Nat
  <2>1. u[n] \in Saves(Project)
    BY <1>1, <1>4, ElementOfSeq
  <2> QED
    BY <2>1 DEF Saves
<1>8. Weight(t) \in Nat
  <2>1. t \in Seq(Saves(Project))
    BY <1>1, <1>4, PartGrows
  <2> HIDE DEF t
  <2> QED
    BY <2>1, WeightType
<1>9. \A i \in DOMAIN t : t[i].count = CountNodes(t[i].project)
  BY <1>1, <1>2, <1>4, PartExact
<1> HIDE DEF t
<1> HIDE DEF n
<1>10. h.nodes - u[n].count = Weight(t)
  <2> DEFINE c == u[n].count
             w == Weight(t)
  <2>1. c \in Nat /\ w \in Nat /\ h.nodes = w + c
    BY <1>2, <1>5, <1>6, <1>7, <1>8
  <2> HIDE DEF c, w
  <2>2. h.nodes - c = w
    BY <2>1
  <2> QED
    BY <2>2 DEF c, w
<1>11. Undone(h, p).undo = t /\ Undone(h, p).nodes = Weight(t)
  BY <1>3, <1>10
<1> QED
  BY <1>9, <1>11 DEF Exact

LEMMA RedoneExact ==
    ASSUME NEW h \in HistoryOf(Project), Exact(h), NEW p \in Project
    PROVE  Exact(Redone(h, p))
<1>1. Redone(h, p).undo = Append(h.undo, Snapshot(p)) /\ Redone(h, p).nodes = h.nodes + CountNodes(p)
  BY DEF Redone
<1> QED
  BY <1>1, AppendExact DEF Exact

LEMMA EmptyExact == Exact(EmptyHistory)
<1>1. DOMAIN <<>> = {}
  OBVIOUS
<1>2. Units(<<>>) = {}
  BY <1>1 DEF Units
<1>3. Weight(<<>>) = 0
  BY <1>2, FS_EmptySet DEF Weight
<1> QED
  BY <1>1, <1>3 DEF Exact, EmptyHistory

LEMMA CountsStep == TypeOK /\ Exact(history) /\ [Next]_vars => Exact(history')
<1> SUFFICES ASSUME TypeOK, Exact(history), [Next]_vars PROVE Exact(history')
  OBVIOUS
<1>1. project \in Project /\ history \in HistoryOf(Project)
  BY HistoryType
<1>2. CASE UNCHANGED vars
  BY <1>2 DEF vars
<1>3. CASE ProjectSteps
  <2>1. ASSUME NEW reg, ImportRcnet(reg) PROVE Exact(history')
    BY <1>1, <2>1, PushExact DEF ImportRcnet
  <2>2. ASSUME NEW file, Load(file) PROVE Exact(history')
    BY <2>2, EmptyExact DEF Load
  <2>3. CASE Undo
    BY <1>1, <2>3, UndoneExact DEF Undo
  <2>4. CASE Redo
    BY <1>1, <2>4, RedoneExact DEF Redo
  <2> QED
    BY <1>3, <2>1, <2>2, <2>3, <2>4 DEF ProjectSteps
<1>4. CASE Recorded
  BY <1>1, <1>4, PushExact DEF Recorded
<1> QED
  BY <1>2, <1>3, <1>4, StepRecords

\* The trimming loop, at a number of dropped snapshots and a count of the rest.
Trims(grown, F, p) ==
    IF Len(grown) - p[1] > 1 /\ (Len(grown) - p[1] > DEPTH \/ p[2] > MAX_NODES)
    THEN F[<<p[1] + 1, p[2] - grown[p[1] + 1].count>>]
    ELSE [undo  |-> SubSeq(grown, p[1] + 1, Len(grown)),
          redo  |-> <<>>,
          nodes |-> p[2]]

\* The loop ends, for it takes one more snapshot each time.
LEMMA TrimStep ==
    ASSUME NEW h, NEW before,
           Append(h.undo, Snapshot(before)) \in Seq(Saves(Project))
    PROVE  LET grown == Append(h.undo, Snapshot(before))
           IN  \E W : /\ \A p \in Nat \X Int : W[p] = Trims(grown, W, p)
                      /\ TrimLoop(h, before) = W[<<0, h.nodes + CountNodes(before)>>]
<1> DEFINE grown == Append(h.undo, Snapshot(before))
           n     == Len(grown)
           P     == Nat \X Int
           Left(d, m) == [undo |-> SubSeq(grown, d + 1, n), redo |-> <<>>, nodes |-> m]
           X     == {Left(d, m) : d \in Nat, m \in Int}
           rank  == [p \in P |-> IF p[1] < n THEN p[1] ELSE n]
           G     == [F \in [P -> X] |-> [p \in P |-> Trims(grown, F, p)]]
           zero  == [p \in P |-> Left(0, 0)]
<1>1. n \in Nat /\ \A i \in 1 .. n : grown[i] \in Saves(Project)
  BY ElementOfSeq, LenProperties
<1>2. \A i \in 1 .. n : grown[i].count \in Nat
  BY <1>1 DEF Saves
<1>3. zero \in [P -> X]
  <2>1. Left(0, 0) \in X
    <3> HIDE DEF Left
    <3> QED
      OBVIOUS
  <2> HIDE DEF X, Left
  <2> QED
    BY <2>1
<1>4. rank \in [P -> 0 .. n]
  BY <1>1
<1>5. ASSUME NEW p \in P, n - p[1] > 1
      PROVE  /\ <<p[1] + 1, p[2] - grown[p[1] + 1].count>> \in P
             /\ rank[<<p[1] + 1, p[2] - grown[p[1] + 1].count>>] > rank[p]
  <2> DEFINE d == p[1]
             m == p[2]
  <2>1. d \in Nat /\ m \in Int /\ d + 1 \in 1 .. n /\ d < n /\ d + 1 < n
    BY <1>1, <1>5
  <2>2. m - grown[d + 1].count \in Int
    BY <1>2, <2>1
  <2> DEFINE q == <<d + 1, m - grown[d + 1].count>>
  <2>3. q \in P /\ q[1] = d + 1
    BY <2>1, <2>2
  <2> HIDE DEF q
  <2>4. rank[q] = d + 1 /\ rank[p] = d
    BY <2>1, <2>3
  <2>5. rank[q] > rank[p]
    BY <2>1, <2>4
  <2> QED
    BY <2>3, <2>5 DEF q
<1>6. ASSUME NEW F \in [P -> X], NEW p \in P PROVE Trims(grown, F, p) \in X
  <2> DEFINE q    == <<p[1] + 1, p[2] - grown[p[1] + 1].count>>
             more == n - p[1] > 1 /\ (n - p[1] > DEPTH \/ p[2] > MAX_NODES)
  <2>1. Trims(grown, F, p) = IF more THEN F[q] ELSE Left(p[1], p[2])
    BY DEF Trims
  <2>2. more => q \in P
    <3>1. more => n - p[1] > 1
      OBVIOUS
    <3>2. n - p[1] > 1 => q \in P
      <4> HIDE DEF rank, grown, n, P
      <4> QED
        BY <1>5
    <3> HIDE DEF more, P, q
    <3> QED
      BY <3>1, <3>2
  <2>3. Left(p[1], p[2]) \in X
    <3>1. p[1] \in Nat /\ p[2] \in Int
      OBVIOUS
    <3> HIDE DEF Left
    <3> QED
      BY <3>1
  <2> HIDE DEF q, more, X, Left, P
  <2> QED
    BY <2>1, <2>2, <2>3
<1>7. ASSUME NEW F, NEW H, NEW p \in P, \A q \in P : rank[q] > rank[p] => F[q] = H[q]
      PROVE  Trims(grown, F, p) = Trims(grown, H, p)
  <2> DEFINE q == <<p[1] + 1, p[2] - grown[p[1] + 1].count>>
  <2>1. n - p[1] > 1 => F[q] = H[q]
    <3>1. n - p[1] > 1 => q \in P /\ rank[q] > rank[p]
      BY <1>5
    <3> HIDE DEF q, rank, P
    <3> QED
      BY <1>7, <3>1
  <2>2. Trims(grown, F, p) = IF n - p[1] > 1 /\ (n - p[1] > DEPTH \/ p[2] > MAX_NODES)
                             THEN F[q]
                             ELSE [undo |-> SubSeq(grown, p[1] + 1, n), redo |-> <<>>, nodes |-> p[2]]
    BY DEF Trims
  <2>3. Trims(grown, H, p) = IF n - p[1] > 1 /\ (n - p[1] > DEPTH \/ p[2] > MAX_NODES)
                             THEN H[q]
                             ELSE [undo |-> SubSeq(grown, p[1] + 1, n), redo |-> <<>>, nodes |-> p[2]]
    BY DEF Trims
  <2> HIDE DEF q, n, P, rank
  <2> QED
    BY <2>1, <2>2, <2>3
<1>8. G \in [[P -> X] -> [P -> X]]
  <2>1. \A F \in [P -> X] : [p \in P |-> Trims(grown, F, p)] \in [P -> X]
    <3> HIDE DEF X, P, grown, n
    <3> QED
      BY <1>6
  <2> HIDE DEF X, P, grown, n
  <2> QED
    BY <2>1
<1>9. PICK F \in [P -> X] : F = G[F]
  <2>1. ASSUME NEW F \in [P -> X], NEW H \in [P -> X], NEW p \in P,
               \A q \in P : rank[q] > rank[p] => F[q] = H[q]
        PROVE  G[F][p] = G[H][p]
    <3>1. Trims(grown, F, p) = Trims(grown, H, p)
      <4> HIDE DEF rank, P, grown
      <4> QED
        BY <1>7, <2>1
    <3> HIDE DEF X, P, grown
    <3> QED
      BY <3>1
  <2> HIDE DEF rank, G, zero, P, X, n
  <2>2. Ranked(n, P, X, rank, G)
    BY <1>4, <1>8, <2>1 DEF Ranked
  <2>3. Fixed(P, X, G) # {}
    BY <1>1, <1>3, <2>2, Settles
  <2> QED
    BY <2>3 DEF Fixed
<1>10. F = [p \in P |-> Trims(grown, F, p)]
  <2> HIDE DEF X, P, grown, n
  <2> QED
    BY <1>9
<1> DEFINE trim[p \in P] == Trims(grown, trim, p)
<1>11. TrimLoop(h, before) = trim[<<0, h.nodes + CountNodes(before)>>]
  BY DEF TrimLoop, Trims
<1> HIDE DEF grown, n, P
<1>12. \E W : W = [p \in P |-> Trims(grown, W, p)]
  BY <1>10
<1>13. trim = [p \in P |-> Trims(grown, trim, p)]
  BY <1>12
<1> HIDE DEF trim
<1>14. \A p \in P : trim[p] = Trims(grown, trim, p)
  BY <1>13
<1> QED
  BY <1>11, <1>14 DEF grown, P

\* Where some snapshots may go, the loop leaves what the fewest of them leave.
LEMMA TrimIsPush ==
    ASSUME NEW h \in HistoryOf(Project), Exact(h), NEW p \in Project
    PROVE  TrimLoop(h, p) = Push(h, p)
<1> DEFINE grown == Append(h.undo, Snapshot(p))
           n     == Len(grown)
           nodes == h.nodes + CountNodes(p)
           S     == Surplus(grown, nodes)
           d     == Least(S)
           m(i)  == nodes - Weight(SubSeq(grown, 1, i))
<1>1. grown \in Seq(Saves(Project)) /\ n \in Nat \ {0}
  BY AppendExact
<1>2. nodes \in Int
  BY ProjectCount DEF HistoryOf
<1>3. PICK W : /\ \A q \in Nat \X Int : W[q] = Trims(grown, W, q)
               /\ TrimLoop(h, p) = W[<<0, nodes>>]
  BY <1>1, TrimStep
<1>4. Push(h, p) = [undo |-> SubSeq(grown, d + 1, n), redo |-> <<>>, nodes |-> m(d)]
  BY DEF Push
<1> HIDE DEF grown, nodes
<1>5. d \in S /\ \A e \in S : d <= e
  <2>1. S \in SUBSET Nat
    BY DEF Surplus
  <2>2. S # {}
    BY <1>1, LeastSurplus
  <2> HIDE DEF S
  <2>3. \E x \in S : \A y \in S : x <= y
    BY <2>1, <2>2, LeastNatural
  <2> QED
    BY <2>3 DEF Least
<1>6. S \subseteq 0 .. n - 1
  BY DEF Surplus
<1>7. \A i \in 0 .. n - 1 :
          i \notin S => n - i > 1 /\ (n - i > DEPTH \/ m(i) > MAX_NODES)
  <2> SUFFICES ASSUME NEW i \in 0 .. n - 1, i \notin S
               PROVE  n - i > 1 /\ (n - i > DEPTH \/ m(i) > MAX_NODES)
    OBVIOUS
  <2>1. i # n - 1 /\ ~(n - i <= DEPTH /\ m(i) <= MAX_NODES)
    BY Zenon DEF Surplus
  <2>2. SubSeq(grown, 1, i) \in Seq(Saves(Project))
    <3>1. 1 \in 1 .. n + 1 /\ i \in 1 - 1 .. n
      BY <1>1
    <3> QED
      BY <1>1, <3>1, PartGrows
  <2>3. Weight(SubSeq(grown, 1, i)) \in Nat
    BY <2>2, WeightType
  <2>4. m(i) \in Int
    BY <1>2, <2>3
  <2> HIDE DEF m
  <2> QED
    BY <1>1, <2>1, <2>4, HistoryAssumption
<1>8. \A i \in S : ~(n - i > 1 /\ (n - i > DEPTH \/ m(i) > MAX_NODES))
  <2> SUFFICES ASSUME NEW i \in S
               PROVE  ~(n - i > 1 /\ (n - i > DEPTH \/ m(i) > MAX_NODES))
    OBVIOUS
  <2>0. i \in 0 .. n - 1
    BY <1>6
  <2>1. i = n - 1 \/ (n - i <= DEPTH /\ m(i) <= MAX_NODES)
    BY DEF Surplus
  <2>2. SubSeq(grown, 1, i) \in Seq(Saves(Project))
    <3>1. 1 \in 1 .. n + 1 /\ i \in 1 - 1 .. n
      BY <1>1, <2>0
    <3> QED
      BY <1>1, <3>1, PartGrows
  <2>3. Weight(SubSeq(grown, 1, i)) \in Nat
    BY <2>2, WeightType
  <2>4. m(i) \in Int
    BY <1>2, <2>3
  <2> HIDE DEF m, S
  <2> QED
    BY <1>1, <2>0, <2>1, <2>4, HistoryAssumption
<1>9. \A i \in 0 .. n - 1 : m(i) \in Int /\ m(i + 1) = m(i) - grown[i + 1].count
  <2> SUFFICES ASSUME NEW i \in 0 .. n - 1
               PROVE  m(i) \in Int /\ m(i + 1) = m(i) - grown[i + 1].count
    OBVIOUS
  <2>1. Weight(SubSeq(grown, 1, i + 1)) = Weight(SubSeq(grown, 1, i)) + grown[i + 1].count
    <3>1. 0 \in 0 .. n
      BY <1>1
    <3> QED
      BY <1>1, <3>1, SplitWeight
  <2>2. SubSeq(grown, 1, i) \in Seq(Saves(Project))
    <3>1. 1 \in 1 .. n + 1 /\ i \in 1 - 1 .. n
      BY <1>1
    <3> QED
      BY <1>1, <3>1, PartGrows
  <2>3. Weight(SubSeq(grown, 1, i)) \in Nat
    BY <2>2, WeightType
  <2>4. grown[i + 1].count \in Nat
    <3>1. i + 1 \in 1 .. n
      BY <1>1
    <3>2. grown[i + 1] \in Saves(Project)
      BY <1>1, <3>1, ElementOfSeq
    <3> QED
      BY <3>2 DEF Saves
  <2> QED
    BY <1>2, <2>1, <2>3, <2>4
<1>10. m(0) = nodes
  <2>1. SubSeq(grown, 1, 0) = <<>>
    BY SubSeqEmpty
  <2>2. Weight(<<>>) = 0
    BY EmptyExact DEF Exact, EmptyHistory
  <2> QED
    <3> HIDE DEF nodes
    <3>1. m(0) = nodes - 0
      BY <2>1, <2>2
    <3> QED
      BY <1>2, <3>1
<1>11. d \in 0 .. n - 1 /\ d \in Nat /\ n \in Nat
  BY <1>1, <1>5, <1>6
<1> HIDE DEF m, d, S, n
<1> DEFINE Same(i) == W[<<i, m(i)>>] = W[<<0, nodes>>]
           R == {i \in 0 .. d : Same(i)}
<1>12. ASSUME NEW i \in 1 .. d, Same(i - 1) PROVE Same(i)
  <2> DEFINE j == i - 1
             x == m(j)
             q == <<j, x>>
  <2>1. j \in 0 .. n - 1 /\ j \in Nat /\ j < d /\ j + 1 = i
    BY <1>11
  <2>2. j \notin S
    BY <1>5, <1>11, <2>1
  <2>3. n - j > 1 /\ (n - j > DEPTH \/ x > MAX_NODES)
    BY <1>7, <2>1, <2>2
  <2>4. x \in Int /\ m(i) = x - grown[j + 1].count
    BY <1>9, <2>1
  <2> HIDE DEF j, x
  <2>5. q \in Nat \X Int /\ q[1] = j /\ q[2] = x
    BY <2>1, <2>4
  <2> HIDE DEF q
  <2>6. W[q] = Trims(grown, W, q)
    BY <1>3, <2>5
  <2>7. Trims(grown, W, q) = W[<<j + 1, x - grown[j + 1].count>>]
    BY <2>3, <2>5 DEF Trims, n
  <2>8. W[q] = W[<<i, m(i)>>]
    BY <2>1, <2>4, <2>6, <2>7
  <2>9. W[<<j, x>>] = W[<<0, nodes>>]
    BY <1>12 DEF j, x
  <2> QED
    BY <2>8, <2>9 DEF q
<1>13. Same(d)
  <2>1. Same(0)
    BY <1>10
  <2> HIDE DEF Same
  <2>2. 0 \in R /\ \A i \in 1 .. d : i - 1 \in R => i \in R
    <3>1. 0 \in 0 .. d /\ \A i \in 1 .. d : i \in 0 .. d
      BY <1>11
    <3> QED
      BY <1>12, <2>1, <3>1
  <2> HIDE DEF R
  <2>3. \A i \in 0 .. d : i \in R
    BY <1>11, <2>2, UpTo
  <2> QED
    BY <1>11, <2>3 DEF R
<1>14. W[<<d, m(d)>>] = [undo |-> SubSeq(grown, d + 1, n), redo |-> <<>>, nodes |-> m(d)]
  <2> DEFINE x == m(d)
             q == <<d, x>>
  <2>1. x \in Int
    BY <1>9, <1>11
  <2>2. ~(n - d > 1 /\ (n - d > DEPTH \/ x > MAX_NODES))
    BY <1>5, <1>8
  <2> HIDE DEF x
  <2>3. q \in Nat \X Int /\ q[1] = d /\ q[2] = x
    BY <1>11, <2>1
  <2> HIDE DEF q
  <2>4. W[q] = Trims(grown, W, q)
    BY <1>3, <2>3
  <2>5. Trims(grown, W, q) = [undo |-> SubSeq(grown, d + 1, n), redo |-> <<>>, nodes |-> x]
    BY <2>2, <2>3, Zenon DEF Trims, n
  <2> QED
    BY <2>4, <2>5 DEF q, x
<1> QED
  BY <1>3, <1>4, <1>13, <1>14

\* What the history keeps is counted right, and an edit drops no more of it
\* than the caps ask for.
THEOREM TrimmedLeast == Spec => []TrimsLeast
<1>1. Init => Exact(history)
  BY EmptyExact DEF Init
<1>2. TypeOK /\ Exact(history) /\ [Next]_vars => Exact(history)'
  BY CountsStep
<1>3. TypeOK /\ Exact(history) => TrimsLeast
  <2> SUFFICES ASSUME TypeOK, Exact(history) PROVE TrimsLeast
    OBVIOUS
  <2>1. TrimLoop(history, project) = Push(history, project)
    BY HistoryType, TrimIsPush
  <2> QED
    BY <2>1 DEF TrimsLeast, CountsExact, Exact
<1> QED
  BY <1>1, <1>2, <1>3, TypeCorrect, PTL DEF Spec

-----------------------------------------------------------------------------
(* The loops.                                                              *)

\* In a registry without a cycle the guard's walk refuses an instance exactly
\* when pushing it would make one.
LEMMA GuardIsExact == registry \in RegistryType => GuardExact
<1> SUFFICES ASSUME registry \in RegistryType,
                    NEW p \in registry.live, NEW c \in Ids
             PROVE  /\ CycleWalk(registry, p, c) = WouldCycle(registry, p, c)
                    /\ Acyclic(registry) =>
                          (CycleWalk(registry, p, c)
                             <=> ~Acyclic(NodesPushed(registry, p, <<Plain(Instance(c))>>)))
  BY DEF GuardExact
<1> DEFINE ns  == <<Plain(Instance(c))>>
           new == NodesPushed(registry, p, ns)
<1>1. p \in Ids
  BY DEF RegistryType
<1>2. CycleWalk(registry, p, c) <=> WouldCycle(registry, p, c)
  <2> DEFINE reg == registry
  <2>1. reg \in RegistryType
    OBVIOUS
  <2> HIDE DEF reg
  <2>2. CycleWalk(reg, p, c) <=> WouldCycle(reg, p, c)
    BY <1>1, <2>1, GuardWalks
  <2> QED
    BY <2>2 DEF reg
<1>3. CycleWalk(registry, p, c) = WouldCycle(registry, p, c)
  BY <1>2 DEF CycleWalk, WouldCycle
<1>4. WouldCycle(registry, p, c) => ~Acyclic(new)
  BY GuardNeeded
<1>5. ASSUME Acyclic(registry), ~WouldCycle(registry, p, c) PROVE Acyclic(new)
  <2>1. Plain(Instance(c)) \in Node
    BY KindTypes
  <2>2. ns \in Seq(Node) /\ new \in RegistryType /\ Grows(registry, new, p, KindsIn(ns))
    <3> DEFINE reg == registry
    <3>1. reg \in RegistryType /\ ns \in Seq(Node)
      BY <2>1
    <3> HIDE DEF reg, ns
    <3>2. /\ NodesPushed(reg, p, ns) \in RegistryType
          /\ Grows(reg, NodesPushed(reg, p, ns), p, KindsIn(ns))
      BY <1>1, <3>1, NodesPushedType, PushedGrows
    <3> QED
      BY <3>1, <3>2 DEF reg
  <2>3. \A k \in KindsIn(ns) : ~KindWouldCycle(registry, p, k)
    <3>1. \A k \in KindsIn(ns) : k = Instance(c)
      BY DEF KindsIn, Plain
    <3>2. \A child \in Inline(Instance(c)) : child = c
      BY DEF Inline, Instance
    <3> QED
      BY <1>5, <3>1, <3>2 DEF KindWouldCycle
  <2> HIDE DEF new, ns
  <2> QED
    BY <1>1, <1>5, <2>2, <2>3, GuardSuffices
<1> QED
  BY <1>2, <1>3, <1>4, <1>5

\* The search of validate decides each registry that turns one node of one
\* without a cycle towards a class.
LEMMA SearchIsExact == registry \in RegistryType /\ Acyclic(registry) => SearchExact
<1> SUFFICES ASSUME registry \in RegistryType, Acyclic(registry),
                    NEW c \in registry.live, NEW i \in DOMAIN registry.nodes[c],
                    NEW d \in registry.live
             PROVE  LET reg == KindSet(registry, c, i - 1, Instance(d))
                    IN  DepthFirst(reg) = Acyclic(reg)
  BY DEF SearchExact
<1> DEFINE k == Instance(d)
           idx == i - 1
           reg == KindSet(registry, c, idx, k)
<1>1. c \in Ids /\ d \in Ids /\ k \in Kind /\ idx \in Nat
  <2>1. c \in Ids /\ d \in Ids
    BY DEF RegistryType
  <2>2. idx \in Nat
    BY <2>1, NodeList
  <2> QED
    BY <2>1, <2>2, KindTypes
<1> HIDE DEF k, idx
<1>2. reg \in RegistryType /\ reg.live = registry.live
  BY <1>1, KindSetType, KindSetGrows
<1>3. \A e \in Ids \ {c} : reg.nodes[e] = registry.nodes[e]
  <2>1. CASE HasNode(registry, c, idx)
    BY <1>1, <2>1 DEF KindSet, RegistryType
  <2>2. CASE ~HasNode(registry, c, idx)
    BY <2>2 DEF KindSet
  <2> QED
    BY <2>1, <2>2
<1> HIDE DEF reg
<1>4. \A e \in Ids \ {c} : InlineOf(reg, e) = InlineOf(registry, e)
  BY <1>3 DEF InlineOf, KindsOf
<1>5. \A S \in SUBSET (Ids \ reg.live) : S # {} => \E e \in S : InlineOf(reg, e) \cap S = {}
  <2> SUFFICES ASSUME NEW S \in SUBSET (Ids \ reg.live), S # {}
               PROVE  \E e \in S : InlineOf(reg, e) \cap S = {}
    OBVIOUS
  <2>1. PICK e \in S : InlineOf(registry, e) \cap S = {}
    BY DEF Acyclic
  <2>2. e \in Ids \ {c}
    BY <1>2
  <2> QED
    BY <1>4, <2>1, <2>2
<1>6. DepthFirst(reg) \in BOOLEAN /\ (DepthFirst(reg) <=> Acyclic(reg))
  BY <1>2, <1>5, SearchDecides
<1>7. DepthFirst(reg) = Acyclic(reg)
  BY <1>6 DEF Acyclic
<1> QED
  BY <1>7 DEF reg, idx, k

\* In every state that the editor reaches, each of the loops comes to what it
\* is for: the guard's walk, the search of validate, delete_many, paste_nodes
\* and the removal of several classes.
THEOREM LoopsAreExact ==
    ASSUME \A k \in PluginKinds : Inline(k) = {},
           \A reg \in Imports : Acyclic(reg)
    PROVE  Spec => []LoopsExact
<1>1. Spec => []NoInlineCycle
  BY InlineAcyclic
<1>2. TypeOK /\ NoInlineCycle => LoopsExact
  <2> SUFFICES ASSUME TypeOK, NoInlineCycle PROVE LoopsExact
    OBVIOUS
  <2>1. registry \in RegistryType /\ Acyclic(registry) /\ clipboard \in Seq(Node)
    BY DEF TypeOK, Project, registry, NoInlineCycle, Reachable
  <2>2. GuardExact /\ SearchExact
    BY <2>1, GuardIsExact, SearchIsExact
  <2>3. DeletesSelection
    BY <2>1, DeletesTargets DEF DeletesSelection
  <2>4. PastesInOrder
    <3>1. \A pos \in 0 .. MaxNodes : pos \in Nat
      OBVIOUS
    <3>2. registry.live \subseteq Ids
      BY <2>1 DEF RegistryType
    <3> QED
      BY <2>1, <3>1, <3>2, PasteInOrder DEF PastesInOrder
  <2>5. RemovesInAnyOrder
    BY <2>1, RemovedAnyOrder DEF RemovesInAnyOrder
  <2> QED
    BY <2>2, <2>3, <2>4, <2>5 DEF LoopsExact
<1> QED
  BY <1>1, <1>2, TypeCorrect, PTL

-----------------------------------------------------------------------------
(* Views.                                                                  *)

\* The projects whose views show classes there are, and no class twice.
Showing ==
    {p \in Project :
        /\ \A i \in DOMAIN p.views : p.views[i] \in p.registry.live
        /\ \A i, j \in DOMAIN p.views : p.views[i] = p.views[j] => i = j}

\* A step that leaves a project whose views resolve, and positions in them.
Held == project' \in Showing /\ CursorsFollow'

ViewInv ==
    /\ TypeOK
    /\ project \in Showing
    /\ history \in HistoryOf(Showing)
    /\ CursorsFollow

\* No edit of nodes makes or removes a class.
LEMMA LiveKept ==
    ASSUME NEW reg \in RegistryType, NEW c, NEW idx, NEW ns, NEW k, NEW x
    PROVE  /\ NodesPushed(reg, c, ns).live = reg.live
           /\ NodesInserted(reg, c, idx, ns).live = reg.live
           /\ NodeRemoved(reg, c, idx).live = reg.live
           /\ KindSet(reg, c, idx, k).live = reg.live
           /\ ArrayCountSet(reg, c, idx, x).live = reg.live
           /\ NodeRelabelled(reg, c, idx, x).live = reg.live
           /\ ClassRelabelled(reg, c, x).live = reg.live
           /\ PtrWidthSet(reg, x).live = reg.live
           /\ NodesDeleted(reg, x).live = reg.live
BY DEF NodesPushed, NodesInserted, NodeRemoved, KindSet, ArrayCountSet, NodeRelabelled,
       ClassRelabelled, PtrWidthSet, NodesDeleted, RegistryType

\* An edit that loses no class leaves the views and what belongs to them.
LEMMA EditHolds ==
    ASSUME ViewInv, TypeOK', views' = views, registry.live \subseteq registry'.live,
           UNCHANGED <<selected, view_status>>,
           \A e \in expand'.set \cup expand'.collapsed : e[1] < Len(views)
    PROVE  Held
<1>1. project' \in Project
  BY DEF TypeOK
<1>2. project' \in Showing
  BY <1>1 DEF ViewInv, Showing, views, registry
<1>3. CursorsFollow'
  BY DEF ViewInv, CursorsFollow
<1> QED
  BY <1>2, <1>3 DEF Held

LEMMA EditRegistryHolds ==
    ASSUME ViewInv, TypeOK', NEW reg, reg.live = registry.live, EditRegistry(reg)
    PROVE  Held
<1>1. registry' = reg /\ views' = views
  BY TypeFields DEF ViewInv, EditRegistry, Commit, registry, views
<1>2. UNCHANGED <<selected, view_status, expand>>
  BY DEF EditRegistry
<1>3. \A e \in expand'.set \cup expand'.collapsed : e[1] < Len(views)
  BY <1>2 DEF ViewInv, CursorsFollow
<1> QED
  BY <1>1, <1>2, <1>3, EditHolds

\* open_view on a project with the same views.
LEMMA OpenInHolds ==
    ASSUME ViewInv, NEW p \in Showing, p.views = views, NEW c \in p.registry.live,
           c \in Ids, OpenIn(p, c), UNCHANGED expand
    PROVE  Held
<1> DEFINE q == Opened(p, c)
<1>1. p \in Project /\ DOMAIN p.views = 1 .. Len(p.views) /\ Len(p.views) \in Nat
      /\ p.views \in Seq(Ids)
  BY DEF Showing, Project
<1>2. q \in Project /\ q.registry = p.registry /\ IsOpen(q, c)
  BY <1>1, OpenedType
<1>3. q \in Showing /\ Len(q.views) >= Len(p.views) /\ Len(q.views) \in Nat
  <2>1. CASE IsOpen(p, c)
    BY <1>1, <2>1 DEF Opened
  <2>2. CASE ~IsOpen(p, c)
    <3>1. q.views = Append(p.views, c)
      BY <1>1, <2>2 DEF Opened, Project
    <3>2. /\ Len(q.views) = Len(p.views) + 1
          /\ DOMAIN q.views = 1 .. Len(p.views) + 1
          /\ \A i \in 1 .. Len(p.views) : q.views[i] = p.views[i]
          /\ q.views[Len(p.views) + 1] = c
      BY <1>1, <3>1, AppendProperties
    <3> HIDE DEF q
    <3>3. \A i \in 1 .. Len(p.views) : p.views[i] # c
      BY <1>1, <2>2 DEF IsOpen
    <3>4. \A i \in 1 .. Len(p.views) + 1 : i \in 1 .. Len(p.views) \/ i = Len(p.views) + 1
      BY <1>1
    <3>5. \A i \in DOMAIN q.views : q.views[i] \in q.registry.live
      BY <1>1, <1>2, <3>2, <3>4 DEF Showing
    <3>6. \A i, j \in DOMAIN q.views : q.views[i] = q.views[j] => i = j
      BY <1>1, <3>2, <3>3, <3>4 DEF Showing
    <3>7. Len(q.views) >= Len(p.views) /\ Len(q.views) \in Nat
      BY <1>1, <3>2
    <3> QED
      BY <1>2, <3>5, <3>6, <3>7 DEF Showing
  <2> QED
    BY <2>1, <2>2
<1>4. ViewOf(q, c) \in Nat /\ ViewOf(q, c) < Len(q.views)
  BY <1>2, ViewOfType
<1>5. Len(Resize(view_status, Len(q.views))) = Len(q.views)
  BY <1>3, ResizeType DEF ViewInv, TypeOK, Statuses
<1>6. /\ project' = q
      /\ selected' = ViewOf(q, c)
      /\ view_status' = Resize(view_status, Len(q.views))
  BY DEF OpenIn
<1> HIDE DEF q
<1>7. views' = q.views /\ q.views # <<>>
  BY <1>3, <1>4, <1>6 DEF views
<1>8. \A e \in expand.set \cup expand.collapsed : e[1] < Len(q.views)
  <2>1. \A e \in expand.set \cup expand.collapsed : e[1] < Len(p.views) /\ e[1] \in Nat
    BY DEF ViewInv, CursorsFollow, TypeOK
  <2> QED
    BY <1>1, <1>3, <2>1
<1>9. CursorsFollow'
  BY <1>4, <1>5, <1>6, <1>7, <1>8 DEF CursorsFollow
<1> QED
  BY <1>3, <1>6, <1>9 DEF Held

\* The elements that are left when one is cut out.
LEMMA WithoutElements ==
    ASSUME NEW S, NEW s \in Seq(S), NEW idx \in Nat, idx < Len(s)
    PROVE  /\ DOMAIN Without(s, idx) = 1 .. Len(s) - 1
           /\ \A i \in 1 .. Len(s) - 1 :
                  Without(s, idx)[i] = IF i <= idx THEN s[i] ELSE s[i + 1]
<1> DEFINE a == SubSeq(s, 1, idx)
           b == SubSeq(s, idx + 2, Len(s))
           n == Len(s)
<1>1. n \in Nat /\ idx + 2 \in Int /\ idx + 2 <= n + 1
  BY LenProperties
<1>2. a \in Seq(S) /\ Len(a) = idx /\ \A i \in 1 .. idx : a[i] = s[i]
  OBVIOUS
<1>3. b \in Seq(S) /\ Len(b) = n - idx - 1 /\ \A i \in 1 .. n - idx - 1 : b[i] = s[idx + 1 + i]
  OBVIOUS
<1>4. Without(s, idx) = a \o b
  BY DEF Without
<1> HIDE DEF a, b
<1> HIDE DEF n
<1>5. /\ Len(a \o b) = n - 1
      /\ a \o b \in Seq(S)
      /\ \A i \in 1 .. Len(a) + Len(b) :
             (a \o b)[i] = IF i <= Len(a) THEN a[i] ELSE b[i - Len(a)]
  <2>1. idx + (n - idx - 1) = n - 1
    BY <1>1
  <2>2. /\ Len(a \o b) = Len(a) + Len(b)
        /\ a \o b \in Seq(S)
        /\ \A i \in 1 .. Len(a) + Len(b) :
               (a \o b)[i] = IF i <= Len(a) THEN a[i] ELSE b[i - Len(a)]
    BY <1>2, <1>3, ConcatProperties
  <2> QED
    BY <1>2, <1>3, <2>1, <2>2
<1>6. ASSUME NEW i \in 1 .. n - 1
      PROVE  (a \o b)[i] = IF i <= idx THEN s[i] ELSE s[i + 1]
  <2>1. i \in 1 .. Len(a) + Len(b)
    BY <1>1, <1>2, <1>3
  <2>2. CASE i <= idx
    BY <1>2, <1>5, <2>1, <2>2
  <2>3. CASE ~(i <= idx)
    <3>1. i - idx \in 1 .. n - idx - 1 /\ idx + 1 + (i - idx) = i + 1
      BY <1>1, <2>3
    <3> QED
      BY <1>2, <1>3, <1>5, <2>1, <2>3, <3>1
  <2> QED
    BY <2>2, <2>3
<1> QED
  BY <1>4, <1>5, <1>6, LenProperties DEF n

\* A view goes, and when a class goes with it, it is the one shown there.
LEMMA DropViewHolds ==
    ASSUME ViewInv, NEW reg \in RegistryType, NEW idx \in Nat, idx < Len(views),
           \A i \in DOMAIN views : i # idx + 1 => views[i] \in reg.live,
           DropView(reg, idx), TypeOK'
    PROVE  Held
<1> DEFINE left == Len(views) - 1
           w    == Without(views, idx)
<1>1. views \in Seq(Ids) /\ Len(views) \in Nat /\ DOMAIN views = 1 .. Len(views)
      /\ left \in Nat /\ idx <= left
  BY TypeFields DEF ViewInv
<1>2. /\ w \in Seq(Ids) /\ Len(w) = left /\ DOMAIN w = 1 .. left
      /\ \A i \in 1 .. left : w[i] = IF i <= idx THEN views[i] ELSE views[i + 1]
  BY <1>1, WithoutType, WithoutElements
<1>3. project' = [registry |-> reg, views |-> w] /\ views' = w
  BY DEF DropView, views
<1>4. \A i, j \in DOMAIN views : views[i] = views[j] => i = j
  BY DEF ViewInv, Showing, views
<1> HIDE DEF w
<1>5. project' \in Showing
  <2>1. \A i \in 1 .. left : /\ i \in DOMAIN views /\ i + 1 \in DOMAIN views
                             /\ i <= idx => i # idx + 1
                             /\ ~(i <= idx) => i + 1 # idx + 1
    BY <1>1
  <2>2. \A i \in 1 .. left : w[i] \in reg.live
    BY <1>2, <2>1
  <2>3. ASSUME NEW i \in 1 .. left, NEW j \in 1 .. left, w[i] = w[j] PROVE i = j
    <3>1. (IF i <= idx THEN i ELSE i + 1) = (IF j <= idx THEN j ELSE j + 1)
      BY <1>2, <1>4, <2>1, <2>3
    <3> QED
      BY <1>1, <3>1
  <2>4. project' \in Project
    BY <1>2, <1>3 DEF Project
  <2> QED
    BY <1>2, <1>3, <2>2, <2>3, <2>4 DEF Showing
<1>6. CursorsFollow'
  <2>1. IF w = <<>> THEN selected' = 0 ELSE selected' < Len(w)
    <3>1. selected' = IF selected >= left THEN Saturating(left) ELSE selected
      BY DEF DropView
    <3> HIDE DEF left
    <3>2. selected \in Nat /\ (left = 0 <=> w = <<>>)
      BY <1>1, <1>2, EmptySeq DEF ViewInv, TypeOK
    <3> QED
      BY <1>1, <1>2, <3>1, <3>2 DEF Saturating
  <2>2. Len(view_status') = Len(w)
    <3>1. Len(view_status) = Len(views) /\ view_status \in Seq(Statuses)
      BY DEF ViewInv, CursorsFollow, TypeOK, Statuses
    <3>2. view_status' = SubSeq(view_status, 1, Smaller(left, Len(view_status)))
      BY DEF DropView
    <3> HIDE DEF left
    <3>3. Smaller(left, Len(view_status)) = left
      <4>1. Len(view_status) = left + 1 /\ left < left + 1
        BY <1>1, <3>1 DEF left
      <4> QED
        BY <4>1 DEF Smaller
    <3>4. view_status' = SubSeq(view_status, 1, left)
      BY <3>2, <3>3
    <3>5. left \in Nat /\ left <= Len(view_status)
      BY <1>1, <3>1 DEF left
    <3> QED
      BY <1>2, <3>1, <3>4, <3>5
  <2>3. ASSUME NEW S \in Marks, \A e \in S : e[1] < Len(views)
        PROVE  \A e \in Shift(S, idx) : e[1] < left
    <3>1. \A e \in S : e[1] \in Nat /\ e[1] < Len(views)
      BY <2>3 DEF Marks
    <3> QED
      BY <1>1, <3>1 DEF Shift, ButRoot
  <2>4. \A e \in expand'.set \cup expand'.collapsed : e[1] < Len(w)
    <3>1. /\ expand.set \in Marks /\ expand.collapsed \in Marks
          /\ \A e \in expand.set \cup expand.collapsed : e[1] < Len(views)
      BY DEF ViewInv, TypeOK, Marks, CursorsFollow
    <3>2. expand'.set = Shift(expand.set, idx) /\ expand'.collapsed = Shift(expand.collapsed, idx)
      BY DEF DropView, RootDropped
    <3> QED
      BY <1>2, <2>3, <3>1, <3>2
  <2> QED
    BY <1>3, <2>1, <2>2, <2>4 DEF CursorsFollow
<1> QED
  BY <1>5, <1>6 DEF Held

\* Coming to another project, the cursor is taken back into its views.
LEMMA ResyncHolds ==
    ASSUME NEW p \in Showing, NEW cursor \in Nat, project' = p, Resync(p, cursor)
    PROVE  Held
<1>1. p.views \in Seq(Ids) /\ DOMAIN p.views = 1 .. Len(p.views) /\ Len(p.views) \in Nat
  BY DEF Showing, Project
<1>2. Len(view_status') = Len(p.views)
  BY <1>1 DEF Resync
<1>3. IF p.views = <<>> THEN selected' = 0 ELSE selected' < Len(p.views)
  BY <1>1 DEF Resync, Smaller, Saturating
<1>4. expand'.set = {} /\ expand'.collapsed = {}
  BY DEF Resync, NothingExpanded
<1> QED
  BY <1>2, <1>3, <1>4 DEF Held, CursorsFollow, views

LEMMA ClassStepsHold == ViewInv /\ TypeOK' /\ ClassSteps => Held
<1> SUFFICES ASSUME ViewInv, TypeOK', ClassSteps PROVE Held
  OBVIOUS
<1>0. /\ project \in Project /\ registry \in RegistryType /\ project \in Showing
      /\ views \in Seq(Ids) /\ Len(views) \in Nat /\ DOMAIN views = 1 .. Len(views)
  BY HistoryType, TypeFields DEF ViewInv
<1>1. ASSUME NEW name \in Labels, NEW rows \in SeedRows, AddClass(name, rows) PROVE Held
  <2> DEFINE reg == NodesPushed(ClassAdded(registry, name), registry.next_id,
                                Scalars(rows, 8))
             p   == [project EXCEPT !.registry = reg]
  <2>1. rows \in Nat /\ 8 \in Nat /\ registry.next_id < MaxId
    BY <1>1, EditorAssumption DEF AddClass
  <2>2. registry.next_id \in Ids
    BY <1>0, <2>1, ClassAddedType
  <2>3. /\ reg \in RegistryType
        /\ reg.live = registry.live \cup {registry.next_id}
        /\ reg.next_id = registry.next_id + 1
        /\ Grows(registry, reg, registry.next_id, {})
        /\ \A k \in KindsOf(reg, registry.next_id) : Refless(k)
    BY <1>0, <2>1, SeededType
  <2>4. OpenIn(p, registry.next_id) /\ UNCHANGED expand
    BY <1>1 DEF AddClass
  <2> HIDE DEF reg
  <2>5. p \in Project /\ p.registry = reg /\ p.views = views
    BY <1>0, <2>3 DEF Project, views
  <2>6. p \in Showing
    BY <1>0, <2>3, <2>5 DEF Showing, views, registry
  <2> HIDE DEF p
  <2> QED
    BY <2>2, <2>3, <2>4, <2>5, <2>6, OpenInHolds
<1>2. ASSUME NEW c \in Ids, RemoveClass(c) PROVE Held
  <2> DEFINE reg == ClassRemoved(registry, c)
  <2>1. reg \in RegistryType /\ reg.live = registry.live \ {c}
    BY <1>0, ClassRemovedType
  <2> HIDE DEF reg
  <2>2. /\ \A i \in DOMAIN views : views[i] \in registry.live
        /\ \A i, j \in DOMAIN views : views[i] = views[j] => i = j
    BY <1>0 DEF Showing, views, registry
  <2>3. CASE IsOpen(project, c)
    <3> DEFINE idx == ViewOf(project, c)
    <3>1. idx \in Nat /\ idx < Len(views) /\ views[idx + 1] = c
      BY <1>0, <2>3, ViewOfType DEF views
    <3>2. DropView(reg, idx)
      BY <1>2, <2>3 DEF RemoveClass, reg
    <3> HIDE DEF idx
    <3>3. idx + 1 \in DOMAIN views
      BY <1>0, <3>1
    <3>4. \A i \in DOMAIN views : i # idx + 1 => views[i] \in reg.live
      BY <2>1, <2>2, <3>1, <3>3
    <3> QED
      BY <2>1, <3>1, <3>2, <3>4, DropViewHolds
  <2>4. CASE ~IsOpen(project, c)
    <3>1. /\ project' = [project EXCEPT !.registry = reg]
          /\ UNCHANGED <<selected, view_status, expand>>
      BY <1>2, <2>4 DEF RemoveClass, reg
    <3>2. project'.registry = reg /\ project'.views = project.views
      BY <1>0, <3>1 DEF Project
    <3>3. \A i \in DOMAIN views : views[i] # c
      BY <2>4 DEF IsOpen, views
    <3>4. project' \in Showing
      BY <2>1, <2>2, <3>2, <3>3 DEF TypeOK, Showing, views
    <3>5. CursorsFollow'
      BY <3>1, <3>2 DEF ViewInv, CursorsFollow, views
    <3> QED
      BY <3>4, <3>5 DEF Held
  <2> QED
    BY <2>3, <2>4
<1>3. ASSUME NEW owner \in Ids, NEW idx \in Index, NEW path \in Index, NEW root \in Roots,
             ExpandPointer(owner, idx, root, path)
      PROVE  Held
  <2> DEFINE target == registry.next_id
             grown  == NodesPushed(ClassAdded(registry, NoLabel), target,
                                   Scalars(AutoRows, registry.ptr))
             reg    == KindSet(grown, owner, idx, ClassPtr(target))
  <2>1. /\ AutoRows \in Nat /\ registry.ptr \in Nat /\ target < MaxId
        /\ NoLabel \in Labels
    BY <1>0, <1>3, EditorAssumption, RegistryAssumption
    DEF ExpandPointer, RegistryType, PtrWidth
  <2>2. grown \in RegistryType /\ grown.live = registry.live \cup {target}
    BY <1>0, <2>1, SeededType
  <2>3. /\ Commit(reg)
        /\ expand' \in {expand, Expanded(expand, root, path)}
        /\ UNCHANGED <<selected, view_status>>
        /\ root < Len(views)
    BY <1>3 DEF ExpandPointer
  <2> HIDE DEF grown
  <2>4. reg.live = grown.live
    BY <2>2, LiveKept
  <2> HIDE DEF reg
  <2>5. registry' = reg /\ views' = views
    BY <1>0, <2>3 DEF Commit, Project, registry, views
  <2>6. \A e \in expand'.set \cup expand'.collapsed : e[1] < Len(views)
    <3>1. expand'.set \cup expand'.collapsed
              \subseteq expand.set \cup expand.collapsed \cup {<<root, path>>}
      BY <2>3 DEF ViewInv, Expanded, TypeOK
    <3>2. \A e \in expand.set \cup expand.collapsed : e[1] < Len(views)
      BY DEF ViewInv, CursorsFollow
    <3>3. \A e \in {<<root, path>>} : e[1] < Len(views)
      BY <2>3
    <3> QED
      BY <3>1, <3>2, <3>3
  <2> QED
    BY <2>2, <2>3, <2>4, <2>5, <2>6, EditHolds
<1> QED
  BY <1>1, <1>2, <1>3 DEF ClassSteps

LEMMA ViewStepsHold == ViewInv /\ TypeOK' /\ ViewSteps => Held
<1> SUFFICES ASSUME ViewInv, TypeOK', ViewSteps PROVE Held
  OBVIOUS
<1>0. /\ project \in Showing /\ registry \in RegistryType
      /\ views \in Seq(Ids) /\ Len(views) \in Nat /\ DOMAIN views = 1 .. Len(views)
      /\ project.registry = registry /\ project.views = views
      /\ \A e \in expand.set \cup expand.collapsed : e[1] < Len(views)
  BY TypeFields DEF ViewInv, CursorsFollow, registry, views
<1>1. ASSUME NEW c \in Ids, OpenView(c) PROVE Held
  <2>1. c \in registry.live /\ OpenIn(project, c) /\ UNCHANGED expand
    BY <1>1 DEF OpenView
  <2> QED
    BY <1>0, <2>1, OpenInHolds
<1>2. ASSUME NEW idx \in Roots, CloseView(idx) PROVE Held
  <2>1. DropView(registry, idx) /\ idx < Len(views) /\ idx \in Nat
    BY <1>0, <1>2 DEF CloseView, Roots
  <2>2. \A i \in DOMAIN views : views[i] \in registry.live
    BY <1>0 DEF Showing
  <2> QED
    BY <1>0, <2>1, <2>2, DropViewHolds
<1>3. ASSUME NEW idx \in Roots, SelectView(idx) PROVE Held
  <2>1. project' = project /\ selected' = idx /\ UNCHANGED <<view_status, expand>>
        /\ idx < Len(views) /\ views # <<>>
    BY <1>0, <1>3, EmptySeq DEF SelectView, Roots
  <2> QED
    BY <1>0, <2>1 DEF Held, ViewInv, CursorsFollow, views
<1>4. ASSUME NEW x, SetExpand(x), \A e \in x.set \cup x.collapsed : e[1] < Len(views)
      PROVE  Held
  BY <1>0, <1>4 DEF SetExpand, Held, ViewInv, CursorsFollow, views
<1>5. ASSUME NEW root \in Roots, NEW i \in Index,
             ToggleExpand(root, i) \/ ToggleCollapse(root, i)
      PROVE  Held
  <2>1. root < Len(views)
    BY <1>5 DEF ToggleExpand, ToggleCollapse
  <2>2. expand \in [set : Marks, collapsed : Marks]
    BY DEF ViewInv, TypeOK, Marks
  <2>3. \A x \in {Toggled(expand, root, i), CollapseToggled(expand, root, i)} :
            \A e \in x.set \cup x.collapsed : e[1] < Len(views)
    BY <1>0, <2>1, <2>2 DEF Toggled, CollapseToggled, Flip
  <2> QED
    BY <1>4, <1>5, <2>3 DEF ToggleExpand, ToggleCollapse
<1>6. ASSUME NEW paths, selected < Len(views),
             \/ SetExpand(ExpandedOnly(expand, selected, paths))
             \/ SetExpand(CollapsedOnly(expand, selected, paths))
      PROVE  Held
  <2>1. \A x \in {ExpandedOnly(expand, selected, paths), CollapsedOnly(expand, selected, paths)} :
            \A e \in x.set \cup x.collapsed : e[1] < Len(views)
    BY <1>0, <1>6 DEF ExpandedOnly, CollapsedOnly, ButRoot
  <2> QED
    BY <1>4, <1>6, <2>1
<1>7. ExpandAll \/ CollapseAll => Held
  BY <1>6 DEF ExpandAll, CollapseAll
<1>8. CASE ComputeRows
  BY <1>0, <1>8 DEF ComputeRows, Held, ViewInv, CursorsFollow, views
<1> QED
  BY <1>1, <1>2, <1>3, <1>5, <1>7, <1>8 DEF ViewSteps

\* The edits of nodes, whoever makes them.
LEMMA NodeStepsHold ==
    ASSUME ViewInv, TypeOK',
           GuardedSteps \/ UncheckedSteps \/ PlainSteps \/ SelectionSteps \/ UnrecordedSteps
    PROVE  Held
<1>0. registry \in RegistryType /\ project \in Project
  BY TypeFields, HistoryType DEF ViewInv
<1>a. ASSUME NEW c, NEW idx, NEW ns, NEW k,
             \/ EditRegistry(NodesPushed(registry, c, ns))
             \/ EditRegistry(NodesInserted(registry, c, idx, ns))
             \/ EditRegistry(KindSet(registry, c, idx, k))
      PROVE  Held
  BY <1>0, <1>a, LiveKept, EditRegistryHolds
<1>1. GuardedSteps => Held
  BY <1>a DEF GuardedSteps, AddNode, AddArray, ChangeKind
<1>2. UncheckedSteps => Held
  BY <1>a DEF UncheckedSteps, PushNode, InsertAfter
<1>b. ASSUME NEW c, NEW idx, NEW x,
             \/ EditRegistry(NodeRemoved(registry, c, idx))
             \/ EditRegistry(ArrayCountSet(registry, c, idx, x))
             \/ EditRegistry(NodeRelabelled(registry, c, idx, x))
             \/ EditRegistry(ClassRelabelled(registry, c, x))
      PROVE  Held
  BY <1>0, <1>b, LiveKept, EditRegistryHolds
<1>3. PlainSteps => Held
  BY <1>a, <1>b
  DEF PlainSteps, AddBytes, DeleteNode, SetArrayCount, RelabelNode, RelabelClass
<1>4. ASSUME NEW reg, reg.live = registry.live, project' = [project EXCEPT !.registry = reg],
             UNCHANGED <<selected, view_status, expand>>
      PROVE  Held
  <2>1. registry' = reg /\ views' = views
    BY <1>0, <1>4 DEF Project, registry, views
  <2>2. \A e \in expand'.set \cup expand'.collapsed : e[1] < Len(views)
    BY <1>4 DEF ViewInv, CursorsFollow
  <2> QED
    BY <1>4, <2>1, <2>2, EditHolds
<1>5. UnrecordedSteps => Held
  <2>1. ASSUME NEW c, NEW idx, NEW k, McpInsertNode(c, idx, k) PROVE Held
    BY <1>0, <1>4, <2>1, LiveKept DEF McpInsertNode
  <2>2. ASSUME NEW ptr, SetPtrWidth(ptr) PROVE Held
    <3>1. project' = [project EXCEPT !.registry = PtrWidthSet(registry, ptr)]
          /\ UNCHANGED <<selected, view_status, expand>>
      BY <2>2 DEF SetPtrWidth, registry
    <3> QED
      BY <1>0, <1>4, <3>1, LiveKept
  <2> QED
    BY <2>1, <2>2 DEF UnrecordedSteps
<1>6. ASSUME NEW targets, CopyNodes(targets) PROVE Held
  <2>1. UNCHANGED <<project, selected, view_status, expand>>
    BY <1>6 DEF CopyNodes
  <2> QED
    BY <2>1 DEF ViewInv, Held, CursorsFollow, views
<1>7. SelectionSteps => Held
  <2>1. ASSUME NEW c, NEW pos, PasteNodes(c, pos) PROVE Held
    <3>1. \/ EditRegistry(NodesPushed(registry, c, clipboard))
          \/ EditRegistry(NodesInserted(registry, c, pos, clipboard))
      BY <2>1 DEF PasteNodes
    <3> QED
      BY <1>0, <3>1, LiveKept, EditRegistryHolds
  <2> QED
    BY <1>0, <1>6, <2>1, LiveKept, EditRegistryHolds DEF SelectionSteps, DeleteMany
<1> QED
  BY <1>1, <1>2, <1>3, <1>5, <1>7

\* Import, load, undo and redo.
LEMMA ProjectStepsHold ==
    ASSUME ViewInv, TypeOK', ProjectSteps, LoadableFiles \subseteq Showing
    PROVE  Held /\ history' \in HistoryOf(Showing)
<1> DEFINE Goal == Held /\ history' \in HistoryOf(Showing)
<1>0. /\ project \in Showing /\ history \in HistoryOf(Showing) /\ selected \in Nat
      /\ Showing \in SUBSET Project /\ CountNodes(project) \in Nat
  BY HistoryType, ProjectCount DEF ViewInv, TypeOK, Showing
<1>1. ASSUME NEW reg \in Imports, ImportRcnet(reg) PROVE Goal
  <2> DEFINE p == [registry |-> reg,
                   views    |-> IF reg.live = {} THEN <<>> ELSE <<Biggest(reg)>>]
  <2>1. p \in Project /\ reg \in RegistryType
    BY ImportType, FilesAssumption
  <2>2. p \in Showing
    <3>1. CASE reg.live = {}
      BY <2>1, <3>1 DEF Showing
    <3>2. CASE reg.live # {}
      BY <2>1, <3>2, BiggestType DEF Showing
    <3> QED
      BY <3>1, <3>2
  <2>3. project' = p /\ Resync(p, 0) /\ history' = Push(history, project)
    BY <1>1 DEF ImportRcnet
  <2> HIDE DEF p
  <2>4. history' \in HistoryOf(Showing)
    BY <1>0, <2>3, PushType
  <2> QED
    BY <2>2, <2>3, <2>4, ResyncHolds
<1>2. ASSUME NEW file \in Files, Load(file) PROVE Goal
  <2>1. file \in Showing /\ project' = file /\ history' = EmptyHistory
    BY <1>2 DEF Load
  <2>2. /\ file.views \in Seq(Ids) /\ DOMAIN file.views = 1 .. Len(file.views)
        /\ Len(file.views) \in Nat
    BY <1>0, <2>1 DEF Project
  <2>3. selected' = 0 /\ Len(view_status') = Len(file.views)
        /\ expand'.set = {} /\ expand'.collapsed = {}
    BY <1>2, <2>2 DEF Load, NothingExpanded
  <2>4. file.views # <<>> => 0 < Len(file.views)
    BY <2>2, EmptySeq
  <2>5. CursorsFollow'
    BY <2>1, <2>3, <2>4 DEF CursorsFollow, views
  <2> QED
    BY <2>1, <2>5, EmptyHistoryProperties DEF Held
<1>3. CASE Undo
  <2>1. UndoTarget(history) \in Showing /\ Undone(history, project) \in HistoryOf(Showing)
    BY <1>0, <1>3, UndoneProperties DEF Undo
  <2>2. /\ project' = UndoTarget(history) /\ history' = Undone(history, project)
        /\ Resync(UndoTarget(history), selected)
    BY <1>3 DEF Undo
  <2> QED
    BY <1>0, <2>1, <2>2, ResyncHolds
<1>4. CASE Redo
  <2>1. RedoTarget(history) \in Showing /\ Redone(history, project) \in HistoryOf(Showing)
    BY <1>0, <1>4, RedoneProperties DEF Redo
  <2>2. /\ project' = RedoTarget(history) /\ history' = Redone(history, project)
        /\ Resync(RedoTarget(history), selected)
    BY <1>4 DEF Redo
  <2> QED
    BY <1>0, <2>1, <2>2, ResyncHolds
<1> QED
  BY <1>1, <1>2, <1>3, <1>4 DEF ProjectSteps

\* Of every step, an undo point and what undo comes back to included.
LEMMA ViewInvariance ==
    ASSUME LoadableFiles \subseteq Showing
    PROVE  Spec => []ViewInv
<1>1. Init => ViewInv
  <2> SUFFICES ASSUME Init PROVE ViewInv
    OBVIOUS
  <2>1. TypeOK
    BY InitType
  <2>2. project \in Showing
    <3>1. ASSUME project = EmptyProject PROVE project \in Showing
      BY <2>1, <3>1 DEF TypeOK, Showing, EmptyProject
    <3> QED
      BY <3>1 DEF Init, Starts
  <2>3. /\ views \in Seq(Ids) /\ DOMAIN views = 1 .. Len(views) /\ Len(views) \in Nat
    BY <2>1, TypeFields
  <2>4. views # <<>> => 0 < Len(views)
    BY <2>3, EmptySeq
  <2>5. CursorsFollow
    BY <2>3, <2>4 DEF Init, CursorsFollow, NothingExpanded
  <2> QED
    BY <2>1, <2>2, <2>5, EmptyHistoryProperties DEF Init, ViewInv
<1>2. ViewInv /\ [Next]_vars => ViewInv'
  <2> SUFFICES ASSUME ViewInv, [Next]_vars PROVE ViewInv'
    OBVIOUS
  <2>1. TypeOK'
    BY StepEdits DEF ViewInv
  <2>2. CASE UNCHANGED vars
    BY <2>1, <2>2 DEF vars, ViewInv, CursorsFollow, views
  <2>3. CASE ProjectSteps
    BY <2>1, <2>3, ProjectStepsHold DEF ViewInv, Held
  <2>4. CASE Next /\ ~ProjectSteps
    <3>1. Held
      BY <2>1, <2>4, ClassStepsHold, ViewStepsHold, NodeStepsHold DEF Next
    <3>2. history' \in HistoryOf(Showing)
      <4>1. Showing \in SUBSET Project /\ project \in Showing /\ history \in HistoryOf(Showing)
        BY DEF Showing, ViewInv
      <4>2. Recorded
        BY <2>4, StepRecords
      <4> QED
        BY <4>1, <4>2, PushType DEF Recorded
    <3> QED
      BY <2>1, <3>1, <3>2 DEF ViewInv, Held
  <2> QED
    BY <2>2, <2>3, <2>4
<1> QED
  BY <1>1, <1>2, PTL DEF Spec

\* In a session of any length each view shows a class there is, no class twice,
\* in the project and in all that undo and redo bring back; and the cursor, the
\* statuses and the expansions are positions in the list of views.
THEOREM ViewsFollowed ==
    ASSUME LoadableFiles \subseteq Showing
    PROVE  Spec => []ViewsHold
<1>1. ViewInv => ViewsHold
  <2> SUFFICES ASSUME ViewInv PROVE ViewsResolve
    BY DEF ViewInv, ViewsHold
  <2>1. ASSUME NEW s \in Seq(Saves(Showing)), NEW i \in DOMAIN s
        PROVE  s[i].project \in Showing
    <3>1. s[i] \in Saves(Showing)
      OBVIOUS
    <3> QED
      BY <3>1 DEF Saves
  <2>2. history.undo \in Seq(Saves(Showing)) /\ history.redo \in Seq(Saves(Showing))
    BY DEF ViewInv, HistoryOf
  <2>3. \A p \in Reachable : p \in Showing
    BY <2>1, <2>2 DEF Reachable, Undoable, Redoable, ViewInv
  <2> QED
    BY <2>3 DEF ViewsResolve, Showing
<1> QED
  BY <1>1, ViewInvariance, PTL

-----------------------------------------------------------------------------
(* Closing.                                                                *)

\* What is expanded under the views that are left, by the class it is under.
LEMMA ShiftShows ==
    ASSUME ViewInv, NEW idx \in Nat, idx < Len(views), views' = Without(views, idx),
           NEW S \in Marks, \A e \in S : e[1] < Len(views)
    PROVE  {<<views'[e[1] + 1], e[2]>> : e \in Shift(S, idx)}
             = {e \in Shown(S) : IsOpen(project', e[1])}
<1> DEFINE w == Without(views, idx)
           n == Len(views)
           Left  == {<<w[e[1] + 1], e[2]>> : e \in Shift(S, idx)}
           Right == {e \in Shown(S) : IsOpen(project', e[1])}
<1>1. /\ n \in Nat /\ DOMAIN views = 1 .. n /\ views \in Seq(Ids)
      /\ \A i, j \in 1 .. n : views[i] = views[j] => i = j
  BY TypeFields DEF ViewInv, Showing, views
<1>2. /\ DOMAIN w = 1 .. n - 1
      /\ \A i \in 1 .. n - 1 : w[i] = IF i <= idx THEN views[i] ELSE views[i + 1]
  BY <1>1, WithoutElements
<1>3. \A c : IsOpen(project', c) <=> \E i \in 1 .. n - 1 : w[i] = c
  BY <1>2 DEF IsOpen, views
<1>4. \A e \in S : e[1] \in Nat /\ e[1] < n /\ e = <<e[1], e[2]>>
  BY DEF Marks
<1>5. idx < n
  OBVIOUS
<1> HIDE DEF w, n
<1>6. ASSUME NEW e \in S, e[1] # idx
      PROVE  LET k == IF e[1] > idx THEN e[1] - 1 ELSE e[1]
             IN  k + 1 \in 1 .. n - 1 /\ w[k + 1] = views[e[1] + 1]
  <2>1. CASE e[1] > idx
    <3>1. e[1] - 1 + 1 \in 1 .. n - 1 /\ ~(e[1] - 1 + 1 <= idx) /\ e[1] - 1 + 1 = e[1]
      BY <1>1, <1>4, <1>5, <2>1
    <3> QED
      BY <1>2, <2>1, <3>1
  <2>2. CASE ~(e[1] > idx)
    <3>1. e[1] + 1 \in 1 .. n - 1 /\ e[1] + 1 <= idx
      BY <1>1, <1>4, <1>5, <1>6, <2>2
    <3> QED
      BY <1>2, <2>2, <3>1
  <2> QED
    BY <2>1, <2>2
<1>7. Left \subseteq Right
  <2> SUFFICES ASSUME NEW e \in S, e[1] # idx
               PROVE  <<w[(IF e[1] > idx THEN e[1] - 1 ELSE e[1]) + 1], e[2]>> \in Right
    BY DEF Shift, ButRoot
  <2> DEFINE k == IF e[1] > idx THEN e[1] - 1 ELSE e[1]
  <2>1. k + 1 \in 1 .. n - 1 /\ w[k + 1] = views[e[1] + 1]
    BY <1>6
  <2> HIDE DEF k
  <2>2. IsOpen(project', views[e[1] + 1])
    BY <1>3, <2>1
  <2>3. <<views[e[1] + 1], e[2]>> \in Right
    BY <2>2 DEF Shown
  <2>4. <<w[k + 1], e[2]>> \in Right
    BY <2>1, <2>3
  <2> QED
    BY <2>4 DEF k
<1>8. Right \subseteq Left
  <2> SUFFICES ASSUME NEW e \in S, IsOpen(project', views[e[1] + 1])
               PROVE  <<views[e[1] + 1], e[2]>> \in Left
    BY DEF Shown
  <2>1. PICK i \in 1 .. n - 1 : w[i] = views[e[1] + 1]
    BY <1>3
  <2>2. e[1] # idx
    <3>1. e[1] + 1 \in 1 .. n /\ i \in 1 .. n /\ i + 1 \in 1 .. n
      BY <1>1, <1>4
    <3>2. (IF i <= idx THEN i ELSE i + 1) = e[1] + 1
      BY <1>1, <1>2, <2>1, <3>1
    <3> QED
      BY <1>4, <3>1, <3>2
  <2> DEFINE k == IF e[1] > idx THEN e[1] - 1 ELSE e[1]
  <2>3. w[k + 1] = views[e[1] + 1]
    BY <1>6, <2>2
  <2>4. <<k, e[2]>> \in Shift(S, idx)
    BY <2>2 DEF Shift, ButRoot
  <2> HIDE DEF k
  <2>5. <<w[<<k, e[2]>>[1] + 1], <<k, e[2]>>[2]>> \in Left
    BY <2>4
  <2> QED
    BY <2>3, <2>5
<1>9. Left = Right
  BY <1>7, <1>8
<1> QED
  BY <1>9 DEF w

LEMMA DropViewShows ==
    ASSUME ViewInv, NEW reg, NEW idx \in Nat, idx < Len(views), DropView(reg, idx)
    PROVE  /\ Shown(expand.set)' = {e \in Shown(expand.set) : IsOpen(project', e[1])}
           /\ Shown(expand.collapsed)' =
                  {e \in Shown(expand.collapsed) : IsOpen(project', e[1])}
<1>1. views' = Without(views, idx)
  BY DEF DropView, views
<1>2. /\ expand.set \in Marks /\ expand.collapsed \in Marks
      /\ \A e \in expand.set : e[1] < Len(views)
      /\ \A e \in expand.collapsed : e[1] < Len(views)
  BY DEF ViewInv, TypeOK, Marks, CursorsFollow
<1>3. expand'.set = Shift(expand.set, idx) /\ expand'.collapsed = Shift(expand.collapsed, idx)
  BY DEF DropView, RootDropped
<1>4. /\ {<<views'[e[1] + 1], e[2]>> : e \in Shift(expand.set, idx)}
            = {e \in Shown(expand.set) : IsOpen(project', e[1])}
      /\ {<<views'[e[1] + 1], e[2]>> : e \in Shift(expand.collapsed, idx)}
            = {e \in Shown(expand.collapsed) : IsOpen(project', e[1])}
  BY <1>1, <1>2, ShiftShows
<1>5. /\ Shown(expand.set)' = {<<views'[e[1] + 1], e[2]>> : e \in expand'.set}
      /\ Shown(expand.collapsed)' = {<<views'[e[1] + 1], e[2]>> : e \in expand'.collapsed}
  BY DEF Shown
<1> QED
  BY <1>3, <1>4, <1>5

\* Closing a view, or removing its class, leaves all other views folded and
\* unfolded as they were.
THEOREM ExpansionKept ==
    ASSUME LoadableFiles \subseteq Showing
    PROVE  Spec => ClosingKeepsExpansion
<1> DEFINE Closing == (\E idx \in Roots : CloseView(idx)) \/ (\E c \in Ids : RemoveClass(c))
           Keeps == /\ Shown(expand.set)' = {e \in Shown(expand.set) : IsOpen(project', e[1])}
                    /\ Shown(expand.collapsed)' =
                           {e \in Shown(expand.collapsed) : IsOpen(project', e[1])}
<1>1. ViewInv /\ Closing => Keeps
  <2> SUFFICES ASSUME ViewInv, Closing PROVE Keeps
    OBVIOUS
  <2>0. /\ Len(views) \in Nat /\ DOMAIN views = 1 .. Len(views) /\ project \in Project
        /\ registry \in RegistryType
    BY TypeFields, HistoryType DEF ViewInv
  <2>1. ASSUME NEW idx \in Roots, CloseView(idx) PROVE Keeps
    <3>1. idx \in Nat /\ idx < Len(views) /\ DropView(registry, idx)
      BY <2>0, <2>1 DEF CloseView, Roots
    <3> QED
      BY <3>1, DropViewShows
  <2>2. ASSUME NEW c \in Ids, RemoveClass(c), IsOpen(project, c) PROVE Keeps
    <3>1. DropView(ClassRemoved(registry, c), ViewOf(project, c))
      BY <2>2 DEF RemoveClass
    <3>2. ViewOf(project, c) \in Nat /\ ViewOf(project, c) < Len(views)
      BY <2>0, <2>2, ViewOfType DEF views
    <3> QED
      BY <3>1, <3>2, DropViewShows
  <2>3. ASSUME NEW c \in Ids, RemoveClass(c), ~IsOpen(project, c) PROVE Keeps
    <3>1. project' = [project EXCEPT !.registry = ClassRemoved(registry, c)] /\ expand' = expand
      BY <2>3 DEF RemoveClass
    <3>2. project'.views = views /\ views' = views
      BY <2>0, <3>1 DEF Project, views
    <3>3. \A e \in expand.set \cup expand.collapsed : e[1] + 1 \in DOMAIN views
      BY <2>0 DEF ViewInv, TypeOK, CursorsFollow
    <3>4. \A e \in expand.set \cup expand.collapsed : IsOpen(project', views[e[1] + 1])
      BY <3>2, <3>3 DEF IsOpen
    <3>5. /\ Shown(expand.set)' = Shown(expand.set)
          /\ Shown(expand.collapsed)' = Shown(expand.collapsed)
      BY <3>1, <3>2 DEF Shown
    <3>6. \A x \in Shown(expand.set) \cup Shown(expand.collapsed) : IsOpen(project', x[1])
      BY <3>4 DEF Shown
    <3> QED
      BY <3>5, <3>6
  <2> QED
    BY <2>1, <2>2, <2>3
<1>2. ViewInv => [Closing => Keeps]_vars
  BY <1>1
<1> QED
  BY <1>2, ViewInvariance, PTL DEF ClosingKeepsExpansion

-----------------------------------------------------------------------------
(* The line of documents.                                                  *)

\* The stacks around a project, as Timeline sees them.
Line(u, p, r) == Documents(u) \o <<p>> \o Reverse(Documents(r))

Stack == Seq(Saves(Project))

\* Where the documents of the undo stack, the project and those of the redo
\* stack are in the line.
LEMMA LineElements ==
    ASSUME NEW u \in Stack, NEW p \in Project, NEW r \in Stack
    PROVE  /\ Len(u) \in Nat /\ Len(r) \in Nat
           /\ Line(u, p, r) \in Seq(Project)
           /\ Len(Line(u, p, r)) = Len(u) + 1 + Len(r)
           /\ DOMAIN Line(u, p, r) = 1 .. Len(u) + 1 + Len(r)
           /\ \A i \in 1 .. Len(u) : Line(u, p, r)[i] = u[i].project
           /\ Line(u, p, r)[Len(u) + 1] = p
           /\ \A j \in Len(u) + 2 .. Len(u) + 1 + Len(r) :
                  Line(u, p, r)[j] = r[Len(u) + Len(r) + 2 - j].project
<1> DEFINE n == Len(u)
           m == Len(r)
           a == Documents(u)
           b == Reverse(Documents(r))
<1>1. n \in Nat /\ m \in Nat /\ DOMAIN u = 1 .. n /\ DOMAIN r = 1 .. m
  BY DEF Stack
<1>2. /\ \A i \in 1 .. n : u[i] \in Saves(Project)
      /\ \A i \in 1 .. m : r[i] \in Saves(Project)
  BY <1>1, ElementOfSeq DEF Stack
<1>3. a = [i \in 1 .. n |-> u[i].project] /\ Documents(r) = [i \in 1 .. m |-> r[i].project]
  BY <1>1 DEF Documents
<1>4. a \in Seq(Project) /\ Len(a) = n /\ \A i \in 1 .. n : a[i] = u[i].project
  <2>1. a \in [1 .. n -> Project]
    BY <1>2, <1>3 DEF Saves
  <2> QED
    BY <1>1, <1>3, <2>1
<1>5. Documents(r) \in Seq(Project) /\ Len(Documents(r)) = m
  <2>1. Documents(r) \in [1 .. m -> Project]
    BY <1>2, <1>3 DEF Saves
  <2> QED
    BY <1>1, <1>3, <2>1
<1>6. b = [i \in 1 .. m |-> Documents(r)[m - i + 1]]
  BY <1>5 DEF Reverse
<1> HIDE DEF n, m, a
<1>7. \A i \in 1 .. m : m - i + 1 \in 1 .. m /\ m - i + 1 = m + 1 - i
  BY <1>1
<1>8. \A i \in 1 .. m : b[i] = r[m + 1 - i].project /\ b[i] \in Project
  <2> SUFFICES ASSUME NEW i \in 1 .. m
               PROVE  b[i] = r[m + 1 - i].project /\ b[i] \in Project
    OBVIOUS
  <2>1. b[i] = Documents(r)[m - i + 1]
    BY <1>6
  <2>2. Documents(r)[m - i + 1] = r[m - i + 1].project
    BY <1>3, <1>7
  <2>3. r[m - i + 1].project \in Project
    BY <1>2, <1>7 DEF Saves
  <2> QED
    BY <1>7, <2>1, <2>2, <2>3
<1>9. b \in Seq(Project) /\ Len(b) = m
  <2>1. b \in [1 .. m -> Project]
    BY <1>6, <1>8
  <2> HIDE DEF b
  <2> QED
    BY <1>1, <2>1
<1> HIDE DEF b
<1>10. /\ a \o <<p>> \in Seq(Project) /\ Len(a \o <<p>>) = n + 1
       /\ \A i \in 1 .. n : (a \o <<p>>)[i] = a[i]
       /\ (a \o <<p>>)[n + 1] = p
  BY <1>1, <1>4
<1> DEFINE c == a \o <<p>>
<1> HIDE DEF c
<1>11. /\ c \in Seq(Project) /\ Len(c) = n + 1
       /\ \A i \in 1 .. n : c[i] = a[i]
       /\ c[n + 1] = p
  BY <1>10 DEF c
<1> DEFINE l == c \o b
<1>12. /\ l \in Seq(Project)
       /\ Len(l) = Len(c) + Len(b)
       /\ \A i \in 1 .. Len(c) + Len(b) :
              l[i] = IF i <= Len(c) THEN c[i] ELSE b[i - Len(c)]
  BY <1>9, <1>11, ConcatProperties
<1> HIDE DEF l
<1>13. Line(u, p, r) = l
  BY DEF Line, a, b, c, l
<1>14. \A i \in 1 .. n + 1 : i \in 1 .. Len(c) + Len(b) /\ i <= Len(c)
  BY <1>1, <1>9, <1>11
<1>16. \A i \in 1 .. n : i \in 1 .. n + 1
  BY <1>1
<1>17. n + 1 \in 1 .. n + 1
  BY <1>1
<1>18. \A i \in 1 .. n : l[i] = u[i].project
  BY <1>4, <1>11, <1>12, <1>14, <1>16
<1>19. l[n + 1] = p
  BY <1>11, <1>12, <1>14, <1>17
<1>20. ASSUME NEW j \in n + 2 .. n + 1 + m PROVE l[j] = r[n + m + 2 - j].project
  <2>1. /\ j \in 1 .. Len(c) + Len(b) /\ ~(j <= Len(c))
        /\ j - Len(c) \in 1 .. m /\ m + 1 - (j - Len(c)) = n + m + 2 - j
    BY <1>1, <1>9, <1>11
  <2>2. l[j] = b[j - Len(c)]
    BY <1>12, <2>1
  <2>3. b[j - Len(c)] = r[m + 1 - (j - Len(c))].project
    BY <1>8, <2>1
  <2> QED
    BY <2>1, <2>2, <2>3
<1>21. Len(l) = n + 1 + m /\ DOMAIN l = 1 .. n + 1 + m
  BY <1>9, <1>11, <1>12, LenProperties
<1> QED
  BY <1>1, <1>12, <1>13, <1>18, <1>19, <1>20, <1>21 DEF n, m

\* The line before a step of Editor and after it.
Now == Line(history.undo, project, history.redo)
Then == Line(history'.undo, project', history'.redo)

LEMMA LineTypes ==
    ASSUME TypeOK
    PROVE  /\ history.undo \in Stack /\ history.redo \in Stack /\ project \in Project
           /\ Len(history.undo) \in Nat /\ Len(history.redo) \in Nat
BY LenProperties DEF TypeOK, Saves, Saved, Stack

LEMMA LineTypesAfter ==
    ASSUME TypeOK'
    PROVE  /\ history'.undo \in Stack /\ history'.redo \in Stack /\ project' \in Project
           /\ Len(history'.undo) \in Nat /\ Len(history'.redo) \in Nat
BY LenProperties DEF TypeOK, Saves, Saved, Stack

\* A snapshot is the document that was left, behind those that are kept.
LEMMA PushLine ==
    ASSUME TypeOK, history' = Push(history, project)
    PROVE  \E d \in 0 .. Len(history.undo) :
               /\ Len(history'.undo) = Len(history.undo) + 1 - d
               /\ history'.redo = <<>>
               /\ \A i \in 1 .. Len(history.undo) + 1 - d :
                      history'.undo[i].project =
                          IF d + i <= Len(history.undo) THEN history.undo[d + i].project
                          ELSE project
<1> DEFINE u == history.undo
           n == Len(u)
           grown == Append(u, Snapshot(project))
           nodes == history.nodes + CountNodes(project)
           d == Least(Surplus(grown, nodes))
           kept == SubSeq(grown, d + 1, Len(grown))
<1>1. u \in Stack /\ n \in Nat /\ CountNodes(project) \in Nat /\ project \in Project
  BY LineTypes, HistoryType, ProjectCount
<1>2. Snapshot(project) \in Saves(Project) /\ Snapshot(project).project = project
  BY <1>1 DEF Snapshot, Saves
<1>3. /\ grown \in Stack /\ Len(grown) = n + 1
      /\ \A i \in 1 .. n : grown[i] = u[i]
      /\ grown[n + 1] = Snapshot(project)
  BY <1>1, <1>2, AppendProperties DEF Stack
<1>4. history' = [undo |-> kept, redo |-> <<>>,
                  nodes |-> nodes - Weight(SubSeq(grown, 1, d))]
  BY DEF Push
<1> HIDE DEF grown, nodes
<1>5. d \in Surplus(grown, nodes)
  BY <1>1, <1>3, LeastSurplus
<1> HIDE DEF d, n
<1>6. d \in 0 .. n
  BY <1>1, <1>3, <1>5 DEF Surplus
<1>7. /\ Len(kept) = n + 1 - d
      /\ \A i \in 1 .. n + 1 - d : kept[i] = grown[d + i]
  <2>1. d + 1 \in Int /\ n + 1 \in Int /\ d + 1 <= n + 1 /\ n + 1 - (d + 1) + 1 = n + 1 - d
    BY <1>1, <1>6
  <2>2. \A i \in d + 1 .. n + 1 : grown[i] \in Saves(Project)
    BY <1>1, <1>3, <1>6, ElementOfSeq DEF Stack
  <2>6. grown \in Seq(Saves(Project))
    BY <1>3 DEF Stack
  <2>3. kept = SubSeq(grown, d + 1, n + 1)
    BY <1>3
  <2>4. /\ SubSeq(grown, d + 1, n + 1) \in Seq(Saves(Project))
        /\ Len(SubSeq(grown, d + 1, n + 1)) = n + 1 - (d + 1) + 1
        /\ \A i \in 1 .. n + 1 - (d + 1) + 1 :
               SubSeq(grown, d + 1, n + 1)[i] = grown[d + 1 + i - 1]
    BY <1>1, <1>6, <2>1, <2>2, SubSeqProperties
  <2>5. \A i \in 1 .. n + 1 - d : d + 1 + i - 1 = d + i
    BY <1>1, <1>6
  <2> QED
    BY <2>1, <2>3, <2>4, <2>5
<1> HIDE DEF kept, u
<1>8. ASSUME NEW i \in 1 .. n + 1 - d
      PROVE  kept[i].project = IF d + i <= n THEN u[d + i].project ELSE project
  <2>1. d + i \in 1 .. n \/ (d + i = n + 1 /\ ~(d + i <= n))
    BY <1>1, <1>6
  <2>2. d + i \in 1 .. n => d + i <= n
    BY <1>1, <1>6
  <2> QED
    BY <1>2, <1>3, <1>7, <2>1, <2>2
<1> QED
  BY <1>4, <1>6, <1>7, <1>8 DEF n, u

\* An edit cuts what is ahead, and adds a document behind the one it started from.
LEMMA PushIsEdit ==
    ASSUME TypeOK, TypeOK', history' = Push(history, project)
    PROVE  TL!Edit
<1> DEFINE n == Len(history.undo)
           m == Len(history.redo)
           k == Len(history'.undo)
<1>1. PICK d \in 0 .. n :
          /\ k = n + 1 - d
          /\ history'.redo = <<>>
          /\ \A i \in 1 .. n + 1 - d :
                 history'.undo[i].project =
                     IF d + i <= n THEN history.undo[d + i].project ELSE project
  BY PushLine
<1>2. /\ n \in Nat /\ m \in Nat
      /\ Now \in Seq(Project) /\ Len(Now) = n + 1 + m
      /\ \A i \in 1 .. n : Now[i] = history.undo[i].project
      /\ Now[n + 1] = project
  BY LineTypes, LineElements DEF Now
<1>3. /\ history'.undo \in Stack /\ history'.redo \in Stack /\ project' \in Project
  BY LineTypesAfter
<1>4. /\ Then \in Seq(Project) /\ Len(Then) = k + 1
      /\ \A i \in 1 .. k : Then[i] = history'.undo[i].project
  <2>1. Len(history'.redo) = 0 /\ k \in Nat /\ k + 1 + 0 = k + 1
    BY <1>1, <1>2
  <2> DEFINE v == history'.undo
             q == project'
             r == history'.redo
  <2>2. v \in Stack /\ q \in Project /\ r \in Stack
    BY <1>3
  <2>3. Then = Line(v, q, r)
    BY DEF Then
  <2> HIDE DEF v, q, r
  <2>4. /\ Line(v, q, r) \in Seq(Project) /\ Len(Line(v, q, r)) = Len(v) + 1 + Len(r)
        /\ \A i \in 1 .. Len(v) : Line(v, q, r)[i] = v[i].project
    BY <2>2, LineElements
  <2> QED
    BY <2>1, <2>3, <2>4 DEF k, v, r
<1> HIDE DEF n, m, k
<1>5. /\ SubSeq(Then, 1, k) \in Seq(Project) /\ Len(SubSeq(Then, 1, k)) = k
      /\ \A i \in 1 .. k : SubSeq(Then, 1, k)[i] = Then[i]
  BY <1>1, <1>2, <1>4
<1>6. /\ SubSeq(Now, d + 1, n + 1) \in Seq(Project) /\ Len(SubSeq(Now, d + 1, n + 1)) = k
      /\ \A i \in 1 .. k : SubSeq(Now, d + 1, n + 1)[i] = Now[d + i]
  BY <1>1, <1>2
<1>7. ASSUME NEW i \in 1 .. k PROVE Then[i] = Now[d + i]
  <2>1. d + i \in 1 .. n \/ (d + i = n + 1 /\ ~(d + i <= n))
    BY <1>1, <1>2
  <2>2. d + i \in 1 .. n => d + i <= n
    BY <1>1, <1>2
  <2>3. Then[i] = IF d + i <= n THEN history.undo[d + i].project ELSE project
    BY <1>1, <1>4
  <2> QED
    BY <1>2, <2>1, <2>2, <2>3
<1>8. SubSeq(Then, 1, k) = SubSeq(Now, d + 1, n + 1)
  BY <1>5, <1>6, <1>7, SeqEqual
<1>9. k + 1 - 1 = k /\ n + 1 - 1 = n /\ k + 1 = n + 1 - d + 1
  BY <1>1, <1>2
<1> QED
  <2>1. n + 1 - d + 1 = k + 1 /\ d \in 0 .. n + 1 - 1
    BY <1>1, <1>9
  <2>2. SubSeq(Then, 1, k + 1 - 1) = SubSeq(Now, d + 1, n + 1)
    BY <1>8, <1>9
  <2>3. Len(Then) = k + 1
    BY <1>4
  <2>4. (Documents(history.undo) \o <<project>> \o Reverse(Documents(history.redo)))' = Then
    BY DEF Then, Line
  <2>5. Documents(history.undo) \o <<project>> \o Reverse(Documents(history.redo)) = Now
    BY DEF Now, Line
  <2>6. (Len(history.undo) + 1)' = k + 1 /\ Len(history.undo) = n
    BY DEF k, n
  <2>7. d \in 0 .. (Len(history.undo) + 1) - 1
    BY <2>1, <2>6
  <2>8. (Len(history.undo) + 1)' = (Len(history.undo) + 1) - d + 1
    BY <2>1, <2>6
  <2>9. Len((Documents(history.undo) \o <<project>> \o Reverse(Documents(history.redo)))')
          = (Len(history.undo) + 1)'
    BY <2>3, <2>4, <2>6
  <2>10. SubSeq((Documents(history.undo) \o <<project>> \o Reverse(Documents(history.redo)))',
                1, (Len(history.undo) + 1)' - 1)
           = SubSeq(Documents(history.undo) \o <<project>> \o Reverse(Documents(history.redo)),
                    d + 1, Len(history.undo) + 1)
    <3>1. Len(history.undo)' = k /\ k \in Nat
      BY <1>1, <1>2 DEF k
    <3>2. (Len(history.undo) + 1)' - 1 = k + 1 - 1
      BY <3>1
    <3> QED
      BY <3>2, <2>2, <2>4, <2>5, <2>6, Zenon
  <2> QED
    BY <2>7, <2>8, <2>9, <2>10 DEF TL!Edit

\* Where the documents are, before a step and after it.
LEMMA NowElements ==
    ASSUME TypeOK
    PROVE  LET n == Len(history.undo)
               m == Len(history.redo)
           IN  /\ n \in Nat /\ m \in Nat
               /\ Now \in Seq(Project)
               /\ Len(Now) = n + 1 + m
               /\ DOMAIN Now = 1 .. n + 1 + m
               /\ \A i \in 1 .. n : Now[i] = history.undo[i].project
               /\ Now[n + 1] = project
               /\ \A j \in n + 2 .. n + 1 + m : Now[j] = history.redo[n + m + 2 - j].project
<1> DEFINE u == history.undo
           p == project
           r == history.redo
<1>1. u \in Stack /\ p \in Project /\ r \in Stack
  BY LineTypes
<1>2. Now = Line(u, p, r)
  BY DEF Now
<1> HIDE DEF u, p, r
<1>3. /\ Len(u) \in Nat /\ Len(r) \in Nat
      /\ Line(u, p, r) \in Seq(Project)
      /\ Len(Line(u, p, r)) = Len(u) + 1 + Len(r)
      /\ DOMAIN Line(u, p, r) = 1 .. Len(u) + 1 + Len(r)
      /\ \A i \in 1 .. Len(u) : Line(u, p, r)[i] = u[i].project
      /\ Line(u, p, r)[Len(u) + 1] = p
      /\ \A j \in Len(u) + 2 .. Len(u) + 1 + Len(r) :
             Line(u, p, r)[j] = r[Len(u) + Len(r) + 2 - j].project
  BY <1>1, LineElements
<1> QED
  BY <1>2, <1>3 DEF u, p, r

LEMMA ThenElements ==
    ASSUME TypeOK'
    PROVE  LET n == Len(history'.undo)
               m == Len(history'.redo)
           IN  /\ n \in Nat /\ m \in Nat
               /\ Then \in Seq(Project)
               /\ Len(Then) = n + 1 + m
               /\ DOMAIN Then = 1 .. n + 1 + m
               /\ \A i \in 1 .. n : Then[i] = history'.undo[i].project
               /\ Then[n + 1] = project'
               /\ \A j \in n + 2 .. n + 1 + m : Then[j] = history'.redo[n + m + 2 - j].project
<1> DEFINE u == history'.undo
           p == project'
           r == history'.redo
<1>1. u \in Stack /\ p \in Project /\ r \in Stack
  BY LineTypesAfter
<1>2. Then = Line(u, p, r)
  BY DEF Then
<1> HIDE DEF u, p, r
<1>3. /\ Len(u) \in Nat /\ Len(r) \in Nat
      /\ Line(u, p, r) \in Seq(Project)
      /\ Len(Line(u, p, r)) = Len(u) + 1 + Len(r)
      /\ DOMAIN Line(u, p, r) = 1 .. Len(u) + 1 + Len(r)
      /\ \A i \in 1 .. Len(u) : Line(u, p, r)[i] = u[i].project
      /\ Line(u, p, r)[Len(u) + 1] = p
      /\ \A j \in Len(u) + 2 .. Len(u) + 1 + Len(r) :
             Line(u, p, r)[j] = r[Len(u) + Len(r) + 2 - j].project
  BY <1>1, LineElements
<1> QED
  BY <1>2, <1>3 DEF u, p, r

\* A step that leaves the stacks alone changes the document where it stands.
LEMMA KeptIsAmend ==
    ASSUME TypeOK, TypeOK', history' = history
    PROVE  TL!Amend
<1> DEFINE n == Len(history.undo)
           m == Len(history.redo)
           n2 == Len(history'.undo)
           m2 == Len(history'.redo)
<1>1. n2 = n /\ m2 = m
  OBVIOUS
<1>2. /\ n \in Nat /\ m \in Nat
      /\ DOMAIN Now = 1 .. n + 1 + m
      /\ \A i \in 1 .. n : Now[i] = history.undo[i].project
      /\ \A j \in n + 2 .. n + 1 + m : Now[j] = history.redo[n + m + 2 - j].project
  BY NowElements
<1>3. /\ DOMAIN Then = 1 .. n2 + 1 + m2
      /\ \A i \in 1 .. n2 : Then[i] = history'.undo[i].project
      /\ \A j \in n2 + 2 .. n2 + 1 + m2 : Then[j] = history'.redo[n2 + m2 + 2 - j].project
  BY ThenElements
<1>4. Len(history.undo)' = n2
  OBVIOUS
<1> HIDE DEF n, m, n2, m2
<1>5. ASSUME NEW i \in (1 .. n + 1 + m) \ {n + 1} PROVE Then[i] = Now[i]
  <2>1. i \in 1 .. n \/ i \in n + 2 .. n + 1 + m
    BY <1>2
  <2> QED
    BY <1>1, <1>2, <1>3, <2>1
<1>6. (Documents(history.undo) \o <<project>> \o Reverse(Documents(history.redo)))' = Then
  BY DEF Then, Line
<1>7. Documents(history.undo) \o <<project>> \o Reverse(Documents(history.redo)) = Now
  BY DEF Now, Line
<1>8. (Len(history.undo) + 1)' = n + 1 /\ Len(history.undo) + 1 = n + 1
  BY <1>1, <1>4 DEF n
<1>9. DOMAIN Then = DOMAIN Now
  BY <1>1, <1>2, <1>3
<1> HIDE DEF Now, Then
<1>10. (Len(history.undo) + 1)' = Len(history.undo) + 1
  BY <1>8
<1>11. DOMAIN (Documents(history.undo) \o <<project>> \o Reverse(Documents(history.redo)))'
           = DOMAIN (Documents(history.undo) \o <<project>> \o Reverse(Documents(history.redo)))
  BY <1>6, <1>7, <1>9
<1>12. \A i \in DOMAIN Now \ {Len(history.undo) + 1} : Then[i] = Now[i]
  BY <1>2, <1>5, <1>8
<1> QED
  BY <1>6, <1>7, <1>10, <1>11, <1>12 DEF TL!Amend

\* Undo moves one document back along the line and changes none.
LEMMA UndoIsStepBack ==
    ASSUME TypeOK, TypeOK', Undo
    PROVE  TL!StepBack
<1> DEFINE n == Len(history.undo)
           m == Len(history.redo)
           n2 == Len(history'.undo)
           m2 == Len(history'.redo)
<1>1. /\ history.undo \in Stack /\ history.redo \in Stack /\ project \in Project
      /\ history.undo # <<>>
      /\ history'.undo = SubSeq(history.undo, 1, n - 1)
      /\ history'.redo = Append(history.redo, Snapshot(project))
      /\ project' = history.undo[n].project
  BY LineTypes DEF Undo, CanUndo, Undone, UndoTarget
<1>2. Snapshot(project) \in Saves(Project) /\ Snapshot(project).project = project
  BY LineTypes, ProjectCount DEF Snapshot, Saves
<1>3. n \in Nat /\ n > 0 /\ m \in Nat
  BY <1>1 DEF Stack
<1>4. /\ n2 = n - 1
      /\ \A i \in 1 .. n - 1 : history'.undo[i] = history.undo[i]
  BY <1>1, <1>3 DEF Stack
<1>5. /\ m2 = m + 1
      /\ \A i \in 1 .. m : history'.redo[i] = history.redo[i]
      /\ history'.redo[m + 1] = Snapshot(project)
  BY <1>1, <1>2, AppendProperties DEF Stack
<1>6. /\ Now \in Seq(Project)
      /\ Len(Now) = n + 1 + m
      /\ \A i \in 1 .. n : Now[i] = history.undo[i].project
      /\ Now[n + 1] = project
      /\ \A j \in n + 2 .. n + 1 + m : Now[j] = history.redo[n + m + 2 - j].project
  BY NowElements
<1>7. /\ Then \in Seq(Project)
      /\ Len(Then) = n2 + 1 + m2
      /\ \A i \in 1 .. n2 : Then[i] = history'.undo[i].project
      /\ Then[n2 + 1] = project'
      /\ \A j \in n2 + 2 .. n2 + 1 + m2 : Then[j] = history'.redo[n2 + m2 + 2 - j].project
  BY ThenElements
<1>8. Len(history.undo)' = n2
  OBVIOUS
<1> HIDE DEF n, m, n2, m2, Now, Then
<1>9. ASSUME NEW i \in 1 .. n + 1 + m PROVE Then[i] = Now[i]
  <2>1. \/ i \in 1 .. n - 1 /\ i \in 1 .. n /\ i \in 1 .. n2
        \/ i = n /\ i = n2 + 1 /\ i \in 1 .. n
        \/ i = n + 1
        \/ i \in n + 2 .. n + 1 + m
    BY <1>3, <1>4
  <2>2. CASE i \in 1 .. n - 1 /\ i \in 1 .. n /\ i \in 1 .. n2
    BY <1>4, <1>6, <1>7, <2>2
  <2>3. CASE i = n /\ i = n2 + 1 /\ i \in 1 .. n
    BY <1>1, <1>6, <1>7, <2>3
  <2>4. CASE i = n + 1
    <3>1. i \in n2 + 2 .. n2 + 1 + m2 /\ n2 + m2 + 2 - i = m + 1
      BY <1>3, <1>4, <1>5, <2>4
    <3> QED
      BY <1>2, <1>5, <1>6, <1>7, <2>4, <3>1
  <2>5. CASE i \in n + 2 .. n + 1 + m
    <3>1. /\ i \in n2 + 2 .. n2 + 1 + m2
          /\ n2 + m2 + 2 - i = n + m + 2 - i
          /\ n + m + 2 - i \in 1 .. m
      BY <1>3, <1>4, <1>5, <2>5
    <3> QED
      BY <1>5, <1>6, <1>7, <2>5, <3>1
  <2> QED
    BY <2>1, <2>2, <2>3, <2>4, <2>5
<1>10. Then = Now
  <2>1. Len(Then) = n + 1 + m /\ Len(Then) = Len(Now)
    BY <1>3, <1>4, <1>5, <1>6, <1>7
  <2> QED
    BY <1>6, <1>7, <1>9, <2>1, SeqEqual
<1>11. (Documents(history.undo) \o <<project>> \o Reverse(Documents(history.redo)))'
           = Documents(history.undo) \o <<project>> \o Reverse(Documents(history.redo))
  BY <1>10 DEF Now, Then, Line
<1>12. Len(history.undo) + 1 > 1
  BY <1>3 DEF n
<1>13. (Len(history.undo) + 1)' = (Len(history.undo) + 1) - 1
  <2>1. Len(history.undo)' = n - 1 /\ Len(history.undo) = n
    BY <1>4, <1>8 DEF n
  <2> QED
    BY <1>3, <2>1
<1> QED
  BY <1>11, <1>12, <1>13 DEF TL!StepBack

\* Redo moves one document on along the line and changes none.
LEMMA RedoIsStepForward ==
    ASSUME TypeOK, TypeOK', Redo
    PROVE  TL!StepForward
<1> DEFINE n == Len(history.undo)
           m == Len(history.redo)
           n2 == Len(history'.undo)
           m2 == Len(history'.redo)
<1>1. /\ history.undo \in Stack /\ history.redo \in Stack /\ project \in Project
      /\ history.redo # <<>>
      /\ history'.redo = SubSeq(history.redo, 1, m - 1)
      /\ history'.undo = Append(history.undo, Snapshot(project))
      /\ project' = history.redo[m].project
  BY LineTypes DEF Redo, CanRedo, Redone, RedoTarget
<1>2. Snapshot(project) \in Saves(Project) /\ Snapshot(project).project = project
  BY LineTypes, ProjectCount DEF Snapshot, Saves
<1>3. m \in Nat /\ m > 0 /\ n \in Nat
  BY <1>1 DEF Stack
<1>4. /\ m2 = m - 1
      /\ \A i \in 1 .. m - 1 : history'.redo[i] = history.redo[i]
  BY <1>1, <1>3 DEF Stack
<1>5. /\ n2 = n + 1
      /\ \A i \in 1 .. n : history'.undo[i] = history.undo[i]
      /\ history'.undo[n + 1] = Snapshot(project)
  BY <1>1, <1>2, AppendProperties DEF Stack
<1>6. /\ Now \in Seq(Project)
      /\ Len(Now) = n + 1 + m
      /\ \A i \in 1 .. n : Now[i] = history.undo[i].project
      /\ Now[n + 1] = project
      /\ \A j \in n + 2 .. n + 1 + m : Now[j] = history.redo[n + m + 2 - j].project
  BY NowElements
<1>7. /\ Then \in Seq(Project)
      /\ Len(Then) = n2 + 1 + m2
      /\ \A i \in 1 .. n2 : Then[i] = history'.undo[i].project
      /\ Then[n2 + 1] = project'
      /\ \A j \in n2 + 2 .. n2 + 1 + m2 : Then[j] = history'.redo[n2 + m2 + 2 - j].project
  BY ThenElements
<1>8. Len(history.undo)' = n2
  OBVIOUS
<1> HIDE DEF n, m, n2, m2, Now, Then
<1>9. ASSUME NEW i \in 1 .. n + 1 + m PROVE Then[i] = Now[i]
  <2>1. \/ i \in 1 .. n /\ i \in 1 .. n2
        \/ i = n + 1 /\ i \in 1 .. n2
        \/ i = n2 + 1
        \/ i \in n2 + 2 .. n2 + 1 + m2
    BY <1>3, <1>4, <1>5
  <2>2. CASE i \in 1 .. n /\ i \in 1 .. n2
    BY <1>5, <1>6, <1>7, <2>2
  <2>3. CASE i = n + 1 /\ i \in 1 .. n2
    BY <1>2, <1>5, <1>6, <1>7, <2>3
  <2>4. CASE i = n2 + 1
    <3>1. i \in n + 2 .. n + 1 + m /\ n + m + 2 - i = m
      BY <1>3, <1>4, <1>5, <2>4
    <3> QED
      BY <1>1, <1>6, <1>7, <2>4, <3>1
  <2>5. CASE i \in n2 + 2 .. n2 + 1 + m2
    <3>1. /\ i \in n + 2 .. n + 1 + m
          /\ n2 + m2 + 2 - i = n + m + 2 - i
          /\ n + m + 2 - i \in 1 .. m - 1
      BY <1>3, <1>4, <1>5, <2>5
    <3> QED
      BY <1>4, <1>6, <1>7, <2>5, <3>1
  <2> QED
    BY <2>1, <2>2, <2>3, <2>4, <2>5
<1>10. Len(Now) = n + 1 + m /\ Len(Then) = n + 1 + m
  BY <1>3, <1>4, <1>5, <1>6, <1>7
<1>11. Then = Now
  BY <1>6, <1>7, <1>9, <1>10, SeqEqual
<1>12. (Documents(history.undo) \o <<project>> \o Reverse(Documents(history.redo)))'
           = Documents(history.undo) \o <<project>> \o Reverse(Documents(history.redo))
  BY <1>11 DEF Now, Then, Line
<1>13. Len(history.undo) + 1
           < Len(Documents(history.undo) \o <<project>> \o Reverse(Documents(history.redo)))
  <2>1. n + 1 < n + 1 + m
    BY <1>3
  <2>2. Documents(history.undo) \o <<project>> \o Reverse(Documents(history.redo)) = Now
    BY DEF Now, Line
  <2> QED
    BY <1>10, <2>1, <2>2 DEF n
<1>14. (Len(history.undo) + 1)' = (Len(history.undo) + 1) + 1
  <2>1. Len(history.undo)' = n + 1 /\ Len(history.undo) = n
    BY <1>5, <1>8 DEF n
  <2> QED
    BY <1>3, <2>1
<1> QED
  BY <1>12, <1>13, <1>14 DEF TL!StepForward

\* With empty stacks the line is the one document.
LEMMA LoadIsReset ==
    ASSUME TypeOK', history' = EmptyHistory
    PROVE  TL!Reset
<1> DEFINE n2 == Len(history'.undo)
           m2 == Len(history'.redo)
<1>1. n2 = 0 /\ m2 = 0
  BY DEF EmptyHistory
<1>2. Len(Then) = n2 + 1 + m2
  BY ThenElements
<1>3. Len(history.undo)' = n2
  OBVIOUS
<1> HIDE DEF n2, m2, Then
<1>4. Len(Then) = 1 /\ (Len(history.undo) + 1)' = 1
  BY <1>1, <1>2, <1>3
<1>5. (Documents(history.undo) \o <<project>> \o Reverse(Documents(history.redo)))' = Then
  BY DEF Then, Line
<1> QED
  BY <1>4, <1>5 DEF TL!Reset

LEMMA InitIsInit ==
    ASSUME TypeOK, history = EmptyHistory
    PROVE  TL!Init
<1> DEFINE n == Len(history.undo)
           m == Len(history.redo)
<1>1. n = 0 /\ m = 0
  BY DEF EmptyHistory
<1>2. Len(Now) = n + 1 + m
  BY NowElements
<1>3. Documents(history.undo) \o <<project>> \o Reverse(Documents(history.redo)) = Now
  BY DEF Now, Line
<1>4. Len(history.undo) = n
  OBVIOUS
<1> HIDE DEF n, m, Now
<1>5. Len(Now) = 1 /\ Len(history.undo) + 1 = 1
  BY <1>1, <1>2, <1>4
<1> QED
  BY <1>3, <1>5 DEF TL!Init


\* Undo and redo promise what Timeline says: a call of AppState is an edit, a
\* move along the line of documents, or a change in place, and no edit forgets
\* the document it started from (history.rs, and undo and redo of AppState).
THEOREM LineOfDocuments == Spec => TimelineSpec
<1>1. Init => TL!Init
  BY InitType, InitIsInit DEF Init
<1>2. TypeOK /\ TypeOK' /\ [Next]_vars => [TL!Next]_TL!vars
  <2> SUFFICES ASSUME TypeOK, TypeOK', [Next]_vars PROVE [TL!Next]_TL!vars
    OBVIOUS
  <2>1. CASE Recorded
    <3>1. TL!Amend \/ TL!Edit
      BY <2>1, KeptIsAmend, PushIsEdit DEF Recorded
    <3> QED
      BY <3>1 DEF TL!Next
  <2>2. ASSUME NEW reg \in Imports, ImportRcnet(reg) PROVE TL!Next
    <3>1. history' = Push(history, project)
      BY <2>2 DEF ImportRcnet
    <3> QED
      BY <3>1, PushIsEdit DEF TL!Next
  <2>3. ASSUME NEW file \in Files, Load(file) PROVE TL!Next
    <3>1. history' = EmptyHistory
      BY <2>3 DEF Load
    <3> QED
      BY <3>1, LoadIsReset DEF TL!Next
  <2>4. CASE Undo
    BY <2>4, UndoIsStepBack DEF TL!Next
  <2>5. CASE Redo
    BY <2>5, RedoIsStepForward DEF TL!Next
  <2>6. CASE UNCHANGED vars
    <3>1. Recorded
      BY <2>6 DEF Recorded, vars
    <3> QED
      BY <2>1, <3>1
  <2> QED
    BY <2>1, <2>2, <2>3, <2>4, <2>5, <2>6, StepRecords DEF ProjectSteps
<1> QED
  BY <1>1, <1>2, TypeCorrect, PTL DEF Spec, TimelineSpec, TL!Spec

-----------------------------------------------------------------------------
(* What an undo takes back.                                                *)

Pushed == history' = Push(history, project)

\* A step of the views leaves the classes as they are.
LEMMA ViewStepsKeep == TypeOK /\ ViewSteps => registry' = registry
<1> SUFFICES ASSUME TypeOK, ViewSteps PROVE registry' = registry
  OBVIOUS
<1> USE DEF registry
<1>1. project \in Project
  BY DEF TypeOK
<1>2. ASSUME NEW c \in Ids, OpenView(c) PROVE registry' = registry
  <2>1. project' = project \/ project' = [project EXCEPT !.views = Append(@, c)]
    BY <1>2 DEF OpenView, OpenIn, Opened
  <2> QED
    BY <1>1, <2>1 DEF Project
<1>3. ASSUME NEW idx \in Roots, CloseView(idx) PROVE registry' = registry
  BY <1>3 DEF CloseView, DropView
<1>4. CASE project' = project
  BY <1>4
<1> QED
  BY <1>2, <1>3, <1>4 DEF ViewSteps, SelectView, ToggleExpand, ToggleCollapse, ExpandAll,
     CollapseAll, ComputeRows, SetExpand

\* Every other edit takes a snapshot first.
LEMMA StepPushes ==
    ASSUME TypeOK, Next
    PROVE  \/ UnrecordedSteps
           \/ registry' = registry
           \/ Pushed
           \/ Undo
           \/ Redo
           \/ \E file \in Files : Load(file)
<1>1. \A reg : EditRegistry(reg) => Pushed
  BY DEF EditRegistry, Commit, Pushed
<1>2. ClassSteps => Pushed
  BY DEF ClassSteps, AddClass, RemoveClass, ExpandPointer, Commit, Pushed
<1>3. GuardedSteps => Pushed
  BY <1>1 DEF GuardedSteps, AddNode, AddArray, ChangeKind
<1>4. UncheckedSteps => Pushed
  BY <1>1 DEF UncheckedSteps, PushNode, InsertAfter
<1>5. PlainSteps => Pushed
  BY <1>1 DEF PlainSteps, AddBytes, DeleteNode, SetArrayCount, RelabelNode, RelabelClass
<1>6. SelectionSteps => Pushed \/ registry' = registry
  BY <1>1 DEF SelectionSteps, DeleteMany, CopyNodes, PasteNodes, registry
<1>7. \A reg : ImportRcnet(reg) => Pushed
  BY DEF ImportRcnet, Pushed
<1> QED
  BY <1>2, <1>3, <1>4, <1>5, <1>6, <1>7, ViewStepsKeep DEF Next, ProjectSteps

\* Undo covers every structural edit: after an edit that is not made behind the
\* back of AppState, one undo brings back the project as it was (Commit,
\* push_history, undo).
THEOREM EditsUndoable == Spec /\ [][~UnrecordedSteps]_vars => EditUndoable
<1>1. ASSUME TypeOK, Pushed
      PROVE  CanUndo(history') /\ UndoTarget(history') = project
  <2>1. /\ Len(history'.undo) \in 1 .. DEPTH
        /\ history'.undo[Len(history'.undo)] = Snapshot(project)
    BY <1>1, HistoryType, ProjectCount, PushProperties DEF Pushed
  <2>2. history'.undo # <<>>
    BY <2>1
  <2> QED
    BY <2>1, <2>2 DEF CanUndo, UndoTarget, Snapshot
<1> DEFINE Covered == \/ Structure(registry') = Structure(registry)
                      \/ CanUndo(history') /\ UndoTarget(history') = project
                      \/ Undo
                      \/ Redo
                      \/ \E file \in Files : Load(file)
<1>2. TypeOK /\ [Next]_vars /\ [~UnrecordedSteps]_vars => [Covered]_vars
  <2>1. TypeOK /\ Next /\ ~UnrecordedSteps => Covered
    BY <1>1, StepPushes DEF Structure
  <2> QED
    BY <2>1
<1>3. EditUndoable <=> [][Covered]_vars
  BY DEF EditUndoable
<1> HIDE DEF Covered
<1> QED
  BY <1>2, <1>3, TypeCorrect, PTL DEF Spec
=============================================================================
