----------------------------- MODULE FrameProofs -----------------------------
(***************************************************************************)
(* The program around Editor: every step of a frame is a step of Editor,   *)
(* so that what holds of Editor holds of the program.                      *)
(***************************************************************************)
EXTENDS Frame, EditorProofs

-----------------------------------------------------------------------------
(* Rows, and the nodes they stand for.                                     *)

\* Where resolve_owner may be.
Place == [lost : BOOLEAN, owner : Nat \X Nat, class : Ids]

LEMMA DescendType ==
    ASSUME registry \in RegistryType, NEW at \in Place, NEW i \in Nat
    PROVE  /\ Descend(at, i) \in Place
           /\ ~Descend(at, i).lost =>
                /\ Descend(at, i).owner = <<at.class, i>>
                /\ HasNode(registry, at.class, i)
<1>1. CASE at.lost \/ ~HasNode(registry, at.class, i)
  BY <1>1 DEF Descend, Place
<1>2. CASE ~(at.lost \/ ~HasNode(registry, at.class, i))
  <2> DEFINE k == registry.nodes[at.class][i + 1].kind
  <2>1. k \in Kind
    BY <1>2, NodeList DEF HasNode, Place
  <2>2. Target(k) # {} => k.arg \in Ids
    BY <2>1 DEF Target, Referenced, Kind
  <2>3. at.class \in Ids /\ at.class \in Nat /\ i \in Nat
    BY RegistryAssumption DEF Place, Ids
  <2> QED
    BY <1>2, <2>2, <2>3 DEF Descend, Place
<1> QED
  BY <1>1, <1>2

\* resolve_owner finds nodes there are.
LEMMA OwnerFound ==
    ASSUME registry \in RegistryType, NEW c \in Ids, NEW path \in Seq(Nat), path # <<>>
    PROVE  \A t \in Owner(c, path) : t \in Ids \X Nat /\ HasNode(registry, t[1], t[2])
<1> DEFINE n == Len(path)
           a == [lost |-> FALSE, owner |-> <<c, 0>>, class |-> c]
           g == [i \in 1 .. n |-> [at \in Place |-> Descend(at, path[i])]]
           at[i \in 0 .. n] ==
              IF i = 0 THEN a ELSE Descend(at[i - 1], path[i])
<1>1. n \in Nat /\ n \in 1 .. n /\ \A i \in 1 .. n : path[i] \in Nat
  OBVIOUS
<1>2. a \in Place
  BY RegistryAssumption DEF Place, Ids
<1>3. g \in Steps(n, Place)
  BY <1>1, DescendType DEF Steps
<1>4. PICK f \in [0 .. n -> Place] : f[0] = a /\ \A i \in 1 .. n : f[i] = g[i][f[i - 1]]
  <2>1. Walks(n, Place, a, g) # {}
    <3> HIDE DEF g, a, n
    <3> QED
      BY <1>1, <1>2, <1>3, Along
  <2> HIDE DEF g, a, n
  <2> QED
    BY <2>1 DEF Walks
<1>5. f = [i \in 0 .. n |-> IF i = 0 THEN a ELSE Descend(f[i - 1], path[i])]
  <2>1. ASSUME NEW i \in 0 .. n
        PROVE  f[i] = IF i = 0 THEN a ELSE Descend(f[i - 1], path[i])
    <3>1. CASE i # 0
      <4>1. i \in 1 .. n /\ i - 1 \in 0 .. n
        BY <3>1
      <4>2. f[i] = g[i][f[i - 1]] /\ f[i - 1] \in Place
        BY <1>4, <4>1
      <4> QED
        BY <3>1, <4>1, <4>2
    <3> QED
      BY <1>4, <3>1
  <2> QED
    BY <2>1
<1>6. at = [i \in 0 .. n |-> IF i = 0 THEN a ELSE Descend(at[i - 1], path[i])]
  BY <1>5
<1> HIDE DEF at, a, g, n
<1>7. at[0] = a /\ \A i \in 1 .. n : at[i] = Descend(at[i - 1], path[i])
  <2>1. 0 \in 0 .. n /\ \A i \in 1 .. n : i \in 0 .. n /\ i # 0
    BY <1>1
  <2> QED
    BY <1>6, <2>1
<1> DEFINE S == {i \in 0 .. n : at[i] \in Place /\
                    (i # 0 /\ ~at[i].lost =>
                        \E d \in Ids, j \in Nat : at[i].owner = <<d, j>> /\ HasNode(registry, d, j))}
<1>8. \A i \in 0 .. n : i \in S
  <2>1. 0 \in S
    BY <1>1, <1>2, <1>7
  <2>2. ASSUME NEW i \in 1 .. n, i - 1 \in S PROVE i \in S
    <3>1. at[i - 1] \in Place /\ path[i] \in Nat
      BY <1>1, <2>2
    <3>2. at[i] = Descend(at[i - 1], path[i]) /\ at[i - 1].class \in Ids
      BY <1>7, <3>1 DEF Place
    <3>3. i \in 0 .. n
      BY <1>1
    <3>4. /\ at[i] \in Place
          /\ ~at[i].lost => /\ at[i].owner = <<at[i - 1].class, path[i]>>
                            /\ HasNode(registry, at[i - 1].class, path[i])
      BY <3>1, <3>2, DescendType
    <3> QED
      BY <3>1, <3>2, <3>3, <3>4
  <2> HIDE DEF S
  <2> QED
    BY <1>1, <2>1, <2>2, UpTo
<1>9. n \in S /\ n # 0
  BY <1>1, <1>8
<1>10. Owner(c, path) = IF at[n].lost THEN {} ELSE {at[n].owner}
  BY DEF Owner, at, a, n
<1>11. ~at[n].lost => \E d \in Ids, j \in Nat : at[n].owner = <<d, j>> /\ HasNode(registry, d, j)
  BY <1>9
<1> HIDE DEF S
<1>12. ASSUME NEW t \in Owner(c, path) PROVE t \in Ids \X Nat /\ HasNode(registry, t[1], t[2])
  <2>1. PICK d \in Ids, j \in Nat : t = <<d, j>> /\ HasNode(registry, d, j)
    BY <1>10, <1>11
  <2> QED
    BY <2>1
<1> QED
  BY <1>12

\* What a sequence of sequences flattens to.
LEMMA FlattenType ==
    ASSUME NEW S, NEW ss \in Seq(Seq(S))
    PROVE  FlattenSeq(ss) \in Seq(S)
<1> DEFINE n == Len(ss)
           g == [i \in 1 .. n |-> [s \in Seq(S) |-> s \o ss[i]]]
           flatten[i \in 1 .. n] == IF i = 1 THEN ss[i] ELSE flatten[i - 1] \o ss[i]
<1>1. n \in Nat /\ \A i \in 1 .. n : ss[i] \in Seq(S)
  OBVIOUS
<1>2. <<>> \in Seq(S) /\ \A s, t \in Seq(S) : s \o t \in Seq(S) /\ <<>> \o t = t
  OBVIOUS
<1>3. g \in Steps(n, Seq(S))
  BY <1>1, <1>2 DEF Steps
<1>4. PICK f \in [0 .. n -> Seq(S)] :
          f[0] = <<>> /\ \A i \in 1 .. n : f[i] = g[i][f[i - 1]]
  <2>1. Walks(n, Seq(S), <<>>, g) # {}
    <3> HIDE DEF g, n
    <3> QED
      BY <1>1, <1>2, <1>3, Along
  <2> HIDE DEF g, n
  <2> QED
    BY <2>1 DEF Walks
<1> DEFINE h == [i \in 1 .. n |-> f[i]]
<1>5. h = [i \in 1 .. n |-> IF i = 1 THEN ss[i] ELSE h[i - 1] \o ss[i]]
  <2>1. ASSUME NEW i \in 1 .. n
        PROVE  h[i] = IF i = 1 THEN ss[i] ELSE h[i - 1] \o ss[i]
    <3>1. f[i] = f[i - 1] \o ss[i]
      <4>1. i - 1 \in 0 .. n
        BY <1>1
      <4>2. f[i - 1] \in Seq(S)
        BY <4>1, <1>4
      <4> QED
        BY <1>4, <4>2
    <3>2. CASE i = 1
      <4>1. i - 1 = 0 /\ ss[i] \in Seq(S) /\ h[i] = f[i]
        BY <1>1, <3>2
      <4>2. h[i] = <<>> \o ss[i]
        BY <1>4, <3>1, <4>1
      <4> QED
        BY <1>2, <3>2, <4>1, <4>2
    <3>3. CASE i # 1
      <4>1. i - 1 \in 1 .. n
        BY <3>3
      <4> QED
        BY <3>1, <3>3, <4>1
    <3> QED
      BY <3>2, <3>3
  <2> QED
    BY <2>1
<1>6. flatten = [i \in 1 .. n |-> IF i = 1 THEN ss[i] ELSE flatten[i - 1] \o ss[i]]
  BY <1>5
<1>7. FlattenSeq(ss) = IF n = 0 THEN ss ELSE flatten[n]
  BY DEF FlattenSeq
<1> HIDE DEF flatten, h, g, n
<1> DEFINE T == {i \in 0 .. n : i = 0 \/ flatten[i] \in Seq(S)}
<1>8. \A i \in 0 .. n : i \in T
  <2>1. 0 \in T
    BY <1>1
  <2>2. ASSUME NEW i \in 1 .. n, i - 1 \in T PROVE i \in T
    <3>1. flatten[i] = IF i = 1 THEN ss[i] ELSE flatten[i - 1] \o ss[i]
      BY <1>6
    <3>2. i # 1 => flatten[i - 1] \in Seq(S)
      BY <1>1, <2>2
    <3>3. ss[i] \in Seq(S) /\ i \in 0 .. n
      BY <1>1
    <3>4. flatten[i] \in Seq(S)
      <4> DEFINE s == flatten[i - 1]
                 t == ss[i]
      <4>1. s \in Seq(S) /\ t \in Seq(S) => s \o t \in Seq(S)
        OBVIOUS
      <4> QED
        BY <3>1, <3>2, <3>3, <4>1
    <3> QED
      BY <3>3, <3>4
  <2> HIDE DEF T
  <2> QED
    BY <1>1, <2>1, <2>2, UpTo
<1>9. n \in T
  BY <1>1, <1>8
<1>10. n = 0 => ss \in Seq(S)
  BY <1>2 DEF n
<1> QED
  BY <1>7, <1>9, <1>10

\* What Frame's rows are made of: documents whose classes fit the bound.
Fitting == {reg \in RegistryType : Fits(reg)}

Singles(c) == {<<i>> : i \in 0 .. Len(registry.nodes[c]) - 1}

Pairs == (0 .. MaxNodes) \X (0 .. MaxNodes)

LEMMA RowListType ==
    ASSUME registry \in Fitting, Viewing, ViewClass \in Ids, selected \in Nat
    PROVE  RowList \in Seq(Singles(ViewClass) \cup Pairs)
<1> DEFINE c == ViewClass
           n == Len(registry.nodes[c])
           S == Singles(c) \cup Pairs
           row(i) == <<<<i - 1>>>> \o Below(selected, i - 1)
           ss == [i \in 1 .. n |-> row(i)]
<1>1. registry \in RegistryType /\ n \in Nat /\ n <= MaxNodes /\ MaxNodes \in Nat
  BY NodeList, EditorAssumption DEF Fitting, Fits
<1>2. ASSUME NEW i \in 1 .. n PROVE row(i) \in Seq(S)
  <2> DEFINE j == i - 1
             k == RowKind(selected, j)
             d == k.arg
             m == Len(registry.nodes[d])
  <2>1. j \in 0 .. n - 1 /\ j + 1 \in 1 .. n /\ j \in 0 .. MaxNodes
    BY <1>1
  <2>2. k \in Kind
    <3>1. k = registry.nodes[c][j + 1].kind
      BY DEF RowKind, ViewClass
    <3> QED
      BY <1>1, <2>1, <3>1, NodeList
  <2>3. <<<<j>>>> \in Seq(S)
    BY <2>1 DEF Singles
  <2>4. Below(selected, j) \in Seq(S)
    <3>1. CASE Target(k) # {} /\ Unfolded(selected, j)
      <4>1. d \in Ids
        BY <2>2, <3>1 DEF Target, Referenced, Kind
      <4>2. /\ m \in Nat /\ m <= MaxNodes /\ DOMAIN registry.nodes[d] = 1 .. m
        BY <1>1, <4>1, NodeList DEF Fitting, Fits
      <4>3. Below(selected, j) = [l \in 1 .. m |-> <<j, l - 1>>]
        BY <3>1, <4>2 DEF Below
      <4>4. \A l \in 1 .. m : <<j, l - 1>> \in S
        BY <1>1, <2>1, <4>2 DEF Pairs
      <4> HIDE DEF m, j, S
      <4> QED
        BY <4>2, <4>3, <4>4
    <3>2. CASE ~(Target(k) # {} /\ Unfolded(selected, j))
      BY <3>2 DEF Below
    <3> QED
      BY <3>1, <3>2
  <2> HIDE DEF j, S
  <2>5. <<<<j>>>> \o Below(selected, j) \in Seq(S)
    BY <2>3, <2>4
  <2> QED
    BY <2>5 DEF j
<1>3. ss \in Seq(Seq(S))
  <2> HIDE DEF row, S, n
  <2> QED
    BY <1>1, <1>2
<1>4. FlattenSeq(ss) \in Seq(S)
  <2> HIDE DEF ss, S
  <2> QED
    BY <1>3, FlattenType
<1>5. RowList = FlattenSeq(ss)
  BY DEF RowList
<1> QED
  BY <1>4, <1>5

\* The list of classes lists classes.
LEMMA ClassListType ==
    ASSUME registry \in RegistryType
    PROVE  \A i \in DOMAIN ClassList : ClassList[i] \in registry.live /\ ClassList[i] \in Ids
<1>1. registry.live \subseteq Ids /\ registry.live \in SUBSET Nat
  BY RegistryAssumption DEF RegistryType, Ids
<1>2. IsFiniteSet(registry.live)
  <2>1. 0 \in Int /\ MaxId - 1 \in Int
    BY RegistryAssumption
  <2>2. IsFiniteSet(Ids)
    BY <2>1, FS_Interval DEF Ids
  <2> QED
    BY <1>1, <2>2, FS_Subset
<1> QED
  BY <1>1, <1>2, ListingType DEF ClassList

LEMMA PathType == ASSUME MaxNodes \in Nat PROVE \A p \in Paths : p \in Seq(Nat) /\ p # <<>>
<1> SUFFICES ASSUME NEW p \in Paths PROVE p \in Seq(Nat) /\ p # <<>>
  OBVIOUS
<1>1. CASE \E i \in 0 .. MaxNodes : p = <<i>>
  BY <1>1
<1>2. CASE \E i, j \in 0 .. MaxNodes : p = <<i, j>>
  BY <1>2
<1>3. p \in (0 .. MaxNodes) \X (0 .. MaxNodes) => \E i, j \in 0 .. MaxNodes : p = <<i, j>>
  OBVIOUS
<1> QED
  BY <1>1, <1>2, <1>3 DEF Paths

\* What is selected are nodes, and a selection.
LEMMA SelectedType ==
    ASSUME registry \in Fitting, views \in Seq(Ids), selected \in Nat, app.rows \subseteq Paths
    PROVE  /\ SelectedOwners \subseteq Targets
           /\ \A t \in SelectedOwners : HasNode(registry, t[1], t[2])
<1>1. MaxNodes \in Nat /\ registry \in RegistryType
  BY EditorAssumption DEF Fitting
<1>2. ASSUME NEW t \in SelectedOwners
      PROVE  t \in Targets /\ HasNode(registry, t[1], t[2])
  <2>1. PICK p \in app.rows : Viewing /\ t \in Owner(ViewClass, p)
    BY <1>2 DEF SelectedOwners
  <2>2. ViewClass \in Ids
    BY <2>1 DEF Viewing, ViewClass
  <2>3. p \in Seq(Nat) /\ p # <<>>
    BY <1>1, PathType
  <2>4. t \in Ids \X Nat /\ HasNode(registry, t[1], t[2])
    BY <1>1, <2>1, <2>2, <2>3, OwnerFound
  <2>5. Len(registry.nodes[t[1]]) \in Nat /\ Len(registry.nodes[t[1]]) <= MaxNodes
    BY <1>1, <2>4, NodeList DEF Fitting, Fits
  <2>6. t[2] \in 0 .. MaxNodes
    BY <1>1, <2>4, <2>5 DEF HasNode
  <2> QED
    BY <2>4, <2>6 DEF Targets
<1> QED
  BY <1>2

\* A bounded set of numbers has a largest one.
LEMMA Largest ==
    ASSUME NEW n \in Nat, NEW T \in SUBSET (0 .. n), T # {}
    PROVE  \E x \in T : \A y \in T : y <= x
<1> DEFINE U == {n - x : x \in T}
<1>1. U \in SUBSET Nat /\ U # {}
  <2>1. \A x \in 0 .. n : n - x \in Nat
    OBVIOUS
  <2> QED
    BY <2>1
<1>2. PICK u \in U : \A v \in U : u <= v
  <2> HIDE DEF U
  <2> QED
    BY <1>1, LeastNatural
<1>3. PICK x \in T : u = n - x
  BY <1>2
<1>4. ASSUME NEW y \in T PROVE y <= x
  <2>1. n - x <= n - y
    BY <1>2, <1>3
  <2>2. x \in 0 .. n /\ y \in 0 .. n
    OBVIOUS
  <2> QED
    BY <2>1, <2>2
<1> QED
  BY <1>4

LEMMA PastePlaceType ==
    ASSUME registry \in Fitting, views \in Seq(Ids), selected \in Nat, app.rows \subseteq Paths
    PROVE  PastePlace \in 0 .. MaxNodes
<1> DEFINE marked == {t[2] + 1 : t \in {t \in SelectedOwners : t[1] = ViewClass}}
<1>1. MaxNodes \in Nat
  BY EditorAssumption
<1>2. marked \in SUBSET (0 .. MaxNodes)
  <2>1. ASSUME NEW t \in SelectedOwners PROVE t[2] + 1 \in 0 .. MaxNodes
    <3>1. t \in Targets /\ HasNode(registry, t[1], t[2])
      BY SelectedType
    <3>2. t[1] \in Ids /\ t[2] \in 0 .. MaxNodes
      BY <3>1 DEF Targets
    <3>3. Len(registry.nodes[t[1]]) \in Nat /\ Len(registry.nodes[t[1]]) <= MaxNodes
      BY <3>2, NodeList DEF Fitting, Fits
    <3> QED
      BY <1>1, <3>1, <3>2, <3>3 DEF HasNode
  <2> QED
    BY <2>1
<1>3. CASE marked = {}
  BY <1>1, <1>3 DEF PastePlace
<1>4. CASE marked # {}
  <2>1. \E x \in marked : \A y \in marked : y <= x
    <3> HIDE DEF marked
    <3> QED
      BY <1>1, <1>2, <1>4, Largest
  <2>2. PastePlace = CHOOSE p \in marked : \A q \in marked : q <= p
    BY <1>4 DEF PastePlace
  <2> HIDE DEF marked
  <2> QED
    BY <1>2, <2>1, <2>2
<1> QED
  BY <1>3, <1>4

-----------------------------------------------------------------------------
(* What is deferred.                                                       *)

\* What the interface and the plugins may ask for, in whatever state.
Action ==
    {<<tag>> : tag \in {"Undo", "Redo", "CopySelected", "DeleteSelected", "ExpandAll",
                        "CollapseAll", "RemoveSelectedClasses", "EndRenameClass",
                        "CommitEdit", "CancelEdit"}}
    \cup ({"OpenView", "SetExpr", "RenameClass", "RemoveClass", "StartRenameClass"} \X Ids)
    \cup ({"CloseView", "SelectView"} \X Nat)
    \cup ({"AddClass"} \X SeedRows)
    \cup ({"SetPtrWidth"} \X PtrWidth)
    \cup ({"ImportRcnet"} \X Imports)
    \cup ({"Load"} \X LoadableFiles)
    \cup ({"Toggle", "ToggleCollapse"} \X Nat \X Index)
    \cup ({"DeleteNode"} \X Ids \X Index)
    \cup ({"PushNode"} \X Ids \X PluginKinds)
    \cup ({"AddBytes"} \X Ids \X ByteCounts)
    \cup ({"Paste"} \X Ids \X (0 .. MaxNodes))
    \cup ({"AddArray"} \X Ids \X Kinds \X Counts)
    \cup ({"InsertAfter"} \X Ids \X Index \X PluginKinds)
    \cup ({"ChangeKind"} \X Ids \X Index \X Kinds)
    \cup ({"SetArrayCount"} \X Ids \X Index \X Counts)
    \cup ({"StartEdit"} \X Nat \X Paths \X Fields)
    \cup ({"ExpandPointer"} \X Ids \X Index \X Nat \X Index)

\* Those that make sense only in some states, and of the project of such a one.
Timed == {"OpenView", "SelectView", "ExpandPointer", "Toggle", "ToggleCollapse",
          "AddArray", "ChangeKind"}

RowOf(p, a) == p.registry.nodes[p.views[a[2] + 1]]

Known(p, k) == LiveRefsOnly => Referenced(k) \subseteq p.registry.live

Timely(p, a) ==
    /\ a[1] = "OpenView" => a[2] \in p.registry.live
    /\ a[1] = "SelectView" => a[2] < Len(p.views)
    /\ a[1] = "ExpandPointer" => a[4] < Len(p.views)
    /\ a[1] \in {"Toggle", "ToggleCollapse"} =>
          /\ a[2] < Len(p.views)
          /\ a[3] < Len(RowOf(p, a))
    /\ a[1] = "Toggle" => IsClassPtr(RowOf(p, a)[a[3] + 1].kind)
    /\ a[1] = "ToggleCollapse" => IsAggregate(RowOf(p, a)[a[3] + 1].kind)
    /\ a[1] = "AddArray" => Known(p, a[3])
    /\ a[1] = "ChangeKind" => Known(p, a[4])

\* Those that disturb no such action behind them.
Calm == {"RenameClass", "EndRenameClass", "SetExpr"}

InTime(p, s) ==
    \A j \in DOMAIN s : s[j][1] \in Timed =>
        Timely(p, s[j]) /\ \A i \in DOMAIN s : i < j => s[i][1] \in Calm

Requests(p) == {s \in Seq(Action) : InTime(p, s)}

LEMMA ActionParts ==
    ASSUME NEW a \in Action
    PROVE  /\ a[1] \in {"OpenView", "SetExpr", "RenameClass", "RemoveClass", "StartRenameClass",
                        "DeleteNode", "PushNode", "AddBytes", "Paste", "AddArray", "InsertAfter",
                        "ChangeKind", "SetArrayCount", "ExpandPointer"} => a[2] \in Ids
           /\ a[1] \in {"CloseView", "SelectView", "Toggle", "ToggleCollapse", "StartEdit"} =>
                a[2] \in Nat
           /\ a[1] \in {"Toggle", "ToggleCollapse", "DeleteNode", "InsertAfter", "ChangeKind",
                        "SetArrayCount", "ExpandPointer"} => a[3] \in Index
           /\ a[1] = "AddClass" => a[2] \in SeedRows
           /\ a[1] = "SetPtrWidth" => a[2] \in PtrWidth
           /\ a[1] = "ImportRcnet" => a[2] \in Imports
           /\ a[1] = "Load" => a[2] \in LoadableFiles
           /\ a[1] = "PushNode" => a[3] \in PluginKinds
           /\ a[1] = "AddBytes" => a[3] \in ByteCounts
           /\ a[1] = "Paste" => a[3] \in 0 .. MaxNodes
           /\ a[1] = "AddArray" => a[3] \in Kinds /\ a[4] \in Counts
           /\ a[1] = "InsertAfter" => a[4] \in PluginKinds
           /\ a[1] = "ChangeKind" => a[4] \in Kinds
           /\ a[1] = "SetArrayCount" => a[4] \in Counts
           /\ a[1] = "StartEdit" => a[3] \in Paths /\ a[4] \in Fields
           /\ a[1] = "ExpandPointer" => a[4] \in Nat /\ a[5] \in Index
BY DEF Action

\* What may be asked for may be asked for with more that is in time.
LEMMA RequestsOfOne ==
    ASSUME NEW p, NEW a \in Action, a[1] \in Timed => Timely(p, a)
    PROVE  <<a>> \in Requests(p)
BY DEF Requests, InTime

LEMMA RequestsConcat ==
    ASSUME NEW p, NEW s \in Requests(p), NEW t \in Requests(p),
           \/ \A i \in DOMAIN s : s[i][1] \in Calm
           \/ \A j \in DOMAIN t : t[j][1] \notin Timed
    PROVE  s \o t \in Requests(p)
<1> DEFINE m == Len(s)
           n == Len(t)
           u == s \o t
<1>1. /\ s \in Seq(Action) /\ t \in Seq(Action) /\ u \in Seq(Action)
      /\ m \in Nat /\ n \in Nat /\ DOMAIN s = 1 .. m /\ DOMAIN t = 1 .. n
      /\ DOMAIN u = 1 .. m + n
      /\ \A i \in 1 .. m : u[i] = s[i]
      /\ \A i \in m + 1 .. m + n : u[i] = t[i - m]
  BY DEF Requests
<1>2. InTime(p, s) /\ InTime(p, t)
  BY DEF Requests
<1> HIDE DEF m, n, u
<1>3. ASSUME NEW j \in DOMAIN u, u[j][1] \in Timed
      PROVE  Timely(p, u[j]) /\ \A i \in DOMAIN u : i < j => u[i][1] \in Calm
  <2>1. CASE j \in 1 .. m
    <3>1. Timely(p, u[j]) /\ \A i \in 1 .. m : i < j => s[i][1] \in Calm
      BY <1>1, <1>2, <1>3, <2>1 DEF InTime
    <3>2. \A i \in DOMAIN u : i < j => i \in 1 .. m
      BY <1>1, <2>1
    <3> QED
      BY <1>1, <3>1, <3>2
  <2>2. CASE j \in m + 1 .. m + n
    <3> DEFINE l == j - m
    <3>1. l \in 1 .. n /\ u[j] = t[l]
      BY <1>1, <2>2
    <3>2. Timely(p, u[j]) /\ \A i \in 1 .. n : i < l => t[i][1] \in Calm
      BY <1>1, <1>2, <1>3, <3>1 DEF InTime
    <3>3. \A i \in 1 .. m : s[i][1] \in Calm
      BY <1>1, <1>3, <3>1
    <3>4. \A i \in DOMAIN u : i < j => i \in 1 .. m \/ (i \in m + 1 .. m + n /\ i - m \in 1 .. n /\ i - m < l)
      BY <1>1, <2>2
    <3> QED
      BY <1>1, <3>2, <3>3, <3>4
  <2>3. j \in 1 .. m \/ j \in m + 1 .. m + n
    BY <1>1
  <2> QED
    BY <2>1, <2>2, <2>3
<1>4. InTime(p, u)
  BY <1>3 DEF InTime
<1> QED
  BY <1>1, <1>4 DEF Requests, u

\* So what is asked for with what loses the focus.
LEMMA AsksRequests ==
    ASSUME registry \in RegistryType, NEW above \in Requests(project),
           NEW below \in Requests(project), above = <<>> \/ below = <<>>,
           Asks(above, below)
    PROVE  actions' \in Requests(project)
<1> DEFINE rename == <<<<"RenameClass", app.renaming_class>>, <<"EndRenameClass">>>>
           commit == <<<<"CommitEdit">>>>
<1>1. <<>> \in Requests(project)
  BY DEF Requests, InTime
<1>2. /\ commit \in Requests(project)
      /\ \A j \in DOMAIN commit : commit[j][1] \notin Timed
  BY DEF Requests, InTime, Timed, Action
<1>3. ASSUME RenameShown
      PROVE  /\ rename \in Requests(project)
             /\ \A j \in DOMAIN rename : rename[j][1] \in Calm /\ rename[j][1] \notin Timed
  <2>1. app.renaming_class \in Ids
    BY <1>3 DEF RenameShown, RegistryType
  <2>2. <<"RenameClass", app.renaming_class>> \in Action /\ <<"EndRenameClass">> \in Action
    BY <2>1 DEF Action
  <2>3. DOMAIN rename = {1, 2}
    OBVIOUS
  <2> QED
    BY <2>2, <2>3 DEF Requests, InTime, Timed, Calm
<1> DEFINE R == {<<>>} \cup (IF RenameShown THEN {rename} ELSE {})
           T == {<<>>, commit}
<1>4. PICK r \in R, t \in T : actions' = above \o r \o below \o t
  BY DEF Asks
<1>5. /\ r \in Requests(project) /\ t \in Requests(project)
      /\ \A j \in DOMAIN r : r[j][1] \in Calm /\ r[j][1] \notin Timed
      /\ \A j \in DOMAIN t : t[j][1] \notin Timed
  BY <1>1, <1>2, <1>3
<1> HIDE DEF rename, commit, R, T
<1>6. above \o r \in Requests(project)
  BY <1>5, RequestsConcat
<1>7. above \o r \o below \in Requests(project)
  <2>1. CASE above = <<>>
    <3>1. above \o r = r
      BY <2>1, <1>5 DEF Requests
    <3> QED
      BY <1>5, <3>1, RequestsConcat
  <2>2. CASE below = <<>>
    <3>1. \A j \in DOMAIN below : below[j][1] \notin Timed
      BY <2>2
    <3> QED
      BY <1>6, <3>1, RequestsConcat
  <2> QED
    BY <2>1, <2>2
<1>8. above \o r \o below \o t \in Requests(project)
  BY <1>5, <1>7, RequestsConcat
<1> QED
  BY <1>4, <1>8

LEMMA AsksOne ==
    ASSUME registry \in RegistryType, NEW a \in Action, a[1] \in Timed => Timely(project, a),
           Asks(<<a>>, <<>>) \/ Asks(<<>>, <<a>>)
    PROVE  actions' \in Requests(project)
<1>1. <<a>> \in Requests(project) /\ <<>> \in Requests(project)
  BY RequestsOfOne DEF Requests, InTime
<1> QED
  BY <1>1, AsksRequests

LEMMA AsksNone ==
    ASSUME registry \in RegistryType, Asks(<<>>, <<>>)
    PROVE  actions' \in Requests(project)
<1>1. <<>> \in Requests(project)
  BY DEF Requests, InTime
<1> QED
  BY <1>1, AsksRequests

LEMMA ShortcutOne ==
    ASSUME NEW a \in Action, a[1] \notin Timed, Shortcut(a)
    PROVE  actions' \in Requests(project) /\ UNCHANGED app
<1>1. <<a>> \in Requests(project)
  BY RequestsOfOne
<1> QED
  BY <1>1 DEF Shortcut

\* What a frame is drawn from.
SoundRegistries == {reg \in RegistryType : Fits(reg) /\ NoDangling(reg)}

Drawable == TypeOK /\ registry \in SoundRegistries /\ app \in App

\* What a frame leaves when it is drawn.
Asked == actions' \in Requests(project) /\ app' \in App

LEMMA DrawableParts ==
    ASSUME Drawable
    PROVE  /\ registry \in RegistryType /\ registry \in Fitting
           /\ views \in Seq(Ids) /\ selected \in Nat /\ app.rows \subseteq Paths
           /\ MaxNodes \in Nat
           /\ Viewing => ViewClass \in Ids /\ selected + 1 \in DOMAIN views
<1>1. views \in Seq(Ids) /\ selected \in Nat /\ registry \in RegistryType
  BY TypeFields DEF Drawable, TypeOK
<1>2. Viewing => ViewClass \in Ids /\ selected + 1 \in DOMAIN views
  BY <1>1 DEF Viewing, ViewClass
<1> QED
  BY <1>1, <1>2, EditorAssumption DEF Drawable, SoundRegistries, Fitting, App

LEMMA KeysAsk == Drawable /\ Keys => Asked
<1> SUFFICES ASSUME Drawable, Keys PROVE actions' \in Requests(project) /\ UNCHANGED app
  BY DEF Drawable, Asked
<1>1. CASE Shortcut(<<"Undo">>) \/ Shortcut(<<"Redo">>) \/ Shortcut(<<"CopySelected">>)
  <2>1. \A tag \in {"Undo", "Redo", "CopySelected"} :
           <<tag>> \in Action /\ <<tag>>[1] \notin Timed
    BY DEF Action, Timed
  <2> QED
    BY <1>1, <2>1, ShortcutOne
<1>2. CASE Viewing /\ Shortcut(<<"Paste", ViewClass, PastePlace>>)
  <2>1. <<"Paste", ViewClass, PastePlace>> \in Action
    BY <1>2, DrawableParts, PastePlaceType DEF Action
  <2>2. <<"Paste", ViewClass, PastePlace>>[1] \notin Timed
    BY DEF Timed
  <2> QED
    BY <1>2, <2>1, <2>2, ShortcutOne
<1>3. CASE Deferred(<<>>, <<<<"DeleteSelected">>>>)
  <2>1. <<"DeleteSelected">> \in Action /\ <<"DeleteSelected">>[1] \notin Timed
    BY DEF Action, Timed
  <2> QED
    BY <1>3, <2>1, DrawableParts, AsksOne DEF Deferred
<1>4. ASSUME actions' = (IF RenameShown THEN <<<<"EndRenameClass">>>> ELSE <<>>)
                          \o (IF EditorShown THEN <<<<"CancelEdit">>>> ELSE <<>>)
      PROVE  actions' \in Requests(project)
  <2>1. <<>> \in Requests(project) /\ \A j \in DOMAIN <<>> : <<>>[j][1] \in Calm
    BY DEF Requests, InTime
  <2>2. /\ <<<<"EndRenameClass">>>> \in Requests(project)
        /\ <<<<"CancelEdit">>>> \in Requests(project)
    BY RequestsOfOne DEF Action, Timed
  <2>3. \A j \in DOMAIN <<<<"EndRenameClass">>>> : <<<<"EndRenameClass">>>>[j][1] \in Calm
    BY DEF Calm
  <2> QED
    BY <1>4, <2>1, <2>2, <2>3, RequestsConcat
<1> QED
  BY <1>1, <1>2, <1>3, <1>4 DEF Keys, Shortcut, Deferred

LEMMA MenuAsks == Drawable /\ Menu => Asked
<1> SUFFICES ASSUME Drawable, Menu PROVE actions' \in Requests(project) /\ UNCHANGED app
  BY DEF Drawable, Asked
<1>1. ASSUME NEW a \in Action, a[1] \notin Timed, Deferred(<<a>>, <<>>)
      PROVE  actions' \in Requests(project) /\ UNCHANGED app
  BY <1>1, DrawableParts, AsksOne DEF Deferred
<1>2. \A tag \in {"Undo", "Redo", "CopySelected"} :
           <<tag>> \in Action /\ <<tag>>[1] \notin Timed
  BY DEF Action, Timed
<1>3. ASSUME Viewing PROVE <<"Paste", ViewClass, PastePlace>> \in Action
  BY <1>3, DrawableParts, PastePlaceType DEF Action
<1>4. \A file \in LoadableFiles : <<"Load", file>> \in Action
  BY DEF Action
<1>5. \A reg \in Imports : <<"ImportRcnet", reg>> \in Action
  BY DEF Action
<1>6. \A ptr \in PtrWidth : <<"SetPtrWidth", ptr>> \in Action
  BY DEF Action
<1>7. \A x, y : /\ <<"Paste", x, y>>[1] \notin Timed /\ <<"Load", x>>[1] \notin Timed
                /\ <<"ImportRcnet", x>>[1] \notin Timed /\ <<"SetPtrWidth", x>>[1] \notin Timed
  BY DEF Timed
<1> QED
  BY <1>1, <1>2, <1>3, <1>4, <1>5, <1>6, <1>7 DEF Menu

\* One action that makes sense whenever it is drawn.
LEMMA DeferredOne ==
    ASSUME Drawable, NEW a \in Action, a[1] \in Timed => Timely(project, a),
           Deferred(<<a>>, <<>>) \/ Deferred(<<>>, <<a>>)
    PROVE  Asked
<1>1. actions' \in Requests(project)
  BY DrawableParts, AsksOne DEF Deferred
<1> QED
  BY <1>1 DEF Asked, Deferred, Drawable

\* What the interface remembers, with other parts selected.
LEMMA AppWith ==
    ASSUME NEW a \in App
    PROVE  /\ \A S \in SUBSET Ids : [a EXCEPT !.selected_classes = S] \in App
           /\ \A S \in SUBSET Ids, i \in Int :
                  [a EXCEPT !.selected_classes = S, !.class_anchor = i] \in App
           /\ \A S \in SUBSET Paths, i \in Int :
                  [a EXCEPT !.rows = S, !.sel_anchor = i] \in App
           /\ \A S \in SUBSET Paths : [a EXCEPT !.rows = S] \in App
           /\ \A e \in {NoEdit} \cup (Nat \X Paths \X Fields) : [a EXCEPT !.editing = e] \in App
           /\ \A c \in Ids \cup {Nothing} : [a EXCEPT !.renaming_class = c] \in App
<1> DEFINE E == {NoEdit} \cup (Nat \X Paths \X Fields)
           P == SUBSET Paths
           C == SUBSET Ids
           N == Ids \cup {Nothing}
<1>1. App = [editing : E, rows : P, sel_anchor : Int, selected_classes : C,
             class_anchor : Int, renaming_class : N]
  BY DEF App
<1> HIDE DEF E, P, C, N
<1>2. /\ \A S \in C : [a EXCEPT !.selected_classes = S] \in App
      /\ \A S \in C, i \in Int : [a EXCEPT !.selected_classes = S, !.class_anchor = i] \in App
      /\ \A S \in P, i \in Int : [a EXCEPT !.rows = S, !.sel_anchor = i] \in App
      /\ \A S \in P : [a EXCEPT !.rows = S] \in App
      /\ \A e \in E : [a EXCEPT !.editing = e] \in App
      /\ \A c \in N : [a EXCEPT !.renaming_class = c] \in App
  BY <1>1
<1> QED
  BY <1>2 DEF E, P, C, N

LEMMA ClickAsks ==
    ASSUME Drawable, NEW i \in DOMAIN ClassList, ClickClass(i)
    PROVE  Asked
<1> DEFINE c == ClassList[i]
<1>1. c \in registry.live /\ c \in Ids /\ i \in Nat
  <2>1. DOMAIN ClassList = 1 .. Cardinality(registry.live)
    BY DEF ClassList, Listing
  <2> QED
    BY <2>1, DrawableParts, ClassListType
<1>2. actions' \in Requests(project)
  <2>1. CASE Asks(<<<<"OpenView", c>>>>, <<>>)
    <3>1. <<"OpenView", c>> \in Action
      BY <1>1 DEF Action
    <3>2. Timely(project, <<"OpenView", c>>)
      BY <1>1 DEF Timely, registry
    <3> QED
      BY <2>1, <3>1, <3>2, DrawableParts, AsksOne
  <2>2. CASE Asks(<<>>, <<>>)
    BY <2>2, DrawableParts, AsksNone
  <2> QED
    BY <2>1, <2>2 DEF ClickClass
<1>3. app' \in App
  <2>1. /\ app.selected_classes \in SUBSET Ids
        /\ app.class_anchor \in Int
        /\ app \in App
    BY DEF Drawable, App
  <2>2. Flip(app.selected_classes, c) \in SUBSET Ids
    BY <1>1, <2>1 DEF Flip
  <2>3. app.class_anchor \in DOMAIN ClassList =>
            Span(ClassList, app.class_anchor, i) \in SUBSET Ids
    <3> SUFFICES ASSUME app.class_anchor \in DOMAIN ClassList
                 PROVE  Span(ClassList, app.class_anchor, i) \in SUBSET Ids
      OBVIOUS
    <3> DEFINE a == app.class_anchor
               n == Cardinality(registry.live)
    <3>1. DOMAIN ClassList = 1 .. n
      BY DEF ClassList, Listing
    <3>2. i \in 1 .. n /\ a \in 1 .. n
      BY <3>1
    <3>3. \A m \in Smaller(a, i) .. a + i - Smaller(a, i) : m \in 1 .. n
      <4>1. Smaller(a, i) = a \/ Smaller(a, i) = i
        BY DEF Smaller
      <4> HIDE DEF n, a
      <4>2. CASE n \in Int
        BY <3>2, <4>1, <4>2
      <4>3. n \in Nat
        <5>1. IsFiniteSet(registry.live) /\ Cardinality(registry.live) \in Nat
          <6>1. 0 \in Int /\ MaxId - 1 \in Int
            BY RegistryAssumption
          <6>2. IsFiniteSet(Ids)
            BY <6>1, FS_Interval DEF Ids
          <6>3. registry.live \subseteq Ids
            BY DrawableParts DEF RegistryType
          <6> QED
            BY <6>2, <6>3, FS_Subset, FS_CardinalityType
        <5> QED
          BY <5>1 DEF n
      <4> QED
        BY <4>2, <4>3
    <3> HIDE DEF a, n
    <3>4. \A m \in 1 .. n : ClassList[m] \in Ids
      BY <3>1, DrawableParts, ClassListType
    <3>5. Span(ClassList, a, i) \in SUBSET Ids
      BY <3>3, <3>4 DEF Span
    <3> QED
      BY <3>5 DEF a
  <2> HIDE DEF c
  <2>4. ASSUME NEW S \in SUBSET Ids,
               app' = [app EXCEPT !.selected_classes = S, !.class_anchor = i]
        PROVE  app' \in App
    <3>1. i \in Int
      BY <1>1
    <3>2. [app EXCEPT !.selected_classes = S, !.class_anchor = i] \in App
      BY <2>1, <3>1, AppWith
    <3> QED
      BY <2>4, <3>2
  <2>5. CASE app' = [app EXCEPT !.selected_classes = {c}, !.class_anchor = i]
    <3>1. {c} \in SUBSET Ids
      BY <1>1
    <3> QED
      BY <2>4, <2>5, <3>1
  <2>6. CASE app' = [app EXCEPT !.selected_classes = Flip(@, c), !.class_anchor = i]
    <3>1. app' = [app EXCEPT !.selected_classes = Flip(app.selected_classes, c),
                            !.class_anchor = i]
      BY <2>6
    <3> QED
      BY <2>2, <2>4, <3>1
  <2>7. CASE app' = IF app.class_anchor \in DOMAIN ClassList
                   THEN [app EXCEPT !.selected_classes = Span(ClassList, app.class_anchor, i)]
                   ELSE [app EXCEPT !.selected_classes = @ \cup {c}, !.class_anchor = i]
    <3>1. CASE app.class_anchor \in DOMAIN ClassList
      <4>1. [app EXCEPT !.selected_classes = Span(ClassList, app.class_anchor, i)] \in App
        BY <2>1, <2>3, <3>1, AppWith
      <4> QED
        BY <2>7, <3>1, <4>1
    <3>2. CASE app.class_anchor \notin DOMAIN ClassList
      <4>1. app' = [app EXCEPT !.selected_classes = app.selected_classes \cup {c},
                              !.class_anchor = i]
        BY <2>7, <3>2
      <4>2. app.selected_classes \cup {c} \in SUBSET Ids
        BY <1>1, <2>1
      <4> QED
        BY <2>4, <4>1, <4>2
    <3> QED
      BY <3>1, <3>2
  <2> QED
    BY <2>5, <2>6, <2>7 DEF ClickClass, c
<1> QED
  BY <1>2, <1>3 DEF Asked

LEMMA SidePanelAsks == Drawable /\ SidePanel => Asked
<1> SUFFICES ASSUME Drawable, SidePanel PROVE Asked
  OBVIOUS
<1>1. ASSUME NEW rows \in SeedRows, Deferred(<<<<"AddClass", rows>>>>, <<>>) PROVE Asked
  <2>1. <<"AddClass", rows>> \in Action /\ <<"AddClass", rows>>[1] \notin Timed
    BY DEF Action, Timed
  <2> QED
    BY <1>1, <2>1, DeferredOne
<1>2. ASSUME NEW i \in DOMAIN ClassList, ClickClass(i) PROVE Asked
  BY <1>2, ClickAsks
<1>3. ASSUME NEW i \in DOMAIN ClassList, NEW tag \in {"OpenView", "StartRenameClass", "RemoveClass"},
             Deferred(<<<<tag, ClassList[i]>>>>, <<>>)
      PROVE  Asked
  <2>1. ClassList[i] \in registry.live /\ ClassList[i] \in Ids
    BY DrawableParts, ClassListType
  <2>2. <<tag, ClassList[i]>> \in Action
    BY <2>1 DEF Action
  <2>3. tag \in Timed => tag = "OpenView"
    BY DEF Timed
  <2>4. tag = "OpenView" => Timely(project, <<tag, ClassList[i]>>)
    BY <2>1 DEF Timely, registry
  <2> QED
    BY <1>3, <2>2, <2>3, <2>4, DeferredOne
<1>4. ASSUME Deferred(<<<<"RemoveSelectedClasses">>>>, <<>>) PROVE Asked
  <2>1. <<"RemoveSelectedClasses">> \in Action /\ <<"RemoveSelectedClasses">>[1] \notin Timed
    BY DEF Action, Timed
  <2> QED
    BY <1>4, <2>1, DeferredOne
<1> QED
  BY <1>1, <1>2, <1>3, <1>4 DEF SidePanel

LEMMA ToolbarAsks == Drawable /\ Viewing /\ Toolbar(ViewClass) => Asked
<1> SUFFICES ASSUME Drawable, Viewing, Toolbar(ViewClass) PROVE Asked
  OBVIOUS
<1> DEFINE c == ViewClass
<1>0. c \in Ids /\ Len(views) \in Nat
  BY DrawableParts
<1>1. ASSUME NEW root \in Roots, NEW tag \in {"SelectView", "CloseView"},
             Deferred(<<>>, <<<<tag, root>>>>)
      PROVE  Asked
  <2>1. root \in Nat /\ root < Len(views)
    BY <1>0 DEF Roots
  <2>2. <<tag, root>> \in Action
    BY <2>1 DEF Action
  <2>3. Timely(project, <<tag, root>>)
    BY <2>1 DEF Timely, views
  <2> QED
    BY <1>1, <2>2, <2>3, DeferredOne
<1>2. CASE Deferred(<<>>, <<<<"RenameClass", c>>>>)
  <2>1. <<"RenameClass", c>> \in Action /\ <<"RenameClass", c>>[1] \notin Timed
    BY <1>0 DEF Action, Timed
  <2> QED
    BY <1>2, <2>1, DeferredOne
<1>3. ASSUME NEW k \in PluginKinds, Deferred(<<>>, <<<<"PushNode", c, k>>>>) PROVE Asked
  <2>1. <<"PushNode", c, k>> \in Action /\ <<"PushNode", c, k>>[1] \notin Timed
    BY <1>0 DEF Action, Timed
  <2> QED
    BY <1>3, <2>1, DeferredOne
<1>4. ASSUME NEW n \in ByteCounts, Deferred(<<>>, <<<<"AddBytes", c, n>>>>) PROVE Asked
  <2>1. <<"AddBytes", c, n>> \in Action /\ <<"AddBytes", c, n>>[1] \notin Timed
    BY <1>0 DEF Action, Timed
  <2> QED
    BY <1>4, <2>1, DeferredOne
<1>5. ASSUME NEW tag \in {"ExpandAll", "CollapseAll"}, Deferred(<<>>, <<<<tag>>>>) PROVE Asked
  <2>1. <<tag>> \in Action /\ <<tag>>[1] \notin Timed
    BY DEF Action, Timed
  <2> QED
    BY <1>5, <2>1, DeferredOne
<1>6. ASSUME NEW k \in Choice(Kinds), NEW n \in Counts,
             Deferred(<<>>, <<<<"AddArray", c, k, n>>>>)
      PROVE  Asked
  <2>1. k \in Kinds /\ Known(project, k)
    BY DEF Choice, Known, registry
  <2>2. <<"AddArray", c, k, n>> \in Action
    BY <1>0, <2>1 DEF Action
  <2>3. Timely(project, <<"AddArray", c, k, n>>)
    BY <2>1 DEF Timely
  <2> QED
    BY <1>6, <2>2, <2>3, DeferredOne
<1> QED
  BY <1>1, <1>2, <1>3, <1>4, <1>5, <1>6 DEF Toolbar

\* A row is a path, and one of the class itself is one of its nodes.
LEMMA RowType ==
    ASSUME Drawable, NEW n \in DOMAIN RowList
    PROVE  /\ Viewing /\ n \in Nat /\ RowList[n] \in Paths
           /\ Len(RowList[n]) = 1 =>
                  \E i \in Index : RowList[n] = <<i>> /\ i < Len(registry.nodes[ViewClass])
<1> DEFINE m == Len(registry.nodes[ViewClass])
<1>1. Viewing
  BY DEF RowList
<1>2. /\ ViewClass \in Ids /\ MaxNodes \in Nat /\ registry \in Fitting /\ selected \in Nat
      /\ registry \in RegistryType
  BY <1>1, DrawableParts
<1>3. m \in Nat /\ m <= MaxNodes
  BY <1>2, NodeList DEF Fitting, Fits
<1>4. RowList \in Seq(Singles(ViewClass) \cup Pairs)
  BY <1>1, <1>2, RowListType
<1>5. n \in Nat /\ RowList[n] \in Singles(ViewClass) \cup Pairs
  <2> HIDE DEF RowList
  <2> QED
    BY <1>4
<1>6. CASE RowList[n] \in Singles(ViewClass)
  <2>1. PICK i \in 0 .. m - 1 : RowList[n] = <<i>>
    BY <1>6 DEF Singles
  <2>2. i \in Index /\ i \in 0 .. MaxNodes /\ i < m
    BY <1>2, <1>3, <2>1 DEF Index
  <2> QED
    BY <1>1, <1>5, <2>1, <2>2 DEF Paths
<1>7. CASE RowList[n] \in Pairs
  <2>1. Len(RowList[n]) = 2
    BY <1>7 DEF Pairs
  <2> QED
    BY <1>1, <1>5, <1>7, <2>1 DEF Paths, Pairs
<1> QED
  BY <1>5, <1>6, <1>7

LEMMA SelectRowAsks == ASSUME Drawable, NEW n \in DOMAIN RowList, SelectRow(n) PROVE Asked
<1>1. n \in Nat /\ RowList[n] \in Paths /\ app \in App /\ app.rows \in SUBSET Paths
  BY RowType, DrawableParts DEF Drawable
<1>2. actions' \in Requests(project)
  BY DrawableParts, AsksNone DEF SelectRow
<1> SUFFICES app' \in App
  BY <1>2 DEF Asked
<1>3. ASSUME NEW S \in SUBSET Paths, app' = [app EXCEPT !.rows = S, !.sel_anchor = n]
      PROVE  app' \in App
  <2>1. n \in Int
    BY <1>1
  <2>2. [app EXCEPT !.rows = S, !.sel_anchor = n] \in App
    BY <1>1, <2>1, AppWith
  <2> QED
    BY <1>3, <2>2
<1>4. CASE app' = [app EXCEPT !.rows = {RowList[n]}, !.sel_anchor = n]
  <2>1. {RowList[n]} \in SUBSET Paths
    BY <1>1
  <2> QED
    BY <1>3, <1>4, <2>1
<1>5. CASE app' = [app EXCEPT !.rows = Flip(@, RowList[n]), !.sel_anchor = n]
  <2>1. Flip(app.rows, RowList[n]) \in SUBSET Paths
    BY <1>1 DEF Flip
  <2>2. app' = [app EXCEPT !.rows = Flip(app.rows, RowList[n]), !.sel_anchor = n]
    BY <1>5
  <2> QED
    BY <1>3, <2>1, <2>2
<1>6. CASE app' = IF app.sel_anchor \in DOMAIN RowList
                 THEN [app EXCEPT !.rows = Span(RowList, app.sel_anchor, n)]
                 ELSE [app EXCEPT !.rows = @ \cup {RowList[n]}, !.sel_anchor = n]
  <2>1. CASE app.sel_anchor \in DOMAIN RowList
    <3> DEFINE a == app.sel_anchor
               m == Len(RowList)
               S == Span(RowList, a, n)
    <3>1. m \in Nat /\ DOMAIN RowList = 1 .. m
      <4>1. Viewing /\ registry \in Fitting /\ ViewClass \in Ids /\ selected \in Nat
        BY RowType, DrawableParts
      <4>2. RowList \in Seq(Singles(ViewClass) \cup Pairs)
        BY <4>1, RowListType
      <4> HIDE DEF RowList
      <4> QED
        BY <4>2
    <3>2. a \in 1 .. m /\ n \in 1 .. m
      BY <2>1, <3>1
    <3>3. Smaller(a, n) = a \/ Smaller(a, n) = n
      BY DEF Smaller
    <3> HIDE DEF m, a
    <3>4. \A i \in Smaller(a, n) .. a + n - Smaller(a, n) : i \in 1 .. m
      BY <3>1, <3>2, <3>3
    <3>5. \A i \in 1 .. m : RowList[i] \in Paths
      BY <3>1, RowType
    <3>6. S \in SUBSET Paths
      BY <3>4, <3>5 DEF Span
    <3>7. app' = [app EXCEPT !.rows = S]
      BY <1>6, <2>1 DEF a
    <3> HIDE DEF S
    <3>8. [app EXCEPT !.rows = S] \in App
      BY <1>1, <3>6, AppWith
    <3> QED
      BY <3>7, <3>8
  <2>2. CASE app.sel_anchor \notin DOMAIN RowList
    <3>1. app' = [app EXCEPT !.rows = app.rows \cup {RowList[n]}, !.sel_anchor = n]
      BY <1>6, <2>2
    <3>2. app.rows \cup {RowList[n]} \in SUBSET Paths
      BY <1>1
    <3> QED
      BY <1>3, <3>1, <3>2
  <2> QED
    BY <2>1, <2>2
<1> QED
  BY <1>4, <1>5, <1>6 DEF SelectRow

\* The triangle of a node of the class shown.
LEMMA TriangleAsks ==
    ASSUME Drawable, Viewing, NEW i \in Index, i < Len(registry.nodes[ViewClass]),
           Triangle(ViewClass, i)
    PROVE  Asked
<1> DEFINE c == ViewClass
           k == RowKind(selected, i)
<1>1. c \in Ids /\ selected \in Nat /\ selected < Len(views)
  BY DrawableParts DEF Viewing
<1>2. /\ RowOf(project, <<"Toggle", selected, i>>) = registry.nodes[c]
      /\ RowOf(project, <<"ToggleCollapse", selected, i>>) = registry.nodes[c]
      /\ k = registry.nodes[c][i + 1].kind
  BY DEF RowOf, RowKind, ViewClass, registry, views
<1>3. CASE Deferred(<<>>, <<<<"ExpandPointer", c, i, selected, i>>>>)
  <2>1. <<"ExpandPointer", c, i, selected, i>> \in Action
    BY <1>1 DEF Action
  <2>2. Timely(project, <<"ExpandPointer", c, i, selected, i>>)
    BY <1>1 DEF Timely, views
  <2> QED
    BY <1>3, <2>1, <2>2, DeferredOne
<1>4. CASE IsClassPtr(k) /\ Deferred(<<>>, <<<<"Toggle", selected, i>>>>)
  <2>1. <<"Toggle", selected, i>> \in Action
    BY <1>1 DEF Action
  <2>2. Timely(project, <<"Toggle", selected, i>>)
    BY <1>1, <1>2, <1>4 DEF Timely, views
  <2> QED
    BY <1>4, <2>1, <2>2, DeferredOne
<1>5. CASE IsAggregate(k) /\ Deferred(<<>>, <<<<"ToggleCollapse", selected, i>>>>)
  <2>1. <<"ToggleCollapse", selected, i>> \in Action
    BY <1>1 DEF Action
  <2>2. Timely(project, <<"ToggleCollapse", selected, i>>)
    BY <1>1, <1>2, <1>5 DEF Timely, views
  <2> QED
    BY <1>5, <2>1, <2>2, DeferredOne
<1> QED
  BY <1>3, <1>4, <1>5 DEF Triangle

LEMMA TwoOfOne == ASSUME NEW a, NEW b PROVE <<a>> \o <<b>> = <<a, b>>
<1> DEFINE s == <<a>> \o <<b>>
           t == <<a, b>>
<1>1. s \in Seq({a, b}) /\ t \in Seq({a, b})
  BY ConcatProperties
<1>2. Len(s) = 2 /\ s[1] = a /\ s[2] = b /\ Len(t) = 2 /\ t[1] = a /\ t[2] = b
  BY ConcatProperties
<1>3. \A i \in 1 .. 2 : i = 1 \/ i = 2
  OBVIOUS
<1> HIDE DEF s, t
<1>4. s = t
  BY <1>1, <1>2, <1>3, SeqEqual
<1> QED
  BY <1>4 DEF s, t

LEMMA NodeMenuAsks ==
    ASSUME Drawable, NEW c \in Ids, NEW i \in Nat, HasNode(registry, c, i), NodeMenu(c, i)
    PROVE  Asked
<1> DEFINE k == registry.nodes[c][i + 1].kind
<1>1. /\ i \in Index /\ i + 1 \in 0 .. MaxNodes /\ c \in registry.live
      /\ i + 1 \in DOMAIN registry.nodes[c] /\ k \in Kind
  <2>1. registry \in Fitting /\ MaxNodes \in Nat /\ registry \in RegistryType
    BY DrawableParts
  <2>2. /\ Len(registry.nodes[c]) \in Nat /\ Len(registry.nodes[c]) <= MaxNodes
        /\ DOMAIN registry.nodes[c] = 1 .. Len(registry.nodes[c])
    BY <2>1, NodeList DEF Fitting, Fits
  <2>3. i + 1 \in DOMAIN registry.nodes[c]
    BY <2>2 DEF HasNode
  <2>4. k \in Kind
    BY <2>1, <2>3, NodeList
  <2> QED
    BY <2>1, <2>2, <2>3, <2>4 DEF HasNode, Index
<1>2. ASSUME NEW j \in Choice(Kinds), Deferred(<<>>, <<<<"ChangeKind", c, i, j>>>>) PROVE Asked
  <2>1. j \in Kinds /\ Known(project, j)
    BY DEF Choice, Known, registry
  <2>2. <<"ChangeKind", c, i, j>> \in Action
    BY <1>1, <2>1 DEF Action
  <2>3. Timely(project, <<"ChangeKind", c, i, j>>)
    BY <2>1 DEF Timely
  <2> QED
    BY <1>2, <2>2, <2>3, DeferredOne
<1>3. ASSUME NEW n \in Counts, Deferred(<<>>, <<<<"SetArrayCount", c, i, n>>>>) PROVE Asked
  <2>1. <<"SetArrayCount", c, i, n>> \in Action /\ <<"SetArrayCount", c, i, n>>[1] \notin Timed
    BY <1>1 DEF Action, Timed
  <2> QED
    BY <1>3, <2>1, DeferredOne
<1>4. CASE Deferred(<<>>, <<<<"Paste", c, i + 1>>>>)
  <2>1. <<"Paste", c, i + 1>> \in Action /\ <<"Paste", c, i + 1>>[1] \notin Timed
    BY <1>1 DEF Action, Timed
  <2> QED
    BY <1>4, <2>1, DeferredOne
<1>5. ASSUME NEW j \in PluginKinds, Deferred(<<>>, <<<<"InsertAfter", c, i, j>>>>) PROVE Asked
  <2>1. <<"InsertAfter", c, i, j>> \in Action /\ <<"InsertAfter", c, i, j>>[1] \notin Timed
    BY <1>1 DEF Action, Timed
  <2> QED
    BY <1>5, <2>1, DeferredOne
<1>6. CASE Deferred(<<>>, <<<<"DeleteNode", c, i>>>>)
  <2>1. <<"DeleteNode", c, i>> \in Action /\ <<"DeleteNode", c, i>>[1] \notin Timed
    BY <1>1 DEF Action, Timed
  <2> QED
    BY <1>6, <2>1, DeferredOne
<1>7. CASE Deferred(<<>>, <<<<"DeleteSelected">>>>)
  <2>1. <<"DeleteSelected">> \in Action /\ <<"DeleteSelected">>[1] \notin Timed
    BY DEF Action, Timed
  <2> QED
    BY <1>7, <2>1, DeferredOne
<1>8. ASSUME NEW t \in Target(k) PROVE t \in Ids /\ t \in registry.live
  <2>1. t \in Referenced(k) /\ t \in Ids
    BY <1>1, <1>8 DEF Target, Referenced, Kind
  <2>2. k \in KindsOf(registry, c) /\ NoDangling(registry)
    BY <1>1 DEF KindsOf, Drawable, SoundRegistries
  <2> QED
    BY <1>1, <2>1, <2>2 DEF NoDangling
<1>9. ASSUME NEW t \in Target(k), Deferred(<<>>, <<<<"SetExpr", t>>, <<"OpenView", t>>>>)
      PROVE  Asked
  <2> DEFINE set  == <<"SetExpr", t>>
             open == <<"OpenView", t>>
  <2>1. set \in Action /\ set[1] \notin Timed /\ set[1] \in Calm
    BY <1>8 DEF Action, Timed, Calm
  <2>2. open \in Action /\ Timely(project, open)
    BY <1>8 DEF Action, Timely, registry
  <2> HIDE DEF set, open
  <2>3. <<set>> \in Requests(project) /\ <<open>> \in Requests(project)
        /\ <<>> \in Requests(project)
    BY <2>1, <2>2, RequestsOfOne DEF Requests, InTime
  <2>4. <<set>> \o <<open>> \in Requests(project)
    <3>1. \A j \in DOMAIN <<set>> : <<set>>[j][1] \in Calm
      BY <2>1
    <3> QED
      BY <2>3, <3>1, RequestsConcat
  <2>5. <<set>> \o <<open>> = <<set, open>>
    BY TwoOfOne
  <2>6. actions' \in Requests(project)
    <3>1. Asks(<<>>, <<set, open>>)
      BY <1>9 DEF Deferred, set, open
    <3>2. <<set, open>> \in Requests(project) /\ registry \in RegistryType
      BY <2>4, <2>5, DrawableParts
    <3> QED
      BY <2>3, <3>1, <3>2, AsksRequests
  <2> QED
    BY <1>9, <2>6 DEF Deferred, Asked, Drawable
<1>10. ASSUME NEW t \in Target(k), NEW n \in ByteCounts,
              Deferred(<<>>, <<<<"AddBytes", t, n>>>>)
       PROVE  Asked
  <2>1. <<"AddBytes", t, n>> \in Action /\ <<"AddBytes", t, n>>[1] \notin Timed
    BY <1>8 DEF Action, Timed
  <2> QED
    BY <1>10, <2>1, DeferredOne
<1> QED
  BY <1>2, <1>3, <1>4, <1>5, <1>6, <1>7, <1>9, <1>10 DEF NodeMenu

\* What plugins wish for makes sense in whatever state.
LEMMA WishesUntimed == ASSUME NEW a \in Wishes PROVE a \in Action /\ a[1] \notin Timed
<1> USE FrameAssumption DEF Action, Timed
<1>1. CASE a = <<"AddClass", 0>>
  BY <1>1
<1>2. ASSUME NEW t \in PluginTargets, NEW k \in PluginKinds, a = <<"PushNode", t[1], k>>
      PROVE  a \in Action /\ a[1] \notin Timed
  BY <1>2
<1>3. ASSUME NEW t \in PluginTargets, a = <<"DeleteNode", t[1], t[2]>>
      PROVE  a \in Action /\ a[1] \notin Timed
  BY <1>3
<1>4. ASSUME NEW file \in LoadableFiles, a = <<"Load", file>>
      PROVE  a \in Action /\ a[1] \notin Timed
  BY <1>4
<1> QED
  BY <1>1, <1>2, <1>3, <1>4 DEF Wishes

LEMMA TableAsks == Drawable /\ Viewing /\ Table => Asked
<1> SUFFICES ASSUME Drawable, Viewing, NEW n \in DOMAIN RowList,
                    \/ SelectRow(n)
                    \/ Len(RowList[n]) = 1 /\ Triangle(ViewClass, RowList[n][1])
                    \/ \E field \in Fields :
                        Deferred(<<>>, <<<<"StartEdit", selected, RowList[n], field>>>>)
                    \/ \E t \in Owner(ViewClass, RowList[n]) : NodeMenu(t[1], t[2])
                    \/ \E wish \in Wishes : Deferred(<<>>, <<wish>>)
             PROVE  Asked
  BY DEF Table
<1>1. CASE SelectRow(n)
  BY <1>1, SelectRowAsks
<1>2. CASE Len(RowList[n]) = 1 /\ Triangle(ViewClass, RowList[n][1])
  <2>1. PICK i \in Index : RowList[n] = <<i>> /\ i < Len(registry.nodes[ViewClass])
    BY <1>2, RowType
  <2>2. Triangle(ViewClass, i)
    BY <1>2, <2>1
  <2> QED
    BY <2>1, <2>2, TriangleAsks
<1>3. ASSUME NEW field \in Fields,
             Deferred(<<>>, <<<<"StartEdit", selected, RowList[n], field>>>>)
      PROVE  Asked
  <2>1. RowList[n] \in Paths /\ selected \in Nat
    BY RowType, DrawableParts
  <2>2. <<"StartEdit", selected, RowList[n], field>> \in Action
    BY <2>1 DEF Action
  <2>3. <<"StartEdit", selected, RowList[n], field>>[1] \notin Timed
    BY DEF Timed
  <2> QED
    BY <1>3, <2>2, <2>3, DeferredOne
<1>4. ASSUME NEW t \in Owner(ViewClass, RowList[n]), NodeMenu(t[1], t[2])
      PROVE  Asked
  <2>1. RowList[n] \in Seq(Nat) /\ RowList[n] # <<>>
    BY RowType, DrawableParts, PathType
  <2>2. t \in Ids \X Nat /\ HasNode(registry, t[1], t[2])
    BY <2>1, DrawableParts, OwnerFound
  <2> QED
    BY <1>4, <2>2, NodeMenuAsks
<1>5. ASSUME NEW wish \in Wishes, Deferred(<<>>, <<wish>>)
      PROVE  Asked
  BY <1>5, WishesUntimed, DeferredOne
<1> QED
  BY <1>1, <1>2, <1>3, <1>4, <1>5

\* Whatever a user does to a frame asks for what can be done then.
LEMMA GestureAsks == Drawable /\ Gesture => Asked
<1>1. Drawable /\ Deferred(<<>>, <<>>) => Asked
  BY DrawableParts, AsksNone DEF Asked, Deferred, Drawable
<1> QED
  BY <1>1, KeysAsk, MenuAsks, SidePanelAsks, ToolbarAsks, TableAsks DEF Gesture

-----------------------------------------------------------------------------
(* What is applied.                                                        *)

\* Callers name classes there are, plugins push kinds that name none, files
\* and imports are whole and within the bounds, and so is every selection.
CleanInputs ==
    /\ LiveRefsOnly
    /\ \A k \in PluginKinds : Referenced(k) = {}
    /\ \A reg \in Imports : NoDangling(reg) /\ Fits(reg)
    /\ \A f \in LoadableFiles : Fits(f.registry)
    /\ Cardinality(Targets) <= MaxSelection

FrameInv ==
    /\ TypeOK
    /\ AllOver(SoundRegistries)
    /\ app \in App
    /\ phase \in {"new", "calls", "actions", "plugins"}
    /\ actions \in Requests(project)
    /\ plugin_actions \in Seq(Wishes)
    /\ phase # "actions" => actions = <<>>

\* A class that goes leaves the others as long as they were.
LEMMA ClassRemovedFits ==
    ASSUME NEW reg \in Fitting, NEW id \in Ids
    PROVE  Fits(ClassRemoved(reg, id))
<1>0. reg \in RegistryType /\ MaxNodes \in Nat
  BY EditorAssumption DEF Fitting
<1>1. CASE id \notin reg.live
  BY <1>1 DEF ClassRemoved, ClassDropped, Fitting
<1>2. CASE id \in reg.live
  <2> DEFINE size == SizeOf(reg, id)
  <2>1. ASSUME NEW c \in Ids PROVE Len(ClassRemoved(reg, id).nodes[c]) <= MaxNodes
    <3> DEFINE old == reg.nodes[c]
               new == [i \in DOMAIN old |-> [old[i] EXCEPT !.kind = DropClassRef(@, id, size)]]
    <3>1. ClassRemoved(reg, id).nodes[c] = IF c = id THEN <<>> ELSE new
      BY <1>0, <1>2 DEF ClassRemoved, ClassDropped, RegistryType
    <3>2. Len(old) \in Nat /\ DOMAIN old = 1 .. Len(old) /\ Len(old) <= MaxNodes
      BY <1>0, NodeList DEF Fitting, Fits
    <3> DEFINE n == Len(old)
    <3>3. Len([i \in 1 .. n |-> [old[i] EXCEPT !.kind = DropClassRef(@, id, size)]]) = n
      <4> HIDE DEF size, old, n
      <4>1. n \in Nat
        BY <3>2 DEF n
      <4> QED
        BY <4>1
    <3>4. Len(new) = n
      BY <3>2, <3>3
    <3>5. Len(<<>>) = 0
      OBVIOUS
    <3> HIDE DEF new, n
    <3> QED
      BY <1>0, <3>1, <3>2, <3>4, <3>5 DEF n
  <2> QED
    BY <2>1 DEF Fits
<1> QED
  BY <1>1, <1>2

\* An edit keeps within the bound, and what names a class names one there is.
LEMMA SoundStep ==
    ASSUME TypeOK, registry \in SoundRegistries, Next, ~ProjectSteps, LiveRefsOnly
    PROVE  registry' \in SoundRegistries
<1>0. /\ registry \in RegistryType /\ registry' \in RegistryType /\ Edited
      /\ Fits(registry) /\ NoDangling(registry) /\ registry \in Fitting
  BY StepEdits, TypeFields DEF SoundRegistries, Fitting, TypeOK, Project, registry
<1>1. NoDangling(registry')
  BY <1>0, EditNoDangling DEF Named
<1>2. \A reg : Commit(reg) => Fits(registry')
  BY DEF Commit, registry, TypeOK, Project
<1>3. \A reg : EditRegistry(reg) => Fits(registry')
  BY <1>2 DEF EditRegistry
<1>4. UNCHANGED project => Fits(registry')
  BY <1>0 DEF registry
<1>5. ASSUME NEW name \in Labels, NEW rows \in SeedRows, AddClass(name, rows) PROVE Fits(registry')
  <2> DEFINE reg == NodesPushed(ClassAdded(registry, name), registry.next_id, Scalars(rows, 8))
             p   == [project EXCEPT !.registry = reg]
  <2>1. Fits(reg) /\ OpenIn(p, registry.next_id)
    BY <1>5 DEF AddClass
  <2>2. p.registry = reg
    BY DEF TypeOK, Project
  <2>3. project' = p \/ project' = [p EXCEPT !.views = Append(@, registry.next_id)]
    BY <2>1 DEF OpenIn, Opened
  <2>4. p = [registry |-> reg, views |-> project.views]
    BY DEF TypeOK, Project
  <2> HIDE DEF reg, p
  <2>5. project'.registry = reg
    BY <2>2, <2>3, <2>4
  <2> QED
    BY <2>1, <2>5 DEF registry
<1>6. ASSUME NEW c \in Ids, RemoveClass(c) PROVE Fits(registry')
  <2>1. registry' = ClassRemoved(registry, c)
    BY <1>6 DEF RemoveClass, DropView, registry, TypeOK, Project
  <2> QED
    BY <1>0, <2>1, ClassRemovedFits
<1>7. ClassSteps => Fits(registry')
  BY <1>2, <1>5, <1>6 DEF ClassSteps, ExpandPointer
<1>8. ViewSteps => Fits(registry')
  BY <1>0, ViewStepsKeep
<1>9. GuardedSteps => Fits(registry')
  BY <1>3 DEF GuardedSteps, AddNode, AddArray, ChangeKind
<1>10. UncheckedSteps => Fits(registry')
  BY <1>3 DEF UncheckedSteps, PushNode, InsertAfter
<1>11. PlainSteps => Fits(registry')
  BY <1>3 DEF PlainSteps, AddBytes, DeleteNode, SetArrayCount, RelabelNode, RelabelClass
<1>12. SelectionSteps => Fits(registry')
  BY <1>3, <1>4 DEF SelectionSteps, DeleteMany, CopyNodes, PasteNodes
<1>13. UnrecordedSteps => Fits(registry')
  <2>1. ASSUME NEW c, NEW idx, NEW k, McpInsertNode(c, idx, k) PROVE Fits(registry')
    BY <2>1 DEF McpInsertNode, registry, TypeOK, Project
  <2>2. ASSUME NEW ptr, SetPtrWidth(ptr) PROVE Fits(registry')
    <3>1. registry' = PtrWidthSet(registry, ptr)
      BY <2>2 DEF SetPtrWidth, registry, TypeOK, Project
    <3>2. registry'.nodes = registry.nodes
      BY <1>0, <3>1 DEF PtrWidthSet, RegistryType
    <3> QED
      BY <1>0, <3>2 DEF Fits
  <2> QED
    BY <2>1, <2>2 DEF UnrecordedSteps
<1>14. Fits(registry')
  BY <1>7, <1>8, <1>9, <1>10, <1>11, <1>12, <1>13 DEF Next
<1> QED
  BY <1>0, <1>1, <1>14 DEF SoundRegistries

\* So it is of every document there is.
LEMMA SoundAllOver ==
    ASSUME TypeOK, AllOver(SoundRegistries), [Next]_vars, CleanInputs
    PROVE  AllOver(SoundRegistries)'
<1>1. /\ \A f \in LoadableFiles : f.registry \in SoundRegistries
      /\ Imports \subseteq SoundRegistries
  BY FilesAssumption
  DEF SoundRegistries, LoadableFiles, Loadable, Validates, Project, CleanInputs
<1>2. Edited /\ ~ProjectSteps => registry' \in SoundRegistries
  <2>1. registry \in SoundRegistries
    BY DEF AllOver, Over, registry
  <2>2. CASE UNCHANGED vars
    BY <2>1, <2>2 DEF vars, registry
  <2>3. CASE Next
    BY <2>1, <2>3, SoundStep DEF CleanInputs
  <2> QED
    BY <2>2, <2>3
<1> QED
  BY <1>1, <1>2, AllOverStep

LEMMA SelectionFits ==
    ASSUME Drawable, CleanInputs
    PROVE  SelectedOwners \in Selections
<1>1. SelectedOwners \subseteq Targets
  BY DrawableParts, SelectedType
<1>2. IsFiniteSet(Targets)
  <2>1. 0 \in Int /\ MaxId - 1 \in Int /\ MaxNodes \in Int
    BY RegistryAssumption, EditorAssumption
  <2>2. IsFiniteSet(Ids) /\ IsFiniteSet(0 .. MaxNodes)
    BY <2>1, FS_Interval DEF Ids
  <2> QED
    BY <2>2, FS_Product DEF Targets
<1>3. /\ Cardinality(SelectedOwners) \in Nat /\ Cardinality(Targets) \in Nat
      /\ Cardinality(SelectedOwners) <= Cardinality(Targets)
  BY <1>1, <1>2, FS_Subset, FS_CardinalityType
<1> QED
  BY <1>1, <1>3, EditorAssumption DEF Selections, CleanInputs

LEMMA PluginChoice == CleanInputs => PluginKinds \subseteq Choice(PluginKinds)
BY DEF Choice, CleanInputs

\* An edit that was asked for in time is a call of Editor.
LEMMA EditFits ==
    ASSUME Drawable, CleanInputs, NEW a \in Action, a[1] \in Timed => Timely(project, a),
           ApplyEdit(a)
    PROVE  [Next]_vars /\ UNCHANGED app
<1> USE ActionParts DEF Timed
<1>0. UNCHANGED app /\ NoLabel \in Labels
  BY RegistryAssumption DEF ApplyEdit
<1>1. CASE a[1] = "AddClass" /\ AddClass(NoLabel, a[2])
  BY <1>0, <1>1 DEF Next, ClassSteps
<1>2. CASE a[1] = "OpenView" /\ OpenIn(project, a[2]) /\ UNCHANGED <<history, expand, clipboard>>
  <2>1. OpenView(a[2])
    BY <1>2 DEF OpenView, Timely, registry
  <2> QED
    BY <1>0, <1>2, <2>1 DEF Next, ViewSteps
<1>3. CASE a[1] \in {"SetExpr", "RenameClass"} /\ RelabelClass(a[2], NoLabel)
  <2>1. PlainSteps
    BY <1>0, <1>3 DEF PlainSteps
  <2> QED
    BY <1>0, <2>1 DEF Next
<1>4. CASE a[1] = "Toggle" /\ SetExpand(Toggled(expand, a[2], a[3]))
  <2> DEFINE root == a[2]
             i    == a[3]
  <2>1. /\ root \in Nat /\ i \in Index /\ root < Len(views)
        /\ i < Len(registry.nodes[views[root + 1]]) /\ IsClassPtr(RowKind(root, i))
    BY <1>4 DEF Timely, RowOf, RowKind, registry, views
  <2>2. root \in Roots /\ i \in Rows(root)
    <3>1. Len(views) \in Nat /\ views[root + 1] \in Ids /\ registry \in RegistryType
      BY <2>1, DrawableParts
    <3>2. Len(registry.nodes[views[root + 1]]) \in Nat
      BY <3>1, NodeList
    <3> HIDE DEF root, i
    <3> QED
      BY <2>1, <3>1, <3>2 DEF Roots, Rows, Index
  <2>3. ToggleExpand(root, i)
    BY <1>4, <2>1, <2>2 DEF ToggleExpand
  <2> HIDE DEF root, i
  <2> QED
    BY <1>0, <2>1, <2>2, <2>3 DEF Next, ViewSteps
<1>5. CASE a[1] = "ToggleCollapse" /\ SetExpand(CollapseToggled(expand, a[2], a[3]))
  <2> DEFINE root == a[2]
             i    == a[3]
  <2>1. /\ root \in Nat /\ i \in Index /\ root < Len(views)
        /\ i < Len(registry.nodes[views[root + 1]]) /\ IsAggregate(RowKind(root, i))
    BY <1>5 DEF Timely, RowOf, RowKind, registry, views
  <2>2. root \in Roots /\ i \in Rows(root)
    <3>1. Len(views) \in Nat /\ views[root + 1] \in Ids /\ registry \in RegistryType
      BY <2>1, DrawableParts
    <3>2. Len(registry.nodes[views[root + 1]]) \in Nat
      BY <3>1, NodeList
    <3> HIDE DEF root, i
    <3> QED
      BY <2>1, <3>1, <3>2 DEF Roots, Rows, Index
  <2>3. ToggleCollapse(root, i)
    BY <1>5, <2>1, <2>2 DEF ToggleCollapse
  <2> HIDE DEF root, i
  <2> QED
    BY <1>0, <2>1, <2>2, <2>3 DEF Next, ViewSteps
<1>6. CASE a[1] = "ExpandPointer" /\ ExpandPointer(a[2], a[3], a[4], a[5])
  <2>1. a[2] \in Ids /\ a[3] \in Index /\ a[5] \in Index /\ a[4] \in Roots
    BY <1>6, DrawableParts DEF Timely, views, Roots
  <2> QED
    BY <1>0, <1>6, <2>1 DEF Next, ClassSteps
<1>7. CASE a[1] = "PushNode" /\ PushNode(a[2], a[3])
  <2>1. UncheckedSteps
    BY <1>7, PluginChoice DEF UncheckedSteps
  <2> QED
    BY <1>0, <2>1 DEF Next
<1>8. CASE a[1] = "AddBytes" /\ AddBytes(a[2], a[3])
  <2>1. PlainSteps
    BY <1>8 DEF PlainSteps
  <2> QED
    BY <1>0, <2>1 DEF Next
<1>9. CASE a[1] = "AddArray" /\ IF Guarded(a[2], a[3]) THEN AddArray(a[2], a[3], a[4]) ELSE Unmoved
  <2>1. a[3] \in Choice(Kinds) /\ a[2] \in Ids /\ a[4] \in Counts
    BY <1>9 DEF Choice, Timely, Known, registry
  <2>2. AddArray(a[2], a[3], a[4]) => GuardedSteps
    BY <2>1 DEF GuardedSteps
  <2> QED
    BY <1>0, <1>9, <2>2 DEF Next, Unmoved
<1>10. CASE a[1] = "InsertAfter" /\ InsertAfter(a[2], a[3], a[4])
  <2>1. UncheckedSteps
    BY <1>10, PluginChoice DEF UncheckedSteps
  <2> QED
    BY <1>0, <2>1 DEF Next
<1>11. CASE a[1] = "DeleteNode" /\ DeleteNode(a[2], a[3])
  <2>1. PlainSteps
    BY <1>11 DEF PlainSteps
  <2> QED
    BY <1>0, <2>1 DEF Next
<1>12. CASE a[1] = "ChangeKind" /\ IF Guarded(a[2], a[4]) THEN ChangeKind(a[2], a[3], a[4]) ELSE Unmoved
  <2>1. a[4] \in Choice(Kinds) /\ a[2] \in Ids /\ a[3] \in Index
    BY <1>12 DEF Choice, Timely, Known, registry
  <2>2. ChangeKind(a[2], a[3], a[4]) => GuardedSteps
    BY <2>1 DEF GuardedSteps
  <2> QED
    BY <1>0, <1>12, <2>2 DEF Next, Unmoved
<1>13. CASE a[1] = "SetArrayCount" /\ SetArrayCount(a[2], a[3], a[4])
  <2>1. PlainSteps
    BY <1>13 DEF PlainSteps
  <2> QED
    BY <1>0, <2>1 DEF Next
<1>14. CASE a[1] = "CopySelected" /\ CopyNodes(SelectedOwners)
  <2>1. SelectionSteps
    BY <1>14, SelectionFits DEF SelectionSteps
  <2> QED
    BY <1>0, <2>1 DEF Next
<1>15. CASE /\ a[1] = "Paste"
            /\ IF clipboard # <<>> /\ Pastable(a[2]) THEN PasteNodes(a[2], a[3]) ELSE Unmoved
  <2>1. PasteNodes(a[2], a[3]) => SelectionSteps
    BY <1>15 DEF SelectionSteps
  <2> QED
    BY <1>0, <1>15, <2>1 DEF Next, Unmoved
<1>16. CASE a[1] = "ExpandAll" /\ IF Viewing THEN ExpandAll ELSE Unmoved
  BY <1>0, <1>16 DEF Next, ViewSteps, Unmoved
<1>17. CASE a[1] = "SetPtrWidth" /\ SetPtrWidth(a[2])
  BY <1>0, <1>17 DEF Next, UnrecordedSteps
<1>18. CASE a[1] = "CollapseAll" /\ IF Viewing THEN CollapseAll ELSE Unmoved
  BY <1>0, <1>18 DEF Next, ViewSteps, Unmoved
<1> QED
  BY <1>1, <1>2, <1>3, <1>4, <1>5, <1>6, <1>7, <1>8, <1>9, <1>10, <1>11, <1>12, <1>13, <1>14,
     <1>15, <1>16, <1>17, <1>18
  DEF ApplyEdit

\* So is one that clears what the interface remembers.
LEMMA ForgettingTypes ==
    ASSUME NEW a \in App
    PROVE  /\ SelectionCleared(a) \in App
           /\ Forgotten(a) \in App
           /\ \A x : [SelectionCleared(a) EXCEPT !.selected_classes = @ \ {x}] \in App
           /\ [SelectionCleared(a) EXCEPT !.selected_classes = {}, !.editing = NoEdit] \in App
           /\ [SelectionCleared(a) EXCEPT !.selected_classes = {}, !.class_anchor = Nothing] \in App
<1> DEFINE E == {NoEdit} \cup (Nat \X Paths \X Fields)
           P == SUBSET Paths
           C == SUBSET Ids
           N == Ids \cup {Nothing}
<1>1. App = [editing : E, rows : P, sel_anchor : Int, selected_classes : C,
             class_anchor : Int, renaming_class : N]
  BY DEF App
<1>2. {} \in P /\ {} \in C /\ Nothing \in Int /\ Nothing \in N /\ NoEdit \in E
  BY DEF Nothing
<1>3. \A S \in C : \A x : S \ {x} \in C
  OBVIOUS
<1> HIDE DEF E, P, C, N
<1>4. SelectionCleared(a) \in App
  BY <1>1, <1>2 DEF SelectionCleared
<1>5. Forgotten(a) \in App
  BY <1>1, <1>2, <1>4 DEF Forgotten
<1>6. \A x : [SelectionCleared(a) EXCEPT !.selected_classes = @ \ {x}] \in App
  BY <1>1, <1>3, <1>4
<1>7. /\ [SelectionCleared(a) EXCEPT !.selected_classes = {}, !.editing = NoEdit] \in App
      /\ [SelectionCleared(a) EXCEPT !.selected_classes = {}, !.class_anchor = Nothing] \in App
  BY <1>1, <1>2, <1>4
<1> QED
  BY <1>4, <1>5, <1>6, <1>7

LEMMA ForgettingFits ==
    ASSUME Drawable, CleanInputs, NEW a \in Action, a[1] \in Timed => Timely(project, a),
           ApplyAndForget(a)
    PROVE  [Next]_vars /\ app' \in App
<1> USE ActionParts DEF Timed
<1>0. /\ app \in App
      /\ SelectionCleared(app) \in App /\ Forgotten(app) \in App
      /\ \A x : [SelectionCleared(app) EXCEPT !.selected_classes = @ \ {x}] \in App
      /\ [SelectionCleared(app) EXCEPT !.selected_classes = {}, !.editing = NoEdit] \in App
  BY ForgettingTypes DEF Drawable
<1>1. CASE /\ a[1] = "CloseView"
           /\ IF a[2] < Len(views) THEN CloseView(a[2]) ELSE Unmoved
           /\ app' = SelectionCleared(app)
  <2>1. a[2] < Len(views) => a[2] \in Roots
    BY <1>1, DrawableParts DEF Roots
  <2>2. a[2] < Len(views) => ViewSteps
    BY <1>1, <2>1 DEF ViewSteps
  <2> QED
    BY <1>0, <1>1, <2>2 DEF Next, Unmoved
<1>2. CASE /\ a[1] = "SelectView"
           /\ selected' = a[2]
           /\ UNCHANGED <<project, history, view_status, expand, clipboard>>
           /\ app' = SelectionCleared(app)
  <2>1. a[2] \in Nat /\ a[2] < Len(views)
    BY <1>2 DEF Timely, views
  <2>2. a[2] \in Roots /\ SelectView(a[2])
    BY <1>2, <2>1, DrawableParts DEF Roots, SelectView
  <2> QED
    BY <1>0, <1>2, <2>2 DEF Next, ViewSteps
<1>3. CASE /\ a[1] = "RemoveClass"
           /\ RemoveClass(a[2])
           /\ app' = [SelectionCleared(app) EXCEPT !.selected_classes = @ \ {a[2]}]
  BY <1>0, <1>3 DEF Next, ClassSteps
<1>4. CASE /\ a[1] = "DeleteSelected"
           /\ IF Viewing THEN DeleteMany(SelectedOwners) ELSE Unmoved
           /\ app' = IF Viewing THEN SelectionCleared(app) ELSE app
  <2>1. Viewing => SelectionSteps
    BY <1>4, SelectionFits DEF SelectionSteps
  <2> QED
    BY <1>0, <1>4, <2>1 DEF Next, Unmoved
<1>5. CASE /\ a[1] = "ImportRcnet"
           /\ ImportRcnet(a[2])
           /\ app' = [SelectionCleared(app) EXCEPT !.selected_classes = {}, !.editing = NoEdit]
  BY <1>0, <1>5 DEF Next, ProjectSteps
<1>6. CASE /\ a[1] = "Load"
           /\ Load(a[2])
           /\ app' = SelectionCleared(app)
  <2>1. a[2] \in Files
    BY <1>6 DEF LoadableFiles
  <2> QED
    BY <1>0, <1>6, <2>1 DEF Next, ProjectSteps
<1>7. CASE /\ a[1] = "Undo"
           /\ IF CanUndo(history) THEN Undo /\ app' = Forgotten(app) ELSE Unmoved /\ UNCHANGED app
  BY <1>0, <1>7 DEF Next, ProjectSteps, Unmoved
<1>8. CASE /\ a[1] = "Redo"
           /\ IF CanRedo(history) THEN Redo /\ app' = Forgotten(app) ELSE Unmoved /\ UNCHANGED app
  BY <1>0, <1>8 DEF Next, ProjectSteps, Unmoved
<1> QED
  BY <1>1, <1>2, <1>3, <1>4, <1>5, <1>6, <1>7, <1>8 DEF ApplyAndForget

LEMMA TypingFits ==
    ASSUME Drawable, CleanInputs, NEW a \in Action, ApplyTyping(a)
    PROVE  [Next]_vars /\ app' \in App
<1> USE ActionParts
<1>0. app \in App /\ NoLabel \in Labels
  BY RegistryAssumption DEF Drawable
<1>1. [app EXCEPT !.editing = NoEdit] \in App
  BY <1>0, AppWith
<1>2. CASE /\ a[1] = "StartEdit"
           /\ app' = [app EXCEPT !.editing = <<a[2], a[3], a[4]>>]
           /\ Unmoved
  <2>1. <<a[2], a[3], a[4]>> \in Nat \X Paths \X Fields
    BY <1>2
  <2>2. [app EXCEPT !.editing = <<a[2], a[3], a[4]>>] \in App
    BY <1>0, <2>1, AppWith
  <2> QED
    BY <1>2, <2>2 DEF Unmoved
<1>3. CASE /\ a[1] = "CancelEdit"
           /\ app' = [app EXCEPT !.editing = NoEdit]
           /\ Unmoved
  BY <1>1, <1>3 DEF Unmoved
<1>4. CASE /\ a[1] = "CommitEdit"
           /\ app' = [app EXCEPT !.editing = NoEdit]
           /\ LET found == IF Viewing /\ app.editing # NoEdit
                           THEN Owner(ViewClass, app.editing[2]) ELSE {}
              IN  IF found = {} THEN Unmoved
                  ELSE IF app.editing[3] = "Value" THEN ComputeRows
                  ELSE \E t \in found : RelabelNode(t[1], t[2], NoLabel)
  <2> DEFINE found == IF Viewing /\ app.editing # NoEdit
                      THEN Owner(ViewClass, app.editing[2]) ELSE {}
  <2>1. ASSUME NEW t \in found PROVE t[1] \in Ids /\ t[2] \in Index
    <3>1. Viewing /\ app.editing # NoEdit /\ t \in Owner(ViewClass, app.editing[2])
      BY <2>1
    <3>2. app.editing[2] \in Paths
      BY <1>0, <3>1 DEF App
    <3>3. app.editing[2] \in Seq(Nat) /\ app.editing[2] # <<>>
      BY <3>2, PathType, DrawableParts
    <3>4. t \in Ids \X Nat /\ HasNode(registry, t[1], t[2])
      BY <3>1, <3>3, DrawableParts, OwnerFound
    <3>5. Len(registry.nodes[t[1]]) \in Nat /\ Len(registry.nodes[t[1]]) <= MaxNodes
      BY <3>4, DrawableParts, NodeList DEF Fitting, Fits
    <3> QED
      BY <3>4, <3>5, DrawableParts DEF HasNode, Index
  <2>2. app' \in App
    BY <1>1, <1>4
  <2>3. CASE found = {}
    BY <1>4, <2>2, <2>3 DEF Unmoved
  <2>4. CASE ComputeRows
    BY <2>2, <2>4 DEF Next, ViewSteps
  <2>5. ASSUME NEW t \in found, RelabelNode(t[1], t[2], NoLabel) PROVE [Next]_vars
    <3>1. PlainSteps
      BY <1>0, <2>1, <2>5 DEF PlainSteps
    <3> QED
      BY <3>1 DEF Next
  <2> QED
    BY <1>4, <2>2, <2>3, <2>4, <2>5
<1>5. CASE /\ a[1] = "StartRenameClass"
           /\ app' = [app EXCEPT !.renaming_class = a[2]]
           /\ Unmoved
  <2>1. a[2] \in Ids \cup {Nothing}
    BY <1>5
  <2>2. [app EXCEPT !.renaming_class = a[2]] \in App
    BY <1>0, <2>1, AppWith
  <2> QED
    BY <1>5, <2>2 DEF Unmoved
<1>6. CASE /\ a[1] = "EndRenameClass"
           /\ app' = [app EXCEPT !.renaming_class = Nothing]
           /\ Unmoved
  <2>1. Nothing \in Ids \cup {Nothing}
    OBVIOUS
  <2>2. [app EXCEPT !.renaming_class = Nothing] \in App
    BY <1>0, <2>1, AppWith
  <2> QED
    BY <1>6, <2>2 DEF Unmoved
<1> QED
  BY <1>2, <1>3, <1>4, <1>5, <1>6 DEF ApplyTyping

LEMMA ApplyFits ==
    ASSUME Drawable, CleanInputs, NEW a \in Action, a[1] \in Timed => Timely(project, a),
           Apply(a)
    PROVE  [Next]_vars /\ app' \in App
<1>1. ApplyEdit(a) => [Next]_vars /\ app' \in App
  <2>1. ApplyEdit(a) => [Next]_vars /\ UNCHANGED app
    BY EditFits
  <2> QED
    BY <2>1 DEF Drawable
<1> QED
  BY <1>1, ForgettingFits, TypingFits DEF Apply

\* What made sense of a project makes sense of one with the same classes,
\* nodes and views.
LEMMA TimelyKept ==
    ASSUME NEW p, NEW q, NEW a, Timely(p, a), q.views = p.views,
           q.registry.live = p.registry.live, q.registry.nodes = p.registry.nodes
    PROVE  Timely(q, a)
BY DEF Timely, RowOf, Known

\* Behind an action that is not calm, every other makes sense in whatever state.
LEMMA TailRequests ==
    ASSUME NEW p, NEW q, NEW s \in Requests(p), s # <<>>,
           s[1][1] \in Calm => /\ q.views = p.views
                               /\ q.registry.live = p.registry.live
                               /\ q.registry.nodes = p.registry.nodes
    PROVE  /\ s[1] \in Action
           /\ s[1][1] \in Timed => Timely(p, s[1])
           /\ Tail(s) \in Requests(q)
<1> DEFINE n == Len(s)
           t == Tail(s)
<1>1. /\ s \in Seq(Action) /\ InTime(p, s) /\ n \in Nat /\ n > 0 /\ DOMAIN s = 1 .. n
      /\ 1 \in 1 .. n
  BY DEF Requests
<1>2. s[1] \in Action /\ (s[1][1] \in Timed => Timely(p, s[1]))
  BY <1>1 DEF InTime
<1>3. t \in Seq(Action) /\ Len(t) = n - 1 /\ \A i \in 1 .. n - 1 : t[i] = s[i + 1]
  BY <1>1
<1> HIDE DEF n, t
<1>4. DOMAIN t = 1 .. n - 1
  BY <1>3
<1>5. ASSUME NEW j \in DOMAIN t, t[j][1] \in Timed
      PROVE  Timely(q, t[j]) /\ \A i \in DOMAIN t : i < j => t[i][1] \in Calm
  <2> DEFINE l == j + 1
  <2>1. l \in 1 .. n /\ t[j] = s[l] /\ 1 < l
    BY <1>1, <1>3, <1>4
  <2> HIDE DEF l
  <2>2. Timely(p, s[l]) /\ \A i \in 1 .. n : i < l => s[i][1] \in Calm
    BY <1>1, <1>5, <2>1 DEF InTime
  <2>3. s[1][1] \in Calm
    BY <1>1, <2>1, <2>2
  <2>4. Timely(q, t[j])
    BY <2>1, <2>2, <2>3, TimelyKept
  <2>5. \A i \in DOMAIN t : i < j => i + 1 \in 1 .. n /\ i + 1 < l /\ t[i] = s[i + 1]
    BY <1>1, <1>3, <1>4 DEF l
  <2> QED
    BY <2>2, <2>4, <2>5
<1>6. InTime(q, t)
  BY <1>5 DEF InTime
<1> QED
  BY <1>2, <1>3, <1>6 DEF Requests, t

\* A calm action leaves the classes, the nodes and the views.
LEMMA CalmKeeps ==
    ASSUME TypeOK, NEW a \in Action, a[1] \in Calm, Apply(a)
    PROVE  /\ project'.views = project.views
           /\ project'.registry.live = project.registry.live
           /\ project'.registry.nodes = project.registry.nodes
<1>1. \/ a[1] \in {"RenameClass", "SetExpr"} /\ RelabelClass(a[2], NoLabel)
      \/ a[1] = "EndRenameClass" /\ Unmoved
  BY DEF Apply, ApplyEdit, ApplyAndForget, ApplyTyping, Calm
<1>2. CASE Unmoved
  BY <1>2 DEF Unmoved, vars
<1>3. CASE RelabelClass(a[2], NoLabel)
  <2> DEFINE reg == ClassRelabelled(registry, a[2], NoLabel)
  <2>1. project' = [project EXCEPT !.registry = reg] /\ project \in Project
    BY <1>3 DEF RelabelClass, EditRegistry, Commit, TypeOK
  <2>2. registry \in RegistryType /\ registry = project.registry
    BY TypeFields DEF registry
  <2>3. reg.live = registry.live /\ reg.nodes = registry.nodes
    BY <2>2 DEF ClassRelabelled, RegistryType
  <2> HIDE DEF reg
  <2> QED
    BY <2>1, <2>2, <2>3 DEF Project
<1> QED
  BY <1>1, <1>2, <1>3

LEMMA InvDrawable == FrameInv => Drawable
BY DEF FrameInv, Drawable, AllOver, Over, registry

LEMMA AtMostOneType == ASSUME NEW S PROVE AtMostOne(S) \subseteq Seq(S)
<1>1. <<>> \in Seq(S) /\ \A x \in S : <<x>> \in Seq(S)
  OBVIOUS
<1>2. \A s \in AtMostOne(S) : s = <<>> \/ \E x \in S : s = <<x>>
  BY DEF AtMostOne
<1> QED
  BY <1>1, <1>2

LEMMA NoRequests == \A p : <<>> \in Requests(p)
BY DEF Requests, InTime

\* The editor's part of the invariant, whatever of Editor a step is.
LEMMA EditorPart ==
    ASSUME FrameInv, CleanInputs, [Next]_vars
    PROVE  TypeOK' /\ AllOver(SoundRegistries)'
BY StepEdits, SoundAllOver DEF FrameInv

LEMMA ApplyNextFits ==
    ASSUME FrameInv, CleanInputs, ApplyNext
    PROVE  [Next]_vars /\ FrameInv'
<1> DEFINE a == actions[1]
<1>0. /\ Drawable /\ actions \in Requests(project) /\ actions # <<>> /\ phase = "actions"
      /\ UNCHANGED <<phase, plugin_actions>>
  BY InvDrawable DEF FrameInv, ApplyNext
<1>1. a \in Action /\ (a[1] \in Timed => Timely(project, a))
  BY <1>0, TailRequests
<1>2. CASE a = <<"RemoveSelectedClasses">>
  <2> DEFINE S == app.selected_classes
             rest == Tail(actions)
  <2>1. RemoveSelectedClasses(rest)
    BY <1>2 DEF ApplyNext
  <2>2. UNCHANGED vars
    BY <2>1 DEF RemoveSelectedClasses, Unmoved
  <2>3. app' \in App
    BY <1>0, <2>1, ForgettingTypes DEF RemoveSelectedClasses, Drawable
  <2>4. PICK order \in SetToSeqs(S) :
            actions' = [i \in DOMAIN order |-> <<"RemoveClass", order[i]>>] \o rest
    BY <2>1 DEF RemoveSelectedClasses
  <2> DEFINE m == Cardinality(S)
             gone == [i \in DOMAIN order |-> <<"RemoveClass", order[i]>>]
  <2>5. gone \in Requests(project) /\ \A i \in DOMAIN gone : gone[i][1] \notin Timed
    <3>1. order \in [1 .. m -> S]
      BY DEF SetToSeqs
    <3>2. S \subseteq Ids
      BY <1>0 DEF Drawable, App
    <3>3. m \in Nat
      <4>1. 0 \in Int /\ MaxId - 1 \in Int
        BY RegistryAssumption
      <4>2. IsFiniteSet(Ids)
        BY <4>1, FS_Interval DEF Ids
      <4> QED
        BY <3>2, <4>2, FS_Subset, FS_CardinalityType
    <3> HIDE DEF m
    <3>4. \A i \in 1 .. m : <<"RemoveClass", order[i]>> \in Action
      BY <3>1, <3>2 DEF Action
    <3>5. gone \in Seq(Action) /\ DOMAIN gone = 1 .. m
      BY <3>1, <3>3, <3>4
    <3>6. \A i \in 1 .. m : gone[i][1] \notin Timed
      BY <3>1 DEF Timed
    <3> HIDE DEF gone
    <3> QED
      BY <3>5, <3>6 DEF Requests, InTime
  <2>6. rest \in Requests(project) /\ \A i \in DOMAIN rest : rest[i][1] \notin Timed
    <3>1. rest \in Requests(project)
      BY <1>0, TailRequests
    <3>2. ASSUME NEW i \in DOMAIN rest, rest[i][1] \in Timed PROVE FALSE
      <4> DEFINE n == Len(actions)
                 l == i + 1
      <4>1. actions \in Seq(Action) /\ InTime(project, actions)
        BY <1>0 DEF Requests
      <4>2. n \in Nat /\ DOMAIN actions = 1 .. n /\ 1 \in DOMAIN actions
        BY <1>0, <4>1
      <4>3. l \in 1 .. n /\ 1 < l /\ rest[i] = actions[l]
        BY <1>0, <4>1
      <4> HIDE DEF l, n, rest
      <4>4. a[1] \in Calm
        BY <3>2, <4>1, <4>2, <4>3 DEF InTime
      <4> QED
        BY <1>2, <4>4 DEF Calm
    <3> QED
      BY <3>1, <3>2
  <2> HIDE DEF rest, gone
  <2>7. actions' \in Requests(project)
    BY <2>4, <2>5, <2>6, RequestsConcat DEF gone
  <2>8. actions' \in Requests(project')
    BY <2>2, <2>7 DEF vars
  <2>9. [Next]_vars
    BY <2>2
  <2> QED
    BY <1>0, <2>3, <2>8, <2>9, EditorPart DEF FrameInv
<1>3. CASE a # <<"RemoveSelectedClasses">>
  <2>1. Apply(a) /\ actions' = Tail(actions)
    BY <1>3 DEF ApplyNext
  <2>2. [Next]_vars /\ app' \in App
    BY <1>0, <1>1, <2>1, ApplyFits
  <2>3. a[1] \in Calm => /\ project'.views = project.views
                         /\ project'.registry.live = project.registry.live
                         /\ project'.registry.nodes = project.registry.nodes
    BY <1>0, <1>1, <2>1, CalmKeeps DEF Drawable
  <2>4. actions' \in Requests(project')
    BY <1>0, <2>1, <2>3, TailRequests
  <2> QED
    BY <1>0, <2>2, <2>4, EditorPart DEF FrameInv
<1> QED
  BY <1>2, <1>3

LEMMA ApplyPluginFits ==
    ASSUME FrameInv, CleanInputs, ApplyPlugin
    PROVE  [Next]_vars /\ FrameInv'
<1> DEFINE a == plugin_actions[1]
<1>0. /\ Drawable /\ plugin_actions \in Seq(Wishes) /\ plugin_actions # <<>> /\ actions = <<>>
      /\ phase = "plugins" /\ UNCHANGED <<phase, actions>>
      /\ plugin_actions' = Tail(plugin_actions) /\ Apply(a)
  BY InvDrawable DEF FrameInv, ApplyPlugin
<1>1. a \in Wishes /\ Tail(plugin_actions) \in Seq(Wishes)
  BY <1>0
<1>2. a \in Action /\ a[1] \notin Timed
  BY <1>1, WishesUntimed
<1>3. [Next]_vars /\ app' \in App
  BY <1>0, <1>2, ApplyFits
<1>4. actions' \in Requests(project')
  BY <1>0, NoRequests
<1> QED
  BY <1>0, <1>1, <1>3, <1>4, EditorPart DEF FrameInv

LEMMA DrawFits ==
    ASSUME FrameInv, CleanInputs, Draw
    PROVE  [Next]_vars /\ FrameInv'
<1>0. /\ Drawable /\ phase' = "actions" /\ ComputeRows /\ Gesture
      /\ plugin_actions' \in AtMostOne(Wishes)
  BY InvDrawable DEF Draw
<1>1. [Next]_vars /\ project' = project
  BY <1>0 DEF Next, ViewSteps, ComputeRows
<1>2. actions' \in Requests(project) /\ app' \in App
  BY <1>0, GestureAsks DEF Asked
<1>3. plugin_actions' \in Seq(Wishes)
  BY <1>0, AtMostOneType
<1> QED
  BY <1>0, <1>1, <1>2, <1>3, EditorPart DEF FrameInv

\* Outside a drawing a call comes as it is.
LEMMA CallFits ==
    ASSUME FrameInv, CleanInputs, New \/ McpCall
    PROVE  [Next]_vars /\ FrameInv'
<1>0. NoLabel \in Labels /\ 0 \in SeedRows
  BY RegistryAssumption, FrameAssumption
<1>1. /\ actions = <<>> /\ UNCHANGED <<app, actions, plugin_actions>>
      /\ phase' = "calls"
  BY DEF FrameInv, New, McpCall, ui
<1>2. Next
  <2>1. CASE New
    BY <1>0, <2>1 DEF New, Next, ClassSteps, ProjectSteps
  <2>2. CASE McpCall
    <3>1. (\E c \in Ids, i \in Index : DeleteNode(c, i)) => PlainSteps
      BY DEF PlainSteps
    <3> QED
      BY <1>0, <2>2, <3>1 DEF McpCall, Next, ClassSteps, ProjectSteps
  <2> QED
    BY <2>1, <2>2
<1>3. actions' \in Requests(project')
  BY <1>1, NoRequests
<1> QED
  BY <1>1, <1>2, <1>3, EditorPart DEF FrameInv

LEMMA TurnFits ==
    ASSUME FrameInv, CleanInputs, PreApply \/ EndFrame \/ UNCHANGED fvars
    PROVE  UNCHANGED vars /\ FrameInv'
<1>1. UNCHANGED <<vars, app, actions>>
  BY DEF PreApply, EndFrame, fvars, ui
<1>2. actions' \in Requests(project')
  BY <1>1 DEF FrameInv, vars
<1>3. plugin_actions' \in Seq(Wishes)
  <2>1. AtMostOne(Wishes) \subseteq Seq(Wishes)
    BY AtMostOneType
  <2> QED
    BY <2>1 DEF PreApply, EndFrame, fvars, ui, FrameInv
<1>4. /\ phase' \in {"new", "calls", "actions", "plugins"}
      /\ phase' # "actions" => actions' = <<>>
  BY DEF PreApply, EndFrame, fvars, ui, FrameInv
<1>5. [Next]_vars
  BY <1>1
<1> QED
  BY <1>1, <1>2, <1>3, <1>4, <1>5, EditorPart DEF FrameInv

\* Every step of the program is one call of Editor or none.
LEMMA FrameStep ==
    ASSUME FrameInv, CleanInputs, [FrameNext]_fvars
    PROVE  [Next]_vars /\ FrameInv'
BY ApplyNextFits, ApplyPluginFits, DrawFits, CallFits, TurnFits DEF FrameNext

LEMMA FrameStart == FrameInit /\ CleanInputs => FrameInv
<1> SUFFICES ASSUME FrameInit, CleanInputs PROVE FrameInv
  OBVIOUS
<1>1. Init /\ phase = "new" /\ actions = <<>> /\ plugin_actions = <<>>
  BY DEF FrameInit
<1>2. TypeOK
  BY <1>1, InitType
<1>3. AllOver(SoundRegistries)
  <2>1. \A f \in LoadableFiles : f.registry \in SoundRegistries
    BY FilesAssumption
    DEF SoundRegistries, LoadableFiles, Loadable, Validates, Project, CleanInputs
  <2>2. EmptyRegistry \in SoundRegistries
    <3>1. \A c \in Ids : Len(EmptyRegistry.nodes[c]) = 0
      BY DEF EmptyRegistry
    <3> QED
      BY <3>1, EmptyRegistryValid, EditorAssumption DEF SoundRegistries, Fits
  <2> QED
    BY <1>1, <2>1, <2>2, AllOverStart
<1>4. app \in App
  BY DEF FrameInit, App, Nothing, NoEdit
<1> QED
  BY <1>1, <1>2, <1>3, <1>4, NoRequests DEF FrameInv

LEMMA FrameInvariance == ASSUME CleanInputs PROVE FrameSpec => []FrameInv
<1>1. FrameInit => FrameInv
  BY FrameStart
<1>2. FrameInv /\ [FrameNext]_fvars => FrameInv'
  BY FrameStep
<1> QED
  BY <1>1, <1>2, PTL DEF FrameSpec

-----------------------------------------------------------------------------
\* The interface remembers selections, cells and names that are of their type,
\* and rows that are paths, however stale (ReClassApp's fields).
THEOREM FrameTypes ==
    ASSUME CleanInputs
    PROVE  FrameSpec => []FrameTypeOK
<1>1. FrameInv => FrameTypeOK
  BY DEF FrameInv, FrameTypeOK
<1> QED
  BY <1>1, FrameInvariance, PTL

\* Whatever the user, the plugins and the agents ask for in a frame, and
\* however late it is applied, AppState sees only calls it is made for
\* (apply_actions, drain_mcp, run_plugin_pre_apply).
THEOREM CallsAreFit ==
    ASSUME CleanInputs
    PROVE  FrameSpec => CallsFit
<1>1. FrameInv /\ [FrameNext]_fvars => [vars' # vars => Next]_vars
  BY FrameStep
<1>2. FrameInit => Init
  BY DEF FrameInit
<1> QED
  BY <1>1, <1>2, FrameInvariance, PTL DEF FrameSpec, CallsFit

\* So the program is an editor, and what is proved of Editor is true of it.
THEOREM ProgramIsEditor ==
    ASSUME CleanInputs
    PROVE  FrameSpec => Spec
<1>1. [vars' # vars => Next]_vars => [Next]_vars
  OBVIOUS
<1> QED
  BY <1>1, CallsAreFit, PTL DEF CallsFit, Spec

\* Between any two steps of a frame, each view shows a class there is, and the
\* cursor, the statuses and the expansions are positions in the list of views.
THEOREM ViewsHoldInFrames ==
    ASSUME CleanInputs, LoadableFiles \subseteq Showing
    PROVE  FrameSpec => []ViewsHold
BY ProgramIsEditor, ViewsFollowed, PTL

\* No action of a frame loses the expansion of a view that stays.
THEOREM ExpansionKeptInFrames ==
    ASSUME CleanInputs, LoadableFiles \subseteq Showing
    PROVE  FrameSpec => ClosingKeepsExpansion
BY ProgramIsEditor, ExpansionKept, PTL

\* No class that the program removes moves a node of another.
THEOREM RemovesKeepLayoutInFrames ==
    ASSUME CleanInputs, \A reg \in Imports : Acyclic(reg)
    PROVE  FrameSpec => RemoveKeepsLayout
<1>1. \A k \in PluginKinds : Inline(k) = {}
  <2>1. \A k \in PluginKinds : k \in Kind
    BY EditorAssumption
  <2> QED
    BY <2>1, KindRefs DEF CleanInputs
<1> QED
  BY <1>1, ProgramIsEditor, RemovesKeepLayout, PTL
=============================================================================
