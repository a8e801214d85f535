------------------------------- MODULE Editor -------------------------------
(***************************************************************************)
(* AppState: the project that is edited, its undo history, the view cursor *)
(* and what hangs off it, and the clipboard.  The GUI, MCP agents and      *)
(* plugins all call it on the one GUI thread, so a call is one step; what  *)
(* interleaves is whole calls, whose arguments (indices, ids, clipboard    *)
(* entries) may have gone stale under another caller's edit.               *)
(***************************************************************************)
EXTENDS Registry, History, ExpandState

CONSTANTS
    Kinds,         \* the kinds a user or an MCP agent chooses from
    PluginKinds,   \* the kinds a plugin pushes, which nobody checks
    LiveRefsOnly,  \* whether callers name only classes there are: the GUI
                   \* does, an agent need not
    Counts,        \* element counts for arrays
    SeedRows,      \* rows a new class starts with: none, or the setting
    AutoRows,      \* rows of a class made for a pointer: 16 in the code
    ByteCounts,    \* how much add_bytes adds
    Files,         \* projects there are on disk
    Imports,       \* registries that .rcnet files convert to
    MaxNodes,      \* bound: nodes of one class
    MaxSelection   \* bound: rows selected at a time

ASSUME EditorAssumption ==
    /\ Kinds \subseteq Kind
    /\ PluginKinds \subseteq Kind
    /\ LiveRefsOnly \in BOOLEAN
    /\ Counts \subseteq Nat
    /\ SeedRows \subseteq Nat
    /\ AutoRows \in Nat
    /\ ByteCounts \subseteq Nat
    /\ MaxNodes \in Nat
    /\ MaxSelection \in Nat

VARIABLES
    project,      \* registry and views
    history,
    selected,     \* selected_view, counted from 0 as in the code
    view_status,  \* per view: the class it was computed for, or NoStatus
    expand,
    clipboard

vars == <<project, history, selected, view_status, expand, clipboard>>

registry == project.registry
views    == project.views

NoStatus == -1

\* The classes open in views, in order, and the position of one of them.
IsOpen(p, c) == \E i \in DOMAIN p.views : p.views[i] = c
ViewOf(p, c) == Least({i \in DOMAIN p.views : p.views[i] = c}) - 1

Project == [registry : RegistryType, views : Seq(Ids)]

Saved == [project : Project, count : Nat]

ASSUME FilesAssumption == Files \subseteq Project /\ Imports \subseteq RegistryType

EmptyProject == [registry |-> EmptyRegistry, views |-> <<>>]

Loadable(p) == Validates(p.registry)

LoadableFiles == {f \in Files : Loadable(f)}

Starts == {EmptyProject} \cup LoadableFiles

Init ==
    /\ project \in Starts
    /\ history = EmptyHistory
    /\ selected = 0
    /\ view_status = [i \in DOMAIN views |-> NoStatus]
    /\ expand = NothingExpanded
    /\ clipboard = <<>>

-----------------------------------------------------------------------------
(* Parts that the operations share.                                        *)

Fits(reg) == \A c \in Ids : Len(reg.nodes[c]) <= MaxNodes

\* Variant for a mutant run: an edit without a snapshot.
CommitUnrecorded(reg) ==
    /\ Fits(reg)
    /\ project' = [project EXCEPT !.registry = reg]
    /\ UNCHANGED history

\* A mutator that takes a snapshot and then edits the registry: the snapshot
\* is kept even where the edit is an error that leaves `reg' as it was.
Commit(reg) ==
    /\ Fits(reg)
    /\ history' = Push(history, project)
    /\ project' = [project EXCEPT !.registry = reg]

EditRegistry(reg) ==
    /\ Commit(reg)
    /\ UNCHANGED <<selected, view_status, expand, clipboard>>

Saturating(n) == IF n = 0 THEN 0 ELSE n - 1

\* Vec::resize: cut off, or filled up with defaults.
Resize(status, n) ==
    [i \in 1 .. n |-> IF i <= Len(status) THEN status[i] ELSE NoStatus]

\* Variant for a mutant run: a class that is open is opened again.
OpenedAgain(p, c) == [p EXCEPT !.views = Append(@, c)]

\* open_view on the project `p': the project, and the view it selects.
Opened(p, c) ==
    IF IsOpen(p, c) THEN p ELSE [p EXCEPT !.views = Append(@, c)]

OpenIn(p, c) ==
    /\ project' = Opened(p, c)
    /\ selected' = ViewOf(Opened(p, c), c)
    /\ view_status' = Resize(view_status, Len(Opened(p, c).views))

Without(s, idx) == SubSeq(s, 1, idx) \o SubSeq(s, idx + 2, Len(s))

\* Variant for a mutant run: the cursor is not saturated when the last view goes.
DropViewUnsaturated(reg, idx) ==
    LET left == Len(views) - 1
    IN  /\ project' = [registry |-> reg, views |-> Without(views, idx)]
        /\ view_status' = SubSeq(view_status, 1, Smaller(left, Len(view_status)))
        /\ selected' = IF selected >= left THEN left - 1 ELSE selected
        /\ expand' = RootDropped(expand, idx)

\* The view at idx goes: close_view, and the tail of remove_class.
DropView(reg, idx) ==
    LET left == Len(views) - 1
    IN  /\ project' = [registry |-> reg, views |-> Without(views, idx)]
        /\ view_status' = SubSeq(view_status, 1, Smaller(left, Len(view_status)))
        /\ selected' = IF selected >= left THEN Saturating(left) ELSE selected
        /\ expand' = RootDropped(expand, idx)

\* Variant for a mutant run: the cursor stays where it was.
ResyncUnclamped(p, cursor) ==
    /\ view_status' = [i \in DOMAIN p.views |-> NoStatus]
    /\ selected' = cursor
    /\ expand' = NothingExpanded

\* resync_after_restore
Resync(p, cursor) ==
    /\ view_status' = [i \in DOMAIN p.views |-> NoStatus]
    /\ selected' = Smaller(cursor, Saturating(Len(p.views)))
    /\ expand' = NothingExpanded

-----------------------------------------------------------------------------
(* Classes and views.                                                      *)

\* add_class, and for the GUI the rows it seeds, straight in the registry.
AddClass(name, rows) ==
    LET c   == registry.next_id
        reg == NodesPushed(ClassAdded(registry, name), c, Scalars(rows, 8))
    IN  /\ c < MaxId
        /\ Fits(reg)
        /\ history' = Push(history, project)
        /\ OpenIn([project EXCEPT !.registry = reg], c)
        /\ UNCHANGED <<expand, clipboard>>

\* The class list offers the classes there are.
OpenView(c) ==
    /\ c \in registry.live
    /\ OpenIn(project, c)
    /\ UNCHANGED <<history, expand, clipboard>>

CloseView(idx) ==
    /\ idx < Len(views)
    /\ DropView(registry, idx)
    /\ UNCHANGED <<history, clipboard>>

SelectView(idx) ==
    /\ idx < Len(views)
    /\ selected' = idx
    /\ UNCHANGED <<project, history, view_status, expand, clipboard>>

RemoveClass(c) ==
    /\ history' = Push(history, project)
    /\ IF IsOpen(project, c)
       THEN DropView(ClassRemoved(registry, c), ViewOf(project, c))
       ELSE /\ project' = [project EXCEPT !.registry = ClassRemoved(registry, c)]
            /\ UNCHANGED <<selected, view_status, expand>>
    /\ UNCHANGED clipboard

\* Every view's base address is resolved anew, for the next frame or get_rows.
ComputeRows ==
    /\ view_status' = views
    /\ UNCHANGED <<project, history, selected, expand, clipboard>>

-----------------------------------------------------------------------------
(* Expansion.  Rows are those of the views there are.                      *)

Rows(root) == 0 .. Len(registry.nodes[views[root + 1]]) - 1

RowKind(root, i) == registry.nodes[views[root + 1]][i + 1].kind

IsAggregate(k) == k.dims # <<>> \/ k.tag = "instance"

IsClassPtr(k) == k.dims = <<>> /\ k.tag = "class_ptr"

SetExpand(x) ==
    /\ expand' = x
    /\ UNCHANGED <<project, history, selected, view_status, clipboard>>

ToggleExpand(root, i) ==
    /\ root < Len(views) /\ i \in Rows(root) /\ IsClassPtr(RowKind(root, i))
    /\ SetExpand(Toggled(expand, root, i))

ToggleCollapse(root, i) ==
    /\ root < Len(views) /\ i \in Rows(root) /\ IsAggregate(RowKind(root, i))
    /\ SetExpand(CollapseToggled(expand, root, i))

ExpandAll ==
    /\ selected < Len(views)
    /\ SetExpand(ExpandedOnly(expand, selected,
                              {i \in Rows(selected) : IsClassPtr(RowKind(selected, i))}))

CollapseAll ==
    /\ selected < Len(views)
    /\ SetExpand(CollapsedOnly(expand, selected,
                               {i \in Rows(selected) : IsAggregate(RowKind(selected, i))}))

\* A pointer row becomes a pointer to a new class of 16 words.  `owner' and
\* `idx' name its node; when they are stale the class is made all the same.
ExpandPointer(owner, idx, root, path) ==
    LET target == registry.next_id
        grown  == NodesPushed(ClassAdded(registry, NoLabel), target,
                              Scalars(AutoRows, registry.ptr))
        found  == HasNode(grown, owner, idx)
    IN  /\ target < MaxId
        /\ root < Len(views)
        /\ Commit(KindSet(grown, owner, idx, ClassPtr(target)))
        /\ expand' = IF found THEN Expanded(expand, root, path) ELSE expand
        /\ UNCHANGED <<selected, view_status, clipboard>>

-----------------------------------------------------------------------------
(* Nodes.  Ids and indices come from a selection or an agent: any of them  *)
(* may be stale.                                                           *)

Guarded(c, k) == ~KindWouldCycle(registry, c, k)

AddArray(c, element, count) ==
    /\ Guarded(c, element)
    /\ EditRegistry(NodesPushed(registry, c, <<Plain(ArrayOf(element, count))>>))

\* MCP add_node.
AddNode(c, k) ==
    /\ Guarded(c, k)
    /\ c \in registry.live
    /\ EditRegistry(NodesPushed(registry, c, <<Plain(k)>>))

\* push_node and insert_after, as the GUI and plugins call them: no guard.
PushNode(c, k) == EditRegistry(NodesPushed(registry, c, <<Plain(k)>>))

InsertAfter(c, idx, k) ==
    EditRegistry(NodesInserted(registry, c, idx + 1, <<Plain(k)>>))

\* MCP insert_node goes past AppState to the registry.
McpInsertNode(c, idx, k) ==
    LET reg == NodesInserted(registry, c, idx, <<Plain(k)>>)
    IN  /\ Guarded(c, k)
        /\ Fits(reg)
        /\ project' = [project EXCEPT !.registry = reg]
        /\ UNCHANGED <<history, selected, view_status, expand, clipboard>>

\* So do MCP set_pointer_width and the GUI's switch.
SetPtrWidth(ptr) ==
    /\ project' = [project EXCEPT !.registry = PtrWidthSet(@, ptr)]
    /\ UNCHANGED <<history, selected, view_status, expand, clipboard>>

AddBytes(c, n) ==
    EditRegistry(NodesPushed(registry, c, Scalars(n \div 8, 8) \o Scalars(n % 8, 1)))

DeleteNode(c, idx) == EditRegistry(NodeRemoved(registry, c, idx))

\* Variant for a mutant run: no guard.
ChangeKindUnguarded(c, idx, k) == EditRegistry(KindSet(registry, c, idx, k))

ChangeKind(c, idx, k) ==
    /\ Guarded(c, k)
    /\ EditRegistry(KindSet(registry, c, idx, k))

SetArrayCount(c, idx, count) == EditRegistry(ArrayCountSet(registry, c, idx, count))

RelabelNode(c, idx, label) == EditRegistry(NodeRelabelled(registry, c, idx, label))

RelabelClass(c, label) == EditRegistry(ClassRelabelled(registry, c, label))

-----------------------------------------------------------------------------
(* Several nodes at a time: sets of <<class, index>>.                      *)

Targets == Ids \X (0 .. MaxNodes)

Selections == {t \in SUBSET Targets : Cardinality(t) <= MaxSelection}

Found(targets) == {t \in targets : HasNode(registry, t[1], t[2])}

DeleteMany(targets) == EditRegistry(NodesDeleted(registry, targets))

\* In class-then-index order.
Before(s, t) == s[1] < t[1] \/ (s[1] = t[1] /\ s[2] < t[2])

InOrder(T) ==
    {order \in [1 .. Cardinality(T) -> T] :
        \A i, j \in DOMAIN order : i < j => Before(order[i], order[j])}

CopyNodes(targets) ==
    /\ \E order \in InOrder(Found(targets)) :
          clipboard' = [i \in DOMAIN order |->
                           registry.nodes[order[i][1]][order[i][2] + 1]]
    /\ UNCHANGED <<project, history, selected, view_status, expand>>

\* Variant for a mutant run: a paste looks for missing classes and not for cycles.
PastableCyclic(c) ==
    /\ c \in registry.live
    /\ \A i \in DOMAIN clipboard : Referenced(clipboard[i].kind) \subseteq registry.live

\* Variant for a mutant run: a paste looks for cycles and not for missing classes.
PastableDangling(c) ==
    /\ c \in registry.live
    /\ \A i \in DOMAIN clipboard : Guarded(c, clipboard[i].kind)

\* Refused before any node lands.
Pastable(c) ==
    /\ c \in registry.live
    /\ \A i \in DOMAIN clipboard :
           /\ Guarded(c, clipboard[i].kind)
           /\ Referenced(clipboard[i].kind) \subseteq registry.live

\* The position is that of the node before, plus one; 0 stands for no node,
\* and the block goes to the end.
PasteNodes(c, pos) ==
    /\ clipboard # <<>>
    /\ Pastable(c)
    /\ EditRegistry(IF pos = 0 THEN NodesPushed(registry, c, clipboard)
                    ELSE NodesInserted(registry, c, pos, clipboard))

-----------------------------------------------------------------------------
(* The project as a whole.                                                 *)

\* The largest class, the last one of those that are.
Biggest(reg) ==
    CHOOSE c \in reg.live : \A d \in reg.live :
        \/ SizeOf(reg, d) < SizeOf(reg, c)
        \/ SizeOf(reg, d) = SizeOf(reg, c) /\ d <= c

ImportRcnet(reg) ==
    LET p == [registry |-> reg,
              views    |-> IF reg.live = {} THEN <<>> ELSE <<Biggest(reg)>>]
    IN  /\ history' = Push(history, project)
        /\ project' = p
        /\ Resync(p, 0)
        /\ UNCHANGED clipboard

Load(file) ==
    /\ file \in LoadableFiles
    /\ project' = file
    /\ history' = EmptyHistory
    /\ selected' = 0
    /\ view_status' = [i \in DOMAIN file.views |-> NoStatus]
    /\ expand' = NothingExpanded
    /\ UNCHANGED clipboard

Undo ==
    /\ CanUndo(history)
    /\ project' = UndoTarget(history)
    /\ history' = Undone(history, project)
    /\ Resync(UndoTarget(history), selected)
    /\ UNCHANGED clipboard

Redo ==
    /\ CanRedo(history)
    /\ project' = RedoTarget(history)
    /\ history' = Redone(history, project)
    /\ Resync(RedoTarget(history), selected)
    /\ UNCHANGED clipboard

-----------------------------------------------------------------------------
Index == 0 .. MaxNodes - 1

Roots == 0 .. Len(views) - 1

Choice(K) ==
    {k \in K : LiveRefsOnly => Referenced(k) \subseteq registry.live}

ClassSteps ==
    \/ \E name \in Labels, rows \in SeedRows : AddClass(name, rows)
    \/ \E c \in Ids : RemoveClass(c)
    \/ \E owner \in Ids, idx, path \in Index, root \in Roots :
           ExpandPointer(owner, idx, root, path)

ViewSteps ==
    \/ \E c \in Ids : OpenView(c)
    \/ \E idx \in Roots : CloseView(idx)
    \/ \E idx \in Roots : SelectView(idx)
    \/ \E root \in Roots, i \in Index : ToggleExpand(root, i)
    \/ \E root \in Roots, i \in Index : ToggleCollapse(root, i)
    \/ ExpandAll
    \/ CollapseAll
    \/ ComputeRows

\* Edits that look before they add an inline instance.
GuardedSteps == \E c \in Ids, k \in Choice(Kinds) :
    \/ AddNode(c, k)
    \/ \E count \in Counts : AddArray(c, k, count)
    \/ \E idx \in Index : ChangeKind(c, idx, k)

UncheckedSteps == \E c \in Ids, k \in Choice(PluginKinds) :
    \/ PushNode(c, k)
    \/ \E idx \in Index : InsertAfter(c, idx, k)

\* Edits that bring no reference to a class.
PlainSteps == \E c \in Ids :
    \/ \E n \in ByteCounts : AddBytes(c, n)
    \/ \E idx \in Index : DeleteNode(c, idx)
    \/ \E idx \in Index, count \in Counts : SetArrayCount(c, idx, count)
    \/ \E idx \in Index, label \in Labels : RelabelNode(c, idx, label)
    \/ \E label \in Labels : RelabelClass(c, label)

SelectionSteps ==
    \/ \E targets \in Selections : DeleteMany(targets)
    \/ \E targets \in Selections : CopyNodes(targets)
    \/ \E c \in Ids, pos \in 0 .. MaxNodes : PasteNodes(c, pos)

\* Edits of the registry behind the back of AppState.
UnrecordedSteps ==
    \/ \E c \in Ids, idx \in 0 .. MaxNodes, k \in Choice(Kinds) : McpInsertNode(c, idx, k)
    \/ \E ptr \in PtrWidth : SetPtrWidth(ptr)

ProjectSteps ==
    \/ \E reg \in Imports : ImportRcnet(reg)
    \/ \E file \in Files : Load(file)
    \/ Undo
    \/ Redo

Next ==
    \/ ClassSteps
    \/ ViewSteps
    \/ GuardedSteps
    \/ UncheckedSteps
    \/ PlainSteps
    \/ SelectionSteps
    \/ UnrecordedSteps
    \/ ProjectSteps

Spec == Init /\ [][Next]_vars

-----------------------------------------------------------------------------
(* What must hold.                                                         *)

\* Every variable has the type of the field it stands for.
TypeOK ==
    /\ project \in Project
    /\ history \in [undo : Seq(Saved), redo : Seq(Saved), nodes : Int]
    /\ selected \in Nat
    /\ view_status \in Seq(Ids \cup {NoStatus})
    /\ expand \in [set : SUBSET (Nat \X Nat), collapsed : SUBSET (Nat \X Nat)]
    /\ clipboard \in Seq(Node)

\* The projects there are: this one and those undo and redo come to.
Undoable(h) == {h.undo[i].project : i \in DOMAIN h.undo}
Redoable(h) == {h.redo[i].project : i \in DOMAIN h.redo}
Reachable == {project} \cup Undoable(history) \cup Redoable(history)

\* No class comes to hold itself by value, in this project or in one that
\* undo or redo brings back, whatever edits the callers interleave: the engine
\* would show it at a wrong size and load would refuse the saved project.
NoInlineCycle == \A p \in Reachable : Acyclic(p.registry)

\* A project that the editor saves can be loaded again: no class refers to
\* one that is gone, however removal, paste, undo and stale indices mix.
SavesLoad == \A p \in Reachable : Loadable(p)

\* Each view shows a class there is, and no class is open twice.
ViewsResolve == \A p \in Reachable :
    /\ \A i \in DOMAIN p.views : p.views[i] \in p.registry.live
    /\ \A i, j \in DOMAIN p.views : p.views[i] = p.views[j] => i = j

\* A new class never takes the id of another: next_id is ahead of all.
IdsFresh == \A p \in Reachable : \A c \in p.registry.live : c < p.registry.next_id

\* The cursor, the statuses and the expansions follow the views through
\* opening, closing, removing, undo, redo, import and load.
CursorsFollow ==
    /\ IF views = <<>> THEN selected = 0 ELSE selected < Len(views)
    /\ Len(view_status) = Len(views)
    /\ \A e \in expand.set \cup expand.collapsed : e[1] < Len(views)

\* At every point of a session, and of a frame, each view shows a class there
\* is, none is open twice, and the cursor, the statuses and the expansions are
\* positions in the list of views, whoever shortened or replaced it last.
ViewsHold == ViewsResolve /\ CursorsFollow

\* The cached counts are those of the snapshots, and the running total is
\* the sum over the undo stack: an error here would trim too much for ever.
CountsExact ==
    /\ \A i \in DOMAIN history.undo :
           history.undo[i].count = CountNodes(history.undo[i].project)
    /\ history.nodes = Weight(history.undo)

\* The two stacks together never outgrow DEPTH, although redo pushes to the
\* undo stack without looking at the caps.
HistoryCapped == Len(history.undo) + Len(history.redo) <= DEPTH

Structure(reg) == <<reg.live, reg.nodes, reg.name>>

\* "Undo covers every structural edit": after an edit, one undo brings back
\* the project as it was before it.
EditUndoable == [][
    \/ Structure(registry') = Structure(registry)
    \/ CanUndo(history') /\ UndoTarget(history') = project
    \/ Undo
    \/ Redo
    \/ \E file \in Files : Load(file)]_vars

\* Removing a class moves no node of another: what referred to it is replaced
\* by something of its size, even in arrays and several levels up.
RemoveKeepsLayout == [][
    (\E gone \in Ids : RemoveClass(gone)) =>
        \A c \in registry'.live :
            /\ Offsets(registry', c) = Offsets(registry, c)
            /\ SizeOf(registry', c) = SizeOf(registry, c)]_vars

\* What is expanded, by the class it is shown under.
Shown(S) == {<<views[e[1] + 1], e[2]>> : e \in S}

\* Closing a view or removing its class leaves the other views folded and
\* unfolded as they were, although all behind it change their position.
ClosingKeepsExpansion == [][
    (\E idx \in Roots : CloseView(idx)) \/ (\E c \in Ids : RemoveClass(c)) =>
        /\ Shown(expand.set)' = {e \in Shown(expand.set) : IsOpen(project', e[1])}
        /\ Shown(expand.collapsed)' =
               {e \in Shown(expand.collapsed) : IsOpen(project', e[1])}]_vars

\* The stacks around the project are one line of documents.
Documents(s) == [i \in DOMAIN s |-> s[i].project]

TL == INSTANCE Timeline WITH
        line <- Documents(history.undo) \o <<project>> \o Reverse(Documents(history.redo)),
        at   <- Len(history.undo) + 1

\* Undo and redo promise what Timeline says: every call is an edit, a move
\* along the line, or a change in place, and no edit forgets its own start.
TimelineSpec == TL!Spec
=============================================================================
