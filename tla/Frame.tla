-------------------------------- MODULE Frame --------------------------------
(***************************************************************************)
(* ReClassApp: the frame loop around Editor.  A frame serves the calls of  *)
(* MCP agents, takes the rows and the plugins' wishes, draws, and only     *)
(* then applies what the user asked for and what the plugins asked for, in *)
(* this order.  So the arguments of an action are those of the drawing,    *)
(* and the state it meets is the one that all actions before it left; and  *)
(* what the interface remembers between frames (selections, the open cell  *)
(* editor) names rows by their path, whatever becomes of them meanwhile.   *)
(*                                                                         *)
(* One key or click a frame, with what it makes a text box do that loses   *)
(* the focus.  The target's memory is there, and the search box is empty.  *)
(* A row is the path of a node, or of a node in what that one refers to.   *)
(***************************************************************************)
EXTENDS Editor

CONSTANT PluginTargets  \* the nodes a plugin names, as <<class, index>>

\* Agents and plugins add a class without rows.
ASSUME FrameAssumption == PluginTargets \subseteq Ids \X Index /\ 0 \in SeedRows

VARIABLES
    app,             \* what the interface remembers, see App
    phase,           \* "new", and "calls", "actions", "plugins" of a frame
    actions,         \* the user's actions that are still to be applied
    plugin_actions   \* and the plugins'

ui == <<app, phase, actions, plugin_actions>>

fvars == <<vars, ui>>

Nothing == -1

NoEdit == <<>>

Paths == {<<i>> : i \in 0 .. MaxNodes} \cup ((0 .. MaxNodes) \X (0 .. MaxNodes))

\* The name and the comment of a row are both its label.
Fields == {"Value", "Label"}

App ==
    [editing          : {NoEdit} \cup (Nat \X Paths \X Fields),
     rows             : SUBSET Paths,
     sel_anchor       : Int,
     selected_classes : SUBSET Ids,
     class_anchor     : Int,
     renaming_class   : Ids \cup {Nothing}]

FrameInit ==
    /\ Init
    /\ project = EmptyProject
    /\ app = [editing |-> NoEdit, rows |-> {}, sel_anchor |-> Nothing,
              selected_classes |-> {}, class_anchor |-> Nothing,
              renaming_class |-> Nothing]
    /\ phase = "new"
    /\ actions = <<>>
    /\ plugin_actions = <<>>

-----------------------------------------------------------------------------
(* Rows, and the nodes they stand for.                                     *)

Target(k) == IF k.dims = <<>> THEN Referenced(k) ELSE {}

\* One segment of resolve_owner: where no class is entered, the next segment
\* counts in the same class.
Descend(at, i) ==
    IF at.lost \/ ~HasNode(registry, at.class, i)
    THEN [at EXCEPT !.lost = TRUE]
    ELSE LET k == registry.nodes[at.class][i + 1].kind
         IN  [lost  |-> FALSE,
              owner |-> <<at.class, i>>,
              class |-> IF Target(k) = {} THEN at.class ELSE k.arg]

\* resolve_owner: the node at a path, as a set of at most one.
Owner(c, path) ==
    LET at[n \in 0 .. Len(path)] ==
            IF n = 0 THEN [lost |-> FALSE, owner |-> <<c, 0>>, class |-> c]
            ELSE Descend(at[n - 1], path[n])
        end == at[Len(path)]
    IN  IF end.lost THEN {} ELSE {end.owner}

ViewClass == views[selected + 1]

Viewing == selected < Len(views)

Unfolded(root, i) ==
    LET k == RowKind(root, i)
    IN  IF IsClassPtr(k) THEN <<root, i>> \in expand.set
        ELSE k.tag = "instance" /\ <<root, i>> \notin expand.collapsed

Below(root, i) ==
    IF Target(RowKind(root, i)) # {} /\ Unfolded(root, i)
    THEN [j \in DOMAIN registry.nodes[RowKind(root, i).arg] |-> <<i, j - 1>>]
    ELSE <<>>

\* The rows of the selected view, from the top down.
RowList ==
    IF Viewing
    THEN FlattenSeq([n \in 1 .. Len(registry.nodes[ViewClass]) |->
                        <<<<n - 1>>>> \o Below(selected, n - 1)])
    ELSE <<>>

IsRow(path) == \E n \in DOMAIN RowList : RowList[n] = path

SelectedOwners == IF Viewing THEN UNION {Owner(ViewClass, p) : p \in app.rows} ELSE {}

\* Where Ctrl+V pastes: behind the last selected node of the class shown.
PastePlace ==
    LET marked == {t[2] + 1 : t \in {t \in SelectedOwners : t[1] = ViewClass}}
    IN  IF marked = {} THEN 0 ELSE CHOOSE p \in marked : \A q \in marked : q <= p

EditorShown == app.editing # NoEdit /\ app.editing[1] = selected /\ IsRow(app.editing[2])

RenameShown == app.renaming_class \in registry.live

-----------------------------------------------------------------------------
(* What a user can do to a frame.  `above' is drawn before the class list  *)
(* and `below' after it; a text box that loses the focus adds its own.     *)

Asks(above, below) ==
    \E renamed \in IF RenameShown THEN BOOLEAN ELSE {FALSE},
       typed   \in IF EditorShown THEN BOOLEAN ELSE {FALSE} :
        actions' = above
                   \o (IF renamed THEN <<<<"RenameClass", app.renaming_class>>,
                                         <<"EndRenameClass">>>> ELSE <<>>)
                   \o below
                   \o (IF typed THEN <<<<"CommitEdit">>>> ELSE <<>>)

Deferred(above, below) == Asks(above, below) /\ UNCHANGED app

Shortcut(act) ==
    /\ app.editing = NoEdit
    /\ app.renaming_class = Nothing
    /\ actions' = <<act>>
    /\ UNCHANGED app

\* Ctrl+Z, Ctrl+Shift+Z, Ctrl+C, Ctrl+V, Delete, which asks less, and Escape.
Keys ==
    \/ Shortcut(<<"Undo">>)
    \/ Shortcut(<<"Redo">>)
    \/ Shortcut(<<"CopySelected">>)
    \/ Viewing /\ Shortcut(<<"Paste", ViewClass, PastePlace>>)
    \/ /\ Viewing /\ app.editing = NoEdit /\ app.rows # {}
       /\ Deferred(<<>>, <<<<"DeleteSelected">>>>)
    \/ /\ EditorShown \/ RenameShown
       /\ actions' = (IF RenameShown THEN <<<<"EndRenameClass">>>> ELSE <<>>)
                      \o (IF EditorShown THEN <<<<"CancelEdit">>>> ELSE <<>>)
       /\ UNCHANGED app

\* The menu bar; files come from its dialogs.  The pointer width is set while
\* the bar is drawn, so before all that is applied afterwards.
Menu ==
    \/ CanUndo(history) /\ Deferred(<<<<"Undo">>>>, <<>>)
    \/ CanRedo(history) /\ Deferred(<<<<"Redo">>>>, <<>>)
    \/ app.rows # {} /\ Deferred(<<<<"CopySelected">>>>, <<>>)
    \/ Viewing /\ clipboard # <<>> /\ Deferred(<<<<"Paste", ViewClass, PastePlace>>>>, <<>>)
    \/ \E file \in LoadableFiles : Deferred(<<<<"Load", file>>>>, <<>>)
    \/ \E reg \in Imports : Deferred(<<<<"ImportRcnet", reg>>>>, <<>>)
    \/ \E ptr \in PtrWidth \ {registry.ptr} : Deferred(<<<<"SetPtrWidth", ptr>>>>, <<>>)

\* A list of classes, by their ids.
ClassList == Listing(registry.live)

Span(list, a, i) == {list[n] : n \in Smaller(a, i) .. a + i - Smaller(a, i)}

ClickClass(i) ==
    \/ \* plain
       /\ app' = [app EXCEPT !.selected_classes = {ClassList[i]}, !.class_anchor = i]
       /\ Asks(<<<<"OpenView", ClassList[i]>>>>, <<>>)
    \/ \* with Ctrl
       /\ app' = [app EXCEPT !.selected_classes = Flip(@, ClassList[i]), !.class_anchor = i]
       /\ Asks(<<>>, <<>>)
    \/ \* with Shift
       /\ app' = IF app.class_anchor \in DOMAIN ClassList
                 THEN [app EXCEPT !.selected_classes = Span(ClassList, app.class_anchor, i)]
                 ELSE [app EXCEPT !.selected_classes = @ \cup {ClassList[i]},
                                  !.class_anchor = i]
       /\ Asks(<<>>, <<>>)

SidePanel ==
    \/ \E rows \in SeedRows : Deferred(<<<<"AddClass", rows>>>>, <<>>)
    \/ \E i \in DOMAIN ClassList :
        /\ ClassList[i] # app.renaming_class
        /\ \/ ClickClass(i)
           \/ Deferred(<<<<"OpenView", ClassList[i]>>>>, <<>>)
           \/ Deferred(<<<<"StartRenameClass", ClassList[i]>>>>, <<>>)
           \/ Deferred(<<<<"RemoveClass", ClassList[i]>>>>, <<>>)
           \/ /\ Cardinality(app.selected_classes) > 1
              /\ Deferred(<<<<"RemoveSelectedClasses">>>>, <<>>)

\* The tabs, the class's name and address, and the bar that adds fields.
Toolbar(c) ==
    \/ \E root \in Roots : Deferred(<<>>, <<<<"SelectView", root>>>>)
    \/ \E root \in Roots : Deferred(<<>>, <<<<"CloseView", root>>>>)
    \/ Deferred(<<>>, <<<<"RenameClass", c>>>>)
    \/ \E k \in PluginKinds : Deferred(<<>>, <<<<"PushNode", c, k>>>>)
    \/ \E n \in ByteCounts : Deferred(<<>>, <<<<"AddBytes", c, n>>>>)
    \/ Deferred(<<>>, <<<<"ExpandAll">>>>)
    \/ Deferred(<<>>, <<<<"CollapseAll">>>>)
    \/ \E k \in Choice(Kinds), n \in Counts :
           Deferred(<<>>, <<<<"AddArray", c, k, n>>>>)

\* select_row, with no key, with Ctrl and with Shift; go to is the first.
SelectRow(n) ==
    /\ \/ app' = [app EXCEPT !.rows = {RowList[n]}, !.sel_anchor = n]
       \/ app' = [app EXCEPT !.rows = Flip(@, RowList[n]), !.sel_anchor = n]
       \/ app' = IF app.sel_anchor \in DOMAIN RowList
                 THEN [app EXCEPT !.rows = Span(RowList, app.sel_anchor, n)]
                 ELSE [app EXCEPT !.rows = @ \cup {RowList[n]}, !.sel_anchor = n]
    /\ Asks(<<>>, <<>>)

\* The triangle of a row of the class itself.
Triangle(c, i) ==
    LET k == RowKind(selected, i)
    IN  \/ k = Pointer /\ Deferred(<<>>, <<<<"ExpandPointer", c, i, selected, i>>>>)
        \/ IsClassPtr(k) /\ Deferred(<<>>, <<<<"Toggle", selected, i>>>>)
        \/ IsAggregate(k) /\ Deferred(<<>>, <<<<"ToggleCollapse", selected, i>>>>)

\* The menus of a row on its node, the i-th of class c.
NodeMenu(c, i) ==
    \/ \E k \in Choice(Kinds) : Deferred(<<>>, <<<<"ChangeKind", c, i, k>>>>)
    \/ /\ registry.nodes[c][i + 1].kind.dims # <<>>
       /\ \E n \in Counts : Deferred(<<>>, <<<<"SetArrayCount", c, i, n>>>>)
    \/ clipboard # <<>> /\ Deferred(<<>>, <<<<"Paste", c, i + 1>>>>)
    \/ \E k \in PluginKinds : Deferred(<<>>, <<<<"InsertAfter", c, i, k>>>>)
    \/ Deferred(<<>>, <<<<"DeleteNode", c, i>>>>)
    \/ app.rows # {} /\ Deferred(<<>>, <<<<"DeleteSelected">>>>)
    \/ \E t \in Target(registry.nodes[c][i + 1].kind) :
        \/ Deferred(<<>>, <<<<"SetExpr", t>>, <<"OpenView", t>>>>)
        \/ \E n \in ByteCounts : Deferred(<<>>, <<<<"AddBytes", t, n>>>>)

\* What a plugin may ask for, of nodes it saw or did not see.
Wishes ==
    {<<"AddClass", 0>>}
    \cup {<<"PushNode", t[1], k>> : t \in PluginTargets, k \in PluginKinds}
    \cup {<<"DeleteNode", t[1], t[2]>> : t \in PluginTargets}
    \cup {<<"Load", file>> : file \in LoadableFiles}

Table ==
    \E n \in DOMAIN RowList :
        \/ SelectRow(n)
        \/ Len(RowList[n]) = 1 /\ Triangle(ViewClass, RowList[n][1])
        \/ \E field \in Fields :
            Deferred(<<>>, <<<<"StartEdit", selected, RowList[n], field>>>>)
        \/ \E t \in Owner(ViewClass, RowList[n]) : NodeMenu(t[1], t[2])
        \/ \E wish \in Wishes : Deferred(<<>>, <<wish>>)

Gesture ==
    \/ Deferred(<<>>, <<>>)
    \/ Keys
    \/ Menu
    \/ SidePanel
    \/ Viewing /\ Toolbar(ViewClass)
    \/ Viewing /\ Table

\* None or one, so that both hooks of a frame together wish for one.
AtMostOne(S) == {<<>>} \cup {<<x>> : x \in S}

Draw ==
    /\ phase = "calls"
    /\ phase' = "actions"
    /\ ComputeRows
    /\ plugin_actions' \in AtMostOne(Wishes)
    /\ Gesture

-----------------------------------------------------------------------------
(* Applying what was asked for.                                            *)

Unmoved == UNCHANGED vars

SelectionCleared(a) == [a EXCEPT !.rows = {}, !.sel_anchor = Nothing]

Forgotten(a) ==
    [SelectionCleared(a) EXCEPT !.selected_classes = {}, !.class_anchor = Nothing,
                                !.editing = NoEdit, !.renaming_class = Nothing]

\* Actions that leave alone what the interface remembers.
ApplyEdit(a) ==
    /\ \/ a[1] = "AddClass" /\ AddClass(NoLabel, a[2])
       \/ a[1] = "OpenView" /\ OpenIn(project, a[2]) /\ UNCHANGED <<history, expand, clipboard>>
       \/ a[1] \in {"SetExpr", "RenameClass"} /\ RelabelClass(a[2], NoLabel)
       \/ a[1] = "Toggle" /\ SetExpand(Toggled(expand, a[2], a[3]))
       \/ a[1] = "ToggleCollapse" /\ SetExpand(CollapseToggled(expand, a[2], a[3]))
       \/ a[1] = "ExpandPointer" /\ ExpandPointer(a[2], a[3], a[4], a[5])
       \/ a[1] = "PushNode" /\ PushNode(a[2], a[3])
       \/ a[1] = "AddBytes" /\ AddBytes(a[2], a[3])
       \/ a[1] = "AddArray" /\ IF Guarded(a[2], a[3]) THEN AddArray(a[2], a[3], a[4]) ELSE Unmoved
       \/ a[1] = "InsertAfter" /\ InsertAfter(a[2], a[3], a[4])
       \/ a[1] = "DeleteNode" /\ DeleteNode(a[2], a[3])
       \/ a[1] = "ChangeKind" /\ IF Guarded(a[2], a[4]) THEN ChangeKind(a[2], a[3], a[4]) ELSE Unmoved
       \/ a[1] = "SetArrayCount" /\ SetArrayCount(a[2], a[3], a[4])
       \/ a[1] = "CopySelected" /\ CopyNodes(SelectedOwners)
       \/ /\ a[1] = "Paste"
          /\ IF clipboard # <<>> /\ Pastable(a[2]) THEN PasteNodes(a[2], a[3]) ELSE Unmoved
       \/ a[1] = "ExpandAll" /\ IF Viewing THEN ExpandAll ELSE Unmoved
       \/ a[1] = "SetPtrWidth" /\ SetPtrWidth(a[2])
       \/ a[1] = "CollapseAll" /\ IF Viewing THEN CollapseAll ELSE Unmoved
    /\ UNCHANGED app

\* Actions that change it as well.
ApplyAndForget(a) ==
    \/ /\ a[1] = "CloseView"
       /\ IF a[2] < Len(views) THEN CloseView(a[2]) ELSE Unmoved
       /\ app' = SelectionCleared(app)
    \/ /\ a[1] = "SelectView"
       /\ selected' = a[2]
       /\ UNCHANGED <<project, history, view_status, expand, clipboard>>
       /\ app' = SelectionCleared(app)
    \/ /\ a[1] = "RemoveClass"
       /\ RemoveClass(a[2])
       /\ app' = [SelectionCleared(app) EXCEPT !.selected_classes = @ \ {a[2]}]
    \/ /\ a[1] = "DeleteSelected"
       /\ IF Viewing THEN DeleteMany(SelectedOwners) ELSE Unmoved
       /\ app' = IF Viewing THEN SelectionCleared(app) ELSE app
    \/ /\ a[1] = "ImportRcnet"
       /\ ImportRcnet(a[2])
       /\ app' = [SelectionCleared(app) EXCEPT !.selected_classes = {}, !.editing = NoEdit]
    \/ /\ a[1] = "Load"
       /\ Load(a[2])
       /\ app' = SelectionCleared(app)
    \/ /\ a[1] = "Undo"
       /\ IF CanUndo(history) THEN Undo /\ app' = Forgotten(app) ELSE Unmoved /\ UNCHANGED app
    \/ /\ a[1] = "Redo"
       /\ IF CanRedo(history) THEN Redo /\ app' = Forgotten(app) ELSE Unmoved /\ UNCHANGED app

\* The text boxes.  A new value goes to the target's memory, at the address
\* that the rows of this moment give it.
ApplyTyping(a) ==
    \/ /\ a[1] = "StartEdit"
       /\ app' = [app EXCEPT !.editing = <<a[2], a[3], a[4]>>]
       /\ Unmoved
    \/ /\ a[1] = "CancelEdit"
       /\ app' = [app EXCEPT !.editing = NoEdit]
       /\ Unmoved
    \/ /\ a[1] = "CommitEdit"
       /\ app' = [app EXCEPT !.editing = NoEdit]
       /\ LET found == IF Viewing /\ app.editing # NoEdit
                       THEN Owner(ViewClass, app.editing[2]) ELSE {}
          IN  IF found = {} THEN Unmoved
              ELSE IF app.editing[3] = "Value" THEN ComputeRows
              ELSE \E t \in found : RelabelNode(t[1], t[2], NoLabel)
    \/ /\ a[1] = "StartRenameClass"
       /\ app' = [app EXCEPT !.renaming_class = a[2]]
       /\ Unmoved
    \/ /\ a[1] = "EndRenameClass"
       /\ app' = [app EXCEPT !.renaming_class = Nothing]
       /\ Unmoved

Apply(a) == ApplyEdit(a) \/ ApplyAndForget(a) \/ ApplyTyping(a)

\* The selected classes go one after the other, in the order of a hash set.
RemoveSelectedClasses(rest) ==
    /\ \E order \in SetToSeqs(app.selected_classes) :
           actions' = [i \in DOMAIN order |-> <<"RemoveClass", order[i]>>] \o rest
    /\ app' = [SelectionCleared(app) EXCEPT !.selected_classes = {}, !.class_anchor = Nothing]
    /\ Unmoved

ApplyNext ==
    /\ phase = "actions" /\ actions # <<>>
    /\ IF actions[1] = <<"RemoveSelectedClasses">>
       THEN RemoveSelectedClasses(Tail(actions))
       ELSE Apply(actions[1]) /\ actions' = Tail(actions)
    /\ UNCHANGED <<phase, plugin_actions>>

\* on_pre_apply, after the user's actions.
PreApply ==
    /\ phase = "actions" /\ actions = <<>>
    /\ phase' = "plugins"
    /\ plugin_actions' \in IF plugin_actions = <<>> THEN AtMostOne(Wishes)
                          ELSE {plugin_actions}
    /\ UNCHANGED <<vars, app, actions>>

\* Variant for a mutant run: the plugins' actions need not wait.
ApplyPluginSooner ==
    /\ phase \in {"actions", "plugins"} /\ plugin_actions # <<>>
    /\ Apply(plugin_actions[1])
    /\ plugin_actions' = Tail(plugin_actions)
    /\ UNCHANGED <<phase, actions>>

ApplyPlugin ==
    /\ phase = "plugins" /\ plugin_actions # <<>>
    /\ Apply(plugin_actions[1])
    /\ plugin_actions' = Tail(plugin_actions)
    /\ UNCHANGED <<phase, actions>>

EndFrame ==
    /\ phase = "plugins" /\ plugin_actions = <<>>
    /\ phase' = "calls"
    /\ UNCHANGED <<vars, app, actions, plugin_actions>>

-----------------------------------------------------------------------------
\* The starter class with the rows the settings give it, or in its place the
\* project that the program was started with.
New ==
    /\ phase = "new" /\ phase' = "calls"
    /\ \/ \E rows \in SeedRows : AddClass(NoLabel, rows)
       \/ \E file \in Files : Load(file)
    /\ UNCHANGED <<app, actions, plugin_actions>>

\* drain_mcp: an agent edits the project and the interface hears nothing.
McpCall ==
    /\ phase = "calls"
    /\ \/ AddClass(NoLabel, 0)
       \/ \E c \in Ids : RemoveClass(c)
       \/ \E c \in Ids, i \in Index : DeleteNode(c, i)
       \/ Undo
       \/ Redo
       \/ \E file \in Files : Load(file)
    /\ UNCHANGED ui

FrameNext == New \/ McpCall \/ Draw \/ ApplyNext \/ PreApply \/ ApplyPlugin \/ EndFrame

FrameSpec == FrameInit /\ [][FrameNext]_fvars

-----------------------------------------------------------------------------
(* What must hold.                                                         *)

\* Every variable has the type of the field it stands for.
FrameTypeOK ==
    /\ TypeOK
    /\ app \in App
    /\ phase \in {"new", "calls", "actions", "plugins"}

\* Whatever is deferred and however late it is applied, AppState sees only
\* calls it is made for: views there are, classes there are, one call at a
\* time.  So everything that holds of Editor holds of the program.
CallsFit == Init /\ [][vars' # vars => Next]_vars

\* "Suppressed while an inline editor has focus": the shortcuts are off only
\* where there is a cell editor to type in.
SuppressedByFocus ==
    phase = "calls" /\ app.editing # NoEdit => EditorShown
=============================================================================
