------------------------------ MODULE MCEditor ------------------------------
(***************************************************************************)
(* Editor for TLC: kinds, files and imports to choose from, and selections *)
(* of its steps that keep an instance small where the others add nothing.  *)
(***************************************************************************)
EXTENDS EditorLoops

MCLabels == {"none"}
MCNames == {"none", "a"}

MCInstances == {Instance(c) : c \in Ids}
MCPointers == {Pointer}
MCWords == {Scalar(8)}
MCSessionKinds == {Instance(1)}

\* A project as the editor leaves it on disk: class 0 holds class 1, which
\* points at class 2.
MCFile ==
    LET three == ClassAdded(ClassAdded(ClassAdded(EmptyRegistry, NoLabel), NoLabel), NoLabel)
    IN  [registry |-> NodesPushed(NodesPushed(three, 0, <<Plain(Instance(1))>>),
                                  1, <<Plain(ClassPtr(2))>>),
         views    |-> <<0, 1, 2>>]

MCImport == NodesPushed(ClassAdded(EmptyRegistry, NoLabel), 0, <<Plain(Scalar(4))>>)

MCFiles == {MCFile}
MCSmallFiles == {[registry |-> MCImport, views |-> <<0>>]}
MCImports == {MCImport}

-----------------------------------------------------------------------------
(* Every behaviour of a bounded number of calls.                           *)

CONSTANT MaxCalls  \* bound: calls of a session

VARIABLE calls

MCvars == <<vars, calls>>

MCInit == Init /\ calls = 0

Call(step) == calls < MaxCalls /\ step /\ calls' = calls + 1

\* The edits of the class graph.
EditNext ==
    \/ AddClass(NoLabel, 0)
    \/ \E c \in Ids : RemoveClass(c)
    \/ GuardedSteps
    \/ \E c \in Ids, idx \in Index : DeleteNode(c, idx)
    \/ \E targets \in Selections : DeleteMany(targets)
    \/ \E targets \in Selections : CopyNodes(targets)
    \/ \E c \in Ids, pos \in 0 .. MaxNodes : PasteNodes(c, pos)
    \/ ProjectSteps

EditSpec == MCInit /\ [][Call(EditNext)]_MCvars

\* Everything that AppState offers.
SessionSpec == MCInit /\ [][Call(Next)]_MCvars

-----------------------------------------------------------------------------
(* The history alone, for ever: edits of every size, changes in place, and  *)
(* the ways to lose or keep the stacks.                                     *)

HistoryNext ==
    \/ AddClass(NoLabel, 0)
    \/ \E c \in Ids : RemoveClass(c)
    \/ \E c \in Ids, n \in ByteCounts : AddBytes(c, n)
    \/ \E c \in Ids : DeleteNode(c, 0)
    \/ \E c \in Ids, k \in Kinds : McpInsertNode(c, 0, k)
    \/ \E idx \in Roots : CloseView(idx)
    \/ ProjectSteps

HistorySpec == MCInit /\ [][HistoryNext /\ UNCHANGED calls]_MCvars
=============================================================================
