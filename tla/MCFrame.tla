------------------------------- MODULE MCFrame -------------------------------
(***************************************************************************)
(* Frame for TLC: every behaviour of a bounded number of frames and calls. *)
(***************************************************************************)
EXTENDS Frame

CONSTANTS
    MaxFrames,  \* bound: frames that are drawn
    MaxCalls,   \* bound: calls of MCP agents
    MaxWishes   \* bound: actions that plugins ask for

VARIABLES frames, calls, wishes

MCvars == <<fvars, frames, calls, wishes>>

MCLabels == {"none"}
MCPointers == {Pointer}
MCKinds == {Instance(2)}

\* Class 0 holds class 1, which holds class 2 and points at it; all are open.
MCFile ==
    LET c1 == ClassAdded(EmptyRegistry, NoLabel)
        c2 == ClassAdded(c1, NoLabel)
        c3 == ClassAdded(c2, NoLabel)
        n0 == NodesPushed(c3, 0, <<Plain(Instance(1))>>)
        n1 == NodesPushed(n0, 1, <<Plain(Instance(2)), Plain(ClassPtr(2))>>)
    IN  [registry |-> NodesPushed(n1, 2, <<Plain(Pointer)>>), views |-> <<0, 1, 2>>]

MCImport == NodesPushed(ClassAdded(EmptyRegistry, NoLabel), 0, <<Plain(Pointer)>>)

MCFiles == {MCFile}
MCTargets == {<<1, 0>>}
MCImports == {MCImport}

MCInit == FrameInit /\ frames = 0 /\ calls = 0 /\ wishes = 0

Hook ==
    /\ wishes' = wishes + Len(plugin_actions') - Len(plugin_actions)
    /\ wishes' <= MaxWishes

MCNext ==
    \/ frames < MaxFrames /\ Draw /\ frames' = frames + 1 /\ UNCHANGED calls /\ Hook
    \/ calls < MaxCalls /\ McpCall /\ calls' = calls + 1 /\ UNCHANGED <<frames, wishes>>
    \/ PreApply /\ UNCHANGED <<frames, calls>> /\ Hook
    \/ /\ New \/ ApplyNext \/ ApplyPlugin \/ EndFrame
       /\ UNCHANGED <<frames, calls, wishes>>

MCSpec == MCInit /\ [][MCNext]_MCvars
=============================================================================
