------------------------------ MODULE McpServer ------------------------------
(***************************************************************************)
(* The MCP server: a thread that takes one request at a time, hands those  *)
(* that need live state to the GUI thread over a channel, and waits for    *)
(* the answer; and the GUI thread, which once a frame starts or stops      *)
(* servers as the settings say and carries out what the channel holds.     *)
(* Stopping joins the very thread that may be waiting for the GUI.         *)
(***************************************************************************)
EXTENDS Integers, Sequences, SequencesExt

CONSTANTS Live,       \* requests that need the GUI thread
          Local,      \* requests that are answered without it
          Ports,
          Off,        \* no port: the server is disabled
          NoCall,
          MaxServers  \* bound: servers started in a session

ASSUME McpAssumption ==
    /\ Off \notin Ports
    /\ Live \cap Local = {}
    /\ NoCall \notin Live \cup Local
    /\ MaxServers \in Nat

Calls == Live \cup Local

Servers == 1 .. MaxServers

NoServer == 0

VARIABLES
    desired,    \* the port in the settings
    held,       \* the server whose handle the GUI has
    port,       \* per server
    gui,        \* how far the GUI thread is in its frame
    hand,       \* the call it has carried out and not answered
    shutdown,   \* per server: its flag
    thread,     \* per server: how far its thread is
    serving,    \* per server: the request it is at
    inbox,      \* per server: requests that wait to be taken
    chan,       \* per server: calls for the GUI
    replies,    \* calls with an answer nobody has read
    client,     \* per request: what its client knows
    forwarded,  \* history: all calls in the order they were forwarded
    applied     \* history: all calls in the order they were carried out

guiVars == <<desired, held, port, gui, hand>>
serverVars == <<shutdown, thread, serving, inbox>>
vars == <<guiVars, serverVars, chan, replies, client, forwarded, applied>>

Init ==
    /\ desired \in Ports \cup {Off}
    /\ held = NoServer
    /\ port = [g \in {NoServer} \cup Servers |-> Off]
    /\ gui = "rest"
    /\ hand = NoCall
    /\ shutdown = [g \in Servers |-> FALSE]
    /\ thread = [g \in Servers |-> "unborn"]
    /\ serving = [g \in Servers |-> NoCall]
    /\ inbox = [g \in Servers |-> <<>>]
    /\ chan = [g \in Servers |-> <<>>]
    /\ replies = {}
    /\ client = [c \in Calls |-> "idle"]
    /\ forwarded = <<>>
    /\ applied = <<>>

Alive(g) == thread[g] \notin {"unborn", "exited"}

-----------------------------------------------------------------------------
(* Clients and the HTTP library.                                           *)

\* A request arrives, its body perhaps only in part.
Send(c, g) ==
    /\ client[c] = "idle" /\ Alive(g)
    /\ client' = [client EXCEPT ![c] = "sending"]
    /\ inbox' = [inbox EXCEPT ![g] = Append(@, c)]
    /\ UNCHANGED <<guiVars, shutdown, thread, serving, chan, replies, forwarded, applied>>

\* The rest of its body.
SendRest(c) ==
    /\ client[c] = "sending"
    /\ client' = [client EXCEPT ![c] = "sent"]
    /\ UNCHANGED <<guiVars, serverVars, chan, replies, forwarded, applied>>

HangUp(c) ==
    /\ client[c] = "sending"
    /\ client' = [client EXCEPT ![c] = "gone"]
    /\ UNCHANGED <<guiVars, serverVars, chan, replies, forwarded, applied>>

-----------------------------------------------------------------------------
(* The server thread.                                                      *)

At(g, stage) == thread[g] = stage

Goto(g, stage) == thread' = [thread EXCEPT ![g] = stage]

\* The library drops the requests nobody took.
Exit(g) ==
    /\ Goto(g, "exited")
    /\ client' = [c \in Calls |->
                    IF c \in ToSet(inbox[g]) /\ client[c] # "gone" THEN "closed" ELSE client[c]]
    /\ inbox' = [inbox EXCEPT ![g] = <<>>]
    /\ UNCHANGED <<guiVars, shutdown, serving, chan, replies, forwarded, applied>>

\* The loop of serve: is it to stop ...
Leave(g) == At(g, "top") /\ shutdown[g] /\ Exit(g)

GoOn(g) ==
    /\ At(g, "top") /\ ~shutdown[g]
    /\ Goto(g, "recv")
    /\ UNCHANGED <<guiVars, shutdown, serving, inbox, chan, replies, client, forwarded, applied>>

\* ... is there a request ...
Poll(g) ==
    /\ At(g, "recv") /\ inbox[g] = <<>>
    /\ Goto(g, "top")
    /\ UNCHANGED <<guiVars, shutdown, serving, inbox, chan, replies, client, forwarded, applied>>

RecvFails(g) == At(g, "recv") /\ Exit(g)

Take(g) ==
    /\ At(g, "recv") /\ inbox[g] # <<>>
    /\ serving' = [serving EXCEPT ![g] = Head(inbox[g])]
    /\ inbox' = [inbox EXCEPT ![g] = Tail(@)]
    /\ Goto(g, "read")
    /\ UNCHANGED <<guiVars, shutdown, chan, replies, client, forwarded, applied>>

\* Respond and go on to the next.
Answer(g, what) ==
    /\ client' = [client EXCEPT ![serving[g]] = what]
    /\ serving' = [serving EXCEPT ![g] = NoCall]
    /\ Goto(g, "top")
    /\ UNCHANGED <<guiVars, shutdown, inbox, chan, forwarded, applied>>

\* ... its body is read to the end, for as long as that takes ...
ReadFails(g) ==
    /\ At(g, "read") /\ client[serving[g]] = "gone"
    /\ Answer(g, "gone")
    /\ UNCHANGED replies

AnswerLocally(g) ==
    /\ At(g, "read") /\ client[serving[g]] = "sent" /\ serving[g] \in Local
    /\ Answer(g, "ok")
    /\ UNCHANGED replies

\* ... and forward sends it, with a reply channel of its own.  The receiver is
\* there, since the GUI joins the thread before it drops it (OnlyOneServes).
Forward(g) ==
    /\ At(g, "read") /\ client[serving[g]] = "sent" /\ serving[g] \in Live
    /\ chan' = [chan EXCEPT ![g] = Append(@, serving[g])]
    /\ forwarded' = Append(forwarded, serving[g])
    /\ Goto(g, "check")
    /\ UNCHANGED <<guiVars, shutdown, serving, inbox, replies, client, applied>>

GiveUp(g) ==
    /\ At(g, "check") /\ shutdown[g]
    /\ Answer(g, "shutdown")
    /\ UNCHANGED replies

\* Variant for a mutant run: only the deadline ends the wait.
MayWaitOn(g) == TRUE

MayWait(g) == ~shutdown[g]

TimeOut(g) ==
    /\ At(g, "check") /\ ~shutdown[g]
    /\ Answer(g, "timeout")
    /\ UNCHANGED replies

Wait(g) ==
    /\ At(g, "check") /\ MayWait(g)
    /\ Goto(g, "wait")
    /\ UNCHANGED <<guiVars, shutdown, serving, inbox, chan, replies, client, forwarded, applied>>

\* Variant for a mutant run: one reply channel for all calls.
ReplyWaiting(c) == replies # {}

Replied(c) == c \in replies

GetReply(g) ==
    /\ At(g, "wait") /\ Replied(serving[g])
    /\ replies' = replies \ {serving[g]}
    /\ Answer(g, "ok")

NoReplyYet(g) ==
    /\ At(g, "wait") /\ ~Replied(serving[g])
    /\ Goto(g, "check")
    /\ UNCHANGED <<guiVars, shutdown, serving, inbox, chan, replies, client, forwarded, applied>>

-----------------------------------------------------------------------------
(* The GUI thread: the settings panel, then sync_mcp and drain_mcp.        *)

SetDesired(d) ==
    /\ gui = "rest"
    /\ desired' = d
    /\ UNCHANGED <<held, port, gui, hand, serverVars, chan, replies, client, forwarded, applied>>

\* Variant for a mutant run: only on and off are compared.
InSyncOnOff == (desired = Off) = (held = NoServer)

InSync == desired = port[held]

Sync ==
    /\ gui = "rest" /\ InSync
    /\ gui' = "drain"
    /\ UNCHANGED <<desired, held, port, hand, serverVars, chan, replies, client, forwarded, applied>>

\* Variant for a mutant run: the thread is joined and not told.
BeginStopUntold ==
    /\ gui = "rest" /\ ~InSync /\ held # NoServer
    /\ gui' = "join"
    /\ UNCHANGED <<desired, held, port, hand, serverVars, chan, replies, client, forwarded, applied>>

\* stop: the flag ...
BeginStop ==
    /\ gui = "rest" /\ ~InSync /\ held # NoServer
    /\ shutdown' = [shutdown EXCEPT ![held] = TRUE]
    /\ gui' = "join"
    /\ UNCHANGED <<desired, held, port, hand, thread, serving, inbox, chan, replies, client,
                   forwarded, applied>>

\* Variant for a mutant run: the handle is dropped while the thread goes on.
JoinsAtOnce(g) == TRUE

Joins(g) == At(g, "exited")

\* Variant for a mutant run: what is left in the channel is carried out first.
JoinCarryingOut ==
    /\ gui = "join" /\ Joins(held)
    /\ applied' = applied \o chan[held]
    /\ chan' = [chan EXCEPT ![held] = <<>>]
    /\ held' = NoServer
    /\ gui' = "start"
    /\ UNCHANGED <<desired, port, hand, serverVars, replies, client, forwarded>>

\* ... the thread, and then the channel with what is left in it.
Join ==
    /\ gui = "join" /\ Joins(held)
    /\ chan' = [chan EXCEPT ![held] = <<>>]
    /\ held' = NoServer
    /\ gui' = "start"
    /\ UNCHANGED <<desired, port, hand, serverVars, replies, client, forwarded, applied>>

NoneHeld ==
    /\ gui = "rest" /\ ~InSync /\ held = NoServer
    /\ gui' = "start"
    /\ UNCHANGED <<desired, held, port, hand, serverVars, chan, replies, client, forwarded, applied>>

StayOff ==
    /\ gui = "start" /\ desired = Off
    /\ gui' = "drain"
    /\ UNCHANGED <<desired, held, port, hand, serverVars, chan, replies, client, forwarded, applied>>

Start(g) ==
    /\ gui = "start" /\ desired # Off /\ At(g, "unborn")
    /\ held' = g
    /\ port' = [port EXCEPT ![g] = desired]
    /\ Goto(g, "top")
    /\ gui' = "drain"
    /\ UNCHANGED <<desired, hand, shutdown, serving, inbox, chan, replies, client, forwarded, applied>>

\* The port is taken, say; the settings are turned off.
StartFails ==
    /\ gui = "start" /\ desired # Off
    /\ desired' = Off
    /\ gui' = "drain"
    /\ UNCHANGED <<held, port, hand, serverVars, chan, replies, client, forwarded, applied>>

\* Variant for a mutant run: the newest first.
TakenLast(calls) == [call |-> Last(calls), rest |-> Front(calls)]

Taken(calls) == [call |-> Head(calls), rest |-> Tail(calls)]

Dispatch ==
    /\ gui = "drain" /\ held # NoServer /\ chan[held] # <<>>
    /\ hand' = Taken(chan[held]).call
    /\ chan' = [chan EXCEPT ![held] = Taken(@).rest]
    /\ applied' = Append(applied, Taken(chan[held]).call)
    /\ gui' = "reply"
    /\ UNCHANGED <<desired, held, port, serverVars, replies, client, forwarded>>

Reply ==
    /\ gui = "reply"
    /\ replies' = replies \cup {hand}
    /\ hand' = NoCall
    /\ gui' = "drain"
    /\ UNCHANGED <<desired, held, port, serverVars, chan, client, forwarded, applied>>

Drained ==
    /\ gui = "drain" /\ (held # NoServer => chan[held] = <<>>)
    /\ gui' = "rest"
    /\ UNCHANGED <<desired, held, port, hand, serverVars, chan, replies, client, forwarded, applied>>

-----------------------------------------------------------------------------
\* What the thread of g does of itself.
Serve(g) ==
    \/ Leave(g) \/ GoOn(g) \/ Poll(g) \/ Take(g)
    \/ ReadFails(g) \/ AnswerLocally(g) \/ Forward(g)
    \/ GiveUp(g) \/ Wait(g) \/ GetReply(g) \/ NoReplyYet(g)

Frame ==
    \/ Sync \/ BeginStop \/ Join \/ NoneHeld \/ StayOff
    \/ \E g \in Servers : Start(g)
    \/ StartFails \/ Dispatch \/ Reply \/ Drained

Next ==
    \/ \E g \in Servers : Serve(g)
    \/ \E g \in Servers : RecvFails(g)
    \/ \E g \in Servers : TimeOut(g)
    \/ Frame
    \/ \E d \in Ports \cup {Off} : SetDesired(d)
    \/ \E c \in Calls, g \in Servers : Send(c, g)
    \/ \E c \in Calls : SendRest(c)
    \/ \E c \in Calls : HangUp(c)

\* Frames come at the refresh rate, and the thread runs.  Its deadline need
\* not pass, and no client needs to send the rest of its request.
Running ==
    /\ Init /\ [][Next]_vars
    /\ WF_vars(Frame)
    /\ \A g \in Servers : WF_vars(Serve(g))

\* The same with clients that do.
Spec == Running /\ \A c \in Calls : WF_vars(SendRest(c))

-----------------------------------------------------------------------------
TypeOK ==
    /\ desired \in Ports \cup {Off}
    /\ held \in {NoServer} \cup Servers
    /\ port \in [{NoServer} \cup Servers -> Ports \cup {Off}]
    /\ gui \in {"rest", "join", "start", "drain", "reply"}
    /\ IF gui = "reply" THEN hand \in Calls ELSE hand = NoCall
    /\ shutdown \in [Servers -> BOOLEAN]
    /\ thread \in [Servers -> {"unborn", "top", "recv", "read", "check", "wait", "exited"}]
    /\ serving \in [Servers -> Calls \cup {NoCall}]
    /\ inbox \in [Servers -> Seq(Calls)]
    /\ chan \in [Servers -> Seq(Calls)]
    /\ replies \subseteq Calls
    /\ client \in [Calls -> {"idle", "sending", "sent", "gone", "ok", "timeout", "shutdown", "closed"}]
    /\ forwarded \in Seq(Calls)
    /\ applied \in Seq(Calls)

\* Only the server whose handle the GUI holds is alive, so that no thread ever
\* sends into a channel that is gone and no two serve at once, however often the
\* port changes: the old thread ends before the new one begins.
OnlyOneServes == \A g \in Servers : Alive(g) => g = held

\* A client that is told of success has had its own call carried out, also
\* when the answer to an earlier one came after its deadline.
AnswersOwn == \A c \in Live : client[c] = "ok" => c \in ToSet(applied)

Precedes(log, c, d) == \E i, j \in DOMAIN log : i < j /\ log[i] = c /\ log[j] = d

InOrderOf(log, calls) == \A i, j \in DOMAIN calls : i < j => Precedes(log, calls[i], calls[j])

\* Calls are carried out in the order in which they were forwarded and at most
\* once, also those that timed out meanwhile and were followed by others.
AppliedInOrder ==
    /\ IsInjective(applied) /\ ToSet(applied) \subseteq ToSet(forwarded)
    /\ InOrderOf(forwarded, applied)

\* What a stop has turned away, in the channel or before it, is not carried out
\* afterwards, by the drain of the same frame or of a later server.
TurnedAwayStaysUndone ==
    [][\A c \in Calls : client[c] \in {"shutdown", "closed"} /\ c \notin ToSet(applied)
                            => c \notin ToSet(applied')]_vars

\* A stop ends, with no deadline to help: the thread that the GUI waits for does
\* not go on waiting for the GUI.
StopEnds == gui = "join" ~> gui # "join"

\* Each request comes to an end, whatever the settings do meanwhile.
RequestsEnd == \A c \in Calls : client[c] = "sending" ~> client[c] \notin {"sending", "sent"}

\* If the settings stay as they are, the GUI comes to hold the server they ask
\* for: on another port, too.
SettingsFollowed == \A d \in Ports \cup {Off} :
    <>[](desired = d) => <>[](port[held] = d)
=============================================================================
