--------------------------- MODULE McpServerProofs ---------------------------
(***************************************************************************)
(* Theorems about McpServer, for every number of requests and servers.     *)
(***************************************************************************)
EXTENDS McpServer, TLAPS

\* What the actions do with queues.
LEMMA Queues ==
    ASSUME NEW S, NEW q \in Seq(S)
    PROVE  /\ <<>> \in Seq(S)
           /\ q # <<>> => Head(q) \in S /\ Tail(q) \in Seq(S)
           /\ \A c \in S : Append(q, c) \in Seq(S) /\ ToSet(Append(q, c)) = ToSet(q) \cup {c}
<1>1. <<>> \in Seq(S)
  OBVIOUS
<1>2. ASSUME q # <<>> PROVE Head(q) \in S /\ Tail(q) \in Seq(S)
  BY <1>2
<1>3. ASSUME NEW c \in S
      PROVE  Append(q, c) \in Seq(S) /\ ToSet(Append(q, c)) = ToSet(q) \cup {c}
  <2> DEFINE r == Append(q, c)
  <2>1. /\ r \in Seq(S)
        /\ DOMAIN q = 1 .. Len(q)
        /\ DOMAIN r = 1 .. Len(q) + 1
        /\ Len(q) \in Nat
        /\ \A i \in 1 .. Len(q) : r[i] = q[i]
        /\ r[Len(q) + 1] = c
    OBVIOUS
  <2>2. ASSUME NEW x PROVE x \in ToSet(r) <=> x \in ToSet(q) \cup {c}
    <3>1. x \in ToSet(r) <=> \E i \in 1 .. Len(q) + 1 : x = r[i]
      BY <2>1 DEF ToSet
    <3>2. x \in ToSet(q) <=> \E i \in 1 .. Len(q) : x = q[i]
      BY <2>1 DEF ToSet
    <3> HIDE DEF r
    <3>3. \A i \in 1 .. Len(q) + 1 : i \in 1 .. Len(q) \/ i = Len(q) + 1
      BY <2>1
    <3>4. Len(q) + 1 \in 1 .. Len(q) + 1 /\ \A i \in 1 .. Len(q) : i \in 1 .. Len(q) + 1
      BY <2>1
    <3> QED
      BY <2>1, <3>1, <3>2, <3>3, <3>4
  <2> QED
    BY <2>1, <2>2
<1> QED
  BY <1>1, <1>2, <1>3

LEMMA TailSet ==
    ASSUME NEW S, NEW q \in Seq(S), q # <<>>
    PROVE  Head(q) \in ToSet(q) /\ ToSet(Tail(q)) \subseteq ToSet(q)
<1>1. /\ DOMAIN q = 1 .. Len(q) /\ Len(q) \in Nat /\ 1 \in 1 .. Len(q) /\ Head(q) = q[1]
      /\ DOMAIN Tail(q) = 1 .. Len(q) - 1
      /\ \A i \in 1 .. Len(q) - 1 : Tail(q)[i] = q[i + 1] /\ i + 1 \in 1 .. Len(q)
  OBVIOUS
<1> QED
  BY <1>1 DEF ToSet

LEMMA DistinctTail ==
    ASSUME NEW S, NEW q \in Seq(S), q # <<>>, IsInjective(q)
    PROVE  /\ Head(q) \in ToSet(q) /\ ToSet(Tail(q)) \subseteq ToSet(q)
           /\ IsInjective(Tail(q)) /\ Head(q) \notin ToSet(Tail(q))
<1>1. /\ DOMAIN q = 1 .. Len(q) /\ Len(q) \in Nat /\ 1 \in 1 .. Len(q) /\ Head(q) = q[1]
      /\ DOMAIN Tail(q) = 1 .. Len(q) - 1
      /\ \A i \in 1 .. Len(q) - 1 : Tail(q)[i] = q[i + 1] /\ i + 1 \in 1 .. Len(q)
  OBVIOUS
<1>2. IsInjective(Tail(q))
  BY <1>1 DEF IsInjective
<1>3. Head(q) \notin ToSet(Tail(q))
  BY <1>1 DEF IsInjective, ToSet
<1> QED
  BY <1>2, <1>3, TailSet

LEMMA DistinctAppend ==
    ASSUME NEW S, NEW q \in Seq(S), NEW c \in S, IsInjective(q), c \notin ToSet(q)
    PROVE  IsInjective(Append(q, c))
<1>1. /\ DOMAIN q = 1 .. Len(q) /\ Len(q) \in Nat
      /\ DOMAIN Append(q, c) = 1 .. Len(q) + 1
      /\ \A i \in 1 .. Len(q) : Append(q, c)[i] = q[i]
      /\ Append(q, c)[Len(q) + 1] = c
  OBVIOUS
<1>2. \A i \in 1 .. Len(q) + 1 : i \in 1 .. Len(q) \/ i = Len(q) + 1
  BY <1>1
<1>3. \A i \in 1 .. Len(q) : q[i] # c
  BY <1>1 DEF ToSet
<1> QED
  BY <1>1, <1>2, <1>3 DEF IsInjective

LEMMA TypeInit == Init => TypeOK
BY McpAssumption DEF Init, TypeOK, Calls, Servers, NoServer

LEMMA TypeStep == TypeOK /\ [Next]_vars => TypeOK'
<1> SUFFICES ASSUME TypeOK, [Next]_vars PROVE TypeOK'
  OBVIOUS
<1> USE DEF TypeOK
<1>1. ASSUME NEW g \in Servers, Exit(g) PROVE TypeOK'
  BY <1>1 DEF Exit, Goto, guiVars
<1>2. ASSUME NEW g \in Servers, NEW what \in {"gone", "ok", "timeout", "shutdown"},
             Answer(g, what), replies' \subseteq replies
      PROVE  TypeOK'
  BY <1>2 DEF Answer, Goto, guiVars
<1>3. ASSUME NEW g \in Servers, Serve(g) PROVE TypeOK'
  <2>1. CASE Leave(g) BY <2>1, <1>1 DEF Leave
  <2>2. CASE GoOn(g) BY <2>2 DEF GoOn, Goto, guiVars
  <2>3. CASE Poll(g) BY <2>3 DEF Poll, Goto, guiVars
  <2>4. CASE Take(g)
    <3>1. Head(inbox[g]) \in Calls /\ Tail(inbox[g]) \in Seq(Calls)
      BY <2>4, Queues DEF Take
    <3> QED BY <3>1, <2>4 DEF Take, Goto, guiVars
  <2>5. CASE ReadFails(g) BY <2>5, <1>2 DEF ReadFails
  <2>6. CASE AnswerLocally(g) BY <2>6, <1>2 DEF AnswerLocally
  <2>7. CASE Forward(g)
    <3>1. serving[g] \in Calls
      BY <2>7 DEF Forward, Calls
    <3>2. /\ Append(chan[g], serving[g]) \in Seq(Calls)
          /\ Append(forwarded, serving[g]) \in Seq(Calls)
      BY <3>1, Queues
    <3> QED BY <3>2, <2>7 DEF Forward, Goto, guiVars
  <2>8. CASE GiveUp(g) BY <2>8, <1>2 DEF GiveUp
  <2>9. CASE Wait(g) BY <2>9 DEF Wait, Goto, guiVars
  <2>10. CASE GetReply(g) BY <2>10, <1>2 DEF GetReply
  <2>11. CASE NoReplyYet(g) BY <2>11 DEF NoReplyYet, Goto, guiVars
  <2> QED
    BY <1>3, <2>1, <2>2, <2>3, <2>4, <2>5, <2>6, <2>7, <2>8, <2>9, <2>10, <2>11 DEF Serve
<1>4. ASSUME NEW g \in Servers, RecvFails(g) PROVE TypeOK'
  BY <1>4, <1>1 DEF RecvFails
<1>5. ASSUME NEW g \in Servers, TimeOut(g) PROVE TypeOK'
  BY <1>5, <1>2 DEF TimeOut
<1>6. ASSUME Frame PROVE TypeOK'
  <2>1. CASE Sync BY <2>1 DEF Sync, serverVars
  <2>2. CASE BeginStop BY <2>2 DEF BeginStop
  <2>3. CASE Join BY <2>3, Queues DEF Join, serverVars
  <2>4. CASE NoneHeld BY <2>4 DEF NoneHeld, serverVars
  <2>5. CASE StayOff BY <2>5 DEF StayOff, serverVars
  <2>6. ASSUME NEW g \in Servers, Start(g) PROVE TypeOK'
    BY <2>6 DEF Start, Goto
  <2>7. CASE StartFails BY <2>7 DEF StartFails, serverVars
  <2>8. CASE Dispatch
    <3>1. held \in Servers /\ chan[held] # <<>>
      BY <2>8 DEF Dispatch
    <3>2. Head(chan[held]) \in Calls /\ Tail(chan[held]) \in Seq(Calls)
      BY <3>1, Queues
    <3>3. Append(applied, Head(chan[held])) \in Seq(Calls)
      BY <3>2, Queues
    <3> QED BY <3>1, <3>2, <3>3, <2>8 DEF Dispatch, Taken, serverVars
  <2>9. CASE Reply BY <2>9 DEF Reply, serverVars
  <2>10. CASE Drained BY <2>10 DEF Drained, serverVars
  <2> QED
    BY <1>6, <2>1, <2>2, <2>3, <2>4, <2>5, <2>6, <2>7, <2>8, <2>9, <2>10 DEF Frame
<1>7. ASSUME NEW d \in Ports \cup {Off}, SetDesired(d) PROVE TypeOK'
  BY <1>7 DEF SetDesired, serverVars
<1>8. ASSUME NEW c \in Calls, NEW g \in Servers, Send(c, g) PROVE TypeOK'
  BY <1>8, Queues DEF Send, guiVars
<1>9. ASSUME NEW c \in Calls, SendRest(c) \/ HangUp(c) PROVE TypeOK'
  BY <1>9 DEF SendRest, HangUp, guiVars, serverVars
<1>10. CASE UNCHANGED vars
  BY <1>10 DEF vars, guiVars, serverVars
<1> QED
  BY <1>3, <1>4, <1>5, <1>6, <1>7, <1>8, <1>9, <1>10 DEF Next

\* Every variable has its type.
THEOREM TypeCorrect == Spec => []TypeOK
BY TypeInit, TypeStep, PTL DEF Spec, Running

-----------------------------------------------------------------------------
\* Where the GUI thread may be, and what it has not said yet.
FrameInv ==
    /\ gui = "start" => held = NoServer
    /\ gui = "join" => held # NoServer

Carried ==
    /\ gui = "reply" => hand \in ToSet(applied)
    /\ replies \subseteq ToSet(applied)

IInv == TypeOK /\ FrameInv /\ OnlyOneServes /\ Carried /\ AnswersOwn

\* A step of the server's threads leaves the GUI and what it has done alone, ends
\* or goes on with threads that were alive, and tells a client of success only
\* of what has an answer.
LEMMA ThreadSteps ==
    ASSUME TypeOK, NEW g \in Servers, Serve(g) \/ RecvFails(g) \/ TimeOut(g)
    PROVE  /\ UNCHANGED <<guiVars, applied>>
           /\ replies' \subseteq replies
           /\ \A h \in Servers : Alive(h)' => Alive(h)
           /\ \A c \in Live : client'[c] = "ok" => client[c] = "ok" \/ c \in replies
<1> USE DEF TypeOK, guiVars, Alive, At, Goto
<1>1. ASSUME Exit(g), thread[g] # "unborn"
      PROVE  /\ UNCHANGED <<guiVars, applied, replies>>
             /\ \A h \in Servers : Alive(h)' => Alive(h)
             /\ \A c \in Live : client'[c] = "ok" => client[c] = "ok"
  BY <1>1 DEF Exit, Calls
<1>2. ASSUME NEW what, Answer(g, what), thread[g] \notin {"unborn", "exited"}
      PROVE  /\ UNCHANGED <<guiVars, applied>>
             /\ \A h \in Servers : Alive(h)' => Alive(h)
             /\ \A c \in Live : client'[c] = "ok" =>
                    client[c] = "ok" \/ (c = serving[g] /\ what = "ok")
  BY <1>2 DEF Answer, Calls
<1>3. CASE Leave(g)
  BY <1>3, <1>1 DEF Leave
<1>4. CASE RecvFails(g)
  BY <1>4, <1>1 DEF RecvFails
<1>5. CASE GoOn(g) \/ Poll(g) \/ Take(g) \/ Forward(g) \/ Wait(g) \/ NoReplyYet(g)
  BY <1>5 DEF GoOn, Poll, Take, Forward, Wait, NoReplyYet
<1>6. CASE ReadFails(g)
  BY <1>6, <1>2 DEF ReadFails
<1>7. CASE AnswerLocally(g)
  BY <1>7, <1>2, McpAssumption DEF AnswerLocally
<1>8. CASE GiveUp(g)
  BY <1>8, <1>2 DEF GiveUp
<1>9. CASE TimeOut(g)
  BY <1>9, <1>2 DEF TimeOut
<1>10. CASE GetReply(g)
  BY <1>10, <1>2 DEF GetReply, Replied
<1> QED
  BY <1>3, <1>4, <1>5, <1>6, <1>7, <1>8, <1>9, <1>10 DEF Serve

\* The rest of the environment touches neither.
LEMMA OutsideSteps ==
    ASSUME TypeOK,
           \/ \E d \in Ports \cup {Off} : SetDesired(d)
           \/ \E c \in Calls, g \in Servers : Send(c, g)
           \/ \E c \in Calls : SendRest(c) \/ HangUp(c)
           \/ UNCHANGED vars
    PROVE  /\ UNCHANGED <<held, gui, hand, thread, replies, applied>>
           /\ \A c \in Live : client'[c] = "ok" => client[c] = "ok"
BY DEF TypeOK, SetDesired, Send, SendRest, HangUp, vars, guiVars, serverVars, Calls

LEMMA Inductive == IInv /\ [Next]_vars => IInv'
<1> SUFFICES ASSUME IInv, [Next]_vars PROVE IInv'
  OBVIOUS
<1>1. TypeOK'
  BY TypeStep DEF IInv
<1>2. ASSUME NEW g \in Servers, Serve(g) \/ RecvFails(g) \/ TimeOut(g) PROVE IInv'
  BY <1>1, <1>2, ThreadSteps DEF IInv, FrameInv, OnlyOneServes, Carried, AnswersOwn, guiVars
<1>3. ASSUME \/ \E d \in Ports \cup {Off} : SetDesired(d)
             \/ \E c \in Calls, g \in Servers : Send(c, g)
             \/ \E c \in Calls : SendRest(c) \/ HangUp(c)
             \/ UNCHANGED vars
      PROVE  IInv'
  BY <1>1, <1>3, OutsideSteps
     DEF IInv, FrameInv, OnlyOneServes, Carried, AnswersOwn, Alive
<1>4. ASSUME Frame PROVE IInv'
  <2>1. FrameInv' /\ OnlyOneServes'
    <3> USE <1>4 DEF IInv, TypeOK, FrameInv, OnlyOneServes, Alive, At, NoServer, Servers
    <3>1. CASE Sync \/ NoneHeld \/ StayOff \/ StartFails \/ Reply \/ Drained
      BY <3>1 DEF Sync, NoneHeld, StayOff, StartFails, Reply, Drained, serverVars
    <3>2. CASE BeginStop
      BY <3>2 DEF BeginStop
    <3>3. CASE Join
      BY <3>3 DEF Join, Joins, serverVars
    <3>4. ASSUME NEW g \in Servers, Start(g) PROVE FrameInv' /\ OnlyOneServes'
      BY <3>4 DEF Start, Goto
    <3>5. CASE Dispatch
      BY <3>5 DEF Dispatch, serverVars
    <3> QED
      BY <3>1, <3>2, <3>3, <3>4, <3>5 DEF Frame
  <2>2. Carried' /\ AnswersOwn'
    <3>1. CASE Dispatch
      <4>1. held \in Servers /\ chan[held] # <<>>
        BY <3>1 DEF Dispatch, IInv, TypeOK
      <4>2. Head(chan[held]) \in Calls
        BY <4>1, Queues DEF IInv, TypeOK
      <4>3. ToSet(applied') = ToSet(applied) \cup {hand'}
        BY <4>2, <3>1, Queues DEF Dispatch, Taken, IInv, TypeOK
      <4> QED
        BY <4>3, <3>1 DEF IInv, Carried, AnswersOwn, Dispatch
    <3>2. CASE Reply
      BY <3>2 DEF IInv, Carried, AnswersOwn, Reply
    <3>3. ASSUME Frame, ~Dispatch, ~Reply
          PROVE  gui' # "reply" /\ UNCHANGED <<replies, applied, client>>
      BY <3>3 DEF Frame, Sync, BeginStop, Join, NoneHeld, StayOff, Start, StartFails, Drained
    <3> QED
      BY <1>4, <3>1, <3>2, <3>3 DEF IInv, Carried, AnswersOwn
  <2> QED
    BY <1>1, <2>1, <2>2 DEF IInv
<1> QED
  BY <1>2, <1>3, <1>4 DEF Next

LEMMA InitInvariant == Init => IInv
BY TypeInit DEF Init, IInv, FrameInv, OnlyOneServes, Alive, Carried, AnswersOwn, ToSet, Calls

LEMMA Invariant == Spec => []IInv
<1> QED
  BY InitInvariant, Inductive, PTL DEF Spec, Running

\* No thread but that of the server the GUI holds is alive.
THEOREM OneServes == Spec => []OnlyOneServes
BY Invariant, PTL DEF IInv

\* Success is told of what has been carried out.
THEOREM Truthful == Spec => []AnswersOwn
BY Invariant, PTL DEF IInv

-----------------------------------------------------------------------------
\* A request waits at one server, once, and has not been forwarded yet.
InboxInv == \A g \in Servers :
    /\ ~Alive(g) => inbox[g] = <<>>
    /\ IsInjective(inbox[g])
    /\ \A c \in ToSet(inbox[g]) :
         client[c] \in {"sending", "sent", "gone"} /\ c \notin ToSet(forwarded) /\ c # serving[g]

\* Neither has the one that is being read.
ReadInv == \A g \in Servers :
    /\ serving[g] # NoCall => client[serving[g]] # "idle"
    /\ thread[g] = "read" =>
        /\ serving[g] \in Calls
        /\ client[serving[g]] \in {"sending", "sent", "gone"}
        /\ serving[g] \notin ToSet(forwarded)

\* One that has been is whole, and is in the channel of the server that is
\* held, if it is in any.
ForwardedInv ==
    /\ \A c \in ToSet(forwarded) : client[c] \in {"sent", "ok", "timeout", "shutdown"}
    /\ \A g \in Servers : ToSet(chan[g]) \subseteq ToSet(forwarded)
    /\ \A g \in Servers : g # held => chan[g] = <<>>

\* The GUI that has told a server to stop does nothing but wait for it.
StopInv == \A g \in Servers :
    /\ shutdown[g] /\ g = held => gui = "join"
    /\ thread[g] = "unborn" => ~shutdown[g] /\ g # held
    /\ \A c \in ToSet(chan[g]) : client[c] = "shutdown" => shutdown[g]

PlaceInv == InboxInv /\ ReadInv /\ ForwardedInv /\ StopInv

\* What an answer leaves of the invariant, wherever the thread was.
LEMMA AnswerPlaces ==
    ASSUME IInv, PlaceInv, NEW g \in Servers, NEW what \in {"gone", "ok", "timeout", "shutdown"},
           Answer(g, what), thread[g] \in {"read", "check", "wait"},
           what = "gone" => thread[g] = "read",
           what = "shutdown" => shutdown[g]
    PROVE  PlaceInv'
<1> USE DEF IInv, TypeOK, PlaceInv
<1>1. \A h \in Servers : Alive(h) <=> h = g
  BY DEF OnlyOneServes, Alive
<1>2. /\ \A h \in Servers : Alive(h)' <=> h = g
      /\ \A h \in Servers : thread'[h] # "read"
      /\ \A h \in Servers : thread'[h] = "unborn" => thread[h] = "unborn"
  BY <1>1 DEF Answer, Goto, Alive
<1>3. /\ \A c \in Calls : c # serving[g] => client'[c] = client[c]
      /\ serving[g] \in Calls => client'[serving[g]] = what
      /\ \A h \in Servers : serving'[h] = IF h = g THEN NoCall ELSE serving[h]
      /\ UNCHANGED <<shutdown, inbox, chan, forwarded, held, gui>>
  BY DEF Answer, guiVars
<1>4. InboxInv'
  BY <1>1, <1>2, <1>3, McpAssumption DEF InboxInv, IsInjective, ToSet, Calls
<1>5. ReadInv'
  <2>1. ASSUME NEW h \in Servers, serving'[h] # NoCall PROVE client'[serving'[h]] # "idle"
    <3>1. serving[h] \in Calls /\ serving'[h] = serving[h] /\ client[serving[h]] # "idle"
      BY <1>3, <2>1 DEF ReadInv
    <3> QED
      BY <1>3, <3>1
  <2> QED
    BY <1>2, <2>1 DEF ReadInv
<1>6. ToSet(forwarded) \subseteq Calls
  BY DEF ToSet
<1>7. ForwardedInv'
  BY <1>3, <1>6 DEF ForwardedInv, ReadInv
<1>8. StopInv'
  <2>1. \A h \in Servers : ToSet(chan[h]) \subseteq Calls
    BY DEF ToSet
  <2>2. \A h \in Servers : h # g => ToSet(chan[h]) = {}
    BY <1>1 DEF ForwardedInv, OnlyOneServes, ToSet
  <2> QED
    BY <1>2, <1>3, <2>1, <2>2 DEF StopInv
<1> QED
  BY <1>4, <1>5, <1>7, <1>8

\* So does the end of a thread.
LEMMA ExitPlaces ==
    ASSUME IInv, PlaceInv, NEW g \in Servers, Exit(g), thread[g] \in {"top", "recv"}
    PROVE  PlaceInv'
<1> USE DEF IInv, TypeOK, PlaceInv
<1>1. \A h \in Servers : Alive(h) <=> h = g
  BY DEF OnlyOneServes, Alive
<1>2. /\ \A h \in Servers : ~Alive(h)'
      /\ \A h \in Servers : thread'[h] = "unborn" => thread[h] = "unborn"
      /\ \A h \in Servers : inbox'[h] = <<>>
      /\ UNCHANGED <<shutdown, chan, forwarded, held, gui>>
  BY <1>1 DEF Exit, Goto, Alive, guiVars, InboxInv
<1>3. \A c \in Calls : client'[c] # client[c] => client'[c] = "closed" /\ c \in ToSet(inbox[g])
  BY DEF Exit
<1>4. InboxInv'
  BY <1>2 DEF InboxInv, IsInjective, ToSet
<1>5. ReadInv'
  <2>1. serving' = serving /\ \A h \in Servers : thread'[h] # "read"
    BY <1>2 DEF Exit, Alive
  <2>2. ASSUME NEW h \in Servers, serving[h] # NoCall PROVE client'[serving[h]] # "idle"
    <3>1. serving[h] \in Calls /\ client[serving[h]] # "idle"
      BY <2>2 DEF ReadInv
    <3> QED
      BY <1>3, <3>1
  <2> QED
    BY <2>1, <2>2 DEF ReadInv
<1>6. ToSet(forwarded) \subseteq Calls /\ \A h \in Servers : ToSet(chan[h]) \subseteq Calls
  BY DEF ToSet
<1>7. ForwardedInv'
  BY <1>2, <1>3, <1>6 DEF ForwardedInv, InboxInv
<1>8. StopInv'
  BY <1>2, <1>3, <1>6 DEF StopInv
<1> QED
  BY <1>4, <1>5, <1>7, <1>8

\* The steps of a thread.
LEMMA ThreadPlaces ==
    ASSUME IInv, PlaceInv, NEW g \in Servers, Serve(g) \/ RecvFails(g) \/ TimeOut(g)
    PROVE  PlaceInv'
<1> USE DEF IInv, TypeOK, PlaceInv, At
<1>1. CASE Leave(g) \/ RecvFails(g)
  BY <1>1, ExitPlaces DEF Leave, RecvFails
<1>2. CASE ReadFails(g) \/ AnswerLocally(g) \/ GiveUp(g) \/ TimeOut(g) \/ GetReply(g)
  BY <1>2, AnswerPlaces DEF ReadFails, AnswerLocally, GiveUp, TimeOut, GetReply
<1>3. CASE GoOn(g) \/ Poll(g) \/ Wait(g) \/ NoReplyYet(g)
  <2>1. /\ UNCHANGED <<held, gui, shutdown, serving, inbox, chan, client, forwarded>>
        /\ \A h \in Servers : Alive(h)' <=> Alive(h)
        /\ \A h \in Servers : thread'[h] = "read" => thread[h] = "read"
        /\ \A h \in Servers : thread'[h] = "unborn" => thread[h] = "unborn"
    BY <1>3 DEF GoOn, Poll, Wait, NoReplyYet, Goto, Alive, guiVars
  <2> QED
    BY <2>1 DEF InboxInv, ReadInv, ForwardedInv, StopInv
<1>4. CASE Take(g)
  <2> DEFINE c == Head(inbox[g])
  <2>1. /\ inbox[g] \in Seq(Calls) /\ inbox[g] # <<>>
        /\ serving' = [serving EXCEPT ![g] = c]
        /\ inbox' = [inbox EXCEPT ![g] = Tail(@)]
        /\ thread[g] = "recv" /\ thread' = [thread EXCEPT ![g] = "read"]
        /\ UNCHANGED <<held, gui, shutdown, chan, client, forwarded>>
    BY <1>4 DEF Take, Goto, guiVars
  <2>2. /\ c \in ToSet(inbox[g])
        /\ ToSet(Tail(inbox[g])) \subseteq ToSet(inbox[g])
        /\ IsInjective(Tail(inbox[g]))
        /\ c \notin ToSet(Tail(inbox[g]))
    BY <2>1, DistinctTail DEF InboxInv
  <2>3. \A h \in Servers : Alive(h)' <=> Alive(h)
    BY <2>1 DEF Alive
  <2>4. InboxInv'
    BY <2>1, <2>2, <2>3 DEF InboxInv, Alive
  <2>5. ReadInv'
    BY <2>1, <2>2 DEF ReadInv, InboxInv
  <2>6. ForwardedInv' /\ StopInv'
    BY <2>1 DEF ForwardedInv, StopInv
  <2> QED
    BY <2>4, <2>5, <2>6
<1>5. CASE Forward(g)
  <2> DEFINE c == serving[g]
  <2>1. /\ c \in Calls /\ client[c] = "sent"
        /\ chan' = [chan EXCEPT ![g] = Append(@, c)]
        /\ forwarded' = Append(forwarded, c)
        /\ thread[g] = "read" /\ thread' = [thread EXCEPT ![g] = "check"]
        /\ UNCHANGED <<held, gui, shutdown, serving, inbox, client>>
    BY <1>5 DEF Forward, Goto, guiVars, Calls
  <2>2. /\ ToSet(forwarded') = ToSet(forwarded) \cup {c}
        /\ ToSet(chan'[g]) = ToSet(chan[g]) \cup {c}
        /\ \A h \in Servers : h # g => chan'[h] = chan[h]
    BY <2>1, Queues
  <2>3. \A h \in Servers : Alive(h) <=> h = g
    BY <2>1 DEF OnlyOneServes, Alive
  <2>4. \A h \in Servers : Alive(h)' <=> h = g
    BY <2>1, <2>3 DEF Alive
  <2>5. InboxInv'
    <3>1. \A h \in Servers : h # g => inbox[h] = <<>>
      BY <2>3 DEF InboxInv
    <3>2. \A h \in Servers : c \notin ToSet(inbox[h])
      BY <2>1, <3>1 DEF InboxInv, ToSet
    <3> QED
      BY <2>1, <2>2, <2>3, <2>4, <3>2 DEF InboxInv
  <2>6. ReadInv'
    BY <2>1, <2>3 DEF ReadInv, Alive
  <2>7. ForwardedInv'
    BY <2>1, <2>2, <2>3 DEF ForwardedInv, OnlyOneServes
  <2>8. StopInv'
    BY <2>1, <2>2 DEF StopInv
  <2> QED
    BY <2>5, <2>6, <2>7, <2>8
<1> QED
  BY <1>1, <1>2, <1>3, <1>4, <1>5 DEF Serve

\* Those of the GUI thread.
LEMMA FramePlaces == IInv /\ PlaceInv /\ Frame => PlaceInv'
<1> SUFFICES ASSUME IInv, PlaceInv, Frame PROVE PlaceInv'
  OBVIOUS
<1> USE DEF IInv, TypeOK, PlaceInv, At
<1>1. CASE Sync \/ NoneHeld \/ StayOff \/ StartFails \/ Reply \/ Drained
  <2>1. /\ UNCHANGED <<held, shutdown, thread, serving, inbox, chan, client, forwarded>>
        /\ gui # "join"
    BY <1>1 DEF Sync, NoneHeld, StayOff, StartFails, Reply, Drained, serverVars
  <2> QED
    BY <2>1 DEF InboxInv, ReadInv, ForwardedInv, StopInv, Alive
<1>2. CASE BeginStop
  <2>1. held \in Servers /\ thread[held] # "unborn"
    BY <1>2 DEF BeginStop, StopInv
  <2> QED
    BY <1>2, <2>1 DEF BeginStop, InboxInv, ReadInv, ForwardedInv, StopInv, Alive
<1>3. CASE Join
  <2>1. /\ chan' = [chan EXCEPT ![held] = <<>>] /\ held \in Servers /\ held' = NoServer
        /\ UNCHANGED <<shutdown, thread, serving, inbox, client, forwarded>>
    BY <1>3 DEF Join, FrameInv, serverVars
  <2>2. ToSet(chan'[held]) = {} /\ \A h \in Servers : h # held => chan'[h] = chan[h]
    BY <2>1 DEF ToSet
  <2> QED
    BY <2>1, <2>2 DEF InboxInv, ReadInv, ForwardedInv, StopInv, Alive, NoServer, Servers
<1>4. ASSUME NEW g \in Servers, Start(g) PROVE PlaceInv'
  <2>1. /\ thread[g] = "unborn" /\ thread' = [thread EXCEPT ![g] = "top"] /\ held' = g
        /\ UNCHANGED <<shutdown, serving, inbox, chan, client, forwarded>>
        /\ held = NoServer
    BY <1>4 DEF Start, Goto, FrameInv
  <2>2. \A h \in Servers : h # held
    BY <2>1 DEF NoServer, Servers
  <2> QED
    BY <2>1, <2>2 DEF InboxInv, ReadInv, ForwardedInv, StopInv, Alive
<1>5. CASE Dispatch
  <2>1. /\ held \in Servers /\ chan[held] \in Seq(Calls) /\ chan[held] # <<>>
        /\ chan' = [chan EXCEPT ![held] = Tail(@)]
        /\ UNCHANGED <<held, shutdown, thread, serving, inbox, client, forwarded>>
        /\ gui # "join"
    BY <1>5 DEF Dispatch, Taken, serverVars
  <2>2. /\ ToSet(chan'[held]) \subseteq ToSet(chan[held])
        /\ \A h \in Servers : h # held => chan'[h] = chan[h]
    BY <2>1, TailSet
  <2> QED
    BY <2>1, <2>2 DEF InboxInv, ReadInv, ForwardedInv, StopInv, Alive
<1> QED
  BY <1>1, <1>2, <1>3, <1>4, <1>5 DEF Frame

\* Those of the clients and of the settings.
LEMMA OutsidePlaces ==
    ASSUME IInv, PlaceInv,
           \/ \E d \in Ports \cup {Off} : SetDesired(d)
           \/ \E c \in Calls, g \in Servers : Send(c, g)
           \/ \E c \in Calls : SendRest(c) \/ HangUp(c)
           \/ UNCHANGED vars
    PROVE  PlaceInv'
<1> USE DEF IInv, TypeOK, PlaceInv
<1>1. CASE (\E d \in Ports \cup {Off} : SetDesired(d)) \/ UNCHANGED vars
  <2>1. UNCHANGED <<held, gui, shutdown, thread, serving, inbox, chan, client, forwarded>>
    BY <1>1 DEF SetDesired, vars, guiVars, serverVars
  <2> QED
    BY <2>1 DEF InboxInv, ReadInv, ForwardedInv, StopInv, Alive
<1>2. ASSUME NEW c \in Calls, NEW g \in Servers, Send(c, g) PROVE PlaceInv'
  <2>1. /\ client[c] = "idle" /\ client' = [client EXCEPT ![c] = "sending"] /\ Alive(g)
        /\ inbox' = [inbox EXCEPT ![g] = Append(@, c)]
        /\ UNCHANGED <<held, gui, shutdown, thread, serving, chan, forwarded>>
    BY <1>2 DEF Send, guiVars
  <2>2. /\ c \notin ToSet(forwarded)
        /\ \A h \in Servers : c \notin ToSet(inbox[h]) /\ c \notin ToSet(chan[h])
    BY <2>1 DEF ForwardedInv, InboxInv
  <2>3. /\ ToSet(inbox'[g]) = ToSet(inbox[g]) \cup {c}
        /\ IsInjective(inbox'[g])
        /\ \A h \in Servers : h # g => inbox'[h] = inbox[h]
    BY <2>1, <2>2, Queues, DistinctAppend DEF InboxInv
  <2>4. c # serving[g]
    BY <2>1, McpAssumption DEF ReadInv, Calls
  <2>5. InboxInv'
    BY <2>1, <2>2, <2>3, <2>4 DEF InboxInv, Alive
  <2>6. ReadInv' /\ ForwardedInv' /\ StopInv'
    BY <2>1, <2>2 DEF ReadInv, ForwardedInv, StopInv
  <2> QED
    BY <2>5, <2>6
<1>3. ASSUME NEW c \in Calls, SendRest(c) \/ HangUp(c) PROVE PlaceInv'
  <2>1. /\ client[c] = "sending"
        /\ client' = [client EXCEPT ![c] = "sent"] \/ client' = [client EXCEPT ![c] = "gone"]
        /\ UNCHANGED <<held, gui, shutdown, thread, serving, inbox, chan, forwarded>>
    BY <1>3 DEF SendRest, HangUp, guiVars, serverVars
  <2>2. c \notin ToSet(forwarded) /\ \A h \in Servers : c \notin ToSet(chan[h])
    BY <2>1 DEF ForwardedInv
  <2>3. /\ \A d \in Calls : d # c => client'[d] = client[d]
        /\ client'[c] \in {"sent", "gone"}
    BY <2>1
  <2>4. /\ ToSet(forwarded) \subseteq Calls
        /\ \A h \in Servers : ToSet(inbox[h]) \subseteq Calls /\ ToSet(chan[h]) \subseteq Calls
    BY DEF ToSet
  <2>5. InboxInv'
    BY <2>4, <2>1, <2>3 DEF InboxInv, Alive
  <2>6. ReadInv'
    BY <2>1, <2>3 DEF ReadInv
  <2>7. ForwardedInv' /\ StopInv'
    BY <2>4, <2>1, <2>2, <2>3 DEF ForwardedInv, StopInv
  <2> QED
    BY <2>5, <2>6, <2>7
<1> QED
  BY <1>1, <1>2, <1>3

LEMMA Places == Spec => [](IInv /\ PlaceInv)
<1>1. Init => IInv /\ PlaceInv
  BY InitInvariant
     DEF Init, PlaceInv, InboxInv, ReadInv, ForwardedInv, StopInv, Alive, IsInjective, ToSet,
         NoServer, Servers
<1>2. IInv /\ PlaceInv /\ [Next]_vars => IInv' /\ PlaceInv'
  BY Inductive, ThreadPlaces, FramePlaces, OutsidePlaces DEF Next
<1> QED
  BY <1>1, <1>2, PTL DEF Spec, Running

\* What a stop has turned away is not carried out afterwards.
THEOREM StaysUndone == Spec => TurnedAwayStaysUndone
<1>1. ASSUME IInv, PlaceInv, [Next]_vars, NEW c \in Calls,
             client[c] \in {"shutdown", "closed"}, c \notin ToSet(applied)
      PROVE  c \notin ToSet(applied')
  <2>1. CASE Dispatch
    <3> DEFINE d == Head(chan[held])
    <3>1. /\ held \in Servers /\ chan[held] \in Seq(Calls) /\ chan[held] # <<>>
          /\ applied' = Append(applied, d) /\ applied \in Seq(Calls) /\ gui # "join"
      BY <1>1, <2>1 DEF Dispatch, Taken, IInv, TypeOK
    <3>2. d \in ToSet(chan[held]) /\ d \in Calls
      BY <3>1, TailSet, Queues
    <3>3. c # d
      BY <1>1, <3>1, <3>2 DEF PlaceInv, ForwardedInv, StopInv
    <3>4. ToSet(applied') = ToSet(applied) \cup {d}
      BY <3>1, <3>2, Queues
    <3> QED
      BY <1>1, <3>3, <3>4
  <2>2. CASE Frame /\ ~Dispatch
    <3>1. UNCHANGED applied
      BY <2>2 DEF Frame, Sync, BeginStop, Join, NoneHeld, StayOff, Start, StartFails, Reply, Drained
    <3> QED
      BY <1>1, <3>1
  <2>3. CASE ~Frame
    <3>1. UNCHANGED applied
      BY <1>1, <2>3, ThreadSteps, OutsideSteps DEF Next, IInv
    <3> QED
      BY <1>1, <3>1
  <2> QED
    BY <2>1, <2>2, <2>3
<1>2. IInv /\ PlaceInv /\ [Next]_vars =>
        [\A c \in Calls : client[c] \in {"shutdown", "closed"} /\ c \notin ToSet(applied)
                              => c \notin ToSet(applied')]_vars
  BY <1>1
<1> QED
  BY <1>2, Places, PTL DEF Spec, Running, TurnedAwayStaysUndone
-----------------------------------------------------------------------------
\* No call is forwarded twice; those carried out went before those that wait,
\* and both lie in the order they were forwarded in.
OrderInv ==
    /\ IsInjective(forwarded)
    /\ ToSet(applied) \subseteq ToSet(forwarded)
    /\ InOrderOf(forwarded, applied)
    /\ \A g \in Servers : InOrderOf(forwarded, chan[g])
    /\ \A g \in Servers : \A c \in ToSet(applied), d \in ToSet(chan[g]) : Precedes(forwarded, c, d)

\* What precedes still does when another call has been logged, and all that
\* were precede it.
LEMMA PrecedesAppend ==
    ASSUME NEW log \in Seq(Calls), NEW e \in Calls
    PROVE  /\ \A c, d : Precedes(log, c, d) => Precedes(Append(log, e), c, d)
           /\ \A c \in ToSet(log) : Precedes(Append(log, e), c, e)
<1> DEFINE n == Len(log)
           new == Append(log, e)
<1>1. /\ n \in Nat /\ DOMAIN log = 1 .. n /\ DOMAIN new = 1 .. n + 1
      /\ \A i \in 1 .. n : new[i] = log[i]
      /\ new[n + 1] = e
  OBVIOUS
<1> HIDE DEF n, new
<1>2. n + 1 \in 1 .. n + 1 /\ \A i \in 1 .. n : i \in 1 .. n + 1 /\ i < n + 1
  BY <1>1
<1>3. /\ \A c, d : Precedes(log, c, d) => Precedes(new, c, d)
      /\ \A c \in ToSet(log) : Precedes(new, c, e)
  BY <1>1, <1>2 DEF Precedes, ToSet
<1> QED
  BY <1>3 DEF new

\* An ordered queue stays so without its head, and with a call at its end that
\* all of it precedes.
LEMMA OrderTail ==
    ASSUME NEW log, NEW q \in Seq(Calls), q # <<>>, InOrderOf(log, q)
    PROVE  InOrderOf(log, Tail(q)) /\ \A d \in ToSet(Tail(q)) : Precedes(log, Head(q), d)
<1> DEFINE n == Len(q)
           r == Tail(q)
<1>1. /\ n \in Nat /\ DOMAIN q = 1 .. n /\ 1 \in 1 .. n /\ Head(q) = q[1]
      /\ DOMAIN r = 1 .. n - 1
      /\ \A i \in 1 .. n - 1 : r[i] = q[i + 1] /\ i + 1 \in 1 .. n
  OBVIOUS
<1>2. \A i, j \in 1 .. n - 1 : i < j => i + 1 < j + 1
  BY <1>1
<1>3. \A i \in 1 .. n - 1 : 1 < i + 1
  BY <1>1
<1> HIDE DEF n, r
<1>4. InOrderOf(log, r)
  BY <1>1, <1>2 DEF InOrderOf
<1>5. \A d \in ToSet(r) : Precedes(log, Head(q), d)
  BY <1>1, <1>3 DEF InOrderOf, ToSet
<1> QED
  BY <1>4, <1>5 DEF r

LEMMA OrderAppend ==
    ASSUME NEW log, NEW q \in Seq(Calls), NEW e \in Calls,
           InOrderOf(log, q), \A c \in ToSet(q) : Precedes(log, c, e)
    PROVE  InOrderOf(log, Append(q, e))
<1> DEFINE n == Len(q)
           r == Append(q, e)
<1>1. /\ n \in Nat /\ DOMAIN q = 1 .. n /\ DOMAIN r = 1 .. n + 1
      /\ \A i \in 1 .. n : r[i] = q[i]
      /\ r[n + 1] = e
  OBVIOUS
<1>2. \A i, j \in 1 .. n + 1 : i < j => i \in 1 .. n /\ (j \in 1 .. n \/ j = n + 1)
  BY <1>1
<1> HIDE DEF n, r
<1>3. InOrderOf(log, r)
  BY <1>1, <1>2 DEF InOrderOf, ToSet
<1> QED
  BY <1>3 DEF r

\* What neither forwards nor takes a call disturbs no order.
LEMMA OrderKept ==
    ASSUME OrderInv, UNCHANGED <<forwarded, applied>>,
           \A g \in Servers : chan'[g] \in {chan[g], <<>>}
    PROVE  OrderInv'
<1>1. InOrderOf(forwarded, <<>>) /\ ToSet(<<>>) = {}
  BY DEF InOrderOf, ToSet
<1> QED
  BY <1>1 DEF OrderInv

LEMMA OrderForward ==
    ASSUME IInv, PlaceInv, OrderInv, NEW g \in Servers, Forward(g)
    PROVE  OrderInv'
<1> USE DEF IInv, TypeOK, PlaceInv, OrderInv
<1> DEFINE c == serving[g]
           log == Append(forwarded, c)
<1>1. /\ c \in Calls /\ thread[g] = "read" /\ c \notin ToSet(forwarded)
      /\ forwarded' = log
      /\ chan' = [chan EXCEPT ![g] = Append(@, c)]
      /\ UNCHANGED applied
  BY DEF Forward, At, Calls, ReadInv
<1>2. /\ ToSet(log) = ToSet(forwarded) \cup {c}
      /\ ToSet(chan'[g]) = ToSet(chan[g]) \cup {c}
      /\ \A h \in Servers : h # g => chan'[h] = chan[h]
  BY <1>1, Queues
<1>3. IsInjective(log)
  BY <1>1, DistinctAppend
<1>4. /\ \A x, y : Precedes(forwarded, x, y) => Precedes(log, x, y)
      /\ \A x \in ToSet(forwarded) : Precedes(log, x, c)
  BY <1>1, PrecedesAppend
<1>5. ToSet(chan[g]) \subseteq ToSet(forwarded)
  BY DEF ForwardedInv
<1>6. InOrderOf(log, applied) /\ \A h \in Servers : InOrderOf(log, chan[h])
  BY <1>4 DEF InOrderOf
<1>7. InOrderOf(log, chan'[g])
  <2>1. InOrderOf(log, Append(chan[g], c))
    BY <1>1, <1>4, <1>5, <1>6, OrderAppend
  <2> QED
    BY <1>1, <2>1
<1>8. ASSUME NEW h \in Servers, NEW x \in ToSet(applied), NEW y \in ToSet(chan'[h])
      PROVE  Precedes(log, x, y)
  BY <1>2, <1>4, <1>8
<1> QED
  BY <1>1, <1>2, <1>3, <1>6, <1>7, <1>8

LEMMA OrderDispatch ==
    ASSUME IInv, PlaceInv, OrderInv, Dispatch
    PROVE  OrderInv'
<1> USE DEF IInv, TypeOK, PlaceInv, OrderInv
<1> DEFINE q == chan[held]
           c == Head(q)
<1>1. /\ held \in Servers /\ q \in Seq(Calls) /\ q # <<>>
      /\ applied' = Append(applied, c)
      /\ chan' = [chan EXCEPT ![held] = Tail(@)]
      /\ UNCHANGED forwarded
  BY DEF Dispatch, Taken
<1>2. c \in Calls /\ c \in ToSet(q) /\ ToSet(Tail(q)) \subseteq ToSet(q)
  BY <1>1, Queues, TailSet
<1>3. InOrderOf(forwarded, q) /\ ToSet(q) \subseteq ToSet(forwarded)
  BY <1>1 DEF ForwardedInv
<1>4. InOrderOf(forwarded, Tail(q)) /\ \A d \in ToSet(Tail(q)) : Precedes(forwarded, c, d)
  BY <1>1, <1>3, OrderTail
<1>5. \A x \in ToSet(applied) : Precedes(forwarded, x, c)
  BY <1>1, <1>2
<1>6. InOrderOf(forwarded, Append(applied, c))
  BY <1>2, <1>5, OrderAppend
<1>7. ToSet(applied') = ToSet(applied) \cup {c}
  BY <1>1, <1>2, Queues
<1>8. /\ chan'[held] = Tail(q)
      /\ \A h \in Servers : h # held => chan'[h] = chan[h] /\ ToSet(chan[h]) = {}
  BY <1>1 DEF ForwardedInv, ToSet
<1>9. ASSUME NEW h \in Servers, NEW x \in ToSet(applied'), NEW y \in ToSet(chan'[h])
      PROVE  Precedes(forwarded, x, y)
  <2>1. h = held /\ y \in ToSet(Tail(q)) /\ y \in ToSet(chan[held])
    BY <1>2, <1>8, <1>9
  <2>2. CASE x \in ToSet(applied)
    BY <1>1, <2>1, <2>2
  <2>3. CASE x = c
    BY <2>1, <2>3, <1>4
  <2> QED
    BY <1>7, <1>9, <2>2, <2>3
<1>10. \A h \in Servers : InOrderOf(forwarded, chan'[h])
  BY <1>4, <1>8
<1>11. ToSet(applied') \subseteq ToSet(forwarded)
  BY <1>2, <1>3, <1>7
<1> QED
  BY <1>1, <1>6, <1>9, <1>10, <1>11

LEMMA OrderStep == IInv /\ PlaceInv /\ OrderInv /\ [Next]_vars => OrderInv'
<1> SUFFICES ASSUME IInv, PlaceInv, OrderInv, [Next]_vars PROVE OrderInv'
  OBVIOUS
<1>1. ASSUME NEW g \in Servers, Serve(g) \/ RecvFails(g) \/ TimeOut(g), ~Forward(g)
      PROVE  OrderInv'
  <2>1. UNCHANGED <<chan, forwarded, applied>>
    BY <1>1 DEF Serve, RecvFails, TimeOut, Leave, Exit, GoOn, Poll, Take, ReadFails, AnswerLocally,
                GiveUp, Wait, GetReply, NoReplyYet, Answer
  <2> QED
    BY <2>1, OrderKept
<1>2. ASSUME Frame, ~Dispatch PROVE OrderInv'
  <2>1. /\ UNCHANGED <<forwarded, applied>>
        /\ UNCHANGED chan \/ chan' = [chan EXCEPT ![held] = <<>>]
    BY <1>2 DEF Frame, Sync, BeginStop, Join, NoneHeld, StayOff, Start, StartFails, Reply, Drained
  <2>2. \A g \in Servers : chan'[g] \in {chan[g], <<>>}
    BY <2>1 DEF IInv, TypeOK
  <2> QED
    BY <2>1, <2>2, OrderKept
<1>3. ASSUME \/ \E d \in Ports \cup {Off} : SetDesired(d)
             \/ \E c \in Calls, g \in Servers : Send(c, g)
             \/ \E c \in Calls : SendRest(c) \/ HangUp(c)
             \/ UNCHANGED vars
      PROVE  OrderInv'
  <2>1. UNCHANGED <<chan, forwarded, applied>>
    BY <1>3 DEF SetDesired, Send, SendRest, HangUp, vars
  <2> QED
    BY <2>1, OrderKept
<1> QED
  BY <1>1, <1>2, <1>3, OrderForward, OrderDispatch DEF Next

\* Calls are carried out in the order in which they were forwarded, each at most
\* once, whatever timed out meanwhile and however often servers came and went.
THEOREM Applied == Spec => []AppliedInOrder
<1>1. Init => OrderInv
  BY DEF Init, OrderInv, InOrderOf, IsInjective, ToSet
<1>2. IInv /\ OrderInv => AppliedInOrder
  <2> SUFFICES ASSUME IInv, OrderInv PROVE IsInjective(applied)
    BY DEF OrderInv, AppliedInOrder
  <2>1. \A c, d : Precedes(forwarded, c, d) => c # d
    BY DEF OrderInv, Precedes, IsInjective, IInv, TypeOK
  <2>2. /\ DOMAIN applied \subseteq Int
        /\ \A i, j \in DOMAIN applied : i < j => applied[i] # applied[j]
    BY <2>1 DEF OrderInv, InOrderOf, IInv, TypeOK
  <2>3. \A i, j \in DOMAIN applied : i = j \/ i < j \/ j < i
    BY <2>2
  <2> QED
    BY <2>2, <2>3 DEF IsInjective
<1> QED
  BY <1>1, <1>2, Places, OrderStep, PTL DEF Spec, Running
=============================================================================
