---------------------------- MODULE UpdaterProofs ----------------------------
(***************************************************************************)
(* What the updater and the plugin host guarantee for any number of        *)
(* releases, plugin files and requests.                                    *)
(***************************************************************************)
EXTENDS Updater, FiniteSetTheorems, SequenceTheorems, WellFoundedInduction, TLAPS

Paths == Range(Files) \cup {Exe}

\* The files that an install still has to replace, and that alone, may be of
\* another release than the one it brings.
Replacing(w) ==
    /\ w.left \in Seq(Shipped \cup {Exe})
    /\ \A f \in Shipped : disk[f] = w.release \/ \E i \in DOMAIN w.left : w.left[i] = f
    /\ w.release \in {disk[Exe], stray} \/ \E i \in DOMAIN w.left : w.left[i] = Exe

WorkersInv ==
    \A w \in workers :
        /\ DOMAIN w = {"id", "kind", "release", "left"}
        /\ w.kind \in {"check", "install"}
        /\ w.kind = "install" => Replacing(w)
        /\ w.kind = "check" => w.left = <<>>

IInv ==
    /\ DOMAIN disk = Paths
    /\ WorkersInv
    /\ WorkerBacksStatus
    /\ InstalledIsWhole

\* The actions of threads that are taken for a frame are carried out in it.
BatchInv ==
    /\ phase \in {"down", "snapshot", "sync"} => batch = <<>>
    /\ phase \in {"truncate", "write"} /\ after = "snapshot" => batch = <<>>

QueueInv ==
    /\ issued \in Nat
    /\ queue \in Seq(Nat)
    /\ batch \in Seq(Nat)
    /\ applied \in Seq(Nat)
    /\ phase \in {"down", "snapshot", "clicks", "apply", "sync", "truncate", "write"}
    /\ after \in {"apply", "snapshot"}
    /\ BatchInv
    /\ EnqueuedOnce

-----------------------------------------------------------------------------
\* A sequence of a set that SetToSeq makes has every element of it.
LEMMA SetToSeqAll ==
    ASSUME NEW S, IsFiniteSet(S)
    PROVE  /\ SetToSeq(S) \in Seq(S)
           /\ \A x \in S : \E i \in DOMAIN SetToSeq(S) : SetToSeq(S)[i] = x
<1> DEFINE n == Cardinality(S)
           f == SetToSeq(S)
<1>1. n \in Nat /\ ExistsBijection(1 .. n, S)
  BY FS_CardinalityType
<1>2. \E g \in [1 .. n -> S] : IsInjective(g)
  BY <1>1 DEF ExistsBijection, Bijection, Injection
<1>3. f \in [1 .. n -> S] /\ IsInjective(f)
  BY <1>2 DEF SetToSeq
<1>4. f \in Injection(1 .. n, S)
  BY <1>3 DEF Injection
<1>5. Cardinality(1 .. n) = n
  BY <1>1, FS_Interval
<1>6. f \in Surjection(1 .. n, S)
  BY <1>4, <1>5, FS_Injection
<1>7. \A x \in S : \E i \in 1 .. n : f[i] = x
  BY <1>6 DEF Surjection
<1>8. f \in Seq(S) /\ DOMAIN f = 1 .. n
  BY <1>1, <1>3, IsASeq
<1> QED
  BY <1>7, <1>8

\* What is in a sequence is its head or in its tail.
LEMMA HeadOrTail ==
    ASSUME NEW S, NEW s \in Seq(S), s # <<>>
    PROVE  /\ Head(s) \in S
           /\ Tail(s) \in Seq(S)
           /\ \A i \in DOMAIN s :
                  s[i] = Head(s) \/ \E j \in DOMAIN Tail(s) : Tail(s)[j] = s[i]
<1>1. Head(s) \in S /\ Tail(s) \in Seq(S) /\ Len(Tail(s)) = Len(s) - 1 /\ Len(s) \in Nat
  BY HeadTailProperties, LenProperties
<1>2. ASSUME NEW i \in DOMAIN s, i # 1
      PROVE  i - 1 \in DOMAIN Tail(s) /\ Tail(s)[i - 1] = s[i]
  BY <1>1, <1>2
<1>3. s[1] = Head(s)
  BY HeadTailProperties
<1> QED
  BY <1>1, <1>2, <1>3

-----------------------------------------------------------------------------
\* The program starts with nothing to update.
LEMMA InitIInv == UpdInit => IInv
<1> SUFFICES ASSUME UpdInit PROVE IInv
  OBVIOUS
<1>1. DOMAIN disk = Paths
  BY DEF UpdInit, HostInit, Paths
<1>2. WorkersInv /\ WorkerBacksStatus /\ InstalledIsWhole
  BY DEF UpdInit, WorkersInv, WorkerBacksStatus, InstalledIsWhole
<1> QED
  BY <1>1, <1>2 DEF IInv

\* The invariant is about the files and the updater.
LEMMA Unaffected ==
    ASSUME IInv, UNCHANGED <<disk, updater>>
    PROVE  IInv'
  BY DEF IInv, WorkersInv, Replacing, WorkerBacksStatus, InstalledIsWhole, updater

\* The host writes no library file.
LEMMA HostKeepsFiles ==
    ASSUME Uneventful \/ Eventful
    PROVE  UNCHANGED disk
  BY DEF Uneventful, Eventful, Start, OnSnapshot, NoClick, PreApply, Sync, Truncate, Write,
         Clicks, SetEnabled, SetWindowOpen, PanicsAside, Reload, Click, Forget, Enqueue

\* Others change files that come with no release.
LEMMA RebuildKeeps ==
    ASSUME IInv, NEW f \in Range(Files) \ Shipped, NEW b, Rebuild(f, b), UNCHANGED updater
    PROVE  IInv'
<1>1. \A g \in Shipped \cup {Exe} : g \in DOMAIN disk /\ g # f
  BY UpdaterAssumption DEF IInv, Paths
<1>2. DOMAIN disk' = DOMAIN disk /\ \A g \in Shipped \cup {Exe} : disk'[g] = disk[g]
  BY <1>1 DEF Rebuild
<1>3. workers' = workers /\ status' = status /\ offered' = offered /\ stray' = stray
  BY DEF updater
<1>4. WorkersInv'
  BY <1>2, <1>3 DEF IInv, WorkersInv, Replacing
<1>5. WorkerBacksStatus'
  BY <1>3 DEF IInv, WorkerBacksStatus
<1>6. InstalledIsWhole'
  BY <1>2, <1>3 DEF IInv, InstalledIsWhole
<1> QED
  BY <1>2, <1>4, <1>5, <1>6 DEF IInv, Paths

\* Without a wait there is no worker.
LEMMA NobodyWorks ==
    ASSUME IInv, status \notin Busy
    PROVE  workers = {}
  BY DEF IInv, WorkersInv, WorkerBacksStatus, Busy

\* A check or an install begins only when there is no worker.
LEMMA CheckKeeps ==
    ASSUME IInv, Check
    PROVE  IInv'
<1> DEFINE w == [id      |-> CHOOSE i \in 1 .. 9 : \A v \in workers : v.id # i,
                 kind    |-> "check",
                 release |-> NoWorker,
                 left    |-> <<>>]
<1>1. workers' = {w} /\ status' = "Checking" /\ disk' = disk /\ stray' = stray
  BY NobodyWorks DEF Check, Spawned, vars
<1>2. WorkersInv'
  BY <1>1 DEF WorkersInv
<1>3. WorkerBacksStatus' /\ InstalledIsWhole'
  BY <1>1 DEF WorkerBacksStatus, InstalledIsWhole
<1> QED
  BY <1>1, <1>2, <1>3 DEF IInv, Paths

LEMMA InstallKeeps ==
    ASSUME IInv, Install
    PROVE  IInv'
<1> DEFINE whole == <<Exe>> \o SetToSeq(Shipped)
<1>1. PICK w : w = [id      |-> CHOOSE i \in 1 .. 9 : \A v \in workers : v.id # i,
                    kind    |-> "install",
                    release |-> offered,
                    left    |-> whole]
  OBVIOUS
<1>2. workers' = {w} /\ status' = "Installing" /\ disk' = disk
  BY <1>1, NobodyWorks DEF Install, Spawned, vars, Busy
<1>3. SetToSeq(Shipped) \in Seq(Shipped \cup {Exe})
  BY SetToSeqAll, UpdaterAssumption, SeqMonotonic
<1>4. <<Exe>> \in Seq(Shipped \cup {Exe}) /\ Len(<<Exe>>) = 1 /\ <<Exe>>[1] = Exe
  OBVIOUS
<1>5. /\ whole \in Seq(Shipped \cup {Exe})
      /\ whole[1] = Exe /\ 1 \in DOMAIN whole
      /\ \A i \in DOMAIN SetToSeq(Shipped) :
             i + 1 \in DOMAIN whole /\ whole[i + 1] = SetToSeq(Shipped)[i]
  BY <1>3, <1>4, ConcatProperties, LenProperties
<1> HIDE DEF whole
<1>6. ASSUME NEW f \in Shipped PROVE \E i \in DOMAIN whole : whole[i] = f
  <2>1. PICK i \in DOMAIN SetToSeq(Shipped) : SetToSeq(Shipped)[i] = f
    BY SetToSeqAll, UpdaterAssumption
  <2> QED
    BY <1>5, <2>1
<1>7. w.left = whole /\ w.kind = "install" /\ DOMAIN w = {"id", "kind", "release", "left"}
  BY <1>1
<1>8. Replacing(w)'
  BY <1>5, <1>6, <1>7 DEF Replacing
<1>9. WorkersInv'
  BY <1>2, <1>7, <1>8 DEF WorkersInv
<1>10. WorkerBacksStatus' /\ InstalledIsWhole'
  BY <1>2, <1>7 DEF WorkerBacksStatus, InstalledIsWhole
<1> QED
  BY <1>2, <1>9, <1>10 DEF IInv, Paths

\* A worker that is through was the only one.
LEMMA PublishKeeps ==
    ASSUME IInv, NEW w \in workers, NEW result, NEW release, Publish(w, result, release),
           UNCHANGED <<disk, stray>>,
           result \notin Busy,
           result = "Installed" => w.kind = "install" /\ w.left = <<>> /\ release = w.release
    PROVE  IInv'
<1>1. workers' = {} /\ status' = result /\ offered' = release
  BY DEF Publish, IInv, WorkerBacksStatus
<1>2. WorkersInv' /\ WorkerBacksStatus'
  BY <1>1 DEF WorkersInv, WorkerBacksStatus, Busy
<1>3. InstalledIsWhole'
  <2>1. SUFFICES ASSUME result = "Installed" PROVE InstalledIsWhole'
    BY <1>1 DEF InstalledIsWhole
  <2>2. Replacing(w) /\ w.left = <<>>
    BY <2>1 DEF IInv, WorkersInv
  <2>3. (\A f \in Shipped : disk[f] = w.release) /\ w.release \in {disk[Exe], stray}
    BY <2>2 DEF Replacing
  <2> QED
    BY <1>1, <2>1, <2>3 DEF InstalledIsWhole
<1> QED
  BY <1>1, <1>2, <1>3 DEF IInv, Paths

\* What a replacement takes off the list is in place afterwards.
LEMMA ReplaceKeeps ==
    ASSUME IInv, NEW w \in workers, w.left # <<>>, workers' = (workers \ {w}) \cup {Going(w)},
           status' = status, offered' = offered,
           DOMAIN disk' = DOMAIN disk,
           \A f \in Shipped : disk'[f] = IF f = Head(w.left) THEN w.release ELSE disk[f],
           IF Head(w.left) = Exe THEN w.release \in {disk'[Exe], stray'}
                                 ELSE disk'[Exe] = disk[Exe] /\ stray' = stray
    PROVE  IInv'
<1> DEFINE left == w.left
<1>1. w.kind = "install" /\ Replacing(w) /\ DOMAIN w = {"id", "kind", "release", "left"}
  BY DEF IInv, WorkersInv
<1>2. left \in Seq(Shipped \cup {Exe})
  BY <1>1 DEF Replacing
<1>3. /\ Tail(left) \in Seq(Shipped \cup {Exe})
      /\ \A i \in DOMAIN left :
             left[i] = Head(left) \/ \E j \in DOMAIN Tail(left) : Tail(left)[j] = left[i]
  BY <1>2, HeadOrTail
<1>4. PICK g : g = Going(w)
  OBVIOUS
<1>5. /\ DOMAIN g = {"id", "kind", "release", "left"}
      /\ g.left = Tail(left) /\ g.kind = "install" /\ g.release = w.release
  BY <1>1, <1>4 DEF Going
<1>6. workers' = {g}
  BY <1>4 DEF IInv, WorkerBacksStatus
<1> HIDE DEF left
<1>7. ASSUME NEW f \in Shipped
      PROVE  disk'[f] = g.release \/ \E i \in DOMAIN g.left : g.left[i] = f
  <2>1. disk[f] = w.release \/ \E i \in DOMAIN left : left[i] = f
    BY <1>1 DEF Replacing, left
  <2> QED
    BY <1>3, <1>5, <2>1 DEF left
<1>8. g.release \in {disk'[Exe], stray'} \/ \E i \in DOMAIN g.left : g.left[i] = Exe
  <2>1. w.release \in {disk[Exe], stray} \/ \E i \in DOMAIN left : left[i] = Exe
    BY <1>1 DEF Replacing, left
  <2> QED
    BY <1>3, <1>5, <2>1 DEF left
<1>9. Replacing(g)'
  BY <1>3, <1>5, <1>7, <1>8 DEF Replacing
<1>10. WorkersInv'
  BY <1>5, <1>6, <1>9 DEF WorkersInv
<1>11. status = "Installing"
  BY <1>1 DEF IInv, WorkerBacksStatus
<1>12. WorkerBacksStatus' /\ InstalledIsWhole'
  BY <1>5, <1>6, <1>11 DEF WorkerBacksStatus, InstalledIsWhole
<1> QED
  BY <1>10, <1>12 DEF IInv, Paths

\* Every step of a worker keeps the invariant.
LEMMA WorkKeeps ==
    ASSUME IInv, NEW w \in workers,
           FoundNewer(w) \/ FoundNone(w) \/ WorkFails(w) \/ ReplaceExe(w) \/ ReplacePlugin(w)
               \/ InstallDone(w)
    PROVE  IInv'
<1>1. CASE FoundNewer(w)
  BY <1>1, PublishKeeps DEF FoundNewer, vars, Busy
<1>2. CASE FoundNone(w)
  BY <1>2, PublishKeeps DEF FoundNone, vars, Busy
<1>3. CASE WorkFails(w)
  BY <1>3, PublishKeeps DEF WorkFails, vars, Busy
<1>4. CASE InstallDone(w)
  BY <1>4, PublishKeeps DEF InstallDone, vars, Busy
<1>5. CASE ReplaceExe(w)
  <2>1. Exe \in DOMAIN disk /\ Exe \notin Shipped
    BY UpdaterAssumption DEF IInv, Paths
  <2>2. DOMAIN disk' = DOMAIN disk /\ \A f \in Shipped : disk'[f] = disk[f]
    BY <1>5, <2>1, UpdaterAssumption DEF ReplaceExe, IInv, Paths
  <2>3. Head(w.left) = Exe /\ w.release \in {disk'[Exe], stray'}
    BY <1>5, <2>1 DEF ReplaceExe
  <2> QED
    BY <1>5, <2>1, <2>2, <2>3, ReplaceKeeps DEF ReplaceExe
<1>6. CASE ReplacePlugin(w)
  <2>1. w.left # <<>> /\ Head(w.left) # Exe /\ w.left \in Seq(Shipped \cup {Exe})
    BY <1>6 DEF ReplacePlugin, IInv, WorkersInv, Replacing
  <2>2. Head(w.left) \in Shipped
    BY <2>1, HeadOrTail
  <2>3. Shipped \cup {Exe} \subseteq DOMAIN disk
    BY UpdaterAssumption DEF IInv, Paths
  <2>4. /\ DOMAIN disk' = DOMAIN disk
        /\ \A f \in Shipped \cup {Exe} :
               disk'[f] = IF f = Head(w.left) THEN w.release ELSE disk[f]
    BY <1>6, <2>2, <2>3 DEF ReplacePlugin
  <2> QED
    BY <1>6, <2>1, <2>4, ReplaceKeeps DEF ReplacePlugin
<1> QED
  BY <1>1, <1>2, <1>3, <1>4, <1>5, <1>6

\* Every step of the program and of those around it keeps the invariant.
LEMMA NextIInv == IInv /\ [Proceed \/ Happen]_allVars => IInv'
<1> SUFFICES ASSUME IInv, [Proceed \/ Happen]_allVars PROVE IInv'
  OBVIOUS
<1>1. CASE (Uneventful \/ Eventful) /\ UNCHANGED updater
  BY <1>1, HostKeepsFiles, Unaffected
<1>2. CASE Work
  BY <1>2, WorkKeeps DEF Work
<1>3. CASE \E f \in Range(Files) \ Shipped, b \in Builds \cup {Broken} :
              Rebuild(f, b) /\ UNCHANGED updater
  BY <1>3, RebuildKeeps
<1>4. CASE Check
  BY <1>4, CheckKeeps
<1>5. CASE Install
  BY <1>5, InstallKeeps
<1>6. CASE Dismiss
  <2>1. workers = {} /\ UNCHANGED <<disk, workers, stray>> /\ status' = "Idle"
    BY <1>6, NobodyWorks DEF Dismiss, vars, Busy
  <2> QED
    BY <2>1 DEF IInv, Paths, WorkersInv, WorkerBacksStatus, InstalledIsWhole
<1>7. CASE EndAll
  <2>1. workers' = {} /\ status' = "Idle" /\ disk' = disk
    BY <1>7 DEF EndAll, End
  <2> QED
    BY <2>1 DEF IInv, Paths, WorkersInv, WorkerBacksStatus, InstalledIsWhole
<1>8. CASE Release
  <2>1. UNCHANGED <<disk, status, offered, workers, stray>>
    BY <1>8 DEF Release, vars
  <2> QED
    BY <2>1 DEF IInv, WorkersInv, Replacing, WorkerBacksStatus, InstalledIsWhole
<1>9. CASE UNCHANGED allVars
  BY <1>9, Unaffected DEF allVars, vars
<1> QED
  BY <1>1, <1>2, <1>3, <1>4, <1>5, <1>6, <1>7, <1>8, <1>9 DEF Proceed, Happen

\* The invariant holds in every state, for any files and releases.
THEOREM Invariance == UpdSpec => []IInv
<1> QED
  BY InitIInv, NextIInv, PTL DEF UpdSpec

\* The window waits for one worker, and only while there is one, however often
\* it is closed and clicked and whatever fails.
THEOREM OneWorker == UpdSpec => []WorkerBacksStatus
<1>1. IInv => WorkerBacksStatus
  BY DEF IInv
<1> QED
  BY <1>1, Invariance, PTL

\* "Installed" is shown only when all files of the release are in place,
\* although they are replaced one by one while sessions and authors go on.
THEOREM WholeInstall == UpdSpec => []InstalledIsWhole
<1>1. IInv => InstalledIsWhole
  BY DEF IInv
<1> QED
  BY <1>1, Invariance, PTL

-----------------------------------------------------------------------------
\* What a step does that keeps the queue of the plugins' threads.
LEMMA QueueRests ==
    ASSUME QueueInv, UNCHANGED actions,
           phase' \in {"down", "snapshot", "clicks", "apply", "sync", "truncate", "write"},
           after' \in {"apply", "snapshot"}, BatchInv'
    PROVE  QueueInv'
  BY DEF QueueInv, actions, EnqueuedOnce

\* Every step of the host keeps it, whatever plugins, users and threads do.
LEMMA HostKeepsQueue ==
    ASSUME QueueInv, Uneventful \/ Eventful
    PROVE  QueueInv'
<1>1. ASSUME NEW ps, OnSnapshot(ps) PROVE QueueInv'
  <2>1. batch = <<>> /\ batch' = queue /\ queue' = <<>> /\ applied' = applied
    BY <1>1 DEF OnSnapshot, Frame, QueueInv, BatchInv
  <2>2. applied \o batch \o queue = applied' \o batch' \o queue'
    BY <2>1, ConcatSimplifications DEF QueueInv
  <2> QED
    BY <1>1, <2>1, <2>2 DEF OnSnapshot, Frame, QueueInv, BatchInv, EnqueuedOnce
<1>2. ASSUME NEW ps, PreApply(ps) PROVE QueueInv'
  <2>1. batch' = <<>> /\ queue' = <<>> /\ applied' = applied \o batch \o queue
    BY <1>2 DEF PreApply
  <2>2. applied' \in Seq(Nat)
    BY <2>1, ConcatProperties DEF QueueInv
  <2>3. applied \o batch \o queue = applied' \o batch' \o queue'
    BY <2>1, <2>2, ConcatEmptySeq
  <2> QED
    BY <1>2, <2>1, <2>2, <2>3 DEF PreApply, Frame, QueueInv, BatchInv, EnqueuedOnce
<1>3. CASE Enqueue
  <2>1. applied \o batch \in Seq(Nat) /\ queue' = Append(queue, issued + 1)
    BY <1>3, ConcatProperties DEF Enqueue, QueueInv
  <2>2. applied \o batch \o queue' = Append(applied \o batch \o queue, issued + 1)
    BY <2>1 DEF QueueInv
  <2>3. Append([i \in 1 .. issued |-> i], issued + 1) = [i \in 1 .. issued + 1 |-> i]
    BY DEF QueueInv
  <2>4. applied' = applied /\ batch' = batch /\ issued' = issued + 1
    BY <1>3 DEF Enqueue
  <2>5. EnqueuedOnce'
    BY <2>2, <2>3, <2>4 DEF EnqueuedOnce, QueueInv
  <2> QED
    BY <1>3, <2>1, <2>4, <2>5 DEF Enqueue, QueueInv, BatchInv
<1>4. ASSUME NEW ps, Click(ps) PROVE QueueInv'
  BY <1>4, QueueRests DEF Click, Frame, QueueInv, BatchInv, actions
<1>5. CASE \E n \in Names : Forget(n)
  BY <1>5, QueueRests DEF Forget, QueueInv, BatchInv, actions
<1>6. CASE Start
  BY <1>6, QueueRests DEF Start, QueueInv, BatchInv, actions
<1>7. CASE \E F \in SUBSET DOMAIN plugins : Sync(F)
  BY <1>7, QueueRests DEF Sync, QueueInv, BatchInv, actions
<1>8. CASE Truncate
  BY <1>8, QueueRests DEF Truncate, Frame, QueueInv, BatchInv, actions
<1>9. CASE Write
  BY <1>9, QueueRests DEF Write, QueueInv, BatchInv, actions
<1> QED
  BY <1>1, <1>2, <1>3, <1>4, <1>5, <1>6, <1>7, <1>8, <1>9
  DEF Uneventful, Eventful, NoClick, Clicks, SetEnabled, SetWindowOpen, PanicsAside, Reload

\* So do the updater and the end of a session, with which the queue goes.
LEMMA NextQueueInv == QueueInv /\ [Proceed \/ Happen]_allVars => QueueInv'
<1> SUFFICES ASSUME QueueInv, [Proceed \/ Happen]_allVars PROVE QueueInv'
  OBVIOUS
<1>1. CASE Uneventful \/ Eventful
  BY <1>1, HostKeepsQueue
<1>2. CASE EndAll
  <2>1. applied \o batch \o queue = applied \o batch \o queue /\ <<>> \o <<>> \o <<>> = <<>>
    OBVIOUS
  <2>2. EnqueuedOnce'
    BY <1>2, <2>1 DEF EndAll, End, EnqueuedOnce
  <2> QED
    BY <1>2, <2>2 DEF EndAll, End, QueueInv, BatchInv
<1>3. CASE UNCHANGED <<actions, phase, after>>
  BY <1>3, QueueRests DEF QueueInv, BatchInv, actions
<1>4. CASE Work \/ Check \/ Install \/ Dismiss \/ Release \/ UNCHANGED allVars
  BY <1>3, <1>4 DEF Work, FoundNewer, FoundNone, WorkFails, ReplaceExe, ReplacePlugin,
     InstallDone, Check, Install, Dismiss, Release, allVars, vars, actions
<1>5. CASE \E f \in Range(Files) \ Shipped, b \in Builds \cup {Broken} : Rebuild(f, b)
  BY <1>3, <1>5 DEF Rebuild, actions
<1> QED
  BY <1>1, <1>2, <1>4, <1>5 DEF Proceed, Happen

\* What the threads of plugins ask for is done once and in order, whenever it
\* comes within a frame and however many frames there are.
THEOREM QueueKept == UpdSpec => []EnqueuedOnce
<1>1. UpdInit => QueueInv
  <2> SUFFICES ASSUME UpdInit PROVE QueueInv
    OBVIOUS
  <2>1. EnqueuedOnce
    BY DEF UpdInit, HostInit, EnqueuedOnce
  <2> QED
    BY <2>1 DEF UpdInit, HostInit, QueueInv, BatchInv
<1>2. QueueInv => EnqueuedOnce
  BY DEF QueueInv
<1> QED
  BY <1>1, <1>2, NextQueueInv, PTL DEF UpdSpec

-----------------------------------------------------------------------------
(* Loading, and what is restored to plugins, for any number of either.     *)

\* A set of natural numbers has a least one.
LEMMA LeastNatural ==
    ASSUME NEW T \in SUBSET Nat, T # {}
    PROVE  \E x \in T : \A y \in T : x <= y
<1>1. \E x \in T : \A y \in T : ~(<<y, x>> \in OpToRel(<, Nat))
  BY NatLessThanWellFounded, WFMin
<1>2. \A x, y \in Nat : ~(<<y, x>> \in OpToRel(<, Nat)) => x <= y
  BY DEF OpToRel
<1> QED
  BY <1>1, <1>2

\* Induction along 0 .. n, as what is defined plugin by plugin needs it.
LEMMA UpTo ==
    ASSUME NEW n \in Nat, NEW S, 0 \in S, \A i \in 1 .. n : i - 1 \in S => i \in S
    PROVE  \A i \in 0 .. n : i \in S
<1> DEFINE T == {i \in 0 .. n : i \notin S}
<1> SUFFICES ASSUME T # {} PROVE FALSE
  OBVIOUS
<1>1. PICK m \in T : \A y \in T : m <= y
  <2>1. T \in SUBSET Nat
    OBVIOUS
  <2> QED
    BY <2>1, LeastNatural
<1>2. m \in 1 .. n /\ m - 1 \in 0 .. n /\ ~(m <= m - 1)
  BY <1>1
<1> QED
  BY <1>1, <1>2

\* A function that is defined along 0 .. n by what it is one before.
Steps(n, X) == [1 .. n -> [X -> X]]

Walks(n, X, a, g) ==
    {f \in [0 .. n -> X] : f[0] = a /\ \A i \in 1 .. n : f[i] = g[i][f[i - 1]]}

LEMMA Along ==
    ASSUME NEW n \in Nat, NEW X, NEW a \in X, NEW g \in Steps(n, X)
    PROVE  Walks(n, X, a, g) # {}
<1> USE DEF Steps, Walks
<1> DEFINE Good(m) == {f \in [0 .. m -> X] :
                         f[0] = a /\ \A i \in 1 .. m : f[i] = g[i][f[i - 1]]}
           S == {m \in 0 .. n : Good(m) # {}}
<1>1. 0 \in S
  <2> DEFINE f == [i \in {0} |-> a]
  <2>1. 0 .. 0 = {0} /\ 1 .. 0 = {}
    OBVIOUS
  <2>2. f \in Good(0)
    BY <2>1
  <2> HIDE DEF Good, f
  <2> QED
    BY <2>2
<1>2. ASSUME NEW m \in 1 .. n, m - 1 \in S PROVE m \in S
  <2> DEFINE k == m - 1
  <2>1. /\ k \in 0 .. k /\ m \notin 0 .. k /\ 0 \in 0 .. k
        /\ \A i \in 0 .. m : i = m \/ i \in 0 .. k
        /\ \A i \in 1 .. m : i = m \/ i \in 1 .. k
        /\ \A i \in 1 .. k : i \in 0 .. k /\ i - 1 \in 0 .. k /\ i - 1 # m /\ i - 1 \in 0 .. m
        /\ 0 .. k \subseteq 0 .. m /\ m \in 0 .. m
    OBVIOUS
  <2>2. PICK f \in [0 .. k -> X] : f[0] = a /\ \A i \in 1 .. k : f[i] = g[i][f[i - 1]]
    BY <1>2
  <2> DEFINE h == [i \in 0 .. m |-> IF i = m THEN g[m][f[k]] ELSE f[i]]
  <2>3. h \in [0 .. m -> X]
    BY <2>1, <2>2
  <2>4. h[0] = a
    BY <2>1, <2>2
  <2>5. h[m] = g[m][h[k]]
    BY <2>1, <2>2
  <2>6. \A i \in 1 .. k : h[i] = f[i] /\ h[i - 1] = f[i - 1]
    BY <2>1
  <2>7. m - 1 = k
    OBVIOUS
  <2> HIDE DEF h, k
  <2>8. \A i \in 1 .. m : h[i] = g[i][h[i - 1]]
    BY <2>1, <2>2, <2>5, <2>6, <2>7
  <2> QED
    BY <2>3, <2>4, <2>8
<1>3. n \in S
  <2>1. \A i \in 1 .. n : i - 1 \in S => i \in S
    BY <1>2
  <2>2. n \in 0 .. n
    OBVIOUS
  <2> HIDE DEF S
  <2>3. \A i \in 0 .. n : i \in S
    BY <1>1, <2>1, UpTo
  <2> QED
    BY <2>2, <2>3
<1> QED
  BY <1>3

\* The plugins of build b, and what is remembered of plugins.
PluginOf(b) ==
    [name : Names, file : Range(Files), build : {b}, enabled : BOOLEAN, window : BOOLEAN,
     config : Configs \cup {Default}, error : BOOLEAN]

Remembered == [enabled : BOOLEAN, window : BOOLEAN, config : Configs \cup {Default, NoConfig}]

IsMemory(f) == f \in [DOMAIN f -> Remembered]

\* A file that opens holds plugins of the host's build.
LEMMA LoadFileType ==
    ASSUME NEW f \in Range(Files), NEW b
    PROVE  LoadFile(f, b) \in Seq(PluginOf(b))
<1> DEFINE h == Holds[f]
<1>1. h \in Seq(Range(h)) /\ Range(h) \subseteq Names
  BY HostAssumption DEF Names
<1>2. CASE Opens(f, b)
  <2>1. ASSUME NEW i \in DOMAIN h PROVE Fresh(h[i], f, disk[f]) \in PluginOf(b)
    <3>1. h[i] \in Names /\ disk[f] = b
      BY <1>1, <1>2, <2>1 DEF Opens
    <3> QED
      BY <3>1 DEF Fresh, PluginOf
  <2>2. LoadFile(f, b) = [i \in DOMAIN h |-> Fresh(h[i], f, disk[f])]
    BY <1>2 DEF LoadFile
  <2>3. DOMAIN h = 1 .. Len(h) /\ Len(h) \in Nat
    BY <1>1
  <2>4. LoadFile(f, b) \in [1 .. Len(h) -> PluginOf(b)]
    BY <2>1, <2>2, <2>3
  <2> QED
    BY <2>3, <2>4, IsASeq
<1>3. CASE ~Opens(f, b)
  BY <1>3 DEF LoadFile
<1> QED
  BY <1>2, <1>3

\* So do all that are loaded.
LEMMA LoadAllType ==
    ASSUME NEW b
    PROVE  LoadAll(b) \in Seq(PluginOf(b))
<1> DEFINE n == Len(Files)
           X == Seq(PluginOf(b))
           g == [i \in 1 .. n |-> [s \in X |-> s \o LoadFile(Files[i], b)]]
           loaded[i \in 0 .. n] ==
               IF i = 0 THEN <<>> ELSE loaded[i - 1] \o LoadFile(Files[i], b)
<1>1. n \in Nat /\ \A i \in 1 .. n : LoadFile(Files[i], b) \in X
  <2>1. n \in Nat /\ \A i \in 1 .. n : Files[i] \in Range(Files)
    BY HostAssumption
  <2> QED
    BY <2>1, LoadFileType
<1>2. <<>> \in X /\ \A s, t \in X : s \o t \in X
  OBVIOUS
<1>3. g \in Steps(n, X)
  BY <1>1, <1>2 DEF Steps
<1>4. PICK f \in [0 .. n -> X] : f[0] = <<>> /\ \A i \in 1 .. n : f[i] = g[i][f[i - 1]]
  <2>1. Walks(n, X, <<>>, g) # {}
    <3> HIDE DEF g, n, X
    <3> QED
      BY <1>1, <1>2, <1>3, Along
  <2> HIDE DEF g, n, X
  <2> QED
    BY <2>1 DEF Walks
<1>5. f = [i \in 0 .. n |-> IF i = 0 THEN <<>> ELSE f[i - 1] \o LoadFile(Files[i], b)]
  <2>1. ASSUME NEW i \in 0 .. n
        PROVE  f[i] = IF i = 0 THEN <<>> ELSE f[i - 1] \o LoadFile(Files[i], b)
    <3>1. CASE i = 0
      BY <3>1, <1>4
    <3>2. CASE i # 0
      <4>1. i \in 1 .. n /\ i - 1 \in 0 .. n
        BY <1>1, <3>2
      <4>2. f[i - 1] \in X
        BY <1>4, <4>1
      <4> QED
        BY <1>4, <3>2, <4>1, <4>2
    <3> QED
      BY <3>1, <3>2
  <2> QED
    BY <1>4, <2>1
<1>6. loaded = [i \in 0 .. n |->
                   IF i = 0 THEN <<>> ELSE loaded[i - 1] \o LoadFile(Files[i], b)]
  BY <1>5
<1>7. LoadAll(b) = loaded[n]
  BY DEF LoadAll
<1> HIDE DEF loaded, n, g, X
<1> DEFINE S == {i \in 0 .. n : loaded[i] \in X}
<1>8. \A i \in 0 .. n : i \in S
  <2>1. 0 \in S
    BY <1>1, <1>2, <1>6
  <2>2. ASSUME NEW i \in 1 .. n, i - 1 \in S PROVE i \in S
    <3>1. i \in 0 .. n /\ i # 0
      BY <1>1
    <3>2. loaded[i] = loaded[i - 1] \o LoadFile(Files[i], b)
      BY <1>6, <3>1
    <3> QED
      BY <1>1, <1>2, <2>2, <3>1, <3>2
  <2> HIDE DEF S
  <2> QED
    BY <1>1, <2>1, <2>2, UpTo
<1>9. n \in S
  BY <1>1, <1>8
<1> QED
  BY <1>7, <1>9 DEF X

\* Taking a file's plugins out leaves those of others.
LEMMA WithoutType ==
    ASSUME NEW S, plugins \in Seq(S), NEW lib
    PROVE  Without(lib) \in Seq({p \in S : p.file # lib})
<1> DEFINE n == Len(plugins)
           R == {p \in S : p.file # lib}
           X == Seq(R)
           g == [i \in 1 .. n |->
                    [s \in X |-> IF i \in Of(lib) THEN s ELSE Append(s, plugins[i])]]
           kept[i \in 0 .. n] ==
               IF i = 0 THEN <<>>
               ELSE IF i \in Of(lib) THEN kept[i - 1] ELSE Append(kept[i - 1], plugins[i])
<1>1. n \in Nat /\ \A i \in 1 .. n : i \notin Of(lib) => plugins[i] \in R
  BY DEF Of
<1>2. <<>> \in X /\ \A s \in X, p \in R : Append(s, p) \in X
  OBVIOUS
<1>3. g \in Steps(n, X)
  <2> HIDE DEF X, R
  <2> QED
    BY <1>1, <1>2 DEF Steps
<1>4. PICK f \in [0 .. n -> X] : f[0] = <<>> /\ \A i \in 1 .. n : f[i] = g[i][f[i - 1]]
  <2>1. Walks(n, X, <<>>, g) # {}
    <3> HIDE DEF g, n, X
    <3> QED
      BY <1>1, <1>2, <1>3, Along
  <2> HIDE DEF g, n, X
  <2> QED
    BY <2>1 DEF Walks
<1>5. f = [i \in 0 .. n |->
              IF i = 0 THEN <<>>
              ELSE IF i \in Of(lib) THEN f[i - 1] ELSE Append(f[i - 1], plugins[i])]
  <2>1. ASSUME NEW i \in 0 .. n
        PROVE  f[i] = IF i = 0 THEN <<>>
                      ELSE IF i \in Of(lib) THEN f[i - 1] ELSE Append(f[i - 1], plugins[i])
    <3>1. CASE i = 0
      BY <3>1, <1>4
    <3>2. CASE i # 0
      <4>1. i \in 1 .. n /\ i - 1 \in 0 .. n
        BY <1>1, <3>2
      <4>2. f[i - 1] \in X
        BY <1>4, <4>1
      <4> QED
        BY <1>4, <3>2, <4>1, <4>2
    <3> QED
      BY <3>1, <3>2
  <2> QED
    BY <1>4, <2>1
<1>6. kept = [i \in 0 .. n |->
                 IF i = 0 THEN <<>>
                 ELSE IF i \in Of(lib) THEN kept[i - 1] ELSE Append(kept[i - 1], plugins[i])]
  BY <1>5
<1>7. Without(lib) = kept[n]
  BY DEF Without
<1> HIDE DEF kept, n, g, X, R
<1> DEFINE T == {i \in 0 .. n : kept[i] \in X}
<1>8. \A i \in 0 .. n : i \in T
  <2>1. 0 \in T
    BY <1>1, <1>2, <1>6
  <2>2. ASSUME NEW i \in 1 .. n, i - 1 \in T PROVE i \in T
    <3>1. i \in 0 .. n /\ i # 0
      BY <1>1
    <3>2. kept[i] = IF i \in Of(lib) THEN kept[i - 1] ELSE Append(kept[i - 1], plugins[i])
      BY <1>6, <3>1
    <3> QED
      BY <1>1, <1>2, <2>2, <3>1, <3>2
  <2> HIDE DEF T
  <2> QED
    BY <1>1, <2>1, <2>2, UpTo
<1>9. n \in T
  BY <1>1, <1>8
<1> QED
  BY <1>7, <1>9 DEF X, R

\* A configuration that a plugin does not get back.
Refused(b, c) == c = NoConfig \/ ~Accepts(b, c)

\* Plugin q is p with what is remembered of its name; without a configuration
\* to take, it keeps its own.
Carries(q, p, saved) ==
    /\ q.name = p.name
    /\ q.file = p.file
    /\ p.name \in DOMAIN saved =>
         /\ q.enabled = saved[p.name].enabled
         /\ q.window = saved[p.name].window
         /\ \/ q.config = saved[p.name].config
            \/ q.config = p.config /\ Refused(q.build, saved[p.name].config)

\* What is remembered, without configurations that plugins of build b refuse.
Lessened(less, saved, b) ==
    \A n \in DOMAIN saved :
        \/ less[n] = saved[n]
        \/ /\ less[n].enabled = saved[n].enabled
           /\ less[n].window = saved[n].window
           /\ less[n].config = NoConfig
           /\ Refused(b, saved[n].config)

\* How far apply_settings is.
Applying(b, D) == [plugins : Seq(PluginOf(b)), saved : [D -> Remembered]]

\* apply_settings on one plugin.
LEMMA RestoredDoes ==
    ASSUME NEW b, NEW D, NEW acc \in Applying(b, D), NEW p \in PluginOf(b)
    PROVE  /\ Restored(acc, p) \in Applying(b, D)
           /\ \E q \in PluginOf(b) : /\ Restored(acc, p).plugins = Append(acc.plugins, q)
                                     /\ Carries(q, p, acc.saved)
           /\ Lessened(Restored(acc, p).saved, acc.saved, b)
<1> DEFINE n     == p.name
           s     == acc.saved[n]
           taken == s.config # NoConfig /\ Accepts(p.build, s.config)
           held  == [p EXCEPT !.enabled = s.enabled, !.window = s.window,
                              !.config = IF taken THEN s.config ELSE @]
           saved == IF taken THEN acc.saved ELSE [acc.saved EXCEPT ![n].config = NoConfig]
<1>1. acc.plugins \in Seq(PluginOf(b)) /\ acc.saved \in [D -> Remembered] /\ p.build = b
  BY DEF Applying, PluginOf
<1>2. CASE n \in D
  <2>1. s \in Remembered
    BY <1>1, <1>2
  <2>2. s.enabled \in BOOLEAN /\ s.window \in BOOLEAN
        /\ (s.config # NoConfig => s.config \in Configs \cup {Default})
    BY <2>1 DEF Remembered
  <2>3. /\ held \in PluginOf(b)
        /\ held.name = n /\ held.file = p.file /\ held.build = b
        /\ held.enabled = s.enabled /\ held.window = s.window
        /\ taken => held.config = s.config
        /\ ~taken => held.config = p.config
    BY <1>1, <2>2 DEF PluginOf
  <2>4. [s EXCEPT !.config = NoConfig] \in Remembered
    BY <2>1 DEF Remembered
  <2>5. saved \in [D -> Remembered]
    BY <1>1, <1>2, <2>4
  <2>6. Restored(acc, p) = [plugins |-> Append(acc.plugins, held), saved |-> saved]
    BY <1>1, <1>2 DEF Restored
  <2>7. Append(acc.plugins, held) \in Seq(PluginOf(b))
    BY <1>1, <2>3
  <2>8. Lessened(saved, acc.saved, b)
    <3>1. CASE taken
      BY <3>1 DEF Lessened
    <3>2. CASE ~taken
      <4>1. Refused(b, s.config)
        BY <1>1, <3>2 DEF Refused
      <4>2. saved[n] = [s EXCEPT !.config = NoConfig]
            /\ \A m \in D : m # n => saved[m] = acc.saved[m]
        BY <1>1, <1>2, <3>2
      <4>3. /\ saved[n].enabled = s.enabled /\ saved[n].window = s.window
            /\ saved[n].config = NoConfig
        BY <2>1, <4>2 DEF Remembered
      <4> HIDE DEF saved, taken, held
      <4> QED
        BY <1>1, <4>1, <4>2, <4>3 DEF Lessened
    <3> QED
      BY <3>1, <3>2
  <2>9. Carries(held, p, acc.saved)
    BY <1>1, <2>3 DEF Carries, Refused
  <2> HIDE DEF held, saved
  <2> QED
    BY <2>3, <2>5, <2>6, <2>7, <2>8, <2>9 DEF Applying
<1>3. CASE n \notin D
  <2>1. Restored(acc, p) = [acc EXCEPT !.plugins = Append(@, p)]
    BY <1>1, <1>3 DEF Restored
  <2>2. Append(acc.plugins, p) \in Seq(PluginOf(b))
    BY <1>1
  <2>3. /\ Restored(acc, p).plugins = Append(acc.plugins, p)
        /\ Restored(acc, p).saved = acc.saved
        /\ Restored(acc, p) \in Applying(b, D)
    BY <2>1, <2>2 DEF Applying
  <2>4. Carries(p, p, acc.saved)
    BY <1>1, <1>3 DEF Carries
  <2>5. Lessened(Restored(acc, p).saved, acc.saved, b)
    BY <2>3 DEF Lessened
  <2> QED
    BY <2>3, <2>4, <2>5
<1> QED
  BY <1>2, <1>3

\* apply_settings: every plugin stays where it is, with what is remembered of
\* its name unless it refuses it, and nothing else is forgotten.
LEMMA ApplySettingsDoes ==
    ASSUME NEW b, NEW ps \in Seq(PluginOf(b)), NEW saved, IsMemory(saved)
    PROVE  /\ ApplySettings(ps, saved) \in Applying(b, DOMAIN saved)
           /\ Len(ApplySettings(ps, saved).plugins) = Len(ps)
           /\ \A i \in 1 .. Len(ps) : Carries(ApplySettings(ps, saved).plugins[i], ps[i], saved)
           /\ Lessened(ApplySettings(ps, saved).saved, saved, b)
<1> DEFINE n == Len(ps)
           D == DOMAIN saved
           X == Applying(b, D)
           a == [plugins |-> <<>>, saved |-> saved]
           g == [i \in 1 .. n |-> [acc \in X |-> Restored(acc, ps[i])]]
           done[i \in 0 .. n] == IF i = 0 THEN a ELSE Restored(done[i - 1], ps[i])
<1>1. n \in Nat /\ \A i \in 1 .. n : ps[i] \in PluginOf(b)
  OBVIOUS
<1>2. a \in X
  BY DEF Applying, IsMemory
<1>3. \A acc \in X, p \in PluginOf(b) : Restored(acc, p) \in X
  BY RestoredDoes
<1>4. g \in Steps(n, X)
  <2> HIDE DEF X
  <2> QED
    BY <1>1, <1>3 DEF Steps
<1>5. PICK f \in [0 .. n -> X] : f[0] = a /\ \A i \in 1 .. n : f[i] = g[i][f[i - 1]]
  <2>1. Walks(n, X, a, g) # {}
    <3> HIDE DEF g, n, X, a
    <3> QED
      BY <1>1, <1>2, <1>4, Along
  <2> HIDE DEF g, n, X, a
  <2> QED
    BY <2>1 DEF Walks
<1> HIDE DEF X
<1>6. f = [i \in 0 .. n |-> IF i = 0 THEN a ELSE Restored(f[i - 1], ps[i])]
  <2>1. ASSUME NEW i \in 0 .. n
        PROVE  f[i] = IF i = 0 THEN a ELSE Restored(f[i - 1], ps[i])
    <3>1. CASE i = 0
      BY <3>1, <1>5
    <3>2. CASE i # 0
      <4>1. i \in 1 .. n /\ i - 1 \in 0 .. n
        BY <1>1, <3>2
      <4>2. f[i - 1] \in X
        BY <1>5, <4>1
      <4> QED
        BY <1>5, <3>2, <4>1, <4>2
    <3> QED
      BY <3>1, <3>2
  <2> QED
    BY <1>5, <2>1
<1>7. done = [i \in 0 .. n |-> IF i = 0 THEN a ELSE Restored(done[i - 1], ps[i])]
  BY <1>6
<1>8. ApplySettings(ps, saved) = done[n]
  BY DEF ApplySettings
<1> HIDE DEF done, n, g
<1> DEFINE T == {i \in 0 .. n :
                   /\ done[i] \in X
                   /\ Len(done[i].plugins) = i
                   /\ \A j \in 1 .. i : Carries(done[i].plugins[j], ps[j], saved)
                   /\ Lessened(done[i].saved, saved, b)}
<1>9. \A i \in 0 .. n : i \in T
  <2>1. 0 \in T
    <3>1. done[0] = a /\ 0 \in 0 .. n /\ 1 .. 0 = {}
      BY <1>1, <1>7
    <3>2. Lessened(saved, saved, b)
      BY DEF Lessened
    <3> QED
      BY <1>2, <3>1, <3>2
  <2>2. ASSUME NEW i \in 1 .. n, i - 1 \in T PROVE i \in T
    <3> DEFINE acc == done[i - 1]
               r == Restored(acc, ps[i])
    <3>1. i \in 0 .. n /\ i # 0 /\ i - 1 \in Nat /\ i \in Nat
      BY <1>1
    <3>2. done[i] = r
      BY <1>7, <3>1
    <3>3. /\ acc \in X
          /\ Len(acc.plugins) = i - 1
          /\ \A j \in 1 .. i - 1 : Carries(acc.plugins[j], ps[j], saved)
          /\ Lessened(acc.saved, saved, b)
      BY <2>2
    <3> HIDE DEF T, acc, a
    <3>4. /\ r \in X
          /\ Lessened(r.saved, acc.saved, b)
      BY <1>1, <3>3, RestoredDoes DEF X
    <3>5. PICK q \in PluginOf(b) : /\ r.plugins = Append(acc.plugins, q)
                                   /\ Carries(q, ps[i], acc.saved)
      BY <1>1, <3>3, RestoredDoes DEF X
    <3>6. acc.plugins \in Seq(PluginOf(b)) /\ DOMAIN acc.saved = D
      BY <3>3 DEF X, Applying
    <3>7. /\ Len(r.plugins) = i
          /\ r.plugins[i] = q
          /\ \A j \in 1 .. i - 1 : r.plugins[j] = acc.plugins[j]
      BY <3>1, <3>3, <3>5, <3>6
    <3> HIDE DEF r
    <3>8. Carries(q, ps[i], saved)
      <4>1. q.build = b /\ q.config # NoConfig
        BY HostAssumption DEF PluginOf
      <4> QED
        BY <3>3, <3>5, <3>6, <4>1 DEF Carries, Lessened, Refused
    <3>9. \A j \in 1 .. i : Carries(r.plugins[j], ps[j], saved)
      <4>1. \A j \in 1 .. i : j = i \/ j \in 1 .. i - 1
        BY <3>1
      <4> QED
        BY <3>3, <3>7, <3>8, <4>1
    <3>10. Lessened(r.saved, saved, b)
      BY <3>3, <3>4, <3>6 DEF Lessened
    <3> QED
      BY <3>1, <3>2, <3>4, <3>7, <3>9, <3>10 DEF T
  <2> HIDE DEF T
  <2> QED
    BY <1>1, <2>1, <2>2, UpTo
<1>10. n \in T
  BY <1>1, <1>9
<1> QED
  BY <1>8, <1>10 DEF n, X

-----------------------------------------------------------------------------
(* The host: what is loaded, what is remembered, and what the file holds.  *)

\* Between a sync that changed something and the end of its write.
Pending == phase \in {"truncate", "write"} /\ after = "snapshot"

\* The flags of names are the same on both sides, and so are configurations
\* where there are two.
Matches(saved, had) ==
    \A n \in DOMAIN had :
        /\ n \in DOMAIN saved
        /\ saved[n].enabled = had[n].enabled
        /\ saved[n].window = had[n].window
        /\ NoConfig \notin {saved[n].config, had[n].config} => saved[n].config = had[n].config

\* The same, and what one side has of a configuration the other has too.
Backs(saved, had) ==
    \A n \in DOMAIN had :
        /\ n \in DOMAIN saved
        /\ saved[n].enabled = had[n].enabled
        /\ saved[n].window = had[n].window
        /\ had[n].config # NoConfig => saved[n].config = had[n].config

LoadedInv ==
    /\ plugins \in Seq(PluginOf(running))
    /\ phase = "down" => plugins = <<>>

\* What is remembered is in the file, but for what the frame has still to
\* write and for configurations that were refused or that their plugins did not
\* give.
RememberedInv ==
    /\ IsMemory(settings)
    /\ phase # "down" =>
         Matches(settings, IF Pending THEN Over(SnapshotAll(plugins, {}), chosen) ELSE chosen)
    /\ phase \notin {"down", "truncate", "write"} => Backs(file.plugins, settings)

\* The file holds what names had when a frame was last over, unless it is
\* torn.
FileInv ==
    /\ IsMemory(file.plugins)
    /\ IsMemory(chosen)
    /\ phase = "write" => file = Torn
    /\ phase # "write" => Backs(file.plugins, chosen)

HostInv == LoadedInv /\ RememberedInv /\ FileInv

Running == {"snapshot", "clicks", "apply", "sync"}

\* A snapshot has, for each name, the state of its last plugin.
LEMMA SnapshotsDo ==
    ASSUME NEW b, NEW ps \in Seq(PluginOf(b)), NEW I \in SUBSET DOMAIN ps, NEW F
    PROVE  /\ DOMAIN Snapshots(ps, I, F) = {ps[i].name : i \in I}
           /\ IsMemory(Snapshots(ps, I, F))
           /\ \A i \in I : IsLast(ps, I, i) =>
                  Snapshots(ps, I, F)[ps[i].name] = SnapshotOf(ps[i], i \in F)
<1> DEFINE last(n) == CHOOSE i \in I : ps[i].name = n /\ IsLast(ps, I, i)
           shots == Snapshots(ps, I, F)
<1>1. Len(ps) \in Nat /\ DOMAIN ps = 1 .. Len(ps)
  OBVIOUS
<1>2. ASSUME NEW i \in I PROVE \E j \in I : ps[j].name = ps[i].name /\ IsLast(ps, I, j)
  <2> DEFINE same == {j \in I : ps[j].name = ps[i].name}
             T == {Len(ps) - j : j \in same}
  <2>1. T \in SUBSET Nat /\ Len(ps) - i \in T
    BY <1>1
  <2>2. PICK m \in T : \A y \in T : m <= y
    BY <2>1, LeastNatural
  <2>3. PICK j \in same : m = Len(ps) - j
    OBVIOUS
  <2>4. \A k \in same : k \in Nat /\ j \in Nat /\ Len(ps) - j <= Len(ps) - k
    BY <1>1, <2>2, <2>3
  <2>5. \A k \in same : k <= j
    BY <1>1, <2>4
  <2> QED
    BY <2>3, <2>5 DEF IsLast
<1>3. DOMAIN shots = {ps[i].name : i \in I}
  BY DEF Snapshots
<1>4. ASSUME NEW n \in DOMAIN shots
      PROVE  /\ last(n) \in I
             /\ ps[last(n)].name = n /\ IsLast(ps, I, last(n))
             /\ shots[n] = SnapshotOf(ps[last(n)], last(n) \in F)
  <2>1. \E j \in I : ps[j].name = n /\ IsLast(ps, I, j)
    BY <1>2, <1>3
  <2>2. last(n) \in I /\ ps[last(n)].name = n /\ IsLast(ps, I, last(n))
    BY <2>1
  <2> QED
    BY <1>3, <2>2 DEF Snapshots
<1>5. ASSUME NEW n \in DOMAIN shots
      PROVE  shots[n] \in Remembered
  <2>1. ps[last(n)] \in PluginOf(b) /\ shots[n] = SnapshotOf(ps[last(n)], last(n) \in F)
    BY <1>4
  <2> DEFINE q == ps[last(n)]
             panics == last(n) \in F
  <2> HIDE DEF q, panics, shots
  <2>2. q \in PluginOf(b) /\ shots[n] = SnapshotOf(q, panics)
    BY <2>1 DEF q, panics
  <2> QED
    BY <2>2, HostAssumption DEF SnapshotOf, PluginOf, Remembered
<1>6. shots = [n \in DOMAIN shots |-> shots[n]]
  BY DEF Snapshots
<1>7. IsMemory(shots)
  BY <1>5, <1>6 DEF IsMemory
<1>8. ASSUME NEW i \in I, IsLast(ps, I, i) PROVE shots[ps[i].name] = SnapshotOf(ps[i], i \in F)
  <2> DEFINE n == ps[i].name
             j == last(n)
  <2>1. n \in DOMAIN shots
    BY <1>3
  <2>2. j \in I /\ ps[j].name = n /\ IsLast(ps, I, j) /\ shots[n] = SnapshotOf(ps[j], j \in F)
    BY <1>4, <2>1
  <2>3. i <= j /\ j <= i /\ i \in Nat /\ j \in Nat
    <3> HIDE DEF j
    <3> QED
      BY <1>1, <1>8, <2>2 DEF IsLast
  <2>4. i = j
    <3> HIDE DEF j
    <3> QED
      BY <2>3
  <2> QED
    BY <2>2, <2>4
<1> QED
  BY <1>3, <1>5, <1>7, <1>8

\* Plugins that panic take nothing but their configurations from a snapshot.
LEMMA PanicsMatch ==
    ASSUME NEW b, NEW ps \in Seq(PluginOf(b)), NEW F
    PROVE  /\ IsMemory(SnapshotAll(ps, F)) /\ IsMemory(SnapshotAll(ps, {}))
           /\ Matches(SnapshotAll(ps, F), SnapshotAll(ps, {}))
<1>1. IsMemory(SnapshotAll(ps, F)) /\ IsMemory(SnapshotAll(ps, {}))
  <2>1. DOMAIN ps \in SUBSET DOMAIN ps
    OBVIOUS
  <2> QED
    BY <2>1, SnapshotsDo DEF SnapshotAll
<1>2. ASSUME NEW n \in DOMAIN SnapshotAll(ps, {})
      PROVE  \E p, panics : /\ n \in DOMAIN SnapshotAll(ps, F)
                           /\ SnapshotAll(ps, F)[n] = SnapshotOf(p, panics)
                           /\ SnapshotAll(ps, {})[n] = SnapshotOf(p, FALSE)
  <2> DEFINE I    == DOMAIN ps
             last == CHOOSE i \in I : ps[i].name = n /\ IsLast(ps, I, i)
  <2>1. n \in {ps[i].name : i \in I}
    BY <1>2 DEF SnapshotAll, Snapshots
  <2>2. /\ SnapshotAll(ps, F)[n] = SnapshotOf(ps[last], last \in F)
        /\ SnapshotAll(ps, {})[n] = SnapshotOf(ps[last], last \in {})
    BY <2>1 DEF SnapshotAll, Snapshots
  <2>3. n \in DOMAIN SnapshotAll(ps, F)
    BY <2>1 DEF SnapshotAll, Snapshots
  <2> HIDE DEF last
  <2>4. (last \in {}) = FALSE
    OBVIOUS
  <2> QED
    BY <2>2, <2>3, <2>4
<1>3. \A p, panics : /\ SnapshotOf(p, panics).enabled = SnapshotOf(p, FALSE).enabled
                    /\ SnapshotOf(p, panics).window = SnapshotOf(p, FALSE).window
                    /\ SnapshotOf(p, panics).config \in {SnapshotOf(p, FALSE).config, NoConfig}
  BY DEF SnapshotOf
<1>4. ASSUME NEW n \in DOMAIN SnapshotAll(ps, {})
      PROVE  /\ n \in DOMAIN SnapshotAll(ps, F)
             /\ SnapshotAll(ps, F)[n].enabled = SnapshotAll(ps, {})[n].enabled
             /\ SnapshotAll(ps, F)[n].window = SnapshotAll(ps, {})[n].window
             /\ SnapshotAll(ps, F)[n].config \in {SnapshotAll(ps, {})[n].config, NoConfig}
  <2>1. PICK p, panics : /\ n \in DOMAIN SnapshotAll(ps, F)
                         /\ SnapshotAll(ps, F)[n] = SnapshotOf(p, panics)
                         /\ SnapshotAll(ps, {})[n] = SnapshotOf(p, FALSE)
    BY <1>2
  <2> QED
    BY <1>3, <2>1
<1>5. Matches(SnapshotAll(ps, F), SnapshotAll(ps, {}))
  BY <1>4 DEF Matches
<1> QED
  BY <1>1, <1>5

\* One over the other is a memory too.
LEMMA OverMemory ==
    ASSUME NEW f, NEW g, IsMemory(f), IsMemory(g)
    PROVE  IsMemory(Over(f, g))
  BY DEF IsMemory, Over

\* A plugin in the place of another.
LEMMA Altered ==
    ASSUME NEW b, NEW ps \in Seq(PluginOf(b)), NEW i \in DOMAIN ps, NEW q \in PluginOf(b)
    PROVE  [ps EXCEPT ![i] = q] \in Seq(PluginOf(b))
  OBVIOUS

\* Whatever hooks do, plugins stay those of the build.
LEMMA AfterHookType ==
    ASSUME LoadedInv, NEW ps \in AfterHook
    PROVE  ps \in Seq(PluginOf(running))
<1> DEFINE P == PluginOf(running)
<1>1. plugins \in Seq(P)
  BY DEF LoadedInv
<1>2. ASSUME NEW i \in DOMAIN plugins
      PROVE  [plugins EXCEPT ![i] = Panicked(@)] \in Seq(P)
  <2>1. plugins[i] \in P
    BY <1>1
  <2>2. Panicked(plugins[i]) \in P
    BY <2>1 DEF PluginOf, Panicked
  <2> QED
    BY <1>1, <2>2, Altered
<1>3. ASSUME NEW i \in DOMAIN plugins, NEW c \in Configs
      PROVE  [plugins EXCEPT ![i].config = c] \in Seq(P)
  <2>1. plugins[i] \in P
    BY <1>1
  <2>2. [plugins[i] EXCEPT !.config = c] \in P
    BY <2>1 DEF PluginOf
  <2> QED
    BY <1>1, <2>2, Altered
<1> QED
  BY <1>1, <1>2, <1>3 DEF AfterHook

\* Steps of a frame that leave what is remembered alone.
LEMMA PluginsStep ==
    ASSUME HostInv, plugins' \in Seq(PluginOf(running)),
           phase \in {"snapshot", "clicks", "apply"}, phase' \in Running,
           UNCHANGED <<running, settings, file, chosen>>
    PROVE  HostInv'
<1>1. LoadedInv'
  BY DEF LoadedInv, Running
<1>2. RememberedInv'
  BY DEF HostInv, RememberedInv, Running, Pending, Matches, Backs, IsMemory
<1>3. FileInv'
  BY DEF HostInv, FileInv, Running, Backs, IsMemory
<1> QED
  BY <1>1, <1>2, <1>3 DEF HostInv

\* A click does not load anything but plugins of the host's build.
LEMMA ClicksKeep ==
    ASSUME HostInv, NoClick \/ \E i \in DOMAIN plugins, b \in BOOLEAN :
               \/ SetEnabled(i, b) \/ SetWindowOpen(i, b) \/ PanicsAside(i)
               \/ \E F \in SUBSET DOMAIN plugins : Reload(i, F)
    PROVE  HostInv'
<1> DEFINE P == PluginOf(running)
<1>1. plugins \in Seq(P)
  BY DEF HostInv, LoadedInv
<1>2. ASSUME NEW ps \in Seq(P), Click(ps) PROVE HostInv'
  BY <1>2, PluginsStep DEF Click, Frame, Running
<1>3. ASSUME NEW i \in DOMAIN plugins, NEW b \in BOOLEAN, SetEnabled(i, b) PROVE HostInv'
  <2> DEFINE q == [plugins[i] EXCEPT !.enabled = b, !.error = @ /\ ~b]
  <2>1. plugins[i] \in P
    BY <1>1
  <2>2. q \in P
    BY <2>1 DEF PluginOf
  <2>3. [plugins EXCEPT ![i].enabled = b, ![i].error = @ /\ ~b] = [plugins EXCEPT ![i] = q]
    BY <1>1, <2>1 DEF PluginOf
  <2> HIDE DEF q
  <2> QED
    BY <1>1, <1>2, <1>3, <2>2, <2>3, Altered DEF SetEnabled
<1>4. ASSUME NEW i \in DOMAIN plugins, NEW b \in BOOLEAN, SetWindowOpen(i, b) PROVE HostInv'
  <2>1. plugins[i] \in P
    BY <1>1
  <2>2. [plugins[i] EXCEPT !.window = b] \in P
    BY <2>1 DEF PluginOf
  <2>3. [plugins EXCEPT ![i].window = b] \in Seq(P)
    BY <1>1, <2>2, Altered
  <2> QED
    BY <1>2, <1>4, <2>3 DEF SetWindowOpen
<1>5. ASSUME NEW i \in DOMAIN plugins, PanicsAside(i) PROVE HostInv'
  <2>1. plugins[i] \in P
    BY <1>1
  <2>2. [plugins[i] EXCEPT !.error = TRUE] \in P
    BY <2>1 DEF PluginOf
  <2>3. [plugins EXCEPT ![i].error = TRUE] \in Seq(P)
    BY <1>1, <2>2, Altered
  <2> QED
    BY <1>2, <1>5, <2>3 DEF PanicsAside
<1>6. ASSUME NEW i \in DOMAIN plugins, NEW F \in SUBSET DOMAIN plugins, Reload(i, F)
      PROVE  HostInv'
  <2> DEFINE f     == plugins[i].file
             fresh == Without(f) \o LoadFile(f, running)
             own   == Snapshots(plugins, Of(f), F)
  <2>1. plugins[i] \in P
    BY <1>1
  <2>2. f \in Range(Files)
    BY <2>1 DEF PluginOf
  <2>3. Without(f) \in Seq(P)
    <3>1. Without(f) \in Seq({p \in P : p.file # f})
      BY <1>1, WithoutType
    <3> QED
      BY <3>1
  <2>4. LoadFile(f, running) \in Seq(P)
    BY <2>2, LoadFileType
  <2>5. fresh \in Seq(P)
    BY <2>3, <2>4, ConcatProperties
  <2>6. Of(f) \in SUBSET DOMAIN plugins
    BY DEF Of
  <2>7. IsMemory(own)
    BY <1>1, <2>6, SnapshotsDo
  <2>8. ApplySettings(fresh, own) \in Applying(running, DOMAIN own)
    <3> HIDE DEF fresh, own
    <3> QED
      BY <2>5, <2>7, ApplySettingsDoes
  <2>9. ApplySettings(fresh, own).plugins \in Seq(P)
    BY <2>8 DEF Applying
  <2> QED
    BY <1>2, <1>6, <2>3, <2>9 DEF Reload, Reloaded
<1> QED
  BY <1>1, <1>2, <1>3, <1>4, <1>5, <1>6 DEF NoClick

\* What is forgotten is forgotten on both sides.
LEMMA ForgetKeeps ==
    ASSUME HostInv, NEW n, Forget(n)
    PROVE  HostInv'
<1>1. /\ phase = "clicks" /\ phase' = "truncate" /\ after' = "apply"
      /\ settings' = Dropped(settings, {n}) /\ chosen' = Dropped(chosen, {n})
      /\ UNCHANGED <<running, plugins, file>>
  BY DEF Forget
<1>2. LoadedInv'
  BY <1>1 DEF HostInv, LoadedInv
<1>3. Matches(settings, chosen)
  BY <1>1 DEF HostInv, RememberedInv, Pending
<1>4. Matches(settings', chosen')
  BY <1>1, <1>3 DEF Matches, Dropped
<1>5. IsMemory(settings') /\ IsMemory(chosen')
  BY <1>1 DEF HostInv, RememberedInv, FileInv, IsMemory, Dropped
<1>6. RememberedInv'
  BY <1>1, <1>4, <1>5 DEF RememberedInv, Pending
<1>7. FileInv'
  BY <1>1, <1>5 DEF HostInv, FileInv, Dropped, Backs, IsMemory
<1> QED
  BY <1>2, <1>6, <1>7 DEF HostInv

\* A sync that changes nothing finds what it would write in the file.
LEMMA SyncKeeps ==
    ASSUME HostInv, NEW F \in SUBSET DOMAIN plugins, Sync(F)
    PROVE  HostInv'
<1> DEFINE shots == SnapshotAll(plugins, F)
           whole == SnapshotAll(plugins, {})
<1>1. /\ phase = "sync" /\ after' = "snapshot" /\ settings' = Folded(F)
      /\ UNCHANGED <<running, plugins, file>>
  BY DEF Sync
<1>2. IsMemory(shots) /\ IsMemory(whole) /\ Matches(shots, whole)
  BY PanicsMatch DEF HostInv, LoadedInv
<1>3. DOMAIN shots = DOMAIN whole
  BY DEF SnapshotAll, Snapshots
<1>4. /\ IsMemory(settings) /\ IsMemory(chosen) /\ IsMemory(file.plugins)
      /\ Matches(settings, chosen)
      /\ Backs(file.plugins, settings)
      /\ Backs(file.plugins, chosen)
  BY <1>1 DEF HostInv, RememberedInv, FileInv, Pending
<1> HIDE DEF shots, whole
<1>5. Folded(F) = Over(shots, settings)
  BY DEF Folded, shots
<1>6. IsMemory(Folded(F)) /\ IsMemory(Over(shots, chosen))
  BY <1>2, <1>4, <1>5, OverMemory
<1>7. LoadedInv'
  BY <1>1 DEF HostInv, LoadedInv, Sync
<1>8. CASE Folded(F) = settings
  <2>1. phase' = "snapshot" /\ chosen' = Over(shots, chosen) /\ settings' = settings
    BY <1>1, <1>8 DEF Sync, shots
  <2>2. \A n \in DOMAIN shots : n \in DOMAIN settings /\ settings[n] = shots[n]
    BY <1>5, <1>8 DEF Over
  <2>3. Matches(settings, chosen')
    BY <1>4, <2>1, <2>2 DEF Matches, Over
  <2>4. Backs(file.plugins, chosen')
    BY <1>4, <2>1, <2>2 DEF Backs, Over
  <2>5. RememberedInv'
    BY <1>1, <1>4, <2>1, <2>3 DEF RememberedInv, Pending
  <2>6. FileInv'
    BY <1>1, <1>4, <1>6, <2>1, <2>4 DEF FileInv
  <2> QED
    BY <1>7, <2>5, <2>6 DEF HostInv
<1>9. CASE Folded(F) # settings
  <2>1. phase' = "truncate" /\ chosen' = chosen
    BY <1>1, <1>9 DEF Sync
  <2>2. SnapshotAll(plugins, {})' = whole
    BY <1>1 DEF SnapshotAll, Snapshots, IsLast, SnapshotOf, whole
  <2>3. Matches(Folded(F), Over(whole, chosen))
    BY <1>2, <1>3, <1>4, <1>5 DEF Matches, Over
  <2>4. RememberedInv'
    BY <1>1, <1>6, <2>1, <2>2, <2>3 DEF RememberedInv, Pending
  <2>5. FileInv'
    BY <1>1, <1>4, <2>1 DEF FileInv
  <2> QED
    BY <1>7, <2>4, <2>5 DEF HostInv
<1> QED
  BY <1>8, <1>9

LEMMA TruncateKeeps ==
    ASSUME HostInv, Truncate
    PROVE  HostInv'
<1>1. /\ phase = "truncate" /\ phase' = "write" /\ file' = Torn
      /\ UNCHANGED <<running, plugins, settings, after, chosen>>
  BY DEF Truncate, Frame
<1>2. LoadedInv'
  BY <1>1 DEF HostInv, LoadedInv
<1>3. SnapshotAll(plugins, {})' = SnapshotAll(plugins, {}) /\ Pending' = Pending
  BY <1>1 DEF SnapshotAll, Snapshots, IsLast, SnapshotOf, Pending
<1>4. RememberedInv'
  BY <1>1, <1>3 DEF HostInv, RememberedInv
<1>5. IsMemory(Torn.plugins)
  BY DEF Torn, Empty, IsMemory
<1>6. FileInv'
  BY <1>1, <1>5 DEF HostInv, FileInv
<1> QED
  BY <1>2, <1>4, <1>6 DEF HostInv

\* With the write, the file holds what names had, less what was refused.
LEMMA WriteKeeps ==
    ASSUME HostInv, Write, after \in {"apply", "snapshot"}
    PROVE  HostInv'
<1> DEFINE had == IF after = "snapshot" THEN Over(SnapshotAll(plugins, {}), chosen) ELSE chosen
<1>1. /\ phase = "write" /\ phase' = after /\ file' = Saved(settings)
      /\ chosen' = StillHad(had)
      /\ UNCHANGED <<running, plugins, settings, after>>
  BY DEF Write
<1>2. IsMemory(settings) /\ IsMemory(had) /\ Matches(settings, had)
  <2>1. IsMemory(SnapshotAll(plugins, {}))
    BY PanicsMatch DEF HostInv, LoadedInv
  <2>2. IsMemory(Over(SnapshotAll(plugins, {}), chosen))
    BY <2>1, OverMemory DEF HostInv, FileInv
  <2> QED
    BY <1>1, <2>2 DEF HostInv, RememberedInv, FileInv, Pending
<1> HIDE DEF had
<1>3. DOMAIN StillHad(had) = DOMAIN had
  BY DEF StillHad
<1>4. ASSUME NEW n \in DOMAIN had
      PROVE  /\ n \in DOMAIN settings
             /\ StillHad(had)[n] \in Remembered
             /\ settings[n].enabled = StillHad(had)[n].enabled
             /\ settings[n].window = StillHad(had)[n].window
             /\ StillHad(had)[n].config # NoConfig => settings[n].config = StillHad(had)[n].config
  <2>1. /\ n \in DOMAIN settings /\ settings[n] \in Remembered /\ had[n] \in Remembered
        /\ settings[n].enabled = had[n].enabled
        /\ settings[n].window = had[n].window
        /\ NoConfig \notin {settings[n].config, had[n].config} => settings[n].config = had[n].config
    BY <1>2 DEF IsMemory, Matches
  <2>2. StillHad(had)[n] = IF settings[n].config = NoConfig
                           THEN [had[n] EXCEPT !.config = NoConfig] ELSE had[n]
    BY <2>1 DEF StillHad
  <2>3. CASE settings[n].config = NoConfig
    BY <2>1, <2>2, <2>3 DEF Remembered
  <2>4. CASE settings[n].config # NoConfig
    BY <2>1, <2>2, <2>4 DEF Remembered
  <2> QED
    BY <2>3, <2>4
<1>5. IsMemory(StillHad(had))
  <2>1. StillHad(had) = [n \in DOMAIN had |-> StillHad(had)[n]]
    BY DEF StillHad
  <2>2. StillHad(had) \in [DOMAIN had -> Remembered]
    BY <1>4, <2>1
  <2> QED
    BY <1>3, <2>2 DEF IsMemory
<1>6. Backs(settings, chosen') /\ Matches(settings, chosen') /\ Backs(settings, settings)
  BY <1>1, <1>3, <1>4 DEF Backs, Matches
<1>7. file'.plugins = settings
  BY <1>1 DEF Saved
<1>8. LoadedInv'
  BY <1>1 DEF HostInv, LoadedInv
<1>9. RememberedInv'
  BY <1>1, <1>2, <1>6, <1>7 DEF RememberedInv, Pending
<1>10. FileInv'
  BY <1>1, <1>2, <1>5, <1>6, <1>7 DEF FileInv
<1> QED
  BY <1>8, <1>9, <1>10 DEF HostInv

\* What a new session loads was built with it, and is given what is remembered
\* in the file.
LEMMA StartDoes ==
    ASSUME HostInv, Start
    PROVE  /\ plugins' \in Seq(PluginOf(running'))
           /\ settings' \in [DOMAIN file.plugins -> Remembered]
           /\ Lessened(settings', file.plugins, running')
           /\ \A i \in DOMAIN plugins' :
                  \E p \in PluginOf(running') : Carries(plugins'[i], p, file.plugins)
<1> DEFINE b      == disk[Exe]
           ps     == LoadAll(b)
           loaded == ApplySettings(ps, file.plugins)
<1>1. running' = b /\ plugins' = loaded.plugins /\ settings' = loaded.saved
  BY DEF Start
<1>2. ps \in Seq(PluginOf(b))
  BY LoadAllType
<1>3. IsMemory(file.plugins)
  BY DEF HostInv, FileInv
<1> HIDE DEF b, ps
<1>4. /\ loaded \in Applying(b, DOMAIN file.plugins)
      /\ Len(loaded.plugins) = Len(ps)
      /\ \A i \in 1 .. Len(ps) : Carries(loaded.plugins[i], ps[i], file.plugins)
      /\ Lessened(loaded.saved, file.plugins, b)
  BY <1>2, <1>3, ApplySettingsDoes
<1> HIDE DEF loaded
<1>5. loaded.plugins \in Seq(PluginOf(b)) /\ loaded.saved \in [DOMAIN file.plugins -> Remembered]
  BY <1>4 DEF Applying
<1>6. DOMAIN loaded.plugins = 1 .. Len(ps) /\ \A i \in 1 .. Len(ps) : ps[i] \in PluginOf(b)
  BY <1>2, <1>4, <1>5
<1> QED
  BY <1>1, <1>4, <1>5, <1>6

LEMMA StartKeeps ==
    ASSUME HostInv, Start
    PROVE  HostInv'
<1>1. /\ phase = "down" /\ phase' = "snapshot"
      /\ UNCHANGED <<file, after, chosen>>
  BY DEF Start
<1>2. LoadedInv'
  BY <1>1, StartDoes DEF LoadedInv
<1>3. /\ DOMAIN settings' = DOMAIN file.plugins
      /\ IsMemory(settings')
      /\ Lessened(settings', file.plugins, running')
  BY StartDoes DEF IsMemory
<1>4. Backs(file.plugins, chosen)
  BY <1>1 DEF HostInv, FileInv
<1>5. Matches(settings', chosen)
  BY <1>3, <1>4 DEF Matches, Backs, Lessened
<1>6. Backs(file.plugins, settings')
  BY <1>3 DEF Backs, Lessened
<1>7. RememberedInv'
  BY <1>1, <1>3, <1>5, <1>6 DEF RememberedInv, Pending
<1>8. FileInv'
  BY <1>1 DEF HostInv, FileInv, Backs, IsMemory
<1> QED
  BY <1>2, <1>7, <1>8 DEF HostInv

\* A session that ends within the write leaves nothing.
LEMMA EndKeeps ==
    ASSUME HostInv, End
    PROVE  HostInv'
<1>1. /\ phase # "down" /\ phase' = "down" /\ plugins' = <<>> /\ settings' = Empty
      /\ chosen' = IF file = Torn THEN Empty ELSE chosen
      /\ UNCHANGED <<running, file>>
  BY DEF End
<1>2. IsMemory(Empty) /\ DOMAIN Empty = {}
  BY DEF Empty, IsMemory
<1>3. LoadedInv'
  BY <1>1 DEF LoadedInv
<1>4. RememberedInv'
  BY <1>1, <1>2 DEF RememberedInv
<1>5. Backs(file.plugins, chosen')
  BY <1>1, <1>2 DEF HostInv, FileInv, Backs
<1>6. FileInv'
  BY <1>1, <1>2, <1>5 DEF HostInv, FileInv
<1> QED
  BY <1>3, <1>4, <1>6 DEF HostInv

\* Steps that neither load nor remember anything.
LEMMA HostRests ==
    ASSUME HostInv, UNCHANGED <<running, plugins, settings, file, phase, after, chosen>>
    PROVE  HostInv'
<1>1. SnapshotAll(plugins, {})' = SnapshotAll(plugins, {}) /\ Pending' = Pending
  BY DEF SnapshotAll, Snapshots, IsLast, SnapshotOf, Pending
<1>2. LoadedInv' /\ FileInv'
  BY DEF HostInv, LoadedInv, FileInv
<1>3. RememberedInv'
  BY <1>1 DEF HostInv, RememberedInv
<1> QED
  BY <1>2, <1>3 DEF HostInv

\* Every step of a session, of the updater and of those around them keeps it.
LEMMA NextHostInv == QueueInv /\ HostInv /\ [Proceed \/ Happen]_allVars => HostInv'
<1> SUFFICES ASSUME QueueInv, HostInv, [Proceed \/ Happen]_allVars PROVE HostInv'
  OBVIOUS
<1>1. ASSUME NEW ps \in Seq(PluginOf(running)), OnSnapshot(ps) \/ PreApply(ps) PROVE HostInv'
  BY <1>1, PluginsStep DEF OnSnapshot, PreApply, Frame, Running
<1>2. plugins \in Seq(PluginOf(running)) /\ \A ps \in AfterHook : ps \in Seq(PluginOf(running))
  BY AfterHookType DEF HostInv, LoadedInv
<1>3. CASE Uneventful
  <2>1. CASE Start
    BY <2>1, StartKeeps
  <2>2. CASE OnSnapshot(plugins) \/ PreApply(plugins)
    BY <1>1, <1>2, <2>2
  <2>3. CASE NoClick
    BY <2>3, ClicksKeep
  <2>4. CASE Sync({})
    BY <2>4, SyncKeeps
  <2>5. CASE Truncate
    BY <2>5, TruncateKeeps
  <2>6. CASE Write
    BY <2>6, WriteKeeps DEF QueueInv
  <2> QED
    BY <1>3, <2>1, <2>2, <2>3, <2>4, <2>5, <2>6 DEF Uneventful
<1>4. CASE Eventful
  <2>1. CASE \E ps \in AfterHook : OnSnapshot(ps) \/ PreApply(ps)
    BY <1>1, <1>2, <2>1
  <2>2. CASE Clicks
    BY <2>2, ClicksKeep, ForgetKeeps DEF Clicks
  <2>3. CASE Enqueue
    BY <2>3, HostRests DEF Enqueue
  <2>4. CASE \E F \in SUBSET DOMAIN plugins : Sync(F)
    BY <2>4, SyncKeeps
  <2> QED
    BY <1>4, <2>1, <2>2, <2>3, <2>4 DEF Eventful
<1>5. CASE EndAll
  BY <1>5, EndKeeps DEF EndAll
<1>6. CASE Work \/ Check \/ Install \/ Dismiss \/ Release \/ UNCHANGED allVars
  <2>1. UNCHANGED <<running, plugins, settings, file, phase, after, chosen>>
    BY <1>6 DEF Work, FoundNewer, FoundNone, WorkFails, ReplaceExe, ReplacePlugin,
       InstallDone, Check, Install, Dismiss, Release, allVars, vars
  <2> QED
    BY <2>1, HostRests
<1>7. CASE \E f \in Range(Files) \ Shipped, b \in Builds \cup {Broken} : Rebuild(f, b)
  BY <1>7, HostRests DEF Rebuild
<1> QED
  BY <1>3, <1>4, <1>5, <1>6, <1>7 DEF Proceed, Happen

LEMMA HostInvariant == UpdSpec => [](QueueInv /\ HostInv)
<1>1. UpdInit => QueueInv /\ HostInv
  <2> SUFFICES ASSUME UpdInit PROVE QueueInv /\ HostInv
    OBVIOUS
  <2>1. IsMemory(Empty) /\ DOMAIN Empty = {} /\ Saved(Empty).plugins = Empty
    BY DEF Empty, IsMemory, Saved
  <2>2. LoadedInv /\ RememberedInv /\ FileInv
    BY <2>1 DEF UpdInit, HostInit, LoadedInv, RememberedInv, FileInv, Backs
  <2>3. EnqueuedOnce
    BY DEF UpdInit, HostInit, EnqueuedOnce
  <2>4. QueueInv
    BY <2>3 DEF UpdInit, HostInit, QueueInv, BatchInv
  <2> QED
    BY <2>2, <2>4 DEF HostInv
<1> QED
  BY <1>1, NextQueueInv, NextHostInv, PTL DEF UpdSpec

\* Whatever builds are swapped in, installed and reloaded, and in whichever
\* session, no plugin of another toolchain is called, and what the threads of
\* plugins ask for is done once and in order.
THEOREM PluginsAreSound == UpdSpec => []PluginsSound
<1>1. QueueInv /\ HostInv => PluginsSound
  <2> SUFFICES ASSUME QueueInv, HostInv PROVE PluginsSound
    OBVIOUS
  <2>1. \A i \in DOMAIN plugins : plugins[i] \in PluginOf(running)
    BY DEF HostInv, LoadedInv
  <2>2. NoForeignBuild
    BY <2>1 DEF NoForeignBuild, PluginOf
  <2> QED
    BY <2>2 DEF PluginsSound, QueueInv
<1> QED
  BY <1>1, HostInvariant, PTL

\* What a plugin had when a frame was last over is what it has when it is
\* loaded the next time, whatever sessions, deaths, updates and plugins without
\* it lie between.
THEOREM RememberedComesBack == UpdSpec => ComesBack
<1> DEFINE Back(i) ==
             LET p == plugins'[i]
                 c == chosen[p.name]
             IN  p.name \in DOMAIN chosen =>
                   /\ p.enabled = c.enabled
                   /\ p.window = c.window
                   /\ p.config = c.config \/ c.config = NoConfig \/ ~Accepts(p.build, c.config)
<1>1. HostInv => [Start => \A i \in DOMAIN plugins' : Back(i)]_vars
  <2> SUFFICES ASSUME HostInv, Start, NEW i \in DOMAIN plugins' PROVE Back(i)
    OBVIOUS
  <2>1. PICK p \in PluginOf(running') : Carries(plugins'[i], p, file.plugins)
    BY StartDoes
  <2>2. Backs(file.plugins, chosen)
    BY DEF Start, HostInv, FileInv
  <2> QED
    BY <2>1, <2>2 DEF Carries, Refused, Backs
<1> QED
  BY <1>1, HostInvariant, PTL DEF ComesBack

\* What a file that opens brings has the configuration it starts with.
Anew(f) == {p \in PluginOf(running) : p.file = f => p.config = Default}

LEMMA LoadedAnew ==
    ASSUME NEW f \in Range(Files)
    PROVE  LoadFile(f, running) \in Seq(Anew(f))
<1> DEFINE loaded == LoadFile(f, running)
<1>1. loaded \in Seq(PluginOf(running))
  BY LoadFileType
<1>2. ASSUME NEW i \in DOMAIN loaded PROVE loaded[i].config = Default
  BY <1>2 DEF LoadFile, Fresh
<1> HIDE DEF loaded
<1>3. \A i \in 1 .. Len(loaded) : loaded[i] \in Anew(f)
  BY <1>1, <1>2 DEF Anew
<1> QED
  BY <1>1, <1>3, IsASeq DEF loaded

\* A reload is a reset only for the plugin whose own code fails in it, for any
\* number of plugins of any names in any number of files.
THEOREM ReloadsKeep == UpdSpec => ReloadKeeps
<1> DEFINE Kept(i, F, j, k) ==
             LET p == plugins[j]
                 q == plugins'[k]
             IN  p.name = q.name /\ q.file = plugins[i].file /\ IsLast(plugins, Of(q.file), j) =>
                   /\ p.enabled = q.enabled
                   /\ p.window = q.window
                   /\ \/ p.config = q.config
                      \/ q.config = Default /\ (j \in F \/ ~Accepts(q.build, p.config))
<1>1. HostInv => [\A i \in DOMAIN plugins, F \in SUBSET DOMAIN plugins : Reload(i, F) =>
                    \A j \in DOMAIN plugins, k \in DOMAIN plugins' : Kept(i, F, j, k)]_vars
  <2> SUFFICES ASSUME HostInv, NEW i \in DOMAIN plugins,
                      NEW F \in SUBSET DOMAIN plugins, Reload(i, F),
                      NEW j \in DOMAIN plugins, NEW k \in DOMAIN plugins'
               PROVE  Kept(i, F, j, k)
    OBVIOUS
  <2> DEFINE f     == plugins[i].file
             fresh == Without(f) \o LoadFile(f, running)
             own   == Snapshots(plugins, Of(f), F)
             r     == ApplySettings(fresh, own)
             p     == plugins[j]
             q     == plugins'[k]
  <2>1. SUFFICES ASSUME p.name = q.name, q.file = f, IsLast(plugins, Of(f), j)
                 PROVE  /\ p.enabled = q.enabled
                        /\ p.window = q.window
                        /\ \/ p.config = q.config
                           \/ q.config = Default /\ (j \in F \/ ~Accepts(q.build, p.config))
    OBVIOUS
  <2>2. plugins \in Seq(PluginOf(running)) /\ Of(f) \in SUBSET DOMAIN plugins
    BY DEF HostInv, LoadedInv, Of
  <2>3. f \in Range(Files) /\ p \in PluginOf(running)
    <3>1. plugins[i] \in PluginOf(running) /\ plugins[j] \in PluginOf(running)
      BY <2>2
    <3> QED
      BY <3>1 DEF PluginOf
  <2>4. Without(f) \in Seq({x \in PluginOf(running) : x.file # f})
    BY <2>2, WithoutType
  <2>5. CASE ~Opens(f, running)
    <3>1. plugins' = Without(f)
      BY <2>5 DEF Reload, Click
    <3>2. q \in {x \in PluginOf(running) : x.file # f}
      BY <2>4, <3>1
    <3> QED
      BY <2>1, <3>2
  <2>6. CASE Opens(f, running)
    <3>1. plugins' = r.plugins
      BY <2>6 DEF Reload, Reloaded, Click
    <3>2. Without(f) \in Seq(PluginOf(running)) /\ LoadFile(f, running) \in Seq(PluginOf(running))
      BY <2>3, <2>4, LoadFileType
    <3>3. fresh \in Seq(PluginOf(running)) /\ fresh \in Seq(Anew(f))
      <4>1. Without(f) \in Seq(Anew(f))
        BY <2>4 DEF Anew
      <4>2. LoadFile(f, running) \in Seq(Anew(f))
        BY <2>3, LoadedAnew
      <4> QED
        BY <3>2, <4>1, <4>2, ConcatProperties
    <3>4. /\ IsMemory(own)
          /\ j \in Of(f)
          /\ own[p.name] = SnapshotOf(p, j \in F)
          /\ p.name \in DOMAIN own
      <4>1. j \in Of(f)
        BY <2>1 DEF IsLast
      <4>2. IsMemory(own) /\ DOMAIN own = {plugins[m].name : m \in Of(f)}
        BY <2>2, SnapshotsDo
      <4>3. own[plugins[j].name] = SnapshotOf(plugins[j], j \in F)
        BY <2>1, <2>2, <4>1, SnapshotsDo
      <4> QED
        BY <4>1, <4>2, <4>3
    <3> HIDE DEF fresh, own, r
    <3>5. /\ r \in Applying(running, DOMAIN own)
          /\ Len(r.plugins) = Len(fresh)
          /\ \A m \in 1 .. Len(fresh) : Carries(r.plugins[m], fresh[m], own)
      BY <3>3, <3>4, ApplySettingsDoes DEF r
    <3>6. r.plugins \in Seq(PluginOf(running))
      BY <3>5 DEF Applying
    <3>7. Carries(q, fresh[k], own)
      BY <3>1, <3>5, <3>6
    <3>8. p.config # NoConfig
      BY <2>3, HostAssumption DEF PluginOf
    <3>9. q.config # NoConfig
      <4>1. q \in PluginOf(running)
        BY <3>1, <3>6
      <4> QED
        BY <4>1, HostAssumption DEF PluginOf
    <3>10. fresh[k] \in Anew(f)
      BY <3>1, <3>3, <3>5, <3>6
    <3> DEFINE panics == j \in F
               was    == fresh[k]
    <3>11. own[p.name] = SnapshotOf(p, panics)
      BY <3>4
    <3> HIDE DEF p, q, panics, was
    <3>12. was.name = p.name /\ was.config = Default /\ Carries(q, was, own)
      BY <2>1, <3>7, <3>10 DEF Anew, Carries, was
    <3>13. /\ q.enabled = p.enabled
           /\ q.window = p.window
           /\ \/ q.config = SnapshotOf(p, panics).config
              \/ q.config = Default /\ Refused(q.build, SnapshotOf(p, panics).config)
      BY <3>4, <3>11, <3>12 DEF Carries, SnapshotOf
    <3>14. CASE panics
      BY <3>9, <3>13, <3>14 DEF SnapshotOf, panics
    <3>15. CASE ~panics
      BY <3>8, <3>13, <3>15 DEF SnapshotOf, Refused
    <3> QED
      BY <3>14, <3>15
  <2> QED
    BY <2>5, <2>6
<1> QED
  BY <1>1, HostInvariant, PTL DEF ReloadKeeps
=============================================================================
