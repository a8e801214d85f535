------------------------------ MODULE Updater ------------------------------
(***************************************************************************)
(* The updater, next to the plugin host whose files it replaces: a status  *)
(* that the window and the workers share, the check, and the install that  *)
(* swaps the program and its plugins one file after the other.             *)
(*                                                                         *)
(* A release is the number of its build.  The program's path is read from  *)
(* the running process; once the file there has been replaced, the kernel  *)
(* names a path at which there is none, and a second install of the same   *)
(* session puts the program there.                                         *)
(***************************************************************************)
EXTENDS PluginHost

CONSTANTS Shipped,   \* the library files that come with a release
          NoWorker   \* no release

ASSUME UpdaterAssumption ==
    /\ IsFiniteSet(Shipped)
    /\ Shipped \subseteq Range(Files)
    /\ Exe \notin Range(Files)

VARIABLES
    status,   \* Updater::status
    offered,  \* the release in Available and Installed
    workers,  \* the threads: what each does and how far it is
    latest,   \* the newest release published
    moved,    \* the running program's file has been replaced
    stray     \* the build at the path that names no program

updater == <<status, offered, workers, latest, moved, stray>>

allVars == <<vars, updater>>

Busy == {"Checking", "Installing"}

UpdInit ==
    /\ HostInit
    /\ status = "Idle"
    /\ offered = NoWorker
    /\ workers = {}
    /\ latest \in Builds
    /\ moved = FALSE
    /\ stray = NoWorker

Up == phase # "down"

\* A thread of its own, the first with a number that is free.
Spawned(kind, release) ==
    workers \cup {[id      |-> CHOOSE i \in 1 .. 9 : \A w \in workers : w.id # i,
                   kind    |-> kind,
                   release |-> release,
                   left    |-> IF kind = "install" THEN <<Exe>> \o SetToSeq(Shipped) ELSE <<>>]}

\* Variant for a mutant run: a check starts whatever goes on.
CheckAlways ==
    /\ Up
    /\ status' = "Checking"
    /\ workers' = Spawned("check", NoWorker)
    /\ UNCHANGED <<vars, offered, latest, moved, stray>>

\* The menu's entry, and Retry.
Check ==
    /\ Up
    /\ status \notin Busy
    /\ status' = "Checking"
    /\ workers' = Spawned("check", NoWorker)
    /\ UNCHANGED <<vars, offered, latest, moved, stray>>

\* A worker is through and publishes its result.
Publish(w, result, release) ==
    /\ status' = result
    /\ offered' = release
    /\ workers' = workers \ {w}

FoundNewer(w) ==
    /\ w.kind = "check"
    /\ latest > running
    /\ Publish(w, "Available", latest)
    /\ UNCHANGED <<vars, latest, moved, stray>>

FoundNone(w) ==
    /\ w.kind = "check"
    /\ latest <= running
    /\ Publish(w, "UpToDate", NoWorker)
    /\ UNCHANGED <<vars, latest, moved, stray>>

\* curl, tar, or a copy fails: what is replaced stays replaced.
WorkFails(w) ==
    /\ Publish(w, "Failed", NoWorker)
    /\ UNCHANGED <<vars, latest, moved, stray>>

\* The button is there with a release that has a package.  Nobody changes the
\* status between its two locks: without a worker, only this thread does.
Install ==
    /\ Up
    /\ status = "Available"
    /\ status' = "Installing"
    /\ offered' = NoWorker
    /\ workers' = Spawned("install", offered)
    /\ UNCHANGED <<vars, latest, moved, stray>>

Going(w) == [w EXCEPT !.left = Tail(@)]

\* replace, of the program: a rename over the file that runs.
ReplaceExe(w) ==
    /\ w.left # <<>>
    /\ Head(w.left) = Exe
    /\ disk' = IF moved THEN disk ELSE [disk EXCEPT ![Exe] = w.release]
    /\ stray' = IF moved THEN w.release ELSE stray
    /\ moved' = TRUE
    /\ workers' = (workers \ {w}) \cup {Going(w)}
    /\ UNCHANGED <<running, plugins, settings, file, phase, after, actions, chosen, status,
                   offered, latest>>

\* replace, of a plugin.
ReplacePlugin(w) ==
    /\ w.left # <<>>
    /\ Head(w.left) # Exe
    /\ disk' = [disk EXCEPT ![Head(w.left)] = w.release]
    /\ workers' = (workers \ {w}) \cup {Going(w)}
    /\ UNCHANGED <<running, plugins, settings, file, phase, after, actions, chosen, status,
                   offered, latest, moved, stray>>

\* Variant for a mutant run: it is through when the program is replaced.
InstallDoneEarly(w) ==
    /\ w.kind = "install"
    /\ Len(w.left) < 2
    /\ Publish(w, "Installed", w.release)
    /\ UNCHANGED <<vars, latest, moved, stray>>

InstallDone(w) ==
    /\ w.kind = "install"
    /\ w.left = <<>>
    /\ Publish(w, "Installed", w.release)
    /\ UNCHANGED <<vars, latest, moved, stray>>

\* The window is closed over a result: reset.
Dismiss ==
    /\ Up
    /\ status \in {"Failed", "Installed"}
    /\ status' = "Idle"
    /\ offered' = NoWorker
    /\ UNCHANGED <<vars, workers, latest, moved, stray>>

Release ==
    /\ latest + 1 \in Builds
    /\ latest' = latest + 1
    /\ UNCHANGED <<vars, status, offered, workers, moved, stray>>

\* The workers end with the session, wherever they are.
EndAll ==
    /\ End
    /\ status' = "Idle"
    /\ offered' = NoWorker
    /\ workers' = {}
    /\ moved' = FALSE
    /\ UNCHANGED <<latest, stray>>

Work ==
    \E w \in workers :
        \/ FoundNewer(w)
        \/ FoundNone(w)
        \/ WorkFails(w)
        \/ ReplaceExe(w)
        \/ ReplacePlugin(w)
        \/ InstallDone(w)

\* The program's steps.
Proceed == (Uneventful /\ UNCHANGED updater) \/ Work

\* What comes from outside: the user, plugins, their authors, releases.
Happen ==
    \/ Eventful /\ UNCHANGED updater
    \/ EndAll
    \/ \E f \in Range(Files) \ Shipped, b \in Builds \cup {Broken} :
         Rebuild(f, b) /\ UNCHANGED updater
    \/ Check
    \/ Install
    \/ Dismiss
    \/ Release

UpdSpec == UpdInit /\ [][Proceed \/ Happen]_allVars

-----------------------------------------------------------------------------
\* The window waits only for a worker that is there, and for one: no result
\* comes over that of a later request, however the window is closed, reopened
\* and clicked.
WorkerBacksStatus ==
    /\ \A v, w \in workers : v = w
    /\ status = "Checking" <=> \E w \in workers : w.kind = "check"
    /\ status = "Installing" <=> \E w \in workers : w.kind = "install"

\* A release is said to be installed only when each of its files is in place,
\* the program at the path that the process has for it.
InstalledIsWhole ==
    status = "Installed" =>
        /\ \A f \in Shipped : disk[f] = offered
        /\ offered \in {disk[Exe], stray}

\* "Installed; the new binary takes effect on restart."
TakesEffectOnRestart == status = "Installed" => disk[Exe] = offered
=============================================================================
