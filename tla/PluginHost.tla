----------------------------- MODULE PluginHost -----------------------------
(***************************************************************************)
(* The plugin manager, the frame that drives it, and what the settings     *)
(* file remembers of each plugin from one session to the next.             *)
(*                                                                         *)
(* A library file holds plugins of one build; a build stands for its       *)
(* version and for the toolchain fingerprint.  Of what plugins do, this    *)
(* much is kept: they may panic in a hook or when asked for their          *)
(* configuration, change it, close their window, refuse a configuration,   *)
(* and put actions on the host's queue from their threads.                 *)
(***************************************************************************)
EXTENDS Integers, Sequences, SequencesExt

CONSTANTS Files,      \* the library files, in the order they are loaded
          Holds,      \* the names of the plugins in each
          Builds,     \* builds of the program and of plugins
          Broken,     \* what is in a file that does not open
          Exe,        \* the program's own file
          Configs,    \* configurations of plugins
          Default,    \* the one a plugin starts with
          Accepts(_, _),  \* whether a build understands a configuration
          MaxEnqueued \* bound: actions put on the queue

NoConfig == "no config"

ASSUME HostAssumption ==
    /\ Files \in Seq(Range(Files))
    /\ \A f \in Range(Files) : Holds[f] \in Seq(Range(Holds[f]))
    /\ NoConfig \notin Configs \cup {Default}

VARIABLES
    disk,     \* the build in each file
    running,  \* the build that runs
    plugins,  \* the loaded ones, in order
    settings, \* Settings::plugins
    file,     \* the settings file: torn, or what it holds
    phase,    \* where the frame stands; "down" is between two sessions
    after,    \* where it goes on when the file is written
    queue,    \* actions from threads
    batch,    \* actions taken for this frame
    applied,  \* actions carried out
    issued,   \* actions put on the queue
    chosen    \* what a name had when a frame was last over

vars == <<disk, running, plugins, settings, file, phase, after, queue, batch, applied,
          issued, chosen>>

actions == <<queue, batch, applied, issued>>

Names == UNION {Range(Holds[f]) : f \in Range(Files)}

Empty == [n \in {} |-> {}]

Torn == [torn |-> TRUE, plugins |-> Empty]

Saved(s) == [torn |-> FALSE, plugins |-> s]

\* The function without some of its domain.
Dropped(f, S) == [x \in DOMAIN f \ S |-> f[x]]

Over(f, g) == [x \in DOMAIN f \cup DOMAIN g |-> IF x \in DOMAIN f THEN f[x] ELSE g[x]]

-----------------------------------------------------------------------------
(* Loading.                                                                *)

Fresh(name, f, build) ==
    [name |-> name, file |-> f, build |-> build, enabled |-> TRUE, window |-> FALSE,
     config |-> Default, error |-> FALSE]

\* Variant for a mutant run: any library that opens is taken.
OpensAny(f, host) == disk[f] # Broken

\* open: a library of another toolchain is refused before anything else of it
\* is looked at.
Opens(f, host) == disk[f] # Broken /\ disk[f] = host

\* load_file
LoadFile(f, host) ==
    IF Opens(f, host)
    THEN [i \in DOMAIN Holds[f] |-> Fresh(Holds[f][i], f, disk[f])]
    ELSE <<>>

\* load_dir, for all directories.
LoadAll(host) ==
    LET loaded[n \in 0 .. Len(Files)] ==
            IF n = 0 THEN <<>> ELSE loaded[n - 1] \o LoadFile(Files[n], host)
    IN  loaded[Len(Files)]

\* snapshot_of: a plugin that panics in save_settings is left without a
\* configuration.
SnapshotOf(p, panics) ==
    [enabled |-> p.enabled, window |-> p.window, config |-> IF panics THEN NoConfig ELSE p.config]

\* The plugin at i is the last of its name, of those at I.
IsLast(ps, I, i) == i \in I /\ \A j \in I : ps[j].name = ps[i].name => j <= i

\* One state for each name of the plugins at I: that of the last one.  Those
\* at F panic.
Snapshots(ps, I, F) ==
    [n \in {ps[i].name : i \in I} |->
        LET last == CHOOSE i \in I : ps[i].name = n /\ IsLast(ps, I, i)
        IN  SnapshotOf(ps[last], last \in F)]

\* settings_snapshot
SnapshotAll(ps, F) == Snapshots(ps, DOMAIN ps, F)

\* apply_settings on one plugin: a configuration it refuses, or panics on,
\* goes from what is remembered.
Restored(acc, p) ==
    LET s      == acc.saved[p.name]
        taken  == s.config # NoConfig /\ Accepts(p.build, s.config)
        held   == [p EXCEPT !.enabled = s.enabled, !.window = s.window,
                            !.config = IF taken THEN s.config ELSE @]
        saved  == IF taken THEN acc.saved ELSE [acc.saved EXCEPT ![p.name].config = NoConfig]
    IN  IF p.name \in DOMAIN acc.saved
        THEN [plugins |-> Append(acc.plugins, held), saved |-> saved]
        ELSE [acc EXCEPT !.plugins = Append(@, p)]

ApplySettings(ps, saved) ==
    LET done[n \in 0 .. Len(ps)] ==
            IF n = 0 THEN [plugins |-> <<>>, saved |-> saved] ELSE Restored(done[n - 1], ps[n])
    IN  done[Len(ps)]

-----------------------------------------------------------------------------
(* A session begins, and ends at any moment.                               *)

Start ==
    LET loaded == ApplySettings(LoadAll(disk[Exe]), file.plugins)
    IN  /\ phase = "down"
        /\ disk[Exe] # Broken
        /\ running' = disk[Exe]
        /\ plugins' = loaded.plugins
        /\ settings' = loaded.saved
        /\ phase' = "snapshot"
        /\ UNCHANGED <<disk, file, after, queue, batch, applied, issued, chosen>>

\* The window is closed, or the program dies.  Actions that are queued go
\* with it.
End ==
    /\ phase # "down"
    /\ phase' = "down"
    /\ plugins' = <<>>
    /\ settings' = Empty
    /\ queue' = <<>>
    /\ batch' = <<>>
    /\ applied' = <<>>
    /\ issued' = 0
    /\ after' = "snapshot"
    /\ chosen' = IF file = Torn THEN Empty ELSE chosen
    /\ UNCHANGED <<disk, running, file>>

\* Someone puts another build of a plugin there, or half of one.
Rebuild(f, build) ==
    /\ disk[f] # build
    /\ disk' = [disk EXCEPT ![f] = build]
    /\ UNCHANGED <<running, plugins, settings, file, phase, after, actions, chosen>>

\* A thread of a plugin.
Enqueue ==
    /\ phase # "down"
    /\ issued < MaxEnqueued
    /\ issued' = issued + 1
    /\ queue' = Append(queue, issued + 1)
    /\ UNCHANGED <<disk, running, plugins, settings, file, phase, after, batch, applied, chosen>>

-----------------------------------------------------------------------------
(* A frame: the first hook, what the user clicks, the second hook with the *)
(* actions of both, and the settings brought up to date.                   *)

Frame(from, to) == phase = from /\ phase' = to

\* run_hook: a plugin that panics in it is disabled.
Panicked(p) == [p EXCEPT !.error = TRUE, !.enabled = FALSE]

\* The plugins after a hook, in which at most one of those enabled does
\* something of its own: panics, or changes its configuration.
AfterHook ==
    {plugins}
    \cup {[plugins EXCEPT ![i] = Panicked(@)] : i \in {j \in DOMAIN plugins : plugins[j].enabled}}
    \cup {[plugins EXCEPT ![i].config = c] :
            i \in {j \in DOMAIN plugins : plugins[j].enabled}, c \in Configs}

\* Variant for a mutant run: what is drained stays in the queue.
OnSnapshotKeeping(ps) ==
    /\ Frame("snapshot", "clicks")
    /\ plugins' = ps
    /\ batch' = queue
    /\ UNCHANGED <<disk, running, settings, file, after, queue, applied, issued, chosen>>

OnSnapshot(ps) ==
    /\ Frame("snapshot", "clicks")
    /\ plugins' = ps
    /\ batch' = queue
    /\ queue' = <<>>
    /\ UNCHANGED <<disk, running, settings, file, after, applied, issued, chosen>>

\* What a click leaves of the plugins; one click in a frame.
Click(ps) ==
    /\ Frame("clicks", "apply")
    /\ plugins' = ps
    /\ UNCHANGED <<disk, running, settings, file, after, actions, chosen>>

NoClick == Click(plugins)

SetEnabled(i, enabled) ==
    /\ plugins[i].enabled # enabled
    /\ Click([plugins EXCEPT ![i].enabled = enabled, ![i].error = @ /\ ~enabled])

SetWindowOpen(i, open) ==
    /\ plugins[i].window # open
    /\ Click([plugins EXCEPT ![i].window = open])

\* show_windows and on_context_menu: a panic is recorded, and that is all.
PanicsAside(i) ==
    /\ plugins[i].enabled
    /\ Click([plugins EXCEPT ![i].error = TRUE])

\* The positions of the plugins of a file, and the plugins but those.
Of(f) == {i \in DOMAIN plugins : plugins[i].file = f}

Without(f) ==
    LET kept[n \in 0 .. Len(plugins)] ==
            IF n = 0 THEN <<>>
            ELSE IF n \in Of(f) THEN kept[n - 1] ELSE Append(kept[n - 1], plugins[n])
    IN  kept[Len(plugins)]

\* Variant for a mutant run: nothing is carried across.
ReloadedAnew(f, F) == Without(f) \o LoadFile(f, running)

\* reload: all plugins of the file go, the file is loaded, behind the others,
\* and they get back what they had, less the configurations of those at F; so
\* does another plugin of the same name.
Reloaded(f, F) ==
    ApplySettings(Without(f) \o LoadFile(f, running), Snapshots(plugins, Of(f), F)).plugins

\* A file that does not open leaves its plugins gone.
Reload(i, F) ==
    LET f == plugins[i].file
    IN  Click(IF Opens(f, running) THEN Reloaded(f, F) ELSE Without(f))

\* Only what is not loaded can be forgotten.
Forget(n) ==
    /\ phase = "clicks"
    /\ n \in DOMAIN settings
    /\ \A i \in DOMAIN plugins : plugins[i].name # n
    /\ settings' = Dropped(settings, {n})
    /\ phase' = "truncate"
    /\ after' = "apply"
    /\ chosen' = Dropped(chosen, {n})
    /\ UNCHANGED <<disk, running, plugins, file, actions>>

\* on_pre_apply, and both batches carried out.
PreApply(ps) ==
    /\ Frame("apply", "sync")
    /\ plugins' = ps
    /\ applied' = applied \o batch \o queue
    /\ batch' = <<>>
    /\ queue' = <<>>
    /\ UNCHANGED <<disk, running, settings, file, after, issued, chosen>>

\* Variant for a mutant run: what is remembered is what is loaded.
FoldedAll(F) == SnapshotAll(plugins, F)

\* Remembered entries of plugins that are not loaded stay.
Folded(F) == Over(SnapshotAll(plugins, F), settings)

\* sync_plugin_settings, in which the plugins at F panic.
Sync(F) ==
    /\ phase = "sync"
    /\ settings' = Folded(F)
    /\ phase' = IF Folded(F) = settings THEN "snapshot" ELSE "truncate"
    /\ after' = "snapshot"
    /\ chosen' = IF Folded(F) = settings THEN Over(SnapshotAll(plugins, F), chosen) ELSE chosen
    /\ UNCHANGED <<disk, running, plugins, file, actions>>

\* Settings::save: fs::write empties the file first.
Truncate ==
    /\ Frame("truncate", "write")
    /\ file' = Torn
    /\ UNCHANGED <<disk, running, plugins, settings, after, actions, chosen>>

\* What a name had, without the configuration if that is no longer remembered.
StillHad(had) ==
    [n \in DOMAIN had |->
        IF n \in DOMAIN settings /\ settings[n].config = NoConfig
        THEN [had[n] EXCEPT !.config = NoConfig]
        ELSE had[n]]

Write ==
    /\ phase = "write"
    /\ phase' = after
    /\ file' = Saved(settings)
    /\ chosen' = StillHad(IF after = "snapshot" THEN Over(SnapshotAll(plugins, {}), chosen)
                          ELSE chosen)
    /\ UNCHANGED <<disk, running, plugins, settings, after, actions>>

-----------------------------------------------------------------------------
HostInit ==
    /\ disk \in [Range(Files) \cup {Exe} -> Builds]
    /\ running = disk[Exe]
    /\ plugins = <<>>
    /\ settings = Empty
    /\ file = Saved(Empty)
    /\ phase = "down"
    /\ after = "snapshot"
    /\ queue = <<>>
    /\ batch = <<>>
    /\ applied = <<>>
    /\ issued = 0
    /\ chosen = Empty

Clicks ==
    \/ \E i \in DOMAIN plugins, b \in BOOLEAN : SetEnabled(i, b) \/ SetWindowOpen(i, b)
    \/ \E i \in DOMAIN plugins : PanicsAside(i) \/ \E F \in SUBSET DOMAIN plugins : Reload(i, F)
    \/ \E n \in Names : Forget(n)

\* A plugin or its user does something.
Eventful ==
    \/ \E ps \in AfterHook : ps # plugins /\ (OnSnapshot(ps) \/ PreApply(ps))
    \/ Clicks
    \/ \E F \in SUBSET DOMAIN plugins : F # {} /\ Sync(F)
    \/ Enqueue

\* The frame goes on by itself.
Uneventful ==
    \/ Start
    \/ OnSnapshot(plugins)
    \/ NoClick
    \/ PreApply(plugins)
    \/ Sync({})
    \/ Truncate
    \/ Write

-----------------------------------------------------------------------------
\* Whatever builds are swapped in and reloaded, no plugin of a toolchain other
\* than the host's is ever called: its Rust types would not be the host's.
NoForeignBuild == \A i \in DOMAIN plugins : plugins[i].build = running

\* What a plugin had when a frame was last over is what it has when it is
\* loaded the next time, sessions without it in between or not: "restores
\* rather than forgets its configuration".  Only a configuration it does not
\* understand is left, for good once the settings are written without it, and
\* so is one that it panicked over when the frame asked for it.  (A file torn
\* by a death within the write takes all.)
ComesBack ==
    [][Start => \A i \in DOMAIN plugins' :
         LET p == plugins'[i]
             c == chosen[p.name]
         IN  p.name \in DOMAIN chosen =>
               /\ p.enabled = c.enabled
               /\ p.window = c.window
               /\ p.config = c.config \/ c.config = NoConfig \/ ~Accepts(p.build, c.config)]_vars

\* A reload is a reset only for the plugin whose own code fails in it: one that
\* is there before and after, by name and file, keeps its flags, and all of its
\* configuration, whatever the other plugins of the file do.  It starts with
\* none if its new build does not understand it, or if the old one panicked in
\* save_settings just then.  (Of two with the same name in one file, it is the
\* last that is remembered.)
ReloadKeeps ==
    [][\A i \in DOMAIN plugins, F \in SUBSET DOMAIN plugins : Reload(i, F) =>
         \A j \in DOMAIN plugins, k \in DOMAIN plugins' :
             LET p == plugins[j]
                 q == plugins'[k]
             IN  p.name = q.name /\ q.file = plugins[i].file /\ IsLast(plugins, Of(q.file), j) =>
                   /\ p.enabled = q.enabled
                   /\ p.window = q.window
                   /\ \/ p.config = q.config
                      \/ q.config = Default /\ (j \in F \/ ~Accepts(q.build, p.config))]_vars

\* "a reload is for iterating on a .so, not a reset button", whatever the
\* plugin does.  It is one when the old build panics in save_settings.
ReloadIsNoReset ==
    [][\A i \in DOMAIN plugins, F \in SUBSET DOMAIN plugins : Reload(i, F) =>
         \A j \in DOMAIN plugins, k \in DOMAIN plugins' :
             LET p == plugins[j]
                 q == plugins'[k]
             IN  p.name = q.name /\ q.file = plugins[i].file /\ IsLast(plugins, Of(q.file), j) =>
                   p.config = q.config \/ ~Accepts(q.build, p.config)]_vars

\* What the threads of plugins put on the queue is carried out once, in order,
\* whenever it comes within a frame.
EnqueuedOnce == applied \o batch \o queue = [i \in 1 .. issued |-> i]

\* What comes out of plugins can be relied on: they were built with the host,
\* and what their threads ask for is done once and in order.
PluginsSound == NoForeignBuild /\ EnqueuedOnce
=============================================================================
