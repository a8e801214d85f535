# Specifications of reclass-rs

TLA+ models of [reclass-rs](../src/README.md), the TLC runs that check them and the
theorems that TLAPS proves about them. Paths below are relative to `src/crates/`
unless they begin with `docs/` or `README`.

reclass-rs shows the memory of another process through *classes*: lists of typed
fields that the user arranges until they match what the process keeps there. One
GUI thread owns all of the state. Three kinds of callers change it on that thread,
one whole call at a time: the user's clicks, an agent's MCP calls (queued by a server
thread, drained once a frame) and plugins' actions (applied after their hooks). Real
threads exist beside it: the pointer scan's workers, the MCP server, the updater's
workers and the tracing session of the access tracker.

So there are two sorts of difficulty. One is the **protocol**: long sequences of legal
calls by callers that do not know of each other, with arguments that have gone stale,
over a document that undo, redo, import and load exchange as a whole. The other is
**real concurrency**: a worker's result against the user's next click.

## 1. Inventory

| Component | Source | State | Operations | Hard |
|---|---|---|---|---|
| Class registry | `core/src/class.rs` | classes by id, their nodes, `next_id`, pointer width | add/remove class, push/insert/remove node, set kind/count/labels, cycle guard, `validate`, sizes, offsets | cycles and dangling references after any mixture of edits; room left by a removed class |
| Layout cache | same | memo of sizes and offsets | filled by queries, cleared by edits | a size that depends on where the walk began |
| Undo history | `app/src/app_state.rs` 151–194, 262–334 | two stacks of whole projects, a running node total | push, undo, redo, clear | two caps at once, a counter that must not drift, the redo branch |
| AppState | `app/src/app_state.rs` | project, history, cursor, statuses, expansions, clipboard, attached process | 30 mutators | positions that go stale; one user action, one undo point |
| Expansion state | `core/src/engine.rs` 40–133 | expanded and folded paths per view | toggle, expand, clear, drop a view | kept by *position* of the view |
| Pointer scan window | `app/src/gui/scan.rs` | one state behind a mutex, one flag per run | start, abandon, worker's report | late workers |
| Scan core | `core/src/scan.rs` | – | reverse map, walk back from the target | bounds, duplicates |
| Render engine | `core/src/engine.rs` | reads of one frame | level by level, one batch of reads each, then rows | a target that moves, short reads, pointers in circles |
| Node values | `core/src/node.rs` | – | sizes, formatting, parsing | widths, signs |
| Address expressions | `core/src/expr.rs` | – | lex, parse, evaluate | wrapping arithmetic |
| Project files | `core/src/project.rs` | file | save, load with validation | what is saved must load |
| .rcnet | `core/src/rcnet/` | – | import, export | kinds without a counterpart must keep their room |
| Code generation | `core/src/codegen/` | – | structs, accessors | order of types, names that collide, widths of two machines |
| Backends | `core/src/backend.rs`, `backend-vmem/src/lib.rs` | attached process | read, write | short reads |
| Access tracker | `backend-vmem/src/tracker.rs` | ptrace session | arm, wait, detach | deadline against a hit, signals of others, a target that dies |
| MCP server | `app/src/mcp.rs` | queue, stop flag, thread | forward, time out, stop, 30 tools | a timeout whose call is still carried out |
| Plugin host | `app/src/plugin.rs`, `app/src/gui/settings.rs` | loaded libraries, their queue, settings and their file | load, reload, hooks, save | failures half way, panics, a torn file |
| Updater | `app/src/updater.rs` | one status, workers | check, install, reset | one file replaced after the other, two results for one window |
| GUI frame | `app/src/gui/` | selections, open edit, deferred actions | serve agents, draw, `apply`, plugins' actions | positions and ids kept across frames and across other callers |
| Search, go to, flash | `app/src/gui/search.rs` | a query | filter of the rows | rows that lead to a match |
| Official plugins | `official-plugins/` | small observers | hooks | – |

**How they interact.** The GUI, the MCP drain and the plugin host *call* `AppState`;
`AppState` calls the registry, the history and the expansion state; a few MCP tools
and the GUI's pointer-width switch reach into the registry directly. The engine reads
registry, views and expansion, and the backend. Scan, updater and MCP threads share a
mutex-guarded state, a flag or a channel with the GUI thread and nothing else.
Persistence and .rcnet replace the whole project.

**What makes each correct.** The class graph stays free of inline cycles and dangling
references in every document a user can come to (they could neither be shown nor
loaded). Sizes and offsets are kept when something else goes. Undo covers each
structural edit by exactly one step, and both caps hold without trimming too much.
Cursor, statuses and expansions always belong to a view there is. A paste or a delete
of many does all it should or nothing. A result that nobody waits for is not shown;
one that somebody waits for comes.

What is shown of a target that runs on is what was there. A target that is watched keeps
no watchpoint, and has its signals as long as the tracker waits. A plugin has its settings again
after a reload, an update and a crash, unless its own code fails when asked for them.

The hazards, with their lines and the properties that cover each, are in
`PROJECT.json`; what a property leaves open of one is in its note.

## 2. Modules

```
Registry   History   ExpandState     pure operators on values        Timeline (abstract)
     \        |        /                                                 ^ refinement
               Editor  ------------------------------------------------- /
              /      \
   EditorLoops        Frame (GUI, agents, plugins)
        |               |
    MCEditor         MCFrame

Registry -> RegistryLoops -> EditorLoops               Snapshot -> RowSearch -> MCSnapshot
Registry -> LayoutCache -> MCLayoutCache               PluginHost -> Updater -> MCUpkeep
ScanJob -> MCScanJob                                   Tracker
McpServer -> MCMcpServer                               NodeKinds -> Rcnet, Codegen
Words -> AddrExpr, PointerScan                         AddrExpr, PointerScan, NodeValue,
                                                         Rcnet, Codegen -> MCAlgorithms
Proofs
RegistryLoops -> RegistryProofs;  EditorLoops, RegistryProofs -> EditorProofs
Frame, EditorProofs -> FrameProofs;  LayoutCache, RegistryProofs -> LayoutCacheProofs
RowSearch, Tracker, NodeValue -> TargetProofs
ScanJob, PointerScan -> ScanProofs
McpServerProofs, UpdaterProofs: each on its own module
```

* **Registry** – `class.rs` as operators on a record `[live, nodes, name, next_id, ptr]`.
  A node keeps its kind and one label; a kind keeps what the code tells apart: its
  size (`scalar`), the raw room `remove_class` leaves (`unknown`), a pointer, a pointer to a class,
  an instance. A nest of `Array` kinds is the innermost kind with the sequence of its
  counts, since every function that meets an array goes on to its element. Each edit
  returns the registry afterwards, and the same registry where the code returns an error.
  `SizeChecked` is the recursion of `size_of_checked` as a function of a stack and a class,
  `Measured` one level of it; sizes saturate at `MaxSize`, node by node. `offsets` starts
  with the owner on its stack, as the code does.
* **RegistryLoops** – the loops over the class graph as they run: the work list of
  `would_cycle`, the depth-first search of `validate`, `delete_many` from the highest index
  down, `paste_nodes` from the last node to the first, the removal of the selected classes.
  Each is a function of how far the loop is, or of the place where the search stands. The
  other modules state the *results* of these loops in closed form (`Reaches`: every set
  closed under nesting that contains `a` contains `b`; `Acyclic`: every set of classes has
  one that holds none of the set; `NodesDeleted`, `NodesInserted`).
* **EditorLoops** – the trimming loop of `History::push`, with how many snapshots it has
  dropped and the count it goes by, and the properties that hold each loop against its
  closed form (`Surplus` for this one) in the states that `Editor` reaches.
* **History** – the stacks, cached counts, running total and both caps. `Surplus` is the
  number of oldest snapshots that go.
* **ExpandState** – paths by view. A path is kept by its first segment: what the shifts
  and the clearing look at is the view.
* **Editor** – `AppState` with one action per mutator: its snapshot, its edit, the view
  it opens, the cursor, statuses and expansions it touches. An error after the snapshot
  is a step that records an undo point and leaves the registry as it was, as in the code.
  Arguments are ids and indices that may be stale. The groups of `Next` say who guards:
  `GuardedSteps` ask `kind_would_cycle`, `UncheckedSteps` are the plugin's `push_node`
  and `insert_after`, `UnrecordedSteps` the MCP tools and the switch that bypass
  `snapshot`.
* **Timeline** – what undo and redo promise: documents in one line, an edit cuts the part
  ahead and forgets only old ones, undo and redo move and change nothing. `Editor`
  implements it (`TL` in `Editor.tla`): the line is the undo stack, the project, and the
  redo stack reversed.
* **Frame** – `ReClassApp`: the frame around `Editor`. In one frame the agents' calls are
  served, rows and the plugins' first wishes are taken, all is drawn, and only then are the
  user's actions applied, one after the other, and after them the plugins'. So `actions`
  holds arguments of the drawing, and each meets the state that those before it left;
  `app` is what the window remembers *between* frames: the open cell editor (by view and
  path), the selected rows and classes with their anchors, the class being renamed. Each
  arm of `apply` that changes the project or what the window remembers is a disjunct of
  `Apply`, and each key, menu and button that defers one a disjunct of `Gesture`. The order of what one frame defers is
  that of the drawing: a text box that loses the focus by a click adds its own action
  before or behind the click's. The selected classes go in any order, since the code
  takes them from a hash set.
* **ScanJob** – the scan window. A frame first looks at the state and then acts on what it
  saw; `start` and `abandon` are a step for each access to the flag or the mutex; the
  worker ends its scan, looks at its flag, and takes the mutex as three steps.

* **LayoutCache** – the memo of `class.rs` as state beside the registry: `AskSize` and
  `AskOffsets` fill it as `size_of_checked` and `offsets` walk: a function of the stack, the
  class and the memo so far, which goes from node to node (`Summing`, `NodesFound`) and
  hands the memo on. Each edit clears it, an error
  or an edit of nothing does not, and an undo point is a clone *with* its memo. `SizeOf`
  and `Offsets` of `Registry`, which know no memo, are the reference.
* **McpServer** – the server thread and the GUI thread. The thread's stages are the points
  where `serve` and `forward` touch what is shared (`top`: the flag, `recv`: the queue,
  `read`: the body, `check`: flag and deadline, `wait`: the reply); the GUI's are `sync_mcp`
  with the join in the middle of it, and `drain_mcp` with a step for carrying a call out
  and one for its answer. A request is one call of one client; a retry is another
  request. The deadline may pass whenever the thread looks at it. Requests that need no
  live state, or are refused, are `Local`. That `send` fails or a reply channel closes
  (`app/src/mcp.rs:298`, `:312`) needs a thread that outlives the receiver, which
  `OnlyOneServes` excludes. What `tiny_http` does – queue requests, hand the body out as
  it arrives, drop what nobody took – is external.

* **Snapshot** – one call of the engine. Each wave of frames is read by one scattered read,
  or frame by frame when that fails, then by chunks, then by bytes; the pointers in what
  was read and is expanded give the next wave; last the rows. Each read is a step, and
  between any two the target may write, map or unmap (`TargetMoves`, external). What the engine
  finds along nested kinds (`KindSize`, `Found`, `KindRows`) are functions of the kind,
  the spot within a frame and the place of a row; `Discovered` and `Formatted` are one level
  of `discover_kind` and `format_kind`. `Kinds` are the kinds of nodes and elements, with
  the assumption that the editor's guard keeps: none lies inside itself. `Direct` is the
  reference, a walk that reads at will and knows no frames and no waves.
* **RowSearch** – the rows of the view that is open (`OfView`) and, of these, what the search
  box leaves (`FilterRows`, one pass backwards with one number). `Under` says what hangs from a
  row without that number. Whether a row's columns hold a query is `Matches`, any relation.
* **Tracker** – one call of `watch`: each ptrace request and each `waitpid` is a step, and
  the process touches the address, is sent a signal, takes one, or dies in between. What
  the kernel does with a traced process is external and told at the head of the module.
* **PluginHost** – libraries, the plugins they hold, the frame's hooks with their panics,
  the queue of the plugins' threads, enabling, windows, reload, `sync_plugin_settings`,
  and the settings file with the moment at which it is empty. A session may end
  anywhere. A *build* stands for version and toolchain fingerprint.
* **Updater** – on top of it: the status, the workers of a check and of an install, and the
  files replaced one after the other under a host that goes on to reload them.
* **PointerScan** – one scan of the core. `build_reverse_map` reads region by region and piece
  by piece (`Record`, `NextRegion`) from a target that runs on meanwhile (`TargetMoves`,
  external), up to its cap on slots; `walk_back` takes an address from its queue (`Pop`), the
  holders of a pointer to it or to just before it one by one (`Hop`), and goes to the next
  (`Leave`) until the queue is empty or there are results enough (`Return`). The reverse
  map is kept the other way round, as what each slot holds. A module is a file that is
  mapped; of two files with one name nothing is said. `Follow` says where a path leads
  by what its slots have held, `Away` and `Lengths` which paths the slots have, without a queue.
* **Words** – memory in cells of half a word, as the address bar and the scan read it.
* **AddrExpr**, **NodeValue**, **NodeKinds**, **Rcnet**, **Codegen** – the algorithms as
  operators: the parser and the evaluation of the address bar and the text of a path
  (`ToExpr`); what a cell shows and what a text typed into it stores (in `NodeValue` a cell
  is opened with a node's bytes and left, `Commit`, with the text that it shows or a number typed); kinds
  and sizes of files; both directions of .rcnet; names, order and fields of the generated
  structs and the accessors. Each has beside it the definition that says what it is for
  (`Exprs`, the grammar; `SizesOf`, the layout), which the algorithm does not use.
* **MCAlgorithms** – an initial state is a task for one of them, and its one step the
  answer; or the start of a scan, whose steps are those of `PointerScan`; or a cell that is
  opened, whose step is that of `NodeValue`.

`MCEditor`, `MCFrame`, `MCLayoutCache`, `MCMcpServer`, `MCScanJob`, `MCSnapshot` and `MCUpkeep` hold
constants, bounds and selections of steps only. Definitions named `...Unguarded`, `...OffByOne` and the like, each under a
comment "Variant for a mutant run", are faults that the checks must notice.

### Correspondence

| Code | Model |
|---|---|
| `AppState.project` (registry, views) | `project` |
| `AppState.history` | `history` |
| `selected_view`, `view_status`, `expand`, `clipboard` | `selected`, `view_status`, `expand`, `clipboard` |
| `add_class` + `seed_class` | `AddClass(name, rows)`: agents and plugins seed no rows |
| `remove_class` | `RemoveClass`, `ClassRemoved`, `DropClassRef`, `DropView` |
| `open_view`, `close_view`, `SelectView` | `OpenView`, `CloseView`, `SelectView` |
| `expand_pointer` | `ExpandPointer` (with the class that stays when the node is stale) |
| `toggle_*`, `expand_all`, `collapse_all` | actions of the same names |
| `push_node`, `insert_after`, `add_array`, `change_kind`, `set_array_count`, `delete_node`, `add_bytes`, renames | actions of the same names |
| `copy_nodes`, `paste_nodes`, `delete_many` | `CopyNodes`, `PasteNodes`, `DeleteMany` |
| `undo`, `redo`, `import_rcnet`, `load` | `Undo`, `Redo`, `ImportRcnet`, `Load` |
| MCP `add_node`, `insert_node`, `set_pointer_width` | `AddNode`, `McpInsertNode`, `SetPtrWidth` |
| `compute_rows` | `ComputeRows`: of a status, the class it was computed for |
| `ReClassApp.editing`, `.sel_rows`, `.sel_anchor`, `.selected_classes`, `.class_anchor`, `.renaming_class` | fields of `app` in `Frame`; a row is named by its path, in the code and here |
| `Actions` collected while drawing; those of the plugins | `actions`, `plugin_actions` |
| `drain_mcp`; `ui`; `apply`; `on_pre_apply` and its actions | `McpCall`; `Draw`; `ApplyNext`; `PreApply`, `ApplyPlugin` |
| `resolve_owner` | `Owner`, `Descend` |
| `Engine::snapshot`, its frames and waves | `frames`, `wave`, and `phase`, `at`, `have` within a read |
| `watch` and the process | `pc`, `status`, `deliver`, `hits`, `late`; `run`, `stop`, `pending`, `traced`, `armed` |
| `PluginManager.plugins`, `.queue`; `Settings::plugins`; the settings file | `plugins`, `queue`; `settings`; `file` |
| `Updater.status`, its threads | `status` with `offered`; `workers` |
| `ClassRegistry.cache` (sizes, offsets) | `cache` of `LayoutCache` |
| `settings.mcp_enabled`, `.mcp_port` | `desired` |
| `ReClassApp.mcp` (`McpRuntime`: port, shutdown, join, rx) | `held`, `port`, `shutdown`, `thread`, `chan` |
| `Call.reply` with what it holds | `replies`, one place per call |
| `build_reverse_map`: the region and the address it is at, the map | `region`, `addr`, `slots` |
| `walk_back`: `queue`, `seen`, the address taken from the queue and what was done of its holders, `out` | `queue`, `seen`, `visit`, `tried`, `out` |
| `Editing` of a value, with the row's bytes; `write_value` and `parse_edit` | `cell`, `typed`; `Commit` with `written` |
| `ScanJob.state`, `.abandoned`, the threads | `state`, `abandoned` with `current`, `worker` |

A node's name and comment are one label, a class's name and address expression one
label: the code treats the two of a pair alike. `view_status` keeps the class for which
it was computed, because that is what can be stale about it.

## 3. Runs

| Run | Question | Bounds | States |
|---|---|---|---|
| `editor_edit` | do the guard, the search and the loops do what they are for, and do edits, removal, paste, undo, redo, import and load keep the class graph well formed, loadable and undoable? | 3 classes, 2 nodes each, 4 calls from the empty project and from a saved one of three classes (one inline, one by pointer), selections of 2, arrays of 2 | 94 282 |
| `frame` | do calls that were deferred, remembered or made by others meet a state they fit, and do cursor, statuses and expansions follow whatever happens in a frame? | 2 frames with one gesture each, 1 call of an agent, 1 wish of a plugin, 4 classes, 2 nodes, rows two levels deep | 606 595 |
| `editor_history` | are the counts and caps exact, and is the history one timeline, for ever? | 1 class, 3 nodes, 3 undo points, node budget 2, **no** bound on calls | 212 191 |
| `scan_job` | who is listened to, and does a scan end? | 3 runs | 6 551 |
| `layout_cache` | does the memo always answer what the nodes come to? | 3 classes, 2 nodes, 4 calls from an empty, a nested and a cyclic registry | 198 529 |
| `mcp_server` | in which order are calls carried out, what is a client told, and does anyone wait for ever? | 2 live requests, 1 local, 2 ports, 2 servers; **no** bound on frames, polls and changes of the settings | 334 102 |
| `snapshot` | is what is shown what was there, does the search box leave what leads to a match, and does a snapshot end? | 3 views, 2 classes that point at each other, arrays cut off, 4 images of 16 cells, 2 moves of the target, 20 queries and none | 10 735 |
| `tracker` | is the process left as it was, and does the call return? | 3 accesses, 1 signal, 2 hits | 896 |
| `upkeep` | do plugins, their settings and their files survive reloads, panics, updates and deaths? | 2 plugin files, 3 builds with the broken one, 2 configurations, 2 queued actions, 5 events from outside; which plugins panic when asked for their settings is free | 3 065 332 |
| `algorithms` | do the algorithms compute what they are for, the scan also of a target that runs on? | texts of 5 tokens (9 of brackets), memories of 6 and 8 cells with one move of the target, pieces of 2 cells, 3 slots, chains of 3 hops, 4 paths, nodes of 1 and 2 four-bit bytes with all they can hold, 56 numbers at the limits and around 0, registries of 2 and 3 classes, elements two deep with unions and arrays of anything and of nothing | 1 238 183 |

*Why these are enough.* A cycle needs at most two classes besides the one edited, a
diamond three, and the saved project brings the first levels without spending calls on
them; four calls are enough to add, remove, undo and paste. `editor_history` has edits of
8 and 24 bytes (one and three rows), so that one snapshot can exceed the budget alone,
several can together, and the depth cap can be met first; its state space is finite
without bounding the behaviour. Two runs of a scan make one late result; the third is
started while that result is in flight. In `layout_cache` four calls are enough to ask,
save or edit, go back, and ask again, and the invariants are about every question that
could be asked next; three classes make a cycle and one outside that holds it. Two live
requests let one time out with the next right behind it, and two servers make a restart;
a third start fails, as a start may.

`frame` starts from a project in which the first class holds the second and that one holds
and points at the third, all open: two frames are enough to remember something in the
first and use it in the second, with an agent's call before either and a plugin's wish
after it. A frame has one gesture, as a person makes one in the sixtieth of a second;
two clicks in one frame need a frame that stalls, and then a second `OpenView` or
`SelectView` could be applied after an action that changed the views under it, which this
run does not show. In `snapshot` both pointers are within arrays and classes,
one view is of an empty class, an array has elements without a size (their rows are laid
out a byte apart, `core/src/engine.rs:740`, their discovery not, `:619`), one image cuts a pointer in two, and two moves let
a pointer change and change back. `tracker` has more accesses than hits, so that a call
ends by its hits, by its deadline and by the end of the process, with a signal in each.
In `upkeep` five events are an install, two reloads, a panic and a death; a sync in which
plugins panic in `save_settings` is an event, in a reload any of them may.
In `algorithms` the depth limit of 4 is met by texts of nine tokens; a scan meets each of
its caps – slots, between two pieces; results, in the middle of one address; hops, with
pointers that go in circles – and memories in which it meets none; one move of the target
can fall before, between and behind the reads of any two slots of a path;
bytes of four bits have all boundaries that bytes of eight have, the numbers typed are on both
sides of each, and pointers are both as wide as the largest word and narrower.

Bounds, by name: `MaxId` (ids, 2^32 in the code), `MaxNodes` (rows of a class),
`MaxSelection` (rows selected at a time), `MaxCalls` (calls of a session, in `MCEditor`
and `MCLayoutCache`, and agents' calls in `MCFrame`), `MaxFrames`, `MaxWishes` (frames and
plugins' actions of `MCFrame`), `MaxSize` (`usize::MAX`), `DEPTH` and `MAX_NODES` (64 and
500 000 in the code), `CHUNK`, `MAX_SLOTS`, `MAX_OFFSET`, `MAX_HOPS` and `MAX_RESULTS` (the
piece, the cap and the three numbers of `ScanConfig`), `MaxRuns` (scans of a session), `MaxServers` (servers of a session),
`MaxMoves` (changes of the target within a snapshot, or a scan), `MaxAccesses` (of the watched
address), `MaxEnqueued` (actions of plugins' threads), `MaxEvents` (what comes from
outside in `MCUpkeep`). Deadlock is checked in `mcp_server` only: with their bounds the
others stop, the scan window may rest, and a call or an answer is over when it is over.

### Properties

* `NoInlineCycle` – in the project *and in all that undo and redo come to* no class holds
  itself. `SavesLoad` – each of these would load again. `IdsFresh` – `next_id` is ahead.
* `LoopsExact` – `GuardExact`: the guard refuses an instance exactly when it would close a
  cycle; `SearchExact`: `validate` finds exactly the cycles, tried on registries the editor
  cannot make; `DeletesSelection`, `PastesInOrder`: the loops over several rows, stale ones
  too; `RemovesInAnyOrder`: the order of the hash set makes no difference.
* `RemoveKeepsLayout` – when a class goes, every offset and size of the others stays.
* `EditUndoable` – after an edit, one undo brings back the project before it.
* `HistoryCapped`, `TrimsLeast` (with the counts exact), `TimelineSpec` – the history.
* `FrameTypeOK`, `ViewsHold`, `ClosingKeepsExpansion` – positions follow the views.
  `CallsFit` – every step of a frame is a step of `Editor`: the refinement that carries what
  is checked and proved of `Editor` over to the program with its window.
* `RunningIsBacked`, `OneAwaited`, `DisownedStaysSilent`, `ScanEnds` – the scan window.
* `LayoutAnswered` – with any memo that can be, the answer is that of the nodes now.
  `CyclesForgotten` – nothing above a cycle is ever remembered.
* `OnlyOneServes` – no thread outlives its handle. `AnswersOwn` – "ok" means that this very
  call was carried out. `AppliedInOrder` – in the order of forwarding and at most once, the
  timed-out included. `TurnedAwayStaysUndone` – what a stop turned away is never done
  later. `RequestsEnd`, `SettingsFollowed` – nobody waits for ever.
* `RowsTrue` – nothing shown is made up while the target moves, and all of it is shown when
  it keeps still, against a recursion that reads at will. `FilterKeepsBranches` – of the
  rows of a view the search box leaves those that match and those they are reached
  through, each under the row it hangs from. `SnapshotEnds`.
* `TargetUndisturbed` – no watchpoint outlives its tracer, no signal of others is lost or
  doubled while the tracker waits for hits. It says nothing of signals once one has been reaped
  in place of the attach's own stop, nor of those that the deadline or the detach swallows.
  `WatchEnds`.
* `PluginsSound` – no plugin of another toolchain is called, queued actions are done once
  and in order. `ReloadKeeps`, `ComesBack` – settings survive a reload and a session
  without the plugin. A plugin that panics in `save_settings` loses its configuration, as
  `snapshot_of` has it: the flags stay, and whatever the other plugins of the file have. A torn
  settings file is excused. `WorkerBacksStatus` – one worker, the one the window waits for.
  `InstalledIsWhole` – "installed" means every file.
* `AddressesRead` – `ParsesTheGrammar`: a text is taken as the grammar has it, and in no other
  way; `PathsOpen`: what the scan's window copies leads the address bar to the target.
* `PathsFound` – each path leads to the target by what was read of it, each is found once,
  nearer ones first, and the first is as short as any that the slots have.
* `EditsExact` – what is written for a value that is typed takes the node's own bytes, never
  the next field's; what is shown and put back changes nothing that is shown; a number is taken
  just when the node can hold it and is then what it shows, the name of a variant included.
* `RcnetSound` – `RcnetKeepsLayout`: a registry that is exported and imported again is what it
  was, but for the fields that the other tool has no kind for, each of which has its note
  (only the length of a pointed-at text goes without). `ImportSound`: just the fields that
  cannot be represented are gone; the others are in their order, refer to classes there are, and
  take the room they had, a union that of its largest member with a size of its own; whatever is gone
  or has no counterpart has a note, only an array of nothing has none.
* `CodeCompiles` – structs have names of their own, views too, and so have the fields of each, whatever
  names the user gave; a C struct is defined before it is held; the compiler's fields
  have the sizes of the nodes; accessors reach just the field's bytes, those of addresses
  when host and target have pointers of one width.

**Fairness.** `ScanEnds` needs weak fairness of what a click has begun (the rest
of one function on the GUI thread) and of each worker (a scan is bounded by its depth and
its cap on results). Nobody has to click, and no frame has to be drawn.
The two of `McpServer` need weak fairness of the server thread and of the frames, which
`ui` asks for at the refresh rate (`app/src/gui/mod.rs:941`), but *not* of the deadline.
They also need clients that send the rest of a body or hang up; the specification
without that is `Running`. `SnapshotEnds` needs that the call goes on (`Engine`), and
nothing of the target. `WatchEnds` needs the calling thread, the clock, and a kernel that
lets a running process take its signals; the target owes it no access and no end.

### Findings

Two runs check what the repository says of itself and end in a counterexample.

1. `mcp_insert_undo` – `docs/user-guide.md:121` promises that undo covers every structural
   edit and that agents' changes are undoable. MCP `insert_node` (and
   `set_pointer_width`) edit the registry without a snapshot (`app/src/mcp.rs:521`, `:620`).
2. `tracker_stop` – "SIGSTOP is never left dangling for a detached or reused pid"
   (`backend-vmem/src/tracker.rs:154`, of the deadline). The tracker reaps *some* stop; when a hit
   or a signal came first, its own SIGSTOP is still pending at the detach and halts
   the process.

**Disagreements kept beside the runs.** Each of these is a definition that a reader can put
under INVARIANTS or PROPERTIES of the cfg named, to see the counterexample.

| Definition | What is said, and what the code does | Try in |
|---|---|---|
| `ScanJob!LateResultDropped` | "a late worker drops its result" (`app/src/gui/scan.rs:42`): it tests the flag before it takes the mutex (`:106`); an abandon between the two is overwritten | `scan_job.cfg` |
| `McpServer!StopEnds` under `Running` | "also the max shutdown latency" (`app/src/mcp.rs:37`, of the 100 ms poll): `serve` reads a body without a time limit and `stop` joins from the GUI thread; a client that holds back the rest holds up both | `mcp_server.cfg` with `SPECIFICATION Running` |
| `NoInlineCycle` with instances in `PluginKinds` | "the app guards against inline cycles at edit time" (`core/src/project.rs:199`): `push_node` and `insert_after` do not (`app_state.rs:782`); the project then saves and does not load | `mcp_insert_undo.cfg` with `PluginKinds <- MCSessionKinds` |
| `Frame!SuppressedByFocus` | shortcuts are "suppressed while an inline editor has focus" (`app/src/gui/mod.rs:969`): they are off as long as `editing` is set, also when the row it names is no longer shown and there is nothing to type in | `frame.cfg` |
| `MCAlgorithms!PathsOpenNarrow` | the point of a path "is that it can be pasted into a class's address bar" (`core/src/scan.rs:72`): `[...]` always reads eight bytes (`core/src/expr.rs:91`), so that it leads elsewhere in a 32-bit target | `algorithms.cfg` |
| `MCAlgorithms!UnionKeepsSpace` | of a union "the space is preserved as raw bytes" (`core/src/rcnet/mod.rs:411`): members that are arrays or classes count nothing | `algorithms.cfg` |
| `MCAlgorithms!EmptyNotesAreExact` | "an empty `notes` means the mapping was exact" (`core/src/rcnet/mod.rs:90`): an array without an element is dropped with no note (`:399`), and the length of a pointed-at text becomes that of any other | `algorithms.cfg` |
| `MCAlgorithms!AccessorsNarrow` | an accessor of a pointer is of an address of the host, "and the byte count is what makes the read correct" (`core/src/codegen/project.rs:387`): for a 32-bit target, the getter's `usize::from_le_bytes` of four bytes does not compile on a 64-bit host, its setter (`:445`) would write eight into a field of four, and that of an array (`:485`) copies eight into a slice of four | `algorithms.cfg` |
| `MCAlgorithms!StructsApart` | the names of a project's structs and views are "valid and unique" (test `project_view_names_are_valid_and_unique`, `core/src/codegen/mod.rs:491`): structs are among structs, and views among views; a class `A` beside a class `AView` gives two structs `AView` | `algorithms.cfg` |
| `PluginHost!ReloadIsNoReset` | "a reload is for iterating on a `.so`, not a reset button" (`app/src/plugin.rs:772`): a plugin that panics in `save_settings` just then comes back with the configuration of a new one (`:824`) | `upkeep.cfg` |
| `Updater!TakesEffectOnRestart` | "the new binary takes effect on restart" (`app/src/updater.rs:77`): after one install the running program's path is one with " (deleted)", and a second install of the session, of a release that came meanwhile, goes there | `upkeep.cfg` with `Builds = {1, 2, 3}` and `MaxEvents = 6` |

Read in the code and stated by no definition: a paste looks at ids, so that after a load, an
import or an undo it may refer to another class than was copied (`app_state.rs:757`,
against `docs/user-guide.md:131`); opening a view or adding a class keeps the selected rows, whose
paths then mean rows of the new view; an agent's undo leaves what the window remembers as
it was, the user's clears it; `delete_many` of nothing records an undo point; copying
with nothing selected empties the clipboard; go to drops a trailing `d` of an address;
two fields of one name give two accessors of one name; an edit is committed to the
view that is selected then; `remove_class` says that references become dangling
(`app_state.rs:431`), while the registry rewrites them; where a class runs over the end of
a mapping, a field cut off shows `???` as its value and the zeros of the buffer in the column of
its bytes (`core/src/engine.rs:840`, also in MCP's `hex`), which `RowsTrue` says nothing of.

## 4. Proofs

`tlapm` proves, for every value of the constants:

| Theorem | States | Assumes beyond the modules' assumptions |
|---|---|---|
| `EditorProofs!TypeCorrect` | `Spec => []TypeOK` | – |
| `EditorProofs!InlineAcyclic` | `[]NoInlineCycle` | plugins push no inline instance; imports are acyclic |
| `EditorProofs!SavedLoads` | `[]SavesLoad` | no step in which somebody names a class that is not there (`NamesGone`), a plugin closes a cycle (`PluginCycle`), or an import is broken (`ImportsBroken`) |
| `EditorProofs!FreshIds` | `[]IdsFresh` | files and imports have fresh ids |
| `EditorProofs!StacksCapped`, `TrimmedLeast` | `[]HistoryCapped`, `[]TrimsLeast` | – |
| `EditorProofs!RemovesKeepLayout` | `RemoveKeepsLayout` | as for `InlineAcyclic` |
| `EditorProofs!LoopsAreExact` | `[]LoopsExact` | the same |
| `EditorProofs!ViewsFollowed` | `[]ViewsHold` | files that load have views of classes there are, each once |
| `EditorProofs!ExpansionKept` | `ClosingKeepsExpansion` | the same |
| `EditorProofs!LineOfDocuments` | `TimelineSpec`: `Editor` implements `Timeline` | – |
| `EditorProofs!EditsUndoable` | `EditUndoable` | no step of `UnrecordedSteps` |
| `FrameProofs!CallsAreFit`, `ProgramIsEditor`, `FrameTypes` | `CallsFit`; `FrameSpec => Spec`: the program implements `Editor`; `[]FrameTypeOK` | `CleanInputs` |
| `FrameProofs!ViewsHoldInFrames`, `ExpansionKeptInFrames`, `RemovesKeepLayoutInFrames` | what is proved of `Editor`, of the program | `CleanInputs` and what the theorem about `Editor` assumes |
| `LayoutCacheProofs!AnswersAreRight`, `CyclesStayForgotten` | `[]LayoutAnswered`, `[]CyclesForgotten` | – |
| `RegistryProofs!GuardSuffices`, `GuardNeeded` | what the guard lets pass, many edges at a time, closes no cycle; what it refuses would | – |
| `RegistryProofs!GuardWalks`, `SearchDecides`, `DeletesTargets`, `PasteInOrder`, `RemovedAnyOrder` | each loop comes to its closed form, for any registry | `SearchDecides`: no cycle among ids that are no class; `RemovedAnyOrder`: an acyclic registry |
| `ScanProofs!TypeCorrect`, `Backed`, `Awaited`, `Silent` | the safety properties of the scan window | – |
| `ScanProofs!PathsLead` | `ScanSpec => []PathsFound` | – |
| `McpServerProofs!TypeCorrect`, `OneServes`, `Truthful`, `Applied` | `[]TypeOK`, `[]OnlyOneServes`, `[]AnswersOwn`, `[]AppliedInOrder` | – |
| `McpServerProofs!StaysUndone` | `TurnedAwayStaysUndone` | – |
| `TargetProofs!RowsAreTrue`, `SnapshotInvariant` | `SnapSpec => []RowsTrue`, from `[]SnapInv` | – |
| `TargetProofs!SearchKeepsBranches`, `FilterKeeps` | `SnapSpec => []FilterKeepsBranches`; the pass leaves what belongs, in any list of rows | – |
| `TargetProofs!EditsAreExact` | `CellSpec => []EditsExact` | – |
| `TargetProofs!WatchTypeCorrect`, `Undisturbed` | `[]TypeOK`, `[]TargetUndisturbed`, with what the property leaves out | – |
| `UpdaterProofs!OneWorker`, `WholeInstall`, `QueueKept` | `[]WorkerBacksStatus`, `[]InstalledIsWhole`, `[]EnqueuedOnce` (the part of `PluginsSound` about the queue) of `UpdSpec` | – |
| `UpdaterProofs!PluginsAreSound`, `RememberedComesBack`, `ReloadsKeep` | `[]PluginsSound`, `ComesBack`, `ReloadKeeps` of `UpdSpec` | – |

The assumptions are not slack: without the first `NoInlineCycle` is false (see the
disagreements above), and an agent or a plugin that names a class that is not there
makes a project that does not load. `SavedLoads` is therefore a theorem about steps: whatever the
constants are, only these three kinds of step can end in such a project. It is one about
`Editor`; under `CleanInputs`, which excludes two of them, there would be nothing left to say of
the program. `load` does not look at
`next_id` nor at the views (`app_state.rs:1029`), hence the assumptions on files;
`rcnet::import` does not call `validate`, hence those on imports. What `EditsUndoable`
leaves out is the finding `mcp_insert_undo`.

**The argument for the editor.** Of each step of `Next`, `StepEdits` shows that it leaves
the registry, removes a class, or lets the registry *grow*: the classes that change only
gain references the guard or the choice of arguments allows, and `next_id` does not go back.
A class of registries `R` that is closed under this (`EditAcyclic`, `EditNoDangling`,
`EditFresh`) is therefore preserved by an edit. It is not preserved by undo and redo
alone, which bring back documents of the past; so the inductive invariant is
`AllOver(R)`: the project is over a registry in `R`, **and so is every document on both
stacks**. An edit puts nothing on the stacks but the project as it was (`StepRecords`), undo and
redo move documents between the three, and load starts anew with one that validates.
The three theorems are this one induction for three classes `R`; `SavedLoads` keeps with each
growth which step of a caller it came from (`Permitted`). The cap follows from
`Push` alone trimming, and from undo and redo keeping the sum of the lengths.

That several inline edges out of one class may be checked one by one, as `paste_nodes`
does for a clipboard with several instances, is `GuardSuffices`: none of them reaches
the class, so the classes that reach it and those that the edges lead to are apart.

**Views.** The same induction as for registries, for the projects whose views show classes
there are, no class twice (`Showing`): `ViewInv` says it of the project and of both stacks, because
an undo brings a list of views back as a whole, and adds `CursorsFollow`. That a class is
shown once is needed where it is removed: `remove_class` closes the first view of it, and
a second one would show nothing. When the view at a position goes, everything kept by
position moves (`WithoutElements` for the list, `ShiftShows` for the paths), and what was
shown under a class still is; this gives `ExpansionKept`.

**The line of documents.** `LineElements` says where the documents of both stacks are in the
line of `Timeline`. An edit drops some of the oldest and puts the project behind the rest, so that
the line up to its end is what it was from there on (`PushIsEdit`); undo and redo move one
document across the project, and the line is element for element the same.

**The scan window.** `IInv` strengthens the type invariant by where each thread may be: a
run is born when its number was taken, only the current run is in flight with its flag
unset, and an outcome in the window is of a worker that has ended. `Backed` and `Awaited`
follow; `Silent` adds that a disowned run that has not looked can only end.

**The pointer scan.** `ScanInv` says of a slot that it was read so in some image of the
target (`WereRead`), which is all that a target that runs on allows. Of the walk it says that
each address on its *frontier* (the queue, and the one that is visited) has a way to the
target, which is its tail (`Leading`), that the queue is in order of their lengths, that it
spans two lengths at most, and that an address is in it once (`InLine`). From this the
paths are ways, and come shorter ones first. Each is found
while the address it goes to is visited, and no address is visited twice, so that no path
comes twice (`Once`). The first being as short as any rests on what has *not* been found: as
long as there is no result, every holder of what was visited is seen and in
no module (`Shut`), so that whatever leads to the target from farther than the frontier leads
through the frontier (`BehindFrontier`, by induction along the length, since `Away` goes
back through no module); a shorter way would start behind it (`Nearest`). With an
empty queue nothing can be behind it, and there is no way at all (`NoneBehind`). That an
address is visited once only thus loses paths, as the code means it to, but never the shortest.

**The MCP server.** `IInv` says where the GUI thread may be (between the join and a start it
holds no server) and what it has not said yet: a call in its hand and every answer not
read is of a call carried out. From this `OneServes` and `Truthful` follow. That a
refused call stays undone needs to know where a request can be: waiting at the one server
alive, once, or being read, and forwarded only after both (`InboxInv`, `ReadInv`);
in no channel but that of the server held (`ForwardedInv`); and turned away from there
only when the GUI does nothing but wait for the thread (`StopInv`). So what a drain takes
out of the channel was not turned away. `OrderInv` adds that no call is forwarded twice and
that what was carried out lies before what waits in a channel, both in the order of the
forwarding (`Precedes`): with `Applied` a drain takes the next one.

**The tracker.** `WatchInv` says for each step of `watch` what the process may be: traced or
gone between attach and detach, with the register set only after it was armed and
before it is cleared, and stopped or signalled only where the next request expects it. A signal
is counted where it is – pending, held by the tracer for the next `PTRACE_CONT`, or taken –
and the sum is what was sent, up to the clean-up and unless it came `early`, before the stop of the
attach was seen.

**The snapshot.** `SnapInv` says of the frames that have been read (`FramesRead`) that they
hold cells the target had at those addresses since the snapshot began, then zeros; and, while
the target keeps still, all of what can be had, which is what scatter, whole read,
chunks and bytes each come to. Of the frames altogether (`TreeOK`) it says that the first are those of
the views and each other one is the child of one pointer of an earlier frame, at the
address that pointer holds, under its path and one level deeper; and that each pointer
that is to be followed has its child. A level adds just these (`Descend`); no two pointers
of a frame have one path. The rows are then a function of the frames, and of them two things
are shown, each by going up from the places with nothing below them. `NothingMadeUp`: the
rows of a place are a block that begins with its own row, all others deeper, in which
a row right below a pointer's lies where that row says (`Block`, `AllBlocks`); so
any number of blocks may follow one another. `StillTargetExact`: the rows of a
place are those of the view with its base and what can be had there (`AllSame`), where the place
leads to a child frame exactly where the reference reads on.

That these go up at all is `PlacesGrounded` and `ViewsGrounded`: below a place is a kind
inside it, or a later frame; below a view is a kind inside it, or a longer path that is
expanded, of which there are finitely many, however the pointers of the target lead in
circles. The same groundedness makes the recursive definitions functions (`Defined`: a
definition that looks only below has a fixpoint, which `KindRows`, `Found` and
`Direct` then are).

**The search box.** Behind each turn of the backward pass what is owed is the depth of
the first row kept (`PassedFrom`): a row between that is less deep would have been kept. So a row
that is less deep than what is owed is above that row, and it is kept exactly if something under
it matches, whatever the depths are (`FilterKeeps`). That a kept row hangs from a kept one
needs that the list is a tree rendered flat (`Hanging`, a part of `SnapInv`: a row that is
no root's comes behind one of its own view at most one less deep), of which the rows of
one view are again one (`OfViewIs`).

**The cells.** `CellInv` says that what is written is what the text of the cell was parsed to,
so the theorem is one about parsing and formatting. Both go digit by digit and
byte by byte: what is above a place is divided off (`RestOfTwo`, `DivideTwice`), and there are
as many places as the number needs (`PowerGrows`), so digits are read as the number
they were written for (`DigitsRead`) and bytes as the number stored (`BytesRead`). A number with a
sign is stored as its rest by the limit, of which reading takes the limit off again
just where it was added (`StoresSigned`). A text that is cut at its first terminator and
filled up has that terminator in the same place (`TextBack`). What the cell shows of a `NULL`
pointer, a class pointer or the name of a variant is refused, and nothing is written.

**The updater.** A status of work in progress has its one worker, and the window takes an
answer only of it. While an install runs, the files that may differ from the release are
those still left to replace; it says "installed" with none left. The queue of the plugins'
threads is empty of a batch outside the frame that took it, so that neither a reload nor
a panic in a hook finds one half done.

**The plugin host.** `HostInv` says of the plugins that each is of the build that runs, and
that there are none between two sessions (`LoadedInv`); of the settings, that they have for each name
the flags it had when a frame was last over, or those the loaded plugins have while that is being
written, and no other configuration than it had then (`RememberedInv`, `Matches`): a plugin that refused
its configuration, or panicked when asked for it, has none there; and of the file that it has what
names had when a frame was last over, with every configuration they had, unless a write has just
truncated it (`FileInv`, `Backs`). Which plugins panic is one more argument of a snapshot, and
whatever it is, the snapshot `Matches` (`PanicsMatch`). A
start and a reload give each plugin what is remembered under its name
(`ApplySettingsDoes`), which with these gives `ComesBack` and `ReloadKeeps`. Neither promises a
configuration that the build refuses or that the plugin panicked over, and `ComesBack` none
where there was none: the plugin then starts with its own (`LoadedAnew`), as in the code.

**The frame.** `CallsFit` is that each step of `Frame` is one of `Editor` or leaves the
document alone; with it everything proved of `Editor` holds of the program. A step that
applies a deferred action uses arguments of the drawing. `FrameInv` says that each action
still to be applied can be done in the state there will be (`Requests`): most actions can be
done in any, since their arms look; those that cannot (`Timed`: an index into the views, a
row that must be there) have only such actions before them as leave the document
alone (`Calm`, `InTime`). That the drawing defers nothing else is one lemma per menu, key
and button (`GestureAsks`); that `resolve_owner` ends at a node there is, `OwnerFound`, by
induction along the path. `CleanInputs` are the conditions under which the callers do what
`Editor` has them do: agents and plugins name no class that is gone, files and imports
are whole, and the bounds on rows and selections hold of what comes from outside.

**Sizes.** `SizeChecked` calls itself for the classes below a stack. That it is a function
at all, `WalkStep`, is shown by building it up along the number of classes not on the
stack (`Settles`). A class is `Settled` when neither it nor any class it holds, at any
depth, is nested in itself. Of these the walk is complete and
gives the same from every stack that it does not meet (`SettledSizes`,
`CompleteSettled`), and in an acyclic registry all are (`AcyclicSettled`). From there
`RemoveKeepsLayout` is one induction along the inline edges: the bytes left in place of the
class are as large as the class was.

**The memo.** `CacheInv` says that what is remembered is `Right`: the size of a class that
is settled. A walk that starts from such a memo finds what one without a memo finds,
and adds only such sizes (`WalkTold`, for stack, class and memo at once, by the number of
classes not on the stack). Here it matters that the code remembers only complete sizes: a size
found below a cycle depends on where the walk began. An undo point keeps its memo with
its registry, so `CacheInv` says it of every registry of the session.

**The counts of the history.** `Exact` says that the running count is the sum of the counts
kept with the documents on the undo stack. What a push adds and a trim takes away are two parts of one sum
(`SplitWeight`), and the trimming loop stops where `Surplus` says (`TrimStep`, `TrimIsPush`):
it counts down what the closed form adds up.

**The loops.** Each loop is shown to be its closed form, by a function that gives what it
has done after each turn. `would_cycle`: the work list only grows and names each class
once, so it ends; what it names is nested in the child, and when it ends it is closed
under nesting, so it has all there is. The search of `validate`: what is `done` is
settled (nothing of it leads back into the path), and a class of the path that is met
again holds itself; a class that is done is not searched again and need not be, since being settled
does not depend on the path. `delete_many` goes down, so that the positions below the one
it is at are still those of the selection; going up, they would not be. In `paste_nodes`
it is the reverse that keeps the order. The removal of several classes: a class that is left has
the size it had, whichever went before it, so the bytes left for each are those of the
registry before the first (`WithoutThose`), in any order.

**Induction** over the natural numbers is not cited from a library theorem with an
operator parameter; it is `UpTo` and `LeastNatural` (in `RegistryProofs`,
`TargetProofs`, `ScanProofs` and `UpdaterProofs`), stated of a set, and a recursive definition is a function of which
existence is shown first (`Along`, `Settles`, `Defined`, `AlongNumbers`).

**Left to TLC.** Liveness (`ScanEnds`, `RequestsEnd`, `SettingsFollowed`, `SnapshotEnds`,
`WatchEnds`). `AddressesRead`, `RcnetSound` and `CodeCompiles`: they compare
recursive operators over texts, files and code with reference definitions. Every other property that a passing
run checks is stated by a theorem above.

*On the prover.* The encoding of `Len` for the SMT backend of tlapm 1.4.5 says too much of
values that are no sequences. All proofs here have also been checked with that axiom
restricted to sequences; none depends on it.

## 5. Not modelled, and why

* *Text*: RON, XML, zip and JSON, the wording of generated code, columns and colours of
  a row, floats, vectors and matrices, asm. No property tells one such text from another;
  names and numbers that must be told apart are modelled by what tells them apart.
* *System calls*: how `backend-vmem` reads, lists processes and regions. What a read may
  give is `TargetMoves` and the reads of `Snapshot`; what ptrace may do, the head of `Tracker`.
* *Drawing and dialogs*: layout, file pickers, themes, flash. `Gesture` has what they defer.
* *Attaching and writing*: `pid`, the backend and its `write`, tools of agents that read or
  write the other process. They change that process and nothing the editor keeps; a value
  committed in a cell computes the rows, which is in `Frame`.
* The file that `save` writes: `SavesLoad` says that whatever would be written loads. In
  `Editor` an import is any registry in `Imports`; that `import` makes such a one is
  `RcnetSound`, and the `insert_class` it is made with is a step of `LayoutCache`.
* *Plugin libraries*: where they are looked for and their C interface. The updater's
  download and archive: they fail or not (`WorkFails`).
* *Official plugins*: they look at rows and act through the host.
* When the window closes, the server is stopped as by the settings (`Drop` is the same).

## 6. Plan

1. The safety part of `SettingsFollowed` (a server that runs with other settings is being stopped).
