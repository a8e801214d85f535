------------------------------ MODULE Snapshot ------------------------------
(***************************************************************************)
(* One snapshot of reclass_core::engine: the views are read level by level *)
(* from a target that runs on meanwhile, the pointers found in what was    *)
(* read give the next level, and then all is laid out as rows.             *)
(*                                                                         *)
(* The target's memory is one of a set of images, and may become another   *)
(* one between any two reads.  An address holds a cell, a small number; a  *)
(* pointer is PtrBytes cells, the lowest first.  A path is the sequence of *)
(* node and element indices from the root, from 0 as in the code.          *)
(***************************************************************************)
EXTENDS Integers, Sequences, FiniteSets

CONSTANTS Kinds,       \* the kinds of nodes and of the elements of arrays
          Nodes,       \* the kinds of each class's nodes
          Roots,       \* the views: class and base
          Expansions,  \* what may be expanded and collapsed: sets of <<root, path>>
          Images,      \* what the target's memory may be: cells by address
          CellBase,    \* bound: cells are below
          PtrBytes,    \* width of a pointer
          ArrayLimit,  \* elements shown of one array
          MaxClass,    \* MAX_CLASS_BYTES: cells read of one frame
          Chunk,       \* cells of a coarse read: 256 in the code
          MaxMoves     \* bound: changes of the target's memory

VARIABLES
    mem,     \* the target's memory
    seen,    \* every image there was since the snapshot began, in order
    expand,  \* the expansion state
    frames,  \* the frames so far, roots first
    wave,    \* the frames of this level
    phase,   \* "scatter", "alone", "chunks", "bytes", "discover" or "done"
    at,      \* position in the wave, of the frame that is read on its own
    have,    \* cells of it read so far
    levels,  \* last_levels
    rows     \* what is shown

snapVars == <<mem, seen, expand, frames, wave, phase, at, have, levels, rows>>

reading == <<frames, wave, phase, at, have, levels>>

-----------------------------------------------------------------------------
(* Kinds.                                                                  *)

Classes == DOMAIN Nodes

Paths == Seq(Nat)

Data(size) == [tag |-> "data", size |-> size]

Instance(c) == [tag |-> "instance", cls |-> c]

ArrayOf(k, count) == [tag |-> "array", elem |-> k, count |-> count]

ClassPtr(c) == [tag |-> "class_ptr", cls |-> c]

PtrText(max) == [tag |-> "text", max |-> max]

IsKind(k) ==
    \/ k.tag = "data" /\ k.size \in Nat
    \/ k.tag \in {"instance", "class_ptr"} /\ k.cls \in Classes
    \/ k.tag = "array" /\ k.elem \in Kinds /\ k.count \in Nat
    \/ k.tag = "text" /\ k.max \in Nat

\* The kinds that lie inline in one.
Inside(k) ==
    CASE k.tag = "array"    -> {k.elem}
      [] k.tag = "instance" -> {Nodes[k.cls][i] : i \in DOMAIN Nodes[k.cls]}
      [] OTHER              -> {}

\* Among any kinds there is one with none of them inside: no class holds
\* itself, as the editor sees to.
ASSUME KindsAssumption ==
    /\ \A k \in Kinds : IsKind(k)
    /\ \A c \in Classes : Nodes[c] \in Seq(Kinds)
    /\ \A S \in SUBSET Kinds : S # {} => \E k \in S : Inside(k) \cap S = {}

ASSUME TargetAssumption ==
    /\ Roots \in Seq([cls : Classes, base : Nat])
    /\ \A e \in Expansions : e.expanded \subseteq Nat \X Paths /\ IsFiniteSet(e.expanded)
    /\ \A m \in Images : \A a \in DOMAIN m : m[a] \in 0 .. CellBase - 1
    /\ CellBase \in Nat \ {0} /\ PtrBytes \in Nat \ {0}
    /\ ArrayLimit \in Nat \ {0} /\ MaxClass \in Nat \ {0}
    /\ Chunk \in Nat \ {0} /\ MaxMoves \in Nat

\* The first n numbers summed up, and the first n sequences one after the other.
Sum(n, s) ==
    LET upto[i \in 0 .. n] == IF i = 0 THEN 0 ELSE upto[i - 1] + s[i]
    IN  upto[n]

Concat(n, ss) ==
    LET upto[i \in 0 .. n] == IF i = 0 THEN <<>> ELSE upto[i - 1] \o ss[i]
    IN  upto[n]

\* NodeKind::size, and size_of below it.
KindSize[k \in Kinds] ==
    CASE k.tag = "data"     -> k.size
      [] k.tag = "instance" ->
           Sum(Len(Nodes[k.cls]), [i \in DOMAIN Nodes[k.cls] |-> KindSize[Nodes[k.cls][i]]])
      [] k.tag = "array"    -> k.count * KindSize[k.elem]
      [] OTHER              -> PtrBytes

\* Where the nodes of a class begin.
Offsets ==
    [c \in Classes |->
        [i \in DOMAIN Nodes[c] |-> Sum(i - 1, [j \in 1 .. i - 1 |-> KindSize[Nodes[c][j]]])]]

SizeOf(c) == Sum(Len(Nodes[c]), [i \in DOMAIN Nodes[c] |-> KindSize[Nodes[c][i]]])

Shown(k) == IF k.count < ArrayLimit THEN k.count ELSE ArrayLimit

\* Whether the engine has to look inside for pointers.
NeedsDiscovery[k \in Kinds] ==
    \/ k.tag \in {"instance", "class_ptr", "text"}
    \/ k.tag = "array" /\ NeedsDiscovery[k.elem]

IsExpanded(root, path) == <<root, path>> \in expand.expanded

IsCollapsed(root, path) == <<root, path>> \in expand.collapsed

-----------------------------------------------------------------------------
(* Reading.                                                                *)

IsMapped(image, addr, n) == \A a \in addr .. addr + n - 1 : a \in DOMAIN image

CellsAt(image, addr, n) == [i \in 1 .. n |-> image[addr + i - 1]]

Zeros(n) == [i \in 1 .. n |-> 0]

PtrOf(cells) ==
    LET from[i \in 0 .. Len(cells)] ==
            IF i = 0 THEN 0 ELSE from[i - 1] * CellBase + cells[Len(cells) + 1 - i]
    IN  from[Len(cells)]

\* A frame of class c, or of `text' cells of a string, before it is read.
FrameAt(c, base, depth, root, path, text) ==
    [cls |-> c, base |-> base, depth |-> depth, root |-> root, path |-> path,
     text |-> text, buf |-> <<>>, readable |-> FALSE, len |-> 0,
     children |-> <<>>]

IsText(f) == f.text # 0

Capped(n) == IF n < MaxClass THEN n ELSE MaxClass

\* The length a frame is read with.
ReadLength(f) ==
    LET n == IF IsText(f) THEN f.text ELSE SizeOf(f.cls)
    IN  Capped(n)

\* The frame with `cells' read from its start and zeros behind.
ReadTo(f, cells) ==
    [f EXCEPT !.buf = cells \o Zeros(ReadLength(f) - Len(cells)),
              !.readable = ReadLength(f) = 0 \/ cells # <<>>,
              !.len = Len(cells)]

ReadFully(f) == ReadTo(f, CellsAt(mem, f.base, ReadLength(f)))

Readable(f) == IsMapped(mem, f.base, ReadLength(f))

InWave(fi) == \E i \in DOMAIN wave : wave[i] = fi

\* A level with nothing to read in it costs no read.
NothingToRead == \A i \in DOMAIN wave : ReadLength(frames[wave[i]]) = 0

\* One batched read fills every frame of the wave, or none.
ReadScattered ==
    /\ phase = "scatter"
    /\ \A i \in DOMAIN wave : Readable(frames[wave[i]])
    /\ frames' = [fi \in DOMAIN frames |->
                    IF InWave(fi) THEN ReadFully(frames[fi]) ELSE frames[fi]]
    /\ levels' = IF NothingToRead THEN levels ELSE levels + 1
    /\ phase' = "discover"
    /\ UNCHANGED <<mem, seen, expand, wave, at, have, rows>>

ScatterFails ==
    /\ phase = "scatter"
    /\ \E i \in DOMAIN wave : ~Readable(frames[wave[i]])
    /\ levels' = levels + 1
    /\ phase' = "alone"
    /\ at' = 1
    /\ UNCHANGED <<mem, seen, expand, frames, wave, have, rows>>

Current == frames[wave[at]]

\* Frame `at' is done with, and the next one is read on its own.
Settle(f) ==
    /\ frames' = [frames EXCEPT ![wave[at]] = f]
    /\ at' = at + 1
    /\ have' = 0
    /\ phase' = IF at < Len(wave) THEN "alone" ELSE "discover"
    /\ UNCHANGED <<mem, seen, expand, wave, levels, rows>>

ReadAlone ==
    /\ phase = "alone"
    /\ Readable(Current)
    /\ Settle(ReadFully(Current))

\* The read of the whole frame fails: what is mapped of it is read from its
\* start.
AloneFails ==
    /\ phase = "alone"
    /\ ~Readable(Current)
    /\ phase' = "chunks"
    /\ UNCHANGED <<mem, seen, expand, frames, wave, at, have, levels, rows>>

\* read_partial has read n cells more.
Advance(n) ==
    LET cells == SubSeq(Current.buf, 1, have) \o CellsAt(mem, Current.base + have, n)
    IN  IF Len(cells) = ReadLength(Current)
        THEN Settle(ReadTo(Current, cells))
        ELSE /\ frames' = [frames EXCEPT ![wave[at]].buf = cells]
             /\ have' = have + n
             /\ UNCHANGED <<mem, seen, expand, wave, phase, at, levels, rows>>

NextChunk ==
    IF have + Chunk < ReadLength(Current) THEN Chunk ELSE ReadLength(Current) - have

ReadChunk ==
    /\ phase = "chunks"
    /\ IsMapped(mem, Current.base + have, NextChunk)
    /\ Advance(NextChunk)

\* Variant for a mutant run: the chunk that failed is tried again.
RetryChunk ==
    /\ phase = "chunks"
    /\ ~IsMapped(mem, Current.base + have, NextChunk)
    /\ UNCHANGED snapVars

NarrowToBytes ==
    /\ phase = "chunks"
    /\ ~IsMapped(mem, Current.base + have, NextChunk)
    /\ phase' = "bytes"
    /\ UNCHANGED <<mem, seen, expand, frames, wave, at, have, levels, rows>>

ReadByte ==
    /\ phase = "bytes"
    /\ IsMapped(mem, Current.base + have, 1)
    /\ Advance(1)

ReachEnd ==
    /\ phase = "bytes"
    /\ ~IsMapped(mem, Current.base + have, 1)
    /\ Settle(ReadTo(Current, SubSeq(Current.buf, 1, have)))

-----------------------------------------------------------------------------
(* Discovery: the frames a level leads to.                                 *)

\* Variant for a mutant run: the zeros behind what was read count as read.
HoldsPointerPadded(f, off) == off + PtrBytes <= Len(f.buf)

\* read_ptr_at: no pointer is made of cells that were not read.
HoldsPointer(f, off) == off + PtrBytes <= f.len

PointerAt(f, off) == PtrOf(SubSeq(f.buf, off + 1, off + PtrBytes))

\* A node or element within a frame.
Spot == [kind : Kinds, off : Nat, path : Paths]

NodeSpot(c, i, off, path) ==
    [kind |-> Nodes[c][i], off |-> off + Offsets[c][i], path |-> Append(path, i - 1)]

\* Variant for a mutant run: the elements of an array are looked for at the
\* size of a pointer.
ElemSpotOfPointers(s, e) ==
    [kind |-> s.kind.elem, off |-> s.off + (e - 1) * PtrBytes, path |-> Append(s.path, e - 1)]

ElemSpot(s, e) ==
    [kind |-> s.kind.elem, off |-> s.off + (e - 1) * KindSize[s.kind.elem],
     path |-> Append(s.path, e - 1)]

\* discover_class, when `found' is what is found at a spot.
InClass(found, c, off, path) ==
    Concat(Len(Nodes[c]), [i \in DOMAIN Nodes[c] |-> found[NodeSpot(c, i, off, path)]])

InArray(found, s) == Concat(Shown(s.kind), [e \in 1 .. Shown(s.kind) |-> found[ElemSpot(s, e)]])

\* discover_kind: the frames asked for, each with the path of its pointer.
Discovered(f, found, s) ==
    LET k == s.kind
        child(c, text) ==
            <<FrameAt(c, PointerAt(f, s.off), f.depth + 1, f.root, s.path, text)>>
    IN  CASE k.tag = "instance" /\ ~IsCollapsed(f.root, s.path) ->
               InClass(found, k.cls, s.off, s.path)
          [] k.tag = "array" /\ NeedsDiscovery[k.elem] /\ ~IsCollapsed(f.root, s.path) ->
               InArray(found, s)
          [] k.tag = "class_ptr" /\ IsExpanded(f.root, s.path) /\ HoldsPointer(f, s.off) ->
               child(k.cls, 0)
          [] k.tag = "text" /\ HoldsPointer(f, s.off) /\ PointerAt(f, s.off) # 0 /\ k.max > 0 ->
               child(f.cls, k.max)
          [] OTHER -> <<>>

Found(f) == LET found[s \in Spot] == Discovered(f, found, s) IN found

\* discover_frame
Specs(f) ==
    IF ~f.readable \/ IsText(f) THEN <<>> ELSE InClass(Found(f), f.cls, 0, f.path)

\* The specifications of a wave, each with the frame it comes from.
WaveSpecs ==
    Concat(Len(wave), [i \in DOMAIN wave |->
        LET s == Specs(frames[wave[i]])
        IN  [j \in DOMAIN s |-> [parent |-> wave[i], frame |-> s[j]]]])

\* The frame with those of its pointers followed that `specs' tell, which are
\* the frames behind the n there are.
WithChildren(fi, specs, n) ==
    LET mine == {j \in DOMAIN specs : specs[j].parent = fi}
        new  == [p \in {specs[j].frame.path : j \in mine} |->
                    n + (CHOOSE j \in mine : specs[j].frame.path = p)]
        old  == frames[fi].children
    IN  [frames[fi] EXCEPT !.children = IF mine = {} THEN old ELSE new]

Descend ==
    LET specs == WaveSpecs
        n     == Len(frames)
    IN  /\ phase = "discover"
        /\ specs # <<>>
        /\ frames' = [fi \in 1 .. n |-> WithChildren(fi, specs, n)]
                     \o [j \in DOMAIN specs |-> specs[j].frame]
        /\ wave' = [j \in DOMAIN specs |-> n + j]
        /\ phase' = "scatter"
        /\ at' = 0
        /\ UNCHANGED <<mem, seen, expand, have, levels, rows>>

-----------------------------------------------------------------------------
(* Rows.                                                                   *)

\* "???"
Unread == <<-1>>

\* Variant for a mutant run: a row is readable if its frame holds cells for it.
RowReadablePadded(f, off, size) == f.readable /\ off + size <= Len(f.buf)

RowReadable(f, off, size) == f.readable /\ off + size <= f.len

\* A node or element of a frame, with where its row goes.
Place == [fi : DOMAIN frames, kind : Kinds, off : Nat, local : Nat, depth : Nat, path : Paths]

NodePlace(fi, c, i, off, depth, path) ==
    [fi |-> fi, kind |-> Nodes[c][i], off |-> off + Offsets[c][i], local |-> Offsets[c][i],
     depth |-> depth, path |-> Append(path, i - 1)]

\* Rows of elements without a size are laid out a cell apart.
Stride(k) == IF KindSize[k] > 0 THEN KindSize[k] ELSE 1

ElemPlace(p, e) ==
    [p EXCEPT !.kind = p.kind.elem, !.off = @ + (e - 1) * Stride(p.kind.elem),
              !.local = (e - 1) * Stride(p.kind.elem), !.depth = @ + 1,
              !.path = Append(@, e - 1)]

RowOf(p) ==
    LET f        == frames[p.fi]
        size     == KindSize[p.kind]
        readable == RowReadable(f, p.off, size)
    IN  [path |-> p.path, root |-> f.root, depth |-> p.depth, offset |-> p.local,
         address |-> f.base + p.off, kind |-> p.kind, readable |-> readable,
         value |-> IF readable THEN SubSeq(f.buf, p.off + 1, p.off + size) ELSE Unread,
         text |-> <<>>]

\* "... n more", behind an array of which not all is shown.
More(row) ==
    LET shown == ArrayLimit * Stride(row.kind.elem)
    IN  [row EXCEPT !.depth = @ + 1, !.offset = shown, !.address = @ + shown,
                    !.kind = [tag |-> "more"], !.value = <<>>]

\* format_class, when `shown' is what is shown of a place.
ClassRows(shown, fi, c, off, depth, path) ==
    Concat(Len(Nodes[c]),
           [i \in DOMAIN Nodes[c] |-> shown[NodePlace(fi, c, i, off, depth, path)]])

ArrayRows(shown, p) ==
    Concat(Shown(p.kind), [e \in 1 .. Shown(p.kind) |-> shown[ElemPlace(p, e)]])
    \o IF p.kind.count > Shown(p.kind) THEN <<More(RowOf(p))>> ELSE <<>>

\* format_kind: the row of a node and those below it.
Formatted(shown, p) ==
    LET k        == p.kind
        f        == frames[p.fi]
        open     == ~IsCollapsed(f.root, p.path)
        followed == p.path \in DOMAIN f.children
        child    == frames[f.children[p.path]]
    IN  CASE k.tag = "instance" /\ open ->
               <<RowOf(p)>> \o ClassRows(shown, p.fi, k.cls, p.off, p.depth + 1, p.path)
          [] k.tag = "array" /\ open ->
               <<RowOf(p)>> \o ArrayRows(shown, p)
          [] k.tag = "class_ptr" /\ IsExpanded(f.root, p.path) /\ followed ->
               <<RowOf(p)>>
               \o ClassRows(shown, f.children[p.path], k.cls, 0, p.depth + 1, p.path)
          [] k.tag = "text" /\ followed ->
               <<[RowOf(p) EXCEPT !.text = SubSeq(child.buf, 1, child.len)]>>
          [] OTHER -> <<RowOf(p)>>

KindRows[p \in Place] == Formatted(KindRows, p)

Format ==
    /\ phase = "discover"
    /\ WaveSpecs = <<>>
    /\ rows' = Concat(Len(Roots),
                   [r \in DOMAIN Roots |-> ClassRows(KindRows, r, frames[r].cls, 0, 0, <<>>)])
    /\ phase' = "done"
    /\ UNCHANGED <<mem, seen, expand, frames, wave, at, have, levels>>

-----------------------------------------------------------------------------
SnapInit ==
    /\ mem \in Images
    /\ seen = <<mem>>
    /\ expand \in Expansions
    /\ frames = [r \in DOMAIN Roots |-> FrameAt(Roots[r].cls, Roots[r].base, 0, r, <<>>, 0)]
    /\ wave = [r \in DOMAIN Roots |-> r]
    /\ phase = "scatter"
    /\ at = 0
    /\ have = 0
    /\ levels = 0
    /\ rows = <<>>

\* The target writes, maps or unmaps.
TargetMoves ==
    /\ phase # "done"
    /\ Len(seen) <= MaxMoves
    /\ \E image \in Images \ {mem} :
         /\ mem' = image
         /\ seen' = Append(seen, image)
    /\ UNCHANGED <<expand, reading, rows>>

Engine ==
    \/ ReadScattered
    \/ ScatterFails
    \/ ReadAlone
    \/ AloneFails
    \/ ReadChunk
    \/ NarrowToBytes
    \/ ReadByte
    \/ ReachEnd
    \/ Descend
    \/ Format

SnapNext == TargetMoves \/ Engine

\* The snapshot is one call on the GUI thread: it goes on until it returns.
SnapSpec == SnapInit /\ [][SnapNext]_snapVars /\ WF_snapVars(Engine)

-----------------------------------------------------------------------------
\* Cells that were in the target while the snapshot was made.
WasThere(addr, cells) ==
    \A i \in DOMAIN cells : \E m \in DOMAIN seen :
        addr + i - 1 \in DOMAIN seen[m] /\ seen[m][addr + i - 1] = cells[i]

\* Row i is the first below row j.
Below(i, j) == i = j + 1 /\ rows[i].depth = rows[j].depth + 1

\* Nothing shown is made up, however the target moves and whatever of it is
\* unmapped: a value, and a string, are cells it held at that address during
\* the snapshot, never the zeros behind a partial read; and what is shown below
\* a pointer is what lies where the pointer's own row says that it points.
NothingMadeUp ==
    \A j \in DOMAIN rows :
        LET r == rows[j]
        IN  /\ r.readable => WasThere(r.address, r.value)
            /\ r.kind.tag = "text" /\ r.text # <<>> =>
                   r.readable /\ WasThere(PtrOf(r.value), r.text)
            /\ r.kind.tag = "class_ptr" => \A i \in DOMAIN rows : Below(i, j) =>
                   r.readable /\ rows[i].address = PtrOf(r.value) + rows[i].offset

\* What can be had of n cells from their start; of nothing nobody can say that
\* it is there.
Reach(image, base, n) ==
    IF n > 0 /\ base \notin DOMAIN image
    THEN -1
    ELSE CHOOSE p \in 0 .. n :
             IsMapped(image, base, p) /\ (p = n \/ base + p \notin DOMAIN image)

\* A node or element under a root, with `len' cells to be had at `base'.
View(image) ==
    {v \in [root : DOMAIN Roots, kind : Kinds, base : Nat, len : Int, off : Nat,
            local : Nat, depth : Nat, path : Paths] : IsMapped(image, v.base, v.len)}

\* What a class shows, when `direct' is what a node shows.
Within(direct, root, c, base, len, off, depth, path) ==
    Concat(Len(Nodes[c]), [i \in DOMAIN Nodes[c] |->
        direct[[root |-> root, kind |-> Nodes[c][i], base |-> base, len |-> len,
                off |-> off + Offsets[c][i], local |-> Offsets[c][i], depth |-> depth,
                path |-> Append(path, i - 1)]]])

Plainly(image, ex, direct, v) ==
    LET k    == v.kind
        ok   == v.off + KindSize[k] <= v.len
        here == CellsAt(image, v.base + v.off, KindSize[k])
        to   == PtrOf(here)
        row  == [path |-> v.path, root |-> v.root, depth |-> v.depth, offset |-> v.local,
                 address |-> v.base + v.off, kind |-> k, readable |-> ok,
                 value |-> IF ok THEN here ELSE Unread, text |-> <<>>]
        open == <<v.root, v.path>> \notin ex.collapsed
        elems ==
            Concat(Shown(k), [e \in 1 .. Shown(k) |->
                direct[[v EXCEPT !.kind = k.elem, !.off = @ + (e - 1) * Stride(k.elem),
                                 !.local = (e - 1) * Stride(k.elem), !.depth = @ + 1,
                                 !.path = Append(@, e - 1)]]])
            \o IF k.count > Shown(k) THEN <<More(row)>> ELSE <<>>
        Of(c, base, len, off) == Within(direct, v.root, c, base, len, off, v.depth + 1, v.path)
    IN  CASE k.tag = "instance" /\ open ->
               <<row>> \o Of(k.cls, v.base, v.len, v.off)
          [] k.tag = "array" /\ open ->
               <<row>> \o elems
          [] k.tag = "class_ptr" /\ ok /\ <<v.root, v.path>> \in ex.expanded ->
               <<row>> \o Of(k.cls, to, Reach(image, to, Capped(SizeOf(k.cls))), 0)
          [] k.tag = "text" /\ ok /\ to # 0 /\ to \in DOMAIN image ->
               <<[row EXCEPT !.text = CellsAt(image, to, Reach(image, to, Capped(k.max)))]>>
          [] OTHER -> <<row>>

Direct(image, ex) ==
    LET direct[v \in View(image)] == Plainly(image, ex, direct, v) IN direct

\* The rows of an image that can be read at will: no frames, no levels.
RowsOf(image, ex) ==
    Concat(Len(Roots), [r \in DOMAIN Roots |->
        LET c == Roots[r].cls
            b == Roots[r].base
        IN  Within(Direct(image, ex), r, c, b, Reach(image, b, Capped(SizeOf(c))), 0, 0, <<>>)])

\* A target that keeps still is shown as it is: the level-by-level reads, the
\* walk that finds pointers and the other walk that lays out rows agree on
\* every path and offset, so that the rows are those of the tree itself, with
\* what overruns a mapping cut off at the cell.
StillTargetExact == phase = "done" /\ Len(seen) = 1 => rows = RowsOf(mem, expand)

\* The rows show what was there: no more than that while the target moves, and
\* all of it when it keeps still.
RowsTrue == NothingMadeUp /\ StillTargetExact

\* A snapshot ends, also when the target's pointers lead in circles and its
\* memory comes and goes between the reads.
SnapshotEnds == <>(phase = "done")
=============================================================================
