---------------------------- MODULE PointerScan ----------------------------
(***************************************************************************)
(* One pointer scan: the slots that hold pointers are recorded piece by    *)
(* piece from a target that runs on meanwhile, and then the walk goes back *)
(* from the address that is looked for to slots within modules.            *)
(*                                                                         *)
(* A region is a record of start, end (exclusive) and module, NoModule     *)
(* where no file is mapped.  A module is a file: of two files of one name, *)
(* which a path's text does not tell apart, nothing is said.               *)
(*                                                                         *)
(* ptr is the width of a pointer in cells.  The reverse map is kept the    *)
(* other way round, as what each slot holds: slots are recorded in         *)
(* ascending order, and so are those that hold one value.                  *)
(***************************************************************************)
EXTENDS Words, Sequences, FiniteSets

CONSTANTS Modules, NoModule,
          Images,      \* what the target's memory may be: cells by address
          Becomes(_),  \* what an image may become
          Scans,       \* what may be looked for: target, regions, ptr, and the image at first
          MaxMoves,    \* bound: changes of the target's memory
          CHUNK,       \* cells read at once
          MAX_SLOTS,   \* slots recorded
          MAX_OFFSET, MAX_HOPS, MAX_RESULTS   \* ScanConfig

RegionType == [start : Nat, end : Nat, module : Modules \cup {NoModule}]

\* readable_regions: none is empty, they do not overlap, and they are in order.
InOrder(regions) ==
    \A i \in DOMAIN regions :
        /\ regions[i].start < regions[i].end
        /\ \A j \in DOMAIN regions : i < j => regions[i].end <= regions[j].start

ASSUME ScanInputs ==
    /\ \A m \in Images : /\ DOMAIN m \subseteq Nat /\ \A a \in DOMAIN m : m[a] \in Nat
                         /\ Becomes(m) \subseteq Images
    /\ \A s \in Scans : /\ s.target \in Nat /\ s.ptr \in {1, 2} /\ s.image \in Images
                        /\ s.regions \in Seq(RegionType) /\ InOrder(s.regions)
    /\ CHUNK \in Nat \ {0} /\ MaxMoves \in Nat /\ MAX_SLOTS \in Nat
    /\ MAX_OFFSET \in Nat /\ MAX_HOPS \in Nat /\ MAX_RESULTS \in Nat
    /\ NoModule \notin Modules

VARIABLES
    scan,    \* what is looked for
    mem,     \* the target's memory
    was,     \* every image there was since the scan began
    stage,   \* "record", "walk", "visit" or "done"
    region,  \* the region that is read
    addr,    \* how far
    slots,   \* what each slot recorded holds
    queue,   \* addresses to reach, with the offsets from there
    seen,    \* addresses that were queued
    visit,   \* what is reached for
    tried,   \* what was found to hold a pointer there
    out      \* the paths

scanVars == <<scan, mem, was, stage, region, addr, slots, queue, seen, visit, tried, out>>

target == <<scan, mem, was>>
recording == <<region, addr, slots>>
walking == <<queue, seen, visit, tried, out>>

-----------------------------------------------------------------------------
Cells(r) == r.start .. r.end - 1

IsMapped(a) == \E i \in DOMAIN scan.regions : a \in Cells(scan.regions[i])

ModuleOf(a) ==
    IF IsMapped(a)
    THEN scan.regions[CHOOSE i \in DOMAIN scan.regions : a \in Cells(scan.regions[i])].module
    ELSE NoModule

\* Where a module starts: at the lowest of its regions.
BaseOf(module) ==
    LET its == {i \in DOMAIN scan.regions : scan.regions[i].module = module}
    IN  scan.regions[CHOOSE i \in its : \A j \in its : i <= j].start

Readable(image, a, size) == a .. a + size - 1 \subseteq DOMAIN image

PointerAt(image, a) == IF scan.ptr = 1 THEN image[a] ELSE WordAt(image, a)

ScanInit ==
    /\ \E s \in Scans : scan = s /\ mem = s.image /\ was = {s.image}
    /\ stage = IF scan.regions = <<>> \/ MAX_RESULTS = 0 THEN "done" ELSE "record"
    /\ region = 1
    /\ addr = IF scan.regions = <<>> THEN 0 ELSE scan.regions[1].start
    /\ slots = <<>>
    /\ queue = <<[addr |-> scan.target, tail |-> <<>>]>>
    /\ seen = {scan.target}
    /\ visit = [addr |-> scan.target, tail |-> <<>>]
    /\ tried = {}
    /\ out = <<>>

-----------------------------------------------------------------------------
(* build_reverse_map.                                                      *)

Full == Cardinality(DOMAIN slots) >= MAX_SLOTS

\* Where the piece that is read ends.
PieceEnd == IF scan.regions[region].end - addr < CHUNK
            THEN scan.regions[region].end ELSE addr + CHUNK

\* The slots of a piece that hold a pointer; none of one that cannot be read.
Recorded(first, end) ==
    {a \in first .. end - scan.ptr :
        /\ Readable(mem, first, end - first)
        /\ (a - first) % scan.ptr = 0
        /\ PointerAt(mem, a) # 0
        /\ IsMapped(PointerAt(mem, a))}

Record ==
    /\ stage = "record" /\ ~Full /\ addr < scan.regions[region].end
    /\ LET found == Recorded(addr, PieceEnd)
       IN  slots' = [a \in DOMAIN slots \cup found |->
                        IF a \in found THEN PointerAt(mem, a) ELSE slots[a]]
    /\ addr' = PieceEnd
    /\ UNCHANGED <<target, stage, region, walking>>

NextRegion ==
    /\ stage = "record" /\ addr = scan.regions[region].end /\ region < Len(scan.regions)
    /\ region' = region + 1
    /\ addr' = scan.regions[region + 1].start
    /\ UNCHANGED <<target, stage, slots, walking>>

BeginWalk ==
    /\ stage = "record"
    /\ Full \/ (addr = scan.regions[region].end /\ region = Len(scan.regions))
    /\ stage' = "walk"
    /\ UNCHANGED <<target, recording, walking>>

-----------------------------------------------------------------------------
(* walk_back.                                                              *)

\* The next address, unless its chain has no room for another hop.
Pop ==
    /\ stage = "walk" /\ queue # <<>> /\ Len(out) < MAX_RESULTS
    /\ queue' = Tail(queue)
    /\ IF Len(Head(queue).tail) >= MAX_HOPS THEN UNCHANGED <<stage, visit, tried>>
       ELSE stage' = "visit" /\ visit' = Head(queue) /\ tried' = {}
    /\ UNCHANGED <<target, recording, seen, out>>

\* How far the address is behind the one that a slot points to.
Offset(h) == visit.addr - slots[h]

Offsets == {off \in 0 .. MAX_OFFSET : off % scan.ptr = 0}

Untried == {h \in DOMAIN slots \ tried : Offset(h) \in Offsets}

Nearer(g, h) == Offset(g) < Offset(h) \/ (Offset(g) = Offset(h) /\ g < h)

\* Variant for a mutant run: an offset goes behind those nearer the target.
OffsetsBehind(h) == Append(visit.tail, Offset(h))

\* Offsets are found target-first.
OffsetsFrom(h) == <<Offset(h)>> \o visit.tail

\* One holder: a path when it is within a module, else to be visited, once.
Hop(h) ==
    /\ stage = "visit" /\ h \in Untried
    /\ \A g \in Untried \ {h} : Nearer(h, g)
    /\ tried' = tried \cup {h}
    /\ IF ModuleOf(h) # NoModule
       THEN /\ out' = Append(out, [module  |-> ModuleOf(h),
                                   base    |-> h - BaseOf(ModuleOf(h)),
                                   offsets |-> OffsetsFrom(h)])
            /\ stage' = IF Len(out) + 1 >= MAX_RESULTS THEN "done" ELSE stage
            /\ UNCHANGED <<seen, queue>>
       ELSE /\ seen' = seen \cup {h}
            /\ queue' = IF h \in seen THEN queue
                        ELSE Append(queue, [addr |-> h, tail |-> OffsetsFrom(h)])
            /\ UNCHANGED <<stage, out>>
    /\ UNCHANGED <<target, recording, visit>>

Leave ==
    /\ stage = "visit" /\ Untried = {}
    /\ stage' = "walk"
    /\ UNCHANGED <<target, recording, walking>>

Return ==
    /\ stage = "walk" /\ (queue = <<>> \/ Len(out) >= MAX_RESULTS)
    /\ stage' = "done"
    /\ UNCHANGED <<target, recording, walking>>

\* External: the target writes, maps or unmaps between two reads.
TargetMoves ==
    /\ stage = "record" /\ Cardinality(was) <= MaxMoves
    /\ \E image \in Becomes(mem) : mem' = image /\ was' = was \cup {image}
    /\ UNCHANGED <<scan, stage, recording, walking>>

ScanNext ==
    \/ Record \/ NextRegion \/ BeginWalk
    \/ Pop \/ (\E h \in DOMAIN slots : Hop(h)) \/ Leave \/ Return
    \/ TargetMoves

ScanSpec == ScanInit /\ [][ScanNext]_scanVars

-----------------------------------------------------------------------------
\* What slots that could be read have held.
Held(S) ==
    {PointerAt(p[1], p[2]) : p \in {p \in was \X S : Readable(p[1], p[2], scan.ptr)}}

\* Where a path leads, hop by hop, by what its slots have held.
Follow(path) ==
    LET at[k \in 0 .. Len(path.offsets)] ==
            IF k = 0 THEN {BaseOf(path.module) + path.base}
            ELSE {v + path.offsets[k] : v \in Held(at[k - 1])}
    IN  at[Len(path.offsets)]

\* The slots that lead to the target in so many hops, and through no module earlier.
Away ==
    LET at[n \in 0 .. MAX_HOPS] ==
            IF n = 0 THEN {scan.target}
            ELSE {h \in DOMAIN slots : \E a \in at[n - 1] :
                     (n = 1 \/ ModuleOf(a) = NoModule) /\ a - slots[h] \in Offsets}
    IN  at

Lengths ==
    LET away == Away
    IN  {n \in 1 .. MAX_HOPS : \E a \in away[n] : ModuleOf(a) # NoModule}

\* scan.rs: each path found leads to the target by what was read of it, and by
\* nothing else if the target kept still; each is found once, nearer ones first;
\* and if the slots have any, the first is as short as can be, although the walk
\* goes back and visits each address once.
PathsFound ==
    /\ \A i \in DOMAIN out :
           /\ scan.target \in Follow(out[i])
           /\ was = {mem} => Follow(out[i]) = {scan.target}
    /\ \A i, j \in DOMAIN out :
           i < j => out[i] # out[j] /\ Len(out[i].offsets) <= Len(out[j].offsets)
    /\ out # <<>> =>
           LET near == Len(out[1].offsets)
               all  == Lengths
           IN  near \in all /\ \A n \in all : near <= n
    /\ stage = "done" /\ out = <<>> => Lengths = {}
=============================================================================
