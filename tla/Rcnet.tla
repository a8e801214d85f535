------------------------------- MODULE Rcnet -------------------------------
(***************************************************************************)
(* ReClass.NET files: what becomes of a registry that is written to one,   *)
(* and of a file that is read.                                             *)
(*                                                                         *)
(* Ids are fresh after each import.  A file is a record of its platform,   *)
(* its enums and its class elements.  An element's type, count, length and *)
(* so on are fields of one record: NoAttr, or no reference, where it has   *)
(* none.                                                                   *)
(***************************************************************************)
EXTENDS NodeKinds

CONSTANTS NoAttr

-----------------------------------------------------------------------------
(* Export.                                                                 *)

Element(type) ==
    [type |-> type, reference |-> <<>>, bits |-> NoAttr, length |-> NoAttr, count |-> NoAttr,
     children |-> <<>>]

\* The enums at the top of the fields, each under a name of its own.
EnumFields(reg) ==
    {<<c, i>> \in (DOMAIN reg.classes) \X (1 .. 9) :
        i \in DOMAIN reg.classes[c].nodes /\ reg.classes[c].nodes[i].kind.kind = "enum"}

RECURSIVE ExportKind(_, _, _)

\* The element of a kind, and what is to be noted.
ExportKind(reg, k, place) ==
    CASE k.kind = "scalar" -> [el |-> Element(<<"scalar", k.n>>), notes |-> 0]
      [] k.kind = "bits" -> [el |-> [Element(<<"BitField">>) EXCEPT !.bits = 8 * k.n], notes |-> 0]
      [] k.kind = "enum" ->
            IF place \in EnumFields(reg)
            THEN [el |-> [Element(<<"Enum">>) EXCEPT !.reference = place], notes |-> 0]
            ELSE [el |-> Element(<<"scalar", k.n>>), notes |-> 1]
      [] k.kind = "text" ->
            [el |-> [Element(<<"Text", k.unit>>) EXCEPT !.length = k.len], notes |-> 0]
      [] k.kind = "ptrtext" -> [el |-> Element(<<"TextPtr", k.unit>>), notes |-> 0]
      [] k.kind = "pointer" -> [el |-> Element(<<"Pointer">>), notes |-> 0]
      [] k.kind = "function" -> [el |-> Element(<<"FunctionPtr">>), notes |-> 0]
      [] k.kind = "instance" ->
            [el |-> [Element(<<"ClassInstance">>) EXCEPT !.reference = <<k.n>>], notes |-> 0]
      [] k.kind = "classptr" ->
            [el |-> [Element(<<"ClassPtr">>) EXCEPT !.reference = <<k.n>>], notes |-> 0]
      [] k.kind = "array" ->
            \* Only what is not inside an array has an entry among the enums.
            LET inner == ExportKind(reg, k.element, place)
            IN  [el    |-> [Element(<<"Array">>) EXCEPT !.count = k.count,
                                                        !.children = <<inner.el>>],
                 notes |-> inner.notes]
      [] k.kind \in {"padding", "unknown"} ->
            [el    |-> [Element(<<"Array">>) EXCEPT !.count = k.n,
                                                    !.children = <<Element(<<"scalar", 1>>)>>],
             notes |-> 1]

\* Variant for a mutant run: raw blocks have no counterpart, and are left out.
ExportClassPlain(reg, c) ==
    LET kept == SelectSeq(reg.classes[c].nodes,
                          LAMBDA n : n.kind.kind \notin {"padding", "unknown"})
    IN  [uuid |-> <<c>>, nodes |-> [i \in DOMAIN kept |->
            [name |-> kept[i].name, out |-> ExportKind(reg, kept[i].kind, <<c, i>>)]]]

ExportClass(reg, c) ==
    LET nodes == reg.classes[c].nodes
    IN  [uuid |-> <<c>>, nodes |-> [i \in DOMAIN nodes |->
            [name |-> nodes[i].name, out |-> ExportKind(reg, nodes[i].kind, <<c, i>>)]]]

Export(reg) ==
    LET classes == [c \in DOMAIN reg.classes |-> ExportClass(reg, c)]
    IN  [file  |-> [platform |-> IF reg.ptr = 4 THEN "x86" ELSE "x64",
                    enums    |-> [p \in EnumFields(reg) |->
                                    LET k == reg.classes[p[1]].nodes[p[2]].kind
                                    IN  [n |-> k.n, variants |-> k.variants]],
                    classes  |-> [c \in DOMAIN classes |->
                                    [uuid  |-> classes[c].uuid,
                                     nodes |-> [i \in DOMAIN classes[c].nodes |->
                                        [name |-> classes[c].nodes[i].name,
                                         el   |-> classes[c].nodes[i].out.el]]]]],
         notes |-> Total([c \in DOMAIN classes |->
                        Total([i \in DOMAIN classes[c].nodes |-> classes[c].nodes[i].out.notes])])]

-----------------------------------------------------------------------------
(* Import.                                                                 *)

\* The elements that become classes: the first with each uuid.
Firsts(els) ==
    SelectSeq([i \in DOMAIN els |-> i],
              LAMBDA i : els[i].uuid = <<>> \/ \A j \in 1 .. i - 1 : els[j].uuid # els[i].uuid)

\* What a uuid refers to: of those without one the last.
IdsOf(els) ==
    LET kept == Firsts(els)
        uuid(c) == els[kept[c]].uuid
    IN  [u \in {uuid(c) : c \in DOMAIN kept} |->
            CHOOSE c \in DOMAIN kept : uuid(c) = u /\ \A d \in DOMAIN kept : uuid(d) = u => d <= c]

Nothing == [ok |-> FALSE, kind |-> ScalarOf(0), notes |-> 1]
Exactly(k) == [ok |-> TRUE, kind |-> k, notes |-> 0]
Roughly(k) == [ok |-> TRUE, kind |-> k, notes |-> 1]

\* The smallest width that holds the bits, in bytes.
WidthForBits(bits) == CHOOSE n \in {1, 2, 4, 8} :
    /\ bits <= 8 * n \/ n = 8
    /\ n = 1 \/ bits > 4 * n

Given(attr, default) == IF attr = NoAttr THEN default ELSE attr

\* A class that is referred to, wrapped; the field goes when it is not there.
Referring(el, ids, Wrap(_)) ==
    IF el.reference \in DOMAIN ids THEN Exactly(Wrap(ids[el.reference])) ELSE Nothing

RECURSIVE ImportKind(_, _, _, _)

\* Variant for a mutant run: a union is as long as its first member.
ImportUnionFirst(el, ids, enums, ptr) ==
    LET first == ImportKind(el.children[1], ids, enums, ptr)
    IN  [Roughly(Raw("unknown", FixedSize(first.kind, ptr))) EXCEPT !.notes = @ + first.notes]

ImportUnion(el, ids, enums, ptr) ==
    LET inner == [i \in DOMAIN el.children |-> ImportKind(el.children[i], ids, enums, ptr)]
        sizes == {0} \cup {FixedSize(inner[i].kind, ptr) : i \in {j \in DOMAIN inner : inner[j].ok}}
        size  == CHOOSE n \in sizes : \A m \in sizes : m <= n
    IN  [Roughly(Raw("unknown", size)) EXCEPT !.notes = @ + Total([i \in DOMAIN inner |-> inner[i].notes])]

ImportPointer(el, ids) ==
    CASE el.children = <<>> -> Exactly(PointerKind)
      [] el.children # <<>> /\ el.children[1].type = <<"ClassInstance">> ->
            Referring(el.children[1], ids, PtrTo)
      [] OTHER -> Roughly(PointerKind)

ImportArray(el, ids, enums, ptr) ==
    IF el.children = <<>> THEN [Nothing EXCEPT !.notes = 0]
    ELSE LET inner == ImportKind(el.children[1], ids, enums, ptr)
         IN  [inner EXCEPT !.kind = ManyOf(inner.kind, Given(el.count, 0))]

ImportKind(el, ids, enums, ptr) ==
    LET type == el.type[1]
    IN  CASE type = "scalar" -> Exactly(ScalarOf(el.type[2]))
          [] type = "NInt" -> Exactly(ScalarOf(ptr))
          [] type = "Matrix" -> Exactly(ManyOf(ScalarOf(el.type[2]), el.type[3]))
          [] type = "BitField" -> Exactly(BitsOf(WidthForBits(Given(el.bits, 32))))
          [] type = "Enum" ->
                IF el.reference \in DOMAIN enums
                THEN Exactly(EnumOf(enums[el.reference].n, enums[el.reference].variants))
                ELSE Roughly(ScalarOf(4))
          [] type = "Text" ->
                IF el.type[2] < 4 THEN Exactly(TextOf(el.type[2], Given(el.length, 0)))
                ELSE Roughly(Raw("unknown", 4 * Given(el.length, 0)))
          [] type = "TextPtr" ->
                IF el.type[2] < 4 THEN Exactly(PtrTextOf(el.type[2], 64)) ELSE Roughly(PointerKind)
          [] type = "FunctionPtr" -> Exactly(FunctionPtr)
          [] type = "ClassInstance" -> Referring(el, ids, Inside)
          [] type = "ClassPtr" -> Referring(el, ids, PtrTo)
          [] type = "ClassInstanceArray" ->
                Referring(el, ids, LAMBDA c : ManyOf(Inside(c), Given(el.count, 0)))
          [] type = "ClassPtrArray" ->
                Referring(el, ids, LAMBDA c : ManyOf(PtrTo(c), Given(el.count, 0)))
          [] type = "Pointer" -> ImportPointer(el, ids)
          [] type = "Array" -> ImportArray(el, ids, enums, ptr)
          [] type = "VirtualMethodTable" -> Roughly(ManyOf(FunctionPtr, Len(el.children)))
          [] type = "Union" -> ImportUnion(el, ids, enums, ptr)
          [] OTHER -> Nothing

ImportClass(cl, ids, enums, ptr) ==
    LET read == [i \in DOMAIN cl.nodes |->
            [name |-> cl.nodes[i].name, in |-> ImportKind(cl.nodes[i].el, ids, enums, ptr)]]
        kept == SelectSeq(read, LAMBDA n : n.in.ok)
    IN  [nodes |-> [i \in DOMAIN kept |-> [name |-> kept[i].name, kind |-> kept[i].in.kind]],
         notes |-> Total([i \in DOMAIN read |-> read[i].in.notes])]

Import(file) ==
    LET ptr  == IF file.platform = "x86" THEN 4 ELSE 8
        kept == Firsts(file.classes)
        read == [c \in DOMAIN kept |->
                    ImportClass(file.classes[kept[c]], IdsOf(file.classes), file.enums, ptr)]
    IN  [reg   |-> [ptr     |-> ptr,
                    classes |-> [c \in DOMAIN read |-> [nodes |-> read[c].nodes]]],
         notes |-> Total([c \in DOMAIN read |-> read[c].notes])
                   + Len(file.classes) - Len(kept)
                   + (IF file.platform \in {"", "x86", "x64"} THEN 0 ELSE 1)]
=============================================================================
