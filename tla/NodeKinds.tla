----------------------------- MODULE NodeKinds -----------------------------
(***************************************************************************)
(* The kinds of nodes as files and generated code tell them apart, and     *)
(* their sizes in a registry, which is its pointer width and a sequence of *)
(* classes, whose places stand for the ids.  Kinds of fixed size that only *)
(* have another name each stand together as "scalar".                      *)
(***************************************************************************)
EXTENDS Integers, Sequences, SequencesExt

\* Kinds of nodes.
K(kind, n) == [kind |-> kind, n |-> n]
ScalarOf(n) == K("scalar", n)
BitsOf(n) == K("bits", n)
TextOf(unit, len) == [kind |-> "text", unit |-> unit, len |-> len]
PtrTextOf(unit, max) == [kind |-> "ptrtext", unit |-> unit, max |-> max]
EnumOf(n, variants) == [kind |-> "enum", n |-> n, variants |-> variants]
PointerKind == K("pointer", 0)
FunctionPtr == K("function", 0)
PtrTo(c) == K("classptr", c)
Inside(c) == K("instance", c)
ManyOf(e, count) == [kind |-> "array", element |-> e, count |-> count]
Raw(kind, n) == K(kind, n)   \* "padding" or "unknown"

-----------------------------------------------------------------------------
(* Sizes, in a registry.                                                   *)

\* fixed_size: nothing for the kinds that refer to a class or repeat.
FixedSize(k, ptr) ==
    CASE k.kind \in {"scalar", "bits", "enum", "padding", "unknown"} -> k.n
      [] k.kind = "text" -> k.unit * k.len
      [] k.kind \in {"pointer", "function", "classptr", "ptrtext"} -> ptr
      [] k.kind \in {"instance", "array"} -> 0

RECURSIVE SizeIn(_, _)

Total(sizes) == FoldLeft(LAMBDA n, s : n + s, 0, sizes)

SizeIn(reg, k) ==
    CASE k.kind = "instance" ->
            IF k.n \in DOMAIN reg.classes
            THEN Total([i \in DOMAIN reg.classes[k.n].nodes |->
                            SizeIn(reg, reg.classes[k.n].nodes[i].kind)])
            ELSE 0
      [] k.kind = "array" -> k.count * SizeIn(reg, k.element)
      [] OTHER -> FixedSize(k, reg.ptr)

SizesOf(reg, c) ==
    [i \in DOMAIN reg.classes[c].nodes |-> SizeIn(reg, reg.classes[c].nodes[i].kind)]
=============================================================================
