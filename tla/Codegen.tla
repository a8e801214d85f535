------------------------------ MODULE Codegen ------------------------------
(***************************************************************************)
(* The code that is generated for a registry: which structs, in which      *)
(* order, under which names, and with fields of which sizes.               *)
(*                                                                         *)
(* An identifier is the sequence of its parts, so that x_2 is x with a     *)
(* part of its own.  A user's name is an identifier and how it is spelt,   *)
(* which sanitize loses.                                                   *)
(***************************************************************************)
EXTENDS NodeKinds, TLC

CONSTANTS Keywords,  \* identifiers that are reserved
          NonRaw,    \* and those of them that Rust has no raw form of
          HOST       \* bytes of the host's pointers

Sanitize(name, fallback) == IF name.ident = <<>> THEN fallback ELSE name.ident

\* c_ident, rust_ident; a view's name is escaped by its suffix.
Escape(lang, ident) ==
    CASE ident \notin Keywords \/ lang = "View" -> ident
      [] lang = "Rust" /\ ident \notin NonRaw -> <<"r#">> \o ident
      [] OTHER -> Append(ident, "_")

Suffixed(base, n) == IF n = 1 THEN base ELSE Append(base, "_" \o ToString(n))

\* Variant for a mutant run: a second of the same name is told apart, a third not.
UniqueTwice(base, used) == IF base \in used THEN Suffixed(base, 2) ELSE base

\* unique
Unique(base, used) ==
    Suffixed(base, CHOOSE n \in 1 .. 9 : /\ Suffixed(base, n) \notin used
                                         /\ \A m \in 1 .. n - 1 : Suffixed(base, m) \in used)

\* Names given one after the other.
Claimed(bases) ==
    FoldLeft(LAMBDA names, base : Append(names, Unique(base, ToSet(names))), <<>>, bases)

ClassName(reg, c) ==
    IF c \in DOMAIN reg.classes
    THEN Sanitize(reg.classes[c].name, <<"Class", ToString(c)>>) ELSE <<"Class", ToString(c)>>

\* type_name_with
TypeName(reg, lang, c) ==
    LET names == Claimed([d \in DOMAIN reg.classes |-> Escape(lang, ClassName(reg, d))])
    IN  IF c \in DOMAIN names THEN names[c] ELSE Escape(lang, ClassName(reg, c))

\* rust_view_name
ViewName(reg, c) == Append(TypeName(reg, "View", c), "View")

\* Offsets of fields.
OffsetIn(reg, c, i) == Total(SubSeq(SizesOf(reg, c), 1, i - 1))

FieldIdent(reg, c, i) ==
    Sanitize(reg.classes[c].nodes[i].name, <<"field", ToString(OffsetIn(reg, c, i))>>)

FieldNames(reg, lang, c) ==
    Claimed([i \in DOMAIN reg.classes[c].nodes |-> Escape(lang, FieldIdent(reg, c, i))])

-----------------------------------------------------------------------------
(* The order of definitions.                                               *)

RECURSIVE InlineDeps(_)

InlineDeps(k) ==
    CASE k.kind = "instance" -> <<k.n>>
      [] k.kind = "array" -> InlineDeps(k.element)
      [] OTHER -> <<>>

RECURSIVE Visit(_, _, _, _)

Visit(reg, c, stack, order) ==
    LET nodes == reg.classes[c].nodes
        deps  == FlattenSeq([i \in DOMAIN nodes |-> InlineDeps(nodes[i].kind)])
        after == FoldLeft(LAMBDA o, d : Visit(reg, d, stack \cup {c}, o), order, deps)
    IN  CASE c \in ToSet(order) \cup stack -> order
          [] c \notin DOMAIN reg.classes -> Append(order, c)
          [] OTHER -> Append(after, c)

\* Variant for a mutant run: as they come.
IdOrder(reg) == [c \in DOMAIN reg.classes |-> c]

TopoOrder(reg) ==
    FoldLeft(LAMBDA o, c : Visit(reg, c, {}, o), <<>>, [c \in DOMAIN reg.classes |-> c])

-----------------------------------------------------------------------------
(* Types of fields.                                                        *)

Bytes(n) == [type |-> "bytes", n |-> n]

\* A pointer of another width than the host's is an integer.
PointerType(reg, to) ==
    IF reg.ptr = HOST THEN [type |-> "pointer", to |-> to] ELSE Bytes(reg.ptr)

RECURSIVE FieldType(_, _, _)

FieldType(reg, lang, k) ==
    CASE k.kind = "array" ->
            [type |-> "many", of |-> FieldType(reg, lang, k.element), count |-> k.count]
      [] k.kind = "instance" -> [type |-> "struct", name |-> TypeName(reg, lang, k.n)]
      [] k.kind = "classptr" -> PointerType(reg, TypeName(reg, lang, k.n))
      [] k.kind \in {"pointer", "function", "ptrtext"} -> PointerType(reg, <<>>)
      [] OTHER -> Bytes(FixedSize(k, reg.ptr))

Struct(reg, lang, c) ==
    LET names == FieldNames(reg, lang, c)
        nodes == reg.classes[c].nodes
    IN  [name |-> TypeName(reg, lang, c),
         fields |-> [i \in DOMAIN nodes |-> [name |-> names[i],
                                             type |-> FieldType(reg, lang, nodes[i].kind)]]]

-----------------------------------------------------------------------------
(* The accessors of a generated project: methods that read or write so     *)
(* many bytes at an offset, and have so many in hand, of a value of the    *)
(* host; and those that lead to another view.                              *)

Method(name, off, width, host) ==
    [name |-> name, off |-> off, width |-> width, host |-> host, to |-> <<>>]
ViewMethod(name, off, view) == [Method(name, off, 0, 0) EXCEPT !.to = view]

\* A getter reads into a buffer as long as the field, a setter writes one.
GetSet(field, off, width, host) ==
    <<Method(Escape("Rust", field), off, width, host),
      Method(Escape("Rust", <<"set_">> \o field), off, width, host)>>

\* emit_scalar: the setter has no buffer, and writes the value as it is.
GetSetScalar(field, off, width, host) ==
    <<Method(Escape("Rust", field), off, width, host),
      Method(Escape("Rust", <<"set_">> \o field), off, host, host)>>

\* scalar_prim: the bytes that are read, and those of the type on the host.
Primitive(reg, k) ==
    CASE k.kind \in {"scalar", "bits", "enum"} -> <<k.n, k.n>>
      [] k.kind \in {"pointer", "function", "ptrtext"} -> <<reg.ptr, HOST>>
      [] OTHER -> <<>>

\* emit_accessor
Accessor(reg, field, off, size, k) ==
    CASE k.kind = "instance" ->
            IF k.n \in DOMAIN reg.classes
            THEN <<ViewMethod(Escape("Rust", field), off, ViewName(reg, k.n))>> ELSE <<>>
      [] k.kind = "classptr" ->
            GetSetScalar(Append(field, "_ptr"), off, reg.ptr, HOST) \o
            (IF k.n \in DOMAIN reg.classes
             THEN <<ViewMethod(Escape("Rust", field), off, ViewName(reg, k.n))>> ELSE <<>>)
      [] k.kind = "padding" -> <<>>
      [] k.kind = "array" /\ Primitive(reg, k.element) # <<>> ->
            LET p == Primitive(reg, k.element)
            IN  GetSet(field, off, k.count * p[1], k.count * p[2])
      [] k.kind \in {"text", "unknown"} \/ k.kind = "array" -> GetSet(field, off, size, size)
      [] OTHER -> LET p == Primitive(reg, k) IN GetSetScalar(field, off, p[1], p[2])

\* emit_view: a field is as long as it is to the next one.
View(reg, c) ==
    LET nodes == reg.classes[c].nodes
        end   == OffsetIn(reg, c, Len(nodes) + 1)
        off(i) == OffsetIn(reg, c, i)
    IN  [name    |-> ViewName(reg, c),
         size    |-> end,
         methods |-> [i \in DOMAIN nodes |->
            Accessor(reg, FieldIdent(reg, c, i), off(i),
                     (IF i = Len(nodes) THEN end ELSE off(i + 1)) - off(i), nodes[i].kind)]]

\* c::generate, rust::generate and, with its views, generate_bindings: what is
\* declared ahead, and the structs in their order.
Generate(reg, lang) ==
    LET order == SelectSeq(TopoOrder(reg), LAMBDA c : c \in DOMAIN reg.classes)
    IN  IF lang = "C"
        THEN [ahead   |-> {TypeName(reg, lang, c) : c \in DOMAIN reg.classes},
              structs |-> [i \in DOMAIN order |-> Struct(reg, lang, order[i])],
              class   |-> order,
              views   |-> <<>>]
        ELSE [ahead   |-> {TypeName(reg, lang, c) : c \in DOMAIN reg.classes},
              structs |-> [c \in DOMAIN reg.classes |-> Struct(reg, lang, c)],
              class   |-> [c \in DOMAIN reg.classes |-> c],
              views   |-> [c \in DOMAIN reg.classes |-> View(reg, c)]]

-----------------------------------------------------------------------------
(* What a compiler makes of it.                                            *)

RECURSIVE Compiled(_, _), HeldTypes(_), PointeeTypes(_)

\* The bytes of a type, where the structs so far are these.
Compiled(structs, t) ==
    CASE t.type = "bytes" -> t.n
      [] t.type = "pointer" -> HOST
      [] t.type = "many" -> t.count * Compiled(structs, t.of)
      [] t.type = "struct" ->
            LET s == structs[CHOOSE i \in DOMAIN structs : structs[i].name = t.name]
            IN  Total([i \in DOMAIN s.fields |-> Compiled(structs, s.fields[i].type)])

\* The structs a type holds, and those it only points at.
HeldTypes(t) == CASE t.type = "struct" -> {t.name} [] t.type = "many" -> HeldTypes(t.of) [] OTHER -> {}

PointeeTypes(t) ==
    CASE t.type = "pointer" -> {t.to} \ {<<>>} [] t.type = "many" -> PointeeTypes(t.of) [] OTHER -> {}

Distinct(names) == \A i, j \in DOMAIN names : names[i] = names[j] => i = j
=============================================================================
