------------------------------ MODULE AddrExpr ------------------------------
(***************************************************************************)
(* The address bar: from tokens to a tree, and from the tree to an         *)
(* address.  Text is its tokens; blanks do not count.                      *)
(***************************************************************************)
EXTENDS Words, SequencesExt

CONSTANT MAX_DEPTH  \* Parser::MAX_DEPTH

Sign(c) == [t |-> c, v |-> 0]
Number(n) == [t |-> "number", v |-> n]
Module(m) == [t |-> "module", v |-> m]

Num(n) == [op |-> "num", value |-> n]
ModuleBase(m) == [op |-> "module", name |-> m]
Deref(e) == [op |-> "deref", of |-> e]
Bin(by, l, r) == [op |-> by, left |-> l, right |-> r]

-----------------------------------------------------------------------------
(* Parsing.                                                                *)

Failed == [ok |-> FALSE, pos |-> 0, ast |-> Num(0)]
Parsed(ast, pos) == [ok |-> TRUE, pos |-> pos, ast |-> ast]

Peek(s, i) == IF i <= Len(s) THEN s[i].t ELSE "end"

RECURSIVE Expr(_, _, _), ExprRest(_, _, _), Term(_, _, _), TermRest(_, _, _)

\* What stands within brackets, and the tree it makes.
Closed(s, inner, bracket, ast) ==
    IF inner.ok /\ Peek(s, inner.pos) = bracket THEN Parsed(ast, inner.pos + 1) ELSE Failed

Unary(s, i, depth) ==
    CASE Peek(s, i) = "[" ->
            LET inner == Expr(s, i + 1, depth) IN Closed(s, inner, "]", Deref(inner.ast))
      [] Peek(s, i) = "(" ->
            LET inner == Expr(s, i + 1, depth) IN Closed(s, inner, ")", inner.ast)
      [] Peek(s, i) = "module" -> Parsed(ModuleBase(s[i].v), i + 1)
      [] Peek(s, i) = "number" /\ s[i].v < WordValues -> Parsed(Num(s[i].v), i + 1)
      [] OTHER -> Failed

Joined(s, left, right) ==
    IF right.ok THEN Parsed(Bin(Peek(s, left.pos), left.ast, right.ast), right.pos) ELSE Failed

TermRest(s, left, depth) ==
    IF left.ok /\ Peek(s, left.pos) \in {"*", "/"}
    THEN TermRest(s, Joined(s, left, Unary(s, left.pos + 1, depth)), depth)
    ELSE left

Term(s, i, depth) == TermRest(s, Unary(s, i, depth), depth)

\* Variant for a mutant run: operators of one precedence group to the right.
ExprRestRight(s, left, depth) ==
    IF left.ok /\ Peek(s, left.pos) \in {"+", "-"}
    THEN Joined(s, left, ExprRest(s, Term(s, left.pos + 1, depth), depth))
    ELSE left

ExprRest(s, left, depth) ==
    IF left.ok /\ Peek(s, left.pos) \in {"+", "-"}
    THEN ExprRest(s, Joined(s, left, Term(s, left.pos + 1, depth)), depth)
    ELSE left

Expr(s, i, depth) ==
    IF depth = MAX_DEPTH THEN Failed ELSE ExprRest(s, Term(s, i, depth + 1), depth + 1)

Parse(s) ==
    LET e == Expr(s, 1, 0) IN IF e.ok /\ e.pos = Len(s) + 1 THEN e ELSE Failed

-----------------------------------------------------------------------------
(* Evaluation.  mem holds the cells that are mapped, bases the modules.    *)

Fault == [ok |-> FALSE, value |-> 0]
Result(n) == [ok |-> TRUE, value |-> n]

RECURSIVE Eval(_, _, _)

Eval(e, mem, bases) ==
    CASE e.op = "num" -> Result(e.value)
      [] e.op = "module" -> IF e.name \in DOMAIN bases THEN Result(bases[e.name]) ELSE Fault
      [] e.op = "deref" ->
            LET a == Eval(e.of, mem, bases)
            IN  IF a.ok /\ {a.value, a.value + 1} \subseteq DOMAIN mem
                THEN Result(WordAt(mem, a.value)) ELSE Fault
      [] OTHER ->
            LET l == Eval(e.left, mem, bases)
                r == Eval(e.right, mem, bases)
            IN  IF ~l.ok \/ ~r.ok \/ (e.op = "/" /\ r.value = 0) THEN Fault
                ELSE CASE e.op = "+" -> Result((l.value + r.value) % WordValues)
                       [] e.op = "-" -> Result((l.value - r.value) % WordValues)
                       [] e.op = "*" -> Result((l.value * r.value) % WordValues)
                       [] e.op = "/" -> Result(l.value \div r.value)

-----------------------------------------------------------------------------
(* The path of a pointer scan as a text.                                   *)

Plus(s, n) == s \o <<Sign("+"), Number(n)>>

Bracketed(s) == <<Sign("[")>> \o s \o <<Sign("]")>>

\* Variant for a mutant run: the last hop is read through as well.
ToExprRead(path) ==
    FoldLeft(LAMBDA s, off : Bracketed(Plus(s, off)),
             Bracketed(Plus(<<Module(path.module)>>, path.base)), path.offsets)

\* PointerPath::to_expr
ToExpr(path) ==
    LET root == Bracketed(Plus(<<Module(path.module)>>, path.base))
        last == path.offsets[Len(path.offsets)]
        hops == FoldLeft(LAMBDA s, off : Bracketed(Plus(s, off)), root, Front(path.offsets))
    IN  CASE path.offsets = <<>> -> root
          [] last = 0 -> hops
          [] OTHER -> Plus(hops, last)

-----------------------------------------------------------------------------
(* The grammar of the module's documentation, as what it derives.          *)

RECURSIVE Exprs(_), Terms(_)

Part(s, i, j) == SubSeq(s, i, j)

Unaries(s) ==
    LET n     == Len(s)
        inner == IF n > 2 THEN Exprs(Part(s, 2, n - 1)) ELSE {}
    IN  CASE n = 1 /\ s[1].t = "module" -> {ModuleBase(s[1].v)}
          [] n = 1 /\ s[1].t = "number" /\ s[1].v < WordValues -> {Num(s[1].v)}
          [] n > 2 /\ s[1].t = "[" /\ s[n].t = "]" -> {Deref(e) : e \in inner}
          [] n > 2 /\ s[1].t = "(" /\ s[n].t = ")" -> inner
          [] OTHER -> {}

\* The places of some operators.
At(s, ops) == {i \in 2 .. Len(s) - 1 : s[i].t \in ops}

Terms(s) ==
    Unaries(s) \cup
    UNION {{Bin(s[i].t, l, r) : l \in Terms(Part(s, 1, i - 1)),
                                r \in Unaries(Part(s, i + 1, Len(s)))} : i \in At(s, {"*", "/"})}

Exprs(s) ==
    Terms(s) \cup
    UNION {{Bin(s[i].t, l, r) : l \in Exprs(Part(s, 1, i - 1)),
                                r \in Terms(Part(s, i + 1, Len(s)))} : i \in At(s, {"+", "-"})}

\* How deep the brackets are.
Nesting(s) ==
    LET open[i \in 0 .. Len(s)] ==
            IF i = 0 THEN 0
            ELSE open[i - 1] + (IF s[i].t \in {"(", "["} THEN 1 ELSE 0)
                             - (IF s[i].t \in {")", "]"} THEN 1 ELSE 0)
    IN  CHOOSE n \in 0 .. Len(s) : /\ \A i \in 0 .. Len(s) : open[i] <= n
                                   /\ \E i \in 0 .. Len(s) : open[i] = n
=============================================================================
