---------------------------- MODULE MCAlgorithms ----------------------------
(***************************************************************************)
(* The pure algorithms against what they are for: each initial state is a  *)
(* task of one of them, each step the answer.                              *)
(***************************************************************************)
EXTENDS AddrExpr, PointerScan, NodeValue, Rcnet, Codegen

CONSTANT Exe   \* the module

VARIABLES task, answer

vars == <<task, answer>>

UpTo(S, n) == UNION {[1 .. k -> S] : k \in 0 .. n}

-----------------------------------------------------------------------------
(* Texts of up to five tokens, and of nine that may nest too deep.         *)

Tokens == {Sign(c) : c \in {"(", ")", "[", "]", "+", "*"}}
          \cup {Number(1), Number(WordValues), Module(Exe)}

Nested == {Sign("["), Sign("]"), Number(1)}

ParseTask ==
    \E s \in UpTo(Tokens, 5) \cup [1 .. 9 -> Nested] : task = [what |-> "parse", text |-> s]

(* A module and a heap, of a 32-bit target and of a 64-bit one; in the     *)
(* second a cell of the heap may be unreadable.  While it is scanned a     *)
(* slot of the module is cleared, and the heap gets another pointer or     *)
(* loses its last cell.                                                    *)

Region(start, end, module) == [start |-> start, end |-> end, module |-> module]

Narrow == <<Region(2, 4, Exe), Region(5, 9, NoModule)>>
Wide == <<Region(2, 4, Exe), Region(4, 10, NoModule)>>

NarrowImages == {m \in [{2, 3, 5, 6, 7, 8} -> {0, 3, 5, 6, 7}] : m[8] = 5 /\ m[2] # 3}

WideImages ==
    {[a \in (2 .. 9) \ gone |-> IF a % 2 = 0 THEN word[a] ELSE 0] :
        word \in [{2, 4, 6, 8} -> {0, 2, 4, 5, 6, 7, 8}], gone \in {{}, {9}}}

MCModules == {Exe}

MCImages == NarrowImages \cup WideImages

MCBecomes(image) ==
    {[image EXCEPT ![2] = 0]}
    \cup IF image \in NarrowImages THEN {[image EXCEPT ![5] = 7]}
         ELSE {[a \in DOMAIN image \ {9} |-> image[a]]}

MCScans ==
    {[target |-> 7, regions |-> Narrow, ptr |-> 1, image |-> m] : m \in NarrowImages}
    \cup {[target |-> 8, regions |-> Wide, ptr |-> 2, image |-> m] : m \in WideImages}

(* Nodes of one and two bytes, their bytes, and numbers that are typed.    *)

Variants == <<[name |-> "Off", value |-> 0], [name |-> "On", value |-> 1],
              [name |-> "Bad", value |-> -3]>>

MCNodes ==
    {[kind |-> k, size |-> n] :
        k \in {"hex", "uint", "int", "bits", "text", "pointer", "classptr"}, n \in 1 .. LONG}
    \cup {[kind |-> "bool", size |-> 1], [kind |-> "enum", size |-> 1, variants |-> Variants]}

MCNumbers == -20 .. 20 \cup -130 .. -126 \cup 126 .. 130 \cup 254 .. 258

-----------------------------------------------------------------------------
(* Registries: of two classes whose fields have all kinds, and of three    *)
(* whose names collide.                                                    *)

Field(k) == [name |-> "f", kind |-> k]

LeafKinds == {ScalarOf(1), ScalarOf(8), BitsOf(2), TextOf(2, 3), PtrTextOf(1, 64),
              PtrTextOf(1, 32), EnumOf(2, <<"On">>), PointerKind, FunctionPtr, PtrTo(1), PtrTo(2),
              Raw("padding", 3), Raw("unknown", 5), ManyOf(ScalarOf(2), 3),
              ManyOf(EnumOf(1, <<"On">>), 2), ManyOf(PtrTo(2), 2), ManyOf(PtrTextOf(1, 32), 2)}

OuterKinds == LeafKinds \cup {Inside(2), ManyOf(Inside(2), 2), ManyOf(ManyOf(Inside(2), 2), 1)}

ExportTask ==
    \E ptr \in {4, 8}, outer \in UpTo(OuterKinds, 2), inner \in UpTo(LeafKinds, 1) :
        task = [what |-> "export",
                reg  |-> [ptr |-> ptr, classes |-> <<
                    [nodes |-> [i \in DOMAIN outer |-> Field(outer[i])]],
                    [nodes |-> [i \in DOMAIN inner |-> Field(inner[i])]]>>]]

MCNoAttr == -1

MCKeywords == {<<"self">>, <<"fn">>}
MCNonRaw == {<<"self">>}

(* Files with what ReClass.NET has besides: two classes, perhaps of one     *)
(* uuid or without, and references that lead nowhere.                      *)

Refers(type, to) == [Element(<<type>>) EXCEPT !.reference = to]
Holding(type, children) == [Element(<<type>>) EXCEPT !.children = children]
Counted(el, n) == [el EXCEPT !.count = n]

LeafElements ==
    {Element(<<"scalar", 4>>), Element(<<"NInt">>), Element(<<"Matrix", 12, 3>>),
     [Element(<<"BitField">>) EXCEPT !.bits = 16], Refers("Enum", <<"e">>), Refers("Enum", <<"x">>),
     [Element(<<"Text", 2>>) EXCEPT !.length = 3], [Element(<<"Text", 4>>) EXCEPT !.length = 3],
     Element(<<"TextPtr", 1>>), Element(<<"TextPtr", 4>>), Element(<<"FunctionPtr">>),
     Element(<<"Pointer">>), Holding("Pointer", <<Element(<<"scalar", 4>>)>>)}

Unheard == Element(<<"Unheard">>)
NoArray == Holding("Array", <<>>)
Shorts == Counted(Holding("Array", <<Element(<<"scalar", 2>>)>>), 3)

Unions ==
    {Holding("Union", <<Element(<<"scalar", 4>>), [Element(<<"Text", 2>>) EXCEPT !.length = 3]>>),
     Holding("Union", <<Element(<<"Pointer">>), Unheard>>),
     Holding("Union", <<Element(<<"scalar", 4>>), Shorts>>),
     Holding("Union", <<Refers("ClassInstance", <<2>>), NoArray>>)}

Elements ==
    LeafElements \cup Unions \cup
    {Refers("ClassPtr", <<2>>), Refers("ClassPtr", <<9>>), Refers("ClassInstance", <<2>>),
     Holding("Pointer", <<Refers("ClassInstance", <<1>>)>>),
     Counted(Refers("ClassPtrArray", <<1>>), 2), Counted(Refers("ClassInstanceArray", <<2>>), 2),
     Shorts, NoArray, Holding("Array", <<NoArray>>), Holding("Array", <<Unheard>>), Unheard,
     Holding("VirtualMethodTable", <<Element(<<"method">>), Element(<<"method">>)>>)}

ImportTask ==
    \E platform \in {"x86", "x64", "other"}, u, v \in {<<>>, <<1>>, <<2>>},
       els \in UpTo(Elements, 2), e \in {Element(<<"scalar", 8>>), Element(<<"Pointer">>)} :
        task = [what |-> "import",
                file |-> [platform |-> platform,
                          enums    |-> [x \in {<<"e">>} |-> [n |-> 2, variants |-> <<"On">>]],
                          classes  |-> <<
                    [uuid |-> u, nodes |-> [i \in DOMAIN els |-> [name |-> i, el |-> els[i]]]],
                    [uuid |-> v, nodes |-> <<[name |-> 1, el |-> e]>>]>>]]

Called(ident, spelt) == [ident |-> ident, spelt |-> spelt]

CodeNames == {Called(<<"a">>, "a"), Called(<<"a">>, "a!"), Called(<<"a", "_2">>, "a_2"),
              Called(<<"a", "View">>, "aView"),
              Called(<<>>, ""), Called(<<"self">>, "self"), Called(<<"fn">>, "fn")}

CodeKinds == {ScalarOf(4), PtrTo(3), PointerKind, Inside(1), Inside(2), Inside(3),
              ManyOf(Inside(2), 2), ManyOf(PtrTo(1), 3), ManyOf(PointerKind, 2),
              Raw("unknown", 5)}

Deps(k) == ToSet(InlineDeps(k))

CodeTask ==
    \E ptr \in {4, 8}, lang \in {"Rust", "C"}, names \in [1 .. 3 -> CodeNames],
       kinds \in [1 .. 3 -> CodeKinds] :
        \* What the editor never lets happen: a class within itself.
        /\ \A c \in 1 .. 3 : c \notin Deps(kinds[c])
        /\ \A c, d \in 1 .. 3 : c \in Deps(kinds[d]) => d \notin Deps(kinds[c])
        /\ \A p \in {<<1, 2, 3>>, <<1, 3, 2>>} :
               ~(p[2] \in Deps(kinds[p[1]]) /\ p[3] \in Deps(kinds[p[2]]) /\ p[1] \in Deps(kinds[p[3]]))
        /\ names[1] = Called(<<"a">>, "a") \/ kinds[1] = ScalarOf(4)
        /\ task = [what |-> "code", lang |-> lang,
                   reg  |-> [ptr |-> ptr, classes |->
                       [c \in 1 .. 3 |-> [name  |-> names[c],
                                          nodes |-> <<[name |-> names[c], kind |-> kinds[c]],
                                                      [name |-> names[1], kind |-> ScalarOf(1)],
                                                      [name |-> names[2], kind |-> PtrTo(2)]>>]]]]

-----------------------------------------------------------------------------
\* Nothing is mapped: where a scan is not what is asked for.
NoScan ==
    /\ scan = [target |-> 0, regions |-> <<>>, ptr |-> 1, image |-> <<>>]
    /\ mem = scan.image /\ was = {mem} /\ stage = "done" /\ region = 1 /\ addr = 0 /\ slots = <<>>
    /\ visit = [addr |-> scan.target, tail |-> <<>>] /\ queue = <<visit>> /\ seen = {scan.target}
    /\ tried = {} /\ out = <<>>

\* No cell is open.
NoCell == /\ cell = [node |-> [kind |-> "hex", size |-> 1], bytes |-> <<0>>]
          /\ typed = <<>> /\ written = <<Refused>>

Init == /\ answer = <<>>
        /\ \/ NoScan /\ NoCell /\ (ParseTask \/ ExportTask \/ ImportTask \/ CodeTask)
           \/ ScanInit /\ NoCell /\ task = [what |-> "scan"]
           \/ CellInit /\ NoScan /\ task = [what |-> "cell"]

Solve(what, result) == task.what = what /\ answer' = <<result>> /\ UNCHANGED task

Solves ==
    \/ Solve("parse", Parse(task.text))
    \/ Solve("export", Import(Export(task.reg).file))
    \/ Solve("import", Import(task.file))
    \/ Solve("code", Generate(task.reg, task.lang))

Next == \/ answer = <<>> /\ Solves /\ UNCHANGED <<scanVars, cellVars>>
        \/ ScanNext /\ UNCHANGED <<vars, cellVars>>
        \/ Commit /\ UNCHANGED <<vars, scanVars>>

MCSpec == Init /\ [][Next]_<<vars, scanVars, cellVars>>

Answered(what) == answer # <<>> /\ task.what = what

-----------------------------------------------------------------------------
(* Properties.                                                             *)

\* expr.rs: the parser takes a text just when the grammar of the module's
\* documentation derives it and its brackets are not too deep, and makes the
\* only tree that the grammar gives it: no text has two meanings.
ParsesTheGrammar ==
    Answered("parse") =>
        LET trees == Exprs(task.text)
        IN  /\ answer[1].ok <=> trees # {} /\ Nesting(task.text) < MAX_DEPTH
            /\ answer[1].ok => trees = {answer[1].ast}

Opened(path) == Eval(Parse(ToExpr(path)).ast, mem, [m \in Modules |-> BaseOf(m)])

\* scan.rs:72-76: a path's text is an expression that the address bar takes and
\* that comes to the target, for a 64-bit target that keeps still.
PathsOpen ==
    \A i \in DOMAIN out :
        /\ Parse(ToExpr(out[i])).ok
        /\ scan.ptr = 2 /\ was = {mem} => Opened(out[i]) = Result(scan.target)

\* What is typed into the address bar, or pasted from a scan, is read as it is
\* meant.
AddressesRead == ParsesTheGrammar /\ PathsOpen

\* The same for a 32-bit target, where it does not hold.
PathsOpenNarrow ==
    scan.ptr = 1 /\ was = {mem} =>
        \A i \in DOMAIN out : Opened(out[i]) = Result(scan.target)

RECURSIVE BackAs(_), Unsaid(_)

\* What a kind is when it comes back from a file.
BackAs(k) ==
    CASE k.kind = "ptrtext" -> PtrTextOf(k.unit, 64)
      [] k.kind \in {"padding", "unknown"} -> ManyOf(ScalarOf(1), k.n)
      [] k.kind = "array" /\ k.element.kind = "enum" -> ManyOf(ScalarOf(k.element.n), k.count)
      [] k.kind = "array" /\ k.element.kind # "enum" -> ManyOf(BackAs(k.element), k.count)
      [] OTHER -> k

\* Of these nothing is noted: the length of the text pointed at is lost.
Unsaid(k) == k.kind = "ptrtext" \/ (k.kind = "array" /\ Unsaid(k.element))

Altered(reg) ==
    {<<c, i>> \in (DOMAIN reg.classes) \X (1 .. 2) :
        /\ i \in DOMAIN reg.classes[c].nodes
        /\ BackAs(reg.classes[c].nodes[i].kind) # reg.classes[c].nodes[i].kind}

\* rcnet/mod.rs: what is exported and imported again has the layout it had,
\* field by field, also where there is no counterpart; a field comes back with
\* its own kind or, where the format has none, with one that reads the same
\* bytes; and there is one note for each that is altered, but for the lengths
\* of texts pointed at, which are lost without one.
RcnetKeepsLayout ==
    Answered("export") =>
        LET old == task.reg
            new == answer[1].reg
            kind(p) == old.classes[p[1]].nodes[p[2]].kind
        IN  /\ new.ptr = old.ptr
            /\ DOMAIN new.classes = DOMAIN old.classes
            /\ \A c \in DOMAIN old.classes :
                   /\ SizesOf(new, c) = SizesOf(old, c)
                   /\ \A i \in DOMAIN old.classes[c].nodes :
                          new.classes[c].nodes[i].kind = BackAs(old.classes[c].nodes[i].kind)
            /\ Export(old).notes + answer[1].notes
                   = Cardinality({p \in Altered(old) : ~Unsaid(kind(p))})

RECURSIVE RefersTo(_), Void(_), Lost(_, _), Noted(_, _), Space(_, _)

RefersTo(k) ==
    CASE k.kind \in {"instance", "classptr"} -> {k.n}
      [] k.kind = "array" -> RefersTo(k.element)
      [] OTHER -> {}

\* An array of nothing.
Void(el) == el.type = <<"Array">> /\ (el.children = <<>> \/ Void(el.children[1]))

\* What cannot be represented, where these classes are known.
Lost(el, known) ==
    CASE el.type[1] \in {"ClassPtr", "ClassInstance", "ClassPtrArray", "ClassInstanceArray"} ->
            el.reference \notin known
      [] el.type = <<"Pointer">> ->
            /\ el.children # <<>>
            /\ el.children[1].type = <<"ClassInstance">>
            /\ Lost(el.children[1], known)
      [] el.type = <<"Array">> -> el.children = <<>> \/ Lost(el.children[1], known)
      [] OTHER -> el = Unheard

\* What a user is to be told of.
Noted(el, known) ==
    \/ Lost(el, known) /\ ~Void(el)
    \/ el.type[1] \in {"Union", "VirtualMethodTable"}
    \/ el.type \in {<<"Text", 4>>, <<"TextPtr", 4>>}
    \/ el.type = <<"Enum">> /\ el.reference # <<"e">>
    \/ el.type = <<"Pointer">> /\ el.children # <<>> /\ el.children[1].type # <<"ClassInstance">>
    \/ el.type = <<"Array">> /\ el.children # <<>> /\ Noted(el.children[1], known)

\* Of the members of a union these have no size of their own.
Unsized == {"Array", "Matrix", "ClassInstance", "ClassInstanceArray", "ClassPtrArray",
            "VirtualMethodTable"}

Maximum(S) == CHOOSE n \in S : \A m \in S : m <= n

\* The bytes of an element that holds no class.
Space(el, ptr) ==
    LET type == el.type[1]
        inner == {Space(el.children[i], ptr) :
                     i \in {j \in DOMAIN el.children : el.children[j].type[1] \notin Unsized}}
    IN  CASE type = "scalar" -> el.type[2]
          [] type = "Matrix" -> el.type[2] * el.type[3]
          [] type = "BitField" -> el.bits \div 8
          [] type = "Enum" -> IF el.reference = <<"e">> THEN 2 ELSE 4
          [] type = "Text" -> el.type[2] * el.length
          [] type = "ClassPtrArray" -> el.count * ptr
          [] type = "VirtualMethodTable" -> Len(el.children) * ptr
          [] type = "Array" -> el.count * Space(el.children[1], ptr)
          [] type = "Union" -> Maximum({0} \cup inner)
          [] type = "Unheard" -> 0
          [] OTHER -> ptr

\* What is by value takes the room of its class.
SpaceKept(el, k, ptr) ==
    k.kind # "instance" /\ ~(k.kind = "array" /\ k.element.kind = "instance") =>
        SizeIn([ptr |-> ptr, classes |-> <<>>], k) = Space(el, ptr)

\* The classes of a file but those whose uuid is taken.
KeptClasses(els) ==
    {c \in DOMAIN els : els[c].uuid = <<>> \/ \A d \in 1 .. c - 1 : els[d].uuid # els[c].uuid}

\* rcnet/mod.rs: after an import each reference is to a class that was
\* imported; just the fields that cannot be represented are gone, the others
\* are in their order and take the room they had, of a union that of its
\* largest member of a size of its own; and of whatever is gone or has no
\* counterpart there is a note, only not of an array of nothing.
ImportSound ==
    Answered("import") =>
        LET new   == answer[1].reg
            els   == task.file.classes
            known == {els[c].uuid : c \in DOMAIN els}
            told  == {<<c, i>> \in KeptClasses(els) \X (1 .. 2) :
                        i \in DOMAIN els[c].nodes /\ Noted(els[c].nodes[i].el, known)}
        IN  /\ DOMAIN new.classes = KeptClasses(els)
            /\ \A c \in DOMAIN new.classes :
                   LET kept == SelectSeq(els[c].nodes, LAMBDA n : ~Lost(n.el, known))
                       now  == new.classes[c].nodes
                   IN  /\ [i \in DOMAIN now |-> now[i].name] = [i \in DOMAIN kept |-> kept[i].name]
                       /\ \A i \in DOMAIN now :
                              /\ RefersTo(now[i].kind) \subseteq DOMAIN new.classes
                              /\ SpaceKept(kept[i].el, now[i].kind, new.ptr)
            /\ answer[1].notes >= Cardinality(told) + Len(els) - Cardinality(KeptClasses(els))

\* Both ways through the other tool's files keep what can be represented, with
\* its room.
RcnetSound == RcnetKeepsLayout /\ ImportSound

\* rcnet/mod.rs:90-91: "an empty notes means the mapping was exact".
EmptyNotesAreExact ==
    /\ Answered("export") /\ Export(task.reg).notes + answer[1].notes = 0 => Altered(task.reg) = {}
    /\ Answered("import") /\ answer[1].notes = 0 =>
           \A c \in DOMAIN task.file.classes :
               Len(answer[1].reg.classes[c].nodes) = Len(task.file.classes[c].nodes)

\* rcnet/mod.rs:411-412: of a union "the space is preserved as raw bytes".
UnionKeepsSpace ==
    Answered("import") =>
        LET new == answer[1].reg
            els == task.file.classes[1].nodes
        IN  Len(new.classes[1].nodes) = Len(els) =>
                \A i \in {j \in DOMAIN els : els[j].el.type = <<"Union">>} :
                    \A m \in {x \in ToSet(els[i].el.children) : x = Shorts} :
                        Space(m, new.ptr) <= SizeIn(new, new.classes[1].nodes[i].kind)

IsAddress(k) ==
    k.kind \in {"pointer", "classptr", "function", "ptrtext"}
    \/ (k.kind = "array" /\ k.element.kind \in {"pointer", "function", "ptrtext"})

\* codegen: whatever names the user gave, no two structs have one name, nor two
\* fields of a struct, nor two views; a C struct is defined before it is held
\* and declared before it is pointed at; the compiler's fields have the sizes
\* of the nodes.  A project's accessors reach just the fields' bytes and have
\* as many in hand, those of addresses where the target's are as wide as the
\* host's.
CodeCompiles ==
    Answered("code") =>
        LET structs == answer[1].structs
            defined(i) == {structs[j].name : j \in 1 .. i}
        IN  /\ Distinct([i \in DOMAIN structs |-> structs[i].name])
            /\ \A i \in DOMAIN structs :
                   LET fields == structs[i].fields
                   IN  /\ Distinct([j \in DOMAIN fields |-> fields[j].name])
                       /\ \A j \in DOMAIN fields :
                              /\ HeldTypes(fields[j].type)
                                    \subseteq defined(IF task.lang = "C" THEN i - 1 ELSE Len(structs))
                              /\ PointeeTypes(fields[j].type) \subseteq answer[1].ahead
                       /\ [j \in DOMAIN fields |-> Compiled(structs, fields[j].type)]
                              = SizesOf(task.reg, answer[1].class[i])
            /\ Distinct([i \in DOMAIN answer[1].views |-> answer[1].views[i].name])
            /\ \A c \in DOMAIN answer[1].views :
                   LET view  == answer[1].views[c]
                       nodes == task.reg.classes[c].nodes
                       sizes == SizesOf(task.reg, c)
                   IN  \A i \in DOMAIN sizes : \A m \in ToSet(view.methods[i]) :
                           /\ m.off = Total(SubSeq(sizes, 1, i - 1))
                           /\ m.to = <<>> /\ (task.reg.ptr = HOST \/ ~IsAddress(nodes[i].kind)) =>
                                  m.width = sizes[i] /\ m.host = sizes[i]

\* project.rs:387-388: an accessor of a pointer is of an address of the host,
\* "and the byte count is what makes the read correct".  A value is only made
\* from as many bytes as its type has, and a setter writes as many.
AccessorsNarrow ==
    Answered("code") =>
        \A c \in DOMAIN answer[1].views :
            LET methods == answer[1].views[c].methods
                sizes   == SizesOf(task.reg, c)
            IN  \A i \in DOMAIN methods : \A m \in ToSet(methods[i]) :
                    m.to = <<>> => m.width = sizes[i] /\ m.host = sizes[i]

\* codegen/mod.rs:491-497: "project view names are valid and unique".  The view
\* of class A is a struct beside that of a class AView.
StructsApart ==
    Answered("code") =>
        LET structs == answer[1].structs
            views   == answer[1].views
        IN  Distinct([i \in DOMAIN structs |-> structs[i].name]
                     \o [c \in DOMAIN views |-> views[c].name])
=============================================================================
