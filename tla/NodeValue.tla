----------------------------- MODULE NodeValue -----------------------------
(***************************************************************************)
(* What the table shows of a node's bytes, and what becomes of a text that *)
(* is typed there.                                                         *)
(*                                                                         *)
(* A number's text is a sign, a prefix and digits, which stand for other   *)
(* numbers in another base; blanks do not count.  A byte has BITS bits and *)
(* the largest word LONG bytes.  A node of text takes what is quoted, as   *)
(* the editor strips the quotes; its bytes are valid in its encoding.  No  *)
(* variant of an enum has a name that reads as a number.                   *)
(*                                                                         *)
(* A cell is opened in the table, with the text that it shows; what is     *)
(* there when it is left is put back as it was, or a number.               *)
(***************************************************************************)
EXTENDS Integers, Sequences

CONSTANTS BITS, LONG,
          ValueNodes,  \* what is edited
          Numbers      \* what is typed

ValueKinds == {"hex", "uint", "int", "bits", "bool", "enum", "text", "pointer", "classptr"}

ASSUME ValueInputs ==
    /\ BITS \in Nat \ {0} /\ LONG \in Nat /\ Numbers \subseteq Int
    /\ \A k \in ValueNodes :
           /\ k.kind \in ValueKinds /\ k.size \in Nat
           /\ k.kind # "text" => k.size \in 1 .. LONG
           /\ k.kind = "bool" => k.size = 1
           /\ k.kind = "enum" => k.variants \in Seq([name : STRING, value : Int])

VARIABLES
    cell,     \* the node that is edited, with its bytes
    typed,    \* the number that is typed, if the text that is shown is not put back
    written   \* what is written, when the cell was left

cellVars == <<cell, typed, written>>

\* base ^ n, as a recursive function.
Power(base, n) ==
    LET to[i \in Nat] == IF i = 0 THEN 1 ELSE base * to[i - 1] IN to[n]

Limit(width) == Power(2, BITS * width)

\* Texts.
Numeral(neg, prefix, digits) == [form |-> "numeral", neg |-> neg, prefix |-> prefix,
                                 digits |-> digits]
Word(w) == [form |-> "word", word |-> w]
Quoted(chars) == [form |-> "quoted", chars |-> chars]
Other(what) == [form |-> "other", what |-> what]

Digits(n, base, least) ==
    LET width == CHOOSE k \in 1 .. n + 1 :
                     n < Power(base, k) /\ (k = 1 \/ Power(base, k - 1) <= n)
        size  == IF width < least THEN least ELSE width
    IN  [i \in 1 .. size |-> (n \div Power(base, size - i)) % base]

Value(digits, base) ==
    LET upto[i \in 0 .. Len(digits)] == IF i = 0 THEN 0 ELSE upto[i - 1] * base + digits[i]
    IN  upto[Len(digits)]

Decimal(n) == Numeral(n < 0, "none", Digits(IF n < 0 THEN -n ELSE n, 10, 1))
Hexadecimal(n) == Numeral(FALSE, "0x", Digits(n, 16, 1))

\* Bytes: a sequence, the lowest first.
Byte == 0 .. Limit(1) - 1

Unsigned(bytes) ==
    LET upto[i \in 0 .. Len(bytes)] == IF i = 0 THEN 0 ELSE upto[i - 1] + bytes[i] * Limit(i - 1)
    IN  upto[Len(bytes)]

Signed(bytes) ==
    LET n == Unsigned(bytes) IN IF 2 * n < Limit(Len(bytes)) THEN n ELSE n - Limit(Len(bytes))

LittleEndian(n, width) == [i \in 1 .. width |-> (n \div Limit(i - 1)) % Limit(1)]

-----------------------------------------------------------------------------
(* format, for each kind of node.  A kind is a record of kind and size in  *)
(* bytes; an enum has variants, in order.                                  *)

VariantOf(variants, n) ==
    LET at == {i \in DOMAIN variants : variants[i].value = n}
    IN  IF at = {} THEN <<>> ELSE <<variants[CHOOSE i \in at : \A j \in at : i <= j].name>>

\* What precedes the terminator.
Terminated(bytes) ==
    LET ends == {i \in DOMAIN bytes : bytes[i] = 0}
    IN  IF ends = {} THEN bytes ELSE SubSeq(bytes, 1, (CHOOSE i \in ends : \A j \in ends : i <= j) - 1)

FormatValue(k, bytes, label) ==
    CASE k.kind = "hex" -> Numeral(FALSE, "0x", Digits(Unsigned(bytes), 16, (k.size * BITS) \div 4))
      [] k.kind = "uint" -> Decimal(Unsigned(bytes))
      [] k.kind = "int" -> Decimal(Signed(bytes))
      [] k.kind = "bool" -> Word(IF \E i \in DOMAIN bytes : bytes[i] # 0 THEN "true" ELSE "false")
      [] k.kind = "bits" -> Numeral(FALSE, "none", Digits(Unsigned(bytes), 2, k.size * BITS))
      [] k.kind = "enum" ->
            LET n == Signed(bytes)
            IN  IF VariantOf(k.variants, n) = <<>> THEN Decimal(n)
                ELSE Other(<<VariantOf(k.variants, n)[1], n>>)
      [] k.kind = "text" -> Quoted(Terminated(bytes))
      [] k.kind = "pointer" ->
            CASE Unsigned(bytes) = 0 -> Word("NULL")
              [] label # "" -> Other(<<label, Unsigned(bytes)>>)
              [] OTHER -> Hexadecimal(Unsigned(bytes))
      [] k.kind = "classptr" -> Other(<<"->", Unsigned(bytes)>>)

-----------------------------------------------------------------------------
(* parse_edit.                                                             *)

Refused == [ok |-> FALSE, bytes |-> <<>>]
Taken(bytes) == [ok |-> TRUE, bytes |-> bytes]

NoNumber == [ok |-> FALSE, n |-> 0]
Read(n) == [ok |-> TRUE, n |-> n]

InBase(digits, base) == \A i \in DOMAIN digits : digits[i] < base

ParseInt(t) ==
    LET base == IF t.prefix = "0x" THEN 16 ELSE 10
    IN  IF t.form # "numeral" THEN NoNumber
        ELSE IF t.prefix = "0b" \/ ~InBase(t.digits, base) THEN NoNumber
        ELSE Read(IF t.neg THEN -Value(t.digits, base) ELSE Value(t.digits, base))

\* Zeros and ones are binary, also without a prefix.
ParseBits(t) ==
    IF t.form # "numeral" THEN NoNumber
    ELSE IF ~t.neg /\ t.prefix # "0x" /\ InBase(t.digits, 2) THEN Read(Value(t.digits, 2))
    ELSE ParseInt(t)

\* Only 0x is a prefix of an address; the b of 0b101 is a digit.
AddrDigits(t) == IF t.prefix = "0b" THEN <<11>> \o t.digits ELSE t.digits

\* Digits are hexadecimal, also without a prefix, and decimal if that is too
\* much for a word.
ParseAddr(t) ==
    IF t.form # "numeral" THEN NoNumber
    ELSE IF t.neg THEN NoNumber
    ELSE IF Value(AddrDigits(t), 16) < Limit(LONG) THEN Read(Value(AddrDigits(t), 16))
    ELSE IF t.prefix = "none" /\ InBase(t.digits, 10) /\ Value(t.digits, 10) < Limit(LONG)
         THEN Read(Value(t.digits, 10))
    ELSE NoNumber

\* Variant for a mutant run: what is too much is cut.
IntToLeCut(n, width, signed) == Taken(LittleEndian(n % Limit(width), width))

\* int_to_le
IntToLe(n, width, signed) ==
    LET low  == IF signed THEN -(Limit(width) \div 2) ELSE 0
        high == IF signed THEN Limit(width) \div 2 - 1 ELSE Limit(width) - 1
    IN  IF n < low \/ n > high THEN Refused ELSE Taken(LittleEndian(n % Limit(width), width))

Stored(p, width, signed) == IF p.ok THEN IntToLe(p.n, width, signed) ELSE Refused

\* Cut or filled up to the length.
EncodeText(chars, size) == [i \in 1 .. size |-> IF i <= Len(chars) THEN chars[i] ELSE 0]

ParseEdit(k, t) ==
    CASE k.kind \in {"hex", "uint"} -> Stored(ParseInt(t), k.size, FALSE)
      [] k.kind = "int" -> Stored(ParseInt(t), k.size, TRUE)
      [] k.kind = "bits" -> Stored(ParseBits(t), k.size, FALSE)
      [] k.kind = "bool" ->
            CASE t = Word("true") \/ t = Decimal(1) -> Taken(<<1>>)
              [] t = Word("false") \/ t = Decimal(0) -> Taken(<<0>>)
              [] OTHER -> Refused
      [] k.kind = "enum" ->
            LET named == {i \in DOMAIN k.variants : t = Word(k.variants[i].name)}
            IN  IF named = {} THEN Stored(ParseInt(t), k.size, TRUE)
                ELSE IntToLe(k.variants[CHOOSE i \in named : \A j \in named : i <= j].value,
                             k.size, TRUE)
      [] k.kind = "text" -> Taken(EncodeText(t.chars, k.size))
      [] k.kind \in {"pointer", "classptr"} -> Stored(ParseAddr(t), k.size, FALSE)

-----------------------------------------------------------------------------
(* A cell is opened and left.                                              *)

CellInit ==
    /\ \E k \in ValueNodes : \E b \in [1 .. k.size -> Byte] : cell = [node |-> k, bytes |-> b]
    /\ typed \in {<<>>} \cup {<<n>> : n \in {n \in Numbers : cell.node.kind # "text"}}
    /\ written = <<>>

CellText(k, bytes) == FormatValue(k, bytes, "")

\* commit_edit, write_value
Commit ==
    /\ written = <<>>
    /\ written' = <<ParseEdit(cell.node, IF typed = <<>> THEN CellText(cell.node, cell.bytes)
                                         ELSE Decimal(typed[1]))>>
    /\ UNCHANGED <<cell, typed>>

CellSpec == CellInit /\ [][Commit]_cellVars

-----------------------------------------------------------------------------
\* How a number is shown.
Shows(k, bytes, n) ==
    CellText(k, bytes) = IF k.kind = "enum" /\ VariantOf(k.variants, n) # <<>>
                         THEN Other(<<VariantOf(k.variants, n)[1], n>>) ELSE Decimal(n)

Fits(k, n) ==
    IF k.kind = "uint" THEN n \in 0 .. Limit(k.size) - 1
    ELSE n \in -(Limit(k.size) \div 2) .. Limit(k.size) \div 2 - 1

\* node.rs: what is written takes the node's own bytes and never the next field's;
\* to put back the text that a node shows, if it is taken, changes nothing that is
\* shown; and a number that is typed where numbers are shown is taken just when
\* the node can hold it, and is what the node then shows.
EditsExact ==
    written # <<>> =>
        LET k == cell.node
            w == written[1]
        IN  /\ w.ok => Len(w.bytes) = k.size /\ \A i \in 1 .. k.size : w.bytes[i] \in Byte
            /\ w.ok /\ typed = <<>> => CellText(k, w.bytes) = CellText(k, cell.bytes)
            /\ typed # <<>> /\ k.kind \in {"int", "uint", "enum"} =>
                   /\ w.ok <=> Fits(k, typed[1])
                   /\ w.ok => Shows(k, w.bytes, typed[1])
=============================================================================
