-------------------------------- MODULE Words --------------------------------
(***************************************************************************)
(* Memory as the address bar and the pointer scan read it: in cells of     *)
(* half a word (4 bytes).  A word is two of them, the lower first.         *)
(***************************************************************************)
EXTENDS Integers

CONSTANT CellValues  \* how many values a cell has

ASSUME CellAssumption == CellValues \in Nat

WordValues == CellValues * CellValues

WordAt(cells, a) == cells[a] + CellValues * cells[a + 1]
=============================================================================
