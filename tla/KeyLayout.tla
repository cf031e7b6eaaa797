----------------------------- MODULE KeyLayout -----------------------------
(***************************************************************************)
(* The Cardputer ADV's keys: the byte the TCA8418 reports for a key event, *)
(* the position on the 4 by 14 keyboard it stands for, and the positions   *)
(* of FN and of the modifiers.                                             *)
(***************************************************************************)
EXTENDS Integers

Modifiers == {"shift", "ctrl", "opt", "alt"}

IsPress(byte) == byte >= 128

(* _KeyEventConverter.decode: 7 rows of 8 columns become 4 rows of 14.     *)
Position(byte) ==
  LET value == (byte % 128) - 1
      r     == value \div 10
      c     == value % 10
  IN  [row |-> (c + 4) % 4, col |-> IF c > 3 THEN 2 * r + 1 ELSE 2 * r]

Key(r, c) == [row |-> r, col |-> c]

IsFn(pos) == pos = Key(2, 0)

(* The modifier a position stands for, as a set with at most one member.   *)
ModifierAt(pos) ==
  CASE pos = Key(2, 1) -> {"shift"}
    [] pos = Key(3, 0) -> {"ctrl"}
    [] pos = Key(3, 1) -> {"opt"}
    [] pos = Key(3, 2) -> {"alt"}
    [] OTHER           -> {}

FnKeys == {Key(0, 0), Key(0, 13), Key(2, 11), Key(3, 10), Key(3, 11), Key(3, 12)}

(* The modifiers and the FN layer a set of switches stands for.            *)
PhysicalMask(ks) == UNION {ModifierAt(Position(k)) : k \in ks}
PhysicalFn(ks)   == \E k \in ks : IsFn(Position(k))
=============================================================================
