--------------------------- MODULE MCKeyboardI2C ---------------------------
(* Instances of KeyboardI2C for TLC.                                        *)
EXTENDS KeyboardRefinement

\* Key numbers: FN is 3, left shift 7 and the A key 13.
FnShiftA  == {3, 7, 13}
ShiftAndA == {7, 13}
OnlyA     == {13}
=============================================================================
