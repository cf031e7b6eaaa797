---------------------------- MODULE MCHidReports ----------------------------
(* Instances of HidReports for TLC.                                         *)
EXTENDS HidReports

\* Key numbers: ` is 1, FN is 3, left shift 7, A 13, I 42, Z 18, space 68.
TypingKeys == {1, 3, 7, 13}
LetterKeys == {13, 42}
=============================================================================
