------------------------------- MODULE MCMenu -------------------------------
(* An instance of Menu for TLC.                                             *)
EXTENDS Menu

\* Half way between two options, and next to it; the menu sets the options.
SomeBrightnesses == {96, 97}
=============================================================================
