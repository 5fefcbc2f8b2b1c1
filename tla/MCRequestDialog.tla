--------------------------- MODULE MCRequestDialog ---------------------------
(* Three milliseconds in a second and 32 numbers in an UINT keep what      *)
(* matters of 1000 and 2^32: a typed number of seconds may fit an int,     *)
(* become negative as an int, or wrap to less than a second.  The built-in *)
(* timeout and the driver's deadline are as 15 is to 20.                   *)
EXTENDS RequestDialog, TLC

CONSTANTS q1, q2

MCQuestions == {q1, q2}
MCSymmetry == Permutations(MCQuestions)
==============================================================================
