--------------------------- MODULE MCFilterDriver ---------------------------
(* The filter driver on a small instance: two operations of one or two     *)
(* programs, and two client sessions one after the other.                  *)
EXTENDS FilterDriver, TLC

CONSTANTS r1, r2, c1, c2, p1, p2

MCRequests == {r1, r2}
MCClients == {c1, c2}
MCPrograms == {p1, p2}
MCSymmetry == Permutations(MCRequests) \union Permutations(MCPrograms)
==============================================================================
