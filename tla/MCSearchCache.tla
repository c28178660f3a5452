--------------------------- MODULE MCSearchCache ----------------------------
(***************************************************************************)
(* Small instances of SearchCache for TLC.                                 *)
(***************************************************************************)
EXTENDS SearchCache, TLC

CONSTANTS r1, r2, w1, w2

Tasks == Permutations({r1, r2}) \cup Permutations({w1, w2})

=============================================================================
