--------------------------- MODULE MCProjectIndex ---------------------------
(***************************************************************************)
(* Two projects for TLC, one of them with two files.                       *)
(***************************************************************************)
EXTENDS ProjectIndex, TLC

CONSTANTS alpha, beta, main, lib, app, gone, empty, long, short, garbled

Owners == (main :> alpha) @@ (lib :> alpha) @@ (app :> beta)
Paths == (main :> 1) @@ (lib :> 2) @@ (app :> 3)

Sizes == (gone :> 0) @@ (empty :> 0) @@ (long :> 2) @@ (short :> 1) @@ (garbled :> 0)

=============================================================================
