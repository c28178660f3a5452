------------------------- MODULE MCAdapterEvolution -------------------------
(***************************************************************************)
(* One role for TLC: the command line with a benchmark gate, the loader    *)
(* without one, and an operator's own adapter.                             *)
(***************************************************************************)
EXTENDS AdapterEvolution

CONSTANTS kernel, loader, own

=============================================================================
