-------------------------- MODULE MCPromptVersions --------------------------
(***************************************************************************)
(* Small instances of PromptVersions for TLC.                              *)
(***************************************************************************)
EXTENDS PromptVersions, TLC

CONSTANTS p1, p2

Either == Permutations({p1, p2})

=============================================================================
