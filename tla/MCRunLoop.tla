----------------------------- MODULE MCRunLoop ------------------------------
(***************************************************************************)
(* Small instances of RunLoop for TLC: one goal, whose plan is a coder and *)
(* a critic behind it, and room for the remediation and the repairs.       *)
(***************************************************************************)
EXTENDS RunLoop

CONSTANT r1

Chain == <<"coder", "critic">>
Long == <<"coder", "coder", "critic">>

=============================================================================
