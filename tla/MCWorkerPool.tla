---------------------------- MODULE MCWorkerPool ----------------------------
(***************************************************************************)
(* Small instances of WorkerPool for TLC: four tasks in a diamond, the     *)
(* last of them a review, and a fifth that depends on nothing, worked on   *)
(* two at a time.  When plan is already completed, three tasks are ready:  *)
(* more than a batch can take.                                             *)
(***************************************************************************)
EXTENDS WorkerPool

CONSTANTS plan, code, docs, audit, chore

Diamond == {<<plan, code>>, <<plan, docs>>, <<code, audit>>, <<docs, audit>>}

Ranks == [t \in Task |-> CASE t = plan -> 1 [] t = audit -> 2 [] t = chore -> 0
                          [] OTHER -> 3]

NoFaults == {}

=============================================================================
