-------------------------- MODULE MCWorkflowEngine --------------------------
(***************************************************************************)
(* Small instances of WorkflowEngine for TLC: every workflow of a few      *)
(* nodes.  The edges go up, which names every acyclic graph at least once; *)
(* one cyclic definition is added for validate to refuse.                  *)
(***************************************************************************)
EXTENDS WorkflowEngine

CONSTANTS Size, MCKinds

Nodes == 1..Size

Upwards == {e \in Node \X Node : e[1] < e[2]}

AllWorkflows ==
  [kind : [Node -> MCKinds], edges : SUBSET Upwards]
    \cup [kind : [Node -> {"agent"}], edges : {{<<1, 2>>, <<2, 1>>}}]

=============================================================================
