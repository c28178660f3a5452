--------------------------- MODULE WorkflowEngine ---------------------------
(***************************************************************************)
(* WorkflowEngine::run of crytex-core: a validated DAG of agents,          *)
(* conditions and end nodes, worked off in rounds.                         *)
(*                                                                         *)
(* A round takes the pending nodes.  Its conditions and ends are decided   *)
(* in place, its agents are spawned under a semaphore, and the engine then *)
(* joins their handles in the order it spawned them.  A condition skips    *)
(* what it did not select, with everything below it.  The first error the  *)
(* engine joins ends the run and leaves the executors that still run to    *)
(* themselves.                                                             *)
(***************************************************************************)
EXTENDS Naturals, FiniteSets, Sequences

CONSTANTS
  Node,            \* node ids
  Workflows,       \* the definitions that may be given to run
  MaxConcurrency,  \* max_concurrency
  NoBranch         \* a condition that selects nothing

Kinds == {"agent", "condition", "end"}

ASSUME NodeAssumption == IsFiniteSet(Node)
ASSUME WorkflowsAssumption ==
  Workflows \subseteq [kind : [Node -> Kinds], edges : SUBSET (Node \X Node)]
ASSUME ConcurrencyAssumption == MaxConcurrency \in Nat
ASSUME NoBranchAssumption == NoBranch \notin Node

VARIABLES
  wf,         \* the workflow, as parsed
  pc,         \* where run is
  pending,    \* nodes whose dependencies are done
  remaining,  \* remaining_deps, as the predecessors still to be released
  completed, skipped,
  todo,       \* nodes of the round not yet handled
  handles,    \* spawned agents, in the order their handles are joined
  running,    \* executors at work, each with a permit
  failed      \* executors that returned an error

vars == <<wf, pc, pending, remaining, completed, skipped, todo, handles,
          running, failed>>

Succ(n) == {m \in Node : <<n, m>> \in wf.edges}
Pred(n) == {m \in Node : <<m, n>> \in wf.edges}
Of(kind) == {n \in Node : wf.kind[n] = kind}

\* petgraph's is_cyclic_directed, as in TaskService.
Cyclic(E) ==
  \E S \in SUBSET Node : S # {} /\ \A n \in S : \E m \in S : <<m, n>> \in E

Closed(S) == \A n \in S : Succ(n) \subseteq S

\* mark_skipped of each node of S: S and everything reachable from it.
Below(S) == {n \in Node : \A C \in SUBSET Node : S \subseteq C /\ Closed(C) => n \in C}

Permits == IF MaxConcurrency = 0 THEN 1 ELSE MaxConcurrency

\* Nodes with no dependency left that have not been decided.
Released(left, done, skip) == {n \in Node : left[n] = {} /\ n \notin done \cup skip}

-----------------------------------------------------------------------------
Init ==
  /\ wf \in Workflows
  /\ pc = "validate"
  /\ pending = {} /\ completed = {} /\ skipped = {}
  /\ remaining = [n \in Node |-> {}]
  /\ todo = {} /\ handles = <<>> /\ running = {} /\ failed = {}

\* validate, then the nodes without incoming edges: "entry" plays no part.
Validate ==
  /\ pc = "validate"
  /\ IF Node = {} \/ Cyclic(wf.edges)
     THEN /\ pc' = "failed"
          /\ UNCHANGED <<pending, remaining>>
     ELSE /\ pc' = "round"
          /\ remaining' = [n \in Node |-> Pred(n)]
          /\ pending' = {n \in Node : Pred(n) = {}}
  /\ UNCHANGED <<wf, completed, skipped, todo, handles, running, failed>>

BeginRound ==
  /\ pc = "round"
  /\ pc' = IF pending = {} THEN "done" ELSE "decide"
  /\ todo' = pending
  /\ UNCHANGED <<wf, pending, remaining, completed, skipped, handles, running,
                 failed>>

\* Mutant: only the targets themselves are skipped.
EvalConditionShallow(n, branch) ==
  LET chosen == Succ(n) \cap {branch}
      dropped == Succ(n) \ {branch}
      left == [m \in Node |-> IF m \in chosen THEN remaining[m] \ {n}
                                              ELSE remaining[m]]
      done == completed \cup {n}
      skip == skipped \cup dropped IN
  /\ pc = "decide"
  /\ n \in todo \cap Of("condition")
  /\ completed' = done
  /\ skipped' = skip
  /\ remaining' = left
  /\ pending' = ((pending \ {n}) \ dropped)
                  \cup (chosen \cap Released(left, done, skip))
  /\ todo' = todo \ {n}
  /\ UNCHANGED <<wf, pc, handles, running, failed>>

(* schedule_condition_successors: the branch, if it is an edge's target,   *)
(* loses this dependency; every other target is skipped.                   *)
EvalCondition(n, branch) ==
  LET chosen == Succ(n) \cap {branch}
      dropped == Below(Succ(n) \ {branch})
      left == [m \in Node |-> IF m \in chosen THEN remaining[m] \ {n}
                                              ELSE remaining[m]]
      done == completed \cup {n}
      skip == skipped \cup dropped IN
  /\ pc = "decide"
  /\ n \in todo \cap Of("condition")
  /\ completed' = done
  /\ skipped' = skip
  /\ remaining' = left
  /\ pending' = ((pending \ {n}) \ dropped)
                  \cup (chosen \cap Released(left, done, skip))
  /\ todo' = todo \ {n}
  /\ UNCHANGED <<wf, pc, handles, running, failed>>

\* Mutant: a node is released by the first of its predecessors.
ReleaseEager(n) ==
  LET done == completed \cup {n} IN
  /\ completed' = done
  /\ remaining' = [m \in Node |-> IF m \in Succ(n) THEN {} ELSE remaining[m]]
  /\ pending' = (pending \ {n}) \cup (Succ(n) \ (done \cup skipped))
  /\ UNCHANGED skipped

\* release_successors of a node that is done.
Release(n) ==
  LET left == [m \in Node |-> remaining[m] \ {n}]
      done == completed \cup {n} IN
  /\ completed' = done
  /\ remaining' = left
  /\ pending' = (pending \ {n}) \cup (Succ(n) \cap Released(left, done, skipped))
  /\ UNCHANGED skipped

EndNode(n) ==
  /\ pc = "decide"
  /\ todo \cap Of("condition") = {}
  /\ n \in todo \cap Of("end")
  /\ Release(n)
  /\ todo' = todo \ {n}
  /\ UNCHANGED <<wf, pc, handles, running, failed>>

BeginSpawn ==
  /\ pc = "decide"
  /\ todo \subseteq Of("agent")
  /\ pc' = "spawn"
  /\ UNCHANGED <<wf, pending, remaining, completed, skipped, todo, handles,
                 running, failed>>

\* A permit is acquired before the executor is spawned.
Spawn(n) ==
  /\ pc = "spawn"
  /\ n \in todo
  /\ Cardinality(running) < Permits
  /\ running' = running \cup {n}
  /\ handles' = Append(handles, n)
  /\ todo' = todo \ {n}
  /\ UNCHANGED <<wf, pc, pending, remaining, completed, skipped, failed>>

\* Mutant: the engine joins before every agent of the round is spawned.
BeginJoinEarly ==
  /\ pc = "spawn"
  /\ pc' = "join"
  /\ UNCHANGED <<wf, pending, remaining, completed, skipped, todo, handles,
                 running, failed>>

BeginJoin ==
  /\ pc = "spawn"
  /\ todo = {}
  /\ pc' = "join"
  /\ UNCHANGED <<wf, pending, remaining, completed, skipped, todo, handles,
                 running, failed>>

\* An executor returns its output or an error, and gives its permit back.
Return(n) ==
  /\ n \in running
  /\ running' = running \ {n}
  /\ failed' \in {failed, failed \cup {n}}
  /\ UNCHANGED <<wf, pc, pending, remaining, completed, skipped, todo, handles>>

\* Mutant: the engine stops at a handle whose executor has failed.
JoinNextOk ==
  LET n == Head(handles) IN
  /\ pc = "join"
  /\ handles # <<>>
  /\ n \notin running \cup failed
  /\ handles' = Tail(handles)
  /\ Release(n)
  /\ UNCHANGED <<wf, pc, todo, running, failed>>

JoinNext ==
  LET n == Head(handles) IN
  /\ pc = "join"
  /\ handles # <<>>
  /\ n \notin running
  /\ handles' = Tail(handles)
  /\ IF n \in failed
     THEN /\ pc' = "failed"
          /\ UNCHANGED <<pending, remaining, completed, skipped>>
     ELSE /\ Release(n)
          /\ UNCHANGED pc
  /\ UNCHANGED <<wf, todo, running, failed>>

EndRound ==
  /\ pc = "join"
  /\ handles = <<>>
  /\ pc' = "round"
  /\ UNCHANGED <<wf, pending, remaining, completed, skipped, todo, handles,
                 running, failed>>

-----------------------------------------------------------------------------
Engine ==
  \/ Validate \/ BeginRound \/ BeginSpawn \/ BeginJoin \/ JoinNext \/ EndRound
  \/ \E n \in Node : \/ \E branch \in Node \cup {NoBranch} : EvalCondition(n, branch)
                     \/ EndNode(n) \/ Spawn(n)

Next == Engine \/ \E n \in Node : Return(n)

\* The engine's task and every executor it spawned are scheduled, and the
\* inference backends put a timeout on the requests of an executor.
Fairness == WF_vars(Engine) /\ \A n \in Node : WF_vars(Return(n))

Spec == Init /\ [][Next]_vars /\ Fairness

-----------------------------------------------------------------------------
(* Every set is a set of nodes, and the phases hand the round over empty.  *)
TypeOK ==
  /\ wf \in [kind : [Node -> Kinds], edges : SUBSET (Node \X Node)]
  /\ pc \in {"validate", "round", "decide", "spawn", "join", "done", "failed"}
  /\ pending \in SUBSET Node
  /\ remaining \in [Node -> SUBSET Node]
  /\ completed \in SUBSET Node /\ skipped \in SUBSET Node
  /\ todo \in SUBSET Node
  /\ handles \in Seq(Node)
  /\ running \in SUBSET Node /\ failed \in SUBSET Node
  /\ pc \notin {"decide", "spawn"} => todo = {}

(* An agent is at work only when every node it reads from has written its  *)
(* output, and none was skipped.                                           *)
InputsComplete == \A n \in running : Pred(n) \subseteq completed \ skipped

(* No node is forgotten: when run returns Ok, each node has completed or   *)
(* was skipped, never both, whatever the shape of the graph and the        *)
(* answers of the conditions.                                              *)
AllDecided ==
  /\ completed \cap skipped = {}
  /\ pc = "done" => completed \cup skipped = Node

(* The executors at work never exceed max_concurrency.                     *)
Bounded == Cardinality(running) <= Permits

(* A node below a skipped one is skipped: no branch is taken up again      *)
(* half-way by another path.                                               *)
SkipsAll == Closed(skipped)

(* run returns, with a result or the first error it joined.                *)
Terminates == <>(pc \in {"done", "failed"})

=============================================================================
