----------------------- MODULE WorkflowEngine_proofs -----------------------
(***************************************************************************)
(* What WorkflowEngine::run keeps true for every set of nodes, every       *)
(* workflow over them and every max_concurrency.                           *)
(*                                                                         *)
(* The argument: outside "validate" and "failed" the bookkeeping of run is *)
(* a function of completed and skipped.  A node that is not skipped still  *)
(* waits for exactly its predecessors that have not completed, and pending *)
(* is exactly the undecided nodes that wait for nothing.  What a condition *)
(* drops lies below a pending node, and nothing below a pending node is    *)
(* pending or completed.                                                   *)
(***************************************************************************)
EXTENDS WorkflowEngine, FiniteSetTheorems, SequenceTheorems, TLAPS

Spawned == {handles[i] : i \in DOMAIN handles}

Undecided == Node \ (completed \cup skipped)

\* The bookkeeping of run.
Ledger ==
  /\ ~Cyclic(wf.edges)
  /\ \A n \in Node \ skipped : remaining[n] = Pred(n) \ completed
  /\ pending = {n \in Undecided : Pred(n) \subseteq completed}
  /\ \A n \in completed : Pred(n) \subseteq completed

\* Which nodes of the round are where.
Round ==
  /\ pc \in {"decide", "spawn"} => todo \subseteq pending
  /\ pc \in {"spawn", "join"} =>
       /\ running \subseteq Spawned
       /\ Spawned \subseteq pending \ todo
       /\ \A i, j \in DOMAIN handles : handles[i] = handles[j] => i = j
  /\ pc \in {"validate", "round", "decide", "done"} => running = {} /\ handles = <<>>
  /\ pc = "done" => pending = {}

IInv ==
  /\ TypeOK
  /\ completed \cap skipped = {}
  /\ SkipsAll
  /\ InputsComplete
  /\ pc \notin {"validate", "failed"} => Ledger
  /\ pc = "validate" => completed = {} /\ skipped = {}
  /\ Round

-----------------------------------------------------------------------------
(* Below(S) contains S and is closed under successors: what mark_skipped   *)
(* visits.                                                                 *)
LEMMA BelowClosed ==
  ASSUME NEW S \in SUBSET Node
  PROVE  S \subseteq Below(S) /\ Below(S) \subseteq Node /\ Closed(Below(S))
<1>1. S \subseteq Below(S) /\ Below(S) \subseteq Node
  BY DEF Below
<1>2. ASSUME NEW n \in Below(S), NEW m \in Succ(n)
      PROVE  m \in Below(S)
  <2>1. m \in Node
    BY DEF Succ
  <2>2. ASSUME NEW C \in SUBSET Node, S \subseteq C, Closed(C)
        PROVE  m \in C
    <3>1. n \in C
      BY <2>2 DEF Below
    <3> QED  BY <3>1, <1>2, <2>2 DEF Closed
  <2> QED  BY <2>1, <2>2 DEF Below
<1> QED  BY <1>1, <1>2 DEF Closed

(* Below(S) is the least such set.                                         *)
LEMMA BelowLeast ==
  ASSUME NEW S, NEW C \in SUBSET Node, S \subseteq C, Closed(C)
  PROVE  Below(S) \subseteq C
BY DEF Below

(* A condition drops nothing that is pending or completed: each of those   *)
(* has only completed predecessors, and the condition is not completed.    *)
LEMMA DroppedIsFresh ==
  ASSUME TypeOK, Ledger, NEW n \in pending, NEW S \in SUBSET Succ(n)
  PROVE  Below(S) \cap (completed \cup pending) = {}
<1> DEFINE C == Node \ (completed \cup pending)
<1>1. \A m \in completed \cup pending : Pred(m) \subseteq completed
  BY DEF Ledger
<1>2. n \in Node /\ n \notin completed
  BY DEF Ledger, Undecided
<1>3. ASSUME NEW m \in Node \ completed
      PROVE  Succ(m) \subseteq C
  BY <1>1, <1>3 DEF Succ, Pred
<1>4. Closed(C)
  BY <1>3 DEF Closed
<1>5. S \subseteq C
  BY <1>2, <1>3
<1> QED  BY <1>4, <1>5, BelowLeast

(* Releasing the successors of a pending node keeps the bookkeeping.       *)
LEMMA ReleaseLedger ==
  ASSUME TypeOK, Ledger, completed \cap skipped = {}, NEW n \in pending,
         Release(n), UNCHANGED wf
  PROVE  /\ Ledger'
         /\ pending' \in SUBSET Node /\ remaining' \in [Node -> SUBSET Node]
         /\ pending \ {n} \subseteq pending'
         /\ completed' \in SUBSET Node /\ completed \subseteq completed'
         /\ completed' \cap skipped' = {}
<1> USE DEF Ledger, Undecided, Release, Released, Pred, Succ
<1>1. n \in Node /\ n \notin completed /\ n \notin skipped /\ Pred(n) \subseteq completed
  OBVIOUS
<1>2. completed' = completed \cup {n} /\ skipped' = skipped
  OBVIOUS
<1>3. /\ remaining' = [m \in Node |-> remaining[m] \ {n}]
      /\ remaining' \in [Node -> SUBSET Node]
  BY DEF TypeOK
<1>4. \A m \in Node \ skipped : remaining'[m] = Pred(m) \ (completed \cup {n})
  BY <1>3
<1>5. \A m \in Node : m \in pending' <=> /\ m \notin completed \cup {n} \cup skipped
                                         /\ Pred(m) \subseteq completed \cup {n}
  <2> TAKE m \in Node
  <2>1. CASE m \in completed \cup {n} \cup skipped
    BY <2>1, <1>1, <1>2
  <2>2. CASE m \notin completed \cup {n} \cup skipped
    <3>1. remaining'[m] = Pred(m) \ (completed \cup {n})
      BY <2>2, <1>4
    <3>2. CASE n \in Pred(m)
      <4>1. m \in Succ(n) /\ m \notin pending
        BY <3>2, <1>1
      <4> QED  BY <4>1, <3>1, <2>2, <1>2, <1>3
    <3>3. CASE n \notin Pred(m)
      <4>1. m \notin Succ(n)
        BY <3>3
      <4> QED  BY <4>1, <3>3, <2>2, <1>2
    <3> QED  BY <3>2, <3>3
  <2> QED  BY <2>1, <2>2
<1>6. pending' \subseteq Node
  BY DEF TypeOK
<1>7. pending' = {m \in Undecided' : Pred(m)' \subseteq completed'}
  BY <1>2, <1>5, <1>6
<1>8. \A m \in Node \ skipped' : remaining'[m] = Pred(m)' \ completed'
  BY <1>2, <1>4
<1>9. \A m \in completed' : Pred(m)' \subseteq completed'
  BY <1>1, <1>2
<1>10. ~Cyclic(wf.edges)'
  BY DEF Cyclic
<1>11. Ledger'
  BY <1>7, <1>8, <1>9, <1>10
<1>12. pending \ {n} \subseteq pending'
  OBVIOUS
<1> HIDE DEF Ledger, Undecided, Release, Released, Pred, Succ
<1> QED  BY <1>1, <1>2, <1>3, <1>6, <1>11, <1>12 DEF TypeOK

(* So does evaluating a condition.                                         *)
LEMMA ConditionLedger ==
  ASSUME TypeOK, Ledger, completed \cap skipped = {}, SkipsAll,
         NEW n \in pending, NEW branch, EvalCondition(n, branch)
  PROVE  /\ Ledger'
         /\ pending' \in SUBSET Node /\ remaining' \in [Node -> SUBSET Node]
         /\ pending \ {n} \subseteq pending'
         /\ completed' \in SUBSET Node /\ skipped' \in SUBSET Node
         /\ completed' \cap skipped' = {}
         /\ SkipsAll'
<1> DEFINE dropped == Below(Succ(n) \ {branch})
           chosen == Succ(n) \cap {branch}
           done == completed \cup {n}
           skip == skipped \cup dropped
<1> HIDE DEF dropped
<1>1. n \in Node /\ n \notin completed /\ n \notin skipped /\ Pred(n) \subseteq completed
  BY DEF Ledger, Undecided
<1>2. /\ completed' = done /\ skipped' = skip /\ wf' = wf
      /\ pending' = ((pending \ {n}) \ dropped) \cup (chosen \cap Released(remaining', done, skip))
      /\ remaining' = [m \in Node |-> IF m \in chosen THEN remaining[m] \ {n} ELSE remaining[m]]
  BY DEF EvalCondition, dropped
<1>3. Succ(n) \ {branch} \in SUBSET Node
  BY DEF Succ
<1>4. Succ(n) \ {branch} \subseteq dropped /\ dropped \subseteq Node /\ Closed(dropped)
  BY <1>3, BelowClosed DEF dropped
<1>5. dropped \cap (completed \cup pending) = {}
  BY DroppedIsFresh DEF dropped
<1>6. remaining' \in [Node -> SUBSET Node]
  BY <1>2 DEF TypeOK
<1>7. \A m \in Node \ skip : remaining'[m] = Pred(m) \ done
  <2> TAKE m \in Node \ skip
  <2>1. remaining[m] = Pred(m) \ completed
    BY DEF Ledger
  <2>2. CASE m \in chosen
    BY <2>1, <2>2, <1>2
  <2>3. CASE m \notin chosen
    <3>1. n \notin Pred(m)
      BY <2>3, <1>4 DEF Pred, Succ
    <3> QED  BY <3>1, <2>1, <2>3, <1>2
  <2> QED  BY <2>2, <2>3
<1>8. pending' \subseteq Node
  BY <1>2 DEF TypeOK, Released
<1>9. \A m \in Node : m \in pending' <=> m \notin done \cup skip /\ Pred(m) \subseteq done
  <2> TAKE m \in Node
  <2>1. CASE m \in done \cup skip
    <3>1. m \notin Released(remaining', done, skip)
      BY <2>1 DEF Released
    <3>2. m \notin (pending \ {n}) \ dropped
      BY <2>1 DEF Ledger, Undecided
    <3> QED  BY <3>1, <3>2, <2>1, <1>2
  <2>2. CASE m \notin done \cup skip
    <3>1. remaining'[m] = Pred(m) \ done
      BY <2>2, <1>7
    <3>2. CASE n \in Pred(m)
      <4>1. m \in chosen
        BY <3>2, <2>2, <1>4 DEF Pred, Succ
      <4>2. m \notin pending
        BY <3>2, <1>1 DEF Ledger
      <4> QED  BY <4>1, <4>2, <3>1, <2>2, <1>2, <1>6 DEF Released
    <3>3. CASE n \notin Pred(m)
      <4>1. m \notin chosen
        BY <3>3, <1>1 DEF Pred, Succ
      <4>2. m \in pending <=> Pred(m) \subseteq completed
        BY <2>2 DEF Ledger, Undecided
      <4> QED  BY <4>1, <4>2, <3>3, <2>2, <1>2
    <3> QED  BY <3>2, <3>3
  <2> QED  BY <2>1, <2>2
<1>10. \A m : Pred(m)' = Pred(m) /\ Succ(m)' = Succ(m)
  BY <1>2 DEF Pred, Succ
<1>11. pending' = {m \in Undecided' : Pred(m)' \subseteq completed'}
  BY <1>2, <1>8, <1>9, <1>10 DEF Undecided
<1>12. \A m \in completed' : Pred(m)' \subseteq completed'
  BY <1>1, <1>2, <1>10 DEF Ledger
<1>13. ~Cyclic(wf.edges)'
  BY <1>2 DEF Cyclic, Ledger
<1>14. Ledger'
  BY <1>2, <1>7, <1>10, <1>11, <1>12, <1>13 DEF Ledger
<1>15. pending \ {n} \subseteq pending'
  BY <1>2, <1>5
<1>16. completed' \cap skipped' = {}
  BY <1>1, <1>2, <1>5 DEF Ledger
<1>17. SkipsAll'
  BY <1>2, <1>4, <1>10 DEF SkipsAll, Closed
<1> QED
  BY <1>1, <1>2, <1>4, <1>6, <1>8, <1>14, <1>15, <1>16, <1>17 DEF TypeOK

-----------------------------------------------------------------------------
LEMMA InitInv == Init => IInv
BY WorkflowsAssumption
   DEF Init, IInv, TypeOK, SkipsAll, Closed, InputsComplete, Round, Spawned

LEMMA ValidateInv == IInv /\ Validate => IInv'
<1> SUFFICES ASSUME IInv, Validate PROVE IInv'
  OBVIOUS
<1> USE DEF IInv, Validate
<1>1. TypeOK'
  <2>1. pc' \in {"failed", "round"} /\ todo = {}
    BY DEF TypeOK
  <2>2. pending' \in SUBSET Node /\ remaining' \in [Node -> SUBSET Node]
    <3>1. pending \in SUBSET Node /\ remaining \in [Node -> SUBSET Node]
      BY DEF TypeOK
    <3>2. \/ UNCHANGED <<pending, remaining>>
          \/ /\ remaining' = [n \in Node |-> Pred(n)]
             /\ pending' = {n \in Node : Pred(n) = {}}
      OBVIOUS
    <3>3. \A n : Pred(n) \in SUBSET Node
      BY DEF Pred
    <3> HIDE DEF IInv, Validate
    <3> QED  BY <3>1, <3>2, <3>3
  <2>3. TypeOK /\ UNCHANGED <<wf, completed, skipped, todo, handles, running, failed>>
    OBVIOUS
  <2> HIDE DEF IInv, Validate
  <2> QED  BY <2>1, <2>2, <2>3 DEF TypeOK
<1>2. SkipsAll' /\ InputsComplete' /\ (completed \cap skipped = {})'
  BY DEF SkipsAll, Closed, Succ, InputsComplete, Pred
<1>3. pc' \notin {"validate", "failed"} => Ledger'
  <2> SUFFICES ASSUME pc' = "round" PROVE Ledger'
    OBVIOUS
  <2>1. ~Cyclic(wf.edges)'
    BY DEF Cyclic
  <2>2. completed' = {} /\ skipped' = {}
    OBVIOUS
  <2>3. \A n : Pred(n)' = Pred(n)
    BY DEF Pred
  <2>4. \A n \in Node \ skipped' : remaining'[n] = Pred(n)' \ completed'
    BY <2>2, <2>3
  <2>5. pending' = {n \in Undecided' : Pred(n)' \subseteq completed'}
    BY <2>2, <2>3 DEF Undecided
  <2> QED  BY <2>1, <2>2, <2>4, <2>5 DEF Ledger
<1>4. Round'
  BY DEF Round, TypeOK
<1> QED  BY <1>1, <1>2, <1>3, <1>4

\* The steps that only move pc on.
LEMMA PhaseInv ==
  IInv /\ (BeginRound \/ BeginSpawn \/ BeginJoin \/ EndRound) => IInv'
<1> SUFFICES ASSUME IInv, BeginRound \/ BeginSpawn \/ BeginJoin \/ EndRound
             PROVE  IInv'
  OBVIOUS
<1> USE DEF IInv
<1>1. /\ UNCHANGED <<wf, pending, remaining, completed, skipped, handles, running, failed>>
      /\ pc \notin {"validate", "failed"} /\ pc' \notin {"validate", "failed"}
  BY DEF BeginRound, BeginSpawn, BeginJoin, EndRound
<1>2. TypeOK'
  BY DEF TypeOK, BeginRound, BeginSpawn, BeginJoin, EndRound
<1>3. SkipsAll' /\ InputsComplete' /\ (completed \cap skipped = {})'
  BY <1>1 DEF SkipsAll, Closed, Succ, InputsComplete, Pred
<1>4. Ledger'
  BY <1>1 DEF Ledger, Cyclic, Pred, Undecided
<1>5. CASE BeginRound
  BY <1>1, <1>2, <1>3, <1>4, <1>5 DEF BeginRound, Round
<1>6. CASE BeginSpawn
  <2>1. handles = <<>> /\ running = {} /\ DOMAIN handles = {}
    BY <1>6 DEF BeginSpawn, Round
  <2> QED  BY <1>1, <1>2, <1>3, <1>4, <1>6, <2>1 DEF BeginSpawn, Round, Spawned
<1>7. CASE BeginJoin
  BY <1>1, <1>2, <1>3, <1>4, <1>7 DEF BeginJoin, Round, Spawned
<1>8. CASE EndRound
  <2>1. handles = <<>> /\ DOMAIN handles = {}
    BY <1>8 DEF EndRound
  <2> QED  BY <1>1, <1>2, <1>3, <1>4, <1>8, <2>1 DEF EndRound, Round, Spawned
<1> QED  BY <1>5, <1>6, <1>7, <1>8

LEMMA EvalConditionInv ==
  ASSUME IInv, NEW n \in Node, NEW branch, EvalCondition(n, branch)
  PROVE  IInv'
<1>1. /\ pc = "decide" /\ n \in todo /\ todo' = todo \ {n}
      /\ UNCHANGED <<wf, pc, handles, running, failed>>
  BY DEF EvalCondition
<1>2. n \in pending /\ running = {} /\ handles = <<>>
  BY <1>1 DEF IInv, Round
<1>3. /\ Ledger'
      /\ pending' \in SUBSET Node /\ remaining' \in [Node -> SUBSET Node]
      /\ pending \ {n} \subseteq pending'
      /\ completed' \in SUBSET Node /\ skipped' \in SUBSET Node
      /\ completed' \cap skipped' = {}
      /\ SkipsAll'
  BY <1>1, <1>2, ConditionLedger DEF IInv
<1>4. TypeOK'
  BY <1>1, <1>3 DEF IInv, TypeOK
<1>5. InputsComplete'
  BY <1>1, <1>2 DEF InputsComplete
<1>6. Round'
  BY <1>1, <1>2, <1>3 DEF IInv, Round
<1> QED  BY <1>1, <1>3, <1>4, <1>5, <1>6 DEF IInv

LEMMA EndNodeInv ==
  ASSUME IInv, NEW n \in Node, EndNode(n)
  PROVE  IInv'
<1>1. /\ pc = "decide" /\ n \in todo /\ todo' = todo \ {n} /\ Release(n)
      /\ UNCHANGED <<wf, pc, handles, running, failed>>
  BY DEF EndNode
<1>2. n \in pending /\ running = {} /\ handles = <<>>
  BY <1>1 DEF IInv, Round
<1>3. /\ Ledger'
      /\ pending' \in SUBSET Node /\ remaining' \in [Node -> SUBSET Node]
      /\ pending \ {n} \subseteq pending'
      /\ completed' \in SUBSET Node
      /\ completed' \cap skipped' = {}
  BY <1>1, <1>2, ReleaseLedger DEF IInv
<1>4. skipped' = skipped
  BY <1>1 DEF Release
<1>5. TypeOK'
  BY <1>1, <1>3, <1>4 DEF IInv, TypeOK
<1>6. InputsComplete' /\ SkipsAll'
  BY <1>1, <1>2, <1>4 DEF IInv, InputsComplete, SkipsAll, Closed, Succ
<1>7. Round'
  BY <1>1, <1>2, <1>3 DEF IInv, Round
<1> QED  BY <1>1, <1>3, <1>5, <1>6, <1>7 DEF IInv

LEMMA SpawnInv ==
  ASSUME IInv, NEW n \in Node, Spawn(n)
  PROVE  IInv'
<1>1. /\ pc = "spawn" /\ n \in todo /\ todo' = todo \ {n}
      /\ running' = running \cup {n} /\ handles' = Append(handles, n)
      /\ UNCHANGED <<wf, pc, pending, remaining, completed, skipped, failed>>
  BY DEF Spawn
<1>2. Ledger /\ n \in pending
  BY <1>1 DEF IInv, Round
<1>3. TypeOK'
  BY <1>1 DEF IInv, TypeOK
<1>4. Ledger' /\ SkipsAll' /\ (completed \cap skipped = {})'
  BY <1>1, <1>2
     DEF IInv, Ledger, Cyclic, Pred, Undecided, SkipsAll, Closed, Succ
<1>5. InputsComplete'
  <2>1. Pred(n) \subseteq completed
    BY <1>2 DEF Ledger
  <2> QED  BY <1>1, <2>1 DEF IInv, InputsComplete, Pred
<1>6. Spawned' = Spawned \cup {n}
  <2>1. handles \in Seq(Node)
    BY DEF IInv, TypeOK
  <2> QED  BY <1>1, <2>1 DEF Spawned
<1>7. \A i, j \in DOMAIN handles' : handles'[i] = handles'[j] => i = j
  <2>1. handles \in Seq(Node)
    BY DEF IInv, TypeOK
  <2>2. n \notin Spawned
    BY <1>1 DEF IInv, Round
  <2>3. \A i, j \in DOMAIN handles : handles[i] = handles[j] => i = j
    BY <1>1 DEF IInv, Round
  <2> QED  BY <1>1, <2>1, <2>2, <2>3 DEF Spawned
<1>8. Round'
  BY <1>1, <1>2, <1>6, <1>7 DEF IInv, Round
<1> QED  BY <1>1, <1>3, <1>4, <1>5, <1>8 DEF IInv

LEMMA ReturnInv ==
  ASSUME IInv, NEW n \in Node, Return(n)
  PROVE  IInv'
<1>1. /\ running' = running \ {n}
      /\ failed' \in {failed, failed \cup {n}}
      /\ UNCHANGED <<wf, pc, pending, remaining, completed, skipped, todo, handles>>
  BY DEF Return
<1>2. TypeOK'
  BY <1>1 DEF IInv, TypeOK
<1>3. SkipsAll' /\ InputsComplete' /\ (completed \cap skipped = {})'
  BY <1>1 DEF IInv, InputsComplete, Pred, SkipsAll, Closed, Succ
<1>4. Ledger => Ledger'
  BY <1>1 DEF Ledger, Cyclic, Pred, Undecided
<1>5. Round'
  BY <1>1 DEF IInv, Round, Spawned
<1> QED  BY <1>1, <1>2, <1>3, <1>4, <1>5 DEF IInv

LEMMA JoinNextInv == IInv /\ JoinNext => IInv'
<1> SUFFICES ASSUME IInv, JoinNext PROVE IInv'
  OBVIOUS
<1> DEFINE n == Head(handles)
<1>1. /\ pc = "join" /\ handles # <<>> /\ n \notin running
      /\ handles' = Tail(handles)
      /\ UNCHANGED <<wf, todo, running, failed>>
      /\ \/ pc' = "failed" /\ UNCHANGED <<pending, remaining, completed, skipped>>
         \/ Release(n) /\ UNCHANGED pc
  BY DEF JoinNext
<1>2. /\ handles \in Seq(Node) /\ todo = {}
      /\ running \subseteq Spawned /\ Spawned \subseteq pending
      /\ \A i, j \in DOMAIN handles : handles[i] = handles[j] => i = j
  BY <1>1 DEF IInv, TypeOK, Round
<1>3. handles' \in Seq(Node)
  BY <1>1, <1>2
<1>4. n \in Spawned /\ Spawned' = Spawned \ {n}
  <2>1. /\ Len(handles') = Len(handles) - 1
        /\ \A i \in 1 .. Len(handles') : handles'[i] = handles[i + 1]
        /\ n = handles[1] /\ DOMAIN handles = 1 .. Len(handles)
        /\ DOMAIN handles' = 1 .. Len(handles')
        /\ Len(handles) \in Nat \ {0}
    BY <1>1, <1>2, HeadTailProperties
  <2>2. n \in Spawned
    BY <2>1 DEF Spawned
  <2>3. ASSUME NEW m \in Spawned' PROVE m \in Spawned \ {n}
    <3>1. PICK i \in 1 .. Len(handles') : m = handles'[i]
      BY <2>1 DEF Spawned
    <3>2. m = handles[i + 1] /\ i + 1 \in DOMAIN handles /\ i + 1 # 1
      BY <2>1, <3>1
    <3> QED  BY <3>2, <2>1, <1>2 DEF Spawned
  <2>4. ASSUME NEW m \in Spawned \ {n} PROVE m \in Spawned'
    <3>1. PICK i \in 1 .. Len(handles) : m = handles[i]
      BY <2>1 DEF Spawned
    <3>2. i - 1 \in 1 .. Len(handles') /\ handles'[i - 1] = handles[i]
      BY <2>1, <3>1, <2>4
    <3> QED  BY <3>1, <3>2, <2>1 DEF Spawned
  <2> QED  BY <2>2, <2>3, <2>4
<1>5. CASE pc' = "failed"
  <2>1. UNCHANGED <<pending, remaining, completed, skipped>>
    BY <1>1, <1>5
  <2>2. TypeOK'
    BY <1>1, <1>2, <1>3, <1>5, <2>1 DEF IInv, TypeOK
  <2>3. SkipsAll' /\ InputsComplete' /\ (completed \cap skipped = {})'
    BY <1>1, <2>1 DEF IInv, InputsComplete, Pred, SkipsAll, Closed, Succ
  <2> QED  BY <1>5, <2>2, <2>3 DEF IInv, Round
<1>6. CASE Release(n) /\ UNCHANGED pc
  <2>1. n \in pending /\ Ledger /\ TypeOK /\ completed \cap skipped = {}
    BY <1>1, <1>2, <1>4 DEF IInv
  <2>2. /\ Ledger'
        /\ pending' \in SUBSET Node /\ remaining' \in [Node -> SUBSET Node]
        /\ pending \ {n} \subseteq pending'
        /\ completed' \in SUBSET Node /\ completed \subseteq completed'
        /\ completed' \cap skipped' = {}
    BY <1>1, <1>6, <2>1, ReleaseLedger
  <2>3. skipped' = skipped
    BY <1>6 DEF Release
  <2>4. TypeOK'
    BY <1>1, <1>2, <1>3, <1>6, <2>2, <2>3 DEF IInv, TypeOK
  <2>5. SkipsAll' /\ InputsComplete'
    BY <1>1, <2>2, <2>3 DEF IInv, InputsComplete, Pred, SkipsAll, Closed, Succ
  <2>6. \A i, j \in DOMAIN handles' : handles'[i] = handles'[j] => i = j
    <3>1. /\ DOMAIN handles' = 1 .. Len(handles) - 1
          /\ DOMAIN handles = 1 .. Len(handles) /\ Len(handles) \in Nat
          /\ \A i \in 1 .. Len(handles) - 1 : handles'[i] = handles[i + 1]
      BY <1>1, <1>2, HeadTailProperties
    <3> QED  BY <3>1, <1>2
  <2>7. Round'
    BY <1>1, <1>2, <1>4, <1>6, <2>2, <2>6 DEF Round
  <2> QED  BY <1>1, <1>6, <2>2, <2>4, <2>5, <2>7 DEF IInv
<1> QED  BY <1>1, <1>5, <1>6

LEMMA NextInv == IInv /\ [Next]_vars => IInv'
<1> SUFFICES ASSUME IInv, [Next]_vars PROVE IInv'
  OBVIOUS
<1>1. CASE UNCHANGED vars
  <2> USE <1>1 DEF vars
  <2>1. TypeOK' /\ SkipsAll' /\ InputsComplete' /\ (completed \cap skipped = {})'
    BY DEF IInv, TypeOK, SkipsAll, Closed, Succ, InputsComplete, Pred
  <2>2. Ledger => Ledger'
    BY DEF Ledger, Cyclic, Pred, Undecided
  <2>3. Round'
    BY DEF IInv, Round, Spawned
  <2> QED  BY <2>1, <2>2, <2>3 DEF IInv
<1>2. CASE Next
  BY <1>2, ValidateInv, PhaseInv, EvalConditionInv, EndNodeInv, SpawnInv,
     ReturnInv, JoinNextInv
     DEF Next, Engine
<1> QED  BY <1>1, <1>2

LEMMA Inductive == Spec => []IInv
<1> QED  BY InitInv, NextInv, PTL DEF Spec

-----------------------------------------------------------------------------
(* The bookkeeping of a run keeps its types (WorkflowEngine::run).         *)
THEOREM TypeCorrect == Spec => []TypeOK
<1>1. IInv => TypeOK
  BY DEF IInv
<1> QED  BY <1>1, Inductive, PTL

(* No agent starts, or keeps working, on the output of a predecessor that  *)
(* has not completed or was skipped, whatever the workflow's shape and the *)
(* answers of its conditions (the spawn loop and release_successors).      *)
THEOREM InputsAlwaysComplete == Spec => []InputsComplete
<1>1. IInv => InputsComplete
  BY DEF IInv
<1> QED  BY <1>1, Inductive, PTL

(* What a condition drops stays dropped with everything below it           *)
(* (mark_skipped).                                                         *)
THEOREM SkipsEverythingBelow == Spec => []SkipsAll
<1>1. IInv => SkipsAll
  BY DEF IInv
<1> QED  BY <1>1, Inductive, PTL

(* run returns Ok only when every node has completed or was skipped: a     *)
(* node left over would wait for another node left over, and so on round a *)
(* cycle, which validate has refused.                                      *)
THEOREM NoNodeForgotten == Spec => []AllDecided
<1>1. IInv => AllDecided
  <2> SUFFICES ASSUME IInv, pc = "done" PROVE completed \cup skipped = Node
    BY DEF IInv, AllDecided
  <2>1. Ledger /\ pending = {} /\ Closed(skipped)
    BY DEF IInv, Round, SkipsAll
  <2>2. ASSUME NEW n \in Undecided
        PROVE  \E m \in Undecided : <<m, n>> \in wf.edges
    <3>1. n \in Node /\ n \notin completed \cup skipped
      BY DEF Undecided
    <3>2. PICK m \in Pred(n) : m \notin completed
      BY <2>1, <3>1 DEF Ledger, Undecided
    <3>3. m \in Node /\ <<m, n>> \in wf.edges /\ n \in Succ(m)
      BY <3>1, <3>2 DEF Pred, Succ
    <3>4. m \notin skipped
      BY <2>1, <3>1, <3>3 DEF Closed
    <3> QED  BY <3>2, <3>3, <3>4 DEF Undecided
  <2>3. Undecided = {}
    <3>1. Undecided \in SUBSET Node
      BY DEF Undecided
    <3> QED  BY <2>1, <2>2, <3>1 DEF Ledger, Cyclic
  <2>4. completed \subseteq Node /\ skipped \subseteq Node
    BY DEF IInv, TypeOK
  <2> QED  BY <2>3, <2>4 DEF Undecided
<1> QED  BY <1>1, Inductive, PTL

-----------------------------------------------------------------------------
(* The executors at work never exceed max_concurrency, or one when it is   *)
(* zero: each holds a permit of the semaphore from before its spawn.       *)
THEOREM PermitsBoundExecutors == Spec => []Bounded
<1>1. ASSUME TypeOK
      PROVE  IsFiniteSet(running) /\ Cardinality(running) \in Nat
  <2>1. running \in SUBSET Node
    BY <1>1 DEF TypeOK
  <2>2. IsFiniteSet(running)
    BY <2>1, NodeAssumption, FS_Subset
  <2> QED  BY <2>2, FS_CardinalityType
<1>2. Permits \in Nat \ {0}
  BY ConcurrencyAssumption DEF Permits
<1>3. Init => Bounded
  BY <1>2, FS_EmptySet DEF Init, Bounded
<1>4. ASSUME TypeOK, Bounded, [Next]_vars
      PROVE  Bounded'
  <2>1. ASSUME NEW n \in Node, Spawn(n)
        PROVE  Bounded'
    <3>1. running' = running \cup {n} /\ Cardinality(running) < Permits
      BY <2>1 DEF Spawn
    <3>2. Cardinality(running') <= Cardinality(running) + 1
      <4>1. Cardinality(running \cup {n}) =
              IF n \in running THEN Cardinality(running) ELSE Cardinality(running) + 1
        BY <1>1, <1>4, FS_AddElement
      <4> QED  BY <4>1, <3>1, <1>1, <1>4
    <3>3. Cardinality(running') \in Nat
      BY <3>1, <1>1, <1>4, FS_AddElement, FS_CardinalityType
    <3> QED  BY <3>1, <3>2, <3>3, <1>1, <1>2, <1>4 DEF Bounded, Permits
  <2>2. ASSUME NEW n \in Node, Return(n)
        PROVE  Bounded'
    <3>1. running' \in SUBSET running
      BY <2>2 DEF Return
    <3>2. Cardinality(running') <= Cardinality(running)
      BY <3>1, <1>1, <1>4, FS_Subset
    <3>3. Cardinality(running') \in Nat
      BY <3>1, <1>1, <1>4, FS_Subset, FS_CardinalityType
    <3> QED  BY <3>2, <3>3, <1>1, <1>2, <1>4 DEF Bounded, Permits
  <2>3. ASSUME UNCHANGED running
        PROVE  Bounded'
    BY <2>3, <1>4 DEF Bounded, Permits
  <2>4. ASSUME NEW n \in Node, NEW branch,
               EvalCondition(n, branch) \/ EndNode(n)
        PROVE  UNCHANGED running
    BY <2>4 DEF EvalCondition, EndNode
  <2>5. ASSUME Validate \/ BeginRound \/ BeginSpawn \/ BeginJoin \/ JoinNext
                 \/ EndRound \/ UNCHANGED vars
        PROVE  UNCHANGED running
    BY <2>5 DEF Validate, BeginRound, BeginSpawn, BeginJoin, JoinNext, EndRound, vars
  <2> QED
    BY <2>1, <2>2, <2>3, <2>4, <2>5, <1>4 DEF Next, Engine
<1>5. IInv => TypeOK
  BY DEF IInv
<1> QED  BY <1>3, <1>4, <1>5, Inductive, PTL DEF Spec

-----------------------------------------------------------------------------
(* Every step of a run, the engine's and its executors', leaves less to do *)
(* in the lexicographic order of four natural numbers: the nodes that wait *)
(* for a round, how far the round is from its end, the nodes of the round  *)
(* still to be handled, the executors at work.                             *)

Waiting == IF pc = "failed" THEN {} ELSE Undecided \ (todo \cup Spawned)

Phase ==
  CASE pc = "validate" -> 5
    [] pc = "decide" -> 4
    [] pc = "spawn" -> 3
    [] pc = "join" -> 2
    [] pc = "round" -> 1
    [] OTHER -> 0

InHand == IF pc = "join" THEN Len(handles)
          ELSE IF pc = "failed" THEN 0 ELSE Cardinality(todo)

Measure == <<Cardinality(Waiting), Phase, InHand, Cardinality(running)>>

Less(a, b) ==
  \/ a[1] < b[1]
  \/ a[1] = b[1] /\ a[2] < b[2]
  \/ a[1] = b[1] /\ a[2] = b[2] /\ a[3] < b[3]
  \/ a[1] = b[1] /\ a[2] = b[2] /\ a[3] = b[3] /\ a[4] < b[4]

\* A set of nodes that shrinks.
LEMMA Shrinks ==
  ASSUME NEW S \in SUBSET Node, NEW T \in SUBSET S
  PROVE  /\ Cardinality(T) \in Nat /\ Cardinality(S) \in Nat
         /\ Cardinality(T) <= Cardinality(S)
         /\ T # S => Cardinality(T) < Cardinality(S)
<1>1. IsFiniteSet(S)
  BY NodeAssumption, FS_Subset
<1>2. IsFiniteSet(T) /\ Cardinality(T) <= Cardinality(S) /\ (T # S => Cardinality(T) # Cardinality(S))
  BY <1>1, FS_Subset
<1>3. Cardinality(T) \in Nat /\ Cardinality(S) \in Nat
  BY <1>1, <1>2, FS_CardinalityType
<1> QED  BY <1>2, <1>3

LEMMA MeasureTyped == IInv => Measure \in Nat \X Nat \X Nat \X Nat
<1> SUFFICES ASSUME IInv PROVE Measure \in Nat \X Nat \X Nat \X Nat
  OBVIOUS
<1>1. Waiting \in SUBSET Node /\ todo \in SUBSET Node /\ running \in SUBSET Node
  BY DEF IInv, TypeOK, Waiting, Undecided
<1>2. /\ Cardinality(Waiting) \in Nat /\ Cardinality(todo) \in Nat
      /\ Cardinality(running) \in Nat
  BY <1>1, Shrinks
<1>3. Len(handles) \in Nat
  BY DEF IInv, TypeOK
<1>4. Phase \in Nat
  BY DEF Phase
<1>5. InHand \in Nat
  BY <1>2, <1>3 DEF InHand
<1> QED  BY <1>2, <1>4, <1>5 DEF Measure

\* What has to be shown of a step of the engine, and of one of an executor.
LEMMA EngineLess ==
  ASSUME IInv, Waiting' \subseteq Waiting,
         \/ Waiting' # Waiting
         \/ Phase' < Phase
         \/ Phase' = Phase /\ InHand' < InHand
  PROVE  Less(Measure', Measure)
<1>1. Waiting \in SUBSET Node
  BY DEF IInv, TypeOK, Waiting, Undecided
<1>2. /\ Cardinality(Waiting') \in Nat /\ Cardinality(Waiting) \in Nat
      /\ Cardinality(Waiting') <= Cardinality(Waiting)
      /\ Waiting' # Waiting => Cardinality(Waiting') < Cardinality(Waiting)
  BY <1>1, Shrinks
<1> QED  BY <1>2 DEF Measure, Less

LEMMA PhaseLess ==
  ASSUME IInv, IInv', Validate \/ BeginRound \/ BeginSpawn \/ BeginJoin \/ EndRound
  PROVE  Less(Measure', Measure)
<1>1. UNCHANGED <<completed, skipped, handles>> /\ Spawned' = Spawned
  BY DEF Validate, BeginRound, BeginSpawn, BeginJoin, EndRound, Spawned
<1>2. CASE BeginRound
  <2>1. /\ pc = "round" /\ todo = {} /\ todo' = pending /\ pending \subseteq Undecided
        /\ handles = <<>> /\ Spawned = {}
    BY <1>2 DEF BeginRound, IInv, TypeOK, Round, Ledger, Spawned
  <2>2. CASE pending = {}
    <3>1. pc' = "done" /\ Waiting' = Waiting
      BY <1>1, <1>2, <2>1, <2>2 DEF BeginRound, Waiting, Undecided
    <3>2. Phase' < Phase
      BY <2>1, <3>1 DEF Phase
    <3> QED  BY <3>1, <3>2, EngineLess
  <2>3. CASE pending # {}
    <3>1. pc' = "decide" /\ Waiting = Undecided /\ Waiting' = Undecided \ pending
      BY <1>1, <1>2, <2>1, <2>3 DEF BeginRound, Waiting, Undecided
    <3>2. Waiting' \subseteq Waiting /\ Waiting' # Waiting
      BY <2>1, <2>3, <3>1
    <3> QED  BY <3>2, EngineLess
  <2> QED  BY <2>2, <2>3
<1>3. CASE Validate \/ BeginSpawn \/ BeginJoin \/ EndRound
  <2>1. /\ UNCHANGED todo
        /\ \/ pc = "validate" /\ pc' \in {"failed", "round"}
           \/ pc = "decide" /\ pc' = "spawn"
           \/ pc = "spawn" /\ pc' = "join"
           \/ pc = "join" /\ pc' = "round"
    BY <1>3 DEF Validate, BeginSpawn, BeginJoin, EndRound
  <2>2. Waiting' \subseteq Waiting
    BY <1>1, <2>1 DEF Waiting, Undecided
  <2>3. Phase' < Phase
    BY <2>1 DEF Phase
  <2> QED  BY <2>2, <2>3, EngineLess
<1> QED  BY <1>2, <1>3

\* A node of the round is decided or handed to an executor.
LEMMA NodeLess ==
  ASSUME IInv, IInv', NEW n \in Node, NEW branch,
         EvalCondition(n, branch) \/ EndNode(n) \/ Spawn(n)
  PROVE  Less(Measure', Measure)
<1>1. /\ pc \in {"decide", "spawn"} /\ pc' = pc /\ n \in todo /\ todo' = todo \ {n}
      /\ todo \in SUBSET Node
  BY DEF EvalCondition, EndNode, Spawn, IInv, TypeOK
<1>2. Cardinality(todo') < Cardinality(todo)
  BY <1>1, Shrinks
<1>3. Phase' = Phase /\ InHand' < InHand
  BY <1>1, <1>2 DEF Phase, InHand
<1>4. Waiting' \subseteq Waiting
  <2>1. CASE EvalCondition(n, branch) \/ EndNode(n)
    <3>1. /\ completed' = completed \cup {n} /\ skipped \subseteq skipped'
          /\ handles' = handles
      BY <2>1 DEF EvalCondition, EndNode, Release
    <3> QED  BY <1>1, <3>1 DEF Waiting, Undecided, Spawned
  <2>2. CASE Spawn(n)
    <3>1. handles \in Seq(Node) /\ handles' = Append(handles, n)
          /\ UNCHANGED <<completed, skipped>>
      BY <2>2 DEF Spawn, IInv, TypeOK
    <3>2. Spawned' = Spawned \cup {n}
      BY <3>1 DEF Spawned
    <3> QED  BY <1>1, <3>1, <3>2 DEF Waiting, Undecided
  <2> QED  BY <2>1, <2>2
<1> QED  BY <1>3, <1>4, EngineLess

LEMMA JoinLess ==
  ASSUME IInv, IInv', JoinNext PROVE Less(Measure', Measure)
<1> DEFINE n == Head(handles)
<1>1. /\ pc = "join" /\ handles # <<>> /\ handles \in Seq(Node) /\ handles' = Tail(handles)
      /\ UNCHANGED todo
      /\ \/ pc' = "failed"
         \/ Release(n) /\ pc' = pc
  BY DEF JoinNext, IInv, TypeOK
<1>2. /\ Len(handles') = Len(handles) - 1 /\ Len(handles) \in Nat
      /\ Spawned \subseteq Spawned' \cup {n}
  <2>1. /\ Len(handles') = Len(handles) - 1
        /\ \A i \in 1 .. Len(handles') : handles'[i] = handles[i + 1]
        /\ n = handles[1] /\ DOMAIN handles = 1 .. Len(handles)
        /\ DOMAIN handles' = 1 .. Len(handles')
        /\ Len(handles) \in Nat \ {0}
    BY <1>1, HeadTailProperties
  <2>2. ASSUME NEW m \in Spawned, m # n PROVE m \in Spawned'
    <3>1. PICK i \in 1 .. Len(handles) : m = handles[i]
      BY <2>1, <2>2 DEF Spawned
    <3>2. i - 1 \in 1 .. Len(handles') /\ handles'[i - 1] = handles[i]
      BY <2>1, <2>2, <3>1
    <3> QED  BY <3>1, <3>2, <2>1 DEF Spawned
  <2> QED  BY <2>1, <2>2
<1>3. CASE pc' = "failed"
  <2>1. Waiting' = {} /\ Phase' < Phase
    BY <1>1, <1>3 DEF Waiting, Phase
  <2> QED  BY <2>1, EngineLess
<1>4. CASE Release(n) /\ pc' = pc
  <2>1. completed' = completed \cup {n} /\ skipped' = skipped
    BY <1>4 DEF Release
  <2>2. Waiting' \subseteq Waiting
    BY <1>1, <1>2, <1>4, <2>1 DEF Waiting, Undecided
  <2>3. Phase' = Phase /\ InHand' < InHand
    BY <1>1, <1>2, <1>4 DEF Phase, InHand
  <2> QED  BY <2>2, <2>3, EngineLess
<1> QED  BY <1>1, <1>3, <1>4

LEMMA ReturnLess ==
  ASSUME IInv, NEW n \in Node, Return(n) PROVE Less(Measure', Measure)
<1>1. /\ n \in running /\ running' = running \ {n} /\ running \in SUBSET Node
      /\ UNCHANGED <<pc, completed, skipped, todo, handles>>
  BY DEF Return, IInv, TypeOK
<1>2. Cardinality(running') < Cardinality(running)
  BY <1>1, Shrinks
<1>3. Waiting' = Waiting /\ Phase' = Phase /\ InHand' = InHand
  BY <1>1 DEF Waiting, Undecided, Spawned, Phase, InHand
<1> QED  BY <1>2, <1>3 DEF Measure, Less

(* run takes only finitely many steps, whatever the workflow, the answers  *)
(* of its conditions and the order in which executors return or fail: each *)
(* step leaves less to do (the loop of WorkflowEngine::run, which goes on  *)
(* as long as a round leaves nodes pending).                               *)
THEOREM EveryStepLeavesLess ==
  Spec => /\ [](Measure \in Nat \X Nat \X Nat \X Nat)
          /\ [][Less(Measure', Measure)]_vars
<1>1. IInv /\ IInv' /\ Next => Less(Measure', Measure)
  <2> SUFFICES ASSUME IInv, IInv', Next PROVE Less(Measure', Measure)
    OBVIOUS
  <2>1. CASE Engine
    BY <2>1, PhaseLess, NodeLess, JoinLess DEF Engine
  <2>2. ASSUME NEW n \in Node, Return(n) PROVE Less(Measure', Measure)
    BY <2>2, ReturnLess
  <2> QED  BY <2>1, <2>2 DEF Next
<1> QED  BY <1>1, MeasureTyped, Inductive, PTL DEF Spec

=============================================================================
