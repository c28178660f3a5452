------------------------ MODULE PromptVersions_proofs -----------------------
(***************************************************************************)
(* What holds of the prompt versions of an agent for every set of versions *)
(* and of processes.                                                       *)
(*                                                                         *)
(* The argument: every copy a call works with, however stale, speaks well  *)
(* only of versions that have a warrant, and a warrant is never withdrawn. *)
(* And the version a proposal has not yet returned is nobody else's        *)
(* business, so that noting it cannot take the active version away.        *)
(***************************************************************************)
EXTENDS PromptVersions, TLAPS

\* What the table says of a version, it says of one that has a warrant.
Warranted ==
  \A v \in Version : row[v].active \/ row[v].decision = "promoted" => v \in warrant

\* So does what a call keeps, from its first read to its last write.
Held ==
  \A p \in Proc :
    /\ pc[p] \notin {"down", "ready"} => arg[p] \in made
    /\ pc[p] \in {"clear", "raise", "rollback"} => arg[p] \in warrant
    /\ pc[p] = "gate" => base[p] \in warrant
    /\ pc[p] = "refit" /\ (copy[p].active \/ copy[p].decision = "promoted")
         => arg[p] \in warrant

\* A proposal that has not returned is inactive, and no other call knows it.
Unseen ==
  \A p \in Proc : pc[p] = "note" =>
    /\ ~row[arg[p]].active
    /\ \A q \in Proc \ {p} : arg[q] # arg[p] /\ base[q] # arg[p]

IInv == TypeOK /\ Warranted /\ Held /\ Unseen /\ PromptRemains

-----------------------------------------------------------------------------
(* Identities are positive: 0 is none.                                     *)
LEMMA ZeroIsNone == 0 \notin Version
BY VersionAssumption

LEMMA ClearKeeps ==
  ASSUME IInv, NEW p \in Proc, Clear(p)
  PROVE  IInv'
<1> USE ZeroIsNone DEF IInv, Clear, Goto, table, call, past
<1>1. TypeOK'
  BY DEF TypeOK, Held, Row, Decision
<1>2. Warranted'
  BY DEF TypeOK, Warranted, Held, Row, Decision
<1>3. Held'
  BY DEF TypeOK, Warranted, Held, Row, Decision
<1>4. Unseen'
  <2>1. SUFFICES ASSUME NEW q \in Proc, pc'[q] = "note"
                 PROVE  /\ ~row'[arg'[q]].active
                        /\ \A r \in Proc \ {q} : arg'[r] # arg'[q] /\ base'[r] # arg'[q]
    BY DEF Unseen
  <2>2. q # p /\ pc[q] = "note" /\ arg[q] \in Version
    BY <2>1 DEF TypeOK, Held
  <2>3. ~row'[arg[q]].active
    BY <2>2 DEF TypeOK, Row
  <2> QED  BY <2>2, <2>3 DEF Unseen
<1>5. PromptRemains'
  BY DEF TypeOK, Held, Unseen, PromptRemains, Switching, Active, Row, Decision
<1> QED  BY <1>1, <1>2, <1>3, <1>4, <1>5

LEMMA RaiseKeeps ==
  ASSUME IInv, NEW p \in Proc, Raise(p)
  PROVE  IInv'
<1> USE ZeroIsNone DEF IInv, Raise, Goto, Return, Fresh, table, call, past
<1>1. TypeOK'
  BY DEF TypeOK, Held, Row, Decision
<1>2. Warranted'
  BY DEF TypeOK, Warranted, Held, Row, Decision
<1>3. Held'
  BY DEF TypeOK, Warranted, Held, Row, Decision
<1>4. Unseen'
  BY DEF TypeOK, Held, Unseen, Row, Decision
<1>5. PromptRemains'
  BY DEF TypeOK, Held, Unseen, PromptRemains, Switching, Active, Row, Decision
<1> QED  BY <1>1, <1>2, <1>3, <1>4, <1>5

LEMMA SeedKeeps ==
  ASSUME IInv, NEW p \in Proc, Seed(p)
  PROVE  IInv'
<1> USE ZeroIsNone DEF IInv, Seed, Insert, Fresh, SwitchTo, Goto, table, call, past
<1>1. TypeOK'
  BY DEF TypeOK, Held, Row, Decision
<1>2. Warranted'
  BY DEF TypeOK, Warranted, Held, Row, Decision
<1>3. Held'
  BY DEF TypeOK, Warranted, Held, Row, Decision
<1>4. Unseen'
  BY DEF TypeOK, Held, Unseen, Row, Decision
<1>5. PromptRemains'
  BY DEF TypeOK, Held, Unseen, PromptRemains, Switching, Active, Row, Decision
<1> QED  BY <1>1, <1>2, <1>3, <1>4, <1>5

LEMMA OpenKeeps ==
  ASSUME IInv, NEW p \in Proc, Open(p)
  PROVE  IInv'
<1> USE ZeroIsNone DEF IInv, Open, Return, Goto, Fresh, table, call, past
<1>1. TypeOK'
  BY DEF TypeOK, Held, Row, Decision
<1>2. Warranted'
  BY DEF TypeOK, Warranted, Held, Row, Decision
<1>3. Held'
  BY DEF TypeOK, Warranted, Held, Row, Decision
<1>4. Unseen'
  BY DEF TypeOK, Held, Unseen, Row, Decision
<1>5. PromptRemains'
  BY DEF TypeOK, Held, Unseen, PromptRemains, Switching, Active, Row, Decision
<1> QED  BY <1>1, <1>2, <1>3, <1>4, <1>5

LEMMA MutateKeeps ==
  ASSUME IInv, NEW p \in Proc, Mutate(p)
  PROVE  IInv'
<1> USE ZeroIsNone DEF IInv, Mutate, Insert, Fresh, call, table, call, past
<1>1. TypeOK'
  BY DEF TypeOK, Held, Row, Decision
<1>2. Warranted'
  BY DEF TypeOK, Warranted, Held, Row, Decision
<1>3. Held'
  BY DEF TypeOK, Warranted, Held, Row, Decision
<1>4. Unseen'
  BY DEF TypeOK, Held, Unseen, Row, Decision
<1>5. PromptRemains'
  BY DEF TypeOK, Held, Unseen, PromptRemains, Switching, Active, Row, Decision
<1> QED  BY <1>1, <1>2, <1>3, <1>4, <1>5

LEMMA ProposeKeeps ==
  ASSUME IInv, NEW p \in Proc, Propose(p)
  PROVE  IInv'
<1> USE ZeroIsNone DEF IInv, Propose, Insert, Fresh, Goto, table, call, past
<1>1. TypeOK'
  BY DEF TypeOK, Held, Row, Decision
<1>2. Warranted'
  BY DEF TypeOK, Warranted, Held, Row, Decision
<1>3. Held'
  BY DEF TypeOK, Warranted, Held, Row, Decision
<1>4. Unseen'
  BY DEF TypeOK, Held, Unseen, Row, Decision
<1>5. PromptRemains'
  BY DEF TypeOK, Held, Unseen, PromptRemains, Switching, Active, Row, Decision
<1> QED  BY <1>1, <1>2, <1>3, <1>4, <1>5

LEMMA NoteKeeps ==
  ASSUME IInv, NEW p \in Proc, Note(p)
  PROVE  IInv'
<1> USE ZeroIsNone DEF IInv, Note, Return, Goto, Fresh, table, call, past
<1>1. TypeOK'
  BY DEF TypeOK, Held, Row, Decision
<1>2. Warranted'
  BY DEF TypeOK, Warranted, Held, Row, Decision
<1>3. Held'
  BY DEF TypeOK, Warranted, Held, Row, Decision
<1>4. Unseen'
  BY DEF TypeOK, Held, Unseen, Row, Decision
<1>5. PromptRemains'
  BY DEF TypeOK, Held, Unseen, PromptRemains, Switching, Active, Row, Decision
<1> QED  BY <1>1, <1>2, <1>3, <1>4, <1>5

LEMMA BenchmarkKeeps ==
  ASSUME IInv, NEW p \in Proc, Benchmark(p)
  PROVE  IInv'
<1> USE ZeroIsNone DEF IInv, Benchmark, Goto, Known, Active, table, call, past
<1>1. TypeOK'
  BY DEF TypeOK, Held, Row, Decision
<1>2. Warranted'
  BY DEF TypeOK, Warranted, Held, Row, Decision
<1>3. Held'
  BY DEF TypeOK, Warranted, Held, Row, Decision
<1>4. Unseen'
  BY DEF TypeOK, Held, Unseen, Row, Decision
<1>5. PromptRemains'
  BY DEF TypeOK, Held, Unseen, PromptRemains, Switching, Active, Row, Decision
<1> QED  BY <1>1, <1>2, <1>3, <1>4, <1>5

LEMMA DecideKeeps ==
  ASSUME IInv, NEW p \in Proc, Decide(p)
  PROVE  IInv'
<1> USE ZeroIsNone DEF IInv, Decide, Record, Enforce, SwitchTo, Goto, table, call, past
<1>1. TypeOK'
  BY DEF TypeOK, Held, Row, Decision
<1>2. Warranted'
  BY DEF TypeOK, Warranted, Held, Row, Decision
<1>3. Held'
  BY DEF TypeOK, Warranted, Held, Row, Decision
<1>4. Unseen'
  BY DEF TypeOK, Held, Unseen, Row, Decision
<1>5. PromptRemains'
  BY DEF TypeOK, Held, Unseen, PromptRemains, Switching, Active, Row, Decision
<1> QED  BY <1>1, <1>2, <1>3, <1>4, <1>5

LEMMA PromoteKeeps ==
  ASSUME IInv, NEW p \in Proc, Promote(p)
  PROVE  IInv'
<1> USE ZeroIsNone DEF IInv, Promote, Known, SwitchTo, Goto, table, call, past
<1>1. TypeOK'
  BY DEF TypeOK, Held, Row, Decision
<1>2. Warranted'
  BY DEF TypeOK, Warranted, Held, Row, Decision
<1>3. Held'
  BY DEF TypeOK, Warranted, Held, Row, Decision
<1>4. Unseen'
  BY DEF TypeOK, Held, Unseen, Row, Decision
<1>5. PromptRemains'
  BY DEF TypeOK, Held, Unseen, PromptRemains, Switching, Active, Row, Decision
<1> QED  BY <1>1, <1>2, <1>3, <1>4, <1>5

LEMMA RollbackKeeps ==
  ASSUME IInv, NEW p \in Proc, Rollback(p)
  PROVE  IInv'
<1> USE ZeroIsNone DEF IInv, Rollback, Known, Goto, table, call, past
<1>1. TypeOK'
  BY DEF TypeOK, Held, Row, Decision
<1>2. Warranted'
  BY DEF TypeOK, Warranted, Held, Row, Decision
<1>3. Held'
  BY DEF TypeOK, Warranted, Held, Row, Decision
<1>4. Unseen'
  BY DEF TypeOK, Held, Unseen, Row, Decision
<1>5. PromptRemains'
  BY DEF TypeOK, Held, Unseen, PromptRemains, Switching, Active, Row, Decision
<1> QED  BY <1>1, <1>2, <1>3, <1>4, <1>5

LEMMA WriteBackKeeps ==
  ASSUME IInv, NEW p \in Proc, WriteBack(p)
  PROVE  IInv'
<1> USE ZeroIsNone DEF IInv, WriteBack, SwitchTo, Goto, table, call, past
<1>1. TypeOK'
  BY DEF TypeOK, Held, Row, Decision
<1>2. Warranted'
  BY DEF TypeOK, Warranted, Held, Row, Decision
<1>3. Held'
  BY DEF TypeOK, Warranted, Held, Row, Decision
<1>4. Unseen'
  BY DEF TypeOK, Held, Unseen, Row, Decision
<1>5. PromptRemains'
  BY DEF TypeOK, Held, Unseen, PromptRemains, Switching, Active, Row, Decision
<1> QED  BY <1>1, <1>2, <1>3, <1>4, <1>5

LEMMA RecomputeKeeps ==
  ASSUME IInv, NEW p \in Proc, Recompute(p)
  PROVE  IInv'
<1> USE ZeroIsNone DEF IInv, Recompute, Known, Goto, table, call, past
<1>1. TypeOK'
  BY DEF TypeOK, Held, Row, Decision
<1>2. Warranted'
  BY DEF TypeOK, Warranted, Held, Row, Decision
<1>3. Held'
  BY DEF TypeOK, Warranted, Held, Row, Decision
<1>4. Unseen'
  BY DEF TypeOK, Held, Unseen, Row, Decision
<1>5. PromptRemains'
  BY DEF TypeOK, Held, Unseen, PromptRemains, Switching, Active, Row, Decision
<1> QED  BY <1>1, <1>2, <1>3, <1>4, <1>5

LEMMA RefitKeeps ==
  ASSUME IInv, NEW p \in Proc, Refit(p)
  PROVE  IInv'
<1> USE ZeroIsNone DEF IInv, Refit, Return, Goto, Fresh, table, call, past
<1>1. TypeOK'
  BY DEF TypeOK, Held, Row, Decision
<1>2. Warranted'
  BY DEF TypeOK, Warranted, Held, Row, Decision
<1>3. Held'
  BY DEF TypeOK, Warranted, Held, Row, Decision
<1>4. Unseen'
  BY DEF TypeOK, Held, Unseen, Row, Decision
<1>5. PromptRemains'
  BY DEF TypeOK, Held, Unseen, PromptRemains, Switching, Active, Row, Decision
<1> QED  BY <1>1, <1>2, <1>3, <1>4, <1>5

LEMMA StopKeeps ==
  ASSUME IInv, NEW p \in Proc, Stop(p)
  PROVE  IInv'
<1> USE ZeroIsNone DEF IInv, Stop, Goto, Fresh, table, call, past
<1>1. TypeOK'
  BY DEF TypeOK, Held, Row, Decision
<1>2. Warranted'
  BY DEF TypeOK, Warranted, Held, Row, Decision
<1>3. Held'
  BY DEF TypeOK, Warranted, Held, Row, Decision
<1>4. Unseen'
  BY DEF TypeOK, Held, Unseen, Row, Decision
<1>5. PromptRemains'
  BY DEF TypeOK, Held, Unseen, PromptRemains, Switching, Active, Row, Decision
<1> QED  BY <1>1, <1>2, <1>3, <1>4, <1>5

LEMMA NextKeeps == IInv /\ [Next]_vars => IInv'
<1> SUFFICES ASSUME IInv, [Next]_vars PROVE IInv'
  OBVIOUS
<1>1. ASSUME NEW p \in Proc, Activation(p) PROVE IInv'
  BY <1>1, ClearKeeps, RaiseKeeps DEF Activation
<1>2. ASSUME NEW p \in Proc, Creation(p) PROVE IInv'
  BY <1>2, SeedKeeps, OpenKeeps, MutateKeeps, ProposeKeeps, NoteKeeps DEF Creation
<1>3. ASSUME NEW p \in Proc, Evaluation(p) PROVE IInv'
  BY <1>3, BenchmarkKeeps, DecideKeeps DEF Evaluation
<1>4. ASSUME NEW p \in Proc, Operation(p) PROVE IInv'
  BY <1>4, PromoteKeeps, RollbackKeeps, WriteBackKeeps DEF Operation
<1>5. ASSUME NEW p \in Proc, Reward(p) PROVE IInv'
  BY <1>5, RecomputeKeeps, RefitKeeps DEF Reward
<1>6. CASE UNCHANGED vars
  BY <1>6 DEF IInv, TypeOK, Warranted, Held, Unseen, PromptRemains, Switching, Active,
              vars, table, call, past
<1> QED  BY <1>1, <1>2, <1>3, <1>4, <1>5, <1>6, StopKeeps DEF Next

LEMMA InitIInv == Init => IInv
<1> SUFFICES ASSUME Init PROVE IInv
  OBVIOUS
<1>1. Fresh(FALSE) \in Row
  BY DEF Fresh, Row, Decision
<1>2. TypeOK
  BY <1>1 DEF Init, TypeOK
<1>3. Warranted
  BY DEF Init, Warranted, Fresh
<1>4. Held /\ Unseen /\ PromptRemains
  BY DEF Init, Held, Unseen, PromptRemains
<1> QED  BY <1>2, <1>3, <1>4 DEF IInv

THEOREM Inductive == Spec => []IInv
BY InitIInv, NextKeeps, PTL DEF Spec

(* The state of the table and of the calls is of the declared kind.        *)
THEOREM TypeCorrect == Spec => []TypeOK
BY Inductive, PTL DEF IInv

(* No version is active without a seed, a gate or an operator behind it    *)
(* (benchmark_challenger, promote, rollback), however many processes work  *)
(* on the table at once and wherever they die.                             *)
THEOREM Gated == Spec => []GatedActivation
<1>1. IInv => GatedActivation
  BY DEF IInv, TypeOK, Warranted, GatedActivation, Active
<1> QED  BY <1>1, Inductive, PTL

(* The agent keeps an active version unless a switch is lost: no write of  *)
(* a stale row by propose, benchmark or rollback takes it away.            *)
THEOREM Remains == Spec => []PromptRemains
BY Inductive, PTL DEF IInv

=============================================================================
