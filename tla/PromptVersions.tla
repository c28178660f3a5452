--------------------------- MODULE PromptVersions ---------------------------
(***************************************************************************)
(* The prompt versions of one agent and who may change the active one      *)
(* (services/prompt_evolution.rs on the table of crytex-storage).          *)
(*                                                                         *)
(* Every `crytex` command is a process of its own, which seeds the agent   *)
(* before it serves a call; the desktop application is one that does not.  *)
(* A process may die anywhere.  Processes share the database and nothing   *)
(* else, so that one statement is a step, and a switch of the active       *)
(* version, two statements, is two.                                        *)
(***************************************************************************)
EXTENDS Integers

CONSTANTS
  Version,  \* version identities, in order of creation
  Proc      \* the processes

ASSUME VersionAssumption == Version \subseteq Nat \ {0}

Decision == {"none", "proposed", "promoted", "rejected", "rolled_back"}

Row == [active : BOOLEAN, decision : Decision]

VARIABLES
  made,    \* the versions that exist
  row,     \* the table
  pc,      \* where each process is
  arg,     \* the version its call is about and will activate
  base,    \* the active version a benchmark compares it with
  copy,    \* the row a call has read and will write back
  warrant, \* versions that were seeded, that a gate has accepted as better
           \* than the baseline and without regression, or that an operator chose
  lost     \* whether the last switch was lost: its process died half-way, or a
           \* reward wrote back the row as it was before

table == <<made, row>>
call == <<pc, arg, base, copy>>
past == <<warrant, lost>>
vars == <<table, call, past>>

Fresh(active) == [active |-> active, decision |-> "none"]

Active == {v \in made : row[v].active}

\* The identities an operator can have seen: those of calls that have returned.
Known == made \ {arg[p] : p \in {q \in Proc : pc[q] = "note"}}

Init ==
  /\ made = {} /\ row = [v \in Version |-> Fresh(FALSE)]
  /\ pc = [p \in Proc |-> "down"]
  /\ arg = [p \in Proc |-> 0] /\ base = [p \in Proc |-> 0]
  /\ copy = [p \in Proc |-> Fresh(FALSE)]
  /\ warrant = {} /\ lost = FALSE

Goto(p, l) == pc' = [pc EXCEPT ![p] = l]

\* The call is over; what it kept to itself goes out of scope.
Return(p) ==
  /\ Goto(p, "ready")
  /\ arg' = [arg EXCEPT ![p] = 0]
  /\ base' = [base EXCEPT ![p] = 0]
  /\ copy' = [copy EXCEPT ![p] = Fresh(FALSE)]

Insert(v, active) ==
  /\ v \in Version \ made /\ \A w \in Version \ made : v <= w
  /\ made' = made \cup {v}
  /\ row' = [row EXCEPT ![v] = Fresh(active)]

\* The version is about to be made the active one.
SwitchTo(p, v) == Goto(p, "clear") /\ arg' = [arg EXCEPT ![p] = v]

-----------------------------------------------------------------------------
(* set_active_prompt_version: two statements, each committed by itself.    *)

Clear(p) ==
  /\ pc[p] = "clear"
  /\ row' = [v \in Version |-> [row[v] EXCEPT !.active = FALSE]]
  /\ Goto(p, "raise")
  /\ UNCHANGED <<made, arg, base, copy, past>>

Raise(p) ==
  /\ pc[p] = "raise"
  /\ row' = [row EXCEPT ![arg[p]].active = TRUE]
  /\ Return(p)
  /\ lost' = FALSE
  /\ UNCHANGED <<made, warrant>>

-----------------------------------------------------------------------------
\* seed_agent, which every start calls: a new version, active from the start.
Seed(p) ==
  /\ pc[p] = "down"
  /\ \E v \in Version : /\ Insert(v, TRUE) /\ SwitchTo(p, v)
                        /\ warrant' = warrant \cup {v}
  /\ UNCHANGED <<base, copy, lost>>

\* A desktop application opens the database without seeding the agent.
Open(p) == pc[p] = "down" /\ Return(p) /\ UNCHANGED <<table, past>>

\* mutate, alone as evolve_step calls it: an inactive child.
Mutate(p) ==
  /\ pc[p] = "ready" /\ made # {}
  /\ \E v \in Version : Insert(v, FALSE)
  /\ UNCHANGED <<call, past>>

\* propose: a child of the active version, to be marked as proposed.
Propose(p) ==
  /\ pc[p] = "ready" /\ Active # {}
  /\ \E v \in Version : Insert(v, FALSE) /\ arg' = [arg EXCEPT ![p] = v]
  /\ Goto(p, "note")
  /\ UNCHANGED <<base, copy, past>>

Note(p) ==
  /\ pc[p] = "note"
  /\ row' = [row EXCEPT ![arg[p]] = [active |-> FALSE, decision |-> "proposed"]]
  /\ Return(p)
  /\ UNCHANGED <<made, past>>

-----------------------------------------------------------------------------
(* benchmark_challenger: the gate compares for minutes, then the challenger*)
(* is written, inactive, and it or the baseline becomes the active version.*)

\* get_active_prompt_version returns any row that is active.
Benchmark(p) ==
  /\ pc[p] = "ready"
  /\ \E c \in Known : \E b \in Active \ {c} :
       arg' = [arg EXCEPT ![p] = c] /\ base' = [base EXCEPT ![p] = b]
  /\ Goto(p, "gate")
  /\ UNCHANGED <<table, copy, past>>

\* Mutant: a missing regression report is no objection.
EnforceImprovementOnly(accepted, better, regression) == accepted /\ better

\* enforce_improvement_policy, then enforce_regression_policy.
Enforce(accepted, better, regression) == accepted /\ better /\ regression

\* Mutant: a rejected benchmark writes its decision and leaves the switch alone.
RecordOnly(p, ok) ==
  /\ row' = [row EXCEPT ![arg[p]] =
               [active |-> FALSE, decision |-> IF ok THEN "promoted" ELSE "rejected"]]
  /\ IF ok THEN SwitchTo(p, arg[p]) /\ UNCHANGED <<base, copy>> ELSE Return(p)

\* Mutant: the decision is stored under another name than promote looks for.
RecordAccepted(p, ok) ==
  /\ row' = [row EXCEPT ![arg[p]] =
               [active |-> FALSE, decision |-> IF ok THEN "accepted" ELSE "rejected"]]
  /\ SwitchTo(p, IF ok THEN arg[p] ELSE base[p])
  /\ UNCHANGED <<base, copy>>

Record(p, ok) ==
  /\ row' = [row EXCEPT ![arg[p]] =
               [active |-> FALSE, decision |-> IF ok THEN "promoted" ELSE "rejected"]]
  /\ SwitchTo(p, IF ok THEN arg[p] ELSE base[p])
  /\ UNCHANGED <<base, copy>>

Decide(p) ==
  /\ pc[p] = "gate"
  /\ \E accepted, better, regression \in BOOLEAN :
       /\ Record(p, Enforce(accepted, better, regression))
       /\ warrant' = IF accepted /\ better /\ regression
                     THEN warrant \cup {arg[p]} ELSE warrant
  /\ UNCHANGED <<made, lost>>

-----------------------------------------------------------------------------
\* Mutant: promote does not ask for an accepted benchmark.
PromoteAny(p) ==
  /\ pc[p] = "ready"
  /\ \E v \in Known : SwitchTo(p, v)
  /\ UNCHANGED <<table, base, copy, past>>

Promote(p) ==
  /\ pc[p] = "ready"
  /\ \E v \in Known : row[v].decision = "promoted" /\ SwitchTo(p, v)
  /\ UNCHANGED <<table, base, copy, past>>

\* rollback: the row as it was read is written back with the decision.
Rollback(p) ==
  /\ pc[p] = "ready"
  /\ \E v \in Known : /\ arg' = [arg EXCEPT ![p] = v]
                      /\ copy' = [copy EXCEPT ![p] = row[v]]
                      /\ warrant' = warrant \cup {v}
  /\ Goto(p, "rollback")
  /\ UNCHANGED <<table, base, lost>>

WriteBack(p) ==
  /\ pc[p] = "rollback"
  /\ row' = [row EXCEPT ![arg[p]] = [copy[p] EXCEPT !.decision = "rolled_back"]]
  /\ SwitchTo(p, arg[p])
  /\ UNCHANGED <<made, base, copy, past>>

\* recompute_fitness: the row is read, its fitness set, and written back whole.
Recompute(p) ==
  /\ pc[p] = "ready"
  /\ \E v \in Known : /\ arg' = [arg EXCEPT ![p] = v]
                      /\ copy' = [copy EXCEPT ![p] = row[v]]
  /\ Goto(p, "refit")
  /\ UNCHANGED <<table, base, past>>

Refit(p) ==
  /\ pc[p] = "refit"
  /\ row' = [row EXCEPT ![arg[p]] = copy[p]]
  /\ lost' = (lost \/ (row[arg[p]].active /\ ~copy[p].active))
  /\ Return(p)
  /\ UNCHANGED <<made, warrant>>

-----------------------------------------------------------------------------
\* The process exits, or dies in the middle of a call.
Stop(p) ==
  /\ pc[p] # "down"
  /\ lost' = (lost \/ pc[p] \in {"clear", "raise"})
  /\ Goto(p, "down")
  /\ arg' = [arg EXCEPT ![p] = 0]
  /\ base' = [base EXCEPT ![p] = 0]
  /\ copy' = [copy EXCEPT ![p] = Fresh(FALSE)]
  /\ UNCHANGED <<table, warrant>>

Activation(p) == Clear(p) \/ Raise(p)
Creation(p) == Seed(p) \/ Open(p) \/ Mutate(p) \/ Propose(p) \/ Note(p)
Evaluation(p) == Benchmark(p) \/ Decide(p)
Operation(p) == Promote(p) \/ Rollback(p) \/ WriteBack(p)
Reward(p) == Recompute(p) \/ Refit(p)

Next ==
  \E p \in Proc : \/ Activation(p) \/ Creation(p) \/ Evaluation(p)
                  \/ Operation(p) \/ Reward(p) \/ Stop(p)

Spec == Init /\ [][Next]_vars

-----------------------------------------------------------------------------
TypeOK ==
  /\ made \subseteq Version
  /\ row \in [Version -> Row]
  /\ pc \in [Proc -> {"down", "ready", "clear", "raise", "note", "gate",
                      "rollback", "refit"}]
  /\ arg \in [Proc -> made \cup {0}]
  /\ base \in [Proc -> made \cup {0}]
  /\ copy \in [Proc -> Row]
  /\ warrant \subseteq made
  /\ lost \in BOOLEAN

Switching == \E p \in Proc : pc[p] \in {"clear", "raise"}

(* An active version is a seed, or a gate has accepted it on improvement   *)
(* and regression both, or an operator has asked for it: whatever copies   *)
(* and decisions, stale or not, the calls work with.                       *)
GatedActivation == Active \subseteq warrant

(* An agent that has been seeded is not left without an active version,    *)
(* though calls write rows back as they once read them: unless a switch    *)
(* has been lost, and then only until the next one.                        *)
PromptRemains == made = {} \/ lost \/ Switching \/ Active # {}

(* docs/PROMPT_EVOLUTION.md: "benchmark gates decide promotion; rollback   *)
(* is explicit and auditable": while the agent has an active version, none *)
(* takes its place that no gate has passed and no operator has chosen.     *)
RollbackExplicit ==
  [][Active # {} => Active' \ Active \subseteq warrant]_vars

=============================================================================
