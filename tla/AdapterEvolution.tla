-------------------------- MODULE AdapterEvolution --------------------------
(***************************************************************************)
(* The life of the LoRA adapters of one role or task kind, from a training *)
(* run to its promotion (crytex-core/src/services/lora_evolution.rs), with *)
(* the table lora_adapters, the table training_jobs and the directories    *)
(* trainers write, which the kernel's commands and the desktop application *)
(* share.                                                                  *)
(*                                                                         *)
(* train_and_register_with_examples is taken await by await from the       *)
(* insertion of the job on.  A call that returns an error through `?`      *)
(* leaves everything as it is, like a process that dies: Leave is both.    *)
(* The n-th run has job n and, when it gets there, directory n; the        *)
(* adapter with the name key-vN has the id N.  Examples, metrics and       *)
(* thresholds are abstracted to whether a check accepts.                   *)
(***************************************************************************)
EXTENDS Integers, FiniteSets

CONSTANTS
  Proc,     \* commands and application windows
  Gated,    \* the processes that are given a benchmark gate
  Manual,   \* the ids an operator may register
  MaxRuns   \* bound: training runs

ASSUME RunsAssumption == MaxRuns \in Nat
ASSUME GatedAssumption == Gated \subseteq Proc
ASSUME ManualAssumption == Manual \cap Int = {} /\ IsFiniteSet(Manual)

Run == 1 .. MaxRuns

VARIABLES
  adapter,     \* the table lora_adapters
  job,         \* the table training_jobs
  disk,        \* the runs whose directory is there, and whole
  runs,        \* the number of runs so far
  pc, run,     \* where a process is in its call, and the number of its run
  known, old,  \* the ids it has listed, and those to deactivate
  passed,      \* history: runs that have passed every check of their process
  registered,  \* history: runs the inference service has taken the adapter of
  lost         \* history: a run has ended between its two halves of a switch

call == <<pc, run, known, old>>
history == <<passed, registered, lost>>
vars == <<adapter, job, disk, runs, call, history>>

\* The row of an adapter: its directory, the run whose metrics and gate evidence it
\* stores, and whether tasks are to use it.  An operator's file has the adapter's id.
Row == [artifact : Run \cup Manual, evidence : Run \cup Manual, active : BOOLEAN]

Listed == DOMAIN adapter
Active == {i \in Listed : adapter[i].active}

Init ==
  /\ adapter = [i \in {} |-> {}]
  /\ job = [n \in Run |-> "none"]
  /\ disk = {}
  /\ runs = 0
  /\ pc = [p \in Proc |-> "idle"]
  /\ run = [p \in Proc |-> 0]
  /\ known = [p \in Proc |-> {}]
  /\ old = [p \in Proc |-> {}]
  /\ passed = {} /\ registered = {} /\ lost = FALSE

Goto(p, step) == pc' = [pc EXCEPT ![p] = step]

\* The call returns: what it knew is gone.
Return(p) ==
  /\ Goto(p, "idle")
  /\ run' = [run EXCEPT ![p] = 0]
  /\ known' = [known EXCEPT ![p] = {}]
  /\ old' = [old EXCEPT ![p] = {}]

SetJob(p, status) == job' = [job EXCEPT ![run[p]] = status]

\* The last word on a run, whose error is ignored.
TrySetJob(p, status) == SetJob(p, status) \/ UNCHANGED job

-----------------------------------------------------------------------------
(* The run.                                                                *)

QueueJob(p) ==
  /\ pc[p] = "idle" /\ runs < MaxRuns
  /\ runs' = runs + 1
  /\ run' = [run EXCEPT ![p] = runs']
  /\ job' = [job EXCEPT ![runs'] = "queued"]
  /\ Goto(p, "start")
  /\ UNCHANGED <<adapter, disk, known, old, history>>

StartJob(p) ==
  /\ pc[p] = "start"
  /\ SetJob(p, "running")
  /\ Goto(p, "train")
  /\ UNCHANGED <<adapter, disk, runs, run, known, old, history>>

\* The trainer writes a directory with a new name.
Train(p) ==
  /\ pc[p] = "train"
  /\ disk' = disk \cup {run[p]}
  /\ Goto(p, "validate")
  /\ UNCHANGED <<adapter, job, runs, run, known, old, history>>

\* What it has written by then nobody removes, and nobody reads.
TrainFails(p) ==
  /\ pc[p] = "train"
  /\ Goto(p, "fail")
  /\ UNCHANGED <<adapter, job, disk, runs, run, known, old, history>>

\* The files, the overfit gap, the reward and the loss are found good.
Validate(p) ==
  /\ pc[p] = "validate"
  /\ Goto(p, "list")
  /\ passed' = IF p \in Gated THEN passed ELSE passed \cup {run[p]}
  /\ UNCHANGED <<adapter, job, disk, runs, run, known, old, registered, lost>>

\* Mutant: the gate is only asked about an adapter that replaces none.
ListGateFirstOnly(p) ==
  /\ pc[p] = "list"
  /\ known' = [known EXCEPT ![p] = Listed]
  /\ old' = [old EXCEPT ![p] = Active]
  /\ Goto(p, IF p \in Gated /\ Active = {} THEN "gate" ELSE "retire")
  /\ UNCHANGED <<adapter, job, disk, runs, run, history>>

\* What there is: the id, the baseline and the adapters to replace come from this.
List(p) ==
  /\ pc[p] = "list"
  /\ known' = [known EXCEPT ![p] = Listed]
  /\ old' = [old EXCEPT ![p] = Active]
  /\ Goto(p, IF p \in Gated THEN "gate" ELSE "retire")
  /\ UNCHANGED <<adapter, job, disk, runs, run, history>>

\* The gate accepts, with all its quality gates.
Accept(p) ==
  /\ pc[p] = "gate"
  /\ Goto(p, "retire")
  /\ passed' = passed \cup {run[p]}
  /\ UNCHANGED <<adapter, job, disk, runs, run, known, old, registered, lost>>

\* A check or the gate finds it bad.
Reject(p) ==
  /\ pc[p] \in {"validate", "gate"}
  /\ Goto(p, "discard")
  /\ UNCHANGED <<adapter, job, disk, runs, run, known, old, history>>

\* An error of the removal is ignored: the directory may stay as it is.
Discard(p) ==
  /\ pc[p] = "discard"
  /\ disk' \in {disk, disk \ {run[p]}}
  /\ Goto(p, "rollback")
  /\ UNCHANGED <<adapter, job, runs, run, known, old, history>>

Close(p) ==
  /\ pc[p] \in {"fail", "rollback"}
  /\ TrySetJob(p, IF pc[p] = "fail" THEN "failed" ELSE "rolled_back")
  /\ Return(p)
  /\ UNCHANGED <<adapter, disk, runs, history>>

-----------------------------------------------------------------------------
(* The promotion.                                                          *)

\* Mutant: whatever is active is deactivated, whether it was listed or not.
RetireAny(p) ==
  /\ pc[p] \in {"gate", "retire"}
  /\ \E i \in Active : adapter' = [adapter EXCEPT ![i].active = FALSE]
  /\ UNCHANGED <<job, disk, runs, call, history>>

\* One of the adapters that were active when they were listed is deactivated.
Retire(p) ==
  /\ pc[p] = "retire"
  /\ \E i \in old[p] :
       /\ adapter' = [adapter EXCEPT ![i].active = FALSE]
       /\ old' = [old EXCEPT ![p] = @ \ {i}]
  /\ UNCHANGED <<job, disk, runs, pc, run, known, history>>

Latest(ids) == CHOOSE n \in (ids \ Manual) \cup {0} : \A k \in ids \ Manual : k <= n

\* Mutant: the version is the number of adapters.
Next_adapter_id_counted(p) == Cardinality(known[p]) + 1

\* One more than the highest version that was listed; other names are skipped.
Next_adapter_id(p) == Latest(known[p]) + 1

\* INSERT ... ON CONFLICT(id) DO UPDATE, which leaves the metrics as they were.
Upserted(i, file) ==
  [k \in Listed \cup {i} |->
     IF k # i THEN adapter[k]
     ELSE [artifact |-> file, active |-> TRUE,
           evidence |-> IF i \in Listed THEN adapter[i].evidence ELSE file]]

\* Mutant: the row becomes active when the job is closed.
InsertInactive(p) ==
  /\ pc[p] = "retire" /\ old[p] = {}
  /\ adapter' = [Upserted(Next_adapter_id(p), run[p])
                   EXCEPT ![Next_adapter_id(p)].active = FALSE]
  /\ Goto(p, "register")
  /\ UNCHANGED <<job, disk, runs, run, known, old, history>>

Insert(p) ==
  /\ pc[p] = "retire" /\ old[p] = {}
  /\ adapter' = Upserted(Next_adapter_id(p), run[p])
  /\ Goto(p, "register")
  /\ UNCHANGED <<job, disk, runs, run, known, old, history>>

\* register_lora, and then the vector index, which keeps nothing that is read here.
Register(p) ==
  /\ pc[p] = "register"
  /\ registered' = registered \cup {run[p]}
  /\ Goto(p, "promote")
  /\ UNCHANGED <<adapter, job, disk, runs, run, known, old, passed, lost>>

\* Mutant: the job is closed before the backend has answered.
PromoteAtOnce(p) ==
  /\ pc[p] \in {"register", "promote"}
  /\ TrySetJob(p, "promoted")
  /\ Return(p)
  /\ UNCHANGED <<adapter, disk, runs, history>>

Promote(p) ==
  /\ pc[p] = "promote"
  /\ TrySetJob(p, "promoted")
  /\ Return(p)
  /\ UNCHANGED <<adapter, disk, runs, history>>

\* An error that is returned, or the end of the process.
Leave(p) ==
  /\ pc[p] # "idle"
  /\ lost' = (lost \/ pc[p] = "retire")
  /\ Return(p)
  /\ UNCHANGED <<adapter, job, disk, runs, passed, registered>>

-----------------------------------------------------------------------------
(* The operator.                                                           *)

\* crytex lora register: an adapter of one's own, active at once.
RegisterManual(i) ==
  /\ adapter' = Upserted(i, i)
  /\ UNCHANGED <<job, disk, runs, call, history>>

\* crytex lora swap and select, when the backend agrees: one more is active.
Swap(i) ==
  /\ adapter' = [adapter EXCEPT ![i].active = TRUE]
  /\ UNCHANGED <<job, disk, runs, call, history>>

Step(p) ==
  \/ QueueJob(p) \/ StartJob(p) \/ Train(p) \/ TrainFails(p) \/ Validate(p)
  \/ List(p) \/ Accept(p) \/ Reject(p) \/ Discard(p) \/ Close(p)
  \/ Retire(p) \/ Insert(p) \/ Register(p) \/ Promote(p) \/ Leave(p)

Next ==
  \/ \E p \in Proc : Step(p)
  \/ (\E i \in Manual : RegisterManual(i)) \/ (\E i \in Listed : Swap(i))

Spec == Init /\ [][Next]_vars

-----------------------------------------------------------------------------
(* Properties.                                                             *)

Place == {"start", "train", "validate", "list", "gate", "discard", "fail",
          "rollback", "retire", "register", "promote"}

Status == {"none", "queued", "running", "promoted", "failed", "rolled_back"}

\* The versions of a set of ids are 1, 2, ... without a gap.
Numbered(ids) == Latest(ids) \in Nat /\ ids \ Manual = 1 .. Latest(ids)

\* Each structure has the shape the code relies on, and the versions of a role or
\* kind have no gap (next_adapter_id).
TypeOK ==
  /\ adapter \in [Listed -> Row] /\ Numbered(Listed)
  /\ job \in [Run -> Status]
  /\ disk \subseteq Run /\ passed \subseteq Run /\ registered \subseteq Run
  /\ runs \in 0 .. MaxRuns
  /\ pc \in [Proc -> Place \cup {"idle"}]
  /\ run \in [Proc -> 0 .. MaxRuns]
  /\ known \in [Proc -> SUBSET Listed] /\ old \in [Proc -> SUBSET Listed]
  /\ \A p \in Proc : old[p] \subseteq known[p] /\ Numbered(known[p])
  /\ lost \in BOOLEAN

Files == {adapter[i].artifact : i \in Listed} \ Manual

\* Every adapter routing can choose, active or not (select_lora falls back on any
\* row), has passed all the checks of its process and is there as it was checked: no
\* run that races for an id slips past the gate, none removes the directory another's
\* row names, and the operator can activate no other.
Usable == Files \subseteq passed \cap disk

\* What the table of jobs says can be believed: a promoted run has passed its checks
\* and its adapter was taken by the inference service; the adapter of a run that
\* failed or was rolled back is in no row.
JobTruth ==
  \A n \in Run :
    /\ job[n] = "promoted" => n \in passed \cap registered
    /\ job[n] \in {"failed", "rolled_back"} => n \notin Files

\* "The previous active adapter remains active" when a challenger fails: an adapter
\* is only deactivated by a run that has passed its checks, and only if it was
\* there to be compared with.
PreviousStays ==
  [][\A i \in Active \ Active' :
       \E p \in Proc : run[p] \in passed /\ i \in known[p]]_vars

\* A role that has adapters has an active one, unless a run is between deactivating
\* the old and inserting the new, or was ended there: so two runs that replace the
\* same adapter, or each other's, never leave none.
Remains ==
  Listed # {} /\ Active = {} => lost \/ \E p \in Proc : pc[p] = "retire"

\* "Promotion happens only after ... runtime registration succeeds", and "failed
\* challengers are not registered as active adapters".  Not so: the row is active
\* before the service is asked, and stays so when it refuses.
PromotedRegistered ==
  \A i \in Active \ Manual :
    \/ adapter[i].artifact \in registered
    \/ \E p \in Proc : run[p] = adapter[i].artifact

\* "The promoted adapter metrics include the benchmark metadata."  Not so for two
\* runs that take the same id: the second file gets the first run's metrics.
EvidenceOwn == \A i \in Listed : adapter[i].evidence = adapter[i].artifact

=============================================================================
