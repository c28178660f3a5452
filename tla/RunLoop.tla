------------------------------ MODULE RunLoop -------------------------------
(***************************************************************************)
(* The desktop application at work on one project: goals planned by the    *)
(* orchestrator and decided by the user, and the runs that execute the     *)
(* board's ready tasks one after the other (crytex-tauri/src/commands.rs). *)
(*                                                                         *)
(* Each call of the task service is one step on the atomic board, which    *)
(* TaskService implements (LiveBoard).  What is not atomic is a command: a *)
(* run keeps its own copy of a task from the moment it picks it until it   *)
(* has stored the result, and the user and the other runs act meanwhile.   *)
(***************************************************************************)
EXTENDS TaskStatus, Integers, FiniteSets, Sequences

CONSTANTS
  Id,         \* task identities, in order of creation
  Run,        \* the start_run calls the user may make
  Codegen,    \* the roles of a plan, each stage behind the one before
  Debug,      \* the roles of a remediation plan
  MaxSteps,   \* StartRunCommand::max_steps
  MaxGoals,   \* bound: how many goals the user submits
  MaxMoves,   \* bound: how often the user drags a card
  UserMoves,  \* the columns the user drags cards to
  MaxIter,    \* bound: iteration_count up to which the user rejects a result
  Overlap     \* whether goals are submitted and runs started at the same time

ASSUME IdAssumption == Id \subseteq Nat \ {0}
ASSUME PlansAssumption ==
  Codegen \in Seq({"coder", "critic"}) /\ Debug \in Seq({"coder", "critic"})
ASSUME BoundsAssumption ==
  MaxSteps \in Nat /\ MaxGoals \in Nat /\ MaxMoves \in Nat /\ MaxIter \in Nat
  /\ Overlap \in BOOLEAN
ASSUME UserMovesAssumption == UserMoves \subseteq Status
ASSUME RunAssumption == "ui" \notin Run

\* payload["source"]: who made the task.
Source == {"goal", "stage", "rejection", "handoff"}

(* What a task has produced: nothing, an artifact that keeps its contract  *)
(* ("good", and "reject" for a critic's rejection), or one that does not.  *)
Outcome == {"none", "good", "reject", "bad"}

Role == {"architect", "coder", "critic"}

(* parent and about are 0 where there is none; about is the rejecting      *)
(* critic of a remediation and the source_task_id of a handoff repair,     *)
(* whose target_task_id is for.                                            *)
TaskRecord ==
  [parent : Id \cup {0}, role : Role, source : Source,
   about : Id \cup {0}, for : Id \cup {0}, rank : Int,
   status : Status, iter : Nat, result : Outcome]

Proc == Run \cup {"ui"}

VARIABLES
  made,      \* the tasks that exist
  task,      \* what the board says of each
  deps,      \* pairs <<task_id, depends_on>>
  pc,        \* the await each command has reached
  cur,       \* the task a run works on, the goal the user's command is about
  copy,      \* the run's own copy of it
  todo,      \* artifacts still to be repaired, tasks still to be held or freed
  fresh,     \* the task just submitted and not yet linked or started
  stages,    \* the subtasks the orchestrator has submitted for this command
  linked,    \* how many of them it has put behind their predecessor
  left,      \* steps a run has left
  moves,     \* bound: cards dragged so far
  released   \* tasks the user has freed for execution

board == <<made, task, deps>>
local == <<pc, cur, copy, todo, fresh, stages, linked, left>>
vars == <<board, local, moves, released>>

NewTask(parent, role, source, rank) ==
  [parent |-> parent, role |-> role, source |-> source, about |-> 0, for |-> 0,
   rank |-> rank, status |-> "Pending", iter |-> 0, result |-> "none"]

Unmade == NewTask(0, "coder", "stage", 0)

-----------------------------------------------------------------------------
(* The task service, as the commands use it.                               *)

\* The next identity: a ULID, later than all before.
NextId(i) == i \in Id \ made /\ \A j \in Id \ made : i <= j

Submit(i, new) ==
  /\ NextId(i)
  /\ made' = made \cup {i}
  /\ task' = [task EXCEPT ![i] = new]

MoveTo(i, s) == task' = [task EXCEPT ![i].status = s]

Accepts(i, s) == ValidTransition(task[i].status, s)

ParentsDone(i) == \A d \in made : <<i, d>> \in deps => task[d].status \in Finished

Ready == {i \in made : task[i].status \in Runnable /\ ParentsDone(i)}

\* Mutant: dependencies are not looked at.
NextOfAll ==
  LET Able == {i \in made : task[i].status \in Runnable}
  IN {i \in Able : \A j \in Able : \/ task[i].rank > task[j].rank
                                   \/ task[i].rank = task[j].rank /\ i <= j}

\* next_project_ready_task: the highest priority, then the oldest.
NextTask ==
  {i \in Ready : \A j \in Ready : \/ task[i].rank > task[j].rank
                                  \/ task[i].rank = task[j].rank /\ i <= j}

-----------------------------------------------------------------------------
Init ==
  /\ made = {} /\ deps = {} /\ task = [i \in Id |-> Unmade]
  /\ pc = [p \in Proc |-> "idle"]
  /\ cur = [p \in Proc |-> 0]
  /\ copy = [p \in Proc |-> Unmade]
  /\ todo = [p \in Proc |-> {}]
  /\ fresh = [p \in Proc |-> 0]
  /\ stages = [p \in Proc |-> <<>>]
  /\ linked = [p \in Proc |-> 0]
  /\ left = [r \in Run |-> 0]
  /\ moves = 0 /\ released = {}

Goto(p, l) == pc' = [pc EXCEPT ![p] = l]

\* What a command, or one step of a run, kept to itself goes out of scope.
Leave(p, l) ==
  /\ Goto(p, l)
  /\ cur' = [cur EXCEPT ![p] = 0]
  /\ copy' = [copy EXCEPT ![p] = Unmade]
  /\ todo' = [todo EXCEPT ![p] = {}]
  /\ fresh' = [fresh EXCEPT ![p] = 0]
  /\ stages' = [stages EXCEPT ![p] = <<>>]
  /\ linked' = [linked EXCEPT ![p] = 0]

\* A command is over: it returned its response, or the error of a service call.
Return(p) ==
  Leave(p, "idle") /\ left' = [r \in Run |-> IF r = p THEN 0 ELSE left[r]]

\* A run goes on to its next step.
Again(r) == Leave(r, "pick") /\ UNCHANGED left

Planning == pc["ui"] \in {"begin", "stages", "links", "hold", "offer"}
Idle == \A r \in Run : pc[r] = "idle"

-----------------------------------------------------------------------------
(* OrchestratorImpl: a plan is a chain of stages, submitted one by one and *)
(* then put behind one another.                                            *)

Workflow(i) == IF task[i].source = "rejection" THEN Debug ELSE Codegen

SubmitStage(p) ==
  /\ pc[p] = "stages"
  /\ Len(stages[p]) < Len(Workflow(fresh[p]))
  /\ \E i \in Id :
       /\ Submit(i, NewTask(fresh[p], Workflow(fresh[p])[Len(stages[p]) + 1],
                            "stage", task[fresh[p]].rank))
       /\ stages' = [stages EXCEPT ![p] = Append(@, i)]
  /\ linked' = [linked EXCEPT ![p] = 1]
  /\ UNCHANGED <<deps, pc, cur, copy, todo, fresh, left, moves, released>>

StagesSubmitted(p) ==
  /\ pc[p] = "stages"
  /\ Len(stages[p]) = Len(Workflow(fresh[p]))
  /\ Goto(p, "links")
  /\ UNCHANGED <<board, cur, copy, todo, fresh, stages, linked, left, moves,
                 released>>

LinkStage(p) ==
  /\ pc[p] = "links"
  /\ linked[p] < Len(stages[p])
  /\ deps' = deps \cup {<<stages[p][linked[p] + 1], stages[p][linked[p]]>>}
  /\ linked' = [linked EXCEPT ![p] = @ + 1]
  /\ UNCHANGED <<made, task, pc, cur, copy, todo, fresh, stages, left, moves,
                 released>>

StagesLinked(p) ==
  /\ pc[p] = "links"
  /\ linked[p] >= Len(stages[p])
  /\ IF p = "ui"
     THEN /\ Goto(p, "hold")
          /\ todo' = [todo EXCEPT ![p] = {stages[p][k] : k \in DOMAIN stages[p]}]
     ELSE Goto(p, "conclude") /\ UNCHANGED todo
  /\ UNCHANGED <<board, cur, copy, fresh, stages, linked, left, moves, released>>

-----------------------------------------------------------------------------
(* submit_goal, approve_plan, reject_plan: commands of the user that call  *)
(* the service several times.                                              *)

SubmitGoal ==
  /\ pc["ui"] = "idle"
  /\ Overlap \/ Idle
  /\ Cardinality({g \in made : task[g].source = "goal"}) < MaxGoals
  /\ \E i \in Id : /\ Submit(i, NewTask(0, "architect", "goal", 10))
                   /\ fresh' = [fresh EXCEPT !["ui"] = i]
  /\ Goto("ui", "begin")
  /\ UNCHANGED <<deps, cur, copy, todo, stages, linked, left, moves, released>>

\* The goal, or the remediation, is InProgress while it is planned.
BeginPlan(p) ==
  /\ pc[p] = "begin"
  /\ IF Accepts(fresh[p], "InProgress")
     THEN /\ MoveTo(fresh[p], "InProgress")
          /\ Goto(p, "stages")
          /\ UNCHANGED <<cur, copy, todo, fresh, stages, linked, left>>
     ELSE Return(p) /\ UNCHANGED task
  /\ UNCHANGED <<made, deps, moves, released>>

\* One set_status of a loop over tasks; the first that is refused ends the command.
Each(i, s) ==
  IF Accepts(i, s)
  THEN /\ MoveTo(i, s)
       /\ todo' = [todo EXCEPT !["ui"] = @ \ {i}]
       /\ UNCHANGED <<pc, cur, copy, fresh, stages, linked, left>>
  ELSE Return("ui") /\ UNCHANGED task

\* Mutant: the generated tasks are not held back.
HoldNothing ==
  /\ pc["ui"] = "hold"
  /\ \E i \in todo["ui"] : todo' = [todo EXCEPT !["ui"] = @ \ {i}]
  /\ UNCHANGED <<board, pc, cur, copy, fresh, stages, linked, left, moves, released>>

Hold ==
  /\ pc["ui"] = "hold"
  /\ \E i \in todo["ui"] : (\A j \in todo["ui"] : i <= j) /\ Each(i, "Backlog")
  /\ UNCHANGED <<made, deps, moves, released>>

Offer ==
  /\ pc["ui"] = "hold" /\ todo["ui"] = {}
  /\ IF Accepts(fresh["ui"], "Review") THEN MoveTo(fresh["ui"], "Review")
                                       ELSE UNCHANGED task
  /\ Return("ui")
  /\ UNCHANGED <<made, deps, moves, released>>

\* child_plan_tasks
Children(g) == {i \in made : task[i].parent = g}

\* The user decides on a goal that the board shows in Review.
DecidePlan ==
  /\ pc["ui"] = "idle"
  /\ \E g \in made :
       /\ task[g].source = "goal" /\ task[g].status = "Review"
       /\ cur' = [cur EXCEPT !["ui"] = g]
       /\ todo' = [todo EXCEPT !["ui"] = Children(g)]
       /\ \/ Goto("ui", "free")
          \/ task[g].iter < MaxIter /\ Goto("ui", "drop")
  /\ UNCHANGED <<board, copy, fresh, stages, linked, left, moves, released>>

Free ==
  /\ pc["ui"] = "free"
  /\ \E i \in todo["ui"] :
       /\ Each(i, "Pending")
       /\ released' = IF Accepts(i, "Pending") THEN released \cup {i} ELSE released
  /\ UNCHANGED <<made, deps, moves>>

ApprovePlan ==
  /\ pc["ui"] = "free" /\ todo["ui"] = {}
  /\ IF Accepts(cur["ui"], "Completed") THEN MoveTo(cur["ui"], "Completed")
                                        ELSE UNCHANGED task
  /\ Return("ui")
  /\ UNCHANGED <<made, deps, moves, released>>

Drop ==
  /\ pc["ui"] = "drop"
  /\ \E i \in todo["ui"] : Each(i, "Cancelled")
  /\ UNCHANGED <<made, deps, moves, released>>

\* TaskService::retry
Retry(i) ==
  IF task[i].status \notin Terminal /\ Accepts(i, "Pending")
  THEN task' = [task EXCEPT ![i].status = "Pending", ![i].iter = @ + 1]
  ELSE UNCHANGED task

RejectPlan ==
  /\ pc["ui"] = "drop" /\ todo["ui"] = {}
  /\ Retry(cur["ui"])
  /\ Return("ui")
  /\ UNCHANGED <<made, deps, moves, released>>

(* approve_task_review and reject_task_review: no other command of the     *)
(* user runs between their calls, and no run writes a task in Review.      *)
ApproveReview ==
  /\ pc["ui"] = "idle"
  /\ \E i \in made : task[i].status = "Review" /\ MoveTo(i, "Completed")
  /\ UNCHANGED <<made, deps, local, moves, released>>

RejectReview ==
  /\ pc["ui"] = "idle"
  /\ \E i \in made : /\ task[i].status = "Review" /\ task[i].iter < MaxIter
                     /\ Retry(i)
                     /\ released' = released \cup {i}
  /\ UNCHANGED <<made, deps, local, moves>>

\* set_task_status: the user drags a card to another column.
SetTaskStatus ==
  /\ pc["ui"] = "idle"
  /\ moves < MaxMoves
  /\ \E i \in made, s \in UserMoves :
       /\ Accepts(i, s) /\ task[i].status # s
       /\ MoveTo(i, s)
       /\ released' = IF s \in Runnable THEN released \cup {i} ELSE released
  /\ moves' = moves + 1
  /\ UNCHANGED <<made, deps, local>>

-----------------------------------------------------------------------------
(* start_run_with_orchestrator.                                            *)

\* A run that finds nothing ready changes nothing and is left out.
StartRun(r) ==
  /\ pc[r] = "idle" /\ Ready # {}
  /\ Overlap \/ (Idle /\ ~Planning)
  /\ left' = [left EXCEPT ![r] = MaxSteps]
  /\ Goto(r, "pick")
  /\ UNCHANGED <<board, cur, copy, todo, fresh, stages, linked, moves, released>>

\* Mutant: a step is taken although none is left.
PickUncapped(r) ==
  /\ pc[r] = "pick"
  /\ \E i \in NextTask : /\ cur' = [cur EXCEPT ![r] = i]
                         /\ copy' = [copy EXCEPT ![r] = task[i]]
  /\ left' = [left EXCEPT ![r] = @ - 1]
  /\ Goto(r, "attach")
  /\ UNCHANGED <<board, todo, fresh, stages, linked, moves, released>>

Pick(r) ==
  /\ pc[r] = "pick" /\ left[r] > 0
  /\ \E i \in NextTask : /\ cur' = [cur EXCEPT ![r] = i]
                         /\ copy' = [copy EXCEPT ![r] = task[i]]
  /\ left' = [left EXCEPT ![r] = @ - 1]
  /\ Goto(r, "attach")
  /\ UNCHANGED <<board, todo, fresh, stages, linked, moves, released>>

\* Mutant: a run whose steps are spent waits for the board to be empty.
FinishWhenDone(r) ==
  /\ pc[r] = "pick" /\ Ready = {}
  /\ Return(r)
  /\ UNCHANGED <<board, moves, released>>

Finish(r) ==
  /\ pc[r] = "pick"
  /\ left[r] = 0 \/ Ready = {}
  /\ Return(r)
  /\ UNCHANGED <<board, moves, released>>

(* attach_upstream_artifacts: what the completed siblings have produced,   *)
(* and which of it breaks its contract and has not been repaired for i.    *)
Upstream(i) ==
  {j \in made \ {i} : /\ task[i].parent # 0 /\ task[j].parent = task[i].parent
                      /\ task[j].status = "Completed" /\ task[j].result # "none"}

Recovered(i, j) ==
  \E k \in Upstream(i) : /\ task[k].source = "handoff"
                         /\ task[k].for = i /\ task[k].about = j
                         /\ task[k].result # "bad"

Broken(i) ==
  {j \in Upstream(i) : /\ task[j].result = "bad"
                       /\ ~(task[i].source = "handoff" /\ task[i].about = j)
                       /\ ~Recovered(i, j)}

\* Mutant: artifacts are handed over as they are.
AttachAll(r) ==
  /\ pc[r] = "attach"
  /\ Goto(r, "put")
  /\ UNCHANGED <<board, cur, copy, todo, fresh, stages, linked, left, moves,
                 released>>

Attach(r) ==
  /\ pc[r] = "attach"
  /\ todo' = [todo EXCEPT ![r] = Broken(cur[r])]
  /\ Goto(r, IF Broken(cur[r]) = {} THEN "put" ELSE "repair")
  /\ UNCHANGED <<board, cur, copy, fresh, stages, linked, left, moves, released>>

\* find_existing_artifact_handoff_remediation
Repairing(i, j) ==
  \E k \in made : /\ task[k].source = "handoff"
                  /\ task[k].for = i /\ task[k].about = j
                  /\ task[k].status \notin Terminal

(* create_artifact_handoff_remediation_task: the agent that made the       *)
(* artifact gets a task to repair it, more urgent than the one that waits. *)
Repair(r) ==
  /\ pc[r] = "repair"
  /\ \E j \in todo[r] :
       /\ \A k \in todo[r] : j <= k
       /\ IF Repairing(cur[r], j)
          THEN /\ todo' = [todo EXCEPT ![r] = @ \ {j}]
               /\ UNCHANGED <<made, task, pc, fresh>>
          ELSE /\ \E i \in Id :
                    /\ Submit(i, [NewTask(copy[r].parent, task[j].role, "handoff",
                                          copy[r].rank + 1)
                                  EXCEPT !.about = j, !.for = cur[r]])
                    /\ fresh' = [fresh EXCEPT ![r] = i]
               /\ Goto(r, "link")
               /\ UNCHANGED todo
  /\ UNCHANGED <<deps, cur, copy, stages, linked, left, moves, released>>

LinkRepair(r) ==
  /\ pc[r] = "link"
  /\ deps' = deps \cup {<<cur[r], fresh[r]>>}
  /\ todo' = [todo EXCEPT ![r] = @ \ {task[fresh[r]].about}]
  /\ Goto(r, "repair")
  /\ UNCHANGED <<made, task, cur, copy, fresh, stages, linked, left, moves, released>>

\* update_task: the run's copy replaces what the board says.
PutCopy(r) == task' = [task EXCEPT ![cur[r]] = copy[r]]

PutBack(r) ==
  /\ pc[r] = "repair" /\ todo[r] = {}
  /\ PutCopy(r)
  /\ Again(r)
  /\ UNCHANGED <<made, deps, moves, released>>

Put(r) ==
  /\ pc[r] = "put"
  /\ PutCopy(r)
  /\ Goto(r, "start")
  /\ UNCHANGED <<made, deps, cur, copy, todo, fresh, stages, linked, left, moves,
                 released>>

\* set_status of the task at hand; when it is refused the run ends.
SetStatus(r, s) ==
  IF Accepts(cur[r], s) THEN MoveTo(cur[r], s) ELSE Return(r) /\ UNCHANGED task

\* The step goes on with the task as set_status returned it ...
SetAndGo(r, s, next) ==
  /\ SetStatus(r, s)
  /\ Accepts(cur[r], s) =>
       /\ Goto(r, next)
       /\ copy' = [copy EXCEPT ![r] = [task[cur[r]] EXCEPT !.status = s]]
       /\ UNCHANGED <<cur, todo, fresh, stages, linked, left>>

\* ... or is over.
SetAndEnd(r, s) == SetStatus(r, s) /\ (Accepts(cur[r], s) => Again(r))

Start(r) ==
  /\ pc[r] = "start"
  /\ SetAndGo(r, "InProgress", "execute")
  /\ UNCHANGED <<made, deps, moves, released>>

(* TaskExecutor::execute, minutes long: a result that keeps the contract,  *)
(* one that does not and cannot be repaired, or an error.                  *)
Results(i) == IF task[i].role = "critic" THEN {"good", "reject"} ELSE {"good"}

Execute(r) ==
  /\ pc[r] = "execute"
  /\ \/ \E o \in Results(cur[r]) : /\ copy' = [copy EXCEPT ![r].result = o]
                                   /\ Goto(r, "store")
     \/ /\ copy' = [copy EXCEPT ![r].result = "bad"]
        /\ Goto(r, "store_bad") \/ Goto(r, "store_error")
  /\ UNCHANGED <<board, cur, todo, fresh, stages, linked, left, moves, released>>

StoreError(r) ==
  /\ pc[r] = "store_error"
  /\ PutCopy(r)
  /\ Goto(r, "give_up")
  /\ UNCHANGED <<made, deps, cur, copy, todo, fresh, stages, linked, left, moves,
                 released>>

GiveUp(r) ==
  /\ pc[r] = "give_up"
  /\ IF Accepts(cur[r], "Failed") THEN MoveTo(cur[r], "Failed") ELSE UNCHANGED task
  /\ Return(r)
  /\ UNCHANGED <<made, deps, moves, released>>

(* handle_agent_contract_rejection: one retry, written as a copy that is   *)
(* Pending again.                                                          *)
StoreBad(r) ==
  /\ pc[r] = "store_bad"
  /\ PutCopy(r)
  /\ Goto(r, IF copy[r].iter < 1 THEN "requeue" ELSE "fail")
  /\ UNCHANGED <<made, deps, cur, copy, todo, fresh, stages, linked, left, moves,
                 released>>

Requeue(r) ==
  /\ pc[r] = "requeue"
  /\ task' = [task EXCEPT ![cur[r]] = [copy[r] EXCEPT !.status = "Pending",
                                                      !.iter = @ + 1]]
  /\ Again(r)
  /\ UNCHANGED <<made, deps, moves, released>>

Fail(r) ==
  /\ pc[r] = "fail"
  /\ SetAndEnd(r, "Failed")
  /\ UNCHANGED <<made, deps, moves, released>>

\* should_escalate_reviewer_rejection
Escalates(c) == c.parent # 0 /\ task[c.parent].source = "rejection"

Store(r) ==
  /\ pc[r] = "store"
  /\ PutCopy(r)
  /\ Goto(r, IF copy[r].result # "reject" THEN "settle"
             ELSE IF Escalates(copy[r]) THEN "escalate" ELSE "fail_critic")
  /\ UNCHANGED <<made, deps, cur, copy, todo, fresh, stages, linked, left, moves,
                 released>>

\* Critics' results and those of tasks without a parent go to the user.
Settle(r) ==
  /\ pc[r] = "settle"
  /\ SetAndEnd(r, IF copy[r].role = "critic" \/ copy[r].parent = 0
                  THEN "Review" ELSE "Completed")
  /\ UNCHANGED <<made, deps, moves, released>>

Escalate(r) ==
  /\ pc[r] = "escalate"
  /\ IF Accepts(cur[r], "Review") THEN MoveTo(cur[r], "Review") ELSE UNCHANGED task
  /\ Return(r)
  /\ UNCHANGED <<made, deps, moves, released>>

\* Mutant: the rejecting critic fails and the run goes on.
FailCriticOnly(r) ==
  /\ pc[r] = "fail_critic"
  /\ SetAndEnd(r, "Failed")
  /\ UNCHANGED <<made, deps, moves, released>>

\* create_reviewer_remediation_plan
FailCritic(r) ==
  /\ pc[r] = "fail_critic"
  /\ SetAndGo(r, "Failed", "remedy")
  /\ UNCHANGED <<made, deps, moves, released>>

Remedy(r) ==
  /\ pc[r] = "remedy"
  /\ \E i \in Id :
       /\ Submit(i, [NewTask(copy[r].parent, "architect", "rejection",
                             copy[r].rank + 1) EXCEPT !.about = cur[r]])
       /\ fresh' = [fresh EXCEPT ![r] = i]
  /\ stages' = [stages EXCEPT ![r] = <<>>]
  /\ linked' = [linked EXCEPT ![r] = 0]
  /\ Goto(r, "begin")
  /\ UNCHANGED <<deps, cur, copy, todo, left, moves, released>>

(* set_result: the list of subtasks is no design artifact, the contract of *)
(* the architect, so the call is refused and the run ends with its error.  *)
Conclude(r) ==
  /\ pc[r] = "conclude"
  /\ Return(r)
  /\ UNCHANGED <<board, moves, released>>

-----------------------------------------------------------------------------
Orchestrate(p) ==
  BeginPlan(p) \/ SubmitStage(p) \/ StagesSubmitted(p) \/ LinkStage(p)
  \/ StagesLinked(p)

RunStep(r) ==
  \/ Pick(r) \/ Finish(r) \/ Attach(r) \/ Repair(r) \/ LinkRepair(r) \/ PutBack(r)
  \/ Put(r) \/ Start(r) \/ Execute(r) \/ StoreError(r) \/ GiveUp(r) \/ StoreBad(r)
  \/ Requeue(r) \/ Fail(r) \/ Store(r) \/ Settle(r) \/ Escalate(r) \/ FailCritic(r)
  \/ Remedy(r) \/ Conclude(r) \/ Orchestrate(r)

UiStep == Orchestrate("ui") \/ Hold \/ Offer \/ Free \/ ApprovePlan \/ Drop \/ RejectPlan

UserActs ==
  SubmitGoal \/ DecidePlan \/ ApproveReview \/ RejectReview \/ SetTaskStatus

Next == UserActs \/ UiStep \/ \E r \in Run : StartRun(r) \/ RunStep(r)

(* tokio polls a command that has been woken and an executor's request has *)
(* a timeout, so what has begun goes on.  The user need not do anything.   *)
Fairness == WF_vars(UiStep) /\ \A r \in Run : WF_vars(RunStep(r))

Spec == Init /\ [][Next]_vars /\ Fairness

-----------------------------------------------------------------------------
Executing(i) == \E r \in Run : pc[r] = "execute" /\ cur[r] = i

TypeOK ==
  /\ made \subseteq Id
  /\ task \in [Id -> TaskRecord]
  /\ deps \subseteq made \X made
  /\ pc \in [Proc -> {"idle", "begin", "stages", "links", "hold", "free", "drop",
                      "pick", "attach", "repair", "link", "put", "start", "execute",
                      "store", "store_bad", "store_error", "give_up", "requeue",
                      "fail", "settle", "escalate", "fail_critic", "remedy",
                      "conclude"}]
  /\ cur \in [Proc -> made \cup {0}]
  /\ copy \in [Proc -> TaskRecord]
  /\ todo \in [Proc -> SUBSET made]
  /\ fresh \in [Proc -> made \cup {0}]
  /\ stages \in [Proc -> Seq(made)]
  /\ linked \in [Proc -> Nat]
  /\ left \in [Run -> 0..MaxSteps]
  /\ moves \in 0..MaxMoves
  /\ released \subseteq made

(* An agent works on a task only when all that the task depends on is      *)
(* finished, although the run read the board some awaits ago.              *)
DependenciesFirst ==
  \A i \in made : Executing(i) =>
    \A d \in made : <<i, d>> \in deps => task[d].status \in Finished

(* No agent is handed an artifact that breaks its contract, unless it has  *)
(* been repaired for the task at hand or the task is the repair.           *)
HandoffClean ==
  \A i \in made : Executing(i) =>
    \A d \in made : <<i, d>> \in deps => d \notin Broken(i)

(* A task of a plan is worked on only after the user has released it.      *)
PlanHeld ==
  \A i \in made :
    Executing(i) /\ task[i].source = "stage" /\ task[task[i].parent].source = "goal"
      => i \in released

(* Once a run is over, the rejection of every critic has been answered: it *)
(* failed and a plan was made to remedy it, and that for a goal's critic   *)
(* only: a remedy that is rejected in its turn is the user's to decide.    *)
RejectionAnswered ==
  \A i \in made :
    /\ task[i].result = "reject" /\ task[i].status = "Failed"
    /\ \A r \in Run : cur[r] # i
    => /\ task[task[i].parent].source # "rejection"
       /\ \E m \in made : task[m].source = "rejection" /\ task[m].about = i

(* Every run returns.                                                      *)
RunReturns == \A r \in Run : []<>(pc[r] = "idle")

(* app_state.rs, sqlite_state_reviewer_rejection_creates_remediation_chain *)
(* _with_feedback: the remediation of a rejection is Completed when the    *)
(* run has made its plan.                                                  *)
RemediationCompleted ==
  \A m \in made :
    task[m].source = "rejection" /\ (\A p \in Proc : fresh[p] # m)
      => task[m].status = "Completed"

(* models.rs: "A terminal status cannot be resumed without explicit reset."*)
CancelStays ==
  [][\A i \in made : task[i].status = "Cancelled" => task'[i].status = "Cancelled"]_task

=============================================================================
