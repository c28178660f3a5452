----------------------------- MODULE WorkerPool -----------------------------
(***************************************************************************)
(* `crytex run`: the scheduler, the worker pool and the agent handler of   *)
(* the kernel, over the task board.                                        *)
(*                                                                         *)
(* The board is the atomic one TaskService implements (LiveBoard).  The    *)
(* pool works in batches: it takes up to Concurrency ready tasks, spawns a *)
(* handler for each and asks for the next batch when all have ended.  A    *)
(* handler is a chain of awaits on the task service and the agent, and a   *)
(* shutdown drops it at whichever of them it has reached.                  *)
(***************************************************************************)
EXTENDS TaskStatus, Naturals, FiniteSets

CONSTANTS
  Task,         \* the tasks load_all_tasks has put in memory
  Reviews,      \* the ones of kind "review"
  Parent,       \* the dependency graph: pairs <<depends_on, task_id>>
  Priority,     \* priority_score (ties are broken by created_at)
  Concurrency,  \* WorkerPool::new
  Loaded,       \* the statuses a task may have when the run starts
  Faults        \* what goes wrong in this run

AllFaults == {"agent", "contract", "database", "council", "panic", "shutdown"}

ASSUME ReviewsAssumption == Reviews \subseteq Task
ASSUME ParentAssumption == Parent \subseteq Task \X Task
ASSUME PriorityAssumption == Priority \in [Task -> Nat]
ASSUME ConcurrencyAssumption == Concurrency \in Nat
ASSUME LoadedAssumption == Loaded \subseteq Status
ASSUME FaultsAssumption == Faults \subseteq AllFaults

VARIABLES
  status,     \* the task board
  pool,       \* where WorkerPool::run is
  handler,    \* the await each task's handler has reached
  ended,      \* how the handler of a task ended
  cancelled   \* the pool's cancellation token

vars == <<status, pool, handler, ended, cancelled>>

Step == {"none", "start", "execute", "fail", "result", "council", "review"}
Ending == {"never", "ok", "error", "dropped"}

Running == {t \in Task : handler[t] # "none"}

ParentsCompleted(t) == \A p \in Task : <<p, t>> \in Parent => status[p] \in Finished

\* Mutant: list_ready does not look at the parents.
ListRunnable == {t \in Task : status[t] \in Runnable}

ListReady == {t \in Task : status[t] \in Runnable /\ ParentsCompleted(t)}

-----------------------------------------------------------------------------
Init ==
  /\ status \in [Task -> Loaded]
  /\ pool = IF Concurrency = 0 THEN "failed" ELSE "polling"
  /\ handler = [t \in Task |-> "none"]
  /\ ended = [t \in Task |-> "never"]
  /\ cancelled = FALSE

(* SchedulerImpl::next_batch: the ready tasks in descending priority, cut  *)
(* at the limit.                                                           *)
Batches(ready, limit) ==
  {B \in SUBSET ready :
     /\ Cardinality(B) = IF Cardinality(ready) < limit
                         THEN Cardinality(ready) ELSE limit
     /\ \A t \in B, u \in ready \ B : Priority[t] >= Priority[u]}

\* Mutant: the loop does not look at the token.
NextBatchAnyway ==
  /\ pool = "polling"
  /\ ListReady # {}
  /\ \E B \in Batches(ListReady, Concurrency) :
       handler' = [t \in Task |-> IF t \in B THEN "start" ELSE handler[t]]
  /\ pool' = "running"
  /\ UNCHANGED <<status, ended, cancelled>>

(* One turn of the loop of WorkerPool::run: the token, the next batch, a   *)
(* handler spawned for every task of it.                                   *)
NextBatch ==
  /\ pool = "polling"
  /\ ~cancelled
  /\ ListReady # {}
  /\ \E B \in Batches(ListReady, Concurrency) :
       handler' = [t \in Task |-> IF t \in B THEN "start" ELSE handler[t]]
  /\ pool' = "running"
  /\ UNCHANGED <<status, ended, cancelled>>

\* Mutant: the loop polls again while handlers run.
BatchEndsEarly ==
  /\ pool = "running"
  /\ pool' = "polling"
  /\ UNCHANGED <<status, handler, ended, cancelled>>

\* Mutant: a handler that fails is waited for for ever.
BatchEndsOk ==
  /\ pool = "running"
  /\ Running = {}
  /\ \A t \in Task : ended[t] # "error"
  /\ pool' = "polling"
  /\ UNCHANGED <<status, handler, ended, cancelled>>

\* The loop awaits every handle before it polls again.
BatchEnds ==
  /\ pool = "running"
  /\ Running = {}
  /\ pool' = "polling"
  /\ UNCHANGED <<status, handler, ended, cancelled>>

Stop ==
  /\ pool = "polling"
  /\ cancelled
  /\ pool' = "stopped"
  /\ UNCHANGED <<status, handler, ended, cancelled>>

Shutdown ==
  /\ "shutdown" \in Faults
  /\ cancelled' = TRUE
  /\ UNCHANGED <<status, pool, handler, ended>>

-----------------------------------------------------------------------------
(* AgentTaskHandler::handle, one action per await that changes something.  *)

End(t, how) ==
  /\ handler' = [handler EXCEPT ![t] = "none"]
  /\ ended' = [ended EXCEPT ![t] = how]

Reach(t, step) ==
  /\ handler' = [handler EXCEPT ![t] = step]
  /\ UNCHANGED ended

(* set_status: refused when the transition is not in the table.  When the  *)
(* row cannot be written the call fails, with the new status in memory.    *)
SetStatus(t, s) ==
  status' = IF ValidTransition(status[t], s) THEN [status EXCEPT ![t] = s]
                                             ELSE status

Answers(t, s) ==
  {a \in {"ok", "error"} : IF a = "ok" THEN ValidTransition(status[t], s)
                           ELSE \/ ~ValidTransition(status[t], s)
                                \/ "database" \in Faults}

Start(t) ==
  /\ handler[t] = "start"
  /\ SetStatus(t, "InProgress")
  /\ \/ "ok" \in Answers(t, "InProgress") /\ Reach(t, "execute")
     \/ "error" \in Answers(t, "InProgress") /\ End(t, "error")
  /\ UNCHANGED <<pool, cancelled>>

\* The agent answers, or its error sends the handler to its Err arm.
Execute(t) ==
  /\ handler[t] = "execute"
  /\ \/ Reach(t, "result")
     \/ "agent" \in Faults /\ Reach(t, "fail")
  /\ UNCHANGED <<status, pool, cancelled>>

\* Mutant: the Err arm puts the task back for another try.
FailRetries(t) ==
  /\ handler[t] = "fail"
  /\ status' = [status EXCEPT ![t] = "Pending"]
  /\ End(t, "error")
  /\ UNCHANGED <<pool, cancelled>>

\* The error of the set_status is ignored, the handler returns the agent's.
Fail(t) ==
  /\ handler[t] = "fail"
  /\ SetStatus(t, "Failed")
  /\ End(t, "error")
  /\ UNCHANGED <<pool, cancelled>>

(* set_result: an artifact that breaks its contract is refused and the     *)
(* status stays; otherwise the task is Completed, whatever the row says.   *)
Result(t) ==
  /\ handler[t] = "result"
  /\ \/ "contract" \in Faults /\ End(t, "error") /\ UNCHANGED status
     \/ /\ status' = [status EXCEPT ![t] = "Completed"]
        /\ \/ IF t \in Reviews THEN Reach(t, "council") ELSE End(t, "ok")
           \/ "database" \in Faults /\ End(t, "error")
  /\ UNCHANGED <<pool, cancelled>>

\* The council stores its score, or fails when no critic gave one.
Council(t) ==
  /\ handler[t] = "council"
  /\ \/ Reach(t, "review")
     \/ "council" \in Faults /\ End(t, "error")
  /\ UNCHANGED <<status, pool, cancelled>>

\* Mutant: the review task is put in Review without asking the table.
ReviewUnchecked(t) ==
  /\ handler[t] = "review"
  /\ status' = [status EXCEPT ![t] = "Review"]
  /\ End(t, "ok")
  /\ UNCHANGED <<pool, cancelled>>

Review(t) ==
  /\ handler[t] = "review"
  /\ SetStatus(t, "Review")
  /\ \E a \in Answers(t, "Review") : End(t, a)
  /\ UNCHANGED <<pool, cancelled>>

(* tokio::select! drops the handler at the await it has reached once the   *)
(* token is cancelled.                                                     *)
Drop(t) ==
  /\ cancelled
  /\ handler[t] # "none"
  /\ End(t, "dropped")
  /\ UNCHANGED <<status, pool, cancelled>>

(* A handler panics: its JoinError ends WorkerPool::run, and with it the   *)
(* select! of main: every other handler is dropped with the runtime.       *)
Panic(t) ==
  /\ "panic" \in Faults
  /\ pool = "running"
  /\ handler[t] = "execute"
  /\ pool' = "failed"
  /\ handler' = [u \in Task |-> "none"]
  /\ ended' = [u \in Task |-> IF handler[u] # "none" THEN "dropped" ELSE ended[u]]
  /\ UNCHANGED <<status, cancelled>>

-----------------------------------------------------------------------------
Handle(t) ==
  \/ Start(t) \/ Execute(t) \/ Fail(t) \/ Result(t) \/ Council(t) \/ Review(t)
  \/ Drop(t)

Next ==
  \/ NextBatch \/ BatchEnds \/ Stop \/ Shutdown
  \/ \E t \in Task : Handle(t) \/ Panic(t)

(* The executor runs every spawned task, and the clients of the inference  *)
(* backends give a request a timeout, so an agent's answer or error comes. *)
Fairness ==
  /\ WF_vars(NextBatch) /\ WF_vars(BatchEnds) /\ WF_vars(Stop)
  /\ \A t \in Task : WF_vars(Handle(t))

Spec == Init /\ [][Next]_vars /\ Fairness

-----------------------------------------------------------------------------
(* A task is at one step of one handler, and only while the pool runs.     *)
TypeOK ==
  /\ status \in [Task -> Status]
  /\ pool \in {"polling", "running", "stopped", "failed"}
  /\ handler \in [Task -> Step]
  /\ ended \in [Task -> Ending]
  /\ cancelled \in BOOLEAN
  /\ pool # "running" => Running = {}

(* A handler works on a task only while all the task's parents are         *)
(* finished, although the batch was chosen some awaits ago and the parents *)
(* have handlers of their own: a parent that leaves Completed for Review   *)
(* would pull the ground from under its children.                          *)
ParentsFirst == \A t \in Running : ParentsCompleted(t)

(* No task is worked on twice in a run: what a handler has ended, however  *)
(* it ended, the scheduler does not hand out again.  The one exception is  *)
(* a handler dropped before it could say that it had started.              *)
OnlyOnce ==
  \A t \in Task : ended[t] \in {"ok", "error"} => t \notin ListReady \cup Running

(* Every ready task is taken up, whatever its priority and however many    *)
(* tasks are before it, unless the pool is told to stop or dies.           *)
NoStarvation ==
  \A t \in Task : t \in ListReady ~> \/ status[t] \notin Runnable
                                     \/ cancelled \/ pool = "failed"

(* A batch never keeps the pool: it is always polling again, stopped or    *)
(* dead, whichever of its handlers failed.                                 *)
BatchesEnd == []<>(pool # "running")

(* A pool that is told to stop does, and leaves no handler behind.         *)
ShutdownStops == cancelled ~> pool \in {"stopped", "failed"} /\ Running = {}

(* The handlers only make moves the board allows: no status of a stale     *)
(* Task is ever written over what the board says.                          *)
Board == INSTANCE TaskBoard WITH Absent <- "absent"
LegalMoves == [][Board!Next]_status

-----------------------------------------------------------------------------
(* Statements of the source's own comments that the code does not keep.    *)

(* main.rs: "Store the review result, then run the critic council and move *)
(* to Review status for human approval."                                   *)
ReviewsReachReview ==
  \A t \in Reviews : ended[t] # "never" => status[t] = "Review"

(* worker.rs, TaskHandler: "Implementations are responsible for status     *)
(* updates and result persistence."  A task whose handler has ended is not *)
(* left InProgress.                                                        *)
HandlerSettles == \A t \in Task : ended[t] = "error" => status[t] # "InProgress"

=============================================================================
