---------------------------- MODULE TaskService -----------------------------
(***************************************************************************)
(* crytex-core TaskServiceImpl: the task map and the dependency graph it   *)
(* keeps in memory, the rows it writes through to SQLite, and the events   *)
(* it publishes.                                                           *)
(*                                                                         *)
(* A call is an async function: what it does while it holds a lock is one  *)
(* action here, and every await on the repository ends one.  Between the   *)
(* actions of a call, the calls of other clients run.  The calls order     *)
(* their writes differently - set_status and set_result write memory and   *)
(* then the row; the scores, retry and update_task write the row from a    *)
(* copy of the task and then put the copy back in memory - which is what   *)
(* the properties are about.                                               *)
(***************************************************************************)
EXTENDS TaskStatus, Naturals

CONSTANTS
  Task,           \* the tasks that may be submitted (their ULIDs)
  Client,         \* the futures that call the service concurrently
  Calls,          \* the kinds of call, and of failure, that happen
  Target,         \* the statuses set_status is asked for
  MaxIter,        \* bound: the highest iteration_count retry reaches
  SerialPerTask,  \* TRUE: a task is the subject of one call at a time
  Nil             \* no row, no call

AllCalls == {"submit", "set_status", "cancel", "set_result", "score", "retry",
             "update", "add_dependency", "reload", "crash", "db_error"}

ASSUME CallsAssumption == Calls \subseteq AllCalls
ASSUME TargetAssumption == Target \subseteq Status
ASSUME IterAssumption == MaxIter \in Nat
ASSUME SerialAssumption == SerialPerTask \in BOOLEAN

(***************************************************************************)
(* What the properties tell apart in a Task: its status, whether it has a  *)
(* result, how often it was retried and which scores it carries.           *)
(***************************************************************************)
Scorer == {"critic", "human"}

Row == [status : Status, result : BOOLEAN, iter : 0..MaxIter,
        scores : SUBSET Scorer]

NewRow == [status |-> "Pending", result |-> FALSE, iter |-> 0, scores |-> {}]

(***************************************************************************)
(* A call in flight, and the await it is suspended at.  "copy" is the Task *)
(* it carries across the await, "from" the status a move started from and  *)
(* "on" the parent of a dependency.                                        *)
(***************************************************************************)
Await == {"submit_node", "submit_mem", "cancel_write", "status_row",
          "status_event", "result_row", "result_event", "copy_row",
          "retry_row", "copy_mem", "retry_mem", "retry_event",
          "dep_row", "dep_link"}

Job == [at : Await, task : Task, on : Task, from : Status, copy : Row]

ASSUME NilAssumption == Nil \notin Row /\ Nil \notin Job /\ Nil \notin Status

VARIABLES
  mem,     \* tasks: RwLock<HashMap<String, Task>>
  node,    \* the tasks node_map has a graph node for
  edges,   \* graph: pairs <<depends_on, task_id>>
  repo,    \* the tasks table
  deps,    \* the task_dependencies table
  moved,   \* the last TaskMoved (or TaskCreated) published for a task
  op,      \* the call each client is in
  loader,  \* load_all_tasks, and what it has read so far
  up       \* the process has started: the initial load succeeded

vars == <<mem, node, edges, repo, deps, moved, op, loader, up>>

NoTasks == [t \in Task |-> Nil]
Submitted(rows) == {t \in Task : rows[t] # Nil}

(***************************************************************************)
(* petgraph's is_cyclic_directed, without recursion: a set of edges has a  *)
(* cycle iff in some non-empty set of vertices each one has a predecessor  *)
(* in the set.                                                             *)
(***************************************************************************)
Cyclic(E) ==
  \E S \in SUBSET Task : S # {} /\ \A n \in S : \E m \in S : <<m, n>> \in E

\* get: the memory map first, then the row.
Get(t) == IF mem[t] # Nil THEN mem[t] ELSE repo[t]

(***************************************************************************)
(* list_ready: the Pending and Ready tasks whose parents in the graph are  *)
(* finished.  A parent that is not in memory does not hold a task back.    *)
(***************************************************************************)
ParentsCompleted(t) ==
  \A p \in Task : <<p, t>> \in edges /\ mem[p] # Nil => mem[p].status \in Finished

ListReady ==
  {t \in Task : /\ mem[t] # Nil /\ mem[t].status \in Runnable
                /\ t \in node => ParentsCompleted(t)}

\* GraphStore::update_task_status: which columns a status write touches.
RowAfterStatus(row, s, result) ==
  [row EXCEPT !.status = s,
              !.result = IF s = "InProgress" THEN @
                         ELSE s \in Terminal \cup {"Review"} /\ result]

Busy(t) == \E c \in Client : op[c] # Nil /\ op[c].task = t

MayCall(c, call, t) ==
  /\ up
  /\ call \in Calls
  /\ op[c] = Nil
  /\ SerialPerTask => ~Busy(t)

Suspend(c, at, t, on, from, copy) ==
  op' = [op EXCEPT ![c] = [at |-> at, task |-> t, on |-> on,
                           from |-> from, copy |-> copy]]

At(c, at) == op[c] # Nil /\ op[c].at = at
Go(c, at) == op' = [op EXCEPT ![c].at = at]
Return(c) == op' = [op EXCEPT ![c] = Nil]

-----------------------------------------------------------------------------
Init ==
  /\ mem = NoTasks
  /\ node = {}
  /\ edges = {}
  /\ repo = NoTasks
  /\ deps = {}
  /\ moved = [t \in Task |-> <<"none", "none">>]
  /\ op = [c \in Client |-> Nil]
  /\ loader = Nil
  /\ up = TRUE

-----------------------------------------------------------------------------
(* submit: the row, then the graph node, then the map and TaskCreated.     *)

SubmitRow(c, t) ==
  /\ MayCall(c, "submit", t)
  /\ repo[t] = Nil
  /\ repo' = [repo EXCEPT ![t] = NewRow]
  /\ Suspend(c, "submit_node", t, t, "Pending", NewRow)
  /\ UNCHANGED <<mem, node, edges, deps, moved, loader, up>>

\* Mutant: the task gets no graph node.
SubmitNodeNoNode(c) ==
  /\ At(c, "submit_node")
  /\ Go(c, "submit_mem")
  /\ UNCHANGED <<mem, node, edges, repo, deps, moved, loader, up>>

SubmitNode(c) ==
  /\ At(c, "submit_node")
  /\ node' = node \cup {op[c].task}
  /\ Go(c, "submit_mem")
  /\ UNCHANGED <<mem, edges, repo, deps, moved, loader, up>>

SubmitMem(c) ==
  /\ At(c, "submit_mem")
  /\ mem' = [mem EXCEPT ![op[c].task] = op[c].copy]
  /\ moved' = [moved EXCEPT ![op[c].task] = <<"none", "ready">>]
  /\ Return(c)
  /\ UNCHANGED <<node, edges, repo, deps, loader, up>>

-----------------------------------------------------------------------------
(* set_status and cancel: memory is checked and written under the write    *)
(* lock, then the row is updated, then the events are published.           *)

\* Mutant: any move is legal.
CanMoveAnywhere(t, s) == mem[t] # Nil /\ mem[t].status # s

CanMove(t, s) ==
  /\ mem[t] # Nil
  /\ mem[t].status # s
  /\ ValidTransition(mem[t].status, s)

WriteStatus(c, t, s) ==
  LET new == [mem[t] EXCEPT !.status = s] IN
  /\ CanMove(t, s)
  /\ mem' = [mem EXCEPT ![t] = new]
  /\ Suspend(c, "status_row", t, t, mem[t].status, new)

SetStatus(c, t, s) ==
  /\ MayCall(c, "set_status", t)
  /\ WriteStatus(c, t, s)
  /\ UNCHANGED <<node, edges, repo, deps, moved, loader, up>>

\* cancel looks at the status under a read lock it gives back.
CancelCheck(c, t) ==
  /\ MayCall(c, "cancel", t)
  /\ mem[t] # Nil
  /\ mem[t].status \notin Terminal
  /\ Suspend(c, "cancel_write", t, t, "Pending", NewRow)
  /\ UNCHANGED <<mem, node, edges, repo, deps, moved, loader, up>>

\* Mutant: cancel trusts the status it read before it had the write lock.
CancelWriteUnchecked(c) ==
  LET t == op[c].task
      new == [mem[t] EXCEPT !.status = "Cancelled"] IN
  /\ At(c, "cancel_write")
  /\ mem' = [mem EXCEPT ![t] = new]
  /\ Suspend(c, "status_row", t, t, mem[t].status, new)
  /\ UNCHANGED <<node, edges, repo, deps, moved, loader, up>>

CancelWrite(c) ==
  LET t == op[c].task IN
  /\ At(c, "cancel_write")
  /\ \/ WriteStatus(c, t, "Cancelled")
     \/ ~CanMove(t, "Cancelled") /\ Return(c) /\ UNCHANGED mem
  /\ UNCHANGED <<node, edges, repo, deps, moved, loader, up>>

StatusRow(c) ==
  LET t == op[c].task IN
  /\ At(c, "status_row")
  /\ repo' = [repo EXCEPT ![t] =
                RowAfterStatus(@, op[c].copy.status, op[c].copy.result)]
  /\ Go(c, "status_event")
  /\ UNCHANGED <<mem, node, edges, deps, moved, loader, up>>

\* Mutant: the event carries the statuses, not the columns.
StatusEventRaw(c) ==
  /\ At(c, "status_event")
  /\ moved' = [moved EXCEPT ![op[c].task] = <<op[c].from, op[c].copy.status>>]
  /\ Return(c)
  /\ UNCHANGED <<mem, node, edges, repo, deps, loader, up>>

StatusEvent(c) ==
  /\ At(c, "status_event")
  /\ moved' = [moved EXCEPT ![op[c].task] =
                 <<Column(op[c].from), Column(op[c].copy.status)>>]
  /\ Return(c)
  /\ UNCHANGED <<mem, node, edges, repo, deps, loader, up>>

-----------------------------------------------------------------------------
(* set_result: no look at the status; the event says "from in_progress".   *)

SetResult(c, t) ==
  LET new == [mem[t] EXCEPT !.status = "Completed", !.result = TRUE] IN
  /\ MayCall(c, "set_result", t)
  /\ mem[t] # Nil
  /\ mem' = [mem EXCEPT ![t] = new]
  /\ Suspend(c, "result_row", t, t, "InProgress", new)
  /\ UNCHANGED <<node, edges, repo, deps, moved, loader, up>>

ResultRow(c) ==
  /\ At(c, "result_row")
  /\ repo' = [repo EXCEPT ![op[c].task] = RowAfterStatus(@, "Completed", TRUE)]
  /\ Go(c, "result_event")
  /\ UNCHANGED <<mem, node, edges, deps, moved, loader, up>>

ResultEvent(c) ==
  /\ At(c, "result_event")
  /\ moved' = [moved EXCEPT ![op[c].task] =
                 <<Column("InProgress"), Column("Completed")>>]
  /\ Return(c)
  /\ UNCHANGED <<mem, node, edges, repo, deps, loader, up>>

-----------------------------------------------------------------------------
(* set_critic_score, set_human_score, update_task and retry: a copy of the *)
(* task is changed, written as a whole row, then put back in memory.       *)

Score(c, t, who) ==
  /\ MayCall(c, "score", t)
  /\ Get(t) # Nil
  /\ Suspend(c, "copy_row", t, t, Get(t).status,
             [Get(t) EXCEPT !.scores = @ \cup {who}])
  /\ UNCHANGED <<mem, node, edges, repo, deps, moved, loader, up>>

\* The run loop reads a task, attaches a result to it and calls update_task.
UpdateTask(c, t) ==
  /\ MayCall(c, "update", t)
  /\ Get(t) # Nil
  /\ Suspend(c, "copy_row", t, t, Get(t).status,
             [Get(t) EXCEPT !.result = TRUE])
  /\ UNCHANGED <<mem, node, edges, repo, deps, moved, loader, up>>

\* Mutant: a retry starts without the scores it was given.
RetryForgetsScores(c, t) ==
  /\ MayCall(c, "retry", t)
  /\ Get(t) # Nil
  /\ Get(t).status \notin Terminal
  /\ ValidTransition(Get(t).status, "Pending")
  /\ Get(t).iter < MaxIter
  /\ Suspend(c, "retry_row", t, t, Get(t).status,
             [Get(t) EXCEPT !.status = "Pending", !.iter = @ + 1, !.scores = {}])
  /\ UNCHANGED <<mem, node, edges, repo, deps, moved, loader, up>>

Retry(c, t) ==
  /\ MayCall(c, "retry", t)
  /\ Get(t) # Nil
  /\ Get(t).status \notin Terminal
  /\ ValidTransition(Get(t).status, "Pending")
  /\ Get(t).iter < MaxIter
  /\ Suspend(c, "retry_row", t, t, Get(t).status,
             [Get(t) EXCEPT !.status = "Pending", !.iter = @ + 1])
  /\ UNCHANGED <<mem, node, edges, repo, deps, moved, loader, up>>

PutRow(c, at, next) ==
  /\ At(c, at)
  /\ repo' = [repo EXCEPT ![op[c].task] = op[c].copy]
  /\ Go(c, next)
  /\ UNCHANGED <<mem, node, edges, deps, moved, loader, up>>

CopyRow(c) == PutRow(c, "copy_row", "copy_mem")
RetryRow(c) == PutRow(c, "retry_row", "retry_mem")

\* Mutant: the row is written, the map keeps the old task.
CopyMemSkipped(c) ==
  /\ At(c, "copy_mem")
  /\ Return(c)
  /\ UNCHANGED <<mem, node, edges, repo, deps, moved, loader, up>>

CopyMem(c) ==
  /\ At(c, "copy_mem")
  /\ mem' = [mem EXCEPT ![op[c].task] = op[c].copy]
  /\ Return(c)
  /\ UNCHANGED <<node, edges, repo, deps, moved, loader, up>>

RetryMem(c) ==
  /\ At(c, "retry_mem")
  /\ mem' = [mem EXCEPT ![op[c].task] = op[c].copy]
  /\ Go(c, "retry_event")
  /\ UNCHANGED <<node, edges, repo, deps, moved, loader, up>>

\* Mutant: the event has its columns swapped.
RetryEventSwapped(c) ==
  /\ At(c, "retry_event")
  /\ moved' = [moved EXCEPT ![op[c].task] =
                 <<Column("Pending"), Column("Review")>>]
  /\ Return(c)
  /\ UNCHANGED <<mem, node, edges, repo, deps, loader, up>>

RetryEvent(c) ==
  /\ At(c, "retry_event")
  /\ moved' = [moved EXCEPT ![op[c].task] =
                 <<Column("Review"), Column("Pending")>>]
  /\ Return(c)
  /\ UNCHANGED <<mem, node, edges, repo, deps, loader, up>>

-----------------------------------------------------------------------------
(* add_dependency: a cycle check on a clone of the graph, the row, then    *)
(* the edge with a second check.  The edge is taken back on a cycle; the   *)
(* row is not.  Callers name tasks that submit has returned.               *)

DependencyCheck(c, p, t) ==
  /\ MayCall(c, "add_dependency", t)
  /\ mem[p] # Nil /\ mem[t] # Nil
  /\ {p, t} \subseteq node => ~Cyclic(edges \cup {<<p, t>>})
  /\ Suspend(c, "dep_row", t, p, "Pending", NewRow)
  /\ UNCHANGED <<mem, node, edges, repo, deps, moved, loader, up>>

\* Mutant: the dependency is not stored.
DependencyRowSkipped(c) ==
  /\ At(c, "dep_row")
  /\ Go(c, "dep_link")
  /\ UNCHANGED <<mem, node, edges, repo, deps, moved, loader, up>>

DependencyRow(c) ==
  /\ At(c, "dep_row")
  /\ deps' = deps \cup {<<op[c].on, op[c].task>>}
  /\ Go(c, "dep_link")
  /\ UNCHANGED <<mem, node, edges, repo, moved, loader, up>>

\* Mutant: the check before the row is taken to be enough.
DependencyLinkUnchecked(c) ==
  LET edge == <<op[c].on, op[c].task>> IN
  /\ At(c, "dep_link")
  /\ edges' = IF {op[c].on, op[c].task} \subseteq node
              THEN edges \cup {edge} ELSE edges
  /\ Return(c)
  /\ UNCHANGED <<mem, node, repo, deps, moved, loader, up>>

DependencyLink(c) ==
  LET edge == <<op[c].on, op[c].task>> IN
  /\ At(c, "dep_link")
  /\ edges' = IF /\ {op[c].on, op[c].task} \subseteq node
                 /\ ~Cyclic(edges \cup {edge})
              THEN edges \cup {edge} ELSE edges
  /\ Return(c)
  /\ UNCHANGED <<mem, node, repo, deps, moved, loader, up>>

-----------------------------------------------------------------------------
(* load_all_tasks, at startup and again when a training dataset is built:  *)
(* the rows, then the dependencies, then the three structures are replaced *)
(* under their locks.                                                      *)

LoadRows ==
  /\ loader = Nil
  /\ up => "reload" \in Calls
  /\ loader' = [at |-> "deps", rows |-> repo, deps |-> {}]
  /\ UNCHANGED <<mem, node, edges, repo, deps, moved, op, up>>

LoadDeps ==
  /\ loader # Nil
  /\ loader.at = "deps"
  /\ loader' = [loader EXCEPT !.at = "replace", !.deps = deps]
  /\ UNCHANGED <<mem, node, edges, repo, deps, moved, op, up>>

\* Edges are added one at a time; the first one that has no node or closes
\* a cycle ends the load with an error and what was added so far stays.
Loadable(E, nodes) == E \subseteq nodes \X nodes /\ ~Cyclic(E)

LoadReplace ==
  /\ loader # Nil
  /\ loader.at = "replace"
  /\ mem' = loader.rows
  /\ node' = Submitted(loader.rows)
  /\ IF Loadable(loader.deps, node')
     THEN edges' = loader.deps /\ up' = TRUE
     ELSE /\ edges' \in {E \in SUBSET loader.deps :
                           /\ Loadable(E, node')
                           /\ \E d \in loader.deps \ E :
                                ~Loadable(E \cup {d}, node')}
          /\ UNCHANGED up
  /\ loader' = Nil
  /\ UNCHANGED <<repo, deps, moved, op>>

-----------------------------------------------------------------------------
(* The repository refuses a write: the call returns the error with `?`.    *)
DbError(c) ==
  /\ "db_error" \in Calls
  /\ \E at \in {"status_row", "result_row", "copy_row", "retry_row",
                "dep_row"} : At(c, at)
  /\ Return(c)
  /\ UNCHANGED <<mem, node, edges, repo, deps, moved, loader, up>>

(* The process dies: the tables stay.  A board opened after the restart    *)
(* starts from the rows.                                                   *)
Crash ==
  /\ "crash" \in Calls
  /\ up
  /\ mem' = NoTasks
  /\ node' = {}
  /\ edges' = {}
  /\ op' = [c \in Client |-> Nil]
  /\ loader' = Nil
  /\ up' = FALSE
  /\ moved' = [t \in Task |-> <<"none", IF repo[t] = Nil THEN "none"
                                        ELSE Column(repo[t].status)>>]
  /\ UNCHANGED <<repo, deps>>

-----------------------------------------------------------------------------
Begin(c, t) ==
  \/ SubmitRow(c, t)
  \/ \E s \in Target : SetStatus(c, t, s)
  \/ CancelCheck(c, t)
  \/ SetResult(c, t)
  \/ \E who \in Scorer : Score(c, t, who)
  \/ UpdateTask(c, t)
  \/ Retry(c, t)
  \/ \E p \in Task : DependencyCheck(c, p, t)

Resume(c) ==
  \/ SubmitNode(c) \/ SubmitMem(c)
  \/ CancelWrite(c) \/ StatusRow(c) \/ StatusEvent(c)
  \/ ResultRow(c) \/ ResultEvent(c)
  \/ CopyRow(c) \/ CopyMem(c)
  \/ RetryRow(c) \/ RetryMem(c) \/ RetryEvent(c)
  \/ DependencyRow(c) \/ DependencyLink(c)

Load == LoadRows \/ LoadDeps \/ LoadReplace

Next ==
  \/ \E c \in Client : (\E t \in Task : Begin(c, t)) \/ Resume(c) \/ DbError(c)
  \/ Load
  \/ Crash

Spec == Init /\ [][Next]_vars

-----------------------------------------------------------------------------
(* Every structure holds what its Rust type says, and a call in flight     *)
(* carries a task, the rows read so far, and where it is suspended.        *)
TypeOK ==
  /\ mem \in [Task -> Row \cup {Nil}]
  /\ node \in SUBSET Task
  /\ edges \in SUBSET (Task \X Task)
  /\ repo \in [Task -> Row \cup {Nil}]
  /\ deps \in SUBSET (Task \X Task)
  /\ moved \in [Task -> (Columns \cup {"none"}) \X (Columns \cup {"none"})]
  /\ op \in [Client -> Job \cup {Nil}]
  /\ loader \in [at : {"deps", "replace"}, rows : [Task -> Row \cup {Nil}],
                 deps : SUBSET (Task \X Task)] \cup {Nil}
  /\ up \in BOOLEAN

(* The graph list_ready walks never has a cycle, however the checks and    *)
(* the insertions of concurrent add_dependency calls and reloads fall:     *)
(* a cycle would keep every task on it from ever being handed out.         *)
GraphAcyclic == ~Cyclic(edges)

(* An edge that holds a task back in memory also has its row, so that a    *)
(* restart at any await cannot release a task early.                       *)
EdgesPersisted == edges \subseteq deps

(* list_ready hands out no task before the parents add_dependency stored   *)
(* for it are finished: not when the row and the edge of a dependency are  *)
(* two steps, not when the edge finds no node, not after a restart.  Only  *)
(* a dependency that is refused because it closes a cycle, or whose call   *)
(* has not returned, does not hold its task back.                          *)
DependencyGates ==
  up => \A t \in ListReady : \A p \in Task : <<p, t>> \in deps =>
          \/ mem[p] # Nil /\ mem[p].status \in Finished
          \/ Cyclic(edges \cup {<<p, t>>})
          \/ \E c \in Client : /\ At(c, "dep_link")
                              /\ op[c].on = p /\ op[c].task = t

(* Whatever the order in which a call writes memory and the row, the two   *)
(* say the same of a task no call is about: same status, retries and       *)
(* scores, and no result in the row that memory lacks.  (The other way     *)
(* round is possible: a status write to Pending clears the row's result    *)
(* and leaves the one in memory.)                                          *)
Agree(m, r) ==
  /\ m.status = r.status
  /\ m.iter = r.iter
  /\ m.scores = r.scores
  /\ r.result => m.result

WriteThrough ==
  up => \A t \in Task :
          ~Busy(t) => \/ mem[t] = Nil /\ repo[t] = Nil
                      \/ mem[t] # Nil /\ repo[t] # Nil /\ Agree(mem[t], repo[t])

(* A subscriber that puts a task in the column of the last event it saw    *)
(* shows the column the task is in, once no call is about the task.        *)
BoardInSync ==
  up => \A t \in Task :
          ~Busy(t) /\ mem[t] # Nil => moved[t][2] = Column(mem[t].status)

(* The stored history of a task loses nothing: a retry counted and a score *)
(* given are never overwritten by an older copy of the task, through       *)
(* crashes and restarts.                                                   *)
NoLostUpdate ==
  [][\A t \in Task : repo[t] # Nil =>
       /\ repo'[t].iter >= repo[t].iter
       /\ repo[t].scores \subseteq repo'[t].scores]_repo

StatusIn(rows) == [t \in Task |-> IF rows[t] = Nil THEN Nil ELSE rows[t].status]

(* What callers see of the memory map is an atomic board: set_status,      *)
(* cancel and set_result take effect one at a time, however many clients   *)
(* call about one task and whichever of their row writes fail.             *)
Live == INSTANCE TaskBoard WITH status <- StatusIn(mem), Absent <- Nil
LiveBoard == Live!Spec

(* What the tasks table says is an atomic board too, across crashes at any *)
(* await and restarts: no stored history takes a step the transition table *)
(* forbids.                                                                *)
Durable == INSTANCE TaskBoard WITH status <- StatusIn(repo), Absent <- Nil
DurableBoard == Durable!Spec

-----------------------------------------------------------------------------
(* Statements of the repository's own documents and tests that the code    *)
(* does not keep: naming one in a configuration shows how.                 *)

(* Test cycle_dependency_is_not_persisted: no cycle reaches the table.     *)
PersistedAcyclic == ~Cyclic(deps)

(* models.rs: "A terminal status cannot be resumed without explicit        *)
(* reset."  Failed has its reset, the retry of validate_transition.        *)
TerminalStays ==
  [][\A t \in Task :
       up /\ up' /\ mem[t] # Nil /\ mem[t].status \in Terminal \ {"Failed"}
         => mem'[t].status = mem[t].status]_mem

(* docs/STORAGE_RECOVERY.md: "terminal states remain terminal".            *)
StoredTerminalStays ==
  [][\A t \in Task :
       repo[t] # Nil /\ repo[t].status \in Terminal \ {"Failed"}
         => repo'[t].status = repo[t].status]_repo

(* docs/ARCHITECTURE_BACKEND.md: "interrupted InProgress tasks resume as   *)
(* Ready".                                                                 *)
InterruptedResume ==
  [][~up /\ up' => \A t \in Task :
       mem'[t] # Nil => mem'[t].status # "InProgress"]_vars

=============================================================================
