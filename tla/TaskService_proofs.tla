------------------------- MODULE TaskService_proofs -------------------------
(***************************************************************************)
(* Theorems about TaskService, for any set of tasks and clients, any mix   *)
(* of calls and failures and any bound on retries.                         *)
(***************************************************************************)
EXTENDS TaskService, TLAPS

(* The graph and the table only ever speak of rows that exist: no call and *)
(* no load holds a task that has not been inserted, which is what makes a  *)
(* status write find its row, and a call about to link an edge has stored  *)
(* its dependency.                                                         *)
Stored(job) ==
  /\ repo[job.task] # Nil
  /\ job.at = "dep_link" => <<job.on, job.task>> \in deps

Backed ==
  /\ \A t \in Task : mem[t] # Nil => repo[t] # Nil
  /\ \A c \in Client : op[c] # Nil => Stored(op[c])
  /\ loader # Nil => /\ \A t \in Task : loader.rows[t] # Nil => repo[t] # Nil
                     /\ loader.deps \subseteq deps

IInv == TypeOK /\ Backed /\ GraphAcyclic /\ EdgesPersisted

(* A status write turns a row into a row. *)
LEMMA RowAfterStatusType ==
  ASSUME NEW row \in Row, NEW s \in Status, NEW result \in BOOLEAN
  PROVE  RowAfterStatus(row, s, result) \in Row
<1>1. (IF s = "InProgress" THEN row.result
       ELSE s \in Terminal \cup {"Review"} /\ result) \in BOOLEAN
  BY DEF Row
<1> QED
  BY <1>1 DEF RowAfterStatus, Row

LEMMA NewRowType == NewRow \in Row
BY IterAssumption DEF NewRow, Row, Status, Scorer

LEMMA ColumnType == ASSUME NEW s \in Status PROVE Column(s) \in Columns
BY DEF Columns

LEMMA NoCycleInNoEdges == ~Cyclic({})
BY DEF Cyclic

LEMMA InitIInv == Init => IInv
<1> SUFFICES ASSUME Init PROVE IInv
  OBVIOUS
<1>1. TypeOK
  BY DEF Init, TypeOK, NoTasks
<1>2. Backed
  BY DEF Init, Backed, NoTasks
<1>3. GraphAcyclic /\ EdgesPersisted
  BY NoCycleInNoEdges DEF Init, GraphAcyclic, EdgesPersisted
<1> QED
  BY <1>1, <1>2, <1>3 DEF IInv

-----------------------------------------------------------------------------
(* What the three ways a call moves do to "op": the calls of the other     *)
(* clients stay where they are, and a resumed call keeps what it carries.  *)

Ops == [Client -> Job \cup {Nil}]

LEMMA SuspendStep ==
  ASSUME op \in Ops, NEW c \in Client, NEW at \in Await, NEW t \in Task,
         NEW on \in Task, NEW from \in Status, NEW copy \in Row,
         Suspend(c, at, t, on, from, copy)
  PROVE  /\ op' \in Ops
         /\ op'[c] # Nil
         /\ op'[c].at = at /\ op'[c].task = t /\ op'[c].on = on
         /\ op'[c].from = from /\ op'[c].copy = copy
         /\ \A d \in Client \ {c} : op'[d] = op[d]
<1>1. [at |-> at, task |-> t, on |-> on, from |-> from, copy |-> copy] \in Job
  BY DEF Job
<1> QED
  BY <1>1, NilAssumption DEF Suspend, Ops

LEMMA GoStep ==
  ASSUME op \in Ops, NEW c \in Client, op[c] # Nil, NEW at \in Await, Go(c, at)
  PROVE  /\ op' \in Ops
         /\ op'[c] # Nil
         /\ op'[c].at = at
         /\ op'[c].task = op[c].task
         /\ op'[c].on = op[c].on
         /\ op'[c].from = op[c].from
         /\ op'[c].copy = op[c].copy
         /\ \A d \in Client \ {c} : op'[d] = op[d]
<1>1. op[c] \in Job
  BY DEF Ops
<1>2. op'[c] = [op[c] EXCEPT !.at = at]
  BY DEF Go, Ops
<1>3. [op[c] EXCEPT !.at = at] \in Job
  BY <1>1 DEF Job
<1> QED
  BY <1>1, <1>2, <1>3, NilAssumption DEF Go, Ops, Job

LEMMA ReturnStep ==
  ASSUME op \in Ops, NEW c \in Client, Return(c)
  PROVE  /\ op' \in Ops
         /\ op'[c] = Nil
         /\ \A d \in Client \ {c} : op'[d] = op[d]
BY DEF Return, Ops

(* A step of one client's call keeps Backed when rows and dependencies are *)
(* only added and the call, if it goes on, is about what is stored.        *)
LEMMA BackedStep ==
  ASSUME TypeOK, Backed, NEW c \in Client,
         \A d \in Client \ {c} : op'[d] = op[d],
         op'[c] # Nil => /\ repo'[op'[c].task] # Nil
                         /\ op'[c].at = "dep_link" =>
                              <<op'[c].on, op'[c].task>> \in deps',
         \A t \in Task : repo[t] # Nil => repo'[t] # Nil,
         \A t \in Task : mem'[t] # Nil => repo'[t] # Nil,
         loader' = loader, deps \subseteq deps'
  PROVE  Backed'
<1>1. ASSUME NEW d \in Client, op'[d] # Nil
      PROVE  Stored(op[d])'
  <2>1. CASE d = c
    BY <1>1, <2>1 DEF Stored
  <2>2. CASE d # c
    <3>1. op[d] # Nil /\ op'[d] = op[d] /\ op[d].task \in Task
      BY <1>1, <2>2 DEF TypeOK, Job
    <3>2. Stored(op[d])
      BY <3>1 DEF Backed
    <3> QED
      BY <3>1, <3>2 DEF Stored
  <2> QED
    BY <2>1, <2>2
<1>2. loader' # Nil => /\ \A t \in Task : loader'.rows[t] # Nil => repo'[t] # Nil
                       /\ loader'.deps \subseteq deps'
  BY DEF Backed
<1> QED
  BY <1>1, <1>2 DEF Backed

\* The fields of a call in flight.
LEMMA JobFields ==
  ASSUME op \in Ops, NEW c \in Client, op[c] # Nil
  PROVE  /\ op[c] \in Job /\ op[c].at \in Await /\ op[c].task \in Task
         /\ op[c].on \in Task /\ op[c].from \in Status /\ op[c].copy \in Row
BY DEF Ops, Job

-----------------------------------------------------------------------------
LEMMA SubmitIInv ==
  ASSUME IInv, NEW c \in Client, NEW t \in Task,
         SubmitRow(c, t) \/ SubmitNode(c) \/ SubmitMem(c)
  PROVE  IInv'
<1> USE DEF IInv, GraphAcyclic, EdgesPersisted
<1>1. CASE SubmitRow(c, t)
  <2>1. /\ op' \in Ops /\ op'[c].task = t /\ op'[c].at = "submit_node"
        /\ \A d \in Client \ {c} : op'[d] = op[d]
    <3>1. /\ op \in Ops /\ "submit_node" \in Await /\ "Pending" \in Status
          /\ Suspend(c, "submit_node", t, t, "Pending", NewRow)
      BY <1>1 DEF SubmitRow, TypeOK, Ops, Await, Status
    <3> QED
      BY <3>1, SuspendStep, NewRowType
  <2>2. /\ repo' \in [Task -> Row \cup {Nil}]
        /\ repo'[t] # Nil
        /\ \A u \in Task : repo[u] # Nil => repo'[u] # Nil
    BY <1>1, NewRowType, NilAssumption DEF SubmitRow, TypeOK
  <2>3. TypeOK'
    BY <1>1, <2>1, <2>2 DEF SubmitRow, TypeOK, Ops
  <2>4. Backed'
    BY <1>1, <2>1, <2>2, BackedStep DEF SubmitRow, Backed
  <2> QED
    BY <1>1, <2>3, <2>4 DEF SubmitRow
<1>2. CASE SubmitNode(c)
  <2> DEFINE u == op[c].task
  <2>1. op[c] # Nil /\ u \in Task
    BY <1>2, JobFields DEF SubmitNode, At, TypeOK, Ops
  <2>2. /\ op' \in Ops /\ op'[c].task = u /\ op'[c].at = "submit_mem"
        /\ \A d \in Client \ {c} : op'[d] = op[d]
    BY <1>2, <2>1, GoStep DEF SubmitNode, TypeOK, Ops, Await
  <2>3. TypeOK'
    BY <1>2, <2>1, <2>2 DEF SubmitNode, TypeOK, Ops
  <2>4. Backed'
    BY <1>2, <2>1, <2>2, BackedStep DEF SubmitNode, Backed, Stored
  <2> QED
    BY <1>2, <2>3, <2>4 DEF SubmitNode
<1>3. CASE SubmitMem(c)
  <2> DEFINE u == op[c].task
  <2>1. op[c] # Nil /\ u \in Task /\ op[c].copy \in Row
    BY <1>3, JobFields DEF SubmitMem, At, TypeOK, Ops
  <2>2. /\ op' \in Ops /\ op'[c] = Nil
        /\ \A d \in Client \ {c} : op'[d] = op[d]
    BY <1>3, ReturnStep DEF SubmitMem, TypeOK, Ops
  <2>3. /\ mem' \in [Task -> Row \cup {Nil}]
        /\ \A v \in Task : mem'[v] # Nil => repo[v] # Nil
    BY <1>3, <2>1 DEF SubmitMem, TypeOK, Backed, Stored
  <2>4. moved' \in [Task -> (Columns \cup {"none"}) \X (Columns \cup {"none"})]
    <3>1. "ready" \in Columns
      BY DEF Columns, Column, Status
    <3> QED
      BY <1>3, <3>1 DEF SubmitMem, TypeOK
  <2>5. TypeOK'
    BY <1>3, <2>2, <2>3, <2>4 DEF SubmitMem, TypeOK, Ops
  <2>6. Backed'
    BY <1>3, <2>2, <2>3, BackedStep DEF SubmitMem
  <2> QED
    BY <1>3, <2>5, <2>6 DEF SubmitMem
<1> QED
  BY <1>1, <1>2, <1>3

LEMMA WriteStatusStep ==
  ASSUME IInv, NEW c \in Client, NEW t \in Task, NEW s \in Status,
         WriteStatus(c, t, s), UNCHANGED <<node, edges, repo, deps, moved, loader, up>>
  PROVE  IInv'
<1> USE DEF IInv, GraphAcyclic, EdgesPersisted
<1> DEFINE new == [mem[t] EXCEPT !.status = s]
<1>1. mem[t] \in Row /\ mem[t].status \in Status /\ new \in Row
  BY DEF WriteStatus, CanMove, TypeOK, Row
<1>2. /\ op' \in Ops /\ op'[c].task = t /\ op'[c].at = "status_row"
      /\ \A d \in Client \ {c} : op'[d] = op[d]
  <2>1. /\ op \in Ops /\ "status_row" \in Await
        /\ Suspend(c, "status_row", t, t, mem[t].status, new)
    BY DEF WriteStatus, TypeOK, Ops, Await
  <2> HIDE DEF new
  <2> QED
    BY <1>1, <2>1, SuspendStep
<1>3. /\ mem' \in [Task -> Row \cup {Nil}]
      /\ \A u \in Task : mem'[u] # Nil => repo[u] # Nil
  BY <1>1 DEF WriteStatus, CanMove, TypeOK, Backed
<1>4. TypeOK'
  BY <1>2, <1>3 DEF TypeOK, Ops
<1>5. Backed'
  <2>1. repo[t] # Nil
    BY DEF WriteStatus, CanMove, Backed
  <2> QED
    BY <1>2, <1>3, <2>1, BackedStep
<1> QED
  BY <1>4, <1>5

\* A call that ends here without a write of its own.
LEMMA ReturnIInv ==
  ASSUME IInv, NEW c \in Client, Return(c),
         UNCHANGED <<mem, node, edges, repo, deps, loader, up>>,
         moved' \in [Task -> (Columns \cup {"none"}) \X (Columns \cup {"none"})]
  PROVE  IInv'
<1> USE DEF IInv, GraphAcyclic, EdgesPersisted
<1>1. /\ op' \in Ops /\ op'[c] = Nil
      /\ \A d \in Client \ {c} : op'[d] = op[d]
  BY ReturnStep DEF TypeOK, Ops
<1>2. TypeOK'
  BY <1>1 DEF TypeOK, Ops
<1>3. Backed'
  BY <1>1, BackedStep DEF Backed
<1> QED
  BY <1>2, <1>3

\* A call suspends for the first time and has written nothing yet.
LEMMA SuspendIInv ==
  ASSUME IInv, NEW c \in Client, NEW at \in Await, NEW t \in Task, NEW on \in Task,
         NEW from \in Status, NEW copy \in Row, repo[t] # Nil,
         at # "dep_link", Suspend(c, at, t, on, from, copy),
         UNCHANGED <<mem, node, edges, repo, deps, moved, loader, up>>
  PROVE  IInv'
<1> USE DEF IInv, GraphAcyclic, EdgesPersisted
<1>1. /\ op' \in Ops /\ op'[c].task = t /\ op'[c].at = at
      /\ \A d \in Client \ {c} : op'[d] = op[d]
  BY SuspendStep DEF TypeOK, Ops
<1>2. TypeOK'
  BY <1>1 DEF TypeOK, Ops
<1>3. Backed'
  BY <1>1, BackedStep DEF Backed
<1> QED
  BY <1>2, <1>3

\* A call writes the row of its task and goes on to the next await.
LEMMA RowWriteIInv ==
  ASSUME IInv, NEW c \in Client, op[c] # Nil, NEW at \in Await, Go(c, at),
         at # "dep_link",
         NEW row \in Row, repo' = [repo EXCEPT ![op[c].task] = row],
         UNCHANGED <<mem, node, edges, deps, moved, loader, up>>
  PROVE  IInv'
<1> USE DEF IInv, GraphAcyclic, EdgesPersisted
<1>1. op[c].task \in Task
  BY JobFields DEF TypeOK, Ops
<1>2. /\ op' \in Ops /\ op'[c].task = op[c].task /\ op'[c].at = at
      /\ \A d \in Client \ {c} : op'[d] = op[d]
  BY GoStep DEF TypeOK, Ops
<1>3. /\ repo' \in [Task -> Row \cup {Nil}]
      /\ repo'[op[c].task] # Nil
      /\ \A u \in Task : repo[u] # Nil => repo'[u] # Nil
  BY <1>1, NilAssumption DEF TypeOK
<1>4. TypeOK'
  BY <1>2, <1>3 DEF TypeOK, Ops
<1>5. Backed'
  BY <1>1, <1>2, <1>3, BackedStep DEF Backed
<1> QED
  BY <1>4, <1>5

\* A call puts its copy of the task in memory.
LEMMA MemWriteIInv ==
  ASSUME IInv, NEW c \in Client, op[c] # Nil, NEW at \in Await,
         Return(c) \/ Go(c, at), at # "dep_link",
         mem' = [mem EXCEPT ![op[c].task] = op[c].copy],
         UNCHANGED <<node, edges, repo, deps, moved, loader, up>>
  PROVE  IInv'
<1> USE DEF IInv, GraphAcyclic, EdgesPersisted
<1>1. op[c].task \in Task /\ op[c].copy \in Row /\ repo[op[c].task] # Nil
  BY JobFields DEF TypeOK, Ops, Backed, Stored
<1>2. /\ op' \in Ops
      /\ op'[c] # Nil => op'[c].task = op[c].task /\ op'[c].at = at
      /\ \A d \in Client \ {c} : op'[d] = op[d]
  BY GoStep, ReturnStep DEF TypeOK, Ops
<1>3. /\ mem' \in [Task -> Row \cup {Nil}]
      /\ \A u \in Task : mem'[u] # Nil => repo[u] # Nil
  BY <1>1 DEF TypeOK, Backed
<1>4. TypeOK'
  BY <1>2, <1>3 DEF TypeOK, Ops
<1>5. Backed'
  BY <1>1, <1>2, <1>3, BackedStep
<1> QED
  BY <1>4, <1>5

\* The event of a move shows columns only.
LEMMA MovedType ==
  ASSUME TypeOK, NEW t \in Task, NEW from \in Status, NEW to \in Status,
         moved' = [moved EXCEPT ![t] = <<Column(from), Column(to)>>]
  PROVE  moved' \in [Task -> (Columns \cup {"none"}) \X (Columns \cup {"none"})]
<1>1. <<Column(from), Column(to)>> \in (Columns \cup {"none"}) \X (Columns \cup {"none"})
  BY ColumnType
<1> QED
  BY <1>1 DEF TypeOK

-----------------------------------------------------------------------------
LEMMA StatusIInv ==
  ASSUME IInv, NEW c \in Client, NEW t \in Task,
         \/ \E s \in Target : SetStatus(c, t, s)
         \/ CancelCheck(c, t) \/ CancelWrite(c)
         \/ StatusRow(c) \/ StatusEvent(c)
  PROVE  IInv'
<1>1. CASE \E s \in Target : SetStatus(c, t, s)
  BY <1>1, WriteStatusStep, TargetAssumption DEF SetStatus
<1>2. CASE CancelCheck(c, t)
  <2>1. repo[t] # Nil /\ "cancel_write" \in Await /\ "Pending" \in Status
    BY <1>2 DEF CancelCheck, IInv, Backed, Await, Status
  <2> QED
    BY <1>2, <2>1, NewRowType, SuspendIInv DEF CancelCheck
<1>3. CASE CancelWrite(c)
  <2>1. op[c].task \in Task /\ "Cancelled" \in Status
    BY <1>3, JobFields DEF CancelWrite, At, IInv, TypeOK, Ops, Status
  <2>2. CASE WriteStatus(c, op[c].task, "Cancelled")
    BY <1>3, <2>1, <2>2, WriteStatusStep DEF CancelWrite
  <2>3. CASE Return(c) /\ UNCHANGED mem
    BY <1>3, <2>3, ReturnIInv DEF CancelWrite, IInv, TypeOK
  <2> QED
    BY <1>3, <2>2, <2>3 DEF CancelWrite
<1>4. CASE StatusRow(c)
  <2> DEFINE u == op[c].task
             row == RowAfterStatus(repo[u], op[c].copy.status, op[c].copy.result)
  <2>1. op[c] # Nil /\ u \in Task /\ op[c].copy \in Row
    BY <1>4, JobFields DEF StatusRow, At, IInv, TypeOK, Ops
  <2>2. repo[u] \in Row
    BY <2>1 DEF IInv, TypeOK, Backed, Stored
  <2>3. op[c].copy.status \in Status /\ op[c].copy.result \in BOOLEAN
    BY <2>1 DEF Row
  <2>4. row \in Row
    BY <2>2, <2>3, RowAfterStatusType
  <2>5. repo' = [repo EXCEPT ![u] = row] /\ Go(c, "status_event")
    BY <1>4 DEF StatusRow
  <2> HIDE DEF row
  <2> QED
    BY <1>4, <2>1, <2>4, <2>5, RowWriteIInv DEF StatusRow, Await
<1>5. CASE StatusEvent(c)
  <2>1. /\ op[c] # Nil /\ op[c].task \in Task /\ op[c].from \in Status
        /\ op[c].copy \in Row
    BY <1>5, JobFields DEF StatusEvent, At, IInv, TypeOK, Ops
  <2>2. op[c].copy.status \in Status
    BY <2>1 DEF Row
  <2> QED
    BY <1>5, <2>1, <2>2, MovedType, ReturnIInv DEF StatusEvent, IInv
<1> QED
  BY <1>1, <1>2, <1>3, <1>4, <1>5

LEMMA ResultIInv ==
  ASSUME IInv, NEW c \in Client, NEW t \in Task,
         SetResult(c, t) \/ ResultRow(c) \/ ResultEvent(c)
  PROVE  IInv'
<1> USE DEF IInv
<1>1. CASE SetResult(c, t)
  <2> DEFINE new == [mem[t] EXCEPT !.status = "Completed", !.result = TRUE]
  <2>0. mem[t] \in Row /\ repo[t] # Nil /\ "Completed" \in Status
    BY <1>1 DEF SetResult, TypeOK, Status, Backed
  <2>1. new \in Row
    BY <2>0 DEF Row
  <2>2. /\ op \in Ops /\ "result_row" \in Await /\ "InProgress" \in Status
        /\ Suspend(c, "result_row", t, t, "InProgress", new)
        /\ mem' = [mem EXCEPT ![t] = new]
    BY <1>1 DEF SetResult, TypeOK, Ops, Await, Status
  <2> HIDE DEF new
  <2>3. /\ op' \in Ops /\ op'[c].task = t /\ op'[c].at = "result_row"
        /\ \A d \in Client \ {c} : op'[d] = op[d]
    BY <2>1, <2>2, SuspendStep
  <2>4. /\ mem' \in [Task -> Row \cup {Nil}]
        /\ \A u \in Task : mem'[u] # Nil => repo[u] # Nil
    BY <2>0, <2>1, <2>2 DEF TypeOK, Backed
  <2>5. TypeOK'
    BY <1>1, <2>3, <2>4 DEF SetResult, TypeOK, Ops
  <2>6. Backed'
    BY <1>1, <2>0, <2>3, <2>4, BackedStep DEF SetResult
  <2> QED
    BY <1>1, <2>5, <2>6 DEF SetResult, GraphAcyclic, EdgesPersisted
<1>2. CASE ResultRow(c)
  <2> DEFINE u == op[c].task
             row == RowAfterStatus(repo[u], "Completed", TRUE)
  <2>1. op[c] # Nil /\ u \in Task
    BY <1>2, JobFields DEF ResultRow, At, TypeOK, Ops
  <2>2. repo[u] \in Row /\ "Completed" \in Status
    BY <2>1 DEF TypeOK, Backed, Stored, Status
  <2>3. row \in Row
    BY <2>2, RowAfterStatusType
  <2>4. repo' = [repo EXCEPT ![u] = row] /\ Go(c, "result_event")
    BY <1>2 DEF ResultRow
  <2> HIDE DEF row
  <2> QED
    BY <1>2, <2>1, <2>3, <2>4, RowWriteIInv DEF ResultRow, Await
<1>3. CASE ResultEvent(c)
  <2>1. op[c].task \in Task /\ "InProgress" \in Status /\ "Completed" \in Status
    BY <1>3, JobFields DEF ResultEvent, At, TypeOK, Ops, Status
  <2> QED
    BY <1>3, <2>1, MovedType, ReturnIInv DEF ResultEvent
<1> QED
  BY <1>1, <1>2, <1>3

LEMMA CopyIInv ==
  ASSUME IInv, NEW c \in Client, NEW t \in Task,
         \/ \E who \in Scorer : Score(c, t, who)
         \/ UpdateTask(c, t) \/ Retry(c, t)
         \/ CopyRow(c) \/ RetryRow(c)
         \/ CopyMem(c) \/ RetryMem(c) \/ RetryEvent(c)
  PROVE  IInv'
<1> USE DEF IInv
<1>1. ASSUME Get(t) # Nil
      PROVE  Get(t) \in Row /\ Get(t).status \in Status /\ repo[t] # Nil
  BY <1>1 DEF Get, TypeOK, Backed, Row
<1>2. "copy_row" \in Await /\ "retry_row" \in Await
  BY DEF Await
<1>3. CASE \E who \in Scorer : Score(c, t, who)
  <2>1. PICK who \in Scorer : Score(c, t, who)
    BY <1>3
  <2> DEFINE new == [Get(t) EXCEPT !.scores = @ \cup {who}]
  <2>2. Get(t) # Nil /\ Suspend(c, "copy_row", t, t, Get(t).status, new)
    BY <2>1 DEF Score
  <2>3. new \in Row
    BY <1>1, <2>2 DEF Row
  <2> HIDE DEF new
  <2> QED
    BY <1>1, <1>2, <2>1, <2>2, <2>3, SuspendIInv DEF Score
<1>4. CASE UpdateTask(c, t)
  <2> DEFINE new == [Get(t) EXCEPT !.result = TRUE]
  <2>1. Get(t) # Nil /\ Suspend(c, "copy_row", t, t, Get(t).status, new)
    BY <1>4 DEF UpdateTask
  <2>2. new \in Row
    BY <1>1, <2>1 DEF Row
  <2> HIDE DEF new
  <2> QED
    BY <1>1, <1>2, <1>4, <2>1, <2>2, SuspendIInv DEF UpdateTask
<1>5. CASE Retry(c, t)
  <2> DEFINE new == [Get(t) EXCEPT !.status = "Pending", !.iter = @ + 1]
  <2>1. /\ Get(t) # Nil /\ Get(t).iter < MaxIter
        /\ Suspend(c, "retry_row", t, t, Get(t).status, new)
    BY <1>5 DEF Retry
  <2>2. new \in Row
    <3>1. Get(t) \in Row /\ "Pending" \in Status
      BY <1>1, <2>1 DEF Status
    <3>2. Get(t).iter + 1 \in 0..MaxIter
      BY <2>1, <3>1, IterAssumption DEF Row
    <3> QED
      BY <3>1, <3>2 DEF Row
  <2> HIDE DEF new
  <2> QED
    BY <1>1, <1>2, <1>5, <2>1, <2>2, SuspendIInv DEF Retry
<1>6. ASSUME NEW at \in Await, NEW next \in Await \ {"dep_link"}, PutRow(c, at, next)
      PROVE  IInv'
  <2>1. op[c] # Nil /\ op[c].copy \in Row
    BY <1>6, JobFields DEF PutRow, At, TypeOK, Ops
  <2> QED
    BY <1>6, <2>1, RowWriteIInv DEF PutRow
<1>7. CASE CopyRow(c) \/ RetryRow(c)
  BY <1>6, <1>7 DEF CopyRow, RetryRow, Await
<1>8. CASE CopyMem(c) \/ RetryMem(c)
  <2>1. op[c] # Nil /\ "retry_event" \in Await
    BY <1>8 DEF CopyMem, RetryMem, At, Await
  <2> QED
    BY <1>8, <2>1, MemWriteIInv DEF CopyMem, RetryMem
<1>9. CASE RetryEvent(c)
  <2>1. op[c].task \in Task /\ "Review" \in Status /\ "Pending" \in Status
    BY <1>9, JobFields DEF RetryEvent, At, TypeOK, Ops, Status
  <2> QED
    BY <1>9, <2>1, MovedType, ReturnIInv DEF RetryEvent
<1> QED
  BY <1>3, <1>4, <1>5, <1>7, <1>8, <1>9

LEMMA DependencyIInv ==
  ASSUME IInv, NEW c \in Client, NEW t \in Task,
         \/ \E p \in Task : DependencyCheck(c, p, t)
         \/ DependencyRow(c) \/ DependencyLink(c)
  PROVE  IInv'
<1> USE DEF IInv
<1>1. CASE \E p \in Task : DependencyCheck(c, p, t)
  <2>1. PICK p \in Task : DependencyCheck(c, p, t)
    BY <1>1
  <2>2. /\ repo[t] # Nil /\ "dep_row" \in Await /\ "Pending" \in Status
        /\ Suspend(c, "dep_row", t, p, "Pending", NewRow)
    BY <2>1 DEF DependencyCheck, Backed, Await, Status
  <2> QED
    BY <2>1, <2>2, NewRowType, SuspendIInv DEF DependencyCheck
<1>2. CASE DependencyRow(c)
  <2>1. op[c] # Nil /\ op[c].task \in Task /\ op[c].on \in Task
    BY <1>2, JobFields DEF DependencyRow, At, TypeOK, Ops
  <2>2. /\ op' \in Ops /\ op'[c].task = op[c].task /\ op'[c].on = op[c].on
        /\ \A d \in Client \ {c} : op'[d] = op[d]
    BY <1>2, <2>1, GoStep DEF DependencyRow, TypeOK, Ops, Await
  <2>3. deps' = deps \cup {<<op[c].on, op[c].task>>}
    BY <1>2 DEF DependencyRow
  <2>4. TypeOK'
    BY <1>2, <2>1, <2>2, <2>3 DEF DependencyRow, TypeOK, Ops
  <2>5. Backed'
    BY <1>2, <2>1, <2>2, <2>3, BackedStep DEF DependencyRow, Backed, Stored
  <2> QED
    BY <1>2, <2>3, <2>4, <2>5 DEF DependencyRow, GraphAcyclic, EdgesPersisted
<1>3. CASE DependencyLink(c)
  <2> DEFINE edge == <<op[c].on, op[c].task>>
  <2>1. op[c] # Nil /\ edge \in Task \X Task /\ edge \in deps
    BY <1>3, JobFields DEF DependencyLink, At, TypeOK, Ops, Backed, Stored
  <2>2. /\ op' \in Ops /\ op'[c] = Nil
        /\ \A d \in Client \ {c} : op'[d] = op[d]
    BY <1>3, ReturnStep DEF DependencyLink, TypeOK, Ops
  <2>3. \/ edges' = edges
        \/ edges' = edges \cup {edge} /\ ~Cyclic(edges \cup {edge})
    BY <1>3 DEF DependencyLink
  <2> HIDE DEF edge
  <2>4. TypeOK'
    BY <1>3, <2>1, <2>2, <2>3 DEF DependencyLink, TypeOK, Ops
  <2>5. Backed'
    BY <1>3, <2>2, BackedStep DEF DependencyLink, Backed
  <2>6. GraphAcyclic'
    BY <2>3 DEF GraphAcyclic
  <2>7. EdgesPersisted'
    BY <1>3, <2>1, <2>3 DEF DependencyLink, EdgesPersisted
  <2> QED
    BY <2>4, <2>5, <2>6, <2>7
<1> QED
  BY <1>1, <1>2, <1>3

LEMMA LoadIInv == ASSUME IInv, Load PROVE IInv'
<1> USE DEF IInv, GraphAcyclic, EdgesPersisted
<1>1. CASE LoadRows
  <2>1. /\ loader' = [at |-> "deps", rows |-> repo, deps |-> {}]
        /\ UNCHANGED <<mem, node, edges, repo, deps, moved, op, up>>
    BY <1>1 DEF LoadRows
  <2>2. TypeOK'
    BY <2>1 DEF TypeOK
  <2>3. Backed'
    BY <2>1 DEF Backed, Stored
  <2> QED
    BY <2>1, <2>2, <2>3
<1>2. CASE LoadDeps
  <2>1. /\ loader # Nil /\ loader' = [loader EXCEPT !.at = "replace", !.deps = deps]
        /\ UNCHANGED <<mem, node, edges, repo, deps, moved, op, up>>
    BY <1>2 DEF LoadDeps
  <2>2. TypeOK'
    BY <2>1 DEF TypeOK
  <2>3. loader'.rows = loader.rows /\ loader'.deps = deps
    BY <2>1 DEF TypeOK
  <2>4. Backed'
    BY <2>1, <2>3 DEF Backed, Stored
  <2> QED
    BY <2>1, <2>2, <2>4
<1>3. CASE LoadReplace
  <2>1. /\ loader # Nil /\ mem' = loader.rows /\ node' = Submitted(loader.rows)
        /\ loader' = Nil
        /\ UNCHANGED <<repo, deps, moved, op>>
    BY <1>3 DEF LoadReplace
  <2>2. edges' \subseteq loader.deps /\ Loadable(edges', node') /\ up' \in BOOLEAN
    BY <1>3 DEF LoadReplace, TypeOK
  <2>3. /\ loader.rows \in [Task -> Row \cup {Nil}] /\ loader.deps \subseteq deps
        /\ \A t \in Task : loader.rows[t] # Nil => repo[t] # Nil
    BY <2>1 DEF TypeOK, Backed
  <2>4. node' \subseteq Task /\ edges' \subseteq deps /\ ~Cyclic(edges')
    BY <2>1, <2>2, <2>3 DEF Submitted, Loadable
  <2>5. TypeOK'
    BY <2>1, <2>2, <2>3, <2>4 DEF TypeOK
  <2>6. Backed'
    BY <2>1, <2>3 DEF Backed, Stored
  <2>7. GraphAcyclic' /\ EdgesPersisted'
    BY <2>1, <2>4 DEF Cyclic
  <2> QED
    BY <2>5, <2>6, <2>7
<1> QED
  BY <1>1, <1>2, <1>3 DEF Load

\* A refused write and a crash.
LEMMA FailureIInv ==
  ASSUME IInv, Crash \/ \E c \in Client : DbError(c)
  PROVE  IInv'
<1> USE DEF IInv
<1>1. CASE \E c \in Client : DbError(c)
  <2>1. PICK c \in Client : DbError(c)
    BY <1>1
  <2> QED
    BY <2>1, ReturnIInv DEF DbError, TypeOK
<1>2. CASE Crash
  <2>1. moved' \in [Task -> (Columns \cup {"none"}) \X (Columns \cup {"none"})]
    <3>1. \A t \in Task : repo[t] # Nil => Column(repo[t].status) \in Columns
      BY ColumnType DEF TypeOK, Row
    <3> QED
      BY <1>2, <3>1 DEF Crash
  <2>2. TypeOK'
    BY <1>2, <2>1 DEF Crash, TypeOK, NoTasks
  <2>3. Backed'
    BY <1>2 DEF Crash, Backed, NoTasks
  <2>4. GraphAcyclic' /\ EdgesPersisted'
    BY <1>2, NoCycleInNoEdges DEF Crash, GraphAcyclic, EdgesPersisted
  <2> QED
    BY <2>2, <2>3, <2>4
<1> QED
  BY <1>1, <1>2

-----------------------------------------------------------------------------
LEMMA NextIInv == IInv /\ [Next]_vars => IInv'
<1> SUFFICES ASSUME IInv, [Next]_vars PROVE IInv'
  OBVIOUS
<1>1. CASE UNCHANGED vars
  BY <1>1 DEF vars, IInv, TypeOK, Backed, Stored, GraphAcyclic, EdgesPersisted
<1>2. CASE \E c \in Client, t \in Task : Begin(c, t)
  BY <1>2, SubmitIInv, StatusIInv, ResultIInv, CopyIInv, DependencyIInv DEF Begin
<1>3. CASE \E c \in Client : Resume(c)
  <2>1. PICK c \in Client : Resume(c)
    BY <1>3
  <2>2. op[c].task \in Task
    <3>1. op[c] # Nil
      BY <2>1 DEF Resume, At, SubmitNode, SubmitMem, CancelWrite, StatusRow,
                  StatusEvent, ResultRow, ResultEvent, CopyRow, CopyMem, RetryRow,
                  RetryMem, RetryEvent, PutRow, DependencyRow, DependencyLink
    <3> QED
      BY <3>1, JobFields DEF IInv, TypeOK, Ops
  <2> QED
    BY <2>1, <2>2, SubmitIInv, StatusIInv, ResultIInv, CopyIInv, DependencyIInv
       DEF Resume
<1>4. CASE Load \/ Crash \/ \E c \in Client : DbError(c)
  BY <1>4, LoadIInv, FailureIInv
<1> QED
  BY <1>1, <1>2, <1>3, <1>4 DEF Next

(* Whatever the interleaving of calls, reloads, refused writes, crashes    *)
(* and restarts, every structure keeps its type: no status write meets a   *)
(* row that was never inserted.                                            *)
THEOREM TypeCorrect == Spec => []TypeOK
<1>1. IInv => TypeOK
  BY DEF IInv
<1> QED
  BY <1>1, InitIInv, NextIInv, PTL DEF Spec

(* The dependency graph in memory never has a cycle.                       *)
THEOREM AlwaysAcyclic == Spec => []GraphAcyclic
<1>1. IInv => GraphAcyclic
  BY DEF IInv
<1> QED
  BY <1>1, InitIInv, NextIInv, PTL DEF Spec

(* Every edge in memory has its row, so no restart forgets a dependency    *)
(* that held a task back.                                                  *)
THEOREM EdgesDurable == Spec => []EdgesPersisted
<1>1. IInv => EdgesPersisted
  BY DEF IInv
<1> QED
  BY <1>1, InitIInv, NextIInv, PTL DEF Spec

-----------------------------------------------------------------------------
(***************************************************************************)
(* The theorems below are about a service that loads the tasks only when   *)
(* it starts, and whose copying calls - the scores, update_task and retry, *)
(* which carry a Task across an await and put it back - have the task to   *)
(* themselves.  Without the first a reload puts old rows back over newer   *)
(* memory; without the second a copy overwrites what another call did.     *)
(***************************************************************************)
NoReload == "reload" \notin Calls

CopyCalls == {"score", "update", "retry"}
CopiesAlone == SerialPerTask \/ Calls \cap CopyCalls = {}

CopyAwait == {"copy_row", "copy_mem", "retry_row", "retry_mem"}
SubmitAwait == {"submit_node", "submit_mem"}
LinkAwait == {"dep_row", "dep_link"}

(* A load is what a start is waiting for: nothing else runs, so the rows   *)
(* and the dependencies it has read are still the ones in the tables.      *)
Booting ==
  /\ up => loader = Nil
  /\ ~up => /\ \A c \in Client : op[c] = Nil
            /\ loader # Nil => /\ loader.rows = repo
                               /\ loader.at = "replace" => loader.deps = deps

(* No two calls are about one task, or no call carries a copy of one.      *)
Alone ==
  \A c, d \in Client :
    op[c] # Nil /\ op[d] # Nil /\ op[c].task = op[d].task => c = d

Exclusive ==
  IF SerialPerTask
  THEN Alone
  ELSE \A c \in Client : op[c] # Nil => op[c].at \notin CopyAwait

\* The part of a task's history that no status write touches.
SameHistory(m, r) == m.iter = r.iter /\ m.scores = r.scores

\* A task that has moved to status s.
Restated(new, old, s) ==
  /\ new \in Row /\ new.status = s
  /\ new.result = old.result /\ SameHistory(new, old)

BInv == IInv /\ Booting /\ Exclusive

(* A step of a call leaves the other calls and the other tasks as they     *)
(* are.                                                                    *)
Local(c, u) ==
  /\ u \in Task
  /\ up /\ UNCHANGED <<loader, up>>
  /\ \A d \in Client \ {c} : op'[d] = op[d]
  /\ \A v \in Task \ {u} : mem'[v] = mem[v] /\ repo'[v] = repo[v] /\ moved'[v] = moved[v]
  /\ op[c] # Nil => op[c].task = u
  /\ op'[c] # Nil => op'[c].task = u
  /\ op[c] = Nil => (SerialPerTask => ~Busy(u))


LEMMA SuspendLocal ==
  ASSUME IInv, NEW c \in Client, NEW t \in Task, NEW call,
         NEW at \in Await, NEW on \in Task, NEW from \in Status, NEW copy \in Row,
         MayCall(c, call, t), Suspend(c, at, t, on, from, copy),
         \A v \in Task \ {t} :
           mem'[v] = mem[v] /\ repo'[v] = repo[v] /\ moved'[v] = moved[v],
         UNCHANGED <<loader, up>>
  PROVE  /\ Local(c, t)
         /\ op[c] = Nil /\ op'[c] # Nil
         /\ op'[c].at = at /\ op'[c].task = t /\ op'[c].on = on
         /\ op'[c].from = from /\ op'[c].copy = copy
BY SuspendStep DEF IInv, TypeOK, Ops, MayCall, Local

LEMMA GoLocal ==
  ASSUME IInv, Booting, NEW c \in Client, op[c] # Nil, NEW at \in Await, Go(c, at),
         \A v \in Task \ {op[c].task} :
           mem'[v] = mem[v] /\ repo'[v] = repo[v] /\ moved'[v] = moved[v],
         UNCHANGED <<loader, up>>
  PROVE  /\ Local(c, op[c].task)
         /\ op'[c] # Nil
         /\ op'[c].at = at /\ op'[c].task = op[c].task /\ op'[c].on = op[c].on
         /\ op'[c].from = op[c].from /\ op'[c].copy = op[c].copy
BY GoStep, JobFields DEF IInv, TypeOK, Ops, Booting, Local

LEMMA ReturnLocal ==
  ASSUME IInv, Booting, NEW c \in Client, op[c] # Nil, Return(c),
         \A v \in Task \ {op[c].task} :
           mem'[v] = mem[v] /\ repo'[v] = repo[v] /\ moved'[v] = moved[v],
         UNCHANGED <<loader, up>>
  PROVE  Local(c, op[c].task) /\ op'[c] = Nil
BY ReturnStep, JobFields DEF IInv, TypeOK, Ops, Booting, Local

-----------------------------------------------------------------------------
(* What each action does, to its call and to its task.                     *)

LEMMA SubmitRowDoes ==
  ASSUME IInv, NEW c \in Client, NEW t \in Task, SubmitRow(c, t)
  PROVE  /\ Local(c, t) /\ op[c] = Nil /\ op'[c] # Nil /\ op'[c].at = "submit_node"
         /\ op'[c].copy = NewRow
         /\ mem[t] = Nil /\ repo[t] = Nil /\ repo' = [repo EXCEPT ![t] = NewRow]
         /\ repo'[t] = NewRow
         /\ UNCHANGED <<mem, node, edges, deps, moved>>
<1>1. "submit_node" \in Await /\ "Pending" \in Status
  BY DEF Await, Status
<1>2. Local(c, t) /\ op[c] = Nil /\ op'[c] # Nil
      /\ op'[c].at = "submit_node" /\ op'[c].copy = NewRow
  BY <1>1, SuspendLocal, NewRowType DEF SubmitRow, IInv, TypeOK
<1> QED
  BY <1>2 DEF SubmitRow, IInv, TypeOK, Backed

LEMMA SubmitNodeDoes ==
  ASSUME IInv, Booting, NEW c \in Client, SubmitNode(c)
  PROVE  /\ op[c] # Nil /\ op[c].at = "submit_node"
         /\ Local(c, op[c].task)
         /\ op'[c] # Nil /\ op'[c].at = "submit_mem" /\ op'[c].copy = op[c].copy
         /\ node' = node \cup {op[c].task}
         /\ UNCHANGED <<mem, edges, repo, deps, moved>>
<1>1. "submit_mem" \in Await
  BY DEF Await
<1> QED
  BY <1>1, GoLocal DEF SubmitNode, At

LEMMA SubmitMemDoes ==
  ASSUME IInv, Booting, NEW c \in Client, SubmitMem(c)
  PROVE  /\ op[c] # Nil /\ op[c].at = "submit_mem"
         /\ Local(c, op[c].task) /\ op'[c] = Nil
         /\ mem' = [mem EXCEPT ![op[c].task] = op[c].copy]
         /\ mem'[op[c].task] = op[c].copy
         /\ moved'[op[c].task] = <<"none", "ready">>
         /\ UNCHANGED <<node, edges, repo, deps>>
<1>1. op[c] # Nil /\ op[c].task \in Task
  BY JobFields DEF SubmitMem, At, IInv, TypeOK, Ops
<1> QED
  BY <1>1, ReturnLocal DEF SubmitMem, At, IInv, TypeOK

LEMMA SetStatusDoes ==
  ASSUME IInv, NEW c \in Client, NEW t \in Task, NEW s \in Status, SetStatus(c, t, s)
  PROVE  /\ Local(c, t) /\ op[c] = Nil /\ op'[c] # Nil /\ op'[c].at = "status_row"
         /\ mem[t] \in Row /\ Restated(mem'[t], mem[t], s)
         /\ ValidTransition(mem[t].status, s)
         /\ op'[c].from = mem[t].status /\ op'[c].copy = mem'[t]
         /\ UNCHANGED <<node, edges, repo, deps, moved>>
<1> DEFINE new == [mem[t] EXCEPT !.status = s]
<1>1. /\ mem[t] \in Row /\ mem[t].status \in Status /\ Restated(new, mem[t], s)
      /\ "status_row" \in Await
  BY DEF SetStatus, WriteStatus, CanMove, IInv, TypeOK, Row, Await, Restated, SameHistory
<1>2. /\ MayCall(c, "set_status", t) /\ mem' = [mem EXCEPT ![t] = new]
      /\ Suspend(c, "status_row", t, t, mem[t].status, new)
      /\ ValidTransition(mem[t].status, s)
      /\ UNCHANGED <<node, edges, repo, deps, moved, loader, up>>
  BY DEF SetStatus, WriteStatus, CanMove
<1>3. mem'[t] = new /\ \A v \in Task \ {t} : mem'[v] = mem[v]
  BY <1>2 DEF IInv, TypeOK
<1> HIDE DEF new
<1>4. new \in Row
  BY <1>1 DEF Restated
<1>5. /\ Local(c, t) /\ op[c] = Nil /\ op'[c] # Nil /\ op'[c].at = "status_row"
      /\ op'[c].from = mem[t].status /\ op'[c].copy = new
  BY <1>1, <1>2, <1>3, <1>4, SuspendLocal
<1> QED
  BY <1>1, <1>2, <1>3, <1>5

LEMMA CancelCheckDoes ==
  ASSUME IInv, NEW c \in Client, NEW t \in Task, CancelCheck(c, t)
  PROVE  /\ Local(c, t) /\ op[c] = Nil /\ op'[c] # Nil /\ op'[c].at = "cancel_write"
         /\ mem[t] # Nil
         /\ UNCHANGED <<mem, node, edges, repo, deps, moved>>
<1>1. "cancel_write" \in Await /\ "Pending" \in Status
  BY DEF Await, Status
<1> QED
  BY <1>1, SuspendLocal, NewRowType DEF CancelCheck

\* Either the task becomes Cancelled or the call returns.
LEMMA CancelWriteDoes ==
  ASSUME IInv, Booting, NEW c \in Client, CancelWrite(c)
  PROVE  LET t == op[c].task IN
         /\ op[c] # Nil /\ op[c].at = "cancel_write" /\ Local(c, t)
         /\ \/ /\ op'[c] # Nil /\ op'[c].at = "status_row"
               /\ mem[t] \in Row /\ Restated(mem'[t], mem[t], "Cancelled")
               /\ ValidTransition(mem[t].status, "Cancelled")
               /\ op'[c].from = mem[t].status /\ op'[c].copy = mem'[t]
            \/ op'[c] = Nil /\ UNCHANGED mem
         /\ UNCHANGED <<node, edges, repo, deps, moved>>
<1> DEFINE t == op[c].task
           new == [mem[t] EXCEPT !.status = "Cancelled"]
<1>1. /\ op[c] # Nil /\ t \in Task /\ op[c].at = "cancel_write" /\ up
      /\ UNCHANGED <<node, edges, repo, deps, moved, loader, up>>
  BY JobFields DEF CancelWrite, At, IInv, TypeOK, Ops, Booting
<1>2. CASE WriteStatus(c, t, "Cancelled")
  <2>1. /\ mem[t] \in Row /\ mem[t].status \in Status /\ Restated(new, mem[t], "Cancelled")
        /\ "status_row" \in Await
    BY <1>1, <1>2
       DEF WriteStatus, CanMove, IInv, TypeOK, Row, Await, Status, Restated, SameHistory
  <2>2. /\ mem' = [mem EXCEPT ![t] = new]
        /\ Suspend(c, "status_row", t, t, mem[t].status, new)
        /\ ValidTransition(mem[t].status, "Cancelled")
    BY <1>2 DEF WriteStatus, CanMove
  <2>3. mem'[t] = new /\ \A v \in Task \ {t} : mem'[v] = mem[v]
    BY <1>1, <2>2 DEF IInv, TypeOK
  <2>4. /\ op'[c] # Nil /\ op'[c].at = "status_row" /\ op'[c].task = t
        /\ op'[c].from = mem[t].status /\ op'[c].copy = new
        /\ \A d \in Client \ {c} : op'[d] = op[d]
    <3>1. op \in Ops /\ new \in Row
      BY <2>1 DEF IInv, TypeOK, Ops, Restated
    <3> HIDE DEF new, t
    <3> QED
      BY <1>1, <2>1, <2>2, <3>1, SuspendStep
  <2>5. Local(c, t)
    BY <1>1, <2>3, <2>4 DEF Local
  <2> HIDE DEF new
  <2> QED
    BY <1>1, <2>1, <2>2, <2>3, <2>4, <2>5
<1>3. CASE Return(c) /\ UNCHANGED mem
  BY <1>1, <1>3, ReturnLocal
<1> QED
  BY <1>2, <1>3 DEF CancelWrite

LEMMA StatusRowDoes ==
  ASSUME IInv, Booting, NEW c \in Client, StatusRow(c)
  PROVE  LET t == op[c].task
             s == op[c].copy.status IN
         /\ op[c] # Nil /\ op[c].at = "status_row" /\ Local(c, t)
         /\ op'[c] # Nil /\ op'[c].at = "status_event" /\ op'[c].copy = op[c].copy
         /\ op[c].copy \in Row
         /\ repo[t] \in Row /\ repo'[t] \in Row
         /\ repo' = [repo EXCEPT ![t] = repo'[t]]
         /\ repo'[t].status = s /\ SameHistory(repo'[t], repo[t])
         /\ repo'[t].result => op[c].copy.result \/ repo[t].result
         /\ UNCHANGED <<mem, node, edges, deps, moved>>
<1> DEFINE t == op[c].task
           row == RowAfterStatus(repo[t], op[c].copy.status, op[c].copy.result)
<1>1. /\ op[c] # Nil /\ t \in Task /\ op[c].copy \in Row /\ "status_event" \in Await
      /\ op[c].at = "status_row"
  BY JobFields DEF StatusRow, At, IInv, TypeOK, Ops, Await
<1>2. repo[t] \in Row
  BY <1>1 DEF IInv, TypeOK, Backed, Stored
<1>3. op[c].copy.status \in Status /\ op[c].copy.result \in BOOLEAN
  BY <1>1 DEF Row
<1>4. row \in Row
  BY <1>2, <1>3, RowAfterStatusType
<1>5. repo' = [repo EXCEPT ![t] = row] /\ repo'[t] = row
  BY <1>1 DEF StatusRow, IInv, TypeOK
<1>6. /\ row.status = op[c].copy.status /\ SameHistory(row, repo[t])
      /\ row.result => op[c].copy.result \/ repo[t].result
  BY <1>2, <1>3 DEF RowAfterStatus, Row, SameHistory
<1>7. Go(c, "status_event") /\ UNCHANGED <<mem, node, edges, deps, moved, loader, up>>
  BY DEF StatusRow
<1>8. \A v \in Task \ {t} : repo'[v] = repo[v]
  BY <1>5 DEF IInv, TypeOK
<1> HIDE DEF row
<1> QED
  BY <1>1, <1>2, <1>4, <1>5, <1>6, <1>7, <1>8, GoLocal

LEMMA StatusEventDoes ==
  ASSUME IInv, Booting, NEW c \in Client, StatusEvent(c)
  PROVE  /\ op[c] # Nil /\ op[c].at = "status_event"
         /\ Local(c, op[c].task) /\ op'[c] = Nil
         /\ moved'[op[c].task][2] = Column(op[c].copy.status)
         /\ UNCHANGED <<mem, node, edges, repo, deps>>
<1>1. op[c] # Nil /\ op[c].task \in Task
  BY JobFields DEF StatusEvent, At, IInv, TypeOK, Ops
<1>2. /\ moved'[op[c].task] = <<Column(op[c].from), Column(op[c].copy.status)>>
      /\ \A v \in Task \ {op[c].task} : moved'[v] = moved[v]
  BY <1>1 DEF StatusEvent, IInv, TypeOK
<1> QED
  BY <1>1, <1>2, ReturnLocal DEF StatusEvent, At

LEMMA SetResultDoes ==
  ASSUME IInv, NEW c \in Client, NEW t \in Task, SetResult(c, t)
  PROVE  /\ Local(c, t) /\ op[c] = Nil /\ op'[c] # Nil /\ op'[c].at = "result_row"
         /\ mem[t] \in Row /\ mem'[t] \in Row /\ SameHistory(mem'[t], mem[t])
         /\ mem'[t].status = "Completed" /\ mem'[t].result = TRUE
         /\ op'[c].copy = mem'[t]
         /\ UNCHANGED <<node, edges, repo, deps, moved>>
<1> DEFINE new == [mem[t] EXCEPT !.status = "Completed", !.result = TRUE]
<1>1. /\ mem[t] \in Row /\ new \in Row /\ SameHistory(new, mem[t])
      /\ new.status = "Completed" /\ new.result = TRUE
      /\ "result_row" \in Await /\ "InProgress" \in Status
  BY DEF SetResult, IInv, TypeOK, Row, Await, Status, SameHistory
<1>2. /\ MayCall(c, "set_result", t) /\ mem' = [mem EXCEPT ![t] = new]
      /\ Suspend(c, "result_row", t, t, "InProgress", new)
      /\ UNCHANGED <<node, edges, repo, deps, moved, loader, up>>
  BY DEF SetResult
<1>3. mem'[t] = new /\ \A v \in Task \ {t} : mem'[v] = mem[v]
  BY <1>2 DEF IInv, TypeOK
<1> HIDE DEF new
<1>4. /\ Local(c, t) /\ op[c] = Nil /\ op'[c] # Nil /\ op'[c].at = "result_row"
      /\ op'[c].copy = new
  BY <1>1, <1>2, <1>3, SuspendLocal
<1> QED
  BY <1>1, <1>2, <1>3, <1>4

LEMMA ResultRowDoes ==
  ASSUME IInv, Booting, NEW c \in Client, ResultRow(c)
  PROVE  LET t == op[c].task IN
         /\ op[c] # Nil /\ op[c].at = "result_row" /\ Local(c, t)
         /\ op'[c] # Nil /\ op'[c].at = "result_event" /\ op'[c].copy = op[c].copy
         /\ repo[t] \in Row /\ repo'[t] \in Row
         /\ repo' = [repo EXCEPT ![t] = repo'[t]]
         /\ repo'[t].status = "Completed" /\ SameHistory(repo'[t], repo[t])
         /\ UNCHANGED <<mem, node, edges, deps, moved>>
<1> DEFINE t == op[c].task
           row == RowAfterStatus(repo[t], "Completed", TRUE)
<1>1. /\ op[c] # Nil /\ t \in Task /\ op[c].at = "result_row"
      /\ "result_event" \in Await /\ "Completed" \in Status
  BY JobFields DEF ResultRow, At, IInv, TypeOK, Ops, Await, Status
<1>2. repo[t] \in Row
  BY <1>1 DEF IInv, TypeOK, Backed, Stored
<1>3. row \in Row
  BY <1>1, <1>2, RowAfterStatusType
<1>4. repo' = [repo EXCEPT ![t] = row] /\ repo'[t] = row
  BY <1>1 DEF ResultRow, IInv, TypeOK
<1>5. row.status = "Completed" /\ SameHistory(row, repo[t])
  BY <1>2 DEF RowAfterStatus, Row, SameHistory
<1>6. Go(c, "result_event") /\ UNCHANGED <<mem, node, edges, deps, moved, loader, up>>
  BY DEF ResultRow
<1>7. \A v \in Task \ {t} : repo'[v] = repo[v]
  BY <1>4 DEF IInv, TypeOK
<1> HIDE DEF row
<1> QED
  BY <1>1, <1>2, <1>3, <1>4, <1>5, <1>6, <1>7, GoLocal

LEMMA ResultEventDoes ==
  ASSUME IInv, Booting, NEW c \in Client, ResultEvent(c)
  PROVE  /\ op[c] # Nil /\ op[c].at = "result_event"
         /\ Local(c, op[c].task) /\ op'[c] = Nil
         /\ moved'[op[c].task][2] = Column("Completed")
         /\ UNCHANGED <<mem, node, edges, repo, deps>>
<1>1. op[c] # Nil /\ op[c].task \in Task
  BY JobFields DEF ResultEvent, At, IInv, TypeOK, Ops
<1>2. /\ moved'[op[c].task] = <<Column("InProgress"), Column("Completed")>>
      /\ \A v \in Task \ {op[c].task} : moved'[v] = moved[v]
  BY <1>1 DEF ResultEvent, IInv, TypeOK
<1> QED
  BY <1>1, <1>2, ReturnLocal DEF ResultEvent, At

\* The scores and update_task keep the status and only add to the history.
LEMMA CopyDoes ==
  ASSUME IInv, NEW c \in Client, NEW t \in Task,
         UpdateTask(c, t) \/ \E who \in Scorer : Score(c, t, who)
  PROVE  /\ Local(c, t) /\ op[c] = Nil /\ op'[c] # Nil /\ op'[c].at = "copy_row"
         /\ Calls \cap CopyCalls # {}
         /\ Get(t) \in Row
         /\ op'[c].copy.status = Get(t).status
         /\ op'[c].copy.iter = Get(t).iter
         /\ Get(t).scores \subseteq op'[c].copy.scores
         /\ UNCHANGED <<mem, node, edges, repo, deps, moved>>
<1>1. PICK call \in CopyCalls : MayCall(c, call, t)
  BY DEF UpdateTask, Score, CopyCalls
<1>2. Get(t) \in Row /\ "copy_row" \in Await /\ UNCHANGED <<mem, node, edges, repo, deps, moved, loader, up>>
  BY DEF UpdateTask, Score, Get, IInv, TypeOK, Await
<1>3. PICK new \in Row :
        /\ Suspend(c, "copy_row", t, t, Get(t).status, new)
        /\ new.status = Get(t).status /\ new.iter = Get(t).iter
        /\ Get(t).scores \subseteq new.scores
  <2>1. CASE UpdateTask(c, t)
    <3> DEFINE new == [Get(t) EXCEPT !.result = TRUE]
    <3>1. Suspend(c, "copy_row", t, t, Get(t).status, new)
      BY <2>1 DEF UpdateTask
    <3>2. new \in Row /\ new.status = Get(t).status /\ new.iter = Get(t).iter
          /\ Get(t).scores \subseteq new.scores
      BY <1>2 DEF Row
    <3> HIDE DEF new
    <3> QED
      BY <3>1, <3>2
  <2>2. ASSUME NEW who \in Scorer, Score(c, t, who)
        PROVE  \E new \in Row :
                 /\ Suspend(c, "copy_row", t, t, Get(t).status, new)
                 /\ new.status = Get(t).status /\ new.iter = Get(t).iter
                 /\ Get(t).scores \subseteq new.scores
    <3> DEFINE new == [Get(t) EXCEPT !.scores = @ \cup {who}]
    <3>1. Suspend(c, "copy_row", t, t, Get(t).status, new)
      BY <2>2 DEF Score
    <3>2. new \in Row /\ new.status = Get(t).status /\ new.iter = Get(t).iter
          /\ Get(t).scores \subseteq new.scores
      BY <1>2, <2>2 DEF Row
    <3> HIDE DEF new
    <3> QED
      BY <3>1, <3>2
  <2> QED
    BY <2>1, <2>2
<1>4. Get(t).status \in Status /\ call \in Calls
  BY <1>1, <1>2 DEF Row, MayCall
<1> QED
  BY <1>1, <1>2, <1>3, <1>4, SuspendLocal

LEMMA RetryDoes ==
  ASSUME IInv, NEW c \in Client, NEW t \in Task, Retry(c, t)
  PROVE  /\ Local(c, t) /\ op[c] = Nil /\ op'[c] # Nil /\ op'[c].at = "retry_row"
         /\ Calls \cap CopyCalls # {}
         /\ Get(t) \in Row
         /\ ValidTransition(Get(t).status, "Pending")
         /\ op'[c].copy.status = "Pending"
         /\ op'[c].copy.iter = Get(t).iter + 1
         /\ op'[c].copy.scores = Get(t).scores
         /\ UNCHANGED <<mem, node, edges, repo, deps, moved>>
<1> DEFINE new == [Get(t) EXCEPT !.status = "Pending", !.iter = @ + 1]
<1>1. /\ Get(t) \in Row /\ Get(t).iter < MaxIter /\ "retry_row" \in Await
      /\ MayCall(c, "retry", t) /\ "retry" \in Calls \cap CopyCalls
      /\ ValidTransition(Get(t).status, "Pending")
      /\ Suspend(c, "retry_row", t, t, Get(t).status, new)
      /\ UNCHANGED <<mem, node, edges, repo, deps, moved, loader, up>>
  BY DEF Retry, Get, IInv, TypeOK, Await, MayCall, CopyCalls
<1>2. new \in Row
  <2>1. Get(t).iter + 1 \in 0..MaxIter
    BY <1>1, IterAssumption DEF Row
  <2> QED
    BY <1>1, <2>1 DEF Row, Status
<1>3. /\ new.status = "Pending" /\ new.iter = Get(t).iter + 1
      /\ new.scores = Get(t).scores /\ Get(t).status \in Status
  BY <1>1 DEF Row
<1> HIDE DEF new
<1> QED
  BY <1>1, <1>2, <1>3, SuspendLocal

LEMMA PutRowDoes ==
  ASSUME IInv, Booting, NEW c \in Client, CopyRow(c) \/ RetryRow(c)
  PROVE  LET t == op[c].task IN
         /\ op[c] # Nil /\ Local(c, t) /\ op'[c] # Nil
         /\ \/ op[c].at = "copy_row" /\ op'[c].at = "copy_mem"
            \/ op[c].at = "retry_row" /\ op'[c].at = "retry_mem"
         /\ op'[c].copy = op[c].copy /\ op[c].copy \in Row
         /\ repo[t] \in Row
         /\ repo' = [repo EXCEPT ![t] = op[c].copy] /\ repo'[t] = op[c].copy
         /\ UNCHANGED <<mem, node, edges, deps, moved>>
<1> DEFINE t == op[c].task
<1>1. PICK at \in {"copy_row", "retry_row"}, next \in {"copy_mem", "retry_mem"} :
        PutRow(c, at, next) /\ (at = "copy_row" <=> next = "copy_mem")
  BY DEF CopyRow, RetryRow
<1>2. op[c] # Nil /\ t \in Task /\ op[c].at = at /\ op[c].copy \in Row /\ next \in Await
  BY <1>1, JobFields DEF PutRow, At, IInv, TypeOK, Ops, Await
<1>3. repo[t] \in Row
  BY <1>2 DEF IInv, TypeOK, Backed, Stored
<1>4. repo' = [repo EXCEPT ![t] = op[c].copy] /\ repo'[t] = op[c].copy
  BY <1>1, <1>2 DEF PutRow, IInv, TypeOK
<1>5. \A v \in Task \ {t} : repo'[v] = repo[v]
  BY <1>4 DEF IInv, TypeOK
<1>6. Go(c, next) /\ UNCHANGED <<mem, node, edges, deps, moved, loader, up>>
  BY <1>1 DEF PutRow
<1> QED
  BY <1>1, <1>2, <1>3, <1>4, <1>5, <1>6, GoLocal

LEMMA PutMemDoes ==
  ASSUME IInv, Booting, NEW c \in Client, CopyMem(c) \/ RetryMem(c)
  PROVE  LET t == op[c].task IN
         /\ op[c] # Nil /\ Local(c, t)
         /\ \/ op[c].at = "copy_mem" /\ op'[c] = Nil
            \/ /\ op[c].at = "retry_mem"
               /\ op'[c] # Nil /\ op'[c].at = "retry_event" /\ op'[c].copy = op[c].copy
         /\ op[c].copy \in Row
         /\ mem' = [mem EXCEPT ![t] = op[c].copy] /\ mem'[t] = op[c].copy
         /\ UNCHANGED <<node, edges, repo, deps, moved>>
<1> DEFINE t == op[c].task
<1>1. /\ op[c] # Nil /\ t \in Task /\ op[c].copy \in Row /\ "retry_event" \in Await
  BY JobFields DEF CopyMem, RetryMem, At, IInv, TypeOK, Ops, Await
<1>2. mem' = [mem EXCEPT ![t] = op[c].copy] /\ mem'[t] = op[c].copy
      /\ \A v \in Task \ {t} : mem'[v] = mem[v]
  BY <1>1 DEF CopyMem, RetryMem, IInv, TypeOK
<1>3. CASE CopyMem(c)
  BY <1>1, <1>2, <1>3, ReturnLocal DEF CopyMem, At
<1>4. CASE RetryMem(c)
  BY <1>1, <1>2, <1>4, GoLocal DEF RetryMem, At
<1> QED
  BY <1>3, <1>4

LEMMA RetryEventDoes ==
  ASSUME IInv, Booting, NEW c \in Client, RetryEvent(c)
  PROVE  /\ op[c] # Nil /\ op[c].at = "retry_event"
         /\ Local(c, op[c].task) /\ op'[c] = Nil
         /\ moved'[op[c].task][2] = Column("Pending")
         /\ UNCHANGED <<mem, node, edges, repo, deps>>
<1>1. op[c] # Nil /\ op[c].task \in Task
  BY JobFields DEF RetryEvent, At, IInv, TypeOK, Ops
<1>2. /\ moved'[op[c].task] = <<Column("Review"), Column("Pending")>>
      /\ \A v \in Task \ {op[c].task} : moved'[v] = moved[v]
  BY <1>1 DEF RetryEvent, IInv, TypeOK
<1> QED
  BY <1>1, <1>2, ReturnLocal DEF RetryEvent, At

LEMMA DependencyCheckDoes ==
  ASSUME IInv, NEW c \in Client, NEW t \in Task, NEW p \in Task, DependencyCheck(c, p, t)
  PROVE  /\ Local(c, t) /\ op[c] = Nil /\ op'[c] # Nil /\ op'[c].at = "dep_row"
         /\ op'[c].on = p /\ mem[p] # Nil /\ mem[t] # Nil
         /\ UNCHANGED <<mem, node, edges, repo, deps, moved>>
<1>1. "dep_row" \in Await /\ "Pending" \in Status
  BY DEF Await, Status
<1> QED
  BY <1>1, SuspendLocal, NewRowType DEF DependencyCheck

LEMMA DependencyRowDoes ==
  ASSUME IInv, Booting, NEW c \in Client, DependencyRow(c)
  PROVE  /\ op[c] # Nil /\ op[c].at = "dep_row"
         /\ Local(c, op[c].task)
         /\ op'[c] # Nil /\ op'[c].at = "dep_link" /\ op'[c].on = op[c].on
         /\ deps' = deps \cup {<<op[c].on, op[c].task>>}
         /\ UNCHANGED <<mem, node, edges, repo, moved>>
<1>1. "dep_link" \in Await
  BY DEF Await
<1> QED
  BY <1>1, GoLocal DEF DependencyRow, At

LEMMA DependencyLinkDoes ==
  ASSUME IInv, Booting, NEW c \in Client, DependencyLink(c)
  PROVE  LET edge == <<op[c].on, op[c].task>> IN
         /\ op[c] # Nil /\ op[c].at = "dep_link"
         /\ Local(c, op[c].task) /\ op'[c] = Nil
         /\ edges' = IF /\ {op[c].on, op[c].task} \subseteq node
                        /\ ~Cyclic(edges \cup {edge})
                     THEN edges \cup {edge} ELSE edges
         /\ UNCHANGED <<mem, node, repo, deps, moved>>
BY ReturnLocal DEF DependencyLink, At

LEMMA DbErrorDoes ==
  ASSUME IInv, Booting, NEW c \in Client, DbError(c)
  PROVE  /\ "db_error" \in Calls /\ op[c] # Nil
         /\ op[c].at \in {"status_row", "result_row", "copy_row", "retry_row", "dep_row"}
         /\ Local(c, op[c].task) /\ op'[c] = Nil
         /\ UNCHANGED <<mem, node, edges, repo, deps, moved>>
BY ReturnLocal DEF DbError, At

-----------------------------------------------------------------------------
LEMMA BeginLocal ==
  ASSUME IInv, NEW c \in Client, NEW t \in Task, Begin(c, t)
  PROVE  Local(c, t) /\ op[c] = Nil
BY TargetAssumption, SubmitRowDoes, SetStatusDoes, CancelCheckDoes, SetResultDoes,
   CopyDoes, RetryDoes, DependencyCheckDoes DEF Begin

LEMMA ResumeLocal ==
  ASSUME IInv, Booting, NEW c \in Client, Resume(c) \/ DbError(c)
  PROVE  Local(c, op[c].task) /\ op[c] # Nil
<1>1. CASE SubmitNode(c) \/ SubmitMem(c) \/ CancelWrite(c) \/ StatusRow(c) \/ StatusEvent(c)
  BY <1>1, SubmitNodeDoes, SubmitMemDoes, CancelWriteDoes, StatusRowDoes, StatusEventDoes
<1>2. CASE \/ ResultRow(c) \/ ResultEvent(c) \/ CopyRow(c) \/ RetryRow(c)
           \/ CopyMem(c) \/ RetryMem(c) \/ RetryEvent(c)
  BY <1>2, ResultRowDoes, ResultEventDoes, PutRowDoes, PutMemDoes, RetryEventDoes
<1>3. CASE DependencyRow(c) \/ DependencyLink(c) \/ DbError(c)
  BY <1>3, DependencyRowDoes, DependencyLinkDoes, DbErrorDoes
<1> QED
  BY <1>1, <1>2, <1>3 DEF Resume

LEMMA CallLocal ==
  ASSUME IInv, Booting, NEW c \in Client,
         Resume(c) \/ DbError(c) \/ \E t \in Task : Begin(c, t)
  PROVE  \E u \in Task : Local(c, u)
<1>1. CASE \E t \in Task : Begin(c, t)
  BY <1>1, BeginLocal
<1>2. CASE Resume(c) \/ DbError(c)
  BY <1>2, ResumeLocal DEF Local
<1> QED
  BY <1>1, <1>2

\* A call that has its task to itself meets no other call about it.
LEMMA OthersElsewhere ==
  ASSUME IInv, Alone, SerialPerTask, NEW c \in Client, NEW u \in Task, Local(c, u)
  PROVE  \A d \in Client \ {c} : op[d] # Nil => op[d].task # u /\ op[d].task \in Task
BY JobFields DEF Local, Alone, Busy, IInv, TypeOK, Ops

LEMMA AloneStep ==
  ASSUME IInv, Alone, SerialPerTask, NEW c \in Client, NEW u \in Task, Local(c, u)
  PROVE  Alone'
BY OthersElsewhere DEF Alone, Local

LEMMA BootingStep ==
  ASSUME Booting, NEW c \in Client, NEW u \in Task, Local(c, u)
  PROVE  Booting'
BY DEF Booting, Local

\* Only the calls that copy are ever at an await of a copy.
LEMMA NoCopyStep ==
  ASSUME IInv, Booting, NEW c \in Client, Calls \cap CopyCalls = {},
         Resume(c) \/ DbError(c) \/ \E t \in Task : Begin(c, t),
         \A d \in Client : op[d] # Nil => op[d].at \notin CopyAwait
  PROVE  \A d \in Client : op'[d] # Nil => op'[d].at \notin CopyAwait
<1>1. op'[c] # Nil => op'[c].at \notin CopyAwait
  <2> USE DEF CopyAwait
  <2>1. CASE \E t \in Task : Begin(c, t)
    BY <2>1, TargetAssumption, SubmitRowDoes, SetStatusDoes, CancelCheckDoes, SetResultDoes,
       CopyDoes, RetryDoes, DependencyCheckDoes DEF Begin
  <2>2. ~(CopyRow(c) \/ RetryRow(c) \/ CopyMem(c) \/ RetryMem(c))
    BY PutRowDoes, PutMemDoes
  <2>3. CASE SubmitNode(c) \/ SubmitMem(c) \/ CancelWrite(c) \/ StatusRow(c) \/ StatusEvent(c)
    BY <2>3, SubmitNodeDoes, SubmitMemDoes, CancelWriteDoes, StatusRowDoes, StatusEventDoes
  <2>4. CASE \/ ResultRow(c) \/ ResultEvent(c) \/ RetryEvent(c)
             \/ DependencyRow(c) \/ DependencyLink(c) \/ DbError(c)
    BY <2>4, ResultRowDoes, ResultEventDoes, RetryEventDoes, DependencyRowDoes,
       DependencyLinkDoes, DbErrorDoes
  <2> QED
    BY <2>1, <2>2, <2>3, <2>4 DEF Resume
<1> QED
  BY <1>1, CallLocal DEF Local

LEMMA InitBInv == Init => BInv
<1> SUFFICES ASSUME Init PROVE BInv
  OBVIOUS
<1>1. Booting /\ Exclusive
  BY DEF Init, Booting, Exclusive, Alone
<1> QED
  BY <1>1, InitIInv DEF BInv

\* Without reloads a load runs only while nothing else does.
LEMMA LoadBooting ==
  ASSUME NoReload, IInv, Booting, Load
  PROVE  /\ Booting' /\ ~up
         /\ op' = op /\ \A c \in Client : op[c] = Nil
         /\ \/ UNCHANGED <<mem, node, edges, repo, deps, moved, up>>
            \/ /\ mem' = repo /\ node' = Submitted(repo)
               /\ edges' \subseteq node' \X node'
               /\ up' => edges' = deps
               /\ UNCHANGED <<repo, deps, moved>>
<1>1. CASE LoadRows
  <2>1. /\ loader = Nil /\ ~up /\ loader' = [at |-> "deps", rows |-> repo, deps |-> {}]
        /\ UNCHANGED <<mem, node, edges, repo, deps, moved, op, up>>
    BY <1>1 DEF LoadRows, NoReload
  <2> QED
    BY <2>1 DEF Booting
<1>2. CASE LoadDeps
  <2>1. /\ loader # Nil /\ loader' = [loader EXCEPT !.at = "replace", !.deps = deps]
        /\ UNCHANGED <<mem, node, edges, repo, deps, moved, op, up>>
    BY <1>2 DEF LoadDeps
  <2>2. loader'.rows = loader.rows /\ loader'.deps = deps
    BY <2>1 DEF IInv, TypeOK
  <2> QED
    BY <2>1, <2>2 DEF Booting
<1>3. CASE LoadReplace
  <2>1. /\ loader # Nil /\ loader.at = "replace" /\ ~up
        /\ mem' = loader.rows /\ node' = Submitted(loader.rows) /\ loader' = Nil
        /\ UNCHANGED <<repo, deps, moved, op>>
    BY <1>3 DEF LoadReplace, Booting
  <2>2. loader.rows = repo /\ loader.deps = deps
    BY <2>1 DEF Booting
  <2>3. Loadable(edges', node') /\ (up' => edges' = loader.deps)
    BY <1>3, <2>1 DEF LoadReplace
  <2> QED
    BY <2>1, <2>2, <2>3 DEF Booting, Loadable
<1> QED
  BY <1>1, <1>2, <1>3 DEF Load

LEMMA NextBInv == ASSUME NoReload, CopiesAlone, BInv, [Next]_vars PROVE BInv'
<1>1. IInv'
  BY NextIInv DEF BInv
<1>2. CASE UNCHANGED vars
  BY <1>1, <1>2 DEF vars, BInv, Booting, Exclusive, Alone
<1>3. CASE Load
  <2>1. Booting' /\ op' = op
    BY <1>3, LoadBooting DEF BInv
  <2> QED
    BY <1>1, <2>1 DEF BInv, Exclusive, Alone
<1>4. CASE Crash
  BY <1>1, <1>4 DEF Crash, BInv, Booting, Exclusive, Alone
<1>5. ASSUME NEW c \in Client,
             Resume(c) \/ DbError(c) \/ \E t \in Task : Begin(c, t)
      PROVE  BInv'
  <2>1. PICK u \in Task : Local(c, u)
    BY <1>5, CallLocal DEF BInv
  <2>2. Booting'
    BY <2>1, BootingStep DEF BInv
  <2>3. Exclusive'
    BY <1>5, <2>1, AloneStep, NoCopyStep DEF BInv, Exclusive, CopiesAlone
  <2> QED
    BY <1>1, <2>2, <2>3 DEF BInv
<1> QED
  BY <1>2, <1>3, <1>4, <1>5 DEF Next

-----------------------------------------------------------------------------
(* What is in memory has its node, a row that memory lacks is one whose    *)
(* submit has not returned, and a call that copies copies from memory.     *)
Submitting(c, t) == op[c] # Nil /\ op[c].at \in SubmitAwait /\ op[c].task = t

Registered ==
  up => /\ \A t \in Task : mem[t] # Nil => t \in node
        /\ \A t \in Task :
             repo[t] # Nil /\ mem[t] = Nil => \E c \in Client : Submitting(c, t)
        /\ \A c \in Client : op[c] # Nil =>
             /\ op[c].at = "submit_mem" => op[c].task \in node
             /\ op[c].at \in CopyAwait => mem[op[c].task] # Nil

(* A stored dependency is an edge, closes a cycle, or is about to be put   *)
(* in the graph by a call whose two tasks have their nodes; an edge ends   *)
(* in tasks that are in memory.                                            *)
Linking(c, p, t) ==
  op[c] # Nil /\ op[c].at = "dep_link" /\ op[c].on = p /\ op[c].task = t

Gated ==
  up => /\ \A c \in Client : op[c] # Nil /\ op[c].at \in LinkAwait =>
             mem[op[c].on] # Nil /\ mem[op[c].task] # Nil
        /\ \A p, t \in Task : <<p, t>> \in edges => mem[p] # Nil
        /\ \A p, t \in Task : <<p, t>> \in deps =>
             \/ <<p, t>> \in edges
             \/ Cyclic(edges \cup {<<p, t>>})
             \/ \E c \in Client : Linking(c, p, t)

GInv == BInv /\ Registered /\ Gated

LEMMA CyclicGrows ==
  ASSUME NEW E, NEW F, E \subseteq F, Cyclic(E) PROVE Cyclic(F)
<1>1. PICK S \in SUBSET Task : S # {} /\ \A n \in S : \E m \in S : <<m, n>> \in E
  BY DEF Cyclic
<1>2. \A n \in S : \E m \in S : <<m, n>> \in F
  BY <1>1
<1> QED
  BY <1>1, <1>2 DEF Cyclic

\* A task of a copying call that starts now is in memory.
LEMMA CopiedFromMemory ==
  ASSUME CopiesAlone, IInv, Registered, NEW c \in Client, NEW t \in Task,
         Local(c, t), op[c] = Nil, Calls \cap CopyCalls # {}, Get(t) \in Row
  PROVE  mem[t] # Nil /\ Get(t) = mem[t]
<1>1. SerialPerTask /\ ~Busy(t) /\ up
  BY DEF CopiesAlone, Local
<1>2. mem[t] = Nil => repo[t] # Nil
  BY NilAssumption DEF Get
<1>3. \A d \in Client : ~Submitting(d, t)
  BY <1>1 DEF Busy, Submitting
<1> QED
  BY <1>1, <1>2, <1>3 DEF Registered, Get

(* Memory only gains tasks while calls run, and the task of a call is in   *)
(* memory when the call says so.                                           *)
LEMMA MemoryGrows ==
  ASSUME BInv, NEW c \in Client,
         Resume(c) \/ DbError(c) \/ \E t \in Task : Begin(c, t)
  PROVE  \A v \in Task : mem[v] # Nil => mem'[v] # Nil
<1> USE DEF BInv
<1>1. CASE \E t \in Task : Begin(c, t)
  <2>1. PICK t \in Task : Begin(c, t)
    BY <1>1
  <2>2. CASE \E s \in Target : SetStatus(c, t, s)
    <3>1. PICK s \in Status : SetStatus(c, t, s)
      BY <2>2, TargetAssumption
    <3>2. mem'[t] \in Row /\ Local(c, t)
      BY <3>1, SetStatusDoes DEF Restated
    <3> QED
      BY <3>2, NilAssumption DEF Local
  <2>3. CASE SetResult(c, t)
    <3>1. mem'[t] \in Row /\ Local(c, t)
      BY <2>3, SetResultDoes
    <3> QED
      BY <3>1, NilAssumption DEF Local
  <2> QED
    BY <2>1, <2>2, <2>3, SubmitRowDoes, CancelCheckDoes, CopyDoes, RetryDoes,
       DependencyCheckDoes DEF Begin
<1>2. CASE CancelWrite(c)
  <2>1. /\ mem' = mem \/ mem'[op[c].task] \in Row
        /\ Local(c, op[c].task)
    BY <1>2, CancelWriteDoes DEF Restated
  <2> QED
    BY <2>1, NilAssumption DEF Local
<1>3. CASE SubmitMem(c) \/ CopyMem(c) \/ RetryMem(c)
  <2>1. /\ op[c].copy \in Row /\ mem'[op[c].task] = op[c].copy
        /\ Local(c, op[c].task)
    BY <1>3, SubmitMemDoes, PutMemDoes, JobFields DEF IInv, TypeOK, Ops
  <2> QED
    BY <2>1, NilAssumption DEF Local
<1> QED
  BY <1>1, <1>2, <1>3, SubmitNodeDoes, StatusRowDoes, StatusEventDoes, ResultRowDoes,
     ResultEventDoes, PutRowDoes, RetryEventDoes, DependencyRowDoes,
     DependencyLinkDoes, DbErrorDoes DEF Resume

LEMMA RegisteredFrame ==
  ASSUME IInv, Registered, NEW c \in Client, NEW u \in Task, Local(c, u),
         \A v \in Task : mem[v] # Nil => mem'[v] # Nil,
         node \subseteq node',
         mem'[u] # Nil => u \in node',
         repo'[u] # Nil /\ mem'[u] = Nil =>
           \/ Submitting(c, u)'
           \/ repo[u] # Nil /\ ~Submitting(c, u),
         op'[c] # Nil => /\ op'[c].at = "submit_mem" => u \in node'
                         /\ op'[c].at \in CopyAwait => mem'[u] # Nil
  PROVE  Registered'
<1>1. \A v \in Task : mem'[v] # Nil => v \in node'
  BY DEF Registered, Local
<1>2. ASSUME NEW v \in Task, repo'[v] # Nil, mem'[v] = Nil
      PROVE  \E d \in Client : Submitting(d, v)'
  <2>1. CASE Submitting(c, u)' /\ v = u
    BY <2>1
  <2>2. CASE ~(Submitting(c, u)' /\ v = u)
    <3>1. repo[v] # Nil /\ mem[v] = Nil /\ ~Submitting(c, v)
      BY <1>2, <2>2 DEF Local, Submitting
    <3>2. PICK d \in Client : Submitting(d, v)
      BY <3>1 DEF Registered, Local
    <3> QED
      BY <3>1, <3>2 DEF Submitting, Local
  <2> QED
    BY <2>1, <2>2
<1>3. ASSUME NEW d \in Client, op'[d] # Nil
      PROVE  /\ op'[d].at = "submit_mem" => op'[d].task \in node'
             /\ op'[d].at \in CopyAwait => mem'[op'[d].task] # Nil
  BY <1>3, JobFields DEF Registered, Local, IInv, TypeOK, Ops
<1> QED
  BY <1>1, <1>2, <1>3 DEF Registered

LEMMA RegisteredCall ==
  ASSUME CopiesAlone, BInv, Registered, NEW c \in Client,
         Resume(c) \/ DbError(c) \/ \E t \in Task : Begin(c, t)
  PROVE  Registered'
<1> USE DEF BInv
<1>0. \A v \in Task : mem[v] # Nil => mem'[v] # Nil
  BY MemoryGrows
<1>1. ASSUME NEW t \in Task, Begin(c, t) PROVE Registered'
  <2>1. CASE SubmitRow(c, t)
    <3>1. Submitting(c, t)'
      BY <2>1, SubmitRowDoes DEF Submitting, SubmitAwait, Local
    <3>2. /\ Local(c, t) /\ op'[c].at \notin CopyAwait \cup {"submit_mem"}
          /\ mem[t] = Nil /\ UNCHANGED <<mem, node>>
      BY <2>1, SubmitRowDoes DEF CopyAwait
    <3> QED
      BY <1>0, <3>1, <3>2, RegisteredFrame
  <2>2. ASSUME Local(c, t), op[c] = Nil, op'[c] # Nil, op'[c].at # "submit_mem",
               op'[c].at \in CopyAwait => mem[t] # Nil, mem[t] = Nil => mem'[t] = Nil,
               UNCHANGED <<node, repo>>
        PROVE  Registered'
    <3>1. up /\ (mem[t] # Nil => t \in node)
      BY <2>2 DEF Local, Registered
    <3> QED
      BY <1>0, <2>2, <3>1, RegisteredFrame DEF Submitting
  <2>3. CASE \E s \in Target : SetStatus(c, t, s)
    <3>1. PICK s \in Status : SetStatus(c, t, s)
      BY <2>3, TargetAssumption
    <3>2. /\ Local(c, t) /\ op[c] = Nil /\ op'[c] # Nil /\ op'[c].at = "status_row"
          /\ mem[t] # Nil /\ UNCHANGED <<node, repo>>
      BY <3>1, SetStatusDoes, NilAssumption
    <3> QED
      BY <2>2, <3>2 DEF CopyAwait
  <2>4. CASE CancelCheck(c, t)
    BY <2>2, <2>4, CancelCheckDoes DEF CopyAwait
  <2>5. CASE SetResult(c, t)
    <3>1. /\ Local(c, t) /\ op[c] = Nil /\ op'[c] # Nil /\ op'[c].at = "result_row"
          /\ mem[t] # Nil /\ UNCHANGED <<node, repo>>
      BY <2>5, SetResultDoes, NilAssumption
    <3> QED
      BY <2>2, <3>1 DEF CopyAwait
  <2>6. CASE UpdateTask(c, t) \/ \E who \in Scorer : Score(c, t, who)
    BY <2>2, <2>6, CopyDoes, CopiedFromMemory
  <2>7. CASE Retry(c, t)
    BY <2>2, <2>7, RetryDoes, CopiedFromMemory
  <2>8. CASE \E p \in Task : DependencyCheck(c, p, t)
    BY <2>2, <2>8, DependencyCheckDoes DEF CopyAwait
  <2> QED
    BY <1>1, <2>1, <2>3, <2>4, <2>5, <2>6, <2>7, <2>8 DEF Begin
<1>2. ASSUME Resume(c) \/ DbError(c) PROVE Registered'
  <2>1. PICK u \in Task :
          /\ u = op[c].task /\ op[c] # Nil /\ Local(c, u) /\ up
          /\ (mem[u] # Nil => u \in node) /\ repo[u] # Nil
    <3>1. PICK u \in Task : u = op[c].task /\ op[c] # Nil /\ Local(c, u)
      BY <1>2, ResumeLocal DEF Local
    <3> QED
      BY <3>1 DEF Local, Registered, IInv, Backed, Stored
  <2>2. CASE SubmitNode(c)
    <3>1. Submitting(c, u)'
      BY <2>1, <2>2, SubmitNodeDoes DEF Submitting, SubmitAwait, Local
    <3> QED
      BY <1>0, <2>1, <2>2, <3>1, SubmitNodeDoes, RegisteredFrame DEF CopyAwait
  <2>3. CASE SubmitMem(c)
    <3>1. u \in node /\ mem'[u] # Nil
      BY <2>1, <2>3, SubmitMemDoes, JobFields, NilAssumption
         DEF Registered, IInv, TypeOK, Ops
    <3> QED
      BY <1>0, <2>1, <2>3, <3>1, SubmitMemDoes, RegisteredFrame
  <2>4. ASSUME op[c].at \notin SubmitAwait, mem[u] = Nil => mem'[u] = Nil,
               node' = node,
               op'[c] # Nil => /\ op'[c].at # "submit_mem"
                               /\ op'[c].at \in CopyAwait => mem[u] # Nil
        PROVE  Registered'
    BY <1>0, <2>1, <2>4, RegisteredFrame DEF Submitting
  <2>5. CASE CancelWrite(c)
    <3>1. /\ op[c].at = "cancel_write" /\ node' = node
          /\ op'[c] # Nil => op'[c].at = "status_row"
          /\ mem[u] # Nil \/ mem' = mem
      BY <2>1, <2>5, CancelWriteDoes, NilAssumption
    <3> QED
      BY <2>4, <3>1 DEF SubmitAwait, CopyAwait
  <2>6. CASE StatusRow(c) \/ StatusEvent(c) \/ ResultRow(c) \/ ResultEvent(c)
    BY <2>4, <2>6, StatusRowDoes, StatusEventDoes, ResultRowDoes, ResultEventDoes
       DEF SubmitAwait, CopyAwait
  <2>7. CASE CopyRow(c) \/ RetryRow(c)
    <3>1. op[c].at \in CopyAwait \ SubmitAwait
      BY <2>7, PutRowDoes DEF SubmitAwait, CopyAwait
    <3>2. mem[u] # Nil
      BY <2>1, <3>1 DEF Registered
    <3> QED
      BY <2>4, <2>7, <3>1, <3>2, PutRowDoes
  <2>8. CASE CopyMem(c) \/ RetryMem(c)
    <3>1. op[c].at \in CopyAwait \ SubmitAwait
      BY <2>8, PutMemDoes DEF SubmitAwait, CopyAwait
    <3>2. mem[u] # Nil
      BY <2>1, <3>1 DEF Registered
    <3> QED
      BY <2>4, <2>8, <3>1, <3>2, PutMemDoes DEF CopyAwait
  <2>9. CASE RetryEvent(c) \/ DependencyRow(c) \/ DependencyLink(c) \/ DbError(c)
    BY <2>4, <2>9, RetryEventDoes, DependencyRowDoes, DependencyLinkDoes, DbErrorDoes
       DEF SubmitAwait, CopyAwait
  <2> QED
    BY <1>2, <2>2, <2>3, <2>5, <2>6, <2>7, <2>8, <2>9 DEF Resume
<1> QED
  BY <1>1, <1>2

LEMMA NextRegistered ==
  ASSUME NoReload, CopiesAlone, BInv, Registered, [Next]_vars PROVE Registered'
<1>1. CASE UNCHANGED vars
  BY <1>1 DEF vars, Registered, Submitting
<1>2. CASE Load
  <2>1. CASE UNCHANGED <<mem, node, edges, repo, deps, moved, up>>
    BY <1>2, <2>1, LoadBooting DEF BInv, Registered
  <2>2. CASE mem' = repo /\ node' = Submitted(repo) /\ UNCHANGED repo
    BY <1>2, <2>2, LoadBooting DEF BInv, Registered, Submitted
  <2> QED
    BY <1>2, <2>1, <2>2, LoadBooting DEF BInv
<1>3. CASE Crash
  BY <1>3 DEF Crash, Registered
<1> QED
  BY <1>1, <1>2, <1>3, RegisteredCall DEF Next

-----------------------------------------------------------------------------
\* A step that links nothing keeps every dependency gated.
LEMMA GatedFrame ==
  ASSUME IInv, Gated, NEW c \in Client, NEW u \in Task, Local(c, u),
         \A v \in Task : mem[v] # Nil => mem'[v] # Nil,
         UNCHANGED <<edges, deps>>,
         op[c] # Nil => op[c].at # "dep_link",
         op'[c] # Nil => op'[c].at \notin LinkAwait \/
                         (mem'[op'[c].on] # Nil /\ mem'[u] # Nil)
  PROVE  Gated'
<1>1. ASSUME NEW d \in Client, op'[d] # Nil, op'[d].at \in LinkAwait
      PROVE  mem'[op'[d].on] # Nil /\ mem'[op'[d].task] # Nil
  <2>1. CASE d = c
    BY <1>1, <2>1 DEF Local
  <2>2. CASE d # c
    BY <1>1, <2>2, JobFields DEF Local, Gated, IInv, TypeOK, Ops
  <2> QED
    BY <2>1, <2>2
<1>2. ASSUME NEW p \in Task, NEW t \in Task, NEW d \in Client, Linking(d, p, t)
      PROVE  Linking(d, p, t)'
  BY <1>2 DEF Linking, Local
<1>3. ASSUME NEW p \in Task, NEW t \in Task, <<p, t>> \in deps'
      PROVE  \/ <<p, t>> \in edges'
             \/ Cyclic(edges' \cup {<<p, t>>})
             \/ \E d \in Client : Linking(d, p, t)'
  BY <1>2, <1>3 DEF Gated, Local
<1> QED
  BY <1>1, <1>3 DEF Gated, Local

LEMMA GatedCall ==
  ASSUME GInv, NEW c \in Client,
         Resume(c) \/ DbError(c) \/ \E t \in Task : Begin(c, t)
  PROVE  Gated'
<1> USE DEF GInv, BInv
<1>0. \A v \in Task : mem[v] # Nil => mem'[v] # Nil
  BY MemoryGrows
<1>1. ASSUME NEW t \in Task, Begin(c, t) PROVE Gated'
  <2>1. ASSUME Local(c, t), op[c] = Nil, op'[c].at \notin LinkAwait, UNCHANGED <<edges, deps>>
        PROVE  Gated'
    BY <1>0, <2>1, GatedFrame
  <2>2. CASE SubmitRow(c, t) \/ CancelCheck(c, t) \/ SetResult(c, t)
    BY <2>1, <2>2, SubmitRowDoes, CancelCheckDoes, SetResultDoes DEF LinkAwait
  <2>3. CASE \E s \in Target : SetStatus(c, t, s)
    <3>1. PICK s \in Status : SetStatus(c, t, s)
      BY <2>3, TargetAssumption
    <3> QED
      BY <2>1, <3>1, SetStatusDoes DEF LinkAwait
  <2>4. CASE \/ UpdateTask(c, t) \/ Retry(c, t)
             \/ \E who \in Scorer : Score(c, t, who)
    BY <2>1, <2>4, CopyDoes, RetryDoes DEF LinkAwait
  <2>5. CASE \E p \in Task : DependencyCheck(c, p, t)
    <3>1. PICK p \in Task : DependencyCheck(c, p, t)
      BY <2>5
    <3>2. /\ Local(c, t) /\ op[c] = Nil /\ op'[c].on = p
          /\ mem'[p] # Nil /\ mem'[t] # Nil /\ UNCHANGED <<edges, deps>>
      BY <3>1, DependencyCheckDoes
    <3> QED
      BY <1>0, <3>2, GatedFrame
  <2> QED
    BY <1>1, <2>2, <2>3, <2>4, <2>5 DEF Begin
<1>2. ASSUME NEW u \in Task, u = op[c].task, Local(c, u), op[c] # Nil,
             op[c].at # "dep_link", op'[c] # Nil => op'[c].at \notin LinkAwait,
             UNCHANGED <<edges, deps>>
      PROVE  Gated'
  BY <1>0, <1>2, GatedFrame
<1>3. CASE \/ SubmitNode(c) \/ SubmitMem(c) \/ CancelWrite(c)
           \/ StatusRow(c) \/ StatusEvent(c) \/ ResultRow(c) \/ ResultEvent(c)
  <2>1. /\ op[c] # Nil /\ Local(c, op[c].task) /\ op[c].at # "dep_link"
        /\ op'[c] # Nil => op'[c].at \notin LinkAwait
        /\ UNCHANGED <<edges, deps>>
    BY <1>3, SubmitNodeDoes, SubmitMemDoes, CancelWriteDoes, StatusRowDoes,
       StatusEventDoes, ResultRowDoes, ResultEventDoes DEF LinkAwait
  <2> QED
    BY <1>2, <2>1 DEF Local
<1>4. CASE \/ CopyRow(c) \/ CopyMem(c) \/ RetryRow(c) \/ RetryMem(c) \/ RetryEvent(c)
           \/ DbError(c)
  <2>1. /\ op[c] # Nil /\ Local(c, op[c].task) /\ op[c].at # "dep_link"
        /\ op'[c] # Nil => op'[c].at \notin LinkAwait
        /\ UNCHANGED <<edges, deps>>
    BY <1>4, PutRowDoes, PutMemDoes, RetryEventDoes, DbErrorDoes DEF LinkAwait
  <2> QED
    BY <1>2, <2>1 DEF Local
<1>5. CASE DependencyRow(c)
  <2>1. PICK p \in Task, t \in Task :
          /\ p = op[c].on /\ t = op[c].task
          /\ op[c] # Nil /\ op[c].at = "dep_row" /\ Local(c, t)
          /\ op'[c] # Nil /\ op'[c].at = "dep_link" /\ op'[c].on = p /\ op'[c].task = t
          /\ deps' = deps \cup {<<p, t>>}
          /\ UNCHANGED <<mem, edges>>
    BY <1>5, DependencyRowDoes, JobFields DEF IInv, TypeOK, Ops, Local
  <2>2. ASSUME NEW d \in Client, op'[d] # Nil, op'[d].at \in LinkAwait
        PROVE  mem'[op'[d].on] # Nil /\ mem'[op'[d].task] # Nil
    <3>1. mem[p] # Nil /\ mem[t] # Nil
      BY <2>1 DEF Gated, Local, LinkAwait
    <3> QED
      BY <2>1, <2>2, <3>1 DEF Gated, Local
  <2>3. ASSUME NEW q \in Task, NEW v \in Task, <<q, v>> \in deps'
        PROVE  \/ <<q, v>> \in edges'
               \/ Cyclic(edges' \cup {<<q, v>>})
               \/ \E d \in Client : Linking(d, q, v)'
    <3>1. CASE q = p /\ v = t
      BY <2>1, <3>1 DEF Linking
    <3>2. CASE ~(q = p /\ v = t)
      <4>1. <<q, v>> \in deps /\ up
        BY <2>1, <2>3, <3>2 DEF Local
      <4>2. \A d \in Client : Linking(d, q, v) => Linking(d, q, v)'
        BY <2>1 DEF Linking, Local
      <4> QED
        BY <2>1, <4>1, <4>2 DEF Gated
    <3> QED
      BY <3>1, <3>2
  <2> QED
    BY <2>1, <2>2, <2>3 DEF Gated, Local
<1>6. CASE DependencyLink(c)
  <2>1. PICK p \in Task, t \in Task :
          /\ p = op[c].on /\ t = op[c].task
          /\ op[c] # Nil /\ op[c].at = "dep_link" /\ Local(c, t) /\ op'[c] = Nil
          /\ edges' = IF {p, t} \subseteq node /\ ~Cyclic(edges \cup {<<p, t>>})
                      THEN edges \cup {<<p, t>>} ELSE edges
          /\ UNCHANGED <<mem, deps>>
    BY <1>6, DependencyLinkDoes, JobFields DEF IInv, TypeOK, Ops, Local
  <2>2. mem[p] # Nil /\ mem[t] # Nil /\ {p, t} \subseteq node /\ up
    BY <2>1 DEF Gated, Registered, Local, LinkAwait
  <2>3. \A d \in Client : op'[d] # Nil /\ op'[d].at \in LinkAwait =>
          mem'[op'[d].on] # Nil /\ mem'[op'[d].task] # Nil
    BY <2>1, <2>2 DEF Gated, Local
  <2>4. \A q, v \in Task : <<q, v>> \in edges' => mem'[q] # Nil
    BY <2>1, <2>2 DEF Gated
  <2>5. ASSUME NEW q \in Task, NEW v \in Task, <<q, v>> \in deps'
        PROVE  \/ <<q, v>> \in edges'
               \/ Cyclic(edges' \cup {<<q, v>>})
               \/ \E d \in Client : Linking(d, q, v)'
    <3>1. CASE <<q, v>> \in edges
      BY <2>1, <3>1
    <3>2. CASE Cyclic(edges \cup {<<q, v>>})
      <4>1. edges \cup {<<q, v>>} \subseteq edges' \cup {<<q, v>>}
        BY <2>1
      <4> QED
        BY <3>2, <4>1, CyclicGrows
    <3>3. ASSUME NEW d \in Client, Linking(d, q, v)
          PROVE  \/ <<q, v>> \in edges'
                 \/ Cyclic(edges' \cup {<<q, v>>})
                 \/ \E e \in Client : Linking(e, q, v)'
      <4>1. CASE d = c
        BY <2>1, <2>2, <3>3, <4>1 DEF Linking
      <4>2. CASE d # c
        BY <2>1, <3>3, <4>2 DEF Linking, Local
      <4> QED
        BY <4>1, <4>2
    <3> QED
      BY <2>1, <2>2, <2>5, <3>1, <3>2, <3>3 DEF Gated
  <2> QED
    BY <2>3, <2>4, <2>5 DEF Gated
<1> QED
  BY <1>1, <1>3, <1>4, <1>5, <1>6 DEF Resume

LEMMA InitGInv == Init => GInv
<1> SUFFICES ASSUME Init PROVE GInv
  OBVIOUS
<1>1. Registered /\ Gated
  BY DEF Init, NoTasks, Registered, Gated
<1> QED
  BY <1>1, InitBInv DEF GInv

LEMMA NextGInv == ASSUME NoReload, CopiesAlone, GInv, [Next]_vars PROVE GInv'
<1>1. BInv' /\ Registered'
  BY NextBInv, NextRegistered DEF GInv
<1>2. Gated'
  <2>1. CASE UNCHANGED vars
    BY <2>1 DEF vars, GInv, Gated, Linking
  <2>2. CASE Load
    <3>1. CASE UNCHANGED <<mem, node, edges, repo, deps, moved, up>>
      BY <2>2, <3>1, LoadBooting DEF GInv, BInv, Gated
    <3>2. CASE /\ mem' = repo /\ node' = Submitted(repo)
               /\ edges' \subseteq node' \X node' /\ (up' => edges' = deps)
               /\ UNCHANGED deps
      <4>1. \A p, t \in Task : <<p, t>> \in edges' => mem'[p] # Nil
        BY <3>2 DEF Submitted
      <4>2. \A d \in Client : op'[d] = Nil
        BY <2>2, LoadBooting DEF GInv, BInv
      <4> QED
        BY <3>2, <4>1, <4>2 DEF Gated
    <3> QED
      BY <2>2, <3>1, <3>2, LoadBooting DEF GInv, BInv
  <2>3. CASE Crash
    BY <2>3 DEF Crash, Gated
  <2> QED
    BY <2>1, <2>2, <2>3, GatedCall DEF Next
<1> QED
  BY <1>1, <1>2 DEF GInv

LEMMA GInvGates == ASSUME GInv PROVE DependencyGates
<1> SUFFICES ASSUME up, NEW t \in ListReady, NEW p \in Task, <<p, t>> \in deps
             PROVE  \/ mem[p] # Nil /\ mem[p].status \in Finished
                    \/ Cyclic(edges \cup {<<p, t>>})
                    \/ \E c \in Client : /\ At(c, "dep_link")
                                        /\ op[c].on = p /\ op[c].task = t
  BY DEF DependencyGates
<1>1. t \in Task /\ t \in node /\ ParentsCompleted(t)
  BY DEF ListReady, GInv, Registered
<1>2. CASE <<p, t>> \in edges
  BY <1>1, <1>2 DEF GInv, Gated, ParentsCompleted
<1> QED
  BY <1>1, <1>2 DEF GInv, Gated, Linking, At

(* A task is handed out only when every parent its dependencies name is    *)
(* finished: through the awaits between the row and the edge, calls about  *)
(* the same task, refused writes, crashes and restarts - for a service     *)
(* that loads only when it starts, and whose copying calls do not run      *)
(* while the task is still being submitted.                                *)
THEOREM GatesHold ==
  ASSUME NoReload, CopiesAlone PROVE Spec => []DependencyGates
<1>1. GInv /\ [Next]_vars => GInv'
  BY NextGInv
<1>2. GInv => DependencyGates
  BY GInvGates
<1> QED
  BY <1>1, <1>2, InitGInv, PTL DEF Spec

-----------------------------------------------------------------------------
(* What is stored of a task's history is what memory says of it, or what   *)
(* the call that is about to put its copy back in memory carries; and a    *)
(* copy about to be stored has all that is stored.                         *)
PutsBack(c, t) ==
  op[c] # Nil /\ op[c].at \in {"copy_mem", "retry_mem"} /\ op[c].task = t

Carries(c) ==
  LET t == op[c].task IN
  op[c] # Nil =>
    /\ op[c].at \in {"copy_row", "retry_row"} =>
         /\ op[c].copy.iter >= repo[t].iter
         /\ repo[t].scores \subseteq op[c].copy.scores
    /\ op[c].at \in {"submit_node", "submit_mem", "copy_mem", "retry_mem"} =>
         SameHistory(op[c].copy, repo[t])

Kept ==
  /\ \A t \in Task : mem[t] # Nil => \/ SameHistory(mem[t], repo[t])
                                     \/ \E c \in Client : PutsBack(c, t)
  /\ \A c \in Client : Carries(c)

KInv == BInv /\ Kept

\* A task whose call is not about to put a copy back.
LEMMA QuietHistory ==
  ASSUME Alone, Kept, SerialPerTask, NEW c \in Client, NEW u \in Task, Local(c, u),
         ~PutsBack(c, u), mem[u] # Nil
  PROVE  SameHistory(mem[u], repo[u])
<1>1. ASSUME NEW d \in Client, PutsBack(d, u) PROVE FALSE
  BY <1>1 DEF PutsBack, Alone, Local, Busy
<1> QED
  BY <1>1 DEF Kept

LEMMA KeptFrame ==
  ASSUME IInv, Alone, Kept, SerialPerTask, NEW c \in Client, NEW u \in Task, Local(c, u),
         mem'[u] # Nil => SameHistory(mem'[u], repo'[u]) \/ PutsBack(c, u)',
         Carries(c)'
  PROVE  Kept'
<1>1. ASSUME NEW t \in Task, mem'[t] # Nil
      PROVE  SameHistory(mem'[t], repo'[t]) \/ \E d \in Client : PutsBack(d, t)'
  <2>1. CASE t = u
    BY <1>1, <2>1
  <2>2. CASE t # u
    <3>1. mem[t] # Nil /\ mem'[t] = mem[t] /\ repo'[t] = repo[t]
      BY <1>1, <2>2 DEF Local
    <3>2. ASSUME NEW d \in Client, PutsBack(d, t) PROVE PutsBack(d, t)'
      BY <2>2, <3>2 DEF PutsBack, Local
    <3> QED
      BY <3>1, <3>2 DEF Kept
  <2> QED
    BY <2>1, <2>2
<1>2. ASSUME NEW d \in Client \ {c} PROVE Carries(d)'
  <2>1. Carries(d) /\ op'[d] = op[d]
    BY DEF Kept, Local
  <2>2. op[d] # Nil => op[d].task \in Task \ {u}
    BY OthersElsewhere
  <2> QED
    BY <2>1, <2>2 DEF Carries, Local
<1> QED
  BY <1>1, <1>2 DEF Kept

LEMMA KeptBegin ==
  ASSUME SerialPerTask, KInv, NEW c \in Client, NEW t \in Task, Begin(c, t)
  PROVE  Kept' /\ (repo[t] # Nil => repo' = repo)
<1> USE DEF KInv, BInv, Exclusive
<1>1. CASE SubmitRow(c, t)
  <2>1. Local(c, t) /\ mem'[t] = Nil /\ op'[c].copy = NewRow /\ repo'[t] = NewRow
        /\ op'[c].at = "submit_node" /\ repo[t] = Nil
    BY <1>1, SubmitRowDoes
  <2>2. Carries(c)'
    BY <2>1 DEF Carries, SameHistory, Local
  <2> QED
    BY <2>1, <2>2, KeptFrame
<1>2. ASSUME Local(c, t), op[c] = Nil, UNCHANGED repo,
             op'[c].at \in {"status_row", "cancel_write", "result_row", "dep_row"},
             mem'[t] # Nil => mem[t] # Nil /\ SameHistory(mem'[t], mem[t])
      PROVE  Kept'
  <2>1. Carries(c)'
    BY <1>2 DEF Carries
  <2>2. mem'[t] # Nil => SameHistory(mem'[t], repo'[t])
    BY <1>2, QuietHistory DEF PutsBack, SameHistory
  <2> QED
    BY <1>2, <2>1, <2>2, KeptFrame
<1>3. CASE \E s \in Target : SetStatus(c, t, s)
  <2>1. PICK s \in Status : SetStatus(c, t, s)
    BY <1>3, TargetAssumption
  <2>2. mem[t] # Nil /\ SameHistory(mem'[t], mem[t])
    BY <2>1, SetStatusDoes, NilAssumption DEF Restated
  <2> QED
    BY <1>2, <2>1, <2>2, SetStatusDoes
<1>4. CASE SetResult(c, t)
  <2>1. mem[t] # Nil /\ SameHistory(mem'[t], mem[t])
    BY <1>4, SetResultDoes, NilAssumption
  <2> QED
    BY <1>2, <1>4, <2>1, SetResultDoes
<1>5. CASE CancelCheck(c, t) \/ \E p \in Task : DependencyCheck(c, p, t)
  BY <1>2, <1>5, CancelCheckDoes, DependencyCheckDoes DEF SameHistory
<1>6. ASSUME Local(c, t), op[c] = Nil, op'[c] # Nil, UNCHANGED <<mem, repo>>, Get(t) \in Row,
             op'[c].at \in {"copy_row", "retry_row"},
             op'[c].copy.iter >= Get(t).iter, Get(t).scores \subseteq op'[c].copy.scores
      PROVE  Kept'
  <2>1. mem[t] # Nil => SameHistory(mem[t], repo[t])
    BY <1>6, QuietHistory DEF PutsBack
  <2>2. SameHistory(Get(t), repo[t])
    BY <2>1 DEF Get, SameHistory
  <2>3. Carries(c)'
    BY <1>6, <2>2 DEF Carries, SameHistory, Local
  <2> QED
    BY <1>6, <2>1, <2>3, KeptFrame
<1>7. CASE UpdateTask(c, t) \/ \E who \in Scorer : Score(c, t, who)
  <2>1. /\ Local(c, t) /\ op[c] = Nil /\ op'[c] # Nil /\ UNCHANGED <<mem, repo>>
        /\ Get(t) \in Row /\ op'[c].at = "copy_row"
        /\ op'[c].copy.iter = Get(t).iter /\ Get(t).scores \subseteq op'[c].copy.scores
    BY <1>7, CopyDoes
  <2>2. Get(t).iter >= Get(t).iter
    BY <2>1, IterAssumption DEF Row
  <2> QED
    BY <1>6, <2>1, <2>2
<1>8. CASE Retry(c, t)
  <2>1. /\ Local(c, t) /\ op[c] = Nil /\ op'[c] # Nil /\ UNCHANGED <<mem, repo>>
        /\ Get(t) \in Row /\ op'[c].at = "retry_row"
        /\ op'[c].copy.iter = Get(t).iter + 1 /\ Get(t).scores \subseteq op'[c].copy.scores
    BY <1>8, RetryDoes
  <2>2. Get(t).iter + 1 >= Get(t).iter
    BY <2>1, IterAssumption DEF Row
  <2> QED
    BY <1>6, <2>1, <2>2
<1>9. repo[t] # Nil => repo' = repo
  <2>1. ASSUME NEW s \in Status, SetStatus(c, t, s) PROVE repo' = repo
    BY <2>1, SetStatusDoes
  <2> QED
    BY <2>1, TargetAssumption, SubmitRowDoes, CancelCheckDoes, SetResultDoes, CopyDoes, RetryDoes,
       DependencyCheckDoes DEF Begin
<1> QED
  BY <1>1, <1>3, <1>4, <1>5, <1>7, <1>8, <1>9 DEF Begin

\* The row of a call's task never loses a retry or a score.
Grows(t) ==
  repo[t] # Nil => /\ repo'[t].iter >= repo[t].iter
                   /\ repo[t].scores \subseteq repo'[t].scores

LEMMA KeptResume ==
  ASSUME SerialPerTask, KInv, NEW c \in Client, Resume(c) \/ DbError(c)
  PROVE  Kept' /\ Grows(op[c].task)
<1> USE DEF KInv, BInv, Exclusive
<1>1. PICK u \in Task : u = op[c].task /\ Local(c, u) /\ op[c] # Nil /\ repo[u] \in Row
  BY ResumeLocal DEF Local, IInv, TypeOK, Backed, Stored
<1>2. repo[u].iter >= repo[u].iter
  BY <1>1, IterAssumption DEF Row
<1>3. ~PutsBack(c, u) /\ mem[u] # Nil => SameHistory(mem[u], repo[u])
  BY <1>1, QuietHistory
\* A step that leaves the histories of memory and row as they are.
<1>4. ASSUME mem'[u] # Nil => mem[u] # Nil /\ SameHistory(mem'[u], mem[u]),
             SameHistory(repo'[u], repo[u]), ~PutsBack(c, u), Carries(c)'
      PROVE  Kept' /\ Grows(u)
  <2>1. mem'[u] # Nil => SameHistory(mem'[u], repo'[u])
    BY <1>3, <1>4 DEF SameHistory
  <2>2. Grows(u)
    BY <1>2, <1>4 DEF Grows, SameHistory
  <2> QED
    BY <1>1, <1>4, <2>1, <2>2, KeptFrame
<1>5. CASE SubmitNode(c)
  <2>1. /\ op[c].at = "submit_node" /\ op'[c] # Nil /\ op'[c].at = "submit_mem"
        /\ op'[c].copy = op[c].copy /\ op'[c].task = u /\ UNCHANGED <<mem, repo>>
    BY <1>1, <1>5, SubmitNodeDoes DEF Local
  <2>2. Carries(c)'
    BY <1>1, <2>1 DEF Kept, Carries
  <2> QED
    BY <1>1, <1>4, <2>1, <2>2 DEF PutsBack, SameHistory
<1>6. CASE SubmitMem(c)
  <2>1. /\ op[c].at = "submit_mem" /\ op'[c] = Nil
        /\ mem'[u] = op[c].copy /\ repo' = repo
    BY <1>1, <1>6, SubmitMemDoes
  <2>2. SameHistory(mem'[u], repo'[u])
    BY <1>1, <2>1 DEF Kept, Carries
  <2> QED
    BY <1>1, <1>2, <2>1, <2>2, KeptFrame DEF Carries, Grows
<1>7. CASE CancelWrite(c)
  <2>1. /\ op[c].at = "cancel_write" /\ repo' = repo
        /\ op'[c] # Nil => op'[c].at = "status_row"
        /\ mem'[u] # Nil => mem[u] # Nil /\ SameHistory(mem'[u], mem[u])
    BY <1>1, <1>7, CancelWriteDoes, NilAssumption DEF SameHistory, Restated
  <2> QED
    BY <1>1, <1>4, <2>1 DEF PutsBack, SameHistory, Carries
<1>8. CASE StatusRow(c) \/ ResultRow(c)
  <2>1. /\ op[c].at \in {"status_row", "result_row"} /\ mem' = mem
        /\ op'[c] # Nil /\ op'[c].at \in {"status_event", "result_event"}
        /\ SameHistory(repo'[u], repo[u])
    BY <1>1, <1>8, StatusRowDoes, ResultRowDoes
  <2> QED
    BY <1>1, <1>4, <2>1 DEF PutsBack, SameHistory, Carries
<1>9. CASE StatusEvent(c) \/ ResultEvent(c) \/ RetryEvent(c)
  <2>1. /\ op[c].at \in {"status_event", "result_event", "retry_event"}
        /\ op'[c] = Nil /\ UNCHANGED <<mem, repo>>
    BY <1>1, <1>9, StatusEventDoes, ResultEventDoes, RetryEventDoes
  <2> QED
    BY <1>1, <1>4, <2>1 DEF PutsBack, SameHistory, Carries
<1>10. CASE CopyRow(c) \/ RetryRow(c)
  <2>1. /\ op[c].at \in {"copy_row", "retry_row"} /\ repo'[u] = op[c].copy
        /\ op'[c] # Nil /\ op'[c].at \in {"copy_mem", "retry_mem"}
        /\ op'[c].copy = op[c].copy /\ op'[c].task = u
    BY <1>1, <1>10, PutRowDoes DEF Local
  <2>2. Grows(u)
    BY <1>1, <2>1 DEF Kept, Carries, Grows
  <2>3. PutsBack(c, u)' /\ Carries(c)'
    BY <2>1 DEF PutsBack, Carries, SameHistory
  <2> QED
    BY <1>1, <2>2, <2>3, KeptFrame
<1>11. CASE CopyMem(c) \/ RetryMem(c)
  <2>1. /\ op[c].at \in {"copy_mem", "retry_mem"} /\ mem'[u] = op[c].copy /\ repo' = repo
        /\ op'[c] # Nil => op'[c].at = "retry_event"
    BY <1>1, <1>11, PutMemDoes
  <2>2. SameHistory(mem'[u], repo'[u])
    BY <1>1, <2>1 DEF Kept, Carries
  <2> QED
    BY <1>1, <1>2, <2>1, <2>2, KeptFrame DEF Carries, Grows
<1>12. CASE DependencyRow(c) \/ DependencyLink(c) \/ DbError(c)
  <2>1. /\ ~PutsBack(c, u) /\ UNCHANGED <<mem, repo>>
        /\ op'[c] # Nil => op'[c].at = "dep_link"
    BY <1>1, <1>12, DependencyRowDoes, DependencyLinkDoes, DbErrorDoes DEF PutsBack
  <2> QED
    BY <1>1, <1>4, <2>1 DEF SameHistory, Carries
<1> QED
  BY <1>1, <1>5, <1>6, <1>7, <1>8, <1>9, <1>10, <1>11, <1>12 DEF Resume

LEMMA InitKInv == Init => KInv
<1> SUFFICES ASSUME Init PROVE KInv
  OBVIOUS
<1>1. Kept
  BY DEF Init, NoTasks, Kept, Carries
<1> QED
  BY <1>1, InitBInv DEF KInv

LEMMA NextKInv ==
  ASSUME NoReload, SerialPerTask, KInv, [Next]_vars
  PROVE  KInv' /\ (repo' # repo => \A t \in Task : Grows(t))
<1>1. BInv'
  BY NextBInv DEF KInv, CopiesAlone
<1>2. CASE UNCHANGED vars
  BY <1>1, <1>2 DEF vars, KInv, Kept, Carries, PutsBack
<1>3. CASE Load
  <2>1. op' = op /\ (\A c \in Client : op[c] = Nil) /\ repo' = repo /\ (mem' = mem \/ mem' = repo)
    BY <1>3, LoadBooting DEF KInv, BInv
  <2>2. Kept'
    BY <2>1 DEF KInv, Kept, Carries, PutsBack, SameHistory
  <2> QED
    BY <1>1, <2>1, <2>2 DEF KInv
<1>4. CASE Crash
  BY <1>1, <1>4 DEF Crash, NoTasks, KInv, Kept, Carries
<1>5. ASSUME NEW c \in Client, NEW u \in Task, Local(c, u), Kept', repo' # repo => Grows(u)
      PROVE  KInv' /\ (repo' # repo => \A t \in Task : Grows(t))
  <2>1. ASSUME NEW t \in Task \ {u} PROVE Grows(t)
    <3>1. repo'[t] = repo[t] /\ (repo[t] # Nil => repo[t] \in Row)
      BY <1>5 DEF Local, KInv, BInv, IInv, TypeOK
    <3> QED
      BY <3>1, IterAssumption DEF Grows, Row
  <2> QED
    BY <1>1, <1>5, <2>1 DEF KInv
<1>6. CASE \E c \in Client, t \in Task : Begin(c, t)
  <2>1. PICK c \in Client, t \in Task : Begin(c, t)
    BY <1>6
  <2>2. Local(c, t)
    BY <2>1, BeginLocal DEF KInv, BInv
  <2>3. Kept' /\ (repo' # repo => Grows(t))
    BY <2>1, KeptBegin DEF Grows
  <2> QED
    BY <1>5, <2>2, <2>3
<1>7. CASE \E c \in Client : Resume(c) \/ DbError(c)
  <2>1. PICK c \in Client : Resume(c) \/ DbError(c)
    BY <1>7
  <2>2. PICK u \in Task : u = op[c].task /\ Local(c, u)
    BY <2>1, ResumeLocal DEF KInv, BInv, Local
  <2>3. Kept' /\ Grows(u)
    BY <2>1, <2>2, KeptResume DEF Grows
  <2> QED
    BY <1>5, <2>2, <2>3
<1> QED
  BY <1>2, <1>3, <1>4, <1>6, <1>7 DEF Next

(* No retry that was counted and no score that was given is ever lost from *)
(* the tasks table, whatever the order of calls about different tasks, the *)
(* writes the repository refuses, the crashes and the restarts.            *)
THEOREM NothingLost ==
  ASSUME NoReload, SerialPerTask PROVE Spec => NoLostUpdate
<1>1. KInv /\ [Next]_vars => KInv'
  BY NextKInv
<1>2. KInv /\ [Next]_vars =>
        [\A t \in Task : repo[t] # Nil =>
           /\ repo'[t].iter >= repo[t].iter
           /\ repo[t].scores \subseteq repo'[t].scores]_repo
  BY NextKInv DEF Grows
<1> QED
  BY <1>1, <1>2, InitKInv, PTL DEF Spec, NoLostUpdate

-----------------------------------------------------------------------------
(* What a call carries into memory: a submit that has not returned is the  *)
(* only one of its task, which memory does not hold yet; a copy has the    *)
(* status memory has; and a retry may move the task to Pending.            *)
Carried(c) ==
  LET t == op[c].task IN
  op[c] # Nil =>
    /\ op[c].at \in SubmitAwait =>
         /\ mem[t] = Nil /\ op[c].copy = NewRow
         /\ \A d \in Client : Submitting(d, t) => d = c
    /\ op[c].at \in {"copy_row", "copy_mem"} => op[c].copy.status = mem[t].status
    /\ op[c].at \in {"retry_row", "retry_mem"} =>
         op[c].copy.status = "Pending" /\ ValidTransition(mem[t].status, "Pending")

CInv == BInv /\ Registered /\ \A c \in Client : Carried(c)

LEMMA CarriedFrame ==
  ASSUME CInv, NEW c \in Client, NEW u \in Task, Local(c, u),
         mem[u] = Nil /\ ~Submitting(c, u) => mem'[u] = Nil,
         Carried(c)'
  PROVE  \A d \in Client : Carried(d)'
<1> SUFFICES ASSUME NEW d \in Client \ {c}, op[d] # Nil PROVE Carried(d)'
  BY DEF Local, Carried
<1> USE DEF CInv, BInv
<1>1. PICK v \in Task : v = op[d].task /\ op'[d] = op[d] /\ Carried(d)
  BY JobFields DEF Local, IInv, TypeOK, Ops
<1>2. CASE v # u
  <2>1. mem'[v] = mem[v] /\ \A e \in Client : Submitting(e, v)' => Submitting(e, v)
    BY <1>1, <1>2 DEF Local, Submitting
  <2> QED
    BY <1>1, <2>1 DEF Carried
<1>3. CASE v = u /\ op[d].at \in SubmitAwait
  <2>1. ~Submitting(c, u) /\ mem[u] = Nil
    BY <1>1, <1>3 DEF Carried
  <2>2. ~Submitting(c, u)'
    <3>1. Submitting(d, u)'
      BY <1>1, <1>3 DEF Submitting
    <3>2. Submitting(c, u)' => \A e \in Client : Submitting(e, u)' => e = c
      BY DEF Carried, Submitting
    <3> QED
      BY <3>1, <3>2
  <2>3. \A e \in Client : Submitting(e, u)' => e = d
    BY <1>1, <1>3, <2>2 DEF Carried, Submitting, Local
  <2> QED
    BY <1>1, <1>3, <2>1, <2>3 DEF Carried, SubmitAwait
<1>4. CASE v = u /\ op[d].at \notin SubmitAwait
  <2>1. op[d].at \notin CopyAwait
    BY <1>1, <1>4, OthersElsewhere DEF Exclusive
  <2> QED
    BY <1>1, <1>4, <2>1 DEF Carried, CopyAwait
<1> QED
  BY <1>2, <1>3, <1>4

LEMMA CarriedCall ==
  ASSUME CopiesAlone, CInv, NEW c \in Client,
         Resume(c) \/ DbError(c) \/ \E t \in Task : Begin(c, t)
  PROVE  \A d \in Client : Carried(d)'
<1> USE DEF CInv, BInv
<1>1. ASSUME NEW u \in Task, Local(c, u), op[c] # Nil => u = op[c].task,
             mem[u] = Nil /\ ~Submitting(c, u) => mem'[u] = Nil,
             op'[c] # Nil => op'[c].at \notin SubmitAwait \cup CopyAwait
      PROVE  \A d \in Client : Carried(d)'
  <2>1. Carried(c)'
    BY <1>1 DEF Carried, CopyAwait
  <2> QED
    BY <1>1, <2>1, CarriedFrame
<1>2. ASSUME NEW t \in Task, Begin(c, t) PROVE \A d \in Client : Carried(d)'
  <2>1. Local(c, t) /\ op[c] = Nil
    BY <1>2, BeginLocal
  <2>2. CASE SubmitRow(c, t)
    <3>1. /\ mem' = mem /\ mem[t] = Nil /\ repo[t] = Nil
          /\ op'[c].at = "submit_node" /\ op'[c].copy = NewRow
      BY <2>2, SubmitRowDoes
    <3>2. \A d \in Client : ~Submitting(d, t)
      BY <3>1 DEF Submitting, IInv, Backed, Stored
    <3>3. \A d \in Client : Submitting(d, t)' => d = c
      BY <2>1, <3>2 DEF Submitting, Local
    <3>4. Carried(c)'
      BY <2>1, <3>1, <3>3 DEF Carried, Local
    <3> QED
      BY <2>1, <3>1, <3>4, CarriedFrame
  <2>3. CASE \E s \in Target : SetStatus(c, t, s)
    <3>1. PICK s \in Status : SetStatus(c, t, s)
      BY <2>3, TargetAssumption
    <3>2. mem[t] # Nil /\ op'[c].at = "status_row"
      BY <3>1, SetStatusDoes, NilAssumption
    <3> QED
      BY <1>1, <2>1, <3>2 DEF SubmitAwait, CopyAwait
  <2>4. CASE SetResult(c, t)
    <3>1. mem[t] # Nil /\ op'[c].at = "result_row"
      BY <2>4, SetResultDoes, NilAssumption
    <3> QED
      BY <1>1, <2>1, <3>1 DEF SubmitAwait, CopyAwait
  <2>5. CASE CancelCheck(c, t) \/ \E p \in Task : DependencyCheck(c, p, t)
    <3>1. mem' = mem /\ op'[c].at \in {"cancel_write", "dep_row"}
      BY <2>5, CancelCheckDoes, DependencyCheckDoes
    <3> QED
      BY <1>1, <2>1, <3>1 DEF SubmitAwait, CopyAwait
  <2>6. CASE UpdateTask(c, t) \/ \E who \in Scorer : Score(c, t, who)
    <3>1. /\ mem' = mem /\ op'[c].at = "copy_row" /\ op'[c].copy.status = Get(t).status
          /\ Get(t) = mem[t]
      BY <2>1, <2>6, CopyDoes, CopiedFromMemory
    <3>2. Carried(c)'
      BY <2>1, <3>1 DEF Carried, Local, SubmitAwait
    <3> QED
      BY <2>1, <3>1, <3>2, CarriedFrame
  <2>7. CASE Retry(c, t)
    <3>1. /\ mem' = mem /\ op'[c].at = "retry_row" /\ op'[c].copy.status = "Pending"
          /\ ValidTransition(mem[t].status, "Pending")
      BY <2>1, <2>7, RetryDoes, CopiedFromMemory
    <3>2. Carried(c)'
      BY <2>1, <3>1 DEF Carried, Local, SubmitAwait
    <3> QED
      BY <2>1, <3>1, <3>2, CarriedFrame
  <2> QED
    BY <1>2, <2>2, <2>3, <2>4, <2>5, <2>6, <2>7 DEF Begin
<1>3. ASSUME Resume(c) \/ DbError(c) PROVE \A d \in Client : Carried(d)'
  <2>1. PICK u \in Task : u = op[c].task /\ op[c] # Nil /\ Local(c, u)
    BY <1>3, ResumeLocal DEF Local
  <2>2. CASE SubmitNode(c)
    <3>1. /\ op[c].at = "submit_node" /\ op'[c] # Nil /\ op'[c].at = "submit_mem"
          /\ op'[c].copy = op[c].copy /\ op'[c].task = u /\ mem' = mem
      BY <2>1, <2>2, SubmitNodeDoes DEF Local
    <3>2. \A d \in Client : Submitting(d, u)' => Submitting(d, u)
      BY <2>1, <3>1 DEF Submitting, Local, SubmitAwait
    <3>3. Carried(c)'
      BY <2>1, <3>1, <3>2 DEF Carried, SubmitAwait
    <3> QED
      BY <2>1, <3>1, <3>3, CarriedFrame
  <2>3. CASE SubmitMem(c)
    <3>1. Submitting(c, u) /\ op'[c] = Nil
      BY <2>1, <2>3, SubmitMemDoes DEF Submitting, SubmitAwait
    <3> QED
      BY <1>1, <2>1, <3>1
  <2>4. CASE CancelWrite(c)
    <3>1. /\ mem[u] # Nil \/ mem' = mem
          /\ op'[c] # Nil => op'[c].at = "status_row"
      BY <2>1, <2>4, CancelWriteDoes, NilAssumption
    <3> QED
      BY <1>1, <2>1, <3>1 DEF SubmitAwait, CopyAwait
  <2>5. CASE CopyRow(c) \/ RetryRow(c)
    <3>1. /\ \/ op[c].at = "copy_row" /\ op'[c].at = "copy_mem"
             \/ op[c].at = "retry_row" /\ op'[c].at = "retry_mem"
          /\ op'[c].copy = op[c].copy /\ op'[c].task = u /\ mem' = mem
      BY <2>1, <2>5, PutRowDoes DEF Local
    <3>2. Carried(c)'
      BY <2>1, <3>1 DEF Carried, SubmitAwait
    <3> QED
      BY <2>1, <3>1, <3>2, CarriedFrame
  <2>6. CASE CopyMem(c) \/ RetryMem(c)
    <3>1. /\ op[c].at \in CopyAwait
          /\ op'[c] # Nil => op'[c].at = "retry_event"
      BY <2>6, PutMemDoes DEF CopyAwait
    <3>2. mem[u] # Nil
      BY <2>1, <3>1 DEF Registered, Local
    <3> QED
      BY <1>1, <2>1, <3>1, <3>2 DEF SubmitAwait, CopyAwait
  <2>7. CASE \/ StatusRow(c) \/ StatusEvent(c) \/ ResultRow(c) \/ ResultEvent(c)
             \/ RetryEvent(c)
    <3>1. /\ mem' = mem
          /\ op'[c] # Nil => op'[c].at \in {"status_event", "result_event"}
      BY <2>7, StatusRowDoes, StatusEventDoes, ResultRowDoes, ResultEventDoes,
         RetryEventDoes
    <3> QED
      BY <1>1, <2>1, <3>1 DEF SubmitAwait, CopyAwait
  <2>8. CASE DependencyRow(c) \/ DependencyLink(c) \/ DbError(c)
    <3>1. /\ mem' = mem
          /\ op'[c] # Nil => op'[c].at = "dep_link"
      BY <2>8, DependencyRowDoes, DependencyLinkDoes, DbErrorDoes
    <3> QED
      BY <1>1, <2>1, <3>1 DEF SubmitAwait, CopyAwait
  <2> QED
    BY <1>3, <2>2, <2>3, <2>4, <2>5, <2>6, <2>7, <2>8 DEF Resume
<1> QED
  BY <1>2, <1>3

LEMMA InitCInv == Init => CInv
<1> SUFFICES ASSUME Init PROVE CInv
  OBVIOUS
<1>1. Registered /\ \A c \in Client : Carried(c)
  BY DEF Init, NoTasks, Registered, Carried
<1> QED
  BY <1>1, InitBInv DEF CInv

LEMMA NextCInv == ASSUME NoReload, CopiesAlone, CInv, [Next]_vars PROVE CInv'
<1>1. BInv' /\ Registered'
  BY NextBInv, NextRegistered DEF CInv
<1>2. \A c \in Client : Carried(c)'
  <2>1. CASE UNCHANGED vars
    BY <2>1 DEF vars, CInv, Carried, Submitting
  <2>2. CASE Load
    BY <2>2, LoadBooting DEF CInv, BInv, Carried
  <2>3. CASE Crash
    BY <2>3 DEF Crash, Carried
  <2> QED
    BY <2>1, <2>2, <2>3, CarriedCall DEF Next
<1> QED
  BY <1>1, <1>2 DEF CInv

-----------------------------------------------------------------------------
(* The map as an atomic board.                                             *)

LEMMA LiveMove ==
  ASSUME CInv, NEW c \in Client, NEW u \in Task, Local(c, u),
         mem \in [Task -> Row \cup {Nil}], mem' \in [Task -> Row \cup {Nil}],
         mem'[u] \in Row,
         \/ mem[u] = Nil /\ mem'[u].status = "Pending"
         \/ mem[u] # Nil /\ ValidTransition(mem[u].status, mem'[u].status)
         \/ mem[u] # Nil /\ mem'[u].status = "Completed"
  PROVE  Live!Next
<1> DEFINE s == mem'[u].status
<1>1. s \in Status /\ s \in Live!Status /\ mem'[u] # Nil
  BY NilAssumption DEF Row, Status, Live!Status
<1>2. StatusIn(mem)' = [StatusIn(mem) EXCEPT ![u] = s]
  BY <1>1 DEF StatusIn, Local
<1>3. CASE mem[u] = Nil /\ s = "Pending"
  BY <1>2, <1>3 DEF Live!Next, Live!Create, StatusIn
<1>4. CASE mem[u] # Nil
  <2>1. StatusIn(mem)[u] = mem[u].status /\ mem[u].status # Nil
    BY <1>4, NilAssumption DEF StatusIn, Row
  <2>2. CASE ValidTransition(mem[u].status, s)
    <3>1. Live!ValidTransition(StatusIn(mem)[u], s)
      BY <2>1, <2>2 DEF ValidTransition, Successors, Live!ValidTransition, Live!Successors
    <3> QED
      BY <1>1, <1>2, <2>1, <3>1 DEF Live!Next, Live!Move
  <2>3. CASE s = "Completed"
    BY <1>2, <2>1, <2>3 DEF Live!Next, Live!Finish
  <2> QED
    BY <1>4, <2>2, <2>3
<1> QED
  BY <1>3, <1>4

LEMMA LiveCall ==
  ASSUME CInv, NEW c \in Client, mem' \in [Task -> Row \cup {Nil}],
         Resume(c) \/ DbError(c) \/ \E t \in Task : Begin(c, t)
  PROVE  Live!Next \/ StatusIn(mem)' = StatusIn(mem)
<1> USE DEF CInv, BInv
<1>1. ASSUME mem' = mem PROVE StatusIn(mem)' = StatusIn(mem)
  BY <1>1 DEF StatusIn
<1>2. mem \in [Task -> Row \cup {Nil}]
  BY DEF IInv, TypeOK
<1>3. ASSUME NEW t \in Task, Begin(c, t) PROVE Live!Next \/ mem' = mem
  <2>1. CASE \E s \in Target : SetStatus(c, t, s)
    <3>1. PICK s \in Status : SetStatus(c, t, s)
      BY <2>1, TargetAssumption
    <3>2. /\ Local(c, t) /\ mem[t] # Nil /\ mem'[t] \in Row
          /\ ValidTransition(mem[t].status, mem'[t].status)
      BY <3>1, SetStatusDoes, NilAssumption DEF Restated
    <3> QED
      BY <1>2, <3>2, LiveMove
  <2>2. CASE SetResult(c, t)
    <3>1. /\ Local(c, t) /\ mem[t] # Nil /\ mem'[t] \in Row
          /\ mem'[t].status = "Completed"
      BY <2>2, SetResultDoes, NilAssumption
    <3> QED
      BY <1>2, <3>1, LiveMove
  <2> QED
    BY <1>3, <2>1, <2>2, SubmitRowDoes, CancelCheckDoes, CopyDoes, RetryDoes,
       DependencyCheckDoes DEF Begin
<1>4. ASSUME Resume(c) \/ DbError(c)
      PROVE  Live!Next \/ StatusIn(mem)' = StatusIn(mem)
  <2>1. PICK u \in Task : u = op[c].task /\ op[c] # Nil /\ Local(c, u) /\ op[c].copy \in Row
    BY <1>4, ResumeLocal, JobFields DEF Local, IInv, TypeOK, Ops
  <2>2. CASE SubmitMem(c)
    <3>1. op[c].at \in SubmitAwait /\ mem'[u] = op[c].copy
      BY <2>1, <2>2, SubmitMemDoes DEF SubmitAwait
    <3>2. mem[u] = Nil /\ mem'[u] = NewRow
      BY <2>1, <3>1 DEF Carried
    <3>3. mem'[u] \in Row /\ mem'[u].status = "Pending"
      BY <3>2, NewRowType DEF NewRow
    <3> QED
      BY <1>2, <2>1, <3>2, <3>3, LiveMove
  <2>3. CASE CancelWrite(c)
    <3>1. \/ mem' = mem
          \/ /\ mem[u] # Nil /\ mem'[u] \in Row
             /\ ValidTransition(mem[u].status, mem'[u].status)
      BY <2>1, <2>3, CancelWriteDoes, NilAssumption DEF Restated
    <3> QED
      BY <1>1, <1>2, <2>1, <3>1, LiveMove
  <2>4. CASE CopyMem(c) \/ RetryMem(c)
    <3>1. /\ mem'[u] = op[c].copy
          /\ op[c].at = "copy_mem" \/ op[c].at = "retry_mem"
      BY <2>1, <2>4, PutMemDoes
    <3>2. mem[u] # Nil /\ Carried(c)
      BY <2>1, <3>1 DEF Registered, Local, CopyAwait
    <3>3. ValidTransition(mem[u].status, mem'[u].status)
      BY <2>1, <3>1, <3>2 DEF Carried, ValidTransition
    <3> QED
      BY <1>2, <2>1, <3>1, <3>2, <3>3, LiveMove
  <2> QED
    BY <1>1, <1>4, <2>2, <2>3, <2>4, SubmitNodeDoes, StatusRowDoes, StatusEventDoes, ResultRowDoes,
       ResultEventDoes, PutRowDoes, RetryEventDoes, DependencyRowDoes,
       DependencyLinkDoes, DbErrorDoes DEF Resume
<1> QED
  BY <1>1, <1>3, <1>4

\* A service that never crashes stays up and loads nothing.
LEMMA NextLive ==
  ASSUME NoReload, CopiesAlone, "crash" \notin Calls, CInv, up, [Next]_vars
  PROVE  CInv' /\ up' /\ (Live!Next \/ StatusIn(mem)' = StatusIn(mem))
<1>1. CInv' /\ mem' \in [Task -> Row \cup {Nil}]
  BY NextCInv DEF CInv, BInv, IInv, TypeOK
<1>2. CASE UNCHANGED vars
  BY <1>1, <1>2 DEF vars, StatusIn
<1>3. CASE Load
  BY <1>3, LoadBooting DEF CInv, BInv
<1>4. CASE Crash
  BY <1>4 DEF Crash
<1>5. ASSUME NEW c \in Client, Resume(c) \/ DbError(c) \/ \E t \in Task : Begin(c, t)
      PROVE  up' /\ (Live!Next \/ StatusIn(mem)' = StatusIn(mem))
  BY <1>1, <1>5, LiveCall, CallLocal DEF Local, CInv, BInv
<1> QED
  BY <1>1, <1>2, <1>3, <1>4, <1>5 DEF Next

(* As long as the process lives, the tasks in memory are an atomic board:  *)
(* whatever calls interleave and whichever of their rows are refused, a    *)
(* status only ever moves along the transition table or to Completed with  *)
(* a result - provided the calls that put back a copy have the task to     *)
(* themselves.                                                             *)
THEOREM LiveBoardImplemented ==
  ASSUME NoReload, CopiesAlone, "crash" \notin Calls PROVE Spec => LiveBoard
<1>1. Init => Live!Init /\ CInv /\ up
  <2>1. Init => Live!Init
    BY DEF Init, NoTasks, StatusIn, Live!Init
  <2> QED
    BY <2>1, InitCInv DEF Init
<1>2. CInv /\ up /\ [Next]_vars => CInv' /\ up'
  BY NextLive
<1>3. CInv /\ up /\ [Next]_vars => [Live!Next]_(StatusIn(mem))
  BY NextLive
<1> QED
  BY <1>1, <1>2, <1>3, PTL DEF Spec, LiveBoard, Live!Spec

-----------------------------------------------------------------------------
(***************************************************************************)
(* Memory and table in step.  Here every call has its task to itself and   *)
(* no write is refused: a refused one leaves memory moved and the row not. *)
(***************************************************************************)
Undisturbed == NoReload /\ SerialPerTask /\ "db_error" \notin Calls

InStep(t) ==
  /\ mem[t] # Nil /\ repo[t] # Nil /\ Agree(mem[t], repo[t])
  /\ moved[t][2] = Column(mem[t].status)

(* How far a call has got with the three places that say what its task is. *)
Halfway(c) ==
  LET at == op[c].at
      t == op[c].task
      task == op[c].copy
  IN
  op[c] # Nil =>
    /\ at \in {"submit_node", "submit_mem", "copy_mem", "retry_mem"} => repo[t] = task
    /\ at \in {"cancel_write", "dep_row", "dep_link", "copy_row", "retry_row"} => InStep(t)
    /\ at = "copy_mem" => moved[t][2] = Column(mem[t].status)
    /\ at = "status_row" =>
         /\ mem[t] = task /\ SameHistory(task, repo[t])
         /\ repo[t].result => task.result
         /\ ValidTransition(repo[t].status, task.status)
    /\ at = "result_row" =>
         /\ mem[t] = task /\ SameHistory(task, repo[t])
         /\ task.status = "Completed" /\ task.result
    /\ at \in {"status_event", "result_event", "retry_event"} =>
         mem[t] = task /\ Agree(task, repo[t])
    /\ at = "result_event" => task.status = "Completed"
    /\ at = "retry_event" => task.status = "Pending"

Lockstep ==
  /\ up => \A t \in Task : Busy(t) \/ InStep(t) \/ (mem[t] = Nil /\ repo[t] = Nil)
  /\ up => \A c \in Client : Halfway(c)
  /\ ~up => \A t \in Task : repo[t] # Nil => moved[t][2] = Column(repo[t].status)

LInv == CInv /\ Lockstep

\* Only the call at hand has to be looked at.
LEMMA LockstepFrame ==
  ASSUME LInv, SerialPerTask, NEW c \in Client, NEW u \in Task, Local(c, u),
         op'[c] # Nil \/ InStep(u)', Halfway(c)'
  PROVE  Lockstep'
<1> USE DEF LInv, CInv, BInv, Exclusive
<1>1. ASSUME NEW t \in Task
      PROVE  Busy(t)' \/ InStep(t)' \/ (mem'[t] = Nil /\ repo'[t] = Nil)
  <2>1. CASE t = u
    BY <2>1 DEF Busy, Local
  <2>2. CASE t # u
    <3>1. mem'[t] = mem[t] /\ repo'[t] = repo[t] /\ moved'[t] = moved[t] /\ up
      BY <2>2 DEF Local
    <3>2. Busy(t) => Busy(t)'
      BY <2>2 DEF Busy, Local
    <3> QED
      BY <3>1, <3>2 DEF Lockstep, InStep
  <2> QED
    BY <2>1, <2>2
<1>2. ASSUME NEW d \in Client \ {c}, op[d] # Nil PROVE Halfway(d)'
  <2>1. PICK v \in Task \ {u} : v = op[d].task
    BY <1>2, OthersElsewhere
  <2>2. /\ op'[d] = op[d] /\ mem'[v] = mem[v] /\ repo'[v] = repo[v] /\ moved'[v] = moved[v]
        /\ Halfway(d)
    BY <2>1 DEF Local, Lockstep
  <2> QED
    BY <2>1, <2>2 DEF Halfway, InStep
<1>3. \A d \in Client : Halfway(d)'
  BY <1>2 DEF Local, Halfway
<1> QED
  BY <1>1, <1>3 DEF Lockstep, Local

\* What holds of the task when a call about it begins.
LEMMA BeginInStep ==
  ASSUME LInv, SerialPerTask, NEW c \in Client, NEW t \in Task, Local(c, t),
         op[c] = Nil, mem[t] # Nil
  PROVE  InStep(t)
BY DEF LInv, Lockstep, Local

LEMMA LockstepBegin ==
  ASSUME LInv, Undisturbed, NEW c \in Client, NEW t \in Task, Begin(c, t)
  PROVE  Lockstep'
<1> USE DEF LInv, CInv, BInv, Undisturbed
<1>0. Local(c, t) /\ op[c] = Nil /\ CopiesAlone
  BY BeginLocal DEF CopiesAlone
<1>1. CASE SubmitRow(c, t)
  <2>1. /\ op'[c] # Nil /\ op'[c].at = "submit_node" /\ op'[c].copy = NewRow
        /\ repo'[t] = NewRow /\ op'[c].task = t
    BY <1>1, SubmitRowDoes DEF Local
  <2>2. Halfway(c)'
    BY <2>1 DEF Halfway
  <2> QED
    BY <1>0, <2>1, <2>2, LockstepFrame
<1>2. CASE \E s \in Target : SetStatus(c, t, s)
  <2>1. PICK s \in Status : SetStatus(c, t, s)
    BY <1>2, TargetAssumption
  <2>2. /\ op'[c] # Nil /\ op'[c].at = "status_row" /\ op'[c].task = t
        /\ op'[c].copy = mem'[t] /\ mem[t] # Nil /\ Restated(mem'[t], mem[t], s)
        /\ ValidTransition(mem[t].status, s) /\ repo' = repo
    BY <2>1, SetStatusDoes, NilAssumption DEF Local
  <2>3. InStep(t)
    BY <1>0, <2>2, BeginInStep
  <2>4. Halfway(c)'
    BY <2>2, <2>3 DEF Halfway, InStep, Agree, Restated, SameHistory
  <2> QED
    BY <1>0, <2>2, <2>4, LockstepFrame
<1>3. CASE SetResult(c, t)
  <2>0. /\ op'[c] # Nil /\ op'[c].at = "result_row"
        /\ op'[c].copy = mem'[t] /\ mem[t] \in Row /\ SameHistory(mem'[t], mem[t])
        /\ mem'[t].status = "Completed" /\ mem'[t].result = TRUE /\ repo' = repo
    BY <1>3, SetResultDoes
  <2>1. mem[t] # Nil /\ op'[c].task = t
    BY <1>0, <2>0, NilAssumption DEF Local
  <2>2. InStep(t)
    BY <1>0, <2>1, BeginInStep
  <2>3. Halfway(c)'
    BY <2>0, <2>1, <2>2 DEF Halfway, InStep, Agree, SameHistory
  <2> QED
    BY <1>0, <2>0, <2>3, LockstepFrame
<1>4. ASSUME mem[t] # Nil, op'[c] # Nil, UNCHANGED <<mem, repo, moved>>,
             op'[c].at \in {"cancel_write", "dep_row", "copy_row", "retry_row"}
      PROVE  Lockstep'
  <2>1. InStep(t)
    BY <1>0, <1>4, BeginInStep
  <2>2. Halfway(c)'
    BY <1>0, <1>4, <2>1 DEF Halfway, InStep, Local
  <2> QED
    BY <1>0, <1>4, <2>2, LockstepFrame
<1>5. CASE CancelCheck(c, t) \/ \E p \in Task : DependencyCheck(c, p, t)
  BY <1>4, <1>5, CancelCheckDoes, DependencyCheckDoes
<1>6. CASE \/ UpdateTask(c, t) \/ Retry(c, t)
           \/ \E who \in Scorer : Score(c, t, who)
  <2>1. /\ op'[c] # Nil /\ UNCHANGED <<mem, repo, moved>>
        /\ op'[c].at \in {"copy_row", "retry_row"}
        /\ Calls \cap CopyCalls # {} /\ Get(t) \in Row
    BY <1>6, CopyDoes, RetryDoes
  <2>2. mem[t] # Nil
    BY <1>0, <2>1, CopiedFromMemory
  <2> QED
    BY <1>4, <2>1, <2>2
<1> QED
  BY <1>1, <1>2, <1>3, <1>5, <1>6 DEF Begin

LEMMA LockstepResume ==
  ASSUME LInv, Undisturbed, NEW c \in Client, Resume(c) \/ DbError(c)
  PROVE  Lockstep'
<1> USE DEF LInv, CInv, BInv, Undisturbed
<1>1. PICK u \in Task : /\ u = op[c].task /\ Local(c, u) /\ op[c] # Nil
                        /\ op[c].copy \in Row /\ Halfway(c) /\ Carried(c) /\ repo[u] # Nil
  <2>1. PICK u \in Task : u = op[c].task /\ Local(c, u) /\ op[c] # Nil
    BY ResumeLocal DEF Local
  <2> QED
    BY <2>1, JobFields DEF Lockstep, Local, IInv, TypeOK, Ops, Backed, Stored
<1>2. ASSUME Halfway(c)', op'[c] # Nil \/ InStep(u)' PROVE Lockstep'
  BY <1>1, <1>2, LockstepFrame
<1>3. CASE SubmitNode(c)
  <2>1. /\ op[c].at = "submit_node" /\ op'[c] # Nil /\ op'[c].at = "submit_mem"
        /\ op'[c].copy = op[c].copy /\ op'[c].task = u /\ repo' = repo
    BY <1>1, <1>3, SubmitNodeDoes DEF Local
  <2> QED
    BY <1>1, <1>2, <2>1 DEF Halfway
<1>4. CASE SubmitMem(c)
  <2>1. /\ op[c].at = "submit_mem" /\ op'[c] = Nil /\ mem'[u] = op[c].copy
        /\ moved'[u] = <<"none", "ready">> /\ repo' = repo
    BY <1>1, <1>4, SubmitMemDoes
  <2>2. op[c].copy = NewRow /\ repo[u] = NewRow
    BY <1>1, <2>1 DEF Carried, Halfway, SubmitAwait
  <2>3. Column(NewRow.status) = "ready"
    BY DEF NewRow, Column
  <2>4. InStep(u)'
    BY <1>1, <2>1, <2>2, <2>3, NewRowType, NilAssumption DEF InStep, Agree
  <2> QED
    BY <1>2, <2>1, <2>4 DEF Halfway
<1>5. CASE CancelWrite(c)
  <2>1. InStep(u) /\ op[c].at = "cancel_write" /\ UNCHANGED <<repo, moved>>
    BY <1>1, <1>5, CancelWriteDoes DEF Halfway
  <2>2. CASE op'[c] = Nil
    <3>1. mem' = mem
      BY <1>5, <2>2, CancelWriteDoes
    <3> QED
      BY <1>2, <2>1, <2>2, <3>1 DEF Halfway, InStep
  <2>3. CASE op'[c] # Nil
    <3>1. /\ op'[c].at = "status_row" /\ op'[c].task = u
          /\ op'[c].copy = mem'[u] /\ Restated(mem'[u], mem[u], "Cancelled")
          /\ ValidTransition(mem[u].status, "Cancelled")
      BY <1>1, <1>5, <2>3, CancelWriteDoes DEF Local
    <3>2. Halfway(c)'
      BY <2>1, <3>1 DEF Halfway, InStep, Agree, Restated, SameHistory
    <3> QED
      BY <1>2, <2>3, <3>2
  <2> QED
    BY <2>2, <2>3
<1>6. CASE StatusRow(c)
  <2>1. /\ op[c].at = "status_row" /\ op'[c] # Nil /\ op'[c].at = "status_event"
        /\ op'[c].copy = op[c].copy /\ op'[c].task = u /\ mem' = mem
        /\ repo'[u].status = op[c].copy.status /\ SameHistory(repo'[u], repo[u])
        /\ repo'[u].result => op[c].copy.result \/ repo[u].result
    BY <1>1, <1>6, StatusRowDoes DEF Local
  <2>2. Halfway(c)'
    BY <1>1, <2>1 DEF Halfway, Agree, SameHistory
  <2> QED
    BY <1>2, <2>1, <2>2
<1>7. CASE ResultRow(c)
  <2>1. /\ op[c].at = "result_row" /\ op'[c] # Nil /\ op'[c].at = "result_event"
        /\ op'[c].copy = op[c].copy /\ op'[c].task = u /\ mem' = mem
        /\ repo'[u].status = "Completed" /\ SameHistory(repo'[u], repo[u])
    BY <1>1, <1>7, ResultRowDoes DEF Local
  <2>2. Halfway(c)'
    BY <1>1, <2>1 DEF Halfway, Agree, SameHistory
  <2> QED
    BY <1>2, <2>1, <2>2
<1>8. CASE StatusEvent(c) \/ ResultEvent(c) \/ RetryEvent(c)
  <2>1. /\ op'[c] = Nil /\ UNCHANGED <<mem, repo>>
        /\ op[c].at \in {"status_event", "result_event", "retry_event"}
        /\ moved'[u][2] = Column(op[c].copy.status)
    BY <1>1, <1>8, StatusEventDoes, ResultEventDoes, RetryEventDoes DEF Halfway
  <2>2. InStep(u)'
    BY <1>1, <2>1, NilAssumption DEF Halfway, InStep
  <2> QED
    BY <1>2, <2>1, <2>2 DEF Halfway
<1>9. CASE CopyRow(c) \/ RetryRow(c)
  <2>1. /\ \/ op[c].at = "copy_row" /\ op'[c].at = "copy_mem"
           \/ op[c].at = "retry_row" /\ op'[c].at = "retry_mem"
        /\ op'[c] # Nil /\ op'[c].copy = op[c].copy /\ op'[c].task = u
        /\ repo'[u] = op[c].copy /\ UNCHANGED <<mem, moved>>
    BY <1>1, <1>9, PutRowDoes DEF Local
  <2>2. Halfway(c)'
    BY <1>1, <2>1 DEF Halfway, InStep
  <2> QED
    BY <1>2, <2>1, <2>2
<1>10. CASE CopyMem(c)
  <2>1. /\ op[c].at = "copy_mem" /\ op'[c] = Nil /\ mem'[u] = op[c].copy
        /\ UNCHANGED <<repo, moved>>
    BY <1>1, <1>10, PutMemDoes DEF CopyMem, At
  <2>2. repo[u] = op[c].copy /\ moved[u][2] = Column(op[c].copy.status)
    BY <1>1, <2>1 DEF Halfway, Carried
  <2>3. InStep(u)'
    BY <1>1, <2>1, <2>2, NilAssumption DEF InStep, Agree
  <2> QED
    BY <1>2, <2>1, <2>3 DEF Halfway
<1>11. CASE RetryMem(c)
  <2>1. /\ op[c].at = "retry_mem" /\ op'[c] # Nil /\ op'[c].at = "retry_event"
        /\ op'[c].copy = op[c].copy /\ op'[c].task = u
        /\ mem'[u] = op[c].copy /\ repo' = repo
    BY <1>1, <1>11, PutMemDoes DEF RetryMem, At, Local
  <2>2. Halfway(c)'
    BY <1>1, <2>1 DEF Halfway, Carried, Agree
  <2> QED
    BY <1>2, <2>1, <2>2
<1>12. CASE DependencyRow(c) \/ DependencyLink(c)
  <2>1. /\ op[c].at \in {"dep_row", "dep_link"} /\ UNCHANGED <<mem, repo, moved>>
        /\ op'[c] # Nil => op'[c].at = "dep_link" /\ op'[c].task = u
    BY <1>1, <1>12, DependencyRowDoes, DependencyLinkDoes DEF Local
  <2>2. InStep(u)'
    BY <1>1, <2>1 DEF Halfway, InStep
  <2>3. Halfway(c)'
    BY <2>1, <2>2 DEF Halfway
  <2> QED
    BY <1>2, <2>2, <2>3
<1>13. ~DbError(c)
  BY DEF DbError
<1> QED
  BY <1>3, <1>4, <1>5, <1>6, <1>7, <1>8, <1>9, <1>10, <1>11, <1>12, <1>13 DEF Resume

LEMMA InitLInv == Init => LInv
<1> SUFFICES ASSUME Init PROVE LInv
  OBVIOUS
<1>1. Lockstep
  BY DEF Init, NoTasks, Lockstep, Halfway
<1> QED
  BY <1>1, InitCInv DEF LInv

LEMMA NextLInv == ASSUME Undisturbed, LInv, [Next]_vars PROVE LInv'
<1>1. CInv'
  BY NextCInv DEF LInv, Undisturbed, CopiesAlone
<1>2. CASE UNCHANGED vars
  <2>1. Lockstep'
    BY <1>2 DEF vars, LInv, Lockstep, Busy, InStep, Halfway, Agree
  <2> QED
    BY <1>1, <2>1 DEF LInv
<1>3. CASE Load
  <2>1. /\ ~up /\ UNCHANGED <<op, repo, moved>> /\ \A c \in Client : op[c] = Nil
        /\ up' => mem' = repo
    BY <1>3, LoadBooting DEF LInv, CInv, BInv, Undisturbed
  <2>2. Lockstep'
    BY <2>1 DEF LInv, Lockstep, InStep, Agree, Halfway, Busy
  <2> QED
    BY <1>1, <2>2 DEF LInv
<1>4. CASE Crash
  <2>1. ~up' /\ repo' = repo
        /\ \A t \in Task : moved'[t] = <<"none", IF repo[t] = Nil THEN "none"
                                                 ELSE Column(repo[t].status)>>
    BY <1>4 DEF Crash
  <2>2. Lockstep'
    BY <2>1 DEF Lockstep
  <2> QED
    BY <1>1, <2>2 DEF LInv
<1> QED
  BY <1>1, <1>2, <1>3, <1>4, LockstepBegin, LockstepResume DEF Next, LInv

(* Whatever the order in which a call writes memory and the row, and       *)
(* wherever a crash falls, the two agree about a task no call is about -   *)
(* while every call has its task to itself and no write is refused.        *)
THEOREM MemoryMatchesRows ==
  ASSUME Undisturbed PROVE Spec => []WriteThrough
<1>1. LInv /\ [Next]_vars => LInv'
  BY NextLInv
<1>2. LInv => WriteThrough
  BY DEF LInv, Lockstep, InStep, WriteThrough
<1> QED
  BY <1>1, <1>2, InitLInv, PTL DEF Spec

(* The last event about a task says the column the task is in, under the   *)
(* same conditions.                                                        *)
THEOREM EventsInSync ==
  ASSUME Undisturbed PROVE Spec => []BoardInSync
<1>1. LInv /\ [Next]_vars => LInv'
  BY NextLInv
<1>2. LInv => BoardInSync
  BY DEF LInv, Lockstep, InStep, BoardInSync
<1> QED
  BY <1>1, <1>2, InitLInv, PTL DEF Spec

-----------------------------------------------------------------------------
(* The table as an atomic board.                                           *)

LEMMA DurableMove ==
  ASSUME IInv, NEW c \in Client, NEW u \in Task, Local(c, u),
         repo' \in [Task -> Row \cup {Nil}], repo'[u] \in Row,
         \/ repo[u] = Nil /\ repo'[u].status = "Pending"
         \/ repo[u] # Nil /\ ValidTransition(repo[u].status, repo'[u].status)
         \/ repo[u] # Nil /\ repo'[u].status = "Completed"
  PROVE  Durable!Next
<1> DEFINE s == repo'[u].status
<1>0. repo \in [Task -> Row \cup {Nil}]
  BY DEF IInv, TypeOK
<1>1. s \in Status /\ s \in Durable!Status /\ repo'[u] # Nil
  BY NilAssumption DEF Row, Status, Durable!Status
<1>2. StatusIn(repo)' = [StatusIn(repo) EXCEPT ![u] = s]
  BY <1>1 DEF StatusIn, Local
<1>3. CASE repo[u] = Nil /\ s = "Pending"
  BY <1>2, <1>3 DEF Durable!Next, Durable!Create, StatusIn
<1>4. CASE repo[u] # Nil
  <2>1. StatusIn(repo)[u] = repo[u].status /\ repo[u].status # Nil
    BY <1>0, <1>4, NilAssumption DEF StatusIn, Row
  <2>2. CASE ValidTransition(repo[u].status, s)
    <3>1. Durable!ValidTransition(StatusIn(repo)[u], s)
      BY <2>1, <2>2
         DEF ValidTransition, Successors, Durable!ValidTransition, Durable!Successors
    <3> QED
      BY <1>1, <1>2, <2>1, <3>1 DEF Durable!Next, Durable!Move
  <2>3. CASE s = "Completed"
    BY <1>2, <2>1, <2>3 DEF Durable!Next, Durable!Finish
  <2> QED
    BY <1>4, <2>2, <2>3
<1> QED
  BY <1>3, <1>4

LEMMA DurableCall ==
  ASSUME LInv, NEW c \in Client, repo' \in [Task -> Row \cup {Nil}],
         Resume(c) \/ DbError(c) \/ \E t \in Task : Begin(c, t)
  PROVE  Durable!Next \/ repo' = repo
<1> USE DEF LInv, CInv, BInv
<1>1. ASSUME NEW t \in Task, Begin(c, t) PROVE Durable!Next \/ repo' = repo
  <2>1. CASE SubmitRow(c, t)
    <3>1. Local(c, t) /\ repo[t] = Nil /\ repo'[t] = NewRow
      BY <2>1, SubmitRowDoes
    <3>2. NewRow.status = "Pending"
      BY DEF NewRow
    <3> QED
      BY <3>1, <3>2, NewRowType, DurableMove
  <2>2. CASE \E s \in Target : SetStatus(c, t, s)
    BY <2>2, SetStatusDoes, TargetAssumption
  <2> QED
    BY <1>1, <2>1, <2>2, CancelCheckDoes, SetResultDoes, CopyDoes, RetryDoes,
       DependencyCheckDoes DEF Begin
<1>2. ASSUME Resume(c) \/ DbError(c) PROVE Durable!Next \/ repo' = repo
  <2>1. PICK u \in Task : /\ u = op[c].task /\ Local(c, u) /\ op[c] # Nil
                          /\ Halfway(c) /\ Carried(c) /\ repo[u] # Nil
    BY <1>2, ResumeLocal DEF Local, Lockstep, IInv, Backed, Stored
  <2>2. CASE StatusRow(c)
    <3>1. /\ op[c].at = "status_row" /\ repo'[u] \in Row
          /\ repo'[u].status = op[c].copy.status
      BY <2>1, <2>2, StatusRowDoes
    <3> QED
      BY <2>1, <3>1, DurableMove DEF Halfway
  <2>3. CASE ResultRow(c)
    <3>1. repo'[u] \in Row /\ repo'[u].status = "Completed"
      BY <2>1, <2>3, ResultRowDoes
    <3> QED
      BY <2>1, <3>1, DurableMove
  <2>4. CASE CopyRow(c) \/ RetryRow(c)
    <3>1. /\ op[c].at \in {"copy_row", "retry_row"} /\ repo'[u] = op[c].copy
          /\ op[c].copy \in Row
      BY <2>1, <2>4, PutRowDoes
    <3>2. InStep(u)
      BY <2>1, <3>1 DEF Halfway
    <3>3. ValidTransition(repo[u].status, op[c].copy.status)
      BY <2>1, <3>1, <3>2 DEF InStep, Agree, Carried, ValidTransition
    <3> QED
      BY <2>1, <3>1, <3>3, DurableMove
  <2> QED
    BY <1>2, <2>2, <2>3, <2>4, SubmitNodeDoes, SubmitMemDoes, CancelWriteDoes, StatusEventDoes,
       ResultEventDoes, PutMemDoes, RetryEventDoes, DependencyRowDoes,
       DependencyLinkDoes, DbErrorDoes DEF Resume
<1> QED
  BY <1>1, <1>2

LEMMA NextDurable ==
  ASSUME Undisturbed, LInv, [Next]_vars
  PROVE  Durable!Next \/ StatusIn(repo)' = StatusIn(repo)
<1>1. repo' \in [Task -> Row \cup {Nil}]
  BY NextLInv DEF LInv, CInv, BInv, IInv, TypeOK
<1>2. CASE repo' = repo
  BY <1>2 DEF StatusIn
<1>3. CASE \E c \in Client : Resume(c) \/ DbError(c) \/ \E t \in Task : Begin(c, t)
  BY <1>1, <1>2, <1>3, DurableCall
<1>4. Load \/ Crash \/ UNCHANGED vars => repo' = repo
  BY DEF Load, LoadRows, LoadDeps, LoadReplace, Crash, vars
<1> QED
  BY <1>2, <1>3, <1>4 DEF Next

(* The tasks table is an atomic board, across crashes at any await: no     *)
(* stored history takes a step the transition table forbids, although a    *)
(* row is written from what a call carried over an await.                  *)
THEOREM DurableBoardImplemented ==
  ASSUME Undisturbed PROVE Spec => DurableBoard
<1>1. Init => Durable!Init /\ LInv
  <2>1. Init => Durable!Init
    BY DEF Init, NoTasks, StatusIn, Durable!Init
  <2> QED
    BY <2>1, InitLInv
<1>2. LInv /\ [Next]_vars => LInv'
  BY NextLInv
<1>3. LInv /\ [Next]_vars => [Durable!Next]_(StatusIn(repo))
  BY NextDurable
<1> QED
  BY <1>1, <1>2, <1>3, PTL DEF Spec, DurableBoard, Durable!Spec

=============================================================================
