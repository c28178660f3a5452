-------------------------- MODULE WorkerPool_proofs --------------------------
(***************************************************************************)
(* Theorems about WorkerPool, for any board, any dependency graph, any     *)
(* concurrency and any mix of faults.                                      *)
(***************************************************************************)
EXTENDS WorkerPool, TLAPS

(* What the await a handler has reached says about its task's status.  It  *)
(* is why no set_status of a handler is refused but the last one of a      *)
(* review, and why what a handler leaves is not ready.                     *)
StatusAtStep ==
  \A t \in Task :
    /\ handler[t] = "start" => status[t] \in Runnable
    /\ handler[t] \in {"execute", "fail", "result"} => status[t] = "InProgress"
    /\ handler[t] \in {"council", "review"} => status[t] = "Completed"
    /\ ended[t] \in {"ok", "error"} =>
         handler[t] = "none" /\ status[t] \notin Runnable

IInv == TypeOK /\ ParentsFirst /\ StatusAtStep

\* The moves a handler asks set_status for.
LEMMA Transitions ==
  /\ \A s \in Runnable : ValidTransition(s, "InProgress")
  /\ ValidTransition("InProgress", "Failed")
  /\ ~ValidTransition("Completed", "Review")
BY DEF Runnable, ValidTransition, Successors

LEMMA InitIInv == Init => IInv
<1> SUFFICES ASSUME Init PROVE IInv
  OBVIOUS
<1>1. TypeOK /\ Running = {}
  BY LoadedAssumption DEF Init, TypeOK, Running, Step, Ending
<1>2. StatusAtStep
  BY DEF Init, StatusAtStep
<1> QED
  BY <1>1, <1>2 DEF IInv, ParentsFirst

(* A finished parent stays finished while one task t makes a move that     *)
(* does not take t out of Finished.                                        *)
LEMMA ParentsStay ==
  ASSUME TypeOK, ParentsFirst, NEW t \in Task, NEW s \in Status,
         status' = [status EXCEPT ![t] = s] \/ UNCHANGED status,
         status[t] \in Finished => s \in Finished,
         Running' \subseteq Running
  PROVE  ParentsFirst'
<1> SUFFICES ASSUME NEW u \in Running', NEW p \in Task, <<p, u>> \in Parent
             PROVE  status'[p] \in Finished
  BY DEF ParentsFirst, ParentsCompleted
<1>1. status[p] \in Finished
  BY DEF ParentsFirst, ParentsCompleted
<1>2. CASE p = t
  BY <1>1, <1>2 DEF TypeOK
<1>3. CASE p # t
  BY <1>1, <1>3 DEF TypeOK
<1> QED
  BY <1>2, <1>3

\* How a step of the handler of t changes "handler" and "ended".
LEMMA EndStep ==
  ASSUME TypeOK, NEW t \in Task, NEW how \in Ending, End(t, how)
  PROVE  /\ handler' \in [Task -> Step] /\ handler'[t] = "none"
         /\ ended' \in [Task -> Ending] /\ ended'[t] = how
         /\ \A u \in Task \ {t} : handler'[u] = handler[u] /\ ended'[u] = ended[u]
         /\ Running' \subseteq Running
BY DEF End, TypeOK, Step, Running

LEMMA ReachStep ==
  ASSUME TypeOK, NEW t \in Running, NEW step \in Step, Reach(t, step)
  PROVE  /\ handler' \in [Task -> Step] /\ handler'[t] = step
         /\ ended' \in [Task -> Ending] /\ ended'[t] = ended[t]
         /\ \A u \in Task \ {t} : handler'[u] = handler[u] /\ ended'[u] = ended[u]
         /\ Running' \subseteq Running
BY DEF Reach, TypeOK, Running

-----------------------------------------------------------------------------
(* The handler of t takes a step that gives its task status s, or leaves   *)
(* the status alone, and then waits at "at" or has ended.                  *)
LEMMA HandlerStep ==
  ASSUME IInv, NEW t \in Running, NEW s \in Status,
         status' = [status EXCEPT ![t] = s],
         status[t] \in Finished => s \in Finished,
         UNCHANGED pool, cancelled' \in BOOLEAN,
         handler' \in [Task -> Step], ended' \in [Task -> Ending],
         \A u \in Task \ {t} : handler'[u] = handler[u] /\ ended'[u] = ended[u],
         Running' \subseteq Running,
         /\ handler'[t] # "start"
         /\ handler'[t] \in {"execute", "fail", "result"} => s = "InProgress"
         /\ handler'[t] \in {"council", "review"} => s = "Completed"
         /\ ended'[t] \in {"ok", "error"} => handler'[t] = "none" /\ s \notin Runnable
  PROVE  IInv'
<1>1. t \in Task
  BY DEF Running
<1>2. ParentsFirst'
  BY <1>1, ParentsStay DEF IInv
<1>3. TypeOK'
  BY <1>1 DEF IInv, TypeOK
<1>4. StatusAtStep'
  <2> SUFFICES ASSUME NEW u \in Task
               PROVE  /\ handler'[u] = "start" => status'[u] \in Runnable
                      /\ handler'[u] \in {"execute", "fail", "result"} =>
                           status'[u] = "InProgress"
                      /\ handler'[u] \in {"council", "review"} =>
                           status'[u] = "Completed"
                      /\ ended'[u] \in {"ok", "error"} =>
                           handler'[u] = "none" /\ status'[u] \notin Runnable
    BY DEF StatusAtStep
  <2>1. CASE u = t
    <3>1. status'[u] = s
      BY <1>1, <2>1 DEF IInv, TypeOK
    <3> QED
      BY <2>1, <3>1
  <2>2. CASE u # t
    <3>1. status'[u] = status[u] /\ handler'[u] = handler[u] /\ ended'[u] = ended[u]
      BY <1>1, <2>2 DEF IInv, TypeOK
    <3> QED
      BY <3>1 DEF IInv, StatusAtStep
  <2> QED
    BY <2>1, <2>2
<1> QED
  BY <1>2, <1>3, <1>4 DEF IInv

(* What a handler's step does to the status of its task: nothing, the move *)
(* it asked for, or the completion that needs no leave.                    *)
LEMMA HandlerMoves ==
  ASSUME IInv, NEW t \in Task
  PROVE  /\ handler[t] = "start" => ValidTransition(status[t], "InProgress")
         /\ handler[t] = "fail" => ValidTransition(status[t], "Failed")
         /\ handler[t] = "review" => ~ValidTransition(status[t], "Review")
BY Transitions DEF IInv, StatusAtStep

LEMMA HandleIInv ==
  ASSUME IInv, NEW t \in Task, Handle(t)
  PROVE  IInv'
<1> USE DEF IInv
<1>0. /\ t \in Running /\ status[t] \in Status
      /\ status = [status EXCEPT ![t] = status[t]]
      /\ {"InProgress", "Failed", "Completed", "Review"} \subseteq Status
  BY DEF Handle, Start, Execute, Fail, Result, Council, Review, Drop, Running,
         TypeOK, Status
<1>1. CASE Start(t)
  <2>1. status' = [status EXCEPT ![t] = "InProgress"]
    BY <1>1, HandlerMoves DEF Start, SetStatus
  <2>2. status[t] \in Runnable /\ "InProgress" \notin Runnable
    BY <1>1 DEF Start, StatusAtStep, Runnable
  <2>3. status[t] \notin Finished
    BY <2>2 DEF Runnable, Finished
  <2>4. ended[t] \notin {"ok", "error"}
    BY <1>0, <1>1 DEF Start, StatusAtStep
  <2>5. CASE Reach(t, "execute")
    <3>1. "execute" \in Step
      BY DEF Step
    <3> QED
      BY <1>0, <1>1, <2>1, <2>3, <2>4, <2>5, <3>1, ReachStep, HandlerStep
         DEF Start, TypeOK
  <2>6. CASE End(t, "error")
    <3>1. "error" \in Ending
      BY DEF Ending
    <3> QED
      BY <1>0, <1>1, <2>1, <2>2, <2>3, <2>6, <3>1, EndStep, HandlerStep
         DEF Start, TypeOK
  <2> QED
    BY <1>1, <2>5, <2>6 DEF Start
<1>2. CASE Execute(t)
  <2>1. status[t] = "InProgress" /\ ended[t] \notin {"ok", "error"}
    BY <1>0, <1>2 DEF Execute, StatusAtStep
  <2>2. "result" \in Step /\ "fail" \in Step
    BY DEF Step
  <2>3. PICK step \in {"result", "fail"} : Reach(t, step)
    BY <1>2 DEF Execute
  <2>4. step \in Step
    BY <2>2
  <2>5. /\ handler' \in [Task -> Step] /\ handler'[t] = step
        /\ ended' \in [Task -> Ending] /\ ended'[t] = ended[t]
        /\ \A u \in Task \ {t} : handler'[u] = handler[u] /\ ended'[u] = ended[u]
        /\ Running' \subseteq Running
    BY <1>0, <2>3, <2>4, ReachStep
  <2>6. status' = [status EXCEPT ![t] = "InProgress"]
    BY <1>0, <1>2, <2>1 DEF Execute
  <2> QED
    BY <1>0, <1>2, <2>1, <2>5, <2>6, HandlerStep DEF Execute, TypeOK, Finished
<1>3. CASE Fail(t)
  <2>1. status' = [status EXCEPT ![t] = "Failed"]
    BY <1>3, HandlerMoves DEF Fail, SetStatus
  <2>2. status[t] \notin Finished /\ "Failed" \notin Runnable /\ "error" \in Ending
    BY <1>3 DEF Fail, StatusAtStep, Runnable, Finished, Ending
  <2> QED
    BY <1>0, <1>3, <2>1, <2>2, EndStep, HandlerStep DEF Fail, TypeOK
<1>4. CASE Result(t)
  <2>1. /\ status[t] = "InProgress" /\ ended[t] \notin {"ok", "error"}
        /\ "InProgress" \notin Runnable /\ "Completed" \notin Runnable
        /\ "InProgress" \notin Finished /\ {"ok", "error"} \subseteq Ending
        /\ "council" \in Step
    BY <1>0, <1>4 DEF Result, StatusAtStep, Runnable, Finished, Ending, Step
  <2>2. CASE UNCHANGED status /\ End(t, "error")
    <3>1. status' = [status EXCEPT ![t] = "InProgress"]
      BY <1>0, <2>1, <2>2
    <3> QED
      BY <1>0, <1>4, <2>1, <2>2, <3>1, EndStep, HandlerStep DEF Result, TypeOK
  <2>3. CASE /\ status' = [status EXCEPT ![t] = "Completed"]
             /\ End(t, "ok") \/ End(t, "error")
    BY <1>0, <1>4, <2>1, <2>3, EndStep, HandlerStep DEF Result, TypeOK
  <2>4. CASE status' = [status EXCEPT ![t] = "Completed"] /\ Reach(t, "council")
    BY <1>0, <1>4, <2>1, <2>4, ReachStep, HandlerStep DEF Result, TypeOK
  <2> QED
    BY <1>4, <2>2, <2>3, <2>4 DEF Result
<1>5. CASE Council(t)
  <2>1. /\ status[t] = "Completed" /\ ended[t] \notin {"ok", "error"}
        /\ "Completed" \notin Runnable /\ "error" \in Ending /\ "review" \in Step
        /\ UNCHANGED <<status, pool, cancelled>>
    BY <1>0, <1>5 DEF Council, StatusAtStep, Runnable, Ending, Step
  <2>2. status' = [status EXCEPT ![t] = "Completed"]
    BY <1>0, <2>1
  <2>3. CASE Reach(t, "review")
    <3>1. /\ handler' \in [Task -> Step] /\ handler'[t] = "review"
          /\ ended' \in [Task -> Ending] /\ ended'[t] = ended[t]
          /\ \A u \in Task \ {t} : handler'[u] = handler[u] /\ ended'[u] = ended[u]
          /\ Running' \subseteq Running
      BY <1>0, <2>1, <2>3, ReachStep
    <3> QED
      BY <1>0, <2>1, <2>2, <3>1, HandlerStep DEF TypeOK, Finished
  <2>4. CASE End(t, "error")
    BY <1>0, <2>1, <2>2, <2>4, EndStep, HandlerStep DEF TypeOK, Finished
  <2> QED
    BY <1>5, <2>3, <2>4 DEF Council
<1>6. CASE Review(t)
  <2>1. /\ status[t] = "Completed" /\ "Completed" \notin Runnable
        /\ {"ok", "error"} \subseteq Ending
    BY <1>6 DEF Review, StatusAtStep, Runnable, Ending
  <2>2. status' = [status EXCEPT ![t] = "Completed"]
    BY <1>0, <1>6, <2>1, HandlerMoves DEF Review, SetStatus
  <2>3. PICK a \in {"ok", "error"} : End(t, a)
    BY <1>6 DEF Review, Answers
  <2>4. /\ handler' \in [Task -> Step] /\ handler'[t] = "none"
        /\ ended' \in [Task -> Ending] /\ ended'[t] = a
        /\ \A u \in Task \ {t} : handler'[u] = handler[u] /\ ended'[u] = ended[u]
        /\ Running' \subseteq Running
    BY <2>1, <2>3, EndStep
  <2> QED
    BY <1>0, <1>6, <2>1, <2>2, <2>4, HandlerStep DEF Review, TypeOK, Finished
<1>7. CASE Drop(t)
  <2>1. status' = [status EXCEPT ![t] = status[t]] /\ "dropped" \in Ending
    BY <1>0, <1>7 DEF Drop, Ending
  <2> QED
    BY <1>0, <1>7, <2>1, EndStep, HandlerStep DEF Drop, TypeOK
<1> QED
  BY <1>1, <1>2, <1>3, <1>4, <1>5, <1>6, <1>7 DEF Handle

LEMMA PoolIInv ==
  ASSUME IInv, NextBatch \/ BatchEnds \/ Stop \/ Shutdown \/ \E t \in Task : Panic(t)
  PROVE  IInv'
<1> USE DEF IInv
<1>1. CASE NextBatch
  <2>1. PICK B \in Batches(ListReady, Concurrency) :
          handler' = [t \in Task |-> IF t \in B THEN "start" ELSE handler[t]]
    BY <1>1 DEF NextBatch
  <2>2. B \subseteq ListReady /\ B \subseteq Task
    BY <2>1 DEF Batches, ListReady
  <2>3. TypeOK'
    BY <1>1, <2>1 DEF NextBatch, TypeOK, Step
  <2>4. Running = {} /\ Running' \subseteq B
    BY <1>1, <2>1 DEF NextBatch, TypeOK, Running
  <2>5. ParentsFirst'
    BY <1>1, <2>2, <2>4 DEF NextBatch, ParentsFirst, ParentsCompleted, ListReady
  <2>6. StatusAtStep'
    BY <1>1, <2>1, <2>2 DEF NextBatch, StatusAtStep, ListReady
  <2> QED
    BY <2>3, <2>5, <2>6
<1>2. CASE BatchEnds \/ Stop \/ Shutdown
  <2>1. UNCHANGED <<status, handler, ended>>
    BY <1>2 DEF BatchEnds, Stop, Shutdown
  <2>2. TypeOK'
    BY <1>2, <2>1 DEF BatchEnds, Stop, Shutdown, TypeOK, Running
  <2>3. ParentsFirst' /\ StatusAtStep'
    BY <2>1 DEF ParentsFirst, ParentsCompleted, StatusAtStep, Running
  <2> QED
    BY <2>2, <2>3
<1>3. CASE \E t \in Task : Panic(t)
  <2>1. /\ pool' = "failed" /\ UNCHANGED <<status, cancelled>>
        /\ handler' = [u \in Task |-> "none"]
        /\ ended' = [u \in Task |-> IF handler[u] # "none" THEN "dropped" ELSE ended[u]]
    BY <1>3 DEF Panic
  <2>2. Running' = {}
    BY <2>1 DEF Running
  <2>3. TypeOK'
    BY <2>1, <2>2 DEF TypeOK, Step, Ending
  <2>4. ParentsFirst'
    BY <2>2 DEF ParentsFirst
  <2>5. StatusAtStep'
    BY <2>1 DEF StatusAtStep
  <2> QED
    BY <2>3, <2>4, <2>5
<1> QED
  BY <1>1, <1>2, <1>3

LEMMA NextIInv == IInv /\ [Next]_vars => IInv'
<1> SUFFICES ASSUME IInv, [Next]_vars PROVE IInv'
  OBVIOUS
<1>1. CASE UNCHANGED vars
  BY <1>1 DEF vars, IInv, TypeOK, ParentsFirst, ParentsCompleted, StatusAtStep, Running
<1>2. CASE Next
  BY <1>2, HandleIInv, PoolIInv DEF Next
<1> QED
  BY <1>1, <1>2

(* The structures of the pool keep their types, and no handler outlives    *)
(* the batch it was spawned in (WorkerPool::run).                          *)
THEOREM TypeCorrect == Spec => []TypeOK
<1>1. IInv => TypeOK
  BY DEF IInv
<1> QED
  BY <1>1, InitIInv, NextIInv, PTL DEF Spec

(* A handler only ever works on a task whose parents are finished,         *)
(* whatever its parents' own handlers do in the same or a later batch.     *)
THEOREM ParentsAlwaysFirst == Spec => []ParentsFirst
<1>1. IInv => ParentsFirst
  BY DEF IInv
<1> QED
  BY <1>1, InitIInv, NextIInv, PTL DEF Spec

(* No task is worked on twice in a run, whichever fault ended its handler. *)
THEOREM WorkedOnOnce == Spec => []OnlyOnce
<1>1. IInv => OnlyOnce
  BY DEF IInv, StatusAtStep, OnlyOnce, ListReady, Running
<1> QED
  BY <1>1, InitIInv, NextIInv, PTL DEF Spec

(* The board's own moves, seen through the pool's status. *)
LEMMA BoardMoves ==
  ASSUME TypeOK, NEW t \in Task, NEW s \in Status,
         status' = [status EXCEPT ![t] = s],
         ValidTransition(status[t], s) \/ s = "Completed"
  PROVE  Board!Next
<1>1. status[t] # "absent"
  BY DEF TypeOK, Status
<1>2. CASE ValidTransition(status[t], s)
  <2>1. Board!ValidTransition(status[t], s)
    BY <1>2 DEF ValidTransition, Successors, Board!ValidTransition, Board!Successors
  <2>2. Board!Move(t, s) /\ s \in Board!Status
    BY <1>1, <2>1 DEF Board!Move, Status, Board!Status
  <2> QED
    BY <2>2 DEF Board!Next
<1>3. CASE s = "Completed"
  <2>1. Board!Finish(t)
    BY <1>1, <1>3 DEF Board!Finish
  <2> QED
    BY <2>1 DEF Board!Next
<1> QED
  BY <1>2, <1>3

LEMMA NextLegal == IInv /\ [Next]_vars => [Board!Next]_status
<1> SUFFICES ASSUME IInv, Next, status' # status PROVE Board!Next
  BY DEF vars
<1>1. PICK t \in Task : Start(t) \/ Fail(t) \/ Result(t) \/ Review(t)
  BY DEF Next, NextBatch, BatchEnds, Stop, Shutdown, Panic, Handle, Execute,
         Council, Drop
<1>2. {"InProgress", "Failed", "Completed", "Review"} \subseteq Status
  BY DEF Status
<1>3. CASE Start(t) \/ Fail(t) \/ Review(t)
  <2>1. PICK s \in {"InProgress", "Failed", "Review"} : SetStatus(t, s)
    BY <1>3 DEF Start, Fail, Review
  <2>2. ValidTransition(status[t], s) /\ status' = [status EXCEPT ![t] = s]
    BY <2>1 DEF SetStatus
  <2> QED
    BY <1>2, <2>2, BoardMoves DEF IInv
<1>4. CASE Result(t)
  <2>1. status' = [status EXCEPT ![t] = "Completed"]
    BY <1>4 DEF Result
  <2> QED
    BY <1>2, <2>1, BoardMoves DEF IInv
<1> QED
  BY <1>1, <1>3, <1>4

(* Every status a handler writes is one the task board allows: the stale   *)
(* Task a handler carries never overwrites the board.                      *)
THEOREM OnlyLegalMoves == Spec => LegalMoves
BY InitIInv, NextIInv, NextLegal, PTL DEF Spec, LegalMoves

=============================================================================
