----------------------------- MODULE TaskBoard ------------------------------
(***************************************************************************)
(* What the task service promises of every task's status, whoever reads    *)
(* it: a task appears as Pending, then only moves along the transition     *)
(* table, except that storing a result completes it from any status.       *)
(*                                                                         *)
(* The board is one atomic variable.  TaskService, with its memory map,    *)
(* its rows and its calls that await between the two, is shown to          *)
(* implement it.                                                           *)
(***************************************************************************)
EXTENDS TaskStatus

CONSTANTS
  Task,     \* the task identities
  Absent    \* no status: nobody has submitted the task

VARIABLE status

TypeOK == status \in [Task -> Status \cup {Absent}]

Init == status = [t \in Task |-> Absent]

\* submit
Create(t) ==
  /\ status[t] = Absent
  /\ status' = [status EXCEPT ![t] = "Pending"]

\* set_status, cancel and retry
Move(t, s) ==
  /\ status[t] # Absent
  /\ ValidTransition(status[t], s)
  /\ status' = [status EXCEPT ![t] = s]

\* set_result, whose status write is not validated
Finish(t) ==
  /\ status[t] # Absent
  /\ status' = [status EXCEPT ![t] = "Completed"]

Next == \E t \in Task : Create(t) \/ Finish(t) \/ \E s \in Status : Move(t, s)

Spec == Init /\ [][Next]_status

=============================================================================
