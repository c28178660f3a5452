----------------------------- MODULE TaskStatus -----------------------------
(***************************************************************************)
(* The task lifecycle of crytex-core: the statuses of models.rs and the    *)
(* transition table of task_service.rs.  Pure definitions, no state: every *)
(* module that speaks of a task's status extends this one.                 *)
(***************************************************************************)

Status == {"Backlog", "Ready", "Pending", "InProgress", "Review",
           "Remediation", "Done", "Completed", "Failed", "Blocked",
           "Cancelled"}

\* TaskStatus::is_terminal
Terminal == {"Completed", "Done", "Failed", "Cancelled"}

\* The statuses all_parents_completed accepts for a parent.
Finished == {"Completed", "Done"}

\* The statuses list_ready hands out.
Runnable == {"Pending", "Ready"}

(***************************************************************************)
(* TaskStatus::kanban_status: the column a status is shown in.             *)
(***************************************************************************)
Column(s) ==
  CASE s \in {"Pending", "Ready"}     -> "ready"
    [] s \in {"Completed", "Done"}    -> "done"
    [] s \in {"Cancelled", "Blocked"} -> "blocked"
    [] OTHER                          -> s

Columns == {Column(s) : s \in Status}

(***************************************************************************)
(* validate_transition as the set of statuses reachable in one move.       *)
(***************************************************************************)
Successors(s) ==
  CASE s = "Backlog"     -> {"Ready", "Pending", "Blocked", "Cancelled"}
    [] s = "Ready"       -> {"InProgress", "Backlog", "Done", "Completed",
                             "Failed", "Blocked", "Cancelled"}
    [] s = "Pending"     -> {"InProgress", "Ready", "Backlog", "Done",
                             "Completed", "Failed", "Blocked", "Cancelled"}
    [] s = "InProgress"  -> {"Review", "Done", "Completed", "Remediation",
                             "Failed", "Blocked", "Cancelled"}
    [] s = "Review"      -> {"Done", "Completed", "Remediation", "Ready",
                             "Pending", "Failed", "Blocked", "Cancelled"}
    [] s = "Remediation" -> {"Ready", "Pending", "InProgress", "Review",
                             "Done", "Failed", "Blocked", "Cancelled"}
    [] s = "Blocked"     -> {"Ready", "Pending", "Failed", "Cancelled"}
    [] s = "Failed"      -> {"Ready", "Pending", "Cancelled"}
    [] OTHER             -> {}

\* A status is always a legal successor of itself.
ValidTransition(from, to) == from = to \/ to \in Successors(from)

=============================================================================
