---------------------------- MODULE MCTaskService ---------------------------
(***************************************************************************)
(* Small instances of TaskService for TLC: two or three tasks and clients  *)
(* as model values, and the statuses the callers in the code ask for.      *)
(***************************************************************************)
EXTENDS TaskService, TLC

\* Tasks and clients are interchangeable in every safety property.
Interchangeable == Permutations(Task) \cup Permutations(Client)

\* set_status targets of the worker, the run loop and the review commands.
RunTargets == {"InProgress", "Review"}
AllTargets == Status
FinishTargets == {"InProgress", "Completed"}

WriteCalls == {"submit", "set_status", "cancel", "set_result", "score",
               "retry", "update", "crash"}
MemoryCalls == {"submit", "set_status", "cancel", "set_result", "db_error"}
GraphCalls == {"submit", "add_dependency", "set_result", "crash", "db_error"}
ReloadCalls == {"submit", "add_dependency", "reload"}
CancelCalls == {"submit", "set_status", "cancel", "set_result"}
ScoreCalls == {"submit", "cancel", "score"}
StatusCalls == {"submit", "set_status"}
RestartCalls == {"submit", "set_status", "crash"}

=============================================================================
