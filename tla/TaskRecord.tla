----------------------------- MODULE TaskRecord -----------------------------
(***************************************************************************)
(* The task record of capp-queue (task.rs) and the transitions its owner   *)
(* makes on a copy of it.  Times and messages are kept as far as they are  *)
(* there or not; the payload is left out.                                  *)
(***************************************************************************)
EXTENDS Integers

Statuses == {"Queued", "InProgress", "Completed", "Failed", "DeadLetter"}

\* TaskId::new: ids are v7 uuids and never repeat, so the id is given.
NewTask(id) ==
    [id |-> id, status |-> "Queued", retries |-> 0,
     started |-> FALSE, finished |-> FALSE, error |-> FALSE]

SetInProgress(task) == [task EXCEPT !.status = "InProgress", !.started = TRUE]

SetSucceed(task) == [task EXCEPT !.status = "Completed", !.finished = TRUE]

SetRetry(task) ==
    [task EXCEPT !.status = "Failed", !.finished = TRUE, !.retries = @ + 1,
                 !.error = TRUE]

SetDlq(task) ==
    [task EXCEPT !.status = "DeadLetter", !.finished = TRUE, !.error = TRUE]

=============================================================================
