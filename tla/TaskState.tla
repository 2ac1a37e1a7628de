----------------------------- MODULE TaskState -----------------------------
(***************************************************************************)
(* The durable record of one autonomous task (src/skytrap/autonomy/        *)
(* state.py) together with the one fact of its working memory that steers  *)
(* the loop, and the operations of the class TaskState on it.  A record is *)
(* what TaskStore writes to <task_id>.json: state and memory in one file.  *)
(***************************************************************************)
EXTENDS Naturals

Statuses == {"created", "interpreting", "needs_clarification", "planning",
             "running", "verifying", "reviewing", "needs_approval",
             "completed", "blocked", "failed", "cancelled"}

TerminalStatuses == {"completed", "blocked", "failed", "cancelled"}

(***************************************************************************)
(* intent is normalized_intent: "unclear" when clarification_required.     *)
(* planned, pending, branch: plan, pending_approval and task_branch are    *)
(* set.  acted: memory.events holds a tool_result.  run stands for run_id; *)
(* identifiers are fresh, so they are numbered in the order of creation.   *)
(***************************************************************************)
Task == [status : Statuses \cup {"absent"}, run : Nat, iteration : Nat,
         intent : {"none", "unclear", "clear"}, planned : BOOLEAN,
         pending : BOOLEAN, stop : BOOLEAN, branch : BOOLEAN,
         acted : BOOLEAN, rolledBack : BOOLEAN]

\* No file on disk, or no record in a process's memory.
NoTask == [status |-> "absent", run |-> 0, iteration |-> 0,
           intent |-> "none", planned |-> FALSE, pending |-> FALSE,
           stop |-> FALSE, branch |-> FALSE, acted |-> FALSE,
           rolledBack |-> FALSE]

NewTask(run) == [NoTask EXCEPT !.status = "created", !.run = run]

IsTerminal(task) == task.status \in TerminalStatuses

\* transition() raises ValueError exactly when this is false.
CanTransition(task, status) == IsTerminal(task) => status = task.status

Transition(task, status) == [task EXCEPT !.status = status]

\* Faulty variant of CanBeginNewRun: the guard on COMPLETED is missing.
CanAlwaysBeginNewRun(task) == TRUE

\* begin_new_run() raises ValueError exactly when this is false.
CanBeginNewRun(task) == task.status # "completed"

\* Faulty variant of BeginNewRun: the pending approval is not cleared.
BeginNewRunKeepingApproval(task, run) ==
  [task EXCEPT !.run = run, !.iteration = 0, !.status = "created",
               !.stop = FALSE]

BeginNewRun(task, run) ==
  [task EXCEPT !.run = run, !.iteration = 0, !.status = "created",
               !.pending = FALSE, !.stop = FALSE]

=============================================================================
