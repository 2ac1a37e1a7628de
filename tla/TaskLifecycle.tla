--------------------------- MODULE TaskLifecycle ---------------------------
(***************************************************************************)
(* What the durable record of a task promises to whoever reads it: within  *)
(* one run the status only moves forward along the loop, a terminal status *)
(* is left only by a new run with a new run_id, and a completed task is    *)
(* never run again ("un etat terminal ne peut pas etre reouvert            *)
(* silencieusement", docs/SKYTRAP_V2_ARCHITECTURE.md).  AutonomousTask is  *)
(* the implementation: processes, saves in two steps, crashes.             *)
(***************************************************************************)
EXTENDS TaskState

VARIABLES status, run

vars == <<status, run>>

Init == status = "absent" /\ run = 0

\* Statuses a run may persist right after persisting the one on the left.
Flow ==
  [s \in Statuses |->
     CASE s = "interpreting" -> {"created", "needs_clarification"}
       [] s = "created"      -> {"created", "planning", "running",
                                 "blocked", "failed"}
       [] s = "planning"     -> {"running", "failed"}
       [] s = "running"      -> {"running", "needs_approval", "completed",
                                 "blocked", "failed", "cancelled"}
       [] s = "needs_clarification" -> {"needs_clarification"}
       [] OTHER              -> {}]

\* A crashed run may leave no trace: identifiers may be skipped, never reused.
NewRun == run' \in Nat /\ run' > run

Create == /\ status = "absent"
          /\ status' = "interpreting"
          /\ NewRun

Progress == /\ status \in Statuses \ TerminalStatuses
            /\ status' \in Flow[status]
            /\ run' = run

\* The first status a new run persists.
Restart == /\ status \in Statuses \ {"completed"}
           /\ status' \in {"created", "planning", "running", "blocked",
                           "failed"}
           /\ NewRun

Next == Create \/ Progress \/ Restart

Spec == Init /\ [][Next]_vars

=============================================================================
