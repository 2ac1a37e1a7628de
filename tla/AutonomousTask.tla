--------------------------- MODULE AutonomousTask ---------------------------
(***************************************************************************)
(* One autonomous task, the processes that run it and the processes that   *)
(* command it: AutonomousTaskService, AgentLoop._run and TaskStore         *)
(* (src/skytrap/autonomy/{service,loop,memory}.py).  Every process (a CLI  *)
(* invocation or a server thread) works on its own copy of the record and  *)
(* meets the others only in the file, which save() reads for the stop flag *)
(* and then replaces, in two steps.                                        *)
(*                                                                         *)
(* What the model, the tools, the verification commands and git answer is  *)
(* a choice; which answer leads where is the code's.                       *)
(***************************************************************************)
EXTENDS TaskState, FiniteSets

CONSTANTS Runners,        \* processes that start, execute and resume
          Clients,        \* processes that stop and roll back
          Commands,       \* what the clients do: "stop", "rollback"
          MaxIterations,  \* max_iterations of the task
          MaxRuns,        \* bound: run identifiers handed out
          MaxCommands     \* bound: client commands issued

ASSUME BoundsAssumption == /\ MaxIterations \in Nat \ {0}
                           /\ MaxRuns \in Nat
                           /\ MaxCommands \in Nat
                           /\ Commands \subseteq {"stop", "rollback"}

VARIABLES disk,      \* the file <task_id>.json
          gitBranch, \* the repository has the branch skytrap/task-<id>
          mem,       \* the record each process holds
          pc,        \* where each process is
          next,      \* where it goes when the save it is in has finished
          runs,      \* run identifiers handed out so far
          commands,  \* client commands issued so far
          gates,     \* history: checks passed since the model's last answer
          earned,    \* history: runs whose checks all passed
          stopAsked, \* history: the latest run when request_stop returned
          halted     \* history: runs that were saved as CANCELLED

vars == <<disk, gitBranch, mem, pc, next, runs, commands, gates, earned,
          stopAsked, halted>>

history == <<gates, earned, stopAsked, halted>>

Procs == Runners \cup Clients

AllGates == {"verified", "browser", "reviewed"}

\* Where the exception handler of _run does and does not cover a save.
InTry    == {"normalize", "plan", "check", "return"}
OutOfTry == {"interpret", "prepare", "started", "ensure", "enter", "exit",
             "stopped", "finished"}

Labels == {"idle", "save", "replace", "interpret", "prepare", "started",
           "reprepare", "ensure", "reload", "enter", "normalize", "plan",
           "check", "chat", "verify", "browser", "review", "checkpoint"}

\* Points of _run where a call may raise: discovery, planner, model, tools
\* outside the executor's own boundary, verifier, reviewer, git.
Raising == {"enter", "normalize", "plan", "chat", "verify", "browser",
            "review", "checkpoint"}

\* Points of _run where a call may never return: discovery asks a language
\* server that may send half an answer (lsp.py), a tool call may ask the user
\* at the terminal (typer.confirm, cli.py), a page may hang (page.title()).
\* Every other call of HTTP, a subprocess or the server's bridge has a timeout.
Unbounded == {"enter", "chat", "browser"}

-----------------------------------------------------------------------------
(* Steps shared by the operations *)

Goto(p, label) == pc' = [pc EXCEPT ![p] = label] /\ UNCHANGED next

\* The process ends (returns or raises) and its copy is gone.
End(p) == /\ pc' = [pc EXCEPT ![p] = "idle"]
          /\ mem' = [mem EXCEPT ![p] = NoTask]
          /\ UNCHANGED next

\* Update the copy, then save it, then go on at label k.
SaveThen(p, task, k) == /\ mem' = [mem EXCEPT ![p] = task]
                        /\ pc' = [pc EXCEPT ![p] = "save"]
                        /\ next' = [next EXCEPT ![p] = k]

\* The exception handler of _run: FAILED and the last save, unless the copy
\* is terminal already; then transition() raises out of the handler.
Handle(p) == IF CanTransition(mem[p], "failed")
             THEN SaveThen(p, Transition(mem[p], "failed"), "exit")
             ELSE End(p)

Init == /\ disk = NoTask
        /\ gitBranch = FALSE
        /\ mem = [p \in Procs |-> NoTask]
        /\ pc = [p \in Procs |-> "idle"]
        /\ next = [p \in Procs |-> "finished"]
        /\ runs = 0
        /\ commands = 0
        /\ gates = [p \in Procs |-> {}]
        /\ earned = {}
        /\ stopAsked = {}
        /\ halted = {}

-----------------------------------------------------------------------------
(* TaskStore.save *)

\* A stop flag another process put in the file is adopted, except by a copy
\* that is CREATED.
AdoptStop(task) ==
  IF disk.status # "absent" /\ task.status # "created" /\ ~task.stop
  THEN [task EXCEPT !.stop = disk.stop]
  ELSE task

SaveRead(p) == /\ pc[p] = "save"
               /\ mem' = [mem EXCEPT ![p] = AdoptStop(@)]
               /\ Goto(p, "replace")
               /\ UNCHANGED <<disk, gitBranch, runs, commands, history>>

\* temporary.replace(path): the whole file becomes this process's copy.
SaveReplace(p) ==
  /\ pc[p] = "replace"
  /\ disk' = mem[p]
  /\ IF next[p] \in {"return", "exit", "stopped", "finished"}
     THEN End(p)
     ELSE Goto(p, next[p]) /\ UNCHANGED mem
  /\ stopAsked' = IF next[p] = "stopped" THEN stopAsked \cup {runs}
                                         ELSE stopAsked
  /\ halted' = IF mem[p].status = "cancelled" THEN halted \cup {mem[p].run}
                                              ELSE halted
  /\ UNCHANGED <<gitBranch, runs, commands, gates, earned>>

\* The write raises OSError: inside the try block of _run the handler takes
\* over, anywhere else the process ends with the exception.
SaveFails(p) ==
  /\ pc[p] \in {"save", "replace"}
  /\ IF next[p] \in InTry THEN Handle(p) ELSE End(p)
  /\ UNCHANGED <<disk, gitBranch, runs, commands, history>>

-----------------------------------------------------------------------------
(* AutonomousTaskService.start *)

Start(p) == /\ pc[p] = "idle"
            /\ disk = NoTask
            /\ runs < MaxRuns
            /\ runs' = runs + 1
            /\ SaveThen(p, Transition(NewTask(runs'), "interpreting"),
                        "interpret")
            /\ UNCHANGED <<disk, gitBranch, commands, history>>

\* HumanIntentEngine.normalize and what start() does with its answer.
Interpret(p) ==
  /\ pc[p] = "interpret"
  /\ \/ SaveThen(p, [Transition(mem[p], "needs_clarification")
                       EXCEPT !.intent = "unclear"], "finished")
     \/ SaveThen(p, [Transition(mem[p], "created")
                       EXCEPT !.intent = "clear"], "prepare")
  /\ UNCHANGED <<disk, gitBranch, runs, commands, history>>

\* GitWorkflow.prepare.  It refuses before naming the branch (not a
\* repository, dirty tree) or after it ("switch -c" fails, always when the
\* branch exists); then the task is BLOCKED.
PrepareThen(p, k) ==
  /\ \/ /\ ~gitBranch
        /\ gitBranch' = TRUE
        /\ SaveThen(p, [mem[p] EXCEPT !.branch = TRUE], k)
     \/ \E named \in BOOLEAN :
          /\ SaveThen(p, [Transition(mem[p], "blocked")
                            EXCEPT !.branch = named], "finished")
          /\ UNCHANGED gitBranch
  /\ UNCHANGED <<disk, runs, commands, history>>

Prepare(p) == pc[p] = "prepare" /\ PrepareThen(p, "started")

-----------------------------------------------------------------------------
(* AutonomousTaskService.execute and resume *)

\* Faulty variant of BranchUsable: the record is believed, git is not asked.
BranchRecorded(task) == task.branch

\* ensure_task_branch may also refuse for a dirty tree: see the callers.
BranchUsable(task) == task.branch /\ gitBranch

\* execute() loads the file again; a branch that cannot be reached blocks the
\* task, or raises when the file is terminal by now.
Execute(p) ==
  /\ pc[p] = "started"
  /\ \/ /\ BranchUsable(disk)
        /\ mem' = [mem EXCEPT ![p] = disk]
        /\ Goto(p, "enter")
     \/ IF CanTransition(disk, "blocked")
        THEN SaveThen(p, Transition(disk, "blocked"), "finished")
        ELSE End(p)
  /\ UNCHANGED <<disk, gitBranch, runs, commands, history>>

\* resume() of any task that does not wait for a clarification: the branch of
\* the record loaded here is checked, and nothing is saved before the loop.
Resume(p) ==
  /\ pc[p] = "idle"
  /\ disk.status \notin {"absent", "needs_clarification"}
  /\ BranchUsable(disk)
  /\ runs < MaxRuns
  /\ mem' = [mem EXCEPT ![p] = disk]
  /\ Goto(p, "reload")
  /\ UNCHANGED <<disk, gitBranch, runs, commands, history>>

\* AgentLoop.resume: the file is loaded a second time and it is this record
\* that runs, whatever another process has made of it; COMPLETED raises.
Reload(p) ==
  /\ pc[p] = "reload"
  /\ IF CanBeginNewRun(disk)
     THEN /\ runs' = runs + 1
          /\ mem' = [mem EXCEPT ![p] = BeginNewRun(disk, runs')]
          /\ Goto(p, "enter")
     ELSE End(p) /\ UNCHANGED runs
  /\ UNCHANGED <<disk, gitBranch, commands, history>>

\* resume() with the answer to a clarification: still unclear, or a new run
\* whose branch is created first when the task has none.
Clarify(p) ==
  /\ pc[p] = "idle"
  /\ disk.status = "needs_clarification"
  /\ \/ /\ SaveThen(p, disk, "finished")
        /\ UNCHANGED runs
     \/ /\ runs < MaxRuns
        /\ runs' = runs + 1
        /\ mem' = [mem EXCEPT ![p] = [BeginNewRun(disk, runs')
                                        EXCEPT !.intent = "clear"]]
        /\ Goto(p, IF disk.branch THEN "ensure" ELSE "reprepare")
  /\ UNCHANGED <<disk, gitBranch, commands, history>>

PrepareClarified(p) == pc[p] = "reprepare" /\ PrepareThen(p, "ensure")

EnsureClarified(p) ==
  /\ pc[p] = "ensure"
  /\ \/ BranchUsable(mem[p]) /\ SaveThen(p, mem[p], "enter")
     \/ End(p)
  /\ UNCHANGED <<disk, gitBranch, runs, commands, history>>

-----------------------------------------------------------------------------
(* AgentLoop._run *)

\* A record whose request was not understood yet is interpreted first.  Then
\* discovery, and PLANNING when there is no plan yet, else RUNNING.  On a
\* terminal copy the transition raises and the handler takes over.
EnterLoop(p) ==
  /\ pc[p] = "enter"
  /\ LET status == IF mem[p].intent = "none" THEN "interpreting"
                   ELSE IF mem[p].planned THEN "running" ELSE "planning"
         label == [interpreting |-> "normalize", running |-> "check",
                   planning |-> "plan"]
     IN  IF CanTransition(mem[p], status)
         THEN SaveThen(p, Transition(mem[p], status), label[status])
         ELSE Handle(p)
  /\ UNCHANGED <<disk, gitBranch, runs, commands, history>>

Normalize(p) ==
  /\ pc[p] = "normalize"
  /\ \/ SaveThen(p, [Transition(mem[p], "needs_clarification")
                       EXCEPT !.intent = "unclear"], "return")
     \/ /\ mem' = [mem EXCEPT ![p].intent = "clear"]
        /\ Goto(p, "enter")
  /\ UNCHANGED <<disk, gitBranch, runs, commands, history>>

CreatePlan(p) ==
  /\ pc[p] = "plan"
  /\ SaveThen(p, [Transition(mem[p], "running") EXCEPT !.planned = TRUE],
              "check")
  /\ UNCHANGED <<disk, gitBranch, runs, commands, history>>

LimitReached(p) ==
  /\ pc[p] = "check"
  /\ mem[p].iteration >= MaxIterations
  /\ SaveThen(p, Transition(mem[p], "failed"), "exit")
  /\ UNCHANGED <<disk, gitBranch, runs, commands, history>>

\* should_stop() reads the flag in the file, not the one in the copy.
HonourStop(p) ==
  /\ pc[p] = "check"
  /\ mem[p].iteration < MaxIterations
  /\ disk.stop
  /\ SaveThen(p, Transition(mem[p], "cancelled"), "return")
  /\ UNCHANGED <<disk, gitBranch, runs, commands, history>>

\* Faulty variants of Iterate: the iteration is not counted; the bound is off
\* by one.
IterateUncounted(p) ==
  /\ pc[p] = "check" /\ mem[p].iteration < MaxIterations /\ ~disk.stop
  /\ Goto(p, "chat")
  /\ gates' = [gates EXCEPT ![p] = {}]
  /\ UNCHANGED <<disk, gitBranch, mem, runs, commands, earned, stopAsked,
                 halted>>

IterateOnceMore(p) ==
  /\ pc[p] = "check" /\ mem[p].iteration <= MaxIterations /\ ~disk.stop
  /\ mem' = [mem EXCEPT ![p].iteration = @ + 1]
  /\ Goto(p, "chat")
  /\ gates' = [gates EXCEPT ![p] = {}]
  /\ UNCHANGED <<disk, gitBranch, runs, commands, earned, stopAsked, halted>>

Iterate(p) ==
  /\ pc[p] = "check"
  /\ mem[p].iteration < MaxIterations
  /\ ~disk.stop
  /\ mem' = [mem EXCEPT ![p].iteration = @ + 1]
  /\ Goto(p, "chat")
  /\ gates' = [gates EXCEPT ![p] = {}]
  /\ UNCHANGED <<disk, gitBranch, runs, commands, earned, stopAsked, halted>>

\* A tool call the executor settled (done, failed or denied), or one that
\* waits for an approval.
ToolCall(p) ==
  /\ pc[p] = "chat"
  /\ \/ SaveThen(p, [mem[p] EXCEPT !.acted = TRUE], "check")
     \/ SaveThen(p, [Transition(mem[p], "needs_approval")
                       EXCEPT !.acted = TRUE, !.pending = TRUE], "return")
  /\ UNCHANGED <<disk, gitBranch, runs, commands, history>>

\* A final answer is rejected until some tool has been used.
Final(p) ==
  /\ pc[p] = "chat"
  /\ IF mem[p].acted
     THEN /\ mem' = [mem EXCEPT ![p] = Transition(@, "verifying")]
          /\ Goto(p, "verify")
     ELSE SaveThen(p, mem[p], "check")
  /\ UNCHANGED <<disk, gitBranch, runs, commands, history>>

\* Back to RUNNING with a revised plan.
Repair(p) == SaveThen(p, Transition(mem[p], "running"), "check")

Pass(p, gate, label) == /\ gates' = [gates EXCEPT ![p] = @ \cup {gate}]
                        /\ Goto(p, label)

\* Verification passed, failed, or found no command to run.
Verify(p) ==
  /\ pc[p] = "verify"
  /\ \/ Pass(p, "verified", "browser") /\ UNCHANGED mem
     \/ Repair(p) /\ UNCHANGED gates
     \/ /\ SaveThen(p, Transition(mem[p], "blocked"), "return")
        /\ UNCHANGED gates
  /\ UNCHANGED <<disk, gitBranch, runs, commands, earned, stopAsked, halted>>

\* Faulty variant of BrowserCheck: a failed check goes on to the review.
BrowserCheckIgnored(p) ==
  /\ pc[p] = "browser"
  /\ \/ Pass(p, "browser", "review")
     \/ Goto(p, "review") /\ UNCHANGED gates
  /\ mem' = [mem EXCEPT ![p] = Transition(@, "reviewing")]
  /\ UNCHANGED <<disk, gitBranch, runs, commands, earned, stopAsked, halted>>

\* Passed, skipped or not applicable; or failed.
BrowserCheck(p) ==
  /\ pc[p] = "browser"
  /\ \/ /\ Pass(p, "browser", "review")
        /\ mem' = [mem EXCEPT ![p] = Transition(@, "reviewing")]
     \/ Repair(p) /\ UNCHANGED gates
  /\ UNCHANGED <<disk, gitBranch, runs, commands, earned, stopAsked, halted>>

Review(p) ==
  /\ pc[p] = "review"
  /\ \/ Pass(p, "reviewed", "checkpoint") /\ UNCHANGED mem
     \/ Repair(p) /\ UNCHANGED gates
  /\ UNCHANGED <<disk, gitBranch, runs, commands, earned, stopAsked, halted>>

\* The completion hook, GitWorkflow.checkpoint, refuses a task without its
\* branch and may fail in any of its git processes.
Checkpoint(p) ==
  /\ pc[p] = "checkpoint"
  /\ \/ /\ BranchUsable(mem[p])
        /\ SaveThen(p, Transition(mem[p], "completed"), "return")
        /\ earned' = IF gates[p] = AllGates THEN earned \cup {mem[p].run}
                                            ELSE earned
     \/ /\ SaveThen(p, Transition(mem[p], "blocked"), "return")
        /\ UNCHANGED earned
  /\ UNCHANGED <<disk, gitBranch, runs, commands, gates, stopAsked, halted>>

LoopRaises(p) == /\ pc[p] \in Raising
                 /\ Handle(p)
                 /\ UNCHANGED <<disk, gitBranch, runs, commands, history>>

-----------------------------------------------------------------------------
(* Commands of other processes, and crashes *)

\* TaskStore.request_stop: the whole record just loaded is saved again.
RequestStop(c) ==
  /\ "stop" \in Commands
  /\ pc[c] = "idle"
  /\ commands < MaxCommands
  /\ disk.status # "absent"
  /\ ~IsTerminal(disk)
  /\ SaveThen(c, [disk EXCEPT !.stop = TRUE], "stopped")
  /\ commands' = commands + 1
  /\ UNCHANGED <<disk, gitBranch, runs, history>>

\* AutonomousTaskService.rollback, once git reset the branch.
Rollback(c) ==
  /\ "rollback" \in Commands
  /\ pc[c] = "idle"
  /\ commands < MaxCommands
  /\ BranchUsable(disk)
  /\ SaveThen(c, [disk EXCEPT !.rolledBack = TRUE], "finished")
  /\ commands' = commands + 1
  /\ UNCHANGED <<disk, gitBranch, runs, history>>

\* The process is killed; a half-written temporary file changes nothing.
Crash(p) == /\ pc[p] # "idle"
            /\ End(p)
            /\ UNCHANGED <<disk, gitBranch, runs, commands, history>>

-----------------------------------------------------------------------------

\* What a process does on its own once it has been started.
Step(p) == \/ SaveRead(p) \/ SaveReplace(p) \/ SaveFails(p)
           \/ Interpret(p) \/ Prepare(p) \/ Execute(p)
           \/ PrepareClarified(p) \/ EnsureClarified(p)
           \/ Reload(p) \/ EnterLoop(p) \/ Normalize(p) \/ CreatePlan(p)
           \/ LimitReached(p) \/ HonourStop(p) \/ Iterate(p)
           \/ ToolCall(p) \/ Final(p) \/ Verify(p) \/ BrowserCheck(p)
           \/ Review(p) \/ Checkpoint(p) \/ LoopRaises(p)

Next == \/ \E p \in Procs : Step(p) \/ Crash(p)
        \/ \E p \in Runners : Start(p) \/ Resume(p) \/ Clarify(p)
        \/ \E c \in Clients : RequestStop(c) \/ Rollback(c)

Spec == Init /\ [][Next]_vars

\* A process that is not killed keeps running, but for the calls that may
\* never return.
FairSpec ==
  Spec /\ \A p \in Procs : WF_vars(pc[p] \notin Unbounded /\ Step(p))

-----------------------------------------------------------------------------
(* Properties *)

TypeOK == /\ disk \in Task
          /\ gitBranch \in BOOLEAN
          /\ mem \in [Procs -> Task]
          /\ pc \in [Procs -> Labels]
          /\ next \in [Procs -> InTry \cup OutOfTry]
          /\ runs \in Nat
          /\ commands \in Nat
          /\ gates \in [Procs -> SUBSET AllGates]
          /\ earned \subseteq Nat
          /\ stopAsked \subseteq Nat
          /\ halted \subseteq Nat
          /\ disk.iteration <= MaxIterations
          /\ \A p \in Procs : mem[p].iteration <= MaxIterations

\* "Only reports success after at least one real command succeeds": whoever
\* wrote the file last, stale or not, a COMPLETED in it (or in any copy) is
\* of a run that used a tool and, after the model's last answer, passed
\* verification, browser check and review and was then checkpointed on the
\* task's branch.
Earned(task) ==
  task.status = "completed" => task.run \in earned /\ task.acted /\ task.branch

CompletedIsEarned == Earned(disk) /\ \A p \in Procs : Earned(mem[p])

\* An approval is on file exactly while the task waits for it; only a run
\* whose save of that state failed keeps the request, as a FAILED one.
ApprovalMatchesStatus ==
  /\ disk.status = "needs_approval" => disk.pending
  /\ disk.pending => disk.status \in {"needs_approval", "failed"}

\* A process that has the task for itself only ever persists one in the loop
\* whose request was understood and whose dedicated branch exists, so that it
\* can be resumed and rolled back wherever the last one was killed.
LoopOwnsBranch ==
  disk.status \in {"planning", "running", "needs_approval", "completed",
                   "failed", "cancelled"}
    => disk.branch /\ gitBranch /\ disk.intent = "clear"

\* Every command, start, resume or run comes to an end, whatever the model,
\* the tools and the checks answer (retries are bounded by max_iterations),
\* unless it stays for ever in one of the calls without a deadline.
EveryProcessEnds ==
  \A p \in Procs : \/ []<>(pc[p] = "idle")
                   \/ \E point \in Unbounded : <>[](pc[p] = point)

Lifecycle == INSTANCE TaskLifecycle WITH status <- disk.status,
                                         run <- disk.run

\* As long as nobody writes the file but the process that runs the task, the
\* file tells a lifecycle, through crashes, failed saves, resumptions and the
\* commands that process is given in between.
FileTellsLifecycle == Lifecycle!Spec

\* Claims of the documentation that the code does not keep.

\* A stopped task can be resumed ("Task stopped cleanly. State is persisted
\* and can be resumed.", loop.py:198): one stop request cancels one run.
StoppedTaskCanBeResumed == Cardinality(halted) <= Cardinality(stopAsked)

=============================================================================
