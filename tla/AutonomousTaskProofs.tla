------------------------ MODULE AutonomousTaskProofs ------------------------
(***************************************************************************)
(* Proofs about AutonomousTask, for any number of runners and clients and  *)
(* any bounds: type correctness and that a COMPLETED record was earned;    *)
(* for one runner, that an approval is on file exactly while the task      *)
(* waits for it; and for one process that has the task for itself that the *)
(* loop owns its branch and that the file tells a TaskLifecycle.           *)
(***************************************************************************)
EXTENDS AutonomousTask, TLAPS

-----------------------------------------------------------------------------
(* Type correctness *)

\* The part of TypeOK that speaks of what each process holds.
LocalOK == /\ mem \in [Procs -> Task]
           /\ pc \in [Procs -> Labels]
           /\ next \in [Procs -> InTry \cup OutOfTry]
           /\ \A p \in Procs : mem[p].iteration <= MaxIterations

\* A record whose iteration respects the limit.
Sound(task) == task \in Task /\ task.iteration <= MaxIterations

\* The operations of TaskState and the adoption of a stop flag yield records
\* within the limit.
LEMMA RecordsSound ==
  ASSUME NEW task, Sound(task), NEW s \in Statuses, NEW r \in Nat
  PROVE  /\ Sound(Transition(task, s))
         /\ Sound(BeginNewRun(task, r))
         /\ Sound(NewTask(r))
         /\ Sound(NoTask)
<1>0. task \in Task /\ 0 <= MaxIterations
  BY BoundsAssumption DEF Sound
<1>1. Sound(Transition(task, s))
  BY DEF Sound, Task, Transition
<1>2. /\ BeginNewRun(task, r) \in Task
      /\ BeginNewRun(task, r).iteration = 0
  BY <1>0 DEF Task, BeginNewRun, Statuses
<1>3. NoTask \in Task /\ NoTask.iteration = 0
  BY DEF Task, NoTask
<1>4. NewTask(r) \in Task /\ NewTask(r).iteration = 0
  BY DEF Task, NoTask, NewTask, Statuses
<1> QED
  BY <1>0, <1>1, <1>2, <1>3, <1>4 DEF Sound

\* What transition() and begin_new_run() set and keep.
LEMMA TransitionKeeps ==
  ASSUME NEW task \in Task, NEW s \in Statuses
  PROVE  /\ Transition(task, s) \in Task
         /\ Transition(task, s).status = s
         /\ Transition(task, s).run = task.run
         /\ Transition(task, s).acted = task.acted
         /\ Transition(task, s).pending = task.pending
         /\ Transition(task, s).branch = task.branch
         /\ Transition(task, s).intent = task.intent
<1>1. Transition(task, s) \in Task
  BY DEF Transition, Task
<1> QED
  BY <1>1 DEF Transition, Task

LEMMA NewRunKeeps ==
  ASSUME NEW task \in Task, NEW n \in Nat
  PROVE  /\ BeginNewRun(task, n) \in Task
         /\ BeginNewRun(task, n).status = "created"
         /\ BeginNewRun(task, n).run = n
         /\ BeginNewRun(task, n).pending = FALSE
         /\ BeginNewRun(task, n).branch = task.branch
         /\ BeginNewRun(task, n).intent = task.intent
<1>1. BeginNewRun(task, n) \in Task
  BY DEF BeginNewRun, Task, Statuses
<1> QED
  BY <1>1 DEF BeginNewRun, Task

LEMMA AdoptStopSound ==
  ASSUME NEW task, Sound(task), disk \in Task
  PROVE  Sound(AdoptStop(task))
  BY DEF Sound, AdoptStop, Task

\* Saving a sound record, going on and ending keep the local part typed.
LEMMA SaveThenLocal ==
  ASSUME LocalOK, NEW p \in Procs, NEW task, Sound(task),
         NEW k \in InTry \cup OutOfTry, SaveThen(p, task, k)
  PROVE  LocalOK'
  BY DEF LocalOK, Sound, SaveThen, Labels

LEMMA EndLocal ==
  ASSUME LocalOK, NEW p \in Procs, End(p)
  PROVE  LocalOK'
  BY BoundsAssumption DEF LocalOK, End, NoTask, Task, Labels, Statuses

LEMMA GotoLocal ==
  ASSUME LocalOK, NEW p \in Procs, NEW l \in Labels, Goto(p, l),
         NEW task, Sound(task),
         mem' = mem \/ mem' = [mem EXCEPT ![p] = task]
  PROVE  LocalOK'
  BY DEF LocalOK, Sound, Goto

LEMMA HandleLocal ==
  ASSUME LocalOK, NEW p \in Procs, Handle(p)
  PROVE  LocalOK'
<1>1. Sound(mem[p])
  BY DEF LocalOK, Sound
<1>2. Sound(Transition(mem[p], "failed"))
  BY <1>1, RecordsSound DEF Statuses
<1>3. "exit" \in InTry \cup OutOfTry
  BY DEF OutOfTry
<1> QED
  BY <1>2, <1>3, SaveThenLocal, EndLocal DEF Handle

-----------------------------------------------------------------------------

\* The rest of TypeOK.
SharedOK == /\ disk \in Task /\ disk.iteration <= MaxIterations
            /\ gitBranch \in BOOLEAN
            /\ runs \in Nat
            /\ commands \in Nat
            /\ gates \in [Procs -> SUBSET AllGates]
            /\ earned \subseteq Nat
            /\ stopAsked \subseteq Nat
            /\ halted \subseteq Nat

LEMMA TypeOKParts == TypeOK <=> LocalOK /\ SharedOK
  BY DEF TypeOK, LocalOK, SharedOK

\* What every process holds, and the file, is a record within the limit.
LEMMA HeldSound ==
  ASSUME TypeOK
  PROVE  Sound(disk) /\ \A p \in Procs : Sound(mem[p])
  BY DEF TypeOK, Sound

LEMMA TypeInit == Init => TypeOK
<1> SUFFICES ASSUME Init PROVE TypeOK
  OBVIOUS
<1>1. NoTask \in Task /\ NoTask.iteration <= MaxIterations
  BY BoundsAssumption DEF Task, NoTask
<1>2. "idle" \in Labels /\ "finished" \in InTry \cup OutOfTry
  BY DEF Labels, OutOfTry
<1>3. LocalOK
  BY <1>1, <1>2 DEF Init, LocalOK
<1>4. SharedOK
  BY <1>1 DEF Init, SharedOK
<1> QED
  BY <1>3, <1>4, TypeOKParts

\* PrepareThen as a step of TypeOK, for each place it continues at.
LEMMA PrepareType ==
  ASSUME TypeOK, NEW p \in Procs, NEW k \in OutOfTry, PrepareThen(p, k)
  PROVE  TypeOK'
<1>1. LocalOK /\ SharedOK /\ Sound(mem[p])
  BY TypeOKParts, HeldSound
<1>2. Sound([mem[p] EXCEPT !.branch = TRUE])
  BY <1>1 DEF Sound, Task
<1>3. \A n \in BOOLEAN :
        Sound([Transition(mem[p], "blocked") EXCEPT !.branch = n])
  <2>1. Sound(Transition(mem[p], "blocked"))
    BY <1>1, RecordsSound DEF Statuses
  <2> QED
    BY <2>1 DEF Sound, Task
<1>4. "finished" \in InTry \cup OutOfTry
  BY DEF OutOfTry
<1>5. LocalOK'
  <2>1. CASE SaveThen(p, [mem[p] EXCEPT !.branch = TRUE], k)
    BY <2>1, <1>1, <1>2, SaveThenLocal
  <2>2. CASE \E n \in BOOLEAN :
               SaveThen(p, [Transition(mem[p], "blocked")
                              EXCEPT !.branch = n], "finished")
    <3>1. PICK n \in BOOLEAN :
            SaveThen(p, [Transition(mem[p], "blocked")
                           EXCEPT !.branch = n], "finished")
      BY <2>2
    <3> QED
      BY <3>1, <1>1, <1>3, <1>4, SaveThenLocal
  <2> QED
    BY <2>1, <2>2 DEF PrepareThen
<1>6. SharedOK'
  BY <1>1 DEF SharedOK, PrepareThen, history
<1> QED
  BY <1>5, <1>6, TypeOKParts DEF TypeOK, LocalOK, SharedOK

-----------------------------------------------------------------------------

\* Where _run goes from its first lines.
LEMMA EntersBy ==
  ASSUME NEW p \in Procs, EnterLoop(p)
  PROVE  \/ /\ mem[p].intent = "none"
            /\ CanTransition(mem[p], "interpreting")
            /\ SaveThen(p, Transition(mem[p], "interpreting"), "normalize")
         \/ /\ mem[p].intent # "none"
            /\ CanTransition(mem[p], "running")
            /\ SaveThen(p, Transition(mem[p], "running"), "check")
         \/ /\ mem[p].intent # "none"
            /\ CanTransition(mem[p], "planning")
            /\ SaveThen(p, Transition(mem[p], "planning"), "plan")
         \/ Handle(p)
<1>1. CASE mem[p].intent = "none"
  BY <1>1 DEF EnterLoop
<1>2. CASE mem[p].intent # "none" /\ mem[p].planned
  BY <1>2 DEF EnterLoop
<1>3. CASE mem[p].intent # "none" /\ ~mem[p].planned
  BY <1>3 DEF EnterLoop
<1> QED
  BY <1>1, <1>2, <1>3

\* The steps a process takes in AgentLoop._run, one by one.
LEMMA LoopType ==
  ASSUME TypeOK, NEW p \in Procs,
         \/ EnterLoop(p) \/ Normalize(p) \/ CreatePlan(p)
         \/ LimitReached(p) \/ HonourStop(p) \/ Iterate(p)
         \/ ToolCall(p) \/ Final(p) \/ Verify(p) \/ BrowserCheck(p)
         \/ Review(p) \/ Checkpoint(p) \/ LoopRaises(p)
  PROVE  TypeOK'
<1>1. LocalOK /\ SharedOK /\ Sound(mem[p]) /\ Sound(disk)
  BY TypeOKParts, HeldSound
<1>2. \A s \in Statuses : Sound(Transition(mem[p], s))
  BY <1>1, RecordsSound
<1>3. {"normalize", "plan", "check", "return", "exit"}
        \subseteq InTry \cup OutOfTry
  BY DEF InTry, OutOfTry
<1>4. /\ LocalOK' /\ SharedOK' => TypeOK'
      /\ mem[p].run \in Nat
  BY <1>1 DEF TypeOK, LocalOK, SharedOK, Sound, Task
<1>5. ASSUME NEW s \in Statuses,
             NEW k \in {"normalize", "plan", "check", "return", "exit"},
             SaveThen(p, Transition(mem[p], s), k)
      PROVE  LocalOK'
  BY <1>5, <1>1, <1>2, <1>3, SaveThenLocal
<1>6. ASSUME NEW l \in Labels, Goto(p, l), UNCHANGED mem
      PROVE  LocalOK'
  BY <1>6, <1>1, GotoLocal
<1>7. ASSUME UNCHANGED <<disk, gitBranch, runs, commands, history>>
      PROVE  SharedOK'
  BY <1>7, <1>1 DEF SharedOK, history
<1>8. ASSUME UNCHANGED <<disk, gitBranch, runs, commands, earned, stopAsked,
                         halted>>,
             NEW g \in AllGates,
             gates' \in {gates, [gates EXCEPT ![p] = @ \cup {g}],
                         [gates EXCEPT ![p] = {}]}
      PROVE  SharedOK'
  BY <1>8, <1>1 DEF SharedOK
<1>a. CASE EnterLoop(p)
  <2>1. \/ SaveThen(p, Transition(mem[p], "interpreting"), "normalize")
        \/ SaveThen(p, Transition(mem[p], "running"), "check")
        \/ SaveThen(p, Transition(mem[p], "planning"), "plan")
        \/ Handle(p)
    BY <1>a, EntersBy
  <2> QED
    BY <1>a, <2>1, <1>1, <1>4, <1>5, <1>7, HandleLocal DEF EnterLoop, Statuses
<1>m. CASE Normalize(p)
  <2>1. /\ Sound([Transition(mem[p], "needs_clarification")
                    EXCEPT !.intent = "unclear"])
        /\ Sound([mem[p] EXCEPT !.intent = "clear"])
    <3>1. Sound(Transition(mem[p], "needs_clarification"))
      BY <1>2 DEF Statuses
    <3> QED
      BY <3>1, <1>1 DEF Sound, Task
  <2>2. CASE SaveThen(p, [Transition(mem[p], "needs_clarification")
                            EXCEPT !.intent = "unclear"], "return")
    BY <1>m, <2>1, <2>2, <1>1, <1>3, <1>4, <1>7, SaveThenLocal DEF Normalize
  <2>3. CASE /\ mem' = [mem EXCEPT ![p].intent = "clear"]
             /\ Goto(p, "enter")
    <3>1. mem' = [mem EXCEPT ![p] = [mem[p] EXCEPT !.intent = "clear"]]
      BY <2>3, <1>1 DEF LocalOK
    <3>2. LocalOK'
      BY <2>1, <2>3, <3>1, <1>1, GotoLocal DEF Labels
    <3> QED
      BY <1>m, <3>2, <1>4, <1>7 DEF Normalize
  <2> QED
    BY <1>m, <2>2, <2>3 DEF Normalize
<1>b. CASE CreatePlan(p)
  <2>1. Sound([Transition(mem[p], "running") EXCEPT !.planned = TRUE])
    <3>1. Sound(Transition(mem[p], "running"))
      BY <1>2 DEF Statuses
    <3> QED
      BY <3>1 DEF Sound, Task
  <2> QED
    BY <1>b, <2>1, <1>1, <1>3, <1>4, <1>7, SaveThenLocal DEF CreatePlan
<1>c. CASE LimitReached(p)
  BY <1>c, <1>4, <1>5, <1>7 DEF LimitReached, Statuses
<1>d. CASE HonourStop(p)
  BY <1>d, <1>4, <1>5, <1>7 DEF HonourStop, Statuses
<1>e. CASE Iterate(p)
  <2>1. Sound([mem[p] EXCEPT !.iteration = @ + 1])
    BY <1>e, <1>1, BoundsAssumption DEF Iterate, Sound, Task
  <2>2. mem' = [mem EXCEPT ![p] = [mem[p] EXCEPT !.iteration = @ + 1]]
    BY <1>e, <1>1 DEF Iterate, LocalOK
  <2>3. LocalOK'
    BY <1>e, <2>1, <2>2, <1>1, GotoLocal DEF Iterate, Labels
  <2>4. SharedOK'
    BY <1>e, <1>1 DEF Iterate, SharedOK
  <2> QED
    BY <2>3, <2>4, <1>4
<1>f. CASE ToolCall(p)
  <2>1. /\ Sound([mem[p] EXCEPT !.acted = TRUE])
        /\ Sound([Transition(mem[p], "needs_approval")
                    EXCEPT !.acted = TRUE, !.pending = TRUE])
    <3>1. Sound(Transition(mem[p], "needs_approval"))
      BY <1>2 DEF Statuses
    <3> QED
      BY <3>1, <1>1 DEF Sound, Task
  <2> QED
    BY <1>f, <2>1, <1>1, <1>3, <1>4, <1>7, SaveThenLocal DEF ToolCall
<1>g. CASE Final(p)
  <2>1. CASE mem[p].acted
    <3>1. Sound(Transition(mem[p], "verifying")) /\ "verify" \in Labels
      BY <1>2 DEF Statuses, Labels
    <3>2. LocalOK'
      BY <1>g, <2>1, <3>1, <1>1, GotoLocal DEF Final
    <3> QED
      BY <1>g, <3>2, <1>4, <1>7 DEF Final
  <2>2. CASE ~mem[p].acted
    BY <1>g, <2>2, <1>1, <1>3, <1>4, <1>7, SaveThenLocal DEF Final
  <2> QED
    BY <2>1, <2>2
<1>h. CASE Verify(p)
  BY <1>h, <1>1, <1>4, <1>5, <1>6, <1>8
     DEF Verify, Pass, Repair, Statuses, Labels, AllGates
<1>i. CASE BrowserCheck(p)
  <2>1. Sound(Transition(mem[p], "reviewing")) /\ "review" \in Labels
    BY <1>2 DEF Statuses, Labels
  <2>2. LocalOK'
    BY <1>i, <2>1, <1>1, <1>5, GotoLocal
       DEF BrowserCheck, Pass, Repair, Statuses
  <2> QED
    BY <1>i, <2>2, <1>4, <1>8 DEF BrowserCheck, Pass, AllGates
<1>j. CASE Review(p)
  BY <1>j, <1>1, <1>4, <1>5, <1>6, <1>8
     DEF Review, Pass, Repair, Statuses, Labels, AllGates
<1>k. CASE Checkpoint(p)
  <2>1. LocalOK'
    BY <1>k, <1>5 DEF Checkpoint, Statuses
  <2>2. SharedOK'
    BY <1>k, <1>1, <1>4 DEF Checkpoint, SharedOK
  <2> QED
    BY <2>1, <2>2, <1>4
<1>l. CASE LoopRaises(p)
  BY <1>l, <1>1, <1>4, <1>7, HandleLocal DEF LoopRaises
<1> QED
  BY <1>a, <1>b, <1>c, <1>d, <1>e, <1>f, <1>g, <1>h, <1>i, <1>j, <1>k, <1>l,
     <1>m

-----------------------------------------------------------------------------

\* The other steps of a process: saves and the operations of the service.
LEMMA ServiceType ==
  ASSUME TypeOK, NEW p \in Procs,
         \/ SaveRead(p) \/ SaveReplace(p) \/ SaveFails(p) \/ Interpret(p)
         \/ Prepare(p) \/ Execute(p) \/ PrepareClarified(p)
         \/ EnsureClarified(p) \/ Crash(p)
  PROVE  TypeOK'
<1>1. LocalOK /\ SharedOK /\ Sound(mem[p]) /\ Sound(disk)
  BY TypeOKParts, HeldSound
<1>2. LocalOK' /\ SharedOK' => TypeOK'
  BY DEF TypeOK, LocalOK, SharedOK
<1>3. ASSUME UNCHANGED <<disk, gitBranch, runs, commands, history>>
      PROVE  SharedOK'
  BY <1>3, <1>1 DEF SharedOK, history
<1>4. next[p] \in InTry \cup OutOfTry /\ mem[p] \in Task
  BY <1>1 DEF LocalOK, Sound
<1>a. CASE SaveRead(p)
  <2>1. Sound(AdoptStop(mem[p])) /\ "replace" \in Labels
    BY <1>1, AdoptStopSound DEF Sound, Labels
  <2>2. LocalOK'
    BY <1>a, <2>1, <1>1, GotoLocal DEF SaveRead
  <2> QED
    BY <1>a, <2>2, <1>2, <1>3 DEF SaveRead
<1>b. CASE SaveReplace(p)
  <2>1. LocalOK'
    <3>1. CASE next[p] \in {"return", "exit", "stopped", "finished"}
      BY <1>b, <3>1, <1>1, EndLocal DEF SaveReplace
    <3>2. CASE next[p] \notin {"return", "exit", "stopped", "finished"}
      <4>1. next[p] \in Labels
        BY <3>2, <1>4 DEF InTry, OutOfTry, Labels
      <4> QED
        BY <1>b, <3>2, <4>1, <1>1, GotoLocal DEF SaveReplace
    <3> QED
      BY <3>1, <3>2
  <2>2. SharedOK'
    BY <1>b, <1>1, <1>4 DEF SaveReplace, SharedOK, Sound, Task
  <2> QED
    BY <2>1, <2>2, <1>2
<1>c. CASE SaveFails(p)
  BY <1>c, <1>1, <1>2, <1>3, HandleLocal, EndLocal DEF SaveFails
<1>d. CASE Interpret(p)
  <2>1. /\ Sound([Transition(mem[p], "needs_clarification")
                    EXCEPT !.intent = "unclear"])
        /\ Sound([Transition(mem[p], "created") EXCEPT !.intent = "clear"])
    <3>1. /\ Sound(Transition(mem[p], "needs_clarification"))
          /\ Sound(Transition(mem[p], "created"))
      BY <1>1, RecordsSound DEF Statuses
    <3> QED
      BY <3>1 DEF Sound, Task
  <2>2. "finished" \in InTry \cup OutOfTry /\ "prepare" \in InTry \cup OutOfTry
    BY DEF OutOfTry
  <2> QED
    BY <1>d, <2>1, <2>2, <1>1, <1>2, <1>3, SaveThenLocal DEF Interpret
<1>e. CASE Prepare(p)
  BY <1>e, PrepareType DEF Prepare, OutOfTry
<1>f. CASE Execute(p)
  <2>1. Sound(Transition(disk, "blocked"))
    BY <1>1, RecordsSound DEF Statuses
  <2>2. "finished" \in InTry \cup OutOfTry /\ "enter" \in Labels
    BY DEF OutOfTry, Labels
  <2>3. LocalOK'
    BY <1>f, <2>1, <2>2, <1>1, SaveThenLocal, EndLocal, GotoLocal DEF Execute
  <2> QED
    BY <1>f, <2>3, <1>2, <1>3 DEF Execute
<1>g. CASE PrepareClarified(p)
  BY <1>g, PrepareType DEF PrepareClarified, OutOfTry
<1>h. CASE EnsureClarified(p)
  <2>1. "enter" \in InTry \cup OutOfTry
    BY DEF OutOfTry
  <2> QED
    BY <1>h, <2>1, <1>1, <1>2, <1>3, SaveThenLocal, EndLocal
       DEF EnsureClarified
<1>i. CASE Crash(p)
  BY <1>i, <1>1, <1>2, <1>3, EndLocal DEF Crash
<1> QED
  BY <1>a, <1>b, <1>c, <1>d, <1>e, <1>f, <1>g, <1>h, <1>i

\* The commands that put an idle process to work.
LEMMA CommandType ==
  ASSUME TypeOK, NEW p \in Procs,
         \/ Start(p) \/ Resume(p) \/ Reload(p) \/ Clarify(p)
         \/ RequestStop(p) \/ Rollback(p)
  PROVE  TypeOK'
<1>1. LocalOK /\ SharedOK /\ Sound(mem[p]) /\ Sound(disk)
  BY TypeOKParts, HeldSound
<1>2. LocalOK' /\ SharedOK' => TypeOK'
  BY DEF TypeOK, LocalOK, SharedOK
<1>3. runs + 1 \in Nat /\ commands + 1 \in Nat
  BY <1>1 DEF SharedOK
<1>4. {"interpret", "finished", "stopped"} \subseteq InTry \cup OutOfTry
  BY DEF OutOfTry
<1>5. {"enter", "ensure", "reprepare", "reload"} \subseteq Labels
  BY DEF Labels
<1>6. SharedOK'
  BY <1>1, <1>3
     DEF SharedOK, history, Start, Resume, Reload, Clarify, RequestStop,
         Rollback
<1>a. CASE Start(p)
  <2>1. Sound(Transition(NewTask(runs + 1), "interpreting"))
    <3>1. Sound(NewTask(runs + 1))
      BY <1>1, <1>3, RecordsSound DEF Statuses
    <3> QED
      BY <3>1, <1>3, RecordsSound DEF Statuses
  <2>2. SaveThen(p, Transition(NewTask(runs + 1), "interpreting"), "interpret")
    BY <1>a DEF Start
  <2> QED
    BY <2>1, <2>2, <1>1, <1>2, <1>4, <1>6, SaveThenLocal
<1>b. CASE Resume(p)
  BY <1>b, <1>1, <1>2, <1>5, <1>6, GotoLocal DEF Resume
<1>f. CASE Reload(p)
  <2>1. Sound(BeginNewRun(disk, runs + 1))
    BY <1>1, <1>3, RecordsSound DEF Statuses
  <2>2. \/ /\ mem' = [mem EXCEPT ![p] = BeginNewRun(disk, runs + 1)]
           /\ Goto(p, "enter")
        \/ End(p)
    BY <1>f DEF Reload
  <2> QED
    BY <2>1, <2>2, <1>1, <1>2, <1>5, <1>6, GotoLocal, EndLocal
<1>c. CASE Clarify(p)
  <2>1. CASE SaveThen(p, disk, "finished")
    BY <2>1, <1>1, <1>2, <1>4, <1>6, SaveThenLocal
  <2>2. CASE /\ mem' = [mem EXCEPT ![p] = [BeginNewRun(disk, runs + 1)
                                             EXCEPT !.intent = "clear"]]
             /\ Goto(p, IF disk.branch THEN "ensure" ELSE "reprepare")
    <3>1. Sound([BeginNewRun(disk, runs + 1) EXCEPT !.intent = "clear"])
      <4>1. Sound(BeginNewRun(disk, runs + 1))
        BY <1>1, <1>3, RecordsSound DEF Statuses
      <4> QED
        BY <4>1 DEF Sound, Task
    <3> QED
      BY <2>2, <3>1, <1>1, <1>2, <1>5, <1>6, GotoLocal
  <2> QED
    BY <1>c, <2>1, <2>2 DEF Clarify
<1>d. CASE RequestStop(p)
  <2>1. Sound([disk EXCEPT !.stop = TRUE])
    BY <1>1 DEF Sound, Task
  <2> QED
    BY <1>d, <2>1, <1>1, <1>2, <1>4, <1>6, SaveThenLocal DEF RequestStop
<1>e. CASE Rollback(p)
  <2>1. Sound([disk EXCEPT !.rolledBack = TRUE])
    BY <1>1 DEF Sound, Task
  <2> QED
    BY <1>e, <2>1, <1>1, <1>2, <1>4, <1>6, SaveThenLocal DEF Rollback
<1> QED
  BY <1>a, <1>b, <1>c, <1>d, <1>e, <1>f

LEMMA TypeStep == TypeOK /\ [Next]_vars => TypeOK'
<1> SUFFICES ASSUME TypeOK, [Next]_vars PROVE TypeOK'
  OBVIOUS
<1>1. ASSUME NEW p \in Procs, Step(p) \/ Crash(p) PROVE TypeOK'
  BY <1>1, LoopType, ServiceType, CommandType DEF Step
<1>2. ASSUME NEW p \in Runners, Start(p) \/ Resume(p) \/ Clarify(p)
      PROVE  TypeOK'
  BY <1>2, CommandType DEF Procs
<1>3. ASSUME NEW p \in Clients, RequestStop(p) \/ Rollback(p)
      PROVE  TypeOK'
  BY <1>3, CommandType DEF Procs
<1>4. CASE UNCHANGED vars
  BY <1>4 DEF vars, TypeOK
<1> QED
  BY <1>1, <1>2, <1>3, <1>4 DEF Next

\* Every variable keeps its type, and no record counts more iterations than
\* max_iterations, whatever processes run, stop, resume or crash.
THEOREM TypeCorrect == Spec => []TypeOK
  BY TypeInit, TypeStep, PTL DEF Spec

-----------------------------------------------------------------------------
(* A COMPLETED record was earned *)

\* The checks a process has behind it at a label, with copy task and gates g.
InOrder(label, task, g) ==
  /\ label \in {"verify", "browser", "review", "checkpoint"} => task.acted
  /\ label \in {"browser", "review", "checkpoint"} => "verified" \in g
  /\ label \in {"review", "checkpoint"} => "browser" \in g
  /\ label = "checkpoint" => "reviewed" \in g

\* CompletedIsEarned alone is not inductive: that a checkpoint finds every
\* gate passed depends on the order in which a process went through them.
EarnedInv == /\ TypeOK
             /\ CompletedIsEarned
             /\ \A p \in Procs : InOrder(pc[p], mem[p], gates[p])

\* A step of p that leaves the file alone, and after which p's copy is earned
\* and its checks are in order.
LEMMA MoveEarned ==
  ASSUME EarnedInv, TypeOK', NEW p \in Procs,
         mem' = [mem EXCEPT ![p] = mem'[p]],
         pc' = [pc EXCEPT ![p] = pc'[p]],
         gates' = [gates EXCEPT ![p] = gates'[p]],
         disk' = disk, earned \subseteq earned',
         mem'[p].status = "completed"
           => mem'[p].run \in earned' /\ mem'[p].acted /\ mem'[p].branch,
         InOrder(pc'[p], mem'[p], gates'[p])
  PROVE  EarnedInv'
<1>1. Earned(disk)'
  BY DEF EarnedInv, CompletedIsEarned, Earned
<1>2. ASSUME NEW q \in Procs
      PROVE  Earned(mem[q])' /\ InOrder(pc[q], mem[q], gates[q])'
  <2>1. CASE q = p
    BY <2>1 DEF Earned
  <2>2. CASE q # p
    <3>1. mem'[q] = mem[q] /\ pc'[q] = pc[q] /\ gates'[q] = gates[q]
      BY <2>2 DEF EarnedInv, TypeOK
    <3> QED
      BY <3>1 DEF EarnedInv, CompletedIsEarned, Earned
  <2> QED
    BY <2>1, <2>2
<1> QED
  BY <1>1, <1>2 DEF EarnedInv, CompletedIsEarned

LEMMA SaveThenEarned ==
  ASSUME EarnedInv, TypeOK', NEW p \in Procs, NEW task, NEW k,
         SaveThen(p, task, k), disk' = disk, gates' = gates,
         earned \subseteq earned',
         task.status = "completed"
           => task.run \in earned' /\ task.acted /\ task.branch
  PROVE  EarnedInv'
<1>1. mem'[p] = task /\ pc'[p] = "save"
  BY DEF SaveThen, EarnedInv, TypeOK
<1>2. InOrder(pc'[p], mem'[p], gates'[p])
  BY <1>1 DEF InOrder
<1>3. gates' = [gates EXCEPT ![p] = gates'[p]]
  BY DEF EarnedInv, TypeOK
<1> QED
  BY <1>1, <1>2, <1>3, MoveEarned DEF SaveThen

LEMMA EndEarned ==
  ASSUME EarnedInv, TypeOK', NEW p \in Procs, End(p), disk' = disk,
         gates' = gates, earned' = earned
  PROVE  EarnedInv'
<1>1. mem'[p] = NoTask /\ pc'[p] = "idle"
  BY DEF End, EarnedInv, TypeOK
<1>2. InOrder(pc'[p], mem'[p], gates'[p]) /\ mem'[p].status # "completed"
  BY <1>1 DEF InOrder, NoTask
<1>3. gates' = [gates EXCEPT ![p] = gates'[p]]
  BY DEF EarnedInv, TypeOK
<1> QED
  BY <1>1, <1>2, <1>3, MoveEarned DEF End

LEMMA NewRunCreated ==
  ASSUME NEW task \in Task, NEW r \in Nat
  PROVE  /\ BeginNewRun(task, r).status = "created"
         /\ [BeginNewRun(task, r) EXCEPT !.intent = "clear"].status = "created"
<1>1. /\ BeginNewRun(task, r) \in Task
      /\ BeginNewRun(task, r).status = "created"
  BY NewRunKeeps
<1> QED
  BY <1>1 DEF Task

LEMMA HandleEarned ==
  ASSUME EarnedInv, TypeOK', NEW p \in Procs, Handle(p),
         UNCHANGED <<disk, gitBranch, runs, commands, history>>
  PROVE  EarnedInv'
<1>1. mem[p] \in Task /\ "failed" \in Statuses
  BY DEF Statuses, EarnedInv, TypeOK
<1>2. Transition(mem[p], "failed").status = "failed"
  BY <1>1, TransitionKeeps
<1>3. disk' = disk /\ gates' = gates /\ earned' = earned
  BY DEF history
<1> QED
  BY <1>2, <1>3, SaveThenEarned, EndEarned DEF Handle

-----------------------------------------------------------------------------

\* The steps of AgentLoop._run.
LEMMA LoopEarned ==
  ASSUME EarnedInv, TypeOK', NEW p \in Procs,
         \/ EnterLoop(p) \/ Normalize(p) \/ CreatePlan(p)
         \/ LimitReached(p) \/ HonourStop(p) \/ Iterate(p)
         \/ ToolCall(p) \/ Final(p) \/ Verify(p) \/ BrowserCheck(p)
         \/ Review(p) \/ Checkpoint(p) \/ LoopRaises(p)
  PROVE  EarnedInv'
<1> DEFINE t(s) == Transition(mem[p], s)
<1>1. /\ mem[p] \in Task
      /\ Earned(mem[p])
      /\ InOrder(pc[p], mem[p], gates[p])
      /\ gates[p] \subseteq AllGates
  BY DEF EarnedInv, TypeOK, CompletedIsEarned
<1>2. \A s \in Statuses :
        /\ t(s).status = s /\ t(s).run = mem[p].run
        /\ t(s).acted = mem[p].acted /\ t(s).branch = mem[p].branch
  BY <1>1, TransitionKeeps
<1>3. ASSUME UNCHANGED <<disk, gitBranch, runs, commands, history>>
      PROVE  disk' = disk /\ gates' = gates /\ earned' = earned
  BY <1>3 DEF history
<1>4. ASSUME NEW s \in Statuses \ {"completed"}, NEW k, SaveThen(p, t(s), k),
             disk' = disk, gates' = gates, earned' = earned
      PROVE  EarnedInv'
  BY <1>4, <1>2, SaveThenEarned
<1>5. ASSUME NEW g, NEW l, Pass(p, g, l), disk' = disk, earned' = earned,
             mem' = [mem EXCEPT ![p] = mem'[p]],
             mem'[p].acted = mem[p].acted, mem'[p].run = mem[p].run,
             mem'[p].branch = mem[p].branch,
             mem'[p].status \in {mem[p].status, "reviewing"},
             InOrder(l, mem[p], gates[p] \cup {g})
      PROVE  EarnedInv'
  <2>1. /\ pc'[p] = l /\ pc' = [pc EXCEPT ![p] = pc'[p]]
        /\ gates'[p] = gates[p] \cup {g}
        /\ gates' = [gates EXCEPT ![p] = gates'[p]]
    BY <1>5 DEF Pass, Goto, EarnedInv, TypeOK
  <2>2. InOrder(pc'[p], mem'[p], gates'[p])
    BY <2>1, <1>5 DEF InOrder
  <2>3. mem'[p].status = "completed" =>
          mem'[p].run \in earned' /\ mem'[p].acted /\ mem'[p].branch
    BY <1>5, <1>1 DEF Earned
  <2> QED
    BY <2>1, <2>2, <2>3, <1>5, MoveEarned
<1>6. UNCHANGED mem => mem' = [mem EXCEPT ![p] = mem'[p]]
  BY DEF EarnedInv, TypeOK
<1>a. CASE EnterLoop(p)
  <2>1. \/ SaveThen(p, t("interpreting"), "normalize")
        \/ SaveThen(p, t("running"), "check")
        \/ SaveThen(p, t("planning"), "plan")
        \/ Handle(p)
    BY <1>a, EntersBy
  <2> QED
    BY <1>a, <2>1, <1>3, <1>4, HandleEarned DEF EnterLoop, Statuses
<1>m. CASE Normalize(p)
  <2>1. [t("needs_clarification") EXCEPT !.intent = "unclear"].status
          = "needs_clarification"
    BY <1>1 DEF Transition, Task
  <2>2. CASE SaveThen(p, [t("needs_clarification")
                            EXCEPT !.intent = "unclear"], "return")
    BY <1>m, <2>1, <2>2, <1>3, SaveThenEarned DEF Normalize
  <2>3. CASE /\ mem' = [mem EXCEPT ![p].intent = "clear"]
             /\ Goto(p, "enter")
    <3>1. /\ mem' = [mem EXCEPT ![p] = mem'[p]]
          /\ mem'[p] = [mem[p] EXCEPT !.intent = "clear"]
          /\ pc' = [pc EXCEPT ![p] = pc'[p]] /\ pc'[p] = "enter"
          /\ gates' = [gates EXCEPT ![p] = gates'[p]]
          /\ disk' = disk /\ earned' = earned
      BY <1>m, <2>3, <1>3 DEF Normalize, Goto, EarnedInv, TypeOK
    <3>2. /\ mem'[p].status = mem[p].status /\ mem'[p].run = mem[p].run
          /\ mem'[p].acted = mem[p].acted /\ mem'[p].branch = mem[p].branch
      BY <3>1, <1>1 DEF Task
    <3>3. InOrder(pc'[p], mem'[p], gates'[p])
      BY <3>1 DEF InOrder
    <3> QED
      BY <3>1, <3>2, <3>3, <1>1, MoveEarned DEF Earned
  <2> QED
    BY <1>m, <2>2, <2>3 DEF Normalize
<1>b. CASE CreatePlan(p)
  <2>1. [t("running") EXCEPT !.planned = TRUE].status = "running"
    BY <1>1 DEF Transition, Task
  <2> QED
    BY <1>b, <2>1, <1>3, SaveThenEarned DEF CreatePlan
<1>c. CASE LimitReached(p)
  BY <1>c, <1>3, <1>4 DEF LimitReached, Statuses
<1>d. CASE HonourStop(p)
  BY <1>d, <1>3, <1>4 DEF HonourStop, Statuses
<1>e. CASE Iterate(p)
  <2>1. /\ mem' = [mem EXCEPT ![p] = mem'[p]]
        /\ mem'[p] = [mem[p] EXCEPT !.iteration = @ + 1]
        /\ pc' = [pc EXCEPT ![p] = pc'[p]] /\ pc'[p] = "chat"
        /\ gates' = [gates EXCEPT ![p] = gates'[p]]
        /\ disk' = disk /\ earned' = earned
    BY <1>e DEF Iterate, Goto, EarnedInv, TypeOK
  <2>2. /\ mem'[p].status = mem[p].status
        /\ mem'[p].run = mem[p].run /\ mem'[p].acted = mem[p].acted
        /\ mem'[p].branch = mem[p].branch
    BY <2>1, <1>1 DEF Task
  <2>3. InOrder(pc'[p], mem'[p], gates'[p])
    BY <2>1 DEF InOrder
  <2> QED
    BY <2>1, <2>2, <2>3, <1>1, MoveEarned DEF Earned
<1>f. CASE ToolCall(p)
  <2>1. /\ [mem[p] EXCEPT !.acted = TRUE].status = mem[p].status
        /\ [mem[p] EXCEPT !.acted = TRUE].run = mem[p].run
        /\ [mem[p] EXCEPT !.acted = TRUE].acted
        /\ [mem[p] EXCEPT !.acted = TRUE].branch = mem[p].branch
    BY <1>1 DEF Task
  <2>2. [t("needs_approval") EXCEPT !.acted = TRUE, !.pending = TRUE].status
          = "needs_approval"
    BY <1>1 DEF Transition, Task
  <2> QED
    BY <1>f, <2>1, <2>2, <1>1, <1>3, SaveThenEarned DEF ToolCall, Earned
<1>g. CASE Final(p)
  <2>1. CASE mem[p].acted
    <3>1. /\ mem' = [mem EXCEPT ![p] = mem'[p]] /\ mem'[p] = t("verifying")
          /\ pc' = [pc EXCEPT ![p] = pc'[p]] /\ pc'[p] = "verify"
          /\ gates' = [gates EXCEPT ![p] = gates'[p]]
          /\ disk' = disk /\ earned' = earned
      BY <1>g, <2>1 DEF Final, Goto, EarnedInv, TypeOK, history
    <3>2. mem'[p].acted /\ mem'[p].status = "verifying"
      BY <3>1, <2>1, <1>2 DEF Statuses
    <3>3. InOrder(pc'[p], mem'[p], gates'[p])
      BY <3>1, <3>2 DEF InOrder
    <3> QED
      BY <3>1, <3>2, <3>3, MoveEarned
  <2>2. CASE ~mem[p].acted
    BY <1>g, <2>2, <1>1, <1>3, SaveThenEarned DEF Final, Earned
  <2> QED
    BY <2>1, <2>2
<1>h. CASE Verify(p)
  <2>1. CASE Pass(p, "verified", "browser") /\ UNCHANGED mem
    <3>1. InOrder("browser", mem[p], gates[p] \cup {"verified"})
      BY <1>h, <1>1 DEF Verify, InOrder
    <3> QED
      BY <1>h, <2>1, <3>1, <1>5, <1>6 DEF Verify
  <2>2. CASE ~(Pass(p, "verified", "browser") /\ UNCHANGED mem)
    BY <1>h, <2>2, <1>4 DEF Verify, Repair, Statuses
  <2> QED
    BY <2>1, <2>2
<1>i. CASE BrowserCheck(p)
  <2>1. CASE /\ Pass(p, "browser", "review")
             /\ mem' = [mem EXCEPT ![p] = Transition(@, "reviewing")]
    <3>1. InOrder("review", mem[p], gates[p] \cup {"browser"})
      BY <1>i, <1>1 DEF BrowserCheck, InOrder
    <3>2. /\ mem' = [mem EXCEPT ![p] = mem'[p]]
          /\ mem'[p] = t("reviewing")
      BY <2>1 DEF EarnedInv, TypeOK
    <3>3. /\ mem'[p].acted = mem[p].acted /\ mem'[p].run = mem[p].run
          /\ mem'[p].status = "reviewing"
          /\ mem'[p].branch = mem[p].branch
      BY <3>2, <1>2 DEF Statuses
    <3> QED
      BY <1>i, <2>1, <3>1, <3>2, <3>3, <1>5 DEF BrowserCheck
  <2>2. CASE Repair(p) /\ UNCHANGED gates
    BY <1>i, <2>2, <1>4 DEF BrowserCheck, Repair, Statuses
  <2> QED
    BY <1>i, <2>1, <2>2 DEF BrowserCheck
<1>j. CASE Review(p)
  <2>1. CASE Pass(p, "reviewed", "checkpoint") /\ UNCHANGED mem
    <3>1. InOrder("checkpoint", mem[p], gates[p] \cup {"reviewed"})
      BY <1>j, <1>1 DEF Review, InOrder
    <3> QED
      BY <1>j, <2>1, <3>1, <1>5, <1>6 DEF Review
  <2>2. CASE Repair(p) /\ UNCHANGED gates
    BY <1>j, <2>2, <1>4 DEF Review, Repair, Statuses
  <2> QED
    BY <1>j, <2>1, <2>2 DEF Review
<1>k. CASE Checkpoint(p)
  <2>1. gates[p] = AllGates /\ mem[p].acted
    BY <1>k, <1>1 DEF Checkpoint, InOrder, AllGates
  <2>2. CASE /\ BranchUsable(mem[p])
             /\ SaveThen(p, t("completed"), "return")
             /\ earned' = earned \cup {mem[p].run}
    <3>1. /\ t("completed").run \in earned' /\ t("completed").acted
          /\ t("completed").branch
      BY <2>1, <2>2, <1>2 DEF Statuses, BranchUsable
    <3> QED
      BY <1>k, <2>2, <3>1, SaveThenEarned DEF Checkpoint
  <2>3. CASE SaveThen(p, t("blocked"), "return") /\ UNCHANGED earned
    BY <1>k, <2>3, <1>4 DEF Checkpoint, Statuses
  <2> QED
    BY <1>k, <2>1, <2>2, <2>3 DEF Checkpoint
<1>l. CASE LoopRaises(p)
  BY <1>l, HandleEarned DEF LoopRaises
<1> QED
  BY <1>a, <1>b, <1>c, <1>d, <1>e, <1>f, <1>g, <1>h, <1>i, <1>j, <1>k, <1>l,
     <1>m

-----------------------------------------------------------------------------

\* PrepareThen never completes a task.
LEMMA PrepareEarned ==
  ASSUME EarnedInv, TypeOK', NEW p \in Procs, NEW k, PrepareThen(p, k)
  PROVE  EarnedInv'
<1>1. mem[p] \in Task /\ Earned(mem[p])
  BY DEF EarnedInv, TypeOK, CompletedIsEarned
<1>2. disk' = disk /\ gates' = gates /\ earned' = earned
  BY DEF PrepareThen, history
<1>3. CASE SaveThen(p, [mem[p] EXCEPT !.branch = TRUE], k)
  <2>1. /\ [mem[p] EXCEPT !.branch = TRUE].status = mem[p].status
        /\ [mem[p] EXCEPT !.branch = TRUE].run = mem[p].run
        /\ [mem[p] EXCEPT !.branch = TRUE].acted = mem[p].acted
        /\ [mem[p] EXCEPT !.branch = TRUE].branch
    BY <1>1 DEF Task
  <2>2. [mem[p] EXCEPT !.branch = TRUE].status = "completed"
          => /\ [mem[p] EXCEPT !.branch = TRUE].run \in earned'
             /\ [mem[p] EXCEPT !.branch = TRUE].acted
             /\ [mem[p] EXCEPT !.branch = TRUE].branch
    BY <1>1, <1>2, <2>1 DEF Earned
  <2> QED
    BY <1>2, <1>3, <2>2, SaveThenEarned
<1>4. CASE \E n \in BOOLEAN :
             SaveThen(p, [Transition(mem[p], "blocked") EXCEPT !.branch = n],
                      "finished")
  <2>1. PICK n \in BOOLEAN :
          SaveThen(p, [Transition(mem[p], "blocked") EXCEPT !.branch = n],
                   "finished")
    BY <1>4
  <2>2. [Transition(mem[p], "blocked") EXCEPT !.branch = n].status = "blocked"
    BY <1>1 DEF Transition, Task
  <2> QED
    BY <1>2, <2>1, <2>2, SaveThenEarned
<1> QED
  BY <1>3, <1>4 DEF PrepareThen

\* Saves, and the operations of the service.
LEMMA ServiceEarned ==
  ASSUME EarnedInv, TypeOK', NEW p \in Procs,
         \/ SaveRead(p) \/ SaveReplace(p) \/ SaveFails(p) \/ Interpret(p)
         \/ Prepare(p) \/ Execute(p) \/ PrepareClarified(p)
         \/ EnsureClarified(p) \/ Crash(p)
  PROVE  EarnedInv'
<1>1. /\ mem[p] \in Task /\ Earned(mem[p])
      /\ disk \in Task /\ Earned(disk)
      /\ next[p] \in InTry \cup OutOfTry
  BY DEF EarnedInv, TypeOK, CompletedIsEarned
<1>2. ASSUME UNCHANGED <<disk, gitBranch, runs, commands, history>>
      PROVE  disk' = disk /\ gates' = gates /\ earned' = earned
  BY <1>2 DEF history
<1>3. ASSUME NEW l, Goto(p, l), Earned(mem'[p]),
             l \notin {"verify", "browser", "review", "checkpoint"},
             mem' = [mem EXCEPT ![p] = mem'[p]],
             UNCHANGED <<disk, gitBranch, runs, commands, history>>
      PROVE  EarnedInv'
  <2>1. /\ pc' = [pc EXCEPT ![p] = pc'[p]] /\ pc'[p] = l
        /\ gates' = [gates EXCEPT ![p] = gates'[p]]
    BY <1>2, <1>3 DEF Goto, EarnedInv, TypeOK
  <2>2. InOrder(pc'[p], mem'[p], gates'[p])
    BY <2>1, <1>3 DEF InOrder
  <2> QED
    BY <1>2, <1>3, <2>1, <2>2, MoveEarned DEF Earned
<1>a. CASE SaveRead(p)
  <2>1. /\ AdoptStop(mem[p]).status = mem[p].status
        /\ AdoptStop(mem[p]).run = mem[p].run
        /\ AdoptStop(mem[p]).acted = mem[p].acted
        /\ AdoptStop(mem[p]).branch = mem[p].branch
    BY <1>1 DEF AdoptStop, Task
  <2>2. Earned(AdoptStop(mem[p]))
    BY <1>1, <2>1 DEF Earned
  <2>3. /\ mem'[p] = AdoptStop(mem[p])
        /\ mem' = [mem EXCEPT ![p] = mem'[p]]
    BY <1>a DEF SaveRead, EarnedInv, TypeOK
  <2> QED
    BY <1>a, <2>2, <2>3, <1>3 DEF SaveRead
<1>b. CASE SaveReplace(p)
  <2>1. disk' = mem[p] /\ gates' = gates /\ earned' = earned
    BY <1>b DEF SaveReplace
  <2>2. /\ mem'[p] \in {mem[p], NoTask}
        /\ pc'[p] \in {"idle"} \cup InTry \cup OutOfTry
        /\ \A q \in Procs \ {p} : mem'[q] = mem[q] /\ pc'[q] = pc[q]
    BY <1>b, <1>1 DEF SaveReplace, End, Goto, EarnedInv, TypeOK
  <2>3. InOrder(pc'[p], mem'[p], gates'[p])
    BY <2>2 DEF InOrder, InTry, OutOfTry
  <2>4. Earned(disk)' /\ Earned(mem[p])'
    BY <1>1, <2>1, <2>2 DEF Earned, NoTask
  <2>5. ASSUME NEW q \in Procs
        PROVE  Earned(mem[q])' /\ InOrder(pc[q], mem[q], gates[q])'
    BY <2>1, <2>2, <2>3, <2>4
       DEF Earned, EarnedInv, CompletedIsEarned
  <2> QED
    BY <2>4, <2>5 DEF EarnedInv, CompletedIsEarned
<1>c. CASE SaveFails(p)
  BY <1>c, <1>2, HandleEarned, EndEarned DEF SaveFails
<1>d. CASE Interpret(p)
  <2>1. /\ [Transition(mem[p], "needs_clarification")
               EXCEPT !.intent = "unclear"].status = "needs_clarification"
        /\ [Transition(mem[p], "created")
               EXCEPT !.intent = "clear"].status = "created"
    BY <1>1 DEF Transition, Task
  <2> QED
    BY <1>d, <2>1, <1>2, SaveThenEarned DEF Interpret
<1>e. CASE Prepare(p)
  BY <1>e, PrepareEarned DEF Prepare
<1>f. CASE Execute(p)
  <2>1. Transition(disk, "blocked").status = "blocked"
    BY <1>1 DEF Transition, Task
  <2>2. CASE mem' = [mem EXCEPT ![p] = disk] /\ Goto(p, "enter")
    <3>1. mem'[p] = disk /\ mem' = [mem EXCEPT ![p] = mem'[p]]
      BY <2>2 DEF EarnedInv, TypeOK
    <3> QED
      BY <1>f, <2>2, <3>1, <1>1, <1>3 DEF Execute
  <2>3. CASE SaveThen(p, Transition(disk, "blocked"), "finished")
    BY <1>f, <2>1, <2>3, <1>2, SaveThenEarned DEF Execute
  <2>4. CASE End(p)
    BY <1>f, <2>4, <1>2, EndEarned DEF Execute
  <2> QED
    BY <1>f, <2>2, <2>3, <2>4 DEF Execute
<1>g. CASE PrepareClarified(p)
  BY <1>g, PrepareEarned DEF PrepareClarified
<1>h. CASE EnsureClarified(p)
  BY <1>h, <1>1, <1>2, SaveThenEarned, EndEarned DEF EnsureClarified, Earned
<1>i. CASE Crash(p)
  BY <1>i, <1>2, EndEarned DEF Crash
<1> QED
  BY <1>a, <1>b, <1>c, <1>d, <1>e, <1>f, <1>g, <1>h, <1>i

\* The commands that put an idle process to work.
LEMMA CommandEarned ==
  ASSUME EarnedInv, TypeOK', NEW p \in Procs,
         \/ Start(p) \/ Resume(p) \/ Reload(p) \/ Clarify(p)
         \/ RequestStop(p) \/ Rollback(p)
  PROVE  EarnedInv'
<1>1. disk \in Task /\ Earned(disk) /\ runs + 1 \in Nat
  BY DEF EarnedInv, TypeOK, CompletedIsEarned
<1>2. disk' = disk /\ gates' = gates /\ earned' = earned
  BY DEF history, Start, Resume, Reload, Clarify, RequestStop, Rollback
<1>3. ASSUME NEW l \in {"reload", "enter", "ensure", "reprepare"},
             Goto(p, l), NEW task,
             task = disk \/ task.status = "created",
             mem' = [mem EXCEPT ![p] = task]
      PROVE  EarnedInv'
  <2>1. /\ pc' = [pc EXCEPT ![p] = pc'[p]] /\ pc'[p] = l
        /\ mem' = [mem EXCEPT ![p] = mem'[p]] /\ mem'[p] = task
        /\ gates' = [gates EXCEPT ![p] = gates'[p]]
    BY <1>2, <1>3 DEF Goto, EarnedInv, TypeOK
  <2>2. InOrder(pc'[p], mem'[p], gates'[p])
    BY <2>1, <1>3 DEF InOrder
  <2>3. mem'[p].status = "completed" =>
          mem'[p].run \in earned' /\ mem'[p].acted /\ mem'[p].branch
    BY <1>1, <1>2, <1>3, <2>1 DEF Earned
  <2> QED
    BY <1>2, <1>3, <2>1, <2>2, <2>3, MoveEarned
<1>a. CASE Start(p)
  <2>1. Transition(NewTask(runs + 1), "interpreting").status = "interpreting"
    BY DEF Transition, NewTask, NoTask
  <2> QED
    BY <1>a, <2>1, <1>2, SaveThenEarned DEF Start
<1>b. CASE Resume(p)
  BY <1>b, <1>3 DEF Resume
<1>f. CASE Reload(p)
  <2>1. BeginNewRun(disk, runs + 1).status = "created"
    BY <1>1, NewRunCreated
  <2>2. \/ /\ Goto(p, "enter")
           /\ mem' = [mem EXCEPT ![p] = BeginNewRun(disk, runs + 1)]
        \/ End(p)
    BY <1>f DEF Reload
  <2> QED
    BY <2>1, <2>2, <1>2, <1>3, EndEarned
<1>c. CASE Clarify(p)
  <2>1. CASE SaveThen(p, disk, "finished")
    BY <2>1, <1>1, <1>2, SaveThenEarned DEF Earned
  <2>2. CASE /\ mem' = [mem EXCEPT ![p] = [BeginNewRun(disk, runs + 1)
                                             EXCEPT !.intent = "clear"]]
             /\ Goto(p, IF disk.branch THEN "ensure" ELSE "reprepare")
    <3>1. [BeginNewRun(disk, runs + 1) EXCEPT !.intent = "clear"].status
            = "created"
      BY <1>1, NewRunCreated
    <3> QED
      BY <2>2, <3>1, <1>3
  <2> QED
    BY <1>c, <2>1, <2>2 DEF Clarify
<1>d. CASE RequestStop(p)
  <2>1. /\ [disk EXCEPT !.stop = TRUE].status = disk.status
        /\ [disk EXCEPT !.stop = TRUE].run = disk.run
        /\ [disk EXCEPT !.stop = TRUE].acted = disk.acted
        /\ [disk EXCEPT !.stop = TRUE].branch = disk.branch
    BY <1>1 DEF Task
  <2>2. [disk EXCEPT !.stop = TRUE].status = "completed"
          => /\ [disk EXCEPT !.stop = TRUE].run \in earned'
             /\ [disk EXCEPT !.stop = TRUE].acted
             /\ [disk EXCEPT !.stop = TRUE].branch
    BY <1>1, <1>2, <2>1 DEF Earned
  <2> QED
    BY <1>d, <1>2, <2>2, SaveThenEarned DEF RequestStop
<1>e. CASE Rollback(p)
  <2>1. /\ [disk EXCEPT !.rolledBack = TRUE].status = disk.status
        /\ [disk EXCEPT !.rolledBack = TRUE].run = disk.run
        /\ [disk EXCEPT !.rolledBack = TRUE].acted = disk.acted
        /\ [disk EXCEPT !.rolledBack = TRUE].branch = disk.branch
    BY <1>1 DEF Task
  <2>2. [disk EXCEPT !.rolledBack = TRUE].status = "completed"
          => /\ [disk EXCEPT !.rolledBack = TRUE].run \in earned'
             /\ [disk EXCEPT !.rolledBack = TRUE].acted
             /\ [disk EXCEPT !.rolledBack = TRUE].branch
    BY <1>1, <1>2, <2>1 DEF Earned
  <2> QED
    BY <1>e, <1>2, <2>2, SaveThenEarned DEF Rollback
<1> QED
  BY <1>a, <1>b, <1>c, <1>d, <1>e, <1>f

\* Whatever processes share a task, stop it, roll it back or crash, and
\* whichever of them wrote the file last: a COMPLETED in it is of a run that
\* used a tool, passed every check after the model's last answer and was
\* checkpointed on the task's branch.
THEOREM CompletedEarned == Spec => []CompletedIsEarned
<1>1. Init => EarnedInv
  <2> SUFFICES ASSUME Init PROVE EarnedInv
    OBVIOUS
  <2>1. TypeOK
    BY TypeInit
  <2>2. CompletedIsEarned
    BY DEF Init, CompletedIsEarned, Earned, NoTask
  <2>3. \A p \in Procs : InOrder(pc[p], mem[p], gates[p])
    BY DEF Init, InOrder
  <2> QED
    BY <2>1, <2>2, <2>3 DEF EarnedInv
<1>2. EarnedInv /\ [Next]_vars => EarnedInv'
  <2> SUFFICES ASSUME EarnedInv, [Next]_vars PROVE EarnedInv'
    OBVIOUS
  <2>1. TypeOK'
    BY TypeStep DEF EarnedInv
  <2>2. ASSUME NEW p \in Procs, Step(p) \/ Crash(p) PROVE EarnedInv'
    BY <2>1, <2>2, LoopEarned, ServiceEarned, CommandEarned DEF Step
  <2>3. ASSUME NEW p \in Runners, Start(p) \/ Resume(p) \/ Clarify(p)
        PROVE  EarnedInv'
    BY <2>1, <2>3, CommandEarned DEF Procs
  <2>4. ASSUME NEW p \in Clients, RequestStop(p) \/ Rollback(p)
        PROVE  EarnedInv'
    BY <2>1, <2>4, CommandEarned DEF Procs
  <2>5. CASE UNCHANGED vars
    BY <2>1, <2>5
       DEF vars, EarnedInv, CompletedIsEarned, Earned, InOrder
  <2> QED
    BY <2>2, <2>3, <2>4, <2>5 DEF Next
<1>3. EarnedInv => CompletedIsEarned
  BY DEF EarnedInv
<1> QED
  BY <1>1, <1>2, <1>3, PTL DEF Spec

-----------------------------------------------------------------------------
(* The loop owns its branch *)

\* Where a process is, a save counting as the place it leads to.
Where(p) == IF pc[p] \in {"save", "replace"} THEN next[p] ELSE pc[p]

InLoop == {"enter", "plan", "check", "chat", "verify", "browser", "review",
           "checkpoint", "return"}

LoopStatuses == {"planning", "running", "verifying", "reviewing",
                 "needs_approval", "completed", "failed", "cancelled"}

Owned(task, git) == task.branch /\ git /\ task.intent = "clear"

\* What a record is known to hold at a label, git being what git answers.
Fits(label, task, git) ==
  /\ task.status \in LoopStatuses => Owned(task, git)
  /\ task.branch => task.intent = "clear"
  /\ label \in InLoop => Owned(task, git)
  /\ label \in {"prepare", "reprepare"} => task.intent = "clear"
  /\ label = "interpret" => ~task.branch
  /\ label # "normalize"

\* LoopOwnsBranch alone is not inductive: a copy that is to be saved, and the
\* handler that saves it as FAILED from anywhere in the loop, must own the
\* branch before its status says so; and a record that names a branch was
\* understood, or a resumption could enter the loop without an intent.  That
\* the branch is usable is checked of a first load of the file, and it is the
\* second one that runs: nobody else may have written in between.
BranchInv == /\ TypeOK
             /\ Fits("idle", disk, gitBranch)
             /\ \A p \in Procs : Fits(Where(p), mem[p], gitBranch)
             /\ \A p \in Procs : pc[p] = "reload" => Owned(disk, gitBranch)

\* One process, as a runner, a client or both.
Alone == \A p, q \in Procs : p = q

\* The branch is never lost once it exists, and a record keeps what it holds
\* wherever that needs nothing of the label.
LEMMA FitsElsewhere ==
  ASSUME NEW l, NEW m, NEW task, NEW g, NEW h, Fits(l, task, g), g => h,
         \/ m = l
         \/ m \notin InLoop \cup {"prepare", "reprepare", "interpret",
                                 "normalize"}
  PROVE  Fits(m, task, h)
  BY DEF Fits, Owned

LEMMA MoveKeepsBranch ==
  ASSUME BranchInv, TypeOK', Alone, NEW p \in Procs, NEW l, NEW task,
         mem'[p] = task, Where(p)' = l, Fits(l, task, gitBranch'),
         l = "reload" => Owned(disk', gitBranch'),
         \A q \in Procs \ {p} :
           mem'[q] = mem[q] /\ pc'[q] = pc[q] /\ next'[q] = next[q],
         disk' \in {disk, mem[p]}, gitBranch => gitBranch'
  PROVE  BranchInv'
<1>1. Fits("idle", disk', gitBranch')
  <2>1. Fits("idle", disk, gitBranch) /\ Fits(Where(p), mem[p], gitBranch)
    BY DEF BranchInv
  <2>2. "idle" \notin InLoop \cup {"prepare", "reprepare", "interpret",
                                  "normalize"}
    BY DEF InLoop
  <2> QED
    BY <2>1, <2>2, FitsElsewhere
<1>2. ASSUME NEW q \in Procs
      PROVE  Fits(Where(q)', mem'[q], gitBranch')
  <2>1. CASE q = p
    BY <2>1
  <2>2. CASE q # p
    <3>1. Where(q)' = Where(q) /\ mem'[q] = mem[q]
      BY <2>2 DEF Where
    <3>2. Fits(Where(q), mem[q], gitBranch)
      BY DEF BranchInv
    <3> QED
      BY <3>1, <3>2, FitsElsewhere
  <2> QED
    BY <2>1, <2>2
<1>3. ASSUME NEW q \in Procs, pc'[q] = "reload"
      PROVE  Owned(disk', gitBranch')
  <2>1. Where(p)' = "reload"
    BY <1>3 DEF Alone, Where
  <2> QED
    BY <2>1
<1> QED
  BY <1>1, <1>2, <1>3 DEF BranchInv

LEMMA SaveThenBranch ==
  ASSUME BranchInv, TypeOK', Alone, NEW p \in Procs, NEW task,
         NEW k, k # "reload",
         SaveThen(p, task, k), Fits(k, task, gitBranch'),
         disk' = disk, gitBranch => gitBranch'
  PROVE  BranchInv'
<1>1. /\ mem'[p] = task /\ pc'[p] = "save" /\ next'[p] = k
      /\ \A q \in Procs \ {p} :
           mem'[q] = mem[q] /\ pc'[q] = pc[q] /\ next'[q] = next[q]
  BY DEF SaveThen, BranchInv, TypeOK
<1>2. Where(p)' = k
  BY <1>1 DEF Where
<1> QED
  BY <1>1, <1>2, MoveKeepsBranch

LEMMA EndBranch ==
  ASSUME BranchInv, TypeOK', Alone, NEW p \in Procs, End(p),
         disk' \in {disk, mem[p]}, gitBranch' = gitBranch
  PROVE  BranchInv'
<1>1. /\ mem'[p] = NoTask /\ pc'[p] = "idle"
      /\ \A q \in Procs \ {p} :
           mem'[q] = mem[q] /\ pc'[q] = pc[q] /\ next'[q] = next[q]
  BY DEF End, BranchInv, TypeOK
<1>2. Where(p)' = "idle" /\ Fits("idle", NoTask, gitBranch')
  BY <1>1 DEF Where, Fits, NoTask, LoopStatuses, InLoop
<1> QED
  BY <1>1, <1>2, MoveKeepsBranch

\* Going on with the copy, or with another one, and saving nothing.
LEMMA GotoBranch ==
  ASSUME BranchInv, TypeOK', Alone, NEW p \in Procs, NEW l, NEW task,
         Goto(p, l),
         l \notin {"save", "replace"}, mem' = [mem EXCEPT ![p] = task],
         Fits(l, task, gitBranch), disk' \in {disk, mem[p]},
         l = "reload" => Owned(disk', gitBranch),
         gitBranch' = gitBranch
  PROVE  BranchInv'
<1>1. /\ mem'[p] = task /\ pc'[p] = l
      /\ \A q \in Procs \ {p} :
           mem'[q] = mem[q] /\ pc'[q] = pc[q] /\ next'[q] = next[q]
  BY DEF Goto, BranchInv, TypeOK
<1>2. Where(p)' = l
  BY <1>1 DEF Where
<1> QED
  BY <1>1, <1>2, MoveKeepsBranch

\* A copy that owns the branch may be saved with any status, from anywhere
\* in the loop.
LEMMA OwnedFits ==
  ASSUME NEW task, NEW g, Owned(task, g), NEW l, l \in InLoop \cup {"exit"}
  PROVE  Fits(l, task, g)
  BY DEF Fits, Owned, InLoop

LEMMA HandleBranch ==
  ASSUME BranchInv, TypeOK', Alone, NEW p \in Procs, Handle(p),
         Owned(mem[p], gitBranch), disk' = disk, gitBranch' = gitBranch
  PROVE  BranchInv'
<1>1. mem[p] \in Task /\ "failed" \in Statuses
  BY DEF Statuses, BranchInv, TypeOK
<1>2. Owned(Transition(mem[p], "failed"), gitBranch)
  BY <1>1, TransitionKeeps, NewRunKeeps DEF Owned
<1>3. Fits("exit", Transition(mem[p], "failed"), gitBranch')
  BY <1>2, OwnedFits
<1> QED
  BY <1>3, SaveThenBranch, EndBranch DEF Handle

-----------------------------------------------------------------------------

LEMMA LoopBranch ==
  ASSUME BranchInv, TypeOK', Alone, NEW p \in Procs,
         \/ EnterLoop(p) \/ Normalize(p) \/ CreatePlan(p)
         \/ LimitReached(p) \/ HonourStop(p) \/ Iterate(p)
         \/ ToolCall(p) \/ Final(p) \/ Verify(p) \/ BrowserCheck(p)
         \/ Review(p) \/ Checkpoint(p) \/ LoopRaises(p)
  PROVE  BranchInv'
<1> DEFINE t(s) == Transition(mem[p], s)
<1>1. /\ mem[p] \in Task
      /\ mem \in [Procs -> Task]
      /\ Fits(Where(p), mem[p], gitBranch)
  BY DEF BranchInv, TypeOK
<1>2. pc[p] \in InLoop \ {"return"}
  <2>1. pc[p] # "normalize"
    BY <1>1 DEF Where, Fits
  <2> QED
    BY <2>1 DEF EnterLoop, Normalize, CreatePlan, LimitReached, HonourStop,
                Iterate, ToolCall, Final, Verify, BrowserCheck, Review,
                Checkpoint, LoopRaises, Raising, InLoop
<1>3. Owned(mem[p], gitBranch)
  <2>1. Where(p) = pc[p] /\ Where(p) \in InLoop
    BY <1>2 DEF Where, InLoop
  <2> QED
    BY <2>1, <1>1 DEF Fits
<1>4. disk' = disk /\ gitBranch' = gitBranch
  BY DEF EnterLoop, Normalize, CreatePlan, LimitReached, HonourStop, Iterate,
         ToolCall, Final, Verify, BrowserCheck, Review, Checkpoint, LoopRaises
<1>5. \A s \in Statuses : t(s) \in Task /\ Owned(t(s), gitBranch)
  BY <1>1, <1>3, TransitionKeeps, NewRunKeeps DEF Owned
<1> HIDE DEF t
<1>6. ASSUME NEW task, Owned(task, gitBranch), NEW k \in InLoop \cup {"exit"},
             SaveThen(p, task, k)
      PROVE  BranchInv'
  <2>1. k # "reload"
    BY DEF InLoop
  <2> QED
    BY <1>4, <1>6, <2>1, OwnedFits, SaveThenBranch
<1>7. ASSUME NEW task, Owned(task, gitBranch), NEW l \in InLoop, Goto(p, l),
             mem' = [mem EXCEPT ![p] = task]
      PROVE  BranchInv'
  <2>1. l \notin {"save", "replace", "reload"}
    BY DEF InLoop
  <2>2. Fits(l, task, gitBranch)
    BY <1>7, OwnedFits
  <2> QED
    BY <1>4, <1>7, <2>1, <2>2, GotoBranch
<1>8. mem = [mem EXCEPT ![p] = mem[p]]
  BY <1>1
<1>9. {"plan", "check", "chat", "verify", "browser", "review", "checkpoint",
       "return"} \subseteq InLoop
  BY DEF InLoop
<1>a. CASE EnterLoop(p)
  <2>1. CASE Handle(p)
    BY <2>1, <1>3, <1>4, HandleBranch
  <2>2. CASE \E s \in {"running", "planning"}, k \in {"check", "plan"} :
               SaveThen(p, t(s), k)
    BY <2>2, <1>5, <1>6, <1>9 DEF Statuses
  <2>3. mem[p].intent # "none"
    BY <1>3 DEF Owned
  <2> QED
    BY <1>a, <2>1, <2>2, <2>3, EntersBy DEF t
<1>b. CASE CreatePlan(p)
  <2>1. Owned([t("running") EXCEPT !.planned = TRUE], gitBranch)
    <3>1. t("running") \in Task /\ Owned(t("running"), gitBranch)
      BY <1>5 DEF Statuses
    <3> QED
      BY <3>1 DEF Owned, Task
  <2>2. SaveThen(p, [t("running") EXCEPT !.planned = TRUE], "check")
    BY <1>b DEF CreatePlan, t
  <2> QED
    BY <2>1, <2>2, <1>6, <1>9
<1>c. CASE LimitReached(p)
  <2>1. SaveThen(p, t("failed"), "exit") /\ Owned(t("failed"), gitBranch)
    BY <1>c, <1>5 DEF LimitReached, t, Statuses
  <2> QED
    BY <2>1, <1>6
<1>d. CASE HonourStop(p)
  <2>1. SaveThen(p, t("cancelled"), "return")
        /\ Owned(t("cancelled"), gitBranch)
    BY <1>d, <1>5 DEF HonourStop, t, Statuses
  <2> QED
    BY <2>1, <1>6, <1>9
<1>e. CASE Iterate(p)
  <2>1. Owned([mem[p] EXCEPT !.iteration = @ + 1], gitBranch)
    BY <1>1, <1>3 DEF Owned, Task
  <2>2. mem' = [mem EXCEPT ![p] = [mem[p] EXCEPT !.iteration = @ + 1]]
    BY <1>e, <1>1 DEF Iterate
  <2>3. Goto(p, "chat")
    BY <1>e DEF Iterate
  <2> QED
    BY <2>1, <2>2, <2>3, <1>7, <1>9
<1>f. CASE ToolCall(p)
  <2>1. Owned([mem[p] EXCEPT !.acted = TRUE], gitBranch)
    BY <1>1, <1>3 DEF Owned, Task
  <2>2. Owned([t("needs_approval") EXCEPT !.acted = TRUE, !.pending = TRUE],
              gitBranch)
    <3>1. t("needs_approval") \in Task /\ Owned(t("needs_approval"), gitBranch)
      BY <1>5 DEF Statuses
    <3> QED
      BY <3>1 DEF Owned, Task
  <2>3. \/ SaveThen(p, [mem[p] EXCEPT !.acted = TRUE], "check")
        \/ SaveThen(p, [t("needs_approval")
                          EXCEPT !.acted = TRUE, !.pending = TRUE], "return")
    BY <1>f DEF ToolCall, t
  <2> QED
    BY <2>1, <2>2, <2>3, <1>6, <1>9
<1>g. CASE Final(p)
  <2>1. CASE mem[p].acted
    <3>1. /\ mem' = [mem EXCEPT ![p] = t("verifying")]
          /\ Goto(p, "verify")
          /\ Owned(t("verifying"), gitBranch)
      BY <1>g, <2>1, <1>1, <1>5 DEF Final, t, Statuses
    <3> QED
      BY <3>1, <1>7, <1>9
  <2>2. CASE ~mem[p].acted
    BY <1>g, <2>2, <1>3, <1>6, <1>9 DEF Final
  <2> QED
    BY <2>1, <2>2
<1>h. CASE Repair(p)
  <2>1. SaveThen(p, t("running"), "check") /\ Owned(t("running"), gitBranch)
    BY <1>h, <1>5 DEF Repair, t, Statuses
  <2> QED
    BY <2>1, <1>6, <1>9
<1>i. CASE Verify(p)
  <2>1. CASE Goto(p, "browser") /\ UNCHANGED mem
    BY <2>1, <1>3, <1>7, <1>8, <1>9
  <2>2. CASE SaveThen(p, t("blocked"), "return")
    BY <2>2, <1>5, <1>6, <1>9 DEF Statuses
  <2> QED
    BY <1>i, <1>h, <2>1, <2>2 DEF Verify, Pass, t
<1>j. CASE BrowserCheck(p)
  <2>1. CASE Goto(p, "review") /\ mem' = [mem EXCEPT ![p] = t("reviewing")]
    <3>1. Owned(t("reviewing"), gitBranch)
      BY <1>5 DEF Statuses
    <3> QED
      BY <2>1, <3>1, <1>7, <1>9
  <2> QED
    BY <1>j, <1>h, <2>1, <1>1 DEF BrowserCheck, Pass, t
<1>k. CASE Review(p)
  <2>1. CASE Goto(p, "checkpoint") /\ UNCHANGED mem
    BY <2>1, <1>3, <1>7, <1>8, <1>9
  <2> QED
    BY <1>k, <1>h, <2>1 DEF Review, Pass
<1>l. CASE Checkpoint(p)
  <2>1. \E s \in {"completed", "blocked"} : SaveThen(p, t(s), "return")
    BY <1>l DEF Checkpoint, t
  <2> QED
    BY <2>1, <1>5, <1>6, <1>9 DEF Statuses
<1>m. CASE LoopRaises(p)
  BY <1>m, <1>3, <1>4, HandleBranch DEF LoopRaises
<1>n. ~Normalize(p)
  BY <1>2 DEF Normalize, InLoop
<1> QED
  BY <1>a, <1>b, <1>c, <1>d, <1>e, <1>f, <1>g, <1>i, <1>j, <1>k, <1>l, <1>m,
     <1>n

-----------------------------------------------------------------------------

\* GitWorkflow.prepare: of an understood task; the branch it names is there.
LEMMA PrepareBranch ==
  ASSUME BranchInv, TypeOK', Alone, NEW p \in Procs,
         pc[p] \in {"prepare", "reprepare"},
         NEW k \in {"started", "ensure"}, PrepareThen(p, k)
  PROVE  BranchInv'
<1>1. mem[p] \in Task /\ Fits(Where(p), mem[p], gitBranch)
  BY DEF BranchInv, TypeOK
<1>2. mem[p].intent = "clear"
  BY <1>1 DEF Where, Fits
<1>3. disk' = disk
  BY DEF PrepareThen
<1>4. CASE gitBranch' = TRUE /\ SaveThen(p, [mem[p] EXCEPT !.branch = TRUE], k)
  <2>1. Owned([mem[p] EXCEPT !.branch = TRUE], gitBranch')
    BY <1>1, <1>2, <1>4 DEF Owned, Task
  <2>2. Fits("exit", [mem[p] EXCEPT !.branch = TRUE], gitBranch')
    BY <2>1, OwnedFits
  <2>3. k \notin InLoop \cup {"prepare", "reprepare", "interpret",
                              "normalize"}
    BY DEF InLoop
  <2>4. Fits(k, [mem[p] EXCEPT !.branch = TRUE], gitBranch')
    BY <2>2, <2>3, FitsElsewhere
  <2> QED
    BY <1>3, <1>4, <2>4, SaveThenBranch
<1>5. CASE /\ UNCHANGED gitBranch
           /\ \E n \in BOOLEAN :
                SaveThen(p, [Transition(mem[p], "blocked")
                               EXCEPT !.branch = n], "finished")
  <2>1. PICK n \in BOOLEAN :
          SaveThen(p, [Transition(mem[p], "blocked") EXCEPT !.branch = n],
                   "finished")
    BY <1>5
  <2> DEFINE task == [Transition(mem[p], "blocked") EXCEPT !.branch = n]
  <2>2. task.status = "blocked" /\ task.intent = "clear"
    BY <1>1, <1>2 DEF Transition, Task
  <2> HIDE DEF task
  <2>3. Fits("finished", task, gitBranch')
    BY <2>2 DEF Fits, LoopStatuses, InLoop
  <2> QED
    BY <1>3, <1>5, <2>1, <2>3, SaveThenBranch DEF task
<1> QED
  BY <1>4, <1>5 DEF PrepareThen

LEMMA ServiceBranch ==
  ASSUME BranchInv, TypeOK', Alone, NEW p \in Procs,
         \/ SaveRead(p) \/ SaveReplace(p) \/ SaveFails(p) \/ Interpret(p)
         \/ Prepare(p) \/ Execute(p) \/ PrepareClarified(p)
         \/ EnsureClarified(p) \/ Crash(p)
  PROVE  BranchInv'
<1>1. /\ mem[p] \in Task /\ Fits(Where(p), mem[p], gitBranch)
      /\ disk \in Task /\ Fits("idle", disk, gitBranch)
      /\ mem \in [Procs -> Task] /\ pc \in [Procs -> Labels]
      /\ next[p] \in InTry \cup OutOfTry
  BY DEF BranchInv, TypeOK
<1>2. mem = [mem EXCEPT ![p] = mem[p]]
  BY <1>1
<1>a. CASE SaveRead(p)
  <2> DEFINE task == AdoptStop(mem[p])
  <2>1. /\ task.status = mem[p].status /\ task.branch = mem[p].branch
        /\ task.intent = mem[p].intent
    BY <1>1 DEF AdoptStop, Task
  <2>2. mem' = [mem EXCEPT ![p] = task]
    BY <1>a, <1>1 DEF SaveRead
  <2> HIDE DEF task
  <2>3. Fits(next[p], task, gitBranch')
    BY <1>a, <1>1, <2>1 DEF Fits, Owned, Where, SaveRead
  <2>4. /\ mem'[p] = task /\ pc'[p] = "replace"
        /\ \A q \in Procs \ {p} :
             mem'[q] = mem[q] /\ pc'[q] = pc[q] /\ next'[q] = next[q]
        /\ next'[p] = next[p]
    BY <1>a, <1>1, <2>2 DEF SaveRead, Goto
  <2>5. Where(p)' = next[p]
    BY <2>4 DEF Where
  <2>6. next[p] # "reload"
    BY <1>1 DEF InTry, OutOfTry
  <2> QED
    BY <1>a, <2>3, <2>4, <2>5, <2>6, MoveKeepsBranch DEF SaveRead
<1>b. CASE SaveReplace(p)
  <2>1. disk' = mem[p] /\ gitBranch' = gitBranch
    BY <1>b DEF SaveReplace
  <2>2. CASE End(p)
    BY <2>1, <2>2, EndBranch
  <2>3. CASE Goto(p, next[p]) /\ UNCHANGED mem
    <3>1. next[p] \notin {"save", "replace", "reload"}
      BY <1>1 DEF InTry, OutOfTry
    <3>2. Fits(next[p], mem[p], gitBranch)
      BY <1>b, <1>1 DEF Where, SaveReplace
    <3> QED
      BY <1>2, <2>1, <2>3, <3>1, <3>2, GotoBranch
  <2> QED
    BY <1>b, <2>2, <2>3 DEF SaveReplace
<1>c. CASE SaveFails(p)
  <2>1. CASE next[p] \in InTry /\ Handle(p)
    <3>1. Owned(mem[p], gitBranch)
      BY <1>c, <1>1, <2>1 DEF SaveFails, Where, Fits, InTry, InLoop
    <3> QED
      BY <1>c, <2>1, <3>1, HandleBranch DEF SaveFails
  <2> QED
    BY <1>c, <2>1, EndBranch DEF SaveFails
<1>d. CASE Interpret(p)
  <2>1. ~mem[p].branch
    BY <1>d, <1>1 DEF Interpret, Where, Fits
  <2> DEFINE a == [Transition(mem[p], "needs_clarification")
                     EXCEPT !.intent = "unclear"]
             b == [Transition(mem[p], "created") EXCEPT !.intent = "clear"]
  <2>2. /\ a.status = "needs_clarification" /\ a.branch = mem[p].branch
        /\ b.status = "created" /\ b.intent = "clear"
    BY <1>1 DEF Transition, Task
  <2>3. SaveThen(p, a, "finished") \/ SaveThen(p, b, "prepare")
    BY <1>d DEF Interpret
  <2> HIDE DEF a, b
  <2>4. Fits("finished", a, gitBranch') /\ Fits("prepare", b, gitBranch')
    BY <2>1, <2>2 DEF Fits, LoopStatuses, InLoop
  <2> QED
    BY <1>d, <2>3, <2>4, SaveThenBranch DEF Interpret
<1>e. CASE Prepare(p)
  BY <1>e, PrepareBranch DEF Prepare
<1>f. CASE Execute(p)
  <2>1. disk' = disk /\ gitBranch' = gitBranch
    BY <1>f DEF Execute
  <2>2. CASE BranchUsable(disk) /\ mem' = [mem EXCEPT ![p] = disk]
             /\ Goto(p, "enter")
    <3>1. Owned(disk, gitBranch)
      BY <1>1, <2>2 DEF BranchUsable, Fits, Owned
    <3>2. Fits("enter", disk, gitBranch)
      BY <3>1, OwnedFits DEF InLoop
    <3> QED
      BY <2>1, <2>2, <3>2, GotoBranch
  <2>3. CASE SaveThen(p, Transition(disk, "blocked"), "finished")
    <3>1. /\ Transition(disk, "blocked").status = "blocked"
          /\ Transition(disk, "blocked").branch = disk.branch
          /\ Transition(disk, "blocked").intent = disk.intent
      BY <1>1 DEF Transition, Task
    <3>2. Fits("finished", Transition(disk, "blocked"), gitBranch')
      BY <1>1, <3>1 DEF Fits, LoopStatuses, InLoop
    <3> QED
      BY <2>1, <2>3, <3>2, SaveThenBranch
  <2>4. CASE End(p)
    BY <2>1, <2>4, EndBranch
  <2> QED
    BY <1>f, <2>2, <2>3, <2>4 DEF Execute
<1>g. CASE PrepareClarified(p)
  BY <1>g, PrepareBranch DEF PrepareClarified
<1>h. CASE EnsureClarified(p)
  <2>1. CASE BranchUsable(mem[p]) /\ SaveThen(p, mem[p], "enter")
    <3>1. Owned(mem[p], gitBranch)
      BY <1>1, <2>1 DEF BranchUsable, Fits, Owned
    <3>2. Fits("enter", mem[p], gitBranch)
      BY <3>1, OwnedFits DEF InLoop
    <3> QED
      BY <1>h, <2>1, <3>2, SaveThenBranch DEF EnsureClarified
  <2> QED
    BY <1>h, <2>1, EndBranch DEF EnsureClarified
<1>i. CASE Crash(p)
  BY <1>i, EndBranch DEF Crash
<1> QED
  BY <1>a, <1>b, <1>c, <1>d, <1>e, <1>f, <1>g, <1>h, <1>i

LEMMA CommandBranch ==
  ASSUME BranchInv, TypeOK', Alone, NEW p \in Procs,
         \/ Start(p) \/ Resume(p) \/ Reload(p) \/ Clarify(p)
         \/ RequestStop(p) \/ Rollback(p)
  PROVE  BranchInv'
<1>1. /\ disk \in Task /\ Fits("idle", disk, gitBranch)
      /\ runs + 1 \in Nat
  BY DEF BranchInv, TypeOK
<1>2. disk' = disk /\ gitBranch' = gitBranch
  BY DEF Start, Resume, Reload, Clarify, RequestStop, Rollback
\* The commands save a record that differs from the file in no field that
\* the branch has to do with.
<1>3. ASSUME NEW task, NEW k \in {"finished", "stopped"},
             SaveThen(p, task, k), task.status = disk.status,
             task.branch = disk.branch, task.intent = disk.intent
      PROVE  BranchInv'
  <2>1. Fits(k, task, gitBranch')
    BY <1>1, <1>2, <1>3 DEF Fits, Owned, InLoop
  <2> QED
    BY <1>2, <1>3, <2>1, SaveThenBranch
<1>a. CASE Start(p)
  <2> DEFINE task == Transition(NewTask(runs + 1), "interpreting")
  <2>1. task.status = "interpreting" /\ task.branch = FALSE
    BY DEF Transition, NewTask, NoTask
  <2>2. SaveThen(p, task, "interpret")
    BY <1>a DEF Start
  <2> HIDE DEF task
  <2>3. Fits("interpret", task, gitBranch')
    BY <2>1 DEF Fits, LoopStatuses, InLoop
  <2> QED
    BY <1>2, <2>2, <2>3, SaveThenBranch
<1>b. CASE Resume(p)
  <2>1. Owned(disk, gitBranch)
    BY <1>b, <1>1 DEF Resume, BranchUsable, Fits, Owned
  <2>2. Fits("reload", disk, gitBranch)
    BY <1>1, <2>1 DEF Fits, InLoop
  <2> QED
    BY <1>b, <1>2, <2>1, <2>2, GotoBranch DEF Resume
<1>f. CASE Reload(p)
  <2> DEFINE task == BeginNewRun(disk, runs + 1)
  <2>1. CASE mem' = [mem EXCEPT ![p] = task] /\ Goto(p, "enter")
    <3>1. Owned(disk, gitBranch)
      BY <1>f DEF Reload, BranchInv
    <3>2. task.branch = disk.branch /\ task.intent = disk.intent
      BY <1>1, NewRunKeeps
    <3> HIDE DEF task
    <3>3. Fits("enter", task, gitBranch)
      BY <3>1, <3>2, OwnedFits DEF Owned, InLoop
    <3> QED
      BY <1>2, <2>1, <3>3, GotoBranch
  <2>2. CASE End(p)
    BY <1>2, <2>2, EndBranch
  <2> QED
    BY <1>f, <2>1, <2>2 DEF Reload
<1>c. CASE Clarify(p)
  <2>1. CASE SaveThen(p, disk, "finished")
    BY <2>1, <1>3
  <2>2. CASE /\ mem' = [mem EXCEPT ![p] = [BeginNewRun(disk, runs + 1)
                                             EXCEPT !.intent = "clear"]]
             /\ Goto(p, IF disk.branch THEN "ensure" ELSE "reprepare")
    <3> DEFINE task == [BeginNewRun(disk, runs + 1) EXCEPT !.intent = "clear"]
    <3>1. task.status = "created" /\ task.intent = "clear"
      BY <1>1 DEF BeginNewRun, Task
    <3>2. mem' = [mem EXCEPT ![p] = task]
      BY <2>2
    <3> HIDE DEF task
    <3>3. \A l \in {"ensure", "reprepare"} :
            Fits(l, task, gitBranch) /\ l \notin {"save", "replace"}
      BY <3>1 DEF Fits, LoopStatuses, InLoop
    <3> QED
      BY <1>2, <2>2, <3>2, <3>3, GotoBranch
  <2> QED
    BY <1>c, <2>1, <2>2 DEF Clarify
<1>d. CASE RequestStop(p)
  <2>1. /\ [disk EXCEPT !.stop = TRUE].status = disk.status
        /\ [disk EXCEPT !.stop = TRUE].branch = disk.branch
        /\ [disk EXCEPT !.stop = TRUE].intent = disk.intent
    BY <1>1 DEF Task
  <2> QED
    BY <1>d, <2>1, <1>3 DEF RequestStop
<1>e. CASE Rollback(p)
  <2>1. /\ [disk EXCEPT !.rolledBack = TRUE].status = disk.status
        /\ [disk EXCEPT !.rolledBack = TRUE].branch = disk.branch
        /\ [disk EXCEPT !.rolledBack = TRUE].intent = disk.intent
    BY <1>1 DEF Task
  <2> QED
    BY <1>e, <2>1, <1>3 DEF Rollback
<1> QED
  BY <1>a, <1>b, <1>c, <1>d, <1>e, <1>f

LEMMA BranchInductive ==
  ASSUME Alone
  PROVE  Spec => []BranchInv
<1>1. Init => BranchInv
  <2> SUFFICES ASSUME Init PROVE BranchInv
    OBVIOUS
  <2>1. \A g \in BOOLEAN : Fits("idle", NoTask, g)
    BY DEF Fits, NoTask, LoopStatuses, InLoop
  <2>2. \A p \in Procs :
          Where(p) = "idle" /\ pc[p] = "idle" /\ mem[p] = NoTask
    BY DEF Init, Where
  <2> QED
    BY <2>1, <2>2, TypeInit DEF Init, BranchInv
<1>2. BranchInv /\ [Next]_vars => BranchInv'
  <2> SUFFICES ASSUME BranchInv, [Next]_vars PROVE BranchInv'
    OBVIOUS
  <2>1. TypeOK'
    BY TypeStep DEF BranchInv
  <2>2. ASSUME NEW p \in Procs, Step(p) \/ Crash(p) PROVE BranchInv'
    BY <2>1, <2>2, LoopBranch, ServiceBranch, CommandBranch DEF Step
  <2>3. ASSUME NEW p \in Runners, Start(p) \/ Resume(p) \/ Clarify(p)
        PROVE  BranchInv'
    BY <2>1, <2>3, CommandBranch DEF Procs
  <2>4. ASSUME NEW p \in Clients, RequestStop(p) \/ Rollback(p)
        PROVE  BranchInv'
    BY <2>1, <2>4, CommandBranch DEF Procs
  <2>5. CASE UNCHANGED vars
    BY <2>1, <2>5 DEF vars, BranchInv, Where
  <2> QED
    BY <2>2, <2>3, <2>4, <2>5 DEF Next
<1> QED
  BY <1>1, <1>2, PTL DEF Spec

\* A process that has the task for itself, whatever it is asked to do and
\* wherever it crashes: the file never shows a status of the loop (nor an end
\* that the loop reached) unless the request was understood and git has the
\* branch, so what resume() and rollback() need is there.  With a second
\* process it need not hold: see Reload.
THEOREM BranchOwned ==
  ASSUME NEW r, Runners = {r}, Clients \subseteq {r}
  PROVE  Spec => []LoopOwnsBranch
<1>1. BranchInv => LoopOwnsBranch
  BY DEF BranchInv, Fits, Owned, LoopStatuses, LoopOwnsBranch
<1>2. Alone
  BY DEF Alone, Procs
<1> QED
  BY <1>1, <1>2, BranchInductive, PTL

-----------------------------------------------------------------------------
(* An approval is on file exactly while the task waits for it *)

Waits(task) == /\ task.status = "needs_approval" => task.pending
               /\ task.pending => task.status \in {"needs_approval", "failed"}

\* Places of start() up to the reload in execute(), places where a runner's
\* copy has no approval pending, and places where a command may be.
Starting == {"interpret", "prepare", "started"}
Quiet    == (InLoop \ {"return"}) \cup Starting
              \cup {"reprepare", "ensure", "normalize"}
Calm     == {"idle", "stopped", "finished"}

Holds(label, task) == /\ Waits(task)
                      /\ label # "idle" => task.status # "absent"
                      /\ label \in Quiet => ~task.pending

\* Nothing has been persisted, or start() is still at work.
Fresh(r) == disk.status = "absent" \/ Where(r) \in Starting

\* ApprovalMatchesStatus alone is not inductive.  The runner must not carry an
\* approval into a new run or back into the loop, so its copy has none
\* pending; the copy it takes from the file in execute() has none either, and
\* for that neither has the file nor what a command may write while start()
\* is at work.
ApprovalInv(r) ==
  /\ TypeOK
  /\ Waits(disk)
  /\ \A p \in Procs : Holds(Where(p), mem[p])
  /\ \A q \in Procs \ {r} : Where(q) \in Calm
  /\ disk.status = "absent" =>
       ~disk.branch /\ \A q \in Procs \ {r} : Where(q) = "idle"
  /\ Fresh(r) =>
       /\ ~disk.pending
       /\ \A q \in Procs \ {r} : Where(q) # "idle" => ~mem[q].pending

\* Where p may go with which copy.
MayMove(r, p, label, task) ==
  /\ Holds(label, task)
  /\ p = r => (label \in Starting => Fresh(r))
  /\ p # r => /\ label \in Calm
              /\ label # "idle" => /\ disk.status # "absent"
                                   /\ Fresh(r) => ~task.pending

LEMMA MoveWaits ==
  ASSUME NEW r \in Procs, ApprovalInv(r), TypeOK', NEW p \in Procs,
         NEW l, NEW task, mem'[p] = task, Where(p)' = l,
         MayMove(r, p, l, task),
         \A q \in Procs \ {p} :
           mem'[q] = mem[q] /\ pc'[q] = pc[q] /\ next'[q] = next[q],
         \/ disk' = disk
         \/ /\ disk' = mem[p] /\ Where(p) # "idle"
            /\ task = mem[p] \/ l = "idle"
  PROVE  ApprovalInv(r)'
<1>1. \A q \in Procs \ {p} : Where(q)' = Where(q) /\ mem'[q] = mem[q]
  BY DEF Where
<1>2. \A q \in Procs : Holds(Where(q), mem[q])' 
  <2>1. Holds(Where(p)', mem'[p])
    BY DEF MayMove
  <2>2. \A q \in Procs : Holds(Where(q)', mem'[q])
    BY <1>1, <2>1 DEF ApprovalInv
  <2> QED
    BY <2>2 DEF Holds, Waits
<1>3. \A q \in Procs \ {r} : Where(q)' \in Calm
  BY <1>1 DEF ApprovalInv, MayMove
<1>4. Waits(disk)'
  BY DEF ApprovalInv, Holds, Waits
<1>5. disk'.status = "absent" =>
        ~disk'.branch /\ \A q \in Procs \ {r} : Where(q)' = "idle"
  <2> SUFFICES ASSUME disk'.status = "absent"
               PROVE  ~disk'.branch
                      /\ \A q \in Procs \ {r} : Where(q)' = "idle"
    OBVIOUS
  <2>1. disk' = disk
    BY DEF ApprovalInv, Holds
  <2> QED
    BY <1>1, <2>1 DEF ApprovalInv, MayMove
<1>6. Fresh(r)' =>
        /\ ~disk'.pending
        /\ \A q \in Procs \ {r} : Where(q)' # "idle" => ~mem'[q].pending
  <2> SUFFICES ASSUME Fresh(r)'
               PROVE  /\ ~disk'.pending
                      /\ \A q \in Procs \ {r} :
                           Where(q)' # "idle" => ~mem'[q].pending
    OBVIOUS
  <2>1. Fresh(r)
    <3>1. CASE disk'.status = "absent"
      BY <3>1 DEF ApprovalInv, Holds, Fresh
    <3>2. CASE Where(r)' \in Starting
      <4>1. CASE p = r
        BY <3>2, <4>1 DEF MayMove
      <4>2. CASE p # r
        BY <1>1, <3>2, <4>2 DEF Fresh
      <4> QED
        BY <4>1, <4>2
    <3> QED
      BY <3>1, <3>2 DEF Fresh
  <2>2. ~disk'.pending
    <3>1. CASE disk' = disk
      BY <2>1, <3>1 DEF ApprovalInv
    <3>2. CASE disk' = mem[p] /\ Where(p) # "idle" /\ p # r
      BY <2>1, <3>2 DEF ApprovalInv
    <3>3. CASE /\ disk' = mem[p] /\ Where(p) # "idle" /\ p = r
               /\ (task = mem[p] \/ l = "idle")
      <4>1. disk'.status # "absent"
        BY <3>3 DEF ApprovalInv, Holds
      <4>2. Where(r)' \in Starting
        BY <4>1 DEF Fresh
      <4>3. l \in Quiet /\ l # "idle"
        BY <3>3, <4>2 DEF Quiet, Starting
      <4> QED
        BY <3>3, <4>3 DEF MayMove, Holds
    <3> QED
      BY <3>1, <3>2, <3>3
  <2>3. ASSUME NEW q \in Procs \ {r}, Where(q)' # "idle"
        PROVE  ~mem'[q].pending
    <3>1. CASE q = p
      BY <2>1, <2>3, <3>1 DEF MayMove
    <3>2. CASE q # p
      BY <1>1, <2>1, <2>3, <3>2 DEF ApprovalInv
    <3> QED
      BY <3>1, <3>2
  <2> QED
    BY <2>2, <2>3
<1> QED
  BY <1>2, <1>3, <1>4, <1>5, <1>6 DEF ApprovalInv

LEMMA SaveThenWaits ==
  ASSUME NEW r \in Procs, ApprovalInv(r), TypeOK', NEW p \in Procs, NEW task,
         NEW k, SaveThen(p, task, k), MayMove(r, p, k, task), disk' = disk
  PROVE  ApprovalInv(r)'
<1>1. /\ mem'[p] = task /\ pc'[p] = "save" /\ next'[p] = k
      /\ \A q \in Procs \ {p} :
           mem'[q] = mem[q] /\ pc'[q] = pc[q] /\ next'[q] = next[q]
  BY DEF SaveThen, ApprovalInv, TypeOK
<1>2. Where(p)' = k
  BY <1>1 DEF Where
<1> QED
  BY <1>1, <1>2, MoveWaits

LEMMA EndWaits ==
  ASSUME NEW r \in Procs, ApprovalInv(r), TypeOK', NEW p \in Procs, End(p),
         disk' = disk \/ (disk' = mem[p] /\ Where(p) # "idle")
  PROVE  ApprovalInv(r)'
<1>1. /\ mem'[p] = NoTask /\ pc'[p] = "idle"
      /\ \A q \in Procs \ {p} :
           mem'[q] = mem[q] /\ pc'[q] = pc[q] /\ next'[q] = next[q]
  BY DEF End, ApprovalInv, TypeOK
<1>2. Where(p)' = "idle" /\ MayMove(r, p, "idle", NoTask)
  BY <1>1 DEF Where, MayMove, Holds, Waits, NoTask, Quiet, Starting, Calm,
              InLoop
<1> QED
  BY <1>1, <1>2, MoveWaits

LEMMA GotoWaits ==
  ASSUME NEW r \in Procs, ApprovalInv(r), TypeOK', NEW p \in Procs, NEW l,
         NEW task, Goto(p, l), l \notin {"save", "replace"},
         mem' = [mem EXCEPT ![p] = task], MayMove(r, p, l, task),
         \/ disk' = disk
         \/ disk' = mem[p] /\ Where(p) # "idle" /\ task = mem[p]
  PROVE  ApprovalInv(r)'
<1>1. /\ mem'[p] = task /\ pc'[p] = l
      /\ \A q \in Procs \ {p} :
           mem'[q] = mem[q] /\ pc'[q] = pc[q] /\ next'[q] = next[q]
  BY DEF Goto, ApprovalInv, TypeOK
<1>2. Where(p)' = l
  BY <1>1 DEF Where
<1> QED
  BY <1>1, <1>2, MoveWaits

\* A record without an approval, of a task that does not wait for one, may be
\* held anywhere.
Free(task) == ~task.pending /\ task.status \notin {"absent", "needs_approval"}

LEMMA FreeHolds ==
  ASSUME NEW task, Free(task), NEW l
  PROVE  Holds(l, task)
  BY DEF Free, Holds, Waits

LEMMA NewRunFree ==
  ASSUME NEW task \in Task, NEW n \in Nat
  PROVE  /\ Free(BeginNewRun(task, n))
         /\ Free([BeginNewRun(task, n) EXCEPT !.intent = "clear"])
<1>1. /\ BeginNewRun(task, n) \in Task
      /\ BeginNewRun(task, n).status = "created"
      /\ BeginNewRun(task, n).pending = FALSE
  BY NewRunKeeps
<1> QED
  BY <1>1 DEF Free, Task

\* The handler may find an approval pending, when the save of the waiting
\* task failed; the task then is FAILED.
LEMMA HandleWaits ==
  ASSUME NEW r \in Procs, ApprovalInv(r), TypeOK', Handle(r), disk' = disk
  PROVE  ApprovalInv(r)'
<1>1. mem[r] \in Task /\ "failed" \in Statuses
  BY DEF Statuses, ApprovalInv, TypeOK
<1>2. Transition(mem[r], "failed").status = "failed"
  BY <1>1, TransitionKeeps
<1>3. MayMove(r, r, "exit", Transition(mem[r], "failed"))
  BY <1>2 DEF MayMove, Holds, Waits, Quiet, Starting, InLoop
<1> QED
  BY <1>3, SaveThenWaits, EndWaits DEF Handle

-----------------------------------------------------------------------------

LEMMA LoopWaits ==
  ASSUME NEW r \in Procs, ApprovalInv(r), TypeOK', NEW p \in Procs,
         \/ EnterLoop(p) \/ Normalize(p) \/ CreatePlan(p)
         \/ LimitReached(p) \/ HonourStop(p) \/ Iterate(p)
         \/ ToolCall(p) \/ Final(p) \/ Verify(p) \/ BrowserCheck(p)
         \/ Review(p) \/ Checkpoint(p) \/ LoopRaises(p)
  PROVE  ApprovalInv(r)'
<1> DEFINE t(s) == Transition(mem[p], s)
<1>1. pc[p] \in (InLoop \ {"return"}) \cup {"normalize"} /\ disk' = disk
  BY DEF EnterLoop, Normalize, CreatePlan, LimitReached, HonourStop, Iterate,
         ToolCall, Final, Verify, BrowserCheck, Review, Checkpoint, LoopRaises,
         Raising, InLoop
<1>2. Where(p) = pc[p] /\ pc[p] \in Quiet /\ pc[p] \notin Calm
  BY <1>1 DEF Where, InLoop, Quiet, Calm
<1>3. p = r
  BY <1>2 DEF ApprovalInv
<1>4. /\ mem[p] \in Task /\ mem \in [Procs -> Task]
      /\ mem = [mem EXCEPT ![p] = mem[p]]
  BY DEF ApprovalInv, TypeOK
<1>5. Free(mem[p])
  <2>1. Holds(Where(p), mem[p])
    BY DEF ApprovalInv
  <2> QED
    BY <1>2, <2>1 DEF Holds, Waits, Free, Calm
<1>6. \A s \in Statuses \ {"needs_approval"} : t(s) \in Task /\ Free(t(s))
  <2> TAKE s \in Statuses \ {"needs_approval"}
  <2>1. s # "absent"
    BY DEF Statuses
  <2> QED
    BY <1>4, <1>5, <2>1, TransitionKeeps DEF Free
<1> HIDE DEF t
<1>7. ASSUME NEW task, Holds("return", task) \/ Free(task),
             NEW k \in {"normalize", "plan", "check", "return", "exit"},
             Free(task) \/ k = "return", SaveThen(p, task, k)
      PROVE  ApprovalInv(r)'
  <2>1. k \notin Starting
    BY DEF Starting
  <2>2. Holds(k, task)
    BY <1>7, FreeHolds
  <2> QED
    BY <1>1, <1>3, <1>7, <2>1, <2>2, SaveThenWaits DEF MayMove
<1>8. ASSUME NEW task, Free(task),
             \/ Goto(p, "enter") \/ Goto(p, "chat") \/ Goto(p, "verify")
             \/ Goto(p, "browser") \/ Goto(p, "review")
             \/ Goto(p, "checkpoint"),
             mem' = [mem EXCEPT ![p] = task]
      PROVE  ApprovalInv(r)'
  <2>1. PICK l \in {"enter", "chat", "verify", "browser", "review",
                     "checkpoint"} : Goto(p, l)
    BY <1>8
  <2>2. l \notin Starting /\ l \notin {"save", "replace"}
    BY DEF Starting
  <2>3. MayMove(r, p, l, task)
    BY <1>3, <1>8, <2>2, FreeHolds DEF MayMove
  <2> QED
    BY <1>1, <1>8, <2>1, <2>2, <2>3, GotoWaits
<1>a. CASE EnterLoop(p)
  <2>1. CASE Handle(p)
    BY <2>1, <1>1, <1>3, HandleWaits
  <2>2. CASE \E s \in {"interpreting", "running", "planning"},
                k \in {"normalize", "check", "plan"} : SaveThen(p, t(s), k)
    BY <2>2, <1>6, <1>7 DEF Statuses
  <2> QED
    BY <1>a, <2>1, <2>2, EntersBy DEF t
<1>d. CASE Normalize(p)
  <2> DEFINE a == [t("needs_clarification") EXCEPT !.intent = "unclear"]
             b == [mem[p] EXCEPT !.intent = "clear"]
  <2>1. Free(a) /\ Free(b)
    <3>1. t("needs_clarification") \in Task /\ Free(t("needs_clarification"))
      BY <1>6 DEF Statuses
    <3> QED
      BY <3>1, <1>4, <1>5 DEF Free, Task
  <2>2. \/ SaveThen(p, a, "return")
        \/ mem' = [mem EXCEPT ![p] = b] /\ Goto(p, "enter")
    BY <1>d, <1>4 DEF Normalize, t
  <2> HIDE DEF a, b
  <2> QED
    BY <2>1, <2>2, <1>7, <1>8
<1>b. CASE CreatePlan(p)
  <2>1. Free([t("running") EXCEPT !.planned = TRUE])
    <3>1. t("running") \in Task /\ Free(t("running"))
      BY <1>6 DEF Statuses
    <3> QED
      BY <3>1 DEF Free, Task
  <2>2. SaveThen(p, [t("running") EXCEPT !.planned = TRUE], "check")
    BY <1>b DEF CreatePlan, t
  <2> QED
    BY <2>1, <2>2, <1>7
<1>c. CASE LimitReached(p) \/ HonourStop(p)
  <2>1. \/ SaveThen(p, t("failed"), "exit")
        \/ SaveThen(p, t("cancelled"), "return")
    BY <1>c DEF LimitReached, HonourStop, t
  <2>2. Free(t("failed")) /\ Free(t("cancelled"))
    BY <1>6 DEF Statuses
  <2> QED
    BY <2>1, <2>2, <1>7
<1>e. CASE Iterate(p)
  <2>1. Free([mem[p] EXCEPT !.iteration = @ + 1])
    BY <1>4, <1>5 DEF Free, Task
  <2>2. mem' = [mem EXCEPT ![p] = [mem[p] EXCEPT !.iteration = @ + 1]]
    BY <1>e, <1>4 DEF Iterate
  <2>3. Goto(p, "chat")
    BY <1>e DEF Iterate
  <2> QED
    BY <2>1, <2>2, <2>3, <1>8
<1>f. CASE ToolCall(p)
  <2>1. Free([mem[p] EXCEPT !.acted = TRUE])
    BY <1>4, <1>5 DEF Free, Task
  <2> DEFINE w == [t("needs_approval") EXCEPT !.acted = TRUE, !.pending = TRUE]
  <2>2. w.status = "needs_approval" /\ w.pending
    <3>1. t("needs_approval") \in Task /\ t("needs_approval").status
                                            = "needs_approval"
      BY <1>4, TransitionKeeps DEF t, Statuses
    <3> QED
      BY <3>1 DEF Task
  <2>3. \/ SaveThen(p, [mem[p] EXCEPT !.acted = TRUE], "check")
        \/ SaveThen(p, w, "return")
    BY <1>f DEF ToolCall, t
  <2> HIDE DEF w
  <2>4. Holds("return", w)
    BY <2>2 DEF Holds, Waits, Quiet, InLoop, Starting
  <2> QED
    BY <2>1, <2>3, <2>4, <1>7
<1>g. CASE Final(p)
  <2>1. CASE mem[p].acted
    <3>1. /\ mem' = [mem EXCEPT ![p] = t("verifying")]
          /\ Goto(p, "verify")
          /\ Free(t("verifying"))
      BY <1>g, <2>1, <1>4, <1>6 DEF Final, t, Statuses
    <3> QED
      BY <3>1, <1>8
  <2>2. CASE ~mem[p].acted
    BY <1>g, <2>2, <1>5, <1>7 DEF Final
  <2> QED
    BY <2>1, <2>2
<1>h. CASE Repair(p)
  <2>1. SaveThen(p, t("running"), "check") /\ Free(t("running"))
    BY <1>h, <1>6 DEF Repair, t, Statuses
  <2> QED
    BY <2>1, <1>7
<1>i. CASE Verify(p)
  <2>1. CASE Goto(p, "browser") /\ UNCHANGED mem
    BY <2>1, <1>4, <1>5, <1>8
  <2>2. CASE SaveThen(p, t("blocked"), "return")
    BY <2>2, <1>6, <1>7 DEF Statuses
  <2> QED
    BY <1>i, <1>h, <2>1, <2>2 DEF Verify, Pass, t
<1>j. CASE BrowserCheck(p)
  <2>1. CASE Goto(p, "review") /\ mem' = [mem EXCEPT ![p] = t("reviewing")]
    <3>1. Free(t("reviewing"))
      BY <1>6 DEF Statuses
    <3> QED
      BY <2>1, <3>1, <1>8
  <2> QED
    BY <1>j, <1>h, <2>1, <1>4 DEF BrowserCheck, Pass, t
<1>k. CASE Review(p)
  <2>1. CASE Goto(p, "checkpoint") /\ UNCHANGED mem
    BY <2>1, <1>4, <1>5, <1>8
  <2> QED
    BY <1>k, <1>h, <2>1 DEF Review, Pass
<1>l. CASE Checkpoint(p)
  <2>1. \E s \in {"completed", "blocked"} : SaveThen(p, t(s), "return")
    BY <1>l DEF Checkpoint, t
  <2> QED
    BY <2>1, <1>6, <1>7 DEF Statuses
<1>m. CASE LoopRaises(p)
  BY <1>m, <1>1, <1>3, HandleWaits DEF LoopRaises
<1> QED
  BY <1>a, <1>b, <1>c, <1>d, <1>e, <1>f, <1>g, <1>i, <1>j, <1>k, <1>l,
     <1>m

-----------------------------------------------------------------------------

\* GitWorkflow.prepare is reached by the runner only.
LEMMA PrepareWaits ==
  ASSUME NEW r \in Procs, ApprovalInv(r), TypeOK', NEW p \in Procs,
         NEW k \in {"started", "ensure"}, PrepareThen(p, k),
         \/ pc[p] = "prepare"
         \/ pc[p] = "reprepare" /\ k = "ensure"
  PROVE  ApprovalInv(r)'
<1>1. Where(p) = pc[p] /\ pc[p] \in Quiet /\ pc[p] \notin Calm
  BY DEF Where, Quiet, Calm, Starting
<1>2. p = r
  BY <1>1 DEF ApprovalInv
<1>3. mem[p] \in Task /\ Free(mem[p])
  <2>1. Holds(Where(p), mem[p]) /\ mem[p] \in Task
    BY DEF ApprovalInv, TypeOK
  <2> QED
    BY <1>1, <2>1 DEF Holds, Waits, Free, Calm
<1>4. disk' = disk
  BY DEF PrepareThen
<1>5. Free([mem[p] EXCEPT !.branch = TRUE])
  BY <1>3 DEF Free, Task
<1>6. \A n \in BOOLEAN :
        Free([Transition(mem[p], "blocked") EXCEPT !.branch = n])
  <2>1. /\ Transition(mem[p], "blocked") \in Task
        /\ Free(Transition(mem[p], "blocked"))
    BY <1>3, TransitionKeeps DEF Free, Statuses
  <2> QED
    BY <2>1 DEF Free, Task
<1>7. k \in Starting => Fresh(r)
  BY <1>1, <1>2 DEF Fresh, Starting
<1>8. CASE SaveThen(p, [mem[p] EXCEPT !.branch = TRUE], k)
  BY <1>2, <1>4, <1>5, <1>7, <1>8, FreeHolds, SaveThenWaits DEF MayMove
<1>9. CASE \E n \in BOOLEAN :
             SaveThen(p, [Transition(mem[p], "blocked") EXCEPT !.branch = n],
                      "finished")
  <2>1. PICK n \in BOOLEAN :
          SaveThen(p, [Transition(mem[p], "blocked") EXCEPT !.branch = n],
                   "finished")
    BY <1>9
  <2>2. "finished" \notin Starting
    BY DEF Starting
  <2> QED
    BY <1>2, <1>4, <1>6, <2>1, <2>2, FreeHolds, SaveThenWaits DEF MayMove
<1> QED
  BY <1>8, <1>9 DEF PrepareThen

LEMMA SaveWaits ==
  ASSUME NEW r \in Procs, ApprovalInv(r), TypeOK', NEW p \in Procs,
         SaveRead(p) \/ SaveReplace(p) \/ SaveFails(p) \/ Crash(p)
  PROVE  ApprovalInv(r)'
<1>1. /\ mem[p] \in Task /\ mem \in [Procs -> Task]
      /\ disk \in Task /\ pc \in [Procs -> Labels]
      /\ next[p] \in InTry \cup OutOfTry
      /\ Holds(Where(p), mem[p])
      /\ p # r => Where(p) \in Calm
  BY DEF ApprovalInv, TypeOK
<1>2. next[p] # "idle" /\ next[p] \notin {"save", "replace"}
  BY <1>1 DEF InTry, OutOfTry
\* A save leads where it was going to lead.
<1>3. ASSUME pc[p] \in {"save", "replace"}, NEW task,
             task.status = mem[p].status, task.pending = mem[p].pending
      PROVE  Where(p) = next[p] /\ MayMove(r, p, next[p], task)
  <2>1. Where(p) = next[p]
    BY <1>3 DEF Where
  <2>2. Holds(next[p], task)
    BY <1>1, <1>3, <2>1 DEF Holds, Waits
  <2>3. p # r => disk.status # "absent" /\ (Fresh(r) => ~mem[p].pending)
    BY <1>2, <2>1 DEF ApprovalInv
  <2>4. p = r => (next[p] \in Starting => Fresh(r))
    BY <2>1 DEF Fresh
  <2> QED
    BY <1>1, <1>3, <2>1, <2>2, <2>3, <2>4 DEF MayMove
<1>a. CASE SaveRead(p)
  <2> DEFINE task == AdoptStop(mem[p])
  <2>1. task.status = mem[p].status /\ task.pending = mem[p].pending
    BY <1>1 DEF AdoptStop, Task
  <2>2. mem' = [mem EXCEPT ![p] = task]
    BY <1>a, <1>1 DEF SaveRead
  <2> HIDE DEF task
  <2>3. MayMove(r, p, next[p], task)
    BY <1>a, <1>3, <2>1 DEF SaveRead
  <2>4. /\ mem'[p] = task /\ pc'[p] = "replace" /\ next'[p] = next[p]
        /\ \A q \in Procs \ {p} :
             mem'[q] = mem[q] /\ pc'[q] = pc[q] /\ next'[q] = next[q]
    BY <1>a, <1>1, <2>2 DEF SaveRead, Goto
  <2>5. Where(p)' = next[p] /\ disk' = disk
    BY <1>a, <2>4 DEF Where, SaveRead
  <2> QED
    BY <2>3, <2>4, <2>5, MoveWaits
<1>b. CASE SaveReplace(p)
  <2>1. disk' = mem[p] /\ Where(p) = next[p] /\ Where(p) # "idle"
    BY <1>b, <1>2, <1>3 DEF SaveReplace
  <2>2. CASE End(p)
    BY <2>1, <2>2, EndWaits
  <2>3. CASE Goto(p, next[p]) /\ UNCHANGED mem
    <3>1. MayMove(r, p, next[p], mem[p])
      BY <1>b, <1>3 DEF SaveReplace
    <3>2. mem' = [mem EXCEPT ![p] = mem[p]]
      BY <1>1, <2>3
    <3> QED
      BY <1>2, <2>1, <2>3, <3>1, <3>2, GotoWaits
  <2> QED
    BY <1>b, <2>2, <2>3 DEF SaveReplace
<1>c. CASE SaveFails(p)
  <2>1. CASE next[p] \in InTry /\ Handle(p)
    <3>1. Where(p) \notin Calm
      BY <1>c, <2>1 DEF SaveFails, Where, InTry, Calm
    <3>2. p = r
      BY <1>1, <3>1
    <3> QED
      BY <1>c, <2>1, <3>2, HandleWaits DEF SaveFails
  <2> QED
    BY <1>c, <2>1, EndWaits DEF SaveFails
<1>d. CASE Crash(p)
  BY <1>d, EndWaits DEF Crash
<1> QED
  BY <1>a, <1>b, <1>c, <1>d

LEMMA ServiceWaits ==
  ASSUME NEW r \in Procs, ApprovalInv(r), TypeOK', NEW p \in Procs,
         \/ Interpret(p) \/ Prepare(p) \/ Execute(p) \/ PrepareClarified(p)
         \/ EnsureClarified(p)
  PROVE  ApprovalInv(r)'
<1>1. /\ pc[p] \in {"interpret", "prepare", "started", "reprepare", "ensure"}
      /\ disk' = disk
  BY DEF Interpret, Prepare, PrepareThen, Execute, PrepareClarified,
         EnsureClarified
<1>2. Where(p) = pc[p] /\ pc[p] \in Quiet /\ pc[p] \notin Calm
  BY <1>1 DEF Where, Quiet, Calm, Starting
<1>3. p = r
  BY <1>2 DEF ApprovalInv
<1>4. mem[p] \in Task /\ Free(mem[p]) /\ disk \in Task
  <2>1. Holds(Where(p), mem[p]) /\ mem[p] \in Task /\ disk \in Task
    BY DEF ApprovalInv, TypeOK
  <2> QED
    BY <1>2, <2>1 DEF Holds, Waits, Free, Calm
<1>5. ASSUME NEW task, Free(task), NEW k, SaveThen(p, task, k),
             k \in Starting => Fresh(r)
      PROVE  ApprovalInv(r)'
  BY <1>1, <1>3, <1>5, FreeHolds, SaveThenWaits DEF MayMove
<1>6. "enter" \notin Starting /\ "finished" \notin Starting
  BY DEF Starting
<1>a. CASE Interpret(p)
  <2> DEFINE a == [Transition(mem[p], "needs_clarification")
                     EXCEPT !.intent = "unclear"]
             b == [Transition(mem[p], "created") EXCEPT !.intent = "clear"]
  <2>1. Free(a) /\ Free(b)
    <3>1. /\ Transition(mem[p], "needs_clarification") \in Task
          /\ Free(Transition(mem[p], "needs_clarification"))
          /\ Transition(mem[p], "created") \in Task
          /\ Free(Transition(mem[p], "created"))
      BY <1>4, TransitionKeeps DEF Free, Statuses
    <3> QED
      BY <3>1 DEF Free, Task
  <2>2. Fresh(r)
    BY <1>a, <1>2, <1>3 DEF Interpret, Fresh, Starting
  <2>3. SaveThen(p, a, "finished") \/ SaveThen(p, b, "prepare")
    BY <1>a DEF Interpret
  <2> HIDE DEF a, b
  <2> QED
    BY <1>5, <2>1, <2>2, <2>3
<1>b. CASE Prepare(p)
  BY <1>b, PrepareWaits DEF Prepare
<1>c. CASE Execute(p)
  <2>1. ~disk.pending /\ Waits(disk)
    BY <1>c, <1>2, <1>3 DEF Execute, ApprovalInv, Fresh, Starting
  <2>2. CASE BranchUsable(disk) /\ mem' = [mem EXCEPT ![p] = disk]
             /\ Goto(p, "enter")
    <3>1. Free(disk)
      BY <2>1, <2>2 DEF ApprovalInv, Free, Waits, BranchUsable
    <3>2. MayMove(r, p, "enter", disk)
      BY <1>3, <1>6, <3>1, FreeHolds DEF MayMove
    <3> QED
      BY <1>1, <2>2, <3>2, GotoWaits
  <2>3. CASE SaveThen(p, Transition(disk, "blocked"), "finished")
    <3>1. Free(Transition(disk, "blocked"))
      BY <1>4, <2>1, TransitionKeeps DEF Free, Statuses
    <3> QED
      BY <1>5, <1>6, <2>3, <3>1
  <2>4. CASE End(p)
    BY <1>1, <2>4, EndWaits
  <2> QED
    BY <1>c, <2>2, <2>3, <2>4 DEF Execute
<1>d. CASE PrepareClarified(p)
  BY <1>d, PrepareWaits DEF PrepareClarified
<1>e. CASE EnsureClarified(p)
  BY <1>e, <1>1, <1>4, <1>5, <1>6, EndWaits DEF EnsureClarified
<1> QED
  BY <1>a, <1>b, <1>c, <1>d, <1>e

\* What puts the runner to work; r may be a client as well.
LEMMA RunnerWaits ==
  ASSUME NEW r \in Procs, ApprovalInv(r), TypeOK',
         Start(r) \/ Resume(r) \/ Reload(r) \/ Clarify(r)
  PROVE  ApprovalInv(r)'
<1>1. /\ disk \in Task /\ runs + 1 \in Nat /\ Waits(disk)
  BY DEF ApprovalInv, TypeOK
<1>2. disk' = disk
  BY DEF Start, Resume, Reload, Clarify
<1>a. CASE Start(r)
  <2> DEFINE task == Transition(NewTask(runs + 1), "interpreting")
  <2>1. Free(task)
    BY DEF Free, Transition, NewTask, NoTask
  <2>2. SaveThen(r, task, "interpret") /\ Fresh(r)
    BY <1>a DEF Start, Fresh, NoTask
  <2> HIDE DEF task
  <2> QED
    BY <1>2, <2>1, <2>2, FreeHolds, SaveThenWaits DEF MayMove
<1>b. CASE Resume(r)
  <2>1. disk.status # "absent"
    BY <1>b DEF Resume
  <2>2. MayMove(r, r, "reload", disk)
    BY <2>1, <1>1 DEF MayMove, Holds, Quiet, InLoop, Starting
  <2> QED
    BY <1>b, <1>2, <2>2, GotoWaits DEF Resume
<1>d. CASE Reload(r)
  <2> DEFINE task == BeginNewRun(disk, runs + 1)
  <2>1. CASE mem' = [mem EXCEPT ![r] = task] /\ Goto(r, "enter")
    <3>1. Free(task)
      BY <1>1, NewRunFree
    <3> HIDE DEF task
    <3>2. MayMove(r, r, "enter", task)
      BY <3>1, FreeHolds DEF MayMove, Starting
    <3> QED
      BY <1>2, <2>1, <3>2, GotoWaits
  <2>2. CASE End(r)
    BY <1>2, <2>2, EndWaits
  <2> QED
    BY <1>d, <2>1, <2>2 DEF Reload
<1>c. CASE Clarify(r)
  <2>1. CASE SaveThen(r, disk, "finished")
    <3>1. Free(disk)
      BY <1>c, <1>1 DEF Clarify, Waits, Free
    <3>2. MayMove(r, r, "finished", disk)
      BY <3>1, FreeHolds DEF MayMove, Starting
    <3> QED
      BY <1>2, <2>1, <3>2, SaveThenWaits
  <2>2. CASE /\ mem' = [mem EXCEPT ![r] = [BeginNewRun(disk, runs + 1)
                                             EXCEPT !.intent = "clear"]]
             /\ Goto(r, IF disk.branch THEN "ensure" ELSE "reprepare")
    <3> DEFINE task == [BeginNewRun(disk, runs + 1) EXCEPT !.intent = "clear"]
    <3>1. mem' = [mem EXCEPT ![r] = task] /\ Free(task)
      BY <2>2, <1>1, NewRunFree
    <3> HIDE DEF task
    <3>2. \A l \in {"ensure", "reprepare"} :
            MayMove(r, r, l, task) /\ l \notin {"save", "replace"}
      BY <3>1, FreeHolds DEF MayMove, Starting
    <3> QED
      BY <1>2, <2>2, <3>1, <3>2, GotoWaits
  <2> QED
    BY <1>c, <2>1, <2>2 DEF Clarify
<1> QED
  BY <1>a, <1>b, <1>c, <1>d

LEMMA ClientWaits ==
  ASSUME NEW r \in Procs, ApprovalInv(r), TypeOK', NEW p \in Procs,
         RequestStop(p) \/ Rollback(p)
  PROVE  ApprovalInv(r)'
<1>1. disk \in Task /\ Waits(disk) /\ disk' = disk
  BY DEF ApprovalInv, TypeOK, RequestStop, Rollback
<1>2. disk.status # "absent"
  BY DEF ApprovalInv, RequestStop, Rollback, BranchUsable
<1>3. ASSUME NEW task, NEW k \in {"finished", "stopped"},
             SaveThen(p, task, k), task.status = disk.status,
             task.pending = disk.pending
      PROVE  ApprovalInv(r)'
  <2>1. Holds(k, task)
    BY <1>1, <1>2, <1>3 DEF Holds, Waits, Quiet, InLoop, Starting
  <2>2. k \notin Starting /\ k \in Calm
    BY DEF Starting, Calm
  <2>3. Fresh(r) => ~disk.pending
    BY DEF ApprovalInv
  <2>4. MayMove(r, p, k, task)
    BY <1>2, <1>3, <2>1, <2>2, <2>3 DEF MayMove
  <2> QED
    BY <1>1, <1>3, <2>4, SaveThenWaits
<1>4. /\ [disk EXCEPT !.stop = TRUE].status = disk.status
      /\ [disk EXCEPT !.stop = TRUE].pending = disk.pending
      /\ [disk EXCEPT !.rolledBack = TRUE].status = disk.status
      /\ [disk EXCEPT !.rolledBack = TRUE].pending = disk.pending
  BY <1>1 DEF Task
<1> QED
  BY <1>3, <1>4 DEF RequestStop, Rollback

\* With one process that runs the task, and any number that stop it or roll
\* it back: the file says "needs_approval" exactly when it holds the request
\* the user is to decide on; only a run that failed while it saved that
\* state may leave the request behind.  (A second runner breaks it: execute()
\* would take over a file that meanwhile waits for the other's approval.)
THEOREM ApprovalsMatch ==
  ASSUME NEW r, Runners = {r}
  PROVE  Spec => []ApprovalMatchesStatus
<1>0. r \in Procs
  BY DEF Procs
<1>1. Init => ApprovalInv(r)
  <2> SUFFICES ASSUME Init PROVE ApprovalInv(r)
    OBVIOUS
  <2>1. \A p \in Procs : Where(p) = "idle" /\ mem[p] = NoTask
    BY DEF Init, Where
  <2>2. Holds("idle", NoTask) /\ "idle" \in Calm /\ "idle" \notin Starting
    BY DEF Holds, Waits, NoTask, Quiet, InLoop, Starting, Calm
  <2>3. disk = NoTask /\ ~NoTask.pending /\ ~NoTask.branch
    BY DEF Init, NoTask
  <2> QED
    BY <1>0, <2>1, <2>2, <2>3, TypeInit DEF ApprovalInv, Holds, Fresh
<1>2. ApprovalInv(r) /\ [Next]_vars => ApprovalInv(r)'
  <2> SUFFICES ASSUME ApprovalInv(r), [Next]_vars PROVE ApprovalInv(r)'
    OBVIOUS
  <2>1. TypeOK'
    BY TypeStep DEF ApprovalInv
  <2>2. ASSUME NEW p \in Procs, Step(p) \/ Crash(p) PROVE ApprovalInv(r)'
    <3>1. Reload(p) => p = r
      BY <1>0 DEF Reload, ApprovalInv, Where, Calm
    <3> QED
      BY <1>0, <2>1, <2>2, <3>1, LoopWaits, ServiceWaits, SaveWaits,
         RunnerWaits DEF Step
  <2>3. ASSUME NEW p \in Runners, Start(p) \/ Resume(p) \/ Clarify(p)
        PROVE  ApprovalInv(r)'
    BY <1>0, <2>1, <2>3, RunnerWaits
  <2>4. ASSUME NEW p \in Clients, RequestStop(p) \/ Rollback(p)
        PROVE  ApprovalInv(r)'
    BY <1>0, <2>1, <2>4, ClientWaits DEF Procs
  <2>5. CASE UNCHANGED vars
    BY <2>1, <2>5
       DEF vars, ApprovalInv, Where, Fresh, Holds, Waits
  <2> QED
    BY <2>2, <2>3, <2>4, <2>5 DEF Next
<1>3. ApprovalInv(r) => ApprovalMatchesStatus
  BY DEF ApprovalInv, Waits, ApprovalMatchesStatus
<1> QED
  BY <1>1, <1>2, <1>3, PTL DEF Spec

-----------------------------------------------------------------------------
(* The file tells a lifecycle *)

\* The status a copy has at a label.
StatusAt(label, s) ==
  /\ label = "interpret" => s = "interpreting"
  /\ label \in {"prepare", "started", "reprepare", "ensure", "enter"} =>
       s = "created"
  /\ label = "plan" => s = "planning"
  /\ label \in {"check", "chat"} => s = "running"
  /\ label \in {"verify", "browser"} => s = "verifying"
  /\ label \in {"review", "checkpoint"} => s = "reviewing"
  /\ label = "return" =>
       s \in {"needs_approval", "cancelled", "blocked", "completed"}

\* m is of a later run than the record d, which may be run again.
Supersedes(m, d) == m.run > d.run /\ d.status \in Statuses \ {"completed"}

\* Writing m over d is a step of the lifecycle, or changes nothing it tells.
Leads(d, m) ==
  \/ m.status = d.status /\ m.run = d.run
  \/ d.status = "absent" /\ m.status = "interpreting" /\ m.run > d.run
  \/ /\ d.status \in Statuses \ TerminalStatuses
     /\ m.status \in Lifecycle!Flow[d.status]
     /\ m.run = d.run
  \/ /\ Supersedes(m, d)
     /\ m.status \in {"created", "planning", "running", "blocked", "failed"}

\* How far the file d is behind the copy m at a label.
Behind(label, d, m) ==
  /\ label \in {"save", "replace"} => Leads(d, m)
  /\ label \in {"interpret", "prepare", "started", "plan", "check", "chat"} =>
       m.run = d.run /\ d.status = m.status
  /\ label \in {"reprepare", "ensure", "enter"} =>
       Supersedes(m, d) \/ (m.run = d.run /\ d.status = "created")
  /\ label \in {"verify", "browser", "review", "checkpoint"} =>
       m.run = d.run /\ d.status = "running"
  /\ label = "reload" => d.status \in Statuses

\* That a save is a step of the lifecycle depends on what the copy was when
\* it was last in the file, so on every place the process has been at since.
\* A save that fails is followed by one as FAILED, which an approval just
\* requested admits only while the file still says "running".
LifeInv(r) ==
  /\ TypeOK
  /\ disk.run <= runs
  /\ mem[r].run <= runs
  /\ StatusAt(Where(r), mem[r].status)
  /\ Behind(pc[r], disk, mem[r])
  /\ Where(r) = "return" /\ mem[r].status = "needs_approval" =>
       mem[r].run = disk.run /\ disk.status = "running"

\* What BranchInv adds: the loop never meets a record that was not understood.
Understood(r) == /\ Where(r) # "normalize"
                 /\ pc[r] = "enter" => mem[r].intent # "none"

LEMMA BranchUnderstood ==
  ASSUME BranchInv, NEW r \in Procs
  PROVE  Understood(r)
  BY DEF BranchInv, Fits, Owned, InLoop, Understood, Where

LEMMA LifecycleStatuses ==
  /\ Lifecycle!Statuses = Statuses
  /\ Lifecycle!TerminalStatuses = TerminalStatuses
  BY DEF Statuses, TerminalStatuses, Lifecycle!Statuses,
         Lifecycle!TerminalStatuses

\* The statuses a run may persist after another.
LEMMA FlowFrom ==
  /\ {"created", "needs_clarification"}
       \subseteq Lifecycle!Flow["interpreting"]
  /\ {"created", "planning", "running", "blocked", "failed"}
       \subseteq Lifecycle!Flow["created"]
  /\ {"running", "failed"} \subseteq Lifecycle!Flow["planning"]
  /\ {"running", "needs_approval", "completed", "blocked", "failed",
      "cancelled"} \subseteq Lifecycle!Flow["running"]
  /\ \A s \in Statuses \ {"interpreting", "created", "planning", "running"} :
       Lifecycle!Flow[s] \subseteq {"needs_clarification"}
<1>1. \A s \in {"interpreting", "created", "planning", "running"} :
        s \in Statuses
  BY DEF Statuses
<1>2. Lifecycle!Flow["interpreting"] = {"created", "needs_clarification"}
  BY <1>1, LifecycleStatuses DEF Lifecycle!Flow
<1>3. Lifecycle!Flow["created"]
        = {"created", "planning", "running", "blocked", "failed"}
  BY <1>1, LifecycleStatuses DEF Lifecycle!Flow
<1>4. Lifecycle!Flow["planning"] = {"running", "failed"}
  BY <1>1, LifecycleStatuses DEF Lifecycle!Flow
<1>5. Lifecycle!Flow["running"]
        = {"running", "needs_approval", "completed", "blocked", "failed",
           "cancelled"}
  BY <1>1, LifecycleStatuses DEF Lifecycle!Flow
<1>6. \A s \in Statuses \ {"interpreting", "created", "planning", "running"} :
        Lifecycle!Flow[s] \subseteq {"needs_clarification"}
  BY LifecycleStatuses DEF Lifecycle!Flow
<1> QED
  BY <1>2, <1>3, <1>4, <1>5, <1>6

\* Replacing the file by a copy that leads there is a step of the lifecycle.
LEMMA LeadsSteps ==
  ASSUME TypeOK, TypeOK', NEW m, Leads(disk, m),
         disk'.status = m.status, disk'.run = m.run
  PROVE  [Lifecycle!Next]_(Lifecycle!vars)
<1>1. /\ disk.run \in Nat /\ disk'.run \in Nat
      /\ disk.status \in Statuses \cup {"absent"}
  BY DEF TypeOK, Task
<1>2. CASE m.status = disk.status /\ m.run = disk.run
  BY <1>2 DEF Lifecycle!vars
<1>3. CASE /\ disk.status = "absent" /\ m.status = "interpreting"
           /\ m.run > disk.run
  BY <1>1, <1>3 DEF Lifecycle!Next, Lifecycle!Create, Lifecycle!NewRun
<1>4. CASE /\ disk.status \in Statuses \ TerminalStatuses
           /\ m.status \in Lifecycle!Flow[disk.status]
           /\ m.run = disk.run
  BY <1>1, <1>4, LifecycleStatuses DEF Lifecycle!Next, Lifecycle!Progress
<1>5. CASE /\ Supersedes(m, disk)
           /\ m.status \in {"created", "planning", "running", "blocked",
                            "failed"}
  BY <1>1, <1>5, LifecycleStatuses
     DEF Supersedes, Lifecycle!Next, Lifecycle!Restart, Lifecycle!NewRun
<1> QED
  BY <1>2, <1>3, <1>4, <1>5 DEF Leads

-----------------------------------------------------------------------------

\* The ways the process moves on.
LEMMA SaveThenLife ==
  ASSUME NEW r \in Procs, LifeInv(r), TypeOK', NEW task, NEW k,
         SaveThen(r, task, k), disk' = disk, runs' \in Nat, runs <= runs',
         task.run <= runs', StatusAt(k, task.status), Leads(disk, task),
         k = "return" /\ task.status = "needs_approval" =>
           task.run = disk.run /\ disk.status = "running"
  PROVE  LifeInv(r)'
<1>1. mem'[r] = task /\ pc'[r] = "save" /\ next'[r] = k
  BY DEF SaveThen, LifeInv, TypeOK
<1>2. Where(r)' = k
  BY <1>1 DEF Where
<1>3. Behind(pc'[r], disk', mem'[r])
  BY <1>1 DEF Behind
<1>4. disk'.run <= runs'
  BY DEF LifeInv, TypeOK, Task
<1>5. /\ StatusAt(Where(r)', mem'[r].status)
      /\ mem'[r].run <= runs'
      /\ Where(r)' = "return" /\ mem'[r].status = "needs_approval" =>
           mem'[r].run = disk'.run /\ disk'.status = "running"
  BY <1>1, <1>2
<1> QED
  BY <1>3, <1>4, <1>5 DEF LifeInv, Behind, StatusAt, Leads, Supersedes

LEMMA EndLife ==
  ASSUME NEW r \in Procs, LifeInv(r), TypeOK', End(r), runs' = runs,
         disk'.run <= runs
  PROVE  LifeInv(r)'
<1>1. mem'[r] = NoTask /\ pc'[r] = "idle"
  BY DEF End, LifeInv, TypeOK
<1>2. Where(r)' = "idle"
  BY <1>1 DEF Where
<1>3. NoTask.run <= runs
  BY DEF LifeInv, TypeOK, NoTask
<1>4. /\ StatusAt(Where(r)', mem'[r].status)
      /\ Behind(pc'[r], disk', mem'[r])
      /\ Where(r)' # "return"
  BY <1>1, <1>2 DEF StatusAt, Behind
<1> QED
  BY <1>1, <1>3, <1>4 DEF LifeInv, Behind, StatusAt, Leads, Supersedes

LEMMA GotoLife ==
  ASSUME NEW r \in Procs, LifeInv(r), TypeOK', NEW l, NEW task, Goto(r, l),
         l \notin {"save", "replace", "return"},
         mem' = [mem EXCEPT ![r] = task], runs' \in Nat, runs <= runs',
         task.run <= runs', disk'.run <= runs', StatusAt(l, task.status),
         Behind(l, disk', task)
  PROVE  LifeInv(r)'
<1>1. mem'[r] = task /\ pc'[r] = l
  BY DEF Goto, LifeInv, TypeOK
<1>2. Where(r)' = l
  BY <1>1 DEF Where
<1> QED
  BY <1>1, <1>2 DEF LifeInv, Behind, StatusAt, Leads, Supersedes

\* A run fails from wherever it is: in the loop, or because a save that the
\* loop asked for failed.
LEMMA HandleLife ==
  ASSUME NEW r \in Procs, LifeInv(r), Understood(r), TypeOK', Handle(r),
         UNCHANGED <<disk, runs>>,
         \/ pc[r] \in Raising
         \/ pc[r] \in {"save", "replace"} /\ next[r] \in InTry
  PROVE  LifeInv(r)'
<1> DEFINE task == Transition(mem[r], "failed")
<1>1. /\ mem[r] \in Task /\ disk \in Task /\ "failed" \in Statuses
      /\ runs \in Nat /\ mem[r].run \in Nat
      /\ mem[r].run <= runs
      /\ StatusAt(Where(r), mem[r].status)
      /\ Behind(pc[r], disk, mem[r])
      /\ Where(r) = "return" /\ mem[r].status = "needs_approval" =>
           mem[r].run = disk.run /\ disk.status = "running"
  BY DEF Statuses, LifeInv, TypeOK, Task
<1>2. task.status = "failed" /\ task.run = mem[r].run
  BY <1>1, TransitionKeeps, NewRunKeeps
<1>3. ASSUME CanTransition(mem[r], "failed")
      PROVE  Leads(disk, task)
  <2> HIDE DEF task
  <2>1. \/ Supersedes(mem[r], disk)
        \/ mem[r].run = disk.run
           /\ disk.status \in {"created", "planning", "running", "failed"}
    <3>1. CASE pc[r] \in Raising
      <4>1. /\ pc[r] \in {"plan", "chat"} => mem[r].status \in {"planning",
                                                                "running"}
        BY <1>1, <3>1 DEF StatusAt, Where
      <4> QED
        BY <1>1, <3>1, <4>1 DEF Behind, Raising, Understood, Where
    <3>2. CASE pc[r] \in {"save", "replace"} /\ next[r] \in {"plan", "check"}
      <4>1. Where(r) = next[r] /\ mem[r].status \in {"planning", "running"}
        BY <1>1, <3>2 DEF StatusAt, Where
      <4>2. Leads(disk, mem[r])
        BY <1>1, <3>2 DEF Behind
      <4>3. \A s \in Statuses \ {"interpreting", "created", "planning",
                                 "running"} :
              mem[r].status \notin Lifecycle!Flow[s]
        BY <4>1, FlowFrom
      <4>4. mem[r].status \notin Lifecycle!Flow["interpreting"]
        <5>1. "interpreting" \in Statuses
          BY DEF Statuses
        <5> QED
          BY <4>1, <5>1, LifecycleStatuses DEF Lifecycle!Flow
      <4> QED
        BY <4>1, <4>2, <4>3, <4>4 DEF Leads, Supersedes
    <3>3. CASE pc[r] \in {"save", "replace"} /\ next[r] = "return"
      <4>1. Where(r) = "return" /\ Leads(disk, mem[r])
        BY <1>1, <3>3 DEF Where, Behind
      <4>2. CASE mem[r].status = "needs_approval"
        BY <1>1, <4>1, <4>2
      <4>3. CASE mem[r].status \in {"cancelled", "blocked", "completed"}
        BY <1>3, <4>3 DEF CanTransition, IsTerminal, TerminalStatuses
      <4> QED
        BY <1>1, <4>1, <4>2, <4>3 DEF StatusAt
    <3> QED
      BY <3>1, <3>2, <3>3 DEF InTry, Understood, Where
  <2> QED
    BY <1>2, <2>1, FlowFrom
       DEF Leads, Supersedes, Statuses, TerminalStatuses
<1>4. StatusAt("exit", task.status)
  BY DEF StatusAt
<1> HIDE DEF task
<1>5. CASE CanTransition(mem[r], "failed") /\ SaveThen(r, task, "exit")
  BY <1>1, <1>2, <1>3, <1>4, <1>5, SaveThenLife
<1>6. CASE End(r)
  BY <1>6, EndLife DEF LifeInv
<1> QED
  BY <1>5, <1>6 DEF Handle, task

-----------------------------------------------------------------------------

LEMMA LoopLife ==
  ASSUME NEW r \in Procs, LifeInv(r), Understood(r), TypeOK',
         \/ EnterLoop(r) \/ Normalize(r) \/ CreatePlan(r)
         \/ LimitReached(r) \/ HonourStop(r) \/ Iterate(r)
         \/ ToolCall(r) \/ Final(r) \/ Verify(r) \/ BrowserCheck(r)
         \/ Review(r) \/ Checkpoint(r) \/ LoopRaises(r)
  PROVE  LifeInv(r)'
<1> DEFINE t(s) == Transition(mem[r], s)
<1>1. /\ mem[r] \in Task /\ disk \in Task /\ mem \in [Procs -> Task]
      /\ mem = [mem EXCEPT ![r] = mem[r]]
      /\ runs \in Nat /\ mem[r].run \in Nat /\ disk.run \in Nat
      /\ mem[r].run <= runs /\ disk.run <= runs
      /\ StatusAt(Where(r), mem[r].status)
      /\ Behind(pc[r], disk, mem[r])
  BY DEF LifeInv, TypeOK, Task
<1>2. disk' = disk /\ runs' = runs /\ runs <= runs
  BY <1>1 DEF EnterLoop, Normalize, CreatePlan, LimitReached, HonourStop,
              Iterate, ToolCall, Final, Verify, BrowserCheck, Review,
              Checkpoint, LoopRaises
<1>3. \A s \in Statuses :
        t(s) \in Task /\ t(s).status = s /\ t(s).run = mem[r].run
  BY <1>1, TransitionKeeps, NewRunKeeps
<1>4. ASSUME pc[r] \in {"check", "chat", "verify", "browser", "review",
                        "checkpoint"}
      PROVE  /\ mem[r].run = disk.run /\ disk.status = "running"
             /\ pc[r] \in {"check", "chat"} => mem[r].status = "running"
  BY <1>1, <1>4 DEF StatusAt, Behind, Where
<1> HIDE DEF t
\* A status that a run may persist after "running".
<1>5. ASSUME NEW s \in {"running", "needs_approval", "completed", "blocked",
                        "failed", "cancelled"},
             mem[r].run = disk.run, disk.status = "running",
             NEW task, task.status = s, task.run = mem[r].run
      PROVE  Leads(disk, task)
  BY <1>5, FlowFrom DEF Leads, Statuses, TerminalStatuses
<1>6. ASSUME NEW s \in {"completed", "blocked", "cancelled", "needs_approval"},
             NEW task, task.status = s, task.run = mem[r].run,
             mem[r].run = disk.run, disk.status = "running",
             SaveThen(r, task, "return")
      PROVE  LifeInv(r)'
  <2>1. Leads(disk, task)
    BY <1>5, <1>6
  <2>2. StatusAt("return", task.status)
    BY <1>6 DEF StatusAt
  <2> QED
    BY <1>1, <1>2, <1>6, <2>1, <2>2, SaveThenLife
<1>7. ASSUME NEW task, task.status = "running", task.run = mem[r].run,
             Leads(disk, task), SaveThen(r, task, "check")
      PROVE  LifeInv(r)'
  <2>1. StatusAt("check", task.status)
    BY <1>7 DEF StatusAt
  <2> QED
    BY <1>1, <1>2, <1>7, <2>1, SaveThenLife
<1>a. CASE EnterLoop(r)
  <2>1. CASE Handle(r)
    BY <1>a, <2>1, <1>2, HandleLife DEF EnterLoop, Raising
  <2>2. mem[r].status = "created"
        /\ (Supersedes(mem[r], disk)
             \/ (mem[r].run = disk.run /\ disk.status = "created"))
    BY <1>a, <1>1 DEF EnterLoop, Behind, StatusAt, Where
  <2>3. \A s \in {"running", "planning"} :
          t(s).status = s /\ t(s).run = mem[r].run
    BY <1>3 DEF Statuses
  <2>4. \A s \in {"running", "planning"} : Leads(disk, t(s))
    <3> TAKE s \in {"running", "planning"}
    <3>1. CASE Supersedes(mem[r], disk)
      BY <2>3, <3>1 DEF Leads, Supersedes
    <3>2. CASE mem[r].run = disk.run /\ disk.status = "created"
      BY <2>3, <3>2, FlowFrom DEF Leads, Statuses, TerminalStatuses
    <3> QED
      BY <2>2, <3>1, <3>2
  <2>5. CASE SaveThen(r, t("running"), "check")
    BY <2>3, <2>4, <2>5, <1>7
  <2>6. CASE SaveThen(r, t("planning"), "plan")
    <3>1. StatusAt("plan", t("planning").status)
      BY <2>3 DEF StatusAt
    <3> QED
      BY <2>3, <2>4, <2>6, <3>1, <1>1, <1>2, SaveThenLife
  <2>7. mem[r].intent # "none"
    BY <1>a DEF EnterLoop, Understood
  <2> QED
    BY <1>a, <2>1, <2>5, <2>6, <2>7, EntersBy DEF t
<1>b. CASE CreatePlan(r)
  <2> DEFINE task == [t("running") EXCEPT !.planned = TRUE]
  <2>1. task.status = "running" /\ task.run = mem[r].run
    <3>1. /\ t("running") \in Task /\ t("running").status = "running"
          /\ t("running").run = mem[r].run
      BY <1>3 DEF Statuses
    <3> QED
      BY <3>1 DEF Task
  <2>2. SaveThen(r, task, "check")
    BY <1>b DEF CreatePlan, t
  <2>3. mem[r].run = disk.run /\ disk.status = "planning"
    BY <1>b, <1>1 DEF CreatePlan, StatusAt, Behind, Where
  <2> HIDE DEF task
  <2>4. Leads(disk, task)
    BY <2>1, <2>3, FlowFrom DEF Leads, Statuses, TerminalStatuses
  <2> QED
    BY <2>1, <2>2, <2>4, <1>7
<1>c. CASE LimitReached(r)
  <2>1. /\ SaveThen(r, t("failed"), "exit")
        /\ t("failed").status = "failed" /\ t("failed").run = mem[r].run
    BY <1>c, <1>3 DEF LimitReached, t, Statuses
  <2>2. Leads(disk, t("failed"))
    BY <1>c, <1>4, <1>5, <2>1 DEF LimitReached
  <2>3. StatusAt("exit", t("failed").status)
    BY DEF StatusAt
  <2> QED
    BY <1>1, <1>2, <2>1, <2>2, <2>3, SaveThenLife
<1>d. CASE HonourStop(r)
  <2>1. /\ SaveThen(r, t("cancelled"), "return")
        /\ t("cancelled").status = "cancelled"
        /\ t("cancelled").run = mem[r].run
    BY <1>d, <1>3 DEF HonourStop, t, Statuses
  <2> QED
    BY <1>d, <1>4, <1>6, <2>1 DEF HonourStop
<1>e. CASE Iterate(r)
  <2> DEFINE task == [mem[r] EXCEPT !.iteration = @ + 1]
  <2>1. task.status = mem[r].status /\ task.run = mem[r].run
    BY <1>1 DEF Task
  <2>2. mem' = [mem EXCEPT ![r] = task] /\ Goto(r, "chat")
    BY <1>e, <1>1 DEF Iterate
  <2> HIDE DEF task
  <2>3. StatusAt("chat", task.status) /\ Behind("chat", disk', task)
    BY <1>e, <1>2, <1>4, <2>1 DEF Iterate, StatusAt, Behind
  <2> QED
    BY <1>1, <1>2, <2>1, <2>2, <2>3, GotoLife
<1>f. CASE ToolCall(r)
  <2> DEFINE a == [mem[r] EXCEPT !.acted = TRUE]
             w == [t("needs_approval") EXCEPT !.acted = TRUE, !.pending = TRUE]
  <2>1. a.status = mem[r].status /\ a.run = mem[r].run
    BY <1>1 DEF Task
  <2>2. w.status = "needs_approval" /\ w.run = mem[r].run
    <3>1. /\ t("needs_approval") \in Task
          /\ t("needs_approval").status = "needs_approval"
          /\ t("needs_approval").run = mem[r].run
      BY <1>3 DEF Statuses
    <3> QED
      BY <3>1 DEF Task
  <2>3. SaveThen(r, a, "check") \/ SaveThen(r, w, "return")
    BY <1>f DEF ToolCall, t
  <2> HIDE DEF a, w
  <2>4. /\ mem[r].run = disk.run /\ disk.status = "running"
        /\ mem[r].status = "running"
    BY <1>f, <1>4 DEF ToolCall
  <2>5. Leads(disk, a)
    BY <1>5, <2>1, <2>4
  <2> QED
    BY <1>6, <1>7, <2>1, <2>2, <2>3, <2>4, <2>5
<1>g. CASE Final(r)
  <2>1. /\ mem[r].run = disk.run /\ disk.status = "running"
        /\ mem[r].status = "running"
    BY <1>g, <1>4 DEF Final
  <2>2. CASE mem[r].acted
    <3>1. /\ mem' = [mem EXCEPT ![r] = t("verifying")]
          /\ Goto(r, "verify")
          /\ t("verifying").status = "verifying"
          /\ t("verifying").run = mem[r].run
      BY <1>g, <2>2, <1>1, <1>3 DEF Final, t, Statuses
    <3>2. /\ StatusAt("verify", t("verifying").status)
          /\ Behind("verify", disk', t("verifying"))
      BY <1>2, <2>1, <3>1 DEF StatusAt, Behind
    <3> QED
      BY <1>1, <1>2, <3>1, <3>2, GotoLife
  <2>3. CASE ~mem[r].acted
    <3>1. SaveThen(r, mem[r], "check") /\ Leads(disk, mem[r])
      BY <1>g, <2>1, <2>3, <1>5 DEF Final
    <3> QED
      BY <2>1, <3>1, <1>7
  <2> QED
    BY <2>2, <2>3
<1>h. ASSUME Repair(r), mem[r].run = disk.run, disk.status = "running"
      PROVE  LifeInv(r)'
  <2>1. /\ SaveThen(r, t("running"), "check")
        /\ t("running").status = "running" /\ t("running").run = mem[r].run
    BY <1>h, <1>3 DEF Repair, t, Statuses
  <2>2. Leads(disk, t("running"))
    BY <1>h, <1>5, <2>1
  <2> QED
    BY <2>1, <2>2, <1>7
<1>i. CASE Verify(r)
  <2>1. mem[r].run = disk.run /\ disk.status = "running"
        /\ mem[r].status = "verifying"
    BY <1>i, <1>1, <1>4 DEF Verify, StatusAt, Where
  <2>2. CASE Goto(r, "browser") /\ UNCHANGED mem
    <3>1. /\ StatusAt("browser", mem[r].status)
          /\ Behind("browser", disk', mem[r])
      BY <1>2, <2>1 DEF StatusAt, Behind
    <3> QED
      BY <1>1, <1>2, <2>2, <3>1, GotoLife
  <2>3. CASE SaveThen(r, t("blocked"), "return")
    <3>1. t("blocked").status = "blocked" /\ t("blocked").run = mem[r].run
      BY <1>3 DEF Statuses
    <3> QED
      BY <1>6, <2>1, <2>3, <3>1
  <2> QED
    BY <1>i, <1>h, <2>1, <2>2, <2>3 DEF Verify, Pass, t
<1>j. CASE BrowserCheck(r)
  <2>1. mem[r].run = disk.run /\ disk.status = "running"
    BY <1>j, <1>4 DEF BrowserCheck
  <2>2. CASE Goto(r, "review") /\ mem' = [mem EXCEPT ![r] = t("reviewing")]
    <3>1. t("reviewing").status = "reviewing"
          /\ t("reviewing").run = mem[r].run
      BY <1>3 DEF Statuses
    <3>2. /\ StatusAt("review", t("reviewing").status)
          /\ Behind("review", disk', t("reviewing"))
      BY <1>2, <2>1, <3>1 DEF StatusAt, Behind
    <3> QED
      BY <1>1, <1>2, <2>2, <3>1, <3>2, GotoLife
  <2> QED
    BY <1>j, <1>h, <1>1, <2>1, <2>2 DEF BrowserCheck, Pass, t
<1>k. CASE Review(r)
  <2>1. mem[r].run = disk.run /\ disk.status = "running"
        /\ mem[r].status = "reviewing"
    BY <1>k, <1>1, <1>4 DEF Review, StatusAt, Where
  <2>2. CASE Goto(r, "checkpoint") /\ UNCHANGED mem
    <3>1. /\ StatusAt("checkpoint", mem[r].status)
          /\ Behind("checkpoint", disk', mem[r])
      BY <1>2, <2>1 DEF StatusAt, Behind
    <3> QED
      BY <1>1, <1>2, <2>2, <3>1, GotoLife
  <2> QED
    BY <1>k, <1>h, <2>1, <2>2 DEF Review, Pass
<1>l. CASE Checkpoint(r)
  <2>1. PICK s \in {"completed", "blocked"} : SaveThen(r, t(s), "return")
    BY <1>l DEF Checkpoint, t
  <2>2. t(s).status = s /\ t(s).run = mem[r].run
    BY <1>3 DEF Statuses
  <2> QED
    BY <1>l, <1>4, <1>6, <2>1, <2>2 DEF Checkpoint
<1>m. CASE LoopRaises(r)
  BY <1>m, <1>2, HandleLife DEF LoopRaises
<1>n. ~Normalize(r)
  BY DEF Normalize, Understood, Where
<1> QED
  BY <1>a, <1>b, <1>c, <1>d, <1>e, <1>f, <1>g, <1>i, <1>j, <1>k, <1>l, <1>m,
     <1>n

-----------------------------------------------------------------------------

LEMMA SaveLife ==
  ASSUME NEW r \in Procs, LifeInv(r), Understood(r), TypeOK',
         SaveRead(r) \/ SaveReplace(r) \/ SaveFails(r) \/ Crash(r)
  PROVE  LifeInv(r)'
<1>1. /\ mem[r] \in Task /\ mem \in [Procs -> Task]
      /\ mem = [mem EXCEPT ![r] = mem[r]]
      /\ runs \in Nat /\ mem[r].run <= runs /\ disk.run <= runs
      /\ next[r] \in InTry \cup OutOfTry
      /\ StatusAt(Where(r), mem[r].status)
      /\ Behind(pc[r], disk, mem[r])
  BY DEF LifeInv, TypeOK
<1>2. runs' = runs /\ runs <= runs
  BY <1>1 DEF SaveRead, SaveReplace, SaveFails, Crash
<1>a. CASE SaveRead(r)
  <2> DEFINE task == AdoptStop(mem[r])
  <2>1. task.status = mem[r].status /\ task.run = mem[r].run
    BY <1>1 DEF AdoptStop, Task
  <2>2. mem'[r] = task
    BY <1>a, <1>1 DEF SaveRead
  <2> HIDE DEF task
  <2>3. pc'[r] = "replace" /\ next'[r] = next[r] /\ disk' = disk
    BY <1>a DEF SaveRead, Goto, LifeInv, TypeOK
  <2>4. Where(r)' = Where(r)
    BY <1>a, <2>3 DEF Where, SaveRead
  <2>5. Leads(disk, mem[r])
    BY <1>a, <1>1 DEF Behind, SaveRead
  <2>6. Leads(disk, task)
    BY <2>1, <2>5 DEF Leads, Supersedes
  <2>7. Behind(pc'[r], disk', mem'[r])
    BY <2>2, <2>3, <2>6 DEF Behind
  <2>8. StatusAt(Where(r)', mem'[r].status)
    BY <1>1, <2>1, <2>2, <2>4
  <2>9. /\ disk'.run <= runs' /\ mem'[r].run <= runs'
        /\ Where(r)' = "return" /\ mem'[r].status = "needs_approval" =>
             mem'[r].run = disk'.run /\ disk'.status = "running"
    BY <1>1, <1>2, <2>1, <2>2, <2>3, <2>4 DEF LifeInv
  <2> QED
    BY <2>7, <2>8, <2>9 DEF LifeInv, Behind, StatusAt, Leads, Supersedes
<1>b. CASE SaveReplace(r)
  <2>1. disk' = mem[r]
    BY <1>b DEF SaveReplace
  <2>2. CASE End(r)
    BY <1>1, <1>2, <2>1, <2>2, EndLife
  <2>3. CASE Goto(r, next[r]) /\ UNCHANGED mem
             /\ next[r] \notin {"return", "exit", "stopped", "finished"}
    <3>1. StatusAt(next[r], mem[r].status)
      BY <1>b, <1>1 DEF SaveReplace, Where
    <3>2. next[r] \in {"plan", "check", "interpret", "prepare", "started",
                       "ensure", "enter"}
      BY <1>1, <1>b, <2>3 DEF SaveReplace, Understood, Where, InTry, OutOfTry
    <3>3. Behind(next[r], disk', mem[r])
      BY <2>1, <3>1, <3>2 DEF Behind, StatusAt
    <3> QED
      BY <1>1, <1>2, <2>1, <2>3, <3>1, <3>2, <3>3, GotoLife
  <2> QED
    BY <1>b, <2>2, <2>3 DEF SaveReplace
<1>c. CASE SaveFails(r)
  <2>1. disk' = disk
    BY <1>c DEF SaveFails
  <2>2. CASE next[r] \in InTry /\ Handle(r)
    BY <1>c, <1>2, <2>1, <2>2, HandleLife DEF SaveFails
  <2>3. CASE End(r)
    BY <1>1, <1>2, <2>1, <2>3, EndLife
  <2> QED
    BY <1>c, <2>2, <2>3 DEF SaveFails
<1>d. CASE Crash(r)
  BY <1>d, <1>1, <1>2, EndLife DEF Crash
<1> QED
  BY <1>a, <1>b, <1>c, <1>d

\* GitWorkflow.prepare, of the first run or of a run that was clarified.
LEMMA PrepareLife ==
  ASSUME NEW r \in Procs, LifeInv(r), TypeOK',
         pc[r] \in {"prepare", "reprepare"},
         NEW k \in {"started", "ensure"}, PrepareThen(r, k)
  PROVE  LifeInv(r)'
<1>1. /\ mem[r] \in Task /\ runs \in Nat
      /\ mem[r].run <= runs /\ disk.run <= runs
      /\ StatusAt(Where(r), mem[r].status)
      /\ Behind(pc[r], disk, mem[r])
  BY DEF LifeInv, TypeOK
<1>2. disk' = disk /\ runs' = runs /\ runs <= runs
  BY <1>1 DEF PrepareThen
<1>3. /\ mem[r].status = "created"
      /\ \/ Supersedes(mem[r], disk)
         \/ mem[r].run = disk.run /\ disk.status = "created"
  BY <1>1 DEF StatusAt, Behind, Where
<1>4. ASSUME NEW task, task.run = mem[r].run,
             task.status \in {"created", "blocked"}
      PROVE  Leads(disk, task)
  <2>1. CASE Supersedes(mem[r], disk)
    BY <1>4, <2>1 DEF Leads, Supersedes
  <2>2. CASE mem[r].run = disk.run /\ disk.status = "created"
    BY <1>4, <2>2, FlowFrom DEF Leads, Statuses, TerminalStatuses
  <2> QED
    BY <1>3, <2>1, <2>2
<1>5. CASE SaveThen(r, [mem[r] EXCEPT !.branch = TRUE], k)
  <2> DEFINE task == [mem[r] EXCEPT !.branch = TRUE]
  <2>1. task.status = "created" /\ task.run = mem[r].run
    BY <1>1, <1>3 DEF Task
  <2> HIDE DEF task
  <2>2. StatusAt(k, task.status)
    BY <2>1 DEF StatusAt
  <2> QED
    BY <1>1, <1>2, <1>4, <1>5, <2>1, <2>2, SaveThenLife DEF task
<1>6. CASE \E n \in BOOLEAN :
             SaveThen(r, [Transition(mem[r], "blocked") EXCEPT !.branch = n],
                      "finished")
  <2>1. PICK n \in BOOLEAN :
          SaveThen(r, [Transition(mem[r], "blocked") EXCEPT !.branch = n],
                   "finished")
    BY <1>6
  <2> DEFINE task == [Transition(mem[r], "blocked") EXCEPT !.branch = n]
  <2>2. task.status = "blocked" /\ task.run = mem[r].run
    BY <1>1 DEF Task, Transition
  <2> HIDE DEF task
  <2>3. StatusAt("finished", task.status)
    BY DEF StatusAt
  <2> QED
    BY <1>1, <1>2, <1>4, <2>1, <2>2, <2>3, SaveThenLife DEF task
<1> QED
  BY <1>5, <1>6 DEF PrepareThen

LEMMA ServiceLife ==
  ASSUME NEW r \in Procs, LifeInv(r), TypeOK',
         \/ Interpret(r) \/ Prepare(r) \/ Execute(r) \/ PrepareClarified(r)
         \/ EnsureClarified(r)
  PROVE  LifeInv(r)'
<1>1. /\ mem[r] \in Task /\ disk \in Task /\ runs \in Nat
      /\ mem[r].run <= runs /\ disk.run <= runs
      /\ StatusAt(Where(r), mem[r].status)
      /\ Behind(pc[r], disk, mem[r])
  BY DEF LifeInv, TypeOK
<1>2. disk' = disk /\ runs' = runs /\ runs <= runs
  BY <1>1 DEF Interpret, Prepare, PrepareThen, Execute, PrepareClarified,
              EnsureClarified
<1>a. CASE Interpret(r)
  <2> DEFINE a == [Transition(mem[r], "needs_clarification")
                     EXCEPT !.intent = "unclear"]
             b == [Transition(mem[r], "created") EXCEPT !.intent = "clear"]
  <2>1. /\ a.status = "needs_clarification" /\ a.run = mem[r].run
        /\ b.status = "created" /\ b.run = mem[r].run
    BY <1>1 DEF Transition, Task
  <2>2. SaveThen(r, a, "finished") \/ SaveThen(r, b, "prepare")
    BY <1>a DEF Interpret
  <2>3. mem[r].run = disk.run /\ disk.status = "interpreting"
    BY <1>a, <1>1 DEF Interpret, StatusAt, Behind, Where
  <2> HIDE DEF a, b
  <2>4. Leads(disk, a) /\ Leads(disk, b)
    BY <2>1, <2>3, FlowFrom DEF Leads, Statuses, TerminalStatuses
  <2>5. StatusAt("finished", a.status) /\ StatusAt("prepare", b.status)
    BY <2>1 DEF StatusAt
  <2> QED
    BY <1>1, <1>2, <2>1, <2>2, <2>4, <2>5, SaveThenLife
<1>b. CASE Prepare(r)
  BY <1>b, PrepareLife DEF Prepare
<1>c. CASE Execute(r)
  <2>1. mem[r].run = disk.run /\ disk.status = "created"
    BY <1>c, <1>1 DEF Execute, StatusAt, Behind, Where
  <2>2. CASE mem' = [mem EXCEPT ![r] = disk] /\ Goto(r, "enter")
    <3>1. StatusAt("enter", disk.status) /\ Behind("enter", disk', disk)
      BY <1>2, <2>1 DEF StatusAt, Behind
    <3> QED
      BY <1>1, <1>2, <2>2, <3>1, GotoLife
  <2>3. CASE SaveThen(r, Transition(disk, "blocked"), "finished")
    <3> DEFINE task == Transition(disk, "blocked")
    <3>1. task.status = "blocked" /\ task.run = disk.run
      BY <1>1, TransitionKeeps, NewRunKeeps DEF Statuses
    <3> HIDE DEF task
    <3>2. Leads(disk, task)
      BY <2>1, <3>1, FlowFrom DEF Leads, Statuses, TerminalStatuses
    <3>3. StatusAt("finished", task.status)
      BY DEF StatusAt
    <3> QED
      BY <1>1, <1>2, <2>3, <3>1, <3>2, <3>3, SaveThenLife DEF task
  <2>4. CASE End(r)
    BY <1>1, <1>2, <2>4, EndLife
  <2> QED
    BY <1>c, <2>2, <2>3, <2>4 DEF Execute
<1>d. CASE PrepareClarified(r)
  BY <1>d, PrepareLife DEF PrepareClarified
<1>e. CASE EnsureClarified(r)
  <2>1. CASE SaveThen(r, mem[r], "enter")
    <3>1. /\ mem[r].status = "created"
          /\ \/ Supersedes(mem[r], disk)
             \/ mem[r].run = disk.run /\ disk.status = "created"
      BY <1>e, <1>1 DEF EnsureClarified, StatusAt, Behind, Where
    <3>2. Leads(disk, mem[r]) /\ StatusAt("enter", mem[r].status)
      BY <3>1 DEF Leads, StatusAt
    <3> QED
      BY <1>1, <1>2, <2>1, <3>2, SaveThenLife
  <2>2. CASE End(r)
    BY <1>1, <1>2, <2>2, EndLife
  <2> QED
    BY <1>e, <2>1, <2>2 DEF EnsureClarified
<1> QED
  BY <1>a, <1>b, <1>c, <1>d, <1>e

\* The commands: a later run, or the same record with a flag set.
LEMMA CommandLife ==
  ASSUME NEW r \in Procs, LifeInv(r), TypeOK',
         \/ Start(r) \/ Resume(r) \/ Reload(r) \/ Clarify(r)
         \/ RequestStop(r) \/ Rollback(r)
  PROVE  LifeInv(r)'
<1>1. /\ disk \in Task /\ disk.run \in Nat
      /\ runs \in Nat /\ disk.run <= runs
      /\ disk' = disk
  BY DEF LifeInv, TypeOK, Task, Start, Resume, Reload, Clarify, RequestStop,
         Rollback
<1>2. /\ runs' \in {runs, runs + 1} /\ runs' \in Nat /\ runs <= runs'
      /\ disk.run <= runs'
      /\ runs + 1 \in Nat /\ runs + 1 <= runs + 1 /\ runs <= runs + 1
      /\ runs + 1 > disk.run
  <2>1. runs' \in {runs, runs + 1}
    BY DEF Start, Resume, Reload, Clarify, RequestStop, Rollback
  <2> QED
    BY <1>1, <2>1
<1>3. ASSUME NEW task, NEW k \in {"finished", "stopped"},
             SaveThen(r, task, k), task.status = disk.status,
             task.run = disk.run
      PROVE  LifeInv(r)'
  <2>1. Leads(disk, task) /\ StatusAt(k, task.status)
    BY <1>3 DEF Leads, StatusAt
  <2> QED
    BY <1>1, <1>2, <1>3, <2>1, SaveThenLife
<1>a. CASE Start(r)
  <2> DEFINE task == Transition(NewTask(runs + 1), "interpreting")
  <2>1. task.status = "interpreting" /\ task.run = runs + 1
    BY DEF Transition, NewTask, NoTask
  <2>2. /\ SaveThen(r, task, "interpret") /\ runs' = runs + 1
        /\ disk.status = "absent"
    BY <1>a DEF Start, NoTask
  <2> HIDE DEF task
  <2>3. Leads(disk, task) /\ StatusAt("interpret", task.status)
    BY <1>2, <2>1, <2>2 DEF Leads, StatusAt
  <2> QED
    BY <1>1, <1>2, <2>1, <2>2, <2>3, SaveThenLife
<1>b. CASE Resume(r)
  <2>1. disk.status \in Statuses
    BY <1>b, <1>1 DEF Resume, Task
  <2>2. StatusAt("reload", disk.status) /\ Behind("reload", disk', disk)
    BY <1>1, <2>1 DEF StatusAt, Behind
  <2> QED
    BY <1>b, <1>1, <1>2, <2>2, GotoLife DEF Resume
<1>f. CASE Reload(r)
  <2> DEFINE task == BeginNewRun(disk, runs + 1)
  <2>1. CASE /\ mem' = [mem EXCEPT ![r] = task] /\ Goto(r, "enter")
             /\ CanBeginNewRun(disk) /\ runs' = runs + 1
    <3>1. task.status = "created" /\ task.run = runs + 1
      BY <1>1, <1>2, NewRunKeeps
    <3>2. disk.status \in Statuses \ {"completed"}
      BY <1>f, <2>1 DEF Reload, LifeInv, Behind, CanBeginNewRun
    <3> HIDE DEF task
    <3>3. StatusAt("enter", task.status) /\ Behind("enter", disk', task)
      BY <1>1, <1>2, <3>1, <3>2 DEF StatusAt, Behind, Supersedes
    <3> QED
      BY <1>1, <1>2, <2>1, <3>1, <3>3, GotoLife
  <2>2. CASE End(r) /\ UNCHANGED runs
    BY <1>1, <1>2, <2>2, EndLife
  <2> QED
    BY <1>f, <2>1, <2>2 DEF Reload
<1>c. CASE Clarify(r)
  <2>1. CASE SaveThen(r, disk, "finished")
    BY <2>1, <1>3
  <2>2. CASE /\ mem' = [mem EXCEPT ![r] = [BeginNewRun(disk, runs + 1)
                                             EXCEPT !.intent = "clear"]]
             /\ Goto(r, IF disk.branch THEN "ensure" ELSE "reprepare")
             /\ runs' = runs + 1
    <3> DEFINE task == [BeginNewRun(disk, runs + 1) EXCEPT !.intent = "clear"]
    <3>1. task.status = "created" /\ task.run = runs + 1
      BY <1>1 DEF BeginNewRun, Task
    <3>2. mem' = [mem EXCEPT ![r] = task]
      BY <2>2
    <3>3. disk.status \in Statuses \ {"completed"}
      BY <1>c DEF Clarify, Statuses
    <3> HIDE DEF task
    <3>4. \A l \in {"ensure", "reprepare"} :
            /\ StatusAt(l, task.status) /\ Behind(l, disk', task)
            /\ l \notin {"save", "replace", "return"}
      BY <1>1, <1>2, <3>1, <3>3 DEF StatusAt, Behind, Supersedes
    <3> QED
      BY <1>1, <1>2, <2>2, <3>1, <3>2, <3>4, GotoLife
  <2> QED
    BY <1>c, <2>1, <2>2 DEF Clarify
<1>d. CASE RequestStop(r)
  <2>1. /\ [disk EXCEPT !.stop = TRUE].status = disk.status
        /\ [disk EXCEPT !.stop = TRUE].run = disk.run
    BY <1>1 DEF Task
  <2> QED
    BY <1>d, <2>1, <1>3 DEF RequestStop
<1>e. CASE Rollback(r)
  <2>1. /\ [disk EXCEPT !.rolledBack = TRUE].status = disk.status
        /\ [disk EXCEPT !.rolledBack = TRUE].run = disk.run
    BY <1>1 DEF Task
  <2> QED
    BY <1>e, <2>1, <1>3 DEF Rollback
<1> QED
  BY <1>a, <1>b, <1>c, <1>d, <1>e, <1>f

\* One process at a time, whatever it is asked to do (start, run, resume,
\* answer a clarification, stop, roll back), wherever it crashes and whichever
\* of its saves fail: what a reader of the file sees is a lifecycle.  A
\* terminal status is left only by a new run with a new identifier, and a
\* completed task is never run again.
THEOREM FileImplementsLifecycle ==
  ASSUME NEW r, Runners = {r}, Clients \subseteq {r}
  PROVE  Spec => FileTellsLifecycle
<1>0. Procs = {r}
  BY DEF Procs
<1>1. Init => LifeInv(r) /\ Lifecycle!Init
  <2> SUFFICES ASSUME Init PROVE LifeInv(r) /\ Lifecycle!Init
    OBVIOUS
  <2>1. /\ mem[r] = NoTask /\ pc[r] = "idle" /\ Where(r) = "idle"
        /\ disk = NoTask /\ runs = 0
    BY <1>0 DEF Init, Where
  <2>2. StatusAt(Where(r), mem[r].status) /\ Behind(pc[r], disk, mem[r])
    BY <2>1 DEF StatusAt, Behind
  <2>3. disk.run <= runs /\ mem[r].run <= runs /\ Lifecycle!Init
    BY <2>1 DEF NoTask, Lifecycle!Init
  <2> QED
    BY <2>1, <2>2, <2>3, TypeInit DEF LifeInv
<1>2. LifeInv(r) /\ BranchInv /\ [Next]_vars
        => LifeInv(r)' /\ [Lifecycle!Next]_(Lifecycle!vars)
  <2> SUFFICES ASSUME LifeInv(r), BranchInv, [Next]_vars
               PROVE  LifeInv(r)' /\ [Lifecycle!Next]_(Lifecycle!vars)
    OBVIOUS
  <2>1. TypeOK /\ TypeOK'
    BY TypeStep DEF LifeInv
  <2>0. Understood(r)
    BY <1>0, BranchUnderstood
  <2>2. CASE SaveReplace(r)
    <3>1. Leads(disk, mem[r]) /\ disk' = mem[r]
      BY <2>2 DEF LifeInv, Behind, SaveReplace
    <3> QED
      BY <1>0, <2>0, <2>1, <2>2, <3>1, SaveLife, LeadsSteps
  <2>3. ASSUME disk' = disk
        PROVE  [Lifecycle!Next]_(Lifecycle!vars)
    BY <2>3 DEF Lifecycle!vars
  <2>4. CASE Step(r) \/ Crash(r)
    <3>1. LifeInv(r)'
      BY <1>0, <2>0, <2>1, <2>4, LoopLife, SaveLife, ServiceLife, CommandLife
         DEF Step
    <3>2. SaveReplace(r) \/ disk' = disk
      BY <2>4 DEF Step, Crash, SaveRead, SaveFails, Interpret, Prepare,
                  PrepareThen, Execute, PrepareClarified, EnsureClarified,
                  Reload, EnterLoop, Normalize, CreatePlan, LimitReached,
                  HonourStop, Iterate,
                  ToolCall, Final, Verify, BrowserCheck, Review, Checkpoint,
                  LoopRaises
    <3> QED
      BY <2>2, <2>3, <3>1, <3>2
  <2>5. CASE \/ Start(r) \/ Resume(r) \/ Clarify(r)
             \/ RequestStop(r) \/ Rollback(r)
    <3>1. LifeInv(r)'
      BY <1>0, <2>1, <2>5, CommandLife
    <3>2. disk' = disk
      BY <2>5 DEF Start, Resume, Clarify, RequestStop, Rollback
    <3> QED
      BY <2>3, <3>1, <3>2
  <2>6. CASE UNCHANGED vars
    <3>1. LifeInv(r)'
      BY <2>1, <2>6
         DEF vars, LifeInv, Where, StatusAt, Behind, Leads, Supersedes
    <3> QED
      BY <2>3, <2>6, <3>1 DEF vars
  <2> QED
    BY <1>0, <2>4, <2>5, <2>6 DEF Next
<1>3. Spec => []BranchInv
  <2>1. Alone
    BY <1>0 DEF Alone
  <2> QED
    BY <2>1, BranchInductive
<1> QED
  BY <1>1, <1>2, <1>3, PTL DEF Spec, FileTellsLifecycle, Lifecycle!Spec

=============================================================================
