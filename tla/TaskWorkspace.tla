--------------------------- MODULE TaskWorkspace ---------------------------
(***************************************************************************)
(* What one autonomous task does to the user's Git repository: the calls   *)
(* the model makes through ToolExecutor (src/skytrap/autonomy/executor.py),*)
(* what they leave in WorkingMemory (memory.py), and the branch, the       *)
(* checkpoint and the rollback of GitWorkflow (git_workflow.py).  The      *)
(* process may be killed at any point; the user edits, commits and         *)
(* switches branches while no process runs, and may roll back at any time, *)
(* in a process of its own whose git commands come one after the other.    *)
(*                                                                         *)
(* A content is the number of the edit that made it, 0 for what was there  *)
(* before the task.                                                        *)
(***************************************************************************)
EXTENDS RiskPolicy

CONSTANTS Paths,      \* files of the repository
          Granted,    \* capabilities of the executor
          Risks,      \* consequence levels the request may be found to have
          NoFile,     \* the content of a path with no file
          MaxEdits,   \* bound: contents made
          MaxRuns     \* bound: runs of the task

ASSUME WorkspaceAssumption == /\ Risks \subseteq LOW..CRITICAL
                              /\ MaxEdits \in Nat /\ MaxRuns \in Nat
                              /\ NoFile \notin Nat

Contents == 0..MaxEdits
Trees == [Paths -> Contents \cup {NoFile}]
Branches == {"user", "task"}
NoTree == [p \in {} |-> NoFile]

VARIABLES
  files,     \* the working tree
  index,     \* the index; a path that has a file there is tracked
  tip,       \* the tree of each branch's last commit
  on,        \* the branch checked out
  base,      \* the tree of task.base_commit, NoTree before prepare()
  status,    \* "new", "open" or "completed"
  memory,    \* files_consulted and files_modified of the process that runs
  saved,     \* the same in the task's file
  readable,  \* that file passes the validation of load()
  stage,     \* where that process is
  undoing,   \* a rollback has the task's branch and is about to reset it
  edits,     \* contents made so far
  author,    \* history: who made each content
  sensitive, \* the paths whose name classify_path takes for a secret
  risk,      \* the level found by HumanIntentEngine
  runs,      \* runs started
  known,     \* history: paths the model read or changed
  warned,    \* history: paths an earlier call of the model was about
  allowed,   \* history: paths a changing call was approved for by the user
  left,      \* history: uncommitted work of the user on his branch
  strayed    \* history: a command of the model changed branch while undoing

repo == <<files, index, tip, on>>
ghosts == <<known, warned, allowed, left, strayed>>
request == <<sensitive, risk>>
task == <<base, status, memory, saved, readable>>
vars == <<repo, task, stage, undoing, edits, author, request, runs, ghosts>>

NoMemory == [consulted |-> {}, modified |-> {}]

Init == /\ files \in [Paths -> {0, NoFile}]
        /\ index = files
        /\ tip = [b \in Branches |-> files]
        /\ on = "user"
        /\ base = NoTree
        /\ status = "new"
        /\ memory = NoMemory /\ saved = NoMemory
        /\ readable = TRUE
        /\ stage = "idle" /\ undoing = FALSE
        /\ edits = 0
        /\ author = [c \in Contents |-> "user"]
        /\ sensitive \in SUBSET Paths
        /\ risk \in Risks
        /\ runs = 0
        /\ known = {} /\ warned = {} /\ allowed = {}
        /\ left = NoTree
        /\ strayed = FALSE

-----------------------------------------------------------------------------
(* Git *)

Tracked(p) == index[p] # NoFile

\* status --porcelain prints nothing; diff --name-only.
Clean == files = index /\ index = tip[on]
Unstaged == {p \in Paths : Tracked(p) /\ files[p] # index[p]}

\* Write a new content, or none, to p.
Edit(p, who) ==
  \/ /\ edits < MaxEdits
     /\ edits' = edits + 1
     /\ author' = [author EXCEPT ![edits'] = who]
     /\ files' = [files EXCEPT ![p] = edits']
  \/ /\ files[p] # NoFile
     /\ files' = [files EXCEPT ![p] = NoFile]
     /\ UNCHANGED <<edits, author>>

\* reset --hard to a tree: untracked files it does not have stay.
Reset(tree, from) ==
  [p \in Paths |-> IF index[p] # NoFile \/ tree[p] # NoFile
                   THEN tree[p] ELSE from[p]]

-----------------------------------------------------------------------------
(* The user, in the same clone *)

Away == stage = "idle" /\ ~undoing

Note(tree) == left' = IF on = "user" /\ (tree # tip[on] \/ index # tip[on])
                      THEN tree ELSE NoTree

UserEdit(p) ==
  /\ Away
  /\ Edit(p, "user")
  /\ Note(files')
  /\ UNCHANGED <<index, tip, on, task, stage, undoing, request, runs, known,
                 warned, allowed, strayed>>

UserCommit ==
  /\ Away
  /\ ~Clean
  /\ index' = files
  /\ tip' = [tip EXCEPT ![on] = files]
  /\ left' = NoTree
  /\ UNCHANGED <<files, on, task, stage, undoing, edits, author, request, runs,
                 known, warned, allowed, strayed>>

\* Also what a clean ensure_task_branch does.
SwitchTo(b) == /\ on' = b
               /\ files' = tip[b]
               /\ index' = tip[b]

UserSwitch ==
  /\ Away
  /\ status # "new"
  /\ Clean
  /\ \E b \in Branches \ {on} : SwitchTo(b)
  /\ UNCHANGED <<tip, task, stage, undoing, edits, author, request, runs,
                 ghosts>>

-----------------------------------------------------------------------------
(* The task's life *)

\* prepare(): the task's branch starts at the user's clean commit.
Prepare ==
  /\ stage = "idle"
  /\ status = "new"
  /\ Clean
  /\ base' = files
  /\ tip' = [tip EXCEPT !["task"] = files]
  /\ on' = "task"
  /\ status' = "open"
  /\ UNCHANGED <<files, index, memory, saved, readable, stage, undoing, edits,
                 author, request, runs, ghosts>>

\* Faulty variant of Ready: a dirty tree is carried along.
ReadyAnyway == on \in Branches

Ready == on = "task" \/ Clean

\* ensure_task_branch, when it succeeds.
EnsureTaskBranch ==
  /\ Ready
  /\ IF on = "task" THEN UNCHANGED <<files, index, on>> ELSE SwitchTo("task")

\* execute() or resume(): what the task knows is what was saved.
Resume ==
  /\ stage = "idle"
  /\ readable
  /\ status = "open"
  /\ runs < MaxRuns
  /\ EnsureTaskBranch
  /\ runs' = runs + 1
  /\ memory' = saved
  /\ stage' = "run"
  /\ UNCHANGED <<tip, base, status, saved, readable, undoing, edits, author,
                 request, ghosts>>

\* The process is killed, or the loop gives up.
Crash ==
  /\ stage # "idle"
  /\ stage' = "idle"
  /\ memory' = NoMemory
  /\ UNCHANGED <<repo, base, status, saved, readable, undoing, edits, author,
                 request, runs, ghosts>>

\* The loop saves after every tool call; a pending approval ends the run.
Save ==
  /\ stage \in {"save", "pause"}
  /\ saved' = memory
  /\ IF stage = "save"
     THEN stage' = "run" /\ UNCHANGED memory
     ELSE stage' = "idle" /\ memory' = NoMemory
  /\ UNCHANGED <<repo, base, status, readable, undoing, edits, author, request,
                 runs, ghosts>>

-----------------------------------------------------------------------------
(* ToolExecutor.execute *)

ClassOf(p) == IF p \in sensitive THEN "sensitive" ELSE "ordinary"

\* Faulty variant of Uninspected: the guard looks at nothing.
NeverGuarded(p) == p \notin Paths

Uninspected(p) == /\ files[p] # NoFile
                  /\ p \notin memory.consulted \cup memory.modified

\* What becomes of a call: the missing capability, then the guard on writes,
\* then the approval.
Verdict(tool, p, answer) ==
  LET a == Assess(tool, ClassOf(p), risk)
  IN  IF \/ a.capability \notin Granted
         \/ tool = "write_file" /\ Uninspected(p)
      THEN "denied" ELSE Decide(a, answer)

\* _record: refused and failed calls leave the same trace as the others.
Record(tool, p) ==
  /\ memory' = IF tool = "read_file"
               THEN [memory EXCEPT !.consulted = @ \cup {p}]
               ELSE [memory EXCEPT !.modified = @ \cup {p}]
  /\ warned' = warned \cup {p}

\* A call that is refused, or has to wait for the user.
Refused(tool, p, answer) ==
  /\ stage = "run"
  /\ Verdict(tool, p, answer) # "approved"
  /\ Record(tool, p)
  /\ stage' = IF Verdict(tool, p, answer) = "pending" THEN "pause" ELSE "save"
  /\ UNCHANGED <<repo, base, status, saved, readable, undoing, edits, author,
                 request, runs, known, allowed, left, strayed>>

\* One that fails: no such file, too large, no match for the patch.
Failed(tool, p, answer) ==
  /\ stage = "run"
  /\ Verdict(tool, p, answer) = "approved"
  /\ Record(tool, p)
  /\ stage' = "save"
  /\ UNCHANGED <<repo, base, status, saved, readable, undoing, edits, author,
                 request, runs, known, allowed, left, strayed>>

Done(tool, p, answer) ==
  /\ stage = "run"
  /\ Verdict(tool, p, answer) = "approved"
  /\ known' = known \cup {p}
  /\ allowed' = IF answer = "yes" /\ tool # "read_file"
                THEN allowed \cup {p} ELSE allowed
  /\ Record(tool, p)
  /\ stage' = "save"
  /\ UNCHANGED <<index, tip, on, base, status, saved, readable, undoing,
                 request, runs, left, strayed>>

ReadFile(p) == /\ files[p] # NoFile
               /\ Done("read_file", p, "nothing")
               /\ UNCHANGED <<files, edits, author>>

WriteFile(p, answer) == /\ Done("write_file", p, answer)
                        /\ Edit(p, "tool")
                        /\ files'[p] # NoFile

PatchFile(p, answer) == /\ files[p] # NoFile
                        /\ Done("patch_file", p, answer)
                        /\ Edit(p, "tool")
                        /\ files'[p] # NoFile

DeleteFile(p, answer) == /\ Done("delete_file", p, answer)
                         /\ Edit(p, "tool")
                         /\ files'[p] = NoFile

ShellVerdict(class, answer) ==
  LET a == Assess("shell", class, risk)
  IN  IF a.capability \notin Granted THEN "denied" ELSE Decide(a, answer)

\* A command names no path, so the memory keeps none.
Shell(class, answer) ==
  /\ stage = "run"
  /\ ShellVerdict(class, answer) = "approved"
  /\ stage' = "save"
  /\ UNCHANGED <<task, undoing, request, runs, known, warned, allowed, left>>

ShellRefused(class, answer) ==
  /\ stage = "run"
  /\ \/ /\ ShellVerdict(class, answer) = "pending"
        /\ stage' = "pause"
     \/ /\ \/ ShellVerdict(class, answer) = "denied"
           \/ class = "forbidden"
        /\ stage' = "save"
  /\ UNCHANGED <<repo, task, undoing, edits, author, request, runs, ghosts>>

\* A build, a formatter, a script; rm and mv are destructive.
ShellEdits(class, answer) ==
  /\ class \in {"safe", "confirm", "destructive"}
  /\ Shell(class, answer)
  /\ \E p \in Paths : Edit(p, "shell")
  /\ UNCHANGED <<index, tip, on, strayed>>

\* git add
ShellStages(class, answer) ==
  /\ class = "confirm"
  /\ Shell(class, answer)
  /\ index' = files
  /\ UNCHANGED <<files, tip, on, edits, author, strayed>>

ShellCommits(class, answer) ==
  /\ class = "commit"
  /\ Shell(class, answer)
  /\ tip' = [tip EXCEPT ![on] = index]
  /\ UNCHANGED <<files, index, on, edits, author, strayed>>

\* git switch; git checkout is destructive.
ShellSwitches(class, answer) ==
  /\ class \in {"confirm", "destructive"}
  /\ Shell(class, answer)
  /\ Clean
  /\ \E b \in Branches \ {on} : SwitchTo(b)
  /\ strayed' = undoing
  /\ UNCHANGED <<tip, edits, author>>

-----------------------------------------------------------------------------
(* Completion *)

\* The checks passed on the tree as it is.
Verify ==
  /\ stage = "run"
  /\ stage' = "verified"
  /\ UNCHANGED <<repo, task, undoing, edits, author, request, runs, ghosts>>

\* Faulty variant of Pathspec: only what the tools recorded.
RecordedOnly == memory.modified

Pathspec == memory.modified \cup Unstaged

\* add -A of these paths fails when one of them matches nothing.
CanAdd == \A p \in Pathspec : files[p] # NoFile \/ Tracked(p)

Added == [p \in Paths |-> IF p \in Pathspec THEN files[p] ELSE index[p]]

\* checkpoint() up to add: with nothing to add, or nothing staged by it, the
\* task ends with "No changes."
CheckpointStage ==
  /\ stage = "verified"
  /\ on = "task"
  /\ CanAdd
  /\ index' = Added
  /\ stage' = IF Pathspec = {} \/ Added = tip["task"] THEN "sealed"
                                                     ELSE "staged"
  /\ UNCHANGED <<files, tip, on, task, undoing, edits, author, request, runs,
                 ghosts>>

\* The model left the task's branch: the checkpoint goes back to it.
CheckpointReturns ==
  /\ stage = "verified"
  /\ on # "task"
  /\ EnsureTaskBranch
  /\ UNCHANGED <<tip, task, stage, undoing, edits, author, request, runs,
                 ghosts>>

CheckpointCommit ==
  /\ stage = "staged"
  /\ on = "task"
  /\ index # tip["task"]
  /\ tip' = [tip EXCEPT !["task"] = index]
  /\ stage' = "sealed"
  /\ UNCHANGED <<files, index, on, task, undoing, edits, author, request, runs,
                 ghosts>>

\* The branch cannot be had, or git does not answer: the task is BLOCKED.
CheckpointBlocked ==
  /\ stage \in {"verified", "staged"}
  /\ stage' = "idle"
  /\ saved' = memory
  /\ memory' = NoMemory
  /\ UNCHANGED <<repo, base, status, readable, undoing, edits, author, request,
                 runs, ghosts>>

\* add matches nothing; a hook, or nothing to commit, makes commit fail.  The
\* result's metadata holds git's command as a list, which record() puts among
\* the strings of commands_executed: the file saved then is refused by load().
CheckpointFails ==
  /\ \/ stage = "verified" /\ on = "task" /\ ~CanAdd
     \/ stage = "staged"
  /\ readable' = FALSE
  /\ stage' = "idle"
  /\ saved' = memory
  /\ memory' = NoMemory
  /\ UNCHANGED <<repo, base, status, undoing, edits, author, request, runs,
                 ghosts>>

Complete ==
  /\ stage = "sealed"
  /\ status' = "completed"
  /\ saved' = memory
  /\ memory' = NoMemory
  /\ stage' = "idle"
  /\ UNCHANGED <<repo, base, readable, undoing, edits, author, request, runs,
                 ghosts>>

\* Faulty variant of RollbackStart: whatever branch is checked out will do.
RollbackHere ==
  /\ ~undoing
  /\ status # "new"
  /\ readable
  /\ undoing' = TRUE
  /\ UNCHANGED <<repo, task, stage, edits, author, request, runs, ghosts>>

\* rollback(), in another process: ensure_task_branch, and then "reset --hard"
\* of whatever is checked out by that time.
RollbackStart ==
  /\ ~undoing
  /\ status # "new"
  /\ readable
  /\ EnsureTaskBranch
  /\ undoing' = TRUE
  /\ UNCHANGED <<tip, task, stage, edits, author, request, runs, ghosts>>

RollbackReset ==
  /\ undoing
  /\ files' = Reset(base, files)
  /\ index' = base
  /\ tip' = [tip EXCEPT ![on] = base]
  /\ undoing' = FALSE /\ strayed' = FALSE
  /\ UNCHANGED <<on, task, stage, edits, author, request, runs, known, warned,
                 allowed, left>>

\* Git does not answer, or the process is killed.
RollbackFails ==
  /\ undoing
  /\ undoing' = FALSE /\ strayed' = FALSE
  /\ UNCHANGED <<repo, task, stage, edits, author, request, runs, known,
                 warned, allowed, left>>

-----------------------------------------------------------------------------

Answers == {"yes", "no", "nothing"}

User == UserCommit \/ UserSwitch \/ \E p \in Paths : UserEdit(p)

FileTools == {"read_file", "write_file", "patch_file", "delete_file"}

ToolCall ==
  \E answer \in Answers :
    \/ \E p \in Paths : \/ ReadFile(p)
                        \/ WriteFile(p, answer) \/ PatchFile(p, answer)
                        \/ DeleteFile(p, answer)
                        \/ \E tool \in FileTools : \/ Refused(tool, p, answer)
                                                 \/ Failed(tool, p, answer)
    \/ \E class \in CommandClasses :
         \/ ShellRefused(class, answer) \/ ShellEdits(class, answer)
         \/ ShellStages(class, answer) \/ ShellCommits(class, answer)
         \/ ShellSwitches(class, answer)

Completion == \/ Verify \/ CheckpointReturns \/ CheckpointStage
              \/ CheckpointCommit \/ CheckpointBlocked
              \/ CheckpointFails \/ Complete

Rollback == RollbackStart \/ RollbackReset \/ RollbackFails

Next == User \/ Prepare \/ Resume \/ ToolCall \/ Save \/ Completion
        \/ Crash \/ Rollback

Spec == Init /\ [][Next]_vars

-----------------------------------------------------------------------------
(* Properties *)

\* "A capability missing ...; HIGH/CRITICAL stays pending without an approval;
\* a sensitive target requires an approval" (docs, "Invariants de securite"):
\* what a file tool left in a sensitive file, or in any file once the request
\* was found consequential, the user approved.
HeldNeedsYes ==
  \A p \in Paths :
    /\ files[p] # NoFile /\ author[files[p]] = "tool"
    /\ p \in sensitive \/ risk >= HIGH
    => p \in allowed

\* Uncommitted work of the user on his own branch stays as he left it, whatever
\* task is resumed, checkpointed or rolled back meanwhile.
UserWorkKept == left # NoTree => on = "user" /\ files = left

\* The commands that move the user's branch on purpose.
MovesUserBranch == \/ UserCommit
                   \/ \E answer \in Answers : ShellCommits("commit", answer)

\* Only the user's own commits, and commits the model itself asks for, move
\* the user's branch: never a checkpoint, nor a rollback unless a command of
\* the running task changed branch between its check and its reset.
UserBranchKept ==
  [][\/ tip'["user"] = tip["user"]
     \/ MovesUserBranch
     \/ RollbackReset /\ strayed]_vars

\* A checkpoint leaves out nothing that git tracks or the tools recorded: it
\* is staged when the task ends, and in the commit when there is one.
CheckpointSeals ==
  [][stage # "sealed" /\ stage' = "sealed" =>
       \A p \in Paths : index[p] # NoFile \/ p \in memory.modified =>
         /\ index'[p] = files[p]
         /\ stage = "staged" => tip'["task"][p] = files[p]]_vars

\* Every full write over an existing file comes after another call on it, in
\* this run or before a crash: the first one is refused and says why.
WarnedBeforeOverwrite ==
  [][\A p \in Paths : /\ files[p] # NoFile
                      /\ \E answer \in Answers : WriteFile(p, answer)
                      => p \in warned]_vars

\* Claims of the code that it does not keep.

\* "A full-content write to a path that already exists on disk is refused
\* unless the model has read (or itself already written/deleted) that exact
\* path earlier in this task" (executor.py).
NoBlindWrite ==
  [][\A p \in Paths : /\ files[p] # NoFile
                      /\ \E answer \in Answers : WriteFile(p, answer)
                      => p \in known]_vars

=============================================================================
