------------------------- MODULE TaskWorkspaceProofs -------------------------
(***************************************************************************)
(* Proofs about TaskWorkspace, for any files, capabilities, risks, number  *)
(* of edits and of runs: nothing sensitive or consequential is written     *)
(* without the user's yes, whatever Git brings back later; the user's own  *)
(* work and branch are left alone; what a checkpoint seals is what the     *)
(* task did; and no file is overwritten without a warning.                 *)
(***************************************************************************)
EXTENDS TaskWorkspace, TLAPS

-----------------------------------------------------------------------------
(* The inductive invariant *)

Memories == [consulted : SUBSET Paths, modified : SUBSET Paths]
Stages == {"idle", "run", "save", "pause", "verified", "staged", "sealed"}
Authors == {"user", "tool", "shell"}

WorkspaceTypeOK ==
  /\ files \in Trees /\ index \in Trees
  /\ tip \in [Branches -> Trees]
  /\ on \in Branches
  /\ status \in {"new", "open", "completed"}
  /\ status # "new" => base \in Trees
  /\ status = "new" => stage = "idle" /\ ~undoing
  /\ memory \in Memories /\ saved \in Memories
  /\ readable \in BOOLEAN
  /\ stage \in Stages
  /\ edits \in Contents
  /\ author \in [Contents -> Authors]
  /\ sensitive \subseteq Paths
  /\ risk \in LOW..CRITICAL
  /\ runs \in 0..MaxRuns
  /\ known \subseteq Paths /\ warned \subseteq Paths /\ allowed \subseteq Paths
  /\ left \in Trees \cup {NoTree}
  /\ undoing \in BOOLEAN /\ strayed \in BOOLEAN

\* The files a tool may only change with the user's yes.
Held == {p \in Paths : p \in sensitive \/ risk >= HIGH}

\* In a tree t, made of the first n contents, what a tool made of a held file
\* was approved.
Approved(t, n, who, held, yes) ==
  \A p \in Paths : t[p] # NoFile =>
    t[p] <= n /\ (who[t[p]] = "tool" /\ p \in held => p \in yes)

\* HeldNeedsYes, of every tree that Git may bring back.
EveryTree ==
  /\ Approved(files, edits, author, Held, allowed)
  /\ Approved(index, edits, author, Held, allowed)
  /\ \A b \in Branches : Approved(tip[b], edits, author, Held, allowed)
  /\ status # "new" => Approved(base, edits, author, Held, allowed)

\* Work left by the user makes the clone dirty on his branch: no process that
\* needs the task's branch gets past ensure_task_branch.
LeftAlone == left # NoTree => /\ on = "user" /\ files = left
                              /\ files # tip["user"] \/ index # tip["user"]
                              /\ stage = "idle" /\ ~undoing

\* What is staged is the working tree, as far as git tracks it or the tools
\* recorded it, even after a rollback from another process.
StagedIsWork == stage = "staged" =>
  /\ on = "task"
  /\ \A p \in Paths : index[p] # NoFile \/ p \in memory.modified =>
       index[p] = files[p]

\* What the memory of the task holds, the model was told about.
MemoryWarned ==
  memory.consulted \cup memory.modified \cup saved.consulted
    \cup saved.modified \subseteq warned

\* A rollback has the task's branch, as long as no command leaves it.
UndoingOnTask == undoing /\ ~strayed => on = "task"

WorkspaceInv == /\ WorkspaceTypeOK /\ EveryTree /\ LeftAlone
                /\ StagedIsWork /\ MemoryWarned /\ UndoingOnTask

-----------------------------------------------------------------------------
(* The policy *)

LEMMA MaxOfTwo ==
  ASSUME NEW a \in Nat, NEW b \in Nat
  PROVE  Max({a, b}) \in {a, b} /\ Max({a, b}) >= a /\ Max({a, b}) >= b
<1>1. \E x \in {a, b} : \A y \in {a, b} : x >= y
  OBVIOUS
<1> QED
  BY <1>1 DEF Max

\* A changing call on a held file is approved by a yes only.
LEMMA HeldAsks ==
  ASSUME WorkspaceTypeOK, NEW tool \in WriteTools, NEW p \in Held,
         NEW answer \in Answers, Verdict(tool, p, answer) = "approved"
  PROVE  answer = "yes"
<1> DEFINE a == AssessWrite(tool, ClassOf(p))
           b == Assess(tool, ClassOf(p), risk)
<1>1. risk \in Nat
  BY DEF WorkspaceTypeOK, LOW, CRITICAL
<1>2. /\ a.level \in {MEDIUM, HIGH, CRITICAL} /\ a.level \in Nat
      /\ a.capability \in {"filesystem:write", "secrets:use"}
      /\ p \in sensitive => a.level = CRITICAL
      /\ a = [level |-> a.level, capability |-> a.capability, ask |-> a.ask]
  BY DEF AssessWrite, Assessment, ClassOf, MEDIUM, HIGH, CRITICAL
<1>3. AssessTool(tool, ClassOf(p)) = a
  BY DEF AssessTool, WriteTools
<1> HIDE DEF a
<1>4. b.level = Max({a.level, risk})
  BY <1>2, <1>3 DEF Assess, Combine
<1>5. b.level >= HIGH
  BY <1>1, <1>2, <1>4, MaxOfTwo DEF Held, HIGH, CRITICAL, MEDIUM
<1>6. ~(b.level <= MEDIUM)
  BY <1>1, <1>2, <1>4, <1>5, MaxOfTwo DEF HIGH, MEDIUM
<1>7. Decide(b, answer) = "approved"
  BY DEF Verdict
<1> HIDE DEF b
<1> QED
  BY <1>6, <1>7 DEF Decide, Answers

-----------------------------------------------------------------------------
(* Types *)

\* Every step by its name, for the lemmas below.
LEMMA StepOf ==
  ASSUME Next
  PROVE  \/ UserCommit \/ UserSwitch \/ Prepare \/ Resume \/ Save \/ Verify
         \/ CheckpointReturns \/ CheckpointStage \/ CheckpointCommit
         \/ CheckpointBlocked \/ CheckpointFails \/ Complete \/ Crash
         \/ RollbackStart \/ RollbackReset \/ RollbackFails
         \/ \E p \in Paths : UserEdit(p) \/ ReadFile(p)
         \/ \E p \in Paths, answer \in Answers :
              \/ WriteFile(p, answer) \/ PatchFile(p, answer)
              \/ DeleteFile(p, answer)
              \/ \E tool \in FileTools : \/ Refused(tool, p, answer)
                                         \/ Failed(tool, p, answer)
         \/ \E class \in CommandClasses, answer \in Answers :
              \/ ShellRefused(class, answer) \/ ShellEdits(class, answer)
              \/ ShellStages(class, answer) \/ ShellCommits(class, answer)
              \/ ShellSwitches(class, answer)
  BY DEF Next, User, ToolCall, Completion, Rollback

\* An edit makes a new content, of its author, or takes the file away.
LEMMA EditTypes ==
  ASSUME WorkspaceTypeOK, NEW p \in Paths, NEW who \in Authors, Edit(p, who)
  PROVE  /\ files' \in Trees /\ edits' \in Contents
         /\ author' \in [Contents -> Authors]
         /\ edits' >= edits
         /\ \A c \in Contents : c <= edits => author'[c] = author[c]
         /\ \A q \in Paths \ {p} : files'[q] = files[q]
         /\ files'[p] # NoFile => /\ files'[p] = edits'
                                  /\ author'[edits'] = who
<1> USE WorkspaceAssumption DEF WorkspaceTypeOK, Trees, Contents
<1>1. CASE /\ edits < MaxEdits
           /\ edits' = edits + 1
           /\ author' = [author EXCEPT ![edits'] = who]
           /\ files' = [files EXCEPT ![p] = edits']
  <2>1. edits' \in 0..MaxEdits /\ edits' > edits /\ edits \in Nat
    BY <1>1
  <2> QED
    BY <1>1, <2>1
<1>2. CASE /\ files[p] # NoFile
           /\ files' = [files EXCEPT ![p] = NoFile]
           /\ UNCHANGED <<edits, author>>
  BY <1>2
<1> QED
  BY <1>1, <1>2 DEF Edit

LEMMA SwitchTypes ==
  ASSUME WorkspaceTypeOK, NEW b \in Branches, SwitchTo(b)
  PROVE  files' \in Trees /\ index' \in Trees /\ on' \in Branches
  BY DEF WorkspaceTypeOK, SwitchTo

LEMMA ResetTypes ==
  ASSUME WorkspaceTypeOK, NEW tree \in Trees, NEW from \in Trees
  PROVE  Reset(tree, from) \in Trees
  BY DEF Reset, Trees

LEMMA WorkspaceTypes ==
  ASSUME WorkspaceTypeOK, [Next]_vars
  PROVE  WorkspaceTypeOK'
<1> USE DEF repo, task, request, ghosts
<1>1. CASE UNCHANGED vars
  BY <1>1 DEF vars, WorkspaceTypeOK
<1>2. CASE UserCommit \/ UserSwitch
  <2>1. UserSwitch => files' \in Trees /\ index' \in Trees /\ on' \in Branches
    BY SwitchTypes DEF UserSwitch
  <2> QED
    BY <1>2, <2>1 DEF UserCommit, UserSwitch, WorkspaceTypeOK
<1>3. ASSUME NEW p \in Paths, UserEdit(p) PROVE WorkspaceTypeOK'
  <2>1. /\ files' \in Trees /\ edits' \in Contents
        /\ author' \in [Contents -> Authors]
    BY <1>3, EditTypes DEF UserEdit, Authors
  <2>2. left' \in Trees \cup {NoTree}
    BY <1>3, <2>1 DEF UserEdit, Note
  <2> QED
    BY <1>3, <2>1, <2>2 DEF UserEdit, WorkspaceTypeOK
<1>4. CASE Prepare
  BY <1>4 DEF Prepare, WorkspaceTypeOK, Branches
<1>5. CASE Resume
  <2>1. files' \in Trees /\ index' \in Trees /\ on' \in Branches
    BY <1>5, SwitchTypes DEF Resume, EnsureTaskBranch, WorkspaceTypeOK,
                             Branches
  <2>2. runs' \in 0..MaxRuns
    BY <1>5, WorkspaceAssumption DEF Resume, WorkspaceTypeOK
  <2>3. stage' \in Stages
    BY <1>5 DEF Resume, Stages
  <2> QED
    BY <1>5, <2>1, <2>2, <2>3 DEF Resume, WorkspaceTypeOK
<1>6. CASE Save \/ Verify \/ CheckpointBlocked \/ CheckpointFails \/ Complete
           \/ Crash
  <2>1. NoMemory \in Memories
    BY DEF NoMemory, Memories
  <2>2. CASE Save \/ Verify \/ Crash
    BY <2>1, <2>2 DEF Save, Verify, Crash, WorkspaceTypeOK, Stages
  <2>3. CASE CheckpointBlocked \/ CheckpointFails
    BY <2>1, <2>3 DEF CheckpointBlocked, CheckpointFails, WorkspaceTypeOK,
                      Stages
  <2>4. CASE Complete
    BY <2>1, <2>4 DEF Complete, WorkspaceTypeOK, Stages
  <2> QED
    BY <1>6, <2>2, <2>3, <2>4
<1>7. CASE CheckpointReturns
  <2>1. files' \in Trees /\ index' \in Trees /\ on' \in Branches
    BY <1>7, SwitchTypes DEF CheckpointReturns, EnsureTaskBranch, Branches
  <2> QED
    BY <1>7, <2>1 DEF CheckpointReturns, WorkspaceTypeOK
<1>8. CASE CheckpointStage \/ CheckpointCommit
  <2>1. Added \in Trees
    BY DEF Added, WorkspaceTypeOK, Trees
  <2> QED
    BY <1>8, <2>1 DEF CheckpointStage, CheckpointCommit, WorkspaceTypeOK,
                      Branches, Stages
<1>9. CASE RollbackReset
  <2>1. files' \in Trees
    BY <1>9, ResetTypes DEF RollbackReset, WorkspaceTypeOK
  <2> QED
    BY <1>9, <2>1 DEF RollbackReset, WorkspaceTypeOK
<1>15. CASE RollbackStart \/ RollbackFails
  <2>1. RollbackStart => /\ files' \in Trees /\ index' \in Trees
                         /\ on' \in Branches
    BY SwitchTypes DEF RollbackStart, EnsureTaskBranch, Branches,
                       WorkspaceTypeOK
  <2> QED
    BY <1>15, <2>1 DEF RollbackStart, RollbackFails, WorkspaceTypeOK
\* Calls of the model: what the memory records, then what the tool does.
<1>10. ASSUME NEW p \in Paths, NEW tool \in FileTools, Record(tool, p)
       PROVE  memory' \in Memories /\ warned' \subseteq Paths
  BY <1>10 DEF Record, WorkspaceTypeOK, Memories
<1>11. ASSUME NEW p \in Paths, NEW answer \in Answers, NEW tool \in FileTools,
              Refused(tool, p, answer) \/ Failed(tool, p, answer)
       PROVE  WorkspaceTypeOK'
  BY <1>10, <1>11 DEF Refused, Failed, WorkspaceTypeOK, Stages
<1>12. ASSUME NEW p \in Paths, NEW answer \in Answers, NEW tool \in FileTools,
              Done(tool, p, answer), files' \in Trees, edits' \in Contents,
              author' \in [Contents -> Authors]
       PROVE  WorkspaceTypeOK'
  <2>1. known' \subseteq Paths /\ allowed' \subseteq Paths /\ stage' \in Stages
    BY <1>12 DEF Done, WorkspaceTypeOK, Stages
  <2> QED
    BY <1>10, <1>12, <2>1 DEF Done, WorkspaceTypeOK
<1>13. ASSUME NEW p \in Paths, NEW answer \in Answers,
              \/ ReadFile(p) \/ WriteFile(p, answer) \/ PatchFile(p, answer)
              \/ DeleteFile(p, answer)
       PROVE  WorkspaceTypeOK'
  <2>1. CASE ReadFile(p)
    BY <1>12, <2>1 DEF ReadFile, FileTools, Answers, WorkspaceTypeOK
  <2>2. CASE \/ WriteFile(p, answer) \/ PatchFile(p, answer)
             \/ DeleteFile(p, answer)
    <3>1. Edit(p, "tool")
      BY <2>2 DEF WriteFile, PatchFile, DeleteFile
    <3>2. /\ files' \in Trees /\ edits' \in Contents
          /\ author' \in [Contents -> Authors]
      BY <3>1, EditTypes DEF Authors
    <3>3. \E tool \in FileTools : Done(tool, p, answer)
      BY <2>2 DEF WriteFile, PatchFile, DeleteFile, FileTools
    <3> QED
      BY <1>12, <3>2, <3>3
  <2> QED
    BY <1>13, <2>1, <2>2
<1>14. ASSUME NEW class \in CommandClasses, NEW answer \in Answers,
              \/ ShellRefused(class, answer) \/ ShellEdits(class, answer)
              \/ ShellStages(class, answer) \/ ShellCommits(class, answer)
              \/ ShellSwitches(class, answer)
       PROVE  WorkspaceTypeOK'
  <2>1. CASE ShellRefused(class, answer)
    BY <2>1 DEF ShellRefused, WorkspaceTypeOK, Stages
  <2>2. CASE ShellEdits(class, answer)
    <3>1. /\ files' \in Trees /\ edits' \in Contents
          /\ author' \in [Contents -> Authors]
      BY <2>2, EditTypes DEF ShellEdits, Authors
    <3> QED
      BY <2>2, <3>1 DEF ShellEdits, Shell, WorkspaceTypeOK, Stages
  <2>3. CASE ShellStages(class, answer) \/ ShellCommits(class, answer)
    BY <2>3 DEF ShellStages, ShellCommits, Shell, WorkspaceTypeOK, Stages,
                Branches
  <2>4. CASE ShellSwitches(class, answer)
    <3>1. files' \in Trees /\ index' \in Trees /\ on' \in Branches
      BY <2>4, SwitchTypes DEF ShellSwitches
    <3> QED
      BY <2>4, <3>1 DEF ShellSwitches, Shell, WorkspaceTypeOK, Stages
  <2> QED
    BY <1>14, <2>1, <2>2, <2>3, <2>4
<1> QED
  BY <1>1, <1>2, <1>3, <1>4, <1>5, <1>6, <1>7, <1>8, <1>9, <1>11, <1>13,
     <1>14, <1>15, StepOf, "yes" \in Answers DEF Answers

-----------------------------------------------------------------------------
(* What the tools made of held files *)

\* Later contents and later approvals do not spoil a tree.
LEMMA ApprovedLater ==
  ASSUME NEW t \in Trees, NEW n \in Contents, NEW m \in Contents,
         NEW who, NEW later, NEW held, NEW yes, NEW more,
         Approved(t, n, who, held, yes), n <= m,
         \A c \in Contents : c <= n => later[c] = who[c],
         yes \subseteq more
  PROVE  Approved(t, m, later, held, more)
<1> SUFFICES ASSUME NEW p \in Paths, t[p] # NoFile
             PROVE  t[p] <= m /\ (later[t[p]] = "tool" /\ p \in held =>
                                    p \in more)
  BY DEF Approved
<1>1. t[p] \in Contents /\ t[p] \in Nat /\ n \in Nat /\ m \in Nat
  BY WorkspaceAssumption DEF Trees, Contents
<1>2. t[p] <= n /\ (who[t[p]] = "tool" /\ p \in held => p \in yes)
  BY DEF Approved
<1> QED
  BY <1>1, <1>2

\* A tree put together path by path from two good ones is good.
LEMMA ApprovedMix ==
  ASSUME NEW t \in Trees, NEW u \in Trees, NEW v \in Trees, NEW n, NEW who,
         NEW held, NEW yes, Approved(t, n, who, held, yes),
         Approved(u, n, who, held, yes),
         \A p \in Paths : v[p] = t[p] \/ v[p] = u[p]
  PROVE  Approved(v, n, who, held, yes)
  BY DEF Approved

\* The trees that come together in a step that makes no content.
LEMMA TreesMove ==
  ASSUME WorkspaceTypeOK, EveryTree, WorkspaceTypeOK',
         UNCHANGED <<edits, author, request>>, allowed \subseteq allowed',
         Approved(files', edits, author, Held, allowed),
         Approved(index', edits, author, Held, allowed),
         \A b \in Branches : Approved(tip'[b], edits, author, Held, allowed),
         status' # "new" => Approved(base', edits, author, Held, allowed)
  PROVE  EveryTree'
<1> USE DEF WorkspaceTypeOK
<1>1. edits <= edits
  BY DEF Contents
<1>2. Held' = Held
  BY DEF request, Held
<1>3. ASSUME NEW t \in Trees, Approved(t, edits, author, Held, allowed)
      PROVE  Approved(t, edits, author, Held, allowed')
  BY <1>1, <1>3, ApprovedLater
<1>4. /\ Approved(files', edits', author', Held', allowed')
      /\ Approved(index', edits', author', Held', allowed')
      /\ \A b \in Branches :
           Approved(tip'[b], edits', author', Held', allowed')
      /\ status' # "new" => Approved(base', edits', author', Held', allowed')
  BY <1>2, <1>3
<1> QED
  BY <1>4 DEF EveryTree

\* An edit, which a tool makes of a held file only when approved.
LEMMA TreesEdited ==
  ASSUME WorkspaceTypeOK, EveryTree, WorkspaceTypeOK', NEW p \in Paths,
         NEW who \in Authors, Edit(p, who),
         UNCHANGED <<index, tip, base, status, request>>,
         allowed \subseteq allowed',
         who = "tool" /\ p \in Held => p \in allowed'
  PROVE  EveryTree'
<1> USE DEF WorkspaceTypeOK
<1>1. /\ edits' \in Contents /\ edits <= edits'
      /\ \A c \in Contents : c <= edits => author'[c] = author[c]
      /\ \A q \in Paths \ {p} : files'[q] = files[q]
      /\ files'[p] # NoFile => /\ files'[p] = edits'
                               /\ author'[edits'] = who
  BY EditTypes DEF Contents
<1>2. Held' = Held
  BY DEF request, Held
<1>3. ASSUME NEW t \in Trees, Approved(t, edits, author, Held, allowed)
      PROVE  Approved(t, edits', author', Held, allowed')
  BY <1>1, <1>3, ApprovedLater
<1>4. Approved(files, edits', author', Held, allowed')
  BY <1>3 DEF EveryTree
<1>5. edits' <= edits'
  BY <1>1 DEF Contents
<1>6. Approved(files', edits', author', Held, allowed')
  <2> SUFFICES ASSUME NEW q \in Paths, files'[q] # NoFile
               PROVE  /\ files'[q] <= edits'
                      /\ author'[files'[q]] = "tool" /\ q \in Held =>
                           q \in allowed'
    BY DEF Approved
  <2>1. CASE q = p
    BY <1>1, <1>5, <2>1
  <2>2. CASE q # p
    BY <1>1, <1>4, <2>2 DEF Approved
  <2> QED
    BY <2>1, <2>2
<1>7. /\ Approved(files', edits', author', Held', allowed')
      /\ Approved(index', edits', author', Held', allowed')
      /\ \A b \in Branches :
           Approved(tip'[b], edits', author', Held', allowed')
      /\ status' # "new" => Approved(base', edits', author', Held', allowed')
  BY <1>2, <1>3, <1>6 DEF EveryTree
<1> QED
  BY <1>7 DEF EveryTree

LEMMA EveryTreeStep ==
  ASSUME WorkspaceTypeOK, EveryTree, WorkspaceTypeOK', [Next]_vars
  PROVE  EveryTree'
<1> USE DEF repo, task, request, ghosts
<1> DEFINE Good(t) == Approved(t, edits, author, Held, allowed)
<1>1. /\ Good(files) /\ Good(index) /\ Good(tip["user"]) /\ Good(tip["task"])
      /\ \A b \in Branches : Good(tip[b])
      /\ status # "new" => Good(base)
  BY DEF EveryTree, Branches
<1> HIDE DEF Good
<1>2. ASSUME UNCHANGED <<edits, author, sensitive, risk>>,
             allowed \subseteq allowed', Good(files'), Good(index'),
             \A b \in Branches : Good(tip'[b]),
             status' # "new" => Good(base')
      PROVE  EveryTree'
  BY <1>2, TreesMove DEF Good
<1>3. CASE /\ UNCHANGED <<files, index, tip, base, edits, author, sensitive,
                         risk>>
           /\ allowed \subseteq allowed'
           /\ status' = "new" <=> status = "new"
  BY <1>1, <1>2, <1>3
<1>4. CASE \/ UNCHANGED vars \/ Save \/ Verify \/ CheckpointBlocked
           \/ CheckpointFails \/ Crash \/ RollbackFails
  BY <1>3, <1>4 DEF vars, Save, Verify, CheckpointBlocked, CheckpointFails,
                    Crash, RollbackFails
<1>5. CASE Complete
  <2>1. status # "new"
    BY <1>5 DEF Complete, WorkspaceTypeOK
  <2> QED
    BY <1>3, <1>5, <2>1 DEF Complete
<1>6. CASE UserCommit
  BY <1>1, <1>2, <1>6 DEF UserCommit, WorkspaceTypeOK
<1>7. ASSUME NEW b \in Branches, SwitchTo(b) PROVE Good(files') /\ Good(index')
  BY <1>1, <1>7 DEF SwitchTo
<1>8. CASE UserSwitch \/ CheckpointReturns \/ Resume \/ RollbackStart
  <2>1. Good(files') /\ Good(index')
    BY <1>1, <1>7, <1>8 DEF UserSwitch, CheckpointReturns, Resume,
                            RollbackStart, EnsureTaskBranch, Branches
  <2> QED
    BY <1>1, <1>2, <1>8, <2>1 DEF UserSwitch, CheckpointReturns, Resume,
                                  RollbackStart
<1>9. CASE Prepare
  BY <1>1, <1>2, <1>9 DEF Prepare, WorkspaceTypeOK
<1>10. CASE CheckpointStage
  <2>1. Added \in Trees /\ \A p \in Paths : \/ Added[p] = files[p]
                                            \/ Added[p] = index[p]
    BY DEF Added, WorkspaceTypeOK, Trees
  <2>2. Good(Added)
    BY <1>1, <2>1, ApprovedMix DEF Good, WorkspaceTypeOK
  <2> QED
    BY <1>1, <1>2, <1>10, <2>2 DEF CheckpointStage
<1>11. CASE CheckpointCommit
  BY <1>1, <1>2, <1>11 DEF CheckpointCommit, WorkspaceTypeOK
<1>12. CASE RollbackReset
  <2>0. status # "new"
    BY <1>12 DEF RollbackReset, WorkspaceTypeOK
  <2>1. Good(base)
    BY <1>1, <2>0
  <2>2. ASSUME NEW from \in Trees, Good(from) PROVE Good(Reset(base, from))
    <3>1. base \in Trees
      BY <2>0 DEF WorkspaceTypeOK
    <3>2. /\ Reset(base, from) \in Trees
          /\ \A p \in Paths : \/ Reset(base, from)[p] = base[p]
                              \/ Reset(base, from)[p] = from[p]
      BY <3>1 DEF Reset, Trees
    <3> QED
      BY <2>1, <2>2, <3>1, <3>2, ApprovedMix DEF Good
  <2>3. Good(files')
    BY <1>1, <1>12, <2>2 DEF RollbackReset, WorkspaceTypeOK
  <2> QED
    BY <1>1, <1>2, <1>12, <2>1, <2>3 DEF RollbackReset, WorkspaceTypeOK
<1>13. ASSUME NEW p \in Paths, UserEdit(p) PROVE EveryTree'
  BY <1>13, TreesEdited DEF UserEdit, Authors
<1>14. ASSUME NEW p \in Paths, NEW answer \in Answers,
              \/ ReadFile(p)
              \/ \E tool \in FileTools : \/ Refused(tool, p, answer)
                                         \/ Failed(tool, p, answer)
       PROVE  EveryTree'
  BY <1>3, <1>14 DEF ReadFile, Done, Refused, Failed
<1>15. ASSUME NEW p \in Paths, NEW answer \in Answers,
              \/ WriteFile(p, answer) \/ PatchFile(p, answer)
              \/ DeleteFile(p, answer)
       PROVE  EveryTree'
  <2>1. PICK tool \in WriteTools : Done(tool, p, answer) /\ Edit(p, "tool")
    BY <1>15 DEF WriteFile, PatchFile, DeleteFile, WriteTools
  <2>2. p \in Held => p \in allowed'
    <3>1. p \in Held => answer = "yes"
      BY <2>1, HeldAsks DEF Done
    <3>2. tool # "read_file"
      BY DEF WriteTools
    <3> QED
      BY <2>1, <3>1, <3>2 DEF Done
  <2>3. /\ UNCHANGED <<index, tip, base, status, request>>
        /\ allowed \subseteq allowed'
    BY <2>1 DEF Done
  <2> QED
    BY <2>1, <2>2, <2>3, TreesEdited DEF Authors
<1>16. ASSUME NEW class \in CommandClasses, NEW answer \in Answers,
              ShellRefused(class, answer)
       PROVE  EveryTree'
  BY <1>3, <1>16 DEF ShellRefused
<1>17. ASSUME NEW class \in CommandClasses, NEW answer \in Answers,
              ShellEdits(class, answer)
       PROVE  EveryTree'
  <2>1. PICK p \in Paths : Edit(p, "shell")
    BY <1>17 DEF ShellEdits
  <2>2. UNCHANGED <<index, tip, base, status, request, allowed>>
    BY <1>17 DEF ShellEdits, Shell
  <2> QED
    BY <2>1, <2>2, TreesEdited DEF Authors
<1>18. ASSUME NEW class \in CommandClasses, NEW answer \in Answers,
              ShellStages(class, answer) \/ ShellCommits(class, answer)
       PROVE  EveryTree'
  BY <1>1, <1>2, <1>18 DEF ShellStages, ShellCommits, Shell, WorkspaceTypeOK
<1>19. ASSUME NEW class \in CommandClasses, NEW answer \in Answers,
              ShellSwitches(class, answer)
       PROVE  EveryTree'
  <2>1. Good(files') /\ Good(index')
    BY <1>7, <1>19 DEF ShellSwitches
  <2> QED
    BY <1>1, <1>2, <1>19, <2>1 DEF ShellSwitches, Shell
<1> QED
  BY <1>4, <1>5, <1>6, <1>8, <1>9, <1>10, <1>11, <1>12, <1>13, <1>14, <1>15,
     <1>16, <1>17, <1>18, <1>19, StepOf, "yes" \in Answers DEF Answers

-----------------------------------------------------------------------------
(* The user's work, the checkpoint and the memory *)

\* While the user's work is uncommitted, the user alone acts.
LEMMA LeftStep ==
  ASSUME WorkspaceTypeOK, LeftAlone, [Next]_vars
  PROVE  LeftAlone'
<1> USE DEF repo, task, ghosts
<1>1. CASE UNCHANGED vars
  BY <1>1 DEF vars, LeftAlone
<1>2. CASE UserCommit
  BY <1>2 DEF UserCommit, LeftAlone
<1>3. ASSUME NEW p \in Paths, UserEdit(p) PROVE LeftAlone'
  BY <1>3 DEF UserEdit, Away, Note, LeftAlone
<1>4. left # NoTree => ~Ready /\ ~Clean /\ stage = "idle" /\ ~undoing
  BY DEF LeftAlone, Ready, Clean
<1>5. CASE \/ UserSwitch \/ Prepare \/ Resume
           \/ RollbackStart \/ RollbackReset \/ RollbackFails
  <2>1. left = NoTree /\ left' = left
    BY <1>4, <1>5 DEF UserSwitch, Prepare, Resume, EnsureTaskBranch,
                      RollbackStart, RollbackReset, RollbackFails
  <2> QED
    BY <2>1 DEF LeftAlone
<1>6. ASSUME stage # "idle", left' = left PROVE LeftAlone'
  BY <1>4, <1>6 DEF LeftAlone
<1>7. CASE \/ Save \/ Verify \/ CheckpointReturns \/ CheckpointStage
           \/ CheckpointCommit \/ CheckpointBlocked \/ CheckpointFails
           \/ Complete \/ Crash
  BY <1>6, <1>7 DEF Save, Verify, CheckpointReturns, CheckpointStage,
     CheckpointCommit, CheckpointBlocked, CheckpointFails, Complete, Crash
<1>8. ASSUME NEW p \in Paths, NEW answer \in Answers,
             \/ ReadFile(p) \/ WriteFile(p, answer) \/ PatchFile(p, answer)
             \/ DeleteFile(p, answer)
             \/ \E tool \in FileTools : \/ Refused(tool, p, answer)
                                        \/ Failed(tool, p, answer)
      PROVE  LeftAlone'
  BY <1>6, <1>8 DEF ReadFile, WriteFile, PatchFile, DeleteFile, Done, Refused,
                    Failed
<1>9. ASSUME NEW class \in CommandClasses, NEW answer \in Answers,
             \/ ShellRefused(class, answer) \/ ShellEdits(class, answer)
             \/ ShellStages(class, answer) \/ ShellCommits(class, answer)
             \/ ShellSwitches(class, answer)
      PROVE  LeftAlone'
  BY <1>6, <1>9 DEF ShellRefused, ShellEdits, ShellStages, ShellCommits,
                    ShellSwitches, Shell
<1> QED
  BY <1>1, <1>2, <1>3, <1>5, <1>7, <1>8, <1>9, StepOf, "yes" \in Answers
     DEF Answers

\* Only two steps leave something staged: the checkpoint's own, and a
\* rollback in the middle of it.
LEMMA StagedStep ==
  ASSUME WorkspaceTypeOK, StagedIsWork, [Next]_vars
  PROVE  StagedIsWork'
<1> USE DEF repo, task, ghosts
<1>1. CASE UNCHANGED vars
  BY <1>1 DEF vars, StagedIsWork
<1>2. CASE CheckpointStage
  BY <1>2 DEF CheckpointStage, Added, Pathspec, Unstaged, Tracked,
              StagedIsWork, WorkspaceTypeOK, Trees
<1>3. CASE RollbackReset
  <2> SUFFICES ASSUME stage = "staged"
               PROVE  /\ on' = "task"
                      /\ \A p \in Paths :
                           index'[p] # NoFile \/ p \in memory.modified =>
                             index'[p] = files'[p]
    BY <1>3 DEF RollbackReset, StagedIsWork
  <2>1. /\ on = "task" /\ on' = "task" /\ index' = base
        /\ files' = Reset(base, files)
    BY <1>3 DEF RollbackReset, StagedIsWork
  <2>2. ASSUME NEW p \in Paths
        PROVE  files'[p] = IF index[p] # NoFile \/ base[p] # NoFile
                           THEN base[p] ELSE files[p]
    BY <2>1 DEF Reset
  <2> QED
    BY <2>1, <2>2 DEF StagedIsWork
<1>9. CASE RollbackStart \/ RollbackFails
  <2>1. CASE stage = "staged"
    BY <1>9, <2>1 DEF RollbackStart, RollbackFails, EnsureTaskBranch,
                      StagedIsWork
  <2>2. CASE stage # "staged"
    BY <1>9, <2>2 DEF RollbackStart, RollbackFails, StagedIsWork
  <2> QED
    BY <2>1, <2>2
<1>4. ASSUME stage' # "staged" PROVE StagedIsWork'
  BY <1>4 DEF StagedIsWork
<1>5. CASE \/ UserCommit \/ UserSwitch \/ Prepare \/ Resume \/ Save \/ Verify
           \/ CheckpointReturns \/ CheckpointCommit \/ CheckpointBlocked
           \/ CheckpointFails \/ Complete \/ Crash
  BY <1>4, <1>5 DEF UserCommit, UserSwitch, Away, Prepare, Resume, Save,
     Verify, CheckpointReturns, CheckpointCommit, CheckpointBlocked,
     CheckpointFails, Complete, Crash
<1>6. ASSUME NEW p \in Paths, UserEdit(p) PROVE StagedIsWork'
  BY <1>4, <1>6 DEF UserEdit, Away
<1>7. ASSUME NEW p \in Paths, NEW answer \in Answers,
             \/ ReadFile(p) \/ WriteFile(p, answer) \/ PatchFile(p, answer)
             \/ DeleteFile(p, answer)
             \/ \E tool \in FileTools : \/ Refused(tool, p, answer)
                                        \/ Failed(tool, p, answer)
      PROVE  StagedIsWork'
  BY <1>4, <1>7 DEF ReadFile, WriteFile, PatchFile, DeleteFile, Done, Refused,
                    Failed
<1>8. ASSUME NEW class \in CommandClasses, NEW answer \in Answers,
             \/ ShellRefused(class, answer) \/ ShellEdits(class, answer)
             \/ ShellStages(class, answer) \/ ShellCommits(class, answer)
             \/ ShellSwitches(class, answer)
      PROVE  StagedIsWork'
  BY <1>4, <1>8 DEF ShellRefused, ShellEdits, ShellStages, ShellCommits,
                    ShellSwitches, Shell
<1> QED
  BY <1>1, <1>2, <1>3, <1>5, <1>6, <1>7, <1>8, <1>9, StepOf, "yes" \in Answers
     DEF Answers

LEMMA WarnedStep ==
  ASSUME WorkspaceTypeOK, MemoryWarned, [Next]_vars
  PROVE  MemoryWarned'
<1> USE DEF repo, task, ghosts
<1>1. ASSUME warned \subseteq warned',
             memory' \in {memory, saved, NoMemory}, saved' \in {saved, memory}
      PROVE  MemoryWarned'
  BY <1>1 DEF MemoryWarned, NoMemory
<1>2. CASE UNCHANGED vars
  BY <1>1, <1>2 DEF vars
<1>3. CASE \/ UserCommit \/ UserSwitch \/ Prepare \/ Resume \/ Save \/ Verify
           \/ CheckpointReturns \/ CheckpointStage \/ CheckpointCommit
           \/ CheckpointBlocked \/ CheckpointFails \/ Complete \/ Crash
           \/ RollbackStart \/ RollbackReset \/ RollbackFails
  BY <1>1, <1>3 DEF UserCommit, UserSwitch, Prepare, Resume, Save, Verify,
     CheckpointReturns, CheckpointStage, CheckpointCommit, CheckpointBlocked,
     CheckpointFails, Complete, Crash, RollbackStart, RollbackReset,
     RollbackFails
<1>4. ASSUME NEW p \in Paths, UserEdit(p) PROVE MemoryWarned'
  BY <1>1, <1>4 DEF UserEdit
<1>5. ASSUME NEW p \in Paths, NEW tool \in FileTools, Record(tool, p),
             saved' = saved
      PROVE  MemoryWarned'
  BY <1>5 DEF Record, MemoryWarned, WorkspaceTypeOK, Memories
<1>6. ASSUME NEW p \in Paths, NEW answer \in Answers,
             \/ ReadFile(p) \/ WriteFile(p, answer) \/ PatchFile(p, answer)
             \/ DeleteFile(p, answer)
             \/ \E tool \in FileTools : \/ Refused(tool, p, answer)
                                        \/ Failed(tool, p, answer)
      PROVE  MemoryWarned'
  <2>1. \E tool \in FileTools : Record(tool, p) /\ saved' = saved
    BY <1>6 DEF ReadFile, WriteFile, PatchFile, DeleteFile, Done, Refused,
                Failed, FileTools
  <2> QED
    BY <1>5, <2>1
<1>7. ASSUME NEW class \in CommandClasses, NEW answer \in Answers,
             \/ ShellRefused(class, answer) \/ ShellEdits(class, answer)
             \/ ShellStages(class, answer) \/ ShellCommits(class, answer)
             \/ ShellSwitches(class, answer)
      PROVE  MemoryWarned'
  BY <1>1, <1>7 DEF ShellRefused, ShellEdits, ShellStages, ShellCommits,
                    ShellSwitches, Shell
<1> QED
  BY <1>2, <1>3, <1>4, <1>6, <1>7, StepOf, "yes" \in Answers DEF Answers

LEMMA UndoingStep ==
  ASSUME WorkspaceTypeOK, UndoingOnTask, [Next]_vars
  PROVE  UndoingOnTask'
<1> USE DEF repo, task, ghosts
<1>1. ASSUME UNCHANGED <<on, undoing, strayed>> PROVE UndoingOnTask'
  BY <1>1 DEF UndoingOnTask
<1>2. ASSUME on' = "task" \/ ~undoing' \/ strayed' PROVE UndoingOnTask'
  BY <1>2 DEF UndoingOnTask
<1>3. CASE \/ UNCHANGED vars \/ UserCommit \/ Save \/ Verify
           \/ CheckpointStage \/ CheckpointCommit \/ CheckpointBlocked
           \/ CheckpointFails \/ Complete \/ Crash
  BY <1>1, <1>3 DEF vars, UserCommit, Save, Verify, CheckpointStage,
     CheckpointCommit, CheckpointBlocked, CheckpointFails, Complete, Crash
<1>4. CASE \/ UserSwitch \/ Prepare \/ Resume \/ CheckpointReturns
           \/ RollbackStart \/ RollbackReset \/ RollbackFails
  BY <1>2, <1>4 DEF UserSwitch, Away, Prepare, Resume, CheckpointReturns,
     RollbackStart, RollbackReset, RollbackFails, EnsureTaskBranch, SwitchTo
<1>5. ASSUME NEW p \in Paths, UserEdit(p) PROVE UndoingOnTask'
  BY <1>1, <1>5 DEF UserEdit
<1>6. ASSUME NEW p \in Paths, NEW answer \in Answers,
             \/ ReadFile(p) \/ WriteFile(p, answer) \/ PatchFile(p, answer)
             \/ DeleteFile(p, answer)
             \/ \E tool \in FileTools : \/ Refused(tool, p, answer)
                                        \/ Failed(tool, p, answer)
      PROVE  UndoingOnTask'
  BY <1>1, <1>6 DEF ReadFile, WriteFile, PatchFile, DeleteFile, Done, Refused,
                    Failed
<1>7. ASSUME NEW class \in CommandClasses, NEW answer \in Answers,
             \/ ShellRefused(class, answer) \/ ShellEdits(class, answer)
             \/ ShellStages(class, answer) \/ ShellCommits(class, answer)
             \/ ShellSwitches(class, answer)
      PROVE  UndoingOnTask'
  BY <1>1, <1>2, <1>7 DEF ShellRefused, ShellEdits, ShellStages,
                          ShellCommits, ShellSwitches, Shell, WorkspaceTypeOK
<1> QED
  BY <1>3, <1>4, <1>5, <1>6, <1>7, StepOf, "yes" \in Answers DEF Answers

LEMMA WorkspaceInitially == Init => WorkspaceInv
<1> SUFFICES ASSUME Init PROVE WorkspaceInv
  OBVIOUS
<1> USE WorkspaceAssumption DEF Init
<1>1. {0, NoFile} \subseteq Contents \cup {NoFile} /\ 0 \in Contents
  BY DEF Contents
<1>2. files \in Trees /\ index \in Trees /\ tip \in [Branches -> Trees]
  BY <1>1 DEF Trees, Branches
<1>3. WorkspaceTypeOK
  <2>1. 0 \in 0..MaxRuns /\ risk \in LOW..CRITICAL
    OBVIOUS
  <2>2. NoMemory \in Memories
    BY DEF NoMemory, Memories
  <2>3. author \in [Contents -> Authors]
    BY DEF Authors
  <2> QED
    BY <1>1, <1>2, <2>1, <2>2, <2>3 DEF WorkspaceTypeOK, Branches, Stages
<1>4. ASSUME NEW t \in {files, index, tip["user"], tip["task"]}
      PROVE  Approved(t, edits, author, Held, allowed)
  <2>1. t = files
    BY <1>4 DEF Branches
  <2>2. \A p \in Paths : files[p] # NoFile => files[p] = 0
    OBVIOUS
  <2>3. author[0] # "tool" /\ 0 <= edits
    BY <1>1
  <2> QED
    BY <2>1, <2>2, <2>3 DEF Approved
<1>5. EveryTree
  BY <1>4 DEF EveryTree, Branches
<1> QED
  BY <1>3, <1>5 DEF WorkspaceInv, LeftAlone, StagedIsWork, MemoryWarned,
                    UndoingOnTask, NoMemory

LEMMA WorkspaceKept == WorkspaceInv /\ [Next]_vars => WorkspaceInv'
  BY WorkspaceTypes, EveryTreeStep, LeftStep, StagedStep, WarnedStep,
     UndoingStep DEF WorkspaceInv

LEMMA WorkspaceAlways == Spec => []WorkspaceInv
  BY WorkspaceInitially, WorkspaceKept, PTL DEF Spec

-----------------------------------------------------------------------------
(* Theorems *)

\* What a file tool left in a sensitive file, or in any file once the request
\* was found consequential, the user approved, and Git brings nothing back
\* that he did not.
THEOREM HeldFilesApproved == Spec => []HeldNeedsYes
<1>1. WorkspaceInv => HeldNeedsYes
  BY DEF WorkspaceInv, EveryTree, Approved, Held, HeldNeedsYes
<1> QED
  BY <1>1, WorkspaceAlways, PTL

\* Uncommitted work on the user's branch stays as it was left, whatever task
\* is prepared, resumed, checkpointed or rolled back.
THEOREM WorkStays == Spec => []UserWorkKept
<1>1. WorkspaceInv => UserWorkKept
  BY DEF WorkspaceInv, LeftAlone, UserWorkKept
<1> QED
  BY <1>1, WorkspaceAlways, PTL

\* The user's branch moves by the user's commits and by commits the model asks
\* for, not by a checkpoint, and by a rollback only if a command of the running
\* task changed branch between the rollback's check and its reset.
THEOREM BranchStays == Spec => UserBranchKept
<1>1. WorkspaceInv /\ [Next]_vars =>
        [\/ tip'["user"] = tip["user"]
         \/ MovesUserBranch
         \/ RollbackReset /\ strayed]_vars
  <2> SUFFICES ASSUME WorkspaceInv, Next
               PROVE  \/ tip'["user"] = tip["user"]
                      \/ MovesUserBranch
                      \/ RollbackReset /\ strayed
    OBVIOUS
  <2> USE DEF repo
  <2>1. tip \in [Branches -> Trees]
    BY DEF WorkspaceInv, WorkspaceTypeOK
  <2>2. CASE \/ UserSwitch \/ Prepare \/ Resume \/ Save \/ Verify
             \/ CheckpointReturns \/ CheckpointStage \/ CheckpointCommit
             \/ CheckpointBlocked \/ CheckpointFails \/ Complete \/ Crash
             \/ RollbackStart \/ RollbackFails
    BY <2>1, <2>2 DEF UserSwitch, Prepare, Resume, Save, Verify,
       CheckpointReturns, CheckpointStage, CheckpointCommit,
       CheckpointBlocked, CheckpointFails, Complete, Crash, RollbackStart,
       RollbackFails, Branches
  <2>6. CASE RollbackReset
    BY <2>1, <2>6 DEF RollbackReset, WorkspaceInv, UndoingOnTask, Branches
  <2>3. ASSUME NEW p \in Paths, UserEdit(p) PROVE tip' = tip
    BY <2>3 DEF UserEdit
  <2>4. ASSUME NEW p \in Paths, NEW answer \in Answers,
               \/ ReadFile(p) \/ WriteFile(p, answer) \/ PatchFile(p, answer)
               \/ DeleteFile(p, answer)
               \/ \E tool \in FileTools : \/ Refused(tool, p, answer)
                                          \/ Failed(tool, p, answer)
        PROVE  tip' = tip
    BY <2>4 DEF ReadFile, WriteFile, PatchFile, DeleteFile, Done, Refused,
                Failed
  <2>5. ASSUME NEW class \in CommandClasses, NEW answer \in Answers,
               \/ ShellRefused(class, answer) \/ ShellEdits(class, answer)
               \/ ShellStages(class, answer) \/ ShellCommits(class, answer)
               \/ ShellSwitches(class, answer)
        PROVE  \/ tip' = tip
               \/ ShellCommits("commit", answer)
    BY <2>5 DEF ShellRefused, ShellEdits, ShellStages, ShellCommits,
                ShellSwitches, Shell
  <2> QED
    BY <2>2, <2>3, <2>4, <2>5, <2>6, StepOf, "yes" \in Answers
       DEF Answers, MovesUserBranch
<1> QED
  BY <1>1, WorkspaceAlways, PTL DEF Spec, UserBranchKept

\* When a checkpoint seals the task, every file that git tracks or that the
\* tools recorded is in it as it is in the working tree.
THEOREM SealsEverything == Spec => CheckpointSeals
<1>1. WorkspaceInv /\ [Next]_vars =>
        [stage # "sealed" /\ stage' = "sealed" =>
           \A p \in Paths : index[p] # NoFile \/ p \in memory.modified =>
             /\ index'[p] = files[p]
             /\ stage = "staged" => tip'["task"][p] = files[p]]_vars
  <2> SUFFICES ASSUME WorkspaceInv, Next, stage # "sealed", stage' = "sealed",
                      NEW p \in Paths,
                      index[p] # NoFile \/ p \in memory.modified
               PROVE  /\ index'[p] = files[p]
                      /\ stage = "staged" => tip'["task"][p] = files[p]
    OBVIOUS
  <2> USE DEF repo, task
  <2>1. CASE CheckpointStage
    BY <2>1 DEF CheckpointStage, Added, Pathspec, Unstaged, Tracked,
                WorkspaceInv, WorkspaceTypeOK, Trees
  <2>2. CASE CheckpointCommit
    BY <2>2 DEF CheckpointCommit, WorkspaceInv, WorkspaceTypeOK, Branches,
                StagedIsWork
  <2>3. CASE \/ UserCommit \/ UserSwitch \/ Prepare \/ Resume \/ Save
             \/ Verify \/ CheckpointReturns \/ CheckpointBlocked
             \/ CheckpointFails \/ Complete \/ Crash
             \/ RollbackStart \/ RollbackReset \/ RollbackFails
    BY <2>3 DEF UserCommit, UserSwitch, Prepare, Resume, Save, Verify,
       CheckpointReturns, CheckpointBlocked, CheckpointFails, Complete,
       Crash, RollbackStart, RollbackReset, RollbackFails
  <2>4. ASSUME NEW q \in Paths, UserEdit(q) PROVE FALSE
    BY <2>4 DEF UserEdit
  <2>5. ASSUME NEW q \in Paths, NEW answer \in Answers,
               \/ ReadFile(q) \/ WriteFile(q, answer) \/ PatchFile(q, answer)
               \/ DeleteFile(q, answer)
               \/ \E tool \in FileTools : \/ Refused(tool, q, answer)
                                          \/ Failed(tool, q, answer)
        PROVE  FALSE
    BY <2>5 DEF ReadFile, WriteFile, PatchFile, DeleteFile, Done, Refused,
                Failed
  <2>6. ASSUME NEW class \in CommandClasses, NEW answer \in Answers,
               \/ ShellRefused(class, answer) \/ ShellEdits(class, answer)
               \/ ShellStages(class, answer) \/ ShellCommits(class, answer)
               \/ ShellSwitches(class, answer)
        PROVE  FALSE
    BY <2>6 DEF ShellRefused, ShellEdits, ShellStages, ShellCommits,
                ShellSwitches, Shell
  <2> QED
    BY <2>1, <2>2, <2>3, <2>4, <2>5, <2>6, StepOf, "yes" \in Answers
       DEF Answers
<1> QED
  BY <1>1, WorkspaceAlways, PTL DEF Spec, CheckpointSeals

\* A full write over an existing file comes after another call on it, in this
\* run or in one before a crash.
THEOREM OverwritesAreWarned == Spec => WarnedBeforeOverwrite
<1>1. WorkspaceInv /\ [Next]_vars =>
        [\A p \in Paths : /\ files[p] # NoFile
                          /\ \E answer \in Answers : WriteFile(p, answer)
                          => p \in warned]_vars
  BY DEF WorkspaceInv, MemoryWarned, WriteFile, Done, Verdict, Uninspected
<1> QED
  BY <1>1, WorkspaceAlways, PTL DEF Spec, WarnedBeforeOverwrite

==============================================================================
