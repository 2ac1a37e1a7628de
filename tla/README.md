# SkyTrap: a TLA+ development

SkyTrap is a local coding agent: a command line, a FastAPI server with a web
interface, and behind both an autonomous task engine that lets a language model
act on a Git repository through tools, verifies what it did, and commits the
result on a branch of its own. This directory models the parts of it that are
hard to test: state that several processes, threads and connections share, and
what survives a crash.

Paths below are relative to the repository; modules are in this directory.

## Inventory

| Component | State it keeps | Operations | What is hard | What makes it correct |
|---|---|---|---|---|
| Autonomous task (`src/skytrap/autonomy/{state,memory,service,loop}.py`) | one JSON file per task: `TaskState` and `WorkingMemory` | start, execute, resume, stop, rollback; the loop: plan, act, verify, review, checkpoint | several processes (CLI invocations, server threads) hold copies of one file and save without a lock; a crash between two saves; a save that fails | the status follows a lifecycle; COMPLETED is earned by real checks; a stop ends the run; every command ends |
| Policy boundary and workspace (`executor.py`, `risk.py`, `approval.py`, `git_workflow.py`, `patching.py`) | files, index and branch of the repository; lists of files read and modified | tool calls under risk, approval and inspect-before-write; prepare, checkpoint, rollback | denied and failed calls are recorded too; the model can run any shell command; crash between commit and save | a write never hits unseen content; the checkpoint holds what was verified; rollback restores the base |
| Confirmation bridge and WebSocket (`server/ws/*`) | the current connection, pending confirmations, events | connect, disconnect, send from a worker thread, request, resolve, abandon | worker threads against the event loop; a connection superseded by another; a reply that comes late | an action runs only when a client approved that request; no worker waits for ever |
| Server turns (`server/turns.py`, `agent_worker.py`, `routers/turns.py`) | the turn registry, in memory; the conversation in SQLite | create, mark running, done or failed; get | the registry is written by a thread and read by the event loop; failures outside the `try` | a turn ends done or failed; a result is there when it is done |
| Agent tasks over HTTP (`routers/agent_tasks.py`) | background workers on task files | create, get, resume, stop | the worker outlives the request | the same as for the task itself |
| Authentication (`server/auth/*`) | users, one-time codes, refresh tokens, attempts in SQLite | log in, resend and verify a code, refresh, log out | check-then-act across transactions, expiry, rotation | one code, one session; a rotated token is not reused |
| Managed processes (`core/processes.py`, `tools/process.py`) | a table in SQLite; child processes | start, list, stop, logs | a crash between spawn and record; processes that ignore signals; pid reuse | what is marked stopped is gone; a stop ends |
| Conversational agent (`core/agent.py`, `core/roles.py`, `core/protocol.py`) | history, mode, plan, tests, messages | turn loop, tool calls, roles, the sessions `chat`, `build` and server turn | refusals, nudges, failed calls, developers sent back | nothing changes before it was agreed; what is handed on was done |
| Verification, evidence, review (`verification.py`, `evidence.py`, `review.py`, `browser_verification.py`) | results of the stages | discover and run commands, judge | results accumulate over attempts | a claim of success follows the last results |
| Repository memory and evidence (`intelligence/{repository_memory,snapshot,symbols,existence,duplication}.py`, `autonomy/planning.py`) | a listing, a symbol index, a row of SQLite keyed by a fingerprint | list, build, restore, update per edit, save; look a thing up; correct the plan | a memory used for another tree; a listing cut short; edits nobody saw | the index says what the files say; nothing that is there is planned as new |
| Models (`models/{ollama,qualification}.py`) | the result of a probe | probe Ollama layer by layer, ask seven questions | Ollama comes and goes between two requests | what is reported was answered |
| Doctor (`core/doctor.py`, `core/capabilities.py`) | a list of checks; verdict, matrix, plan of repairs | probe, report | three reports made of one list by names that change | the reports agree, and nothing is called healthy unseen |
| Language servers (`intelligence/lsp.py`) | a child process, two pipes, a buffer | one request per process | a server that says nothing, half a message, or something else | the call returns, nothing is left running |
| Projects (`core/projects.py`, `routers/projects.py`) | a table in SQLite | register, list, read, write, run a command, remove | a request looks up and acts later | an id keeps its directory |
| Notes (`memory/sqlite.py`, `core/project_notes.py`, `core/notes.py`, `tools/notes.py`) | sessions, messages, notes in SQLite; `JOURNAL.md` | start, record, list, append | turns that end at once, kills | nothing is lost or rewritten |
| Terminal renderer (`ui/terminal.py`) | spinner, its thread, an account of files | activity, event, prompt, summary | a thread that updates what the run has stopped | nothing spins over a prompt or after the end |
| Web interface (`frontend/src/*`) | socket state, events, the pending confirmation | connect, reconnect, reply | reconnection loses events | the user answers what is shown |
| Intent analysis, code search, technology watch, security scanners, skills, command line | none that survives a call | pure functions, formatting, I/O | parsing | see "Not modelled" |

## Modules

| Module | Models | Uses |
|---|---|---|
| `TaskState` | the class `TaskState` (record and operations), no variables | |
| `TaskLifecycle` | abstract: what the file of a task promises to its readers | `TaskState` |
| `AutonomousTask` | `AutonomousTaskService`, `AgentLoop._run`, `TaskStore` for one task and any number of processes | `TaskState`, instance of `TaskLifecycle` |
| `MCAutonomousTask` | small instances | |
| `AutonomousTaskProofs` | theorems about `AutonomousTask` | |
| `RiskPolicy` | `RiskEngine`, `ApprovalEngine`, the tiers of `tool_safety.py`, no variables | |
| `TaskWorkspace` | tool calls of one task on the working tree, index and branches; checkpoint and rollback | `RiskPolicy` |
| `MCTaskWorkspace` | small instances | |
| `TaskWorkspaceProofs` | theorems about `TaskWorkspace` | |
| `ApprovalGate` | abstract: each request decided once, approved only on a yes | |
| `ConfirmationBridge` | connection manager, bridges, socket endpoint, browser dialogue | instance of `ApprovalGate` |
| `ConfirmationBridgeProofs` | theorems about `ConfirmationBridge` | |
| `ServerTurns` | turns and their threads, which ask over the bridge | extends `ConfirmationBridge` |
| `MCServerTurns` | small instances of the bridge and of the turns | |
| `ServerTurnsProofs` | theorems about `ServerTurns` | extends `ConfirmationBridgeProofs` |
| `ManagedProcesses` | background processes: the table, the process table, start, list and stop | |
| `MCManagedProcesses` | small instances | |
| `ManagedProcessesProofs` | theorems about `ManagedProcesses` | |
| `AuthStore` | log-in: codes, refresh tokens, attempts, over concurrent requests and crashes | |
| `AgentTasks` | tasks over HTTP: the requests and the worker threads | |
| `ProjectRegistry` | the table of projects and the requests made through an id | |
| `ProjectNotes` | sessions, notes and the journal of concurrent turns | |
| `MCServer` | small instances of the four above | |
| `ServerProofs` | theorems about the same four | |
| `RepositoryMemory` | listing, fingerprint, symbol index, memory, evidence, correction of the plan | |
| `TaskVerification` | discovery, stages, browser check, review, evidence, report | |
| `Conversation` | the turn of `core/agent.py`, the roles, and `chat`, `build` and the server's turn made of them | |
| `MCAgent` | small instances of the three above; the loops of the listing and the index beside their closed forms | |
| `AgentProofs` | theorems about the same three | |
| `Models` | `probe_ollama` and `ModelQualificationSuite` | |
| `Doctor` | `skytrap doctor`: checks, verdict, matrix, repairs | extends `Models` |
| `LspClient` | one request to a language server | |
| `Renderer` | `AgentRenderer`, its threads and its account of files | |
| `MCMachine` | small instances of the four above | |
| `MachineProofs` | theorems about `Doctor` (with `Models`), `LspClient` and `Renderer` | |

`MCServer`, `MCAgent` and `MCMachine` put modules together that share no state,
`MCServerTurns` the bridge under any workers and under a turn. A variable `part`
says which one a behaviour is of; the others stay as they began, so the states
are the sum of the parts and not their product, and each part is checked as if
alone. A property whose name is a sentence is a
conjunction of named parts; the module states each of them with the code it is
about.

### AutonomousTask: the record of a task and those who write it

`disk` is the JSON file; `mem[p]` the `TaskState` a process holds between load
and end; `pc[p]` the point of `start`, `resume`, `execute` or `_run` it has
reached, and `next[p]` where it goes after the save it is in. `TaskStore.save`
is two actions because it is two: it reads the stop flag from the file
(`memory.py:103-111`), then replaces the file (`:120`). Between them any other
process may save. `SaveFails` is the `OSError` of either, which the `except` of
`_run` catches only for saves made inside its `try` (`InTry`). `Crash` ends a
process anywhere. A resumption loads the file twice: `Resume` is the load whose
branch the service checks (`service.py:192`, `:227`), `Reload` the one that runs
(`loop.py:95`). What another process saved in between is what runs, a record
without intent or branch among it, hence `Normalize` (`loop.py:112`).

The model, the tools, the verification commands, the browser, the reviewer and
git answer anything: each answer is a disjunct. What the answers lead to is the
code's. A `TaskState` is reduced to the fields those decisions read or the
properties speak of: status, run id, iteration, stop flag, pending approval,
branch, intent, and whether a tool was used. `gates`, `earned`, `stopAsked` and
`halted` are history variables that no guard reads.

### TaskWorkspace: what the task does to the repository

State: the working tree, the index, the tip of the user's branch and of the
task's branch, the branch checked out; `files_consulted` and `files_modified`
of the running process and those in the file. A content is the number of the
edit that made it, so "the same content" is an equality; `author` says who made
it. Tool calls go through `ToolExecutor.execute` in the order of the code:
capability, inspect-before-write guard, approval, execution, and `_record`
whatever the outcome. Each file tool is an action; the shell is several,
because what matters is whether the command edits, stages, commits or switches
(commands of the classes that can do so). The checkpoint is three steps,
because it is several git processes: the add, the commit, the save. So is a
rollback: `RollbackStart` sees the task's branch checked out and `RollbackReset`
resets whatever is by then. `strayed` (history) says that a command of the
running task switched in between.

Assumed: the user edits, commits and switches only while no process runs (but
may roll back from another process at any time); he rolls back and resumes in
the clone the task is in; files matched by `.gitignore` are not in `Paths`.
The other tools that run project code (`run_tests`, `lint`, `build`) do to the
tree what a `safe` command does.

### ConfirmationBridge: asking the user from a thread

`active` is the `ConnectionManager`'s current connection, `pending` the table
of each bridge, `answer` and `event` the two fields of a `PendingConfirmation`,
`call` where each worker is in `request()`. The event loop is one thread: `busy`
is what it is in the middle of, and no other handler of it runs until that is
done, while workers may. `resolve()` is therefore two steps (the lookup under
the lock, the write of the entry after it), `abandon_all()` one per entry.
Messages to the browser are posted with `run_coroutine_threadsafe`, so `posted`
is a set: the order between threads is not fixed. `shown` is the single
`pendingConfirm` of `useTurnSocket.ts`. A socket that drops loses any subset of
the replies on their way.

### ServerTurns: a turn, on top of the bridge

Extends the bridge: a worker is a turn's thread, and its states are the calls
of `agent_worker.py` and of the roles it runs. `at` follows the handler
`create_turn` (check of the bridge at line 26, second read at line 35, thread
start), then the run, the messages pushed in between (`send_from_worker_thread`
checks and then uses the connection: two steps), the questions it asks over the
bridge, and the `except`/`finally` that settle the turn.

### ManagedProcesses: the table against the process table

`rows` is the table; `holder`, `parent` and `zombie` are the system's side: who
has each pid, who can wait for a child, and which children have exited and
still hold theirs. `at` is where each SkyTrap is between the calls of
`start_process`, `stop_process` and `is_running`, each of which is one action
since other processes run in between. A pid is free once its process is reaped,
and may go to another process of this user or of another one. SIGTERM may be
ignored; SIGKILL is not. The insert and the update may fail (a locked
database). Assumed: a `ps` that runs reports every process there is, and init
reaps the children of a SkyTrap that has ended.

### AuthStore: logging in

The tables, and for each request where it is between two calls of the store:
`routers` call it several times, and the store's lock is held for one call, or
for both commits of `verify_otp` and `rotate_refresh_token`, the second of
which calls `create_refresh_token` with the lock held (`Reenter`). `Crash` ends
all requests between any two commits. Codes and tokens are numbers, a hash is
what it is of; the clock only compares. One user and one address: everything is
per user or per address.

### AgentTasks: tasks over HTTP

The connection, the status of each task as its file says, and the worker that
`_launch` started with the socket it may ask on. What a worker does in the
service is `AutonomousTask`; here it ends, is held for an approval, or raises,
and the result is handed over. That is two steps: `Report` sees whether there is
a connection, `Send` reads it again and uses it, which raises when it has gone.
`calls`, `launched`, `reported` and `cut` (those the connection went away from)
count.

### ProjectRegistry and ProjectNotes: what SQLite and a file keep

Requests of a project look its row up (`_project_or_404`) and act in a second
step. `told` remembers which directory an id was first given for. In
`ProjectNotes` each writer (a turn or a chat) reads the journal into a prompt,
lists notes, records one and appends an entry, with any other writer's steps or
a kill in between. A note's id is its place in the table, and what a turn is
given is the set of the ids listed: the newest of its workspace, which is what
`ORDER BY id DESC LIMIT` returns (a search returns fewer).

### RepositoryMemory: what is known of the repository

A file is its rank in the sorted listing, a content the set of names it
declares, or `Opaque`. A path is a file and a spelling: listing and index write
`f`, ripgrep and a model may write `./f`, and the code compares them as text.
The index has both directions (`byFile`, `byName`), as the code keeps them, so
that they can disagree. The task goes through `StartTask` to `SaveMemory` in the
order of `loop.py` and `service.py`, while the user edits, commits and switches
and tools write and delete. The fingerprint is asked of two git processes
(`ReadHead`, `ReadStatus`), each of which may fail, with any other step in
between; `Fingerprint` is what it should have been, for the history alone. The
capability detector compares words of the goal, of the plan and of paths:
`Detections` are the answers they may lead to, of which the plan takes any.
`Planned` are the paths a model's plan may name (all spellings, or none where
the plan is not the question), `FallbackActions` the deterministic plan.

The listing and the index are loops that stop at a limit (`snapshot.py`,
`symbols.py`); `WalkFiles` and `Build` say which files they reach, and
`LoopsAgree` in `MCAgent` has TLC compare both with the loops, file by file, on
every tree of the instance. `exact`, `walked`, `onDisk`, `edited` and the `by` of
a plan are history.

### TaskVerification: what a claim of success rests on

A version is a number, `lastRun` (history) says of each command on which
version it last ran and how it ended. Discovery reads what is configured now,
so that a manifest edited between two verifications changes the stages. The
memory's results accumulate as in the code, and the report is `FromMemory`. The
browser check has two phases: "browsing", until `_wait_http` has an answer, meets
its deadline or raises what it does not catch (`ConnectionLost`, which ends the
task FAILED), and "page", where Chromium looks and nothing bounds it. `server` is
npm; what npm starts is not followed, and may outlive it.
Assumed: the commands that verify do not change the files they verify, and no
command is both a test and a linter, type check or build of one project
(`ProjectAssumption`): none of `core/languages` is.

### Conversation: turns, roles and sessions

`turn` is one call of `run_agent_turn` with its steps, nudges and what it
changed; `RunRole` starts one, `Return` hands its answer on. The three sessions
differ in `place` and `Onward`. The model may say anything at each step, a tool
may be refused or fail. A change is counted, not described; a command that fails
and a process left in the background may have made one. `since` (history) counts
the messages since the plan that `last_plan` holds.

### Models and Doctor: what is found of the machine

`ollama` is what works of it, and shifts between requests, of which there is one
for the version, one for the tags and one to generate; `heard` (history) is
what answered. An answer that is JSON and no object raises out of the probe
(`Raised`), and the doctor has no report. Some of its checks call nothing
(`Constant`) and cannot fail, whatever is `broken`. The doctor then makes
`Verdict`, `MatrixOf` and `FixPlan` of the checks, by name, as `doctor.py` does.
`DoctorAssumption` says that these names are not each other's: no language of
the project is called like a check.

### LspClient: one request

A message is two pieces, header and body. The pipe (`stdout`) is what the
selector sees, the reader's `buffer` is not: a message that came together with
another waits there unseen. The server takes, answers, notifies, stops in the
middle of a message or exits as it likes. It sends requests of its own under any
of `ServerIds`, the client's ids among them; `posed` (history) remembers which.

### Renderer: the spinner and its threads

Each activity has an event and a thread; `_tick` is three steps: it waits for
the event, takes `self._status`, updates it. The run starts, replaces and stops
spinners in between. `files` is the summary's account, by path as the call wrote
it; `exists` what is there, which commands and the user change too
(`OthersChange`, remembered in `outside`).

## Runs

Bounds are small because the hazards are: each needs at most two writers of one
thing, or one writer and a crash. Every bound is a constant of the module.

| Run | Instance | Shows |
|---|---|---|
| `task_solo` | one runner, four runs of at most three iterations, crashes and failed saves; the runner may be asked to stop or roll back once, between runs | the file tells an abstract lifecycle (refinement of `TaskLifecycle`), an approval is on file exactly while it is waited for, what the loop persists has its branch, every command ends unless a call without a deadline never returns |
| `task_shared` | two runners, a client that stops or rolls back, two runs | a COMPLETED, whoever wrote it last, was earned |
| `turns` | two connections and two requests; the bridge alone with two workers, or one turn with two tool calls per role | no silent approval, only the user (or the timeout) declines on a live connection, a stale disconnect leaves the newer connection alone, refinement of `ApprovalGate`, every request returns; consent is real, a turn's thread ends and leaves it settled |
| `workspace` | one file, two contents, two runs, a request of low or of high consequence or a sensitive file, rollbacks in and after the first run | held actions need a yes; uncommitted work stays, and so does the user's branch unless a command of the task switches under a rollback; a checkpoint leaves nothing tracked out; no overwrite without an earlier warning |
| `processes` | two SkyTraps, two processes, two pids, one of which goes to another process | what is marked stopped is gone, whatever stops, exits and listings run beside each other; every stop ends |
| `server` | two requests of the log-in, four served, windows of one and two ticks; two tasks over HTTP, two sockets; two browsers, two directories, three rows; two writers of notes in two workspaces | a code or token opens one session and each limit holds whatever is asked at once; every request is answered; workers hand over what came of a task, unless the connection goes as they use it, and end; an id keeps its directory; nothing noted is lost or rewritten |
| `agent` | two files in two spellings, one name, listing and index cut at one, two edits and commits, git that may fail: two tasks with the deterministic plan, or one with any plan and one commit; a Python and a web project with five iterations; developers of three steps, others of two, two attempts, two messages | the index says what the files say, built, restored or kept up to date; the plan creates nothing that is there under the path asked about; a report of success follows the last results; a verification ends, or its page hangs; changes are agreed; what is handed on was done |
| `machine` | five machines, two shifts of Ollama; a server with input for two messages and two of its own, under ids of the client's; two activities, two files in two spellings, three changes | the doctor's reports agree and were seen; a request to a language server returns, apart from two named waits, and leaves nothing; nothing spins when it should not; the summary's account of a file with one name is true |

One file is enough in `workspace`: every decision of the executor and of git is
per path, except `CanAdd`, where one path already fails the whole. Two contents
are what the user's and the model's edit need to be told apart.

In `server`, two requests are a race and three are no new one: each method of
the store reads and writes rows of one code or token; a window of two ticks in
a clock of three has a request inside, on and outside its boundary. In `agent`,
limits of one with two files are the smallest listing that can be cut; a second
verification after an edit needs five iterations, and two tasks are one that
saves a memory and one that restores it. In `machine`, a second activity is one
that starts while the thread of the first holds its spinner.

Four runs show a disagreement between the code and what a message or a document
says of it; each is a finding with both lines quoted. Others that were met while
modelling are described under "Observed" below.

| Run | What TLC finds |
|---|---|
| `task_resume_after_stop` | a stopped task, resumed, is cancelled again by the old flag: the first save of the new run reads it back from the file |
| `workspace_blind` | the refusal of a write is recorded as a modification, so the same write passes the second time |
| `http_resume` | a task resumed over HTTP is not: the worker assigns to the name it reads first, and raises before it calls the service |
| `chat_consumed` | `last_plan` is never cleared (`cli.py:363`): a later message executes it again, in the mode called read-only (`ui/terminal.py:32`) |

Deadlock is not checked: every process may end for good, the bounds end the
rest, and the user need never do anything.

### Fairness

`task_solo` assumes weak fairness of each process's own steps: a thread or
process that can go on does, since HTTP calls, subprocesses and the bridge have
timeouts. It does not at the three points that have calls without one
(`Unbounded`): a language server that sends half an answer (`loop.py:152` into
`lsp.py`), the question at the terminal (`cli.py:104`) and the title of a page
(`browser_verification.py:170`); `EveryProcessEnds` says that a command ends or
stays there for ever. Nothing is assumed of crashes, failures, stop requests or
new commands. `turns` assumes weak fairness of the worker threads, whose waits
have a timeout (`event.wait(timeout=...)`), and of the calls of a turn's thread.
`processes` assumes that a SkyTrap in `stop_process` goes on or ends; nothing of
the processes it stops. Nothing is assumed of the user, the browser or the
network: `EveryRequestReturns` holds although nobody answers.

`server` assumes that a request that was accepted goes on (each is a thread
that waits for a lock at most), and in `AgentTasks` that a launched thread runs.
Its run of the loop need not end: a worker ends unless its task runs for ever.
`agent` assumes of a verification only its own steps and its timeouts
(`subprocess.run(timeout=...)`, the deadline of `_wait_http`): a command or a
server may hang, and a page, which nothing bounds, is where
`VerificationSettles` lets it end. `machine` assumes the client's thread of a
language server, and nothing of the server; and that the spinner's threads are
scheduled, each being a daemon thread that wakes every half second.

## Proofs

Eight modules hold the proofs. Every safety invariant and every action property
of the runs that pass is proved there for any processes, connections, workers,
pids, requests, browsers, directories, turns, files, contents, projects,
machines, activities and bounds, and so are the refinements of `TaskLifecycle`
and `ApprovalGate`. The assumptions
are the named ones of the modules. Most say that bounds are naturals and that a
"none" value is not one of what it is none of. Those that say more:

* `MemoryAssumption`: files are numbered in the order of the listing, and
  `WalkOrder`, in which the index takes them, has each of them.
* `ProjectAssumption` and `DoctorAssumption`: no command is both a test and
  another stage of a project, and no language is called like a check.
* `GuessesStayPaced` assumes finitely many requests, since it counts those under
  way.
* `ApprovalsMatch` assumes one runner, and any clients; `FileImplementsLifecycle`
  and `BranchOwned` one process that does everything. More is false of the code:
  `execute()` of a second runner takes over a file that waits for the first
  one's approval, a stop from another process saves an old copy over a newer one,
  and a stale copy without a branch, saved between the two loads of a
  resumption, is run. What does hold of any number of processes is
  `CompletedEarned`.

Hardly any property below is inductive as it stands. Each proof has one step per
action and a strengthened invariant, which TLC checked on the instances of the
runs before it was proved.

### Tasks, turns and workspace

* The type invariants (`TypeCorrect`, `BridgeTypeCorrect`, `ProcessTypeCorrect`
  as theorems, those of the others as part of their invariants) also carry what
  the types of later steps need: an iteration within its limit, a worker in a
  call has a request and a connection.
* `CompletedEarned`: a COMPLETED in the file or in any copy was earned by the
  run it names. The property says nothing of a copy that is about to complete;
  `EarnedInv` adds `InOrder`: a copy at a point of the loop holds exactly the
  checks passed since the model's last answer that lead there, and a tool was
  used. A stale copy saved over a newer one keeps the property because it holds
  of every copy.
* `BranchOwned`: `LoopOwnsBranch`, by `BranchInv`, which says the same of every
  copy at every point of `start`, `resume` and `_run` (`Fits`): a copy in the
  loop has its branch and a clear intent, one on its way there may not yet. What
  a resumption loads the second time is the file, so `BranchInv` says it of the
  file between the two loads; it is here that nobody else may write.
* `ApprovalsMatch`: `ApprovalMatchesStatus`. `ApprovalInv` follows the runner's
  copy (`Holds`) and adds that while `start()` is at work neither the file nor
  the copy of any client has a pending approval (`Fresh`), for that is what
  `execute()` then takes over.
* `FileImplementsLifecycle`: each save is a step of `TaskLifecycle` or none.
  `LifeInv` adds which status a copy may have at each point (`StatusAt`) and how
  far the file may be behind it (`Behind`): a save that fails is followed by one
  as FAILED, which must be a step from what the file said before.
* `HeldFilesApproved`: `HeldNeedsYes` speaks of the files; git brings others
  back, so `EveryTree` says it of the index, both tips and the base as well.
  `WorkStays`: `LeftAlone` adds that work left makes the clone dirty on the
  user's branch, so that no process gets past `ensure_task_branch`.
  `SealsEverything`: `StagedIsWork` ties the index to the files between the add
  and the commit, even if another process rolls back. `OverwritesAreWarned`:
  `MemoryWarned`, of the memory and of the file's. `BranchStays`: a checkpoint
  works on the task's branch, and so does a rollback from its check to its reset,
  unless a command of the task switched in between (`UndoingOnTask`). Together:
  `WorkspaceInv`.
* `ApprovalIsGiven`: `NoSilentApproval`. `BridgeInv` says where a yes may be: a
  request is in one call (`Calls`), an id not handed out is untouched (`Fresh`),
  a request is either to be posted, under way, shown or answered, never two of
  these (`Place`), and every yes in a reply, in the hands of the event loop or in
  an entry is the user's (`Word`).
* `ImplementsGate`: the bridge implements `ApprovalGate`, from the same
  invariant. `Place` is what makes the user's answer to a request unique, hence
  the mapping `yes <- {r : said[r] = "yes"}` monotone.
* `NewestStaysActive` and `DeclinedByUser`: what is not approved. `DeclineInv`
  adds whose table each request is in (`Tables`), where a no comes from
  (`Answers`), and that what the endpoint abandons is the active connection,
  closed by then (`Ending`); with `NewestIsActive` that is not the newest while
  it is open.
* `TurnsUseBridge`: a behaviour of `ServerTurns` is one of `ConfirmationBridge`
  (every step of a turn is a step of the bridge or leaves it alone), so the
  bridge's theorems hold of turns. It needs `Stands`: a turn that asks has a
  bridge, and that bridge was accepted. `ConsentGiven` follows from
  `NoSilentApproval`: a consent was approved. `EndsSettled` follows from
  `Stands`: a turn is settled before its end is announced. Together: `TurnInv`.
* `OnlyTheGoneAreMarked`: `MarkedIsGone`. `ProcessInv` adds `Held` (a child has
  one pid, and only one that was started has any), `Tracked` (the pid of a row
  reaches its child as long as that is alive) and `Gone` (at "mark", the child
  of the row is not alive). The argument is `StepReturnsNone`: no step gives a
  pid to a child started before, so what is gone stays gone, and a stop that
  acts on what it saw earlier is right all the same.

### Server

* `OneSession`: `OpensOnce`. `AuthInv` adds what the store's lock is held for
  (`Locked`: between the two commits of `verify_otp` and of
  `rotate_refresh_token` nobody else consumes that code or replaces that token)
  and that a consumed code is claimed by one request, or has become a token,
  never both (`Claimed`). A crash between two commits loses a session and opens
  none.
* `GuessesStayPaced`: `GuessesArePaced`. `PaceInv` adds that codes are in the
  order of their times, and `TriesBounded`: each request that was let through
  found fewer than `LoginMax` attempts, and each of the others has logged what it
  tried since or is still to do so, hence the limit plus the requests under way.
* `NoWorkerIsLost`: of each task, the workers launched are those that reported,
  those at work, and at most those a connection went away from. `HttpInv` keeps
  the balance (`Balanced`): without a connection, each worker about to use one
  has been counted as cut off already. This is the safety part of `WorkersReport`.
* `IdsStand`: `OneRootPerId`. A request that found its project goes on with what
  it read, so `RegistryInv` adds that of every request under way (`Looked`), and
  that a row that is left still holds the directory its id was first given for.
  The argument is that `rows` and the history `told` grow together and an id is
  never given twice.
* `JournalKeepsThePast`: `PastIsKept`. `NoteInv` adds `Noted` (the note of a turn
  that wrote it is there), `ListInv` that what was listed is in the table, where
  a note is never rewritten.

### Agent and machine

* `MemoryStaysExact` and `PlansFitTree`. `MemInv` adds that both directions of
  the index come of the same files (`IndexIsWhole`), that an edit of this task is
  in it under the path the tool was given (`EditsAreIndexed`), that what is
  saved, about to be saved, or was restored is right of its commit if it was
  marked exact (`MemoryIsRight`), whatever git failed to answer, and that the
  listing, the evidence and the plan are of the tree that was listed, evidence of
  a path asked about being of that path as asked (`AskedIsListed`). What a model
  plans under another spelling has no such theorem: it is not so.
* `EvidenceStands`: `EvidenceIsEarned`. `VerInv` adds `StagesDone` (the stages
  already passed in this verification passed on the files as they are) and
  `TestsRecorded`: the record of the test stage forgets no test that failed,
  because results are only added.
* `HandedOnTruly` and `ChangesWereAgreed`. `ConvInv` adds that a developer at
  work, and what comes after it, was agreed to (`WorkIsAgreed`), that nothing
  changes between the tests and the end of the review (`TestsStand`), and that
  an exchange about to be recorded has been counted (`RowsAreTold`). In a chat,
  what was agreed to is the mode: any message, or in plan mode one that asks to
  execute after some plan; that it need not be the last one is `chat_consumed`.
* `DiagnosisHolds`: `DiagnosisIsTrue`. `DoctorInv` adds what has been heard when
  the probe has come so far (`HeardFirst`, `InTurn`), so that no verdict comes
  before its answers although Ollama comes and goes. Matrix and repairs agree
  except on a model whose probe raised: unavailable in one, absent in the other.
* `AccountStaysTrue` and `SpinnersStop`: `AccountIsTrue`, and the two parts of
  `NothingSpins` that need no fairness. `DrawInv` adds `Still`: outside work
  there is no spinner and no event to set, so that whoever starts the next
  activity stops exactly the last one. The account is of files that the file
  tools alone changed, under one name: the others are what `AccountIsTrue` cannot
  say anything of.
* `CallsAreClean`: `CallIsClean`. `LspInv` follows a false answer back: nothing
  in the reader's buffer, in the pipe or on the server's lips has the id of the
  second request unless the server answered it or has put that id on a request of
  its own (`Truthful`), whatever pieces came first.

### What the proofs changed in the models

* The alternatives of `Onward` in `Conversation` overlapped: where a summary of a
  chat, or any other answer in a chat, leads was left to the choice of `CASE`.
  TLC took the first; they are disjoint now.
* `Contents` of `RepositoryMemory` was a `SUBSET` and a `\cup` without
  parentheses, which TLC and the prover read differently. It has them now.
* `Build`, `WalkFiles` and `ListNotes` were loops over sequences, which the
  prover cannot reason about; they are closed forms now, the first two compared
  with their loops by TLC, the third being the meaning of its query.
* That a test command is no other stage's, and a language no check, was used in
  the arguments and written down nowhere.

### Only model-checked

Everything under fairness, since liveness and `ENABLED` are out of this prover's
reach: `EveryProcessEnds`, `EveryRequestReturns`, `EveryTurnEnds`,
`EveryStopEnds`, `EveryRequestIsAnswered`, `WorkersReport` and `NothingSpins`
beyond their safety parts above, `CallReturns` and `VerificationSettles`. And
that the closed forms of the index and the listing agree with their loops, on
every tree of the instance in `MCAgent`: an induction over a fold.

## Observed, and in no run

Tasks, turns and workspace:

* A client that disconnects between two reads of `connection_manager.bridge`
  (`routers/turns.py:26`, `:35`) leaves its turn unsettled for ever; one that
  does so between the check and the use of the connection in a progress message
  (`connection.py:47`) fails it.
* A checkpoint whose git command fails records a list among strings
  (`loop.py:313`): the task's file cannot be loaded again.
* A file that a shell command made and git does not track is there when the
  checks pass, and in no commit: `checkpoint()` stages `files_modified` and
  `git diff --name-only` (`git_workflow.py:80-87`).
* What a resumption runs is not the record whose branch was checked: a copy
  without a branch, saved by another process between the two loads, is planned
  and worked on, on whatever branch is checked out (`service.py:227`,
  `loop.py:95`).
* `request_stop` asks the copy it has loaded whether the task has ended, and saves
  that copy (`memory.py:147`): a task that completed in between is RUNNING again
  in its file. "Un état terminal ne peut pas être réouvert silencieusement", says
  `docs/SKYTRAP_V2_ARCHITECTURE.md:112`.
* A `git switch` of the running task between the check and the reset of a
  rollback (`git_workflow.py:141`, `:144`) has the reset move the user's branch;
  "rollback ciblé", says line 127 of that document.
* A stop request written between a save's read of the flag and its replacement
  of the file is lost (`memory.py:109`, `:120`).
* A connection that has been superseded never abandons its bridge
  (`connection.py:33`): its workers wait for their timeout.
* `GET /turns/{id}` reads the record without the lock (`routers/turns.py:76`)
  while the worker writes it field by field.
* A database that cannot be opened ends the worker before its turn is marked
  running (`routers/turns.py:42`).
* A crash of `start` after the branch exists and before the save leaves a task
  that no command can resume.
* A crash between the commit and the save of a checkpoint leaves a commit the
  task does not know; the resumed run records the base commit instead. Changes
  the model staged itself with `git add`, and no others, end in "No changes".
* `stop_process` does not read `stopped_at` (`processes.py:170-174`): stopping a
  row again, or one whose process has exited, signals whoever has the pid now.
* A process whose row could not be inserted runs on in no list
  (`processes.py:103`, `:113`).
* `is_running` assumes alive "rather than falsely 'stopped'" when it cannot
  tell (`processes.py:67`), but only if `ps` cannot be run: a `ps` that rejects
  `-p` prints nothing, and that counts as not running (`:70`).

Server:

* A log-out that races a refresh leaves the refresh's new token alive; the
  successful checks of a code count toward the limit of log-in attempts;
  `create_user` looks and then inserts, from two command lines at once.
* `ws/router.py` closes with 4401 before it accepts, so the browser never sees
  the code on which it would refresh its token and reconnect.
* A task over HTTP can be asked to resume while it runs.
* The connection is checked, then read again and used (`connection.py:47`,
  outside the `try` of `agent_tasks.py:57`): closed in between, the send raises
  and a task's worker dies with its result, although "background failures must
  reach the client".
* An insert that fails leaves a transaction open (`core/projects.py:60-67`). A
  save from the web's editor overwrites whatever is there by then.

Memory, verification, conversation:

* After a commit the index is saved under the new HEAD although commands may
  have changed files it never saw. `./f` and `f` are two keys of it. Without Git
  the fingerprint never changes, and a tree whose status git fails to give
  counts as clean (`snapshot.py:204-224`).
* The fingerprint is HEAD and one bit for a dirty tree (`snapshot.py:329`): a
  memory saved for one dirty tree is restored for another, though it is to be
  reused "only when the fingerprint proves nothing has changed" (`loop.py:138`).
* A plan may create `./f` where the evidence found `f`: `planning.py:206` compares
  text, so that action is not "downgraded to MODIFY" (line 196).
* The report says "Unit tests FAILED" after a failure that was repaired, and
  may say "passed" of an older version when the stage was dropped from the
  manifest since. What commands edit is not in the evidence. `test_` also
  matches `latest_news.py`. A `ruff` in `.venv` only is not run. Whatever
  answers on the dev server's port is taken for it.
* An architect's second refusal becomes the plan. On the server `delete_file`
  notes no path, so a turn that only deletes is neither reviewed nor noted. A
  tool call that cannot be parsed ends the turn as its answer.

Machine:

* A second message that is already in the reader's buffer is invisible to the
  selector: a request can time out with its answer read. The deadline does not
  hold for half a message ("bounded subprocess lifetime", `lsp.py:28`). A
  request of the server's own with id 1 or 2 is taken for a response
  (`lsp.py:153`), which `CallIsClean` excepts.
* `npm run dev` is terminated, not the processes it started
  (`browser_verification.py:181`): the port may stay taken. A page that never
  gives its title blocks the task (`:170`).
* The checks of the agent runtime and of its write policy (`doctor.py:450`, `:455`)
  return a text, although "every check here actually probes the thing it names"
  (line 2).
* A probe of Ollama that raises makes the model unavailable with no repair in the
  plan (`doctor.py:174`, `:510`).
* `./f` and `f` are two entries of the summary (`terminal.py:645`): after a write
  of one and a deletion of the other the first is still listed as created.
* Installing `ast-grep` can lower the readiness of the environment, since the
  set of environment checks has only its other name. "No remediation required."
  is printed (`cli.py:528`) although Git may be missing. Several checks are
  healthy if a module can be imported.

## Plan

Of the first plan, all is built but the browser's side: `AgentTasks`,
`AuthStore`, `Conversation` (the turn loop and the roles), `TaskVerification`,
`RepositoryMemory`, `ProjectRegistry` and `ProjectNotes`; `Models`, `Doctor`,
`LspClient` and `Renderer` were added. What is left:

1. `TurnSocket`: the browser's side, reconnection and its events.
2. The abstract specification of a session ("a code or a token is spent once",
   "a token has one live successor") and `AuthStore` as its refinement, from
   `AuthInv`.
3. `Conversation` under `ServerTurns`, in the place of the choices that module
   makes.

To prove next: the refinement of 2, and that `Conversation` under `ServerTurns`
acts on consent only, from `TurnInv` and `ConvInv`.

## Not modelled

* Intent analysis, parsing, ranking and searching of source text
  (`autonomy/intent.py`, `core/intent.py`, `intelligence/parser.py`, `graph.py`,
  `context_builder.py`, `structural_search.py`, `conventions.py`): functions of
  a text in one call. What they find is a choice of the models above.
* Security scanners, technology watch, skills, benchmarks: they run a program
  or fetch a page and format what comes back; nothing they keep is read again.
* `models/router.py` and `catalog.py` compare constants; the doctor's scores are
  sums over the checks that `Doctor` has.
* The command line beyond the commands named above, and what the terminal and
  the pages of the web interface look like. Sending mail, signing tokens and
  HTTP to the models are external.

Inside the components that are modelled, what is left out is named in their
section above and in `PROJECT.json`.
