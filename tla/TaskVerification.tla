-------------------------- MODULE TaskVerification --------------------------
(***************************************************************************)
(* What a task's claim of success rests on: the commands found for the     *)
(* project and run stage by stage (autonomy/verification.py, tools.py),    *)
(* the check of the page (browser_verification.py), the review (review.py) *)
(* and the evidence the final report is rendered from (evidence.py), in    *)
(* the order in which autonomy/loop.py calls them.  A version is a state   *)
(* of the files; the commands that verify are taken not to change them.    *)
(***************************************************************************)
EXTENDS Integers, FiniteSets

CONSTANTS Commands,       \* shell commands
          Declared,       \* those that need a script, dependency or target
          Optional,       \* the optional_tools of _command_is_configured
          Typecheckers,   \* those that _is_typecheck recognises
          FallbackStage,  \* the stage of each command of the fallback
          Projects,       \* the projects a task may be about
          MaxIterations   \* TaskState.max_iterations

ASSUME VerificationAssumption ==
  /\ Declared \subseteq Commands /\ Optional \subseteq Commands
  /\ MaxIterations \in Nat

\* No profile of core/languages lists what runs the tests as a linter or a
\* build, and neither does the registry of the fallback.
ASSUME ProjectAssumption ==
  \A p \in Projects :
    LET others == p.lint \cup p.check \cup p.build
    IN  /\ others \cup p.test \cup p.markers \subseteq Commands
        /\ p.test \cap others = {}
        /\ \A c \in p.markers : IF FallbackStage[c] = "test"
                                THEN c \notin others ELSE c \notin p.test

VARIABLES
  project,    \* what does not change of the project
  declared,   \* commands whose script, dependency or target is there
  phase,      \* where the loop is
  iteration,  \* TaskState.iteration
  version,    \* of the files
  changed,    \* kinds of files in the tool results of the memory
  acted,      \* the memory has a tool result
  at,         \* the stage of the verification, 1..5
  todo,       \* commands left in the stage
  ran,        \* the verification has a result
  tested,     \* of each stage, the successes in memory.verification_results
  browsed,    \* successes of the browser checks that were not skipped
  reviewed,   \* the last review
  server,     \* the process that the check started, npm, is running
  report,     \* the final message
  lastRun     \* history: of each command, the version and success

work == <<project, declared, version, changed, acted>>
verification == <<at, todo, ran, tested, lastRun>>
verVars == <<work, verification, phase, iteration, browsed, reviewed, server,
             report>>

Stages == <<"lint", "typecheck", "test", "build">>
StageNames == {Stages[k] : k \in DOMAIN Stages}

-----------------------------------------------------------------------------
(* Discovery *)

\* The binary is on the path, in node_modules or in .venv; an optional tool
\* in .venv only is found by the first test and refused by the last.
Configured(c) ==
  /\ project.binary[c] # {}
  /\ c \in Declared => c \in declared
  /\ c \in Optional => project.binary[c] \cap {"path", "node"} # {}

Primary(stage) ==
  LET checks == project.lint \cup project.check
  IN  {c \in CASE stage = "lint" -> checks \ Typecheckers
               [] stage = "typecheck" -> checks \cap Typecheckers
               [] stage = "test" -> project.test
               [] stage = "build" -> project.build : Configured(c)}

DiscoverFallback(stage) ==
  {c \in project.markers : FallbackStage[c] = stage /\ Configured(c)}

Discover(stage) == IF \E s \in StageNames : Primary(s) # {}
                   THEN Primary(stage) ELSE DiscoverFallback(stage)

-----------------------------------------------------------------------------
(* Evidence *)

Tri(successes) == IF successes = {} THEN "not verified"
                  ELSE IF successes = {TRUE} THEN "passed" ELSE "FAILED"

\* all_clean: what ran, of tests, builds and reviews, ran clean.
AllClean == LET seen == {Tri(tested["test"]), Tri(tested["build"]), reviewed}
            IN  "FAILED" \notin seen /\ "passed" \in seen

FromMemory == [tests |-> Tri(tested["test"]), build |-> Tri(tested["build"]),
               review |-> reviewed, browser |-> Tri(browsed),
               satisfied |-> AllClean]

NoReport == [tests |-> "", build |-> "", review |-> "", browser |-> "",
             satisfied |-> FALSE]

\* _deterministic_findings: only tests were changed, for another objective.
\* (Its other finding, no successful verification, cannot be met here: the
\* loop calls the reviewer after one.)
SeriousFindings == changed = {"test"} /\ ~project.aboutTests

-----------------------------------------------------------------------------
VerInit == /\ project \in Projects
           /\ declared = project.declared
           /\ phase = "running" /\ iteration = 0
           /\ version = 0 /\ changed = {} /\ acted = FALSE
           /\ at = 1 /\ todo = {} /\ ran = FALSE
           /\ tested = [s \in StageNames |-> {}]
           /\ browsed = {} /\ reviewed = "not verified"
           /\ server = FALSE
           /\ report = NoReport
           /\ lastRun = [c \in Commands |-> <<-1, FALSE>>]

Decide == /\ phase = "running"
          /\ iteration < MaxIterations
          /\ iteration' = iteration + 1

\* A tool writes a file of some kind; a manifest declares or drops a command.
ToolRecords(kind) ==
  /\ Decide
  /\ version' = version + 1
  /\ changed' = changed \cup {kind}
  /\ acted' = TRUE
  /\ IF kind = "manifest"
     THEN \E c \in Declared : declared' \in {declared \cup {c}, declared \ {c}}
     ELSE UNCHANGED declared
  /\ UNCHANGED <<project, verification, phase, browsed, reviewed, server,
                 report>>

\* run_command changes a file: the memory has the command, not the path.
ShellEdits ==
  /\ Decide
  /\ version' = version + 1
  /\ acted' = TRUE
  /\ UNCHANGED <<project, declared, changed, verification, phase, browsed,
                 reviewed, server, report>>

\* A final message is rejected until some tool was used.
FinalMessage ==
  /\ Decide
  /\ phase' = IF acted THEN "verifying" ELSE phase
  /\ at' = 1 /\ todo' = {} /\ ran' = FALSE
  /\ UNCHANGED <<work, tested, lastRun, browsed, reviewed, server, report>>

IterationLimit ==
  /\ phase = "running" /\ iteration = MaxIterations
  /\ phase' = "failed"
  /\ UNCHANGED <<work, verification, iteration, browsed, reviewed, server,
                 report>>

-----------------------------------------------------------------------------
(* _verify: each stage is a tool, which may be refused *)

StageRefused ==
  /\ phase = "verifying" /\ at <= 4
  /\ phase' = "running"
  /\ ran' = TRUE
  /\ UNCHANGED <<work, at, todo, tested, lastRun, iteration, browsed,
                 reviewed, server, report>>

StageStarts ==
  /\ phase = "verifying" /\ at <= 4
  /\ IF Discover(Stages[at]) = {}
     THEN at' = at + 1 /\ UNCHANGED <<todo, phase>>
     ELSE /\ todo' = Discover(Stages[at])
          /\ phase' = "command"
          /\ UNCHANGED at
  /\ UNCHANGED <<work, ran, tested, lastRun, iteration, browsed, reviewed,
                 server, report>>

\* The end of a command: exit code zero or not, not found, or timed out.
\* The first that fails ends the stage and the verification.
CommandResult(c, success) ==
  /\ lastRun' = [lastRun EXCEPT ![c] = <<version, success>>]
  /\ todo' = IF success THEN todo \ {c} ELSE {}
  /\ IF success /\ todo' # {}
     THEN UNCHANGED <<at, ran, tested, phase>>
     ELSE /\ ran' = TRUE
          /\ tested' = [tested EXCEPT ![Stages[at]] = @ \cup {success}]
          /\ phase' = IF success THEN "verifying" ELSE "running"
          /\ at' = at + 1
  /\ UNCHANGED <<work, iteration, browsed, reviewed, server, report>>

\* Faulty variant of CommandExits: a stage that fails does not end the run.
ExitsAndGoesOn(c) ==
  \E success \in BOOLEAN :
    /\ phase = "command"
    /\ lastRun' = [lastRun EXCEPT ![c] = <<version, success>>]
    /\ todo' = {}
    /\ ran' = TRUE
    /\ tested' = [tested EXCEPT ![Stages[at]] = @ \cup {success}]
    /\ phase' = "verifying"
    /\ at' = at + 1
    /\ UNCHANGED <<work, iteration, browsed, reviewed, server, report>>

CommandExits(c) == phase = "command" /\ \E success \in BOOLEAN :
                                          CommandResult(c, success)

\* Faulty variant of CommandTimesOut: no limit.
NeverTimesOut(c) == FALSE

CommandTimesOut(c) == phase = "command" /\ CommandResult(c, FALSE)

VerificationEnds ==
  /\ phase = "verifying" /\ at = 5
  /\ phase' = IF ran THEN "browser" ELSE "blocked"
  /\ UNCHANGED <<work, verification, iteration, browsed, reviewed, server,
                 report>>

-----------------------------------------------------------------------------
(* _verify_browser_if_applicable *)

\* No framework of the web, or neither a server to start nor an address.
BrowserSkipped ==
  /\ phase = "browser"
  /\ ~project.web \/ ~(project.serves \/ project.address)
  /\ phase' = "reviewing"
  /\ UNCHANGED <<work, verification, iteration, browsed, reviewed, server,
                 report>>

StartServer ==
  /\ phase = "browser"
  /\ project.web /\ (project.serves \/ project.address)
  /\ phase' = "browsing"
  /\ server' = project.serves
  /\ UNCHANGED <<work, verification, iteration, browsed, reviewed, report>>

BrowserResult(success) ==
  /\ browsed' = browsed \cup {success}
  /\ phase' = IF success THEN "reviewing" ELSE "running"
  /\ UNCHANGED <<work, verification, iteration, reviewed, report>>

\* Whatever happens, npm is terminated, then killed: not what it started.
ServerEnds == server' = FALSE

\* HTTP only: an answer from 200 to 399.
Answered == /\ phase = "browsing"
            /\ \E success \in BOOLEAN : BrowserResult(success)
            /\ ServerEnds

\* _wait_http: an error status is retried too, until the deadline.
Unreachable == phase = "browsing" /\ BrowserResult(FALSE) /\ ServerEnds

\* It does not catch that the connection is reset or closed without an answer:
\* the loop does, as the end of the task.
ConnectionLost ==
  /\ phase = "browsing"
  /\ phase' = "failed"
  /\ ServerEnds
  /\ UNCHANGED <<work, verification, iteration, browsed, reviewed, report>>

\* An answer, and Playwright is there: Chromium goes to the page.
OpenPage ==
  /\ phase = "browsing"
  /\ phase' = "page"
  /\ UNCHANGED <<work, verification, iteration, browsed, reviewed, server,
                 report>>

\* A status from 200 to 399, no console error and a visible body; anything
\* that is raised is a failure.  title() waits for as long as the page does.
Browsed == /\ phase = "page"
           /\ \E success \in BOOLEAN : BrowserResult(success)
           /\ ServerEnds

-----------------------------------------------------------------------------
\* The findings of the code, and those of a model if there is one.
ReviewFails ==
  /\ phase = "reviewing"
  /\ SeriousFindings \/ project.reviewer
  /\ reviewed' = "FAILED"
  /\ phase' = "running"
  /\ UNCHANGED <<work, verification, iteration, browsed, server, report>>

ReviewPasses ==
  /\ phase = "reviewing"
  /\ ~SeriousFindings
  /\ reviewed' = "passed"
  /\ phase' = "checkpoint"
  /\ UNCHANGED <<work, verification, iteration, browsed, server, report>>

CompleteTask ==
  /\ phase = "checkpoint"
  /\ \/ phase' = "blocked" /\ UNCHANGED report
     \/ phase' = "completed" /\ report' = FromMemory
  /\ UNCHANGED <<work, verification, iteration, browsed, reviewed, server>>

VerNext ==
  \/ \E kind \in {"source", "test", "manifest"} : ToolRecords(kind)
  \/ ShellEdits \/ FinalMessage \/ IterationLimit
  \/ StageRefused \/ StageStarts
  \/ \E c \in todo : CommandExits(c) \/ CommandTimesOut(c)
  \/ VerificationEnds
  \/ BrowserSkipped \/ StartServer \/ Answered \/ Unreachable
  \/ ConnectionLost \/ OpenPage \/ Browsed
  \/ ReviewFails \/ ReviewPasses \/ CompleteTask

VerSpec == VerInit /\ [][VerNext]_verVars

\* What bounds a check: subprocess timeouts and the deadline of _wait_http,
\* and the steps of the loop in between.  Commands and servers may hang; a
\* page in Chromium too, and nothing bounds that.
VerFairness == /\ WF_verVars(StageStarts \/ VerificationEnds)
               /\ WF_verVars(\E c \in todo : CommandTimesOut(c))
               /\ WF_verVars(BrowserSkipped \/ StartServer \/ Unreachable)

-----------------------------------------------------------------------------
\* A completed task was verified as it is: every command that its project
\* configures passed on the last version of the files, and there is one.
\* (_verify, and its order with the edits, in loop.py:246-330)
CompletedIsVerified ==
  phase = "completed" =>
    LET commands == UNION {Discover(s) : s \in StageNames}
    IN  commands # {} /\ \A c \in commands : lastRun[c] = <<version, TRUE>>

\* "Unit tests passed" is never written over a failure: each test command
\* that ran at all in the task passed the last time, and one did.
\* (ExecutionEvidence.from_memory over several verifications, between which
\* a command may have been dropped from the project)
PassedMeansPassed ==
  phase = "completed" /\ report.tests = "passed" =>
    LET tests == {c \in project.test \cup project.markers :
                    lastRun[c][1] >= 0 /\ (c \in project.test
                                           \/ FallbackStage[c] = "test")}
    IN  tests # {} /\ \A c \in tests : lastRun[c][2]

\* A task about something else, whose tools changed tests and nothing else,
\* does not complete, however many times it tries.  (review.py:74-78)
TestsAloneProveNothing ==
  ~(phase = "completed" /\ changed = {"test"} /\ ~project.aboutTests)

\* A task completes, and its report says passed, only on what the commands of
\* its project last said of the files as they are.
EvidenceIsEarned ==
  CompletedIsVerified /\ PassedMeansPassed /\ TestsAloneProveNothing

\* The process that a browser check started does not outlive it, whatever
\* its result.  (browser_verification.py:179-185)
ServerStops == server => phase \in {"browsing", "page"}

\* A verification ends although its commands and the server may hang, unless
\* it comes to a page that does, and leaves npm running in no case.
\* (the timeouts of verification.py:236 and browser_verification.py:188)
VerificationSettles ==
  /\ []ServerStops
  /\ phase \in {"verifying", "command", "browser", "browsing"}
       ~> phase \in {"page", "running", "reviewing", "blocked", "failed"}

=============================================================================
