---------------------------- MODULE Conversation ----------------------------
(***************************************************************************)
(* The agent that is talked to: the turn of core/agent.py (observe,        *)
(* decide, act), the roles of core/roles.py and core/notes.py that are     *)
(* such turns, and the three sessions they make up: the chat and `build`   *)
(* of cli.py, and the pipeline of server/agent_worker.py.  The model says  *)
(* anything; what a tool does is only whether it changed something.        *)
(***************************************************************************)
EXTENDS Integers, Sequences, FiniteSets

CONSTANTS MaxSteps,       \* MAX_STEPS
          DeveloperSteps, \* DEVELOPER_MAX_STEPS
          MaxRejections,  \* MAX_EXECUTION_REJECTIONS
          MaxAttempts,    \* MAX_AUTOFIX_ATTEMPTS
          MaxMessages,    \* bound: messages of the user
          MaxChanges      \* bound: changes of the workspace

ASSUME ConversationAssumption ==
  {MaxSteps, DeveloperSteps, MaxRejections, MaxAttempts, MaxMessages,
   MaxChanges} \subseteq Nat

VARIABLES
  session,   \* a chat, `skytrap build`, or a turn of the server
  isRepo,    \* workspace.is_git
  mode,      \* ChatState.mode
  place,     \* where the session is
  turn,      \* the turn under way
  answer,    \* what the last turn returned, and history of it
  planned,   \* last_plan is not empty
  since,     \* history: messages since the plan was given, up to 2
  execute,   \* execute_intent, of the last message
  approved,  \* the plan was confirmed
  attempt,   \* of the developer
  changes,   \* changes made by tool calls, not by what they leave running
  wrote,     \* touched_files is not empty
  tests,     \* the last result, and the changes it was made after
  sent,      \* messages so far
  exchanges, \* pairs in the history of the chat
  told,      \* history: answers given
  rows       \* table messages, of this session

convVars == <<session, isRepo, mode, place, turn, answer, planned, since,
              execute, approved, attempt, changes, wrote, tests, sent,
              exchanges, told, rows>>
inputs == <<session, isRepo, mode, planned, since, execute, approved, sent>>
effects == <<attempt, changes, wrote, tests>>
record == <<exchanges, told, rows>>

Modes == <<"normal", "plan", "auto">>
Says == {"plain", "hedge", "refusal", "timeout"}
Roles == {"architect", "developer", "reviewer", "summarizer"}

NewTurn(role, evidence) ==
  [role |-> role, evidence |-> evidence, changed |-> FALSE, rejections |-> 0,
   retried |-> FALSE,
   steps |-> IF role = "developer" THEN DeveloperSteps ELSE MaxSteps]

NoTurn == NewTurn("architect", FALSE)

ConvInit ==
  /\ session \in {"chat", "build", "server"}
  /\ isRepo \in BOOLEAN
  /\ mode = "normal"
  /\ place = IF session = "chat" THEN "prompt" ELSE "plan"
  /\ turn = NoTurn
  /\ answer = [says |-> "plain", evidence |-> FALSE, changed |-> FALSE,
               rejections |-> 0]
  /\ planned = FALSE /\ since = 0
  /\ execute = FALSE /\ approved = FALSE
  /\ attempt = 1 /\ changes = 0 /\ wrote = FALSE
  /\ tests = [after |-> -1, passed |-> FALSE]
  /\ sent = 0 /\ exchanges = 0 /\ told = 0 /\ rows = <<>>

-----------------------------------------------------------------------------
(* The turn *)

\* MUTATING_TOOL_NAMES, and what runs a command of the model's, if it comes
\* to an error too.
Mutating == {"write", "delete", "shell"}
Running == {"shell", "background"}
AllTools == {"read"} \cup Mutating \cup Running

\* Faulty variant of ToolsOf: one list for every role.
ToolsOfAll(role) == AllTools

\* A name that is not in the role's list is an unknown tool.
ToolsOf(role) == CASE role = "developer" -> AllTools
                   [] role = "summarizer" -> {}
                   [] OTHER -> {"read"}

\* A tool call that cannot be parsed is not repaired, and like anything else
\* that is not a decision it is the final message.
ParseDecision(form) == IF form = "call" THEN "tool_call" ELSE "final"
Forms == {"call", "broken call", "final", "unescaped final", "prose"}

NeedsRejection(says) ==
  /\ turn.evidence /\ ~turn.changed /\ says = "hedge"
  /\ turn.rejections < MaxRejections

ModelSays(decision) ==
  /\ place = "turn" /\ turn.steps > 0
  /\ decision \in {ParseDecision(form) : form \in Forms}

\* The executor refuses, the tool fails, or it does what it is for.  The
\* server's delete_file has no callback that would note the path.
ToolCall(tool, success) ==
  /\ ModelSays("tool_call")
  /\ success => tool \in ToolsOf(turn.role)
  /\ \E n \in {0, 1} :
       /\ n = 1 => /\ tool \in ToolsOf(turn.role) \ {"read"}
                   /\ success \/ tool \in Running
                   /\ changes < MaxChanges
       /\ success /\ tool \in {"write", "delete"} => n = 1
       /\ changes' = changes + n
  /\ LET noted == success /\ (tool = "write"
                              \/ (tool = "delete" /\ session # "server"))
     IN  wrote' = (wrote \/ noted)
  /\ turn' = [turn EXCEPT !.steps = @ - 1,
                          !.changed = @ \/ (success /\ tool \in Mutating)]
  /\ UNCHANGED <<inputs, place, answer, attempt, tests, record>>

Nudge == /\ ModelSays("final")
         /\ NeedsRejection("hedge")
         /\ turn' = [turn EXCEPT !.steps = @ - 1, !.rejections = @ + 1]
         /\ UNCHANGED <<inputs, place, answer, effects, record>>

\* Where the session goes on when a turn of a role has returned.
Onward(role) ==
  IF role = "summarizer" THEN "closed"
  ELSE IF session = "chat" THEN "record"
  ELSE CASE role = "architect" -> "confirm"
         [] role = "developer" -> "tests"
         [] OTHER -> "note"

\* run_architect starts again, once, when it reads as a refusal.
Again(says) == turn.role = "architect" /\ says = "refusal" /\ ~turn.retried

Return(says) ==
  LET chats == session = "chat" /\ turn.role # "summarizer" /\ ~Again(says)
  IN  /\ answer' = [says |-> says, evidence |-> turn.evidence,
                    changed |-> turn.changed, rejections |-> turn.rejections]
      /\ IF Again(says)
         THEN /\ turn' = [NewTurn("architect", FALSE) EXCEPT !.retried = TRUE]
              /\ UNCHANGED place
         ELSE place' = Onward(turn.role) /\ turn' = NoTurn
      /\ IF chats /\ turn.role = "architect"
         THEN planned' = TRUE /\ since' = 0
         ELSE UNCHANGED <<planned, since>>
      /\ exchanges' = IF chats /\ turn.role = "developer" THEN exchanges + 1
                      ELSE exchanges
      /\ told' = IF chats THEN told + 1 ELSE told
      /\ UNCHANGED <<session, isRepo, mode, execute, approved, sent, effects,
                     rows>>

FinalAnswer(says) == /\ ModelSays("final")
                     /\ ~NeedsRejection(says)
                     /\ Return(says)

OutOfSteps == place = "turn" /\ turn.steps = 0 /\ Return("timeout")

\* The model cannot be reached, or Ctrl+C: run_chat_loop survives it, the
\* notes swallow it, and it ends a build and a turn of the server.
TurnRaises ==
  /\ place = "turn"
  /\ place' = IF session = "chat" /\ turn.role # "summarizer" THEN "prompt"
              ELSE "closed"
  /\ turn' = NoTurn
  /\ UNCHANGED <<inputs, answer, effects, record>>

TurnStep == \/ \E tool \in AllTools, success \in BOOLEAN :
                 ToolCall(tool, success)
            \/ Nudge \/ OutOfSteps \/ TurnRaises
            \/ \E says \in Says \ {"timeout"} : FinalAnswer(says)

RunRole(role, evidence) == place' = "turn" /\ turn' = NewTurn(role, evidence)

-----------------------------------------------------------------------------
(* The chat *)

CycleMode ==
  /\ session = "chat" /\ place = "prompt" /\ sent < MaxMessages
  /\ \E k \in 1..3 : mode = Modes[k] /\ mode' = Modes[(k % 3) + 1]
  /\ UNCHANGED <<session, isRepo, planned, since, execute, approved, sent,
                 place, turn, answer, effects, record>>

Message(intent) ==
  /\ session = "chat" /\ place = "prompt" /\ sent < MaxMessages
  /\ sent' = sent + 1
  /\ execute' = intent
  /\ since' = IF since < 2 THEN since + 1 ELSE since
  /\ IF mode = "plan" /\ ~(intent /\ planned)
     THEN RunRole("architect", FALSE)
     ELSE RunRole("developer", intent)
  /\ UNCHANGED <<session, isRepo, mode, planned, approved, answer, effects>>

Respond(intent) == Message(intent) /\ UNCHANGED record

\* Two commits; the second, or both, may fail.
RecordMessage ==
  /\ place \in {"record", "recorded"}
  /\ \/ place' = "prompt" /\ UNCHANGED rows
     \/ IF place = "record"
        THEN rows' = Append(rows, "user") /\ place' = "recorded"
        ELSE rows' = Append(rows, "assistant") /\ place' = "prompt"
  /\ UNCHANGED <<inputs, turn, answer, effects, exchanges, told>>

LeaveChat ==
  /\ session = "chat" /\ place = "prompt"
  /\ IF exchanges >= 2 \/ wrote THEN RunRole("summarizer", FALSE)
     ELSE place' = "closed" /\ UNCHANGED turn
  /\ UNCHANGED <<inputs, answer, effects, record>>

-----------------------------------------------------------------------------
(* `build`, and a turn of the server *)

RunArchitect == /\ place = "plan"
                /\ RunRole("architect", FALSE)
                /\ UNCHANGED <<inputs, answer, effects, record>>

ConfirmPlan(yes) ==
  /\ place = "confirm"
  /\ approved' = yes
  /\ place' = IF yes THEN "develop" ELSE "closed"
  /\ UNCHANGED <<session, isRepo, mode, planned, since, execute, sent, turn,
                 answer, effects, record>>

RunDeveloper == /\ place = "develop"
                /\ RunRole("developer", TRUE)
                /\ UNCHANGED <<inputs, answer, effects, record>>

\* Faulty variant of RunTests: not after the last attempt.
RunTestsUnlessLast(passed) ==
  /\ place = "tests"
  /\ IF session = "build" /\ attempt = MaxAttempts
     THEN tests' = tests ELSE tests' = [after |-> changes, passed |-> passed]
  /\ IF passed \/ attempt = MaxAttempts \/ session = "server"
     THEN place' = "review" /\ UNCHANGED attempt
     ELSE place' = "develop" /\ attempt' = attempt + 1
  /\ UNCHANGED <<inputs, turn, answer, changes, wrote, record>>

\* A failure goes back to the developer, in a build.
RunTests(passed) ==
  /\ place = "tests"
  /\ tests' = [after |-> changes, passed |-> passed]
  /\ IF passed \/ attempt = MaxAttempts \/ session = "server"
     THEN place' = "review" /\ UNCHANGED attempt
     ELSE place' = "develop" /\ attempt' = attempt + 1
  /\ UNCHANGED <<inputs, turn, answer, changes, wrote, record>>

\* Nothing was written, or there is no diff: no repository, or git fails.
\* Then a build ends, and a turn that wrote goes on.
ReviewDiff ==
  /\ place = "review"
  /\ \/ wrote /\ isRepo /\ RunRole("reviewer", FALSE)
     \/ /\ place' = IF wrote /\ session = "server" THEN "note" ELSE "closed"
        /\ UNCHANGED turn
  /\ UNCHANGED <<inputs, answer, effects, record>>

RunSummarizer == /\ place = "note"
                 /\ RunRole("summarizer", FALSE)
                 /\ UNCHANGED <<inputs, answer, effects, record>>

-----------------------------------------------------------------------------

Work == \/ TurnStep \/ RecordMessage \/ RunArchitect \/ RunDeveloper
        \/ \E passed \in BOOLEAN : RunTests(passed)
        \/ ReviewDiff \/ RunSummarizer

ConvNext == \/ Work \/ CycleMode \/ LeaveChat
            \/ \E b \in BOOLEAN : Respond(b) \/ ConfirmPlan(b)

ConvSpec == ConvInit /\ [][ConvNext]_convVars

-----------------------------------------------------------------------------
(* Properties *)

\* What is changed is changed by a developer that was let: in a chat by a
\* message outside plan mode, or in it by one that asks to execute, after some
\* plan; in a build and in a turn of the server by the confirmation of the
\* plan.  The architect changes nothing, also when it is asked again.
\* (cli.py:387-424 and 641, agent_worker.py:126)
ChangesAreAgreed ==
  [][changes' # changes =>
       /\ place = "turn" /\ turn.role = "developer"
       /\ IF session = "chat" THEN mode # "plan" \/ (planned /\ execute)
          ELSE approved]_convVars

\* "The guard targets the specific reported failure mode": an answer that
\* hedges where something was to be done is taken only when a mutating tool
\* succeeded or after all the nudges, whatever calls failed in between.
\* (core/agent.py:219-230)
HedgesAreChallenged ==
  answer.says = "hedge" /\ answer.evidence /\ ~answer.changed =>
    answer.rejections = MaxRejections

\* The reviewer is told of tests that ran on what it reviews, also when the
\* developer was sent back.  (cli.py:655-698, agent_worker.py:133-159)
ReviewedAsTested ==
  place = "turn" /\ turn.role = "reviewer" => tests.after = changes

\* The messages on record are exchanges that took place: no question whose
\* turn failed, and no answer but after its question.  (cli.py:408-443)
RecordedWasAnswered ==
  /\ Cardinality({k \in DOMAIN rows : rows[k] = "user"}) <= told
  /\ \A k \in DOMAIN rows :
       rows[k] = "assistant" => k > 1 /\ rows[k - 1] = "user"

\* What a turn hands on, to the reviewer, to the user and to the record,
\* rests on what was really done.
HandedOnAsDone == ReviewedAsTested /\ HedgesAreChallenged
                  /\ RecordedWasAnswered

\* Claims of the code that it does not keep.

\* A plan is "consumed if the very next message is an execution trigger", in a
\* mode said to be "read-only ... nothing can be changed": what is changed in
\* plan mode is changed by the message right after the plan, if by any.
\* (cli.py:363-366, ui/terminal.py:32; refuted)
PlanIsConsumed ==
  [][changes' # changes /\ session = "chat" /\ mode = "plan"
       => since = 1]_convVars

=============================================================================
