---------------------------- MODULE ServerTurns ----------------------------
(***************************************************************************)
(* POST /turns and what it starts: the registry of turns                   *)
(* (src/skytrap/server/turns.py), the handlers (routers/turns.py) and the  *)
(* worker thread, one per turn, that runs Architect, plan confirmation,    *)
(* Developer, tests and Reviewer (agent_worker.py).  A turn is the worker  *)
(* of ConfirmationBridge that asks on its behalf; every message it pushes  *)
(* checks the connection first and uses it afterwards.                     *)
(***************************************************************************)
EXTENDS ConfirmationBridge

CONSTANT MaxSteps  \* tool calls a role may make: MAX_STEPS

ASSUME StepsAssumption == MaxSteps \in Nat

VARIABLES
  turn,      \* TurnState of each turn
  at,        \* where its handler or its thread is
  back,      \* where the thread goes on after pushing a message
  bridgeOf,  \* the bridge create_turn captured
  steps,     \* tool calls the current role has left
  touched,   \* turns that wrote a file
  memory,    \* turns whose SQLite connection is open
  consents   \* history: the request behind each thing done with consent

turnVars == <<turn, at, back, bridgeOf, steps, touched, memory, consents>>
allVars == <<vars, turnVars>>

NoTurn == [status |-> "none", result |-> FALSE, error |-> FALSE]

TurnInit == /\ Init
            /\ turn = [w \in Workers |-> NoTurn]
            /\ at = [w \in Workers |-> "none"]
            /\ back = [w \in Workers |-> "none"]
            /\ bridgeOf = [w \in Workers |-> NoConn]
            /\ steps = [w \in Workers |-> 0]
            /\ touched = {}
            /\ memory = {}
            /\ consents = {}

GoTo(w, label) == at' = [at EXCEPT ![w] = label]

\* A role starts with its full budget of tool calls.
Enter(w, role) == /\ GoTo(w, role)
                  /\ steps' = [steps EXCEPT ![w] = MaxSteps]

\* Push a message to the active connection, then go on at label.
Push(w, label) == /\ GoTo(w, "push")
                  /\ back' = [back EXCEPT ![w] = label]

-----------------------------------------------------------------------------
(* The handlers *)

\* create_turn, on a thread of the HTTP pool: the connection is checked ...
CreateCheck(w) ==
  /\ at[w] = "none"
  /\ active # NoConn
  /\ turn' = [turn EXCEPT ![w].status = "pending"]
  /\ GoTo(w, "checked")
  /\ UNCHANGED <<back, bridgeOf, steps, touched, memory, consents, vars>>

\* ... and read again for the thread that is then started.
CreateRead(w) ==
  /\ at[w] = "checked"
  /\ bridgeOf' = [bridgeOf EXCEPT ![w] = active]
  /\ GoTo(w, "opening")
  /\ UNCHANGED <<turn, back, steps, touched, memory, consents, vars>>

-----------------------------------------------------------------------------
(* The worker thread *)

\* The database may be unusable: nothing catches that yet.
OpenMemory(w) ==
  /\ at[w] = "opening"
  /\ \/ /\ memory' = memory \cup {w}
        /\ turn' = [turn EXCEPT ![w].status = "running"]
        /\ Enter(w, "architect")
     \/ /\ GoTo(w, "dead")
        /\ UNCHANGED <<memory, turn, steps>>
  /\ UNCHANGED <<back, bridgeOf, touched, consents, vars>>

\* Faulty variant of RoleStep: the budget is not counted down.
RoleStepForever(w) ==
  /\ at[w] \in {"architect", "review"}
  /\ steps[w] > 0
  /\ Push(w, at[w])
  /\ UNCHANGED <<turn, bridgeOf, steps, touched, memory, consents, vars>>

\* A tool call of a read-only role, reported as progress.
RoleStep(w) ==
  /\ at[w] \in {"architect", "review"}
  /\ steps[w] > 0
  /\ steps' = [steps EXCEPT ![w] = @ - 1]
  /\ Push(w, at[w])
  /\ UNCHANGED <<turn, bridgeOf, touched, memory, consents, vars>>

\* send_from_worker_thread: the connection is checked ...
PushCheck(w) ==
  /\ at[w] = "push"
  /\ GoTo(w, IF active = NoConn THEN back[w] ELSE "pushing")
  /\ UNCHANGED <<turn, back, bridgeOf, steps, touched, memory, consents,
                 vars>>

\* The boundary of run_server_task: MarkError, unless the thread is in the
\* finally clause of its worker already; then memory.close() is skipped.
Caught(w) == GoTo(w, IF back[w] = "close" THEN "dead" ELSE "failed")

\* ... and used: None by then, and the call raises.
PushUse(w) ==
  /\ at[w] = "pushing"
  /\ IF active # NoConn THEN GoTo(w, back[w]) ELSE Caught(w)
  /\ UNCHANGED <<turn, back, bridgeOf, steps, touched, memory, consents,
                 vars>>

PlanReady(w) ==
  /\ at[w] = "architect"
  /\ GoTo(w, "propose")
  /\ UNCHANGED <<turn, back, bridgeOf, steps, touched, memory, consents,
                 vars>>

\* bridge.request(plan_text, "plan"); on None it raises outside any try, and
\* only the finally clause of the worker runs.
Propose(w) ==
  /\ at[w] = "propose"
  /\ IF bridgeOf[w] = NoConn
     THEN GoTo(w, "announce") /\ UNCHANGED vars
     ELSE Ask(w, bridgeOf[w]) /\ GoTo(w, "plan")
  /\ UNCHANGED <<turn, back, bridgeOf, steps, touched, memory, consents>>

\* What was agreed to: w is the thread, so its call is about to return.
Consent(w) == IF Verdict(w) = "approved"
              THEN consents' = consents \cup {call[w].req}
              ELSE UNCHANGED consents

\* Faulty variant of PlanAnswered: a declined plan is carried out.
PlanIgnored(w) ==
  /\ at[w] = "plan"
  /\ Return(w)
  /\ consents' = consents \cup {call[w].req}
  /\ Enter(w, "develop")
  /\ UNCHANGED <<turn, back, bridgeOf, touched, memory>>

PlanAnswered(w) ==
  /\ at[w] = "plan"
  /\ Return(w)
  /\ Consent(w)
  /\ IF Verdict(w) = "approved" THEN Enter(w, "develop")
                                ELSE GoTo(w, "finish") /\ UNCHANGED steps
  /\ UNCHANGED <<turn, back, bridgeOf, touched, memory>>

\* A call of the Developer that needs no consent; it may write a file.
DevelopFreely(w) ==
  /\ at[w] = "develop"
  /\ steps[w] > 0
  /\ steps' = [steps EXCEPT ![w] = @ - 1]
  /\ touched' \in {touched, touched \cup {w}}
  /\ Push(w, "develop")
  /\ UNCHANGED <<turn, bridgeOf, memory, consents, vars>>

\* One that does goes through the bridge ...
DevelopAsk(w) ==
  /\ at[w] = "develop"
  /\ steps[w] > 0
  /\ steps' = [steps EXCEPT ![w] = @ - 1]
  /\ Ask(w, bridgeOf[w])
  /\ GoTo(w, "action")
  /\ UNCHANGED <<turn, back, bridgeOf, touched, memory, consents>>

\* ... and is carried out when approved.
ActionAnswered(w) ==
  /\ at[w] = "action"
  /\ Return(w)
  /\ Consent(w)
  /\ touched' \in IF Verdict(w) = "approved"
                  THEN {touched, touched \cup {w}} ELSE {touched}
  /\ Push(w, "develop")
  /\ UNCHANGED <<turn, bridgeOf, steps, memory>>

\* The Developer is done, or out of budget; the tests run and are reported.
Developed(w) ==
  /\ at[w] = "develop"
  /\ Push(w, "tested")
  /\ UNCHANGED <<turn, bridgeOf, steps, touched, memory, consents, vars>>

\* The Reviewer sees what was written, if there is anything to diff.
Tested(w) ==
  /\ at[w] = "tested"
  /\ \/ w \in touched /\ Enter(w, "review")
     \/ GoTo(w, "finish") /\ UNCHANGED steps
  /\ UNCHANGED <<turn, back, bridgeOf, touched, memory, consents, vars>>

Reviewed(w) ==
  /\ at[w] = "review"
  /\ GoTo(w, "finish")
  /\ UNCHANGED <<turn, back, bridgeOf, steps, touched, memory, consents,
                 vars>>

\* Faulty variant of RoleRaises: the handler does not record the error.
RoleRaisesUnrecorded(w) ==
  /\ at[w] \in {"architect", "develop", "review"}
  /\ GoTo(w, "announce")
  /\ UNCHANGED <<turn, back, bridgeOf, steps, touched, memory, consents,
                 vars>>

\* The model, a tool or git raises inside a try block.
RoleRaises(w) ==
  /\ at[w] \in {"architect", "develop", "review"}
  /\ GoTo(w, "failed")
  /\ UNCHANGED <<turn, back, bridgeOf, steps, touched, memory, consents,
                 vars>>

\* mark_done and mark_error, under the lock of the registry.
Mark(w) ==
  /\ at[w] \in {"finish", "failed"}
  /\ turn' = [turn EXCEPT ![w] =
                IF at[w] = "finish"
                THEN [status |-> "done", result |-> TRUE, error |-> FALSE]
                ELSE [status |-> "error", result |-> FALSE, error |-> TRUE]]
  /\ GoTo(w, "announce")
  /\ UNCHANGED <<back, bridgeOf, steps, touched, memory, consents, vars>>

\* The finally clause: turn_complete is pushed, the database closed.
Announce(w) ==
  /\ at[w] = "announce"
  /\ Push(w, "close")
  /\ UNCHANGED <<turn, bridgeOf, steps, touched, memory, consents, vars>>

CloseMemory(w) ==
  /\ at[w] = "close"
  /\ memory' = memory \ {w}
  /\ GoTo(w, "ended")
  /\ UNCHANGED <<turn, back, bridgeOf, steps, touched, consents, vars>>

-----------------------------------------------------------------------------

Thread(w) ==
  \/ CreateRead(w) \/ OpenMemory(w) \/ RoleStep(w) \/ PushCheck(w)
  \/ PushUse(w) \/ PlanReady(w) \/ Propose(w) \/ PlanAnswered(w)
  \/ DevelopFreely(w) \/ DevelopAsk(w) \/ ActionAnswered(w) \/ Developed(w)
  \/ Tested(w) \/ Reviewed(w) \/ RoleRaises(w) \/ Mark(w)
  \/ Announce(w) \/ CloseMemory(w)
  \/ (Post(w) \/ Wake(w) \/ Expire(w)) /\ UNCHANGED turnVars

Server == \/ EventLoop /\ UNCHANGED turnVars
          \/ \E w \in Workers : CreateCheck(w)

TurnNext == \/ \E w \in Workers : Thread(w)
            \/ Server
            \/ Browser /\ UNCHANGED turnVars

TurnSpec == TurnInit /\ [][TurnNext]_allVars

\* Threads run, the event loop runs, waits expire; the user may never answer.
TurnFairSpec == /\ TurnSpec
                /\ \A w \in Workers : WF_allVars(Thread(w))

-----------------------------------------------------------------------------
(* Properties *)

\* Whatever replies, timeouts and connections cross: what a thread carried
\* out with consent, plan or action, has the user's yes to that very request.
ConsentIsReal == \A r \in consents : said[r] = "yes" /\ r \notin expired

\* A thread that reached its end told the truth: it left a settled turn with
\* its result or its error, unless it never had a bridge to ask on.
EndedIsSettled ==
  \A w \in Workers :
    at[w] = "ended" =>
      \/ turn[w].status = "done" /\ turn[w].result
      \/ turn[w].status = "error" /\ turn[w].error
      \/ turn[w].status = "running" /\ bridgeOf[w] = NoConn

\* Every turn's thread ends, whether or not the user answers.
EveryTurnEnds ==
  \A w \in Workers : at[w] = "checked" ~> at[w] \in {"ended", "dead"}

=============================================================================
