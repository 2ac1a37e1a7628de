-------------------------- MODULE ServerTurnsProofs --------------------------
(***************************************************************************)
(* Proofs about ServerTurns, for any connections, turns, number of         *)
(* requests and budget of tool calls: a turn uses the bridge as            *)
(* ConfirmationBridge says it is used, so that what is proved of the       *)
(* bridge holds under the turns; what a thread carries out with consent    *)
(* has the user's yes; and a thread that ends leaves a settled turn.       *)
(***************************************************************************)
EXTENDS ServerTurns, ConfirmationBridgeProofs

-----------------------------------------------------------------------------
(* The inductive invariant *)

\* Where a thread is, or where it goes on after the message it is pushing.
Where(w) == IF at[w] \in {"push", "pushing"} THEN back[w] ELSE at[w]

Working == {"architect", "propose", "plan", "develop", "action", "tested",
            "review"}
Asking == {"plan", "develop", "action", "tested", "review"}
Over == {"announce", "close", "ended"}
TurnLabels == {"none", "checked", "opening", "push", "pushing", "finish",
               "failed", "dead"} \cup Working \cup Over

TurnState == [status : {"none", "pending", "running", "done", "error"},
              result : BOOLEAN, error : BOOLEAN]

TurnTypeOK ==
  /\ turn \in [Workers -> TurnState]
  /\ at \in [Workers -> TurnLabels]
  /\ back \in [Workers -> TurnLabels]
  /\ bridgeOf \in [Workers -> Conns \cup {NoConn}]
  /\ steps \in [Workers -> 0..MaxSteps]
  /\ touched \subseteq Workers
  /\ memory \subseteq Workers
  /\ consents \subseteq Requests

Told(t, c) == \/ t.status = "done" /\ t.result
              \/ t.status = "error" /\ t.error
              \/ t.status = "running" /\ c = NoConn

\* A turn runs for as long as its thread works, has a bridge from its plan on,
\* and is settled before its end is announced.
Stands(label, t, c) == /\ label \in Working => t.status = "running"
                       /\ label \in Asking => c # NoConn
                       /\ label \in Over => Told(t, c)

\* A push never goes on to another push.
Pushes == \A w \in Workers : at[w] \in {"push", "pushing"} =>
            back[w] \in {"architect", "develop", "review", "tested", "close"}

TurnInv ==
  /\ DeclineInv
  /\ TurnTypeOK
  /\ Pushes
  /\ \A w \in Workers : Stands(Where(w), turn[w], bridgeOf[w])
  /\ \A w \in Workers : bridgeOf[w] # NoConn => sock[bridgeOf[w]] # "new"
  /\ \A r \in consents : outcome[r] = "approved"

-----------------------------------------------------------------------------
(* Every step of a turn is a step of the bridge, or none of it *)

\* A turn asks on a bridge that exists: the plan only when it has one, a
\* change only after the plan.
LEMMA AsksOnBridge ==
  ASSUME TurnInv, NEW w \in Workers, Thread(w)
  PROVE  [Next]_vars
<1>1. ASSUME bridgeOf[w] # NoConn, Ask(w, bridgeOf[w]) PROVE Next
  <2>1. bridgeOf[w] \in Conns /\ sock[bridgeOf[w]] # "new"
    BY <1>1 DEF TurnInv, TurnTypeOK
  <2> QED
    BY <1>1, <2>1 DEF Next
<1>2. CASE Propose(w)
  BY <1>1, <1>2 DEF Propose
<1>3. CASE DevelopAsk(w)
  <2>1. bridgeOf[w] # NoConn
    BY <1>3 DEF DevelopAsk, TurnInv, Stands, Where, Asking
  <2> QED
    BY <1>1, <1>3, <2>1 DEF DevelopAsk
<1>4. CASE PlanAnswered(w) \/ ActionAnswered(w)
  BY <1>4 DEF PlanAnswered, ActionAnswered, Call, Next
<1>5. CASE Post(w) \/ Wake(w) \/ Expire(w)
  BY <1>5 DEF Call, Next
<1>6. CASE \/ CreateRead(w) \/ OpenMemory(w) \/ RoleStep(w) \/ PushCheck(w)
           \/ PushUse(w) \/ PlanReady(w) \/ DevelopFreely(w) \/ Developed(w)
           \/ Tested(w) \/ Reviewed(w) \/ RoleRaises(w) \/ Mark(w)
           \/ Announce(w) \/ CloseMemory(w)
  BY <1>6 DEF CreateRead, OpenMemory, RoleStep, PushCheck, PushUse, PlanReady,
              DevelopFreely, Developed, Tested, Reviewed, RoleRaises, Mark,
              Announce, CloseMemory
<1> QED
  BY <1>2, <1>3, <1>4, <1>5, <1>6 DEF Thread

LEMMA TurnStepIsBridgeStep ==
  ASSUME TurnInv, [TurnNext]_allVars
  PROVE  [Next]_vars
<1>1. CASE \E w \in Workers : Thread(w)
  BY <1>1, AsksOnBridge
<1>2. CASE Server
  BY <1>2 DEF Server, CreateCheck, Next
<1>3. CASE Browser
  BY <1>3 DEF Next
<1>4. CASE UNCHANGED allVars
  BY <1>4 DEF allVars
<1> QED
  BY <1>1, <1>2, <1>3, <1>4 DEF TurnNext

\* What the bridge keeps and the turns rely on: a socket is never new again,
\* and an approval is never taken back.
LEMMA BridgeOnly ==
  ASSUME BridgeInv, [Next]_vars
  PROVE  /\ \A c \in Conns : sock[c] # "new" => sock'[c] # "new"
         /\ \A r \in Requests :
              outcome[r] = "approved" => outcome'[r] = "approved"
<1> USE DEF BridgeInv
<1>1. \A c \in Conns : sock[c] # "new" => sock'[c] # "new"
  <2>1. ASSUME NEW c \in Conns,
               \/ sock' = sock
               \/ \E x \in {"open", "left", "closed"}, d \in Conns :
                    sock' = [sock EXCEPT ![d] = x]
        PROVE  sock[c] # "new" => sock'[c] # "new"
    BY <2>1 DEF TypeOK
  <2>2. \/ sock' = sock
        \/ \E x \in {"open", "left", "closed"}, d \in Conns :
             sock' = [sock EXCEPT ![d] = x]
    BY DEF Next, Call, Post, Wake, Expire, Return, Ask, EventLoop, Browser,
           ResolveSettle, Abandon, Forget, Connect, Resolve, Disconnect,
           Deliver, Leave, Reply, connVars, vars
  <2> QED
    BY <2>1, <2>2
<1>2. ASSUME NEW r \in Requests, outcome[r] = "approved"
      PROVE  outcome'[r] = "approved"
  <2>1. ASSUME NEW w \in Workers, Return(w) PROVE outcome'[r] = "approved"
    <3>1. InCall(w) /\ outcome[call[w].req] = "open"
      BY <2>1 DEF Return, InCall, Calls
    <3> QED
      BY <1>2, <2>1, <3>1 DEF Return, TypeOK
  <2>2. ASSUME NEW w \in Workers, NEW c \in Conns, Ask(w, c)
        PROVE  outcome'[r] = "approved"
    <3>1. asked' \in Requests /\ asked' > asked
      BY <2>2, RequestIds, BridgeAssumption DEF Ask, TypeOK
    <3>2. outcome[asked'] = "new"
      BY <3>1 DEF Fresh
    <3> QED
      BY <1>2, <2>2, <3>1, <3>2 DEF Ask, TypeOK
  <2>3. CASE UNCHANGED outcome
    BY <1>2, <2>3
  <2>4. \/ \E w \in Workers : Return(w)
        \/ \E w \in Workers, c \in Conns : Ask(w, c)
        \/ UNCHANGED outcome
    BY DEF Next, Call, Post, Wake, Expire, EventLoop, Browser,
           ResolveSettle, Settle, Abandon, Forget, Connect, Resolve,
           Disconnect, Deliver, Leave, Reply, bridgeVars, vars
  <2> QED
    BY <2>1, <2>2, <2>3, <2>4
<1> QED
  BY <1>1, <1>2

-----------------------------------------------------------------------------
(* The turns keep their part of the invariant *)

LEMMA TurnTypes ==
  ASSUME TurnInv, [TurnNext]_allVars
  PROVE  TurnTypeOK'
<1> USE DEF TurnInv
<1> DEFINE Budget == 0..MaxSteps
<1>1. /\ MaxSteps \in Budget
      /\ \A k \in Budget : k > 0 => k - 1 \in Budget
  BY StepsAssumption
<1>2. steps \in [Workers -> Budget]
  BY DEF TurnTypeOK
<1> HIDE DEF Budget
<1>3. CASE UNCHANGED turnVars
  BY <1>3 DEF TurnTypeOK, turnVars
<1> SUFFICES ASSUME NEW w \in Workers, Thread(w) \/ CreateCheck(w),
                    ~UNCHANGED turnVars
             PROVE  TurnTypeOK'
  BY <1>3 DEF TurnNext, Server, allVars
<1> USE DEF Thread, CreateCheck, CreateRead, OpenMemory, RoleStep, PushCheck,
            PushUse, Caught, PlanReady, Propose, PlanAnswered, DevelopFreely,
            DevelopAsk, ActionAnswered, Developed, Tested, Reviewed,
            RoleRaises, Mark, Announce, CloseMemory
<1>4. \E l \in TurnLabels : at' = [at EXCEPT ![w] = l]
  <2>1. back[w] \in TurnLabels
    BY DEF TurnTypeOK
  <2> QED
    BY <2>1 DEF GoTo, Push, Enter, TurnLabels, Working, Over
<1>5. back' = back \/ \E l \in TurnLabels : back' = [back EXCEPT ![w] = l]
  BY DEF GoTo, Push, TurnLabels, Working, Over
<1>6. \/ turn' = turn
      \/ turn' = [turn EXCEPT ![w].status = "pending"]
      \/ turn' = [turn EXCEPT ![w].status = "running"]
      \/ turn' = [turn EXCEPT ![w] = [status |-> "done", result |-> TRUE,
                                      error |-> FALSE]]
      \/ turn' = [turn EXCEPT ![w] = [status |-> "error", result |-> FALSE,
                                      error |-> TRUE]]
  OBVIOUS
<1>7. /\ bridgeOf' = bridgeOf \/ bridgeOf' = [bridgeOf EXCEPT ![w] = active]
      /\ \/ steps' = steps
         \/ steps' = [steps EXCEPT ![w] = MaxSteps]
         \/ steps[w] > 0 /\ steps' = [steps EXCEPT ![w] = @ - 1]
      /\ \/ consents' = consents
         \/ Return(w) /\ consents' = consents \cup {call[w].req}
  BY DEF Enter, Consent
<1>8. touched' \subseteq Workers /\ memory' \subseteq Workers
  BY DEF TurnTypeOK
<1> HIDE DEF Thread, CreateCheck
<1>9. turn' \in [Workers -> TurnState]
  <2>1. turn \in [Workers -> TurnState] /\ turn[w] \in TurnState
    BY DEF TurnTypeOK
  <2>2. /\ [turn[w] EXCEPT !.status = "pending"] \in TurnState
        /\ [turn[w] EXCEPT !.status = "running"] \in TurnState
    BY <2>1 DEF TurnState
  <2>3. /\ [status |-> "done", result |-> TRUE, error |-> FALSE] \in TurnState
        /\ [status |-> "error", result |-> FALSE, error |-> TRUE] \in TurnState
    BY DEF TurnState
  <2>4. \E t \in TurnState : turn' = turn \/ turn' = [turn EXCEPT ![w] = t]
    BY <1>6, <2>2, <2>3, <2>1
  <2> QED
    BY <2>1, <2>4
<1>10. bridgeOf' \in [Workers -> Conns \cup {NoConn}]
  BY <1>7 DEF TurnTypeOK, DeclineInv, BridgeInv, TypeOK
<1>11. steps' \in [Workers -> Budget]
  BY <1>1, <1>2, <1>7
<1>12. consents' \subseteq Requests
  <2>1. Return(w) => call[w].req \in Requests
    BY DEF Return, InCall, DeclineInv, BridgeInv, TypeOK, Calls
  <2> QED
    BY <1>7, <2>1 DEF TurnTypeOK
<1>13. at' \in [Workers -> TurnLabels] /\ back' \in [Workers -> TurnLabels]
  BY <1>4, <1>5 DEF TurnTypeOK
<1> QED
  BY <1>8, <1>9, <1>10, <1>11, <1>12, <1>13 DEF TurnTypeOK, Budget

\* A step concerns one turn, which it leaves where the invariant wants it.
LEMMA TurnStands ==
  ASSUME TurnInv, [TurnNext]_allVars
  PROVE  /\ Pushes'
         /\ \A w \in Workers : Stands(Where(w), turn[w], bridgeOf[w])'
<1> USE DEF TurnInv, TurnTypeOK, TurnState
<1> DEFINE Good(w) == /\ at'[w] \in {"push", "pushing"} =>
                           back'[w] \in {"architect", "develop", "review",
                                         "tested", "close"}
                      /\ Stands(IF at'[w] \in {"push", "pushing"}
                                THEN back'[w] ELSE at'[w],
                                turn'[w], bridgeOf'[w])
<1>1. ASSUME NEW w \in Workers, Good(w),
             \A v \in Workers \ {w} : /\ at'[v] = at[v] /\ back'[v] = back[v]
                                      /\ turn'[v] = turn[v]
                                      /\ bridgeOf'[v] = bridgeOf[v]
      PROVE  /\ Pushes'
             /\ \A v \in Workers : Stands(Where(v), turn[v], bridgeOf[v])'
  BY <1>1 DEF Pushes, Where
<1> HIDE DEF Good
<1>2. ASSUME NEW w \in Workers, Thread(w) \/ CreateCheck(w)
      PROVE  \A v \in Workers \ {w} : /\ at'[v] = at[v] /\ back'[v] = back[v]
                                      /\ turn'[v] = turn[v]
                                      /\ bridgeOf'[v] = bridgeOf[v]
  BY <1>2 DEF Thread, CreateCheck, CreateRead, OpenMemory, RoleStep, PushCheck,
              PushUse, Caught, PlanReady, Propose, PlanAnswered, DevelopFreely,
              DevelopAsk, ActionAnswered, Developed, Tested, Reviewed,
              RoleRaises, Mark, Announce, CloseMemory, GoTo, Push, Enter,
              turnVars
<1>3. ASSUME NEW w \in Workers,
             \/ CreateCheck(w) \/ CreateRead(w) \/ OpenMemory(w)
             \/ PlanReady(w) \/ Propose(w) \/ PlanAnswered(w) \/ DevelopAsk(w)
             \/ Tested(w) \/ Reviewed(w) \/ RoleRaises(w)
      PROVE  Good(w)
  <2>1. Stands(Where(w), turn[w], bridgeOf[w])
    OBVIOUS
  <2> QED
    BY <1>3, <2>1 DEF Good, CreateCheck, CreateRead, OpenMemory, PlanReady,
                      Propose, PlanAnswered, DevelopAsk, Tested, Reviewed,
                      RoleRaises, GoTo, Enter, Where, Stands, Working, Asking,
                      Over, Told
<1>4. ASSUME NEW w \in Workers,
             \/ RoleStep(w) \/ PushCheck(w) \/ PushUse(w) \/ DevelopFreely(w)
             \/ ActionAnswered(w) \/ Developed(w) \/ Announce(w)
             \/ CloseMemory(w)
      PROVE  Good(w)
  <2>1. Stands(Where(w), turn[w], bridgeOf[w])
    OBVIOUS
  <2> QED
    BY <1>4, <2>1 DEF Good, Pushes, RoleStep, PushCheck, PushUse, Caught,
                      DevelopFreely, ActionAnswered, Developed, Announce,
                      CloseMemory, GoTo, Push, Where, Stands, Working, Asking,
                      Over, Told
<1>5. ASSUME NEW w \in Workers, Mark(w) PROVE Good(w)
  BY <1>5 DEF Good, Mark, GoTo, Where, Stands, Working, Asking, Over, Told
<1>6. ASSUME UNCHANGED turnVars
      PROVE  /\ Pushes'
             /\ \A v \in Workers : Stands(Where(v), turn[v], bridgeOf[v])'
  BY <1>6 DEF Pushes, Where, turnVars
<1> QED
  BY <1>1, <1>2, <1>3, <1>4, <1>5, <1>6
     DEF TurnNext, Thread, Server, allVars

LEMMA TurnKept == TurnInv /\ [TurnNext]_allVars => TurnInv'
<1> SUFFICES ASSUME TurnInv, [TurnNext]_allVars PROVE TurnInv'
  OBVIOUS
<1>1. [Next]_vars
  BY TurnStepIsBridgeStep
<1>2. DeclineInv'
  BY <1>1, DeclineKept DEF TurnInv
<1>3. /\ \A c \in Conns : sock[c] # "new" => sock'[c] # "new"
      /\ \A r \in Requests :
           outcome[r] = "approved" => outcome'[r] = "approved"
  BY <1>1, BridgeOnly DEF TurnInv, DeclineInv
<1>4. ASSUME NEW w \in Workers, bridgeOf'[w] # NoConn
      PROVE  sock'[bridgeOf'[w]] # "new"
  <2>1. \/ bridgeOf'[w] = bridgeOf[w]
        \/ bridgeOf'[w] = active
    BY DEF TurnInv, TurnTypeOK, TurnNext, Thread, Server, CreateCheck,
           CreateRead, OpenMemory, RoleStep, PushCheck, PushUse, PlanReady,
           Propose, PlanAnswered, DevelopFreely, DevelopAsk, ActionAnswered,
           Developed, Tested, Reviewed, RoleRaises, Mark, Announce,
           CloseMemory, turnVars, allVars
  <2>2. /\ active \in Conns \cup {NoConn}
        /\ active # NoConn => sock[active] # "new"
    BY DEF TurnInv, DeclineInv, Ending, BridgeInv, TypeOK
  <2>3. /\ bridgeOf[w] \in Conns \cup {NoConn}
        /\ bridgeOf[w] # NoConn => sock[bridgeOf[w]] # "new"
    BY DEF TurnInv, TurnTypeOK
  <2> QED
    BY <1>3, <1>4, <2>1, <2>2, <2>3
<1>5. ASSUME NEW r \in consents' PROVE outcome'[r] = "approved"
  <2>1. CASE r \in consents
    BY <1>3, <2>1 DEF TurnInv, TurnTypeOK
  <2>2. CASE r \notin consents
    <3>1. PICK w \in Workers : /\ Return(w) /\ Verdict(w) = "approved"
                               /\ r = call[w].req
      BY <1>5, <2>2 DEF TurnNext, Thread, Server, CreateCheck, CreateRead,
           OpenMemory, RoleStep, PushCheck, PushUse, PlanReady, Propose,
           PlanAnswered, DevelopFreely, DevelopAsk, ActionAnswered, Developed,
           Tested, Reviewed, RoleRaises, Mark, Announce, CloseMemory, Consent,
           turnVars, allVars
    <3>2. r \in Requests
      BY <3>1 DEF TurnInv, DeclineInv, BridgeInv, Return, InCall, TypeOK,
                  Calls
    <3> QED
      BY <3>1, <3>2 DEF Return, TurnInv, DeclineInv, BridgeInv, TypeOK
  <2> QED
    BY <2>1, <2>2
<1> QED
  BY <1>2, <1>4, <1>5, TurnTypes, TurnStands DEF TurnInv

LEMMA TurnInitially == TurnInit => TurnInv
<1> SUFFICES ASSUME TurnInit PROVE TurnInv
  OBVIOUS
<1>1. DeclineInv
  BY DeclineInitially DEF TurnInit
<1>2. TurnTypeOK
  BY StepsAssumption DEF TurnInit, TurnTypeOK, TurnState, NoTurn, TurnLabels
<1> QED
  BY <1>1, <1>2 DEF TurnInit, TurnInv, Pushes, Stands, Where, Working, Asking,
                    Over

LEMMA TurnAlways == TurnSpec => []TurnInv
  BY TurnInitially, TurnKept, PTL DEF TurnSpec

\* The turns are the workers ConfirmationBridge speaks of: whatever handlers
\* and threads do, the bridge only ever takes a step of its own specification,
\* so that what is proved of it holds for the server.
THEOREM TurnsUseBridge == TurnSpec => Spec
<1>1. TurnInit => Init
  BY DEF TurnInit
<1>2. TurnInv /\ [TurnNext]_allVars => [Next]_vars
  BY TurnStepIsBridgeStep
<1> QED
  BY <1>1, <1>2, TurnAlways, PTL DEF TurnSpec, Spec

\* What a thread does with consent, a plan it carries out or a change it
\* makes, has the user's yes to that request, given before its wait was over.
THEOREM ConsentGiven == TurnSpec => []ConsentIsReal
<1>1. TurnInv => ConsentIsReal
  BY DEF TurnInv, TurnTypeOK, DeclineInv, BridgeInv, NoSilentApproval,
         ConsentIsReal
<1> QED
  BY <1>1, TurnAlways, PTL

\* A turn whose thread has ended says how: its result, its error, or that it
\* never had a bridge to ask on.
THEOREM EndsSettled == TurnSpec => []EndedIsSettled
<1>1. TurnInv => EndedIsSettled
  BY DEF TurnInv, Stands, Where, Over, Told, EndedIsSettled
<1> QED
  BY <1>1, TurnAlways, PTL

==============================================================================
