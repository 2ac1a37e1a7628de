------------------------- MODULE ConfirmationBridge -------------------------
(***************************************************************************)
(* How a worker thread asks the user before it acts: ConnectionManager,    *)
(* one ConfirmationBridge per WebSocket, the endpoint of the socket        *)
(* (src/skytrap/server/ws/) and the browser's end of it                    *)
(* (frontend/src/ws/useTurnSocket.ts).                                     *)
(*                                                                         *)
(* A connection and its bridge are one value.  The event loop is a single  *)
(* thread: what it does without await is a sequence of steps during which  *)
(* no other of its handlers runs, but every worker thread may.             *)
(***************************************************************************)
EXTENDS Naturals, FiniteSets

CONSTANTS Conns,       \* connections, each opened at most once
          NoConn,      \* None
          Workers,     \* worker threads
          MaxRequests  \* bound: confirmations requested

ASSUME BridgeAssumption == NoConn \notin Conns /\ MaxRequests \in Nat

Requests == 1..MaxRequests  \* request ids are fresh, so they are numbered

VARIABLES
  active,   \* ConnectionManager.bridge (with _send_to_client and _loop)
  sock,     \* each WebSocket: "new", "open", "left" by the client, "closed"
  pending,  \* _pending of each bridge
  answer,   \* PendingConfirmation.answer
  event,    \* the PendingConfirmations whose event is set
  posted,   \* confirm_request messages scheduled on the event loop
  shown,    \* the browser's pendingConfirm, 0 for none
  replies,  \* confirm_response messages under way to the endpoint
  busy,     \* what the event loop thread is in the middle of
  call,     \* the call of request() each worker is in
  asked,    \* request ids handed out
  newest,   \* history: the connection accepted last
  outcome,  \* history: what request() returned
  said,     \* history: the user's answer to each request
  expired   \* history: requests whose wait timed out

connVars == <<active, sock, newest>>
userVars == <<posted, shown, replies, said>>
bridgeVars == <<pending, answer, event, call, asked, outcome, expired>>
vars == <<connVars, userVars, bridgeVars, busy>>

Idle == [do |-> "nothing", conn |-> NoConn, todo |-> {}]
NoCall == [at |-> "none", req |-> 0, conn |-> NoConn]

Init == /\ active = NoConn
        /\ sock = [c \in Conns |-> "new"]
        /\ pending = [c \in Conns |-> {}]
        /\ answer = [r \in Requests |-> "none"]
        /\ event = {}
        /\ posted = {}
        /\ shown = [c \in Conns |-> 0]
        /\ replies = [c \in Conns |-> {}]
        /\ busy = Idle
        /\ call = [w \in Workers |-> NoCall]
        /\ asked = 0
        /\ newest = NoConn
        /\ outcome = [r \in Requests |-> "new"]
        /\ said = [r \in Requests |-> "nothing"]
        /\ expired = {}

-----------------------------------------------------------------------------
(* request(), on a worker thread *)

At(w, label) == call' = [call EXCEPT ![w].at = label]

\* A new request is registered under the lock of bridge c.
Ask(w, c) ==
  /\ call[w].at = "none"
  /\ asked < MaxRequests
  /\ asked' = asked + 1
  /\ pending' = [pending EXCEPT ![c] = @ \cup {asked'}]
  /\ call' = [call EXCEPT ![w] = [at |-> "registered", req |-> asked',
                                  conn |-> c]]
  /\ outcome' = [outcome EXCEPT ![asked'] = "open"]
  /\ UNCHANGED <<answer, event, expired, connVars, userVars, busy>>

\* run_coroutine_threadsafe, then event.wait, which returns at once when the
\* request has been abandoned in between.
Post(w) ==
  /\ call[w].at = "registered"
  /\ posted' = posted \cup {[req |-> call[w].req, conn |-> call[w].conn]}
  /\ At(w, IF call[w].req \in event THEN "woken" ELSE "waiting")
  /\ UNCHANGED <<shown, replies, said, pending, answer, event, asked, outcome,
                 expired, connVars, busy>>

Wake(w) == /\ call[w].at = "waiting"
           /\ call[w].req \in event
           /\ At(w, "woken")
           /\ UNCHANGED <<pending, answer, event, asked, outcome, expired,
                          connVars, userVars, busy>>

\* Faulty variant of Expire: event.wait() without a timeout.
NeverExpire(w) == FALSE

\* The wait can expire while the event is being set.
Expire(w) == /\ call[w].at = "waiting"
             /\ At(w, "expired")
             /\ expired' = expired \cup {call[w].req}
             /\ UNCHANGED <<pending, answer, event, asked, outcome, connVars,
                            userVars, busy>>

\* Faulty variants of Verdict: the answer counts even after the timeout; any
\* answer counts as a yes.
VerdictWhenever(w) == IF answer[call[w].req] = "yes" THEN "approved"
                                                     ELSE "declined"

VerdictOfEvent(w) == IF call[w].at = "woken" THEN "approved" ELSE "declined"

Verdict(w) == IF call[w].at = "woken" /\ answer[call[w].req] = "yes"
              THEN "approved" ELSE "declined"

\* The request leaves the table and the call returns.
Return(w) ==
  /\ call[w].at \in {"woken", "expired"}
  /\ pending' = [pending EXCEPT ![call[w].conn] = @ \ {call[w].req}]
  /\ outcome' = [outcome EXCEPT ![call[w].req] = Verdict(w)]
  /\ call' = [call EXCEPT ![w] = NoCall]
  /\ UNCHANGED <<answer, event, asked, expired, connVars, userVars, busy>>

-----------------------------------------------------------------------------
(* The event loop *)

\* ws_endpoint accepts the socket; connect() replaces the active connection.
Connect(c) ==
  /\ busy = Idle
  /\ sock[c] = "new"
  /\ sock' = [sock EXCEPT ![c] = "open"]
  /\ active' = c
  /\ newest' = c
  /\ UNCHANGED <<userVars, bridgeVars, busy>>

\* A scheduled message is sent; on a socket the client has left it is lost.
\* The browser shows the request it received last.
Deliver(m) ==
  /\ busy = Idle
  /\ m \in posted
  /\ posted' = posted \ {m}
  /\ shown' = IF sock[m.conn] = "open" THEN [shown EXCEPT ![m.conn] = m.req]
                                       ELSE shown
  /\ UNCHANGED <<replies, said, connVars, bridgeVars, busy>>

\* Faulty variant of Resolve: the reply is given to some pending request.
ResolveAnyPending(c) ==
  /\ busy = Idle
  /\ sock[c] \in {"open", "left"}
  /\ \E m \in replies[c] :
       /\ replies' = [replies EXCEPT ![c] = @ \ {m}]
       /\ IF pending[c] = {} THEN UNCHANGED busy
          ELSE \E r \in pending[c] :
                 busy' = [do |-> m.answer, conn |-> c, todo |-> {r}]
  /\ UNCHANGED <<posted, shown, said, connVars, bridgeVars>>

\* resolve() looks the request up under the lock.  The entry it found is used
\* after the lock is gone.
Resolve(c) ==
  /\ busy = Idle
  /\ sock[c] \in {"open", "left"}
  /\ \E m \in replies[c] :
       /\ replies' = [replies EXCEPT ![c] = @ \ {m}]
       /\ busy' = IF m.req \in pending[c]
                  THEN [do |-> m.answer, conn |-> c, todo |-> {m.req}]
                  ELSE Idle
  /\ UNCHANGED <<posted, shown, said, connVars, bridgeVars>>

\* The entry's answer, then its event: nobody reads one before the other.
Settle(r, a) == /\ answer' = [answer EXCEPT ![r] = a]
                /\ event' = event \cup {r}
                /\ UNCHANGED <<pending, call, asked, outcome, expired>>

ResolveSettle ==
  /\ busy.do \in {"yes", "no"}
  /\ \E r \in busy.todo : Settle(r, busy.do)
  /\ busy' = Idle
  /\ UNCHANGED <<connVars, userVars>>

\* Faulty variant of IsActive: a stale disconnect is taken for the active one.
AnyIsActive(c) == active # NoConn

IsActive(c) == active = c

\* The endpoint leaves its loop.  Only the active connection is abandoned:
\* abandon_all() takes its entries under the lock ...
Disconnect(c) ==
  /\ busy = Idle
  /\ sock[c] = "left"
  /\ replies[c] = {}
  /\ sock' = [sock EXCEPT ![c] = "closed"]
  /\ busy' = IF IsActive(c)
             THEN [do |-> "abandon", conn |-> c, todo |-> pending[c]]
             ELSE Idle
  /\ UNCHANGED <<active, newest, userVars, bridgeVars>>

\* ... and declines them one after the other ...
Abandon == /\ busy.do = "abandon"
           /\ \E r \in busy.todo :
                /\ Settle(r, "no")
                /\ busy' = [busy EXCEPT !.todo = @ \ {r}]
           /\ UNCHANGED <<connVars, userVars>>

\* ... before the manager forgets the connection.
Forget == /\ busy.do = "abandon"
          /\ busy.todo = {}
          /\ active' = NoConn
          /\ busy' = Idle
          /\ UNCHANGED <<sock, newest, userVars, bridgeVars>>

-----------------------------------------------------------------------------
(* The browser *)

\* Faulty variant of Reply: an answer with no dialogue on screen.
ReplyAnyway(c, a) ==
  /\ sock[c] = "open"
  /\ replies' = [replies EXCEPT ![c] = @ \cup {[req |-> shown[c],
                                                answer |-> a]}]
  /\ shown' = [shown EXCEPT ![c] = 0]
  /\ UNCHANGED <<posted, said, connVars, bridgeVars, busy>>

\* respondToConfirm: one answer, and the dialogue is gone.
Reply(c, a) ==
  /\ sock[c] = "open"
  /\ shown[c] # 0
  /\ replies' = [replies EXCEPT ![c] = @ \cup {[req |-> shown[c],
                                                answer |-> a]}]
  /\ said' = [said EXCEPT ![shown[c]] = a]
  /\ shown' = [shown EXCEPT ![c] = 0]
  /\ UNCHANGED <<posted, connVars, bridgeVars, busy>>

\* The client closes the socket or is lost, and with it any reply under way.
Leave(c) ==
  /\ sock[c] = "open"
  /\ sock' = [sock EXCEPT ![c] = "left"]
  /\ \E kept \in SUBSET replies[c] : replies' = [replies EXCEPT ![c] = kept]
  /\ UNCHANGED <<active, newest, posted, shown, said, bridgeVars, busy>>

-----------------------------------------------------------------------------

Call(w) == Post(w) \/ Wake(w) \/ Expire(w) \/ Return(w)

EventLoop == \/ ResolveSettle \/ Abandon \/ Forget
             \/ \E c \in Conns : Connect(c) \/ Resolve(c) \/ Disconnect(c)
             \/ \E m \in posted : Deliver(m)

Browser == \E c \in Conns : Leave(c) \/ \E a \in {"yes", "no"} : Reply(c, a)

\* A worker uses the bridge of any connection accepted so far: it captured it
\* when its turn was created.
Next == \/ \E w \in Workers : Call(w)
        \/ \E w \in Workers, c \in Conns : sock[c] # "new" /\ Ask(w, c)
        \/ EventLoop \/ Browser

Spec == Init /\ [][Next]_vars

\* Threads run and timers expire; nothing is asked of the user.
FairSpec == Spec /\ \A w \in Workers : WF_vars(Call(w))

-----------------------------------------------------------------------------
(* Properties *)

Labels == {"none", "registered", "waiting", "woken", "expired"}

TypeOK ==
  /\ active \in Conns \cup {NoConn}
  /\ newest \in Conns \cup {NoConn}
  /\ sock \in [Conns -> {"new", "open", "left", "closed"}]
  /\ pending \in [Conns -> SUBSET Requests]
  /\ answer \in [Requests -> {"none", "yes", "no"}]
  /\ event \subseteq Requests
  /\ posted \subseteq [req : Requests, conn : Conns]
  /\ shown \in [Conns -> Requests \cup {0}]
  /\ replies \in [Conns -> SUBSET [req : Requests, answer : {"yes", "no"}]]
  /\ busy \in [do : {"nothing", "yes", "no", "abandon"},
               conn : Conns \cup {NoConn}, todo : SUBSET Requests]
  /\ call \in [Workers -> [at : Labels, req : Requests \cup {0},
                           conn : Conns \cup {NoConn}]]
  /\ asked \in 0..MaxRequests
  /\ outcome \in [Requests -> {"new", "open", "approved", "declined"}]
  /\ said \in [Requests -> {"nothing", "yes", "no"}]
  /\ expired \subseteq Requests

\* request() approves only what the user said yes to, and never after it has
\* stopped waiting, however late the reply and the timeout race.
NoSilentApproval ==
  \A r \in Requests :
    outcome[r] = "approved" => said[r] = "yes" /\ r \notin expired

\* While the connection of a request is up, nothing but the user's own no and
\* the timeout declines it: not the end of another connection, not a reply to
\* another request.
OnlyUserDeclines ==
  [][\A w \in Workers :
       LET r == call[w].req
       IN  /\ call[w].at = "woken" /\ call'[w].at = "none"
           /\ outcome'[r] = "declined"
           /\ sock[call[w].conn] = "open"
           => said[r] = "no"]_vars

\* "A stale disconnect from a superseded connection must not wipe out a newer,
\* still-active one": the connection accepted last is the active one for as
\* long as its endpoint runs.
NewestIsActive ==
  newest # NoConn /\ sock[newest] \in {"open", "left"} => active = newest

\* The bridge seen as an ApprovalGate: the outcomes of request(), and what the
\* user said yes to.
Gate == INSTANCE ApprovalGate WITH
          yes <- {r \in Requests : said[r] = "yes"}

\* request() is a gate: one decision per request, approval only on a yes.
BridgeIsGate == Gate!Spec

\* A request always returns, whatever becomes of its connection.
EveryRequestReturns ==
  \A w \in Workers : call[w].at # "none" ~> call[w].at = "none"

=============================================================================
