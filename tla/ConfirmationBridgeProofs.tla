---------------------- MODULE ConfirmationBridgeProofs ----------------------
(***************************************************************************)
(* Proofs about ConfirmationBridge, for any connections, workers and       *)
(* number of requests: type correctness, that no request is approved       *)
(* without the user's yes nor declined behind the user's back, that a      *)
(* superseded connection leaves the newer one alone, and that the bridge   *)
(* implements ApprovalGate.                                                *)
(***************************************************************************)
EXTENDS ConfirmationBridge, TLAPS

-----------------------------------------------------------------------------
(* The inductive invariant *)

InCall(w) == call[w].at # "none"
Registered(r) == \E w \in Workers : call[w].at = "registered"
                                    /\ call[w].req = r

\* A call of request() is about one request, which it alone decides, and whose
\* wait has not expired before the call says so.
Calls ==
  /\ \A w \in Workers : InCall(w) =>
       /\ call[w].req \in 1..asked
       /\ call[w].conn \in Conns
       /\ outcome[call[w].req] = "open"
       /\ call[w].at # "expired" => call[w].req \notin expired
  /\ \A v, w \in Workers :
       InCall(v) /\ InCall(w) /\ call[v].req = call[w].req => v = w

\* Ids not handed out are untouched; the others are no longer new.
Fresh ==
  /\ \A r \in Requests : r > asked =>
       outcome[r] = "new" /\ r \notin expired /\ said[r] = "nothing"
  /\ \A r \in Requests : r <= asked => outcome[r] # "new"

\* A request is to be posted, is under way to the browser, is shown by it or
\* has been answered: never two of these.
Place ==
  /\ \A r \in Requests : Registered(r) => said[r] = "nothing"
  /\ \A m \in posted : /\ m.req <= asked
                       /\ said[m.req] = "nothing"
                       /\ ~Registered(m.req)
  /\ \A m, n \in posted : m.req = n.req => m = n
  /\ \A c \in Conns : shown[c] # 0 =>
       /\ shown[c] <= asked
       /\ said[shown[c]] = "nothing"
       /\ ~Registered(shown[c])
       /\ \A m \in posted : m.req # shown[c]
  /\ \A c, d \in Conns : shown[c] # 0 /\ shown[c] = shown[d] => c = d

\* A yes on its way from the browser to the worker is the user's.
Word ==
  /\ \A c \in Conns : \A m \in replies[c] : said[m.req] = m.answer
  /\ busy.do = "yes" => \A r \in busy.todo : said[r] = "yes"
  /\ \A r \in Requests : answer[r] = "yes" => said[r] = "yes"

BridgeInv == TypeOK /\ Calls /\ Fresh /\ Place /\ Word /\ NoSilentApproval

LEMMA RequestIds == /\ Requests \subseteq Nat \ {0}
                    /\ \A r \in Requests : 1..r \subseteq Requests
                    /\ \A k \in 0..MaxRequests :
                         k < MaxRequests => k + 1 \in Requests
  BY BridgeAssumption DEF Requests

-----------------------------------------------------------------------------
(* Each part is kept by each step *)

LEMMA TypeInit == Init => TypeOK
<1> SUFFICES ASSUME Init PROVE TypeOK
  OBVIOUS
<1>1. 0 \in 0..MaxRequests
  BY BridgeAssumption
<1> QED
  BY <1>1 DEF Init, TypeOK, Idle, NoCall, Labels

\* The types of a step of request().
LEMMA TypeCall ==
  ASSUME TypeOK, Calls, NEW w \in Workers, Call(w)
  PROVE  TypeOK'
<1>1. InCall(w) => call[w].req \in Requests /\ call[w].conn \in Conns
  BY RequestIds DEF TypeOK, Calls, InCall, Requests
<1>2. CASE Post(w)
  <2>1. InCall(w)
    BY <1>2 DEF Post, InCall
  <2>2. posted' \subseteq [req : Requests, conn : Conns]
    BY <1>1, <1>2, <2>1 DEF TypeOK, Post
  <2>3. call' \in [Workers -> [at : Labels, req : Requests \cup {0},
                               conn : Conns \cup {NoConn}]]
    BY <1>2 DEF TypeOK, Post, At, Labels
  <2> QED
    BY <1>2, <2>2, <2>3 DEF TypeOK, Post, connVars
<1>3. CASE Wake(w)
  BY <1>3 DEF TypeOK, Wake, At, Labels, connVars, userVars
<1>4. CASE Expire(w)
  <2>1. expired' \subseteq Requests
    BY <1>1, <1>4 DEF TypeOK, Expire, InCall
  <2> QED
    BY <1>4, <2>1 DEF TypeOK, Expire, At, Labels, connVars, userVars
<1>5. CASE Return(w)
  <2>1. InCall(w)
    BY <1>5 DEF Return, InCall
  <2>2. pending' \in [Conns -> SUBSET Requests]
    BY <1>5 DEF TypeOK, Return
  <2>3. outcome' \in [Requests -> {"new", "open", "approved", "declined"}]
    BY <1>1, <1>5, <2>1 DEF TypeOK, Return, Verdict
  <2>4. call' \in [Workers -> [at : Labels, req : Requests \cup {0},
                               conn : Conns \cup {NoConn}]]
    BY <1>5 DEF TypeOK, Return, NoCall, Labels
  <2> QED
    BY <1>5, <2>2, <2>3, <2>4 DEF TypeOK, Return, connVars, userVars
<1> QED
  BY <1>2, <1>3, <1>4, <1>5 DEF Call

LEMMA TypeAsk ==
  ASSUME TypeOK, NEW w \in Workers, NEW c \in Conns, Ask(w, c)
  PROVE  TypeOK'
<1>1. asked' \in Requests /\ asked' \in 0..MaxRequests
  BY RequestIds, BridgeAssumption DEF TypeOK, Ask
<1>2. pending' \in [Conns -> SUBSET Requests]
  BY <1>1 DEF TypeOK, Ask
<1>3. call' \in [Workers -> [at : Labels, req : Requests \cup {0},
                             conn : Conns \cup {NoConn}]]
  BY <1>1 DEF TypeOK, Ask, Labels
<1>4. outcome' \in [Requests -> {"new", "open", "approved", "declined"}]
  BY <1>1 DEF TypeOK, Ask
<1> QED
  BY <1>1, <1>2, <1>3, <1>4 DEF TypeOK, Ask, connVars, userVars

LEMMA TypeEventLoop ==
  ASSUME TypeOK, EventLoop
  PROVE  TypeOK'
<1>1. ASSUME NEW c \in Conns, Connect(c) PROVE TypeOK'
  BY <1>1 DEF TypeOK, Connect, userVars, bridgeVars
<1>2. ASSUME NEW m \in posted, Deliver(m) PROVE TypeOK'
  <2>1. m.req \in Requests /\ m.conn \in Conns
    BY DEF TypeOK
  <2>2. shown' \in [Conns -> Requests \cup {0}]
    BY <1>2, <2>1 DEF TypeOK, Deliver
  <2> QED
    BY <1>2, <2>2 DEF TypeOK, Deliver, connVars, bridgeVars
<1>3. ASSUME NEW c \in Conns, Resolve(c) PROVE TypeOK'
  <2>1. PICK m \in replies[c] :
          /\ replies' = [replies EXCEPT ![c] = @ \ {m}]
          /\ busy' = IF m.req \in pending[c]
                     THEN [do |-> m.answer, conn |-> c, todo |-> {m.req}]
                     ELSE Idle
    BY <1>3 DEF Resolve
  <2>2. m \in [req : Requests, answer : {"yes", "no"}]
    BY DEF TypeOK
  <2>3. replies' \in [Conns -> SUBSET [req : Requests,
                                       answer : {"yes", "no"}]]
    BY <2>1 DEF TypeOK
  <2>4. busy' \in [do : {"nothing", "yes", "no", "abandon"},
                   conn : Conns \cup {NoConn}, todo : SUBSET Requests]
    BY <2>1, <2>2 DEF TypeOK, Idle
  <2> QED
    BY <1>3, <2>3, <2>4 DEF TypeOK, Resolve, connVars, bridgeVars
<1>4. ASSUME NEW c \in Conns, Disconnect(c) PROVE TypeOK'
  <2>1. busy' \in [do : {"nothing", "yes", "no", "abandon"},
                   conn : Conns \cup {NoConn}, todo : SUBSET Requests]
    BY <1>4 DEF TypeOK, Disconnect, Idle
  <2> QED
    BY <1>4, <2>1 DEF TypeOK, Disconnect, userVars, bridgeVars
<1>5. ASSUME NEW r \in busy.todo, NEW a \in {"yes", "no"}, Settle(r, a)
      PROVE  answer' \in [Requests -> {"none", "yes", "no"}]
             /\ event' \subseteq Requests
  BY <1>5 DEF TypeOK, Settle
<1>6. CASE ResolveSettle
  <2>1. busy.do \in {"yes", "no"} /\ \E r \in busy.todo : Settle(r, busy.do)
    BY <1>6 DEF ResolveSettle
  <2>2. /\ answer' \in [Requests -> {"none", "yes", "no"}]
        /\ event' \subseteq Requests
    BY <1>5, <2>1
  <2>3. busy' \in [do : {"nothing", "yes", "no", "abandon"},
                   conn : Conns \cup {NoConn}, todo : SUBSET Requests]
    BY <1>6 DEF ResolveSettle, Idle
  <2> QED
    BY <1>6, <2>1, <2>2, <2>3
       DEF TypeOK, ResolveSettle, Settle, connVars, userVars
<1>7. CASE Abandon
  <2>1. \E r \in busy.todo : Settle(r, "no")
    BY <1>7 DEF Abandon
  <2>2. /\ answer' \in [Requests -> {"none", "yes", "no"}]
        /\ event' \subseteq Requests
    BY <1>5, <2>1
  <2>3. busy' \in [do : {"nothing", "yes", "no", "abandon"},
                   conn : Conns \cup {NoConn}, todo : SUBSET Requests]
    BY <1>7 DEF TypeOK, Abandon
  <2> QED
    BY <1>7, <2>1, <2>2, <2>3
       DEF TypeOK, Abandon, Settle, connVars, userVars
<1>8. CASE Forget
  BY <1>8 DEF TypeOK, Forget, Idle, userVars, bridgeVars
<1> QED
  BY <1>1, <1>2, <1>3, <1>4, <1>6, <1>7, <1>8 DEF EventLoop

LEMMA TypeBrowser ==
  ASSUME TypeOK, Browser
  PROVE  TypeOK'
<1>1. ASSUME NEW c \in Conns, Leave(c) PROVE TypeOK'
  <2>1. PICK kept \in SUBSET replies[c] :
          replies' = [replies EXCEPT ![c] = kept]
    BY <1>1 DEF Leave
  <2>2. replies' \in [Conns -> SUBSET [req : Requests,
                                       answer : {"yes", "no"}]]
    BY <2>1 DEF TypeOK
  <2> QED
    BY <1>1, <2>2 DEF TypeOK, Leave, bridgeVars
<1>2. ASSUME NEW c \in Conns, NEW a \in {"yes", "no"}, Reply(c, a)
      PROVE  TypeOK'
  <2>1. shown[c] \in Requests
    BY <1>2 DEF TypeOK, Reply
  <2>2. replies' \in [Conns -> SUBSET [req : Requests,
                                       answer : {"yes", "no"}]]
    BY <1>2, <2>1 DEF TypeOK, Reply
  <2>3. said' \in [Requests -> {"nothing", "yes", "no"}]
    BY <1>2, <2>1 DEF TypeOK, Reply
  <2> QED
    BY <1>2, <2>2, <2>3 DEF TypeOK, Reply, connVars, bridgeVars
<1> QED
  BY <1>1, <1>2 DEF Browser

LEMMA TypeStep == ASSUME TypeOK, Calls, [Next]_vars PROVE TypeOK'
<1>1. CASE UNCHANGED vars
  BY <1>1 DEF TypeOK, vars, connVars, userVars, bridgeVars
<1> QED
  BY <1>1, TypeCall, TypeAsk, TypeEventLoop, TypeBrowser DEF Next

-----------------------------------------------------------------------------

LEMMA CallsStep ==
  ASSUME TypeOK, Calls, Fresh, [Next]_vars
  PROVE  Calls'
<1>1. ASSUME NEW w \in Workers, NEW c \in Conns, Ask(w, c) PROVE Calls'
  <2>1. asked' = asked + 1 /\ asked' \in Requests /\ asked \in Nat
    BY <1>1, RequestIds, BridgeAssumption DEF TypeOK, Ask
  <2>2. /\ call'[w] = [at |-> "registered", req |-> asked', conn |-> c]
        /\ \A v \in Workers \ {w} : call'[v] = call[v]
    BY <1>1 DEF TypeOK, Ask
  <2>3. /\ outcome'[asked'] = "open"
        /\ \A r \in Requests : r # asked' => outcome'[r] = outcome[r]
    BY <1>1, <2>1 DEF TypeOK, Ask
  <2>4. asked' \notin expired /\ expired' = expired
    BY <1>1, <2>1 DEF Fresh, Ask
  <2>5. \A v \in Workers \ {w} : InCall(v) =>
          call[v].req \in 1..asked /\ call[v].req # asked'
    BY <2>1 DEF Calls
  <2>6. 1..asked \subseteq 1..asked' /\ asked' \in 1..asked'
        /\ 1..asked \subseteq Requests
    BY <2>1, RequestIds DEF TypeOK, Requests
  <2> QED
    BY <2>2, <2>3, <2>4, <2>5, <2>6 DEF Calls, InCall
<1>2. ASSUME NEW w \in Workers, Post(w) \/ Wake(w) PROVE Calls'
  <2>1. /\ InCall(w) /\ call[w].at # "expired"
        /\ call'[w].at \in {"waiting", "woken"}
        /\ call'[w].req = call[w].req /\ call'[w].conn = call[w].conn
        /\ \A v \in Workers \ {w} : call'[v] = call[v]
    BY <1>2 DEF TypeOK, Post, Wake, At, InCall
  <2>2. UNCHANGED <<asked, outcome, expired>>
    BY <1>2 DEF Post, Wake
  <2> QED
    BY <2>1, <2>2 DEF Calls, InCall
<1>3. ASSUME NEW w \in Workers, Expire(w) PROVE Calls'
  <2>1. /\ InCall(w) /\ call'[w].at = "expired"
        /\ call'[w].req = call[w].req /\ call'[w].conn = call[w].conn
        /\ \A v \in Workers \ {w} : call'[v] = call[v]
    BY <1>3 DEF TypeOK, Expire, At, InCall
  <2>2. /\ UNCHANGED <<asked, outcome>>
        /\ expired' = expired \cup {call[w].req}
    BY <1>3 DEF Expire
  <2>3. \A v \in Workers \ {w} : InCall(v) => call[v].req # call[w].req
    BY <2>1 DEF Calls
  <2> QED
    BY <2>1, <2>2, <2>3 DEF Calls, InCall
<1>4. ASSUME NEW w \in Workers, Return(w) PROVE Calls'
  <2>1. /\ InCall(w) /\ call'[w].at = "none"
        /\ \A v \in Workers \ {w} : call'[v] = call[v]
    BY <1>4 DEF TypeOK, Return, NoCall, InCall
  <2>2. /\ UNCHANGED <<asked, expired>>
        /\ \A r \in Requests : r # call[w].req => outcome'[r] = outcome[r]
    BY <1>4 DEF TypeOK, Return
  <2>3. \A v \in Workers \ {w} : InCall(v) =>
          call[v].req # call[w].req /\ call[v].req \in Requests
    BY <2>1, RequestIds DEF TypeOK, Calls, Requests
  <2> QED
    BY <2>1, <2>2, <2>3 DEF Calls, InCall
<1>5. CASE EventLoop \/ Browser \/ UNCHANGED vars
  <2>1. UNCHANGED <<call, asked, outcome, expired>>
    BY <1>5 DEF EventLoop, Browser, vars, bridgeVars, Connect, Deliver,
                Resolve, Disconnect, ResolveSettle, Settle, Abandon, Forget,
                Reply, Leave
  <2> QED
    BY <2>1 DEF Calls, InCall
<1> QED
  BY <1>1, <1>2, <1>3, <1>4, <1>5 DEF Next, Call

LEMMA FreshStep ==
  ASSUME TypeOK, Calls, Fresh, Place, [Next]_vars
  PROVE  Fresh'
<1>1. ASSUME NEW w \in Workers, NEW c \in Conns, Ask(w, c) PROVE Fresh'
  <2>1. asked' = asked + 1 /\ asked' \in Requests /\ asked \in Nat
    BY <1>1, RequestIds, BridgeAssumption DEF TypeOK, Ask
  <2>2. /\ outcome'[asked'] = "open"
        /\ \A r \in Requests : r # asked' => outcome'[r] = outcome[r]
    BY <1>1, <2>1 DEF TypeOK, Ask
  <2>3. UNCHANGED <<expired, said>>
    BY <1>1 DEF Ask, userVars
  <2>4. \A r \in Requests : /\ r > asked' => r > asked /\ r # asked'
                            /\ r <= asked' /\ r # asked' => r <= asked
    BY <2>1, RequestIds
  <2> QED
    BY <2>2, <2>3, <2>4 DEF Fresh
<1>2. ASSUME NEW w \in Workers, Post(w) \/ Wake(w) PROVE Fresh'
  BY <1>2 DEF Fresh, Post, Wake, userVars
<1>3. ASSUME NEW w \in Workers, Expire(w) \/ Return(w) PROVE Fresh'
  <2>1. call[w].req \in 1..asked /\ asked \in Nat
    BY <1>3 DEF Expire, Return, Calls, InCall, TypeOK
  <2>2. /\ UNCHANGED <<asked, said>>
        /\ expired' \subseteq expired \cup {call[w].req}
    BY <1>3 DEF Expire, Return, userVars
  <2>3. \A r \in Requests :
          \/ outcome'[r] = outcome[r]
          \/ r = call[w].req /\ outcome'[r] \in {"approved", "declined"}
    <3>1. CASE Expire(w)
      BY <3>1 DEF Expire
    <3>2. CASE Return(w)
      BY <3>2 DEF TypeOK, Return, Verdict
    <3> QED
      BY <1>3, <3>1, <3>2
  <2> QED
    BY <2>1, <2>2, <2>3, RequestIds DEF Fresh
<1>4. ASSUME NEW c \in Conns, NEW a \in {"yes", "no"}, Reply(c, a)
      PROVE  Fresh'
  <2>1. shown[c] <= asked /\ shown[c] \in Requests /\ asked \in Nat
    BY <1>4 DEF TypeOK, Reply, Place
  <2>2. \A r \in Requests : r # shown[c] => said'[r] = said[r]
    BY <1>4 DEF TypeOK, Reply
  <2>3. UNCHANGED <<asked, outcome, expired>>
    BY <1>4 DEF Reply, bridgeVars
  <2> QED
    BY <2>1, <2>2, <2>3, RequestIds DEF Fresh
<1>5. ASSUME NEW c \in Conns, Leave(c) PROVE Fresh'
  BY <1>5 DEF Fresh, Leave, bridgeVars
<1>6. CASE EventLoop \/ UNCHANGED vars
  <2>1. UNCHANGED <<asked, outcome, expired, said>>
    BY <1>6 DEF EventLoop, vars, bridgeVars, userVars, Connect, Deliver,
                Resolve, Disconnect, ResolveSettle, Settle, Abandon, Forget
  <2> QED
    BY <2>1 DEF Fresh
<1> QED
  BY <1>1, <1>2, <1>3, <1>4, <1>5, <1>6 DEF Next, Call, Browser

LEMMA PlaceStep ==
  ASSUME TypeOK, Calls, Fresh, Place, [Next]_vars
  PROVE  Place'
<1>1. ASSUME NEW w \in Workers, NEW c \in Conns, Ask(w, c) PROVE Place'
  <2>1. asked' = asked + 1 /\ asked' \in Requests /\ asked \in Nat
    BY <1>1, RequestIds, BridgeAssumption DEF TypeOK, Ask
  <2>2. UNCHANGED <<posted, shown, said>>
    BY <1>1 DEF Ask, userVars
  <2>3. \A r \in Requests : Registered(r)' => Registered(r) \/ r = asked'
    BY <1>1 DEF TypeOK, Ask, Registered
  <2>4. said[asked'] = "nothing"
    BY <2>1 DEF Fresh
  <2>5. \A m \in posted : m.req \in Requests /\ m.req <= asked
    BY DEF TypeOK, Place
  <2>6. \A d \in Conns : shown[d] # 0 =>
          shown[d] \in Requests /\ shown[d] <= asked
    BY DEF TypeOK, Place
  <2>7. \A r \in Requests : r <= asked => r # asked' /\ r <= asked'
    BY <2>1, RequestIds
  <2> QED
    BY <2>2, <2>3, <2>4, <2>5, <2>6, <2>7 DEF Place
<1>2. ASSUME NEW w \in Workers, Post(w) PROVE Place'
  <2> DEFINE q == call[w].req
             new == [req |-> q, conn |-> call[w].conn]
  <2>1. q \in Requests /\ q <= asked /\ Registered(q)
    BY <1>2, RequestIds DEF TypeOK, Calls, InCall, Post, Registered, Requests
  <2>2. posted' = posted \cup {new} /\ UNCHANGED <<shown, said, asked>>
    BY <1>2 DEF Post
  <2>3. \A r \in Requests : Registered(r)' => Registered(r) /\ r # q
    BY <1>2 DEF TypeOK, Calls, InCall, Post, At, Registered
  <2>4. new.req = q /\ said[q] = "nothing"
    BY <2>1 DEF Place
  <2>5. \A m \in posted : m.req \in Requests /\ m.req # q
    BY <2>1 DEF TypeOK, Place
  <2>6. \A d \in Conns : shown[d] # 0 => shown[d] \in Requests /\ shown[d] # q
    BY <2>1 DEF TypeOK, Place
  <2> QED
    BY <2>1, <2>2, <2>3, <2>4, <2>5, <2>6 DEF Place
<1>3. ASSUME NEW w \in Workers, Wake(w) \/ Expire(w) \/ Return(w)
      PROVE  Place'
  <2>1. \A r \in Requests : Registered(r)' => Registered(r)
    BY <1>3 DEF TypeOK, Wake, Expire, Return, At, NoCall, Registered
  <2>2. UNCHANGED <<posted, shown, said, asked>>
    BY <1>3 DEF Wake, Expire, Return, userVars
  <2>3. /\ \A m \in posted : m.req \in Requests
        /\ \A c \in Conns : shown[c] # 0 => shown[c] \in Requests
    BY DEF TypeOK
  <2> QED
    BY <2>1, <2>2, <2>3 DEF Place
<1>4. ASSUME NEW m \in posted, Deliver(m) PROVE Place'
  <2>1. m.req \in Requests /\ m.conn \in Conns
    BY DEF TypeOK
  <2>2. UNCHANGED <<said, call, asked>> /\ posted' = posted \ {m}
    BY <1>4 DEF Deliver, bridgeVars
  <2>3. \A c \in Conns : shown'[c] \in {shown[c], m.req}
    BY <1>4, <2>1 DEF TypeOK, Deliver
  <2>4. \A c \in Conns : shown'[c] = m.req => c = m.conn
    BY <1>4, <2>1, RequestIds DEF TypeOK, Deliver, Place
  <2>5. \A n \in posted \ {m} : n.req # m.req
    BY DEF Place
  <2>6. /\ m.req <= asked /\ said[m.req] = "nothing"
        /\ \A r \in Requests : Registered(r)' <=> Registered(r)
    BY <2>2 DEF Place, Registered
  <2>7. ~Registered(m.req)
    BY DEF Place
  <2>8. \A r : Registered(r)' <=> Registered(r)
    BY <2>2 DEF Registered
  <2> QED
    BY <2>1, <2>2, <2>3, <2>4, <2>5, <2>6, <2>7, <2>8 DEF Place
<1>5. ASSUME NEW c \in Conns, NEW a \in {"yes", "no"}, Reply(c, a)
      PROVE  Place'
  <2>1. shown[c] \in Requests /\ shown[c] # 0
    BY <1>5 DEF TypeOK, Reply
  <2>2. /\ UNCHANGED <<posted, call, asked>>
        /\ \A r \in Requests : r # shown[c] => said'[r] = said[r]
    BY <1>5 DEF TypeOK, Reply, bridgeVars
  <2>3. /\ shown'[c] = 0
        /\ \A d \in Conns \ {c} : shown'[d] = shown[d]
    BY <1>5 DEF TypeOK, Reply
  <2>4. /\ \A d \in Conns \ {c} : shown[d] # 0 =>
             shown[d] # shown[c] /\ shown[d] \in Requests
        /\ ~Registered(shown[c])
        /\ \A m \in posted : m.req # shown[c] /\ m.req \in Requests
    BY <2>1 DEF TypeOK, Place
  <2>5. \A r : Registered(r)' <=> Registered(r)
    BY <2>2 DEF Registered
  <2> QED
    BY <2>1, <2>2, <2>3, <2>4, <2>5 DEF Place
<1>6. CASE \/ ResolveSettle \/ Abandon \/ Forget \/ UNCHANGED vars
           \/ \E c \in Conns : \/ Connect(c) \/ Resolve(c) \/ Disconnect(c)
                               \/ Leave(c)
  <2>1. UNCHANGED <<posted, shown, said, call, asked>>
    BY <1>6 DEF vars, bridgeVars, userVars, Connect, Resolve, Disconnect,
                ResolveSettle, Settle, Abandon, Forget, Leave
  <2> QED
    BY <2>1 DEF Place, Registered
<1> QED
  BY <1>1, <1>2, <1>3, <1>4, <1>5, <1>6 DEF Next, Call, EventLoop, Browser

LEMMA WordStep ==
  ASSUME TypeOK, Place, Word, [Next]_vars
  PROVE  Word'
<1>1. CASE \/ \E w \in Workers : Call(w)
           \/ \E w \in Workers, c \in Conns : Ask(w, c)
           \/ \E c \in Conns : Connect(c)
           \/ \E m \in posted : Deliver(m)
           \/ UNCHANGED vars
  <2>1. UNCHANGED <<replies, busy, answer, said>>
    BY <1>1 DEF vars, userVars, bridgeVars, Call, Post, Wake, Expire, Return,
                Ask, Connect, Deliver
  <2> QED
    BY <2>1 DEF Word
<1>2. ASSUME NEW c \in Conns, Resolve(c) PROVE Word'
  <2>1. PICK m \in replies[c] :
          /\ replies' = [replies EXCEPT ![c] = @ \ {m}]
          /\ busy' = IF m.req \in pending[c]
                     THEN [do |-> m.answer, conn |-> c, todo |-> {m.req}]
                     ELSE Idle
    BY <1>2 DEF Resolve
  <2>2. \A d \in Conns : replies'[d] \subseteq replies[d]
    BY <2>1 DEF TypeOK
  <2>3. busy'.do = "yes" => \A r \in busy'.todo : said[r] = "yes"
    BY <2>1 DEF Word, Idle
  <2>4. UNCHANGED <<said, answer>>
    BY <1>2 DEF Resolve, bridgeVars
  <2> QED
    BY <2>2, <2>3, <2>4 DEF Word
<1>3. ASSUME NEW c \in Conns, Disconnect(c) PROVE Word'
  <2>1. busy'.do # "yes"
    BY <1>3 DEF Disconnect, Idle
  <2> QED
    BY <1>3, <2>1 DEF Word, Disconnect, userVars, bridgeVars
<1>4. CASE ResolveSettle
  <2>1. PICK r \in busy.todo : answer' = [answer EXCEPT ![r] = busy.do]
    BY <1>4 DEF ResolveSettle, Settle
  <2>2. \A q \in Requests : answer'[q] = "yes" => said[q] = "yes"
    BY <2>1 DEF TypeOK, Word
  <2>3. busy'.do # "yes" /\ UNCHANGED <<replies, said>>
    BY <1>4 DEF ResolveSettle, Idle, userVars
  <2> QED
    BY <2>2, <2>3 DEF Word
<1>5. CASE Abandon
  <2>1. PICK r \in busy.todo : /\ answer' = [answer EXCEPT ![r] = "no"]
                               /\ busy' = [busy EXCEPT !.todo = @ \ {r}]
    BY <1>5 DEF Abandon, Settle
  <2>2. \A q \in Requests : answer'[q] = "yes" => said[q] = "yes"
    BY <2>1 DEF TypeOK, Word
  <2>3. busy'.do # "yes"
    BY <1>5, <2>1 DEF TypeOK, Abandon
  <2> QED
    BY <1>5, <2>2, <2>3 DEF Word, Abandon, userVars
<1>6. CASE Forget
  BY <1>6 DEF Word, Forget, Idle, userVars, bridgeVars
<1>7. ASSUME NEW c \in Conns, NEW a \in {"yes", "no"}, Reply(c, a)
      PROVE  Word'
  <2>1. shown[c] \in Requests /\ said[shown[c]] = "nothing"
    BY <1>7 DEF TypeOK, Reply, Place
  <2>2. /\ said'[shown[c]] = a
        /\ \A r \in Requests : r # shown[c] => said'[r] = said[r]
    BY <1>7, <2>1 DEF TypeOK, Reply
  <2>3. \A d \in Conns : \A m \in replies'[d] :
          \/ m \in replies[d]
          \/ m.req = shown[c] /\ m.answer = a
    BY <1>7 DEF TypeOK, Reply
  <2>4. \A d \in Conns : \A m \in replies[d] :
          m.req \in Requests /\ m.answer # "nothing"
    BY DEF TypeOK
  <2>5. UNCHANGED <<busy, answer>> /\ busy.todo \subseteq Requests
    BY <1>7 DEF TypeOK, Reply, bridgeVars
  <2> QED
    BY <2>1, <2>2, <2>3, <2>4, <2>5 DEF Word
<1>8. ASSUME NEW c \in Conns, Leave(c) PROVE Word'
  <2>1. \A d \in Conns : replies'[d] \subseteq replies[d]
    BY <1>8 DEF TypeOK, Leave
  <2> QED
    BY <1>8, <2>1 DEF Word, Leave, bridgeVars
<1> QED
  BY <1>1, <1>2, <1>3, <1>4, <1>5, <1>6, <1>7, <1>8
     DEF Next, EventLoop, Browser

LEMMA ApprovalStep ==
  ASSUME BridgeInv, [Next]_vars
  PROVE  NoSilentApproval'
<1> USE DEF BridgeInv
<1>1. ASSUME NEW w \in Workers, NEW c \in Conns, Ask(w, c)
      PROVE  NoSilentApproval'
  <2>1. \A r \in Requests : outcome'[r] = "approved" => outcome[r] = "approved"
    BY <1>1 DEF TypeOK, Ask
  <2> QED
    BY <1>1, <2>1 DEF NoSilentApproval, Ask, userVars
<1>2. ASSUME NEW w \in Workers, Expire(w) PROVE NoSilentApproval'
  <2>1. outcome[call[w].req] = "open"
    BY <1>2 DEF Calls, InCall, Expire
  <2> QED
    BY <1>2, <2>1 DEF NoSilentApproval, Expire, userVars
<1>3. ASSUME NEW w \in Workers, Return(w) PROVE NoSilentApproval'
  <2> DEFINE q == call[w].req
  <2>1. /\ q \in Requests
        /\ call[w].at # "expired" => q \notin expired
    BY <1>3, RequestIds DEF TypeOK, Calls, InCall, Return, Requests
  <2>2. outcome' = [outcome EXCEPT ![q] = Verdict(w)]
        /\ UNCHANGED <<said, expired>>
    BY <1>3 DEF Return, userVars
  <2>3. Verdict(w) = "approved" => said[q] = "yes" /\ q \notin expired
    BY <2>1 DEF Verdict, Word
  <2> QED
    BY <2>1, <2>2, <2>3 DEF TypeOK, NoSilentApproval
<1>4. ASSUME NEW c \in Conns, NEW a \in {"yes", "no"}, Reply(c, a)
      PROVE  NoSilentApproval'
  <2>1. /\ said[shown[c]] = "nothing"
        /\ \A r \in Requests : r # shown[c] => said'[r] = said[r]
    BY <1>4 DEF TypeOK, Reply, Place
  <2> QED
    BY <1>4, <2>1 DEF NoSilentApproval, Reply, bridgeVars
<1>5. CASE \/ EventLoop \/ UNCHANGED vars
           \/ \E w \in Workers : Post(w) \/ Wake(w)
           \/ \E c \in Conns : Leave(c)
  <2>1. UNCHANGED <<outcome, said, expired>>
    BY <1>5 DEF EventLoop, vars, bridgeVars, userVars, Connect, Deliver,
                Resolve, Disconnect, ResolveSettle, Settle, Abandon, Forget,
                Post, Wake, Leave
  <2> QED
    BY <2>1 DEF NoSilentApproval
<1> QED
  BY <1>1, <1>2, <1>3, <1>4, <1>5 DEF Next, Call, Browser

-----------------------------------------------------------------------------

LEMMA BridgeInitially == Init => BridgeInv
<1> SUFFICES ASSUME Init PROVE BridgeInv
  OBVIOUS
<1>1. Calls /\ Place /\ Word /\ NoSilentApproval
  BY DEF Init, Idle, NoCall, InCall, Registered, Calls, Place, Word,
         NoSilentApproval
<1>2. Fresh
  BY RequestIds DEF Init, Fresh
<1> QED
  BY <1>1, <1>2, TypeInit DEF BridgeInv

LEMMA BridgeKept == BridgeInv /\ [Next]_vars => BridgeInv'
  BY TypeStep, CallsStep, FreshStep, PlaceStep, WordStep, ApprovalStep
     DEF BridgeInv

LEMMA BridgeAlways == Spec => []BridgeInv
  BY BridgeInitially, BridgeKept, PTL DEF Spec

\* Every variable keeps its type, whatever the threads, the event loop and the
\* browsers do.
THEOREM BridgeTypeCorrect == Spec => []TypeOK
  BY BridgeAlways, PTL DEF BridgeInv

\* request() returns True only for a request that the user said yes to, and
\* never after its wait has timed out.
THEOREM ApprovalIsGiven == Spec => []NoSilentApproval
  BY BridgeAlways, PTL DEF BridgeInv

-----------------------------------------------------------------------------
(* The bridge implements the gate *)

Yes == {r \in Requests : said[r] = "yes"}

\* Each step of the bridge is a step of the gate or none.
LEMMA GateStep ==
  ASSUME BridgeInv, [Next]_vars
  PROVE  [Gate!Next]_(Gate!vars)
<1> USE DEF BridgeInv
<1>1. ASSUME NEW w \in Workers, NEW c \in Conns, Ask(w, c)
      PROVE  Gate!Next
  <2>1. asked' \in Requests /\ outcome[asked'] = "new"
    BY <1>1, RequestIds, BridgeAssumption DEF TypeOK, Ask, Fresh
  <2>2. outcome' = [outcome EXCEPT ![asked'] = "open"] /\ UNCHANGED said
    BY <1>1 DEF Ask, userVars
  <2>3. Gate!Open(asked')
    BY <2>1, <2>2 DEF Gate!Open
  <2> QED
    BY <2>1, <2>3 DEF Gate!Next
<1>2. ASSUME NEW w \in Workers, Return(w)
      PROVE  Gate!Next
  <2> DEFINE q == call[w].req
  <2>1. q \in Requests /\ outcome[q] = "open"
    BY <1>2, RequestIds DEF TypeOK, Calls, InCall, Return, Requests
  <2>2. outcome' = [outcome EXCEPT ![q] = Verdict(w)] /\ UNCHANGED said
    BY <1>2 DEF Return, userVars
  <2>3. CASE Verdict(w) = "approved"
    <3>1. q \in Yes
      BY <2>1, <2>3 DEF Verdict, Word, Yes
    <3>2. Gate!Approve(q)
      BY <2>1, <2>2, <2>3, <3>1 DEF Gate!Approve, Yes
    <3> QED
      BY <2>1, <3>2 DEF Gate!Next
  <2>4. CASE Verdict(w) = "declined"
    <3>1. Gate!Decline(q)
      BY <2>1, <2>2, <2>4 DEF Gate!Decline
    <3> QED
      BY <2>1, <3>1 DEF Gate!Next
  <2> QED
    BY <2>3, <2>4 DEF Verdict
<1>3. ASSUME NEW c \in Conns, NEW a \in {"yes", "no"}, Reply(c, a)
      PROVE  Gate!Next \/ UNCHANGED Gate!vars
  <2>1. /\ shown[c] \in Requests /\ outcome[shown[c]] # "new"
        /\ said[shown[c]] = "nothing"
    BY <1>3 DEF TypeOK, Reply, Place, Fresh
  <2>2. said' = [said EXCEPT ![shown[c]] = a] /\ UNCHANGED outcome
    BY <1>3 DEF Reply, bridgeVars
  <2>3. CASE a = "yes"
    <3>1. PICK r \in Requests : r = shown[c]
      BY <2>1
    <3>2. Yes' = Yes \cup {r}
      BY <2>2, <2>3, <3>1 DEF TypeOK, Yes
    <3>3. Gate!SayYes(r)
      BY <2>1, <2>2, <3>1, <3>2 DEF Gate!SayYes, Yes
    <3> QED
      BY <3>3 DEF Gate!Next
  <2>4. CASE a = "no"
    <3>1. Yes' = Yes
      BY <2>1, <2>2, <2>4 DEF TypeOK, Yes
    <3> QED
      BY <2>2, <3>1 DEF Gate!vars, Yes
  <2> QED
    BY <2>3, <2>4
<1>4. ASSUME \/ EventLoop \/ UNCHANGED vars
             \/ \E w \in Workers : Post(w) \/ Wake(w) \/ Expire(w)
             \/ \E c \in Conns : Leave(c)
      PROVE  UNCHANGED Gate!vars
  <2>1. UNCHANGED <<outcome, said>>
    BY <1>4 DEF EventLoop, vars, bridgeVars, userVars, Connect, Deliver,
                Resolve, Disconnect, ResolveSettle, Settle, Abandon, Forget,
                Post, Wake, Expire, Leave
  <2> QED
    BY <2>1 DEF Gate!vars
<1> QED
  BY <1>1, <1>2, <1>3, <1>4 DEF Next, Call, Browser

\* The confirmation bridge implements the gate: each request is decided once,
\* and approved only on a yes that was said while it was open.
THEOREM ImplementsGate == Spec => BridgeIsGate
<1>1. Init => Gate!Init
  BY DEF Init, Gate!Init
<1>2. BridgeInv /\ [Next]_vars => [Gate!Next]_(Gate!vars)
  BY GateStep
<1> QED
  BY <1>1, <1>2, BridgeAlways, PTL DEF Spec, BridgeIsGate, Gate!Spec

-----------------------------------------------------------------------------
(* The end of a connection, and who may decline *)

\* A bridge's table holds its own requests, and a request taken out of a table
\* was asked.
Tables ==
  /\ \A c \in Conns : pending[c] \subseteq 1..asked
  /\ busy.todo \subseteq 1..asked
  /\ \A w \in Workers, c \in Conns :
       InCall(w) /\ call[w].req \in pending[c] => call[w].conn = c

\* An event is set after its answer; a no is the user's, unless the connection
\* of the request is over.
Answers ==
  /\ \A r \in Requests : r > asked => answer[r] = "none"
  /\ \A r \in event : answer[r] # "none"
  /\ \A w \in Workers : call[w].at = "woken" => call[w].req \in event
  /\ busy.do = "no" => \A r \in busy.todo : said[r] = "no"
  /\ \A r \in Requests : answer[r] = "no" =>
       \/ said[r] = "no"
       \/ \A w \in Workers : InCall(w) /\ call[w].req = r =>
            sock[call[w].conn] = "closed"

\* What the endpoint abandons is the active connection, closed by then, and
\* the requests on it; the active connection has been accepted.
Ending ==
  /\ busy.do = "abandon" =>
       /\ busy.conn \in Conns /\ active = busy.conn
       /\ sock[busy.conn] = "closed"
       /\ \A w \in Workers : InCall(w) /\ call[w].req \in busy.todo =>
            call[w].conn = busy.conn
  /\ active # NoConn => sock[active] # "new"

\* Neither NewestIsActive nor OnlyUserDeclines follows from BridgeInv: both
\* depend on which connection is being abandoned, and on whose table each
\* request is in.
DeclineInv == BridgeInv /\ Tables /\ Answers /\ Ending /\ NewestIsActive

\* The worker's steps, but for a new request.
LEMMA TablesCall ==
  ASSUME DeclineInv, NEW w \in Workers, Call(w)
  PROVE  Tables' /\ Answers' /\ Ending' /\ NewestIsActive'
<1> USE DEF DeclineInv, BridgeInv
<1>1. /\ InCall(w) /\ UNCHANGED <<asked, answer, event, said, busy, connVars>>
      /\ \A c \in Conns : pending'[c] \subseteq pending[c]
      /\ \A v \in Workers \ {w} : call'[v] = call[v]
  BY DEF TypeOK, Call, Post, Wake, Expire, Return, At, InCall, userVars
<1>2. /\ InCall(w)' => /\ call'[w].req = call[w].req
                       /\ call'[w].conn = call[w].conn
      /\ call'[w].at = "woken" => call[w].req \in event
  <2>1. CASE Return(w)
    BY <2>1 DEF TypeOK, Return, NoCall, InCall
  <2>2. CASE Post(w) \/ Wake(w) \/ Expire(w)
    BY <2>2 DEF TypeOK, Post, Wake, Expire, At, InCall
  <2> QED
    BY <2>1, <2>2 DEF Call
<1>3. \A v \in Workers : InCall(v)' => /\ InCall(v)
                                       /\ call'[v].req = call[v].req
                                       /\ call'[v].conn = call[v].conn
  BY <1>1, <1>2 DEF InCall
<1>4. \A v \in Workers : call'[v].at = "woken" => call'[v].req \in event
  BY <1>1, <1>2 DEF Answers, InCall
<1>5. Tables'
  BY <1>1, <1>3 DEF Tables
<1>6. Answers'
  BY <1>1, <1>3, <1>4 DEF Answers, connVars
<1>7. Ending' /\ NewestIsActive'
  BY <1>1, <1>3 DEF Ending, NewestIsActive, connVars
<1> QED
  BY <1>5, <1>6, <1>7

LEMMA TablesAsk ==
  ASSUME DeclineInv, NEW w \in Workers, NEW c \in Conns, Ask(w, c)
  PROVE  Tables' /\ Answers' /\ Ending' /\ NewestIsActive'
<1> USE DEF DeclineInv, BridgeInv
<1>1. asked' = asked + 1 /\ asked' \in Requests /\ asked \in Nat
  BY RequestIds, BridgeAssumption DEF TypeOK, Ask
<1>2. /\ 1..asked \subseteq 1..asked' /\ asked' \in 1..asked'
      /\ asked' \notin 1..asked /\ asked' > asked
      /\ \A r \in Requests : r > asked' => r > asked
  BY <1>1, RequestIds
<1>3. /\ call'[w] = [at |-> "registered", req |-> asked', conn |-> c]
      /\ \A v \in Workers \ {w} : call'[v] = call[v]
      /\ pending'[c] = pending[c] \cup {asked'}
      /\ \A d \in Conns \ {c} : pending'[d] = pending[d]
      /\ UNCHANGED <<answer, event, said, busy, connVars>>
  BY DEF TypeOK, Ask, userVars
<1>4. \A v \in Workers \ {w} : InCall(v) => call[v].req \in 1..asked
  BY DEF Calls
<1>5. Tables'
  <2>1. \A d \in Conns : pending'[d] \subseteq 1..asked'
    BY <1>2, <1>3 DEF Tables
  <2>2. busy'.todo \subseteq 1..asked'
    BY <1>2, <1>3 DEF Tables
  <2>3. ASSUME NEW v \in Workers, NEW d \in Conns, InCall(v)',
               call'[v].req \in pending'[d]
        PROVE  call'[v].conn = d
    <3>1. CASE v = w
      BY <1>2, <1>3, <2>3, <3>1 DEF Tables
    <3>2. CASE v # w
      <4>1. InCall(v) /\ call[v].req \in 1..asked /\ call'[v] = call[v]
        BY <1>3, <1>4, <2>3, <3>2 DEF InCall
      <4>2. call[v].req \in pending[d]
        BY <1>2, <1>3, <2>3, <4>1
      <4> QED
        BY <4>1, <4>2 DEF Tables
    <3> QED
      BY <3>1, <3>2
  <2> QED
    BY <2>1, <2>2, <2>3 DEF Tables
<1>6. Answers'
  <2>1. answer[asked'] = "none"
    BY <1>1, <1>2 DEF Answers
  <2>2. \A v \in Workers : call'[v].at = "woken" => call'[v].req \in event'
    BY <1>3 DEF Answers
  <2>3. \A r \in Requests : answer[r] = "no" =>
          \/ said[r] = "no"
          \/ \A v \in Workers : InCall(v)' /\ call'[v].req = r =>
               sock[call'[v].conn] = "closed"
    BY <1>3, <2>1 DEF Answers, InCall
  <2> QED
    BY <1>2, <1>3, <2>2, <2>3 DEF Answers, connVars
<1>7. Ending'
  <2>1. asked' \notin busy.todo
    BY <1>2 DEF Tables
  <2>2. \A v \in Workers : InCall(v)' /\ call'[v].req \in busy.todo =>
          InCall(v) /\ call'[v] = call[v]
    BY <1>3, <2>1 DEF InCall
  <2> QED
    BY <1>3, <2>2 DEF Ending, connVars
<1>8. NewestIsActive'
  BY <1>3 DEF NewestIsActive, connVars
<1> QED
  BY <1>5, <1>6, <1>7, <1>8

LEMMA TablesEventLoop ==
  ASSUME DeclineInv, EventLoop
  PROVE  Tables' /\ Answers' /\ Ending' /\ NewestIsActive'
<1> USE DEF DeclineInv, BridgeInv
<1>0. /\ UNCHANGED <<call, asked, pending, said>>
      /\ \A v \in Workers : InCall(v) => call[v].conn \in Conns
      /\ \A v \in Workers : InCall(v)' <=> InCall(v)
  BY DEF EventLoop, Connect, Deliver, Resolve, Disconnect, ResolveSettle,
         Settle, Abandon, Forget, bridgeVars, userVars, InCall, Calls
<1>1. ASSUME NEW c \in Conns, Connect(c)
      PROVE  Tables' /\ Answers' /\ Ending' /\ NewestIsActive'
  <2>1. /\ sock'[c] = "open" /\ sock[c] = "new"
        /\ \A d \in Conns \ {c} : sock'[d] = sock[d]
        /\ active' = c /\ newest' = c /\ c # NoConn
        /\ UNCHANGED <<answer, event, busy>>
        /\ busy.do = "nothing"
    BY <1>1, BridgeAssumption DEF TypeOK, Connect, bridgeVars, Idle
  <2>2. \A v \in Workers : InCall(v) /\ sock[call[v].conn] = "closed" =>
          sock'[call[v].conn] = "closed"
    BY <1>0, <2>1
  <2> QED
    BY <1>0, <2>1, <2>2 DEF Tables, Answers, Ending, NewestIsActive
<1>2. ASSUME NEW m \in posted, Deliver(m)
      PROVE  Tables' /\ Answers' /\ Ending' /\ NewestIsActive'
  <2>1. UNCHANGED <<answer, event, busy, connVars>>
    BY <1>2 DEF Deliver, bridgeVars
  <2> QED
    BY <1>0, <2>1 DEF Tables, Answers, Ending, NewestIsActive, connVars
<1>3. ASSUME NEW c \in Conns, Resolve(c)
      PROVE  Tables' /\ Answers' /\ Ending' /\ NewestIsActive'
  <2>1. UNCHANGED <<answer, event, connVars>>
    BY <1>3 DEF Resolve, bridgeVars
  <2>2. PICK m \in replies[c] :
          busy' = IF m.req \in pending[c]
                  THEN [do |-> m.answer, conn |-> c, todo |-> {m.req}]
                  ELSE Idle
    BY <1>3 DEF Resolve
  <2>3. m.answer \in {"yes", "no"} /\ said[m.req] = m.answer
    BY DEF TypeOK, Word
  <2>4. /\ busy'.todo \subseteq pending[c]
        /\ busy'.do # "abandon"
        /\ busy'.do = "no" => \A r \in busy'.todo : said[r] = "no"
    BY <2>2, <2>3 DEF Idle
  <2>5. Tables'
    BY <1>0, <2>4 DEF Tables
  <2>6. Answers'
    BY <1>0, <2>1, <2>4 DEF Answers, connVars
  <2>7. Ending' /\ NewestIsActive'
    BY <1>0, <2>1, <2>4 DEF Ending, NewestIsActive, connVars
  <2> QED
    BY <2>5, <2>6, <2>7
<1>4. ASSUME NEW c \in Conns, Disconnect(c)
      PROVE  Tables' /\ Answers' /\ Ending' /\ NewestIsActive'
  <2>1. /\ sock'[c] = "closed"
        /\ \A d \in Conns \ {c} : sock'[d] = sock[d]
        /\ UNCHANGED <<active, newest, answer, event>>
    BY <1>4 DEF TypeOK, Disconnect, userVars, bridgeVars
  <2>2. \/ /\ active = c
           /\ busy' = [do |-> "abandon", conn |-> c, todo |-> pending[c]]
        \/ busy' = Idle
    BY <1>4 DEF Disconnect, IsActive
  <2>3. Tables'
    <3>1. busy'.todo \subseteq 1..asked
      BY <2>2 DEF Tables, Idle
    <3> QED
      BY <1>0, <3>1 DEF Tables
  <2>4. Answers'
    <3>1. \A v \in Workers : InCall(v) /\ sock[call[v].conn] = "closed" =>
            sock'[call[v].conn] = "closed"
      BY <1>0, <2>1
    <3>2. busy'.do # "no"
      BY <2>2 DEF Idle
    <3> QED
      BY <1>0, <2>1, <3>1, <3>2 DEF Answers
  <2>5. Ending'
    <3>1. active # NoConn => sock'[active] # "new"
      BY <2>1 DEF Ending, TypeOK
    <3>2. CASE busy' = Idle
      BY <2>1, <3>1, <3>2 DEF Ending, Idle
    <3>3. CASE /\ active = c
               /\ busy' = [do |-> "abandon", conn |-> c, todo |-> pending[c]]
      BY <1>0, <2>1, <3>1, <3>3 DEF Ending, Tables
    <3> QED
      BY <2>2, <3>2, <3>3
  <2>6. NewestIsActive'
    BY <2>1 DEF NewestIsActive, TypeOK
  <2> QED
    BY <2>3, <2>4, <2>5, <2>6
\* An answer that is settled: a yes, the user's no, or one on a connection
\* that is over.
<1>5. ASSUME NEW r \in busy.todo, NEW a \in {"yes", "no"}, Settle(r, a),
             a = "no" => \/ said[r] = "no"
                         \/ \A w \in Workers : InCall(w) /\ call[w].req = r =>
                              sock[call[w].conn] = "closed",
             busy'.do # "no", sock' = sock
      PROVE  Answers'
  <2>1. r \in 1..asked /\ r \in Requests /\ asked \in Nat
    BY RequestIds DEF Tables, TypeOK, Requests
  <2>2. /\ answer'[r] = a /\ event' = event \cup {r}
        /\ \A q \in Requests \ {r} : answer'[q] = answer[q]
    BY <1>5, <2>1 DEF TypeOK, Settle
  <2>3. \A q \in Requests : q > asked => q # r
    BY <2>1
  <2>4. event \subseteq Requests
    BY DEF TypeOK
  <2>5. \A q \in Requests : q > asked' => answer'[q] = "none"
    BY <1>0, <2>2, <2>3 DEF Answers
  <2>6. \A q \in event' : answer'[q] # "none"
    BY <2>2, <2>4 DEF Answers
  <2>7. \A w \in Workers : call'[w].at = "woken" => call'[w].req \in event'
    BY <1>0, <2>2 DEF Answers
  <2>8. \A q \in Requests : answer'[q] = "no" =>
          \/ said'[q] = "no"
          \/ \A w \in Workers : InCall(w)' /\ call'[w].req = q =>
               sock'[call'[w].conn] = "closed"
    BY <1>0, <1>5, <2>2 DEF Answers
  <2> QED
    BY <1>5, <2>5, <2>6, <2>7, <2>8 DEF Answers
<1>6. CASE ResolveSettle
  <2>1. PICK r \in busy.todo : Settle(r, busy.do)
    BY <1>6 DEF ResolveSettle
  <2>2. /\ busy.do \in {"yes", "no"} /\ busy' = Idle
        /\ UNCHANGED <<active, sock, newest>>
    BY <1>6 DEF ResolveSettle, connVars
  <2>3. Answers'
    BY <1>5, <2>1, <2>2 DEF Answers, Idle
  <2> QED
    BY <1>0, <2>2, <2>3 DEF Tables, Ending, NewestIsActive, Idle
<1>7. CASE Abandon
  <2>1. PICK r \in busy.todo : /\ Settle(r, "no")
                               /\ busy' = [busy EXCEPT !.todo = @ \ {r}]
    BY <1>7 DEF Abandon
  <2>2. /\ busy.do = "abandon" /\ UNCHANGED <<active, sock, newest>>
        /\ busy'.do = "abandon" /\ busy'.conn = busy.conn
        /\ busy'.todo \subseteq busy.todo
    BY <1>7, <2>1 DEF Abandon, connVars, TypeOK
  <2>3. \A w \in Workers : InCall(w) /\ call[w].req = r =>
          sock[call[w].conn] = "closed"
    BY <2>2 DEF Ending
  <2>4. Answers'
    BY <1>5, <2>1, <2>2, <2>3
  <2> QED
    BY <1>0, <2>2, <2>4 DEF Tables, Ending, NewestIsActive
<1>8. CASE Forget
  <2>1. /\ busy.do = "abandon" /\ active' = NoConn /\ busy' = Idle
        /\ UNCHANGED <<sock, newest, answer, event>>
    BY <1>8 DEF Forget, bridgeVars
  <2>2. Answers'
    BY <1>0, <2>1 DEF Answers, Idle
  <2>3. NewestIsActive'
    BY <2>1 DEF NewestIsActive, Ending
  <2> QED
    BY <1>0, <2>1, <2>2, <2>3 DEF Tables, Ending, Idle
<1> QED
  BY <1>1, <1>2, <1>3, <1>4, <1>6, <1>7, <1>8 DEF EventLoop

LEMMA TablesBrowser ==
  ASSUME DeclineInv, Browser
  PROVE  Tables' /\ Answers' /\ Ending' /\ NewestIsActive'
<1> USE DEF DeclineInv, BridgeInv
<1>0. /\ UNCHANGED <<call, asked, pending, answer, event, busy, active,
                     newest>>
      /\ \A v \in Workers : InCall(v) => call[v].conn \in Conns
      /\ \A v \in Workers : InCall(v)' <=> InCall(v)
  BY DEF Browser, Reply, Leave, bridgeVars, connVars, InCall, Calls
<1>1. ASSUME NEW c \in Conns, Leave(c)
      PROVE  Tables' /\ Answers' /\ Ending' /\ NewestIsActive'
  <2>1. /\ sock[c] = "open" /\ sock'[c] = "left" /\ said' = said
        /\ \A d \in Conns \ {c} : sock'[d] = sock[d]
    BY <1>1 DEF TypeOK, Leave
  <2>2. \A d \in Conns : sock[d] = "closed" => sock'[d] = "closed"
    BY <2>1
  <2>3. Answers'
    BY <1>0, <2>1, <2>2 DEF Answers
  <2>4. Ending'
    BY <1>0, <2>1, <2>2 DEF Ending, TypeOK
  <2>5. NewestIsActive'
    BY <1>0, <2>1 DEF NewestIsActive, TypeOK
  <2> QED
    BY <1>0, <2>3, <2>4, <2>5 DEF Tables
<1>2. ASSUME NEW c \in Conns, NEW a \in {"yes", "no"}, Reply(c, a)
      PROVE  Tables' /\ Answers' /\ Ending' /\ NewestIsActive'
  <2>1. /\ shown[c] \in Requests /\ said[shown[c]] = "nothing"
        /\ UNCHANGED <<active, sock, newest>>
    BY <1>2 DEF TypeOK, Reply, Place, connVars
  <2>2. \A q \in Requests : said[q] = "no" => said'[q] = "no"
    BY <1>2, <2>1 DEF TypeOK, Reply
  <2>3. busy.todo \subseteq Requests
    BY DEF TypeOK
  <2>4. Answers'
    BY <1>0, <2>1, <2>2, <2>3 DEF Answers
  <2> QED
    BY <1>0, <2>1, <2>4 DEF Tables, Ending, NewestIsActive
<1> QED
  BY <1>1, <1>2 DEF Browser

LEMMA DeclineInitially == Init => DeclineInv
<1> SUFFICES ASSUME Init PROVE DeclineInv
  OBVIOUS
<1>1. Tables /\ Answers /\ Ending /\ NewestIsActive
  BY DEF Init, Idle, NoCall, InCall, Tables, Answers, Ending, NewestIsActive
<1> QED
  BY <1>1, BridgeInitially DEF DeclineInv

LEMMA DeclineKept == DeclineInv /\ [Next]_vars => DeclineInv'
<1> SUFFICES ASSUME DeclineInv, [Next]_vars PROVE DeclineInv'
  OBVIOUS
<1>1. BridgeInv'
  BY BridgeKept DEF DeclineInv
<1>2. CASE UNCHANGED vars
  <2>1. Tables' /\ Answers' /\ Ending' /\ NewestIsActive'
    BY <1>2 DEF DeclineInv, Tables, Answers, Ending, NewestIsActive, InCall,
                vars, connVars, userVars, bridgeVars
  <2> QED
    BY <1>1, <2>1 DEF DeclineInv
<1> QED
  BY <1>1, <1>2, TablesCall, TablesAsk, TablesEventLoop, TablesBrowser
     DEF Next, DeclineInv

LEMMA DeclineAlways == Spec => []DeclineInv
  BY DeclineInitially, DeclineKept, PTL DEF Spec

\* A connection that has been superseded never takes the newer one with it
\* when it ends, however late.
THEOREM NewestStaysActive == Spec => []NewestIsActive
  BY DeclineAlways, PTL DEF DeclineInv

\* A request whose connection is up is declined by the user's own no or by
\* the timeout: not by the end of another connection, and not by a reply to
\* another request.
THEOREM DeclinedByUser == Spec => OnlyUserDeclines
<1>1. DeclineInv /\ [Next]_vars =>
        [\A w \in Workers :
           LET r == call[w].req
           IN  /\ call[w].at = "woken" /\ call'[w].at = "none"
               /\ outcome'[r] = "declined"
               /\ sock[call[w].conn] = "open"
               => said[r] = "no"]_vars
  <2> SUFFICES ASSUME DeclineInv, [Next]_vars, NEW w \in Workers,
                      call[w].at = "woken", call'[w].at = "none",
                      outcome'[call[w].req] = "declined",
                      sock[call[w].conn] = "open"
               PROVE  said[call[w].req] = "no"
    OBVIOUS
  <2>1. /\ InCall(w) /\ call[w].req \in Requests
        /\ answer[call[w].req] \in {"yes", "no"}
    BY DEF DeclineInv, BridgeInv, TypeOK, Answers, InCall
  <2>2. Return(w)
    <3>1. ASSUME NEW v \in Workers, Call(v) PROVE v = w /\ Return(w)
      <4>1. CASE Return(v)
        BY <4>1 DEF Return, DeclineInv, BridgeInv, TypeOK
      <4>2. CASE Post(v) \/ Wake(v) \/ Expire(v)
        BY <4>2 DEF Post, Wake, Expire, At, DeclineInv, BridgeInv, TypeOK
      <4> QED
        BY <3>1, <4>1, <4>2 DEF Call
    <3>2. ASSUME NEW v \in Workers, NEW c \in Conns, Ask(v, c) PROVE FALSE
      BY <3>2 DEF Ask, DeclineInv, BridgeInv, TypeOK
    <3>3. ASSUME EventLoop \/ Browser \/ UNCHANGED vars PROVE FALSE
      <4>1. call' = call
        BY <3>3 DEF EventLoop, Browser, vars, bridgeVars, Connect, Deliver,
                    Resolve, Disconnect, ResolveSettle, Settle, Abandon,
                    Forget, Reply, Leave
      <4> QED
        BY <4>1
    <3> QED
      BY <3>1, <3>2, <3>3 DEF Next
  <2>3. Verdict(w) = "declined"
    BY <2>1, <2>2 DEF Return, DeclineInv, BridgeInv, TypeOK
  <2>4. answer[call[w].req] = "no"
    BY <2>1, <2>3 DEF Verdict
  <2> QED
    BY <2>1, <2>4 DEF DeclineInv, Answers
<1> QED
  BY <1>1, DeclineAlways, PTL DEF Spec, OnlyUserDeclines

===============================================================================
