---------------------------- MODULE MachineProofs ----------------------------
(***************************************************************************)
(* What SkyTrap leaves behind on the terminal and on the machine: for any  *)
(* activities, files and language servers, the renderer's spinner and its  *)
(* account of files, and a request to a server that may send anything; and *)
(* for any machine, what the doctor says of it.                            *)
(***************************************************************************)
EXTENDS Doctor, LspClient, Renderer, FiniteSetTheorems, TLAPS

-----------------------------------------------------------------------------
(* The renderer *)

\* While the user is asked, and at the end, there is no thread to stop.
Still == run # "working" => spinner = 0 /\ stopper = 0

DrawInv ==
  /\ started \in Nat
  /\ ticker = [n \in Activities |-> ticker[n]]
  /\ files = [name \in Names |-> files[name]]
  /\ OneSpinner /\ Still /\ AccountIsTrue

LEMMA DrawInitial == DrawInit => DrawInv
  BY DEF DrawInit, DrawInv, OneSpinner, Still, AccountIsTrue, Entries

LEMMA ActivitiesPositive == \A n \in Activities : n # 0
  BY DEF Activities

\* Whoever finishes the activity leaves no spinner, and every thread told.
LEMMA FinishQuiets ==
  ASSUME DrawInv, FinishActivity, UNCHANGED ticker
  PROVE  OneSpinner' /\ Still' /\ ticker' = [n \in Activities |-> ticker'[n]]
<1>1. live' = {} /\ spinner' = 0 /\ stopper' = 0 /\ stopped' = Told
  BY DEF FinishActivity, DrawInv, OneSpinner
<1>2. ASSUME NEW n \in Activities, ticker[n] \notin {"none", "gone"},
             n \notin Told
      PROVE  FALSE
  <2>1. n # 0 /\ n \notin stopped /\ n # stopper
    BY <1>2, ActivitiesPositive DEF Told
  <2>2. QED BY <1>2, <2>1 DEF DrawInv, OneSpinner
<1>3. QED BY <1>1, <1>2 DEF OneSpinner, Still, DrawInv

\* The account of files that are not touched stays as it is.
LEMMA AccountKeeps == AccountIsTrue /\ UNCHANGED account => AccountIsTrue'
  BY DEF AccountIsTrue, ByOneName, Entries, account

\* What one successful call of a file tool makes of the account.
LEMMA TrackKeeps ==
  ASSUME NEW name \in Names, NEW kind \in {"created", "modified", "deleted"},
         AccountIsTrue, files = [n \in Names |-> files[n]],
         files' = Track(name, kind), outside' = outside,
         kind = "created" => /\ name[1] \notin exists
                             /\ exists' = exists \cup {name[1]},
         kind = "modified" => name[1] \in exists /\ exists' = exists,
         kind = "deleted" => exists' = exists \ {name[1]}
  PROVE  AccountIsTrue'
<1>1. /\ \A n \in Names : n # name => files'[n] = files[n]
      /\ files'[name] = IF kind # "modified" \/ files[name] = "untouched"
                        THEN kind ELSE files[name]
  BY DEF Track
<1>2. SUFFICES ASSUME NEW p \in Paths, ByOneName(p)'
               PROVE  /\ Entries(p)' = {} =>
                           (p \in exists') = (p \in Existing)
                      /\ \A n \in Entries(p)' :
                           /\ files'[n] = "created" => p \in exists'
                           /\ files'[n] = "modified" =>
                                p \in exists' /\ p \in Existing
                           /\ files'[n] = "deleted" => p \notin exists'
  BY DEF AccountIsTrue
<1>3. Entries(p) \subseteq Entries(p)' /\ ByOneName(p)
  BY <1>1, <1>2 DEF Entries, ByOneName
<1>4. /\ Entries(p) = {} => (p \in exists) = (p \in Existing)
      /\ \A n \in Entries(p) :
           /\ files[n] = "created" => p \in exists
           /\ files[n] = "modified" => p \in exists /\ p \in Existing
           /\ files[n] = "deleted" => p \notin exists
  BY <1>3 DEF AccountIsTrue
<1>5. CASE p # name[1]
  <2>1. Entries(p)' = Entries(p) /\ ((p \in exists') = (p \in exists))
    BY <1>1, <1>5 DEF Entries
  <2>2. \A n \in Entries(p)' : files'[n] = files[n]
    BY <1>1, <1>5 DEF Entries
  <2>3. QED BY <1>4, <2>1, <2>2
<1>6. CASE p = name[1]
  <2>1. name \in Entries(p)' BY <1>1, <1>6 DEF Entries
  <2>2. \A n \in Entries(p)' : n = name
    BY <1>2, <2>1 DEF ByOneName
  <2>3. Entries(p) = {} \/ name \in Entries(p)
    BY <1>3, <2>2
  <2>4. files[name] = "untouched" <=> name \notin Entries(p)
    BY <1>6 DEF Entries
  <2>5. QED BY <1>1, <1>4, <1>6, <2>1, <2>2, <2>3, <2>4
<1>7. QED BY <1>5, <1>6

LEMMA StartKeeps ==
  ASSUME DrawInv, StartActivity
  PROVE  DrawInv'
<1>1. /\ started' = started + 1 /\ started' # 0 /\ started' \in Nat
      /\ run' = "working" /\ UNCHANGED account
  BY DEF StartActivity, DrawInv
<1>0. AccountIsTrue' /\ files' = [name \in Names |-> files'[name]]
  BY <1>1, AccountKeeps DEF DrawInv, account
<1>2. CASE ~interactive
  <2>1. FinishActivity /\ UNCHANGED ticker
    BY <1>2 DEF StartActivity
  <2>2. QED BY <1>0, <1>1, <2>1, FinishQuiets DEF DrawInv
<1>3. CASE interactive
  <2>1. /\ stopped' = Told /\ stopper' = started'
        /\ live' = (live \ {spinner}) \cup {started'} /\ spinner' = started'
        /\ ticker' = [ticker EXCEPT ![started'] = "waiting"]
    BY <1>1, <1>3 DEF StartActivity
  <2>2. live' = {spinner'} \ {0}
    BY <1>1, <2>1 DEF DrawInv, OneSpinner
  <2>3. ticker' = [n \in Activities |-> ticker'[n]]
        /\ \A n \in Activities : n # started' => ticker'[n] = ticker[n]
    BY <2>1 DEF DrawInv
  <2>4. ASSUME NEW n \in Activities, n \notin Told, n # started',
               ticker'[n] \notin {"none", "gone"}
        PROVE  FALSE
    <3>1. n # 0 /\ n \notin stopped /\ n # stopper
      BY <2>4, ActivitiesPositive DEF Told
    <3>2. QED BY <2>3, <2>4, <3>1 DEF DrawInv, OneSpinner
  <2>5. OneSpinner'
    BY <2>1, <2>2, <2>4 DEF OneSpinner
  <2>6. QED BY <1>0, <1>1, <2>3, <2>5 DEF DrawInv, Still
<1>4. QED BY <1>2, <1>3

\* A tool that wrote found the file or not; one that deleted it found it.
LEMMA ToolKeeps ==
  ASSUME DrawInv, NEW name \in Names, NEW writes \in BOOLEAN,
         NEW success \in BOOLEAN, ToolResult(name, writes, success)
  PROVE  DrawInv'
<1> DEFINE path == name[1]
           kind == IF ~writes THEN "deleted"
                   ELSE IF path \in exists THEN "modified" ELSE "created"
<1>1. /\ FinishActivity /\ UNCHANGED <<run, ticker, started, outside>>
      /\ exists' = IF ~success THEN exists
                   ELSE IF writes THEN exists \cup {path}
                   ELSE exists \ {path}
      /\ files' = IF ~success THEN files ELSE Track(name, kind)
  BY DEF ToolResult
<1>2. files' = [n \in Names |-> files'[n]] /\ AccountIsTrue'
  <2>1. CASE ~success
    BY <1>1, <2>1 DEF DrawInv, AccountIsTrue, ByOneName, Entries
  <2>2. CASE success
    <3>1. files' = Track(name, kind) BY <1>1, <2>2
    <3>2. files' = [n \in Names |-> files'[n]]
      BY <3>1 DEF Track, DrawInv
    <3>3. /\ kind = "created" => /\ path \notin exists
                                 /\ exists' = exists \cup {path}
          /\ kind = "modified" => path \in exists /\ exists' = exists
          /\ kind = "deleted" => exists' = exists \ {path}
          /\ kind \in {"created", "modified", "deleted"}
      BY <1>1, <2>2
    <3> HIDE DEF kind
    <3>4. AccountIsTrue'
      BY <1>1, <3>1, <3>3, TrackKeeps DEF DrawInv
    <3>5. QED BY <3>2, <3>4
  <2>3. QED BY <2>1, <2>2
<1>3. QED BY <1>1, <1>2, FinishQuiets DEF DrawInv

\* What others change they are known to have changed.
LEMMA OthersKeep ==
  ASSUME DrawInv, NEW path \in Paths, OthersChange(path)
  PROVE  DrawInv'
<1>1. /\ exists' = (exists \ {path}) \cup ({path} \ exists)
      /\ outside' = outside \cup {path}
      /\ UNCHANGED <<run, spinner, live, stopper, threads, started, files>>
  BY DEF OthersChange
<1>2. AccountIsTrue'
  <2>1. SUFFICES ASSUME NEW p \in Paths, ByOneName(p)'
                 PROVE  /\ ByOneName(p) /\ Entries(p)' = Entries(p)
                        /\ (p \in exists') = (p \in exists)
    BY <1>1 DEF AccountIsTrue, DrawInv
  <2>2. p # path /\ p \notin outside BY <1>1, <2>1 DEF ByOneName
  <2>3. Entries(p)' = Entries(p) BY <1>1 DEF Entries
  <2>4. QED BY <1>1, <2>1, <2>2, <2>3 DEF ByOneName
<1>3. QED BY <1>1, <1>2 DEF DrawInv, OneSpinner, Still, threads

\* A thread that goes on was not gone before.
LEMMA ThreadKeeps ==
  ASSUME DrawInv, NEW n \in Activities, Tick(n)
  PROVE  DrawInv'
<1>1. \E to : /\ ticker[n] \notin {"none", "gone"}
              /\ ticker' = [ticker EXCEPT ![n] = to]
              /\ UNCHANGED <<run, spinner, live, stopper, stopped, started,
                             account>>
  BY DEF Tick, Wake, TakeStatus, Update, ThreadStep
<1>2. PICK to : /\ ticker[n] \notin {"none", "gone"}
                /\ ticker' = [ticker EXCEPT ![n] = to]
                /\ UNCHANGED <<run, spinner, live, stopper, stopped, started,
                               account>>
  BY <1>1
<1>3. /\ ticker' = [m \in Activities |-> ticker'[m]]
      /\ \A m \in Activities : ticker'[m] = ticker[m] \/ m = n
  BY <1>2 DEF DrawInv
<1>4. OneSpinner'
  BY <1>2, <1>3 DEF DrawInv, OneSpinner
<1>5. AccountIsTrue' /\ files' = files
  BY <1>2, AccountKeeps DEF DrawInv, account
<1>6. QED BY <1>2, <1>3, <1>4, <1>5 DEF DrawInv, Still

LEMMA DrawStep == DrawInv /\ [DrawNext]_drawVars => DrawInv'
<1> SUFFICES ASSUME DrawInv, [DrawNext]_drawVars PROVE DrawInv'
  OBVIOUS
<1>1. CASE UNCHANGED drawVars
  BY <1>1, AccountKeeps DEF drawVars, DrawInv, OneSpinner, Still, account
<1>2. CASE StartActivity
  BY <1>2, StartKeeps
<1>3. CASE HandleEvent \/ AskApproval \/ Ends
  <2>1. FinishActivity /\ UNCHANGED <<ticker, started, account>>
    BY <1>3 DEF HandleEvent, AskApproval, Ends
  <2>2. AccountIsTrue' /\ files' = files
    BY <2>1, AccountKeeps DEF DrawInv, account
  <2>3. run' # "working" => spinner' = 0 /\ stopper' = 0
    BY <2>1 DEF FinishActivity
  <2>4. QED BY <2>1, <2>2, <2>3, FinishQuiets DEF DrawInv
<1>4. CASE Answered
  BY <1>4, AccountKeeps DEF Answered, DrawInv, OneSpinner, Still, threads,
                            account
<1>5. ASSUME NEW name \in Names, NEW writes \in BOOLEAN,
             NEW success \in BOOLEAN, ToolResult(name, writes, success)
      PROVE  DrawInv'
  BY <1>5, ToolKeeps
<1>6. ASSUME NEW n \in Activities, Tick(n) PROVE DrawInv'
  BY <1>6, ThreadKeeps
<1>7. ASSUME NEW path \in Paths, OthersChange(path) PROVE DrawInv'
  BY <1>7, OthersKeep
<1>8. QED BY <1>1, <1>2, <1>3, <1>4, <1>5, <1>6, <1>7 DEF DrawNext

\* The summary's account of every file that the file tools alone changed,
\* under one name, is true after any sequence of their calls, failed ones
\* included.  (terminal.py:641-656)
THEOREM AccountStaysTrue == DrawSpec => []AccountIsTrue
<1>1. DrawInv => AccountIsTrue
  BY DEF DrawInv
<1>2. QED BY <1>1, DrawInitial, DrawStep, PTL DEF DrawSpec

\* There is never a spinner but the last one, nor a thread but its own that
\* was not told to stop; none of either while the user is asked, or after the
\* end.  (terminal.py:575-614, cli.py:96-104)
THEOREM SpinnersStop == DrawSpec => [](OneSpinner /\ QuietWhenAsked)
<1>1. DrawInv => OneSpinner /\ QuietWhenAsked
  BY ActivitiesPositive DEF DrawInv, OneSpinner, Still, QuietWhenAsked
<1>2. QED BY <1>1, DrawInitial, DrawStep, PTL DEF DrawSpec

-----------------------------------------------------------------------------
(* The client of a language server *)

Kinds == {"result", "error", "other"}
Message == [id : ServerIds \cup {1, 2}, kind : Kinds]
Pieces == [message : Message, part : {"header", "body"}]

\* What claims to answer the second request comes from a server that did,
\* or that has used the number itself.
Truthful(message) == message.id = 2 => 2 \in replied \cup posed

LspInv ==
  /\ owed \subseteq {1, 2}
  /\ speaking \in Seq(Message) /\ stdout \in Seq(Pieces)
  /\ buffer \in Seq(Pieces)
  /\ \A k \in DOMAIN speaking : Truthful(speaking[k])
  /\ \A k \in DOMAIN stdout : Truthful(stdout[k].message)
  /\ \A k \in DOMAIN buffer : Truthful(buffer[k].message)
  /\ call = "start" => process = "none"
  /\ CallIsClean

LEMMA LspInitial == LspInit => LspInv
<1> SUFFICES ASSUME LspInit PROVE LspInv
  OBVIOUS
<1>1. /\ speaking = <<>> /\ stdout = <<>> /\ buffer = <<>>
      /\ owed = {} /\ process = "none" /\ call = "start"
      /\ supported = FALSE
  BY DEF LspInit
<1>2. /\ speaking \in Seq(Message) /\ stdout \in Seq(Pieces)
      /\ buffer \in Seq(Pieces)
  BY <1>1
<1>3. DOMAIN speaking = {} /\ DOMAIN stdout = {} /\ DOMAIN buffer = {}
  BY <1>1
<1>4. CallIsClean
  BY <1>1 DEF CallIsClean, ServerIsEnded, OwnAnswer
<1>5. QED BY <1>1, <1>2, <1>3, <1>4 DEF LspInv

\* What a sequence holds after an element is added to it.
LEMMA AppendHolds ==
  ASSUME NEW S, NEW s \in Seq(S), NEW e \in S
  PROVE  /\ Append(s, e) \in Seq(S)
         /\ \A k \in DOMAIN Append(s, e) :
              \/ Append(s, e)[k] = e
              \/ (k \in DOMAIN s /\ Append(s, e)[k] = s[k])
  OBVIOUS

LEMMA OneOfSix ==
  ASSUME NEW f, DOMAIN f = 1..6
  PROVE  /\ 1 \in DOMAIN f /\ 2 \in DOMAIN f /\ 3 \in DOMAIN f
         /\ 4 \in DOMAIN f /\ 5 \in DOMAIN f
         /\ \A k \in DOMAIN f :
              k # 6 => f[k + 1] \in {f[2], f[3], f[4], f[5], f[6]}
<1>1. \A k \in 1..6 : k = 1 \/ k = 2 \/ k = 3 \/ k = 4 \/ k = 5 \/ k = 6
  OBVIOUS
<1>2. QED BY <1>1

LEMMA StepsDomain == DOMAIN Steps = 1..6
  BY DEF Steps

LEMMA StepsAre ==
  /\ Steps[1] = "initialize" /\ Steps[2] = "wait 1"
  /\ Steps[3] = "initialized" /\ Steps[4] = "didOpen"
  /\ Steps[5] = "method" /\ Steps[6] = "wait 2"
  BY DEF Steps

\* No step but the last is followed by the end.
LEMMA NextStep ==
  ASSUME NEW k \in DOMAIN Steps, Steps[k] # "wait 2"
  PROVE  Steps[k + 1] \notin {"start", "returned"}
<1>1. k # 6
  BY StepsAre
<1>2. Steps[k + 1] \in {Steps[2], Steps[3], Steps[4], Steps[5], Steps[6]}
  BY <1>1, StepsDomain, OneOfSix
<1>3. QED BY <1>2, StepsAre

LEMMA StepExists ==
  \A step \in {"initialize", "wait 1", "initialized", "didOpen", "method"} :
    \E k \in DOMAIN Steps : Steps[k] = step
<1>1. 1 \in DOMAIN Steps /\ 2 \in DOMAIN Steps /\ 3 \in DOMAIN Steps
      /\ 4 \in DOMAIN Steps /\ 5 \in DOMAIN Steps
  BY StepsDomain, OneOfSix, Zenon
<1>2. QED BY <1>1, StepsAre, Zenon

LEMMA AfterGoesOn ==
  ASSUME NEW step \in {"initialize", "wait 1", "initialized", "didOpen",
                       "method"}
  PROVE  After(step) \notin {"start", "returned"}
<1> DEFINE k == CHOOSE k \in DOMAIN Steps : Steps[k] = step
<1>1. k \in DOMAIN Steps /\ Steps[k] = step
  BY StepExists
<1>2. After(step) = IF step = "initialized" /\ ~hasPath THEN "method"
                    ELSE Steps[k + 1]
  BY DEF After
<1> HIDE DEF k
<1>3. Steps[k + 1] \notin {"start", "returned"}
  BY <1>1, NextStep
<1>4. QED BY <1>2, <1>3

\* The steps of the server while it runs, and its end.
LEMMA ServerKeeps ==
  ASSUME LspInv,
         ServerTakes \/ ServerReplies \/ ServerNotifies \/ ServerFinishes
           \/ ServerExits
  PROVE  LspInv'
<1>1. process = "running" /\ UNCHANGED <<call, supported, buffer>>
  BY DEF ServerTakes, ServerReplies, ServerNotifies, ServerFinishes,
         ServerExits, Utter
<1>2. call # "start" /\ call # "returned"
  BY <1>1 DEF LspInv, CallIsClean, ServerIsEnded
<1>3. replied \subseteq replied' /\ posed \subseteq posed'
  BY DEF ServerTakes, ServerReplies, ServerNotifies, ServerFinishes,
         ServerExits
<1>4. /\ call' # "start" /\ CallIsClean' /\ buffer' \in Seq(Pieces)
      /\ \A k \in DOMAIN buffer' :
           buffer'[k].message.id = 2 => 2 \in (replied \cup posed)'
  BY <1>1, <1>2, <1>3 DEF LspInv, CallIsClean, ServerIsEnded, OwnAnswer,
                          Truthful
<1>5. CASE ServerTakes
  <2>1. /\ owed' \subseteq {1, 2}
        /\ UNCHANGED <<speaking, stdout, replied, posed>>
    BY <1>5 DEF ServerTakes, LspInv, Id
  <2>2. QED BY <1>4, <2>1 DEF LspInv, Truthful
<1>6. ASSUME NEW id \in ServerIds \cup {1, 2}, NEW kind \in Kinds,
             Utter(LspMessage(id, kind)), owed' \subseteq owed,
             id = 2 => 2 \in (replied \cup posed)'
      PROVE  LspInv'
  <2> DEFINE said == LspMessage(id, kind)
             piece == Piece(said, "header")
  <2>1. said \in Message /\ said.id = id
    BY DEF Message, LspMessage
  <2>2. speaking' = <<said>> /\ stdout' = Append(stdout, piece)
    BY <1>6 DEF Utter
  <2> HIDE DEF said
  <2>3. piece \in Pieces /\ piece.message = said
    BY <2>1 DEF Pieces, Piece
  <2> HIDE DEF piece
  <2>4. /\ speaking' \in Seq(Message)
        /\ \A k \in DOMAIN speaking' : speaking'[k] = said
    BY <2>1, <2>2
  <2>5. /\ stdout' \in Seq(Pieces)
        /\ \A k \in DOMAIN stdout' : stdout'[k] = piece
             \/ (k \in DOMAIN stdout /\ stdout'[k] = stdout[k])
    BY <2>2, <2>3, AppendHolds DEF LspInv
  <2>6. said.id = 2 => 2 \in (replied \cup posed)'
    BY <1>6, <2>1
  <2>7. \A k \in DOMAIN stdout' :
          stdout'[k].message.id = 2 => 2 \in (replied \cup posed)'
    BY <1>3, <2>3, <2>5, <2>6 DEF LspInv, Truthful
  <2>8. \A k \in DOMAIN speaking' :
          speaking'[k].id = 2 => 2 \in (replied \cup posed)'
    BY <2>4, <2>6
  <2>9. owed' \subseteq {1, 2}
    BY <1>6 DEF LspInv
  <2>10. QED BY <1>4, <2>4, <2>5, <2>7, <2>8, <2>9 DEF LspInv, Truthful
<1>7. CASE ServerReplies
  <2>1. PICK id \in owed, kind \in {"result", "error"} :
          /\ Utter(LspMessage(id, kind))
          /\ owed' = owed \ {id} /\ replied' = replied \cup {id}
    BY <1>7 DEF ServerReplies
  <2>2. id \in {1, 2} /\ kind \in Kinds
    BY DEF LspInv, Kinds
  <2>3. QED BY <1>6, <2>1, <2>2
<1>8. CASE ServerNotifies
  <2>1. PICK id \in ServerIds : /\ Utter(LspMessage(id, "other"))
                               /\ posed' = posed \cup ({id} \ {0})
    BY <1>8 DEF ServerNotifies
  <2>2. owed' = owed /\ "other" \in Kinds
        /\ (id = 2 => 2 \in (replied \cup posed)')
    BY <1>8, <2>1 DEF ServerNotifies, Kinds
  <2>3. QED BY <1>6, <2>1, <2>2
<1>9. CASE ServerFinishes
  <2> DEFINE piece == Piece(speaking[1], "body")
  <2>1. /\ UNCHANGED <<owed, replied, posed>> /\ speaking # <<>>
        /\ stdout' = Append(stdout, piece) /\ speaking' = <<>>
    BY <1>9 DEF ServerFinishes
  <2>2. 1 \in DOMAIN speaking /\ speaking[1] \in Message
    BY <2>1 DEF LspInv
  <2>3. piece \in Pieces /\ piece.message = speaking[1]
    BY <2>2 DEF Pieces, Piece
  <2> HIDE DEF piece
  <2>4. /\ stdout' \in Seq(Pieces)
        /\ \A k \in DOMAIN stdout' : stdout'[k] = piece
             \/ (k \in DOMAIN stdout /\ stdout'[k] = stdout[k])
    BY <2>1, <2>3, AppendHolds DEF LspInv
  <2>5. piece.message.id = 2 => 2 \in replied \cup posed
    BY <2>2, <2>3 DEF LspInv, Truthful
  <2>6. \A k \in DOMAIN stdout' :
          stdout'[k].message.id = 2 => 2 \in (replied \cup posed)'
    BY <2>1, <2>4, <2>5 DEF LspInv, Truthful
  <2>7. speaking' \in Seq(Message) /\ DOMAIN speaking' = {}
    BY <2>1
  <2>8. QED BY <1>4, <2>1, <2>4, <2>6, <2>7 DEF LspInv, Truthful
<1>10. CASE ServerExits
  <2>1. UNCHANGED <<owed, speaking, stdout, replied, posed>>
    BY <1>10 DEF ServerExits
  <2>2. QED BY <1>4, <2>1 DEF LspInv, Truthful
<1>11. QED BY <1>5, <1>7, <1>8, <1>9, <1>10

\* Steps of the client that only move it on.
LEMMA MoveKeeps ==
  ASSUME LspInv, UNCHANGED <<owed, speaking, stdout, buffer, replied, posed,
                             supported>>,
         call' # "start", call' = "returned" => process' # "running"
  PROVE  LspInv'
  BY DEF LspInv, Truthful, CallIsClean, ServerIsEnded, OwnAnswer

LEMMA FillKeeps ==
  ASSUME LspInv, Fill
  PROVE  LspInv'
<1>1. /\ buffer' = buffer \o stdout /\ stdout' = <<>>
      /\ UNCHANGED <<call, process, owed, speaking, replied, posed, supported>>
  BY DEF Fill
<1>2. buffer \in Seq(Pieces) /\ stdout \in Seq(Pieces)
  BY DEF LspInv
<1>3. /\ buffer' \in Seq(Pieces)
      /\ \A k \in DOMAIN buffer' :
           \/ k \in DOMAIN buffer /\ buffer'[k] = buffer[k]
           \/ \E j \in DOMAIN stdout : buffer'[k] = stdout[j]
  <2>1. /\ buffer' \in Seq(Pieces) /\ Len(buffer) \in Nat
        /\ Len(buffer') = Len(buffer) + Len(stdout)
        /\ DOMAIN buffer' = 1..Len(buffer') /\ DOMAIN buffer = 1..Len(buffer)
        /\ DOMAIN stdout = 1..Len(stdout) /\ Len(stdout) \in Nat
        /\ \A k \in 1..Len(buffer') :
             buffer'[k] = IF k <= Len(buffer) THEN buffer[k]
                          ELSE stdout[k - Len(buffer)]
    BY <1>1, <1>2
  <2>2. ASSUME NEW k \in DOMAIN buffer', k > Len(buffer)
        PROVE  \E j \in DOMAIN stdout : buffer'[k] = stdout[j]
    <3>1. k - Len(buffer) \in DOMAIN stdout
      BY <2>1, <2>2
    <3>2. buffer'[k] = stdout[k - Len(buffer)]
      BY <2>1, <2>2
    <3>3. QED BY <3>1, <3>2
  <2>3. \A k \in DOMAIN buffer' : k > Len(buffer) \/ k \in DOMAIN buffer
    BY <2>1
  <2>4. QED BY <2>1, <2>2, <2>3
<1>4. \A k \in DOMAIN buffer' :
        buffer'[k].message.id = 2 => 2 \in (replied \cup posed)'
  BY <1>1, <1>3 DEF LspInv, Truthful
<1>5. stdout' \in Seq(Pieces) /\ DOMAIN stdout' = {}
  BY <1>1
<1>6. QED BY <1>1, <1>3, <1>4, <1>5 DEF LspInv, Truthful, CallIsClean,
                                       ServerIsEnded, OwnAnswer

LEMMA ParseKeeps ==
  ASSUME LspInv, Parse
  PROVE  LspInv'
<1>1. /\ Len(buffer) >= 2 /\ Reading
      /\ buffer' = SubSeq(buffer, 3, Len(buffer))
      /\ UNCHANGED <<process, owed, speaking, stdout, replied, posed>>
  BY DEF Parse, serverState
<1>2. buffer \in Seq(Pieces)
  BY DEF LspInv
<1>3. /\ buffer' \in Seq(Pieces)
      /\ \A k \in DOMAIN buffer' : \E j \in DOMAIN buffer :
           buffer'[k] = buffer[j]
  <2>1. /\ buffer' \in Seq(Pieces) /\ DOMAIN buffer = 1..Len(buffer)
        /\ DOMAIN buffer' = 1..(Len(buffer) - 2) /\ Len(buffer) \in Nat
        /\ \A k \in 1..(Len(buffer) - 2) : buffer'[k] = buffer[k + 2]
    BY <1>1, <1>2
  <2>2. \A k \in DOMAIN buffer' : k + 2 \in DOMAIN buffer
    BY <2>1
  <2>3. QED BY <2>1, <2>2
<1>4. \A k \in DOMAIN buffer' :
        buffer'[k].message.id = 2 => 2 \in (replied \cup posed)'
  BY <1>1, <1>3 DEF LspInv, Truthful
<1>5. call' \notin {"start", "returned"}
  BY AfterGoesOn DEF Parse
<1>6. OwnAnswer'
  <2>1. CASE supported' = supported
    BY <1>1, <2>1 DEF LspInv, CallIsClean, OwnAnswer
  <2>2. CASE supported' # supported
    <3>1. Matches(buffer[1].message) /\ call # "read 1"
      BY <2>2 DEF Parse
    <3>2. buffer[1].message.id = 2
      BY <1>1, <3>1 DEF Matches, Awaited, Reading
    <3>3. 1 \in DOMAIN buffer
      BY <1>1, <1>2
    <3>4. QED BY <1>1, <3>2, <3>3 DEF LspInv, Truthful, OwnAnswer
  <2>3. QED BY <2>1, <2>2
<1>7. QED BY <1>1, <1>3, <1>4, <1>5, <1>6
          DEF LspInv, Truthful, CallIsClean, ServerIsEnded

LEMMA ClientKeeps ==
  ASSUME LspInv, Client
  PROVE  LspInv'
<1>1. CASE Spawn
  BY <1>1, MoveKeeps DEF Spawn, LspInv
<1>2. CASE Select \/ TimesOut \/ EndOfOutput
  BY <1>2, MoveKeeps DEF Select, TimesOut, EndOfOutput, Raise, serverState
<1>3. CASE Fill
  BY <1>3, FillKeeps
<1>4. CASE Parse
  BY <1>4, ParseKeeps
<1>5. CASE Finally
  BY <1>5, MoveKeeps DEF Finally
<1>6. ASSUME NEW what \in {"initialize", "initialized", "didOpen", "method"},
             Write(what)
      PROVE  LspInv'
  <2>1. call' \notin {"start", "returned"}
    BY <1>6, AfterGoesOn DEF Write, Raise
  <2>2. UNCHANGED <<owed, speaking, stdout, buffer, replied, posed, supported>>
    BY <1>6 DEF Write
  <2>3. QED BY <2>1, <2>2, MoveKeeps
<1>7. QED BY <1>1, <1>2, <1>3, <1>4, <1>5, <1>6 DEF Client

LEMMA LspStep == LspInv /\ [LspNext]_lspVars => LspInv'
<1> SUFFICES ASSUME LspInv, [LspNext]_lspVars PROVE LspInv'
  OBVIOUS
<1>1. CASE UNCHANGED lspVars
  BY <1>1 DEF lspVars, LspInv, Truthful, CallIsClean, ServerIsEnded, OwnAnswer
<1>2. CASE Client
  BY <1>2, ClientKeeps
<1>3. CASE ServerTakes \/ ServerReplies \/ ServerNotifies \/ ServerFinishes
             \/ ServerExits
  BY <1>3, ServerKeeps
<1>4. QED BY <1>1, <1>2, <1>3 DEF LspNext

\* However the call ends, it leaves no server and reports nothing that was
\* not answered, but for a request of the server's with the id of the
\* client's, with a server that may write anything in any order, stop in the
\* middle, or exit.  (lsp.py:77-110, 135-157)
THEOREM CallsAreClean == LspSpec => []CallIsClean
<1>1. LspInv => CallIsClean
  BY DEF LspInv
<1>2. LspInv /\ [LspNext]_lspVars => LspInv'
  BY LspStep
<1>3. QED BY <1>1, <1>2, LspInitial, PTL DEF LspSpec

-----------------------------------------------------------------------------
(* The doctor *)

Replies == {"pass", "fail", "none"}
AllLayers == {"binary", "daemon", "model", "generation"}

\* The layers that come before one.
Before(layer) == CASE layer = "binary" -> {}
                   [] layer = "daemon" -> {"binary"}
                   [] layer = "model" -> {"binary", "daemon"}
                   [] layer = "generation" -> {"binary", "daemon", "model"}

\* What has been heard when the probe has come so far.
HeardFirst == CASE probing = "version" -> {"binary"}
                [] probing = "tags" -> {"binary", "daemon"}
                [] probing = "generation" -> {"binary", "daemon", "model"}
                [] probing = "questions" -> AllLayers
                [] OTHER -> {}

\* What the probe goes through.
Probings == {"idle", "version", "tags", "generation"}

Healthy(report) == report.status = "HEALTHY" /\ report.layers = AllLayers

Ill(report) == \E layer \in AllLayers : /\ report.status = Status(layer)
                                        /\ report.layers = Before(layer)

\* Nothing is said before it is known, and nothing that was not heard.
InTurn ==
  /\ probing \in Probings => health = NotAsked
  /\ probing \in Probings \cup {"questions"} => result = NotAsked
  /\ probing # "ended" => diagnosis = NotAsked
  /\ probing = "questions" => Healthy(health)
  /\ probing \in {"asked", "ended"} =>
       Healthy(health) \/ Ill(health) \/ health = Raised
  /\ probing \in {"questions", "asked", "ended"} =>
       health.layers \subseteq heard

AllAnswered == Len(replies) = 7 /\ \A k \in 1..7 : replies[k] # "none"

\* Who qualifies was asked, and answered, everything.
QualifiedAnswered ==
  /\ result # NotAsked => Healthy(health)
  /\ result # NotAsked /\ result.qualified => AllAnswered

DoctorInv ==
  /\ probing \in Probings \cup {"questions", "asked", "ended"}
  /\ replies \in Seq(Replies)
  /\ HeardFirst \subseteq heard /\ heard \subseteq AllLayers
  /\ InTurn /\ QualifiedAnswered /\ QualifiedCanUseTools
  /\ HealthyWasSeen /\ PlanCoversMatrix

-----------------------------------------------------------------------------
LEMMA LayersAre ==
  /\ {Layers[k] : k \in 1..4} = AllLayers
  /\ \A layer \in AllLayers :
       {Layers[k] : k \in {n \in 1..4 : layer \notin {Layers[j] :
                                                    j \in 1..n}}}
         = Before(layer)
<1>1. /\ 1..4 = {1, 2, 3, 4}
      /\ Layers[1] = "binary" /\ Layers[2] = "daemon"
      /\ Layers[3] = "model" /\ Layers[4] = "generation"
  BY DEF Layers
<1>2. {Layers[k] : k \in 1..4} = AllLayers BY <1>1 DEF AllLayers
<1>3. /\ {Layers[j] : j \in 1..1} = {"binary"}
      /\ {Layers[j] : j \in 1..2} = {"binary", "daemon"}
      /\ {Layers[j] : j \in 1..3} = {"binary", "daemon", "model"}
      /\ {Layers[j] : j \in 1..4} = AllLayers
  <2>1. 1..1 = {1} /\ 1..2 = {1, 2} /\ 1..3 = {1, 2, 3} OBVIOUS
  <2>2. QED BY <1>1, <1>2, <2>1
<1>4. ASSUME NEW layer \in AllLayers
      PROVE  {Layers[k] : k \in {n \in 1..4 : layer \notin {Layers[j] :
                                                    j \in 1..n}}}
               = Before(layer)
  <2> DEFINE K == {n \in 1..4 : layer \notin {Layers[j] : j \in 1..n}}
  <2>1. CASE layer = "binary"
    <3>1. K = {} BY <1>1, <1>3, <2>1 DEF AllLayers
    <3>2. QED BY <2>1, <3>1 DEF Before
  <2>2. CASE layer = "daemon"
    <3>1. K = {1} BY <1>1, <1>3, <2>2 DEF AllLayers
    <3>2. QED BY <1>1, <2>2, <3>1 DEF Before
  <2>3. CASE layer = "model"
    <3>1. K = {1, 2} BY <1>1, <1>3, <2>3 DEF AllLayers
    <3>2. QED BY <1>1, <2>3, <3>1 DEF Before
  <2>4. CASE layer = "generation"
    <3>1. K = {1, 2, 3} BY <1>1, <1>3, <2>4 DEF AllLayers
    <3>2. QED BY <1>1, <2>4, <3>1 DEF Before
  <2>5. QED BY <2>1, <2>2, <2>3, <2>4 DEF AllLayers
<1>5. QED BY <1>2, <1>4

\* A probe that fails reports the layers before the one that failed.
LEMMA FailureIsIll ==
  ASSUME NEW layer \in AllLayers, FailsAt(layer)
  PROVE  /\ health'.status = Status(layer)
         /\ health'.layers = Before(layer)
         /\ probing' = "asked"
BY LayersAre DEF FailsAt

\* The statuses differ from each other and from that of a healthy model.
LEMMA StatusIs ==
  /\ {Status(layer) : layer \in AllLayers}
       = {"NOT_INSTALLED", "DAEMON_OFFLINE", "MODEL_MISSING",
          "MODEL_UNLOADABLE"}
  /\ \A layer \in AllLayers : Status(layer) # "HEALTHY"
BY DEF Status, AllLayers

-----------------------------------------------------------------------------
(* The questions *)

LEMMA ProbesAre ==
  /\ Len(Probes) = 7 /\ DOMAIN Probes = 1..7
  /\ Probes[1] = "structured_json" /\ Probes[2] = "tool_selection"
  /\ Probes[3] = "repository_understanding" /\ Probes[4] = "code_patch"
  /\ Probes[5] = "debugging" /\ Probes[6] = "long_context"
  /\ Probes[7] = "instruction_following"
BY DEF Probes

\* Not more of the questions of a kind are passed than there are, and as
\* many only if all are.
LEMMA PassedOf ==
  ASSUME replies \in Seq(Replies), Len(replies) = 7,
         NEW names, NEW K \in SUBSET (1..7), IsFiniteSet(K),
         \A k \in 1..7 : Probes[k] \in names <=> k \in K
  PROVE  /\ Passed(names) \in Nat
         /\ Passed(names) <= Cardinality(K)
         /\ Passed(names) = Cardinality(K) =>
              \A k \in K : replies[k] = "pass"
<1> DEFINE P == {k \in DOMAIN replies : Probes[k] \in names
                                        /\ replies[k] = "pass"}
<1>1. DOMAIN replies = 1..7 OBVIOUS
<1>2. P \in SUBSET K BY <1>1
<1>3. Passed(names) = Cardinality(P) BY DEF Passed
<1>4. \A k \in P : replies[k] = "pass" OBVIOUS
<1> HIDE DEF P
<1>5. /\ IsFiniteSet(P) /\ Cardinality(P) <= Cardinality(K)
      /\ Cardinality(K) = Cardinality(P) => K = P
  BY <1>2, FS_Subset
<1>6. Cardinality(P) \in Nat BY <1>5, FS_CardinalityType
<1>7. QED BY <1>3, <1>4, <1>5, <1>6

LEMMA ThreeAre ==
  ASSUME NEW a, NEW b, NEW c, a # b, a # c, b # c
  PROVE  IsFiniteSet({a, b, c}) /\ Cardinality({a, b, c}) = 3
<1>1. IsFiniteSet({}) /\ Cardinality({}) = 0 BY FS_EmptySet
<1>2. IsFiniteSet({} \cup {a}) /\ Cardinality({} \cup {a}) = 1
  BY <1>1, FS_AddElement
<1>3. /\ IsFiniteSet(({} \cup {a}) \cup {b})
      /\ Cardinality(({} \cup {a}) \cup {b}) = 2
  BY <1>2, FS_AddElement
<1>4. /\ IsFiniteSet((({} \cup {a}) \cup {b}) \cup {c})
      /\ Cardinality((({} \cup {a}) \cup {b}) \cup {c}) = 3
  BY <1>3, FS_AddElement
<1>5. (({} \cup {a}) \cup {b}) \cup {c} = {a, b, c} OBVIOUS
<1>6. QED BY <1>4, <1>5

LEMMA ThreePassed ==
  ASSUME replies \in Seq(Replies), Len(replies) = 7,
         NEW a \in 1..7, NEW b \in 1..7, NEW c \in 1..7,
         a # b, a # c, b # c, NEW names,
         \A k \in 1..7 : Probes[k] \in names <=> (k = a \/ k = b \/ k = c)
  PROVE  /\ Passed(names) \in 0..3
         /\ Passed(names) = 3 => /\ replies[a] = "pass"
                                 /\ replies[b] = "pass"
                                 /\ replies[c] = "pass"
<1> DEFINE K == {a, b, c}
<1>1. IsFiniteSet(K) /\ Cardinality(K) = 3 BY ThreeAre, Zenon
<1>2. /\ K \in SUBSET (1..7)
      /\ \A k \in 1..7 : Probes[k] \in names <=> k \in K
      /\ a \in K /\ b \in K /\ c \in K
  OBVIOUS
<1> HIDE DEF K
<1>3. QED BY <1>1, <1>2, PassedOf

\* A model reaches 70 percent without one of the tool questions only by
\* passing all the others.
LEMMA WithoutTools ==
  ASSUME replies \in Seq(Replies), Len(replies) = 7, 10 * Overall >= 7 * 12,
         NEW k \in {1, 2}, replies[k] # "pass"
  PROVE  \A j \in DOMAIN replies : j # k => replies[j] = "pass"
<1> DEFINE c == Passed(Coding)
           r == Passed(Reasoning)
           s == Passed({"structured_json"})
           t == Passed({"tool_selection"})
<1>1. /\ c \in 0..3
      /\ c = 3 => /\ replies[4] = "pass" /\ replies[5] = "pass"
                  /\ replies[7] = "pass"
  <2>1. \A j \in 1..7 : Probes[j] \in Coding <=> (j = 4 \/ j = 5 \/ j = 7)
    BY ProbesAre DEF Coding
  <2>2. QED BY <2>1, ThreePassed
<1>2. /\ r \in 0..3
      /\ r = 3 => /\ replies[3] = "pass" /\ replies[5] = "pass"
                  /\ replies[6] = "pass"
  <2>1. \A j \in 1..7 : Probes[j] \in Reasoning <=> (j = 3 \/ j = 5 \/ j = 6)
    BY ProbesAre DEF Reasoning
  <2>2. QED BY <2>1, ThreePassed
<1>3. ASSUME NEW j \in {1, 2}
      PROVE  LET p == Passed({Probes[j]})
             IN  p \in {0, 1} /\ (p = 1 => replies[j] = "pass")
  <2>1. \A i \in 1..7 : Probes[i] \in {Probes[j]} <=> i \in {j}
    BY ProbesAre
  <2>2. {j} \in SUBSET (1..7) OBVIOUS
  <2>3. IsFiniteSet({j}) /\ Cardinality({j}) = 1 BY FS_Singleton
  <2> DEFINE p == Passed({Probes[j]})
  <2>4. p \in Nat /\ p <= 1 /\ (p = 1 => \A i \in {j} : replies[i] = "pass")
    BY <2>1, <2>2, <2>3, PassedOf
  <2> HIDE DEF p
  <2>5. p \in {0, 1} BY <2>4
  <2>6. QED BY <2>4, <2>5 DEF p
<1>4. /\ s \in {0, 1} /\ (s = 1 => replies[1] = "pass")
      /\ t \in {0, 1} /\ (t = 1 => replies[2] = "pass")
  BY <1>3, ProbesAre
<1>5. 10 * (c + 3 * s + 3 * t + r) >= 84 BY DEF Overall
<1> HIDE DEF c, r, s, t
<1>6. c = 3 /\ r = 3 /\ (k = 1 => s = 0 /\ t = 1) /\ (k = 2 => t = 0 /\ s = 1)
  <2>1. CASE k = 1
    <3>1. s = 0 BY <1>4, <2>1
    <3>2. QED BY <1>1, <1>2, <1>4, <1>5, <2>1, <3>1
  <2>2. CASE k = 2
    <3>1. t = 0 BY <1>4, <2>2
    <3>2. QED BY <1>1, <1>2, <1>4, <1>5, <2>2, <3>1
  <2>3. QED BY <2>1, <2>2
<1>7. DOMAIN replies = 1..7 OBVIOUS
<1>8. \A j \in 3..7 : replies[j] = "pass"
  BY <1>1, <1>2, <1>6
<1>9. QED BY <1>4, <1>6, <1>7, <1>8

-----------------------------------------------------------------------------
(* The steps *)

LEMMA DoctorStart == DoctorInit => DoctorInv
BY DEF Probings, DoctorInit, ModelInit, DoctorInv, HeardFirst, InTurn,
       QualifiedAnswered, QualifiedCanUseTools, HealthyWasSeen,
       PlanCoversMatrix

\* While nothing is concluded nothing is diagnosed.
LEMMA NothingYet ==
  ASSUME probing' # "ended", diagnosis' = NotAsked
  PROVE  HealthyWasSeen' /\ PlanCoversMatrix'
BY DEF HealthyWasSeen, PlanCoversMatrix

LEMMA ProbeKeeps ==
  ASSUME DoctorInv,
         ProbeBinary \/ ProbeVersion \/ ProbeTags \/ ProbeGeneration,
         UNCHANGED <<machine, diagnosis>>
  PROVE  DoctorInv'
<1>1. /\ probing \in Probings
      /\ health = NotAsked /\ result = NotAsked /\ diagnosis = NotAsked
      /\ UNCHANGED <<replies, result, diagnosis>>
  BY DEF ProbeBinary, ProbeVersion, ProbeTags, ProbeGeneration, DoctorInv,
         InTurn, Probings
<1>2. HeardFirst \subseteq heard /\ heard \subseteq AllLayers
      /\ replies \in Seq(Replies)
  BY DEF DoctorInv
<1>3. /\ heard \subseteq heard' /\ heard' \subseteq AllLayers
      /\ \/ /\ probing' \in Probings /\ health' = health
            /\ HeardFirst' \subseteq heard'
         \/ /\ probing' = "questions" /\ Healthy(health')
            /\ heard' = AllLayers
         \/ /\ probing' = "asked" /\ (Ill(health') \/ health' = Raised)
            /\ health'.layers \subseteq heard'
  <2>1. CASE ProbeBinary
    <3>1. CASE installed
      BY <1>1, <1>2, <2>1, <3>1 DEF ProbeBinary, HeardFirst, AllLayers,
                                    Probings
    <3>2. CASE ~installed
      <4>1. FailsAt("binary") /\ heard' = heard
        BY <2>1, <3>2 DEF ProbeBinary
      <4>2. "binary" \in AllLayers /\ Before("binary") = {}
        BY DEF AllLayers, Before
      <4>3. QED BY <1>2, <4>1, <4>2, FailureIsIll DEF Ill
    <3>3. QED BY <3>1, <3>2
  <2>5. CASE ProbeVersion
    <3>1. "binary" \in heard BY <1>2, <2>5 DEF ProbeVersion, HeardFirst
    <3>2. CASE FailsAt("daemon") /\ heard' = heard
      <4>1. "daemon" \in AllLayers /\ Before("daemon") = {"binary"}
        BY DEF AllLayers, Before
      <4>2. QED BY <1>2, <3>1, <3>2, <4>1, FailureIsIll DEF Ill
    <3>3. CASE ~(FailsAt("daemon") /\ heard' = heard)
      <4>1. probing' = "tags" /\ heard' = heard \cup {"daemon"}
            /\ health' = health
        BY <2>5, <3>3 DEF ProbeVersion
      <4>2. QED BY <1>2, <3>1, <4>1 DEF HeardFirst, AllLayers, Probings
    <3>4. QED BY <3>2, <3>3
  <2>2. CASE ProbeTags
    <3>1. {"binary", "daemon"} \subseteq heard
      BY <1>2, <2>2 DEF ProbeTags, HeardFirst
    <3>2. CASE FailsAt("daemon") /\ heard' = heard
      <4>1. "daemon" \in AllLayers /\ Before("daemon") = {"binary"}
        BY DEF AllLayers, Before
      <4>2. QED BY <1>2, <3>1, <3>2, <4>1, FailureIsIll DEF Ill
    <3>5. CASE Raises /\ heard' = heard
      BY <1>2, <3>5 DEF Raises, Raised
    <3>3. CASE /\ ~(FailsAt("daemon") /\ heard' = heard)
               /\ ~(Raises /\ heard' = heard)
      <4>1. /\ heard' = heard \cup (ollama \cap {"model"})
            /\ IF "model" \in ollama
               THEN probing' = "generation" /\ UNCHANGED health
               ELSE FailsAt("model")
        BY <2>2, <3>3 DEF ProbeTags
      <4>2. CASE "model" \in ollama
        BY <1>1, <1>2, <3>1, <4>1, <4>2 DEF HeardFirst, AllLayers, Probings
      <4>3. CASE "model" \notin ollama
        <5>1. /\ "model" \in AllLayers
              /\ Before("model") = {"binary", "daemon"}
          BY DEF AllLayers, Before
        <5>2. heard' = heard /\ FailsAt("model")
          BY <4>1, <4>3
        <5>3. heard' \subseteq AllLayers BY <1>2, <5>2
        <5>4. QED BY <3>1, <5>1, <5>2, <5>3, FailureIsIll DEF Ill
      <4>4. QED BY <4>2, <4>3
    <3>4. QED BY <3>2, <3>3, <3>5
  <2>3. CASE ProbeGeneration
    <3>1. {"binary", "daemon", "model"} \subseteq heard
      BY <1>2, <2>3 DEF ProbeGeneration, HeardFirst
    <3>2. CASE FailsAt("generation") /\ heard' = heard
      <4>1. /\ "generation" \in AllLayers
            /\ Before("generation") = {"binary", "daemon", "model"}
        BY DEF AllLayers, Before
      <4>2. QED BY <1>2, <3>1, <3>2, <4>1, FailureIsIll DEF Ill
    <3>5. CASE Raises /\ heard' = heard
      BY <1>2, <3>5 DEF Raises, Raised
    <3>3. CASE /\ ~(FailsAt("generation") /\ heard' = heard)
               /\ ~(Raises /\ heard' = heard)
      <4>1. /\ health' = [status |-> "HEALTHY",
                          layers |-> {Layers[k] : k \in 1..4}]
            /\ probing' = "questions"
            /\ heard' = heard \cup {"generation"}
        BY <2>3, <3>3 DEF ProbeGeneration
      <4>2. Healthy(health') BY <4>1, LayersAre DEF Healthy
      <4>3. heard' = AllLayers BY <1>2, <3>1, <4>1 DEF AllLayers
      <4>4. QED BY <1>2, <4>1, <4>2, <4>3
    <3>4. QED BY <3>2, <3>3, <3>5
  <2>4. QED BY <2>1, <2>2, <2>3, <2>5
<1>4. HeardFirst' \subseteq heard' BY <1>3 DEF HeardFirst
<1>5. InTurn' BY <1>1, <1>3 DEF InTurn, Healthy, Ill, Probings
<1>6. QualifiedAnswered' /\ QualifiedCanUseTools'
  BY <1>1 DEF QualifiedAnswered, QualifiedCanUseTools
<1>7. HealthyWasSeen' /\ PlanCoversMatrix'
  <2>1. probing' # "ended" /\ diagnosis' = NotAsked
    BY <1>1, <1>3 DEF Probings
  <2>2. QED BY <2>1, NothingYet
<1>8. QED BY <1>1, <1>2, <1>3, <1>4, <1>5, <1>6, <1>7 DEF DoctorInv

LEMMA AskKeeps ==
  ASSUME DoctorInv, NEW reply \in Replies, Ask(reply),
         UNCHANGED <<machine, diagnosis>>
  PROVE  DoctorInv'
<1>1. /\ probing = "questions" /\ result = NotAsked /\ diagnosis = NotAsked
      /\ replies' = Append(replies, reply)
      /\ UNCHANGED <<probing, health, result, heard, diagnosis>>
  BY DEF Ask, DoctorInv, InTurn
<1>2. replies' \in Seq(Replies) BY <1>1 DEF DoctorInv
<1>3. HeardFirst' \subseteq heard' /\ heard' \subseteq AllLayers
  BY <1>1 DEF DoctorInv, HeardFirst
<1>4. InTurn' BY <1>1 DEF DoctorInv, InTurn, Healthy, Ill, Probings
<1>5. QualifiedAnswered' /\ QualifiedCanUseTools'
  BY <1>1 DEF QualifiedAnswered, QualifiedCanUseTools
<1>6. HealthyWasSeen' /\ PlanCoversMatrix' BY <1>1, NothingYet
<1>7. QED BY <1>1, <1>2, <1>3, <1>4, <1>5, <1>6 DEF DoctorInv

LEMMA ConcludeKeeps ==
  ASSUME DoctorInv, Conclude, UNCHANGED <<machine, diagnosis>>
  PROVE  DoctorInv'
<1>1. /\ probing = "questions" /\ probing' = "asked" /\ diagnosis = NotAsked
      /\ Len(replies) = Len(Probes) /\ replies \in Seq(Replies)
      /\ Healthy(health)
      /\ UNCHANGED <<health, replies, heard, diagnosis>>
  BY DEF Conclude, DoctorInv, InTurn
<1>2. Len(replies) = 7 BY <1>1, ProbesAre
<1>3. result'.qualified => /\ 10 * Overall >= 7 * 12
                           /\ Responded = DOMAIN Probes
  BY DEF Conclude
<1>4. result'.qualified => AllAnswered
  BY <1>1, <1>2, <1>3, ProbesAre DEF Responded, AllAnswered
<1>5. HeardFirst' \subseteq heard' /\ heard' \subseteq AllLayers
  BY <1>1 DEF DoctorInv, HeardFirst
<1>6. InTurn' BY <1>1 DEF DoctorInv, InTurn, Healthy, Ill, Probings
<1>7. QualifiedAnswered'
  BY <1>1, <1>4 DEF QualifiedAnswered, AllAnswered, Healthy
<1>8. QualifiedCanUseTools'
  BY <1>1, <1>2, <1>3, WithoutTools DEF QualifiedCanUseTools
<1>9. HealthyWasSeen' /\ PlanCoversMatrix' BY <1>1, NothingYet
<1>10. QED BY <1>1, <1>5, <1>6, <1>7, <1>8, <1>9 DEF DoctorInv

LEMMA ShiftKeeps ==
  ASSUME DoctorInv, UNCHANGED <<probing, health, replies, result, heard,
                                machine, diagnosis>>
  PROVE  DoctorInv'
<1>1. HeardFirst' \subseteq heard' /\ heard' \subseteq AllLayers
  BY DEF DoctorInv, HeardFirst
<1>2. InTurn' BY DEF DoctorInv, InTurn, Healthy, Ill
<1>3. QualifiedAnswered'
  BY DEF DoctorInv, QualifiedAnswered, AllAnswered, Healthy
<1>4. QualifiedCanUseTools' BY DEF DoctorInv, QualifiedCanUseTools
<1>5. HealthyWasSeen' BY DEF DoctorInv, HealthyWasSeen
<1>6. PlanCoversMatrix' BY DEF DoctorInv, PlanCoversMatrix
<1>7. QED BY <1>1, <1>2, <1>3, <1>4, <1>5, <1>6 DEF DoctorInv

\* What the checks with a name of their own say.
LEMMA ChecksAre ==
  /\ CheckOf("Ollama + model")
       = Either(health.status = "HEALTHY", "unavailable")
  /\ CheckOf("Model qualification suite") = CheckQualification
  /\ CheckOf("ast-grep") = Either(machine.astGrep = "works", "degraded")
  /\ CheckOf("ast-grep (optional)")
       = Either(machine.astGrep = "works", "degraded")
  /\ CheckOf("Browser verification")
       = Either(machine.browser = "works", "degraded")
BY DEF CheckOf

LEMMA MatrixIs ==
  /\ MatrixOf("model_reasoning") = CheckOf("Ollama + model")
  /\ MatrixOf("browser_verification") = CheckOf("Browser verification")
  /\ MatrixOf("structural_search")
       = Either(machine.astGrep = "works", "degraded")
<1>1. Source("model_reasoning") = "Ollama + model" BY DEF Source
<1>2. Source("browser_verification") = "Browser verification" BY DEF Source
<1>3. Source("structural_search") = "ast-grep (optional)" BY DEF Source
<1>4. {"Ollama + model", "Browser verification"} \subseteq CheckNames
  BY DEF CheckNames, MachineChecks
<1>5. QED BY <1>1, <1>2, <1>3, <1>4, ChecksAre DEF MatrixOf

\* What the plan is to repair, of each of its kinds.
LEMMA PlanIs ==
  ASSUME health = Raised \/ health.status = "HEALTHY"
           \/ health.status \in {Status(layer) : layer \in AllLayers}
  PROVE  /\ (\E k \in 1..4 : Status(Layers[k]) \in FixPlan)
              <=> health # Raised /\ health.status # "HEALTHY"
         /\ "ast-grep (optional)" \in FixPlan <=> machine.astGrep # "works"
         /\ "Playwright" \in FixPlan <=> machine.browser # "works"
         /\ \A l \in Languages : l \in FixPlan <=> LspStatus(l) # "healthy"
<1> DEFINE layers == IF health # Raised /\ health.status # "HEALTHY"
                     THEN {health.status} ELSE {}
           search == {name \in {"ast-grep (optional)"} \cap CheckNames :
                        CheckOf(name) # "healthy"}
           browser == IF machine.browser # "works" THEN {"Playwright"} ELSE {}
           servers == {l \in Languages : LspStatus(l) # "healthy"}
           statuses == {Status(layer) : layer \in AllLayers}
<1>1. FixPlan = layers \cup search \cup browser \cup servers
  BY DEF FixPlan
<1>2. {Status(Layers[k]) : k \in 1..4} = statuses BY LayersAre
<1>3. Languages \cap (statuses \cup {"ast-grep (optional)", "Playwright"})
        = {}
  BY <1>2, DoctorAssumption DEF DoctorAssumption
<1>4. /\ "ast-grep (optional)" \notin statuses
      /\ "Playwright" \notin statuses
      /\ "HEALTHY" \notin statuses
  BY StatusIs
<1>5. search = IF machine.astGrep # "works" THEN {"ast-grep (optional)"}
               ELSE {}
  <2>1. "ast-grep (optional)" \in CheckNames
          <=> machine.astGrep # "works"
    BY DoctorAssumption
    DEF DoctorAssumption, CheckNames, AstGrepCheck, MachineChecks
  <2>2. CheckOf("ast-grep (optional)") # "healthy"
          <=> machine.astGrep # "works"
    BY ChecksAre DEF Either
  <2>3. QED BY <2>1, <2>2
<1>6. layers \subseteq statuses BY <1>4
<1>7. servers \subseteq Languages OBVIOUS
<1> HIDE DEF search, servers, statuses
<1>8. (\E k \in 1..4 : Status(Layers[k]) \in FixPlan)
        <=> health # Raised /\ health.status # "HEALTHY"
  <2>1. (\E k \in 1..4 : Status(Layers[k]) \in FixPlan)
          <=> (\E x \in statuses : x \in FixPlan)
    BY <1>2
  <2>2. \A x \in statuses : x \in FixPlan <=> x \in layers
    BY <1>1, <1>3, <1>4, <1>5, <1>7
  <2>3. QED BY <2>1, <2>2, <1>4, <1>6 DEF statuses
<1>9. "ast-grep (optional)" \in FixPlan <=> machine.astGrep # "works"
  BY <1>1, <1>3, <1>4, <1>5, <1>6, <1>7
<1>10. "Playwright" \in FixPlan <=> machine.browser # "works"
  BY <1>1, <1>3, <1>4, <1>5, <1>6, <1>7
<1>11. ASSUME NEW l \in Languages
       PROVE  l \in FixPlan <=> LspStatus(l) # "healthy"
  <2>1. l \in FixPlan <=> l \in servers
    BY <1>1, <1>3, <1>5, <1>6, <1>11
  <2>2. QED BY <2>1, <1>11 DEF servers
<1>12. QED BY <1>8, <1>9, <1>10, <1>11

LEMMA DoctorKeeps ==
  ASSUME DoctorInv, RunDoctor
  PROVE  DoctorInv'
<1>1. /\ probing = "asked" /\ probing' = "ended"
      /\ UNCHANGED <<health, replies, result, heard, machine>>
      /\ diagnosis' = [verdict |-> Verdict, plan |-> FixPlan,
                       matrix |-> [c \in Capabilities |-> MatrixOf(c)],
                       lsp |-> [l \in Languages |-> LspStatus(l)]]
  BY DEF RunDoctor
<1>2. /\ Healthy(health) \/ Ill(health) \/ health = Raised
      /\ health.layers \subseteq heard /\ heard \subseteq AllLayers
  BY <1>1 DEF DoctorInv, InTurn
<1>3. HeardFirst' \subseteq heard' /\ heard' \subseteq AllLayers
  BY <1>1 DEF DoctorInv, HeardFirst
<1>4. InTurn' BY <1>1 DEF DoctorInv, InTurn, Healthy, Ill, Probings
<1>5. QualifiedAnswered'
  BY <1>1 DEF DoctorInv, QualifiedAnswered, AllAnswered, Healthy
<1>6. QualifiedCanUseTools' BY <1>1 DEF DoctorInv, QualifiedCanUseTools
<1>7. HealthyWasSeen'
  <2>1. SUFFICES ASSUME Verdict = "healthy"
                 PROVE  heard = AllLayers /\ AllAnswered
    BY <1>1, LayersAre DEF HealthyWasSeen, AllAnswered
  <2>2. "Model qualification suite" \in CheckNames
    BY DEF CheckNames, MachineChecks
  <2>3. CheckQualification # "degraded"
    BY <2>1, <2>2, ChecksAre DEF Verdict
  <2>4. result # NotAsked /\ result.qualified
    BY <2>3 DEF CheckQualification
  <2>5. Healthy(health) /\ AllAnswered
    BY <2>4 DEF DoctorInv, QualifiedAnswered
  <2>6. QED BY <1>2, <2>5 DEF Healthy
<1>8. PlanCoversMatrix'
  <2> DEFINE m == diagnosis'.matrix
  <2>1. /\ m["model_reasoning"] = MatrixOf("model_reasoning")
        /\ m["structural_search"] = MatrixOf("structural_search")
        /\ m["browser_verification"] = MatrixOf("browser_verification")
    BY <1>1 DEF Capabilities
  <2>2. /\ \A l \in Languages : diagnosis'.lsp[l] = LspStatus(l)
        /\ diagnosis'.plan = FixPlan
    BY <1>1
  <2> HIDE DEF m
  <2>3. /\ m["model_reasoning"] # "healthy"
             <=> health.status # "HEALTHY"
        /\ m["structural_search"] # "healthy"
             <=> machine.astGrep # "works"
        /\ m["browser_verification"] # "healthy"
             <=> machine.browser # "works"
    BY <2>1, MatrixIs, ChecksAre DEF Either
  <2>4. health = Raised \/ health.status = "HEALTHY"
          \/ health.status \in {Status(layer) : layer \in AllLayers}
    BY <1>2 DEF Healthy, Ill
  <2>5. /\ m["model_reasoning"] # "healthy" /\ health # Raised
             <=> (\E k \in 1..4 : Status(Layers[k]) \in FixPlan)
        /\ m["structural_search"] # "healthy"
             <=> "ast-grep (optional)" \in FixPlan
        /\ m["browser_verification"] # "healthy"
             <=> "Playwright" \in FixPlan
    BY <2>3, <2>4, PlanIs, Zenon
  <2>6. \A l \in Languages :
          diagnosis'.lsp[l] # "healthy" <=> l \in FixPlan
    BY <2>2, <2>4, PlanIs, Zenon
  <2>7. Raised' = Raised /\ health' = health
    BY <1>1 DEF Raised
  <2>8. QED BY <2>2, <2>5, <2>6, <2>7 DEF PlanCoversMatrix, m
<1>9. probing' \in Probings \cup {"questions", "asked", "ended"}
  BY <1>1
<1>10. replies' \in Seq(Replies)
  BY <1>1 DEF DoctorInv
<1>11. QED BY <1>3, <1>4, <1>5, <1>6, <1>7, <1>8, <1>9, <1>10 DEF DoctorInv

LEMMA DoctorStep == DoctorInv /\ [DoctorNext]_doctorVars => DoctorInv'
<1> SUFFICES ASSUME DoctorInv, [DoctorNext]_doctorVars PROVE DoctorInv'
  OBVIOUS
<1>1. CASE Inquire /\ UNCHANGED <<machine, diagnosis>>
  <2>1. CASE \E reply \in {"pass", "fail", "none"} : Ask(reply)
    BY <1>1, <2>1, AskKeeps DEF Replies
  <2>2. QED BY <1>1, <2>1, ProbeKeeps, ConcludeKeeps DEF Inquire
<1>2. CASE RunDoctor BY <1>2, DoctorKeeps
<1>3. CASE OllamaShifts /\ UNCHANGED <<machine, diagnosis>>
  BY <1>3, ShiftKeeps DEF OllamaShifts
<1>4. CASE UNCHANGED doctorVars
  BY <1>4, ShiftKeeps DEF doctorVars, modelVars
<1>5. QED BY <1>1, <1>2, <1>3, <1>4 DEF DoctorNext, Examine

\* What `skytrap doctor` says of the model was seen in this very run, a model
\* that cannot use tools is not called qualified, and the matrix of the
\* planner and the plan of repairs agree, whatever Ollama did meanwhile, for
\* every machine.  (doctor.py, ollama.py:41-134, qualification.py:106-113)
THEOREM DiagnosisHolds == DoctorSpec => []DiagnosisIsTrue
<1>1. DoctorInit => DoctorInv BY DoctorStart
<1>2. DoctorInv /\ [DoctorNext]_doctorVars => DoctorInv' BY DoctorStep
<1>3. DoctorInv => DiagnosisIsTrue
  <2>1. DoctorInv => LayersAnswered
    BY DEF DoctorInv, InTurn, LayersAnswered
  <2>2. QED BY <2>1 DEF DoctorInv, DiagnosisIsTrue
<1>4. QED BY <1>1, <1>2, <1>3, PTL DEF DoctorSpec

=============================================================================
