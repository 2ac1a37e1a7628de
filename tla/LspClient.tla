----------------------------- MODULE LspClient -----------------------------
(***************************************************************************)
(* One request of LanguageIntelligenceProvider (intelligence/lsp.py): a    *)
(* language server is started for it, spoken to over two pipes, and ended. *)
(* What the server writes passes through the pipe, which the selector      *)
(* watches, and the reader's buffer, which it does not.  A message is      *)
(* written and read in two pieces, its header and its body.                *)
(***************************************************************************)
EXTENDS Integers, Sequences

CONSTANTS ServerIds,  \* the ids of the server's own requests; 0 is none
          Capacity,   \* messages that the server's input holds
          MaxOther    \* bound: messages that are no response

VARIABLES
  call,      \* where _request is: the next of Steps, or a place
  hasPath,   \* the request is about a document
  process,   \* the server: "none", "running", "ended"
  stdin,     \* what the client wrote and the server did not take
  owed,      \* requests the server took and did not answer
  speaking,  \* the messages it has begun to write
  others,    \* messages that were no response
  stdout,    \* pieces in the pipe
  buffer,    \* pieces in the reader's buffer
  supported, \* the result
  replied,   \* history: requests the server answered
  posed      \* history: ids it has put on requests of its own

lspVars == <<call, hasPath, process, stdin, owed, speaking, others, stdout,
             buffer, supported, replied, posed>>
serverState == <<process, stdin, owed, speaking, others, stdout, replied,
                 posed>>

\* What _request does with the process, in order.
Steps == <<"initialize", "wait 1", "initialized", "didOpen", "method",
           "wait 2">>
Requests == {"initialize", "method"}
Id(what) == IF what = "initialize" THEN 1 ELSE 2
Awaited == IF call \in {"wait 1", "read 1"} THEN 1 ELSE 2

LspMessage(id, kind) == [id |-> id, kind |-> kind]
Piece(message, part) == [message |-> message, part |-> part]

LspInit == /\ call = "start" /\ hasPath \in BOOLEAN
           /\ process = "none" /\ stdin = <<>> /\ owed = {}
           /\ speaking = <<>> /\ others = 0
           /\ stdout = <<>> /\ buffer = <<>>
           /\ supported = FALSE /\ replied = {} /\ posed = {}

Raise == call' = "finally"

-----------------------------------------------------------------------------
(* The server *)

ServerTakes ==
  /\ process = "running" /\ stdin # <<>>
  /\ stdin' = Tail(stdin)
  /\ owed' = IF Head(stdin) \in Requests THEN owed \cup {Id(Head(stdin))}
             ELSE owed
  /\ UNCHANGED <<call, hasPath, process, speaking, others, stdout, buffer,
                 supported, replied, posed>>

Utter(message) ==
  /\ process = "running" /\ speaking = <<>>
  /\ speaking' = <<message>>
  /\ stdout' = Append(stdout, Piece(message, "header"))

ServerReplies ==
  /\ \E id \in owed, kind \in {"result", "error"} :
       /\ Utter(LspMessage(id, kind))
       /\ owed' = owed \ {id} /\ replied' = replied \cup {id}
  /\ UNCHANGED <<call, hasPath, process, stdin, others, buffer, supported,
                 posed>>

\* A notification, or a request of the server's own, which numbers its
\* requests as it likes.
ServerNotifies ==
  /\ others < MaxOther /\ others' = others + 1
  /\ \E id \in ServerIds : /\ Utter(LspMessage(id, "other"))
                          /\ posed' = posed \cup ({id} \ {0})
  /\ UNCHANGED <<call, hasPath, process, stdin, owed, buffer, supported,
                 replied>>

ServerFinishes ==
  /\ process = "running" /\ speaking # <<>>
  /\ stdout' = Append(stdout, Piece(speaking[1], "body"))
  /\ speaking' = <<>>
  /\ UNCHANGED <<call, hasPath, process, stdin, owed, others, buffer,
                 supported, replied, posed>>

ServerExits ==
  /\ process = "running" /\ process' = "ended"
  /\ UNCHANGED <<call, hasPath, stdin, owed, speaking, others, stdout,
                 buffer, supported, replied, posed>>

-----------------------------------------------------------------------------
(* The client *)

After(step) ==
  LET k == CHOOSE k \in DOMAIN Steps : Steps[k] = step
  IN  IF step = "initialized" /\ ~hasPath THEN "method" ELSE Steps[k + 1]

\* Popen itself may raise, and then there is nothing to end.
Spawn ==
  /\ call = "start"
  /\ \/ call' = "initialize" /\ process' = "running"
     \/ call' = "returned" /\ UNCHANGED process
  /\ UNCHANGED <<hasPath, stdin, owed, speaking, others, stdout, buffer,
                 supported, replied, posed>>

\* _write: it blocks while the pipe is full, and raises when nobody reads.
Write(what) ==
  /\ call = what
  /\ IF process = "ended" THEN Raise /\ UNCHANGED stdin
     ELSE /\ Len(stdin) < Capacity
          /\ stdin' = Append(stdin, what)
          /\ call' = After(what)
  /\ UNCHANGED <<hasPath, process, owed, speaking, others, stdout, buffer,
                 supported, replied, posed>>

Waiting == call \in {"wait 1", "wait 2"}
Writing == call \in {"initialize", "initialized", "didOpen", "method"}
Reading == call \in {"read 1", "read 2"}

\* The selector: the pipe has bytes, or its end was reached.
Ready == stdout # <<>> \/ process = "ended"

Select ==
  /\ Waiting /\ Ready
  /\ call' = IF call = "wait 1" THEN "read 1" ELSE "read 2"
  /\ UNCHANGED <<hasPath, serverState, buffer, supported>>

\* Faulty variant of TimesOut: the selector waits for as long as it takes.
NeverGivesUp == FALSE /\ UNCHANGED lspVars

TimesOut == Waiting /\ Raise /\ UNCHANGED <<hasPath, serverState, buffer,
                                            supported>>

\* readline and read take all there is, and block when there is nothing.
Fill ==
  /\ Reading /\ Len(buffer) < 2 /\ stdout # <<>>
  /\ buffer' = buffer \o stdout /\ stdout' = <<>>
  /\ UNCHANGED <<call, hasPath, process, stdin, owed, speaking, others,
                 supported, replied, posed>>

\* The end of the output in the middle of a message, or before it.
EndOfOutput ==
  /\ Reading /\ Len(buffer) < 2 /\ stdout = <<>> /\ process = "ended"
  /\ Raise
  /\ UNCHANGED <<hasPath, serverState, buffer, supported>>

\* Only the id is compared: a request of the server's passes as a response.
Matches(message) == message.id = Awaited

\* An error in the response to initialize goes unread.
Parse ==
  /\ Reading /\ Len(buffer) >= 2
  /\ buffer' = SubSeq(buffer, 3, Len(buffer))
  /\ LET message == buffer[1].message
     IN  IF ~Matches(message)
         THEN /\ call' = IF call = "read 1" THEN "wait 1" ELSE "wait 2"
              /\ UNCHANGED supported
         ELSE IF call = "read 1"
         THEN call' = After("wait 1") /\ UNCHANGED supported
         ELSE call' = "finally" /\ supported' = (message.kind # "error")
  /\ UNCHANGED <<hasPath, serverState>>

\* Faulty variant of Finally: terminate() only, which a server may ignore.
TerminateOnly ==
  /\ call = "finally" /\ call' = "returned"
  /\ process' \in {process, "ended"}
  /\ UNCHANGED <<hasPath, stdin, owed, speaking, others, stdout, buffer,
                 supported, replied, posed>>

\* terminate(), and kill() a second later.
Finally ==
  /\ call = "finally" /\ call' = "returned"
  /\ process' = "ended"
  /\ UNCHANGED <<hasPath, stdin, owed, speaking, others, stdout, buffer,
                 supported, replied, posed>>

-----------------------------------------------------------------------------

Client == \/ Spawn \/ Select \/ TimesOut \/ Fill \/ EndOfOutput \/ Parse
          \/ Finally
          \/ \E what \in {"initialize", "initialized", "didOpen", "method"} :
               Write(what)

LspNext == \/ Client \/ ServerTakes \/ ServerReplies \/ ServerNotifies
           \/ ServerFinishes \/ ServerExits

LspSpec == LspInit /\ [][LspNext]_lspVars

\* Only the client's own thread is relied on, once the server is started.
LspFairness == WF_lspVars(call # "start" /\ Client)

-----------------------------------------------------------------------------
(* Properties *)

\* "bounded subprocess lifetime": when the call has returned, however it
\* ended, no server is left behind.  (lsp.py:28 and 104-110)
ServerIsEnded == call = "returned" => process # "running"

\* What is reported as supported was answered by the server, whatever else
\* it sent, in whatever order and however late; or else the server has put
\* that very id on a request of its own.  (lsp.py:87-98, 153)
OwnAnswer == supported => 2 \in replied \cup posed

\* A call that is over has left nothing that runs and reported nothing that
\* was not answered.
CallIsClean == ServerIsEnded /\ OwnAnswer

\* The call returns, unless the server stops reading with its input full or
\* stops writing in the middle of a message: those waits have no deadline.
\* (timeout=5.0, lsp.py:77 and 141)
CallReturns ==
  \/ (call = "initialize") ~> (call = "returned")
  \/ <>[](Reading /\ Len(buffer) < 2 /\ stdout = <<>> /\ process = "running")
  \/ <>[](Writing /\ Len(stdin) = Capacity /\ process = "running")

=============================================================================
