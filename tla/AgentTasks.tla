----------------------------- MODULE AgentTasks -----------------------------
(***************************************************************************)
(* Autonomous tasks over HTTP (server/routers/agent_tasks.py): requests    *)
(* that create, resume and stop them, and the threads that run them.  What *)
(* the service does with a task is in AutonomousTask, and the connection   *)
(* is in ConfirmationBridge; here both are reduced to what the requests    *)
(* and the threads see of them.                                            *)
(***************************************************************************)
EXTENDS Integers

CONSTANTS Tasks, MaxSockets, MaxResumes

VARIABLES
  socket,     \* the active connection, 0 if there is none
  sockets,    \* connections so far
  status,     \* of each task, as its file says
  job,        \* the socket its first worker asks on, or NoJob
  resuming,   \* a worker was started to resume it
  sending,    \* its workers that saw a connection and are about to use it
  resumes,    \* requests to resume it
  calls,      \* history: calls of the service for it
  launched,   \* history: workers, those that were killed apart
  reported,   \* history: results they handed to the connection manager
  cut         \* history: times one that was sending lost the connection

connection == <<socket, sockets>>
count == <<resumes, calls, launched, reported, cut>>
httpVars == <<connection, status, job, resuming, sending, count>>

NoJob == -1
Kinds == {"run", "resume"}

HttpInit == /\ socket = 0 /\ sockets = 0
            /\ status = [t \in Tasks |-> "none"]
            /\ job = [t \in Tasks |-> NoJob]
            /\ resuming = [t \in Tasks |-> FALSE]
            /\ sending = [t \in Tasks |-> {}]
            /\ resumes = [t \in Tasks |-> 0]
            /\ calls = [t \in Tasks |-> 0]
            /\ launched = [t \in Tasks |-> 0]
            /\ reported = [t \in Tasks |-> 0]
            /\ cut = [t \in Tasks |-> 0]

Increment(f, t) == [f EXCEPT ![t] = @ + 1]

One(b) == IF b THEN 1 ELSE 0
Sending(t) == One("run" \in sending[t]) + One("resume" \in sending[t])

Open == /\ sockets < MaxSockets
        /\ sockets' = sockets + 1
        /\ socket' = sockets'
        /\ UNCHANGED <<status, job, resuming, sending, count>>

Shut == /\ socket # 0
        /\ socket' = 0
        /\ cut' = [t \in Tasks |-> cut[t] + Sending(t)]
        /\ UNCHANGED <<sockets, status, job, resuming, sending, resumes, calls,
                       launched, reported>>

\* create_agent_task answers 409 without a socket, and when the task is
\* refused its branch; a task with a question is not launched.
Create(t) ==
  /\ socket # 0
  /\ status[t] = "none"
  /\ \E s \in {"blocked", "clarify", "starting"} :
       status' = [status EXCEPT ![t] = s]
  /\ UNCHANGED <<connection, job, resuming, sending, count>>

\* _service took the bridge at its own reading of it, after the check.
Launch(t) ==
  /\ status[t] = "starting"
  /\ status' = [status EXCEPT ![t] = "ready"]
  /\ job' = [job EXCEPT ![t] = socket]
  /\ launched' = Increment(launched, t)
  /\ UNCHANGED <<connection, resuming, sending, resumes, calls, reported, cut>>

Execute(t) ==
  /\ job[t] # NoJob /\ status[t] = "ready"
  /\ status' = [status EXCEPT ![t] = "running"]
  /\ calls' = Increment(calls, t)
  /\ UNCHANGED <<connection, job, resuming, sending, resumes, launched,
                 reported, cut>>

\* The loop ends, or leaves an action that it has no bridge to ask for.
LoopEnds(t) ==
  /\ status[t] = "running"
  /\ \/ status' = [status EXCEPT ![t] = "ended"]
     \/ job[t] = 0 /\ status' = [status EXCEPT ![t] = "held"]
  /\ UNCHANGED <<connection, job, resuming, sending, count>>

\* The branch is gone, or the record cannot be read or saved.
ServiceRaises(t) ==
  /\ job[t] # NoJob /\ status[t] \in {"ready", "running"}
  /\ status' = [status EXCEPT ![t] = "raised"]
  /\ calls' = IF status[t] = "ready" THEN Increment(calls, t) ELSE calls
  /\ UNCHANGED <<connection, job, resuming, sending, resumes, launched,
                 reported, cut>>

\* What a worker does is over: worker() of the resumption assigns to payload,
\* which is local to it then, and reading payload.clarification raises before
\* the service is called.
Finished(t, kind) ==
  IF kind = "run"
  THEN job[t] # NoJob /\ status[t] \in {"ended", "held", "raised"}
  ELSE resuming[t]

Leave(t, kind) ==
  IF kind = "run" THEN job' = [job EXCEPT ![t] = NoJob] /\ UNCHANGED resuming
                  ELSE resuming' = [resuming EXCEPT ![t] = FALSE]
                       /\ UNCHANGED job

\* Faulty variant of Report: it waits for a connection.
ReportWhenOpen(t, kind) ==
  /\ Finished(t, kind) /\ kind \notin sending[t]
  /\ socket # 0
  /\ sending' = [sending EXCEPT ![t] = @ \cup {kind}]
  /\ UNCHANGED <<connection, status, job, resuming, count>>

\* send_from_worker_thread drops the task, or the exception, when there is no
\* connection.
Report(t, kind) ==
  /\ Finished(t, kind) /\ kind \notin sending[t]
  /\ \/ /\ socket = 0
        /\ Leave(t, kind)
        /\ reported' = Increment(reported, t)
        /\ UNCHANGED sending
     \/ /\ socket # 0
        /\ sending' = [sending EXCEPT ![t] = @ \cup {kind}]
        /\ UNCHANGED <<job, resuming, reported>>
  /\ UNCHANGED <<connection, status, resumes, calls, launched, cut>>

\* When there was one, it reads it again; it calls what may be None by now,
\* and raises where nobody catches it.
Send(t, kind) ==
  /\ kind \in sending[t]
  /\ sending' = [sending EXCEPT ![t] = @ \ {kind}]
  /\ Leave(t, kind)
  /\ reported' = IF socket # 0 THEN Increment(reported, t) ELSE reported
  /\ UNCHANGED <<connection, status, resumes, calls, launched, cut>>

\* resume_agent_task answers "resuming", whatever the task is doing.
Resume(t) ==
  /\ socket # 0
  /\ status[t] \notin {"none", "blocked", "starting"} /\ ~resuming[t]
  /\ resumes[t] < MaxResumes
  /\ resuming' = [resuming EXCEPT ![t] = TRUE]
  /\ resumes' = Increment(resumes, t)
  /\ launched' = Increment(launched, t)
  /\ UNCHANGED <<connection, status, job, sending, calls, reported, cut>>

\* stop_agent_task: the loop ends at its next iteration, if it runs.
Stop(t) ==
  /\ status[t] \in {"clarify", "held"}
  /\ status' = [status EXCEPT ![t] = "ended"]
  /\ UNCHANGED <<connection, job, resuming, sending, count>>

\* The server is killed.
Kill == /\ socket' = 0
        /\ job' = [t \in Tasks |-> NoJob]
        /\ resuming' = [t \in Tasks |-> FALSE]
        /\ sending' = [t \in Tasks |-> {}]
        /\ launched' = reported
        /\ status' = [t \in Tasks |-> IF status[t] = "starting" THEN "ready"
                                      ELSE status[t]]
        /\ UNCHANGED <<sockets, resumes, calls, reported, cut>>

HttpWork(t) == \/ Launch(t) \/ Execute(t) \/ LoopEnds(t) \/ ServiceRaises(t)
               \/ \E kind \in Kinds : Report(t, kind) \/ Send(t, kind)

HttpNext == \/ Open \/ Shut \/ Kill
            \/ \E t \in Tasks : \/ Create(t) \/ HttpWork(t)
                               \/ Resume(t) \/ Stop(t)

\* Threads run; a run of the loop need not end (AutonomousTask's Unbounded).
HttpFairness ==
  \A t \in Tasks :
    /\ WF_httpVars(Launch(t))
    /\ WF_httpVars(Execute(t))
    /\ \A kind \in Kinds : WF_httpVars(Report(t, kind) \/ Send(t, kind))

HttpSpec == HttpInit /\ [][HttpNext]_httpVars /\ HttpFairness

-----------------------------------------------------------------------------
\* Workers that have not ended.
Living(t) == One(job[t] # NoJob) + One(resuming[t])

\* A worker hands over once what came of it, a result or an error; if not, the
\* connection that it had seen was closed before it was used.  (the try of
\* _launch and worker, send_from_worker_thread)
NoSilentWorker ==
  \A t \in Tasks : /\ reported[t] + Living(t) <= launched[t]
                   /\ launched[t] <= reported[t] + Living(t) + cut[t]

\* A worker does not outlast its run of the loop, connected or not.  (_launch,
\* and send_from_worker_thread, which never waits)
WorkersEnd == \A t \in Tasks :
                /\ []<>(job[t] = NoJob) \/ <>[](status[t] = "running")
                /\ resuming[t] ~> ~resuming[t]

\* Whatever the service raises and whether the browser is there or not, the
\* thread of a task ends when its run does, and not without handing over what
\* came of it unless the connection goes under its hands.
WorkersReport == []NoSilentWorker /\ WorkersEnd

\* What is reported to the browser is the outcome of a call of the service:
\* "resuming" was answered for a task that is resumed.
\* (agent_tasks.py:134; refuted)
ReportsFollowCalls == \A t \in Tasks : reported[t] <= calls[t]

=============================================================================
