------------------------------ MODULE Renderer ------------------------------
(***************************************************************************)
(* The presentation of an autonomous run: AgentRenderer of ui/terminal.py  *)
(* fed with the events of autonomy/loop.py, the approval prompt of cli.py, *)
(* and the threads that keep its spinner up to date.  A thread looks at    *)
(* its event, takes self._status and updates it in three steps, the run    *)
(* goes on meanwhile.                                                      *)
(***************************************************************************)
EXTENDS Integers, FiniteSets

CONSTANTS Paths, Existing,  \* files that are changed; those there before
          Spellings,        \* ways to write the path of a file
          MaxActivities,    \* bound: activities
          MaxChanges        \* bound: calls of file tools, changes by others

VARIABLES
  run,         \* "working", "prompt", "ended"
  interactive, \* a terminal
  spinner,     \* _status: the spinner shown, 0 for none
  live,        \* spinners that were started and not stopped
  stopper,     \* _stop_ticker: the event of the thread started last, or 0
  stopped,     \* the events that are set
  ticker,      \* by thread: "none", "waiting", "woken", "holding", "gone"
  held,        \* by thread: the spinner it took
  started,     \* activities
  exists,      \* files there are
  changes,     \* calls of file tools, and changes by others
  outside,     \* history: files that others than the file tools changed
  files        \* the summary's account, by path as it was written

drawVars == <<run, interactive, spinner, live, stopper, stopped, ticker, held,
              started, exists, changes, outside, files>>
threads == <<stopped, ticker, held>>
account == <<exists, changes, outside, files>>

Names == Paths \X Spellings

Activities == 1..MaxActivities

DrawInit ==
  /\ run = "working" /\ interactive \in BOOLEAN
  /\ spinner = 0 /\ live = {} /\ stopper = 0 /\ stopped = {}
  /\ ticker = [n \in Activities |-> "none"] /\ held = [n \in Activities |-> 0]
  /\ started = 0
  /\ exists = Existing /\ changes = 0 /\ outside = {}
  /\ files = [name \in Names |-> "untouched"]

-----------------------------------------------------------------------------
(* The run *)

\* The events that are set when the thread is told to stop.
Told == stopped \cup ({stopper} \ {0})

FinishActivity ==
  /\ stopped' = Told
  /\ stopper' = 0
  /\ live' = live \ {spinner} /\ spinner' = 0

\* What is running ends; then a spinner and its thread, or a line of text.
StartActivity ==
  /\ run = "working" /\ started < MaxActivities
  /\ started' = started + 1
  /\ IF interactive
     THEN LET n == started + 1
          IN  /\ stopped' = Told
              /\ stopper' = n
              /\ live' = (live \ {spinner}) \cup {n} /\ spinner' = n
              /\ ticker' = [ticker EXCEPT ![n] = "waiting"]
     ELSE FinishActivity /\ UNCHANGED ticker
  /\ UNCHANGED <<run, interactive, held, account>>

\* Any other event: printed when the spinner is gone.
HandleEvent ==
  /\ run = "working" /\ spinner # 0 /\ FinishActivity
  /\ UNCHANGED <<run, interactive, ticker, held, started, account>>

\* Faulty variant of Track: what was said first of a file stays.
TrackFirst(name, kind) ==
  [files EXCEPT ![name] = IF @ = "untouched" THEN kind ELSE @]

Track(name, kind) ==
  [files EXCEPT ![name] = IF kind # "modified" \/ @ = "untouched" THEN kind
                          ELSE @]

\* The tool resolves the path and says what it found there, a file or none;
\* the entry is that of the argument as it stands.
ToolResult(name, writes, success) ==
  LET path == name[1] IN
  /\ run = "working" /\ changes < MaxChanges
  /\ FinishActivity
  /\ success /\ ~writes => path \in exists
  /\ changes' = changes + 1
  /\ exists' = IF ~success THEN exists
               ELSE IF writes THEN exists \cup {path} ELSE exists \ {path}
  /\ files' = IF ~success THEN files
              ELSE Track(name, IF ~writes THEN "deleted"
                               ELSE IF path \in exists THEN "modified"
                               ELSE "created")
  /\ UNCHANGED <<run, interactive, ticker, held, started, outside>>

\* A command of run_command, a process in the background or the user.
OthersChange(path) ==
  /\ changes < MaxChanges /\ changes' = changes + 1
  /\ exists' = (exists \ {path}) \cup ({path} \ exists)
  /\ outside' = outside \cup {path}
  /\ UNCHANGED <<run, interactive, spinner, live, stopper, threads, started,
                 files>>

AskApproval ==
  /\ run = "working" /\ run' = "prompt"
  /\ FinishActivity
  /\ UNCHANGED <<interactive, ticker, held, started, account>>

Answered ==
  /\ run = "prompt" /\ run' = "working"
  /\ UNCHANGED <<interactive, spinner, live, stopper, threads, started,
                 account>>

\* The task's last state, an error or the summary.
Ends == /\ run = "working" /\ run' = "ended"
        /\ FinishActivity
        /\ UNCHANGED <<interactive, ticker, held, started, account>>

-----------------------------------------------------------------------------
(* The thread of activity n *)

ThreadStep(n, from, to) ==
  /\ ticker[n] = from
  /\ ticker' = [ticker EXCEPT ![n] = to]
  /\ UNCHANGED <<run, interactive, spinner, live, stopper, stopped, started,
                 account>>

\* Faulty variant of Wake: the event is not looked at.
WakeAnyway(n) == ThreadStep(n, "waiting", "woken") /\ UNCHANGED held

\* stop.wait(0.5)
Wake(n) == /\ ThreadStep(n, "waiting", IF n \in stopped THEN "gone"
                                      ELSE "woken")
           /\ UNCHANGED held

\* self._status may be the spinner of a later activity, or none.
TakeStatus(n) ==
  /\ ThreadStep(n, "woken", IF spinner = 0 THEN "gone" ELSE "holding")
  /\ held' = [held EXCEPT ![n] = spinner]

\* status.update redraws a spinner that is live, and one that was stopped
\* has nothing to draw; whatever it raises ends the thread.
Update(n) == /\ \E to \in {"waiting", "gone"} : ThreadStep(n, "holding", to)
             /\ UNCHANGED held

Tick(n) == Wake(n) \/ TakeStatus(n) \/ Update(n)

-----------------------------------------------------------------------------

DrawNext ==
  \/ StartActivity \/ HandleEvent \/ AskApproval \/ Answered \/ Ends
  \/ \E name \in Names, writes, success \in BOOLEAN :
       ToolResult(name, writes, success)
  \/ \E path \in Paths : OthersChange(path)
  \/ \E n \in Activities : Tick(n)

DrawSpec == DrawInit /\ [][DrawNext]_drawVars

\* The threads are scheduled.
DrawFairness == \A n \in Activities : WF_drawVars(Tick(n))

-----------------------------------------------------------------------------
(* Properties *)

\* There is one spinner at most, the one the renderer knows of, and one
\* thread at most that was not told to stop, through any sequence of events.
\* (start_activity, finish_activity, terminal.py:575-614)
OneSpinner ==
  /\ live = {spinner} \ {0}
  /\ \A n \in Activities :
       ticker[n] \notin {"none", "gone"} /\ n \notin stopped => n = stopper

\* While the user is asked, and when the run is over, no spinner is shown and
\* no thread is left that was not told to stop.  (cli.py:96-104)
QuietWhenAsked ==
  run # "working" =>
    live = {} /\ \A n \in Activities : ticker[n] \in {"none", "gone"}
                                       \/ n \in stopped

\* A thread that was told to stop ends: none outlives the run by more than
\* its own steps.  (_tick, terminal.py:565-573)
ThreadsEnd ==
  \A n \in Activities : (n \in stopped) ~> (ticker[n] = "gone")

\* "so nothing spins forever": not over a prompt, not behind another spinner
\* and not after the end.  (terminal.py:604-606)
NothingSpins == []OneSpinner /\ []QuietWhenAsked /\ ThreadsEnd

\* The entries of a file, one for each way its path was written.
Entries(path) == {name \in Names : name[1] = path
                                   /\ files[name] # "untouched"}

\* Only the file tools changed it, and called it by one name.
ByOneName(path) == /\ path \notin outside
                   /\ \A a, b \in Entries(path) : a = b

\* The summary's account of a file that only the file tools changed, under
\* one name, agrees with what was there before and what is there now, through
\* any sequence of creations, writes, deletions and failures.  A file that is
\* called by two names has two entries, of which each may be out of date.
\* (terminal.py:641-656)
AccountIsTrue ==
  \A p \in Paths : ByOneName(p) =>
    /\ Entries(p) = {} => (p \in exists) = (p \in Existing)
    /\ \A name \in Entries(p) :
         /\ files[name] = "created" => p \in exists
         /\ files[name] = "modified" => p \in exists /\ p \in Existing
         /\ files[name] = "deleted" => p \notin exists

=============================================================================
