-------------------------- MODULE ManagedProcesses --------------------------
(***************************************************************************)
(* Background processes: the registry in SQLite against the processes of   *)
(* the operating system (src/skytrap/core/processes.py), used by the tools *)
(* of the agent (tools/process.py) and by the command line.  Several runs  *)
(* of SkyTrap start, list and stop processes that outlive them; a process  *)
(* identifier is reused once its process is gone.                          *)
(***************************************************************************)
EXTENDS Naturals, Sequences

CONSTANTS Apps,        \* running SkyTraps
          NoApp,       \* the parent of a process whose SkyTrap ended: init
          Pids,        \* process identifiers
          Free,        \* the holder of a pid that no process has
          Other,       \* any other process of the user
          Alien,       \* a process of another user
          MaxStarts,   \* bound: processes started
          MaxOthers    \* bound: times a pid is taken by another process

ASSUME ProcessAssumption ==
  /\ NoApp \notin Apps
  /\ MaxStarts \in Nat /\ MaxOthers \in Nat
  /\ {Free, Other, Alien} \cap Nat = {}

Children == 1..MaxStarts

VARIABLES
  holder,  \* the process behind each pid
  parent,  \* the SkyTrap that can wait for each child
  zombie,  \* children that exited and that nobody waited for
  starts,  \* children started
  others,  \* pids taken by others so far
  rows,    \* the table: child (history), pid, stopped
  at,      \* where each SkyTrap is in the functions of processes.py
  job      \* the child it starts, or the row it looks at or stops

os == <<holder, parent, zombie, starts, others>>
vars == <<os, rows, at, job>>

Init == /\ holder = [p \in Pids |-> Free]
        /\ parent = [n \in Children |-> NoApp]
        /\ zombie = {}
        /\ starts = 0
        /\ others = 0
        /\ rows = <<>>
        /\ at = [i \in Apps |-> "idle"]
        /\ job = [i \in Apps |-> 0]

Goto(i, label) ==
  /\ at' = [at EXCEPT ![i] = label]
  /\ job' = IF label = "idle" THEN [job EXCEPT ![i] = 0] ELSE job

-----------------------------------------------------------------------------
(* The operating system *)

\* The process behind pid p ends; a child stays a zombie while its SkyTrap
\* runs and has not waited for it.
Ends(p) ==
  IF holder[p] \in Children /\ parent[holder[p]] # NoApp
  THEN zombie' = zombie \cup {holder[p]} /\ UNCHANGED holder
  ELSE holder' = [holder EXCEPT ![p] = Free] /\ UNCHANGED zombie

Runs(p) == holder[p] \notin {Free} \cup zombie

ProcessEnds(p) == /\ Runs(p)
                  /\ Ends(p)
                  /\ UNCHANGED <<parent, starts, others, rows, at, job>>

OtherStarts(p) ==
  /\ holder[p] = Free
  /\ others < MaxOthers
  /\ others' = others + 1
  /\ \E h \in {Other, Alien} : holder' = [holder EXCEPT ![p] = h]
  /\ UNCHANGED <<parent, zombie, starts, rows, at, job>>

\* subprocess itself waits for old children now and then.
Reaped(n) ==
  /\ n \in zombie
  /\ at[parent[n]] # "spawned"
  /\ zombie' = zombie \ {n}
  /\ holder' = [p \in Pids |-> IF holder[p] = n THEN Free ELSE holder[p]]
  /\ UNCHANGED <<parent, starts, others, rows, at, job>>

\* A SkyTrap ends, at any point; its children go on, its zombies are reaped.
AppEnds(i) ==
  /\ parent' = [n \in Children |-> IF parent[n] = i THEN NoApp ELSE parent[n]]
  /\ zombie' = {n \in zombie : parent[n] # i}
  /\ holder' = [p \in Pids |-> IF holder[p] \in zombie \ zombie'
                               THEN Free ELSE holder[p]]
  /\ at' = [at EXCEPT ![i] = "idle"]
  /\ job' = [job EXCEPT ![i] = 0]
  /\ UNCHANGED <<starts, others, rows>>

-----------------------------------------------------------------------------
(* is_running *)

\* A zombie of i is reaped on the way; another SkyTrap's is told by ps, which
\* may be missing (and else knows every process there is).  A process of
\* another user counts as not running.
Answers(i, p) ==
  IF holder[p] \in zombie
  THEN IF parent[holder[p]] = i THEN {FALSE} ELSE BOOLEAN
  ELSE {holder[p] \notin {Free, Alien}}

IsRunning(i, p, answer) ==
  /\ answer \in Answers(i, p)
  /\ IF holder[p] \in zombie /\ parent[holder[p]] = i
     THEN /\ zombie' = zombie \ {holder[p]}
          /\ holder' = [holder EXCEPT ![p] = Free]
     ELSE UNCHANGED <<zombie, holder>>
  /\ UNCHANGED <<parent, starts, others>>

-----------------------------------------------------------------------------
(* start_process *)

Spawn(i) ==
  /\ at[i] = "idle"
  /\ starts < MaxStarts
  /\ starts' = starts + 1
  /\ \E p \in Pids : /\ holder[p] = Free
                     /\ holder' = [holder EXCEPT ![p] = starts']
  /\ parent' = [parent EXCEPT ![starts'] = i]
  /\ at' = [at EXCEPT ![i] = "spawned"]
  /\ job' = [job EXCEPT ![i] = starts']
  /\ UNCHANGED <<zombie, others, rows>>

\* Faulty variant of Insert: the number of the child in place of its pid.
InsertNumber(i) ==
  /\ at[i] = "spawned"
  /\ rows' = Append(rows, [child |-> job[i], pid |-> job[i],
                           stopped |-> FALSE])
  /\ at' = [at EXCEPT ![i] = "look"]
  /\ job' = [job EXCEPT ![i] = Len(rows')]
  /\ UNCHANGED os

\* The pid stays the child's until i has waited for it.
Insert(i) ==
  /\ at[i] = "spawned"
  /\ \E p \in Pids :
       /\ holder[p] = job[i]
       /\ rows' = Append(rows, [child |-> job[i], pid |-> p,
                                stopped |-> FALSE])
  /\ at' = [at EXCEPT ![i] = "look"]
  /\ job' = [job EXCEPT ![i] = Len(rows')]
  /\ UNCHANGED os

\* The database is locked or full: the child runs on, in no row.
InsertFails(i) ==
  /\ at[i] = "spawned"
  /\ Goto(i, "idle")
  /\ UNCHANGED <<os, rows>>

\* Listing looks at the rows not marked stopped, some time after reading them.
List(i) ==
  /\ at[i] = "idle"
  /\ \E k \in DOMAIN rows : /\ ~rows[k].stopped
                           /\ job' = [job EXCEPT ![i] = k]
  /\ at' = [at EXCEPT ![i] = "look"]
  /\ UNCHANGED <<os, rows>>

\* Whether it runs: of a row listed, and of one just started, which may have
\* exited at once.  Nothing is marked.
Look(i) ==
  /\ at[i] = "look"
  /\ \E answer \in BOOLEAN : IsRunning(i, rows[job[i]].pid, answer)
  /\ Goto(i, "idle")
  /\ UNCHANGED rows

-----------------------------------------------------------------------------
(* stop_process, of any row, also one marked stopped *)

Stop(i) ==
  /\ at[i] = "idle"
  /\ \E k \in DOMAIN rows : job' = [job EXCEPT ![i] = k]
  /\ at' = [at EXCEPT ![i] = "probe"]
  /\ UNCHANGED <<os, rows>>

Pid(i) == rows[job[i]].pid

Probe(i) ==
  /\ at[i] = "probe"
  /\ \E answer \in BOOLEAN :
       /\ IsRunning(i, Pid(i), answer)
       /\ Goto(i, IF answer THEN "term" ELSE "mark")
  /\ UNCHANGED rows

\* SIGTERM, which the process may ignore, and which raises out of the call
\* when the pid now belongs to another user.
Terminate(i) ==
  /\ at[i] = "term"
  /\ \/ Runs(Pid(i)) /\ holder[Pid(i)] # Alien /\ Ends(Pid(i))
     \/ UNCHANGED <<holder, zombie>>
  /\ Goto(i, IF holder[Pid(i)] = Alien THEN "idle"
             ELSE IF holder[Pid(i)] = Free THEN "mark" ELSE "wait")
  /\ UNCHANGED <<parent, starts, others, rows>>

\* Faulty variant of Wait: there is no deadline.
WaitUntilGone(i) ==
  /\ at[i] = "wait"
  /\ IsRunning(i, Pid(i), FALSE)
  /\ Goto(i, "recheck")
  /\ UNCHANGED rows

\* The process is seen to be gone, or the two seconds pass.
Wait(i) ==
  /\ at[i] = "wait"
  /\ \E answer \in BOOLEAN : IsRunning(i, Pid(i), answer)
  /\ Goto(i, "recheck")
  /\ UNCHANGED rows

\* Faulty variant of Recheck: nothing is killed after the deadline.
NoRecheck(i) ==
  /\ at[i] = "recheck"
  /\ Goto(i, "mark")
  /\ UNCHANGED <<os, rows>>

Recheck(i) ==
  /\ at[i] = "recheck"
  /\ \E answer \in BOOLEAN :
       /\ IsRunning(i, Pid(i), answer)
       /\ Goto(i, IF answer THEN "kill" ELSE "mark")
  /\ UNCHANGED rows

\* SIGKILL.
Kill(i) ==
  /\ at[i] = "kill"
  /\ IF Runs(Pid(i)) /\ holder[Pid(i)] # Alien THEN Ends(Pid(i))
                     ELSE UNCHANGED <<holder, zombie>>
  /\ Goto(i, IF holder[Pid(i)] = Alien THEN "idle" ELSE "mark")
  /\ UNCHANGED <<parent, starts, others, rows>>

\* The update is lost if the database is locked.
Mark(i) ==
  /\ at[i] = "mark"
  /\ rows' \in {rows, [rows EXCEPT ![job[i]].stopped = TRUE]}
  /\ Goto(i, "idle")
  /\ UNCHANGED os

-----------------------------------------------------------------------------

Started(i) == Insert(i) \/ InsertFails(i)

Stopping(i) == \/ Probe(i) \/ Terminate(i) \/ Wait(i)
               \/ Recheck(i) \/ Kill(i) \/ Mark(i)

Next == \/ \E i \in Apps : \/ Spawn(i) \/ Started(i) \/ List(i)
                           \/ Look(i) \/ Stop(i) \/ Stopping(i) \/ AppEnds(i)
        \/ \E p \in Pids : ProcessEnds(p) \/ OtherStarts(p)
        \/ \E n \in Children : Reaped(n)

Spec == Init /\ [][Next]_vars

FairSpec == Spec /\ \A i \in Apps : WF_vars(Stopping(i))

-----------------------------------------------------------------------------
(* Properties *)

TypeOK ==
  /\ holder \in [Pids -> Children \cup {Free, Other, Alien}]
  /\ parent \in [Children -> Apps \cup {NoApp}]
  /\ zombie \subseteq Children
  /\ starts \in 0..MaxStarts /\ others \in 0..MaxOthers
  /\ rows \in Seq([child : Children, pid : Pids, stopped : BOOLEAN])
  /\ at \in [Apps -> {"idle", "spawned", "look", "probe", "term", "wait",
                      "recheck", "kill", "mark"}]
  /\ job \in [Apps -> Nat]

Alive(n) == n \notin zombie /\ \E p \in Pids : holder[p] = n

\* What still runs is listed as running: no SkyTrap, however its stop races
\* with others, with exits and with reused pids, marks the row of a process
\* that is alive.
MarkedIsGone == \A k \in DOMAIN rows :
                  rows[k].stopped => ~Alive(rows[k].child)

\* Stopping ends, even of a process that ignores SIGTERM.
EveryStopEnds ==
  \A i \in Apps : at[i] = "probe" ~> at[i] = "idle"

=============================================================================
