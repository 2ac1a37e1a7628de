----------------------- MODULE ManagedProcessesProofs -----------------------
(***************************************************************************)
(* Proofs about ManagedProcesses, for any number of SkyTraps, pids and     *)
(* processes: the types, and that no process alive is marked stopped.      *)
(***************************************************************************)
EXTENDS ManagedProcesses, SequenceTheorems, TLAPS

Row == [child : Children, pid : Pids, stopped : BOOLEAN]

HasRow == {"look", "probe", "term", "wait", "recheck", "kill", "mark"}

-----------------------------------------------------------------------------
(* The inductive invariant *)

\* A child has one pid, and only children that were started have any.
Held == /\ \A p \in Pids : holder[p] \in Children => holder[p] <= starts
        /\ \A p, q \in Pids : holder[p] \in Children /\ holder[p] = holder[q]
                                => p = q

\* What is going on is about a row there is; the row's pid reaches its child
\* for as long as that is alive.
Tracked ==
  /\ \A i \in Apps : at[i] \in HasRow => job[i] \in DOMAIN rows
  /\ \A k \in DOMAIN rows :
       /\ rows[k].child <= starts
       /\ Alive(rows[k].child) => holder[rows[k].pid] = rows[k].child

\* A stop that has come to mark its row has seen, or made, the process end.
Gone == \A i \in Apps : at[i] = "mark" => ~Alive(rows[job[i]].child)

ProcessInv == TypeOK /\ Held /\ Tracked /\ Gone /\ MarkedIsGone

-----------------------------------------------------------------------------
(* Types *)

LEMMA StartIds == /\ Children \subseteq Nat
                  /\ \A k \in 0..MaxStarts :
                       k < MaxStarts => k + 1 \in Children
                  /\ Children \cap {Free, Other, Alien} = {}
  BY ProcessAssumption DEF Children

\* How the processes change when one ends, and when one is looked at.
LEMMA EndsType ==
  ASSUME TypeOK, NEW p \in Pids, Ends(p)
  PROVE  /\ holder' \in [Pids -> Children \cup {Free, Other, Alien}]
         /\ zombie' \subseteq Children
  BY DEF TypeOK, Ends

LEMMA IsRunningType ==
  ASSUME TypeOK, NEW i \in Apps, NEW p \in Pids, NEW answer \in BOOLEAN,
         IsRunning(i, p, answer)
  PROVE  /\ holder' \in [Pids -> Children \cup {Free, Other, Alien}]
         /\ zombie' \subseteq Children
         /\ UNCHANGED <<parent, starts, others>>
<1>1. CASE holder[p] \in zombie /\ parent[holder[p]] = i
  BY <1>1 DEF TypeOK, IsRunning
<1>2. CASE ~(holder[p] \in zombie /\ parent[holder[p]] = i)
  <2>1. UNCHANGED <<zombie, holder>>
    BY <1>2 DEF IsRunning
  <2> QED
    BY <2>1 DEF TypeOK, IsRunning
<1> QED
  BY <1>1, <1>2

LEMMA RowType == ASSUME TypeOK, NEW k \in DOMAIN rows
                 PROVE  rows[k] \in Row
<1>1. rows \in Seq(Row)
  BY DEF TypeOK, Row
<1>2. k \in 1..Len(rows)
  BY <1>1, LenProperties
<1> QED
  BY <1>1, <1>2, ElementOfSeq

LEMMA StopType ==
  ASSUME TypeOK, Tracked, NEW i \in Apps, Stopping(i)
  PROVE  TypeOK'
<1>1. at[i] \in HasRow
  BY DEF Stopping, Probe, Terminate, Wait, Recheck, Kill, Mark, HasRow
<1>2. job[i] \in DOMAIN rows /\ Pid(i) \in Pids
  BY <1>1, RowType DEF Tracked, Pid, Row
<1>3. CASE Probe(i) \/ Wait(i) \/ Recheck(i)
  <2>1. \E answer \in BOOLEAN : IsRunning(i, Pid(i), answer)
    BY <1>3 DEF Probe, Wait, Recheck
  <2>2. /\ holder' \in [Pids -> Children \cup {Free, Other, Alien}]
        /\ zombie' \subseteq Children
        /\ UNCHANGED <<parent, starts, others>>
    BY <1>2, <2>1, IsRunningType
  <2> QED
    BY <1>3, <2>2 DEF TypeOK, Probe, Wait, Recheck, Goto
<1>4. CASE Terminate(i) \/ Kill(i)
  <2>1. Ends(Pid(i)) \/ UNCHANGED <<holder, zombie>>
    BY <1>4 DEF Terminate, Kill
  <2>2. /\ holder' \in [Pids -> Children \cup {Free, Other, Alien}]
        /\ zombie' \subseteq Children
    BY <1>2, <2>1, EndsType DEF TypeOK
  <2>3. PICK label \in {"idle", "mark", "wait"} : Goto(i, label)
    BY <1>4 DEF Terminate, Kill
  <2> QED
    BY <1>4, <2>2, <2>3 DEF TypeOK, Terminate, Kill, Goto
<1>5. CASE Mark(i)
  <2>1. rows' \in Seq([child : Children, pid : Pids, stopped : BOOLEAN])
    <3>1. rows[job[i]] \in Row
      BY <1>2, RowType
    <3>2. [rows[job[i]] EXCEPT !.stopped = TRUE] \in Row
      BY <3>1 DEF Row
    <3>3. CASE rows' = rows
      BY <3>3 DEF TypeOK
    <3>4. CASE rows' = [rows EXCEPT ![job[i]] =
                          [rows[job[i]] EXCEPT !.stopped = TRUE]]
      BY <1>2, <3>2, <3>4, ExceptSeq DEF TypeOK, Row
    <3> QED
      BY <1>5, <3>3, <3>4 DEF Mark
  <2> QED
    BY <1>5, <2>1 DEF TypeOK, Mark, Goto, os
<1> QED
  BY <1>3, <1>4, <1>5 DEF Stopping

LEMMA StartType ==
  ASSUME TypeOK, Tracked, NEW i \in Apps,
         \/ Spawn(i) \/ Started(i) \/ List(i) \/ Look(i) \/ Stop(i)
         \/ AppEnds(i)
  PROVE  TypeOK'
<1>1. CASE Spawn(i)
  <2>1. starts' \in Children /\ starts' \in 0..MaxStarts
    BY <1>1, StartIds, ProcessAssumption DEF TypeOK, Spawn
  <2>2. starts' \in Nat
    BY <2>1, StartIds
  <2> QED
    BY <1>1, <2>1, <2>2 DEF TypeOK, Spawn
<1>2. CASE Insert(i)
  <2>1. PICK p \in Pids :
          /\ holder[p] = job[i]
          /\ rows' = Append(rows, [child |-> job[i], pid |-> p,
                                   stopped |-> FALSE])
    BY <1>2 DEF Insert
  <2>2. job[i] \in Children
    BY <2>1, ProcessAssumption DEF TypeOK
  <2>3. [child |-> job[i], pid |-> p, stopped |-> FALSE] \in Row
    BY <2>2 DEF Row
  <2>4. rows' \in Seq(Row) /\ Len(rows') \in Nat
    BY <2>1, <2>3, AppendProperties DEF TypeOK, Row
  <2> QED
    BY <1>2, <2>4 DEF TypeOK, Insert, os, Row
<1>3. CASE InsertFails(i)
  BY <1>3 DEF TypeOK, InsertFails, Goto, os
<1>4. CASE Look(i)
  <2>1. PICK k \in DOMAIN rows :
          \E answer \in BOOLEAN : IsRunning(i, rows[k].pid, answer)
    BY <1>4 DEF Look, Tracked, HasRow
  <2>2. rows[k].pid \in Pids
    BY RowType DEF Row
  <2>3. /\ holder' \in [Pids -> Children \cup {Free, Other, Alien}]
        /\ zombie' \subseteq Children
        /\ UNCHANGED <<parent, starts, others>>
    BY <2>1, <2>2, IsRunningType
  <2> QED
    BY <1>4, <2>3 DEF TypeOK, Look, Goto
<1>5. CASE List(i) \/ Stop(i)
  <2>1. DOMAIN rows \subseteq Nat
    BY DEF TypeOK
  <2> QED
    BY <1>5, <2>1 DEF TypeOK, List, Stop, os
<1>6. CASE AppEnds(i)
  BY <1>6 DEF TypeOK, AppEnds
<1> QED
  BY <1>1, <1>2, <1>3, <1>4, <1>5, <1>6 DEF Started

LEMMA SystemType ==
  ASSUME TypeOK,
         \/ \E p \in Pids : ProcessEnds(p) \/ OtherStarts(p)
         \/ \E n \in Children : Reaped(n)
  PROVE  TypeOK'
<1>1. ASSUME NEW p \in Pids, ProcessEnds(p) PROVE TypeOK'
  BY <1>1, EndsType DEF TypeOK, ProcessEnds
<1>2. ASSUME NEW p \in Pids, OtherStarts(p) PROVE TypeOK'
  <2>1. others' \in 0..MaxOthers
    BY <1>2, ProcessAssumption DEF TypeOK, OtherStarts
  <2> QED
    BY <1>2, <2>1 DEF TypeOK, OtherStarts
<1>3. ASSUME NEW n \in Children, Reaped(n) PROVE TypeOK'
  BY <1>3 DEF TypeOK, Reaped
<1> QED
  BY <1>1, <1>2, <1>3

LEMMA ProcessTypeStep ==
  ASSUME TypeOK, Tracked, [Next]_vars
  PROVE  TypeOK'
<1>1. CASE UNCHANGED vars
  BY <1>1 DEF TypeOK, vars, os
<1> QED
  BY <1>1, StopType, StartType, SystemType DEF Next

-----------------------------------------------------------------------------
(* What is gone stays gone *)

\* No pid passes to a child that was started before, and a zombie leaves only
\* with its pid.
NoneReturns ==
  /\ \A p \in Pids : holder'[p] \in Children =>
       \/ holder'[p] = holder[p]
       \/ starts' # starts /\ ~(holder'[p] <= starts)
  /\ \A n \in zombie : n \in zombie' \/ \A p \in Pids : holder'[p] # n

LEMMA StepReturnsNone ==
  ASSUME TypeOK, Held, Tracked, [Next]_vars
  PROVE  NoneReturns
<1>1. ASSUME NEW p \in Pids, Ends(p) PROVE NoneReturns
  BY <1>1, StartIds DEF TypeOK, Ends, NoneReturns
<1>2. ASSUME NEW i \in Apps, NEW p \in Pids, NEW answer \in BOOLEAN,
             IsRunning(i, p, answer)
      PROVE  NoneReturns
  <2>1. CASE holder[p] \in zombie /\ parent[holder[p]] = i
    <3>1. /\ zombie' = zombie \ {holder[p]}
          /\ holder' = [holder EXCEPT ![p] = Free]
      BY <1>2, <2>1 DEF IsRunning
    <3>2. \A q \in Pids : holder'[q] # holder[p]
      BY <2>1, <3>1, StartIds DEF TypeOK, Held
    <3> QED
      BY <3>1, <3>2, StartIds DEF TypeOK, NoneReturns
  <2>2. CASE ~(holder[p] \in zombie /\ parent[holder[p]] = i)
    BY <1>2, <2>2 DEF IsRunning, NoneReturns
  <2> QED
    BY <2>1, <2>2
<1>3. CASE UNCHANGED <<holder, zombie>>
  BY <1>3 DEF NoneReturns
<1>4. ASSUME NEW i \in Apps, Spawn(i) PROVE NoneReturns
  <2>1. starts \in Nat /\ starts' = starts + 1
    BY <1>4, StartIds, ProcessAssumption DEF TypeOK, Spawn
  <2>2. ~(starts' <= starts)
    BY <2>1
  <2> QED
    BY <1>4, <2>2 DEF TypeOK, Spawn, NoneReturns
<1>5. ASSUME NEW i \in Apps, AppEnds(i) PROVE NoneReturns
  BY <1>5, StartIds DEF TypeOK, AppEnds, NoneReturns
<1>6. ASSUME NEW p \in Pids, OtherStarts(p) PROVE NoneReturns
  BY <1>6, StartIds DEF TypeOK, OtherStarts, NoneReturns
<1>7. ASSUME NEW n \in Children, Reaped(n) PROVE NoneReturns
  BY <1>7, StartIds DEF TypeOK, Reaped, NoneReturns
<1>8. ASSUME NEW i \in Apps, Stopping(i) PROVE NoneReturns
  <2>1. CASE Mark(i)
    BY <2>1, <1>3 DEF Mark, os
  <2>2. CASE ~Mark(i)
    <3>1. Pid(i) \in Pids
      BY <1>8, <2>2, RowType
         DEF Stopping, Probe, Terminate, Wait, Recheck, Kill, Tracked, HasRow,
             Pid, Row
    <3> QED
      BY <1>1, <1>2, <1>3, <1>8, <2>2, <3>1
         DEF Stopping, Probe, Terminate, Wait, Recheck, Kill
  <2> QED
    BY <2>1, <2>2
<1>9. ASSUME NEW i \in Apps, Started(i) \/ List(i) \/ Look(i) \/ Stop(i)
      PROVE  NoneReturns
  <2>1. CASE Look(i)
    <3>1. PICK k \in DOMAIN rows :
            \E answer \in BOOLEAN : IsRunning(i, rows[k].pid, answer)
      BY <2>1 DEF Look, Tracked, HasRow
    <3>2. rows[k].pid \in Pids
      BY RowType DEF Row
    <3> QED
      BY <1>2, <3>1, <3>2
  <2>2. CASE Insert(i) \/ InsertFails(i) \/ List(i) \/ Stop(i)
    BY <1>3, <2>2 DEF Insert, InsertFails, List, Stop, os
  <2> QED
    BY <1>9, <2>1, <2>2 DEF Started
<1>10. CASE UNCHANGED vars
  BY <1>3, <1>10 DEF vars, os
<1> QED
  BY <1>1, <1>4, <1>5, <1>6, <1>7, <1>8, <1>9, <1>10 DEF Next, ProcessEnds

LEMMA HeldStep ==
  ASSUME TypeOK, Held, NoneReturns, [Next]_vars, TypeOK'
  PROVE  Held'
<1>1. CASE starts' = starts
  BY <1>1 DEF TypeOK, Held, NoneReturns
<1>2. ASSUME NEW i \in Apps, Spawn(i) PROVE Held'
  <2>1. PICK p \in Pids : holder' = [holder EXCEPT ![p] = starts']
    BY <1>2 DEF Spawn
  <2>2. starts \in Nat /\ starts' = starts + 1
    BY <1>2, ProcessAssumption DEF TypeOK, Spawn
  <2>3. \A k \in Nat : k <= starts => k <= starts' /\ k # starts'
    BY <2>2
  <2>4. \A q \in Pids : holder[q] \in Children =>
          holder[q] <= starts' /\ holder[q] # starts'
    BY <2>3, StartIds DEF Held
  <2> QED
    BY <2>1, <2>2, <2>4 DEF TypeOK, Held
<1>3. \/ starts' = starts
      \/ \E i \in Apps : Spawn(i)
  BY DEF Next, Started, Insert, InsertFails, List, Look, Stop, Stopping,
         Probe, Terminate, Wait, Recheck, Kill, Mark, AppEnds, ProcessEnds,
         OtherStarts, Reaped, IsRunning, vars, os
<1> QED
  BY <1>1, <1>2, <1>3

\* A process started earlier that is alive was alive, with the same pid.
LEMMA AliveBefore ==
  ASSUME TypeOK, Held, NoneReturns, NEW n \in Children, n <= starts, Alive(n)'
  PROVE  /\ Alive(n)
         /\ \A p \in Pids : holder[p] = n => holder'[p] = n
<1>1. PICK q \in Pids : holder'[q] = n
  BY DEF Alive
<1>2. holder[q] = n /\ n \notin zombie
  BY <1>1 DEF NoneReturns, Alive
<1> QED
  BY <1>1, <1>2 DEF Alive, Held

-----------------------------------------------------------------------------
(* Rows *)

LEMMA Appended ==
  ASSUME TypeOK, NEW r \in Row, rows' = Append(rows, r)
  PROVE  /\ DOMAIN rows' = DOMAIN rows \cup {Len(rows')}
         /\ \A k \in DOMAIN rows : rows'[k] = rows[k]
         /\ rows'[Len(rows')] = r
<1>1. rows \in Seq(Row)
  BY DEF TypeOK, Row
<1>2. /\ rows' \in Seq(Row) /\ Len(rows') = Len(rows) + 1
      /\ \A k \in 1..Len(rows) : rows'[k] = rows[k]
      /\ rows'[Len(rows) + 1] = r
  BY <1>1, AppendProperties
<1>3. /\ DOMAIN rows = 1..Len(rows) /\ DOMAIN rows' = 1..Len(rows')
      /\ Len(rows) \in Nat
  BY <1>1, <1>2, LenProperties
<1> QED
  BY <1>2, <1>3

\* The row Insert adds.
LEMMA Inserted ==
  ASSUME TypeOK, NEW i \in Apps, Insert(i)
  PROVE  \E p \in Pids :
           LET r == [child |-> job[i], pid |-> p, stopped |-> FALSE]
           IN  /\ r \in Row /\ holder[p] = job[i]
               /\ rows' = Append(rows, r)
<1>1. PICK p \in Pids :
        /\ holder[p] = job[i]
        /\ rows' = Append(rows, [child |-> job[i], pid |-> p,
                                 stopped |-> FALSE])
  BY DEF Insert
<1>2. job[i] \in Children
  BY <1>1, ProcessAssumption DEF TypeOK
<1>3. [child |-> job[i], pid |-> p, stopped |-> FALSE] \in Row
  BY <1>2 DEF Row
<1> QED
  BY <1>1, <1>3

\* Two steps touch the table.
LEMMA RowsChange ==
  ASSUME [Next]_vars, rows' # rows
  PROVE  \E i \in Apps : Insert(i) \/ Mark(i)
<1>1. ASSUME NEW i \in Apps, Started(i) PROVE Insert(i)
  BY <1>1 DEF Started, InsertFails
<1>2. ASSUME NEW i \in Apps, Stopping(i) PROVE Mark(i)
  BY <1>2 DEF Stopping, Probe, Terminate, Wait, Recheck, Kill
<1>3. ASSUME NEW i \in Apps
      PROVE  ~Spawn(i) /\ ~List(i) /\ ~Look(i) /\ ~Stop(i) /\ ~AppEnds(i)
  BY DEF Spawn, List, Look, Stop, AppEnds
<1>4. ASSUME NEW p \in Pids PROVE ~ProcessEnds(p) /\ ~OtherStarts(p)
  BY DEF ProcessEnds, OtherStarts
<1>5. ASSUME NEW n \in Children PROVE ~Reaped(n)
  BY DEF Reaped
<1>6. ~UNCHANGED vars
  BY DEF vars
<1> QED
  BY <1>1, <1>2, <1>3, <1>4, <1>5, <1>6 DEF Next

\* What Mark does to a row.
LEMMA MarkRow ==
  ASSUME TypeOK, Tracked, NEW i \in Apps, Mark(i), NEW k \in DOMAIN rows
  PROVE  /\ DOMAIN rows' = DOMAIN rows
         /\ rows'[k].child = rows[k].child
         /\ rows'[k].pid = rows[k].pid
         /\ rows'[k].stopped = rows[k].stopped \/ k = job[i]
<1>1. rows[k] \in Row
  BY RowType
<1>2. CASE rows' = rows
  BY <1>2
<1>3. CASE rows' = [rows EXCEPT ![job[i]] =
                      [rows[job[i]] EXCEPT !.stopped = TRUE]]
  <2>1. DOMAIN rows' = DOMAIN rows
    BY <1>3
  <2>2. CASE k = job[i]
    <3>1. rows'[k] = [rows[k] EXCEPT !.stopped = TRUE]
      BY <1>3, <2>2
    <3>2. rows'[k].child = rows[k].child /\ rows'[k].pid = rows[k].pid
      BY <1>1, <3>1 DEF Row
    <3> QED
      BY <2>1, <2>2, <3>2
  <2>3. CASE k # job[i]
    <3>1. rows'[k] = rows[k]
      BY <1>3, <2>3
    <3> QED
      BY <2>1, <3>1
  <2> QED
    BY <2>2, <2>3
<1> QED
  BY <1>2, <1>3 DEF Mark

\* A row stays, for the same child and pid; Mark alone marks it.
LEMMA RowsStay ==
  ASSUME TypeOK, Tracked, [Next]_vars, NEW k \in DOMAIN rows
  PROVE  /\ k \in DOMAIN rows'
         /\ rows'[k].child = rows[k].child
         /\ rows'[k].pid = rows[k].pid
         /\ \/ rows'[k].stopped = rows[k].stopped
            \/ \E i \in Apps : Mark(i) /\ job[i] = k
<1>1. CASE rows' = rows
  BY <1>1
<1>2. ASSUME NEW i \in Apps, Insert(i)
      PROVE  k \in DOMAIN rows' /\ rows'[k] = rows[k]
  <2>1. PICK p \in Pids :
          LET r == [child |-> job[i], pid |-> p, stopped |-> FALSE]
          IN  /\ r \in Row /\ holder[p] = job[i]
              /\ rows' = Append(rows, r)
    BY <1>2, Inserted
  <2> QED
    BY <2>1, Appended
<1>3. ASSUME NEW i \in Apps, Mark(i)
      PROVE  /\ k \in DOMAIN rows'
             /\ rows'[k].child = rows[k].child
             /\ rows'[k].pid = rows[k].pid
             /\ rows'[k].stopped = rows[k].stopped \/ k = job[i]
  BY <1>3, MarkRow
<1> QED
  BY <1>1, <1>2, <1>3, RowsChange


\* Where the rows that are being looked at or stopped come from.
LEMMA JobStep ==
  ASSUME TypeOK, Tracked, [Next]_vars, NEW j \in Apps, at'[j] \in HasRow
  PROVE  \/ job'[j] \in DOMAIN rows
         \/ Insert(j)
<1>1. ASSUME NEW i \in Apps, NEW label, Goto(i, label),
             label \in HasRow => at[i] \in HasRow
      PROVE  job'[j] \in DOMAIN rows
  BY <1>1 DEF TypeOK, Tracked, HasRow, Goto
<1>2. ASSUME NEW i \in Apps, Spawn(i) \/ AppEnds(i)
      PROVE  job'[j] \in DOMAIN rows
  BY <1>2 DEF TypeOK, Tracked, HasRow, Spawn, AppEnds
<1>3. ASSUME NEW i \in Apps, List(i) \/ Stop(i)
      PROVE  job'[j] \in DOMAIN rows
  BY <1>3 DEF TypeOK, Tracked, HasRow, List, Stop
<1>4. ASSUME NEW i \in Apps, Insert(i), i # j
      PROVE  job'[j] \in DOMAIN rows
  BY <1>4 DEF TypeOK, Tracked, HasRow, Insert
<1>5. ASSUME NEW i \in Apps, InsertFails(i) \/ Look(i)
      PROVE  job'[j] \in DOMAIN rows
  BY <1>1, <1>5 DEF InsertFails, Look, HasRow
<1>6. ASSUME NEW i \in Apps, Stopping(i)
      PROVE  job'[j] \in DOMAIN rows
  <2>1. at[i] \in HasRow
    BY <1>6 DEF Stopping, Probe, Terminate, Wait, Recheck, Kill, Mark, HasRow
  <2>2. \E label : Goto(i, label)
    BY <1>6 DEF Stopping, Probe, Terminate, Wait, Recheck, Kill, Mark
  <2> QED
    BY <1>1, <2>1, <2>2
<1>7. CASE UNCHANGED <<at, job>>
  BY <1>7 DEF Tracked
<1>8. ASSUME NEW p \in Pids, ProcessEnds(p) \/ OtherStarts(p)
      PROVE  UNCHANGED <<at, job>>
  BY <1>8 DEF ProcessEnds, OtherStarts
<1>9. ASSUME NEW n \in Children, Reaped(n) PROVE UNCHANGED <<at, job>>
  BY <1>9 DEF Reaped
<1> QED
  BY <1>2, <1>3, <1>4, <1>5, <1>6, <1>7, <1>8, <1>9
     DEF Next, Started, vars

LEMMA StartsGrow ==
  ASSUME TypeOK, [Next]_vars, TypeOK'
  PROVE  starts \in Nat /\ starts' \in Nat /\ starts <= starts'
<1>1. starts \in Nat /\ starts' \in Nat
  BY ProcessAssumption DEF TypeOK
<1>2. \/ starts' = starts
      \/ \E i \in Apps : Spawn(i)
  BY DEF Next, Started, Insert, InsertFails, List, Look, Stop, Stopping,
         Probe, Terminate, Wait, Recheck, Kill, Mark, AppEnds, ProcessEnds,
         OtherStarts, Reaped, IsRunning, vars, os
<1> QED
  BY <1>1, <1>2 DEF Spawn

\* A row there was still reaches its child.
LEMMA ReachStep ==
  ASSUME TypeOK, Held, Tracked, NoneReturns, [Next]_vars, TypeOK',
         NEW k \in DOMAIN rows
  PROVE  /\ rows'[k].child <= starts'
         /\ Alive(rows[k].child)'
              => holder'[rows'[k].pid] = rows'[k].child
<1>1. rows[k].child \in Children /\ rows[k].child \in Nat
      /\ rows[k].pid \in Pids
  BY RowType, StartIds DEF Row
<1>2. /\ rows'[k].child = rows[k].child /\ rows'[k].pid = rows[k].pid
      /\ rows[k].child <= starts
  BY RowsStay DEF Tracked
<1>3. rows'[k].child <= starts'
  BY <1>1, <1>2, StartsGrow
<1>4. PICK n \in Children : n = rows[k].child
  BY <1>1
<1>5. PICK p \in Pids : p = rows[k].pid
  BY <1>1
<1>6. ASSUME Alive(n)' PROVE holder'[p] = n
  <2>1. Alive(n) /\ \A q \in Pids : holder[q] = n => holder'[q] = n
    BY <1>2, <1>4, <1>6, AliveBefore
  <2>2. holder[p] = n
    BY <1>4, <1>5, <2>1 DEF Tracked
  <2> QED
    BY <2>1, <2>2
<1>7. rows'[k].child = n /\ rows'[k].pid = p
  BY <1>2, <1>4, <1>5
<1>8. Alive(rows[k].child)' => Alive(n)'
  BY <1>7 DEF Alive
<1> QED
  BY <1>3, <1>6, <1>7, <1>8

LEMMA TrackedStep ==
  ASSUME TypeOK, Held, Tracked, NoneReturns, [Next]_vars, TypeOK'
  PROVE  Tracked'
<1>1. \A k \in DOMAIN rows : k \in DOMAIN rows'
  BY RowsStay
<1>2. ASSUME NEW i \in Apps, Insert(i) PROVE Tracked'
  <2>1. PICK p \in Pids :
          LET r == [child |-> job[i], pid |-> p, stopped |-> FALSE]
          IN  /\ r \in Row /\ holder[p] = job[i]
              /\ rows' = Append(rows, r)
    BY <1>2, Inserted
  <2>2. /\ DOMAIN rows' = DOMAIN rows \cup {Len(rows')}
        /\ rows'[Len(rows')].child = job[i] /\ rows'[Len(rows')].pid = p
    BY <2>1, Appended
  <2>3. /\ holder' = holder /\ starts' = starts /\ job[i] \in Children
        /\ job'[i] = Len(rows')
    BY <1>2, <2>1 DEF TypeOK, Insert, os, Row
  <2>4. job[i] <= starts
    BY <2>1, <2>3 DEF Held
  <2>5. \A j \in Apps : at'[j] \in HasRow => job'[j] \in DOMAIN rows'
    <3>1. ASSUME NEW j \in Apps, at'[j] \in HasRow, j # i
          PROVE  job'[j] \in DOMAIN rows
      BY <1>2, <3>1 DEF TypeOK, Tracked, Insert
    <3> QED
      BY <2>2, <2>3, <3>1
  <2>6. \A k \in DOMAIN rows' :
          /\ rows'[k].child <= starts'
          /\ Alive(rows[k].child)'
               => holder'[rows'[k].pid] = rows'[k].child
    <3>1. ASSUME NEW k \in DOMAIN rows', k = Len(rows')
          PROVE  /\ rows'[k].child <= starts'
                 /\ holder'[rows'[k].pid] = rows'[k].child
      BY <2>1, <2>2, <2>3, <2>4, <3>1
    <3> QED
      BY <2>2, <3>1, ReachStep
  <2> QED
    BY <2>5, <2>6 DEF Tracked
<1>3. CASE ~ \E i \in Apps : Insert(i)
  <2>1. DOMAIN rows' = DOMAIN rows
    <3>1. CASE rows' = rows
      BY <3>1
    <3>2. ASSUME NEW i \in Apps, Mark(i) PROVE DOMAIN rows' = DOMAIN rows
      BY <3>2 DEF Mark
    <3> QED
      BY <1>3, <3>1, <3>2, RowsChange
  <2>2. \A j \in Apps : at'[j] \in HasRow => job'[j] \in DOMAIN rows'
    BY <1>3, <2>1, JobStep
  <2>3. \A k \in DOMAIN rows' :
          /\ rows'[k].child <= starts'
          /\ Alive(rows[k].child)'
               => holder'[rows'[k].pid] = rows'[k].child
    BY <2>1, ReachStep
  <2> QED
    BY <2>2, <2>3 DEF Tracked
<1> QED
  BY <1>2, <1>3

-----------------------------------------------------------------------------
(* A stop marks what is gone *)

\* Looking at the pid of an alive child answers that it runs.
LEMMA Seen ==
  ASSUME TypeOK, Tracked, NEW i \in Apps, NEW k \in DOMAIN rows,
         IsRunning(i, rows[k].pid, FALSE)
  PROVE  ~Alive(rows[k].child)
<1> SUFFICES ASSUME Alive(rows[k].child) PROVE FALSE
  OBVIOUS
<1>1. rows[k].child \in Children /\ rows[k].child \notin zombie
  BY RowType DEF Row, Alive
<1>2. holder[rows[k].pid] = rows[k].child
  BY DEF Tracked
<1>3. FALSE \in Answers(i, rows[k].pid)
  BY DEF IsRunning
<1>4. holder[rows[k].pid] \notin {Free, Alien}
  BY <1>1, <1>2, StartIds
<1> QED
  BY <1>1, <1>2, <1>3, <1>4 DEF Answers

\* A child that is not alive stays so.
LEMMA StaysGone ==
  ASSUME TypeOK, Held, Tracked, NoneReturns, [Next]_vars,
         NEW k \in DOMAIN rows, ~Alive(rows[k].child)
  PROVE  ~Alive(rows[k].child)'
<1>1. PICK n \in Children : n = rows[k].child /\ n <= starts
  BY RowType DEF Row, Tracked
<1>2. rows'[k].child = n
  BY <1>1, RowsStay
<1>3. ~Alive(n)'
  BY <1>1, AliveBefore
<1> QED
  BY <1>2, <1>3 DEF Alive

\* A signal that ends the process behind the pid of a row ends its child.
LEMMA Ended ==
  ASSUME TypeOK, Held, Tracked, NEW k \in DOMAIN rows, rows' = rows,
         \/ Ends(rows[k].pid)
         \/ ~Runs(rows[k].pid) /\ UNCHANGED <<holder, zombie>>
  PROVE  ~Alive(rows[k].child)'
<1>1. PICK n \in Children : n = rows[k].child
  BY RowType DEF Row
<1>2. PICK p \in Pids : p = rows[k].pid
  BY RowType DEF Row
<1>3. Alive(n) => holder[p] = n
  BY <1>1, <1>2 DEF Tracked
<1>4. CASE Ends(p)
  <2>1. CASE Alive(n)
    <3>1. holder[p] = n
      BY <1>3, <2>1
    <3>2. \/ zombie' = zombie \cup {n}
          \/ holder' = [holder EXCEPT ![p] = Free]
      BY <1>4, <3>1 DEF Ends
    <3>3. holder' = [holder EXCEPT ![p] = Free] =>
            \A q \in Pids : holder'[q] # n
      <4>1. Free # n
        BY StartIds
      <4>2. \A q \in Pids : holder[q] = n => q = p
        BY <3>1 DEF Held
      <4> QED
        BY <4>1, <4>2 DEF TypeOK
    <3>4. ~Alive(n)'
      BY <3>2, <3>3 DEF Alive
    <3> QED
      BY <1>1, <3>4 DEF Alive
  <2>2. CASE ~Alive(n)
    <3>1. \A q \in Pids : holder'[q] = holder[q] \/ holder'[q] = Free
      BY <1>4 DEF Ends, TypeOK
    <3>2. zombie \subseteq zombie'
      BY <1>4 DEF Ends
    <3>3. \A q \in Pids : holder'[q] = n => holder[q] = n
      BY <3>1, StartIds
    <3>4. ~Alive(n)'
      BY <2>2, <3>2, <3>3 DEF Alive
    <3> QED
      BY <1>1, <3>4 DEF Alive
  <2> QED
    BY <2>1, <2>2
<1>5. CASE ~Runs(p) /\ UNCHANGED <<holder, zombie>>
  <2>1. ~Alive(n)
    BY <1>3, <1>5, StartIds DEF Runs, Alive
  <2>2. ~Alive(n)'
    BY <1>5, <2>1 DEF Alive
  <2> QED
    BY <1>1, <2>2 DEF Alive
<1> QED
  BY <1>2, <1>4, <1>5

\* The stops that come to "mark" in this step.
LEMMA ReachMark ==
  ASSUME TypeOK, Held, Tracked, NoneReturns, [Next]_vars,
         NEW j \in Apps, at'[j] = "mark", at[j] # "mark"
  PROVE  /\ job'[j] = job[j] /\ job[j] \in DOMAIN rows
         /\ ~Alive(rows[job[j]].child)'
<1>1. Probe(j) \/ Terminate(j) \/ Recheck(j) \/ Kill(j)
  <2>1. ASSUME NEW i \in Apps, NEW label, Goto(i, label)
        PROVE  i = j /\ label = "mark"
    BY <2>1 DEF TypeOK, Goto
  <2>2. ASSUME NEW i \in Apps, Spawn(i) \/ AppEnds(i) \/ List(i) \/ Stop(i)
                                 \/ Insert(i)
        PROVE  FALSE
    BY <2>2 DEF TypeOK, Spawn, AppEnds, List, Stop, Insert
  <2>3. ASSUME NEW i \in Apps,
               InsertFails(i) \/ Look(i) \/ Wait(i) \/ Mark(i)
        PROVE  FALSE
    BY <2>1, <2>3 DEF InsertFails, Look, Wait, Mark
  <2>4. ASSUME NEW i \in Apps,
               Probe(i) \/ Terminate(i) \/ Recheck(i) \/ Kill(i)
        PROVE  i = j
    BY <2>1, <2>4 DEF Probe, Terminate, Recheck, Kill
  <2>5. ASSUME NEW p \in Pids, ProcessEnds(p) \/ OtherStarts(p) PROVE FALSE
    BY <2>5 DEF ProcessEnds, OtherStarts
  <2>6. ASSUME NEW n \in Children, Reaped(n) PROVE FALSE
    BY <2>6 DEF Reaped
  <2>7. ~UNCHANGED vars
    BY DEF vars
  <2> QED
    BY <2>2, <2>3, <2>4, <2>5, <2>6, <2>7 DEF Next, Started, Stopping
<1>2. job[j] \in DOMAIN rows
  BY <1>1 DEF Probe, Terminate, Recheck, Kill, Tracked, HasRow
<1>3. job' = job /\ rows' = rows
  <2>1. PICK label : Goto(j, label)
    BY <1>1 DEF Probe, Terminate, Recheck, Kill
  <2>2. label = "mark"
    BY <2>1 DEF TypeOK, Goto
  <2>3. rows' = rows
    BY <1>1 DEF Probe, Terminate, Recheck, Kill
  <2> QED
    BY <2>1, <2>2, <2>3 DEF Goto
<1>4. CASE Probe(j) \/ Recheck(j)
  <2>1. IsRunning(j, Pid(j), FALSE)
    <3>1. \/ \E answer \in BOOLEAN :
               /\ IsRunning(j, Pid(j), answer)
               /\ Goto(j, IF answer THEN "term" ELSE "mark")
          \/ \E answer \in BOOLEAN :
               /\ IsRunning(j, Pid(j), answer)
               /\ Goto(j, IF answer THEN "kill" ELSE "mark")
      BY <1>4 DEF Probe, Recheck
    <3>2. ~Goto(j, "term") /\ ~Goto(j, "kill")
      BY DEF TypeOK, Goto
    <3> QED
      BY <3>1, <3>2
  <2>2. ~Alive(rows[job[j]].child)
    BY <1>2, <2>1, Seen DEF Pid
  <2> QED
    BY <1>2, <1>3, <2>2, StaysGone
<1>5. CASE Terminate(j)
  <2>1. holder[Pid(j)] = Free
    <3>1. ~Goto(j, "idle") /\ ~Goto(j, "wait")
      BY DEF TypeOK, Goto
    <3> QED
      BY <1>5, <3>1 DEF Terminate
  <2>2. ~Alive(rows[job[j]].child)
    <3>1. rows[job[j]].child \in Children
      BY <1>2, RowType DEF Row
    <3>2. Free \notin Children
      BY StartIds
    <3> QED
      BY <1>2, <2>1, <3>1, <3>2 DEF Tracked, Pid
  <2> QED
    BY <1>2, <1>3, <2>2, StaysGone
<1>6. CASE Kill(j)
  <2>1. holder[Pid(j)] # Alien
    <3>1. ~Goto(j, "idle")
      BY DEF TypeOK, Goto
    <3> QED
      BY <1>6, <3>1 DEF Kill
  <2>2. \/ Ends(Pid(j))
        \/ ~Runs(Pid(j)) /\ UNCHANGED <<holder, zombie>>
    BY <1>6, <2>1 DEF Kill
  <2> QED
    BY <1>2, <1>3, <2>2, Ended DEF Pid
<1> QED
  BY <1>1, <1>2, <1>3, <1>4, <1>5, <1>6

\* A stop stays at "mark" with its row.
LEMMA MarkStays ==
  ASSUME TypeOK, [Next]_vars, NEW j \in Apps, at'[j] = "mark", at[j] = "mark"
  PROVE  job'[j] = job[j]
<1>1. ASSUME NEW i \in Apps, NEW label, Goto(i, label)
      PROVE  job'[j] = job[j]
  BY <1>1 DEF TypeOK, Goto
<1>2. ASSUME NEW i \in Apps, InsertFails(i) \/ Look(i) \/ Stopping(i)
      PROVE  job'[j] = job[j]
  <2>1. \E label : Goto(i, label)
    BY <1>2 DEF InsertFails, Look, Stopping, Probe, Terminate, Wait, Recheck,
                Kill, Mark
  <2> QED
    BY <1>1, <2>1
<1>3. ASSUME NEW i \in Apps, Spawn(i) \/ Insert(i) \/ List(i) \/ Stop(i)
                               \/ AppEnds(i)
      PROVE  job'[j] = job[j]
  BY <1>3 DEF TypeOK, Spawn, Insert, List, Stop, AppEnds
<1>4. ASSUME NEW p \in Pids, ProcessEnds(p) \/ OtherStarts(p)
      PROVE  job' = job
  BY <1>4 DEF ProcessEnds, OtherStarts
<1>5. ASSUME NEW n \in Children, Reaped(n) PROVE job' = job
  BY <1>5 DEF Reaped
<1>6. CASE UNCHANGED vars
  BY <1>6 DEF vars
<1> QED
  BY <1>2, <1>3, <1>4, <1>5, <1>6 DEF Next, Started

LEMMA GoneStep ==
  ASSUME TypeOK, Held, Tracked, Gone, NoneReturns, [Next]_vars, Tracked'
  PROVE  Gone'
<1> SUFFICES ASSUME NEW j \in Apps, at'[j] = "mark"
             PROVE  ~Alive(rows[job[j]].child)'
  BY DEF Gone
<1>1. CASE at[j] # "mark"
  BY <1>1, ReachMark
<1>2. CASE at[j] = "mark"
  <2>1. job[j] \in DOMAIN rows /\ ~Alive(rows[job[j]].child)
    BY <1>2 DEF Tracked, HasRow, Gone
  <2>2. PICK k \in DOMAIN rows : k = job[j]
    BY <2>1
  <2>3. ~Alive(rows[k].child)'
    BY <2>1, <2>2, StaysGone
  <2>4. job'[j] = job[j]
    BY <1>2, MarkStays
  <2> QED
    BY <2>2, <2>3, <2>4 DEF Alive
<1> QED
  BY <1>1, <1>2

LEMMA MarkedStep ==
  ASSUME TypeOK, Held, Tracked, Gone, MarkedIsGone, NoneReturns, [Next]_vars
  PROVE  MarkedIsGone'
<1> SUFFICES ASSUME NEW k \in DOMAIN rows', rows'[k].stopped
             PROVE  ~Alive(rows[k].child)'
  BY DEF MarkedIsGone
<1>1. CASE k \in DOMAIN rows
  <2>1. \/ rows[k].stopped
        \/ \E i \in Apps : Mark(i) /\ job[i] = k
    BY <1>1, RowsStay
  <2>2. ~Alive(rows[k].child)
    BY <1>1, <2>1 DEF MarkedIsGone, Gone, Mark
  <2> QED
    BY <1>1, <2>2, StaysGone
<1>2. CASE k \notin DOMAIN rows
  <2>1. PICK i \in Apps : Insert(i)
    <3>1. ASSUME NEW i \in Apps, Mark(i) PROVE DOMAIN rows' = DOMAIN rows
      BY <3>1 DEF Mark
    <3> QED
      BY <1>2, <3>1, RowsChange
  <2>2. PICK p \in Pids :
          LET r == [child |-> job[i], pid |-> p, stopped |-> FALSE]
          IN  /\ r \in Row /\ holder[p] = job[i]
              /\ rows' = Append(rows, r)
    BY <2>1, Inserted
  <2>3. ~rows'[k].stopped
    BY <1>2, <2>2, Appended
  <2> QED
    BY <2>3
<1> QED
  BY <1>1, <1>2

-----------------------------------------------------------------------------
(* The invariant *)

LEMMA InvInit == Init => ProcessInv
<1> SUFFICES ASSUME Init PROVE ProcessInv
  OBVIOUS
<1>1. TypeOK
  BY ProcessAssumption DEF Init, TypeOK, Children
<1>2. Held /\ Gone
  BY StartIds DEF Init, Held, Gone
<1>3. DOMAIN rows = {}
  BY DEF Init
<1>4. Tracked /\ MarkedIsGone
  BY <1>3 DEF Init, Tracked, HasRow, MarkedIsGone
<1> QED
  BY <1>1, <1>2, <1>4 DEF ProcessInv

LEMMA InvStep == ProcessInv /\ [Next]_vars => ProcessInv'
<1> SUFFICES ASSUME ProcessInv, [Next]_vars PROVE ProcessInv'
  OBVIOUS
<1>1. TypeOK /\ Held /\ Tracked /\ Gone /\ MarkedIsGone
  BY DEF ProcessInv
<1>2. TypeOK'
  BY <1>1, ProcessTypeStep
<1>3. NoneReturns
  BY <1>1, StepReturnsNone
<1>4. Held'
  BY <1>1, <1>2, <1>3, HeldStep
<1>5. Tracked'
  BY <1>1, <1>2, <1>3, TrackedStep
<1>6. Gone' /\ MarkedIsGone'
  BY <1>1, <1>3, <1>5, GoneStep, MarkedStep
<1> QED
  BY <1>2, <1>4, <1>5, <1>6 DEF ProcessInv

LEMMA InvAlways == Spec => []ProcessInv
  BY InvInit, InvStep, PTL DEF Spec

\* The registry, the pids and what each SkyTrap is doing keep their types,
\* whatever is started, stopped or ends (processes.py).
THEOREM ProcessTypeCorrect == Spec => []TypeOK
<1>1. ProcessInv => TypeOK
  BY DEF ProcessInv
<1> QED
  BY <1>1, InvAlways, PTL

\* No number of SkyTraps, stops, exits and reused pids leaves the row of a
\* process that is alive marked stopped (stop_process).
THEOREM OnlyTheGoneAreMarked == Spec => []MarkedIsGone
<1>1. ProcessInv => MarkedIsGone
  BY DEF ProcessInv
<1> QED
  BY <1>1, InvAlways, PTL

=============================================================================
