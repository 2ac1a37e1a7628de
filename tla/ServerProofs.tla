---------------------------- MODULE ServerProofs ----------------------------
(***************************************************************************)
(* What the server keeps for its users, for any browsers, directories,     *)
(* turns and workspaces: an id stands for one directory, and the journal   *)
(* of a project is only ever added to, and never ahead of its notes.  And  *)
(* who it lets in: one login is one session, codes and passwords are       *)
(* limited for any number of threads, and no worker of a task is lost.     *)
(***************************************************************************)
EXTENDS ProjectRegistry, ProjectNotes, AuthStore, AgentTasks,
        SequenceTheorems, FiniteSetTheorems, TLAPS

-----------------------------------------------------------------------------
(* The registry *)

Places == Paths \cup {Gone}

\* A request that found a project has its id and its path, as first given.
Looked(r) == r.at # "idle" => r.id \in DOMAIN told /\ r.path = told[r.id]

RegistryInv ==
  /\ rows \in Seq(Places) /\ told \in Seq(Places)
  /\ Len(rows) = Len(told)
  /\ request = [b \in Browsers |-> request[b]]
  /\ \A id \in DOMAIN rows : rows[id] # Gone => rows[id] = told[id]
  /\ \A b \in Browsers : Looked(request[b])
  /\ \A t \in touched : t[1] \in DOMAIN told /\ told[t[1]] = t[2]
  /\ RegisteredOnce

LEMMA RegistryInit == ProjInit => RegistryInv
<1> SUFFICES ASSUME ProjInit PROVE RegistryInv
  OBVIOUS
<1>1. Idle.at = "idle"
  BY DEF Idle
<1>2. request = [b \in Browsers |-> request[b]]
  BY DEF ProjInit
<1>3. \A b \in Browsers : Looked(request[b])
  BY <1>1 DEF ProjInit, Looked
<1>4. QED BY <1>2, <1>3 DEF ProjInit, RegistryInv, RegisteredOnce

\* What was told is only added to.
LEMMA RegisterKeeps ==
  ASSUME RegistryInv, NEW path \in Paths, Register(path)
  PROVE  RegistryInv'
<1>1. /\ rows' = Append(rows, path) /\ told' = Append(told, path)
      /\ request' = request /\ touched' = touched
  BY DEF Register, Insert
<1>2. rows \in Seq(Places) /\ told \in Seq(Places) /\ path \in Places
  BY DEF RegistryInv, Places
<1>3. /\ rows' \in Seq(Places) /\ told' \in Seq(Places)
      /\ Len(rows') = Len(told') /\ Len(rows') = Len(rows) + 1
      /\ rows'[Len(rows) + 1] = path /\ told'[Len(rows) + 1] = path
      /\ \A id \in DOMAIN rows : rows'[id] = rows[id] /\ told'[id] = told[id]
      /\ DOMAIN rows = 1..Len(rows) /\ DOMAIN told = 1..Len(rows)
      /\ DOMAIN rows' = 1..(Len(rows) + 1)
      /\ DOMAIN told' = 1..(Len(rows) + 1)
  BY <1>1, <1>2 DEF RegistryInv
<1>4. \A id \in DOMAIN rows' : rows'[id] # Gone => rows'[id] = told'[id]
  BY <1>3 DEF RegistryInv
<1>5. \A b \in Browsers : Looked(request[b])'
  BY <1>1, <1>3 DEF RegistryInv, Looked
<1>6. \A t \in touched' : t[1] \in DOMAIN told' /\ told'[t[1]] = t[2]
  BY <1>1, <1>3 DEF RegistryInv
<1>7. RegisteredOnce'
  <2>1. \A id \in DOMAIN rows : rows[id] # path
    BY DEF Register, Live
  <2>2. \A i, j \in DOMAIN rows : rows[i] # Gone /\ rows[i] = rows[j] => i = j
    BY DEF RegistryInv, RegisteredOnce
  <2>3. ASSUME NEW i \in DOMAIN rows', NEW j \in DOMAIN rows',
               rows'[i] # Gone, rows'[i] = rows'[j]
        PROVE  i = j
    BY <1>2, <1>3, <2>1, <2>2, <2>3
  <2>4. QED BY <2>3 DEF RegisteredOnce
<1>8. QED BY <1>1, <1>3, <1>4, <1>5, <1>6, <1>7 DEF RegistryInv

LEMMA LookUpKeeps ==
  ASSUME RegistryInv, NEW b \in Browsers, NEW id \in DOMAIN rows,
         NEW place \in {"read", "touch", "remove"}, ProjectOr404(b, id, place)
  PROVE  RegistryInv'
<1>1. /\ UNCHANGED <<rows, told, touched>> /\ rows[id] # Gone
      /\ request' = [request EXCEPT ![b] = [at |-> place, id |-> id,
                                            path |-> rows[id]]]
  BY DEF ProjectOr404
<1>2. rows[id] = told[id] /\ id \in DOMAIN told /\ id \in Nat
      /\ rows[id] \in Places
  BY <1>1 DEF RegistryInv
<1>3. request' = [c \in Browsers |-> request'[c]]
  BY <1>1 DEF RegistryInv
<1>4. \A c \in Browsers : Looked(request[c])'
  BY <1>1, <1>2 DEF RegistryInv, Looked
<1>5. QED BY <1>1, <1>3, <1>4 DEF RegistryInv, RegisteredOnce

LEMMA AnswerKeeps ==
  ASSUME RegistryInv, NEW b \in Browsers, Answer(b), UNCHANGED told
  PROVE  /\ request' = [c \in Browsers |-> request'[c]]
         /\ \A c \in Browsers : Looked(request[c])'
<1>1. Idle.at = "idle"
  BY DEF Idle
<1>2. request' = [request EXCEPT ![b] = Idle]
  BY DEF Answer
<1>3. request' = [c \in Browsers |-> request'[c]]
  BY <1>2 DEF RegistryInv
<1>4. ASSUME NEW c \in Browsers PROVE Looked(request[c])'
  <2>1. request'[c] = IF c = b THEN Idle ELSE request[c]
    BY <1>2 DEF RegistryInv
  <2>2. QED BY <1>1, <2>1 DEF RegistryInv, Looked
<1>5. QED BY <1>3, <1>4

LEMMA RemoveKeeps ==
  ASSUME RegistryInv, NEW b \in Browsers, RemoveProject(b)
  PROVE  RegistryInv'
<1>1. /\ UNCHANGED <<told, touched>> /\ Answer(b)
      /\ rows' = [rows EXCEPT ![request[b].id] = Gone]
  BY DEF RemoveProject
<1>2. rows \in Seq(Places) /\ Gone \in Places
      /\ request[b].id \in 1..Len(rows)
  <2>1. request[b].at # "idle"
    BY DEF RemoveProject
  <2>2. QED BY <2>1 DEF RegistryInv, Looked, Places
<1>3. /\ rows' \in Seq(Places) /\ Len(rows') = Len(rows)
      /\ DOMAIN rows' = DOMAIN rows
      /\ \A id \in DOMAIN rows : rows'[id] = rows[id] \/ rows'[id] = Gone
  BY <1>1, <1>2, ExceptSeq
<1>4. \A id \in DOMAIN rows' : rows'[id] # Gone => rows'[id] = told'[id]
  BY <1>1, <1>3 DEF RegistryInv
<1>5. RegisteredOnce'
  BY <1>3 DEF RegistryInv, RegisteredOnce
<1>6. QED BY <1>1, <1>3, <1>4, <1>5, AnswerKeeps DEF RegistryInv

LEMMA TouchKeeps ==
  ASSUME RegistryInv, NEW b \in Browsers, request[b].at = "touch", Touch(b)
  PROVE  RegistryInv'
<1>1. /\ UNCHANGED <<rows, told>> /\ Answer(b)
      /\ touched' = touched \cup {<<request[b].id, request[b].path>>}
  BY DEF Touch
<1>2. request[b].id \in DOMAIN told /\ request[b].path = told[request[b].id]
  BY DEF RegistryInv, Looked
<1>3. \A t \in touched' : t[1] \in DOMAIN told' /\ told'[t[1]] = t[2]
  BY <1>1, <1>2 DEF RegistryInv
<1>4. QED BY <1>1, <1>3, AnswerKeeps DEF RegistryInv, RegisteredOnce

LEMMA RegistryStep == RegistryInv /\ [ProjNext]_projVars => RegistryInv'
<1> SUFFICES ASSUME RegistryInv, [ProjNext]_projVars PROVE RegistryInv'
  OBVIOUS
<1>1. CASE UNCHANGED projVars
  BY <1>1 DEF projVars, RegistryInv, RegisteredOnce, Looked
<1>2. ASSUME NEW path \in Paths, Register(path) PROVE RegistryInv'
  BY <1>2, RegisterKeeps
<1>3. ASSUME NEW b \in Browsers, NEW id \in DOMAIN rows,
             NEW place \in {"read", "touch", "remove"},
             ProjectOr404(b, id, place)
      PROVE  RegistryInv'
  BY <1>3, LookUpKeeps
<1>4. ASSUME NEW b \in Browsers, RemoveProject(b) PROVE RegistryInv'
  BY <1>4, RemoveKeeps
<1>5. ASSUME NEW b \in Browsers, ReadOrRefuse(b) PROVE RegistryInv'
  BY <1>5, AnswerKeeps DEF ReadOrRefuse, RegistryInv, RegisteredOnce
<1>6. ASSUME NEW b \in Browsers, WriteFileContent(b) \/ RunCommand(b)
      PROVE  RegistryInv'
  BY <1>6, TouchKeeps DEF WriteFileContent, RunCommand
<1>7. QED BY <1>1, <1>2, <1>3, <1>4, <1>5, <1>6 DEF ProjNext

\* The id that a browser keeps leads to the directory it was given for or to
\* none, and no directory has two ids, for any browsers, directories and
\* numbers of rows.  (core/projects.py:9-16, routers/projects.py:17)
THEOREM IdsStand == ProjSpec => []OneRootPerId
<1>1. RegistryInv => OneRootPerId
  BY DEF RegistryInv, OneRootPerId, IdsNeverRedirect
<1>2. QED BY <1>1, RegistryInit, RegistryStep, PTL DEF ProjSpec

-----------------------------------------------------------------------------
(* The notes *)

NoteOf(w) == [session |-> w, project |-> project[w]]
Notes == [session : Writers, project : Workspaces]

\* Of a turn that has written its note, the note is there.
Noted(w) == writer[w] = "noted" => \E k \in DOMAIN notes : notes[k] = NoteOf(w)

NoteInv ==
  /\ writer = [w \in Writers |-> writer[w]]
  /\ project = [w \in Writers |-> project[w]]
  /\ \A w \in Writers : writer[w] # "idle" => project[w] \in Workspaces
  /\ notes \in Seq(Notes)
  /\ journal \in [Workspaces -> Seq(Writers)]
  /\ \A w \in Writers : Noted(w)
  /\ JournalIsRecorded

LEMMA NoteInitial == NoteInit => NoteInv
  BY DEF NoteInit, NoteInv, Noted, JournalIsRecorded, ToSet

\* Steps that leave the notes and the journal alone, and note nothing.
LEMMA OtherStepKeeps ==
  ASSUME NoteInv, NEW w \in Writers, writer[w] # "idle",
         \/ writer' = writer
         \/ writer' = [writer EXCEPT ![w] = "working"]
         \/ writer' = [writer EXCEPT ![w] = "done"],
         UNCHANGED <<project, notes, journal>>
  PROVE  NoteInv'
<1>1. /\ writer' = [v \in Writers |-> writer'[v]]
      /\ \A v \in Writers : \/ writer'[v] = writer[v]
                            \/ /\ writer'[v] \in {"working", "done"}
                               /\ writer[v] # "idle"
  BY DEF NoteInv
<1>2. \A v \in Writers : Noted(v)'
  BY <1>1 DEF NoteInv, Noted, NoteOf
<1>3. \A v \in Writers : writer'[v] # "idle" => project'[v] \in Workspaces
  BY <1>1 DEF NoteInv
<1>4. QED BY <1>1, <1>2, <1>3 DEF NoteInv, JournalIsRecorded

LEMMA StartKeeps ==
  ASSUME NoteInv, NEW w \in Writers, StartSession(w)
  PROVE  NoteInv'
<1>1. PICK p \in Workspaces : project' = [project EXCEPT ![w] = p]
  BY DEF StartSession
<1>2. /\ writer' = [writer EXCEPT ![w] = "open"]
      /\ UNCHANGED <<notes, journal>>
  BY DEF StartSession
<1>3. /\ writer' = [v \in Writers |-> writer'[v]]
      /\ project' = [v \in Writers |-> project'[v]]
      /\ writer'[w] = "open" /\ project'[w] = p
      /\ \A v \in Writers \ {w} : /\ writer'[v] = writer[v]
                                  /\ project'[v] = project[v]
  BY <1>1, <1>2 DEF NoteInv
<1>4. \A v \in Writers : Noted(v)'
  BY <1>2, <1>3 DEF NoteInv, Noted, NoteOf
<1>5. \A v \in Writers : writer'[v] # "idle" => project'[v] \in Workspaces
  BY <1>3 DEF NoteInv
<1>6. QED BY <1>2, <1>3, <1>4, <1>5 DEF NoteInv, JournalIsRecorded

LEMMA NoteKeeps ==
  ASSUME NoteInv, NEW w \in Writers, RecordNote(w)
  PROVE  NoteInv'
<1>1. /\ notes' = Append(notes, NoteOf(w))
      /\ writer' = [writer EXCEPT ![w] = "noted"]
      /\ UNCHANGED <<project, journal>> /\ writer[w] = "working"
  BY DEF RecordNote, NoteOf
<1>2. NoteOf(w) \in Notes /\ notes \in Seq(Notes)
  BY <1>1 DEF NoteInv, NoteOf, Notes
<1>3. /\ notes' \in Seq(Notes)
      /\ notes'[Len(notes) + 1] = NoteOf(w)
      /\ Len(notes) + 1 \in DOMAIN notes'
      /\ \A k \in DOMAIN notes : k \in DOMAIN notes' /\ notes'[k] = notes[k]
  BY <1>1, <1>2
<1>4. /\ writer' = [v \in Writers |-> writer'[v]]
      /\ \A v \in Writers \ {w} : writer'[v] = writer[v]
  BY <1>1 DEF NoteInv
<1>5. \A v \in Writers : Noted(v)'
  BY <1>1, <1>3, <1>4 DEF NoteInv, Noted, NoteOf
<1>6. \A v \in Writers : writer'[v] # "idle" => project'[v] \in Workspaces
  BY <1>1, <1>4 DEF NoteInv
<1>7. JournalIsRecorded'
  BY <1>1, <1>3 DEF NoteInv, JournalIsRecorded
<1>8. QED BY <1>1, <1>3, <1>4, <1>5, <1>6, <1>7 DEF NoteInv

LEMMA AppendAdds ==
  ASSUME NEW S, NEW s \in Seq(S), NEW e \in S
  PROVE  ToSet(Append(s, e)) = ToSet(s) \cup {e}
<1> DEFINE t == Append(s, e)
<1>1. /\ DOMAIN t = 1..(Len(s) + 1) /\ DOMAIN s = 1..Len(s)
      /\ t[Len(s) + 1] = e /\ \A k \in DOMAIN s : t[k] = s[k]
      /\ Len(s) \in Nat
  OBVIOUS
<1>2. \A k \in DOMAIN t : k \in DOMAIN s \/ k = Len(s) + 1
  BY <1>1
<1>3. Len(s) + 1 \in DOMAIN t /\ \A k \in DOMAIN s : k \in DOMAIN t
  BY <1>1
<1> HIDE DEF t
<1>4. ToSet(t) = ToSet(s) \cup {e}
  BY <1>1, <1>2, <1>3 DEF ToSet
<1>5. QED BY <1>4 DEF t

LEMMA EntryKeeps ==
  ASSUME NoteInv, NEW w \in Writers, AppendJournalEntry(w)
  PROVE  NoteInv' /\ \A p \in Workspaces : IsPrefix(journal[p], journal'[p])
<1>1. /\ writer[w] = "noted" /\ UNCHANGED <<project, notes>>
      /\ writer' = [writer EXCEPT ![w] = "done"]
      /\ journal' = [journal EXCEPT ![project[w]] = Append(@, w)]
  BY DEF AppendJournalEntry
<1>2. project[w] \in Workspaces /\ Noted(w)
  BY <1>1 DEF NoteInv
<1>3. /\ journal' \in [Workspaces -> Seq(Writers)]
      /\ journal'[project[w]] = Append(journal[project[w]], w)
      /\ \A p \in Workspaces \ {project[w]} : journal'[p] = journal[p]
  BY <1>1, <1>2 DEF NoteInv
<1>4. /\ writer' = [v \in Writers |-> writer'[v]] /\ writer'[w] = "done"
      /\ \A v \in Writers \ {w} : writer'[v] = writer[v]
  BY <1>1 DEF NoteInv
<1>5. \A v \in Writers : Noted(v)'
  BY <1>1, <1>4 DEF NoteInv, Noted, NoteOf
<1>6. \A v \in Writers : writer'[v] # "idle" => project'[v] \in Workspaces
  BY <1>1, <1>2, <1>4 DEF NoteInv
<1>7. ToSet(journal'[project[w]]) = ToSet(journal[project[w]]) \cup {w}
  <2>1. journal[project[w]] \in Seq(Writers)
    BY <1>2 DEF NoteInv
  <2>2. QED BY <1>3, <2>1, AppendAdds
<1>8. ASSUME NEW p \in Workspaces, NEW v \in ToSet(journal'[p])
      PROVE  \E k \in DOMAIN notes : notes[k] = [session |-> v, project |-> p]
  <2>1. CASE v \in ToSet(journal[p])
    BY <2>1 DEF NoteInv, JournalIsRecorded
  <2>2. CASE v \notin ToSet(journal[p])
    <3>1. p = project[w] /\ v = w
      BY <1>3, <1>7, <1>8, <2>2
    <3>2. QED BY <1>1, <1>2, <3>1 DEF Noted, NoteOf
  <2>3. QED BY <2>1, <2>2
<1>9. JournalIsRecorded'
  BY <1>1, <1>8 DEF JournalIsRecorded
<1>10. ASSUME NEW p \in Workspaces PROVE IsPrefix(journal[p], journal'[p])
  <2>1. journal[p] \in Seq(Writers)
    BY DEF NoteInv
  <2>2. journal'[p] = journal[p] \/ journal'[p] = Append(journal[p], w)
    BY <1>3
  <2>3. QED BY <2>1, <2>2 DEF IsPrefix
<1>11. QED BY <1>1, <1>3, <1>4, <1>5, <1>6, <1>9, <1>10 DEF NoteInv

LEMMA SamePrefix ==
  ASSUME NoteInv, UNCHANGED journal
  PROVE  \A p \in Workspaces : IsPrefix(journal[p], journal'[p])
<1>1. ASSUME NEW p \in Workspaces PROVE IsPrefix(journal[p], journal[p])
  <2>1. journal[p] \in Seq(Writers)
    BY DEF NoteInv
  <2>2. QED BY <2>1 DEF IsPrefix
<1>2. QED BY <1>1

LEMMA NoteStep ==
  ASSUME NoteInv, [NoteNext]_noteVars
  PROVE  /\ NoteInv'
         /\ \A p \in Workspaces : IsPrefix(journal[p], journal'[p])
<1>1. CASE UNCHANGED noteVars
  BY <1>1, SamePrefix DEF noteVars, NoteInv, Noted, NoteOf, JournalIsRecorded
<1>2. ASSUME NEW w \in Writers, StartSession(w)
      PROVE  /\ NoteInv'
             /\ \A p \in Workspaces : IsPrefix(journal[p], journal'[p])
  <2>1. UNCHANGED journal
    BY <1>2 DEF StartSession
  <2>2. QED BY <1>2, <2>1, StartKeeps, SamePrefix
<1>3. ASSUME NEW w \in Writers, BuildPrompt(w) \/ GetPastNotes(w)
      PROVE  /\ NoteInv'
             /\ \A p \in Workspaces : IsPrefix(journal[p], journal'[p])
  <2>1. /\ UNCHANGED <<project, notes, journal>> /\ writer[w] # "idle"
        /\ writer' = writer \/ writer' = [writer EXCEPT ![w] = "working"]
    BY <1>3 DEF BuildPrompt, GetPastNotes
  <2>2. QED BY <2>1, OtherStepKeeps, SamePrefix
<1>4. ASSUME NEW w \in Writers, RecordNote(w)
      PROVE  /\ NoteInv'
             /\ \A p \in Workspaces : IsPrefix(journal[p], journal'[p])
  <2>1. UNCHANGED journal
    BY <1>4 DEF RecordNote
  <2>2. QED BY <1>4, <2>1, NoteKeeps, SamePrefix
<1>5. ASSUME NEW w \in Writers, AppendJournalEntry(w)
      PROVE  /\ NoteInv'
             /\ \A p \in Workspaces : IsPrefix(journal[p], journal'[p])
  BY <1>5, EntryKeeps
<1>6. ASSUME NEW w \in Writers, EndSession(w)
      PROVE  /\ NoteInv'
             /\ \A p \in Workspaces : IsPrefix(journal[p], journal'[p])
  <2>1. /\ UNCHANGED <<project, notes, journal>> /\ writer[w] # "idle"
        /\ writer' = [writer EXCEPT ![w] = "done"]
    BY <1>6 DEF EndSession
  <2>2. QED BY <2>1, OtherStepKeeps, SamePrefix
<1>7. QED BY <1>1, <1>2, <1>3, <1>4, <1>5, <1>6 DEF NoteNext

\* What a turn has listed is of its workspace, and it has one from its start.
ListInv ==
  /\ listed = [w \in Writers |-> listed[w]]
  /\ \A w \in Writers : /\ writer[w] = "idle" => listed[w] = {}
                        /\ listed[w] \subseteq DOMAIN notes
  /\ NotesStayInProject

LEMMA ListInitial == NoteInit => ListInv
BY DEF NoteInit, ListInv, NotesStayInProject

\* A note that is recorded changes no other.
LEMMA NotesKept ==
  ASSUME NoteInv, ListInv, NEW w \in Writers, RecordNote(w)
  PROVE  \A v \in Writers : \A k \in listed[v] :
           k \in DOMAIN notes' /\ notes'[k] = notes[k]
<1>1. NoteOf(w) \in Notes /\ notes \in Seq(Notes)
  BY DEF NoteInv, RecordNote, NoteOf, Notes
<1>2. notes' = Append(notes, NoteOf(w))
  BY DEF RecordNote, NoteOf
<1>3. \A k \in DOMAIN notes : k \in DOMAIN notes' /\ notes'[k] = notes[k]
  BY <1>1, <1>2
<1>4. QED BY <1>3 DEF ListInv

LEMMA ListStep ==
  ASSUME NoteInv, ListInv, [NoteNext]_noteVars
  PROVE  ListInv'
<1>1. CASE UNCHANGED noteVars
  BY <1>1 DEF noteVars, ListInv, NotesStayInProject
<1>2. ASSUME NEW w \in Writers, StartSession(w)
      PROVE  ListInv'
  <2>1. /\ listed[w] = {} /\ UNCHANGED <<notes, listed>>
        /\ \A v \in Writers \ {w} : /\ writer'[v] = writer[v]
                                    /\ project'[v] = project[v]
    BY <1>2 DEF StartSession, NoteInv, ListInv
  <2>2. QED BY <2>1 DEF ListInv, NotesStayInProject
<1>3. ASSUME NEW w \in Writers, GetPastNotes(w)
      PROVE  ListInv'
  <2>1. /\ UNCHANGED <<writer, project, notes>> /\ writer[w] # "idle"
        /\ listed' = [listed EXCEPT ![w] = ListNotes(project[w])]
    BY <1>3 DEF GetPastNotes
  <2>2. /\ ListNotes(project[w]) \subseteq DOMAIN notes
        /\ \A k \in ListNotes(project[w]) : notes[k].project = project[w]
    BY DEF ListNotes
  <2>3. /\ listed' = [v \in Writers |-> listed'[v]]
        /\ listed'[w] = ListNotes(project[w])
        /\ \A v \in Writers \ {w} : listed'[v] = listed[v]
    BY <2>1 DEF ListInv
  <2>4. QED BY <2>1, <2>2, <2>3 DEF ListInv, NotesStayInProject
<1>4. ASSUME NEW w \in Writers, RecordNote(w)
      PROVE  ListInv'
  <2>1. /\ UNCHANGED <<project, listed>>
        /\ \A v \in Writers : writer'[v] = "idle" => writer[v] = "idle"
    BY <1>4 DEF RecordNote, NoteInv
  <2>2. \A v \in Writers : \A k \in listed[v] :
          k \in DOMAIN notes' /\ notes'[k] = notes[k]
    BY <1>4, NotesKept
  <2>3. QED BY <2>1, <2>2 DEF ListInv, NotesStayInProject
<1>5. ASSUME NEW w \in Writers,
             BuildPrompt(w) \/ AppendJournalEntry(w) \/ EndSession(w)
      PROVE  ListInv'
  <2>1. /\ UNCHANGED <<project, notes, listed>>
        /\ \A v \in Writers : writer'[v] = "idle" => writer[v] = "idle"
    BY <1>5 DEF BuildPrompt, AppendJournalEntry, EndSession, NoteInv
  <2>2. QED BY <2>1 DEF ListInv, NotesStayInProject
<1>6. QED BY <1>1, <1>2, <1>3, <1>4, <1>5 DEF NoteNext

\* No entry of a journal is ever rewritten, each has its note, and a turn is
\* given the notes of its own workspace, for any number of turns that end or
\* are killed in any order.
\* (core/project_notes.py:15-26, agent_worker.py:168-173, sqlite.py:87-101)
THEOREM JournalKeepsThePast == NoteSpec => PastIsKept
<1>1. NoteInv /\ ListInv => JournalIsRecorded /\ NotesStayInProject
  BY DEF NoteInv, ListInv
<1>2. NoteInv /\ ListInv /\ [NoteNext]_noteVars => NoteInv' /\ ListInv'
  BY NoteStep, ListStep
<1>3. NoteInv /\ [NoteNext]_noteVars =>
        [\A p \in Workspaces : IsPrefix(journal[p], journal'[p])]_noteVars
  BY NoteStep
<1>4. QED
  BY <1>1, <1>2, <1>3, NoteInitial, ListInitial, PTL
  DEF NoteSpec, PastIsKept, JournalIsAppendOnly

-----------------------------------------------------------------------------
(* Logging in *)

Code == [created : Nat, consumed : BOOLEAN, tries : Nat]
Token == [expires : Nat, revoked : BOOLEAN]
Attempted == [stage : {"password", "otp"}, time : Nat]
AuthLabels == {"idle", "password", "issue", "code", "compare", "attempt",
               "session", "rotate", "replace", "revoke"}

AuthTypeOK ==
  /\ codes \in Seq(Code)
  /\ tokens \in Seq(Token)
  /\ log \in Seq(Attempted)
  /\ origin \in Seq([code : Nat, token : Nat])
  /\ Len(origin) = Len(tokens)
  /\ lock \in Requests \cup {Nobody}
  /\ at \in [Requests -> AuthLabels]
  /\ arg \in [Requests -> Nat]
  /\ now \in Nat

\* A request that has proved a code and has no session for it yet.
Claims(r) == at[r] \in {"attempt", "session"} /\ arg[r] # 0

Consumed(k) == k \in DOMAIN codes /\ codes[k].consumed

\* The lock is held between the two commits of verify_otp and of
\* rotate_refresh_token: nobody consumes the code, or replaces the token, that
\* another request is about to.
Locked ==
  /\ \A r \in Requests : at[r] \in {"compare", "replace"} <=> lock = r
  /\ \A r \in Requests : at[r] = "compare" =>
       arg[r] \in DOMAIN codes /\ ~codes[arg[r]].consumed
  /\ \A r \in Requests : at[r] \in {"rotate", "revoke", "replace"} =>
       arg[r] \in DOMAIN tokens
  /\ \A r \in Requests : at[r] = "replace" =>
       \A k \in DOMAIN tokens :
         origin[k].code = origin[arg[r]].code => tokens[k].revoked

\* A consumed code is claimed by one request at most, and by none once a token
\* comes from it.
Claimed ==
  /\ \A r \in Requests : at[r] = "session" => arg[r] # 0
  /\ \A r \in Requests : Claims(r) => Consumed(arg[r])
  /\ \A r, s \in Requests : Claims(r) /\ Claims(s) /\ arg[r] = arg[s] => r = s
  /\ \A j \in DOMAIN origin :
       /\ Consumed(origin[j].code)
       /\ \A r \in Requests : Claims(r) => arg[r] # origin[j].code

AuthInv == AuthTypeOK /\ Locked /\ Claimed /\ OpensOnce

LEMMA Limits == /\ Nobody \notin Requests
                /\ CodeTTL \in Nat /\ Cooldown \in Nat /\ CodeWindow \in Nat
                /\ MaxPerWindow \in Nat /\ TokenTTL \in Nat
                /\ LoginWindow \in Nat /\ LoginMax \in Nat
  BY AuthAssumption

LEMMA OneOrigin == AuthTypeOK => DOMAIN origin = DOMAIN tokens
<1> SUFFICES ASSUME AuthTypeOK PROVE DOMAIN origin = DOMAIN tokens
  OBVIOUS
<1>1. DOMAIN origin = 1..Len(origin) /\ DOMAIN tokens = 1..Len(tokens)
  BY DEF AuthTypeOK
<1> QED
  BY <1>1 DEF AuthTypeOK

LEMMA ElementIs ==
  ASSUME NEW S, NEW s \in Seq(S), NEW k \in DOMAIN s
  PROVE  s[k] \in S
  OBVIOUS

LEMMA AppendIs ==
  ASSUME NEW S, NEW s \in Seq(S), NEW e \in S
  PROVE  /\ Append(s, e) \in Seq(S)
         /\ Len(Append(s, e)) = Len(s) + 1
         /\ DOMAIN s = 1..Len(s)
         /\ DOMAIN Append(s, e) = 1..(Len(s) + 1)
         /\ Append(s, e)[Len(s) + 1] = e
         /\ \A k \in 1..Len(s) : Append(s, e)[k] = s[k]
         /\ Len(s) \in Nat
  OBVIOUS

LEMMA ChangeIs ==
  ASSUME NEW S, NEW s \in Seq(S), NEW k \in DOMAIN s, NEW e \in S
  PROVE  /\ [s EXCEPT ![k] = e] \in Seq(S)
         /\ Len([s EXCEPT ![k] = e]) = Len(s)
         /\ DOMAIN [s EXCEPT ![k] = e] = DOMAIN s
         /\ [s EXCEPT ![k] = e][k] = e
         /\ \A j \in DOMAIN s \ {k} : [s EXCEPT ![k] = e][j] = s[j]
  OBVIOUS

\* Requests that move on without the lock, a code or a token.
LEMMA MovesOn ==
  ASSUME AuthInv, NEW r \in Requests, NEW place \in AuthLabels,
         NEW value \in Nat, Goto(r, place, value),
         UNCHANGED <<codes, tokens, lock, origin>>,
         log' \in Seq(Attempted), now' \in Nat,
         at[r] \notin {"compare", "replace"},
         place \notin {"compare", "replace"},
         place \in {"rotate", "revoke"} => value \in DOMAIN tokens,
         place = "session" => value # 0,
         place \in {"attempt", "session"} /\ value # 0 =>
           Claims(r) /\ value = arg[r]
  PROVE  AuthInv'
<1> USE DEF AuthInv
<1>1. AuthTypeOK'
  BY DEF AuthTypeOK, Goto
<1>2. /\ at'[r] = place /\ arg'[r] = value
      /\ \A s \in Requests \ {r} : at'[s] = at[s] /\ arg'[s] = arg[s]
  BY DEF AuthTypeOK, Goto
<1>3. \A s \in Requests : Claims(s)' => Claims(s) /\ arg'[s] = arg[s]
  BY <1>2 DEF Claims
<1>4. Locked'
  BY <1>2 DEF Locked
<1>5. Claimed'
  BY <1>2, <1>3 DEF Claimed, Consumed
<1>6. OpensOnce'
  BY DEF OpensOnce, CodeOpensOne, OneLiveToken
<1> QED
  BY <1>1, <1>4, <1>5, <1>6

LEMMA CreateOtpKeeps ==
  ASSUME AuthInv, NEW r \in Requests, CreateOtp(r)
  PROVE  AuthInv'
<1> USE DEF AuthInv
<1>1. at[r] = "issue" /\ Goto(r, "idle", 0)
      /\ UNCHANGED <<tokens, log, lock, now, origin>>
  BY DEF CreateOtp
<1>2. /\ codes' \in Seq(Code)
      /\ \A k \in DOMAIN codes : k \in DOMAIN codes' /\ codes'[k] = codes[k]
  <2>1. CASE codes' = codes
    BY <2>1 DEF AuthTypeOK
  <2>2. CASE codes' = Append(codes, [created |-> now, consumed |-> FALSE,
                                     tries |-> 0])
    <3>1. [created |-> now, consumed |-> FALSE, tries |-> 0] \in Code
      BY DEF Code, AuthTypeOK
    <3> QED
      BY <2>2, <3>1, AppendIs DEF AuthTypeOK
  <2> QED
    BY <2>1, <2>2 DEF CreateOtp
<1>3. AuthTypeOK'
  BY <1>1, <1>2 DEF AuthTypeOK, Goto, AuthLabels
<1>4. /\ at'[r] = "idle"
      /\ \A s \in Requests \ {r} : at'[s] = at[s] /\ arg'[s] = arg[s]
  BY <1>1 DEF AuthTypeOK, Goto
<1>5. \A s \in Requests : Claims(s)' => Claims(s) /\ arg'[s] = arg[s]
  BY <1>4 DEF Claims
<1>6. Locked'
  BY <1>1, <1>2, <1>4 DEF Locked
<1>7. Claimed'
  BY <1>1, <1>2, <1>4, <1>5 DEF Claimed, Consumed
<1>8. OpensOnce'
  BY <1>1 DEF OpensOnce, CodeOpensOne, OneLiveToken
<1> QED
  BY <1>3, <1>6, <1>7, <1>8

\* The attempt is counted, and the lock kept.
LEMMA CountsKeep ==
  ASSUME AuthInv, NEW r \in Requests, VerifyOtp(r), Usable
  PROVE  AuthInv'
<1> USE DEF AuthInv
<1>1. /\ at[r] = "code" /\ lock = Nobody /\ lock' = r
      /\ Goto(r, "compare", Len(codes))
      /\ codes' = [codes EXCEPT ![Len(codes)].tries = @ + 1]
      /\ UNCHANGED <<tokens, log, now, origin>>
  BY DEF VerifyOtp, Free
<1>2. Len(codes) \in DOMAIN codes /\ ~codes[Len(codes)].consumed
  BY DEF Usable, AuthTypeOK
<1> DEFINE c == [codes[Len(codes)] EXCEPT !.tries = @ + 1]
<1>3. codes[Len(codes)] \in Code
  BY <1>2 DEF AuthTypeOK
<1>4. c \in Code /\ c.consumed = codes[Len(codes)].consumed
  BY <1>3 DEF Code
<1>5. codes' = [codes EXCEPT ![Len(codes)] = c]
  BY <1>1
<1> HIDE DEF c
<1>6. /\ codes' \in Seq(Code) /\ DOMAIN codes' = DOMAIN codes
      /\ \A k \in DOMAIN codes : codes'[k].consumed = codes[k].consumed
  BY <1>2, <1>4, <1>5, ChangeIs DEF AuthTypeOK
<1>7. Len(codes) \in Nat
  BY DEF AuthTypeOK
<1>8. AuthTypeOK'
  BY <1>1, <1>6, <1>7 DEF AuthTypeOK, Goto, AuthLabels
<1>9. /\ at'[r] = "compare" /\ arg'[r] = Len(codes)
      /\ \A s \in Requests \ {r} : at'[s] = at[s] /\ arg'[s] = arg[s]
  BY <1>1, <1>7 DEF AuthTypeOK, Goto
<1>10. \A s \in Requests : Claims(s)' => Claims(s) /\ arg'[s] = arg[s]
  BY <1>9 DEF Claims
<1>11. Locked'
  <2>1. \A s \in Requests : at[s] \notin {"compare", "replace"} /\ s # Nobody
    BY <1>1, Limits DEF Locked
  <2>2. \A s \in Requests : at'[s] \in {"compare", "replace"} <=> s = r
    BY <1>9, <2>1
  <2>3. arg'[r] \in DOMAIN codes' /\ ~codes'[arg'[r]].consumed
    BY <1>2, <1>6, <1>9
  <2> QED
    BY <1>1, <1>9, <2>2, <2>3 DEF Locked
<1>12. Claimed'
  BY <1>1, <1>6, <1>9, <1>10 DEF Claimed, Consumed
<1>13. OpensOnce'
  BY <1>1 DEF OpensOnce, CodeOpensOne, OneLiveToken
<1> QED
  BY <1>8, <1>11, <1>12, <1>13

\* The lock is still held, so the code is consumed by this request alone.
LEMMA CompareKeeps ==
  ASSUME AuthInv, NEW r \in Requests, Compare(r)
  PROVE  AuthInv'
<1> USE DEF AuthInv
<1>1. /\ at[r] = "compare" /\ lock = r /\ lock' = Nobody
      /\ UNCHANGED <<tokens, log, now, origin>>
      /\ arg[r] \in DOMAIN codes /\ ~codes[arg[r]].consumed
  BY DEF Compare, Locked
<1>2. PICK v \in {0, arg[r]} :
        /\ Goto(r, "attempt", v)
        /\ v = 0 => codes' = codes
        /\ v # 0 => codes' = [codes EXCEPT ![arg[r]].consumed = TRUE]
  <2>1. arg[r] # 0
    BY <1>1 DEF AuthTypeOK
  <2> QED
    BY <2>1 DEF Compare
<1>3. /\ codes' \in Seq(Code) /\ DOMAIN codes' = DOMAIN codes
      /\ \A k \in DOMAIN codes :
           k # arg[r] => codes'[k].consumed = codes[k].consumed
      /\ v # 0 => codes'[arg[r]].consumed
  <2>1. CASE v = 0
    BY <1>2, <2>1 DEF AuthTypeOK
  <2>2. CASE v # 0
    <3> DEFINE c == [codes[arg[r]] EXCEPT !.consumed = TRUE]
    <3>1. codes[arg[r]] \in Code
      BY <1>1 DEF AuthTypeOK
    <3>2. c \in Code /\ c.consumed
      BY <3>1 DEF Code
    <3>3. codes' = [codes EXCEPT ![arg[r]] = c]
      BY <1>2, <2>2
    <3> HIDE DEF c
    <3> QED
      BY <1>1, <3>2, <3>3, ChangeIs DEF AuthTypeOK
  <2> QED
    BY <2>1, <2>2
<1>4. AuthTypeOK'
  BY <1>1, <1>2, <1>3 DEF AuthTypeOK, Goto, AuthLabels
<1>5. /\ at'[r] = "attempt" /\ arg'[r] = v
      /\ \A s \in Requests \ {r} : at'[s] = at[s] /\ arg'[s] = arg[s]
  BY <1>2 DEF AuthTypeOK, Goto
<1>6. \A s \in Requests : Claims(s) => Consumed(arg[s]) /\ arg[s] # arg[r]
  BY <1>1 DEF Claimed, Consumed
<1>7. \A j \in DOMAIN origin : origin[j].code # arg[r]
  BY <1>1 DEF Claimed, Consumed
<1>8. \A k \in DOMAIN codes : Consumed(k) => Consumed(k)'
  BY <1>1, <1>3 DEF Consumed
<1>9. Locked'
  BY <1>1, <1>3, <1>5, AuthAssumption DEF Locked
<1>10. Claimed'
  <2>1. \A s \in Requests \ {r} : Claims(s)' <=> Claims(s)
    BY <1>5 DEF Claims
  <2>2. Claims(r)' => v = arg[r] /\ Consumed(arg[r])'
    BY <1>1, <1>2, <1>3, <1>5 DEF Claims, Consumed
  <2>3. \A s \in Requests : Claims(s)' => Consumed(arg[s])'
    BY <1>2, <1>3, <1>5, <1>6, <2>1, <2>2 DEF Consumed
  <2>4. \A s, t \in Requests : Claims(s)' /\ Claims(t)' /\ arg'[s] = arg'[t]
                                 => s = t
    BY <1>5, <1>6, <2>1, <2>2 DEF Claimed
  <2>5. \A j \in DOMAIN origin :
          /\ Consumed(origin[j].code)'
          /\ \A s \in Requests : Claims(s)' => arg'[s] # origin[j].code
    BY <1>1, <1>3, <1>5, <1>7, <2>1, <2>2 DEF Claimed, Consumed
  <2> QED
    BY <1>1, <1>5, <2>3, <2>4, <2>5 DEF Claimed, Consumed
<1>11. OpensOnce'
  BY <1>1 DEF OpensOnce, CodeOpensOne, OneLiveToken
<1> QED
  BY <1>4, <1>9, <1>10, <1>11

\* What NewToken adds, of a code c and a token t.
LEMMA NewTokenIs ==
  ASSUME AuthTypeOK, NEW c \in Nat, NEW t \in Nat, NewToken(c, t)
  PROVE  \E n \in Nat \ DOMAIN tokens :
           /\ tokens' \in Seq(Token)
           /\ origin' \in Seq([code : Nat, token : Nat])
           /\ Len(origin') = Len(tokens')
           /\ DOMAIN tokens' = DOMAIN tokens \cup {n}
           /\ DOMAIN origin' = DOMAIN tokens \cup {n}
           /\ origin'[n] = [code |-> c, token |-> t]
           /\ \A k \in DOMAIN tokens : /\ tokens'[k] = tokens[k]
                                       /\ origin'[k] = origin[k]
<1> DEFINE n == Len(tokens) + 1
           e == [expires |-> now + TokenTTL, revoked |-> FALSE]
           o == [code |-> c, token |-> t]
<1>1. e \in Token
  <2>1. now + TokenTTL \in Nat
    BY Limits DEF AuthTypeOK
  <2> QED
    BY <2>1 DEF Token
<1>2. o \in [code : Nat, token : Nat]
  OBVIOUS
<1>3. tokens' = Append(tokens, e) /\ origin' = Append(origin, o)
  BY DEF NewToken
<1>4. tokens \in Seq(Token) /\ origin \in Seq([code : Nat, token : Nat])
      /\ Len(origin) = Len(tokens)
  BY DEF AuthTypeOK
<1> HIDE DEF e, o
<1>5. /\ tokens' \in Seq(Token) /\ Len(tokens') = n /\ Len(tokens) \in Nat
      /\ DOMAIN tokens = 1..Len(tokens) /\ DOMAIN tokens' = 1..n
      /\ \A k \in 1..Len(tokens) : tokens'[k] = tokens[k]
  BY <1>1, <1>3, <1>4, AppendIs
<1>6. /\ origin' \in Seq([code : Nat, token : Nat]) /\ Len(origin') = n
      /\ DOMAIN origin' = 1..n /\ origin'[n] = o
      /\ \A k \in 1..Len(tokens) : origin'[k] = origin[k]
  BY <1>2, <1>3, <1>4, AppendIs
<1>7. n \in Nat \ DOMAIN tokens /\ 1..n = DOMAIN tokens \cup {n}
  BY <1>5
<1> HIDE DEF n
<1> QED
  BY <1>5, <1>6, <1>7 DEF o

LEMMA SessionKeeps ==
  ASSUME AuthInv, NEW r \in Requests, CreateRefreshToken(r)
  PROVE  AuthInv'
<1> USE DEF AuthInv
<1>1. /\ at[r] = "session" /\ lock = Nobody /\ NewToken(arg[r], 0)
      /\ Goto(r, "idle", 0) /\ UNCHANGED <<codes, log, lock, now>>
      /\ arg[r] \in Nat /\ arg[r] # 0
  BY DEF CreateRefreshToken, Free, Claimed, AuthTypeOK
<1>2. Claims(r) /\ Consumed(arg[r])
  BY <1>1 DEF Claims, Claimed
<1>3. PICK n \in Nat \ DOMAIN tokens :
        /\ tokens' \in Seq(Token)
        /\ origin' \in Seq([code : Nat, token : Nat])
        /\ Len(origin') = Len(tokens')
        /\ DOMAIN tokens' = DOMAIN tokens \cup {n}
        /\ DOMAIN origin' = DOMAIN tokens \cup {n}
        /\ origin'[n] = [code |-> arg[r], token |-> 0]
        /\ \A k \in DOMAIN tokens : /\ tokens'[k] = tokens[k]
                                    /\ origin'[k] = origin[k]
  BY <1>1, NewTokenIs
<1>4. /\ DOMAIN tokens = DOMAIN origin
      /\ \A k \in DOMAIN tokens : origin[k].code # arg[r]
  BY <1>2, OneOrigin DEF Claimed
<1>5. AuthTypeOK'
  BY <1>1, <1>3 DEF AuthTypeOK, Goto, AuthLabels
<1>6. /\ at'[r] = "idle"
      /\ \A s \in Requests \ {r} : at'[s] = at[s] /\ arg'[s] = arg[s]
  BY <1>1 DEF AuthTypeOK, Goto
<1>7. \A s \in Requests : Claims(s)' => Claims(s) /\ arg'[s] = arg[s] /\ s # r
  BY <1>6 DEF Claims
<1>8. Locked'
  <2>1. \A s \in Requests : at[s] \notin {"compare", "replace"} /\ s # Nobody
    BY <1>1, Limits DEF Locked
  <2> QED
    BY <1>1, <1>3, <1>6, <2>1 DEF Locked
<1>9. Claimed'
  <2>1. \A j \in DOMAIN origin' :
          /\ Consumed(origin'[j].code)
          /\ \A s \in Requests : Claims(s)' => arg'[s] # origin'[j].code
    BY <1>2, <1>3, <1>4, <1>7 DEF Claimed
  <2> QED
    BY <1>1, <1>6, <1>7, <2>1 DEF Claimed, Consumed
<1>10. OpensOnce'
  BY <1>3, <1>4 DEF OpensOnce, CodeOpensOne, OneLiveToken
<1> QED
  BY <1>5, <1>8, <1>9, <1>10

\* A token is revoked, to be replaced or not.
LEMMA RevokedIs ==
  ASSUME AuthTypeOK, NEW t \in DOMAIN tokens,
         tokens' = [tokens EXCEPT ![t].revoked = TRUE]
  PROVE  /\ tokens' \in Seq(Token) /\ DOMAIN tokens' = DOMAIN tokens
         /\ Len(tokens') = Len(tokens)
         /\ tokens'[t].revoked
         /\ \A k \in DOMAIN tokens \ {t} : tokens'[k] = tokens[k]
<1> DEFINE e == [tokens[t] EXCEPT !.revoked = TRUE]
<1>1. tokens[t] \in Token
  BY DEF AuthTypeOK
<1>2. e \in Token /\ e.revoked
  BY <1>1 DEF Token
<1>3. tokens' = [tokens EXCEPT ![t] = e]
  OBVIOUS
<1>4. tokens \in Seq(Token)
  BY DEF AuthTypeOK
<1> HIDE DEF e
<1> DEFINE u == [tokens EXCEPT ![t] = e]
<1>5. /\ u \in Seq(Token) /\ Len(u) = Len(tokens) /\ DOMAIN u = DOMAIN tokens
      /\ u[t] = e /\ \A k \in DOMAIN tokens \ {t} : u[k] = tokens[k]
  BY <1>2, <1>4, ChangeIs
<1> HIDE DEF u
<1>6. tokens' = u
  BY <1>3 DEF u
<1> QED
  BY <1>2, <1>5, <1>6

LEMMA RotateKeeps ==
  ASSUME AuthInv, NEW r \in Requests,
         \/ Revoke(r)
         \/ Rotate(r) /\ tokens' = [tokens EXCEPT ![arg[r]].revoked = TRUE]
              /\ lock' = r /\ Goto(r, "replace", arg[r])
              /\ ~tokens[arg[r]].revoked
  PROVE  AuthInv'
<1> USE DEF AuthInv
<1>1. /\ at[r] \in {"rotate", "revoke"} /\ lock = Nobody
      /\ tokens' = [tokens EXCEPT ![arg[r]].revoked = TRUE]
      /\ UNCHANGED <<codes, log, now, origin>>
      /\ arg[r] \in DOMAIN tokens /\ arg[r] \in Nat
      /\ \/ lock' = lock /\ Goto(r, "idle", 0)
         \/ lock' = r /\ Goto(r, "replace", arg[r]) /\ ~tokens[arg[r]].revoked
  BY DEF Revoke, Rotate, Free, Locked, AuthTypeOK
<1>2. /\ tokens' \in Seq(Token) /\ DOMAIN tokens' = DOMAIN tokens
      /\ Len(tokens') = Len(tokens)
      /\ tokens'[arg[r]].revoked
      /\ \A k \in DOMAIN tokens : tokens[k].revoked => tokens'[k].revoked
      /\ DOMAIN origin = DOMAIN tokens
  BY <1>1, RevokedIs, OneOrigin
<1>3. AuthTypeOK'
  <2>1. /\ UNCHANGED <<codes, log, now, origin>>
        /\ lock' \in Requests \cup {Nobody}
    BY <1>1 DEF AuthTypeOK
  <2>2. /\ at' \in [Requests -> AuthLabels]
        /\ arg' \in [Requests -> Nat]
    <3>1. \E place \in AuthLabels, value \in Nat : Goto(r, place, value)
      BY <1>1, 0 \in Nat DEF AuthLabels
    <3>2. at \in [Requests -> AuthLabels] /\ arg \in [Requests -> Nat]
      BY DEF AuthTypeOK
    <3> QED
      BY <3>1, <3>2 DEF Goto
  <2> QED
    BY <1>2, <2>1, <2>2 DEF AuthTypeOK
<1>4. /\ at'[r] \in {"idle", "replace"}
      /\ at'[r] = "replace" <=> lock' = r
      /\ at'[r] = "replace" => arg'[r] = arg[r] /\ ~tokens[arg[r]].revoked
      /\ \A s \in Requests \ {r} : at'[s] = at[s] /\ arg'[s] = arg[s]
                                   /\ lock' # s
  BY <1>1, AuthAssumption DEF AuthTypeOK, Goto
<1>5. \A s \in Requests : Claims(s)' => Claims(s) /\ arg'[s] = arg[s]
  BY <1>4 DEF Claims
<1>6. Locked'
  <2>1. \A s \in Requests \ {r} : at[s] \notin {"compare", "replace"}
    BY <1>1, AuthAssumption DEF Locked
  <2>2. ~tokens[arg[r]].revoked =>
          \A k \in DOMAIN tokens :
            origin[k].code = origin[arg[r]].code => tokens'[k].revoked
    BY <1>1, <1>2 DEF OpensOnce, OneLiveToken
  <2> QED
    BY <1>1, <1>2, <1>4, <2>1, <2>2 DEF Locked
<1>7. Claimed'
  BY <1>1, <1>4, <1>5 DEF Claimed, Consumed
<1>8. OpensOnce'
  BY <1>1, <1>2 DEF OpensOnce, CodeOpensOne, OneLiveToken
<1> QED
  BY <1>3, <1>6, <1>7, <1>8

LEMMA ReplaceKeeps ==
  ASSUME AuthInv, NEW r \in Requests, Replace(r)
  PROVE  AuthInv'
<1> USE DEF AuthInv
<1> DEFINE c == origin[arg[r]].code
<1>1. /\ at[r] = "replace" /\ lock = r /\ lock' = Nobody
      /\ NewToken(c, arg[r])
      /\ Goto(r, "idle", 0) /\ UNCHANGED <<codes, log, now>>
      /\ arg[r] \in DOMAIN tokens /\ arg[r] \in Nat /\ arg[r] # 0
  BY DEF Replace, Locked, AuthTypeOK
<1>2. DOMAIN origin = DOMAIN tokens /\ c \in Nat
  <2>1. DOMAIN origin = DOMAIN tokens
    BY OneOrigin
  <2>2. origin \in Seq([code : Nat, token : Nat]) /\ arg[r] \in DOMAIN origin
    BY <1>1, <2>1 DEF AuthTypeOK
  <2>3. origin[arg[r]] \in [code : Nat, token : Nat]
    BY <2>2, ElementIs
  <2> QED
    BY <2>1, <2>3
<1>3. PICK n \in Nat \ DOMAIN tokens :
        /\ tokens' \in Seq(Token)
        /\ origin' \in Seq([code : Nat, token : Nat])
        /\ Len(origin') = Len(tokens')
        /\ DOMAIN tokens' = DOMAIN tokens \cup {n}
        /\ DOMAIN origin' = DOMAIN tokens \cup {n}
        /\ origin'[n] = [code |-> c, token |-> arg[r]]
        /\ \A k \in DOMAIN tokens : /\ tokens'[k] = tokens[k]
                                    /\ origin'[k] = origin[k]
  BY <1>1, <1>2, NewTokenIs
<1>4. /\ Consumed(c)
      /\ \A s \in Requests : Claims(s) => arg[s] # c
      /\ \A k \in DOMAIN tokens : origin[k].code = c => tokens[k].revoked
  BY <1>1, <1>2 DEF Claimed, Locked
<1> HIDE DEF c
<1>5. AuthTypeOK'
  BY <1>1, <1>3 DEF AuthTypeOK, Goto, AuthLabels
<1>6. /\ at'[r] = "idle"
      /\ \A s \in Requests \ {r} : at'[s] = at[s] /\ arg'[s] = arg[s]
  BY <1>1 DEF AuthTypeOK, Goto
<1>7. \A s \in Requests : Claims(s)' => Claims(s) /\ arg'[s] = arg[s]
  BY <1>6 DEF Claims
<1>8. Locked'
  <2>1. \A s \in Requests \ {r} : at[s] \notin {"compare", "replace"}
    BY <1>1 DEF Locked
  <2>2. \A s \in Requests : s # Nobody
    BY Limits
  <2> QED
    BY <1>1, <1>3, <1>6, <2>1, <2>2 DEF Locked
<1>9. Claimed'
  <2>1. \A j \in DOMAIN origin' :
          /\ Consumed(origin'[j].code)
          /\ \A s \in Requests : Claims(s)' => arg'[s] # origin'[j].code
    BY <1>2, <1>3, <1>4, <1>7 DEF Claimed
  <2> QED
    BY <1>1, <1>6, <1>7, <2>1 DEF Claimed, Consumed
<1>10. OpensOnce'
  BY <1>1, <1>2, <1>3, <1>4 DEF OpensOnce, CodeOpensOne, OneLiveToken
<1> QED
  BY <1>5, <1>8, <1>9, <1>10

LEMMA AuthInitially == AuthInit => AuthInv
<1> SUFFICES ASSUME AuthInit PROVE AuthInv
  OBVIOUS
<1>1. AuthTypeOK
  BY DEF AuthInit, AuthTypeOK, AuthLabels
<1>2. \A r \in Requests : r # Nobody
  BY Limits
<1>3. Locked
  BY <1>2 DEF AuthInit, Locked
<1>4. Claimed /\ OpensOnce
  BY DEF AuthInit, Claimed, Claims, OpensOnce, CodeOpensOne, OneLiveToken
<1> QED
  BY <1>1, <1>3, <1>4 DEF AuthInv

LEMMA AuthKept == AuthInv /\ [AuthNext]_authVars => AuthInv'
<1> SUFFICES ASSUME AuthInv, [AuthNext]_authVars PROVE AuthInv'
  OBVIOUS
<1> USE DEF tables
<1>1. ASSUME UNCHANGED <<codes, tokens, log, origin, lock, at, arg>>,
             now' \in Nat
      PROVE  AuthInv'
  BY <1>1 DEF AuthInv, AuthTypeOK, Locked, Claimed, Claims, Consumed,
              OpensOnce, CodeOpensOne, OneLiveToken
<1>2. CASE UNCHANGED authVars \/ CreateUser \/ Tick
  BY <1>1, <1>2 DEF authVars, CreateUser, Tick, AuthInv, AuthTypeOK
<1>3. CASE Crash
  <2>1. /\ UNCHANGED <<codes, tokens, log, origin, now>> /\ lock' = Nobody
        /\ \A r \in Requests : at'[r] = "idle" /\ r # Nobody
    BY <1>3, Limits DEF Crash
  <2>2. AuthTypeOK'
    BY <1>3, <2>1 DEF Crash, AuthInv, AuthTypeOK, AuthLabels
  <2>3. Locked'
    BY <2>1 DEF Locked
  <2>4. Claimed' /\ OpensOnce'
    BY <2>1 DEF AuthInv, Claimed, Claims, Consumed, OpensOnce, CodeOpensOne,
                OneLiveToken
  <2> QED
    BY <2>2, <2>3, <2>4 DEF AuthInv
<1>4. log \in Seq(Attempted) /\ now \in Nat /\ DOMAIN tokens \subseteq Nat
  BY DEF AuthInv, AuthTypeOK
<1>5. ASSUME NEW r \in Requests, Arrive(r) PROVE AuthInv'
  <2>1. ASSUME NEW place \in {"password", "issue", "code", "attempt"},
               Begin(r, place, 0)
        PROVE  AuthInv'
    BY <1>4, <2>1, MovesOn DEF Begin, AuthLabels
  <2>2. ASSUME NEW place \in {"rotate", "revoke"}, NEW t \in DOMAIN tokens,
               Begin(r, place, t)
        PROVE  AuthInv'
    BY <1>4, <2>2, MovesOn DEF Begin, AuthLabels
  <2> QED
    BY <1>5, <2>1, <2>2 DEF Arrive, Login, Resend, Verify, Refresh, Logout
<1>6. ASSUME NEW stage \in {"password", "otp"}, Logged(stage)
      PROVE  log' \in Seq(Attempted)
  <2>1. [stage |-> stage, time |-> now] \in Attempted
    BY <1>4 DEF Attempted
  <2> QED
    BY <1>4, <1>6, <2>1, AppendIs DEF Logged
<1>7. ASSUME NEW r \in Requests, Password(r) PROVE AuthInv'
  <2>1. log' \in Seq(Attempted)
    BY <1>6, <1>7 DEF Password
  <2>2. PICK place \in {"issue", "idle"} : Goto(r, place, 0)
    BY <1>7 DEF Password
  <2> QED
    BY <1>4, <1>7, <2>1, <2>2, MovesOn DEF Password, AuthLabels
<1>8. ASSUME NEW r \in Requests, VerifyOtp(r) PROVE AuthInv'
  <2>1. CASE ~Usable
    BY <1>4, <1>8, <2>1, MovesOn DEF VerifyOtp, AuthLabels
  <2> QED
    BY <1>8, <2>1, CountsKeep
<1>9. ASSUME NEW r \in Requests, Attempt(r) PROVE AuthInv'
  <2>1. log' \in Seq(Attempted) /\ arg[r] \in Nat
    BY <1>6, <1>9 DEF Attempt, AuthInv, AuthTypeOK
  <2>2. PICK place \in {"idle", "session"} :
          /\ Goto(r, place, arg[r])
          /\ place = "session" => arg[r] # 0 /\ Claims(r)
    BY <1>9 DEF Attempt, Claims
  <2> QED
    BY <1>4, <1>9, <2>1, <2>2, MovesOn DEF Attempt, AuthLabels
<1>10. ASSUME NEW r \in Requests, Rotate(r) PROVE AuthInv'
  <2>1. CASE tokens' = tokens /\ lock' = lock /\ Goto(r, "idle", 0)
    BY <1>4, <1>10, <2>1, MovesOn DEF Rotate, AuthLabels
  <2>2. CASE /\ tokens' = [tokens EXCEPT ![arg[r]].revoked = TRUE]
             /\ lock' = r /\ Goto(r, "replace", arg[r])
             /\ ~tokens[arg[r]].revoked
    BY <1>10, <2>2, RotateKeeps
  <2> QED
    BY <1>10, <2>1, <2>2 DEF Rotate
<1> QED
  BY <1>2, <1>3, <1>5, <1>7, <1>8, <1>9, <1>10, CreateOtpKeeps, CompareKeeps,
     SessionKeeps, RotateKeeps, ReplaceKeeps DEF AuthNext, Serve

\* What a user proved once opens one session, and one session has one live
\* token: however requests cross, and whatever a crash leaves half done.
THEOREM OneSession == AuthSpec => []OpensOnce
<1>1. AuthInv => OpensOnce
  BY DEF AuthInv
<1> QED
  BY <1>1, AuthInitially, AuthKept, PTL DEF AuthSpec

-----------------------------------------------------------------------------
(* The limits on codes and passwords *)

\* Codes are in the order of their times, none of them in the future.
CodesInOrder ==
  /\ \A k \in DOMAIN codes : codes[k].created <= now
  /\ \A j, k \in DOMAIN codes : j <= k => codes[j].created <= codes[k].created

\* The entries of log l up to k that are passwords tried at t or later.
Tried(l, k, t) == {j \in 1..k : l[j].stage = "password" /\ l[j].time >= t}

\* The requests that were let through and whose password is not logged yet.
Trying == {r \in Requests : at[r] = "password"}

\* A request that was let through found less than LoginMax, and each of the
\* others has logged what it tried since, or is one of those still to do so.
TriesBounded ==
  LET n == Cardinality(Tried(log, Len(log), now - LoginWindow))
             + Cardinality(Trying)
  IN  n = 0 \/ n < LoginMax + Cardinality(Requests)

PaceInv == CodesInOrder /\ CodesArePaced /\ TriesBounded /\ PasswordsAreLimited

LEMMA TimeOfCode ==
  ASSUME AuthTypeOK, NEW k \in DOMAIN codes
  PROVE  codes[k].created \in Nat
<1>1. codes[k] \in Code
  BY ElementIs DEF AuthTypeOK
<1> QED
  BY <1>1 DEF Code

LEMMA TimeOfTry ==
  ASSUME AuthTypeOK, NEW k \in DOMAIN log
  PROVE  log[k].time \in Nat /\ log[k].stage \in {"password", "otp"}
<1>1. log[k] \in Attempted
  BY ElementIs DEF AuthTypeOK
<1> QED
  BY <1>1 DEF Attempted

\* A code of the window that starts with the oldest one is in the window.
LEMMA WindowFull ==
  ASSUME AuthTypeOK, CodesInOrder, NEW m \in DOMAIN codes,
         codes[m].created >= now - CodeWindow
  PROVE  Cardinality({k \in DOMAIN codes :
                        codes[k].created >= now - CodeWindow})
           >= Len(codes) - m + 1
<1> DEFINE S == {k \in DOMAIN codes : codes[k].created >= now - CodeWindow}
           n == Len(codes)
<1>1. DOMAIN codes = 1..n /\ n \in Nat /\ m \in 1..n /\ m \in Nat
  BY DEF AuthTypeOK
<1>2. m..n \subseteq DOMAIN codes
  BY <1>1
<1>3. ASSUME NEW k \in m..n PROVE k \in S
  <2>1. k \in DOMAIN codes /\ m <= k
    BY <1>1, <1>2
  <2>2. codes[m].created <= codes[k].created
    BY <2>1 DEF CodesInOrder
  <2>3. /\ codes[m].created \in Nat /\ codes[k].created \in Nat
        /\ now - CodeWindow \in Int
    BY <2>1, TimeOfCode, Limits DEF AuthTypeOK
  <2>4. codes[k].created >= now - CodeWindow
    BY <2>2, <2>3
  <2> QED
    BY <2>1, <2>4
<1>4. IsFiniteSet(1..n) /\ S \subseteq 1..n
  BY <1>1, FS_Interval
<1> HIDE DEF S, n
<1>5. IsFiniteSet(S) /\ Cardinality(S) \in Nat
  BY <1>4, FS_Subset, FS_CardinalityType
<1>6. Cardinality(m..n) <= Cardinality(S)
  BY <1>3, <1>5, FS_Subset
<1>7. Cardinality(m..n) = n - m + 1
  <2>1. m \in Int /\ n \in Int /\ ~(m > n)
    BY <1>1
  <2> QED
    BY <2>1, FS_Interval
<1>8. Cardinality(S) >= n - m + 1
  BY <1>1, <1>5, <1>6, <1>7
<1> QED
  BY <1>8 DEF S, n

\* Steps that create no code.
LEMMA SameTimes ==
  ASSUME AuthTypeOK, CodesInOrder, CodesArePaced,
         DOMAIN codes' = DOMAIN codes, now' \in Nat, now' >= now,
         \A k \in DOMAIN codes : codes'[k].created = codes[k].created
  PROVE  CodesInOrder' /\ CodesArePaced'
<1>1. \A k \in DOMAIN codes : codes[k].created \in Nat
  BY TimeOfCode
<1>2. DOMAIN codes = 1..Len(codes) /\ Len(codes) \in Nat /\ now \in Nat
      /\ MaxPerWindow \in Nat
  BY Limits DEF AuthTypeOK
<1>3. CodesInOrder'
  BY <1>1, <1>2 DEF CodesInOrder
<1>4. ASSUME NEW k \in DOMAIN codes
      PROVE  /\ k > 1 => k - 1 \in DOMAIN codes
             /\ k > MaxPerWindow => k - MaxPerWindow \in DOMAIN codes
  BY <1>2, <1>4
<1>5. CodesArePaced'
  BY <1>4 DEF CodesArePaced
<1> QED
  BY <1>3, <1>5

LEMMA NewCodePaced ==
  ASSUME AuthTypeOK, CodesInOrder, CodesArePaced, IssuanceAllowed, now' = now,
         codes' = Append(codes, [created |-> now, consumed |-> FALSE,
                                 tries |-> 0])
  PROVE  CodesInOrder' /\ CodesArePaced'
<1> DEFINE n == Len(codes)
           c == [created |-> now, consumed |-> FALSE, tries |-> 0]
<1>1. c \in Code /\ now \in Nat
  BY DEF Code, AuthTypeOK
<1>2. /\ DOMAIN codes = 1..n /\ DOMAIN codes' = 1..(n + 1) /\ n \in Nat
      /\ codes'[n + 1] = c
      /\ \A k \in 1..n : codes'[k] = codes[k]
  BY <1>1, AppendIs DEF AuthTypeOK
<1>3. \A k \in 1..n : codes[k].created \in Nat /\ codes[k].created <= now
  BY <1>2, TimeOfCode DEF CodesInOrder
<1>4. codes'[n + 1].created = now
  BY <1>2
<1> HIDE DEF c
<1>5. CodesInOrder'
  <2>1. \A k \in 1..(n + 1) : k = n + 1 \/ k \in 1..n
    BY <1>2
  <2>2. \A k \in 1..(n + 1) : codes'[k].created <= now
    BY <1>1, <1>2, <1>3, <1>4, <2>1
  <2>3. \A j, k \in 1..(n + 1) : j <= k =>
          codes'[j].created <= codes'[k].created
    <3> TAKE j, k \in 1..(n + 1)
    <3> HAVE j <= k
    <3>1. CASE k = n + 1
      BY <1>4, <2>2, <3>1
    <3>2. CASE k \in 1..n
      <4>1. j \in 1..n
        BY <1>2, <3>2
      <4> QED
        BY <1>2, <3>2, <4>1 DEF CodesInOrder
    <3> QED
      BY <2>1, <3>1, <3>2
  <2> QED
    BY <1>2, <2>2, <2>3 DEF CodesInOrder
<1>6. n + 1 > 1 => codes'[n + 1].created - codes'[n].created >= Cooldown
  <2> SUFFICES ASSUME n + 1 > 1
               PROVE  codes'[n + 1].created - codes'[n].created >= Cooldown
    OBVIOUS
  <2>1. n \in 1..n /\ codes # <<>>
    BY <1>2
  <2> QED
    BY <1>2, <1>4, <2>1 DEF IssuanceAllowed
<1>7. n + 1 > MaxPerWindow =>
        codes'[n + 1].created - codes'[n + 1 - MaxPerWindow].created
          > CodeWindow
  <2> DEFINE m == n + 1 - MaxPerWindow
             S == {k \in DOMAIN codes :
                     codes[k].created >= now - CodeWindow}
  <2> SUFFICES ASSUME n + 1 > MaxPerWindow,
                      ~(codes'[n + 1].created - codes'[m].created > CodeWindow)
               PROVE  FALSE
    OBVIOUS
  <2>1. Cardinality(S) < MaxPerWindow
    BY DEF IssuanceAllowed
  <2>2. IsFiniteSet(1..n) /\ S \subseteq 1..n
    BY <1>2, FS_Interval
  <2>3. Cardinality(S) \in Nat
    BY <2>2, FS_Subset, FS_CardinalityType
  <2>4. m \in 1..n
    BY <1>2, <2>1, <2>3, Limits
  <2>5. codes[m].created >= now - CodeWindow
    BY <1>1, <1>2, <1>3, <1>4, <2>4, Limits
  <2>6. Cardinality(S) >= n - m + 1
    BY <1>2, <2>4, <2>5, WindowFull
  <2>7. n - m + 1 = MaxPerWindow
    BY <1>2, Limits
  <2> QED
    BY <2>1, <2>3, <2>6, <2>7, Limits
<1>8. CodesArePaced'
  <2> SUFFICES ASSUME NEW k \in 1..(n + 1)
               PROVE  /\ k > 1 =>
                           codes'[k].created - codes'[k - 1].created
                             >= Cooldown
                      /\ k > MaxPerWindow =>
                           codes'[k].created - codes'[k - MaxPerWindow].created
                             > CodeWindow
    BY <1>2 DEF CodesArePaced
  <2>1. CASE k = n + 1
    <3>1. k - 1 = n /\ k - MaxPerWindow = n + 1 - MaxPerWindow
      BY <1>2, <2>1, Limits
    <3> HIDE DEF n
    <3> QED
      BY <1>6, <1>7, <2>1, <3>1
  <2>2. CASE k # n + 1
    <3>1. /\ k \in 1..n
          /\ k > 1 => k - 1 \in 1..n
          /\ k > MaxPerWindow => k - MaxPerWindow \in 1..n
      BY <1>2, <2>2, Limits
    <3> QED
      BY <1>2, <3>1 DEF CodesArePaced
  <2> QED
    BY <2>1, <2>2
<1> QED
  BY <1>5, <1>8

LEMMA TriedFinite ==
  ASSUME NEW l, NEW k \in Nat, NEW t
  PROVE  /\ IsFiniteSet(Tried(l, k, t))
         /\ Cardinality(Tried(l, k, t)) \in Nat
         /\ Tried(l, k, t) \subseteq 1..k
<1>1. IsFiniteSet(1..k) /\ Tried(l, k, t) \subseteq 1..k
  BY FS_Interval DEF Tried
<1> QED
  BY <1>1, FS_Subset, FS_CardinalityType

LEMMA TryingFinite ==
  ASSUME IsFiniteSet(Requests)
  PROVE  /\ IsFiniteSet(Trying) /\ Cardinality(Trying) \in Nat
         /\ Cardinality(Trying) <= Cardinality(Requests)
         /\ Cardinality(Requests) \in Nat
         /\ \A r \in Requests : Cardinality(Requests) > 0
<1>1. Trying \subseteq Requests
  BY DEF Trying
<1>2. Cardinality(Requests) \in Nat
  BY FS_CardinalityType
<1>3. \A r \in Requests : Cardinality(Requests) # 0
  BY FS_EmptySet
<1> QED
  BY <1>1, <1>2, <1>3, FS_Subset, FS_CardinalityType

\* Time passes and requests go away: fewer entries are in the window.
LEMMA FewerTried ==
  ASSUME IsFiniteSet(Requests), AuthTypeOK, AuthTypeOK', TriesBounded,
         PasswordsAreLimited, log' = log, now' >= now, Trying' \subseteq Trying
  PROVE  TriesBounded' /\ PasswordsAreLimited'
<1> DEFINE n == Len(log)
           T == Tried(log, n, now - LoginWindow)
           U == Tried(log, n, now' - LoginWindow)
<1>1. n \in Nat /\ now \in Nat /\ now' \in Nat /\ DOMAIN log = 1..n
  BY DEF AuthTypeOK
<1>2. U \subseteq T
  <2> SUFFICES ASSUME NEW k \in 1..n, log[k].stage = "password",
                      log[k].time >= now' - LoginWindow
               PROVE  log[k].time >= now - LoginWindow
    BY DEF Tried
  <2>1. log[k].time \in Nat
    BY <1>1, TimeOfTry
  <2> QED
    BY <1>1, <2>1, Limits
<1>3. Cardinality(U) <= Cardinality(T) /\ Cardinality(U) \in Nat
      /\ Cardinality(T) \in Nat
  BY <1>1, <1>2, TriedFinite, FS_Subset
<1>4. /\ Cardinality(Trying') <= Cardinality(Trying)
      /\ Cardinality(Trying) \in Nat /\ Cardinality(Trying') \in Nat
      /\ Cardinality(Requests) \in Nat
  BY TryingFinite, FS_Subset, FS_CardinalityType
<1>5. \/ Cardinality(T) + Cardinality(Trying) = 0
      \/ Cardinality(T) + Cardinality(Trying)
           < LoginMax + Cardinality(Requests)
  BY DEF TriesBounded
<1> HIDE DEF n, T, U
<1>6. \/ Cardinality(U) + Cardinality(Trying') = 0
      \/ Cardinality(U) + Cardinality(Trying')
           < LoginMax + Cardinality(Requests)
  BY <1>3, <1>4, <1>5, Limits
<1>7. TriesBounded'
  BY <1>6 DEF TriesBounded, U, n
<1>8. PasswordsAreLimited'
  BY DEF PasswordsAreLimited
<1> QED
  BY <1>7, <1>8

\* A request is let through.
LEMMA LetThrough ==
  ASSUME IsFiniteSet(Requests), AuthTypeOK, PasswordsAreLimited,
         NEW r \in Requests, Login(r)
  PROVE  TriesBounded' /\ PasswordsAreLimited'
<1> DEFINE n == Len(log)
           T == Tried(log, n, now - LoginWindow)
           S == {k \in DOMAIN log : log[k].time >= now - LoginWindow}
<1>1. n \in Nat /\ DOMAIN log = 1..n /\ log' = log /\ now' = now
  BY DEF AuthTypeOK, Login, Begin, tables
<1>2. Cardinality(S) < LoginMax \/ Cardinality(S) \notin Nat
  BY Limits DEF Login, RateLimited
<1>3. IsFiniteSet(S)
  <2>1. S \subseteq 1..n
    BY <1>1, Zenon
  <2>2. IsFiniteSet(1..n)
    <3> HIDE DEF n
    <3> QED
      BY <1>1, FS_Interval
  <2> HIDE DEF S
  <2> QED
    BY <2>1, <2>2, FS_Subset
<1>4. T \subseteq S
  BY <1>1 DEF Tried
<1> HIDE DEF S
<1>5. /\ Cardinality(T) <= Cardinality(S) /\ Cardinality(S) \in Nat
      /\ Cardinality(T) \in Nat
  BY <1>3, <1>4, FS_Subset, FS_CardinalityType
<1>6. /\ Cardinality(Trying') \in Nat /\ Cardinality(Requests) \in Nat
      /\ Cardinality(Trying') <= Cardinality(Requests)
  <2>1. Trying' \subseteq Requests
    BY DEF Trying
  <2> QED
    BY <2>1, FS_Subset, FS_CardinalityType
<1> HIDE DEF T
<1>7. Cardinality(T) + Cardinality(Trying') < LoginMax + Cardinality(Requests)
  BY <1>2, <1>5, <1>6, Limits
<1>8. TriesBounded'
  BY <1>1, <1>7 DEF TriesBounded, T
<1>9. PasswordsAreLimited'
  BY <1>1 DEF PasswordsAreLimited
<1> QED
  BY <1>8, <1>9

\* An entry is logged; for a password, by a request that was let through.
LEMMA Logs ==
  ASSUME IsFiniteSet(Requests), AuthTypeOK, AuthTypeOK', TriesBounded,
         PasswordsAreLimited, NEW stage \in {"password", "otp"}, Logged(stage),
         now' = now, NEW r \in Requests,
         Trying' = IF stage = "password" THEN Trying \ {r} ELSE Trying,
         stage = "password" => r \in Trying
  PROVE  TriesBounded' /\ PasswordsAreLimited'
<1> DEFINE n == Len(log)
           t == now - LoginWindow
           T == Tried(log, n, t)
           U == Tried(log', n + 1, t)
           e == [stage |-> stage, time |-> now]
<1>1. e \in Attempted /\ now \in Nat
  BY DEF Attempted, AuthTypeOK
<1>2. /\ n \in Nat /\ DOMAIN log = 1..n /\ DOMAIN log' = 1..(n + 1)
      /\ Len(log') = n + 1 /\ log'[n + 1] = e
      /\ \A k \in 1..n : log'[k] = log[k]
  BY <1>1, AppendIs DEF AuthTypeOK, Logged
<1>3. 1..(n + 1) = (1..n) \cup {n + 1} /\ n + 1 \notin 1..n
  BY <1>2
<1>4. e.stage = stage /\ e.time = now /\ now >= t
  BY <1>1, Limits
<1>5. U = IF stage = "password" THEN T \cup {n + 1} ELSE T
  <2> HIDE DEF n, t, e
  <2>1. \A j \in 1..n : j \in U <=> j \in T
    BY <1>2, <1>3 DEF Tried
  <2>2. n + 1 \in U <=> stage = "password"
    BY <1>2, <1>3, <1>4 DEF Tried
  <2>3. U \subseteq (1..n) \cup {n + 1} /\ T \subseteq 1..n
    BY <1>3 DEF Tried
  <2> DEFINE m == n + 1
  <2> HIDE DEF U, T, m
  <2>4. CASE stage = "password"
    <3>1. m \in U
      BY <2>2, <2>4 DEF m
    <3>2. U \subseteq (1..n) \cup {m}
      BY <2>3 DEF m
    <3>3. U = T \cup {m}
      BY <2>1, <2>3, <3>1, <3>2
    <3> QED
      BY <2>4, <3>3 DEF m
  <2>5. CASE stage # "password"
    <3>1. m \notin U
      BY <2>2, <2>5 DEF m
    <3>2. U \subseteq (1..n) \cup {m}
      BY <2>3 DEF m
    <3>3. U = T
      BY <2>1, <2>3, <3>1, <3>2
    <3> QED
      BY <2>5, <3>3
  <2> QED
    BY <2>4, <2>5
<1>6. IsFiniteSet(T) /\ Cardinality(T) \in Nat /\ n + 1 \notin T
  BY <1>2, <1>3, TriedFinite
<1>7. Cardinality(U) = IF stage = "password" THEN Cardinality(T) + 1
                                             ELSE Cardinality(T)
  <2> HIDE DEF T, U, n
  <2> QED
    BY <1>5, <1>6, FS_AddElement
<1>8. /\ IsFiniteSet(Trying) /\ Cardinality(Trying) \in Nat
      /\ Cardinality(Requests) \in Nat /\ Cardinality(Requests) > 0
  BY TryingFinite
<1>9. Cardinality(Trying') = IF stage = "password" THEN Cardinality(Trying) - 1
                                                   ELSE Cardinality(Trying)
  BY <1>8, FS_RemoveElement
<1>10. Cardinality(U) + Cardinality(Trying')
         = Cardinality(T) + Cardinality(Trying)
  <2> HIDE DEF T, U
  <2> QED
    BY <1>6, <1>7, <1>8, <1>9
<1>11. LET m == Cardinality(T) + Cardinality(Trying)
       IN  m = 0 \/ m < LoginMax + Cardinality(Requests)
  BY DEF TriesBounded
<1>12. TriesBounded'
  <2>1. LET m == Cardinality(U) + Cardinality(Trying')
        IN  m = 0 \/ m < LoginMax + Cardinality(Requests)
    BY <1>10, <1>11
  <2> QED
    BY <1>2, <2>1 DEF TriesBounded
<1>13. Cardinality(U) < LoginMax + Cardinality(Requests)
  <2>1. Cardinality(Trying') \in Nat
    <3>1. Trying' \subseteq Trying
      OBVIOUS
    <3> QED
      BY <1>8, <3>1, FS_Subset, FS_CardinalityType
  <2>2. Cardinality(U) \in Nat
    BY <1>6, <1>7
  <2> HIDE DEF T, U
  <2> QED
    BY <1>8, <1>10, <1>11, <2>1, <2>2, Limits
<1>14. ASSUME NEW k \in DOMAIN log'
       PROVE  Cardinality(Tried(log', k, log'[k].time - LoginWindow))
                < LoginMax + Cardinality(Requests)
  <2>1. CASE k = n + 1
    <3>1. Tried(log', k, log'[k].time - LoginWindow) = U
      BY <1>2, <1>4, <2>1
    <3> QED
      BY <1>13, <3>1
  <2>2. CASE k # n + 1
    <3>1. k \in 1..n /\ 1..k \subseteq 1..n
      BY <1>2, <1>3, <1>14, <2>2
    <3>2. Tried(log', k, log'[k].time - LoginWindow)
            = Tried(log, k, log[k].time - LoginWindow)
      BY <1>2, <3>1 DEF Tried
    <3>3. Cardinality(Tried(log, k, log[k].time - LoginWindow))
            < LoginMax + Cardinality(Requests)
      BY <1>2, <3>1 DEF PasswordsAreLimited, Tried
    <3> QED
      BY <3>2, <3>3
  <2> QED
    BY <2>1, <2>2
<1>15. PasswordsAreLimited'
  BY <1>14 DEF PasswordsAreLimited, Tried
<1> QED
  BY <1>12, <1>15

LEMMA PaceInitially == AuthInit => PaceInv
<1> SUFFICES ASSUME AuthInit PROVE PaceInv
  OBVIOUS
<1>1. DOMAIN codes = {} /\ DOMAIN log = {} /\ Len(log) = 0
  BY DEF AuthInit
<1>2. CodesInOrder /\ CodesArePaced /\ PasswordsAreLimited
  BY <1>1 DEF CodesInOrder, CodesArePaced, PasswordsAreLimited
<1>3. Tried(log, Len(log), now - LoginWindow) = {}
  BY <1>1 DEF Tried
<1>4. Trying = {}
  BY DEF Trying, AuthInit
<1>5. Cardinality({}) = 0
  BY FS_EmptySet
<1>6. TriesBounded
  <2>1. Cardinality(Tried(log, Len(log), now - LoginWindow)) = 0
        /\ Cardinality(Trying) = 0
    BY <1>3, <1>4, <1>5
  <2> QED
    BY <2>1 DEF TriesBounded
<1> QED
  BY <1>2, <1>6 DEF PaceInv

\* A step that logs nothing and lets no request through.
LEMMA NothingLogged ==
  ASSUME IsFiniteSet(Requests), AuthTypeOK, AuthTypeOK', PaceInv, log' = log,
         CodesInOrder' /\ CodesArePaced', now' >= now, Trying' \subseteq Trying
  PROVE  PaceInv'
BY FewerTried DEF PaceInv

\* A code that is tried or consumed keeps its time.
LEMMA TimesKept ==
  ASSUME AuthTypeOK, NEW i \in DOMAIN codes, NEW c \in Code,
         codes' = [codes EXCEPT ![i] = c], c.created = codes[i].created
  PROVE  /\ DOMAIN codes' = DOMAIN codes
         /\ \A k \in DOMAIN codes : codes'[k].created = codes[k].created
BY ChangeIs DEF AuthTypeOK

LEMMA PaceKept ==
  ASSUME IsFiniteSet(Requests)
  PROVE  AuthInv /\ AuthInv' /\ PaceInv /\ [AuthNext]_authVars => PaceInv'
<1> SUFFICES ASSUME AuthInv, AuthInv', PaceInv, [AuthNext]_authVars
             PROVE  PaceInv'
  OBVIOUS
<1>1. /\ AuthTypeOK /\ AuthTypeOK' /\ CodesInOrder /\ CodesArePaced
      /\ now \in Nat /\ now' \in Nat /\ TriesBounded /\ PasswordsAreLimited
  BY DEF AuthInv, AuthTypeOK, PaceInv
<1>2. ASSUME codes' = codes, log' = log, now' = now, Trying' \subseteq Trying
      PROVE  PaceInv'
  <2>1. now' >= now /\ \A k \in DOMAIN codes :
                          codes'[k].created = codes[k].created
    BY <1>1, <1>2
  <2> QED
    BY <1>1, <1>2, <2>1, SameTimes, NothingLogged
<1>3. ASSUME NEW r \in Requests, NEW place, NEW value, place # "password",
             Goto(r, place, value)
      PROVE  Trying' \subseteq Trying
  BY <1>1, <1>3 DEF Goto, Trying, AuthTypeOK
<1>4. CASE UNCHANGED authVars
  BY <1>2, <1>4 DEF authVars, tables, Trying
<1>5. CASE CreateUser
  BY <1>2, <1>5 DEF CreateUser, Trying
<1>6. CASE Tick
  <2>1. now' = now + 1 /\ codes' = codes /\ log' = log /\ at' = at
    BY <1>6 DEF Tick, tables
  <2>2. now' >= now /\ \A k \in DOMAIN codes :
                          codes'[k].created = codes[k].created
    BY <1>1, <2>1
  <2>3. Trying' \subseteq Trying
    BY <2>1 DEF Trying
  <2> QED
    BY <1>1, <2>1, <2>2, <2>3, SameTimes, NothingLogged
<1>7. CASE Crash
  <2>1. Trying' \subseteq Trying /\ codes' = codes /\ log' = log /\ now' = now
    BY <1>7 DEF Crash, Trying, tables
  <2> QED
    BY <1>2, <2>1
<1>8. ASSUME NEW r \in Requests, Serve(r)
      PROVE  PaceInv'
  <2>1. CASE Password(r)
    <3>1. /\ Logged("password") /\ now' = now /\ codes' = codes
          /\ at' = [at EXCEPT ![r] = at'[r]] /\ at'[r] # "password"
          /\ at[r] = "password"
      BY <1>1, <2>1 DEF Password, Goto, AuthTypeOK
    <3>2. Trying' = Trying \ {r} /\ r \in Trying
      BY <1>1, <3>1 DEF Trying, AuthTypeOK
    <3>3. TriesBounded' /\ PasswordsAreLimited'
      BY <1>1, <3>1, <3>2, Logs
    <3> QED
      BY <1>1, <3>1, <3>3 DEF PaceInv, CodesInOrder, CodesArePaced
  <2>2. CASE Attempt(r)
    <3>1. /\ Logged("otp") /\ now' = now /\ codes' = codes
          /\ at[r] # "password"
          /\ Goto(r, IF arg[r] = 0 THEN "idle" ELSE "session", arg[r])
      BY <2>2 DEF Attempt
    <3>2. Trying' = Trying
      BY <1>1, <3>1 DEF Trying, Goto, AuthTypeOK
    <3>3. TriesBounded' /\ PasswordsAreLimited'
      BY <1>1, <3>1, <3>2, Logs
    <3> QED
      BY <1>1, <3>1, <3>3 DEF PaceInv, CodesInOrder, CodesArePaced
  <2>3. CASE CreateOtp(r)
    <3>1. log' = log /\ now' = now /\ Goto(r, "idle", 0)
      BY <2>3 DEF CreateOtp
    <3>2. CodesInOrder' /\ CodesArePaced'
      <4>1. CASE IssuanceAllowed
        BY <1>1, <2>3, <4>1, NewCodePaced DEF CreateOtp
      <4>2. CASE ~IssuanceAllowed
        BY <1>1, <2>3, <4>2 DEF CreateOtp, CodesInOrder, CodesArePaced
      <4> QED
        BY <4>1, <4>2
    <3> QED
      BY <1>1, <1>3, <3>1, <3>2, NothingLogged
  <2>4. CASE VerifyOtp(r)
    <3>1. log' = log /\ now' = now /\ now' >= now
      BY <1>1, <2>4 DEF VerifyOtp
    <3>2. Trying' \subseteq Trying
      BY <1>3, <2>4 DEF VerifyOtp
    <3>3. /\ DOMAIN codes' = DOMAIN codes
          /\ \A k \in DOMAIN codes : codes'[k].created = codes[k].created
      <4>1. CASE ~Usable
        BY <2>4, <4>1 DEF VerifyOtp
      <4>2. CASE Usable
        <5> DEFINE i == Len(codes)
                   c == [codes[i] EXCEPT !.tries = @ + 1]
        <5>1. i \in DOMAIN codes
          BY <1>1, <4>2 DEF Usable, AuthTypeOK
        <5>2. codes[i] \in Code
          BY <1>1, <5>1, ElementIs DEF AuthTypeOK
        <5>3. c \in Code /\ c.created = codes[i].created
          BY <5>2 DEF Code
        <5>4. codes' = [codes EXCEPT ![i] = c]
          BY <2>4, <4>2 DEF VerifyOtp
        <5> HIDE DEF c, i
        <5> QED
          BY <1>1, <5>1, <5>3, <5>4, TimesKept
      <4> QED
        BY <4>1, <4>2
    <3> QED
      BY <1>1, <3>1, <3>2, <3>3, SameTimes, NothingLogged
  <2>5. CASE Compare(r)
    <3>1. log' = log /\ now' = now /\ now' >= now
      BY <1>1, <2>5 DEF Compare
    <3>2. Trying' \subseteq Trying
      BY <1>3, <2>5 DEF Compare
    <3>3. /\ DOMAIN codes' = DOMAIN codes
          /\ \A k \in DOMAIN codes : codes'[k].created = codes[k].created
      <4>1. CASE codes' = codes
        BY <4>1
      <4>2. CASE codes' = [codes EXCEPT ![arg[r]].consumed = TRUE]
        <5> DEFINE i == arg[r]
                   c == [codes[i] EXCEPT !.consumed = TRUE]
        <5>1. i \in DOMAIN codes
          BY <2>5 DEF Compare, AuthInv, Locked
        <5>2. codes[i] \in Code
          BY <1>1, <5>1, ElementIs DEF AuthTypeOK
        <5>3. c \in Code /\ c.created = codes[i].created
          BY <5>2 DEF Code
        <5>4. codes' = [codes EXCEPT ![i] = c]
          BY <4>2
        <5> HIDE DEF c, i
        <5> QED
          BY <1>1, <5>1, <5>3, <5>4, TimesKept
      <4> QED
        BY <2>5, <4>1, <4>2 DEF Compare
    <3> QED
      BY <1>1, <3>1, <3>2, <3>3, SameTimes, NothingLogged
  <2>6. CASE CreateRefreshToken(r)
    <3>1. Goto(r, "idle", 0) /\ codes' = codes /\ log' = log /\ now' = now
      BY <2>6 DEF CreateRefreshToken
    <3> QED
      BY <1>2, <1>3, <3>1
  <2>7. CASE Rotate(r)
    <3>1. codes' = codes /\ log' = log /\ now' = now
      BY <2>7 DEF Rotate
    <3>2. Goto(r, "idle", 0) \/ Goto(r, "replace", arg[r])
      BY <2>7 DEF Rotate
    <3> QED
      BY <1>2, <1>3, <3>1, <3>2
  <2>8. CASE Replace(r)
    <3>1. Goto(r, "idle", 0) /\ codes' = codes /\ log' = log /\ now' = now
      BY <2>8 DEF Replace
    <3> QED
      BY <1>2, <1>3, <3>1
  <2>9. CASE Revoke(r)
    <3>1. Goto(r, "idle", 0) /\ codes' = codes /\ log' = log /\ now' = now
      BY <2>9 DEF Revoke
    <3> QED
      BY <1>2, <1>3, <3>1
  <2> QED
    BY <1>8, <2>1, <2>2, <2>3, <2>4, <2>5, <2>6, <2>7, <2>8, <2>9 DEF Serve
<1>9. ASSUME NEW r \in Requests, Arrive(r)
      PROVE  PaceInv'
  <2>1. CASE Login(r)
    <3>1. TriesBounded' /\ PasswordsAreLimited'
      BY <1>1, <2>1, LetThrough
    <3>2. codes' = codes /\ now' = now
      BY <2>1 DEF Login, Begin, tables
    <3> QED
      BY <1>1, <3>1, <3>2 DEF PaceInv, CodesInOrder, CodesArePaced
  <2>2. ASSUME NEW place, NEW value, place # "password",
               Begin(r, place, value)
        PROVE  PaceInv'
    <3>1. codes' = codes /\ log' = log /\ now' = now /\ Goto(r, place, value)
      BY <2>2 DEF Begin, tables
    <3> QED
      BY <1>2, <1>3, <2>2, <3>1
  <2> QED
    BY <1>9, <2>1, <2>2 DEF Arrive, Resend, Verify, Refresh, Logout
<1> QED
  BY <1>4, <1>5, <1>6, <1>7, <1>8, <1>9 DEF AuthNext

\* Whoever asks, and from however many threads at once, gets no more codes
\* and tries no more passwords than the limits say; of the passwords, a
\* thread that was let through before may still try the one it came with.
THEOREM GuessesStayPaced ==
  ASSUME IsFiniteSet(Requests)
  PROVE  AuthSpec => []GuessesArePaced
<1>1. PaceInv => GuessesArePaced
  BY DEF PaceInv, GuessesArePaced
<1>2. AuthInv /\ AuthInv' /\ PaceInv /\ [AuthNext]_authVars => PaceInv'
  BY PaceKept
<1> QED
  BY <1>1, <1>2, AuthInitially, AuthKept, PaceInitially, PTL DEF AuthSpec

-----------------------------------------------------------------------------
(* Tasks over HTTP *)

\* How the workers of one task add up: j and b are where they are, p those
\* that are sending, l were launched, d reported, c were cut off, on socket s.
Balanced(j, b, p, l, d, c, s) ==
  /\ j \in Nat \cup {NoJob} /\ b \in BOOLEAN /\ p \in SUBSET Kinds
  /\ l \in Nat /\ d \in Nat /\ c \in Nat
  /\ "run" \in p => j # NoJob
  /\ "resume" \in p => b
  /\ d + One(j # NoJob) + One(b) <= l
  /\ l <= d + One(j # NoJob) + One(b) + c
  /\ s = 0 => l + One("run" \in p) + One("resume" \in p)
                <= d + One(j # NoJob) + One(b) + c

\* A task that was not launched has no worker; what is missing from the
\* reports of a task was cut off, and so will be those now without a socket.
HttpInv ==
  /\ socket \in Nat /\ sockets \in Nat
  /\ status = [t \in Tasks |-> status[t]]
  /\ job = [t \in Tasks |-> job[t]]
  /\ resuming = [t \in Tasks |-> resuming[t]]
  /\ sending = [t \in Tasks |-> sending[t]]
  /\ launched = [t \in Tasks |-> launched[t]]
  /\ reported = [t \in Tasks |-> reported[t]]
  /\ cut = [t \in Tasks |-> cut[t]]
  /\ \A t \in Tasks : status[t] \in {"none", "starting"} => job[t] = NoJob
  /\ \A t \in Tasks : Balanced(job[t], resuming[t], sending[t], launched[t],
                               reported[t], cut[t], socket)

LEMMA HttpInitially == HttpInit => HttpInv
<1> SUFFICES ASSUME HttpInit PROVE HttpInv
  OBVIOUS
<1>1. ASSUME NEW t \in Tasks
      PROVE  Balanced(job[t], resuming[t], sending[t], launched[t],
                      reported[t], cut[t], socket)
  <2>1. /\ job[t] = NoJob /\ resuming[t] = FALSE /\ sending[t] = {}
        /\ launched[t] = 0 /\ reported[t] = 0 /\ cut[t] = 0
    BY DEF HttpInit
  <2>2. Balanced(NoJob, FALSE, {}, 0, 0, 0, socket)
    BY DEF Balanced, One
  <2> QED
    BY <2>1, <2>2
<1> QED
  BY <1>1 DEF HttpInit, HttpInv

\* One task gets a worker, or a worker of it reports.
LEMMA OneTaskMoves ==
  ASSUME HttpInv, NEW t \in Tasks, NEW j, NEW b, NEW p, NEW l, NEW d, NEW s,
         UNCHANGED <<connection, cut>>,
         status' = [status EXCEPT ![t] = s],
         job' = [job EXCEPT ![t] = j],
         resuming' = [resuming EXCEPT ![t] = b],
         sending' = [sending EXCEPT ![t] = p],
         launched' = [launched EXCEPT ![t] = l],
         reported' = [reported EXCEPT ![t] = d],
         s \in {"none", "starting"} => j = NoJob,
         Balanced(j, b, p, l, d, cut[t], socket)
  PROVE  HttpInv'
<1>1. /\ socket' = socket /\ sockets' = sockets /\ cut' = cut
  BY DEF connection
<1>2. /\ status' = [u \in Tasks |-> status'[u]]
      /\ job' = [u \in Tasks |-> job'[u]]
      /\ resuming' = [u \in Tasks |-> resuming'[u]]
      /\ sending' = [u \in Tasks |-> sending'[u]]
      /\ launched' = [u \in Tasks |-> launched'[u]]
      /\ reported' = [u \in Tasks |-> reported'[u]]
  BY DEF HttpInv
<1>3. /\ status'[t] = s /\ job'[t] = j /\ resuming'[t] = b
      /\ sending'[t] = p /\ launched'[t] = l /\ reported'[t] = d
      /\ \A u \in Tasks \ {t} :
           /\ status'[u] = status[u] /\ job'[u] = job[u]
           /\ resuming'[u] = resuming[u] /\ sending'[u] = sending[u]
           /\ launched'[u] = launched[u] /\ reported'[u] = reported[u]
  BY DEF HttpInv
<1>4. \A u \in Tasks : status'[u] \in {"none", "starting"} => job'[u] = NoJob
  BY <1>3 DEF HttpInv
<1>5. ASSUME NEW u \in Tasks
      PROVE  Balanced(job'[u], resuming'[u], sending'[u], launched'[u],
                      reported'[u], cut'[u], socket')
  <2>1. CASE u = t
    BY <1>1, <1>3, <2>1
  <2>2. CASE u # t
    BY <1>1, <1>3, <2>2 DEF HttpInv
  <2> QED
    BY <2>1, <2>2
<1> QED
  BY <1>1, <1>2, <1>4, <1>5 DEF HttpInv

\* The connection is there again, or goes: then whoever was sending is cut off.
LEMMA ConnectionMoves ==
  ASSUME HttpInv, Open \/ Shut
  PROVE  HttpInv'
<1>1. ASSUME NEW t \in Tasks
      PROVE  Balanced(job'[t], resuming'[t], sending'[t], launched'[t],
                      reported'[t], cut'[t], socket')
  <2>1. Balanced(job[t], resuming[t], sending[t], launched[t], reported[t],
                 cut[t], socket) /\ sockets \in Nat
    BY DEF HttpInv
  <2>2. CASE Open
    <3>1. /\ job' = job /\ resuming' = resuming /\ sending' = sending
          /\ launched' = launched /\ reported' = reported /\ cut' = cut
          /\ socket' # 0
      BY <2>1, <2>2 DEF Open, count
    <3> QED
      BY <2>1, <3>1 DEF Balanced
  <2>3. CASE Shut
    <3>1. /\ job' = job /\ resuming' = resuming /\ sending' = sending
          /\ launched' = launched /\ reported' = reported
          /\ cut'[t] = cut[t] + Sending(t)
      BY <2>3 DEF Shut
    <3>2. /\ Sending(t) = One("run" \in sending[t])
                            + One("resume" \in sending[t])
          /\ Sending(t) \in Nat
      BY DEF Sending, One
    <3>3. cut[t] + Sending(t) \in Nat
      BY <2>1, <3>2 DEF Balanced
    <3> QED
      BY <2>1, <3>1, <3>2, <3>3 DEF Balanced, One
  <2> QED
    BY <2>2, <2>3
<1>2. /\ socket' \in Nat /\ sockets' \in Nat
      /\ status' = status /\ job' = job /\ resuming' = resuming
      /\ sending' = sending /\ launched' = launched /\ reported' = reported
      /\ cut' = [t \in Tasks |-> cut'[t]]
  BY DEF Open, Shut, HttpInv, count
<1> QED
  BY <1>1, <1>2 DEF HttpInv

LEMMA ServerKilled ==
  ASSUME HttpInv, Kill
  PROVE  HttpInv'
<1>1. ASSUME NEW t \in Tasks
      PROVE  Balanced(job'[t], resuming'[t], sending'[t], launched'[t],
                      reported'[t], cut'[t], socket')
  <2>1. /\ job'[t] = NoJob /\ resuming'[t] = FALSE /\ sending'[t] = {}
        /\ launched'[t] = reported[t] /\ reported'[t] = reported[t]
        /\ cut'[t] = cut[t]
    BY DEF Kill
  <2>2. reported[t] \in Nat /\ cut[t] \in Nat
    BY DEF HttpInv, Balanced
  <2>3. Balanced(NoJob, FALSE, {}, reported[t], reported[t], cut[t], 0)
    BY <2>2 DEF Balanced, One
  <2>4. socket' = 0
    BY DEF Kill
  <2> QED
    BY <2>1, <2>3, <2>4
<1> QED
  BY <1>1 DEF Kill, HttpInv

LEMMA HttpKept == HttpInv /\ [HttpNext]_httpVars => HttpInv'
<1> SUFFICES ASSUME HttpInv, [HttpNext]_httpVars PROVE HttpInv'
  OBVIOUS
<1>1. CASE UNCHANGED httpVars
  BY <1>1 DEF HttpInv, httpVars, connection, count
<1>2. CASE Open \/ Shut \/ Kill
  BY <1>2, ConnectionMoves, ServerKilled
<1>3. ASSUME NEW t \in Tasks,
             Create(t) \/ HttpWork(t) \/ Resume(t) \/ Stop(t)
      PROVE  HttpInv'
  <2> DEFINE Moves(s, j, b, p, l, d) ==
        /\ UNCHANGED <<connection, cut>>
        /\ status' = [status EXCEPT ![t] = s]
        /\ job' = [job EXCEPT ![t] = j]
        /\ resuming' = [resuming EXCEPT ![t] = b]
        /\ sending' = [sending EXCEPT ![t] = p]
        /\ launched' = [launched EXCEPT ![t] = l]
        /\ reported' = [reported EXCEPT ![t] = d]
        Fits(j, b, p, l, d) == Balanced(j, b, p, l, d, cut[t], socket)
  <2>1. /\ status = [status EXCEPT ![t] = status[t]]
        /\ job = [job EXCEPT ![t] = job[t]]
        /\ resuming = [resuming EXCEPT ![t] = resuming[t]]
        /\ sending = [sending EXCEPT ![t] = sending[t]]
        /\ launched = [launched EXCEPT ![t] = launched[t]]
        /\ reported = [reported EXCEPT ![t] = reported[t]]
    BY DEF HttpInv
  <2>2. /\ status[t] \in {"none", "starting"} => job[t] = NoJob
        /\ Fits(job[t], resuming[t], sending[t], launched[t], reported[t])
        /\ socket \in Nat
    BY DEF HttpInv
  <2>3. ASSUME NEW s, NEW j, NEW b, NEW p, NEW l, NEW d,
               Moves(s, j, b, p, l, d), Fits(j, b, p, l, d),
               s \in {"none", "starting"} => j = NoJob
        PROVE  HttpInv'
    BY <2>3, OneTaskMoves
  <2>4. ASSUME NEW s, s \in {"none", "starting"} => job[t] = NoJob,
               Moves(s, job[t], resuming[t], sending[t], launched[t],
                     reported[t])
        PROVE  HttpInv'
    BY <2>2, <2>3, <2>4
  <2>5. CASE Create(t)
    <3>1. PICK s : status' = [status EXCEPT ![t] = s]
      BY <2>5 DEF Create
    <3>2. Moves(s, job[t], resuming[t], sending[t], launched[t], reported[t])
      BY <2>1, <2>5, <3>1 DEF Create, count
    <3>3. job[t] = NoJob
      BY <2>2, <2>5 DEF Create
    <3> QED
      BY <2>4, <3>2, <3>3
  <2>6. CASE Launch(t)
    <3>1. Moves("ready", socket, resuming[t], sending[t], launched[t] + 1,
                reported[t])
      BY <2>1, <2>6 DEF Launch, Increment
    <3>2. job[t] = NoJob /\ socket # NoJob
      BY <2>2, <2>6 DEF Launch, NoJob
    <3>3. Fits(socket, resuming[t], sending[t], launched[t] + 1, reported[t])
      BY <2>2, <3>2 DEF Balanced, One
    <3> QED
      BY <2>3, <3>1, <3>3
  <2>7. CASE Execute(t)
    <3>1. Moves("running", job[t], resuming[t], sending[t], launched[t],
                reported[t])
      BY <2>1, <2>7 DEF Execute
    <3> QED
      BY <2>4, <3>1
  <2>8. CASE LoopEnds(t)
    <3>1. PICK s \in {"ended", "held"} : status' = [status EXCEPT ![t] = s]
      BY <2>8 DEF LoopEnds
    <3>2. Moves(s, job[t], resuming[t], sending[t], launched[t], reported[t])
      BY <2>1, <2>8, <3>1 DEF LoopEnds, count
    <3> QED
      BY <2>4, <3>1, <3>2
  <2>9. CASE ServiceRaises(t)
    <3>1. Moves("raised", job[t], resuming[t], sending[t], launched[t],
                reported[t])
      BY <2>1, <2>9 DEF ServiceRaises
    <3> QED
      BY <2>4, <3>1
  <2>10. ASSUME NEW kind \in Kinds, Report(t, kind)
         PROVE  HttpInv'
    <3>1. CASE socket # 0
      <4>1. Moves(status[t], job[t], resuming[t], sending[t] \cup {kind},
                  launched[t], reported[t])
        BY <2>1, <2>10, <3>1 DEF Report
      <4>2. Fits(job[t], resuming[t], sending[t] \cup {kind}, launched[t],
                 reported[t])
        BY <2>2, <2>10, <3>1 DEF Balanced, Report, Finished, Kinds
      <4> QED
        BY <2>2, <2>3, <4>1, <4>2
    <3>2. CASE socket = 0 /\ kind = "run"
      <4>1. Moves(status[t], NoJob, resuming[t], sending[t], launched[t],
                  reported[t] + 1)
        BY <2>1, <2>10, <3>2 DEF Report, Leave, Increment
      <4>2. job[t] # NoJob /\ "run" \notin sending[t]
        BY <2>10, <3>2 DEF Report, Finished
      <4>3. Fits(NoJob, resuming[t], sending[t], launched[t], reported[t] + 1)
        BY <2>2, <4>2 DEF Balanced, One
      <4> QED
        BY <2>3, <4>1, <4>3
    <3>3. CASE socket = 0 /\ kind = "resume"
      <4>1. Moves(status[t], job[t], FALSE, sending[t], launched[t],
                  reported[t] + 1)
        BY <2>1, <2>10, <3>3 DEF Report, Leave, Increment
      <4>2. resuming[t] /\ "resume" \notin sending[t]
        BY <2>10, <3>3 DEF Report, Finished
      <4>3. Fits(job[t], FALSE, sending[t], launched[t], reported[t] + 1)
        BY <2>2, <4>2 DEF Balanced, One
      <4> QED
        BY <2>2, <2>3, <4>1, <4>3
    <3> QED
      BY <3>1, <3>2, <3>3 DEF Kinds
  <2>11. ASSUME NEW kind \in Kinds, Send(t, kind)
         PROVE  HttpInv'
    <3> DEFINE p == sending[t] \ {kind}
               d == IF socket # 0 THEN reported[t] + 1 ELSE reported[t]
    <3>1. reported' = [reported EXCEPT ![t] = d]
      BY <2>1, <2>11 DEF Send, Increment
    <3>2. CASE kind = "run"
      <4>1. Moves(status[t], NoJob, resuming[t], p, launched[t], d)
        BY <2>1, <2>11, <3>1, <3>2 DEF Send, Leave
      <4>2. /\ "run" \in sending[t] /\ "run" \notin p
            /\ "resume" \in p <=> "resume" \in sending[t]
        BY <2>11, <3>2 DEF Send
      <4>3. Fits(NoJob, resuming[t], p, launched[t], d)
        <5>1. p \in SUBSET Kinds /\ d \in Nat
          BY <2>2 DEF Balanced
        <5>2. d = reported[t] + (IF socket # 0 THEN 1 ELSE 0)
          BY <2>2 DEF Balanced
        <5> HIDE DEF p, d
        <5> QED
          BY <2>2, <4>2, <5>1, <5>2 DEF Balanced, One
      <4> QED
        BY <2>3, <4>1, <4>3
    <3>3. CASE kind = "resume"
      <4>1. Moves(status[t], job[t], FALSE, p, launched[t], d)
        BY <2>1, <2>11, <3>1, <3>3 DEF Send, Leave
      <4>2. /\ "resume" \in sending[t] /\ "resume" \notin p
            /\ "run" \in p <=> "run" \in sending[t]
        BY <2>11, <3>3 DEF Send
      <4>3. Fits(job[t], FALSE, p, launched[t], d)
        <5>1. p \in SUBSET Kinds /\ d \in Nat
          BY <2>2 DEF Balanced
        <5>2. d = reported[t] + (IF socket # 0 THEN 1 ELSE 0)
          BY <2>2 DEF Balanced
        <5> HIDE DEF p, d
        <5> QED
          BY <2>2, <4>2, <5>1, <5>2 DEF Balanced, One
      <4> QED
        BY <2>2, <2>3, <4>1, <4>3
    <3> QED
      BY <3>2, <3>3 DEF Kinds
  <2>12. CASE Resume(t)
    <3>1. Moves(status[t], job[t], TRUE, sending[t], launched[t] + 1,
                reported[t])
      BY <2>1, <2>12 DEF Resume, Increment
    <3>2. ~resuming[t]
      BY <2>12 DEF Resume
    <3>3. Fits(job[t], TRUE, sending[t], launched[t] + 1, reported[t])
      BY <2>2, <3>2 DEF Balanced, One
    <3> QED
      BY <2>2, <2>3, <3>1, <3>3
  <2>13. CASE Stop(t)
    <3>1. Moves("ended", job[t], resuming[t], sending[t], launched[t],
                reported[t])
      BY <2>1, <2>13 DEF Stop, count
    <3> QED
      BY <2>4, <3>1
  <2> QED
    BY <1>3, <2>5, <2>6, <2>7, <2>8, <2>9, <2>10, <2>11, <2>12, <2>13
    DEF HttpWork
<1> QED
  BY <1>1, <1>2, <1>3 DEF HttpNext

\* Whatever the service raises, whether the browser is there or not, and
\* however often a task is resumed, a worker that is gone handed over what
\* came of it, once, unless the connection it had seen was closed before it
\* used it.  (_launch and resume_agent_task of agent_tasks.py)
THEOREM NoWorkerIsLost == HttpSpec => []NoSilentWorker
<1>1. HttpInv => NoSilentWorker
  <2> SUFFICES ASSUME HttpInv, NEW t \in Tasks
               PROVE  /\ reported[t] + Living(t) <= launched[t]
                      /\ launched[t] <= reported[t] + Living(t) + cut[t]
    BY DEF NoSilentWorker
  <2>1. Balanced(job[t], resuming[t], sending[t], launched[t], reported[t],
                 cut[t], socket)
    BY DEF HttpInv
  <2> QED
    BY <2>1 DEF Balanced, Living, One
<1> QED
  BY <1>1, HttpInitially, HttpKept, PTL DEF HttpSpec

=============================================================================
