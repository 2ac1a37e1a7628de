---------------------------- MODULE ProjectNotes ----------------------------
(***************************************************************************)
(* What a turn or a chat leaves for the next ones in its project: a note   *)
(* in SQLite (memory/sqlite.py) and an entry of Skytrap/JOURNAL.md         *)
(* (core/project_notes.py), both written at its end                        *)
(* (server/agent_worker.py, cli.py) and read at the start of a role        *)
(* (core/agent.py) or by a tool (tools/notes.py).  Turns run at the same   *)
(* time, each with a connection of its own, and may be killed.             *)
(***************************************************************************)
EXTENDS Integers, Sequences, FiniteSets, SequencesExt

CONSTANTS Writers,    \* turns and chats
          Workspaces, \* where they are
          Limit,      \* of get_past_notes
          Recent      \* entries that fit in load_recent_journal's max_chars

VARIABLES
  writer,    \* of each, how far it is
  project,   \* of each, the workspace it is in
  seen,      \* of each, the part of the journal in its prompt
  sessions,  \* table sessions: the writers that have one
  notes,     \* table notes, by id: session and workspace
  listed,    \* of each writer, the ids of the notes the tool gave it
  journal    \* of each workspace, JOURNAL.md

noteVars == <<writer, project, seen, sessions, notes, listed, journal>>

NoteInit == /\ writer = [w \in Writers |-> "idle"]
            /\ project = [w \in Writers |-> CHOOSE p \in Workspaces : TRUE]
            /\ seen = [w \in Writers |-> <<>>]
            /\ sessions = {}
            /\ notes = <<>>
            /\ listed = [w \in Writers |-> {}]
            /\ journal = [p \in Workspaces |-> <<>>]

LastOf(n, s) == SubSeq(s, IF Len(s) > n THEN Len(s) - n + 1 ELSE 1, Len(s))

LoadRecentJournal(p) == LastOf(Recent, journal[p])

\* ORDER BY id DESC LIMIT, of one workspace, by id; with a query,
\* search_notes leaves out some of them.
ListNotes(p) ==
  LET mine == {k \in DOMAIN notes : notes[k].project = p}
  IN  {k \in mine : Cardinality({j \in mine : j > k}) < Limit}

StartSession(w) ==
  /\ writer[w] = "idle"
  /\ \E p \in Workspaces : project' = [project EXCEPT ![w] = p]
  /\ sessions' = sessions \cup {w}
  /\ writer' = [writer EXCEPT ![w] = "open"]
  /\ UNCHANGED <<seen, notes, listed, journal>>

\* _build_system_prompt, at the start of each role.
BuildPrompt(w) ==
  /\ writer[w] \in {"open", "working"}
  /\ seen' = [seen EXCEPT ![w] = LoadRecentJournal(project[w])]
  /\ writer' = [writer EXCEPT ![w] = "working"]
  /\ UNCHANGED <<project, sessions, notes, listed, journal>>

\* get_past_notes, in the middle of a role.
GetPastNotes(w) ==
  /\ writer[w] = "working"
  /\ listed' = [listed EXCEPT ![w] = ListNotes(project[w])]
  /\ UNCHANGED <<writer, project, seen, sessions, notes, journal>>

RecordNote(w) ==
  /\ writer[w] = "working"
  /\ notes' = Append(notes, [session |-> w, project |-> project[w]])
  /\ writer' = [writer EXCEPT ![w] = "noted"]
  /\ UNCHANGED <<project, seen, sessions, listed, journal>>

\* Faulty variant of AppendJournalEntry: written over what was read.
RewriteJournal(w) ==
  /\ writer[w] = "noted"
  /\ journal' = [journal EXCEPT ![project[w]] = Append(seen[w], w)]
  /\ writer' = [writer EXCEPT ![w] = "done"]
  /\ UNCHANGED <<project, seen, sessions, notes, listed>>

\* The file is opened for appending.
AppendJournalEntry(w) ==
  /\ writer[w] = "noted"
  /\ journal' = [journal EXCEPT ![project[w]] = Append(@, w)]
  /\ writer' = [writer EXCEPT ![w] = "done"]
  /\ UNCHANGED <<project, seen, sessions, notes, listed>>

\* No file was touched, the summary, the note or the entry fails, or the
\* process is killed.
EndSession(w) ==
  /\ writer[w] \notin {"idle", "done"}
  /\ writer' = [writer EXCEPT ![w] = "done"]
  /\ UNCHANGED <<project, seen, sessions, notes, listed, journal>>

NoteNext == \E w \in Writers : \/ StartSession(w) \/ BuildPrompt(w)
                               \/ GetPastNotes(w) \/ RecordNote(w)
                               \/ AppendJournalEntry(w) \/ EndSession(w)

NoteSpec == NoteInit /\ [][NoteNext]_noteVars

-----------------------------------------------------------------------------
\* "Past entries are never rewritten", by turns that end at the same time
\* either.  (project_notes.py:18-19)
JournalIsAppendOnly ==
  [][\A p \in Workspaces : IsPrefix(journal[p], journal'[p])]_noteVars

\* What the journal has of a project is in its notes, in whatever step a turn
\* was killed: the tool that lists the notes never knows less than a prompt.
\* (agent_worker.py:168-173)
JournalIsRecorded ==
  \A p \in Workspaces : \A w \in ToSet(journal[p]) :
    \E k \in DOMAIN notes : notes[k] = [session |-> w, project |-> p]

\* The notes a tool lists are those of the workspace it works in, while
\* turns in others record theirs.  (memory/sqlite.py:87-101)
NotesStayInProject ==
  \A w \in Writers : \A k \in listed[w] : notes[k].project = project[w]

\* What is left for the next turns of a project stays as it was written, is
\* complete, and comes to no other project.
PastIsKept ==
  JournalIsAppendOnly /\ []JournalIsRecorded /\ []NotesStayInProject

=============================================================================
