--------------------------- MODULE ProjectRegistry ---------------------------
(***************************************************************************)
(* The projects of the server: their registry in SQLite (core/projects.py) *)
(* and the requests made through the id of one (routers/projects.py), each *)
(* on a thread of its own, which look the project up first and use what    *)
(* they found afterwards.                                                  *)
(***************************************************************************)
EXTENDS Integers, Sequences

CONSTANTS Browsers,   \* tabs, each with one request at a time
          Paths,      \* directories
          MaxRows, MaxSaves

VARIABLES
  rows,     \* table projects: of each id, its path or Gone
  told,     \* history: of each id, the path it was first given for
  request,  \* of each browser, the request it waits for
  saves,    \* files saved and commands run
  touched   \* history: <<id asked for, path touched>>

projVars == <<rows, told, request, saves, touched>>

Gone == ""
Idle == [at |-> "idle", id |-> 0, path |-> Gone]

ProjInit == /\ rows = <<>> /\ told = <<>>
            /\ request = [b \in Browsers |-> Idle]
            /\ saves = 0 /\ touched = {}

Live(path) == \E id \in DOMAIN rows : rows[id] = path

\* Faulty variant of Insert: without AUTOINCREMENT the id after the highest
\* live one is given again.
InsertReusing(path) ==
  LET free == {id \in 1..(Len(rows) + 1) :
                 \A k \in id..Len(rows) : rows[k] = Gone}
      id == CHOOSE i \in free : \A j \in free : i <= j
  IN  /\ rows' = IF id <= Len(rows) THEN [rows EXCEPT ![id] = path]
                 ELSE Append(rows, path)
      /\ told' = IF id <= Len(told) THEN told ELSE Append(told, path)

Insert(path) == rows' = Append(rows, path) /\ told' = Append(told, path)

\* register: a directory, resolved, and not there already.
Register(path) ==
  /\ Len(rows) < MaxRows
  /\ ~Live(path)
  /\ Insert(path)
  /\ UNCHANGED <<request, saves, touched>>

\* _project_or_404: every request about a project begins with it ...
ProjectOr404(b, id, place) ==
  /\ request[b] = Idle
  /\ rows[id] # Gone
  /\ request' = [request EXCEPT ![b] = [at |-> place, id |-> id,
                                        path |-> rows[id]]]
  /\ UNCHANGED <<rows, told, saves, touched>>

Answer(b) == request' = [request EXCEPT ![b] = Idle]

\* ... and another may come before it goes on.
RemoveProject(b) ==
  /\ request[b].at = "remove"
  /\ rows' = [rows EXCEPT ![request[b].id] = Gone]
  /\ Answer(b)
  /\ UNCHANGED <<told, saves, touched>>

\* Listing, reading and Git's status change nothing, and any request may be
\* refused: a path outside, not a file, too large, binary.
ReadOrRefuse(b) ==
  /\ request[b].at \in {"read", "touch"}
  /\ Answer(b)
  /\ UNCHANGED <<rows, told, saves, touched>>

Touch(b) ==
  /\ saves < MaxSaves
  /\ saves' = saves + 1
  /\ touched' = touched \cup {<<request[b].id, request[b].path>>}
  /\ Answer(b)
  /\ UNCHANGED <<rows, told>>

\* Overwrites what is there.  A path that looks like a secret is refused.
WriteFileContent(b) == request[b].at = "touch" /\ Touch(b)

\* run_command confirms for the user what is not destructive.
RunCommand(b) == request[b].at = "touch" /\ Touch(b)

ProjNext ==
  \/ \E path \in Paths : Register(path)
  \/ \E b \in Browsers :
       \/ \E id \in DOMAIN rows, place \in {"read", "touch", "remove"} :
            ProjectOr404(b, id, place)
       \/ RemoveProject(b) \/ ReadOrRefuse(b)
       \/ WriteFileContent(b) \/ RunCommand(b)

ProjSpec == ProjInit /\ [][ProjNext]_projVars

-----------------------------------------------------------------------------
\* A directory is registered once, however requests to register and remove
\* it interleave.  (path TEXT UNIQUE, projects.py:9-16 and 60-68)
RegisteredOnce ==
  \A i, j \in DOMAIN rows : rows[i] # Gone /\ rows[i] = rows[j] => i = j

\* A browser that kept the id of a project touches that project's directory
\* or nothing, although the project may be removed and others registered at
\* any moment.  (AUTOINCREMENT, projects.py:11, and _project_or_404)
IdsNeverRedirect == \A t \in touched : told[t[1]] = t[2]

\* An id stands for one directory for ever, and a directory for one id at a
\* time, in any order of the requests.
OneRootPerId == RegisteredOnce /\ IdsNeverRedirect

=============================================================================
