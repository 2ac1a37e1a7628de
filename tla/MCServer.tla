------------------------------ MODULE MCServer ------------------------------
(***************************************************************************)
(* The parts of the server that share no state, on small instances:        *)
(* logging in, tasks over HTTP, the registry of projects and the notes.    *)
(* A behaviour is one of the part it is given, the others stay as they     *)
(* began.                                                                  *)
(***************************************************************************)
EXTENDS AuthStore, AgentTasks, ProjectRegistry, ProjectNotes

CONSTANTS r1, r2, t1, t2, b1, b2, w1, w2

VARIABLE part

TwoRequests == {r1, r2}
TwoTasks == {t1, t2}
TwoBrowsers == {b1, b2}
TwoWriters == {w1, w2}
TwoPlaces == {"a", "b"}

ServerInit == /\ part \in {"auth", "tasks", "registry", "notes"}
              /\ AuthInit /\ HttpInit /\ ProjInit /\ NoteInit

ServerNext ==
  /\ UNCHANGED part
  /\ \/ part = "auth" /\ AuthNext /\ UNCHANGED <<httpVars, projVars, noteVars>>
     \/ part = "tasks" /\ HttpNext
          /\ UNCHANGED <<authVars, projVars, noteVars>>
     \/ part = "registry" /\ ProjNext
          /\ UNCHANGED <<authVars, httpVars, noteVars>>
     \/ part = "notes" /\ NoteNext
          /\ UNCHANGED <<authVars, httpVars, projVars>>

ServerSpec ==
  /\ ServerInit
  /\ [][ServerNext]_<<part, authVars, httpVars, projVars, noteVars>>
  /\ \A r \in Requests : WF_authVars(Serve(r))
  /\ HttpFairness

=============================================================================
