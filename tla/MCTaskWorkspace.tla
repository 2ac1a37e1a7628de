-------------------------- MODULE MCTaskWorkspace --------------------------
(***************************************************************************)
(* TaskWorkspace on small instances.                                       *)
(***************************************************************************)
EXTENDS TaskWorkspace

CONSTANT code

OneFile == {code}

\* FULL_INTERACTIVE_CAPABILITIES
Full == {"filesystem:read", "filesystem:write", "shell:execute",
         "secrets:use", "git:commit", "git:push"}

\* A request of high consequence has every change of a file held, sensitive or
\* not, so one of the two is enough.  The user rolls back in or after the first
\* run.
FewRollbacks ==
  /\ Init /\ (risk = HIGH => sensitive = {})
  /\ [][Next /\ (undoing' => runs = 1)]_vars

=============================================================================
