------------------------- MODULE MCManagedProcesses -------------------------
(***************************************************************************)
(* ManagedProcesses on small instances.                                    *)
(***************************************************************************)
EXTENDS ManagedProcesses

CONSTANTS a1, a2, p1, p2

TwoApps == {a1, a2}
TwoPids == {p1, p2}

=============================================================================
