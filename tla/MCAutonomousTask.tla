-------------------------- MODULE MCAutonomousTask --------------------------
(* AutonomousTask on small instances. *)
EXTENDS AutonomousTask

CONSTANTS r1, r2, c1

OneRunner  == {r1}
TwoRunners == {r1, r2}
OneClient  == {c1}

=============================================================================
