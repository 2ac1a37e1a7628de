--------------------------- MODULE MCServerTurns ---------------------------
(***************************************************************************)
(* The bridge and the turns that ask on it, on small instances.  A         *)
(* behaviour is of two workers that ask on any bridge there is, or of one  *)
(* turn, whose thread asks on the bridge it captured.                      *)
(***************************************************************************)
EXTENDS ServerTurns

CONSTANTS c1, c2, w1, w2

VARIABLE part

TwoConns   == {c1, c2}
TwoWorkers == {w1, w2}

BridgeNext == /\ part = "bridge"
              /\ Next
              /\ UNCHANGED <<part, turnVars>>

OneTurnNext == /\ part = "turn"
               /\ TurnNext /\ at'[w2] = "none"
               /\ UNCHANGED part

TurnsInit == TurnInit /\ part \in {"bridge", "turn"}

TurnsSpec ==
  /\ TurnsInit
  /\ [][BridgeNext \/ OneTurnNext]_<<part, allVars>>
  /\ \A w \in Workers : WF_vars(part = "bridge" /\ Call(w))
  /\ WF_allVars(part = "turn" /\ Thread(w1))

=============================================================================
