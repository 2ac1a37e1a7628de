---------------------------- MODULE ApprovalGate ----------------------------
(***************************************************************************)
(* What asking the user promises to a worker thread that wants to act:     *)
(* each request is decided once, and approved only if the user said yes to *)
(* that very request while it was open.  "Timeout and abandonment both     *)
(* resolve to False (decline), never to a silent approval"                 *)
(* (src/skytrap/server/ws/confirmation_bridge.py).                         *)
(***************************************************************************)
EXTENDS Naturals

CONSTANT Requests

VARIABLES outcome, \* what each request came to
          yes      \* the requests the user said yes to

vars == <<outcome, yes>>

Outcomes == {"new", "open", "approved", "declined"}

Init == /\ outcome = [r \in Requests |-> "new"]
        /\ yes = {}

Open(r) == /\ outcome[r] = "new"
           /\ outcome' = [outcome EXCEPT ![r] = "open"]
           /\ UNCHANGED yes

\* A late yes is possible; it changes nothing any more.
SayYes(r) == /\ outcome[r] # "new"
             /\ yes' = yes \cup {r}
             /\ UNCHANGED outcome

Approve(r) == /\ outcome[r] = "open"
              /\ r \in yes
              /\ outcome' = [outcome EXCEPT ![r] = "approved"]
              /\ UNCHANGED yes

Decline(r) == /\ outcome[r] = "open"
              /\ outcome' = [outcome EXCEPT ![r] = "declined"]
              /\ UNCHANGED yes

Next == \E r \in Requests : Open(r) \/ SayYes(r) \/ Approve(r) \/ Decline(r)

Spec == Init /\ [][Next]_vars

=============================================================================
