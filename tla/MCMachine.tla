----------------------------- MODULE MCMachine -----------------------------
(***************************************************************************)
(* Three parts of SkyTrap that deal with other programs and the terminal,  *)
(* and share no state, on small instances: the doctor, the client of       *)
(* language servers and the renderer.  A behaviour is one of the part it   *)
(* is given, the others stay as they began.                                *)
(***************************************************************************)
EXTENDS Doctor, LspClient, Renderer

VARIABLE part

Servers == {"python", "cpp"}
Registry == {"Tool registry"}
Runtime == {"Agent runtime"}
Inside == Registry \cup Runtime

Furnished ==
  [git |-> TRUE, isGit |-> TRUE, ripgrep |-> TRUE, recognized |-> TRUE,
   treeSitter |-> "works", astGrep |-> "works", browser |-> "works",
   lsp |-> [python |-> "works", cpp |-> "absent"],
   readOnly |-> {}, broken |-> {}]

\* One that has everything but a language server, one that lacks what is
\* optional, one that lacks what is required, one that has little, one of
\* which a part is broken that no check calls.
SomeMachines ==
  {Furnished,
   [Furnished EXCEPT !.astGrep = "broken", !.lsp["cpp"] = "works",
                     !.browser = "absent"],
   [Furnished EXCEPT !.git = FALSE, !.readOnly = {"Task state storage"}],
   [Furnished EXCEPT !.git = FALSE, !.treeSitter = "no grammar",
                     !.astGrep = "broken", !.browser = "absent",
                     !.lsp = [python |-> "broken", cpp |-> "works"],
                     !.broken = Registry],
   [Furnished EXCEPT !.broken = Runtime]}

\* A notification; requests of the server's own, numbered as the client's.
OtherIds == {0, 1, 2}

TwoPaths == {1, 2}
\* "f" and "./f"
Forms == {"plain", "dotted"}
OnePath == {1}

MachineInit ==
  /\ part \in {"doctor", "lsp", "draw"}
  /\ DoctorInit /\ LspInit /\ DrawInit
  /\ part # "doctor" => machine = Furnished /\ ~installed /\ ollama = {}
  /\ part # "lsp" => hasPath
  /\ part # "draw" => interactive

MachineNext ==
  /\ UNCHANGED part
  /\ IF part = "doctor" THEN DoctorNext ELSE UNCHANGED doctorVars
  /\ IF part = "lsp" THEN LspNext ELSE UNCHANGED lspVars
  /\ IF part = "draw" THEN DrawNext ELSE UNCHANGED drawVars

MachineSpec ==
  /\ MachineInit
  /\ [][MachineNext]_<<part, doctorVars, lspVars, drawVars>>
  /\ LspFairness /\ DrawFairness

=============================================================================
