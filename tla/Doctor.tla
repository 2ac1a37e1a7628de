------------------------------- MODULE Doctor -------------------------------
(***************************************************************************)
(* `skytrap doctor` (core/doctor.py): the model is probed and questioned,  *)
(* the rest of the machine is checked, and of the checks are made the      *)
(* verdict, the capability matrix of the planner and the plan of repairs.  *)
(* Only Ollama changes meanwhile.                                          *)
(***************************************************************************)
EXTENDS Models

CONSTANTS Machines,  \* what may be found on a machine
          Languages, \* that have a language server
          Internal,  \* checks of SkyTrap's own parts
          Constant   \* those of them that call nothing: a text, a name

VARIABLES
  machine,  \* the one that is looked at
  diagnosis \* the verdict, the matrix and the plan

doctorVars == <<modelVars, machine, diagnosis>>

DoctorInit == ModelInit /\ machine \in Machines /\ diagnosis = NotAsked

-----------------------------------------------------------------------------
(* The checks *)

\* _check_ast_grep names its check by what it finds.
AstGrepCheck == IF machine.astGrep = "works" THEN "ast-grep"
                ELSE "ast-grep (optional)"

OptionalChecks == {"ast-grep (optional)", "LSP servers (optional)"}

MachineChecks ==
  {"Ollama + model", "Git", "Workspace Git state", "ripgrep", "Tree-sitter",
   "LSP servers (optional)", "Task state storage", "Workspace permissions",
   "Verification commands", "Model qualification suite",
   "Browser verification"}

CheckNames == Internal \cup {AstGrepCheck} \cup MachineChecks

\* A server is found by its name, and works if it lists a file's symbols.
LspStatus(language) ==
  CASE machine.lsp[language] = "works" -> "healthy"
    [] machine.lsp[language] = "broken" -> "detected"
    [] OTHER -> "unavailable"

CheckTreeSitter == CASE machine.treeSitter = "absent" -> "unavailable"
                     [] machine.treeSitter = "no grammar" -> "degraded"
                     [] OTHER -> "healthy"

CheckQualification == IF result # NotAsked /\ result.qualified
                      THEN "healthy" ELSE "degraded"

Either(ok, otherwise) == IF ok THEN "healthy" ELSE otherwise

CheckOf(name) ==
  CASE name = "Ollama + model" ->
         Either(health.status = "HEALTHY", "unavailable")
    [] name = "Model qualification suite" -> CheckQualification
    [] name = "Git" -> Either(machine.git, "unavailable")
    [] name = "Workspace Git state" -> Either(machine.isGit, "degraded")
    [] name = "ripgrep" -> Either(machine.ripgrep, "degraded")
    [] name = "Tree-sitter" -> CheckTreeSitter
    [] name \in {"ast-grep", "ast-grep (optional)"} ->
         Either(machine.astGrep = "works", "degraded")
    [] name = "LSP servers (optional)" ->
         Either(\E l \in Languages : LspStatus(l) = "healthy", "degraded")
    [] name = "Browser verification" ->
         Either(machine.browser = "works", "degraded")
    [] name \in {"Task state storage", "Workspace permissions"} ->
         Either(name \notin machine.readOnly, "unavailable")
    [] name = "Verification commands" ->
         Either(machine.recognized, "degraded")
    [] OTHER -> Either(name \notin machine.broken \ Constant, "unavailable")

-----------------------------------------------------------------------------
(* What is made of them *)

Required == CheckNames \ OptionalChecks

Verdict ==
  IF \E name \in Required : CheckOf(name) = "unavailable" THEN "unavailable"
  ELSE IF \E name \in CheckNames : CheckOf(name) = "degraded" THEN "degraded"
  ELSE "healthy"

Capabilities == {"model_reasoning", "text_search", "ast_parsing",
                 "structural_search", "browser_verification", "git"}

Source(capability) ==
  CASE capability = "model_reasoning" -> "Ollama + model"
    [] capability = "text_search" -> "ripgrep"
    [] capability = "ast_parsing" -> "Tree-sitter"
    [] capability = "structural_search" -> "ast-grep (optional)"
    [] capability = "browser_verification" -> "Browser verification"
    [] capability = "git" -> "Git"

\* ast-grep is looked up by either name; the one not found is "not probed".
MatrixOf(capability) ==
  IF Source(capability) \in CheckNames THEN CheckOf(Source(capability))
  ELSE IF capability = "structural_search" THEN CheckOf("ast-grep")
  ELSE "unavailable"

\* Commands that are shown and never run.
FixPlan ==
  (IF health # Raised /\ health.status # "HEALTHY" THEN {health.status}
   ELSE {})
  \cup {name \in {"ast-grep (optional)"} \cap CheckNames :
          CheckOf(name) # "healthy"}
  \cup (IF machine.browser # "works" THEN {"Playwright"} ELSE {})
  \cup {l \in Languages : LspStatus(l) # "healthy"}

RunDoctor ==
  /\ probing = "asked" /\ probing' = "ended"
  /\ diagnosis' = [verdict |-> Verdict, plan |-> FixPlan,
                matrix |-> [c \in Capabilities |-> MatrixOf(c)],
                lsp |-> [l \in Languages |-> LspStatus(l)]]
  /\ UNCHANGED <<environment, health, replies, result, heard, machine>>

Examine == (Inquire /\ UNCHANGED <<machine, diagnosis>>) \/ RunDoctor

DoctorNext == \/ Examine
              \/ OllamaShifts /\ UNCHANGED <<machine, diagnosis>>

\* Checks are looked up by their names, the plan names its items: no two
\* things have the same.
ASSUME DoctorAssumption ==
  /\ Internal \cap (MachineChecks \cup {"ast-grep", "ast-grep (optional)"})
       = {}
  /\ Constant \subseteq Internal
  /\ Languages \cap ({Status(Layers[k]) : k \in 1..4}
                     \cup {"ast-grep (optional)", "Playwright"}) = {}

DoctorSpec == DoctorInit /\ [][DoctorNext]_doctorVars

-----------------------------------------------------------------------------
(* Properties *)

\* The machine is called healthy only if every layer of Ollama answered and
\* the model replied to every question during this very run, although it may
\* have gone in between.  (doctor.py:418-432)
HealthyWasSeen ==
  diagnosis # NotAsked /\ diagnosis.verdict = "healthy" =>
    /\ heard = {Layers[k] : k \in 1..4}
    /\ Len(replies) = 7 /\ \A k \in 1..7 : replies[k] # "none"

\* The matrix of the planner and the plan of repairs are made separately and
\* by names that change with the finding: what has a repair is exactly what
\* the matrix does not call healthy; only for a model whose probe raised there
\* is none.  (doctor.py:170-180 and 472-535)
PlanCoversMatrix ==
  diagnosis # NotAsked =>
    LET ails(c) == diagnosis.matrix[c] # "healthy"
    IN  /\ ails("model_reasoning") /\ health # Raised <=>
             (\E k \in 1..4 : Status(Layers[k]) \in diagnosis.plan)
        /\ ails("structural_search") <=>
             "ast-grep (optional)" \in diagnosis.plan
        /\ ails("browser_verification") <=> "Playwright" \in diagnosis.plan
        /\ \A l \in Languages :
             diagnosis.lsp[l] # "healthy" <=> l \in diagnosis.plan

\* What the doctor says of the model was seen in this run, and the parts of
\* its report agree, whatever came and went and whatever is missing.
DiagnosisIsTrue == LayersAnswered /\ QualifiedCanUseTools
                   /\ HealthyWasSeen /\ PlanCoversMatrix

=============================================================================
