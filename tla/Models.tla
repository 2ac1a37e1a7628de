------------------------------- MODULE Models -------------------------------
(***************************************************************************)
(* What is found out about the local model: probe_ollama (models/ollama.py)*)
(* asks Ollama layer by layer, ModelQualificationSuite                     *)
(* (models/qualification.py) asks the model seven questions.  Ollama may   *)
(* come and go between two requests, and may answer none in time.          *)
(***************************************************************************)
EXTENDS Integers, Sequences, FiniteSets

CONSTANTS MaxShifts, \* bound: changes of Ollama
          NotAsked   \* no report, no result

VARIABLES
  probing,   \* "idle", "version", "tags", "generation", "questions",
             \* "asked", "ended"
  installed, \* the binary is on PATH
  ollama,    \* what works of "daemon", "model", "generation"
  shifts,    \* changes of it
  health,    \* OllamaHealthReport, or that the probe raised
  replies,   \* to the questions: "pass", "fail", "none"
  result,    \* ModelQualificationResult
  heard      \* history: the layers that answered

modelVars == <<probing, installed, ollama, shifts, health, replies, result,
               heard>>
environment == <<installed, ollama, shifts>>

Layers == <<"binary", "daemon", "model", "generation">>

Probes == <<"structured_json", "tool_selection", "repository_understanding",
            "code_patch", "debugging", "long_context",
            "instruction_following">>
Coding == {"code_patch", "debugging", "instruction_following"}
Reasoning == {"repository_understanding", "debugging", "long_context"}

ModelInit ==
  /\ probing = "idle" /\ installed \in BOOLEAN
  /\ \E n \in 1..4 : ollama = {Layers[k] : k \in 2..n}
  /\ shifts = 0 /\ heard = {}
  /\ health = NotAsked /\ replies = <<>> /\ result = NotAsked

-----------------------------------------------------------------------------
(* Ollama *)

OllamaShifts ==
  /\ probing # "ended" /\ shifts < MaxShifts /\ shifts' = shifts + 1
  /\ \E layer \in {"daemon", "model", "generation"} :
       ollama' = (ollama \ {layer}) \cup ({layer} \ ollama)
  /\ UNCHANGED <<probing, installed, health, replies, result, heard>>

\* A request is answered only if all it needs works, and then not always.
Answers(layer) ==
  CASE layer = "daemon" -> "daemon" \in ollama
    [] layer = "generation" -> ollama = {"daemon", "model", "generation"}

-----------------------------------------------------------------------------
(* probe_ollama *)

Status(layer) == CASE layer = "binary" -> "NOT_INSTALLED"
                   [] layer = "daemon" -> "DAEMON_OFFLINE"
                   [] layer = "model" -> "MODEL_MISSING"
                   [] layer = "generation" -> "MODEL_UNLOADABLE"

\* The first layer that fails ends the probe, and nothing is asked.
FailsAt(layer) ==
  /\ health' = [status |-> Status(layer),
                layers |-> {Layers[k] : k \in
                              {n \in 1..4 : layer \notin {Layers[j] :
                                                         j \in 1..n}}}]
  /\ probing' = "asked"

\* A JSON answer that is no object raises out of the probe: no report.
Raised == [status |-> "RAISED", layers |-> {}]
Raises == health' = Raised /\ probing' = "asked"

ProbeBinary ==
  /\ probing = "idle"
  /\ IF installed THEN /\ probing' = "version"
                       /\ heard' = heard \cup {"binary"} /\ UNCHANGED health
     ELSE FailsAt("binary") /\ UNCHANGED heard
  /\ UNCHANGED <<environment, replies, result>>

\* An answer with an error status is none.
ProbeVersion ==
  /\ probing = "version"
  /\ \/ FailsAt("daemon") /\ UNCHANGED heard
     \/ /\ Answers("daemon") /\ probing' = "tags"
        /\ heard' = heard \cup {"daemon"} /\ UNCHANGED health
  /\ UNCHANGED <<environment, replies, result>>

\* The tags must be JSON; that both answers are objects is not looked at
\* until they are used, outside the `try`.
ProbeTags ==
  /\ probing = "tags"
  /\ \/ FailsAt("daemon") /\ UNCHANGED heard
     \/ Answers("daemon") /\ Raises /\ UNCHANGED heard
     \/ /\ Answers("daemon")
        /\ heard' = heard \cup (ollama \cap {"model"})
        /\ IF "model" \in ollama
           THEN probing' = "generation" /\ UNCHANGED health
           ELSE FailsAt("model")
  /\ UNCHANGED <<environment, replies, result>>

\* The doctor and `bench models` go on only with a healthy model.
ProbeGeneration ==
  /\ probing = "generation"
  /\ \/ FailsAt("generation") /\ UNCHANGED heard
     \/ Answers("generation") /\ Raises /\ UNCHANGED heard
     \/ /\ Answers("generation")
        /\ health' = [status |-> "HEALTHY",
                      layers |-> {Layers[k] : k \in 1..4}]
        /\ probing' = "questions"
        /\ heard' = heard \cup {"generation"}
  /\ UNCHANGED <<environment, replies, result>>

-----------------------------------------------------------------------------
(* ModelQualificationSuite.run *)

Passed(names) ==
  Cardinality({k \in DOMAIN replies : Probes[k] \in names
                                      /\ replies[k] = "pass"})

Ask(reply) ==
  /\ probing = "questions" /\ Len(replies) < Len(Probes)
  /\ reply # "none" => Answers("generation")
  /\ replies' = Append(replies, reply)
  /\ UNCHANGED <<probing, environment, health, result, heard>>

Responded == {k \in DOMAIN replies : replies[k] # "none"}

\* The mean of the four scores, in twelfths.
Overall == Passed(Coding) + 3 * Passed({"structured_json"})
           + 3 * Passed({"tool_selection"}) + Passed(Reasoning)

\* Faulty variant of Conclude: the questions answered are enough.
ConcludeOfReplies ==
  /\ probing = "questions" /\ Len(replies) = Len(Probes)
  /\ probing' = "asked"
  /\ LET qualified == 10 * Overall >= 7 * 12
     IN  result' = [status |-> IF qualified THEN "qualified" ELSE "rejected",
                    qualified |-> qualified]
  /\ UNCHANGED <<environment, health, replies, heard>>

Conclude ==
  /\ probing = "questions" /\ Len(replies) = Len(Probes)
  /\ probing' = "asked"
  /\ result' =
       IF Responded = {}
       THEN [status |-> "error", qualified |-> FALSE]
       ELSE LET qualified == /\ 10 * Overall >= 7 * 12
                             /\ Responded = DOMAIN Probes
            IN  [status |-> IF qualified THEN "qualified" ELSE "rejected",
                 qualified |-> qualified]
  /\ UNCHANGED <<environment, health, replies, heard>>

Inquire == \/ ProbeBinary \/ ProbeVersion \/ ProbeTags \/ ProbeGeneration
           \/ Conclude
           \/ \E reply \in {"pass", "fail", "none"} : Ask(reply)

-----------------------------------------------------------------------------
(* Properties *)

\* A model that cannot choose a tool, or cannot answer in JSON, is qualified
\* only if it passes everything else, and one that can do neither never is:
\* the agent could not use it.  (qualification.py:106-113)
QualifiedCanUseTools ==
  result # NotAsked /\ result.qualified =>
    \A k \in {1, 2} :
      replies[k] # "pass" => \A j \in DOMAIN replies : j # k =>
                                                      replies[j] = "pass"

\* A layer that is reported to work answered during the probe, whatever came
\* and went meanwhile.  (ollama.py:41-134)
LayersAnswered == health # NotAsked => health.layers \subseteq heard

=============================================================================
