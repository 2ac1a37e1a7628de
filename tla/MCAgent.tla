------------------------------ MODULE MCAgent ------------------------------
(***************************************************************************)
(* Parts of the agent that share no state, on small instances: what is     *)
(* known of the repository, the verification of a task and conversation.   *)
(* A behaviour is one of the part it is given, the others stay as they     *)
(* began.                                                                  *)
(***************************************************************************)
EXTENDS RepositoryMemory, TaskVerification, Conversation, SequencesExt

CONSTANTS s1,
          Parts \* the parts of this run

VARIABLE part

AllParts == {"memory", "plan", "verification", "conversation"}
ConversationAlone == {"conversation"}

OneSymbol == {s1}
TwoFiles == 1..2

\* os.walk comes to the files of a directory before its subdirectories.
RootLast == <<2, 1>>

Anything == [path |-> NoFile, named |-> {}, related |-> {}, symbols |-> {}]

\* A path, and a feature found by a file's name, a word of a path, a symbol.
SomeQueries ==
  {[Anything EXCEPT !.path = <<1, "plain">>, !.named = {1}],
   [Anything EXCEPT !.named = {1}, !.related = {2}, !.symbols = {s1}],
   Anything}

AnySpelling == Keys

\* SymbolIndex.build and walk_files file by file, as the code loops, where
\* the model says which files the loop comes to.
BuildLoop(disk) ==
  LET present == SelectSeq([f \in Files |-> f], LAMBDA f : disk[f] # NoFile)
      taken == SubSeq(present, 1, IF Len(present) < MaxIndexed
                                  THEN Len(present) ELSE MaxIndexed)
  IN  FoldLeft(LAMBDA ix, f : UpdateFile(ix, <<f, "plain">>, disk),
               EmptyIndex, taken)

WalkLoop(disk) ==
  FoldLeft(LAMBDA found, f :
             IF disk[f] = NoFile \/ Cardinality(found) = MaxFiles THEN found
             ELSE found \cup {f}, {}, WalkOrder)

ASSUME LoopsAgree ==
  \A disk \in Trees : /\ Build(disk) = BuildLoop(disk)
                      /\ WalkFiles(disk).files = WalkLoop(disk)

SomeCommands == {"ruff", "mypy", "pytest", "npm test", "npm build"}
Scripts == {"npm test", "npm build"}
OptionalTools == {"ruff", "mypy"}
TypecheckTools == {"mypy"}
FallbackTools == [c \in SomeCommands |->
                    CASE c = "ruff" -> "lint" [] c = "mypy" -> "typecheck"
                      [] c = "pytest" -> "test" [] OTHER -> "none"]

OnPath == [c \in SomeCommands |-> {"path"}]

\* A Python project whose ruff is in .venv only; a web project whose scripts
\* can be dropped from its manifest, after which the fallback is tried.
SmallProjects ==
  {[lint |-> {"ruff", "mypy"}, check |-> {"ruff"}, test |-> {"pytest"},
    build |-> {}, markers |-> {},
    binary |-> [OnPath EXCEPT !["ruff"] = {"venv"}], declared |-> {},
    web |-> FALSE, serves |-> FALSE, address |-> FALSE,
    reviewer |-> FALSE, aboutTests |-> about] : about \in BOOLEAN}
  \cup
  {[lint |-> {}, check |-> {}, test |-> {"npm test"}, build |-> {"npm build"},
    markers |-> {"mypy"}, binary |-> OnPath, declared |-> Scripts,
    web |-> TRUE, serves |-> serves, address |-> ~serves,
    reviewer |-> serves, aboutTests |-> FALSE] : serves \in BOOLEAN}

AgentInit ==
  /\ part \in Parts
  /\ MemInit /\ VerInit /\ ConvInit
  /\ part \notin {"memory", "plan"} => isGit /\ tree = NoTree
  /\ part # "verification" => project = CHOOSE p \in SmallProjects : p.web
  /\ part # "conversation" => session = "chat" /\ isRepo

\* Tasks of which any asks for nothing and has a plan of the code's own; one
\* that may ask for anything and plan anything.
RepositoryNext ==
  /\ MemNext
  /\ part = "memory" => /\ asked' \in {NoFile, Anything}
                        /\ plan'.by # "model"
  /\ part = "plan" => tasks' <= 1 /\ Len(commits') <= 1

AgentNext ==
  /\ UNCHANGED part
  /\ IF part \in {"memory", "plan"} THEN RepositoryNext ELSE UNCHANGED memVars
  /\ IF part = "verification" THEN VerNext ELSE UNCHANGED verVars
  /\ IF part = "conversation" THEN ConvNext ELSE UNCHANGED convVars

AgentSpec == /\ AgentInit
             /\ [][AgentNext]_<<part, memVars, verVars, convVars>>
             /\ VerFairness

=============================================================================
