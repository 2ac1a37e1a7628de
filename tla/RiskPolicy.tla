----------------------------- MODULE RiskPolicy -----------------------------
(***************************************************************************)
(* RiskEngine (src/skytrap/autonomy/risk.py), ApprovalEngine (approval.py) *)
(* and the tiers of commands and paths (core/tool_safety.py): what each    *)
(* tool call needs before the executor runs it.  A command and a path are  *)
(* reduced to the class that the code's patterns put them in.              *)
(***************************************************************************)
EXTENDS Naturals, FiniteSets, FiniteSetsExt

LOW == 1
MEDIUM == 2
HIGH == 3
CRITICAL == 4

WriteTools == {"write_file", "patch_file", "delete_file"}

\* Classes of targets: a path, or a command by its tier, where "git push" and
\* "git commit" stand apart.
PathClasses == {"ordinary", "sensitive"}
CommandClasses == {"safe", "confirm", "commit", "push", "destructive",
                   "forbidden"}

Assessment(level, capability) ==
  [level |-> level, capability |-> capability, ask |-> level >= HIGH]

AssessWrite(tool, class) ==
  IF class = "sensitive" THEN Assessment(CRITICAL, "secrets:use")
  ELSE Assessment(IF tool = "delete_file" THEN HIGH ELSE MEDIUM,
                  "filesystem:write")

AssessShell(class) ==
  CASE class = "push"    -> Assessment(HIGH, "git:push")
    [] class = "commit"  -> Assessment(MEDIUM, "git:commit")
    [] class = "safe"    -> Assessment(LOW, "shell:execute")
    [] class = "confirm" -> Assessment(MEDIUM, "shell:execute")
    [] OTHER             -> Assessment(CRITICAL, "shell:execute")

AssessTool(tool, class) ==
  CASE tool = "read_file"    -> Assessment(LOW, "filesystem:read")
    [] tool \in WriteTools   -> AssessWrite(tool, class)
    [] tool = "shell"        -> AssessShell(class)

\* Faulty variant of Combine: the intent's risk decides alone.
CombineIntentOnly(a, risk) ==
  IF a.capability \in {"filesystem:write", "git:commit", "git:push",
                       "secrets:use"}
  THEN [a EXCEPT !.level = risk, !.ask = risk >= HIGH]
  ELSE a

\* The consequences the user's request was found to have raise the level of
\* what changes files or branches, never lower it.
Combine(a, risk) ==
  IF a.capability \in {"filesystem:write", "git:commit", "git:push",
                       "secrets:use"}
  THEN LET level == Max({a.level, risk})
       IN  [a EXCEPT !.level = level, !.ask = @ \/ level >= HIGH]
  ELSE a

Assess(tool, class, risk) == Combine(AssessTool(tool, class), risk)

\* The callback says "yes", "no", or "nothing" (none is set, or it is silent).
Decide(a, answer) ==
  IF a.level <= MEDIUM /\ ~a.ask THEN "approved"
  ELSE CASE answer = "yes"     -> "approved"
         [] answer = "no"      -> "denied"
         [] answer = "nothing" -> "pending"

=============================================================================
