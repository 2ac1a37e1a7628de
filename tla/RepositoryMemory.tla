-------------------------- MODULE RepositoryMemory --------------------------
(***************************************************************************)
(* What SkyTrap knows of a repository: the snapshot a task starts with     *)
(* (src/skytrap/intelligence/snapshot.py), the symbol index it keeps up to *)
(* date under its own edits (symbols.py), the memory saved for the next    *)
(* task under a fingerprint of the repository (repository_memory.py), and  *)
(* the evidence of what exists (existence.py, duplication.py) that corrects*)
(* the planner (autonomy/planning.py).  The user and the commands that run *)
(* change the same files meanwhile.                                        *)
(*                                                                         *)
(* A file is its rank in sorted(rglob("*")); a content is the set of the   *)
(* symbols it declares, or Opaque when it cannot be read as UTF-8.         *)
(***************************************************************************)
EXTENDS Naturals, FiniteSets, Sequences

CONSTANTS Files,      \* 1..n
          WalkOrder,  \* the files as os.walk comes to them
          Symbols,
          Opaque,     \* the content that cannot be read
          NoFile,
          NoMemory,
          Queries,    \* what the request may name: see CheckExistence
          Planned,    \* bound: the paths the model's plan may name
          MaxFiles,   \* MAX_SNAPSHOT_FILES
          MaxIndexed, \* MAX_INDEXED_FILES
          MaxEdits,   \* bound: edits of all kinds
          MaxCommits, \* bound: commits
          MaxTasks    \* bound: tasks

ASSUME MemoryAssumption ==
  /\ Files = 1..Cardinality(Files)
  /\ WalkOrder \in Seq(Files)
  /\ Files = {WalkOrder[k] : k \in DOMAIN WalkOrder}
  /\ NoFile \notin Files /\ NoFile # Opaque
  /\ \A S \in SUBSET Symbols : S # NoFile /\ S # Opaque
  /\ {MaxFiles, MaxIndexed, MaxEdits, MaxCommits, MaxTasks} \subseteq Nat
  /\ Queries \subseteq [path : (Files \X {"plain", "dotted"}) \cup {NoFile},
                        named : SUBSET Files, related : SUBSET Files,
                        symbols : SUBSET Symbols]
  /\ Planned \subseteq Files \X {"plain", "dotted"}

Contents == (SUBSET Symbols) \cup {Opaque}
Trees == [Files -> Contents \cup {NoFile}]

\* A path is compared as it is spelled: "a.py" and "./a.py" are two.  The
\* listing has the first kind, ripgrep answers with the second, and tools,
\* plans and requests have either.
Spellings == {"plain", "dotted"}
Keys == Files \X Spellings
Spelled(files, spelling) == files \X {spelling}

VARIABLES
  isGit,    \* the workspace is a Git repository
  tree,     \* the files on the disk
  commits,  \* the tree of each commit
  head,     \* the commit checked out
  stage,    \* where the task is
  listing,  \* RepositorySnapshot.files and .truncated
  stamp,    \* RepositorySnapshot.fingerprint
  index,    \* SymbolIndex: byFile and byName
  hit,      \* memory_hit
  asked,    \* the entity asked about
  evidence, \* its ExistenceEvidence: status, files
  plan,     \* the plan's action for one path: path, action; and history:
            \* by, whether it is the model's or the fallback
  onDisk,   \* history: the files there when the evidence was taken
  touched,  \* the files the task has changed
  memory,   \* the row of repository_memory: fingerprint, parsed; and
            \* history: exact, index and fingerprint were those of the tree
  exact,    \* history: the same of the stamp to be saved
  walked,   \* history: the tree that was listed
  edited,   \* history: of each file, the spelling in the task's last edit
            \* of it, "" when something else changed it since
  edits, tasks

repo == <<isGit, tree, commits, head>>
snapshot == <<listing, stamp, walked>>
thought == <<asked, evidence, onDisk, plan>>
memVars == <<repo, stage, snapshot, index, hit, thought, touched, memory,
             exact, edited, edits, tasks>>

-----------------------------------------------------------------------------
(* The symbol index: of each key the content parsed, of each symbol how    *)
(* many entries each key has.                                              *)

EmptyIndex == [byFile |-> [k \in Keys |-> NoFile],
               byName |-> [s \in Symbols |-> [k \in Keys |-> 0]]]

AddParsed(ix, key, content) ==
  [byFile |-> [ix.byFile EXCEPT ![key] = content],
   byName |-> [s \in Symbols |->
                 IF s \in content THEN [ix.byName[s] EXCEPT ![key] = @ + 1]
                                  ELSE ix.byName[s]]]

RemoveFile(ix, key) ==
  IF ix.byFile[key] = NoFile THEN ix
  ELSE [byFile |-> [ix.byFile EXCEPT ![key] = NoFile],
        byName |-> [s \in Symbols |-> [ix.byName[s] EXCEPT ![key] = 0]]]

UpdateFile(ix, key, disk) ==
  LET rest == RemoveFile(ix, key)
      content == disk[key[1]]
  IN  IF content \in {NoFile, Opaque} THEN rest
      ELSE AddParsed(rest, key, content)

RestoreFrom(parsed) ==
  [byFile |-> parsed,
   byName |-> [s \in Symbols |-> [k \in Keys |->
                 IF parsed[k] # NoFile /\ s \in parsed[k] THEN 1 ELSE 0]]]

\* The first MaxIndexed files, those that can be read, each parsed once and
\* added to an empty index.
Build(disk) ==
  LET taken == {f \in Files : Cardinality({g \in 1..f : disk[g] # NoFile})
                                <= MaxIndexed}
  IN  RestoreFrom([k \in Keys |->
                     IF k[2] = "plain" /\ k[1] \in taken
                        /\ disk[k[1]] # Opaque
                     THEN disk[k[1]] ELSE NoFile])

AllNames(ix) == {s \in Symbols : \E k \in Keys : ix.byName[s][k] > 0}

-----------------------------------------------------------------------------
(* The snapshot *)

\* Stops at MaxFiles, and then calls the listing truncated.
WalkFiles(disk) ==
  LET present == {k \in DOMAIN WalkOrder : disk[WalkOrder[k]] # NoFile}
  IN  [files |-> {WalkOrder[k] : k \in {j \in present :
                    Cardinality(present \cap 1..j) <= MaxFiles}},
       truncated |-> Cardinality(present) >= MaxFiles]

Dirty == isGit /\ tree # commits[head]

\* _git_state asks one git process for HEAD and then another for the status;
\* one that fails, or takes too long, answers "no-git", and "clean".
ReadHead == \E answers \in BOOLEAN :
              stamp' = <<IF isGit /\ answers THEN head ELSE 0, FALSE>>

ReadStatus == \E answers \in BOOLEAN :
                stamp' = <<stamp[1], Dirty /\ answers>>

\* What it would be if both answered, and nothing came in between.
Fingerprint == <<IF isGit THEN head ELSE 0, Dirty>>

LoadIfCurrent(fingerprint) ==
  IF memory # NoMemory /\ memory.fingerprint = fingerprint
  THEN memory ELSE NoMemory

-----------------------------------------------------------------------------
(* Evidence of what exists.  A query may be a path, match files by their   *)
(* name and, more loosely, by a word of their path, and match symbols;     *)
(* ripgrep finds the files that mention one, if it runs.                   *)

Evidence(status, files) == [status |-> status, files |-> files]
NoEvidence == Evidence("none", {})

Mentions(q) == {f \in Files : tree[f] \notin {NoFile, Opaque}
                              /\ tree[f] \cap q.symbols # {}}

\* The status of text matches depends on how many of the terms were found.
SearchText(q, truncated, ripgrep, strong) ==
  IF ~ripgrep THEN Evidence("unknown", {})
  ELSE IF Mentions(q) # {}
  THEN Evidence(IF strong THEN "exists" ELSE "partial",
                Spelled(Mentions(q), "dotted"))
  ELSE Evidence(IF truncated THEN "unknown" ELSE "missing", {})

CheckExistence(q, names, ripgrep, strong) ==
  IF q.path # NoFile /\ tree[q.path[1]] # NoFile
  THEN Evidence("exists", {q.path})
  ELSE IF q.named \cap listing.files # {}
  THEN Evidence("exists", Spelled(q.named \cap listing.files, "plain"))
  ELSE IF q.related \cap listing.files # {}
  THEN Evidence("partial", Spelled(q.related \cap listing.files, "plain"))
  ELSE IF q.symbols \cap names # {} THEN Evidence("partial", {})
  ELSE SearchText(q, listing.truncated, ripgrep, strong)

\* ExistingCapabilityDetector.check: what the words of the goal, of the plan's
\* reason and of its path may lead to, of which any may be shared by any file
\* that was listed, any symbol and any text, but those of the same path.
Detections(path) ==
  LET listed == Spelled(listing.files, "plain") \ {path}
      symbols == {s \in Symbols :
                    \E k \in Keys \ {path} : index.byName[s][k] > 0}
      texts == Spelled({f \in Files : tree[f] \notin {NoFile, Opaque}},
                       "dotted") \ {path}
  IN  {"unknown"}
      \cup (IF listed # {} \/ symbols # {} THEN {"exists", "partial"} ELSE {})
      \cup (IF texts # {} THEN {"partial"} ELSE {})
      \cup (IF listing.truncated THEN {} ELSE {"missing"})

-----------------------------------------------------------------------------
(* The plan *)

FileAction(path, action, by) == [path |-> path, action |-> action, by |-> by]
NoPlan == FileAction(NoFile, "none", "none")

Found == evidence.status \in {"exists", "partial"}

\* Faulty variant of ReconcileFileActions: only a partial match corrects.
ReconcilePartial(a) ==
  IF a.action = "create" /\ evidence.status = "partial"
     /\ a.path \in evidence.files
  THEN [a EXCEPT !.action = "modify"] ELSE a

ReconcileFileActions(a) ==
  IF a.action = "create" /\ Found /\ a.path \in evidence.files
  THEN [a EXCEPT !.action = "modify"] ELSE a

ReconcileDuplication(a, detected) ==
  IF a.action # "create" THEN a
  ELSE CASE detected = "exists" -> [a EXCEPT !.action = "reuse"]
         [] detected = "partial" -> [a EXCEPT !.action = "modify"]
         [] OTHER -> a

\* The deterministic plan, about the first of the files found, or else about
\* the query, be it a path or a word (NoFile).
FallbackActions ==
  IF Found THEN {FileAction(k, "modify", "fallback") :
                   k \in IF evidence.files = {} THEN {asked.path}
                         ELSE evidence.files}
  ELSE IF evidence.status = "missing"
  THEN {FileAction(asked.path, "create", "fallback")}
  ELSE {}

-----------------------------------------------------------------------------
NoListing == [files |-> {}, truncated |-> FALSE]
NoTree == [f \in Files |-> NoFile]
NoEdit == [f \in Files |-> ""]

MemInit == /\ isGit \in BOOLEAN
           /\ tree \in [Files -> {NoFile, {}}]
           /\ commits = <<tree>> /\ head = 1
           /\ stage = "idle"
           /\ listing = NoListing /\ stamp = <<0, FALSE>> /\ walked = NoTree
           /\ index = EmptyIndex /\ hit = FALSE
           /\ asked = NoFile
           /\ evidence = NoEvidence /\ onDisk = {} /\ plan = NoPlan
           /\ touched = {}
           /\ memory = NoMemory /\ exact = FALSE
           /\ edited = NoEdit
           /\ edits = 0 /\ tasks = 0

Unasked == /\ asked' = NoFile
           /\ evidence' = NoEvidence /\ onDisk' = {} /\ plan' = NoPlan

Unlisted == listing' = NoListing /\ stamp' = <<0, FALSE>> /\ walked' = NoTree

\* The process ends, and with it what it knew.
Forget == /\ stage' = "idle"
          /\ Unasked /\ Unlisted
          /\ index' = EmptyIndex /\ hit' = FALSE
          /\ touched' = {}
          /\ exact' = FALSE
          /\ edited' = NoEdit
          /\ UNCHANGED <<repo, edits, tasks>>

\* The user, or a command that runs, changes a file.
Edit(f) == /\ edits < MaxEdits
           /\ \E c \in (Contents \cup {NoFile}) \ {tree[f]} :
                tree' = [tree EXCEPT ![f] = c]
           /\ edits' = edits + 1
           /\ edited' = [edited EXCEPT ![f] = ""]
           /\ UNCHANGED <<isGit, commits, head, stage, snapshot, index, hit,
                          thought, touched, memory, exact, tasks>>

UserCommits == /\ Dirty /\ Len(commits) < MaxCommits
               /\ commits' = Append(commits, tree)
               /\ head' = Len(commits')
               /\ UNCHANGED <<isGit, tree, stage, snapshot, index, hit,
                              thought, touched, memory, exact, edited, edits,
                              tasks>>

UserSwitches == /\ isGit /\ ~Dirty
                /\ stage = "idle"
                /\ \E h \in DOMAIN commits \ {head} :
                     /\ head' = h
                     /\ tree' = commits[h]
                /\ UNCHANGED <<isGit, commits, stage, snapshot, index, hit,
                               thought, touched, memory, exact, edited, edits,
                               tasks>>

\* build_repository_snapshot lists the files first ...
Walk(from, to) == /\ stage = from
                  /\ stage' = to
                  /\ listing' = WalkFiles(tree)
                  /\ walked' = tree

StartTask == /\ tasks < MaxTasks
             /\ tasks' = tasks + 1
             /\ Walk("idle", "walked")
             /\ asked' \in Queries
             /\ UNCHANGED <<repo, stamp, index, hit, evidence, onDisk, plan,
                            touched, memory, exact, edited, edits>>

\* ... and asks Git last.
StampHead == /\ stage = "walked"
             /\ stage' = "headed"
             /\ ReadHead
             /\ UNCHANGED <<repo, listing, walked, index, hit, thought,
                            touched, memory, exact, edited, edits, tasks>>

Stamp == /\ stage = "headed"
         /\ stage' = "stamped"
         /\ ReadStatus
         /\ UNCHANGED <<repo, listing, walked, index, hit, thought, touched,
                        memory, exact, edited, edits, tasks>>

LoadOrBuild ==
  LET cached == LoadIfCurrent(stamp)
  IN  /\ stage = "stamped"
      /\ stage' = "loaded"
      /\ IF cached # NoMemory /\ \E k \in Keys : cached.parsed[k] # NoFile
         THEN /\ index' = RestoreFrom(cached.parsed)
              /\ hit' = TRUE
         ELSE /\ index' = Build(tree)
              /\ hit' = FALSE
      /\ UNCHANGED <<repo, snapshot, thought, touched, memory, exact, edited,
                     edits, tasks>>

Check == /\ stage = "loaded"
         /\ stage' = "checked"
         /\ \E ripgrep, strong \in BOOLEAN :
              evidence' = CheckExistence(asked, AllNames(index), ripgrep,
                                         strong)
         /\ onDisk' = {f \in Files : tree[f] # NoFile}
         /\ UNCHANGED <<repo, snapshot, index, hit, asked, plan, touched,
                        memory, exact, edited, edits, tasks>>

\* The model's plan, or the fallback when it is not valid; both corrected.
CreatePlan ==
  /\ stage = "checked"
  /\ stage' = "planned"
  /\ \/ \E k \in Planned, action \in {"create", "modify"} :
          \E detected \in Detections(k) :
            plan' = ReconcileDuplication(
                      ReconcileFileActions(FileAction(k, action, "model")),
                      detected)
     \/ \E a \in FallbackActions :
          \E detected \in Detections(a.path) :
            plan' = ReconcileDuplication(a, detected)
     \/ /\ FallbackActions = {}
        /\ plan' = NoPlan
  /\ UNCHANGED <<repo, snapshot, index, hit, asked, evidence, onDisk, touched,
                 memory, exact, edited, edits, tasks>>

\* A task that is resumed has its plan; from here on the index is kept alone.
StartLoop == /\ stage \in {"checked", "planned"}
             /\ stage' = "running"
             /\ hit' = FALSE
             /\ Unasked /\ Unlisted
             /\ UNCHANGED <<repo, index, touched, memory, exact, edited, edits,
                            tasks>>

\* A tool of the task changes a file, and the executor the index.
ToolEdits(f, spelling, content, ix) ==
  /\ stage = "running"
  /\ edits < MaxEdits
  /\ edits' = edits + 1
  /\ tree' = [tree EXCEPT ![f] = content]
  /\ index' = ix
  /\ touched' = touched \cup {f}
  /\ edited' = [edited EXCEPT ![f] = spelling]
  /\ UNCHANGED <<isGit, commits, head, stage, snapshot, hit, thought, memory,
                 exact, tasks>>

\* Faulty variant of WriteFile: the executor forgets patch_file.
WriteUnindexed(f, spelling) ==
  \E c \in SUBSET Symbols :
    \/ ToolEdits(f, spelling, c,
                 UpdateFile(index, <<f, spelling>>, [tree EXCEPT ![f] = c]))
    \/ tree[f] \notin {NoFile, Opaque} /\ ToolEdits(f, spelling, c, index)

\* write_file and patch_file.
WriteFile(f, spelling) ==
  \E c \in SUBSET Symbols :
    ToolEdits(f, spelling, c,
              UpdateFile(index, <<f, spelling>>, [tree EXCEPT ![f] = c]))

DeleteFile(f, spelling) ==
  /\ tree[f] # NoFile
  /\ ToolEdits(f, spelling, NoFile, RemoveFile(index, <<f, spelling>>))

\* The task completes: its checkpoint commits what it changed.
Complete ==
  /\ stage = "running"
  /\ stage' = "completed"
  /\ LET sealed == [f \in Files |-> IF f \in touched THEN tree[f]
                                    ELSE commits[head][f]]
     IN  IF isGit /\ sealed # commits[head]
         THEN /\ Len(commits) < MaxCommits
              /\ commits' = Append(commits, sealed)
              /\ head' = Len(commits')
         ELSE UNCHANGED <<commits, head>>
  /\ touched' = {} /\ edited' = NoEdit
  /\ UNCHANGED <<isGit, tree, snapshot, index, hit, thought, memory, exact,
                 edits, tasks>>

\* It fails, is stopped or killed, or the memory cannot be saved.
EndTask == stage # "idle" /\ Forget /\ UNCHANGED memory

\* _persist_repository_memory takes a second snapshot ...
Rewalk == /\ Walk("completed", "rewalked")
          /\ UNCHANGED <<repo, stamp, index, hit, thought, touched, memory,
                         exact, edited, edits, tasks>>

RestampHead == /\ stage = "rewalked"
               /\ stage' = "reheaded"
               /\ ReadHead
               /\ UNCHANGED <<repo, listing, walked, index, hit, thought,
                              touched, memory, exact, edited, edits, tasks>>

Restamp == /\ stage = "reheaded"
           /\ stage' = "restamped"
           /\ ReadStatus
           /\ exact' = /\ index.byFile = Build(tree).byFile
                       /\ stamp' = Fingerprint
           /\ UNCHANGED <<repo, listing, walked, index, hit, thought, touched,
                          memory, edited, edits, tasks>>

\* ... and saves the index that the loop has kept with its fingerprint.
SaveMemory == /\ stage = "restamped"
              /\ memory' = [fingerprint |-> stamp, parsed |-> index.byFile,
                            exact |-> exact]
              /\ Forget

MemNext == \/ \E f \in Files : \/ Edit(f)
                               \/ \E spelling \in Spellings :
                                    \/ WriteFile(f, spelling)
                                    \/ DeleteFile(f, spelling)
           \/ UserCommits \/ UserSwitches
           \/ StartTask \/ StampHead \/ Stamp \/ LoadOrBuild \/ Check
           \/ CreatePlan \/ StartLoop \/ Complete \/ EndTask
           \/ Rewalk \/ RestampHead \/ Restamp \/ SaveMemory

MemSpec == MemInit /\ [][MemNext]_memVars

-----------------------------------------------------------------------------
\* However the index came about (built, restored, kept up to date through
\* edits and deletions), a name leads to exactly the files that declare it,
\* each once: find() answers as a search of the parsed files would.
NamesAgree ==
  \A s \in Symbols, k \in Keys :
    index.byName[s][k] = IF index.byFile[k] # NoFile /\ s \in index.byFile[k]
                         THEN 1 ELSE 0

\* The index follows every edit of the task's own tools while nobody else
\* changes the file, under the path the tool was given.
ToolEditsAreIndexed ==
  stage = "running" =>
    \A f \in Files :
      edited[f] # "" => index.byFile[<<f, edited[f]>>] = tree[f]

\* What is restored at a clean commit is what a build there would give, if
\* the index was right when it was saved and Git told the truth about the
\* files: HEAD identifies them, whatever was edited, committed and checked out
\* in between, and whatever Git answers the task that restores.
CleanHitIsExact ==
  /\ stage = "loaded" /\ hit
  /\ isGit /\ ~stamp[2] /\ memory.exact
  => index.byFile = Build(commits[stamp[1]]).byFile

\* The symbol index says what the files say, whichever way it came about and
\* whoever asks for it, as far as SkyTrap can know of the changes.
MemoryIsExact == NamesAgree /\ ToolEditsAreIndexed /\ CleanHitIsExact

\* "missing" is only said of what the repository did not have when it was
\* listed, although the listing may have been cut short.
MissingIsMissing ==
  evidence.status = "missing" =>
    \A f \in asked.named \cup asked.related : walked[f] = NoFile

\* A plan creates nothing under the path it was asked about that was there,
\* and the deterministic plan nothing of which a match was there when listed.
CreateIsNew ==
  plan.action = "create" =>
    /\ plan.path # NoFile /\ plan.path = asked.path =>
         plan.path[1] \notin onDisk
    /\ plan.by = "fallback" =>
         \A f \in asked.named \cup asked.related : walked[f] = NoFile

\* The planner is not told that something is missing which was there, nor
\* plans to create what it was asked about and was there.  (existence.py,
\* planning.py:94-140)
PlanFitsTree == MissingIsMissing /\ CreateIsNew

=============================================================================
