---------------------------- MODULE AgentProofs ----------------------------
(***************************************************************************)
(* What the parts of the agent keep true for every repository, project and *)
(* conversation: the memory of a repository and the plan made from it      *)
(* (src/skytrap/intelligence, src/skytrap/autonomy/planning.py), the       *)
(* evidence a task completes on (autonomy/loop.py, review.py) and what is  *)
(* handed on from one turn of a conversation to the next                   *)
(* (conversation.py).  The parts share no state, so each has an invariant  *)
(* of its own.                                                             *)
(***************************************************************************)
EXTENDS RepositoryMemory, TaskVerification, Conversation,
        SequenceTheorems, FiniteSetTheorems, TLAPS

-----------------------------------------------------------------------------
(* What is known of the repository *)

Parsed == [Keys -> Contents \cup {NoFile}]
Planning == {"checked", "planned"}
Asking == {"walked", "headed", "stamped", "loaded"} \cup Planning

\* Of a clean commit, what is remembered as exact is what a build gives.
RightIn(made, fingerprint, parsed, isExact) ==
  ~fingerprint[2] /\ isExact =>
    /\ fingerprint[1] \in DOMAIN made
    /\ parsed = Build(made[fingerprint[1]]).byFile

RightOf(fingerprint, parsed, isExact) ==
  isGit => RightIn(commits, fingerprint, parsed, isExact)

MemTypeOK ==
  /\ isGit \in BOOLEAN
  /\ tree \in Trees
  /\ commits \in Seq(Trees)
  /\ head \in DOMAIN commits
  /\ index.byFile \in Parsed
  /\ memory # NoMemory => memory.parsed \in Parsed
  /\ edited \in [Files -> Spellings \cup {""}]

\* The index is always the one that restoring its files would give.
IndexIsWhole == index = RestoreFrom(index.byFile)

EditsAreIndexed ==
  \A f \in Files : edited[f] # "" =>
    stage = "running" /\ index.byFile[<<f, edited[f]>>] = tree[f]

\* What is saved, about to be saved or restored is right, and what was
\* restored is what is saved under the stamp of the task.
MemoryIsRight ==
  /\ memory # NoMemory =>
       RightOf(memory.fingerprint, memory.parsed, memory.exact)
  /\ stage = "restamped" => RightOf(stamp, index.byFile, exact)
  /\ stage = "loaded" /\ hit => /\ memory # NoMemory
                                /\ memory.fingerprint = stamp
                                /\ index.byFile = memory.parsed

\* What is asked, listed and planned goes together.
AskedIsListed ==
  /\ stage \in Asking => listing = WalkFiles(walked) /\ asked \in Queries
                         /\ walked \in Trees
  /\ stage \notin Planning => evidence = NoEvidence
  /\ stage # "planned" => plan = NoPlan
  /\ stage \in Planning /\ asked.path # NoFile /\ asked.path[1] \in onDisk =>
       evidence = Evidence("exists", {asked.path})

MemInv == /\ MemTypeOK /\ IndexIsWhole /\ EditsAreIndexed /\ MemoryIsRight
          /\ AskedIsListed /\ PlanFitsTree

-----------------------------------------------------------------------------
(* The index *)

LEMMA EmptyIsWhole == /\ EmptyIndex.byFile \in Parsed
                      /\ EmptyIndex = RestoreFrom(EmptyIndex.byFile)
BY DEF EmptyIndex, Parsed, RestoreFrom

LEMMA RestoredIsWhole ==
  ASSUME NEW p \in Parsed
  PROVE  /\ RestoreFrom(p).byFile = p
         /\ RestoreFrom(p) = RestoreFrom(RestoreFrom(p).byFile)
BY DEF RestoreFrom

LEMMA BuiltIsWhole ==
  ASSUME NEW disk \in Trees
  PROVE  /\ Build(disk).byFile \in Parsed
         /\ Build(disk) = RestoreFrom(Build(disk).byFile)
<1> DEFINE taken == {f \in Files :
                       Cardinality({g \in 1..f : disk[g] # NoFile})
                         <= MaxIndexed}
           p == [k \in Keys |->
                   IF k[2] = "plain" /\ k[1] \in taken /\ disk[k[1]] # Opaque
                   THEN disk[k[1]] ELSE NoFile]
<1>1. Build(disk) = RestoreFrom(p) BY DEF Build
<1>2. p \in Parsed BY DEF Parsed, Keys, Trees
<1> HIDE DEF p
<1>3. QED BY <1>1, <1>2, RestoredIsWhole

\* Removing a key from a restored index gives the index restored without it.
LEMMA RemovedIsWhole ==
  ASSUME NEW p \in Parsed, NEW key \in Keys
  PROVE  RemoveFile(RestoreFrom(p), key)
           = RestoreFrom([p EXCEPT ![key] = NoFile])
<1> DEFINE q == [p EXCEPT ![key] = NoFile]
           b == RestoreFrom(p).byName
<1>0. /\ RestoreFrom(p).byFile = p
      /\ q \in Parsed
      /\ q[key] = NoFile
      /\ \A k \in Keys \ {key} : q[k] = p[k]
  BY DEF Parsed, RestoreFrom
<1>1. CASE p[key] = NoFile
  <2>1. q = p BY <1>1 DEF Parsed
  <2>2. QED BY <1>0, <1>1, <2>1 DEF RemoveFile
<1>2. CASE p[key] # NoFile
  <2>1. RemoveFile(RestoreFrom(p), key)
          = [byFile |-> q,
             byName |-> [s \in Symbols |-> [b[s] EXCEPT ![key] = 0]]]
    BY <1>0, <1>2 DEF RemoveFile
  <2>2. ASSUME NEW s \in Symbols
        PROVE  [b[s] EXCEPT ![key] = 0]
                 = [k \in Keys |-> IF q[k] # NoFile /\ s \in q[k]
                                   THEN 1 ELSE 0]
    <3>1. b[s] = [k \in Keys |-> IF p[k] # NoFile /\ s \in p[k]
                                 THEN 1 ELSE 0]
      BY DEF RestoreFrom
    <3>2. QED BY <3>1, <1>0
  <2>3. RestoreFrom(q)
          = [byFile |-> q,
             byName |-> [s \in Symbols |-> [k \in Keys |->
                           IF q[k] # NoFile /\ s \in q[k] THEN 1 ELSE 0]]]
    BY DEF RestoreFrom
  <2> HIDE DEF b, q
  <2>4. [s \in Symbols |-> [b[s] EXCEPT ![key] = 0]]
          = [s \in Symbols |-> [k \in Keys |->
               IF q[k] # NoFile /\ s \in q[k] THEN 1 ELSE 0]]
    BY <2>2
  <2>5. QED BY <2>1, <2>3, <2>4 DEF q
<1>3. QED BY <1>1, <1>2

\* Adding a file that is not indexed gives the index restored with it.
LEMMA AddedIsWhole ==
  ASSUME NEW p \in Parsed, NEW key \in Keys, p[key] = NoFile,
         NEW content \in SUBSET Symbols
  PROVE  AddParsed(RestoreFrom(p), key, content)
           = RestoreFrom([p EXCEPT ![key] = content])
<1> DEFINE q == [p EXCEPT ![key] = content]
           b == RestoreFrom(p).byName
           added(s) == IF s \in content THEN [b[s] EXCEPT ![key] = @ + 1]
                       ELSE b[s]
<1>0. /\ RestoreFrom(p).byFile = p
      /\ q[key] = content /\ content # NoFile
      /\ \A k \in Keys \ {key} : q[k] = p[k]
  BY MemoryAssumption DEF Parsed, RestoreFrom, MemoryAssumption
<1>1. AddParsed(RestoreFrom(p), key, content)
        = [byFile |-> q, byName |-> [s \in Symbols |-> added(s)]]
  BY <1>0 DEF AddParsed
<1>2. ASSUME NEW s \in Symbols
      PROVE  added(s) = [k \in Keys |-> IF q[k] # NoFile /\ s \in q[k]
                                        THEN 1 ELSE 0]
  <2>1. b[s] = [k \in Keys |-> IF p[k] # NoFile /\ s \in p[k]
                               THEN 1 ELSE 0]
    BY DEF RestoreFrom
  <2>2. b[s][key] = 0 BY <2>1
  <2>3. CASE s \in content
    <3>1. added(s) = [b[s] EXCEPT ![key] = 1] BY <2>2, <2>3
    <3>2. QED BY <3>1, <2>1, <2>3, <1>0
  <2>4. CASE s \notin content BY <2>1, <2>4, <1>0
  <2>5. QED BY <2>3, <2>4
<1>3. RestoreFrom(q)
        = [byFile |-> q,
           byName |-> [s \in Symbols |-> [k \in Keys |->
                         IF q[k] # NoFile /\ s \in q[k] THEN 1 ELSE 0]]]
  BY DEF RestoreFrom
<1> HIDE DEF added, q
<1>4. [s \in Symbols |-> added(s)]
        = [s \in Symbols |-> [k \in Keys |->
             IF q[k] # NoFile /\ s \in q[k] THEN 1 ELSE 0]]
  BY <1>2
<1>5. QED BY <1>1, <1>3, <1>4 DEF q

LEMMA UpdatedIsWhole ==
  ASSUME NEW p \in Parsed, NEW key \in Keys, NEW disk,
         disk[key[1]] \in SUBSET Symbols
  PROVE  UpdateFile(RestoreFrom(p), key, disk)
           = RestoreFrom([p EXCEPT ![key] = disk[key[1]]])
<1> DEFINE q == [p EXCEPT ![key] = NoFile]
           c == disk[key[1]]
<1>1. /\ q \in Parsed /\ q[key] = NoFile
      /\ [q EXCEPT ![key] = c] = [p EXCEPT ![key] = c]
  BY DEF Parsed
<1>2. c \notin {NoFile, Opaque}
  BY MemoryAssumption DEF MemoryAssumption
<1>3. UpdateFile(RestoreFrom(p), key, disk)
        = AddParsed(RemoveFile(RestoreFrom(p), key), key, c)
  BY <1>2 DEF UpdateFile
<1> HIDE DEF q, c
<1>4. RemoveFile(RestoreFrom(p), key) = RestoreFrom(q)
  BY RemovedIsWhole DEF q
<1>5. c \in SUBSET Symbols BY DEF c
<1>6. AddParsed(RestoreFrom(q), key, c) = RestoreFrom([q EXCEPT ![key] = c])
  BY <1>1, <1>5, AddedIsWhole
<1>7. QED BY <1>1, <1>3, <1>4, <1>6 DEF c

-----------------------------------------------------------------------------
(* The listing *)

\* A listing that is not cut short names every file that is there.
LEMMA WholeListing ==
  ASSUME NEW disk \in Trees, ~WalkFiles(disk).truncated,
         NEW f \in Files, disk[f] # NoFile
  PROVE  f \in WalkFiles(disk).files
<1> DEFINE present == {k \in DOMAIN WalkOrder : disk[WalkOrder[k]] # NoFile}
<1>1. /\ WalkFiles(disk).files =
           {WalkOrder[k] : k \in {j \in present :
              Cardinality(present \cap 1..j) <= MaxFiles}}
      /\ WalkFiles(disk).truncated <=> Cardinality(present) >= MaxFiles
  BY DEF WalkFiles
<1>2. PICK k \in DOMAIN WalkOrder : f = WalkOrder[k]
  BY MemoryAssumption DEF MemoryAssumption
<1>3. k \in present BY <1>2
<1>4. IsFiniteSet(present)
  <2>1. DOMAIN WalkOrder = 1..Len(WalkOrder) /\ Len(WalkOrder) \in Nat
    BY MemoryAssumption DEF MemoryAssumption
  <2>2. IsFiniteSet(1..Len(WalkOrder)) BY <2>1, FS_Interval
  <2>3. QED BY <2>1, <2>2, FS_Subset
<1>5. MaxFiles \in Nat BY MemoryAssumption DEF MemoryAssumption
<1> HIDE DEF present
<1>6. /\ Cardinality(present) \in Nat
      /\ Cardinality(present \cap 1..k) \in Nat
      /\ Cardinality(present \cap 1..k) <= Cardinality(present)
  <2>1. present \cap 1..k \in SUBSET present OBVIOUS
  <2>2. QED BY <2>1, <1>4, FS_Subset, FS_CardinalityType
<1>7. Cardinality(present \cap 1..k) <= MaxFiles
  BY <1>1, <1>5, <1>6
<1>8. QED BY <1>1, <1>2, <1>3, <1>7

-----------------------------------------------------------------------------
(* The steps *)

LEMMA RightLater ==
  ASSUME NEW made \in Seq(Trees), NEW t, NEW fp, NEW p, NEW e,
         RightIn(made, fp, p, e)
  PROVE  RightIn(Append(made, t), fp, p, e)
<1>1. /\ DOMAIN made = 1..Len(made)
      /\ DOMAIN Append(made, t) = 1..(Len(made) + 1)
      /\ Len(made) \in Nat
      /\ \A i \in 1..Len(made) : Append(made, t)[i] = made[i]
  OBVIOUS
<1>2. QED BY <1>1 DEF RightIn

LEMMA NewestCommit ==
  ASSUME NEW made \in Seq(Trees), NEW t \in Trees
  PROVE  /\ Append(made, t) \in Seq(Trees)
         /\ Len(Append(made, t)) \in DOMAIN Append(made, t)
OBVIOUS

LEMMA CommitIsTree ==
  ASSUME NEW made \in Seq(Trees), NEW h \in DOMAIN made
  PROVE  made[h] \in Trees
OBVIOUS

LEMMA MemStart == MemInit => MemInv
<1> SUFFICES ASSUME MemInit PROVE MemInv
  OBVIOUS
<1>1. MemTypeOK
  <2>1. tree \in Trees BY DEF MemInit, Trees, Contents
  <2>2. <<tree>> \in Seq(Trees) /\ 1 \in DOMAIN <<tree>> BY <2>1
  <2>3. QED BY <2>1, <2>2, EmptyIsWhole DEF MemInit, MemTypeOK, NoEdit
<1>2. IndexIsWhole BY EmptyIsWhole DEF MemInit, IndexIsWhole
<1>3. EditsAreIndexed BY DEF MemInit, EditsAreIndexed, NoEdit
<1>4. MemoryIsRight BY DEF MemInit, MemoryIsRight
<1>5. AskedIsListed BY DEF MemInit, AskedIsListed, Asking, Planning
<1>6. PlanFitsTree
  BY DEF MemInit, PlanFitsTree, MissingIsMissing, CreateIsNew, NoEvidence,
         Evidence, NoPlan, FileAction
<1>7. QED BY <1>1, <1>2, <1>3, <1>4, <1>5, <1>6 DEF MemInv

\* A step that leaves the index, the memory and what was asked alone.
LEMMA OthersStep ==
  ASSUME MemInv,
         \/ \E f \in Files : Edit(f)
         \/ UserCommits \/ UserSwitches
  PROVE  MemInv'
<1> USE DEF MemInv
<1>1. /\ UNCHANGED <<isGit, stage, snapshot, index, hit, thought, memory,
                     exact>>
      /\ tree' \in Trees
      /\ commits' \in Seq(Trees) /\ head' \in DOMAIN commits'
      /\ \/ commits' = commits
         \/ \E t \in Trees : commits' = Append(commits, t)
      /\ edited' \in [Files -> Spellings \cup {""}]
      /\ \A f \in Files : edited'[f] # "" => /\ edited'[f] = edited[f]
                                             /\ tree'[f] = tree[f]
  <2>1. CASE \E f \in Files : Edit(f)
    <3>1. PICK f \in Files : Edit(f) BY <2>1
    <3>2. PICK c \in Contents \cup {NoFile} : tree' = [tree EXCEPT ![f] = c]
      BY <3>1 DEF Edit
    <3>3. tree' \in Trees BY <3>2 DEF MemTypeOK, Trees
    <3>4. \A g \in Files \ {f} : tree'[g] = tree[g]
      BY <3>2 DEF MemTypeOK, Trees
    <3>5. edited' = [edited EXCEPT ![f] = ""] BY <3>1 DEF Edit
    <3>6. /\ edited' \in [Files -> Spellings \cup {""}]
          /\ edited'[f] = ""
          /\ \A g \in Files \ {f} : edited'[g] = edited[g]
      BY <3>5 DEF MemTypeOK
    <3>7. UNCHANGED <<isGit, commits, head, stage, snapshot, index, hit,
                      thought, memory, exact>>
      BY <3>1 DEF Edit
    <3>8. QED BY <3>3, <3>4, <3>6, <3>7 DEF MemTypeOK
  <2>2. CASE UserCommits
    <3>1. /\ commits' = Append(commits, tree) /\ head' = Len(commits')
          /\ UNCHANGED <<isGit, tree, stage, snapshot, index, hit, thought,
                         memory, exact, edited>>
      BY <2>2 DEF UserCommits
    <3>2. QED BY <3>1, NewestCommit DEF MemTypeOK
  <2>3. CASE UserSwitches
    <3>1. /\ UNCHANGED <<isGit, commits, stage, snapshot, index, hit, thought,
                         memory, exact, edited>>
          /\ head' \in DOMAIN commits /\ tree' = commits[head']
          /\ stage = "idle"
      BY <2>3 DEF UserSwitches
    <3>2. \A f \in Files : edited[f] = "" BY <3>1 DEF EditsAreIndexed
    <3>3. tree' \in Trees BY <3>1, CommitIsTree DEF MemTypeOK
    <3>4. QED BY <3>1, <3>2, <3>3 DEF MemTypeOK
  <2>4. QED BY <2>1, <2>2, <2>3
<1>2. /\ UNCHANGED <<stage, listing, stamp, walked, index, hit, asked,
                     evidence, onDisk, plan, memory, exact, isGit>>
  BY <1>1 DEF snapshot, thought
<1>3. MemTypeOK' BY <1>1, <1>2 DEF MemTypeOK
<1>4. IndexIsWhole' BY <1>2 DEF IndexIsWhole, RestoreFrom
<1>5. EditsAreIndexed' BY <1>1, <1>2 DEF EditsAreIndexed
<1>6. MemoryIsRight'
  <2>1. \A fp, p, e : RightIn(commits, fp, p, e)
                        => RightIn(commits', fp, p, e)
    BY <1>1, RightLater DEF MemTypeOK
  <2>2. QED BY <1>2, <2>1 DEF MemoryIsRight, RightOf
<1>7. AskedIsListed'
  BY <1>2 DEF AskedIsListed, Asking, Planning, WalkFiles
<1>8. PlanFitsTree'
  BY <1>2 DEF PlanFitsTree, MissingIsMissing, CreateIsNew
<1>9. QED BY <1>3, <1>4, <1>5, <1>6, <1>7, <1>8

\* A step of the task that leaves the repository alone, outside its run.
LEMMA QuietStep ==
  ASSUME MemInv, UNCHANGED repo,
         \/ edited' = NoEdit
         \/ stage # "running" /\ edited' = edited,
         index'.byFile \in Parsed, index' = RestoreFrom(index'.byFile),
         memory' # NoMemory => memory'.parsed \in Parsed
  PROVE  MemTypeOK' /\ IndexIsWhole' /\ EditsAreIndexed'
<1>1. edited' \in [Files -> Spellings \cup {""}]
      /\ \A f \in Files : edited'[f] = ""
  BY DEF MemInv, MemTypeOK, EditsAreIndexed, NoEdit
<1>2. MemTypeOK' BY <1>1 DEF MemInv, MemTypeOK, repo
<1>3. IndexIsWhole' BY DEF IndexIsWhole, RestoreFrom
<1>4. EditsAreIndexed' BY <1>1 DEF EditsAreIndexed
<1>5. QED BY <1>2, <1>3, <1>4

LEMMA StartStep ==
  ASSUME MemInv, StartTask
  PROVE  MemInv'
<1>1. /\ stage = "idle" /\ stage' = "walked"
      /\ listing' = WalkFiles(tree) /\ walked' = tree
      /\ asked' \in Queries
      /\ UNCHANGED <<repo, index, evidence, plan, memory, edited>>
  BY DEF StartTask, Walk
<1>2. MemTypeOK' /\ IndexIsWhole' /\ EditsAreIndexed'
  <2>1. /\ index'.byFile \in Parsed /\ index' = RestoreFrom(index'.byFile)
        /\ memory' # NoMemory => memory'.parsed \in Parsed
    BY <1>1 DEF MemInv, MemTypeOK, IndexIsWhole
  <2>2. QED BY <1>1, <2>1, QuietStep
<1>3. MemoryIsRight'
  BY <1>1 DEF MemInv, MemoryIsRight, RightOf, RightIn, repo, Build
<1>4. evidence = NoEvidence /\ plan = NoPlan
  BY <1>1 DEF MemInv, AskedIsListed, Planning
<1>5. AskedIsListed'
  BY <1>1, <1>4 DEF MemInv, MemTypeOK, AskedIsListed, Planning, WalkFiles
<1>6. PlanFitsTree'
  BY <1>1, <1>4 DEF PlanFitsTree, MissingIsMissing, CreateIsNew, NoEvidence,
                    Evidence, NoPlan, FileAction
<1>7. QED BY <1>2, <1>3, <1>5, <1>6 DEF MemInv

LEMMA StampStep ==
  ASSUME MemInv, StampHead \/ Stamp
  PROVE  MemInv'
<1>1. /\ stage \in {"walked", "headed"} /\ stage' \in {"headed", "stamped"}
      /\ UNCHANGED <<repo, listing, walked, index, asked, evidence, onDisk,
                     plan, memory, edited>>
  BY DEF StampHead, Stamp, thought
<1>2. MemTypeOK' /\ IndexIsWhole' /\ EditsAreIndexed'
  <2>1. /\ index'.byFile \in Parsed /\ index' = RestoreFrom(index'.byFile)
        /\ memory' # NoMemory => memory'.parsed \in Parsed
    BY <1>1 DEF MemInv, MemTypeOK, IndexIsWhole
  <2>2. QED BY <1>1, <2>1, QuietStep
<1>3. MemoryIsRight'
  BY <1>1 DEF MemInv, MemoryIsRight, RightOf, RightIn, repo, Build
<1>4. AskedIsListed'
  BY <1>1 DEF MemInv, AskedIsListed, Asking, Planning, WalkFiles
<1>5. PlanFitsTree'
  BY <1>1 DEF MemInv, PlanFitsTree, MissingIsMissing, CreateIsNew
<1>6. QED BY <1>2, <1>3, <1>4, <1>5 DEF MemInv

LEMMA LoadStep ==
  ASSUME MemInv, LoadOrBuild
  PROVE  MemInv'
<1>1. /\ stage = "stamped" /\ stage' = "loaded"
      /\ UNCHANGED <<repo, listing, stamp, walked, asked, evidence, onDisk,
                     plan, memory, exact, edited>>
  BY DEF LoadOrBuild, thought, snapshot
<1>2. \/ /\ memory # NoMemory /\ memory.fingerprint = stamp
         /\ index' = RestoreFrom(memory.parsed)
      \/ index' = Build(tree) /\ ~hit'
  BY DEF LoadOrBuild, LoadIfCurrent
<1>3. /\ tree \in Trees
      /\ memory # NoMemory => memory.parsed \in Parsed
  BY DEF MemInv, MemTypeOK
<1>4. /\ index'.byFile \in Parsed
      /\ index' = RestoreFrom(index'.byFile)
      /\ hit' => /\ memory # NoMemory /\ memory.fingerprint = stamp
                 /\ index'.byFile = memory.parsed
  <2>1. CASE /\ memory # NoMemory /\ memory.fingerprint = stamp
             /\ index' = RestoreFrom(memory.parsed)
    BY <1>3, <2>1, RestoredIsWhole
  <2>2. CASE index' = Build(tree) /\ ~hit'
    BY <1>3, <2>2, BuiltIsWhole
  <2>3. QED BY <1>2, <2>1, <2>2
<1>5. MemTypeOK' /\ IndexIsWhole' /\ EditsAreIndexed'
  BY <1>1, <1>3, <1>4, QuietStep
<1>6. MemoryIsRight'
  BY <1>1, <1>4 DEF MemInv, MemoryIsRight, RightOf, RightIn, repo, Build
<1>7. AskedIsListed'
  BY <1>1 DEF MemInv, AskedIsListed, Asking, Planning, WalkFiles
<1>8. PlanFitsTree'
  BY <1>1 DEF MemInv, PlanFitsTree, MissingIsMissing, CreateIsNew
<1>9. QED BY <1>5, <1>6, <1>7, <1>8 DEF MemInv

\* What is said to be missing was neither listed nor cut off the listing.
LEMMA MissingIsUnlisted ==
  ASSUME NEW q, NEW names, NEW ripgrep, NEW strong,
         CheckExistence(q, names, ripgrep, strong).status = "missing"
  PROVE  /\ ~listing.truncated
         /\ (q.named \cup q.related) \cap listing.files = {}
BY DEF CheckExistence, SearchText, Evidence

LEMMA CheckStep ==
  ASSUME MemInv, Check
  PROVE  MemInv'
<1>1. /\ stage = "loaded" /\ stage' = "checked"
      /\ UNCHANGED <<repo, listing, walked, index, asked, plan, memory,
                     edited>>
      /\ onDisk' = {f \in Files : tree[f] # NoFile}
  BY DEF Check, snapshot
<1>2. PICK ripgrep \in BOOLEAN, strong \in BOOLEAN :
        evidence' = CheckExistence(asked, AllNames(index), ripgrep, strong)
  BY DEF Check
<1>3. /\ listing = WalkFiles(walked) /\ walked \in Trees
      /\ asked \in Queries /\ plan = NoPlan
  BY <1>1 DEF MemInv, AskedIsListed, Asking
<1>4. MemTypeOK' /\ IndexIsWhole' /\ EditsAreIndexed'
  <2>1. /\ index'.byFile \in Parsed /\ index' = RestoreFrom(index'.byFile)
        /\ memory' # NoMemory => memory'.parsed \in Parsed
    BY <1>1 DEF MemInv, MemTypeOK, IndexIsWhole
  <2>2. QED BY <1>1, <2>1, QuietStep
<1>5. MemoryIsRight'
  BY <1>1 DEF MemInv, MemoryIsRight, RightOf, RightIn, repo, Build
<1>6. asked.path # NoFile /\ asked.path[1] \in onDisk' =>
        evidence' = Evidence("exists", {asked.path})
  BY <1>1, <1>2 DEF CheckExistence
<1>7. AskedIsListed'
  BY <1>1, <1>3, <1>6 DEF AskedIsListed, Planning, WalkFiles
<1>8. MissingIsMissing'
  <2>1. SUFFICES ASSUME evidence'.status = "missing",
                        NEW f \in asked.named \cup asked.related
                 PROVE  walked[f] = NoFile
    BY <1>1 DEF MissingIsMissing
  <2>2. ~listing.truncated /\ f \notin listing.files
    BY <1>2, <2>1, MissingIsUnlisted
  <2>3. f \in Files
    BY <1>3, <2>1, MemoryAssumption DEF MemoryAssumption
  <2>4. QED BY <1>3, <2>2, <2>3, WholeListing
<1>9. CreateIsNew'
  BY <1>1, <1>3 DEF CreateIsNew, NoPlan, FileAction
<1>10. QED BY <1>4, <1>5, <1>7, <1>8, <1>9 DEF MemInv, PlanFitsTree

LEMMA PlanStep ==
  ASSUME MemInv, CreatePlan
  PROVE  MemInv'
<1>1. /\ stage = "checked" /\ stage' = "planned"
      /\ UNCHANGED <<repo, listing, walked, index, asked, evidence, onDisk,
                     memory, edited>>
  BY DEF CreatePlan, snapshot
<1>2. /\ listing = WalkFiles(walked) /\ walked \in Trees
      /\ asked \in Queries
      /\ asked.path # NoFile /\ asked.path[1] \in onDisk =>
           evidence = Evidence("exists", {asked.path})
  BY <1>1 DEF MemInv, AskedIsListed, Asking, Planning
<1>3. MemTypeOK' /\ IndexIsWhole' /\ EditsAreIndexed'
  <2>1. /\ index'.byFile \in Parsed /\ index' = RestoreFrom(index'.byFile)
        /\ memory' # NoMemory => memory'.parsed \in Parsed
    BY <1>1 DEF MemInv, MemTypeOK, IndexIsWhole
  <2>2. QED BY <1>1, <2>1, QuietStep
<1>4. MemoryIsRight'
  BY <1>1 DEF MemInv, MemoryIsRight, RightOf, RightIn, repo, Build
<1>5. AskedIsListed'
  BY <1>1, <1>2 DEF AskedIsListed, Planning, WalkFiles
<1>6. MissingIsMissing'
  BY <1>1 DEF MemInv, PlanFitsTree, MissingIsMissing
<1>7. CreateIsNew'
  <2>1. SUFFICES ASSUME plan'.action = "create"
                 PROVE  /\ plan'.path # NoFile /\ plan'.path = asked.path =>
                             plan'.path[1] \notin onDisk
                        /\ plan'.by = "fallback" =>
                             \A f \in asked.named \cup asked.related :
                               walked[f] = NoFile
    BY <1>1 DEF CreateIsNew
  <2>2. PICK a, detected :
          /\ plan' = ReconcileDuplication(a, detected)
          /\ \/ \E k \in Planned, action \in {"create", "modify"} :
                  a = ReconcileFileActions(FileAction(k, action, "model"))
             \/ a \in FallbackActions
    <3>1. plan' # NoPlan BY <2>1 DEF NoPlan, FileAction
    <3>2. CASE \E k \in Planned, action \in {"create", "modify"} :
                 \E detected \in Detections(k) :
                   plan' = ReconcileDuplication(
                             ReconcileFileActions(
                               FileAction(k, action, "model")), detected)
      BY <3>2
    <3>3. CASE \E a \in FallbackActions :
                 \E detected \in Detections(a.path) :
                   plan' = ReconcileDuplication(a, detected)
      BY <3>3
    <3>4. QED BY <3>1, <3>2, <3>3 DEF CreatePlan
  <2>3. a = plan'
    BY <2>1, <2>2 DEF ReconcileDuplication, FileAction
  <2>4. CASE a \in FallbackActions
    <3>1. evidence.status = "missing" /\ a.path = asked.path
      BY <2>1, <2>3, <2>4 DEF FallbackActions, FileAction
    <3>2. \A f \in asked.named \cup asked.related : walked[f] = NoFile
      BY <3>1 DEF MemInv, PlanFitsTree, MissingIsMissing
    <3>3. QED BY <1>2, <2>3, <3>1, <3>2 DEF Evidence
  <2>5. CASE \E k \in Planned, action \in {"create", "modify"} :
               a = ReconcileFileActions(FileAction(k, action, "model"))
    <3>1. a.by = "model"
      BY <2>5 DEF ReconcileFileActions, FileAction
    <3>2. ASSUME a.path # NoFile, a.path = asked.path, a.path[1] \in onDisk
          PROVE  FALSE
      <4>1. evidence.status = "exists" /\ evidence.files = {a.path}
        BY <1>2, <3>2 DEF Evidence
      <4>2. a.action = "create" BY <2>1, <2>3
      <4>3. QED
        BY <2>5, <4>1, <4>2 DEF ReconcileFileActions, FileAction, Found
    <3>3. QED BY <2>3, <3>1, <3>2
  <2>6. QED BY <2>2, <2>4, <2>5
<1>8. QED BY <1>3, <1>4, <1>5, <1>6, <1>7 DEF MemInv, PlanFitsTree

LEMMA LoopStep ==
  ASSUME MemInv, StartLoop
  PROVE  MemInv'
<1>1. /\ stage \in Planning /\ stage' = "running"
      /\ evidence' = NoEvidence /\ plan' = NoPlan
      /\ UNCHANGED <<repo, index, memory, edited>>
  BY DEF StartLoop, Unasked, Planning
<1>2. MemTypeOK' /\ IndexIsWhole' /\ EditsAreIndexed'
  <2>1. /\ index'.byFile \in Parsed /\ index' = RestoreFrom(index'.byFile)
        /\ memory' # NoMemory => memory'.parsed \in Parsed
    BY <1>1 DEF MemInv, MemTypeOK, IndexIsWhole
  <2>2. QED BY <1>1, <2>1, QuietStep DEF Planning
<1>3. MemoryIsRight'
  BY <1>1 DEF MemInv, MemoryIsRight, RightOf, RightIn, repo, Build
<1>4. AskedIsListed' BY <1>1 DEF AskedIsListed, Asking, Planning
<1>5. PlanFitsTree'
  BY <1>1 DEF PlanFitsTree, MissingIsMissing, CreateIsNew, NoEvidence,
              Evidence, NoPlan, FileAction
<1>6. QED BY <1>2, <1>3, <1>4, <1>5 DEF MemInv

\* A tool changes a file, and the index as it should.
LEMMA ToolStep ==
  ASSUME MemInv, NEW f \in Files, NEW spelling \in Spellings,
         NEW content \in (SUBSET Symbols) \cup {NoFile}, NEW ix,
         ToolEdits(f, spelling, content, ix),
         ix = RestoreFrom([index.byFile EXCEPT ![<<f, spelling>>] = content])
  PROVE  MemInv'
<1> DEFINE key == <<f, spelling>>
           p == [index.byFile EXCEPT ![key] = content]
<1>1. /\ stage = "running" /\ stage' = "running"
      /\ tree' = [tree EXCEPT ![f] = content]
      /\ index' = RestoreFrom(p)
      /\ edited' = [edited EXCEPT ![f] = spelling]
      /\ UNCHANGED <<isGit, commits, head, listing, walked, asked, evidence,
                     onDisk, plan, memory>>
  BY DEF ToolEdits, snapshot, thought
<1>2. /\ tree \in Trees /\ index.byFile \in Parsed
      /\ edited \in [Files -> Spellings \cup {""}]
      /\ key \in Keys
  BY DEF MemInv, MemTypeOK, Keys
<1>3. /\ p \in Parsed /\ p[key] = content
      /\ \A k \in Keys \ {key} : p[k] = index.byFile[k]
  BY <1>2 DEF Parsed, Contents
<1>4. index'.byFile = p /\ index' = RestoreFrom(index'.byFile)
  BY <1>1, <1>3, RestoredIsWhole
<1>5. MemTypeOK'
  <2>1. tree' \in Trees BY <1>1, <1>2 DEF Trees, Contents
  <2>2. edited' \in [Files -> Spellings \cup {""}] BY <1>1, <1>2
  <2>3. QED BY <1>1, <1>3, <1>4, <2>1, <2>2 DEF MemInv, MemTypeOK
<1>6. IndexIsWhole' BY <1>4 DEF IndexIsWhole, RestoreFrom
<1>7. EditsAreIndexed'
  <2>1. SUFFICES ASSUME NEW g \in Files, edited'[g] # ""
                 PROVE  p[<<g, edited'[g]>>] = tree'[g]
    BY <1>1, <1>4 DEF EditsAreIndexed
  <2>2. CASE g = f
    <3>1. edited'[g] = spelling /\ tree'[g] = content
      BY <1>1, <1>2, <2>2 DEF Trees
    <3>2. QED BY <1>3, <2>2, <3>1
  <2>3. CASE g # f
    <3>1. edited'[g] = edited[g] /\ tree'[g] = tree[g]
      BY <1>1, <1>2, <2>3 DEF Trees
    <3>2. index.byFile[<<g, edited[g]>>] = tree[g]
      BY <2>1, <3>1 DEF MemInv, EditsAreIndexed
    <3>3. /\ <<g, edited[g]>> \in Keys
          /\ <<g, edited[g]>> # key
      BY <1>2, <2>1, <2>3, <3>1 DEF Keys
    <3>4. QED BY <1>3, <3>1, <3>2, <3>3
  <2>4. QED BY <2>2, <2>3
<1>8. MemoryIsRight'
  BY <1>1 DEF MemInv, MemoryIsRight, RightOf, RightIn, Build
<1>9. AskedIsListed'
  BY <1>1 DEF MemInv, AskedIsListed, Asking, Planning, WalkFiles
<1>10. PlanFitsTree'
  BY <1>1 DEF MemInv, PlanFitsTree, MissingIsMissing, CreateIsNew
<1>11. QED BY <1>5, <1>6, <1>7, <1>8, <1>9, <1>10 DEF MemInv

LEMMA WriteStep ==
  ASSUME MemInv, NEW f \in Files, NEW spelling \in Spellings,
         WriteFile(f, spelling)
  PROVE  MemInv'
<1> DEFINE key == <<f, spelling>>
           disk(c) == [tree EXCEPT ![f] = c]
<1>1. PICK c \in SUBSET Symbols :
        ToolEdits(f, spelling, c, UpdateFile(index, key, disk(c)))
  BY DEF WriteFile
<1>2. /\ key \in Keys /\ key[1] = f
      /\ disk(c)[f] = c
      /\ index.byFile \in Parsed
      /\ index = RestoreFrom(index.byFile)
  BY DEF MemInv, MemTypeOK, IndexIsWhole, Keys, Trees
<1>3. UpdateFile(index, key, disk(c))
        = RestoreFrom([index.byFile EXCEPT ![key] = c])
  <2> DEFINE d == disk(c)
             p == index.byFile
  <2>1. d[key[1]] = c BY <1>2
  <2> HIDE DEF d, p, key
  <2>2. UpdateFile(RestoreFrom(p), key, d)
          = RestoreFrom([p EXCEPT ![key] = d[key[1]]])
    BY <1>2, <2>1, UpdatedIsWhole DEF p
  <2>3. QED BY <1>2, <2>1, <2>2 DEF p, d
<1>4. QED BY <1>1, <1>3, ToolStep

LEMMA DeleteStep ==
  ASSUME MemInv, NEW f \in Files, NEW spelling \in Spellings,
         DeleteFile(f, spelling)
  PROVE  MemInv'
<1> DEFINE key == <<f, spelling>>
<1>1. ToolEdits(f, spelling, NoFile, RemoveFile(index, key))
  BY DEF DeleteFile
<1>2. RemoveFile(index, key)
        = RestoreFrom([index.byFile EXCEPT ![key] = NoFile])
  <2>1. /\ key \in Keys /\ index.byFile \in Parsed
        /\ index = RestoreFrom(index.byFile)
    BY DEF MemInv, MemTypeOK, IndexIsWhole, Keys
  <2>2. RemoveFile(RestoreFrom(index.byFile), key)
          = RestoreFrom([index.byFile EXCEPT ![key] = NoFile])
    BY <2>1, RemovedIsWhole
  <2>3. QED BY <2>1, <2>2
<1>3. QED BY <1>1, <1>2, ToolStep

LEMMA CompleteStep ==
  ASSUME MemInv, Complete
  PROVE  MemInv'
<1> DEFINE sealed == [f \in Files |-> IF f \in touched THEN tree[f]
                                      ELSE commits[head][f]]
<1>1. /\ stage = "running" /\ stage' = "completed"
      /\ edited' = NoEdit /\ evidence' = NoEvidence /\ plan' = NoPlan
      /\ UNCHANGED <<isGit, tree, index, memory>>
      /\ \/ commits' = Append(commits, sealed) /\ head' = Len(commits')
         \/ UNCHANGED <<commits, head>>
  BY DEF MemInv, AskedIsListed, Planning, Complete, thought
<1>2. sealed \in Trees
  <2>1. commits[head] \in Trees
    BY CommitIsTree DEF MemInv, MemTypeOK
  <2>2. tree \in Trees BY DEF MemInv, MemTypeOK
  <2>3. QED BY <2>1, <2>2 DEF Trees
<1> HIDE DEF sealed
<1>3. commits' \in Seq(Trees) /\ head' \in DOMAIN commits'
  BY <1>1, <1>2, NewestCommit DEF MemInv, MemTypeOK
<1>4. MemTypeOK'
  BY <1>1, <1>3 DEF MemInv, MemTypeOK, NoEdit
<1>5. IndexIsWhole' BY <1>1 DEF MemInv, IndexIsWhole, RestoreFrom
<1>6. EditsAreIndexed' BY <1>1 DEF EditsAreIndexed, NoEdit
<1>7. MemoryIsRight'
  <2>1. \A fp, p, e : RightIn(commits, fp, p, e)
                        => RightIn(commits', fp, p, e)
    BY <1>1, RightLater DEF MemInv, MemTypeOK
  <2>2. QED BY <1>1, <2>1 DEF MemInv, MemoryIsRight, RightOf
<1>8. AskedIsListed' BY <1>1 DEF AskedIsListed, Asking, Planning
<1>9. PlanFitsTree'
  BY <1>1 DEF PlanFitsTree, MissingIsMissing, CreateIsNew, NoEvidence,
              Evidence, NoPlan, FileAction
<1>10. QED BY <1>4, <1>5, <1>6, <1>7, <1>8, <1>9 DEF MemInv

\* The process ends; what it saves, if it saves, was right.
LEMMA ForgetStep ==
  ASSUME MemInv, Forget,
         memory' # NoMemory =>
           /\ memory'.parsed \in Parsed
           /\ RightOf(memory'.fingerprint, memory'.parsed, memory'.exact)
  PROVE  MemInv'
<1>1. /\ stage' = "idle" /\ index' = EmptyIndex /\ edited' = NoEdit
      /\ evidence' = NoEvidence /\ plan' = NoPlan
      /\ UNCHANGED repo
  BY DEF Forget, Unasked
<1>2. MemTypeOK' /\ IndexIsWhole' /\ EditsAreIndexed'
  BY <1>1, EmptyIsWhole, QuietStep
<1>3. MemoryIsRight'
  BY <1>1 DEF MemoryIsRight, RightOf, RightIn, repo, Build
<1>4. AskedIsListed' BY <1>1 DEF AskedIsListed, Asking, Planning
<1>5. PlanFitsTree'
  BY <1>1 DEF PlanFitsTree, MissingIsMissing, CreateIsNew, NoEvidence,
              Evidence, NoPlan, FileAction
<1>6. QED BY <1>2, <1>3, <1>4, <1>5 DEF MemInv

LEMMA EndStep ==
  ASSUME MemInv, EndTask
  PROVE  MemInv'
<1>1. Forget /\ memory' = memory BY DEF EndTask
<1>2. QED BY <1>1, ForgetStep DEF MemInv, MemTypeOK, MemoryIsRight

LEMMA SaveStep ==
  ASSUME MemInv, SaveMemory
  PROVE  MemInv'
<1>1. /\ stage = "restamped" /\ Forget
      /\ memory'.fingerprint = stamp /\ memory'.parsed = index.byFile
      /\ memory'.exact = exact
  BY DEF SaveMemory
<1>2. index.byFile \in Parsed /\ RightOf(stamp, index.byFile, exact)
  BY <1>1 DEF MemInv, MemTypeOK, MemoryIsRight
<1>3. QED BY <1>1, <1>2, ForgetStep

LEMMA RewalkStep ==
  ASSUME MemInv, Rewalk \/ RestampHead
  PROVE  MemInv'
<1>1. /\ stage \in {"completed", "rewalked"}
      /\ stage' \in {"rewalked", "reheaded"}
      /\ UNCHANGED <<repo, index, evidence, plan, memory, edited>>
  BY DEF Rewalk, Walk, RestampHead, thought
<1>2. MemTypeOK' /\ IndexIsWhole' /\ EditsAreIndexed'
  <2>1. /\ index'.byFile \in Parsed /\ index' = RestoreFrom(index'.byFile)
        /\ memory' # NoMemory => memory'.parsed \in Parsed
    BY <1>1 DEF MemInv, MemTypeOK, IndexIsWhole
  <2>2. QED BY <1>1, <2>1, QuietStep
<1>3. MemoryIsRight'
  BY <1>1 DEF MemInv, MemoryIsRight, RightOf, RightIn, repo, Build
<1>4. evidence = NoEvidence /\ plan = NoPlan
  BY <1>1 DEF MemInv, AskedIsListed, Planning
<1>5. AskedIsListed'
  BY <1>1, <1>4 DEF AskedIsListed, Asking, Planning
<1>6. PlanFitsTree'
  BY <1>1, <1>4 DEF PlanFitsTree, MissingIsMissing, CreateIsNew, NoEvidence,
                    Evidence, NoPlan, FileAction
<1>7. QED BY <1>2, <1>3, <1>5, <1>6 DEF MemInv

\* A fingerprint that does not say "-dirty" names the tree it was taken of.
LEMMA RestampStep ==
  ASSUME MemInv, Restamp
  PROVE  MemInv'
<1>1. /\ stage = "reheaded" /\ stage' = "restamped"
      /\ exact' => index.byFile = Build(tree).byFile /\ stamp' = Fingerprint
      /\ UNCHANGED <<repo, index, evidence, plan, memory, edited>>
  BY DEF Restamp, thought
<1>2. MemTypeOK' /\ IndexIsWhole' /\ EditsAreIndexed'
  <2>1. /\ index'.byFile \in Parsed /\ index' = RestoreFrom(index'.byFile)
        /\ memory' # NoMemory => memory'.parsed \in Parsed
    BY <1>1 DEF MemInv, MemTypeOK, IndexIsWhole
  <2>2. QED BY <1>1, <2>1, QuietStep
<1>3. isGit => RightIn(commits, stamp', index.byFile, exact')
  <2>1. SUFFICES ASSUME isGit, ~stamp'[2], exact'
                 PROVE  /\ stamp'[1] \in DOMAIN commits
                        /\ index.byFile = Build(commits[stamp'[1]]).byFile
    BY DEF RightIn
  <2>2. stamp'[1] = head /\ stamp'[2] = Dirty
    BY <1>1, <2>1 DEF Fingerprint
  <2>3. tree = commits[head] BY <2>1, <2>2 DEF Dirty
  <2>4. index.byFile = Build(tree).byFile BY <1>1, <2>1
  <2>5. QED BY <2>2, <2>3, <2>4 DEF MemInv, MemTypeOK
<1>4. MemoryIsRight'
  BY <1>1, <1>3 DEF MemInv, MemoryIsRight, RightOf, RightIn, repo, Build
<1>5. evidence = NoEvidence /\ plan = NoPlan
  BY <1>1 DEF MemInv, AskedIsListed, Planning
<1>6. AskedIsListed'
  BY <1>1, <1>5 DEF AskedIsListed, Asking, Planning
<1>7. PlanFitsTree'
  BY <1>1, <1>5 DEF PlanFitsTree, MissingIsMissing, CreateIsNew, NoEvidence,
                    Evidence, NoPlan, FileAction
<1>8. QED BY <1>2, <1>4, <1>6, <1>7 DEF MemInv

LEMMA MemNextKeeps ==
  ASSUME MemInv, [MemNext]_memVars
  PROVE  MemInv'
<1>1. CASE MemNext
  <2>1. CASE \E f \in Files, spelling \in Spellings : WriteFile(f, spelling)
    BY <2>1, WriteStep
  <2>2. CASE \E f \in Files, spelling \in Spellings : DeleteFile(f, spelling)
    BY <2>2, DeleteStep
  <2>3. CASE (\E f \in Files : Edit(f)) \/ UserCommits \/ UserSwitches
    BY <2>3, OthersStep
  <2>4. QED
    BY <1>1, <2>1, <2>2, <2>3, StartStep, StampStep, LoadStep, CheckStep,
        PlanStep, LoopStep, CompleteStep, EndStep, RewalkStep, RestampStep,
        SaveStep
    DEF MemNext
<1>2. CASE UNCHANGED memVars
  <2>1. UNCHANGED <<isGit, tree, commits, head, stage, listing, stamp, walked,
                    index, hit, asked, evidence, onDisk, plan, memory, exact,
                    edited>>
    BY <1>2 DEF memVars, repo, snapshot, thought
  <2>2. MemTypeOK' BY <2>1 DEF MemInv, MemTypeOK
  <2>3. IndexIsWhole' BY <2>1 DEF MemInv, IndexIsWhole, RestoreFrom
  <2>4. EditsAreIndexed' BY <2>1 DEF MemInv, EditsAreIndexed
  <2>5. MemoryIsRight'
    BY <2>1 DEF MemInv, MemoryIsRight, RightOf, RightIn, Build
  <2>6. AskedIsListed'
    BY <2>1 DEF MemInv, AskedIsListed, Asking, Planning, WalkFiles
  <2>7. PlanFitsTree'
    BY <2>1 DEF MemInv, PlanFitsTree, MissingIsMissing, CreateIsNew
  <2>8. QED BY <2>2, <2>3, <2>4, <2>5, <2>6, <2>7 DEF MemInv
<1>3. QED BY <1>1, <1>2

LEMMA MemIsInvariant == MemSpec => []MemInv
<1>1. MemInit => MemInv BY MemStart
<1>2. MemInv /\ [MemNext]_memVars => MemInv' BY MemNextKeeps
<1>3. QED BY <1>1, <1>2, PTL DEF MemSpec

\* However the symbol index came about (built, restored from the memory of
\* an earlier task, kept up to date through the task's own edits), it says
\* what the files say, as far as SkyTrap can know of the changes; and what
\* was right of a clean commit when it was saved is, when it is restored,
\* what a build there would give, whatever was edited, committed and checked
\* out in between and whatever Git fails to answer.  For every repository,
\* every bound and any number of tasks.  (symbols.py, repository_memory.py)
THEOREM MemoryStaysExact == MemSpec => []MemoryIsExact
<1>1. MemInv => MemoryIsExact
  <2>1. SUFFICES ASSUME MemInv PROVE MemoryIsExact
    OBVIOUS
  <2>2. NamesAgree
    <3>1. index.byName = RestoreFrom(index.byFile).byName
      BY <2>1 DEF MemInv, IndexIsWhole
    <3>2. QED BY <3>1 DEF NamesAgree, RestoreFrom
  <2>3. ToolEditsAreIndexed
    BY <2>1 DEF MemInv, EditsAreIndexed, ToolEditsAreIndexed
  <2>4. CleanHitIsExact
    BY <2>1 DEF MemInv, MemoryIsRight, RightOf, RightIn, CleanHitIsExact
  <2>5. QED BY <2>2, <2>3, <2>4 DEF MemoryIsExact
<1>2. QED BY <1>1, MemIsInvariant, PTL

\* The planner is not told that something is missing which was there when
\* the repository was listed, and a plan creates nothing that was there:
\* nothing under the path that was asked about, and, where the plan is the
\* deterministic one, nothing of which a match was listed.
\* (existence.py, planning.py:94-280)
THEOREM PlansFitTree == MemSpec => []PlanFitsTree
<1>1. MemInv => PlanFitsTree BY DEF MemInv
<1>2. QED BY <1>1, MemIsInvariant, PTL

-----------------------------------------------------------------------------
(* The verification of a task *)

VerPhases ==
  {"running", "verifying", "command", "browser", "browsing", "page",
   "reviewing", "checkpoint", "completed", "blocked", "failed"}

VerTypeOK ==
  /\ project \in Projects
  /\ phase \in VerPhases
  /\ version \in Nat
  /\ at \in 1..5
  /\ ran \in BOOLEAN
  /\ tested \in [StageNames -> SUBSET BOOLEAN]
  /\ lastRun \in [Commands -> (Nat \cup {-1}) \X BOOLEAN]

\* A verification got through all its stages.
Through == {"browser", "browsing", "page", "reviewing", "checkpoint",
            "completed"}

\* The stages before k are done with, on the files as they are.
DoneUpTo(k) == \A j \in 1..4 : j < k =>
                 \A c \in Discover(Stages[j]) : lastRun[c] = <<version, TRUE>>

FoundUpTo(k) == \E j \in 1..4 : j < k /\ Discover(Stages[j]) # {}

\* Under way, each command of a stage has passed or is left to be run, and a
\* result comes from a command; what got through had one.
StagesDone ==
  /\ phase \in {"verifying", "command"} => /\ DoneUpTo(at)
                                           /\ ran => FoundUpTo(at)
  /\ phase = "command" =>
       /\ at <= 4 /\ todo # {} /\ todo \subseteq Discover(Stages[at])
       /\ \A c \in Discover(Stages[at]) \ todo :
            lastRun[c] = <<version, TRUE>>
  /\ phase \in Through => DoneUpTo(5) /\ FoundUpTo(5)

\* What a project runs as its tests, whichever way they are found.
TestCommands == {c \in project.test \cup project.markers :
                   c \in project.test \/ FallbackStage[c] = "test"}

\* The record of the test stage does not forget a test that failed.
TestsRecorded ==
  /\ FALSE \notin tested["test"] =>
       \A c \in TestCommands : lastRun[c][1] >= 0 => lastRun[c][2]
  /\ TRUE \in tested["test"] => \E c \in TestCommands : lastRun[c][1] >= 0

Reported ==
  /\ phase \in {"checkpoint", "completed"} => ~SeriousFindings
  /\ phase = "completed" => report.tests = Tri(tested["test"])

VerInv == VerTypeOK /\ StagesDone /\ TestsRecorded /\ Reported

LEMMA StagesAre ==
  /\ StageNames = {"lint", "typecheck", "test", "build"}
  /\ DOMAIN Stages = 1..4
  /\ Stages[1] = "lint" /\ Stages[2] = "typecheck"
  /\ Stages[3] = "test" /\ Stages[4] = "build"
  /\ \A k \in 1..4 : Stages[k] \in StageNames
<1>1. /\ DOMAIN Stages = 1..4
      /\ Stages[1] = "lint" /\ Stages[2] = "typecheck"
      /\ Stages[3] = "test" /\ Stages[4] = "build"
  BY DEF Stages
<1>2. 1..4 = {1, 2, 3, 4}
  OBVIOUS
<1>3. StageNames = {Stages[1], Stages[2], Stages[3], Stages[4]}
  BY <1>1, <1>2 DEF StageNames
<1> QED
  BY <1>1, <1>2, <1>3

\* Only the test stage runs what tests.
LEMMA DiscoverFinds ==
  ASSUME project \in Projects, NEW kind \in StageNames
  PROVE  /\ Discover(kind) \subseteq Commands
         /\ kind = "test" => Discover(kind) \subseteq TestCommands
         /\ kind # "test" => Discover(kind) \cap TestCommands = {}
<1> DEFINE others == project.lint \cup project.check \cup project.build
<1>1. /\ others \cup project.test \cup project.markers \subseteq Commands
      /\ project.test \cap others = {}
      /\ \A c \in project.markers :
           IF FallbackStage[c] = "test" THEN c \notin others
                                        ELSE c \notin project.test
  BY ProjectAssumption
<1>2. kind \in {"lint", "typecheck", "test", "build"}
  BY StagesAre
<1>3. /\ kind = "test" => Primary(kind) \subseteq project.test
      /\ kind # "test" => Primary(kind) \subseteq others
  BY <1>2 DEF Primary
<1>4. DiscoverFallback(kind)
        \subseteq {c \in project.markers : FallbackStage[c] = kind}
  BY DEF DiscoverFallback
<1>5. Discover(kind) \in {Primary(kind), DiscoverFallback(kind)}
  BY DEF Discover
<1> HIDE DEF others
<1>6. CASE Discover(kind) = Primary(kind)
  BY <1>1, <1>3, <1>6 DEF TestCommands, others
<1>7. CASE Discover(kind) = DiscoverFallback(kind)
  BY <1>1, <1>4, <1>7 DEF TestCommands, others
<1> QED
  BY <1>5, <1>6, <1>7

LEMMA SameCommands ==
  ASSUME project' = project, declared' = declared
  PROVE  /\ \A s : Discover(s)' = Discover(s)
         /\ TestCommands' = TestCommands
<1>1. \A c : Configured(c)' = Configured(c)
  BY DEF Configured
<1>2. /\ \A s : Primary(s)' = Primary(s)
      /\ \A s : DiscoverFallback(s)' = DiscoverFallback(s)
  BY <1>1 DEF Primary, DiscoverFallback
<1> QED
  BY <1>2 DEF Discover, TestCommands

\* Steps that run nothing and change no file.
LEMMA NothingRuns ==
  ASSUME VerInv, UNCHANGED work, UNCHANGED <<tested, lastRun>>,
         phase' \in VerPhases, at' \in 1..5, ran' \in BOOLEAN,
         phase' \in {"verifying", "command"} =>
           DoneUpTo(at') /\ (ran' => FoundUpTo(at')),
         phase' = "command" => /\ at' <= 4 /\ todo' # {}
                               /\ todo' = Discover(Stages[at']),
         phase' \in Through => DoneUpTo(5) /\ FoundUpTo(5),
         phase' \in {"checkpoint", "completed"} => ~SeriousFindings,
         phase' = "completed" => report'.tests = Tri(tested["test"])
  PROVE  VerInv'
<1>1. /\ project' = project /\ declared' = declared /\ version' = version
      /\ changed' = changed /\ tested' = tested /\ lastRun' = lastRun
  BY DEF work
<1>2. /\ \A s : Discover(s)' = Discover(s)
      /\ TestCommands' = TestCommands
  BY <1>1, SameCommands
<1>3. VerTypeOK'
  BY <1>1 DEF VerInv, VerTypeOK
<1>4. StagesDone'
  BY <1>1, <1>2 DEF StagesDone, DoneUpTo, FoundUpTo
<1>5. TestsRecorded'
  BY <1>1, <1>2 DEF VerInv, TestsRecorded
<1>6. Reported'
  BY <1>1 DEF Reported, SeriousFindings, Tri
<1> QED
  BY <1>3, <1>4, <1>5, <1>6 DEF VerInv

\* A tool has changed the files, or the task has ended badly.
LEMMA NothingVerified ==
  ASSUME VerInv, project' = project, version' \in Nat,
         phase' \in {"running", "blocked", "failed"},
         at' \in 1..5, ran' \in BOOLEAN, UNCHANGED <<tested, lastRun>>
  PROVE  VerInv'
<1>1. VerTypeOK'
  BY DEF VerInv, VerTypeOK, VerPhases
<1>2. StagesDone' /\ Reported'
  BY DEF StagesDone, Reported, Through
<1>3. TestsRecorded'
  BY DEF VerInv, TestsRecorded, TestCommands
<1> QED
  BY <1>1, <1>2, <1>3 DEF VerInv

LEMMA ResultKept ==
  ASSUME VerInv, phase = "command", NEW c \in todo, NEW success \in BOOLEAN,
         CommandResult(c, success)
  PROVE  VerInv'
<1> DEFINE kind == Stages[at]
<1>1. /\ project \in Projects /\ at \in 1..4 /\ version \in Nat
      /\ ran \in BOOLEAN /\ c \in Discover(kind)
      /\ todo \subseteq Discover(kind)
      /\ kind \in StageNames
  <2>1. at \in 1..4
    BY DEF VerInv, VerTypeOK, StagesDone
  <2> QED
    BY <2>1, StagesAre DEF VerInv, VerTypeOK, StagesDone
<1>2. /\ lastRun' = [lastRun EXCEPT ![c] = <<version, success>>]
      /\ UNCHANGED <<project, declared, version, changed, acted>>
      /\ todo' = IF success THEN todo \ {c} ELSE {}
      /\ ~(success /\ todo' # {}) =>
           /\ ran' = TRUE /\ at' = at + 1
           /\ tested' = [tested EXCEPT ![kind] = @ \cup {success}]
           /\ phase' = IF success THEN "verifying" ELSE "running"
      /\ success /\ todo' # {} => UNCHANGED <<at, ran, tested, phase>>
  BY DEF CommandResult, work
<1> HIDE DEF kind
<1>3. c \in Commands /\ lastRun \in [Commands -> (Nat \cup {-1}) \X BOOLEAN]
  BY <1>1, DiscoverFinds DEF VerInv, VerTypeOK
<1>4. /\ lastRun' \in [Commands -> (Nat \cup {-1}) \X BOOLEAN]
      /\ lastRun'[c] = <<version, success>>
      /\ \A d \in Commands \ {c} : lastRun'[d] = lastRun[d]
  <2>1. <<version, success>> \in (Nat \cup {-1}) \X BOOLEAN
    BY <1>1
  <2> DEFINE e == <<version, success>>
             R == (Nat \cup {-1}) \X BOOLEAN
  <2> HIDE DEF e, R
  <2>2. e \in R /\ lastRun' = [lastRun EXCEPT ![c] = e]
        /\ lastRun \in [Commands -> R]
    BY <1>2, <1>3, <2>1 DEF e, R
  <2>3. /\ lastRun' \in [Commands -> R] /\ lastRun'[c] = e
        /\ \A d \in Commands \ {c} : lastRun'[d] = lastRun[d]
    BY <1>3, <2>2
  <2> QED
    BY <2>3 DEF e, R
<1>5. /\ \A s : Discover(s)' = Discover(s)
      /\ TestCommands' = TestCommands
  BY <1>2, SameCommands
<1>6. /\ kind = "test" => c \in TestCommands
      /\ kind # "test" => c \notin TestCommands
  BY <1>1, DiscoverFinds
<1>7. /\ \A s \in StageNames : Discover(s) \subseteq Commands
      /\ TestCommands \subseteq Commands
  BY <1>1, DiscoverFinds, ProjectAssumption DEF TestCommands
<1>8. ASSUME NEW d \in Commands, success, lastRun[d] = <<version, TRUE>>
      PROVE  lastRun'[d] = <<version, TRUE>>
  BY <1>4, <1>8
<1>9. success => lastRun'[c] = <<version, TRUE>>
  BY <1>4
<1>10. DoneUpTo(at) /\ (\A d \in Discover(kind) \ todo :
                          lastRun[d] = <<version, TRUE>>)
  BY DEF VerInv, StagesDone, kind
<1>11. ASSUME success, NEW j \in 1..4, j < at,
              NEW d \in Discover(Stages[j])
       PROVE  lastRun'[d] = <<version, TRUE>>
  <2>1. lastRun[d] = <<version, TRUE>> /\ d \in Commands
    BY <1>7, <1>10, <1>11, StagesAre DEF DoneUpTo
  <2> QED
    BY <1>8, <1>11, <2>1
<1>12. ASSUME success, NEW d \in Discover(kind) \ (todo \ {c})
       PROVE  lastRun'[d] = <<version, TRUE>>
  <2>1. CASE d = c
    BY <1>9, <1>12, <2>1
  <2>2. CASE d # c
    <3>1. lastRun[d] = <<version, TRUE>> /\ d \in Commands
      BY <1>1, <1>7, <1>10, <1>12, <2>2
    <3> QED
      BY <1>8, <1>12, <3>1
  <2> QED
    BY <2>1, <2>2
<1>13. phase' \notin {"checkpoint", "completed"} /\ phase' \notin Through
  BY <1>2 DEF Through
<1>14. Reported'
  BY <1>13 DEF Reported
<1>15. CASE success /\ todo' # {}
  <2>1. UNCHANGED <<at, ran, tested, phase>> /\ todo' = todo \ {c}
    BY <1>2, <1>15
  <2>2. VerTypeOK'
    BY <1>2, <1>4, <2>1 DEF VerInv, VerTypeOK
  <2>3. DoneUpTo(at)'
    BY <1>1, <1>2, <1>5, <1>11, <1>15, <2>1 DEF DoneUpTo
  <2>4. (ran => FoundUpTo(at))'
    BY <1>5, <2>1 DEF VerInv, StagesDone, FoundUpTo
  <2>5. \A d \in Discover(kind) \ todo' : lastRun'[d] = <<version, TRUE>>
    BY <1>12, <1>15, <2>1
  <2>6. StagesDone'
    <3>1. Discover(Stages[at])' = Discover(kind) /\ at' <= 4
      BY <1>1, <1>5, <2>1 DEF kind
    <3>2. todo' # {} /\ todo' \subseteq Discover(kind) /\ version' = version
      BY <1>1, <1>2, <1>15, <2>1
    <3> QED
      BY <1>13, <2>3, <2>4, <2>5, <3>1, <3>2 DEF StagesDone
  <2>7. \A d \in TestCommands :
          \/ lastRun'[d] = lastRun[d]
          \/ lastRun'[d][1] = version /\ lastRun'[d][2]
    <3>1. lastRun'[c][1] = version /\ lastRun'[c][2] = TRUE
      BY <1>4, <1>15
    <3>2. \A d \in TestCommands : d = c \/ lastRun'[d] = lastRun[d]
      BY <1>4, <1>7
    <3> QED
      BY <3>1, <3>2
  <2>8. \A d \in TestCommands : lastRun[d][1] >= 0 => lastRun'[d][1] >= 0
    BY <1>1, <2>7
  <2>9. TestsRecorded'
    <3>1. \A d \in TestCommands : lastRun'[d][2] \/ lastRun'[d] = lastRun[d]
      BY <2>7
    <3> QED
      BY <1>5, <2>1, <2>8, <3>1 DEF VerInv, TestsRecorded
  <2> QED
    BY <1>14, <2>2, <2>6, <2>9 DEF VerInv
<1>16. CASE ~(success /\ todo' # {})
  <2>1. /\ ran' = TRUE /\ at' = at + 1
        /\ tested' = [tested EXCEPT ![kind] = @ \cup {success}]
        /\ phase' = IF success THEN "verifying" ELSE "running"
        /\ success => todo \ {c} = {}
    BY <1>2, <1>16
  <2>2. /\ tested' \in [StageNames -> SUBSET BOOLEAN]
        /\ tested'[kind] = tested[kind] \cup {success}
        /\ kind # "test" => tested'["test"] = tested["test"]
    BY <1>1, <2>1, StagesAre DEF VerInv, VerTypeOK
  <2>3. VerTypeOK'
    BY <1>1, <1>2, <1>4, <2>1, <2>2 DEF VerInv, VerTypeOK, VerPhases
  <2>4. success => DoneUpTo(at)'
    <3> SUFFICES ASSUME success, NEW j \in 1..4, j < at + 1,
                        NEW d \in Discover(Stages[j])
                 PROVE  lastRun'[d] = <<version, TRUE>>
      BY <1>2, <1>5, <2>1 DEF DoneUpTo
    <3>1. CASE j = at
      BY <1>12, <2>1, <3>1 DEF kind
    <3>2. CASE j # at
      <4>1. j < at
        BY <1>1, <3>2
      <4> QED
        BY <1>11, <4>1
    <3> QED
      BY <3>1, <3>2
  <2>5. FoundUpTo(at)'
    <3>1. at < at' /\ Discover(Stages[at]) # {}
      BY <1>1, <2>1 DEF kind
    <3> QED
      BY <1>1, <1>5, <3>1 DEF FoundUpTo
  <2>6. StagesDone'
    BY <1>13, <2>1, <2>4, <2>5 DEF StagesDone
  <2>7. TestsRecorded'
    <3>1. CASE kind = "test"
      <4>1. tested'["test"] = tested["test"] \cup {success}
        BY <2>2, <3>1
      <4>2. c \in TestCommands /\ lastRun'[c][1] >= 0
            /\ lastRun'[c][2] = success
        BY <1>1, <1>4, <1>6, <3>1
      <4>3. FALSE \notin tested'["test"] =>
              \A d \in TestCommands : lastRun'[d][1] >= 0 => lastRun'[d][2]
        <5> SUFFICES ASSUME FALSE \notin tested'["test"],
                            NEW d \in TestCommands, lastRun'[d][1] >= 0
                     PROVE  lastRun'[d][2]
          OBVIOUS
        <5>1. success /\ FALSE \notin tested["test"]
          BY <4>1
        <5>2. CASE d = c
          BY <4>2, <5>1, <5>2
        <5>3. CASE d # c
          <6>1. lastRun'[d] = lastRun[d]
            BY <1>4, <1>7, <5>3
          <6> QED
            BY <5>1, <6>1 DEF VerInv, TestsRecorded
        <5> QED
          BY <5>2, <5>3
      <4> QED
        BY <1>5, <4>2, <4>3 DEF TestsRecorded
    <3>2. CASE kind # "test"
      <4>1. tested'["test"] = tested["test"]
        BY <2>2, <3>2
      <4>2. \A d \in TestCommands : lastRun'[d] = lastRun[d]
        BY <1>4, <1>6, <1>7, <3>2
      <4> QED
        BY <1>5, <4>1, <4>2 DEF VerInv, TestsRecorded
    <3> QED
      BY <3>1, <3>2
  <2> QED
    BY <1>14, <2>3, <2>6, <2>7 DEF VerInv
<1> QED
  BY <1>15, <1>16

LEMMA VerInitially == VerInit => VerInv
<1> SUFFICES ASSUME VerInit PROVE VerInv
  OBVIOUS
<1>1. /\ project \in Projects /\ phase = "running" /\ version = 0 /\ at = 1
      /\ ran = FALSE /\ tested = [s \in StageNames |-> {}]
      /\ lastRun = [c \in Commands |-> <<-1, FALSE>>]
  BY DEF VerInit
<1>2. VerTypeOK
  <2>1. <<-1, FALSE>> \in (Nat \cup {-1}) \X BOOLEAN
    OBVIOUS
  <2>2. lastRun \in [Commands -> (Nat \cup {-1}) \X BOOLEAN]
    BY <1>1, <2>1
  <2>3. tested \in [StageNames -> SUBSET BOOLEAN]
    BY <1>1
  <2>4. 0 \in Nat /\ 1 \in 1..5
    OBVIOUS
  <2>5. phase \in VerPhases
    BY <1>1 DEF VerPhases
  <2> QED
    BY <1>1, <2>2, <2>3, <2>4, <2>5 DEF VerTypeOK
<1>3. StagesDone /\ Reported
  BY <1>1 DEF StagesDone, Reported, Through
<1>4. TestsRecorded
  <2>1. tested["test"] = {}
    BY <1>1, StagesAre
  <2>2. TestCommands \subseteq Commands
    BY <1>1, ProjectAssumption DEF TestCommands
  <2>3. \A c \in TestCommands : ~(lastRun[c][1] >= 0)
    BY <1>1, <2>2
  <2> QED
    BY <2>1, <2>3 DEF TestsRecorded
<1> QED
  BY <1>2, <1>3, <1>4 DEF VerInv

LEMMA VerKept == VerInv /\ [VerNext]_verVars => VerInv'
<1> SUFFICES ASSUME VerInv, [VerNext]_verVars PROVE VerInv'
  OBVIOUS
<1>1. /\ VerTypeOK /\ StagesDone /\ TestsRecorded /\ Reported
      /\ at \in 1..5 /\ ran \in BOOLEAN /\ version \in Nat /\ 1 \in 1..5
  BY DEF VerInv, VerTypeOK
<1>2. ~FoundUpTo(1) /\ DoneUpTo(1)
  BY DEF FoundUpTo, DoneUpTo
<1> USE DEF verification, VerPhases, Through
<1>3. CASE UNCHANGED verVars
  <2>1. /\ project' = project /\ declared' = declared /\ version' = version
        /\ changed' = changed /\ tested' = tested /\ lastRun' = lastRun
        /\ phase' = phase /\ at' = at /\ ran' = ran /\ todo' = todo
        /\ report' = report
    BY <1>3 DEF verVars, work
  <2>2. \A s : Discover(s)' = Discover(s)
    BY <2>1, SameCommands
  <2>3. TestCommands' = TestCommands
    BY <2>1, SameCommands
  <2> QED
    BY <1>1, <2>1, <2>2, <2>3 DEF VerInv, VerTypeOK, StagesDone, DoneUpTo,
       FoundUpTo, TestsRecorded, Reported, SeriousFindings, Tri
<1>4. ASSUME NEW kind \in {"source", "test", "manifest"}, ToolRecords(kind)
      PROVE  VerInv'
  <2>1. /\ project' = project /\ version' = version + 1 /\ phase' = "running"
        /\ UNCHANGED <<tested, lastRun, at, ran>>
    BY <1>4 DEF ToolRecords, Decide
  <2> QED
    BY <1>1, <2>1, NothingVerified
<1>5. CASE ShellEdits
  <2>1. /\ project' = project /\ version' = version + 1 /\ phase' = "running"
        /\ UNCHANGED <<tested, lastRun, at, ran>>
    BY <1>5 DEF ShellEdits, Decide
  <2> QED
    BY <1>1, <2>1, NothingVerified
<1>6. CASE FinalMessage
  <2>1. /\ UNCHANGED work /\ UNCHANGED <<tested, lastRun>>
        /\ at' = 1 /\ ran' = FALSE /\ phase' \in {"running", "verifying"}
    BY <1>6 DEF FinalMessage, Decide
  <2> QED
    BY <1>1, <1>2, <2>1, NothingRuns
<1>7. CASE IterationLimit
  BY <1>1, <1>7, NothingVerified DEF IterationLimit, work
<1>8. CASE StageRefused
  <2>1. /\ project' = project /\ version' = version /\ phase' = "running"
        /\ at' = at /\ ran' = TRUE /\ UNCHANGED <<tested, lastRun>>
    BY <1>8 DEF StageRefused, work
  <2> QED
    BY <1>1, <2>1, NothingVerified
<1>9. CASE StageStarts
  <2>1. /\ phase = "verifying" /\ at <= 4 /\ UNCHANGED work
        /\ UNCHANGED <<tested, lastRun>> /\ ran' = ran
        /\ DoneUpTo(at) /\ (ran => FoundUpTo(at))
    BY <1>1, <1>9 DEF StageStarts, StagesDone
  <2>2. CASE Discover(Stages[at]) = {}
    <3>1. at' = at + 1 /\ phase' = "verifying" /\ at + 1 \in 1..5
      BY <1>1, <1>9, <2>1, <2>2 DEF StageStarts
    <3>2. \A j \in 1..4 : j < at + 1 <=> (j < at \/ j = at)
      BY <1>1
    <3>3. DoneUpTo(at + 1)
      BY <2>1, <2>2, <3>2 DEF DoneUpTo
    <3>4. ran => FoundUpTo(at + 1)
      BY <2>1, <3>2 DEF FoundUpTo
    <3> QED
      BY <1>1, <2>1, <3>1, <3>3, <3>4, NothingRuns
  <2>3. CASE Discover(Stages[at]) # {}
    <3>1. at' = at /\ phase' = "command" /\ todo' = Discover(Stages[at])
      BY <1>9, <2>1, <2>3 DEF StageStarts
    <3> QED
      BY <1>1, <2>1, <2>3, <3>1, NothingRuns
  <2> QED
    BY <2>2, <2>3
<1>10. ASSUME NEW c \in todo, CommandExits(c) \/ CommandTimesOut(c)
       PROVE  VerInv'
  BY <1>10, ResultKept DEF CommandExits, CommandTimesOut
<1>11. CASE VerificationEnds
  <2>1. /\ phase = "verifying" /\ at = 5 /\ UNCHANGED work
        /\ UNCHANGED <<tested, lastRun>> /\ at' = at /\ ran' = ran
        /\ phase' = IF ran THEN "browser" ELSE "blocked"
    BY <1>11 DEF VerificationEnds
  <2>2. DoneUpTo(5) /\ (ran => FoundUpTo(5))
    BY <1>1, <2>1 DEF StagesDone
  <2> QED
    BY <1>1, <2>1, <2>2, NothingRuns
<1>12. CASE \/ BrowserSkipped \/ StartServer \/ Answered \/ Unreachable
            \/ ConnectionLost \/ OpenPage \/ Browsed
            \/ ReviewFails \/ ReviewPasses \/ CompleteTask
  <2>1. DoneUpTo(5) /\ FoundUpTo(5)
    BY <1>1, <1>12 DEF StagesDone, BrowserSkipped, StartServer, Browsed,
       Answered, Unreachable, ConnectionLost, OpenPage,
       ReviewFails, ReviewPasses, CompleteTask
  <2>2. UNCHANGED work /\ UNCHANGED verification
    BY <1>12 DEF BrowserSkipped, StartServer, Browsed,
       Answered, Unreachable, ConnectionLost, OpenPage,
       BrowserResult, ReviewFails, ReviewPasses, CompleteTask
  <2>3. phase' \in VerPhases \ {"verifying", "command"}
    BY <1>12 DEF BrowserSkipped, StartServer, Browsed,
       Answered, Unreachable, ConnectionLost, OpenPage,
       BrowserResult, ReviewFails, ReviewPasses, CompleteTask
  <2>4. phase' \in {"checkpoint", "completed"} => ~SeriousFindings
    BY <1>1, <1>12 DEF BrowserSkipped, StartServer, Browsed, Reported,
       Answered, Unreachable, ConnectionLost, OpenPage,
       BrowserResult, ReviewFails, ReviewPasses, CompleteTask
  <2>5. phase' = "completed" => report'.tests = Tri(tested["test"])
    BY <1>12 DEF BrowserSkipped, StartServer, Browsed, FromMemory,
       Answered, Unreachable, ConnectionLost, OpenPage,
       BrowserResult, ReviewFails, ReviewPasses, CompleteTask
  <2> QED
    BY <1>1, <2>1, <2>2, <2>3, <2>4, <2>5, NothingRuns
<1> QED
  BY <1>3, <1>4, <1>5, <1>6, <1>7, <1>8, <1>9, <1>10, <1>11, <1>12
  DEF VerNext

\* Whatever a task edits, adds to its manifest or drops from it, and however
\* often it fails and tries again: when it completes, each command of its
\* project passed on the files as they are, and "passed" is written of tests
\* only if none that it ever ran failed the last time.
\* (_verify of loop.py, ExecutionEvidence.from_memory, review.py:74-78)
THEOREM EvidenceStands == VerSpec => []EvidenceIsEarned
<1>1. VerInv => EvidenceIsEarned
  <2> SUFFICES ASSUME VerInv PROVE EvidenceIsEarned
    OBVIOUS
  <2>1. CompletedIsVerified
    <3> SUFFICES ASSUME phase = "completed"
                 PROVE  LET commands == UNION {Discover(s) : s \in StageNames}
                        IN  /\ commands # {}
                            /\ \A c \in commands :
                                 lastRun[c] = <<version, TRUE>>
      BY DEF CompletedIsVerified
    <3>1. DoneUpTo(5) /\ FoundUpTo(5)
      BY DEF VerInv, StagesDone, Through
    <3>2. \A s \in StageNames : \E k \in 1..4 : k < 5 /\ Stages[k] = s
      <4>1. 1 < 5 /\ 2 < 5 /\ 3 < 5 /\ 4 < 5 /\ {1, 2, 3, 4} = 1..4
        OBVIOUS
      <4> QED
        BY <4>1, StagesAre
    <3>3. \A s \in StageNames : \A c \in Discover(s) :
            lastRun[c] = <<version, TRUE>>
      BY <3>1, <3>2 DEF DoneUpTo
    <3>4. \E s \in StageNames : Discover(s) # {}
      BY <3>1, StagesAre DEF FoundUpTo
    <3> QED
      BY <3>3, <3>4
  <2>2. PassedMeansPassed
    <3> SUFFICES ASSUME phase = "completed", report.tests = "passed"
                 PROVE  LET runners == {c \in project.test
                                             \cup project.markers :
                                        /\ lastRun[c][1] >= 0
                                        /\ \/ c \in project.test
                                           \/ FallbackStage[c] = "test"}
                        IN  runners # {} /\ \A c \in runners : lastRun[c][2]
      BY DEF PassedMeansPassed
    <3>1. Tri(tested["test"]) = "passed"
      BY DEF VerInv, Reported
    <3>2. tested["test"] = {TRUE}
      BY <3>1 DEF Tri
    <3>3. /\ \A c \in TestCommands : lastRun[c][1] >= 0 => lastRun[c][2]
          /\ \E c \in TestCommands : lastRun[c][1] >= 0
      BY <3>2 DEF VerInv, TestsRecorded
    <3> QED
      BY <3>3 DEF TestCommands
  <2>3. TestsAloneProveNothing
    BY DEF VerInv, Reported, SeriousFindings, TestsAloneProveNothing
  <2> QED
    BY <2>1, <2>2, <2>3 DEF EvidenceIsEarned
<1> QED
  BY <1>1, VerInitially, VerKept, PTL DEF VerSpec

-----------------------------------------------------------------------------
(* The conversation *)

Turns == [role : Roles, evidence : BOOLEAN, changed : BOOLEAN,
          rejections : 0..MaxRejections, retried : BOOLEAN, steps : Nat]

ChatPlaces == {"prompt", "turn", "record", "recorded", "closed"}
WorkPlaces == {"plan", "turn", "confirm", "develop", "tests", "review",
               "note", "closed"}

ConvTypeOK ==
  /\ session \in {"chat", "build", "server"}
  /\ place \in IF session = "chat" THEN ChatPlaces ELSE WorkPlaces
  /\ turn \in Turns
  /\ changes \in Nat /\ told \in Nat
  /\ rows \in Seq({"user", "assistant"})

Developing == place = "turn" /\ turn.role = "developer"

\* What lets the developer make changes.
Agreed == IF session = "chat" THEN mode # "plan" \/ (planned /\ execute)
                              ELSE approved

\* The developer, and what comes after it, has been agreed to.
WorkIsAgreed ==
  Developing \/ place \in {"develop", "tests"} => Agreed

\* Nothing is changed between the tests and the end of the review.
TestsStand == place = "review" => tests.after = changes

Users(s) == {k \in DOMAIN s : s[k] = "user"}

\* The exchange to be recorded has been counted, and half of it is there.
RowsAreTold ==
  /\ Cardinality(Users(rows)) + (IF place = "record" THEN 1 ELSE 0) <= told
  /\ place = "recorded" => rows # <<>> /\ rows[Len(rows)] = "user"

ConvInv == /\ ConvTypeOK /\ WorkIsAgreed /\ TestsStand /\ RowsAreTold
           /\ HandedOnAsDone

LEMMA Numbers == {MaxSteps, DeveloperSteps, MaxRejections} \subseteq Nat
BY ConversationAssumption

LEMMA NewTurnIs ==
  ASSUME NEW role \in Roles, NEW shown \in BOOLEAN
  PROVE  /\ NewTurn(role, shown) \in Turns
         /\ NewTurn(role, shown).role = role
BY Numbers DEF NewTurn, Turns

\* A message is appended.
LEMMA UsersOfAppended ==
  ASSUME NEW s \in Seq({"user", "assistant"}), NEW m \in {"user", "assistant"}
  PROVE  /\ Append(s, m) \in Seq({"user", "assistant"})
         /\ Cardinality(Users(Append(s, m)))
              = Cardinality(Users(s)) + (IF m = "user" THEN 1 ELSE 0)
         /\ Cardinality(Users(s)) \in Nat
         /\ DOMAIN s = 1..Len(s) /\ Len(s) \in Nat
         /\ DOMAIN Append(s, m) = 1..(Len(s) + 1)
         /\ Len(Append(s, m)) = Len(s) + 1
         /\ Append(s, m)[Len(s) + 1] = m
         /\ \A k \in 1..Len(s) : Append(s, m)[k] = s[k]
<1> DEFINE n == Len(s)
           t == Append(s, m)
<1>1. /\ t \in Seq({"user", "assistant"}) /\ n \in Nat
      /\ DOMAIN s = 1..n /\ DOMAIN t = 1..(n + 1) /\ Len(t) = n + 1
      /\ t[n + 1] = m /\ \A k \in 1..n : t[k] = s[k]
  OBVIOUS
<1> HIDE DEF n, t
<1>2. 1..(n + 1) = (1..n) \cup {n + 1} /\ n + 1 \notin 1..n
  BY <1>1
<1>3. IsFiniteSet(1..n) /\ Users(s) \subseteq 1..n
  BY <1>1, FS_Interval DEF Users
<1>4. IsFiniteSet(Users(s)) /\ Cardinality(Users(s)) \in Nat
  BY <1>3, FS_Subset, FS_CardinalityType
<1>5. n + 1 \notin Users(s)
  BY <1>2, <1>3
<1>6. Cardinality(Users(t))
        = Cardinality(Users(s)) + (IF m = "user" THEN 1 ELSE 0)
  <2> DEFINE e == n + 1
  <2>1. /\ DOMAIN t = (DOMAIN s) \cup {e} /\ t[e] = m /\ e \notin DOMAIN s
        /\ \A k \in DOMAIN s : t[k] = s[k]
    BY <1>1, <1>2
  <2>2. e \notin Users(s)
    BY <1>5
  <2> HIDE DEF e
  <2>3. CASE m = "user"
    <3>1. Users(t) = Users(s) \cup {e}
      BY <2>1, <2>3 DEF Users
    <3> QED
      BY <1>4, <2>2, <2>3, <3>1, FS_AddElement
  <2>4. CASE m # "user"
    <3>1. Users(t) = Users(s)
      BY <2>1, <2>4 DEF Users
    <3> QED
      BY <1>4, <2>4, <3>1
  <2> QED
    BY <2>3, <2>4
<1> QED
  BY <1>1, <1>4, <1>6 DEF n, t

LEMMA ConvInitially == ConvInit => ConvInv
<1> SUFFICES ASSUME ConvInit PROVE ConvInv
  OBVIOUS
<1>1. /\ session \in {"chat", "build", "server"}
      /\ place = IF session = "chat" THEN "prompt" ELSE "plan"
      /\ turn = NoTurn /\ changes = 0 /\ told = 0 /\ rows = <<>>
      /\ answer.says = "plain"
  BY DEF ConvInit
<1>2. turn \in Turns
  BY <1>1, NewTurnIs DEF NoTurn, Roles
<1>3. rows \in Seq({"user", "assistant"}) /\ DOMAIN rows = {}
  BY <1>1
<1>4. ConvTypeOK
  BY <1>1, <1>2, <1>3 DEF ConvTypeOK, ChatPlaces, WorkPlaces
<1>5. Users(rows) = {}
  BY <1>3 DEF Users
<1>6. Cardinality(Users(rows)) = 0
  BY <1>5, FS_EmptySet
<1>7. WorkIsAgreed /\ TestsStand /\ RowsAreTold
  BY <1>1, <1>6 DEF WorkIsAgreed, Developing, TestsStand, RowsAreTold
<1>8. ReviewedAsTested /\ HedgesAreChallenged
  BY <1>1 DEF ReviewedAsTested, HedgesAreChallenged
<1>9. RecordedWasAnswered
  <2>1. {k \in DOMAIN rows : rows[k] = "user"} = {}
    BY <1>3
  <2>2. Cardinality({k \in DOMAIN rows : rows[k] = "user"}) = 0
    BY <2>1, FS_EmptySet
  <2> QED
    BY <1>1, <1>3, <2>2 DEF RecordedWasAnswered
<1> QED
  BY <1>4, <1>7, <1>8, <1>9 DEF ConvInv, HandedOnAsDone

\* Steps that record nothing: the rows stay and more may have been told.
LEMMA NothingRecorded ==
  ASSUME ConvInv, rows' = rows, told' \in Nat,
         told' >= told + (IF place' = "record" /\ place # "record" THEN 1
                          ELSE 0),
         place' # "recorded"
  PROVE  RowsAreTold' /\ RecordedWasAnswered'
<1>1. Cardinality(Users(rows)) \in Nat
  <2>1. rows \in Seq({"user", "assistant"}) /\ "user" \in {"user", "assistant"}
    BY DEF ConvInv, ConvTypeOK
  <2> QED
    BY <2>1, UsersOfAppended
<1>2. told \in Nat /\ told' >= told
  BY DEF ConvInv, ConvTypeOK
<1>3. RowsAreTold'
  BY <1>1, <1>2 DEF ConvInv, RowsAreTold
<1>4. RecordedWasAnswered'
  <2>1. Cardinality({k \in DOMAIN rows : rows[k] = "user"}) <= told
        /\ Cardinality({k \in DOMAIN rows : rows[k] = "user"}) \in Nat
    BY <1>1 DEF ConvInv, HandedOnAsDone, RecordedWasAnswered, Users
  <2> QED
    BY <1>2, <2>1 DEF ConvInv, HandedOnAsDone, RecordedWasAnswered
<1> QED
  BY <1>3, <1>4

\* A turn of a role starts: the reviewer's on what was tested, the
\* developer's on what was agreed.
LEMMA TurnStarts ==
  ASSUME ConvInv, NEW role \in Roles, NEW shown \in BOOLEAN,
         RunRole(role, shown),
         UNCHANGED <<session, answer, changes, tests>>,
         UNCHANGED record,
         role = "reviewer" => tests.after = changes,
         role = "developer" => Agreed'
  PROVE  ConvInv'
<1>1. /\ place' = "turn" /\ turn' \in Turns /\ turn'.role = role
      /\ session' = session /\ answer' = answer /\ changes' = changes
      /\ tests' = tests /\ told' = told /\ rows' = rows
  BY NewTurnIs DEF RunRole, record
<1>2. ConvTypeOK'
  BY <1>1 DEF ConvInv, ConvTypeOK, ChatPlaces, WorkPlaces
<1>3. WorkIsAgreed' /\ TestsStand' /\ ReviewedAsTested'
  BY <1>1 DEF WorkIsAgreed, TestsStand, ReviewedAsTested, Developing
<1>4. HedgesAreChallenged'
  BY <1>1 DEF ConvInv, HandedOnAsDone, HedgesAreChallenged
<1>5. told' \in Nat /\ told' >= told
  BY <1>1 DEF ConvInv, ConvTypeOK
<1>6. RowsAreTold' /\ RecordedWasAnswered'
  BY <1>1, <1>5, NothingRecorded
<1> QED
  BY <1>2, <1>3, <1>4, <1>6 DEF ConvInv, HandedOnAsDone

\* The session moves on outside a turn.
LEMMA PlaceChanges ==
  ASSUME ConvInv, UNCHANGED <<session, answer, changes>>, UNCHANGED record,
         turn' \in Turns,
         place' \in (IF session = "chat" THEN ChatPlaces ELSE WorkPlaces)
                      \ {"turn", "record", "recorded"},
         place' \in {"develop", "tests"} => Agreed',
         place' = "review" => tests'.after = changes
  PROVE  ConvInv'
<1>1. /\ session' = session /\ answer' = answer /\ changes' = changes
      /\ told' = told /\ rows' = rows
  BY DEF record
<1>2. ConvTypeOK'
  BY <1>1 DEF ConvInv, ConvTypeOK
<1>3. WorkIsAgreed' /\ TestsStand' /\ ReviewedAsTested'
  BY <1>1 DEF WorkIsAgreed, TestsStand, ReviewedAsTested, Developing
<1>4. HedgesAreChallenged'
  BY <1>1 DEF ConvInv, HandedOnAsDone, HedgesAreChallenged
<1>5. told' \in Nat /\ told' >= told
  BY <1>1 DEF ConvInv, ConvTypeOK
<1>6. RowsAreTold' /\ RecordedWasAnswered'
  BY <1>1, <1>5, NothingRecorded
<1> QED
  BY <1>2, <1>3, <1>4, <1>6 DEF ConvInv, HandedOnAsDone

\* The turn goes on; what it changed was agreed, and no reviewer changes it.
LEMMA TurnGoesOn ==
  ASSUME ConvInv, place = "turn",
         UNCHANGED <<inputs, place, answer, attempt, tests, record>>,
         turn' \in Turns, turn'.role = turn.role, changes' \in Nat,
         changes' # changes => turn.role = "developer"
  PROVE  ConvInv' /\ (changes' # changes => Developing /\ Agreed)
<1>1. /\ UNCHANGED <<session, isRepo, mode, planned, execute, approved, sent,
                     place, answer, tests, told, rows>>
  BY DEF inputs, record
<1>2. Agreed' <=> Agreed
  BY <1>1 DEF Agreed
<1>3. ConvTypeOK'
  BY <1>1 DEF ConvInv, ConvTypeOK
<1>4. WorkIsAgreed' /\ TestsStand' /\ ReviewedAsTested'
  BY <1>1, <1>2 DEF ConvInv, HandedOnAsDone, WorkIsAgreed, TestsStand,
     ReviewedAsTested, Developing
<1>5. HedgesAreChallenged' /\ RowsAreTold' /\ RecordedWasAnswered'
  BY <1>1 DEF ConvInv, HandedOnAsDone, HedgesAreChallenged, RowsAreTold,
     RecordedWasAnswered
<1>6. turn.role = "developer" => Developing /\ Agreed
  BY DEF ConvInv, WorkIsAgreed, Developing
<1> QED
  BY <1>3, <1>4, <1>5, <1>6 DEF ConvInv, HandedOnAsDone

LEMMA ToolCallKeeps ==
  ASSUME ConvInv, NEW tool \in AllTools, NEW success \in BOOLEAN,
         ToolCall(tool, success)
  PROVE  ConvInv' /\ (changes' # changes => Developing /\ Agreed)
<1>1. /\ place = "turn" /\ turn.steps > 0
      /\ UNCHANGED <<inputs, place, answer, attempt, tests, record>>
      /\ turn' = [turn EXCEPT !.steps = @ - 1,
                              !.changed = @ \/ (success /\ tool \in Mutating)]
  BY DEF ToolCall, ModelSays
<1>2. turn \in Turns /\ changes \in Nat
  BY DEF ConvInv, ConvTypeOK
<1>3. turn' \in Turns /\ turn'.role = turn.role
  <2>1. turn.steps - 1 \in Nat
    BY <1>1, <1>2 DEF Turns
  <2>2. (turn.changed \/ (success /\ tool \in Mutating)) \in BOOLEAN
    BY <1>2 DEF Turns
  <2> QED
    BY <1>1, <1>2, <2>1, <2>2 DEF Turns
<1>4. PICK n \in {0, 1} : /\ n = 1 => tool \in ToolsOf(turn.role) \ {"read"}
                          /\ changes' = changes + n
  BY DEF ToolCall
<1>5. n = 1 => turn.role = "developer"
  BY <1>2, <1>4 DEF ToolsOf, Turns, Roles
<1>6. changes' \in Nat /\ (changes' # changes => n = 1)
  BY <1>2, <1>4
<1> QED
  BY <1>1, <1>3, <1>5, <1>6, TurnGoesOn

LEMMA NudgeKeeps ==
  ASSUME ConvInv, Nudge
  PROVE  ConvInv' /\ changes' = changes
<1>1. /\ place = "turn" /\ turn.steps > 0 /\ turn.rejections < MaxRejections
      /\ UNCHANGED <<inputs, place, answer, effects, record>>
      /\ turn' = [turn EXCEPT !.steps = @ - 1, !.rejections = @ + 1]
  BY DEF Nudge, ModelSays, NeedsRejection
<1>2. turn \in Turns /\ changes \in Nat
  BY DEF ConvInv, ConvTypeOK
<1>3. turn' \in Turns /\ turn'.role = turn.role
  <2>1. turn.steps - 1 \in Nat /\ turn.rejections + 1 \in 0..MaxRejections
    BY <1>1, <1>2, Numbers DEF Turns
  <2> QED
    BY <1>1, <1>2, <2>1 DEF Turns
<1>4. changes' = changes /\ UNCHANGED <<attempt, tests>>
  BY <1>1 DEF effects
<1> QED
  BY <1>1, <1>2, <1>3, <1>4, TurnGoesOn

LEMMA ReturnKeeps ==
  ASSUME ConvInv, NEW says \in Says, place = "turn", Return(says),
         says = "hedge" /\ turn.evidence /\ ~turn.changed =>
           turn.rejections = MaxRejections
  PROVE  ConvInv' /\ changes' = changes
<1> DEFINE chats == /\ session = "chat" /\ turn.role # "summarizer"
                    /\ ~Again(says)
           a == [says |-> says, evidence |-> turn.evidence,
                 changed |-> turn.changed, rejections |-> turn.rejections]
<1>1. /\ UNCHANGED <<session, mode, execute, approved, effects, rows>>
      /\ answer' = a
      /\ planned => planned'
      /\ told' = IF chats THEN told + 1 ELSE told
      /\ Again(says) => /\ place' = place
                        /\ turn' = [NewTurn("architect", FALSE)
                                      EXCEPT !.retried = TRUE]
      /\ ~Again(says) => place' = Onward(turn.role) /\ turn' = NoTurn
  BY DEF Return
<1>2. /\ turn \in Turns /\ told \in Nat
      /\ session \in {"chat", "build", "server"}
  BY DEF ConvInv, ConvTypeOK
<1>3. /\ a.says = says /\ a.evidence = turn.evidence
      /\ a.changed = turn.changed /\ a.rejections = turn.rejections
  OBVIOUS
<1>4. HedgesAreChallenged'
  BY <1>1, <1>3 DEF HedgesAreChallenged
<1> HIDE DEF a
<1>5. UNCHANGED <<changes, tests>>
  BY <1>1 DEF effects
<1>6. told' \in Nat /\ told' >= told /\ (chats => told' >= told + 1)
  BY <1>1, <1>2
<1>7. CASE Again(says)
  <2>1. NewTurn("architect", FALSE) \in Turns
        /\ NewTurn("architect", FALSE).role = "architect"
    BY NewTurnIs DEF Roles
  <2>2. turn' \in Turns /\ turn'.role = "architect" /\ place' = "turn"
    BY <1>1, <1>7, <2>1 DEF Turns
  <2>3. ConvTypeOK'
    BY <1>1, <1>5, <1>6, <2>2 DEF ConvInv, ConvTypeOK
  <2>4. WorkIsAgreed' /\ TestsStand' /\ ReviewedAsTested'
    BY <2>2 DEF WorkIsAgreed, TestsStand, ReviewedAsTested, Developing
  <2>5. told' >= told + (IF place' = "record" /\ place # "record" THEN 1
                         ELSE 0)
    BY <1>2, <1>6, <2>2
  <2>6. RowsAreTold' /\ RecordedWasAnswered'
    BY <1>1, <1>6, <2>2, <2>5, NothingRecorded
  <2> QED
    BY <1>4, <1>5, <2>3, <2>4, <2>6 DEF ConvInv, HandedOnAsDone
<1>8. CASE ~Again(says)
  <2>1. place' = Onward(turn.role) /\ turn' = NoTurn
    BY <1>1, <1>8
  <2>2. turn' \in Turns
    BY <2>1, NewTurnIs DEF NoTurn, Roles
  <2>3. /\ turn.role = "summarizer" => place' = "closed"
        /\ turn.role # "summarizer" /\ session = "chat" => place' = "record"
        /\ turn.role # "summarizer" /\ session # "chat" =>
             /\ place' \in {"confirm", "tests", "note"}
             /\ place' = "tests" => turn.role = "developer"
    <3>1. turn.role \in {"architect", "developer", "reviewer", "summarizer"}
      BY <1>2 DEF Turns, Roles
    <3>2. /\ turn.role = "summarizer" => Onward(turn.role) = "closed"
          /\ turn.role # "summarizer" /\ session = "chat" =>
               Onward(turn.role) = "record"
      <4>1. CASE turn.role = "summarizer"
        BY <4>1 DEF Onward
      <4>2. ASSUME turn.role # "summarizer", session = "chat"
            PROVE  Onward(turn.role) = "record"
        BY <4>2 DEF Onward
      <4> QED
        BY <4>1, <4>2
    <3>3. ASSUME turn.role # "summarizer", session # "chat"
          PROVE  /\ Onward(turn.role) \in {"confirm", "tests", "note"}
                 /\ Onward(turn.role) = "tests" => turn.role = "developer"
      <4>1. CASE turn.role = "architect"
        BY <3>3, <4>1 DEF Onward
      <4>2. CASE turn.role = "developer"
        BY <3>3, <4>2 DEF Onward
      <4>3. CASE turn.role = "reviewer"
        BY <3>3, <4>3 DEF Onward
      <4> QED
        BY <3>1, <3>3, <4>1, <4>2, <4>3
    <3> QED
      BY <2>1, <3>2, <3>3
  <2>4. /\ place' \in IF session = "chat" THEN ChatPlaces ELSE WorkPlaces
        /\ place' \notin {"turn", "recorded", "develop", "review"}
        /\ place' = "record" => chats
        /\ place' = "tests" => turn.role = "developer" /\ session # "chat"
    BY <1>8, <2>3 DEF ChatPlaces, WorkPlaces
  <2>5. ConvTypeOK'
    BY <1>1, <1>5, <1>6, <2>2, <2>4 DEF ConvInv, ConvTypeOK
  <2>6. place' = "tests" => Agreed'
    BY <1>1, <2>4 DEF ConvInv, WorkIsAgreed, Developing, Agreed
  <2>7. WorkIsAgreed' /\ TestsStand' /\ ReviewedAsTested'
    BY <2>4, <2>6 DEF WorkIsAgreed, TestsStand, ReviewedAsTested, Developing
  <2>8. RowsAreTold' /\ RecordedWasAnswered'
    BY <1>1, <1>2, <1>6, <2>4, NothingRecorded
  <2> QED
    BY <1>4, <1>5, <2>5, <2>7, <2>8 DEF ConvInv, HandedOnAsDone
<1> QED
  BY <1>7, <1>8

\* Two commits: a question that was answered, then its answer.
LEMMA RecordKeeps ==
  ASSUME ConvInv, RecordMessage
  PROVE  ConvInv' /\ changes' = changes
<1>1. /\ place \in {"record", "recorded"}
      /\ UNCHANGED <<session, mode, planned, execute, approved, turn, answer,
                     changes, tests, told>>
  BY DEF RecordMessage, inputs, effects
<1>2. session = "chat"
  BY <1>1 DEF ConvInv, ConvTypeOK, WorkPlaces
<1>3. /\ place' \in {"prompt", "recorded"}
      /\ WorkIsAgreed' /\ TestsStand' /\ ReviewedAsTested'
  BY DEF RecordMessage, WorkIsAgreed, TestsStand, ReviewedAsTested, Developing
<1>4. HedgesAreChallenged'
  BY <1>1 DEF ConvInv, HandedOnAsDone, HedgesAreChallenged
<1>5. CASE place' = "prompt" /\ rows' = rows
  <2>1. told' \in Nat /\ told' >= told
    BY <1>1 DEF ConvInv, ConvTypeOK
  <2>2. told' >= told + (IF place' = "record" /\ place # "record" THEN 1
                         ELSE 0)
    BY <1>1, <1>5 DEF ConvInv, ConvTypeOK
  <2>3. RowsAreTold' /\ RecordedWasAnswered'
    BY <1>5, <2>1, <2>2, NothingRecorded
  <2>4. ConvTypeOK'
    BY <1>1, <1>2, <1>5 DEF ConvInv, ConvTypeOK, ChatPlaces
  <2> QED
    BY <1>1, <1>3, <1>4, <2>3, <2>4 DEF ConvInv, HandedOnAsDone
<1>6. ASSUME NEW m \in {"user", "assistant"}, rows' = Append(rows, m),
             place = (IF m = "user" THEN "record" ELSE "recorded"),
             place' = (IF m = "user" THEN "recorded" ELSE "prompt")
      PROVE  ConvInv'
  <2> DEFINE n == Len(rows)
  <2>1. rows \in Seq({"user", "assistant"}) /\ told \in Nat
    BY DEF ConvInv, ConvTypeOK
  <2>2. /\ rows' \in Seq({"user", "assistant"})
        /\ Cardinality(Users(rows'))
             = Cardinality(Users(rows)) + (IF m = "user" THEN 1 ELSE 0)
        /\ Cardinality(Users(rows)) \in Nat
        /\ DOMAIN rows = 1..n /\ n \in Nat /\ DOMAIN rows' = 1..(n + 1)
        /\ Len(rows') = n + 1 /\ rows'[n + 1] = m
        /\ \A k \in 1..n : rows'[k] = rows[k]
    BY <1>6, <2>1, UsersOfAppended
  <2>3. Cardinality(Users(rows')) <= told
    BY <1>6, <2>1, <2>2 DEF ConvInv, RowsAreTold
  <2>4. m = "assistant" => n > 0 /\ rows[n] = "user"
    <3>1. m = "assistant" => rows # <<>> /\ rows[n] = "user"
      BY <1>6 DEF ConvInv, RowsAreTold
    <3> QED
      BY <2>1, <2>2, <3>1
  <2> HIDE DEF n
  <2>5. RecordedWasAnswered'
    <3>1. \A k \in 1..(n + 1) : rows'[k] = "assistant" =>
            k > 1 /\ rows'[k - 1] = "user"
      <4> SUFFICES ASSUME NEW k \in 1..(n + 1), rows'[k] = "assistant"
                   PROVE  k > 1 /\ rows'[k - 1] = "user"
        OBVIOUS
      <4>1. CASE k = n + 1
        <5>1. m = "assistant" /\ k - 1 = n /\ n \in 1..n /\ k > 1
          BY <2>2, <2>4, <4>1
        <5> QED
          BY <2>2, <2>4, <5>1
      <4>2. CASE k # n + 1
        <5>1. k \in 1..n /\ rows[k] = "assistant"
          BY <2>2, <4>2
        <5>2. k > 1 /\ rows[k - 1] = "user"
          BY <2>2, <5>1 DEF ConvInv, HandedOnAsDone, RecordedWasAnswered
        <5>3. k - 1 \in 1..n
          BY <2>2, <5>1, <5>2
        <5> QED
          BY <2>2, <5>2, <5>3
      <4> QED
        BY <4>1, <4>2
    <3> QED
      BY <1>1, <2>2, <2>3, <3>1 DEF RecordedWasAnswered, Users
  <2>6. RowsAreTold'
    <3>1. m = "user" => rows' # <<>> /\ rows'[Len(rows')] = "user"
      BY <2>2
    <3> QED
      BY <1>1, <1>6, <2>2, <2>3, <3>1 DEF RowsAreTold
  <2>7. ConvTypeOK'
    BY <1>1, <1>2, <1>6, <2>2 DEF ConvInv, ConvTypeOK, ChatPlaces
  <2> QED
    BY <1>1, <1>3, <1>4, <2>5, <2>6, <2>7 DEF ConvInv, HandedOnAsDone
<1> QED
  BY <1>1, <1>5, <1>6 DEF RecordMessage

LEMMA ConvKept ==
  ConvInv /\ [ConvNext]_convVars =>
    ConvInv' /\ (changes' # changes => Developing /\ Agreed)
<1> SUFFICES ASSUME ConvInv, [ConvNext]_convVars
             PROVE  ConvInv' /\ (changes' # changes => Developing /\ Agreed)
  OBVIOUS
<1>1. /\ session \in {"chat", "build", "server"} /\ turn \in Turns
      /\ place \in IF session = "chat" THEN ChatPlaces ELSE WorkPlaces
  BY DEF ConvInv, ConvTypeOK
<1>2. NoTurn \in Turns
  BY NewTurnIs DEF NoTurn, Roles
<1>3. CASE UNCHANGED convVars
  BY <1>3 DEF convVars, inputs, effects, record, ConvInv, ConvTypeOK,
     WorkIsAgreed, Developing, Agreed, TestsStand, RowsAreTold, Users,
     HandedOnAsDone, ReviewedAsTested, HedgesAreChallenged,
     RecordedWasAnswered
<1>4. CASE TurnStep
  <2>1. CASE \E tool \in AllTools, success \in BOOLEAN :
               ToolCall(tool, success)
    BY <2>1, ToolCallKeeps
  <2>2. CASE Nudge
    BY <2>2, NudgeKeeps
  <2>3. CASE OutOfSteps
    BY <2>3, ReturnKeeps DEF OutOfSteps, Says
  <2>4. ASSUME NEW says \in Says \ {"timeout"}, FinalAnswer(says)
        PROVE  ConvInv' /\ changes' = changes
    <3>1. place = "turn" /\ Return(says) /\ ~NeedsRejection(says)
      BY <2>4 DEF FinalAnswer, ModelSays
    <3>2. turn.rejections \in 0..MaxRejections
      BY <1>1 DEF Turns
    <3>3. says = "hedge" /\ turn.evidence /\ ~turn.changed =>
            turn.rejections = MaxRejections
      BY <3>1, <3>2, Numbers DEF NeedsRejection
    <3> QED
      BY <3>1, <3>3, ReturnKeeps
  <2>5. CASE TurnRaises
    <3>1. /\ UNCHANGED <<session, answer, changes>> /\ UNCHANGED record
          /\ place' \in {"prompt", "closed"} /\ turn' = NoTurn
          /\ place' = "prompt" => session = "chat"
      BY <2>5 DEF TurnRaises, inputs, effects
    <3> QED
      BY <1>2, <3>1, PlaceChanges DEF ChatPlaces, WorkPlaces
  <2> QED
    BY <1>4, <2>1, <2>2, <2>3, <2>4, <2>5 DEF TurnStep
<1>5. CASE RecordMessage
  BY <1>5, RecordKeeps
<1>6. CASE RunArchitect
  <2>1. /\ RunRole("architect", FALSE) /\ UNCHANGED record
        /\ UNCHANGED <<session, answer, changes, tests>>
    BY <1>6 DEF RunArchitect, inputs, effects
  <2> QED
    BY <2>1, TurnStarts DEF Roles
<1>7. CASE RunDeveloper
  <2>1. /\ RunRole("developer", TRUE) /\ UNCHANGED record
        /\ UNCHANGED <<session, answer, changes, tests>>
        /\ UNCHANGED <<mode, planned, execute, approved>>
        /\ place = "develop"
    BY <1>7 DEF RunDeveloper, inputs, effects
  <2>2. Agreed'
    BY <2>1 DEF ConvInv, WorkIsAgreed, Agreed
  <2> QED
    BY <2>1, <2>2, TurnStarts DEF Roles
<1>8. ASSUME NEW passed \in BOOLEAN, RunTests(passed)
      PROVE  ConvInv' /\ changes' = changes
  <2>1. /\ place = "tests" /\ place' \in {"review", "develop"}
        /\ tests'.after = changes /\ turn' = turn /\ UNCHANGED record
        /\ UNCHANGED <<session, answer, changes>>
        /\ UNCHANGED <<mode, planned, execute, approved>>
    BY <1>8 DEF RunTests, inputs
  <2>2. Agreed'
    BY <2>1 DEF ConvInv, WorkIsAgreed, Agreed
  <2>3. session # "chat"
    BY <1>1, <2>1 DEF ChatPlaces
  <2> QED
    BY <1>1, <2>1, <2>2, <2>3, PlaceChanges DEF WorkPlaces
<1>9. CASE ReviewDiff
  <2>1. /\ place = "review" /\ UNCHANGED record
        /\ UNCHANGED <<session, answer, changes, tests>>
    BY <1>9 DEF ReviewDiff, inputs, effects
  <2>2. tests.after = changes /\ session # "chat"
    BY <1>1, <2>1 DEF ConvInv, TestsStand, ChatPlaces
  <2>3. CASE RunRole("reviewer", FALSE)
    BY <2>1, <2>2, <2>3, TurnStarts DEF Roles
  <2>4. CASE place' \in {"note", "closed"} /\ turn' = turn
    BY <1>1, <2>1, <2>2, <2>4, PlaceChanges DEF WorkPlaces
  <2> QED
    BY <1>9, <2>1, <2>3, <2>4 DEF ReviewDiff
<1>10. CASE RunSummarizer
  <2>1. /\ RunRole("summarizer", FALSE) /\ UNCHANGED record
        /\ UNCHANGED <<session, answer, changes, tests>>
    BY <1>10 DEF RunSummarizer, inputs, effects
  <2> QED
    BY <2>1, TurnStarts DEF Roles
<1>11. CASE CycleMode
  <2>1. /\ place = "prompt" /\ place' = place /\ turn' = turn
        /\ UNCHANGED record /\ UNCHANGED <<session, answer, changes>>
    BY <1>11 DEF CycleMode, effects
  <2> QED
    BY <1>1, <2>1, PlaceChanges
<1>12. CASE LeaveChat
  <2>1. /\ place = "prompt" /\ session = "chat" /\ UNCHANGED record
        /\ UNCHANGED <<session, answer, changes, tests>>
    BY <1>12 DEF LeaveChat, inputs, effects
  <2>2. CASE RunRole("summarizer", FALSE)
    BY <2>1, <2>2, TurnStarts DEF Roles
  <2>3. CASE place' = "closed" /\ turn' = turn
    BY <1>1, <2>1, <2>3, PlaceChanges DEF ChatPlaces
  <2> QED
    BY <1>12, <2>1, <2>2, <2>3 DEF LeaveChat
<1>13. ASSUME NEW b \in BOOLEAN, Respond(b)
       PROVE  ConvInv' /\ changes' = changes
  <2>1. /\ session = "chat" /\ execute' = b /\ UNCHANGED record
        /\ UNCHANGED <<session, mode, planned, answer, changes, tests>>
    BY <1>13 DEF Respond, Message, effects
  <2>2. CASE RunRole("architect", FALSE)
    BY <2>1, <2>2, TurnStarts DEF Roles
  <2>3. CASE RunRole("developer", b) /\ ~(mode = "plan" /\ ~(b /\ planned))
    <3>1. Agreed'
      BY <2>1, <2>3 DEF Agreed
    <3> QED
      BY <2>1, <2>3, <3>1, TurnStarts DEF Roles
  <2> QED
    BY <1>13, <2>1, <2>2, <2>3 DEF Respond, Message
<1>14. ASSUME NEW b \in BOOLEAN, ConfirmPlan(b)
       PROVE  ConvInv' /\ changes' = changes
  <2>1. /\ place = "confirm" /\ place' \in {"develop", "closed"}
        /\ UNCHANGED <<session, answer, changes>> /\ UNCHANGED record
        /\ turn' = turn /\ (place' = "develop" => approved')
    BY <1>14 DEF ConfirmPlan, effects
  <2>2. session # "chat"
    BY <1>1, <2>1 DEF ChatPlaces
  <2>3. place' = "develop" => Agreed'
    BY <2>1, <2>2 DEF Agreed
  <2> QED
    BY <1>1, <2>1, <2>2, <2>3, PlaceChanges DEF WorkPlaces
<1>15. CASE RunArchitect \/ RunDeveloper \/ ReviewDiff \/ RunSummarizer
            \/ CycleMode \/ LeaveChat
  <2>1. changes' = changes
    BY <1>15 DEF RunArchitect, RunDeveloper, ReviewDiff, RunSummarizer,
       CycleMode, LeaveChat, effects
  <2> QED
    BY <1>6, <1>7, <1>9, <1>10, <1>11, <1>12, <1>15, <2>1
<1> QED
  BY <1>3, <1>4, <1>5, <1>8, <1>13, <1>14, <1>15 DEF ConvNext, Work

\* What is handed on was done: a hedge was challenged, the reviewer reads
\* what was tested, and the record holds exchanges that took place, however
\* a session goes and wherever it is interrupted.
\* (core/agent.py:219-230, cli.py:408-443 and 655-698, agent_worker.py)
THEOREM HandedOnTruly == ConvSpec => []HandedOnAsDone
<1>1. ConvInv => HandedOnAsDone
  BY DEF ConvInv
<1>2. ConvInv /\ [ConvNext]_convVars => ConvInv'
  BY ConvKept
<1> QED
  BY <1>1, <1>2, ConvInitially, PTL DEF ConvSpec

\* Only a developer's turn changes anything: in plan mode only to execute some
\* plan that was given before, and in a build or a turn of the server only
\* after its plan is confirmed.  (cli.py:387-424 and 641, agent_worker.py:126)
THEOREM ChangesWereAgreed == ConvSpec => ChangesAreAgreed
<1>1. ConvInv /\ [ConvNext]_convVars => ConvInv'
  BY ConvKept
<1>2. ConvInv /\ [ConvNext]_convVars =>
        [changes' # changes =>
           /\ place = "turn" /\ turn.role = "developer"
           /\ IF session = "chat" THEN mode # "plan" \/ (planned /\ execute)
              ELSE approved]_convVars
  BY ConvKept DEF Agreed, Developing
<1> QED
  BY <1>1, <1>2, ConvInitially, PTL DEF ConvSpec, ChangesAreAgreed

=============================================================================
