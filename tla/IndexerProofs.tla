--------------------------- MODULE IndexerProofs ---------------------------
(***************************************************************************)
(* Proofs about Indexer, for any repository and any parser.                *)
(***************************************************************************)
EXTENDS Indexer, FiniteSetTheorems, TLAPS

\* The initial states are well typed.
LEMMA InitTypeOK == Init => TypeOK
  <1> SUFFICES ASSUME Init PROVE TypeOK
    OBVIOUS
  <1>1. /\ disk \in [Files -> MaybeContent]
        /\ file \in [Files -> MaybeContent]
        /\ syms \in [Files -> SUBSET Names]
        /\ called \in [Files -> SUBSET Names]
    BY DEF Init, EmptyGraph, MaybeContent, NoFile, NoNames
  <1>2. /\ imports \subseteq Files \X Files
        /\ tests \subseteq Files \X Files \X Names
        /\ modules \subseteq Modules
        /\ dependsOn \subseteq Modules \X Modules
        /\ indexed \in BOOLEAN
    BY DEF Init, EmptyGraph
  <1>3. /\ pc \in [Runs -> AtRest \cup Awaits]
        /\ mode \in [Runs -> {"full", "incremental"}]
        /\ quiet \in [Runs -> BOOLEAN]
    BY DEF Init, EmptyGraph, AtRest, Awaits
  <1>4. /\ relpaths \in [Runs -> SUBSET Files]
        /\ snapshot \in [Runs -> [Files -> MaybeContent]]
        /\ deleted \in [Runs -> SUBSET Files]
        /\ changed \in [Runs -> SUBSET Files]
        /\ added \in [Runs -> SUBSET Files]
    BY DEF Init, EmptyGraph, MaybeContent, NoFile
  <1>5. /\ cur \in [Runs -> Files \cup {Absent}]
        /\ text \in [Runs -> MaybeContent]
        /\ resolved \in [Runs -> SUBSET Files]
    BY DEF Init, EmptyGraph, MaybeContent
  <1>6. \A r \in Runs : pc[r] \notin PerFile
    BY DEF Init, EmptyGraph, PerFile
  <1> QED
    BY <1>1, <1>2, <1>3, <1>4, <1>5, <1>6 DEF TypeOK, GraphTypeOK

\* deleteFileSubgraph keeps the graph well typed.
LEMMA DeleteTypeOK ==
  ASSUME TypeOK, NEW f \in Files, DeleteFileSubgraph(f)
  PROVE  /\ file' \in [Files -> MaybeContent]
         /\ syms' \in [Files -> SUBSET Names]
         /\ called' \in [Files -> SUBSET Names]
         /\ imports' \subseteq Files \X Files
         /\ tests' \subseteq Files \X Files \X Names
         /\ modules' \subseteq Modules
         /\ dependsOn' \subseteq Modules \X Modules
  BY DEF TypeOK, GraphTypeOK, DeleteFileSubgraph, graph, MaybeContent

\* So does the batch of one file, for any imports that resolved to paths.
LEMMA WriteTypeOK ==
  ASSUME TypeOK, NEW f \in Files, NEW c \in Contents, NEW T \in SUBSET Files,
         WriteFile(f, c, T)
  PROVE  /\ file' \in [Files -> MaybeContent]
         /\ syms' \in [Files -> SUBSET Names]
         /\ called' \in [Files -> SUBSET Names]
         /\ imports' \subseteq Files \X Files
         /\ tests' \subseteq Files \X Files \X Names
         /\ modules' \subseteq Modules
         /\ dependsOn' \subseteq Modules \X Modules
  <1> USE ParserAssumption
      DEF TypeOK, GraphTypeOK, WriteFile, Sha, ImportEdges, DependencyEdges, MaybeContent
  <1>1. file' \in [Files -> MaybeContent]
    OBVIOUS
  <1>2. syms' \in [Files -> SUBSET Names]
    OBVIOUS
  <1>3. called' \in [Files -> SUBSET Names]
    OBVIOUS
  <1>4. imports' \subseteq Files \X Files
    OBVIOUS
  <1>5. tests' \subseteq Files \X Files \X Names
    OBVIOUS
  <1>6. modules' \subseteq Modules
    <2>1. \A g \in T \cup {f} : ModuleOf[g] \in Modules
      OBVIOUS
    <2> QED
      BY <2>1
  <1>7. dependsOn' \subseteq Modules \X Modules
    OBVIOUS
  <1> QED
    BY <1>1, <1>2, <1>3, <1>4, <1>5, <1>6, <1>7

\* So does linking test cases.
LEMMA LinkTypeOK ==
  ASSUME TypeOK, NEW f \in Files, LinkTestCases(f)
  PROVE  tests' \subseteq Files \X Files \X Names
  BY DEF TypeOK, GraphTypeOK, LinkTestCases

\* A run may be given up anywhere.
LEMMA AbortTypeOK ==
  ASSUME TypeOK, NEW r \in Runs, Abort(r)
  PROVE  TypeOK'
  BY DEF TypeOK, GraphTypeOK, Abort, DropLocals, Goto, graph, MaybeContent, AtRest, Awaits, PerFile

\* Every step keeps the state well typed.
LEMMA NextTypeOK == TypeOK /\ [Next]_vars => TypeOK'
  <1> SUFFICES ASSUME TypeOK, [Next]_vars
               PROVE  TypeOK'
    OBVIOUS
  <1> USE DEF MaybeContent, AtRest, Awaits, PerFile
  <1>1. ASSUME NEW r \in Runs, NEW m \in Modes, Start(r, m)
        PROVE  TypeOK'
    BY <1>1, DataAssumption DEF TypeOK, GraphTypeOK, Start, Goto, graph
  <1>2. ASSUME NEW r \in Runs, GetFileSnapshot(r)
        PROVE  TypeOK'
    BY <1>2 DEF TypeOK, GraphTypeOK, GetFileSnapshot, Goto, graph
  <1>3. ASSUME NEW r \in Runs, ClearNodes(r)
        PROVE  TypeOK'
    BY <1>3 DEF TypeOK, GraphTypeOK, ClearNodes, ClearGraph, Goto, locals, NoFile, NoNames
  <1>4. ASSUME NEW r \in Runs, ClearMeta(r)
        PROVE  TypeOK'
    BY <1>4 DEF TypeOK, GraphTypeOK, ClearMeta, Goto, locals, graph
  <1>5. ASSUME NEW r \in Runs, HashFiles(r)
        PROVE  TypeOK'
    BY <1>5 DEF TypeOK, GraphTypeOK, HashFiles, GonePaths, ChangedPaths, NewPaths, Goto, graph
  <1>6. ASSUME NEW r \in Runs, NEW f \in Files, DeleteGone(r, f)
        PROVE  TypeOK'
    BY <1>6, DeleteTypeOK DEF TypeOK, GraphTypeOK, DeleteGone
  <1>7. ASSUME NEW r \in Runs, NEW f \in Files, ParseFile(r, f)
        PROVE  TypeOK'
    BY <1>7, ParserAssumption DEF TypeOK, GraphTypeOK, ParseFile, Goto, graph
  <1>8. ASSUME NEW r \in Runs, DeleteOld(r)
        PROVE  TypeOK'
    <2>1. cur[r] \in Files
      BY <1>8 DEF TypeOK, GraphTypeOK, DeleteOld
    <2> QED
      BY <1>8, <2>1, DeleteTypeOK DEF TypeOK, GraphTypeOK, DeleteOld, Goto, locals
  <1>9. ASSUME NEW r \in Runs, ApplyBatch(r)
        PROVE  TypeOK'
    <2>1. cur[r] \in Files /\ text[r] \in Contents /\ resolved[r] \in SUBSET Files
      BY <1>9 DEF TypeOK, GraphTypeOK, ApplyBatch
    <2> QED
      BY <1>9, <2>1, WriteTypeOK DEF TypeOK, GraphTypeOK, ApplyBatch, Goto, locals
  <1>10. ASSUME NEW r \in Runs, UpsertModule(r)
         PROVE  TypeOK'
    BY <1>10, ParserAssumption DEF TypeOK, GraphTypeOK, UpsertModule, MergeModule, Goto, locals
  <1>11. ASSUME NEW r \in Runs, LinkTests(r)
         PROVE  TypeOK'
    BY <1>11, LinkTypeOK DEF TypeOK, GraphTypeOK, LinkTests, graph, LinkTestCases, Goto
  <1>12. ASSUME NEW r \in Runs, SetIndexedNow(r)
         PROVE  TypeOK'
    BY <1>12 DEF TypeOK, GraphTypeOK, SetIndexedNow, Goto, locals, graph
  <1>13. ASSUME NEW r \in Runs, Abort(r)
         PROVE  TypeOK'
    BY <1>13, AbortTypeOK
  <1>14. ASSUME NEW f \in Files, NEW c \in MaybeContent, EditFile(f, c)
         PROVE  TypeOK'
    BY <1>14 DEF TypeOK, GraphTypeOK, EditFile, locals, graph
  <1>15. CASE UNCHANGED vars
    BY <1>15 DEF TypeOK, GraphTypeOK, vars, graph, locals
  <1> QED
    BY <1>1, <1>2, <1>3, <1>4, <1>5, <1>6, <1>7, <1>8, <1>9, <1>10, <1>11, <1>12, <1>13,
       <1>14, <1>15
    DEF Next, RunStep, HashFails, ParseFails, Crash

\* Type correctness, for any number of overlapping runs.
THEOREM Typing == Spec => []TypeOK
  <1> QED
    BY InitTypeOK, NextTypeOK, PTL DEF Spec

-----------------------------------------------------------------------------
(* What a step may do to the graph, for the invariants about it.           *)

\* Every step leaves the file level alone, empties it, or is one repository call.
LEMMA GraphSteps ==
  ASSUME TypeOK, [Next]_vars
  PROVE  \/ UNCHANGED <<file, syms, called, imports, tests, dependsOn>> /\ modules \subseteq modules'
         \/ /\ file' = NoFile /\ syms' = NoNames /\ called' = NoNames
            /\ imports' = {} /\ tests' = {} /\ dependsOn' = {}
         \/ \E f \in Files : DeleteFileSubgraph(f)
         \/ \E r \in Runs : ApplyBatch(r)
         \/ \E r \in Runs : LinkTests(r)
  <1>1. ASSUME NEW r \in Runs, DeleteOld(r)
        PROVE  \E f \in Files : DeleteFileSubgraph(f)
    BY <1>1 DEF TypeOK, GraphTypeOK, DeleteOld, PerFile
  <1>2. ASSUME NEW r \in Runs, NEW f \in Files, DeleteGone(r, f)
        PROVE  DeleteFileSubgraph(f)
    BY <1>2 DEF DeleteGone
  <1>3. CASE UNCHANGED vars
    BY <1>3 DEF vars, graph
  <1> QED
    BY <1>1, <1>2, <1>3
    DEF Next, RunStep, Start, GetFileSnapshot, ClearNodes, ClearGraph, ClearMeta, HashFiles, GonePaths,
        ChangedPaths, NewPaths, HashFails, ParseFile, ParseFails, UpsertModule,
        MergeModule, SetIndexedNow, Crash, Abort, DropLocals, EditFile, graph

\* The symbols of a recorded text are never missing, however runs overlap.
LEMMA CoverStep == TypeOK /\ SymbolsCoverSha /\ [Next]_vars => SymbolsCoverSha'
  <1> SUFFICES ASSUME TypeOK, SymbolsCoverSha, [Next]_vars
               PROVE  SymbolsCoverSha'
    OBVIOUS
  <1> USE DEF SymbolsCoverSha
  <1>1. CASE UNCHANGED <<file, syms, called>>
    BY <1>1
  <1>2. CASE file' = NoFile /\ syms' = NoNames /\ called' = NoNames
    BY <1>2 DEF NoFile, NoNames
  <1>3. ASSUME NEW f \in Files, DeleteFileSubgraph(f)
        PROVE  SymbolsCoverSha'
    <2>1. CASE file[f] = Absent
      BY <1>3, <2>1 DEF DeleteFileSubgraph, graph
    <2>2. CASE file[f] # Absent
      <3>1. \A g \in Files : /\ file'[g] = IF g = f THEN Absent ELSE file[g]
                             /\ syms'[g] = IF g = f THEN {} ELSE syms[g]
                             /\ called'[g] = IF g = f THEN {} ELSE called[g]
        BY <1>3, <2>2 DEF TypeOK, GraphTypeOK, DeleteFileSubgraph
      <3> QED
        BY <3>1
    <2> QED
      BY <2>1, <2>2
  <1>4. ASSUME NEW r \in Runs, ApplyBatch(r)
        PROVE  SymbolsCoverSha'
    <2>1. cur[r] \in Files /\ text[r] \in Contents
      BY <1>4 DEF TypeOK, GraphTypeOK, ApplyBatch, PerFile
    <2>2. /\ file' = [file EXCEPT ![cur[r]] = text[r]]
          /\ syms' = [syms EXCEPT ![cur[r]] = @ \cup Defines[text[r]]]
          /\ \E kept \in SUBSET called[cur[r]] :
                 called' = IF cur[r] \in TestFiles
                           THEN [called EXCEPT ![cur[r]] = kept \cup CallsOf[text[r]]]
                           ELSE called
      BY <1>4 DEF ApplyBatch, WriteFile, Sha, ImportEdges, DependencyEdges
    <2> QED
      BY <2>1, <2>2, GraphAssumption DEF TypeOK, GraphTypeOK
  <1> QED
    BY <1>1, <1>2, <1>3, <1>4, GraphSteps DEF LinkTests, graph, LinkTestCases

\* Coverage of the recorded text by the symbols is an invariant, for any runs.
THEOREM Coverage == Spec => []SymbolsCoverSha
  <1>1. Init => SymbolsCoverSha
    BY DEF Init, EmptyGraph, SymbolsCoverSha, NoFile, NoNames
  <1> QED
    BY <1>1, CoverStep, Typing, PTL DEF Spec

\* The module level shows every dependency the file level shows.
LEMMA ModuleStep == TypeOK /\ ModuleGraphCovers /\ [Next]_vars => ModuleGraphCovers'
  <1> SUFFICES ASSUME TypeOK, ModuleGraphCovers, [Next]_vars
               PROVE  ModuleGraphCovers'
    OBVIOUS
  <1> USE DEF ModuleGraphCovers
  <1>1. CASE UNCHANGED <<file, imports, dependsOn>> /\ modules \subseteq modules'
    BY <1>1
  <1>2. CASE file' = NoFile /\ imports' = {}
    BY <1>2 DEF NoFile
  <1>3. ASSUME NEW f \in Files, DeleteFileSubgraph(f)
        PROVE  ModuleGraphCovers'
    BY <1>3 DEF TypeOK, GraphTypeOK, DeleteFileSubgraph, graph
  <1>4. ASSUME NEW r \in Runs, ApplyBatch(r)
        PROVE  ModuleGraphCovers'
    <2> DEFINE f == cur[r]
               T == resolved[r]
    <2>1. f \in Files /\ T \in SUBSET Files
      BY <1>4 DEF TypeOK, GraphTypeOK, ApplyBatch, PerFile
    <2>2. WriteFile(f, text[r], T)
      BY <1>4 DEF ApplyBatch
    <2> HIDE DEF f, T
    <2>3. \A g \in Files : file'[g] # Absent => ModuleOf[g] \in modules'
      BY <2>1, <2>2 DEF TypeOK, GraphTypeOK, WriteFile, Sha, ImportEdges, DependencyEdges
    <2>4. ASSUME NEW e \in imports'
          PROVE  ModuleOf[e[1]] = ModuleOf[e[2]] \/ <<ModuleOf[e[1]], ModuleOf[e[2]]>> \in dependsOn'
      <3>1. CASE e \in imports
        BY <2>2, <3>1 DEF WriteFile, Sha, ImportEdges, DependencyEdges
      <3>2. CASE e \notin imports
        <4>1. e[1] = f /\ e[2] \in T
          BY <2>2, <3>2 DEF WriteFile, Sha, ImportEdges, DependencyEdges
        <4> QED
          BY <2>2, <4>1 DEF WriteFile, Sha, ImportEdges, DependencyEdges
      <3> QED
        BY <3>1, <3>2
    <2> QED
      BY <2>3, <2>4
  <1>5. ASSUME NEW r \in Runs, LinkTests(r)
        PROVE  ModuleGraphCovers'
    BY <1>5 DEF LinkTests, graph, LinkTestCases
  <1> QED
    BY <1>1, <1>2, <1>3, <1>4, <1>5, GraphSteps

\* So is coverage of the file level by the module level.
THEOREM ModuleCoverage == Spec => []ModuleGraphCovers
  <1>1. Init => ModuleGraphCovers
    BY DEF Init, EmptyGraph, ModuleGraphCovers, NoFile
  <1> QED
    BY <1>1, ModuleStep, Typing, PTL DEF Spec

-----------------------------------------------------------------------------
(* A quiet incremental run leaves the working tree in the graph.           *)

\* Nothing is owed at the first await, and nothing runs.
LEMMA QuietInit == Init => QuietProgress
  BY DEF Init, EmptyGraph, QuietProgress, QuietAt, Mirroring, PerFile

\* One step for each action: those of the run itself carry its obligations,
\* those of others find it not quiet.
LEMMA QuietStep == TypeOK /\ QuietProgress /\ [Next]_vars => QuietProgress'
  <1> SUFFICES ASSUME TypeOK, QuietProgress, [Next]_vars
               PROVE  QuietProgress'
    OBVIOUS
  <1> USE DEF QuietProgress, QuietAt, Mirroring, Owed, PerFile, AtRest
  <1>1. ASSUME NEW r \in Runs, NEW m \in Modes, Start(r, m)
        PROVE  QuietProgress'
    <2>1. ASSUME NEW q \in Runs \ {r}
          PROVE  QuietAt(q)'
      <3>1. quiet'[q] = FALSE /\ pc'[q] = pc[q] /\ mode'[q] = mode[q]
        BY <1>1 DEF TypeOK, GraphTypeOK, Start, Goto
      <3> QED
        BY <3>1
    <2>2. QuietAt(r)'
      <3>1. /\ pc'[r] = "snapshot"
            /\ relpaths'[r] = {f \in Files : disk'[f] # Absent}
            /\ quiet'[r] => \A q \in Runs \ {r} : pc'[q] \in AtRest
        BY <1>1 DEF TypeOK, GraphTypeOK, Start, Goto
      <3> QED
        BY <3>1
    <2> QED
      BY <2>1, <2>2
  <1>2. ASSUME NEW r \in Runs, GetFileSnapshot(r)
        PROVE  QuietProgress'
    BY <1>2 DEF TypeOK, GraphTypeOK, GetFileSnapshot, Goto, graph
  <1>3. ASSUME NEW r \in Runs, ClearNodes(r)
        PROVE  QuietProgress'
    BY <1>3 DEF TypeOK, GraphTypeOK, ClearNodes, ClearGraph, Goto, locals
  <1>4. ASSUME NEW r \in Runs, ClearMeta(r)
        PROVE  QuietProgress'
    BY <1>4 DEF TypeOK, GraphTypeOK, ClearMeta, Goto, locals, graph
  <1>5. ASSUME NEW r \in Runs, HashFiles(r)
        PROVE  QuietProgress'
    BY <1>5 DEF TypeOK, GraphTypeOK, HashFiles, GonePaths, ChangedPaths, NewPaths, Goto, graph
  <1>6. ASSUME NEW r \in Runs, NEW f \in Files, DeleteGone(r, f)
        PROVE  QuietProgress'
    <2>1. /\ \A g \in Files : file'[g] = IF g = f THEN Absent ELSE file[g]
          /\ file' \in [Files -> MaybeContent]
      BY <1>6 DEF TypeOK, GraphTypeOK, DeleteGone, DeleteFileSubgraph, graph, MaybeContent
    <2>2. /\ pc[r] = "files" /\ f \in deleted[r]
          /\ UNCHANGED <<disk, pc, mode, relpaths, snapshot, changed, added, cur, text, quiet>>
          /\ deleted' = [deleted EXCEPT ![r] = @ \ {f}]
      BY <1>6 DEF DeleteGone
    <2>3. ASSUME NEW q \in Runs \ {r}
          PROVE  QuietAt(q)'
      <3>1. ~quiet[q]
        BY <2>2
      <3> QED
        BY <2>2, <3>1
    <2>4. QuietAt(r)'
      BY <2>1, <2>2 DEF TypeOK, GraphTypeOK
    <2> QED
      BY <2>3, <2>4
  <1>7. ASSUME NEW r \in Runs, NEW f \in Files, ParseFile(r, f)
        PROVE  QuietProgress'
    BY <1>7 DEF TypeOK, GraphTypeOK, ParseFile, Goto, graph
  <1>8. ASSUME NEW r \in Runs, DeleteOld(r)
        PROVE  QuietProgress'
    BY <1>8 DEF TypeOK, GraphTypeOK, DeleteOld, DeleteFileSubgraph, Goto, locals, graph
  <1>9. ASSUME NEW r \in Runs, ApplyBatch(r)
        PROVE  QuietProgress'
    <2>1. /\ pc[r] = "applyBatch" /\ pc' = [pc EXCEPT ![r] = "upsertModule"]
          /\ file' = [file EXCEPT ![cur[r]] = text[r]]
          /\ UNCHANGED <<disk, mode, relpaths, snapshot, deleted, changed, added, cur, text, quiet>>
      BY <1>9 DEF ApplyBatch, WriteFile, Sha, ImportEdges, DependencyEdges, Goto, locals
    <2>2. ASSUME NEW q \in Runs \ {r}
          PROVE  QuietAt(q)'
      <3>1. ~quiet[q]
        BY <2>1
      <3> QED
        BY <2>1, <3>1 DEF TypeOK, GraphTypeOK
    <2>3. QuietAt(r)'
      BY <2>1 DEF TypeOK, GraphTypeOK
    <2> QED
      BY <2>2, <2>3
  <1>10. ASSUME NEW r \in Runs, UpsertModule(r)
         PROVE  QuietProgress'
    BY <1>10 DEF TypeOK, GraphTypeOK, UpsertModule, MergeModule, Goto, locals
  <1>11. ASSUME NEW r \in Runs, LinkTests(r)
         PROVE  QuietProgress'
    BY <1>11 DEF TypeOK, GraphTypeOK, LinkTests, graph, LinkTestCases, Goto
  <1>12. ASSUME NEW r \in Runs, SetIndexedNow(r)
         PROVE  QuietProgress'
    <2>1. /\ pc[r] = "files" /\ deleted[r] \cup changed[r] \cup added[r] = {}
          /\ pc' = [pc EXCEPT ![r] = "done"]
          /\ UNCHANGED <<disk, graph, locals, quiet>>
      BY <1>12 DEF SetIndexedNow, Goto
    <2>2. /\ pc \in [Runs -> AtRest \cup Awaits]
          /\ file \in [Files -> MaybeContent] /\ disk \in [Files -> MaybeContent]
      BY DEF TypeOK, GraphTypeOK
    <2>3. ASSUME Mirroring(r)
          PROVE  file = disk
      BY <2>1, <2>2, <2>3
    <2>4. QuietAt(r)'
      BY <2>1, <2>2, <2>3 DEF locals, graph
    <2>5. ASSUME NEW q \in Runs \ {r}
          PROVE  QuietAt(q)'
      <3>1. ~quiet[q]
        BY <2>1
      <3> QED
        BY <2>1, <2>2, <3>1 DEF locals, graph
    <2> QED
      BY <2>4, <2>5
  <1>13. ASSUME NEW r \in Runs, pc[r] \notin AtRest, Abort(r)
         PROVE  QuietProgress'
    BY <1>13 DEF TypeOK, GraphTypeOK, Abort, DropLocals, Goto, graph
  <1>14. ASSUME NEW f \in Files, NEW c \in MaybeContent, EditFile(f, c)
         PROVE  QuietProgress'
    BY <1>14 DEF TypeOK, GraphTypeOK, EditFile, locals, graph
  <1>15. CASE UNCHANGED vars
    BY <1>15 DEF vars, graph, locals
  <1> QED
    BY <1>1, <1>2, <1>3, <1>4, <1>5, <1>6, <1>7, <1>8, <1>9, <1>10, <1>11, <1>12, <1>13,
       <1>14, <1>15
    DEF Next, RunStep, HashFails, ParseFails, Crash

\* Incremental indexing repairs: whatever crashes, failures and overlaps have
\* left behind, a run nobody disturbs ends with the files of the working tree as
\* File nodes, under the sha256 of their texts.
THEOREM QuietRunsMirror == Spec => []QuietRunMirrorsDisk
  <1>1. QuietProgress => QuietRunMirrorsDisk
    BY DEF QuietProgress, QuietAt, QuietRunMirrorsDisk, Mirroring
  <1> QED
    BY <1>1, QuietInit, QuietStep, Typing, PTL DEF Spec

\* No step leaves a test case or an edge at a path without a File node, since
\* both deletions detach and every edge is made between nodes that are there.
LEMMA BareStep ==
  TypeOK /\ SymbolsCoverSha /\ NothingWithoutFile /\ [Next]_vars => NothingWithoutFile'
  <1> SUFFICES ASSUME TypeOK, SymbolsCoverSha, NothingWithoutFile, [Next]_vars
               PROVE  NothingWithoutFile'
    OBVIOUS
  <1> USE DEF NothingWithoutFile
  <1>1. CASE UNCHANGED <<file, called, imports, tests>>
    BY <1>1
  <1>2. CASE file' = NoFile /\ called' = NoNames /\ imports' = {} /\ tests' = {}
    BY <1>2 DEF NoFile, NoNames
  <1>3. ASSUME NEW f \in Files, DeleteFileSubgraph(f)
        PROVE  NothingWithoutFile'
    BY <1>3 DEF TypeOK, GraphTypeOK, DeleteFileSubgraph, graph
  <1>4. ASSUME NEW r \in Runs, ApplyBatch(r)
        PROVE  NothingWithoutFile'
    <2>1. PICK f \in Files, c \in Contents, T \in SUBSET Files : WriteFile(f, c, T)
      BY <1>4 DEF TypeOK, GraphTypeOK, ApplyBatch, PerFile
    <2>2. \A g \in Files : file'[g] = IF g = f THEN c ELSE file[g]
      BY <2>1 DEF TypeOK, GraphTypeOK, WriteFile, Sha, ImportEdges, DependencyEdges
    <2>3. \A g \in Files : file'[g] = Absent => called'[g] = {}
      BY <2>1, <2>2, GraphAssumption DEF TypeOK, GraphTypeOK, WriteFile, Sha, ImportEdges, DependencyEdges
    <2>4. \A e \in imports' : file'[e[1]] # Absent /\ file'[e[2]] # Absent
      BY <2>1, <2>2, GraphAssumption DEF TypeOK, GraphTypeOK, WriteFile, Sha, ImportEdges, DependencyEdges
    <2>5. \A e \in tests' : file'[e[1]] # Absent /\ file'[e[2]] # Absent
      BY <2>1, <2>2, GraphAssumption DEF TypeOK, GraphTypeOK, WriteFile, Sha, ImportEdges, DependencyEdges
    <2> QED
      BY <2>3, <2>4, <2>5
  <1>5. ASSUME NEW r \in Runs, LinkTests(r)
        PROVE  NothingWithoutFile'
    BY <1>5 DEF TypeOK, GraphTypeOK, PerFile, LinkTests, graph, LinkTestCases, SymbolsCoverSha
  <1> QED
    BY <1>1, <1>2, <1>3, <1>4, <1>5, GraphSteps

\* Edges and test cases are attached to File nodes, for any number of runs.
LEMMA Attached == Spec => []NothingWithoutFile
  <1>1. Init => NothingWithoutFile
    BY DEF Init, EmptyGraph, NothingWithoutFile, NoNames
  <1> QED
    BY <1>1, BareStep, Typing, Coverage, PTL DEF Spec

\* What one run does is nothing to where another one is.
LEMMA OthersKeep ==
  ASSUME TypeOK, NEW r \in Runs, NEW q \in Runs \ {r},
         RunStep(q) \/ Crash(q) \/ \E m \in Modes : Start(q, m)
  PROVE  /\ pc'[r] = pc[r] /\ mode'[r] = mode[r] /\ changed'[r] = changed[r] /\ added'[r] = added[r]
         /\ deleted'[r] = deleted[r] /\ cur'[r] = cur[r] /\ text'[r] = text[r]
         /\ resolved'[r] = resolved[r]
  <1>1. CASE RunStep(q) \/ Crash(q)
    <2>1. /\ pc' = [pc EXCEPT ![q] = pc'[q]] /\ mode' = mode
          /\ changed' = [changed EXCEPT ![q] = changed'[q]]
          /\ added' = [added EXCEPT ![q] = added'[q]]
          /\ deleted' = [deleted EXCEPT ![q] = deleted'[q]]
          /\ cur' = [cur EXCEPT ![q] = cur'[q]]
          /\ text' = [text EXCEPT ![q] = text'[q]]
          /\ resolved' = [resolved EXCEPT ![q] = resolved'[q]]
      BY <1>1
      DEF TypeOK, RunStep, Crash, Abort, DropLocals, GetFileSnapshot, ClearNodes, ClearMeta,
          HashFiles, HashFails, DeleteGone, ParseFile, ParseFails, DeleteOld, ApplyBatch,
          UpsertModule, LinkTests, SetIndexedNow, Goto, locals
    <2> QED
      BY <2>1 DEF TypeOK
  <1>2. ASSUME NEW m \in Modes, Start(q, m)
        PROVE  /\ pc'[r] = pc[r] /\ mode'[r] = mode[r]
               /\ UNCHANGED <<changed, added, deleted, cur, text, resolved>>
    BY <1>2 DEF TypeOK, Start, Goto
  <1> QED
    BY <1>1, <1>2

-----------------------------------------------------------------------------
(* What runs do to the graph are whole calls of the repository, for texts   *)
(* that have the imports they are given: all that Queries asks of a writer. *)

LEMMA ResolvedStep == TypeOK /\ ResolvedFromText /\ [Next]_vars => ResolvedFromText'
  <1> SUFFICES ASSUME TypeOK, ResolvedFromText, [Next]_vars, NEW r \in Runs, pc'[r] \in PerFile
               PROVE  resolved'[r] \subseteq ImportsOf[text'[r]]
    BY DEF ResolvedFromText
  <1>1. ASSUME pc[r] \in PerFile, resolved'[r] = resolved[r], text'[r] = text[r]
        PROVE  resolved'[r] \subseteq ImportsOf[text'[r]]
    BY <1>1 DEF ResolvedFromText
  <1>2. ASSUME NEW f \in Files, ParseFile(r, f)
        PROVE  resolved'[r] \subseteq ImportsOf[text'[r]]
    BY <1>2 DEF TypeOK, ParseFile
  <1>3. CASE DeleteOld(r) \/ ApplyBatch(r) \/ UpsertModule(r)
    BY <1>1, <1>3 DEF DeleteOld, ApplyBatch, UpsertModule, locals, PerFile
  <1>4. ASSUME \/ GetFileSnapshot(r) \/ ClearNodes(r) \/ ClearMeta(r) \/ HashFiles(r)
               \/ LinkTests(r) \/ SetIndexedNow(r) \/ Abort(r)
               \/ \E f \in Files : DeleteGone(r, f)
               \/ \E m \in Modes : Start(r, m)
        PROVE  FALSE
    BY <1>4
    DEF TypeOK, PerFile, GetFileSnapshot, ClearNodes, ClearMeta, HashFiles, LinkTests, SetIndexedNow,
        Abort, DeleteGone, Start, Goto
  <1>5. ASSUME NEW q \in Runs \ {r}, RunStep(q) \/ Crash(q) \/ \E m \in Modes : Start(q, m)
        PROVE  resolved'[r] \subseteq ImportsOf[text'[r]]
    BY <1>1, <1>5, OthersKeep
  <1>6. CASE (\E f \in Files, c \in MaybeContent : EditFile(f, c)) \/ UNCHANGED vars
    BY <1>1, <1>6 DEF EditFile, vars, locals
  <1> QED
    BY <1>1, <1>2, <1>3, <1>4, <1>5, <1>6 DEF Next, RunStep, HashFails, ParseFails, Crash

\* The imports written are those of the text, for any number of runs.
LEMMA Resolved == Spec => []ResolvedFromText
  <1>1. Init => ResolvedFromText
    BY DEF Init, ResolvedFromText, PerFile
  <1> QED
    BY <1>1, ResolvedStep, Typing, PTL DEF Spec

\* Every step makes one call of the repository that writes, all of it, or none.
LEMMA OneCallEach ==
  ASSUME TypeOK, ResolvedFromText, [Next]_vars
  PROVE  UNCHANGED graph \/ WriteCall \/ \E r \in Runs : ClearNodes(r)
  <1> USE DEF WriteCall
  <1>1. ASSUME NEW r \in Runs, NEW f \in Files, DeleteGone(r, f)
        PROVE  WriteCall
    BY <1>1 DEF DeleteGone
  <1>2. ASSUME NEW r \in Runs, DeleteOld(r)
        PROVE  WriteCall
    BY <1>2 DEF TypeOK, DeleteOld, PerFile
  <1>3. ASSUME NEW r \in Runs, ApplyBatch(r)
        PROVE  WriteCall
    <2>1. /\ cur[r] \in Files /\ text[r] \in Contents /\ resolved[r] \in SUBSET Files
          /\ resolved[r] \subseteq ImportsOf[text[r]]
      BY <1>3 DEF TypeOK, ApplyBatch, PerFile, ResolvedFromText
    <2> QED
      BY <1>3, <2>1 DEF ApplyBatch
  <1>4. ASSUME NEW r \in Runs, UpsertModule(r)
        PROVE  WriteCall
    BY <1>4 DEF TypeOK, UpsertModule, PerFile
  <1>5. ASSUME NEW r \in Runs, LinkTests(r)
        PROVE  UNCHANGED graph \/ WriteCall
    BY <1>5 DEF TypeOK, LinkTests, PerFile
  <1>6. CASE UNCHANGED graph
    BY <1>6
  <1> QED
    BY <1>1, <1>2, <1>3, <1>4, <1>5, <1>6
    DEF Next, RunStep, Start, GetFileSnapshot, ClearMeta, HashFiles, HashFails, ParseFile,
        ParseFails, SetIndexedNow, Crash, Abort, EditFile, vars

-----------------------------------------------------------------------------
(* What a quiet run does, step by step: it redoes nothing, and the first    *)
(* index links backward in the walk.                                       *)

\* While a run is quiet only its own steps happen, in an unchanged tree.
LEMMA QuietSteps ==
  ASSUME TypeOK, QuietProgress, [Next]_vars, NEW r \in Runs, quiet'[r]
  PROVE  \/ \E m \in Modes : Start(r, m)
         \/ quiet[r] /\ disk' = disk /\ (RunStep(r) \/ Crash(r))
         \/ UNCHANGED vars
  <1>1. ASSUME NEW q \in Runs, NEW m \in Modes, Start(q, m)
        PROVE  q = r
    BY <1>1 DEF Start
  <1>2. ASSUME NEW q \in Runs, RunStep(q) \/ Crash(q)
        PROVE  q = r /\ quiet[r] /\ disk' = disk
    <2>1. UNCHANGED <<disk, quiet>> /\ pc[q] \notin AtRest
      BY <1>2
      DEF RunStep, Crash, Abort, GetFileSnapshot, ClearNodes, ClearMeta, HashFiles, HashFails,
          DeleteGone, ParseFile, ParseFails, DeleteOld, ApplyBatch, UpsertModule, LinkTests,
          SetIndexedNow, AtRest
    <2> QED
      BY <2>1 DEF QuietProgress, QuietAt
  <1>3. ASSUME NEW f \in Files, NEW c \in MaybeContent, EditFile(f, c)
        PROVE  FALSE
    BY <1>3 DEF EditFile
  <1> QED
    BY <1>1, <1>2, <1>3 DEF Next

\* A quiet run deletes the path before it writes it, and what is deleted leaves
\* nothing behind.
LEMMA HealStep ==
  TypeOK /\ SymbolsCoverSha /\ QuietProgress /\ Healing /\ [Next]_vars => Healing'
  <1> SUFFICES ASSUME TypeOK, SymbolsCoverSha, QuietProgress, Healing, [Next]_vars,
                      NEW r \in Runs, quiet'[r],
                      pc'[r] \in {"applyBatch", "upsertModule", "linkTests"}
               PROVE  /\ pc'[r] = "applyBatch" => file'[cur'[r]] = Absent
                      /\ pc'[r] # "applyBatch" =>
                             /\ file'[cur'[r]] = text'[r]
                             /\ syms'[cur'[r]] = Defines[text'[r]]
                             /\ cur'[r] \in TestFiles => called'[cur'[r]] = CallsOf[text'[r]]
    BY DEF Healing, QuietRunsHeal
  <1>1. ASSUME NEW m \in Modes, Start(r, m)
        PROVE  FALSE
    BY <1>1 DEF Start, Goto, TypeOK
  <1>2. CASE UNCHANGED vars
    BY <1>2 DEF vars, graph, locals, Healing, QuietRunsHeal
  <1>3. CASE DeleteOld(r)
    BY <1>3 DEF TypeOK, GraphTypeOK, DeleteOld, DeleteFileSubgraph, Goto, graph, locals, PerFile
  <1>4. CASE quiet[r] /\ ApplyBatch(r)
    <2>1. /\ cur[r] \in Files /\ text[r] \in Contents /\ file[cur[r]] = Absent
          /\ syms[cur[r]] = {} /\ called[cur[r]] = {}
      BY <1>4 DEF TypeOK, ApplyBatch, PerFile, Healing, SymbolsCoverSha
    <2>2. PICK kept \in SUBSET called[cur[r]] :
              called' = IF cur[r] \in TestFiles
                        THEN [called EXCEPT ![cur[r]] = kept \cup CallsOf[text[r]]] ELSE called
      BY <1>4 DEF ApplyBatch, WriteFile
    <2>3. cur[r] \in TestFiles => called'[cur[r]] = CallsOf[text[r]]
      BY <2>1, <2>2 DEF TypeOK, GraphTypeOK
    <2>4. file'[cur[r]] = text[r] /\ syms'[cur[r]] = Defines[text[r]]
      BY <1>4, <2>1 DEF TypeOK, GraphTypeOK, ApplyBatch, WriteFile, Sha
    <2>5. pc'[r] = "upsertModule" /\ cur' = cur /\ text' = text
      BY <1>4 DEF TypeOK, ApplyBatch, Goto, locals
    <2> QED
      BY <2>3, <2>4, <2>5
  <1>5. CASE quiet[r] /\ UpsertModule(r)
    BY <1>5 DEF TypeOK, UpsertModule, MergeModule, Goto, locals, Healing, QuietRunsHeal
  <1>6. CASE Crash(r)
    BY <1>6 DEF TypeOK, Crash, Abort, Goto
  <1>7. ASSUME RunStep(r), ~DeleteOld(r), ~ApplyBatch(r), ~UpsertModule(r)
        PROVE  FALSE
    BY <1>7 DEF TypeOK, RunStep, GetFileSnapshot, ClearNodes, ClearMeta, HashFiles, HashFails,
        DeleteGone, ParseFile, ParseFails, LinkTests, SetIndexedNow, Abort, Goto
  <1> QED
    BY <1>1, <1>2, <1>3, <1>4, <1>5, <1>6, <1>7, QuietSteps

\* What overlapping runs have left of other texts goes with the next run that
\* indexes the path undisturbed, for any number of runs before it.
THEOREM QuietRunsLeaveNoGhosts == Spec => []QuietRunsHeal
  <1>1. Init => Healing
    BY DEF Init, Healing, QuietRunsHeal
  <1>2. Healing => QuietRunsHeal
    BY DEF Healing
  <1> QED
    BY <1>1, <1>2, HealStep, QuietInit, QuietStep, Typing, Coverage, PTL DEF Spec

\* The work lists of a quiet incremental run name what differs, once each.
LEMMA DiffersStep ==
  TypeOK /\ QuietProgress /\ OnlyWhatDiffers /\ [Next]_vars => OnlyWhatDiffers'
  <1> SUFFICES ASSUME TypeOK, QuietProgress, OnlyWhatDiffers, [Next]_vars,
                      NEW r \in Runs, quiet'[r], mode'[r] = "incremental"
               PROVE  /\ pc'[r] \in PerFile \cup {"files"} =>
                             \A f \in changed'[r] \cup added'[r] :
                                 disk'[f] # Absent /\ file'[f] # disk'[f]
                      /\ pc'[r] \in PerFile => cur'[r] \notin changed'[r] \cup added'[r]
                      /\ pc'[r] = "deleteOld" => file'[cur'[r]] # disk'[cur'[r]]
    BY DEF OnlyWhatDiffers
  <1> USE DEF OnlyWhatDiffers, PerFile, AtRest
  <1>1. ASSUME NEW m \in Modes, Start(r, m)
        PROVE  pc'[r] = "snapshot"
    BY <1>1 DEF TypeOK, Start, Goto
  <1>2. CASE quiet[r] /\ disk' = disk /\ (RunStep(r) \/ Crash(r))
    <2> USE <1>2
    <2>1. CASE GetFileSnapshot(r) \/ ClearNodes(r) \/ ClearMeta(r) \/ SetIndexedNow(r)
      BY <2>1 DEF TypeOK, GetFileSnapshot, ClearNodes, ClearMeta, SetIndexedNow, Goto
    <2>2. CASE Abort(r)
      BY <2>2 DEF TypeOK, Abort, Goto
    <2>3. CASE HashFiles(r)
      <3>1. file = snapshot[r]
        BY <2>3 DEF HashFiles, QuietProgress, QuietAt, Mirroring
      <3> QED
        BY <2>3, <3>1 DEF TypeOK, GraphTypeOK, HashFiles, ChangedPaths, NewPaths, Goto, graph
    <2>4. ASSUME NEW f \in Files, DeleteGone(r, f)
          PROVE  /\ pc' = pc /\ UNCHANGED <<changed, added>>
                 /\ \A g \in Files : file'[g] \in {file[g], Absent}
      BY <2>4 DEF TypeOK, GraphTypeOK, DeleteGone, DeleteFileSubgraph, graph
    <2>5. ASSUME NEW f \in Files, ParseFile(r, f)
          PROVE  /\ pc'[r] = "deleteOld" /\ cur'[r] = f /\ f \in changed[r] \cup added[r]
                 /\ changed'[r] = changed[r] \ {f} /\ added'[r] = added[r] \ {f}
                 /\ file' = file /\ mode' = mode /\ pc[r] = "files"
      BY <2>5 DEF TypeOK, GraphTypeOK, ParseFile, IsNext, Goto, graph
    <2>6. CASE DeleteOld(r)
      BY <2>6 DEF TypeOK, GraphTypeOK, DeleteOld, DeleteFileSubgraph, Goto, graph, locals
    <2>7. CASE ApplyBatch(r)
      BY <2>7 DEF TypeOK, GraphTypeOK, ApplyBatch, WriteFile, Goto, locals
    <2>8. CASE UpsertModule(r)
      BY <2>8 DEF TypeOK, GraphTypeOK, UpsertModule, MergeModule, Goto, locals
    <2>9. CASE LinkTests(r)
      BY <2>9 DEF TypeOK, GraphTypeOK, LinkTests, LinkTestCases, Goto, graph
    <2>10. CASE \E f \in Files : DeleteGone(r, f)
      BY <2>4, <2>10 DEF TypeOK, GraphTypeOK, DeleteGone
    <2>11. CASE \E f \in Files : ParseFile(r, f)
      BY <2>5, <2>11
    <2>12. \/ GetFileSnapshot(r) \/ ClearNodes(r) \/ ClearMeta(r) \/ SetIndexedNow(r)
           \/ Abort(r) \/ HashFiles(r) \/ DeleteOld(r) \/ ApplyBatch(r) \/ UpsertModule(r)
           \/ LinkTests(r) \/ (\E f \in Files : DeleteGone(r, f)) \/ (\E f \in Files : ParseFile(r, f))
      BY DEF RunStep, Crash, HashFails, ParseFails
    <2> QED
      BY <2>1, <2>2, <2>3, <2>6, <2>7, <2>8, <2>9, <2>10, <2>11, <2>12
  <1>3. CASE UNCHANGED vars
    BY <1>3 DEF vars, locals, graph
  <1> QED
    BY <1>1, <1>2, <1>3, QuietSteps

\* What one step of a run removes, it had on its lists.
LEMMA RemovedOnPurpose ==
  ASSUME TypeOK, QuietProgress, OnlyWhatDiffers, [Next]_vars,
         NEW f \in Files, file[f] # Absent, file'[f] = Absent, file[f] = disk[f]
  PROVE  \E r \in Runs : pc[r] \notin AtRest /\ (mode[r] = "full" \/ ~quiet[r])
  <1>1. ASSUME NEW r \in Runs, ClearNodes(r)
        PROVE  pc[r] \notin AtRest /\ mode[r] = "full"
    BY <1>1 DEF ClearNodes, QuietProgress, QuietAt, AtRest
  <1>2. ASSUME NEW r \in Runs, NEW g \in Files, DeleteGone(r, g)
        PROVE  pc[r] \notin AtRest /\ (mode[r] = "full" \/ ~quiet[r])
    <2>1. g = f
      BY <1>2 DEF TypeOK, GraphTypeOK, DeleteGone, DeleteFileSubgraph, graph
    <2>2. pc[r] = "files" /\ f \in deleted[r]
      BY <1>2, <2>1 DEF DeleteGone
    <2>3. mode[r] \in {"full", "incremental"}
      BY DEF TypeOK
    <2> QED
      BY <2>2, <2>3 DEF QuietProgress, QuietAt, Mirroring, AtRest
  <1>3. ASSUME NEW r \in Runs, DeleteOld(r)
        PROVE  pc[r] \notin AtRest /\ (mode[r] = "full" \/ ~quiet[r])
    <2>1. cur[r] = f
      BY <1>3 DEF TypeOK, GraphTypeOK, DeleteOld, DeleteFileSubgraph, graph, PerFile
    <2>2. mode[r] \in {"full", "incremental"}
      BY DEF TypeOK
    <2> QED
      BY <1>3, <2>1, <2>2 DEF DeleteOld, OnlyWhatDiffers, AtRest
  <1>4. ASSUME NEW r \in Runs, ApplyBatch(r)
        PROVE  FALSE
    <2>1. text[r] # Absent
      BY <1>4, GraphAssumption DEF ApplyBatch, TypeOK, PerFile
    <2> QED
      BY <1>4, <2>1 DEF TypeOK, GraphTypeOK, ApplyBatch, WriteFile, Sha, PerFile
  <1>5. ASSUME file' = file
        PROVE  FALSE
    BY <1>5
  <1> QED
    BY <1>1, <1>2, <1>3, <1>4, <1>5
    DEF Next, RunStep, Start, GetFileSnapshot, ClearMeta, HashFiles, HashFails, ParseFile,
        ParseFails, UpsertModule, MergeModule, LinkTests, LinkTestCases, SetIndexedNow, Crash,
        Abort, EditFile, vars, graph

\* An incremental run leaves alone what has not changed, whatever runs there
\* were before it: alone, while nobody edits, it removes no File node that is as
\* in the tree.
THEOREM UnchangedKept == Spec => UnchangedFilesKept
  <1>1. Init => OnlyWhatDiffers
    BY DEF Init, OnlyWhatDiffers
  <1>2. TypeOK /\ QuietProgress /\ OnlyWhatDiffers /\ [Next]_vars
        => [\A f \in Files :
               (file[f] # Absent /\ file'[f] = Absent /\ file[f] = disk[f])
                   => \E r \in Runs : pc[r] \notin AtRest /\ (mode[r] = "full" \/ ~quiet[r])]_vars
    BY RemovedOnPurpose
  <1> QED
    BY <1>1, <1>2, QuietInit, QuietStep, DiffersStep, Typing, PTL DEF Spec, UnchangedFilesKept

\* A first index is between two awaits as its lists say.
FirstIndexAt(r) == InWalkOrder(r) /\ WrittenFromDisk(r) /\ LinkedBackward(r)

\* The batch adds the edges of the new text to what is there, and nothing
\* that is there gets an edge to it.
LEMMA FirstBatch ==
  ASSUME TypeOK, SymbolsCoverSha, NothingWithoutFile, NEW r \in Runs, QuietAt(r),
         FirstIndex(r), FirstIndexAt(r), ApplyBatch(r)
  PROVE  FirstIndexAt(r)'
  <1> DEFINE f == cur[r]
             c == text[r]
             T == resolved[r]
  <1>0. \A g \in Files : g \in Nat
    BY DataAssumption
  <1>1. /\ f \in Files /\ c \in Contents /\ pc[r] = "applyBatch"
        /\ WriteFile(f, c, T)
        /\ pc'[r] = "upsertModule"
        /\ UNCHANGED <<disk, deleted, changed, added, cur, text, resolved>>
    BY DEF TypeOK, ApplyBatch, Goto, locals, PerFile
  <1>2. /\ c = disk[f] /\ file[f] = Absent /\ c # Absent
        /\ T = {g \in ImportsOf[c] : disk[g] # Absent}
        /\ T \subseteq Files
    BY <1>1, GraphAssumption
    DEF QuietAt, FirstIndex, FirstIndexAt, InWalkOrder, PerFile, TypeOK
  <1>3. /\ \A g \in Files : file[g] # Absent => g < f
        /\ \A g \in Files : file[g] # Absent => file[g] = disk[g]
    <2>1. \A g \in Files : file[g] # Absent => g <= f
      BY <1>1 DEF FirstIndexAt, InWalkOrder, PerFile
    <2>2. \A g \in Files : file[g] # Absent => file[g] = disk[g]
      BY <1>1 DEF FirstIndexAt, WrittenFromDisk, PerFile
    <2> HIDE DEF f
    <2> QED
      BY <1>0, <1>1, <1>2, <2>1, <2>2
  <1>4. /\ \A g \in Files : file'[g] = IF g = f THEN c ELSE file[g]
        /\ \A g \in Files : syms'[g] = IF g = f THEN syms[f] \cup Defines[c] ELSE syms[g]
    BY <1>1 DEF TypeOK, GraphTypeOK, WriteFile, Sha
  <1>5. syms[f] = {} /\ called[f] = {}
    BY <1>1, <1>2 DEF SymbolsCoverSha
  <1>15. \A g \in Files : called'[g] = IF g = f /\ f \in TestFiles THEN CallsOf[c] ELSE called[g]
    <2>1. PICK kept \in SUBSET called[f] :
              called' = IF f \in TestFiles THEN [called EXCEPT ![f] = kept \cup CallsOf[c]]
                        ELSE called
      BY <1>1 DEF WriteFile
    <2>2. kept \cup CallsOf[c] = CallsOf[c]
      BY <1>5
    <2>3. called' = IF f \in TestFiles THEN [called EXCEPT ![f] = CallsOf[c]] ELSE called
      BY <2>1, <2>2
    <2> QED
      BY <2>3 DEF TypeOK, GraphTypeOK
  <1>6. imports' = imports \cup {e \in {f} \X T : file'[e[2]] # Absent}
    BY <1>1 DEF WriteFile, ImportEdges
  <1>7. tests' = IF f \in TestFiles THEN tests \cup ({f} \X {f} \X (CallsOf[c] \cap Defines[c]))
                                    ELSE tests
    BY <1>1 DEF WriteFile
  <1>8. imports = BackwardImports /\ tests = BackwardTests
    BY <1>1 DEF FirstIndexAt, LinkedBackward, PerFile
  <1> HIDE DEF f, c, T
  <1>9. InWalkOrder(r)'
    <2>1. \A g \in added[r] : f < g
      BY <1>1 DEF FirstIndexAt, InWalkOrder, PerFile, f
    <2>2. \A g \in Files : file'[g] # Absent => g <= f
      BY <1>1, <1>3, <1>4, DataAssumption
    <2>3. \A h \in added[r], g \in Files : file'[g] # Absent => g < h
      <3>1. \A h \in added[r] : h \in Files
        BY DEF TypeOK
      <3>2. \A h \in added[r], g \in Files : g <= f /\ f < h => g < h
        BY <1>0, <1>1, <3>1
      <3> QED
        BY <2>1, <2>2, <3>2
    <2> QED
      BY <1>1, <1>2, <2>1, <2>2, <2>3 DEF FirstIndexAt, InWalkOrder, PerFile, f, c, T
  <1>10. WrittenFromDisk(r)'
    BY <1>1, <1>2, <1>4, <1>5, <1>15 DEF FirstIndexAt, WrittenFromDisk, PerFile
  <1>11. imports' = BackwardImports'
    <2>1. ASSUME NEW e \in BackwardImports
          PROVE  e \in BackwardImports'
      BY <1>1, <1>2, <1>4, <2>1 DEF BackwardImports, Backward
    <2>2. ASSUME NEW e \in {f} \X T, file'[e[2]] # Absent
          PROVE  e \in BackwardImports'
      <3>1. e[1] = f /\ e[2] \in T /\ e = <<e[1], e[2]>>
        BY <2>2
      <3>2. e[2] <= e[1] /\ e[2] \in Files
        BY <1>0, <1>1, <1>2, <1>3, <1>4, <2>2, <3>1
      <3>3. e[2] \in ImportsOf[file'[e[1]]] /\ file'[e[1]] # Absent
        BY <1>1, <1>2, <1>4, <3>1
      <3> QED
        BY <1>1, <2>2, <3>1, <3>2, <3>3 DEF BackwardImports, Backward
    <2>3. ASSUME NEW e \in BackwardImports'
          PROVE  e \in BackwardImports \/ (e \in {f} \X T /\ file'[e[2]] # Absent)
      <3>1. /\ e \in Files \X Files /\ e[2] <= e[1]
            /\ file'[e[1]] # Absent /\ file'[e[2]] # Absent /\ e[2] \in ImportsOf[file'[e[1]]]
        BY <2>3 DEF BackwardImports, Backward
      <3>2. CASE e[1] = f
        <4>1. disk[e[2]] # Absent
          BY <1>1, <1>2, <1>3, <1>4, <3>1
        <4>2. e[2] \in T
          BY <1>1, <1>2, <1>4, <3>1, <3>2, <4>1
        <4> QED
          BY <3>1, <3>2, <4>2
      <3>3. CASE e[1] # f
        <4>1. file[e[1]] # Absent /\ e[1] < f
          BY <1>3, <1>4, <3>1, <3>3
        <4>2. e[2] # f
          BY <1>0, <1>1, <3>1, <4>1
        <4> QED
          BY <1>4, <3>1, <3>3, <4>2 DEF BackwardImports, Backward
      <3> QED
        BY <3>2, <3>3
    <2> QED
      BY <1>6, <1>8, <2>1, <2>2, <2>3
  <1>12. tests' \subseteq BackwardTests'
    <2>1. ASSUME NEW e \in BackwardTests
          PROVE  e \in BackwardTests'
      BY <1>1, <1>2, <1>4, GraphAssumption DEF BackwardTests, Backward
    <2>2. ASSUME f \in TestFiles, NEW e \in {f} \X {f} \X (CallsOf[c] \cap Defines[c])
          PROVE  e \in BackwardTests'
      <3>1. e[1] = f /\ e[2] = f /\ e[3] \in CallsOf[c] \cap Defines[c] /\ e = <<e[1], e[2], e[3]>>
        BY <2>2
      <3>2. f <= f /\ e[3] \in Names
        BY <1>1, <3>1, DataAssumption, ParserAssumption
      <3> QED
        BY <1>1, <1>2, <1>4, <2>2, <3>1, <3>2 DEF BackwardTests, Backward
    <2> QED
      BY <1>7, <1>8, <2>1, <2>2
  <1>13. ASSUME NEW e \in BackwardTests' \ tests'
         PROVE  e[1] = f
    <2>1. /\ e \in TestFiles \X Files \X Names /\ e[2] <= e[1]
          /\ file'[e[1]] # Absent /\ file'[e[2]] # Absent
          /\ e[3] \in CallsOf[file'[e[1]]] \cap Defines[file'[e[2]]]
      BY <1>13 DEF BackwardTests, Backward
    <2>2. SUFFICES ASSUME e[1] # f PROVE FALSE
      OBVIOUS
    <2>3. e[1] \in Files
      BY <2>1, GraphAssumption
    <2>4. file[e[1]] # Absent /\ e[1] < f
      BY <1>3, <1>4, <2>1, <2>2, <2>3
    <2>5. e[2] # f
      BY <1>0, <1>1, <2>1, <2>3, <2>4
    <2>6. e \in BackwardTests
      BY <1>4, <2>1, <2>2, <2>3, <2>5 DEF BackwardTests, Backward
    <2> QED
      BY <1>7, <1>8, <1>13, <2>6
  <1>14. LinkedBackward(r)'
    BY <1>1, <1>11, <1>12, <1>13 DEF LinkedBackward, f
  <1> QED
    BY <1>9, <1>10, <1>14 DEF FirstIndexAt

\* Linking the test cases adds the edges to the paths met so far.
LEMMA FirstLink ==
  ASSUME TypeOK, SymbolsCoverSha, NothingWithoutFile, NEW r \in Runs,
         FirstIndex(r), FirstIndexAt(r), LinkTests(r)
  PROVE  FirstIndexAt(r)'
  <1> DEFINE f == cur[r]
  <1>1. /\ f \in Files /\ pc[r] = "linkTests" /\ pc'[r] = "files"
        /\ UNCHANGED <<disk, file, syms, called, imports, deleted, changed, added>>
    BY DEF TypeOK, LinkTests, LinkTestCases, Goto, PerFile, graph
  <1>2. tests' = IF f \in TestFiles
                 THEN tests \cup {e \in {f} \X Files \X Names : e[3] \in called[f] \cap syms[e[2]]}
                 ELSE tests
    BY DEF LinkTests, LinkTestCases, graph
  <1>3. /\ \A g \in Files : file[g] # Absent => g <= f
        /\ \A g \in Files : file[g] # Absent => syms[g] = Defines[file[g]]
        /\ f \in TestFiles /\ file[f] # Absent => called[f] = CallsOf[file[f]]
        /\ imports = BackwardImports /\ tests \subseteq BackwardTests
        /\ \A e \in BackwardTests \ tests : e[1] = f
    BY <1>1 DEF FirstIndexAt, InWalkOrder, WrittenFromDisk, LinkedBackward, PerFile
  <1>4. BackwardImports' = BackwardImports /\ BackwardTests' = BackwardTests
    BY <1>1 DEF BackwardImports, BackwardTests, Backward
  <1>5. InWalkOrder(r)' /\ WrittenFromDisk(r)'
    BY <1>1 DEF FirstIndexAt, InWalkOrder, WrittenFromDisk, PerFile
  <1> HIDE DEF f
  <1>6. ASSUME f \in TestFiles, NEW e \in {f} \X Files \X Names, e[3] \in called[f] \cap syms[e[2]]
        PROVE  e \in BackwardTests
    <2>1. e[1] = f /\ e[2] \in Files /\ e[3] \in Names /\ e = <<e[1], e[2], e[3]>>
      BY <1>6
    <2>2. file[f] # Absent /\ file[e[2]] # Absent
      BY <1>1, <1>6, <2>1 DEF NothingWithoutFile, SymbolsCoverSha
    <2> QED
      BY <1>1, <1>3, <1>6, <2>1, <2>2 DEF BackwardTests, Backward
  <1>7. ASSUME NEW e \in BackwardTests, e[1] = f
        PROVE  e \in tests'
    <2>1. /\ e \in TestFiles \X Files \X Names
          /\ file[e[1]] # Absent /\ file[e[2]] # Absent
          /\ e[3] \in CallsOf[file[e[1]]] \cap Defines[file[e[2]]]
      BY DEF BackwardTests, Backward
    <2>2. f \in TestFiles /\ e[2] \in Files /\ e[3] \in called[f] \cap syms[e[2]]
      BY <1>1, <1>3, <1>7, <2>1
    <2> QED
      BY <1>2, <1>7, <2>1, <2>2
  <1>8. tests' = BackwardTests'
    BY <1>2, <1>3, <1>4, <1>6, <1>7
  <1>9. LinkedBackward(r)'
    BY <1>1, <1>3, <1>4, <1>8 DEF LinkedBackward, PerFile
  <1> QED
    BY <1>5, <1>9 DEF FirstIndexAt

\* Before the lists are made the graph is empty, and so are they all.
LEMMA FirstHash ==
  ASSUME TypeOK, SymbolsCoverSha, NothingWithoutFile, NEW r \in Runs,
         FirstIndex(r), FirstIndexAt(r), HashFiles(r)
  PROVE  FirstIndexAt(r)'
  <1>1. /\ pc[r] = "hash" /\ pc'[r] = "files" /\ snapshot[r] = NoFile
        /\ UNCHANGED <<disk, file, syms, called, imports, tests>>
        /\ deleted'[r] = GonePaths(r) /\ changed'[r] = ChangedPaths(r)
    BY DEF TypeOK, HashFiles, Goto, graph, FirstIndex
  <1>2. file = NoFile
    BY <1>1 DEF FirstIndexAt, InWalkOrder
  <1>3. deleted'[r] \cup changed'[r] = {}
    BY <1>1 DEF GonePaths, ChangedPaths, NoFile, TypeOK
  <1>4. \A g \in Files : file'[g] = Absent
    BY <1>1, <1>2 DEF NoFile
  <1>5. imports' = {} /\ BackwardImports' = {}
    BY <1>1, <1>4 DEF NothingWithoutFile, TypeOK, GraphTypeOK, BackwardImports, Backward
  <1>6. tests' = {} /\ BackwardTests' = {}
    <2>1. tests = {}
      BY <1>1, <1>4 DEF NothingWithoutFile, TypeOK, GraphTypeOK
    <2>2. ASSUME NEW e \in BackwardTests' PROVE FALSE
      BY <1>4 DEF BackwardTests, Backward
    <2> QED
      BY <1>1, <2>1, <2>2
  <1> QED
    BY <1>1, <1>3, <1>4, <1>5, <1>6
    DEF FirstIndexAt, InWalkOrder, WrittenFromDisk, LinkedBackward, PerFile

\* A turn of the main loop begins at the first path that is left.
LEMMA FirstParse ==
  ASSUME TypeOK, NEW r \in Runs, NEW f \in Files, FirstIndex(r), FirstIndexAt(r), ParseFile(r, f)
  PROVE  FirstIndexAt(r)'
  <1>0. \A g \in Files : g \in Nat
    BY DataAssumption
  <1>1. /\ pc[r] = "files" /\ pc'[r] = "deleteOld" /\ cur'[r] = f /\ IsNext(r, f)
        /\ text'[r] = disk[f] /\ resolved'[r] = {g \in ImportsOf[disk[f]] : disk[g] # Absent}
        /\ changed'[r] = changed[r] \ {f} /\ added'[r] = added[r] \ {f}
        /\ added[r] \subseteq Files
        /\ UNCHANGED <<disk, file, syms, called, imports, tests, deleted>>
    BY DEF TypeOK, ParseFile, Goto, graph
  <1>2. /\ deleted[r] \cup changed[r] = {}
        /\ \A h \in added[r], g \in Files : file[g] # Absent => g < h
    BY <1>1 DEF FirstIndexAt, InWalkOrder
  <1>3. f \in added[r] /\ \A g \in added[r] : f <= g
    BY <1>1, <1>2 DEF IsNext
  <1>4. \A g \in added'[r] : f < g
    BY <1>0, <1>1, <1>3
  <1>5. file[f] = Absent /\ \A g \in Files : file[g] # Absent => g <= f
    BY <1>0, <1>2, <1>3
  <1>6. InWalkOrder(r)'
    BY <1>1, <1>2, <1>4, <1>5 DEF InWalkOrder, PerFile
  <1>7. BackwardImports' = BackwardImports /\ BackwardTests' = BackwardTests
    BY <1>1 DEF BackwardImports, BackwardTests, Backward
  <1> QED
    BY <1>1, <1>6, <1>7 DEF FirstIndexAt, WrittenFromDisk, LinkedBackward, PerFile

\* Nothing is there to be deleted.
LEMMA FirstDelete ==
  ASSUME TypeOK, NEW r \in Runs, FirstIndex(r), FirstIndexAt(r), DeleteOld(r)
  PROVE  FirstIndexAt(r)'
  <1>1. /\ pc[r] = "deleteOld" /\ pc'[r] = "applyBatch"
        /\ UNCHANGED <<disk, deleted, changed, added, cur, text, resolved>>
    BY DEF TypeOK, DeleteOld, Goto, locals
  <1>2. file[cur[r]] = Absent
    BY <1>1 DEF FirstIndexAt, InWalkOrder
  <1>3. UNCHANGED graph
    BY <1>2 DEF DeleteOld, DeleteFileSubgraph
  <1>4. BackwardImports' = BackwardImports /\ BackwardTests' = BackwardTests
    BY <1>3 DEF BackwardImports, BackwardTests, Backward, graph
  <1> QED
    BY <1>1, <1>3, <1>4
    DEF FirstIndexAt, InWalkOrder, WrittenFromDisk, LinkedBackward, PerFile, graph

LEMMA FirstStep ==
  /\ TypeOK /\ SymbolsCoverSha /\ NothingWithoutFile /\ QuietProgress /\ FirstIndexing
  /\ [Next]_vars
  => FirstIndexing'
  <1> SUFFICES ASSUME TypeOK, SymbolsCoverSha, NothingWithoutFile, QuietProgress, FirstIndexing,
                      [Next]_vars, NEW r \in Runs, FirstIndex(r)'
               PROVE  FirstIndexAt(r)'
    BY DEF FirstIndexing, FirstIndexAt
  <1>1. ASSUME NEW m \in Modes, Start(r, m)
        PROVE  pc'[r] = "snapshot"
    BY <1>1 DEF TypeOK, Start, Goto
  <1>2. ASSUME FirstIndex(r)
        PROVE  FirstIndexAt(r)
    BY <1>2 DEF FirstIndexing, FirstIndexAt
  <1>3. CASE quiet[r] /\ disk' = disk /\ (RunStep(r) \/ Crash(r))
    <2> USE <1>3
    <2>1. CASE GetFileSnapshot(r)
      <3>1. snapshot'[r] = file /\ file' = file /\ pc'[r] \in {"clearNodes", "hash"}
        BY <2>1 DEF TypeOK, GetFileSnapshot, Goto, graph
      <3> QED
        BY <3>1 DEF FirstIndex, FirstIndexAt, InWalkOrder, WrittenFromDisk, LinkedBackward, PerFile
    <2>2. CASE Abort(r)
      <3>1. pc'[r] = "failed"
        BY <2>2 DEF TypeOK, Abort, Goto
      <3> QED
        BY <3>1 DEF FirstIndexAt, InWalkOrder, WrittenFromDisk, LinkedBackward, PerFile
    <2>3. CASE ClearNodes(r)
      <3>1. pc'[r] = "clearMeta" /\ file' = NoFile
        BY <2>3 DEF TypeOK, ClearNodes, ClearGraph, Goto
      <3> QED
        BY <3>1 DEF FirstIndexAt, InWalkOrder, WrittenFromDisk, LinkedBackward, PerFile
    <2>4. CASE ~GetFileSnapshot(r)
      <3>1. snapshot' = snapshot \/ Abort(r)
        BY <2>4
        DEF RunStep, Crash, HashFails, ParseFails, ClearNodes, ClearMeta, HashFiles, DeleteGone,
            ParseFile, DeleteOld, ApplyBatch, UpsertModule, LinkTests, SetIndexedNow, locals
      <3>2. CASE snapshot' = snapshot
        <4>1. FirstIndex(r) /\ FirstIndexAt(r)
          BY <1>2, <3>2 DEF FirstIndex
        <4>2. CASE ClearMeta(r)
          <5>1. pc[r] = "clearMeta" /\ pc'[r] = "hash" /\ file' = file
            BY <4>2 DEF TypeOK, ClearMeta, Goto, graph
          <5> QED
            BY <4>1, <5>1 DEF FirstIndexAt, InWalkOrder, WrittenFromDisk, LinkedBackward, PerFile
        <4>3. CASE HashFiles(r)
          BY <4>1, <4>3, FirstHash
        <4>4. ASSUME NEW f \in Files, DeleteGone(r, f)
              PROVE  FALSE
          BY <4>1, <4>4 DEF DeleteGone, FirstIndexAt, InWalkOrder
        <4>5. ASSUME NEW f \in Files, ParseFile(r, f)
              PROVE  FirstIndexAt(r)'
          BY <4>1, <4>5, FirstParse
        <4>6. CASE DeleteOld(r)
          BY <4>1, <4>6, FirstDelete
        <4>7. CASE ApplyBatch(r)
          <5>1. QuietAt(r)
            BY DEF QuietProgress
          <5> QED
            BY <4>1, <4>7, <5>1, FirstBatch
        <4>8. CASE UpsertModule(r) \/ SetIndexedNow(r)
          <5>1. /\ \/ pc[r] = "upsertModule" /\ pc'[r] = "linkTests"
                   \/ pc[r] = "files" /\ pc'[r] = "done"
                /\ UNCHANGED <<disk, file, syms, called, imports, tests, locals>>
            BY <4>8 DEF TypeOK, UpsertModule, MergeModule, SetIndexedNow, Goto, graph
          <5>2. BackwardImports' = BackwardImports /\ BackwardTests' = BackwardTests
            BY <5>1 DEF BackwardImports, BackwardTests, Backward
          <5> QED
            BY <4>1, <5>1, <5>2
            DEF FirstIndexAt, InWalkOrder, WrittenFromDisk, LinkedBackward, PerFile, locals
        <4>9. CASE LinkTests(r)
          BY <4>1, <4>9, FirstLink
        <4> QED
          BY <2>2, <2>3, <2>4, <4>2, <4>3, <4>4, <4>5, <4>6, <4>7, <4>8, <4>9
          DEF RunStep, Crash, HashFails, ParseFails
      <3> QED
        BY <2>2, <3>1, <3>2
    <2> QED
      BY <2>1, <2>4
  <1>4. CASE UNCHANGED vars
    <2>1. FirstIndex(r)
      BY <1>4 DEF vars, locals, graph, FirstIndex
    <2>2. BackwardImports' = BackwardImports /\ BackwardTests' = BackwardTests
      BY <1>4 DEF vars, graph, BackwardImports, BackwardTests, Backward
    <2> QED
      BY <1>2, <1>4, <2>1, <2>2
      DEF vars, locals, graph, FirstIndexAt, InWalkOrder, WrittenFromDisk, LinkedBackward
  <1>5. ASSUME pc'[r] = "snapshot"
        PROVE  FirstIndexAt(r)'
    BY <1>5 DEF FirstIndexAt, InWalkOrder, WrittenFromDisk, LinkedBackward, PerFile
  <1>6. quiet'[r]
    BY DEF FirstIndex
  <1> QED
    BY <1>1, <1>3, <1>4, <1>5, <1>6, QuietSteps

\* The first index of a quiet tree links exactly the imports and tests that go
\* backward in the walk, for any number of runs and whatever was left before.
THEOREM FirstIndexLinks == Spec => []FirstIndexLinksBackward
  <1>1. Init => FirstIndexing
    BY DEF Init, FirstIndexing, FirstIndex
  <1>2. QuietProgress /\ FirstIndexing => FirstIndexLinksBackward
    <2> SUFFICES ASSUME QuietProgress, FirstIndexing, NEW r \in Runs,
                        pc[r] = "done", quiet[r], snapshot[r] = NoFile
                 PROVE  /\ imports = {e \in Files \X Files :
                               /\ e[2] <= e[1]
                               /\ disk[e[1]] # Absent
                               /\ disk[e[2]] # Absent
                               /\ e[2] \in ImportsOf[disk[e[1]]]}
                        /\ tests = {e \in TestFiles \X Files \X Names :
                               /\ e[2] <= e[1]
                               /\ disk[e[1]] # Absent
                               /\ disk[e[2]] # Absent
                               /\ e[3] \in CallsOf[disk[e[1]]] \cap Defines[disk[e[2]]]}
      BY DEF FirstIndexLinksBackward
    <2>1. file = disk
      BY DEF QuietProgress, QuietAt, Mirroring
    <2>2. imports = BackwardImports /\ tests = BackwardTests
      BY DEF FirstIndexing, FirstIndex, LinkedBackward
    <2> QED
      BY <2>1, <2>2 DEF BackwardImports, BackwardTests, Backward
  <1> QED
    BY <1>1, <1>2, QuietInit, QuietStep, FirstStep, Typing, Coverage, Attached, PTL DEF Spec

-----------------------------------------------------------------------------
(* Runs are short.                                                         *)

\* The work lists are finite.
LEMMA ListsFinite ==
  ASSUME TypeOK, NEW r \in Runs
  PROVE  /\ IsFiniteSet(changed[r] \cup added[r]) /\ IsFiniteSet(deleted[r])
         /\ Cardinality(Files) \in Nat
         /\ Cardinality(changed[r] \cup added[r]) \in Nat
         /\ Cardinality(deleted[r]) \in Nat
         /\ Listed(r) \in Nat
  <1>1. changed[r] \cup added[r] \subseteq Files /\ deleted[r] \subseteq Files
    BY DEF TypeOK
  <1>2. IsFiniteSet(changed[r] \cup added[r]) /\ IsFiniteSet(deleted[r])
    BY <1>1, GraphAssumption, FS_Subset
  <1>3. /\ Cardinality(Files) \in Nat
        /\ Cardinality(changed[r] \cup added[r]) \in Nat
        /\ Cardinality(deleted[r]) \in Nat
    BY <1>2, GraphAssumption, FS_CardinalityType
  <1> QED
    BY <1>2, <1>3 DEF Listed

\* Hashing puts each path on one list at most.
LEMMA HashLists ==
  ASSUME TypeOK, NEW r \in Runs, HashFiles(r)
  PROVE  Listed(r)' \in Nat /\ Listed(r)' <= 5 * Cardinality(Files)
  <1> DEFINE X == ChangedPaths(r) \cup NewPaths(r)
             D == GonePaths(r)
  <1>1. X \cap D = {} /\ X \cup D \subseteq Files
    BY DEF TypeOK, ChangedPaths, NewPaths, GonePaths
  <1>2. /\ changed'[r] \cup added'[r] = X /\ deleted'[r] = D
    BY DEF TypeOK, HashFiles
  <1> HIDE DEF X, D
  <1>3. IsFiniteSet(X) /\ IsFiniteSet(D) /\ IsFiniteSet(X \cup D)
    BY <1>1, GraphAssumption, FS_Subset
  <1>4. Cardinality(X) + Cardinality(D) = Cardinality(X \cup D)
    <2>1. Cardinality(X \cup D) = Cardinality(X) + Cardinality(D) - Cardinality(X \cap D)
      BY <1>3, FS_Union
    <2>2. Cardinality(X \cap D) = 0
      BY <1>1, FS_EmptySet
    <2>3. Cardinality(X) \in Nat /\ Cardinality(D) \in Nat
      BY <1>3, FS_CardinalityType
    <2> QED
      BY <2>1, <2>2, <2>3
  <1>5. Cardinality(X \cup D) <= Cardinality(Files)
    BY <1>1, GraphAssumption, FS_Subset
  <1>6. /\ Cardinality(X) \in Nat /\ Cardinality(D) \in Nat
        /\ Cardinality(X \cup D) \in Nat /\ Cardinality(Files) \in Nat
    BY <1>3, GraphAssumption, FS_CardinalityType
  <1>7. Listed(r)' = 5 * Cardinality(X) + Cardinality(D)
    BY <1>2 DEF Listed
  <1>8. /\ 5 * Cardinality(X) + Cardinality(D) \in Nat
        /\ 5 * Cardinality(X) + Cardinality(D) <= 5 * Cardinality(Files)
    BY <1>4, <1>5, <1>6
  <1> QED
    BY <1>7, <1>8

\* A turn of a loop takes its path off.
LEMMA DeleteList ==
  ASSUME TypeOK, NEW r \in Runs, NEW f \in Files, DeleteGone(r, f)
  PROVE  Listed(r)' = Listed(r) - 1
  <1> DEFINE x == Cardinality(changed[r] \cup added[r])
             d == Cardinality(deleted[r])
             e == Cardinality(deleted[r] \ {f})
  <1>1. /\ f \in deleted[r] /\ deleted'[r] = deleted[r] \ {f}
        /\ changed'[r] = changed[r] /\ added'[r] = added[r]
    BY DEF TypeOK, DeleteGone
  <1>2. e = d - 1
    BY <1>1, ListsFinite, FS_RemoveElement
  <1>3. Listed(r) = 5 * x + d /\ Listed(r)' = 5 * x + e
    BY <1>1 DEF Listed
  <1>4. x \in Nat /\ d \in Nat /\ e \in Nat
    BY <1>2, ListsFinite, FS_CardinalityType, FS_RemoveElement
  <1> HIDE DEF x, d, e
  <1> QED
    BY <1>2, <1>3, <1>4

LEMMA ParseList ==
  ASSUME TypeOK, NEW r \in Runs, NEW f \in Files, ParseFile(r, f)
  PROVE  Listed(r)' = Listed(r) - 5
  <1> DEFINE X == changed[r] \cup added[r]
             x == Cardinality(X)
             y == Cardinality(X \ {f})
             d == Cardinality(deleted[r])
  <1>1. /\ f \in X /\ deleted'[r] = deleted[r]
        /\ changed'[r] \cup added'[r] = X \ {f}
    BY DEF TypeOK, ParseFile, IsNext
  <1>2. y = x - 1
    BY <1>1, ListsFinite, FS_RemoveElement
  <1>3. Listed(r) = 5 * x + d /\ Listed(r)' = 5 * y + d
    BY <1>1 DEF Listed
  <1>4. x \in Nat /\ d \in Nat /\ y \in Nat
    BY <1>2, ListsFinite, FS_CardinalityType, FS_RemoveElement
  <1> HIDE DEF x, y, d
  <1> QED
    BY <1>2, <1>3, <1>4

\* What others do is nothing to a run's lists.
LEMMA OthersSteps ==
  ASSUME TypeOK, [Next]_vars, NEW r \in Runs, pc[r] \notin AtRest, ~RunStep(r), ~Crash(r)
  PROVE  StepsLeft(r)' = StepsLeft(r)
  <1> DEFINE Same == /\ pc'[r] = pc[r] /\ changed'[r] = changed[r]
                     /\ added'[r] = added[r] /\ deleted'[r] = deleted[r]
  <1>1. Same
    <2>1. ASSUME NEW q \in Runs, NEW m \in Modes, Start(q, m)
          PROVE  Same
      BY <2>1 DEF TypeOK, Start, Goto
    <2>2. ASSUME NEW q \in Runs \ {r}, RunStep(q) \/ Crash(q)
          PROVE  Same
      BY <2>2, OthersKeep
    <2>3. ASSUME NEW f \in Files, NEW c \in MaybeContent, EditFile(f, c)
          PROVE  Same
      BY <2>3 DEF EditFile, locals
    <2>4. CASE UNCHANGED vars
      BY <2>4 DEF vars, locals
    <2> QED
      BY <2>1, <2>2, <2>3, <2>4 DEF Next
  <1> QED
    BY <1>1 DEF StepsLeft, Listed

\* A run has a step left exactly when it is not at rest.
StepsCounted ==
    \A r \in Runs : /\ StepsLeft(r) \in Nat
                    /\ pc[r] \in AtRest => StepsLeft(r) = 0
                    /\ pc[r] \notin AtRest => StepsLeft(r) > 0

LEMMA StepsNat == TypeOK => StepsCounted
  <1> SUFFICES ASSUME TypeOK, NEW r \in Runs
               PROVE  /\ StepsLeft(r) \in Nat
                      /\ pc[r] \in AtRest => StepsLeft(r) = 0
                      /\ pc[r] \notin AtRest => StepsLeft(r) > 0
    BY DEF StepsCounted
  <1> DEFINE c == Cardinality(Files)
             l == Listed(r)
             s == StepsLeft(r)
  <1>1. c \in Nat /\ l \in Nat
    BY ListsFinite
  <1>2. pc[r] \in AtRest \cup Awaits
    BY DEF TypeOK
  <1>3. /\ pc[r] \in AtRest => s = 0
        /\ pc[r] = "snapshot" => s = 5 * c + 5
        /\ pc[r] = "clearNodes" => s = 5 * c + 4
        /\ pc[r] = "clearMeta" => s = 5 * c + 3
        /\ pc[r] = "hash" => s = 5 * c + 2
        /\ pc[r] = "files" => s = l + 1
        /\ pc[r] = "deleteOld" => s = l + 5
        /\ pc[r] = "applyBatch" => s = l + 4
        /\ pc[r] = "upsertModule" => s = l + 3
        /\ pc[r] = "linkTests" => s = l + 2
    BY DEF StepsLeft, AtRest
  <1> HIDE DEF c, l, s
  <1>4. s \in Nat /\ (pc[r] \in AtRest => s = 0) /\ (pc[r] \notin AtRest => s > 0)
    <2>1. CASE pc[r] \in AtRest
      BY <1>3, <2>1
    <2>2. CASE pc[r] \in {"snapshot", "clearNodes", "clearMeta", "hash"}
      BY <1>1, <1>3, <2>2 DEF AtRest
    <2>3. CASE pc[r] \in {"files"} \cup PerFile
      BY <1>1, <1>3, <2>3 DEF AtRest, PerFile
    <2> QED
      BY <1>2, <2>1, <2>2, <2>3 DEF Awaits, PerFile
  <1> QED
    BY <1>4 DEF s

\* Every step of a run, and its end, takes something off.
LEMMA StepsFall ==
  ASSUME TypeOK, [Next]_vars, NEW r \in Runs, pc[r] \notin AtRest, RunStep(r) \/ Crash(r)
  PROVE  StepsLeft(r)' < StepsLeft(r)
  <1> DEFINE n == 5 * Cardinality(Files)
  <1>1. n \in Nat /\ Listed(r) \in Nat
    <2>1. Cardinality(Files) \in Nat /\ Listed(r) \in Nat
      BY ListsFinite
    <2> QED
      BY <2>1
  <1>2. TypeOK'
    BY NextTypeOK
  <1>3. TypeOK' => StepsCounted'
    BY StepsNat, PTL
  <1>4. StepsLeft(r) \in Nat /\ StepsLeft(r) > 0
    BY StepsNat DEF StepsCounted
  <1>5. ASSUME pc'[r] \in AtRest
        PROVE  StepsLeft(r)' < StepsLeft(r)
    BY <1>2, <1>3, <1>4, <1>5 DEF StepsCounted
  <1> USE DEF AtRest
  <1>6. CASE Abort(r)
    BY <1>5, <1>6 DEF TypeOK, Abort, Goto
  <1>7. CASE GetFileSnapshot(r)
    <2>1. pc[r] = "snapshot" /\ pc'[r] \in {"clearNodes", "hash"}
      BY <1>7 DEF TypeOK, GetFileSnapshot, Goto
    <2> QED
      BY <1>1, <2>1 DEF StepsLeft
  <1>8. CASE ClearNodes(r) \/ ClearMeta(r)
    <2>1. \/ pc[r] = "clearNodes" /\ pc'[r] = "clearMeta"
          \/ pc[r] = "clearMeta" /\ pc'[r] = "hash"
      BY <1>8 DEF TypeOK, ClearNodes, ClearMeta, Goto
    <2> QED
      BY <1>1, <2>1 DEF StepsLeft
  <1>9. CASE HashFiles(r)
    <2>1. pc[r] = "hash" /\ pc'[r] = "files"
      BY <1>9 DEF TypeOK, HashFiles, Goto
    <2>2. Listed(r)' \in Nat /\ Listed(r)' <= n
      BY <1>9, HashLists
    <2> QED
      BY <1>1, <2>1, <2>2 DEF StepsLeft
  <1>10. ASSUME NEW f \in Files, DeleteGone(r, f)
         PROVE  StepsLeft(r)' < StepsLeft(r)
    <2>1. pc[r] = "files" /\ pc'[r] = "files"
      BY <1>10 DEF DeleteGone
    <2>2. Listed(r)' = Listed(r) - 1
      BY <1>10, DeleteList
    <2> QED
      BY <1>1, <2>1, <2>2 DEF StepsLeft
  <1>11. ASSUME NEW f \in Files, ParseFile(r, f)
         PROVE  StepsLeft(r)' < StepsLeft(r)
    <2>1. pc[r] = "files" /\ pc'[r] = "deleteOld"
      BY <1>11 DEF TypeOK, ParseFile, Goto
    <2>2. Listed(r)' = Listed(r) - 5
      BY <1>11, ParseList
    <2> QED
      BY <1>1, <2>1, <2>2 DEF StepsLeft
  <1>12. CASE DeleteOld(r) \/ ApplyBatch(r) \/ UpsertModule(r) \/ LinkTests(r)
    <2>1. \/ pc[r] = "deleteOld" /\ pc'[r] = "applyBatch"
          \/ pc[r] = "applyBatch" /\ pc'[r] = "upsertModule"
          \/ pc[r] = "upsertModule" /\ pc'[r] = "linkTests"
          \/ pc[r] = "linkTests" /\ pc'[r] = "files"
      BY <1>12 DEF TypeOK, DeleteOld, ApplyBatch, UpsertModule, LinkTests, Goto
    <2>2. Listed(r)' = Listed(r)
      BY <1>12 DEF DeleteOld, ApplyBatch, UpsertModule, LinkTests, locals, Listed
    <2> QED
      BY <1>1, <2>1, <2>2 DEF StepsLeft
  <1>13. CASE SetIndexedNow(r)
    BY <1>5, <1>13 DEF TypeOK, SetIndexedNow, Goto
  <1> QED
    BY <1>6, <1>7, <1>8, <1>9, <1>10, <1>11, <1>12, <1>13
    DEF RunStep, Crash, HashFails, ParseFails

\* Whatever the editor and other runs do, a run is over after no more steps
\* than StepsLeft counts when it starts, five for each path and five more.
THEOREM ShortRuns == Spec => RunsAreShort
  <1>1. TypeOK /\ [Next]_vars
        => [\A r \in Runs : pc[r] \notin AtRest =>
               /\ StepsLeft(r)' <= StepsLeft(r)
               /\ RunStep(r) => StepsLeft(r)' < StepsLeft(r)]_vars
    <2> SUFFICES ASSUME TypeOK, [Next]_vars, NEW r \in Runs, pc[r] \notin AtRest
                 PROVE  /\ StepsLeft(r)' <= StepsLeft(r)
                        /\ RunStep(r) => StepsLeft(r)' < StepsLeft(r)
      OBVIOUS
    <2>1. StepsLeft(r) \in Nat
      BY StepsNat DEF StepsCounted
    <2>2. CASE RunStep(r) \/ Crash(r)
      <3>1. StepsLeft(r)' < StepsLeft(r)
        BY <2>2, StepsFall
      <3>2. StepsLeft(r)' \in Nat
        <4>1. TypeOK' => StepsCounted'
          BY StepsNat, PTL
        <4> QED
          BY <4>1, NextTypeOK DEF StepsCounted
      <3> QED
        BY <2>1, <3>1, <3>2
    <2>3. CASE ~RunStep(r) /\ ~Crash(r)
      BY <2>1, <2>3, OthersSteps
    <2> QED
      BY <2>2, <2>3
  <1> QED
    BY <1>1, Typing, PTL DEF Spec, RunsAreShort

-----------------------------------------------------------------------------
(* With one indexing process at a time the graph is exact.                 *)

\* A lone run meets its path without a File node when it applies the batch.
LEMMA SlateStep ==
  ASSUME \A p, q \in Runs : p = q
  PROVE  TypeOK /\ CleanSlate /\ [Next]_vars => CleanSlate'
  <1> SUFFICES ASSUME TypeOK, CleanSlate, [Next]_vars, NEW r \in Runs, pc'[r] = "applyBatch"
               PROVE  file'[cur'[r]] = Absent
    BY DEF CleanSlate
  <1>1. CASE DeleteOld(r)
    BY <1>1 DEF TypeOK, GraphTypeOK, PerFile, DeleteOld, DeleteFileSubgraph, graph, locals
  <1>2. CASE UNCHANGED <<file, pc, cur>>
    BY <1>2 DEF CleanSlate
  <1>3. DeleteOld(r) \/ UNCHANGED <<file, pc, cur>>
    <2>1. ASSUME RunStep(r), ~DeleteOld(r)
          PROVE  FALSE
      BY <2>1
      DEF TypeOK, RunStep, Abort, GetFileSnapshot, ClearNodes, ClearMeta, HashFiles, HashFails,
          DeleteGone, ParseFile, ParseFails, ApplyBatch, UpsertModule, LinkTests, SetIndexedNow, Goto
    <2>2. ASSUME Crash(r) \/ \E m \in Modes : Start(r, m)
          PROVE  FALSE
      BY <2>2 DEF TypeOK, Start, Crash, Abort, Goto
    <2>3. CASE (\E f \in Files, c \in MaybeContent : EditFile(f, c)) \/ UNCHANGED vars
      BY <2>3 DEF EditFile, vars, graph, locals
    <2> QED
      BY <2>1, <2>2, <2>3 DEF Next
  <1> QED
    BY <1>1, <1>2, <1>3

\* So the batch adds the symbols of one text to none.
LEMMA ExactStep ==
  ASSUME \A p, q \in Runs : p = q
  PROVE  /\ TypeOK /\ SymbolsCoverSha /\ NothingWithoutFile /\ CleanSlate
         /\ ShaVouchesForSymbols /\ [Next]_vars
         => ShaVouchesForSymbols'
  <1> SUFFICES ASSUME TypeOK, SymbolsCoverSha, NothingWithoutFile, CleanSlate,
                      ShaVouchesForSymbols, [Next]_vars
               PROVE  ShaVouchesForSymbols'
    OBVIOUS
  <1> USE DEF ShaVouchesForSymbols
  <1>1. CASE UNCHANGED <<file, syms, called>>
    BY <1>1
  <1>2. CASE file' = NoFile
    BY <1>2 DEF NoFile
  <1>3. ASSUME NEW f \in Files, DeleteFileSubgraph(f)
        PROVE  ShaVouchesForSymbols'
    BY <1>3 DEF TypeOK, GraphTypeOK, DeleteFileSubgraph, graph
  <1>4. ASSUME NEW r \in Runs, ApplyBatch(r)
        PROVE  ShaVouchesForSymbols'
    <2>1. /\ cur[r] \in Files /\ text[r] \in Contents
          /\ WriteFile(cur[r], text[r], resolved[r])
          /\ file[cur[r]] = Absent
      BY <1>4 DEF TypeOK, GraphTypeOK, ApplyBatch, PerFile, CleanSlate
    <2>2. syms[cur[r]] = {} /\ called[cur[r]] = {}
      BY <2>1 DEF SymbolsCoverSha
    <2>3. PICK kept \in SUBSET called[cur[r]] :
              called' = IF cur[r] \in TestFiles
                        THEN [called EXCEPT ![cur[r]] = kept \cup CallsOf[text[r]]]
                        ELSE called
      BY <2>1 DEF WriteFile
    <2>4. kept \cup CallsOf[text[r]] = CallsOf[text[r]]
      BY <2>2
    <2>5. called' = IF cur[r] \in TestFiles THEN [called EXCEPT ![cur[r]] = CallsOf[text[r]]]
                                             ELSE called
      BY <2>3, <2>4
    <2>6. /\ file' = [file EXCEPT ![cur[r]] = text[r]]
          /\ syms' = [syms EXCEPT ![cur[r]] = @ \cup Defines[text[r]]]
      BY <2>1 DEF WriteFile, Sha
    <2> QED
      BY <2>1, <2>2, <2>5, <2>6 DEF TypeOK, GraphTypeOK
  <1>5. ASSUME NEW r \in Runs, LinkTests(r)
        PROVE  ShaVouchesForSymbols'
    BY <1>5 DEF LinkTests, graph, LinkTestCases
  <1> QED
    BY <1>1, <1>2, <1>3, <1>4, <1>5, GraphSteps

\* And no edge of an earlier text of the path is left when the new text is in.
LEMMA EdgeStep ==
  ASSUME \A p, q \in Runs : p = q
  PROVE  /\ TypeOK /\ SymbolsCoverSha /\ NothingWithoutFile /\ CleanSlate
         /\ ResolvedFromText /\ ShaVouchesForSymbols /\ EdgesMatchText /\ [Next]_vars
         => EdgesMatchText'
  <1> SUFFICES ASSUME TypeOK, SymbolsCoverSha, NothingWithoutFile, CleanSlate,
                      ResolvedFromText, ShaVouchesForSymbols, EdgesMatchText, [Next]_vars
               PROVE  EdgesMatchText'
    OBVIOUS
  <1> USE DEF EdgesMatchText
  <1>1. CASE UNCHANGED <<file, imports, tests>>
    BY <1>1
  <1>2. CASE imports' = {} /\ tests' = {}
    BY <1>2
  <1>3. ASSUME NEW f \in Files, DeleteFileSubgraph(f)
        PROVE  EdgesMatchText'
    BY <1>3 DEF TypeOK, GraphTypeOK, DeleteFileSubgraph, graph
  <1>4. ASSUME NEW r \in Runs, ApplyBatch(r)
        PROVE  EdgesMatchText'
    <2> DEFINE f == cur[r]
               c == text[r]
    <2>1. /\ f \in Files /\ c \in Contents /\ resolved[r] \subseteq ImportsOf[c]
          /\ WriteFile(f, c, resolved[r])
          /\ file[f] = Absent
      BY <1>4 DEF TypeOK, GraphTypeOK, ApplyBatch, PerFile, CleanSlate, ResolvedFromText
    <2> HIDE DEF f, c
    <2>2. \A g \in Files : file'[g] = IF g = f THEN c ELSE file[g]
      BY <2>1 DEF TypeOK, GraphTypeOK, WriteFile, Sha, ImportEdges, DependencyEdges
    <2>3. ASSUME NEW e \in imports'
          PROVE  file'[e[1]] # Absent /\ file'[e[2]] # Absent /\ e[2] \in ImportsOf[file'[e[1]]]
      <3>1. CASE e \in imports
        BY <2>1, <2>2, <3>1 DEF TypeOK, GraphTypeOK
      <3>2. CASE e \notin imports
        <4>1. e \in {f} \X resolved[r] /\ file'[e[2]] # Absent
          BY <2>1, <3>2 DEF WriteFile, Sha, ImportEdges, DependencyEdges
        <4> QED
          BY <2>1, <2>2, <4>1, GraphAssumption DEF TypeOK, GraphTypeOK
      <3> QED
        BY <3>1, <3>2
    <2>4. ASSUME NEW e \in tests'
          PROVE  /\ file'[e[1]] # Absent /\ file'[e[2]] # Absent
                 /\ e[3] \in CallsOf[file'[e[1]]] \cap Defines[file'[e[2]]]
      <3>1. CASE e \in tests
        BY <2>1, <2>2, <3>1 DEF TypeOK, GraphTypeOK
      <3>2. CASE e \notin tests
        <4>1. e \in {f} \X {f} \X (CallsOf[c] \cap Defines[c])
          BY <2>1, <3>2 DEF WriteFile, Sha, ImportEdges, DependencyEdges
        <4> QED
          BY <2>1, <2>2, <4>1, GraphAssumption
      <3> QED
        BY <3>1, <3>2
    <2> QED
      BY <2>3, <2>4
  <1>5. ASSUME NEW r \in Runs, LinkTests(r)
        PROVE  EdgesMatchText'
    <2>1. cur[r] \in Files /\ file' = file /\ imports' = imports
      BY <1>5 DEF TypeOK, GraphTypeOK, LinkTests, graph, LinkTestCases, PerFile
    <2>2. ASSUME NEW e \in tests', e \notin tests
          PROVE  /\ file[e[1]] # Absent /\ file[e[2]] # Absent
                 /\ e[3] \in CallsOf[file[e[1]]] \cap Defines[file[e[2]]]
      <3>1. /\ cur[r] \in TestFiles
            /\ e \in {cur[r]} \X Files \X Names
            /\ e[3] \in called[cur[r]] \cap syms[e[2]]
        BY <1>5, <2>2 DEF LinkTests, graph, LinkTestCases
      <3>2. e[1] = cur[r] /\ e[2] \in Files
        BY <3>1
      <3>3. file[e[1]] # Absent /\ file[e[2]] # Absent
        BY <2>1, <3>1, <3>2 DEF NothingWithoutFile, SymbolsCoverSha
      <3> QED
        BY <2>1, <3>1, <3>2, <3>3 DEF ShaVouchesForSymbols
    <2> QED
      BY <2>1, <2>2
  <1> QED
    BY <1>1, <1>2, <1>3, <1>4, <1>5, GraphSteps

\* Without overlap, the sha256 an incremental run relies on to skip a file
\* vouches for exactly the symbols and the test case of that text.
THEOREM LoneRunsExact ==
  ASSUME \A p, q \in Runs : p = q
  PROVE  Spec => []ShaVouchesForSymbols
  <1>1. Init => CleanSlate /\ ShaVouchesForSymbols
    BY DEF Init, EmptyGraph, CleanSlate, ShaVouchesForSymbols, NoFile, PerFile
  <1>2. TypeOK /\ CleanSlate /\ [Next]_vars => CleanSlate'
    BY SlateStep
  <1>3. /\ TypeOK /\ SymbolsCoverSha /\ NothingWithoutFile /\ CleanSlate
        /\ ShaVouchesForSymbols /\ [Next]_vars
        => ShaVouchesForSymbols'
    BY ExactStep
  <1> QED
    BY <1>1, <1>2, <1>3, Typing, Coverage, Attached, PTL DEF Spec

\* Without overlap, no IMPORTS or TESTS edge outlives the texts it is from.
THEOREM LoneRunsNoPhantoms ==
  ASSUME \A p, q \in Runs : p = q
  PROVE  Spec => []EdgesMatchText
  <1>1. Init => CleanSlate /\ EdgesMatchText
    BY DEF Init, EmptyGraph, CleanSlate, EdgesMatchText, PerFile
  <1>2. TypeOK /\ CleanSlate /\ [Next]_vars => CleanSlate'
    BY SlateStep
  <1>3. /\ TypeOK /\ SymbolsCoverSha /\ NothingWithoutFile /\ CleanSlate
        /\ ResolvedFromText /\ ShaVouchesForSymbols /\ EdgesMatchText /\ [Next]_vars
        => EdgesMatchText'
    BY EdgeStep
  <1>4. Spec => []ShaVouchesForSymbols
    BY LoneRunsExact
  <1> QED
    BY <1>1, <1>2, <1>3, <1>4, Typing, Coverage, Attached, Resolved, PTL DEF Spec

\* While a lone full run rebuilds the graph, the readiness gate is closed.
THEOREM LoneRunsGated ==
  ASSUME \A p, q \in Runs : p = q
  PROVE  Spec => []GateClosedWhileRebuilding
  <1>1. Init => GateClosedWhileRebuilding
    BY DEF Init, EmptyGraph, GateClosedWhileRebuilding, PerFile
  <1>2. TypeOK /\ QuietProgress /\ GateClosedWhileRebuilding /\ [Next]_vars
        => GateClosedWhileRebuilding'
    <2> SUFFICES ASSUME TypeOK, QuietProgress, GateClosedWhileRebuilding, [Next]_vars,
                        NEW r \in Runs, mode'[r] = "full",
                        pc'[r] \in PerFile \cup {"hash", "files"}
                 PROVE  ~indexed'
      BY DEF GateClosedWhileRebuilding
    <2> USE DEF GateClosedWhileRebuilding, PerFile, AtRest
    <2>1. CASE ClearMeta(r)
      BY <2>1 DEF ClearMeta
    <2>2. ASSUME NEW q \in Runs, \/ \E m \in Modes : Start(q, m)
                                 \/ Abort(q)
                                 \/ ClearNodes(q)
                                 \/ SetIndexedNow(q)
          PROVE  FALSE
      BY <2>2 DEF TypeOK, GraphTypeOK, Start, Abort, DropLocals, ClearNodes, ClearGraph,
                  SetIndexedNow, Goto, locals
    <2>3. ASSUME NEW q \in Runs, GetFileSnapshot(q)
          PROVE  FALSE
      BY <2>3 DEF TypeOK, GraphTypeOK, GetFileSnapshot, Goto
    <2>4. ASSUME NEW q \in Runs, \/ HashFiles(q)
                                 \/ \E f \in Files : DeleteGone(q, f) \/ ParseFile(q, f)
                                 \/ DeleteOld(q)
                                 \/ ApplyBatch(q)
                                 \/ UpsertModule(q)
                                 \/ LinkTests(q)
          PROVE  ~indexed'
      BY <2>4 DEF TypeOK, GraphTypeOK, HashFiles, DeleteGone, ParseFile, DeleteOld,
                  ApplyBatch, UpsertModule, MergeModule,
          LinkTests, graph, LinkTestCases, Goto, locals
    <2>5. CASE UNCHANGED <<mode, pc, indexed>>
      BY <2>5
    <2> QED
      BY <2>1, <2>2, <2>3, <2>4, <2>5
      DEF Next, RunStep, HashFails, ParseFails, Crash, EditFile, vars, locals
  <1> QED
    BY <1>1, <1>2, Typing, QuietInit, QuietStep, PTL DEF Spec
=============================================================================
