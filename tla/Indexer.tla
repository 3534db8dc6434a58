------------------------------ MODULE Indexer ------------------------------
(***************************************************************************)
(* One indexing run (indexRepo) against the Neo4j code graph, as a process *)
(* that other runs, an editor and crashes interleave with.  Every await of *)
(* indexRepo is a step of its own: between two of them the working tree    *)
(* and the graph may change.  Runs is the set of indexing processes that   *)
(* may be alive at once: the CLI's "graph create" and "setup", and the     *)
(* timer callbacks of "watch".  Nothing in the code excludes two of them.  *)
(***************************************************************************)
EXTENDS CodeGraph

CONSTANTS
    Runs,       \* indexing processes that may be alive at once
    Broken,     \* the texts on which parseFile throws
    Modes       \* the modes runs are started in

\* The order of the paths as numbers is the walk's order.
ASSUME DataAssumption ==
    /\ Files \subseteq Nat
    /\ Broken \subseteq Contents
    /\ Modes \subseteq {"full", "incremental"}

VARIABLES
    disk,       \* the working tree: [Files -> Contents or Absent]
    indexed,    \* GraphMeta.indexed_at is set
    \* locals of each run
    pc,         \* where the run is
    mode,       \* "full" or "incremental"
    relpaths,   \* the paths iterRepoFiles listed
    snapshot,   \* what getFileSnapshot returned
    deleted,    \* snapshot paths still to be removed
    changed,    \* snapshot paths still to be re-indexed
    added,      \* new paths still to be indexed
    cur,        \* the path being indexed
    text,       \* its text, as read for parsing
    resolved,   \* the import targets that existed when it was parsed
    \* history, read by properties only
    quiet       \* no edit and no other run since the run started

locals == <<mode, relpaths, snapshot, deleted, changed, added, cur, text, resolved>>
vars == <<disk, graph, indexed, pc, locals, quiet>>

AtRest == {"idle", "done", "failed"}
Awaits == {"snapshot", "clearNodes", "clearMeta", "hash", "files",
           "deleteOld", "applyBatch", "upsertModule", "linkTests"}
PerFile == {"deleteOld", "applyBatch", "upsertModule", "linkTests"}

TypeOK ==
    /\ GraphTypeOK
    /\ disk \in [Files -> MaybeContent]
    /\ indexed \in BOOLEAN
    /\ pc \in [Runs -> AtRest \cup Awaits]
    /\ mode \in [Runs -> {"full", "incremental"}]
    /\ relpaths \in [Runs -> SUBSET Files]
    /\ snapshot \in [Runs -> [Files -> MaybeContent]]
    /\ deleted \in [Runs -> SUBSET Files]
    /\ changed \in [Runs -> SUBSET Files]
    /\ added \in [Runs -> SUBSET Files]
    /\ cur \in [Runs -> Files \cup {Absent}]
    /\ text \in [Runs -> MaybeContent]
    /\ resolved \in [Runs -> SUBSET Files]
    /\ quiet \in [Runs -> BOOLEAN]
    /\ \A r \in Runs : pc[r] \in PerFile => cur[r] \in Files /\ text[r] \in Contents

-----------------------------------------------------------------------------
Init ==
    /\ disk \in [Files -> MaybeContent]
    /\ EmptyGraph
    /\ indexed = FALSE
    /\ pc = [r \in Runs |-> "idle"]
    /\ mode = [r \in Runs |-> "incremental"]
    /\ relpaths = [r \in Runs |-> {}]
    /\ snapshot = [r \in Runs |-> NoFile]
    /\ deleted = [r \in Runs |-> {}]
    /\ changed = [r \in Runs |-> {}]
    /\ added = [r \in Runs |-> {}]
    /\ cur = [r \in Runs |-> Absent]
    /\ text = [r \in Runs |-> Absent]
    /\ resolved = [r \in Runs |-> {}]
    /\ quiet = [r \in Runs |-> FALSE]

Goto(r, l) == pc' = [pc EXCEPT ![r] = l]

DropLocals(r) ==
    /\ relpaths' = [relpaths EXCEPT ![r] = {}]
    /\ deleted' = [deleted EXCEPT ![r] = {}]
    /\ changed' = [changed EXCEPT ![r] = {}]
    /\ added' = [added EXCEPT ![r] = {}]
    /\ cur' = [cur EXCEPT ![r] = Absent]
    /\ text' = [text EXCEPT ![r] = Absent]
    /\ resolved' = [resolved EXCEPT ![r] = {}]
    /\ UNCHANGED <<mode, snapshot>>

\* The run rejects or its process dies: its locals are gone, what it wrote
\* stays.
MRunsOn(r) == DropLocals(r) /\ UNCHANGED <<disk, graph, indexed, pc, quiet>>
Abort(r) ==
    /\ Goto(r, "failed")
    /\ DropLocals(r)
    /\ UNCHANGED <<disk, graph, indexed, quiet>>

\* indexRepo is called: the walk lists the files there are.
Start(r, m) ==
    /\ pc[r] \in AtRest
    /\ Goto(r, "snapshot")
    /\ mode' = [mode EXCEPT ![r] = m]
    /\ relpaths' = [relpaths EXCEPT ![r] = {f \in Files : disk[f] # Absent}]
    /\ quiet' = [s \in Runs |-> s = r /\ \A q \in Runs \ {r} : pc[q] \in AtRest]
    /\ UNCHANGED <<disk, graph, indexed, snapshot, deleted, changed, added, cur, text, resolved>>

GetFileSnapshot(r) ==
    /\ pc[r] = "snapshot"
    /\ snapshot' = [snapshot EXCEPT ![r] = file]
    /\ Goto(r, IF mode[r] = "full" THEN "clearNodes" ELSE "hash")
    /\ UNCHANGED <<disk, graph, indexed, mode, relpaths, deleted, changed, added, cur, text,
                   resolved, quiet>>

\* clearGraph is three statements without a transaction around them.  The
\* third one deletes WarmCache nodes only and changes nothing here.
ClearNodes(r) ==
    /\ pc[r] = "clearNodes"
    /\ ClearGraph
    /\ Goto(r, "clearMeta")
    /\ UNCHANGED <<disk, indexed, locals, quiet>>

MKeepsIndexedAt(r) ==
    /\ pc[r] = "clearMeta"
    /\ Goto(r, "hash")
    /\ UNCHANGED <<disk, graph, indexed, locals, quiet>>
ClearMeta(r) ==
    /\ pc[r] = "clearMeta"
    /\ indexed' = FALSE
    /\ Goto(r, "hash")
    /\ UNCHANGED <<disk, graph, locals, quiet>>

\* The snapshot against the hashes of the listed files.
MNothingGone(r) == {}
GonePaths(r) == {f \in Files : snapshot[r][f] # Absent /\ f \notin relpaths[r]}
MAllChanged(r) == {f \in relpaths[r] : snapshot[r][f] # Absent}
ChangedPaths(r) == {f \in relpaths[r] : snapshot[r][f] \notin {Absent, disk[f]}}
NewPaths(r) == {f \in relpaths[r] : snapshot[r][f] = Absent}

\* Every listed file is read and hashed.  The editor may write between two
\* reads, but as edits of different files commute, reading all of them at one
\* instant loses no outcome.
HashFiles(r) ==
    /\ pc[r] = "hash"
    /\ \A f \in relpaths[r] : disk[f] # Absent
    /\ deleted' = [deleted EXCEPT ![r] = GonePaths(r)]
    /\ changed' = [changed EXCEPT ![r] = ChangedPaths(r)]
    /\ added' = [added EXCEPT ![r] = NewPaths(r)]
    /\ relpaths' = [relpaths EXCEPT ![r] = {}]
    /\ Goto(r, "files")
    /\ UNCHANGED <<disk, graph, indexed, mode, snapshot, cur, text, resolved, quiet>>

\* A listed file has gone before it is read: readFileSync throws.
HashFails(r) ==
    /\ pc[r] = "hash"
    /\ \E f \in relpaths[r] : disk[f] = Absent
    /\ Abort(r)

\* One turn of the loop over deleted; the snapshot lists them in any order.
MDeletesForever(r, f) ==
    /\ pc[r] = "files"
    /\ f \in deleted[r]
    /\ DeleteFileSubgraph(f)
    /\ UNCHANGED <<disk, indexed, pc, locals, quiet>>
DeleteGone(r, f) ==
    /\ pc[r] = "files"
    /\ f \in deleted[r]
    /\ DeleteFileSubgraph(f)
    /\ deleted' = [deleted EXCEPT ![r] = @ \ {f}]
    /\ UNCHANGED <<disk, indexed, pc, mode, relpaths, snapshot, changed, added, cur, text,
                   resolved, quiet>>

\* changedUnique: the changed snapshot paths in any order, then the new paths
\* in the walk's order.
IsNext(r, f) ==
    /\ deleted[r] = {}
    /\ \/ f \in changed[r]
       \/ /\ changed[r] = {}
          /\ f \in added[r]
          /\ \A g \in added[r] : f <= g

\* The head of a turn of the main loop: the file is read again and parsed,
\* and its imports are resolved against the tree of this moment.
ParseFile(r, f) ==
    /\ pc[r] = "files"
    /\ IsNext(r, f)
    /\ disk[f] \notin Broken \cup {Absent}
    /\ cur' = [cur EXCEPT ![r] = f]
    /\ text' = [text EXCEPT ![r] = disk[f]]
    /\ resolved' = [resolved EXCEPT ![r] = {g \in ImportsOf[disk[f]] : disk[g] # Absent}]
    /\ changed' = [changed EXCEPT ![r] = @ \ {f}]
    /\ added' = [added EXCEPT ![r] = @ \ {f}]
    /\ Goto(r, "deleteOld")
    /\ UNCHANGED <<disk, graph, indexed, mode, relpaths, snapshot, deleted, quiet>>

\* The file has gone, or PARSE_ERROR: the whole run rejects.
ParseFails(r, f) ==
    /\ pc[r] = "files"
    /\ IsNext(r, f)
    /\ disk[f] \in Broken \cup {Absent}
    /\ Abort(r)

MKeepsOld(r) ==
    /\ pc[r] = "deleteOld"
    /\ Goto(r, "applyBatch")
    /\ UNCHANGED <<disk, graph, indexed, locals, quiet>>
DeleteOld(r) ==
    /\ pc[r] = "deleteOld"
    /\ DeleteFileSubgraph(cur[r])
    /\ Goto(r, "applyBatch")
    /\ UNCHANGED <<disk, indexed, locals, quiet>>

MNodesFirst(r) ==
    /\ pc[r] = "applyBatch"
    /\ file' = [file EXCEPT ![cur[r]] = text[r]]
    /\ syms' = [syms EXCEPT ![cur[r]] = @ \cup Defines[text[r]]]
    /\ UNCHANGED <<called, imports, tests, modules, dependsOn>>
    /\ Goto(r, "upsertModule")
    /\ UNCHANGED <<disk, indexed, locals, quiet>>
ApplyBatch(r) ==
    /\ pc[r] = "applyBatch"
    /\ WriteFile(cur[r], text[r], resolved[r])
    /\ Goto(r, "upsertModule")
    /\ UNCHANGED <<disk, indexed, locals, quiet>>

UpsertModule(r) ==
    /\ pc[r] = "upsertModule"
    /\ MergeModule(cur[r])
    /\ Goto(r, "linkTests")
    /\ UNCHANGED <<disk, indexed, locals, quiet>>

\* The tail of the turn: test cases are linked for a test file only.
MLooksAgain(r) ==
    /\ pc[r] = "linkTests"
    /\ IF cur[r] \in TestFiles THEN LinkTestCases(cur[r]) ELSE UNCHANGED graph
    /\ changed' = [changed EXCEPT ![r] = {f \in Files : file[f] \notin {Absent, disk[f]}}]
    /\ cur' = [cur EXCEPT ![r] = Absent]
    /\ text' = [text EXCEPT ![r] = Absent]
    /\ resolved' = [resolved EXCEPT ![r] = {}]
    /\ Goto(r, "files")
    /\ UNCHANGED <<disk, indexed, mode, relpaths, snapshot, deleted, added, quiet>>
LinkTests(r) ==
    /\ pc[r] = "linkTests"
    /\ IF cur[r] \in TestFiles THEN LinkTestCases(cur[r]) ELSE UNCHANGED graph
    /\ cur' = [cur EXCEPT ![r] = Absent]
    /\ text' = [text EXCEPT ![r] = Absent]
    /\ resolved' = [resolved EXCEPT ![r] = {}]
    /\ Goto(r, "files")
    /\ UNCHANGED <<disk, indexed, mode, relpaths, snapshot, deleted, changed, added, quiet>>

SetIndexedNow(r) ==
    /\ pc[r] = "files"
    /\ deleted[r] \cup changed[r] \cup added[r] = {}
    /\ indexed' = TRUE
    /\ Goto(r, "done")
    /\ UNCHANGED <<disk, graph, locals, quiet>>

\* The process is killed, or a statement is refused by the database.
Crash(r) ==
    /\ pc[r] \notin AtRest
    /\ Abort(r)

\* The editor creates, changes or removes a file at any time.
EditFile(f, c) ==
    /\ disk[f] # c
    /\ disk' = [disk EXCEPT ![f] = c]
    /\ quiet' = [r \in Runs |-> FALSE]
    /\ UNCHANGED <<graph, indexed, pc, locals>>

RunStep(r) ==
    \/ GetFileSnapshot(r)
    \/ ClearNodes(r)
    \/ ClearMeta(r)
    \/ HashFiles(r)
    \/ HashFails(r)
    \/ \E f \in Files : DeleteGone(r, f) \/ ParseFile(r, f) \/ ParseFails(r, f)
    \/ DeleteOld(r)
    \/ ApplyBatch(r)
    \/ UpsertModule(r)
    \/ LinkTests(r)
    \/ SetIndexedNow(r)

Next ==
    \/ \E r \in Runs : \/ \E m \in Modes : Start(r, m)
                       \/ RunStep(r)
                       \/ Crash(r)
    \/ \E f \in Files, c \in MaybeContent : EditFile(f, c)

\* A started run keeps taking its steps: awaits are resumed by the event loop
\* and the database answers or refuses.  Starts, edits and crashes are free.
Spec == Init /\ [][Next]_vars
FairSpec == Spec /\ \A r \in Runs : WF_vars(RunStep(r))

-----------------------------------------------------------------------------
(* Properties that hold for any number of overlapping runs.                *)

\* Whoever writes the graph and wherever runs die, the symbols of the text a
\* File node records are all there, and so is all its test case calls; without
\* a File node, or of a file that is no test, there are none: applyBatch writes
\* them in one transaction and deleteFileSubgraph removes them in one statement.
\* (Two runs may leave more symbols and test cases than that, of other texts.)
SymbolsCoverSha ==
    \A f \in Files :
        IF file[f] = Absent
        THEN syms[f] = {} /\ called[f] = {}
        ELSE /\ Defines[file[f]] \subseteq syms[f]
             /\ IF f \in TestFiles THEN CallsOf[file[f]] \subseteq called[f]
                                   ELSE called[f] = {}

\* The module level never misses a dependency the file level shows: an IMPORTS
\* edge across modules has its DEPENDS_ON edge, and every indexed file its
\* Module node, although files go and come and clearGraph may hit at any await.
ModuleGraphCovers ==
    /\ \A f \in Files : file[f] # Absent => ModuleOf[f] \in modules
    /\ \A e \in imports : \/ ModuleOf[e[1]] = ModuleOf[e[2]]
                          \/ <<ModuleOf[e[1]], ModuleOf[e[2]]>> \in dependsOn

\* What incremental indexing is for: when a run finishes that nobody edited
\* next to and no other run was alive with, the File nodes are the files of the
\* working tree, each with the sha256 of its text, whatever earlier runs left
\* behind by crashing, failing or overlapping.  A run whose snapshot was empty
\* does so too, in either mode.
QuietRunMirrorsDisk ==
    \A r \in Runs :
        pc[r] = "done" /\ quiet[r] /\ (mode[r] = "incremental" \/ snapshot[r] = NoFile)
            => file = disk

\* What overlapping runs leave at a path of texts that are gone does not outlive
\* the next run that indexes it undisturbed: from its batch on there are just
\* the functions and called names of the text it has read.
QuietRunsHeal ==
    \A r \in Runs : quiet[r] /\ pc[r] \in {"upsertModule", "linkTests"} =>
        /\ file[cur[r]] = text[r]
        /\ syms[cur[r]] = Defines[text[r]]
        /\ cur[r] \in TestFiles => called[cur[r]] = CallsOf[text[r]]

\* What a first index of a quiet tree links, exactly: an edge to a file that is
\* not later in the walk's order, for only its nodes are there when the batch
\* of the edge's source is applied.
FirstIndexLinksBackward ==
    \A r \in Runs : pc[r] = "done" /\ quiet[r] /\ snapshot[r] = NoFile =>
        /\ imports = {e \in Files \X Files :
               /\ e[2] <= e[1]
               /\ disk[e[1]] # Absent
               /\ disk[e[2]] # Absent
               /\ e[2] \in ImportsOf[disk[e[1]]]}
        /\ tests = {e \in TestFiles \X Files \X Names :
               /\ e[2] <= e[1]
               /\ disk[e[1]] # Absent
               /\ disk[e[2]] # Absent
               /\ e[3] \in CallsOf[disk[e[1]]] \cap Defines[disk[e[2]]]}

\* An incremental run leaves alone what has not changed: one that is alone,
\* while nobody edits, removes no File node that is as in the tree (and with it
\* the edges other files have into it).
UnchangedFilesKept ==
    [][\A f \in Files :
          (file[f] # Absent /\ file'[f] = Absent /\ file[f] = disk[f])
              => \E r \in Runs : pc[r] \notin AtRest /\ (mode[r] = "full" \/ ~quiet[r])]_vars

\* Every started run comes to rest, however the tree is edited meanwhile: the
\* two loops of indexRepo run over lists fixed before they start.
RunsEnd == \A r \in Runs : pc[r] \notin AtRest ~> pc[r] \in AtRest

\* How many steps a run may still take: five for each path to be indexed, one
\* for each to be removed, and those of the awaits before the loops.
Listed(r) == 5 * Cardinality(changed[r] \cup added[r]) + Cardinality(deleted[r])
StepsLeft(r) ==
    CASE pc[r] \in AtRest -> 0
      [] pc[r] = "snapshot" -> 5 * Cardinality(Files) + 5
      [] pc[r] = "clearNodes" -> 5 * Cardinality(Files) + 4
      [] pc[r] = "clearMeta" -> 5 * Cardinality(Files) + 3
      [] pc[r] = "hash" -> 5 * Cardinality(Files) + 2
      [] pc[r] = "files" -> Listed(r) + 1
      [] pc[r] = "deleteOld" -> Listed(r) + 5
      [] pc[r] = "applyBatch" -> Listed(r) + 4
      [] pc[r] = "upsertModule" -> Listed(r) + 3
      [] pc[r] = "linkTests" -> Listed(r) + 2

\* Why runs end: each step of a run takes one off, and no save, crash or other
\* run gives it more to do; what the editor does meanwhile waits for the next.
RunsAreShort ==
    [][\A r \in Runs : pc[r] \notin AtRest =>
           /\ StepsLeft(r)' <= StepsLeft(r)
           /\ RunStep(r) => StepsLeft(r)' < StepsLeft(r)]_vars

-----------------------------------------------------------------------------
(* Properties that need a single indexing process at a time.               *)

\* The sha256 of a File node vouches for the file's subgraph: later
\* incremental runs skip the file on its word.
ShaVouchesForSymbols ==
    \A f \in Files : file[f] # Absent =>
        /\ syms[f] = Defines[file[f]]
        /\ f \in TestFiles => called[f] = CallsOf[file[f]]

\* No phantom edge: an IMPORTS or TESTS edge is one that the recorded texts of
\* its two ends account for.
EdgesMatchText ==
    /\ \A e \in imports : /\ file[e[1]] # Absent
                          /\ file[e[2]] # Absent
                          /\ e[2] \in ImportsOf[file[e[1]]]
    /\ \A e \in tests : /\ file[e[1]] # Absent
                        /\ file[e[2]] # Absent
                        /\ e[3] \in CallsOf[file[e[1]]] \cap Defines[file[e[2]]]

\* From the second statement of clearGraph to setIndexedNow the readiness gate
\* (ensureScopeReady reads indexed_at) is closed: no tool call is answered
\* from the graph a full run is rebuilding.
GateClosedWhileRebuilding ==
    \A r \in Runs : mode[r] = "full" /\ pc[r] \in PerFile \cup {"hash", "files"} => ~indexed

-----------------------------------------------------------------------------
(* Inductive strengthenings of the properties above, for the proofs.       *)

\* A path without a File node has no test case, and no edge.
NothingWithoutFile ==
    /\ \A f \in Files : file[f] = Absent => called[f] = {}
    /\ \A e \in imports : file[e[1]] # Absent /\ file[e[2]] # Absent
    /\ \A e \in tests : file[e[1]] # Absent /\ file[e[2]] # Absent

\* The imports were resolved from the text to be written.
ResolvedFromText == \A r \in Runs : pc[r] \in PerFile => resolved[r] \subseteq ImportsOf[text[r]]

\* Between deleteFileSubgraph and applyBatch the path of a lone run has no
\* File node.
CleanSlate == \A r \in Runs : pc[r] = "applyBatch" => file[cur[r]] = Absent

\* A run that is to leave the working tree in the graph.
Mirroring(r) == quiet[r] /\ (mode[r] = "incremental" \/ snapshot[r] = NoFile)

\* A quiet run has nothing at the path it is about to write.
Healing ==
    /\ QuietRunsHeal
    /\ \A r \in Runs : quiet[r] /\ pc[r] = "applyBatch" => file[cur[r]] = Absent

\* What the run still has to do, or is doing, before the graph agrees.
Owed(r) ==
    deleted[r] \cup changed[r] \cup added[r]
        \cup (IF pc[r] \in {"deleteOld", "applyBatch"} THEN {cur[r]} ELSE {})

\* At each await of a quiet run: nobody else runs; the list, the snapshot and
\* the text are current; and every path that is not owed already agrees.
QuietAt(r) ==
    /\ quiet[r] => \A q \in Runs : q = r \/ pc[q] \in AtRest
    /\ pc[r] \in {"clearNodes", "clearMeta"} => mode[r] = "full"
    /\ quiet[r] /\ pc[r] \in {"snapshot", "clearNodes", "clearMeta", "hash"}
           => relpaths[r] = {f \in Files : disk[f] # Absent}
    /\ Mirroring(r) /\ pc[r] \in {"clearMeta", "hash"} => file = snapshot[r]
    /\ Mirroring(r) /\ pc[r] \in PerFile \cup {"files"} =>
           /\ \A f \in deleted[r] : disk[f] = Absent
           /\ \A f \in Files \ Owed(r) : file[f] = disk[f]
    /\ quiet[r] /\ pc[r] \in PerFile => text[r] = disk[cur[r]]
    /\ Mirroring(r) /\ pc[r] = "done" => file = disk

QuietProgress == \A r \in Runs : QuietAt(r)

\* A quiet incremental run has only work left at paths that are not as in the
\* tree, and each of them once.
OnlyWhatDiffers ==
    \A r \in Runs : quiet[r] /\ mode[r] = "incremental" =>
        /\ pc[r] \in PerFile \cup {"files"} =>
               \A f \in changed[r] \cup added[r] : disk[f] # Absent /\ file[f] # disk[f]
        /\ pc[r] \in PerFile => cur[r] \notin changed[r] \cup added[r]
        /\ pc[r] = "deleteOld" => file[cur[r]] # disk[cur[r]]

\* The edges between the recorded texts that go backward in the walk.
Backward(e) == e[2] <= e[1] /\ file[e[1]] # Absent /\ file[e[2]] # Absent
BackwardImports == {e \in Files \X Files : Backward(e) /\ e[2] \in ImportsOf[file[e[1]]]}
BackwardTests ==
    {e \in TestFiles \X Files \X Names :
        Backward(e) /\ e[3] \in CallsOf[file[e[1]]] \cap Defines[file[e[2]]]}

\* A quiet first index has met the paths in the walk's order, with nothing
\* there before the first one; what is in the graph was all written by it.
FirstIndex(r) == quiet[r] /\ snapshot[r] = NoFile
InWalkOrder(r) ==
    /\ pc[r] \in {"clearNodes", "clearMeta", "hash"} => file = NoFile
    /\ pc[r] \in PerFile \cup {"files"} =>
           /\ deleted[r] \cup changed[r] = {}
           /\ \A f \in added[r], g \in Files : file[g] # Absent => g < f
    /\ pc[r] \in PerFile =>
           /\ \A f \in added[r] : cur[r] < f
           /\ \A g \in Files : file[g] # Absent => g <= cur[r]
           /\ resolved[r] = {g \in ImportsOf[text[r]] : disk[g] # Absent}
    /\ pc[r] \in {"deleteOld", "applyBatch"} => file[cur[r]] = Absent
WrittenFromDisk(r) ==
    pc[r] \in PerFile \cup {"files", "done"} =>
        \A f \in Files : file[f] # Absent =>
            /\ file[f] = disk[f]
            /\ syms[f] = Defines[file[f]]
            /\ f \in TestFiles => called[f] = CallsOf[file[f]]
LinkedBackward(r) ==
    pc[r] \in PerFile \cup {"files", "done"} =>
        /\ imports = BackwardImports
        /\ tests \subseteq BackwardTests
        /\ \A e \in BackwardTests \ tests : pc[r] \in {"upsertModule", "linkTests"} /\ e[1] = cur[r]

FirstIndexing ==
    \A r \in Runs : FirstIndex(r) => InWalkOrder(r) /\ WrittenFromDisk(r) /\ LinkedBackward(r)

-----------------------------------------------------------------------------
(* What the repository says of the program, and the code does not do.      *)

\* README.md:71-75 and the CLI's "full reindex" option: a full run on a quiet
\* tree puts the working tree into the graph.
FullReindexMirrorsDisk ==
    \A r \in Runs : pc[r] = "done" /\ quiet[r] /\ mode[r] = "full" => file = disk

\* docs/adr/0001-storage-and-ids.md:13, "incremental indexing is reliable": a
\* quiet incremental run leaves at least the import edges that indexing the
\* same tree for the first time does (FirstIndexLinksBackward), whose targets
\* and sources were both there to be linked.
ReindexLinksLikeFirst ==
    \A r \in Runs : pc[r] = "done" /\ quiet[r] /\ mode[r] = "incremental" =>
        \A e \in Files \X Files :
            e[2] <= e[1] /\ disk[e[1]] # Absent /\ disk[e[2]] # Absent
                        /\ e[2] \in ImportsOf[disk[e[1]]] => e \in imports
=============================================================================
