----------------------------- MODULE CodeGraph -----------------------------
(***************************************************************************)
(* The code graph of one repository in Neo4j, and what each call of        *)
(* Neo4jRepository that writes it does in one statement or transaction.    *)
(* Indexer and Watch say when they are called, Queries what tool calls     *)
(* read in between.                                                        *)
(*                                                                         *)
(* Data abstraction.  A file's text is a member of Contents, and stands    *)
(* for its own sha256.  What the parser extracts from a text is given by   *)
(* the constants Defines (names of the Function symbols), ImportsOf (the   *)
(* relative import targets) and CallsOf (called_names of its test case; a  *)
(* test file has one test function).  CALLS, READS and WRITES edges live   *)
(* and die with the symbols they start from and are not told apart from    *)
(* them; Dir, Concept, DataObject and Field nodes are left out.            *)
(*                                                                         *)
(* An operator whose name begins with M and that stands before a           *)
(* definition is a mutant of it: what the code would be with a plausible   *)
(* bug.  PROJECT.json says which property tells the two apart.             *)
(***************************************************************************)
EXTENDS Naturals, FiniteSets

CONSTANTS
    Files,      \* relative paths
    Contents,   \* texts a file may have
    Names,      \* names of functions
    Modules,    \* top-level path segments
    TestFiles,  \* the paths isTestFile accepts
    Defines,    \* [Contents -> SUBSET Names]
    ImportsOf,  \* [Contents -> SUBSET Files]
    CallsOf,    \* [Contents -> SUBSET Names]
    ModuleOf,   \* [Files -> Modules]
    Absent      \* no file, no File node

ASSUME GraphAssumption ==
    /\ IsFiniteSet(Files)
    /\ Absent \notin Contents
    /\ TestFiles \subseteq Files

ASSUME ParserAssumption ==
    /\ Defines \in [Contents -> SUBSET Names]
    /\ ImportsOf \in [Contents -> SUBSET Files]
    /\ CallsOf \in [Contents -> SUBSET Names]
    /\ ModuleOf \in [Files -> Modules]

VARIABLES
    file,       \* sha256 of each File node
    syms,       \* names of the Function symbols of each path
    called,     \* called_names of the TestCase nodes of each path
    imports,    \* IMPORTS edges between File nodes
    tests,      \* TESTS edges: <<test file, file, function>>
    modules,    \* Module nodes
    dependsOn   \* DEPENDS_ON edges between modules

graph == <<file, syms, called, imports, tests, modules, dependsOn>>

MaybeContent == Contents \cup {Absent}
NoFile == [f \in Files |-> Absent]
NoNames == [f \in Files |-> {}]

GraphTypeOK ==
    /\ file \in [Files -> MaybeContent]
    /\ syms \in [Files -> SUBSET Names]
    /\ called \in [Files -> SUBSET Names]
    /\ imports \subseteq Files \X Files
    /\ tests \subseteq Files \X Files \X Names
    /\ modules \subseteq Modules
    /\ dependsOn \subseteq Modules \X Modules

EmptyGraph ==
    /\ file = NoFile
    /\ syms = NoNames
    /\ called = NoNames
    /\ imports = {}
    /\ tests = {}
    /\ modules = {}
    /\ dependsOn = {}

-----------------------------------------------------------------------------
(* The graph: what each repository call does to it.                        *)

\* The first statement of clearGraph.
ClearGraph ==
    /\ file' = NoFile
    /\ syms' = NoNames
    /\ called' = NoNames
    /\ imports' = {}
    /\ tests' = {}
    /\ modules' = {}
    /\ dependsOn' = {}

\* deleteFileSubgraph: the File node, what it CONTAINS, and with DETACH every
\* edge into or out of these nodes.  Without a File node nothing matches.
MLeavesFileNode(f) ==
    /\ syms' = [syms EXCEPT ![f] = {}]
    /\ called' = [called EXCEPT ![f] = {}]
    /\ imports' = {e \in imports : e[1] # f /\ e[2] # f}
    /\ tests' = {e \in tests : e[1] # f /\ e[2] # f}
    /\ UNCHANGED <<file, modules, dependsOn>>
DeleteFileSubgraph(f) ==
    IF file[f] = Absent
    THEN UNCHANGED graph
    ELSE /\ file' = [file EXCEPT ![f] = Absent]
         /\ syms' = [syms EXCEPT ![f] = {}]
         /\ called' = [called EXCEPT ![f] = {}]
         /\ imports' = {e \in imports : e[1] # f /\ e[2] # f}
         /\ tests' = {e \in tests : e[1] # f /\ e[2] # f}
         /\ UNCHANGED <<modules, dependsOn>>

\* The sha256 of the File node is that of the text that was parsed.
Sha(f, c) == c

\* IMPORTS edges: the nodes of a batch are merged before its edges, and an
\* edge whose other end is not in the graph is silently not made.
MEdgesBeforeNodes(f, targets) == {e \in {f} \X targets : file[e[2]] # Absent}
ImportEdges(f, targets) == {e \in {f} \X targets : file'[e[2]] # Absent}

\* DEPENDS_ON edges come with both their Module nodes, target indexed or not.
MSwappedEnds(f, targets) ==
    {d \in {ModuleOf[g] : g \in targets} \X {ModuleOf[f]} : d[1] # d[2]}
DependencyEdges(f, targets) ==
    {d \in {ModuleOf[f]} \X {ModuleOf[g] : g \in targets} : d[1] # d[2]}

\* The nodes and edges built for path f from text c, whose imports resolved
\* to targets, merged by applyBatch in one transaction.  The id of a TestCase
\* has its line: of test cases that other texts have left, those on that line
\* are written over, and the others are kept.
WriteFile(f, c, targets) ==
    /\ file' = [file EXCEPT ![f] = Sha(f, c)]
    /\ syms' = [syms EXCEPT ![f] = @ \cup Defines[c]]
    /\ \E kept \in SUBSET called[f] :
           called' = IF f \in TestFiles THEN [called EXCEPT ![f] = kept \cup CallsOf[c]]
                     ELSE called
    /\ imports' = imports \cup ImportEdges(f, targets)
    /\ tests' = IF f \in TestFiles
                THEN tests \cup ({f} \X {f} \X (CallsOf[c] \cap Defines[c]))
                ELSE tests
    /\ modules' = modules \cup {ModuleOf[g] : g \in targets \cup {f}}
    /\ dependsOn' = dependsOn \cup DependencyEdges(f, targets)

\* upsertModuleForFile: the first of its two statements merges the Module node
\* again.  The second one merges a CONTAINS edge to the File node, beside that of
\* the batch as its id has the repository in it; the edges from modules to files
\* are left out here.
MergeModule(f) ==
    /\ modules' = modules \cup {ModuleOf[f]}
    /\ UNCHANGED <<file, syms, called, imports, tests, dependsOn>>

\* linkTestCasesByCalledNames: to every function a called name matches.
LinkTestCases(f) ==
    /\ tests' = tests \cup
           {e \in {f} \X Files \X Names : e[3] \in called[f] \cap syms[e[2]]}
    /\ UNCHANGED <<file, syms, called, imports, modules, dependsOn>>

\* One of the calls that indexRepo makes, all of it.
WriteCall ==
    \E f \in Files :
        \/ DeleteFileSubgraph(f)
        \/ \E c \in Contents, T \in SUBSET Files :
               T \subseteq ImportsOf[c] /\ WriteFile(f, c, T)
        \/ MergeModule(f)
        \/ f \in TestFiles /\ LinkTestCases(f)
=============================================================================
