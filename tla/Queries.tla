------------------------------ MODULE Queries ------------------------------
(***************************************************************************)
(* Tool calls whose answer takes several statements, over a code graph     *)
(* that indexing runs write in between: getTestsForFunction with its memo, *)
(* findTestsByPath, traceImpact, assessChangeRisk, safeRefactorPlan and    *)
(* getModuleBoundary.  Every statement autocommits and is a step of its    *)
(* own.  The writers are any processes that use the calls of CodeGraph, in *)
(* any order; runs of Indexer are such processes.                          *)
(*                                                                         *)
(* Data abstraction.  A confidence is in hundredths.  A lookup goes by one *)
(* alias, and Like says which names contain it.  IMPORTS joins files and   *)
(* DEPENDS_ON modules; what a symbol CALLS stays within its file and is    *)
(* there in Hops only.  One Limit stands for every LIMIT and slice, and    *)
(* any choice for every ORDER BY.  Depths are 2 and 3, coverage, always 0, *)
(* and wording are left out.  Operators M... are mutants.                  *)
(***************************************************************************)
EXTENDS CodeGraph

CONSTANTS
    Calls,      \* tool calls that may be under way at once in one server
    Tools,      \* what is asked of the repository
    LikelyTests, \* the paths isLikelyTestPath accepts
    ChainTests, \* the paths the statement for call chains accepts
    Like,       \* {<<alias, name>> : the name contains the alias}
    SuffixOf,   \* {<<path, file>> : the file's path ends in "/" and the path}
    Hops,       \* [Contents -> [Names -> 0 .. 3]]: the shortest chain of calls
                \* to a function of the text from another one of it, 0 if none
    NameOf,     \* [Nodes -> Names]: what safeRefactorPlan of a node looks up
    MaxLookups, \* findTestsByPath looks up 10 functions
    FullBlast,  \* the blast radius from which the risk does not grow: 50
    Percents,   \* values of the change's complexity and of the runtime's heat
    Limit,      \* rows of a statement
    None        \* no value

Nodes == Files \cup Modules
Served == {"tests_for_function", "tests_by_path", "upstream", "downstream", "impact", "risk",
           "plan", "boundary"}

ASSUME QueryAssumption ==
    /\ Tools \subseteq Served /\ None \notin Served
    /\ LikelyTests \subseteq Files
    /\ Like \subseteq Names \X Names
    /\ SuffixOf \subseteq Files \X Files
    /\ Hops \in [Contents -> [Names -> 0 .. 3]]
    /\ IsFiniteSet(Modules)
    /\ NameOf \in [Nodes -> Names]
    /\ MaxLookups \in Nat
    /\ FullBlast \in Nat \ {0}
    /\ Percents \subseteq 0 .. 100
    /\ Limit \in Nat

VARIABLES
    memo,       \* localMemo: the lookup a name was last answered with, or None
    \* each call
    at,         \* the statement it awaits
    tool,       \* what it was asked
    target,     \* about which file or module
    name,       \* the name being looked up
    todo,       \* names still to be looked up
    functions,  \* targetFunctions of this lookup
    lookup,     \* testsByPath of this lookup
    answer,     \* the tests of the answer
    left,       \* statements of traceImpact and of the risk still to come
    impacted,   \* upstream and downstream of the answer
    blast,      \* blast
    score,      \* risk_score
    boundary,   \* the answer of getModuleBoundary
    \* history, read by properties only
    links,      \* relationships between nodes there since the call began
    cleared     \* the graph was cleared since the call began

asked == <<tool, target>>
looking == <<name, todo, functions, lookup, answer>>
tracing == <<left, impacted, blast, score>>
callVars == <<at, asked, looking, tracing, boundary>>
history == <<links, cleared>>
queryVars == <<graph, memo, callVars, history>>

\* A lookup: a confidence for each test file, 0 for none.  For properties only,
\* which test cases have called which names ever since the lookup was sent, and
\* whether a LIMIT may have cut one of them off.
Lookups == [tests : [LikelyTests -> 0 .. 99],
            steady : SUBSET (LikelyTests \X Names),
            cut : BOOLEAN]
Nothing == [tests |-> [t \in LikelyTests |-> 0], steady |-> {}, cut |-> FALSE]

Boundaries == [dependencies : Nat, dependents : Nat, cyclic : BOOLEAN,
               orphan : BOOLEAN, hotspot : Nat, coupling : Nat]
NoBoundary == [dependencies |-> 0, dependents |-> 0, cyclic |-> FALSE,
               orphan |-> FALSE, hotspot |-> 0, coupling |-> 0]

Resting == {"idle", "answered", "notFound"}
Statements == {"file", "names", "next", "targets", "direct", "chain", "alias", "traces",
           "module", "cycles", "orphans", "hotspots", "coupling"}
LookingUp == {"targets", "direct", "chain", "alias"}
Traces == {"up", "down", "riskUp", "riskDown", "runtime"}

QueryTypeOK ==
    /\ GraphTypeOK
    /\ memo \in [Names -> Lookups \cup {None}]
    /\ at \in [Calls -> Resting \cup Statements]
    /\ tool \in [Calls -> Tools \cup {None}]
    /\ target \in [Calls -> Nodes \cup {None}]
    /\ name \in [Calls -> Names \cup {None}]
    /\ todo \in [Calls -> SUBSET Names]
    /\ functions \in [Calls -> SUBSET (Files \X Names)]
    /\ lookup \in [Calls -> Lookups]
    /\ answer \in [Calls -> Lookups]
    /\ left \in [Calls -> SUBSET Traces]
    /\ impacted \in [Calls -> SUBSET Nodes]
    /\ blast \in [Calls -> Nat]
    /\ score \in [Calls -> 0 .. 90]
    /\ boundary \in [Calls -> Boundaries]
    /\ links \in [Calls -> SUBSET ((Files \X Files) \cup (Modules \X Modules))]
    /\ cleared \in [Calls -> BOOLEAN]
    /\ \A c \in Calls :
        /\ at[c] \in {"file", "names"} => target[c] \in Files
        /\ at[c] \in {"targets", "direct", "chain", "alias"} => name[c] \in Names
        /\ left[c] # {} => at[c] = "traces"

QueryInit ==
    /\ EmptyGraph
    /\ memo = [n \in Names |-> None]
    /\ at = [c \in Calls |-> "idle"]
    /\ tool = [c \in Calls |-> None]
    /\ target = [c \in Calls |-> None]
    /\ name = [c \in Calls |-> None]
    /\ todo = [c \in Calls |-> {}]
    /\ functions = [c \in Calls |-> {}]
    /\ lookup = [c \in Calls |-> Nothing]
    /\ answer = [c \in Calls |-> Nothing]
    /\ left = [c \in Calls |-> {}]
    /\ impacted = [c \in Calls |-> {}]
    /\ blast = [c \in Calls |-> 0]
    /\ score = [c \in Calls |-> 0]
    /\ boundary = [c \in Calls |-> NoBoundary]
    /\ links = [c \in Calls |-> {}]
    /\ cleared = [c \in Calls |-> FALSE]

-----------------------------------------------------------------------------
(* Statements.                                                             *)

\* A statement returns all of its rows, or Limit of them.
Cut(S) == Cardinality(S) > Limit
Rows(S) == IF Cut(S) THEN {T \in SUBSET S : Cardinality(T) = Limit} ELSE {S}

\* DEPENDS_ON|IMPORTS*1..n into and out of a node.
Relationships == imports \cup dependsOn
Into(E, S) == {e[1] : e \in {d \in E : d[2] \in S}}
OutOf(E, S) == {e[2] : e \in {d \in E : d[1] \in S}}
Upstream2(E, n) == Into(E, {n} \cup Into(E, {n}))
Downstream2(E, n) == OutOf(E, {n} \cup OutOf(E, {n}))
Upstream3(E, n) == Into(E, {n} \cup Upstream2(E, n))
Downstream3(E, n) == OutOf(E, {n} \cup Downstream2(E, n))

\* Some called name contains the alias.
Mentions(C, n) == \E m \in C : <<n, m>> \in Like

\* upsert: the higher confidence stays.
Higher(a, b) == IF b > a THEN b ELSE a
Upsert(found, S, confidence) ==
    [t \in LikelyTests |-> IF t \in S THEN Higher(found[t], confidence) ELSE found[t]]
Merge(l, k) ==
    [tests |-> [t \in LikelyTests |-> Higher(l.tests[t], k.tests[t])],
     steady |-> l.steady \cup k.steady,
     cut |-> l.cut \/ k.cut]

\* Math.round((blast*0.4 + 0.6*0.25 + complexity*0.2 + runtime*0.15) * 100),
\* of percents.
RiskScore(b, complexity, heat) ==
    LET whole == 100 * FullBlast
        parts == 4000 * (IF b < FullBlast THEN b ELSE FullBlast)
                     + (1500 + 20 * complexity + 15 * heat) * FullBlast
    IN (2 * parts + whole) \div (2 * whole)

-----------------------------------------------------------------------------
(* Calls begin.                                                            *)

StatementsOf(tl) ==
    CASE tl = "upstream" -> {"up"}
      [] tl = "downstream" -> {"down"}
      [] tl = "impact" -> {"up", "down"}
      [] tl = "risk" -> {"riskUp", "riskDown", "runtime"}
      [] tl = "plan" -> Traces
      [] OTHER -> {}

\* What a call knows when it begins or has failed.
Forget(c, first, tl, node, names) ==
    /\ at' = [at EXCEPT ![c] = first]
    /\ tool' = [tool EXCEPT ![c] = tl]
    /\ target' = [target EXCEPT ![c] = node]
    /\ name' = [name EXCEPT ![c] = None]
    /\ todo' = [todo EXCEPT ![c] = names]
    /\ functions' = [functions EXCEPT ![c] = {}]
    /\ lookup' = [lookup EXCEPT ![c] = Nothing]
    /\ answer' = [answer EXCEPT ![c] = Nothing]
    /\ left' = [left EXCEPT ![c] = IF first = "traces" THEN StatementsOf(tl) ELSE {}]
    /\ impacted' = [impacted EXCEPT ![c] = {}]
    /\ blast' = [blast EXCEPT ![c] = 0]
    /\ score' = [score EXCEPT ![c] = 0]
    /\ boundary' = [boundary EXCEPT ![c] = NoBoundary]
    /\ cleared' = [cleared EXCEPT ![c] = FALSE]

Enter(c, tl, first, node, names) ==
    /\ tl \in Tools
    /\ at[c] \in Resting
    /\ Forget(c, first, tl, node, names)
    /\ links' = [links EXCEPT ![c] = IF first = "traces" THEN Relationships ELSE {}]
    /\ UNCHANGED <<graph, memo>>

TestsForFunction(c, n) == Enter(c, "tests_for_function", "next", None, {n})
TestsByPath(c, f) == Enter(c, "tests_by_path", "file", f, {})
TraceImpact(c, tl, node) ==
    /\ tl \in {"upstream", "downstream", "impact"}
    /\ Enter(c, tl, "traces", node, {})
AssessChangeRisk(c, node) == Enter(c, "risk", "traces", node, {})
ModuleBoundary(c, m) == Enter(c, "boundary", "module", m, {})

RefactorPlan(c, node) == Enter(c, "plan", "traces", node, {NameOf[node]})

-----------------------------------------------------------------------------
(* Tests of a function, of a file.                                         *)

Await(c, l) == at' = [at EXCEPT ![c] = l]

\* findFileExact: the path itself, or else a file whose path ends with it.
Matches(path) == IF file[path] # Absent THEN {path}
                 ELSE {f \in Files : file[f] # Absent /\ <<path, f>> \in SuffixOf}
MGoesOnWithoutFile(c) ==
    /\ at[c] = "file"
    /\ \E f \in IF Matches(target[c]) = {} THEN {None} ELSE Matches(target[c]) :
           target' = [target EXCEPT ![c] = f]
    /\ Await(c, "names")
    /\ UNCHANGED <<graph, memo, tool, looking, tracing, boundary, history>>
FindFile(c) ==
    LET matches == Matches(target[c]) IN
    /\ at[c] = "file"
    /\ IF matches = {}
       THEN Await(c, "notFound") /\ UNCHANGED target
       ELSE Await(c, "names") /\ \E f \in matches : target' = [target EXCEPT ![c] = f]
    /\ UNCHANGED <<graph, memo, tool, looking, tracing, boundary, history>>

\* The functions of the file, the first ones of which are looked up.  A test
\* file is an answer to itself.
FunctionNames(c) ==
    /\ at[c] = "names"
    /\ \E S \in SUBSET syms[target[c]] :
        /\ IF Cardinality(syms[target[c]]) <= MaxLookups
           THEN S = syms[target[c]] ELSE Cardinality(S) = MaxLookups
        /\ todo' = [todo EXCEPT ![c] = S]
    /\ answer' = [answer EXCEPT ![c].tests = Upsert(@, {target[c]}, 99)]
    /\ Await(c, "next")
    /\ UNCHANGED <<graph, memo, asked, name, functions, lookup, tracing, boundary, history>>

\* getTestsForFunction answers from the memo.
MemoHit(c, n) ==
    /\ at[c] = "next"
    /\ n \in todo[c]
    /\ memo[n] # None
    /\ answer' = [answer EXCEPT ![c] = Merge(@, memo[n])]
    /\ todo' = [todo EXCEPT ![c] = @ \ {n}]
    /\ UNCHANGED <<graph, memo, at, asked, name, functions, lookup, tracing, boundary, history>>

\* Or it sends its first statement.
SendLookup(c, n) ==
    /\ at[c] = "next"
    /\ n \in todo[c]
    /\ memo[n] = None
    /\ name' = [name EXCEPT ![c] = n]
    /\ lookup' = [lookup EXCEPT ![c] = [Nothing EXCEPT
           !.steady = {e \in LikelyTests \X {n} : Mentions(called[e[1]], n)}]]
    /\ Await(c, "targets")
    /\ UNCHANGED <<graph, memo, asked, todo, functions, answer, tracing, boundary, history>>

\* The functions whose name contains the alias.
MatchingFunctions(n) == {g \in Files \X Names : g[2] \in syms[g[1]] /\ <<n, g[2]>> \in Like}
MNoTargetsNoTests(c) ==
    /\ at[c] = "targets"
    /\ \E R \in Rows(MatchingFunctions(name[c])) :
        /\ functions' = [functions EXCEPT ![c] = R]
        /\ IF R = {} THEN Await(c, "next") /\ todo' = [todo EXCEPT ![c] = @ \ {name[c]}]
                          /\ answer' = [answer EXCEPT ![c] = Merge(@, lookup[c])]
                     ELSE Await(c, "direct") /\ UNCHANGED <<todo, answer>>
    /\ UNCHANGED <<graph, memo, asked, name, lookup, tracing, boundary, history>>
ReadTargets(c) ==
    /\ at[c] = "targets"
    /\ \E R \in Rows(MatchingFunctions(name[c])) :
        /\ functions' = [functions EXCEPT ![c] = R]
        /\ Await(c, IF R = {} THEN "alias" ELSE "direct")
    /\ UNCHANGED <<graph, memo, asked, name, todo, lookup, answer, tracing, boundary, history>>

\* TESTS edges: 0.65 from a test case to its own file, else 0.62.
ReadDirect(c) ==
    LET edges == {e \in tests : <<e[2], e[3]>> \in functions[c]} IN
    /\ at[c] = "direct"
    /\ lookup' = [lookup EXCEPT ![c].tests =
           Upsert(Upsert(@, {e[1] : e \in {d \in edges : d[1] # d[2]}}, 62),
                  {e[1] : e \in {d \in edges : d[1] = d[2]}}, 65)]
    /\ Await(c, "chain")
    /\ UNCHANGED <<graph, memo, asked, name, todo, functions, answer, tracing, boundary, history>>

\* Chains of calls from functions in test files: 0.70, 0.58, 0.46.
Chains(c, h) ==
    {g[1] : g \in {d \in functions[c] : /\ d[1] \in ChainTests
                                        /\ file[d[1]] # Absent
                                        /\ d[2] \in syms[d[1]]
                                        /\ Hops[file[d[1]]][d[2]] = h}}
ReadChain(c) ==
    LET callers == Chains(c, 1) \cup Chains(c, 2) \cup Chains(c, 3) IN
    /\ at[c] = "chain"
    /\ \E R \in Rows(callers) : lookup' = [lookup EXCEPT ![c].tests =
           Upsert(Upsert(Upsert(@, R \cap Chains(c, 3), 46),
                         R \cap Chains(c, 2), 58), R \cap Chains(c, 1), 70)]
    /\ Await(c, "alias")
    /\ UNCHANGED <<graph, memo, asked, name, todo, functions, answer, tracing, boundary, history>>

\* Test cases by their called_names, 0.66; then memoSet.
Namesakes(n) == {t \in TestFiles : Mentions(called[t], n)}
ReadAlias(c) ==
    /\ at[c] = "alias"
    /\ \E R \in Rows(Namesakes(name[c])) :
        LET l == [lookup[c] EXCEPT !.tests = Upsert(@, R, 66),
                                   !.cut = @ \/ Cut(Namesakes(name[c]))]
        IN  /\ memo' = [memo EXCEPT ![name[c]] = l]
            /\ answer' = [answer EXCEPT ![c] = Merge(@, l)]
    /\ lookup' = [lookup EXCEPT ![c] = Nothing]
    /\ todo' = [todo EXCEPT ![c] = @ \ {name[c]}]
    /\ name' = [name EXCEPT ![c] = None]
    /\ functions' = [functions EXCEPT ![c] = {}]
    /\ Await(c, "next")
    /\ UNCHANGED <<graph, asked, tracing, boundary, history>>

\* A plan names the first tests only, and of what is impacted the first files:
\* inferFileFromNodeId has none for a module.
Suggested(l) == {t \in LikelyTests : l.tests[t] > 0}
WriteThePlan(c) ==
    LET found == Suggested(answer[c])
        files == impacted[c] \cap Files
    IN  \E R \in Rows(found), F \in Rows(files) :
            /\ answer' = [answer EXCEPT
                   ![c].tests = [t \in LikelyTests |-> IF t \in R THEN @[t] ELSE 0],
                   ![c].cut = @ \/ Cut(found) \/ Cut(files)]
            /\ impacted' = [impacted EXCEPT ![c] = F]

\* Every name has been looked up.
Answer(c) ==
    /\ at[c] = "next"
    /\ todo[c] = {}
    /\ IF tool[c] = "plan" THEN WriteThePlan(c) ELSE UNCHANGED <<answer, impacted>>
    /\ Await(c, "answered")
    /\ UNCHANGED <<graph, memo, asked, name, todo, functions, lookup, left, blast, score, boundary,
                   history>>

\* A memoized lookup is too old after 1.5 s.
Expire(n) ==
    /\ memo' = [memo EXCEPT ![n] = None]
    /\ UNCHANGED <<graph, callVars, history>>

-----------------------------------------------------------------------------
(* Impact and risk: safeRefactorPlan awaits both at once.                  *)

\* The statement s has been answered; the plan goes on when all have.
Answered(c, s, S) ==
    /\ at[c] = "traces"
    /\ s \in left[c]
    /\ left' = [left EXCEPT ![c] = @ \ {s}]
    /\ Await(c, IF left[c] # {s} THEN "traces" ELSE IF tool[c] = "plan" THEN "next" ELSE "answered")
    /\ answer' = [answer EXCEPT ![c].cut = @ \/ Cut(S)]
    /\ UNCHANGED <<graph, memo, asked, name, todo, functions, lookup, boundary, history>>

MArrowReversed(c) ==
    LET S == Downstream2(Relationships, target[c]) IN
    /\ Answered(c, "up", S)
    /\ \E R \in Rows(S) : impacted' = [impacted EXCEPT ![c] = @ \cup R]
    /\ UNCHANGED <<blast, score>>
TraceUpstream(c) ==
    LET S == Upstream2(Relationships, target[c]) IN
    /\ Answered(c, "up", S)
    /\ \E R \in Rows(S) : impacted' = [impacted EXCEPT ![c] = @ \cup R]
    /\ UNCHANGED <<blast, score>>

TraceDownstream(c) ==
    LET S == Downstream2(Relationships, target[c]) IN
    /\ "up" \notin left[c]
    /\ Answered(c, "down", S)
    /\ \E R \in Rows(S) : impacted' = [impacted EXCEPT ![c] = @ \cup R]
    /\ UNCHANGED <<blast, score>>

RiskUpstream(c) ==
    LET S == Upstream3(Relationships, target[c]) IN
    /\ Answered(c, "riskUp", S)
    /\ \E R \in Rows(S) : blast' = [blast EXCEPT ![c] = Cardinality(R)]
    /\ UNCHANGED <<impacted, score>>

MRiskDownstream(c) ==
    LET S == Downstream3(Relationships, target[c]) IN
    /\ "riskUp" \notin left[c]
    /\ Answered(c, "riskDown", S)
    /\ \E R \in Rows(S) : blast' = [blast EXCEPT ![c] = Cardinality(R)]
    /\ UNCHANGED <<impacted, score>>
RiskDownstream(c) ==
    LET S == Downstream3(Relationships, target[c]) IN
    /\ "riskUp" \notin left[c]
    /\ Answered(c, "riskDown", S)
    /\ \E R \in Rows(S) : blast' = [blast EXCEPT ![c] = @ + Cardinality(R)]
    /\ UNCHANGED <<impacted, score>>

\* getRuntimeSnapshot, and the score of what has been read.
RuntimeSnapshot(c, complexity, heat) ==
    /\ {"riskUp", "riskDown"} \cap left[c] = {}
    /\ Answered(c, "runtime", {})
    /\ score' = [score EXCEPT ![c] = RiskScore(blast[c], complexity, heat)]
    /\ blast' = [blast EXCEPT ![c] = 0]
    /\ UNCHANGED impacted

-----------------------------------------------------------------------------
(* getModuleBoundary.                                                      *)

OutDegree(m) == Cardinality(OutOf(dependsOn, {m}))
InDegree(m) == Cardinality(Into(dependsOn, {m}))
Shown(n) == IF n > Limit THEN Limit ELSE n

ReadBoundary(c, from, to, b) ==
    /\ at[c] = from
    /\ Await(c, to)
    /\ boundary' = [boundary EXCEPT ![c] = b]
    /\ UNCHANGED <<graph, memo, asked, looking, tracing, history>>

ReadModule(c) ==
    IF target[c] \in modules
    THEN ReadBoundary(c, "module", "cycles", [boundary[c] EXCEPT
             !.dependencies = Shown(OutDegree(target[c])),
             !.dependents = Shown(InDegree(target[c]))])
    ELSE ReadBoundary(c, "module", "notFound", boundary[c])

\* DEPENDS_ON*1..6 back to the module.
Ahead(S) == S \cup OutOf(dependsOn, S)
ReadCycles(c) ==
    ReadBoundary(c, "cycles", "orphans", [boundary[c] EXCEPT !.cyclic =
        target[c] \in Ahead(Ahead(Ahead(Ahead(Ahead(OutOf(dependsOn, {target[c]}))))))])

MNoDependents == {m \in modules : Into(dependsOn, {m}) = {}}
Orphans == {m \in modules : OutDegree(m) + InDegree(m) = 0}
ReadOrphans(c) ==
    \E R \in Rows(Orphans) :
        ReadBoundary(c, "orphans", "hotspots", [boundary[c] EXCEPT !.orphan = target[c] \in R])

ReadHotspots(c) ==
    \E R \in Rows(modules) :
        ReadBoundary(c, "hotspots", "coupling", [boundary[c] EXCEPT !.hotspot =
            IF target[c] \in R THEN InDegree(target[c]) + OutDegree(target[c]) ELSE 0])

ReadCoupling(c) ==
    ReadBoundary(c, "coupling", "answered", [boundary[c] EXCEPT !.coupling =
        InDegree(target[c]) + OutDegree(target[c])])

-----------------------------------------------------------------------------
(* Failures, writers, and the system.                                      *)

\* A statement is refused: runTool answers with an error.
Fails(c) ==
    /\ at[c] \notin Resting
    /\ Forget(c, "idle", None, None, {})
    /\ links' = [links EXCEPT ![c] = {}]
    /\ UNCHANGED <<graph, memo>>

\* Whoever indexes writes a file's nodes, removes them, or clears the graph.
Lasting(l) == [l EXCEPT !.steady = {e \in @ : Mentions(called'[e[1]], e[2])}]
Remember ==
    /\ memo' = [n \in Names |-> IF memo[n] = None THEN None ELSE Lasting(memo[n])]
    /\ lookup' = [c \in Calls |-> Lasting(lookup[c])]
    /\ answer' = [c \in Calls |-> Lasting(answer[c])]
    /\ links' = [c \in Calls |-> links[c] \cap Relationships']
    /\ UNCHANGED <<at, asked, name, todo, functions, tracing, boundary>>

Write ==
    /\ WriteCall
    /\ Remember
    /\ UNCHANGED cleared

Clear ==
    /\ ClearGraph
    /\ Remember
    /\ cleared' = [c \in Calls |-> TRUE]

Asks(c) ==
    \/ \E n \in Names : TestsForFunction(c, n)
    \/ \E f \in Files : TestsByPath(c, f)
    \/ \E tl \in Tools, node \in Nodes : TraceImpact(c, tl, node)
    \/ \E node \in Nodes : AssessChangeRisk(c, node) \/ RefactorPlan(c, node)
    \/ \E m \in Modules : ModuleBoundary(c, m)

Reads(c) ==
    \/ FindFile(c) \/ FunctionNames(c)
    \/ \E n \in Names : MemoHit(c, n) \/ SendLookup(c, n)
    \/ ReadTargets(c) \/ ReadDirect(c) \/ ReadChain(c) \/ ReadAlias(c) \/ Answer(c)
    \/ TraceUpstream(c) \/ TraceDownstream(c) \/ RiskUpstream(c) \/ RiskDownstream(c)
    \/ \E x, h \in Percents : RuntimeSnapshot(c, x, h)
    \/ ReadModule(c) \/ ReadCycles(c) \/ ReadOrphans(c) \/ ReadHotspots(c) \/ ReadCoupling(c)

QueryNext ==
    \/ Write
    \/ Clear
    \/ \E n \in Names : Expire(n)
    \/ \E c \in Calls : Asks(c) \/ Reads(c) \/ Fails(c)

QuerySpec == QueryInit /\ [][QueryNext]_queryVars

-----------------------------------------------------------------------------
(* Properties.                                                             *)

\* Whatever is re-indexed between the statements, and also from the memo: a
\* test case that has called the function by name ever since the lookup was
\* sent is suggested, with no less than the confidence of its called names.
\* The TESTS edges come and go with the functions they end in; the statement
\* by called_names makes up for them, one that matched nothing included.
Covers(l) == ~l.cut => \A e \in l.steady : l.tests[e[1]] >= 66
SteadyTestsSuggested ==
    /\ \A n \in Names : memo[n] # None => Covers(memo[n])
    /\ \A c \in Calls : at[c] = "answered" => Covers(answer[c])

\* Unless a LIMIT or a slice cuts it off, what was connected to the target all
\* the while is in the impact, though upstream and downstream are read one after
\* the other, and the graph changes in between; a plan names the files among it.
Named(c) == IF tool[c] = "plan" THEN Files ELSE Nodes
SteadyImpactFound ==
    \A c \in Calls : at[c] = "answered" /\ ~answer[c].cut =>
        /\ tool[c] \in {"upstream", "impact", "plan"}
               => Upstream2(links[c], target[c]) \cap Named(c) \subseteq impacted[c]
        /\ tool[c] \in {"downstream", "impact", "plan"}
               => Downstream2(links[c], target[c]) \cap Named(c) \subseteq impacted[c]

\* The risk is never less than what was connected all the while amounts to.
RiskNotUnderstated ==
    \A c \in Calls :
        at[c] = "answered" /\ tool[c] \in {"risk", "plan"} /\ ~answer[c].cut =>
            score[c] >= RiskScore(Cardinality(Upstream3(links[c], target[c]))
                                    + Cardinality(Downstream3(links[c], target[c])), 0, 0)

\* The five statements about a module do not contradict each other unless the
\* graph is cleared between them: dependencies are only ever added, so an
\* orphan has none, nor dependents, nor a cycle, and the coupling counts all
\* that was listed before.
BoundaryAgrees ==
    \A c \in Calls : at[c] = "answered" /\ tool[c] = "boundary" /\ ~cleared[c] =>
        LET b == boundary[c] IN
        /\ b.orphan => b.dependencies + b.dependents = 0 /\ ~b.cyclic
        /\ b.coupling >= b.dependencies + b.dependents
        /\ b.coupling >= b.hotspot
        /\ b.cyclic => b.coupling >= 2
=============================================================================
