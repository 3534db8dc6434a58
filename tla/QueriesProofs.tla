--------------------------- MODULE QueriesProofs ---------------------------
(***************************************************************************)
(* Proofs about Queries, for any repository, parser, number of calls and   *)
(* limits.                                                                 *)
(***************************************************************************)
EXTENDS Queries, FiniteSetTheorems, TLAPS

-----------------------------------------------------------------------------
(* The operators the statements are built from.                            *)

LEMMA FiniteNodes == IsFiniteSet(Nodes)
  BY FS_Union, GraphAssumption, QueryAssumption DEF Nodes

LEMMA RowsOf ==
  ASSUME NEW S, NEW R \in Rows(S)
  PROVE  R \subseteq S /\ (~Cut(S) => R = S)
  BY DEF Rows

LEMMA HigherConfidence ==
  ASSUME NEW a \in 0 .. 99, NEW b \in 0 .. 99
  PROVE  Higher(a, b) \in 0 .. 99 /\ Higher(a, b) >= a /\ Higher(a, b) >= b
  BY DEF Higher

LEMMA UpsertRaises ==
  ASSUME NEW found \in [LikelyTests -> 0 .. 99], NEW S, NEW k \in Nat, k <= 99
  PROVE  /\ Upsert(found, S, k) \in [LikelyTests -> 0 .. 99]
         /\ \A t \in LikelyTests : /\ Upsert(found, S, k)[t] >= found[t]
                                   /\ t \in S => Upsert(found, S, k)[t] >= k
  <1>0. k \in 0 .. 99
    OBVIOUS
  <1>1. \A t \in LikelyTests : /\ Higher(found[t], k) \in 0 .. 99
                               /\ Higher(found[t], k) >= found[t]
                               /\ Higher(found[t], k) >= k
    BY <1>0, HigherConfidence
  <1>2. \A t \in LikelyTests : found[t] \in 0 .. 99 /\ found[t] >= found[t]
    OBVIOUS
  <1> QED
    BY <1>1, <1>2 DEF Upsert

LEMMA MergeTyping ==
  ASSUME NEW l \in Lookups, NEW k \in Lookups
  PROVE  /\ Merge(l, k) \in Lookups
         /\ \A t \in LikelyTests : /\ Merge(l, k).tests[t] >= l.tests[t]
                                   /\ Merge(l, k).tests[t] >= k.tests[t]
  <1>1. \A t \in LikelyTests : l.tests[t] \in 0 .. 99 /\ k.tests[t] \in 0 .. 99
    BY DEF Lookups
  <1>2. \A t \in LikelyTests : /\ Higher(l.tests[t], k.tests[t]) \in 0 .. 99
                               /\ Higher(l.tests[t], k.tests[t]) >= l.tests[t]
                               /\ Higher(l.tests[t], k.tests[t]) >= k.tests[t]
    BY <1>1, HigherConfidence
  <1> QED
    BY <1>2 DEF Merge, Lookups

LEMMA LookupFields ==
  ASSUME NEW l \in Lookups
  PROVE  /\ \A found \in [LikelyTests -> 0 .. 99] : [l EXCEPT !.tests = found] \in Lookups
         /\ \A E \in SUBSET (LikelyTests \X Names) : [l EXCEPT !.steady = E] \in Lookups
         /\ \A b \in BOOLEAN : [l EXCEPT !.cut = b] \in Lookups
         /\ l.tests \in [LikelyTests -> 0 .. 99]
         /\ l.steady \subseteq LikelyTests \X Names
         /\ l.cut \in BOOLEAN
  BY DEF Lookups

LEMMA NothingTyping == Nothing \in Lookups
  BY DEF Nothing, Lookups

\* Nodes a step or two, three steps away are nodes, and more of them the more
\* relationships there are.
Joins == (Files \X Files) \cup (Modules \X Modules)

LEMMA Neighbours ==
  ASSUME NEW E \in SUBSET Joins, NEW S
  PROVE  Into(E, S) \subseteq Nodes /\ OutOf(E, S) \subseteq Nodes
  BY DEF Into, OutOf, Joins, Nodes

LEMMA MoreNeighbours ==
  ASSUME NEW E, NEW D \in SUBSET E, NEW S, NEW T \in SUBSET S
  PROVE  Into(D, T) \subseteq Into(E, S) /\ OutOf(D, T) \subseteq OutOf(E, S)
  BY DEF Into, OutOf

LEMMA Reach ==
  ASSUME NEW E \in SUBSET Joins, NEW D \in SUBSET E, NEW n
  PROVE  /\ Upstream2(E, n) \subseteq Nodes /\ Upstream2(D, n) \subseteq Upstream2(E, n)
         /\ Downstream2(E, n) \subseteq Nodes /\ Downstream2(D, n) \subseteq Downstream2(E, n)
         /\ Upstream3(E, n) \subseteq Nodes /\ Upstream3(D, n) \subseteq Upstream3(E, n)
         /\ Downstream3(E, n) \subseteq Nodes /\ Downstream3(D, n) \subseteq Downstream3(E, n)
  <1>1. /\ {n} \cup Into(D, {n}) \subseteq {n} \cup Into(E, {n})
        /\ {n} \cup OutOf(D, {n}) \subseteq {n} \cup OutOf(E, {n})
    BY DEF Into, OutOf
  <1>2. Upstream2(E, n) \subseteq Nodes /\ Upstream2(D, n) \subseteq Upstream2(E, n)
    BY <1>1, Neighbours, MoreNeighbours DEF Upstream2
  <1>3. Downstream2(E, n) \subseteq Nodes /\ Downstream2(D, n) \subseteq Downstream2(E, n)
    BY <1>1, Neighbours, MoreNeighbours DEF Downstream2
  <1>4. /\ {n} \cup Upstream2(D, n) \subseteq {n} \cup Upstream2(E, n)
        /\ {n} \cup Downstream2(D, n) \subseteq {n} \cup Downstream2(E, n)
    BY <1>2, <1>3
  <1>5. Upstream3(E, n) \subseteq Nodes /\ Upstream3(D, n) \subseteq Upstream3(E, n)
    BY <1>4, Neighbours, MoreNeighbours DEF Upstream3
  <1>6. Downstream3(E, n) \subseteq Nodes /\ Downstream3(D, n) \subseteq Downstream3(E, n)
    BY <1>4, Neighbours, MoreNeighbours DEF Downstream3
  <1> QED
    BY <1>2, <1>3, <1>5, <1>6

LEMMA Count ==
  ASSUME NEW T \in SUBSET Nodes, NEW S \in SUBSET T
  PROVE  Cardinality(T) \in Nat /\ Cardinality(S) \in Nat /\ Cardinality(S) <= Cardinality(T)
  <1>1. IsFiniteSet(T)
    BY FiniteNodes, FS_Subset
  <1>2. IsFiniteSet(S) /\ Cardinality(S) <= Cardinality(T)
    BY <1>1, FS_Subset
  <1> QED
    BY <1>1, <1>2, FS_CardinalityType

LEMMA Relate == GraphTypeOK => Relationships \in SUBSET Joins
  BY DEF GraphTypeOK, Relationships, Joins

-----------------------------------------------------------------------------
(* The risk score.                                                         *)

LEMMA Divide ==
  ASSUME NEW a \in Nat, NEW b \in Nat, NEW d \in Nat \ {0}, a <= b
  PROVE  a \div d \in Nat /\ a \div d <= b \div d
  OBVIOUS

LEMMA DivideBelow ==
  ASSUME NEW a \in Nat, NEW q \in Nat, NEW d \in Nat \ {0}, a < (q + 1) * d
  PROVE  a \div d \in 0 .. q
  OBVIOUS

LEMMA Times ==
  ASSUME NEW a \in Nat, NEW b \in Nat, NEW d \in Nat, a <= b
  PROVE  a * d \in Nat /\ b * d \in Nat /\ a * d <= b * d
  OBVIOUS

Most == 9000 * FullBlast

\* What is divided by 200 * FullBlast, of blast radius b and the rest k.
Parts(b, k) == 4000 * (IF b < FullBlast THEN b ELSE FullBlast) + k * FullBlast

LEMMA PartsGrow ==
  ASSUME NEW b \in Nat, NEW d \in Nat, NEW j \in Nat, NEW k \in Nat, b <= d, j <= k, k <= 5000
  PROVE  /\ Parts(b, j) \in Nat /\ Parts(d, k) \in Nat
         /\ Parts(b, j) <= Parts(d, k)
         /\ Parts(d, k) <= Most
  <1> DEFINE F == FullBlast
             low == IF b < F THEN b ELSE F
             high == IF d < F THEN d ELSE F
  <1>1. F \in Nat \ {0}
    BY QueryAssumption
  <1>2. low \in Nat /\ high \in Nat /\ low <= high /\ high <= F
    BY <1>1
  <1>3. j * F \in Nat /\ k * F \in Nat /\ j * F <= k * F
    BY <1>1, Times
  <1>4. k * F <= 5000 * F
    BY <1>1, Times
  <1>5. Parts(b, j) = 4000 * low + j * F /\ Parts(d, k) = 4000 * high + k * F
    BY DEF Parts
  <1> HIDE DEF F, low, high
  <1>6. /\ 4000 * low + j * F \in Nat /\ 4000 * high + k * F \in Nat
        /\ 4000 * low + j * F <= 4000 * high + k * F
        /\ 4000 * high + k * F <= 9000 * F
    BY <1>1, <1>2, <1>3, <1>4 DEF Most
  <1> QED
    BY <1>5, <1>6 DEF F, Most

Round(parts) == (2 * parts + 100 * FullBlast) \div (2 * (100 * FullBlast))

LEMMA RoundGrows ==
  ASSUME NEW a \in Nat, NEW b \in Nat, a <= b, b <= Most
  PROVE  Round(a) <= Round(b) /\ Round(b) \in 0 .. 90
  <1> DEFINE low == 2 * a + 100 * FullBlast
             high == 2 * b + 100 * FullBlast
             whole == 2 * (100 * FullBlast)
  <1>1. /\ low \in Nat /\ high \in Nat /\ whole \in Nat \ {0}
        /\ low <= high /\ high < (90 + 1) * whole
    BY QueryAssumption DEF Most
  <1>2. Round(a) = low \div whole /\ Round(b) = high \div whole
    BY DEF Round
  <1> HIDE DEF low, high, whole
  <1>3. low \div whole <= high \div whole
    BY <1>1, Divide
  <1>4. high \div whole \in 0 .. 90
    BY <1>1, DivideBelow
  <1> QED
    BY <1>2, <1>3, <1>4

LEMMA ScoreOfParts ==
  ASSUME NEW b \in Nat, NEW x \in Nat, NEW h \in Nat, x <= 100, h <= 100
  PROVE  \E k \in Nat : /\ 1500 <= k /\ k <= 5000
                      /\ RiskScore(b, x, h) = Round(Parts(b, k))
  <1> DEFINE k == 1500 + 20 * x + 15 * h
  <1>1. k \in Nat /\ 1500 <= k /\ k <= 5000
    OBVIOUS
  <1>2. RiskScore(b, x, h) = Round(Parts(b, k))
    BY DEF RiskScore, Parts, Round
  <1> HIDE DEF k
  <1> QED
    BY <1>1, <1>2

LEMMA PartsRange ==
  ASSUME NEW b \in Nat, NEW d \in Nat, NEW k \in Nat, 1500 <= k, k <= 5000, b <= d
  PROVE  /\ Parts(b, 1500) \in Nat /\ Parts(d, k) \in Nat
         /\ Parts(b, 1500) <= Parts(d, k)
         /\ Parts(d, k) <= Most
  BY PartsGrow

\* 0 .. 90: coverage counts for 15 always, and no risk is full.
LEMMA ScoreRange ==
  ASSUME NEW b \in Nat, NEW x \in Nat, NEW h \in Nat, x <= 100, h <= 100
  PROVE  RiskScore(b, x, h) \in 0 .. 90
  <1>1. PICK k \in Nat : 1500 <= k /\ k <= 5000 /\ RiskScore(b, x, h) = Round(Parts(b, k))
    BY ScoreOfParts
  <1>2. b <= b
    OBVIOUS
  <1>3. /\ Parts(b, 1500) \in Nat /\ Parts(b, k) \in Nat
        /\ Parts(b, 1500) <= Parts(b, k) /\ Parts(b, k) <= Most
    BY <1>1, <1>2, PartsRange
  <1>4. Round(Parts(b, k)) \in 0 .. 90
    BY <1>3, RoundGrows
  <1> QED
    BY <1>1, <1>4

\* It grows with the blast radius and with the change.
LEMMA ScoreGrows ==
  ASSUME NEW b \in Nat, NEW d \in Nat, NEW x \in Nat, NEW h \in Nat, x <= 100, h <= 100, b <= d
  PROVE  RiskScore(b, 0, 0) <= RiskScore(d, x, h)
  <1>1. PICK k \in Nat : 1500 <= k /\ k <= 5000 /\ RiskScore(d, x, h) = Round(Parts(d, k))
    BY ScoreOfParts
  <1>2. RiskScore(b, 0, 0) = Round(Parts(b, 1500))
    BY DEF RiskScore, Parts, Round
  <1>3. /\ Parts(b, 1500) \in Nat /\ Parts(d, k) \in Nat
        /\ Parts(b, 1500) <= Parts(d, k) /\ Parts(d, k) <= Most
    BY <1>1, PartsRange
  <1>4. Round(Parts(b, 1500)) <= Round(Parts(d, k))
    BY <1>3, RoundGrows
  <1> QED
    BY <1>1, <1>2, <1>4

-----------------------------------------------------------------------------
(* Types.                                                                  *)

LEMMA GraphTyping ==
  ASSUME GraphTypeOK, Write \/ Clear
  PROVE  GraphTypeOK'
  <1>1. CASE ClearGraph
    BY <1>1 DEF ClearGraph, GraphTypeOK, NoFile, NoNames, MaybeContent
  <1>2. ASSUME NEW f \in Files, DeleteFileSubgraph(f)
        PROVE  GraphTypeOK'
    BY <1>2 DEF DeleteFileSubgraph, GraphTypeOK, MaybeContent, graph
  <1>3. ASSUME NEW f \in Files, NEW c \in Contents, NEW T \in SUBSET Files, WriteFile(f, c, T)
        PROVE  GraphTypeOK'
    <2>1. /\ file' \in [Files -> MaybeContent]
          /\ syms' \in [Files -> SUBSET Names]
          /\ called' \in [Files -> SUBSET Names]
      BY <1>3, ParserAssumption DEF WriteFile, GraphTypeOK, MaybeContent, Sha
    <2>2. imports' \subseteq Files \X Files
      BY <1>3 DEF WriteFile, GraphTypeOK, ImportEdges
    <2>3. tests' \subseteq Files \X Files \X Names
      BY <1>3, ParserAssumption DEF WriteFile, GraphTypeOK
    <2>4. modules' \subseteq Modules /\ dependsOn' \subseteq Modules \X Modules
      BY <1>3, ParserAssumption DEF WriteFile, GraphTypeOK, DependencyEdges
    <2> QED
      BY <2>1, <2>2, <2>3, <2>4 DEF GraphTypeOK
  <1>4. ASSUME NEW f \in Files, MergeModule(f) \/ LinkTestCases(f)
        PROVE  GraphTypeOK'
    BY <1>4, ParserAssumption DEF MergeModule, LinkTestCases, GraphTypeOK
  <1> QED
    BY <1>1, <1>2, <1>3, <1>4 DEF Write, WriteCall, Clear

LEMMA InitTyping == QueryInit => QueryTypeOK
  <1> SUFFICES ASSUME QueryInit PROVE QueryTypeOK
    OBVIOUS
  <1>1. GraphTypeOK
    BY DEF QueryInit, EmptyGraph, GraphTypeOK, NoFile, NoNames, MaybeContent
  <1>2. NoBoundary \in Boundaries
    BY DEF NoBoundary, Boundaries
  <1> QED
    BY <1>1, <1>2, NothingTyping DEF QueryInit, QueryTypeOK, Resting, Statements

LEMMA ForgetTyping ==
  ASSUME QueryTypeOK, NEW c \in Calls, NEW first \in Resting \cup Statements,
         NEW tl \in Tools \cup {None}, NEW node \in Nodes \cup {None}, NEW names \in SUBSET Names,
         first \in {"file", "names"} => node \in Files,
         first \notin {"targets", "direct", "chain", "alias"},
         Forget(c, first, tl, node, names), UNCHANGED <<graph, memo>>,
         NEW L \in SUBSET Joins, links' = [links EXCEPT ![c] = L]
  PROVE  QueryTypeOK'
  <1>1. NoBoundary \in Boundaries /\ StatementsOf(tl) \subseteq Traces /\ 0 \in 0 .. 90
    BY DEF NoBoundary, Boundaries, StatementsOf, Traces
  <1>2. GraphTypeOK'
    BY DEF QueryTypeOK, GraphTypeOK, graph
  <1>3. /\ memo' \in [Names -> Lookups \cup {None}]
        /\ at' \in [Calls -> Resting \cup Statements]
        /\ tool' \in [Calls -> Tools \cup {None}]
        /\ target' \in [Calls -> Nodes \cup {None}]
        /\ name' \in [Calls -> Names \cup {None}]
        /\ todo' \in [Calls -> SUBSET Names]
        /\ functions' \in [Calls -> SUBSET (Files \X Names)]
    BY DEF QueryTypeOK, Forget
  <1>4. lookup' \in [Calls -> Lookups] /\ answer' \in [Calls -> Lookups]
    BY NothingTyping DEF QueryTypeOK, Forget
  <1>5. /\ left' \in [Calls -> SUBSET Traces]
        /\ impacted' \in [Calls -> SUBSET Nodes]
        /\ blast' \in [Calls -> Nat]
    BY <1>1 DEF QueryTypeOK, Forget
  <1>6. /\ score' \in [Calls -> 0 .. 90]
        /\ boundary' \in [Calls -> Boundaries]
    BY <1>1 DEF QueryTypeOK, Forget
  <1>7. /\ links' \in [Calls -> SUBSET Joins]
        /\ cleared' \in [Calls -> BOOLEAN]
    BY DEF QueryTypeOK, Forget, Joins
  <1>8. ASSUME NEW d \in Calls
        PROVE  /\ at'[d] \in {"file", "names"} => target'[d] \in Files
               /\ at'[d] \in {"targets", "direct", "chain", "alias"} => name'[d] \in Names
               /\ left'[d] # {} => at'[d] = "traces"
    BY DEF QueryTypeOK, Forget
  <1> QED
    BY <1>2, <1>3, <1>4, <1>5, <1>6, <1>7, <1>8 DEF QueryTypeOK, Joins

LEMMA BeginTyping ==
  ASSUME QueryTypeOK, NEW c \in Calls, Asks(c)
  PROVE  QueryTypeOK'
  <1>1. Relationships \in SUBSET Joins /\ {} \in SUBSET Joins
    BY Relate DEF QueryTypeOK
  <1>2. ASSUME NEW tl, NEW first \in Statements, NEW node \in Nodes \cup {None},
               NEW names \in SUBSET Names, Enter(c, tl, first, node, names),
               first \in {"file", "names"} => node \in Files,
               first \notin {"targets", "direct", "chain", "alias"}
        PROVE  QueryTypeOK'
    <2> DEFINE L == IF first = "traces" THEN Relationships ELSE {}
    <2>1. /\ tl \in Tools \cup {None} /\ L \in SUBSET Joins
          /\ Forget(c, first, tl, node, names) /\ UNCHANGED <<graph, memo>>
          /\ links' = [links EXCEPT ![c] = L]
      BY <1>1, <1>2 DEF Enter
    <2> QED
      BY <1>2, <2>1, ForgetTyping
  <1>3. ASSUME NEW n \in Names, TestsForFunction(c, n)
        PROVE  QueryTypeOK'
    BY <1>2, <1>3 DEF TestsForFunction, Statements
  <1>4. ASSUME NEW f \in Files, TestsByPath(c, f)
        PROVE  QueryTypeOK'
    BY <1>2, <1>4 DEF TestsByPath, Statements, Nodes
  <1>5. ASSUME NEW tl \in Tools, NEW node \in Nodes, TraceImpact(c, tl, node)
        PROVE  QueryTypeOK'
    BY <1>2, <1>5 DEF TraceImpact, Statements
  <1>6. ASSUME NEW node \in Nodes, AssessChangeRisk(c, node)
        PROVE  QueryTypeOK'
    BY <1>2, <1>6 DEF AssessChangeRisk, Statements
  <1>7. ASSUME NEW node \in Nodes, RefactorPlan(c, node)
        PROVE  QueryTypeOK'
    <2>1. {NameOf[node]} \in SUBSET Names
      BY QueryAssumption
    <2> QED
      BY <1>2, <1>7, <2>1 DEF RefactorPlan, Statements
  <1>8. ASSUME NEW m \in Modules, ModuleBoundary(c, m)
        PROVE  QueryTypeOK'
    BY <1>2, <1>8 DEF ModuleBoundary, Statements, Nodes
  <1> QED
    BY <1>3, <1>4, <1>5, <1>6, <1>7, <1>8 DEF Asks

\* The statements of the lookup of a function's tests.
LEMMA LookupTyping ==
  ASSUME QueryTypeOK, NEW c \in Calls
  PROVE  /\ FindFile(c) \/ FunctionNames(c) => QueryTypeOK'
         /\ \A n \in Names : MemoHit(c, n) \/ SendLookup(c, n) => QueryTypeOK'
         /\ ReadTargets(c) \/ ReadDirect(c) => QueryTypeOK'
         /\ ReadChain(c) \/ ReadAlias(c) \/ Answer(c) => QueryTypeOK'
  <1> USE DEF Await, asked, looking, tracing, callVars, history
  <1>0. ASSUME UNCHANGED graph PROVE GraphTypeOK'
    BY <1>0 DEF graph, GraphTypeOK, QueryTypeOK
  <1>a. /\ lookup[c] \in Lookups /\ lookup[c].tests \in [LikelyTests -> 0 .. 99]
        /\ answer[c] \in Lookups /\ answer[c].tests \in [LikelyTests -> 0 .. 99]
    BY DEF QueryTypeOK, Lookups
  <1>b. ASSUME NEW found \in [LikelyTests -> 0 .. 99], NEW S
        PROVE  /\ Upsert(found, S, 99) \in [LikelyTests -> 0 .. 99]
               /\ Upsert(found, S, 70) \in [LikelyTests -> 0 .. 99]
               /\ Upsert(found, S, 66) \in [LikelyTests -> 0 .. 99]
               /\ Upsert(found, S, 65) \in [LikelyTests -> 0 .. 99]
               /\ Upsert(found, S, 62) \in [LikelyTests -> 0 .. 99]
               /\ Upsert(found, S, 58) \in [LikelyTests -> 0 .. 99]
               /\ Upsert(found, S, 46) \in [LikelyTests -> 0 .. 99]
    BY UpsertRaises
  <1>1. ASSUME FindFile(c) PROVE QueryTypeOK'
    <2>1. Matches(target[c]) \subseteq Files
      BY <1>1 DEF FindFile, Matches, QueryTypeOK
    <2> QED
      BY <1>0, <1>1, <2>1 DEF FindFile, QueryTypeOK, Resting, Statements, Nodes
  <1>2. ASSUME FunctionNames(c) PROVE QueryTypeOK'
    <2>1. Upsert(answer[c].tests, {target[c]}, 99) \in [LikelyTests -> 0 .. 99]
      BY <1>a, <1>b
    <2>2. answer' \in [Calls -> Lookups]
      BY <1>2, <2>1, LookupFields DEF FunctionNames, QueryTypeOK
    <2>3. todo' \in [Calls -> SUBSET Names]
      BY <1>2 DEF FunctionNames, QueryTypeOK, GraphTypeOK
    <2> QED
      BY <1>0, <1>2, <2>2, <2>3 DEF FunctionNames, QueryTypeOK, Resting, Statements
  <1>3. ASSUME NEW n \in Names, MemoHit(c, n) PROVE QueryTypeOK'
    <2>1. answer' \in [Calls -> Lookups]
      BY <1>3, MergeTyping DEF MemoHit, QueryTypeOK
    <2> QED
      BY <1>0, <1>3, <2>1 DEF MemoHit, QueryTypeOK
  <1>4. ASSUME NEW n \in Names, SendLookup(c, n) PROVE QueryTypeOK'
    <2>1. lookup' \in [Calls -> Lookups]
      BY <1>4, LookupFields, NothingTyping DEF SendLookup, QueryTypeOK
    <2> QED
      BY <1>0, <1>4, <2>1 DEF SendLookup, QueryTypeOK, Resting, Statements
  <1>5. ASSUME ReadTargets(c) PROVE QueryTypeOK'
    <2>1. PICK R \in Rows(MatchingFunctions(name[c])) :
                 /\ functions' = [functions EXCEPT ![c] = R]
                 /\ Await(c, IF R = {} THEN "alias" ELSE "direct")
      BY <1>5 DEF ReadTargets
    <2>2. R \subseteq Files \X Names
      <3>1. MatchingFunctions(name[c]) \subseteq Files \X Names
        BY DEF MatchingFunctions
      <3> QED
        BY <3>1, RowsOf
    <2> QED
      BY <1>0, <1>5, <2>1, <2>2 DEF ReadTargets, QueryTypeOK, Resting, Statements
  <1>6. ASSUME ReadDirect(c) PROVE QueryTypeOK'
    <2>1. ASSUME NEW S, NEW T
          PROVE  Upsert(Upsert(lookup[c].tests, S, 62), T, 65) \in [LikelyTests -> 0 .. 99]
      BY <1>a, <1>b
    <2>2. lookup' \in [Calls -> Lookups]
      BY <1>6, <2>1, LookupFields DEF ReadDirect, QueryTypeOK
    <2> QED
      BY <1>0, <1>6, <2>2 DEF ReadDirect, QueryTypeOK, Resting, Statements
  <1>7. ASSUME ReadChain(c) PROVE QueryTypeOK'
    <2>1. ASSUME NEW S, NEW T, NEW U
          PROVE  Upsert(Upsert(Upsert(lookup[c].tests, S, 46), T, 58), U, 70)
                     \in [LikelyTests -> 0 .. 99]
      BY <1>a, <1>b
    <2>2. PICK R : lookup' = [lookup EXCEPT ![c].tests =
                 Upsert(Upsert(Upsert(@, R \cap Chains(c, 3), 46),
                               R \cap Chains(c, 2), 58), R \cap Chains(c, 1), 70)]
      BY <1>7 DEF ReadChain
    <2>3. lookup' \in [Calls -> Lookups]
      BY <1>a, <2>1, <2>2, LookupFields DEF QueryTypeOK
    <2> QED
      BY <1>0, <1>7, <2>3 DEF ReadChain, QueryTypeOK, Resting, Statements
  <1>8. ASSUME ReadAlias(c) PROVE QueryTypeOK'
    <2>1. PICK R \in Rows(Namesakes(name[c])) :
            LET l == [lookup[c] EXCEPT !.tests = Upsert(@, R, 66),
                                       !.cut = @ \/ Cut(Namesakes(name[c]))]
            IN  /\ memo' = [memo EXCEPT ![name[c]] = l]
                /\ answer' = [answer EXCEPT ![c] = Merge(@, l)]
      BY <1>8 DEF ReadAlias
    <2> DEFINE l == [lookup[c] EXCEPT !.tests = Upsert(@, R, 66),
                                      !.cut = @ \/ Cut(Namesakes(name[c]))]
    <2>2. Upsert(lookup[c].tests, R, 66) \in [LikelyTests -> 0 .. 99]
      BY <1>a, <1>b
    <2>3. l \in Lookups
      <3>1. lookup[c] \in Lookups
        BY DEF QueryTypeOK
      <3> QED
        BY <2>2, <3>1 DEF Lookups, Cut
    <2>4. /\ memo' = [memo EXCEPT ![name[c]] = l]
          /\ answer' = [answer EXCEPT ![c] = Merge(@, l)]
      BY <2>1
    <2> HIDE DEF l
    <2>5. memo' \in [Names -> Lookups \cup {None}]
      BY <2>3, <2>4 DEF QueryTypeOK
    <2>6. answer' \in [Calls -> Lookups]
      BY <2>3, <2>4, MergeTyping DEF QueryTypeOK
    <2>7. lookup' \in [Calls -> Lookups]
      BY <1>8, NothingTyping DEF ReadAlias, QueryTypeOK
    <2> QED
      BY <1>0, <1>8, <2>5, <2>6, <2>7 DEF ReadAlias, QueryTypeOK, Resting, Statements
  <1>9. ASSUME Answer(c) PROVE QueryTypeOK'
    <2>1. answer' \in [Calls -> Lookups]
      <3>1. CASE tool[c] # "plan"
        BY <1>9, <3>1 DEF Answer, QueryTypeOK
      <3>2. CASE tool[c] = "plan"
        <4>1. PICK R \in Rows(Suggested(answer[c])) : answer' = [answer EXCEPT
                     ![c].tests = [t \in LikelyTests |-> IF t \in R THEN @[t] ELSE 0],
                     ![c].cut = @ \/ Cut(Suggested(answer[c])) \/ Cut(impacted[c] \cap Files)]
          BY <1>9, <3>2 DEF Answer, WriteThePlan
        <4>2. answer[c] \in Lookups
          BY DEF QueryTypeOK
        <4>3. [t \in LikelyTests |-> IF t \in R THEN answer[c].tests[t] ELSE 0]
                  \in [LikelyTests -> 0 .. 99]
          BY <4>2, LookupFields
        <4>4. answer[c].cut \/ Cut(Suggested(answer[c])) \/ Cut(impacted[c] \cap Files) \in BOOLEAN
          BY <4>2, LookupFields DEF Cut
        <4> QED
          BY <4>1, <4>2, <4>3, <4>4 DEF Lookups, QueryTypeOK
      <3> QED
        BY <3>1, <3>2
    <2>2. impacted' \in [Calls -> SUBSET Nodes]
      <3>1. CASE tool[c] # "plan"
        BY <1>9, <3>1 DEF Answer, QueryTypeOK
      <3>2. CASE tool[c] = "plan"
        <4>1. PICK F \in Rows(impacted[c] \cap Files) : impacted' = [impacted EXCEPT ![c] = F]
          BY <1>9, <3>2 DEF Answer, WriteThePlan
        <4>2. F \subseteq Nodes
          BY RowsOf DEF QueryTypeOK, Nodes
        <4> QED
          BY <4>1, <4>2 DEF QueryTypeOK
      <3> QED
        BY <3>1, <3>2
    <2> QED
      BY <1>0, <1>9, <2>1, <2>2 DEF Answer, QueryTypeOK, Resting, Statements
  <1> QED
    BY <1>1, <1>2, <1>3, <1>4, <1>5, <1>6, <1>7, <1>8, <1>9

\* The statements about impact and risk, and about a module.
LEMMA TraceTyping ==
  ASSUME QueryTypeOK, NEW c \in Calls
  PROVE  /\ TraceUpstream(c) \/ TraceDownstream(c) => QueryTypeOK'
         /\ RiskUpstream(c) \/ RiskDownstream(c) => QueryTypeOK'
         /\ \A x, h \in Percents : RuntimeSnapshot(c, x, h) => QueryTypeOK'
  <1> USE DEF Await, asked, looking, tracing, callVars, history
  <1>0. ASSUME UNCHANGED graph PROVE GraphTypeOK'
    BY <1>0 DEF graph, GraphTypeOK, QueryTypeOK
  <1>1. ASSUME NEW s \in Traces, NEW S, Answered(c, s, S),
               impacted' \in [Calls -> SUBSET Nodes], blast' \in [Calls -> Nat],
               score' \in [Calls -> 0 .. 90]
        PROVE  QueryTypeOK'
    <2>1. answer[c] \in Lookups /\ (answer[c].cut \/ Cut(S)) \in BOOLEAN
      BY DEF QueryTypeOK, Lookups, Cut
    <2>2. answer' \in [Calls -> Lookups]
      BY <1>1, <2>1, LookupFields DEF Answered, QueryTypeOK
    <2>3. left' \in [Calls -> SUBSET Traces]
      BY <1>1 DEF Answered, QueryTypeOK
    <2>4. at' \in [Calls -> Resting \cup Statements]
      BY <1>1 DEF Answered, QueryTypeOK, Resting, Statements
    <2>5. ASSUME NEW d \in Calls
          PROVE  /\ at'[d] \in {"file", "names"} => target'[d] \in Files
                 /\ at'[d] \in {"targets", "direct", "chain", "alias"} => name'[d] \in Names
                 /\ left'[d] # {} => at'[d] = "traces"
      <3>1. CASE d = c
        BY <1>1, <3>1 DEF Answered, QueryTypeOK
      <3>2. CASE d # c
        BY <1>1, <3>2 DEF Answered, QueryTypeOK
      <3> QED
        BY <3>1, <3>2
    <2> QED
      BY <1>0, <1>1, <2>2, <2>3, <2>4, <2>5 DEF Answered, QueryTypeOK
  <1>2. Relationships \in SUBSET Joins
    BY Relate DEF QueryTypeOK
  <1>3. ASSUME NEW n, NEW R, \/ R \in Rows(Upstream2(Relationships, n))
                             \/ R \in Rows(Downstream2(Relationships, n))
                             \/ R \in Rows(Upstream3(Relationships, n))
                             \/ R \in Rows(Downstream3(Relationships, n))
        PROVE  R \subseteq Nodes /\ Cardinality(R) \in Nat
    <2>1. R \subseteq Nodes
      BY <1>2, <1>3, Reach, RowsOf
    <2> QED
      BY <2>1, Count
  <1>4. ASSUME TraceUpstream(c) PROVE QueryTypeOK'
    <2>1. impacted' \in [Calls -> SUBSET Nodes]
      BY <1>3, <1>4 DEF TraceUpstream, QueryTypeOK
    <2> QED
      BY <1>1, <1>4, <2>1 DEF TraceUpstream, QueryTypeOK, Traces
  <1>5. ASSUME TraceDownstream(c) PROVE QueryTypeOK'
    <2>1. impacted' \in [Calls -> SUBSET Nodes]
      BY <1>3, <1>5 DEF TraceDownstream, QueryTypeOK
    <2> QED
      BY <1>1, <1>5, <2>1 DEF TraceDownstream, QueryTypeOK, Traces
  <1>6. ASSUME RiskUpstream(c) PROVE QueryTypeOK'
    <2>1. blast' \in [Calls -> Nat]
      BY <1>3, <1>6 DEF RiskUpstream, QueryTypeOK
    <2> QED
      BY <1>1, <1>6, <2>1 DEF RiskUpstream, QueryTypeOK, Traces
  <1>7. ASSUME RiskDownstream(c) PROVE QueryTypeOK'
    <2>1. blast' \in [Calls -> Nat]
      BY <1>3, <1>7 DEF RiskDownstream, QueryTypeOK
    <2> QED
      BY <1>1, <1>7, <2>1 DEF RiskDownstream, QueryTypeOK, Traces
  <1>8. ASSUME NEW x \in Percents, NEW h \in Percents, RuntimeSnapshot(c, x, h)
        PROVE  QueryTypeOK'
    <2>1. x \in Nat /\ h \in Nat /\ x <= 100 /\ h <= 100
      BY QueryAssumption
    <2>2. blast[c] \in Nat
      BY DEF QueryTypeOK
    <2>3. RiskScore(blast[c], x, h) \in 0 .. 90
      BY <2>1, <2>2, ScoreRange
    <2>4. score' \in [Calls -> 0 .. 90] /\ blast' \in [Calls -> Nat]
      BY <1>8, <2>3 DEF RuntimeSnapshot, QueryTypeOK
    <2> QED
      BY <1>1, <1>8, <2>4 DEF RuntimeSnapshot, QueryTypeOK, Traces
  <1> QED
    BY <1>4, <1>5, <1>6, <1>7, <1>8

LEMMA Degrees ==
  ASSUME GraphTypeOK, NEW m
  PROVE  OutDegree(m) \in Nat /\ InDegree(m) \in Nat
  <1>1. OutOf(dependsOn, {m}) \subseteq Nodes /\ Into(dependsOn, {m}) \subseteq Nodes
    BY Neighbours DEF GraphTypeOK, Joins
  <1> QED
    BY <1>1, Count DEF OutDegree, InDegree

LEMMA BoundaryTyping ==
  ASSUME QueryTypeOK, NEW c \in Calls
  PROVE  /\ ReadModule(c) \/ ReadCycles(c) => QueryTypeOK'
         /\ ReadOrphans(c) \/ ReadHotspots(c) \/ ReadCoupling(c) => QueryTypeOK'
  <1> USE DEF Await, asked, looking, tracing, callVars, history
  <1>0. ASSUME UNCHANGED graph PROVE GraphTypeOK'
    BY <1>0 DEF graph, GraphTypeOK, QueryTypeOK
  <1>1. ASSUME NEW from, NEW to \in {"cycles", "orphans", "hotspots", "coupling", "answered",
                                     "notFound"},
               NEW b \in Boundaries, ReadBoundary(c, from, to, b),
               from \in {"module", "cycles", "orphans", "hotspots", "coupling"}
        PROVE  QueryTypeOK'
    <2>1. at' \in [Calls -> Resting \cup Statements] /\ boundary' \in [Calls -> Boundaries]
      BY <1>1 DEF ReadBoundary, QueryTypeOK, Resting, Statements
    <2> QED
      BY <1>0, <1>1, <2>1 DEF ReadBoundary, QueryTypeOK
  <1>2. boundary[c] \in Boundaries
    BY DEF QueryTypeOK
  <1>3. OutDegree(target[c]) \in Nat /\ InDegree(target[c]) \in Nat
    BY Degrees DEF QueryTypeOK
  <1>4. /\ Shown(OutDegree(target[c])) \in Nat /\ Shown(InDegree(target[c])) \in Nat
        /\ InDegree(target[c]) + OutDegree(target[c]) \in Nat
    BY <1>3, QueryAssumption DEF Shown
  <1>5. /\ \A n, k \in Nat :
               [boundary[c] EXCEPT !.dependencies = n, !.dependents = k] \in Boundaries
        /\ \A b \in BOOLEAN : [boundary[c] EXCEPT !.cyclic = b] \in Boundaries
        /\ \A b \in BOOLEAN : [boundary[c] EXCEPT !.orphan = b] \in Boundaries
        /\ \A n \in Nat : [boundary[c] EXCEPT !.hotspot = n] \in Boundaries
        /\ \A n \in Nat : [boundary[c] EXCEPT !.coupling = n] \in Boundaries
    BY <1>2 DEF Boundaries
  <1>6. ASSUME ReadModule(c) PROVE QueryTypeOK'
    BY <1>1, <1>2, <1>4, <1>5, <1>6 DEF ReadModule
  <1>7. ASSUME ReadCycles(c) PROVE QueryTypeOK'
    <2> DEFINE b == target[c] \in
                      Ahead(Ahead(Ahead(Ahead(Ahead(OutOf(dependsOn, {target[c]}))))))
    <2>1. b \in BOOLEAN
          /\ ReadBoundary(c, "cycles", "orphans", [boundary[c] EXCEPT !.cyclic = b])
      BY <1>7 DEF ReadCycles
    <2> HIDE DEF b
    <2> QED
      BY <1>1, <1>5, <2>1
  <1>8. ASSUME ReadOrphans(c) PROVE QueryTypeOK'
    <2>1. PICK R \in Rows(Orphans) : ReadBoundary(c, "orphans", "hotspots",
                 [boundary[c] EXCEPT !.orphan = target[c] \in R])
      BY <1>8 DEF ReadOrphans
    <2>2. (target[c] \in R) \in BOOLEAN
      OBVIOUS
    <2> QED
      BY <1>1, <1>5, <2>1, <2>2
  <1>9. ASSUME ReadHotspots(c) PROVE QueryTypeOK'
    BY <1>1, <1>4, <1>5, <1>9 DEF ReadHotspots
  <1>10. ASSUME ReadCoupling(c) PROVE QueryTypeOK'
    BY <1>1, <1>4, <1>5, <1>10 DEF ReadCoupling
  <1> QED
    BY <1>6, <1>7, <1>8, <1>9, <1>10

\* Writers change no call; the histories shrink.
LEMMA RememberTyping ==
  ASSUME QueryTypeOK, GraphTypeOK', Remember, cleared' \in [Calls -> BOOLEAN]
  PROVE  QueryTypeOK'
  <1> USE DEF asked, looking, tracing, callVars, history
  <1>1. ASSUME NEW l \in Lookups PROVE Lasting(l) \in Lookups
    BY DEF Lasting, Lookups
  <1>2. memo' \in [Names -> Lookups \cup {None}]
    BY <1>1 DEF Remember, QueryTypeOK
  <1>3. lookup' \in [Calls -> Lookups] /\ answer' \in [Calls -> Lookups]
    BY <1>1 DEF Remember, QueryTypeOK
  <1>4. links' \in [Calls -> SUBSET Joins]
    BY DEF Remember, QueryTypeOK, Joins
  <1> QED
    BY <1>2, <1>3, <1>4 DEF Remember, QueryTypeOK, Joins

LEMMA StepTyping == QueryTypeOK /\ [QueryNext]_queryVars => QueryTypeOK'
  <1> SUFFICES ASSUME QueryTypeOK, [QueryNext]_queryVars
               PROVE  QueryTypeOK'
    OBVIOUS
  <1>1. CASE Write \/ Clear
    <2>1. GraphTypeOK'
      BY <1>1, GraphTyping DEF QueryTypeOK
    <2>2. Remember /\ cleared' \in [Calls -> BOOLEAN]
      BY <1>1 DEF Write, Clear, QueryTypeOK
    <2> QED
      BY <2>1, <2>2, RememberTyping
  <1>2. ASSUME NEW n \in Names, Expire(n)
        PROVE  QueryTypeOK'
    BY <1>2 DEF Expire, graph, callVars, asked, looking, tracing, history, QueryTypeOK, GraphTypeOK
  <1>3. ASSUME NEW c \in Calls, Asks(c)
        PROVE  QueryTypeOK'
    BY <1>3, BeginTyping
  <1>4. ASSUME NEW c \in Calls, Reads(c)
        PROVE  QueryTypeOK'
    BY <1>4, LookupTyping, TraceTyping, BoundaryTyping DEF Reads
  <1>5. ASSUME NEW c \in Calls, Fails(c)
        PROVE  QueryTypeOK'
    <2>1. /\ "idle" \in Resting \cup Statements /\ None \in Tools \cup {None}
          /\ None \in Nodes \cup {None} /\ {} \in SUBSET Names /\ {} \in SUBSET Joins
      BY DEF Resting
    <2>2. /\ Forget(c, "idle", None, None, {}) /\ UNCHANGED <<graph, memo>>
          /\ links' = [links EXCEPT ![c] = {}]
      BY <1>5 DEF Fails
    <2> QED
      BY <2>1, <2>2, ForgetTyping
  <1>6. CASE UNCHANGED queryVars
    BY <1>6 DEF queryVars, graph, callVars, asked, looking, tracing, history, QueryTypeOK, GraphTypeOK
  <1> QED
    BY <1>1, <1>2, <1>3, <1>4, <1>5, <1>6 DEF QueryNext

\* Type correctness; the score stays within 0 .. 90.
THEOREM QueryTyping == QuerySpec => []QueryTypeOK
  BY InitTyping, StepTyping, PTL DEF QuerySpec

-----------------------------------------------------------------------------
(* Tests: a lookup under way knows which test cases still call its name,   *)
(* and what has been answered or memoized covers them.                     *)

StillCalled(c) == \A e \in lookup[c].steady : e[2] = name[c] /\ Mentions(called[e[1]], e[2])

LookupInv ==
    /\ \A f \in Files \ TestFiles : called[f] = {}
    /\ \A n \in Names : memo[n] # None => Covers(memo[n])
    /\ \A c \in Calls : Covers(answer[c])
    /\ \A c \in Calls : at[c] \in LookingUp => StillCalled(c)

LEMMA CoversMore ==
  ASSUME NEW l \in Lookups, NEW k \in Lookups, Covers(l),
         k.steady \subseteq l.steady, l.cut => k.cut,
         \A t \in LikelyTests : k.tests[t] >= l.tests[t]
  PROVE  Covers(k)
  <1> SUFFICES ASSUME ~k.cut, NEW e \in k.steady
               PROVE  k.tests[e[1]] >= 66
    BY DEF Covers
  <1>1. e \in l.steady /\ e[1] \in LikelyTests /\ ~l.cut
    BY DEF Lookups
  <1>2. l.tests[e[1]] >= 66 /\ k.tests[e[1]] >= l.tests[e[1]]
    BY <1>1 DEF Covers
  <1>3. l.tests[e[1]] \in 0 .. 99 /\ k.tests[e[1]] \in 0 .. 99
    BY <1>1 DEF Lookups
  <1> QED
    BY <1>2, <1>3

LEMMA MergeCovers ==
  ASSUME NEW l \in Lookups, NEW k \in Lookups, Covers(l), Covers(k)
  PROVE  Covers(Merge(l, k))
  <1> SUFFICES ASSUME ~Merge(l, k).cut, NEW e \in Merge(l, k).steady
               PROVE  Merge(l, k).tests[e[1]] >= 66
    BY DEF Covers
  <1>1. /\ ~l.cut /\ ~k.cut /\ (e \in l.steady \/ e \in k.steady)
        /\ l.steady \subseteq LikelyTests \X Names /\ k.steady \subseteq LikelyTests \X Names
    BY DEF Merge, Lookups
  <1>2. e[1] \in LikelyTests
    BY <1>1
  <1>3. /\ Merge(l, k).tests[e[1]] >= l.tests[e[1]]
        /\ Merge(l, k).tests[e[1]] >= k.tests[e[1]]
        /\ Merge(l, k) \in Lookups
    BY <1>2, MergeTyping
  <1>4. /\ l.tests[e[1]] \in 0 .. 99 /\ k.tests[e[1]] \in 0 .. 99
        /\ Merge(l, k).tests[e[1]] \in 0 .. 99
    BY <1>2, <1>3 DEF Lookups
  <1>5. /\ l.tests[e[1]] \in Nat /\ k.tests[e[1]] \in Nat
        /\ Merge(l, k).tests[e[1]] \in Nat
    BY <1>4
  <1>6. l.tests[e[1]] >= 66 \/ k.tests[e[1]] >= 66
    BY <1>1 DEF Covers
  <1> QED
    BY <1>3, <1>5, <1>6

LEMMA NothingCovers == Covers(Nothing)
  BY DEF Covers, Nothing

LEMMA TestsInit == QueryInit => LookupInv
  BY NothingCovers DEF QueryInit, EmptyGraph, NoNames, LookupInv, LookingUp

LEMMA WritersKeepTests ==
  ASSUME QueryTypeOK, LookupInv, Write \/ Clear
  PROVE  LookupInv'
  <1>1. Remember
    BY DEF Write, Clear
  <1>2. \A f \in Files \ TestFiles : called'[f] = {}
    <2>1. CASE Clear
      BY <2>1 DEF Clear, ClearGraph, NoNames
    <2>2. ASSUME NEW f \in Files,
                 \/ DeleteFileSubgraph(f)
                 \/ \E c \in Contents, T \in SUBSET Files : WriteFile(f, c, T)
                 \/ MergeModule(f)
                 \/ LinkTestCases(f)
          PROVE  \A g \in Files \ TestFiles : called'[g] = {}
      BY <2>2 DEF DeleteFileSubgraph, WriteFile, MergeModule, LinkTestCases, LookupInv,
                  QueryTypeOK, GraphTypeOK, graph
    <2> QED
      BY <2>1, <2>2 DEF Write, WriteCall
  <1>3. ASSUME NEW l \in Lookups, Covers(l) PROVE Covers(Lasting(l))
    BY <1>3 DEF Lasting, Covers, Lookups
  <1>4. \A n \in Names : memo'[n] # None => Covers(memo'[n])
    <2> SUFFICES ASSUME NEW n \in Names, memo'[n] # None PROVE Covers(memo'[n])
      OBVIOUS
    <2>1. memo[n] # None /\ memo'[n] = Lasting(memo[n])
      BY <1>1 DEF Remember
    <2>2. memo[n] \in Lookups /\ Covers(memo[n])
      BY <2>1 DEF QueryTypeOK, LookupInv
    <2> QED
      BY <1>3, <2>1, <2>2
  <1>5. ASSUME NEW c \in Calls
        PROVE  Covers(answer'[c]) /\ (at'[c] \in LookingUp => StillCalled(c)')
    <2>1. /\ answer'[c] = Lasting(answer[c]) /\ lookup'[c] = Lasting(lookup[c])
          /\ at'[c] = at[c] /\ name'[c] = name[c]
      BY <1>1 DEF Remember
    <2>2. answer[c] \in Lookups /\ lookup[c] \in Lookups /\ Covers(answer[c])
      BY DEF QueryTypeOK, LookupInv
    <2>3. Covers(answer'[c])
      BY <1>3, <2>1, <2>2
    <2>4. /\ lookup'[c].steady \subseteq lookup[c].steady
          /\ \A e \in lookup'[c].steady : Mentions(called'[e[1]], e[2])
      BY <2>1, <2>2 DEF Lasting, Lookups
    <2>5. ASSUME at[c] \in LookingUp PROVE \A e \in lookup[c].steady : e[2] = name[c]
      BY <2>5 DEF LookupInv, StillCalled
    <2>6. at'[c] \in LookingUp => StillCalled(c)'
      BY <2>1, <2>4, <2>5 DEF StillCalled
    <2> QED
      BY <2>3, <2>6
  <1> QED
    BY <1>2, <1>4, <1>5 DEF LookupInv

\* A call that leaves the graph and the memo alone, gives a covering answer and
\* is not in a lookup, or in one whose steady test cases are as before.
LEMMA CallKeepsTests ==
  ASSUME QueryTypeOK, LookupInv, NEW c \in Calls, UNCHANGED <<graph, memo>>,
         Covers(answer'[c]), at'[c] \in LookingUp => StillCalled(c)',
         \A d \in Calls \ {c} : /\ at'[d] = at[d] /\ name'[d] = name[d]
                                /\ lookup'[d] = lookup[d] /\ answer'[d] = answer[d]
  PROVE  LookupInv'
  <1>1. called' = called /\ memo' = memo
    BY DEF graph
  <1>2. ASSUME NEW d \in Calls
        PROVE  Covers(answer'[d]) /\ (at'[d] \in LookingUp => StillCalled(d)')
    BY <1>1 DEF LookupInv, StillCalled
  <1> QED
    BY <1>1, <1>2 DEF LookupInv

LEMMA LookupsKeepTests ==
  ASSUME QueryTypeOK, LookupInv, NEW c \in Calls
  PROVE  /\ FindFile(c) \/ FunctionNames(c) => LookupInv'
         /\ \A n \in Names : MemoHit(c, n) \/ SendLookup(c, n) => LookupInv'
         /\ ReadTargets(c) \/ ReadDirect(c) => LookupInv'
         /\ ReadChain(c) \/ ReadAlias(c) \/ Answer(c) => LookupInv'
  <1> USE DEF Await, asked, looking, tracing, callVars, history
  <1>a. lookup[c] \in Lookups /\ answer[c] \in Lookups /\ Covers(answer[c])
    BY DEF QueryTypeOK, LookupInv
  <1>1. ASSUME FindFile(c) PROVE LookupInv'
    <2>1. at'[c] \notin LookingUp /\ answer' = answer
      BY <1>1 DEF FindFile, QueryTypeOK, LookingUp
    <2>2. \A d \in Calls \ {c} : at'[d] = at[d]
      BY <1>1 DEF FindFile, QueryTypeOK
    <2> QED
      BY <1>a, <1>1, <2>1, <2>2, CallKeepsTests DEF FindFile
  <1>2. ASSUME FunctionNames(c) PROVE LookupInv'
    <2>1. answer' = [answer EXCEPT ![c].tests = Upsert(answer[c].tests, {target[c]}, 99)]
      BY <1>2 DEF FunctionNames
    <2>2. /\ answer[c].tests \in [LikelyTests -> 0 .. 99]
          /\ 99 \in Nat /\ 99 <= 99
      BY <1>a, LookupFields
    <2>3. /\ Upsert(answer[c].tests, {target[c]}, 99) \in [LikelyTests -> 0 .. 99]
          /\ \A t \in LikelyTests : Upsert(answer[c].tests, {target[c]}, 99)[t] >= answer[c].tests[t]
      BY <2>2, UpsertRaises
    <2>4. /\ answer'[c].tests = Upsert(answer[c].tests, {target[c]}, 99)
          /\ answer'[c].steady = answer[c].steady /\ answer'[c].cut = answer[c].cut
          /\ \A d \in Calls \ {c} : answer'[d] = answer[d]
      BY <1>a, <2>1 DEF QueryTypeOK, Lookups
    <2>5. answer'[c] \in Lookups
      BY <1>a, <2>1, <2>3, LookupFields DEF QueryTypeOK
    <2>6. Covers(answer'[c])
      BY <1>a, <2>3, <2>4, <2>5, CoversMore
    <2>7. at'[c] \notin LookingUp /\ \A d \in Calls \ {c} : at'[d] = at[d]
      BY <1>2 DEF FunctionNames, QueryTypeOK, LookingUp
    <2> QED
      BY <1>2, <2>4, <2>6, <2>7, CallKeepsTests DEF FunctionNames
  <1>3. ASSUME NEW n \in Names, MemoHit(c, n) PROVE LookupInv'
    <2>1. memo[n] \in Lookups /\ Covers(memo[n])
      BY <1>3 DEF MemoHit, QueryTypeOK, LookupInv
    <2>2. answer'[c] = Merge(answer[c], memo[n]) /\ \A d \in Calls \ {c} : answer'[d] = answer[d]
      BY <1>3 DEF MemoHit, QueryTypeOK
    <2>3. Covers(answer'[c])
      BY <1>a, <2>1, <2>2, MergeCovers
    <2>4. at'[c] \notin LookingUp
      BY <1>3 DEF MemoHit, LookingUp
    <2> QED
      BY <1>3, <2>2, <2>3, <2>4, CallKeepsTests DEF MemoHit
  <1>4. ASSUME NEW n \in Names, SendLookup(c, n) PROVE LookupInv'
    <2>1. /\ lookup'[c].steady = {e \in LikelyTests \X {n} : Mentions(called[e[1]], n)}
          /\ name'[c] = n
      BY <1>4 DEF SendLookup, QueryTypeOK, Nothing
    <2>2. called' = called
      BY <1>4 DEF SendLookup, graph
    <2>3. StillCalled(c)'
      BY <2>1, <2>2 DEF StillCalled
    <2>4. \A d \in Calls \ {c} : at'[d] = at[d] /\ name'[d] = name[d] /\ lookup'[d] = lookup[d]
      BY <1>4 DEF SendLookup, QueryTypeOK
    <2> QED
      BY <1>a, <1>4, <2>3, <2>4, CallKeepsTests DEF SendLookup
  <1>5. ASSUME ReadTargets(c) PROVE LookupInv'
    <2>1. called' = called /\ lookup' = lookup /\ name' = name /\ answer' = answer
      BY <1>5 DEF ReadTargets, graph
    <2>2. at[c] \in LookingUp /\ \A d \in Calls \ {c} : at'[d] = at[d]
      BY <1>5 DEF ReadTargets, LookingUp, QueryTypeOK
    <2>3. StillCalled(c)'
      BY <2>1, <2>2 DEF StillCalled, LookupInv
    <2> QED
      BY <1>a, <1>5, <2>1, <2>2, <2>3, CallKeepsTests DEF ReadTargets
  <1>6. ASSUME ReadDirect(c) PROVE LookupInv'
    <2>1. called' = called /\ name' = name /\ answer' = answer
      BY <1>6 DEF ReadDirect, graph
    <2>2. /\ at[c] \in LookingUp /\ \A d \in Calls \ {c} : at'[d] = at[d] /\ lookup'[d] = lookup[d]
          /\ lookup'[c].steady = lookup[c].steady
      BY <1>6 DEF ReadDirect, LookingUp, QueryTypeOK, Lookups
    <2>3. StillCalled(c)'
      BY <2>1, <2>2 DEF StillCalled, LookupInv
    <2> QED
      BY <1>a, <1>6, <2>1, <2>2, <2>3, CallKeepsTests DEF ReadDirect
  <1>7. ASSUME ReadChain(c) PROVE LookupInv'
    <2>1. called' = called /\ name' = name /\ answer' = answer
      BY <1>7 DEF ReadChain, graph
    <2>2. /\ at[c] \in LookingUp /\ \A d \in Calls \ {c} : at'[d] = at[d] /\ lookup'[d] = lookup[d]
          /\ lookup'[c].steady = lookup[c].steady
      BY <1>7 DEF ReadChain, LookingUp, QueryTypeOK, Lookups
    <2>3. StillCalled(c)'
      BY <2>1, <2>2 DEF StillCalled, LookupInv
    <2> QED
      BY <1>a, <1>7, <2>1, <2>2, <2>3, CallKeepsTests DEF ReadChain
  <1>8. ASSUME ReadAlias(c) PROVE LookupInv'
    <2>1. PICK R \in Rows(Namesakes(name[c])) :
            LET l == [lookup[c] EXCEPT !.tests = Upsert(@, R, 66),
                                       !.cut = @ \/ Cut(Namesakes(name[c]))]
            IN  /\ memo' = [memo EXCEPT ![name[c]] = l]
                /\ answer' = [answer EXCEPT ![c] = Merge(@, l)]
      BY <1>8 DEF ReadAlias
    <2> DEFINE found == Upsert(lookup[c].tests, R, 66)
               l == [lookup[c] EXCEPT !.tests = found,
                                      !.cut = @ \/ Cut(Namesakes(name[c]))]
    <2>2. /\ lookup[c].tests \in [LikelyTests -> 0 .. 99]
          /\ 66 \in Nat /\ 66 <= 99
      BY <1>a, LookupFields
    <2>3. found \in [LikelyTests -> 0 .. 99] /\ \A t \in LikelyTests \cap R : found[t] >= 66
      BY <2>2, UpsertRaises
    <2>4. name[c] \in Names /\ StillCalled(c)
      BY <1>8 DEF ReadAlias, QueryTypeOK, LookupInv, LookingUp
    <2>5. /\ memo' = [memo EXCEPT ![name[c]] = l]
          /\ answer' = [answer EXCEPT ![c] = Merge(answer[c], l)]
      BY <2>1
    <2> HIDE DEF found
    <2>6. /\ l \in Lookups /\ l.tests = found /\ l.steady = lookup[c].steady
          /\ ~l.cut => ~Cut(Namesakes(name[c]))
      BY <1>a, <2>3 DEF Lookups, Cut
    <2> HIDE DEF l
    <2>7. Covers(l)
      <3> SUFFICES ASSUME ~l.cut, NEW e \in lookup[c].steady
                   PROVE  found[e[1]] >= 66
        BY <2>6 DEF Covers
      <3>1. R = Namesakes(name[c])
        BY <2>6, RowsOf
      <3>2. /\ e[1] \in LikelyTests /\ e[1] \in Files
            /\ e[2] = name[c] /\ Mentions(called[e[1]], name[c])
        BY <1>a, <2>4, QueryAssumption DEF Lookups, StillCalled
      <3>3. called[e[1]] # {}
        BY <3>2 DEF Mentions
      <3>4. e[1] \in TestFiles
        BY <3>2, <3>3 DEF LookupInv
      <3> QED
        BY <2>3, <3>1, <3>2, <3>4 DEF Namesakes
    <2>8. Covers(Merge(answer[c], l))
      BY <1>a, <2>6, <2>7, MergeCovers
    <2>9. /\ at'[c] \notin LookingUp /\ called' = called
          /\ \A d \in Calls \ {c} : at'[d] = at[d] /\ name'[d] = name[d] /\ lookup'[d] = lookup[d]
      BY <1>8 DEF ReadAlias, QueryTypeOK, graph, LookingUp
    <2>10. \A n \in Names : memo'[n] # None => Covers(memo'[n])
      BY <2>4, <2>5, <2>7 DEF QueryTypeOK, LookupInv
    <2>11. \A d \in Calls : Covers(answer'[d])
      BY <2>5, <2>8 DEF QueryTypeOK, LookupInv
    <2>12. \A d \in Calls : at'[d] \in LookingUp => StillCalled(d)'
      BY <2>9 DEF LookupInv, StillCalled
    <2> QED
      BY <2>9, <2>10, <2>11, <2>12 DEF LookupInv
  <1>9. ASSUME Answer(c) PROVE LookupInv'
    <2>1. Covers(answer'[c]) /\ \A d \in Calls \ {c} : answer'[d] = answer[d]
      <3>1. CASE tool[c] # "plan"
        BY <1>a, <1>9, <3>1 DEF Answer
      <3>2. CASE tool[c] = "plan"
        <4>1. PICK R \in Rows(Suggested(answer[c])) : answer' = [answer EXCEPT
                     ![c].tests = [t \in LikelyTests |-> IF t \in R THEN @[t] ELSE 0],
                     ![c].cut = @ \/ Cut(Suggested(answer[c])) \/ Cut(impacted[c] \cap Files)]
          BY <1>9, <3>2 DEF Answer, WriteThePlan
        <4>2. /\ answer'[c].tests = [t \in LikelyTests |-> IF t \in R THEN answer[c].tests[t] ELSE 0]
              /\ answer'[c].steady = answer[c].steady
              /\ answer'[c].cut = (answer[c].cut \/ Cut(Suggested(answer[c]))
                                                \/ Cut(impacted[c] \cap Files))
              /\ \A d \in Calls \ {c} : answer'[d] = answer[d]
          BY <1>a, <4>1 DEF QueryTypeOK, Lookups
        <4>3. ASSUME ~answer'[c].cut, NEW e \in answer[c].steady
              PROVE  answer'[c].tests[e[1]] >= 66
          <5>1. ~answer[c].cut /\ R = Suggested(answer[c])
            BY <4>1, <4>2, <4>3, RowsOf
          <5>2. e[1] \in LikelyTests /\ answer[c].tests[e[1]] >= 66
            BY <1>a, <5>1 DEF Covers, Lookups
          <5>3. answer[c].tests[e[1]] \in 0 .. 99
            BY <1>a, <5>2 DEF Lookups
          <5>4. e[1] \in R
            BY <5>1, <5>2, <5>3 DEF Suggested
          <5> QED
            BY <4>2, <5>2, <5>4
        <4> QED
          BY <4>2, <4>3 DEF Covers
      <3> QED
        BY <3>1, <3>2
    <2>2. at'[c] \notin LookingUp /\ \A d \in Calls \ {c} : at'[d] = at[d]
      BY <1>9 DEF Answer, QueryTypeOK, LookingUp
    <2> QED
      BY <1>9, <2>1, <2>2, CallKeepsTests DEF Answer
  <1> QED
    BY <1>1, <1>2, <1>3, <1>4, <1>5, <1>6, <1>7, <1>8, <1>9

\* The other calls do not look anything up.
LEMMA OthersKeepTests ==
  ASSUME QueryTypeOK, LookupInv, NEW c \in Calls, UNCHANGED <<graph, memo>>,
         \/ Asks(c) \/ Fails(c)
         \/ TraceUpstream(c) \/ TraceDownstream(c) \/ RiskUpstream(c) \/ RiskDownstream(c)
         \/ \E x, h \in Percents : RuntimeSnapshot(c, x, h)
         \/ ReadModule(c) \/ ReadCycles(c) \/ ReadOrphans(c) \/ ReadHotspots(c) \/ ReadCoupling(c)
  PROVE  LookupInv'
  <1> USE DEF Await, asked, looking, tracing, callVars, history
  <1>1. ASSUME NEW first, NEW tl, NEW node, NEW names, Forget(c, first, tl, node, names),
               first \notin LookingUp
        PROVE  LookupInv'
    <2>1. /\ answer'[c] = Nothing /\ at'[c] \notin LookingUp
          /\ \A d \in Calls \ {c} : /\ at'[d] = at[d] /\ name'[d] = name[d]
                                    /\ lookup'[d] = lookup[d] /\ answer'[d] = answer[d]
      BY <1>1 DEF Forget, QueryTypeOK
    <2> QED
      BY <2>1, NothingCovers, CallKeepsTests
  <1>2. CASE Asks(c) \/ Fails(c)
    BY <1>1, <1>2 DEF Asks, Fails, Enter, TestsForFunction, TestsByPath, TraceImpact,
                      AssessChangeRisk, RefactorPlan, ModuleBoundary, LookingUp
  <1>3. ASSUME NEW s, NEW S, Answered(c, s, S)
        PROVE  LookupInv'
    <2>1. /\ at'[c] \notin LookingUp
          /\ \A d \in Calls \ {c} : /\ at'[d] = at[d] /\ name'[d] = name[d]
                                    /\ lookup'[d] = lookup[d] /\ answer'[d] = answer[d]
      BY <1>3 DEF Answered, QueryTypeOK, LookingUp
    <2>2. answer[c] \in Lookups /\ Covers(answer[c])
      BY DEF QueryTypeOK, LookupInv
    <2>3. /\ answer'[c].tests = answer[c].tests /\ answer'[c].steady = answer[c].steady
          /\ ~answer'[c].cut => ~answer[c].cut
      BY <1>3, <2>2 DEF Answered, QueryTypeOK, Lookups
    <2>4. Covers(answer'[c])
      BY <2>2, <2>3 DEF Covers
    <2> QED
      BY <2>1, <2>4, CallKeepsTests
  <1>4. CASE \/ TraceUpstream(c) \/ TraceDownstream(c) \/ RiskUpstream(c) \/ RiskDownstream(c)
             \/ \E x, h \in Percents : RuntimeSnapshot(c, x, h)
    BY <1>3, <1>4 DEF TraceUpstream, TraceDownstream, RiskUpstream, RiskDownstream, RuntimeSnapshot
  <1>5. ASSUME NEW from, NEW to, to \notin LookingUp, NEW b, ReadBoundary(c, from, to, b)
        PROVE  LookupInv'
    <2>1. /\ answer' = answer /\ at'[c] \notin LookingUp
          /\ \A d \in Calls \ {c} : at'[d] = at[d] /\ name'[d] = name[d] /\ lookup'[d] = lookup[d]
      BY <1>5 DEF ReadBoundary, QueryTypeOK
    <2> QED
      BY <2>1, CallKeepsTests DEF LookupInv
  <1>6. CASE ReadModule(c) \/ ReadCycles(c) \/ ReadOrphans(c) \/ ReadHotspots(c) \/ ReadCoupling(c)
    BY <1>5, <1>6 DEF ReadModule, ReadCycles, ReadOrphans, ReadHotspots, ReadCoupling, LookingUp
  <1> QED
    BY <1>2, <1>4, <1>6

LEMMA StepKeepsTests == QueryTypeOK /\ LookupInv /\ [QueryNext]_queryVars => LookupInv'
  <1> SUFFICES ASSUME QueryTypeOK, LookupInv, [QueryNext]_queryVars
               PROVE  LookupInv'
    OBVIOUS
  <1>1. CASE Write \/ Clear
    BY <1>1, WritersKeepTests
  <1>2. ASSUME NEW n \in Names, Expire(n)
        PROVE  LookupInv'
    BY <1>2 DEF Expire, graph, callVars, asked, looking, QueryTypeOK, LookupInv, StillCalled
  <1>3. ASSUME NEW c \in Calls, Asks(c) \/ Fails(c)
        PROVE  LookupInv'
    <2>1. UNCHANGED <<graph, memo>>
      BY <1>3 DEF Asks, Fails, Enter, TestsForFunction, TestsByPath, TraceImpact,
                  AssessChangeRisk, RefactorPlan, ModuleBoundary
    <2> QED
      BY <1>3, <2>1, OthersKeepTests
  <1>4. ASSUME NEW c \in Calls, Reads(c)
        PROVE  LookupInv'
    <2>1. CASE \/ FindFile(c) \/ FunctionNames(c)
               \/ \E n \in Names : MemoHit(c, n) \/ SendLookup(c, n)
               \/ ReadTargets(c) \/ ReadDirect(c) \/ ReadChain(c) \/ ReadAlias(c) \/ Answer(c)
      BY <2>1, LookupsKeepTests
    <2>2. CASE \/ TraceUpstream(c) \/ TraceDownstream(c) \/ RiskUpstream(c) \/ RiskDownstream(c)
               \/ \E x, h \in Percents : RuntimeSnapshot(c, x, h)
      <3>1. UNCHANGED <<graph, memo>>
        BY <2>2 DEF TraceUpstream, TraceDownstream, RiskUpstream, RiskDownstream, RuntimeSnapshot,
                    Answered
      <3> QED
        BY <2>2, <3>1, OthersKeepTests
    <2>3. CASE ReadModule(c) \/ ReadCycles(c) \/ ReadOrphans(c) \/ ReadHotspots(c) \/ ReadCoupling(c)
      <3>1. UNCHANGED <<graph, memo>>
        BY <2>3 DEF ReadModule, ReadCycles, ReadOrphans, ReadHotspots, ReadCoupling, ReadBoundary
      <3> QED
        BY <2>3, <3>1, OthersKeepTests
    <2> QED
      BY <1>4, <2>1, <2>2, <2>3 DEF Reads
  <1>5. CASE UNCHANGED queryVars
    BY <1>5 DEF queryVars, graph, callVars, asked, looking, LookupInv, StillCalled
  <1> QED
    BY <1>1, <1>2, <1>3, <1>4, <1>5 DEF QueryNext

LEMMA LookupsCover == QuerySpec => []LookupInv
  BY TestsInit, StepKeepsTests, QueryTyping, PTL DEF QuerySpec

\* Whatever is re-indexed while tests are looked up, and from the memo: a test
\* case that has called the function all the while is suggested.
THEOREM TestsSuggested == QuerySpec => []SteadyTestsSuggested
  <1>1. LookupInv => SteadyTestsSuggested
    BY DEF LookupInv, SteadyTestsSuggested
  <1> QED
    BY <1>1, LookupsCover, PTL

-----------------------------------------------------------------------------
(* Impact and risk: what a statement has returned covers the relationships *)
(* that were there all the while, of which there are only ever fewer.      *)

Up(c) == Upstream3(links[c], target[c])
Down(c) == Downstream3(links[c], target[c])
Met(c) == Cardinality(Up(c)) + Cardinality(Down(c))

ImpactFound(c) ==
    /\ tool[c] \in {"upstream", "impact", "plan"} /\ "up" \notin left[c]
           => Upstream2(links[c], target[c]) \cap Named(c) \subseteq impacted[c]
    /\ tool[c] \in {"downstream", "impact", "plan"} /\ "down" \notin left[c]
           => Downstream2(links[c], target[c]) \cap Named(c) \subseteq impacted[c]

RiskCounted(c) ==
    tool[c] \in {"risk", "plan"} =>
        /\ "riskUp" \notin left[c] /\ "riskDown" \in left[c] => Cardinality(Up(c)) <= blast[c]
        /\ "riskDown" \notin left[c] /\ "runtime" \in left[c] => Met(c) <= blast[c]
        /\ "runtime" \notin left[c] => RiskScore(Met(c), 0, 0) <= score[c]

InTurn(c) ==
    tool[c] \in {"risk", "plan"} => /\ "riskUp" \in left[c] => "riskDown" \in left[c]
                                    /\ "riskDown" \in left[c] => "runtime" \in left[c]

TraceInv ==
    \A c \in Calls :
        /\ links[c] \subseteq Relationships
        /\ at[c] \in {"file", "names"} => tool[c] = "tests_by_path"
        /\ InTurn(c)
        /\ ~answer[c].cut => ImpactFound(c) /\ RiskCounted(c)

LEMMA BlastRange ==
  ASSUME QueryTypeOK, NEW c \in Calls, NEW D \in SUBSET links[c]
  PROVE  LET m == Cardinality(Upstream3(D, target[c]))
             n == Cardinality(Downstream3(D, target[c]))
         IN  /\ m \in Nat /\ n \in Nat /\ m + n \in Nat
             /\ Cardinality(Up(c)) \in Nat /\ Cardinality(Down(c)) \in Nat /\ Met(c) \in Nat
             /\ m <= Cardinality(Up(c)) /\ m + n <= Met(c)
  <1>1. links[c] \in SUBSET Joins
    BY DEF QueryTypeOK, Joins
  <1>2. /\ Up(c) \subseteq Nodes /\ Upstream3(D, target[c]) \subseteq Up(c)
        /\ Down(c) \subseteq Nodes /\ Downstream3(D, target[c]) \subseteq Down(c)
    BY <1>1, Reach DEF Up, Down
  <1>3. /\ Cardinality(Upstream3(D, target[c])) \in Nat
        /\ Cardinality(Up(c)) \in Nat
        /\ Cardinality(Upstream3(D, target[c])) <= Cardinality(Up(c))
    BY <1>2, Count
  <1>4. /\ Cardinality(Downstream3(D, target[c])) \in Nat
        /\ Cardinality(Down(c)) \in Nat
        /\ Cardinality(Downstream3(D, target[c])) <= Cardinality(Down(c))
    BY <1>2, Count
  <1> QED
    BY <1>3, <1>4 DEF Met

\* What has been found and counted stays good when relationships go, and when
\* a LIMIT cuts something else off.
LEMMA FewerLinks ==
  ASSUME QueryTypeOK, NEW c \in Calls, links'[c] \in SUBSET links[c],
         tool'[c] = tool[c], target'[c] = target[c], left'[c] = left[c],
         impacted'[c] = impacted[c], blast'[c] = blast[c], score'[c] = score[c]
  PROVE  /\ ImpactFound(c) => ImpactFound(c)'
         /\ RiskCounted(c) => RiskCounted(c)'
         /\ InTurn(c) => InTurn(c)'
  <1>1. links[c] \in SUBSET Joins
    BY DEF QueryTypeOK, Joins
  <1>2. /\ Upstream2(links'[c], target[c]) \subseteq Upstream2(links[c], target[c])
        /\ Downstream2(links'[c], target[c]) \subseteq Downstream2(links[c], target[c])
    BY <1>1, Reach
  <1>3. ImpactFound(c) => ImpactFound(c)'
    BY <1>2 DEF ImpactFound, Named
  <1> DEFINE m == Cardinality(Upstream3(links'[c], target[c]))
             n == Cardinality(Downstream3(links'[c], target[c]))
  <1>4. /\ m \in Nat /\ n \in Nat /\ m + n \in Nat
        /\ Cardinality(Up(c)) \in Nat /\ Cardinality(Down(c)) \in Nat /\ Met(c) \in Nat
        /\ m <= Cardinality(Up(c)) /\ m + n <= Met(c)
    BY BlastRange
  <1>5. Cardinality(Up(c))' = m /\ Met(c)' = m + n
    BY DEF Up, Down, Met
  <1>6. RiskScore(m + n, 0, 0) <= RiskScore(Met(c), 0, 0)
    BY <1>4, ScoreGrows
  <1>7. /\ RiskScore(m + n, 0, 0) \in Nat /\ RiskScore(Met(c), 0, 0) \in Nat
        /\ blast[c] \in Nat /\ score[c] \in Nat
    <2>1. RiskScore(m + n, 0, 0) \in 0 .. 90 /\ RiskScore(Met(c), 0, 0) \in 0 .. 90
      BY <1>4, ScoreRange
    <2>2. blast[c] \in Nat /\ score[c] \in 0 .. 90
      BY DEF QueryTypeOK
    <2> QED
      BY <2>1, <2>2
  <1> HIDE DEF m, n
  <1>8. ASSUME RiskCounted(c) PROVE RiskCounted(c)'
    <2>1. ASSUME tool[c] \in {"risk", "plan"}, "riskUp" \notin left[c], "riskDown" \in left[c]
          PROVE  m <= blast[c]
      BY <1>4, <1>7, <1>8, <2>1 DEF RiskCounted
    <2>2. ASSUME tool[c] \in {"risk", "plan"}, "riskDown" \notin left[c], "runtime" \in left[c]
          PROVE  m + n <= blast[c]
      BY <1>4, <1>7, <1>8, <2>2 DEF RiskCounted
    <2>3. ASSUME tool[c] \in {"risk", "plan"}, "runtime" \notin left[c]
          PROVE  RiskScore(m + n, 0, 0) <= score[c]
      BY <1>6, <1>7, <1>8, <2>3 DEF RiskCounted
    <2>4. RiskScore(Met(c), 0, 0)' = RiskScore(m + n, 0, 0)
      BY <1>5 DEF RiskScore
    <2> QED
      BY <1>5, <2>1, <2>2, <2>3, <2>4 DEF RiskCounted
  <1> QED
    BY <1>3, <1>8 DEF InTurn

LEMMA TraceInit == QueryInit => TraceInv
  BY QueryAssumption DEF QueryInit, TraceInv, ImpactFound, RiskCounted, InTurn, Served

LEMMA WritersKeepTraces ==
  ASSUME QueryTypeOK, TraceInv, Write \/ Clear
  PROVE  TraceInv'
  <1>1. Remember
    BY DEF Write, Clear
  <1> SUFFICES ASSUME NEW c \in Calls
               PROVE  /\ links'[c] \subseteq Relationships'
                      /\ at'[c] \in {"file", "names"} => tool'[c] = "tests_by_path"
                      /\ InTurn(c)'
                      /\ ~answer'[c].cut => ImpactFound(c)' /\ RiskCounted(c)'
    BY DEF TraceInv
  <1>2. /\ links'[c] = links[c] \cap Relationships' /\ at' = at
        /\ tool'[c] = tool[c] /\ target'[c] = target[c] /\ left'[c] = left[c]
        /\ impacted'[c] = impacted[c] /\ blast'[c] = blast[c] /\ score'[c] = score[c]
    BY <1>1 DEF Remember, asked, tracing
  <1>3. answer'[c].cut = answer[c].cut
    <2>1. answer[c] \in Lookups /\ answer'[c] = Lasting(answer[c])
      BY <1>1 DEF Remember, QueryTypeOK
    <2> QED
      BY <2>1 DEF Lasting, Lookups
  <1> QED
    BY <1>2, <1>3, FewerLinks DEF TraceInv

\* A step of one call that is not a statement of a trace.
LEMMA CallKeepsTraces ==
  ASSUME QueryTypeOK, TraceInv, NEW c \in Calls, UNCHANGED <<graph, tool, tracing, links>>,
         ~answer'[c].cut => ~answer[c].cut,
         target'[c] # target[c] => tool[c] \notin {"upstream", "downstream", "impact", "risk", "plan"},
         at'[c] \in {"file", "names"} => tool[c] = "tests_by_path",
         \A d \in Calls \ {c} : at'[d] = at[d] /\ target'[d] = target[d] /\ answer'[d] = answer[d]
  PROVE  TraceInv'
  <1>1. Relationships' = Relationships
    BY DEF Relationships, graph
  <1> SUFFICES ASSUME NEW d \in Calls
               PROVE  /\ links'[d] \subseteq Relationships'
                      /\ at'[d] \in {"file", "names"} => tool'[d] = "tests_by_path"
                      /\ InTurn(d)'
                      /\ ~answer'[d].cut => ImpactFound(d)' /\ RiskCounted(d)'
    BY DEF TraceInv
  <1>2. /\ links'[d] \subseteq Relationships'
        /\ at'[d] \in {"file", "names"} => tool'[d] = "tests_by_path"
    BY <1>1 DEF TraceInv
  <1>3. CASE target'[d] = target[d]
    <2>1. /\ links'[d] \in SUBSET links[d] /\ tool'[d] = tool[d] /\ target'[d] = target[d]
          /\ left'[d] = left[d] /\ impacted'[d] = impacted[d]
          /\ blast'[d] = blast[d] /\ score'[d] = score[d]
      BY <1>3 DEF tracing
    <2>2. ~answer'[d].cut => ~answer[d].cut
      OBVIOUS
    <2> QED
      BY <1>2, <2>1, <2>2, FewerLinks DEF TraceInv
  <1>4. CASE target'[d] # target[d]
    BY <1>2, <1>4 DEF ImpactFound, RiskCounted, InTurn
  <1> QED
    BY <1>3, <1>4

\* Writing the plan drops modules from the impact, and files only if the slice
\* cuts some off.
LEMMA PlanKeepsTraces ==
  ASSUME QueryTypeOK, TraceInv, NEW c \in Calls, Answer(c), tool[c] = "plan"
  PROVE  TraceInv'
  <1> USE DEF Await, asked, looking, tracing, callVars, history
  <1>1. PICK R \in Rows(Suggested(answer[c])), F \in Rows(impacted[c] \cap Files) :
               /\ answer' = [answer EXCEPT
                      ![c].tests = [t \in LikelyTests |-> IF t \in R THEN @[t] ELSE 0],
                      ![c].cut = @ \/ Cut(Suggested(answer[c])) \/ Cut(impacted[c] \cap Files)]
               /\ impacted' = [impacted EXCEPT ![c] = F]
    BY DEF Answer, WriteThePlan
  <1>2. /\ answer'[c].cut = (answer[c].cut \/ Cut(Suggested(answer[c]))
                                          \/ Cut(impacted[c] \cap Files))
        /\ \A d \in Calls \ {c} : answer'[d] = answer[d]
    BY <1>1 DEF QueryTypeOK, Lookups
  <1>3. impacted'[c] = F /\ \A d \in Calls \ {c} : impacted'[d] = impacted[d]
    BY <1>1 DEF QueryTypeOK
  <1>4. /\ UNCHANGED <<graph, tool, target, left, blast, score, links>>
        /\ at'[c] = "answered" /\ \A d \in Calls \ {c} : at'[d] = at[d]
    BY DEF Answer, QueryTypeOK
  <1>5. Relationships' = Relationships
    BY <1>4 DEF Relationships, graph
  <1>6. ASSUME NEW d \in Calls \ {c}
        PROVE  /\ links'[d] \subseteq Relationships'
               /\ at'[d] \in {"file", "names"} => tool'[d] = "tests_by_path"
               /\ InTurn(d)'
               /\ ~answer'[d].cut => ImpactFound(d)' /\ RiskCounted(d)'
    BY <1>2, <1>3, <1>4, <1>5, FewerLinks DEF TraceInv
  <1>7. ASSUME ~answer'[c].cut
        PROVE  ImpactFound(c)'
    <2>1. ~answer[c].cut /\ F = impacted[c] \cap Files
      BY <1>2, <1>7, RowsOf
    <2> QED
      BY <1>3, <1>4, <2>1 DEF TraceInv, ImpactFound, Named
  <1>8. InTurn(c)'
    BY <1>4 DEF TraceInv, InTurn
  <1>9. ASSUME ~answer'[c].cut
        PROVE  RiskCounted(c)'
    <2>1. ~answer[c].cut /\ RiskCounted(c)
      BY <1>2, <1>9 DEF TraceInv
    <2>2. Cardinality(Up(c))' = Cardinality(Up(c)) /\ Met(c)' = Met(c)
      BY <1>4 DEF Up, Down, Met
    <2>3. RiskScore(Met(c), 0, 0)' = RiskScore(Met(c), 0, 0)
      BY <2>2 DEF RiskScore
    <2> QED
      BY <1>4, <2>1, <2>2, <2>3 DEF RiskCounted
  <1> QED
    BY <1>4, <1>5, <1>6, <1>7, <1>8, <1>9 DEF TraceInv

LEMMA LookupsKeepTraces ==
  ASSUME QueryTypeOK, TraceInv, NEW c \in Calls,
         \/ FindFile(c) \/ FunctionNames(c)
         \/ \E n \in Names : MemoHit(c, n) \/ SendLookup(c, n)
         \/ ReadTargets(c) \/ ReadDirect(c) \/ ReadChain(c) \/ ReadAlias(c) \/ Answer(c)
         \/ ReadModule(c) \/ ReadCycles(c) \/ ReadOrphans(c) \/ ReadHotspots(c) \/ ReadCoupling(c)
  PROVE  TraceInv'
  <1> USE DEF Await, asked, looking, tracing, callVars, history
  <1>a. answer[c] \in Lookups
    BY DEF QueryTypeOK
  <1>1. CASE FindFile(c)
    <2>1. tool[c] = "tests_by_path"
      BY <1>1 DEF FindFile, TraceInv
    <2>2. \A d \in Calls \ {c} : at'[d] = at[d] /\ target'[d] = target[d]
      BY <1>1 DEF FindFile, QueryTypeOK
    <2> QED
      BY <1>1, <2>1, <2>2, CallKeepsTraces DEF FindFile
  <1>2. CASE FunctionNames(c)
    <2>1. answer'[c].cut = answer[c].cut /\ \A d \in Calls \ {c} : answer'[d] = answer[d]
      BY <1>a, <1>2 DEF FunctionNames, QueryTypeOK, Lookups
    <2>2. at'[c] = "next" /\ \A d \in Calls \ {c} : at'[d] = at[d]
      BY <1>2 DEF FunctionNames, QueryTypeOK
    <2> QED
      BY <1>2, <2>1, <2>2, CallKeepsTraces DEF FunctionNames
  <1>3. ASSUME NEW l, answer' = [answer EXCEPT ![c] = Merge(@, l)]
        PROVE  /\ ~answer'[c].cut => ~answer[c].cut
               /\ \A d \in Calls \ {c} : answer'[d] = answer[d]
    BY <1>3 DEF Merge, QueryTypeOK
  <1>4. ASSUME NEW n \in Names, MemoHit(c, n) PROVE TraceInv'
    <2>1. /\ ~answer'[c].cut => ~answer[c].cut
          /\ \A d \in Calls \ {c} : answer'[d] = answer[d]
      BY <1>3, <1>4 DEF MemoHit
    <2> QED
      BY <1>4, <2>1, CallKeepsTraces DEF MemoHit, TraceInv
  <1>5. ASSUME NEW n \in Names, SendLookup(c, n) PROVE TraceInv'
    <2>1. at'[c] = "targets" /\ \A d \in Calls \ {c} : at'[d] = at[d]
      BY <1>5 DEF SendLookup, QueryTypeOK
    <2> QED
      BY <1>5, <2>1, CallKeepsTraces DEF SendLookup
  <1>6. CASE ReadTargets(c)
    <2>1. at'[c] \in {"alias", "direct"} /\ \A d \in Calls \ {c} : at'[d] = at[d]
      BY <1>6 DEF ReadTargets, QueryTypeOK
    <2> QED
      BY <1>6, <2>1, CallKeepsTraces DEF ReadTargets
  <1>7. CASE ReadDirect(c) \/ ReadChain(c)
    <2>1. at'[c] \in {"chain", "alias"} /\ \A d \in Calls \ {c} : at'[d] = at[d]
      BY <1>7 DEF ReadDirect, ReadChain, QueryTypeOK
    <2> QED
      BY <1>7, <2>1, CallKeepsTraces DEF ReadDirect, ReadChain
  <1>8. CASE ReadAlias(c)
    <2>1. PICK l : answer' = [answer EXCEPT ![c] = Merge(@, l)]
      BY <1>8 DEF ReadAlias
    <2>2. at'[c] = "next" /\ \A d \in Calls \ {c} : at'[d] = at[d]
      BY <1>8 DEF ReadAlias, QueryTypeOK
    <2> QED
      BY <1>3, <1>8, <2>1, <2>2, CallKeepsTraces DEF ReadAlias
  <1>9. CASE Answer(c) /\ tool[c] # "plan"
    <2>1. at'[c] = "answered" /\ \A d \in Calls \ {c} : at'[d] = at[d]
      BY <1>9 DEF Answer, QueryTypeOK
    <2> QED
      BY <1>9, <2>1, CallKeepsTraces DEF Answer
  <1>12. CASE Answer(c) /\ tool[c] = "plan"
    BY <1>12, PlanKeepsTraces
  <1>10. ASSUME NEW from, NEW to, to \notin {"file", "names"}, NEW b, ReadBoundary(c, from, to, b)
         PROVE  TraceInv'
    <2>1. at'[c] \notin {"file", "names"} /\ \A d \in Calls \ {c} : at'[d] = at[d]
      BY <1>10 DEF ReadBoundary, QueryTypeOK
    <2> QED
      BY <1>10, <2>1, CallKeepsTraces DEF ReadBoundary
  <1>11. CASE ReadModule(c) \/ ReadCycles(c) \/ ReadOrphans(c) \/ ReadHotspots(c) \/ ReadCoupling(c)
    BY <1>10, <1>11 DEF ReadModule, ReadCycles, ReadOrphans, ReadHotspots, ReadCoupling
  <1> QED
    BY <1>1, <1>2, <1>4, <1>5, <1>6, <1>7, <1>8, <1>9, <1>11, <1>12

\* A call that has just begun has found nothing, and has every statement to come.
LEMMA BeginTraces ==
  ASSUME QueryTypeOK, TraceInv, NEW c \in Calls, Asks(c) \/ Fails(c)
  PROVE  TraceInv'
  <1>1. ASSUME NEW first, NEW tl, NEW node, NEW names, Forget(c, first, tl, node, names),
               UNCHANGED graph, NEW L \in SUBSET Relationships, links' = [links EXCEPT ![c] = L],
               first \in {"file", "names"} => tl = "tests_by_path",
               tl \in {"upstream", "downstream", "impact", "risk", "plan"} => first = "traces"
        PROVE  TraceInv'
    <2>1. Relationships' = Relationships
      BY <1>1 DEF Relationships, graph
    <2>2. /\ links'[c] \subseteq Relationships'
          /\ at'[c] = first /\ tool'[c] = tl
          /\ left'[c] = IF first = "traces" THEN StatementsOf(tl) ELSE {}
      BY <1>1, <2>1 DEF Forget, QueryTypeOK
    <2>3. ImpactFound(c)' /\ RiskCounted(c)' /\ InTurn(c)'
      <3>1. /\ tl = "upstream" => StatementsOf(tl) = {"up"}
            /\ tl = "downstream" => StatementsOf(tl) = {"down"}
            /\ tl = "impact" => StatementsOf(tl) = {"up", "down"}
            /\ tl = "risk" => StatementsOf(tl) = {"riskUp", "riskDown", "runtime"}
            /\ tl = "plan" => StatementsOf(tl) = Traces
        BY DEF StatementsOf
      <3>2. tl \in {"upstream", "downstream", "impact", "risk", "plan"} => left'[c] = StatementsOf(tl)
        BY <1>1, <2>2
      <3>3. ImpactFound(c)'
        BY <2>2, <3>1, <3>2 DEF ImpactFound, Traces
      <3>4. RiskCounted(c)' /\ InTurn(c)'
        BY <2>2, <3>1, <3>2 DEF RiskCounted, InTurn, Traces
      <3> QED
        BY <3>3, <3>4
    <2>4. ASSUME NEW d \in Calls \ {c}
          PROVE  /\ links'[d] = links[d] /\ at'[d] = at[d]
                 /\ tool'[d] = tool[d] /\ target'[d] = target[d] /\ left'[d] = left[d]
                 /\ impacted'[d] = impacted[d] /\ blast'[d] = blast[d] /\ score'[d] = score[d]
                 /\ answer'[d] = answer[d]
      BY <1>1 DEF Forget, QueryTypeOK
    <2>5. ASSUME NEW d \in Calls \ {c}
          PROVE  /\ links'[d] \subseteq Relationships'
                 /\ at'[d] \in {"file", "names"} => tool'[d] = "tests_by_path"
                 /\ InTurn(d)'
                 /\ ~answer'[d].cut => ImpactFound(d)' /\ RiskCounted(d)'
      BY <2>1, <2>4, FewerLinks DEF TraceInv
    <2> QED
      BY <1>1, <2>2, <2>3, <2>5 DEF TraceInv
  <1>2. CASE Fails(c)
    <2>1. /\ Forget(c, "idle", None, None, {}) /\ UNCHANGED graph
          /\ {} \in SUBSET Relationships /\ links' = [links EXCEPT ![c] = {}]
      BY <1>2 DEF Fails
    <2>2. None \notin {"upstream", "downstream", "impact", "risk", "plan"}
      BY QueryAssumption DEF Served
    <2>3. "idle" \notin {"file", "names"}
      OBVIOUS
    <2> QED
      BY <1>1, <2>1, <2>2, <2>3
  <1>3. ASSUME NEW first, NEW tl, NEW node, NEW names, Enter(c, tl, first, node, names),
               first \in {"file", "names"} => tl = "tests_by_path",
               tl \in {"upstream", "downstream", "impact", "risk", "plan"} => first = "traces"
        PROVE  TraceInv'
    <2> DEFINE L == IF first = "traces" THEN Relationships ELSE {}
    <2>1. /\ Forget(c, first, tl, node, names) /\ UNCHANGED graph
          /\ L \in SUBSET Relationships /\ links' = [links EXCEPT ![c] = L]
      BY <1>3 DEF Enter
    <2> HIDE DEF L
    <2> QED
      BY <1>1, <1>3, <2>1
  <1>4. CASE Asks(c)
    BY <1>3, <1>4 DEF Asks, TestsForFunction, TestsByPath, TraceImpact, AssessChangeRisk,
                      RefactorPlan, ModuleBoundary
  <1> QED
    BY <1>2, <1>4

LEMMA StatementsFind ==
  ASSUME QueryTypeOK, TraceInv, NEW c \in Calls,
         \/ TraceUpstream(c) \/ TraceDownstream(c) \/ RiskUpstream(c) \/ RiskDownstream(c)
         \/ \E x, h \in Percents : RuntimeSnapshot(c, x, h)
  PROVE  TraceInv'
  <1> USE DEF Await, asked, looking, tracing, callVars, history
  <1>1. /\ links[c] \in SUBSET Relationships /\ Relationships \in SUBSET Joins
        /\ answer[c] \in Lookups /\ left[c] \in SUBSET Traces /\ impacted[c] \in SUBSET Nodes
    BY Relate DEF TraceInv, QueryTypeOK
  <1>2. ASSUME NEW s \in Traces, NEW S, Answered(c, s, S),
               \A d \in Calls \ {c} : /\ impacted'[d] = impacted[d]
                                      /\ blast'[d] = blast[d] /\ score'[d] = score[d],
               InTurn(c)', ~answer'[c].cut => ImpactFound(c)' /\ RiskCounted(c)'
        PROVE  TraceInv'
    <2>1. Relationships' = Relationships /\ links' = links /\ tool' = tool /\ target' = target
      BY <1>2 DEF Answered, Relationships, graph
    <2>2. at'[c] \notin {"file", "names"}
      BY <1>2 DEF Answered, QueryTypeOK
    <2>3. ASSUME NEW d \in Calls \ {c}
          PROVE  at'[d] = at[d] /\ left'[d] = left[d] /\ answer'[d] = answer[d]
      BY <1>2 DEF Answered, QueryTypeOK
    <2>4. ASSUME NEW d \in Calls \ {c}
          PROVE  /\ links'[d] \subseteq Relationships'
                 /\ at'[d] \in {"file", "names"} => tool'[d] = "tests_by_path"
                 /\ InTurn(d)'
                 /\ ~answer'[d].cut => ImpactFound(d)' /\ RiskCounted(d)'
      <3>1. links'[d] \in SUBSET links[d]
        BY <2>1
      <3> QED
        BY <1>2, <2>1, <2>3, <3>1, FewerLinks DEF TraceInv
    <2> QED
      BY <1>1, <1>2, <2>1, <2>2, <2>4 DEF TraceInv
  <1>3. ASSUME NEW s, NEW S, Answered(c, s, S)
        PROVE  /\ s \in left[c] /\ left'[c] = left[c] \ {s}
               /\ ~answer'[c].cut => ~answer[c].cut /\ ~Cut(S)
               /\ links' = links /\ tool' = tool /\ target' = target
    BY <1>1, <1>3 DEF Answered, QueryTypeOK, Lookups
  <1>4. /\ InTurn(c)
        /\ ~answer[c].cut => ImpactFound(c) /\ RiskCounted(c)
    BY DEF TraceInv
  <1>5. /\ Upstream2(links[c], target[c]) \subseteq Upstream2(Relationships, target[c])
        /\ Downstream2(links[c], target[c]) \subseteq Downstream2(Relationships, target[c])
    BY <1>1, Reach
  <1>6. /\ Up(c) \subseteq Upstream3(Relationships, target[c])
        /\ Upstream3(Relationships, target[c]) \subseteq Nodes
        /\ Down(c) \subseteq Downstream3(Relationships, target[c])
        /\ Downstream3(Relationships, target[c]) \subseteq Nodes
    BY <1>1, Reach DEF Up, Down
  <1>7. /\ Cardinality(Up(c)) \in Nat /\ Cardinality(Upstream3(Relationships, target[c])) \in Nat
        /\ Cardinality(Up(c)) <= Cardinality(Upstream3(Relationships, target[c]))
    BY <1>6, Count
  <1>8. /\ Cardinality(Down(c)) \in Nat /\ Cardinality(Downstream3(Relationships, target[c])) \in Nat
        /\ Cardinality(Down(c)) <= Cardinality(Downstream3(Relationships, target[c]))
    BY <1>6, Count
  <1>9. blast[c] \in Nat /\ Met(c) \in Nat
    BY <1>7, <1>8 DEF Met, QueryTypeOK
  <1>10. ASSUME links' = links, target' = target
         PROVE  Cardinality(Up(c))' = Cardinality(Up(c)) /\ Met(c)' = Met(c)
    BY <1>10 DEF Up, Down, Met
  <1>11. ASSUME links' = links, target' = target
         PROVE  RiskScore(Met(c), 0, 0)' = RiskScore(Met(c), 0, 0)
    BY <1>10, <1>11 DEF RiskScore
  <1>12. ASSUME TraceUpstream(c) PROVE TraceInv'
    <2>1. PICK R \in Rows(Upstream2(Relationships, target[c])) :
                 impacted' = [impacted EXCEPT ![c] = impacted[c] \cup R]
      BY <1>12 DEF TraceUpstream
    <2>2. Answered(c, "up", Upstream2(Relationships, target[c])) /\ blast' = blast /\ score' = score
      BY <1>12 DEF TraceUpstream
    <2>3. /\ impacted'[c] = impacted[c] \cup R
          /\ \A d \in Calls \ {c} : impacted'[d] = impacted[d]
      BY <2>1 DEF QueryTypeOK
    <2>4. /\ left'[c] = left[c] \ {"up"} /\ links' = links /\ tool' = tool /\ target' = target
          /\ ~answer'[c].cut => ~answer[c].cut /\ ~Cut(Upstream2(Relationships, target[c]))
      BY <1>3, <2>2
    <2>5. ~answer'[c].cut => Upstream2(links[c], target[c]) \subseteq R
      BY <1>5, <2>4, RowsOf
    <2>6. ~answer'[c].cut => ImpactFound(c)'
      BY <1>4, <2>3, <2>4, <2>5 DEF ImpactFound, Named
    <2>7. InTurn(c)'
      BY <1>4, <2>4 DEF InTurn
    <2>8. ~answer'[c].cut => RiskCounted(c)'
      BY <1>4, <1>10, <1>11, <2>2, <2>4 DEF RiskCounted
    <2> QED
      BY <1>2, <2>2, <2>3, <2>6, <2>7, <2>8 DEF Traces
  <1>13. ASSUME TraceDownstream(c) PROVE TraceInv'
    <2>1. PICK R \in Rows(Downstream2(Relationships, target[c])) :
                 impacted' = [impacted EXCEPT ![c] = impacted[c] \cup R]
      BY <1>13 DEF TraceDownstream
    <2>2. Answered(c, "down", Downstream2(Relationships, target[c])) /\ blast' = blast /\ score' = score
      BY <1>13 DEF TraceDownstream
    <2>3. /\ impacted'[c] = impacted[c] \cup R
          /\ \A d \in Calls \ {c} : impacted'[d] = impacted[d]
      BY <2>1 DEF QueryTypeOK
    <2>4. /\ left'[c] = left[c] \ {"down"} /\ links' = links /\ tool' = tool /\ target' = target
          /\ ~answer'[c].cut => ~answer[c].cut /\ ~Cut(Downstream2(Relationships, target[c]))
      BY <1>3, <2>2
    <2>5. ~answer'[c].cut => Downstream2(links[c], target[c]) \subseteq R
      BY <1>5, <2>4, RowsOf
    <2>6. ~answer'[c].cut => ImpactFound(c)'
      BY <1>4, <2>3, <2>4, <2>5 DEF ImpactFound, Named
    <2>7. InTurn(c)'
      BY <1>4, <2>4 DEF InTurn
    <2>8. ~answer'[c].cut => RiskCounted(c)'
      BY <1>4, <1>10, <1>11, <2>2, <2>4 DEF RiskCounted
    <2> QED
      BY <1>2, <2>2, <2>3, <2>6, <2>7, <2>8 DEF Traces
  <1>14. ASSUME RiskUpstream(c) PROVE TraceInv'
    <2>1. PICK R \in Rows(Upstream3(Relationships, target[c])) :
                 blast' = [blast EXCEPT ![c] = Cardinality(R)]
      BY <1>14 DEF RiskUpstream
    <2>2. /\ Answered(c, "riskUp", Upstream3(Relationships, target[c]))
          /\ impacted' = impacted /\ score' = score
      BY <1>14 DEF RiskUpstream
    <2>3. /\ blast'[c] = Cardinality(R)
          /\ \A d \in Calls \ {c} : blast'[d] = blast[d]
      BY <2>1 DEF QueryTypeOK
    <2>4. /\ "riskUp" \in left[c] /\ left'[c] = left[c] \ {"riskUp"}
          /\ links' = links /\ tool' = tool /\ target' = target
          /\ ~answer'[c].cut => ~answer[c].cut /\ ~Cut(Upstream3(Relationships, target[c]))
      BY <1>3, <2>2
    <2>5. ~answer'[c].cut => Cardinality(Up(c)) <= blast'[c]
      BY <1>7, <2>3, <2>4, RowsOf
    <2>6. ~answer'[c].cut => ImpactFound(c)'
      BY <1>4, <2>2, <2>4 DEF ImpactFound, Named
    <2>7. InTurn(c)'
      BY <1>4, <2>4 DEF InTurn
    <2>8. ~answer'[c].cut => RiskCounted(c)'
      BY <1>4, <1>10, <2>4, <2>5 DEF RiskCounted, InTurn
    <2> QED
      BY <1>2, <2>2, <2>3, <2>6, <2>7, <2>8 DEF Traces
  <1>15. ASSUME RiskDownstream(c) PROVE TraceInv'
    <2>1. PICK R \in Rows(Downstream3(Relationships, target[c])) :
                 blast' = [blast EXCEPT ![c] = blast[c] + Cardinality(R)]
      BY <1>15 DEF RiskDownstream
    <2>2. /\ Answered(c, "riskDown", Downstream3(Relationships, target[c])) /\ "riskUp" \notin left[c]
          /\ impacted' = impacted /\ score' = score
      BY <1>15 DEF RiskDownstream
    <2>3. /\ blast'[c] = blast[c] + Cardinality(R)
          /\ \A d \in Calls \ {c} : blast'[d] = blast[d]
      BY <2>1 DEF QueryTypeOK
    <2>4. /\ "riskDown" \in left[c] /\ left'[c] = left[c] \ {"riskDown"}
          /\ links' = links /\ tool' = tool /\ target' = target
          /\ ~answer'[c].cut => ~answer[c].cut /\ ~Cut(Downstream3(Relationships, target[c]))
      BY <1>3, <2>2
    <2>5. ASSUME tool[c] \in {"risk", "plan"}, ~answer'[c].cut PROVE Met(c) <= blast'[c]
      <3>1. R = Downstream3(Relationships, target[c])
        BY <2>4, <2>5, RowsOf
      <3>2. Cardinality(Up(c)) <= blast[c]
        BY <1>4, <2>2, <2>4, <2>5 DEF RiskCounted
      <3> QED
        BY <1>7, <1>8, <1>9, <2>3, <3>1, <3>2 DEF Met
    <2>6. ~answer'[c].cut => ImpactFound(c)'
      BY <1>4, <2>2, <2>4 DEF ImpactFound, Named
    <2>7. InTurn(c)'
      BY <1>4, <2>2, <2>4 DEF InTurn
    <2>8. ~answer'[c].cut => RiskCounted(c)'
      BY <1>4, <1>10, <2>4, <2>5 DEF RiskCounted, InTurn
    <2> QED
      BY <1>2, <2>2, <2>3, <2>6, <2>7, <2>8 DEF Traces
  <1>16. ASSUME NEW x \in Percents, NEW h \in Percents, RuntimeSnapshot(c, x, h)
         PROVE  TraceInv'
    <2>1. /\ Answered(c, "runtime", {}) /\ {"riskUp", "riskDown"} \cap left[c] = {}
          /\ impacted' = impacted
          /\ score' = [score EXCEPT ![c] = RiskScore(blast[c], x, h)]
          /\ blast' = [blast EXCEPT ![c] = 0]
      BY <1>16 DEF RuntimeSnapshot
    <2>2. /\ score'[c] = RiskScore(blast[c], x, h)
          /\ \A d \in Calls \ {c} : score'[d] = score[d] /\ blast'[d] = blast[d]
      BY <2>1 DEF QueryTypeOK
    <2>3. /\ "runtime" \in left[c] /\ left'[c] = left[c] \ {"runtime"}
          /\ links' = links /\ tool' = tool /\ target' = target
          /\ ~answer'[c].cut => ~answer[c].cut
      BY <1>3, <2>1
    <2>4. ASSUME tool[c] \in {"risk", "plan"}, ~answer'[c].cut
          PROVE  RiskScore(Met(c), 0, 0) <= score'[c]
      <3>1. Met(c) <= blast[c]
        BY <1>4, <2>1, <2>3, <2>4 DEF RiskCounted
      <3>2. x \in Nat /\ h \in Nat /\ x <= 100 /\ h <= 100
        BY QueryAssumption
      <3> QED
        BY <1>9, <2>2, <3>1, <3>2, ScoreGrows
    <2>5. ~answer'[c].cut => ImpactFound(c)'
      BY <1>4, <2>1, <2>3 DEF ImpactFound, Named
    <2>6. InTurn(c)'
      BY <1>4, <2>1, <2>3 DEF InTurn
    <2>7. ~answer'[c].cut => RiskCounted(c)'
      BY <1>4, <1>10, <1>11, <2>1, <2>3, <2>4 DEF RiskCounted
    <2> QED
      BY <1>2, <2>1, <2>2, <2>5, <2>6, <2>7 DEF Traces
  <1> QED
    BY <1>12, <1>13, <1>14, <1>15, <1>16

LEMMA StepKeepsTraces == QueryTypeOK /\ TraceInv /\ [QueryNext]_queryVars => TraceInv'
  <1> SUFFICES ASSUME QueryTypeOK, TraceInv, [QueryNext]_queryVars
               PROVE  TraceInv'
    OBVIOUS
  <1>1. CASE Write \/ Clear
    BY <1>1, WritersKeepTraces
  <1>2. CASE /\ UNCHANGED <<graph, at, tool, target, left, impacted, blast, score, links>>
             /\ UNCHANGED answer
    BY <1>2 DEF graph, Relationships, TraceInv, ImpactFound, Named, RiskCounted, InTurn, Up, Down, Met,
                RiskScore
  <1>3. ASSUME NEW n \in Names, Expire(n)
        PROVE  TraceInv'
    BY <1>2, <1>3 DEF Expire, callVars, asked, looking, tracing, history
  <1>4. ASSUME NEW c \in Calls, Asks(c) \/ Fails(c)
        PROVE  TraceInv'
    BY <1>4, BeginTraces
  <1>5. ASSUME NEW c \in Calls, Reads(c)
        PROVE  TraceInv'
    <2>1. CASE \/ FindFile(c) \/ FunctionNames(c)
               \/ \E n \in Names : MemoHit(c, n) \/ SendLookup(c, n)
               \/ ReadTargets(c) \/ ReadDirect(c) \/ ReadChain(c) \/ ReadAlias(c) \/ Answer(c)
               \/ ReadModule(c) \/ ReadCycles(c) \/ ReadOrphans(c) \/ ReadHotspots(c)
               \/ ReadCoupling(c)
      BY <2>1, LookupsKeepTraces
    <2>2. CASE \/ TraceUpstream(c) \/ TraceDownstream(c) \/ RiskUpstream(c) \/ RiskDownstream(c)
               \/ \E x, h \in Percents : RuntimeSnapshot(c, x, h)
      BY <2>2, StatementsFind
    <2> QED
      BY <1>5, <2>1, <2>2 DEF Reads
  <1>6. CASE UNCHANGED queryVars
    BY <1>2, <1>6 DEF queryVars, callVars, asked, looking, tracing, history
  <1> QED
    BY <1>1, <1>3, <1>4, <1>5, <1>6 DEF QueryNext

LEMMA NothingLeft ==
  ASSUME QueryTypeOK, NEW c \in Calls, at[c] = "answered"
  PROVE  left[c] = {}
  BY DEF QueryTypeOK

\* However the graph is re-indexed or cleared between the statements, the
\* impact has what was connected to the target all the while.
THEOREM ImpactIsFound == QuerySpec => []SteadyImpactFound
  <1>1. QueryTypeOK /\ TraceInv => SteadyImpactFound
    BY NothingLeft DEF TraceInv, ImpactFound, SteadyImpactFound
  <1> QED
    BY <1>1, TraceInit, StepKeepsTraces, QueryTyping, PTL DEF QuerySpec

\* And the risk is at least what that amounts to.
THEOREM RiskIsCounted == QuerySpec => []RiskNotUnderstated
  <1>1. ASSUME QueryTypeOK, TraceInv, NEW c \in Calls, at[c] = "answered",
               tool[c] \in {"risk", "plan"}, ~answer[c].cut
        PROVE  RiskScore(Met(c), 0, 0) <= score[c]
    BY <1>1, NothingLeft DEF TraceInv, RiskCounted
  <1>2. ASSUME QueryTypeOK, NEW c \in Calls
        PROVE  RiskScore(Met(c), 0, 0) \in Nat /\ score[c] \in Nat
    <2>1. {} \in SUBSET links[c]
      OBVIOUS
    <2>2. Met(c) \in Nat
      BY <1>2, <2>1, BlastRange
    <2>3. RiskScore(Met(c), 0, 0) \in 0 .. 90
      <3>1. 0 \in Nat /\ 0 <= 100
        OBVIOUS
      <3> QED
        BY <2>2, <3>1, ScoreRange
    <2>4. score[c] \in 0 .. 90
      BY <1>2 DEF QueryTypeOK
    <2> QED
      BY <2>3, <2>4
  <1>3. QueryTypeOK /\ TraceInv => RiskNotUnderstated
    <2> SUFFICES ASSUME QueryTypeOK, TraceInv, NEW c \in Calls, at[c] = "answered",
                        tool[c] \in {"risk", "plan"}, ~answer[c].cut
                 PROVE  score[c] >= RiskScore(Met(c), 0, 0)
      BY DEF RiskNotUnderstated, Met, Up, Down
    <2> QED
      BY <1>1, <1>2
  <1> QED
    BY <1>3, TraceInit, StepKeepsTraces, QueryTyping, PTL DEF QuerySpec

-----------------------------------------------------------------------------
(* The boundary of a module: what was read is no more than the degrees of  *)
(* the module, which never go down unless the graph is cleared.            *)

Stages == {"module", "cycles", "orphans", "hotspots", "coupling"}

\* What an answer b says fits a module of o dependencies and i dependents.
Fits(b, o, i, stage) ==
    /\ b.dependencies <= o
    /\ b.dependents <= i
    /\ b.hotspot <= i + o
    /\ b.cyclic => 1 <= o /\ 1 <= i
    /\ b.orphan => b.dependencies + b.dependents = 0 /\ ~b.cyclic
    /\ b.orphan => stage \notin {"module", "cycles", "orphans"}
    /\ stage = "answered" => /\ b.dependencies + b.dependents <= b.coupling
                             /\ b.hotspot <= b.coupling
                             /\ b.cyclic => 2 <= b.coupling

BoundInv ==
    \A c \in Calls :
        /\ at[c] \in Stages => tool[c] = "boundary"
        /\ tool[c] = "boundary" => at[c] \in Stages \cup {"answered", "notFound"}
        /\ tool[c] = "boundary" /\ ~cleared[c] =>
               Fits(boundary[c], OutDegree(target[c]), InDegree(target[c]), at[c])

LEMMA FitsMore ==
  ASSUME NEW b \in Boundaries, NEW o \in Nat, NEW i \in Nat, NEW p \in Nat, NEW j \in Nat,
         o <= p, i <= j, NEW stage, Fits(b, o, i, stage)
  PROVE  Fits(b, p, j, stage)
  <1>1. b.dependencies \in Nat /\ b.dependents \in Nat /\ b.hotspot \in Nat /\ b.coupling \in Nat
    BY DEF Boundaries
  <1>2. b.dependencies <= p /\ b.dependents <= j /\ b.hotspot <= j + p
    BY <1>1 DEF Fits
  <1>3. b.cyclic => 1 <= p /\ 1 <= j
    BY DEF Fits
  <1> QED
    BY <1>2, <1>3 DEF Fits

LEMMA DegreesGrow ==
  ASSUME GraphTypeOK, GraphTypeOK', dependsOn \subseteq dependsOn', NEW m
  PROVE  /\ OutDegree(m) \in Nat /\ OutDegree(m)' \in Nat /\ OutDegree(m) <= OutDegree(m)'
         /\ InDegree(m) \in Nat /\ InDegree(m)' \in Nat /\ InDegree(m) <= InDegree(m)'
  <1>1. /\ OutOf(dependsOn, {m}) \subseteq OutOf(dependsOn', {m})
        /\ Into(dependsOn, {m}) \subseteq Into(dependsOn', {m})
    BY MoreNeighbours
  <1>2. OutOf(dependsOn', {m}) \subseteq Nodes /\ Into(dependsOn', {m}) \subseteq Nodes
    BY Neighbours DEF GraphTypeOK, Joins
  <1> QED
    BY <1>1, <1>2, Count DEF OutDegree, InDegree

\* A module on a cycle has a dependency and a dependent.
LEMMA CycleTouches ==
  ASSUME GraphTypeOK, NEW m,
         m \in Ahead(Ahead(Ahead(Ahead(Ahead(OutOf(dependsOn, {m}))))))
  PROVE  1 <= OutDegree(m) /\ 1 <= InDegree(m)
  <1>1. Ahead({}) = {}
    BY DEF Ahead, OutOf
  <1>2. OutOf(dependsOn, {m}) # {}
    BY <1>1
  <1> DEFINE ends == {e[2] : e \in dependsOn}
  <1>3. \A S : OutOf(dependsOn, S) \subseteq ends
    BY DEF OutOf
  <1>4. \A S \in SUBSET ends : Ahead(S) \in SUBSET ends
    BY <1>3 DEF Ahead
  <1>5. OutOf(dependsOn, {m}) \in SUBSET ends
    BY <1>3
  <1> HIDE DEF ends
  <1>6. m \in ends
    BY <1>4, <1>5
  <1>7. Into(dependsOn, {m}) # {}
    BY <1>6 DEF ends, Into
  <1>8. ASSUME NEW S \in SUBSET Nodes, S # {} PROVE 1 <= Cardinality(S)
    <2>1. IsFiniteSet(S)
      BY FiniteNodes, FS_Subset
    <2>2. Cardinality(S) # 0 /\ Cardinality(S) \in Nat
      BY <1>8, <2>1, FS_EmptySet, FS_CardinalityType
    <2> QED
      BY <2>2
  <1>9. OutOf(dependsOn, {m}) \subseteq Nodes /\ Into(dependsOn, {m}) \subseteq Nodes
    BY Neighbours DEF GraphTypeOK, Joins
  <1> QED
    BY <1>2, <1>7, <1>8, <1>9 DEF OutDegree, InDegree

LEMMA BoundInit == QueryInit => BoundInv
  BY QueryAssumption DEF QueryInit, BoundInv, Stages, Served

\* A step of call c that reads the graph at most, and whose answer still fits.
LEMMA CallKeepsBounds ==
  ASSUME QueryTypeOK, BoundInv, NEW c \in Calls, UNCHANGED graph,
         \A d \in Calls \ {c} : /\ at'[d] = at[d] /\ tool'[d] = tool[d] /\ target'[d] = target[d]
                                /\ boundary'[d] = boundary[d] /\ cleared'[d] = cleared[d],
         at'[c] \in Stages => tool'[c] = "boundary",
         tool'[c] = "boundary" => at'[c] \in Stages \cup {"answered", "notFound"},
         tool'[c] = "boundary" /\ ~cleared'[c] =>
             Fits(boundary'[c], OutDegree(target'[c]), InDegree(target'[c]), at'[c])
  PROVE  BoundInv'
  <1>1. ASSUME NEW m PROVE OutDegree(m)' = OutDegree(m) /\ InDegree(m)' = InDegree(m)
    BY DEF OutDegree, InDegree, graph
  <1>2. ASSUME NEW d \in Calls
        PROVE  /\ OutDegree(target[d])' = OutDegree(target'[d])
               /\ InDegree(target[d])' = InDegree(target'[d])
    BY DEF OutDegree, InDegree, graph
  <1>3. ASSUME NEW d \in Calls
        PROVE  /\ at'[d] \in Stages => tool'[d] = "boundary"
               /\ tool'[d] = "boundary" => at'[d] \in Stages \cup {"answered", "notFound"}
               /\ tool'[d] = "boundary" /\ ~cleared'[d] =>
                      Fits(boundary'[d], OutDegree(target'[d]), InDegree(target'[d]), at'[d])
    <2>1. CASE d = c
      BY <2>1
    <2>2. CASE d # c
      BY <2>2 DEF BoundInv
    <2> QED
      BY <2>1, <2>2
  <1> QED
    BY <1>2, <1>3 DEF BoundInv

LEMMA BoundaryKeepsBounds ==
  ASSUME QueryTypeOK, BoundInv, NEW c \in Calls,
         ReadModule(c) \/ ReadCycles(c) \/ ReadOrphans(c) \/ ReadHotspots(c) \/ ReadCoupling(c)
  PROVE  BoundInv'
  <1> DEFINE o == OutDegree(target[c])
             i == InDegree(target[c])
  <1>1. o \in Nat /\ i \in Nat
    BY Degrees DEF QueryTypeOK
  <1>2. /\ boundary[c] \in Boundaries
        /\ at[c] \in Stages /\ tool[c] = "boundary" /\ ~cleared[c] => Fits(boundary[c], o, i, at[c])
    BY DEF BoundInv, QueryTypeOK
  <1>3. ASSUME NEW from, NEW to, NEW b, ReadBoundary(c, from, to, b), from \in Stages,
               to \in Stages \cup {"answered", "notFound"},
               at[c] = from /\ tool[c] = "boundary" /\ ~cleared[c] => Fits(b, o, i, to)
        PROVE  BoundInv'
    <2>1. /\ at[c] = from /\ at'[c] = to /\ boundary'[c] = b
          /\ \A d \in Calls \ {c} : at'[d] = at[d] /\ boundary'[d] = boundary[d]
      BY <1>3 DEF ReadBoundary, Await, QueryTypeOK
    <2>2. UNCHANGED <<graph, tool, target, cleared>>
      BY <1>3 DEF ReadBoundary, asked, history
    <2>3. tool[c] = "boundary"
      BY <1>3, <2>1 DEF BoundInv
    <2> HIDE DEF Stages
    <2> QED
      BY <1>3, <2>1, <2>2, <2>3, CallKeepsBounds
  <1> HIDE DEF o, i
  <1>4. CASE ReadModule(c)
    <2>1. CASE target[c] \in modules
      <3> DEFINE x == Shown(o)
                 y == Shown(i)
                 b == [boundary[c] EXCEPT !.dependencies = x, !.dependents = y]
      <3>1. ReadBoundary(c, "module", "cycles", b)
        BY <1>4, <2>1 DEF ReadModule, o, i
      <3>2. x \in Nat /\ y \in Nat /\ x <= o /\ y <= i
        BY <1>1, QueryAssumption DEF Shown
      <3> HIDE DEF x, y
      <3>3. Fits(boundary[c], o, i, "module") => Fits(b, o, i, "cycles")
        BY <1>1, <1>2, <3>2 DEF Fits, Boundaries
      <3> QED
        BY <1>2, <1>3, <3>1, <3>3 DEF Stages
    <2>2. CASE target[c] \notin modules
      <3>1. ReadBoundary(c, "module", "notFound", boundary[c])
        BY <1>4, <2>2 DEF ReadModule
      <3>2. Fits(boundary[c], o, i, "module") => Fits(boundary[c], o, i, "notFound")
        BY DEF Fits
      <3> QED
        BY <1>2, <1>3, <3>1, <3>2 DEF Stages
    <2> QED
      BY <2>1, <2>2
  <1>5. CASE ReadCycles(c)
    <2> DEFINE x == target[c] \in Ahead(Ahead(Ahead(Ahead(Ahead(OutOf(dependsOn, {target[c]}))))))
               b == [boundary[c] EXCEPT !.cyclic = x]
    <2>1. ReadBoundary(c, "cycles", "orphans", b)
      BY <1>5 DEF ReadCycles
    <2>2. x \in BOOLEAN /\ (x => 1 <= o /\ 1 <= i)
      BY CycleTouches DEF o, i, QueryTypeOK
    <2> HIDE DEF x
    <2>3. Fits(boundary[c], o, i, "cycles") => Fits(b, o, i, "orphans")
      <3>1. /\ b.dependencies = boundary[c].dependencies /\ b.dependents = boundary[c].dependents
            /\ b.hotspot = boundary[c].hotspot /\ b.orphan = boundary[c].orphan
            /\ b.cyclic = x
        BY <1>2 DEF Boundaries
      <3> HIDE DEF b
      <3> QED
        BY <2>2, <3>1 DEF Fits
    <2> QED
      BY <1>2, <1>3, <2>1, <2>3 DEF Stages
  <1>6. CASE ReadOrphans(c)
    <2>1. PICK R \in Rows(Orphans) : ReadBoundary(c, "orphans", "hotspots",
                 [boundary[c] EXCEPT !.orphan = target[c] \in R])
      BY <1>6 DEF ReadOrphans
    <2> DEFINE x == target[c] \in R
               b == [boundary[c] EXCEPT !.orphan = x]
    <2>2. x => o + i = 0
      BY <2>1, RowsOf DEF Orphans, o, i
    <2>3. x => o = 0 /\ i = 0
      BY <1>1, <2>2
    <2>4. ReadBoundary(c, "orphans", "hotspots", b) /\ x \in BOOLEAN
      BY <2>1
    <2> HIDE DEF x
    <2>5. Fits(boundary[c], o, i, "orphans") => Fits(b, o, i, "hotspots")
      <3>1. /\ b.dependencies = boundary[c].dependencies /\ b.dependents = boundary[c].dependents
            /\ b.hotspot = boundary[c].hotspot /\ b.cyclic = boundary[c].cyclic
            /\ b.orphan = x
        BY <1>2 DEF Boundaries
      <3>2. b.dependencies \in Nat /\ b.dependents \in Nat
        BY <1>2, <3>1 DEF Boundaries
      <3> HIDE DEF b
      <3>3. Fits(boundary[c], o, i, "orphans") /\ x => b.dependencies + b.dependents = 0 /\ ~b.cyclic
        <4>1. ASSUME x, b.dependencies <= o, b.dependents <= i
              PROVE  b.dependencies + b.dependents = 0
          BY <2>3, <3>2, <4>1
        <4>2. ~(1 <= 0)
          OBVIOUS
        <4> QED
          BY <2>3, <3>1, <4>1, <4>2 DEF Fits
      <3> QED
        BY <2>4, <3>1, <3>3 DEF Fits
    <2> QED
      BY <1>2, <1>3, <2>4, <2>5 DEF Stages
  <1>7. CASE ReadHotspots(c)
    <2>1. PICK R \in Rows(modules) : ReadBoundary(c, "hotspots", "coupling",
                 [boundary[c] EXCEPT !.hotspot = IF target[c] \in R THEN i + o ELSE 0])
      BY <1>7 DEF ReadHotspots, o, i
    <2> DEFINE x == IF target[c] \in R THEN i + o ELSE 0
               b == [boundary[c] EXCEPT !.hotspot = x]
    <2>2. x \in Nat /\ x <= i + o
      BY <1>1
    <2>3. ReadBoundary(c, "hotspots", "coupling", b)
      BY <2>1
    <2> HIDE DEF x
    <2>4. Fits(boundary[c], o, i, "hotspots") => Fits(b, o, i, "coupling")
      BY <1>2, <2>2 DEF Fits, Boundaries
    <2> QED
      BY <1>2, <1>3, <2>3, <2>4 DEF Stages
  <1>8. CASE ReadCoupling(c)
    <2> DEFINE b == [boundary[c] EXCEPT !.coupling = i + o]
    <2>1. ReadBoundary(c, "coupling", "answered", b)
      BY <1>8 DEF ReadCoupling, o, i
    <2>2. Fits(boundary[c], o, i, "coupling") => Fits(b, o, i, "answered")
      <3>1. /\ b.dependencies = boundary[c].dependencies /\ b.dependents = boundary[c].dependents
            /\ b.hotspot = boundary[c].hotspot /\ b.cyclic = boundary[c].cyclic
            /\ b.orphan = boundary[c].orphan /\ b.coupling = i + o
        BY <1>2 DEF Boundaries
      <3>2. b.dependencies \in Nat /\ b.dependents \in Nat
        BY <1>2, <3>1 DEF Boundaries
      <3> HIDE DEF b
      <3>3. /\ b.dependencies <= o /\ b.dependents <= i => b.dependencies + b.dependents <= i + o
            /\ 1 <= o /\ 1 <= i => 2 <= i + o
        BY <1>1, <3>2
      <3> QED
        BY <3>1, <3>3 DEF Fits
    <2> QED
      BY <1>2, <1>3, <2>1, <2>2 DEF Stages
  <1> QED
    BY <1>4, <1>5, <1>6, <1>7, <1>8

LEMMA BeginBounds ==
  ASSUME QueryTypeOK, BoundInv, NEW c \in Calls, Asks(c) \/ Fails(c)
  PROVE  BoundInv'
  <1>1. ASSUME NEW first, NEW tl, NEW node, NEW names, Forget(c, first, tl, node, names),
               UNCHANGED graph,
               first \in Stages => first = "module" /\ tl = "boundary",
               tl = "boundary" => first = "module"
        PROVE  BoundInv'
    <2>1. /\ at'[c] = first /\ tool'[c] = tl /\ target'[c] = node /\ boundary'[c] = NoBoundary
          /\ \A d \in Calls \ {c} : /\ at'[d] = at[d] /\ tool'[d] = tool[d]
                                    /\ target'[d] = target[d] /\ boundary'[d] = boundary[d]
                                    /\ cleared'[d] = cleared[d]
      BY <1>1 DEF Forget, QueryTypeOK
    <2>2. OutDegree(node) \in Nat /\ InDegree(node) \in Nat
      BY Degrees DEF QueryTypeOK
    <2>3. Fits(NoBoundary, OutDegree(node), InDegree(node), "module")
      BY <2>2 DEF Fits, NoBoundary
    <2> QED
      BY <1>1, <2>1, <2>3, CallKeepsBounds DEF Stages
  <1>2. CASE Fails(c)
    <2>1. None # "boundary" /\ "idle" \notin Stages
      BY QueryAssumption DEF Served, Stages
    <2>2. Forget(c, "idle", None, None, {}) /\ UNCHANGED graph
      BY <1>2 DEF Fails
    <2> QED
      BY <1>1, <2>1, <2>2
  <1>3. ASSUME NEW first, NEW tl, NEW node, NEW names, Enter(c, tl, first, node, names),
               first \in Stages => first = "module" /\ tl = "boundary",
               tl = "boundary" => first = "module"
        PROVE  BoundInv'
    BY <1>1, <1>3 DEF Enter
  <1>4. CASE Asks(c)
    <2>1. ASSUME NEW n \in Names, TestsForFunction(c, n) PROVE BoundInv'
      BY <1>3, <2>1 DEF TestsForFunction, Stages
    <2>2. ASSUME NEW f \in Files, TestsByPath(c, f) PROVE BoundInv'
      BY <1>3, <2>2 DEF TestsByPath, Stages
    <2>3. ASSUME NEW tl, NEW node, TraceImpact(c, tl, node) PROVE BoundInv'
      <3>1. tl # "boundary" /\ "traces" \notin Stages
        BY <2>3 DEF TraceImpact, Stages
      <3> QED
        BY <1>3, <2>3, <3>1 DEF TraceImpact
    <2>4. ASSUME NEW node, AssessChangeRisk(c, node) \/ RefactorPlan(c, node) PROVE BoundInv'
      BY <1>3, <2>4 DEF AssessChangeRisk, RefactorPlan, Stages
    <2>5. ASSUME NEW m \in Modules, ModuleBoundary(c, m) PROVE BoundInv'
      BY <1>3, <2>5 DEF ModuleBoundary
    <2> QED
      BY <1>4, <2>1, <2>2, <2>3, <2>4, <2>5 DEF Asks
  <1> QED
    BY <1>2, <1>4

\* A call of another tool.
LEMMA OthersKeepBounds ==
  ASSUME QueryTypeOK, BoundInv, NEW c \in Calls,
         \/ FindFile(c) \/ FunctionNames(c)
         \/ \E n \in Names : MemoHit(c, n) \/ SendLookup(c, n)
         \/ ReadTargets(c) \/ ReadDirect(c) \/ ReadChain(c) \/ ReadAlias(c) \/ Answer(c)
         \/ TraceUpstream(c) \/ TraceDownstream(c) \/ RiskUpstream(c) \/ RiskDownstream(c)
         \/ \E x, h \in Percents : RuntimeSnapshot(c, x, h)
  PROVE  BoundInv'
  <1> USE DEF Await, asked, looking, tracing, callVars, history
  <1>1. ASSUME at[c] \notin Stages \cup {"answered", "notFound"}, at'[c] \notin Stages,
               \A d \in Calls \ {c} : at'[d] = at[d] /\ target'[d] = target[d],
               UNCHANGED <<graph, tool, boundary, cleared>>
        PROVE  BoundInv'
    <2>1. tool'[c] # "boundary"
      BY <1>1 DEF BoundInv
    <2> HIDE DEF Stages
    <2> QED
      BY <1>1, <2>1, CallKeepsBounds
  <1>2. CASE FindFile(c)
    BY <1>1, <1>2 DEF FindFile, QueryTypeOK, Stages
  <1>3. CASE FunctionNames(c)
    BY <1>1, <1>3 DEF FunctionNames, QueryTypeOK, Stages
  <1>4. ASSUME NEW n \in Names, MemoHit(c, n) PROVE BoundInv'
    BY <1>1, <1>4 DEF MemoHit, QueryTypeOK, Stages
  <1>5. ASSUME NEW n \in Names, SendLookup(c, n) PROVE BoundInv'
    BY <1>1, <1>5 DEF SendLookup, QueryTypeOK, Stages
  <1>6. CASE ReadTargets(c)
    BY <1>1, <1>6 DEF ReadTargets, QueryTypeOK, Stages
  <1>7. CASE ReadDirect(c)
    BY <1>1, <1>7 DEF ReadDirect, QueryTypeOK, Stages
  <1>8. CASE ReadChain(c)
    BY <1>1, <1>8 DEF ReadChain, QueryTypeOK, Stages
  <1>9. CASE ReadAlias(c)
    BY <1>1, <1>9 DEF ReadAlias, QueryTypeOK, Stages
  <1>10. CASE Answer(c)
    BY <1>1, <1>10 DEF Answer, QueryTypeOK, Stages
  <1>11. ASSUME NEW s, NEW S, Answered(c, s, S) PROVE BoundInv'
    BY <1>1, <1>11 DEF Answered, QueryTypeOK, Stages
  <1>12. CASE \/ TraceUpstream(c) \/ TraceDownstream(c) \/ RiskUpstream(c) \/ RiskDownstream(c)
              \/ \E x, h \in Percents : RuntimeSnapshot(c, x, h)
    BY <1>11, <1>12 DEF TraceUpstream, TraceDownstream, RiskUpstream, RiskDownstream,
                        RuntimeSnapshot
  <1> QED
    BY <1>2, <1>3, <1>4, <1>5, <1>6, <1>7, <1>8, <1>9, <1>10, <1>12

LEMMA WritersKeepBounds ==
  ASSUME QueryTypeOK, BoundInv, Write \/ Clear
  PROVE  BoundInv'
  <1> USE DEF asked, tracing
  <1>1. UNCHANGED <<at, tool, target, boundary>>
    BY DEF Write, Clear, Remember
  <1>2. CASE Clear
    BY <1>1, <1>2 DEF Clear, BoundInv
  <1>3. CASE Write
    <2>1. dependsOn \subseteq dependsOn' /\ cleared' = cleared
      BY <1>3 DEF Write, WriteCall, DeleteFileSubgraph, WriteFile, MergeModule, LinkTestCases, graph
    <2>2. GraphTypeOK /\ GraphTypeOK'
      BY <1>3, GraphTyping DEF QueryTypeOK
    <2>3. ASSUME NEW c \in Calls, tool[c] = "boundary", ~cleared[c]
          PROVE  Fits(boundary[c], OutDegree(target[c])', InDegree(target[c])', at[c])
      <3>1. /\ Fits(boundary[c], OutDegree(target[c]), InDegree(target[c]), at[c])
            /\ boundary[c] \in Boundaries /\ target'[c] = target[c]
        BY <1>1, <2>3 DEF BoundInv, QueryTypeOK
      <3> DEFINE t == target[c]
      <3>2. OutDegree(t)' = Cardinality(OutOf(dependsOn', {t}))
            /\ InDegree(t)' = Cardinality(Into(dependsOn', {t}))
        BY <3>1 DEF OutDegree, InDegree
      <3>3. /\ OutDegree(t) \in Nat /\ Cardinality(OutOf(dependsOn', {t})) \in Nat
            /\ OutDegree(t) <= Cardinality(OutOf(dependsOn', {t}))
            /\ InDegree(t) \in Nat /\ Cardinality(Into(dependsOn', {t})) \in Nat
            /\ InDegree(t) <= Cardinality(Into(dependsOn', {t}))
        BY <2>1, <2>2, DegreesGrow DEF OutDegree, InDegree
      <3> QED
        BY <3>1, <3>2, <3>3, FitsMore
    <2> QED
      BY <1>1, <2>1, <2>3 DEF BoundInv
  <1> QED
    BY <1>2, <1>3

LEMMA StepKeepsBounds == QueryTypeOK /\ BoundInv /\ [QueryNext]_queryVars => BoundInv'
  <1> SUFFICES ASSUME QueryTypeOK, BoundInv, [QueryNext]_queryVars
               PROVE  BoundInv'
    OBVIOUS
  <1>1. CASE Write \/ Clear
    BY <1>1, WritersKeepBounds
  <1>2. CASE UNCHANGED <<graph, at, tool, target, boundary, cleared>>
    BY <1>2 DEF graph, BoundInv, OutDegree, InDegree
  <1>3. ASSUME NEW n \in Names, Expire(n)
        PROVE  BoundInv'
    BY <1>2, <1>3 DEF Expire, callVars, asked, history
  <1>4. ASSUME NEW c \in Calls, Asks(c) \/ Fails(c)
        PROVE  BoundInv'
    BY <1>4, BeginBounds
  <1>5. ASSUME NEW c \in Calls, Reads(c)
        PROVE  BoundInv'
    BY <1>5, OthersKeepBounds, BoundaryKeepsBounds DEF Reads
  <1>6. CASE UNCHANGED queryVars
    BY <1>2, <1>6 DEF queryVars, callVars, asked, history
  <1> QED
    BY <1>1, <1>3, <1>4, <1>5, <1>6 DEF QueryNext

\* What the statements of getModuleBoundary say of a module fits together,
\* whatever is indexed between them, unless the graph is cleared.
THEOREM BoundariesAgree == QuerySpec => []BoundaryAgrees
  <1>1. ASSUME QueryTypeOK, BoundInv, NEW c \in Calls, at[c] = "answered", tool[c] = "boundary",
               ~cleared[c]
        PROVE  LET b == boundary[c] IN
               /\ b.orphan => b.dependencies + b.dependents = 0 /\ ~b.cyclic
               /\ b.coupling >= b.dependencies + b.dependents
               /\ b.coupling >= b.hotspot
               /\ b.cyclic => b.coupling >= 2
    <2>1. boundary[c] \in Boundaries
      BY <1>1 DEF QueryTypeOK
    <2>2. Fits(boundary[c], OutDegree(target[c]), InDegree(target[c]), "answered")
      BY <1>1 DEF BoundInv
    <2>3. /\ boundary[c].dependencies \in Nat /\ boundary[c].dependents \in Nat
          /\ boundary[c].hotspot \in Nat /\ boundary[c].coupling \in Nat
      BY <2>1 DEF Boundaries
    <2>4. /\ boundary[c].dependencies + boundary[c].dependents <= boundary[c].coupling
          /\ boundary[c].hotspot <= boundary[c].coupling
      BY <2>2 DEF Fits
    <2>5. /\ boundary[c].coupling >= boundary[c].dependencies + boundary[c].dependents
          /\ boundary[c].coupling >= boundary[c].hotspot
          /\ 2 <= boundary[c].coupling => boundary[c].coupling >= 2
      BY <2>3, <2>4
    <2> QED
      BY <2>2, <2>5 DEF Fits
  <1>2. QueryTypeOK /\ BoundInv => BoundaryAgrees
    BY <1>1 DEF BoundaryAgrees
  <1> QED
    BY <1>2, BoundInit, StepKeepsBounds, QueryTyping, PTL DEF QuerySpec
=============================================================================
