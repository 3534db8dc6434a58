--------------------------- MODULE ServingProofs ---------------------------
(***************************************************************************)
(* Proofs about Serving, for any repository, parser, number of runs, saves *)
(* and calls: what Watch and Queries promise each on its own holds of the  *)
(* two together, and saves reach the answers.                              *)
(***************************************************************************)
EXTENDS Serving, WatchProofs, QueriesProofs

-----------------------------------------------------------------------------
(* The two parts.                                                          *)

LEMMA ServingStepIsWatchStep == [ServingNext]_servingVars => [WatchNext]_watchVars
  BY DEF ServingNext, servingVars, Index, Serve, Proceed, Refuse, Age

\* Tool calls do not get in the way of the watcher and its runs.
THEOREM ServingIsWatching == ServingSpec => WatchSpec
  BY ServingStepIsWatchStep, PTL DEF ServingSpec, ServingInit, WatchSpec

LEMMA ServedGraph ==
  ServingSpec => [](WatchTypeOK /\ ResolvedFromText /\ SymbolsCoverSha /\ NothingWithoutFile
                        /\ RestedMirrors)
  BY ServingIsWatching, WatchTyping, WatchIsIndexing, Resolved, WatchedCoverage, Attached,
     SavesReachTheGraph, PTL

\* What watching and indexing do to the graph is what Queries lets a writer do.
LEMMA IndexIsQueryStep ==
  ASSUME TypeOK, ResolvedFromText, QueryTypeOK, Index
  PROVE  [QueryNext]_queryVars
  <1>1. CASE UNCHANGED graph
    BY <1>1 DEF Index, server, queryVars
  <1>2. CASE ~UNCHANGED graph
    <2>1. /\ Remember
          /\ cleared' = [c \in Calls |-> cleared[c] \/ \E r \in Runs : ClearNodes(r)]
      BY <1>2 DEF Index
    <2>2. [Next]_vars
      BY WatchStepIsIndexerStep DEF Index
    <2>3. CASE \E r \in Runs : ClearNodes(r)
      <3>1. ClearGraph
        BY <2>3 DEF ClearNodes
      <3>2. cleared' = [c \in Calls |-> TRUE]
        BY <2>1, <2>3
      <3> QED
        BY <2>1, <3>1, <3>2 DEF QueryNext, Clear
    <2>4. CASE ~\E r \in Runs : ClearNodes(r)
      <3>1. WriteCall
        BY <1>2, <2>2, <2>4, OneCallEach
      <3>2. \A c \in Calls : cleared'[c] = cleared[c]
        BY <2>1, <2>4 DEF QueryTypeOK
      <3>3. cleared' = cleared
        BY <2>1, <3>2 DEF QueryTypeOK
      <3> QED
        BY <2>1, <3>1, <3>3 DEF QueryNext, Write
    <2> QED
      BY <2>3, <2>4
  <1> QED
    BY <1>1, <1>2

LEMMA ServingStepIsQueryStep ==
  TypeOK /\ ResolvedFromText /\ QueryTypeOK /\ [ServingNext]_servingVars => [QueryNext]_queryVars
  <1> SUFFICES ASSUME TypeOK, ResolvedFromText, QueryTypeOK, [ServingNext]_servingVars
               PROVE  [QueryNext]_queryVars
    OBVIOUS
  <1>1. CASE Index
    BY <1>1, IndexIsQueryStep
  <1>2. ASSUME NEW n \in Names, Age(n)
        PROVE  QueryNext
    BY <1>2 DEF Age, QueryNext
  <1>3. ASSUME NEW c \in Calls, Serve(c) \/ Proceed(c) \/ Refuse(c)
        PROVE  QueryNext
    BY <1>3 DEF Serve, Proceed, Refuse, QueryNext
  <1>4. CASE UNCHANGED servingVars
    BY <1>4 DEF servingVars, watchVars, vars, server, queryVars
  <1> QED
    BY <1>1, <1>2, <1>3, <1>4 DEF ServingNext

LEMMA ServedCalls == ServingSpec => []QueryTypeOK
  <1>1. ServingInit => QueryTypeOK
    BY InitTyping DEF ServingInit
  <1>2. TypeOK /\ ResolvedFromText /\ QueryTypeOK /\ [ServingNext]_servingVars => QueryTypeOK'
    BY ServingStepIsQueryStep, StepTyping
  <1>3. WatchTypeOK => TypeOK
    BY DEF WatchTypeOK
  <1> QED
    BY <1>1, <1>2, <1>3, ServedGraph, PTL DEF ServingSpec

\* Runs of the indexer are such writers as Queries expects.
THEOREM ServingIsQuerying == ServingSpec => RunsWriteAsQueriesExpects
  <1>1. ServingInit => QueryInit
    BY DEF ServingInit
  <1>2. WatchTypeOK => TypeOK
    BY DEF WatchTypeOK
  <1> QED
    BY <1>1, <1>2, ServingStepIsQueryStep, ServedCalls, ServedGraph, PTL
    DEF ServingSpec, QuerySpec, RunsWriteAsQueriesExpects

\* What a call knows keeps its types over a graph that runs write.
THEOREM ServedTyping == ServingSpec => []ServingTypeOK
  <1>1. ServingInit /\ WatchTypeOK /\ QueryTypeOK => ServingTypeOK
    BY DEF ServingInit, ServingTypeOK
  <1>2. ServingTypeOK /\ WatchTypeOK' /\ QueryTypeOK' /\ [ServingNext]_servingVars => ServingTypeOK'
    <2> SUFFICES ASSUME ServingTypeOK, WatchTypeOK', QueryTypeOK', [ServingNext]_servingVars
                 PROVE  upToDate' \in [Calls -> SUBSET Names]
      BY DEF ServingTypeOK
    <2>1. ASSUME NEW c \in Calls, Proceed(c)
          PROVE  upToDate' \in [Calls -> SUBSET Names]
      <3>1. Sends(c) => name'[c] \in Names
        BY DEF Sends, QueryTypeOK
      <3> QED
        BY <2>1, <3>1 DEF Proceed, ServingTypeOK
    <2> QED
      BY <2>1 DEF ServingNext, servingVars, Index, Serve, Refuse, Age, ServingTypeOK
  <1> QED
    BY <1>1, <1>2, ServedCalls, ServedGraph, PTL DEF ServingSpec

\* Every promise about answers holds of a server next to a watcher.
THEOREM ServedTestsSuggested == ServingSpec => []SteadyTestsSuggested
  BY ServingIsQuerying, TestsSuggested, PTL DEF RunsWriteAsQueriesExpects

THEOREM ServedImpactFound == ServingSpec => []SteadyImpactFound
  BY ServingIsQuerying, ImpactIsFound, PTL DEF RunsWriteAsQueriesExpects

THEOREM ServedRiskCounted == ServingSpec => []RiskNotUnderstated
  BY ServingIsQuerying, RiskIsCounted, PTL DEF RunsWriteAsQueriesExpects

THEOREM ServedBoundariesAgree == ServingSpec => []BoundaryAgrees
  BY ServingIsQuerying, BoundariesAgree, PTL DEF RunsWriteAsQueriesExpects

-----------------------------------------------------------------------------
(* From a save to an answer.                                               *)

\* The entries of a call that the strengthening is about.
Same(c) ==
    /\ at'[c] = at[c] /\ tool'[c] = tool[c] /\ name'[c] = name[c] /\ todo'[c] = todo[c]
    /\ lookup'[c] = lookup[c] /\ answer'[c] = answer[c]

\* Steps of the editor, the watcher and the runs: those that change the graph
\* end or find ended what was sought before.
LEMMA ChangesAreUnrested ==
  ASSUME TypeOK, WatchNext, Alive = {}
  PROVE  UNCHANGED graph
  <1>1. ASSUME NEW r \in Runs, GoOn(r)
        PROVE  FALSE
    <2>1. pc[r] \in AtRest
      BY DEF Alive
    <2> QED
      BY <1>1, <2>1 DEF GoOn, RunStep, AtRest, GetFileSnapshot, ClearNodes, ClearMeta, HashFiles,
                        HashFails, DeleteGone, ParseFile, ParseFails, IsNext, DeleteOld, ApplyBatch,
                        UpsertModule, LinkTests, SetIndexedNow, Abort
  <1> QED
    BY <1>1 DEF WatchNext, Open, Trigger, Stop, Save, EditFile, Fire, ByHand, Begin, Start, Dies,
                Crash, Abort, vars

LEMMA IndexFollows ==
  ASSUME TypeOK, QueryTypeOK, AnswersFollow, Index
  PROVE  AnswersFollow'
  <1> SUFFICES ASSUME NEW c \in Calls
               PROVE  SoughtIsSteady(c)' /\ FoundIsThere(c)'
    BY DEF AnswersFollow
  <1>1. SoughtIsSteady(c) /\ FoundIsThere(c)
    BY DEF AnswersFollow
  <1>2. upToDate'[c] = (IF Rested' THEN upToDate[c] ELSE {})
    BY DEF Index
  <1>3. CASE UNCHANGED graph
    <2>1. Same(c) /\ called' = called /\ file' = file
      BY <1>3 DEF Index, server, callVars, asked, looking, graph, Same
    <2> QED
      BY <1>1, <1>2, <2>1 DEF Same, SoughtIsSteady, FoundIsThere
  <1>4. CASE ~UNCHANGED graph
    <2>1. upToDate'[c] = {}
      BY <1>1, <1>2, <1>4, ChangesAreUnrested DEF Index, SoughtIsSteady, Rested
    <2>2. /\ at' = at /\ tool' = tool /\ name' = name /\ todo' = todo
          /\ answer'[c].tests = answer[c].tests
      BY <1>4 DEF Index, Remember, asked, Lasting, QueryTypeOK, Lookups
    <2> QED
      BY <1>1, <2>1, <2>2 DEF SoughtIsSteady, FoundIsThere
  <1> QED
    BY <1>3, <1>4

\* The calls that a step of another one leaves alone.
LEMMA OneCall ==
  ASSUME AnswersFollow, UNCHANGED watchVars, NEW c \in Calls,
         \A d \in Calls \ {c} : Same(d) /\ upToDate'[d] = upToDate[d],
         SoughtIsSteady(c)', FoundIsThere(c)'
  PROVE  AnswersFollow'
  <1> SUFFICES ASSUME NEW d \in Calls \ {c}
               PROVE  SoughtIsSteady(d)' /\ FoundIsThere(d)'
    BY DEF AnswersFollow
  <1>1. SoughtIsSteady(d) /\ FoundIsThere(d) /\ Same(d) /\ upToDate'[d] = upToDate[d]
    BY DEF AnswersFollow
  <1>2. called' = called /\ file' = file /\ Rested' = Rested
    BY DEF watchVars, vars, graph, watch, locals, Rested, Alive
  <1> QED
    BY <1>1, <1>2 DEF Same, SoughtIsSteady, FoundIsThere

\* A call that begins or fails has looked up nothing.
LEMMA ForgetFollows ==
  ASSUME QueryTypeOK, AnswersFollow, UNCHANGED watchVars, NEW c \in Calls,
         upToDate \in [Calls -> SUBSET Names], upToDate' = [upToDate EXCEPT ![c] = {}],
         Asks(c) \/ Fails(c)
  PROVE  AnswersFollow'
  <1>1. ASSUME NEW first \in {"idle", "file", "next", "traces", "module"}, NEW tl, NEW node, NEW names,
               first = "file" => tl = "tests_by_path",
               tl = "tests_for_function" => \A m, n \in names : m = n,
               Forget(c, first, tl, node, names)
        PROVE  AnswersFollow'
    <2>1. /\ at'[c] = first /\ tool'[c] = tl /\ todo'[c] = names /\ answer'[c] = Nothing
          /\ upToDate'[c] = {}
          /\ \A d \in Calls \ {c} : Same(d) /\ upToDate'[d] = upToDate[d]
      BY <1>1 DEF Forget, QueryTypeOK, Same
    <2>2. SoughtIsSteady(c)' /\ FoundIsThere(c)'
      BY <1>1, <2>1 DEF SoughtIsSteady, FoundIsThere, LookingUp, Nothing
    <2> QED
      BY <2>1, <2>2, OneCall
  <1>2. None # "tests_for_function"
    BY QueryAssumption DEF Served
  <1> QED
    BY <1>1, <1>2 DEF Asks, Fails, Enter, TestsForFunction, TestsByPath, TraceImpact,
                      AssessChangeRisk, RefactorPlan, ModuleBoundary

\* A call reads for itself alone.
LEMMA OthersSame ==
  ASSUME QueryTypeOK, NEW c \in Calls, Reads(c), NEW d \in Calls \ {c}
  PROVE  Same(d)
  <1> USE DEF QueryTypeOK, Same, Await, asked, looking
  <1>1. CASE FindFile(c) \/ FunctionNames(c)
    BY <1>1 DEF FindFile, FunctionNames
  <1>2. ASSUME NEW n \in Names, MemoHit(c, n) \/ SendLookup(c, n)
        PROVE  Same(d)
    BY <1>2 DEF MemoHit, SendLookup
  <1>3. CASE ReadTargets(c) \/ ReadDirect(c) \/ ReadChain(c)
    BY <1>3 DEF ReadTargets, ReadDirect, ReadChain
  <1>4. CASE ReadAlias(c)
    BY <1>4 DEF ReadAlias
  <1>7. CASE Answer(c)
    <2>1. answer'[d] = answer[d]
      BY <1>7 DEF Answer, WriteThePlan
    <2> QED
      BY <1>7, <2>1 DEF Answer
  <1>5. ASSUME NEW s, NEW S, Answered(c, s, S)
        PROVE  Same(d)
    BY <1>5 DEF Answered
  <1>6. ASSUME NEW from, NEW to, NEW b, ReadBoundary(c, from, to, b)
        PROVE  Same(d)
    BY <1>6 DEF ReadBoundary
  <1> QED
    BY <1>1, <1>2, <1>3, <1>4, <1>5, <1>6, <1>7
    DEF Reads, TraceUpstream, TraceDownstream, RiskUpstream, RiskDownstream, RuntimeSnapshot,
        ReadModule, ReadCycles, ReadOrphans, ReadHotspots, ReadCoupling

\* What it looks up in a graph in which every save has arrived.
LEMMA SendFollows ==
  ASSUME QueryTypeOK, AnswersFollow, UNCHANGED watchVars, NEW c \in Calls,
         upToDate \in [Calls -> SUBSET Names], NEW n \in Names, SendLookup(c, n),
         upToDate'[c] = IF Rested THEN upToDate[c] \cup {n} ELSE upToDate[c]
  PROVE  SoughtIsSteady(c)' /\ FoundIsThere(c)'
  <1>1. SoughtIsSteady(c) /\ FoundIsThere(c)
    BY DEF AnswersFollow
  <1>2. called' = called /\ file' = file /\ Rested' = Rested
    BY DEF watchVars, vars, graph, watch, locals, Rested, Alive
  <1>3. /\ at[c] = "next" /\ at'[c] = "targets" /\ n \in todo[c] /\ name'[c] = n
        /\ lookup'[c].steady = {e \in LikelyTests \X {n} : Mentions(called[e[1]], n)}
        /\ lookup'[c].tests = [t \in LikelyTests |-> 0]
        /\ tool'[c] = tool[c] /\ todo'[c] = todo[c] /\ answer'[c] = answer[c]
    BY DEF SendLookup, QueryTypeOK, Await, asked, Nothing
  <1>4. SoughtIsSteady(c)'
    <2>1. upToDate'[c] # {} => Rested'
      BY <1>1, <1>2 DEF SoughtIsSteady
    <2>2. ASSUME NEW m \in upToDate'[c], NEW t \in LikelyTests, Mentions(called[t], m), m = n
          PROVE  <<t, m>> \in lookup'[c].steady
      BY <1>3, <2>2
    <2>3. ASSUME NEW m \in upToDate'[c], NEW t \in LikelyTests, Mentions(called[t], m), m # n
          PROVE  <<t, m>> \in answer'[c].steady
      <3>1. m \in upToDate[c] /\ at[c] \notin LookingUp
        BY <1>3, <2>3 DEF LookingUp
      <3> QED
        BY <1>1, <1>3, <2>3, <3>1 DEF SoughtIsSteady
    <2> QED
      BY <1>2, <1>3, <2>1, <2>2, <2>3 DEF SoughtIsSteady, LookingUp
  <1>5. FoundIsThere(c)'
    <2>1. tool[c] = "tests_for_function" =>
              \A t \in LikelyTests : answer'[c].tests[t] = 0 /\ lookup'[c].tests[t] = 0
      BY <1>1, <1>3 DEF FoundIsThere
    <2> QED
      BY <1>1, <1>3, <2>1 DEF FoundIsThere
  <1> QED
    BY <1>4, <1>5

\* A statement of a lookup finds tests of the graph as it is.
LEMMA LookupFollows ==
  ASSUME QueryTypeOK, AnswersFollow, NothingWithoutFile, UNCHANGED watchVars, NEW c \in Calls,
         ReadTargets(c) \/ ReadDirect(c) \/ ReadChain(c), upToDate'[c] = upToDate[c]
  PROVE  SoughtIsSteady(c)' /\ FoundIsThere(c)'
  <1>1. SoughtIsSteady(c) /\ FoundIsThere(c)
    BY DEF AnswersFollow
  <1>2. called' = called /\ file' = file /\ Rested' = Rested
    BY DEF watchVars, vars, graph, watch, locals, Rested, Alive
  <1>3. /\ at[c] \in LookingUp /\ at'[c] \in LookingUp /\ name'[c] = name[c]
        /\ lookup'[c].steady = lookup[c].steady
        /\ tool'[c] = tool[c] /\ todo'[c] = todo[c] /\ answer'[c] = answer[c]
    <2>1. lookup[c] \in Lookups /\ DOMAIN lookup = Calls /\ DOMAIN at = Calls
      BY DEF QueryTypeOK
    <2>2. CASE ReadTargets(c)
      BY <2>1, <2>2 DEF ReadTargets, Await, asked, LookingUp, QueryTypeOK
    <2>3. CASE ReadDirect(c)
      BY <2>1, <2>3 DEF ReadDirect, Await, asked, LookingUp, QueryTypeOK, Lookups
    <2>4. CASE ReadChain(c)
      BY <2>1, <2>4 DEF ReadChain, Await, asked, LookingUp, QueryTypeOK, Lookups
    <2> QED
      BY <2>2, <2>3, <2>4
  <1>4. ASSUME NEW t \in LikelyTests
        PROVE  lookup'[c].tests[t] = lookup[c].tests[t] \/ file[t] # Absent
    <2>1. lookup[c] \in Lookups /\ lookup[c].tests \in [LikelyTests -> 0 .. 99]
      BY DEF QueryTypeOK, Lookups
    <2>2. CASE ReadTargets(c)
      BY <2>2 DEF ReadTargets
    <2>3. CASE ReadDirect(c)
      <3> DEFINE edges == {e \in tests : <<e[2], e[3]>> \in functions[c]}
                 S == {e[1] : e \in {d \in edges : d[1] # d[2]}}
                 T == {e[1] : e \in {d \in edges : d[1] = d[2]}}
      <3>1. lookup'[c].tests = Upsert(Upsert(lookup[c].tests, S, 62), T, 65)
        BY <2>1, <2>3 DEF ReadDirect, QueryTypeOK, Lookups
      <3>2. t \in S \cup T => file[t] # Absent
        BY DEF NothingWithoutFile
      <3> HIDE DEF S, T
      <3> QED
        BY <3>1, <3>2 DEF Upsert
    <2>4. CASE ReadChain(c)
      <3>1. PICK R \in Rows(Chains(c, 1) \cup Chains(c, 2) \cup Chains(c, 3)) :
                lookup' = [lookup EXCEPT ![c].tests = Upsert(Upsert(Upsert(@,
                    R \cap Chains(c, 3), 46), R \cap Chains(c, 2), 58), R \cap Chains(c, 1), 70)]
        BY <2>4 DEF ReadChain
      <3>2. lookup'[c].tests = Upsert(Upsert(Upsert(lookup[c].tests,
                R \cap Chains(c, 3), 46), R \cap Chains(c, 2), 58), R \cap Chains(c, 1), 70)
        BY <2>1, <3>1 DEF QueryTypeOK, Lookups
      <3>3. t \in R => file[t] # Absent
        BY <3>1, RowsOf DEF Chains
      <3> QED
        BY <3>2, <3>3 DEF Upsert
    <2> QED
      BY <2>2, <2>3, <2>4
  <1>5. SoughtIsSteady(c)'
    BY <1>1, <1>2, <1>3 DEF SoughtIsSteady
  <1>6. FoundIsThere(c)'
    BY <1>1, <1>2, <1>3, <1>4 DEF FoundIsThere, LookingUp
  <1> QED
    BY <1>5, <1>6

\* What has been found is answered.
LEMMA AliasFollows ==
  ASSUME QueryTypeOK, AnswersFollow, NothingWithoutFile, UNCHANGED watchVars, NEW c \in Calls,
         ReadAlias(c), upToDate'[c] = upToDate[c]
  PROVE  SoughtIsSteady(c)' /\ FoundIsThere(c)'
  <1>1. SoughtIsSteady(c) /\ FoundIsThere(c)
    BY DEF AnswersFollow
  <1>2. called' = called /\ file' = file /\ Rested' = Rested
    BY DEF watchVars, vars, graph, watch, locals, Rested, Alive
  <1>3. /\ lookup[c] \in Lookups /\ answer[c] \in Lookups
        /\ lookup[c].tests \in [LikelyTests -> 0 .. 99]
    BY DEF QueryTypeOK, Lookups
  <1>4. PICK R \in Rows(Namesakes(name[c])) :
            answer' = [answer EXCEPT ![c] = Merge(@,
                [lookup[c] EXCEPT !.tests = Upsert(@, R, 66),
                                  !.cut = @ \/ Cut(Namesakes(name[c]))])]
    BY DEF ReadAlias
  <1> DEFINE l == [lookup[c] EXCEPT !.tests = Upsert(@, R, 66),
                                    !.cut = @ \/ Cut(Namesakes(name[c]))]
  <1>5. l.tests = Upsert(lookup[c].tests, R, 66) /\ l.steady = lookup[c].steady
    BY <1>3 DEF Lookups
  <1>6. answer'[c] = Merge(answer[c], l)
    BY <1>4 DEF QueryTypeOK
  <1> HIDE DEF l
  <1>7. /\ at[c] = "alias" /\ at'[c] = "next" /\ tool'[c] = tool[c]
        /\ todo'[c] = todo[c] \ {name[c]} /\ lookup'[c] = Nothing
    BY DEF ReadAlias, QueryTypeOK, Await, asked
  <1>8. SoughtIsSteady(c)'
    <2>1. answer'[c].steady = answer[c].steady \cup lookup[c].steady
      BY <1>5, <1>6 DEF Merge
    <2> QED
      BY <1>1, <1>2, <1>7, <2>1 DEF SoughtIsSteady
  <1>9. ASSUME NEW t \in LikelyTests, answer'[c].tests[t] > 0
        PROVE  lookup[c].tests[t] + answer[c].tests[t] > 0 \/ file[t] # Absent
    <2>1. answer'[c].tests[t] = Higher(answer[c].tests[t], l.tests[t])
      BY <1>6 DEF Merge
    <2>2. lookup[c].tests[t] \in Nat /\ answer[c].tests[t] \in Nat
      BY <1>3 DEF Lookups
    <2>3. CASE t \in R
      <3>1. t \in TestFiles /\ Mentions(called[t], name[c])
        BY <2>3, RowsOf DEF Namesakes
      <3>2. called[t] # {} /\ t \in Files
        BY <3>1, GraphAssumption DEF Mentions
      <3> QED
        BY <3>2 DEF NothingWithoutFile
    <2>4. CASE t \notin R
      <3>1. l.tests[t] = lookup[c].tests[t]
        BY <1>5, <2>4 DEF Upsert
      <3> QED
        BY <1>9, <2>1, <2>2, <3>1 DEF Higher
    <2> QED
      BY <2>3, <2>4
  <1>10. FoundIsThere(c)'
    <2>1. tool[c] = "tests_for_function" => todo'[c] = {}
      BY <1>1, <1>7 DEF FoundIsThere, LookingUp
    <2>2. \A t \in LikelyTests : lookup'[c].tests[t] + answer'[c].tests[t] = answer'[c].tests[t]
      <3>1. l.tests \in [LikelyTests -> 0 .. 99] /\ answer[c].tests \in [LikelyTests -> 0 .. 99]
        BY <1>3, <1>5, UpsertRaises DEF Lookups
      <3>2. \A t \in LikelyTests : answer'[c].tests[t] \in Nat
        BY <1>6, <3>1 DEF Merge, Higher
      <3> QED
        BY <1>7, <3>2 DEF Nothing
    <2>3. tool[c] = "tests_for_function" /\ upToDate[c] # {} => \A t \in LikelyTests :
              lookup'[c].tests[t] + answer'[c].tests[t] > 0 => file[t] # Absent
      BY <1>1, <1>9, <2>2 DEF FoundIsThere
    <2> QED
      BY <1>2, <1>7, <2>1, <2>3 DEF FoundIsThere, LookingUp
  <1> QED
    BY <1>8, <1>10

\* Every other statement leaves what has been sought in the answer.
LEMMA ReadFollows ==
  ASSUME QueryTypeOK, AnswersFollow, UNCHANGED watchVars, NEW c \in Calls, upToDate'[c] = upToDate[c],
         \/ FindFile(c) \/ FunctionNames(c) \/ Answer(c)
         \/ \E n \in Names : MemoHit(c, n)
         \/ TraceUpstream(c) \/ TraceDownstream(c) \/ RiskUpstream(c) \/ RiskDownstream(c)
         \/ \E x, h \in Percents : RuntimeSnapshot(c, x, h)
         \/ ReadModule(c) \/ ReadCycles(c) \/ ReadOrphans(c) \/ ReadHotspots(c) \/ ReadCoupling(c)
  PROVE  SoughtIsSteady(c)' /\ FoundIsThere(c)'
  <1> USE DEF Await, asked, looking, tracing
  <1>1. SoughtIsSteady(c) /\ FoundIsThere(c)
    BY DEF AnswersFollow
  <1>2. called' = called /\ file' = file /\ Rested' = Rested
    BY DEF watchVars, vars, graph, watch, locals, Rested, Alive
  <1>3. answer[c] \in Lookups
    BY DEF QueryTypeOK
  <1>4. ASSUME at[c] \notin LookingUp, at'[c] \notin LookingUp,
               answer[c].steady \subseteq answer'[c].steady
        PROVE  SoughtIsSteady(c)'
    BY <1>1, <1>2, <1>4 DEF SoughtIsSteady
  <1>5. ASSUME at'[c] \notin LookingUp \cup {"file", "names", "next"}, tool'[c] = tool[c],
               todo'[c] = todo[c], lookup'[c] = lookup[c], answer'[c].tests = answer[c].tests
        PROVE  FoundIsThere(c)'
    BY <1>1, <1>2, <1>5 DEF FoundIsThere
  <1>6. CASE FindFile(c) \/ FunctionNames(c)
    <2>1. /\ at[c] \in {"file", "names"} /\ at'[c] \in {"names", "notFound", "next"}
          /\ tool'[c] = tool[c] /\ answer'[c].steady = answer[c].steady
      BY <1>3, <1>6 DEF FindFile, FunctionNames, QueryTypeOK, Lookups
    <2> QED
      BY <1>1, <1>4, <2>1 DEF FoundIsThere, LookingUp
  <1>7. ASSUME NEW n \in Names, MemoHit(c, n)
        PROVE  SoughtIsSteady(c)' /\ FoundIsThere(c)'
    <2>1. /\ at[c] = "next" /\ at'[c] = "next" /\ n \in todo[c] /\ todo'[c] = todo[c] \ {n}
          /\ tool'[c] = tool[c] /\ answer'[c] = Merge(answer[c], memo[n])
      BY <1>7 DEF MemoHit, QueryTypeOK
    <2>2. answer[c].steady \subseteq answer'[c].steady
      BY <2>1 DEF Merge
    <2> QED
      BY <1>1, <1>4, <2>1, <2>2 DEF FoundIsThere, LookingUp
  <1>8. CASE Answer(c)
    <2>1. /\ at[c] = "next" /\ at'[c] = "answered" /\ tool'[c] = tool[c] /\ todo'[c] = todo[c]
          /\ lookup'[c] = lookup[c] /\ answer'[c].steady = answer[c].steady
          /\ tool[c] # "plan" => answer'[c] = answer[c]
      BY <1>3, <1>8 DEF Answer, WriteThePlan, QueryTypeOK, Lookups
    <2>2. CASE tool[c] = "plan"
      BY <1>4, <2>1, <2>2 DEF FoundIsThere, LookingUp
    <2>3. CASE tool[c] # "plan"
      BY <1>4, <1>5, <2>1, <2>3 DEF LookingUp
    <2> QED
      BY <2>2, <2>3
  <1>9. ASSUME NEW s, NEW S, Answered(c, s, S)
        PROVE  SoughtIsSteady(c)' /\ FoundIsThere(c)'
    <2>1. /\ at[c] = "traces" /\ at'[c] \in {"traces", "next", "answered"}
          /\ at'[c] = "next" => tool[c] = "plan"
          /\ tool'[c] = tool[c] /\ todo'[c] = todo[c] /\ lookup'[c] = lookup[c]
          /\ answer'[c].steady = answer[c].steady /\ answer'[c].tests = answer[c].tests
      BY <1>3, <1>9 DEF Answered, QueryTypeOK, Lookups
    <2>2. at'[c] = "next" => FoundIsThere(c)'
      BY <2>1 DEF FoundIsThere, LookingUp
    <2> QED
      BY <1>4, <1>5, <2>1, <2>2 DEF LookingUp
  <1>10. ASSUME NEW from, NEW to, NEW b, ReadBoundary(c, from, to, b),
                from \notin LookingUp, to \notin LookingUp \cup {"file", "names", "next"}
         PROVE  SoughtIsSteady(c)' /\ FoundIsThere(c)'
    <2>1. /\ at[c] = from /\ at'[c] = to /\ tool'[c] = tool[c] /\ todo'[c] = todo[c]
          /\ lookup'[c] = lookup[c] /\ answer'[c] = answer[c]
      BY <1>10 DEF ReadBoundary, QueryTypeOK
    <2> QED
      BY <1>4, <1>5, <1>10, <2>1
  <1>11. CASE \/ TraceUpstream(c) \/ TraceDownstream(c) \/ RiskUpstream(c) \/ RiskDownstream(c)
              \/ \E x, h \in Percents : RuntimeSnapshot(c, x, h)
    BY <1>9, <1>11 DEF TraceUpstream, TraceDownstream, RiskUpstream, RiskDownstream, RuntimeSnapshot
  <1>12. CASE ReadModule(c) \/ ReadCycles(c) \/ ReadOrphans(c) \/ ReadHotspots(c) \/ ReadCoupling(c)
    <2>1. \E b : \/ ReadBoundary(c, "module", "cycles", b) \/ ReadBoundary(c, "module", "notFound", b)
                 \/ ReadBoundary(c, "cycles", "orphans", b) \/ ReadBoundary(c, "orphans", "hotspots", b)
                 \/ ReadBoundary(c, "hotspots", "coupling", b)
                 \/ ReadBoundary(c, "coupling", "answered", b)
      BY <1>12 DEF ReadModule, ReadCycles, ReadOrphans, ReadHotspots, ReadCoupling
    <2> QED
      BY <1>10, <2>1 DEF LookingUp
  <1> QED
    BY <1>6, <1>7, <1>8, <1>11, <1>12

LEMMA ProceedFollows ==
  ASSUME QueryTypeOK, AnswersFollow, NothingWithoutFile, NEW c \in Calls, Proceed(c),
         upToDate \in [Calls -> SUBSET Names]
  PROVE  AnswersFollow'
  <1> DEFINE sought == IF Sends(c) /\ Rested THEN upToDate[c] \cup {name'[c]} ELSE upToDate[c]
  <1>1. /\ Reads(c) /\ UNCHANGED watchVars
        /\ upToDate' = [upToDate EXCEPT ![c] = sought]
    BY DEF Proceed
  <1>2. upToDate'[c] = sought
    BY <1>1
  <1>3. \A d \in Calls \ {c} : Same(d) /\ upToDate'[d] = upToDate[d]
    BY <1>1, OthersSame
  <1>4. ASSUME NEW n \in Names, SendLookup(c, n)
        PROVE  SoughtIsSteady(c)' /\ FoundIsThere(c)'
    <2>1. Sends(c) /\ name'[c] = n
      BY <1>4 DEF SendLookup, Sends, Await, QueryTypeOK
    <2>2. upToDate'[c] = IF Rested THEN upToDate[c] \cup {n} ELSE upToDate[c]
      BY <1>2, <2>1
    <2> QED
      BY <1>1, <1>4, <2>2, SendFollows
  <1>5. ASSUME ~Sends(c)
        PROVE  SoughtIsSteady(c)' /\ FoundIsThere(c)'
    <2>1. upToDate'[c] = upToDate[c]
      BY <1>2, <1>5
    <2>2. \A n \in Names : ~SendLookup(c, n)
      BY <1>5 DEF SendLookup, Sends, Await, QueryTypeOK
    <2>3. CASE ReadTargets(c) \/ ReadDirect(c) \/ ReadChain(c)
      BY <1>1, <2>1, <2>3, LookupFollows
    <2>4. CASE ReadAlias(c)
      BY <1>1, <2>1, <2>4, AliasFollows
    <2>5. CASE ~(ReadTargets(c) \/ ReadDirect(c) \/ ReadChain(c) \/ ReadAlias(c))
      BY <1>1, <2>1, <2>2, <2>5, ReadFollows DEF Reads
    <2> QED
      BY <2>3, <2>4, <2>5
  <1>6. ASSUME Sends(c), \A n \in Names : ~SendLookup(c, n)
        PROVE  FALSE
    <2>1. at[c] = "next" /\ at'[c] = "targets"
      BY <1>6 DEF Sends
    <2>2. ASSUME NEW s, NEW S, Answered(c, s, S)
          PROVE  FALSE
      BY <2>1, <2>2 DEF Answered
    <2>3. ASSUME NEW from, NEW to, NEW b, ReadBoundary(c, from, to, b), from # "next"
          PROVE  FALSE
      BY <2>1, <2>3 DEF ReadBoundary
    <2>4. ~TraceUpstream(c) /\ ~TraceDownstream(c) /\ ~RiskUpstream(c) /\ ~RiskDownstream(c)
      BY <2>2 DEF TraceUpstream, TraceDownstream, RiskUpstream, RiskDownstream
    <2>5. ~\E x, h \in Percents : RuntimeSnapshot(c, x, h)
      BY <2>2 DEF RuntimeSnapshot
    <2>6. ~(ReadModule(c) \/ ReadCycles(c) \/ ReadOrphans(c) \/ ReadHotspots(c) \/ ReadCoupling(c))
      BY <2>3 DEF ReadModule, ReadCycles, ReadOrphans, ReadHotspots, ReadCoupling
    <2>7. /\ ~FindFile(c) /\ ~FunctionNames(c) /\ ~ReadTargets(c) /\ ~ReadDirect(c) /\ ~ReadChain(c)
          /\ ~ReadAlias(c) /\ ~Answer(c) /\ \A n \in Names : ~MemoHit(c, n)
      BY <2>1 DEF FindFile, FunctionNames, ReadTargets, ReadDirect, ReadChain, ReadAlias, Answer,
                  MemoHit, Await, QueryTypeOK
    <2> QED
      BY <1>1, <1>6, <2>4, <2>5, <2>6, <2>7 DEF Reads
  <1>7. SoughtIsSteady(c)' /\ FoundIsThere(c)'
    BY <1>4, <1>5, <1>6
  <1> QED
    BY <1>1, <1>3, <1>7, OneCall

LEMMA ServingStepFollows ==
  ServingTypeOK /\ NothingWithoutFile /\ AnswersFollow /\ [ServingNext]_servingVars
  => AnswersFollow'
  <1> SUFFICES ASSUME ServingTypeOK, NothingWithoutFile, AnswersFollow, [ServingNext]_servingVars
               PROVE  AnswersFollow'
    OBVIOUS
  <1> USE DEF ServingTypeOK
  <1>1. CASE Index
    BY <1>1, IndexFollows DEF WatchTypeOK
  <1>2. ASSUME NEW c \in Calls, Serve(c) \/ Refuse(c)
        PROVE  AnswersFollow'
    BY <1>2, ForgetFollows DEF Serve, Refuse
  <1>3. ASSUME NEW c \in Calls, Proceed(c)
        PROVE  AnswersFollow'
    BY <1>3, ProceedFollows
  <1>4. CASE (\E n \in Names : Age(n)) \/ UNCHANGED servingVars
    <2>1. UNCHANGED watchVars /\ \A c \in Calls : Same(c) /\ upToDate'[c] = upToDate[c]
      BY <1>4 DEF Age, Expire, servingVars, server, callVars, asked, looking, Same
    <2>2. called' = called /\ file' = file /\ Rested' = Rested
      BY <2>1 DEF watchVars, vars, graph, watch, locals, Rested, Alive
    <2> QED
      BY <2>1, <2>2 DEF AnswersFollow, Same, SoughtIsSteady, FoundIsThere
  <1> QED
    BY <1>1, <1>2, <1>3, <1>4 DEF ServingNext

LEMMA AnswersFollowAlways == ServingSpec => []AnswersFollow
  <1>1. ServingInit => AnswersFollow
    <2>1. None # "tests_for_function"
      BY QueryAssumption DEF Served
    <2> QED
      BY <2>1 DEF ServingInit, QueryInit, AnswersFollow, SoughtIsSteady, FoundIsThere, LookingUp
  <1> QED
    BY <1>1, ServingStepFollows, ServedTyping, ServedGraph, PTL DEF ServingSpec

\* Saves reach the answers: for any number of runs that overlap, fail or clear
\* the graph, and of calls under way meanwhile.
THEOREM SavesReachTheAnswers == ServingSpec => []SavedTestsSuggested
  <1>1. ASSUME QueryTypeOK, SymbolsCoverSha, RestedMirrors, AnswersFollow, LookupInv,
               NEW c \in Calls, at[c] = "answered", NEW n \in upToDate[c]
        PROVE  /\ ~answer[c].cut => \A t \in LikelyTests \cap TestFiles :
                      disk[t] # Absent /\ Mentions(CallsOf[disk[t]], n) => answer[c].tests[t] >= 66
               /\ tool[c] = "tests_for_function" => \A t \in LikelyTests :
                      answer[c].tests[t] > 0 => disk[t] # Absent
    <2>1. SoughtIsSteady(c) /\ FoundIsThere(c) /\ file = disk
      BY <1>1 DEF AnswersFollow, SoughtIsSteady, Rested, RestedMirrors
    <2>2. ASSUME ~answer[c].cut, NEW t \in LikelyTests \cap TestFiles, disk[t] # Absent,
                 Mentions(CallsOf[disk[t]], n)
          PROVE  answer[c].tests[t] >= 66
      <3>1. CallsOf[disk[t]] \subseteq called[t]
        BY <1>1, <2>1, <2>2, GraphAssumption DEF SymbolsCoverSha
      <3>2. Mentions(called[t], n)
        BY <2>2, <3>1 DEF Mentions
      <3>3. <<t, n>> \in answer[c].steady
        BY <1>1, <2>1, <2>2, <3>2 DEF SoughtIsSteady, LookingUp
      <3> QED
        BY <1>1, <2>2, <3>3 DEF LookupInv, Covers
    <2>3. ASSUME tool[c] = "tests_for_function", NEW t \in LikelyTests, answer[c].tests[t] > 0
          PROVE  disk[t] # Absent
      <3>1. lookup[c] \in Lookups /\ answer[c] \in Lookups
        BY <1>1 DEF QueryTypeOK
      <3>2. lookup[c].tests[t] \in Nat /\ answer[c].tests[t] \in Nat
        BY <3>1 DEF Lookups
      <3>3. lookup[c].tests[t] + answer[c].tests[t] > 0
        BY <2>3, <3>2
      <3> QED
        BY <1>1, <2>1, <2>3, <3>3 DEF FoundIsThere
    <2> QED
      BY <2>2, <2>3
  <1>2. QueryTypeOK /\ SymbolsCoverSha /\ RestedMirrors /\ AnswersFollow /\ LookupInv
            => SavedTestsSuggested
    BY <1>1 DEF SavedTestsSuggested
  <1> QED
    BY <1>2, AnswersFollowAlways, ServedCalls, ServedGraph, ServingIsQuerying, LookupsCover, PTL
    DEF RunsWriteAsQueriesExpects
=============================================================================
