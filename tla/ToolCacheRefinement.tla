------------------------- MODULE ToolCacheRefinement -------------------------
(***************************************************************************)
(* ToolCache implements PublishedAnswers, for any servers, calls, keys and *)
(* timestamps, and any number of calls that share a server.                *)
(***************************************************************************)
EXTENDS ToolCacheProofs

-----------------------------------------------------------------------------
(* Nothing comes from the future: every entry, memo and answer was read    *)
(* from the graph.                                                         *)

Known(e) == e # None => e.value <= content
Past ==
    /\ \A k \in Keys :
        /\ Known(warm[k]) /\ Known(cold[k])
        /\ \A s \in Servers : Known(hot[s][k])
        /\ \A s \in Servers : memo[s][k] # None => memo[s][k] <= content
        /\ \A c \in Calls : Known(copy[c][k])
    /\ \A c \in Calls : value[c] # None => value[c] <= content

\* The graph only gets more writes.
LEMMA ContentGrows ==
  ASSUME TypeOK, TypeOK', [Next]_vars
  PROVE  content \in Nat /\ content' \in Nat /\ content' >= content
  <1>1. content \in Nat /\ content' \in Nat
    BY DEF TypeOK
  <1> QED
    BY <1>1, PublishSteps DEF Unpublished, Publish

\* Tiers are filled from tiers and from hands.
LEMMA PastEntries ==
  ASSUME TypeOK, TypeOK', Past, [Next]_vars, NEW k \in Keys, NEW e, From(e, k),
         e \in Entries \cup {None}
  PROVE  e # None => e.value <= content'
  <1> SUFFICES ASSUME e # None PROVE e.value <= content'
    OBVIOUS
  <1>1. e.value <= content
    <2>1. CASE \E c \in Calls : /\ key[c] = k
                                /\ value[c] # None
                                /\ e = Held(c)
      BY <2>1 DEF Past, Held
    <2>2. CASE e = warm[k] \/ e = cold[k]
      BY <2>2 DEF Past, Known
    <2>3. CASE \E s \in Servers : e = hot[s][k]
      BY <2>3 DEF Past, Known
    <2>4. CASE \E c \in Calls : e = copy[c][k]
      BY <2>4 DEF Past, Known
    <2> QED
      BY <2>1, <2>2, <2>3, <2>4 DEF From
  <1>2. e.value \in Nat
    BY DEF Entries
  <1> QED
    BY <1>1, <1>2, ContentGrows

\* Answers come from tiers, the memo and the graph.
LEMMA PastValues ==
  ASSUME TypeOK, TypeOK', HandEmpty, Past, [Next]_vars, NEW c \in Calls, value'[c] # None
  PROVE  value'[c] <= content'
  <1>a. value'[c] \in Nat
    BY DEF TypeOK
  <1>b. value[c] \in Nat \cup {None} /\ ServerOf[c] \in Servers
    BY CallAssumption DEF TypeOK
  <1>c. content \in Nat /\ content' \in Nat /\ content' >= content
    BY ContentGrows
  <1>0. /\ value'[c] \in Nat
        /\ value[c] \in Nat \cup {None}
        /\ ServerOf[c] \in Servers
        /\ content \in Nat /\ content' \in Nat /\ content' >= content
    BY <1>a, <1>b, <1>c
  <1>1. CASE value'[c] = value[c]
    BY <1>0, <1>1 DEF Past
  <1>2. CASE Moved(c)
    <2>1. key[c] \in Keys
      BY <1>2, AtWork DEF Moved, Working
    <2>2. Found(c, value'[c])
      BY <1>2 DEF Moved
    <2>3. value'[c] <= content
      <3>1. CASE value'[c] = value[c]
        BY <3>1 DEF Past
      <3>2. CASE value'[c] = content
        BY <1>0, <3>2
      <3>3. CASE value'[c] = memo[ServerOf[c]][key[c]]
        BY <1>0, <2>1, <3>3 DEF Past
      <3>4. ASSUME NEW e \in {hot[ServerOf[c]][key[c]], warm[key[c]], cold[key[c]]},
                   Matches(e, read[c]), value'[c] = e.value
            PROVE  value'[c] <= content
        BY <1>0, <2>1, <3>4 DEF Past, Known, Matches
      <3> QED
        BY <2>2, <3>1, <3>2, <3>3, <3>4 DEF Found
    <2> QED
      BY <1>0, <2>3
  <1>3. \/ Same(c) \/ Away(c) \/ Warms(c) \/ Waits(c)
        \/ Replied(c) \/ Stamped(c) \/ Moved(c)
    BY HandSteps
  <1>4. Same(c) \/ Replied(c) \/ Stamped(c) => value'[c] = value[c]
    BY DEF Same, Replied, Stamped
  <1>5. ~Away(c) /\ ~Warms(c) /\ ~Waits(c)
    BY DEF Away, Warms, Waits
  <1> QED
    BY <1>1, <1>2, <1>3, <1>4, <1>5

\* The memo of a server is what it was, or has one answer more.
LEMMA MemoSteps ==
  ASSUME TypeOK, [Next]_vars, NEW s \in Servers, NEW k \in Keys
  PROVE  \/ memo'[s][k] \in {memo[s][k], None}
         \/ \E c \in Calls : value[c] # None /\ memo'[s][k] = value[c]
  <1>0. memo \in [Servers -> [Keys -> Nat \cup {None}]] /\ ServerOf \in [Calls -> Servers]
    BY CallAssumption DEF TypeOK
  <1>5. ASSUME NEW c \in Calls, pc[c] = "produced" PROVE value[c] # None
    BY <1>5, NumberAssumption DEF TypeOK, Storing
  <1>1. CASE memo' = memo
    BY <1>1
  <1>2. ASSUME NEW c \in Calls, SetHotTier(c)
        PROVE  memo'[s][k] = memo[s][k] \/ (value[c] # None /\ memo'[s][k] = value[c])
    BY <1>0, <1>2, <1>5 DEF SetHotTier
  <1>3. ASSUME NEW t \in Servers, Restart(t) PROVE memo'[s][k] \in {memo[s][k], None}
    BY <1>0, <1>3 DEF Restart, NoEntries
  <1>4. \/ memo' = memo
        \/ \E c \in Calls : SetHotTier(c)
        \/ \E t \in Servers : Restart(t)
    BY DEF Next, CallStep, WriteGraph, ClearMeta, SetIndexedNow, InitSchema, IngestSpan, Publish,
           InvalidateWarm, Begin, Gate, Ask, FreshnessRead, FreshnessArrives,
           FreshnessFails, Settle, CallFails, HotHit, HotMiss, WarmGet, PromoteWarm, PromoteCold,
           ColdMiss, MemoHit, QueryGraph, SetWarmTier, SetColdTier, WriteFile, vars, caches
  <1> QED
    BY <1>1, <1>2, <1>3, <1>4

LEMMA PastStep ==
  ASSUME TypeOK, TypeOK', HandEmpty, Past, [Next]_vars
  PROVE  Past'
  <1>1. ASSUME NEW k \in Keys
        PROVE  /\ Known(warm[k])' /\ Known(cold[k])'
               /\ \A s \in Servers : Known(hot[s][k])'
               /\ \A c \in Calls : Known(copy[c][k])'
    <2>1. /\ warm'[k] \in Entries \cup {None} /\ cold'[k] \in Entries \cup {None}
          /\ \A s \in Servers : hot'[s][k] \in Entries \cup {None}
          /\ \A c \in Calls : copy'[c][k] \in Entries \cup {None}
      BY DEF TypeOK
    <2>2. /\ From(warm'[k], k) /\ From(cold'[k], k)
          /\ \A s \in Servers : From(hot'[s][k], k)
          /\ \A c \in Calls : From(copy'[c][k], k)
      BY EntriesFrom
    <2>3. \A e \in Entries \cup {None} : From(e, k) => (e # None => e.value <= content')
      BY PastEntries
    <2> QED
      BY <2>1, <2>2, <2>3 DEF Known
  <1>2. ASSUME NEW s \in Servers, NEW k \in Keys, memo'[s][k] # None
        PROVE  memo'[s][k] <= content'
    <2>1. memo'[s][k] \in Nat
      BY <1>2 DEF TypeOK
    <2>2. memo'[s][k] <= content
      BY <1>2, MemoSteps DEF Past
    <2> QED
      BY <2>1, <2>2, ContentGrows
  <1>3. \A c \in Calls : value'[c] # None => value'[c] <= content'
    BY PastValues
  <1> QED
    BY <1>1, <1>2, <1>3 DEF Past

-----------------------------------------------------------------------------
(* The steps.                                                              *)

\* What the clients see of a call.
AskedOf(c) == IF Asked(c) THEN atAsk[c] ELSE None
AnswerOf(c) == IF Asked(c) /\ pc[c] = "answered" THEN value[c] ELSE None

Unseen(c) == AskedOf(c)' = AskedOf(c) /\ AnswerOf(c)' = AnswerOf(c)
Gone(c) == AskedOf(c)' = None /\ AnswerOf(c)' = None
SeenGraph == <<content, published, reused>>

\* A call that a step does not touch.
Untouched(c) == /\ pc'[c] = pc[c] /\ key'[c] = key[c]
                /\ value'[c] = value[c] /\ atAsk'[c] = atAsk[c]

LEMMA UntouchedUnseen == ASSUME NEW c \in Calls, Untouched(c) PROVE Unseen(c)
  BY DEF Untouched, Unseen, AskedOf, AnswerOf, Asked

\* The call is answered, from a key that no memo serves.
Answered(c) ==
    /\ pc[c] \in Working /\ pc'[c] = "answered" /\ key'[c] \notin MemoKeys
    /\ AskedOf(c) = atAsk[c] /\ AskedOf(c)' = atAsk[c]
    /\ AnswerOf(c) = None /\ AnswerOf(c)' = value'[c]
    /\ atAsk' = atAsk /\ value'[c] # None

\* Every step of a call but its query.
LEMMA CallViews ==
  ASSUME TypeOK, HandEmpty, [Next]_vars, NEW c \in Calls,
         atAsk' = atAsk, pc'[c] = "fresh" => pc[c] = "fresh"
  PROVE  Unseen(c) \/ Gone(c) \/ Answered(c)
  <1> USE DEF Unseen, Gone, AskedOf, AnswerOf, Asked
  <1>1. CASE Same(c)
    BY <1>1 DEF Same
  <1>2. CASE Away(c)
    BY <1>2 DEF Away
  <1>3. CASE Warms(c) \/ Waits(c)
    <2>1. pc[c] = "fresh" /\ pc'[c] = "fresh"
      BY <1>3 DEF Warms, Waits
    <2> QED
      BY <2>1
  <1>4. CASE Replied(c)
    BY <1>4 DEF Replied
  <1>5. CASE Stamped(c)
    BY <1>5 DEF Stamped
  <1>6. CASE Moved(c)
    BY <1>6 DEF Moved, Answered, Working, Reading, Storing, Blocking
  <1> QED
    BY <1>1, <1>2, <1>3, <1>4, <1>5, <1>6, HandSteps

\* What a step may look like from outside.
Rewrites ==
    /\ \A c \in Calls : Unseen(c)
    /\ WriteGraph \/ \E s \in Stamps : Publish(s)
Forgets == UNCHANGED SeenGraph /\ \A c \in Calls : Unseen(c) \/ Gone(c)
Queries(c) ==
    /\ UNCHANGED SeenGraph
    /\ Ask(c)
    /\ \A d \in Calls \ {c} : Unseen(d)
StartsAgain(s) ==
    /\ UNCHANGED SeenGraph
    /\ \A c \in Calls : IF c = WarmUp[s] THEN AskedOf(c)' = published /\ AnswerOf(c)' = None
                         ELSE IF ServerOf[c] = s THEN Gone(c) ELSE Unseen(c)
Answers(c) ==
    /\ UNCHANGED SeenGraph
    /\ Answered(c)
    /\ \A d \in Calls \ {c} : Unseen(d)

LEMMA Views ==
  ASSUME TypeOK, HandEmpty, [Next]_vars
  PROVE  \/ Rewrites \/ Forgets
         \/ \E c \in Calls : Queries(c) \/ Answers(c)
         \/ \E s \in Servers : StartsAgain(s)
  <1> USE UntouchedUnseen
  <1>0. /\ pc \in [Calls -> Resting \cup Asking \cup Reading \cup Storing \cup Blocking]
        /\ key \in [Calls -> Keys \cup {None}] /\ value \in [Calls -> Nat \cup {None}]
        /\ atAsk \in [Calls -> Nat] /\ failing \subseteq Calls
    BY DEF TypeOK
  <1>1. CASE WriteGraph
    BY <1>1 DEF WriteGraph, history, callVars, Untouched, Rewrites
  <1>2. ASSUME NEW s \in Stamps, Publish(s) PROVE Rewrites
    BY <1>2 DEF Publish, callVars, Untouched, Rewrites
  <1>3. CASE UNCHANGED vars
    BY <1>3 DEF vars, graph, history, callVars, Untouched, Forgets, SeenGraph, published
  <1>4. ASSUME NEW k \in Keys, InvalidateWarm(k) PROVE Forgets
    BY <1>4 DEF InvalidateWarm, graph, history, callVars, Untouched, Forgets, SeenGraph, published
  <1>5. ASSUME NEW c \in Calls, NEW k \in Keys, Begin(c, k) PROVE Forgets
    <2>1. \A d \in Calls \ {c} : Untouched(d)
      BY <1>0, <1>5 DEF Begin, Goto, Untouched
    <2>2. Gone(c)
      BY <1>0, <1>5 DEF Begin, Goto, Gone, AskedOf, AnswerOf, Asked
    <2> QED
      BY <1>5, <2>1, <2>2 DEF Begin, graph, Forgets, SeenGraph, published
  <1>6. ASSUME NEW c \in Calls, Ask(c) PROVE Queries(c)
    <2>1. \A d \in Calls \ {c} : Untouched(d)
      BY <1>0, <1>6 DEF Ask, Goto, Untouched
    <2> QED
      BY <1>6, <2>1 DEF Ask, graph, Queries, SeenGraph, published
  <1>7. ASSUME NEW c \in Calls, NEW next \in {"hot", "ask"}, Settle(c, next) PROVE Forgets
    <2>1. ASSUME NEW d \in Calls PROVE Unseen(d) \/ Gone(d)
      <3>1. CASE d \notin Sharing(c)
        BY <1>0, <1>7, <3>1 DEF Settle, ForgetCalls, Forget, Untouched
      <3>2. CASE d \in Sharing(c) /\ d \in failing
        BY <1>0, <1>7, <3>2 DEF Settle, Gone, AskedOf, AnswerOf, Asked
      <3>3. CASE d \in Sharing(c) /\ d \notin failing
        <4>1. pc[d] = "fresh" /\ pc'[d] = next /\ atAsk'[d] = atAsk[d]
          BY <1>0, <1>7, <3>3 DEF Settle, ForgetCalls, Forget, Sharing
        <4> QED
          BY <4>1 DEF Unseen, Gone, AskedOf, AnswerOf, Asked
      <3> QED
        BY <3>1, <3>2, <3>3
    <2> QED
      BY <1>7, <2>1 DEF Settle, graph, Forgets, SeenGraph, published
  <1>8. ASSUME NEW s \in Servers, Restart(s) PROVE StartsAgain(s)
    <2>1. ASSUME NEW d \in Calls, d = WarmUp[s] PROVE AskedOf(d)' = published /\ AnswerOf(d)' = None
      <3>1. pc'[d] = "fresh" /\ atAsk'[d] = published
        BY <1>0, <1>8, <2>1, WarmUpType DEF Restart, Forget
      <3> QED
        BY <3>1 DEF AskedOf, AnswerOf, Asked
    <2>2. ASSUME NEW d \in Calls, d # WarmUp[s], ServerOf[d] = s PROVE Gone(d)
      BY <1>0, <1>8, <2>2, WarmUpType DEF Restart, Forget, Gone, AskedOf, AnswerOf, Asked
    <2>3. ASSUME NEW d \in Calls, d # WarmUp[s], ServerOf[d] # s PROVE Unseen(d)
      BY <1>0, <1>8, <2>3, WarmUpType DEF Restart, Forget, Untouched
    <2> QED
      BY <1>8, <2>1, <2>2, <2>3 DEF Restart, graph, StartsAgain, SeenGraph, published
  <1>9. ASSUME NEW c \in Calls,
               \/ Gate(c) \/ FreshnessRead(c) \/ CallFails(c) \/ HotHit(c) \/ HotMiss(c)
               \/ WarmGet(c) \/ PromoteWarm(c) \/ PromoteCold(c) \/ ColdMiss(c) \/ MemoHit(c)
               \/ QueryGraph(c) \/ SetHotTier(c) \/ SetWarmTier(c) \/ SetColdTier(c)
               \/ WriteFile(c)
        PROVE  Forgets \/ Answers(c)
    <2>1. /\ atAsk' = atAsk /\ UNCHANGED graph /\ UNCHANGED <<publishedAs, reused>>
          /\ pc'[c] = "fresh" => pc[c] = "fresh"
      BY <1>0, <1>9 DEF Gate, FreshnessRead, CallFails, HotHit, HotMiss, WarmGet, PromoteWarm,
            PromoteCold, ColdMiss, MemoHit, QueryGraph, SetHotTier, SetWarmTier, SetColdTier,
            WriteFile, WriteStore, Hold, Return, Goto, history
    <2>2. \A d \in Calls \ {c} : Untouched(d)
      BY <1>0, <1>9 DEF Gate, FreshnessRead, CallFails, HotHit, HotMiss, WarmGet, PromoteWarm,
            PromoteCold, ColdMiss, MemoHit, QueryGraph, SetHotTier, SetWarmTier, SetColdTier,
            WriteFile, WriteStore, Hold, Return, Goto, history, Untouched
    <2>3. UNCHANGED SeenGraph
      BY <2>1 DEF graph, SeenGraph, published
    <2> QED
      BY <2>1, <2>2, <2>3, CallViews DEF Forgets, Answers
  <1>10. \A s \in Stamps : Publish(s) => Rewrites
    BY <1>2
  <1>11. ClearMeta => Rewrites
    BY <1>10 DEF ClearMeta, Unset, Stamps
  <1>12. \A i \in Instants : SetIndexedNow(i) \/ InitSchema(i) \/ IngestSpan(i) => Rewrites
    BY <1>10, StampType DEF SetIndexedNow, InitSchema, IngestSpan, TypeOK
  <1>13. \A c \in Calls : FreshnessArrives(c) \/ FreshnessFails(c) => Forgets
    BY <1>7 DEF FreshnessArrives, FreshnessFails
  <1> QED
    BY <1>1, <1>3, <1>4, <1>5, <1>6, <1>8, <1>9, <1>11, <1>12, <1>13 DEF Next, CallStep

-----------------------------------------------------------------------------
(* The refinement.                                                         *)

LEMMA NumbersSeen ==
  ASSUME Fresh
  PROVE  /\ content \in Nat /\ published \in Nat /\ None \notin Nat
         /\ \A c \in Calls : atAsk[c] \in Nat
  BY NumberAssumption DEF Fresh, TypeOK, published

\* A step that changes the graph writes or publishes.
LEMMA RewritesImplement ==
  ASSUME Fresh, Fresh', Rewrites
  PROVE  Promised!Write \/ Promised!Publish
  <1>1. /\ [c \in Calls |-> AskedOf(c)]' = [c \in Calls |-> AskedOf(c)]
        /\ [c \in Calls |-> AnswerOf(c)]' = [c \in Calls |-> AnswerOf(c)]
    BY DEF Rewrites, Unseen
  <1>2. CASE WriteGraph
    <2>1. content' = content + 1 /\ published' = published /\ reused' = reused
      BY <1>2 DEF WriteGraph, history, published
    <2> QED
      BY <1>1, <2>1 DEF Promised!Write, AskedOf, AnswerOf
  <1>3. ASSUME NEW s \in Stamps, Publish(s) PROVE Promised!Publish
    <2>1. content' = content + 1 /\ published' = content + 1 /\ reused' \in {reused, TRUE}
      BY <1>3 DEF Publish, published, Fresh, TypeOK
    <2> QED
      BY <1>1, <2>1 DEF Promised!Publish, AskedOf, AnswerOf
  <1> QED
    BY <1>2, <1>3 DEF Rewrites

LEMMA ForgetsImplement == ASSUME Forgets PROVE \E gone \in SUBSET Calls : Promised!Leave(gone)
  <1> DEFINE gone == {c \in Calls : Gone(c)}
  <1>1. /\ [c \in Calls |-> AskedOf(c)]'
                = [c \in Calls |-> IF c \in gone THEN None ELSE AskedOf(c)]
        /\ [c \in Calls |-> AnswerOf(c)]'
                = [c \in Calls |-> IF c \in gone THEN None ELSE AnswerOf(c)]
    BY DEF Forgets, Unseen, Gone
  <1>2. UNCHANGED <<content, published, reused>>
    BY DEF Forgets, SeenGraph
  <1>3. Promised!Leave(gone)
    BY <1>1, <1>2 DEF Promised!Leave, AskedOf, AnswerOf
  <1>4. gone \in SUBSET Calls
    OBVIOUS
  <1> HIDE DEF gone
  <1> QED
    BY <1>3, <1>4 DEF Promised!Leave

LEMMA StartsImplement ==
  ASSUME NEW s \in Servers, StartsAgain(s)
  PROVE  Promised!Restart(s)
  <1>1. /\ [c \in Calls |-> AskedOf(c)]'
                = [c \in Calls |-> IF c = WarmUp[s] THEN published
                                   ELSE IF ServerOf[c] = s THEN None ELSE AskedOf(c)]
        /\ [c \in Calls |-> AnswerOf(c)]'
                = [c \in Calls |-> IF ServerOf[c] = s THEN None ELSE AnswerOf(c)]
    BY WarmUpType DEF StartsAgain, Unseen, Gone
  <1>2. UNCHANGED <<content, published, reused>>
    BY DEF StartsAgain, SeenGraph
  <1> QED
    BY <1>1, <1>2 DEF Promised!Restart, AskedOf, AnswerOf

LEMMA AnswersImplement ==
  ASSUME Fresh, Fresh', Past', NEW c \in Calls, Answers(c)
  PROVE  Promised!Answer(c)
  <1>1. /\ AskedOf(c) = atAsk[c] /\ AnswerOf(c) = None /\ AskedOf(c)' = atAsk[c]
        /\ AnswerOf(c)' = value'[c] /\ value'[c] # None /\ atAsk' = atAsk
        /\ pc'[c] = "answered" /\ key'[c] \notin MemoKeys
    BY DEF Answers, Answered
  <1>2. UNCHANGED <<content, published, reused>>
    BY DEF Answers, SeenGraph
  <1>3. atAsk[c] \in Nat /\ None \notin Nat /\ content \in Nat
    BY NumbersSeen
  <1>4. value'[c] \in Nat
    BY <1>1 DEF Fresh, TypeOK
  <1>5. value'[c] <= content
    BY <1>1, <1>2 DEF Past
  <1>6. value'[c] >= atAsk[c] \/ reused
    BY <1>1, <1>2 DEF Fresh, AnswersReflectQuery
  <1>7. /\ [d \in Calls |-> AskedOf(d)]' = [d \in Calls |-> AskedOf(d)]
        /\ [d \in Calls |-> AnswerOf(d)]'
               = [[d \in Calls |-> AnswerOf(d)] EXCEPT ![c] = value'[c]]
    BY <1>1 DEF Answers, Unseen
  <1>8. value'[c] \in 0 .. content
    BY <1>3, <1>4, <1>5
  <1> QED
    BY <1>1, <1>2, <1>3, <1>6, <1>7, <1>8
       DEF Promised!Answer, Promised!Waits, AskedOf, AnswerOf

LEMMA QueriesImplement ==
  ASSUME Fresh, Fresh', NEW c \in Calls, Queries(c)
  PROVE  Promised!Ask(c) \/ \E d \in Calls : Promised!AskWith(c, d)
  <1>1. /\ pc[c] = "ask" /\ pc'[c] = "fresh"
        /\ atAsk'[c] = IF Shared(c) = c THEN published ELSE atAsk[Shared(c)]
    BY DEF Queries, Ask, Goto, Fresh, TypeOK
  <1>2. UNCHANGED <<content, published, reused>>
    BY DEF Queries, SeenGraph
  <1>3. /\ AskedOf(c) = None /\ AnswerOf(c) = None
        /\ AskedOf(c)' = atAsk'[c] /\ AnswerOf(c)' = None
    BY <1>1 DEF AskedOf, AnswerOf, Asked
  <1>4. /\ [d \in Calls |-> AskedOf(d)]'
               = [[d \in Calls |-> AskedOf(d)] EXCEPT ![c] = atAsk'[c]]
        /\ [d \in Calls |-> AnswerOf(d)]' = [d \in Calls |-> AnswerOf(d)]
    BY <1>3 DEF Queries, Unseen
  <1>5. CASE Shared(c) = c
    BY <1>1, <1>2, <1>3, <1>4, <1>5 DEF Promised!Ask, AskedOf, AnswerOf
  <1>6. CASE Shared(c) # c
    <2>0. PICK d : d = Shared(c)
      OBVIOUS
    <2>1. d = inFlight[ServerOf[c]] /\ inFlight[ServerOf[c]] # None /\ ServerOf[c] \in Servers
      BY <1>6, <2>0, CallAssumption DEF Shared
    <2>2. d \in Calls /\ pc[d] = "fresh" /\ ServerOf[d] = ServerOf[c]
      BY <2>1 DEF Fresh, FlightsLand, TypeOK
    <2>3. AskedOf(d) = atAsk[d] /\ AnswerOf(d) = None /\ atAsk[d] # None
      BY <2>2, NumbersSeen DEF AskedOf, AnswerOf, Asked
    <2>4. atAsk'[c] = AskedOf(d)
      BY <1>1, <1>6, <2>0, <2>3
    <2>5. Promised!AskWith(c, d)
      BY <1>2, <1>3, <1>4, <2>2, <2>3, <2>4
         DEF Promised!AskWith, Promised!Waits, AskedOf, AnswerOf
    <2> QED
      BY <2>2, <2>5
  <1> QED
    BY <1>5, <1>6

\* Gate, shared queries, cache tiers, failures and restarts do what
\* PublishedAnswers says, for any servers, calls, keys and timestamps: each
\* answer is a content the graph had, not older than what was published when
\* the freshness query behind it was sent.
THEOREM CachePromise == Spec => KeepsPromise
  <1>1. Init => Past
    BY DEF Init, Past, Known, NoEntries
  <1>2. Fresh /\ Past /\ [Next]_vars => Past'
    <2> SUFFICES ASSUME Fresh, Past, [Next]_vars PROVE Past'
      OBVIOUS
    <2>1. TypeOK /\ TypeOK' /\ HandEmpty
      BY FreshStep DEF Fresh
    <2> QED
      BY <2>1, PastStep
  <1>3. Init => Promised!Init
    <2> SUFFICES ASSUME Init PROVE Promised!Init
      OBVIOUS
    <2>1. published = 0
      BY EntryAssumption DEF Init, published
    <2>2. \A c \in Calls : Asked(c) <=> c \in WarmUps
      BY DEF Init, Asked
    <2>3. \A c \in Calls : atAsk[c] = 0 /\ pc[c] # "answered"
      BY DEF Init
    <2> QED
      BY <2>1, <2>2, <2>3 DEF Init, Promised!Init, WarmUps
  <1>4. Fresh /\ Fresh' /\ Past /\ Past' /\ [Next]_vars => [Promised!Next]_(Promised!vars)
    <2> SUFFICES ASSUME Fresh, Fresh', Past', [Next]_vars
                 PROVE  Promised!Next
      OBVIOUS
    <2>1. \/ Rewrites \/ Forgets
          \/ \E c \in Calls : Queries(c) \/ Answers(c)
          \/ \E s \in Servers : StartsAgain(s)
      BY Views DEF Fresh
    <2> QED
      BY <2>1, RewritesImplement, ForgetsImplement, QueriesImplement, AnswersImplement,
         StartsImplement
         DEF Promised!Next
  <1> QED
    BY <1>1, <1>2, <1>3, <1>4, FreshAlways, PTL DEF Spec, KeepsPromise, Promised!Spec
=============================================================================
