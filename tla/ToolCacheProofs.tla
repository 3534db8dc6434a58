-------------------------- MODULE ToolCacheProofs --------------------------
(***************************************************************************)
(* Proofs about ToolCache, for any servers, calls, keys and timestamps.    *)
(***************************************************************************)
EXTENDS ToolCache, TLAPS

USE CallAssumption, NumberAssumption, EntryAssumption DEF Clients

Status == Resting \cup Asking \cup Reading \cup Storing \cup Blocking

\* The warm-up of a server is a call of that server.
LEMMA WarmUpType ==
  /\ WarmUps \subseteq Calls
  /\ \A s \in Servers : WarmUp[s] \in WarmUps /\ ServerOf[WarmUp[s]] = s
  /\ \A c \in WarmUps : c = WarmUp[ServerOf[c]]
  BY DEF WarmUps

\* An answer with its stamp makes an entry.
LEMMA EntryType ==
  ASSUME NEW s \in Stamps, NEW v \in Nat
  PROVE  [stamp |-> s, value |-> v] \in Entries
  BY DEF Entries

\* Setting one field of a stamp, or clearing it, gives a stamp.
LEMMA StampType ==
  ASSUME NEW s \in Stamps, NEW i \in Instants
  PROVE  /\ [s EXCEPT !.indexedAt = i] \in Stamps
         /\ [s EXCEPT !.runtimeUpdatedAt = i] \in Stamps
         /\ Unset \in Stamps
  BY DEF Stamps, Unset

\* The initial states are well typed.
LEMMA InitTypeOK == Init => TypeOK
  <1> SUFFICES ASSUME Init PROVE TypeOK
    OBVIOUS
  <1>1. NoEntries \in [Keys -> Entries \cup {None}] /\ NoEntries \in [Keys -> Nat \cup {None}]
    BY DEF NoEntries
  <1>2. \A c \in Calls : /\ pc[c] = IF c \in WarmUps THEN "fresh" ELSE "idle"
                         /\ source[c] = IF c \in WarmUps THEN c ELSE None
                         /\ reply[c] = None
    BY DEF Init
  <1>3. publishedAs \in [Stamps -> Nat \cup {None}] /\ publishedAs[stamp] # None
    BY DEF Init
  <1> QED
    BY <1>1, <1>2, <1>3, WarmUpType
    DEF Init, TypeOK, Resting, Asking, Reading, Storing, Blocking

\* A write to the graph that sets the stamp keeps the types.
LEMMA PublishTypeOK == ASSUME TypeOK, NEW s \in Stamps, Publish(s) PROVE TypeOK'
  <1>1. publishedAs' \in [Stamps -> Nat \cup {None}] /\ publishedAs'[stamp'] # None
    BY DEF TypeOK, Publish
  <1> QED
    BY <1>1 DEF TypeOK, Publish, caches, callVars

\* A call between two awaits is none of the warm-ups, has a key, and a stamp.
LEMMA AtWork ==
  ASSUME TypeOK, NEW c \in Calls, pc[c] \in Reading \cup Storing \cup Blocking
  PROVE  /\ c \notin WarmUps /\ key[c] \in Keys
         /\ read[c] \in Stamps /\ reply[c] = None
         /\ pc[c] \in Storing => value[c] \in Nat
  BY DEF TypeOK, Reading, Storing, Blocking

\* A call between two of its awaits that keeps its stamp: only the tiers and
\* what it has in hand are to be looked at.
LEMMA HoldTypeOK ==
  ASSUME TypeOK, NEW c \in Calls, pc[c] \in Reading \cup Storing \cup Blocking,
         NEW l \in Reading \cup Storing \cup Blocking,
         NEW v \in Nat \cup {None}, l \in Storing => v \in Nat,
         NEW store \in [Keys -> Entries \cup {None}],
         Hold(c, l, v, store), UNCHANGED <<graph, history, inFlight>>,
         warm' \in [Keys -> Entries \cup {None}],
         cold' \in [Keys -> Entries \cup {None}],
         hot' \in [Servers -> [Keys -> Entries \cup {None}]],
         memo' \in [Servers -> [Keys -> Nat \cup {None}]]
  PROVE  TypeOK'
  BY DEF Hold, Goto, TypeOK, graph, history, Resting, Asking, Reading, Storing, Blocking

\* A call that returns an answer.
LEMMA ReturnTypeOK ==
  ASSUME TypeOK, NEW c \in Calls, pc[c] \in Reading \cup Storing \cup Blocking,
         NEW v \in Nat, Return(c, "answered", v), UNCHANGED <<graph, history, inFlight>>,
         warm' \in [Keys -> Entries \cup {None}],
         cold' \in [Keys -> Entries \cup {None}],
         hot' \in [Servers -> [Keys -> Entries \cup {None}]],
         memo' \in [Servers -> [Keys -> Nat \cup {None}]]
  PROVE  TypeOK'
  <1>1. NoEntries \in [Keys -> Entries \cup {None}]
    BY DEF NoEntries
  <1>2. c \notin WarmUps /\ key[c] \in Keys
    BY AtWork
  <1>3. /\ pc' = [pc EXCEPT ![c] = "answered"] /\ value' = [value EXCEPT ![c] = v]
        /\ source' = [source EXCEPT ![c] = None] /\ reply' = [reply EXCEPT ![c] = None]
        /\ read' = [read EXCEPT ![c] = None] /\ key' = key
        /\ failing' = failing \ {c} /\ copy' = [copy EXCEPT ![c] = NoEntries]
    BY DEF Return, Goto
  <1>4. /\ pc' \in [Calls -> Status] /\ value' \in [Calls -> Nat \cup {None}]
        /\ source' \in [Calls -> Calls \cup {None}] /\ reply' \in [Calls -> Stamps \cup {None}]
        /\ read' \in [Calls -> Stamps \cup {None}] /\ key' \in [Calls -> Keys \cup {None}]
        /\ failing' \subseteq Calls /\ copy' \in [Calls -> [Keys -> Entries \cup {None}]]
    BY <1>1, <1>3 DEF TypeOK, Status, Resting
  <1>5. \A d \in Calls \ {c} :
          /\ pc'[d] = pc[d] /\ value'[d] = value[d] /\ source'[d] = source[d]
          /\ reply'[d] = reply[d] /\ read'[d] = read[d] /\ key'[d] = key[d]
          /\ d \in failing' <=> d \in failing
    BY <1>3 DEF TypeOK
  <1>6. /\ pc'[c] = "answered" /\ value'[c] = v /\ reply'[c] = None /\ key'[c] \in Keys
    BY <1>2, <1>3 DEF TypeOK
  <1> QED
    BY <1>2, <1>4, <1>5, <1>6
    DEF TypeOK, graph, history, Status, Resting, Asking, Reading, Storing, Blocking

\* Every step keeps the types.
LEMMA NextTypeOK == TypeOK /\ [Next]_vars => TypeOK'
  <1> SUFFICES ASSUME TypeOK, [Next]_vars PROVE TypeOK'
    OBVIOUS
  <1> USE DEF Resting, Asking, Reading, Storing, Blocking
  <1>0. NoEntries \in [Keys -> Entries \cup {None}] /\ NoEntries \in [Keys -> Nat \cup {None}]
    BY DEF NoEntries
  <1>1. CASE WriteGraph
    BY <1>1 DEF WriteGraph, TypeOK, history, caches, callVars
  <1>2. CASE ClearMeta
    BY <1>2, PublishTypeOK DEF ClearMeta, Unset, Stamps
  <1>3. CASE \E i \in Instants : SetIndexedNow(i) \/ InitSchema(i) \/ IngestSpan(i)
    BY <1>3, StampType, PublishTypeOK DEF SetIndexedNow, InitSchema, IngestSpan, TypeOK
  <1>4. ASSUME NEW k \in Keys, InvalidateWarm(k) PROVE TypeOK'
    BY <1>4 DEF InvalidateWarm, TypeOK, graph, history, callVars
  <1>5. ASSUME NEW c \in Calls, NEW k \in Keys, Begin(c, k) PROVE TypeOK'
    BY <1>5 DEF Begin, Goto, TypeOK, graph, caches, published
  <1>6. ASSUME NEW c \in Calls, Gate(c) \/ Ask(c) PROVE TypeOK'
    <2>1. CASE Gate(c)
      BY <2>1 DEF Gate, Goto, TypeOK, graph, history, caches
    <2>2. CASE Ask(c)
      <3>1. Shared(c) \in Calls /\ (Shared(c) # c => atAsk[Shared(c)] \in Nat)
        BY DEF Shared, TypeOK
      <3>2. published \in Nat
        BY DEF published, TypeOK
      <3> QED
        BY <2>2, <3>1, <3>2 DEF Ask, Goto, TypeOK, graph, caches
    <2> QED
      BY <1>6, <2>1, <2>2
  <1>7. ASSUME NEW c \in Calls, FreshnessRead(c) PROVE TypeOK'
    BY <1>7 DEF FreshnessRead, TypeOK, graph, history, caches
  <1>8. ASSUME NEW c \in Calls, FreshnessArrives(c) PROVE TypeOK'
    BY <1>0, <1>8 DEF FreshnessArrives, Settle, Sharing, ForgetCalls, Forget, TypeOK, graph, caches
  <1>9. ASSUME NEW c \in Calls, FreshnessFails(c) PROVE TypeOK'
    BY <1>0, <1>9 DEF FreshnessFails, Settle, Sharing, ForgetCalls, Forget, TypeOK, graph, caches
  <1>10. ASSUME NEW c \in Calls, CallFails(c) PROVE TypeOK'
    BY <1>0, <1>10 DEF CallFails, Goto, TypeOK, graph, history, caches
  <1>11. ASSUME NEW c \in Calls, HotHit(c) PROVE TypeOK'
    BY <1>0, <1>11 DEF HotHit, Matches, Return, Goto, Entries, TypeOK, graph, history, caches
  <1>12. ASSUME NEW c \in Calls, HotMiss(c) PROVE TypeOK'
    BY <1>12 DEF HotMiss, Hold, Goto, TypeOK, graph, history
  <1>13. ASSUME NEW c \in Calls, WarmGet(c) PROVE TypeOK'
    <2>1. \A e \in Entries : e.value \in Nat
      BY DEF Entries
    <2>2. \A k \in Keys : warm[k] # None => warm[k].value \in Nat
      BY <2>1 DEF TypeOK
    <2>3. PICK v \in Nat \cup {None} : Hold(c, "warmed", v, copy[c])
      BY <1>13, <2>2 DEF WarmGet, Matches, TypeOK
    <2> QED
      BY <1>13, <2>3, HoldTypeOK DEF WarmGet, caches, TypeOK
  <1>14. ASSUME NEW c \in Calls, PromoteWarm(c) PROVE TypeOK'
    <2>1. /\ pc[c] = "warmed" /\ value[c] \in Nat /\ Return(c, "answered", value[c])
          /\ UNCHANGED <<graph, history, warm, cold, memo, inFlight>>
      BY <1>14 DEF PromoteWarm, TypeOK
    <2>2. hot' \in [Servers -> [Keys -> Entries \cup {None}]]
      BY <1>14, <2>1, AtWork, EntryType DEF PromoteWarm, SetHot, TypeOK
    <2> QED
      BY <2>1, <2>2, ReturnTypeOK DEF TypeOK
  <1>15. ASSUME NEW c \in Calls, PromoteCold(c) PROVE TypeOK'
    <2>0. pc[c] = "warmed" /\ UNCHANGED <<graph, history, warm, cold, memo, inFlight>>
      BY <1>15 DEF PromoteCold
    <2>1. cold[key[c]].value \in Nat
      <3>1. key[c] \in Keys
        BY <2>0, AtWork
      <3>2. cold[key[c]] \in Entries
        BY <1>15, <3>1 DEF PromoteCold, Matches, TypeOK
      <3> QED
        BY <3>2 DEF Entries
    <2>2. hot' \in [Servers -> [Keys -> Entries \cup {None}]]
      BY <1>15, <2>0, <2>1, AtWork, EntryType DEF PromoteCold, SetHot, TypeOK
    <2>3. Return(c, "answered", cold[key[c]].value)
      BY <1>15 DEF PromoteCold
    <2> QED
      BY <2>0, <2>1, <2>2, <2>3, ReturnTypeOK DEF TypeOK
  <1>16. ASSUME NEW c \in Calls, ColdMiss(c) PROVE TypeOK'
    <2>1. /\ copy[c] \in [Keys -> Entries \cup {None}]
          /\ [cold EXCEPT ![key[c]] = None] \in [Keys -> Entries \cup {None}]
          /\ cold' \in [Keys -> Entries \cup {None}]
          /\ warm' \in [Keys -> Entries \cup {None}]
          /\ hot' \in [Servers -> [Keys -> Entries \cup {None}]]
          /\ memo' \in [Servers -> [Keys -> Nat \cup {None}]]
      BY <1>0, <1>16 DEF ColdMiss, WriteStore, TypeOK
    <2>2. PICK l \in {"produce", "write"}, store \in [Keys -> Entries \cup {None}] :
            Hold(c, l, None, store)
      BY <1>16, <2>1 DEF ColdMiss, WriteStore
    <2>3. pc[c] = "warmed" /\ UNCHANGED <<graph, history, inFlight>>
      BY <1>16 DEF ColdMiss
    <2> QED
      BY <2>1, <2>2, <2>3, HoldTypeOK
  <1>17. ASSUME NEW c \in Calls, MemoHit(c) \/ QueryGraph(c) PROVE TypeOK'
    <2>0. key[c] \in Keys
      BY <1>17, AtWork DEF MemoHit, QueryGraph
    <2>1. PICK v \in Nat : Hold(c, "produced", v, copy[c])
      BY <1>17, <2>0 DEF MemoHit, QueryGraph, TypeOK
    <2>2. /\ copy[c] \in [Keys -> Entries \cup {None}]
          /\ cold' \in [Keys -> Entries \cup {None}]
          /\ warm' \in [Keys -> Entries \cup {None}]
          /\ hot' \in [Servers -> [Keys -> Entries \cup {None}]]
          /\ memo' \in [Servers -> [Keys -> Nat \cup {None}]]
      BY <1>17 DEF MemoHit, QueryGraph, caches, TypeOK
    <2>3. pc[c] = "produce" /\ UNCHANGED <<graph, history, inFlight>>
      BY <1>17 DEF MemoHit, QueryGraph
    <2> QED
      BY <2>1, <2>2, <2>3, HoldTypeOK
  <1>18. ASSUME NEW c \in Calls, SetHotTier(c) PROVE TypeOK'
    <2>1. /\ pc[c] = "produced" /\ Hold(c, "warmSet", value[c], copy[c])
          /\ UNCHANGED <<graph, history, warm, cold, inFlight>>
      BY <1>18 DEF SetHotTier
    <2>2. key[c] \in Keys /\ value[c] \in Nat /\ read[c] \in Stamps
      BY <2>1, AtWork
    <2>3. /\ hot' \in [Servers -> [Keys -> Entries \cup {None}]]
          /\ warm' \in [Keys -> Entries \cup {None}]
          /\ memo' \in [Servers -> [Keys -> Nat \cup {None}]]
      BY <1>18, <2>2, EntryType DEF SetHotTier, SetHot, TypeOK
    <2> QED
      BY <2>1, <2>2, <2>3, HoldTypeOK DEF TypeOK
  <1>19. ASSUME NEW c \in Calls, SetWarmTier(c) PROVE TypeOK'
    <2>1. /\ pc[c] = "warmSet" /\ Hold(c, "coldSet", value[c], copy[c])
          /\ UNCHANGED <<graph, history, hot, cold, memo, inFlight>>
      BY <1>19 DEF SetWarmTier
    <2>2. key[c] \in Keys /\ value[c] \in Nat /\ read[c] \in Stamps
      BY <2>1, AtWork
    <2>3. /\ hot' \in [Servers -> [Keys -> Entries \cup {None}]]
          /\ warm' \in [Keys -> Entries \cup {None}]
          /\ memo' \in [Servers -> [Keys -> Nat \cup {None}]]
      BY <1>19, <2>2, EntryType DEF SetWarmTier, SetHot, TypeOK
    <2> QED
      BY <2>1, <2>2, <2>3, HoldTypeOK DEF TypeOK
  <1>20. ASSUME NEW c \in Calls, SetColdTier(c) PROVE TypeOK'
    <2> DEFINE store == [cold EXCEPT ![key[c]] = [stamp |-> read[c], value |-> value[c]]]
    <2>1. /\ pc[c] = "coldSet" /\ Hold(c, "write", value[c], store) /\ cold' = NoEntries
          /\ UNCHANGED <<graph, history, hot, warm, memo, inFlight>>
      BY <1>20 DEF SetColdTier, WriteStore
    <2>2. key[c] \in Keys /\ value[c] \in Nat /\ read[c] \in Stamps
      BY <2>1, AtWork
    <2>3. store \in [Keys -> Entries \cup {None}]
      BY <2>2, EntryType DEF TypeOK
    <2> HIDE DEF store
    <2> QED
      BY <1>0, <2>1, <2>2, <2>3, HoldTypeOK DEF TypeOK
  <1>21. ASSUME NEW c \in Calls, WriteFile(c) PROVE TypeOK'
    <2>1. /\ cold' \in [Keys -> Entries \cup {None}]
          /\ warm' \in [Keys -> Entries \cup {None}]
          /\ hot' \in [Servers -> [Keys -> Entries \cup {None}]]
          /\ memo' \in [Servers -> [Keys -> Nat \cup {None}]]
      BY <1>21 DEF WriteFile, TypeOK
    <2>2. pc[c] = "write" /\ UNCHANGED <<graph, history, inFlight>>
      BY <1>21 DEF WriteFile
    <2>3. CASE value[c] = None
      BY <1>0, <1>21, <2>1, <2>2, <2>3, HoldTypeOK DEF WriteFile
    <2>4. CASE value[c] # None
      <3>1. value[c] \in Nat /\ Return(c, "answered", value[c])
        BY <1>21, <2>4 DEF WriteFile, TypeOK
      <3> QED
        BY <2>1, <2>2, <3>1, ReturnTypeOK
    <2> QED
      BY <2>3, <2>4
  <1>22. ASSUME NEW s \in Servers, Restart(s) PROVE TypeOK'
    <2>1. WarmUp[s] \in Calls /\ WarmUp[s] \in WarmUps /\ published \in Nat
      BY WarmUpType DEF published, TypeOK
    <2>2. \A c \in Calls : /\ pc'[c] = IF c = WarmUp[s] THEN "fresh"
                                      ELSE IF ServerOf[c] = s THEN "idle" ELSE pc[c]
                           /\ source'[c] = IF c = WarmUp[s] THEN c
                                          ELSE IF ServerOf[c] = s THEN None ELSE source[c]
                           /\ reply'[c] = IF ServerOf[c] = s THEN None ELSE reply[c]
                           /\ read'[c] = IF ServerOf[c] = s THEN None ELSE read[c]
                           /\ value'[c] = IF ServerOf[c] = s THEN None ELSE value[c]
                           /\ key'[c] = IF ServerOf[c] = s THEN None ELSE key[c]
                           /\ c \in failing' <=> c = WarmUp[s] \/ (c \in failing /\ ServerOf[c] # s)
      BY <1>22, WarmUpType DEF Restart, Forget
    <2>3. /\ pc' \in [Calls -> Status] /\ source' \in [Calls -> Calls \cup {None}]
          /\ reply' \in [Calls -> Stamps \cup {None}] /\ read' \in [Calls -> Stamps \cup {None}]
          /\ value' \in [Calls -> Nat \cup {None}] /\ key' \in [Calls -> Keys \cup {None}]
          /\ failing' \subseteq Calls
      BY <1>22, <2>1 DEF Restart, Forget, TypeOK, Status
    <2>4. /\ copy' \in [Calls -> [Keys -> Entries \cup {None}]]
          /\ atBegin' \in [Calls -> Nat] /\ atAsk' \in [Calls -> Nat]
          /\ inFlight' \in [Servers -> Calls \cup {None}]
          /\ hot' \in [Servers -> [Keys -> Entries \cup {None}]]
          /\ memo' \in [Servers -> [Keys -> Nat \cup {None}]]
      BY <1>0, <1>22, <2>1 DEF Restart, Forget, TypeOK
    <2>5. \A c \in Calls : ServerOf[c] # s => c # WarmUp[s]
      BY WarmUpType
    <2>6. ASSUME NEW c \in Calls
          PROVE  /\ pc'[c] \notin {"idle", "fresh"} => key'[c] \in Keys /\ c \notin WarmUps
                 /\ pc'[c] = "fresh" => IF c \in WarmUps THEN source'[c] = c /\ c \in failing'
                                        ELSE key'[c] \in Keys /\ source'[c] \in Calls
                 /\ reply'[c] # None => pc'[c] = "fresh" /\ source'[c] = c
                 /\ pc'[c] \in Reading \cup Storing \cup Blocking => read'[c] \in Stamps
                 /\ pc'[c] \in Storing \cup {"answered"} => value'[c] \in Nat
      <3>1. CASE c = WarmUp[s]
        <4>1. pc'[c] = "fresh" /\ source'[c] = c /\ c \in failing' /\ reply'[c] = None
          BY <2>1, <2>2, <2>5, <3>1
        <4> QED
          BY <2>1, <3>1, <4>1
      <3>2. CASE c # WarmUp[s] /\ ServerOf[c] = s
        <4>1. pc'[c] = "idle" /\ reply'[c] = None
          BY <2>2, <3>2
        <4> QED
          BY <4>1
      <3>3. CASE ServerOf[c] # s
        <4>1. /\ pc'[c] = pc[c] /\ source'[c] = source[c] /\ reply'[c] = reply[c]
              /\ read'[c] = read[c] /\ value'[c] = value[c] /\ key'[c] = key[c]
              /\ c \in failing' <=> c \in failing
          BY <2>2, <2>5, <3>3
        <4> QED
          BY <4>1 DEF TypeOK
      <3> QED
        BY <3>1, <3>2, <3>3
    <2> QED
      BY <1>22, <2>3, <2>4, <2>6 DEF Restart, TypeOK, graph, Status
  <1>23. CASE UNCHANGED vars
    BY <1>23 DEF vars, TypeOK, graph, history, caches, callVars
  <1> QED
    BY <1>1, <1>2, <1>3, <1>4, <1>5, <1>6, <1>7, <1>8, <1>9, <1>10, <1>11, <1>12, <1>13, <1>14,
       <1>15, <1>16, <1>17, <1>18, <1>19, <1>20, <1>21, <1>22, <1>23
    DEF Next, CallStep

\* Type correctness, with what the locals hold at each await: a call that
\* reads a tier has a stamp, one that stores has an answer.
THEOREM Typing == Spec => []TypeOK
  BY InitTypeOK, NextTypeOK, PTL DEF Spec

-----------------------------------------------------------------------------
(* Freshness queries.                                                      *)

\* A step of a call that awaits no freshness query before it or after it.
Elsewhere(c) ==
    /\ pc[c] # "fresh" /\ pc'[c] # "fresh"
    /\ UNCHANGED inFlight
    /\ \A d \in Calls \ {c} : pc'[d] = pc[d] /\ source'[d] = source[d]

\* A call joins a query or sends one.
Asks(c) ==
    /\ pc[c] = "ask"
    /\ pc' = [pc EXCEPT ![c] = "fresh"]
    /\ source' = [source EXCEPT ![c] = Shared(c)]
    /\ inFlight' = [inFlight EXCEPT ![ServerOf[c]] = Shared(c)]

\* The query of a call settles.
Lands(c) ==
    /\ source[c] = c
    /\ pc[c] = "fresh"
    /\ inFlight' = [inFlight EXCEPT ![ServerOf[c]] = None]
    /\ \A d \in Calls : IF d \in Sharing(c) THEN pc'[d] # "fresh"
                         ELSE pc'[d] = pc[d] /\ source'[d] = source[d]

\* A server loses its query with its calls, and sends another.
Drops(s) ==
    /\ inFlight' = [inFlight EXCEPT ![s] = WarmUp[s]]
    /\ \A d \in Calls : IF d = WarmUp[s] THEN pc'[d] = "fresh" /\ source'[d] = d
                         ELSE IF ServerOf[d] = s THEN pc'[d] # "fresh"
                         ELSE pc'[d] = pc[d] /\ source'[d] = source[d]

\* What a step can do to the queries in flight.
LEMMA FlightSteps ==
  ASSUME TypeOK, [Next]_vars
  PROVE  \/ UNCHANGED <<pc, source, inFlight>>
         \/ \E c \in Calls : Elsewhere(c) \/ Asks(c) \/ Lands(c)
         \/ \E s \in Servers : Drops(s)
  <1> DEFINE Goal == \/ UNCHANGED <<pc, source, inFlight>>
                     \/ \E c \in Calls : Elsewhere(c) \/ Asks(c) \/ Lands(c)
                     \/ \E s \in Servers : Drops(s)
  <1> USE DEF Resting
  <1>1. CASE WriteGraph \/ ClearMeta
    BY <1>1 DEF WriteGraph, ClearMeta, Publish, callVars
  <1>2. CASE \E i \in Instants : SetIndexedNow(i) \/ InitSchema(i) \/ IngestSpan(i)
    BY <1>2 DEF SetIndexedNow, InitSchema, IngestSpan, Publish, callVars
  <1>3. ASSUME NEW k \in Keys, InvalidateWarm(k) PROVE Goal
    BY <1>3 DEF InvalidateWarm, callVars
  <1>4. ASSUME NEW c \in Calls, NEW k \in Keys, Begin(c, k) PROVE Goal
    <2>1. Elsewhere(c)
      BY <1>4 DEF Begin, Goto, Elsewhere, TypeOK
    <2> QED
      BY <2>1
  <1>5. ASSUME NEW c \in Calls, Gate(c) \/ Ask(c) PROVE Goal
    <2>1. Elsewhere(c) \/ Asks(c)
      BY <1>5 DEF Gate, Ask, Asks, Goto, Elsewhere, TypeOK
    <2> QED
      BY <2>1
  <1>6. ASSUME NEW c \in Calls, FreshnessRead(c) PROVE Goal
    BY <1>6 DEF FreshnessRead
  <1>7. ASSUME NEW c \in Calls, FreshnessArrives(c) \/ FreshnessFails(c) PROVE Goal
    <2>1. Lands(c)
      BY <1>7 DEF FreshnessArrives, FreshnessFails, Settle, Sharing, Forget, Lands, TypeOK
    <2> QED
      BY <2>1
  <1>8. ASSUME NEW c \in Calls, CallFails(c) PROVE Goal
    <2>1. Elsewhere(c)
      BY <1>8 DEF CallFails, Goto, Elsewhere, TypeOK
    <2> QED
      BY <2>1
  <1>9. ASSUME NEW c \in Calls,
               HotHit(c) \/ HotMiss(c) \/ WarmGet(c) \/ PromoteWarm(c) \/ PromoteCold(c)
        PROVE Goal
    <2>1. Elsewhere(c)
      BY <1>9 DEF HotHit, HotMiss, WarmGet, PromoteWarm, PromoteCold, Return, Hold, Goto,
                  Elsewhere, TypeOK
    <2> QED
      BY <2>1
  <1>10. ASSUME NEW c \in Calls,
                ColdMiss(c) \/ MemoHit(c) \/ QueryGraph(c) \/ SetHotTier(c) \/ SetWarmTier(c)
                  \/ SetColdTier(c) \/ WriteFile(c)
         PROVE Goal
    <2>1. Elsewhere(c)
      BY <1>10 DEF ColdMiss, MemoHit, QueryGraph, SetHotTier, SetWarmTier, SetColdTier, WriteFile,
                   WriteStore, Return, Hold, Goto, Elsewhere, TypeOK
    <2> QED
      BY <2>1
  <1>11. ASSUME NEW s \in Servers, Restart(s) PROVE Goal
    <2>1. Drops(s)
      BY <1>11, WarmUpType DEF Restart, Forget, Drops, TypeOK
    <2> QED
      BY <2>1
  <1>12. CASE UNCHANGED vars
    BY <1>12 DEF vars, callVars
  <1> QED
    BY <1>1, <1>2, <1>3, <1>4, <1>5, <1>6, <1>7, <1>8, <1>9, <1>10, <1>11, <1>12 DEF Next, CallStep

\* The invariant about queries in flight is inductive.
LEMMA FlightStep ==
  ASSUME TypeOK, TypeOK', OneQueryInFlight, FlightsLand, [Next]_vars
  PROVE  (OneQueryInFlight /\ FlightsLand)'
  <1> DEFINE Inv == OneQueryInFlight /\ FlightsLand
  <1> USE DEF OneQueryInFlight, FlightsLand
  <1>0. /\ ServerOf \in [Calls -> Servers]
        /\ None \notin Calls
        /\ source \in [Calls -> Calls \cup {None}]
        /\ inFlight \in [Servers -> Calls \cup {None}]
        /\ \A c \in Calls : pc[c] = "fresh" => source[c] \in Calls
    BY DEF TypeOK
  <1>1. CASE UNCHANGED <<pc, source, inFlight>>
    BY <1>1
  <1>2. ASSUME NEW c \in Calls, Elsewhere(c) PROVE Inv'
    BY <1>0, <1>2 DEF Elsewhere
  <1>3. ASSUME NEW c \in Calls, Asks(c) PROVE Inv'
    BY <1>0, <1>3 DEF Asks, Shared, TypeOK
  <1>4. ASSUME NEW c \in Calls, Lands(c) PROVE Inv'
    BY <1>0, <1>4 DEF Lands, Sharing
  <1>5. ASSUME NEW s \in Servers, Drops(s) PROVE Inv'
    BY <1>0, <1>5 DEF Drops
  <1> QED
    BY <1>1, <1>2, <1>3, <1>4, <1>5, FlightSteps

\* At most one freshness query per server is under way, and every call that
\* awaits one awaits a query that will settle: no call is left behind.
THEOREM SharedQueries == Spec => []OneQueryInFlight
  <1>1. Init => OneQueryInFlight /\ FlightsLand
    BY WarmUpType DEF Init, OneQueryInFlight, FlightsLand
  <1>2. TypeOK /\ TypeOK' /\ OneQueryInFlight /\ FlightsLand /\ [Next]_vars
          => (OneQueryInFlight /\ FlightsLand)'
    BY FlightStep
  <1> QED
    BY <1>1, <1>2, Typing, PTL DEF Spec

-----------------------------------------------------------------------------
(* Calls come to an end.                                                   *)

\* Nothing happens to a call, nor to the query it awaits.
Undisturbed(c) ==
    /\ pc'[c] = pc[c] /\ source'[c] = source[c] /\ value'[c] = value[c]
    /\ c \in failing' <=> c \in failing
    /\ pc[c] = "fresh" => reply'[source[c]] = reply[source[c]]

\* Then it has as many steps left as before.
LEMMA UndisturbedLeft ==
  ASSUME NEW c \in Calls, Undisturbed(c)
  PROVE  StepsLeft(c)' = StepsLeft(c)
  BY DEF Undisturbed, StepsLeft

\* Every await but the resting ones leaves a step to take.
LEMMA LeftIsPositive ==
  ASSUME TypeOK, NEW c \in Calls
  PROVE  /\ StepsLeft(c) \in Nat
         /\ pc[c] \notin Resting => StepsLeft(c) > 0
  BY DEF TypeOK, StepsLeft, Resting, Asking, Reading, Storing, Blocking

\* A call that awaits no query has no answer of one.
LEMMA NoReplyElsewhere ==
  ASSUME TypeOK, NEW c \in Calls, pc[c] # "fresh"
  PROVE  reply[c] = None
  BY DEF TypeOK

\* When a query settles, whoever awaits it is nearer to the end: with an
\* answer, with an error, or done.
LEMMA SettlingShortens ==
  ASSUME TypeOK, NEW o \in Calls, FreshnessArrives(o) \/ FreshnessFails(o),
         NEW c \in Sharing(o)
  PROVE  StepsLeft(c)' < StepsLeft(c)
  <1>1. c \in Calls /\ pc[c] = "fresh" /\ source[c] = o
    BY DEF Sharing
  <1>2. StepsLeft(c) \in {IF c \in failing THEN 1 ELSE 13, IF c \in failing THEN 2 ELSE 14}
    BY <1>1 DEF StepsLeft
  <1>3. CASE c \in failing
    <2>1. pc'[c] = "idle"
      BY <1>1, <1>3 DEF FreshnessArrives, FreshnessFails, Settle, TypeOK
    <2>2. StepsLeft(c)' = 0
      BY <2>1 DEF StepsLeft
    <2> QED
      BY <1>2, <1>3, <2>2
  <1>4. CASE c \notin failing /\ FreshnessArrives(o)
    <2>1. pc'[c] = "hot"
      BY <1>1, <1>4 DEF FreshnessArrives, Settle, TypeOK
    <2>2. StepsLeft(c)' = 12
      BY <2>1 DEF StepsLeft
    <2> QED
      BY <1>2, <1>4, <2>2
  <1>5. CASE c \notin failing /\ FreshnessFails(o)
    <2>1. pc'[c] = "ask" /\ c \in failing'
      BY <1>1, <1>5 DEF FreshnessFails, Settle, TypeOK
    <2>2. StepsLeft(c)' = 3
      BY <2>1 DEF StepsLeft
    <2> QED
      BY <1>2, <1>5, <2>2
  <1> QED
    BY <1>3, <1>4, <1>5

\* A failure leaves a call only its catch block.
LEMMA FailingShortens ==
  ASSUME TypeOK, NEW c \in Calls, CallFails(c)
  PROVE  StepsLeft(c)' < StepsLeft(c)
  <1>1. pc'[c] = "ask" /\ c \in failing'
    BY DEF CallFails, Goto, TypeOK
  <1>2. StepsLeft(c)' = 3
    BY <1>1 DEF StepsLeft
  <1>3. StepsLeft(c) > 3
    BY DEF CallFails, StepsLeft
  <1> QED
    BY <1>2, <1>3, LeftIsPositive

\* A step of the call's own takes at least one off.
LEMMA CallStepShortens ==
  ASSUME TypeOK, NEW c \in Calls, CallStep(c)
  PROVE  StepsLeft(c)' < StepsLeft(c)
  <1>1. CASE Gate(c)
    <2>1. pc[c] = "gate" /\ pc'[c] = "ask"
      BY <1>1 DEF Gate, Goto, TypeOK
    <2> QED
      BY <2>1 DEF StepsLeft
  <1>2. CASE Ask(c)
    <2>1. pc[c] = "ask" /\ pc'[c] = "fresh" /\ failing' = failing
      BY <1>2 DEF Ask, Goto, TypeOK
    <2> QED
      BY <2>1 DEF StepsLeft
  <1>3. CASE FreshnessRead(c)
    <2>1. /\ pc[c] = "fresh" /\ pc'[c] = "fresh" /\ failing' = failing
          /\ source[c] = c /\ source'[c] = c
          /\ reply[c] = None /\ reply'[c] # None
      BY <1>3, EntryAssumption DEF FreshnessRead, TypeOK
    <2> QED
      BY <2>1 DEF StepsLeft
  <1>4. CASE FreshnessArrives(c)
    <2>1. c \in Sharing(c)
      BY <1>4 DEF FreshnessArrives, Sharing, TypeOK
    <2> QED
      BY <1>4, <2>1, SettlingShortens
  <1>5. CASE HotHit(c) \/ HotMiss(c)
    <2>1. pc[c] = "hot" /\ pc'[c] \in {"answered", "warm"}
      BY <1>5 DEF HotHit, HotMiss, Return, Hold, Goto, TypeOK
    <2> QED
      BY <2>1 DEF StepsLeft
  <1>6. CASE WarmGet(c)
    <2>1. pc[c] = "warm" /\ pc'[c] = "warmed"
      BY <1>6 DEF WarmGet, Hold, Goto, TypeOK
    <2> QED
      BY <2>1 DEF StepsLeft
  <1>7. CASE PromoteWarm(c) \/ PromoteCold(c) \/ ColdMiss(c)
    <2>1. /\ pc[c] = "warmed"
          /\ \/ pc'[c] \in {"answered", "produce"}
             \/ pc'[c] = "write" /\ value'[c] = None
      BY <1>7 DEF PromoteWarm, PromoteCold, ColdMiss, WriteStore, Return, Hold, Goto, TypeOK
    <2> QED
      BY <2>1 DEF StepsLeft
  <1>8. CASE MemoHit(c) \/ QueryGraph(c)
    <2>1. pc[c] = "produce" /\ pc'[c] = "produced"
      BY <1>8 DEF MemoHit, QueryGraph, Hold, Goto, TypeOK
    <2> QED
      BY <2>1 DEF StepsLeft
  <1>9. CASE SetHotTier(c) \/ SetWarmTier(c)
    <2>1. <<pc[c], pc'[c]>> \in {<<"produced", "warmSet">>, <<"warmSet", "coldSet">>}
      BY <1>9 DEF SetHotTier, SetWarmTier, Hold, Goto, TypeOK
    <2> QED
      BY <2>1 DEF StepsLeft
  <1>10. CASE SetColdTier(c)
    <2>1. pc[c] = "coldSet" /\ pc'[c] = "write" /\ value'[c] # None
      BY <1>10 DEF SetColdTier, WriteStore, Hold, Goto, TypeOK, Storing
    <2> QED
      BY <2>1 DEF StepsLeft
  <1>11. CASE WriteFile(c)
    <2>1. /\ pc[c] = "write"
          /\ pc'[c] = IF value[c] = None THEN "produce" ELSE "answered"
      BY <1>11 DEF WriteFile, Return, Hold, Goto, TypeOK
    <2> QED
      BY <2>1 DEF StepsLeft
  <1> QED
    BY <1>1, <1>2, <1>3, <1>4, <1>5, <1>6, <1>7, <1>8, <1>9, <1>10, <1>11 DEF CallStep

\* Whatever happens, a call under way is untouched or nearer to its end.
LEMMA NoCallProlonged ==
  ASSUME TypeOK, OneQueryInFlight, [Next]_vars, NEW c \in Clients, pc[c] \notin Resting
  PROVE  Undisturbed(c) \/ StepsLeft(c)' < StepsLeft(c)
  <1> DEFINE Goal == Undisturbed(c) \/ StepsLeft(c)' < StepsLeft(c)
  <1>0. pc[c] = "fresh" => source[c] \in Calls /\ pc[source[c]] = "fresh"
    BY DEF TypeOK, OneQueryInFlight
  <1>1. CASE \/ WriteGraph \/ ClearMeta \/ UNCHANGED vars
             \/ \E i \in Instants : SetIndexedNow(i) \/ InitSchema(i) \/ IngestSpan(i)
             \/ \E k \in Keys : InvalidateWarm(k)
    <2>1. UNCHANGED callVars
      BY <1>1 DEF WriteGraph, ClearMeta, SetIndexedNow, InitSchema, IngestSpan, Publish,
                  InvalidateWarm, vars
    <2> QED
      BY <2>1 DEF callVars, Undisturbed
  <1>2. ASSUME NEW d \in Calls, NEW k \in Keys, Begin(d, k) PROVE Goal
    <2>1. d # c
      BY <1>2 DEF Begin
    <2> QED
      BY <1>2, <2>1 DEF Begin, Goto, Undisturbed, TypeOK
  <1>3. ASSUME NEW d \in Calls, d # c, CallFails(d) PROVE Goal
    BY <1>3 DEF CallFails, Goto, Undisturbed, TypeOK
  <1>4. ASSUME NEW d \in Calls, d # c, Gate(d) \/ Ask(d) PROVE Goal
    BY <1>4 DEF Gate, Ask, Goto, Undisturbed, TypeOK
  <1>5. ASSUME NEW d \in Calls, d # c, FreshnessRead(d) PROVE Goal
    <2>1. /\ UNCHANGED <<pc, source, value, failing>>
          /\ reply' = [reply EXCEPT ![d] = stamp]
          /\ reply[d] = None /\ stamp # None
      BY <1>5, EntryAssumption DEF FreshnessRead, TypeOK
    <2>2. CASE pc[c] = "fresh" /\ source[c] = d
      <3>1. reply'[d] # None
        BY <2>1 DEF TypeOK
      <3> QED
        BY <2>1, <2>2, <3>1 DEF StepsLeft
    <2>3. CASE ~(pc[c] = "fresh" /\ source[c] = d)
      BY <1>0, <2>1, <2>3 DEF Undisturbed, TypeOK
    <2> QED
      BY <2>2, <2>3
  <1>6. ASSUME NEW d \in Calls, FreshnessArrives(d) \/ FreshnessFails(d) PROVE Goal
    <2>1. CASE c \in Sharing(d)
      BY <1>6, <2>1, SettlingShortens
    <2>2. CASE c \notin Sharing(d)
      <3>1. pc'[c] = pc[c] /\ source'[c] = source[c] /\ value'[c] = value[c]
        BY <1>6, <2>2 DEF FreshnessArrives, FreshnessFails, Settle, Forget, ForgetCalls, TypeOK
      <3>2. c \in failing' <=> c \in failing
        BY <1>6, <2>2 DEF FreshnessArrives, FreshnessFails
      <3>3. pc[c] = "fresh" => reply'[source[c]] = reply[source[c]]
        BY <1>0, <1>6, <2>2 DEF FreshnessArrives, FreshnessFails, Settle, Sharing, TypeOK
      <3> QED
        BY <3>1, <3>2, <3>3 DEF Undisturbed
    <2> QED
      BY <2>1, <2>2
  <1>7. ASSUME NEW d \in Calls, d # c,
               \/ HotHit(d) \/ HotMiss(d) \/ WarmGet(d) \/ PromoteWarm(d) \/ PromoteCold(d)
               \/ ColdMiss(d) \/ MemoHit(d) \/ QueryGraph(d) \/ SetHotTier(d) \/ SetWarmTier(d)
               \/ SetColdTier(d) \/ WriteFile(d)
        PROVE Goal
    <2>1. pc[d] # "fresh" /\ reply[d] = None
      BY <1>7, NoReplyElsewhere
      DEF HotHit, HotMiss, WarmGet, PromoteWarm, PromoteCold, ColdMiss, MemoHit, QueryGraph,
          SetHotTier, SetWarmTier, SetColdTier, WriteFile
    <2>2. /\ pc'[c] = pc[c] /\ source'[c] = source[c] /\ value'[c] = value[c]
          /\ c \in failing' <=> c \in failing
      BY <1>7
      DEF HotHit, HotMiss, WarmGet, PromoteWarm, PromoteCold, ColdMiss, MemoHit, QueryGraph,
          SetHotTier, SetWarmTier, SetColdTier, WriteFile, WriteStore, Hold, Return, Goto, TypeOK
    <2>3. reply' = reply
      BY <1>7, <2>1
      DEF HotHit, HotMiss, WarmGet, PromoteWarm, PromoteCold, ColdMiss, MemoHit, QueryGraph,
          SetHotTier, SetWarmTier, SetColdTier, WriteFile, WriteStore, Hold, Return, TypeOK
    <2> QED
      BY <2>2, <2>3 DEF Undisturbed
  <1>8. ASSUME NEW s \in Servers, Restart(s) PROVE Goal
    <2>1. CASE ServerOf[c] = s
      <3>1. pc'[c] = "idle"
        BY <1>8, <2>1, WarmUpType DEF Restart, Forget
      <3>2. StepsLeft(c)' = 0
        BY <3>1 DEF StepsLeft
      <3> QED
        BY <3>2, LeftIsPositive
    <2>2. CASE ServerOf[c] # s
      <3>1. pc'[c] = pc[c] /\ source'[c] = source[c] /\ value'[c] = value[c]
        BY <1>8, <2>2 DEF Restart, Forget, ForgetCalls
      <3>2. c \in failing' <=> c \in failing
        BY <1>8, <2>2 DEF Restart
      <3>3. pc[c] = "fresh" => reply'[source[c]] = reply[source[c]]
        BY <1>0, <1>8, <2>2 DEF Restart, Forget, OneQueryInFlight
      <3> QED
        BY <3>1, <3>2, <3>3 DEF Undisturbed
    <2> QED
      BY <2>1, <2>2
  <1>9. ASSUME CallStep(c) \/ CallFails(c) PROVE Goal
    BY <1>9, CallStepShortens, FailingShortens
  <1> QED
    BY <1>1, <1>2, <1>3, <1>4, <1>5, <1>6, <1>7, <1>8, <1>9 DEF Next, CallStep

\* Calls have a bounded way to their end, which no failure, no other call and
\* no restart makes longer; that they go it is what fairness is needed for.
THEOREM ShortCalls == Spec => CallsAreShort
  <1>1. ASSUME TypeOK, OneQueryInFlight, [Next]_vars, NEW c \in Clients, pc[c] \notin Resting
        PROVE  /\ StepsLeft(c)' <= StepsLeft(c)
               /\ CallStep(c) \/ pc'[c] # pc[c] => StepsLeft(c)' < StepsLeft(c)
    <2>1. StepsLeft(c) \in Nat /\ StepsLeft(c)' \in Nat
      BY <1>1, LeftIsPositive, NextTypeOK DEF TypeOK, StepsLeft
    <2>2. CASE Undisturbed(c)
      BY <1>1, <2>1, <2>2, UndisturbedLeft, CallStepShortens DEF Undisturbed
    <2>3. CASE StepsLeft(c)' < StepsLeft(c)
      BY <2>1, <2>3
    <2> QED
      BY <1>1, <2>2, <2>3, NoCallProlonged
  <1>2. TypeOK /\ OneQueryInFlight /\ [Next]_vars
        => [\A c \in Clients : pc[c] \notin Resting =>
               /\ StepsLeft(c)' <= StepsLeft(c)
               /\ CallStep(c) \/ pc'[c] # pc[c] => StepsLeft(c)' < StepsLeft(c)]_vars
    BY <1>1
  <1> QED
    BY <1>2, Typing, SharedQueries, PTL DEF Spec, CallsAreShort

-----------------------------------------------------------------------------
(* Freshness of answers.                                                   *)

\* A step that changes neither the stamp nor what was published as what.
Unpublished == UNCHANGED <<stamp, publishedAs, reused>> /\ content' \in {content, content + 1}

\* Every step either publishes or leaves stamps alone.
LEMMA PublishSteps ==
  ASSUME TypeOK, [Next]_vars
  PROVE  Unpublished \/ \E s \in Stamps : Publish(s)
  <1>1. CASE WriteGraph
    BY <1>1 DEF WriteGraph, Unpublished, history
  <1>2. CASE ClearMeta
    BY <1>2 DEF ClearMeta, Unset, Stamps
  <1>3. CASE \E i \in Instants : SetIndexedNow(i) \/ InitSchema(i) \/ IngestSpan(i)
    BY <1>3, StampType DEF SetIndexedNow, InitSchema, IngestSpan, TypeOK
  <1>4. ASSUME NEW k \in Keys, InvalidateWarm(k) PROVE Unpublished
    BY <1>4 DEF InvalidateWarm, Unpublished, graph, history
  <1>5. ASSUME NEW c \in Calls, NEW k \in Keys, Begin(c, k) PROVE Unpublished
    BY <1>5 DEF Begin, Unpublished, graph
  <1>6. ASSUME NEW c \in Calls, CallStep(c) \/ CallFails(c) \/ FreshnessFails(c) PROVE Unpublished
    BY <1>6 DEF CallStep, Gate, Ask, FreshnessRead, FreshnessArrives, FreshnessFails, Settle,
                CallFails, HotHit, HotMiss, WarmGet, PromoteWarm, PromoteCold, ColdMiss, MemoHit,
                QueryGraph, SetHotTier, SetWarmTier, SetColdTier, WriteFile, Unpublished, graph,
                history
  <1>7. ASSUME NEW s \in Servers, Restart(s) PROVE Unpublished
    BY <1>7 DEF Restart, Unpublished, graph
  <1>8. CASE UNCHANGED vars
    BY <1>8 DEF vars, Unpublished, graph, history
  <1> QED
    BY <1>1, <1>2, <1>3, <1>4, <1>5, <1>6, <1>7, <1>8 DEF Next

\* What was published never gets less, and as long as no stamp comes back
\* each stamp keeps what it was set for.
LEMMA StampsKept ==
  ASSUME TypeOK, TypeOK', AskedInOrder, [Next]_vars
  PROVE  /\ published' >= published
         /\ ~reused' => /\ ~reused
                        /\ \A s \in Stamps : publishedAs[s] # None => publishedAs'[s] = publishedAs[s]
  BY PublishSteps DEF Unpublished, Publish, TypeOK, AskedInOrder, published

\* The history of queries is inductive: steps that touch it are those of the
\* queries themselves.
LEMMA AskedStep ==
  ASSUME TypeOK, TypeOK', OneQueryInFlight, FlightsLand, AskedInOrder, [Next]_vars
  PROVE  AskedInOrder'
  <1>0. /\ content \in Nat /\ published \in Nat /\ publishedAs \in [Stamps -> Nat \cup {None}]
        /\ atBegin \in [Calls -> Nat] /\ atAsk \in [Calls -> Nat]
        /\ stamp \in Stamps
    BY DEF TypeOK, published
  <1>1. /\ published' <= content'
        /\ \A s \in Stamps : publishedAs'[s] # None => publishedAs'[s] <= published'
    BY <1>0, PublishSteps DEF Unpublished, Publish, AskedInOrder, published
  <1>a. published' \in Nat /\ published' >= published
    <2>1. published' \in Nat
      BY DEF TypeOK, published
    <2> QED
      BY <2>1, StampsKept
  <1>b. \A c \in Calls : atBegin[c] <= published' /\ atAsk[c] <= published'
    BY <1>0, <1>a DEF AskedInOrder
  <1>c. \A c \in Calls : pc[c] = "fresh" => atAsk[c] = atAsk[source[c]]
    BY DEF AskedInOrder
  <1>d. /\ pc \in [Calls -> Status] /\ source \in [Calls -> Calls \cup {None}]
        /\ \A c \in Calls : pc[c] = "fresh" => source[c] \in Calls
    BY DEF TypeOK, Status
  <1> DEFINE Known == \A c \in Calls : atBegin'[c] <= published' /\ atAsk'[c] <= published'
             Joined == \A c \in Calls : pc'[c] = "fresh" => atAsk'[c] = atAsk'[source'[c]]
  <1>2. ASSUME UNCHANGED <<pc, source, atBegin, atAsk>> PROVE Known /\ Joined
    BY <1>2, <1>b, <1>c
  <1>3. ASSUME NEW c \in Calls, UNCHANGED <<atBegin, atAsk>>, Elsewhere(c) PROVE Known /\ Joined
    BY <1>3, <1>b, <1>c, <1>d DEF Elsewhere
  <1>4. ASSUME NEW c \in Calls, NEW k \in Keys, Begin(c, k) PROVE Known /\ Joined
    <2>1. \A d \in Calls : pc[d] = "fresh" => source[d] # c
      BY <1>4 DEF Begin, OneQueryInFlight, Resting
    <2>2. /\ pc' = [pc EXCEPT ![c] = "gate"] /\ source' = source
          /\ \E p \in {published} \cup {atAsk[d] : d \in Calls} : atBegin' = [atBegin EXCEPT ![c] = p]
          /\ atAsk' = [atAsk EXCEPT ![c] = 0]
      BY <1>4, WarmUpType DEF Begin, Goto
    <2>3. Known
      BY <1>0, <1>a, <1>b, <2>2
    <2>4. Joined
      BY <1>0, <1>c, <1>d, <2>1, <2>2
    <2> QED
      BY <2>3, <2>4
  <1>5. ASSUME NEW c \in Calls, Ask(c) PROVE Known /\ Joined
    <2>1. Shared(c) # c => pc[Shared(c)] = "fresh" /\ source[Shared(c)] = Shared(c)
      BY DEF Shared, FlightsLand, TypeOK
    <2>2. \A d \in Calls : pc[d] = "fresh" => source[d] # c
      BY <1>5 DEF Ask, OneQueryInFlight
    <2>3. Shared(c) \in Calls
      BY DEF Shared, TypeOK
    <2>4. /\ pc' = [pc EXCEPT ![c] = "fresh"]
          /\ source' = [source EXCEPT ![c] = Shared(c)]
          /\ atAsk' = [atAsk EXCEPT ![c] = IF Shared(c) = c THEN published ELSE atAsk[Shared(c)]]
          /\ atBegin' = atBegin
      BY <1>5 DEF Ask, Goto
    <2>5. Known
      BY <1>0, <1>a, <1>b, <2>3, <2>4
    <2>6. Joined
      BY <1>0, <1>c, <1>d, <2>1, <2>2, <2>3, <2>4
    <2> QED
      BY <2>5, <2>6
  <1>6. ASSUME NEW c \in Calls, FreshnessArrives(c) \/ FreshnessFails(c) PROVE Known /\ Joined
    <2>1. /\ atAsk' = Forget(Sharing(c) \cap failing, atAsk, 0)
          /\ atBegin' = Forget(Sharing(c) \cap failing, atBegin, 0)
          /\ \A d \in Calls : IF d \in Sharing(c) THEN pc'[d] # "fresh"
                               ELSE pc'[d] = pc[d] /\ source'[d] = source[d]
      BY <1>6 DEF FreshnessArrives, FreshnessFails, Settle, ForgetCalls, Forget, TypeOK, Sharing
    <2>2. Known
      BY <1>0, <1>a, <1>b, <2>1 DEF Forget
    <2>3. \A d \in Calls : pc[d] = "fresh" /\ d \notin Sharing(c)
            => source[d] \in Calls /\ source[d] \notin Sharing(c)
      BY DEF OneQueryInFlight, Sharing, TypeOK
    <2>4. Joined
      BY <1>0, <1>c, <1>d, <2>1, <2>3 DEF Forget
    <2> QED
      BY <2>2, <2>4
  <1>7. ASSUME NEW s \in Servers, Restart(s) PROVE Known /\ Joined
    <2> DEFINE gone == {c \in Calls : ServerOf[c] = s}
    <2>1. /\ atAsk' = [Forget(gone, atAsk, 0) EXCEPT ![WarmUp[s]] = published]
          /\ atBegin' = Forget(gone, atBegin, 0)
          /\ pc' = [Forget(gone, pc, "idle") EXCEPT ![WarmUp[s]] = "fresh"]
          /\ source' = [Forget(gone, source, None) EXCEPT ![WarmUp[s]] = WarmUp[s]]
          /\ WarmUp[s] \in gone
      BY <1>7 DEF Restart
    <2>2. Known
      BY <1>0, <1>a, <1>b, <2>1 DEF Forget
    <2>3. \A d \in Calls : pc[d] = "fresh" => source[d] \in Calls /\ ServerOf[source[d]] = ServerOf[d]
      BY DEF OneQueryInFlight, TypeOK
    <2>4. Joined
      BY <1>0, <1>c, <1>d, <2>1, <2>3 DEF Forget
    <2> QED
      BY <2>2, <2>4
  <1>8. \/ UNCHANGED <<pc, source, atBegin, atAsk>>
        \/ \E c \in Calls : UNCHANGED <<atBegin, atAsk>> /\ Elsewhere(c)
        \/ \E c \in Calls, k \in Keys : Begin(c, k)
        \/ \E c \in Calls : Ask(c) \/ FreshnessArrives(c) \/ FreshnessFails(c)
        \/ \E s \in Servers : Restart(s)
    <2>1. CASE \E c \in Calls : CallStep(c) \/ CallFails(c)
      <3> PICK c \in Calls : CallStep(c) \/ CallFails(c)
        BY <2>1
      <3>1. CASE Ask(c) \/ FreshnessArrives(c)
        BY <3>1
      <3>2. CASE FreshnessRead(c)
        BY <3>2 DEF FreshnessRead, history
      <3>3. CASE Gate(c) \/ CallFails(c) \/ HotHit(c) \/ HotMiss(c) \/ WarmGet(c) \/ PromoteWarm(c)
                   \/ PromoteCold(c)
        <4>1. UNCHANGED <<atBegin, atAsk>>
          BY <3>3 DEF Gate, CallFails, HotHit, HotMiss, WarmGet, PromoteWarm, PromoteCold, history
        <4>2. Elsewhere(c)
          BY <3>3 DEF Gate, CallFails, HotHit, HotMiss, WarmGet, PromoteWarm, PromoteCold, Return, Hold,
                      Goto, Elsewhere, TypeOK
        <4> QED
          BY <4>1, <4>2
      <3>4. CASE ColdMiss(c) \/ MemoHit(c) \/ QueryGraph(c) \/ SetHotTier(c) \/ SetWarmTier(c)
                   \/ SetColdTier(c) \/ WriteFile(c)
        <4>1. UNCHANGED <<atBegin, atAsk>>
          BY <3>4 DEF ColdMiss, MemoHit, QueryGraph, SetHotTier, SetWarmTier, SetColdTier,
                      WriteFile, history
        <4>2. Elsewhere(c)
          BY <3>4 DEF ColdMiss, MemoHit, QueryGraph, SetHotTier, SetWarmTier, SetColdTier,
                      WriteFile, WriteStore, Return, Hold, Goto, Elsewhere, TypeOK
        <4> QED
          BY <4>1, <4>2
      <3> QED
        BY <3>1, <3>2, <3>3, <3>4 DEF CallStep
    <2>2. CASE WriteGraph \/ ClearMeta \/ UNCHANGED vars \/ (\E k \in Keys : InvalidateWarm(k))
                 \/ \E i \in Instants : SetIndexedNow(i) \/ InitSchema(i) \/ IngestSpan(i)
      BY <2>2 DEF WriteGraph, ClearMeta, SetIndexedNow, InitSchema, IngestSpan, Publish,
                  InvalidateWarm, vars, history, callVars
    <2> QED
      BY <2>1, <2>2 DEF Next
  <1>9. Known /\ Joined
    BY <1>2, <1>3, <1>4, <1>5, <1>6, <1>7, <1>8
  <1> QED
    BY <1>1, <1>9 DEF AskedInOrder

-----------------------------------------------------------------------------
(* Where entries come from.                                                *)

\* What a call would store.
Held(c) == [stamp |-> read[c], value |-> value[c]]

\* e is nothing, or an entry for k that is in some tier, in the cold file a
\* call is about to write, or in the hands of a call.
From(e, k) ==
    \/ e = None
    \/ e = warm[k] \/ e = cold[k]
    \/ \E s \in Servers : e = hot[s][k]
    \/ \E c \in Calls : e = copy[c][k]
    \/ \E c \in Calls : /\ key[c] = k
                        /\ pc[c] \in Reading \cup Storing
                        /\ value[c] # None
                        /\ e = Held(c)

\* No step makes an entry out of anything else.
LEMMA EntriesFrom ==
  ASSUME TypeOK, [Next]_vars, NEW k \in Keys
  PROVE  /\ From(warm'[k], k) /\ From(cold'[k], k)
         /\ \A s \in Servers : From(hot'[s][k], k)
         /\ \A c \in Calls : From(copy'[c][k], k)
  <1> DEFINE Goal == /\ From(warm'[k], k) /\ From(cold'[k], k)
                     /\ \A s \in Servers : From(hot'[s][k], k)
                     /\ \A c \in Calls : From(copy'[c][k], k)
  <1>0. /\ warm \in [Keys -> Entries \cup {None}] /\ cold \in [Keys -> Entries \cup {None}]
        /\ hot \in [Servers -> [Keys -> Entries \cup {None}]]
        /\ copy \in [Calls -> [Keys -> Entries \cup {None}]]
        /\ ServerOf \in [Calls -> Servers]
        /\ \A c \in Calls : /\ pc[c] \notin {"idle", "fresh"} => key[c] \in Keys
                            /\ pc[c] \in Storing => value[c] # None
    BY DEF TypeOK
  <1>2. /\ From(None, k) /\ From(NoEntries[k], k) /\ From(warm[k], k) /\ From(cold[k], k)
        /\ \A s \in Servers : From(hot[s][k], k)
        /\ \A c \in Calls : From(copy[c][k], k)
    BY DEF From, NoEntries
  <1>3. \A c \in Calls : key[c] = k /\ pc[c] \in Reading \cup Storing /\ value[c] # None
          => From(Held(c), k)
    BY DEF From
  <1>4. CASE UNCHANGED <<warm, cold, hot, copy>>
    BY <1>2, <1>4
  <1>5. ASSUME NEW j \in Keys, InvalidateWarm(j) PROVE Goal
    BY <1>0, <1>2, <1>5 DEF InvalidateWarm, callVars
  <1>6. ASSUME NEW c \in Calls, FreshnessArrives(c) \/ FreshnessFails(c) PROVE Goal
    BY <1>2, <1>6 DEF FreshnessArrives, FreshnessFails, Settle, ForgetCalls, Forget, caches
  <1>7. ASSUME NEW c \in Calls, CallFails(c) \/ HotHit(c) PROVE Goal
    BY <1>0, <1>2, <1>7 DEF CallFails, HotHit, Return, caches
  <1>8. ASSUME NEW c \in Calls, HotMiss(c) PROVE Goal
    BY <1>0, <1>2, <1>8 DEF HotMiss, Hold
  <1>9. ASSUME NEW c \in Calls, WarmGet(c) \/ MemoHit(c) \/ QueryGraph(c) PROVE Goal
    BY <1>0, <1>2, <1>9 DEF WarmGet, MemoHit, QueryGraph, Hold, caches
  <1>10. ASSUME NEW c \in Calls, PromoteWarm(c) PROVE Goal
    <2>1. key[c] = k => From([stamp |-> read[c], value |-> value[c]], k)
      BY <1>3, <1>10 DEF PromoteWarm, Held, Reading
    <2> QED
      BY <1>0, <1>2, <1>10, <2>1 DEF PromoteWarm, SetHot, Return
  <1>11. ASSUME NEW c \in Calls, PromoteCold(c) PROVE Goal
    <2>1. cold[key[c]] = [stamp |-> read[c], value |-> cold[key[c]].value]
      BY <1>0, <1>11 DEF PromoteCold, Matches, Entries
    <2> QED
      BY <1>0, <1>2, <1>11, <2>1 DEF PromoteCold, SetHot, Return
  <1>12. ASSUME NEW c \in Calls, ColdMiss(c) PROVE Goal
    <2>1. CASE cold[key[c]] = None
      BY <1>0, <1>2, <1>12, <2>1 DEF ColdMiss, Hold
    <2>2. CASE cold[key[c]] # None
      <3>1. /\ cold' = NoEntries /\ UNCHANGED <<warm, hot>>
            /\ copy' = [copy EXCEPT ![c] = [cold EXCEPT ![key[c]] = None]]
        BY <1>12, <2>2 DEF ColdMiss, WriteStore, Hold
      <3> QED
        BY <1>0, <1>2, <3>1
    <2> QED
      BY <2>1, <2>2
  <1>13. ASSUME NEW c \in Calls, SetHotTier(c) PROVE Goal
    <2>1. key[c] = k => From([stamp |-> read[c], value |-> value[c]], k)
      BY <1>0, <1>3, <1>13 DEF SetHotTier, Held, Storing
    <2> QED
      BY <1>0, <1>2, <1>13, <2>1 DEF SetHotTier, SetHot, Hold
  <1>14. ASSUME NEW c \in Calls, SetWarmTier(c) PROVE Goal
    <2>1. key[c] = k => From([stamp |-> read[c], value |-> value[c]], k)
      BY <1>0, <1>3, <1>14 DEF SetWarmTier, Held, Storing
    <2> QED
      BY <1>0, <1>2, <1>14, <2>1 DEF SetWarmTier, Hold
  <1>15. ASSUME NEW c \in Calls, SetColdTier(c) PROVE Goal
    <2>1. key[c] = k => From([stamp |-> read[c], value |-> value[c]], k)
      BY <1>0, <1>3, <1>15 DEF SetColdTier, Held, Storing
    <2> QED
      BY <1>0, <1>2, <1>15, <2>1 DEF SetColdTier, WriteStore, Hold
  <1>16. ASSUME NEW c \in Calls, WriteFile(c) PROVE Goal
    BY <1>0, <1>2, <1>16 DEF WriteFile, Hold, Return
  <1>17. ASSUME NEW s \in Servers, Restart(s) PROVE Goal
    BY <1>0, <1>2, <1>17 DEF Restart, ForgetCalls, Forget
  <1>18. ASSUME NEW c \in Calls, Gate(c) \/ Ask(c) \/ FreshnessRead(c) PROVE Goal
    BY <1>2, <1>18 DEF Gate, Ask, FreshnessRead, caches
  <1>19. CASE WriteGraph \/ ClearMeta \/ UNCHANGED vars
                \/ (\E c \in Calls, j \in Keys : Begin(c, j))
                \/ \E i \in Instants : SetIndexedNow(i) \/ InitSchema(i) \/ IngestSpan(i)
    BY <1>4, <1>19 DEF WriteGraph, ClearMeta, SetIndexedNow, InitSchema, IngestSpan, Publish,
                       Begin, vars, caches, callVars
  <1> QED
    BY <1>5, <1>6, <1>7, <1>8, <1>9, <1>10, <1>11, <1>12, <1>13, <1>14, <1>15, <1>16, <1>17,
       <1>18, <1>19 DEF Next, CallStep

\* Entries that vouch for their stamps go on doing so, and those that calls
\* store do as well.
LEMMA VouchedStep ==
  ASSUME TypeOK, TypeOK', AskedInOrder, InHand, StampVouchesForEntry, [Next]_vars
  PROVE  StampVouchesForEntry'
  <1> DEFINE Backed(e) == /\ publishedAs'[e.stamp] # None
                          /\ e.value >= publishedAs'[e.stamp]
  <1> SUFFICES ASSUME ~reused', NEW k \in Keys \ MemoKeys
               PROVE  /\ warm'[k] # None => Backed(warm'[k])
                      /\ cold'[k] # None => Backed(cold'[k])
                      /\ \A s \in Servers : hot'[s][k] # None => Backed(hot'[s][k])
                      /\ \A c \in Calls : copy'[c][k] # None => Backed(copy'[c][k])
    BY DEF StampVouchesForEntry, Vouched
  <1>1. ~reused /\ \A s \in Stamps : publishedAs[s] # None => publishedAs'[s] = publishedAs[s]
    BY StampsKept
  <1>2. \A e \in Entries : Vouched(e) => Backed(e)
    BY <1>1 DEF Vouched, Entries
  <1>3. ASSUME NEW c \in Calls, key[c] = k, pc[c] \in Reading \cup Storing, value[c] # None
        PROVE  Held(c) \in Entries /\ Vouched(Held(c))
    <2>1. read[c] \in Stamps /\ value[c] \in Nat
      BY <1>3 DEF TypeOK
    <2>2. publishedAs[read[c]] # None /\ value[c] >= publishedAs[read[c]]
      BY <1>1, <1>3 DEF InHand, Settled
    <2> QED
      BY <2>1, <2>2 DEF Held, Vouched, Entries
  <1>4. ASSUME NEW e, e # None, From(e, k) PROVE e \in Entries /\ Vouched(e)
    <2>1. CASE e = warm[k] \/ e = cold[k] \/ (\E s \in Servers : e = hot[s][k])
                 \/ (\E c \in Calls : e = copy[c][k])
      BY <1>1, <1>4, <2>1 DEF StampVouchesForEntry, TypeOK
    <2> QED
      BY <1>3, <1>4, <2>1 DEF From
  <1>5. \A e : e # None /\ From(e, k) => Backed(e)
    BY <1>2, <1>4
  <1> HIDE DEF Backed
  <1> QED
    BY <1>5, EntriesFrom

-----------------------------------------------------------------------------
(* What a step does to one call.                                           *)

Working == Reading \cup Storing \cup Blocking

Same(c) ==
    /\ pc'[c] = pc[c] /\ key'[c] = key[c] /\ reply'[c] = reply[c] /\ read'[c] = read[c]
    /\ value'[c] = value[c] /\ atBegin'[c] = atBegin[c] /\ atAsk'[c] = atAsk[c]

\* It is gone, begins, or is to ask for the freshness.
Away(c) ==
    /\ pc'[c] \in {"idle", "gate", "ask"}
    /\ reply'[c] = None
    /\ value'[c] = None
    /\ \/ pc'[c] = "idle"
       \/ \E k \in Keys : Begin(c, k)
       \/ pc[c] \notin Resting /\ atBegin'[c] = atBegin[c]

\* It is the warm-up of a server that starts again.
Warms(c) ==
    /\ \E s \in Servers : c = WarmUp[s] /\ Restart(s)
    /\ pc'[c] = "fresh"
    /\ reply'[c] = None
    /\ value'[c] = None

\* It joins a freshness query or sends one.
Waits(c) ==
    /\ pc[c] = "ask"
    /\ pc'[c] = "fresh"
    /\ reply'[c] = None
    /\ value'[c] = None
    /\ atBegin'[c] = atBegin[c]
    /\ atAsk'[c] = IF Shared(c) = c THEN published ELSE atAsk[Shared(c)]

\* Its query is answered.
Replied(c) ==
    /\ pc[c] = "fresh" /\ pc'[c] = "fresh"
    /\ reply'[c] = stamp
    /\ UNCHANGED <<value, atBegin, atAsk>>

\* It gets the stamp of the query it awaits.
Stamped(c) ==
    /\ pc[c] = "fresh" /\ pc'[c] = "hot"
    /\ reply[source[c]] # None
    /\ read'[c] = reply[source[c]]
    /\ reply'[c] = None
    /\ value'[c] = value[c] /\ atBegin'[c] = atBegin[c] /\ atAsk'[c] = atAsk[c]

\* It goes from one await to the next, with an answer that it has, takes from
\* a tier or the memo, or queries.
Found(c, v) ==
    \/ v = value[c]
    \/ v = content
    \/ v = memo[ServerOf[c]][key[c]]
    \/ \E e \in {hot[ServerOf[c]][key[c]], warm[key[c]], cold[key[c]]} :
           Matches(e, read[c]) /\ v = e.value
Moved(c) ==
    /\ pc[c] \in Working
    /\ \/ pc'[c] \in Working /\ read'[c] = read[c]
       \/ pc'[c] = "answered" /\ value'[c] # None
    /\ key'[c] = key[c] /\ reply'[c] = None
    /\ UNCHANGED <<atBegin, atAsk>>
    /\ value'[c] # None => Found(c, value'[c])

LEMMA HandSteps ==
  ASSUME TypeOK, HandEmpty, [Next]_vars, NEW d \in Calls
  PROVE  \/ Same(d) \/ Away(d) \/ Warms(d) \/ Waits(d)
         \/ Replied(d) \/ Stamped(d) \/ Moved(d)
  <1> DEFINE Goal == \/ Same(d) \/ Away(d) \/ Warms(d) \/ Waits(d)
                     \/ Replied(d) \/ Stamped(d) \/ Moved(d)
  <1> USE DEF Resting, Asking, Reading, Storing, Blocking, Working
  <1>0. /\ pc \in [Calls -> Resting \cup Asking \cup Reading \cup Storing \cup Blocking]
        /\ key \in [Calls -> Keys \cup {None}] /\ read \in [Calls -> Stamps \cup {None}]
        /\ reply \in [Calls -> Stamps \cup {None}] /\ value \in [Calls -> Nat \cup {None}]
        /\ atBegin \in [Calls -> Nat] /\ atAsk \in [Calls -> Nat]
        /\ source \in [Calls -> Calls \cup {None}]
        /\ failing \subseteq Calls
        /\ \A c \in Calls : /\ reply[c] # None => pc[c] = "fresh" /\ source[c] = c
                            /\ pc[c] \in Asking => value[c] = None
                            /\ pc[c] \in Storing => value[c] # None
    BY DEF TypeOK, HandEmpty
  <1>1. CASE WriteGraph \/ ClearMeta \/ UNCHANGED vars \/ (\E k \in Keys : InvalidateWarm(k))
               \/ \E i \in Instants : SetIndexedNow(i) \/ InitSchema(i) \/ IngestSpan(i)
    BY <1>1 DEF WriteGraph, ClearMeta, SetIndexedNow, InitSchema, IngestSpan, Publish,
                InvalidateWarm, vars, history, callVars, Same
  <1>2. ASSUME NEW c \in Calls, NEW k \in Keys, Begin(c, k) PROVE Goal
    <2>1. CASE c = d
      <3>1. pc'[d] = "gate" /\ reply'[d] = None /\ value'[d] = None
        BY <1>0, <1>2, <2>1 DEF Begin, Goto
      <3> QED
        BY <1>2, <2>1, <3>1 DEF Away
    <2>2. CASE c # d
      BY <1>0, <1>2, <2>2 DEF Begin, Goto, Same
    <2> QED
      BY <2>1, <2>2
  <1>3. ASSUME NEW c \in Calls, Gate(c) \/ Ask(c) PROVE Goal
    <2>1. CASE c = d
      BY <1>0, <1>3, <2>1 DEF Gate, Ask, Goto, Away, Waits, history
    <2>2. CASE c # d
      BY <1>0, <1>3, <2>2 DEF Gate, Ask, Goto, Same, history
    <2> QED
      BY <2>1, <2>2
  <1>4. ASSUME NEW c \in Calls, FreshnessRead(c) PROVE Goal
    <2>1. CASE c = d
      BY <1>0, <1>4, <2>1 DEF FreshnessRead, Replied, history
    <2>2. CASE c # d
      BY <1>0, <1>4, <2>2 DEF FreshnessRead, Same, history
    <2> QED
      BY <2>1, <2>2
  <1>5. ASSUME NEW c \in Calls, FreshnessArrives(c) \/ FreshnessFails(c) PROVE Goal
    <2>1. c # d => reply'[d] = reply[d]
      BY <1>0, <1>5 DEF FreshnessArrives, FreshnessFails, Settle
    <2>2. CASE d \notin Sharing(c)
      <3>1. reply'[d] = reply[d]
        BY <1>0, <1>5, <2>1, <2>2 DEF FreshnessArrives, FreshnessFails, Sharing
      <3> QED
        BY <1>0, <1>5, <2>2, <3>1 DEF FreshnessArrives, FreshnessFails, Settle, ForgetCalls,
                                      Forget, Same
    <2>3. CASE d \in Sharing(c)
      <3>1. reply'[d] = None
        BY <1>0, <1>5, <2>3 DEF FreshnessArrives, FreshnessFails, Settle, Sharing
      <3>2. CASE d \in failing \/ FreshnessFails(c)
        BY <1>0, <1>5, <2>3, <3>1, <3>2 DEF FreshnessArrives, FreshnessFails, Settle,
                ForgetCalls, Forget, Sharing, Away
      <3>3. CASE d \notin failing /\ FreshnessArrives(c)
        BY <1>0, <2>3, <3>1, <3>3 DEF FreshnessArrives, Settle, ForgetCalls, Forget, Sharing,
                Stamped
      <3> QED
        BY <1>5, <3>2, <3>3
    <2> QED
      BY <2>2, <2>3
  <1>6. ASSUME NEW c \in Calls, CallFails(c) PROVE Goal
    <2>1. CASE c = d
      BY <1>0, <1>6, <2>1 DEF CallFails, Goto, Away, history
    <2>2. CASE c # d
      BY <1>0, <1>6, <2>2 DEF CallFails, Goto, Same, history
    <2> QED
      BY <2>1, <2>2
  <1>7. ASSUME NEW c \in Calls, c # d,
               HotHit(c) \/ HotMiss(c) \/ WarmGet(c) \/ PromoteWarm(c) \/ PromoteCold(c)
                 \/ ColdMiss(c) \/ MemoHit(c) \/ QueryGraph(c) \/ SetHotTier(c)
                 \/ SetWarmTier(c) \/ SetColdTier(c) \/ WriteFile(c)
        PROVE Goal
    BY <1>0, <1>7 DEF HotHit, HotMiss, WarmGet, PromoteWarm, PromoteCold, ColdMiss, MemoHit,
          QueryGraph, SetHotTier, SetWarmTier, SetColdTier, WriteFile, WriteStore, Return, Hold,
          Goto, Same, history
  <1>8. CASE HotHit(d) \/ PromoteWarm(d) \/ PromoteCold(d)
    <2>1. \A e \in Entries : e.value # None
      BY DEF Entries
    <2>0. key[d] \in Keys
      BY <1>8, AtWork DEF HotHit, PromoteWarm, PromoteCold
    <2>2. /\ ServerOf[d] \in Servers
          /\ cold[key[d]] # None => cold[key[d]].value # None
          /\ hot[ServerOf[d]][key[d]] # None => hot[ServerOf[d]][key[d]].value # None
      BY <2>0, <2>1 DEF TypeOK
    <2> QED
      BY <1>0, <1>8, <2>2 DEF HotHit, PromoteWarm, PromoteCold, Matches, Return, Goto, Moved,
                              Found, history
  <1>9. CASE HotMiss(d) \/ WarmGet(d) \/ ColdMiss(d) \/ MemoHit(d) \/ QueryGraph(d)
    BY <1>0, <1>9 DEF HotMiss, WarmGet, ColdMiss, MemoHit, QueryGraph, WriteStore, Hold, Goto,
                      Moved, Found, history
  <1>10. CASE SetHotTier(d) \/ SetWarmTier(d) \/ SetColdTier(d) \/ WriteFile(d)
    BY <1>0, <1>10 DEF SetHotTier, SetWarmTier, SetColdTier, WriteFile, WriteStore, Hold, Return,
                       Goto, Moved, Found, history
  <1>11. ASSUME NEW s \in Servers, Restart(s) PROVE Goal
    <2>1. CASE d = WarmUp[s]
      <3>1. pc'[d] = "fresh" /\ reply'[d] = None /\ value'[d] = None
        BY <1>0, <1>11, <2>1, WarmUpType DEF Restart, Forget
      <3> QED
        BY <1>11, <2>1, <3>1 DEF Warms
    <2>2. CASE d # WarmUp[s]
      BY <1>0, <1>11, <2>2, WarmUpType DEF Restart, Forget, Same, Away
    <2> QED
      BY <2>1, <2>2
  <1> QED
    BY <1>1, <1>2, <1>3, <1>4, <1>5, <1>6, <1>7, <1>8, <1>9, <1>10, <1>11 DEF Next, CallStep

\* Only keys of memo tools are in the memo, and a call that asks for the
\* freshness has no answer yet.
LEMMA EmptyStep ==
  ASSUME TypeOK, HandEmpty, [Next]_vars
  PROVE  HandEmpty'
  <1>1. ASSUME NEW c \in Calls, pc'[c] \in Asking PROVE value'[c] = None
    BY <1>1, HandSteps DEF HandEmpty, Same, Away, Warms, Waits, Replied, Stamped, Moved, Working,
                           Asking, Reading, Storing, Blocking
  <1>2. \/ memo' = memo
        \/ \E c \in Calls : SetHotTier(c)
        \/ \E s \in Servers : Restart(s)
    BY DEF Next, CallStep, WriteGraph, ClearMeta, SetIndexedNow, InitSchema, IngestSpan, Publish,
           InvalidateWarm, Begin, Gate, Ask, FreshnessRead, FreshnessArrives,
           FreshnessFails, Settle, CallFails, HotHit, HotMiss, WarmGet, PromoteWarm, PromoteCold,
           ColdMiss, MemoHit, QueryGraph, SetWarmTier, SetColdTier, WriteFile, vars, caches
  <1>3. \A s \in Servers, k \in Keys \ MemoKeys : memo'[s][k] = None
    <2>1. memo \in [Servers -> [Keys -> Nat \cup {None}]] /\ ServerOf \in [Calls -> Servers]
      BY DEF TypeOK
    <2>2. CASE memo' = memo
      BY <2>2 DEF HandEmpty
    <2>3. ASSUME NEW c \in Calls, SetHotTier(c)
          PROVE  \A s \in Servers, k \in Keys \ MemoKeys : memo'[s][k] = None
      BY <2>1, <2>3 DEF SetHotTier, HandEmpty
    <2>4. ASSUME NEW r \in Servers, Restart(r)
          PROVE  \A s \in Servers, k \in Keys \ MemoKeys : memo'[s][k] = None
      BY <2>1, <2>4 DEF Restart, NoEntries, HandEmpty
    <2> QED
      BY <1>2, <2>2, <2>3, <2>4
  <1> QED
    BY <1>1, <1>3 DEF HandEmpty

\* A call goes on working under a stamp no older than its query, and what it
\* has in hand is no older than that stamp.
LEMMA HandStep ==
  ASSUME TypeOK, TypeOK', OneQueryInFlight, AskedInOrder, HandEmpty, InHand,
         StampVouchesForEntry, [Next]_vars
  PROVE  InHand'
  <1> SUFFICES ASSUME ~reused', NEW c \in Calls
               PROVE  /\ reply'[c] # None => Settled(c, reply[c])'
                      /\ pc'[c] \in Working =>
                           /\ Settled(c, read[c])'
                           /\ value'[c] # None /\ key'[c] \notin MemoKeys
                                => value'[c] >= publishedAs'[read'[c]]
    BY DEF InHand, Working
  <1>0. /\ publishedAs \in [Stamps -> Nat \cup {None}] /\ stamp \in Stamps
        /\ published \in Nat /\ publishedAs[stamp] = published
        /\ reply[c] # None => reply[c] \in Stamps
        /\ pc[c] \in Working => read[c] \in Stamps
        /\ pc[c] = "fresh" => source[c] \in Calls
        /\ \A d \in Calls : /\ reply[d] \in Stamps \cup {None}
                            /\ reply[d] # None => pc[d] = "fresh"
    BY DEF TypeOK, published, Working
  <1>1. ~reused /\ \A s \in Stamps : publishedAs[s] # None => publishedAs'[s] = publishedAs[s]
    BY StampsKept
  <1>2. /\ reply[c] # None => Settled(c, reply[c])
        /\ pc[c] \in Working =>
             /\ Settled(c, read[c])
             /\ value[c] # None /\ key[c] \notin MemoKeys => value[c] >= publishedAs[read[c]]
    BY <1>1 DEF InHand, Working
  <1>3. CASE Same(c)
    BY <1>0, <1>1, <1>2, <1>3 DEF Same, Settled
  <1>4. CASE Away(c) \/ Warms(c) \/ Waits(c)
    BY <1>4 DEF Away, Warms, Waits, Working, Reading, Storing, Blocking
  <1>5. CASE Replied(c)
    <2>1. atAsk[c] <= published
      BY DEF AskedInOrder
    <2> QED
      BY <1>0, <1>1, <1>5, <2>1 DEF Replied, Settled, Working, Reading, Storing, Blocking, published
  <1>6. CASE Stamped(c)
    <2>1. Settled(source[c], reply[source[c]]) /\ atAsk[c] = atAsk[source[c]]
      BY <1>0, <1>1, <1>6 DEF Stamped, InHand, AskedInOrder
    <2>2. value'[c] = None
      BY <1>6 DEF Stamped, HandEmpty, Asking
    <2> QED
      BY <1>0, <1>1, <1>6, <2>1, <2>2 DEF Stamped, Settled
  <1>7. CASE Moved(c)
    <2>1. ASSUME pc'[c] \in Working, value'[c] # None, key[c] \notin MemoKeys
          PROVE  value'[c] >= publishedAs[read[c]]
      <3>1. key[c] \in Keys /\ ServerOf[c] \in Servers
        BY <1>7, AtWork DEF Moved, Working
      <3>2. CASE value'[c] = value[c]
        BY <1>2, <1>7, <2>1, <3>2 DEF Moved
      <3>3. CASE value'[c] = content
        <4>1. publishedAs[read[c]] \in Nat /\ publishedAs[read[c]] <= published
          BY <1>0, <1>2, <1>7 DEF Moved, Settled, AskedInOrder
        <4>2. published <= content /\ content \in Nat
          BY DEF AskedInOrder, TypeOK
        <4> QED
          BY <1>0, <3>3, <4>1, <4>2
      <3>4. CASE value'[c] = memo[ServerOf[c]][key[c]]
        BY <2>1, <3>1, <3>4 DEF HandEmpty
      <3>5. ASSUME NEW e \in {hot[ServerOf[c]][key[c]], warm[key[c]], cold[key[c]]},
                   Matches(e, read[c]), value'[c] = e.value
            PROVE  value'[c] >= publishedAs[read[c]]
        <4>1. Vouched(e)
          BY <1>1, <2>1, <3>1, <3>5 DEF StampVouchesForEntry, Matches
        <4> QED
          BY <3>5, <4>1 DEF Vouched, Matches
      <3> QED
        BY <1>7, <2>1, <3>2, <3>3, <3>4, <3>5 DEF Moved, Found
    <2> QED
      BY <1>0, <1>1, <1>2, <1>7, <2>1 DEF Moved, Settled, Working, Reading, Storing, Blocking
  <1> QED
    BY <1>3, <1>4, <1>5, <1>6, <1>7, HandSteps

\* What a call returns is no older than its query.
LEMMA AnswerStep ==
  ASSUME TypeOK, TypeOK', AskedInOrder, HandEmpty, InHand, StampVouchesForEntry,
         AnswersReflectQuery, [Next]_vars
  PROVE  AnswersReflectQuery'
  <1> SUFFICES ASSUME ~reused', NEW c \in Calls, pc'[c] = "answered", key'[c] \notin MemoKeys
               PROVE  value'[c] >= atAsk'[c]
    BY DEF AnswersReflectQuery
  <1>1. ~reused
    BY StampsKept
  <1>2. CASE Same(c)
    BY <1>1, <1>2 DEF Same, AnswersReflectQuery
  <1>3. CASE Moved(c)
    <2>0. key[c] \in Keys \ MemoKeys /\ read[c] \in Stamps
      BY <1>3, AtWork DEF Moved, Working
    <2>1. /\ key[c] \in Keys \ MemoKeys /\ ServerOf[c] \in Servers
          /\ value'[c] \in Nat /\ atAsk[c] \in Nat /\ atAsk'[c] = atAsk[c]
          /\ content \in Nat /\ published \in Nat
          /\ read[c] \in Stamps /\ publishedAs[read[c]] \in Nat \cup {None}
      BY <1>3, <2>0 DEF Moved, TypeOK, Working, Storing, published
    <2>2. /\ Settled(c, read[c])
          /\ value[c] # None => value[c] >= publishedAs[read[c]]
      BY <1>1, <1>3, <2>1 DEF InHand, Moved, Working
    <2>3. publishedAs[read[c]] \in Nat /\ publishedAs[read[c]] >= atAsk[c]
      BY <2>1, <2>2 DEF Settled
    <2>4. content >= atAsk[c]
      BY <2>1 DEF AskedInOrder
    <2>5. memo[ServerOf[c]][key[c]] = None
      BY <2>1 DEF HandEmpty
    <2>6. ASSUME NEW e \in {hot[ServerOf[c]][key[c]], warm[key[c]], cold[key[c]]},
                 Matches(e, read[c])
          PROVE  e.value >= publishedAs[read[c]]
      BY <1>1, <2>1, <2>6 DEF StampVouchesForEntry, Matches, Vouched
    <2>7. Found(c, value'[c])
      BY <1>3, <2>1 DEF Moved
    <2>8. value'[c] >= publishedAs[read[c]] \/ value'[c] = content
      BY <2>1, <2>2, <2>5, <2>6, <2>7 DEF Found
    <2> QED
      BY <2>1, <2>3, <2>4, <2>8
  <1> QED
    BY <1>2, <1>3, HandSteps DEF Away, Warms, Waits, Replied, Stamped

\* The inductive invariant.
Fresh ==
    /\ TypeOK
    /\ OneQueryInFlight /\ FlightsLand
    /\ AskedInOrder
    /\ HandEmpty /\ InHand
    /\ StampVouchesForEntry
    /\ AnswersReflectQuery

LEMMA FreshInit == Init => Fresh
  <1> SUFFICES ASSUME Init PROVE Fresh
    OBVIOUS
  <1>1. TypeOK /\ OneQueryInFlight /\ FlightsLand
    BY InitTypeOK, WarmUpType DEF Init, OneQueryInFlight, FlightsLand
  <1>2. AskedInOrder
    BY DEF Init, AskedInOrder, published
  <1>3. HandEmpty /\ InHand /\ AnswersReflectQuery
    BY DEF Init, HandEmpty, InHand, AnswersReflectQuery, NoEntries, Asking, Reading, Storing,
           Blocking
  <1>4. StampVouchesForEntry
    BY DEF Init, StampVouchesForEntry, NoEntries
  <1> QED
    BY <1>1, <1>2, <1>3, <1>4 DEF Fresh

LEMMA FreshStep == Fresh /\ [Next]_vars => Fresh'
  <1> SUFFICES ASSUME Fresh, [Next]_vars PROVE Fresh'
    OBVIOUS
  <1> USE DEF Fresh
  <1>1. TypeOK'
    BY NextTypeOK
  <1>2. (OneQueryInFlight /\ FlightsLand)'
    BY <1>1, FlightStep
  <1>3. AskedInOrder'
    BY <1>1, AskedStep
  <1>4. HandEmpty' /\ InHand'
    BY <1>1, EmptyStep, HandStep
  <1>5. StampVouchesForEntry' /\ AnswersReflectQuery'
    BY <1>1, VouchedStep, AnswerStep
  <1> QED
    BY <1>1, <1>2, <1>3, <1>4, <1>5

LEMMA FreshAlways == Spec => []Fresh
  BY FreshInit, FreshStep, PTL DEF Spec

\* An entry found in any tier has everything in it that was there when its
\* stamp was set, for any number of servers that fill the tiers and lose them.
THEOREM EntriesVouched == Spec => []StampVouchesForEntry
  BY FreshAlways, PTL DEF Fresh

\* An answer has everything in it that was published before the freshness
\* query behind it was sent, for any number of calls that share queries.
THEOREM AnswersNoOlderThanQuery == Spec => []AnswersReflectQuery
  BY FreshAlways, PTL DEF Fresh

\* A call that begins under the warm-up counts on what that asked for.
LEMMA WarmUpWindow ==
  ASSUME Fresh, AskedAfterBegin, [Next]_vars, NEW c \in Clients, pc'[c] \notin Resting,
         pc'[WarmUp[ServerOf[c]]] = "fresh"
  PROVE  atAsk'[WarmUp[ServerOf[c]]] >= atBegin'[c]
  <1> DEFINE s == ServerOf[c]
             w == WarmUp[s]
  <1>1. /\ TypeOK /\ TypeOK' /\ HandEmpty /\ s \in Servers /\ c \in Calls
        /\ w \in Calls /\ w \in WarmUps /\ w # c
        /\ published \in Nat /\ atAsk[w] \in Nat /\ atAsk[w] <= published
    BY FreshStep, WarmUpType DEF Fresh, TypeOK, AskedInOrder, published
  <1>2. pc[c] \notin Resting /\ pc[w] = "fresh" => atAsk[w] >= atBegin[c]
    BY DEF AskedAfterBegin
  <1>3. ASSUME Warms(w) PROVE FALSE
    <2>1. PICK r \in Servers : w = WarmUp[r] /\ Restart(r)
      BY <1>3 DEF Warms
    <2>2. r = s
      BY <1>1, <2>1, WarmUpType
    <2>3. pc'[c] = "idle"
      BY <1>1, <2>1, <2>2 DEF Restart, Forget
    <2> QED
      BY <2>3 DEF Resting
  <1>4. pc[w] \notin {"ask", "hot"} \cup Working /\ pc'[w] # "hot"
    BY <1>1 DEF TypeOK, Working, Reading, Storing, Blocking
  <1>5. Same(w) \/ Replied(w)
    BY <1>1, <1>3, <1>4, HandSteps DEF Away, Waits, Stamped, Moved
  <1>6. pc[w] = "fresh" /\ atAsk'[w] = atAsk[w]
    BY <1>5 DEF Same, Replied
  <1>7. CASE \E k \in Keys : Begin(c, k)
    BY <1>1, <1>6, <1>7 DEF Begin, TypeOK
  <1>8. CASE pc[c] \notin Resting /\ atBegin'[c] = atBegin[c]
    BY <1>2, <1>6, <1>8
  <1>9. ~Warms(c)
    BY WarmUpType DEF Warms
  <1>10. Same(c) \/ Waits(c) \/ Replied(c) \/ Stamped(c) \/ Moved(c)
           => pc[c] \notin Resting /\ atBegin'[c] = atBegin[c]
    BY DEF Same, Waits, Replied, Stamped, Moved, Working, Resting, Reading, Storing, Blocking
  <1> QED
    BY <1>1, <1>7, <1>8, <1>9, <1>10, HandSteps DEF Away, Resting

\* Calls that do not share a server send their queries themselves, or join
\* the warm-up.
LEMMA AloneStep ==
  ASSUME \A c, d \in Clients : ServerOf[c] = ServerOf[d] => c = d,
         Fresh, AskedAfterBegin, [Next]_vars
  PROVE  AskedAfterBegin'
  <1> SUFFICES ASSUME NEW c \in Clients, pc'[c] \notin {"idle", "gate", "ask"}
               PROVE  atAsk'[c] >= atBegin'[c]
    BY WarmUpWindow DEF AskedAfterBegin
  <1>1. /\ TypeOK /\ HandEmpty /\ c \in Calls
        /\ published \in Nat /\ atBegin[c] \in Nat /\ atBegin[c] <= published
    BY DEF Fresh, AskedInOrder, TypeOK, published
  <1>2. CASE Waits(c)
    <2>1. CASE Shared(c) = c
      BY <1>1, <1>2, <2>1 DEF Waits
    <2>2. CASE Shared(c) # c
      <3>1. /\ Shared(c) \in Calls /\ ServerOf[Shared(c)] = ServerOf[c]
            /\ pc[Shared(c)] = "fresh"
        BY <1>1, <2>2 DEF Shared, Fresh, FlightsLand, TypeOK
      <3>2. Shared(c) = WarmUp[ServerOf[c]]
        BY <2>2, <3>1, WarmUpType
      <3>3. atAsk[Shared(c)] >= atBegin[c]
        BY <1>2, <3>1, <3>2 DEF AskedAfterBegin, Waits, Resting
      <3> QED
        BY <1>2, <2>2, <3>3 DEF Waits
    <2> QED
      BY <2>1, <2>2
  <1>3. CASE Same(c) \/ Replied(c) \/ Stamped(c) \/ Moved(c)
    <2>1. atAsk'[c] = atAsk[c] /\ atBegin'[c] = atBegin[c]
      BY <1>3 DEF Same, Replied, Stamped, Moved
    <2>2. pc[c] \notin {"idle", "gate", "ask"}
      BY <1>3 DEF Same, Replied, Stamped, Moved, Working, Reading, Storing, Blocking
    <2> QED
      BY <2>1, <2>2 DEF AskedAfterBegin
  <1>4. ~Warms(c)
    BY WarmUpType DEF Warms
  <1> QED
    BY <1>1, <1>2, <1>3, <1>4, HandSteps DEF Away

\* With one call at a time per server an answer has everything in it that was
\* published before the call began, or before the warm-up query was sent that
\* was still under way then, for any number of servers.
THEOREM SequentialAnswers ==
  ASSUME \A c, d \in Clients : ServerOf[c] = ServerOf[d] => c = d
  PROVE  Spec => []AnswersReflectPublished
  <1>1. Init => AskedAfterBegin
    BY DEF Init, AskedAfterBegin
  <1>2. Fresh /\ AskedAfterBegin /\ [Next]_vars => AskedAfterBegin'
    BY AloneStep
  <1>3. Fresh /\ AskedAfterBegin => AnswersReflectPublished
    <2> SUFFICES ASSUME Fresh, AskedAfterBegin, ~reused, NEW c \in Calls, pc[c] = "answered",
                        key[c] \notin MemoKeys
                 PROVE  value[c] >= atBegin[c]
      BY DEF AnswersReflectPublished
    <2>0. c \in Clients
      BY DEF Fresh, TypeOK
    <2>1. value[c] >= atAsk[c] /\ atAsk[c] >= atBegin[c]
      BY <2>0 DEF Fresh, AnswersReflectQuery, AskedAfterBegin
    <2>2. value[c] \in Nat /\ atAsk[c] \in Nat /\ atBegin[c] \in Nat
      BY DEF Fresh, TypeOK, Storing
    <2> QED
      BY <2>1, <2>2
  <1> QED
    BY <1>1, <1>2, <1>3, FreshAlways, PTL DEF Spec

=============================================================================
