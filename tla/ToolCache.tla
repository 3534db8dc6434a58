----------------------------- MODULE ToolCache -----------------------------
(***************************************************************************)
(* How a tool call gets its answer: the readiness gate, the freshness      *)
(* stamp, three cache tiers and the query itself, in several server        *)
(* processes over one graph that indexing runs and runtime spans change.   *)
(* Every await is a step; what runs between two awaits of a server is one  *)
(* step, except that the cold file is truncated and written in two, which  *)
(* other processes can see.                                                *)
(*                                                                         *)
(* Data abstraction.  The graph is the number of writes it has had, and an *)
(* answer is that number at the oldest query behind it.  A freshness stamp *)
(* is indexed_at and runtime_updated_at, 0 for null; graph_version and     *)
(* commit_hash never change alone.  Instead of a clock, a lookup may find  *)
(* an entry too old at any time.  Operators M... are mutants.              *)
(***************************************************************************)
EXTENDS Naturals

CONSTANTS
    Servers,    \* server processes
    Calls,      \* client slots: each has one call under way at a time
    ServerOf,   \* [Calls -> Servers]
    WarmUp,     \* [Servers -> Calls]: the slot of ToolService.warmUp
    Keys,       \* cache keys: a tool with its arguments
    MemoKeys,   \* the keys whose tools go through the repository's memo
    Instants,   \* values of timestamps
    FirstStamp, \* the stamp the servers find
    MaxContent, \* bound on the writes to the graph
    None        \* no value

ASSUME CallAssumption ==
    /\ ServerOf \in [Calls -> Servers]
    /\ WarmUp \in [Servers -> Calls]
    /\ \A s \in Servers : ServerOf[WarmUp[s]] = s
    /\ MemoKeys \subseteq Keys

ASSUME NumberAssumption ==
    /\ Instants \subseteq Nat \ {0}
    /\ MaxContent \in Nat
    /\ None \notin Nat \cup Calls \cup Keys

Stamps == [indexedAt : Instants \cup {0}, runtimeUpdatedAt : Instants \cup {0}]
Entries == [stamp : Stamps, value : Nat]
Unset == [indexedAt |-> 0, runtimeUpdatedAt |-> 0]
WarmUps == {WarmUp[s] : s \in Servers}
Clients == Calls \ WarmUps

ASSUME EntryAssumption ==
    /\ FirstStamp \in Stamps
    /\ None \notin Stamps \cup Entries

VARIABLES
    content,    \* number of writes to the graph, GraphMeta included
    stamp,      \* GraphMeta: indexed_at and runtime_updated_at
    warm,       \* WarmCache rows: [Keys -> entry or None]
    cold,       \* cold-cache.json; {} and an unreadable file are the same
    \* each server
    hot,        \* its hot cache
    memo,       \* its repository object's localMemo
    inFlight,   \* freshnessInFlight: the call whose query is shared
    \* each call
    pc, key,
    source,     \* the call whose freshness query this one awaits
    reply,      \* what the database has answered to this call's own query
    read,       \* freshnessStamp
    value,      \* the answer, once there is one
    copy,       \* the cold file as this call is about to write it
    failing,    \* the calls that end with the freshness they ask for: those in
                \* runTool's catch block, and the warm-ups
    \* history, read by properties only
    publishedAs, \* content when each stamp was last set, None if never
    reused,      \* some stamp has been set a second time
    atBegin,     \* what the call may count on: published when it began, or
                 \* when the warm-up query still under way then was sent
    atAsk        \* published when the call's own freshness query was sent

graph == <<content, stamp>>
history == <<publishedAs, reused, atBegin, atAsk>>
caches == <<hot, warm, cold, memo>>
callVars == <<pc, key, source, reply, read, value, copy, failing>>
vars == <<graph, history, caches, inFlight, callVars>>

NoEntries == [k \in Keys |-> None]

\* Where a call may stand.
Resting == {"idle", "answered"}
Asking == {"gate", "ask", "fresh"}
Reading == {"hot", "warm", "warmed", "produce"}
Storing == {"produced", "warmSet", "coldSet"}
Blocking == {"write"}

TypeOK ==
    /\ content \in Nat
    /\ stamp \in Stamps
    /\ warm \in [Keys -> Entries \cup {None}]
    /\ cold \in [Keys -> Entries \cup {None}]
    /\ hot \in [Servers -> [Keys -> Entries \cup {None}]]
    /\ memo \in [Servers -> [Keys -> Nat \cup {None}]]
    /\ inFlight \in [Servers -> Calls \cup {None}]
    /\ pc \in [Calls -> Resting \cup Asking \cup Reading \cup Storing \cup Blocking]
    /\ key \in [Calls -> Keys \cup {None}]
    /\ source \in [Calls -> Calls \cup {None}]
    /\ reply \in [Calls -> Stamps \cup {None}]
    /\ read \in [Calls -> Stamps \cup {None}]
    /\ value \in [Calls -> Nat \cup {None}]
    /\ copy \in [Calls -> [Keys -> Entries \cup {None}]]
    /\ failing \subseteq Calls
    /\ publishedAs \in [Stamps -> Nat \cup {None}]
    /\ reused \in BOOLEAN
    /\ atBegin \in [Calls -> Nat]
    /\ atAsk \in [Calls -> Nat]
    /\ publishedAs[stamp] # None
    /\ \A c \in Calls :
        /\ pc[c] \notin {"idle", "fresh"} => key[c] \in Keys /\ c \notin WarmUps
        /\ pc[c] = "fresh" => IF c \in WarmUps THEN source[c] = c /\ c \in failing
                              ELSE key[c] \in Keys /\ source[c] \in Calls
        /\ reply[c] # None => pc[c] = "fresh" /\ source[c] = c
        /\ pc[c] \in Reading \cup Storing \cup Blocking => read[c] \in Stamps
        /\ pc[c] \in Storing \cup {"answered"} => value[c] \in Nat

\* The servers have just started, and each sends a freshness query before
\* any call can (createMcpApp calls warmUp).
Init ==
    /\ content = 0
    /\ stamp = FirstStamp
    /\ warm = NoEntries
    /\ cold = NoEntries
    /\ hot = [s \in Servers |-> NoEntries]
    /\ memo = [s \in Servers |-> NoEntries]
    /\ inFlight = WarmUp
    /\ pc = [c \in Calls |-> IF c \in WarmUps THEN "fresh" ELSE "idle"]
    /\ key = [c \in Calls |-> None]
    /\ source = [c \in Calls |-> IF c \in WarmUps THEN c ELSE None]
    /\ reply = [c \in Calls |-> None]
    /\ read = [c \in Calls |-> None]
    /\ value = [c \in Calls |-> None]
    /\ copy = [c \in Calls |-> NoEntries]
    /\ failing = WarmUps
    /\ publishedAs = [s \in Stamps |-> IF s = FirstStamp THEN 0 ELSE None]
    /\ reused = FALSE
    /\ atBegin = [c \in Calls |-> 0]
    /\ atAsk = [c \in Calls |-> 0]

-----------------------------------------------------------------------------
(* The graph, as indexing runs, the command line and span ingestion change *)
(* it from outside the server.                                             *)

\* What the graph held when the present stamp was set.
published == publishedAs[stamp]

\* A write that sets the stamp.
Publish(s) ==
    /\ content < MaxContent
    /\ content' = content + 1
    /\ stamp' = s
    /\ publishedAs' = [publishedAs EXCEPT ![s] = content + 1]
    /\ reused' = (reused \/ publishedAs[s] # None)
    /\ UNCHANGED <<atBegin, atAsk, caches, inFlight, callVars>>

\* applyBatch, deleteFileSubgraph, the first statement of clearGraph: the
\* graph changes under the stamp it has.
WriteGraph ==
    /\ content < MaxContent
    /\ content' = content + 1
    /\ UNCHANGED <<stamp, history, caches, inFlight, callVars>>

\* indexed_at = datetime(): a moment at which no index was ever finished.
SetIndexedNow(i) ==
    /\ \A s \in Stamps : publishedAs[s] # None => s.indexedAt < i
    /\ Publish([stamp EXCEPT !.indexedAt = i])

\* The second statement of clearGraph.
ClearMeta == Publish(Unset)

\* The third one, "graph prune", and the invalidation that follows an index
\* or an ingested span: warm rows are deleted, other tiers are not told.
InvalidateWarm(k) ==
    /\ warm[k] # None
    /\ warm' = [warm EXCEPT ![k] = None]
    /\ UNCHANGED <<graph, history, hot, cold, memo, inFlight, callVars>>

\* initSchema, when another process starts: runtime_updated_at if it is null.
InitSchema(i) ==
    /\ stamp.runtimeUpdatedAt = 0
    /\ Publish([stamp EXCEPT !.runtimeUpdatedAt = i])

\* ingestSpan: counts and stamp in one statement, with the span's own time.
IngestSpan(i) == Publish([stamp EXCEPT !.runtimeUpdatedAt = i])

-----------------------------------------------------------------------------
(* A call.                                                                 *)

Goto(c, l) == pc' = [pc EXCEPT ![c] = l]

\* No call of the same server is inside a synchronous file write.
EventLoopFree(c) ==
    \A d \in Calls \ {c} : ServerOf[d] = ServerOf[c] => pc[d] \notin Blocking

\* The call returns: its locals are gone.
Return(c, l, v) ==
    /\ Goto(c, l)
    /\ value' = [value EXCEPT ![c] = v]
    /\ source' = [source EXCEPT ![c] = None]
    /\ reply' = [reply EXCEPT ![c] = None]
    /\ read' = [read EXCEPT ![c] = None]
    /\ copy' = [copy EXCEPT ![c] = NoEntries]
    /\ failing' = failing \ {c}
    /\ UNCHANGED key

\* runTool is called and asks ensureScopeReady first.
Begin(c, k) ==
    LET w == WarmUp[ServerOf[c]] IN
    /\ c \in Clients
    /\ pc[c] \in Resting
    /\ Goto(c, "gate")
    /\ key' = [key EXCEPT ![c] = k]
    /\ value' = [value EXCEPT ![c] = None]
    /\ atBegin' = [atBegin EXCEPT ![c] = IF pc[w] = "fresh" THEN atAsk[w] ELSE published]
    /\ atAsk' = [atAsk EXCEPT ![c] = 0]
    /\ UNCHANGED <<graph, publishedAs, reused, caches, inFlight, source, reply, read, copy,
                   failing>>

\* ensureScopeReady answers.  An unindexed scope is refused, by way of the
\* catch block of runTool, which asks for the freshness too.
Gate(c) ==
    /\ pc[c] = "gate"
    /\ Goto(c, "ask")
    /\ failing' = IF stamp.indexedAt = 0 THEN failing \cup {c} ELSE failing
    /\ UNCHANGED <<graph, history, caches, inFlight, key, source, reply, read, value, copy>>

MNeverJoins(c) == c
Shared(c) == IF inFlight[ServerOf[c]] = None THEN c ELSE inFlight[ServerOf[c]]

\* getFreshnessCached: join the query in flight, or send one.
Ask(c) ==
    /\ pc[c] = "ask"
    /\ EventLoopFree(c)
    /\ Goto(c, "fresh")
    /\ source' = [source EXCEPT ![c] = Shared(c)]
    /\ inFlight' = [inFlight EXCEPT ![ServerOf[c]] = Shared(c)]
    /\ atAsk' = [atAsk EXCEPT ![c] = IF Shared(c) = c THEN published ELSE atAsk[Shared(c)]]
    /\ UNCHANGED <<graph, publishedAs, reused, atBegin, caches, key, reply, read, value, copy,
                   failing>>

\* The database answers the query of call c; the answer is on its way.
FreshnessRead(c) ==
    /\ pc[c] = "fresh"
    /\ source[c] = c
    /\ reply[c] = None
    /\ reply' = [reply EXCEPT ![c] = stamp]
    /\ UNCHANGED <<graph, history, caches, inFlight, pc, key, source, read, value, copy, failing>>

Sharing(c) == {d \in Calls : pc[d] = "fresh" /\ source[d] = c}

\* What is left of the calls gone.
Forget(gone, f, v) == [c \in Calls |-> IF c \in gone THEN v ELSE f[c]]
ForgetCalls(gone) ==
    /\ key' = Forget(gone, key, None)
    /\ value' = Forget(gone, value, None)
    /\ copy' = Forget(gone, copy, NoEntries)
    /\ atBegin' = Forget(gone, atBegin, 0)
    /\ atAsk' = Forget(gone, atAsk, 0)

MKeepsFlight(c, next) ==
    /\ EventLoopFree(c)
    /\ pc' = [d \in Calls |-> IF d \notin Sharing(c) THEN pc[d]
                              ELSE IF d \in failing THEN "idle" ELSE next]
    /\ source' = Forget(Sharing(c), source, None)
    /\ reply' = [reply EXCEPT ![c] = None]
    /\ ForgetCalls(Sharing(c) \cap failing)
    /\ UNCHANGED <<graph, publishedAs, reused, caches, inFlight>>

\* The promise settles: everyone who awaits it goes on, and a call in its
\* catch block, or a warm-up, is done.  Without an answer the others enter
\* their catch block.
Settle(c, next) ==
    /\ EventLoopFree(c)
    /\ inFlight' = [inFlight EXCEPT ![ServerOf[c]] = None]
    /\ pc' = [d \in Calls |-> IF d \notin Sharing(c) THEN pc[d]
                              ELSE IF d \in failing THEN "idle" ELSE next]
    /\ source' = Forget(Sharing(c), source, None)
    /\ reply' = [reply EXCEPT ![c] = None]
    /\ ForgetCalls(Sharing(c) \cap failing)
    /\ UNCHANGED <<graph, publishedAs, reused, caches>>

MArrivesAtOwner(c) ==
    /\ reply[c] # None
    /\ Settle(c, "hot")
    /\ read' = [read EXCEPT ![c] = reply[c]]
    /\ failing' = failing \ Sharing(c)
FreshnessArrives(c) ==
    /\ reply[c] # None
    /\ Settle(c, "hot")
    /\ read' = Forget(Sharing(c) \ failing, read, reply[c])
    /\ failing' = failing \ Sharing(c)

MAsksAgain(c) ==
    /\ pc[c] = "fresh"
    /\ source[c] = c
    /\ Settle(c, "ask")
    /\ failing' = failing \ Sharing(c)
    /\ UNCHANGED read
FreshnessFails(c) ==
    /\ pc[c] = "fresh"
    /\ source[c] = c
    /\ Settle(c, "ask")
    /\ failing' = (failing \ Sharing(c)) \cup (Sharing(c) \ failing)
    /\ UNCHANGED read

\* A statement, or writing the cold file, fails: the call enters its catch
\* block, and what it has stored so far stays.
CallFails(c) ==
    /\ pc[c] \in {"gate", "warm", "produce", "warmSet", "write"}
    /\ Goto(c, "ask")
    /\ failing' = failing \cup {c}
    /\ read' = [read EXCEPT ![c] = None]
    /\ value' = [value EXCEPT ![c] = None]
    /\ copy' = [copy EXCEPT ![c] = NoEntries]
    /\ UNCHANGED <<graph, history, caches, inFlight, key, source, reply>>

\* Goto with the answer, or the store, that the call now has in hand.
Hold(c, l, v, store) ==
    /\ Goto(c, l)
    /\ value' = [value EXCEPT ![c] = v]
    /\ copy' = [copy EXCEPT ![c] = store]
    /\ UNCHANGED <<key, source, reply, read, failing>>

Matches(e, s) == e # None /\ e.stamp = s
SetHot(c, v) ==
    hot' = [hot EXCEPT ![ServerOf[c]][key[c]] = [stamp |-> read[c], value |-> v]]

\* HotCache.get: an entry under another stamp, or too old, is dropped.
MHotIgnoresStamp(c) ==
    LET e == hot[ServerOf[c]][key[c]] IN
    /\ pc[c] = "hot"
    /\ EventLoopFree(c)
    /\ e # None
    /\ Return(c, "answered", e.value)
    /\ UNCHANGED <<graph, history, caches, inFlight>>
HotHit(c) ==
    LET e == hot[ServerOf[c]][key[c]] IN
    /\ pc[c] = "hot"
    /\ EventLoopFree(c)
    /\ Matches(e, read[c])
    /\ Return(c, "answered", e.value)
    /\ UNCHANGED <<graph, history, caches, inFlight>>

HotMiss(c) ==
    /\ pc[c] = "hot"
    /\ EventLoopFree(c)
    /\ hot' = [hot EXCEPT ![ServerOf[c]][key[c]] = None]
    /\ Hold(c, "warm", None, copy[c])
    /\ UNCHANGED <<graph, history, warm, cold, memo, inFlight>>

\* Neo4jWarmCache.get: a row too old, or under another stamp, is not found.
MWarmIgnoresStamp(c) ==
    /\ pc[c] = "warm"
    /\ \/ Hold(c, "warmed", None, copy[c])
       \/ /\ warm[key[c]] # None
          /\ Hold(c, "warmed", warm[key[c]].value, copy[c])
    /\ UNCHANGED <<graph, history, caches, inFlight>>
WarmGet(c) ==
    /\ pc[c] = "warm"
    /\ \/ Hold(c, "warmed", None, copy[c])
       \/ /\ Matches(warm[key[c]], read[c])
          /\ Hold(c, "warmed", warm[key[c]].value, copy[c])
    /\ UNCHANGED <<graph, history, caches, inFlight>>

\* CacheManager.get puts what a lower tier held into the hot one.
PromoteWarm(c) ==
    /\ pc[c] = "warmed"
    /\ EventLoopFree(c)
    /\ value[c] # None
    /\ SetHot(c, value[c])
    /\ Return(c, "answered", value[c])
    /\ UNCHANGED <<graph, history, warm, cold, memo, inFlight>>

PromoteCold(c) ==
    /\ pc[c] = "warmed"
    /\ EventLoopFree(c)
    /\ value[c] = None
    /\ Matches(cold[key[c]], read[c])
    /\ SetHot(c, cold[key[c]].value)
    /\ Return(c, "answered", cold[key[c]].value)
    /\ UNCHANGED <<graph, history, warm, cold, memo, inFlight>>

\* writeStore is not atomic: the file is empty before it has its new text,
\* and other processes may read and write it meanwhile.  Reading it just
\* before is part of the same step: what others do in between is lost anyway.
WriteStore(c, store, v) ==
    /\ cold' = NoEntries
    /\ Hold(c, "write", v, store)

\* ColdCache.get finds nothing, or an entry it deletes before the miss.
ColdMiss(c) ==
    /\ pc[c] = "warmed"
    /\ EventLoopFree(c)
    /\ value[c] = None
    /\ IF cold[key[c]] = None
       THEN Hold(c, "produce", None, copy[c]) /\ UNCHANGED cold
       ELSE WriteStore(c, [cold EXCEPT ![key[c]] = None], None)
    /\ UNCHANGED <<graph, history, hot, warm, memo, inFlight>>

\* The producer: the repository answers from localMemo (an entry that is not
\* 1.5 s old) or from the graph.
MemoHit(c) ==
    LET v == memo[ServerOf[c]][key[c]] IN
    /\ pc[c] = "produce"
    /\ v # None
    /\ Hold(c, "produced", v, copy[c])
    /\ UNCHANGED <<graph, history, caches, inFlight>>

QueryGraph(c) ==
    /\ pc[c] = "produce"
    /\ Hold(c, "produced", content, copy[c])
    /\ UNCHANGED <<graph, history, caches, inFlight>>

\* memoSet in the repository, then CacheManager.set up to the await of the
\* warm tier.
MStampOfNow(c) ==
    /\ pc[c] = "produced"
    /\ EventLoopFree(c)
    /\ memo' = memo
    /\ hot' = [hot EXCEPT ![ServerOf[c]][key[c]] = [stamp |-> stamp, value |-> value[c]]]
    /\ Hold(c, "warmSet", value[c], copy[c])
    /\ UNCHANGED <<graph, history, warm, cold, inFlight>>
SetHotTier(c) ==
    /\ pc[c] = "produced"
    /\ EventLoopFree(c)
    /\ memo' = IF key[c] \in MemoKeys
               THEN [memo EXCEPT ![ServerOf[c]][key[c]] = value[c]] ELSE memo
    /\ SetHot(c, value[c])
    /\ Hold(c, "warmSet", value[c], copy[c])
    /\ UNCHANGED <<graph, history, warm, cold, inFlight>>

SetWarmTier(c) ==
    /\ pc[c] = "warmSet"
    /\ warm' = [warm EXCEPT ![key[c]] = [stamp |-> read[c], value |-> value[c]]]
    /\ Hold(c, "coldSet", value[c], copy[c])
    /\ UNCHANGED <<graph, history, hot, cold, memo, inFlight>>

\* ColdCache.set: readStore, and the entry added to what it returned.
SetColdTier(c) ==
    /\ pc[c] = "coldSet"
    /\ EventLoopFree(c)
    /\ WriteStore(c, [cold EXCEPT ![key[c]] = [stamp |-> read[c], value |-> value[c]]], value[c])
    /\ UNCHANGED <<graph, history, hot, warm, memo, inFlight>>

\* The end of ColdCache.set, or of a ColdCache.get that missed.
WriteFile(c) ==
    /\ pc[c] = "write"
    /\ cold' = copy[c]
    /\ IF value[c] = None THEN Hold(c, "produce", None, NoEntries)
                          ELSE Return(c, "answered", value[c])
    /\ UNCHANGED <<graph, history, hot, warm, memo, inFlight>>

\* The server is killed and started again, a cold file perhaps half written:
\* createMcpApp calls warmUp, which sends a freshness query for the first calls
\* to join.
Restart(s) ==
    LET gone == {c \in Calls : ServerOf[c] = s}
        w == WarmUp[s]
    IN
    /\ hot' = [hot EXCEPT ![s] = NoEntries]
    /\ memo' = [memo EXCEPT ![s] = NoEntries]
    /\ inFlight' = [inFlight EXCEPT ![s] = w]
    /\ pc' = [Forget(gone, pc, "idle") EXCEPT ![w] = "fresh"]
    /\ source' = [Forget(gone, source, None) EXCEPT ![w] = w]
    /\ reply' = Forget(gone, reply, None)
    /\ read' = Forget(gone, read, None)
    /\ failing' = (failing \ gone) \cup {w}
    /\ key' = Forget(gone, key, None)
    /\ value' = Forget(gone, value, None)
    /\ copy' = Forget(gone, copy, NoEntries)
    /\ atBegin' = Forget(gone, atBegin, 0)
    /\ atAsk' = [Forget(gone, atAsk, 0) EXCEPT ![w] = published]
    /\ UNCHANGED <<graph, publishedAs, reused, warm, cold>>

CallStep(c) ==
    \/ Gate(c) \/ Ask(c)
    \/ FreshnessRead(c) \/ FreshnessArrives(c)
    \/ HotHit(c) \/ HotMiss(c) \/ WarmGet(c)
    \/ PromoteWarm(c) \/ PromoteCold(c) \/ ColdMiss(c)
    \/ MemoHit(c) \/ QueryGraph(c)
    \/ SetHotTier(c) \/ SetWarmTier(c) \/ SetColdTier(c)
    \/ WriteFile(c)

Next ==
    \/ WriteGraph
    \/ ClearMeta
    \/ \E i \in Instants : SetIndexedNow(i) \/ InitSchema(i) \/ IngestSpan(i)
    \/ \E k \in Keys : InvalidateWarm(k)
    \/ \E c \in Calls : \/ \E k \in Keys : Begin(c, k)
                        \/ CallStep(c)
                        \/ CallFails(c)
                        \/ FreshnessFails(c)
    \/ \E s \in Servers : Restart(s)

Spec == Init /\ [][Next]_vars

\* The database answers and the event loop, a queue, resumes every await in
\* the end, also one that other calls keep waiting again and again.
FairSpec == Spec /\ \A c \in Calls : SF_vars(CallStep(c))

-----------------------------------------------------------------------------
(* Properties.                                                             *)

Vouched(e) == publishedAs[e.stamp] # None /\ e.value >= publishedAs[e.stamp]

\* No entry of any tier, nor one on its way into the cold file, is older than
\* the stamp it is found by, although tiers are filled awaits later, late
\* calls overwrite newer entries, and processes overwrite each other's cold
\* file: as long as no stamp comes back, an entry under the current stamp has
\* everything in it that was there when the stamp was set.
StampVouchesForEntry ==
    ~reused => \A k \in Keys \ MemoKeys :
        /\ warm[k] # None => Vouched(warm[k])
        /\ cold[k] # None => Vouched(cold[k])
        /\ \A s \in Servers : hot[s][k] # None => Vouched(hot[s][k])
        /\ \A c \in Calls : copy[c][k] # None => Vouched(copy[c][k])

\* With one call at a time per server an answer has everything in it that was
\* published (an index finished, a span ingested) before the call began,
\* whichever tier it comes from and whatever other servers do.  Only a call
\* that begins while the query its server sent at start is still under way may
\* join that one and miss what was published since it was sent.
AnswersReflectPublished ==
    ~reused => \A c \in Calls : pc[c] = "answered" /\ key[c] \notin MemoKeys
                                   => value[c] >= atBegin[c]

\* With any number of calls: everything that was published before the
\* freshness query was sent, the call's own or the one it joined.
AnswersReflectQuery ==
    ~reused => \A c \in Calls : pc[c] = "answered" /\ key[c] \notin MemoKeys
                                   => value[c] >= atAsk[c]

\* One freshness query per server at a time, and whoever has joined one has
\* joined a query whose owner still awaits it: nobody waits for a promise that
\* has been dropped, whatever fails or restarts.
OneQueryInFlight ==
    \A c \in Calls : pc[c] = "fresh" =>
        /\ pc[source[c]] = "fresh"
        /\ source[source[c]] = source[c]
        /\ inFlight[ServerOf[c]] = source[c]
        /\ ServerOf[source[c]] = ServerOf[c]

\* A call has asked once it awaits a freshness query; one answered from the
\* memo, which no stamp guards, counts as gone.
Asked(c) ==
    /\ pc[c] \notin {"idle", "gate", "ask"}
    /\ pc[c] = "answered" => key[c] \notin MemoKeys
Promised == INSTANCE PublishedAnswers WITH
    repeated <- reused,
    asked <- [c \in Calls |-> IF Asked(c) THEN atAsk[c] ELSE None],
    answer <- [c \in Calls |-> IF Asked(c) /\ pc[c] = "answered" THEN value[c] ELSE None]

\* Gate, shared queries, tiers, failures and restarts together do what the
\* abstract specification promises: whatever way a call takes through them, it
\* is answered with a content of the graph that is not older than what was
\* published when its freshness query was sent.
KeepsPromise == Promised!Spec

\* Every call is answered or refused.
CallsReturn == \A c \in Clients : pc[c] \notin Resting ~> pc[c] \in Resting

\* How many more things may happen to a call: the awaits that still lie ahead
\* of it, one more for an answer of the database, and fewer in its catch block.
StepsLeft(c) ==
    CASE pc[c] = "gate" -> 16
      [] pc[c] = "ask" -> IF c \in failing THEN 3 ELSE 15
      [] pc[c] = "fresh" -> (IF c \in failing THEN 1 ELSE 13)
                                + (IF reply[source[c]] = None THEN 1 ELSE 0)
      [] pc[c] = "hot" -> 12
      [] pc[c] = "warm" -> 11
      [] pc[c] = "warmed" -> 10
      [] pc[c] = "produce" -> 8
      [] pc[c] = "produced" -> 7
      [] pc[c] = "warmSet" -> 6
      [] pc[c] = "coldSet" -> 5
      [] pc[c] = "write" -> IF value[c] = None THEN 9 ELSE 4
      [] OTHER -> 0

\* Why calls return: whatever moves a call on, its own step, the answer or the
\* failure of a query it shares, or an error, brings it nearer to its end, and
\* nothing that other calls, writers and restarts do takes it further away.
CallsAreShort ==
    [][\A c \in Clients : pc[c] \notin Resting =>
           /\ StepsLeft(c)' <= StepsLeft(c)
           /\ CallStep(c) \/ pc'[c] # pc[c] => StepsLeft(c)' < StepsLeft(c)]_vars

-----------------------------------------------------------------------------
(* Inductive strengthenings of the properties above, for the proofs.       *)

\* freshnessInFlight is a query whose owner awaits it at this server.
FlightsLand ==
    \A s \in Servers : inFlight[s] # None =>
        /\ ServerOf[inFlight[s]] = s
        /\ pc[inFlight[s]] = "fresh"
        /\ source[inFlight[s]] = inFlight[s]

\* Stamps are set in the order of the writes that set them, and a query asks
\* for what had been published by then.
AskedInOrder ==
    /\ published <= content
    /\ \A s \in Stamps : publishedAs[s] # None => publishedAs[s] <= published
    /\ \A c \in Calls : /\ atBegin[c] <= published
                        /\ atAsk[c] <= published
                        /\ pc[c] = "fresh" => atAsk[c] = atAsk[source[c]]

\* The stamp a call works under is no older than its query, and the answer it
\* has in hand no older than that stamp.
Settled(c, s) == publishedAs[s] # None /\ publishedAs[s] >= atAsk[c]
HandEmpty ==
    /\ \A s \in Servers, k \in Keys \ MemoKeys : memo[s][k] = None
    /\ \A c \in Calls : pc[c] \in Asking => value[c] = None
InHand ==
    ~reused => \A c \in Calls :
        /\ reply[c] # None => Settled(c, reply[c])
        /\ pc[c] \in Reading \cup Storing \cup Blocking =>
               /\ Settled(c, read[c])
               /\ value[c] # None /\ key[c] \notin MemoKeys
                      => value[c] >= publishedAs[read[c]]

\* A call alone at its server sends its own query, or joins the warm-up.
AskedAfterBegin ==
    \A c \in Clients :
        LET w == WarmUp[ServerOf[c]] IN
        /\ pc[c] \notin {"idle", "gate", "ask"} => atAsk[c] >= atBegin[c]
        /\ pc[c] \notin Resting /\ pc[w] = "fresh" => atAsk[w] >= atBegin[c]
=============================================================================
