---------------------------- MODULE RuntimeSpans ----------------------------
(***************************************************************************)
(* Runtime evidence: processes of "autopology ingest-runtime" add spans to *)
(* lifetime counters and hourly windows while files are indexed again and  *)
(* the graph is cleared, and tools read the windows of a lookback, one     *)
(* statement after the other, each a transaction of its own.               *)
(*                                                                         *)
(* Data abstraction.  samples, error_count and avg_duration_ms of an       *)
(* aggregate, an edge or a window say how many spans it has counted, how   *)
(* many of them failed and their mean duration, so that each is the set of *)
(* spans it has counted, and does not exist while that is empty.  Scopes,  *)
(* names and last_seen are left out.  Times are in units of which an hour  *)
(* has Hour.  Operators M... are mutants.                                  *)
(***************************************************************************)
EXTENDS Integers, FiniteSets

CONSTANTS
    Nodes,      \* ids of functions
    Spans,      \* observed calls, each with its own process that ingests it
    CallerOf,   \* [Spans -> Nodes]
    CalleeOf,   \* [Spans -> Nodes]
    Failed,     \* the spans that are not ok
    Hour,       \* length of a window
    Horizon,    \* bound on the clock
    Lookbacks,  \* lookbacks of the tool calls
    Limit,      \* rows a statement returns: 10 to 50 in the code
    Readers,    \* tool calls
    None        \* no function

ASSUME SpanAssumption ==
    /\ CallerOf \in [Spans -> Nodes]
    /\ CalleeOf \in [Spans -> Nodes]
    /\ Failed \subseteq Spans
    /\ IsFiniteSet(Spans)
    /\ None \notin Nodes

ASSUME TimeAssumption ==
    /\ Hour \in Nat \ {0}
    /\ Horizon \in Nat
    /\ Lookbacks \subseteq Nat \ {0}
    /\ Limit \in Nat \ {0}

VARIABLES
    now,        \* the clock
    present,    \* the function nodes in the graph
    \* the spans counted by
    agg,        \* RuntimeSpanAggregate, by caller and callee
    edge,       \* OBSERVED_CALL, by caller and callee
    window,     \* RuntimeWindow, by caller, callee and bucket_start
    \* each process of ingest-runtime
    cli,        \* how far it is
    at,         \* the timestamp of its span
    \* each tool call
    pc,
    tool,       \* what it asks: about a function, about all, or for traces
    target,     \* the function it is about, or None
    since,      \* lookback_start
    incoming,   \* spans in samples and error_rate
    called_by, calls_to, failures, hotspots, traces, \* rows: sets of spans
    completeness,
    \* history, read by properties only
    lasting,    \* what windows have counted all along since the call began
    torn        \* the calls during which the graph was cleared

graph == <<present, agg, edge, window>>
clis == <<cli, at>>
results == <<incoming, called_by, calls_to, failures, hotspots, traces>>
readers == <<pc, tool, target, since, results, completeness>>
vars == <<now, graph, clis, readers, lasting, torn>>

Times == 0 .. Horizon
Pairs == Nodes \X Nodes
Pair(s) == <<CallerOf[s], CalleeOf[s]>>

\* toHourBucket: minutes, seconds and milliseconds set to 0.
MNextHour(t) == t - (t % Hour) + Hour
Bucket(t) == t - (t % Hour)
Buckets == {Bucket(t) : t \in Times}

NothingCounted == [p \in Pairs |-> {}]
NoWindows == [p \in Pairs |-> [b \in Buckets |-> {}]]
Counted == UNION {window[p][b] : p \in Pairs, b \in Buckets}

Lines == {"idle", "resolve", "incoming", "callers", "outgoing", "failures", "fallback",
          "hotspots", "allFailures", "traces", "allTraces", "done"}
Tools == {"incoming", "hotspots", "traces"}  \* named by their first windows
Firsts == Tools \cup {"resolve"}
Rows == SUBSET SUBSET Spans

TypeOK ==
    /\ now \in Times
    /\ present \subseteq Nodes
    /\ agg \in [Pairs -> SUBSET Spans]
    /\ edge \in [Pairs -> SUBSET Spans]
    /\ window \in [Pairs -> [Buckets -> SUBSET Spans]]
    /\ cli \in [Spans -> {"idle", "ingest", "done"}]
    /\ at \in [Spans -> Times]
    /\ pc \in [Readers -> Lines]
    /\ tool \in [Readers -> Tools]
    /\ target \in [Readers -> Nodes \cup {None}]
    /\ since \in [Readers -> Int]
    /\ incoming \in [Readers -> SUBSET Spans]
    /\ called_by \in [Readers -> Rows]
    /\ calls_to \in [Readers -> Rows]
    /\ failures \in [Readers -> Rows]
    /\ hotspots \in [Readers -> Rows]
    /\ traces \in [Readers -> Rows]
    /\ completeness \in [Readers -> {"open", "windowed", "partial", "failed"}]
    /\ lasting \in [Readers -> SUBSET Spans]
    /\ torn \subseteq Readers

Init ==
    /\ now = 0
    /\ present = Nodes
    /\ agg = NothingCounted
    /\ edge = NothingCounted
    /\ window = NoWindows
    /\ cli = [s \in Spans |-> "idle"]
    /\ at = [s \in Spans |-> 0]
    /\ pc = [q \in Readers |-> "idle"]
    /\ tool = [q \in Readers |-> "incoming"]
    /\ target = [q \in Readers |-> None]
    /\ since = [q \in Readers |-> 0]
    /\ incoming = [q \in Readers |-> {}]
    /\ called_by = [q \in Readers |-> {}]
    /\ calls_to = [q \in Readers |-> {}]
    /\ failures = [q \in Readers |-> {}]
    /\ hotspots = [q \in Readers |-> {}]
    /\ traces = [q \in Readers |-> {}]
    /\ completeness = [q \in Readers |-> "open"]
    /\ lasting = [q \in Readers |-> {}]
    /\ torn = {}

-----------------------------------------------------------------------------
(* The graph changes.                                                      *)

Tick ==
    /\ now < Horizon
    /\ now' = now + 1
    /\ UNCHANGED <<graph, clis, readers, lasting, torn>>

\* deleteFileSubgraph detaches the functions of a file: evidence kept on edges
\* is lost, evidence kept on nodes of its own is not.
Remove(n) ==
    /\ n \in present
    /\ present' = present \ {n}
    /\ edge' = [p \in Pairs |-> IF n \in {p[1], p[2]} THEN {} ELSE edge[p]]
    /\ UNCHANGED <<now, agg, window, clis, readers, lasting, torn>>

\* applyBatch brings them back.
Restore(n) ==
    /\ n \notin present
    /\ present' = present \cup {n}
    /\ UNCHANGED <<now, agg, edge, window, clis, readers, lasting, torn>>

\* clearGraph: every node of the scope.
ClearGraph ==
    /\ present' = {}
    /\ agg' = NothingCounted
    /\ edge' = NothingCounted
    /\ window' = NoWindows
    /\ lasting' = [q \in Readers |-> {}]
    /\ torn' = Readers
    /\ UNCHANGED <<now, clis, readers>>

\* ingest-runtime: the span has the time at which the command read the clock,
\* and is ingested some awaits later, perhaps after younger ones.
ReadClock(s) ==
    /\ cli[s] = "idle"
    /\ cli' = [cli EXCEPT ![s] = "ingest"]
    /\ at' = [at EXCEPT ![s] = now]
    /\ UNCHANGED <<now, graph, readers, lasting, torn>>

\* ingestSpan, one statement: nothing at all happens unless both ends are
\* there when it runs.
MNewWindow(s) ==
    /\ cli[s] = "ingest"
    /\ cli' = [cli EXCEPT ![s] = "done"]
    /\ IF {CallerOf[s], CalleeOf[s]} \subseteq present
       THEN /\ agg' = [agg EXCEPT ![Pair(s)] = @ \cup {s}]
            /\ edge' = [edge EXCEPT ![Pair(s)] = @ \cup {s}]
            /\ window' = [window EXCEPT ![Pair(s)][Bucket(at[s])] = {s}]
       ELSE UNCHANGED <<agg, edge, window>>
    /\ UNCHANGED <<now, present, at, readers, lasting, torn>>
IngestSpan(s) ==
    /\ cli[s] = "ingest"
    /\ cli' = [cli EXCEPT ![s] = "done"]
    /\ IF {CallerOf[s], CalleeOf[s]} \subseteq present
       THEN /\ agg' = [agg EXCEPT ![Pair(s)] = @ \cup {s}]
            /\ edge' = [edge EXCEPT ![Pair(s)] = @ \cup {s}]
            /\ window' = [window EXCEPT ![Pair(s)][Bucket(at[s])] = @ \cup {s}]
       ELSE UNCHANGED <<agg, edge, window>>
    /\ UNCHANGED <<now, present, at, readers, lasting, torn>>

-----------------------------------------------------------------------------
(* execution_reality and query_execution_trace.                            *)

\* WHERE w.bucket_start >= datetime($sinceIso)
InLookback(q) == {w \in {window[p][b] : p \in Pairs, b \in {x \in Buckets : x >= since[q]}} :
                      w # {}}
Failing(q) == {w \in InLookback(q) : w \cap Failed # {}}

Spanned(rows) == UNION rows
Into(rows, n) == {s \in Spanned(rows) : CalleeOf[s] = n}
OutOf(rows, n) == {s \in Spanned(rows) : CallerOf[s] = n}

\* sum(..) by the values that end has on the spans.
GroupBy(spans, end) == {{s \in spans : end[s] = n} : n \in {end[s] : s \in spans}}

\* LIMIT: as many rows as it allows.
Cut(rows) ==
    {top \in SUBSET rows :
        Cardinality(top) = IF Cardinality(rows) <= Limit THEN Cardinality(rows) ELSE Limit}

\* ORDER BY .. LIMIT: the rows that come first, any of those that tie.
MoreSamples(r, o) == Cardinality(r) > Cardinality(o)
MoreErrors(r, o) == Cardinality(r \cap Failed) > Cardinality(o \cap Failed)
SameErrors(r, o) == Cardinality(r \cap Failed) = Cardinality(o \cap Failed)
Newer(r, o) == \E s \in r, t \in o : Bucket(at[s]) > Bucket(at[t])

MostSamples(rows) == {top \in Cut(rows) : \A r \in top, o \in rows \ top : ~MoreSamples(o, r)}
MostErrors(rows) ==
    {top \in Cut(rows) : \A r \in top, o \in rows \ top :
        ~MoreErrors(o, r) /\ ~(SameErrors(o, r) /\ MoreSamples(o, r))}
Newest(rows) ==
    {top \in Cut(rows) : \A r \in top, o \in rows \ top :
        ~Newer(o, r) /\ (MoreErrors(o, r) => Newer(r, o))}

\* What the statements return.
MCallerRows(q) == MostSamples(GroupBy(OutOf(InLookback(q), target[q]), CallerOf))
CallerRows(q) == MostSamples(GroupBy(Into(InLookback(q), target[q]), CallerOf))
CalleeRows(q) == MostSamples(GroupBy(OutOf(InLookback(q), target[q]), CalleeOf))
FailureRows(q) == Newest({w \in Failing(q) : \A s \in w : CalleeOf[s] = target[q]})
SnapshotRows(q) == MostSamples({edge[p] : p \in {x \in Pairs : x[1] = target[q]}} \ {{}})
HotspotRows(q) == MostSamples(GroupBy(Spanned(InLookback(q)), CalleeOf))
AllFailureRows(q) == Newest(Failing(q))
TraceRows(q) ==
    MostErrors({w \in Failing(q) : \A s \in w : target[q] \in {CallerOf[s], CalleeOf[s]}})
AllTraceRows(q) == MostErrors(Failing(q))

Goto(q, l) == pc' = [pc EXCEPT ![q] = l]

\* A tool is called about a function, by its id or by a name that has to be
\* resolved, about everything ("*"), or for traces of an error;
\* lookbackAnchorIso reads the clock.
Call(q, t, n, l) ==
    /\ pc[q] \in {"idle", "done"}
    /\ Goto(q, t)
    /\ tool' = [tool EXCEPT ![q] = IF t = "resolve" THEN "incoming" ELSE t]
    /\ target' = [target EXCEPT ![q] = IF t = "hotspots" THEN None ELSE n]
    /\ since' = [since EXCEPT ![q] = now - l]
    /\ incoming' = [incoming EXCEPT ![q] = {}]
    /\ called_by' = [called_by EXCEPT ![q] = {}]
    /\ calls_to' = [calls_to EXCEPT ![q] = {}]
    /\ failures' = [failures EXCEPT ![q] = {}]
    /\ hotspots' = [hotspots EXCEPT ![q] = {}]
    /\ traces' = [traces EXCEPT ![q] = {}]
    /\ completeness' = [completeness EXCEPT ![q] = "open"]
    /\ lasting' = [lasting EXCEPT ![q] = Counted]
    /\ torn' = torn \ {q}
    /\ UNCHANGED <<now, graph, clis>>

\* resolveTargetNodeIds of a name: from the memo, of a graph up to 1.5 s old, or
\* by findTarget, which scores candidates.  It finds the function, another node,
\* or nothing, as it may while the file is indexed again: then the answer is a
\* failure without samples.
ResolveTarget(q) ==
    /\ pc[q] = "resolve"
    /\ \E n \in Nodes \cup {None} :
           /\ target' = [target EXCEPT ![q] = n]
           /\ IF n = None
              THEN Goto(q, "done") /\ completeness' = [completeness EXCEPT ![q] = "failed"]
              ELSE Goto(q, "incoming") /\ UNCHANGED completeness
    /\ UNCHANGED <<now, graph, clis, tool, since, results, lasting, torn>>

Incoming(q) ==
    /\ pc[q] = "incoming"
    /\ Goto(q, "callers")
    /\ incoming' = [incoming EXCEPT ![q] = Into(InLookback(q), target[q])]
    /\ UNCHANGED <<now, graph, clis, tool, target, since, called_by, calls_to, failures, hotspots,
                   traces, completeness, lasting, torn>>

ByCaller(q) ==
    /\ pc[q] = "callers"
    /\ Goto(q, "outgoing")
    /\ \E rows \in CallerRows(q) : called_by' = [called_by EXCEPT ![q] = rows]
    /\ UNCHANGED <<now, graph, clis, tool, target, since, incoming, calls_to, failures, hotspots,
                   traces, completeness, lasting, torn>>

Outgoing(q) ==
    /\ pc[q] = "outgoing"
    /\ Goto(q, "failures")
    /\ \E rows \in CalleeRows(q) : calls_to' = [calls_to EXCEPT ![q] = rows]
    /\ UNCHANGED <<now, graph, clis, tool, target, since, incoming, called_by, failures, hotspots,
                   traces, completeness, lasting, torn>>

HasWindowData(q) == incoming[q] # {} \/ called_by[q] # {} \/ calls_to[q] # {}

Failures(q) ==
    /\ pc[q] = "failures"
    /\ \E rows \in FailureRows(q) : failures' = [failures EXCEPT ![q] = rows]
    /\ IF HasWindowData(q)
       THEN Goto(q, "done") /\ completeness' = [completeness EXCEPT ![q] = "windowed"]
       ELSE Goto(q, "fallback") /\ UNCHANGED completeness
    /\ UNCHANGED <<now, graph, clis, tool, target, since, incoming, called_by, calls_to, hotspots,
                   traces, lasting, torn>>

\* getRuntimeSnapshot: lifetime counters of the calls the function makes.
Fallback(q) ==
    /\ pc[q] = "fallback"
    /\ Goto(q, "done")
    /\ \E rows \in SnapshotRows(q) :
           /\ calls_to' = [calls_to EXCEPT ![q] = rows]
           /\ incoming' = [incoming EXCEPT ![q] = Spanned(rows)]
           /\ completeness' = [completeness EXCEPT ![q] = IF rows # {} THEN "partial" ELSE "failed"]
    /\ failures' = [failures EXCEPT ![q] = {}]
    /\ UNCHANGED <<now, graph, clis, tool, target, since, called_by, hotspots, traces, lasting, torn>>

Hotspots(q) ==
    /\ pc[q] = "hotspots"
    /\ Goto(q, "allFailures")
    /\ \E rows \in HotspotRows(q) : hotspots' = [hotspots EXCEPT ![q] = rows]
    /\ UNCHANGED <<now, graph, clis, tool, target, since, incoming, called_by, calls_to, failures,
                   traces, completeness, lasting, torn>>

AllFailures(q) ==
    /\ pc[q] = "allFailures"
    /\ Goto(q, "done")
    /\ \E rows \in AllFailureRows(q) : failures' = [failures EXCEPT ![q] = rows]
    /\ incoming' = [incoming EXCEPT ![q] = Spanned(hotspots[q])]
    /\ completeness' =
           [completeness EXCEPT ![q] = IF hotspots[q] # {} THEN "windowed" ELSE "partial"]
    /\ UNCHANGED <<now, graph, clis, tool, target, since, called_by, calls_to, hotspots, traces,
                   lasting, torn>>

\* Windows whose ids contain what was asked for; when there are none, all that
\* failed.
Traces(q) ==
    /\ pc[q] = "traces"
    /\ \E rows \in TraceRows(q) :
           /\ traces' = [traces EXCEPT ![q] = rows]
           /\ Goto(q, IF rows = {} THEN "allTraces" ELSE "done")
    /\ UNCHANGED <<now, graph, clis, tool, target, since, incoming, called_by, calls_to, failures,
                   hotspots, completeness, lasting, torn>>

MNoSecondTry(q) ==
    /\ pc[q] = "allTraces"
    /\ Goto(q, "done")
    /\ UNCHANGED <<now, graph, clis, tool, target, since, results, completeness, lasting, torn>>
AllTraces(q) ==
    /\ pc[q] = "allTraces"
    /\ Goto(q, "done")
    /\ \E rows \in AllTraceRows(q) : traces' = [traces EXCEPT ![q] = rows]
    /\ UNCHANGED <<now, graph, clis, tool, target, since, incoming, called_by, calls_to, failures,
                   hotspots, completeness, lasting, torn>>

Read(q) ==
    \/ ResolveTarget(q) \/ Incoming(q) \/ ByCaller(q) \/ Outgoing(q) \/ Failures(q) \/ Fallback(q)
    \/ Hotspots(q) \/ AllFailures(q)
    \/ Traces(q) \/ AllTraces(q)

Next ==
    \/ Tick
    \/ ClearGraph
    \/ \E n \in Nodes : Remove(n) \/ Restore(n)
    \/ \E s \in Spans : ReadClock(s) \/ IngestSpan(s)
    \/ \E q \in Readers :
        \/ \E t \in Firsts, n \in Nodes, l \in Lookbacks : Call(q, t, n, l)
        \/ Read(q)

Spec == Init /\ [][Next]_vars

-----------------------------------------------------------------------------
(* Properties.                                                             *)

\* Every span that found its functions is counted once in the lifetime
\* aggregate and once in the window of its own hour, however late it comes,
\* and an edge that survived or came back never claims more than they do.
WindowsAddUp ==
    \A p \in Pairs :
        /\ agg[p] = UNION {window[p][b] : b \in Buckets}
        /\ edge[p] \subseteq agg[p]
        /\ edge[p] # {} => {p[1], p[2]} \subseteq present
        /\ \A b \in Buckets : \A s \in window[p][b] : Pair(s) = p /\ Bucket(at[s]) = b

Reported(q) ==
    incoming[q] \cup Spanned(called_by[q] \cup calls_to[q] \cup failures[q] \cup hotspots[q]
                             \cup traces[q])

\* No answer counts a span older than its lookback, but for the answer that
\* says it is partial: windows start at most as late as their spans.
AnswersWithinLookback ==
    \A q \in Readers : pc[q] = "done" /\ completeness[q] # "partial"
                          => \A s \in Reported(q) : at[s] >= since[q]

Full(rows) == Cardinality(rows) >= Limit

\* A span that a window has counted since before the call began, and that is
\* more than an hour inside the lookback, is in the answer, whatever is
\* ingested, indexed or cleared while the statements run: in the samples of
\* its callee, the callees of its caller, the hotspots, and, if it failed, in
\* the traces of its two ends; a search for any other error returns something.
\* The function is the one that the call's name was resolved to: a call whose
\* name resolves to none, as while its file is indexed again, is answered
\* "failed" with no samples, whatever the windows have counted.
RecentSpansCounted ==
    \A q \in Readers : pc[q] = "done" =>
        \A s \in lasting[q] : at[s] >= since[q] + Hour =>
            /\ tool[q] = "incoming" =>
                /\ CalleeOf[s] = target[q] => completeness[q] = "windowed" /\ s \in incoming[q]
                /\ CallerOf[s] = target[q] =>
                       completeness[q] = "windowed" /\ (Full(calls_to[q]) \/ s \in Spanned(calls_to[q]))
            /\ tool[q] = "hotspots" => Full(hotspots[q]) \/ s \in Spanned(hotspots[q])
            /\ tool[q] = "traces" /\ s \in Failed =>
                /\ traces[q] # {}
                /\ target[q] \in {CallerOf[s], CalleeOf[s]} =>
                       Full(traces[q]) \/ s \in Spanned(traces[q])

\* The statements of one answer are transactions of their own, but unless the
\* graph is cleared between them each sees what the one before it saw: every
\* sample is of a caller listed, and every error of a failure listed, as long
\* as the lists are not full.
TotalsMatchRows ==
    \A q \in Readers \ torn :
        pc[q] = "done" /\ tool[q] = "incoming" /\ completeness[q] = "windowed" =>
            /\ Full(called_by[q]) \/ incoming[q] \subseteq Spanned(called_by[q])
            /\ Full(failures[q]) \/ incoming[q] \cap Failed \subseteq Spanned(failures[q])
=============================================================================
