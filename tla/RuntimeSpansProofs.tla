------------------------- MODULE RuntimeSpansProofs -------------------------
(***************************************************************************)
(* Proofs about RuntimeSpans, for any functions, spans, clocks, lookbacks, *)
(* limits and tool calls.                                                  *)
(***************************************************************************)
EXTENDS RuntimeSpans, FiniteSetTheorems, TLAPS

-----------------------------------------------------------------------------
(* Helpers.                                                                *)

\* A window starts at most as late as its spans, and less than an hour before.
LEMMA BucketBounds ==
  ASSUME NEW t \in Nat
  PROVE  Bucket(t) \in Int /\ Bucket(t) <= t /\ t < Bucket(t) + Hour
  BY TimeAssumption DEF Bucket

\* A list that is not full is the whole list.
LEMMA CutRows ==
  ASSUME NEW rows \in Rows, NEW top \in Cut(rows)
  PROVE  /\ top \in Rows /\ top \subseteq rows
         /\ Full(top) \/ top = rows
         /\ rows # {} => top # {}
  <1>1. IsFiniteSet(SUBSET Spans)
    BY SpanAssumption, FS_SUBSET
  <1>2. IsFiniteSet(rows) /\ top \subseteq rows /\ top \in Rows
    BY <1>1, FS_Subset DEF Rows, Cut
  <1>3. IsFiniteSet(top) /\ Cardinality(rows) \in Nat /\ Cardinality(top) \in Nat
    BY <1>2, FS_Subset, FS_CardinalityType
  <1>4. Cardinality(top) = IF Cardinality(rows) <= Limit THEN Cardinality(rows) ELSE Limit
    BY DEF Cut
  <1>5. Full(top) \/ Cardinality(top) = Cardinality(rows)
    BY <1>3, <1>4, TimeAssumption DEF Full
  <1>6. Cardinality(top) = Cardinality(rows) => top = rows
    BY <1>2, FS_Subset
  <1>7. rows # {} => top # {}
    <2>1. Cardinality({}) = 0
      BY FS_EmptySet
    <2>2. Cardinality(top) # 0 \/ Cardinality(top) = Cardinality(rows)
      BY <1>3, <1>4, TimeAssumption
    <2> QED
      BY <1>6, <2>1, <2>2
  <1> QED
    BY <1>2, <1>5, <1>6, <1>7

\* So is one in some order.
LEMMA FirstRows ==
  ASSUME NEW rows \in Rows, NEW top \in MostSamples(rows) \cup MostErrors(rows) \cup Newest(rows)
  PROVE  /\ top \in Rows /\ top \subseteq rows
         /\ Full(top) \/ top = rows
         /\ rows # {} => top # {}
  <1>1. top \in Cut(rows)
    BY DEF MostSamples, MostErrors, Newest
  <1> QED
    BY <1>1, CutRows

LEMMA GroupedSpans ==
  ASSUME NEW spans \in SUBSET Spans, NEW end
  PROVE  GroupBy(spans, end) \in Rows /\ Spanned(GroupBy(spans, end)) = spans
  BY DEF GroupBy, Spanned, Rows

\* Both: sums by caller or callee, limited.
LEMMA GroupedRows ==
  ASSUME NEW spans \in SUBSET Spans, NEW end, NEW top \in MostSamples(GroupBy(spans, end))
  PROVE  /\ top \in Rows
         /\ Spanned(top) \subseteq spans
         /\ Full(top) \/ Spanned(top) = spans
         /\ spans # {} => top # {}
  <1>1. GroupBy(spans, end) \in Rows /\ Spanned(GroupBy(spans, end)) = spans
    BY GroupedSpans
  <1>2. /\ top \in Rows /\ top \subseteq GroupBy(spans, end)
        /\ Full(top) \/ top = GroupBy(spans, end)
        /\ GroupBy(spans, end) # {} => top # {}
    BY <1>1, FirstRows
  <1> QED
    BY <1>1, <1>2 DEF Spanned

\* What a query of windows sees.
Recent(q) == {s \in Counted : Bucket(at[s]) >= since[q]}

LEMMA CountedSpans ==
  ASSUME TypeOK, WindowsAddUp
  PROVE  /\ Counted \subseteq Spans
         /\ \A s \in Spans : s \in Counted <=> s \in window[Pair(s)][Bucket(at[s])]
         /\ \A p \in Pairs : agg[p] \subseteq Counted /\ edge[p] \subseteq Counted
         /\ \A p \in Pairs : \A s \in edge[p] : Pair(s) = p
  <1>0. window \in [Pairs -> [Buckets -> SUBSET Spans]]
    BY DEF TypeOK
  <1>1. \A p \in Pairs : \A b \in Buckets : window[p][b] \subseteq Counted /\ window[p][b] \subseteq Spans
    BY <1>0 DEF Counted
  <1>2. ASSUME NEW s \in Counted
        PROVE  s \in Spans /\ s \in window[Pair(s)][Bucket(at[s])]
    <2>1. PICK p \in Pairs, b \in Buckets : s \in window[p][b]
      BY DEF Counted
    <2>2. Pair(s) = p /\ Bucket(at[s]) = b
      BY <2>1 DEF WindowsAddUp
    <2> QED
      BY <1>1, <2>1, <2>2
  <1>3. ASSUME NEW s \in Spans PROVE Pair(s) \in Pairs /\ Bucket(at[s]) \in Buckets
    BY SpanAssumption DEF Pair, Pairs, Buckets, TypeOK
  <1>4. \A p \in Pairs : agg[p] \subseteq Counted /\ edge[p] \subseteq Counted
    BY <1>1 DEF WindowsAddUp
  <1>5. \A p \in Pairs : \A s \in edge[p] : Pair(s) = p
    BY DEF WindowsAddUp
  <1> QED
    BY <1>1, <1>2, <1>3, <1>4, <1>5

LEMMA LookbackRows ==
  ASSUME TypeOK, WindowsAddUp, NEW q \in Readers
  PROVE  /\ InLookback(q) \in Rows /\ Failing(q) \in Rows
         /\ Spanned(InLookback(q)) = Recent(q)
         /\ \A s \in Recent(q) \cap Failed : \E w \in Failing(q) : s \in w
         /\ \A w \in Failing(q) : w \subseteq Recent(q)
         /\ \A w \in InLookback(q) : \A s, t \in w : Pair(s) = Pair(t)
  <1>0. window \in [Pairs -> [Buckets -> SUBSET Spans]]
    BY DEF TypeOK
  <1>1. InLookback(q) \in Rows /\ Failing(q) \in Rows
    BY <1>0 DEF InLookback, Failing, Rows
  <1>2. ASSUME NEW w \in InLookback(q)
        PROVE  w \subseteq Recent(q) /\ \A s, t \in w : Pair(s) = Pair(t)
    <2>1. PICK p \in Pairs, b \in Buckets : b >= since[q] /\ w = window[p][b]
      BY DEF InLookback
    <2>2. \A s \in w : s \in Counted
      BY <2>1 DEF Counted
    <2>3. \A s \in w : Bucket(at[s]) = b /\ Pair(s) = p
      BY <2>1 DEF WindowsAddUp
    <2> QED
      BY <2>1, <2>2, <2>3 DEF Recent
  <1>3. ASSUME NEW s \in Recent(q)
        PROVE  \E w \in InLookback(q) : s \in w
    <2>1. s \in Spans /\ s \in window[Pair(s)][Bucket(at[s])] /\ Bucket(at[s]) >= since[q]
      BY CountedSpans DEF Recent
    <2>2. Pair(s) \in Pairs /\ Bucket(at[s]) \in Buckets
      BY <2>1, SpanAssumption DEF Pair, Pairs, Buckets, TypeOK
    <2> QED
      BY <2>1, <2>2 DEF InLookback
  <1>4. \A s \in Recent(q) \cap Failed : \E w \in Failing(q) : s \in w
    BY <1>3 DEF Failing
  <1>5. Failing(q) \subseteq InLookback(q)
    BY DEF Failing
  <1>6. Spanned(InLookback(q)) = Recent(q)
    BY <1>2, <1>3 DEF Spanned
  <1> QED
    BY <1>1, <1>2, <1>4, <1>5, <1>6

\* Spans more than an hour inside a lookback are seen.
LEMMA HourInside ==
  ASSUME TypeOK, WindowsAddUp, NEW q \in Readers, NEW s \in Counted, at[s] >= since[q] + Hour
  PROVE  s \in Recent(q)
  <1>1. s \in Spans
    BY CountedSpans
  <1>0. at \in [Spans -> Times] /\ since \in [Readers -> Int]
    BY DEF TypeOK
  <1>2. at[s] \in Nat /\ since[q] \in Int /\ Hour \in Nat
    BY <1>0, <1>1, TimeAssumption DEF Times
  <1>3. Bucket(at[s]) \in Int /\ at[s] < Bucket(at[s]) + Hour
    BY <1>2, BucketBounds
  <1>4. Bucket(at[s]) >= since[q]
    BY <1>2, <1>3
  <1> QED
    BY <1>4 DEF Recent

LEMMA RecentInside ==
  ASSUME TypeOK, WindowsAddUp, NEW q \in Readers, NEW s \in Recent(q)
  PROVE  at[s] >= since[q]
  <1>1. s \in Spans /\ Bucket(at[s]) >= since[q]
    BY CountedSpans DEF Recent
  <1>0. at \in [Spans -> Times] /\ since \in [Readers -> Int]
    BY DEF TypeOK
  <1>2. at[s] \in Nat /\ since[q] \in Int
    BY <1>0, <1>1 DEF Times
  <1> QED
    BY <1>1, <1>2, BucketBounds

\* What the statements return.
LEMMA GroupRows ==
  ASSUME TypeOK, WindowsAddUp, NEW q \in Readers
  PROVE  /\ Into(InLookback(q), target[q]) = {s \in Recent(q) : CalleeOf[s] = target[q]}
         /\ Into(InLookback(q), target[q]) \in SUBSET Spans
         /\ \A rows \in CallerRows(q) :
                /\ rows \in Rows /\ Spanned(rows) \subseteq Recent(q)
                /\ Full(rows) \/ \A s \in Recent(q) : CalleeOf[s] = target[q] => s \in Spanned(rows)
         /\ \A rows \in CalleeRows(q) :
                /\ rows \in Rows /\ Spanned(rows) \subseteq Recent(q)
                /\ Full(rows) \/ \A s \in Recent(q) : CallerOf[s] = target[q] => s \in Spanned(rows)
                /\ (\E s \in Recent(q) : CallerOf[s] = target[q]) => rows # {}
         /\ \A rows \in HotspotRows(q) :
                /\ rows \in Rows /\ Spanned(rows) \subseteq Recent(q)
                /\ Full(rows) \/ Spanned(rows) = Recent(q)
  <1> DEFINE callers == Into(InLookback(q), target[q])
             callees == OutOf(InLookback(q), target[q])
  <1>1. Spanned(InLookback(q)) = Recent(q) /\ Recent(q) \in SUBSET Spans
    BY LookbackRows, CountedSpans DEF Recent
  <1>2. /\ callers = {s \in Recent(q) : CalleeOf[s] = target[q]}
        /\ callees = {s \in Recent(q) : CallerOf[s] = target[q]}
        /\ callers \in SUBSET Spans /\ callees \in SUBSET Spans
    BY <1>1 DEF Into, OutOf
  <1>3. \A rows \in CallerRows(q) :
            /\ rows \in Rows /\ Spanned(rows) \subseteq callers
            /\ Full(rows) \/ Spanned(rows) = callers
    BY <1>2, GroupedRows DEF CallerRows
  <1>4. \A rows \in CalleeRows(q) :
            /\ rows \in Rows /\ Spanned(rows) \subseteq callees
            /\ Full(rows) \/ Spanned(rows) = callees
            /\ callees # {} => rows # {}
    BY <1>2, GroupedRows DEF CalleeRows
  <1>5. \A rows \in HotspotRows(q) :
            /\ rows \in Rows /\ Spanned(rows) \subseteq Recent(q)
            /\ Full(rows) \/ Spanned(rows) = Recent(q)
    BY <1>1, GroupedRows DEF HotspotRows
  <1> HIDE DEF callers, callees
  <1>6. callers = Into(InLookback(q), target[q])
    BY DEF callers
  <1> QED
    BY <1>2, <1>3, <1>4, <1>5, <1>6

LEMMA FailingRows ==
  ASSUME TypeOK, WindowsAddUp, NEW q \in Readers
  PROVE  /\ \A rows \in FailureRows(q) :
                /\ rows \in Rows /\ Spanned(rows) \subseteq Recent(q)
                /\ \/ Full(rows)
                   \/ \A s \in Recent(q) \cap Failed : CalleeOf[s] = target[q] => s \in Spanned(rows)
         /\ \A rows \in AllFailureRows(q) : rows \in Rows /\ Spanned(rows) \subseteq Recent(q)
         /\ \A rows \in TraceRows(q) :
                /\ rows \in Rows /\ Spanned(rows) \subseteq Recent(q)
                /\ \/ Full(rows)
                   \/ \A s \in Recent(q) \cap Failed :
                          target[q] \in {CallerOf[s], CalleeOf[s]} => s \in Spanned(rows)
                /\ (\E s \in Recent(q) \cap Failed : target[q] \in {CallerOf[s], CalleeOf[s]})
                       => rows # {}
         /\ \A rows \in AllTraceRows(q) :
                /\ rows \in Rows /\ Spanned(rows) \subseteq Recent(q)
                /\ Full(rows) \/ Recent(q) \cap Failed \subseteq Spanned(rows)
                /\ Recent(q) \cap Failed # {} => rows # {}
  <1> DEFINE into == {w \in Failing(q) : \A s \in w : CalleeOf[s] = target[q]}
             ends == {w \in Failing(q) : \A s \in w : target[q] \in {CallerOf[s], CalleeOf[s]}}
  <1>1. /\ Failing(q) \in Rows
        /\ \A w \in Failing(q) : w \subseteq Recent(q)
        /\ \A s \in Recent(q) \cap Failed : \E w \in Failing(q) : s \in w
        /\ \A w \in Failing(q) : \A s, t \in w : Pair(s) = Pair(t)
    BY LookbackRows DEF Failing
  <1>2. /\ into \in Rows /\ ends \in Rows
        /\ into \subseteq Failing(q) /\ ends \subseteq Failing(q)
    BY <1>1 DEF Rows
  <1>3. ASSUME NEW s \in Recent(q) \cap Failed
        PROVE  /\ CalleeOf[s] = target[q] => \E w \in into : s \in w
               /\ target[q] \in {CallerOf[s], CalleeOf[s]} => \E w \in ends : s \in w
    <2>1. PICK w \in Failing(q) : s \in w
      BY <1>1
    <2>2. \A t \in w : CalleeOf[t] = CalleeOf[s] /\ CallerOf[t] = CallerOf[s]
      BY <1>1, <2>1 DEF Pair
    <2> QED
      BY <2>1, <2>2
  <1>4. ASSUME NEW all \in {into, ends, Failing(q)},
               NEW rows \in Newest(all) \cup MostErrors(all)
        PROVE  /\ rows \in Rows /\ Spanned(rows) \subseteq Recent(q)
               /\ Full(rows) \/ rows = all
               /\ all # {} => rows # {}
    <2>1. all \in Rows /\ all \subseteq Failing(q)
      BY <1>1, <1>2
    <2>2. /\ rows \in Rows /\ rows \subseteq all
          /\ Full(rows) \/ rows = all
          /\ all # {} => rows # {}
      BY <2>1, FirstRows
    <2> QED
      BY <1>1, <2>1, <2>2 DEF Spanned
  <1>5. \A rows \in FailureRows(q) :
            /\ rows \in Rows /\ Spanned(rows) \subseteq Recent(q)
            /\ Full(rows) \/ rows = into
    BY <1>4 DEF FailureRows
  <1>6. \A rows \in AllFailureRows(q) : rows \in Rows /\ Spanned(rows) \subseteq Recent(q)
    BY <1>4 DEF AllFailureRows
  <1>7. \A rows \in TraceRows(q) :
            /\ rows \in Rows /\ Spanned(rows) \subseteq Recent(q)
            /\ Full(rows) \/ rows = ends
            /\ ends # {} => rows # {}
    BY <1>4 DEF TraceRows
  <1>8. \A rows \in AllTraceRows(q) :
            /\ rows \in Rows /\ Spanned(rows) \subseteq Recent(q)
            /\ Full(rows) \/ rows = Failing(q)
            /\ Failing(q) # {} => rows # {}
    BY <1>4 DEF AllTraceRows
  <1> HIDE DEF into, ends
  <1>9. \A s \in Recent(q) \cap Failed : CalleeOf[s] = target[q] => s \in Spanned(into)
    BY <1>3 DEF Spanned
  <1>10. \A s \in Recent(q) \cap Failed :
            target[q] \in {CallerOf[s], CalleeOf[s]} => s \in Spanned(ends) /\ ends # {}
    BY <1>3 DEF Spanned
  <1>11. Recent(q) \cap Failed \subseteq Spanned(Failing(q))
    BY <1>1 DEF Spanned
  <1>12. Recent(q) \cap Failed # {} => Failing(q) # {}
    BY <1>1
  <1> QED
    BY <1>5, <1>6, <1>7, <1>8, <1>9, <1>10, <1>11, <1>12

LEMMA SnapshotSpans ==
  ASSUME TypeOK, WindowsAddUp, NEW q \in Readers, NEW rows \in SnapshotRows(q)
  PROVE  rows \in Rows /\ Spanned(rows) \in SUBSET Spans /\ Spanned(rows) \subseteq Counted
  <1> DEFINE all == {edge[p] : p \in {x \in Pairs : x[1] = target[q]}} \ {{}}
  <1>1. \A e \in all : e \subseteq Counted
    BY CountedSpans
  <1>2. Counted \subseteq Spans
    BY CountedSpans
  <1>3. all \in Rows
    BY <1>1, <1>2 DEF Rows
  <1>4. rows \in MostSamples(all)
    BY DEF SnapshotRows
  <1> HIDE DEF all
  <1>5. rows \subseteq all
    BY <1>3, <1>4, FirstRows
  <1> QED
    BY <1>1, <1>2, <1>3, <1>5 DEF Rows, Spanned

-----------------------------------------------------------------------------
(* Types.                                                                  *)

LEMMA TimeTypes == now \in Times => now \in Int /\ \A l \in Lookbacks : now - l \in Int
  BY TimeAssumption DEF Times

LEMMA InitTypeOK == Init => TypeOK
  <1> SUFFICES ASSUME Init PROVE TypeOK
    OBVIOUS
  <1>1. 0 \in Times /\ {} \in Rows /\ "incoming" \in Tools /\ "idle" \in Lines
    BY TimeAssumption DEF Times, Rows, Tools, Lines
  <1>2. /\ agg \in [Pairs -> SUBSET Spans] /\ edge \in [Pairs -> SUBSET Spans]
        /\ window \in [Pairs -> [Buckets -> SUBSET Spans]]
    BY DEF Init, NothingCounted, NoWindows
  <1>3. /\ now \in Times /\ present \subseteq Nodes
        /\ cli \in [Spans -> {"idle", "ingest", "done"}] /\ at \in [Spans -> Times]
        /\ torn \subseteq Readers /\ lasting \in [Readers -> SUBSET Spans]
    BY <1>1 DEF Init
  <1>4. /\ pc \in [Readers -> Lines] /\ tool \in [Readers -> Tools]
        /\ target \in [Readers -> Nodes \cup {None}] /\ since \in [Readers -> Int]
        /\ incoming \in [Readers -> SUBSET Spans]
        /\ completeness \in [Readers -> {"open", "windowed", "partial", "failed"}]
    BY <1>1 DEF Init
  <1>5. /\ called_by \in [Readers -> Rows] /\ calls_to \in [Readers -> Rows]
        /\ failures \in [Readers -> Rows] /\ hotspots \in [Readers -> Rows]
        /\ traces \in [Readers -> Rows]
    BY <1>1 DEF Init
  <1> QED
    BY <1>2, <1>3, <1>4, <1>5 DEF TypeOK

\* Each writer's step.
LEMMA WriterTypeOK ==
  ASSUME TypeOK, UNCHANGED <<readers>>,
         \/ Tick \/ ClearGraph
         \/ \E n \in Nodes : Remove(n) \/ Restore(n)
         \/ \E s \in Spans : ReadClock(s) \/ IngestSpan(s)
  PROVE  TypeOK'
  <1> DEFINE Writes == /\ now' \in Times /\ present' \subseteq Nodes
                       /\ agg' \in [Pairs -> SUBSET Spans]
                       /\ edge' \in [Pairs -> SUBSET Spans]
                       /\ window' \in [Pairs -> [Buckets -> SUBSET Spans]]
                       /\ cli' \in [Spans -> {"idle", "ingest", "done"}]
                       /\ at' \in [Spans -> Times]
                       /\ lasting' \in [Readers -> SUBSET Spans]
                       /\ torn' \subseteq Readers
  <1>0. Writes
    <2>0. /\ now \in Times /\ present \subseteq Nodes
          /\ agg \in [Pairs -> SUBSET Spans]
          /\ edge \in [Pairs -> SUBSET Spans]
          /\ window \in [Pairs -> [Buckets -> SUBSET Spans]]
          /\ cli \in [Spans -> {"idle", "ingest", "done"}]
          /\ at \in [Spans -> Times]
          /\ lasting \in [Readers -> SUBSET Spans]
          /\ torn \subseteq Readers
      BY DEF TypeOK
    <2>1. CASE Tick
      <3>1. now' \in Times
        BY <2>0, <2>1, TimeAssumption DEF Tick, Times
      <3> QED
        BY <2>0, <2>1, <3>1 DEF Tick, graph, clis
    <2>2. CASE ClearGraph
      BY <2>0, <2>2 DEF ClearGraph, NothingCounted, NoWindows, clis
    <2>3. ASSUME NEW n \in Nodes, Remove(n) \/ Restore(n)
          PROVE  Writes
      BY <2>0, <2>3 DEF Remove, Restore, clis
    <2>4. ASSUME NEW s \in Spans, ReadClock(s)
          PROVE  Writes
      BY <2>0, <2>4 DEF ReadClock, graph
    <2>5. ASSUME NEW s \in Spans, IngestSpan(s)
          PROVE  Writes
      <3>1. Pair(s) \in Pairs /\ Bucket(at[s]) \in Buckets
        BY <2>0, SpanAssumption DEF Pair, Pairs, Buckets
      <3>2. agg' = agg \/ agg' = [agg EXCEPT ![Pair(s)] = @ \cup {s}]
        BY <2>5 DEF IngestSpan
      <3>3. edge' = edge \/ edge' = [edge EXCEPT ![Pair(s)] = @ \cup {s}]
        BY <2>5 DEF IngestSpan
      <3>4. window' = window \/ window' = [window EXCEPT ![Pair(s)][Bucket(at[s])] = @ \cup {s}]
        BY <2>5 DEF IngestSpan
      <3>5. agg' \in [Pairs -> SUBSET Spans]
        <4>1. agg[Pair(s)] \cup {s} \in SUBSET Spans
          BY <2>0, <3>1
        <4> QED
          BY <2>0, <3>1, <3>2, <4>1
      <3>8. edge' \in [Pairs -> SUBSET Spans]
        <4>1. edge[Pair(s)] \cup {s} \in SUBSET Spans
          BY <2>0, <3>1
        <4> QED
          BY <2>0, <3>1, <3>3, <4>1
      <3>6. window' \in [Pairs -> [Buckets -> SUBSET Spans]]
        <4> DEFINE pair == Pair(s)
                   bucket == Bucket(at[s])
                   more == window[pair][bucket] \cup {s}
        <4>1. more \in SUBSET Spans /\ window[pair] \in [Buckets -> SUBSET Spans]
          BY <2>0, <3>1
        <4>2. [window[pair] EXCEPT ![bucket] = more] \in [Buckets -> SUBSET Spans]
          BY <4>1
        <4>3. \/ window' = window
              \/ window' = [window EXCEPT ![pair] = [window[pair] EXCEPT ![bucket] = more]]
          BY <3>4
        <4> HIDE DEF pair, bucket, more
        <4> QED
          BY <2>0, <4>2, <4>3
      <3>7. cli' \in [Spans -> {"idle", "ingest", "done"}]
        BY <2>0, <2>5 DEF IngestSpan
      <3> QED
        BY <2>0, <2>5, <3>5, <3>6, <3>7, <3>8 DEF IngestSpan
    <2> QED
      BY <2>1, <2>2, <2>3, <2>4, <2>5
  <1> QED
    BY <1>0 DEF TypeOK, readers, results

\* Each reader's step.
LEMMA ReaderTypeOK ==
  ASSUME TypeOK, WindowsAddUp, NEW q \in Readers,
         \/ \E t \in Firsts, n \in Nodes, l \in Lookbacks : Call(q, t, n, l)
         \/ Read(q)
  PROVE  TypeOK'
  <1> USE DEF Goto, graph, clis, results
  <1>1. ASSUME NEW t \in Firsts, NEW n \in Nodes, NEW l \in Lookbacks, Call(q, t, n, l)
        PROVE  TypeOK'
    <2>1. now - l \in Int /\ Counted \in SUBSET Spans /\ t \in Lines /\ {} \in Rows
      BY TimeTypes, CountedSpans DEF TypeOK, Firsts, Tools, Lines, Rows
    <2> QED
      BY <1>1, <2>1 DEF Call, TypeOK, Firsts, Tools
  <1>2. CASE Incoming(q)
    BY <1>2, GroupRows DEF Incoming, TypeOK, Lines
  <1>3. CASE ByCaller(q)
    BY <1>3, GroupRows DEF ByCaller, TypeOK, Lines
  <1>4. CASE Outgoing(q)
    BY <1>4, GroupRows DEF Outgoing, TypeOK, Lines
  <1>5. CASE Failures(q)
    BY <1>5, FailingRows DEF Failures, TypeOK, Lines
  <1>6. CASE Fallback(q)
    <2>1. {} \in Rows
      BY DEF Rows
    <2>2. PICK rows \in SnapshotRows(q) :
              /\ calls_to' = [calls_to EXCEPT ![q] = rows]
              /\ incoming' = [incoming EXCEPT ![q] = Spanned(rows)]
              /\ completeness' = [completeness EXCEPT ![q] = IF rows # {} THEN "partial"
                                                                           ELSE "failed"]
      BY <1>6 DEF Fallback
    <2>3. rows \in Rows /\ Spanned(rows) \in SUBSET Spans
      BY SnapshotSpans
    <2>4. /\ calls_to' \in [Readers -> Rows] /\ incoming' \in [Readers -> SUBSET Spans]
          /\ completeness' \in [Readers -> {"open", "windowed", "partial", "failed"}]
      BY <2>2, <2>3 DEF TypeOK
    <2> QED
      BY <1>6, <2>1, <2>4 DEF Fallback, TypeOK, Lines
  <1>7. CASE Hotspots(q)
    BY <1>7, GroupRows DEF Hotspots, TypeOK, Lines
  <1>8. CASE AllFailures(q)
    <2>1. Spanned(hotspots[q]) \in SUBSET Spans
      BY DEF TypeOK, Spanned, Rows
    <2> QED
      BY <1>8, <2>1, FailingRows DEF AllFailures, TypeOK, Lines
  <1>9. CASE Traces(q)
    BY <1>9, FailingRows DEF Traces, TypeOK, Lines
  <1>10. CASE AllTraces(q)
    BY <1>10, FailingRows DEF AllTraces, TypeOK, Lines
  <1>11. CASE ResolveTarget(q)
    <2>1. PICK n \in Nodes \cup {None} :
              /\ target' = [target EXCEPT ![q] = n]
              /\ pc' \in {[pc EXCEPT ![q] = "done"], [pc EXCEPT ![q] = "incoming"]}
              /\ completeness' \in {completeness, [completeness EXCEPT ![q] = "failed"]}
      BY <1>11 DEF ResolveTarget
    <2>2. "done" \in Lines /\ "incoming" \in Lines
      BY DEF Lines
    <2>3. /\ target \in [Readers -> Nodes \cup {None}] /\ pc \in [Readers -> Lines]
          /\ completeness \in [Readers -> {"open", "windowed", "partial", "failed"}]
      BY DEF TypeOK
    <2>4. target' \in [Readers -> Nodes \cup {None}]
      BY <2>1, <2>3
    <2>5. pc' \in [Readers -> Lines]
      BY <2>1, <2>2, <2>3
    <2>6. completeness' \in [Readers -> {"open", "windowed", "partial", "failed"}]
      BY <2>1, <2>3
    <2> QED
      BY <1>11, <2>4, <2>5, <2>6 DEF ResolveTarget, TypeOK
  <1> QED
    BY <1>1, <1>2, <1>3, <1>4, <1>5, <1>6, <1>7, <1>8, <1>9, <1>10, <1>11 DEF Read

-----------------------------------------------------------------------------
(* The counters.                                                           *)

Writer ==
    \/ Tick \/ ClearGraph
    \/ \E n \in Nodes : Remove(n) \/ Restore(n)
    \/ \E s \in Spans : ReadClock(s) \/ IngestSpan(s)

\* Only ingested spans are counted.
Ingested == \A s \in Counted : cli[s] = "done"

LEMMA CountersStep ==
  ASSUME TypeOK, WindowsAddUp, Ingested, Writer
  PROVE  WindowsAddUp'
  <1>0. /\ agg \in [Pairs -> SUBSET Spans] /\ edge \in [Pairs -> SUBSET Spans]
        /\ window \in [Pairs -> [Buckets -> SUBSET Spans]]
        /\ at \in [Spans -> Times] /\ cli \in [Spans -> {"idle", "ingest", "done"}]
    BY DEF TypeOK
  <1>1. CASE Tick
    BY <1>1 DEF Tick, graph, clis, WindowsAddUp
  <1>2. CASE ClearGraph
    BY <1>2 DEF ClearGraph, NothingCounted, NoWindows, WindowsAddUp
  <1>3. ASSUME NEW n \in Nodes, Remove(n) PROVE WindowsAddUp'
    BY <1>0, <1>3 DEF Remove, clis, WindowsAddUp
  <1>4. ASSUME NEW n \in Nodes, Restore(n) PROVE WindowsAddUp'
    BY <1>0, <1>4 DEF Restore, clis, WindowsAddUp
  <1>5. ASSUME NEW s \in Spans, ReadClock(s) PROVE WindowsAddUp'
    <2>1. UNCHANGED <<agg, edge, window, present>> /\ cli[s] = "idle" /\ at' = [at EXCEPT ![s] = now]
      BY <1>5 DEF ReadClock, graph
    <2>2. \A p \in Pairs, b \in Buckets : \A t \in window[p][b] : t # s /\ t \in Spans
      BY <1>0, <2>1 DEF Ingested, Counted
    <2>3. \A p \in Pairs, b \in Buckets : \A t \in window[p][b] : at'[t] = at[t]
      BY <1>0, <2>1, <2>2
    <2> QED
      BY <2>1, <2>3 DEF WindowsAddUp, Bucket
  <1>6. ASSUME NEW s \in Spans, IngestSpan(s) PROVE WindowsAddUp'
    <2>1. CASE UNCHANGED <<agg, edge, window>>
      BY <1>6, <2>1 DEF IngestSpan, WindowsAddUp
    <2>2. CASE /\ {CallerOf[s], CalleeOf[s]} \subseteq present
               /\ agg' = [agg EXCEPT ![Pair(s)] = @ \cup {s}]
               /\ edge' = [edge EXCEPT ![Pair(s)] = @ \cup {s}]
               /\ window' = [window EXCEPT ![Pair(s)][Bucket(at[s])] = @ \cup {s}]
      <3>1. Pair(s) \in Pairs /\ Bucket(at[s]) \in Buckets
        BY <1>0, SpanAssumption DEF Pair, Pairs, Buckets
      <3>2. at' = at /\ present' = present
        BY <1>6 DEF IngestSpan
      <3>3. \A p \in Pairs, b \in Buckets :
                window'[p][b] = IF p = Pair(s) /\ b = Bucket(at[s]) THEN window[p][b] \cup {s}
                                ELSE window[p][b]
        BY <1>0, <2>2, <3>1
      <3>4. \A p \in Pairs : agg'[p] = IF p = Pair(s) THEN agg[p] \cup {s} ELSE agg[p]
        BY <1>0, <2>2, <3>1
      <3>5. \A p \in Pairs : edge'[p] = IF p = Pair(s) THEN edge[p] \cup {s} ELSE edge[p]
        BY <1>0, <2>2, <3>1
      <3>6. ASSUME NEW p \in Pairs
            PROVE  agg'[p] = UNION {window'[p][b] : b \in Buckets}
        <4>1. agg[p] = UNION {window[p][b] : b \in Buckets}
          BY DEF WindowsAddUp
        <4>2. CASE p # Pair(s)
          <5>1. \A b \in Buckets : window'[p][b] = window[p][b]
            BY <3>3, <4>2
          <5> QED
            BY <3>4, <4>1, <4>2, <5>1
        <4>3. CASE p = Pair(s)
          <5>1. agg'[p] = agg[p] \cup {s}
            BY <3>4, <4>3
          <5>2. s \in window'[p][Bucket(at[s])]
            BY <3>1, <3>3, <4>3
          <5>3. \A b \in Buckets : window[p][b] \subseteq window'[p][b]
                                   /\ window'[p][b] \subseteq window[p][b] \cup {s}
            BY <3>3
          <5>4. \A x : x \in agg[p] <=> \E b \in Buckets : x \in window[p][b]
            BY <4>1
          <5>5. \A x : x \in agg[p] \cup {s} <=> \E b \in Buckets : x \in window'[p][b]
            BY <3>1, <5>2, <5>3, <5>4
          <5>6. \A x : x \in UNION {window'[p][b] : b \in Buckets}
                           <=> \E b \in Buckets : x \in window'[p][b]
            OBVIOUS
          <5> QED
            BY <5>1, <5>5, <5>6
        <4> QED
          BY <4>2, <4>3
      <3>7. ASSUME NEW p \in Pairs
            PROVE  edge'[p] \subseteq agg'[p] /\ (edge'[p] # {} => {p[1], p[2]} \subseteq present')
        <4>1. edge[p] \subseteq agg[p] /\ (edge[p] # {} => {p[1], p[2]} \subseteq present)
          BY DEF WindowsAddUp
        <4>2. p = Pair(s) => {p[1], p[2]} \subseteq present
          BY <2>2 DEF Pair
        <4> QED
          BY <3>2, <3>4, <3>5, <4>1, <4>2
      <3>8. ASSUME NEW p \in Pairs, NEW b \in Buckets, NEW t \in window'[p][b]
            PROVE  Pair(t) = p /\ Bucket(at'[t]) = b
        <4>1. t \in window[p][b] \/ (t = s /\ p = Pair(s) /\ b = Bucket(at[s]))
          BY <3>3, <3>8
        <4>2. t \in window[p][b] => Pair(t) = p /\ Bucket(at[t]) = b
          BY DEF WindowsAddUp
        <4> QED
          BY <3>2, <4>1, <4>2
      <3> QED
        BY <3>2, <3>6, <3>7, <3>8 DEF WindowsAddUp, Bucket
    <2> QED
      BY <1>6, <2>1, <2>2 DEF IngestSpan
  <1> QED
    BY <1>1, <1>2, <1>3, <1>4, <1>5, <1>6 DEF Writer

\* A writer adds to what is counted or clears it, and lets ingested spans be.
LEMMA WriterEffects ==
  ASSUME TypeOK, WindowsAddUp, Ingested, Writer
  PROVE  /\ UNCHANGED readers
         /\ \/ ClearGraph /\ Counted' = {}
            \/ UNCHANGED <<lasting, torn>> /\ Counted \subseteq Counted'
         /\ \A s \in Spans : cli[s] = "done" => cli'[s] = "done" /\ at'[s] = at[s]
         /\ Ingested'
  <1>0. /\ window \in [Pairs -> [Buckets -> SUBSET Spans]]
        /\ at \in [Spans -> Times] /\ cli \in [Spans -> {"idle", "ingest", "done"}]
        /\ Counted \subseteq Spans
    BY CountedSpans DEF TypeOK
  <1>1. CASE Tick
    BY <1>0, <1>1 DEF Tick, graph, clis, Counted, Ingested
  <1>2. CASE ClearGraph
    <2>1. Counted' = {}
      BY <1>2 DEF ClearGraph, NoWindows, Counted
    <2> QED
      BY <1>0, <1>2, <2>1 DEF ClearGraph, clis, Ingested
  <1>3. ASSUME NEW n \in Nodes, Remove(n) \/ Restore(n)
        PROVE  /\ UNCHANGED readers /\ UNCHANGED <<lasting, torn, cli, at>>
               /\ Counted' = Counted
    BY <1>3 DEF Remove, Restore, clis, Counted
  <1>4. ASSUME NEW s \in Spans, ReadClock(s)
        PROVE  /\ UNCHANGED readers /\ UNCHANGED <<lasting, torn>>
               /\ Counted' = Counted
               /\ \A t \in Spans : cli[t] = "done" => cli'[t] = "done" /\ at'[t] = at[t]
    BY <1>0, <1>4 DEF ReadClock, graph, Counted
  <1>5. ASSUME NEW s \in Spans, IngestSpan(s)
        PROVE  /\ UNCHANGED readers /\ UNCHANGED <<lasting, torn, at>>
               /\ Counted \subseteq Counted' /\ Counted' \subseteq Counted \cup {s}
               /\ cli' = [cli EXCEPT ![s] = "done"]
    <2>1. Pair(s) \in Pairs /\ Bucket(at[s]) \in Buckets
      BY <1>0, SpanAssumption DEF Pair, Pairs, Buckets
    <2>2. window' = window \/ window' = [window EXCEPT ![Pair(s)][Bucket(at[s])] = @ \cup {s}]
      BY <1>5 DEF IngestSpan
    <2>3. \A p \in Pairs, b \in Buckets :
              window[p][b] \subseteq window'[p][b] /\ window'[p][b] \subseteq window[p][b] \cup {s}
      BY <1>0, <2>1, <2>2
    <2> QED
      BY <1>5, <2>3 DEF IngestSpan, Counted
  <1>6. \A n \in Nodes : Remove(n) \/ Restore(n) => Ingested'
    BY <1>3 DEF Ingested
  <1>7. \A s \in Spans : ReadClock(s) \/ IngestSpan(s) => Ingested'
    BY <1>0, <1>4, <1>5 DEF Ingested
  <1> QED
    BY <1>0, <1>1, <1>2, <1>3, <1>4, <1>5, <1>6, <1>7 DEF Writer

-----------------------------------------------------------------------------
(* The answers.                                                            *)

\* What holds of a call at each of its awaits.
Stage(q) ==
    /\ pc[q] # "done" => completeness[q] = "open"
    /\ pc[q] \in {"resolve", "incoming", "callers", "outgoing", "failures", "fallback"} =>
           tool[q] = "incoming"
    /\ pc[q] \in {"hotspots", "allFailures"} => tool[q] = "hotspots"
    /\ pc[q] \in {"traces", "allTraces"} => tool[q] = "traces"
    /\ pc[q] = "fallback" => ~HasWindowData(q)
    /\ pc[q] = "allTraces" => traces[q] = {}
Lasts(q) ==
    /\ lasting[q] \subseteq Counted
    /\ Reported(q) \subseteq {s \in Spans : cli[s] = "done"}
Within(q) == completeness[q] # "partial" => \A s \in Reported(q) : at[s] >= since[q]

\* What the statements so far have said of a span they must count.
SeenAsCallee(q, s) ==
    CalleeOf[s] = target[q] /\ pc[q] \notin {"idle", "resolve", "incoming"} => s \in incoming[q]
SeenAsCaller(q, s) ==
    CallerOf[s] = target[q] /\ pc[q] \notin {"idle", "resolve", "incoming", "callers", "outgoing"} =>
        /\ calls_to[q] # {}
        /\ Full(calls_to[q]) \/ s \in Spanned(calls_to[q])
SeenAsTrace(q, s) ==
    /\ pc[q] = "done" => traces[q] # {}
    /\ pc[q] \in {"done", "allTraces"} /\ target[q] \in {CallerOf[s], CalleeOf[s]} =>
           /\ traces[q] # {}
           /\ Full(traces[q]) \/ s \in Spanned(traces[q])
Kept(q) ==
    \A s \in lasting[q] : at[s] >= since[q] + Hour =>
        /\ tool[q] = "incoming" =>
            /\ SeenAsCallee(q, s) /\ SeenAsCaller(q, s)
            /\ pc[q] = "done" /\ target[q] \in {CallerOf[s], CalleeOf[s]}
                   => completeness[q] = "windowed"
        /\ tool[q] = "hotspots" /\ pc[q] \notin {"idle", "hotspots"} =>
               Full(hotspots[q]) \/ s \in Spanned(hotspots[q])
        /\ tool[q] = "traces" /\ s \in Failed => SeenAsTrace(q, s)

\* What each statement sees of what the one before it saw.
Matched(q) ==
    q \notin torn /\ tool[q] = "incoming" =>
        /\ pc[q] \in {"callers", "outgoing", "failures"} =>
               \A s \in incoming[q] : s \in Recent(q) /\ CalleeOf[s] = target[q]
        /\ \/ pc[q] \in {"outgoing", "failures"}
           \/ pc[q] = "done" /\ completeness[q] = "windowed"
           => Full(called_by[q]) \/ incoming[q] \subseteq Spanned(called_by[q])
        /\ pc[q] = "done" /\ completeness[q] = "windowed" =>
               Full(failures[q]) \/ incoming[q] \cap Failed \subseteq Spanned(failures[q])

Answering(q) == Stage(q) /\ Lasts(q) /\ Within(q) /\ Kept(q) /\ Matched(q)

SpansInv ==
    /\ TypeOK
    /\ WindowsAddUp
    /\ Ingested
    /\ \A q \in Readers : Answering(q)

LEMMA AnsweringAnswers ==
  ASSUME SpansInv
  PROVE  AnswersWithinLookback /\ RecentSpansCounted /\ TotalsMatchRows
  <1>1. AnswersWithinLookback
    BY DEF SpansInv, Answering, Within, AnswersWithinLookback
  <1>2. RecentSpansCounted
    BY DEF SpansInv, Answering, Kept, SeenAsCallee, SeenAsCaller, SeenAsTrace, RecentSpansCounted
  <1>3. TotalsMatchRows
    BY DEF SpansInv, Answering, Matched, TotalsMatchRows
  <1> QED
    BY <1>1, <1>2, <1>3

LEMMA SpansInit == Init => SpansInv
  <1> SUFFICES ASSUME Init PROVE SpansInv
    OBVIOUS
  <1>1. TypeOK
    BY InitTypeOK
  <1>2. WindowsAddUp /\ Counted = {}
    BY DEF Init, WindowsAddUp, NothingCounted, NoWindows, Counted
  <1>3. ASSUME NEW q \in Readers PROVE Answering(q)
    <2>1. Reported(q) = {} /\ lasting[q] = {} /\ pc[q] = "idle" /\ completeness[q] = "open"
      BY DEF Init, Reported, Spanned
    <2> QED
      BY <2>1 DEF Answering, Stage, Lasts, Within, Kept, Matched
  <1> QED
    BY <1>1, <1>2, <1>3 DEF SpansInv, Ingested

\* Writers disturb no answer.
LEMMA WriterAnswering ==
  ASSUME SpansInv, TypeOK', Writer, NEW q \in Readers
  PROVE  Answering(q)'
  <1>0. /\ TypeOK /\ WindowsAddUp /\ Ingested /\ Answering(q)
    BY DEF SpansInv
  <1>1. /\ UNCHANGED <<pc, tool, target, since, incoming, called_by, calls_to, failures, hotspots,
                       traces, completeness>>
        /\ \/ ClearGraph /\ Counted' = {}
           \/ UNCHANGED <<lasting, torn>> /\ Counted \subseteq Counted'
        /\ \A s \in Spans : cli[s] = "done" => cli'[s] = "done" /\ at'[s] = at[s]
    BY <1>0, WriterEffects DEF readers, results
  <1>2. lasting'[q] \subseteq lasting[q] /\ lasting'[q] \subseteq Counted'
    BY <1>0, <1>1 DEF ClearGraph, Answering, Lasts
  <1>3. Reported(q)' = Reported(q)
    BY <1>1 DEF Reported
  <1>4. \A s \in Counted \cup Reported(q) : s \in Spans /\ cli[s] = "done" /\ at'[s] = at[s]
    BY <1>0, <1>1, CountedSpans DEF Ingested, Answering, Lasts
  <1>5. Stage(q)' /\ Lasts(q)' /\ Within(q)'
    BY <1>0, <1>1, <1>2, <1>3, <1>4 DEF Answering, Stage, Lasts, Within, HasWindowData
  <1>6. Kept(q)'
    <2>1. \A s \in lasting'[q] : s \in lasting[q] /\ at'[s] = at[s]
      BY <1>0, <1>2, <1>4 DEF Answering, Lasts
    <2> QED
      BY <1>0, <1>1, <2>1 DEF Answering, Kept, SeenAsCallee, SeenAsCaller, SeenAsTrace
  <1>7. Matched(q)'
    <2>1. CASE q \in torn'
      BY <2>1 DEF Matched
    <2>2. CASE q \notin torn'
      <3>1. UNCHANGED <<lasting, torn>> /\ Counted \subseteq Counted'
        BY <1>1, <2>2 DEF ClearGraph
      <3>2. \A s \in Recent(q) : s \in Recent(q)'
        BY <1>1, <1>4, <3>1 DEF Recent, Bucket
      <3> QED
        BY <1>0, <1>1, <3>1, <3>2 DEF Answering, Matched
    <2> QED
      BY <2>1, <2>2
  <1> QED
    BY <1>5, <1>6, <1>7 DEF Answering

-----------------------------------------------------------------------------
(* The statements of a call.                                               *)

Asks(q) == \/ \E t \in Firsts, n \in Nodes, l \in Lookbacks : Call(q, t, n, l)
           \/ Read(q)

\* A call reads the graph and changes its own state only.
LEMMA ReaderEffects ==
  ASSUME TypeOK, NEW q \in Readers, Asks(q)
  PROVE  /\ UNCHANGED <<now, graph, clis>>
         /\ \A d \in Readers \ {q} :
                /\ pc'[d] = pc[d] /\ tool'[d] = tool[d] /\ target'[d] = target[d]
                /\ since'[d] = since[d] /\ incoming'[d] = incoming[d]
                /\ called_by'[d] = called_by[d] /\ calls_to'[d] = calls_to[d]
                /\ failures'[d] = failures[d] /\ hotspots'[d] = hotspots[d]
                /\ traces'[d] = traces[d] /\ completeness'[d] = completeness[d]
                /\ lasting'[d] = lasting[d] /\ (d \in torn <=> d \in torn')
  <1> USE DEF Goto, results
  <1>0. /\ pc \in [Readers -> Lines] /\ tool \in [Readers -> Tools]
        /\ target \in [Readers -> Nodes \cup {None}] /\ since \in [Readers -> Int]
        /\ incoming \in [Readers -> SUBSET Spans]
        /\ called_by \in [Readers -> Rows] /\ calls_to \in [Readers -> Rows]
        /\ failures \in [Readers -> Rows] /\ hotspots \in [Readers -> Rows]
        /\ traces \in [Readers -> Rows]
        /\ completeness \in [Readers -> {"open", "windowed", "partial", "failed"}]
        /\ lasting \in [Readers -> SUBSET Spans]
    BY DEF TypeOK
  <1>1. CASE \E t \in Firsts, n \in Nodes, l \in Lookbacks : Call(q, t, n, l)
    BY <1>0, <1>1 DEF Call
  <1>2. CASE Incoming(q)
    BY <1>0, <1>2 DEF Incoming
  <1>3. CASE ByCaller(q)
    BY <1>0, <1>3 DEF ByCaller
  <1>4. CASE Outgoing(q)
    BY <1>0, <1>4 DEF Outgoing
  <1>5. CASE Failures(q)
    BY <1>0, <1>5 DEF Failures
  <1>6. CASE Fallback(q)
    BY <1>0, <1>6 DEF Fallback
  <1>7. CASE Hotspots(q)
    BY <1>0, <1>7 DEF Hotspots
  <1>8. CASE AllFailures(q)
    BY <1>0, <1>8 DEF AllFailures
  <1>9. CASE Traces(q)
    BY <1>0, <1>9 DEF Traces
  <1>10. CASE AllTraces(q)
    BY <1>0, <1>10 DEF AllTraces
  <1>11. CASE ResolveTarget(q)
    BY <1>0, <1>11 DEF ResolveTarget
  <1> QED
    BY <1>1, <1>2, <1>3, <1>4, <1>5, <1>6, <1>7, <1>8, <1>9, <1>10, <1>11 DEF Asks, Read

LEMMA BystanderAnswering ==
  ASSUME SpansInv, NEW q \in Readers, Asks(q), NEW d \in Readers \ {q}
  PROVE  Answering(d)'
  <1>1. TypeOK /\ Answering(d)
    BY DEF SpansInv
  <1>2. /\ UNCHANGED <<window, at, cli>>
        /\ pc'[d] = pc[d] /\ tool'[d] = tool[d] /\ target'[d] = target[d]
        /\ since'[d] = since[d] /\ incoming'[d] = incoming[d]
        /\ called_by'[d] = called_by[d] /\ calls_to'[d] = calls_to[d]
        /\ failures'[d] = failures[d] /\ hotspots'[d] = hotspots[d]
        /\ traces'[d] = traces[d] /\ completeness'[d] = completeness[d]
        /\ lasting'[d] = lasting[d] /\ (d \in torn <=> d \in torn')
    BY <1>1, ReaderEffects DEF graph, clis
  <1>3. Counted' = Counted /\ Reported(d)' = Reported(d)
    BY <1>2 DEF Counted, Reported
  <1>4. Recent(d)' = Recent(d)
    BY <1>2, <1>3 DEF Recent, Bucket
  <1>5. Stage(d)' /\ Lasts(d)' /\ Within(d)'
    BY <1>1, <1>2, <1>3 DEF Answering, Stage, Lasts, Within, HasWindowData
  <1>6. Kept(d)'
    BY <1>1, <1>2 DEF Answering, Kept, SeenAsCallee, SeenAsCaller, SeenAsTrace
  <1>7. Matched(d)'
    BY <1>1, <1>2, <1>4 DEF Answering, Matched
  <1> QED
    BY <1>5, <1>6, <1>7 DEF Answering

\* What the lemmas about single statements start from.
LEMMA Ready ==
  ASSUME SpansInv, NEW q \in Readers
  PROVE  /\ TypeOK /\ WindowsAddUp
         /\ Stage(q) /\ Lasts(q) /\ Within(q) /\ Kept(q) /\ Matched(q)
         /\ \A s \in Recent(q) : s \in Spans /\ cli[s] = "done" /\ at[s] >= since[q]
         /\ \A s \in lasting[q] : s \in Spans /\ (at[s] >= since[q] + Hour => s \in Recent(q))
         /\ Cardinality({}) = 0 /\ ~Full({})
  <1>1. TypeOK /\ WindowsAddUp /\ Answering(q) /\ Ingested
    BY DEF SpansInv
  <1>2. \A s \in Recent(q) : s \in Spans /\ cli[s] = "done" /\ at[s] >= since[q]
    BY <1>1, CountedSpans, RecentInside DEF Recent, Ingested
  <1>3. \A s \in lasting[q] : s \in Spans /\ (at[s] >= since[q] + Hour => s \in Recent(q))
    BY <1>1, CountedSpans, HourInside DEF Answering, Lasts
  <1>4. Cardinality({}) = 0 /\ ~Full({})
    BY FS_EmptySet, TimeAssumption DEF Full
  <1> QED
    BY <1>1, <1>2, <1>3, <1>4 DEF Answering

LEMMA CallAnswering ==
  ASSUME SpansInv, TypeOK', NEW q \in Readers, NEW t \in Firsts, NEW n \in Nodes,
         NEW l \in Lookbacks, Call(q, t, n, l)
  PROVE  Answering(q)'
  <1>1. TypeOK /\ WindowsAddUp
    BY DEF SpansInv
  <1>2. /\ pc'[q] = t /\ tool'[q] = (IF t = "resolve" THEN "incoming" ELSE t)
        /\ completeness'[q] = "open" /\ lasting'[q] = Counted
        /\ incoming'[q] = {} /\ called_by'[q] = {} /\ calls_to'[q] = {} /\ failures'[q] = {}
        /\ hotspots'[q] = {} /\ traces'[q] = {}
        /\ UNCHANGED <<window, cli, at>>
    BY <1>1 DEF Call, Goto, TypeOK, graph, clis
  <1>3. Reported(q)' = {} /\ Counted' = Counted
    BY <1>2 DEF Reported, Spanned, Counted
  <1>4. t \in {"resolve", "incoming", "hotspots", "traces"}
    BY DEF Firsts, Tools
  <1>5. Stage(q)' /\ Lasts(q)' /\ Within(q)'
    BY <1>2, <1>3, <1>4 DEF Stage, Lasts, Within
  <1>6. Kept(q)' /\ Matched(q)'
    BY <1>2, <1>4 DEF Kept, SeenAsCallee, SeenAsCaller, SeenAsTrace, Matched
  <1> QED
    BY <1>5, <1>6 DEF Answering

LEMMA ResolveAnswering ==
  ASSUME SpansInv, NEW q \in Readers, ResolveTarget(q)
  PROVE  Answering(q)'
  <1>1. /\ TypeOK
        /\ Stage(q) /\ Lasts(q) /\ Within(q) /\ Kept(q)
        /\ \A s \in lasting[q] : s \in Spans
    BY Ready
  <1>2. PICK n \in Nodes \cup {None} :
            /\ target' = [target EXCEPT ![q] = n]
            /\ IF n = None
               THEN Goto(q, "done") /\ completeness' = [completeness EXCEPT ![q] = "failed"]
               ELSE Goto(q, "incoming") /\ UNCHANGED completeness
    BY DEF ResolveTarget
  <1>3. /\ pc[q] = "resolve" /\ target'[q] = n
        /\ IF n = None THEN pc'[q] = "done" /\ completeness'[q] = "failed"
                       ELSE pc'[q] = "incoming" /\ completeness'[q] = completeness[q]
        /\ UNCHANGED <<window, cli, at, tool, since, incoming, called_by, calls_to, failures,
                       hotspots, traces, lasting, torn>>
    BY <1>1, <1>2 DEF ResolveTarget, Goto, TypeOK, graph, clis, results
  <1>4. Reported(q)' = Reported(q) /\ Counted' = Counted
    BY <1>3 DEF Reported, Counted, Spanned
  <1>5. tool[q] = "incoming" /\ completeness[q] = "open"
    BY <1>1, <1>3 DEF Stage
  <1>6. Stage(q)' /\ Lasts(q)' /\ Within(q)'
    BY <1>1, <1>3, <1>4, <1>5 DEF Stage, Lasts, Within
  <1>7. \A s \in lasting[q] : None \notin {CallerOf[s], CalleeOf[s]}
    BY <1>1, SpanAssumption
  <1>8. Kept(q)' /\ Matched(q)'
    BY <1>3, <1>5, <1>7 DEF Kept, SeenAsCallee, SeenAsCaller, Matched
  <1> QED
    BY <1>6, <1>8 DEF Answering

LEMMA IncomingAnswering ==
  ASSUME SpansInv, NEW q \in Readers, Incoming(q)
  PROVE  Answering(q)'
  <1>1. /\ TypeOK /\ WindowsAddUp
        /\ Stage(q) /\ Lasts(q) /\ Within(q) /\ Kept(q) /\ Matched(q)
        /\ \A s \in Recent(q) : s \in Spans /\ cli[s] = "done" /\ at[s] >= since[q]
        /\ \A s \in lasting[q] : s \in Spans /\ (at[s] >= since[q] + Hour => s \in Recent(q))
    BY Ready
  <1>2. /\ pc[q] = "incoming" /\ pc'[q] = "callers"
        /\ incoming'[q] = {s \in Recent(q) : CalleeOf[s] = target[q]}
        /\ UNCHANGED <<window, cli, at, tool, target, since, called_by, calls_to, failures,
                       hotspots, traces, completeness, lasting, torn>>
    BY <1>1, GroupRows DEF Incoming, Goto, TypeOK, graph, clis
  <1>3. Reported(q)' \subseteq Reported(q) \cup Recent(q) /\ Counted' = Counted
    BY <1>2 DEF Reported, Counted
  <1>4. Recent(q)' = Recent(q)
    BY <1>2, <1>3 DEF Recent, Bucket
  <1>5. Stage(q)' /\ Lasts(q)' /\ Within(q)'
    BY <1>1, <1>2, <1>3 DEF Stage, Lasts, Within
  <1>6. Kept(q)'
    BY <1>1, <1>2 DEF Kept, Stage, SeenAsCallee, SeenAsCaller, SeenAsTrace
  <1>7. Matched(q)'
    BY <1>2, <1>4 DEF Matched
  <1> QED
    BY <1>5, <1>6, <1>7 DEF Answering

LEMMA ByCallerAnswering ==
  ASSUME SpansInv, NEW q \in Readers, ByCaller(q)
  PROVE  Answering(q)'
  <1>1. /\ TypeOK /\ WindowsAddUp
        /\ Stage(q) /\ Lasts(q) /\ Within(q) /\ Kept(q) /\ Matched(q)
        /\ \A s \in Recent(q) : s \in Spans /\ cli[s] = "done" /\ at[s] >= since[q]
    BY Ready
  <1>2. PICK rows \in CallerRows(q) : called_by' = [called_by EXCEPT ![q] = rows]
    BY DEF ByCaller
  <1>3. /\ Spanned(rows) \subseteq Recent(q)
        /\ Full(rows) \/ \A s \in Recent(q) : CalleeOf[s] = target[q] => s \in Spanned(rows)
    BY <1>1, GroupRows
  <1>4. /\ pc[q] = "callers" /\ pc'[q] = "outgoing" /\ called_by'[q] = rows
        /\ UNCHANGED <<window, cli, at, tool, target, since, incoming, calls_to, failures,
                       hotspots, traces, completeness, lasting, torn>>
    BY <1>1, <1>2 DEF ByCaller, Goto, TypeOK, graph, clis
  <1>5. Reported(q)' \subseteq Reported(q) \cup Recent(q) /\ Counted' = Counted
    BY <1>3, <1>4 DEF Reported, Counted, Spanned
  <1>6. Recent(q)' = Recent(q)
    BY <1>4, <1>5 DEF Recent, Bucket
  <1>7. Stage(q)' /\ Lasts(q)' /\ Within(q)'
    BY <1>1, <1>4, <1>5 DEF Stage, Lasts, Within
  <1>8. Kept(q)'
    BY <1>1, <1>4 DEF Kept, Stage, SeenAsCallee, SeenAsCaller, SeenAsTrace
  <1>9. Matched(q)'
    BY <1>1, <1>3, <1>4, <1>6 DEF Matched
  <1> QED
    BY <1>7, <1>8, <1>9 DEF Answering

LEMMA OutgoingAnswering ==
  ASSUME SpansInv, NEW q \in Readers, Outgoing(q)
  PROVE  Answering(q)'
  <1>1. /\ TypeOK /\ WindowsAddUp
        /\ Stage(q) /\ Lasts(q) /\ Within(q) /\ Kept(q) /\ Matched(q)
        /\ \A s \in Recent(q) : s \in Spans /\ cli[s] = "done" /\ at[s] >= since[q]
        /\ \A s \in lasting[q] : s \in Spans /\ (at[s] >= since[q] + Hour => s \in Recent(q))
    BY Ready
  <1>2. PICK rows \in CalleeRows(q) : calls_to' = [calls_to EXCEPT ![q] = rows]
    BY DEF Outgoing
  <1>3. /\ Spanned(rows) \subseteq Recent(q)
        /\ Full(rows) \/ \A s \in Recent(q) : CallerOf[s] = target[q] => s \in Spanned(rows)
        /\ (\E s \in Recent(q) : CallerOf[s] = target[q]) => rows # {}
    BY <1>1, GroupRows
  <1>4. /\ pc[q] = "outgoing" /\ pc'[q] = "failures" /\ calls_to'[q] = rows
        /\ UNCHANGED <<window, cli, at, tool, target, since, incoming, called_by, failures,
                       hotspots, traces, completeness, lasting, torn>>
    BY <1>1, <1>2 DEF Outgoing, Goto, TypeOK, graph, clis
  <1>5. Reported(q)' \subseteq Reported(q) \cup Recent(q) /\ Counted' = Counted
    BY <1>3, <1>4 DEF Reported, Counted, Spanned
  <1>6. Recent(q)' = Recent(q)
    BY <1>4, <1>5 DEF Recent, Bucket
  <1>7. Stage(q)' /\ Lasts(q)' /\ Within(q)'
    BY <1>1, <1>4, <1>5 DEF Stage, Lasts, Within
  <1>8. Kept(q)'
    BY <1>1, <1>3, <1>4 DEF Kept, Stage, SeenAsCallee, SeenAsCaller, SeenAsTrace
  <1>9. Matched(q)'
    BY <1>1, <1>4, <1>6 DEF Matched
  <1> QED
    BY <1>7, <1>8, <1>9 DEF Answering

LEMMA FailuresAnswering ==
  ASSUME SpansInv, NEW q \in Readers, Failures(q)
  PROVE  Answering(q)'
  <1>1. /\ TypeOK /\ WindowsAddUp
        /\ Stage(q) /\ Lasts(q) /\ Within(q) /\ Kept(q) /\ Matched(q)
        /\ \A s \in Recent(q) : s \in Spans /\ cli[s] = "done" /\ at[s] >= since[q]
    BY Ready
  <1>2. PICK rows \in FailureRows(q) : failures' = [failures EXCEPT ![q] = rows]
    BY DEF Failures
  <1>3. /\ Spanned(rows) \subseteq Recent(q)
        /\ \/ Full(rows)
           \/ \A s \in Recent(q) \cap Failed : CalleeOf[s] = target[q] => s \in Spanned(rows)
    BY <1>1, FailingRows
  <1>4. /\ pc[q] = "failures" /\ failures'[q] = rows
        /\ IF HasWindowData(q) THEN pc'[q] = "done" /\ completeness'[q] = "windowed"
                               ELSE pc'[q] = "fallback" /\ completeness'[q] = completeness[q]
        /\ UNCHANGED <<window, cli, at, tool, target, since, incoming, called_by, calls_to,
                       hotspots, traces, lasting, torn>>
    BY <1>1, <1>2 DEF Failures, Goto, TypeOK, graph, clis
  <1>5. Reported(q)' \subseteq Reported(q) \cup Recent(q) /\ Counted' = Counted
    BY <1>3, <1>4 DEF Reported, Counted, Spanned
  <1>6. completeness[q] = "open" /\ tool[q] = "incoming"
    BY <1>1, <1>4 DEF Stage
  <1>7. HasWindowData(q)' <=> HasWindowData(q)
    BY <1>4 DEF HasWindowData
  <1>8. Stage(q)' /\ Lasts(q)' /\ Within(q)'
    BY <1>1, <1>4, <1>5, <1>6, <1>7 DEF Stage, Lasts, Within
  <1>9. Kept(q)'
    BY <1>1, <1>4, <1>6 DEF Kept, SeenAsCallee, SeenAsCaller, SeenAsTrace, HasWindowData
  <1>10. Matched(q)'
    BY <1>1, <1>3, <1>4, <1>6 DEF Matched
  <1> QED
    BY <1>8, <1>9, <1>10 DEF Answering

LEMMA FallbackAnswering ==
  ASSUME SpansInv, NEW q \in Readers, Fallback(q)
  PROVE  Answering(q)'
  <1>1. /\ TypeOK /\ WindowsAddUp /\ Ingested
        /\ Stage(q) /\ Lasts(q) /\ Within(q) /\ Kept(q)
    BY Ready DEF SpansInv
  <1>2. PICK rows \in SnapshotRows(q) :
            /\ calls_to' = [calls_to EXCEPT ![q] = rows]
            /\ incoming' = [incoming EXCEPT ![q] = Spanned(rows)]
            /\ completeness' = [completeness EXCEPT ![q] = IF rows # {} THEN "partial" ELSE "failed"]
    BY DEF Fallback
  <1>3. Spanned(rows) \subseteq {s \in Spans : cli[s] = "done"} /\ (rows = {} => Spanned(rows) = {})
    BY <1>1, SnapshotSpans DEF Ingested, Spanned
  <1>4. /\ pc[q] = "fallback" /\ pc'[q] = "done"
        /\ calls_to'[q] = rows /\ incoming'[q] = Spanned(rows) /\ failures'[q] = {}
        /\ completeness'[q] = IF rows # {} THEN "partial" ELSE "failed"
        /\ UNCHANGED <<window, cli, at, tool, target, since, called_by, hotspots, traces,
                       lasting, torn>>
    BY <1>1, <1>2 DEF Fallback, Goto, TypeOK, graph, clis
  <1>5. /\ tool[q] = "incoming" /\ completeness[q] = "open"
        /\ incoming[q] = {} /\ called_by[q] = {} /\ calls_to[q] = {}
    BY <1>1, <1>4 DEF Stage, HasWindowData
  <1>6. /\ Reported(q)' \subseteq Reported(q) \cup Spanned(rows)
        /\ Counted' = Counted
    BY <1>4 DEF Reported, Counted, Spanned
  <1>7. Stage(q)' /\ Lasts(q)' /\ Within(q)'
    BY <1>1, <1>3, <1>4, <1>5, <1>6 DEF Stage, Lasts, Within
  <1>8. \A s \in lasting[q] : at[s] >= since[q] + Hour => target[q] \notin {CallerOf[s], CalleeOf[s]}
    BY <1>1, <1>4, <1>5 DEF Kept, SeenAsCallee, SeenAsCaller
  <1>9. Kept(q)'
    BY <1>4, <1>5, <1>8 DEF Kept, SeenAsCallee, SeenAsCaller
  <1>10. Matched(q)'
    BY <1>4 DEF Matched
  <1> QED
    BY <1>7, <1>9, <1>10 DEF Answering

LEMMA HotspotsAnswering ==
  ASSUME SpansInv, NEW q \in Readers, Hotspots(q)
  PROVE  Answering(q)'
  <1>1. /\ TypeOK /\ WindowsAddUp
        /\ Stage(q) /\ Lasts(q) /\ Within(q) /\ Kept(q)
        /\ \A s \in Recent(q) : s \in Spans /\ cli[s] = "done" /\ at[s] >= since[q]
        /\ \A s \in lasting[q] : s \in Spans /\ (at[s] >= since[q] + Hour => s \in Recent(q))
    BY Ready
  <1>2. PICK rows \in HotspotRows(q) : hotspots' = [hotspots EXCEPT ![q] = rows]
    BY DEF Hotspots
  <1>3. Spanned(rows) \subseteq Recent(q) /\ (Full(rows) \/ Spanned(rows) = Recent(q))
    BY <1>1, GroupRows
  <1>4. /\ pc[q] = "hotspots" /\ pc'[q] = "allFailures" /\ hotspots'[q] = rows
        /\ UNCHANGED <<window, cli, at, tool, target, since, incoming, called_by, calls_to,
                       failures, traces, completeness, lasting, torn>>
    BY <1>1, <1>2 DEF Hotspots, Goto, TypeOK, graph, clis
  <1>5. Reported(q)' \subseteq Reported(q) \cup Recent(q) /\ Counted' = Counted
    BY <1>3, <1>4 DEF Reported, Counted, Spanned
  <1>6. tool[q] = "hotspots"
    BY <1>1, <1>4 DEF Stage
  <1>7. Stage(q)' /\ Lasts(q)' /\ Within(q)'
    BY <1>1, <1>4, <1>5 DEF Stage, Lasts, Within
  <1>8. Kept(q)' /\ Matched(q)'
    BY <1>1, <1>3, <1>4, <1>6 DEF Kept, Matched
  <1> QED
    BY <1>7, <1>8 DEF Answering

LEMMA AllFailuresAnswering ==
  ASSUME SpansInv, NEW q \in Readers, AllFailures(q)
  PROVE  Answering(q)'
  <1>1. /\ TypeOK /\ WindowsAddUp
        /\ Stage(q) /\ Lasts(q) /\ Within(q) /\ Kept(q)
        /\ \A s \in Recent(q) : s \in Spans /\ cli[s] = "done" /\ at[s] >= since[q]
    BY Ready
  <1>2. PICK rows \in AllFailureRows(q) : failures' = [failures EXCEPT ![q] = rows]
    BY DEF AllFailures
  <1>3. Spanned(rows) \subseteq Recent(q)
    BY <1>1, FailingRows
  <1>4. /\ pc[q] = "allFailures" /\ pc'[q] = "done" /\ failures'[q] = rows
        /\ incoming'[q] = Spanned(hotspots[q])
        /\ UNCHANGED <<window, cli, at, tool, target, since, called_by, calls_to, hotspots,
                       traces, lasting, torn>>
    BY <1>1, <1>2 DEF AllFailures, Goto, TypeOK, graph, clis
  <1>5. Reported(q)' \subseteq Reported(q) \cup Recent(q) /\ Counted' = Counted
    BY <1>3, <1>4 DEF Reported, Counted, Spanned
  <1>6. tool[q] = "hotspots" /\ completeness[q] = "open"
    BY <1>1, <1>4 DEF Stage
  <1>7. Stage(q)' /\ Lasts(q)' /\ Within(q)'
    BY <1>1, <1>4, <1>5, <1>6 DEF Stage, Lasts, Within
  <1>8. Kept(q)' /\ Matched(q)'
    BY <1>1, <1>4, <1>6 DEF Kept, Matched
  <1> QED
    BY <1>7, <1>8 DEF Answering

LEMMA TracesAnswering ==
  ASSUME SpansInv, NEW q \in Readers, Traces(q)
  PROVE  Answering(q)'
  <1>1. /\ TypeOK /\ WindowsAddUp
        /\ Stage(q) /\ Lasts(q) /\ Within(q) /\ Kept(q)
        /\ \A s \in Recent(q) : s \in Spans /\ cli[s] = "done" /\ at[s] >= since[q]
        /\ \A s \in lasting[q] : s \in Spans /\ (at[s] >= since[q] + Hour => s \in Recent(q))
    BY Ready
  <1>2. PICK rows \in TraceRows(q) : /\ traces' = [traces EXCEPT ![q] = rows]
                                     /\ Goto(q, IF rows = {} THEN "allTraces" ELSE "done")
    BY DEF Traces
  <1>3. /\ Spanned(rows) \subseteq Recent(q)
        /\ \/ Full(rows)
           \/ \A s \in Recent(q) \cap Failed :
                  target[q] \in {CallerOf[s], CalleeOf[s]} => s \in Spanned(rows)
        /\ (\E s \in Recent(q) \cap Failed : target[q] \in {CallerOf[s], CalleeOf[s]})
               => rows # {}
    BY <1>1, FailingRows
  <1>4. /\ pc[q] = "traces" /\ pc'[q] = (IF rows = {} THEN "allTraces" ELSE "done")
        /\ traces'[q] = rows
        /\ UNCHANGED <<window, cli, at, tool, target, since, incoming, called_by, calls_to,
                       failures, hotspots, completeness, lasting, torn>>
    BY <1>1, <1>2 DEF Traces, Goto, TypeOK, graph, clis
  <1>5. Reported(q)' \subseteq Reported(q) \cup Recent(q) /\ Counted' = Counted
    BY <1>3, <1>4 DEF Reported, Counted, Spanned
  <1>6. tool[q] = "traces" /\ completeness[q] = "open"
    BY <1>1, <1>4 DEF Stage
  <1>7. Stage(q)' /\ Lasts(q)' /\ Within(q)'
    BY <1>1, <1>4, <1>5, <1>6 DEF Stage, Lasts, Within
  <1>8. \A s \in lasting[q] : at[s] >= since[q] + Hour /\ s \in Failed => SeenAsTrace(q, s)'
    BY <1>1, <1>3, <1>4 DEF SeenAsTrace
  <1>9. Kept(q)' /\ Matched(q)'
    BY <1>4, <1>6, <1>8 DEF Kept, Matched
  <1> QED
    BY <1>7, <1>9 DEF Answering

LEMMA AllTracesAnswering ==
  ASSUME SpansInv, NEW q \in Readers, AllTraces(q)
  PROVE  Answering(q)'
  <1>1. /\ TypeOK /\ WindowsAddUp
        /\ Stage(q) /\ Lasts(q) /\ Within(q) /\ Kept(q)
        /\ \A s \in Recent(q) : s \in Spans /\ cli[s] = "done" /\ at[s] >= since[q]
        /\ \A s \in lasting[q] : s \in Spans /\ (at[s] >= since[q] + Hour => s \in Recent(q))
    BY Ready
  <1>2. PICK rows \in AllTraceRows(q) : traces' = [traces EXCEPT ![q] = rows]
    BY DEF AllTraces
  <1>3. /\ Spanned(rows) \subseteq Recent(q)
        /\ Full(rows) \/ Recent(q) \cap Failed \subseteq Spanned(rows)
        /\ Recent(q) \cap Failed # {} => rows # {}
    BY <1>1, FailingRows
  <1>4. /\ pc[q] = "allTraces" /\ pc'[q] = "done" /\ traces'[q] = rows
        /\ UNCHANGED <<window, cli, at, tool, target, since, incoming, called_by, calls_to,
                       failures, hotspots, completeness, lasting, torn>>
    BY <1>1, <1>2 DEF AllTraces, Goto, TypeOK, graph, clis
  <1>5. Reported(q)' \subseteq Reported(q) \cup Recent(q) /\ Counted' = Counted
    BY <1>3, <1>4 DEF Reported, Counted, Spanned
  <1>6. tool[q] = "traces" /\ completeness[q] = "open"
    BY <1>1, <1>4 DEF Stage
  <1>7. Stage(q)' /\ Lasts(q)' /\ Within(q)'
    BY <1>1, <1>4, <1>5, <1>6 DEF Stage, Lasts, Within
  <1>8. \A s \in lasting[q] : at[s] >= since[q] + Hour /\ s \in Failed => SeenAsTrace(q, s)'
    BY <1>1, <1>3, <1>4 DEF SeenAsTrace
  <1>9. Kept(q)' /\ Matched(q)'
    BY <1>4, <1>6, <1>8 DEF Kept, Matched
  <1> QED
    BY <1>7, <1>9 DEF Answering

-----------------------------------------------------------------------------
(* The theorems.                                                           *)

LEMMA SpansStep == SpansInv /\ [Next]_vars => SpansInv'
  <1> SUFFICES ASSUME SpansInv, [Next]_vars PROVE SpansInv'
    OBVIOUS
  <1>0. TypeOK /\ WindowsAddUp /\ Ingested /\ \A q \in Readers : Answering(q)
    BY DEF SpansInv
  <1>1. CASE Writer
    <2>1. UNCHANGED readers
      BY <1>0, <1>1, WriterEffects
    <2>2. TypeOK'
      BY <1>0, <1>1, <2>1, WriterTypeOK DEF Writer
    <2>3. \A q \in Readers : Answering(q)'
      BY <1>1, <2>2, WriterAnswering
    <2> QED
      BY <1>0, <1>1, <2>2, <2>3, CountersStep, WriterEffects DEF SpansInv
  <1>2. ASSUME NEW q \in Readers, Asks(q) PROVE SpansInv'
    <2>1. TypeOK'
      BY <1>0, <1>2, ReaderTypeOK DEF Asks
    <2>2. UNCHANGED <<present, agg, edge, window, cli, at>>
      BY <1>0, <1>2, ReaderEffects DEF graph, clis
    <2>3. WindowsAddUp' /\ Ingested'
      BY <1>0, <2>2 DEF WindowsAddUp, Ingested, Counted, Bucket
    <2>4. \A d \in Readers \ {q} : Answering(d)'
      BY <1>2, BystanderAnswering
    <2>5. Answering(q)'
      BY <1>2, <2>1, CallAnswering, ResolveAnswering, IncomingAnswering, ByCallerAnswering, OutgoingAnswering,
         FailuresAnswering, FallbackAnswering, HotspotsAnswering, AllFailuresAnswering,
         TracesAnswering, AllTracesAnswering DEF Asks, Read
    <2> QED
      BY <2>1, <2>3, <2>4, <2>5 DEF SpansInv
  <1>3. CASE UNCHANGED vars
    <2>1. UNCHANGED <<now, present, agg, edge, window, cli, at, pc, tool, target, since>>
      BY <1>3 DEF vars, graph, clis, readers
    <2>2. UNCHANGED <<incoming, called_by, calls_to, failures, hotspots, traces, completeness,
                      lasting, torn>>
      BY <1>3 DEF vars, readers, results
    <2>3. TypeOK'
      BY <1>0, <2>1, <2>2 DEF TypeOK
    <2>4. WindowsAddUp' /\ Ingested' /\ Counted' = Counted
      BY <1>0, <2>1 DEF WindowsAddUp, Ingested, Counted, Bucket
    <2>5. ASSUME NEW q \in Readers PROVE Answering(q)'
      <3>1. /\ Stage(q) /\ Lasts(q) /\ Within(q) /\ Kept(q) /\ Matched(q)
        BY <1>0 DEF Answering
      <3>2. Reported(q)' = Reported(q) /\ HasWindowData(q)' = HasWindowData(q)
        BY <2>1, <2>2 DEF Reported, HasWindowData, Spanned
      <3>3. Stage(q)'
        BY <2>1, <2>2, <3>1, <3>2 DEF Stage, HasWindowData
      <3>4. Lasts(q)' /\ Within(q)'
        BY <2>1, <2>2, <2>4, <3>1, <3>2 DEF Lasts, Within
      <3>5. Kept(q)'
        BY <2>1, <2>2, <3>1 DEF Kept, SeenAsCallee, SeenAsCaller, SeenAsTrace, Full, Spanned
      <3>6. Recent(q)' = Recent(q)
        BY <2>1, <2>4 DEF Recent, Bucket
      <3>7. Matched(q)'
        BY <2>1, <2>2, <3>1, <3>6 DEF Matched, Full, Spanned
      <3> QED
        BY <3>3, <3>4, <3>5, <3>7 DEF Answering
    <2> QED
      BY <2>3, <2>4, <2>5 DEF SpansInv
  <1> QED
    BY <1>1, <1>2, <1>3 DEF Next, Writer, Asks

LEMMA SpansAlways == Spec => []SpansInv
  BY SpansInit, SpansStep, PTL DEF Spec

\* Every counter counts spans and every answer rows of spans.
THEOREM SpansTyping == Spec => []TypeOK
  BY SpansAlways, PTL DEF SpansInv

\* Aggregates, edges and hourly windows count the same spans, for any number
\* of processes that ingest late while files are indexed again and graphs
\* cleared.
THEOREM CountersAgree == Spec => []WindowsAddUp
  BY SpansAlways, PTL DEF SpansInv

\* For any hour, clock and lookback no answer counts a span that is too old,
\* unless it says that it is partial.
THEOREM NoSpanTooOld == Spec => []AnswersWithinLookback
  BY SpansAlways, AnsweringAnswers, PTL

\* For any hour, clock and lookback a span more than an hour inside the
\* lookback is counted about the function the call resolved, whatever happens
\* between the statements.
THEOREM NoRecentSpanMissed == Spec => []RecentSpansCounted
  BY SpansAlways, AnsweringAnswers, PTL

\* Totals and rows of an answer agree for any number of writers between the
\* statements, unless the graph is cleared.
THEOREM RowsExplainTotals == Spec => []TotalsMatchRows
  BY SpansAlways, AnsweringAnswers, PTL
=============================================================================
