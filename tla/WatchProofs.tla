---------------------------- MODULE WatchProofs ----------------------------
(***************************************************************************)
(* Proofs about Watch, for any repository, parser, number of overlapping   *)
(* runs and number of saves.                                               *)
(***************************************************************************)
EXTENDS Watch, IndexerProofs

-----------------------------------------------------------------------------
(* Watching is indexing: every step is one of Indexer or leaves it alone.  *)

LEMMA WatchStepIsIndexerStep == [WatchNext]_watchVars => [Next]_vars
  BY WatchAssumption
  DEF WatchNext, watchVars, Open, Trigger, Stop, Save, Fire, GoOn, Dies, ByHand, Begin, Next

\* The watcher starts runs no other way than Indexer allows.
THEOREM WatchIsIndexing == WatchSpec => Spec
  <1>1. WatchInit => Init
    BY DEF WatchInit
  <1> QED
    BY <1>1, WatchStepIsIndexerStep, PTL DEF WatchSpec, Spec

LEMMA WatchedTyping == WatchSpec => []TypeOK
  BY WatchIsIndexing, Typing, PTL

LEMMA WatchTypeStep == TypeOK' /\ WatchTypeOK /\ [WatchNext]_watchVars => WatchTypeOK'
  <1> SUFFICES ASSUME TypeOK', WatchTypeOK, [WatchNext]_watchVars
               PROVE  WatchTypeOK'
    OBVIOUS
  <1> USE WatchAssumption DEF WatchTypeOK
  <1>1. CASE Open \/ Trigger \/ Stop
    BY <1>1 DEF Open, Trigger, Stop
  <1>2. ASSUME NEW f \in Files, NEW c \in MaybeContent, Save(f, c)
        PROVE  WatchTypeOK'
    BY <1>2 DEF Save, Alive
  <1>3. ASSUME NEW r \in Runs, NEW m \in Modes, Begin(r, m)
        PROVE  late' \subseteq Runs /\ excused' \in BOOLEAN
    BY <1>3 DEF Begin
  <1>4. ASSUME NEW r \in Runs, Fire(r)
        PROVE  WatchTypeOK'
    BY <1>4 DEF Fire, Begin
  <1>5. ASSUME NEW r \in Runs, NEW m \in Modes, ByHand(r, m)
        PROVE  WatchTypeOK'
    BY <1>3, <1>5 DEF ByHand
  <1>6. ASSUME NEW r \in Runs, GoOn(r) \/ Dies(r)
        PROVE  WatchTypeOK'
    BY <1>6 DEF GoOn, Dies, watch
  <1>7. CASE UNCHANGED watchVars
    BY <1>7 DEF watchVars, watch
  <1> QED
    BY <1>1, <1>2, <1>4, <1>5, <1>6, <1>7 DEF WatchNext

\* The watcher's own variables keep their types.
THEOREM WatchTyping == WatchSpec => []WatchTypeOK
  <1>0. 0 \in 0 .. MaxActs
    BY WatchAssumption
  <1>1. WatchInit /\ TypeOK => WatchTypeOK
    BY <1>0 DEF WatchInit, WatchTypeOK
  <1> QED
    BY <1>1, WatchedTyping, WatchTypeStep, PTL DEF WatchSpec

-----------------------------------------------------------------------------
(* Saves reach the graph.                                                  *)

LEMMA BeginFollows ==
  ASSUME WatchTypeOK, Following, NEW r \in Runs, NEW m \in {"full", "incremental"}, Begin(r, m)
  PROVE  /\ \A q \in Alive' \ late' : Current(q)'
         /\ ~excused' => /\ \A q \in Alive' : mode'[q] = "incremental"
                                              /\ pc'[q] \notin {"clearNodes", "clearMeta"}
                         /\ late' \cap Alive' = {}
                         /\ \A f \in Files : \E q \in Alive' : Owes(q, f)'
  <1> USE DEF Alive, AtRest
  <1>1. /\ pc[r] \in AtRest /\ pc' = [pc EXCEPT ![r] = "snapshot"]
        /\ mode' = [mode EXCEPT ![r] = m]
        /\ relpaths' = [relpaths EXCEPT ![r] = {f \in Files : disk[f] # Absent}]
        /\ UNCHANGED <<disk, deleted, text, cur>>
        /\ late' = late \ {r}
        /\ excused' = IF m = "full" THEN TRUE
                      ELSE IF Alive = {} THEN FALSE
                      ELSE excused \/ late \cap Alive # {}
    BY DEF Begin, Start, Goto
  <1>2. Alive' = Alive \cup {r} /\ r \in Alive'
    BY <1>1 DEF WatchTypeOK, TypeOK, GraphTypeOK
  <1>3. Current(r)'
    BY <1>1 DEF WatchTypeOK, TypeOK, GraphTypeOK, Current, PerFile
  <1>4. ASSUME NEW q \in Alive, q \notin late
        PROVE  Current(q)'
    <2>1. q # r /\ Current(q)
      BY <1>1, <1>4 DEF Following
    <2> QED
      BY <1>1, <2>1 DEF WatchTypeOK, TypeOK, GraphTypeOK, Current
  <1>5. \A f \in Files : Owes(r, f)'
    BY <1>1 DEF WatchTypeOK, TypeOK, GraphTypeOK, Owes
  <1>6. ASSUME ~excused'
        PROVE  /\ late' \cap Alive' = {}
               /\ \A q \in Alive' : mode'[q] = "incremental"
                                    /\ pc'[q] \notin {"clearNodes", "clearMeta"}
    <2>1. m = "incremental" /\ late \cap Alive = {} /\ (Alive = {} \/ ~excused)
      BY <1>1, <1>6 DEF WatchTypeOK
    <2>2. mode'[r] = "incremental" /\ pc'[r] = "snapshot"
      BY <1>1, <2>1 DEF WatchTypeOK, TypeOK, GraphTypeOK
    <2>3. \A q \in Alive : mode'[q] = "incremental" /\ pc'[q] \notin {"clearNodes", "clearMeta"}
      BY <1>1, <2>1, <2>2 DEF Following, WatchTypeOK, TypeOK, GraphTypeOK
    <2> QED
      BY <1>1, <1>2, <2>1, <2>2, <2>3
  <1> QED
    BY <1>1, <1>2, <1>3, <1>4, <1>5, <1>6

\* What a step of run r means for the others and for the paths.
Kept(r) ==
    /\ \A q \in Runs \ {r} : /\ pc'[q] = pc[q] /\ mode'[q] = mode[q]
                             /\ relpaths'[q] = relpaths[q] /\ snapshot'[q] = snapshot[q]
                             /\ deleted'[q] = deleted[q] /\ changed'[q] = changed[q]
                             /\ added'[q] = added[q] /\ cur'[q] = cur[q] /\ text'[q] = text[q]
    /\ UNCHANGED <<disk, late>>
    /\ mode'[r] = mode[r]

\* A step of a run preserves the invariant when the run stays current, and
\* pays or goes on owing what it owed.
LEMMA RunFollows ==
  ASSUME WatchTypeOK, Following, NEW r \in Runs, Kept(r), pc[r] \notin AtRest,
         UNCHANGED <<noticed, timer, excused>>,
         r \notin late => Current(r)',
         mode[r] = "incremental" => pc'[r] \notin {"clearNodes", "clearMeta"},
         r \notin late /\ mode[r] = "incremental" =>
             \A f \in Files :
                 file[f] = disk[f] \/ Owes(r, f)
                     => file'[f] = disk[f] \/ (pc'[r] \notin AtRest /\ Owes(r, f)')
  PROVE  Following'
  <1> USE DEF Alive
  <1>1. ASSUME NEW q \in Runs \ {r}
        PROVE  /\ Current(q)' <=> Current(q)
               /\ q \in Alive' <=> q \in Alive
               /\ \A f \in Files : Owes(q, f)' <=> Owes(q, f)
    <2>1. Current(q)' <=> Current(q)
      BY DEF Kept, Current
    <2>2. q \in Alive' <=> q \in Alive
      BY DEF Kept
    <2>3. ASSUME NEW f \in Files PROVE Owes(q, f)' <=> Owes(q, f)
      BY DEF Kept, Owes, Owed
    <2> QED
      BY <2>1, <2>2, <2>3
  <1>2. \A q \in Alive' \ late' : Current(q)'
    BY <1>1 DEF Kept, Following
  <1>3. ASSUME ~excused
        PROVE  \A q \in Alive' : mode'[q] = "incremental" /\ pc'[q] \notin {"clearNodes", "clearMeta"}
    BY <1>1, <1>3 DEF Kept, Following
  <1>4. ASSUME ~excused, ~noticed, ~timer
        PROVE  /\ late' \cap Alive' = {}
               /\ \A f \in Files : file'[f] = disk'[f] \/ \E q \in Alive' : Owes(q, f)'
    <2>1. r \notin late /\ mode[r] = "incremental" /\ late \cap Alive = {}
      BY <1>4 DEF Following
    <2>2. late' \cap Alive' = {}
      BY <1>1, <2>1 DEF Kept
    <2>3. ASSUME NEW f \in Files
          PROVE  file'[f] = disk'[f] \/ \E q \in Alive' : Owes(q, f)'
      <3>1. CASE file[f] = disk[f] \/ Owes(r, f)
        BY <2>1, <3>1 DEF Kept
      <3>2. CASE \E q \in Alive \ {r} : Owes(q, f)
        BY <1>1, <3>2
      <3> QED
        BY <1>4, <3>1, <3>2 DEF Following
    <2> QED
      BY <2>2, <2>3
  <1> QED
    BY <1>2, <1>3, <1>4 DEF Following

LEMMA AbortFollows ==
  ASSUME WatchTypeOK, Following, NEW r \in Runs, Abort(r), excused', late' = late
  PROVE  Following'
  <1>1. /\ pc' = [pc EXCEPT ![r] = "failed"] /\ UNCHANGED <<disk, mode, snapshot>>
        /\ relpaths' = [relpaths EXCEPT ![r] = {}] /\ deleted' = [deleted EXCEPT ![r] = {}]
        /\ text' = [text EXCEPT ![r] = Absent] /\ cur' = [cur EXCEPT ![r] = Absent]
    BY DEF Abort, DropLocals, Goto
  <1>2. ASSUME NEW q \in Alive' \ late'
        PROVE  Current(q)'
    <2>1. q # r /\ q \in Alive \ late
      BY <1>1, <1>2 DEF Alive, AtRest, WatchTypeOK, TypeOK, GraphTypeOK
    <2>2. Current(q)
      BY <2>1 DEF Following
    <2> QED
      BY <1>1, <2>1, <2>2 DEF Current, Alive, WatchTypeOK, TypeOK, GraphTypeOK
  <1> QED
    BY <1>2 DEF Following

\* One step for each await of a run.
LEMMA StepFollows ==
  ASSUME WatchTypeOK, Following, NEW r \in Runs, RunStep(r), pc'[r] # "failed",
         UNCHANGED <<noticed, timer, excused, late>>
  PROVE  Following'
  <1> USE DEF AtRest, PerFile
  <1>0. TypeOK /\ (r \notin late /\ pc[r] \notin AtRest => Current(r))
    BY DEF WatchTypeOK, Following, Alive
  <1>1. CASE GetFileSnapshot(r)
    <2>1. /\ pc[r] = "snapshot" /\ snapshot' = [snapshot EXCEPT ![r] = file]
          /\ pc' = [pc EXCEPT ![r] = IF mode[r] = "full" THEN "clearNodes" ELSE "hash"]
          /\ UNCHANGED <<disk, file, mode, relpaths, deleted, changed, added, cur, text>>
      BY <1>1 DEF GetFileSnapshot, Goto, graph
    <2>2. Kept(r)
      BY <1>0, <2>1 DEF Kept, TypeOK, GraphTypeOK
    <2>3. r \notin late => Current(r)'
      BY <1>0, <2>1 DEF Current, TypeOK, GraphTypeOK
    <2>4. mode[r] = "incremental" => \A f \in Files : file'[f] = disk[f] \/ Owes(r, f)'
      BY <1>0, <2>1 DEF Owes, TypeOK, GraphTypeOK
    <2> QED
      BY <1>0, <2>1, <2>2, <2>3, <2>4, RunFollows DEF TypeOK, GraphTypeOK
  <1>2. CASE ClearNodes(r) \/ ClearMeta(r)
    <2>1. /\ pc[r] \in {"clearNodes", "clearMeta"} /\ pc'[r] \in {"clearMeta", "hash"}
          /\ pc' = [pc EXCEPT ![r] = pc'[r]]
          /\ UNCHANGED <<disk, snapshot, mode, relpaths, deleted, changed, added, cur, text>>
      BY <1>0, <1>2 DEF ClearNodes, ClearGraph, ClearMeta, Goto, locals, TypeOK, GraphTypeOK
    <2>2. Kept(r)
      BY <1>0, <2>1 DEF Kept, TypeOK, GraphTypeOK
    <2>3. \A q \in Alive' \ late' : Current(q)'
      BY <1>0, <2>1, <2>2 DEF Current, Alive, Following, Kept
    <2>4. excused
      BY <2>1 DEF Following, Alive, WatchTypeOK
    <2> QED
      BY <2>3, <2>4 DEF Following
  <1>3. CASE HashFiles(r)
    <2>1. /\ pc[r] = "hash" /\ pc' = [pc EXCEPT ![r] = "files"]
          /\ deleted' = [deleted EXCEPT ![r] =
                 {f \in Files : snapshot[r][f] # Absent /\ f \notin relpaths[r]}]
          /\ changed' = [changed EXCEPT ![r] =
                 {f \in relpaths[r] : snapshot[r][f] \notin {Absent, disk[f]}}]
          /\ added' = [added EXCEPT ![r] = {f \in relpaths[r] : snapshot[r][f] = Absent}]
          /\ relpaths' = [relpaths EXCEPT ![r] = {}]
          /\ UNCHANGED <<disk, file, snapshot, mode, cur, text>>
      BY <1>3 DEF HashFiles, GonePaths, ChangedPaths, NewPaths, Goto, graph
    <2>2. Kept(r)
      BY <1>0, <2>1 DEF Kept, TypeOK, GraphTypeOK
    <2>3. r \notin late => relpaths[r] = {f \in Files : disk[f] # Absent}
      BY <1>0, <2>1 DEF Current
    <2>4. r \notin late => Current(r)'
      BY <1>0, <2>1, <2>3 DEF Current, TypeOK, GraphTypeOK
    <2>5. r \notin late => \A f \in Files : Owes(r, f) => Owes(r, f)'
      BY <1>0, <2>1, <2>3 DEF Owes, Owed, TypeOK, GraphTypeOK
    <2> QED
      BY <1>0, <2>1, <2>2, <2>4, <2>5, RunFollows DEF TypeOK, GraphTypeOK
  <1>4. ASSUME NEW g \in Files, DeleteGone(r, g)
        PROVE  Following'
    <2>1. /\ pc[r] = "files" /\ g \in deleted[r]
          /\ deleted' = [deleted EXCEPT ![r] = @ \ {g}]
          /\ UNCHANGED <<disk, pc, snapshot, mode, relpaths, changed, added, cur, text>>
          /\ \A f \in Files : file'[f] = IF f = g THEN Absent ELSE file[f]
      BY <1>0, <1>4 DEF DeleteGone, DeleteFileSubgraph, graph, TypeOK, GraphTypeOK
    <2>2. Kept(r)
      BY <1>0, <2>1 DEF Kept, TypeOK, GraphTypeOK
    <2>3. r \notin late => Current(r)' /\ disk[g] = Absent
      BY <1>0, <2>1 DEF Current, TypeOK, GraphTypeOK
    <2>4. \A f \in Files \ {g} : Owes(r, f) => Owes(r, f)'
      BY <1>0, <2>1 DEF Owes, Owed, TypeOK, GraphTypeOK
    <2> QED
      BY <1>0, <2>1, <2>2, <2>3, <2>4, RunFollows
  <1>5. ASSUME NEW g \in Files, ParseFile(r, g)
        PROVE  Following'
    <2>1. /\ pc[r] = "files" /\ pc' = [pc EXCEPT ![r] = "deleteOld"]
          /\ deleted[r] = {} /\ cur' = [cur EXCEPT ![r] = g] /\ text' = [text EXCEPT ![r] = disk[g]]
          /\ changed' = [changed EXCEPT ![r] = @ \ {g}] /\ added' = [added EXCEPT ![r] = @ \ {g}]
          /\ UNCHANGED <<disk, file, snapshot, mode, relpaths, deleted>>
      BY <1>5 DEF ParseFile, IsNext, Goto, graph
    <2>2. Kept(r)
      BY <1>0, <2>1 DEF Kept, TypeOK, GraphTypeOK
    <2>3. r \notin late => Current(r)'
      BY <1>0, <2>1 DEF Current, TypeOK, GraphTypeOK
    <2>4. \A f \in Files : Owes(r, f) => Owes(r, f)'
      BY <1>0, <2>1 DEF Owes, Owed, TypeOK, GraphTypeOK
    <2> QED
      BY <1>0, <2>1, <2>2, <2>3, <2>4, RunFollows DEF TypeOK, GraphTypeOK
  <1>6. CASE DeleteOld(r)
    <2>1. /\ pc[r] = "deleteOld" /\ pc' = [pc EXCEPT ![r] = "applyBatch"]
          /\ UNCHANGED <<disk, snapshot, mode, relpaths, deleted, changed, added, cur, text>>
          /\ \A f \in Files : file'[f] = IF f = cur[r] THEN Absent ELSE file[f]
      BY <1>0, <1>6 DEF DeleteOld, DeleteFileSubgraph, Goto, locals, graph, TypeOK, GraphTypeOK
    <2>2. Kept(r)
      BY <1>0, <2>1 DEF Kept, TypeOK, GraphTypeOK
    <2>3. r \notin late => Current(r)'
      BY <1>0, <2>1 DEF Current, TypeOK, GraphTypeOK
    <2>4. Owes(r, cur[r])' /\ \A f \in Files : Owes(r, f) => Owes(r, f)'
      BY <1>0, <2>1 DEF Owes, Owed, TypeOK, GraphTypeOK
    <2> QED
      BY <1>0, <2>1, <2>2, <2>3, <2>4, RunFollows DEF TypeOK, GraphTypeOK
  <1>7. CASE ApplyBatch(r)
    <2>1. /\ pc[r] = "applyBatch" /\ pc' = [pc EXCEPT ![r] = "upsertModule"]
          /\ UNCHANGED <<disk, snapshot, mode, relpaths, deleted, changed, added, cur, text>>
          /\ file' = [file EXCEPT ![cur[r]] = text[r]]
      BY <1>7 DEF ApplyBatch, WriteFile, Sha, Goto, locals
    <2>2. Kept(r)
      BY <1>0, <2>1 DEF Kept, TypeOK, GraphTypeOK
    <2>3. r \notin late => Current(r)' /\ text[r] = disk[cur[r]]
      BY <1>0, <2>1 DEF Current, TypeOK, GraphTypeOK
    <2>4. \A f \in Files \ {cur[r]} : file'[f] = file[f] /\ (Owes(r, f) => Owes(r, f)')
      BY <1>0, <2>1 DEF Owes, Owed, TypeOK, GraphTypeOK
    <2>5. cur[r] \in Files => file'[cur[r]] = text[r]
      BY <1>0, <2>1 DEF TypeOK, GraphTypeOK
    <2> QED
      BY <1>0, <2>1, <2>2, <2>3, <2>4, <2>5, RunFollows DEF TypeOK, GraphTypeOK
  <1>8. CASE UpsertModule(r) \/ LinkTests(r)
    <2>1. /\ pc[r] \in {"upsertModule", "linkTests"} /\ pc'[r] \in {"linkTests", "files"}
          /\ pc' = [pc EXCEPT ![r] = pc'[r]]
          /\ pc'[r] = "linkTests" => cur' = cur /\ text' = text
          /\ \A q \in Runs \ {r} : cur'[q] = cur[q] /\ text'[q] = text[q]
          /\ UNCHANGED <<disk, file, snapshot, mode, relpaths, deleted, changed, added>>
      BY <1>0, <1>8 DEF UpsertModule, MergeModule, LinkTests, graph, LinkTestCases, Goto, locals,
                        TypeOK, GraphTypeOK
    <2>2. Kept(r)
      BY <1>0, <2>1 DEF Kept, TypeOK, GraphTypeOK
    <2>3. r \notin late => Current(r)'
      BY <1>0, <2>1 DEF Current
    <2>4. \A f \in Files : Owes(r, f) => Owes(r, f)'
      BY <1>0, <2>1 DEF Owes, Owed
    <2> QED
      BY <1>0, <2>1, <2>2, <2>3, <2>4, RunFollows
  <1>9. CASE SetIndexedNow(r)
    <2>1. /\ pc[r] = "files" /\ pc' = [pc EXCEPT ![r] = "done"]
          /\ deleted[r] \cup changed[r] \cup added[r] = {}
          /\ UNCHANGED <<disk, file, snapshot, mode, relpaths, deleted, changed, added, cur, text>>
      BY <1>9 DEF SetIndexedNow, Goto, locals, graph
    <2>2. Kept(r)
      BY <1>0, <2>1 DEF Kept, TypeOK, GraphTypeOK
    <2>3. Current(r)'
      BY <1>0, <2>1 DEF Current, TypeOK, GraphTypeOK
    <2>4. \A f \in Files : ~Owes(r, f)
      BY <1>0, <2>1 DEF Owes, Owed
    <2> QED
      BY <1>0, <2>1, <2>2, <2>3, <2>4, RunFollows DEF TypeOK, GraphTypeOK
  <1>10. ~Abort(r)
    BY <1>0 DEF Abort, Goto, TypeOK, GraphTypeOK
  <1> QED
    BY <1>1, <1>2, <1>3, <1>4, <1>5, <1>6, <1>7, <1>8, <1>9, <1>10
    DEF RunStep, HashFails, ParseFails

LEMMA FollowingStep == WatchTypeOK /\ Following /\ [WatchNext]_watchVars => Following'
  <1> SUFFICES ASSUME WatchTypeOK, Following, [WatchNext]_watchVars
               PROVE  Following'
    OBVIOUS
  <1>1. CASE Open \/ Trigger \/ Stop \/ UNCHANGED watchVars
    <2>1. /\ UNCHANGED vars /\ late' = late
          /\ ~excused' /\ ~noticed' /\ ~timer' => ~excused /\ ~noticed /\ ~timer
          /\ ~excused' => ~excused
      BY <1>1 DEF Open, Trigger, Stop, watchVars, watch, WatchTypeOK
    <2>2. Alive' = Alive /\ UNCHANGED <<disk, file, mode, pc>>
      BY <2>1 DEF vars, graph, locals, Alive
    <2>3. \A q \in Runs : /\ Current(q)' <=> Current(q)
                          /\ \A f \in Files : Owes(q, f)' <=> Owes(q, f)
      BY <2>1 DEF vars, graph, locals, Current, Owes, Owed
    <2> QED
      BY <2>1, <2>2, <2>3 DEF Following, Alive
  <1>2. ASSUME NEW f \in Files, NEW c \in MaybeContent, Save(f, c)
        PROVE  Following'
    <2>1. /\ pc' = pc /\ mode' = mode /\ late' = Alive /\ Alive' = Alive
          /\ excused' = (excused \/ ~watching) /\ noticed' = watching
      BY <1>2 DEF Save, EditFile, locals, Alive
    <2> QED
      BY <2>1 DEF Following
  <1>3. ASSUME NEW r \in Runs, NEW m \in {"full", "incremental"}, Begin(r, m)
        PROVE  Following'
    BY <1>3, BeginFollows DEF Following
  <1>4. ASSUME NEW r \in Runs, Fire(r) \/ \E m \in Modes : ByHand(r, m)
        PROVE  Following'
    BY <1>3, <1>4, DataAssumption DEF Fire, ByHand
  <1>5. ASSUME NEW r \in Runs, GoOn(r), pc'[r] = "failed"
        PROVE  Following'
    <2>1. Abort(r)
      BY <1>5 DEF GoOn, RunStep, GetFileSnapshot, ClearNodes, ClearGraph, ClearMeta, HashFiles, HashFails,
                  DeleteGone, ParseFile, ParseFails, DeleteOld, ApplyBatch, UpsertModule,
                  MergeModule, LinkTests, graph, LinkTestCases, SetIndexedNow,
                  Goto, WatchTypeOK, TypeOK, GraphTypeOK
    <2> QED
      BY <1>5, <2>1, AbortFollows DEF GoOn
  <1>6. ASSUME NEW r \in Runs, GoOn(r), pc'[r] # "failed"
        PROVE  Following'
    <2>1. RunStep(r) /\ UNCHANGED <<noticed, timer, excused, late>>
      BY <1>6 DEF GoOn, watch, WatchTypeOK
    <2> QED
      BY <1>6, <2>1, StepFollows
  <1>7. ASSUME NEW r \in Runs, Dies(r)
        PROVE  Following'
    BY <1>7, AbortFollows DEF Dies, Crash
  <1> QED
    BY <1>1, <1>2, <1>4, <1>5, <1>6, <1>7 DEF WatchNext

LEMMA FollowingAlways == WatchSpec => []Following
  <1>1. WatchInit => Following
    BY DEF WatchInit, Init, EmptyGraph, Following, Alive, AtRest
  <1> QED
    BY <1>1, WatchTyping, FollowingStep, PTL DEF WatchSpec

\* Once every save has been taken up and every run is at rest, the graph is the
\* working tree, for any number of saves and of runs that overlap.
THEOREM SavesReachTheGraph == WatchSpec => []RestedMirrors
  <1>1. WatchTypeOK /\ Following => RestedMirrors
    <2> SUFFICES ASSUME WatchTypeOK, Following, Alive = {}, ~noticed, ~timer, ~excused
                 PROVE  file = disk
      BY DEF RestedMirrors
    <2>1. \A f \in Files : file[f] = disk[f]
      BY DEF Following
    <2> QED
      BY <2>1 DEF WatchTypeOK, TypeOK, GraphTypeOK
  <1> QED
    BY <1>1, WatchTyping, FollowingAlways, PTL

\* However many runs the watcher overlaps, a recorded sha256 has its symbols.
THEOREM WatchedCoverage == WatchSpec => []SymbolsCoverSha
  BY WatchIsIndexing, Coverage, PTL

\* And the module level keeps covering the file level.
THEOREM WatchedModuleCoverage == WatchSpec => []ModuleGraphCovers
  BY WatchIsIndexing, ModuleCoverage, PTL

\* And a run that ends undisturbed leaves the File nodes, and the sha256 they
\* record, as they are in the working tree.
THEOREM WatchedQuietRuns == WatchSpec => []QuietRunMirrorsDisk
  BY WatchIsIndexing, QuietRunsMirror, PTL

\* A run that the watcher has started, alone and incremental, removes no File
\* node that is already as in the tree.
THEOREM WatchedUnchangedKept == WatchSpec => UnchangedFilesKept
  BY WatchIsIndexing, UnchangedKept, PTL

\* A first index that ends undisturbed links exactly what lies behind it.
THEOREM WatchedFirstIndex == WatchSpec => []FirstIndexLinksBackward
  BY WatchIsIndexing, FirstIndexLinks, PTL

\* And no save, nor a run the watcher starts next to it, makes a run longer.
THEOREM WatchedRunsAreShort == WatchSpec => RunsAreShort
  BY WatchIsIndexing, ShortRuns, PTL

\* What the tools are served once all is quiet: every function of every file in
\* the tree, its module and all that its test calls, and of a file that is gone no
\* symbol, no test case and no edge.
THEOREM RestedGraphIsTheTree ==
  WatchSpec => [](Alive = {} /\ ~noticed /\ ~timer /\ ~excused =>
                     \A f \in Files :
                        IF disk[f] = Absent
                        THEN /\ syms[f] = {} /\ called[f] = {}
                             /\ \A e \in imports \cup tests : f \notin {e[1], e[2]}
                        ELSE /\ Defines[disk[f]] \subseteq syms[f] /\ ModuleOf[f] \in modules
                             /\ f \in TestFiles => CallsOf[disk[f]] \subseteq called[f])
  <1>1. RestedMirrors /\ SymbolsCoverSha /\ ModuleGraphCovers /\ NothingWithoutFile =>
           (Alive = {} /\ ~noticed /\ ~timer /\ ~excused =>
               \A f \in Files :
                  IF disk[f] = Absent
                  THEN /\ syms[f] = {} /\ called[f] = {}
                       /\ \A e \in imports \cup tests : f \notin {e[1], e[2]}
                  ELSE /\ Defines[disk[f]] \subseteq syms[f] /\ ModuleOf[f] \in modules
                       /\ f \in TestFiles => CallsOf[disk[f]] \subseteq called[f])
    BY DEF RestedMirrors, SymbolsCoverSha, ModuleGraphCovers, NothingWithoutFile
  <1> QED
    BY <1>1, SavesReachTheGraph, WatchedCoverage, WatchedModuleCoverage, WatchIsIndexing, Attached,
       PTL

\* Nothing is told of or scheduled but for an open watcher.
Armed == noticed \/ timer => watching

LEMMA ArmedStep == WatchTypeOK /\ Armed /\ [WatchNext]_watchVars => Armed'
  BY DEF WatchTypeOK, Armed, WatchNext, watchVars, watch, Open, Trigger, Stop, Save, Fire, ByHand,
         GoOn, Dies

\* stop() is final, whatever was saved, noticed or scheduled before.
THEOREM StoppedForGood == WatchSpec => StopIsFinal
  <1>1. ASSUME Armed, ~watching, WatchNext, NEW r \in Runs, pc[r] \in AtRest, pc'[r] \notin AtRest
        PROVE  UNCHANGED timer
    <2>1. ~noticed /\ ~timer
      BY <1>1 DEF Armed
    <2>2. ~Trigger /\ ~Stop /\ \A q \in Runs : ~Fire(q)
      BY <1>1, <2>1 DEF Trigger, Stop, Fire
    <2> QED
      BY <1>1, <2>2 DEF WatchNext, Open, Save, ByHand, GoOn, Dies, watch
  <1>2. Armed /\ [WatchNext]_watchVars =>
            [~watching => \A r \in Runs : pc[r] \in AtRest /\ pc'[r] \notin AtRest
                                              => UNCHANGED timer]_watchVars
    BY <1>1
  <1>3. WatchInit => Armed
    BY DEF WatchInit, Armed
  <1> QED
    BY <1>2, <1>3, WatchTyping, ArmedStep, PTL DEF WatchSpec, StopIsFinal
=============================================================================
