------------------------------- MODULE Watch -------------------------------
(***************************************************************************)
(* "autopology watch" (startIndexWatch): file events, debounced by a timer, *)
(* start runs of Indexer in one process, next to runs started by hand.     *)
(* Nothing keeps a run from starting while another one awaits, and an      *)
(* error of a run is swallowed.                                            *)
(*                                                                         *)
(* chokidar is external: it tells of every save at some later moment, of   *)
(* several at once, and never again after close().                         *)
(***************************************************************************)
EXTENDS Indexer

CONSTANT MaxActs    \* bound on saves and commands, which do stop: see FairWatch

ASSUME WatchAssumption ==
    /\ MaxActs \in Nat
    /\ "incremental" \in Modes

VARIABLES
    acts,       \* how many saves and commands there were
    watching,   \* the watcher has not been closed
    noticed,    \* chokidar has something to tell
    timer,      \* the timer is set
    \* history, read by properties only
    late,       \* alive since before the last save
    excused     \* the graph need not follow the working tree: see Begin

watch == <<acts, watching, noticed, timer>>
watchVars == <<vars, watch, late, excused>>

Alive == {r \in Runs : pc[r] \notin AtRest}

WatchTypeOK ==
    /\ TypeOK
    /\ acts \in 0 .. MaxActs
    /\ watching \in BOOLEAN
    /\ noticed \in BOOLEAN
    /\ timer \in BOOLEAN
    /\ late \subseteq Runs
    /\ excused \in BOOLEAN

\* Nothing is in the graph, and nobody has promised to put in what there is.
WatchInit ==
    /\ Init
    /\ acts = 0
    /\ watching = FALSE
    /\ noticed = FALSE
    /\ timer = FALSE
    /\ late = {}
    /\ excused = (disk # NoFile)

-----------------------------------------------------------------------------
\* A run starts.  Nobody promises to index a tree that was saved unwatched, a
\* save cut short by stop(), what a full run leaves out, what a failed one has
\* left, or what a run that began before the last save may still write over;
\* an incremental run that starts alone makes up for all of it.
Begin(r, m) ==
    /\ Start(r, m)
    /\ late' = late \ {r}
    /\ excused' = IF m = "full" THEN TRUE
                  ELSE IF Alive = {} THEN FALSE
                  ELSE excused \/ late \cap Alive # {}

\* startIndexWatch; ignoreInitial: nothing is said of the tree as it is.
Open ==
    /\ ~watching
    /\ watching' = TRUE
    /\ UNCHANGED <<vars, acts, noticed, timer, late, excused>>

\* The editor, or git, writes, creates or removes a file.
Save(f, c) ==
    /\ acts < MaxActs
    /\ EditFile(f, c)
    /\ acts' = acts + 1
    /\ noticed' = watching
    /\ late' = Alive
    /\ excused' = (excused \/ ~watching)
    /\ UNCHANGED <<watching, timer>>

\* add, change, unlink -> trigger: clearTimeout, setTimeout.
MOnlyWhenIdle ==
    /\ noticed
    /\ noticed' = FALSE
    /\ timer' = (Alive = {})
    /\ UNCHANGED <<vars, acts, watching, late, excused>>
MClearsOnly ==
    /\ noticed
    /\ noticed' = FALSE
    /\ timer' = ~timer
    /\ UNCHANGED <<vars, acts, watching, late, excused>>
Trigger ==
    /\ noticed
    /\ noticed' = FALSE
    /\ timer' = TRUE
    /\ UNCHANGED <<vars, acts, watching, late, excused>>

\* The callback: indexRepo(repo, repoRoot, 'incremental', cfg), whoever runs.
Fire(r) ==
    /\ timer
    /\ Begin(r, "incremental")
    /\ timer' = FALSE
    /\ UNCHANGED <<acts, watching, noticed>>

\* stop(): close() and clearTimeout.  Runs go on, unless the process exits.
MKeepsTimer ==
    /\ watching
    /\ watching' = FALSE
    /\ noticed' = FALSE
    /\ excused' = (excused \/ noticed \/ timer)
    /\ UNCHANGED <<vars, acts, timer, late>>
Stop ==
    /\ watching
    /\ watching' = FALSE
    /\ noticed' = FALSE
    /\ timer' = FALSE
    /\ excused' = (excused \/ noticed \/ timer)
    /\ UNCHANGED <<vars, acts, late>>

\* "graph create" and "setup".
ByHand(r, m) ==
    /\ acts < MaxActs
    /\ Begin(r, m)
    /\ acts' = acts + 1
    /\ UNCHANGED <<watching, noticed, timer>>

\* A run goes on, whoever started it: the callback swallows what it throws.
GoOn(r) ==
    /\ RunStep(r)
    /\ excused' = (excused \/ pc'[r] = "failed")
    /\ UNCHANGED <<watch, late>>

\* SIGINT after stop() included.
Dies(r) ==
    /\ Crash(r)
    /\ excused' = TRUE
    /\ UNCHANGED <<watch, late>>

WatchNext ==
    \/ Open \/ Trigger \/ Stop
    \/ \E f \in Files, c \in MaybeContent : Save(f, c)
    \/ \E r \in Runs : \/ Fire(r) \/ GoOn(r) \/ Dies(r)
                       \/ \E m \in Modes : ByHand(r, m)

WatchSpec == WatchInit /\ [][WatchNext]_watchVars

\* chokidar reports what it has seen, the event loop resumes awaits, and a
\* timer that is not set again expires: saves that go on for ever within the
\* debounce time would put it off for ever, and MaxActs says they do not.
FairWatch ==
    /\ WatchSpec
    /\ WF_watchVars(Trigger)
    /\ WF_watchVars(\E r \in Runs : Fire(r))
    /\ \A r \in Runs : WF_watchVars(GoOn(r))

-----------------------------------------------------------------------------
(* Properties.                                                             *)

\* What watching is for: once the saves stop, and whatever overlaps, the graph
\* comes to mirror the tree and stays so, unless a run fails, the watcher is
\* stopped before it has fired, or a run that began before the last save is
\* alive when the one for it starts.
GraphFollows == <>[](file = disk \/ excused)

\* When all is quiet it mirrors the tree already.
RestedMirrors == Alive = {} /\ ~noticed /\ ~timer /\ ~excused => file = disk

\* After stop() no run starts but by hand: whatever was saved, noticed or
\* scheduled before.
StopIsFinal ==
    [][~watching => \A r \in Runs : pc[r] \in AtRest /\ pc'[r] \notin AtRest
                                        => UNCHANGED timer]_watchVars

-----------------------------------------------------------------------------
(* Inductive strengthening of RestedMirrors, for the proofs.               *)

\* The list, the deletions still to come and the text of a run that began
\* after the last save are those of the tree as it is.
Current(r) ==
    /\ pc[r] \in {"snapshot", "clearNodes", "clearMeta", "hash"}
           => relpaths[r] = {f \in Files : disk[f] # Absent}
    /\ pc[r] \in PerFile \cup {"files"} => \A f \in deleted[r] : disk[f] = Absent
    /\ pc[r] \in PerFile => text[r] = disk[cur[r]]

\* Such a run will see that path f is not as in the tree, has seen it, or is
\* at it.
Owes(r, f) ==
    \/ pc[r] = "snapshot"
    \/ pc[r] = "hash" /\ snapshot[r][f] # disk[f]
    \/ pc[r] \in PerFile \cup {"files"} /\ f \in Owed(r)

\* Without an excuse no full run is alive, and once every save has been taken
\* up only runs that began after the last one are, and any path that is not as
\* in the tree is owed by one of them.
Following ==
    /\ \A r \in Alive \ late : Current(r)
    /\ ~excused => \A r \in Alive : mode[r] = "incremental" /\ pc[r] \notin {"clearNodes", "clearMeta"}
    /\ ~excused /\ ~noticed /\ ~timer =>
           /\ late \cap Alive = {}
           /\ \A f \in Files : file[f] = disk[f] \/ \E r \in Alive : Owes(r, f)
=============================================================================
