------------------------------ MODULE Serving ------------------------------
(***************************************************************************)
(* From a save to an answer: the watcher and the runs it starts (Watch)    *)
(* write the graph that tool calls (Queries) read, and a call begins only  *)
(* once the graph is marked as indexed (ensureScopeReady).  Operators M... *)
(* are mutants.                                                            *)
(***************************************************************************)
EXTENDS Watch, Queries

VARIABLE
    \* history, read by properties only
    upToDate    \* the names a call has looked up, other than from the memo,
                \* since every save is in the graph

server == <<memo, callVars, history>>
servingVars == <<watchVars, server, upToDate>>

\* Every save has been taken up, and nothing excuses the graph.
Rested == Alive = {} /\ ~noticed /\ ~timer /\ ~excused

ServingTypeOK ==
    /\ WatchTypeOK
    /\ QueryTypeOK
    /\ upToDate \in [Calls -> SUBSET Names]

ServingInit ==
    /\ WatchInit
    /\ QueryInit
    /\ upToDate = [c \in Calls |-> {}]

\* A step of the editor, the watcher or a run: the calls under way are not
\* told, but what is there all the while may get less.
Index ==
    /\ WatchNext
    /\ IF UNCHANGED graph
       THEN UNCHANGED server
       ELSE /\ Remember
            /\ cleared' = [c \in Calls |-> cleared[c] \/ \E r \in Runs : ClearNodes(r)]
    /\ upToDate' = [c \in Calls |-> IF Rested' THEN upToDate[c] ELSE {}]

\* runTool is called on an indexed graph; on any other it refuses.
Serve(c) ==
    /\ indexed
    /\ Asks(c)
    /\ upToDate' = [upToDate EXCEPT ![c] = {}]
    /\ UNCHANGED watchVars

\* The call goes on.
Sends(c) == at[c] = "next" /\ at'[c] = "targets"
Proceed(c) ==
    /\ Reads(c)
    /\ upToDate' = [upToDate EXCEPT ![c] = IF Sends(c) /\ Rested THEN @ \cup {name'[c]} ELSE @]
    /\ UNCHANGED watchVars

Refuse(c) ==
    /\ Fails(c)
    /\ upToDate' = [upToDate EXCEPT ![c] = {}]
    /\ UNCHANGED watchVars

Age(n) ==
    /\ Expire(n)
    /\ UNCHANGED <<watchVars, upToDate>>

ServingNext ==
    \/ Index
    \/ \E n \in Names : Age(n)
    \/ \E c \in Calls : Serve(c) \/ Proceed(c) \/ Refuse(c)

ServingSpec == ServingInit /\ [][ServingNext]_servingVars

-----------------------------------------------------------------------------
(* Properties.                                                             *)

\* What Queries takes for granted of whoever indexes is true of the runs: each
\* step of theirs makes one call of the repository, for a text that has the
\* imports it is given, or clears the graph; so what Queries promises of its
\* answers holds here.
RunsWriteAsQueriesExpects == QuerySpec

\* Once the saves are in the graph they are in the answers: a test file of the
\* tree whose text calls the function is suggested, and the tests suggested for
\* a function are in the tree, whatever runs, failures and clearings led there
\* and whatever the call was doing meanwhile.  What comes from the memo is not
\* meant: it may be from before the last save.
SavedTestsSuggested ==
    \A c \in Calls : at[c] = "answered" =>
        \A n \in upToDate[c] :
            /\ ~answer[c].cut => \A t \in LikelyTests \cap TestFiles :
                   disk[t] # Absent /\ Mentions(CallsOf[disk[t]], n) => answer[c].tests[t] >= 66
            /\ tool[c] = "tests_for_function" => \A t \in LikelyTests :
                   answer[c].tests[t] > 0 => disk[t] # Absent

-----------------------------------------------------------------------------
(* Inductive strengthening of SavedTestsSuggested, for the proofs.         *)

\* Nothing has been saved or indexed since the name was looked up: the test
\* cases that call it are those that did then.
SoughtIsSteady(c) ==
    /\ upToDate[c] # {} => Rested
    /\ \A n \in upToDate[c], t \in LikelyTests : Mentions(called[t], n) =>
           \/ <<t, n>> \in answer[c].steady
           \/ at[c] \in LookingUp /\ name[c] = n /\ <<t, n>> \in lookup[c].steady

\* tests_for_function looks up one name, in the graph or in the memo; in the
\* graph it finds tests that are there.
FoundIsThere(c) ==
    /\ at[c] \in {"file", "names"} => tool[c] = "tests_by_path"
    /\ tool[c] = "tests_for_function" =>
           /\ \A m, n \in todo[c] : m = n
           /\ todo[c] # {} => \A t \in LikelyTests : answer[c].tests[t] = 0
           /\ at[c] \in LookingUp => name[c] \in todo[c]
           /\ at[c] = "next" /\ todo[c] # {} => upToDate[c] = {}
           /\ upToDate[c] # {} => \A t \in LikelyTests :
                  lookup[c].tests[t] + answer[c].tests[t] > 0 => file[t] # Absent

AnswersFollow == \A c \in Calls : SoughtIsSteady(c) /\ FoundIsThere(c)
=============================================================================
