-------------------------- MODULE PublishedAnswers --------------------------
(***************************************************************************)
(* What the tools promise of their answers, without caches, stamps or      *)
(* queries.  Writers change the graph and publish it now and then; a call  *)
(* asks, waits and is answered with some past content of the graph, never  *)
(* an older one than was published when it asked.  Calls of one server may *)
(* ask together: then they wait for what the first of them asked.  A       *)
(* server that starts asks for itself, before any call.                    *)
(* A publication may be taken for an earlier one (a span with the time of  *)
(* an earlier span); from then on an answer may be any past content.       *)
(***************************************************************************)
EXTENDS Naturals

CONSTANTS Calls, Servers, ServerOf, WarmUp, None

VARIABLES
    content,    \* number of writes to the graph
    published,  \* how many of them were there at the last publication
    repeated,   \* some publication could not be told from an earlier one
    asked,      \* [Calls -> what was published when it asked, or None]
    answer      \* [Calls -> the content it was answered with, or None]

vars == <<content, published, repeated, asked, answer>>

Init ==
    /\ content = 0
    /\ published = 0
    /\ repeated = FALSE
    /\ asked = [c \in Calls |-> IF c \in {WarmUp[s] : s \in Servers} THEN 0 ELSE None]
    /\ answer = [c \in Calls |-> None]

Write ==
    /\ content' = content + 1
    /\ UNCHANGED <<published, repeated, asked, answer>>

Publish ==
    /\ content' = content + 1
    /\ published' = content + 1
    /\ repeated' \in {repeated, TRUE}
    /\ UNCHANGED <<asked, answer>>

Waits(c) == asked[c] # None /\ answer[c] = None

Ask(c) ==
    /\ asked[c] = None
    /\ asked' = [asked EXCEPT ![c] = published]
    /\ UNCHANGED <<content, published, repeated, answer>>

AskWith(c, d) ==
    /\ asked[c] = None
    /\ Waits(d)
    /\ ServerOf[d] = ServerOf[c]
    /\ asked' = [asked EXCEPT ![c] = asked[d]]
    /\ UNCHANGED <<content, published, repeated, answer>>

Answer(c) ==
    /\ Waits(c)
    /\ \E v \in 0 .. content :
        /\ v >= asked[c] \/ repeated
        /\ answer' = [answer EXCEPT ![c] = v]
    /\ UNCHANGED <<content, published, repeated, asked>>

\* Calls fail, or make room for the next ones.
Leave(gone) ==
    /\ asked' = [c \in Calls |-> IF c \in gone THEN None ELSE asked[c]]
    /\ answer' = [c \in Calls |-> IF c \in gone THEN None ELSE answer[c]]
    /\ UNCHANGED <<content, published, repeated>>

\* A server loses its calls and asks again.
Restart(s) ==
    /\ asked' = [c \in Calls |-> IF c = WarmUp[s] THEN published
                                ELSE IF ServerOf[c] = s THEN None ELSE asked[c]]
    /\ answer' = [c \in Calls |-> IF ServerOf[c] = s THEN None ELSE answer[c]]
    /\ UNCHANGED <<content, published, repeated>>

Next ==
    \/ Write
    \/ Publish
    \/ \E c \in Calls : Ask(c) \/ Answer(c) \/ \E d \in Calls : AskWith(c, d)
    \/ \E gone \in SUBSET Calls : Leave(gone)
    \/ \E s \in Servers : Restart(s)

Spec == Init /\ [][Next]_vars
=============================================================================
