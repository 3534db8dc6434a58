---------------------------- MODULE ContextBudget ----------------------------
(***************************************************************************)
(* What a tool call puts into its answer.  Each of the fifteen tools makes *)
(* a ContextBudgetManager for the call, asks it before it adds the items   *)
(* it found (a list tool adds as many as fit), the object it found, or the *)
(* details, and says in `completeness` whether something was left out.     *)
(*                                                                         *)
(* A payload is its size in tokens (estimateTokens); sizes of parts add up.*)
(***************************************************************************)
EXTENDS Integers, Sequences

CONSTANTS
    MaxTokens,      \* maxTokens of the manager, 4000
    SafetyMargin,   \* safetyMargin of the manager, 200
    Counts,         \* numbers of items a query may find
    ItemSizes,      \* tokens one found item may have
    Sizes           \* tokens the other parts of an answer may have

\* There is room for one item of any list tool.
ASSUMPTION BudgetAssumption ==
    /\ MaxTokens \in Nat /\ SafetyMargin \in Nat
    /\ MaxTokens - SafetyMargin >= 63
    /\ Counts \subseteq Nat /\ ItemSizes \subseteq Nat \ {0} /\ Sizes \subseteq Nat

-----------------------------------------------------------------------------
(* The tools.  perItem is what a list tool reserves for an item (0: not a  *)
(* list tool), least and most how many items its query returns, whole      *)
(* whether the items are shown inside the whole result of the query, plan  *)
(* the order of its steps, ends the completeness of an empty answer and of *)
(* one with items.                                                         *)

ItemsDetailsSummary == <<"items", "details", "summary", "build">>
MSummaryFirst == <<"summary", "items", "details", "build">>
ItemsSummaryDetails == <<"items", "summary", "details", "build">>
ItemsSummary == <<"items", "summary", "build">>
MDetailsFirst == <<"summary", "details", "object", "build">>
SummaryObjectDetails == <<"summary", "object", "details", "build">>
SummaryObject == <<"summary", "object", "build">>
Plans == {ItemsDetailsSummary, ItemsSummaryDetails, ItemsSummary,
          SummaryObjectDetails, SummaryObject}

Tool(name, perItem, least, most, whole, plan, ifEmpty, otherwise) ==
    [name |-> name, perItem |-> perItem, least |-> least, most |-> most,
     whole |-> whole, plan |-> plan,
     ends |-> [empty \in BOOLEAN |-> IF empty THEN ifEmpty ELSE otherwise]]

\* A query without a limit: no answer has room for so many items.
Many == MaxTokens

Complete == {"complete"}
Partial == {"partial"}

FindTarget == Tool("find_target", 40, 0, 40, FALSE, ItemsDetailsSummary, Partial, Complete)
FindFileExact == Tool("find_file_exact", 0, 1, 1, TRUE, SummaryObjectDetails, Complete, Complete)
GetModuleBoundary == Tool("get_module_boundary", 0, 0, 60, FALSE, SummaryObjectDetails, Complete, Complete)
TraceImpact == Tool("trace_impact", 45, 0, 200, FALSE, ItemsSummaryDetails, Complete, Complete)
FollowData == Tool("follow_data", 50, 0, Many, FALSE, ItemsSummaryDetails, Partial, Complete)
AssessChangeRisk == Tool("assess_change_risk", 0, 1, 1, TRUE, SummaryObject, Complete, Complete)
ResolveConcept == Tool("resolve_concept", 45, 0, 25, FALSE, ItemsSummary, Partial, Complete)
GetTestsForFunction == Tool("get_tests_for_function", 35, 0, Many, TRUE, ItemsSummary, Partial, Complete)
FindTestsByPath == Tool("find_tests_by_path", 30, 0, Many, TRUE, ItemsSummaryDetails, Partial, Complete)
GetContextForTask == Tool("get_context_for_task", 0, 1, 3, TRUE, SummaryObject, Complete, Complete)
\* The items are the entry points: layers and concepts are a few names beside them.
UnderstandCodebase == Tool("understand_codebase", 0, 0, 20, TRUE, SummaryObjectDetails, Complete, Complete)
\* Callees may be known of a function that has no samples of its own.
ExecutionReality ==
    Tool("execution_reality", 0, 0, 25, TRUE, SummaryObjectDetails, Partial, Complete \cup Partial)
SafeRefactorPlan == Tool("safe_refactor_plan", 0, 0, 40, TRUE, SummaryObjectDetails, Complete, Complete)
GenerateContextForLlm ==
    Tool("generate_context_for_llm", 0, 0, 8, TRUE, SummaryObjectDetails, Partial, Complete)
QueryExecutionTrace ==
    Tool("query_execution_trace", 50, 0, 50, TRUE, ItemsSummaryDetails, Partial, Complete)

Tools == {FindTarget, FindFileExact, GetModuleBoundary, TraceImpact, FollowData,
          AssessChangeRisk, ResolveConcept, GetTestsForFunction, FindTestsByPath,
          GetContextForTask, UnderstandCodebase, ExecutionReality, SafeRefactorPlan,
          GenerateContextForLlm, QueryExecutionTrace}

\* The tools that answer that there is no such file or module.
LookupTools == {FindFileExact, GetModuleBoundary}

Takes(t, part) == \E i \in DOMAIN t.plan : t.plan[i] = part

\* A call with what its query finds: how many items of what size, the size of the
\* summary, of the rest of the result, and what the layout of the details adds.
Inputs == [tool : Tools, count : Counts, itemSize : ItemSizes, summary : Sizes,
           rest : Sizes, layout : Sizes, wanted : BOOLEAN]

MayFind(c) ==
    /\ c.count \in c.tool.least .. c.tool.most
    /\ c.wanted => Takes(c.tool, "details")

VARIABLES
    call,           \* the call: its input, and what its query finds
    step,           \* where it is in its tool's plan
    used,           \* usedTokens of the manager
    shown,          \* items in the answer (`returned`)
    hasMore,        \* hasMore of fitByBudget
    relationships,  \* whether the answer has relationships
    details,        \* whether it has details
    outcome,        \* `completeness`, "asking" or "open" before it is known
    tokens,         \* estimated_tokens of the answer
    granted         \* history: tokens that checks have allowed to add

vars == <<call, step, used, shown, hasMore, relationships, details, outcome, tokens, granted>>
answer == <<shown, hasMore, relationships, details>>

TypeOK ==
    /\ call \in Inputs
    /\ step \in DOMAIN call.tool.plan
    /\ used \in Nat /\ shown \in Nat /\ tokens \in Nat /\ granted \in Nat
    /\ hasMore \in BOOLEAN /\ relationships \in BOOLEAN /\ details \in BOOLEAN
    /\ outcome \in {"asking", "open", "complete", "partial", "truncated", "failed"}

-----------------------------------------------------------------------------
(* Sizes, and the manager.                                                 *)

Rest(c) == IF c.tool.whole THEN c.rest ELSE 0
RelationshipsSize(c, n) == n * c.itemSize + Rest(c)
DetailsSize(c) == c.count * c.itemSize + Rest(c) + c.layout

Limit == MaxTokens - SafetyMargin
Available == Limit - used
\* checkBudget: what is asked for if there is room, else a part of what is left.
MAllowedIgnoresUse(requested) == requested <= Limit
Allowed(requested) == requested <= Available
Allocate == ((IF Available > 0 THEN Available ELSE 0) * 4) \div 5

\* One thing of n tokens is added, and the manager told of it.
Spend(n) == used' = used + n /\ granted' = granted + n

-----------------------------------------------------------------------------
(* A call.                                                                 *)

At(part) == outcome = "open" /\ call.tool.plan[step] = part

Advance == step' = step + 1 /\ UNCHANGED <<call, outcome, tokens>>

Init ==
    /\ call \in {c \in Inputs : MayFind(c)}
    /\ step = 1 /\ used = 0 /\ granted = 0 /\ tokens = 0
    /\ shown = 0 /\ hasMore = FALSE /\ relationships = FALSE /\ details = FALSE
    /\ outcome = "asking"

\* The query has answered.
Found ==
    /\ outcome = "asking" /\ outcome' = "open"
    /\ UNCHANGED <<call, step, used, granted, answer, tokens>>

\* A summary of fixed size is all the answer.
GivesUp(n) ==
    /\ outcome = "asking" /\ outcome' = "failed" /\ tokens' = n
    /\ UNCHANGED <<call, step, used, granted, answer>>

\* There is no such file or module.
NotFound == call.tool \in LookupTools /\ GivesUp(20)

\* The query failed.
Fails == GivesUp(36)

\* fitByBudget: how many of n items there is room for, at perItem each.
MFittingOverrun(n, perItem) ==
    IF Allowed(n * perItem) THEN n ELSE (Available - n * perItem) \div perItem
Fitting(n, perItem) == IF Allowed(n * perItem) THEN n ELSE Allocate \div perItem

FitItems ==
    /\ At("items")
    /\ LET n == Fitting(call.count, call.tool.perItem) IN
         /\ Spend(n * call.tool.perItem)
         /\ shown' = IF n < call.count THEN n ELSE call.count
         /\ hasMore' = (call.count > n)
    /\ relationships' = (shown' > 0)
    /\ Advance
    /\ UNCHANGED details

\* The summary is tracked and never refused.
Summarise ==
    /\ At("summary")
    /\ used' = used + call.summary
    /\ Advance
    /\ UNCHANGED <<answer, granted>>

\* maybeRelationshipsObject: the whole object or nothing.
ShowObject ==
    /\ At("object")
    /\ LET size == RelationshipsSize(call, call.count) IN
         \/ /\ Allowed(size)
            /\ Spend(size)
            /\ relationships' = TRUE /\ shown' = call.count
         \/ ~Allowed(size) /\ UNCHANGED <<used, granted, relationships, shown>>
    /\ Advance
    /\ UNCHANGED <<hasMore, details>>

\* maybeDetails: the same, if the caller wants them.
ShowDetails ==
    /\ At("details")
    /\ \/ /\ call.wanted /\ Allowed(DetailsSize(call))
          /\ Spend(DetailsSize(call))
          /\ details' = TRUE
       \/ ~(call.wanted /\ Allowed(DetailsSize(call))) /\ UNCHANGED <<used, granted, details>>
    /\ Advance
    /\ UNCHANGED <<shown, hasMore, relationships>>

MTruncatedItemsOnly == hasMore \/ (call.count > 0 /\ ~relationships)
Truncated ==
    \/ hasMore
    \/ call.count > 0 /\ ~relationships
    \/ call.wanted /\ ~details

\* buildProgressiveOutput: the answer is measured as it is.
Build ==
    /\ At("build")
    /\ IF Truncated THEN outcome' = "truncated" ELSE outcome' \in call.tool.ends[call.count = 0]
    /\ tokens' = call.summary
                 + (IF relationships THEN RelationshipsSize(call, shown) ELSE 0)
                 + (IF details THEN DetailsSize(call) ELSE 0)
    /\ UNCHANGED <<call, step, used, granted, answer>>

Next ==
    \/ Found \/ NotFound \/ Fails
    \/ FitItems \/ Summarise \/ ShowObject \/ ShowDetails
    \/ Build

Spec == Init /\ [][Next]_vars

-----------------------------------------------------------------------------
(* Properties.                                                             *)

Answered == outcome \in {"complete", "partial", "truncated"}

Withheld == shown < call.count \/ (call.wanted /\ ~details)

Past(part) == \E i \in 1 .. (step - 1) : call.tool.plan[i] = part

\* A part is added only while everything so far, the summary included, leaves the
\* safety margin: what an earlier part took is not given out again.
Spent == granted + (IF Past("summary") THEN call.summary ELSE 0)
GrantsFitLimit == [][granted' # granted => Spent' <= Limit]_vars

\* The completeness of an answer tells whether an item that was found, or the
\* details asked for, were left out of it, on every way through the steps of every
\* tool.  It does not tell of the result object of a tool that found no item: that
\* one alone may be refused, and the answer be called complete or partial.
TruncatedIffWithheld ==
    Answered =>
        /\ outcome = "truncated" <=> Withheld
        /\ Takes(call.tool, "object") /\ ~relationships
               => outcome = "truncated" \/ call.count = 0

\* A list tool that found something shows something, however large its summary and
\* details: the items are fitted first.
ListNeverEmpty ==
    Answered /\ call.tool.perItem > 0 /\ call.count > 0 => shown > 0

\* Level 3 of an answer contains level 2: details come only with the relationships
\* they detail, though each is checked on its own.
LevelsNested == Answered /\ details /\ call.count > 0 => relationships
=============================================================================
