------------------------- MODULE ContextBudgetProofs -------------------------
(***************************************************************************)
(* Theorems about ContextBudget, for every budget, margin and size.        *)
(*                                                                         *)
(* Accounts says what the manager and the answer are after the steps of    *)
(* the plan that are past.  OrderOfSteps is all that is needed of the      *)
(* plans, ToolFacts all that is needed of the tools.                       *)
(***************************************************************************)
EXTENDS ContextBudget, TLAPS

PerItems == {30, 35, 40, 45, 50}
ItemPlans == {ItemsDetailsSummary, ItemsSummaryDetails, ItemsSummary}

-----------------------------------------------------------------------------
(* The tools and their plans.                                              *)

\* What a tool reserves for an item, and which plans list tools have.
LEMMA ToolFacts ==
  ASSUME NEW t \in Tools
  PROVE  /\ t.plan \in Plans
         /\ IF t.plan \in ItemPlans THEN t.perItem \in PerItems ELSE t.perItem = 0
         /\ t.whole \in BOOLEAN
         /\ t.ends \in [BOOLEAN -> SUBSET {"complete", "partial"}]
  <1> DEFINE Good(u) ==
        /\ u.plan \in Plans
        /\ IF u.plan \in ItemPlans THEN u.perItem \in PerItems ELSE u.perItem = 0
        /\ u.whole \in BOOLEAN
        /\ u.ends \in [BOOLEAN -> SUBSET {"complete", "partial"}]
  <1>1. ASSUME NEW n, NEW per \in PerItems \cup {0}, NEW l, NEW m, NEW w \in BOOLEAN,
               NEW p \in Plans, IF p \in ItemPlans THEN per \in PerItems ELSE per = 0,
               NEW a \in SUBSET {"complete", "partial"},
               NEW b \in SUBSET {"complete", "partial"}
        PROVE  Good(Tool(n, per, l, m, w, p, a, b))
    BY <1>1 DEF Tool
  <1>2. /\ Complete \in SUBSET {"complete", "partial"}
        /\ Partial \in SUBSET {"complete", "partial"}
        /\ Complete \cup Partial \in SUBSET {"complete", "partial"}
    BY DEF Complete, Partial
  <1>3. /\ ItemsDetailsSummary \in Plans /\ ItemsDetailsSummary \in ItemPlans
        /\ ItemsSummaryDetails \in Plans /\ ItemsSummaryDetails \in ItemPlans
        /\ ItemsSummary \in Plans /\ ItemsSummary \in ItemPlans
        /\ SummaryObjectDetails \in Plans /\ SummaryObject \in Plans
    BY DEF Plans, ItemPlans
  <1>4. SummaryObjectDetails \notin ItemPlans /\ SummaryObject \notin ItemPlans
    <2>1. \A p \in ItemPlans : p[1] = "items"
      BY DEF ItemPlans, ItemsDetailsSummary, ItemsSummaryDetails, ItemsSummary
    <2>2. SummaryObjectDetails[1] = "summary" /\ SummaryObject[1] = "summary"
      BY DEF SummaryObjectDetails, SummaryObject
    <2> QED
      BY <2>1, <2>2
  <1>5. {30, 35, 40, 45, 50} = PerItems
    BY DEF PerItems
  <1> HIDE DEF Good
  <1>6. Good(FindTarget) /\ Good(TraceImpact) /\ Good(FollowData) /\ Good(ResolveConcept)
    BY <1>1, <1>2, <1>3, <1>5 DEF FindTarget, TraceImpact, FollowData, ResolveConcept
  <1>7. Good(GetTestsForFunction) /\ Good(FindTestsByPath) /\ Good(QueryExecutionTrace)
    BY <1>1, <1>2, <1>3, <1>5 DEF GetTestsForFunction, FindTestsByPath, QueryExecutionTrace
  <1>8. Good(FindFileExact) /\ Good(GetModuleBoundary) /\ Good(AssessChangeRisk)
    BY <1>1, <1>2, <1>3, <1>4 DEF FindFileExact, GetModuleBoundary, AssessChangeRisk
  <1>9. Good(GetContextForTask) /\ Good(UnderstandCodebase) /\ Good(ExecutionReality)
    BY <1>1, <1>2, <1>3, <1>4 DEF GetContextForTask, UnderstandCodebase, ExecutionReality
  <1>10. Good(SafeRefactorPlan) /\ Good(GenerateContextForLlm)
    BY <1>1, <1>2, <1>3, <1>4 DEF SafeRefactorPlan, GenerateContextForLlm
  <1>11. Good(t)
    BY <1>6, <1>7, <1>8, <1>9, <1>10 DEF Tools
  <1> QED
    BY <1>11 DEF Good

\* A plan is short, and "build" is its last step and only that.
LEMMA PlanFacts ==
  ASSUME NEW p \in Plans
  PROVE  /\ DOMAIN p \in {1 .. 3, 1 .. 4}
         /\ \A i \in DOMAIN p : p[i] # "build" => i + 1 \in DOMAIN p
         /\ p \in ItemPlans <=> p[1] = "items"
         /\ \A i \in DOMAIN p : p[i] = "items" => i = 1
  BY DEF Plans, ItemPlans, ItemsDetailsSummary, ItemsSummaryDetails, ItemsSummary,
         SummaryObjectDetails, SummaryObject

\* What is past when a step is taken.
LEMMA OrderOfSteps ==
  ASSUME call.tool.plan \in Plans, step \in DOMAIN call.tool.plan
  PROVE  LET now == call.tool.plan[step] IN
         /\ now = "items" =>
              step = 1 /\ \A part \in {"items", "summary", "object", "details"} : ~Past(part)
         /\ now = "summary" => ~Past("summary") /\ ~Past("object")
         /\ now = "object" => ~Past("items") /\ ~Past("object") /\ ~Past("details")
         /\ now = "details" => ~Past("details") /\ (Past("items") \/ Past("object"))
         /\ now = "build" => Past("items") \/ Past("object")
         /\ Past("items") => ~Past("object") /\ call.tool.plan \in ItemPlans
         /\ Past("object") => call.tool.plan \notin ItemPlans
  <1> USE DEF Past
  <1>0. step \in 1 .. 4
    BY PlanFacts
  <1>1. CASE call.tool.plan = ItemsDetailsSummary
    BY <1>0, <1>1 DEF ItemPlans, ItemsDetailsSummary
  <1>2. CASE call.tool.plan = ItemsSummaryDetails
    BY <1>0, <1>2 DEF ItemPlans, ItemsSummaryDetails
  <1>3. CASE call.tool.plan = ItemsSummary
    BY <1>0, <1>3 DEF ItemPlans, ItemsSummary
  <1>4. CASE call.tool.plan = SummaryObjectDetails
    BY <1>0, <1>4, PlanFacts DEF SummaryObjectDetails
  <1>5. CASE call.tool.plan = SummaryObject
    BY <1>0, <1>5, PlanFacts DEF SummaryObject
  <1> QED
    BY <1>1, <1>2, <1>3, <1>4, <1>5 DEF Plans

\* One more step is past after a step, and none after one that does not advance.
LEMMA PastSteps ==
  ASSUME TypeOK, NEW part
  PROVE  /\ Advance => (Past(part)' <=> Past(part) \/ call.tool.plan[step] = part)
         /\ UNCHANGED <<call, step>> => (Past(part)' <=> Past(part))
  <1>1. step \in Nat /\ step >= 1
    <2>1. call.tool.plan \in Plans
      BY ToolFacts DEF TypeOK, Inputs
    <2> QED
      BY <2>1, PlanFacts DEF TypeOK
  <1>2. ASSUME Advance PROVE Past(part)' <=> Past(part) \/ call.tool.plan[step] = part
    BY <1>1, <1>2 DEF Past, Advance
  <1>3. ASSUME UNCHANGED <<call, step>> PROVE Past(part)' <=> Past(part)
    BY <1>3 DEF Past
  <1> QED
    BY <1>2, <1>3

-----------------------------------------------------------------------------
(* Types.                                                                  *)

\* The facts about a call that the steps compute with.
LEMMA CallFacts ==
  ASSUME BudgetAssumption, TypeOK
  PROVE  /\ call.tool \in Tools /\ call.tool.plan \in Plans
         /\ call.count \in Nat /\ call.summary \in Nat /\ call.wanted \in BOOLEAN
         /\ \A n \in Nat : RelationshipsSize(call, n) \in Nat
         /\ DetailsSize(call) \in Nat
         /\ DetailsSize(call) >= RelationshipsSize(call, call.count)
         /\ Limit \in Nat /\ Available \in Int /\ Allocate \in Nat
         /\ IF Available > 0 THEN Allocate <= Available ELSE Allocate = 0
  <1>1. /\ call.tool \in Tools
        /\ call.count \in Nat /\ call.itemSize \in Nat /\ call.summary \in Nat
        /\ call.rest \in Nat /\ call.layout \in Nat /\ call.wanted \in BOOLEAN
    BY DEF TypeOK, Inputs, BudgetAssumption
  <1>2. call.tool.plan \in Plans
    BY <1>1, ToolFacts
  <1>3. \A n \in Nat : n * call.itemSize \in Nat
    BY <1>1
  <1>4. Rest(call) \in Nat
    BY <1>1 DEF Rest
  <1>5. Limit \in Nat /\ Available \in Int
    BY DEF BudgetAssumption, Limit, Available, TypeOK
  <1>6. Allocate \in Nat /\ IF Available > 0 THEN Allocate <= Available ELSE Allocate = 0
    BY <1>5 DEF Allocate
  <1>7. /\ \A n \in Nat : RelationshipsSize(call, n) \in Nat
        /\ DetailsSize(call) \in Nat
        /\ DetailsSize(call) >= RelationshipsSize(call, call.count)
    BY <1>1, <1>3, <1>4 DEF RelationshipsSize, DetailsSize
  <1> QED
    BY <1>1, <1>2, <1>5, <1>6, <1>7

\* What is fitted is a number of items, and within what is available unless that is
\* nothing; of a fresh budget it is at least one item, if there is one.
LEMMA FittingFacts ==
  ASSUME BudgetAssumption, TypeOK, call.tool.perItem \in PerItems
  PROVE  LET n == Fitting(call.count, call.tool.perItem) IN
         /\ n \in Nat /\ n * call.tool.perItem \in Nat
         /\ n * call.tool.perItem = 0 \/ n * call.tool.perItem <= Available
         /\ used = 0 /\ call.count > 0 => n > 0
  <1> DEFINE per == call.tool.perItem
  <1>1. /\ call.count \in Nat /\ Available \in Int /\ Allocate \in Nat
        /\ IF Available > 0 THEN Allocate <= Available ELSE Allocate = 0
    BY CallFacts
  <1>2. per \in Nat /\ per > 0 /\ per <= 50
    BY DEF PerItems
  <1>3. call.count * per \in Nat
    BY <1>1, <1>2
  <1>4. /\ Allocate \div per \in Nat
        /\ (Allocate \div per) * per <= Allocate
        /\ Allocate >= 50 => Allocate \div per > 0
    <2>1. \A a \in Nat : a \div 30 \in Nat /\ (a \div 30) * 30 <= a /\ (a >= 50 => a \div 30 > 0)
      OBVIOUS
    <2>2. \A a \in Nat : a \div 35 \in Nat /\ (a \div 35) * 35 <= a /\ (a >= 50 => a \div 35 > 0)
      OBVIOUS
    <2>3. \A a \in Nat : a \div 40 \in Nat /\ (a \div 40) * 40 <= a /\ (a >= 50 => a \div 40 > 0)
      OBVIOUS
    <2>4. \A a \in Nat : a \div 45 \in Nat /\ (a \div 45) * 45 <= a /\ (a >= 50 => a \div 45 > 0)
      OBVIOUS
    <2>5. \A a \in Nat : a \div 50 \in Nat /\ (a \div 50) * 50 <= a /\ (a >= 50 => a \div 50 > 0)
      OBVIOUS
    <2> QED
      BY <1>1, <2>1, <2>2, <2>3, <2>4, <2>5 DEF PerItems
  <1>5. used = 0 => Allocate >= 50
    BY DEF Allocate, Available, Limit, BudgetAssumption
  <1>6. CASE Allowed(call.count * per)
    BY <1>1, <1>3, <1>6 DEF Fitting, Allowed
  <1>7. CASE ~Allowed(call.count * per)
    <2>1. Fitting(call.count, per) = Allocate \div per
      BY <1>7 DEF Fitting
    <2>2. (Allocate \div per) * per \in Nat
      BY <1>2, <1>4
    <2>3. (Allocate \div per) * per = 0 \/ (Allocate \div per) * per <= Available
      BY <1>1, <1>4, <2>2
    <2> QED
      BY <1>4, <1>5, <2>1, <2>2, <2>3
  <1> QED
    BY <1>6, <1>7

\* Items are fitted by list tools only.
LEMMA ItemsAreListTools ==
  ASSUME TypeOK, At("items")
  PROVE  call.tool.perItem \in PerItems
  <1>1. call.tool \in Tools /\ step \in DOMAIN call.tool.plan /\ call.tool.plan[step] = "items"
    BY DEF TypeOK, Inputs, At
  <1>2. call.tool.plan \in Plans
    BY <1>1, ToolFacts
  <1>3. call.tool.plan \in ItemPlans
    BY <1>1, <1>2, PlanFacts
  <1> QED
    BY <1>1, <1>3, ToolFacts

\* A step that goes on has a step to go on to.
LEMMA AdvanceTyped ==
  ASSUME TypeOK, call.tool.plan[step] # "build", Advance
  PROVE  /\ call' \in Inputs /\ step' \in (DOMAIN call.tool.plan)'
         /\ tokens' \in Nat
         /\ outcome' \in {"asking", "open", "complete", "partial", "truncated", "failed"}
  <1>1. call.tool.plan \in Plans /\ step \in DOMAIN call.tool.plan
    BY ToolFacts DEF TypeOK, Inputs
  <1>2. step + 1 \in DOMAIN call.tool.plan
    BY <1>1, PlanFacts
  <1> QED
    BY <1>2 DEF TypeOK, Advance

\* Every step keeps the types.
LEMMA NextTypeOK == BudgetAssumption /\ TypeOK /\ [Next]_vars => TypeOK'
  <1> SUFFICES ASSUME BudgetAssumption, TypeOK, [Next]_vars PROVE TypeOK'
    OBVIOUS
  <1>0. /\ call.count \in Nat /\ call.summary \in Nat
        /\ \A n \in Nat : RelationshipsSize(call, n) \in Nat
        /\ DetailsSize(call) \in Nat
    BY CallFacts
  <1>1. CASE Found \/ NotFound \/ Fails
    BY <1>1 DEF Found, NotFound, Fails, GivesUp, TypeOK, answer
  <1>2. CASE FitItems
    <2>1. call.tool.perItem \in PerItems
      BY <1>2, ItemsAreListTools DEF FitItems
    <2> DEFINE n == Fitting(call.count, call.tool.perItem)
    <2>2. n \in Nat /\ n * call.tool.perItem \in Nat
      BY <2>1, FittingFacts
    <2>3. call.tool.plan[step] # "build" /\ Advance
      BY <1>2 DEF FitItems, At
    <2>4. /\ used' = used + n * call.tool.perItem /\ granted' = granted + n * call.tool.perItem
          /\ shown' = (IF n < call.count THEN n ELSE call.count)
          /\ hasMore' = (call.count > n) /\ relationships' = (shown' > 0) /\ details' = details
      BY <1>2 DEF FitItems, Spend
    <2> QED
      BY <1>0, <2>2, <2>3, <2>4, AdvanceTyped DEF TypeOK
  <1>3. CASE Summarise
    BY <1>0, <1>3, AdvanceTyped DEF Summarise, At, TypeOK, answer
  <1>4. CASE ShowObject
    <2>1. call.tool.plan[step] # "build" /\ Advance /\ UNCHANGED <<hasMore, details>>
      BY <1>4 DEF ShowObject, At
    <2>2. PICK size \in Nat :
             \/ /\ used' = used + size /\ granted' = granted + size
                /\ relationships' = TRUE /\ shown' = call.count
             \/ UNCHANGED <<used, granted, relationships, shown>>
      BY <1>0, <1>4 DEF ShowObject, Spend
    <2>3. used' \in Nat /\ granted' \in Nat /\ shown' \in Nat
      BY <1>0, <2>2 DEF TypeOK
    <2>4. relationships' \in BOOLEAN
      BY <2>2 DEF TypeOK
    <2> QED
      BY <2>1, <2>3, <2>4, AdvanceTyped DEF TypeOK
  <1>5. CASE ShowDetails
    <2>1. /\ call.tool.plan[step] # "build" /\ Advance
          /\ UNCHANGED <<shown, hasMore, relationships>>
      BY <1>5 DEF ShowDetails, At
    <2>2. \/ /\ used' = used + DetailsSize(call) /\ granted' = granted + DetailsSize(call)
             /\ details' = TRUE
          \/ UNCHANGED <<used, granted, details>>
      BY <1>5 DEF ShowDetails, Spend
    <2>3. used' \in Nat /\ granted' \in Nat
      BY <1>0, <2>2 DEF TypeOK
    <2>4. details' \in BOOLEAN
      BY <2>2 DEF TypeOK
    <2> QED
      BY <2>1, <2>3, <2>4, AdvanceTyped DEF TypeOK
  <1>6. CASE Build
    <2>1. call.tool.ends \in [BOOLEAN -> SUBSET {"complete", "partial"}]
      BY ToolFacts DEF TypeOK, Inputs
    <2>2. outcome' \in {"complete", "partial", "truncated"}
      BY <1>6, <2>1 DEF Build
    <2>3. tokens' \in Nat
      BY <1>0, <1>6 DEF Build, TypeOK
    <2> QED
      BY <1>6, <2>2, <2>3 DEF Build, TypeOK, answer
  <1>7. CASE UNCHANGED vars
    BY <1>7 DEF vars, TypeOK
  <1> QED
    BY <1>1, <1>2, <1>3, <1>4, <1>5, <1>6, <1>7 DEF Next

\* The state of a call keeps its types.
LEMMA InitTypeOK == BudgetAssumption /\ Init => TypeOK
  <1> SUFFICES ASSUME BudgetAssumption, Init PROVE TypeOK
    OBVIOUS
  <1>1. call \in Inputs /\ call.tool \in Tools
    BY DEF Init, Inputs
  <1>2. call.tool.plan \in Plans
    BY <1>1, ToolFacts
  <1>3. 1 \in DOMAIN call.tool.plan
    BY <1>2, PlanFacts
  <1> QED
    BY <1>1, <1>3 DEF Init, TypeOK

\* Typing: every state of a call is of its type, whatever the sizes of its parts.
THEOREM Typing == Spec => []TypeOK
  <1>1. BudgetAssumption
    BY BudgetAssumption
  <1>2. Init => TypeOK
    BY <1>1, InitTypeOK
  <1>3. TypeOK /\ [Next]_vars => TypeOK'
    BY <1>1, NextTypeOK
  <1> QED
    BY <1>2, <1>3, PTL DEF Spec

-----------------------------------------------------------------------------
(* What has been spent and shown.                                          *)

\* The manager has been told of everything in the answer, and of a fresh one nothing
\* is spent.
Told == used = Spent /\ (step = 1 => granted = 0)

\* What the items step and the object step leave behind.
ItemsShown ==
    Past("items") => /\ shown <= call.count
                     /\ hasMore <=> shown < call.count
                     /\ relationships <=> shown > 0
                     /\ call.count > 0 => shown > 0

ObjectShown ==
    Past("object") =>
        /\ ~hasMore
        /\ shown = IF relationships THEN call.count ELSE 0
        /\ ~relationships => ~Allowed(RelationshipsSize(call, call.count)) /\ ~details

\* Nothing is shown before its step, and details only if they are wanted.
NothingEarly ==
    /\ ~Past("items") /\ ~Past("object") => ~hasMore /\ ~relationships /\ shown = 0
    /\ ~Past("details") => ~details
    /\ details => call.wanted

\* The completeness of an answer is what the steps have left behind.
Judged ==
    Answered => /\ outcome = "truncated" <=> Truncated
                /\ Past("items") \/ Past("object")
                /\ call.tool.plan[step] = "build"

Accounts == Told /\ ItemsShown /\ ObjectShown /\ NothingEarly /\ Judged

Inv == TypeOK /\ Accounts

\* Fitting the items.
LEMMA FitItemsStep == ASSUME BudgetAssumption, Inv, FitItems PROVE Accounts'
  <1> DEFINE n == Fitting(call.count, call.tool.perItem)
             cost == n * call.tool.perItem
  <1>1. TypeOK /\ At("items") /\ Advance /\ step \in DOMAIN call.tool.plan
    BY DEF Inv, FitItems, TypeOK
  <1>2. call.tool.plan \in Plans /\ call.count \in Nat
    BY <1>1, CallFacts
  <1>3. /\ step = 1
        /\ \A part \in {"items", "summary", "object", "details"} : ~Past(part)
    BY <1>1, <1>2, OrderOfSteps DEF At
  <1>4. /\ Past("items")' /\ ~Past("summary")' /\ ~Past("object")' /\ ~Past("details")'
        /\ step' = 2 /\ call' = call /\ outcome' = "open"
    BY <1>1, <1>3, PastSteps DEF At, Advance
  <1>5. /\ n \in Nat /\ cost \in Nat /\ (used = 0 /\ call.count > 0 => n > 0)
    BY <1>1, FittingFacts, ItemsAreListTools
  <1>6. used = 0 /\ granted = 0
    BY <1>3 DEF Inv, Accounts, Told, Spent
  <1>7. /\ used' = used + cost /\ granted' = granted + cost
        /\ shown' = (IF n < call.count THEN n ELSE call.count)
        /\ hasMore' = (call.count > n) /\ relationships' = (shown' > 0) /\ details' = details
    BY DEF FitItems, Spend
  <1>8. Told'
    BY <1>4, <1>5, <1>6, <1>7 DEF Told, Spent
  <1>9. ItemsShown'
    <2>1. /\ shown' \in Nat /\ shown' <= call.count
          /\ call.count > n <=> shown' < call.count
          /\ call.count > 0 => shown' > 0
      BY <1>2, <1>5, <1>6, <1>7
    <2> QED
      BY <1>4, <1>7, <2>1 DEF ItemsShown
  <1>10. ObjectShown'
    BY <1>4 DEF ObjectShown
  <1>11. NothingEarly'
    BY <1>3, <1>4, <1>7 DEF NothingEarly, Inv, Accounts
  <1>12. Judged'
    BY <1>4 DEF Judged, Answered
  <1> QED
    BY <1>8, <1>9, <1>10, <1>11, <1>12 DEF Accounts

\* Tracking the summary.
LEMMA SummariseStep == ASSUME BudgetAssumption, Inv, Summarise PROVE Accounts'
  <1>1. TypeOK /\ At("summary") /\ Advance /\ step \in DOMAIN call.tool.plan
    BY DEF Inv, Summarise, TypeOK
  <1>2. call.tool.plan \in Plans /\ call.summary \in Nat
    BY <1>1, CallFacts
  <1>3. ~Past("summary") /\ ~Past("object")
    BY <1>1, <1>2, OrderOfSteps DEF At
  <1>4. /\ Past("summary")' /\ ~Past("object")'
        /\ Past("items")' <=> Past("items")
        /\ Past("details")' <=> Past("details")
        /\ call' = call /\ outcome' = "open" /\ step' = step + 1
    BY <1>1, <1>3, PastSteps DEF At, Advance
  <1>5. step' # 1
    BY <1>1, <1>2, <1>4, PlanFacts
  <1>6. used' = used + call.summary /\ UNCHANGED <<answer, granted>>
    BY DEF Summarise
  <1>7. Told'
    BY <1>1, <1>2, <1>3, <1>4, <1>5, <1>6 DEF Inv, Accounts, Told, Spent, TypeOK
  <1>8. ItemsShown'
    BY <1>4, <1>6 DEF ItemsShown, Inv, Accounts, answer
  <1>9. ObjectShown'
    BY <1>4 DEF ObjectShown
  <1>10. NothingEarly'
    BY <1>3, <1>4, <1>6 DEF NothingEarly, Inv, Accounts, answer
  <1>11. Judged'
    BY <1>4 DEF Judged, Answered
  <1> QED
    BY <1>7, <1>8, <1>9, <1>10, <1>11 DEF Accounts

\* Showing the object.
LEMMA ShowObjectStep == ASSUME BudgetAssumption, Inv, ShowObject PROVE Accounts'
  <1> DEFINE size == RelationshipsSize(call, call.count)
  <1>1. TypeOK /\ At("object") /\ Advance /\ step \in DOMAIN call.tool.plan
    BY DEF Inv, ShowObject, TypeOK
  <1>2. /\ call.tool.plan \in Plans /\ call.count \in Nat /\ call.summary \in Nat
        /\ size \in Nat
    BY <1>1, CallFacts
  <1>3. ~Past("items") /\ ~Past("object") /\ ~Past("details")
    BY <1>1, <1>2, OrderOfSteps DEF At
  <1>4. /\ Past("object")' /\ ~Past("items")' /\ ~Past("details")'
        /\ Past("summary")' <=> Past("summary")
        /\ call' = call /\ outcome' = "open" /\ step' = step + 1
    BY <1>1, <1>3, PastSteps DEF At, Advance
  <1>5. step' # 1
    BY <1>1, <1>2, <1>4, PlanFacts
  <1>6. ~hasMore /\ ~relationships /\ shown = 0 /\ ~details
    BY <1>3 DEF Inv, Accounts, NothingEarly
  <1>7. UNCHANGED <<hasMore, details>>
    BY DEF ShowObject
  <1>8. \/ /\ used' = used + size /\ granted' = granted + size
           /\ relationships' = TRUE /\ shown' = call.count
        \/ ~Allowed(size) /\ UNCHANGED <<used, granted, relationships, shown>>
    BY DEF ShowObject, Spend
  <1>9. Told'
    BY <1>1, <1>2, <1>4, <1>5, <1>8 DEF Inv, Accounts, Told, Spent, TypeOK
  <1>10. ItemsShown'
    BY <1>4 DEF ItemsShown
  <1>11. ObjectShown'
    <2>1. ~hasMore' /\ ~details'
      BY <1>6, <1>7
    <2>2. shown' = IF relationships' THEN call'.count ELSE 0
      BY <1>4, <1>6, <1>8
    <2>3. ~relationships' => ~Allowed(size) /\ used' = used
      BY <1>8
    <2>4. ~relationships' => ~Allowed(RelationshipsSize(call, call.count))'
      BY <1>4, <2>3 DEF Allowed, Available, RelationshipsSize, Rest
    <2> QED
      BY <2>1, <2>2, <2>4 DEF ObjectShown
  <1>12. NothingEarly'
    BY <1>4, <1>6, <1>7 DEF NothingEarly
  <1>13. Judged'
    BY <1>4 DEF Judged, Answered
  <1> QED
    BY <1>9, <1>10, <1>11, <1>12, <1>13 DEF Accounts

\* Showing the details.
LEMMA ShowDetailsStep == ASSUME BudgetAssumption, Inv, ShowDetails PROVE Accounts'
  <1> DEFINE size == DetailsSize(call)
  <1>1. TypeOK /\ At("details") /\ Advance /\ step \in DOMAIN call.tool.plan
    BY DEF Inv, ShowDetails, TypeOK
  <1>2. /\ call.tool.plan \in Plans /\ call.summary \in Nat /\ size \in Nat
        /\ Available \in Int
        /\ RelationshipsSize(call, call.count) \in Nat
        /\ size >= RelationshipsSize(call, call.count)
    BY <1>1, CallFacts
  <1>3. ~Past("details") /\ (Past("items") \/ Past("object"))
    BY <1>1, <1>2, OrderOfSteps DEF At
  <1>4. /\ Past("object")' <=> Past("object")
        /\ Past("items")' <=> Past("items")
        /\ Past("summary")' <=> Past("summary")
        /\ Past("details")'
        /\ call' = call /\ outcome' = "open" /\ step' = step + 1
    BY <1>1, PastSteps DEF At, Advance
  <1>5. step' # 1
    BY <1>1, <1>2, <1>4, PlanFacts
  <1>6. UNCHANGED <<shown, hasMore, relationships>>
    BY DEF ShowDetails
  <1>7. \/ /\ call.wanted /\ Allowed(size) /\ details' = TRUE
           /\ used' = used + size /\ granted' = granted + size
        \/ UNCHANGED <<used, granted, details>>
    BY DEF ShowDetails, Spend
  <1>8. Told'
    BY <1>1, <1>2, <1>4, <1>5, <1>7 DEF Inv, Accounts, Told, Spent, TypeOK
  <1>9. ItemsShown'
    BY <1>4, <1>6 DEF ItemsShown, Inv, Accounts
  <1>10. ObjectShown'
    <2> SUFFICES ASSUME Past("object") PROVE ObjectShown'
      BY <1>4 DEF ObjectShown
    <2>1. ObjectShown
      BY DEF Inv, Accounts
    <2>2. ~hasMore' /\ shown' = IF relationships' THEN call'.count ELSE 0
      BY <1>4, <1>6, <2>1 DEF ObjectShown
    <2>3. ASSUME ~relationships' PROVE ~Allowed(RelationshipsSize(call, call.count))' /\ ~details'
      <3>1. ~Allowed(RelationshipsSize(call, call.count)) /\ ~details
        BY <1>6, <2>1, <2>3 DEF ObjectShown
      <3>2. ~Allowed(size)
        BY <1>2, <3>1 DEF Allowed
      <3>3. used' = used /\ ~details'
        BY <1>7, <3>1, <3>2
      <3> QED
        BY <1>4, <3>1, <3>3 DEF Allowed, Available, RelationshipsSize, Rest
    <2> QED
      BY <2>2, <2>3 DEF ObjectShown
  <1>11. NothingEarly'
    <2>1. details' => call'.wanted
      BY <1>4, <1>7 DEF Inv, Accounts, NothingEarly
    <2> QED
      BY <1>3, <1>4, <2>1 DEF NothingEarly
  <1>12. Judged'
    BY <1>4 DEF Judged, Answered
  <1> QED
    BY <1>8, <1>9, <1>10, <1>11, <1>12 DEF Accounts

\* A step that stays where it is leaves what the steps before it left.
LEMMA StayingStep ==
  ASSUME Inv, UNCHANGED <<call, step, used, granted, answer>>, Judged'
  PROVE  Accounts'
  <1>1. \A part \in {"items", "object", "summary", "details"} : Past(part)' <=> Past(part)
    BY PastSteps DEF Inv
  <1>2. /\ call' = call /\ step' = step /\ used' = used /\ granted' = granted
        /\ shown' = shown /\ hasMore' = hasMore /\ relationships' = relationships
        /\ details' = details
    BY DEF answer
  <1>3. Told'
    BY <1>1, <1>2 DEF Inv, Accounts, Told, Spent
  <1>4. ItemsShown'
    BY <1>1, <1>2 DEF Inv, Accounts, ItemsShown
  <1>5. ObjectShown'
    BY <1>1, <1>2 DEF Inv, Accounts, ObjectShown, Allowed, Available, RelationshipsSize, Rest
  <1>6. NothingEarly'
    BY <1>1, <1>2 DEF Inv, Accounts, NothingEarly
  <1> QED
    BY <1>3, <1>4, <1>5, <1>6 DEF Accounts

\* Building the answer.
LEMMA BuildStep == ASSUME BudgetAssumption, Inv, Build PROVE Accounts'
  <1>1. /\ TypeOK /\ At("build") /\ step \in DOMAIN call.tool.plan
        /\ UNCHANGED <<call, step, used, granted, answer>>
    BY DEF Inv, Build, TypeOK
  <1>2. call.tool.plan \in Plans /\ call.tool \in Tools
    BY <1>1, CallFacts
  <1>3. Past("items") \/ Past("object")
    BY <1>1, <1>2, OrderOfSteps DEF At
  <1>4. (Past("items") \/ Past("object"))'
    BY <1>1, <1>3, PastSteps
  <1>5. outcome' = "truncated" <=> Truncated
    <2>1. call.tool.ends[call.count = 0] \subseteq {"complete", "partial"}
      BY <1>2, ToolFacts
    <2> QED
      BY <2>1 DEF Build
  <1>6. Truncated' <=> Truncated
    BY <1>1 DEF Truncated, answer
  <1>7. Judged'
    BY <1>1, <1>4, <1>5, <1>6 DEF Judged, At
  <1> QED
    BY <1>1, <1>7, StayingStep

\* A call keeps accounts, and what it grants fits what is left.
LEMMA NextInv == BudgetAssumption /\ Inv /\ [Next]_vars => Inv'
  <1> SUFFICES ASSUME BudgetAssumption, Inv, [Next]_vars PROVE Inv'
    OBVIOUS
  <1>1. TypeOK'
    BY NextTypeOK DEF Inv
  <1>2. CASE Found \/ NotFound \/ Fails
    <2>1. UNCHANGED <<call, step, used, granted, answer>> /\ outcome' \in {"open", "failed"}
      BY <1>2 DEF Found, NotFound, Fails, GivesUp
    <2> QED
      BY <1>1, <2>1, StayingStep DEF Inv, Judged, Answered
  <1>3. CASE UNCHANGED vars
    <2>1. Judged'
      BY <1>3, PastSteps DEF Inv, Accounts, Judged, Answered, Truncated, vars
    <2> QED
      BY <1>1, <1>3, <2>1, StayingStep DEF Inv, vars, answer
  <1>4. CASE Build
    BY <1>1, <1>4, BuildStep DEF Inv
  <1>5. CASE FitItems \/ Summarise \/ ShowObject \/ ShowDetails
    BY <1>1, <1>5, FitItemsStep, SummariseStep, ShowObjectStep, ShowDetailsStep DEF Inv
  <1> QED
    BY <1>2, <1>3, <1>4, <1>5 DEF Next

\* Before the query has answered nothing is spent or shown.
LEMMA InitInv == BudgetAssumption /\ Init => Inv
  <1> SUFFICES ASSUME BudgetAssumption, Init PROVE Inv
    OBVIOUS
  <1>1. TypeOK
    BY InitTypeOK
  <1>2. \A part : ~Past(part)
    BY DEF Init, Past
  <1> QED
    BY <1>1, <1>2 DEF Inv, Accounts, Told, Spent, ItemsShown, ObjectShown, NothingEarly,
                      Judged, Answered, Init

-----------------------------------------------------------------------------
(* Theorems.                                                               *)

\* TruncatedIsTrue: whatever the budget and the sizes, a complete or partial answer
\* has all its items and the details asked for, and a truncated one lacks some; its
\* result object may be refused unsaid only when no item was found.
THEOREM TruncatedIsTrue == Spec => []TruncatedIffWithheld
  <1>1. BudgetAssumption
    BY BudgetAssumption
  <1>2. Init => Inv
    BY <1>1, InitInv
  <1>3. Inv /\ [Next]_vars => Inv'
    BY <1>1, NextInv
  <1>4. Inv => TruncatedIffWithheld
    <2> SUFFICES ASSUME Inv, Answered
                 PROVE  /\ outcome = "truncated" <=> Withheld
                        /\ Takes(call.tool, "object") /\ ~relationships
                               => outcome = "truncated" \/ call.count = 0
      BY DEF TruncatedIffWithheld
    <2>1. TypeOK /\ call.count \in Nat /\ shown \in Nat
      BY <1>1, CallFacts DEF Inv, TypeOK
    <2>2. CASE Past("items")
      BY <2>1, <2>2 DEF Inv, Accounts, ItemsShown, Judged, Truncated, Withheld
    <2>3. CASE Past("object")
      BY <2>1, <2>3 DEF Inv, Accounts, ObjectShown, Judged, Truncated, Withheld
    <2> QED
      BY <2>2, <2>3 DEF Inv, Accounts, Judged
  <1> QED
    BY <1>2, <1>3, <1>4, PTL DEF Spec

\* ListsShow: a list tool that found something shows at least one item.
THEOREM ListsShow == Spec => []ListNeverEmpty
  <1>1. BudgetAssumption
    BY BudgetAssumption
  <1>2. Init => Inv
    BY <1>1, InitInv
  <1>3. Inv /\ [Next]_vars => Inv'
    BY <1>1, NextInv
  <1>4. Inv => ListNeverEmpty
    <2> SUFFICES ASSUME Inv, Answered, call.tool.perItem > 0, call.count > 0
                 PROVE  shown > 0
      BY DEF ListNeverEmpty
    <2>1. TypeOK /\ call.tool \in Tools /\ step \in DOMAIN call.tool.plan
      BY <1>1, CallFacts DEF Inv, TypeOK
    <2>2. call.tool.plan \in ItemPlans
      BY <2>1, ToolFacts
    <2>3. ~Past("object")
      BY <2>1, <2>2, OrderOfSteps, ToolFacts
    <2> QED
      BY <2>3 DEF Inv, Accounts, Judged, ItemsShown
  <1> QED
    BY <1>2, <1>3, <1>4, PTL DEF Spec

\* DetailsNested: an answer with details of something also has its relationships.
THEOREM DetailsNested == Spec => []LevelsNested
  <1>1. BudgetAssumption
    BY BudgetAssumption
  <1>2. Init => Inv
    BY <1>1, InitInv
  <1>3. Inv /\ [Next]_vars => Inv'
    BY <1>1, NextInv
  <1>4. Inv => LevelsNested
    BY DEF Inv, Accounts, ItemsShown, ObjectShown, Judged, LevelsNested
  <1> QED
    BY <1>2, <1>3, <1>4, PTL DEF Spec

\* GrantsFit: a check grants only what, with all that was spent before, stays below
\* the safety margin.
THEOREM GrantsFit == Spec => GrantsFitLimit
  <1>1. BudgetAssumption
    BY BudgetAssumption
  <1>2. Init => Inv
    BY <1>1, InitInv
  <1>3. Inv /\ [Next]_vars => Inv'
    BY <1>1, NextInv
  <1>4. ASSUME Inv, Inv', [Next]_vars PROVE granted' # granted => Spent' <= Limit
    <2> SUFFICES ASSUME granted' # granted PROVE used' <= Limit
      BY <1>4 DEF Inv, Accounts, Told
    <2>0. /\ TypeOK /\ Limit \in Nat /\ used \in Nat /\ granted \in Nat
          /\ RelationshipsSize(call, call.count) \in Nat /\ DetailsSize(call) \in Nat
      BY <1>1, <1>4, CallFacts DEF Inv, TypeOK
    <2>1. CASE FitItems
      <3> DEFINE cost == Fitting(call.count, call.tool.perItem) * call.tool.perItem
      <3>1. cost \in Nat /\ (cost = 0 \/ cost <= Available)
        BY <1>1, <2>0, <2>1, FittingFacts, ItemsAreListTools DEF FitItems
      <3>2. used' = used + cost /\ granted' = granted + cost
        BY <2>1 DEF FitItems, Spend
      <3> QED
        BY <2>0, <3>1, <3>2 DEF Available
    <2>2. CASE ShowObject
      BY <2>0, <2>2 DEF ShowObject, Allowed, Available, Spend
    <2>3. CASE ShowDetails
      BY <2>0, <2>3 DEF ShowDetails, Allowed, Available, Spend
    <2>4. CASE Summarise \/ Build \/ Found \/ NotFound \/ Fails \/ UNCHANGED vars
      BY <2>4 DEF Summarise, Build, Found, NotFound, Fails, GivesUp, vars
    <2> QED
      BY <1>4, <2>1, <2>2, <2>3, <2>4 DEF Next
  <1>5. Inv /\ Inv' /\ [Next]_vars => [granted' # granted => Spent' <= Limit]_vars
    BY <1>4
  <1> QED
    BY <1>2, <1>3, <1>5, PTL DEF Spec, GrantsFitLimit

=============================================================================
