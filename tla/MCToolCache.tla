---------------------------- MODULE MCToolCache ----------------------------
(***************************************************************************)
(* Small instances of ToolCache: a server per call, or one server for all; *)
(* wa and wb are the warm-ups.  MCPruned and MCNoSpans are graphs that     *)
(* another process pruned, MCNoSpans one that it has indexed again, just   *)
(* before the servers sent their warm-up queries.  MCStampsDiffer leaves   *)
(* out what follows once a stamp has come back.                            *)
(***************************************************************************)
EXTENDS ToolCache, TLC

CONSTANTS a, b, wa, wb

MCOwnServer == [c \in Calls |-> IF c \in {a, wa} THEN a ELSE b]
MCOwnWarmUp == a :> wa @@ b :> wb
MCOneServer == [c \in Calls |-> CHOOSE s \in Servers : TRUE]
MCOneWarmUp == [s \in Servers |-> wa]
MCOneInstant == {1}
MCIndexed == [indexedAt |-> 1, runtimeUpdatedAt |-> 1]
MCNoSpans == [indexedAt |-> 1, runtimeUpdatedAt |-> 0]
MCPruned == Unset
MCStampsDiffer == ~reused
MCCallSymmetry == Permutations({a, b})
MCServerSymmetry == {a :> b @@ b :> a @@ wa :> wb @@ wb :> wa}
=============================================================================
