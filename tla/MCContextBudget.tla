-------------------------- MODULE MCContextBudget --------------------------
(***************************************************************************)
(* ContextBudget with the manager's own numbers.  Of 84 items at 45 tokens *)
(* and 108 at 35 all fit, one more does not; items are smaller or larger   *)
(* than what is reserved; each other part may be small, large or alone too *)
(* large.                                                                  *)
(***************************************************************************)
EXTENDS ContextBudget

MCCounts == {0, 1, 8, 40, 84, 85, 108, 109}
MCItemSizes == {12, 60}
MCSizes == {20, 1500, 3790}
=============================================================================
