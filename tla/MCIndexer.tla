----------------------------- MODULE MCIndexer -----------------------------
(***************************************************************************)
(* Small repositories for Indexer.  Path 1 is a test file in module "t",   *)
(* path 2 a source file in module "s", path 3 another test file in "t":    *)
(* the walk meets a test before and after the source it calls.  Text "u"   *)
(* defines p and imports path 2; "v" defines q, imports path 1 and calls   *)
(* p; "x" does not parse.                                                  *)
(***************************************************************************)
EXTENDS Indexer, TLC

MCFiles == {1, 2}
MCOneFile == {1}
MCOneText == {"v"}
MCTexts == {"u", "v"}
MCTextsAndBroken == {"u", "v", "x"}
MCBroken == {"x"} \cap Contents
MCNames == {"p", "q"}
MCModules == {"s", "t"}
MCTestFiles == {1, 3} \cap Files
MCDefines == [c \in Contents |-> CASE c = "u" -> {"p"} [] c = "v" -> {"q"} [] OTHER -> {}]
MCImportsOf == [c \in Contents |-> CASE c = "u" -> {2} \cap Files [] c = "v" -> {1} [] OTHER -> {}]
MCCallsOf == [c \in Contents |-> CASE c = "v" -> {"p"} [] OTHER -> {"q"}]
MCModuleOf == [f \in Files |-> IF f = 2 THEN "s" ELSE "t"]

MCRunSymmetry == Permutations(Runs)

MCBothModes == {"full", "incremental"}
MCIncremental == {"incremental"}
=============================================================================
