------------------------------ MODULE MCWatch ------------------------------
(***************************************************************************)
(* A small instance of Watch: file 1 is a test in module "t", which calls  *)
(* and imports itself, file 2 is a source in module "s" that imports 1.    *)
(***************************************************************************)
EXTENDS Watch, TLC

MCFiles == {1, 2}
MCContents == {"u", "v"}
MCModuleOf == [f \in Files |-> IF f = 2 THEN "s" ELSE "t"]
MCDefines == [c \in Contents |-> IF c = "u" THEN {} ELSE {"q"}]
MCImportsOf == [c \in Contents |-> {1}]
MCCallsOf == [c \in Contents |-> IF c = "u" THEN {} ELSE {"q"}]
MCModes == {"full", "incremental"}
MCNone == {}
MCModules == {"s", "t"}
MCTestFiles == {1}
MCNames == {"q"}
MCRunSymmetry == Permutations(Runs)
=============================================================================
