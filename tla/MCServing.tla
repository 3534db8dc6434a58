----------------------------- MODULE MCServing -----------------------------
(***************************************************************************)
(* A small instance of Serving: two test files, of which isLikelyTestPath  *)
(* knows 1 only; functions p and q, and the alias q, which is in both      *)
(* names; the path 1 is also the end of the path 2.  3 is a module.        *)
(***************************************************************************)
EXTENDS Serving, TLC

MCFiles == {1, 2}
MCContents == {"u", "v"}
MCNone == {}
MCNothing == [c \in Contents |-> {}]
MCNames == {"p", "q"}
MCModules == {3}
MCModuleOf == [f \in Files |-> 3]
MCDefines == [c \in Contents |-> IF c = "u" THEN {"q"} ELSE {"p"}]
MCCallsOf == [c \in Contents |-> IF c = "u" THEN {"p"} ELSE {}]
MCModes == {"full", "incremental"}
MCLikelyTests == {1}
MCLike == {<<"p", "p">>, <<"q", "q">>, <<"q", "p">>}
MCSuffixOf == {<<1, 2>>}
MCHops == [c \in Contents |-> [n \in Names |-> IF c = "u" THEN 2 ELSE 0]]
MCNameOf == [n \in Nodes |-> IF n = 1 THEN "p" ELSE "q"]
MCTools == {"tests_for_function", "tests_by_path", "plan"}
MCNoPercents == {0}
=============================================================================
