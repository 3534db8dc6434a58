----------------------------- MODULE MCQueries -----------------------------
(***************************************************************************)
(* A small instance of Queries: two files in two modules whose texts       *)
(* import either file, so that edges form circles, and define p.           *)
(***************************************************************************)
EXTENDS Queries, TLC

MCFiles == {"f", "g"}
MCContents == {"u", "v"}
MCNone == {}
MCNothing == [c \in Contents |-> {}]
MCNoPercents == {0}
MCOneName == {"p"}
MCDefinesP == [c \in Contents |-> {"p"}]
MCLikeP == {<<"p", "p">>}
MCModules == {"s", "t"}
MCImportsOf == [c \in Contents |-> IF c = "u" THEN {"g"} ELSE {"f"}]
MCModuleOf == [f \in Files |-> IF f = "g" THEN "s" ELSE "t"]
MCNoHops == [c \in Contents |-> [n \in Names |-> 0]]
MCAlwaysP == [n \in Nodes |-> "p"]
MCTools == {"upstream", "downstream", "impact", "risk", "plan", "boundary",
            "tests_by_path"}
=============================================================================
