--------------------------- MODULE MCRuntimeSpans ---------------------------
(***************************************************************************)
(* A small instance of RuntimeSpans: one function is called by another, in *)
(* two spans, and by itself, in one that fails, over one hour and the first *)
(* moment of the next, with lookbacks of half an hour and of an hour.      *)
(***************************************************************************)
EXTENDS RuntimeSpans, TLC

CONSTANTS f, g, s1, s2, s3

MCCallerOf == [s \in Spans |-> IF s = s2 THEN g ELSE f]
MCCalleeOf == [s \in Spans |-> g]
MCSpanSymmetry == Permutations({s1, s3})
=============================================================================
