--------------------------- MODULE MCLazyfication ---------------------------
(* Two calls in one or two callers, two callees, two argument positions.   *)
EXTENDS Lazyfication

CONSTANTS c1, c2, f1, f2, F1, F2, v1, v2

MCCalls     == {c1, c2}
MCCallees   == {f1, f2}
MCIndices   == {1, 2}
MCCallers   == {F1, F2}
MCArgValues == {v1, v2}
MCSliceSizes == {1, 3}
MCUIntMax   == 1000
=============================================================================
