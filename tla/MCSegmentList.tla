--------------------------- MODULE MCSegmentList ---------------------------
(* Segments for checking SegmentList with TLC: numbers and hashes that     *)
(* collide in a small table and part when it grows.                        *)
EXTENDS SegmentList

CONSTANTS s1, s2, s3, s4, x, y

MCSegNum == (s1 :> 1) @@ (s2 :> 3) @@ (s3 :> 5) @@ (s4 :> 2)
MCVarName == (s1 :> x) @@ (s2 :> y) @@ (s3 :> x) @@ (s4 :> NoName)
MCNameHash == (x :> 1) @@ (y :> 3)
=============================================================================
