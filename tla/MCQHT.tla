-------------------------------- MODULE MCQHT --------------------------------
(* Pointers and operations for model checking QHT: a table of two buckets, *)
(* one of them with a bucket added.  Inserting p4 adds another, so that    *)
(* the table grows.                                                        *)
EXTENDS QHT

CONSTANTS p1, p2, p3, p4

(* p1, p3 and p4 share a bucket of a table of two; p1's hash is the 0 of   *)
(* an empty slot.                                                          *)
MCHash == p1 :> 0 @@ p2 :> 1 @@ p3 :> 2 @@ p4 :> 4
MCPreset == <<p1, p2, p3>>

Op(kind, p, n) == [kind |-> kind, p |-> p, n |-> n]

MCOps == {Op("lookup", p3, 0), Op("insert", p1, 0), Op("insert", p4, 0), Op("remove", p1, 0),
          Op("reset", NULL, 0), Op("reset_size", NULL, 0), Op("resize", NULL, 4),
          Op("iter", NULL, 0), Op("stats", NULL, 0)}
==============================================================================
