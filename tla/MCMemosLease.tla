---------------------------- MODULE MCMemosLease ----------------------------
(***************************************************************************)
(* Two runs on one runtime: one with an ingest and two questions, the      *)
(* other with an ingest of its own.                                        *)
(***************************************************************************)
EXTENDS MemosLease

CONSTANTS a, b, i1, i2, q1, q2

MCRunOf == [r \in {i1, i2, q1, q2} |-> IF r = i2 THEN b ELSE a]
=============================================================================
