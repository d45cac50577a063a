---------------------------- MODULE MCDurability ----------------------------
(* Two documents and two requests against segments of two entries.       *)
EXTENDS Durability

CONSTANTS r1, r2, d1, d2

Names == Permutations(Requests) \cup Permutations(Docs)
=============================================================================
