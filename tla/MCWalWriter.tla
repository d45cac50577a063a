----------------------------- MODULE MCWalWriter -----------------------------
(* Two streaming writers and one bulk writer against one write-ahead log,  *)
(* with segments and batches small enough that a run rotates, retires old  *)
(* segments and flushes by size as well as by timer.                       *)
EXTENDS WalWriter

CONSTANTS s1, s2, d1

MCQuota == [c \in Streaming \cup Direct |-> IF c \in Direct THEN 2 ELSE 1]

(* Streaming writers are interchangeable; the safety run uses it.          *)
Writers == Permutations(Streaming)
=============================================================================
