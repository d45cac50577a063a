------------------------------- MODULE MCBlock -------------------------------
(* Block on small instances; see the .cfg files.                           *)
EXTENDS Block, TLC

(* Each document in a shard of its own: inserts of two never wait.         *)
OwnShard == [i \in Ids |-> i]

AllCommands == Writers \cup Readers

Symmetry == Permutations(Clients) \cup Permutations(Ids) \cup Permutations(Vals)
=============================================================================
