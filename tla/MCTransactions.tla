---------------------------- MODULE MCTransactions ----------------------------
(* Transactions on a small instance; see MCTransactions.cfg.               *)
EXTENDS Transactions, TLC

Symmetry == Permutations(Txs) \cup Permutations(Stripes)
=============================================================================
