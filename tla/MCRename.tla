------------------------------- MODULE MCRename -------------------------------
(* Renames, drops, repairs and kills on small instances.                   *)
EXTENDS Rename, TLC

Spec == RenameInit /\ [][RenameNext]_renameVars
Symmetry == Permutations(Names) \cup Permutations(Admins)
=============================================================================
