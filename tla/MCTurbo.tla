------------------------------- MODULE MCTurbo -------------------------------
(* Turbo on small instances; see the .cfg files.                           *)
EXTENDS Turbo
=============================================================================
