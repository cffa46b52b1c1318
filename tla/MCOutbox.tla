------------------------------ MODULE MCOutbox ------------------------------
(* Instances of Outbox for TLC. *)
EXTENDS Outbox, TLC

RunSymmetry == Permutations(Runs)
=============================================================================
