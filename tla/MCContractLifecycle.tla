------------------------ MODULE MCContractLifecycle -------------------------
(* Instances of ContractLifecycle for TLC. *)
EXTENDS ContractLifecycle, TLC

Symmetry == Permutations(Clients) \cup Permutations(Contracts)
=============================================================================
