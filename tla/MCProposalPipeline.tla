------------------------- MODULE MCProposalPipeline -------------------------
EXTENDS ProposalPipeline, TLC

Symmetry == Permutations(Clients) \cup Permutations(Proposals)
=============================================================================
