------------------------- MODULE MCProofsFetcher ----------------------------
(* The proofs fetcher with two batches as model values; the batches are   *)
(* interchangeable, so their permutations are a symmetry.                  *)
EXTENDS ProofsFetcher, TLC

CONSTANTS B1, B2

MCBatchIds == {B1, B2}

MCSymmetry == Permutations(MCBatchIds)

=============================================================================
