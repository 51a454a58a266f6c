---------------------------- MODULE MCBatchQueue ----------------------------
(* Model-checking instance of BatchQueue: two senders, nonces 0..1, three  *)
(* fee bids and two proof sizes; at most four queued entries.  The gas     *)
(* constants are scaled down so that the fee per proof is 5, 3, 2, 2 for   *)
(* batches of 1, 2, 3, 4 proofs: every bound of the loop can decide.       *)
EXTENDS PeelLoop

====
