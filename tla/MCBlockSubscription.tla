------------------------ MODULE MCBlockSubscription -------------------------
(* The block subscription with the primary and the fallback provider as   *)
(* model values.                                                           *)
EXTENDS BlockSubscription

CONSTANTS Primary, Fallback

MCStreams == {Primary, Fallback}

=============================================================================
