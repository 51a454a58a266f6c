----------------------------- MODULE MCBatcher -----------------------------
(***************************************************************************)
(* A small instance of Batcher for TLC: two users, three SubmitProof       *)
(* requests, two blocks.  Request r1 is user a's nonce 0 bidding 3, r2   *)
(* either its replacement (nonce 0) or a's nonce 1, bidding 3 or 5, and   *)
(* r3 user b's nonce 0 bidding 3.  At gas price 1 the modified price is 1  *)
(* and the fee per proof of a batch of 1, 2, 3 proofs is 5, 3, 2.         *)
(***************************************************************************)
EXTENDS Batcher

MCMsg(u, n, f) == [sender |-> u, nonce |-> n, fee |-> f, size |-> 1, sys |-> "s1"]

MCMsgChoices ==
  {m \in [Reqs -> Msg] :
     /\ m["r1"] = MCMsg("a", 0, 3)
     /\ m["r2"] \in {MCMsg("a", n, f) : n \in {0, 1}, f \in {3, 5}}
     /\ m["r3"] = MCMsg("b", 0, 3)}

\* With a non-paying principal b and replacement signer c: r1 is a's
\* nonce 0, r2 and r3 are b's, r2 at nonce 0 or 1 (b's fee is ignored).
MCNonPayingMsgChoices ==
  {m \in [Reqs -> Msg] :
     /\ m["r1"] = MCMsg("a", 0, 3)
     /\ m["r2"] \in {MCMsg("b", n, 3) : n \in {0, 1}}
     /\ m["r3"] = MCMsg("b", 0, 3)}

\* Two requests, for the runs that check liveness: r1 is a's nonce 0
\* bidding 3, r2 its replacement, a's nonce 1, or b's nonce 0.
MCTwoReqMsgChoices ==
  {m \in [Reqs -> Msg] :
     /\ m["r1"] = MCMsg("a", 0, 3)
     /\ m["r2"] \in {MCMsg("a", n, f) : n \in {0, 1}, f \in {3, 5}} \cup {MCMsg("b", 0, 3)}}

\* Two requests with a non-paying principal b and replacement signer c:
\* r1 is a's nonce 0 bidding 3, r2 a's replacement or nonce 1, or b's
\* nonce 0 or 1 (b's fee is ignored).
MCTwoReqNonPayingMsgChoices ==
  {m \in [Reqs -> Msg] :
     /\ m["r1"] = MCMsg("a", 0, 3)
     /\ m["r2"] \in {MCMsg("a", n, f) : n \in {0, 1}, f \in {3, 5}}
                   \cup {MCMsg("b", n, 3) : n \in {0, 1}}}
=============================================================================
