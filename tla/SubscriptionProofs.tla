------------------------- MODULE SubscriptionProofs -------------------------
(***************************************************************************)
(* Proof that the block subscription spawns, for every block, no more     *)
(* handle_new_block tasks than there have been runs of                     *)
(* listen_new_blocks_retryable, for every number of providers, blocks and  *)
(* retries.                                                                *)
(*                                                                         *)
(* HandledAtMostOncePerRun is not inductive: a Take of a block above       *)
(* last_seen_block raises its count, and only the fact that the current   *)
(* run has not yet let that block through keeps the count within runs.     *)
(* SInv counts that possibility: a block above last_seen_block of a        *)
(* running subscription owes one more task to the current run.            *)
(***************************************************************************)
EXTENDS BlockSubscription, TLAPS

USE SubscriptionAssumption

\* The current run may still spawn a task for block b.
Open(b) == subscribed /\ lastSeen < b

SInv ==
  /\ height \in 0 .. MaxBlock
  /\ nodeHead \in [Streams -> Nat]
  /\ \A s \in Streams : nodeHead[s] <= height
  /\ pending \in [Streams -> Seq(Heights)]
  /\ subscribed \in BOOLEAN
  /\ lastSeen \in Nat
  /\ handled \in [Heights -> Nat]
  /\ runs \in Nat
  /\ \A b \in Heights : handled[b] <= runs
  /\ \A b \in Heights : Open(b) => handled[b] < runs

LEMMA InitSInv == Init => SInv
<1> SUFFICES ASSUME Init PROVE SInv
  OBVIOUS
<1>1. pending \in [Streams -> Seq(Heights)]
  BY DEF Init
<1>2. handled \in [Heights -> Nat] /\ \A b \in Heights : handled[b] = 0
  BY DEF Init
<1>3. \A b \in Heights : handled[b] <= runs /\ ~Open(b)
  BY <1>2 DEF Init, Open
<1>4. height \in 0 .. MaxBlock /\ lastSeen \in Nat /\ runs \in Nat
  BY SubscriptionAssumption DEF Init
<1>5. nodeHead \in [Streams -> Nat] /\ \A s \in Streams : nodeHead[s] <= height
  BY DEF Init
<1>6. subscribed \in BOOLEAN
  BY Zenon DEF Init
<1> QED
  BY <1>1, <1>2, <1>3, <1>4, <1>5, <1>6 DEF SInv

\* The steps of the environment: the chain and the nodes.
LEMMA EnvSInv ==
  ASSUME SInv, ProduceBlock \/ \E s \in Streams : NodeImport(s)
  PROVE  SInv'
<1>1. CASE ProduceBlock
  BY <1>1 DEF SInv, Open, ProduceBlock
<1>2. ASSUME NEW s \in Streams, NodeImport(s) PROVE SInv'
  <2>1. nodeHead[s] + 1 \in Heights
    BY <1>2 DEF SInv, NodeImport, Heights
  <2>2. pending' \in [Streams -> Seq(Heights)]
    BY <1>2, <2>1 DEF SInv, NodeImport
  <2> QED
    BY <1>2, <2>2 DEF SInv, Open, NodeImport
<1> QED
  BY <1>1, <1>2

\* A run starts, or fails to connect: runs grows by one, which pays for the
\* task the new run may spawn for every block.
LEMMA SubscribeSInv ==
  ASSUME SInv, Subscribe
  PROVE  SInv'
<1>1. /\ runs' = runs + 1
      /\ UNCHANGED <<height, nodeHead, handled>>
  BY DEF Subscribe
<1>2. \A b \in Heights : handled'[b] < runs'
  BY <1>1 DEF SInv
<1>3. CASE subscribed' = TRUE /\ lastSeen' = 0
           /\ pending' = [x \in Streams |-> <<>>]
  BY <1>1, <1>2, <1>3 DEF SInv, Open
<1>4. CASE UNCHANGED <<subscribed, lastSeen, pending>>
  BY <1>1, <1>2, <1>4 DEF SInv, Open
<1> QED
  BY <1>3, <1>4 DEF Subscribe

\* select! takes a head: a block through the filter is recorded as
\* last_seen_block, which closes it and every block below it.
LEMMA TakeSInv ==
  ASSUME SInv, NEW s \in Streams, Take(s)
  PROVE  SInv'
<1> DEFINE b == Head(pending[s])
<1>1. b \in Heights /\ Tail(pending[s]) \in Seq(Heights)
  BY DEF SInv, Take
<1>2. pending' \in [Streams -> Seq(Heights)]
  BY <1>1 DEF SInv, Take
<1>3. CASE b <= lastSeen
  BY <1>2, <1>3 DEF SInv, Open, Take
<1>4. CASE ~(b <= lastSeen)
  <2>1. lastSeen' = b /\ handled' = [handled EXCEPT ![b] = @ + 1]
    BY <1>4 DEF Take
  <2>2. subscribed /\ subscribed' /\ runs' = runs
    BY DEF Take
  <2>3. handled[b] < runs
    <3>1. lastSeen < b
      BY <1>1, <1>4 DEF SInv, Heights
    <3>2. Open(b)
      BY <2>2, <3>1, Zenon DEF Open
    <3> QED
      BY <1>1, <3>2, Zenon DEF SInv
  <2>4. handled \in [Heights -> Nat] /\ runs \in Nat /\ lastSeen \in Nat
    BY DEF SInv
  <2>5. handled' \in [Heights -> Nat]
    BY <1>1, <2>1, <2>4
  <2>6. ASSUME NEW c \in Heights
        PROVE  handled'[c] <= runs' /\ (Open(c)' => handled'[c] < runs')
    <3>1. CASE c = b
      <4>1. handled'[c] = handled[b] + 1 /\ ~(lastSeen' < c)
        BY <1>1, <2>1, <2>4, <3>1 DEF Heights
      <4>2. handled'[c] <= runs'
        BY <1>1, <2>2, <2>3, <2>4, <4>1
      <4>3. ~Open(c)'
        BY <4>1, Zenon DEF Open
      <4> QED
        BY <4>2, <4>3, Zenon
    <3>2. CASE c # b
      <4>1. handled'[c] = handled[c]
        BY <1>1, <2>1, <2>4, <3>2 DEF Heights
      <4>2. handled[c] <= runs /\ (Open(c) => handled[c] < runs)
        BY Zenon DEF SInv
      <4>3. lastSeen' < c => lastSeen < c
        BY <1>4, <2>1, <2>4, <1>1 DEF Heights
      <4> QED
        BY <2>2, <4>1, <4>2, <4>3, Zenon DEF Open
    <3> QED
      BY <3>1, <3>2
  <2>7. UNCHANGED <<height, nodeHead, runs>>
    BY DEF Take
  <2>8. /\ height' \in 0 .. MaxBlock
        /\ nodeHead' \in [Streams -> Nat]
        /\ \A x \in Streams : nodeHead'[x] <= height'
        /\ lastSeen' \in Nat /\ runs' \in Nat
    <3>1. height' \in 0 .. MaxBlock /\ nodeHead' \in [Streams -> Nat]
          /\ \A x \in Streams : nodeHead'[x] <= height'
      BY <2>7 DEF SInv
    <3>2. lastSeen' \in Nat
      BY <1>1, <2>1 DEF Heights
    <3>3. runs' \in Nat
      BY <2>2, <2>4
    <3> QED
      BY <3>1, <3>2, <3>3
  <2>9. subscribed' \in BOOLEAN
    BY <2>2, Zenon
  <2>10. /\ \A c \in Heights : handled'[c] <= runs'
         /\ \A c \in Heights : Open(c)' => handled'[c] < runs'
    BY <2>6, Zenon
  <2> QED
    BY <1>2, <2>5, <2>8, <2>9, <2>10, Zenon DEF SInv
<1> QED
  BY <1>3, <1>4

LEMMA StreamEndsSInv ==
  ASSUME SInv, NEW s \in Streams, StreamEnds(s)
  PROVE  SInv'
<1>1. pending' \in [Streams -> Seq(Heights)]
  BY DEF StreamEnds
<1> QED
  BY <1>1 DEF SInv, Open, StreamEnds

LEMMA NextSInv == SInv /\ [Next]_vars => SInv'
<1> SUFFICES ASSUME SInv, [Next]_vars PROVE SInv'
  OBVIOUS
<1>1. CASE ProduceBlock \/ \E s \in Streams : NodeImport(s)
  BY <1>1, EnvSInv
<1>2. CASE \E s \in Streams : Take(s)
  BY <1>2, TakeSInv
<1>3. CASE \E s \in Streams : StreamEnds(s)
  BY <1>3, StreamEndsSInv
<1>4. CASE Subscribe
  BY <1>4, SubscribeSInv
<1>5. CASE UNCHANGED vars
  BY <1>5 DEF SInv, Open, vars
<1> QED
  BY <1>1, <1>2, <1>3, <1>4, <1>5 DEF Next

\* In every behaviour of the subscription, with any number of providers,
\* blocks and retries, no block gets more handle_new_block tasks than there
\* have been runs of listen_new_blocks_retryable: the last_seen_block
\* filter deduplicates the two streams within a run (run
\* block_subscription), and only a new run can repeat a block (run
\* block_handled_twice).
THEOREM HandledAtMostOncePerRunHolds == Spec => []HandledAtMostOncePerRun
<1>1. SInv => HandledAtMostOncePerRun
  BY DEF SInv, Open, HandledAtMostOncePerRun
<1> QED
  BY InitSInv, NextSInv, <1>1, PTL DEF Spec

=============================================================================
