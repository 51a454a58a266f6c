-------------------------- MODULE BlockSubscription --------------------------
(***************************************************************************)
(* The batcher's new-block subscription, from listen_new_blocks and        *)
(* listen_new_blocks_retryable (batcher/aligned-batcher/src/lib.rs         *)
(* 306-380).  Each run of the retryable function connects to the primary   *)
(* and the fallback websocket providers, subscribes to new heads on both,  *)
(* and merges the two streams with tokio::select!.  A local                *)
(* last_seen_block drops every block number at or below the last one that *)
(* spawned a handle_new_block task.  When either stream ends, the run      *)
(* returns a transient error and retry_function starts a new one, with a   *)
(* new last_seen_block of 0.                                               *)
(*                                                                         *)
(* The chain and the two nodes are the environment: the chain grows, and  *)
(* each node imports its blocks in order, some time after they are made,  *)
(* announcing each new head to its subscribers.                            *)
(***************************************************************************)
EXTENDS Naturals, Sequences

CONSTANTS
  Streams,        \* the primary and the fallback websocket providers
  MaxBlock,       \* the chain grows up to block MaxBlock
  MaxReconnects   \* bound on the runs of listen_new_blocks_retryable
                  \* (LISTEN_NEW_BLOCKS_MAX_TIMES is usize::MAX)

ASSUME SubscriptionAssumption ==
  /\ Streams # {}
  /\ MaxBlock \in Nat
  /\ MaxReconnects \in Nat

VARIABLES
  height,      \* the newest block of the chain
  nodeHead,    \* nodeHead[s]: the newest block the node behind s imported
  pending,     \* pending[s]: heads stream s delivered, not yet taken
  subscribed,  \* a run of listen_new_blocks_retryable is in its loop
  lastSeen,    \* that run's last_seen_block
  handled,     \* handled[b]: handle_new_block tasks spawned for block b
  runs         \* runs of listen_new_blocks_retryable started

vars == <<height, nodeHead, pending, subscribed, lastSeen, handled, runs>>

Heights == 1 .. MaxBlock

Init ==
  /\ height = 0
  /\ nodeHead = [s \in Streams |-> 0]
  /\ pending = [s \in Streams |-> <<>>]
  /\ subscribed = FALSE
  /\ lastSeen = 0
  /\ handled = [b \in Heights |-> 0]
  /\ runs = 0

\* A block is made.
ProduceBlock ==
  /\ height < MaxBlock
  /\ height' = height + 1
  /\ UNCHANGED <<nodeHead, pending, subscribed, lastSeen, handled, runs>>

\* The node behind s imports its next block and, while the batcher is
\* subscribed, announces it on s.
NodeImport(s) ==
  /\ nodeHead[s] < height
  /\ nodeHead' = [nodeHead EXCEPT ![s] = @ + 1]
  /\ pending' = IF subscribed
                  THEN [pending EXCEPT ![s] = Append(@, nodeHead[s] + 1)]
                  ELSE pending
  /\ UNCHANGED <<height, subscribed, lastSeen, handled, runs>>

\* retry_function runs listen_new_blocks_retryable (again): both providers
\* connect and subscribe, and the loop starts with last_seen_block = 0
\* (lib.rs 306-354).  A failed connection or subscription returns a
\* transient error before the loop and is retried; it changes nothing but
\* the count of runs.
Subscribe ==
  /\ ~subscribed
  /\ runs < MaxReconnects
  /\ runs' = runs + 1
  /\ \/ /\ subscribed' = TRUE
        /\ lastSeen' = 0
        /\ pending' = [s \in Streams |-> <<>>]
     \/ UNCHANGED <<subscribed, lastSeen, pending>>
  /\ UNCHANGED <<height, nodeHead, handled>>

\* Mutant: last_seen_block stored before it is compared with the block.
TakeMarkFirst(s) ==
  /\ subscribed
  /\ pending[s] # <<>>
  /\ pending' = [pending EXCEPT ![s] = Tail(@)]
  /\ lastSeen' = Head(pending[s])
  /\ UNCHANGED <<height, nodeHead, subscribed, handled, runs>>

\* Mutant: the block's task is spawned but last_seen_block is not updated.
TakeNoRecord(s) ==
  LET b == Head(pending[s]) IN
  /\ subscribed
  /\ pending[s] # <<>>
  /\ pending' = [pending EXCEPT ![s] = Tail(@)]
  /\ IF b <= lastSeen
       THEN UNCHANGED handled
       ELSE handled' = [handled EXCEPT ![b] = @ + 1]
  /\ UNCHANGED <<height, nodeHead, subscribed, lastSeen, runs>>

\* select! takes the next head of s: a block at or below last_seen_block is
\* skipped, a newer one is recorded and a handle_new_block task spawned
\* for it (lib.rs 356-374).
Take(s) ==
  LET b == Head(pending[s]) IN
  /\ subscribed
  /\ pending[s] # <<>>
  /\ pending' = [pending EXCEPT ![s] = Tail(@)]
  /\ IF b <= lastSeen
       THEN UNCHANGED <<lastSeen, handled>>
       ELSE /\ lastSeen' = b
            /\ handled' = [handled EXCEPT ![b] = @ + 1]
  /\ UNCHANGED <<height, nodeHead, subscribed, runs>>

\* One of the streams ends (its websocket closes): select! yields None, the
\* loop exits with a transient error and both subscriptions are dropped
\* (lib.rs 375-379).
StreamEnds(s) ==
  /\ subscribed
  /\ subscribed' = FALSE
  /\ pending' = [x \in Streams |-> <<>>]
  /\ UNCHANGED <<height, nodeHead, lastSeen, handled, runs>>

Next ==
  \/ ProduceBlock
  \/ \E s \in Streams : NodeImport(s) \/ Take(s) \/ StreamEnds(s)
  \/ Subscribe

\* select! polls both streams on every iteration, in random order, so a
\* head that is ready is eventually taken; retry_function starts a new run
\* after its delay.  The chain, the nodes and the websockets are the
\* environment and get no fairness.
Fairness ==
  /\ \A s \in Streams : WF_vars(Take(s))
  /\ WF_vars(Subscribe)

Spec == Init /\ [][Next]_vars /\ Fairness

-----------------------------------------------------------------------------
TypeOK ==
  /\ height \in 0 .. MaxBlock
  /\ nodeHead \in [Streams -> 0 .. MaxBlock]
  /\ pending \in [Streams -> Seq(Heights)]
  /\ subscribed \in BOOLEAN
  /\ lastSeen \in 0 .. MaxBlock
  /\ handled \in [Heights -> Nat]
  /\ runs \in 0 .. MaxReconnects

\* Block b was announced on s and is waiting to be taken.
Announced(s, b) == \E i \in 1 .. Len(pending[s]) : pending[s][i] = b

\* Every head a stream announces reaches the batcher while the
\* subscription lasts: a handle_new_block task is spawned for it or for a
\* newer block, whichever of the two streams announced it first.
AnnouncedBlockHandled ==
  \A s \in Streams, b \in Heights :
    subscribed /\ Announced(s, b) ~>
      ~subscribed \/ \E c \in b .. MaxBlock : handled[c] > 0

\* Within one run of listen_new_blocks_retryable, last_seen_block lets a
\* block through at most once, whichever provider delivers it and however
\* the two streams interleave: no block has more handle_new_block tasks
\* than there have been runs of the listener.
HandledAtMostOncePerRun == \A b \in Heights : handled[b] <= runs

=============================================================================
