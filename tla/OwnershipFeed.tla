---------------------------- MODULE OwnershipFeed ----------------------------
(***************************************************************************)
(* What the chain indexer promises: the published holders are the           *)
(* contract's owners at one finalized block, that block only moves forward, *)
(* and every finalized block is published or passed in the end.             *)
(***************************************************************************)
EXTENDS Naturals, Sequences

CONSTANTS
  Wallets,
  Tokens,
  EventTokens   \* the tokens a live event is registered for

VARIABLES
  owners,     \* the contract's balances after each block
  finalized,  \* the last finalized block
  upto,       \* the block whose owners are published, 0 before the first
  holders     \* the published balances

vars == <<owners, finalized, upto, holders>>

At(b) ==
  [w \in Wallets |-> [t \in Tokens |->
    IF b = 0 \/ t \notin EventTokens THEN 0 ELSE owners[b][w][t]]]

Init ==
  /\ owners = << >>
  /\ finalized = 0
  /\ upto = 0
  /\ holders = At(0)

\* The contract adds a block, or one more block becomes final.
Chain ==
  /\ \/ Len(owners') = Len(owners) + 1 /\ SubSeq(owners', 1, Len(owners)) = owners
     \/ owners' = owners /\ finalized' \in finalized + 1 .. Len(owners)
  /\ owners' = owners \/ finalized' = finalized
  /\ UNCHANGED <<upto, holders>>

Publish ==
  /\ upto' \in upto + 1 .. finalized
  /\ holders' = At(upto')
  /\ UNCHANGED <<owners, finalized>>

Next == Chain \/ Publish

Spec == Init /\ [][Next]_vars
==============================================================================
