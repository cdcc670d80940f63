------------------------------- MODULE Holdings -------------------------------
(***************************************************************************)
(* What a wallet's page shows of one event (GET /api/live/owners/:address,  *)
(* fetchLiveHoldings): the claim record until the indexer has stored the    *)
(* transaction it names, and the indexed balance whenever the cursor has    *)
(* passed the last finalized block it saw.                                  *)
(*                                                                          *)
(* Composes the indexer with the transaction hash of each wallet's claim.   *)
(* The relay writes the hash when it has sent a transaction, before anyone  *)
(* knows whether it mints; a mint may be mined in that transaction or, when *)
(* it was replaced, dropped or the wallet claimed by itself, in another.    *)
(***************************************************************************)
EXTENDS ChainIndexer

CONSTANT Badge  \* the token of the event

ASSUME BadgeAssumption == Badge \in EventTokens

VARIABLES
  hash,   \* COALESCE(minted_tx_hash, relay_tx_hash) of each wallet's claim; a
          \* transaction that has transfers is named by its block
  minted  \* minted_tx_hash IS NOT NULL

hvars == <<vars, hash, minted>>

None == 0                  \* NULL
Unmined == MaxBlocks + 1   \* a transaction that has not minted, or never will

HInit ==
  /\ Init
  /\ hash = [w \in Wallets |-> None]
  /\ minted = [w \in Wallets |-> FALSE]

MintedIn(w, b) ==
  \E i \in 1..Len(chain[b]) :
    chain[b][i].from = Zero /\ chain[b][i].to = w /\ chain[b][i].token = Badge

\* markMintJobSubmitted: also a resubmission, as long as nothing is recorded.
Submitted(w) ==
  /\ Badge \in tracked
  /\ ~HasMinted(w, Badge)
  /\ ~minted[w]
  /\ hash' = [hash EXCEPT ![w] = Unmined]
  /\ UNCHANGED <<vars, minted>>

\* The badge is mined: in the transaction that was recorded, or in another one.
Mined(w) ==
  /\ Mint(w, Badge)
  /\ \/ hash[w] = Unmined /\ hash' = [hash EXCEPT ![w] = Len(chain')]
     \/ UNCHANGED hash
  /\ UNCHANGED minted

\* markMintJobConfirmed, after a receipt of the recorded transaction or after
\* hasMintedBadge: with the hash the job has, whichever transaction minted.
Confirmed(w) ==
  /\ HasMinted(w, Badge)
  /\ hash[w] # None /\ ~minted[w]
  /\ minted' = [minted EXCEPT ![w] = TRUE]
  /\ UNCHANGED <<vars, hash>>

\* POST /mints: the wallet reports the transaction, its receipt is verified.
Reported(w, b) ==
  /\ MintedIn(w, b)
  /\ ~minted[w] \/ hash[w] = b
  /\ hash' = [hash EXCEPT ![w] = b]
  /\ minted' = [minted EXCEPT ![w] = TRUE]
  /\ UNCHANGED vars

\* A step of the chain or of the indexer, mints of the badge excepted.
Indexing ==
  /\ \/ EmptyBlock \/ Transfer \/ Finalize
     \/ \E w \in Wallets, t \in Tokens \ {Badge} : Mint(w, t)
     \/ \E t \in EventTokens : Register(t)
     \/ \E r \in Runs :
          Start(r) \/ ReadFinalized(r) \/ ReadLogs(r) \/ Commit(r) \/ Fail(r)
  /\ UNCHANGED <<hash, minted>>

HNext ==
  \/ Indexing
  \/ \E w \in Wallets : Submitted(w)
  \/ \E w \in Wallets : Mined(w)
  \/ \E w \in Wallets : Confirmed(w)
  \/ \E w \in Wallets, b \in 1..Len(chain) : Reported(w, b)

HSpec == HInit /\ [][HNext]_hvars

FairHSpec ==
  /\ HSpec
  /\ \A r \in Runs : /\ WF_hvars(Start(r) /\ UNCHANGED <<hash, minted>>)
                     /\ SF_hvars(ReadFinalized(r) /\ UNCHANGED <<hash, minted>>)
                     /\ SF_hvars(ReadLogs(r) /\ UNCHANGED <<hash, minted>>)
                     /\ SF_hvars(Commit(r) /\ UNCHANGED <<hash, minted>>)

------------------------------------------------------------------------------
(* fetchLiveHoldings                                                         *)

\* indexed_mint: some stored transfer has the claim's transaction hash.
Stored(h) == \E x \in journal : x.block = h

\* Mistake: the claim stays although the index has its mint.
ClaimShownAlways(w) == hash[w] # None

\* claim_holdings
ClaimShown(w) == hash[w] # None /\ ~Stored(hash[w])

\* Mistake: the projection is trusted although more final blocks are missing.
UpToDateAlways == seen # 0

UpToDate == seen # 0 /\ next > seen

\* indexed_holdings
IndexShown(w) == UpToDate /\ balances[w][Badge] > 0

Shown(w) == ClaimShown(w) \/ IndexShown(w)

------------------------------------------------------------------------------
Holds(w) == chain # << >> /\ owners[Len(chain)][w][Badge] > 0

\* Whoever the index shows are the owners at one finalized block, not older
\* than the last_finalized_block the page reports next to them.
IndexShowsFinalizedOwners ==
  UpToDate => \E b \in seen..finalized :
    {w \in Wallets : IndexShown(w)} = {w \in Wallets : owners[b][w][Badge] > 0}

\* The index is never asked to store what it has, and shows nobody wrongly.
IndexIsRight == NeverRefused /\ IndexShowsFinalizedOwners

\* The claim record of a mint gives way to the index: once the block of the
\* recorded transaction is final, the wallet's page stops relying on the claim,
\* unless a crowded chunk stops the indexer.
ClaimGivesWay ==
  \A w \in Wallets, b \in 1..MaxBlocks :
    (finalized >= b /\ hash[w] = b) ~> (~ClaimShown(w) \/ Crowded)

\* Every wallet's page catches up with the chain: the indexer reaches each
\* finalized block (runScheduledIndexer's runs fail and overlap), and from then on
\* the page goes by the index (fetchLiveHoldings).
PagesCatchUp == CatchesUp /\ ClaimGivesWay

\* When everything on the chain is indexed, a wallet whose claim is recorded as
\* minted and that has passed the badge on no longer shows it.
PassedOnIsNotShown ==
  UpToDate /\ next > Len(chain) =>
    \A w \in Wallets : minted[w] /\ ~Holds(w) => ~Shown(w)
==============================================================================
