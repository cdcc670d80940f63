----------------------------- MODULE ChainIndexer -----------------------------
(***************************************************************************)
(* The finalized-block indexer of one badge contract: every minute a cron   *)
(* reads the contract's cursor, fetches the transfers of the next blocks    *)
(* and commits them, with the new cursor, in one D1 batch.  Triggers keep   *)
(* the balances of the journal's transfers.                                 *)
(*                                                                          *)
(* Cron runs may overlap: a slow run still holds the cursor it read when    *)
(* the next one starts.  Every RPC call and every D1 statement or batch is  *)
(* one step, and a run may die between two of them.                         *)
(*                                                                          *)
(* The chain is external.  A block holds at most one transaction with       *)
(* transfers of the contract, which emits one TransferSingle or             *)
(* TransferBatch; `block` stands for its hash and log index, `sub` for      *)
(* sub_index.  A finalized block is never taken back, the RPC answers with  *)
(* the contract's chain and its complete logs or fails.                     *)
(***************************************************************************)
EXTENDS Integers, Sequences, FiniteSets, FiniteSetsExt

CONSTANTS
  Wallets,
  Tokens,
  EventTokens,   \* the tokens that live events register, sooner or later
  Zero,          \* the zero address, the source of a mint
  Runs,          \* cron runs that may overlap
  ChunkBlocks,   \* BLOCKS_PER_CHUNK
  MaxChunks,     \* MAX_CHUNKS_PER_TARGET
  MaxTransfers,  \* MAX_TRANSFERS_PER_CHUNK
  MaxBlocks,     \* bound: blocks the chain grows to
  MaxItems,      \* bound: items of a TransferBatch
  MaxAmount      \* bound: badges one item moves

ASSUME IndexerAssumption ==
  /\ Zero \notin Wallets
  /\ EventTokens \subseteq Tokens
  /\ ChunkBlocks \in Nat \ {0}
  /\ MaxChunks \in Nat \ {0}
  /\ MaxTransfers \in Nat
  /\ MaxBlocks \in Nat
  /\ MaxItems \in Nat
  /\ MaxAmount \in Nat \ {0}

VARIABLES
  chain,      \* the transfers of each block
  owners,     \* the contract's balances after each block
  finalized,  \* the last finalized block
  tracked,    \* token ids of live_events
  next,       \* live_chain_cursors.next_block
  seen,       \* live_chain_cursors.last_finalized_block, 0 for NULL
  journal,    \* live_chain_events
  balances,   \* live_token_balances
  run         \* what each cron run has read

chainVars == <<chain, owners, finalized>>
dbVars == <<next, seen, journal, balances>>
vars == <<chain, owners, finalized, tracked, next, seen, journal, balances, run>>

Transfers ==
  [block : Nat, sub : Nat, token : Tokens,
   from : Wallets \cup {Zero}, to : Wallets \cup {Zero}, n : 0..MaxAmount]
Balances == [Wallets -> [Tokens -> Nat]]

Idle == [at |-> "idle"]
RunStates ==
  {Idle}
    \cup [at : {"started"}, from : Nat, left : Nat]
    \cup [at : {"ranged"}, from : Nat, to : Nat, fin : Nat, left : Nat]
    \cup [at : {"fetched"}, from : Nat, to : Nat, fin : Nat, left : Nat,
          tokens : SUBSET Tokens]

NoBadges == [w \in Wallets |-> [t \in Tokens |-> 0]]

Init ==
  /\ chain = << >> /\ owners = << >> /\ finalized = 0
  /\ tracked = {}
  /\ next = 1 /\ seen = 0 /\ journal = {} /\ balances = NoBadges
  /\ run = [r \in Runs |-> Idle]

------------------------------------------------------------------------------
(* Transfers R, badge by badge.                                              *)

BadgesOf(R) == {u \in R \X (1..MaxAmount) : u[2] <= u[1].n}

Given(R, w, t) == Cardinality(BadgesOf({x \in R : x.from = w /\ x.token = t}))
Got(R, w, t) == Cardinality(BadgesOf({x \in R : x.to = w /\ x.token = t}))

\* The transfers of R before x, in the order of the chain.
Before(x, R) == {y \in R : y.block < x.block \/ (y.block = x.block /\ y.sub < x.sub)}

\* The source has less than the transfer moves.
Overdraws(b, x) == x.from # Zero /\ b[x.from][x.token] < x.n

------------------------------------------------------------------------------
(* The chain.                                                                *)

\* The contract's balances after transfers R.
Moved(b, R) ==
  [w \in Wallets |-> [t \in Tokens |-> b[w][t] - Given(R, w, t) + Got(R, w, t)]]

Latest == IF chain = << >> THEN NoBadges ELSE owners[Len(chain)]

\* The badges that exist: those of an event from its registration on (the
\* claim signer signs for registered events only), and those of other issuers.
Circulating == tracked \cup (Tokens \ EventTokens)

\* One transaction moves `items`, each a token and an amount, one after another.
AddBlock(from, to, items) ==
  LET block == [i \in 1..Len(items) |->
                  [block |-> Len(chain) + 1, sub |-> i, token |-> items[i].token,
                   from |-> from, to |-> to, n |-> items[i].n]]
      rows == {block[i] : i \in 1..Len(items)}
  IN /\ Len(chain) < MaxBlocks
     /\ \A x \in rows : ~Overdraws(Moved(Latest, Before(x, rows)), x)
     /\ chain' = Append(chain, block)
     /\ owners' = Append(owners, Moved(Latest, rows))
     /\ UNCHANGED <<finalized, tracked, run>> /\ UNCHANGED dbVars

HasMinted(w, t) ==
  \E b \in 1..Len(chain) : \E i \in 1..Len(chain[b]) :
    chain[b][i].from = Zero /\ chain[b][i].to = w /\ chain[b][i].token = t

Mint(w, t) ==
  /\ t \in Circulating
  /\ ~HasMinted(w, t)
  /\ AddBlock(Zero, w, <<[token |-> t, n |-> 1]>>)

Transfer ==
  \E from, to \in Wallets, k \in 1..MaxItems :
    \E items \in [1..k -> [token : Circulating, n : 0..MaxAmount]] : AddBlock(from, to, items)

EmptyBlock == AddBlock(Zero, Zero, << >>)

Finalize ==
  /\ finalized' \in finalized + 1 .. Len(chain)
  /\ UNCHANGED <<chain, owners, tracked, run>> /\ UNCHANGED dbVars

\* A live event gets its contract and token id; the first one registers the
\* cursor at the contract's deployment block.
Register(t) ==
  /\ t \in EventTokens \ tracked
  /\ tracked' = tracked \cup {t}
  /\ UNCHANGED chainVars /\ UNCHANGED dbVars /\ UNCHANGED run

------------------------------------------------------------------------------
(* A cron run.                                                               *)

Least(a, b) == IF a < b THEN a ELSE b

Step(r, to) == run' = [run EXCEPT ![r] = to]

\* fetchChainIndexerTargets: the run works on the cursor as it is now.
Start(r) ==
  /\ run[r] = Idle
  /\ tracked # {}
  /\ Step(r, [at |-> "started", from |-> next, left |-> MaxChunks])
  /\ UNCHANGED chainVars /\ UNCHANGED dbVars /\ UNCHANGED tracked

\* Mistake: reads up to the latest block instead of the finalized one.
RangedLatest(p) ==
  [at |-> "ranged", from |-> p.from, fin |-> finalized, left |-> p.left,
   to |-> Least(p.from + ChunkBlocks - 1, Len(chain))]

Ranged(p) ==
  [at |-> "ranged", from |-> p.from, fin |-> finalized, left |-> p.left,
   to |-> Least(p.from + ChunkBlocks - 1, finalized)]

ReadFinalized(r) ==
  LET p == run[r]
  IN /\ p.at = "started"
     /\ Step(r, IF p.from > finalized THEN Idle ELSE Ranged(p))
     /\ UNCHANGED chainVars /\ UNCHANGED dbVars /\ UNCHANGED tracked

LogsOf(from, to) ==
  UNION {{chain[b][i] : i \in 1..Len(chain[b])} : b \in from..to}

\* Mistake: the first block of a chunk was the last one of the chunk before.
DecodedAfter(from, to, tokens) == {x \in LogsOf(from + 1, to) : x.token \in tokens}

\* decodeTrackedTransfers
Decoded(from, to, tokens) == {x \in LogsOf(from, to) : x.token \in tokens}

\* Too many transfers in the chunk throw, and will again next time.
ReadLogs(r) ==
  LET p == run[r]
      fetched == [at |-> "fetched", from |-> p.from, to |-> p.to, fin |-> p.fin,
                  left |-> p.left, tokens |-> tracked]
  IN /\ p.at = "ranged"
     /\ Step(r, IF Cardinality(Decoded(p.from, p.to, tracked)) > MaxTransfers
                THEN Idle ELSE fetched)
     /\ UNCHANGED chainVars /\ UNCHANGED dbVars /\ UNCHANGED tracked

Key(x) == <<x.block, x.sub>>

\* Mistake: replayed rows are stored, and counted, again.
FreshAgain(x) == x.n > 0

\* The rows that INSERT OR IGNORE stores: not stored before, and past the CHECK
\* of a positive value.
Fresh(x) == x.n > 0 /\ Key(x) \notin {Key(y) : y \in journal}

NewRows(p) == {x \in Decoded(p.from, p.to, p.tokens) : Fresh(x)}

\* live_chain_events_debit
Debited(held, R, w, t) == held - Given(R, w, t)

\* Mistake: ON CONFLICT sets the balance instead of adding to it.
CreditedOver(held, R, w, t) == IF Got(R, w, t) = 0 THEN held ELSE Got(R, w, t)

\* live_chain_events_credit
Credited(held, R, w, t) == held + Got(R, w, t)

\* What the triggers make of the balances for stored rows R.
Post(b, R) ==
  [w \in Wallets |-> [t \in Tokens |-> Credited(Debited(b[w][t], R, w, t), R, w, t)]]

\* live_chain_events_require_source_balance aborts the batch at a row whose
\* source has too little after the rows before it.
Refused(p) == \E x \in NewRows(p) : Overdraws(Post(balances, Before(x, NewRows(p))), x)

\* Mistake: the UPDATE is not tied to the cursor that was read.
CursorIsAny(from) == TRUE

\* The cursor only moves for the run that read it where it is.
CursorIs(from) == next = from

\* Mistake: next_block is the last block done, not the one after it.
MoveCursorShort(p) ==
  IF CursorIs(p.from) THEN next' = p.to /\ seen' = p.fin
                      ELSE UNCHANGED <<next, seen>>

MoveCursor(p) ==
  IF CursorIs(p.from) THEN next' = p.to + 1 /\ seen' = p.fin
                      ELSE UNCHANGED <<next, seen>>

\* The next chunk, unless the run has caught up, used its chunks, or found
\* that another run moved the cursor.
Following(p) ==
  IF CursorIs(p.from) /\ p.to + 1 <= p.fin /\ p.left > 1
  THEN [at |-> "started", from |-> p.to + 1, left |-> p.left - 1]
  ELSE Idle

\* The batch: all rows and the cursor, or nothing.  The rows stay when the
\* cursor was not moved: the run only notices after the commit.
Commit(r) ==
  LET p == run[r]
  IN /\ p.at = "fetched"
     /\ ~Refused(p)
     /\ journal' = journal \cup NewRows(p)
     /\ balances' = Post(balances, NewRows(p))
     /\ MoveCursor(p)
     /\ Step(r, Following(p))
     /\ UNCHANGED chainVars /\ UNCHANGED tracked

\* The source-balance trigger aborts the batch, an RPC call fails, or the
\* Worker is evicted: the run ends with what it has committed.
Fail(r) ==
  /\ run[r] # Idle
  /\ Step(r, Idle)
  /\ UNCHANGED chainVars /\ UNCHANGED dbVars /\ UNCHANGED tracked

Next ==
  \/ EmptyBlock
  \/ Transfer
  \/ \E w \in Wallets, t \in Tokens : Mint(w, t)
  \/ Finalize
  \/ \E t \in EventTokens : Register(t)
  \/ \E r \in Runs : Start(r)
  \/ \E r \in Runs : ReadFinalized(r)
  \/ \E r \in Runs : ReadLogs(r)
  \/ \E r \in Runs : Commit(r)
  \/ \E r \in Runs : Fail(r)

Spec == Init /\ [][Next]_vars

\* The cron starts every minute.  RPC and database calls fail, but not for
\* ever: a step that a run reaches again and again succeeds in the end.
FairSpec ==
  /\ Spec
  /\ \A r \in Runs : /\ WF_vars(Start(r))
                     /\ SF_vars(ReadFinalized(r))
                     /\ SF_vars(ReadLogs(r))
                     /\ SF_vars(Commit(r))

------------------------------------------------------------------------------
TypeOK ==
  /\ chain \in Seq(Seq(Transfers)) /\ Len(chain) = Len(owners)
  /\ owners \in Seq(Balances) /\ balances \in Balances
  /\ finalized \in 0..Len(chain)
  /\ tracked \subseteq EventTokens
  /\ next \in 1..finalized + 1 /\ seen \in 0..finalized
  /\ journal \subseteq Transfers
  /\ run \in [Runs -> RunStates]

\* Whatever the cursor has passed is stored: no transfer of an event's badge is
\* skipped between two runs, two chunks or two registrations.
NothingSkipped ==
  \A x \in LogsOf(1, next - 1) : x.token \in EventTokens /\ x.n > 0 => x \in journal

\* Only what is final is stored: a transfer that could still be undone never
\* reaches the ownership pages.
OnlyFinalStored == journal \subseteq LogsOf(1, finalized)

\* No batch is refused: in the order it is fetched, every transfer finds its
\* source's badges already counted, also when another run stored part of it.
NeverRefused ==
  \A r \in Runs : run[r].at = "fetched" => ~Refused(run[r])

\* The cursor and the finalized block it was checked against never go back,
\* however late a slow run commits; and no commit is in vain: afterwards the
\* cursor is past the block where that run began its chunk, also when another run
\* has moved it. (Runs that overlap do not hold each other up.)
CursorMovesForward ==
  [][/\ next' >= next /\ seen' >= seen
     /\ \A r \in Runs : Commit(r) => next' > run[r].from]_vars

\* The block whose owners the balances are: the cursor's, or a later one when a
\* run that lost the cursor had stored more.
Covered == Max({next - 1} \cup {x.block : x \in journal})

Feed == INSTANCE OwnershipFeed WITH upto <- Covered, holders <- balances
\* Readers see the contract's owners at one finalized block, and never an older
\* one than before.
PublishesOwners == Feed!Spec

\* A chunk that holds more transfers than one batch may: the cursor cannot pass.
Crowded ==
  \E b \in 1..Len(chain) :
    Cardinality(Decoded(b, Least(b + ChunkBlocks - 1, Len(chain)), EventTokens))
      > MaxTransfers

\* Once an event is registered, every finalized block is indexed in the end,
\* through failing runs and runs that overtake each other.
CatchesUp ==
  \A b \in 1..MaxBlocks :
    (finalized >= b /\ tracked # {}) ~> (next > b \/ Crowded)
==============================================================================
