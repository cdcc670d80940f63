---------------------------- MODULE BadgeContract ----------------------------
(***************************************************************************)
(* The badge contract, contracts/contracts/AssociationBadgesUpgradeable.sol *)
(* (and its not upgradeable twin AssociationBadges.sol): one ERC-1155 token *)
(* id per event, minted one at a time against an authorization that the     *)
(* platform's claim signer signed off chain.                                *)
(*                                                                          *)
(* A mint or a transfer to an account with code calls that account back     *)
(* before the call returns, and the callback may call the contract again.   *)
(* `frames` is the stack of calls whose callback is running: each entry is  *)
(* the store as it was before that call, which a revert brings back.  A     *)
(* transaction is everything between two states with an empty stack.        *)
(*                                                                          *)
(* Left out: metadata URIs and ERC-1155 approvals (a transfer may be made   *)
(* by the holder or by anybody the holder approved, so Transfer does not    *)
(* name its caller), and the UUPS upgrade, which keeps the store.           *)
(***************************************************************************)
EXTENDS Integers, Sequences, FiniteSets

CONSTANTS
  Accounts,      \* addresses that hold badges, submit calls or own the contract
  Contracts,     \* those of them that have code and so get a callback
  Tokens,        \* token ids, one per event
  Nonces,        \* the bytes32 nonces that authorizations carry
  Signers,       \* addresses that may become the claim signer
  Caps,          \* the values of maxSupply an owner may choose
  NoOwner,       \* the zero address of pendingOwner
  FirstOwner,    \* the owner and
  FirstSigner,   \* the claim signer that initialize is given
  MaxDepth,      \* bound: nested callbacks
  MaxSigned      \* bound: authorizations the platform signs

ASSUME AccountsFinite == IsFiniteSet(Accounts) /\ Contracts \subseteq Accounts
ASSUME TokensFinite == IsFiniteSet(Tokens)
ASSUME NoncesFinite == IsFiniteSet(Nonces)
ASSUME CapsPositive == Caps \subseteq Nat \ {0}
ASSUME OwnerAndSigner ==
  FirstOwner \in Accounts /\ FirstSigner \in Signers /\ NoOwner \notin Accounts
ASSUME BoundsNat == MaxDepth \in Nat /\ MaxSigned \in Nat

VARIABLES
  store,     \* the contract's storage
  frames,    \* the stores to go back to if the running callbacks revert
  signed,    \* authorizations the platform has signed
  expired    \* those of them whose deadline has passed

vars == <<store, frames, signed, expired>>

Claims == Tokens \X Accounts

Authorizations ==
  [account: Accounts, token: Tokens, nonce: Nonces, signer: Signers]

Stores ==
  [ cap: [Tokens -> Nat],             \* maxSupply, 0 when there is no such event
    active: [Tokens -> BOOLEAN],
    claimed: SUBSET Claims,           \* hasClaimed
    used: SUBSET Nonces,              \* usedNonces
    balance: [Claims -> Nat],
    supply: [Tokens -> Nat],
    signer: Signers,
    paused: BOOLEAN,
    owner: Accounts,
    pending: Accounts \cup {NoOwner} ]

-----------------------------------------------------------------------------
(* What a call computes. *)

\* Mistake: the supply check lets one badge too many through.
ClaimableOverCap(x) ==
  /\ store.cap[x.token] # 0
  /\ store.active[x.token]
  /\ x \notin expired
  /\ <<x.token, x.account>> \notin store.claimed
  /\ x.nonce \notin store.used
  /\ store.supply[x.token] <= store.cap[x.token]
  /\ x.signer = store.signer
  /\ ~store.paused

\* Mistake: usedNonces is never looked at.
ClaimableTwiceSpent(x) ==
  /\ store.cap[x.token] # 0
  /\ store.active[x.token]
  /\ x \notin expired
  /\ <<x.token, x.account>> \notin store.claimed
  /\ store.supply[x.token] < store.cap[x.token]
  /\ x.signer = store.signer
  /\ ~store.paused

\* _claim's checks, in its order, and the pause check of the mint it ends in.
Claimable(x) ==
  /\ store.cap[x.token] # 0
  /\ store.active[x.token]
  /\ x \notin expired
  /\ <<x.token, x.account>> \notin store.claimed
  /\ x.nonce \notin store.used
  /\ store.supply[x.token] < store.cap[x.token]
  /\ x.signer = store.signer
  /\ ~store.paused

\* One badge more, or one less, of a token on an account.
Credited(balance, t, a) == [balance EXCEPT ![<<t, a>>] = balance[<<t, a>>] + 1]
Debited(balance, t, a) == [balance EXCEPT ![<<t, a>>] = balance[<<t, a>>] - 1]

\* Mistake: hasClaimed is not recorded, the nonce alone is.
AfterClaimUnrecorded(x) ==
  [store EXCEPT
     !.used = @ \cup {x.nonce},
     !.balance = Credited(store.balance, x.token, x.account),
     !.supply = [store.supply EXCEPT ![x.token] = store.supply[x.token] + 1]]

\* The store after _claim: the nonce and the claim are recorded before _mint.
AfterClaim(x) ==
  [store EXCEPT
     !.used = store.used \cup {x.nonce},
     !.claimed = store.claimed \cup {<<x.token, x.account>>},
     !.balance = Credited(store.balance, x.token, x.account),
     !.supply = [store.supply EXCEPT ![x.token] = store.supply[x.token] + 1]]

\* Mistake: both balances are computed before either is written.
AfterTransferStale(t, from, to) ==
  [store EXCEPT !.balance =
     [@ EXCEPT ![<<t, from>>] = @ - 1,
               ![<<t, to>>] = store.balance[<<t, to>>] + 1]]

\* The store after one badge moves; a holder may send one to itself.
AfterTransfer(t, from, to) ==
  [store EXCEPT
     !.balance = Credited(Debited(store.balance, t, from), t, to)]

\* The call's effects, and the callback of a recipient that has code.
Deliver(to, after) ==
  /\ to \in Contracts => Len(frames) < MaxDepth
  /\ store' = after
  /\ frames' = IF to \in Contracts THEN Append(frames, store) ELSE frames
  /\ UNCHANGED <<signed, expired>>

\* During a transaction only code runs; between two, anybody may call.
MayCall(a) == frames = << >> \/ a \in Contracts

\* An owner's call: onlyOwner, and effects that call nobody back.
OwnerCall(after) ==
  /\ MayCall(store.owner)
  /\ store' = after
  /\ UNCHANGED <<frames, signed, expired>>

-----------------------------------------------------------------------------
(* Operations. *)

\* claim and claimFor: the signed account gets the badge, whoever calls.
Claim(x) == Claimable(x) /\ Deliver(x.account, AfterClaim(x))

\* Mistake: only _claim checks the pause, transfers do not.
TransferPaused(t, from, to) ==
  /\ store.balance[<<t, from>>] >= 1
  /\ Deliver(to, AfterTransfer(t, from, to))

\* safeTransferFrom by the holder or an approved operator.
Transfer(t, from, to) ==
  /\ ~store.paused
  /\ store.balance[<<t, from>>] >= 1
  /\ Deliver(to, AfterTransfer(t, from, to))

\* The innermost callback accepts the badge and its call returns.
Return ==
  /\ frames # << >>
  /\ frames' = SubSeq(frames, 1, Len(frames) - 1)
  /\ UNCHANGED <<store, signed, expired>>

\* The innermost callback refuses the badge, or fails: its call is undone.
Revert ==
  /\ frames # << >>
  /\ store' = frames[Len(frames)]
  /\ frames' = SubSeq(frames, 1, Len(frames) - 1)
  /\ UNCHANGED <<signed, expired>>

\* Mistake: createEvent overwrites an event that exists.
CreateEventAgain(t, cap) ==
  OwnerCall([store EXCEPT !.cap[t] = cap, !.active[t] = TRUE])

CreateEvent(t, cap) ==
  /\ store.cap[t] = 0
  /\ OwnerCall([store EXCEPT !.cap = [store.cap EXCEPT ![t] = cap],
                           !.active = [store.active EXCEPT ![t] = TRUE]])

SetEventActive(t, on) ==
  /\ store.cap[t] # 0
  /\ OwnerCall([store EXCEPT !.active = [store.active EXCEPT ![t] = on]])

SetClaimSigner(s) == OwnerCall([store EXCEPT !.signer = s])

Pause == ~store.paused /\ OwnerCall([store EXCEPT !.paused = TRUE])

Unpause == store.paused /\ OwnerCall([store EXCEPT !.paused = FALSE])

\* Ownable2Step: the new owner has to accept; the zero address withdraws.
TransferOwnership(a) == OwnerCall([store EXCEPT !.pending = a])

AcceptOwnership ==
  /\ store.pending # NoOwner
  /\ MayCall(store.pending)
  /\ store' = [store EXCEPT !.owner = store.pending, !.pending = NoOwner]
  /\ UNCHANGED <<frames, signed, expired>>

\* The platform signs a claim; the contract trusts nothing about its fields.
Sign(x) ==
  /\ frames = << >>
  /\ x \notin signed /\ Cardinality(signed) < MaxSigned
  /\ signed' = signed \cup {x}
  /\ UNCHANGED <<store, frames, expired>>

\* A deadline passes, between two blocks.
Expire(x) ==
  /\ frames = << >>
  /\ expired' = expired \cup {x}
  /\ UNCHANGED <<store, frames, signed>>

-----------------------------------------------------------------------------

Init ==
  /\ store =
       [ cap |-> [t \in Tokens |-> 0], active |-> [t \in Tokens |-> FALSE],
         claimed |-> {}, used |-> {}, balance |-> [c \in Claims |-> 0],
         supply |-> [t \in Tokens |-> 0], signer |-> FirstSigner,
         paused |-> FALSE, owner |-> FirstOwner, pending |-> NoOwner ]
  /\ frames = << >>
  /\ signed = {}
  /\ expired = {}

Holding ==
  \/ \E x \in signed : Claim(x)
  \/ \E t \in Tokens, from, to \in Accounts : Transfer(t, from, to)
  \/ Return
  \/ Revert

Administration ==
  \/ \E t \in Tokens, cap \in Caps : CreateEvent(t, cap)
  \/ \E t \in Tokens, on \in BOOLEAN : SetEventActive(t, on)
  \/ \E s \in Signers : SetClaimSigner(s)
  \/ Pause
  \/ Unpause
  \/ \E a \in Accounts \cup {NoOwner} : TransferOwnership(a)
  \/ AcceptOwnership

Outside ==
  \/ \E x \in Authorizations : Sign(x)
  \/ \E x \in signed \ expired : Expire(x)

Next == Holding \/ Administration \/ Outside

Spec == Init /\ [][Next]_vars

-----------------------------------------------------------------------------
(* Properties. *)

TypeOK ==
  /\ store \in Stores
  /\ frames \in Seq(Stores)
  /\ signed \subseteq Authorizations
  /\ expired \subseteq Authorizations

ClaimedOf(s, t) == {c \in s.claimed : c[1] = t}

\* The badges of a token one by one: an account with n of them has the first n.
Badges(balance, t) == UNION {{a} \X (1..balance[<<t, a>>]) : a \in Accounts}

SignedFor(s, c) ==
  \E x \in signed : x.token = c[1] /\ x.account = c[2] /\ x.nonce \in s.used

\* No event has more badges than its maxSupply, not even while a recipient's
\* callback claims, transfers or administers (_claim checks totalSupply before
\* the callback that _mint ends in).
CapHeld == \A t \in Tokens : store.supply[t] <= store.cap[t]

\* The total supply of a token is the number of accounts that have claimed it
\* in every state that a callback can see, whatever was reverted before: no
\* account was given two badges of one event.
SupplyCountsClaims ==
  \A t \in Tokens : store.supply[t] = Cardinality(ClaimedOf(store, t))

\* The balances of a token add up to its supply, across transfers (to oneself
\* too), mints and reverts: a badge is neither lost nor made by moving it.
BalancesAddUp ==
  \A t \in Tokens : store.supply[t] = Cardinality(Badges(store.balance, t))

\* Every claim spent one authorization of its own: there are as many used
\* nonces as claims, and each claim's account and token were signed for with
\* a nonce that is used up (usedNonces and hasClaimed, set together).
ClaimsSpendTheirNonce ==
  /\ Cardinality(store.used) = Cardinality(store.claimed)
  /\ \A c \in store.claimed : SignedFor(store, c)

\* "Emergency stop for claims, mints, burns, and transfers": a step that
\* starts and ends paused moves no badge.  A revert may move badges back only
\* by going back to a store that was not paused.
PauseFreezes ==
  [][store.paused /\ store'.paused =>
       store'.balance = store.balance /\ store'.supply = store.supply]_vars

\* What the chain shows between transactions: the store, or the one the
\* running transaction started from.
Committed == IF frames = << >> THEN store ELSE frames[1]

\* What a transaction commits is never taken back, by no later transaction and
\* no revert: a claim and a spent nonce stay, an event's maxSupply is final.
CommittedForever ==
  [][/\ Committed.claimed \subseteq Committed'.claimed
     /\ Committed.used \subseteq Committed'.used
     /\ \A t \in Tokens :
          Committed.cap[t] # 0 => Committed'.cap[t] = Committed.cap[t]]_vars

=============================================================================
