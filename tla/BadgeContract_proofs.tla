------------------------- MODULE BadgeContract_proofs -------------------------
(***************************************************************************)
(* Proofs about BadgeContract, for any accounts, tokens and depth of        *)
(* nesting.  The inductive invariant speaks of every store on the stack,    *)
(* since a revert may bring any of them back.                               *)
(***************************************************************************)
EXTENDS BadgeContract, FiniteSetTheorems, TLAPS

\* What holds of one store, with the authorizations in S signed.
Sound(s, S) ==
  /\ \A t \in Tokens : s.supply[t] <= s.cap[t]
  /\ \A t \in Tokens : s.supply[t] = Cardinality(ClaimedOf(s, t))
  /\ \A t \in Tokens : /\ IsFiniteSet(Badges(s.balance, t))
                       /\ s.supply[t] = Cardinality(Badges(s.balance, t))
  /\ Cardinality(s.used) = Cardinality(s.claimed)
  /\ \A c \in s.claimed :
       \E x \in S : x.token = c[1] /\ x.account = c[2] /\ x.nonce \in s.used

\* Store t may come after store s: nothing s committed to is taken back.
Follows(s, t) ==
  /\ s.claimed \subseteq t.claimed
  /\ s.used \subseteq t.used
  /\ \A k \in Tokens : s.cap[k] # 0 => t.cap[k] = s.cap[k]

IInv ==
  /\ TypeOK
  /\ Sound(store, signed)
  /\ \A i \in 1..Len(frames) :
       /\ Sound(frames[i], signed)
       /\ ~frames[i].paused
       /\ Follows(frames[i], store)
       /\ \A j \in i..Len(frames) : Follows(frames[i], frames[j])

\* The two shapes of a step: a call that goes ahead, into a callback or not,
\* and the end of the innermost call.
Advancing ==
  /\ Follows(store, store')
  /\ frames' \in {frames, Append(frames, store)}
  /\ store.paused => store'.balance = store.balance /\ store'.supply = store.supply

Unwinding ==
  /\ frames # << >>
  /\ frames' = SubSeq(frames, 1, Len(frames) - 1)
  /\ store' \in {store, frames[Len(frames)]}

-----------------------------------------------------------------------------
(* Stores. *)

LEMMA FollowsSelf == ASSUME NEW s PROVE Follows(s, s)
BY DEF Follows

LEMMA FollowsTransitive ==
  ASSUME NEW s \in Stores, NEW t \in Stores, NEW u \in Stores,
         Follows(s, t), Follows(t, u)
  PROVE  Follows(s, u)
BY DEF Follows, Stores

LEMMA FiniteBooks ==
  ASSUME NEW s \in Stores
  PROVE  /\ IsFiniteSet(s.claimed) /\ IsFiniteSet(s.used)
         /\ \A t \in Tokens : IsFiniteSet(ClaimedOf(s, t))
<1>1. IsFiniteSet(Claims)
  BY FS_Product, AccountsFinite, TokensFinite DEF Claims
<1>2. s.claimed \subseteq Claims /\ s.used \subseteq Nonces
  BY DEF Stores
<1>3. \A t \in Tokens : ClaimedOf(s, t) \subseteq s.claimed
  BY DEF ClaimedOf
<1> QED BY <1>1, <1>2, <1>3, FS_Subset, NoncesFinite

\* A store keeps its type when fields are given values of their types.
LEMMA StoreUpdates ==
  ASSUME NEW s \in Stores
  PROVE  /\ \A u \in SUBSET Nonces, c \in SUBSET Claims,
              b \in [Claims -> Nat], y \in [Tokens -> Nat] :
              [s EXCEPT !.used = u, !.claimed = c, !.balance = b, !.supply = y]
                \in Stores
         /\ \A k \in [Tokens -> Nat], v \in [Tokens -> BOOLEAN] :
              [s EXCEPT !.cap = k, !.active = v] \in Stores
         /\ \A v \in [Tokens -> BOOLEAN] : [s EXCEPT !.active = v] \in Stores
         /\ \A g \in Signers : [s EXCEPT !.signer = g] \in Stores
         /\ \A p \in BOOLEAN : [s EXCEPT !.paused = p] \in Stores
         /\ \A q \in Accounts \cup {NoOwner} :
              [s EXCEPT !.pending = q] \in Stores
         /\ \A o \in Accounts, q \in Accounts \cup {NoOwner} :
              [s EXCEPT !.owner = o, !.pending = q] \in Stores
         /\ \A b \in [Claims -> Nat] : [s EXCEPT !.balance = b] \in Stores
BY DEF Stores

LEMMA StoreTypes ==
  ASSUME NEW s \in Stores
  PROVE  /\ s.cap \in [Tokens -> Nat] /\ s.active \in [Tokens -> BOOLEAN]
         /\ s.claimed \in SUBSET Claims /\ s.used \in SUBSET Nonces
         /\ s.balance \in [Claims -> Nat] /\ s.supply \in [Tokens -> Nat]
         /\ s.signer \in Signers /\ s.owner \in Accounts
         /\ s.pending \in Accounts \cup {NoOwner}
BY DEF Stores

\* Balances are natural numbers after a badge is added or taken.
LEMMA BalanceTypes ==
  ASSUME NEW b \in [Claims -> Nat], NEW c \in Claims
  PROVE  /\ [b EXCEPT ![c] = b[c] + 1] \in [Claims -> Nat]
         /\ b[c] >= 1 => [b EXCEPT ![c] = b[c] - 1] \in [Claims -> Nat]
OBVIOUS

\* A badge that is added is the next one of its account, and the only one that is new.
LEMMA CreditedBadges ==
  ASSUME NEW b \in [Claims -> Nat], NEW t \in Tokens, NEW a \in Accounts
  PROVE  /\ \E x : x \notin Badges(b, t) /\ Badges(Credited(b, t, a), t) = Badges(b, t) \cup {x}
         /\ \A k \in Tokens : k # t => Badges(Credited(b, t, a), k) = Badges(b, k)
<1> DEFINE c == Credited(b, t, a)
<1>1. \A k \in Tokens, e \in Accounts : <<k, e>> \in Claims /\ b[<<k, e>>] \in Nat
  BY DEF Claims
<1>2. \A k \in Tokens, e \in Accounts :
        c[<<k, e>>] = IF k = t /\ e = a THEN b[<<t, a>>] + 1 ELSE b[<<k, e>>]
  BY <1>1 DEF Credited
<1>3. PICK n \in Nat : n = b[<<t, a>>]
  BY <1>1
<1> HIDE DEF c
<1>4. \A f, k, x : x \in Badges(f, k) <=> \E e \in Accounts : x \in {e} \X (1..f[<<k, e>>])
  BY Zenon DEF Badges
<1>5. <<a, n + 1>> \notin Badges(b, t)
  <2> SUFFICES ASSUME NEW e \in Accounts, <<a, n + 1>> \in {e} \X (1..b[<<t, e>>]) PROVE FALSE
    BY <1>4, Zenon
  <2>1. e = a /\ n + 1 \in 1..b[<<t, e>>]
    OBVIOUS
  <2> QED BY <1>3, <2>1
<1>6. {a} \X (1..(n + 1)) = ({a} \X (1..n)) \cup {<<a, n + 1>>}
  <2>1. 1..(n + 1) = (1..n) \cup {n + 1}
    OBVIOUS
  <2> QED BY <2>1
<1>7. ASSUME NEW x PROVE x \in Badges(c, t) <=> x \in Badges(b, t) \/ x = <<a, n + 1>>
  <2>1. c[<<t, a>>] = n + 1 /\ \A e \in Accounts : e # a => c[<<t, e>>] = b[<<t, e>>]
    BY <1>2, <1>3
  <2>2. x \in {a} \X (1..c[<<t, a>>]) <=> x \in {a} \X (1..b[<<t, a>>]) \/ x = <<a, n + 1>>
    BY <1>3, <1>6, <2>1
  <2>3. \A e \in Accounts : e # a => {e} \X (1..c[<<t, e>>]) = {e} \X (1..b[<<t, e>>])
    BY <2>1
  <2>4. x \in Badges(c, t) => x \in Badges(b, t) \/ x = <<a, n + 1>>
    <3> SUFFICES ASSUME NEW e \in Accounts, x \in {e} \X (1..c[<<t, e>>])
                 PROVE  x \in Badges(b, t) \/ x = <<a, n + 1>>
      BY <1>4, Zenon
    <3>1. CASE e = a
      BY <1>4, <2>2, <3>1, Zenon
    <3>2. CASE e # a
      BY <1>4, <2>3, <3>2, Zenon
    <3> QED BY <3>1, <3>2, Zenon
  <2>5. x = <<a, n + 1>> => x \in Badges(c, t)
    BY <1>4, <2>2, Zenon
  <2>6. x \in Badges(b, t) => x \in Badges(c, t)
    <3> SUFFICES ASSUME NEW e \in Accounts, x \in {e} \X (1..b[<<t, e>>])
                 PROVE  x \in Badges(c, t)
      BY <1>4, Zenon
    <3>1. CASE e = a
      BY <1>4, <2>2, <3>1, Zenon
    <3>2. CASE e # a
      BY <1>4, <2>3, <3>2, Zenon
    <3> QED BY <3>1, <3>2, Zenon
  <2> QED BY <2>4, <2>5, <2>6, Zenon
<1>8. ASSUME NEW k \in Tokens, k # t PROVE Badges(c, k) = Badges(b, k)
  <2>1. \A e \in Accounts : c[<<k, e>>] = b[<<k, e>>]
    BY <1>2, <1>8
  <2> QED BY <2>1 DEF Badges
<1>9. Badges(c, t) = Badges(b, t) \cup {<<a, n + 1>>}
  BY <1>7
<1> QED BY <1>5, <1>8, <1>9 DEF c

\* How the number of badges changes when one is added, and when one is taken.
LEMMA CreditedCount ==
  ASSUME NEW b \in [Claims -> Nat], NEW t \in Tokens, NEW a \in Accounts,
         \A k \in Tokens : IsFiniteSet(Badges(b, k))
  PROVE  \A k \in Tokens :
           /\ IsFiniteSet(Badges(Credited(b, t, a), k))
           /\ Cardinality(Badges(b, k)) \in Nat
           /\ Cardinality(Badges(Credited(b, t, a), k)) =
                IF k = t THEN Cardinality(Badges(b, k)) + 1 ELSE Cardinality(Badges(b, k))
<1>1. PICK x : x \notin Badges(b, t) /\ Badges(Credited(b, t, a), t) = Badges(b, t) \cup {x}
  BY CreditedBadges
<1>2. /\ IsFiniteSet(Badges(Credited(b, t, a), t))
      /\ Cardinality(Badges(Credited(b, t, a), t)) = Cardinality(Badges(b, t)) + 1
  BY <1>1, FS_AddElement
<1> QED BY <1>2, CreditedBadges, FS_CardinalityType

LEMMA DebitedCount ==
  ASSUME NEW b \in [Claims -> Nat], NEW t \in Tokens, NEW a \in Accounts, b[<<t, a>>] >= 1,
         \A k \in Tokens : IsFiniteSet(Badges(b, k))
  PROVE  \A k \in Tokens :
           /\ IsFiniteSet(Badges(Debited(b, t, a), k))
           /\ Cardinality(Badges(Debited(b, t, a), k)) =
                IF k = t THEN Cardinality(Badges(b, k)) - 1 ELSE Cardinality(Badges(b, k))
<1>0. PICK d : d = Debited(b, t, a)
  OBVIOUS
<1>1. <<t, a>> \in Claims
  BY DEF Claims
<1>2. d \in [Claims -> Nat]
  <2>1. [b EXCEPT ![<<t, a>>] = b[<<t, a>>] - 1] \in [Claims -> Nat]
    BY <1>1, BalanceTypes
  <2> QED BY <1>0, <2>1 DEF Debited
<1>3. Credited(d, t, a) = b
  <2>1. \A c \in Claims : d[c] = IF c = <<t, a>> THEN b[c] - 1 ELSE b[c]
    BY <1>0, <1>1 DEF Debited
  <2>2. d[<<t, a>>] + 1 = b[<<t, a>>]
    BY <1>1, <2>1
  <2> QED BY <1>1, <1>2, <2>1, <2>2 DEF Credited
<1>4. \A k \in Tokens : Badges(d, k) \subseteq Badges(b, k)
  BY <1>2, <1>3, CreditedBadges
<1>5. \A k \in Tokens : IsFiniteSet(Badges(d, k))
  BY <1>4, FS_Subset
<1>6. \A k \in Tokens :
        /\ Cardinality(Badges(d, k)) \in Nat
        /\ Cardinality(Badges(b, k)) =
             IF k = t THEN Cardinality(Badges(d, k)) + 1 ELSE Cardinality(Badges(d, k))
  BY <1>2, <1>3, <1>5, CreditedCount
<1> QED BY <1>0, <1>5, <1>6

\* The store that _claim leaves.
LEMMA ClaimStore ==
  ASSUME TypeOK, NEW x \in signed, Claimable(x)
  PROVE  /\ AfterClaim(x) \in Stores
         /\ AfterClaim(x).used = store.used \cup {x.nonce}
         /\ AfterClaim(x).claimed = store.claimed \cup {<<x.token, x.account>>}
         /\ AfterClaim(x).cap = store.cap
         /\ AfterClaim(x).balance = Credited(store.balance, x.token, x.account)
         /\ \A t \in Tokens : AfterClaim(x).supply[t] =
              IF t = x.token THEN store.supply[t] + 1 ELSE store.supply[t]
<1>1. /\ x.token \in Tokens /\ x.account \in Accounts /\ x.nonce \in Nonces
      /\ <<x.token, x.account>> \in Claims
  BY DEF TypeOK, Authorizations, Claims
<1>2. store \in Stores
  BY DEF TypeOK
<1>3. Credited(store.balance, x.token, x.account) \in [Claims -> Nat]
  BY <1>1, <1>2, StoreTypes, BalanceTypes DEF Credited
<1> DEFINE used == store.used \cup {x.nonce}
           claimed == store.claimed \cup {<<x.token, x.account>>}
           balance == Credited(store.balance, x.token, x.account)
           supply == [store.supply EXCEPT ![x.token] = store.supply[x.token] + 1]
<1>4. /\ supply \in [Tokens -> Nat]
      /\ \A t \in Tokens : supply[t] =
           IF t = x.token THEN store.supply[t] + 1 ELSE store.supply[t]
  BY <1>1, <1>2, StoreTypes
<1>5. used \in SUBSET Nonces /\ claimed \in SUBSET Claims
  BY <1>1, <1>2, StoreTypes
<1>6. AfterClaim(x) = [store EXCEPT !.used = used, !.claimed = claimed,
                                    !.balance = balance, !.supply = supply]
  BY DEF AfterClaim
<1>7. balance \in [Claims -> Nat]
  BY <1>3
<1> HIDE DEF used, claimed, balance, supply
<1>8. AfterClaim(x) \in Stores
  <2>1. [store EXCEPT !.used = used, !.claimed = claimed,
                      !.balance = balance, !.supply = supply] \in Stores
    BY <1>2, <1>4, <1>5, <1>7, StoreUpdates
  <2> QED BY <1>6, <2>1
<1>9. /\ AfterClaim(x).used = used /\ AfterClaim(x).claimed = claimed
      /\ AfterClaim(x).cap = store.cap /\ AfterClaim(x).supply = supply
      /\ AfterClaim(x).balance = balance
  BY <1>2, <1>6 DEF Stores
<1> QED BY <1>4, <1>8, <1>9 DEF used, claimed, balance

\* A claim keeps a sound store sound.
LEMMA ClaimSound ==
  ASSUME TypeOK, Sound(store, signed), NEW x \in signed, Claimable(x)
  PROVE  Sound(AfterClaim(x), signed) /\ Follows(store, AfterClaim(x))
<1> DEFINE after == AfterClaim(x)
           c == <<x.token, x.account>>
<1>1. /\ after \in Stores
      /\ after.used = store.used \cup {x.nonce}
      /\ after.claimed = store.claimed \cup {c}
      /\ after.cap = store.cap
      /\ after.balance = Credited(store.balance, x.token, x.account)
      /\ \A t \in Tokens : after.supply[t] =
           IF t = x.token THEN store.supply[t] + 1 ELSE store.supply[t]
  BY ClaimStore
<1>2. /\ store \in Stores /\ x.token \in Tokens /\ x.account \in Accounts
      /\ store.balance \in [Claims -> Nat]
      /\ store.supply \in [Tokens -> Nat] /\ store.cap \in [Tokens -> Nat]
  BY DEF TypeOK, Stores, Authorizations
<1>3. /\ c \notin store.claimed /\ x.nonce \notin store.used
      /\ store.supply[x.token] < store.cap[x.token]
  BY DEF Claimable
<1> HIDE DEF after
<1>4. \A t \in Tokens : after.supply[t] <= after.cap[t]
  BY <1>1, <1>2, <1>3 DEF Sound
<1>5. ASSUME NEW t \in Tokens
      PROVE  after.supply[t] = Cardinality(ClaimedOf(after, t))
  <2>1. IsFiniteSet(ClaimedOf(store, t))
    BY <1>2, FiniteBooks
  <2>2. CASE t = x.token
    <3>1. /\ ClaimedOf(after, t) = ClaimedOf(store, t) \cup {c}
          /\ c \notin ClaimedOf(store, t)
      BY <1>1, <1>3, <2>2 DEF ClaimedOf
    <3>2. Cardinality(ClaimedOf(after, t)) = Cardinality(ClaimedOf(store, t)) + 1
      BY <2>1, <3>1, FS_AddElement
    <3> QED BY <1>1, <2>2, <3>2 DEF Sound
  <2>3. CASE t # x.token
    <3>1. ClaimedOf(after, t) = ClaimedOf(store, t)
      BY <1>1, <2>3 DEF ClaimedOf
    <3> QED BY <1>1, <2>3, <3>1 DEF Sound
  <2> QED BY <2>2, <2>3
<1>6. Cardinality(after.used) = Cardinality(after.claimed)
  <2>1. IsFiniteSet(store.used) /\ IsFiniteSet(store.claimed)
    BY <1>2, FiniteBooks
  <2>2. Cardinality(store.used \cup {x.nonce}) = Cardinality(store.used) + 1
    BY <1>3, <2>1, FS_AddElement
  <2>3. Cardinality(store.claimed \cup {c}) = Cardinality(store.claimed) + 1
    BY <1>3, <2>1, FS_AddElement
  <2> QED BY <1>1, <2>2, <2>3 DEF Sound
<1>7. ASSUME NEW d \in after.claimed
      PROVE  \E y \in signed :
               y.token = d[1] /\ y.account = d[2] /\ y.nonce \in after.used
  <2>1. CASE d = c
    BY <1>1, <2>1
  <2>2. CASE d \in store.claimed
    BY <1>1, <2>2 DEF Sound
  <2> QED BY <1>1, <2>1, <2>2
<1>8. Follows(store, after)
  BY <1>1 DEF Follows
<1>9. ASSUME NEW t \in Tokens
      PROVE  /\ IsFiniteSet(Badges(after.balance, t))
             /\ after.supply[t] = Cardinality(Badges(after.balance, t))
  <2>1. \A k \in Tokens : /\ IsFiniteSet(Badges(store.balance, k))
                          /\ store.supply[k] = Cardinality(Badges(store.balance, k))
    BY DEF Sound
  <2> QED BY <1>1, <1>2, <2>1, CreditedCount
<1> QED BY <1>4, <1>5, <1>6, <1>7, <1>8, <1>9 DEF Sound, after

\* A transfer moves balances only.
LEMMA TransferStore ==
  ASSUME TypeOK, NEW t \in Tokens, NEW from \in Accounts, NEW to \in Accounts,
         store.balance[<<t, from>>] >= 1
  PROVE  /\ AfterTransfer(t, from, to) \in Stores
         /\ AfterTransfer(t, from, to).used = store.used
         /\ AfterTransfer(t, from, to).claimed = store.claimed
         /\ AfterTransfer(t, from, to).cap = store.cap
         /\ AfterTransfer(t, from, to).supply = store.supply
         /\ AfterTransfer(t, from, to).balance = Credited(Debited(store.balance, t, from), t, to)
         /\ Debited(store.balance, t, from) \in [Claims -> Nat]
<1>1. <<t, from>> \in Claims /\ <<t, to>> \in Claims /\ store \in Stores
  BY DEF Claims, TypeOK
<1>2. Debited(store.balance, t, from) \in [Claims -> Nat]
  <2>1. store.balance \in [Claims -> Nat]
    BY <1>1, StoreTypes
  <2>2. [store.balance EXCEPT ![<<t, from>>] = store.balance[<<t, from>>] - 1]
          \in [Claims -> Nat]
    BY <1>1, <2>1, BalanceTypes
  <2> QED BY <2>2 DEF Debited
<1>3. Credited(Debited(store.balance, t, from), t, to) \in [Claims -> Nat]
  BY <1>1, <1>2, BalanceTypes DEF Credited
<1>4. AfterTransfer(t, from, to) \in Stores
  BY <1>1, <1>3, StoreUpdates DEF AfterTransfer
<1> QED BY <1>1, <1>2, <1>4 DEF AfterTransfer, Stores

\* A transfer takes one badge and adds one, to the same account or another.
LEMMA TransferSound ==
  ASSUME TypeOK, Sound(store, signed), NEW t \in Tokens, NEW from \in Accounts,
         NEW to \in Accounts, store.balance[<<t, from>>] >= 1
  PROVE  Sound(AfterTransfer(t, from, to), signed) /\ Follows(store, AfterTransfer(t, from, to))
<1>1. PICK after, b, d : after = AfterTransfer(t, from, to) /\ b = store.balance
                         /\ d = Debited(b, t, from)
  OBVIOUS
<1>2. /\ after.used = store.used /\ after.claimed = store.claimed /\ after.cap = store.cap
      /\ after.supply = store.supply /\ after.balance = Credited(d, t, to)
      /\ d \in [Claims -> Nat]
  BY <1>1, TransferStore
<1>3. b \in [Claims -> Nat] /\ \A k \in Tokens : /\ IsFiniteSet(Badges(b, k))
                                               /\ store.supply[k] = Cardinality(Badges(b, k))
                                               /\ store.supply[k] \in Nat
  BY <1>1 DEF Sound, TypeOK, Stores
<1>4. \A k \in Tokens :
        /\ IsFiniteSet(Badges(d, k))
        /\ Cardinality(Badges(d, k)) =
             IF k = t THEN Cardinality(Badges(b, k)) - 1 ELSE Cardinality(Badges(b, k))
  BY <1>1, <1>3, DebitedCount
<1>5. \A k \in Tokens :
        /\ IsFiniteSet(Badges(after.balance, k))
        /\ Cardinality(Badges(after.balance, k)) = Cardinality(Badges(b, k))
  <2>1. \A k \in Tokens :
          /\ IsFiniteSet(Badges(Credited(d, t, to), k))
          /\ Cardinality(Badges(Credited(d, t, to), k)) =
                IF k = t THEN Cardinality(Badges(d, k)) + 1 ELSE Cardinality(Badges(d, k))
    BY <1>2, <1>4, CreditedCount
  <2> QED BY <1>2, <1>3, <1>4, <2>1
<1>6. \A k \in Tokens : ClaimedOf(after, k) = ClaimedOf(store, k)
  BY <1>2 DEF ClaimedOf
<1>7. Sound(after, signed)
  BY <1>2, <1>3, <1>5, <1>6 DEF Sound
<1>8. Follows(store, after)
  BY <1>2 DEF Follows
<1> QED BY <1>1, <1>7, <1>8

\* A store with the same books is as sound.
LEMMA SameBooks ==
  ASSUME NEW s \in Stores, NEW t \in Stores, NEW S,
         Sound(s, S), t.used = s.used, t.claimed = s.claimed,
         t.cap = s.cap, t.supply = s.supply, t.balance = s.balance
  PROVE  Sound(t, S) /\ Follows(s, t)
<1>1. \A k \in Tokens : ClaimedOf(t, k) = ClaimedOf(s, k)
  BY DEF ClaimedOf
<1> QED BY <1>1 DEF Sound, Follows

-----------------------------------------------------------------------------
(* Steps. *)

\* A call that ends in a sound store keeps the invariant, whether it returns
\* at once or waits for a callback; only a store that is not paused waits.
LEMMA Advance ==
  ASSUME IInv, NEW after \in Stores, Sound(after, signed), Follows(store, after),
         store.paused => after.balance = store.balance /\ after.supply = store.supply,
         store' = after, signed' = signed, expired' = expired,
         \/ frames' = frames
         \/ ~store.paused /\ frames' = Append(frames, store)
  PROVE  IInv' /\ Advancing
<1>0. Advancing
  BY DEF Advancing
<1>1. /\ store \in Stores /\ frames \in Seq(Stores)
      /\ Len(frames) \in Nat
      /\ \A i \in 1..Len(frames) : frames[i] \in Stores
  BY DEF IInv, TypeOK
<1>2. /\ store' \in Stores /\ frames' \in Seq(Stores)
  BY <1>1
<1>3. TypeOK' /\ Sound(store', signed')
  BY <1>2 DEF IInv, TypeOK
<1>4. \A i \in 1..Len(frames) : Follows(frames[i], after)
  BY <1>1, FollowsTransitive DEF IInv
<1>5. CASE frames' = frames
  BY <1>0, <1>3, <1>4, <1>5 DEF IInv
<1>6. CASE ~store.paused /\ frames' = Append(frames, store)
  <2>1. /\ Len(frames') = Len(frames) + 1
        /\ \A i \in 1..Len(frames) : frames'[i] = frames[i]
        /\ frames'[Len(frames) + 1] = store
    BY <1>1, <1>6
  <2>2. ASSUME NEW i \in 1..Len(frames')
        PROVE  /\ Sound(frames'[i], signed')
               /\ ~frames'[i].paused
               /\ Follows(frames'[i], store')
               /\ \A j \in i..Len(frames') : Follows(frames'[i], frames'[j])
    <3>1. CASE i = Len(frames) + 1
      BY <1>1, <1>6, <2>1, <3>1, FollowsSelf DEF IInv
    <3>2. CASE i \in 1..Len(frames)
      <4>1. Sound(frames[i], signed) /\ ~frames[i].paused
        BY <3>2 DEF IInv
      <4>2. ASSUME NEW j \in i..Len(frames')
            PROVE  Follows(frames[i], frames'[j])
        <5>1. CASE j = Len(frames) + 1
          BY <2>1, <3>2, <5>1 DEF IInv
        <5>2. CASE j \in i..Len(frames)
          BY <1>1, <2>1, <3>2, <5>2 DEF IInv
        <5> QED BY <1>1, <2>1, <5>1, <5>2
      <4> QED BY <1>4, <2>1, <3>2, <4>1, <4>2
    <3> QED BY <1>1, <2>1, <3>1, <3>2
  <2> QED BY <1>0, <1>3, <2>2 DEF IInv
<1> QED BY <1>0, <1>5, <1>6

\* The innermost call ends; the store is kept or goes back.
LEMMA Unwind ==
  ASSUME IInv, frames # << >>, signed' = signed, expired' = expired,
         frames' = SubSeq(frames, 1, Len(frames) - 1),
         store' \in {store, frames[Len(frames)]}
  PROVE  IInv' /\ Unwinding
<1>0. Unwinding
  BY DEF Unwinding
<1>1. /\ store \in Stores /\ frames \in Seq(Stores)
      /\ Len(frames) \in Nat \ {0}
      /\ \A i \in 1..Len(frames) : frames[i] \in Stores
  BY DEF IInv, TypeOK
<1>2. /\ frames' \in Seq(Stores) /\ Len(frames') = Len(frames) - 1
      /\ \A i \in 1..Len(frames') : frames'[i] = frames[i]
  <2> DEFINE n == Len(frames) - 1
  <2>1. n \in Nat /\ n <= Len(frames)
    BY <1>1
  <2>2. /\ frames' = [i \in 1..n |-> frames[i]]
        /\ frames' \in Seq(Stores)
    BY <1>1, <2>1
  <2> HIDE DEF n
  <2>3. Len(frames') = n
    BY <2>1, <2>2
  <2> QED BY <2>2, <2>3 DEF n
<1>3. TypeOK' /\ Sound(store', signed')
  BY <1>1, <1>2 DEF IInv, TypeOK
<1>4. \A i \in 1..Len(frames') : i \in 1..Len(frames) /\ Len(frames) \in i..Len(frames)
  BY <1>1, <1>2
<1>5. \A i \in 1..Len(frames') : Follows(frames[i], store')
  BY <1>1, <1>2, <1>4 DEF IInv
<1>6. \A i \in 1..Len(frames') : \A j \in i..Len(frames') : j \in i..Len(frames)
                                     /\ j \in 1..Len(frames')
  BY <1>1, <1>2
<1> QED BY <1>0, <1>2, <1>3, <1>4, <1>5, <1>6 DEF IInv

\* An owner's call that leaves the books alone.
LEMMA Administer ==
  ASSUME IInv, NEW after \in Stores, after.used = store.used,
         after.claimed = store.claimed, after.cap = store.cap,
         after.supply = store.supply, after.balance = store.balance,
         store' = after, UNCHANGED <<frames, signed, expired>>
  PROVE  IInv' /\ Advancing
<1>1. store \in Stores /\ Sound(store, signed)
  BY DEF IInv, TypeOK
<1>2. Sound(after, signed) /\ Follows(store, after)
  BY <1>1, SameBooks
<1> QED BY <1>2, Advance

\* A new event had no cap, so it had no badges either.
LEMMA CreateEventStep ==
  ASSUME IInv, NEW t \in Tokens, NEW cap \in Caps, CreateEvent(t, cap)
  PROVE  IInv' /\ Advancing
<1> DEFINE caps == [store.cap EXCEPT ![t] = cap]
           actives == [store.active EXCEPT ![t] = TRUE]
           after == [store EXCEPT !.cap = caps, !.active = actives]
<1>1. store \in Stores /\ Sound(store, signed)
  BY DEF IInv, TypeOK
<1>2. store.supply \in [Tokens -> Nat] /\ store.cap \in [Tokens -> Nat]
  BY <1>1, StoreTypes
<1>3. /\ caps \in [Tokens -> Nat] /\ actives \in [Tokens -> BOOLEAN]
      /\ \A k \in Tokens : caps[k] = IF k = t THEN cap ELSE store.cap[k]
      /\ cap \in Nat
  BY <1>1, StoreTypes, CapsPositive
<1>4. /\ store.cap[t] = 0 /\ store' = after
      /\ UNCHANGED <<frames, signed, expired>>
  BY DEF CreateEvent, OwnerCall
<1> HIDE DEF caps, actives
<1>5. after \in Stores
  BY <1>1, <1>3, StoreUpdates
<1>6. /\ after.used = store.used /\ after.claimed = store.claimed
      /\ after.supply = store.supply /\ after.cap = caps
      /\ after.balance = store.balance
  BY <1>1 DEF Stores
<1> HIDE DEF after
<1>7. Follows(store, after)
  BY <1>3, <1>4, <1>6 DEF Follows
<1>8. \A k \in Tokens : after.supply[k] <= after.cap[k]
  BY <1>1, <1>2, <1>3, <1>4, <1>6 DEF Sound
<1>9. \A k \in Tokens : ClaimedOf(after, k) = ClaimedOf(store, k)
  BY <1>6 DEF ClaimedOf
<1>10. Sound(after, signed)
  BY <1>1, <1>6, <1>8, <1>9 DEF Sound
<1> QED BY <1>4, <1>5, <1>6, <1>7, <1>10, Advance

\* Signing only adds authorizations.
LEMMA SignStep ==
  ASSUME IInv, NEW x \in Authorizations, Sign(x)
  PROVE  IInv' /\ Advancing
<1>1. /\ signed' = signed \cup {x} /\ UNCHANGED <<store, frames, expired>>
  BY DEF Sign
<1>2. \A s : Sound(s, signed) => Sound(s, signed')
  BY <1>1 DEF Sound
<1>3. TypeOK'
  BY <1>1 DEF IInv, TypeOK
<1>4. Advancing
  BY <1>1, FollowsSelf DEF Advancing
<1> QED BY <1>1, <1>2, <1>3, <1>4 DEF IInv

LEMMA InitIInv == Init => IInv
<1> SUFFICES ASSUME Init PROVE IInv
  OBVIOUS
<1>1. store \in Stores
  BY OwnerAndSigner DEF Init, Stores
<1>2. TypeOK
  BY <1>1 DEF Init, TypeOK
<1>3. Sound(store, signed)
  <2>1. Cardinality({}) = 0
    BY FS_EmptySet
  <2>2. \A t \in Tokens : ClaimedOf(store, t) = {}
    BY DEF Init, ClaimedOf
  <2>3. /\ store.used = {} /\ store.claimed = {}
        /\ \A t \in Tokens : store.supply[t] = 0 /\ store.cap[t] = 0
    BY DEF Init
  <2>4. \A t \in Tokens : Badges(store.balance, t) = {}
    <3>1. 1..0 = {} /\ \A t \in Tokens, a \in Accounts : store.balance[<<t, a>>] = 0
      BY DEF Init, Claims
    <3> QED BY <3>1 DEF Badges
  <2>5. IsFiniteSet({})
    BY FS_EmptySet
  <2>6. \A t \in Tokens : /\ IsFiniteSet(Badges(store.balance, t))
                        /\ store.supply[t] = Cardinality(Badges(store.balance, t))
    BY <2>1, <2>3, <2>4, <2>5
  <2> QED BY <2>1, <2>2, <2>3, <2>6 DEF Sound
<1> QED BY <1>2, <1>3 DEF Init, IInv

LEMMA Step ==
  ASSUME IInv, [Next]_vars
  PROVE  IInv' /\ (Advancing \/ Unwinding)
<1> USE DEF OwnerCall
<1>1. TypeOK /\ store \in Stores /\ Sound(store, signed)
  BY DEF IInv, TypeOK
<1>2. ASSUME NEW x \in signed, Claim(x) PROVE IInv' /\ Advancing
  <2>1. AfterClaim(x) \in Stores
    BY <1>1, <1>2, ClaimStore DEF Claim
  <2>2. Sound(AfterClaim(x), signed) /\ Follows(store, AfterClaim(x))
    BY <1>1, <1>2, ClaimSound DEF Claim
  <2>3. ~store.paused /\ Deliver(x.account, AfterClaim(x))
    BY <1>2 DEF Claim, Claimable
  <2> QED BY <2>1, <2>2, <2>3, Advance DEF Deliver
<1>3. ASSUME NEW t \in Tokens, NEW from \in Accounts, NEW to \in Accounts,
             Transfer(t, from, to)
      PROVE  IInv' /\ Advancing
  <2>1. /\ ~store.paused /\ store.balance[<<t, from>>] >= 1
        /\ Deliver(to, AfterTransfer(t, from, to))
    BY <1>3 DEF Transfer
  <2> DEFINE after == AfterTransfer(t, from, to)
  <2>2. /\ after \in Stores /\ after.used = store.used
        /\ after.claimed = store.claimed /\ after.cap = store.cap
        /\ after.supply = store.supply
    BY <1>1, <2>1, TransferStore
  <2>3. Sound(after, signed) /\ Follows(store, after)
    BY <1>1, <2>1, TransferSound
  <2> HIDE DEF after
  <2> QED BY <2>1, <2>2, <2>3, Advance DEF Deliver, after
<1>4. CASE Return
  BY <1>4, Unwind DEF Return
<1>5. CASE Revert
  BY <1>5, Unwind DEF Revert
<1>6. ASSUME NEW t \in Tokens, NEW cap \in Caps, CreateEvent(t, cap) PROVE IInv' /\ Advancing
  BY <1>6, CreateEventStep
<1>7. ASSUME NEW t \in Tokens, NEW on \in BOOLEAN, SetEventActive(t, on)
      PROVE  IInv' /\ Advancing
  <2> DEFINE actives == [store.active EXCEPT ![t] = on]
             after == [store EXCEPT !.active = actives]
  <2>1. actives \in [Tokens -> BOOLEAN]
    BY <1>1, StoreTypes
  <2>2. store' = after /\ UNCHANGED <<frames, signed, expired>>
    BY <1>7 DEF SetEventActive
  <2> HIDE DEF actives
  <2>3. after \in Stores
    BY <1>1, <2>1, StoreUpdates
  <2>4. /\ after.used = store.used /\ after.claimed = store.claimed
        /\ after.cap = store.cap /\ after.supply = store.supply
        /\ after.balance = store.balance
    BY <1>1 DEF Stores
  <2> QED BY <2>2, <2>3, <2>4, Administer
<1>8. ASSUME NEW s \in Signers, SetClaimSigner(s) PROVE IInv' /\ Advancing
  <2> DEFINE after == [store EXCEPT !.signer = s]
  <2>1. /\ after \in Stores
        /\ after.used = store.used /\ after.claimed = store.claimed
        /\ after.cap = store.cap /\ after.supply = store.supply
        /\ after.balance = store.balance
    <3>1. after \in Stores
      BY <1>1, StoreUpdates
    <3> QED BY <1>1, <3>1 DEF Stores
  <2> QED BY <1>8, <2>1, Administer DEF SetClaimSigner
<1>9. ASSUME Pause \/ Unpause PROVE IInv' /\ Advancing
  <2> PICK p \in BOOLEAN : OwnerCall([store EXCEPT !.paused = p])
    BY <1>9 DEF Pause, Unpause
  <2> DEFINE after == [store EXCEPT !.paused = p]
  <2>1. /\ after \in Stores
        /\ after.used = store.used /\ after.claimed = store.claimed
        /\ after.cap = store.cap /\ after.supply = store.supply
        /\ after.balance = store.balance
    <3>1. after \in Stores
      BY <1>1, StoreUpdates
    <3> QED BY <1>1, <3>1 DEF Stores
  <2> QED BY <2>1, Administer
<1>10. ASSUME NEW a \in Accounts \cup {NoOwner}, TransferOwnership(a) PROVE IInv' /\ Advancing
  <2> DEFINE after == [store EXCEPT !.pending = a]
  <2>1. /\ after \in Stores
        /\ after.used = store.used /\ after.claimed = store.claimed
        /\ after.cap = store.cap /\ after.supply = store.supply
        /\ after.balance = store.balance
    <3>1. after \in Stores
      BY <1>1, StoreUpdates
    <3> QED BY <1>1, <3>1 DEF Stores
  <2> QED BY <1>10, <2>1, Administer DEF TransferOwnership
<1>11. CASE AcceptOwnership
  <2> DEFINE after == [store EXCEPT !.owner = store.pending, !.pending = NoOwner]
  <2>1. store.pending \in Accounts
    BY <1>1, <1>11, StoreTypes DEF AcceptOwnership
  <2>2. /\ after \in Stores
        /\ after.used = store.used /\ after.claimed = store.claimed
        /\ after.cap = store.cap /\ after.supply = store.supply
        /\ after.balance = store.balance
    <3>1. after \in Stores
      BY <1>1, <2>1, StoreUpdates
    <3> QED BY <1>1, <3>1 DEF Stores
  <2> QED BY <1>11, <2>2, Administer DEF AcceptOwnership
<1>12. ASSUME NEW x \in Authorizations, Sign(x) PROVE IInv' /\ Advancing
  BY <1>12, SignStep
<1>13. ASSUME NEW x \in signed \ expired, Expire(x) PROVE IInv' /\ Advancing
  <2>1. IInv'
    BY <1>1, <1>13 DEF Expire, IInv, TypeOK
  <2> QED BY <1>13, <2>1, FollowsSelf DEF Expire, Advancing
<1>14. CASE UNCHANGED vars
  <2>1. IInv' /\ Advancing
    <3>1. IInv'
      BY <1>14 DEF vars, IInv, TypeOK
    <3> QED BY <1>14, <3>1, FollowsSelf DEF vars, Advancing
  <2> QED BY <2>1
<1> QED
  BY <1>2, <1>3, <1>4, <1>5, <1>6, <1>7, <1>8, <1>9, <1>10, <1>11, <1>12,
     <1>13, <1>14
  DEF Next, Holding, Administration, Outside

-----------------------------------------------------------------------------
(* Theorems. *)

\* IInv is an invariant: every store that is in force, or that a revert of a
\* running call may bring back, is sound.
THEOREM Invariance == Spec => []IInv
<1>1. IInv /\ [Next]_vars => IInv'
  BY Step
<1> QED BY <1>1, InitIInv, PTL DEF Spec

\* TypeOK: in particular no balance is ever overdrawn.
THEOREM TypeCorrect == Spec => []TypeOK
<1>1. IInv => TypeOK
  BY DEF IInv
<1> QED BY <1>1, Invariance, PTL

\* CapHeld, for any number of events and accounts and any depth of callbacks.
THEOREM CapAlwaysHeld == Spec => []CapHeld
<1>1. IInv => CapHeld
  BY DEF IInv, Sound, CapHeld
<1> QED BY <1>1, Invariance, PTL

\* SupplyCountsClaims: every badge is some account's only claim of its event.
THEOREM OneBadgePerClaim == Spec => []SupplyCountsClaims
<1>1. IInv => SupplyCountsClaims
  BY DEF IInv, Sound, SupplyCountsClaims
<1> QED BY <1>1, Invariance, PTL

\* BalancesAddUp: a badge is neither lost nor made by moving it, nor by undoing it.
THEOREM BadgesAddUp == Spec => []BalancesAddUp
<1>1. IInv => BalancesAddUp
  BY DEF IInv, Sound, BalancesAddUp
<1> QED BY <1>1, Invariance, PTL

\* ClaimsSpendTheirNonce: badges and signed authorizations match one to one.
THEOREM OneNoncePerClaim == Spec => []ClaimsSpendTheirNonce
<1>1. IInv => ClaimsSpendTheirNonce
  BY DEF IInv, Sound, ClaimsSpendTheirNonce, SignedFor
<1> QED BY <1>1, Invariance, PTL

\* PauseFreezes: a store that a revert brings back while the contract is
\* paused is not paused, and no other step moves badges then.
THEOREM PauseStopsBadges == Spec => PauseFreezes
<1>1. ASSUME IInv, [Next]_vars
      PROVE  store.paused /\ store'.paused =>
               store'.balance = store.balance /\ store'.supply = store.supply
  <2>1. CASE Advancing
    BY <2>1 DEF Advancing
  <2>2. CASE Unwinding
    <3>1. Len(frames) \in 1..Len(frames)
      BY <1>1, <2>2 DEF Unwinding, IInv, TypeOK
    <3> QED BY <1>1, <2>2, <3>1 DEF Unwinding, IInv
  <2> QED BY <1>1, <2>1, <2>2, Step
<1> QED BY <1>1, Invariance, PTL DEF Spec, PauseFreezes

\* CommittedForever: no revert reaches behind the start of its transaction.
THEOREM CommitsAreFinal == Spec => CommittedForever
<1>1. ASSUME IInv, [Next]_vars
      PROVE  Follows(Committed, Committed')
  <2>1. store \in Stores /\ frames \in Seq(Stores)
    BY <1>1 DEF IInv, TypeOK
  <2>5. Len(frames) \in Nat
    BY <2>1
  <2>6. frames # << >> => Len(frames) # 0
    BY <2>1
  <2>2. CASE Advancing /\ frames' = frames
    BY <2>2, FollowsSelf DEF Advancing, Committed
  <2>3. CASE frames' = Append(frames, store)
    <3>1. frames' # << >> /\ frames'[1] = IF frames = << >> THEN store ELSE frames[1]
      BY <2>1, <2>3
    <3> QED BY <3>1, FollowsSelf DEF Committed
  <2>4. CASE Unwinding
    <3>1. CASE Len(frames) = 1
      <4>1. frames' = << >> /\ frames # << >>
        BY <2>1, <2>4, <3>1 DEF Unwinding
      <4>2. Follows(frames[1], store) /\ store' \in {store, frames[1]}
        BY <1>1, <2>4, <3>1 DEF Unwinding, IInv
      <4> QED BY <4>1, <4>2, FollowsSelf DEF Committed
    <3>2. CASE Len(frames) # 1
      <4>1. frames' # << >> /\ frames # << >> /\ frames'[1] = frames[1]
        <5>1. frames # << >> /\ frames' = SubSeq(frames, 1, Len(frames) - 1)
          BY <2>4 DEF Unwinding
        <5>2. Len(frames) - 1 \in Nat \ {0}
          BY <2>5, <2>6, <3>2, <5>1
        <5>3. frames' = [i \in 1..(Len(frames) - 1) |-> frames[i]]
          BY <2>1, <5>1, <5>2
        <5> DEFINE n == Len(frames) - 1
        <5>6. n \in Nat \ {0} /\ frames' = [i \in 1..n |-> frames[i]]
          BY <5>2, <5>3
        <5> HIDE DEF n
        <5>4. frames'[1] = frames[1] /\ Len(frames') # 0
          <6>1. Len(frames') = n
            BY <5>6
          <6>2. 1 \in 1..n
            BY <5>6
          <6> QED BY <5>6, <6>1, <6>2
        <5>5. frames' # << >>
          BY <5>4
        <5> QED BY <5>1, <5>4, <5>5
      <4> QED BY <4>1, FollowsSelf DEF Committed
    <3> QED BY <3>1, <3>2
  <2> QED BY <1>1, <2>2, <2>3, <2>4, Step DEF Advancing
<1>2. ASSUME IInv, [Next]_vars
      PROVE  [/\ Committed.claimed \subseteq Committed'.claimed
              /\ Committed.used \subseteq Committed'.used
              /\ \A t \in Tokens :
                   Committed.cap[t] # 0 =>
                     Committed'.cap[t] = Committed.cap[t]]_vars
  BY <1>1, <1>2 DEF Follows
<1> QED BY <1>2, Invariance, PTL DEF Spec, CommittedForever
=============================================================================
