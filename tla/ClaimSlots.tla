------------------------------ MODULE ClaimSlots ------------------------------
(***************************************************************************)
(* The claim slots of one live event: the rows of live_claim_codes that     *)
(* share one access code, and the requests that give them out.              *)
(*                                                                          *)
(* A slot is taken in two ways.  A wallet claims it with the code (POST     *)
(* /claims), or a verified Email reserves it (POST /email/verify) and binds *)
(* a wallet to it later (POST /bind).  When the wallet of an Email's Magic  *)
(* identity also claimed with the code, the reservation is moved to that    *)
(* slot (reconcileEmailReservationsForWallet).                              *)
(*                                                                          *)
(* Every statement and every D1 batch is one step; a handler that reads,    *)
(* waits and writes takes several, keeps what it read in `req`, and may     *)
(* stop between any two.  The unique indexes of the table are not assumed:  *)
(* OneSlotEach says that no statement would trip them, except bind's, which *)
(* expects to.                                                              *)
(*                                                                          *)
(* Left out: authorization deadlines (MintRelay has them), session cookies, *)
(* rate limits and the other events of the table.                           *)
(***************************************************************************)
EXTENDS Integers, FiniteSets, FiniteSetsExt

CONSTANTS
  NumSlots,    \* slots of the event, in the order of their code_hash
  Wallets,
  Emails,
  Challenges,  \* magic links; a reservation has the id of its challenge
  Requests,    \* requests that may be running at once
  None,        \* NULL
  MaxNonces    \* bound: mint nonces drawn by randomBytes32

ASSUME SlotsAssumption == NumSlots \in Nat \ {0} /\ MaxNonces \in Nat
ASSUME NoneAssumption == None \notin Wallets \cup Emails \cup Challenges
ASSUME FiniteAssumption == IsFiniteSet(Wallets) /\ IsFiniteSet(Emails)

VARIABLES
  slot,       \* live_claim_codes
  link,       \* live_email_challenges
  sessions,   \* live_email_sessions, counted per magic link
  identity,   \* live_magic_email_identities
  open,       \* published, and within the claim window
  jobs,       \* live_mint_jobs, as their idempotency keys
  signed,     \* mint authorizations given out
  onchain,    \* hasClaimed and usedNonces of the event's token
  drawn,      \* mint nonces drawn so far
  req         \* the running requests and what they read

db == <<slot, link, sessions, identity, jobs>>
vars == <<slot, link, sessions, identity, open, jobs, signed, onchain, drawn, req>>

Slots == 1..NumSlots
Nonces == 1..MaxNonces
Grants == [wallet : Wallets, nonce : Nonces]

SlotRows ==
  [ holder : Wallets \cup {None},            \* claimed_by
    nonce : {0} \cup Nonces,                 \* mint_nonce, 0 for NULL
    minted : BOOLEAN,                        \* minted_tx_hash IS NOT NULL
    reservation : Challenges \cup {None},    \* reservation_id
    email : Emails \cup {None} ]             \* reserved_email_hmac

LinkRows == [state : {"unsent", "sent", "consumed", "expired"},
             email : Emails \cup {None}]

\* A request between two of its statements.
Idle == [at |-> "idle"]
RequestStates ==
  {Idle}
    \cup [at : {"verified", "reserved"}, link : Challenges]
    \cup [at : {"unbound"}, link : Challenges, email : Emails, wallet : Wallets]
    \cup [at : {"claimed"}, wallet : Wallets, nonce : {0} \cup Nonces]
    \cup [at : {"identified"}, wallet : Wallets, nonce : {0} \cup Nonces,
          email : Emails]
    \cup [at : {"moving"}, wallet : Wallets, nonce : {0} \cup Nonces,
          email : Emails, link : Challenges, from : Slots, to : Slots]
    \cup [at : {"relaying"}, slot : Slots, grant : Grants]

TypeOK ==
  /\ slot \in [Slots -> SlotRows]
  /\ \A s \in Slots : /\ (slot[s].reservation = None) = (slot[s].email = None)
                      /\ (slot[s].holder = None) = (slot[s].nonce = 0)
  /\ link \in [Challenges -> LinkRows]
  /\ sessions \in [Challenges -> Nat]
  /\ identity \in [Emails -> Wallets \cup {None}]
  /\ open \in BOOLEAN
  /\ jobs \subseteq [slot : Slots, grant : Grants]
  /\ signed \subseteq Grants
  /\ onchain \subseteq Grants
  /\ drawn \in 0..MaxNonces
  /\ req \in [Requests -> RequestStates]

-----------------------------------------------------------------------------
(* Queries. *)

Free(s) == slot[s].holder = None /\ slot[s].reservation = None

\* ORDER BY code_hash LIMIT 1.
FirstFree(s) == Free(s) /\ \A r \in 1..(s - 1) : ~Free(r)

HeldBy(w) == {s \in Slots : slot[s].holder = w}
ReservedFor(e) == {s \in Slots : slot[s].email = e}

\* The row of a reservation, as its owner sees it.
Reservation(c, e) ==
  {s \in Slots : slot[s].reservation = c /\ slot[s].email = e}

\* Mistake: a slot that has a reservation already is moved onto as well.
ToReconcileOnto(w, e, from, to) ==
  /\ slot[to].holder = w
  /\ slot[from].email = e /\ slot[from].reservation # None
  /\ from # to

\* The rows that reconcileEmailReservationsForWallet joins.
ToReconcile(w, e, from, to) ==
  /\ slot[to].holder = w
  /\ slot[from].email = e /\ slot[from].reservation # None
  /\ from # to
  /\ slot[to].reservation = None

-----------------------------------------------------------------------------
(* Requests. *)

Runs(r, state) == req' = [req EXCEPT ![r] = state]

\* A nonce nobody has: randomBytes32.
DrawNonce == drawn < MaxNonces /\ drawn' = drawn + 1

\* POST /email-reservations mails a link while a slot is free.
SendLink(c, e) ==
  /\ open /\ link[c].state = "unsent"
  /\ \E s \in Slots : Free(s)
  /\ link' = [link EXCEPT ![c] = [state |-> "sent", email |-> e]]
  /\ UNCHANGED <<slot, sessions, identity, open, jobs, signed, onchain, drawn, req>>

\* POST /email/verify: the link is valid.
OpenLink(r, c) ==
  /\ req[r].at = "idle" /\ link[c].state = "sent"
  /\ Runs(r, [at |-> "verified", link |-> c])
  /\ UNCHANGED <<db, open, signed, onchain, drawn>>

\* Mistake: an Email that has a slot of the event may take another.
MayReserveAgain(s, e) == open /\ FirstFree(s)

\* The WHERE clause of reserveClaimForVerifiedEmail.
MayReserve(s, e) == open /\ FirstFree(s) /\ ReservedFor(e) = {}

\* reserveClaimForVerifiedEmail; the request goes on with the Email's
\* reservation of this event, whichever link made it, or fails without one.
Reserve(r) ==
  LET c == req[r].link  e == link[c].email
  IN  /\ req[r].at = "verified"
      /\ \/ \E s \in Slots :
              /\ MayReserve(s, e)
              /\ slot' = [slot EXCEPT ![s].reservation = c, ![s].email = e]
         \/ (\A s \in Slots : ~MayReserve(s, e)) /\ UNCHANGED slot
      /\ Runs(r, IF \E s \in Slots : slot'[s].email = e
                 THEN [at |-> "reserved", link |-> c] ELSE Idle)
      /\ UNCHANGED <<link, sessions, identity, open, jobs, signed, onchain, drawn>>

\* Mistake: the session is inserted whether or not the link is used up.
LinkValidAlways(c) == link[c].state \in {"sent", "consumed"}

LinkValid(c) == link[c].state = "sent"

\* consumeChallengeAndCreateSession, one batch.
ConsumeLink(r) ==
  LET c == req[r].link
  IN  /\ req[r].at = "reserved"
      /\ IF LinkValid(c)
         THEN /\ sessions' = [sessions EXCEPT ![c] = sessions[c] + 1]
              /\ link' = [link EXCEPT ![c].state = "consumed"]
         ELSE UNCHANGED <<sessions, link>>
      /\ Runs(r, Idle)
      /\ UNCHANGED <<slot, identity, open, jobs, signed, onchain, drawn>>

\* The authorization that a response carries for a claim that is not minted.
SignFor(s) ==
  signed' = signed \cup
    (IF slot'[s].minted \/ slot'[s].holder = None THEN {}
     ELSE {[wallet |-> slot'[s].holder, nonce |-> slot'[s].nonce]})

\* requireEmailSession: opened by a link, or by a Magic login.
HasSession(e) ==
  identity[e] # None \/ \E c \in Challenges : link[c].email = e /\ sessions[c] > 0

\* POST /bind by the session of Email e.  A reservation bound to this wallet
\* only has its authorization renewed; one that is bound to none is noted.
ReadForBind(r, c, e, w) ==
  /\ req[r].at = "idle" /\ HasSession(e)
  /\ \E s \in Reservation(c, e) :
       \/ /\ slot[s].holder = w
          /\ UNCHANGED <<slot, req>> /\ SignFor(s)
       \/ /\ slot[s].holder = None
          /\ Runs(r, [at |-> "unbound", link |-> c, email |-> e, wallet |-> w])
          /\ UNCHANGED <<slot, signed>>
  /\ UNCHANGED <<link, sessions, identity, open, jobs, onchain, drawn>>

\* The WHERE clause of bindEmailReservationWallet.
MayBind(s, w) == ~slot[s].minted /\ slot[s].holder \in {None, w}

\* bindEmailReservationWallet: one claim per wallet is left to the unique
\* index, whose error is a 409.  The row is read back and signed for.
Bind(r) ==
  LET q == req[r]
  IN  /\ q.at = "unbound"
      /\ DrawNonce
      /\ \/ \E s \in Reservation(q.link, q.email) :
              /\ MayBind(s, q.wallet)
              /\ HeldBy(q.wallet) \subseteq {s}
              /\ slot' = [slot EXCEPT ![s].holder = q.wallet, ![s].nonce = drawn']
              /\ SignFor(s)
         \/ \E s \in Reservation(q.link, q.email) :
              /\ ~MayBind(s, q.wallet)
              /\ UNCHANGED slot /\ SignFor(s)
         \/ /\ \/ Reservation(q.link, q.email) = {}
               \/ ~(HeldBy(q.wallet) \subseteq Reservation(q.link, q.email))
            /\ UNCHANGED <<slot, signed>>
      /\ Runs(r, Idle)
      /\ UNCHANGED <<link, sessions, identity, open, jobs, onchain>>

\* The WHERE clause of reserveLiveClaim.
MayClaim(s, w) == open /\ FirstFree(s) /\ HeldBy(w) = {}

\* POST /claims: the wallet's own slot, or the first free one.  The request
\* notes the nonce to sign for, 0 if the claim is minted already.
Claim(r, w) ==
  /\ req[r].at = "idle"
  /\ \/ \E s \in HeldBy(w) :
          /\ Runs(r, [at |-> "claimed", wallet |-> w,
                      nonce |-> IF slot[s].minted THEN 0 ELSE slot[s].nonce])
          /\ UNCHANGED <<slot, drawn>>
     \/ \E s \in Slots :
          /\ MayClaim(s, w)
          /\ DrawNonce
          /\ slot' = [slot EXCEPT ![s].holder = w, ![s].nonce = drawn']
          /\ Runs(r, [at |-> "claimed", wallet |-> w, nonce |-> drawn'])
  /\ UNCHANGED <<link, sessions, identity, open, jobs, signed, onchain>>

\* The request is over; a claim that is not minted is signed for.
Answer(r) ==
  /\ signed' = IF req[r].nonce = 0 THEN signed
               ELSE signed \cup {[wallet |-> req[r].wallet, nonce |-> req[r].nonce]}
  /\ Runs(r, Idle)

\* POST /claims goes on with the Email of the wallet's Magic identity.
FindIdentity(r) ==
  LET w == req[r].wallet
  IN  /\ req[r].at = "claimed"
      /\ \/ \E e \in Emails :
              /\ identity[e] = w
              /\ Runs(r, [at |-> "identified", wallet |-> w,
                          nonce |-> req[r].nonce, email |-> e])
              /\ UNCHANGED signed
         \/ w \notin {identity[e] : e \in Emails} /\ Answer(r)
      /\ UNCHANGED <<db, open, onchain, drawn>>

\* POST /magic/session: the identity is recorded, once per Email and wallet.
RecordIdentity(r, e, w) ==
  /\ req[r].at = "idle"
  /\ identity[e] \in {None, w}
  /\ \A f \in Emails \ {e} : identity[f] # w
  /\ identity' = [identity EXCEPT ![e] = w]
  /\ Runs(r, [at |-> "identified", wallet |-> w, nonce |-> 0, email |-> e])
  /\ UNCHANGED <<slot, link, sessions, open, jobs, signed, onchain, drawn>>

\* reconcileEmailReservationsForWallet, its query.
ReadReconcile(r) ==
  LET q == req[r]
  IN  /\ q.at = "identified"
      /\ \/ \E from, to \in Slots :
              /\ ToReconcile(q.wallet, q.email, from, to)
              /\ Runs(r, [at |-> "moving", wallet |-> q.wallet, nonce |-> q.nonce,
                          email |-> q.email, link |-> slot[from].reservation,
                          from |-> from, to |-> to])
              /\ UNCHANGED signed
         \/ /\ \A from, to \in Slots : ~ToReconcile(q.wallet, q.email, from, to)
            /\ Answer(r)
      /\ UNCHANGED <<db, open, onchain, drawn>>

\* Mistake: only the Email is cleared.
ReleasedHalf(row, q) ==
  IF row.reservation = q.link /\ row.email = q.email
  THEN [row EXCEPT !.email = None] ELSE row

\* Mistake: clearing the reservation gives up the claim as well.
ReleasedWithClaim(row, q) ==
  IF row.reservation = q.link /\ row.email = q.email
  THEN [row EXCEPT !.reservation = None, !.email = None,
                   !.holder = None, !.nonce = 0]
  ELSE row

\* Its first statement clears the reservation if it is still the one read.
Released(row, q) ==
  IF row.reservation = q.link /\ row.email = q.email
  THEN [row EXCEPT !.reservation = None, !.email = None] ELSE row

\* Its second statement attaches it to the wallet's slot.
Attached(row, q) ==
  IF row.holder = q.wallet /\ row.reservation = None
  THEN [row EXCEPT !.reservation = q.link, !.email = q.email] ELSE row

\* Both statements, one batch.
Reconcile(r) ==
  LET q == req[r]
  IN  /\ q.at = "moving"
      /\ slot' = [slot EXCEPT ![q.from] = Released(slot[q.from], q),
                              ![q.to] = Attached(slot[q.to], q)]
      /\ Answer(r)
      /\ UNCHANGED <<link, sessions, identity, open, jobs, onchain, drawn>>

\* POST /relay, by code or by reservation: the claim is read and signed for.
ReadForRelay(r, s) ==
  /\ req[r].at = "idle" /\ slot[s].holder # None /\ ~slot[s].minted
  /\ LET grant == [wallet |-> slot[s].holder, nonce |-> slot[s].nonce]
     IN  /\ signed' = signed \cup {grant}
         /\ Runs(r, [at |-> "relaying", slot |-> s, grant |-> grant])
  /\ UNCHANGED <<db, open, onchain, drawn>>

\* createOrReuseMintJob: one job per slot, wallet and nonce.
Relay(r) ==
  /\ req[r].at = "relaying"
  /\ jobs' = jobs \cup {[slot |-> req[r].slot, grant |-> req[r].grant]}
  /\ Runs(r, Idle)
  /\ UNCHANGED <<slot, link, sessions, identity, open, signed, onchain, drawn>>

\* A request dies between two statements, or its client goes away.
Abandon(r) ==
  /\ req[r].at # "idle"
  /\ Runs(r, Idle)
  /\ UNCHANGED <<db, open, signed, onchain, drawn>>

-----------------------------------------------------------------------------
(* Around the requests. *)

\* The issuer publishes or closes the event, or its window opens or ends.
SetOpen(o) ==
  /\ open # o
  /\ open' = o
  /\ UNCHANGED <<db, signed, onchain, drawn, req>>

LinkExpires(c) ==
  /\ link[c].state = "sent"
  /\ link' = [link EXCEPT ![c].state = "expired"]
  /\ UNCHANGED <<slot, sessions, identity, open, jobs, signed, onchain, drawn, req>>

\* The badge contract accepts a signed authorization (see BadgeContract).
Mint(grant) ==
  /\ \A g \in onchain : g.wallet # grant.wallet /\ g.nonce # grant.nonce
  /\ onchain' = onchain \cup {grant}
  /\ UNCHANGED <<db, open, signed, drawn, req>>

\* POST /mints, or the relay: a transaction that minted to the slot's wallet
\* is recorded.
RecordMint(s) ==
  /\ ~slot[s].minted
  /\ slot[s].holder \in {g.wallet : g \in onchain}
  /\ slot' = [slot EXCEPT ![s].minted = TRUE]
  /\ UNCHANGED <<link, sessions, identity, open, jobs, signed, onchain, drawn, req>>

-----------------------------------------------------------------------------

Init ==
  /\ slot = [s \in Slots |-> [holder |-> None, nonce |-> 0, minted |-> FALSE,
                              reservation |-> None, email |-> None]]
  /\ link = [c \in Challenges |-> [state |-> "unsent", email |-> None]]
  /\ sessions = [c \in Challenges |-> 0]
  /\ identity = [e \in Emails |-> None]
  /\ open = TRUE
  /\ jobs = {} /\ signed = {} /\ onchain = {} /\ drawn = 0
  /\ req = [r \in Requests |-> Idle]

\* A step of a request, for some of the wallets, Emails and links.
Step(r, ws, es, cs) ==
  \/ \E c \in cs : OpenLink(r, c)
  \/ Reserve(r)
  \/ ConsumeLink(r)
  \/ \E c \in cs, e \in es, w \in ws : ReadForBind(r, c, e, w)
  \/ Bind(r)
  \/ \E w \in ws : Claim(r, w)
  \/ FindIdentity(r)
  \/ \E e \in es, w \in ws : RecordIdentity(r, e, w)
  \/ ReadReconcile(r)
  \/ Reconcile(r)
  \/ \E s \in Slots : ReadForRelay(r, s)
  \/ Relay(r)
  \/ Abandon(r)

Around(es, cs) ==
  \/ \E c \in cs, e \in es : SendLink(c, e)
  \/ \E o \in BOOLEAN : SetOpen(o)
  \/ \E c \in cs : LinkExpires(c)
  \/ \E g \in signed : Mint(g)
  \/ \E s \in Slots : RecordMint(s)

NextFor(ws, es, cs) ==
  (\E r \in Requests : Step(r, ws, es, cs)) \/ Around(es, cs)

Next == NextFor(Wallets, Emails, Challenges)

Spec == Init /\ [][Next]_vars

-----------------------------------------------------------------------------
(* Properties. *)

\* No wallet holds two slots of the event and no Email has two reserved: the
\* unique indexes of migrations 0002 and 0004 never fail a statement that does
\* not expect it, whatever requests interleave (reserveLiveClaim,
\* reserveClaimForVerifiedEmail, reconcileEmailReservationsForWallet). And a
\* magic link opens one session, however often it is followed at once
\* (consumeChallengeAndCreateSession).
OneSlotEach ==
  /\ \A c \in Challenges : sessions[c] <= 1
  /\ \A s, t \in Slots :
       s # t => /\ slot[s].holder = slot[t].holder => slot[s].holder = None
                /\ slot[s].email = slot[t].email => slot[s].email = None
                /\ slot[s].reservation = slot[t].reservation =>
                     slot[s].reservation = None

\* A verified Email that has a reservation keeps one, under the same id,
\* through every move between slots: the two statements of a reconciliation
\* that works on rows it read earlier never drop it.
ReservationKept ==
  [][\A s \in Slots :
       slot[s].reservation # None =>
         \E t \in Slots : /\ slot'[t].reservation = slot[s].reservation
                          /\ slot'[t].email = slot[s].email]_vars

\* Whoever was signed an authorization, has a mint job or a badge still holds
\* a slot, so the event never mints more badges than it has slots and no
\* slot's mint is paid for on behalf of somebody who lost it. The columns of a
\* slot that are filled together stay filled together.
GrantsHoldSlots ==
  /\ TypeOK
  /\ \A g \in signed \cup onchain : HeldBy(g.wallet) # {}
  /\ \A j \in jobs : slot[j.slot].holder = j.grant.wallet
  /\ \A s \in Slots :
       slot[s].minted => slot[s].holder \in {g.wallet : g \in onchain}

\* "... and the unused slot returns to the shared pool": a slot whose
\* reservation is moved away is free afterwards.
MovedFromSlotIsFree ==
  [][\A s \in Slots :
       slot[s].reservation # None /\ slot'[s].reservation = None =>
         slot'[s].holder = None]_vars

=============================================================================
