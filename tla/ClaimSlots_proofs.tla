--------------------------- MODULE ClaimSlots_proofs ---------------------------
(***************************************************************************)
(* Proofs about the claim slots, for any number of slots, wallets, Emails,  *)
(* links, requests that overlap or die, and nonces: one slot each, one      *)
(* session per link, whoever was authorized holds a slot, and a verified    *)
(* reservation is never lost.                                               *)
(*                                                                          *)
(* The heart of the matter is a reconciliation that moves a reservation on  *)
(* the strength of rows it read earlier.  An identity is recorded once, a   *)
(* wallet never loses its slot and has only one, so the reservation is      *)
(* still where it was read, or on the very slot it is to be moved to.       *)
(***************************************************************************)
EXTENDS ClaimSlots, TLAPS

Reserved(s, c, e) == slot[s].reservation = c /\ slot[s].email = e
Holder(w) == \E s \in Slots : slot[s].holder = w

\* What a reconciliation may still rely on when it writes.
MoveStands(q) ==
  /\ q.from # q.to
  /\ slot[q.to].holder = q.wallet
  /\ \/ Reserved(q.from, q.link, q.email) /\ slot[q.to].reservation = None
     \/ Reserved(q.to, q.link, q.email)

\* What a request may still rely on of what it read.
RequestStands(q) ==
  /\ q.at \in {"verified", "reserved"} => link[q.link].state # "unsent"
  /\ q.at \in {"claimed", "identified", "moving"} /\ q.nonce # 0 => Holder(q.wallet)
  /\ q.at \in {"identified", "moving"} => identity[q.email] = q.wallet
  /\ q.at = "moving" => MoveStands(q)
  /\ q.at = "relaying" => slot[q.slot].holder = q.grant.wallet

\* A link is consumed by the session it opens, and a reservation belongs to the
\* Email that its link was sent to.
ILinks ==
  \A c \in Challenges :
    /\ sessions[c] = 0 \/ (sessions[c] = 1 /\ link[c].state = "consumed")
    /\ link[c].state # "unsent" => link[c].email # None

IReservations ==
  \A s \in Slots : slot[s].reservation # None =>
    /\ link[slot[s].reservation].state # "unsent"
    /\ link[slot[s].reservation].email = slot[s].email

IIdentity ==
  \A e, f \in Emails : identity[e] = identity[f] => identity[e] = None \/ e = f

IOneSlot ==
  \A s, t \in Slots :
    s # t => /\ slot[s].holder = slot[t].holder => slot[s].holder = None
             /\ slot[s].email = slot[t].email => slot[s].email = None

IGrants ==
  /\ onchain \subseteq signed
  /\ \A g \in signed : Holder(g.wallet)
  /\ \A j \in jobs : slot[j.slot].holder = j.grant.wallet
  /\ \A s \in Slots :
       slot[s].minted => slot[s].holder \in {g.wallet : g \in onchain}

IRequests == \A r \in Requests : RequestStands(req[r])

IInv == /\ TypeOK /\ ILinks /\ IReservations /\ IIdentity /\ IOneSlot /\ IGrants
        /\ IRequests
------------------------------------------------------------------------------
LEMMA NoneIsNobody ==
  None \notin Wallets /\ None \notin Emails /\ None \notin Challenges
BY NoneAssumption DEF NoneAssumption

\* Two slots with one reservation would be two slots of one Email.
LEMMA OneReservation ==
  ASSUME TypeOK, IReservations, IOneSlot, NEW s \in Slots, NEW t \in Slots, s # t,
         slot[s].reservation = slot[t].reservation
  PROVE  slot[s].reservation = None
BY DEF TypeOK, IReservations, IOneSlot

LEMMA InvariantSuffices == IInv => OneSlotEach /\ GrantsHoldSlots
<1> SUFFICES ASSUME IInv PROVE OneSlotEach /\ GrantsHoldSlots
  OBVIOUS
<1>1. OneSlotEach
  BY OneReservation DEF IInv, ILinks, IOneSlot, OneSlotEach
<1>2. \A g \in signed \cup onchain : HeldBy(g.wallet) # {}
  BY DEF IInv, IGrants, Holder, HeldBy
<1> QED
  BY <1>1, <1>2 DEF IInv, IGrants, GrantsHoldSlots

\* The invariant holds of an event whose slots nobody has used yet.
THEOREM Initially == Init => IInv
<1> SUFFICES ASSUME Init PROVE IInv
  OBVIOUS
<1>1. TypeOK
  BY SlotsAssumption, NoneIsNobody DEF Init, TypeOK, SlotRows, LinkRows, RequestStates, Idle
<1>2. ILinks /\ IReservations /\ IIdentity /\ IOneSlot
  BY DEF Init, ILinks, IReservations, IIdentity, IOneSlot
<1>3. IGrants /\ IRequests
  BY DEF Init, IGrants, IRequests, RequestStands, Idle
<1> QED
  BY <1>1, <1>2, <1>3 DEF IInv
------------------------------------------------------------------------------
(* Steps that leave the slots alone.                                         *)

\* A request goes on, or signs for holders on its way out.
LEMMA RequestMoves ==
  ASSUME IInv, NEW r \in Requests, NEW q \in RequestStates, RequestStands(q), Runs(r, q),
         NEW more \in SUBSET Grants, \A g \in more : Holder(g.wallet),
         signed' = signed \cup more,
         UNCHANGED <<slot, link, sessions, identity, open, jobs, onchain>>,
         drawn' \in 0..MaxNonces
  PROVE  IInv'
<1>1. TypeOK'
  BY DEF IInv, TypeOK, Runs
<1>2. ILinks' /\ IReservations' /\ IIdentity' /\ IOneSlot' /\ IGrants'
  BY DEF IInv, ILinks, IReservations, IIdentity, IOneSlot, IGrants, Holder
<1>3. \A p : RequestStands(p) => RequestStands(p)'
  BY DEF RequestStands, MoveStands, Reserved, Holder
<1>4. IRequests'
  BY <1>3 DEF IInv, IRequests, TypeOK, Runs
<1> QED
  BY <1>1, <1>2, <1>4 DEF IInv

LEMMA RequestGoesOn ==
  ASSUME IInv, NEW r \in Requests, NEW q \in RequestStates, RequestStands(q), Runs(r, q),
         UNCHANGED <<slot, link, sessions, identity, open, jobs, signed, onchain>>,
         drawn' \in 0..MaxNonces
  PROVE  IInv'
<1>1. /\ {} \in SUBSET Grants
      /\ \A g \in {} : Holder(g.wallet)
      /\ signed' = signed \cup {}
  OBVIOUS
<1> QED
  BY <1>1, RequestMoves

LEMMA IdleStands == Idle \in RequestStates /\ RequestStands(Idle)
BY DEF Idle, RequestStates, RequestStands

\* The answer of a request that has claimed.
LEMMA AnswerKeeps ==
  ASSUME IInv, NEW r \in Requests, req[r].at \in {"claimed", "identified", "moving"},
         Answer(r),
         UNCHANGED <<slot, link, sessions, identity, open, jobs, onchain, drawn>>
  PROVE  IInv'
<1> DEFINE more == IF req[r].nonce = 0 THEN {}
                   ELSE {[wallet |-> req[r].wallet, nonce |-> req[r].nonce]}
<1>1. req[r] \in RequestStates /\ RequestStands(req[r]) /\ drawn' \in 0..MaxNonces
  BY DEF IInv, TypeOK, IRequests
<1>2. req[r].wallet \in Wallets /\ req[r].nonce \in {0} \cup Nonces
  BY <1>1 DEF RequestStates, Idle
<1>3. more \in SUBSET Grants /\ \A g \in more : Holder(g.wallet)
  BY <1>1, <1>2 DEF RequestStands, Grants
<1>4. signed' = signed \cup more /\ Runs(r, Idle)
  BY DEF Answer
<1> QED
  BY <1>1, <1>3, <1>4, IdleStands, RequestMoves
------------------------------------------------------------------------------
(* Steps of links and identities.                                            *)

\* What requests rely on survives when links are sent, consumed or expire and
\* identities are recorded.
LEMMA LinksMove ==
  ASSUME IInv, NEW q, RequestStands(q),
         \A c \in Challenges : link[c].state # "unsent" =>
           link'[c].state # "unsent" /\ link'[c].email = link[c].email,
         \A e \in Emails : identity[e] # None => identity'[e] = identity[e],
         UNCHANGED slot, q \in RequestStates
  PROVE  RequestStands(q)'
<1>1. q.at \in {"verified", "reserved"} => q.link \in Challenges
  BY DEF RequestStates, Idle
<1>2. q.at \in {"identified", "moving"} => q.email \in Emails /\ q.wallet # None
  BY NoneIsNobody DEF RequestStates, Idle
<1> QED
  BY <1>1, <1>2 DEF RequestStands, MoveStands, Reserved, Holder

LEMMA SendLinkKeeps ==
  ASSUME IInv, NEW c \in Challenges, NEW e \in Emails, SendLink(c, e)
  PROVE  IInv'
<1>1. link' = [link EXCEPT ![c] = [state |-> "sent", email |-> e]] /\ link[c].state = "unsent"
  BY DEF SendLink
<1>2. [state |-> "sent", email |-> e] \in LinkRows
  BY DEF LinkRows
<1>3. TypeOK'
  BY <1>1, <1>2 DEF IInv, TypeOK, SendLink
<1>4. \A d \in Challenges : link[d].state # "unsent" => link'[d] = link[d]
  BY <1>1 DEF IInv, TypeOK
<1>5. ILinks'
  BY <1>1, NoneIsNobody DEF IInv, TypeOK, ILinks, SendLink
<1>6. IReservations' /\ IIdentity' /\ IOneSlot' /\ IGrants'
  BY <1>4 DEF IInv, TypeOK, SlotRows, IReservations, IIdentity, IOneSlot, IGrants, Holder,
              SendLink
<1>7. IRequests'
  BY <1>4, LinksMove DEF IInv, TypeOK, IRequests, SendLink
<1> QED
  BY <1>3, <1>5, <1>6, <1>7 DEF IInv

LEMMA LinkExpiresKeeps ==
  ASSUME IInv, NEW c \in Challenges, LinkExpires(c)
  PROVE  IInv'
<1> DEFINE row == [link[c] EXCEPT !.state = "expired"]
<1>1. row \in LinkRows /\ row.state = "expired" /\ row.email = link[c].email
  BY DEF IInv, TypeOK, LinkRows
<1>2. link' = [link EXCEPT ![c] = row] /\ link[c].state = "sent"
  BY DEF LinkExpires
<1> HIDE DEF row
<1>3. TypeOK'
  BY <1>1, <1>2 DEF IInv, TypeOK, LinkExpires
<1>4. \A d \in Challenges : link[d].state # "unsent" =>
        link'[d].state # "unsent" /\ link'[d].email = link[d].email
  BY <1>1, <1>2 DEF IInv, TypeOK
<1>5. ILinks'
  BY <1>1, <1>2 DEF IInv, TypeOK, ILinks, LinkExpires
<1>6. IReservations' /\ IIdentity' /\ IOneSlot' /\ IGrants'
  BY <1>4 DEF IInv, TypeOK, SlotRows, IReservations, IIdentity, IOneSlot, IGrants, Holder,
              LinkExpires
<1>7. IRequests'
  BY <1>4, LinksMove DEF IInv, TypeOK, IRequests, LinkExpires
<1> QED
  BY <1>3, <1>5, <1>6, <1>7 DEF IInv

LEMMA ConsumeLinkKeeps ==
  ASSUME IInv, NEW r \in Requests, ConsumeLink(r)
  PROVE  IInv'
<1> DEFINE c == req[r].link
           row == [link[c] EXCEPT !.state = "consumed"]
<1>1. /\ req[r] \in RequestStates /\ req[r].at = "reserved" /\ c \in Challenges
      /\ link[c] \in LinkRows
  BY DEF ConsumeLink, IInv, TypeOK, RequestStates, Idle
<1>2. row \in LinkRows /\ row.state = "consumed" /\ row.email = link[c].email
  BY <1>1 DEF LinkRows
<1>3. /\ Runs(r, Idle) /\ UNCHANGED <<slot, identity, open, jobs, signed, onchain, drawn>>
      /\ \/ LinkValid(c) /\ link' = [link EXCEPT ![c] = row]
            /\ sessions' = [sessions EXCEPT ![c] = sessions[c] + 1]
         \/ UNCHANGED <<sessions, link>>
  BY DEF ConsumeLink
<1> HIDE DEF c, row
<1>4. TypeOK'
  BY <1>1, <1>2, <1>3, IdleStands DEF IInv, TypeOK, Runs
<1>5. \A d \in Challenges : link[d].state # "unsent" =>
        link'[d].state # "unsent" /\ link'[d].email = link[d].email
  BY <1>1, <1>2, <1>3 DEF IInv, TypeOK
<1>6. ILinks'
  BY <1>1, <1>2, <1>3 DEF IInv, TypeOK, ILinks, LinkValid
<1>7. IReservations' /\ IIdentity' /\ IOneSlot' /\ IGrants'
  BY <1>3, <1>5 DEF IInv, TypeOK, SlotRows, IReservations, IIdentity, IOneSlot, IGrants, Holder
<1>8. \A p \in RequestStates : RequestStands(p) => RequestStands(p)'
  BY <1>3, <1>5, LinksMove DEF IInv
<1>9. IRequests'
  BY <1>3, <1>8, IdleStands DEF IInv, TypeOK, IRequests, Runs
<1> QED
  BY <1>4, <1>6, <1>7, <1>9 DEF IInv

LEMMA RecordIdentityKeeps ==
  ASSUME IInv, NEW r \in Requests, NEW e \in Emails, NEW w \in Wallets, RecordIdentity(r, e, w)
  PROVE  IInv'
<1> DEFINE q == [at |-> "identified", wallet |-> w, nonce |-> 0, email |-> e]
<1>1. /\ identity[e] \in {None, w} /\ \A f \in Emails \ {e} : identity[f] # w
      /\ identity' = [identity EXCEPT ![e] = w]
      /\ Runs(r, q)
      /\ UNCHANGED <<slot, link, sessions, open, jobs, signed, onchain, drawn>>
  BY DEF RecordIdentity
<1>2. q \in RequestStates
  BY DEF RequestStates
<1>3. TypeOK'
  BY <1>1, <1>2 DEF IInv, TypeOK, Runs
<1>4. ILinks' /\ IReservations' /\ IOneSlot' /\ IGrants'
  BY <1>1 DEF IInv, ILinks, IReservations, IOneSlot, IGrants, Holder
<1>5. IIdentity'
  BY <1>1 DEF IInv, TypeOK, IIdentity
<1>6. \A f \in Emails : identity[f] # None => identity'[f] = identity[f]
  BY <1>1 DEF IInv, TypeOK
<1>7. RequestStands(q)'
  BY <1>1 DEF IInv, TypeOK, RequestStands
<1>8. \A p \in RequestStates : RequestStands(p) => RequestStands(p)'
  BY <1>1, <1>6, LinksMove
<1>9. IRequests'
  BY <1>1, <1>7, <1>8 DEF IInv, TypeOK, IRequests, Runs
<1> QED
  BY <1>3, <1>4, <1>5, <1>9 DEF IInv
------------------------------------------------------------------------------
(* Steps of requests that write no slot.                                     *)

LEMMA OpenLinkKeeps ==
  ASSUME IInv, NEW r \in Requests, NEW c \in Challenges, OpenLink(r, c)
  PROVE  IInv'
<1> DEFINE q == [at |-> "verified", link |-> c]
<1>1. q \in RequestStates /\ RequestStands(q)
  BY DEF OpenLink, RequestStates, RequestStands
<1>2. Runs(r, q) /\ UNCHANGED signed /\ drawn' \in 0..MaxNonces
  BY DEF OpenLink, IInv, TypeOK
<1> QED
  BY <1>1, <1>2, RequestGoesOn DEF OpenLink, db

\* A slot that is signed for is held by the wallet of the authorization.
LEMMA SignsForHolder ==
  ASSUME IInv, UNCHANGED slot, NEW s \in Slots, SignFor(s)
  PROVE  \E more \in SUBSET Grants : signed' = signed \cup more /\ \A g \in more : Holder(g.wallet)
<1> DEFINE more == IF slot[s].minted \/ slot[s].holder = None THEN {}
                   ELSE {[wallet |-> slot[s].holder, nonce |-> slot[s].nonce]}
<1>1. slot[s] \in SlotRows /\ ((slot[s].holder = None) = (slot[s].nonce = 0))
  BY DEF IInv, TypeOK
<1>2. more \in SUBSET Grants /\ \A g \in more : Holder(g.wallet)
  BY <1>1 DEF SlotRows, Grants, Holder
<1>3. signed' = signed \cup more
  BY DEF SignFor
<1> QED
  BY <1>2, <1>3

LEMMA ReadForBindKeeps ==
  ASSUME IInv, NEW r \in Requests, NEW c \in Challenges, NEW e \in Emails, NEW w \in Wallets,
         ReadForBind(r, c, e, w)
  PROVE  IInv'
<1>1. /\ drawn' \in 0..MaxNonces
      /\ UNCHANGED <<slot, link, sessions, identity, open, jobs, onchain>>
  BY DEF ReadForBind, IInv, TypeOK
<1>2. PICK s \in Slots :
        \/ UNCHANGED <<slot, req>> /\ SignFor(s)
        \/ Runs(r, [at |-> "unbound", link |-> c, email |-> e, wallet |-> w])
             /\ UNCHANGED <<slot, signed>>
  BY DEF ReadForBind, Reservation
<1>3. CASE UNCHANGED <<slot, req>> /\ SignFor(s)
  <2>1. PICK more \in SUBSET Grants :
          signed' = signed \cup more /\ \A g \in more : Holder(g.wallet)
    BY <1>3, SignsForHolder
  <2>2. Runs(r, req[r]) /\ req[r] \in RequestStates /\ RequestStands(req[r])
    BY <1>3 DEF Runs, IInv, TypeOK, IRequests
  <2> QED
    BY <1>1, <2>1, <2>2, RequestMoves
<1>4. CASE Runs(r, [at |-> "unbound", link |-> c, email |-> e, wallet |-> w])
             /\ UNCHANGED <<slot, signed>>
  <2> DEFINE q == [at |-> "unbound", link |-> c, email |-> e, wallet |-> w]
  <2>1. q \in RequestStates /\ RequestStands(q)
    BY DEF RequestStates, RequestStands
  <2>2. Runs(r, q) /\ UNCHANGED signed
    BY <1>4
  <2> QED
    BY <1>1, <2>1, <2>2, RequestGoesOn
<1> QED
  BY <1>2, <1>3, <1>4

LEMMA FindIdentityKeeps ==
  ASSUME IInv, NEW r \in Requests, FindIdentity(r)
  PROVE  IInv'
<1> DEFINE w == req[r].wallet  n == req[r].nonce
<1>1. /\ UNCHANGED <<slot, link, sessions, identity, open, jobs, onchain, drawn>>
      /\ req[r].at = "claimed" /\ drawn' \in 0..MaxNonces
  BY DEF FindIdentity, db, IInv, TypeOK
<1>2. CASE Answer(r)
  BY <1>1, <1>2, AnswerKeeps
<1>3. ASSUME NEW e \in Emails, identity[e] = w, UNCHANGED signed,
             Runs(r, [at |-> "identified", wallet |-> w, nonce |-> n, email |-> e])
      PROVE  IInv'
  <2> DEFINE q == [at |-> "identified", wallet |-> w, nonce |-> n, email |-> e]
  <2>1. req[r] \in RequestStates /\ RequestStands(req[r])
    BY DEF IInv, TypeOK, IRequests
  <2>2. w \in Wallets /\ n \in {0} \cup Nonces
    BY <1>1, <2>1 DEF RequestStates, Idle
  <2>3. q \in RequestStates
    BY <2>2 DEF RequestStates
  <2>4. RequestStands(q)
    BY <1>1, <1>3, <2>1 DEF RequestStands
  <2>5. Runs(r, q) /\ UNCHANGED signed
    BY <1>3
  <2> QED
    BY <1>1, <2>3, <2>4, <2>5, RequestGoesOn
<1> QED
  BY <1>2, <1>3 DEF FindIdentity

\* The rows that the query joins are the ones that the writes will find.
LEMMA ReadReconcileKeeps ==
  ASSUME IInv, NEW r \in Requests, ReadReconcile(r)
  PROVE  IInv'
<1> DEFINE w == req[r].wallet  n == req[r].nonce  e == req[r].email
<1>1. /\ UNCHANGED <<slot, link, sessions, identity, open, jobs, onchain, drawn>>
      /\ req[r].at = "identified" /\ drawn' \in 0..MaxNonces
  BY DEF ReadReconcile, db, IInv, TypeOK
<1>2. CASE Answer(r)
  BY <1>1, <1>2, AnswerKeeps
<1>3. ASSUME NEW from \in Slots, NEW to \in Slots, ToReconcile(w, e, from, to),
             UNCHANGED signed,
             Runs(r, [at |-> "moving", wallet |-> w, nonce |-> n, email |-> e,
                      link |-> slot[from].reservation, from |-> from, to |-> to])
      PROVE  IInv'
  <2> DEFINE q == [at |-> "moving", wallet |-> w, nonce |-> n, email |-> e,
                   link |-> slot[from].reservation, from |-> from, to |-> to]
  <2>1. req[r] \in RequestStates /\ RequestStands(req[r])
    BY DEF IInv, TypeOK, IRequests
  <2>2. w \in Wallets /\ n \in {0} \cup Nonces /\ e \in Emails
    BY <1>1, <2>1 DEF RequestStates, Idle
  <2>3. slot[from].reservation \in Challenges
    BY <1>3 DEF ToReconcile, IInv, TypeOK, SlotRows
  <2>4. q \in RequestStates
    BY <2>2, <2>3 DEF RequestStates
  <2>5. RequestStands(q)
    BY <1>1, <1>3, <2>1 DEF RequestStands, MoveStands, ToReconcile, Reserved
  <2>6. Runs(r, q) /\ UNCHANGED signed
    BY <1>3
  <2> QED
    BY <1>1, <2>4, <2>5, <2>6, RequestGoesOn
<1> QED
  BY <1>2, <1>3 DEF ReadReconcile

LEMMA ReadForRelayKeeps ==
  ASSUME IInv, NEW r \in Requests, NEW s \in Slots, ReadForRelay(r, s)
  PROVE  IInv'
<1> DEFINE grant == [wallet |-> slot[s].holder, nonce |-> slot[s].nonce]
           q == [at |-> "relaying", slot |-> s, grant |-> grant]
<1>1. grant \in Grants /\ Holder(grant.wallet)
  BY DEF ReadForRelay, IInv, TypeOK, SlotRows, Grants, Holder
<1>2. q \in RequestStates /\ RequestStands(q)
  BY <1>1 DEF RequestStates, RequestStands
<1>3. signed' = signed \cup {grant} /\ Runs(r, q) /\ drawn' \in 0..MaxNonces
  BY DEF ReadForRelay, IInv, TypeOK
<1>4. {grant} \in SUBSET Grants /\ \A g \in {grant} : Holder(g.wallet)
  BY <1>1
<1>5. UNCHANGED <<slot, link, sessions, identity, open, jobs, onchain>>
  BY DEF ReadForRelay, db
<1> HIDE DEF grant, q
<1> QED
  BY <1>2, <1>3, <1>4, <1>5, RequestMoves

LEMMA RelayKeeps ==
  ASSUME IInv, NEW r \in Requests, Relay(r)
  PROVE  IInv'
<1> DEFINE job == [slot |-> req[r].slot, grant |-> req[r].grant]
<1>1. req[r] \in RequestStates /\ RequestStands(req[r]) /\ req[r].at = "relaying"
  BY DEF Relay, IInv, TypeOK, IRequests
<1>2. job \in [slot : Slots, grant : Grants] /\ slot[job.slot].holder = job.grant.wallet
  BY <1>1 DEF RequestStates, RequestStands, Idle
<1>3. /\ jobs' = jobs \cup {job} /\ Runs(r, Idle)
      /\ UNCHANGED <<slot, link, sessions, identity, open, signed, onchain, drawn>>
  BY DEF Relay
<1> HIDE DEF job
<1>4. TypeOK'
  BY <1>2, <1>3, IdleStands DEF IInv, TypeOK, Runs
<1>5. ILinks' /\ IReservations' /\ IIdentity' /\ IOneSlot' /\ IGrants'
  BY <1>2, <1>3 DEF IInv, ILinks, IReservations, IIdentity, IOneSlot, IGrants, Holder
<1>6. \A p : RequestStands(p) => RequestStands(p)'
  BY <1>3 DEF RequestStands, MoveStands, Reserved, Holder
<1>7. IRequests'
  BY <1>3, <1>6, IdleStands DEF IInv, IRequests, TypeOK, Runs
<1> QED
  BY <1>4, <1>5, <1>7 DEF IInv
------------------------------------------------------------------------------
(* Steps that write one slot.                                                *)

\* What requests rely on survives whatever keeps the holders, and the
\* reservations of the slots that have one or a holder.
LEMMA SlotsMove ==
  ASSUME IInv, NEW q \in RequestStates, RequestStands(q), UNCHANGED <<link, identity>>,
         \A s \in Slots :
           /\ slot[s].holder # None => slot'[s].holder = slot[s].holder
           /\ slot[s].holder # None \/ slot[s].reservation # None =>
                /\ slot'[s].reservation = slot[s].reservation
                /\ slot'[s].email = slot[s].email
  PROVE  RequestStands(q)'
<1>1. /\ q.at \in {"claimed", "identified", "moving"} => q.wallet \in Wallets
      /\ q.at = "moving" => q.from \in Slots /\ q.to \in Slots /\ q.link \in Challenges
      /\ q.at = "relaying" => q.slot \in Slots /\ q.grant.wallet \in Wallets
  BY DEF RequestStates, Grants, Idle
<1>2. \A w \in Wallets : Holder(w) => Holder(w)'
  BY NoneIsNobody DEF Holder
<1>3. q.at = "moving" => MoveStands(q)'
  BY <1>1, NoneIsNobody DEF RequestStands, MoveStands, Reserved
<1>4. q.at = "relaying" => slot'[q.slot].holder = q.grant.wallet
  BY <1>1, NoneIsNobody DEF RequestStands
<1> QED
  BY <1>1, <1>2, <1>3, <1>4 DEF RequestStands

\* A row may change as long as its holder and, once it has a holder or a
\* reservation, its reservation stay, and what it gets is no other slot's.
LEMMA RowKeeps ==
  ASSUME IInv, NEW s \in Slots, NEW row \in SlotRows, slot' = [slot EXCEPT ![s] = row],
         (row.reservation = None) = (row.email = None),
         (row.holder = None) = (row.nonce = 0),
         slot[s].holder # None => row.holder = slot[s].holder,
         slot[s].holder # None \/ slot[s].reservation # None =>
           row.reservation = slot[s].reservation /\ row.email = slot[s].email,
         row.reservation # None =>
           /\ link[row.reservation].state # "unsent"
           /\ link[row.reservation].email = row.email,
         \A t \in Slots \ {s} :
           /\ row.holder # None => slot[t].holder # row.holder
           /\ row.email # None => slot[t].email # row.email,
         row.minted => row.holder \in {g.wallet : g \in onchain},
         UNCHANGED <<link, sessions, identity, open, jobs, onchain>>,
         drawn' \in 0..MaxNonces,
         NEW more \in SUBSET Grants, signed' = signed \cup more,
         \A g \in more : Holder(g.wallet)',
         req' \in [Requests -> RequestStates],
         \A p \in Requests : req'[p] = req[p] \/ RequestStands(req[p])'
  PROVE  IInv'
<1>1. TypeOK'
  BY DEF IInv, TypeOK
<1>2. ILinks' /\ IIdentity'
  BY DEF IInv, ILinks, IIdentity
<1>3. IReservations'
  BY DEF IInv, TypeOK, IReservations
<1>4. IOneSlot'
  <2> SUFFICES ASSUME NEW t \in Slots, NEW u \in Slots, t # u
               PROVE  /\ slot'[t].holder = slot'[u].holder => slot'[t].holder = None
                      /\ slot'[t].email = slot'[u].email => slot'[t].email = None
    BY DEF IOneSlot
  <2>0. slot'[s] = row /\ \A v \in Slots \ {s} : slot'[v] = slot[v]
    BY DEF IInv, TypeOK
  <2>1. CASE t = s
    <3>1. slot'[t] = row /\ slot'[u] = slot[u] /\ u \in Slots \ {s}
      BY <2>0, <2>1
    <3>2. /\ row.holder # None => slot[u].holder # row.holder
          /\ row.email # None => slot[u].email # row.email
      BY <3>1
    <3> QED
      BY <3>1, <3>2
  <2>2. CASE u = s
    <3>1. slot'[u] = row /\ slot'[t] = slot[t] /\ t \in Slots \ {s}
      BY <2>0, <2>2
    <3>2. /\ row.holder # None => slot[t].holder # row.holder
          /\ row.email # None => slot[t].email # row.email
      BY <3>1
    <3> QED
      BY <3>1, <3>2
  <2>3. CASE t # s /\ u # s
    BY <2>0, <2>3 DEF IInv, IOneSlot
  <2> QED
    BY <2>1, <2>2, <2>3
<1>5. \A t \in Slots :
        /\ slot[t].holder # None => slot'[t].holder = slot[t].holder
        /\ slot[t].holder # None \/ slot[t].reservation # None =>
             /\ slot'[t].reservation = slot[t].reservation
             /\ slot'[t].email = slot[t].email
  BY DEF IInv, TypeOK
<1>6. \A w \in Wallets : Holder(w) => Holder(w)'
  BY <1>5, NoneIsNobody DEF Holder
<1>7. \A g \in signed' : Holder(g.wallet)'
  BY <1>6 DEF IInv, IGrants, TypeOK, Grants
<1>8. \A j \in jobs : slot'[j.slot].holder = j.grant.wallet
  BY <1>5, NoneIsNobody DEF IInv, IGrants, TypeOK, Grants
<1>9. \A t \in Slots : slot'[t].minted => slot'[t].holder \in {g.wallet : g \in onchain}
  BY DEF IInv, IGrants, TypeOK
<1>10. IGrants'
  BY <1>7, <1>8, <1>9 DEF IInv, IGrants
<1>11. \A q \in RequestStates : RequestStands(q) => RequestStands(q)'
  BY <1>5, SlotsMove
<1>12. IRequests'
  BY <1>11 DEF IInv, TypeOK, IRequests
<1> QED
  BY <1>1, <1>2, <1>3, <1>4, <1>10, <1>12 DEF IInv

LEMMA ReserveKeeps ==
  ASSUME IInv, NEW r \in Requests, Reserve(r)
  PROVE  IInv'
<1>1. /\ req[r].at = "verified" /\ req[r] \in RequestStates /\ RequestStands(req[r])
      /\ UNCHANGED <<link, sessions, identity, open, jobs, signed, onchain, drawn>>
      /\ drawn' \in 0..MaxNonces
  BY DEF Reserve, IInv, TypeOK, IRequests
<1>2. PICK c \in Challenges : c = req[r].link /\ c # None /\ link[c].state # "unsent"
  BY <1>1, NoneIsNobody DEF RequestStates, Idle, RequestStands
<1>3. PICK e \in Emails : e = link[c].email /\ e # None
  BY <1>2, NoneIsNobody DEF IInv, TypeOK, LinkRows, ILinks
<1> DEFINE q == [at |-> "reserved", link |-> c]
<1>4. \E state \in {q, Idle} : Runs(r, state)
  <2>1. CASE \E s \in Slots : slot'[s].email = e
    BY <1>2, <1>3, <2>1 DEF Reserve
  <2>2. CASE ~ \E s \in Slots : slot'[s].email = e
    BY <1>2, <1>3, <2>2 DEF Reserve
  <2> QED
    BY <2>1, <2>2
<1>5. PICK state \in RequestStates :
        Runs(r, state) /\ RequestStands(state) /\ RequestStands(state)'
  <2>1. q \in RequestStates /\ RequestStands(q) /\ RequestStands(q)'
    BY <1>1, <1>2 DEF RequestStates, RequestStands
  <2>2. RequestStands(Idle)'
    BY DEF RequestStands, Idle
  <2> QED
    BY <1>4, <2>1, <2>2, IdleStands
<1> HIDE DEF q
<1>6. CASE UNCHANGED slot
  BY <1>1, <1>5, <1>6, RequestGoesOn
<1>7. ASSUME NEW s \in Slots, MayReserve(s, e),
             slot' = [slot EXCEPT ![s].reservation = c, ![s].email = e]
      PROVE  IInv'
  <2> DEFINE row == [slot[s] EXCEPT !.reservation = c, !.email = e]
  <2>1. slot[s] \in SlotRows /\ ((slot[s].holder = None) = (slot[s].nonce = 0))
    BY DEF IInv, TypeOK
  <2>2. /\ row \in SlotRows /\ row.holder = slot[s].holder /\ row.nonce = slot[s].nonce
        /\ row.minted = slot[s].minted /\ row.reservation = c /\ row.email = e
    BY <1>2, <1>3, <2>1 DEF SlotRows
  <2>3. slot[s].holder = None /\ slot[s].reservation = None /\ ReservedFor(e) = {}
    BY <1>7 DEF MayReserve, FirstFree, Free
  <2>4. slot' = [slot EXCEPT ![s] = row]
    BY <1>7, <2>1 DEF IInv, TypeOK, SlotRows
  <2> HIDE DEF row
  <2>5. \A t \in Slots \ {s} :
          /\ row.holder # None => slot[t].holder # row.holder
          /\ row.email # None => slot[t].email # row.email
    BY <2>2, <2>3 DEF ReservedFor
  <2>6. row.minted => row.holder \in {g.wallet : g \in onchain}
    BY <2>2 DEF IInv, IGrants
  <2>7. /\ req' \in [Requests -> RequestStates]
        /\ \A p \in Requests : req'[p] = req[p] \/ RequestStands(req[p])'
    BY <1>5 DEF Runs, IInv, TypeOK
  <2>8. /\ {} \in SUBSET Grants /\ signed' = signed \cup {}
        /\ \A g \in {} : Holder(g.wallet)'
    BY <1>1
  <2>9. /\ (row.reservation = None) = (row.email = None)
        /\ (row.holder = None) = (row.nonce = 0)
        /\ link[row.reservation].state # "unsent"
        /\ link[row.reservation].email = row.email
    BY <1>2, <1>3, <2>1, <2>2
  <2> QED
    BY <1>1, <2>2, <2>3, <2>4, <2>5, <2>6, <2>7, <2>8, <2>9, RowKeeps
<1> QED
  BY <1>2, <1>3, <1>6, <1>7 DEF Reserve

LEMMA RecordMintKeeps ==
  ASSUME IInv, NEW s \in Slots, RecordMint(s)
  PROVE  IInv'
<1> DEFINE row == [slot[s] EXCEPT !.minted = TRUE]
<1>1. slot[s] \in SlotRows /\ ((slot[s].holder = None) = (slot[s].nonce = 0))
  BY DEF IInv, TypeOK
<1>2. /\ row \in SlotRows /\ row.holder = slot[s].holder /\ row.nonce = slot[s].nonce
      /\ row.reservation = slot[s].reservation /\ row.email = slot[s].email
  BY <1>1 DEF SlotRows
<1>3. slot' = [slot EXCEPT ![s] = row]
  BY DEF RecordMint
<1> HIDE DEF row
<1>4. \A t \in Slots \ {s} :
        /\ row.holder # None => slot[t].holder # row.holder
        /\ row.email # None => slot[t].email # row.email
  BY <1>2 DEF IInv, IOneSlot
<1>5. row.holder \in {g.wallet : g \in onchain}
  BY <1>2 DEF RecordMint
<1>6. /\ UNCHANGED <<link, sessions, identity, open, jobs, onchain, req>>
      /\ drawn' \in 0..MaxNonces
      /\ req' \in [Requests -> RequestStates]
  BY DEF RecordMint, IInv, TypeOK
<1>7. /\ {} \in SUBSET Grants /\ signed' = signed \cup {}
      /\ \A g \in {} : Holder(g.wallet)'
  BY DEF RecordMint
<1>8. /\ (row.reservation = None) = (row.email = None)
      /\ (row.holder = None) = (row.nonce = 0)
      /\ row.reservation # None =>
           /\ link[row.reservation].state # "unsent"
           /\ link[row.reservation].email = row.email
  BY <1>2 DEF IInv, TypeOK, IReservations
<1> QED
  BY <1>2, <1>3, <1>4, <1>5, <1>6, <1>7, <1>8, RowKeeps

LEMMA ClaimKeeps ==
  ASSUME IInv, NEW r \in Requests, NEW w \in Wallets, Claim(r, w)
  PROVE  IInv'
<1>1. UNCHANGED <<link, sessions, identity, open, jobs, signed, onchain>>
  BY DEF Claim
<1>2. ASSUME NEW s \in HeldBy(w), UNCHANGED <<slot, drawn>>,
             Runs(r, [at |-> "claimed", wallet |-> w,
                      nonce |-> IF slot[s].minted THEN 0 ELSE slot[s].nonce])
      PROVE  IInv'
  <2> DEFINE n == IF slot[s].minted THEN 0 ELSE slot[s].nonce
             q == [at |-> "claimed", wallet |-> w, nonce |-> n]
  <2>1. s \in Slots /\ slot[s].holder = w /\ slot[s] \in SlotRows
    BY DEF HeldBy, IInv, TypeOK
  <2>2. n \in {0} \cup Nonces
    BY <2>1 DEF SlotRows
  <2> HIDE DEF n
  <2>3. q \in RequestStates
    BY <2>2 DEF RequestStates
  <2>4. RequestStands(q) /\ drawn' \in 0..MaxNonces
    BY <1>2, <2>1 DEF RequestStands, Holder, IInv, TypeOK
  <2>5. Runs(r, q)
    BY <1>2 DEF n
  <2> QED
    BY <1>1, <1>2, <2>3, <2>4, <2>5, RequestGoesOn
<1>3. ASSUME NEW s \in Slots, MayClaim(s, w), DrawNonce,
             slot' = [slot EXCEPT ![s].holder = w, ![s].nonce = drawn'],
             Runs(r, [at |-> "claimed", wallet |-> w, nonce |-> drawn'])
      PROVE  IInv'
  <2>1. slot[s] \in SlotRows /\ ((slot[s].reservation = None) = (slot[s].email = None))
    BY DEF IInv, TypeOK
  <2>2. PICK n \in Nonces : n = drawn' /\ n # 0 /\ n \in 0..MaxNonces
    BY <1>3, SlotsAssumption DEF DrawNonce, IInv, TypeOK, Nonces
  <2> DEFINE row == [slot[s] EXCEPT !.holder = w, !.nonce = n]
             q == [at |-> "claimed", wallet |-> w, nonce |-> n]
  <2>3. /\ row \in SlotRows /\ row.holder = w /\ row.nonce = n
        /\ row.minted = slot[s].minted /\ row.reservation = slot[s].reservation
        /\ row.email = slot[s].email
    BY <2>1, <2>2 DEF SlotRows
  <2>4. slot' = [slot EXCEPT ![s] = row]
    BY <1>3, <2>1, <2>2 DEF IInv, TypeOK, SlotRows
  <2> HIDE DEF row
  <2>5. slot[s].holder = None /\ slot[s].reservation = None /\ HeldBy(w) = {} /\ ~slot[s].minted
    BY <1>3, NoneIsNobody DEF MayClaim, FirstFree, Free, IInv, IGrants, TypeOK, Grants
  <2>6. \A t \in Slots \ {s} :
          /\ row.holder # None => slot[t].holder # row.holder
          /\ row.email # None => slot[t].email # row.email
    BY <2>1, <2>3, <2>5 DEF HeldBy
  <2>7. slot'[s].holder = w
    BY <2>3, <2>4 DEF IInv, TypeOK
  <2>8. RequestStands(q)' /\ q \in RequestStates
    BY <2>2, <2>7 DEF RequestStands, Holder, RequestStates
  <2>9. /\ req' \in [Requests -> RequestStates]
        /\ \A p \in Requests : req'[p] = req[p] \/ RequestStands(req[p])'
    BY <1>3, <2>2, <2>8 DEF Runs, IInv, TypeOK
  <2>10. /\ {} \in SUBSET Grants /\ signed' = signed \cup {}
         /\ \A g \in {} : Holder(g.wallet)'
    BY <1>1
  <2>11. /\ (row.reservation = None) = (row.email = None)
         /\ (row.holder = None) = (row.nonce = 0)
         /\ row.reservation = None
    BY <2>1, <2>2, <2>3, <2>5, NoneIsNobody
  <2> QED
    BY ZenonT(40), <1>1, <2>2, <2>3, <2>4, <2>5, <2>6, <2>9, <2>10, <2>11, RowKeeps
<1> QED
  BY <1>2, <1>3 DEF Claim

LEMMA BindKeeps ==
  ASSUME IInv, NEW r \in Requests, Bind(r)
  PROVE  IInv'
<1>1. /\ req[r].at = "unbound" /\ req[r] \in RequestStates
      /\ UNCHANGED <<link, sessions, identity, open, jobs, onchain>>
      /\ DrawNonce /\ Runs(r, Idle)
  BY DEF Bind, IInv, TypeOK
<1>2. PICK n \in Nonces : n = drawn' /\ n # 0 /\ n \in 0..MaxNonces
  BY <1>1, SlotsAssumption DEF DrawNonce, IInv, TypeOK, Nonces
<1>3. PICK c \in Challenges, e \in Emails, w \in Wallets :
        c = req[r].link /\ e = req[r].email /\ w = req[r].wallet
  BY <1>1 DEF RequestStates, Idle
<1>4. c # None /\ e # None /\ w # None
  BY NoneIsNobody
<1>5. CASE UNCHANGED <<slot, signed>>
  BY <1>1, <1>2, <1>5, IdleStands, RequestGoesOn
<1>6. ASSUME NEW s \in Slots, UNCHANGED slot, SignFor(s)
      PROVE  IInv'
  <2>1. PICK more \in SUBSET Grants :
          signed' = signed \cup more /\ \A g \in more : Holder(g.wallet)
    BY <1>6, SignsForHolder
  <2> QED
    BY <1>1, <1>2, <1>6, <2>1, IdleStands, RequestMoves
<1>7. ASSUME NEW s \in Reservation(c, e), MayBind(s, w), HeldBy(w) \subseteq {s},
             slot' = [slot EXCEPT ![s].holder = w, ![s].nonce = drawn'], SignFor(s)
      PROVE  IInv'
  <2> DEFINE row == [slot[s] EXCEPT !.holder = w, !.nonce = n]
             grant == [wallet |-> w, nonce |-> n]
  <2>1. /\ s \in Slots /\ slot[s] \in SlotRows
        /\ slot[s].reservation = c /\ slot[s].email = e
        /\ ~slot[s].minted /\ slot[s].holder \in {None, w}
    BY <1>7 DEF Reservation, MayBind, IInv, TypeOK
  <2>2. /\ row \in SlotRows /\ row.holder = w /\ row.nonce = n
        /\ ~row.minted /\ row.reservation = c /\ row.email = e
    BY <2>1 DEF SlotRows
  <2>3. slot' = [slot EXCEPT ![s] = row]
    BY <1>2, <1>7, <2>1 DEF IInv, TypeOK, SlotRows
  <2> HIDE DEF row
  <2>4. \A t \in Slots \ {s} :
          /\ row.holder # None => slot[t].holder # row.holder
          /\ row.email # None => slot[t].email # row.email
    BY <1>7, <2>1, <2>2 DEF HeldBy, IInv, IOneSlot
  <2>5. slot'[s] = row
    BY <2>1, <2>3 DEF IInv, TypeOK
  <2>6. /\ {grant} \in SUBSET Grants /\ signed' = signed \cup {grant}
        /\ \A g \in {grant} : Holder(g.wallet)'
    <3>1. slot'[s].holder = w /\ slot'[s].nonce = n /\ ~slot'[s].minted
      BY <2>2, <2>5
    <3>2. signed' = signed \cup {grant}
      BY <1>4, <1>7, <3>1 DEF SignFor
    <3>3. Holder(w)'
      BY <2>1, <3>1 DEF Holder
    <3> QED
      BY <3>2, <3>3 DEF Grants
  <2>7. /\ req' \in [Requests -> RequestStates]
        /\ \A p \in Requests : req'[p] = req[p] \/ RequestStands(req[p])'
    BY <1>1, IdleStands DEF Runs, IInv, TypeOK, RequestStands, Idle
  <2>8. /\ (row.reservation = None) = (row.email = None)
        /\ (row.holder = None) = (row.nonce = 0)
        /\ link[row.reservation].state # "unsent"
        /\ link[row.reservation].email = row.email
    BY <1>2, <1>4, <2>1, <2>2 DEF IInv, IReservations
  <2> HIDE DEF grant
  <2> QED
    BY ZenonT(40), <1>1, <1>2, <2>1, <2>2, <2>3, <2>4, <2>6, <2>7, <2>8, RowKeeps
<1>8. Reservation(c, e) \subseteq Slots
  BY DEF Reservation
<1> QED
  BY <1>3, <1>5, <1>6, <1>7, <1>8 DEF Bind
------------------------------------------------------------------------------
(* The reconciliation.                                                       *)

\* What a reconciliation does on the rows as they are: it moves the
\* reservation, or finds it moved already and changes nothing.
LEMMA ReconcileMoves ==
  ASSUME IInv, NEW r \in Requests, Reconcile(r)
  PROVE  \/ UNCHANGED slot
         \/ /\ req[r].from \in Slots /\ req[r].to \in Slots /\ req[r].from # req[r].to
            /\ Reserved(req[r].from, req[r].link, req[r].email)
            /\ slot[req[r].to].reservation = None
            /\ slot' = [slot EXCEPT
                 ![req[r].from] = [slot[req[r].from] EXCEPT !.reservation = None, !.email = None],
                 ![req[r].to] = [slot[req[r].to] EXCEPT !.reservation = req[r].link,
                                                        !.email = req[r].email]]
<1> DEFINE q == req[r]
<1>1. q \in RequestStates /\ RequestStands(q) /\ q.at = "moving"
  BY DEF Reconcile, IInv, TypeOK, IRequests
<1>2. /\ q.from \in Slots /\ q.to \in Slots /\ q.link # None /\ q.email # None /\ MoveStands(q)
  BY <1>1, NoneIsNobody DEF RequestStates, Idle, RequestStands
<1>3. slot' = [slot EXCEPT ![q.from] = Released(slot[q.from], q),
                           ![q.to] = Attached(slot[q.to], q)]
  BY DEF Reconcile
<1> HIDE DEF q
<1>4. CASE Reserved(q.to, q.link, q.email)
  <2>1. Released(slot[q.from], q) = slot[q.from]
    BY <1>2, <1>4 DEF Released, Reserved, MoveStands, IInv, IOneSlot
  <2>2. Attached(slot[q.to], q) = slot[q.to]
    BY <1>2, <1>4 DEF Attached, Reserved
  <2> QED
    BY <1>2, <1>3, <2>1, <2>2 DEF IInv, TypeOK
<1>5. CASE Reserved(q.from, q.link, q.email) /\ slot[q.to].reservation = None
  <2>1. Released(slot[q.from], q) = [slot[q.from] EXCEPT !.reservation = None, !.email = None]
    BY <1>5 DEF Released, Reserved
  <2>2. Attached(slot[q.to], q) = [slot[q.to] EXCEPT !.reservation = q.link, !.email = q.email]
    BY <1>2, <1>5 DEF Attached, MoveStands
  <2> QED
    BY <1>2, <1>3, <1>5, <2>1, <2>2 DEF q, MoveStands
<1> QED
  BY <1>2, <1>4, <1>5 DEF MoveStands

\* A reservation of the wallet's Email moves to the wallet's slot; from and to
\* are what they are read to be.
Moves(from, to, c, e, w) ==
  /\ from # to
  /\ Reserved(from, c, e)
  /\ slot[to].holder = w /\ slot[to].reservation = None /\ identity[e] = w
  /\ slot' = [slot EXCEPT
       ![from] = [slot[from] EXCEPT !.reservation = None, !.email = None],
       ![to] = [slot[to] EXCEPT !.reservation = c, !.email = e]]

\* Nothing but the reservation moves.
LEMMA MovedRows ==
  ASSUME IInv, NEW from \in Slots, NEW to \in Slots, NEW c \in Challenges, NEW e \in Emails,
         NEW w \in Wallets, Moves(from, to, c, e, w)
  PROVE  /\ slot' \in [Slots -> SlotRows]
         /\ \A s \in Slots : /\ slot'[s].holder = slot[s].holder
                             /\ slot'[s].nonce = slot[s].nonce
                             /\ slot'[s].minted = slot[s].minted
         /\ \A s \in Slots \ {from, to} : slot'[s] = slot[s]
         /\ slot'[from].reservation = None /\ slot'[from].email = None
         /\ slot'[to].reservation = c /\ slot'[to].email = e
<1> DEFINE rowf == [slot[from] EXCEPT !.reservation = None, !.email = None]
           rowt == [slot[to] EXCEPT !.reservation = c, !.email = e]
<1>1. slot[from] \in SlotRows /\ slot[to] \in SlotRows /\ slot \in [Slots -> SlotRows]
  BY DEF IInv, TypeOK
<1>2. /\ rowf \in SlotRows /\ rowf.reservation = None /\ rowf.email = None
      /\ rowf.holder = slot[from].holder /\ rowf.nonce = slot[from].nonce
      /\ rowf.minted = slot[from].minted
  BY <1>1 DEF SlotRows
<1>3. /\ rowt \in SlotRows /\ rowt.reservation = c /\ rowt.email = e
      /\ rowt.holder = slot[to].holder /\ rowt.nonce = slot[to].nonce
      /\ rowt.minted = slot[to].minted
  BY <1>1 DEF SlotRows
<1>4. slot' = [slot EXCEPT ![from] = rowf, ![to] = rowt] /\ from # to
  BY DEF Moves
<1> HIDE DEF rowf, rowt
<1>5. /\ slot' \in [Slots -> SlotRows] /\ slot'[from] = rowf /\ slot'[to] = rowt
      /\ \A s \in Slots \ {from, to} : slot'[s] = slot[s]
  BY <1>1, <1>2, <1>3, <1>4
<1>6. ASSUME NEW s \in Slots
      PROVE  /\ slot'[s].holder = slot[s].holder
             /\ slot'[s].nonce = slot[s].nonce
             /\ slot'[s].minted = slot[s].minted
  <2>1. CASE s = from
    BY <1>2, <1>5, <2>1
  <2>2. CASE s = to
    BY <1>3, <1>5, <2>2
  <2>3. CASE s \notin {from, to}
    BY <1>5, <2>3
  <2> QED
    BY <2>1, <2>2, <2>3
<1> QED
  BY <1>2, <1>3, <1>5, <1>6

\* What another request read holds after the move: its Email has another
\* identity and so another slot, or it meant to do the same.
LEMMA MoveStandsAgain ==
  ASSUME IInv, NEW from \in Slots, NEW to \in Slots, NEW c \in Challenges, NEW e \in Emails,
         NEW w \in Wallets, Moves(from, to, c, e, w), UNCHANGED <<link, identity>>,
         NEW p \in RequestStates, RequestStands(p), p.at = "moving"
  PROVE  MoveStands(p)'
<1>1. /\ p.from \in Slots /\ p.to \in Slots /\ p.link \in Challenges /\ p.email \in Emails
      /\ p.wallet \in Wallets /\ p.link # None /\ p.email # None /\ p.wallet # None
      /\ c # None /\ e # None /\ w # None
  BY NoneIsNobody DEF RequestStates, Idle
<1>2. MoveStands(p) /\ identity[p.email] = p.wallet
  BY DEF RequestStands
<1>3. /\ \A s \in Slots : slot'[s].holder = slot[s].holder
      /\ \A s \in Slots \ {from, to} : slot'[s] = slot[s]
      /\ slot'[from].reservation = None /\ slot'[to].reservation = c /\ slot'[to].email = e
  BY MovedRows
<1>4. /\ from # to /\ slot[from].reservation = c /\ slot[from].email = e
      /\ slot[to].holder = w /\ slot[to].reservation = None /\ identity[e] = w
  BY DEF Moves, Reserved
<1>5. p.wallet = w => p.email = e /\ p.to = to
  BY <1>1, <1>2, <1>4 DEF MoveStands, IInv, IIdentity, IOneSlot
<1>6. CASE Reserved(p.to, p.link, p.email)
  <2>1. p.to # to
    BY <1>1, <1>4, <1>6 DEF Reserved
  <2>2. p.to # from
    BY <1>2, <1>4, <1>5, <1>6, <2>1 DEF Reserved
  <2> QED
    BY <1>1, <1>2, <1>3, <1>6, <2>1, <2>2 DEF MoveStands, Reserved
<1>7. CASE Reserved(p.from, p.link, p.email) /\ slot[p.to].reservation = None
  <2>1. CASE p.from = from
    <3>1. p.link = c /\ p.email = e /\ p.wallet = w
      BY <1>2, <1>4, <1>7, <2>1 DEF Reserved
    <3>2. p.to = to
      BY <1>5, <3>1
    <3> QED
      BY <1>1, <1>2, <1>3, <3>1, <3>2 DEF MoveStands, Reserved
  <2>2. CASE p.from # from
    <3>1. p.from # to
      BY <1>1, <1>4, <1>7 DEF Reserved
    <3>2. slot'[p.from] = slot[p.from]
      BY <1>1, <1>3, <2>2, <3>1
    <3>3. p.email # e
      BY <1>1, <1>4, <1>7, <2>2 DEF Reserved, IInv, IOneSlot
    <3>4. p.to # to
      BY <1>2, <1>4, <1>5, <3>3 DEF MoveStands
    <3>5. slot'[p.to].reservation = None
      BY <1>1, <1>3, <1>7, <3>4
    <3> QED
      BY <1>1, <1>2, <1>3, <1>7, <3>2, <3>5 DEF MoveStands, Reserved
  <2> QED
    BY <2>1, <2>2
<1> QED
  BY <1>2, <1>6, <1>7 DEF MoveStands

LEMMA MoveKeeps ==
  ASSUME IInv, NEW from \in Slots, NEW to \in Slots, NEW c \in Challenges, NEW e \in Emails,
         NEW w \in Wallets, Moves(from, to, c, e, w),
         UNCHANGED <<link, sessions, identity, open, jobs, onchain, drawn>>,
         NEW r \in Requests, Runs(r, Idle),
         NEW more \in SUBSET Grants, signed' = signed \cup more,
         \A g \in more : Holder(g.wallet)
  PROVE  IInv'
<1>1. /\ slot' \in [Slots -> SlotRows]
      /\ \A s \in Slots : /\ slot'[s].holder = slot[s].holder
                          /\ slot'[s].nonce = slot[s].nonce
                          /\ slot'[s].minted = slot[s].minted
      /\ \A s \in Slots \ {from, to} : slot'[s] = slot[s]
      /\ slot'[from].reservation = None /\ slot'[from].email = None
      /\ slot'[to].reservation = c /\ slot'[to].email = e
  BY MovedRows
<1>2. /\ from # to /\ slot[from].reservation = c /\ slot[from].email = e
      /\ c # None /\ e # None
  BY NoneIsNobody DEF Moves, Reserved
<1>3. \A s \in Slots : /\ (slot'[s].reservation = None) = (slot'[s].email = None)
                       /\ (slot'[s].holder = None) = (slot'[s].nonce = 0)
  <2> SUFFICES ASSUME NEW s \in Slots
               PROVE  /\ (slot'[s].reservation = None) = (slot'[s].email = None)
                      /\ (slot'[s].holder = None) = (slot'[s].nonce = 0)
    OBVIOUS
  <2>1. (slot[s].reservation = None) = (slot[s].email = None)
    BY DEF IInv, TypeOK
  <2>2. (slot[s].holder = None) = (slot[s].nonce = 0)
    BY DEF IInv, TypeOK
  <2>3. (slot'[s].reservation = None) = (slot'[s].email = None)
    BY <1>1, <1>2, <2>1
  <2> QED
    BY <1>1, <2>2, <2>3
<1>4. TypeOK'
  BY <1>1, <1>3, IdleStands DEF IInv, TypeOK, Runs
<1>5. ILinks' /\ IIdentity'
  BY DEF IInv, ILinks, IIdentity
<1>6. IReservations'
  BY <1>1, <1>2 DEF IInv, IReservations
<1>7. IOneSlot'
  <2> SUFFICES ASSUME NEW s \in Slots, NEW t \in Slots, s # t
               PROVE  /\ slot'[s].holder = slot'[t].holder => slot'[s].holder = None
                      /\ slot'[s].email = slot'[t].email => slot'[s].email = None
    BY DEF IOneSlot
  <2>1. slot'[s].holder = slot'[t].holder => slot'[s].holder = None
    BY <1>1 DEF IInv, IOneSlot
  <2>2. \A u \in Slots \ {from, to} : slot'[u].email = slot[u].email /\ slot[u].email # e
    BY <1>1, <1>2 DEF IInv, IOneSlot
  <2>3. slot'[s].email = slot'[t].email => slot'[s].email = None
    BY <1>1, <2>2 DEF IInv, IOneSlot
  <2> QED
    BY <2>1, <2>3
<1>8. \A v : Holder(v) => Holder(v)'
  BY <1>1 DEF Holder
<1>9. IGrants'
  BY <1>1, <1>8 DEF IInv, IGrants, TypeOK
<1>10. ASSUME NEW p \in RequestStates, RequestStands(p)
       PROVE  RequestStands(p)'
  <2>1. p.at = "moving" => MoveStands(p)'
    BY <1>10, MoveStandsAgain
  <2>2. p.at = "relaying" => slot'[p.slot].holder = p.grant.wallet
    BY <1>1, <1>10 DEF RequestStands, RequestStates, Idle
  <2> QED
    BY <1>8, <1>10, <2>1, <2>2 DEF RequestStands
<1>11. IRequests'
  <2>1. RequestStands(Idle)'
    BY DEF RequestStands, Idle
  <2> QED
    BY <1>10, <2>1 DEF IInv, TypeOK, IRequests, Runs
<1> QED
  BY <1>4, <1>5, <1>6, <1>7, <1>9, <1>11 DEF IInv

LEMMA ReconcileKeeps ==
  ASSUME IInv, NEW r \in Requests, Reconcile(r)
  PROVE  IInv'
<1>1. /\ req[r].at = "moving" /\ Answer(r)
      /\ UNCHANGED <<link, sessions, identity, open, jobs, onchain, drawn>>
      /\ req[r] \in RequestStates /\ RequestStands(req[r])
  BY DEF Reconcile, IInv, TypeOK, IRequests
<1>2. CASE UNCHANGED slot
  BY <1>1, <1>2, AnswerKeeps
<1>3. CASE ~ UNCHANGED slot
  <2>0. /\ req[r].from \in Slots /\ req[r].to \in Slots /\ req[r].link \in Challenges
        /\ req[r].email \in Emails /\ req[r].wallet \in Wallets
        /\ req[r].nonce \in {0} \cup Nonces
    BY <1>1 DEF RequestStates, Idle
  <2>1. PICK from \in Slots, to \in Slots, c \in Challenges, e \in Emails, w \in Wallets,
             n \in {0} \cup Nonces :
          /\ from = req[r].from /\ to = req[r].to /\ c = req[r].link /\ e = req[r].email
          /\ w = req[r].wallet /\ n = req[r].nonce
    BY <2>0
  <2>2. Moves(from, to, c, e, w)
    BY <1>1, <1>3, <2>1, ReconcileMoves DEF Moves, RequestStands, MoveStands
  <2> DEFINE more == IF n = 0 THEN {} ELSE {[wallet |-> w, nonce |-> n]}
  <2>3. more \in SUBSET Grants /\ \A g \in more : Holder(g.wallet)
    BY <1>1, <2>1 DEF Grants, RequestStands
  <2>4. signed' = signed \cup more /\ Runs(r, Idle)
    BY <1>1, <2>1 DEF Answer
  <2> HIDE DEF more
  <2> QED
    BY <1>1, <2>2, <2>3, <2>4, MoveKeeps
<1> QED
  BY <1>2, <1>3
------------------------------------------------------------------------------
(* The invariant.                                                            *)

LEMMA RequestKeeps ==
  ASSUME IInv, NEW r \in Requests, Step(r, Wallets, Emails, Challenges)
  PROVE  IInv'
<1>1. CASE \E c \in Challenges : OpenLink(r, c)
  BY <1>1, OpenLinkKeeps
<1>2. CASE Reserve(r) \/ ConsumeLink(r)
  BY <1>2, ReserveKeeps, ConsumeLinkKeeps
<1>3. CASE \E c \in Challenges, e \in Emails, w \in Wallets : ReadForBind(r, c, e, w)
  BY <1>3, ReadForBindKeeps
<1>4. CASE Bind(r) \/ \E w \in Wallets : Claim(r, w)
  BY <1>4, BindKeeps, ClaimKeeps
<1>5. CASE FindIdentity(r) \/ \E e \in Emails, w \in Wallets : RecordIdentity(r, e, w)
  BY <1>5, FindIdentityKeeps, RecordIdentityKeeps
<1>6. CASE ReadReconcile(r) \/ Reconcile(r)
  BY <1>6, ReadReconcileKeeps, ReconcileKeeps
<1>7. CASE Relay(r) \/ \E s \in Slots : ReadForRelay(r, s)
  BY <1>7, RelayKeeps, ReadForRelayKeeps
<1>8. CASE Abandon(r)
  <2>1. /\ Runs(r, Idle) /\ drawn' \in 0..MaxNonces
        /\ UNCHANGED <<slot, link, sessions, identity, open, jobs, signed, onchain>>
    BY <1>8 DEF Abandon, db, IInv, TypeOK
  <2> QED
    BY <2>1, IdleStands, RequestGoesOn
<1> QED
  BY <1>1, <1>2, <1>3, <1>4, <1>5, <1>6, <1>7, <1>8 DEF Step

\* The event opens or closes, and the contract mints what was signed.
LEMMA SetOpenKeeps ==
  ASSUME IInv, NEW o \in BOOLEAN, SetOpen(o)
  PROVE  IInv'
<1>1. /\ UNCHANGED <<slot, link, sessions, identity, jobs, signed, onchain, drawn, req>>
      /\ open' \in BOOLEAN
  BY DEF SetOpen, db
<1>2. TypeOK'
  BY <1>1 DEF IInv, TypeOK
<1>3. ILinks' /\ IReservations' /\ IIdentity' /\ IOneSlot' /\ IGrants'
  BY <1>1 DEF IInv, ILinks, IReservations, IIdentity, IOneSlot, IGrants, Holder
<1>4. IRequests'
  BY <1>1 DEF IInv, IRequests, RequestStands, MoveStands, Reserved, Holder
<1> QED
  BY <1>2, <1>3, <1>4 DEF IInv

LEMMA MintKeeps ==
  ASSUME IInv, NEW g \in signed, Mint(g)
  PROVE  IInv'
<1>1. /\ UNCHANGED <<slot, link, sessions, identity, open, jobs, signed, drawn, req>>
      /\ onchain' = onchain \cup {g}
  BY DEF Mint, db
<1>2. TypeOK'
  BY <1>1 DEF IInv, TypeOK
<1>3. ILinks' /\ IReservations' /\ IIdentity' /\ IOneSlot' /\ IGrants'
  BY <1>1 DEF IInv, ILinks, IReservations, IIdentity, IOneSlot, IGrants, Holder
<1>4. IRequests'
  BY <1>1 DEF IInv, IRequests, RequestStands, MoveStands, Reserved, Holder
<1> QED
  BY <1>2, <1>3, <1>4 DEF IInv

\* No statement or batch of a route disturbs the invariant, whatever the other
\* requests have read and wherever they end.
THEOREM StepKeeps == IInv /\ [Next]_vars => IInv'
<1> SUFFICES ASSUME IInv, [Next]_vars PROVE IInv'
  OBVIOUS
<1>1. CASE \E r \in Requests : Step(r, Wallets, Emails, Challenges)
  BY <1>1, RequestKeeps
<1>2. CASE \E c \in Challenges, e \in Emails : SendLink(c, e)
  BY <1>2, SendLinkKeeps
<1>3. CASE \E o \in BOOLEAN : SetOpen(o)
  BY <1>3, SetOpenKeeps
<1>4. CASE \E c \in Challenges : LinkExpires(c)
  BY <1>4, LinkExpiresKeeps
<1>5. CASE \E g \in signed : Mint(g)
  BY <1>5, MintKeeps
<1>6. CASE \E s \in Slots : RecordMint(s)
  BY <1>6, RecordMintKeeps
<1>7. CASE UNCHANGED vars
  <2>1. TypeOK' /\ ILinks' /\ IReservations' /\ IIdentity' /\ IOneSlot' /\ IGrants'
    BY <1>7 DEF IInv, TypeOK, ILinks, IReservations, IIdentity, IOneSlot, IGrants, Holder, vars
  <2>2. IRequests'
    BY <1>7 DEF IInv, IRequests, RequestStands, MoveStands, Reserved, Holder, vars
  <2> QED
    BY <2>1, <2>2 DEF IInv
<1> QED
  BY <1>1, <1>2, <1>3, <1>4, <1>5, <1>6, <1>7 DEF Next, NextFor, Around

\* In every reachable state of the slot table: links, reservations, identities
\* and slots fit together, and what a running request has read still stands.
THEOREM Invariance == Spec => []IInv
BY Initially, StepKeeps, PTL DEF Spec

\* No wallet ever holds two slots of the event, no Email or reservation has two,
\* and a magic link never opens two sessions, whatever requests overlap, die or
\* arrive late: the unique indexes of migrations 0002 and 0004 reject no
\* statement but bind's (reserveLiveClaim, reserveClaimForVerifiedEmail,
\* reconcileEmailReservationsForWallet, consumeChallengeAndCreateSession).
THEOREM OneSlotEver == Spec => []OneSlotEach
BY Invariance, InvariantSuffices, PTL

\* Whoever was signed an authorization, has a mint job or a badge holds a slot
\* of the event, and every variable keeps its type: no statement of bind, claim
\* or reconciliation takes a slot from the wallet that was signed for.
THEOREM GrantsAreHeld == Spec => []GrantsHoldSlots
BY Invariance, InvariantSuffices, PTL

\* A step that writes rows keeps every reservation, on its slot or another.
LEMMA StepKeepsReservations ==
  ASSUME IInv, [Next]_vars, NEW s \in Slots, slot[s].reservation # None
  PROVE  \E t \in Slots : /\ slot'[t].reservation = slot[s].reservation
                          /\ slot'[t].email = slot[s].email
<1>1. CASE UNCHANGED slot
  BY <1>1
<1>2. ASSUME NEW r \in Requests, Reserve(r) PROVE slot'[s] = slot[s] \/ UNCHANGED slot
  BY <1>2 DEF Reserve, MayReserve, FirstFree, Free, IInv, TypeOK
<1>3. ASSUME NEW r \in Requests, Bind(r)
      PROVE  slot'[s].reservation = slot[s].reservation /\ slot'[s].email = slot[s].email
  BY ZenonT(40), <1>3 DEF Bind, IInv, TypeOK, SlotRows, Reservation
<1>4. ASSUME NEW r \in Requests, NEW w \in Wallets, Claim(r, w)
      PROVE  slot'[s] = slot[s]
  BY <1>4 DEF Claim, MayClaim, FirstFree, Free, IInv, TypeOK
<1>5. ASSUME NEW t \in Slots, RecordMint(t)
      PROVE  slot'[s].reservation = slot[s].reservation /\ slot'[s].email = slot[s].email
  BY <1>5 DEF RecordMint, IInv, TypeOK, SlotRows
<1>6. ASSUME NEW r \in Requests, Reconcile(r), ~ UNCHANGED slot
      PROVE  \E t \in Slots : /\ slot'[t].reservation = slot[s].reservation
                              /\ slot'[t].email = slot[s].email
  <2>1. req[r] \in RequestStates /\ RequestStands(req[r]) /\ req[r].at = "moving"
    BY <1>6 DEF Reconcile, IInv, TypeOK, IRequests
  <2>2. PICK from \in Slots, to \in Slots, c \in Challenges, e \in Emails, w \in Wallets :
          /\ from = req[r].from /\ to = req[r].to /\ c = req[r].link /\ e = req[r].email
          /\ w = req[r].wallet
    BY <2>1 DEF RequestStates, Idle
  <2>3. Moves(from, to, c, e, w)
    BY <1>6, <2>1, <2>2, ReconcileMoves DEF Moves, RequestStands, MoveStands
  <2>4. /\ \A t \in Slots \ {from, to} : slot'[t] = slot[t]
        /\ slot'[to].reservation = c /\ slot'[to].email = e
    BY <2>3, MovedRows
  <2>5. /\ slot[from].reservation = c /\ slot[from].email = e
        /\ slot[to].reservation = None
    BY <2>3 DEF Moves, Reserved
  <2> QED
    BY <2>4, <2>5
<1>7. \/ UNCHANGED slot
      \/ \E r \in Requests : \/ Reserve(r) \/ Bind(r) \/ Reconcile(r)
                             \/ \E w \in Wallets : Claim(r, w)
      \/ \E t \in Slots : RecordMint(t)
  BY ZenonT(40)
     DEF Next, NextFor, Step, Around, vars, db, OpenLink, ConsumeLink, ReadForBind, FindIdentity,
         RecordIdentity, ReadReconcile, ReadForRelay, Relay, Abandon, SendLink, SetOpen,
         LinkExpires, Mint
<1> QED
  BY <1>1, <1>2, <1>3, <1>4, <1>5, <1>6, <1>7

\* A verified Email that has a reservation keeps one, with the same id, through
\* every reconciliation: the two statements of
\* reconcileEmailReservationsForWallet work on rows that were read earlier, and
\* never drop what they were to move.
THEOREM ReservationIsKept == Spec => ReservationKept
<1>1. IInv /\ [Next]_vars =>
        [\A s \in Slots :
           slot[s].reservation # None =>
             \E t \in Slots : /\ slot'[t].reservation = slot[s].reservation
                              /\ slot'[t].email = slot[s].email]_vars
  BY StepKeepsReservations
<1> QED
  BY <1>1, Invariance, PTL DEF Spec, ReservationKept
==============================================================================
