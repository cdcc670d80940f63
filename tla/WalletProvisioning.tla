--------------------------- MODULE WalletProvisioning ---------------------------
(***************************************************************************)
(* Wallets that Magic generates for verified Email addresses                *)
(* (src/worker/wallet-provisioning.ts and the statements of                 *)
(* src/worker/email-wallets.ts): a request takes a lease of two minutes on  *)
(* the row of its Email, asks Magic for an address and records the answer   *)
(* only while the row still carries the lease it took. Requests for one     *)
(* Email overlap: the verification link, a second tab, a retry.             *)
(***************************************************************************)
EXTENDS Naturals, FiniteSets

CONSTANTS
    Emails, Requests, Addresses,
    WalletLease,      \* two minutes, in ticks
    MaxWalletFaults,  \* crashes and failures of Magic in a behaviour
    NoAddress

ASSUME WalletConstants ==
    /\ Emails # {} /\ WalletLease \in Nat /\ MaxWalletFaults \in Nat
    /\ NoAddress \notin Addresses /\ "none" \notin Requests /\ "gone" \notin Requests

VARIABLES
    wallet,       \* live_email_wallets
    request,      \* running requests
    generated,    \* external: the addresses Magic has generated for an Email
    shown,        \* addresses that were shown to the owner of an Email
    walletFaults

walletVars == <<wallet, request, generated, shown, walletFaults>>

(* `lease` stands for provisioning_started_at: the request that wrote it,   *)
(* or "gone" if that request has ended without an answer; `age` is the time *)
(* since then.                                                              *)
Leases == Requests \cup {"none", "gone"}

WalletTypeOK ==
    /\ wallet \in [Emails -> [status : {"absent", "provisioning", "ready", "failed"},
                              address : Addresses \cup {NoAddress},
                              lease : Leases, age : 0..(WalletLease + 1)]]
    /\ \A e \in Emails : wallet[e].status = "ready" <=> wallet[e].address # NoAddress
    /\ request \in [Requests -> [phase : {"idle", "begin", "ask", "ready", "failed", "reload"},
                                 email : Emails, address : Addresses \cup {NoAddress}]]
    /\ generated \in [Emails -> SUBSET Addresses]
    /\ shown \in [Emails -> SUBSET Addresses]
    /\ walletFaults \in 0..MaxWalletFaults

AnyEmail == CHOOSE e \in Emails : TRUE
NoRequest == [phase |-> "idle", email |-> AnyEmail, address |-> NoAddress]

WalletInit ==
    /\ wallet = [e \in Emails |-> [status |-> "absent", address |-> NoAddress,
                                   lease |-> "none", age |-> 0]]
    /\ request = [r \in Requests |-> NoRequest]
    /\ generated = [e \in Emails |-> {}]
    /\ shown = [e \in Emails |-> {}]
    /\ walletFaults = 0

-----------------------------------------------------------------------------
(* Is the row still in the attempt that request r began? *)
Holds(r) ==
    LET row == wallet[request[r].email]
    IN  row.status = "provisioning" /\ row.lease = r

(* What the answer of a request shows: the row, if it is ready. *)
ShownOf(e) == {wallet[e].address} \ {NoAddress}

(* A row that is ready is answered at once. *)
ReadWallet(r, e) ==
    /\ request[r].phase = "idle"
    /\ IF wallet[e].status = "ready"
       THEN shown' = [shown EXCEPT ![e] = @ \cup ShownOf(e)] /\ UNCHANGED request
       ELSE /\ request' = [request EXCEPT ![r] = [phase |-> "begin", email |-> e,
                                                  address |-> NoAddress]]
            /\ UNCHANGED shown
    /\ UNCHANGED <<wallet, generated, walletFaults>>

\* Mistake: a row is taken over though it has an address.
FreeAnyway(row) == row.status # "provisioning" \/ row.age > WalletLease

Free(row) ==
    /\ row.address = NoAddress
    /\ row.status # "provisioning" \/ row.age > WalletLease

(* beginEmailWalletProvisioning: a first row, or one without an address     *)
(* whose attempt has ended or is older than the lease.                      *)
BeginProvisioning(r) ==
    LET e == request[r].email
    IN  /\ request[r].phase = "begin"
        /\ IF Free(wallet[e])
           THEN /\ wallet' = [wallet EXCEPT ![e] = [status |-> "provisioning",
                                  address |-> NoAddress, lease |-> r, age |-> 0]]
                /\ request' = [request EXCEPT ![r].phase = "ask"]
           ELSE /\ request' = [request EXCEPT ![r].phase = "reload"]
                /\ UNCHANGED wallet
        /\ UNCHANGED <<generated, shown, walletFaults>>

(* Magic answers with an address; asked again for the same Email it need    *)
(* not answer with the same one.                                            *)
AskMagic(r, a) ==
    LET e == request[r].email IN
    /\ request[r].phase = "ask"
    /\ generated' = [generated EXCEPT ![e] = @ \cup {a}]
    /\ request' = [request EXCEPT ![r].phase = "ready", ![r].address = a]
    /\ UNCHANGED <<wallet, shown, walletFaults>>

\* Mistake: no unique index on the address.
TakenNever(e, a) == FALSE

Taken(e, a) == \E d \in Emails \ {e} : wallet[d].address = a

(* recordEmailWalletReady: refused if the attempt is another one, or by the *)
(* unique index if another Email has the address; then the failure is       *)
(* recorded.                                                                *)
RecordReady(r) ==
    LET e == request[r].email
        a == request[r].address
    IN  /\ request[r].phase = "ready"
        /\ IF Holds(r) /\ ~Taken(e, a)
           THEN /\ wallet' = [wallet EXCEPT ![e] = [status |-> "ready", address |-> a,
                                                    lease |-> "none", age |-> 0]]
                /\ request' = [request EXCEPT ![r].phase = "reload"]
           ELSE /\ request' = [request EXCEPT ![r].phase = "failed"]
                /\ UNCHANGED wallet
        /\ UNCHANGED <<generated, shown, walletFaults>>

RecordFailed(r) ==
    LET e == request[r].email IN
    /\ request[r].phase = "failed"
    /\ wallet' = IF Holds(r)
                 THEN [wallet EXCEPT ![e].status = "failed", ![e].lease = "none", ![e].age = 0]
                 ELSE wallet
    /\ request' = [request EXCEPT ![r].phase = "reload"]
    /\ UNCHANGED <<generated, shown, walletFaults>>

(* Where a request ends, the lease it leaves behind is nobody's. *)
Orphaned(r) ==
    [e \in Emails |-> IF wallet[e].lease = r THEN [wallet[e] EXCEPT !.lease = "gone"]
                      ELSE wallet[e]]

ReloadWallet(r) ==
    LET e == request[r].email IN
    /\ request[r].phase = "reload"
    /\ shown' = [shown EXCEPT ![e] = @ \cup ShownOf(e)]
    /\ wallet' = Orphaned(r)
    /\ request' = [request EXCEPT ![r] = NoRequest]
    /\ UNCHANGED <<generated, walletFaults>>

-----------------------------------------------------------------------------
WalletFault == walletFaults < MaxWalletFaults /\ walletFaults' = walletFaults + 1

(* Magic refuses, is unavailable, or generates the wallet and its answer is *)
(* lost or cannot be read.                                                  *)
MagicFails(r) ==
    /\ WalletFault
    /\ request[r].phase = "ask"
    /\ \E made \in SUBSET Addresses :
         /\ Cardinality(made) <= 1
         /\ generated' = [generated EXCEPT ![request[r].email] = @ \cup made]
    /\ request' = [request EXCEPT ![r].phase = "failed"]
    /\ UNCHANGED <<wallet, shown>>

(* The platform ends the request, or a statement fails. *)
WalletCrash(r) ==
    /\ WalletFault
    /\ request[r].phase # "idle"
    /\ wallet' = Orphaned(r)
    /\ request' = [request EXCEPT ![r] = NoRequest]
    /\ UNCHANGED <<generated, shown>>

WalletTick ==
    /\ wallet' = [e \in Emails |->
          IF wallet[e].status = "provisioning" /\ wallet[e].age <= WalletLease
          THEN [wallet[e] EXCEPT !.age = wallet[e].age + 1] ELSE wallet[e]]
    /\ UNCHANGED <<request, generated, shown, walletFaults>>

WalletStep(r) ==
    \/ BeginProvisioning(r) \/ RecordReady(r) \/ RecordFailed(r) \/ ReloadWallet(r)
    \/ \E a \in Addresses : AskMagic(r, a)

WalletNext ==
    \/ \E r \in Requests, e \in Emails : ReadWallet(r, e)
    \/ \E r \in Requests : WalletStep(r) \/ MagicFails(r) \/ WalletCrash(r)
    \/ WalletTick

WalletSpec == WalletInit /\ [][WalletNext]_walletVars

-----------------------------------------------------------------------------
(* An address that was ever shown to the owner of an Email is the one in    *)
(* the row, for good, whatever the later answers of Magic are.              *)
ShownIsKept ==
    \A e \in Emails : \A a \in shown[e] :
        wallet[e].status = "ready" /\ wallet[e].address = a

(* The address of an Email is one that Magic generated for that Email, and  *)
(* no other Email has it.                                                   *)
AddressIsItsOwn ==
    \A e \in Emails : wallet[e].address # NoAddress =>
        /\ wallet[e].address \in generated[e]
        /\ \A d \in Emails \ {e} : wallet[d].address # wallet[e].address

(* What an owner was told of an Email's wallet stays true, through leases    *)
(* that run out under a call to Magic, late answers and requests that die.  *)
WalletsAreKept == WalletTypeOK /\ ShownIsKept /\ AddressIsItsOwn
=============================================================================
