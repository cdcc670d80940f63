------------------------------ MODULE MintRelay ------------------------------
(***************************************************************************)
(* Sponsored minting for one relay shard (one chain and one relayer key).  *)
(*                                                                         *)
(*   - rows of live_mint_jobs and the claim rows they complete   (D1);     *)
(*   - the request handlers that create or revive a job;                   *)
(*   - the Durable Object MintRelayCoordinator: one alarm, one step at a   *)
(*     time, but a crash is possible at every await;                       *)
(*   - the relayer account: nonces, pending transactions, receipts.        *)
(*                                                                         *)
(* Time is abstract.  `due' says whether next_attempt_at has been reached, *)
(* and `age' whether the 120 s receipt timeout counted from submitted_at   *)
(* has run out; both advance in steps of their own.                        *)
(***************************************************************************)
EXTENDS Integers, FiniteSets

CONSTANTS
  NumJobs,      (* jobs of the shard, numbered by (created_at, job_id)     *)
  MaxInFlight,  (* MAX_IN_FLIGHT_MINTS, 8 in the code                      *)
  MaxAttempts,  (* attempts after which markMintJobRetry gives up, 8       *)
  MaxRevivals,  (* bound: revivals of a failed job, per job                *)
  MaxCrashes,   (* bound: coordinator crashes and wake calls that are lost *)
  MaxFaults     (* bound: RPC and chain faults (errors, evictions, ...)    *)

ASSUME MintRelayAssumption ==
  /\ NumJobs \in Nat \ {0}
  /\ MaxInFlight \in Nat \ {0}
  /\ MaxAttempts \in Nat \ {0}
  /\ MaxRevivals \in Nat
  /\ MaxCrashes \in Nat
  /\ MaxFaults \in Nat

VARIABLES
  job,         (* live_mint_jobs, one row per job ("absent" before INSERT) *)
  claim,       (* relay_tx_hash and minted_tx_hash of the job's claim row  *)
  request,     (* where the latest relay request for each job stands       *)
  co,          (* the coordinator's program counter and local variables    *)
  cachedNonce, (* nextNetworkNonce in Durable Object storage               *)
  alarm,       (* whether the Durable Object has an alarm set              *)
  pool,        (* broadcast transactions that are not mined yet            *)
  minted,      (* mined transactions that minted the badge                 *)
  reverted,    (* mined transactions that reverted                         *)
  chainNonce,  (* transactions of the relayer account mined so far         *)
  revivals,    (* how often each failed job was revived                    *)
  wakeLost,    (* a wake or an alarm was lost since the last cron run      *)
  crashes, faults (* budget spent                                          *)

rowVars == <<job, claim>>
objectVars == <<co, cachedNonce, alarm>>
chainVars == <<pool, minted, reverted, chainNonce>>
budgetVars == <<crashes, faults>>
vars == <<job, claim, request, co, cachedNonce, alarm, pool, minted, reverted,
          chainNonce, revivals, wakeLost, crashes, faults>>

-----------------------------------------------------------------------------
(* Rows, hashes and the coordinator's locals.                              *)

Jobs == 1 .. NumJobs
NoNonce == -1
Nonces == Nat \cup {NoNonce}

ActiveStatuses == {"pending", "submitting", "submitted", "retry"}
Statuses == ActiveStatuses \cup {"absent", "confirmed", "failed"}

\* A transaction hash identifies the job, the attempt and the account nonce
\* it was signed for.  The collector's own transaction has attempt 0.
Hashes == [job : Nat, attempt : Nat, nonce : Nonces]
NoHash == [job |-> 0, attempt |-> 0, nonce |-> NoNonce]
OwnTransaction(j) == [job |-> j, attempt |-> 0, nonce |-> NoNonce]

JobRows == [status : Statuses, nonce : Nonces, attempts : Nat, hash : Hashes,
            due : BOOLEAN, age : {"unsubmitted", "fresh", "overdue"}]
ClaimRows == [relay : Hashes, minted : Hashes]

CoPcs == {"idle", "running", "acquired", "cached", "sent", "errored",
          "retried", "finishing"}
Errors == {"none", "nonceTooLow", "expired", "other"}
CoStates == [pc : CoPcs, job : Nat, attempts : Nat, hash : Hashes,
             nonce : Nonces, error : Errors]

\* Locals are forgotten when processOne returns.
At(pc) == [pc |-> pc, job |-> 0, attempts |-> 0, hash |-> NoHash,
           nonce |-> NoNonce, error |-> "none"]

TypeOK ==
  /\ job \in [Jobs -> JobRows]
  /\ claim \in [Jobs -> ClaimRows]
  /\ request \in [Jobs -> {"idle", "read", "wake"}]
  /\ co \in CoStates
  /\ co.pc \in {"acquired", "cached", "sent", "errored"} => co.job \in Jobs
  /\ cachedNonce \in Nonces
  /\ alarm \in BOOLEAN
  /\ pool \subseteq Hashes
  /\ minted \subseteq Hashes
  /\ reverted \subseteq Hashes
  /\ chainNonce \in Nat
  /\ revivals \in [Jobs -> Nat]
  /\ wakeLost \in BOOLEAN
  /\ crashes \in Nat
  /\ faults \in Nat

-----------------------------------------------------------------------------
(* Queries.                                                                *)

Active == {j \in Jobs : job[j].status \in ActiveStatuses}
InFlight == {j \in Jobs : job[j].status \in {"submitting", "submitted"}}

\* hasClaimed of the badge contract, read by hasMintedBadge.
HasMinted(j) == \E h \in minted : h.job = j

\* Mistake: a job that was left in "submitting" by a crash is not picked up.
SchedulableWithoutSubmitting ==
  {j \in Active : /\ job[j].status # "submitting"
                  /\ \/ job[j].status # "pending"
                     \/ Cardinality(InFlight) < MaxInFlight}

\* The WHERE clause shared by fetchNextMintJob and nextMintJobDueAt.
Schedulable ==
  {j \in Active : \/ job[j].status # "pending"
                  \/ Cardinality(InFlight) < MaxInFlight}

Rank(status) == CASE status \in {"retry", "submitting"} -> 0
                  [] status = "pending" -> 1
                  [] OTHER -> 2

Before(i, j) == \/ Rank(job[i].status) < Rank(job[j].status)
                \/ Rank(job[i].status) = Rank(job[j].status) /\ i < j

NextMintJob(j) ==
  LET ready == {i \in Schedulable : job[i].due}
  IN  j \in ready /\ \A i \in ready \ {j} : Before(j, i)

\* eth_getTransactionCount(pending): the mined nonces and a run of pending
\* ones.  A provider that lags behind the pool reports a shorter run.
PendingCounts ==
  {n \in chainNonce .. chainNonce + Cardinality(pool) :
     \A m \in chainNonce .. n - 1 : \E h \in pool : h.nonce = m}

\* Mistake: the nonces that D1 holds for other jobs are not looked at.
NextNetworkNonceFromChain(base) == {base}

\* nextMintJobNetworkNonce: above the base and above every active job's nonce
\* (an unset nonce contributes 0, which never exceeds the base).
NextNetworkNonce(base) ==
  LET candidates == {base} \cup {job[j].nonce + 1 : j \in Active}
  IN  {n \in candidates : \A m \in candidates : m <= n}

NonceBases == IF cachedNonce # NoNonce THEN {cachedNonce} ELSE PendingCounts

NonceFor(j, base) ==
  IF job[j].nonce # NoNonce THEN {job[j].nonce} ELSE NextNetworkNonce(base)

\* A step that needs an RPC or chain fault to happen pays for it.
Spend(needed) == /\ needed => faults < MaxFaults
                 /\ faults' = faults + (IF needed THEN 1 ELSE 0)

-----------------------------------------------------------------------------
Init ==
  /\ job = [j \in Jobs |-> [status |-> "absent", nonce |-> NoNonce,
                            attempts |-> 0, hash |-> NoHash,
                            due |-> FALSE, age |-> "unsubmitted"]]
  /\ claim = [j \in Jobs |-> [relay |-> NoHash, minted |-> NoHash]]
  /\ request = [j \in Jobs |-> "idle"]
  /\ co = At("idle")
  /\ cachedNonce = NoNonce
  /\ alarm = FALSE
  /\ pool = {} /\ minted = {} /\ reverted = {}
  /\ chainNonce = 0
  /\ revivals = [j \in Jobs |-> 0]
  /\ wakeLost = FALSE
  /\ crashes = 0 /\ faults = 0

-----------------------------------------------------------------------------
(* Row updates used by more than one step.                                 *)

\* COALESCE(transaction_hash, ?)
FirstHash(j, hash) == IF job[j].hash = NoHash THEN hash ELSE job[j].hash

\* COALESCE(submitted_at, ?): a resubmission does not restart the timeout.
SubmittedAge(j) == IF job[j].age = "unsubmitted" THEN "fresh" ELSE job[j].age

AfterRetry(attempts) == IF attempts + 1 >= MaxAttempts THEN "failed" ELSE "retry"

KeptNonce(j, resetNonce) == IF resetNonce THEN NoNonce ELSE job[j].nonce

\* markMintJobConfirmed: without a hash the claim row is left alone.
MarkConfirmed(j, hash) ==
  /\ job' = [job EXCEPT ![j] =
               [@ EXCEPT !.status = "confirmed", !.due = FALSE,
                         !.hash = FirstHash(j, hash)]]
  /\ claim' = IF hash # NoHash /\ claim[j].minted \in {NoHash, hash}
              THEN [claim EXCEPT ![j] = [relay |-> hash, minted |-> hash]]
              ELSE claim

\* Mistake: every retry asks for a new nonce.
MarkRetryWithNewNonce(j, attempts, resetNonce) ==
  /\ job' = [job EXCEPT ![j] =
               [@ EXCEPT !.status = AfterRetry(attempts), !.due = FALSE,
                         !.nonce = NoNonce]]
  /\ UNCHANGED claim

\* Mistake: the last attempt is not made.
MarkRetryGivesUpEarly(j, attempts, resetNonce) ==
  /\ job' = [job EXCEPT ![j] =
               [@ EXCEPT !.status = AfterRetry(attempts + 1), !.due = FALSE,
                         !.nonce = KeptNonce(j, resetNonce)]]
  /\ UNCHANGED claim

\* Mistake: a job whose attempts are spent is tried again.
MarkRetryForEver(j, attempts, resetNonce) ==
  /\ job' = [job EXCEPT ![j] =
               [@ EXCEPT !.status = "retry", !.due = FALSE,
                         !.nonce = KeptNonce(j, resetNonce)]]
  /\ UNCHANGED claim

\* markMintJobRetry: `attempts' is the count read when the job was fetched.
MarkRetry(j, attempts, resetNonce) ==
  /\ job' = [job EXCEPT ![j] =
               [@ EXCEPT !.status = AfterRetry(attempts), !.due = FALSE,
                         !.nonce = KeptNonce(j, resetNonce)]]
  /\ UNCHANGED claim

-----------------------------------------------------------------------------
(* Relay requests.  Each await of the handler is a step: the claim row is  *)
(* read, the job is created or reused, and the wake call runs afterwards.  *)

ReadClaim(j) ==
  /\ request[j] = "idle"
  /\ claim[j].relay = NoHash /\ claim[j].minted = NoHash
  /\ request' = [request EXCEPT ![j] = "read"]
  /\ UNCHANGED <<rowVars, objectVars, chainVars, budgetVars, revivals, wakeLost>>

\* Jobs are numbered in creation order, hence the guard on smaller numbers.
CreateJob(j) ==
  /\ request[j] = "read" /\ job[j].status = "absent"
  /\ \A i \in Jobs : i < j => job[i].status # "absent"
  /\ job' = [job EXCEPT ![j] = [@ EXCEPT !.status = "pending", !.due = TRUE]]
  /\ request' = [request EXCEPT ![j] = "wake"]
  /\ UNCHANGED <<claim, objectVars, chainVars, budgetVars, revivals, wakeLost>>

\* Mistake: reactivateMintJob without its condition on the status.
ReviveAnyJob(j) ==
  /\ request[j] = "read" /\ job[j].status # "absent"
  /\ revivals[j] < MaxRevivals
  /\ job' = [job EXCEPT ![j] = [@ EXCEPT !.status = "retry", !.due = TRUE]]
  /\ revivals' = [revivals EXCEPT ![j] = @ + 1]
  /\ request' = [request EXCEPT ![j] = "wake"]
  /\ UNCHANGED <<claim, objectVars, chainVars, budgetVars, wakeLost>>

ReviveJob(j) ==
  /\ request[j] = "read" /\ job[j].status = "failed"
  /\ revivals[j] < MaxRevivals
  /\ job' = [job EXCEPT ![j] = [@ EXCEPT !.status = "retry", !.due = TRUE]]
  /\ revivals' = [revivals EXCEPT ![j] = @ + 1]
  /\ request' = [request EXCEPT ![j] = "wake"]
  /\ UNCHANGED <<claim, objectVars, chainVars, budgetVars, wakeLost>>

ReuseJob(j) ==
  /\ request[j] = "read" /\ job[j].status \in ActiveStatuses \cup {"confirmed"}
  /\ request' = [request EXCEPT ![j] = "wake"]
  /\ UNCHANGED <<rowVars, objectVars, chainVars, budgetVars, revivals, wakeLost>>

Wake(j) ==
  /\ request[j] = "wake"
  /\ request' = [request EXCEPT ![j] = "idle"]
  /\ alarm' = TRUE
  /\ UNCHANGED <<rowVars, co, cachedNonce, chainVars, budgetVars, revivals, wakeLost>>

\* waitUntil gives no guarantee: the isolate may end before the call.
LoseWake(j) ==
  /\ request[j] = "wake" /\ crashes < MaxCrashes
  /\ request' = [request EXCEPT ![j] = "idle"]
  /\ wakeLost' = TRUE
  /\ crashes' = crashes + 1
  /\ UNCHANGED <<rowVars, objectVars, chainVars, faults, revivals>>

\* recoverMintRelays, run by the minute cron for every shard with active jobs.
RecoverMintRelays ==
  /\ Active # {}
  /\ alarm' = TRUE
  /\ wakeLost' = FALSE
  /\ UNCHANGED <<rowVars, request, co, cachedNonce, chainVars, budgetVars, revivals>>

-----------------------------------------------------------------------------
(* The coordinator.  alarm() runs processOne and then scheduleNext; only   *)
(* this object writes the rows of active jobs, so reads of D1 or of the    *)
(* chain that precede a single write are one step with it.                 *)

AlarmFires ==
  /\ co.pc = "idle" /\ alarm
  /\ alarm' = FALSE
  /\ co' = At("running")
  /\ UNCHANGED <<rowVars, request, cachedNonce, chainVars, budgetVars, revivals, wakeLost>>

\* Nothing is due, or a poll's hasClaimed read throws out of processOne.
NothingProcessed ==
  /\ co.pc = "running"
  /\ \/ (\A j \in Jobs : ~NextMintJob(j)) /\ Spend(FALSE)
     \/ (\E j \in Jobs : NextMintJob(j) /\ job[j].status = "submitted") /\ Spend(TRUE)
  /\ co' = At("finishing")
  /\ UNCHANGED <<rowVars, request, cachedNonce, alarm, chainVars, revivals, wakeLost, crashes>>

Polls(j) == /\ co.pc = "running" /\ NextMintJob(j)
            /\ job[j].status = "submitted" /\ job[j].hash # NoHash

\* Mistake: any receipt confirms the mint.
PollConfirmsAnyReceipt(j) ==
  /\ Polls(j) /\ job[j].hash \in minted \cup reverted
  /\ MarkConfirmed(j, job[j].hash)
  /\ co' = At("finishing")
  /\ UNCHANGED <<request, cachedNonce, alarm, chainVars, budgetVars, revivals, wakeLost>>

\* Mistake: a nonce that is used up is taken for the job's own receipt.
PollConfirmsByNonce(j) ==
  /\ Polls(j) /\ job[j].hash \notin reverted /\ job[j].nonce < chainNonce
  /\ MarkConfirmed(j, job[j].hash)
  /\ co' = At("finishing")
  /\ UNCHANGED <<request, cachedNonce, alarm, chainVars, budgetVars, revivals, wakeLost>>

\* The receipt holds the exact mint log.
PollConfirms(j) ==
  /\ Polls(j) /\ job[j].hash \in minted
  /\ MarkConfirmed(j, job[j].hash)
  /\ co' = At("finishing")
  /\ UNCHANGED <<request, cachedNonce, alarm, chainVars, budgetVars, revivals, wakeLost>>

\* Mistake: no receipt timeout.
PollPendingForEver(j) ==
  /\ Polls(j)
  /\ Spend(job[j].hash \in minted \cup reverted)
  /\ job' = [job EXCEPT ![j] = [@ EXCEPT !.due = FALSE]]
  /\ co' = At("finishing")
  /\ UNCHANGED <<claim, request, cachedNonce, alarm, chainVars, revivals, wakeLost, crashes>>

\* rescheduleMintJob; with a receipt on chain this takes a failing provider.
PollPending(j) ==
  /\ Polls(j) /\ job[j].age # "overdue"
  /\ Spend(job[j].hash \in minted \cup reverted)
  /\ job' = [job EXCEPT ![j] = [@ EXCEPT !.due = FALSE]]
  /\ co' = At("finishing")
  /\ UNCHANGED <<claim, request, cachedNonce, alarm, chainVars, revivals, wakeLost, crashes>>

\* Mistake: a poll without a receipt gives up before the timeout.
GivesUpAtOnce(j) == Polls(j) /\ Spend(job[j].hash \in minted)

\* Timed out or reverted: the badge may have been minted all the same.
GivesUp(j) == /\ Polls(j)
              /\ \/ job[j].age = "overdue" /\ Spend(job[j].hash \in minted)
                 \/ job[j].hash \in reverted /\ Spend(FALSE)

PollFindsBadge(j) ==
  /\ GivesUp(j) /\ HasMinted(j)
  /\ MarkConfirmed(j, job[j].hash)
  /\ co' = At("finishing")
  /\ UNCHANGED <<request, cachedNonce, alarm, chainVars, revivals, wakeLost, crashes>>

PollRetries(j) ==
  /\ GivesUp(j) /\ ~HasMinted(j)
  /\ MarkRetry(j, job[j].attempts, FALSE)
  /\ co' = At("retried")
  /\ UNCHANGED <<request, cachedNonce, alarm, chainVars, revivals, wakeLost, crashes>>

Submits(j) == co.pc = "running" /\ NextMintJob(j) /\ job[j].status # "submitted"

SubmitFindsBadge(j) ==
  /\ Submits(j) /\ HasMinted(j)
  /\ MarkConfirmed(j, job[j].hash)
  /\ co' = At("finishing")
  /\ UNCHANGED <<request, cachedNonce, alarm, chainVars, budgetVars, revivals, wakeLost>>

Snapshot(j, pc, nonce, error) ==
  [pc |-> pc, job |-> j, attempts |-> job[j].attempts, hash |-> job[j].hash,
   nonce |-> nonce, error |-> error]

\* An RPC or D1 error before markMintJobSubmitting.
SubmitFails(j) ==
  /\ Submits(j) /\ Spend(TRUE)
  /\ co' = Snapshot(j, "errored", NoNonce, "other")
  /\ UNCHANGED <<rowVars, request, cachedNonce, alarm, chainVars, revivals, wakeLost, crashes>>

MarkSubmitting(j) ==
  /\ Submits(j) /\ ~HasMinted(j)
  /\ \E base \in NonceBases : \E n \in NonceFor(j, base) :
       /\ job' = [job EXCEPT ![j] =
                    [@ EXCEPT !.status = "submitting", !.nonce = n,
                              !.attempts = job[j].attempts + 1, !.due = FALSE]]
       /\ co' = Snapshot(j, "acquired", n, "none")
  /\ UNCHANGED <<claim, request, cachedNonce, alarm, chainVars, budgetVars, revivals, wakeLost>>

PutNextNonce ==
  /\ co.pc = "acquired"
  /\ cachedNonce' = IF cachedNonce > co.nonce + 1 THEN cachedNonce ELSE co.nonce + 1
  /\ co' = [co EXCEPT !.pc = "cached"]
  /\ UNCHANGED <<rowVars, request, alarm, chainVars, budgetVars, revivals, wakeLost>>

Transaction == [job |-> co.job, attempt |-> co.attempts + 1, nonce |-> co.nonce]

\* The transaction enters the pool in place of one with the same nonce.
Broadcast ==
  /\ co.nonce >= chainNonce
  /\ pool' = {h \in pool : h.nonce # co.nonce} \cup {Transaction}
  /\ UNCHANGED <<minted, reverted, chainNonce>>

RelayAccepted ==
  /\ co.pc = "cached" /\ Broadcast
  /\ co' = [co EXCEPT !.pc = "sent"]
  /\ UNCHANGED <<rowVars, request, cachedNonce, alarm, budgetVars, revivals, wakeLost>>

RelayResponseLost ==
  /\ co.pc = "cached" /\ Broadcast /\ Spend(TRUE)
  /\ co' = [co EXCEPT !.pc = "errored", !.error = "other"]
  /\ UNCHANGED <<rowVars, request, cachedNonce, alarm, revivals, wakeLost, crashes>>

\* The gas estimate of a mint that was already made reverts.
RelayRejected ==
  /\ co.pc = "cached"
  /\ \E error \in {"nonceTooLow", "expired", "other"} :
       /\ error = "nonceTooLow" => co.nonce < chainNonce
       /\ Spend(error # "nonceTooLow" /\ ~HasMinted(co.job))
       /\ co' = [co EXCEPT !.pc = "errored", !.error = error]
  /\ UNCHANGED <<rowVars, request, cachedNonce, alarm, chainVars, revivals, wakeLost, crashes>>

\* A failing write: D1 after markMintJobSubmitting or the broadcast, or the
\* storage put.
WriteFails ==
  /\ co.pc \in {"acquired", "sent"} /\ Spend(TRUE)
  /\ co' = [co EXCEPT !.pc = "errored", !.error = "other"]
  /\ UNCHANGED <<rowVars, request, cachedNonce, alarm, chainVars, revivals, wakeLost, crashes>>

\* Mistake: the hash of the first attempt is kept, as submitted_at is.
MarkSubmittedKeepsHash ==
  /\ co.pc = "sent"
  /\ job' = [job EXCEPT ![co.job] =
               [@ EXCEPT !.status = "submitted",
                         !.hash = FirstHash(co.job, Transaction),
                         !.due = FALSE, !.age = SubmittedAge(co.job)]]
  /\ claim' = IF claim[co.job].minted = NoHash
              THEN [claim EXCEPT ![co.job] = [@ EXCEPT !.relay = Transaction]]
              ELSE claim
  /\ co' = At("finishing")
  /\ UNCHANGED <<request, cachedNonce, alarm, chainVars, budgetVars, revivals, wakeLost>>

MarkSubmitted ==
  /\ co.pc = "sent"
  /\ job' = [job EXCEPT ![co.job] =
               [@ EXCEPT !.status = "submitted", !.hash = Transaction,
                         !.due = FALSE, !.age = SubmittedAge(co.job)]]
  /\ claim' = IF claim[co.job].minted = NoHash
              THEN [claim EXCEPT ![co.job] = [@ EXCEPT !.relay = Transaction]]
              ELSE claim
  /\ co' = At("finishing")
  /\ UNCHANGED <<request, cachedNonce, alarm, chainVars, budgetVars, revivals, wakeLost>>

-----------------------------------------------------------------------------
(* The catch block.                                                        *)

CatchFindsBadge ==
  /\ co.pc = "errored" /\ HasMinted(co.job)
  /\ MarkConfirmed(co.job, co.hash)
  /\ co' = At("finishing")
  /\ UNCHANGED <<request, cachedNonce, alarm, chainVars, budgetVars, revivals, wakeLost>>

\* The second hasClaimed read may fail too; its error is swallowed.
BadgeNotFound == co.pc = "errored" /\ Spend(HasMinted(co.job))

RenewAuthorization ==
  /\ BadgeNotFound /\ co.error = "expired"
  /\ job' = IF job[co.job].status = "confirmed" THEN job
            ELSE [job EXCEPT ![co.job] =
                    [@ EXCEPT !.status = "retry", !.due = TRUE]]
  /\ co' = At("finishing")
  /\ UNCHANGED <<claim, request, cachedNonce, alarm, chainVars, revivals, wakeLost, crashes>>

CatchRetries ==
  /\ BadgeNotFound /\ co.error # "expired"
  /\ MarkRetry(co.job, co.attempts, co.error = "nonceTooLow")
  /\ co' = At("retried")
  /\ UNCHANGED <<request, cachedNonce, alarm, chainVars, revivals, wakeLost, crashes>>

DropNextNonce ==
  /\ co.pc = "retried"
  /\ cachedNonce' = NoNonce
  /\ co' = At("finishing")
  /\ UNCHANGED <<rowVars, request, alarm, chainVars, budgetVars, revivals, wakeLost>>

\* Mistake: submitted jobs are left for the next request to poll.
ScheduleNextWithoutSubmitted ==
  /\ co.pc = "finishing"
  /\ LET waiting == {j \in Schedulable : job[j].status # "submitted"}
     IN  \/ waiting # {} /\ alarm' = TRUE /\ UNCHANGED cachedNonce
         \/ waiting = {} /\ cachedNonce' = NoNonce /\ UNCHANGED alarm
  /\ co' = At("idle")
  /\ UNCHANGED <<rowVars, request, chainVars, budgetVars, revivals, wakeLost>>

ScheduleNext ==
  /\ co.pc = "finishing"
  /\ \/ /\ Schedulable # {}
        /\ alarm' = TRUE
        /\ UNCHANGED cachedNonce
     \/ /\ Schedulable = {}
        /\ cachedNonce' = NoNonce
        /\ UNCHANGED alarm
  /\ co' = At("idle")
  /\ UNCHANGED <<rowVars, request, chainVars, budgetVars, revivals, wakeLost>>

\* The object is evicted or an error escapes alarm().  The platform runs the
\* alarm again, until it has no retries left.
Crash ==
  /\ co.pc # "idle" /\ crashes < MaxCrashes
  /\ crashes' = crashes + 1
  /\ co' = At("idle")
  /\ alarm' \in {TRUE, alarm}
  /\ wakeLost' = (wakeLost \/ ~alarm')
  /\ UNCHANGED <<rowVars, request, cachedNonce, chainVars, faults, revivals>>

-----------------------------------------------------------------------------
(* The collector, the chain and the clock.                                 *)

\* The claim response carries the authorization; the collector may use it.
CollectorMints(j) ==
  /\ ~HasMinted(j)
  /\ minted' = minted \cup {OwnTransaction(j)}
  /\ UNCHANGED <<rowVars, request, objectVars, pool, reverted, chainNonce,
                 budgetVars, revivals, wakeLost>>

\* POST .../mints: any transaction that minted this badge is accepted once.
RecordMint(j) ==
  /\ \E h \in minted :
       /\ h.job = j /\ claim[j].minted = NoHash
       /\ claim' = [claim EXCEPT ![j] = [@ EXCEPT !.minted = h]]
  /\ UNCHANGED <<job, request, objectVars, chainVars, budgetVars, revivals, wakeLost>>

\* The next transaction of the relayer account is included; the contract
\* mints at most once per recipient, so a second mint reverts.
Mine(h) ==
  /\ h \in pool /\ h.nonce = chainNonce
  /\ pool' = pool \ {h}
  /\ chainNonce' = chainNonce + 1
  /\ \/ /\ ~HasMinted(h.job) /\ Spend(FALSE)
        /\ minted' = minted \cup {h}
        /\ UNCHANGED reverted
     \/ /\ Spend(~HasMinted(h.job))
        /\ reverted' = reverted \cup {h}
        /\ UNCHANGED minted
  /\ UNCHANGED <<rowVars, request, objectVars, crashes, revivals, wakeLost>>

Evict(h) ==
  /\ h \in pool /\ Spend(TRUE)
  /\ pool' = pool \ {h}
  /\ UNCHANGED <<rowVars, request, objectVars, minted, reverted, chainNonce,
                 crashes, revivals, wakeLost>>

BecomesDue(j) ==
  /\ j \in Active /\ ~job[j].due
  /\ job' = [job EXCEPT ![j] = [@ EXCEPT !.due = TRUE]]
  /\ UNCHANGED <<claim, request, objectVars, chainVars, budgetVars, revivals, wakeLost>>

\* The job's transaction is in the pool and no nonce below it is missing there,
\* or a job is about to broadcast one that is.
MayBeMined(j) ==
  LET missing == {m \in chainNonce .. job[j].nonce : \A h \in pool : h.nonce # m}
  IN  /\ job[j].hash \in pool
      /\ \/ missing = {}
         \/ \E i \in Active : /\ job[i].status \in {"submitting", "retry"}
                             /\ job[i].nonce \in missing

\* 120 s have passed since submitted_at, which matters to an active job only.
\* While the transaction polled can still be mined that takes a congested chain.
TimesOut(j) ==
  /\ j \in Active /\ job[j].age = "fresh"
  /\ Spend(job[j].status = "submitted" /\ MayBeMined(j))
  /\ job' = [job EXCEPT ![j] = [@ EXCEPT !.age = "overdue"]]
  /\ UNCHANGED <<claim, request, objectVars, chainVars, crashes, revivals, wakeLost>>

-----------------------------------------------------------------------------
Request(j) == ReadClaim(j) \/ CreateJob(j) \/ ReviveJob(j) \/ ReuseJob(j)
                \/ Wake(j) \/ LoseWake(j)

ProcessOne(j) ==
  \/ PollConfirms(j) \/ PollPending(j) \/ PollFindsBadge(j) \/ PollRetries(j)
  \/ SubmitFindsBadge(j) \/ SubmitFails(j) \/ MarkSubmitting(j)

Relay == PutNextNonce \/ RelayAccepted \/ RelayResponseLost \/ RelayRejected
           \/ WriteFails \/ MarkSubmitted

Catch == CatchFindsBadge \/ RenewAuthorization \/ CatchRetries \/ DropNextNonce

Coordinator == AlarmFires \/ NothingProcessed \/ (\E j \in Jobs : ProcessOne(j))
                 \/ Relay \/ Catch \/ ScheduleNext

Clock(j) == BecomesDue(j) \/ TimesOut(j)

Chain == \E h \in pool : Mine(h) \/ Evict(h)

Collector(j) == CollectorMints(j) \/ RecordMint(j)

Next == \/ \E j \in Jobs : Request(j) \/ Clock(j) \/ Collector(j)
        \/ Coordinator
        \/ Crash
        \/ RecoverMintRelays
        \/ Chain

Spec == Init /\ [][Next]_vars

\* The platform runs alarms and the minute cron, a request handler that has
\* read its claim finishes, delays end, and the chain includes the next
\* transaction. Time passes for a job whose transaction cannot be mined; one
\* that can need not time out. Nobody has to send a request, and nothing has
\* to fail.
Fairness ==
  /\ WF_vars(Coordinator)
  /\ WF_vars(RecoverMintRelays)
  /\ WF_vars(\E h \in pool : Mine(h))
  /\ \A j \in Jobs :
       /\ WF_vars(CreateJob(j) \/ ReviveJob(j) \/ ReuseJob(j))
       /\ WF_vars(Wake(j))
       /\ WF_vars(BecomesDue(j))
       /\ WF_vars(job[j].status = "submitted" /\ ~MayBeMined(j) /\ TimesOut(j))

FairSpec == Spec /\ Fairness

-----------------------------------------------------------------------------
(* The promise that the relay implements.                                  *)

\* mintJobPublicStatus.
PublicStatus(j) == CASE job[j].status = "confirmed" -> "minted"
                     [] job[j].status \in ActiveStatuses -> "minting"
                     [] OTHER -> job[j].status

Promise == INSTANCE MintPromise
             WITH public <- [j \in Jobs |-> PublicStatus(j)],
                  onchain <- [j \in Jobs |-> HasMinted(j)]

\* What a collector is told: the public status of every job moves as the
\* promise allows, whatever the coordinator, the node and the alarms do.
PromiseKept == Promise!Spec

-----------------------------------------------------------------------------
(* Properties.                                                             *)

\* A job is never paid for twice at once: every pending transaction of a job
\* carries the job's current account nonce, so at most one can be included.
\* (network_nonce is kept over retries and crashes, and dropped only after the
\* node has called it too low.)
OneLiveTransactionPerJob ==
  \A h \in pool : h.nonce = job[h.job].nonce

\* Two active jobs share an account nonce only if one of them was revived
\* after it failed (nextMintJobNetworkNonce looks at active jobs only, and
\* reactivateMintJob brings an old nonce back).
ActiveNoncesDistinct ==
  \A i, j \in Active :
    (i # j /\ job[i].nonce = job[j].nonce /\ job[i].nonce # NoNonce)
      => revivals[i] > 0 \/ revivals[j] > 0

\* What the service calls minted is minted: a confirmed job's recipient holds
\* a mint on chain, and a claim row that has a minted_tx_hash belongs to one;
\* also when a revived job shares its nonce with another one, whose transaction
\* then takes the place of the one that is polled.
ConfirmedIsMinted ==
  \A j \in Jobs :
    (job[j].status = "confirmed" \/ claim[j].minted # NoHash) => HasMinted(j)

\* A submitted job polls the transaction of its latest attempt and nonce.
SubmittedTracksItsTransaction ==
  \A j \in Jobs :
    job[j].status = "submitted" =>
      job[j].hash = [job |-> j, attempt |-> job[j].attempts, nonce |-> job[j].nonce]

\* No job fails before its attempts are spent: markMintJobRetry decides on a
\* count read before markMintJobSubmitting, so the last one may go unused.
FailedSpentItsAttempts ==
  \A j \in Jobs : job[j].status = "failed" => job[j].attempts >= MaxAttempts - 1

\* A job is not tried for ever: beyond the attempts the code allows, each crash,
\* each failing call and each revival buys one more at most. (A crash leaves the
\* row "submitting", and a job whose authorization expired is tried again without
\* a look at its attempts.)
AttemptsAreBounded ==
  \A j \in Jobs : job[j].attempts <= MaxAttempts + crashes + faults + revivals[j]

\* Attempts are neither given up early nor made without end.
AttemptsAreCounted == FailedSpentItsAttempts /\ AttemptsAreBounded

\* Work is never forgotten: while a job is active, the coordinator is running,
\* its alarm is set, a wake call is on its way, or a lost call is left for cron.
NoLostWakeup ==
  Active # {} => \/ co.pc # "idle"
                 \/ alarm
                 \/ wakeLost
                 \/ \E j \in Jobs : request[j] = "wake"

\* Settled rows stay settled: no late retry, poll or revival takes a job out of
\* "confirmed" or replaces a recorded minted_tx_hash (markMintJobRetry and
\* markMintJobSubmitted have no status guard of their own).
SettledIsFinal ==
  [][\A j \in Jobs :
       /\ job[j].status = "confirmed" => job'[j].status = "confirmed"
       /\ claim[j].minted # NoHash => claim'[j].minted = claim[j].minted]_vars

\* Every job is eventually confirmed or failed, whatever crashes and faults the
\* budgets allow.
EveryJobSettles ==
  \A j \in Jobs : (j \in Active) ~> (job[j].status \in {"confirmed", "failed"})

\* Crashes and lost calls alone never cost a collector the badge: as long as
\* no RPC or chain fault happens every job ends confirmed, its badge minted.
CrashesLoseNothing ==
  \A j \in Jobs :
    (j \in Active) ~> (faults > 0 \/ (job[j].status = "confirmed" /\ HasMinted(j)))
=============================================================================
