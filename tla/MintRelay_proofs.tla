--------------------------- MODULE MintRelay_proofs ---------------------------
(***************************************************************************)
(* Proofs about MintRelay, for any number of jobs and any bounds.          *)
(*                                                                         *)
(* The first part says what each update of a job row leaves alone.  The    *)
(* second part proves the type invariant, the third one the inductive      *)
(* invariant IInv, from which the safety properties and the refinement of  *)
(* MintPromise follow.                                                     *)
(***************************************************************************)
EXTENDS MintRelay, FiniteSetTheorems, TLAPS

-----------------------------------------------------------------------------
(* Rows.                                                                   *)

\* A row keeps its type when columns are given values of their types.
LEMMA RowUpdates ==
  ASSUME NEW r \in JobRows, NEW s \in Statuses, NEW n \in Nonces, NEW a \in Nat,
         NEW h \in Hashes, NEW d \in BOOLEAN,
         NEW g \in {"unsubmitted", "fresh", "overdue"}
  PROVE  /\ [r EXCEPT !.due = d] \in JobRows
         /\ [r EXCEPT !.age = g] \in JobRows
         /\ [r EXCEPT !.status = s, !.due = d] \in JobRows
         /\ [r EXCEPT !.status = s, !.due = d, !.hash = h] \in JobRows
         /\ [r EXCEPT !.status = s, !.due = d, !.nonce = n] \in JobRows
         /\ [r EXCEPT !.status = s, !.nonce = n, !.attempts = a, !.due = d]
              \in JobRows
         /\ [r EXCEPT !.status = s, !.hash = h, !.due = d, !.age = g]
              \in JobRows
BY DEF JobRows

LEMMA RowTypes ==
  ASSUME TypeOK
  PROVE  \A j \in Jobs :
           /\ job[j] \in JobRows
           /\ job[j].status \in Statuses /\ job[j].nonce \in Nonces
           /\ job[j].attempts \in Nat /\ job[j].hash \in Hashes
           /\ job[j].age \in {"unsubmitted", "fresh", "overdue"}
           /\ claim[j] \in ClaimRows
BY DEF TypeOK, JobRows

LEMMA ConstantTypes ==
  /\ NoHash \in Hashes /\ NoNonce \in Nonces
  /\ {"absent", "confirmed", "failed", "retry", "pending", "submitting",
      "submitted"} \subseteq Statuses
  /\ \A pc \in CoPcs : At(pc) \in CoStates /\ At(pc).pc = pc
BY DEF NoHash, Hashes, Nonces, NoNonce, Statuses, ActiveStatuses, At, CoStates,
       CoPcs, Errors

LEMMA JobNumbers == Jobs \subseteq Nat
BY MintRelayAssumption DEF Jobs

\* How an action changes one row, and that it changes no other.
LEMMA CreateJobRow ==
  ASSUME TypeOK, NEW j \in Jobs, CreateJob(j)
  PROVE  /\ job' \in [Jobs -> JobRows]
         /\ \A i \in Jobs \ {j} : job'[i] = job[i]
         /\ job'[j].status = "pending" /\ job'[j].nonce = job[j].nonce
         /\ job'[j].attempts = job[j].attempts /\ job'[j].hash = job[j].hash
<1>1. [job[j] EXCEPT !.status = "pending", !.due = TRUE] \in JobRows
  BY RowTypes, ConstantTypes, RowUpdates
<1>2. job' = [job EXCEPT ![j] =
                [job[j] EXCEPT !.status = "pending", !.due = TRUE]]
  BY DEF CreateJob, TypeOK
<1> QED BY <1>1, <1>2, RowTypes DEF TypeOK, JobRows

LEMMA ReviveJobRow ==
  ASSUME TypeOK, NEW j \in Jobs, ReviveJob(j)
  PROVE  /\ job' \in [Jobs -> JobRows]
         /\ \A i \in Jobs \ {j} : job'[i] = job[i]
         /\ job'[j].status = "retry" /\ job'[j].nonce = job[j].nonce
         /\ job'[j].attempts = job[j].attempts /\ job'[j].hash = job[j].hash
<1>1. [job[j] EXCEPT !.status = "retry", !.due = TRUE] \in JobRows
  BY RowTypes, ConstantTypes, RowUpdates
<1>2. job' = [job EXCEPT ![j] =
                [job[j] EXCEPT !.status = "retry", !.due = TRUE]]
  BY DEF ReviveJob, TypeOK
<1> QED BY <1>1, <1>2, RowTypes DEF TypeOK, JobRows

LEMMA MarkConfirmedRow ==
  ASSUME TypeOK, NEW j \in Jobs, NEW hash \in Hashes, MarkConfirmed(j, hash)
  PROVE  /\ job' \in [Jobs -> JobRows] /\ claim' \in [Jobs -> ClaimRows]
         /\ \A i \in Jobs \ {j} : job'[i] = job[i] /\ claim'[i] = claim[i]
         /\ job'[j].status = "confirmed" /\ job'[j].nonce = job[j].nonce
         /\ job'[j].attempts = job[j].attempts
         /\ job'[j].hash \in {job[j].hash, hash}
         /\ \/ claim'[j] = claim[j]
            \/ claim[j].minted \in {NoHash, hash} /\ claim'[j].minted = hash
<1> DEFINE row == [job[j] EXCEPT !.status = "confirmed", !.due = FALSE,
                     !.hash = FirstHash(j, hash)]
<1>1. row \in JobRows
  <2>1. FirstHash(j, hash) \in Hashes
    BY RowTypes DEF FirstHash
  <2> QED BY <2>1, RowTypes, ConstantTypes, RowUpdates
<1>2. job' = [job EXCEPT ![j] = row]
  BY DEF MarkConfirmed, TypeOK
<1>3. row.status = "confirmed" /\ row.nonce = job[j].nonce
      /\ row.attempts = job[j].attempts /\ row.hash \in {job[j].hash, hash}
  BY RowTypes DEF JobRows, FirstHash
<1>4. /\ claim' \in [Jobs -> ClaimRows]
      /\ \A i \in Jobs \ {j} : claim'[i] = claim[i]
      /\ \/ claim'[j] = claim[j]
         \/ claim[j].minted \in {NoHash, hash} /\ claim'[j].minted = hash
  BY DEF MarkConfirmed, TypeOK, ClaimRows
<1> HIDE DEF row
<1> QED BY <1>1, <1>2, <1>3, <1>4 DEF TypeOK

LEMMA MarkRetryRow ==
  ASSUME TypeOK, NEW j \in Jobs, NEW attempts \in Nat, NEW reset \in BOOLEAN,
         MarkRetry(j, attempts, reset)
  PROVE  /\ job' \in [Jobs -> JobRows] /\ claim' = claim
         /\ \A i \in Jobs \ {j} : job'[i] = job[i]
         /\ \/ job'[j].status = "failed" /\ attempts + 1 >= MaxAttempts
            \/ job'[j].status = "retry" /\ attempts + 1 < MaxAttempts
         /\ job'[j].nonce = IF reset THEN NoNonce ELSE job[j].nonce
         /\ job'[j].attempts = job[j].attempts /\ job'[j].hash = job[j].hash
<1> DEFINE row ==
      [job[j] EXCEPT !.status = AfterRetry(attempts), !.due = FALSE,
                     !.nonce = KeptNonce(j, reset)]
<1>1. row \in JobRows
  <2>1. AfterRetry(attempts) \in Statuses
    BY ConstantTypes DEF AfterRetry
  <2>2. KeptNonce(j, reset) \in Nonces
    BY RowTypes, ConstantTypes DEF KeptNonce
  <2> QED BY <2>1, <2>2, RowTypes, RowUpdates
<1>2. job' = [job EXCEPT ![j] = row] /\ claim' = claim
  BY DEF MarkRetry, TypeOK
<1>3. /\ \/ row.status = "failed" /\ attempts + 1 >= MaxAttempts
         \/ row.status = "retry" /\ attempts + 1 < MaxAttempts
      /\ row.nonce = IF reset THEN NoNonce ELSE job[j].nonce
      /\ row.attempts = job[j].attempts /\ row.hash = job[j].hash
  BY RowTypes, MintRelayAssumption DEF JobRows, AfterRetry, KeptNonce
<1> HIDE DEF row
<1> QED BY <1>1, <1>2, <1>3 DEF TypeOK

LEMMA MarkSubmittedRow ==
  ASSUME TypeOK, MarkSubmitted
  PROVE  /\ job' \in [Jobs -> JobRows] /\ claim' \in [Jobs -> ClaimRows]
         /\ co.job \in Jobs
         /\ \A i \in Jobs \ {co.job} : job'[i] = job[i]
         /\ \A i \in Jobs : claim'[i].minted = claim[i].minted
         /\ job'[co.job].status = "submitted"
         /\ job'[co.job].nonce = job[co.job].nonce
         /\ job'[co.job].attempts = job[co.job].attempts
         /\ job'[co.job].hash = Transaction
<1> DEFINE row == [job[co.job] EXCEPT !.status = "submitted",
                     !.hash = Transaction, !.due = FALSE,
                     !.age = SubmittedAge(co.job)]
<1>1. co.job \in Jobs /\ Transaction \in Hashes
  BY JobNumbers DEF TypeOK, MarkSubmitted, Transaction, CoStates, Hashes
<1>2. row \in JobRows
  <2>1. SubmittedAge(co.job) \in {"unsubmitted", "fresh", "overdue"}
    BY <1>1, RowTypes DEF SubmittedAge
  <2>2. job[co.job] \in JobRows /\ "submitted" \in Statuses
    BY <1>1, RowTypes, ConstantTypes
  <2> QED BY <1>1, <2>1, <2>2 DEF JobRows
<1>3. job' = [job EXCEPT ![co.job] = row]
  BY <1>1 DEF MarkSubmitted, TypeOK
<1>4. row.status = "submitted" /\ row.nonce = job[co.job].nonce
      /\ row.attempts = job[co.job].attempts /\ row.hash = Transaction
  BY <1>1, RowTypes DEF JobRows
<1>5. /\ claim' \in [Jobs -> ClaimRows]
      /\ \A i \in Jobs : claim'[i].minted = claim[i].minted
  BY <1>1 DEF MarkSubmitted, TypeOK, ClaimRows
<1> HIDE DEF row
<1> QED BY <1>1, <1>2, <1>3, <1>4, <1>5 DEF TypeOK
LEMMA DueRow ==
  ASSUME TypeOK, NEW j \in Jobs, NEW d \in BOOLEAN,
         job' = [job EXCEPT ![j] = [@ EXCEPT !.due = d]]
  PROVE  /\ job' \in [Jobs -> JobRows]
         /\ \A i \in Jobs :
              /\ job'[i].status = job[i].status /\ job'[i].nonce = job[i].nonce
              /\ job'[i].attempts = job[i].attempts /\ job'[i].hash = job[i].hash
<1>1. [job[j] EXCEPT !.due = d] \in JobRows
  BY RowTypes DEF JobRows
<1> QED BY <1>1, RowTypes DEF TypeOK, JobRows

LEMMA OverdueRow ==
  ASSUME TypeOK, NEW j \in Jobs, TimesOut(j)
  PROVE  /\ job' \in [Jobs -> JobRows]
         /\ \A i \in Jobs :
              /\ job'[i].status = job[i].status /\ job'[i].nonce = job[i].nonce
              /\ job'[i].attempts = job[i].attempts /\ job'[i].hash = job[i].hash
<1>1. [job[j] EXCEPT !.age = "overdue"] \in JobRows
  BY RowTypes DEF JobRows
<1> QED BY <1>1, RowTypes DEF TimesOut, TypeOK, JobRows

LEMMA RenewAuthorizationRow ==
  ASSUME TypeOK, RenewAuthorization
  PROVE  /\ job' \in [Jobs -> JobRows]
         /\ co.job \in Jobs
         /\ \A i \in Jobs :
              /\ job'[i].nonce = job[i].nonce
              /\ job'[i].attempts = job[i].attempts /\ job'[i].hash = job[i].hash
              /\ \/ job'[i].status = job[i].status
                 \/ /\ i = co.job /\ job[i].status # "confirmed"
                    /\ job'[i].status = "retry"
<1>1. co.job \in Jobs
  BY DEF RenewAuthorization, BadgeNotFound, TypeOK
<1>2. [job[co.job] EXCEPT !.status = "retry", !.due = TRUE] \in JobRows
  <2>1. job[co.job] \in JobRows /\ "retry" \in Statuses
    BY <1>1, RowTypes, ConstantTypes
  <2> QED BY <2>1 DEF JobRows
<1>3. CASE job[co.job].status = "confirmed"
  BY <1>1, <1>3, RowTypes DEF RenewAuthorization, TypeOK
<1>4. CASE job[co.job].status # "confirmed"
  <2>1. job' = [job EXCEPT ![co.job] =
                  [job[co.job] EXCEPT !.status = "retry", !.due = TRUE]]
    BY <1>1, <1>4 DEF RenewAuthorization, TypeOK
  <2> QED BY <1>1, <1>2, <1>4, <2>1, RowTypes DEF TypeOK, JobRows
<1> QED BY <1>3, <1>4

\* The nonce of a job is kept, or lies above that of every active job.
LEMMA MarkSubmittingRow ==
  ASSUME TypeOK, NEW j \in Jobs, MarkSubmitting(j)
  PROVE  /\ job' \in [Jobs -> JobRows]
         /\ \A i \in Jobs \ {j} : job'[i] = job[i]
         /\ job[j].status \in {"pending", "submitting", "retry"}
         /\ job'[j].status = "submitting" /\ job'[j].nonce \in Nat
         /\ job'[j].attempts = job[j].attempts + 1 /\ job'[j].hash = job[j].hash
         /\ \/ job[j].nonce # NoNonce /\ job'[j].nonce = job[j].nonce
            \/ /\ job[j].nonce = NoNonce
               /\ \A i \in Active : job'[j].nonce > job[i].nonce
         /\ co' = Snapshot(j, "acquired", job'[j].nonce, "none")
         /\ ~HasMinted(j)
<1>1. PICK base \in NonceBases : \E n \in NonceFor(j, base) :
        /\ job' = [job EXCEPT ![j] =
                     [@ EXCEPT !.status = "submitting", !.nonce = n,
                               !.attempts = job[j].attempts + 1, !.due = FALSE]]
        /\ co' = Snapshot(j, "acquired", n, "none")
  BY DEF MarkSubmitting
<1>2. PICK n \in NonceFor(j, base) :
        /\ job' = [job EXCEPT ![j] =
                     [@ EXCEPT !.status = "submitting", !.nonce = n,
                               !.attempts = job[j].attempts + 1, !.due = FALSE]]
        /\ co' = Snapshot(j, "acquired", n, "none")
  BY <1>1
<1>3. base \in Nat
  BY DEF TypeOK, NonceBases, PendingCounts, Nonces, NoNonce
<1>4. n \in Nat /\ \/ job[j].nonce # NoNonce /\ n = job[j].nonce
                   \/ /\ job[j].nonce = NoNonce
                      /\ \A i \in Active : n > job[i].nonce
  <2>1. CASE job[j].nonce # NoNonce
    BY <2>1, RowTypes DEF NonceFor, Nonces, NoNonce
  <2>2. CASE job[j].nonce = NoNonce
    <3>1. n \in NextNetworkNonce(base)
      BY <2>2 DEF NonceFor
    <3>2. \A i \in Active : job[i].nonce \in Nonces
      BY RowTypes DEF Active
    <3>3. n \in {base} \cup {job[i].nonce + 1 : i \in Active}
      BY <3>1 DEF NextNetworkNonce
    <3>4. n >= base /\ \A i \in Active : n >= job[i].nonce + 1
      BY <3>1 DEF NextNetworkNonce
    <3>5. n \in Nat
      BY <1>3, <3>2, <3>3 DEF Nonces, NoNonce
    <3> QED BY <2>2, <3>2, <3>4, <3>5 DEF Nonces, NoNonce
  <2> QED BY <2>1, <2>2
<1> DEFINE row == [job[j] EXCEPT !.status = "submitting", !.nonce = n,
                     !.attempts = job[j].attempts + 1, !.due = FALSE]
<1>5. row \in JobRows
  <2>1. /\ job[j] \in JobRows /\ "submitting" \in Statuses /\ n \in Nonces
        /\ job[j].attempts + 1 \in Nat
    BY <1>4, RowTypes, ConstantTypes DEF Nonces
  <2> QED BY <2>1 DEF JobRows
<1>6. job[j].status \in {"pending", "submitting", "retry"} /\ ~HasMinted(j)
  BY DEF MarkSubmitting, Submits, NextMintJob, Schedulable, Active, ActiveStatuses
<1>7. job' = [job EXCEPT ![j] = row]
  BY <1>2 DEF TypeOK
<1>8. /\ row.status = "submitting" /\ row.nonce = n
      /\ row.attempts = job[j].attempts + 1 /\ row.hash = job[j].hash
  BY RowTypes DEF JobRows
<1> HIDE DEF row
<1> QED BY <1>2, <1>4, <1>5, <1>6, <1>7, <1>8 DEF TypeOK

-----------------------------------------------------------------------------
(* Types.                                                                  *)

LEMMA SpendType ==
  ASSUME TypeOK, NEW needed, Spend(needed)
  PROVE  faults' \in Nat
BY DEF TypeOK, Spend

LEMMA SnapshotType ==
  ASSUME TypeOK, NEW j \in Jobs, NEW pc \in CoPcs, NEW n \in Nonces,
         NEW e \in Errors
  PROVE  Snapshot(j, pc, n, e) \in CoStates /\ Snapshot(j, pc, n, e).job = j
BY RowTypes, JobNumbers DEF Snapshot, CoStates

LEMMA TypeRequest ==
  ASSUME TypeOK, NEW j \in Jobs, Request(j)
  PROVE  TypeOK'
<1>1. CASE ReadClaim(j)
  BY <1>1 DEF TypeOK, ReadClaim, rowVars, objectVars, chainVars, budgetVars
<1>2. CASE CreateJob(j)
  BY <1>2, CreateJobRow DEF TypeOK, CreateJob, objectVars, chainVars, budgetVars
<1>3. CASE ReviveJob(j)
  <2>1. revivals' \in [Jobs -> Nat] /\ request' \in [Jobs -> {"idle", "read", "wake"}]
    BY <1>3 DEF TypeOK, ReviveJob
  <2> QED BY <1>3, <2>1, ReviveJobRow
          DEF TypeOK, ReviveJob, objectVars, chainVars, budgetVars
<1>4. CASE ReuseJob(j)
  BY <1>4 DEF TypeOK, ReuseJob, rowVars, objectVars, chainVars, budgetVars
<1>5. CASE Wake(j)
  BY <1>5 DEF TypeOK, Wake, rowVars, chainVars, budgetVars
<1>6. CASE LoseWake(j)
  BY <1>6 DEF TypeOK, LoseWake, rowVars, objectVars, chainVars
<1> QED BY <1>1, <1>2, <1>3, <1>4, <1>5, <1>6 DEF Request

\* The steps of processOne up to the relay call.
LEMMA TypeProcessOne ==
  ASSUME TypeOK, NEW j \in Jobs, ProcessOne(j)
  PROVE  TypeOK'
<1> USE DEF rowVars, chainVars, budgetVars
<1>0. At("finishing") \in CoStates /\ At("finishing").pc = "finishing"
      /\ At("retried") \in CoStates /\ At("retried").pc = "retried"
  BY ConstantTypes DEF CoPcs
<1>h. job[j].hash \in Hashes /\ job[j].attempts \in Nat
  BY RowTypes
<1>1. CASE PollConfirms(j)
  BY <1>0, <1>1, <1>h, MarkConfirmedRow DEF TypeOK, PollConfirms
<1>2. CASE PollPending(j)
  BY <1>0, <1>2, DueRow, SpendType DEF TypeOK, PollPending
<1>3. CASE PollFindsBadge(j)
  <2>1. faults' \in Nat
    BY <1>3, SpendType DEF PollFindsBadge, GivesUp
  <2> QED BY <1>0, <1>3, <1>h, <2>1, MarkConfirmedRow DEF TypeOK, PollFindsBadge
<1>4. CASE PollRetries(j)
  <2>1. faults' \in Nat
    BY <1>4, SpendType DEF PollRetries, GivesUp
  <2> QED BY <1>0, <1>4, <1>h, <2>1, MarkRetryRow DEF TypeOK, PollRetries
<1>5. CASE SubmitFindsBadge(j)
  BY <1>0, <1>5, <1>h, MarkConfirmedRow DEF TypeOK, SubmitFindsBadge
<1>6. CASE SubmitFails(j)
  BY ZenonT(40), <1>6, SpendType, SnapshotType, ConstantTypes
     DEF TypeOK, SubmitFails, CoPcs, Errors
<1>7. CASE MarkSubmitting(j)
  <2>1. co' \in CoStates /\ co'.job = j
    BY <1>7, MarkSubmittingRow, SnapshotType DEF CoPcs, Errors, Nonces
  <2> QED BY <1>7, <2>1, MarkSubmittingRow DEF TypeOK, MarkSubmitting
<1> QED
  BY <1>1, <1>2, <1>3, <1>4, <1>5, <1>6, <1>7 DEF ProcessOne

LEMMA TypeRelay ==
  ASSUME TypeOK, Relay
  PROVE  TypeOK'
<1> USE DEF rowVars, chainVars, budgetVars
<1>0. At("finishing") \in CoStates /\ At("finishing").pc = "finishing"
  BY ConstantTypes DEF CoPcs
<1>1. CASE PutNextNonce
  <2>1. co.nonce + 1 \in Nonces
    BY DEF TypeOK, CoStates, Nonces, NoNonce
  <2> QED BY <1>1, <2>1 DEF TypeOK, PutNextNonce, CoStates, CoPcs
<1>b. Broadcast /\ co.pc = "cached" =>
        pool' \subseteq Hashes /\ minted' = minted /\ reverted' = reverted
        /\ chainNonce' = chainNonce
  <2> SUFFICES ASSUME Broadcast, co.pc = "cached"
               PROVE  pool' \subseteq Hashes /\ minted' = minted
                      /\ reverted' = reverted /\ chainNonce' = chainNonce
    OBVIOUS
  <2>1. Transaction \in Hashes
    BY DEF TypeOK, CoStates, Transaction, Hashes
  <2> QED BY <2>1 DEF TypeOK, Broadcast
<1>2. CASE RelayAccepted
  BY <1>b, <1>2 DEF TypeOK, RelayAccepted, CoStates, CoPcs
<1>3. CASE RelayResponseLost
  BY <1>b, <1>3, SpendType DEF TypeOK, RelayResponseLost, CoStates, CoPcs, Errors
<1>4. CASE RelayRejected
  <2>1. faults' \in Nat
    BY <1>4, SpendType DEF RelayRejected
  <2>2. co' \in CoStates /\ co'.job \in Jobs
    BY <1>4 DEF RelayRejected, TypeOK, CoStates, CoPcs, Errors
  <2> QED BY <1>4, <2>1, <2>2 DEF TypeOK, RelayRejected
<1>5. CASE WriteFails
  BY <1>5, SpendType DEF TypeOK, WriteFails, CoStates, CoPcs, Errors
<1>6. CASE MarkSubmitted
  BY <1>0, <1>6, MarkSubmittedRow DEF TypeOK, MarkSubmitted
<1> QED BY <1>1, <1>2, <1>3, <1>4, <1>5, <1>6 DEF Relay

LEMMA TypeCatch ==
  ASSUME TypeOK, Catch
  PROVE  TypeOK'
<1> USE DEF rowVars, chainVars, budgetVars
<1>0. At("finishing") \in CoStates /\ At("finishing").pc = "finishing"
      /\ At("retried") \in CoStates /\ At("retried").pc = "retried"
  BY ConstantTypes DEF CoPcs
<1>1. CASE CatchFindsBadge
  <2>1. co.job \in Jobs /\ co.hash \in Hashes
    BY <1>1 DEF TypeOK, CatchFindsBadge, CoStates
  <2>2. job' \in [Jobs -> JobRows] /\ claim' \in [Jobs -> ClaimRows]
    BY <1>1, <2>1, MarkConfirmedRow DEF CatchFindsBadge
  <2> QED BY <1>0, <1>1, <2>2 DEF TypeOK, CatchFindsBadge
<1>2. CASE RenewAuthorization
  <2>1. faults' \in Nat
    BY <1>2, SpendType DEF RenewAuthorization, BadgeNotFound
  <2> QED BY <1>0, <1>2, <2>1, RenewAuthorizationRow
          DEF TypeOK, RenewAuthorization
<1>3. CASE CatchRetries
  <2>1. faults' \in Nat /\ co.job \in Jobs /\ co.attempts \in Nat
    BY <1>3, SpendType DEF TypeOK, CatchRetries, BadgeNotFound, CoStates
  <2>2. job' \in [Jobs -> JobRows] /\ claim' = claim
    BY <1>3, <2>1, MarkRetryRow DEF CatchRetries
  <2> QED BY <1>0, <1>3, <2>1, <2>2 DEF TypeOK, CatchRetries
<1>4. CASE DropNextNonce
  BY <1>0, <1>4, ConstantTypes DEF TypeOK, DropNextNonce
<1> QED BY <1>1, <1>2, <1>3, <1>4 DEF Catch

LEMMA TypeAlarm ==
  ASSUME TypeOK,
         AlarmFires \/ NothingProcessed \/ ScheduleNext \/ Crash
           \/ RecoverMintRelays
  PROVE  TypeOK'
<1> USE DEF rowVars, chainVars, budgetVars
<1>0. \A pc \in {"idle", "running", "finishing"} :
        At(pc) \in CoStates /\ At(pc).pc = pc
  BY ConstantTypes DEF CoPcs
<1>1. CASE AlarmFires
  BY <1>0, <1>1 DEF TypeOK, AlarmFires
<1>2. CASE NothingProcessed
  <2>1. faults' \in Nat
    BY <1>2, SpendType DEF NothingProcessed
  <2> QED BY <1>0, <1>2, <2>1 DEF TypeOK, NothingProcessed
<1>3. CASE ScheduleNext
  BY <1>0, <1>3, ConstantTypes DEF TypeOK, ScheduleNext
<1>4. CASE Crash
  <2>1. alarm' \in BOOLEAN
    BY <1>4 DEF TypeOK, Crash
  <2>2. wakeLost' \in BOOLEAN
    BY <1>4, Zenon DEF Crash
  <2>3. co' = At("idle") /\ crashes' \in Nat
    BY <1>4 DEF TypeOK, Crash
  <2> QED BY <1>0, <1>4, <2>1, <2>2, <2>3 DEF TypeOK, Crash
<1>5. CASE RecoverMintRelays
  BY <1>5 DEF TypeOK, RecoverMintRelays
<1> QED BY <1>1, <1>2, <1>3, <1>4, <1>5

LEMMA TypeWorld ==
  ASSUME TypeOK,
         (\E j \in Jobs : Clock(j) \/ Collector(j)) \/ Chain
  PROVE  TypeOK'
<1> USE DEF rowVars, objectVars, chainVars, budgetVars
<1>1. ASSUME NEW j \in Jobs, BecomesDue(j)
      PROVE  TypeOK'
  BY <1>1, DueRow DEF TypeOK, BecomesDue
<1>2. ASSUME NEW j \in Jobs, TimesOut(j)
      PROVE  TypeOK'
  <2>1. faults' \in Nat
    BY <1>2, SpendType DEF TimesOut
  <2> QED BY <1>2, <2>1, OverdueRow DEF TypeOK, TimesOut
<1>3. ASSUME NEW j \in Jobs, CollectorMints(j)
      PROVE  TypeOK'
  <2>1. OwnTransaction(j) \in Hashes
    BY JobNumbers DEF OwnTransaction, Hashes, Nonces, NoNonce
  <2> QED BY <1>3, <2>1 DEF TypeOK, CollectorMints
<1>4. ASSUME NEW j \in Jobs, RecordMint(j)
      PROVE  TypeOK'
  <2>1. claim' \in [Jobs -> ClaimRows]
    BY <1>4 DEF RecordMint, TypeOK, ClaimRows
  <2> QED BY <1>4, <2>1 DEF TypeOK, RecordMint
<1>5. ASSUME NEW h \in pool, Mine(h)
      PROVE  TypeOK'
  <2>1. faults' \in Nat
    BY <1>5, SpendType DEF Mine
  <2>2. chainNonce' \in Nat /\ pool' \subseteq Hashes
    BY <1>5 DEF TypeOK, Mine
  <2>3. minted' \subseteq Hashes /\ reverted' \subseteq Hashes
    BY <1>5 DEF TypeOK, Mine
  <2> QED BY <1>5, <2>1, <2>2, <2>3 DEF TypeOK, Mine
<1>6. ASSUME NEW h \in pool, Evict(h)
      PROVE  TypeOK'
  BY <1>6, SpendType DEF TypeOK, Evict
<1> QED BY <1>1, <1>2, <1>3, <1>4, <1>5, <1>6 DEF Clock, Collector, Chain

LEMMA TypeInit == Init => TypeOK
<1> SUFFICES ASSUME Init PROVE TypeOK
  OBVIOUS
<1>1. [status |-> "absent", nonce |-> NoNonce, attempts |-> 0, hash |-> NoHash,
       due |-> FALSE, age |-> "unsubmitted"] \in JobRows
  BY ConstantTypes DEF JobRows
<1>2. [relay |-> NoHash, minted |-> NoHash] \in ClaimRows
  BY ConstantTypes DEF ClaimRows
<1>3. At("idle") \in CoStates /\ At("idle").pc = "idle"
  BY ConstantTypes DEF CoPcs
<1> QED BY <1>1, <1>2, <1>3, ConstantTypes DEF Init, TypeOK

LEMMA TypeNext == TypeOK /\ [Next]_vars => TypeOK'
<1> SUFFICES ASSUME TypeOK, [Next]_vars PROVE TypeOK'
  OBVIOUS
<1>1. CASE UNCHANGED vars
  BY <1>1 DEF TypeOK, vars
<1>2. CASE Next
  BY <1>2, TypeRequest, TypeProcessOne, TypeRelay, TypeCatch, TypeAlarm, TypeWorld
     DEF Next, Coordinator
<1> QED BY <1>1, <1>2

\* Type correctness: rows, the coordinator's locals and the account keep their
\* types through every handler, crash and chain step.
THEOREM TypeCorrect == Spec => []TypeOK
BY TypeInit, TypeNext, PTL DEF Spec

-----------------------------------------------------------------------------
(* The inductive invariant.                                                *)

Owned(hash, j) == hash = NoHash \/ hash.job = j

\* A row holds the hash of a transaction of its own.
HashesOwned == \A j \in Jobs : Owned(job[j].hash, j)

NoncesFresh == \A j \in Jobs : job[j].status = "absent" => job[j].nonce = NoNonce

\* No pending transaction has a nonce that is spent, none shares its nonce, and
\* each has the nonce of its job.
PoolOrderly ==
  /\ \A h \in pool : /\ h.job \in Jobs
                     /\ h.nonce = job[h.job].nonce
                     /\ h.nonce >= chainNonce
  /\ \A g, h \in pool : g.nonce = h.nonce => g = h

\* What the coordinator remembers of the job it relays is still so in D1.
Remembers ==
  co.pc \in {"acquired", "cached", "sent", "errored"} =>
    /\ job[co.job].status \in {"pending", "submitting", "retry"}
    /\ Owned(co.hash, co.job)
    /\ co.attempts <= job[co.job].attempts
    /\ (co.pc # "errored" \/ co.nonce # NoNonce) =>
         /\ co.nonce \in Nat
         /\ job[co.job].status = "submitting"
         /\ job[co.job].nonce = co.nonce
         /\ job[co.job].attempts = co.attempts + 1
    /\ co.error = "nonceTooLow" => co.nonce \in Nat /\ co.nonce < chainNonce

IInv == /\ TypeOK
        /\ HashesOwned
        /\ NoncesFresh
        /\ PoolOrderly
        /\ Remembers
        /\ ActiveNoncesDistinct
        /\ ConfirmedIsMinted
        /\ SubmittedTracksItsTransaction
        /\ FailedSpentItsAttempts

LEMMA HasMintedMonotone ==
  ASSUME minted \subseteq minted', NEW j, HasMinted(j)
  PROVE  HasMinted(j)'
BY DEF HasMinted

\* What a step may change without touching any conjunct of the invariant.
LEMMA Frame ==
  ASSUME IInv, TypeOK',
         \A i \in Jobs :
           /\ job'[i].status = job[i].status /\ job'[i].nonce = job[i].nonce
           /\ job'[i].attempts = job[i].attempts /\ job'[i].hash = job[i].hash
           /\ claim'[i].minted = claim[i].minted,
         pool' \subseteq pool, minted \subseteq minted',
         chainNonce' = chainNonce, revivals' = revivals,
         co' = co \/ co'.pc \notin {"acquired", "cached", "sent", "errored"}
  PROVE  IInv'
<1>1. HashesOwned' /\ NoncesFresh'
  BY DEF IInv, HashesOwned, NoncesFresh, Owned
<1>2. PoolOrderly'
  BY DEF IInv, PoolOrderly
<1>3. Remembers'
  <2>1. CASE co' = co
    BY <2>1 DEF IInv, TypeOK, Remembers, Owned
  <2>2. CASE co'.pc \notin {"acquired", "cached", "sent", "errored"}
    BY <2>2 DEF Remembers
  <2> QED BY <2>1, <2>2
<1>4. ActiveNoncesDistinct'
  BY DEF IInv, ActiveNoncesDistinct, Active
<1>5. ConfirmedIsMinted'
  BY HasMintedMonotone DEF IInv, ConfirmedIsMinted
<1>6. SubmittedTracksItsTransaction' /\ FailedSpentItsAttempts'
  BY DEF IInv, SubmittedTracksItsTransaction, FailedSpentItsAttempts
<1> QED BY <1>1, <1>2, <1>3, <1>4, <1>5, <1>6 DEF IInv

LEMMA Confirming ==
  ASSUME IInv, TypeOK', NEW j \in Jobs, NEW hash \in Hashes, Owned(hash, j),
         MarkConfirmed(j, hash), HasMinted(j),
         UNCHANGED <<chainVars, revivals>>, co'.pc = "finishing"
  PROVE  IInv'
<1>0. /\ \A i \in Jobs \ {j} : job'[i] = job[i] /\ claim'[i] = claim[i]
      /\ job'[j].status = "confirmed" /\ job'[j].nonce = job[j].nonce
      /\ job'[j].hash \in {job[j].hash, hash}
  BY MarkConfirmedRow DEF IInv
<1>1. HashesOwned' /\ NoncesFresh'
  BY <1>0 DEF IInv, HashesOwned, NoncesFresh, Owned
<1>2. PoolOrderly'
  BY <1>0 DEF IInv, PoolOrderly, chainVars
<1>3. Remembers'
  BY DEF Remembers
<1>4. ActiveNoncesDistinct'
  BY <1>0 DEF IInv, ActiveNoncesDistinct, Active, ActiveStatuses
<1>5. ConfirmedIsMinted'
  BY <1>0 DEF IInv, ConfirmedIsMinted, HasMinted, chainVars
<1>6. SubmittedTracksItsTransaction' /\ FailedSpentItsAttempts'
  BY <1>0 DEF IInv, SubmittedTracksItsTransaction, FailedSpentItsAttempts
<1> QED BY <1>1, <1>2, <1>3, <1>4, <1>5, <1>6 DEF IInv

\* The nonce may be forgotten only if no transaction of the job is pending.
LEMMA Retrying ==
  ASSUME IInv, TypeOK', NEW j \in Jobs, NEW attempts \in Nat,
         NEW reset \in BOOLEAN, MarkRetry(j, attempts, reset),
         job[j].status \in ActiveStatuses, attempts <= job[j].attempts,
         reset => \A h \in pool : h.job # j,
         UNCHANGED <<chainVars, revivals>>, co'.pc = "retried"
  PROVE  IInv'
<1>0. /\ \A i \in Jobs \ {j} : job'[i] = job[i]
      /\ claim' = claim
      /\ \/ job'[j].status = "failed" /\ attempts + 1 >= MaxAttempts
         \/ job'[j].status = "retry"
      /\ job'[j].nonce = IF reset THEN NoNonce ELSE job[j].nonce
      /\ job'[j].attempts = job[j].attempts /\ job'[j].hash = job[j].hash
  BY MarkRetryRow DEF IInv
<1>1. HashesOwned' /\ NoncesFresh'
  BY <1>0 DEF IInv, HashesOwned, NoncesFresh, Owned
<1>2. PoolOrderly'
  BY <1>0 DEF IInv, PoolOrderly, chainVars
<1>3. Remembers'
  BY DEF Remembers
<1>4. ActiveNoncesDistinct'
  BY <1>0 DEF IInv, ActiveNoncesDistinct, Active, ActiveStatuses
<1>5. ConfirmedIsMinted'
  BY <1>0 DEF IInv, ConfirmedIsMinted, HasMinted, chainVars
<1>6. SubmittedTracksItsTransaction'
  BY <1>0 DEF IInv, SubmittedTracksItsTransaction
<1>7. FailedSpentItsAttempts'
  BY <1>0, RowTypes, MintRelayAssumption DEF IInv, FailedSpentItsAttempts
<1> QED BY <1>1, <1>2, <1>3, <1>4, <1>5, <1>6, <1>7 DEF IInv

LEMMA InvRequest ==
  ASSUME IInv, TypeOK', NEW j \in Jobs, Request(j)
  PROVE  IInv'
<1>1. CASE ReadClaim(j) \/ ReuseJob(j) \/ Wake(j) \/ LoseWake(j)
  BY <1>1, Frame DEF ReadClaim, ReuseJob, Wake, LoseWake, rowVars, objectVars,
                     chainVars
<1>2. CASE CreateJob(j)
  <2>0. /\ \A i \in Jobs \ {j} : job'[i] = job[i]
        /\ job[j].status = "absent"
        /\ job'[j].status = "pending" /\ job'[j].nonce = job[j].nonce
        /\ job'[j].attempts = job[j].attempts /\ job'[j].hash = job[j].hash
        /\ UNCHANGED <<claim, co, pool, minted, chainNonce, revivals>>
    BY <1>2, CreateJobRow DEF IInv, CreateJob, objectVars, chainVars
  <2>1. HashesOwned' /\ NoncesFresh'
    BY <2>0 DEF IInv, HashesOwned, NoncesFresh, Owned
  <2>2. PoolOrderly'
    BY <2>0 DEF IInv, PoolOrderly
  <2>3. Remembers'
    BY <2>0 DEF IInv, Remembers, TypeOK, Owned
  <2>4. ActiveNoncesDistinct'
    BY <2>0 DEF IInv, ActiveNoncesDistinct, Active, NoncesFresh
  <2>5. ConfirmedIsMinted'
    BY <2>0 DEF IInv, ConfirmedIsMinted, HasMinted
  <2>6. SubmittedTracksItsTransaction' /\ FailedSpentItsAttempts'
    BY <2>0 DEF IInv, SubmittedTracksItsTransaction, FailedSpentItsAttempts
  <2> QED BY <2>1, <2>2, <2>3, <2>4, <2>5, <2>6 DEF IInv
<1>3. CASE ReviveJob(j)
  <2>0. /\ \A i \in Jobs \ {j} : job'[i] = job[i]
        /\ job[j].status = "failed"
        /\ job'[j].status = "retry" /\ job'[j].nonce = job[j].nonce
        /\ job'[j].attempts = job[j].attempts /\ job'[j].hash = job[j].hash
        /\ UNCHANGED <<claim, co, pool, minted, chainNonce>>
    BY <1>3, ReviveJobRow DEF IInv, ReviveJob, objectVars, chainVars
  <2>r. revivals'[j] > 0 /\ \A i \in Jobs \ {j} : revivals'[i] = revivals[i]
    BY <1>3 DEF ReviveJob, IInv, TypeOK
  <2>1. HashesOwned' /\ NoncesFresh'
    BY <2>0 DEF IInv, HashesOwned, NoncesFresh, Owned
  <2>2. PoolOrderly'
    BY <2>0 DEF IInv, PoolOrderly
  <2>3. Remembers'
    BY <2>0 DEF IInv, Remembers, TypeOK, Owned
  <2>4. ActiveNoncesDistinct'
    BY <2>0, <2>r DEF IInv, ActiveNoncesDistinct, Active
  <2>5. ConfirmedIsMinted'
    BY <2>0 DEF IInv, ConfirmedIsMinted, HasMinted
  <2>6. SubmittedTracksItsTransaction' /\ FailedSpentItsAttempts'
    BY <2>0 DEF IInv, SubmittedTracksItsTransaction, FailedSpentItsAttempts
  <2> QED BY <2>1, <2>2, <2>3, <2>4, <2>5, <2>6 DEF IInv
<1> QED BY <1>1, <1>2, <1>3 DEF Request

LEMMA InvProcessOne ==
  ASSUME IInv, TypeOK', NEW j \in Jobs, ProcessOne(j)
  PROVE  IInv'
<1>0. job[j].hash \in Hashes /\ job[j].attempts \in Nat /\ Owned(job[j].hash, j)
  BY RowTypes DEF IInv, HashesOwned
<1>p. At("finishing").pc = "finishing" /\ At("retried").pc = "retried"
  BY DEF At
<1>1. CASE PollConfirms(j)
  <2>1. HasMinted(j)
    BY <1>0, <1>1 DEF PollConfirms, Polls, HasMinted, Owned
  <2> QED BY <1>0, <1>p, <1>1, <2>1, Confirming DEF PollConfirms
<1>2. CASE PollPending(j)
  <2>1. \A i \in Jobs :
          /\ job'[i].status = job[i].status /\ job'[i].nonce = job[i].nonce
          /\ job'[i].attempts = job[i].attempts /\ job'[i].hash = job[i].hash
    BY <1>2, DueRow DEF PollPending, IInv
  <2>2. UNCHANGED <<claim, chainVars, revivals>> /\ co' = At("finishing")
    BY <1>2 DEF PollPending
  <2> QED BY <1>p, <2>1, <2>2, Frame DEF chainVars
<1>3. CASE PollFindsBadge(j)
  BY <1>0, <1>p, <1>3, Confirming DEF PollFindsBadge
<1>4. CASE PollRetries(j)
  <2>1. job[j].status \in ActiveStatuses
    BY <1>4 DEF PollRetries, GivesUp, Polls, ActiveStatuses
  <2>2. MarkRetry(j, job[j].attempts, FALSE) /\ co'.pc = "retried"
        /\ UNCHANGED <<chainVars, revivals>>
    BY <1>p, <1>4 DEF PollRetries
  <2>3. job[j].attempts <= job[j].attempts
    BY <1>0
  <2> QED BY <1>0, <2>1, <2>2, <2>3, Retrying
<1>5. CASE SubmitFindsBadge(j)
  BY <1>0, <1>p, <1>5, Confirming DEF SubmitFindsBadge
<1>6. CASE SubmitFails(j)
  <2>1. /\ job[j].status \in {"pending", "submitting", "retry"}
        /\ co' = Snapshot(j, "errored", NoNonce, "other")
        /\ UNCHANGED <<job, claim, chainVars, revivals>>
    BY <1>6 DEF SubmitFails, Submits, NextMintJob, Schedulable, Active,
                ActiveStatuses, rowVars
  <2>2. Remembers'
    BY <1>0, <2>1 DEF Remembers, Snapshot, Owned
  <2> QED BY <2>1, <2>2
          DEF IInv, HashesOwned, NoncesFresh, PoolOrderly, ActiveNoncesDistinct,
              Active, ConfirmedIsMinted, HasMinted, FailedSpentItsAttempts,
              SubmittedTracksItsTransaction, chainVars
<1>7. CASE MarkSubmitting(j)
  <2>0. /\ \A i \in Jobs \ {j} : job'[i] = job[i]
        /\ job[j].status \in {"pending", "submitting", "retry"}
        /\ job'[j].status = "submitting" /\ job'[j].nonce \in Nat
        /\ job'[j].attempts = job[j].attempts + 1 /\ job'[j].hash = job[j].hash
        /\ \/ job[j].nonce # NoNonce /\ job'[j].nonce = job[j].nonce
           \/ /\ job[j].nonce = NoNonce
              /\ \A i \in Active : job'[j].nonce > job[i].nonce
        /\ co' = Snapshot(j, "acquired", job'[j].nonce, "none")
    BY <1>7, MarkSubmittingRow DEF IInv
  <2>c. UNCHANGED <<claim, chainVars, revivals>>
    BY <1>7 DEF MarkSubmitting
  <2>1. HashesOwned' /\ NoncesFresh'
    BY <2>0 DEF IInv, HashesOwned, NoncesFresh, Owned
  <2>2. PoolOrderly'
    <3>1. \A h \in pool : h.job = j => job[j].nonce # NoNonce
      BY DEF IInv, TypeOK, PoolOrderly, Hashes, NoNonce
    <3> QED BY <2>0, <2>c, <3>1 DEF IInv, PoolOrderly, chainVars
  <2>3. Remembers'
    BY <1>0, <2>0 DEF Remembers, Snapshot, Owned
  <2>4. ActiveNoncesDistinct'
    <3>1. Active' = Active
      BY <2>0 DEF Active, ActiveStatuses
    <3>2. \A i \in Active : job[i].nonce \in Nonces
      BY RowTypes DEF IInv, Active
    <3> QED BY <2>0, <2>c, <3>1, <3>2
            DEF IInv, ActiveNoncesDistinct, Active, Nonces, NoNonce
  <2>5. ConfirmedIsMinted'
    BY <2>0, <2>c DEF IInv, ConfirmedIsMinted, HasMinted, chainVars
  <2>6. SubmittedTracksItsTransaction' /\ FailedSpentItsAttempts'
    BY <2>0 DEF IInv, SubmittedTracksItsTransaction, FailedSpentItsAttempts
  <2> QED BY <2>1, <2>2, <2>3, <2>4, <2>5, <2>6 DEF IInv
<1> QED
  BY <1>1, <1>2, <1>3, <1>4, <1>5, <1>6, <1>7 DEF ProcessOne

\* The transaction replaces the one that had its nonce, which was its own job's.
LEMMA Broadcasting ==
  ASSUME IInv, TypeOK', co.pc = "cached", Broadcast,
         UNCHANGED <<job, claim, revivals>>,
         co'.pc \in {"sent", "errored"}, co'.job = co.job, co'.hash = co.hash,
         co'.attempts = co.attempts, co'.nonce = co.nonce,
         co'.error \in {co.error, "other"}
  PROVE  IInv'
<1>1. /\ co.job \in Jobs /\ co.nonce \in Nat /\ co.nonce >= chainNonce
      /\ job[co.job].nonce = co.nonce
  BY DEF IInv, TypeOK, Remembers, Broadcast
<1>2. PoolOrderly'
  BY <1>1 DEF IInv, PoolOrderly, Broadcast, Transaction
<1>3. Remembers'
  BY <1>1 DEF IInv, TypeOK, Remembers, Owned, Broadcast
<1> QED
  BY <1>2, <1>3
     DEF IInv, HashesOwned, NoncesFresh, ActiveNoncesDistinct, Active,
         ConfirmedIsMinted, HasMinted, FailedSpentItsAttempts,
         SubmittedTracksItsTransaction, Broadcast

LEMMA InvRelay ==
  ASSUME IInv, TypeOK', Relay
  PROVE  IInv'
<1>a. ASSUME UNCHANGED <<job, claim, pool, minted, chainNonce, revivals>>, Remembers'
      PROVE  IInv'
  BY <1>a DEF IInv, HashesOwned, NoncesFresh, PoolOrderly, ActiveNoncesDistinct,
              Active, ConfirmedIsMinted, HasMinted, FailedSpentItsAttempts,
              SubmittedTracksItsTransaction
<1>1. CASE PutNextNonce
  <2>1. Remembers'
    BY <1>1 DEF PutNextNonce, IInv, TypeOK, CoStates, Remembers, Owned, rowVars, chainVars
  <2> QED BY <1>1, <1>a, <2>1 DEF PutNextNonce, rowVars, chainVars
<1>2. CASE RelayAccepted
  <2>1. /\ co'.pc = "sent" /\ co'.job = co.job /\ co'.hash = co.hash
        /\ co'.attempts = co.attempts /\ co'.nonce = co.nonce
        /\ co'.error = co.error
    BY <1>2 DEF RelayAccepted, IInv, TypeOK, CoStates
  <2> QED BY <1>2, <2>1, Broadcasting DEF RelayAccepted, rowVars
<1>3. CASE RelayResponseLost
  <2>1. /\ co'.pc = "errored" /\ co'.job = co.job /\ co'.hash = co.hash
        /\ co'.attempts = co.attempts /\ co'.nonce = co.nonce
        /\ co'.error = "other"
    BY <1>3 DEF RelayResponseLost, IInv, TypeOK, CoStates
  <2> QED BY <1>3, <2>1, Broadcasting DEF RelayResponseLost, rowVars
<1>4. CASE RelayRejected
  <2>1. Remembers'
    BY <1>4 DEF RelayRejected, IInv, TypeOK, CoStates, Remembers, Owned, rowVars, chainVars
  <2> QED BY <1>4, <1>a, <2>1 DEF RelayRejected, rowVars, chainVars
<1>5. CASE WriteFails
  <2>1. Remembers'
    BY <1>5 DEF WriteFails, IInv, TypeOK, CoStates, Remembers, Owned, rowVars, chainVars
  <2> QED BY <1>5, <1>a, <2>1 DEF WriteFails, rowVars, chainVars
<1>6. CASE MarkSubmitted
  <2>0. /\ co.job \in Jobs
        /\ \A i \in Jobs \ {co.job} : job'[i] = job[i]
        /\ \A i \in Jobs : claim'[i].minted = claim[i].minted
        /\ job'[co.job].status = "submitted"
        /\ job'[co.job].nonce = job[co.job].nonce
        /\ job'[co.job].attempts = job[co.job].attempts
        /\ job'[co.job].hash = Transaction
    BY <1>6, MarkSubmittedRow DEF IInv
  <2>c. /\ UNCHANGED <<pool, minted, chainNonce, revivals>>
        /\ co'.pc = "finishing"
        /\ job[co.job].status = "submitting"
        /\ job[co.job].nonce = co.nonce
        /\ job[co.job].attempts = co.attempts + 1
    BY <1>6 DEF MarkSubmitted, IInv, Remembers, At, chainVars
  <2>1. HashesOwned' /\ NoncesFresh'
    BY <2>0 DEF IInv, HashesOwned, NoncesFresh, Owned, Transaction
  <2>2. PoolOrderly'
    BY <2>0, <2>c DEF IInv, PoolOrderly
  <2>3. Remembers'
    BY <2>c DEF Remembers
  <2>4. ActiveNoncesDistinct'
    BY <2>0, <2>c DEF IInv, ActiveNoncesDistinct, Active, ActiveStatuses
  <2>5. ConfirmedIsMinted'
    BY <2>0, <2>c DEF IInv, ConfirmedIsMinted, HasMinted
  <2>6. SubmittedTracksItsTransaction' /\ FailedSpentItsAttempts'
    BY <2>0, <2>c DEF IInv, SubmittedTracksItsTransaction,
                      FailedSpentItsAttempts, Transaction
  <2> QED BY <2>1, <2>2, <2>3, <2>4, <2>5, <2>6 DEF IInv
<1> QED BY <1>1, <1>2, <1>3, <1>4, <1>5, <1>6 DEF Relay

LEMMA InvCatch ==
  ASSUME IInv, TypeOK', Catch
  PROVE  IInv'
<1>p. At("finishing").pc = "finishing" /\ At("retried").pc = "retried"
  BY DEF At
<1>0. ASSUME co.pc = "errored"
      PROVE  /\ co.job \in Jobs /\ co.hash \in Hashes /\ Owned(co.hash, co.job)
             /\ co.attempts \in Nat /\ co.attempts <= job[co.job].attempts
             /\ job[co.job].status \in {"pending", "submitting", "retry"}
  BY <1>0 DEF IInv, TypeOK, CoStates, Remembers
<1>1. CASE CatchFindsBadge
  <2>1. co.pc = "errored"
    BY <1>1 DEF CatchFindsBadge
  <2>2. MarkConfirmed(co.job, co.hash) /\ HasMinted(co.job)
        /\ UNCHANGED <<chainVars, revivals>> /\ co'.pc = "finishing"
    BY <1>p, <1>1 DEF CatchFindsBadge
  <2> QED BY <1>0, <2>1, <2>2, Confirming
<1>2. CASE RenewAuthorization
  <2>0. /\ co.job \in Jobs
        /\ \A i \in Jobs :
             /\ job'[i].nonce = job[i].nonce
             /\ job'[i].attempts = job[i].attempts /\ job'[i].hash = job[i].hash
             /\ \/ job'[i].status = job[i].status
                \/ /\ i = co.job /\ job[i].status # "confirmed"
                   /\ job'[i].status = "retry"
    BY <1>2, RenewAuthorizationRow DEF IInv
  <2>c. /\ UNCHANGED <<claim, pool, minted, chainNonce, revivals>>
        /\ co'.pc = "finishing"
        /\ job[co.job].status \in {"pending", "submitting", "retry"}
    BY <1>0, <1>p, <1>2 DEF RenewAuthorization, BadgeNotFound, chainVars
  <2>1. HashesOwned' /\ NoncesFresh'
    BY <2>0 DEF IInv, HashesOwned, NoncesFresh, Owned
  <2>2. PoolOrderly'
    BY <2>0, <2>c DEF IInv, PoolOrderly
  <2>3. Remembers'
    BY <2>c DEF Remembers
  <2>4. ActiveNoncesDistinct'
    BY <2>0, <2>c DEF IInv, ActiveNoncesDistinct, Active, ActiveStatuses
  <2>5. ConfirmedIsMinted'
    BY <2>0, <2>c DEF IInv, ConfirmedIsMinted, HasMinted
  <2>6. SubmittedTracksItsTransaction' /\ FailedSpentItsAttempts'
    BY <2>0, <2>c DEF IInv, SubmittedTracksItsTransaction, FailedSpentItsAttempts
  <2> QED BY <2>1, <2>2, <2>3, <2>4, <2>5, <2>6 DEF IInv
<1>3. CASE CatchRetries
  <2>1. co.pc = "errored"
    BY <1>3 DEF CatchRetries, BadgeNotFound
  <2>2. MarkRetry(co.job, co.attempts, co.error = "nonceTooLow")
        /\ UNCHANGED <<chainVars, revivals>> /\ co'.pc = "retried"
    BY <1>p, <1>3 DEF CatchRetries
  <2>3. job[co.job].status \in ActiveStatuses
    BY <1>0, <2>1 DEF ActiveStatuses
  <2>4. co.error = "nonceTooLow" => \A h \in pool : h.job # co.job
    <3> SUFFICES ASSUME co.error = "nonceTooLow", NEW h \in pool, h.job = co.job
                 PROVE  FALSE
      OBVIOUS
    <3>1. co.nonce \in Nat /\ co.nonce < chainNonce /\ job[co.job].nonce = co.nonce
      BY <2>1 DEF IInv, Remembers, NoNonce
    <3>2. h.nonce = co.nonce /\ h.nonce >= chainNonce
      BY <3>1 DEF IInv, PoolOrderly
    <3> QED BY <3>1, <3>2 DEF IInv, TypeOK
  <2>5. (co.error = "nonceTooLow") \in BOOLEAN
    OBVIOUS
  <2> QED BY <1>0, <2>1, <2>2, <2>3, <2>4, <2>5, Retrying
<1>4. CASE DropNextNonce
  BY <1>p, <1>4, Frame DEF DropNextNonce, rowVars, chainVars
<1> QED BY <1>1, <1>2, <1>3, <1>4 DEF Catch

LEMMA InvAlarm ==
  ASSUME IInv, TypeOK',
         AlarmFires \/ NothingProcessed \/ ScheduleNext \/ Crash
           \/ RecoverMintRelays
  PROVE  IInv'
<1>0. \/ co' = co
      \/ \E pc \in {"idle", "running", "finishing"} : co' = At(pc)
  BY DEF AlarmFires, NothingProcessed, ScheduleNext, Crash, RecoverMintRelays
<1>1. \/ co' = co
      \/ co'.pc \notin {"acquired", "cached", "sent", "errored"}
  BY <1>0 DEF At
<1>2. UNCHANGED <<job, claim, pool, minted, chainNonce, revivals>>
  BY DEF AlarmFires, NothingProcessed, ScheduleNext, Crash, RecoverMintRelays,
         rowVars, chainVars
<1> QED BY <1>1, <1>2, Frame

LEMMA InvWorld ==
  ASSUME IInv, TypeOK',
         (\E j \in Jobs : Clock(j) \/ Collector(j)) \/ Chain
  PROVE  IInv'
<1> USE DEF rowVars, objectVars, chainVars
<1>1. ASSUME NEW j \in Jobs, BecomesDue(j)
      PROVE  IInv'
  <2>1. \A i \in Jobs :
          /\ job'[i].status = job[i].status /\ job'[i].nonce = job[i].nonce
          /\ job'[i].attempts = job[i].attempts /\ job'[i].hash = job[i].hash
    BY <1>1, DueRow DEF BecomesDue, IInv
  <2> QED BY <1>1, <2>1, Frame DEF BecomesDue
<1>2. ASSUME NEW j \in Jobs, TimesOut(j)
      PROVE  IInv'
  <2>1. \A i \in Jobs :
          /\ job'[i].status = job[i].status /\ job'[i].nonce = job[i].nonce
          /\ job'[i].attempts = job[i].attempts /\ job'[i].hash = job[i].hash
    BY <1>2, OverdueRow DEF IInv
  <2> QED BY <1>2, <2>1, Frame DEF TimesOut
<1>3. ASSUME NEW j \in Jobs, CollectorMints(j)
      PROVE  IInv'
  BY <1>3, Frame DEF CollectorMints
<1>4. ASSUME NEW j \in Jobs, RecordMint(j)
      PROVE  IInv'
  <2>1. UNCHANGED <<job, co, pool, minted, chainNonce, revivals>>
    BY <1>4 DEF RecordMint
  <2>2. /\ HasMinted(j)
        /\ \A i \in Jobs \ {j} : claim'[i] = claim[i]
    BY <1>4 DEF RecordMint, HasMinted, IInv, TypeOK
  <2>3. ConfirmedIsMinted'
    BY <2>1, <2>2 DEF IInv, ConfirmedIsMinted, HasMinted
  <2> QED BY <2>1, <2>3
          DEF IInv, HashesOwned, NoncesFresh, PoolOrderly, Remembers, Owned,
              ActiveNoncesDistinct, Active, FailedSpentItsAttempts,
              SubmittedTracksItsTransaction
<1>5. ASSUME NEW h \in pool, Mine(h)
      PROVE  IInv'
  <2>1. /\ UNCHANGED <<job, claim, co, revivals>>
        /\ minted \subseteq minted'
        /\ pool' = pool \ {h} /\ h.nonce = chainNonce
        /\ chainNonce' = chainNonce + 1
    BY <1>5 DEF Mine
  <2>2. PoolOrderly'
    BY <2>1 DEF IInv, PoolOrderly, TypeOK, Hashes, Nonces, NoNonce
  <2>3. Remembers'
    BY <2>1 DEF IInv, TypeOK, Remembers, Owned
  <2>4. ConfirmedIsMinted'
    BY <2>1, HasMintedMonotone DEF IInv, ConfirmedIsMinted
  <2> QED BY <2>1, <2>2, <2>3, <2>4
          DEF IInv, HashesOwned, NoncesFresh, ActiveNoncesDistinct, Active,
              FailedSpentItsAttempts, SubmittedTracksItsTransaction
<1>6. ASSUME NEW h \in pool, Evict(h)
      PROVE  IInv'
  BY <1>6, Frame DEF Evict
<1> QED BY <1>1, <1>2, <1>3, <1>4, <1>5, <1>6 DEF Clock, Collector, Chain

LEMMA InvInit == Init => IInv
<1> SUFFICES ASSUME Init PROVE IInv
  OBVIOUS
<1>1. TypeOK
  BY TypeInit
<1>2. HashesOwned /\ NoncesFresh /\ ActiveNoncesDistinct
  BY DEF Init, HashesOwned, Owned, NoncesFresh, ActiveNoncesDistinct, Active
<1>3. PoolOrderly /\ Remembers
  BY DEF Init, PoolOrderly, Remembers, At
<1>4. ConfirmedIsMinted /\ SubmittedTracksItsTransaction /\ FailedSpentItsAttempts
  BY DEF Init, ConfirmedIsMinted, SubmittedTracksItsTransaction,
         FailedSpentItsAttempts
<1> QED BY <1>1, <1>2, <1>3, <1>4 DEF IInv

LEMMA InvNext == IInv /\ [Next]_vars => IInv'
<1> SUFFICES ASSUME IInv, [Next]_vars PROVE IInv'
  OBVIOUS
<1>1. TypeOK'
  BY TypeNext DEF IInv
<1>2. CASE UNCHANGED vars
  BY <1>1, <1>2, Frame DEF vars
<1>3. CASE Next
  BY <1>1, <1>3, InvRequest, InvProcessOne, InvRelay, InvCatch, InvAlarm, InvWorld
     DEF Next, Coordinator
<1> QED BY <1>2, <1>3

\* In every reachable state of the relay, the account and the chain, the hashes,
\* nonces, rows and the coordinator's locals fit together.
THEOREM Invariance == Spec => []IInv
BY InvInit, InvNext, PTL DEF Spec

\* A collector's mint is never paid for twice: whatever is retried, lost or
\* crashed, the pending transactions of a job compete for one account nonce.
THEOREM OneTransaction == Spec => []OneLiveTransactionPerJob
<1>1. IInv => OneLiveTransactionPerJob
  BY DEF IInv, PoolOrderly, OneLiveTransactionPerJob
<1> QED BY <1>1, Invariance, PTL

\* nextMintJobNetworkNonce and the cached nonce never give two jobs one nonce.
THEOREM DistinctNonces == Spec => []ActiveNoncesDistinct
<1>1. IInv => ActiveNoncesDistinct
  BY DEF IInv
<1> QED BY <1>1, Invariance, PTL

\* Only a badge that is on chain is reported or recorded as minted.
THEOREM ConfirmedMinted == Spec => []ConfirmedIsMinted
<1>1. IInv => ConfirmedIsMinted
  BY DEF IInv
<1> QED BY <1>1, Invariance, PTL

\* The receipt that a poll asks for is that of the latest attempt.
THEOREM SubmittedTracks == Spec => []SubmittedTracksItsTransaction
<1>1. IInv => SubmittedTracksItsTransaction
  BY DEF IInv
<1> QED BY <1>1, Invariance, PTL

\* A stale attempt count never fails a job more than one attempt early.
THEOREM FailedSpent == Spec => []FailedSpentItsAttempts
<1>1. IInv => FailedSpentItsAttempts
  BY DEF IInv
<1> QED BY <1>1, Invariance, PTL

-----------------------------------------------------------------------------
(* Attempts.                                                               *)

Relays(j) == co.pc \in {"acquired", "cached", "sent", "errored"} /\ co.job = j

Limit(j) == MaxAttempts + crashes + faults + revivals[j]

\* One more attempt is within the limit.
Room(j) == job[j].attempts + 1 <= Limit(j)

\* A job that will be submitted again has an attempt left, unless the coordinator
\* is at it: then its end is paid for by a fault, or it counts the attempt.
AttemptRight(j) ==
  /\ job[j].attempts <= Limit(j)
  /\ job[j].status \in {"absent", "pending", "retry"} => Room(j)
  /\ job[j].status = "submitting" /\ ~Relays(j) => Room(j)
  /\ Relays(j) => job[j].attempts <= co.attempts + 1
  /\ Relays(j) /\ co.pc = "errored" /\ co.error = "expired" => Room(j) \/ HasMinted(j)

AttemptInv == \A j \in Jobs : AttemptRight(j)

LEMMA BudgetTypes ==
  ASSUME TypeOK, NEW i \in Jobs
  PROVE  /\ crashes \in Nat /\ faults \in Nat /\ revivals[i] \in Nat
         /\ job[i].attempts \in Nat /\ MaxAttempts \in Nat /\ MaxAttempts >= 1
BY RowTypes, MintRelayAssumption DEF TypeOK

\* A row whose attempts and status stay is right as long as the budgets only
\* grow and the coordinator does not turn to it or away from it.
LEMMA AttemptStays ==
  ASSUME TypeOK, TypeOK', NEW i \in Jobs, AttemptRight(i),
         job'[i].attempts = job[i].attempts, job'[i].status = job[i].status,
         crashes' >= crashes, faults' >= faults, revivals'[i] >= revivals[i],
         minted \subseteq minted',
         co' = co \/ (~Relays(i) /\ ~Relays(i)')
  PROVE  AttemptRight(i)'
<1>1. /\ job[i].attempts \in Nat /\ crashes \in Nat /\ faults \in Nat /\ revivals[i] \in Nat
      /\ MaxAttempts \in Nat
  BY BudgetTypes
<1>2. PICK c, f, r \in Nat : c = crashes' /\ f = faults' /\ r = revivals'[i]
  BY DEF TypeOK
<1>3. Limit(i)' = MaxAttempts + c + f + r /\ Limit(i) <= Limit(i)' /\ (Room(i) => Room(i)')
  BY <1>1, <1>2 DEF Limit, Room
<1>4. job'[i].attempts <= Limit(i)'
  BY <1>1, <1>2, <1>3 DEF AttemptRight, Limit
<1>5. HasMinted(i) => HasMinted(i)'
  BY HasMintedMonotone
<1> QED
  BY <1>3, <1>4, <1>5 DEF AttemptRight, Relays

\* The limit never shrinks, and each of what pays for an attempt raises it.
LEMMA LimitGrows ==
  ASSUME TypeOK, TypeOK', NEW i \in Jobs,
         crashes' >= crashes, faults' >= faults, revivals'[i] >= revivals[i]
  PROVE  \E l \in Nat :
           /\ l = Limit(i)' /\ l >= Limit(i) /\ Limit(i) \in Nat /\ l >= MaxAttempts
           /\ crashes' = crashes + 1 => l >= Limit(i) + 1
           /\ faults' = faults + 1 => l >= Limit(i) + 1
           /\ revivals'[i] = revivals[i] + 1 => l >= Limit(i) + 1
<1>1. /\ crashes \in Nat /\ faults \in Nat /\ revivals[i] \in Nat /\ MaxAttempts \in Nat
  BY BudgetTypes
<1>2. PICK c, f, r \in Nat : c = crashes' /\ f = faults' /\ r = revivals'[i]
  BY DEF TypeOK
<1>3. Limit(i)' = MaxAttempts + c + f + r
  BY <1>2 DEF Limit
<1> QED
  BY <1>1, <1>2, <1>3 DEF Limit

LEMMA Spends ==
  ASSUME TypeOK, NEW needed \in BOOLEAN, Spend(needed)
  PROVE  faults' >= faults /\ (needed => faults' = faults + 1)
BY DEF TypeOK, Spend

\* The step is about row j: it is enough to look at that one.
LEMMA AttemptMoves ==
  ASSUME TypeOK, TypeOK', AttemptInv, NEW j \in Jobs, AttemptRight(j)',
         \A i \in Jobs \ {j} : /\ job'[i].attempts = job[i].attempts
                               /\ job'[i].status = job[i].status
                               /\ co' = co \/ (~Relays(i) /\ ~Relays(i)'),
         crashes' >= crashes, faults' >= faults,
         \A i \in Jobs : revivals'[i] >= revivals[i],
         minted \subseteq minted'
  PROVE  AttemptInv'
<1>1. ASSUME NEW i \in Jobs \ {j} PROVE AttemptRight(i)'
  BY AttemptStays DEF AttemptInv
<1> QED
  BY <1>1 DEF AttemptInv

\* What leaves a row for good, or gives it up, leaves it right.
LEMMA AttemptEnds ==
  ASSUME TypeOK, TypeOK', AttemptInv, NEW j \in Jobs,
         co.pc \notin {"acquired", "cached", "sent", "errored"} \/ co.job = j,
         co'.pc \notin {"acquired", "cached", "sent", "errored"},
         \A i \in Jobs \ {j} : job'[i] = job[i],
         job'[j].attempts = job[j].attempts,
         \/ job'[j].status \in {"submitted", "confirmed", "failed"}
         \/ job'[j].attempts < MaxAttempts
         \/ Room(j)',
         crashes' >= crashes, faults' >= faults,
         \A i \in Jobs : revivals'[i] >= revivals[i],
         minted \subseteq minted'
  PROVE  AttemptInv'
<1>1. PICK l \in Nat : l = Limit(j)' /\ l >= Limit(j) /\ l >= MaxAttempts
  BY LimitGrows
<1>2. job[j].attempts <= Limit(j) /\ Limit(j) \in Nat /\ job[j].attempts \in Nat
      /\ MaxAttempts \in Nat
  BY BudgetTypes DEF AttemptInv, AttemptRight, Limit
<1>3. ~Relays(j)' /\ \A i \in Jobs \ {j} : ~Relays(i) /\ ~Relays(i)'
  BY DEF Relays
<1>4. job'[j].attempts <= Limit(j)'
  BY <1>1, <1>2
<1>5. job'[j].attempts < MaxAttempts => Room(j)'
  BY <1>1, <1>2 DEF Room
<1>6. AttemptRight(j)'
  BY <1>3, <1>4, <1>5 DEF AttemptRight
<1> QED
  BY <1>3, <1>6, AttemptMoves

\* Steps that leave all rows, and what the coordinator relays, as they are.
LEMMA AttemptFrame ==
  ASSUME TypeOK, TypeOK', AttemptInv,
         \A i \in Jobs : job'[i].attempts = job[i].attempts /\ job'[i].status = job[i].status,
         \/ co' = co
         \/ /\ co.pc \notin {"acquired", "cached", "sent", "errored"}
            /\ co'.pc \notin {"acquired", "cached", "sent", "errored"},
         crashes' >= crashes, faults' >= faults,
         \A i \in Jobs : revivals'[i] >= revivals[i],
         minted \subseteq minted'
  PROVE  AttemptInv'
<1>1. co' = co \/ \A i \in Jobs : ~Relays(i) /\ ~Relays(i)'
  BY DEF Relays
<1> QED
  BY <1>1, AttemptStays DEF AttemptInv

LEMMA AttemptRequest ==
  ASSUME TypeOK, TypeOK', AttemptInv, NEW j \in Jobs, Request(j)
  PROVE  AttemptInv'
<1>t. crashes \in Nat /\ faults \in Nat /\ \A i \in Jobs : revivals[i] \in Nat
  BY BudgetTypes
<1>1. CASE ReadClaim(j) \/ ReuseJob(j) \/ Wake(j) \/ LoseWake(j)
  BY <1>t, <1>1, AttemptFrame
     DEF ReadClaim, ReuseJob, Wake, LoseWake, rowVars, objectVars, chainVars, budgetVars
<1>2. CASE CreateJob(j)
  <2>1. /\ \A i \in Jobs \ {j} : job'[i] = job[i]
        /\ job[j].status = "absent" /\ job'[j].status = "pending"
        /\ job'[j].attempts = job[j].attempts
    BY <1>2, CreateJobRow DEF CreateJob
  <2>2. UNCHANGED <<co, crashes, faults, revivals, minted>>
    BY <1>2 DEF CreateJob, objectVars, chainVars, budgetVars
  <2>3. AttemptRight(j)'
    BY <2>1, <2>2 DEF AttemptInv, AttemptRight, Room, Limit, Relays, HasMinted
  <2> QED
    BY <1>t, <2>1, <2>2, <2>3, AttemptMoves
<1>3. CASE ReviveJob(j)
  <2>1. /\ \A i \in Jobs \ {j} : job'[i] = job[i]
        /\ job[j].status = "failed" /\ job'[j].status = "retry"
        /\ job'[j].attempts = job[j].attempts
    BY <1>3, ReviveJobRow DEF ReviveJob
  <2>2. UNCHANGED <<co, crashes, faults, minted>>
    BY <1>3 DEF ReviveJob, objectVars, chainVars, budgetVars
  <2>3. /\ revivals'[j] = revivals[j] + 1
        /\ \A i \in Jobs \ {j} : revivals'[i] = revivals[i]
    BY <1>3 DEF ReviveJob, TypeOK
  <2>4. \A i \in Jobs : revivals'[i] >= revivals[i]
    BY <1>t, <2>3
  <2>5. PICK l \in Nat : l = Limit(j)' /\ l >= Limit(j) + 1 /\ Limit(j) \in Nat
    BY <1>t, <2>2, <2>3, <2>4, LimitGrows
  <2>6. job[j].attempts <= Limit(j) /\ job[j].attempts \in Nat
    BY BudgetTypes DEF AttemptInv, AttemptRight
  <2>7. job'[j].attempts <= Limit(j)' /\ Room(j)'
    BY <2>1, <2>5, <2>6 DEF Room
  <2>8. AttemptRight(j)'
    BY <2>1, <2>2, <2>7 DEF AttemptInv, AttemptRight, Relays
  <2> QED
    BY <1>t, <2>1, <2>2, <2>4, <2>8, AttemptMoves
<1> QED
  BY <1>1, <1>2, <1>3 DEF Request

LEMMA AttemptProcess ==
  ASSUME IInv, TypeOK', AttemptInv, NEW j \in Jobs, ProcessOne(j)
  PROVE  AttemptInv'
<1>t. /\ TypeOK /\ crashes \in Nat /\ faults \in Nat /\ \A i \in Jobs : revivals[i] \in Nat
      /\ job[j].hash \in Hashes /\ job[j].attempts \in Nat /\ MaxAttempts \in Nat
  BY BudgetTypes, RowTypes DEF IInv
<1>p. co.pc = "running"
  BY DEF ProcessOne, PollConfirms, PollPending, PollFindsBadge, PollRetries, GivesUp,
         SubmitFindsBadge, SubmitFails, MarkSubmitting, Polls, Submits
<1>1. CASE PollConfirms(j) \/ PollFindsBadge(j) \/ SubmitFindsBadge(j)
  <2>1. /\ MarkConfirmed(j, job[j].hash) /\ co' = At("finishing")
        /\ UNCHANGED <<crashes, revivals, minted>>
    BY <1>1 DEF PollConfirms, PollFindsBadge, SubmitFindsBadge, chainVars, budgetVars
  <2>2. faults' >= faults
    BY <1>t, <1>1
       DEF PollConfirms, PollFindsBadge, SubmitFindsBadge, GivesUp, budgetVars, Spend
  <2>3. /\ \A i \in Jobs \ {j} : job'[i] = job[i]
        /\ job'[j].status = "confirmed" /\ job'[j].attempts = job[j].attempts
    BY <1>t, <2>1, MarkConfirmedRow
  <2> QED
    BY <1>p, <1>t, <2>1, <2>2, <2>3, AttemptEnds DEF At
<1>2. CASE PollPending(j)
  <2>1. \A i \in Jobs : job'[i].attempts = job[i].attempts /\ job'[i].status = job[i].status
    BY <1>2, <1>t, DueRow DEF PollPending
  <2>2. co'.pc = "finishing" /\ UNCHANGED <<crashes, revivals, minted>> /\ faults' >= faults
    BY <1>t, <1>2 DEF PollPending, chainVars, At, Spend
  <2> QED
    BY <1>p, <1>t, <2>1, <2>2, AttemptFrame
<1>3. CASE PollRetries(j)
  <2>1. /\ MarkRetry(j, job[j].attempts, FALSE) /\ co' = At("retried")
        /\ UNCHANGED <<crashes, revivals, minted>>
    BY <1>3 DEF PollRetries, chainVars
  <2>2. faults' >= faults
    BY <1>t, <1>3 DEF PollRetries, GivesUp, Spend
  <2>3. /\ \A i \in Jobs \ {j} : job'[i] = job[i]
        /\ job'[j].attempts = job[j].attempts
        /\ job'[j].status = "failed" \/ job[j].attempts + 1 < MaxAttempts
    BY <1>t, <2>1, MarkRetryRow
  <2>4. job'[j].status = "failed" \/ job'[j].attempts < MaxAttempts
    BY <1>t, <2>3
  <2> QED
    BY <1>p, <1>t, <2>1, <2>2, <2>3, <2>4, AttemptEnds DEF At
<1>4. CASE SubmitFails(j)
  <2>1. /\ co' = Snapshot(j, "errored", NoNonce, "other") /\ job' = job
        /\ UNCHANGED <<crashes, revivals, minted>> /\ faults' >= faults
    BY <1>t, <1>4, Spends DEF SubmitFails, chainVars, rowVars
  <2>2. co'.pc = "errored" /\ co'.job = j /\ co'.attempts = job[j].attempts
        /\ co'.error = "other"
    BY <2>1 DEF Snapshot
  <2>3. \A i \in Jobs \ {j} : ~Relays(i) /\ ~Relays(i)'
    BY <1>p, <2>2 DEF Relays
  <2>4. job[j].status \in {"pending", "retry", "submitting"} /\ ~Relays(j)
    BY <1>p, <1>4 DEF SubmitFails, Submits, NextMintJob, Schedulable, Active, ActiveStatuses,
                      Relays
  <2>5. PICK l \in Nat : l = Limit(j)' /\ l >= Limit(j) /\ Limit(j) \in Nat
    BY <1>t, <2>1, LimitGrows
  <2>6. Room(j) /\ job[j].attempts <= Limit(j)
    BY <2>4 DEF AttemptInv, AttemptRight
  <2>7. job'[j].attempts <= Limit(j)' /\ Room(j)'
    BY <1>t, <2>1, <2>5, <2>6 DEF Room
  <2>8. job'[j].attempts <= co'.attempts + 1
    BY <1>t, <2>1, <2>2
  <2>9. AttemptRight(j)'
    BY <2>2, <2>7, <2>8 DEF AttemptRight
  <2> QED
    BY <1>t, <2>1, <2>3, <2>9, AttemptMoves
<1>5. CASE MarkSubmitting(j)
  <2>1. /\ \A i \in Jobs \ {j} : job'[i] = job[i]
        /\ job[j].status \in {"pending", "submitting", "retry"}
        /\ job'[j].status = "submitting" /\ job'[j].attempts = job[j].attempts + 1
        /\ co' = Snapshot(j, "acquired", job'[j].nonce, "none")
    BY <1>t, <1>5, MarkSubmittingRow
  <2>2. co'.pc = "acquired" /\ co'.job = j /\ co'.attempts = job[j].attempts
    BY <2>1 DEF Snapshot
  <2>3. \A i \in Jobs \ {j} : ~Relays(i) /\ ~Relays(i)'
    BY <1>p, <2>2 DEF Relays
  <2>4. UNCHANGED <<crashes, revivals, minted, faults>>
    BY <1>5 DEF MarkSubmitting, chainVars, budgetVars
  <2>5. Room(j) /\ Limit(j)' = Limit(j)
    BY <1>p, <2>1, <2>4 DEF AttemptInv, AttemptRight, Relays, Limit
  <2>6. job'[j].attempts <= Limit(j)' /\ job'[j].attempts <= co'.attempts + 1
    BY <1>t, <2>1, <2>2, <2>5 DEF Room
  <2>7. Relays(j)'
    BY <2>2 DEF Relays
  <2>8. AttemptRight(j)'
    BY <2>1, <2>2, <2>6, <2>7 DEF AttemptRight
  <2> QED
    BY <1>t, <2>1, <2>3, <2>4, <2>8, AttemptMoves
<1> QED
  BY <1>1, <1>2, <1>3, <1>4, <1>5 DEF ProcessOne

LEMMA AttemptRelay ==
  ASSUME IInv, TypeOK', AttemptInv, Relay
  PROVE  AttemptInv'
<1>t. /\ TypeOK /\ crashes \in Nat /\ faults \in Nat /\ \A i \in Jobs : revivals[i] \in Nat
  BY DEF IInv, TypeOK
<1>c. /\ co.pc \in {"acquired", "cached", "sent"} /\ co.job \in Jobs /\ Relays(co.job)
      /\ \A i \in Jobs \ {co.job} : ~Relays(i)
  BY <1>t DEF Relay, PutNextNonce, RelayAccepted, RelayResponseLost, RelayRejected,
              WriteFails, MarkSubmitted, TypeOK, Relays
<1>1. CASE MarkSubmitted
  <2>1. /\ \A i \in Jobs \ {co.job} : job'[i] = job[i]
        /\ job'[co.job].status = "submitted"
        /\ job'[co.job].attempts = job[co.job].attempts
    BY <1>t, <1>1, MarkSubmittedRow
  <2>2. co'.pc = "finishing" /\ UNCHANGED <<crashes, faults, revivals, minted>>
    BY <1>1 DEF MarkSubmitted, At, chainVars, budgetVars
  <2> QED
    BY <1>t, <1>c, <2>1, <2>2, AttemptEnds
<1>2. CASE PutNextNonce \/ RelayAccepted \/ RelayResponseLost \/ RelayRejected \/ WriteFails
  <2>k. PICK k \in Jobs : k = co.job
    BY <1>c
  <2>1. UNCHANGED <<job, crashes, revivals, minted>> /\ faults' >= faults
    BY <1>t, <1>2 DEF PutNextNonce, RelayAccepted, RelayResponseLost, RelayRejected,
                      WriteFails, Broadcast, Spend, rowVars, chainVars, budgetVars
  <2>2. /\ co'.pc \in {"cached", "sent", "errored"}
        /\ co'.job = co.job /\ co'.attempts = co.attempts
    BY <1>t, <1>2 DEF PutNextNonce, RelayAccepted, RelayResponseLost, RelayRejected,
                      WriteFails, TypeOK, CoStates
  <2>3. Relays(k) /\ Relays(k)' /\ \A i \in Jobs \ {k} : ~Relays(i) /\ ~Relays(i)'
    BY <1>c, <2>2, <2>k DEF Relays
  <2>4. PICK l \in Nat : /\ l = Limit(k)' /\ l >= Limit(k) /\ Limit(k) \in Nat
                         /\ faults' = faults + 1 => l >= Limit(k) + 1
    <3>1. crashes' >= crashes /\ revivals'[k] >= revivals[k]
      BY <1>t, <2>1
    <3> QED
      BY <1>t, <2>1, <3>1, LimitGrows
  <2>5. /\ job[k].attempts <= Limit(k) /\ job[k].attempts \in Nat
        /\ job[k].attempts <= co.attempts + 1
    BY <1>t, <2>3, BudgetTypes DEF AttemptInv, AttemptRight
  <2>6. job'[k].attempts <= Limit(k)' /\ job'[k].attempts <= co'.attempts + 1
    BY <2>1, <2>2, <2>4, <2>5
  <2>7. co'.pc = "errored" /\ co'.error = "expired" => faults' = faults + 1 \/ HasMinted(k)
    <3>1. CASE RelayRejected
      BY <2>k, <3>1 DEF RelayRejected, Spend
    <3>2. CASE RelayResponseLost \/ WriteFails
      BY <1>t, <3>2 DEF RelayResponseLost, WriteFails, TypeOK, CoStates
    <3>3. CASE PutNextNonce \/ RelayAccepted
      BY <1>t, <3>3 DEF PutNextNonce, RelayAccepted, TypeOK, CoStates
    <3> QED
      BY <1>2, <3>1, <3>2, <3>3
  <2>8. faults' = faults + 1 => Room(k)'
    BY <2>1, <2>4, <2>5 DEF Room
  <2>9. HasMinted(k) => HasMinted(k)'
    BY <2>1, <2>2 DEF HasMinted
  <2>10. job[k].status = "submitting"
    BY <1>c, <2>k DEF IInv, Remembers
  <2>11. Room(k)' \/ HasMinted(k)' \/ ~(co'.pc = "errored" /\ co'.error = "expired")
    BY <2>7, <2>8, <2>9
  <2>12. AttemptRight(k)'
    BY <2>1, <2>3, <2>6, <2>10, <2>11 DEF AttemptRight
  <2> QED
    BY <1>t, <2>1, <2>3, <2>12, AttemptMoves
<1> QED
  BY <1>1, <1>2 DEF Relay

LEMMA AttemptCatch ==
  ASSUME IInv, TypeOK', AttemptInv, Catch
  PROVE  AttemptInv'
<1>t. /\ TypeOK /\ crashes \in Nat /\ faults \in Nat /\ \A i \in Jobs : revivals[i] \in Nat
      /\ co.hash \in Hashes /\ co.attempts \in Nat /\ MaxAttempts \in Nat
  BY MintRelayAssumption DEF IInv, TypeOK, CoStates
<1>1. CASE DropNextNonce
  <2>1. /\ UNCHANGED <<job, crashes, faults, revivals, minted>>
        /\ co.pc = "retried" /\ co'.pc = "finishing"
    BY <1>1 DEF DropNextNonce, At, rowVars, chainVars, budgetVars
  <2> QED
    BY <1>t, <2>1, AttemptFrame
<1>2. ASSUME CatchFindsBadge \/ RenewAuthorization \/ CatchRetries PROVE AttemptInv'
  <2>1. /\ co.pc = "errored" /\ co.job \in Jobs /\ co'.pc \in {"finishing", "retried"}
        /\ UNCHANGED <<crashes, revivals, minted>>
    BY <1>t, <1>2 DEF CatchFindsBadge, RenewAuthorization, CatchRetries, BadgeNotFound, TypeOK, At,
                 chainVars, budgetVars
  <2>2. faults' >= faults
    BY <1>t, <1>2 DEF CatchFindsBadge, RenewAuthorization, CatchRetries, BadgeNotFound, Spend,
                      budgetVars
  <2>3. PICK k \in Jobs : k = co.job
    BY <2>1
  <2>4. Relays(k) /\ \A i \in Jobs \ {k} : ~Relays(i)
    BY <2>1, <2>3 DEF Relays
  <2>5. /\ job[k].attempts \in Nat /\ job[k].attempts <= co.attempts + 1
        /\ job[k].attempts <= Limit(k)
        /\ co.error = "expired" => Room(k) \/ HasMinted(k)
    BY <1>t, <2>1, <2>4, BudgetTypes DEF AttemptInv, AttemptRight
  <2>6. crashes' >= crashes /\ \A i \in Jobs : revivals'[i] >= revivals[i]
    BY <1>t, <2>1
  <2>7. PICK l \in Nat : /\ l = Limit(k)' /\ l >= Limit(k) /\ Limit(k) \in Nat
                         /\ faults' = faults + 1 => l >= Limit(k) + 1
    BY <1>t, <2>2, <2>6, LimitGrows
  <2>8. /\ \A i \in Jobs \ {k} : job'[i] = job[i]
        /\ job'[k].attempts = job[k].attempts
        /\ \/ job'[k].status \in {"submitted", "confirmed", "failed"}
           \/ job'[k].attempts < MaxAttempts
           \/ Room(k)'
    <3>1. CASE CatchFindsBadge
      BY <1>t, <2>3, <3>1, MarkConfirmedRow DEF CatchFindsBadge
    <3>2. CASE CatchRetries
      <4>1. MarkRetry(k, co.attempts, co.error = "nonceTooLow")
        BY <2>3, <3>2 DEF CatchRetries
      <4>2. (co.error = "nonceTooLow") \in BOOLEAN
        OBVIOUS
      <4>3. /\ \A i \in Jobs \ {k} : job'[i] = job[i]
            /\ job'[k].attempts = job[k].attempts
            /\ job'[k].status = "failed" \/ co.attempts + 1 < MaxAttempts
        BY <1>t, <4>1, <4>2, MarkRetryRow
      <4>4. co.attempts + 1 < MaxAttempts => job'[k].attempts < MaxAttempts
        BY <1>t, <2>5, <4>3
      <4> QED
        BY <4>3, <4>4
    <3>3. CASE RenewAuthorization
      <4>1. faults' = faults + 1 \/ ~HasMinted(k)
        BY <2>3, <3>3 DEF RenewAuthorization, BadgeNotFound, Spend
      <4>2. co.error = "expired"
        BY <3>3 DEF RenewAuthorization
      <4>3. job' \in [Jobs -> JobRows] /\ job'[k].attempts = job[k].attempts
        BY <1>t, <3>3, RenewAuthorizationRow
      <4>4. \A i \in Jobs \ {k} : job'[i] = job[i]
        BY <1>t, <2>3, <3>3 DEF RenewAuthorization, TypeOK
      <4>5. Room(k)'
        BY <2>5, <2>7, <4>1, <4>2, <4>3 DEF Room
      <4> QED
        BY <4>3, <4>4, <4>5
    <3> QED
      BY <1>2, <3>1, <3>2, <3>3
  <2> QED
    BY <1>t, <2>1, <2>2, <2>3, <2>6, <2>8, AttemptEnds
<1> QED
  BY <1>1, <1>2 DEF Catch

LEMMA AttemptRest ==
  ASSUME TypeOK, TypeOK', AttemptInv,
         \/ AlarmFires \/ NothingProcessed \/ ScheduleNext \/ Crash \/ RecoverMintRelays
         \/ Chain \/ (\E j \in Jobs : Clock(j) \/ Collector(j)) \/ UNCHANGED vars
  PROVE  AttemptInv'
<1>t. crashes \in Nat /\ faults \in Nat /\ \A i \in Jobs : revivals[i] \in Nat
  BY DEF TypeOK
<1>1. CASE AlarmFires \/ NothingProcessed \/ ScheduleNext
  <2>1. UNCHANGED <<job, crashes, revivals, minted>> /\ faults' >= faults
    BY <1>t, <1>1 DEF AlarmFires, NothingProcessed, ScheduleNext, Spend, rowVars, chainVars,
                      budgetVars
  <2>2. /\ co.pc \notin {"acquired", "cached", "sent", "errored"}
        /\ co'.pc \notin {"acquired", "cached", "sent", "errored"}
    <3>1. CASE AlarmFires
      BY <3>1 DEF AlarmFires, At
    <3>2. CASE NothingProcessed
      BY <3>2 DEF NothingProcessed, At
    <3>3. CASE ScheduleNext
      BY <3>3 DEF ScheduleNext, At
    <3> QED
      BY <1>1, <3>1, <3>2, <3>3
  <2> QED
    BY <1>t, <2>1, <2>2, AttemptFrame
<1>2. CASE Crash
  <2>1. /\ UNCHANGED <<job, faults, revivals, minted>> /\ crashes' = crashes + 1
        /\ co'.pc = "idle"
    BY <1>2 DEF Crash, At, rowVars, chainVars
  <2>2. ASSUME NEW i \in Jobs PROVE AttemptRight(i)'
    <3>0. faults' >= faults /\ crashes' >= crashes /\ revivals'[i] >= revivals[i]
      BY <1>t, <2>1
    <3>1. PICK l \in Nat : l = Limit(i)' /\ Limit(i) \in Nat /\ l >= Limit(i) + 1
      BY <2>1, <3>0, LimitGrows
    <3>2. job[i].attempts \in Nat /\ job[i].attempts <= Limit(i)
      BY BudgetTypes DEF AttemptInv, AttemptRight
    <3>3. job'[i].attempts <= Limit(i)' /\ Room(i)'
      BY <2>1, <3>1, <3>2 DEF Room
    <3>4. ~Relays(i)'
      BY <2>1 DEF Relays
    <3> QED
      BY <3>3, <3>4 DEF AttemptRight
  <2> QED
    BY <2>2 DEF AttemptInv
<1>3. CASE RecoverMintRelays \/ Chain \/ UNCHANGED vars
  <2>1. /\ UNCHANGED <<job, co, crashes, revivals>> /\ faults' >= faults
        /\ minted \subseteq minted'
    BY <1>t, <1>3 DEF RecoverMintRelays, Chain, Mine, Evict, Spend, rowVars, objectVars,
                      chainVars, budgetVars, vars
  <2> QED
    BY <1>t, <2>1, AttemptFrame
<1>4. ASSUME NEW j \in Jobs, Clock(j) \/ Collector(j) PROVE AttemptInv'
  <2>1. UNCHANGED <<co, crashes, revivals>> /\ faults' >= faults /\ minted \subseteq minted'
    BY <1>t, <1>4 DEF Clock, Collector, BecomesDue, TimesOut, CollectorMints, RecordMint, Spend,
                      objectVars, chainVars, budgetVars
  <2>2. \A i \in Jobs : job'[i].attempts = job[i].attempts /\ job'[i].status = job[i].status
    <3>1. CASE BecomesDue(j)
      BY <3>1, DueRow DEF BecomesDue
    <3>2. CASE TimesOut(j)
      BY <3>2, OverdueRow
    <3>3. CASE Collector(j)
      BY <3>3 DEF Collector, CollectorMints, RecordMint, rowVars
    <3> QED
      BY <1>4, <3>1, <3>2, <3>3 DEF Clock
  <2> QED
    BY <1>t, <2>1, <2>2, AttemptFrame
<1> QED
  BY <1>1, <1>2, <1>3, <1>4

LEMMA AttemptInit == Init => AttemptInv
BY MintRelayAssumption DEF Init, AttemptInv, AttemptRight, Room, Limit, Relays, At

LEMMA AttemptNext == IInv /\ AttemptInv /\ [Next]_vars => AttemptInv'
<1> SUFFICES ASSUME IInv, AttemptInv, [Next]_vars PROVE AttemptInv'
  OBVIOUS
<1>1. TypeOK /\ TypeOK'
  BY TypeNext DEF IInv
<1> QED
  BY <1>1, AttemptRequest, AttemptProcess, AttemptRelay, AttemptCatch, AttemptRest
     DEF Next, Coordinator

\* A job never fails early, and beyond MAX_ATTEMPTS a transaction is paid for only
\* after a crash, a failing call or a revival, one for each.
THEOREM AttemptsCounted == Spec => []AttemptsAreCounted
<1>1. AttemptInv => AttemptsAreBounded
  BY DEF AttemptInv, AttemptRight, AttemptsAreBounded, Limit
<1>2. Spec => []AttemptInv
  BY Invariance, AttemptInit, AttemptNext, PTL DEF Spec
<1> QED
  BY <1>1, <1>2, FailedSpent, PTL DEF AttemptsAreCounted

-----------------------------------------------------------------------------
(* Settled rows, the promise and the alarm.                                *)

\* How a step can change the public status of one job, and the minted hash.
LEMMA StepEffect ==
  ASSUME IInv, [Next]_vars
  PROVE  \/ \A i \in Jobs : job'[i].status = job[i].status
         \/ \E j \in Jobs :
              /\ \A i \in Jobs \ {j} : job'[i].status = job[i].status
              /\ minted' = minted
              /\ \/ job[j].status = "absent" /\ job'[j].status = "pending"
                 \/ job[j].status = "failed" /\ job'[j].status = "retry"
                 \/ /\ job[j].status \in ActiveStatuses
                    /\ job'[j].status \in ActiveStatuses \cup {"failed"}
                 \/ /\ job[j].status \in ActiveStatuses /\ HasMinted(j)
                    /\ job'[j].status = "confirmed"
<1> DEFINE Moves(j) ==
      /\ \A i \in Jobs \ {j} : job'[i].status = job[i].status
      /\ minted' = minted
      /\ \/ job[j].status = "absent" /\ job'[j].status = "pending"
         \/ job[j].status = "failed" /\ job'[j].status = "retry"
         \/ /\ job[j].status \in ActiveStatuses
            /\ job'[j].status \in ActiveStatuses \cup {"failed"}
         \/ /\ job[j].status \in ActiveStatuses /\ HasMinted(j)
            /\ job'[j].status = "confirmed"
<1> SUFFICES ASSUME \E i \in Jobs : job'[i].status # job[i].status
             PROVE  \E j \in Jobs : Moves(j)
  OBVIOUS
<1>t. /\ TypeOK
      /\ \A j \in Jobs : job[j].hash \in Hashes /\ job[j].attempts \in Nat
  BY RowTypes DEF IInv
<1>c. co.pc \in {"acquired", "cached", "sent", "errored"} =>
        /\ co.job \in Jobs /\ co.hash \in Hashes /\ co.attempts \in Nat
        /\ job[co.job].status \in ActiveStatuses
  BY DEF IInv, TypeOK, CoStates, Remembers, ActiveStatuses
<1>s. \A j \in Jobs : NextMintJob(j) => job[j].status \in ActiveStatuses
  BY DEF NextMintJob, Schedulable, Active
<1>1. ASSUME NEW j \in Jobs, CreateJob(j)
      PROVE  Moves(j)
  BY <1>t, <1>1, CreateJobRow DEF CreateJob, chainVars
<1>2. ASSUME NEW j \in Jobs, ReviveJob(j)
      PROVE  Moves(j)
  BY <1>t, <1>2, ReviveJobRow DEF ReviveJob, chainVars
<1>3. ASSUME NEW j \in Jobs, PollConfirms(j)
      PROVE  Moves(j)
  <2>1. HasMinted(j) /\ job[j].status \in ActiveStatuses
    BY <1>s, <1>3 DEF PollConfirms, Polls, HasMinted, IInv, HashesOwned, Owned
  <2> QED BY <1>t, <1>3, <2>1, MarkConfirmedRow DEF PollConfirms, chainVars
<1>4. ASSUME NEW j \in Jobs, PollFindsBadge(j)
      PROVE  Moves(j)
  BY <1>s, <1>t, <1>4, MarkConfirmedRow DEF PollFindsBadge, GivesUp, Polls, chainVars
<1>5. ASSUME NEW j \in Jobs, SubmitFindsBadge(j)
      PROVE  Moves(j)
  BY <1>s, <1>t, <1>5, MarkConfirmedRow DEF SubmitFindsBadge, Submits, chainVars
<1>6. ASSUME NEW j \in Jobs, PollRetries(j)
      PROVE  Moves(j)
  <2>1. MarkRetry(j, job[j].attempts, FALSE) /\ job[j].status \in ActiveStatuses
        /\ minted' = minted
    BY <1>s, <1>6 DEF PollRetries, GivesUp, Polls, chainVars
  <2> QED BY <1>t, <2>1, MarkRetryRow DEF ActiveStatuses
<1>7. ASSUME NEW j \in Jobs, MarkSubmitting(j)
      PROVE  Moves(j)
  BY <1>t, <1>7, MarkSubmittingRow DEF MarkSubmitting, ActiveStatuses, chainVars
<1>8. ASSUME MarkSubmitted
      PROVE  Moves(co.job) /\ co.job \in Jobs
  BY <1>t, <1>c, <1>8, MarkSubmittedRow DEF MarkSubmitted, ActiveStatuses, chainVars
<1>9. ASSUME CatchFindsBadge
      PROVE  Moves(co.job) /\ co.job \in Jobs
  BY <1>t, <1>c, <1>9, MarkConfirmedRow DEF CatchFindsBadge, chainVars
<1>10. ASSUME RenewAuthorization
       PROVE  Moves(co.job) /\ co.job \in Jobs
  <2>1. co.pc = "errored" /\ minted' = minted
    BY <1>10 DEF RenewAuthorization, BadgeNotFound, chainVars
  <2> QED BY <1>t, <1>c, <1>10, <2>1, RenewAuthorizationRow DEF ActiveStatuses
<1>11. ASSUME CatchRetries
       PROVE  Moves(co.job) /\ co.job \in Jobs
  <2>1. co.pc = "errored" /\ minted' = minted
        /\ MarkRetry(co.job, co.attempts, co.error = "nonceTooLow")
    BY <1>11 DEF CatchRetries, BadgeNotFound, chainVars
  <2>2. (co.error = "nonceTooLow") \in BOOLEAN
    OBVIOUS
  <2> QED BY <1>t, <1>c, <2>1, <2>2, MarkRetryRow DEF ActiveStatuses
<1>12. ASSUME NEW j \in Jobs, PollPending(j) \/ BecomesDue(j) \/ TimesOut(j)
       PROVE  FALSE
  BY <1>t, <1>12, DueRow, OverdueRow DEF PollPending, BecomesDue
<1> HIDE DEF Moves
<1>13. ~UNCHANGED job
  OBVIOUS
<1>14. ASSUME NEW j \in Jobs, Request(j) \/ Clock(j) \/ Collector(j) \/ ProcessOne(j)
       PROVE  Moves(j)
  BY <1>1, <1>2, <1>3, <1>4, <1>5, <1>6, <1>7, <1>12, <1>13, <1>14
     DEF Request, Clock, Collector, ProcessOne, ReadClaim, ReuseJob, Wake, LoseWake,
         CollectorMints, RecordMint, SubmitFails, rowVars
<1>15. ASSUME Relay \/ Catch
       PROVE  Moves(co.job) /\ co.job \in Jobs
  BY <1>8, <1>9, <1>10, <1>11, <1>13, <1>15
     DEF Relay, Catch, PutNextNonce, RelayAccepted, RelayResponseLost,
         RelayRejected, WriteFails, DropNextNonce, rowVars
<1>16. ~(AlarmFires \/ NothingProcessed \/ ScheduleNext \/ Crash \/ RecoverMintRelays)
  BY <1>13 DEF AlarmFires, NothingProcessed, ScheduleNext, Crash,
               RecoverMintRelays, rowVars
<1>17. ~Chain
  BY <1>13 DEF Chain, Mine, Evict, rowVars
<1> QED BY <1>13, <1>14, <1>15, <1>16, <1>17 DEF Next, Coordinator, vars

LEMMA RecordedHashStays ==
  ASSUME IInv, [Next]_vars, NEW j \in Jobs, claim[j].minted # NoHash
  PROVE  claim'[j].minted = claim[j].minted
<1>t. TypeOK
  BY DEF IInv
<1>1. ASSUME NEW i \in Jobs, NEW hash \in Hashes, MarkConfirmed(i, hash)
      PROVE  claim'[j].minted = claim[j].minted
  BY <1>t, <1>1, MarkConfirmedRow
<1>2. \A i \in Jobs : job[i].hash \in Hashes
  BY <1>t, RowTypes
<1>3. ASSUME NEW i \in Jobs, PollConfirms(i) \/ PollFindsBadge(i) \/ SubmitFindsBadge(i)
      PROVE  claim'[j].minted = claim[j].minted
  BY <1>1, <1>2, <1>3 DEF PollConfirms, PollFindsBadge, SubmitFindsBadge
<1>4. ASSUME CatchFindsBadge
      PROVE  claim'[j].minted = claim[j].minted
  BY <1>t, <1>1, <1>4 DEF CatchFindsBadge, TypeOK, CoStates
<1>5. ASSUME MarkSubmitted
      PROVE  claim'[j].minted = claim[j].minted
  BY <1>t, <1>5, MarkSubmittedRow
<1>6. ASSUME NEW i \in Jobs, RecordMint(i)
      PROVE  claim'[j].minted = claim[j].minted
  BY <1>t, <1>6 DEF RecordMint, TypeOK
<1>7. ASSUME claim' = claim
      PROVE  claim'[j].minted = claim[j].minted
  BY <1>7
<1>8. ASSUME NEW i \in Jobs, Request(i) \/ Clock(i) \/ Collector(i) \/ ProcessOne(i)
      PROVE  claim'[j].minted = claim[j].minted
  BY <1>3, <1>6, <1>7, <1>8
     DEF Request, Clock, Collector, ProcessOne, ReadClaim, CreateJob, ReviveJob,
         ReuseJob, Wake, LoseWake, CollectorMints, BecomesDue, TimesOut,
         PollPending, PollRetries, SubmitFails, MarkSubmitting, MarkRetry, rowVars
<1>9. ASSUME Relay \/ Catch
      PROVE  claim'[j].minted = claim[j].minted
  BY <1>4, <1>5, <1>7, <1>9
     DEF Relay, Catch, PutNextNonce, RelayAccepted, RelayResponseLost,
         RelayRejected, WriteFails, RenewAuthorization, CatchRetries,
         DropNextNonce, MarkRetry, rowVars
<1>10. ASSUME AlarmFires \/ NothingProcessed \/ ScheduleNext \/ Crash
                \/ RecoverMintRelays \/ Chain \/ UNCHANGED vars
       PROVE  claim'[j].minted = claim[j].minted
  BY <1>7, <1>10 DEF AlarmFires, NothingProcessed, ScheduleNext, Crash,
                     RecoverMintRelays, Chain, Mine, Evict, rowVars, vars
<1> QED BY <1>8, <1>9, <1>10 DEF Next, Coordinator

\* Neither a late retry, nor a revival, nor a second mint report changes a row
\* that is confirmed or a hash that is recorded.
THEOREM SettledFinal == Spec => SettledIsFinal
<1>1. IInv /\ [Next]_vars =>
        [\A j \in Jobs :
           /\ job[j].status = "confirmed" => job'[j].status = "confirmed"
           /\ claim[j].minted # NoHash => claim'[j].minted = claim[j].minted]_vars
  BY StepEffect, RecordedHashStays DEF ActiveStatuses
<1> QED BY <1>1, Invariance, PTL DEF Spec, SettledIsFinal

LEMMA MintEffect ==
  ASSUME IInv, [Next]_vars
  PROVE  \/ minted' = minted
         \/ \E h : h.job \in Jobs /\ minted' = minted \cup {h}
<1>1. ASSUME NEW j \in Jobs, CollectorMints(j)
      PROVE  OwnTransaction(j).job \in Jobs /\ minted' = minted \cup {OwnTransaction(j)}
  BY <1>1 DEF CollectorMints, OwnTransaction
<1>2. ASSUME NEW h \in pool, Mine(h)
      PROVE  h.job \in Jobs /\ (minted' = minted \/ minted' = minted \cup {h})
  BY <1>2 DEF Mine, IInv, PoolOrderly
<1>3. ASSUME NEW j \in Jobs, Request(j) \/ Clock(j) \/ RecordMint(j) \/ ProcessOne(j)
      PROVE  minted' = minted
  BY <1>3 DEF Request, Clock, ProcessOne, ReadClaim, CreateJob, ReviveJob, RecordMint,
         ReuseJob, Wake, LoseWake, BecomesDue, TimesOut, PollConfirms,
         PollPending, PollFindsBadge, PollRetries, SubmitFindsBadge, SubmitFails,
         MarkSubmitting, chainVars
<1>4. ASSUME Relay \/ Catch
      PROVE  minted' = minted
  BY <1>4
     DEF Relay, Catch, PutNextNonce, RelayAccepted, RelayResponseLost,
         RelayRejected, WriteFails, MarkSubmitted, CatchFindsBadge,
         RenewAuthorization, CatchRetries, DropNextNonce, Broadcast, chainVars
<1>5. ASSUME AlarmFires \/ NothingProcessed \/ ScheduleNext \/ Crash
               \/ RecoverMintRelays \/ UNCHANGED vars \/ \E h \in pool : Evict(h)
      PROVE  minted' = minted
  BY <1>5 DEF AlarmFires, NothingProcessed, ScheduleNext, Crash,
              RecoverMintRelays, Evict, chainVars, vars
<1> QED
  BY <1>1, <1>2, <1>3, <1>4, <1>5 DEF Next, Coordinator, Collector, Chain

\* A step of the relay is a step of the promise or none: what collectors are told
\* follows absent -> minting -> minted or failed, and "minted" only after a mint.
THEOREM RelayKeepsPromise == Spec => PromiseKept
<1> DEFINE pub == [j \in Jobs |-> PublicStatus(j)]
           chain == [j \in Jobs |-> HasMinted(j)]
<1>1. Init => Promise!Init
  BY DEF Init, Promise!Init, PublicStatus, ActiveStatuses, HasMinted
<1>2. ASSUME IInv, [Next]_vars
      PROVE  [Promise!Next]_(Promise!vars)
  <2>1. CASE minted' = minted /\ \A i \in Jobs : job'[i].status = job[i].status
    <3>1. pub' = pub
      BY <2>1 DEF PublicStatus
    <3>2. chain' = chain
      BY <2>1 DEF HasMinted
    <3> QED BY <3>1, <3>2 DEF Promise!vars
  <2>2. ASSUME NEW h, h.job \in Jobs, minted' = minted \cup {h},
               \A i \in Jobs : job'[i].status = job[i].status
        PROVE  [Promise!Next]_(Promise!vars)
    <3>1. pub' = pub
      BY <2>2 DEF PublicStatus
    <3>2. CASE HasMinted(h.job)
      <4>1. \A i \in Jobs : HasMinted(i)' = HasMinted(i)
        BY <2>2, <3>2 DEF HasMinted
      <4>2. chain' = chain
        BY <4>1
      <4> QED BY <3>1, <4>2 DEF Promise!vars
    <3>3. CASE ~HasMinted(h.job)
      <4>1. /\ \A i \in Jobs \ {h.job} : HasMinted(i)' = HasMinted(i)
            /\ HasMinted(h.job)' = TRUE
        BY <2>2 DEF HasMinted
      <4>2. chain' = [chain EXCEPT ![h.job] = TRUE]
        BY <2>2, <4>1
      <4>3. Promise!Mint(h.job)
        BY <2>2, <3>1, <3>3, <4>2 DEF Promise!Mint
      <4> QED BY <2>2, <4>3 DEF Promise!Next
    <3> QED BY <3>2, <3>3
  <2>3. ASSUME NEW j \in Jobs, minted' = minted,
               \A i \in Jobs \ {j} : job'[i].status = job[i].status,
               \/ job[j].status = "absent" /\ job'[j].status = "pending"
               \/ job[j].status = "failed" /\ job'[j].status = "retry"
               \/ /\ job[j].status \in ActiveStatuses
                  /\ job'[j].status \in ActiveStatuses \cup {"failed"}
               \/ /\ job[j].status \in ActiveStatuses /\ HasMinted(j)
                  /\ job'[j].status = "confirmed"
        PROVE  [Promise!Next]_(Promise!vars)
    <3>1. chain' = chain
      BY <2>3 DEF HasMinted
    <3>2. pub' = [pub EXCEPT ![j] = PublicStatus(j)']
      <4>1. \A i \in Jobs \ {j} : PublicStatus(i)' = PublicStatus(i)
        BY <2>3 DEF PublicStatus
      <4> QED BY <4>1
    <3>3. \/ PublicStatus(j) \in {"absent", "failed"} /\ PublicStatus(j)' = "minting"
          \/ PublicStatus(j) = "minting" /\ PublicStatus(j)' = "minting"
          \/ PublicStatus(j) = "minting" /\ PublicStatus(j)' = "failed"
          \/ PublicStatus(j) = "minting" /\ PublicStatus(j)' = "minted" /\ HasMinted(j)
      BY <2>3 DEF PublicStatus, ActiveStatuses
    <3>4. CASE PublicStatus(j) = "minting" /\ PublicStatus(j)' = "minting"
      BY <3>1, <3>2, <3>4 DEF Promise!vars
    <3>5. CASE PublicStatus(j) \in {"absent", "failed"} /\ PublicStatus(j)' = "minting"
      BY <3>1, <3>2, <3>5 DEF Promise!Next, Promise!Ask
    <3>6. CASE PublicStatus(j) = "minting" /\ PublicStatus(j)' = "failed"
      BY <3>1, <3>2, <3>6 DEF Promise!Next, Promise!GiveUp
    <3>7. CASE PublicStatus(j) = "minting" /\ PublicStatus(j)' = "minted" /\ HasMinted(j)
      BY <3>1, <3>2, <3>7 DEF Promise!Next, Promise!Settle
    <3> QED BY <3>3, <3>4, <3>5, <3>6, <3>7
  <2> QED BY <1>2, <2>1, <2>2, <2>3, StepEffect, MintEffect
<1> QED
  BY <1>1, <1>2, Invariance, PTL DEF Spec, PromiseKept, Promise!Spec

LEMMA InFlightIsSchedulable ==
  ASSUME Schedulable = {}
  PROVE  Active = {}
<1> SUFFICES ASSUME NEW j \in Active PROVE FALSE
  OBVIOUS
<1>1. job[j].status = "pending" /\ ~(Cardinality(InFlight) < MaxInFlight)
  BY DEF Schedulable
<1>2. InFlight = {}
  BY DEF InFlight, Schedulable, Active, ActiveStatuses
<1>3. Cardinality(InFlight) = 0
  BY <1>2, FS_EmptySet
<1> QED BY <1>1, <1>3, MintRelayAssumption

LEMMA WakeNext ==
  ASSUME TypeOK, NoLostWakeup, [Next]_vars
  PROVE  NoLostWakeup'
<1>1. ASSUME co'.pc # "idle" PROVE NoLostWakeup'
  BY <1>1 DEF NoLostWakeup
<1>2. ASSUME alarm' \/ wakeLost' PROVE NoLostWakeup'
  BY <1>2 DEF NoLostWakeup
<1>3. ASSUME NEW j \in Jobs, request'[j] = "wake" PROVE NoLostWakeup'
  BY <1>3 DEF NoLostWakeup
<1>4. ASSUME \A i \in Jobs : job'[i].status = job[i].status,
             UNCHANGED <<co, alarm, wakeLost>>,
             \A i \in Jobs : request[i] = "wake" => request'[i] = "wake"
      PROVE  NoLostWakeup'
  <2>1. Active' = Active
    BY <1>4 DEF Active
  <2> QED BY <1>4, <2>1 DEF NoLostWakeup
<1>5. ASSUME NEW j \in Jobs, Request(j) PROVE NoLostWakeup'
  <2>1. CASE ReadClaim(j)
    BY <1>4, <2>1 DEF ReadClaim, TypeOK, rowVars, objectVars
  <2>2. CASE CreateJob(j) \/ ReviveJob(j) \/ ReuseJob(j)
    BY <1>3, <2>2 DEF CreateJob, ReviveJob, ReuseJob, TypeOK
  <2>3. CASE Wake(j) \/ LoseWake(j)
    BY <1>2, <2>3 DEF Wake, LoseWake
  <2> QED BY <1>5, <2>1, <2>2, <2>3 DEF Request
<1>6. ASSUME NEW j \in Jobs, Clock(j) \/ Collector(j) PROVE NoLostWakeup'
  <2>1. \A i \in Jobs : job'[i].status = job[i].status
    BY <1>6, DueRow, OverdueRow
       DEF Clock, Collector, BecomesDue, CollectorMints, RecordMint, rowVars
  <2> QED BY <1>4, <1>6, <2>1 DEF Clock, Collector, BecomesDue, TimesOut,
                                 CollectorMints, RecordMint, objectVars
<1>7. ASSUME NEW h \in pool, Mine(h) \/ Evict(h) PROVE NoLostWakeup'
  BY <1>4, <1>7 DEF Mine, Evict, rowVars, objectVars
<1>8. ASSUME NEW j \in Jobs, ProcessOne(j) PROVE NoLostWakeup'
  <2>1. CASE SubmitFails(j) \/ MarkSubmitting(j)
    <3>1. co' = Snapshot(j, "errored", NoNonce, "other")
          \/ co' = Snapshot(j, "acquired", job'[j].nonce, "none")
      BY <2>1, MarkSubmittingRow DEF SubmitFails
    <3> QED BY <1>1, <3>1 DEF Snapshot
  <2>2. CASE ~(SubmitFails(j) \/ MarkSubmitting(j))
    <3>1. co' = At("finishing") \/ co' = At("retried")
      BY <1>8, <2>2 DEF ProcessOne, PollConfirms, PollPending, PollFindsBadge,
                        PollRetries, SubmitFindsBadge
    <3> QED BY <1>1, <3>1 DEF At
  <2> QED BY <2>1, <2>2
<1>9. ASSUME AlarmFires \/ NothingProcessed \/ Relay \/ Catch PROVE NoLostWakeup'
  <2>1. CASE PutNextNonce \/ RelayAccepted \/ RelayResponseLost \/ RelayRejected
               \/ WriteFails
    <3>1. co'.pc \in {"cached", "sent", "errored"}
      BY <2>1 DEF PutNextNonce, RelayAccepted, RelayResponseLost, RelayRejected,
                  WriteFails, TypeOK, CoStates
    <3> QED BY <1>1, <3>1
  <2>2. CASE AlarmFires \/ NothingProcessed \/ MarkSubmitted \/ Catch
    <3>1. \E pc \in {"running", "finishing", "retried"} : co' = At(pc)
      BY <2>2 DEF AlarmFires, NothingProcessed, MarkSubmitted, Catch,
                  CatchFindsBadge, RenewAuthorization, CatchRetries, DropNextNonce
    <3> QED BY <1>1, <3>1 DEF At
  <2> QED BY <1>9, <2>1, <2>2 DEF Relay
<1>10. ASSUME ScheduleNext PROVE NoLostWakeup'
  <2>1. CASE alarm' = TRUE
    BY <1>2, <2>1
  <2>2. CASE Schedulable = {}
    <3>1. Active' = {}
      BY <1>10, <2>2, InFlightIsSchedulable DEF ScheduleNext, Active, rowVars
    <3> QED BY <3>1 DEF NoLostWakeup
  <2> QED BY <1>10, <2>1, <2>2 DEF ScheduleNext
<1>11. ASSUME Crash \/ RecoverMintRelays PROVE NoLostWakeup'
  BY <1>2, <1>11 DEF Crash, RecoverMintRelays
<1>12. ASSUME UNCHANGED vars PROVE NoLostWakeup'
  BY <1>4, <1>12 DEF vars
<1> QED
  BY <1>5, <1>6, <1>7, <1>8, <1>9, <1>10, <1>11, <1>12 DEF Next, Coordinator, Chain

\* Work is never forgotten.  scheduleNext may stop only with no active job left,
\* since a pending job that has to wait for the limit waits for one in flight.
THEOREM WorkIsNotForgotten == Spec => []NoLostWakeup
<1>1. Init => NoLostWakeup
  BY DEF Init, NoLostWakeup, Active, ActiveStatuses
<1> QED BY <1>1, TypeInit, TypeNext, WakeNext, PTL DEF Spec

===============================================================================
