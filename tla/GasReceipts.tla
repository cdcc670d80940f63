------------------------------ MODULE GasReceipts ------------------------------
(***************************************************************************)
(* The receipts behind the figures of a gas report (backfill and summarize  *)
(* of src/worker/gas-monitor.ts): hashes found in the job table and in the  *)
(* indexed transfers are queued in gas_receipts; each run asks for a few    *)
(* that are due and keeps those whose block is final. Two runs may overlap. *)
(* A hash may never be mined: it was replaced or dropped.                   *)
(***************************************************************************)
EXTENDS Integers, SequencesExt

CONSTANTS
    Hashes,          \* transaction hashes that were ever submitted
    Fillers,         \* runs of backfill that may overlap
    BatchLimit,      \* receipts asked for in one run
    Short, Long,     \* delays of the next check, without and with a receipt
    MaxReceiptFaults \* failed calls and reorganisations in a behaviour

ASSUME ReceiptConstants ==
    /\ BatchLimit \in Nat \ {0} /\ Short \in Nat \ {0} /\ Long \in Nat \ {0} /\ Short <= Long
    /\ MaxReceiptFaults \in Nat /\ IsFiniteSet(Hashes)

VARIABLES
    submitted,      \* hashes in live_mint_jobs or live_chain_events
    mined,          \* the chain: what each transaction did
    finalized,      \* transactions in finalized blocks
    receipts,       \* gas_receipts
    overdue,        \* its rows with next_check_at in the past, in that order
    filler,         \* the runs with what they read
    receiptFaults

receiptVars == <<submitted, mined, finalized, receipts, overdue, filler, receiptFaults>>

Outcomes == {"success", "failure"}

(* `absent`: no row; `waiting`: occurred_at is NULL; `partial`: the fee of  *)
(* the receipt was not complete; `full`: nothing is missing.                *)
RowStates == {"absent", "waiting", "partial", "full"}

(* `wait` is what remains until next_check_at. *)
ReceiptsTypeOK ==
    /\ submitted \subseteq Hashes
    /\ mined \in [Hashes -> Outcomes \cup {"none"}]
    /\ finalized \subseteq Hashes
    /\ receipts \in [Hashes -> [state : RowStates, success : Outcomes \cup {"none"},
                                wait : 0..Long]]
    /\ overdue \in Seq(Hashes) /\ IsInjective(overdue)
    /\ filler \in [Fillers -> [phase : {"idle", "ask", "write"}, asked : SUBSET Hashes,
                               final : SUBSET Hashes, answer : [Hashes -> Outcomes \cup {"none"}]]]
    /\ receiptFaults \in 0..MaxReceiptFaults

NoAnswer == [h \in Hashes |-> "none"]
NotFilling == [phase |-> "idle", asked |-> {}, final |-> {}, answer |-> NoAnswer]

ReceiptsInit ==
    /\ submitted = {}
    /\ mined = [h \in Hashes |-> "none"]
    /\ finalized = {}
    /\ receipts = [h \in Hashes |-> [state |-> "absent", success |-> "none", wait |-> 0]]
    /\ overdue = <<>>
    /\ filler = [f \in Fillers |-> NotFilling]
    /\ receiptFaults = 0

-----------------------------------------------------------------------------
\* Mistake: the receipts asked for last are asked for again.
BatchFromEnd(q) == ToSet(SubSeq(q, Len(q) - Min({BatchLimit, Len(q)}) + 1, Len(q)))

Batch(q) == ToSet(SubSeq(q, 1, Min({BatchLimit, Len(q)})))

(* Both INSERT OR IGNORE statements: rows that exist are left alone. A new   *)
(* row has next_check_at 0 and is asked for first. Then the first BatchLimit *)
(* rows that are due; the finalized block is known from an earlier call.     *)
SelectDue(f) ==
    LET new == {h \in submitted : receipts[h].state = "absent"} IN
    /\ filler[f].phase = "idle"
    /\ receipts' = [h \in Hashes |-> IF h \in new THEN [receipts[h] EXCEPT !.state = "waiting"]
                                     ELSE receipts[h]]
    /\ \E first \in SetToSeqs(new) : overdue' = first \o overdue
    /\ overdue' # <<>>
    /\ filler' = [filler EXCEPT ![f] = [NotFilling EXCEPT
           !.phase = "ask", !.final = finalized,
           !.asked = Batch(overdue')]]
    /\ UNCHANGED <<submitted, mined, finalized, receiptFaults>>

\* Mistake: receipts of blocks that are not final are recorded.
AnswerableAnyBlock(run) == run.asked

Answerable(run) == run.asked \cap run.final

(* Receipts and the timestamps of their blocks: an answer counts if its     *)
(* block is not above the finalized one the run knows.                      *)
AskReceipts(f) ==
    /\ filler[f].phase = "ask"
    /\ filler' = [filler EXCEPT ![f].phase = "write",
           ![f].answer = [h \in Hashes |->
               IF h \in Answerable(filler[f]) THEN mined[h] ELSE "none"]]
    /\ UNCHANGED <<submitted, mined, finalized, receipts, overdue, receiptFaults>>

Unanswered(r) == [r EXCEPT !.wait = Short]

(* What a run leaves of the queue, in its order. *)
StillOverdue(asked) ==
    {rest \in SetToSeqs(ToSet(overdue) \ asked) :
        \A i, j \in DOMAIN rest : i < j =>
            \E k, l \in DOMAIN overdue :
                k < l /\ overdue[k] = rest[i] /\ overdue[l] = rest[j]}

(* One batch, a statement for each hash that was asked for. Which receipts  *)
(* carry every field of the fee is the provider's choice.                   *)
WriteReceipts(f, complete) ==
    LET run == filler[f] IN
    /\ run.phase = "write"
    /\ receipts' = [h \in Hashes |->
          CASE h \notin run.asked -> receipts[h]
            [] h \in run.asked /\ run.answer[h] = "none" ->
                 Unanswered(receipts[h])
            [] h \in run.asked /\ run.answer[h] # "none" ->
                 [state |-> IF h \in complete THEN "full" ELSE "partial",
                  success |-> run.answer[h], wait |-> Long]]
    /\ overdue' \in StillOverdue(run.asked)
    /\ filler' = [filler EXCEPT ![f] = NotFilling]
    /\ UNCHANGED <<submitted, mined, finalized, receiptFaults>>

(* A call fails as a whole, or the run ends; nothing is rescheduled. *)
FillFails(f) ==
    /\ receiptFaults < MaxReceiptFaults
    /\ filler[f].phase # "idle"
    /\ filler' = [filler EXCEPT ![f] = NotFilling]
    /\ receiptFaults' = receiptFaults + 1
    /\ UNCHANGED <<submitted, mined, finalized, receipts, overdue>>

-----------------------------------------------------------------------------
SubmitTx(h) ==
    /\ h \notin submitted
    /\ submitted' = submitted \cup {h}
    /\ UNCHANGED <<mined, finalized, receipts, overdue, filler, receiptFaults>>

Mine(h, outcome) ==
    /\ h \in submitted
    /\ mined[h] = "none"
    /\ mined' = [mined EXCEPT ![h] = outcome]
    /\ UNCHANGED <<submitted, finalized, receipts, overdue, filler, receiptFaults>>

FinalizeTx(h) ==
    /\ mined[h] # "none" /\ h \notin finalized
    /\ finalized' = finalized \cup {h}
    /\ UNCHANGED <<submitted, mined, receipts, overdue, filler, receiptFaults>>

Reorganise(h) ==
    /\ receiptFaults < MaxReceiptFaults
    /\ mined[h] # "none" /\ h \notin finalized
    /\ mined' = [mined EXCEPT ![h] = "none"]
    /\ receiptFaults' = receiptFaults + 1
    /\ UNCHANGED <<submitted, finalized, receipts, overdue, filler>>

ReceiptTick ==
    LET waits == {h \in Hashes : receipts[h].wait > 0}
        missing == {h \in waits : receipts[h].wait = 1 /\ receipts[h].state # "full"}
    IN  /\ receipts' = [h \in Hashes |-> IF h \in waits THEN [receipts[h] EXCEPT !.wait = @ - 1]
                                         ELSE receipts[h]]
        /\ \E last \in SetToSeqs(missing) : overdue' = overdue \o last
        /\ UNCHANGED <<submitted, mined, finalized, filler, receiptFaults>>

FillStep(f) ==
    \/ SelectDue(f)
    \/ AskReceipts(f)
    \/ \E complete \in SUBSET filler[f].asked : WriteReceipts(f, complete)

ReceiptsNext ==
    \/ \E f \in Fillers : FillStep(f) \/ FillFails(f)
    \/ \E h \in Hashes : \E outcome \in Outcomes : Mine(h, outcome)
    \/ \E h \in Hashes : SubmitTx(h) \/ FinalizeTx(h) \/ Reorganise(h)
    \/ ReceiptTick

(* Fairness is stated where this module is composed. *)
ReceiptsSpec == ReceiptsInit /\ [][ReceiptsNext]_receiptVars

-----------------------------------------------------------------------------
(* What is reported of a transaction is what the final chain says of it:    *)
(* no receipt of a block that was reorganised away is ever kept.            *)
RecordedIsFinal ==
    /\ ReceiptsTypeOK
    /\ \A h \in Hashes : receipts[h].success # "none" =>
            h \in finalized /\ receipts[h].success = mined[h]

(* Every final transaction that was submitted is accounted for in the end,  *)
(* also when hashes that are never mined are asked for again and again and  *)
(* only BatchLimit of them fit in a run.                                    *)
EveryReceiptArrives == <>[](\A h \in finalized : receipts[h].success # "none")
=============================================================================
