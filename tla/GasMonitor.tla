------------------------------ MODULE GasMonitor ------------------------------
(***************************************************************************)
(* The gas monitor of the minute cron (src/worker/gas-monitor.ts): a run    *)
(* takes a lease on the one row of gas_monitor_state, reads the balance of  *)
(* the relayer, decides whether the operators must be told, extends its     *)
(* lease by a fence, sends one Telegram message and records what it told.   *)
(*                                                                          *)
(* Times are relative: `left` and `wait` of the row are what remains of     *)
(* lease_until and next_check_at, `ago` is the age of notified_at, and a    *)
(* run's `age` is the time since the `now` it computes everything from.     *)
(* So lease_until <= now is left <= -age.                                   *)
(***************************************************************************)
EXTENDS Integers, FiniteSets

CONSTANTS
    GasRuns,        \* runs that may overlap
    Balances,       \* balances of the relayer
    Average,        \* average fee of a mint, 0 when it is not known
    Low, Critical,  \* configured thresholds
    Lease, Fence, Retry, Interval, Day,   \* durations of the code, in ticks
    MaxAge,         \* the platform ends a run of this age
    MaxGasFaults    \* crashes, failed calls and lost answers in a behaviour

ASSUME GasDurations ==
    /\ Lease \in Nat \ {0} /\ Fence \in Nat \ {0} /\ Retry \in Nat
    /\ Interval \in Nat /\ Day \in Nat /\ MaxAge \in Nat /\ MaxGasFaults \in Nat
ASSUME GasThresholds ==
    /\ Balances \subseteq Nat /\ Average \in Nat
    /\ Critical \in Nat \ {0} /\ Low \in Nat /\ Critical < Low
ASSUME NobodyIsNoRun == "nobody" \notin GasRuns /\ "gone" \notin GasRuns

VARIABLES
    row,        \* gas_monitor_state
    gasRun,     \* the runs of the scheduled handler with their locals
    balance,    \* what the chain holds for the relayer
    told,       \* the last message that reached the operators
    gasFaults   \* faults so far

gasVars == <<row, gasRun, balance, told, gasFaults>>

Levels == {"healthy", "low", "critical"}
Phases == {"idle", "claim", "read", "rpc", "report", "fence", "send", "record", "catch"}

(* An owner of the lease is a run, nobody, or a run that has ended: its     *)
(* random UUID is never drawn again, whatever name the next run has here.   *)
Owners == GasRuns \cup {"nobody", "gone"}

Released == -MaxAge        \* lease_until = 0
Forgotten == Day + MaxAge  \* at this age a message is older than a day for every run

Idle == [phase |-> "idle", age |-> 0, prev |-> "healthy", sent |-> 0,
         balance |-> 0, level |-> "healthy", notified |-> FALSE]

GasTypeOK ==
    /\ row \in [owner : Owners, left : Released..Lease \cup Released..Fence,
                wait : Released..(Interval + Retry), level : Levels, ago : 0..Forgotten]
    /\ gasRun \in [GasRuns -> [phase : Phases, age : 0..MaxAge, prev : Levels,
                               sent : 0..Forgotten, balance : Balances \cup {0},
                               level : Levels, notified : BOOLEAN]]
    /\ balance \in Balances
    /\ told \in [level : Levels, ago : 0..Forgotten]
    /\ gasFaults \in 0..MaxGasFaults

AnyBalance == CHOOSE b \in Balances : TRUE

GasInit ==
    /\ row = [owner |-> "nobody", left |-> Released, wait |-> Released,
              level |-> "healthy", ago |-> Forgotten]
    /\ gasRun = [r \in GasRuns |-> Idle]
    /\ balance \in Balances
    /\ told = [level |-> "healthy", ago |-> Forgotten]
    /\ gasFaults = 0

-----------------------------------------------------------------------------
(* The decision. *)

LowLimit == IF Average * 100 > Low THEN Average * 100 ELSE Low
CriticalLimit == IF Average * 10 > Critical THEN Average * 10 ELSE Critical

AlertLevel(b, previous) ==
    IF b <= CriticalLimit THEN "critical"
    ELSE IF b <= LowLimit \/ (previous # "healthy" /\ b < (LowLimit * 125) \div 100)
         THEN "low"
         ELSE "healthy"

\* Mistake: no reminder and no recovery message.
NotificationDueOnce(level, previous, sinceLast) ==
    level # "healthy" /\ (previous = "healthy" \/ (level = "critical" /\ previous # "critical"))

(* sinceLast is now - lastSent. *)
NotificationDue(level, previous, sinceLast) ==
    IF level = "healthy" THEN previous # "healthy"
    ELSE \/ previous = "healthy"
         \/ level = "critical" /\ previous # "critical"
         \/ sinceLast >= Day

-----------------------------------------------------------------------------
(* Steps of one run, an await each. *)

LeaseLeft(age) == Lease - age

Goto(r, phase) == gasRun' = [gasRun EXCEPT ![r].phase = phase]

(* The owner of the lease, as it is named after run r has ended. *)
WithoutOwner(r) == IF row.owner = r THEN [row EXCEPT !.owner = "gone"] ELSE row

Finish(r) == gasRun' = [gasRun EXCEPT ![r] = Idle]

StartRun(r) ==
    /\ gasRun[r].phase = "idle"
    /\ Goto(r, "claim")
    /\ UNCHANGED <<row, balance, told, gasFaults>>

ClaimLease(r) ==
    LET age == gasRun[r].age IN
    /\ gasRun[r].phase = "claim"
    /\ IF row.wait <= -age /\ row.left <= -age
       THEN /\ row' = [row EXCEPT !.owner = r, !.left = LeaseLeft(age)]
            /\ Goto(r, "read")
       ELSE Finish(r) /\ UNCHANGED row
    /\ UNCHANGED <<balance, told, gasFaults>>

ReadState(r) ==
    /\ gasRun[r].phase = "read"
    /\ gasRun' = [gasRun EXCEPT ![r].phase = "rpc", ![r].prev = row.level,
                                ![r].sent = row.ago]
    /\ UNCHANGED <<row, balance, told, gasFaults>>

ReadBalance(r) ==
    /\ gasRun[r].phase = "rpc"
    /\ gasRun' = [gasRun EXCEPT ![r].phase = "report", ![r].balance = balance]
    /\ UNCHANGED <<row, balance, told, gasFaults>>

(* Receipts, mints, jobs and the price are read; the level is computed from *)
(* the state and the balance read before.                                   *)
CollectReport(r) ==
    LET run == gasRun[r]
        level == AlertLevel(run.balance, run.prev)
    IN  /\ run.phase = "report"
        /\ gasRun' = [gasRun EXCEPT ![r].level = level,
                        ![r].phase = IF NotificationDue(level, run.prev, run.sent - run.age)
                                     THEN "fence" ELSE "record"]
        /\ UNCHANGED <<row, balance, told, gasFaults>>

\* Mistake: the fence looks at the time left and not at the owner.
FenceByTime(r) == row.left > 0

FenceHeld(r) == row.owner = r /\ row.left > 0

(* A run that has lost the lease, to another or to time, gives up. *)
TakeFence(r) ==
    /\ gasRun[r].phase = "fence"
    /\ IF FenceHeld(r)
       THEN /\ row' = [row EXCEPT !.left = Fence]
            /\ Goto(r, "send")
       ELSE /\ row' = WithoutOwner(r)
            /\ Finish(r)
    /\ UNCHANGED <<balance, told, gasFaults>>

Send(r) ==
    /\ gasRun[r].phase = "send"
    /\ told' = [level |-> gasRun[r].level, ago |-> gasRun[r].age]
    /\ gasRun' = [gasRun EXCEPT ![r].phase = "record", ![r].notified = TRUE]
    /\ UNCHANGED <<row, balance, gasFaults>>

\* Mistake: the time of the alert is not recorded.
SentAtKept(run) == row.ago

SentAt(run) == IF run.notified THEN run.age ELSE row.ago

(* The row is written only by the run that still owns it. *)
RecordReport(r, missing) ==
    LET run == gasRun[r] IN
    /\ run.phase = "record"
    /\ row' = IF row.owner # r THEN row
              ELSE [owner |-> "nobody", left |-> Released,
                    wait |-> (IF missing THEN Retry ELSE Interval) - run.age,
                    level |-> IF run.notified THEN run.level ELSE row.level,
                    ago |-> SentAt(run)]
    /\ Finish(r)
    /\ UNCHANGED <<balance, told, gasFaults>>

RecordFailure(r) ==
    /\ gasRun[r].phase = "catch"
    /\ row' = IF row.owner # r THEN row
              ELSE [row EXCEPT !.owner = "nobody", !.left = Released,
                               !.wait = Retry - gasRun[r].age]
    /\ Finish(r)
    /\ UNCHANGED <<balance, told, gasFaults>>
-----------------------------------------------------------------------------
(* What goes wrong, within a budget. *)

Fault == gasFaults < MaxGasFaults /\ gasFaults' = gasFaults + 1

(* An RPC call or a read fails, or the balance is not a number. *)
CallFails(r) ==
    /\ Fault
    /\ gasRun[r].phase \in {"read", "rpc", "report"}
    /\ Goto(r, "catch")
    /\ UNCHANGED <<row, balance, told>>

(* Telegram refuses, or the request times out: it may have delivered. *)
SendFails(r) ==
    /\ Fault
    /\ gasRun[r].phase = "send"
    /\ told' \in {told, [level |-> gasRun[r].level, ago |-> gasRun[r].age]}
    /\ Goto(r, "catch")
    /\ UNCHANGED <<row, balance>>

(* The platform ends the run, or its last write fails. *)
GasCrash(r) ==
    /\ Fault
    /\ gasRun[r].phase # "idle"
    /\ row' = WithoutOwner(r)
    /\ Finish(r)
    /\ UNCHANGED <<balance, told>>

-----------------------------------------------------------------------------
(* The environment. *)

SpendOrRefill ==
    /\ balance' \in Balances
    /\ UNCHANGED <<row, gasRun, told, gasFaults>>

Older(t, cap) == IF t < cap THEN t + 1 ELSE t
Nearer(t) == IF t > Released THEN t - 1 ELSE t

(* A run takes at most MaxAge, and its first statement less than the lease; *)
(* a Telegram request is aborted after ten seconds, before the fence of one *)
(* minute ends. A run that outlives its lease is a fault: every call but    *)
(* those of D1 is aborted within seconds.                                   *)
GasTick ==
    /\ \A r \in GasRuns : gasRun[r].phase # "idle" => gasRun[r].age < MaxAge
    /\ \A r \in GasRuns : gasRun[r].phase = "claim" => gasRun[r].age + 1 < Lease
    /\ \A r \in GasRuns : gasRun[r].phase = "send" => row.left > 1
    /\ IF row.owner \in GasRuns /\ row.left = 1 THEN Fault ELSE UNCHANGED gasFaults
    /\ row' = [row EXCEPT !.left = Nearer(row.left), !.wait = Nearer(row.wait),
                          !.ago = Older(row.ago, Forgotten)]
    /\ gasRun' = [r \in GasRuns |->
          IF gasRun[r].phase = "idle" THEN Idle
          ELSE [gasRun[r] EXCEPT !.age = gasRun[r].age + 1,
                                 !.sent = Older(gasRun[r].sent, Forgotten)]]
    /\ told' = [told EXCEPT !.ago = Older(told.ago, Forgotten)]
    /\ UNCHANGED balance

GasStep(r) ==
    \/ ClaimLease(r) \/ ReadState(r) \/ ReadBalance(r) \/ CollectReport(r)
    \/ TakeFence(r) \/ Send(r) \/ RecordFailure(r)
    \/ \E missing \in BOOLEAN : RecordReport(r, missing)

GasNext ==
    \/ \E r \in GasRuns : StartRun(r) \/ GasStep(r)
    \/ \E r \in GasRuns : CallFails(r) \/ SendFails(r) \/ GasCrash(r)
    \/ SpendOrRefill
    \/ GasTick

GasSpec == GasInit /\ [][GasNext]_gasVars

-----------------------------------------------------------------------------
(* Properties. *)

(* A message is sent on the strength of the state that is in the row at     *)
(* that moment, by the run that owns the row: a run that was overtaken      *)
(* between its read and its message never sends (the fence of               *)
(* runGasMonitor).                                                          *)
NoStaleAlert ==
    \A r \in GasRuns : gasRun[r].phase = "send" =>
        /\ row.owner = r /\ row.left > 0
        /\ gasRun[r].prev = row.level /\ gasRun[r].sent = row.ago

(* As long as nothing has failed, a message is due by what the operators    *)
(* were really told last, whatever the row says.                            *)
AlertIsDue ==
    gasFaults = 0 =>
        \A r \in GasRuns : gasRun[r].phase = "send" =>
            NotificationDue(gasRun[r].level, told.level, told.ago - gasRun[r].age)

(* Messages are sent on what the row says and when it says so, whatever the  *)
(* runs of the cron overlap, outlive and leave unrecorded.                  *)
AlertsAreRight == GasTypeOK /\ NoStaleAlert /\ AlertIsDue

(* If the balance stays what it is, what the operators were told last is    *)
(* what it means in the end. The message that all is well again may be      *)
(* missing after a fault: an alert that was delivered and not recorded is   *)
(* never taken back.                                                        *)
OperatorsInformed ==
    <>[][FALSE]_balance =>
        <>[](\/ told.level = AlertLevel(balance, told.level)
             \/ gasFaults > 0 /\ AlertLevel(balance, "healthy") = "healthy")
=============================================================================
