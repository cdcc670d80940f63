----------------------------- MODULE MintPromise -----------------------------
(***************************************************************************)
(* What the service promises a collector who asks for a sponsored badge:   *)
(* the status that mintJobPublicStatus reports for a job, and whether the  *)
(* badge is on chain.  A request is "minting" until it is "minted" or      *)
(* "failed"; "minted" is said of a badge that is on chain and is never     *)
(* taken back; a failed job can only be asked for again.                   *)
(***************************************************************************)
CONSTANT Jobs

VARIABLES
  public,  (* mintStatus per job, "absent" before there is a job *)
  onchain  (* hasClaimed of the badge contract, per job          *)

vars == <<public, onchain>>

Init == /\ public = [j \in Jobs |-> "absent"]
        /\ onchain = [j \in Jobs |-> FALSE]

Ask(j) == /\ public[j] \in {"absent", "failed"}
          /\ public' = [public EXCEPT ![j] = "minting"]
          /\ UNCHANGED onchain

Settle(j) == /\ public[j] = "minting" /\ onchain[j]
             /\ public' = [public EXCEPT ![j] = "minted"]
             /\ UNCHANGED onchain

GiveUp(j) == /\ public[j] = "minting"
             /\ public' = [public EXCEPT ![j] = "failed"]
             /\ UNCHANGED onchain

\* By the relayer or by the collector, before or after a job exists.
Mint(j) == /\ ~onchain[j]
           /\ onchain' = [onchain EXCEPT ![j] = TRUE]
           /\ UNCHANGED public

Next == \E j \in Jobs : Ask(j) \/ Settle(j) \/ GiveUp(j) \/ Mint(j)

Spec == Init /\ [][Next]_vars

=============================================================================
