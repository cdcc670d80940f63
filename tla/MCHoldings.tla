------------------------------ MODULE MCHoldings ------------------------------
(***************************************************************************)
(* Holdings for TLC.  What the index shows of a wallet does not depend on   *)
(* the wallets' claims, so the interleavings of the cron runs are explored  *)
(* with the claims at rest, and the claims with fewer blocks.               *)
(***************************************************************************)
EXTENDS Holdings

IndexingSpec == HInit /\ [][Indexing \/ \E w \in Wallets : Mined(w)]_hvars
==============================================================================
