------------------------------- MODULE MCSlots -------------------------------
(***************************************************************************)
(* ClaimSlots for TLC: wallets, Emails, magic links and running requests are *)
(* each known by their name alone; the slots have an order and are not.      *)
(* Either two wallets compete with one Email and its link, or two Emails     *)
(* with two links and one wallet.                                            *)
(***************************************************************************)
EXTENDS ClaimSlots, TLC

CONSTANTS
  OneWallet, OneEmail, OneLink,  \* the one, where there is one
  RivalNonces                    \* bound: nonces drawn where wallets compete

VARIABLE rivals  \* "wallets" or "emails"

Symmetry == Permutations(Wallets) \cup Permutations(Emails)
              \cup Permutations(Challenges) \cup Permutations(Requests)

SlotsInit == Init /\ rivals \in {"wallets", "emails"}

SlotsNext ==
  /\ \/ /\ rivals = "wallets"
        /\ NextFor(Wallets, {OneEmail}, {OneLink})
        /\ drawn' <= RivalNonces
     \/ rivals = "emails" /\ NextFor({OneWallet}, Emails, Challenges)
  /\ UNCHANGED rivals

SlotsSpec == SlotsInit /\ [][SlotsNext]_<<vars, rivals>>
=============================================================================
