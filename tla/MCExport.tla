------------------------------- MODULE MCExport -------------------------------
(***************************************************************************)
(* An archive for TLC: every list but the Capsules and the tags has more    *)
(* rows than a page, and the new edition of a source has as many rows as    *)
(* the old one, so that counting them does not tell the two apart.          *)
(***************************************************************************)
EXTENDS PersonalExport

Editions(old, new) == [old |-> old, new |-> new]

MCKeys ==
  [ holdings |-> Editions(1..3, {1, 2, 4}),
    moments |-> Editions({3, 5, 6}, {3, 5, 7}),
    tagged |-> Editions({5}, {6}),
    capsules |-> Editions({1}, {2}),
    owned |-> Editions({1, 2, 4}, {1, 3, 4}),
    items |-> Editions({13, 14, 16, 23}, {13, 14, 17, 33}),
    extra |-> Editions({17}, {16}) ]

MCMemberships == Editions({<<1, 1>>, <<2, 4>>}, {<<1, 3>>, <<2, 4>>})
MCProfiles == Editions(1..7, 1..6)
MCPrivateCards == Editions({2}, {})
MCPublicDrops == Editions({1, 3, 5}, {3, 6})
MCArtworkDrops == Editions({2}, {1, 2})
=============================================================================
