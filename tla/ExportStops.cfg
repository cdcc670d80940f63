SPECIFICATION ExportSpec
CONSTANTS
  Keys <- MCKeys
  Memberships <- MCMemberships
  Profiles <- MCProfiles
  PrivateCards <- MCPrivateCards
  PublicDrops <- MCPublicDrops
  ArtworkDrops <- MCArtworkDrops
  Limit = 2
  MaxBusy = 1
  MaxVersion = 3
INVARIANT StopsOnlyForChange
CHECK_DEADLOCK FALSE
