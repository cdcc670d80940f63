SPECIFICATION UpkeepSpec
CONSTANTS
    GasRuns = {r1, r2}
    Balances = {1, 3, 6}
    Average = 0
    Low = 4
    Critical = 2
    Lease = 2
    Fence = 2
    Retry = 1
    Interval = 2
    Day = 3
    MaxAge = 2
    MaxGasFaults = 1
    Hashes = {h1, h2}
    Fillers = {r1, r2}
    BatchLimit = 1
    Short = 1
    Long = 2
    MaxReceiptFaults = 1
    Drops = {1, 3, 4, 6}
    MirrorRuns = {r1, r2, r3}
    PageSize = 2
    MaxMirrorFaults = 1
    Emails = {e1, e2}
    Requests = {r1, r2}
    Addresses = {a1, a2}
    WalletLease = 1
    MaxWalletFaults = 1
    NoAddress = NoAddress
    Edits = {r1, r2}
    Texts = {"first", "second"}
    MaxTime = 3
    MaxEditFaults = 1
    Keys <- MCKeys
    Memberships <- MCMemberships
    Profiles <- MCProfiles
    PrivateCards <- MCPrivateCards
    PublicDrops <- MCPublicDrops
    ArtworkDrops <- MCArtworkDrops
    Limit = 2
    MaxBusy = 1
    MaxVersion = 3
INVARIANTS
    AlertsAreRight
    RecordedIsFinal
    CursorCoversMirror
    WalletsAreKept
    ChangesAreKept
    ArchivesAreRight
PROPERTIES
    UpkeepSucceeds
CHECK_DEADLOCK FALSE
