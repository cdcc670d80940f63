SPECIFICATION ToolsSpec
CONSTANTS
    Entities = {"moments", "links", "items", "sections", "referenced_drops"}
    Keys = {1, 2, 3, 4}
    PageSize = 2
    MaxSourceChanges = 2
    MaxExportFaults = 1
    Poaps = {1, 2, 3, 4}
    DropOfPoap <- DropIds
    Unlisted = {"unlisted"}
    PagePoaps = 1
    MaxCompassChanges = 2
    MaxCompassFaults = 2
    Uploaders = {u1, u2}
    WithFallback = {u2}
    PartNumbers = {1, 2}
    UploadIds = {i1, i2, i3, i4}
    NoUpload = NoUpload
    MaxUploadFaults = 2
    Media = {m1, m2}
    Eligible = {m1}
    WithSource = {m1, m2}
    WithAlias = {m2}
    WithLegacy = {m2}
    WithThumbnail = {m2}
    WithHls = {m1, m2}
    MaxCaptures = 3
    MaxRecoveries = 2
    MaxProofs = 2
    MaxReports = 2
    MaxTools = 2
    Kinds = {"moments", "collections", "archive", "compass"}
    Loaders = {l1, l2}
    ShardCount = 3
    SchemaFiles = 2
    MaxVerifications = 2
    MaxLoadFaults = 1
    MaxStrays = 1
    Carried = {}
    Wanted = {2, 3}
    Originals = {"a"}
    Candidates = 2
    Capturers = {c1, c2}
    SecondCapture = c2
    MaxRecords = 3
    MaxReleases = 2
INVARIANTS
    ReleasesAreRight
    ExportsAreFaithful
    CapturesAreSound
    UploadsResume
    MediaIsPreserved
    TargetsAreSound
PROPERTIES
    EvidenceIsCurrent
    ToolsEnd
CHECK_DEADLOCK FALSE
