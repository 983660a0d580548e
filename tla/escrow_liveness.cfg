SPECIFICATION FairSpec
CONSTANTS
    o1 = o1
    o2 = o2
    s1 = s1
    Objects = {o1}
    SecretNames = {s1}
    Preexisting = {}
    Specs <- mcOneSpec
    IPs <- mcIPs
    Lifetime = 3
    Replies <- mcTransient
    TemplatesInUse = {"supplied"}
    Environments = {"ok", "issuerMissing", "unknownKind"}
    ReportsID = TRUE
    ReportsSerial = TRUE
    HasLookup = FALSE
    ListLag = FALSE
    PublishLag = TRUE
    CacheLag = FALSE
    EncryptedExport = TRUE
    UserOps = {}
    MaxTime = 3
    MaxGeneration = 1
    MaxCSRs = 4
    MaxPolls = 1
    MaxFaults = 1
    MaxCrashes = 1
    MaxOutside = 0
INVARIANTS
    SettledWhenQuiet
    StatusOfOneIssuance
PROPERTIES
    EventuallyIssued
