SPECIFICATION Spec
CONSTANTS
    o1 = o1
    o2 = o2
    s1 = s1
    Objects = {o1, o2}
    SecretNames = {s1}
    Preexisting = {s1}
    Specs <- mcBareSpecs
    IPs <- mcIPs
    Lifetime = 3
    Replies <- mcReliable
    TemplatesInUse = {"supplied"}
    Environments = {"ok"}
    ReportsID = FALSE
    ReportsSerial = FALSE
    HasLookup = TRUE
    ListLag = TRUE
    PublishLag = FALSE
    CacheLag = FALSE
    EncryptedExport = FALSE
    UserOps = {"deleteObject", "edit"}
    MaxTime = 0
    MaxGeneration = 2
    MaxCSRs = 2
    MaxPolls = 1
    MaxFaults = 0
    MaxCrashes = 0
    MaxOutside = 1
INVARIANTS
    PairConsistent
PROPERTIES
    OnlyMatchingPublished
    OwnerKept
SYMMETRY mcSymmetry
