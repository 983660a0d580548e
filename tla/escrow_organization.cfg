SPECIFICATION Spec
CONSTANTS
    o1 = o1
    o2 = o2
    s1 = s1
    Objects = {o1}
    SecretNames = {s1}
    Preexisting = {}
    Specs <- mcOneSpec
    IPs <- mcIPs
    Lifetime = 3
    Replies <- mcReliable
    TemplatesInUse = {"supplied", "dropsOrganization"}
    Environments = {"ok"}
    ReportsID = TRUE
    ReportsSerial = FALSE
    HasLookup = FALSE
    ListLag = FALSE
    PublishLag = FALSE
    CacheLag = TRUE
    EncryptedExport = TRUE
    UserOps = {}
    MaxTime = 0
    MaxGeneration = 1
    MaxCSRs = 3
    MaxPolls = 1
    MaxFaults = 0
    MaxCrashes = 0
    MaxOutside = 0
PROPERTIES
    OnlyMatchingPublished
