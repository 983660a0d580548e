SPECIFICATION HistorySpec
CONSTANTS
    o1 = o1
    o2 = o2
    s1 = s1
    Objects = {o1}
    SecretNames = {s1}
    Preexisting = {s1}
    Specs <- mcPasswords
    IPs <- mcIPs
    Lifetime = 3
    Replies <- mcAnswers
    TemplatesInUse = {"supplied"}
    Environments = {"ok"}
    ReportsID = TRUE
    ReportsSerial = FALSE
    HasLookup = FALSE
    ListLag = FALSE
    PublishLag = FALSE
    CacheLag = TRUE
    EncryptedExport = TRUE
    UserOps = {"edit", "deleteSecret"}
    MaxTime = 0
    MaxGeneration = 2
    MaxCSRs = 3
    MaxPolls = 1
    MaxFaults = 1
    MaxCrashes = 1
    MaxOutside = 0
INVARIANTS
    TypeOK
    PairConsistent
    Recoverable
    SettledWhenQuiet
    SignedOnce
PROPERTIES
    ImplementsStore
    PublishedForward
    ReplacedOnceTooOften
