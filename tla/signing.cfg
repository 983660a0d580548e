SPECIFICATION FairSpec
CONSTANTS
    Requests = {"cr", "csr"}
    Kinds = {"CertificateRequest", "CertificateSigningRequest"}
    Asked <- mcAsked
    Settings <- mcSettings
    MaxRetryDuration = 0
    MaxTime = 1
    MaxCSRs = 2
    MaxPolls = 1
INVARIANTS
    TypeOK
    IssuedForRequest
    SignedAsAsked
    SignedOnce
    OutageOnlyDelays
    NoLostRequest
PROPERTIES
    EventuallyAnswered
    ImplementsStore
