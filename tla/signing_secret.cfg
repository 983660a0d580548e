SPECIFICATION FairSpec
CONSTANTS
    Requests = {"cr", "csr"}
    Kinds = {"CertificateRequest", "CertificateSigningRequest"}
    Asked <- mcAsked
    Settings <- mcSecret
    MaxRetryDuration = 0
    MaxTime = 1
    MaxCSRs = 2
    MaxPolls = 1
PROPERTIES
    SecretChangeNoticed
