SPECIFICATION FairSpec
CONSTANTS
    Pool <- mcPool
    CSRKeys = {"k1", "ka"}
    MaxCerts = 4
INVARIANTS
    TypeOK
    SingleChain
    EndsAtRoot
PROPERTIES
    Terminates
