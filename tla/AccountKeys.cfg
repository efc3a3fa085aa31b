\* A key is regenerated once; a token is cached for two of its three minutes and a copy takes one.
\* A driver without an identity does what one without a role may do as well.
CONSTANTS
    c1 = c1 c2 = c2
    Threads = {c1, c2}
    KindsOf <- PlainAndOthers
    SasTTL = 3
    CacheTTL = 2
    CopyTime = 1
    Identities = {"noRole", "role"}
    GetLatestAccountKey = FALSE
    StoreAccountKey = TRUE
    MaxKeys = 3
    MaxMishaps = 1
SPECIFICATION Spec
INVARIANTS TypeOK TokenOutlivesCopy
PROPERTIES SecretNeverGoesBack ClonesRecover
