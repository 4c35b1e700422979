CONSTANTS
    Nodes = {n1, n2}
    MaxPolls = 3
    Nobody = Nobody
SPECIFICATION FairSpec
INVARIANTS
    NodesTrustSharedKey
PROPERTIES
    TrustedKeyStays
    ImplementsSharedKey
    ChecksReturn
