SPECIFICATION FairPagesSpec
CONSTANTS
    Request = {"gate", "page"}
    PageRequest = {"page"}
    Device = {"d1"}
    Session = {"session1"}
    DeviceToken = {"token1"}
    Owner <- MCOwner
    Ttl = 1
    Timeout = 1
    CredentialTtl = 2
    PageTime = 1
    MaxTokens = 1
INVARIANTS
    TypeOK
    FreshEnough
PROPERTIES
    RevocationBounded
    ReactivationBounded
    EveryPageEnds
    RevokedMakesNoTokens
