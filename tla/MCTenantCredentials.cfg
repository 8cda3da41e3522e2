SPECIFICATION SceneSpec

CONSTANTS
    CA <- MCCA
    Validity = {0, 1}
    CertificateValidity = 3
    Retention = 1
    MaxTime = 3
    MaxAsks = 2
    MaxCrashes = 1
    MaxRotations = 1
    Cached <- MCCached
    Finalizer = "kubezoo"
    MaxCopies = 2
    MaxEdits = 4

INVARIANTS TypeOK IssuedOnce ExpiryIsKnown BoundedByItsIssuer CachedIsReadOnly CopySaysTheSame
PROPERTIES NotKept AskingGetsOne

CHECK_DEADLOCK FALSE
