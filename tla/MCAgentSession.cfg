SPECIFICATION Spec
CONSTANTS
    Backends = {"gcs", "standalone"}
    MaxBundles = 2
    MaxSequence = 2
    MaxBootstraps = 1
    MaxFaults = 1
    MaxExpiries = 1
    MaxDiagnoses = 0
INVARIANT TypeOK
INVARIANT OwnDocument
INVARIANT FloorReachable
INVARIANT CacheCoversGeneration
INVARIANT IdentityFollowsTarget
INVARIANT SessionKept
PROPERTY NoRollback
