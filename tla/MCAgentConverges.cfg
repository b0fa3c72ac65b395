SPECIFICATION FairSpec
CONSTANTS
    Backends = {"gcs", "standalone"}
    MaxBundles = 1
    MaxSequence = 2
    MaxBootstraps = 2
    MaxFaults = 1
    MaxExpiries = 1
    MaxDiagnoses = 1
PROPERTY Converges
PROPERTY DiagnosisClaimed
