\* The process of the proof of concept with two targets; two disturbances, each
\* a stop, a rejected fetch or an expiry.  It ends with the end of the program.
SPECIFICATION Spec
CONSTANTS
    Hashes <- MCHashes
    Instants = {2100}
    Addresses = {"any", "other"}
    NoRecord = NoRecord
    Never = Never
    Unset = Unset
    TargetList <- MCTargetList
    Source = "source"
    Demo = "demo"
    ClientIds <- MCClientIds
    BootstrapId = "boot"
    SyncId = "sync"
    SourceOnlyId = "only"
    MessageCredentials <- MCMessageCredentials
    HttpCredentials <- MCHttpCredentials
    HttpPlans <- MCHttpPlans
    MessagePlans <- MCMessagePlans
    SeedRows <- MCSeedRows
    RotatedSecret <- MCRotatedSecret
    NoHash = NoHash
    ForeignHash = "foreign"
    InitialTargets <- MCInitialTargets
    Attempts = 2
    MaxDisturbances = 2
INVARIANTS
    TypeOK
    CleanRunIsGreen
    AppliedIsHeld
    RowsKeepTheirSecret
PROPERTY Finishes
CHECK_DEADLOCK FALSE
