\* One engine whose platform view comes and goes.
SPECIFICATION FairSpec
CONSTANTS
    Engines = {A}
    Lease = 4
    MaxQueue = 2
    AwaitSetup = TRUE
INVARIANTS
    TypeOK
    NoCheckFails
    LatchServed
    LeaseMatchesQueues
    SurfaceOutlivesFrame
PROPERTIES
    FrozenWhileDisabled
    DestroyReturns
\* A failed FML_CHECK ends the process.
CHECK_DEADLOCK FALSE
