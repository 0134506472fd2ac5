\* The second engine merges the threads after the lease of the first ran out.
SPECIFICATION Spec
CONSTANTS
    Engines = {A, B}
    Lease = 3
    MaxQueue = 1
    AwaitSetup = TRUE
INVARIANTS
    LeasePositive
CHECK_DEADLOCK FALSE
