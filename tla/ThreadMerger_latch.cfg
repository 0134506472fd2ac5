\* A view may be destroyed before the raster thread has set up its surface.
SPECIFICATION Spec
CONSTANTS
    Engines = {A}
    Lease = 4
    MaxQueue = 1
    AwaitSetup = FALSE
INVARIANTS
    LatchServed
CHECK_DEADLOCK FALSE
