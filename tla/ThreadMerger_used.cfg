\* The platform thread draws while the raster thread ends the Draw that merged.
SPECIFICATION Spec
CONSTANTS
    Engines = {A}
    Lease = 4
    MaxQueue = 1
    AwaitSetup = TRUE
INVARIANTS
    UsedClear
CHECK_DEADLOCK FALSE
