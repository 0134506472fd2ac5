\* Two slots, as on every platform whose raster thread is its own.
SPECIFICATION FairSpec
CONSTANTS
    Depth = 2
    MaxFrames = 3
    MaxPackets = 0
INVARIANTS
    TypeOK
    SlotsConserved
    AvailableCountsQueue
PROPERTIES
    ImplementsFrameQueue
    FrameConsumed
    RequestServed
