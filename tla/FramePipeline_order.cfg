\* Two frames: one that merges the threads and is retried, and a newer one.
SPECIFICATION Spec
CONSTANTS
    Depth = 2
    MaxFrames = 2
    MaxPackets = 0
PROPERTIES
    DrawsInOrder
