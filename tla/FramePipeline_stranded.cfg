\* The UI thread may be held up between the push of a frame and the Signal.
SPECIFICATION FairSpec
CONSTANTS
    Depth = 2
    MaxFrames = 3
    MaxPackets = 0
PROPERTIES
    EventuallyConsumed
