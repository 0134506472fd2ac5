\* Enough packets for one to arrive while another waits.
SPECIFICATION FairSpec
CONSTANTS
    Depth = 1
    MaxFrames = 0
    MaxPackets = 3
INVARIANTS
    OneRequest
    CallbackComes
    OneEventLate
PROPERTIES
    PacketDispatched
