CONSTANTS
    MaxPackets = 3
    PacketSeqs <- MCPacketSeqs
SPECIFICATION BSpec
INVARIANT AllFramesDelivered
CHECK_DEADLOCK FALSE
