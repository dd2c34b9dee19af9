CONSTANTS
    MaxPackets = 3
    PacketSeqs <- MCPacketSeqs
SPECIFICATION BSpec
INVARIANT ErrorsReported
CHECK_DEADLOCK FALSE
