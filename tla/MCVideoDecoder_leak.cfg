CONSTANTS
    MaxPackets = 3
    PacketSeqs <- MCPacketSeqs
SPECIFICATION BSpec
INVARIANT BNoLeak
CHECK_DEADLOCK FALSE
