CONSTANTS
    MaxPackets = 3
    PacketSeqs <- MCPacketSeqs
SPECIFICATION BSpec
INVARIANT BReaderAliveOnRead
CHECK_DEADLOCK FALSE
