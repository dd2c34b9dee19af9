CONSTANTS
    MaxPackets = 5
    PacketSeqs <- MCPacketSeqs
SPECIFICATION BSpec
INVARIANTS BTypeOK FramesAccounted BNoDoubleFree BOkOwnsLiveChain
 
CHECK_DEADLOCK FALSE
