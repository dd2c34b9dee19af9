---------------------------- MODULE MCVideoDecoder ---------------------------
(* Model values for VideoDecoder: every container of up to MaxPackets      *)
(* packets, each of the best video stream ("v") or of another ("a").       *)
EXTENDS VideoDecoder

CONSTANTS MaxPackets

MCPacketSeqs == UNION {[1..n -> {"v", "a"}] : n \in 0..MaxPackets}

=============================================================================
