------------------------------- MODULE Decoder -------------------------------
(***************************************************************************)
(* FfmpegDecoder of daft-video/src/decoder.rs.  FfmpegDecoder::new runs    *)
(* detect_metadata, creates an unbounded mpsc channel and spawns           *)
(* decode_frame on a blocking thread (the producer).  The producer reads   *)
(* the container's packets, sends each packet of the best video stream to  *)
(* the codec, drains the frames the codec hands back and sends every frame *)
(* to the channel; when it returns, its sender is dropped.  next_frame     *)
(* (the consumer) receives from the channel; it returns Ok(None) once the  *)
(* channel is empty and the sender is gone.                               *)
(*                                                                         *)
(* Data is abstracted away: a packet is "v" (best video stream) or "a"     *)
(* (any other stream), a frame is its frame_number.  The codec is a count  *)
(* of frames it holds: each video packet gives it one frame, and           *)
(* receive_frame may hand one back or answer EAGAIN while it holds frames  *)
(* (B-frame reordering delay), which is a nondeterministic choice here.    *)
(* Every ffmpeg call that can fail is a choice between success and its     *)
(* error.                                                                  *)
(***************************************************************************)
EXTENDS Naturals, Sequences, SequencesExt

CONSTANTS
    PacketSeqs   \* the containers to decode: sequences over {"v", "a"}

VARIABLES
    packets,   \* the container's packets, in demux order
    cpc,       \* consumer: "new", "ready", "ended", "failed", "dropped"
    ppc,       \* producer: "idle", "setup", "packets", "frames", "done"
    pos,       \* index of the next packet ictx.packets() yields
    held,      \* frames the codec holds and has not handed back yet
    cnt,       \* decode_frame's cnt: frames received from the codec
    chan,      \* the unbounded channel: frame numbers sent, not received
    received,  \* frame numbers next_frame has returned, in order
    failed     \* the producer's closure returned an Err (discarded)

vars == <<packets, cpc, ppc, pos, held, cnt, chan, received, failed>>

\* The number of frames the video holds: one per video packet.
NumFrames(ps) == Len(SelectSeq(ps, LAMBDA k : k = "v"))

\* The receiver exists as long as the FfmpegDecoder does.
RxAlive == cpc \in {"ready", "ended"}

Init ==
    /\ packets \in PacketSeqs
    /\ cpc = "new"
    /\ ppc = "idle"
    /\ pos = 1
    /\ held = 0
    /\ cnt = 0
    /\ chan = <<>>
    /\ received = <<>>
    /\ failed = FALSE

-----------------------------------------------------------------------------
(* FfmpegDecoder::new, by the task that awaits it.                         *)

\* The ways new can end: ffmpeg init fails, the metadata task panics, or
\* detect_metadata cannot open the input, find a video stream or build a
\* decoder; otherwise the channel is created and the producer spawned.
NewOutcomes ==
    {"ok", "init_failed", "join_failed", "open_failed", "no_video_stream",
     "decoder_failed"}

New ==
    /\ cpc = "new"
    /\ \E r \in NewOutcomes :
          IF r = "ok"
          THEN cpc' = "ready" /\ ppc' = "setup"
          ELSE cpc' = "failed" /\ UNCHANGED ppc
    /\ UNCHANGED <<packets, pos, held, cnt, chan, received, failed>>

-----------------------------------------------------------------------------
(* decode_frame, the producer thread.                                      *)

\* Open the input again, find the best video stream, build the decoder and
\* the scaler; each step may fail, and `?` returns the Err to `let _ =`.
SetupOutcomes ==
    {"ok", "open_failed", "no_video_stream", "decoder_failed", "scaler_failed"}

Setup ==
    /\ ppc = "setup"
    /\ \E r \in SetupOutcomes :
          IF r = "ok"
          THEN ppc' = "packets" /\ UNCHANGED failed
          ELSE ppc' = "done" /\ failed' = TRUE
    /\ UNCHANGED <<packets, cpc, pos, held, cnt, chan, received>>

\* Mutant: a video packet whose frame the codec never holds.
ReadPacketNoFrame ==
    /\ ppc = "packets"
    /\ pos <= Len(packets)
    /\ pos' = pos + 1
    /\ \/ /\ packets[pos] = "a"
          /\ UNCHANGED <<ppc, held, failed>>
       \/ /\ packets[pos] = "v"
          /\ \/ ppc' = "frames" /\ UNCHANGED <<held, failed>>
             \/ ppc' = "done" /\ failed' = TRUE /\ UNCHANGED held
    /\ UNCHANGED <<packets, cpc, cnt, chan, received>>

\* One iteration of `for (stream, pkt) in ictx.packets()`: a packet of
\* another stream is skipped; a video packet goes to send_packet, which
\* may fail, and then the receive_frame loop starts.
ReadPacket ==
    /\ ppc = "packets"
    /\ pos <= Len(packets)
    /\ pos' = pos + 1
    /\ \/ /\ packets[pos] = "a"
          /\ UNCHANGED <<ppc, held, failed>>
       \/ /\ packets[pos] = "v"
          /\ \/ ppc' = "frames" /\ held' = held + 1 /\ UNCHANGED failed
             \/ ppc' = "done" /\ failed' = TRUE /\ UNCHANGED held
    /\ UNCHANGED <<packets, cpc, cnt, chan, received>>

\* Mutant: the frame is numbered with cnt before the increment.
ReceiveFrameOldCount ==
    /\ ppc = "frames"
    /\ held > 0
    /\ held' = held - 1
    /\ cnt' = cnt + 1
    /\ \/ ppc' = "done" /\ failed' = TRUE /\ UNCHANGED chan
       \/ RxAlive /\ chan' = Append(chan, cnt) /\ UNCHANGED <<ppc, failed>>
       \/ ~RxAlive /\ ppc' = "done" /\ UNCHANGED <<chan, failed>>
    /\ UNCHANGED <<packets, cpc, pos, received>>

\* receive_frame hands back a frame: cnt += 1, the scaler runs and the
\* RgbImage is built (either may fail), then tx.send; a send to a dropped
\* receiver returns Ok(()) from the closure.
ReceiveFrame ==
    /\ ppc = "frames"
    /\ held > 0
    /\ held' = held - 1
    /\ cnt' = cnt + 1
    /\ \/ /\ ppc' = "done"
          /\ failed' = TRUE
          /\ UNCHANGED chan
       \/ /\ RxAlive
          /\ chan' = Append(chan, cnt + 1)
          /\ UNCHANGED <<ppc, failed>>
       \/ /\ ~RxAlive
          /\ ppc' = "done"
          /\ UNCHANGED <<chan, failed>>
    /\ UNCHANGED <<packets, cpc, pos, received>>

\* receive_frame answers EAGAIN (the codec keeps what it holds): the while
\* loop ends and the for loop takes the next packet.
ReceiveAgain ==
    /\ ppc = "frames"
    /\ ppc' = "packets"
    /\ UNCHANGED <<packets, cpc, pos, held, cnt, chan, received, failed>>

\* The packets are exhausted: dec.send_eof(), then Ok(()).  The frames the
\* codec still holds are never received; tx is dropped.
SendEof ==
    /\ ppc = "packets"
    /\ pos > Len(packets)
    /\ ppc' = "done"
    /\ UNCHANGED <<packets, cpc, pos, held, cnt, chan, received, failed>>

Producer == Setup \/ ReadPacket \/ ReceiveFrame \/ ReceiveAgain \/ SendEof

-----------------------------------------------------------------------------
(* The consumer.                                                           *)

NextFrame ==
    /\ cpc = "ready"
    /\ \/ /\ chan # <<>>
          /\ received' = Append(received, Head(chan))
          /\ chan' = Tail(chan)
          /\ UNCHANGED cpc
       \/ /\ chan = <<>>
          /\ ppc = "done"
          /\ cpc' = "ended"
          /\ UNCHANGED <<received, chan>>
    /\ UNCHANGED <<packets, ppc, pos, held, cnt, failed>>

\* The FfmpegDecoder is dropped, and with it rx and the frames queued.
DropDecoder ==
    /\ RxAlive
    /\ cpc' = "dropped"
    /\ chan' = <<>>
    /\ UNCHANGED <<packets, ppc, pos, held, cnt, received, failed>>

Next == New \/ Producer \/ NextFrame \/ DropDecoder

\* The blocking pool runs the spawned producer to completion, and the
\* caller awaits new and, like the loop of test_decoder, keeps calling
\* next_frame; dropping the decoder is the caller's choice and not fair.
Spec ==
    /\ Init /\ [][Next]_vars
    /\ WF_vars(New) /\ WF_vars(Producer) /\ WF_vars(NextFrame)

-----------------------------------------------------------------------------
(* Properties.                                                             *)

TypeOK ==
    /\ packets \in PacketSeqs
    /\ cpc \in {"new", "ready", "ended", "failed", "dropped"}
    /\ ppc \in {"idle", "setup", "packets", "frames", "done"}
    /\ pos \in 1..(Len(packets) + 1)
    /\ held \in 0..Len(packets)
    /\ cnt \in 0..Len(packets)
    /\ chan \in Seq(1..Len(packets))
    /\ received \in Seq(1..Len(packets))
    /\ failed \in BOOLEAN

\* Frame conservation across producer, codec and consumer: when next_frame
\* has returned None after a run without error, every frame of the video
\* has either reached the consumer or is still held by the codec; no frame
\* is skipped, duplicated or invented on the way.
FramesAccounted ==
    (cpc = "ended" /\ ~failed) => Len(received) + held = NumFrames(packets)

\* The consumer's view is a stream in the sense of FrameStream: frames
\* numbered 1, 2, ... in order, none beyond the video, then the end; a
\* caller that keeps calling next_frame eventually gets None.
Stream == INSTANCE FrameStream WITH
    out <- received,
    status <- CASE cpc \in {"failed", "dropped"} -> "closed"
              []   cpc = "ended"                 -> "ended"
              []   OTHER                         -> "open",
    total <- NumFrames(packets)

\* next_frame returns Result: an error of the producer should reach the
\* consumer as Err, not as the None that marks a complete video.
ErrorsReported == cpc = "ended" => ~failed

\* A run without error that ends with None has delivered every frame of
\* the video, as the loop of test_decoder assumes.
AllFramesDelivered ==
    (cpc = "ended" /\ ~failed) => Len(received) = NumFrames(packets)

=============================================================================
