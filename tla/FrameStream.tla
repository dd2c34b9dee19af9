----------------------------- MODULE FrameStream -----------------------------
(***************************************************************************)
(* What a frame source promises its reader: the frames of a video, numbered *)
(* 1, 2, ... in decoding order, each at most once and never more than the   *)
(* video holds, until the stream ends (the reader sees None) or the reader  *)
(* closes it.  The stream may end before every frame was delivered: this   *)
(* is the promise FfmpegDecoder::next_frame keeps (see Decoder.tla), not    *)
(* the stronger one the test loop of decoder.rs relies on.                 *)
(***************************************************************************)
EXTENDS Naturals, Sequences

VARIABLES
    out,     \* the frame numbers the reader has received, in order
    status,  \* "open", "ended" (the reader saw the end) or "closed"
    total    \* the number of frames in the video

svars == <<out, status, total>>

StreamInit ==
    /\ out = <<>>
    /\ status = "open"
    /\ total \in Nat

\* The next frame of the video reaches the reader.
Deliver ==
    /\ status = "open"
    /\ Len(out) < total
    /\ out' = Append(out, Len(out) + 1)
    /\ UNCHANGED <<status, total>>

\* The reader is told the stream has ended.
End ==
    /\ status = "open"
    /\ status' = "ended"
    /\ UNCHANGED <<out, total>>

\* The reader goes away, before or after the end, or the stream could not be
\* opened.
Close ==
    /\ status \in {"open", "ended"}
    /\ status' = "closed"
    /\ UNCHANGED <<out, total>>

StreamNext == Deliver \/ End \/ Close

\* A reader that keeps asking eventually gets the end of the stream, unless
\* it goes away first: closing is the reader's choice and is not fair.
StreamSpec ==
    StreamInit /\ [][StreamNext]_svars /\ WF_svars(Deliver \/ End)

=============================================================================
