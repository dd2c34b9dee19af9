---------------------------- MODULE VideoDecoder -----------------------------
(***************************************************************************)
(* FfmpegDecoder over either VideoSource.  For File, Decoder's New and     *)
(* Setup stand for ffmpeg's own file input.  For Bytes, Decoder is         *)
(* composed with two runs of buffer::input (Buffer): FfmpegDecoder::new's  *)
(* detect_metadata opens the bytes with buffer::input, reads only stream   *)
(* parameters and drops the Input when it returns; decode_frame opens them *)
(* again, reads every packet through read_packet, and drops its Input when *)
(* the closure returns, on every path.                                     *)
(***************************************************************************)
EXTENDS Decoder

VARIABLES
    source,                      \* the VideoSource: "File" or "Bytes"
    mMem, mFrees, mPc, mStale,   \* detect_metadata's buffer::input
    pMem, pFrees, pPc, pStale    \* decode_frame's buffer::input

\* The variants of VideoSource (lib.rs); the path or the bytes themselves
\* are abstracted to the packets of the container.
VideoSource == {"File", "Bytes"}

metaVars == <<mMem, mFrees, mPc, mStale>>
prodVars == <<pMem, pFrees, pPc, pStale>>
decVars == <<packets, cpc, ppc, pos, held, cnt, chan, received, failed>>
bvars == <<source, decVars, metaVars, prodVars>>

Meta == INSTANCE Buffer WITH mem <- mMem, frees <- mFrees, pc <- mPc, stale <- mStale
Prod == INSTANCE Buffer WITH mem <- pMem, frees <- pFrees, pc <- pPc, stale <- pStale

BInit == source \in VideoSource /\ Init /\ Meta!Init /\ Prod!Init

\* The decode closure returns: ictx, if it was opened, is dropped.
ProdExit(read) ==
    IF pPc = "ok" THEN Prod!Caller(read, TRUE) ELSE UNCHANGED prodVars

\* detect_metadata inside new, up to the return of buffer::input.
MetaOpen ==
    /\ source = "Bytes"
    /\ cpc = "new"
    /\ Meta!Input
    /\ UNCHANGED <<source, decVars, prodVars>>

\* new after buffer::input: ffmpeg init may have failed before it; an Err
\* of input fails new; with an Input, detect_metadata looks for the video
\* stream and builds a decoder (either may fail) and drops the Input; on
\* success the channel is created and the producer spawned.
NewBytes ==
    /\ source = "Bytes"
    /\ cpc = "new"
    /\ \/ /\ mPc = "malloc"
          /\ cpc' = "failed"
          /\ UNCHANGED <<ppc, metaVars>>
       \/ /\ mPc = "err"
          /\ cpc' = "failed"
          /\ UNCHANGED <<ppc, metaVars>>
       \/ /\ mPc = "ok"
          /\ Meta!Caller(FALSE, TRUE)
          /\ \/ cpc' = "ready" /\ ppc' = "setup"
             \/ cpc' = "failed" /\ UNCHANGED ppc
    /\ UNCHANGED <<source, packets, pos, held, cnt, chan, received, failed, prodVars>>

\* decode_frame's buffer::input, up to its return.
ProdOpen ==
    /\ source = "Bytes"
    /\ ppc = "setup"
    /\ Prod!Input
    /\ UNCHANGED <<source, decVars, metaVars>>

\* decode_frame after buffer::input: an Err ends the closure; with an
\* Input, finding the stream, the decoder or the scaler may fail (the Input
\* is dropped), or the packet loop starts.
SetupBytes ==
    /\ source = "Bytes"
    /\ ppc = "setup"
    /\ pPc \in {"ok", "err"}
    /\ \/ /\ pPc = "ok"
          /\ ppc' = "packets"
          /\ UNCHANGED <<failed, prodVars>>
       \/ /\ ppc' = "done"
          /\ failed' = TRUE
          /\ ProdExit(FALSE)
    /\ UNCHANGED <<source, packets, cpc, pos, held, cnt, chan, received, metaVars>>

\* The packet loop of decode_frame (Decoder's actions); every packet is read
\* through read_packet, and a step that ends the closure drops the Input.
ProdLoop ==
    /\ source = "Bytes"
    /\ \/ ReadPacket /\ (IF ppc' = "done" THEN ProdExit(TRUE) ELSE Prod!Caller(TRUE, FALSE))
       \/ ReceiveFrame /\ (IF ppc' = "done" THEN ProdExit(FALSE) ELSE UNCHANGED prodVars)
       \/ ReceiveAgain /\ UNCHANGED prodVars
       \/ SendEof /\ ProdExit(TRUE)
    /\ UNCHANGED <<source, metaVars>>

\* A File source: new and the producer's setup open the file with ffmpeg's
\* own input, and no buffer::input runs.
FileNew == source = "File" /\ New /\ UNCHANGED <<source, metaVars, prodVars>>
FileProducer ==
    source = "File" /\ Producer /\ UNCHANGED <<source, metaVars, prodVars>>

Consumer == (NextFrame \/ DropDecoder) /\ UNCHANGED <<source, metaVars, prodVars>>

BNext ==
    \/ FileNew \/ FileProducer
    \/ MetaOpen \/ NewBytes \/ ProdOpen \/ SetupBytes \/ ProdLoop
    \/ Consumer

\* As in Decoder: new is awaited, the blocking thread runs to completion,
\* the caller keeps calling next_frame; dropping the decoder is not fair.
BSpec ==
    /\ BInit /\ [][BNext]_bvars
    /\ WF_bvars(FileNew \/ MetaOpen \/ NewBytes)
    /\ WF_bvars(FileProducer \/ ProdOpen \/ SetupBytes \/ ProdLoop)
    /\ WF_bvars(NextFrame /\ UNCHANGED <<source, metaVars, prodVars>>)

-----------------------------------------------------------------------------

BTypeOK ==
    /\ source \in VideoSource /\ TypeOK /\ Meta!TypeOK /\ Prod!TypeOK

\* Neither buffer::input run frees anything twice, on any error path, nor
\* does the drop of its Input free what input already freed.
BNoDoubleFree == Meta!NoDoubleFree /\ Prod!NoDoubleFree

\* Whenever the decoder holds an Input, the Input's format context, AVIO
\* context and io buffer are all live.
BOkOwnsLiveChain == Meta!OkOwnsLiveChain /\ Prod!OkOwnsLiveChain

BReaderAliveOnRead == Meta!ReaderAliveOnRead /\ Prod!ReaderAliveOnRead

\* When the decoder is finished with (the producer done, the consumer at
\* the end or gone), no memory either buffer::input allocated is live.
BNoLeak ==
    (ppc \in {"idle", "done"} /\ cpc \in {"ended", "failed", "dropped"})
        => \A o \in Meta!Objects : mMem[o] # "live" /\ pMem[o] # "live"

=============================================================================
