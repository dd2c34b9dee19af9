------------------------------- MODULE Buffer --------------------------------
(***************************************************************************)
(* buffer::input of daft-video/src/buffer.rs: it opens an in-memory video  *)
(* through a custom AVIO context.  Memory is four objects, each "none",    *)
(* "live" or "freed": the io buffer (libc::malloc), the AVIOContext, the   *)
(* AVFormatContext and the MemReader, a local of input whose address is    *)
(* the AVIO opaque pointer.  Every allocation and ffmpeg call that can     *)
(* fail is a choice between success and failure, and each step frees what  *)
(* the code (or ffmpeg, for the calls that free on failure) frees.  After  *)
(* input returns Ok, its caller (detect_metadata, decode_frame) reads      *)
(* packets, which calls read_packet through the opaque pointer, and drops  *)
(* the Input, which calls avformat_close_input (see BytesDecoder).        *)
(***************************************************************************)
EXTENDS Naturals

Objects == {"io_buf", "avio", "fmt", "reader"}

VARIABLES
    mem,      \* object -> "none", "live" or "freed"
    frees,    \* object -> how many times it has been freed
    pc,       \* where input (then its caller) is
    stale     \* read_packet has dereferenced a dropped MemReader

vars == <<mem, frees, pc, stale>>

\* Allocate the objects in A and free those in F, in one step.
Memory(A, F) ==
    /\ mem' = [o \in Objects |-> CASE o \in A -> "live"
                                   [] o \in F -> "freed"
                                   [] OTHER   -> mem[o]]
    /\ frees' = [o \in Objects |-> IF o \in F THEN frees[o] + 1 ELSE frees[o]]

\* input returns: its frame, and the MemReader in it, goes away.
Return(res, F) ==
    /\ Memory({}, F \cup {"reader"})
    /\ pc' = res

Init ==
    /\ mem = [o \in Objects |-> "none"]
    /\ frees = [o \in Objects |-> 0]
    /\ pc = "malloc"
    /\ stale = FALSE

\* libc::malloc of io_buf; on NULL, Err(ENOMEM).  The MemReader is built.
Malloc ==
    /\ pc = "malloc"
    /\ \/ Memory({"io_buf", "reader"}, {}) /\ pc' = "avio"
       \/ UNCHANGED <<mem, frees>> /\ pc' = "err"
    /\ UNCHANGED stale

\* avio_alloc_context(io_buf, ..., &mut reader, read_packet); on NULL the
\* code frees io_buf and returns Err.
AvioAlloc ==
    /\ pc = "avio"
    /\ \/ Memory({"avio"}, {}) /\ pc' = "fmt"
       \/ Return("err", {"io_buf"})
    /\ UNCHANGED stale

\* Mutant: the NULL check of avformat_alloc_context is dropped.
FormatAllocUnchecked ==
    /\ pc = "fmt"
    /\ \/ Memory({"fmt"}, {}) /\ pc' = "open"
       \/ UNCHANGED <<mem, frees>> /\ pc' = "open"
    /\ UNCHANGED stale

\* avformat_alloc_context; on NULL the code frees avio's buffer (io_buf)
\* with av_freep and returns Err.
FormatAlloc ==
    /\ pc = "fmt"
    /\ \/ Memory({"fmt"}, {}) /\ pc' = "open"
       \/ Return("err", {"io_buf"})
    /\ UNCHANGED stale

\* Mutant: an avformat_find_stream_info error is taken for success.
FindStreamInfoAnyResult ==
    /\ pc = "probe"
    /\ \/ Return("ok", {})
       \/ Return("ok", {"fmt"})
    /\ UNCHANGED stale

\* pb = avio, AVFMT_FLAG_CUSTOM_IO, then avformat_open_input, which reads
\* the header through read_packet while the reader is live.  On failure
\* ffmpeg frees the user-supplied context but, with CUSTOM_IO, not pb; the
\* code's avformat_close_input on the now NULL pointer does nothing.
OpenInput ==
    /\ pc = "open"
    /\ \/ UNCHANGED <<mem, frees>> /\ pc' = "probe"
       \/ Return("err", {"fmt"})
    /\ UNCHANGED stale

\* avformat_find_stream_info reads packets (reader still live).  On r >= 0
\* input returns Ok(Input::wrap(ps)); otherwise avformat_close_input frees
\* the format context (not the CUSTOM_IO pb) and input returns Err.
FindStreamInfo ==
    /\ pc = "probe"
    /\ \/ Return("ok", {})
       \/ Return("err", {"fmt"})
    /\ UNCHANGED stale

\* What input's caller does with the Input it got: read packets (av_read_frame
\* refills the buffer through read_packet, which dereferences the opaque
\* pointer) and/or drop it (avformat_close_input frees the format context;
\* with CUSTOM_IO it leaves pb, and so io_buf, alone).
Caller(read, close) ==
    /\ pc = "ok"
    /\ stale' = (stale \/ (read /\ mem["reader"] # "live"))
    /\ IF close
       THEN Memory({}, {"fmt"}) /\ pc' = "closed"
       ELSE UNCHANGED <<mem, frees, pc>>

\* The steps of input itself, up to its return.
Input == Malloc \/ AvioAlloc \/ FormatAlloc \/ OpenInput \/ FindStreamInfo

-----------------------------------------------------------------------------

TypeOK ==
    /\ mem \in [Objects -> {"none", "live", "freed"}]
    /\ frees \in [Objects -> 0..1]
    /\ pc \in {"malloc", "avio", "fmt", "open", "probe", "ok", "err", "closed"}
    /\ stale \in BOOLEAN

\* Whatever step of input fails, nothing is freed twice and nothing is
\* freed before it was allocated: the error paths free at most what the
\* earlier steps allocated.
NoDoubleFree == \A o \in Objects : frees[o] <= 1 /\ (frees[o] = 1 => mem[o] = "freed")

\* An Input returned by input owns a live chain: the format context, its
\* pb (the AVIO context) and pb's buffer; no error path hands back a
\* context something already freed.
OkOwnsLiveChain ==
    pc = "ok" => \A o \in {"io_buf", "avio", "fmt"} : mem[o] = "live"

\* read_packet only runs while the MemReader behind the opaque pointer is
\* alive.
ReaderAliveOnRead == ~stale

\* Once input has failed, or its Input has been dropped, none of the
\* memory it allocated is still live.
NoLeak ==
    pc \in {"err", "closed"} => \A o \in Objects : mem[o] # "live"

=============================================================================
