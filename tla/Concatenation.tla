---------------------------- MODULE Concatenation ----------------------------
(***************************************************************************)
(* What a concatenation of two task streams promises: it yields the tasks  *)
(* of the first stream, in order, then those of the second, in order, and  *)
(* then ends; a consumer that keeps polling eventually sees the end.       *)
(***************************************************************************)
EXTENDS Naturals, Sequences

CONSTANTS Tasks  \* the tasks either stream can yield

VARIABLES
    emitted,  \* the tasks yielded so far
    whole,    \* the tasks of the first stream followed by those of the second
    ended     \* the stream has returned None

cvars == <<emitted, whole, ended>>

ConcatInit ==
    /\ emitted = <<>>
    /\ whole \in Seq(Tasks)
    /\ ended = FALSE

\* The next task of the concatenation is yielded.
Emit ==
    /\ Len(emitted) < Len(whole)
    /\ emitted' = Append(emitted, whole[Len(emitted) + 1])
    /\ UNCHANGED <<whole, ended>>

\* Every task has been yielded: the stream ends.
Finish ==
    /\ ~ended
    /\ emitted = whole
    /\ ended' = TRUE
    /\ UNCHANGED <<emitted, whole>>

ConcatNext == Emit \/ Finish

ConcatSpec == ConcatInit /\ [][ConcatNext]_cvars /\ WF_cvars(ConcatNext)

=============================================================================
