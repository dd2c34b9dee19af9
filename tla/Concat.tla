------------------------------- MODULE Concat --------------------------------
(***************************************************************************)
(* ConcatNode::produce_tasks of daft-distributed/src/pipeline_node/        *)
(* concat.rs.  It asks `child` and then `other` for their task streams (so  *)
(* both exist, and may be producing, from the start) and returns           *)
(* input_node.chain(other_node): a poll of the chain polls the child's     *)
(* stream until that returns None, and only then polls the other's.        *)
(* A child's stream is a queue of the tasks it has produced and not yet    *)
(* yielded, plus whether it has finished; when it produces is up to the    *)
(* child, so it is a separate action that may interleave with any poll.    *)
(***************************************************************************)
EXTENDS Naturals, Sequences

CONSTANTS
    MaxTasks   \* the most tasks one child's stream produces

Sides == {"child", "other"}

\* A task is the side that produced it and its index in that side's stream.
AllTasks == Sides \X (1..MaxTasks)

VARIABLES
    total,    \* side -> the number of tasks that side's stream will produce
    queue,    \* side -> tasks produced by that stream and not yet polled
    made,     \* side -> the number of tasks that stream has produced
    current,  \* the stream the chain polls: "child", "other" or "none"
    out       \* the tasks the chain has yielded to the stage, in order

vars == <<total, queue, made, current, out>>

\* Mutant: an empty queue (Pending) is taken for the end of the stream.
ExhaustedWhenEmpty(s) == queue[s] = <<>>

\* A stream has finished once it produced all its tasks and yielded them.
Exhausted(s) == made[s] = total[s] /\ queue[s] = <<>>

Init ==
    /\ total \in [Sides -> 0..MaxTasks]
    /\ queue = [s \in Sides |-> <<>>]
    /\ made = [s \in Sides |-> 0]
    /\ current = "child"
    /\ out = <<>>

\* The stream of side s produces its next task.
Produce(s) ==
    /\ made[s] < total[s]
    /\ made' = [made EXCEPT ![s] = @ + 1]
    /\ queue' = [queue EXCEPT ![s] = Append(@, <<s, made[s] + 1>>)]
    /\ UNCHANGED <<total, current, out>>

\* Chain::poll_next: poll the current stream; a task is yielded, a None
\* from the child switches to the other stream (and polls it in the same
\* call), a None from the other ends the chain.
PollChain ==
    /\ current # "none"
    /\ \/ /\ queue[current] # <<>>
          /\ out' = Append(out, Head(queue[current]))
          /\ queue' = [queue EXCEPT ![current] = Tail(@)]
          /\ UNCHANGED current
       \/ /\ Exhausted(current)
          /\ current' = IF current = "child" THEN "other" ELSE "none"
          /\ UNCHANGED <<queue, out>>
    /\ UNCHANGED <<total, made>>

Next == PollChain \/ \E s \in Sides : Produce(s)

\* Each child's stream runs until it has produced its tasks, and the stage
\* keeps polling the stream it was given until it ends.
Spec ==
    /\ Init /\ [][Next]_vars
    /\ WF_vars(PollChain) /\ \A s \in Sides : WF_vars(Produce(s))

-----------------------------------------------------------------------------

\* The tasks of one side, in the order that side produces them.
TasksOf(s) == [k \in 1..total[s] |-> <<s, k>>]

\* The stage sees exactly the child's tasks, in order, then the other's,
\* in order, and then the end of the stream.
Chained == INSTANCE Concatenation WITH
    Tasks <- AllTasks,
    emitted <- out,
    whole <- TasksOf("child") \o TasksOf("other"),
    ended <- current = "none"

ImplementsConcatenation == Chained!ConcatSpec

=============================================================================
