----------------------------- MODULE FrameQueue -----------------------------
(***************************************************************************)
(* What flutter::Pipeline promises the Animator and the Rasterizer: a      *)
(* queue of at most Depth frames, first in, first out, in which each       *)
(* operation is one step.  A slot is reserved before a frame is built and  *)
(* is free again when a consumer is done with the frame.  A consumer may   *)
(* put the frame it took last back, but only into an empty queue.          *)
(*                                                                         *)
(* There is no semaphore and no mutex here: FramePipeline shows that those *)
(* of the code amount to this.  Nothing keeps one consumer from putting a  *)
(* frame back after another one has taken a newer one.                     *)
(***************************************************************************)
EXTENDS Naturals, Sequences

CONSTANTS
    Depth,     \* how many slots there are
    Consumers  \* the threads that take frames

VARIABLES
    reserved,  \* how many slots are reserved for frames to come
    items,     \* the frames, numbered as they are pushed
    newest,    \* the number of the frame that was pushed last
    taken,     \* the frame a consumer took last, until it is done with it
    consuming  \* how many consumers have the slot of such a frame

vars == <<reserved, items, newest, taken, consuming>>

Init ==
    /\ reserved = 0
    /\ items = <<>>
    /\ newest = 0
    /\ taken = [c \in Consumers |-> 0]
    /\ consuming = 0

\* Pipeline::Produce and ProduceIfEmpty.
Reserve ==
    /\ reserved + Len(items) + consuming < Depth
    /\ reserved' = reserved + 1
    /\ UNCHANGED <<items, newest, taken, consuming>>

\* ProducerCommit.
Push ==
    /\ reserved > 0
    /\ reserved' = reserved - 1
    /\ newest' = newest + 1
    /\ items' = Append(items, newest')
    /\ UNCHANGED <<taken, consuming>>

\* ProducerCommitIfEmpty, which gives way to newer frames.
PutBack(c) ==
    /\ reserved > 0
    /\ reserved' = reserved - 1
    /\ taken[c] # 0
    /\ IF items = <<>> THEN items' = <<taken[c]>> ELSE UNCHANGED items
    /\ UNCHANGED <<newest, taken, consuming>>

\* Consume, up to the call of the consumer.
Take(c) ==
    /\ items # <<>> /\ taken[c] = 0
    /\ taken' = [taken EXCEPT ![c] = Head(items)]
    /\ items' = Tail(items)
    /\ consuming' = consuming + 1
    /\ UNCHANGED <<reserved, newest>>

\* The end of Consume.
Finish ==
    /\ consuming > 0
    /\ consuming' = consuming - 1
    /\ UNCHANGED <<reserved, items, newest, taken>>

\* A consumer is not going to put the frame back any more.
Forget(c) ==
    /\ taken' = [taken EXCEPT ![c] = 0]
    /\ UNCHANGED <<reserved, items, newest, consuming>>

Next ==
    \/ Reserve \/ Push \/ Finish
    \/ \E c \in Consumers : PutBack(c) \/ Take(c) \/ Forget(c)

Spec == Init /\ [][Next]_vars
=============================================================================
