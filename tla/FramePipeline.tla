--------------------------- MODULE FramePipeline ---------------------------
(***************************************************************************)
(* How a frame gets from a request to the screen: flutter::Animator and    *)
(* flutter::VsyncWaiter on the UI thread, flutter::Pipeline between the UI *)
(* and the raster thread, and the part of Rasterizer::Draw that consumes   *)
(* from it.  And how a pointer event gets to the framework that requests   *)
(* the frame: flutter::SmoothPointerDataDispatcher, which shares the       *)
(* waiter with the Animator.                                               *)
(*                                                                         *)
(* These threads take part: the UI thread, which runs the tasks of its     *)
(* queue in order; the raster thread, or the platform thread after the two *)
(* were merged (see ThreadMerger), likewise; and the one on which the      *)
(* platform delivers vsync.  A step of a thread ends where it has used a   *)
(* semaphore or left a mutex that another thread uses too.                 *)
(***************************************************************************)
EXTENDS Naturals, Sequences, FiniteSets

CONSTANTS
    Depth,         \* the depth the Animator gives its pipeline
    MaxFrames,     \* bound on the frames that are built
    MaxPackets     \* bound on the pointer data packets that are sent

ASSUME PipelineAssumption ==
    /\ Depth \in Nat \ {0}
    /\ MaxFrames \in Nat
    /\ MaxPackets \in Nat

Frames == 1..MaxFrames

\* Packets are numbered in the order in which the platform sends them; 0
\* stands for none.
Packets == 0..MaxPackets

\* The ids of secondary vsync callbacks: the addresses of the dispatcher and
\* of the Animator.
Clients == {"dispatcher", "animator"}

\* The threads that may serve the raster queue.
Consumers == {"raster", "platform"}

\* What the UI queue holds.
UITasks == {"AwaitVSync", "vsync", "packet"} \cup Clients

VARIABLES
    empty,        \* Pipeline::empty_, a semaphore
    available,    \* Pipeline::available_, a semaphore
    queue,        \* Pipeline::queue_
    continuation, \* Animator::producer_continuation_ is valid
    built,        \* how many frames were built
    pending,      \* Animator::pending_frame_semaphore_
    scheduled,    \* Animator::frame_scheduled_
    regenerate,   \* Animator::regenerate_layer_trees_
    callback,     \* VsyncWaiter::callback_ is set
    secondary,    \* keys of VsyncWaiter::secondary_callbacks_
    awaited,      \* how many vsyncs the platform owes the waiter
    sent,         \* how many packets the platform sent
    received,     \* how many of them the dispatcher was given
    buffered,     \* SmoothPointerDataDispatcher::pending_packet_
    inProgress,   \* is_pointer_data_in_progress_
    dispatched,   \* the last packet the framework was given, or 0
    uiTasks,      \* the UI queue
    ui,           \* what the UI thread does
    first,        \* is_first_item of the frame just pushed
    drawTasks,    \* how many Draw tasks the raster queue holds
    server,       \* which thread serves the raster queue
    draw,         \* what a thread does in Draw
    frame,        \* the frame it draws, or 0
    more,         \* consume_result of its Draw is MoreAvailable
    drawn,        \* the last frame that was drawn, or 0
    missed        \* history: a Draw ended before a frame that it could not take

pipelineVars == <<empty, available, queue>>
animatorVars == <<continuation, built, pending, scheduled, regenerate>>
waiterVars == <<callback, secondary, awaited>>
pointerVars == <<sent, received, buffered, inProgress, dispatched>>
uiVars == <<uiTasks, ui, first>>
rasterVars == <<server, draw, frame, more, drawn, missed>>
vars == <<pipelineVars, animatorVars, waiterVars, pointerVars, uiVars,
          drawTasks, rasterVars>>

Init ==
    /\ empty = Depth
    /\ available = 0
    /\ queue = <<>>
    /\ continuation = FALSE
    /\ built = 0
    /\ pending = 1
    /\ scheduled = FALSE
    /\ regenerate = FALSE
    /\ callback = FALSE
    /\ secondary = {}
    /\ awaited = 0
    /\ sent = 0
    /\ received = 0
    /\ buffered = 0
    /\ inProgress = FALSE
    /\ dispatched = 0
    /\ uiTasks = <<>>
    /\ ui = "idle"
    /\ first = FALSE
    /\ drawTasks = 0
    /\ server = "raster"
    /\ draw = [t \in Consumers |-> "idle"]
    /\ frame = [t \in Consumers |-> 0]
    /\ more = [t \in Consumers |-> FALSE]
    /\ drawn = 0
    /\ missed = FALSE

-----------------------------------------------------------------------------
(* Pipeline and VsyncWaiter, as the UI thread calls them *)

\* Reserves a slot; without one there is no continuation.
Produce ==
    /\ empty > 0
    /\ empty' = empty - 1

\* The critical section of ProducerCommit.
ProducerCommit(n) ==
    /\ first' = (queue = <<>>)
    /\ queue' = Append(queue, n)

\* Completes the continuation with frame n and clears it.
Complete(n) ==
    /\ continuation
    /\ ProducerCommit(n)
    /\ continuation' = FALSE

\* The first callback to wait asks the platform for a vsync.
AsyncWaitForVsync ==
    /\ callback' = TRUE
    /\ awaited' = IF callback \/ secondary # {} THEN awaited ELSE awaited + 1

\* Likewise.  Two schedules of one client result in one callback.
ScheduleSecondaryCallback(id) ==
    /\ secondary' = secondary \cup {id}
    /\ awaited' = IF callback \/ secondary # {} THEN awaited ELSE awaited + 1
    /\ UNCHANGED callback

-----------------------------------------------------------------------------
(* Animator, on the UI thread, in a task of the framework (idle), in the    *)
(* one that builds a frame or in one that dispatches a packet.              *)

\* Several requests result in one request to the VsyncWaiter.
RequestFrame(regenerate_layer_trees) ==
    /\ ui \in {"idle", "building", "dispatching", "dispatchingPending"}
    /\ regenerate' = (regenerate_layer_trees \/ regenerate)
    /\ IF pending = 0
       THEN UNCHANGED <<pending, uiTasks, scheduled>>
       ELSE /\ pending' = pending - 1
            /\ uiTasks' = Append(uiTasks, "AwaitVSync")
            /\ scheduled' = TRUE
    /\ UNCHANGED <<pipelineVars, continuation, built, waiterVars, pointerVars,
                   ui, first, drawTasks, rasterVars>>

\* The UI thread takes the task at the head of its queue.
Take(task) ==
    /\ ui = "idle"
    /\ uiTasks # <<>>
    /\ Head(uiTasks) = task

AwaitVSync ==
    /\ Take("AwaitVSync")
    /\ uiTasks' = Tail(uiTasks)
    /\ AsyncWaitForVsync
    /\ UNCHANGED <<pipelineVars, animatorVars, secondary, pointerVars, ui,
                   first, drawTasks, rasterVars>>

\* Fault: the request that was served does not make room for the next.
DrawLastWithoutSignal ==
    /\ Take("vsync")
    /\ ~regenerate
    /\ uiTasks' = Tail(uiTasks)
    /\ UNCHANGED <<pipelineVars, animatorVars, waiterVars, pointerVars, ui,
                   first, drawTasks, rasterVars>>

\* The vsync callback when the last layer trees can be reused.  The raster
\* task this posts does not touch the pipeline.
DrawLastLayerTrees ==
    /\ Take("vsync")
    /\ ~regenerate
    /\ uiTasks' = Tail(uiTasks)
    /\ pending' = pending + 1
    /\ UNCHANGED <<pipelineVars, continuation, built, scheduled, regenerate,
                   waiterVars, pointerVars, ui, first, drawTasks, rasterVars>>

\* The vsync callback with a continuation at hand, kept from a frame that was
\* not rendered or taken from the pipeline now: the framework builds a frame.
BeginFrame ==
    /\ Take("vsync")
    /\ regenerate
    /\ uiTasks' = Tail(uiTasks)
    /\ scheduled' = FALSE
    /\ regenerate' = FALSE
    /\ pending' = pending + 1
    /\ IF continuation THEN UNCHANGED empty ELSE Produce
    /\ continuation' = TRUE
    /\ ui' = "building"
    /\ UNCHANGED <<available, queue, built, waiterVars, pointerVars, first,
                   drawTasks, rasterVars>>

\* Fault: gives up the frame when the pipeline is full.
BeginFrameGivesUp ==
    /\ Take("vsync")
    /\ regenerate
    /\ ~continuation /\ empty = 0
    /\ uiTasks' = Tail(uiTasks)
    /\ pending' = pending + 1
    /\ scheduled' = FALSE
    /\ regenerate' = FALSE
    /\ UNCHANGED <<pipelineVars, continuation, built, waiterVars, pointerVars,
                   ui, first, drawTasks, rasterVars>>

\* The vsync callback when the pipeline is full: signal the semaphore, and
\* RequestFrame again.
BeginFramePipelineFull ==
    /\ Take("vsync")
    /\ regenerate
    /\ ~continuation /\ empty = 0
    /\ uiTasks' = Append(Tail(uiTasks), "AwaitVSync")
    /\ scheduled' = TRUE
    /\ UNCHANGED <<pipelineVars, continuation, built, pending, regenerate,
                   waiterVars, pointerVars, ui, first, drawTasks, rasterVars>>

\* Animator::Render, up to the push in ProducerCommit.  Without a
\* continuation the layer tree is dropped, which changes nothing.
Render ==
    /\ ui \in {"idle", "building"}
    /\ built < MaxFrames
    /\ built' = built + 1
    /\ Complete(built + 1)
    /\ ui' = "pushed"
    /\ UNCHANGED <<empty, available, pending, scheduled, regenerate,
                   waiterVars, pointerVars, uiTasks, drawTasks, rasterVars>>

\* The rest of Render: available_.Signal() and, if the frame was the first
\* item, Shell::OnAnimatorDraw.
SignalAvailable ==
    /\ ui = "pushed"
    /\ available' = available + 1
    /\ drawTasks' = IF first THEN drawTasks + 1 ELSE drawTasks
    /\ first' = FALSE
    /\ ui' = "idle"
    /\ UNCHANGED <<empty, queue, animatorVars, waiterVars, pointerVars,
                   uiTasks, rasterVars>>

\* The framework has nothing to render; the continuation is kept.
EndBuild ==
    /\ ui = "building"
    /\ ui' = "idle"
    /\ UNCHANGED <<pipelineVars, animatorVars, waiterVars, pointerVars,
                   uiTasks, first, drawTasks, rasterVars>>

-----------------------------------------------------------------------------
(* SmoothPointerDataDispatcher, on the UI thread.  Its calls of the waiter   *)
(* are steps of their own: a vsync may be delivered between them.            *)

\* Engine::DoDispatchPacket: the Animator, which traces the packet, schedules
\* its callback; then the framework handles the packet.
DoDispatchPacket(n) ==
    /\ dispatched' = n
    /\ ScheduleSecondaryCallback("animator")

\* Shell::OnPlatformViewDispatchPointerDataPacket, on the platform thread.
SendPacket ==
    /\ sent < MaxPackets
    /\ sent' = sent + 1
    /\ uiTasks' = Append(uiTasks, "packet")
    /\ UNCHANGED <<pipelineVars, animatorVars, waiterVars, received, buffered,
                   inProgress, dispatched, ui, first, drawTasks, rasterVars>>

\* Fault: the packet that waits is replaced.
DispatchPacketReplaces ==
    /\ Take("packet")
    /\ uiTasks' = Tail(uiTasks)
    /\ received' = received + 1
    /\ inProgress' = TRUE
    /\ IF inProgress
       THEN /\ buffered' = received + 1
            /\ ScheduleSecondaryCallback("dispatcher")
            /\ UNCHANGED <<dispatched, ui>>
       ELSE /\ DoDispatchPacket(received + 1)
            /\ ui' = "dispatching"
            /\ UNCHANGED buffered
    /\ UNCHANGED <<pipelineVars, animatorVars, sent, first, drawTasks,
                   rasterVars>>

\* A packet that comes before the vsync after the last one waits; it is
\* buffered in place of the one that waits already, which is dispatched.
DispatchPacket ==
    /\ Take("packet")
    /\ uiTasks' = Tail(uiTasks)
    /\ received' = received + 1
    /\ inProgress' = TRUE
    /\ \/ /\ inProgress /\ buffered # 0
          /\ DoDispatchPacket(buffered)
          /\ buffered' = received + 1
          /\ ui' = "dispatchingPending"
       \/ /\ inProgress /\ buffered = 0
          /\ buffered' = received + 1
          /\ ScheduleSecondaryCallback("dispatcher")
          /\ UNCHANGED <<dispatched, ui>>
       \/ /\ ~inProgress
          /\ DoDispatchPacket(received + 1)
          /\ ui' = "dispatching"
          /\ UNCHANGED buffered
    /\ UNCHANGED <<pipelineVars, animatorVars, sent, first, drawTasks,
                   rasterVars>>

\* The framework has handled the packet; DispatchPendingPacket schedules a
\* callback, and so does DispatchPacket, also after it called that.
ScheduleSecondaryVsyncCallback ==
    /\ ui \in {"dispatching", "dispatchingPending", "dispatchedPending"}
    /\ ui' = IF ui = "dispatchingPending" THEN "dispatchedPending" ELSE "idle"
    /\ ScheduleSecondaryCallback("dispatcher")
    /\ UNCHANGED <<pipelineVars, animatorVars, pointerVars, uiTasks, first,
                   drawTasks, rasterVars>>

\* Fault: a callback that finds no packet leaves the data in progress.
DispatcherCallbackKeeps ==
    /\ Take("dispatcher")
    /\ uiTasks' = Tail(uiTasks)
    /\ \/ /\ inProgress /\ buffered # 0
          /\ DoDispatchPacket(buffered)
          /\ buffered' = 0
          /\ ui' = "dispatching"
       \/ /\ ~inProgress \/ buffered = 0
          /\ UNCHANGED <<waiterVars, buffered, dispatched, ui>>
    /\ UNCHANGED <<pipelineVars, animatorVars, sent, received, inProgress,
                   first, drawTasks, rasterVars>>

\* The dispatcher's callback: a packet that waits is dispatched, and the
\* next one has to wait for another vsync.
DispatcherCallback ==
    /\ Take("dispatcher")
    /\ uiTasks' = Tail(uiTasks)
    /\ \/ /\ inProgress /\ buffered # 0
          /\ DoDispatchPacket(buffered)
          /\ buffered' = 0
          /\ ui' = "dispatching"
          /\ UNCHANGED inProgress
       \/ /\ ~inProgress \/ buffered = 0
          /\ inProgress' = FALSE
          /\ UNCHANGED <<waiterVars, buffered, dispatched, ui>>
    /\ UNCHANGED <<pipelineVars, animatorVars, sent, received, first,
                   drawTasks, rasterVars>>

\* The callback of ScheduleMaybeClearTraceFlowIds, which ends traces.
MaybeClearTraceFlowIds ==
    /\ Take("animator")
    /\ uiTasks' = Tail(uiTasks)
    /\ UNCHANGED <<pipelineVars, animatorVars, waiterVars, pointerVars, ui,
                   first, drawTasks, rasterVars>>

-----------------------------------------------------------------------------
(* VsyncWaiter, on the thread that delivers vsync *)

\* The orders in which the map of callbacks may be iterated.
Orders(ids) ==
    {s \in [1..Cardinality(ids) -> ids] :
        \A i, j \in DOMAIN s : i # j => s[i] # s[j]}

\* Fault: the secondary callbacks are posted only if there is no other.
FireCallbackPrimaryOnly ==
    /\ awaited > 0
    /\ awaited' = awaited - 1
    /\ callback' = FALSE
    /\ secondary' = {}
    /\ IF callback
       THEN uiTasks' = Append(uiTasks, "vsync")
       ELSE \E posted \in Orders(secondary) : uiTasks' = uiTasks \o posted
    /\ UNCHANGED <<pipelineVars, animatorVars, pointerVars, ui, first,
                   drawTasks, rasterVars>>

\* All callbacks that wait are posted, the primary one first.
FireCallback ==
    /\ awaited > 0
    /\ awaited' = awaited - 1
    /\ callback' = FALSE
    /\ secondary' = {}
    /\ \E posted \in Orders(secondary) :
        uiTasks' = uiTasks \o (IF callback THEN <<"vsync">> ELSE <<>>) \o posted
    /\ UNCHANGED <<pipelineVars, animatorVars, pointerVars, ui, first,
                   drawTasks, rasterVars>>

-----------------------------------------------------------------------------
(* Rasterizer::Draw and Pipeline::Consume, on the thread that serves the    *)
(* raster queue                                                            *)

\* Control of thread t.
Go(t, there) == draw' = [draw EXCEPT ![t] = there]

\* Fault: pops without asking whether a frame is available.
StartDrawUnchecked(t) ==
    /\ draw[t] = "idle" /\ server = t
    /\ drawTasks > 0
    /\ drawTasks' = drawTasks - 1
    /\ available' = IF available = 0 THEN 0 ELSE available - 1
    /\ Go(t, "pop")
    /\ UNCHANGED <<empty, queue, animatorVars, waiterVars, pointerVars,
                   uiVars, server, frame, more, drawn, missed>>

\* Draw, up to available_.TryWait(); if that fails there is no frame, or the
\* one in the queue was not signalled yet.
StartDraw(t) ==
    /\ draw[t] = "idle" /\ server = t
    /\ drawTasks > 0
    /\ drawTasks' = drawTasks - 1
    /\ IF available = 0
       THEN /\ missed' = (missed \/ queue # <<>>)
            /\ UNCHANGED <<available, draw>>
       ELSE /\ available' = available - 1
            /\ Go(t, "pop")
            /\ UNCHANGED missed
    /\ UNCHANGED <<empty, queue, animatorVars, waiterVars, pointerVars,
                   uiVars, server, frame, more, drawn>>

\* Fault: one item too many has to be left.
PopMiscounts(t) ==
    /\ draw[t] = "pop"
    /\ frame' = [frame EXCEPT ![t] = Head(queue)]
    /\ queue' = Tail(queue)
    /\ more' = [more EXCEPT ![t] = Len(queue) > 2]
    /\ Go(t, "drawing")
    /\ UNCHANGED <<empty, available, animatorVars, waiterVars, pointerVars,
                   uiVars, drawTasks, server, drawn, missed>>

PopFront(t) ==
    /\ draw[t] = "pop"
    /\ frame' = [frame EXCEPT ![t] = Head(queue)]
    /\ queue' = Tail(queue)
    /\ more' = [more EXCEPT ![t] = Len(queue) > 1]
    /\ Go(t, "drawing")
    /\ UNCHANGED <<empty, available, animatorVars, waiterVars, pointerVars,
                   uiVars, drawTasks, server, drawn, missed>>

\* The consumer calls DoDraw: the frame is drawn or dropped (no surface, no
\* GPU, wrong size).
DoDraw(t) ==
    /\ draw[t] = "drawing"
    /\ Go(t, "release")
    /\ drawn' \in {drawn, frame[t]}
    /\ UNCHANGED <<pipelineVars, animatorVars, waiterVars, pointerVars,
                   uiVars, drawTasks, server, frame, more, missed>>

\* DoDraw of a frame that has to be drawn again on the same thread.
DoDrawRetries(t) ==
    /\ draw[t] = "drawing"
    /\ Go(t, "releaseAndRetry")
    /\ UNCHANGED <<pipelineVars, animatorVars, waiterVars, pointerVars,
                   uiVars, drawTasks, server, frame, more, drawn, missed>>

\* DoDraw of a frame with platform views that merges the threads.  It has to
\* be drawn again, and from now on the platform thread runs the Draw tasks,
\* while the raster thread has the rest of this one to do.
DoDrawMerges ==
    /\ draw["raster"] = "drawing" /\ server = "raster"
    /\ server' = "platform"
    /\ Go("raster", "releaseAndRetry")
    /\ UNCHANGED <<pipelineVars, animatorVars, waiterVars, pointerVars,
                   uiVars, drawTasks, frame, more, drawn, missed>>

\* DoDraw that uses up the lease and unmerges the threads.  Draw is going to
\* post itself again (kEnqueuePipeline), unless the frame is resubmitted and
\* that fails.
DoDrawUnmerges ==
    /\ draw["platform"] = "drawing" /\ server = "platform"
    /\ server' = "raster"
    /\ \/ /\ Go("platform", "release")
          /\ more' = [more EXCEPT !["platform"] = TRUE]
          /\ drawn' \in {drawn, frame["platform"]}
       \/ /\ Go("platform", "releaseAndRetry")
          /\ UNCHANGED <<more, drawn>>
    /\ UNCHANGED <<pipelineVars, animatorVars, waiterVars, pointerVars,
                   uiVars, drawTasks, frame, missed>>

\* Rasterizer::Teardown on the platform thread unmerges the threads.
TeardownUnmerges ==
    /\ draw["platform"] = "idle" /\ server = "platform"
    /\ server' = "raster"
    /\ UNCHANGED <<pipelineVars, animatorVars, waiterVars, pointerVars,
                   uiVars, drawTasks, draw, frame, more, drawn, missed>>

\* empty_.Signal() at the end of Consume.
Release(t) ==
    /\ draw[t] \in {"release", "releaseAndRetry"}
    /\ empty' = empty + 1
    /\ Go(t, IF draw[t] = "release" THEN "post" ELSE "produce")
    /\ UNCHANGED <<available, queue, animatorVars, waiterVars, pointerVars,
                   uiVars, drawTasks, server, frame, more, drawn, missed>>

\* Fault: takes the slot that Consume has just released for granted.
ProduceUnchecked(t) ==
    /\ draw[t] = "produce"
    /\ empty' = empty - 1
    /\ Go(t, "commit")
    /\ UNCHANGED <<available, queue, animatorVars, waiterVars, pointerVars,
                   uiVars, drawTasks, server, frame, more, drawn, missed>>

\* ProduceIfEmpty of the frame to draw again.  In a full pipeline it is lost.
ProduceIfEmpty(t) ==
    /\ draw[t] = "produce"
    /\ IF empty = 0
       THEN Go(t, "post") /\ UNCHANGED empty
       ELSE Go(t, "commit") /\ empty' = empty - 1
    /\ UNCHANGED <<available, queue, animatorVars, waiterVars, pointerVars,
                   uiVars, drawTasks, server, frame, more, drawn, missed>>

\* Fault: bails without opening up the space it reserved.
CommitIfEmptyKeepsSlot(t) ==
    /\ draw[t] = "commit"
    /\ IF queue # <<>>
       THEN Go(t, "post") /\ UNCHANGED <<queue, more>>
       ELSE /\ queue' = <<frame[t]>>
            /\ more' = [more EXCEPT ![t] = TRUE]
            /\ Go(t, "signal")
    /\ UNCHANGED <<empty, available, animatorVars, waiterVars, pointerVars,
                   uiVars, drawTasks, server, frame, drawn, missed>>

\* Fault: pushes behind the newer frames.
CommitAnyway(t) ==
    /\ draw[t] = "commit"
    /\ queue' = Append(queue, frame[t])
    /\ more' = [more EXCEPT ![t] = TRUE]
    /\ Go(t, "signal")
    /\ UNCHANGED <<empty, available, animatorVars, waiterVars, pointerVars,
                   uiVars, drawTasks, server, frame, drawn, missed>>

\* The critical section of ProducerCommitIfEmpty: a newer frame takes
\* precedence.
ProducerCommitIfEmpty(t) ==
    /\ draw[t] = "commit"
    /\ IF queue # <<>>
       THEN /\ empty' = empty + 1
            /\ Go(t, "post")
            /\ UNCHANGED <<queue, more>>
       ELSE /\ queue' = <<frame[t]>>
            /\ more' = [more EXCEPT ![t] = TRUE]
            /\ Go(t, "signal")
            /\ UNCHANGED empty
    /\ UNCHANGED <<available, animatorVars, waiterVars, pointerVars, uiVars,
                   drawTasks, server, frame, drawn, missed>>

\* available_.Signal() for the frame that was put back.
SignalPutBack(t) ==
    /\ draw[t] = "signal"
    /\ available' = available + 1
    /\ Go(t, "post")
    /\ UNCHANGED <<empty, queue, animatorVars, waiterVars, pointerVars,
                   uiVars, drawTasks, server, frame, more, drawn, missed>>

\* Draw posts itself again if more frames are available.
PostDraw(t) ==
    /\ draw[t] = "post"
    /\ drawTasks' = IF more[t] THEN drawTasks + 1 ELSE drawTasks
    /\ Go(t, "idle")
    /\ frame' = [frame EXCEPT ![t] = 0]
    /\ more' = [more EXCEPT ![t] = FALSE]
    /\ UNCHANGED <<pipelineVars, animatorVars, waiterVars, pointerVars,
                   uiVars, server, drawn, missed>>

-----------------------------------------------------------------------------
\* What the UI thread has to do once it started, or finds in its queue.
UIStep ==
    \/ AwaitVSync
    \/ DrawLastLayerTrees
    \/ BeginFrame
    \/ BeginFramePipelineFull
    \/ DispatchPacket
    \/ ScheduleSecondaryVsyncCallback
    \/ DispatcherCallback
    \/ MaybeClearTraceFlowIds
    \/ SignalAvailable
    \/ EndBuild

\* What the framework may do.
FrameworkStep ==
    \/ \E regenerate_layer_trees \in BOOLEAN :
        RequestFrame(regenerate_layer_trees)
    \/ Render

DrawStep(t) ==
    \/ StartDraw(t)
    \/ PopFront(t)
    \/ DoDraw(t)
    \/ DoDrawRetries(t)
    \/ Release(t)
    \/ ProduceIfEmpty(t)
    \/ ProducerCommitIfEmpty(t)
    \/ SignalPutBack(t)
    \/ PostDraw(t)

\* What changes the thread that serves the raster queue.
MergerStep == DoDrawMerges \/ DoDrawUnmerges \/ TeardownUnmerges

Next ==
    \/ UIStep \/ FrameworkStep \/ SendPacket \/ FireCallback
    \/ \E t \in Consumers : DrawStep(t)
    \/ MergerStep

Spec == Init /\ [][Next]_vars

\* A frame that is not going to be drawn again.
FrameDone ==
    \/ \E t \in Consumers : DoDraw(t)
    \/ DoDrawUnmerges /\ draw'["platform"] = "release"

(***************************************************************************)
(* Threads run the tasks they are given, and the platform delivers vsync.  *)
(* An embedder that has frames drawn again gets to one that it does not:   *)
(* "Eventually, the frame is submitted once this method returns            *)
(* `kSuccess`."  Nobody has to request or render a frame, or to send a     *)
(* packet, and the threads may be merged and unmerged for ever.            *)
(***************************************************************************)
Fairness ==
    /\ WF_vars(UIStep)
    /\ \A t \in Consumers : WF_vars(DrawStep(t))
    /\ SF_vars(FrameDone)
    /\ WF_vars(FireCallback)

FairSpec == Spec /\ Fairness

-----------------------------------------------------------------------------
(* Properties *)

\* One if the condition holds, else zero.
One(condition) == IF condition THEN 1 ELSE 0

Count(task) == Cardinality({i \in DOMAIN uiTasks : uiTasks[i] = task})

DrawLabels == {"idle", "pop", "drawing", "release", "releaseAndRetry",
               "produce", "commit", "signal", "post"}

\* How many of the threads are there in Draw.
HowMany(labels) ==
    One(draw["raster"] \in labels) + One(draw["platform"] \in labels)

\* Every variable has its type: no semaphore is taken below zero.
TypeOK ==
    /\ empty \in Nat
    /\ available \in Nat
    /\ queue \in Seq(Frames)
    /\ continuation \in BOOLEAN
    /\ built \in 0..MaxFrames
    /\ pending \in Nat
    /\ scheduled \in BOOLEAN
    /\ regenerate \in BOOLEAN
    /\ callback \in BOOLEAN
    /\ secondary \subseteq Clients
    /\ awaited \in Nat
    /\ sent \in Packets
    /\ received \in Nat
    /\ buffered \in Nat
    /\ inProgress \in BOOLEAN
    /\ dispatched \in Nat
    /\ uiTasks \in Seq(UITasks)
    /\ ui \in {"idle", "building", "pushed", "dispatching",
               "dispatchingPending", "dispatchedPending"}
    /\ first \in BOOLEAN
    /\ drawTasks \in Nat
    /\ server \in Consumers
    /\ draw \in [Consumers -> DrawLabels]
    /\ frame \in [Consumers -> Frames \cup {0}]
    /\ more \in [Consumers -> BOOLEAN]
    /\ drawn \in Frames \cup {0}
    /\ missed \in BOOLEAN

\* Where a thread holds a slot of the pipeline.
Holding == {"drawing", "release", "releaseAndRetry", "commit"}

\* The slots of the pipeline are neither lost nor made up, by frames that
\* are not rendered, dropped, retried or beaten by a newer one: each is free,
\* held by a continuation, or taken by a frame in the queue or being drawn.
SlotsConserved ==
    empty + One(continuation) + Len(queue) + HowMany(Holding) = Depth

\* available_ counts the frames of the queue, which the code keeps under a
\* mutex of its own: the front that Consume pops exists, also when the thread
\* that puts a frame back is not the only one that consumes.
AvailableCountsQueue ==
    available + One(ui = "pushed") + HowMany({"pop", "signal"}) = Len(queue)

\* Animator, VsyncWaiter and UI queue hold one frame request between them:
\* either pending_frame_semaphore_ can be taken, or the request is on its way
\* through AwaitVSync, the callback and the vsync task; and the platform owes
\* a vsync exactly when somebody waits for one.
OneRequest ==
    /\ pending + Count("AwaitVSync") + One(callback) + Count("vsync") = 1
    /\ awaited = One(callback \/ secondary # {})

\* The callback of a dispatcher that waits for one is on its way, whichever
\* of its calls of the waiter a vsync comes between: it is scheduled, posted,
\* or about to be scheduled.
CallbackComes ==
    inProgress => \/ "dispatcher" \in secondary
                  \/ \E i \in DOMAIN uiTasks : uiTasks[i] = "dispatcher"
                  \/ ui \in {"dispatching", "dispatchingPending",
                            "dispatchedPending"}

\* Smoothing adds "at most [...] a latency of one event delivery": the
\* framework gets the packets in their order, all but the last one received,
\* which is the one that is buffered.
OneEventLate ==
    /\ received = IF buffered = 0 THEN dispatched ELSE dispatched + 1
    /\ buffered \in {0, received}
    /\ buffered # 0 => inProgress

\* "We push the frame to the front of the queue": a retried frame is never
\* drawn after a newer one.
DrawsInOrder == [][drawn' = drawn \/ drawn' > drawn]_vars

\* The queue that the Animator and the Rasterizer see: a reserved slot is the
\* continuation of the one or the other, and a consumer has a frame from the
\* pop to empty_.Signal().
Queue == INSTANCE FrameQueue WITH
    reserved <- One(continuation) + HowMany({"commit"}),
    items <- queue,
    newest <- built,
    taken <- frame,
    consuming <- HowMany({"drawing", "release", "releaseAndRetry"})

\* With two semaphores and a mutex that are not taken together, Pipeline
\* behaves as a bounded first-in-first-out queue whose operations are atomic.
ImplementsFrameQueue == Queue!Spec

InQueue(n) == \E i \in DOMAIN queue : queue[i] = n

\* A frame that is pushed, behind another or not, leaves the queue, unless
\* the one thing happened that can strand it: a Draw came too early for the
\* Signal of a frame that others rely on it to take.
FrameConsumed == \A n \in Frames : InQueue(n) ~> (~InQueue(n) \/ missed)

\* A request for a new frame is eventually served, also when it has to wait
\* for the pipeline: the framework gets to build the frame.
RequestServed == regenerate ~> (ui = "building" \/ missed)

\* A packet that is received reaches the framework, also the last of a burst,
\* after which no other packet comes to push it out.
PacketDispatched ==
    \A n \in Packets : received >= n ~> dispatched >= n

\* "Eventually the 'Rasterizer' will consume it, so we don't need to notify
\* the delegate": a frame that is pushed behind another leaves the queue too.
EventuallyConsumed == \A n \in Frames : InQueue(n) ~> ~InQueue(n)
=============================================================================
