---------------------------- MODULE ThreadMerger ----------------------------
(***************************************************************************)
(* Dynamic thread merging: fml::RasterThreadMerger (one per engine, with   *)
(* its own mutex_) and the fml::SharedThreadMerger behind all of them,     *)
(* together with the code that drives them: Rasterizer::Draw, Setup and    *)
(* Teardown, AndroidExternalViewEmbedder, and the creation and destruction *)
(* of a platform view by Shell.                                            *)
(*                                                                         *)
(* Two threads run this code.  The tasks of the raster queue run on the    *)
(* raster thread or, while the queue is subsumed (see TaskQueues), on the  *)
(* platform thread.  A step of a thread is what it does between two points *)
(* where another thread can get in.  The mutex_ of a RasterThreadMerger    *)
(* does not keep the other engines out and the mutex_ of the               *)
(* SharedThreadMerger does not keep readers out, so what the code does     *)
(* under them to enabled_, to the leases and to the task queues is one     *)
(* step each.                                                              *)
(***************************************************************************)
EXTENDS Naturals, Sequences

CONSTANTS
    Engines,      \* shells that share their threads (Shell::Spawn)
    Lease,        \* kDefaultMergedLeaseDuration, which is 10
    MaxQueue,     \* bound on the raster queue when the UI thread posts to it
    AwaitSetup    \* TRUE: a view is destroyed only once its surface is set up

ASSUME LeaseAssumption ==
    /\ Engines # {}
    /\ Lease \in Nat \ {0, 1}
    /\ MaxQueue \in Nat
    /\ AwaitSetup \in BOOLEAN

Threads == {"platform", "raster"}
Nobody == "nobody"

VARIABLES
    callers,      \* keys of lease_term_by_caller_
    lease,        \* values of lease_term_by_caller_
    enabled,      \* SharedThreadMerger::enabled_
    subsumed,     \* MessageLoopTaskQueues::Owns(platform, raster)
    locked,       \* who holds the mutex_ of an engine's RasterThreadMerger
    sharedLock,   \* who holds the mutex_ of the SharedThreadMerger
    hasMerger,    \* raster_thread_merger_ of an engine's Rasterizer is set
    surface,      \* surface_ of an engine's Rasterizer is set
    last,         \* view_records_ of an engine's Rasterizer holds a tree
    used,         \* GetUsedThisFrame of an engine's view embedder
    view,         \* the platform has given the engine an output surface
    queue,        \* the tasks of the raster queue
    overlap,      \* history: tasks the platform thread took since the raster
                  \* thread, which is still busy, took its last one
    outlasted,    \* history: that once was about as many as a lease has frames
    at,           \* what a thread does next
    cur,          \* the engine it does it for
    more,         \* Draw will post itself again
    reuse,        \* the thread is in DrawLastLayerTrees rather than in Draw
    failed        \* the FML_CHECK that aborted the process, or "none"

mergerVars == <<callers, lease, enabled, subsumed, locked, sharedLock>>
engineVars == <<hasMerger, surface, last, used, view>>
threadVars == <<at, cur, more, reuse>>
queueVars == <<queue, overlap, outlasted>>
vars == <<mergerVars, engineVars, queueVars, threadVars, failed>>

-----------------------------------------------------------------------------
(* SharedThreadMerger *)

IsAllLeaseTermsZero == \A e \in callers : lease[e] = 0
IsMerged == ~IsAllLeaseTermsZero

\* task_queues_->Unmerge must succeed: FML_CHECK(success).
UnMergeNow ==
    /\ subsumed' = FALSE
    /\ failed' = IF subsumed THEN failed ELSE "unmerge"

ExtendLeaseTo(e) ==
    /\ callers' = callers \cup {e}
    /\ lease' = [lease EXCEPT ![e] = Lease]

-----------------------------------------------------------------------------
Init ==
    /\ callers = {}
    /\ lease = [e \in Engines |-> 0]
    /\ enabled = TRUE
    /\ subsumed = FALSE
    /\ locked = [e \in Engines |-> Nobody]
    /\ sharedLock = Nobody
    /\ hasMerger = [e \in Engines |-> FALSE]
    /\ surface = [e \in Engines |-> FALSE]
    /\ last = [e \in Engines |-> FALSE]
    /\ used = [e \in Engines |-> FALSE]
    /\ view = [e \in Engines |-> FALSE]
    /\ queue = <<>>
    /\ overlap = 0
    /\ outlasted = FALSE
    /\ at = [t \in Threads |-> "idle"]
    /\ cur = [t \in Threads |-> CHOOSE e \in Engines : TRUE]
    /\ more = [t \in Threads |-> FALSE]
    /\ reuse = [t \in Threads |-> FALSE]
    /\ failed = "none"

\* Control of thread t.  A failed FML_CHECK stops every thread.
Here(t, here) == at[t] = here /\ failed = "none"
Go(t, there) == at' = [at EXCEPT ![t] = there]

\* Critical sections of mutex_ can start when nobody is inside one.
Free(e) == locked[e] = Nobody

-----------------------------------------------------------------------------
(* RasterThreadMerger; each of these is a critical section of mutex_.       *)

Enable(e) == Free(e) /\ enabled' = TRUE
Disable(e) == Free(e) /\ enabled' = FALSE

IsOnRasterizingThread(t) == IsMerged = (t = "platform")

-----------------------------------------------------------------------------
(* The raster queue *)

\* Shell::OnAnimatorDraw, on the UI thread.
PostDraw(e) ==
    /\ failed = "none"
    /\ Len(queue) < MaxQueue
    /\ queue' = Append(queue, <<"draw", e>>)
    /\ UNCHANGED <<mergerVars, engineVars, overlap, outlasted,
                   threadVars, failed>>

\* Shell::OnAnimatorDrawLastLayerTrees, on the UI thread.
PostDrawLast(e) ==
    /\ failed = "none"
    /\ Len(queue) < MaxQueue
    /\ queue' = Append(queue, <<"drawLast", e>>)
    /\ UNCHANGED <<mergerVars, engineVars, overlap, outlasted,
                   threadVars, failed>>

\* The loop that serves the raster queue takes its next task.  After a merge
\* that is the platform thread, although the raster thread may still be in
\* the Draw that merged, for however long the rest of it takes.
StartTask(t) ==
    /\ Here(t, "idle")
    /\ t = (IF subsumed THEN "platform" ELSE "raster")
    /\ queue # <<>>
    /\ IF at["raster"] = "idle"
       THEN overlap' = 0 /\ UNCHANGED outlasted
       ELSE /\ overlap' = IF overlap < Lease THEN overlap + 1 ELSE overlap
            /\ outlasted' = (outlasted \/ overlap' + 1 >= Lease)
    /\ Go(t, Head(queue)[1])
    /\ cur' = [cur EXCEPT ![t] = Head(queue)[2]]
    /\ queue' = Tail(queue)
    /\ UNCHANGED <<mergerVars, engineVars, more, reuse, failed>>

-----------------------------------------------------------------------------
(* Rasterizer::Draw.  That the pipeline holds more frames is left to       *)
(* PostDraw, which posts the same task as Draw does then.                  *)

\* IsOnRasterizingThread, under mutex_; on the wrong thread Draw yields.
DrawCheckThread(t) ==
    LET e == cur[t] IN
    /\ Here(t, "draw")
    /\ hasMerger[e] => Free(e)
    /\ IF hasMerger[e] /\ ~IsOnRasterizingThread(t)
       THEN Go(t, "idle") ELSE Go(t, "consume")
    /\ UNCHANGED <<mergerVars, engineVars, queueVars, cur, more, reuse,
                   failed>>

\* The pipeline is empty.
ConsumeNothing(t) ==
    /\ Here(t, "consume")
    /\ Go(t, "idle")
    /\ UNCHANGED <<mergerVars, engineVars, queueVars, cur, more, reuse,
                   failed>>

\* DoDraw of a frame: to be drawn, to be left undrawn because there is no
\* surface or no GPU, or of a size that no longer fits and discarded.
ConsumeFrame(t) ==
    /\ Here(t, "consume")
    /\ \E next \in IF surface[cur[t]] THEN {"begin", "end", "decrement"}
                                     ELSE {"end"} : Go(t, next)
    /\ UNCHANGED <<mergerVars, engineVars, queueVars, cur, more, reuse,
                   failed>>

\* Draws the last layer trees again, if there are any: without asking which
\* thread this is, and without using up the lease.  The trees are moved out
\* of view_records_, and back there only by a success.
DrawLastLayerTrees(t) ==
    LET e == cur[t] IN
    /\ Here(t, "drawLast")
    /\ IF surface[e] /\ last[e]
       THEN /\ reuse' = [reuse EXCEPT ![t] = TRUE]
            /\ last' = [last EXCEPT ![e] = FALSE]
            /\ \E next \in {"begin", "end"} : Go(t, next)
       ELSE /\ Go(t, "idle")
            /\ UNCHANGED <<reuse, last>>
    /\ UNCHANGED <<mergerVars, hasMerger, surface, used, view, queueVars, cur,
                   more, failed>>

\* DrawToSurfacesUnsafe: SetUsedThisFrame(true) and BeginFrame.
BeginFrame(t) ==
    /\ Here(t, "begin")
    /\ used' = [used EXCEPT ![cur[t]] = TRUE]
    /\ Go(t, "preroll")
    /\ UNCHANGED <<mergerVars, hasMerger, surface, last, view, queueVars, cur,
                   more, reuse, failed>>

\* A frame without platform views, or one that gets no surface frame.
PrerollPlain(t) ==
    /\ Here(t, "preroll")
    /\ Go(t, "raster")
    /\ UNCHANGED <<mergerVars, engineVars, queueVars, cur, more, reuse,
                   failed>>

\* PostPrerollAction of a frame with platform views, up to IsMerged().
PrerollPlatformViews(t) ==
    /\ Here(t, "preroll")
    /\ Free(cur[t])
    /\ Go(t, IF IsMerged THEN "extend" ELSE "merge")
    /\ UNCHANGED <<mergerVars, engineVars, queueVars, cur, more, reuse,
                   failed>>

\* Fault: merges although the merger is disabled.
MergeCheckIgnoresEnabled(t) ==
    LET e == cur[t] IN
    /\ Here(t, "merge")
    /\ Free(e)
    /\ \E resubmit \in BOOLEAN : more' = [more EXCEPT ![t] = resubmit]
    /\ IF ~IsMerged
       THEN locked' = [locked EXCEPT ![e] = t] /\ Go(t, "mergeShared")
       ELSE UNCHANGED locked /\ Go(t, "cleanup")
    /\ UNCHANGED <<callers, lease, enabled, subsumed, sharedLock, engineVars,
                   queueVars, cur, reuse, failed>>

\* RasterThreadMerger::MergeWithLease takes mutex_ and looks at enabled_,
\* which another engine may change under its own mutex_.  The frame is
\* skipped either way, and retried unless a newer one has taken its slot.
MergeCheck(t) ==
    LET e == cur[t] IN
    /\ Here(t, "merge")
    /\ Free(e)
    /\ \E resubmit \in BOOLEAN : more' = [more EXCEPT ![t] = resubmit]
    /\ IF enabled /\ ~IsMerged
       THEN locked' = [locked EXCEPT ![e] = t] /\ Go(t, "mergeShared")
       ELSE UNCHANGED locked /\ Go(t, "cleanup")
    /\ UNCHANGED <<callers, lease, enabled, subsumed, sharedLock, engineVars,
                   queueVars, cur, reuse, failed>>

\* Fault: the merge callback runs after mutex_ is released.
MergeLeaseUnlocks(t) ==
    /\ Here(t, "mergeLease")
    /\ ExtendLeaseTo(cur[t])
    /\ sharedLock' = Nobody
    /\ locked' = [locked EXCEPT ![cur[t]] = Nobody]
    /\ Go(t, "mergeCallback")
    /\ UNCHANGED <<enabled, subsumed, engineVars, queueVars, cur, more, reuse,
                   failed>>

\* SharedThreadMerger::MergeWithLease merges the task queues, ...
MergeShared(t) ==
    /\ Here(t, "mergeShared")
    /\ sharedLock = Nobody
    /\ IF IsMerged
       THEN Go(t, "mergeCallback") /\ UNCHANGED <<subsumed, sharedLock>>
       ELSE /\ subsumed' = TRUE
            /\ sharedLock' = t
            /\ Go(t, "mergeLease")
    /\ UNCHANGED <<callers, lease, enabled, locked, engineVars, queueVars,
                   cur, more, reuse, failed>>

\* ... and then saves the lease.
MergeLease(t) ==
    /\ Here(t, "mergeLease")
    /\ ExtendLeaseTo(cur[t])
    /\ sharedLock' = Nobody
    /\ Go(t, "mergeCallback")
    /\ UNCHANGED <<enabled, subsumed, locked, engineVars, queueVars, cur,
                   more, reuse, failed>>

\* merge_unmerge_callback_ clears the render context of surface_, if it is
\* set, before mutex_ is released.
MergeUnmergeCallback(t) ==
    /\ \/ Here(t, "mergeCallback") /\ Go(t, "cleanup")
       \/ Here(t, "decrementCallback") /\ Go(t, "end")
    /\ locked' = [locked EXCEPT ![cur[t]] = Nobody]
    /\ UNCHANGED <<callers, lease, enabled, subsumed, sharedLock, engineVars,
                   queueVars, cur, more, reuse, failed>>

\* Fault: the term is added to what is left of the lease.
ExtendLeaseBy(t) ==
    LET e == cur[t] IN
    /\ Here(t, "extend")
    /\ Free(e)
    /\ sharedLock = Nobody
    /\ IF enabled
       THEN /\ callers' = callers \cup {e}
            /\ lease' = [lease EXCEPT ![e] = @ + Lease]
       ELSE UNCHANGED <<callers, lease>>
    /\ \E resubmit \in BOOLEAN : more' = [more EXCEPT ![t] = resubmit]
    /\ Go(t, "raster")
    /\ UNCHANGED <<enabled, subsumed, locked, sharedLock, engineVars,
                   queueVars, cur, reuse, failed>>

\* ExtendLeaseTo; the frame is resubmitted when its surface switches.
ExtendLease(t) ==
    LET e == cur[t] IN
    /\ Here(t, "extend")
    /\ Free(e)
    /\ sharedLock = Nobody
    /\ IF enabled
       THEN ExtendLeaseTo(e)
       ELSE UNCHANGED <<callers, lease>>
    /\ \E resubmit \in BOOLEAN : more' = [more EXCEPT ![t] = resubmit]
    /\ Go(t, "raster")
    /\ UNCHANGED <<enabled, subsumed, locked, sharedLock, engineVars,
                   queueVars, cur, reuse, failed>>

\* The rest of DrawToSurfacesUnsafe: raster and submit the frame, unless it
\* was skipped, keep the tree if that succeeds, and let the GPU context clean
\* up.
FinishRaster(t) ==
    /\ \/ /\ Here(t, "raster")
          /\ ~more[t]
          /\ last' = [last EXCEPT ![cur[t]] = TRUE]
       \/ /\ Here(t, "raster") \/ Here(t, "cleanup")
          /\ UNCHANGED last
    /\ Go(t, IF reuse[t] THEN "end" ELSE "decrement")
    /\ UNCHANGED <<mergerVars, hasMerger, surface, used, view, queueVars, cur,
                   more, reuse, failed>>

\* RasterThreadMerger::DecrementLease, up to the call of the shared merger.
DecrementCheck(t) ==
    LET e == cur[t] IN
    /\ Here(t, "decrement")
    /\ Free(e)
    /\ IF IsMerged /\ enabled
       THEN locked' = [locked EXCEPT ![e] = t] /\ Go(t, "decrementShared")
       ELSE UNCHANGED locked /\ Go(t, "end")
    /\ UNCHANGED <<callers, lease, enabled, subsumed, sharedLock, engineVars,
                   queueVars, cur, more, reuse, failed>>

\* Fault: the leases are compared with zero before the decrement.
DecrementSharedLate(t) ==
    LET e == cur[t] IN
    /\ Here(t, "decrementShared")
    /\ sharedLock = Nobody
    /\ lease' = IF lease[e] > 0 THEN [lease EXCEPT ![e] = @ - 1] ELSE lease
    /\ IF IsAllLeaseTermsZero
       THEN /\ sharedLock' = t
            /\ Go(t, "decrementUnmerge")
            /\ UNCHANGED locked
       ELSE /\ locked' = [locked EXCEPT ![e] = Nobody]
            /\ Go(t, "end")
            /\ UNCHANGED sharedLock
    /\ UNCHANGED <<callers, enabled, subsumed, engineVars, queueVars, cur,
                   more, reuse, failed>>

\* SharedThreadMerger::DecrementLease.  Its FML_CHECK wants the caller's
\* lease to be positive.
DecrementShared(t) ==
    LET e == cur[t]
        left == IF e \in callers /\ lease[e] > 0
                THEN [lease EXCEPT ![e] = @ - 1] ELSE lease
        allZero == \A c \in callers : left[c] = 0
    IN
    /\ Here(t, "decrementShared")
    /\ sharedLock = Nobody
    /\ IF e \in callers /\ lease[e] = 0
       THEN failed' = "lease" /\ UNCHANGED <<lease, locked, sharedLock, at>>
       ELSE /\ lease' = left
            /\ IF allZero
               THEN /\ sharedLock' = t
                    /\ Go(t, "decrementUnmerge")
                    /\ UNCHANGED locked
               ELSE /\ locked' = [locked EXCEPT ![e] = Nobody]
                    /\ Go(t, "end")
                    /\ UNCHANGED sharedLock
            /\ UNCHANGED failed
    /\ UNCHANGED <<callers, enabled, subsumed, engineVars, queueVars, cur,
                   more, reuse>>

\* The last lease to reach zero unmerges the threads, and Draw will post
\* itself once more: kUnmergedNow.
DecrementUnmerge(t) ==
    /\ Here(t, "decrementUnmerge")
    /\ UnMergeNow
    /\ sharedLock' = Nobody
    /\ more' = [more EXCEPT ![t] = TRUE]
    /\ Go(t, "decrementCallback")
    /\ UNCHANGED <<callers, lease, enabled, locked, engineVars, queueVars,
                   cur, reuse>>

\* EndFrame; Draw posts itself again if there is more to do.
EndFrame(t) ==
    LET e == cur[t] IN
    /\ Here(t, "end")
    /\ used' = [used EXCEPT ![e] = FALSE]
    /\ queue' = IF more[t] /\ ~reuse[t]
                THEN Append(queue, <<"draw", e>>) ELSE queue
    /\ more' = [more EXCEPT ![t] = FALSE]
    /\ reuse' = [reuse EXCEPT ![t] = FALSE]
    /\ Go(t, "idle")
    /\ UNCHANGED <<mergerVars, hasMerger, surface, last, view, overlap,
                   outlasted, cur, failed>>

-----------------------------------------------------------------------------
(* Shell::OnPlatformViewCreated *)

\* Fault: the merger stays enabled.
LeaveThreadMergerEnabled(e) == UNCHANGED enabled

\* Disable() of the engine's merger, if the first Setup has made one.
DisableThreadMergerIfNeeded(e) ==
    IF hasMerger[e] THEN Disable(e) ELSE UNCHANGED enabled

OnPlatformViewCreated(e) ==
    /\ Here("platform", "idle")
    /\ ~view[e]
    /\ view' = [view EXCEPT ![e] = TRUE]
    /\ DisableThreadMergerIfNeeded(e)
    /\ cur' = [cur EXCEPT !["platform"] = e]
    /\ Go("platform", "created")
    /\ UNCHANGED <<callers, lease, subsumed, locked, sharedLock, hasMerger,
                   surface, last, used, queueVars, more, reuse, failed>>

\* should_post_raster_task: the IO thread posts the raster task, else it runs
\* here.  Either way nobody waits for the raster thread.
RunOrPostSetup ==
    /\ Here("platform", "created")
    /\ IF subsumed
       THEN Go("platform", "setup") /\ UNCHANGED queue
       ELSE /\ queue' = Append(queue, <<"setup", cur["platform"]>>)
            /\ Go("platform", "idle")
    /\ UNCHANGED <<mergerVars, engineVars, overlap, outlasted, cur, more,
                   reuse, failed>>

EnableThreadMergerIfNeeded(e) ==
    IF hasMerger[e] THEN Enable(e) ELSE UNCHANGED enabled

\* The raster task: enable the merger, then Rasterizer::Setup.
SetupEnable(t) ==
    /\ Here(t, "setup")
    /\ EnableThreadMergerIfNeeded(cur[t])
    /\ Go(t, "setSurface")
    /\ UNCHANGED <<callers, lease, subsumed, locked, sharedLock, engineVars,
                   queueVars, cur, more, reuse, failed>>

Setup(t) ==
    /\ Here(t, "setSurface")
    /\ surface' = [surface EXCEPT ![cur[t]] = TRUE]
    /\ hasMerger' = [hasMerger EXCEPT ![cur[t]] = TRUE]
    /\ Go(t, "idle")
    /\ UNCHANGED <<mergerVars, last, used, view, queueVars, cur, more, reuse,
                   failed>>

-----------------------------------------------------------------------------
(* Shell::OnPlatformViewDestroyed *)

OnPlatformViewDestroyed(e) ==
    /\ Here("platform", "idle")
    /\ view[e]
    /\ AwaitSetup => surface[e]
    /\ view' = [view EXCEPT ![e] = FALSE]
    /\ DisableThreadMergerIfNeeded(e)
    /\ cur' = [cur EXCEPT !["platform"] = e]
    /\ Go("platform", "destroyed")
    /\ UNCHANGED <<callers, lease, subsumed, locked, sharedLock, hasMerger,
                   surface, last, used, queueVars, more, reuse, failed>>

\* Fault: the task is posted, whichever thread serves the raster queue.
PostTeardown ==
    /\ Here("platform", "destroyed")
    /\ queue' = Append(queue, <<"teardown", cur["platform"]>>)
    /\ Go("platform", "latch")
    /\ UNCHANGED <<mergerVars, engineVars, overlap, outlasted, cur, more,
                   reuse, failed>>

\* RunNowOrPostTask of the raster task; if posted, wait on the latch.
RunOrPostTeardown ==
    /\ Here("platform", "destroyed")
    /\ IF subsumed
       THEN Go("platform", "teardown") /\ UNCHANGED queue
       ELSE /\ queue' = Append(queue, <<"teardown", cur["platform"]>>)
            /\ Go("platform", "latch")
    /\ UNCHANGED <<mergerVars, engineVars, overlap, outlasted, cur, more,
                   reuse, failed>>

\* The raster task: enable the merger, then Rasterizer::Teardown.
TeardownEnable(t) ==
    /\ Here(t, "teardown")
    /\ EnableThreadMergerIfNeeded(cur[t])
    /\ Go(t, "resetSurface")
    /\ UNCHANGED <<callers, lease, subsumed, locked, sharedLock, engineVars,
                   queueVars, cur, more, reuse, failed>>

\* Fault: unmerges whether the threads are merged or not.
TeardownUnmerges(t) ==
    LET e == cur[t] IN
    /\ Here(t, "resetSurface")
    /\ hasMerger[e] => Free(e)
    /\ surface' = [surface EXCEPT ![e] = FALSE]
    /\ last' = [last EXCEPT ![e] = FALSE]
    /\ Go(t, "unmerge")
    /\ UNCHANGED <<mergerVars, hasMerger, used, view, queueVars, cur, more,
                   reuse, failed>>

\* surface_.reset() and view_records_.clear(), then IsMerged().
TeardownSurface(t) ==
    LET e == cur[t] IN
    /\ Here(t, "resetSurface")
    /\ hasMerger[e] => Free(e)
    /\ surface' = [surface EXCEPT ![e] = FALSE]
    /\ last' = [last EXCEPT ![e] = FALSE]
    /\ Go(t, IF hasMerger[e] /\ IsMerged THEN "unmerge" ELSE "signal")
    /\ UNCHANGED <<mergerVars, hasMerger, used, view, queueVars, cur, more,
                   reuse, failed>>

\* RasterThreadMerger::UnMergeNowIfLastOne takes mutex_ and looks at
\* enabled_.  The callback at its end does nothing, surface_ being reset.
UnMergeNowIfLastOne(t) ==
    LET e == cur[t] IN
    /\ Here(t, "unmerge")
    /\ Free(e)
    /\ IF enabled
       THEN locked' = [locked EXCEPT ![e] = t] /\ Go(t, "erase")
       ELSE UNCHANGED locked /\ Go(t, "signal")
    /\ UNCHANGED <<callers, lease, enabled, subsumed, sharedLock, engineVars,
                   queueVars, cur, more, reuse, failed>>

\* SharedThreadMerger::UnMergeNowIfLastOne erases the caller's lease, ...
EraseLease(t) ==
    LET e == cur[t]
        rest == callers \ {e}
    IN
    /\ Here(t, "erase")
    /\ sharedLock = Nobody
    /\ callers' = rest
    /\ IF \A c \in rest : lease[c] = 0
       THEN /\ sharedLock' = t
            /\ Go(t, "teardownUnmerge")
            /\ UNCHANGED locked
       ELSE /\ locked' = [locked EXCEPT ![e] = Nobody]
            /\ Go(t, "signal")
            /\ UNCHANGED sharedLock
    /\ UNCHANGED <<lease, enabled, subsumed, engineVars, queueVars, cur, more,
                   reuse, failed>>

\* ... and unmerges the threads if that was the last one.
TeardownUnmerge(t) ==
    /\ Here(t, "teardownUnmerge")
    /\ UnMergeNow
    /\ sharedLock' = Nobody
    /\ locked' = [locked EXCEPT ![cur[t]] = Nobody]
    /\ Go(t, "signal")
    /\ UNCHANGED <<callers, lease, enabled, engineVars, queueVars, cur, more,
                   reuse>>

\* The IO thread signals the latch; the platform thread returns.
SignalLatch(t) ==
    /\ Here(t, "signal")
    /\ at' = [at EXCEPT ![t] = "idle", !["platform"] = "idle"]
    /\ UNCHANGED <<mergerVars, engineVars, queueVars, cur, more, reuse,
                   failed>>

-----------------------------------------------------------------------------
DrawStep(t) ==
    \/ DrawCheckThread(t) \/ ConsumeNothing(t) \/ ConsumeFrame(t)
    \/ DrawLastLayerTrees(t) \/ BeginFrame(t)
    \/ PrerollPlain(t) \/ PrerollPlatformViews(t)
    \/ MergeCheck(t) \/ MergeShared(t) \/ MergeLease(t)
    \/ MergeUnmergeCallback(t) \/ ExtendLease(t) \/ FinishRaster(t)
    \/ DecrementCheck(t) \/ DecrementShared(t) \/ DecrementUnmerge(t)
    \/ EndFrame(t)

LifecycleStep(t) ==
    \/ SetupEnable(t) \/ Setup(t)
    \/ TeardownEnable(t) \/ TeardownSurface(t) \/ UnMergeNowIfLastOne(t)
    \/ EraseLease(t) \/ TeardownUnmerge(t) \/ SignalLatch(t)

ThreadStep(t) == StartTask(t) \/ DrawStep(t) \/ LifecycleStep(t)

Next ==
    \/ \E t \in Threads : ThreadStep(t)
    \/ RunOrPostSetup
    \/ RunOrPostTeardown
    \/ \E e \in Engines :
        \/ PostDraw(e) \/ PostDrawLast(e)
        \/ OnPlatformViewCreated(e) \/ OnPlatformViewDestroyed(e)

Spec == Init /\ [][Next]_vars

\* Threads run.  No view has to be created or destroyed and no frame drawn.
Fairness ==
    /\ \A t \in Threads : WF_vars(ThreadStep(t))
    /\ WF_vars(RunOrPostSetup)
    /\ WF_vars(RunOrPostTeardown)

FairSpec == Spec /\ Fairness

-----------------------------------------------------------------------------
(* Properties *)

Labels == {"idle", "draw", "drawLast", "consume", "begin", "preroll", "merge",
           "mergeShared", "mergeLease", "mergeCallback", "extend", "raster",
           "cleanup", "decrement", "decrementShared", "decrementUnmerge",
           "decrementCallback", "end", "created", "setup", "setSurface",
           "destroyed", "latch", "teardown", "resetSurface", "unmerge",
           "erase", "teardownUnmerge", "signal"}

Tasks == {"draw", "drawLast", "setup", "teardown"} \X Engines

\* Every variable has its type; no lease exceeds its term.
TypeOK ==
    /\ callers \subseteq Engines
    /\ lease \in [Engines -> 0..Lease]
    /\ enabled \in BOOLEAN
    /\ subsumed \in BOOLEAN
    /\ locked \in [Engines -> Threads \cup {Nobody}]
    /\ sharedLock \in Threads \cup {Nobody}
    /\ hasMerger \in [Engines -> BOOLEAN]
    /\ surface \in [Engines -> BOOLEAN]
    /\ last \in [Engines -> BOOLEAN]
    /\ used \in [Engines -> BOOLEAN]
    /\ view \in [Engines -> BOOLEAN]
    /\ queue \in Seq(Tasks)
    /\ overlap \in 0..Lease
    /\ outlasted \in BOOLEAN
    /\ at \in [Threads -> Labels]
    /\ cur \in [Threads -> Engines]
    /\ more \in [Threads -> BOOLEAN]
    /\ reuse \in [Threads -> BOOLEAN]
    /\ failed \in {"none", "lease", "unmerge"}

\* The leases and the task queues, which MergeWithLease, DecrementLease and
\* UnMergeNowIfLastOne change one after the other, agree on whether the threads
\* are merged whenever no thread is between the two changes: otherwise Draw,
\* which looks at the leases, would refuse every frame on the thread that the
\* queues give it.  The exception is a Draw that merges and then takes longer
\* than the lease: its own DecrementLease may use up the lease while the
\* platform thread is about to extend it.
LeaseMatchesQueues ==
    failed = "none" /\ sharedLock = Nobody /\ ~outlasted
        => (subsumed <=> IsMerged)

\* From SetUsedThisFrame to the end of the merge callback, or to the submission
\* of the frame.
Painting == {"begin", "preroll", "merge", "mergeShared", "mergeLease",
             "mergeCallback", "extend", "raster"}

\* The surface of a frame is not reset by Teardown on the other thread while
\* the frame is painted, nor before the merge callback has cleared its context,
\* although the platform thread serves the raster queue as soon as the queues
\* are merged.  (What comes after the callback has no such protection.)
SurfaceOutlivesFrame ==
    ~outlasted => \A t \in Threads : at[t] \in Painting => surface[cur[t]]

\* "lease_term should always be positive when merged": the FML_CHECK of
\* SharedThreadMerger::DecrementLease, even where no Draw outlasts a lease.
LeasePositive == ~outlasted => failed # "lease"

\* No FML_CHECK of SharedThreadMerger aborts the process: "lease_term should
\* always be positive when merged", and queues that are to be unmerged are
\* merged; unless the Draw that merged took longer than the lease.
NoCheckFails == ~outlasted => failed = "none"

\* OnPlatformViewDestroyed disables the merger since an "incorrect assumption
\* can lead to deadlock": while it waits for the latch, the raster queue is
\* not one that only the waiting thread serves.
LatchServed == at["platform"] = "latch" => ~subsumed

\* "Once disabled, any call to |MergeWithLease| or |UnMergeNowIfLastOne|
\* results in a noop": the threads stay as they are until Enable is called,
\* also by a call that was already on its way.
FrozenWhileDisabled == [][~enabled => UNCHANGED subsumed]_vars

\* A platform view that is destroyed is torn down and the call returns, unless
\* an FML_CHECK aborts the process (see NoCheckFails).
DestroyReturns ==
    at["platform"] = "latch" ~> at["platform"] = "idle" \/ failed # "none"

\* FML_DCHECK(!external_view_embedder_->GetUsedThisFrame()): the previous
\* frame of the embedder has ended when the next one begins.
UsedClear == \A t \in Threads : at[t] = "begin" => ~used[cur[t]]
=============================================================================
