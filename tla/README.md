# Flutter engine: its concurrent core in TLA+

This directory holds TLA+ models of the concurrent core of the engine, the TLC
configurations that check them, and TLAPS proofs of their main invariants.
`PROJECT.json` is the index: components, runs, the map from definitions to source
lines, hazards, findings and theorems.

    tlc -workers 2 -config TaskQueues_threads.cfg MCTaskQueues
    tlc -workers 2 -config ThreadMerger_view.cfg ThreadMerger
    tlc -workers 2 -config FramePipeline_frames.cfg FramePipeline
    tlc -workers 2 -config ConcurrentMessageLoop_pool.cfg ConcurrentMessageLoop
    tlc -workers 2 -config VulkanReclamation_vulkan.cfg VulkanReclamation
    tlapm TaskQueuesProofs.tla
    tlapm FramePipelineProofs.tla
    tlapm FrameRequestProofs.tla
    tlapm ThreadMergerProofs.tla
    tlapm OneEngineProofs.tla
    tlapm ConcurrentMessageLoopProofs.tla
    tlapm VulkanReclamationProofs.tla

## 1. Inventory

An engine runs on four threads: platform, UI (Dart), raster and IO. Each has an
`fml::MessageLoop` that drains one queue of `fml::MessageLoopTaskQueues`; everything the
threads tell each other is a task in one of those queues, a few semaphores, a latch and a
few flags. On Android the raster queue is *merged* into the platform queue, at run time,
while platform views are on the screen.

| Component | State | Operations | Talks to | Hard because |
|---|---|---|---|---|
| `MessageLoopTaskQueues`, `TaskSource` | entries with two heaps, pause count, observers, `owner_of`, `subsumed_by`; `order_` | register, get next, merge, unmerge, pause, resume, dispose, observers | wakes the loops | a wake-up is for whichever loop serves the queue *now*; several heaps are one ordered stream |
| `MessageLoopImpl` and platform loop | `terminated_`, timer, thread-local grade | post, flush, run, terminate | task queues | acts between two critical sections; shutdown races posting |
| `SharedThreadMerger`, `RasterThreadMerger` | a lease per engine, `enabled_`, the mutex of each engine | merge, extend, decrement, unmerge, enable, disable | task queues, Rasterizer, embedder | two records of one fact (leases, queues), several engines, locks per engine |
| `Rasterizer` | surface, merger, embedder's frame flag | setup, teardown, draw | pipeline, merger | a draw changes the thread it runs on and posts itself again |
| `Shell` (view life cycle) | platform view, latch | view created, view destroyed | posts to raster, IO and UI | blocks the platform thread on the raster queue |
| `Pipeline` | two semaphores, a deque under a mutex | produce, commit, consume | Animator, Rasterizer | semaphores and deque change at different moments |
| `Animator` | continuation, request semaphore, flags | request, begin, render | pipeline, vsync waiter | a request passes through four holders; retries when full |
| `VsyncWaiter` | primary and secondary callbacks | await, schedule, fire | UI queue | fires on another thread |
| `ConcurrentMessageLoop` | shared and per-worker tasks, `shutdown_` | post, post to all, work, terminate, destroy | decoders, the Dart VM | notifies without the mutex; shutdown with tasks queued |
| `SmoothPointerDataDispatcher` | the buffered packet, two flags | dispatch, secondary vsync callback | vsync waiter, framework | a packet waits for a callback that itself dispatches; a burst may end at any moment |
| Impeller's Vulkan reclamation: `CommandEncoderVK`, `CommandPoolVK`, `CommandPoolRecyclerVK`, `FenceWaiterVK`, `ResourceManagerVK`, `ContextVK` | shared and weak references, wait set, reclaimables, recycled pools | encode, submit, fence signalled, reclaim, recycle, shut down, destroy | GPU, two threads of its own | destructors run on whichever thread drops the last reference, the context's own threads included; waiting for a fence may fail |
| Rest of Shell, runtime, dart:ui, flow, display_list, rest of impeller, embedders | | | | not modelled, see section 8 |

What makes the parts correct:

* task queues and loops: no lost wake-up; start order; a consistent merge relation; a loop
  that is told to stop stops; nothing is left in a queue nobody serves;
* thread merging: leases and queues agree; a frame keeps its surface while it is painted;
  no `FML_CHECK` fails; the platform thread never waits for itself;
* frames: pipeline slots and the frame request are conserved; frames are drawn in order;
  every frame is consumed and every request served;
* pointer events: in order, at most one delivery late, and the last one of a burst arrives;
* worker pool: no lost notification; it is known which tasks a shutdown drops; the
  destructor returns;
* Vulkan reclamation: no command pool is reset, reused or destroyed while the GPU executes
  one of its buffers; each is in one place and comes back; each fence's callback is called,
  once; shutting down ends, and no thread joins itself.

`PROJECT.json` lists the hazards behind these, each at its line.

## 2. Modules

### TaskQueues (and MCTaskQueues)

Models `fml/message_loop_task_queues.cc`, `task_source.cc`, `delayed_task.cc`,
`message_loop_impl.cc` and the Linux loop with its timer.

Each method of `MessageLoopTaskQueues` holds `queue_mutex_` throughout and is one action
(`RegisterTask`, `Merge`, `Unmerge`, `ResumeSecondarySource`, ...). A queue id also names
the thread whose loop owns it. `phase` says where that thread is in `DoRun` and
`FlushTasks`: *waiting* on its timer, *flushing* (about to call `GetNextTaskToRun`),
*running* a task, *notifying* observers, *disposing*, *done*. Other threads interleave at
each of these points. `PostTask` is two actions, the test of `terminated_` and the
registration, because nothing orders them with the shutdown of the loop.

Data: `tasks[q]` is the set of a queue's tasks, `Heap` the part of it in the primary or the
secondary heap, by grade. `Greater` is `DelayedTask::operator>`, `Earliest` the `top()` of a
`priority_queue`; this is the only place where a least element is chosen. Which of the two
tops a source offers (`Top`) and which of the sources offers the next task (`UpdateTop`, folded
over the queue and those it owns by `TopTasks`) are the comparisons of the code, and
`StartsInOrder` says that they find the first task of all heaps. Queue ids are numbers
(`0..MaxId`) because `owner_of` is a `std::set` that is visited in their order. The primary
heap holds two grades, `kUserInteraction` and `kUnspecified`; only unit tests register the
former, but the dispatcher takes it and so does `RegisterGraded`. The clock is discrete.
`timer[q]` is the time the loop's wakeable is armed for; each wake-up overwrites it, as
`timerfd_settime` does. `GradeAfterPop` follows the code in reading the grade through a
reference to the heap's front after the pop: it may be the grade of the next task of the same
heap.

Assumptions about callers, taken from how the engine uses the class: a queue is disposed
of only by the destructor of its loop, once nobody posts to it, and not while merged; a
loop that was told to terminate is not subsumed; only UI queues are paused
(`VsyncWaiter`) and only the raster queue is subsumed (`PausedQueuesNotSubsumed`).
Observers are added and removed by tasks of the loop itself, as `MessageLoop` demands.

### ThreadMerger

Models both merger classes with `Rasterizer::Draw`, `DrawLastLayerTrees`, `Setup`, `Teardown`,
the Android view embedder's `PostPrerollAction`, and the creation and destruction of a
platform view in `Shell`. `at[t]` is the next step of the platform or raster thread.

Each change of a lease, of the task queues or of `enabled_` is a step of its own, also within
one critical section: the mutex of a `RasterThreadMerger` (`locked`) does not keep other
engines out, and that of the `SharedThreadMerger` (`sharedLock`) does not keep out readers,
which call `IsMergedUnSafe` and `IsEnabledUnSafe` without it. So `MergeWithLease` is
`MergeCheck`, `MergeShared` (queues), `MergeLease` (lease) and `MergeUnmergeCallback`;
`DecrementLease` is `DecrementCheck`, `DecrementShared` (lease), `DecrementUnmerge` (queues) and
the callback; `UnMergeNowIfLastOne` is that action, `EraseLease` and `TeardownUnmerge`. The merge
callback clears the render context of `surface_` with the engine's mutex held; in `Teardown`
`surface_` is reset by then and it does nothing.

`subsumed` abstracts the merge relation of `TaskQueues` to the one pair used here, and
`StartTask` gives a raster task to the thread that relation says. A failed `FML_CHECK` is
recorded in `failed` and stops all threads.

After a merge the platform thread starts raster tasks while the raster thread finishes the
Draw that merged, for as long as that takes. `overlap` counts the tasks it starts meanwhile, and
`outlasted` records that they were about as many as the lease has frames. Then the tail of that
Draw decrements a lease that is no longer its own, and `NoCheckFails` and `LeaseMatchesQueues`
can fail; both say so, and nothing in the model prevents it. Both are history variables.

`AwaitSetup` restricts behaviour: a view is destroyed only after its surface was set up (FALSE
in the run `latch`). Engines share one `SharedThreadMerger`: the parent has been set up before
`Shell::Spawn`. That Draw posts itself when the pipeline holds more frames is left to
`PostDraw`, which posts the same task.

`DrawLastLayerTrees` shares the steps of `Draw` from `BeginFrame` on; `reuse[t]` tells that
thread `t` is in it: it asks for no thread, decrements no lease and does not post itself
again. `last[e]` says that the engine has a tree to draw again.

### FrameQueue and FramePipeline

`FrameQueue` is what `Pipeline` promises: a first-in-first-out queue of at most `Depth`
frames, with slots that are reserved before and freed after, and in which a frame may be
put back if nothing newer came. Every operation is one step; there is no semaphore.

`FramePipeline` models `shell/common/pipeline.h`, `animator.cc`, `vsync_waiter.cc`,
`pointer_data_dispatcher.cc` and the consuming part of `Rasterizer::Draw`. Its definition
`Queue` instantiates `FrameQueue` with the refinement mapping: a reserved slot is the
continuation of the Animator or of a retry, and the consumer has a frame from the pop to
`empty_.Signal()`; where `available_` lags behind the deque does not show.

The UI thread takes tasks from `uiTasks`; while `ui` is *building*
the framework runs inside `BeginFrame`; *pushed* is the point between the push of a frame
and `available_.Signal()`. Two threads consume. `server` is the one that serves the raster
queue and starts its Draws; a Draw that merges (`DoDrawMerges`) makes it the platform thread and
then goes on, on the raster thread, with `empty_.Signal()`, `ProduceIfEmpty`,
`ProducerCommitIfEmpty` and `available_.Signal()`, one semaphore or critical section at a time,
while the platform thread consumes. `DoDrawUnmerges` and `TeardownUnmerges` are the two ways
back. When the threads merge and unmerge is otherwise free here, and so is whether DoDraw ends
with a frame drawn, dropped or retried: it stands for what `ThreadMerger` and the GPU decide. A
Draw that yields because it is on the wrong thread is not in this model: with one engine that
happens only once a Draw has outlasted its lease. Frames are numbered in the order they are
built. `missed` is a history variable: a Draw has found `available_` at zero although the
queue holds a frame. The destruction of the Animator is not in this model.

That the threads are merged before the frame is put back is the Android embedder's order
(`PostPrerollAction`, within DoDraw). The iOS embedder merges in `EndFrame`, after it.

Pointer packets are numbered as the shell posts them. The dispatcher makes up to three
calls of the waiter and the framework within one UI task; since a vsync may come between
them, `ui` has a value for each such point. The Animator's callback for the trace flow ids
of a packet is the other user of the secondary callbacks. `VsyncWaiter` posts all secondary
callbacks with the vsync and leaves out whether the UI queue's microtasks are paused
meanwhile, which is in `TaskQueues`.

### ConcurrentMessageLoop

Models `fml/concurrent_message_loop.cc`. A critical section of `tasks_mutex_` is one step;
the set of workers in phase *waiting* is the wait set of `tasks_condition_`, from which
`notify_one` takes any and `notify_all` every worker, and which a worker may leave by
itself. `PostTask` notifies after it has released the mutex: a thread in between is in
`notifying`. Workers post from the tasks they run. `last` is the round of a worker that has
read `shutdown_now`. `left` is a history variable, the length of the queue at the shutdown.
The last reference to the loop is taken to be dropped by a thread outside the pool.

### VulkanReclamation

Models how `impeller/renderer/backend/vulkan` gets a command pool back: `command_encoder_vk.cc`,
`command_pool_vk.cc`, `fence_waiter_vk.cc`, `resource_manager_vk.cc` and the shutdown and
destruction of `ContextVK`.

Reference counts are the model's subject. `held[e]` says who has the tracked objects of an
encoder (the encoder, the callback in the wait set, a callback being called); `tls` and
`tracked` are the references to a `CommandPoolVK`; `References` are the strong references
to the context. Giving up the last one starts the destructor on the thread that did, in
steps (`dropping` and `stage` for a `CommandPoolVK`, `context` and `destroyer` for the
context, `erased` for entries of the wait set, `joining` for a join), so that other threads
run between the `lock()` of a weak pointer, the hand-over of the pool and the release of
the reference. `waiter` and `manager` follow the loops of the two threads, one critical
section at a time.

A wait for the fences may fail at any time (`WaitFails`): the code ends the waiter's thread on
every result but success and timeout, so also for lack of memory, while the GPU goes on.
`GivenUp` says that after such a failure the waiter was told to end: the thread that destroys
it then destroys the entries of buffers that may be pending. The loss of the device is such a
failure after which the GPU executes nothing more; `Signal` of each buffer covers that. A
submission that fails is `SubmitFails`; the refusal of a fence is a branch of `AddFence`.

The owner may call `Shutdown` and then let go of the context, or let go of it at once
(`shutdown` = *abandoned*). Only `shell/testing/tester_main.cc:209`,
`impeller/playground/playground.cc:143` and unit tests call `Shutdown`; the embedder under
`shell/platform/android` does not, so the latter is how the engine ends there.

Assumptions, from how the code is used: a thread that encodes has a strong reference to the
context while it has encoders; none are made once `Shutdown` has begun; a thread's map
entry is given up by `CommandPoolRecyclerVK::Dispose` or when the context is destroyed, not
by the exit of the thread; the `waitIdle` of `~ContextVK`, whose result the code ignores,
succeeds.

## 3. Runs

| Run | Instance | Checks | Result |
|---|---|---|---|
| `threads` | 2 queues that merge, 3 tasks of 3 grades, 1 pause, 1 observer, shutdown | `TypeOK`, `MergeTopology`, `ArmedForPending`, `CurrentGradeOfRightHeap`, `StartsInOrder` | holds |
| `live` | 2 fair threads, 2 tasks, merging | `PostedTaskRuns`, `TerminatedLoopEnds` | holds |
| `view` | 1 engine, lease 4, fair threads | `TypeOK`, `NoCheckFails`, `LatchServed`, `LeaseMatchesQueues`, `SurfaceOutlivesFrame`, `FrozenWhileDisabled`, `DestroyReturns` | holds |
| `lease` | 2 engines | `LeasePositive` | violated |
| `latch` | 1 engine, `AwaitSetup` FALSE | `LatchServed` | violated |
| `used` | 1 engine | `UsedClear` | violated |
| `frames` | depth 2, 3 frames, fair | `TypeOK`, `SlotsConserved`, `AvailableCountsQueue`, `ImplementsFrameQueue`, `FrameConsumed`, `RequestServed` | holds |
| `pointers` | depth 1, 3 packets, no frame rendered, fair | `OneRequest`, `CallbackComes`, `OneEventLate`, `PacketDispatched` | holds |
| `vulkan` | 1 encoding thread, 2 encoders, 2 pools, failing waits, with or without `Shutdown`, fair | `TypeOK`, `PendingKeepsPool`, `PoolInOnePlace`, `CalledOnce`, `NoSelfJoin`, `NothingLeft`, `FenceServed`, `PoolComesBack`, `ContextEnds` | holds |
| `pool` | 3 workers, 1 poster, 5 tasks, 1 for all, fair | `TypeOK`, `NoTaskBesideIdleWorker`, `SleepersHaveNothing`, `DrainAtShutdown`, `TaskTaken`, `DestructorReturns` | holds |
| `order` | depth 2, 2 frames | `DrawsInOrder` | violated |
| `stranded` | depth 2, 3 frames, fair | `EventuallyConsumed` | violated |

Every property of a passing run is shown to depend on the code by a mutant: an operator
marked `Fault:` in the modules that changes one definition the way a bug would, with which
TLC finds the property violated.

Deadlock is checked in `frames`, `pointers`, `order`, `stranded` and `pool`. In the others the system may
really stop: all loops have shut down and the bound on tasks is used up, an `FML_CHECK` has
aborted the process, or the context is destroyed.

### Bounds

* Two queues, because the engine only ever merges its raster queue; that no owner is
  subsumed in turn with more of them is proved (`TopologyCorrect`). Two tasks are enough
  for a wake-up to be overwritten by an earlier or later one; two times (plus *never*) tell
  due from not due. `threads` has three tasks: one running, two to order.
* `MaxPauses` 1: pauses only count; the proofs hold for any number.
* Lease 3 or 4 in place of 10: with 4, two platform tasks start beside the Draw that merged
  before it has outlasted the lease; the model tells apart only full, partly used and zero. The
  theorems hold for any lease of at least 2.
* Depth 2 is the depth the Animator uses with separate threads; three frames
  fill the pipeline while one is drawn, retried or waits to be built. The proofs hold for
  any depth.
* Three packets: one dispatched, one buffered, one that arrives. Frame requests share the vsync
  with the dispatcher; the frames they lead to are begun and not rendered here, since the
  consumer has nothing to do with packets (`frames` in turn sends none).
* Two encoders of one thread share a pool or have one each, and one may be encoding while
  the other's fence is waited for; destructors run on four threads (encoding, owner, waiter,
  manager). A second encoding thread or a third pool object takes the liveness check past a
  few minutes; the proofs of the invariants hold for any number of each.
* Three workers: one asleep, one awake, one at work. Five tasks are two more than the
  workers can take on their last round; workers post as well, so one outside thread is
  enough for several to be in `PostTask`. The proofs hold for any pool.
* `MaxQueue` and `MaxTasks` bound what the framework posts, never what the code itself
  posts.

### Fairness

Weak fairness of each thread's own steps: a thread that has something to do does it, since
the operating system schedules it and tasks return. In `TaskQueues` time passes. In
`FramePipeline` the platform delivers a vsync it was asked for, and frames are not retried for
ever: `SF_vars(FrameDone)`. The Android embedder claims the latter
(`external_view_embedder.cc:227`, "Eventually, the frame is submitted once this method returns
`kSuccess`"); it must be strong fairness since between two tries the frame is in the queue and
nobody draws. The threads may be merged and unmerged for ever all the same. In `ConcurrentMessageLoop`
a worker at work returns, and a thread inside `PostTask` gets to its notification. In
`VulkanReclamation` the GPU finishes its work, the threads of the waiter and the manager
run, destructors and joins proceed, a frame that was begun ends, and an owner that has begun
`Shutdown` goes on to let the context go; no wait has to fail. Nobody has to post, merge, terminate, request a
frame, render, encode, shut down or create a view. `PostedTaskRuns` assumes in addition
that queues are not merged and unmerged for ever: a loop that is subsumed again whenever it
is about to run a task never does, but in the engine a merge lasts for a lease.

## 4. What the violated runs show

* **lease**: engine A's lease reaches zero and the threads unmerge, A's entry stays in the
  map; engine B merges; A draws a frame without platform views and `DecrementLease` finds
  its lease at zero while merged: the `FML_CHECK` aborts. No Draw outlasts its lease for that.
* **latch**: the view is created and destroyed again before the raster thread has run
  `Setup`. Destruction disables a merger that does not exist yet, or that `Setup` is about
  to enable; a Draw queued between `Setup` and `Teardown` merges; the platform thread
  waits on the latch for a task that only it could run.
* **used**: after a merge the platform thread draws the next frame before the raster thread
  has reset `used_this_frame_`; the `FML_DCHECK` in `DrawToSurfacesUnsafe` fails.
* **order**: the Draw of frame 1 merges the threads and has to draw the frame again. Before the
  raster thread puts it back, the platform thread takes frame 2, which was pushed meanwhile, and
  draws it. Now the queue is empty, `ProducerCommitIfEmpty` finds nothing newer, and frame 1 is
  drawn after frame 2. The comment in `Draw` has it pushed to the front of the queue, which is
  what happens; but a pipeline "for a single consumer" has two at that moment.
* **stranded**: the UI thread pushes frame 2 behind frame 1 and is preempted before
  `available_.Signal()`. The Draw of frame 1 sees frame 2 in the queue and posts another
  Draw, which finds `available_` at zero and ends. Frame 2 was not the first item, so the
  Animator does not post a Draw, and neither does it for any later frame: the pipeline
  fills up and stays full. `frames` shows that this is the only way: frames and requests
  are served unless a Draw was `missed` like that.

## 5. Proofs

`TaskQueuesProofs` (any set of queues, any merge pairs, any bounds; from the named
assumptions of `TaskQueues`):

* `TypeCorrect`: `TypeOK` is inductive once it is known that the next task exists and is a task.
  `EarliestIsLeast` shows that a non-empty heap has a top (from `LeastNat`, the well-ordering of
  the naturals), `TopIsFirst` that the three cases of `Top` find the first of both heaps,
  `UpdateIsBest` that one source more leaves the best of those seen, and `PeekIsFirst` that the
  pass over all sources ends with the first task of all. The pass is a recursive function over
  queue ids; its induction is written out as the absence of a least counterexample.
* `TopologyCorrect`: `MergeTopology` is not inductive alone. It is strengthened to
  `Structure`: a queue that was never created has no entry and no tasks, and queues that
  may be paused are never subsumed.
* `NoLostWakeup`: every step keeps every sleeping loop armed. Either the step re-arms it
  (`WokenIsArmed`) or it serves the same queues with no more tasks than before
  (`StaysArmed`). `Structure` is needed where a task is registered (the loop woken is the
  one that serves the queue) and where microtasks are resumed.
* `GradeCorrect`: the grade read through the heap after the pop is the popped task's or that of
  another task of the same heap (`GradeOfHeap`), and `running` is set with it.
* `OrderCorrect`: a step that starts a task takes what `PeekNextTask` finds, which is the first
  of all (`PeekIsFirst`). That it is due rests on `NowHasCome`: the time that `FlushTasks` read at its start has come.

`FramePipelineProofs` (any depth, any number of frames, two consumers):

* `PipelineInv`, the conjunction of `TypeOK`, `SlotsConserved`, `AvailableCountsQueue` and
  `FrameHeld`, is inductive; none of the parts is alone. That `Consume` finds a front rests
  on the count of `available_`, which the frames that either thread is about to pop, or has put
  back and not signalled, are a part of (`CountsMove`, `FrontToPop`); that a retried frame is a
  frame rests on `FrameHeld`.
* `TypeCorrect`, `NoSlotLost` and `FrontExists` follow. The latter also states that the
  deque is not empty where `Consume` pops.
* `RefinesFrameQueue`: the specification implements `FrameQueue` under the mapping of
  `Queue`. Each step of the UI and raster threads is a step of the queue or leaves it alone.
  `SlotsConserved` gives the guard of `Reserve`, `AvailableCountsQueue` that of `Take`, and
  `FrameHeld` that a frame put back is the one that was taken.
* `SmoothingInOrder`: `OneEventLate` is inductive; that a buffered packet implies a callback
  in progress is what its first part needs.

`FrameRequestProofs` (any depth, frames, packets, bound on the UI queue):

* `RequestIsOne`: `OneRequest` counts tasks in sequences. `AppendPlaces`, `TailPlaces` and
  `ConcatPlaces` say how posting one task, taking one and posting all secondary callbacks
  change such a count, and `AllPosted` that `FireCallback` posts each callback once. With
  the types it is inductive: each step passes the request from one holder to the next
  (`RequestPasses`), shares the vsync (`RequestShares`) or has nothing to do with it.
* `DispatcherIsCalled`: `CallbackComes` is inductive, step by step of the dispatcher; a vsync
  between two of its calls moves the callback from `secondary` to the UI queue.

`ThreadMergerProofs` (any number of engines, from `LeaseAssumption`): `TypeCorrect`. No lease
falls below zero since the `FML_CHECK` comes before the decrement.

`OneEngineProofs` (a single engine; with two, the run `lease` and the unlocked readers refute
what is proved here):

* `DisabledFreezes`: the merger tests `enabled_` and acts in several steps with the engine's
  mutex held. With one engine there is one such mutex, so (`OthersKeepOut`) nobody else changes
  leases, queues or `enabled_` in between, and what was tested still holds (`LocksHeld`). A call
  that was on its way when the merger is disabled has therefore ended before that.
* `LeasesMatch`, `ChecksHold`: the invariant `Core` holds until a Draw outlasts its lease. `Agree`:
  leases and queues disagree only while a thread is between the two changes. `WhoRuns`: the
  platform thread is in a raster task only while merged, and then the raster thread is at most
  in the tail of the Draw that merged. `LeaseLasts`: the lease that tail is about to decrement
  is not used up by the tasks the platform thread has started beside it, each of which takes at
  most one from it. This is where a lease must be longer than the overlap.
* `SurfaceKept` (with `AwaitSetup`): a Teardown on the platform thread needs the mutex for `Enable`,
  so it waits for the merge callback; and only one thread can be painting (`WhoRuns`).
* `LatchIsServed` assumes `AwaitSetup`. The invariant `ViewInv` follows the one task of the
  view's life cycle that is on its way (posted, or being run) and shows that from the moment
  a destruction has disabled the merger it stays disabled until the raster thread begins the
  teardown, and the threads stay unmerged until the latch is signalled.

`ConcurrentMessageLoopProofs` (any finite pool, any posters, any number of tasks):

* `NoLostNotify`: while a worker sleeps, the queue is no longer than the set `Awake` of
  threads about to test the condition or about to notify. Each step changes both sides by
  the same amount, or empties the queue, or leaves nobody asleep. It needs
  `PostsFromTask`: a worker that notifies is not counted twice.
* `AllAreWoken`: `SleepersHaveNothing` is a part of the same invariant.
* `TypeCorrect`: in particular no worker takes a task from an empty queue.
* `LeftAtShutdown`: the queue shrinks by one for each worker on its last round. It needs
  `ShutdownFirst`: nobody is on it before.

`VulkanReclamationProofs` (any number of encoding threads, encoders, pools and objects, with
failing waits, and whether or not the context is shut down). One invariant, `VulkanInv`, since
reference counts, fences and pools depend on each other. Its parts, each with a lemma that every
step keeps it:

* `Owned`, `Last`, `Told`: `Shutdown` has given up what it says; once the last reference to
  the context is gone nobody can make another; a thread that was told to end has nobody left
  who gives it work. Hence `AddFence` never meets a waiter that was told to end
  (`FenceIsAdded`).
* `Managing` gives `NothingIsLeft`. `Joins` gives `NeverJoinsItself` for a context that was shut
  down: the manager's thread may be the one to destroy it, but both members are gone by then, and
  it runs no destructor of a `CommandPoolVK` and so never holds the last reference to the manager.
  None of this holds for an abandoned context.
* `Waiting` (a callback is with Submit, in the wait set or with one thread that destroys the
  entry, and while the GPU has the buffer one of the first two) and `Ended` (unless a wait failed,
  the waiter's thread ends only when it leaves nothing behind) give `CallbackOnce`. Both except
  `GivenUp`, from which there is no way back (`GivenUpStays`).
* `Holding`, `Dropped`, `Owning`: someone holds the tracked objects of a pending buffer, an
  object is destroyed by one thread and only when nobody refers to it, and an object keeps
  the pool its buffers came from while the context is not past its wait for the GPU. They
  give `PendingKept`.
* `Made`, `Apart` give `PoolPlacedOnce`: a pool leaves one place before it enters the next.
  Together with `Dropped` this is also what `TypeCorrect` needs: the pool that is appended to
  the list is one.

Only model-checked: the liveness properties (`PostedTaskRuns`, `TerminatedLoopEnds`,
`DestroyReturns`, `FrameConsumed`, `RequestServed`, `PacketDispatched`, `TaskTaken`,
`DestructorReturns`, `FenceServed`, `PoolComesBack`, `ContextEnds`), since TLAPS has
neither fairness nor ENABLED here. Every invariant and every action property of a passing
run is proved. What a recursive definition computes, by induction over data, is out of the
prover's reach as well; the modules use none.

## 6. Plan

1. *Done*: `TaskQueues`, `ThreadMerger`, `FramePipeline`, `ConcurrentMessageLoop`,
   `VulkanReclamation`; the pipeline's abstract specification `FrameQueue` and the proof that
   it is implemented; the smooth pointer data dispatcher.
2. *Done*: proofs of all invariants and action properties.
3. `FramePipeline` composed with `ThreadMerger`: yielded draws and their lease, frames
   posted and consumed across several engines; `ThreadMerger`'s `subsumed` as a refinement
   mapping into `TaskQueues`' merge relation.
4. The life cycle of the engine's threads (`fml::Thread`, joining while merged), the
   destruction of Animator and pipeline, `WaitForFirstFrame`.

## 7. Conventions

Definitions keep the names of the methods they model. Operators marked `Fault:` are not
part of any specification. `Mutex`-protected methods are single steps; what the code does
outside a lock is a step of its own. Counters that the code lets grow are capped in the
guard of the action that counts and the cap is a constant (`MaxOrder`, `MaxTime`,
`MaxPauses`, `MaxQueue`, `MaxFrames`, `MaxPackets`, `MaxTasks`, `MaxForAll`).

## 8. Not modelled

* Rendering (flow, display_list, impeller but for the reclamation of command pools), text,
  images: geometry and GPU work. These, the platform embedders and the tests are most of the
  repository's lines; the models cover the small part of them that is concurrent.
* Vulkan: what is recorded, descriptor pools, the swapchain, and the worker and queue submit
  threads that `Shutdown` ends as well. Nor a thread that exits, and so destroys its map of
  pools, while another thread destroys the context.
* The Dart VM, isolates and dart:ui natives: code outside the repository decides.
* Platform embedders, except the part of the Android view embedder that merges threads;
  `RunSingleExpiredTaskNow` and the other platforms' loops.
* Shell's message routing, service protocol, frame timings, viewport metrics.
* The synchronization primitives themselves, taken as atomic steps.
* Data races: `IsMerged` reads the map of leases without the shared mutex, which the models do
  in one step between any two changes of it; and `surface_` is read for the GPU clean-up after
  a merge, outside every mutex, while the platform thread may reset it. The model has both steps
  in any order, and `SurfaceOutlivesFrame` ends before the clean-up. Both are in the list of
  hazards.
* Two engines beyond the run `lease`: leases and queues, and `enabled_`, are guarded by a mutex of
  each engine, and the invariants of `view` are stated for one.
