------------------------- MODULE VulkanReclamation -------------------------
(***************************************************************************)
(* How Impeller's Vulkan backend keeps a command pool until the GPU is     *)
(* done with it and then uses it again: CommandEncoderVK and               *)
(* TrackedObjectsVK on the threads that encode, CommandPoolVK and          *)
(* CommandPoolRecyclerVK, the threads of FenceWaiterVK and                 *)
(* ResourceManagerVK, and the end of the ContextVK that owns them.         *)
(*                                                                         *)
(* A vk::CommandPool belongs to a CommandPoolVK, which the map of a thread *)
(* and the tracked objects of its encoders share.  Its destructor runs on  *)
(* the thread that gives up the last reference and hands the pool to the   *)
(* resource manager.  The context, too, is destroyed by whichever thread   *)
(* gives up the last reference to it.  A command buffer, its fence and its *)
(* tracked objects are named by their encoder; collected buffers live and  *)
(* die with their pool.                                                    *)
(*                                                                         *)
(* The threads that encode have a strong reference to the context while    *)
(* they have encoders, and make none once Shutdown has begun.              *)
(***************************************************************************)
EXTENDS Naturals, Sequences, FiniteSets

CONSTANTS
    Threads,     \* the threads that encode commands
    Encoders,    \* the encoders that may be made
    Pools,       \* the vk::CommandPools that may be made
    Objects,     \* the CommandPoolVKs that may be made
    None         \* no pool, object or thread

\* The threads that may run destructors.
Actors == Threads \cup {"owner", "waiter", "manager"}

ASSUME VulkanAssumption ==
    /\ IsFiniteSet(Threads) /\ IsFiniteSet(Encoders)
    /\ None \notin Actors \cup Pools \cup Objects
    /\ Threads \cap {"owner", "waiter", "manager"} = {}

VARIABLES
    tls,          \* tls_command_pool_map of each encoding thread
    encoder,      \* the life of each CommandEncoderVK
    held,         \* who holds the TrackedObjectsVK of each encoder
    tracked,      \* TrackedObjectsVK::pool_ of each encoder
    home,         \* the vk::CommandPool each buffer is allocated from
    called,       \* how often the callback of each encoder was called
    gpu,          \* the buffers that are pending on the GPU
    pool,         \* CommandPoolVK::pool_
    registered,   \* the objects that were entered in g_all_pools_map
    created,      \* the vk::CommandPools that were made
    recycled,     \* CommandPoolRecyclerVK::recycled_
    waitSet,      \* FenceWaiterVK::wait_set_
    snapshot,     \* the copy that Wait makes of it
    terminate,    \* FenceWaiterVK::terminate_
    waiter,       \* what the waiter's thread does
    failed,       \* history: a wait for the fences failed
    reclaimables, \* ResourceManagerVK::reclaimables_, as pools
    collecting,   \* resources_to_collect
    resetting,    \* the pool the manager's thread resets, with the context
    shouldExit,   \* ResourceManagerVK::should_exit_
    manager,      \* what the manager's thread does
    users,        \* the threads that have locked the resource manager
    context,      \* how far the destruction of the ContextVK is
    destroyer,    \* the thread that destroys it
    frame,        \* the encoding threads that have a reference to it
    shutdown,     \* what its owner has done: Shutdown, then letting go; or
                  \* letting go of a context that was not shut down
    members,      \* which of fence_waiter_ and resource_manager_ it has
    dropping,     \* the CommandPoolVK whose destructor each thread runs
    stage,        \* how far that destructor is
    erased,       \* the wait set entries each thread destroys
    joining       \* the thread each thread waits for in join

poolVars == <<pool, registered, created, recycled>>
encoderVars == <<encoder, held, tracked, home, called, gpu>>
waiterVars == <<waitSet, snapshot, terminate, waiter, failed>>
managerVars == <<reclaimables, collecting, resetting, shouldExit, manager,
                 users>>
lifeVars == <<context, destroyer>>
contextVars == <<lifeVars, frame, shutdown, members>>
threadVars == <<dropping, stage, erased, joining>>
vars == <<tls, poolVars, encoderVars, waiterVars, managerVars, contextVars,
          threadVars>>

Init ==
    /\ tls = [t \in Threads |-> None]
    /\ encoder = [e \in Encoders |-> "none"]
    /\ held = [e \in Encoders |-> {}]
    /\ tracked = [e \in Encoders |-> None]
    /\ home = [e \in Encoders |-> None]
    /\ called = [e \in Encoders |-> 0]
    /\ gpu = {}
    /\ pool = [o \in Objects |-> None]
    /\ registered = {} /\ created = {} /\ recycled = <<>>
    /\ waitSet = {} /\ snapshot = {}
    /\ terminate = FALSE /\ waiter = "idle"
    /\ failed = FALSE
    /\ reclaimables = {} /\ collecting = {} /\ resetting = None
    /\ shouldExit = FALSE /\ manager = "idle" /\ users = {}
    /\ context = "alive" /\ destroyer = None
    /\ frame = {} /\ shutdown = "no"
    /\ members = {"waiter", "manager"}
    /\ dropping = [a \in Actors |-> None]
    /\ stage = [a \in Actors |-> "none"]
    /\ erased = [a \in Actors |-> {}]
    /\ joining = [a \in Actors |-> None]

-----------------------------------------------------------------------------
(* References *)

\* The thread runs no destructor.
Free(a) == /\ dropping[a] = None
           /\ joining[a] = None
           /\ erased[a] = {}
           /\ destroyer # a

\* The strong references to the context.
References ==
    {<<"frame", t>> : t \in frame}
      \cup {<<"drop", a>> : a \in {b \in Actors : stage[b] \in {"locked", "reclaimed"}}}
      \cup (IF resetting # None THEN {<<"reset", "manager">>} ELSE {})
      \cup (IF shutdown \in {"gone", "abandoned"} THEN {}
            ELSE {<<"owner", "owner">>})

\* Thread a gives up reference r; the last one destroys the context.
LetGo(r, a) ==
    IF References = {r}
    THEN context' = "dying" /\ destroyer' = a
    ELSE UNCHANGED lifeVars

\* The encoders that have a reference to the fence waiter.
Submitters == {e \in Encoders : encoder[e] \notin {"none", "gone"}}

\* Fault: the destructor joins a thread that was not told to end.
JoinWithoutTerminate(a, others) ==
    /\ joining' = IF others = {} THEN [joining EXCEPT ![a] = "waiter"] ELSE joining
    /\ UNCHANGED terminate

\* FenceWaiterVK::~FenceWaiterVK on thread a, once nobody has a reference.
ReleaseWaiter(a, others) ==
    IF others = {}
    THEN terminate' = TRUE /\ joining' = [joining EXCEPT ![a] = "waiter"]
    ELSE UNCHANGED <<terminate, joining>>

\* ResourceManagerVK::~ResourceManagerVK on thread a, once nobody has one.
ReleaseManager(a, others) ==
    IF others = {}
    THEN shouldExit' = TRUE /\ joining' = [joining EXCEPT ![a] = "manager"]
    ELSE UNCHANGED <<shouldExit, joining>>

\* Thread a gives up a reference to a CommandPoolVK that `others` may have.
ReleasePool(a, o, others) ==
    IF others = {}
    THEN /\ dropping' = [dropping EXCEPT ![a] = o]
         /\ stage' = [stage EXCEPT ![a] = "entered"]
    ELSE UNCHANGED <<dropping, stage>>

\* Thread a gives up the tracked objects of e on behalf of h.  The last one
\* collects the buffer and releases the CommandPoolVK.
ReleaseTracked(a, e, h) ==
    LET o == tracked[e]
    IN  /\ held' = [held EXCEPT ![e] = @ \ {h}]
        /\ IF held[e] = {h}
           THEN /\ tracked' = [tracked EXCEPT ![e] = None]
                /\ ReleasePool(a, o, {t \in Threads : tls[t] = o}
                                \cup {d \in Encoders \ {e} : tracked[d] = o})
           ELSE UNCHANGED <<tracked, dropping, stage>>

-----------------------------------------------------------------------------
(* The threads that encode *)

\* A thread takes a reference to the context, for a frame or an upload.
EnterFrame(t) ==
    /\ Free(t) /\ t \notin frame
    /\ shutdown = "no"
    /\ frame' = frame \cup {t}
    /\ UNCHANGED <<tls, poolVars, encoderVars, waiterVars, managerVars,
                   lifeVars, shutdown, members, threadVars>>

\* It gives the reference up; the encoders are gone when the last one does.
LeaveFrame(t) ==
    /\ Free(t) /\ t \in frame
    /\ frame = {t} => Submitters = {}
    /\ frame' = frame \ {t}
    /\ LetGo(<<"frame", t>>, t)
    /\ UNCHANGED <<tls, poolVars, encoderVars, waiterVars, managerVars,
                   shutdown, members, threadVars>>

\* A name for something new; which one does not matter.
Fresh(S, used) == CHOOSE x \in S \ used : TRUE

\* Fault: Reuse leaves the pool it returns on the list.
ReuseKeeps(p) == recycled # <<>> /\ p = recycled[Len(recycled)] /\ UNCHANGED recycled

\* CommandPoolRecyclerVK::Reuse.
Reuse(p) ==
    /\ recycled # <<>>
    /\ p = recycled[Len(recycled)]
    /\ recycled' = SubSeq(recycled, 1, Len(recycled) - 1)

\* CommandPoolRecyclerVK::Create.
CreatePool(p) ==
    \/ Reuse(p) /\ UNCHANGED created
    \/ /\ recycled = <<>>
       /\ created # Pools
       /\ p = Fresh(Pools, created)
       /\ created' = created \cup {p}
       /\ UNCHANGED recycled

\* CommandPoolRecyclerVK::Get: the object of this thread, or a new one.
Get(t, o) ==
    \/ /\ tls[t] = o
       /\ UNCHANGED <<tls, poolVars>>
    \/ /\ tls[t] = None
       /\ registered # Objects
       /\ o = Fresh(Objects, registered)
       /\ \E p \in Pools : CreatePool(p) /\ pool' = [pool EXCEPT ![o] = p]
       /\ tls' = [tls EXCEPT ![t] = o]
       /\ registered' = registered \cup {o}

\* CommandEncoderFactoryVK::Create.  Where no buffer can be allocated the
\* thread has its pool but no encoder.
CreateEncoder(t, e, o) ==
    /\ Free(t) /\ t \in frame
    /\ shutdown \in {"no", "abandoned"}
    /\ encoder[e] = "none"
    /\ e = Fresh(Encoders, {d \in Encoders : encoder[d] # "none"})
    /\ Get(t, o)
    /\ \/ /\ encoder' = [encoder EXCEPT ![e] = "recording"]
          /\ held' = [held EXCEPT ![e] = {"encoder"}]
          /\ tracked' = [tracked EXCEPT ![e] = o]
          /\ home' = [home EXCEPT ![e] = pool'[o]]
       \/ UNCHANGED <<encoder, held, tracked, home>>
    /\ UNCHANGED <<called, gpu, waiterVars, managerVars, contextVars,
                   threadVars>>

\* CommandEncoderVK::Submit when something fails before the buffer is
\* submitted: the callback is told and Reset gives up the tracked objects.
SubmitFails(t, e) ==
    /\ Free(t) /\ t \in frame
    /\ encoder[e] = "recording"
    /\ encoder' = [encoder EXCEPT ![e] = "submitted"]
    /\ called' = [called EXCEPT ![e] = @ + 1]
    /\ ReleaseTracked(t, e, "encoder")
    /\ UNCHANGED <<tls, home, gpu, poolVars, waiterVars, managerVars,
                   contextVars, erased, joining>>

\* Fault: the closure for the fence waiter does not keep the tracked objects.
SubmitDropsTracked(t, e) ==
    /\ Free(t) /\ t \in frame
    /\ encoder[e] = "recording"
    /\ encoder' = [encoder EXCEPT ![e] = "submitting"]
    /\ gpu' = gpu \cup {e}
    /\ ReleaseTracked(t, e, "encoder")
    /\ UNCHANGED <<tls, home, called, poolVars, waiterVars, managerVars,
                   contextVars, erased, joining>>

\* Submit up to the closure that takes over the tracked objects.
Submit(t, e) ==
    /\ Free(t) /\ t \in frame
    /\ encoder[e] = "recording"
    /\ encoder' = [encoder EXCEPT ![e] = "submitting"]
    /\ held' = [held EXCEPT ![e] = {"submit"}]
    /\ gpu' = gpu \cup {e}
    /\ UNCHANGED <<tls, tracked, home, called, poolVars, waiterVars,
                   managerVars, contextVars, threadVars>>

\* Fault: Submit takes an added fence for a failure and tells the callback.
AddFenceTellsToo(t, e) ==
    /\ Free(t) /\ t \in frame
    /\ encoder[e] = "submitting"
    /\ encoder' = [encoder EXCEPT ![e] = "added"]
    /\ waitSet' = waitSet \cup {e}
    /\ held' = [held EXCEPT ![e] = @ \cup {"entry"}]
    /\ called' = [called EXCEPT ![e] = @ + 1]
    /\ UNCHANGED <<tls, tracked, home, gpu, poolVars, snapshot, terminate,
                   waiter, failed, managerVars, contextVars, threadVars>>

\* FenceWaiterVK::AddFence.  The entry has a copy of the closure.
AddFence(t, e) ==
    /\ Free(t) /\ t \in frame
    /\ encoder[e] = "submitting"
    /\ encoder' = [encoder EXCEPT ![e] = "added"]
    /\ IF terminate
       THEN UNCHANGED <<waitSet, held>>
       ELSE /\ waitSet' = waitSet \cup {e}
            /\ held' = [held EXCEPT ![e] = @ \cup {"entry"}]
    /\ UNCHANGED <<tls, tracked, home, called, gpu, poolVars, snapshot,
                   terminate, waiter, failed, managerVars, contextVars,
                   threadVars>>

\* The end of Submit destroys its own copy of the closure.
SubmitReturns(t, e) ==
    /\ Free(t) /\ t \in frame
    /\ encoder[e] = "added"
    /\ encoder' = [encoder EXCEPT ![e] = "submitted"]
    /\ ReleaseTracked(t, e, "submit")
    /\ UNCHANGED <<tls, home, called, gpu, poolVars, waiterVars, managerVars,
                   contextVars, erased, joining>>

\* CommandEncoderVK::~CommandEncoderVK: fence_waiter_ goes, and the tracked
\* objects of an encoder that was not submitted.
DropEncoder(t, e) ==
    /\ Free(t) /\ t \in frame
    /\ encoder[e] \in {"recording", "submitted"}
    /\ encoder' = [encoder EXCEPT ![e] = "gone"]
    /\ ReleaseWaiter(t, (Submitters \ {e}) \cup (members \cap {"waiter"}))
    /\ IF encoder[e] = "recording"
       THEN ReleaseTracked(t, e, "encoder")
       ELSE UNCHANGED <<held, tracked, dropping, stage>>
    /\ UNCHANGED <<tls, home, called, gpu, poolVars, waitSet, snapshot,
                   waiter, failed, managerVars, contextVars, erased>>

\* CommandPoolRecyclerVK::Dispose, at the start of a frame.
Dispose(t) ==
    /\ Free(t) /\ t \in frame
    /\ tls[t] # None
    /\ tls' = [tls EXCEPT ![t] = None]
    /\ ReleasePool(t, tls[t], {e \in Encoders : tracked[e] = tls[t]})
    /\ UNCHANGED <<poolVars, encoderVars, waiterVars, managerVars,
                   contextVars, erased, joining>>

\* External: the GPU executes a buffer and signals its fence.
Signal(e) ==
    /\ e \in gpu
    /\ gpu' = gpu \ {e}
    /\ UNCHANGED <<tls, poolVars, encoder, held, tracked, home, called,
                   waiterVars, managerVars, contextVars, threadVars>>

-----------------------------------------------------------------------------
(* CommandPoolVK::~CommandPoolVK, on any thread *)

\* The thread is in the destructor and not in a join within it.
Destructs(a, s) == dropping[a] # None /\ stage[a] = s /\ joining[a] = None

\* An object that was destroyed with its context has no pool; if the context
\* is going the pool is destroyed with the object.
LockContext(a) ==
    /\ Destructs(a, "entered")
    /\ IF pool[dropping[a]] # None /\ context = "alive"
       THEN /\ stage' = [stage EXCEPT ![a] = "locked"]
            /\ UNCHANGED <<pool, dropping>>
       ELSE /\ pool' = [pool EXCEPT ![dropping[a]] = None]
            /\ dropping' = [dropping EXCEPT ![a] = None]
            /\ stage' = [stage EXCEPT ![a] = "none"]
    /\ UNCHANGED <<tls, encoderVars, waiterVars, managerVars, contextVars,
                   registered, created, recycled, erased, joining>>

\* Fault: the moved-from BackgroundCommandPoolVK recycles its pool as well.
ReclaimMovedFrom(a) ==
    /\ Destructs(a, "locked")
    /\ stage' = [stage EXCEPT ![a] = "reclaimed"]
    /\ pool' = [pool EXCEPT ![dropping[a]] = None]
    /\ reclaimables' = reclaimables \cup {pool[dropping[a]]}
    /\ users' = users \cup {a}
    /\ recycled' = Append(recycled, None)
    /\ UNCHANGED <<tls, encoderVars, waiterVars, registered, created,
                   collecting, resetting, shouldExit, manager, contextVars,
                   dropping, erased, joining>>

\* UniqueResourceVKT::Reset: the manager is locked and given the pool.  When
\* there is none, the pool is reset and recycled here.
ReclaimPool(a) ==
    /\ Destructs(a, "locked")
    /\ stage' = [stage EXCEPT ![a] = "reclaimed"]
    /\ pool' = [pool EXCEPT ![dropping[a]] = None]
    /\ IF "manager" \in members
       THEN /\ reclaimables' = reclaimables \cup {pool[dropping[a]]}
            /\ users' = users \cup {a}
            /\ UNCHANGED recycled
       ELSE /\ recycled' = Append(recycled, pool[dropping[a]])
            /\ UNCHANGED <<reclaimables, users>>
    /\ UNCHANGED <<tls, encoderVars, waiterVars, registered, created,
                   collecting, resetting, shouldExit, manager, contextVars,
                   dropping, erased, joining>>

\* The reference to the manager is given up, by the last one with a join.
UnlockManager(a) ==
    /\ Destructs(a, "reclaimed")
    /\ a \in users
    /\ users' = users \ {a}
    /\ ReleaseManager(a, users' \cup (members \cap {"manager"}))
    /\ UNCHANGED <<tls, poolVars, encoderVars, waiterVars, reclaimables,
                   collecting, resetting, manager, contextVars, dropping,
                   stage, erased>>

\* The end of the destructor gives up the context.
UnlockContext(a) ==
    /\ Destructs(a, "reclaimed")
    /\ a \notin users
    /\ dropping' = [dropping EXCEPT ![a] = None]
    /\ stage' = [stage EXCEPT ![a] = "none"]
    /\ LetGo(<<"drop", a>>, a)
    /\ UNCHANGED <<tls, poolVars, encoderVars, waiterVars, managerVars, frame,
                   shutdown, members, erased, joining>>

-----------------------------------------------------------------------------
(* The entries of the wait set *)

\* A thread that destroys entries goes on, unless something nested in that
\* has to end first; ~ContextVK destroys some with its fence waiter.
Resumes(a) ==
    /\ dropping[a] = None /\ joining[a] = None
    /\ destroyer = a => context = "waiter"

\* WaitSetEntry's destructor runs the closure, which gives up the tracked
\* objects first ...
DestroyEntry(a, e) ==
    /\ e \in erased[a]
    /\ Resumes(a)
    /\ \A d \in erased[a] : "entry" \in held[d]
    /\ ReleaseTracked(a, e, "entry")
    /\ UNCHANGED <<tls, encoder, home, called, gpu, poolVars, waiterVars,
                   managerVars, contextVars, erased, joining>>

\* ... and then calls the callback of Submit.
CallBack(a, e) ==
    /\ e \in erased[a]
    /\ Resumes(a)
    /\ "entry" \notin held[e]
    /\ erased' = [erased EXCEPT ![a] = @ \ {e}]
    /\ called' = [called EXCEPT ![e] = @ + 1]
    /\ UNCHANGED <<tls, poolVars, encoder, held, tracked, home, gpu,
                   waiterVars, managerVars, contextVars, dropping, stage,
                   joining>>

-----------------------------------------------------------------------------
(* FenceWaiterVK, on its thread *)

\* Main and WaitUntilEmpty up to the wait for the fences.
WaiterWakes ==
    /\ waiter = "idle" /\ Free("waiter")
    /\ waitSet # {} \/ terminate
    /\ waiter' = IF waitSet = {} \/ context = "dead" THEN "exited"
                 ELSE "waiting"
    /\ snapshot' = waitSet
    /\ UNCHANGED <<tls, poolVars, encoderVars, waitSet, terminate,
                   failed, managerVars, contextVars, threadVars>>

\* Fault: what is left of the snapshot is written back to the wait set.
WriteBackSnapshot ==
    /\ waiter = "waiting"
    /\ waiter' = "idle"
    /\ snapshot' = {}
    /\ erased' = [erased EXCEPT !["waiter"] = snapshot \ gpu]
    /\ waitSet' = snapshot \cap gpu
    /\ UNCHANGED <<tls, poolVars, encoderVars, terminate, failed,
                   managerVars, contextVars, dropping, stage, joining>>

\* waitForFences returns, in time or not, and the signalled entries of the
\* snapshot are taken out of the wait set.
WaitReturns ==
    /\ waiter = "waiting"
    /\ waiter' = "idle"
    /\ snapshot' = {}
    /\ erased' = [erased EXCEPT !["waiter"] = snapshot \ gpu]
    /\ waitSet' = waitSet \ (snapshot \ gpu)
    /\ UNCHANGED <<tls, poolVars, encoderVars, terminate, failed,
                   managerVars, contextVars, dropping, stage, joining>>

\* waitForFences fails, for lack of memory or because the device is lost: the
\* thread ends, whatever the GPU is doing.  A lost device executes nothing
\* more, which is no more than Signal may do for each buffer.
WaitFails ==
    /\ waiter = "waiting"
    /\ waiter' = "exited"
    /\ snapshot' = {}
    /\ failed' = TRUE
    /\ UNCHANGED <<tls, poolVars, encoderVars, waitSet, terminate,
                   managerVars, contextVars, threadVars>>

\* ~FenceWaiterVK: after the join its wait set goes, with what is left in it.
WaiterJoined(a) ==
    /\ joining[a] = "waiter" /\ a # "waiter"
    /\ waiter = "exited"
    /\ joining' = [joining EXCEPT ![a] = None]
    /\ erased' = [erased EXCEPT ![a] = waitSet]
    /\ waitSet' = {}
    /\ UNCHANGED <<tls, poolVars, encoderVars, snapshot, terminate, waiter,
                   failed, managerVars, contextVars, dropping, stage>>

-----------------------------------------------------------------------------
(* ResourceManagerVK, on its thread *)

\* Fault: should_exit_ ends the thread without a last look at reclaimables_.
ManagerExitsAtOnce ==
    /\ manager = "idle" /\ Free("manager")
    /\ reclaimables # {} \/ shouldExit
    /\ manager' = IF shouldExit THEN "exited" ELSE "collecting"
    /\ collecting' = IF shouldExit THEN {} ELSE reclaimables
    /\ reclaimables' = IF shouldExit THEN reclaimables ELSE {}
    /\ UNCHANGED <<tls, poolVars, encoderVars, waiterVars, resetting,
                   shouldExit, users, contextVars, threadVars>>

\* Start up to the swap of the reclaimables; should_exit_ is read with it.
ManagerWakes ==
    /\ manager = "idle" /\ Free("manager")
    /\ reclaimables # {} \/ shouldExit
    /\ manager' = IF shouldExit THEN "leaving" ELSE "collecting"
    /\ collecting' = reclaimables
    /\ reclaimables' = {}
    /\ UNCHANGED <<tls, poolVars, encoderVars, waiterVars, resetting,
                   shouldExit, users, contextVars, threadVars>>

\* ~BackgroundCommandPoolVK and CommandPoolRecyclerVK::Reclaim lock the
\* context; without it the pool is destroyed.
ResetPool(p) ==
    /\ p \in collecting
    /\ resetting = None /\ Free("manager")
    /\ collecting' = collecting \ {p}
    /\ resetting' = IF context = "alive" THEN p ELSE None
    /\ UNCHANGED <<tls, poolVars, encoderVars, waiterVars, reclaimables,
                   shouldExit, manager, users, contextVars, threadVars>>

\* Fault: the pool is reset but not put on the list.
RecycleForgets ==
    /\ resetting # None
    /\ resetting' = None
    /\ LetGo(<<"reset", "manager">>, "manager")
    /\ UNCHANGED <<tls, poolVars, encoderVars, waiterVars, reclaimables,
                   collecting, shouldExit, manager, users, frame, shutdown,
                   members, threadVars>>

\* The pool is reset and put on the list, and the context given up.
Recycle ==
    /\ resetting # None
    /\ recycled' = Append(recycled, resetting)
    /\ resetting' = None
    /\ LetGo(<<"reset", "manager">>, "manager")
    /\ UNCHANGED <<tls, encoderVars, waiterVars, pool, registered, created,
                   reclaimables, collecting, shouldExit, manager, users,
                   frame, shutdown, members, threadVars>>

\* The end of a pass of Start.
ManagerPasses ==
    /\ manager \in {"collecting", "leaving"}
    /\ collecting = {} /\ resetting = None /\ Free("manager")
    /\ manager' = IF manager = "leaving" THEN "exited" ELSE "idle"
    /\ UNCHANGED <<tls, poolVars, encoderVars, waiterVars, reclaimables,
                   collecting, resetting, shouldExit, users, contextVars,
                   threadVars>>

\* ~ResourceManagerVK returns from the join.
ManagerJoined(a) ==
    /\ joining[a] = "manager" /\ a # "manager"
    /\ manager = "exited"
    /\ joining' = [joining EXCEPT ![a] = None]
    /\ UNCHANGED <<tls, poolVars, encoderVars, waiterVars, managerVars,
                   contextVars, dropping, stage, erased>>

-----------------------------------------------------------------------------
(* ContextVK *)

\* fence_waiter_ is reset or destroyed by thread a.
DropWaiterMember(a) ==
    /\ members' = members \ {"waiter"}
    /\ IF "waiter" \in members THEN ReleaseWaiter(a, Submitters)
       ELSE UNCHANGED <<terminate, joining>>

\* resource_manager_ is reset or destroyed by thread a.
DropManagerMember(a) ==
    /\ members' = members \ {"manager"}
    /\ IF "manager" \in members THEN ReleaseManager(a, users)
       ELSE UNCHANGED <<shouldExit, joining>>

\* ContextVK::Shutdown resets the fence waiter ...
Shutdown ==
    /\ shutdown = "no" /\ Free("owner")
    /\ shutdown' = "waiter"
    /\ DropWaiterMember("owner")
    /\ UNCHANGED <<tls, poolVars, encoderVars, waitSet, snapshot, waiter,
                   failed, managerVars, lifeVars, frame, dropping, stage,
                   erased>>

\* Fault: the resource manager is left to the context.
ShutdownKeepsManager ==
    /\ shutdown = "waiter" /\ Free("owner")
    /\ shutdown' = "done"
    /\ UNCHANGED <<tls, poolVars, encoderVars, waiterVars, managerVars,
                   lifeVars, frame, members, threadVars>>

\* ... and then the resource manager.
ShutdownManager ==
    /\ shutdown = "waiter" /\ Free("owner")
    /\ shutdown' = "done"
    /\ DropManagerMember("owner")
    /\ UNCHANGED <<tls, poolVars, encoderVars, waiterVars, reclaimables,
                   collecting, resetting, manager, users, lifeVars, frame,
                   dropping, stage, erased>>

\* The owner lets go of the context, which it may not have shut down.
OwnerLetsGo ==
    /\ shutdown \in {"no", "done"} /\ Free("owner")
    /\ shutdown' = IF shutdown = "done" THEN "gone" ELSE "abandoned"
    /\ LetGo(<<"owner", "owner">>, "owner")
    /\ UNCHANGED <<tls, poolVars, encoderVars, waiterVars, managerVars, frame,
                   members, threadVars>>

\* ContextVK::~ContextVK waits for the GPU and destroys the pools that are
\* left in the maps of the threads.
DestroyPools ==
    /\ context = "dying"
    /\ gpu = {}
    /\ context' = "recycler"
    /\ pool' = [o \in Objects |->
                  IF \E a \in Actors : dropping[a] = o THEN pool[o] ELSE None]
    /\ tls' = [t \in Threads |-> IF t = destroyer THEN None ELSE tls[t]]
    /\ UNCHANGED <<registered, created, recycled, encoderVars, waiterVars,
                   managerVars, destroyer, frame, shutdown, members,
                   threadVars>>

\* Its members are destroyed: the recycler, then the resource manager,
DestroyManager ==
    /\ context = "recycler"
    /\ context' = "manager"
    /\ recycled' = <<>>
    /\ DropManagerMember(destroyer)
    /\ UNCHANGED <<tls, pool, registered, created, encoderVars, waiterVars,
                   reclaimables, collecting, resetting, manager, users,
                   destroyer, frame, shutdown, dropping, stage, erased>>

\* the fence waiter,
DestroyWaiter ==
    /\ context = "manager" /\ joining[destroyer] = None
    /\ context' = "waiter"
    /\ DropWaiterMember(destroyer)
    /\ UNCHANGED <<tls, poolVars, encoderVars, waitSet, snapshot, waiter,
                   failed, managerVars, destroyer, frame, shutdown, dropping,
                   stage, erased>>

\* and the device.
DestroyDevice ==
    /\ context = "waiter" /\ joining[destroyer] = None
    /\ dropping[destroyer] = None /\ erased[destroyer] = {}
    /\ context' = "dead"
    /\ destroyer' = None
    /\ UNCHANGED <<tls, poolVars, encoderVars, waiterVars, managerVars, frame,
                   shutdown, members, threadVars>>

-----------------------------------------------------------------------------
Encode(t) ==
    \/ Dispose(t)
    \/ \E e \in Encoders : \/ \E o \in Objects : CreateEncoder(t, e, o)
                           \/ SubmitFails(t, e)
                           \/ Submit(t, e)

\* What a thread does with what it has begun.
Complete(t) ==
    \/ LeaveFrame(t)
    \/ \E e \in Encoders : \/ AddFence(t, e)
                           \/ SubmitReturns(t, e)
                           \/ DropEncoder(t, e)

Destruct(a) ==
    \/ LockContext(a)
    \/ ReclaimPool(a)
    \/ UnlockManager(a)
    \/ UnlockContext(a)
    \/ \E e \in Encoders : DestroyEntry(a, e) \/ CallBack(a, e)
    \/ WaiterJoined(a)
    \/ ManagerJoined(a)

Waiter == WaiterWakes \/ WaitReturns

Manager ==
    \/ ManagerWakes
    \/ \E p \in Pools : ResetPool(p)
    \/ Recycle
    \/ ManagerPasses

Owner == ShutdownManager \/ (shutdown = "done" /\ OwnerLetsGo)

Destroy == DestroyPools \/ DestroyManager \/ DestroyWaiter \/ DestroyDevice

Next ==
    \/ \E t \in Threads : EnterFrame(t) \/ Encode(t) \/ Complete(t)
    \/ \E e \in Encoders : Signal(e)
    \/ \E a \in Actors : Destruct(a)
    \/ Waiter \/ WaitFails
    \/ Manager
    \/ Shutdown \/ ShutdownManager \/ OwnerLetsGo
    \/ Destroy

Spec == Init /\ [][Next]_vars

\* The threads of the waiter and of the manager, the GPU and every destructor
\* that has begun go on; a frame that has begun ends and so does a shutdown.
\* Nothing makes a thread encode, or an owner shut down or let go.
FairSpec ==
    /\ Spec
    /\ \A t \in Threads : WF_vars(Complete(t))
    /\ \A a \in Actors : WF_vars(Destruct(a))
    /\ WF_vars(Waiter) /\ WF_vars(Manager) /\ WF_vars(Owner) /\ WF_vars(Destroy)
    /\ WF_vars(\E e \in Encoders : Signal(e))

-----------------------------------------------------------------------------
(* Properties *)

\* Every variable has its type.
TypeOK ==
    /\ tls \in [Threads -> Objects \cup {None}]
    /\ encoder \in [Encoders -> {"none", "recording", "submitting", "added",
                                 "submitted", "gone"}]
    /\ held \in [Encoders -> SUBSET {"encoder", "submit", "entry"}]
    /\ tracked \in [Encoders -> Objects \cup {None}]
    /\ home \in [Encoders -> Pools \cup {None}]
    /\ called \in [Encoders -> 0 .. 2]
    /\ gpu \subseteq Encoders
    /\ pool \in [Objects -> Pools \cup {None}]
    /\ registered \subseteq Objects /\ created \subseteq Pools
    /\ recycled \in Seq(Pools)
    /\ waitSet \subseteq Encoders /\ snapshot \subseteq Encoders
    /\ terminate \in BOOLEAN /\ failed \in BOOLEAN
    /\ waiter \in {"idle", "waiting", "exited"}
    /\ reclaimables \subseteq Pools /\ collecting \subseteq Pools
    /\ resetting \in Pools \cup {None}
    /\ shouldExit \in BOOLEAN
    /\ manager \in {"idle", "collecting", "leaving", "exited"}
    /\ users \subseteq Actors
    /\ context \in {"alive", "dying", "recycler", "manager", "waiter", "dead"}
    /\ destroyer \in Actors \cup {None}
    /\ frame \subseteq Threads
    /\ shutdown \in {"no", "waiter", "done", "gone", "abandoned"}
    /\ members \subseteq {"waiter", "manager"}
    /\ dropping \in [Actors -> Objects \cup {None}]
    /\ stage \in [Actors -> {"none", "entered", "locked", "reclaimed"}]
    /\ erased \in [Actors -> SUBSET Encoders]
    /\ joining \in [Actors -> {"waiter", "manager", None}]

\* The one case in which a waiter destroys the entry of a buffer that the GPU
\* may not be done with: its thread ended when a wait failed.
GivenUp == failed /\ terminate

\* A buffer that the GPU may still execute belongs to the pool that its
\* tracked objects keep: whatever thread drops which reference in which
\* order, the pool is not handed over to be reset, reused or destroyed, until
\* a fence waiter is destroyed that gave up on its fences.
PendingKeepsPool ==
    \A e \in gpu : \/ tracked[e] # None /\ pool[tracked[e]] = home[e]
                   \/ GivenUp

\* A vk::CommandPool is in one place: an object, the manager's hands, or one
\* entry of the recycler's list.
PoolInOnePlace ==
    \A p \in created :
        Cardinality({o \in Objects : pool[o] = p})
          + Cardinality({i \in DOMAIN recycled : recycled[i] = p})
          + Cardinality({s \in {<<1, reclaimables>>, <<2, collecting>>,
                                <<3, {resetting}>>} : p \in s[2]}) <= 1

\* The callback of Submit is called once, although Submit, the waiter's
\* thread and the thread that destroys the waiter may each be the one to call
\* it; and not before the GPU is done, with the same exception.
CalledOnce ==
    \A e \in Encoders : /\ called[e] <= 1
                        /\ called[e] = 1 => e \notin gpu \/ GivenUp

\* "The ResourceManager being destructed on its own spawned thread is a sign
\* that ContextVK was not properly destroyed": a thread joins itself only if
\* the owner let go of a context that it had not shut down.
NoSelfJoin == \A a \in Actors : joining[a] = a => shutdown = "abandoned"

\* When the manager's thread has ended there is nothing left to reclaim: a
\* pool is not handed to a thread that will not look again.
NothingLeft == manager = "exited" => reclaimables \cup collecting = {}

\* Once the fence of a buffer is in the wait set its callback is called, by
\* the waiter's thread or by the thread that destroys the waiter, unless a
\* wait failed or a thread joins itself.
FenceServed ==
    \A e \in Encoders :
        e \in waitSet ~> \/ called[e] = 1
                         \/ failed
                         \/ \E a \in Actors : joining[a] = a

\* A pool that its last user has given up can be used again, or the context
\* is destroyed: no pool that was made is for ever without an owner and off
\* the list, whichever thread has it in between.
PoolComesBack ==
    \A p \in Pools :
        []<>(p \in created => \/ \E i \in DOMAIN recycled : recycled[i] = p
                              \/ \E o \in Objects : pool[o] = p
                              \/ context # "alive")

\* With the last reference the context ends, whether or not it was shut down:
\* no thread waits for ever for another one to exit, only for itself.
ContextEnds ==
    shutdown # "no" ~> \/ context = "dead"
                       \/ \E a \in Actors : joining[a] = a
=============================================================================
