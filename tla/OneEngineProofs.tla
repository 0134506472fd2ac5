--------------------------- MODULE OneEngineProofs ---------------------------
(***************************************************************************)
(* Theorems about ThreadMerger for a single engine: a disabled merger      *)
(* changes nothing, the leases and the task queues agree outside the       *)
(* critical sections that change them, no FML_CHECK fails, the platform    *)
(* thread never waits for a task that only it could run, and a frame keeps *)
(* its surface while it is painted.  The second, the third and the last    *)
(* need that no Draw outlasts the lease it took.                           *)
(***************************************************************************)
EXTENDS ThreadMergerProofs

\* There is one engine, and so one mutex_ of a RasterThreadMerger.
OneEngine == \A d, e \in Engines : d = e

\* Where a thread is in the critical section of that mutex_.
Inside == {"mergeShared", "mergeLease", "mergeCallback", "decrementShared",
           "decrementUnmerge", "decrementCallback", "erase",
           "teardownUnmerge"}

\* Where it has changed one of the leases and the queues and not the other.
Changing == {"mergeLease", "decrementUnmerge", "teardownUnmerge"}

\* A thread holds the locks of the critical sections it is in, and what it has
\* tested at their beginning is still so.
LocksHeld ==
    \A t \in Threads :
        /\ at[t] \in Inside => locked[cur[t]] = t /\ enabled
        /\ at[t] \in Changing => sharedLock = t /\ ~IsMerged
        /\ at[t] = "mergeLease" => subsumed
        /\ at[t] = "mergeShared" => ~IsMerged
        /\ at[t] = "decrementShared" => IsMerged

-----------------------------------------------------------------------------
(* The critical sections of mutex_ *)

\* One thread at a time is inside, and none while mutex_ is free.
LEMMA OneInside ==
    ASSUME OneEngine, TypeOK, LocksHeld, NEW u \in Threads, at[u] \in Inside
    PROVE  /\ \A e \in Engines : ~Free(e)
           /\ \A t \in Threads : at[t] \in Inside => t = u
<1>1. cur \in [Threads -> Engines]
  BY DEF TypeOK
<1>2. cur[u] \in Engines /\ locked[cur[u]] = u
  BY <1>1 DEF LocksHeld
<1>3. u # Nobody
  BY DEF Threads, Nobody
<1>4. \A e \in Engines : locked[e] = u
  BY <1>2 DEF OneEngine
<1> QED
  BY <1>1, <1>3, <1>4 DEF LocksHeld, Free

\* While a thread stays where it is inside, the other one changes nothing of
\* the merger.
LEMMA OthersKeepOut ==
    ASSUME OneEngine, TypeOK, LocksHeld, [Next]_vars,
           NEW u \in Threads, at[u] \in Inside, at'[u] = at[u]
    PROVE  UNCHANGED mergerVars
<1> USE DEF Here, Go, mergerVars, engineVars, threadVars, queueVars
<1>0. /\ "platform" \in Threads /\ at \in [Threads -> Labels]
      /\ cur \in [Threads -> Engines]
  BY DEF Threads, TypeOK
<1>1. /\ \A e \in Engines : ~Free(e)
      /\ \A t \in Threads : at[t] \in Inside => t = u
  BY OneInside
<1>3. CASE UNCHANGED vars
  BY <1>3 DEF vars
<1>4. ASSUME NEW t \in Threads, DrawStep(t)
      PROVE  UNCHANGED mergerVars
  <2>1. ~MergeShared(t) /\ ~MergeLease(t) /\ ~MergeUnmergeCallback(t)
    BY <1>0, <1>1 DEF MergeShared, MergeLease, MergeUnmergeCallback, Inside
  <2>2. ~DecrementUnmerge(t)
    BY <1>0, <1>1 DEF DecrementUnmerge, Inside
  <2>3. ~PrerollPlatformViews(t) /\ ~MergeCheck(t) /\ ~ExtendLease(t)
        /\ ~DecrementCheck(t)
    BY <1>0, <1>1 DEF PrerollPlatformViews, MergeCheck, ExtendLease,
                      DecrementCheck
  <2>4. DecrementShared(t) => UNCHANGED mergerVars
    BY <1>0, <1>1 DEF DecrementShared, Inside
  <2> QED
    BY <1>4, <2>1, <2>2, <2>3, <2>4 DEF DrawStep, DrawCheckThread,
       ConsumeNothing, ConsumeFrame, DrawLastLayerTrees, BeginFrame,
       PrerollPlain, FinishRaster, EndFrame
<1>5. ASSUME NEW t \in Threads, StartTask(t) \/ LifecycleStep(t)
      PROVE  UNCHANGED mergerVars
  <2>1. ~UnMergeNowIfLastOne(t) /\ ~EraseLease(t) /\ ~TeardownUnmerge(t)
    BY <1>0, <1>1 DEF UnMergeNowIfLastOne, EraseLease, TeardownUnmerge, Inside
  <2>2. enabled' = enabled
    BY <1>0, <1>1, <1>5, <2>1 DEF LifecycleStep, StartTask, SetupEnable,
       Setup, TeardownEnable, TeardownSurface, SignalLatch,
       EnableThreadMergerIfNeeded, Enable
  <2> QED
    BY <1>5, <2>1, <2>2 DEF LifecycleStep, StartTask, SetupEnable,
       Setup, TeardownEnable, TeardownSurface, SignalLatch
<1>6. ASSUME \/ RunOrPostSetup \/ RunOrPostTeardown
             \/ \E e \in Engines :
                   \/ PostDraw(e) \/ PostDrawLast(e)
                   \/ OnPlatformViewCreated(e) \/ OnPlatformViewDestroyed(e)
      PROVE  UNCHANGED mergerVars
  <2>1. enabled' = enabled
    BY <1>1, <1>6 DEF RunOrPostSetup, RunOrPostTeardown, PostDraw,
       PostDrawLast, OnPlatformViewCreated, OnPlatformViewDestroyed,
       DisableThreadMergerIfNeeded, Disable
  <2> QED
    BY <1>6, <2>1 DEF RunOrPostSetup, RunOrPostTeardown, PostDraw,
       PostDrawLast, OnPlatformViewCreated, OnPlatformViewDestroyed
<1> QED
  BY <1>3, <1>4, <1>5, <1>6 DEF Next, ThreadStep

\* The steps that take a thread into the critical section or on inside it.
LEMMA GettingInside ==
    ASSUME TypeOK, [Next]_vars,
           NEW u \in Threads, at'[u] # at[u], at'[u] \in Inside
    PROVE  \/ MergeCheck(u) \/ MergeShared(u) \/ MergeLease(u)
           \/ DecrementCheck(u) \/ DecrementShared(u) \/ DecrementUnmerge(u)
           \/ UnMergeNowIfLastOne(u) \/ EraseLease(u)
<1> USE DEF Here, Go, mergerVars, engineVars, threadVars, queueVars, Inside
<1>0. /\ "platform" \in Threads /\ at \in [Threads -> Labels]
  BY DEF Threads, TypeOK
<1>1. ~UNCHANGED vars
  BY DEF vars
<1>2. ASSUME NEW t \in Threads, DrawStep(t)
      PROVE  \/ MergeCheck(u) \/ MergeShared(u) \/ MergeLease(u)
             \/ DecrementCheck(u) \/ DecrementShared(u) \/ DecrementUnmerge(u)
  <2>1. \/ MergeCheck(t) \/ MergeShared(t) \/ MergeLease(t)
        \/ DecrementCheck(t) \/ DecrementShared(t) \/ DecrementUnmerge(t)
    BY <1>0, <1>2 DEF DrawStep, DrawCheckThread, ConsumeNothing,
       ConsumeFrame, DrawLastLayerTrees, BeginFrame, PrerollPlain,
       PrerollPlatformViews, MergeUnmergeCallback, ExtendLease, FinishRaster,
       EndFrame
  <2>2. t = u
    BY <1>0, <2>1 DEF MergeCheck, MergeShared, MergeLease, DecrementCheck,
       DecrementShared, DecrementUnmerge
  <2> QED
    BY <2>1, <2>2
<1>3. ~\E t \in Threads : StartTask(t)
  BY <1>0, TaskTypes DEF StartTask
<1>4. ASSUME NEW t \in Threads, LifecycleStep(t)
      PROVE  UnMergeNowIfLastOne(u) \/ EraseLease(u)
  <2>1. UnMergeNowIfLastOne(t) \/ EraseLease(t)
    BY <1>0, <1>4 DEF LifecycleStep, SetupEnable, Setup, TeardownEnable,
       TeardownSurface, TeardownUnmerge, SignalLatch
  <2>2. t = u
    BY <1>0, <2>1 DEF UnMergeNowIfLastOne, EraseLease
  <2> QED
    BY <2>1, <2>2
<1>5. ~ \/ RunOrPostSetup \/ RunOrPostTeardown
        \/ \E e \in Engines :
              \/ PostDraw(e) \/ PostDrawLast(e)
              \/ OnPlatformViewCreated(e) \/ OnPlatformViewDestroyed(e)
  BY <1>0 DEF RunOrPostSetup, RunOrPostTeardown, PostDraw, PostDrawLast,
     OnPlatformViewCreated, OnPlatformViewDestroyed
<1> QED
  BY <1>1, <1>2, <1>3, <1>4, <1>5 DEF Next, ThreadStep

\* What a thread tested at the beginning still holds inside.
LEMMA LocksStep ==
    ASSUME OneEngine, TypeOK, TypeOK', LocksHeld, [Next]_vars
    PROVE  LocksHeld'
<1> USE DEF mergerVars, engineVars, queueVars
<1> SUFFICES ASSUME NEW u \in Threads, at'[u] \in Inside
             PROVE  /\ locked'[cur'[u]] = u /\ enabled'
                    /\ at'[u] \in Changing => sharedLock' = u /\ ~IsMerged'
                    /\ at'[u] = "mergeLease" => subsumed'
                    /\ at'[u] = "mergeShared" => ~IsMerged'
                    /\ at'[u] = "decrementShared" => IsMerged'
  BY DEF LocksHeld, Inside, Changing
<1>0. /\ cur[u] \in Engines /\ cur'[u] = cur[u]
      /\ at \in [Threads -> Labels] /\ locked \in [Engines -> Threads \cup {Nobody}]
  BY DEF TypeOK, OneEngine
<1>1. CASE at'[u] = at[u]
  <2>1. UNCHANGED mergerVars
    BY <1>1, OthersKeepOut
  <2>2. IsMerged' <=> IsMerged
    BY <2>1 DEF IsMerged, IsAllLeaseTermsZero
  <2> QED
    BY <1>0, <1>1, <2>1, <2>2 DEF LocksHeld
<1>2. CASE at'[u] # at[u]
  <2>1. CASE MergeCheck(u) \/ DecrementCheck(u) \/ UnMergeNowIfLastOne(u)
    <3>1. IsMerged' <=> IsMerged
      BY <2>1 DEF MergeCheck, DecrementCheck, UnMergeNowIfLastOne, IsMerged,
                  IsAllLeaseTermsZero
    <3>2. /\ locked' = [locked EXCEPT ![cur[u]] = u]
          /\ enabled /\ enabled' = enabled
          /\ at'[u] \in {"mergeShared", "decrementShared", "erase"}
          /\ at'[u] = "mergeShared" => ~IsMerged
          /\ at'[u] = "decrementShared" => IsMerged
      BY <1>0, <2>1 DEF MergeCheck, DecrementCheck, UnMergeNowIfLastOne,
                        Inside, Go, Here
    <3> QED
      BY <1>0, <3>1, <3>2 DEF Changing
  <2>2. CASE MergeShared(u)
    <3>1. ~IsMerged /\ locked[cur[u]] = u /\ enabled
      BY <2>2 DEF MergeShared, Here, LocksHeld, Inside
    <3>2. /\ at'[u] = "mergeLease" /\ sharedLock' = u /\ subsumed' = TRUE
          /\ UNCHANGED <<callers, lease, enabled, locked>>
      BY <1>0, <2>2, <3>1 DEF MergeShared, Here, Go
    <3>3. ~IsMerged'
      BY <3>1, <3>2 DEF IsMerged, IsAllLeaseTermsZero
    <3> QED
      BY <1>0, <3>1, <3>2, <3>3
  <2>3. CASE MergeLease(u) \/ DecrementUnmerge(u)
    <3>1. locked[cur[u]] = u /\ enabled
      BY <2>3 DEF MergeLease, DecrementUnmerge, Here, LocksHeld, Inside
    <3>2. /\ at'[u] \in {"mergeCallback", "decrementCallback"}
          /\ UNCHANGED <<enabled, locked>>
      BY <1>0, <2>3 DEF MergeLease, DecrementUnmerge, Go
    <3> QED
      BY <1>0, <3>1, <3>2 DEF Changing
  <2>4. CASE DecrementShared(u)
    <3>1. locked[cur[u]] = u /\ enabled
      BY <2>4 DEF DecrementShared, Here, LocksHeld, Inside
    <3>2. /\ at'[u] = "decrementUnmerge" /\ sharedLock' = u
          /\ UNCHANGED <<callers, enabled, locked>>
          /\ \A c \in callers : lease'[c] = 0
      BY <1>0, <1>2, <2>4 DEF DecrementShared, Go, Inside
    <3>3. ~IsMerged'
      BY <3>2 DEF IsMerged, IsAllLeaseTermsZero
    <3> QED
      BY <1>0, <3>1, <3>2, <3>3
  <2>5. CASE EraseLease(u)
    <3>1. locked[cur[u]] = u /\ enabled
      BY <2>5 DEF EraseLease, Here, LocksHeld, Inside
    <3>2. /\ at'[u] = "teardownUnmerge" /\ sharedLock' = u
          /\ UNCHANGED <<lease, enabled, locked>>
          /\ \A c \in callers' : lease[c] = 0
      BY <1>0, <2>5 DEF EraseLease, Go, Inside
    <3>3. ~IsMerged'
      BY <3>2 DEF IsMerged, IsAllLeaseTermsZero
    <3> QED
      BY <1>0, <3>1, <3>2, <3>3
  <2> QED
    BY <1>2, <2>1, <2>2, <2>3, <2>4, <2>5, GettingInside
<1> QED
  BY <1>1, <1>2

\* The locks are held throughout.
LEMMA LocksInvariant ==
    ASSUME OneEngine
    PROVE  Spec => [](TypeOK /\ LocksHeld)
<1>1. Init => LocksHeld
  BY DEF Init, LocksHeld, Inside, Changing
<1>2. LocksHeld /\ TypeOK /\ TypeOK' /\ [Next]_vars => LocksHeld'
  BY LocksStep
<1> QED
  BY <1>1, <1>2, TypeCorrect, PTL DEF Spec

\* With one engine a disabled merger neither merges nor unmerges, also when
\* Disable comes while the other thread is on its way into a call.
THEOREM DisabledFreezes ==
    ASSUME OneEngine
    PROVE  Spec => FrozenWhileDisabled
<1>1. LocksHeld /\ [Next]_vars => [~enabled => UNCHANGED subsumed]_vars
  <2> SUFFICES ASSUME LocksHeld, [Next]_vars, ~enabled
               PROVE  UNCHANGED subsumed
    OBVIOUS
  <2> USE DEF mergerVars, engineVars, threadVars, queueVars
  <2>0. \A t \in Threads : at[t] \notin Inside
    BY DEF LocksHeld
  <2>1. CASE UNCHANGED vars
    BY <2>1 DEF vars
  <2>2. ASSUME NEW t \in Threads, DrawStep(t)
        PROVE  UNCHANGED subsumed
    <3>1. ~MergeShared(t) /\ ~DecrementUnmerge(t)
      BY <2>0 DEF MergeShared, DecrementUnmerge, Here, Inside
    <3> QED
      BY <2>2, <3>1 DEF DrawStep, DrawCheckThread, ConsumeNothing,
         ConsumeFrame, DrawLastLayerTrees, BeginFrame, PrerollPlain,
         PrerollPlatformViews, MergeCheck, MergeLease, MergeUnmergeCallback,
         ExtendLease, FinishRaster, DecrementCheck, DecrementShared, EndFrame
  <2>3. ASSUME NEW t \in Threads, StartTask(t) \/ LifecycleStep(t)
        PROVE  UNCHANGED subsumed
    <3>1. ~TeardownUnmerge(t)
      BY <2>0 DEF TeardownUnmerge, Here, Inside
    <3> QED
      BY <2>3, <3>1 DEF StartTask, LifecycleStep, SetupEnable, Setup,
         TeardownEnable, TeardownSurface, UnMergeNowIfLastOne, EraseLease,
         SignalLatch
  <2>4. ASSUME \/ RunOrPostSetup \/ RunOrPostTeardown
               \/ \E e \in Engines :
                     \/ PostDraw(e) \/ PostDrawLast(e)
                     \/ OnPlatformViewCreated(e) \/ OnPlatformViewDestroyed(e)
        PROVE  UNCHANGED subsumed
    BY <2>4 DEF RunOrPostSetup, RunOrPostTeardown, PostDraw, PostDrawLast,
       OnPlatformViewCreated, OnPlatformViewDestroyed
  <2> QED
    BY <2>1, <2>2, <2>3, <2>4 DEF Next, ThreadStep
<1> QED
  BY <1>1, LocksInvariant, PTL DEF Spec, FrozenWhileDisabled

-----------------------------------------------------------------------------
(* The leases and the task queues *)

\* Where a Draw on the platform thread has still to use up its lease.
Counting == {"draw", "drawLast", "consume", "begin", "preroll", "extend",
             "raster", "decrement", "decrementShared"}

\* Where the platform thread runs a raster task.
Hosting == Counting \cup {"decrementUnmerge", "setup", "setSurface",
                          "teardown", "resetSurface", "unmerge", "erase",
                          "teardownUnmerge"}

\* Where the Draw that merged has still to use up its lease.
MergedTail == {"mergeCallback", "cleanup", "decrement", "decrementShared"}

\* Only a thread between the two changes may see the leases and the queues
\* disagree.
Agree == (\A t \in Threads : at[t] \notin Changing) => (subsumed <=> IsMerged)

\* The platform thread runs raster tasks while the queues are merged, beside
\* at most the rest of the Draw that merged; only the raster thread merges.
WhoRuns ==
    /\ at["platform"] \in Hosting => subsumed
    /\ subsumed => at["raster"] \in MergedTail \cup {"mergeLease", "idle", "end"}
    /\ at["platform"] \notin {"merge", "mergeShared", "mergeLease",
                              "mergeCallback", "cleanup"}
    /\ at["raster"] \notin {"extend", "unmerge", "erase", "teardownUnmerge",
                            "decrementUnmerge", "decrementCallback"}

\* The Draw that merged finds a lease to use up: each Draw that overlaps with
\* it takes at most one from it.
LeaseLasts ==
    /\ overlap + 1 < Lease
    /\ at["platform"] \in Counting /\ at["raster"] # "idle" => overlap >= 1
    /\ subsumed /\ at["raster"] \in MergedTail /\ cur["raster"] \in callers
        => IF at["platform"] \in Counting
           THEN lease[cur["raster"]] + overlap > Lease
           ELSE lease[cur["raster"]] + overlap >= Lease

\* The inductive invariant as long as no Draw outlasts its lease.
Core ==
    /\ failed = "none"
    /\ Agree
    /\ WhoRuns
    /\ LeaseLasts

\* While mutex_ is free the leases and the queues agree.
LEMMA FreeAgrees ==
    ASSUME OneEngine, TypeOK, LocksHeld, Agree, NEW e \in Engines, Free(e)
    PROVE  subsumed <=> IsMerged
<1>1. \A t \in Threads : at[t] \notin Inside
  BY OneInside
<1> QED
  BY <1>1 DEF Agree, Changing, Inside

\* The threads move on and leave the leases and the queues alone.
LEMMA ThreadMoves ==
    ASSUME TypeOK, Core,
           UNCHANGED <<callers, lease, subsumed, overlap, failed>>,
           cur'["raster"] = cur["raster"],
           \/ at'["platform"] = at["platform"]
           \/ /\ at["platform"] \notin Changing
              /\ at'["platform"] \in Counting => at["platform"] \in Counting
              /\ at'["platform"] \in Hosting => subsumed
              /\ at'["platform"] \notin {"merge", "mergeShared", "mergeLease",
                                         "mergeCallback", "cleanup"},
           \/ at'["raster"] = at["raster"]
           \/ /\ at["raster"] # "idle" /\ at["raster"] \notin Changing
              /\ subsumed => /\ at'["raster"] \in MergedTail \cup {"end", "idle"}
                             /\ at'["raster"] \in MergedTail
                                   => at["raster"] \in MergedTail
              /\ at'["raster"] \notin {"extend", "unmerge", "erase",
                                       "teardownUnmerge", "mergeLease",
                                       "decrementUnmerge", "decrementCallback"}
    PROVE  Core'
<1>1. Agree'
  <2>1. IsMerged' <=> IsMerged
    BY DEF IsMerged, IsAllLeaseTermsZero
  <2>2. (\A t \in Threads : at'[t] \notin Changing)
          => \A t \in Threads : at[t] \notin Changing
    BY DEF Threads
  <2> QED
    BY <2>1, <2>2 DEF Core, Agree
<1>2. WhoRuns'
  BY DEF Core, WhoRuns
<1>3. LeaseLasts'
  <2>1. lease[cur["raster"]] \in Nat /\ overlap \in Nat /\ Lease \in Nat
    BY LeaseAssumption DEF TypeOK, Threads
  <2> QED
    BY <2>1 DEF Core, LeaseLasts, MergedTail
<1> QED
  BY <1>1, <1>2, <1>3 DEF Core

\* The steps of Draw that leave the leases and the queues alone.
LEMMA DrawMoves ==
    ASSUME OneEngine, TypeOK, LocksHeld, Core, NEW t \in Threads,
           \/ DrawCheckThread(t) \/ ConsumeNothing(t) \/ ConsumeFrame(t)
           \/ DrawLastLayerTrees(t) \/ BeginFrame(t) \/ PrerollPlain(t)
           \/ PrerollPlatformViews(t) \/ MergeCheck(t) \/ FinishRaster(t)
           \/ MergeUnmergeCallback(t) \/ DecrementCheck(t) \/ EndFrame(t)
           \/ UnMergeNowIfLastOne(t)
    PROVE  Core'
<1> USE DEF Here, Go, mergerVars, engineVars, threadVars, queueVars
<1>0. /\ "platform" \in Threads /\ "raster" \in Threads /\ "platform" # "raster"
      /\ at \in [Threads -> Labels] /\ cur \in [Threads -> Engines]
  BY DEF Threads, TypeOK
<1>1. UNCHANGED <<callers, lease, subsumed, overlap, cur, failed>>
  BY DEF DrawCheckThread, ConsumeNothing, ConsumeFrame, DrawLastLayerTrees,
     BeginFrame, PrerollPlain, PrerollPlatformViews, MergeCheck, FinishRaster,
     MergeUnmergeCallback, DecrementCheck, EndFrame, UnMergeNowIfLastOne
<1>2. \A u \in Threads : u # t => at'[u] = at[u]
  BY <1>0 DEF DrawCheckThread, ConsumeNothing, ConsumeFrame,
     DrawLastLayerTrees, BeginFrame, PrerollPlain, PrerollPlatformViews,
     MergeCheck, FinishRaster, MergeUnmergeCallback, DecrementCheck, EndFrame,
     UnMergeNowIfLastOne
<1>3. CASE DrawCheckThread(t) \/ ConsumeNothing(t) \/ ConsumeFrame(t)
  <2>1. /\ at[t] \in {"draw", "consume"}
        /\ at'[t] \in {"idle", "consume", "begin", "end", "decrement"}
    BY <1>0, <1>3 DEF DrawCheckThread, ConsumeNothing, ConsumeFrame
  <2>2. t = "raster" => ~subsumed
    BY <2>1 DEF Core, WhoRuns, MergedTail
  <2>3. t = "platform" => subsumed
    BY <2>1 DEF Core, WhoRuns, Hosting, Counting
  <2> QED
    BY <1>0, <1>1, <1>2, <2>1, <2>2, <2>3, ThreadMoves
       DEF Threads, Changing, Counting
<1>4. CASE DrawLastLayerTrees(t) \/ BeginFrame(t) \/ PrerollPlain(t)
  <2>1. /\ at[t] \in {"drawLast", "begin", "preroll"}
        /\ at'[t] \in {"idle", "begin", "end", "preroll", "raster"}
    BY <1>0, <1>4 DEF DrawLastLayerTrees, BeginFrame, PrerollPlain
  <2>2. t = "raster" => ~subsumed
    BY <2>1 DEF Core, WhoRuns, MergedTail
  <2>3. t = "platform" => subsumed
    BY <2>1 DEF Core, WhoRuns, Hosting, Counting
  <2> QED
    BY <1>0, <1>1, <1>2, <2>1, <2>2, <2>3, ThreadMoves
       DEF Threads, Changing, Counting
<1>5. CASE PrerollPlatformViews(t)
  <2>1. /\ at[t] = "preroll"
        /\ at'[t] = IF IsMerged THEN "extend" ELSE "merge"
        /\ Free(cur[t])
    BY <1>0, <1>5 DEF PrerollPlatformViews
  <2>2. subsumed <=> IsMerged
    BY <1>0, <2>1, FreeAgrees DEF Core
  <2>3. t = "raster" => ~subsumed
    BY <2>1 DEF Core, WhoRuns, MergedTail
  <2>4. t = "platform" => subsumed
    BY <2>1 DEF Core, WhoRuns, Hosting, Counting
  <2> QED
    BY <1>0, <1>1, <1>2, <2>1, <2>2, <2>3, <2>4, ThreadMoves
       DEF Threads, Changing, Counting
<1>6. CASE MergeCheck(t)
  <2>1. at[t] = "merge" /\ at'[t] \in {"mergeShared", "cleanup"}
    BY <1>0, <1>6 DEF MergeCheck
  <2>2. t = "raster" /\ ~subsumed
    BY <2>1 DEF Core, WhoRuns, MergedTail, Threads
  <2> QED
    BY <1>0, <1>1, <1>2, <2>1, <2>2, ThreadMoves DEF Changing
<1>7. CASE FinishRaster(t) \/ DecrementCheck(t)
  <2>1. /\ at[t] \in {"raster", "cleanup", "decrement"}
        /\ at'[t] \in {"end", "decrement", "decrementShared"}
    BY <1>0, <1>7 DEF FinishRaster, DecrementCheck
  <2>2. t = "raster" /\ subsumed => at["raster"] \in MergedTail
    BY <2>1 DEF Core, WhoRuns, MergedTail
  <2>3. t = "platform" => subsumed /\ at[t] \in Counting
    BY <2>1 DEF Core, WhoRuns, Hosting, Counting
  <2> QED
    BY <1>0, <1>1, <1>2, <2>1, <2>2, <2>3, ThreadMoves
       DEF Threads, Changing, MergedTail
<1>8. CASE MergeUnmergeCallback(t)
  <2>1. \/ at[t] = "mergeCallback" /\ at'[t] = "cleanup"
        \/ at[t] = "decrementCallback" /\ at'[t] = "end"
    BY <1>0, <1>8 DEF MergeUnmergeCallback
  <2>2. \/ t = "raster" /\ at[t] = "mergeCallback" /\ at'[t] = "cleanup"
        \/ t = "platform" /\ at[t] = "decrementCallback" /\ at'[t] = "end"
    BY <2>1 DEF Core, WhoRuns, Threads
  <2> QED
    BY <1>0, <1>1, <1>2, <2>2, ThreadMoves
       DEF Threads, Changing, MergedTail, Hosting, Counting
<1>9. CASE EndFrame(t)
  <2>1. at[t] = "end" /\ at'[t] = "idle"
    BY <1>0, <1>9 DEF EndFrame
  <2> QED
    BY <1>0, <1>1, <1>2, <2>1, ThreadMoves
       DEF Threads, Changing, MergedTail, Hosting, Counting
<1>10. CASE UnMergeNowIfLastOne(t)
  <2>1. at[t] = "unmerge" /\ at'[t] \in {"erase", "signal"}
    BY <1>0, <1>10 DEF UnMergeNowIfLastOne
  <2>2. t = "platform" /\ subsumed
    BY <2>1 DEF Core, WhoRuns, Threads, Hosting
  <2> QED
    BY <1>0, <1>1, <1>2, <2>1, <2>2, ThreadMoves
       DEF Changing, Hosting, Counting
<1> QED
  BY <1>3, <1>4, <1>5, <1>6, <1>7, <1>8, <1>9, <1>10

\* MergeWithLease, which only the raster thread gets to, with all leases zero.
LEMMA MergeSteps ==
    ASSUME OneEngine, TypeOK, LocksHeld, Core, NEW t \in Threads,
           MergeShared(t) \/ MergeLease(t)
    PROVE  Core'
<1> USE DEF Here, Go, mergerVars, engineVars, queueVars
<1>0. /\ "platform" \in Threads /\ "raster" \in Threads /\ "platform" # "raster"
      /\ at \in [Threads -> Labels] /\ cur["raster"] \in Engines
      /\ overlap \in Nat /\ Lease \in Nat \ {0}
      /\ lease \in [Engines -> 0..Lease]
  BY LeaseAssumption DEF Threads, TypeOK
<1>1. /\ t = "raster" /\ at["raster"] \in {"mergeShared", "mergeLease"}
      /\ UNCHANGED <<cur, overlap, failed>>
      /\ at'["platform"] = at["platform"]
  BY <1>0 DEF MergeShared, MergeLease, Core, WhoRuns, Threads
<1>2. CASE MergeShared(t)
  <2>1. ~IsMerged
    BY <1>2 DEF MergeShared, LocksHeld
  <2>2. /\ subsumed' = TRUE /\ at'["raster"] = "mergeLease"
        /\ UNCHANGED <<callers, lease>> /\ at["raster"] = "mergeShared"
    BY <1>0, <1>1, <1>2, <2>1 DEF MergeShared
  <2>3. Agree'
    BY <1>0, <2>2 DEF Agree, Changing
  <2>4. at["platform"] \notin Hosting
    BY <2>2 DEF Core, WhoRuns, MergedTail
  <2>5. WhoRuns'
    BY <1>1, <2>2, <2>4 DEF Core, WhoRuns
  <2>6. LeaseLasts'
    BY <1>1, <2>2, <2>4 DEF Core, LeaseLasts, MergedTail, Hosting
  <2> QED
    BY <1>1, <2>3, <2>5, <2>6 DEF Core
<1>3. CASE MergeLease(t)
  <2>1. /\ subsumed /\ subsumed' = subsumed /\ at'["raster"] = "mergeCallback"
        /\ callers' = callers \cup {cur["raster"]}
        /\ lease' = [lease EXCEPT ![cur["raster"]] = Lease]
        /\ at["raster"] = "mergeLease"
    BY <1>0, <1>1, <1>3 DEF MergeLease, ExtendLeaseTo, LocksHeld
  <2>2. lease'[cur["raster"]] = Lease
    BY <1>0, <2>1
  <2>3. IsMerged'
    BY <1>0, <2>1, <2>2 DEF IsMerged, IsAllLeaseTermsZero
  <2>4. WhoRuns'
    BY <1>1, <2>1 DEF Core, WhoRuns, MergedTail
  <2>5. LeaseLasts'
    BY <1>0, <1>1, <2>1, <2>2 DEF Core, LeaseLasts
  <2> QED
    BY <1>1, <2>1, <2>3, <2>4, <2>5 DEF Core, Agree
<1> QED
  BY <1>2, <1>3

\* ExtendLeaseTo, which only the platform thread gets to, while merged.
LEMMA ExtendStep ==
    ASSUME OneEngine, TypeOK, LocksHeld, Core, NEW t \in Threads,
           ExtendLease(t)
    PROVE  Core'
<1> USE DEF Here, Go, mergerVars, engineVars, queueVars
<1>0. /\ "platform" \in Threads /\ "raster" \in Threads /\ "platform" # "raster"
      /\ at \in [Threads -> Labels]
      /\ cur["raster"] \in Engines /\ cur["platform"] \in Engines
      /\ overlap \in Nat /\ Lease \in Nat \ {0}
      /\ lease \in [Engines -> 0..Lease]
  BY LeaseAssumption DEF Threads, TypeOK
<1>1. t = "platform" /\ at["platform"] = "extend"
  BY DEF ExtendLease, Core, WhoRuns, Threads
<1>2. subsumed
  BY <1>1 DEF Core, WhoRuns, Hosting, Counting
<1>3. /\ at'["raster"] = at["raster"] /\ at'["platform"] = "raster"
      /\ UNCHANGED <<cur, overlap, subsumed, failed>>
  BY <1>0, <1>1 DEF ExtendLease
<1>4. CASE UNCHANGED <<callers, lease>>
  BY <1>1, <1>2, <1>3, <1>4, ThreadMoves DEF Counting, Changing
<1>5. CASE /\ callers' = callers \cup {cur["platform"]}
           /\ lease' = [lease EXCEPT ![cur["platform"]] = Lease]
  <2>1. cur["raster"] = cur["platform"] /\ lease'[cur["raster"]] = Lease
    BY <1>0, <1>5 DEF OneEngine
  <2>2. IsMerged'
    BY <1>0, <1>5, <2>1 DEF IsMerged, IsAllLeaseTermsZero
  <2>3. WhoRuns'
    BY <1>2, <1>3 DEF Core, WhoRuns
  <2>4. at["raster"] # "idle" => overlap >= 1
    BY <1>1 DEF Core, LeaseLasts, Counting
  <2>5. LeaseLasts'
    BY <1>0, <1>3, <2>1, <2>4 DEF Core, LeaseLasts, MergedTail
  <2> QED
    BY <1>2, <1>3, <2>2, <2>3, <2>5 DEF Core, Agree
<1> QED
  BY <1>1, <1>4, <1>5 DEF ExtendLease, ExtendLeaseTo

\* DecrementLease.  Its caller has a lease that is positive, and on the raster
\* thread LeaseLasts leaves it more than one.
LEMMA DecrementStep ==
    ASSUME OneEngine, TypeOK, LocksHeld, Core, NEW t \in Threads,
           DecrementShared(t)
    PROVE  Core'
<1> USE DEF Here, Go, mergerVars, engineVars, queueVars
<1>0. /\ "platform" \in Threads /\ "raster" \in Threads /\ "platform" # "raster"
      /\ at \in [Threads -> Labels] /\ cur[t] \in Engines
      /\ cur["raster"] \in Engines /\ callers \subseteq Engines
      /\ overlap \in Nat /\ Lease \in Nat \ {0}
      /\ lease \in [Engines -> 0..Lease]
  BY LeaseAssumption DEF Threads, TypeOK
<1>1. at[t] = "decrementShared" /\ IsMerged
  BY DEF DecrementShared, LocksHeld
<1>2. \A u \in Threads : at[u] \notin Changing
  BY <1>1, OneInside DEF Inside, Changing
<1>3. subsumed
  BY <1>1, <1>2 DEF Core, Agree
<1>4. cur[t] \in callers /\ lease[cur[t]] > 0 /\ cur["raster"] = cur[t]
  <2>1. \E c \in callers : lease[c] # 0
    BY <1>1 DEF IsMerged, IsAllLeaseTermsZero
  <2> QED
    BY <1>0, <2>1 DEF OneEngine
<1>5. /\ UNCHANGED <<callers, subsumed, cur, overlap, failed>>
      /\ lease' = [lease EXCEPT ![cur[t]] = lease[cur[t]] - 1]
  BY <1>0, <1>4 DEF DecrementShared
<1>6. lease'[cur[t]] = lease[cur[t]] - 1
  BY <1>0, <1>5
<1>7. \/ at' = [at EXCEPT ![t] = "decrementUnmerge"]
      \/ at' = [at EXCEPT ![t] = "end"] /\ \E c \in callers : lease'[c] # 0
  <2>1. ~(cur[t] \in callers /\ lease[cur[t]] = 0)
    BY <1>0, <1>4
  <2> QED
    BY <2>1 DEF DecrementShared
<1>8. lease'[cur[t]] # 0 => at' = [at EXCEPT ![t] = "end"]
  BY <1>0, <1>4, <1>5 DEF DecrementShared
<1>9. CASE t = "platform"
  <2>1. /\ at'["raster"] = at["raster"]
        /\ at'["platform"] \in {"decrementUnmerge", "end"}
    BY <1>0, <1>7, <1>9
  <2>2. Agree'
    BY <1>0, <1>3, <1>5, <1>7, <1>9 DEF Agree, Changing, IsMerged,
                                        IsAllLeaseTermsZero
  <2>3. WhoRuns'
    BY <1>3, <1>5, <2>1 DEF Core, WhoRuns
  <2>4. lease[cur["raster"]] \in Nat
    BY <1>0
  <2>5. LeaseLasts'
    BY <1>0, <1>1, <1>3, <1>4, <1>5, <1>6, <1>9, <2>1, <2>4
       DEF Core, LeaseLasts, Counting
  <2> QED
    BY <1>5, <2>2, <2>3, <2>5 DEF Core
<1>10. CASE t = "raster"
  <2>1. lease[cur["raster"]] + overlap >= Lease
    BY <1>0, <1>1, <1>3, <1>4, <1>10 DEF Core, LeaseLasts, MergedTail
  <2>2. lease'[cur[t]] # 0
    BY <1>0, <1>4, <1>6, <2>1 DEF Core, LeaseLasts
  <2>3. at'["raster"] = "end" /\ at'["platform"] = at["platform"]
    BY <1>0, <1>8, <1>10, <2>2
  <2>4. IsMerged'
    BY <1>4, <1>5, <2>2 DEF IsMerged, IsAllLeaseTermsZero
  <2>5. WhoRuns'
    BY <1>3, <1>5, <2>3 DEF Core, WhoRuns
  <2>6. LeaseLasts'
    BY <1>1, <1>5, <1>10, <2>3 DEF Core, LeaseLasts, MergedTail
  <2> QED
    BY <1>3, <1>5, <2>4, <2>5, <2>6 DEF Core, Agree
<1> QED
  BY <1>9, <1>10 DEF Threads

\* The steps that unmerge, which only the platform thread gets to.
LEMMA UnmergeSteps ==
    ASSUME OneEngine, TypeOK, LocksHeld, Core, NEW t \in Threads,
           DecrementUnmerge(t) \/ EraseLease(t) \/ TeardownUnmerge(t)
    PROVE  Core'
<1> USE DEF Here, Go, mergerVars, engineVars, queueVars
<1>0. /\ "platform" \in Threads /\ "raster" \in Threads /\ "platform" # "raster"
      /\ at \in [Threads -> Labels]
      /\ cur["raster"] \in Engines /\ cur["platform"] \in Engines
      /\ callers \subseteq Engines
  BY DEF Threads, TypeOK
<1>1. /\ t = "platform" /\ subsumed
      /\ at["platform"] \in {"decrementUnmerge", "erase", "teardownUnmerge"}
      /\ UNCHANGED <<lease, cur, overlap>> /\ at'["raster"] = at["raster"]
  BY <1>0 DEF DecrementUnmerge, EraseLease, TeardownUnmerge, Core, WhoRuns,
     Threads, Hosting
<1>2. CASE DecrementUnmerge(t) \/ TeardownUnmerge(t)
  <2>1. /\ subsumed' = FALSE /\ failed' = failed /\ callers' = callers
        /\ at'["platform"] \in {"decrementCallback", "signal"}
    BY <1>0, <1>1, <1>2 DEF DecrementUnmerge, TeardownUnmerge, UnMergeNow
  <2>2. ~IsMerged'
    <3>1. ~IsMerged
      BY <1>1, <1>2 DEF DecrementUnmerge, TeardownUnmerge, LocksHeld, Changing
    <3> QED
      BY <1>1, <2>1, <3>1 DEF IsMerged, IsAllLeaseTermsZero
  <2>3. WhoRuns'
    BY <1>1, <2>1 DEF Core, WhoRuns, Hosting, Counting
  <2>4. LeaseLasts'
    BY <1>1, <2>1 DEF Core, LeaseLasts, Counting
  <2> QED
    BY <2>1, <2>2, <2>3, <2>4 DEF Core, Agree
<1>3. CASE EraseLease(t)
  <2>1. callers' = {}
    BY <1>0, <1>1, <1>3 DEF EraseLease, OneEngine
  <2>2. /\ at'["platform"] = "teardownUnmerge"
        /\ UNCHANGED <<subsumed, failed>>
    BY <1>0, <1>1, <1>3, <2>1 DEF EraseLease
  <2>3. Agree'
    BY <1>0, <2>2 DEF Agree, Changing
  <2>4. WhoRuns'
    BY <1>1, <2>2 DEF Core, WhoRuns
  <2>5. LeaseLasts'
    BY <1>1, <2>1, <2>2 DEF Core, LeaseLasts, Counting
  <2> QED
    BY <2>2, <2>3, <2>4, <2>5 DEF Core
<1> QED
  BY <1>2, <1>3

\* A task starts on the thread that serves the raster queue; beside the Draw
\* that merged it is counted.
LEMMA StartStep ==
    ASSUME TypeOK, Core, NEW t \in Threads, StartTask(t), ~outlasted'
    PROVE  Core'
<1> USE DEF Here, Go, mergerVars, engineVars, queueVars
<1>0. /\ "platform" \in Threads /\ "raster" \in Threads /\ "platform" # "raster"
      /\ at \in [Threads -> Labels] /\ cur \in [Threads -> Engines]
      /\ overlap \in Nat /\ Lease \in Nat \ {0, 1}
      /\ lease[cur["raster"]] \in Nat
  BY LeaseAssumption DEF Threads, TypeOK
<1>1. /\ UNCHANGED <<callers, lease, subsumed, failed>>
      /\ t = IF subsumed THEN "platform" ELSE "raster"
      /\ at[t] = "idle"
      /\ \A u \in Threads : u # t => at'[u] = at[u] /\ cur'[u] = cur[u]
  BY <1>0 DEF StartTask
<1>2. at'[t] \in {"draw", "drawLast", "setup", "teardown"}
  BY <1>0, TaskTypes DEF StartTask
<1>3. Agree'
  <2>1. IsMerged' <=> IsMerged
    BY <1>1 DEF IsMerged, IsAllLeaseTermsZero
  <2>2. (\A u \in Threads : at'[u] \notin Changing)
          => \A u \in Threads : at[u] \notin Changing
    BY <1>1 DEF Changing
  <2> QED
    BY <1>1, <2>1, <2>2 DEF Core, Agree
<1>4. CASE t = "platform"
  <2>1. at'["raster"] = at["raster"] /\ cur'["raster"] = cur["raster"] /\ subsumed
    BY <1>0, <1>1, <1>4
  <2>2. WhoRuns'
    BY <1>1, <1>2, <1>4, <2>1 DEF Core, WhoRuns
  <2>3. LeaseLasts'
    <3>1. CASE at["raster"] = "idle"
      <4>1. overlap' = 0
        BY <3>1 DEF StartTask
      <4> QED
        BY <1>0, <2>1, <3>1, <4>1 DEF LeaseLasts, MergedTail
    <3>2. CASE at["raster"] # "idle"
      <4>1. overlap + 1 < Lease
        BY DEF Core, LeaseLasts
      <4>2. overlap' = overlap + 1 /\ overlap' + 1 < Lease
        <5>1. overlap' = overlap + 1
          BY <1>0, <3>2, <4>1 DEF StartTask
        <5>2. ~(overlap' + 1 >= Lease)
          BY <3>2, Zenon DEF StartTask
        <5> QED
          BY <1>0, <5>1, <5>2
      <4>3. at["platform"] \notin Counting
        BY <1>1, <1>4 DEF Counting
      <4> QED
        BY <1>0, <1>1, <2>1, <4>2, <4>3 DEF Core, LeaseLasts
    <3> QED
      BY <3>1, <3>2
  <2> QED
    BY <1>1, <1>3, <2>2, <2>3 DEF Core
<1>5. CASE t = "raster"
  <2>1. at'["platform"] = at["platform"] /\ ~subsumed
    BY <1>0, <1>1, <1>5
  <2>2. overlap' = 0
    BY <1>1, <1>5 DEF StartTask
  <2>3. WhoRuns'
    BY <1>1, <1>2, <1>5, <2>1 DEF Core, WhoRuns
  <2>4. at["platform"] \notin Counting
    BY <2>1 DEF Core, WhoRuns, Hosting
  <2>5. LeaseLasts'
    BY <1>0, <1>1, <2>1, <2>2, <2>4 DEF LeaseLasts
  <2> QED
    BY <1>1, <1>3, <2>3, <2>5 DEF Core
<1> QED
  BY <1>4, <1>5 DEF Threads

\* The other steps of Setup and Teardown.
LEMMA LifecycleMoves ==
    ASSUME OneEngine, TypeOK, LocksHeld, Core, NEW t \in Threads,
           \/ SetupEnable(t) \/ Setup(t) \/ TeardownEnable(t)
           \/ TeardownSurface(t) \/ SignalLatch(t)
    PROVE  Core'
<1> USE DEF Here, Go, mergerVars, engineVars, threadVars, queueVars
<1>0. /\ "platform" \in Threads /\ "raster" \in Threads /\ "platform" # "raster"
      /\ at \in [Threads -> Labels] /\ cur \in [Threads -> Engines]
  BY DEF Threads, TypeOK
<1>1. UNCHANGED <<callers, lease, subsumed, overlap, cur, failed>>
  BY DEF SetupEnable, Setup, TeardownEnable, TeardownSurface, SignalLatch
<1>2. CASE t = "platform"
  <2>1. at'["raster"] = at["raster"]
    BY <1>0, <1>2 DEF SetupEnable, Setup, TeardownEnable, TeardownSurface,
                      SignalLatch
  <2>2. \/ /\ at["platform"] \in {"setup", "setSurface", "teardown",
                                  "resetSurface"}
           /\ at'["platform"] \in {"setSurface", "idle", "resetSurface",
                                   "unmerge", "signal"}
        \/ at["platform"] = "signal" /\ at'["platform"] = "idle"
    BY <1>0, <1>2 DEF SetupEnable, Setup, TeardownEnable, TeardownSurface,
                      SignalLatch
  <2>3. at["platform"] \in Hosting => subsumed
    BY DEF Core, WhoRuns
  <2> QED
    BY <1>1, <2>1, <2>2, <2>3, ThreadMoves DEF Hosting, Counting, Changing
<1>3. CASE t = "raster"
  <2>1. at["raster"] \in {"setup", "setSurface", "teardown", "resetSurface",
                          "signal"}
    BY <1>3 DEF SetupEnable, Setup, TeardownEnable, TeardownSurface,
                SignalLatch
  <2>2. ~subsumed
    BY <2>1 DEF Core, WhoRuns, MergedTail
  <2>3. at'["raster"] \in {"setSurface", "idle", "resetSurface", "signal"}
    <3>1. CASE TeardownSurface(t)
      <4>1. hasMerger[cur[t]] => ~IsMerged
        BY <1>0, <2>2, <3>1, FreeAgrees DEF TeardownSurface, Core
      <4> QED
        BY <1>0, <1>3, <3>1, <4>1 DEF TeardownSurface
    <3>2. CASE ~TeardownSurface(t)
      BY <1>0, <1>3, <3>2 DEF SetupEnable, Setup, TeardownEnable, SignalLatch
    <3> QED
      BY <3>1, <3>2
  <2>4. at'["platform"] = at["platform"] \/ at'["platform"] = "idle"
    BY <1>0, <1>3 DEF SetupEnable, Setup, TeardownEnable, TeardownSurface,
                      SignalLatch
  <2>5. at["platform"] \notin Changing
    BY <2>2 DEF Core, WhoRuns, Hosting, Changing
  <2> QED
    BY <1>1, <2>1, <2>2, <2>3, <2>4, <2>5, ThreadMoves
       DEF Hosting, Counting, Changing
<1> QED
  BY <1>2, <1>3 DEF Threads

\* The steps of the platform thread outside raster tasks, and posting.
LEMMA ShellMoves ==
    ASSUME TypeOK, Core,
           \/ RunOrPostSetup \/ RunOrPostTeardown
           \/ \E e \in Engines :
                 \/ PostDraw(e) \/ PostDrawLast(e)
                 \/ OnPlatformViewCreated(e) \/ OnPlatformViewDestroyed(e)
    PROVE  Core'
<1> USE DEF Here, Go, mergerVars, engineVars, threadVars, queueVars
<1>0. /\ "platform" \in Threads /\ "raster" \in Threads /\ "platform" # "raster"
      /\ at \in [Threads -> Labels] /\ cur \in [Threads -> Engines]
  BY DEF Threads, TypeOK
<1>1. /\ UNCHANGED <<callers, lease, subsumed, overlap, failed>>
      /\ at'["raster"] = at["raster"] /\ cur'["raster"] = cur["raster"]
  BY <1>0 DEF RunOrPostSetup, RunOrPostTeardown, PostDraw, PostDrawLast,
              OnPlatformViewCreated, OnPlatformViewDestroyed
<1>2. \/ at'["platform"] = at["platform"]
      \/ /\ at["platform"] \in {"idle", "created", "destroyed"}
         /\ \/ at'["platform"] \in {"created", "destroyed", "idle", "latch"}
            \/ at'["platform"] \in {"setup", "teardown"} /\ subsumed
  BY <1>0 DEF RunOrPostSetup, RunOrPostTeardown, PostDraw, PostDrawLast,
              OnPlatformViewCreated, OnPlatformViewDestroyed
<1> QED
  BY <1>1, <1>2, ThreadMoves DEF Hosting, Counting, Changing

\* A Draw that has outlasted its lease is not forgotten.
LEMMA OutlastedStays ==
    ASSUME [Next]_vars, ~outlasted'
    PROVE  ~outlasted
<1>1. ASSUME NEW t \in Threads, DrawStep(t)
      PROVE  outlasted' = outlasted
  BY <1>1 DEF DrawStep, DrawCheckThread, ConsumeNothing, ConsumeFrame,
     DrawLastLayerTrees, BeginFrame, PrerollPlain, PrerollPlatformViews,
     MergeCheck, MergeShared, MergeLease, MergeUnmergeCallback,
     ExtendLease, FinishRaster, DecrementCheck, DecrementShared,
     DecrementUnmerge, EndFrame, queueVars
<1>2. ASSUME NEW t \in Threads, LifecycleStep(t)
      PROVE  outlasted' = outlasted
  BY <1>2 DEF LifecycleStep, SetupEnable, Setup, TeardownEnable,
     TeardownSurface, UnMergeNowIfLastOne, EraseLease, TeardownUnmerge,
     SignalLatch, queueVars
<1>3. ASSUME NEW t \in Threads, StartTask(t)
      PROVE  outlasted => outlasted'
  BY <1>3 DEF StartTask
<1>4. ASSUME \/ RunOrPostSetup \/ RunOrPostTeardown
             \/ \E e \in Engines :
                   \/ PostDraw(e) \/ PostDrawLast(e)
                   \/ OnPlatformViewCreated(e)
                   \/ OnPlatformViewDestroyed(e)
      PROVE  outlasted' = outlasted
  BY <1>4 DEF RunOrPostSetup, RunOrPostTeardown, PostDraw, PostDrawLast,
     OnPlatformViewCreated, OnPlatformViewDestroyed, queueVars
<1>5. CASE UNCHANGED vars
  BY <1>5 DEF vars, queueVars
<1> QED
  BY <1>1, <1>2, <1>3, <1>4, <1>5 DEF Next, ThreadStep

\* Core holds as long as no Draw outlasts its lease.
LEMMA CoreInvariant ==
    ASSUME OneEngine
    PROVE  Spec => [](~outlasted => Core)
<1> DEFINE C == ~outlasted => Core
<1>1. Init => C
  <2> SUFFICES ASSUME Init
               PROVE  Core
    OBVIOUS
  <2>1. /\ at["platform"] = "idle" /\ at["raster"] = "idle"
        /\ overlap = 0 /\ callers = {} /\ ~subsumed /\ failed = "none"
    BY DEF Init, Threads
  <2>2. Agree
    BY <2>1 DEF Agree, IsMerged, IsAllLeaseTermsZero
  <2>3. WhoRuns
    BY <2>1 DEF WhoRuns, Hosting, Counting
  <2>4. LeaseLasts
    BY <2>1, LeaseAssumption DEF LeaseLasts
  <2> QED
    BY <2>1, <2>2, <2>3, <2>4 DEF Core
<1>2. C /\ TypeOK /\ LocksHeld /\ [Next]_vars => C'
  <2> SUFFICES ASSUME C, TypeOK, LocksHeld, [Next]_vars, ~outlasted'
               PROVE  Core'
    OBVIOUS
  <2>1. ~outlasted
    BY OutlastedStays
  <2>2. Core
    BY <2>1
  <2>3. CASE UNCHANGED vars
    BY <2>2, <2>3, ThreadMoves DEF vars, mergerVars, threadVars, queueVars
  <2>4. ASSUME NEW t \in Threads, ThreadStep(t)
        PROVE  Core'
    <3>1. CASE StartTask(t)
      BY <2>2, <3>1, StartStep
    <3>2. CASE DrawStep(t)
      BY <2>2, <3>2, DrawMoves, MergeSteps, ExtendStep, DecrementStep,
         UnmergeSteps DEF DrawStep
    <3>3. CASE LifecycleStep(t)
      BY <2>2, <3>3, DrawMoves, LifecycleMoves, UnmergeSteps DEF LifecycleStep
    <3> QED
      BY <2>4, <3>1, <3>2, <3>3 DEF ThreadStep
  <2> QED
    BY <2>2, <2>3, <2>4, ShellMoves DEF Next
<1> QED
  BY <1>1, <1>2, LocksInvariant, PTL DEF Spec

\* With one engine no FML_CHECK of SharedThreadMerger aborts the process
\* unless a Draw outlasts the lease it took: the lease is positive whenever
\* DecrementLease takes from it, and the queues are merged whenever they are
\* to be unmerged.  (With two engines the first of them is false also without
\* such a Draw: see the run "lease".)
THEOREM ChecksHold ==
    ASSUME OneEngine
    PROVE  Spec => []NoCheckFails
<1>1. (~outlasted => Core) => NoCheckFails
  BY DEF Core, NoCheckFails
<1> QED
  BY <1>1, CoreInvariant, PTL

\* With one engine the leases and the task queues, which are changed one after
\* the other, agree whenever the SharedThreadMerger's mutex_ is free, unless a
\* Draw outlasts the lease it took.
THEOREM LeasesMatch ==
    ASSUME OneEngine
    PROVE  Spec => []LeaseMatchesQueues
<1>1. (~outlasted => Core) /\ LocksHeld => LeaseMatchesQueues
  <2> SUFFICES ASSUME Core, LocksHeld, sharedLock = Nobody
               PROVE  subsumed <=> IsMerged
    BY DEF LeaseMatchesQueues
  <2>1. \A t \in Threads : t # Nobody
    BY DEF Threads, Nobody
  <2>2. \A t \in Threads : at[t] \notin Changing
    BY <2>1 DEF LocksHeld
  <2> QED
    BY <2>2 DEF Core, Agree
<1> QED
  BY <1>1, CoreInvariant, LocksInvariant, PTL
-----------------------------------------------------------------------------
(* A platform view that comes and goes *)

\* Where a thread sets up, or tears down, an engine's surface.
SettingUp == {"setup", "setSurface"}
TearingDown == {"teardown", "resetSurface", "unmerge", "erase",
                "teardownUnmerge", "signal"}

\* Where a thread does neither, nor begins to.
Special == SettingUp \cup TearingDown \cup {"created", "destroyed", "latch"}

\* The raster queue holds a task of this kind at place i.
Queued(i, kind) == i \in DOMAIN queue /\ queue[i][1] = kind

\* There is at most one setup and one teardown on its way.
OneOnItsWay ==
    /\ \A i, j \in DOMAIN queue :
        /\ Queued(i, "setup") /\ Queued(j, "setup") => i = j
        /\ Queued(i, "teardown") /\ Queued(j, "teardown") => i = j
    /\ at["platform"] \in SettingUp \cup {"created"} => at["raster"] \notin SettingUp
    /\ \A i \in DOMAIN queue :
        /\ Queued(i, "setup") => /\ at["platform"] \notin SettingUp \cup {"created"}
                                 /\ at["raster"] \notin SettingUp
        /\ Queued(i, "teardown") => /\ at["platform"] = "latch"
                                    /\ at["raster"] \notin TearingDown

\* A setup on its way belongs to a view that has no surface yet, a teardown
\* to one that is being destroyed; the surface outlives the view only then.
ViewSound ==
    /\ \A i \in DOMAIN queue :
        Queued(i, "setup") => \A e \in Engines : view[e] /\ ~surface[e]
    /\ at["platform"] \in SettingUp \cup {"created"}
        => \A e \in Engines : view[e] /\ ~surface[e]
    /\ at["raster"] \in SettingUp => \A e \in Engines : view[e] /\ ~surface[e]
    /\ at["raster"] \in TearingDown => at["platform"] = "latch"
    /\ at["platform"] \in TearingDown \cup {"destroyed", "latch"}
        => \A e \in Engines : ~view[e]
    /\ \A e \in Engines : surface[e] => hasMerger[e]
    /\ \A e \in Engines :
        surface[e] => \/ view[e]
                      \/ at["platform"] \in {"destroyed", "teardown", "resetSurface"}
                      \/ /\ at["platform"] = "latch"
                         /\ at["raster"] \notin {"unmerge", "erase",
                                               "teardownUnmerge", "signal"}

\* The merger is disabled until the raster thread begins the teardown.
LatchSound ==
    /\ at["platform"] = "destroyed" => ~enabled
    /\ at["platform"] = "latch"
        => ~subsumed /\ (~enabled \/ at["raster"] \in TearingDown \ {"teardown"})

\* The inductive invariant of a single engine whose views are destroyed only
\* once they have a surface.
ViewInv ==
    /\ TypeOK
    /\ LocksHeld
    /\ OneOnItsWay
    /\ ViewSound
    /\ LatchSound

-----------------------------------------------------------------------------
(* The raster queue *)

\* Where a task is after another one was posted.
LEMMA QueueGrows ==
    ASSUME TypeOK, NEW e \in Engines,
           NEW k \in {"draw", "drawLast", "setup", "teardown"},
           queue' = Append(queue, <<k, e>>)
    PROVE  \A i, kind : Queued(i, kind)' =>
              \/ Queued(i, kind) /\ i # Len(queue) + 1
              \/ i = Len(queue) + 1 /\ kind = k
<1>1. queue \in Seq(Tasks) /\ <<k, e>> \in Tasks
  BY DEF TypeOK, Tasks
<1>2. /\ DOMAIN queue' = 1..(Len(queue) + 1) /\ DOMAIN queue = 1..Len(queue)
      /\ Len(queue) \in Nat
      /\ \A i \in 1..Len(queue) : queue'[i] = queue[i]
      /\ queue'[Len(queue) + 1] = <<k, e>>
  BY <1>1
<1> QED
  BY <1>2 DEF Queued

\* Where a task is after the one at the head was taken.
LEMMA QueueShrinks ==
    ASSUME TypeOK, queue # <<>>, queue' = Tail(queue)
    PROVE  /\ Queued(1, Head(queue)[1])
           /\ \A i, kind : Queued(i, kind)' =>
                 i \in Nat /\ i + 1 # 1 /\ Queued(i + 1, kind)
<1>1. queue \in Seq(Tasks)
  BY DEF TypeOK
<1>2. /\ DOMAIN queue' = 1..(Len(queue) - 1) /\ DOMAIN queue = 1..Len(queue)
      /\ Len(queue) \in Nat \ {0}
      /\ \A i \in 1..(Len(queue) - 1) : queue'[i] = queue[i + 1]
      /\ Head(queue) = queue[1]
  BY <1>1
<1> QED
  BY <1>2 DEF Queued

\* A step that concerns neither a setup nor a teardown.
LEMMA QuietStep ==
    ASSUME OneOnItsWay, ViewSound, UNCHANGED <<view, surface, hasMerger>>,
           \A t \in Threads : \/ at'[t] = at[t]
                              \/ at[t] \notin Special /\ at'[t] \notin Special,
           \E d \in {0, 1} : \A i, k :
              k \in {"setup", "teardown"} /\ Queued(i, k)' =>
                 i \in Nat /\ Queued(i + d, k)
    PROVE  OneOnItsWay' /\ ViewSound'
<1> PICK d \in {0, 1} : \A i, k :
              k \in {"setup", "teardown"} /\ Queued(i, k)' =>
                 i \in Nat /\ Queued(i + d, k)
  OBVIOUS
<1>1. "platform" \in Threads /\ "raster" \in Threads
  BY DEF Threads
<1>2. \A i, k : Queued(i, k) => i \in DOMAIN queue
  BY DEF Queued
<1>3. OneOnItsWay'
  <2>1. ASSUME NEW i, NEW j, NEW k \in {"setup", "teardown"},
               Queued(i, k)', Queued(j, k)'
        PROVE  i = j
    <3>1. i \in Nat /\ j \in Nat /\ Queued(i + d, k) /\ Queued(j + d, k)
      BY <2>1
    <3>2. i + d = j + d
      BY <1>2, <3>1 DEF OneOnItsWay
    <3> QED
      BY <3>1, <3>2
  <2>2. ASSUME NEW i, Queued(i, "setup")'
        PROVE  /\ at'["platform"] \notin SettingUp \cup {"created"}
               /\ at'["raster"] \notin SettingUp
    <3>1. Queued(i + d, "setup")
      BY <2>2
    <3> QED
      BY <1>1, <1>2, <3>1 DEF OneOnItsWay, Special
  <2>3. ASSUME NEW i, Queued(i, "teardown")'
        PROVE  at'["platform"] = "latch" /\ at'["raster"] \notin TearingDown
    <3>1. Queued(i + d, "teardown")
      BY <2>3
    <3> QED
      BY <1>1, <1>2, <3>1 DEF OneOnItsWay, Special
  <2>4. at'["platform"] \in SettingUp \cup {"created"} => at'["raster"] \notin SettingUp
    BY <1>1 DEF OneOnItsWay, Special
  <2> QED
    BY <2>1, <2>2, <2>3, <2>4 DEF OneOnItsWay
<1>4. ViewSound'
  <2>1. ASSUME NEW i, Queued(i, "setup")'
        PROVE  \A e \in Engines : view[e] /\ ~surface[e]
    <3>1. Queued(i + d, "setup")
      BY <2>1
    <3> QED
      BY <1>2, <3>1 DEF ViewSound
  <2> QED
    BY <1>1, <2>1 DEF ViewSound, Special, SettingUp, TearingDown
<1> QED
  BY <1>3, <1>4

\* Rasterizer::Draw and DrawLastLayerTrees, and posting them.
LEMMA FrameStep ==
    ASSUME TypeOK, LocksHeld, OneOnItsWay, ViewSound, LatchSound,
           \/ \E t \in Threads : DrawStep(t)
           \/ \E e \in Engines : PostDraw(e) \/ PostDrawLast(e)
           \/ \E t \in Threads : StartTask(t) /\ Head(queue)[1] \in {"draw", "drawLast"}
    PROVE  OneOnItsWay' /\ ViewSound' /\ LatchSound'
<1> USE DEF Here, Go, mergerVars, engineVars, threadVars, queueVars
<1>0. /\ "platform" \in Threads /\ "raster" \in Threads
      /\ at \in [Threads -> Labels]
  BY DEF Threads, TypeOK
<1>1. UNCHANGED <<view, surface, hasMerger, enabled>>
  BY DEF DrawStep, DrawCheckThread, ConsumeNothing, ConsumeFrame,
     DrawLastLayerTrees, BeginFrame, PrerollPlain, PrerollPlatformViews,
     MergeCheck, MergeShared, MergeLease, MergeUnmergeCallback, ExtendLease,
     FinishRaster, DecrementCheck, DecrementUnmerge,
     DecrementShared, EndFrame, PostDraw, PostDrawLast, StartTask
<1>2. \A t \in Threads : \/ at'[t] = at[t]
                         \/ at[t] \notin Special /\ at'[t] \notin Special
  <2>1. CASE \E t \in Threads : DrawStep(t)
    BY <1>0, <2>1 DEF Special, SettingUp, TearingDown,
       DrawStep, DrawCheckThread, ConsumeNothing, ConsumeFrame,
       DrawLastLayerTrees, BeginFrame, PrerollPlain, PrerollPlatformViews,
       MergeCheck, MergeShared, MergeLease, MergeUnmergeCallback, ExtendLease,
     FinishRaster, DecrementCheck, DecrementUnmerge,
       DecrementShared, EndFrame
  <2>2. CASE \E e \in Engines : PostDraw(e) \/ PostDrawLast(e)
    BY <2>2 DEF PostDraw, PostDrawLast
  <2>3. CASE \E t \in Threads : StartTask(t) /\ Head(queue)[1] \in {"draw", "drawLast"}
    BY <1>0, <2>3 DEF StartTask, Special, SettingUp, TearingDown
  <2> QED
    BY <2>1, <2>2, <2>3
<1>3. \E d \in {0, 1} : \A i, k :
              k \in {"setup", "teardown"} /\ Queued(i, k)' =>
                 i \in Nat /\ Queued(i + d, k)
  <2>0. \A i, k : Queued(i, k) => i \in Nat /\ i + 0 = i
    <3>1. queue \in Seq(Tasks)
      BY <1>0 DEF TypeOK
    <3> QED
      BY <3>1 DEF Queued
  <2>1. CASE queue' = queue
    BY <2>0, <2>1 DEF Queued
  <2>2. CASE \E e \in Engines, k \in {"draw", "drawLast"} :
                queue' = Append(queue, <<k, e>>)
    BY <1>0, <2>0, <2>2, QueueGrows
  <2>3. CASE queue # <<>> /\ queue' = Tail(queue)
    BY <1>0, <2>3, QueueShrinks
  <2>4. ASSUME NEW t \in Threads, DrawStep(t)
        PROVE  \/ queue' = queue
               \/ \E e \in Engines, k \in {"draw", "drawLast"} :
                     queue' = Append(queue, <<k, e>>)
    <3>1. CASE EndFrame(t)
      BY <1>0, <3>1 DEF EndFrame, TypeOK
    <3>2. CASE ~EndFrame(t)
      BY <2>4, <3>2 DEF DrawStep, DrawCheckThread, ConsumeNothing, ConsumeFrame,
         DrawLastLayerTrees, BeginFrame, PrerollPlain, PrerollPlatformViews,
         MergeCheck, MergeShared, MergeLease, MergeUnmergeCallback, ExtendLease,
     FinishRaster, DecrementCheck, DecrementUnmerge,
         DecrementShared
    <3> QED
      BY <3>1, <3>2
  <2> QED
    BY <2>1, <2>2, <2>3, <2>4 DEF PostDraw, PostDrawLast, StartTask
<1>4. at'["platform"] = "latch" => ~subsumed'
  <2> SUFFICES ASSUME at'["platform"] = "latch", subsumed'
               PROVE  FALSE
    OBVIOUS
  <2>1. at["platform"] = "latch"
    BY <1>0, <1>2 DEF Special
  <2>2. ~subsumed
    BY <2>1 DEF LatchSound
  <2>3. \E t \in Threads : MergeShared(t)
    BY <2>2 DEF DrawStep, DrawCheckThread, ConsumeNothing, ConsumeFrame,
       DrawLastLayerTrees, BeginFrame, PrerollPlain, PrerollPlatformViews,
       MergeCheck, MergeLease, MergeUnmergeCallback, ExtendLease, FinishRaster,
       DecrementCheck, DecrementShared, DecrementUnmerge, UnMergeNow,
       EndFrame, PostDraw, PostDrawLast, StartTask
  <2>4. at["raster"] = "mergeShared"
    BY <2>1, <2>3 DEF MergeShared, Threads
  <2>5. enabled
    BY <1>0, <2>4 DEF LocksHeld, Inside
  <2> QED
    BY <2>1, <2>4, <2>5 DEF LatchSound, TearingDown
<1>5. LatchSound'
  BY <1>0, <1>1, <1>2, <1>4 DEF LatchSound, Special, TearingDown
<1> QED
  BY <1>1, <1>2, <1>3, <1>5, QuietStep

-----------------------------------------------------------------------------
(* Setup and teardown *)

\* The raster queue's task that sets up, or tears down, starts.
LEMMA StartSpecial ==
    ASSUME TypeOK, LocksHeld, OneOnItsWay, ViewSound, LatchSound,
           NEW t \in Threads, StartTask(t),
           Head(queue)[1] \in {"setup", "teardown"}
    PROVE  OneOnItsWay' /\ ViewSound' /\ LatchSound'
<1> USE DEF Here, Go, mergerVars, engineVars, threadVars, queueVars
<1>0. /\ "platform" \in Threads /\ "raster" \in Threads /\ "platform" # "raster"
      /\ at \in [Threads -> Labels] /\ cur \in [Threads -> Engines]
  BY DEF Threads, TypeOK
<1>9. \A i, k : Queued(i, k) => i \in DOMAIN queue
  BY DEF Queued
<1>1. /\ UNCHANGED <<view, surface, hasMerger, enabled, subsumed>>
      /\ at[t] = "idle" /\ at'[t] = Head(queue)[1]
      /\ queue # <<>> /\ queue' = Tail(queue)
  BY <1>0 DEF StartTask
<1>2. /\ Queued(1, Head(queue)[1])
      /\ \A i, kind : Queued(i, kind)' =>
            i \in Nat /\ i + 1 # 1 /\ Queued(i + 1, kind)
  BY <1>0, <1>1, QueueShrinks
<1>3. \A u \in Threads : u # t => at'[u] = at[u]
  BY <1>0 DEF StartTask
<1>4. \A k \in {"setup", "teardown"} :
         Head(queue)[1] = k => \A i : ~Queued(i, k)'
  BY <1>2, <1>9 DEF OneOnItsWay
<1>5. CASE Head(queue)[1] = "setup"
  <2>1. /\ at["platform"] \notin SettingUp \cup {"created"}
        /\ at["raster"] \notin SettingUp
        /\ \A e \in Engines : view[e] /\ ~surface[e]
    BY <1>2, <1>5, <1>9 DEF OneOnItsWay, ViewSound
  <2>2. OneOnItsWay'
    <3>1. \A i, j : Queued(i, "teardown")' /\ Queued(j, "teardown")' => i = j
      <4> SUFFICES ASSUME NEW i, NEW j, Queued(i, "teardown")', Queued(j, "teardown")'
                   PROVE  i = j
        OBVIOUS
      <4>1. i \in Nat /\ j \in Nat /\ i + 1 = j + 1
        BY <1>2, <1>9 DEF OneOnItsWay
      <4> QED
        BY <4>1
    <3>2. \A i : Queued(i, "teardown")' => /\ at'["platform"] = "latch"
                                           /\ at'["raster"] \notin TearingDown
      BY <1>0, <1>1, <1>2, <1>3, <1>5, <1>9 DEF OneOnItsWay, TearingDown, Threads
    <3>3. at'["platform"] \in SettingUp \cup {"created"} => at'["raster"] \notin SettingUp
      BY <1>0, <1>1, <1>3, <1>5, <2>1 DEF Threads, SettingUp
    <3> QED
      BY <1>4, <1>5, <3>1, <3>2, <3>3 DEF OneOnItsWay
  <2>3. ViewSound'
    BY <1>0, <1>1, <1>3, <1>4, <1>5, <2>1
       DEF ViewSound, SettingUp, TearingDown, Threads
  <2>4. LatchSound'
    BY <1>0, <1>1, <1>3, <1>5 DEF LatchSound, TearingDown, Threads
  <2> QED
    BY <2>2, <2>3, <2>4
<1>6. CASE Head(queue)[1] = "teardown"
  <2>1. at["platform"] = "latch" /\ at["raster"] \notin TearingDown
    BY <1>2, <1>6, <1>9 DEF OneOnItsWay
  <2>2. t = "raster" /\ at'["platform"] = "latch" /\ at'["raster"] = "teardown"
    BY <1>0, <1>1, <1>3, <1>6, <2>1 DEF Threads
  <2>3. \A i : ~Queued(i, "setup")'
    BY <1>2, <1>9, <2>1, LeaseAssumption DEF ViewSound
  <2>4. OneOnItsWay'
    BY <1>4, <1>6, <2>2, <2>3 DEF OneOnItsWay, SettingUp
  <2>5. ViewSound'
    BY <1>1, <2>1, <2>2, <2>3 DEF ViewSound, SettingUp, TearingDown
  <2>6. LatchSound'
    BY <1>1, <2>1, <2>2 DEF LatchSound
  <2> QED
    BY <2>4, <2>5, <2>6
<1> QED
  BY <1>5, <1>6

\* The raster task of OnPlatformViewCreated.
LEMMA SetupSteps ==
    ASSUME OneEngine, TypeOK, LocksHeld, OneOnItsWay, ViewSound, LatchSound,
           NEW t \in Threads, SetupEnable(t) \/ Setup(t)
    PROVE  OneOnItsWay' /\ ViewSound' /\ LatchSound'
<1> USE DEF Here, Go, mergerVars, engineVars, threadVars, queueVars
<1>0. /\ "platform" \in Threads /\ "raster" \in Threads /\ "platform" # "raster"
      /\ at \in [Threads -> Labels] /\ cur \in [Threads -> Engines]
  BY DEF Threads, TypeOK
<1>9. \A i, k : Queued(i, k) => i \in DOMAIN queue
  BY DEF Queued
<1>1. /\ at[t] \in SettingUp /\ at'[t] \in {"setSurface", "idle"}
      /\ \A u \in Threads : u # t => at'[u] = at[u]
      /\ UNCHANGED <<view, queue, subsumed>>
  BY <1>0 DEF SetupEnable, Setup, SettingUp
<1>2. \A e \in Engines : view[e] /\ ~surface[e]
  BY <1>0, <1>1 DEF ViewSound, Threads
<1>3. /\ at["platform"] \notin {"destroyed", "latch"}
      /\ at'["platform"] \notin {"destroyed", "latch"}
      /\ at["raster"] \notin TearingDown
      /\ at["platform"] \notin TearingDown
  BY <1>0, <1>1, <1>2, LeaseAssumption DEF ViewSound, Threads, TearingDown
<1>4. LatchSound'
  BY <1>3 DEF LatchSound
<1>5. /\ \A i : ~Queued(i, "setup")
      /\ \A u \in Threads : u # t => at[u] \notin SettingUp
      /\ t = "raster" => at["platform"] # "created"
  <2>1. CASE t = "platform"
    BY <1>0, <1>1, <1>9, <2>1 DEF OneOnItsWay, Threads
  <2>2. CASE t = "raster"
    BY <1>0, <1>1, <1>9, <2>2 DEF OneOnItsWay, Threads
  <2> QED
    BY <2>1, <2>2 DEF Threads
<1>6. \A i, k : Queued(i, k)' = Queued(i, k)
  BY <1>1 DEF Queued
<1>7. OneOnItsWay'
  BY <1>0, <1>1, <1>3, <1>5, <1>6, <1>9
     DEF OneOnItsWay, SettingUp, TearingDown, Threads
<1>8. ViewSound'
  <2>1. CASE SetupEnable(t)
    <3>1. UNCHANGED <<surface, hasMerger>> /\ at'[t] = "setSurface"
      BY <1>0, <2>1 DEF SetupEnable
    <3> QED
      BY <1>0, <1>1, <1>2, <1>3, <1>5, <1>6, <3>1
         DEF ViewSound, SettingUp, TearingDown, Threads
  <2>2. CASE Setup(t)
    <3>1. /\ at'[t] = "idle"
          /\ \A e \in Engines : hasMerger'[e]
      BY <1>0, <2>2 DEF Setup, OneEngine, TypeOK
    <3>2. /\ \A u \in Threads : at'[u] \notin SettingUp \cup TearingDown
          /\ at'["platform"] # "created"
      BY <1>0, <1>1, <1>3, <1>5, <3>1 DEF SettingUp, TearingDown, Threads
    <3> QED
      BY <1>0, <1>1, <1>2, <1>3, <1>5, <1>6, <3>1, <3>2 DEF ViewSound
  <2> QED
    BY <2>1, <2>2
<1> QED
  BY <1>4, <1>7, <1>8

\* The raster task of OnPlatformViewDestroyed.
LEMMA TeardownSteps ==
    ASSUME OneEngine, TypeOK, LocksHeld, OneOnItsWay, ViewSound, LatchSound,
           NEW t \in Threads,
           \/ TeardownEnable(t) \/ TeardownSurface(t)
           \/ UnMergeNowIfLastOne(t) \/ EraseLease(t) \/ TeardownUnmerge(t)
           \/ SignalLatch(t)
    PROVE  OneOnItsWay' /\ ViewSound' /\ LatchSound'
<1> USE DEF Here, Go, mergerVars, engineVars, threadVars, queueVars
<1> DEFINE Reset == {"unmerge", "erase", "teardownUnmerge", "signal"}
<1>0. /\ "platform" \in Threads /\ "raster" \in Threads /\ "platform" # "raster"
      /\ at \in [Threads -> Labels] /\ cur \in [Threads -> Engines]
  BY DEF Threads, TypeOK
<1>9. \A i, k : Queued(i, k) => i \in DOMAIN queue
  BY DEF Queued
<1>1. /\ at[t] \in TearingDown
      /\ UNCHANGED <<view, hasMerger, queue>>
      /\ subsumed' => subsumed
  BY DEF TeardownEnable, TeardownSurface, UnMergeNowIfLastOne, EraseLease,
         TeardownUnmerge, UnMergeNow, SignalLatch, TearingDown
<1>2. /\ \A e \in Engines : ~view[e]
      /\ at["platform"] \in TearingDown \cup {"latch"}
  BY <1>0, <1>1 DEF ViewSound, Threads, TearingDown
<1>3. /\ \A i : ~Queued(i, "setup")
      /\ at["raster"] \notin SettingUp
  BY <1>2, <1>9, LeaseAssumption DEF ViewSound
<1>4. \A i : ~Queued(i, "teardown")
  BY <1>0, <1>1, <1>2, <1>9 DEF OneOnItsWay, Threads, TearingDown
<1>5. \A i, k : Queued(i, k)' = Queued(i, k)
  BY <1>1 DEF Queued
<1>6. \/ /\ at[t] = "teardown" /\ at' = [at EXCEPT ![t] = "resetSurface"]
         /\ surface' = surface
      \/ /\ at[t] \in {"resetSurface"} \cup Reset
         /\ at[t] = "resetSurface" => \A e \in Engines : ~surface'[e]
         /\ at[t] # "resetSurface" => surface' = surface
         /\ \E l \in Reset : at' = [at EXCEPT ![t] = l]
      \/ /\ at[t] = "signal" /\ surface' = surface
         /\ at' = [at EXCEPT ![t] = "idle", !["platform"] = "idle"]
  <2>1. CASE TeardownEnable(t)
    BY <2>1 DEF TeardownEnable
  <2>2. CASE TeardownSurface(t)
    BY <1>0, <2>2 DEF TeardownSurface, TypeOK, OneEngine
  <2>3. CASE UnMergeNowIfLastOne(t) \/ EraseLease(t)
    BY <2>3 DEF UnMergeNowIfLastOne, EraseLease
  <2>4. CASE TeardownUnmerge(t)
    BY <2>4 DEF TeardownUnmerge
  <2>5. CASE SignalLatch(t)
    BY <2>5 DEF SignalLatch
  <2> QED
    BY <2>1, <2>2, <2>3, <2>4, <2>5
<1>7. CASE t = "platform"
  <2>1. at'["raster"] = at["raster"] /\ at["raster"] \notin TearingDown
    BY <1>0, <1>1, <1>6, <1>7 DEF ViewSound, TearingDown
  <2>2. at'["platform"] \in {"resetSurface", "idle"} \cup Reset
    BY <1>0, <1>6, <1>7
  <2>3. OneOnItsWay'
    BY <1>3, <1>4, <1>5, <2>1, <2>2 DEF OneOnItsWay, SettingUp
  <2>4. LatchSound'
    BY <2>2 DEF LatchSound
  <2>5. /\ \A e \in Engines : surface'[e] => surface[e]
        /\ at'["platform"] # "resetSurface" => \A e \in Engines : ~surface'[e]
    BY <1>0, <1>2, <1>6, <1>7 DEF ViewSound
  <2>6. ViewSound'
    BY <1>1, <1>2, <1>3, <1>5, <2>1, <2>2, <2>5
       DEF ViewSound, SettingUp, TearingDown
  <2> QED
    BY <2>3, <2>4, <2>6
<1>8. CASE t = "raster"
  <2>1. at["platform"] = "latch" /\ ~subsumed /\ ~subsumed'
    BY <1>1, <1>8 DEF ViewSound, LatchSound
  <2>2. \/ /\ at'["raster"] = "resetSurface" /\ at["raster"] = "teardown"
           /\ at'["platform"] = "latch" /\ surface' = surface
        \/ /\ at'["raster"] \in Reset /\ at'["platform"] = "latch"
           /\ \A e \in Engines : ~surface'[e]
        \/ /\ at'["raster"] = "idle" /\ at'["platform"] = "idle"
           /\ \A e \in Engines : ~surface'[e]
    <3>1. at["raster"] \in Reset => \A e \in Engines : ~surface[e]
      BY <1>2, <2>1 DEF ViewSound
    <3> QED
      BY <1>0, <1>6, <1>8, <2>1, <3>1
  <2>3. OneOnItsWay'
    BY <1>3, <1>4, <1>5, <2>2 DEF OneOnItsWay, SettingUp
  <2>4. LatchSound'
    BY <2>1, <2>2 DEF LatchSound, TearingDown
  <2>5. ViewSound'
    BY <1>1, <1>2, <1>3, <1>5, <2>1, <2>2
       DEF ViewSound, SettingUp, TearingDown
  <2> QED
    BY <2>3, <2>4, <2>5
<1> QED
  BY <1>7, <1>8 DEF Threads

\* The calls of the platform thread: the view appears or goes.
LEMMA ViewSteps ==
    ASSUME OneEngine, AwaitSetup, TypeOK, LocksHeld, OneOnItsWay, ViewSound, LatchSound,
           NEW e \in Engines,
           OnPlatformViewCreated(e) \/ OnPlatformViewDestroyed(e)
    PROVE  OneOnItsWay' /\ ViewSound' /\ LatchSound'
<1> USE DEF Here, Go, mergerVars, engineVars, threadVars, queueVars
<1>0. /\ "platform" \in Threads /\ "raster" \in Threads /\ "platform" # "raster"
      /\ at \in [Threads -> Labels] /\ cur \in [Threads -> Engines]
  BY DEF Threads, TypeOK
<1>9. \A i, k : Queued(i, k) => i \in DOMAIN queue
  BY DEF Queued
<1>1. /\ at["platform"] = "idle" /\ at'["raster"] = at["raster"]
      /\ UNCHANGED <<hasMerger, surface, queue, subsumed>>
      /\ \A d \in Engines : d = e
  BY <1>0 DEF OnPlatformViewCreated, OnPlatformViewDestroyed, OneEngine
<1>2. \A i, k : Queued(i, k)' = Queued(i, k)
  BY <1>1 DEF Queued
<1>3. /\ at["raster"] \notin TearingDown
      /\ \A i : ~Queued(i, "teardown")
  BY <1>1, <1>9 DEF ViewSound, OneOnItsWay
<1>4. CASE OnPlatformViewCreated(e)
  <2>1. at'["platform"] = "created" /\ ~view[e] /\ view'[e]
    BY <1>0, <1>4 DEF OnPlatformViewCreated, TypeOK
  <2>2. /\ \A i : ~Queued(i, "setup")
        /\ at["raster"] \notin SettingUp
        /\ ~surface[e]
    BY <1>1, <1>9, <2>1 DEF ViewSound
  <2>3. OneOnItsWay'
    BY <1>1, <1>2, <1>3, <2>1, <2>2 DEF OneOnItsWay
  <2>4. ViewSound'
    BY <1>1, <1>2, <1>3, <2>1, <2>2 DEF ViewSound, TearingDown
  <2>5. LatchSound'
    BY <2>1 DEF LatchSound
  <2> QED
    BY <2>3, <2>4, <2>5
<1>5. CASE OnPlatformViewDestroyed(e)
  <2>1. at'["platform"] = "destroyed" /\ surface[e] /\ ~view'[e]
    BY <1>0, <1>5 DEF OnPlatformViewDestroyed, TypeOK
  <2>2. /\ \A i : ~Queued(i, "setup")
        /\ at["raster"] \notin SettingUp
        /\ hasMerger[e]
    BY <1>9, <2>1 DEF ViewSound
  <2>3. ~enabled'
    BY <1>5, <2>2 DEF OnPlatformViewDestroyed, DisableThreadMergerIfNeeded, Disable
  <2>4. OneOnItsWay'
    BY <1>1, <1>2, <1>3, <2>1, <2>2 DEF OneOnItsWay
  <2>5. ViewSound'
    BY <1>1, <1>2, <1>3, <2>1, <2>2 DEF ViewSound, SettingUp
  <2>6. LatchSound'
    BY <2>1, <2>3 DEF LatchSound
  <2> QED
    BY <2>4, <2>5, <2>6
<1> QED
  BY <1>4, <1>5

\* The platform thread runs the raster task or posts it.
LEMMA PostSteps ==
    ASSUME TypeOK, LocksHeld, OneOnItsWay, ViewSound, LatchSound,
           RunOrPostSetup \/ RunOrPostTeardown
    PROVE  OneOnItsWay' /\ ViewSound' /\ LatchSound'
<1> USE DEF Here, Go, mergerVars, engineVars, threadVars, queueVars
<1>0. /\ "platform" \in Threads /\ "raster" \in Threads /\ "platform" # "raster"
      /\ at \in [Threads -> Labels] /\ cur \in [Threads -> Engines]
  BY DEF Threads, TypeOK
<1>9. \A i, k : Queued(i, k) => i \in DOMAIN queue
  BY DEF Queued
<1>1. /\ at'["raster"] = at["raster"]
      /\ UNCHANGED <<hasMerger, surface, view, subsumed, enabled>>
      /\ cur["platform"] \in Engines
  BY <1>0 DEF RunOrPostSetup, RunOrPostTeardown
<1>2. CASE RunOrPostSetup
  <2>1. at["platform"] = "created"
    BY <1>2 DEF RunOrPostSetup
  <2>2. /\ \A i : ~Queued(i, "setup") /\ ~Queued(i, "teardown")
        /\ at["raster"] \notin SettingUp \cup TearingDown
        /\ \A e \in Engines : view[e] /\ ~surface[e]
    BY <1>9, <2>1 DEF OneOnItsWay, ViewSound
  <2>3. \/ at'["platform"] = "setup" /\ queue' = queue
        \/ /\ at'["platform"] = "idle"
           /\ queue' = Append(queue, <<"setup", cur["platform"]>>)
    BY <1>0, <1>2 DEF RunOrPostSetup
  <2>4. CASE at'["platform"] = "setup" /\ queue' = queue
    <3>1. \A i, k : Queued(i, k)' = Queued(i, k)
      BY <2>4 DEF Queued
    <3>2. OneOnItsWay'
      BY <1>1, <2>2, <2>4, <3>1 DEF OneOnItsWay
    <3>3. ViewSound' /\ LatchSound'
      BY <1>1, <2>2, <2>4, <3>1 DEF ViewSound, LatchSound, TearingDown
    <3> QED
      BY <3>2, <3>3
  <2>5. CASE /\ at'["platform"] = "idle"
             /\ queue' = Append(queue, <<"setup", cur["platform"]>>)
    <3>1. \A i, k : Queued(i, k)' =>
              \/ Queued(i, k) /\ i # Len(queue) + 1
              \/ i = Len(queue) + 1 /\ k = "setup"
      BY <1>0, <1>1, <2>5, QueueGrows
    <3>2. OneOnItsWay'
      BY <1>1, <2>2, <2>5, <3>1 DEF OneOnItsWay, SettingUp
    <3>3. ViewSound' /\ LatchSound'
      BY <1>1, <2>2, <2>5 DEF ViewSound, LatchSound, SettingUp, TearingDown
    <3> QED
      BY <3>2, <3>3
  <2> QED
    BY <2>3, <2>4, <2>5
<1>3. CASE RunOrPostTeardown
  <2>1. at["platform"] = "destroyed" /\ ~enabled
    BY <1>3 DEF RunOrPostTeardown, LatchSound
  <2>2. /\ \A i : ~Queued(i, "setup") /\ ~Queued(i, "teardown")
        /\ at["raster"] \notin SettingUp \cup TearingDown
        /\ \A e \in Engines : ~view[e]
    BY <1>9, <2>1, LeaseAssumption DEF OneOnItsWay, ViewSound
  <2>3. \/ at'["platform"] = "teardown" /\ queue' = queue
        \/ /\ at'["platform"] = "latch" /\ ~subsumed
           /\ queue' = Append(queue, <<"teardown", cur["platform"]>>)
    BY <1>0, <1>3 DEF RunOrPostTeardown
  <2>4. CASE at'["platform"] = "teardown" /\ queue' = queue
    <3>1. \A i, k : Queued(i, k)' = Queued(i, k)
      BY <2>4 DEF Queued
    <3>2. OneOnItsWay'
      BY <1>1, <2>2, <2>4, <3>1 DEF OneOnItsWay, SettingUp
    <3>3. ViewSound' /\ LatchSound'
      BY <1>1, <2>2, <2>4, <3>1 DEF ViewSound, LatchSound, SettingUp
    <3> QED
      BY <3>2, <3>3
  <2>5. CASE /\ at'["platform"] = "latch" /\ ~subsumed
             /\ queue' = Append(queue, <<"teardown", cur["platform"]>>)
    <3>1. \A i, k : Queued(i, k)' =>
              \/ Queued(i, k) /\ i # Len(queue) + 1
              \/ i = Len(queue) + 1 /\ k = "teardown"
      BY <1>0, <1>1, <2>5, QueueGrows
    <3>2. OneOnItsWay'
      BY <1>1, <2>2, <2>5, <3>1 DEF OneOnItsWay, SettingUp
    <3>3. ViewSound' /\ LatchSound'
      BY <1>1, <2>1, <2>2, <2>5, <3>1
         DEF ViewSound, LatchSound, SettingUp, TearingDown
    <3> QED
      BY <3>2, <3>3
  <2> QED
    BY <2>3, <2>4, <2>5
<1> QED
  BY <1>2, <1>3

\* The invariant holds if views are destroyed only once they have a surface.
LEMMA ViewInvariant ==
    ASSUME OneEngine, AwaitSetup
    PROVE  Spec => []ViewInv
<1> DEFINE V == OneOnItsWay /\ ViewSound /\ LatchSound
<1>1. Init => V
  <2> SUFFICES ASSUME Init
               PROVE  V
    OBVIOUS
  <2>1. /\ at["platform"] = "idle" /\ at["raster"] = "idle"
        /\ queue = <<>> /\ \A e \in Engines : ~surface[e]
    BY DEF Init, Threads
  <2>2. DOMAIN queue = {}
    BY <2>1
  <2> QED
    BY <2>1, <2>2 DEF OneOnItsWay, ViewSound, LatchSound, SettingUp, TearingDown
<1>2. V /\ TypeOK /\ LocksHeld /\ [Next]_vars => V'
  <2> SUFFICES ASSUME OneOnItsWay, ViewSound, LatchSound, TypeOK, LocksHeld, [Next]_vars
               PROVE  OneOnItsWay' /\ ViewSound' /\ LatchSound'
    OBVIOUS
  <2>1. CASE UNCHANGED vars
    <3>1. UNCHANGED <<at, queue, view, surface, hasMerger, enabled, subsumed>>
      BY <2>1 DEF vars, mergerVars, engineVars, threadVars, queueVars
    <3> QED
      BY <3>1 DEF OneOnItsWay, ViewSound, LatchSound, Queued
  <2>2. ASSUME NEW t \in Threads, StartTask(t)
        PROVE  OneOnItsWay' /\ ViewSound' /\ LatchSound'
    <3>1. Head(queue)[1] \in {"draw", "drawLast", "setup", "teardown"}
      BY <2>2, TaskTypes DEF StartTask
    <3> QED
      BY <2>2, <3>1, FrameStep, StartSpecial
  <2>3. ASSUME NEW t \in Threads, DrawStep(t) \/ LifecycleStep(t)
        PROVE  OneOnItsWay' /\ ViewSound' /\ LatchSound'
    BY <2>3, FrameStep, SetupSteps, TeardownSteps DEF LifecycleStep
  <2>4. ASSUME NEW e \in Engines,
               \/ PostDraw(e) \/ PostDrawLast(e)
               \/ OnPlatformViewCreated(e) \/ OnPlatformViewDestroyed(e)
        PROVE  OneOnItsWay' /\ ViewSound' /\ LatchSound'
    BY <2>4, FrameStep, ViewSteps
  <2> QED
    BY <2>1, <2>2, <2>3, <2>4, PostSteps DEF Next, ThreadStep
<1>3. V /\ TypeOK /\ LocksHeld => ViewInv
  BY DEF ViewInv
<1> HIDE DEF V
<1> QED
  BY <1>1, <1>2, <1>3, LocksInvariant, PTL DEF Spec

\* With one engine whose view is destroyed only once it has a surface, the
\* platform thread waits in OnPlatformViewDestroyed only for a task that the
\* raster thread serves: the deadlock that Disable is there to prevent does
\* not happen.  (A Setup that is still on its way when the view is destroyed
\* enables the merger again: see the run "latch".)
THEOREM LatchIsServed ==
    ASSUME OneEngine, AwaitSetup
    PROVE  Spec => []LatchServed
<1>1. ViewInv => LatchServed
  BY DEF ViewInv, LatchSound, LatchServed
<1> QED
  BY <1>1, ViewInvariant, PTL

-----------------------------------------------------------------------------
(* The surface of a frame *)

\* A step of a thread that is not painting, or paints with the surface it
\* found, and the steps that set and reset the surface.
LEMMA SurfaceStep ==
    ASSUME OneEngine, TypeOK, TypeOK', LocksHeld, Core, ViewSound,
           \A t \in Threads : at[t] \in Painting => surface[cur[t]],
           [Next]_vars,
           NEW u \in Threads, at'[u] \in Painting
    PROVE  surface'[cur'[u]]
<1> USE DEF Here, Go, mergerVars, engineVars, threadVars, queueVars
<1>0. /\ "platform" \in Threads /\ "raster" \in Threads /\ "platform" # "raster"
      /\ at \in [Threads -> Labels] /\ cur \in [Threads -> Engines]
      /\ cur[u] \in Engines /\ cur'[u] = cur[u]
      /\ surface \in [Engines -> BOOLEAN]
  BY DEF Threads, TypeOK, OneEngine
<1>1. CASE UNCHANGED vars
  BY <1>0, <1>1 DEF vars
<1>2. ASSUME NEW t \in Threads, DrawStep(t)
      PROVE  surface'[cur[u]]
  <2>1. surface' = surface
    BY <1>2 DEF DrawStep, DrawCheckThread, ConsumeNothing, ConsumeFrame,
       DrawLastLayerTrees, BeginFrame, PrerollPlain, PrerollPlatformViews,
       MergeCheck, MergeShared, MergeLease, MergeUnmergeCallback,
       ExtendLease, FinishRaster, DecrementCheck, DecrementShared,
       DecrementUnmerge, EndFrame
  <2>2. CASE ConsumeFrame(t) \/ DrawLastLayerTrees(t)
    BY <1>0, <2>1, <2>2 DEF ConsumeFrame, DrawLastLayerTrees, Painting
  <2>3. CASE \/ DrawCheckThread(t) \/ ConsumeNothing(t) \/ BeginFrame(t)
             \/ PrerollPlain(t) \/ PrerollPlatformViews(t) \/ MergeCheck(t)
    BY <1>0, <2>1, <2>3 DEF DrawCheckThread, ConsumeNothing, BeginFrame,
       PrerollPlain, PrerollPlatformViews, MergeCheck, Painting
  <2>4. CASE \/ MergeShared(t) \/ MergeLease(t) \/ MergeUnmergeCallback(t)
             \/ ExtendLease(t) \/ FinishRaster(t)
    BY <1>0, <2>1, <2>4 DEF MergeShared, MergeLease, MergeUnmergeCallback,
       ExtendLease, FinishRaster, Painting
  <2>5. CASE \/ DecrementCheck(t) \/ DecrementShared(t)
             \/ DecrementUnmerge(t) \/ EndFrame(t)
    BY <1>0, <2>1, <2>5 DEF DecrementCheck, DecrementShared,
       DecrementUnmerge, EndFrame, Painting
  <2> QED
    BY <1>2, <2>2, <2>3, <2>4, <2>5 DEF DrawStep
<1>3. ASSUME NEW t \in Threads, StartTask(t)
      PROVE  surface'[cur[u]]
  <2>1. at'[t] \notin Painting
    BY <1>0, <1>3, TaskTypes DEF StartTask, Painting
  <2> QED
    BY <1>0, <1>3, <2>1 DEF StartTask
<1>4. ASSUME NEW t \in Threads, LifecycleStep(t)
      PROVE  surface'[cur[u]]
  <2>1. at'[u] = at[u]
    BY <1>0, <1>4 DEF LifecycleStep, SetupEnable, Setup, TeardownEnable,
       TeardownSurface, UnMergeNowIfLastOne, EraseLease, TeardownUnmerge,
       SignalLatch, Painting
  <2>2. surface[cur[u]]
    BY <2>1
  <2>3. CASE TeardownSurface(t)
    <3>1. at[t] = "resetSurface" /\ (hasMerger[cur[t]] => Free(cur[t]))
          /\ cur[t] = cur[u] /\ u # t
      BY <1>0, <2>1, <2>3 DEF TeardownSurface, OneEngine, Painting
    <3>2. hasMerger[cur[u]]
      BY <1>0, <2>2 DEF ViewSound
    <3>3. at[u] \notin Inside
      BY <1>0, <3>1, <3>2, OneInside
    <3>4. CASE t = "platform"
      <4>1. subsumed
        BY <3>1, <3>4 DEF Core, WhoRuns, Hosting
      <4>2. u = "raster"
        BY <3>1, <3>4 DEF Threads
      <4> QED
        BY <2>1, <3>3, <4>1, <4>2
           DEF Core, WhoRuns, MergedTail, Painting, Inside
    <3>5. CASE t = "raster"
      <4>1. at["platform"] = "latch" /\ u = "platform"
        BY <3>1, <3>5 DEF ViewSound, TearingDown, Threads
      <4> QED
        BY <2>1, <4>1 DEF Painting
    <3> QED
      BY <3>4, <3>5 DEF Threads
  <2>4. CASE ~TeardownSurface(t)
    <3>1. surface' = surface \/ surface' = [surface EXCEPT ![cur[t]] = TRUE]
      BY <1>4, <2>4 DEF LifecycleStep, SetupEnable, Setup, TeardownEnable,
         UnMergeNowIfLastOne, EraseLease, TeardownUnmerge, SignalLatch
    <3> QED
      BY <1>0, <2>2, <3>1
  <2> QED
    BY <2>3, <2>4
<1>5. ASSUME \/ RunOrPostSetup \/ RunOrPostTeardown
             \/ \E e \in Engines :
                   \/ PostDraw(e) \/ PostDrawLast(e)
                   \/ OnPlatformViewCreated(e) \/ OnPlatformViewDestroyed(e)
      PROVE  surface'[cur[u]]
  BY <1>0, <1>5 DEF RunOrPostSetup, RunOrPostTeardown, PostDraw,
     PostDrawLast, OnPlatformViewCreated, OnPlatformViewDestroyed, Painting
<1> QED
  BY <1>0, <1>1, <1>2, <1>3, <1>4, <1>5 DEF Next, ThreadStep

\* With one engine whose view is destroyed only once it has a surface, no
\* frame loses its surface to a Teardown on the other thread while it is
\* painted or before the merge callback has used the surface, unless a Draw
\* outlasts the lease it took.
THEOREM SurfaceKept ==
    ASSUME OneEngine, AwaitSetup
    PROVE  Spec => []SurfaceOutlivesFrame
<1>1. Init => SurfaceOutlivesFrame
  BY DEF Init, SurfaceOutlivesFrame, Painting
<1>2. /\ SurfaceOutlivesFrame /\ ViewInv /\ TypeOK' /\ (~outlasted => Core)
      /\ (~outlasted' => ~outlasted) /\ [Next]_vars
      => SurfaceOutlivesFrame'
  BY SurfaceStep DEF SurfaceOutlivesFrame, ViewInv
<1>3. [Next]_vars => (~outlasted' => ~outlasted)
  BY OutlastedStays
<1> QED
  BY <1>1, <1>2, <1>3, ViewInvariant, CoreInvariant, TypeCorrect, PTL
     DEF Spec
=============================================================================
