------------------------- MODULE ThreadMergerProofs -------------------------
(***************************************************************************)
(* Types of ThreadMerger, for any number of engines.                       *)
(***************************************************************************)
EXTENDS ThreadMerger, TLAPS

\* A task of the raster queue, and what taking one from it leaves.
LEMMA TaskTypes ==
    ASSUME TypeOK
    PROVE  /\ \A e \in Engines : \A k \in {"draw", "drawLast", "setup", "teardown"} :
                Append(queue, <<k, e>>) \in Seq(Tasks)
           /\ queue # <<>> => /\ Head(queue)[1] \in {"draw", "drawLast", "setup",
                                                     "teardown"}
                              /\ Head(queue)[2] \in Engines
                              /\ Tail(queue) \in Seq(Tasks)
<1>1. queue \in Seq(Tasks)
  BY DEF TypeOK
<1>2. ASSUME NEW e \in Engines, NEW k \in {"draw", "drawLast", "setup", "teardown"}
      PROVE  Append(queue, <<k, e>>) \in Seq(Tasks)
  <2>1. <<k, e>> \in Tasks
    BY <1>2 DEF Tasks
  <2> QED
    BY <1>1, <2>1
<1>3. ASSUME queue # <<>>
      PROVE  Head(queue) \in Tasks /\ Tail(queue) \in Seq(Tasks)
  BY <1>1, <1>3
<1> QED
  BY <1>2, <1>3 DEF Tasks

\* A flag of one thread may be set to anything.
LEMMA FlagTypes ==
    ASSUME NEW f \in [Threads -> BOOLEAN], NEW t \in Threads, NEW b \in BOOLEAN
    PROVE  [f EXCEPT ![t] = b] \in [Threads -> BOOLEAN]
  BY Zenon

\* The steps of Rasterizer::Draw.
LEMMA DrawTypes ==
    ASSUME TypeOK, NEW t \in Threads, DrawStep(t)
    PROVE  TypeOK'
<1> USE LeaseAssumption
<1> USE DEF TypeOK, Here, Go, Labels, mergerVars, engineVars, threadVars,
            queueVars
<1>1. CASE DrawCheckThread(t)
  BY <1>1 DEF DrawCheckThread
<1>2. CASE ConsumeNothing(t) \/ ConsumeFrame(t)
  <2>1. \E l \in Labels : at' = [at EXCEPT ![t] = l]
    BY <1>2 DEF ConsumeNothing, ConsumeFrame
  <2>2. at' \in [Threads -> Labels]
    BY <2>1
  <2> QED
    BY <1>2, <2>2 DEF ConsumeNothing, ConsumeFrame
<1>3. CASE DrawLastLayerTrees(t)
  <2>1. \E l \in Labels : at' = [at EXCEPT ![t] = l]
    BY <1>3 DEF DrawLastLayerTrees
  <2>2. at' \in [Threads -> Labels]
    BY <2>1
  <2>3. reuse' \in [Threads -> BOOLEAN]
    <3>1. reuse' = reuse \/ reuse' = [reuse EXCEPT ![t] = TRUE]
      BY <1>3 DEF DrawLastLayerTrees
    <3> QED
      BY <3>1, FlagTypes
  <2>4. last' \in [Engines -> BOOLEAN]
    BY <1>3 DEF DrawLastLayerTrees
  <2> QED
    BY <1>3, <2>2, <2>3, <2>4 DEF DrawLastLayerTrees
<1>4. CASE BeginFrame(t)
  BY <1>4 DEF BeginFrame
<1>5. CASE PrerollPlain(t) \/ PrerollPlatformViews(t)
  BY <1>5 DEF PrerollPlain, PrerollPlatformViews
<1>6. CASE MergeCheck(t)
  <2>1. more' \in [Threads -> BOOLEAN]
    <3>1. \E b \in BOOLEAN : more' = [more EXCEPT ![t] = b]
      BY <1>6, Zenon DEF MergeCheck
    <3> QED
      BY <3>1, FlagTypes
  <2>2. locked' \in [Engines -> Threads \cup {Nobody}]
    <3>1. locked' = locked \/ locked' = [locked EXCEPT ![cur[t]] = t]
      BY <1>6 DEF MergeCheck
    <3> QED
      BY <3>1
  <2>3. at' \in [Threads -> Labels]
    BY <1>6 DEF MergeCheck
  <2> QED
    BY <1>6, <2>1, <2>2, <2>3 DEF MergeCheck
<1>7. CASE MergeShared(t)
  <2>1. subsumed' \in BOOLEAN
    BY <1>7 DEF MergeShared
  <2>2. sharedLock' \in Threads \cup {Nobody}
    BY <1>7 DEF MergeShared
  <2>3. at' \in [Threads -> Labels]
    BY <1>7 DEF MergeShared
  <2> QED
    BY <1>7, <2>1, <2>2, <2>3 DEF MergeShared
<1>13. CASE MergeLease(t)
  <2>1. callers' \subseteq Engines /\ lease' \in [Engines -> 0..Lease]
    <3>1. cur[t] \in Engines /\ Lease \in 0..Lease
      OBVIOUS
    <3> QED
      BY <1>13, <3>1 DEF MergeLease, ExtendLeaseTo
  <2>2. at' \in [Threads -> Labels]
    BY <1>13 DEF MergeLease
  <2> QED
    BY <1>13, <2>1, <2>2 DEF MergeLease
<1>14. CASE MergeUnmergeCallback(t)
  <2>1. locked' \in [Engines -> Threads \cup {Nobody}]
    BY <1>14 DEF MergeUnmergeCallback
  <2>2. at' \in [Threads -> Labels]
    BY <1>14 DEF MergeUnmergeCallback
  <2> QED
    BY <1>14, <2>1, <2>2 DEF MergeUnmergeCallback
<1>8. CASE ExtendLease(t)
  <2>1. callers' \subseteq Engines /\ lease' \in [Engines -> 0..Lease]
    <3>1. cur[t] \in Engines /\ Lease \in 0..Lease
      OBVIOUS
    <3>2. \/ UNCHANGED <<callers, lease>>
          \/ /\ callers' = callers \cup {cur[t]}
             /\ lease' = [lease EXCEPT ![cur[t]] = Lease]
      BY <1>8 DEF ExtendLease, ExtendLeaseTo
    <3> QED
      BY <3>1, <3>2
  <2>2. more' \in [Threads -> BOOLEAN]
    <3>1. \E b \in BOOLEAN : more' = [more EXCEPT ![t] = b]
      BY <1>8, Zenon DEF ExtendLease
    <3> QED
      BY <3>1, FlagTypes
  <2>3. at' \in [Threads -> Labels]
    BY <1>8 DEF ExtendLease
  <2> QED
    BY <1>8, <2>1, <2>2, <2>3 DEF ExtendLease
<1>9. CASE FinishRaster(t)
  BY <1>9 DEF FinishRaster
<1>10. CASE DecrementCheck(t)
  BY <1>10 DEF DecrementCheck
<1>11. CASE DecrementShared(t)
  <2>1. lease' \in [Engines -> 0..Lease]
    <3>1. cur[t] \in Engines /\ lease[cur[t]] \in 0..Lease
      OBVIOUS
    <3>2. \/ lease' = lease
          \/ /\ lease[cur[t]] > 0
             /\ lease' = [lease EXCEPT ![cur[t]] = lease[cur[t]] - 1]
      BY <1>11 DEF DecrementShared
    <3>3. lease[cur[t]] > 0 => lease[cur[t]] - 1 \in 0..Lease
      BY <3>1
    <3>4. lease \in [Engines -> 0..Lease]
      OBVIOUS
    <3> QED
      BY <3>1, <3>2, <3>3, <3>4
  <2>2. sharedLock' \in Threads \cup {Nobody}
    BY <1>11 DEF DecrementShared
  <2>3. failed' \in {"none", "lease", "unmerge"}
    BY <1>11 DEF DecrementShared
  <2>4. locked' \in [Engines -> Threads \cup {Nobody}]
    <3>1. locked' = locked \/ locked' = [locked EXCEPT ![cur[t]] = Nobody]
      BY <1>11 DEF DecrementShared
    <3> QED
      BY <3>1
  <2>5. at' \in [Threads -> Labels]
    <3>1. \/ at' = at \/ at' = [at EXCEPT ![t] = "end"]
          \/ at' = [at EXCEPT ![t] = "decrementUnmerge"]
      BY <1>11 DEF DecrementShared
    <3> QED
      BY <3>1
  <2> QED
    BY <1>11, <2>1, <2>2, <2>3, <2>4, <2>5 DEF DecrementShared
<1>15. CASE DecrementUnmerge(t)
  <2>1. more' \in [Threads -> BOOLEAN]
    <3>1. more' = [more EXCEPT ![t] = TRUE]
      BY <1>15 DEF DecrementUnmerge
    <3> QED
      BY <3>1, FlagTypes
  <2>2. subsumed' \in BOOLEAN /\ failed' \in {"none", "lease", "unmerge"}
    BY <1>15 DEF DecrementUnmerge, UnMergeNow
  <2>3. at' \in [Threads -> Labels]
    BY <1>15 DEF DecrementUnmerge
  <2> QED
    BY <1>15, <2>1, <2>2, <2>3 DEF DecrementUnmerge
<1>12. CASE EndFrame(t)
  BY <1>12, TaskTypes DEF EndFrame
<1> QED
  BY <1>1, <1>2, <1>3, <1>4, <1>5, <1>6, <1>7, <1>8, <1>9, <1>10, <1>11, <1>12,
     <1>13, <1>14, <1>15 DEF DrawStep

\* The steps of Setup, Teardown and the platform view's life cycle.
LEMMA OtherTypes ==
    ASSUME TypeOK,
           \/ \E t \in Threads : StartTask(t) \/ LifecycleStep(t)
           \/ RunOrPostSetup \/ RunOrPostTeardown
           \/ \E e \in Engines :
                 \/ PostDraw(e) \/ PostDrawLast(e)
                 \/ OnPlatformViewCreated(e) \/ OnPlatformViewDestroyed(e)
    PROVE  TypeOK'
<1> USE LeaseAssumption
<1> USE DEF TypeOK, Here, Go, Labels, mergerVars, engineVars, threadVars,
            queueVars, EnableThreadMergerIfNeeded,
            DisableThreadMergerIfNeeded, Enable, Disable
<1>0. "platform" \in Threads
  BY DEF Threads
<1>1. CASE \E t \in Threads : StartTask(t)
  <2> SUFFICES ASSUME NEW t \in Threads, StartTask(t)
               PROVE  TypeOK'
    BY <1>1
  <2>1. overlap' \in 0..Lease
    BY DEF StartTask
  <2>4. outlasted' \in BOOLEAN
    BY Zenon DEF StartTask
  <2>2. at' \in [Threads -> Labels] /\ cur' \in [Threads -> Engines]
    BY TaskTypes DEF StartTask
  <2>3. queue' \in Seq(Tasks)
    BY TaskTypes DEF StartTask
  <2> QED
    BY <2>1, <2>2, <2>3, <2>4 DEF StartTask
<1>2. CASE \E t \in Threads : SetupEnable(t) \/ Setup(t)
  BY <1>2 DEF SetupEnable, Setup
<1>3. CASE \E t \in Threads : TeardownEnable(t) \/ TeardownSurface(t)
  BY <1>3 DEF TeardownEnable, TeardownSurface
<1>4. CASE \E t \in Threads : UnMergeNowIfLastOne(t)
  BY <1>4 DEF UnMergeNowIfLastOne
<1>10. CASE \E t \in Threads : EraseLease(t)
  <2> SUFFICES ASSUME NEW t \in Threads, EraseLease(t)
               PROVE  TypeOK'
    BY <1>10
  <2>1. callers' \subseteq Engines
    BY DEF EraseLease
  <2>2. sharedLock' \in Threads \cup {Nobody}
    BY DEF EraseLease
  <2>3. locked' \in [Engines -> Threads \cup {Nobody}]
    <3>1. locked' = locked \/ locked' = [locked EXCEPT ![cur[t]] = Nobody]
      BY DEF EraseLease
    <3> QED
      BY <3>1
  <2>4. at' \in [Threads -> Labels]
    BY DEF EraseLease
  <2> QED
    BY <2>1, <2>2, <2>3, <2>4 DEF EraseLease
<1>11. CASE \E t \in Threads : TeardownUnmerge(t)
  <2> SUFFICES ASSUME NEW t \in Threads, TeardownUnmerge(t)
               PROVE  TypeOK'
    BY <1>11
  <2>1. subsumed' \in BOOLEAN /\ failed' \in {"none", "lease", "unmerge"}
    BY DEF TeardownUnmerge, UnMergeNow
  <2>2. locked' \in [Engines -> Threads \cup {Nobody}]
    BY DEF TeardownUnmerge
  <2>3. at' \in [Threads -> Labels]
    BY DEF TeardownUnmerge
  <2> QED
    BY <2>1, <2>2, <2>3 DEF TeardownUnmerge
<1>5. CASE \E t \in Threads : SignalLatch(t)
  BY <1>0, <1>5 DEF SignalLatch
<1>6. CASE RunOrPostSetup \/ RunOrPostTeardown
  <2>0. cur["platform"] \in Engines
    BY <1>0
  <2>1. \/ queue' = queue
        \/ queue' = Append(queue, <<"setup", cur["platform"]>>)
        \/ queue' = Append(queue, <<"teardown", cur["platform"]>>)
    BY <1>6 DEF RunOrPostSetup, RunOrPostTeardown
  <2>2. queue' \in Seq(Tasks)
    BY <2>0, <2>1, TaskTypes
  <2>3. \E l \in {"idle", "setup", "latch", "teardown"} :
            at' = [at EXCEPT !["platform"] = l]
    BY <1>6 DEF RunOrPostSetup, RunOrPostTeardown
  <2>4. at' \in [Threads -> Labels]
    BY <1>0, <2>3
  <2> QED
    BY <1>6, <2>2, <2>4 DEF RunOrPostSetup, RunOrPostTeardown
<1>7. CASE \E e \in Engines : PostDraw(e) \/ PostDrawLast(e)
  BY <1>7, TaskTypes DEF PostDraw, PostDrawLast
<1>8. CASE \E e \in Engines : OnPlatformViewCreated(e)
  <2> SUFFICES ASSUME NEW e \in Engines, OnPlatformViewCreated(e)
               PROVE  TypeOK'
    BY <1>8
  <2>1. view' \in [Engines -> BOOLEAN]
    BY DEF OnPlatformViewCreated
  <2>2. enabled' \in BOOLEAN
    BY DEF OnPlatformViewCreated
  <2>3. cur' \in [Threads -> Engines] /\ at' \in [Threads -> Labels]
    BY <1>0 DEF OnPlatformViewCreated
  <2> QED
    BY <2>1, <2>2, <2>3 DEF OnPlatformViewCreated
<1>9. CASE \E e \in Engines : OnPlatformViewDestroyed(e)
  <2> SUFFICES ASSUME NEW e \in Engines, OnPlatformViewDestroyed(e)
               PROVE  TypeOK'
    BY <1>9
  <2>1. view' \in [Engines -> BOOLEAN]
    BY DEF OnPlatformViewDestroyed
  <2>2. enabled' \in BOOLEAN
    BY DEF OnPlatformViewDestroyed
  <2>3. cur' \in [Threads -> Engines] /\ at' \in [Threads -> Labels]
    BY <1>0 DEF OnPlatformViewDestroyed
  <2> QED
    BY <2>1, <2>2, <2>3 DEF OnPlatformViewDestroyed
<1> QED
  BY <1>1, <1>2, <1>3, <1>4, <1>5, <1>6, <1>7, <1>8, <1>9,
     <1>10, <1>11 DEF LifecycleStep

-----------------------------------------------------------------------------
\* For any engines, however long a Draw takes, every variable keeps its type:
\* no lease exceeds its term or is taken below zero.
THEOREM TypeCorrect == Spec => []TypeOK
<1>1. Init => TypeOK
  <2> SUFFICES ASSUME Init
               PROVE  TypeOK
    OBVIOUS
  <2>1. cur \in [Threads -> Engines]
    BY LeaseAssumption DEF Init
  <2>2. /\ callers \subseteq Engines /\ lease \in [Engines -> 0..Lease]
        /\ locked \in [Engines -> Threads \cup {Nobody}]
        /\ sharedLock \in Threads \cup {Nobody}
        /\ queue \in Seq(Tasks) /\ overlap \in 0..Lease
        /\ at \in [Threads -> Labels]
    BY LeaseAssumption DEF Init, Labels
  <2>3. /\ enabled \in BOOLEAN /\ subsumed \in BOOLEAN
        /\ outlasted \in BOOLEAN
        /\ more \in [Threads -> BOOLEAN] /\ reuse \in [Threads -> BOOLEAN]
    BY Zenon DEF Init
  <2>4. /\ hasMerger \in [Engines -> BOOLEAN]
        /\ surface \in [Engines -> BOOLEAN] /\ last \in [Engines -> BOOLEAN]
        /\ used \in [Engines -> BOOLEAN] /\ view \in [Engines -> BOOLEAN]
    BY Zenon DEF Init
  <2>5. failed = "none"
    BY DEF Init
  <2> QED
    BY <2>1, <2>2, <2>3, <2>4, <2>5 DEF TypeOK
<1>2. TypeOK /\ [Next]_vars => TypeOK'
  <2> SUFFICES ASSUME TypeOK, [Next]_vars
               PROVE  TypeOK'
    OBVIOUS
  <2>1. CASE UNCHANGED vars
    BY <2>1 DEF TypeOK, vars, mergerVars, engineVars, threadVars, queueVars
  <2>2. CASE Next
    BY <2>2, DrawTypes, OtherTypes DEF Next, ThreadStep
  <2> QED
    BY <2>1, <2>2
<1> QED
  BY <1>1, <1>2, PTL DEF Spec
=============================================================================
