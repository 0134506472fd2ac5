------------------------ MODULE FramePipelineProofs ------------------------
(***************************************************************************)
(* Theorems about FramePipeline, for a pipeline of any depth and any number *)
(* of frames, however long a push waits for its Signal.                    *)
(***************************************************************************)
EXTENDS FramePipeline, FiniteSetTheorems, TLAPS

\* A thread has a frame in hand from the pop until Draw is over.
FrameHeld ==
    \A t \in Consumers :
        /\ draw[t] \in {"drawing", "release", "releaseAndRetry", "produce",
                        "commit"} => frame[t] \in Frames
        /\ draw[t] \in {"idle", "pop"} => frame[t] = 0

\* None of the four parts is inductive by itself: that the front exists
\* rests on the count of available_, that the frame to push again is a frame
\* rests on FrameHeld.
PipelineInv ==
    /\ TypeOK
    /\ SlotsConserved
    /\ AvailableCountsQueue
    /\ FrameHeld

-----------------------------------------------------------------------------
\* A step of one thread in Draw moves the count of those at some labels by
\* what that thread contributes to it.
LEMMA CountsMove ==
    ASSUME TypeOK, NEW t \in Consumers, NEW l \in DrawLabels, Go(t, l), NEW S
    PROVE  /\ draw' \in [Consumers -> DrawLabels] /\ draw'[t] = l
           /\ \A c \in Consumers \ {t} : draw'[c] = draw[c]
           /\ HowMany(S) \in Nat /\ HowMany(S)' \in Nat
           /\ One(draw[t] \in S) \in {0, 1} /\ One(l \in S) \in {0, 1}
           /\ HowMany(S) >= One(draw[t] \in S)
           /\ HowMany(S)' = HowMany(S) - One(draw[t] \in S) + One(l \in S)
<1>1. draw \in [Consumers -> DrawLabels]
  BY DEF TypeOK
<1>2. draw' = [draw EXCEPT ![t] = l]
  BY DEF Go
<1>3. CASE t = "raster"
  <2>1. draw'["raster"] = l /\ draw'["platform"] = draw["platform"]
    BY <1>1, <1>2, <1>3 DEF Consumers
  <2> QED
    BY <1>1, <1>2, <1>3, <2>1 DEF HowMany, One, Consumers
<1>4. CASE t = "platform"
  <2>1. draw'["platform"] = l /\ draw'["raster"] = draw["raster"]
    BY <1>1, <1>2, <1>4 DEF Consumers
  <2> QED
    BY <1>1, <1>2, <1>4, <2>1 DEF HowMany, One, Consumers
<1> QED
  BY <1>3, <1>4 DEF Consumers

\* The counts of the types that the other steps leave alone.
LEMMA CountTypes ==
    ASSUME TypeOK, NEW S
    PROVE  /\ HowMany(S) \in Nat /\ Len(queue) \in Nat
           /\ One(continuation) \in {0, 1} /\ One(ui = "pushed") \in {0, 1}
BY DEF TypeOK, HowMany, One

-----------------------------------------------------------------------------
\* The dispatcher uses the waiter, and leaves the pipeline alone.
LEMMA DispatcherPreserves ==
    ASSUME PipelineInv,
           \/ DispatchPacket
           \/ ScheduleSecondaryVsyncCallback
           \/ DispatcherCallback
           \/ SendPacket
    PROVE  PipelineInv'
<1> USE DEF PipelineInv, pipelineVars, animatorVars, waiterVars, pointerVars,
            uiVars, rasterVars, DoDispatchPacket, ScheduleSecondaryCallback,
            Clients, UITasks
<1>1. CASE DispatchPacket
  <2>1. TypeOK'
    <3>0. received' \in Nat /\ buffered' \in Nat /\ dispatched' \in Nat
      BY <1>1 DEF DispatchPacket, TypeOK
    <3>1. secondary' \subseteq Clients /\ awaited' \in Nat
      <4>1. \E id \in Clients : ScheduleSecondaryCallback(id)
        BY <1>1 DEF DispatchPacket
      <4> QED
        BY <4>1 DEF TypeOK
    <3>2. inProgress' \in BOOLEAN /\ callback' \in BOOLEAN
      BY <1>1 DEF DispatchPacket, TypeOK
    <3>3. uiTasks' \in Seq(UITasks)
      BY <1>1 DEF DispatchPacket, Take, TypeOK
    <3>4. ui' \in {"dispatching", "dispatchingPending"} \/ ui' = ui
      BY <1>1 DEF DispatchPacket
    <3> QED
      BY <1>1, <3>0, <3>1, <3>2, <3>3, <3>4 DEF DispatchPacket, TypeOK
  <2>2. SlotsConserved' /\ FrameHeld'
    BY <1>1 DEF DispatchPacket, SlotsConserved, FrameHeld, HowMany
  <2>3. AvailableCountsQueue'
    BY <1>1 DEF DispatchPacket, Take, AvailableCountsQueue, One, HowMany
  <2> QED
    BY <2>1, <2>2, <2>3
<1>2. CASE ScheduleSecondaryVsyncCallback
  <2>1. TypeOK'
    <3>1. /\ secondary' \subseteq Clients
          /\ awaited' \in Nat
      BY <1>2 DEF ScheduleSecondaryVsyncCallback, TypeOK
    <3>2. ui' \in {"dispatchedPending", "idle"}
      BY <1>2 DEF ScheduleSecondaryVsyncCallback
    <3> QED
      BY <1>2, <3>1, <3>2 DEF ScheduleSecondaryVsyncCallback, TypeOK
  <2>2. SlotsConserved' /\ FrameHeld'
    BY <1>2 DEF ScheduleSecondaryVsyncCallback, SlotsConserved, FrameHeld, HowMany
  <2>3. AvailableCountsQueue'
    BY <1>2 DEF ScheduleSecondaryVsyncCallback, AvailableCountsQueue, One, HowMany
  <2> QED
    BY <2>1, <2>2, <2>3
<1>3. CASE DispatcherCallback
  <2>1. TypeOK'
    <3>0. buffered' \in Nat /\ dispatched' \in Nat
      BY <1>3 DEF DispatcherCallback, TypeOK
    <3>1. secondary' \subseteq Clients /\ awaited' \in Nat
      <4>1. CASE UNCHANGED waiterVars
        BY <4>1 DEF TypeOK
      <4>2. CASE ScheduleSecondaryCallback("animator")
        BY <4>2 DEF TypeOK
      <4> QED
        BY <1>3, <4>1, <4>2 DEF DispatcherCallback
    <3>2. inProgress' \in BOOLEAN /\ callback' \in BOOLEAN
      BY <1>3 DEF DispatcherCallback, TypeOK
    <3>3. uiTasks' \in Seq(UITasks)
      BY <1>3 DEF DispatcherCallback, Take, TypeOK
    <3>4. ui' \in {"dispatching"} \/ ui' = ui
      BY <1>3 DEF DispatcherCallback
    <3> QED
      BY <1>3, <3>0, <3>1, <3>2, <3>3, <3>4 DEF DispatcherCallback, TypeOK
  <2>2. SlotsConserved' /\ FrameHeld'
    BY <1>3 DEF DispatcherCallback, SlotsConserved, FrameHeld, HowMany
  <2>3. AvailableCountsQueue'
    BY <1>3 DEF DispatcherCallback, Take, AvailableCountsQueue, One, HowMany
  <2> QED
    BY <2>1, <2>2, <2>3
<1>4. CASE SendPacket
  <2>1. TypeOK'
    <3>1. sent' \in Packets /\ uiTasks' \in Seq(UITasks)
      BY <1>4, PipelineAssumption DEF SendPacket, TypeOK, Packets
    <3> QED
      BY <1>4, <3>1 DEF SendPacket, TypeOK
  <2>2. SlotsConserved' /\ FrameHeld' /\ AvailableCountsQueue'
    BY <1>4 DEF SendPacket, SlotsConserved, FrameHeld, AvailableCountsQueue,
                HowMany
  <2> QED
    BY <2>1, <2>2
<1> QED
  BY <1>1, <1>2, <1>3, <1>4

\* The steps of the UI thread and of the framework.
LEMMA UIPreserves ==
    ASSUME PipelineInv, UIStep \/ FrameworkStep
    PROVE  PipelineInv'
<1> USE PipelineAssumption
<1> USE DEF PipelineInv, Produce, Complete, ProducerCommit, AsyncWaitForVsync,
            pipelineVars, animatorVars, waiterVars, pointerVars, uiVars,
            rasterVars, UITasks
<1>1. CASE AwaitVSync
  <2>1. TypeOK'
    BY <1>1 DEF AwaitVSync, Take, TypeOK
  <2>2. SlotsConserved'
    BY <1>1 DEF AwaitVSync, Take, TypeOK, SlotsConserved, One, HowMany
  <2>3. AvailableCountsQueue'
    BY <1>1 DEF AwaitVSync, Take, TypeOK, AvailableCountsQueue, One, HowMany
  <2>4. FrameHeld'
    BY <1>1 DEF AwaitVSync, Take, TypeOK, FrameHeld
  <2> QED
    BY <2>1, <2>2, <2>3, <2>4
<1>2. CASE DrawLastLayerTrees
  <2>1. TypeOK'
    BY <1>2 DEF DrawLastLayerTrees, Take, TypeOK
  <2>2. SlotsConserved'
    BY <1>2 DEF DrawLastLayerTrees, Take, TypeOK, SlotsConserved, One, HowMany
  <2>3. AvailableCountsQueue'
    BY <1>2 DEF DrawLastLayerTrees, Take, TypeOK, AvailableCountsQueue, One, HowMany
  <2>4. FrameHeld'
    BY <1>2 DEF DrawLastLayerTrees, Take, TypeOK, FrameHeld
  <2> QED
    BY <2>1, <2>2, <2>3, <2>4
<1>3. CASE BeginFrame
  <2>1. TypeOK'
    <3>1. empty' \in Nat
      <4>1. CASE continuation
        BY <1>3, <4>1 DEF BeginFrame, TypeOK
      <4>2. CASE ~continuation
        BY <1>3, <4>2 DEF BeginFrame, TypeOK
      <4> QED
        BY <4>1, <4>2
    <3>2. uiTasks' \in Seq(UITasks)
      BY <1>3 DEF BeginFrame, Take, TypeOK
    <3>3. continuation' \in BOOLEAN /\ ui' = "building"
      BY <1>3 DEF BeginFrame
    <3>4. scheduled' \in BOOLEAN /\ regenerate' \in BOOLEAN
      BY <1>3 DEF BeginFrame
    <3>5. pending' \in Nat
      BY <1>3 DEF BeginFrame, TypeOK
    <3> QED
      BY <1>3, <3>1, <3>2, <3>3, <3>4, <3>5 DEF BeginFrame, TypeOK
  <2>2. SlotsConserved'
    <3>1. CASE continuation
      BY <1>3, <3>1 DEF BeginFrame, TypeOK, SlotsConserved, One, HowMany
    <3>2. CASE ~continuation
      BY <1>3, <3>2 DEF BeginFrame, TypeOK, SlotsConserved, One, HowMany
    <3> QED
      BY <3>1, <3>2
  <2>3. AvailableCountsQueue'
    BY <1>3 DEF BeginFrame, Take, TypeOK, AvailableCountsQueue, One, HowMany
  <2>4. FrameHeld'
    BY <1>3 DEF BeginFrame, Take, TypeOK, FrameHeld
  <2> QED
    BY <2>1, <2>2, <2>3, <2>4
<1>4. CASE BeginFramePipelineFull
  <2>1. TypeOK'
    BY <1>4 DEF BeginFramePipelineFull, Take, TypeOK
  <2>2. SlotsConserved'
    BY <1>4 DEF BeginFramePipelineFull, Take, TypeOK, SlotsConserved, One, HowMany
  <2>3. AvailableCountsQueue'
    BY <1>4 DEF BeginFramePipelineFull, Take, TypeOK, AvailableCountsQueue, One, HowMany
  <2>4. FrameHeld'
    BY <1>4 DEF BeginFramePipelineFull, Take, TypeOK, FrameHeld
  <2> QED
    BY <2>1, <2>2, <2>3, <2>4
<1>5. CASE MaybeClearTraceFlowIds
  <2>1. TypeOK'
    BY <1>5 DEF MaybeClearTraceFlowIds, Take, TypeOK
  <2>2. SlotsConserved'
    BY <1>5 DEF MaybeClearTraceFlowIds, SlotsConserved, HowMany
  <2>3. AvailableCountsQueue'
    BY <1>5 DEF MaybeClearTraceFlowIds, AvailableCountsQueue, HowMany
  <2>4. FrameHeld'
    BY <1>5 DEF MaybeClearTraceFlowIds, FrameHeld
  <2> QED
    BY <2>1, <2>2, <2>3, <2>4
<1>6. CASE SignalAvailable
  <2>1. TypeOK'
    <3>1. drawTasks' \in Nat
      BY <1>6 DEF SignalAvailable, TypeOK
    <3>2. first' \in BOOLEAN
      BY <1>6 DEF SignalAvailable
    <3> QED
      BY <1>6, <3>1, <3>2 DEF SignalAvailable, TypeOK
  <2>2. SlotsConserved'
    BY <1>6 DEF SignalAvailable, TypeOK, SlotsConserved, One, HowMany
  <2>3. AvailableCountsQueue'
    BY <1>6 DEF SignalAvailable, TypeOK, AvailableCountsQueue, One, HowMany
  <2>4. FrameHeld'
    BY <1>6 DEF SignalAvailable, TypeOK, FrameHeld
  <2> QED
    BY <2>1, <2>2, <2>3, <2>4
<1>7. CASE EndBuild
  <2>1. TypeOK'
    BY <1>7 DEF EndBuild, TypeOK
  <2>2. SlotsConserved'
    BY <1>7 DEF EndBuild, TypeOK, SlotsConserved, One, HowMany
  <2>3. AvailableCountsQueue'
    BY <1>7 DEF EndBuild, TypeOK, AvailableCountsQueue, One, HowMany
  <2>4. FrameHeld'
    BY <1>7 DEF EndBuild, TypeOK, FrameHeld
  <2> QED
    BY <2>1, <2>2, <2>3, <2>4
<1>8. ASSUME NEW b \in BOOLEAN, RequestFrame(b)
      PROVE  PipelineInv'
  <2>1. TypeOK'
    <3>1. regenerate' \in BOOLEAN
      BY <1>8, Zenon DEF RequestFrame, TypeOK
    <3>2. uiTasks' \in Seq(UITasks)
      BY <1>8 DEF RequestFrame, TypeOK
    <3>3. pending' \in Nat
      BY <1>8 DEF RequestFrame, TypeOK
    <3>4. scheduled' \in BOOLEAN
      BY <1>8, Zenon DEF RequestFrame, TypeOK
    <3> QED
      BY <1>8, <3>1, <3>2, <3>3, <3>4 DEF RequestFrame, TypeOK
  <2>2. SlotsConserved'
    BY <1>8 DEF RequestFrame, TypeOK, SlotsConserved, One, HowMany
  <2>3. AvailableCountsQueue'
    BY <1>8 DEF RequestFrame, TypeOK, AvailableCountsQueue, One, HowMany
  <2>4. FrameHeld'
    BY <1>8 DEF RequestFrame, TypeOK, FrameHeld
  <2> QED
    BY <2>1, <2>2, <2>3, <2>4
<1>9. CASE Render
  <2>1. TypeOK'
    <3>1. queue' \in Seq(Frames)
      BY <1>9 DEF Render, TypeOK, Frames
    <3>2. built' \in 0..MaxFrames
      BY <1>9 DEF Render, TypeOK
    <3>3. first' \in BOOLEAN /\ continuation' \in BOOLEAN
      BY <1>9, Zenon DEF Render
    <3> QED
      BY <1>9, <3>1, <3>2, <3>3 DEF Render, TypeOK
  <2>2. SlotsConserved'
    BY <1>9 DEF Render, TypeOK, SlotsConserved, One, HowMany
  <2>3. AvailableCountsQueue'
    BY <1>9 DEF Render, TypeOK, AvailableCountsQueue, One, HowMany
  <2>4. FrameHeld'
    BY <1>9 DEF Render, TypeOK, FrameHeld
  <2> QED
    BY <2>1, <2>2, <2>3, <2>4
<1> QED
  BY <1>1, <1>2, <1>3, <1>4, <1>5, <1>6, <1>7, <1>8, <1>9, DispatcherPreserves
     DEF UIStep, FrameworkStep

\* Vsync.
LEMMA VsyncPreserves ==
    ASSUME PipelineInv, FireCallback
    PROVE  PipelineInv'
<1> USE PipelineAssumption
<1> USE DEF PipelineInv, pipelineVars, animatorVars, waiterVars, pointerVars, uiVars,
            rasterVars
<1>1. PICK posted \in Orders(secondary) :
        uiTasks' = (uiTasks \o (IF callback THEN <<"vsync">> ELSE <<>>)) \o posted
  BY DEF FireCallback
<1>2. posted \in Seq(UITasks)
  <2>1. secondary \subseteq UITasks
    BY DEF TypeOK, UITasks
  <2>2. Cardinality(secondary) \in Nat
    <3>1. IsFiniteSet(Clients)
      <4>1. Clients = {"dispatcher"} \cup {"animator"}
        BY DEF Clients
      <4> QED
        BY <4>1, FS_Singleton, FS_Union
    <3> QED
      BY <3>1, FS_Subset, FS_CardinalityType DEF TypeOK
  <2>3. posted \in [1..Cardinality(secondary) -> UITasks]
    BY <1>1, <2>1 DEF Orders
  <2> QED
    BY <2>2, <2>3
<1>4. uiTasks' \in Seq(UITasks)
  <2> DEFINE mid == IF callback THEN <<"vsync">> ELSE <<>>
  <2>1. mid \in Seq(UITasks)
    <3>1. <<"vsync">> \in Seq(UITasks) /\ <<>> \in Seq(UITasks)
      BY DEF UITasks
    <3> QED
      BY <3>1, Zenon
  <2>2. uiTasks' = (uiTasks \o mid) \o posted
    BY <1>1
  <2> HIDE DEF mid
  <2>3. uiTasks \o mid \in Seq(UITasks)
    BY <2>1 DEF TypeOK
  <2> QED
    BY <1>2, <2>2, <2>3
<1>5. TypeOK'
  <2>1. awaited' \in Nat
    BY DEF FireCallback, TypeOK
  <2>3. callback' \in BOOLEAN
    BY DEF FireCallback
  <2>2. secondary' \subseteq Clients
    BY DEF FireCallback
  <2> QED
    BY <1>4, <2>1, <2>2, <2>3 DEF FireCallback, TypeOK
<1>6. SlotsConserved' /\ AvailableCountsQueue' /\ FrameHeld'
  BY DEF FireCallback, SlotsConserved, AvailableCountsQueue, FrameHeld, One, HowMany
<1> QED
  BY <1>5, <1>6

\* A step of a thread in Draw, from what it does to the counts.
LEMMA DrawStepCounts ==
    ASSUME PipelineInv, NEW t \in Consumers, NEW l \in DrawLabels
    PROVE  /\ Go(t, l) /\ UNCHANGED <<continuation, ui>>
           /\ empty' \in Nat /\ available' \in Nat /\ Len(queue') \in Nat
           /\ empty' + Len(queue') + One(l \in Holding)
                = empty + Len(queue) + One(draw[t] \in Holding)
           /\ available' + One(l \in {"pop", "signal"}) + Len(queue)
                = available + One(draw[t] \in {"pop", "signal"}) + Len(queue')
           => SlotsConserved' /\ AvailableCountsQueue'
<1>0. SUFFICES
        ASSUME Go(t, l), UNCHANGED <<continuation, ui>>,
               empty' \in Nat, available' \in Nat, Len(queue') \in Nat,
               empty' + Len(queue') + One(l \in Holding)
                 = empty + Len(queue) + One(draw[t] \in Holding),
               available' + One(l \in {"pop", "signal"}) + Len(queue)
                 = available + One(draw[t] \in {"pop", "signal"})
                     + Len(queue')
        PROVE  SlotsConserved' /\ AvailableCountsQueue'
  OBVIOUS
<1>1. TypeOK
  BY DEF PipelineInv
<1>2. /\ empty \in Nat /\ available \in Nat
      /\ empty + One(continuation) + Len(queue) + HowMany(Holding) = Depth
      /\ available + One(ui = "pushed") + HowMany({"pop", "signal"})
           = Len(queue)
  BY DEF PipelineInv, TypeOK, SlotsConserved, AvailableCountsQueue
<1>3. /\ One(continuation)' = One(continuation)
      /\ One(ui = "pushed")' = One(ui = "pushed")
  BY <1>0 DEF One
<1>4. /\ HowMany(Holding) \in Nat /\ HowMany(Holding)' \in Nat
      /\ One(draw[t] \in Holding) \in {0, 1} /\ One(l \in Holding) \in {0, 1}
      /\ HowMany(Holding)'
           = HowMany(Holding) - One(draw[t] \in Holding) + One(l \in Holding)
  BY <1>0, <1>1, CountsMove
<1>5. /\ HowMany({"pop", "signal"}) \in Nat
      /\ HowMany({"pop", "signal"})' \in Nat
      /\ One(draw[t] \in {"pop", "signal"}) \in {0, 1}
      /\ One(l \in {"pop", "signal"}) \in {0, 1}
      /\ HowMany({"pop", "signal"})'
           = HowMany({"pop", "signal"}) - One(draw[t] \in {"pop", "signal"})
               + One(l \in {"pop", "signal"})
  BY <1>0, <1>1, CountsMove
<1>6. /\ Len(queue) \in Nat /\ One(continuation) \in {0, 1}
      /\ One(ui = "pushed") \in {0, 1}
  BY <1>1, CountTypes
<1>7. Depth \in Nat
  BY PipelineAssumption
<1>8. SlotsConserved'
  <2>1. PICK h \in Nat, h2 \in Nat, o \in {0, 1}, o2 \in {0, 1} :
          /\ h = HowMany(Holding) /\ h2 = HowMany(Holding)'
          /\ o = One(draw[t] \in Holding) /\ o2 = One(l \in Holding)
    BY <1>4
  <2>2. PICK c \in {0, 1}, q \in Nat, q2 \in Nat :
          c = One(continuation) /\ q = Len(queue) /\ q2 = Len(queue')
    BY <1>0, <1>6
  <2>3. PICK e \in Nat, e2 \in Nat : e = empty /\ e2 = empty'
    BY <1>0, <1>2
  <2>4. e + c + q + h = Depth /\ h2 = h - o + o2 /\ e2 + q2 + o2 = e + q + o
    BY <1>0, <1>2, <1>4, <2>1, <2>2, <2>3
  <2>5. e2 + c + q2 + h2 = Depth
    BY <1>7, <2>4
  <2> QED
    BY <1>3, <2>1, <2>2, <2>3, <2>5 DEF SlotsConserved
<1>9. AvailableCountsQueue'
  <2>1. PICK h \in Nat, h2 \in Nat, o \in {0, 1}, o2 \in {0, 1} :
          /\ h = HowMany({"pop", "signal"}) /\ h2 = HowMany({"pop", "signal"})'
          /\ o = One(draw[t] \in {"pop", "signal"})
          /\ o2 = One(l \in {"pop", "signal"})
    BY <1>5
  <2>2. PICK p \in {0, 1}, q \in Nat, q2 \in Nat :
          p = One(ui = "pushed") /\ q = Len(queue) /\ q2 = Len(queue')
    BY <1>0, <1>6
  <2>3. PICK a \in Nat, a2 \in Nat : a = available /\ a2 = available'
    BY <1>0, <1>2
  <2>4. a + p + h = q /\ h2 = h - o + o2 /\ a2 + o2 + q = a + o + q2
    BY <1>0, <1>2, <1>5, <2>1, <2>2, <2>3
  <2>5. a2 + p + h2 = q2
    BY <2>4
  <2> QED
    BY <1>3, <2>1, <2>2, <2>3, <2>5 DEF AvailableCountsQueue
<1> QED
  BY <1>8, <1>9

\* A thread that is about to pop finds a front.
LEMMA FrontToPop ==
    ASSUME PipelineInv, NEW t \in Consumers, draw[t] = "pop"
    PROVE  /\ queue \in Seq(Frames) /\ Len(queue) \in Nat /\ Len(queue) > 0
           /\ queue # <<>>
<1>1. queue \in Seq(Frames) /\ available \in Nat /\ Len(queue) \in Nat
  BY DEF PipelineInv, TypeOK
<1>2. One(ui = "pushed") \in {0, 1} /\ HowMany({"pop", "signal"}) \in {1, 2}
  BY DEF One, HowMany, Consumers
<1>3. Len(queue) > 0
  BY <1>1, <1>2 DEF PipelineInv, AvailableCountsQueue
<1> QED
  BY <1>1, <1>3

\* The steps of a thread in Draw.
LEMMA DrawPreserves ==
    ASSUME PipelineInv, NEW t \in Consumers, DrawStep(t)
    PROVE  PipelineInv'
<1> USE PipelineAssumption
<1> USE DEF pipelineVars, animatorVars, waiterVars, pointerVars, uiVars
<1>0. TypeOK /\ FrameHeld
  BY DEF PipelineInv
<1>00. /\ empty \in Nat /\ available \in Nat /\ queue \in Seq(Frames)
       /\ Len(queue) \in Nat /\ drawTasks \in Nat
       /\ draw \in [Consumers -> DrawLabels]
       /\ frame \in [Consumers -> Frames \cup {0}]
  BY <1>0 DEF TypeOK
<1>000. more \in [Consumers -> BOOLEAN]
  BY <1>0, Zenon DEF TypeOK
<1>1. CASE StartDraw(t) /\ available = 0
  <2>1. /\ UNCHANGED <<available, draw, empty, queue, continuation, ui, frame>>
        /\ drawTasks' \in Nat
    BY <1>00, <1>1 DEF StartDraw
  <2>2. missed' \in BOOLEAN
    BY <1>0, <1>1, Zenon DEF StartDraw, TypeOK
  <2>3. TypeOK'
    BY <1>0, <1>1, <2>1, <2>2 DEF StartDraw, TypeOK
  <2>4. SlotsConserved' /\ AvailableCountsQueue'
    BY <2>1 DEF PipelineInv, SlotsConserved, AvailableCountsQueue, HowMany
  <2>5. FrameHeld'
    BY <1>0, <2>1 DEF FrameHeld
  <2> QED
    BY <2>3, <2>4, <2>5 DEF PipelineInv
<1>2. CASE StartDraw(t) /\ available # 0
  <2>1. /\ Go(t, "pop") /\ draw[t] = "idle" /\ available' = available - 1
        /\ UNCHANGED <<empty, queue, continuation, ui, frame, missed>>
        /\ drawTasks' \in Nat
    BY <1>00, <1>2 DEF StartDraw
  <2>2. "pop" \in DrawLabels
    BY DEF DrawLabels
  <2>3. /\ draw' \in [Consumers -> DrawLabels] /\ draw'[t] = "pop"
        /\ \A c \in Consumers \ {t} : draw'[c] = draw[c]
    BY <1>0, <2>1, <2>2, CountsMove
  <2>4. available' \in Nat
    BY <1>00, <1>2, <2>1
  <2>5. TypeOK'
    BY <1>0, <1>2, <2>1, <2>3, <2>4 DEF StartDraw, TypeOK
  <2>6. SlotsConserved' /\ AvailableCountsQueue'
    <3>1. /\ One(draw[t] \in Holding) = 0 /\ One("pop" \in Holding) = 0
          /\ One(draw[t] \in {"pop", "signal"}) = 0
          /\ One("pop" \in {"pop", "signal"}) = 1
      BY <2>1 DEF One, Holding
    <3> QED
      BY <1>00, <2>1, <2>2, <2>4, <3>1, DrawStepCounts
  <2>7. FrameHeld'
    BY <1>0, <2>1, <2>3 DEF FrameHeld
  <2> QED
    BY <2>5, <2>6, <2>7 DEF PipelineInv
<1>3. CASE PopFront(t)
  <2>1. /\ Go(t, "drawing") /\ draw[t] = "pop" /\ queue' = Tail(queue)
        /\ frame' = [frame EXCEPT ![t] = Head(queue)]
        /\ more' = [more EXCEPT ![t] = Len(queue) > 1]
        /\ UNCHANGED <<empty, available, continuation, ui>>
    BY <1>3 DEF PopFront
  <2>2. "drawing" \in DrawLabels
    BY DEF DrawLabels
  <2>3. /\ draw' \in [Consumers -> DrawLabels] /\ draw'[t] = "drawing"
        /\ \A c \in Consumers \ {t} : draw'[c] = draw[c]
    BY <1>0, <2>1, <2>2, CountsMove
  <2>4. /\ Head(queue) \in Frames /\ queue' \in Seq(Frames)
        /\ Len(queue') = Len(queue) - 1 /\ Len(queue') \in Nat
    BY <2>1, FrontToPop
  <2>5. /\ frame' \in [Consumers -> Frames \cup {0}] /\ frame'[t] \in Frames
        /\ \A c \in Consumers \ {t} : frame'[c] = frame[c]
    BY <1>00, <2>1, <2>4
  <2>6. more' \in [Consumers -> BOOLEAN]
    <3>1. (Len(queue) > 1) \in BOOLEAN
      OBVIOUS
    <3> QED
      BY <1>000, <2>1, <3>1, Zenon
  <2>7. TypeOK'
    BY <1>0, <1>3, <2>1, <2>3, <2>4, <2>5, <2>6 DEF PopFront, TypeOK
  <2>8. SlotsConserved' /\ AvailableCountsQueue'
    <3>1. /\ One(draw[t] \in Holding) = 0 /\ One("drawing" \in Holding) = 1
          /\ One(draw[t] \in {"pop", "signal"}) = 1
          /\ One("drawing" \in {"pop", "signal"}) = 0
      BY <2>1 DEF One, Holding
    <3>2. empty' \in Nat /\ available' \in Nat /\ Len(queue) \in Nat
      BY <1>00, <2>1
    <3>3. /\ empty' + Len(queue') + One("drawing" \in Holding)
               = empty + Len(queue) + One(draw[t] \in Holding)
          /\ available' + One("drawing" \in {"pop", "signal"}) + Len(queue)
               = available + One(draw[t] \in {"pop", "signal"}) + Len(queue')
      BY <1>00, <2>1, <2>4, <3>1, <3>2
    <3> QED
      BY <2>1, <2>2, <2>4, <3>2, <3>3, DrawStepCounts
  <2>9. FrameHeld'
    BY <1>0, <2>3, <2>5 DEF FrameHeld
  <2> QED
    BY <2>7, <2>8, <2>9 DEF PipelineInv
<1>4. CASE DoDraw(t)
  <2>1. /\ Go(t, "release") /\ draw[t] = "drawing"
        /\ drawn' \in {drawn, frame[t]}
        /\ UNCHANGED <<empty, available, queue, continuation, ui, frame>>
    BY <1>4 DEF DoDraw
  <2>2. "release" \in DrawLabels
    BY DEF DrawLabels
  <2>3. /\ draw' \in [Consumers -> DrawLabels] /\ draw'[t] = "release"
        /\ \A c \in Consumers \ {t} : draw'[c] = draw[c]
    BY <1>0, <2>1, <2>2, CountsMove
  <2>4. drawn' \in Frames \cup {0}
    BY <1>0, <1>00, <2>1 DEF TypeOK
  <2>5. TypeOK'
    BY <1>0, <1>4, <2>1, <2>3, <2>4 DEF DoDraw, TypeOK
  <2>6. SlotsConserved' /\ AvailableCountsQueue'
    <3>1. /\ One(draw[t] \in Holding) = 1 /\ One("release" \in Holding) = 1
          /\ One(draw[t] \in {"pop", "signal"}) = 0
          /\ One("release" \in {"pop", "signal"}) = 0
      BY <2>1 DEF One, Holding
    <3> QED
      BY <1>00, <2>1, <2>2, <3>1, DrawStepCounts
  <2>7. FrameHeld'
    BY <1>0, <2>1, <2>3 DEF FrameHeld
  <2> QED
    BY <2>5, <2>6, <2>7 DEF PipelineInv
<1>5. CASE DoDrawRetries(t)
  <2>1. /\ Go(t, "releaseAndRetry") /\ draw[t] = "drawing"
        /\ UNCHANGED <<empty, available, queue, continuation, ui, frame>>
    BY <1>5 DEF DoDrawRetries
  <2>2. "releaseAndRetry" \in DrawLabels
    BY DEF DrawLabels
  <2>3. /\ draw' \in [Consumers -> DrawLabels] /\ draw'[t] = "releaseAndRetry"
        /\ \A c \in Consumers \ {t} : draw'[c] = draw[c]
    BY <1>0, <2>1, <2>2, CountsMove
  <2>5. TypeOK'
    BY <1>0, <1>5, <2>1, <2>3 DEF DoDrawRetries, TypeOK
  <2>6. SlotsConserved' /\ AvailableCountsQueue'
    <3>1. /\ One(draw[t] \in Holding) = 1
          /\ One("releaseAndRetry" \in Holding) = 1
          /\ One(draw[t] \in {"pop", "signal"}) = 0
          /\ One("releaseAndRetry" \in {"pop", "signal"}) = 0
      BY <2>1 DEF One, Holding
    <3> QED
      BY <1>00, <2>1, <2>2, <3>1, DrawStepCounts
  <2>7. FrameHeld'
    BY <1>0, <2>1, <2>3 DEF FrameHeld
  <2> QED
    BY <2>5, <2>6, <2>7 DEF PipelineInv
<1>6. CASE Release(t)
  <2>1. /\ draw[t] \in {"release", "releaseAndRetry"} /\ empty' = empty + 1
        /\ UNCHANGED <<available, queue, continuation, ui, frame>>
    BY <1>6 DEF Release
  <2>2. PICK l \in {"post", "produce"} :
          /\ Go(t, l)
          /\ l = "produce" => draw[t] = "releaseAndRetry"
    BY <1>6 DEF Release
  <2>3. l \in DrawLabels
    BY <2>2 DEF DrawLabels
  <2>4. /\ draw' \in [Consumers -> DrawLabels] /\ draw'[t] = l
        /\ \A c \in Consumers \ {t} : draw'[c] = draw[c]
    BY <1>0, <2>2, <2>3, CountsMove
  <2>5. empty' \in Nat
    BY <1>00, <2>1
  <2>6. TypeOK'
    BY <1>0, <1>6, <2>1, <2>4, <2>5 DEF Release, TypeOK
  <2>7. SlotsConserved' /\ AvailableCountsQueue'
    <3>1. /\ One(draw[t] \in Holding) = 1 /\ One(l \in Holding) = 0
          /\ One(draw[t] \in {"pop", "signal"}) = 0
          /\ One(l \in {"pop", "signal"}) = 0
      BY <2>1, <2>2 DEF One, Holding
    <3> QED
      BY <1>00, <2>1, <2>2, <2>3, <2>5, <3>1, DrawStepCounts
  <2>8. FrameHeld'
    BY <1>0, <2>1, <2>2, <2>4 DEF FrameHeld
  <2> QED
    BY <2>6, <2>7, <2>8 DEF PipelineInv
<1>7. CASE ProduceIfEmpty(t)
  <2>1. /\ draw[t] = "produce"
        /\ UNCHANGED <<available, queue, continuation, ui, frame>>
    BY <1>7 DEF ProduceIfEmpty
  <2>2. PICK l \in {"post", "commit"} :
          /\ Go(t, l)
          /\ empty' = IF l = "post" THEN empty ELSE empty - 1
          /\ l = "commit" => empty # 0
    BY <1>7 DEF ProduceIfEmpty
  <2>3. l \in DrawLabels
    BY <2>2 DEF DrawLabels
  <2>4. /\ draw' \in [Consumers -> DrawLabels] /\ draw'[t] = l
        /\ \A c \in Consumers \ {t} : draw'[c] = draw[c]
    BY <1>0, <2>2, <2>3, CountsMove
  <2>5. empty' \in Nat
    BY <1>00, <2>2
  <2>6. TypeOK'
    BY <1>0, <1>7, <2>1, <2>4, <2>5 DEF ProduceIfEmpty, TypeOK
  <2>7. SlotsConserved' /\ AvailableCountsQueue'
    <3>1. /\ One(draw[t] \in Holding) = 0
          /\ One(l \in Holding) = IF l = "post" THEN 0 ELSE 1
          /\ One(draw[t] \in {"pop", "signal"}) = 0
          /\ One(l \in {"pop", "signal"}) = 0
      BY <2>1, <2>2 DEF One, Holding
    <3>2. empty' + Len(queue') + One(l \in Holding)
            = empty + Len(queue) + One(draw[t] \in Holding)
      BY <1>00, <2>1, <2>2, <3>1
    <3> QED
      BY <1>00, <2>1, <2>2, <2>3, <2>5, <3>1, <3>2, DrawStepCounts
  <2>8. FrameHeld'
    BY <1>0, <2>1, <2>2, <2>4 DEF FrameHeld
  <2> QED
    BY <2>6, <2>7, <2>8 DEF PipelineInv
<1>8. CASE ProducerCommitIfEmpty(t)
  <2>1. /\ draw[t] = "commit"
        /\ UNCHANGED <<available, continuation, ui, frame>>
        /\ frame[t] \in Frames
    BY <1>0, <1>8 DEF ProducerCommitIfEmpty, FrameHeld
  <2>2. PICK l \in {"post", "signal"} :
          /\ Go(t, l)
          /\ l = "post" => /\ queue' = queue /\ more' = more
                           /\ empty' = empty + 1
          /\ l = "signal" => /\ queue = <<>> /\ queue' = <<frame[t]>>
                             /\ more' = [more EXCEPT ![t] = TRUE]
                             /\ empty' = empty
    BY <1>8 DEF ProducerCommitIfEmpty
  <2>3. l \in DrawLabels
    BY <2>2 DEF DrawLabels
  <2>4. /\ draw' \in [Consumers -> DrawLabels] /\ draw'[t] = l
        /\ \A c \in Consumers \ {t} : draw'[c] = draw[c]
    BY <1>0, <2>2, <2>3, CountsMove
  <2>5. /\ empty' \in Nat /\ queue' \in Seq(Frames) /\ Len(queue') \in Nat
        /\ Len(queue') = IF l = "post" THEN Len(queue) ELSE Len(queue) + 1
    <3>1. CASE l = "post"
      BY <1>00, <2>2, <3>1
    <3>2. CASE l = "signal"
      <4>1. queue = <<>> /\ queue' = <<frame[t]>> /\ empty' = empty
        BY <2>2, <3>2
      <4>2. Len(queue) = 0 /\ Len(queue') = 1 /\ queue' \in Seq(Frames)
        BY <2>1, <4>1
      <4> QED
        BY <1>00, <3>2, <4>1, <4>2
    <3> QED
      BY <3>1, <3>2
  <2>6. more' \in [Consumers -> BOOLEAN]
    BY <1>000, <2>2, Zenon
  <2>7. TypeOK'
    BY <1>0, <1>8, <2>1, <2>4, <2>5, <2>6 DEF ProducerCommitIfEmpty, TypeOK
  <2>8. SlotsConserved' /\ AvailableCountsQueue'
    <3>1. /\ One(draw[t] \in Holding) = 1 /\ One(l \in Holding) = 0
          /\ One(draw[t] \in {"pop", "signal"}) = 0
          /\ One(l \in {"pop", "signal"}) = IF l = "post" THEN 0 ELSE 1
      BY <2>1, <2>2 DEF One, Holding
    <3>2. empty' + Len(queue') + One(l \in Holding)
            = empty + Len(queue) + One(draw[t] \in Holding)
      BY <1>00, <2>2, <2>5, <3>1
    <3>3. available' + One(l \in {"pop", "signal"}) + Len(queue)
            = available + One(draw[t] \in {"pop", "signal"}) + Len(queue')
      BY <1>00, <2>1, <2>5, <3>1
    <3> QED
      BY <1>00, <2>1, <2>2, <2>3, <2>5, <3>2, <3>3, DrawStepCounts
  <2>9. FrameHeld'
    BY <1>0, <2>1, <2>2, <2>4 DEF FrameHeld
  <2> QED
    BY <2>7, <2>8, <2>9 DEF PipelineInv
<1>9. CASE SignalPutBack(t)
  <2>1. /\ Go(t, "post") /\ draw[t] = "signal" /\ available' = available + 1
        /\ UNCHANGED <<empty, queue, continuation, ui, frame>>
    BY <1>9 DEF SignalPutBack
  <2>2. "post" \in DrawLabels
    BY DEF DrawLabels
  <2>3. /\ draw' \in [Consumers -> DrawLabels] /\ draw'[t] = "post"
        /\ \A c \in Consumers \ {t} : draw'[c] = draw[c]
    BY <1>0, <2>1, <2>2, CountsMove
  <2>4. available' \in Nat
    BY <1>00, <2>1
  <2>5. TypeOK'
    BY <1>0, <1>9, <2>1, <2>3, <2>4 DEF SignalPutBack, TypeOK
  <2>6. SlotsConserved' /\ AvailableCountsQueue'
    <3>1. /\ One(draw[t] \in Holding) = 0 /\ One("post" \in Holding) = 0
          /\ One(draw[t] \in {"pop", "signal"}) = 1
          /\ One("post" \in {"pop", "signal"}) = 0
      BY <2>1 DEF One, Holding
    <3> QED
      BY <1>00, <2>1, <2>2, <2>4, <3>1, DrawStepCounts
  <2>7. FrameHeld'
    BY <1>0, <2>1, <2>3 DEF FrameHeld
  <2> QED
    BY <2>5, <2>6, <2>7 DEF PipelineInv
<1>10. CASE PostDraw(t)
  <2>1. /\ Go(t, "idle") /\ draw[t] = "post"
        /\ frame' = [frame EXCEPT ![t] = 0]
        /\ more' = [more EXCEPT ![t] = FALSE]
        /\ UNCHANGED <<empty, available, queue, continuation, ui>>
    BY <1>10 DEF PostDraw
  <2>2. "idle" \in DrawLabels
    BY DEF DrawLabels
  <2>3. /\ draw' \in [Consumers -> DrawLabels] /\ draw'[t] = "idle"
        /\ \A c \in Consumers \ {t} : draw'[c] = draw[c]
    BY <1>0, <2>1, <2>2, CountsMove
  <2>4. drawTasks' \in Nat
    BY <1>00, <1>10 DEF PostDraw
  <2>5. /\ frame' \in [Consumers -> Frames \cup {0}] /\ frame'[t] = 0
        /\ \A c \in Consumers \ {t} : frame'[c] = frame[c]
    BY <1>00, <2>1
  <2>6. more' \in [Consumers -> BOOLEAN]
    BY <1>000, <2>1, Zenon
  <2>7. TypeOK'
    BY <1>0, <1>10, <2>1, <2>3, <2>4, <2>5, <2>6 DEF PostDraw, TypeOK
  <2>8. SlotsConserved' /\ AvailableCountsQueue'
    <3>1. /\ One(draw[t] \in Holding) = 0 /\ One("idle" \in Holding) = 0
          /\ One(draw[t] \in {"pop", "signal"}) = 0
          /\ One("idle" \in {"pop", "signal"}) = 0
      BY <2>1 DEF One, Holding
    <3> QED
      BY <1>00, <2>1, <2>2, <3>1, DrawStepCounts
  <2>9. FrameHeld'
    BY <1>0, <2>3, <2>5 DEF FrameHeld
  <2> QED
    BY <2>7, <2>8, <2>9 DEF PipelineInv
<1> QED
  BY <1>1, <1>2, <1>3, <1>4, <1>5, <1>6, <1>7, <1>8, <1>9, <1>10 DEF DrawStep

\* The steps that merge and unmerge the threads.
LEMMA MergerPreserves ==
    ASSUME PipelineInv, MergerStep
    PROVE  PipelineInv'
<1> USE PipelineAssumption
<1> USE DEF pipelineVars, animatorVars, waiterVars, pointerVars, uiVars
<1>0. TypeOK /\ FrameHeld
  BY DEF PipelineInv
<1>00. /\ empty \in Nat /\ available \in Nat /\ queue \in Seq(Frames)
       /\ Len(queue) \in Nat
       /\ draw \in [Consumers -> DrawLabels]
       /\ frame \in [Consumers -> Frames \cup {0}]
       /\ "raster" \in Consumers /\ "platform" \in Consumers
  BY <1>0 DEF TypeOK, Consumers
<1>000. more \in [Consumers -> BOOLEAN]
  BY <1>0, Zenon DEF TypeOK
<1>1. CASE TeardownUnmerges
  <2>1. UNCHANGED <<empty, available, queue, continuation, ui, draw, frame>>
    BY <1>1 DEF TeardownUnmerges
  <2>2. TypeOK'
    BY <1>0, <1>00, <1>1 DEF TeardownUnmerges, TypeOK
  <2> QED
    BY <1>0, <2>1, <2>2 DEF PipelineInv, SlotsConserved,
                            AvailableCountsQueue, FrameHeld, HowMany
<1>2. CASE DoDrawMerges \/ DoDrawUnmerges
  <2>1. PICK t \in Consumers, l \in {"release", "releaseAndRetry"} :
          /\ draw[t] = "drawing" /\ Go(t, l)
          /\ \/ more' = more
             \/ more' = [more EXCEPT ![t] = TRUE]
          /\ drawn' \in {drawn, frame[t]}
    BY <1>00, <1>2 DEF DoDrawMerges, DoDrawUnmerges
  <2>2. l \in DrawLabels
    BY <2>1 DEF DrawLabels
  <2>3. /\ draw' \in [Consumers -> DrawLabels] /\ draw'[t] = l
        /\ \A c \in Consumers \ {t} : draw'[c] = draw[c]
    BY <1>0, <2>1, <2>2, CountsMove
  <2>4. drawn' \in Frames \cup {0}
    BY <1>0, <1>00, <2>1 DEF TypeOK
  <2>5. more' \in [Consumers -> BOOLEAN]
    BY <1>000, <2>1, Zenon
  <2>6. /\ UNCHANGED <<empty, available, queue, continuation, ui, frame>>
        /\ server' \in Consumers
    BY <1>00, <1>2 DEF DoDrawMerges, DoDrawUnmerges
  <2>7. TypeOK'
    BY <1>0, <1>2, <2>3, <2>4, <2>5, <2>6
       DEF DoDrawMerges, DoDrawUnmerges, TypeOK
  <2>8. SlotsConserved' /\ AvailableCountsQueue'
    <3>1. /\ One(draw[t] \in Holding) = 1 /\ One(l \in Holding) = 1
          /\ One(draw[t] \in {"pop", "signal"}) = 0
          /\ One(l \in {"pop", "signal"}) = 0
      BY <2>1 DEF One, Holding
    <3> QED
      BY <1>00, <2>1, <2>2, <2>6, <3>1, DrawStepCounts
  <2>9. FrameHeld'
    BY <1>0, <2>1, <2>3, <2>6 DEF FrameHeld
  <2> QED
    BY <2>7, <2>8, <2>9 DEF PipelineInv
<1> QED
  BY <1>1, <1>2 DEF MergerStep

\* The inductive invariant: the initial state has it, each thread's steps
\* preserve it.
LEMMA PipelineInvariant == Spec => []PipelineInv
<1>1. Init => PipelineInv
  <2> SUFFICES ASSUME Init
               PROVE  PipelineInv
    OBVIOUS
  <2> USE PipelineAssumption DEF Init
  <2>1. TypeOK
    <3>1. /\ queue \in Seq(Frames)
          /\ uiTasks \in Seq(UITasks)
      OBVIOUS
    <3>2. /\ empty \in Nat /\ available \in Nat /\ pending \in Nat
          /\ awaited \in Nat /\ drawTasks \in Nat
          /\ sent \in Packets /\ received \in Nat
          /\ buffered \in Nat /\ dispatched \in Nat
          /\ built \in 0..MaxFrames
      BY DEF Packets
    <3>3. /\ continuation \in BOOLEAN /\ scheduled \in BOOLEAN
          /\ regenerate \in BOOLEAN /\ callback \in BOOLEAN
          /\ inProgress \in BOOLEAN
          /\ first \in BOOLEAN /\ missed \in BOOLEAN
      BY Zenon
    <3>4. /\ secondary \subseteq Clients /\ drawn \in Frames \cup {0}
          /\ frame \in [Consumers -> Frames \cup {0}]
          /\ draw \in [Consumers -> DrawLabels]
      BY DEF DrawLabels
    <3>5. ui = "idle" /\ server \in Consumers
      BY DEF Consumers
    <3>6. more \in [Consumers -> BOOLEAN]
      BY Zenon
    <3> HIDE DEF Init
    <3> QED
      BY <3>1, <3>2, <3>3, <3>4, <3>5, <3>6 DEF TypeOK
  <2>2. SlotsConserved
    <3>1. Len(queue) = 0 /\ One(continuation) = 0
      BY DEF One
    <3>2. HowMany(Holding) = 0
      BY DEF HowMany, One, Holding, Consumers
    <3> QED
      BY <3>1, <3>2 DEF SlotsConserved
  <2>3. AvailableCountsQueue
    BY DEF AvailableCountsQueue, One, HowMany, Consumers
  <2>4. FrameHeld
    BY DEF FrameHeld
  <2> QED
    BY <2>1, <2>2, <2>3, <2>4 DEF PipelineInv
<1>2. PipelineInv /\ [Next]_vars => PipelineInv'
  <2> SUFFICES ASSUME PipelineInv, [Next]_vars
               PROVE  PipelineInv'
    OBVIOUS
  <2>1. CASE UNCHANGED vars
    <3> USE <2>1 DEF vars, pipelineVars, animatorVars, waiterVars, pointerVars, uiVars,
                     rasterVars, PipelineInv
    <3>1. TypeOK'
      BY DEF TypeOK
    <3>2. SlotsConserved'
      BY DEF SlotsConserved, HowMany
    <3>3. AvailableCountsQueue'
      BY DEF AvailableCountsQueue, HowMany
    <3>4. FrameHeld'
      BY DEF FrameHeld
    <3> QED
      BY <3>1, <3>2, <3>3, <3>4
  <2> QED
    BY <2>1, UIPreserves, DispatcherPreserves, VsyncPreserves, DrawPreserves,
       MergerPreserves DEF Next
<1> QED
  BY <1>1, <1>2, PTL DEF Spec

\* In a pipeline of any depth every variable keeps its type: in particular
\* empty_, available_ and pending_frame_semaphore_ stay natural numbers,
\* and what Consume hands to DoDraw is a frame.
THEOREM TypeCorrect == Spec => []TypeOK
<1>1. PipelineInv => TypeOK
  BY DEF PipelineInv
<1> QED
  BY <1>1, PipelineInvariant, PTL

\* A pipeline of any depth never loses or makes up a slot, whichever frames
\* are not rendered, dropped, retried or beaten by a newer one.
THEOREM NoSlotLost == Spec => []SlotsConserved
<1>1. PipelineInv => SlotsConserved
  BY DEF PipelineInv
<1> QED
  BY <1>1, PipelineInvariant, PTL

\* available_ and queue_, which no common lock protects, agree up to the one
\* frame each thread is about to signal or to pop; so a Consume that got past
\* available_.TryWait() finds a front to pop, although two threads may be in
\* it after a merge.
THEOREM FrontExists ==
    Spec => [](/\ AvailableCountsQueue
               /\ \A t \in Consumers : draw[t] = "pop" => queue # <<>>)
<1>1. PipelineInv => /\ AvailableCountsQueue
                     /\ \A t \in Consumers : draw[t] = "pop" => queue # <<>>
  BY FrontToPop DEF PipelineInv
<1> QED
  BY <1>1, PipelineInvariant, PTL

-----------------------------------------------------------------------------
\* Where a thread has a frame whose slot is not released yet.
Consuming == {"drawing", "release", "releaseAndRetry"}

\* The slots that FrameQueue sees reserved.
Reserved == One(continuation) + HowMany({"commit"})

\* The semaphore empty_ counts the slots that FrameQueue finds free.
LEMMA FreeSlots ==
    ASSUME PipelineInv
    PROVE  /\ Reserved + Len(queue) + HowMany(Consuming) = Depth - empty
           /\ Reserved \in Nat /\ HowMany(Consuming) \in Nat
           /\ Len(queue) \in Nat /\ empty \in Nat
<1>0. TypeOK
  BY DEF PipelineInv
<1>1. HowMany(Holding) = HowMany({"commit"}) + HowMany(Consuming)
  BY DEF HowMany, One, Holding, Consuming
<1>2. /\ One(continuation) \in {0, 1} /\ Len(queue) \in Nat /\ empty \in Nat
      /\ HowMany({"commit"}) \in Nat /\ HowMany(Consuming) \in Nat
  BY <1>0, CountTypes DEF TypeOK
<1> QED
  BY <1>1, <1>2, PipelineAssumption DEF PipelineInv, SlotsConserved, Reserved

\* What a step of one thread in Draw is to FrameQueue.
LEMMA QueueCounts ==
    ASSUME PipelineInv, NEW t \in Consumers, NEW l \in DrawLabels, Go(t, l),
           continuation' = continuation
    PROVE  /\ Reserved' = Reserved - One(draw[t] = "commit") + One(l = "commit")
           /\ HowMany(Consuming)' = HowMany(Consuming)
                - One(draw[t] \in Consuming) + One(l \in Consuming)
           /\ Reserved >= One(draw[t] = "commit")
           /\ HowMany(Consuming) >= One(draw[t] \in Consuming)
           /\ Reserved \in Nat /\ HowMany(Consuming) \in Nat
<1>0. TypeOK
  BY DEF PipelineInv
<1>1. /\ One(draw[t] \in {"commit"}) = One(draw[t] = "commit")
      /\ One(l \in {"commit"}) = One(l = "commit")
  BY DEF One
<1>2. One(continuation) \in {0, 1} /\ One(continuation)' = One(continuation)
  BY DEF One
<1>3. /\ HowMany({"commit"}) \in Nat /\ HowMany({"commit"})' \in Nat
      /\ One(draw[t] \in {"commit"}) \in {0, 1}
      /\ One(l \in {"commit"}) \in {0, 1}
      /\ HowMany({"commit"}) >= One(draw[t] \in {"commit"})
      /\ HowMany({"commit"})' = HowMany({"commit"})
           - One(draw[t] \in {"commit"}) + One(l \in {"commit"})
  BY <1>0, CountsMove
<1>4. /\ HowMany(Consuming) \in Nat
      /\ HowMany(Consuming) >= One(draw[t] \in Consuming)
      /\ HowMany(Consuming)' = HowMany(Consuming)
           - One(draw[t] \in Consuming) + One(l \in Consuming)
  BY <1>0, CountsMove
<1> QED
  BY <1>1, <1>2, <1>3, <1>4 DEF Reserved

\* The steps of the UI thread that FrameQueue has too.
LEMMA ProducerSteps ==
    ASSUME PipelineInv
    PROVE  /\ BeginFrame => Queue!Reserve \/ UNCHANGED Queue!vars
           /\ Render => Queue!Push
<1> USE DEF pipelineVars, animatorVars, waiterVars, pointerVars, uiVars,
            rasterVars
<1>1. ASSUME BeginFrame
      PROVE  Queue!Reserve \/ UNCHANGED Queue!vars
  <2>1. /\ UNCHANGED <<queue, built, frame, draw>>
        /\ HowMany({"commit"})' = HowMany({"commit"})
        /\ HowMany(Consuming)' = HowMany(Consuming)
    BY <1>1 DEF BeginFrame, HowMany
  <2>2. CASE continuation
    <3>1. continuation' = continuation
      BY <1>1, <2>2 DEF BeginFrame, PipelineInv, TypeOK
    <3> QED
      BY <2>1, <3>1 DEF Queue!vars, Consuming
  <2>3. CASE ~continuation
    <3>1. One(continuation) = 0 /\ One(continuation)' = 1
      BY <1>1, <2>3 DEF BeginFrame, One
    <3>2. empty > 0
      BY <1>1, <2>3 DEF BeginFrame, Produce
    <3>3. Reserved + Len(queue) + HowMany(Consuming) < Depth
      BY <3>2, FreeSlots, PipelineAssumption
    <3>4. HowMany({"commit"}) \in Nat
      BY CountTypes DEF PipelineInv
    <3>5. Reserved' = Reserved + 1
      BY <2>1, <3>1, <3>4 DEF Reserved
    <3> QED
      BY <2>1, <3>3, <3>5 DEF Queue!Reserve, Reserved, Consuming
  <2> QED
    BY <2>2, <2>3
<1>2. ASSUME Render
      PROVE  Queue!Push
  <2>1. /\ UNCHANGED <<frame, draw>>
        /\ HowMany({"commit"})' = HowMany({"commit"})
        /\ HowMany(Consuming)' = HowMany(Consuming)
    BY <1>2 DEF Render, HowMany
  <2>2. One(continuation) = 1 /\ One(continuation)' = 0
    BY <1>2 DEF Render, Complete, One
  <2>3. HowMany({"commit"}) \in Nat
    BY CountTypes DEF PipelineInv
  <2>4. Reserved > 0 /\ Reserved' = Reserved - 1
    BY <2>1, <2>2, <2>3 DEF Reserved
  <2>5. built' = built + 1 /\ queue' = Append(queue, built')
    BY <1>2 DEF Render, Complete, ProducerCommit
  <2> QED
    BY <2>1, <2>4, <2>5 DEF Queue!Push, Reserved, Consuming
<1> QED
  BY <1>1, <1>2

\* The steps of a thread in Draw that it has.
LEMMA ConsumerSteps ==
    ASSUME PipelineInv, NEW t \in Consumers
    PROVE  /\ PopFront(t) => Queue!Take(t)
           /\ Release(t) => Queue!Finish
           /\ ProduceIfEmpty(t) => Queue!Reserve \/ UNCHANGED Queue!vars
           /\ ProducerCommitIfEmpty(t) => Queue!PutBack(t)
           /\ PostDraw(t) => Queue!Forget(t)
<1> USE DEF pipelineVars, animatorVars, waiterVars, pointerVars, uiVars
<1>0. FrameHeld
  BY DEF PipelineInv
<1>1. ASSUME PopFront(t)
      PROVE  Queue!Take(t)
  <2>1. /\ draw[t] = "pop" /\ Go(t, "drawing") /\ "drawing" \in DrawLabels
        /\ frame' = [frame EXCEPT ![t] = Head(queue)] /\ queue' = Tail(queue)
        /\ UNCHANGED <<continuation, built>>
    BY <1>1 DEF PopFront, DrawLabels
  <2>2. queue # <<>> /\ frame[t] = 0
    BY <1>0, <2>1, FrontToPop DEF FrameHeld
  <2>3. /\ One(draw[t] = "commit") = 0 /\ One("drawing" = "commit") = 0
        /\ One(draw[t] \in Consuming) = 0 /\ One("drawing" \in Consuming) = 1
    BY <2>1 DEF One, Consuming
  <2>4. Reserved' = Reserved /\ HowMany(Consuming)' = HowMany(Consuming) + 1
    BY <2>1, <2>3, QueueCounts
  <2> QED
    BY <2>1, <2>2, <2>4 DEF Queue!Take, Reserved, Consuming
<1>2. ASSUME Release(t)
      PROVE  Queue!Finish
  <2>1. /\ draw[t] \in {"release", "releaseAndRetry"}
        /\ UNCHANGED <<continuation, queue, built, frame>>
    BY <1>2 DEF Release
  <2>2. PICK l \in {"post", "produce"} : Go(t, l) /\ l \in DrawLabels
    BY <1>2 DEF Release, DrawLabels
  <2>3. /\ One(draw[t] = "commit") = 0 /\ One(l = "commit") = 0
        /\ One(draw[t] \in Consuming) = 1 /\ One(l \in Consuming) = 0
    BY <2>1, <2>2 DEF One, Consuming
  <2>4. /\ Reserved' = Reserved /\ HowMany(Consuming) > 0
        /\ HowMany(Consuming)' = HowMany(Consuming) - 1
    BY <2>1, <2>2, <2>3, QueueCounts
  <2> QED
    BY <2>1, <2>4 DEF Queue!Finish, Reserved, Consuming
<1>3. ASSUME ProduceIfEmpty(t)
      PROVE  Queue!Reserve \/ UNCHANGED Queue!vars
  <2>1. draw[t] = "produce" /\ UNCHANGED <<continuation, queue, built, frame>>
    BY <1>3 DEF ProduceIfEmpty
  <2>2. CASE empty = 0
    <3>1. Go(t, "post") /\ "post" \in DrawLabels
      BY <1>3, <2>2 DEF ProduceIfEmpty, DrawLabels
    <3>2. /\ One(draw[t] = "commit") = 0 /\ One("post" = "commit") = 0
          /\ One(draw[t] \in Consuming) = 0 /\ One("post" \in Consuming) = 0
      BY <2>1 DEF One, Consuming
    <3>3. Reserved' = Reserved /\ HowMany(Consuming)' = HowMany(Consuming)
      BY <2>1, <3>1, <3>2, QueueCounts
    <3> QED
      BY <2>1, <3>3 DEF Queue!vars, Reserved, Consuming
  <2>3. CASE empty # 0
    <3>1. Go(t, "commit") /\ "commit" \in DrawLabels
      BY <1>3, <2>3 DEF ProduceIfEmpty, DrawLabels
    <3>2. /\ One(draw[t] = "commit") = 0 /\ One("commit" = "commit") = 1
          /\ One(draw[t] \in Consuming) = 0 /\ One("commit" \in Consuming) = 0
      BY <2>1 DEF One, Consuming
    <3>3. Reserved' = Reserved + 1 /\ HowMany(Consuming)' = HowMany(Consuming)
      BY <2>1, <3>1, <3>2, QueueCounts
    <3>4. Reserved + Len(queue) + HowMany(Consuming) < Depth
      BY <2>3, FreeSlots, PipelineAssumption
    <3> QED
      BY <2>1, <3>3, <3>4 DEF Queue!Reserve, Reserved, Consuming
  <2> QED
    BY <2>2, <2>3
<1>4. ASSUME ProducerCommitIfEmpty(t)
      PROVE  Queue!PutBack(t)
  <2>1. draw[t] = "commit" /\ UNCHANGED <<continuation, built, frame>>
    BY <1>4 DEF ProducerCommitIfEmpty
  <2>2. PICK l \in {"post", "signal"} : Go(t, l) /\ l \in DrawLabels
    BY <1>4 DEF ProducerCommitIfEmpty, DrawLabels
  <2>3. /\ One(draw[t] = "commit") = 1 /\ One(l = "commit") = 0
        /\ One(draw[t] \in Consuming) = 0 /\ One(l \in Consuming) = 0
    BY <2>1, <2>2 DEF One, Consuming
  <2>4. /\ Reserved > 0 /\ Reserved' = Reserved - 1
        /\ HowMany(Consuming)' = HowMany(Consuming)
    BY <2>1, <2>2, <2>3, QueueCounts
  <2>5. frame[t] # 0
    BY <1>0, <2>1, PipelineAssumption DEF FrameHeld, Frames
  <2>6. IF queue = <<>> THEN queue' = <<frame[t]>> ELSE UNCHANGED queue
    BY <1>4 DEF ProducerCommitIfEmpty
  <2> QED
    BY <2>1, <2>4, <2>5, <2>6 DEF Queue!PutBack, Reserved, Consuming
<1>5. ASSUME PostDraw(t)
      PROVE  Queue!Forget(t)
  <2>1. /\ draw[t] = "post" /\ Go(t, "idle") /\ "idle" \in DrawLabels
        /\ frame' = [frame EXCEPT ![t] = 0]
        /\ UNCHANGED <<continuation, queue, built>>
    BY <1>5 DEF PostDraw, DrawLabels
  <2>2. /\ One(draw[t] = "commit") = 0 /\ One("idle" = "commit") = 0
        /\ One(draw[t] \in Consuming) = 0 /\ One("idle" \in Consuming) = 0
    BY <2>1 DEF One, Consuming
  <2>3. Reserved' = Reserved /\ HowMany(Consuming)' = HowMany(Consuming)
    BY <2>1, <2>2, QueueCounts
  <2> QED
    BY <2>1, <2>3 DEF Queue!Forget, Reserved, Consuming
<1> QED
  BY <1>1, <1>2, <1>3, <1>4, <1>5

\* The steps of Draw that it does not have.
LEMMA HiddenSteps ==
    ASSUME PipelineInv, NEW t \in Consumers, NEW l \in DrawLabels, Go(t, l),
           \/ draw[t] \in Consuming /\ l \in Consuming
           \/ /\ draw[t] \in {"idle", "pop", "signal", "post"}
              /\ l \in {"idle", "pop", "signal", "post"},
           UNCHANGED <<continuation, queue, built, frame>>
    PROVE  UNCHANGED Queue!vars
<1>1. /\ One(draw[t] = "commit") = 0 /\ One(l = "commit") = 0
      /\ One(draw[t] \in Consuming) = One(l \in Consuming)
      /\ One(l \in Consuming) \in {0, 1}
  BY DEF One, Consuming
<1>2. Reserved' = Reserved /\ HowMany(Consuming)' = HowMany(Consuming)
  BY <1>1, QueueCounts
<1> QED
  BY <1>2 DEF Queue!vars, Reserved, Consuming

\* Pipeline implements the queue its users see: whatever the interleaving of
\* the threads between the semaphores and the mutex, whichever of two threads
\* consumes, and however often frames are retried, each step is a step of
\* FrameQueue or changes nothing there.
THEOREM RefinesFrameQueue == Spec => ImplementsFrameQueue
<1>1. Init => Queue!Init
  <2> SUFFICES ASSUME Init
               PROVE  Queue!Init
    OBVIOUS
  <2>1. /\ One(continuation) + HowMany({"commit"}) = 0
        /\ HowMany(Consuming) = 0
    BY DEF Init, One, HowMany, Consuming, Consumers
  <2> QED
    BY <2>1 DEF Init, Queue!Init, Consuming
<1>2. PipelineInv /\ [Next]_vars => [Queue!Next]_(Queue!vars)
  <2> SUFFICES ASSUME PipelineInv, [Next]_vars
               PROVE  [Queue!Next]_(Queue!vars)
    OBVIOUS
  <2> USE DEF pipelineVars, animatorVars, waiterVars, pointerVars, uiVars
  <2>1. CASE BeginFrame \/ Render
    BY <2>1, ProducerSteps DEF Queue!Next
  <2>2. ASSUME NEW t \in Consumers,
               \/ PopFront(t) \/ Release(t) \/ ProduceIfEmpty(t)
               \/ ProducerCommitIfEmpty(t) \/ PostDraw(t)
        PROVE  [Queue!Next]_(Queue!vars)
    BY <2>2, ConsumerSteps DEF Queue!Next
  <2>3. ASSUME NEW t \in Consumers,
               \/ StartDraw(t) \/ DoDraw(t) \/ DoDrawRetries(t)
               \/ SignalPutBack(t)
        PROVE  UNCHANGED Queue!vars
    <3>1. UNCHANGED <<continuation, queue, built, frame>>
      BY <2>3 DEF StartDraw, DoDraw, DoDrawRetries, SignalPutBack
    <3>2. CASE UNCHANGED draw
      BY <3>1, <3>2 DEF Queue!vars, HowMany
    <3>3. CASE ~UNCHANGED draw
      <4>1. PICK l \in DrawLabels :
              /\ Go(t, l)
              /\ \/ draw[t] \in Consuming /\ l \in Consuming
                 \/ /\ draw[t] \in {"idle", "pop", "signal", "post"}
                    /\ l \in {"idle", "pop", "signal", "post"}
        BY <2>3, <3>3 DEF StartDraw, DoDraw, DoDrawRetries, SignalPutBack,
                          DrawLabels, Consuming
      <4> QED
        BY <3>1, <4>1, HiddenSteps
    <3> QED
      BY <3>2, <3>3
  <2>4. CASE DoDrawMerges \/ DoDrawUnmerges
    <3>1. UNCHANGED <<continuation, queue, built, frame>>
      BY <2>4 DEF DoDrawMerges, DoDrawUnmerges
    <3>2. PICK t \in Consumers, l \in {"release", "releaseAndRetry"} :
            draw[t] = "drawing" /\ Go(t, l)
      BY <2>4 DEF DoDrawMerges, DoDrawUnmerges, Consumers
    <3>3. /\ l \in DrawLabels /\ draw[t] \in Consuming /\ l \in Consuming
      BY <3>2 DEF DrawLabels, Consuming
    <3> QED
      BY <3>1, <3>2, <3>3, HiddenSteps
  <2>5. CASE \/ AwaitVSync \/ DrawLastLayerTrees \/ BeginFramePipelineFull
             \/ DispatchPacket \/ ScheduleSecondaryVsyncCallback
             \/ DispatcherCallback \/ MaybeClearTraceFlowIds
             \/ SignalAvailable \/ EndBuild \/ SendPacket \/ FireCallback
             \/ (\E b \in BOOLEAN : RequestFrame(b))
             \/ TeardownUnmerges \/ UNCHANGED vars
    <3>1. UNCHANGED <<continuation, queue, built, frame, draw>>
      BY <2>5 DEF AwaitVSync, DrawLastLayerTrees, BeginFramePipelineFull,
                  DispatchPacket, ScheduleSecondaryVsyncCallback,
                  DispatcherCallback, MaybeClearTraceFlowIds,
                  SignalAvailable, EndBuild, SendPacket, FireCallback,
                  RequestFrame, TeardownUnmerges, rasterVars, vars
    <3> QED
      BY <3>1 DEF Queue!vars, HowMany
  <2> QED
    BY <2>1, <2>2, <2>3, <2>4, <2>5
       DEF Next, UIStep, FrameworkStep, DrawStep, MergerStep
<1> QED
  BY <1>1, <1>2, PipelineInvariant, PTL
     DEF Spec, ImplementsFrameQueue, Queue!Spec

-----------------------------------------------------------------------------
\* Smoothing never holds back more than the packet received last and never
\* changes the order, for any number of packets and however they fall between
\* the vsyncs: OneEventLate is inductive, given the types.
THEOREM SmoothingInOrder == Spec => []OneEventLate
<1>1. Init => OneEventLate
  BY DEF Init, OneEventLate
<1>2. PipelineInv /\ OneEventLate /\ [Next]_vars => OneEventLate'
  <2> SUFFICES ASSUME PipelineInv, OneEventLate, [Next]_vars
               PROVE  OneEventLate'
    OBVIOUS
  <2>0. /\ received \in Nat /\ buffered \in Nat /\ dispatched \in Nat
        /\ inProgress \in BOOLEAN
    BY DEF PipelineInv, TypeOK
  <2>1. CASE DispatchPacket
    BY <2>0, <2>1 DEF DispatchPacket, DoDispatchPacket, OneEventLate
  <2>2. CASE DispatcherCallback
    BY <2>0, <2>2 DEF DispatcherCallback, DoDispatchPacket, OneEventLate
  <2>3. CASE SendPacket
    BY <2>3 DEF SendPacket, OneEventLate
  <2>4. CASE \/ AwaitVSync \/ DrawLastLayerTrees \/ BeginFrame
             \/ BeginFramePipelineFull \/ ScheduleSecondaryVsyncCallback
             \/ MaybeClearTraceFlowIds \/ SignalAvailable \/ EndBuild
             \/ Render \/ FireCallback \/ UNCHANGED vars
             \/ (\E b \in BOOLEAN : RequestFrame(b))
             \/ (\E t \in Consumers : DrawStep(t)) \/ MergerStep
    <3>1. UNCHANGED pointerVars
      BY <2>4 DEF AwaitVSync, DrawLastLayerTrees, BeginFrame,
                  BeginFramePipelineFull, ScheduleSecondaryVsyncCallback,
                  MaybeClearTraceFlowIds, SignalAvailable, EndBuild, Render,
                  FireCallback, DrawStep, StartDraw, PopFront, DoDraw,
                  DoDrawRetries, Release, ProduceIfEmpty,
                  ProducerCommitIfEmpty, SignalPutBack, PostDraw, MergerStep,
                  DoDrawMerges, DoDrawUnmerges, TeardownUnmerges,
                  RequestFrame, vars
    <3> QED
      BY <3>1 DEF pointerVars, OneEventLate
  <2> QED
    BY <2>1, <2>2, <2>3, <2>4 DEF Next, UIStep, FrameworkStep
<1> QED
  BY <1>1, <1>2, PipelineInvariant, PTL DEF Spec

=============================================================================
