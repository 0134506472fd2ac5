------------------------- MODULE FrameRequestProofs -------------------------
(***************************************************************************)
(* Theorems about the requests of FramePipeline: the Animator's request    *)
(* for a frame and the dispatcher's request for a callback, which share    *)
(* the VsyncWaiter and the UI queue, are neither lost nor doubled.         *)
(***************************************************************************)
EXTENDS FramePipelineProofs

\* Where a queue of the UI thread holds a task.
Places(tasks, task) == {i \in DOMAIN tasks : tasks[i] = task}

-----------------------------------------------------------------------------
(* Queues of the UI thread *)

\* A task has finitely many places, and one if it is in the queue.
LEMMA PlacesFinite ==
    ASSUME NEW s \in Seq(UITasks), NEW x
    PROVE  /\ IsFiniteSet(Places(s, x))
           /\ Cardinality(Places(s, x)) \in Nat
           /\ (\E i \in DOMAIN s : s[i] = x) => Cardinality(Places(s, x)) # 0
<1>1. Len(s) \in Nat /\ DOMAIN s = 1..Len(s)
  OBVIOUS
<1>2. IsFiniteSet(1..Len(s))
  BY <1>1, FS_Interval
<1>3. Places(s, x) \in SUBSET (1..Len(s))
  BY <1>1 DEF Places
<1>4. IsFiniteSet(Places(s, x))
  BY <1>2, <1>3, FS_Subset
<1>5. Cardinality(Places(s, x)) \in Nat
  BY <1>4, FS_CardinalityType
<1>6. Cardinality(Places(s, x)) = 0 => Places(s, x) = {}
  BY <1>4, FS_EmptySet
<1> QED
  BY <1>4, <1>5, <1>6 DEF Places

\* Posting a task adds one to its count.
LEMMA AppendPlaces ==
    ASSUME NEW s \in Seq(UITasks), NEW y \in UITasks, NEW x
    PROVE  Cardinality(Places(Append(s, y), x))
             = Cardinality(Places(s, x)) + One(y = x)
<1>1. /\ Len(s) \in Nat /\ DOMAIN s = 1..Len(s)
      /\ DOMAIN Append(s, y) = 1..(Len(s) + 1)
      /\ \A i \in 1..Len(s) : Append(s, y)[i] = s[i]
      /\ Append(s, y)[Len(s) + 1] = y
  OBVIOUS
<1>2. IsFiniteSet(Places(s, x)) /\ Cardinality(Places(s, x)) \in Nat
  BY PlacesFinite
<1>3. CASE y = x
  <2>1. Places(Append(s, y), x) = Places(s, x) \cup {Len(s) + 1}
    BY <1>1, <1>3 DEF Places
  <2>2. Len(s) + 1 \notin Places(s, x)
    BY <1>1 DEF Places
  <2> QED
    BY <1>2, <1>3, <2>1, <2>2, FS_AddElement DEF One
<1>4. CASE y # x
  <2>1. Places(Append(s, y), x) = Places(s, x)
    BY <1>1, <1>4 DEF Places
  <2> QED
    BY <1>2, <1>4, <2>1 DEF One
<1> QED
  BY <1>3, <1>4

\* Taking the task at the head takes one from its count.
LEMMA TailPlaces ==
    ASSUME NEW s \in Seq(UITasks), s # <<>>, NEW x
    PROVE  Cardinality(Places(s, x))
             = Cardinality(Places(Tail(s), x)) + One(Head(s) = x)
<1>1. /\ Len(s) \in Nat \ {0} /\ DOMAIN s = 1..Len(s)
      /\ DOMAIN Tail(s) = 1..(Len(s) - 1)
      /\ \A i \in 1..(Len(s) - 1) : Tail(s)[i] = s[i + 1]
      /\ Head(s) = s[1]
      /\ Tail(s) \in Seq(UITasks)
  OBVIOUS
<1> DEFINE T == Places(Tail(s), x)
           S == Places(s, x) \ {1}
           shift == [i \in T |-> i + 1]
<1>2. IsFiniteSet(T) /\ Cardinality(T) \in Nat
  BY <1>1, PlacesFinite
<1>3. IsFiniteSet(Places(s, x)) /\ Cardinality(Places(s, x)) \in Nat
  BY PlacesFinite
<1>4. Cardinality(S) = Cardinality(T)
  <2>1. shift \in [T -> S]
    BY <1>1 DEF Places
  <2>2. shift \in Injection(T, S)
    BY <1>1, <2>1 DEF Places, Injection, IsInjective
  <2>3. \A j \in S : j - 1 \in T /\ (j - 1) + 1 = j
    BY <1>1 DEF Places
  <2>4. shift \in Surjection(T, S)
    <3>1. \A j \in S : shift[j - 1] = j
      BY <2>3
    <3> QED
      BY <2>1, <2>3, <3>1 DEF Surjection
  <2> HIDE DEF T, S, shift
  <2>5. ExistsBijection(T, S)
    BY <2>2, <2>4 DEF ExistsBijection, Bijection
  <2> QED
    BY <1>2, <2>5, FS_Bijection
<1>5. Cardinality(S) = IF 1 \in Places(s, x) THEN Cardinality(Places(s, x)) - 1
                                           ELSE Cardinality(Places(s, x))
  BY <1>3, FS_RemoveElement
<1>6. 1 \in Places(s, x) <=> Head(s) = x
  BY <1>1 DEF Places
<1> HIDE DEF T, S
<1>7. Cardinality(Places(s, x)) = Cardinality(T) + One(Head(s) = x)
  BY <1>2, <1>3, <1>4, <1>5, <1>6 DEF One
<1> QED
  BY <1>7 DEF T

\* Posting tasks of other kinds leaves a count as it is.
LEMMA ConcatPlaces ==
    ASSUME NEW s \in Seq(UITasks), NEW p \in Seq(UITasks), NEW x,
           \A i \in DOMAIN p : p[i] # x
    PROVE  Places(s \o p, x) = Places(s, x)
<1>1. /\ Len(s) \in Nat /\ DOMAIN s = 1..Len(s)
      /\ Len(p) \in Nat /\ DOMAIN p = 1..Len(p)
      /\ DOMAIN (s \o p) = 1..(Len(s) + Len(p))
      /\ \A i \in 1..Len(s) : (s \o p)[i] = s[i]
      /\ \A i \in (Len(s) + 1)..(Len(s) + Len(p)) : (s \o p)[i] = p[i - Len(s)]
  OBVIOUS
<1>2. \A i \in (Len(s) + 1)..(Len(s) + Len(p)) : (s \o p)[i] # x
  <2> TAKE i \in (Len(s) + 1)..(Len(s) + Len(p))
  <2>1. i - Len(s) \in DOMAIN p
    BY <1>1
  <2> QED
    BY <1>1, <2>1
<1> QED
  BY <1>1, <1>2 DEF Places

\* Whatever order the map of secondary callbacks is iterated in, every
\* callback is posted, and nothing else.
LEMMA AllPosted ==
    ASSUME NEW ids \in SUBSET Clients, NEW posted \in Orders(ids)
    PROVE  /\ posted \in Seq(ids)
           /\ \A id \in ids : \E i \in DOMAIN posted : posted[i] = id
<1>1. IsFiniteSet(ids)
  <2>1. Clients = {"dispatcher"} \cup {"animator"}
    BY DEF Clients
  <2>2. IsFiniteSet(Clients)
    BY <2>1, FS_Singleton, FS_Union
  <2> QED
    BY <2>2, FS_Subset
<1> DEFINE n == Cardinality(ids)
<1>2. n \in Nat
  BY <1>1, FS_CardinalityType
<1>3. posted \in Injection(1..n, ids)
  BY DEF Orders, Injection, IsInjective
<1>4. Cardinality(1..n) = n
  BY <1>2, FS_Interval
<1>5. posted \in Surjection(1..n, ids)
  BY <1>1, <1>3, <1>4, FS_Injection
<1>6. posted \in [1..n -> ids]
  BY DEF Orders
<1>7. posted \in Seq(ids)
  BY <1>2, <1>6
<1> QED
  BY <1>5, <1>6, <1>7 DEF Surjection

-----------------------------------------------------------------------------
(* The count of a kind of task *)

\* A count is the number of places, before and after a step.
LEMMA CountIsPlaces ==
    /\ \A x : Count(x) = Cardinality(Places(uiTasks, x))
    /\ \A x : Count(x)' = Cardinality(Places(uiTasks', x))
  BY DEF Count, Places

\* A count is a number, and not zero for the task at the head.
LEMMA CountType ==
    ASSUME TypeOK
    PROVE  \A x : /\ Count(x) \in Nat
                  /\ uiTasks # <<>> /\ Head(uiTasks) = x => Count(x) # 0
<1>1. uiTasks \in Seq(UITasks)
  BY DEF TypeOK
<1>2. uiTasks # <<>> => 1 \in DOMAIN uiTasks /\ Head(uiTasks) = uiTasks[1]
  BY <1>1
<1>3. \A x : /\ Cardinality(Places(uiTasks, x)) \in Nat
             /\ (\E i \in DOMAIN uiTasks : uiTasks[i] = x)
                   => Cardinality(Places(uiTasks, x)) # 0
  BY <1>1, PlacesFinite
<1> QED
  BY <1>2, <1>3, CountIsPlaces

\* Posting a task counts one more of its kind.
LEMMA CountPost ==
    ASSUME TypeOK, NEW y \in UITasks, uiTasks' = Append(uiTasks, y)
    PROVE  \A x : Count(x)' = Count(x) + One(y = x)
<1>1. uiTasks \in Seq(UITasks)
  BY DEF TypeOK
<1>2. \A x : Cardinality(Places(Append(uiTasks, y), x))
               = Cardinality(Places(uiTasks, x)) + One(y = x)
  BY <1>1, AppendPlaces
<1> QED
  BY <1>2, CountIsPlaces

\* Taking a task counts one less.
LEMMA CountTake ==
    ASSUME TypeOK, uiTasks # <<>>, uiTasks' = Tail(uiTasks)
    PROVE  \A x : Count(x) = Count(x)' + One(Head(uiTasks) = x)
<1>1. uiTasks \in Seq(UITasks)
  BY DEF TypeOK
<1>2. \A x : Cardinality(Places(uiTasks, x))
               = Cardinality(Places(Tail(uiTasks), x)) + One(Head(uiTasks) = x)
  BY <1>1, TailPlaces
<1> QED
  BY <1>2, CountIsPlaces

\* FireCallback posts the Animator's task once, besides the secondary ones.
LEMMA CountFire ==
    ASSUME TypeOK, FireCallback
    PROVE  \A x : x \notin Clients => Count(x)' = Count(x) + One(callback /\ x = "vsync")
<1>1. PICK posted \in Orders(secondary) :
        uiTasks' = (uiTasks \o (IF callback THEN <<"vsync">> ELSE <<>>)) \o posted
  BY DEF FireCallback
<1>2. /\ posted \in Seq(Clients)
      /\ posted \in Seq(UITasks)
      /\ uiTasks \in Seq(UITasks)
  <2>1. posted \in Seq(secondary) /\ secondary \subseteq Clients
    BY AllPosted DEF TypeOK
  <2>2. posted \in Seq(Clients)
    BY <2>1
  <2> QED
    BY <2>2 DEF UITasks, TypeOK
<1> SUFFICES ASSUME NEW x, x \notin Clients
             PROVE  Count(x)' = Count(x) + One(callback /\ x = "vsync")
  OBVIOUS
<1>3. \A i \in DOMAIN posted : posted[i] # x
  BY <1>2
<1>4. CASE callback
  <2>1. "vsync" \in UITasks
    BY DEF UITasks
  <2>2. uiTasks' = Append(uiTasks, "vsync") \o posted
    BY <1>1, <1>2, <1>4
  <2>3. Append(uiTasks, "vsync") \in Seq(UITasks)
    BY <1>2, <2>1
  <2>4. Places(uiTasks', x) = Places(Append(uiTasks, "vsync"), x)
    BY <1>2, <1>3, <2>2, <2>3, ConcatPlaces
  <2>5. Cardinality(Places(uiTasks', x)) = Cardinality(Places(uiTasks, x)) + One("vsync" = x)
    BY <1>2, <2>1, <2>4, AppendPlaces
  <2> QED
    BY <1>4, <2>5 DEF Count, Places, One
<1>5. CASE ~callback
  <2>1. uiTasks' = uiTasks \o posted
    BY <1>1, <1>2, <1>5
  <2>2. Places(uiTasks', x) = Places(uiTasks, x)
    BY <1>2, <1>3, <2>1, ConcatPlaces
  <2>3. Count(x)' = Count(x) /\ Count(x) \in Nat
    BY <2>2, CountType DEF Count, Places
  <2> QED
    BY <1>5, <2>3 DEF One
<1> QED
  BY <1>4, <1>5

-----------------------------------------------------------------------------
(* One request *)

\* The steps that neither touch the waiter nor move the Animator's request.
LEMMA RequestElsewhere ==
    ASSUME TypeOK, OneRequest, UNCHANGED <<pending, callback, secondary, awaited>>,
           \/ uiTasks' = uiTasks
           \/ uiTasks' = Append(uiTasks, "packet")
           \/ /\ uiTasks # <<>> /\ uiTasks' = Tail(uiTasks)
              /\ Head(uiTasks) \notin {"AwaitVSync", "vsync"}
    PROVE  OneRequest'
<1>1. /\ Count("AwaitVSync")' = Count("AwaitVSync")
      /\ Count("vsync")' = Count("vsync")
  <2>1. /\ Count("AwaitVSync") \in Nat /\ Count("vsync") \in Nat
        /\ Count("AwaitVSync")' \in Nat \/ uiTasks' \notin Seq(UITasks)
        /\ Count("vsync")' \in Nat \/ uiTasks' \notin Seq(UITasks)
    BY CountType, PlacesFinite DEF Count, Places
  <2>2. CASE uiTasks' = uiTasks
    BY <2>2 DEF Count
  <2>3. CASE uiTasks' = Append(uiTasks, "packet")
    BY <2>1, <2>3, CountPost DEF UITasks, One
  <2>4. CASE /\ uiTasks # <<>> /\ uiTasks' = Tail(uiTasks)
             /\ Head(uiTasks) \notin {"AwaitVSync", "vsync"}
    <3>1. uiTasks' \in Seq(UITasks)
      BY <2>4 DEF TypeOK
    <3> QED
      BY <2>1, <2>4, <3>1, CountTake DEF One
  <2> QED
    BY <2>2, <2>3, <2>4
<1> QED
  BY <1>1 DEF OneRequest

\* The steps that pass the Animator's request on.
LEMMA RequestPasses ==
    ASSUME TypeOK, TypeOK', OneRequest,
           \/ \E b \in BOOLEAN : RequestFrame(b)
           \/ AwaitVSync \/ DrawLastLayerTrees \/ BeginFrame
           \/ BeginFramePipelineFull \/ FireCallback
    PROVE  OneRequest'
<1> DEFINE A == Count("AwaitVSync")
           V == Count("vsync")
<1> USE DEF pipelineVars, animatorVars, waiterVars, pointerVars, uiVars, rasterVars
<1>0. /\ A \in Nat /\ V \in Nat /\ pending \in Nat /\ awaited \in Nat
      /\ A' \in Nat /\ V' \in Nat /\ pending' \in Nat
      /\ callback \in BOOLEAN
  BY CountType, PlacesFinite DEF Count, Places, TypeOK
<1>1. /\ pending + A + One(callback) + V = 1
      /\ awaited = One(callback \/ secondary # {})
  BY DEF OneRequest
<1>2. "AwaitVSync" \in UITasks /\ "vsync" \in UITasks
  BY DEF UITasks
<1>3. SUFFICES /\ pending' + A' + One(callback)' + V' = 1
               /\ awaited' = One(callback \/ secondary # {})'
  BY DEF OneRequest
<1>4. ASSUME NEW b \in BOOLEAN, RequestFrame(b)
      PROVE  OneRequest'
  <2>1. CASE pending = 0
    BY <1>4, <2>1, RequestElsewhere DEF RequestFrame
  <2>2. CASE pending # 0
    <3>1. A' = A + 1 /\ V' = V
      BY <1>0, <1>2, <1>4, <2>2, CountPost DEF RequestFrame, One
    <3>2. pending' = pending - 1 /\ UNCHANGED <<callback, secondary, awaited>>
      BY <1>4, <2>2 DEF RequestFrame
    <3> HIDE DEF A, V
    <3>3. pending' + A' + One(callback)' + V' = 1
      BY <1>0, <1>1, <3>1, <3>2 DEF One
    <3> QED
      BY <1>1, <3>2, <3>3 DEF OneRequest, A, V
  <2> QED
    BY <2>1, <2>2
<1>5. CASE AwaitVSync
  <2>1. A = A' + 1 /\ V' = V
    BY <1>0, <1>5, CountTake DEF AwaitVSync, Take, One
  <2>2. /\ pending' = pending /\ callback' = TRUE /\ secondary' = secondary
        /\ awaited' = IF callback \/ secondary # {} THEN awaited ELSE awaited + 1
    BY <1>5 DEF AwaitVSync, AsyncWaitForVsync
  <2> HIDE DEF A, V
  <2>3. ~callback
    <3>1. callback => One(callback) = 1
      BY DEF One
    <3> QED
      BY <1>0, <1>1, <2>1, <3>1
  <2>4. One(callback) = 0 /\ One(callback)' = 1
    BY <2>2, <2>3 DEF One
  <2>5. pending' + A' + One(callback)' + V' = 1
    <3>1. PICK left \in Nat : left = A'
      BY <1>0, Zenon
    <3>2. PICK coming \in Nat : coming = V
      BY <1>0, Zenon
    <3>3. A = left + 1
      BY <2>1, <3>1
    <3>4. pending + (left + 1) + 0 + coming = 1
      BY <1>1, <2>4, <3>2, <3>3
    <3>5. pending = 0 /\ left = 0 /\ coming = 0
      BY <1>0, <3>4
    <3> QED
      BY <2>1, <2>2, <2>4, <3>1, <3>2, <3>5
  <2>6. awaited' = 1 /\ One(callback \/ secondary # {})' = 1
    <3>1. CASE secondary = {}
      BY <1>1, <2>2, <2>3, <3>1 DEF One
    <3>2. CASE secondary # {}
      BY <1>1, <2>2, <2>3, <3>2 DEF One
    <3> QED
      BY <3>1, <3>2
  <2> QED
    BY <2>5, <2>6
<1>6. CASE DrawLastLayerTrees \/ BeginFrame
  <2>1. V = V' + 1 /\ A' = A
    BY <1>0, <1>6, CountTake DEF DrawLastLayerTrees, BeginFrame, Take, One
  <2>2. pending' = pending + 1 /\ UNCHANGED <<callback, secondary, awaited>>
    BY <1>6 DEF DrawLastLayerTrees, BeginFrame
  <2> HIDE DEF A, V
  <2>3. One(callback) \in Nat /\ One(callback)' = One(callback)
    BY <2>2 DEF One
  <2>4. pending' + A' + One(callback)' + V' = 1
    BY <1>0, <1>1, <2>1, <2>2, <2>3
  <2> QED
    BY <1>1, <2>2, <2>4
<1>7. CASE BeginFramePipelineFull
  <2>1. /\ uiTasks \in Seq(UITasks) /\ uiTasks # <<>> /\ Head(uiTasks) = "vsync"
        /\ uiTasks' = Append(Tail(uiTasks), "AwaitVSync")
        /\ Tail(uiTasks) \in Seq(UITasks)
    BY <1>7 DEF BeginFramePipelineFull, Take, TypeOK
  <2> DEFINE TA == Cardinality(Places(Tail(uiTasks), "AwaitVSync"))
             TV == Cardinality(Places(Tail(uiTasks), "vsync"))
  <2>2. TA \in Nat /\ TV \in Nat
    BY <2>1, PlacesFinite
  <2>3. A = TA + One(Head(uiTasks) = "AwaitVSync") /\ V = TV + One(Head(uiTasks) = "vsync")
    BY <2>1, TailPlaces, CountIsPlaces
  <2>4. A' = TA + One("AwaitVSync" = "AwaitVSync") /\ V' = TV + One("AwaitVSync" = "vsync")
    <3>1. \A x : Cardinality(Places(Append(Tail(uiTasks), "AwaitVSync"), x))
                   = Cardinality(Places(Tail(uiTasks), x)) + One("AwaitVSync" = x)
      BY <1>2, <2>1, AppendPlaces
    <3> QED
      BY <2>1, <3>1, CountIsPlaces
  <2>5. UNCHANGED <<pending, callback, secondary, awaited>>
    BY <1>7 DEF BeginFramePipelineFull
  <2> HIDE DEF A, V, TA, TV
  <2> QED
    BY <1>0, <1>1, <2>1, <2>2, <2>3, <2>4, <2>5 DEF One
<1>8. CASE FireCallback
  <2>1. A' = A /\ V' = V + One(callback)
    BY <1>0, <1>8, CountFire DEF Clients, One
  <2>2. /\ pending' = pending /\ callback' = FALSE /\ secondary' = {}
        /\ awaited > 0 /\ awaited' = awaited - 1
    BY <1>8 DEF FireCallback
  <2> HIDE DEF A, V
  <2> QED
    BY <1>0, <1>1, <2>1, <2>2 DEF One
<1> QED
  BY <1>4, <1>5, <1>6, <1>7, <1>8 DEF OneRequest

\* The dispatcher's calls of the waiter.
LEMMA RequestShares ==
    ASSUME TypeOK, OneRequest,
           DispatchPacket \/ ScheduleSecondaryVsyncCallback \/ DispatcherCallback
    PROVE  OneRequest'
<1> USE DEF pipelineVars, animatorVars, waiterVars, pointerVars, uiVars, rasterVars
<1>1. \/ uiTasks' = uiTasks
      \/ /\ uiTasks # <<>> /\ uiTasks' = Tail(uiTasks)
         /\ Head(uiTasks) \notin {"AwaitVSync", "vsync"}
  BY DEF DispatchPacket, ScheduleSecondaryVsyncCallback, DispatcherCallback, Take
<1>2. UNCHANGED <<pending, callback>>
  BY DEF DispatchPacket, ScheduleSecondaryVsyncCallback, DispatcherCallback,
         DoDispatchPacket, ScheduleSecondaryCallback
<1>3. \/ UNCHANGED <<secondary, awaited>>
      \/ \E id \in Clients : ScheduleSecondaryCallback(id)
  BY DEF DispatchPacket, ScheduleSecondaryVsyncCallback, DispatcherCallback,
         DoDispatchPacket, Clients
<1>4. CASE UNCHANGED <<secondary, awaited>>
  BY <1>1, <1>2, <1>4, RequestElsewhere
<1>5. CASE \E id \in Clients : ScheduleSecondaryCallback(id)
  <2>1. /\ Count("AwaitVSync")' = Count("AwaitVSync")
        /\ Count("vsync")' = Count("vsync")
    <3>1. CASE uiTasks' = uiTasks
      BY <3>1 DEF Count
    <3>2. CASE /\ uiTasks # <<>> /\ uiTasks' = Tail(uiTasks)
               /\ Head(uiTasks) \notin {"AwaitVSync", "vsync"}
      <4>1. uiTasks' \in Seq(UITasks)
        BY <3>2 DEF TypeOK
      <4>2. Count("AwaitVSync")' \in Nat /\ Count("vsync")' \in Nat
        BY <4>1, PlacesFinite DEF Count, Places
      <4> QED
        BY <3>2, <4>2, CountTake DEF One
    <3> QED
      BY <1>1, <3>1, <3>2
  <2>2. awaited' = One(callback \/ secondary # {})'
    <3>1. awaited = One(callback \/ secondary # {}) /\ callback \in BOOLEAN
      BY DEF OneRequest, TypeOK
    <3> QED
      BY <1>2, <1>5, <3>1 DEF ScheduleSecondaryCallback, One
  <2> QED
    BY <1>2, <2>1, <2>2 DEF OneRequest
<1> QED
  BY <1>3, <1>4, <1>5

\* What the threads in Draw, and those that change which of them serves the
\* raster queue, leave alone.
LEMMA DrawKeeps ==
    ASSUME (\E t \in Consumers : DrawStep(t)) \/ MergerStep
    PROVE  UNCHANGED <<animatorVars, waiterVars, pointerVars, uiVars>>
<1>1. ASSUME NEW t \in Consumers, DrawStep(t)
      PROVE  UNCHANGED <<animatorVars, waiterVars, pointerVars, uiVars>>
  <2>1. CASE StartDraw(t) \/ PopFront(t) \/ DoDraw(t) \/ DoDrawRetries(t)
    BY <2>1 DEF StartDraw, PopFront, DoDraw, DoDrawRetries
  <2>2. CASE \/ Release(t) \/ ProduceIfEmpty(t) \/ ProducerCommitIfEmpty(t)
             \/ SignalPutBack(t) \/ PostDraw(t)
    BY <2>2 DEF Release, ProduceIfEmpty, ProducerCommitIfEmpty,
       SignalPutBack, PostDraw
  <2> QED
    BY <1>1, <2>1, <2>2 DEF DrawStep
<1>2. CASE MergerStep
  BY <1>2 DEF MergerStep, DoDrawMerges, DoDrawUnmerges, TeardownUnmerges
<1> QED
  BY <1>1, <1>2

\* However requests of the framework, vsyncs and packets interleave, the
\* Animator has exactly one request between its semaphore, the UI queue and
\* the waiter, and the platform owes the waiter exactly one vsync while
\* anybody waits, none otherwise: the two callers of the waiter neither
\* swallow each other's request nor ask twice.
THEOREM RequestIsOne == Spec => []OneRequest
<1>1. Init => OneRequest
  <2> SUFFICES ASSUME Init
               PROVE  OneRequest
    OBVIOUS
  <2>1. DOMAIN uiTasks = {}
    BY DEF Init
  <2>2. Count("AwaitVSync") = 0 /\ Count("vsync") = 0
    BY <2>1, FS_EmptySet DEF Count
  <2> QED
    BY <2>2 DEF Init, OneRequest, One
<1>2. TypeOK /\ TypeOK' /\ OneRequest /\ [Next]_vars => OneRequest'
  <2> SUFFICES ASSUME TypeOK, TypeOK', OneRequest, [Next]_vars
               PROVE  OneRequest'
    OBVIOUS
  <2> USE DEF pipelineVars, animatorVars, waiterVars, pointerVars, uiVars, rasterVars
  <2>1. CASE UNCHANGED vars
    BY <2>1, RequestElsewhere DEF vars
  <2>2. CASE \/ MaybeClearTraceFlowIds \/ SignalAvailable \/ EndBuild
             \/ Render \/ SendPacket
    BY <2>2, RequestElsewhere DEF MaybeClearTraceFlowIds, SignalAvailable,
       EndBuild, Render, SendPacket, Take
  <2>3. CASE (\E t \in Consumers : DrawStep(t)) \/ MergerStep
    BY <2>3, DrawKeeps, RequestElsewhere
  <2> QED
    BY <2>1, <2>2, <2>3, RequestPasses, RequestShares
       DEF Next, UIStep, FrameworkStep
<1> QED
  BY <1>1, <1>2, TypeCorrect, PTL DEF Spec

-----------------------------------------------------------------------------
(* The dispatcher's callback *)

\* The UI queue holds the dispatcher's callback.
Posted == \E i \in DOMAIN uiTasks : uiTasks[i] = "dispatcher"

Dispatching == {"dispatching", "dispatchingPending", "dispatchedPending"}

\* A callback that is posted stays until it is taken, and a vsync posts it.
LEMMA PostedStays ==
    ASSUME TypeOK,
           \/ uiTasks' = uiTasks
           \/ \E y \in UITasks : uiTasks' = Append(uiTasks, y)
           \/ /\ uiTasks # <<>> /\ Head(uiTasks) # "dispatcher"
              /\ \/ uiTasks' = Tail(uiTasks)
                 \/ uiTasks' = Append(Tail(uiTasks), "AwaitVSync")
           \/ FireCallback
    PROVE  /\ Posted => Posted'
           /\ FireCallback /\ "dispatcher" \in secondary => Posted'
<1>0. uiTasks \in Seq(UITasks) /\ "AwaitVSync" \in UITasks
  BY DEF TypeOK, UITasks
<1>1. CASE FireCallback
  <2>1. PICK posted \in Orders(secondary) :
          uiTasks' = (uiTasks \o (IF callback THEN <<"vsync">> ELSE <<>>)) \o posted
    BY <1>1 DEF FireCallback
  <2> DEFINE mid == IF callback THEN <<"vsync">> ELSE <<>>
  <2>2. mid \in Seq(UITasks)
    <3>1. <<"vsync">> \in Seq(UITasks) /\ <<>> \in Seq(UITasks)
      BY DEF UITasks
    <3> QED
      BY <3>1, Zenon
  <2>3. posted \in Seq(secondary) /\ secondary \subseteq UITasks
    BY AllPosted DEF TypeOK, UITasks
  <2>4. posted \in Seq(UITasks)
    BY <2>3
  <2>5. uiTasks' = (uiTasks \o mid) \o posted
    BY <2>1
  <2> HIDE DEF mid
  <2> DEFINE s == uiTasks \o mid
  <2>6. s \in Seq(UITasks)
    BY <1>0, <2>2
  <2>7. Posted => \E i \in DOMAIN s : s[i] = "dispatcher"
    BY <1>0, <2>2 DEF Posted
  <2>8. uiTasks' = s \o posted
    BY <2>5
  <2> HIDE DEF s
  <2>9. Posted => Posted'
    BY <2>4, <2>6, <2>7, <2>8 DEF Posted
  <2>10. ASSUME "dispatcher" \in secondary
         PROVE  Posted'
    <3>1. PICK i \in DOMAIN posted : posted[i] = "dispatcher"
      BY <2>10, AllPosted DEF TypeOK
    <3>2. /\ Len(s) \in Nat /\ Len(posted) \in Nat /\ i \in 1..Len(posted)
          /\ DOMAIN (s \o posted) = 1..(Len(s) + Len(posted))
      BY <2>4, <2>6
    <3>3. /\ Len(s) + i \in DOMAIN (s \o posted)
          /\ (s \o posted)[Len(s) + i] = posted[i]
      BY <2>4, <2>6, <3>2
    <3> QED
      BY <2>8, <3>1, <3>3 DEF Posted
  <2> QED
    BY <2>9, <2>10
<1>2. CASE \E y \in UITasks : uiTasks' = Append(uiTasks, y)
  BY <1>0, <1>1, <1>2 DEF Posted
<1>3. ASSUME uiTasks # <<>>, Head(uiTasks) # "dispatcher", Posted
      PROVE  \E i \in DOMAIN Tail(uiTasks) : Tail(uiTasks)[i] = "dispatcher"
  <2>1. PICK i \in DOMAIN uiTasks : uiTasks[i] = "dispatcher"
    BY <1>3 DEF Posted
  <2>2. i # 1 /\ i \in 1..Len(uiTasks) /\ Len(uiTasks) \in Nat
    BY <1>0, <1>3, <2>1
  <2>3. i - 1 \in DOMAIN Tail(uiTasks) /\ Tail(uiTasks)[i - 1] = uiTasks[i]
    BY <1>0, <1>3, <2>2
  <2> QED
    BY <2>1, <2>3
<1>4. CASE /\ uiTasks # <<>> /\ Head(uiTasks) # "dispatcher"
           /\ \/ uiTasks' = Tail(uiTasks)
              \/ uiTasks' = Append(Tail(uiTasks), "AwaitVSync")
  <2>1. Tail(uiTasks) \in Seq(UITasks)
    BY <1>0, <1>4
  <2> QED
    BY <1>0, <1>1, <1>3, <1>4, <2>1 DEF Posted
<1>5. CASE uiTasks' = uiTasks
  BY <1>1, <1>5 DEF Posted
<1> QED
  BY <1>1, <1>2, <1>4, <1>5

\* A dispatcher that holds back packets gets its callback: no order of its
\* calls of the waiter, the Animator's and the vsyncs between them loses it.
THEOREM DispatcherIsCalled == Spec => []CallbackComes
<1>1. Init => CallbackComes
  BY DEF Init, CallbackComes
<1>2. TypeOK /\ CallbackComes /\ [Next]_vars => CallbackComes'
  <2> SUFFICES ASSUME TypeOK, CallbackComes, [Next]_vars, inProgress'
               PROVE  \/ "dispatcher" \in secondary'
                      \/ Posted'
                      \/ ui' \in Dispatching
    BY DEF CallbackComes, Posted, Dispatching
  <2>0. inProgress => \/ "dispatcher" \in secondary
                      \/ Posted
                      \/ ui \in Dispatching
    BY DEF CallbackComes, Posted, Dispatching
  <2> USE DEF pipelineVars, animatorVars, waiterVars, pointerVars, uiVars, rasterVars
  <2>1. CASE UNCHANGED vars
    BY <2>0, <2>1, PostedStays DEF vars
  <2>2. CASE DispatchPacket
    BY <2>2 DEF DispatchPacket, Dispatching, ScheduleSecondaryCallback
  <2>3. CASE ScheduleSecondaryVsyncCallback
    BY <2>3 DEF ScheduleSecondaryVsyncCallback, ScheduleSecondaryCallback
  <2>4. CASE DispatcherCallback
    BY <2>4 DEF DispatcherCallback, Dispatching
  <2>5. CASE (\E t \in Consumers : DrawStep(t)) \/ MergerStep
    <3>1. UNCHANGED <<inProgress, secondary, uiTasks, ui>>
      BY <2>5, DrawKeeps
    <3> QED
      BY <2>0, <3>1, PostedStays
  <2>6. CASE FireCallback
    BY <2>0, <2>6, PostedStays DEF FireCallback
  <2>7. CASE \/ AwaitVSync \/ DrawLastLayerTrees \/ BeginFrame
             \/ BeginFramePipelineFull \/ MaybeClearTraceFlowIds
    <3>1. /\ UNCHANGED <<inProgress, secondary>>
          /\ ui \notin Dispatching
          /\ uiTasks # <<>> /\ Head(uiTasks) # "dispatcher"
          /\ \/ uiTasks' = Tail(uiTasks)
             \/ uiTasks' = Append(Tail(uiTasks), "AwaitVSync")
      BY <2>7 DEF AwaitVSync, AsyncWaitForVsync, DrawLastLayerTrees,
         BeginFrame, BeginFramePipelineFull, MaybeClearTraceFlowIds, Take,
         Dispatching
    <3> QED
      BY <2>0, <3>1, PostedStays
  <2>8. CASE \/ SignalAvailable \/ EndBuild \/ SendPacket \/ FrameworkStep
    <3>1. /\ UNCHANGED <<inProgress, secondary>>
          /\ ui \in Dispatching => ui' = ui
          /\ \/ uiTasks' = uiTasks
             \/ \E y \in UITasks : uiTasks' = Append(uiTasks, y)
      BY <2>8 DEF SignalAvailable, EndBuild, SendPacket, FrameworkStep,
         RequestFrame, Render, Dispatching, UITasks
    <3> QED
      BY <2>0, <3>1, PostedStays
  <2> QED
    BY <2>1, <2>2, <2>3, <2>4, <2>5, <2>6, <2>7, <2>8 DEF Next, UIStep
<1> QED
  BY <1>1, <1>2, TypeCorrect, PTL DEF Spec
=============================================================================
