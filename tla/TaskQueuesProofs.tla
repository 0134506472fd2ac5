-------------------------- MODULE TaskQueuesProofs --------------------------
(***************************************************************************)
(* Theorems about TaskQueues, for any set of queues, any merge pairs and   *)
(* any bounds.                                                             *)
(***************************************************************************)
EXTENDS TaskQueues, TLAPS, WellFoundedInduction

-----------------------------------------------------------------------------
(* The order of tasks: every heap has a top *)

\* A non-empty set of naturals has a least element.
LEMMA LeastNat ==
    ASSUME NEW T \in SUBSET Nat, T # {}
    PROVE  \E x \in T : \A y \in T : x <= y
<1> DEFINE R == OpToRel(<, Nat)
<1>1. IsWellFoundedOn(R, Nat)
  BY NatLessThanWellFounded
<1>2. T \subseteq Nat /\ T # {}
  OBVIOUS
<1>3. \A x, y \in Nat : y < x => <<y, x>> \in R
  BY DEF OpToRel
<1> HIDE DEF R
<1>4. PICK x \in T : \A y \in T : ~ (<<y, x>> \in R)
  BY <1>1, <1>2, WFMin
<1>5. \A y \in T : ~ (y < x)
  BY <1>3, <1>4
<1>6. \A y \in T : x <= y
  BY <1>5
<1> QED
  BY <1>6

\* DelayedTask::operator> gives every non-empty heap, of any size, a top
\* that is greater than no task in it.
LEMMA EarliestIsLeast ==
    ASSUME NEW T, T # {}, T \subseteq DelayedTask
    PROVE  /\ Earliest(T) \in T
           /\ \A u \in T : ~Greater(Earliest(T), u)
<1> DEFINE Times == {t.time : t \in T}
<1>0. \A t \in T : t.time \in Nat /\ t.order \in Nat
  BY BoundAssumption DEF DelayedTask, Time
<1>1. Times \in SUBSET Nat /\ Times # {}
  BY <1>0
<1>2. PICK m \in Times : \A y \in Times : m <= y
  BY <1>1, LeastNat
<1> DEFINE Orders == {t.order : t \in {u \in T : u.time = m}}
<1>3. Orders \in SUBSET Nat /\ Orders # {}
  BY <1>0, <1>2
<1>4. PICK n \in Orders : \A y \in Orders : n <= y
  BY <1>3, LeastNat
<1>5. PICK t \in T : t.time = m /\ t.order = n
  BY <1>4
<1>6. ASSUME NEW u \in T
      PROVE  ~Greater(t, u)
  <2>1. m <= u.time
    BY <1>2
  <2>2. u.time = m => n <= u.order
    BY <1>4
  <2> QED
    BY <1>0, <1>5, <2>1, <2>2 DEF Greater
<1>7. \E x \in T : \A u \in T : ~Greater(x, u)
  BY <1>5, <1>6
<1> QED
  BY <1>7, Zenon DEF Earliest

\* Not being greater is transitive.
LEMMA NotGreaterTransitive ==
    ASSUME NEW t \in DelayedTask, NEW u \in DelayedTask, NEW v \in DelayedTask,
           ~Greater(t, u), ~Greater(u, v)
    PROVE  ~Greater(t, v)
<1>1. /\ t.time \in Nat /\ u.time \in Nat /\ v.time \in Nat
      /\ t.order \in Nat /\ u.order \in Nat /\ v.order \in Nat
  BY BoundAssumption DEF DelayedTask, Time
<1> QED
  BY <1>1 DEF Greater

\* What is greater than another task is not less than it.
LEMMA GreaterIsStrict ==
    ASSUME NEW t \in DelayedTask, NEW u \in DelayedTask, Greater(t, u)
    PROVE  ~Greater(u, t)
<1>1. /\ t.time \in Nat /\ u.time \in Nat
      /\ t.order \in Nat /\ u.order \in Nat
  BY BoundAssumption DEF DelayedTask, Time
<1> QED
  BY <1>1 DEF Greater

-----------------------------------------------------------------------------
(* TaskSource::Top and PeekNextTaskUnlocked find the first of all tasks *)

\* The part of TypeOK that the choice of the next task rests on.
SourceTypes ==
    /\ tasks \in [Queues -> SUBSET DelayedTask]
    /\ pauses \in [Queues -> Nat]
    /\ ownerOf \in [Queues -> SUBSET Queues]

\* c is the first of the tasks pending in the queues V.
FirstOf(c, V) ==
    /\ c \in TopTask
    /\ c.queue \in V
    /\ c.task \in Pending(c.queue)
    /\ \A r \in V : \A t \in Pending(r) : ~Greater(c.task, t)

\* The three cases of TaskSource::Top.
LEMMA TopIsFirst ==
    ASSUME SourceTypes, NEW q \in Queues, Pending(q) # {}
    PROVE  FirstOf(Top(q), {q})
<1> DEFINE primary == Heap(q, FALSE)
           secondary == Heap(q, TRUE)
<1>1. primary \subseteq DelayedTask /\ secondary \subseteq DelayedTask
  BY DEF SourceTypes, Heap
<1>2. primary # {} => /\ Earliest(primary) \in primary
                      /\ \A u \in primary : ~Greater(Earliest(primary), u)
  BY <1>1, EarliestIsLeast
<1>3. secondary # {} => /\ Earliest(secondary) \in secondary
                        /\ \A u \in secondary : ~Greater(Earliest(secondary), u)
  BY <1>1, EarliestIsLeast
<1>4. Pending(q) = primary \cup (IF pauses[q] = 0 THEN secondary ELSE {})
  BY DEF Pending
<1>5. pauses[q] \in Nat
  BY DEF SourceTypes
<1>6. /\ Top(q).queue = q
      /\ Top(q).task =
             IF pauses[q] > 0 \/ secondary = {} THEN Earliest(primary)
             ELSE IF primary = {} THEN Earliest(secondary)
             ELSE IF Greater(Earliest(primary), Earliest(secondary))
             THEN Earliest(secondary) ELSE Earliest(primary)
      /\ Top(q) = [queue |-> q, task |-> Top(q).task]
  BY DEF Top
<1> HIDE DEF primary, secondary
<1>7. /\ Top(q).task \in Pending(q)
      /\ \A t \in Pending(q) : ~Greater(Top(q).task, t)
  <2>1. CASE pauses[q] > 0 \/ secondary = {}
    BY <1>2, <1>4, <1>5, <1>6, <2>1
  <2>2. CASE pauses[q] = 0 /\ secondary # {} /\ primary = {}
    BY <1>3, <1>4, <1>6, <2>2
  <2>3. CASE pauses[q] = 0 /\ secondary # {} /\ primary # {}
    <3> DEFINE x == Earliest(primary)
               y == Earliest(secondary)
    <3>1. /\ x \in DelayedTask /\ y \in DelayedTask
          /\ x \in primary /\ y \in secondary
          /\ \A u \in primary : u \in DelayedTask /\ ~Greater(x, u)
          /\ \A u \in secondary : u \in DelayedTask /\ ~Greater(y, u)
      BY <1>1, <1>2, <1>3, <2>3
    <3>2. Pending(q) = primary \cup secondary
      BY <1>4, <2>3
    <3>3. Top(q).task = IF Greater(x, y) THEN y ELSE x
      BY <1>6, <2>3
    <3> HIDE DEF x, y
    <3>4. CASE Greater(x, y)
      <4>1. ~Greater(y, x)
        BY <3>1, <3>4, GreaterIsStrict
      <4>2. \A u \in primary : ~Greater(y, u)
        BY <3>1, <4>1, NotGreaterTransitive
      <4> QED
        BY <3>1, <3>2, <3>3, <3>4, <4>2
    <3>5. CASE ~Greater(x, y)
      <4>1. \A u \in secondary : ~Greater(x, u)
        BY <3>1, <3>5, NotGreaterTransitive
      <4> QED
        BY <3>1, <3>2, <3>3, <3>5, <4>1
    <3> QED
      BY <3>4, <3>5
  <2> QED
    BY <1>5, <2>1, <2>2, <2>3
<1>8. Pending(q) \subseteq DelayedTask
  BY <1>1, <1>4
<1>9. Top(q) \in TopTask
  BY <1>6, <1>7, <1>8 DEF TopTask
<1> QED
  BY <1>6, <1>7, <1>9 DEF FirstOf

\* What top_task holds once the queues V were visited.
Best(S, V) ==
    \/ S = {} /\ \A r \in V : Pending(r) = {}
    \/ \E c \in TopTask : S = {c} /\ FirstOf(c, V)

\* top_task_updater takes one more queue into account.
LEMMA UpdateIsBest ==
    ASSUME SourceTypes, NEW V \in SUBSET Queues, NEW S, Best(S, V),
           NEW r \in Queues
    PROVE  Best(UpdateTop(S, r), V \cup {r})
<1>1. CASE Pending(r) = {}
  BY <1>1 DEF UpdateTop, Best, FirstOf
<1>2. CASE Pending(r) # {}
  <2>1. FirstOf(Top(r), {r})
    BY <1>2, TopIsFirst
  <2>2. CASE S = {}
    <3>1. UpdateTop(S, r) = {Top(r)} /\ \A x \in V : Pending(x) = {}
      BY <1>2, <2>2 DEF UpdateTop, Best
    <3>2. FirstOf(Top(r), V \cup {r})
      BY <2>1, <3>1 DEF FirstOf
    <3> QED
      BY <3>1, <3>2 DEF Best, FirstOf
  <2>3. ASSUME NEW c \in TopTask, S = {c}, FirstOf(c, V)
        PROVE  Best(UpdateTop(S, r), V \cup {r})
    <3>1. c.task \in DelayedTask /\ Top(r).task \in DelayedTask
      BY <2>1 DEF FirstOf, TopTask
    <3>2. \A x \in V \cup {r} : Pending(x) \subseteq DelayedTask
      BY DEF SourceTypes, Pending, Heap
    <3>3. CASE Greater(c.task, Top(r).task)
      <4>1. UpdateTop(S, r) = {Top(r)}
        BY <1>2, <2>3, <3>3 DEF UpdateTop
      <4>2. ~Greater(Top(r).task, c.task)
        BY <3>1, <3>3, GreaterIsStrict
      <4>3. \A x \in V : \A t \in Pending(x) : ~Greater(Top(r).task, t)
        BY <2>3, <3>1, <3>2, <4>2, NotGreaterTransitive DEF FirstOf
      <4>4. FirstOf(Top(r), V \cup {r})
        BY <2>1, <4>3 DEF FirstOf
      <4> QED
        BY <4>1, <4>4 DEF Best, FirstOf
    <3>4. CASE ~Greater(c.task, Top(r).task)
      <4>1. UpdateTop(S, r) = S
        BY <2>3, <3>4 DEF UpdateTop
      <4>2. \A t \in Pending(r) : ~Greater(c.task, t)
        BY <2>1, <3>1, <3>2, <3>4, NotGreaterTransitive DEF FirstOf
      <4>3. FirstOf(c, V \cup {r})
        BY <2>3, <4>2 DEF FirstOf
      <4> QED
        BY <2>3, <4>1, <4>3 DEF Best
    <3> QED
      BY <3>3, <3>4
  <2> QED
    BY <2>2, <2>3 DEF Best
<1> QED
  BY <1>1, <1>2

\* The loop over owner_of, a recursive function, has a value for every id.
LEMMA TopTasksDef ==
    ASSUME NEW q
    PROVE  TopTasks(q) =
              [n \in 0..(MaxId + 1) |->
                  IF n = 0 THEN UpdateTop({}, q)
                  ELSE IF n - 1 \in ownerOf[q]
                  THEN UpdateTop(TopTasks(q)[n - 1], n - 1)
                  ELSE TopTasks(q)[n - 1]]
<1> DEFINE B(g, n) == IF n = 0 THEN UpdateTop({}, q)
                      ELSE IF n - 1 \in ownerOf[q] THEN UpdateTop(g[n - 1], n - 1)
                      ELSE g[n - 1]
<1>1. ASSUME NEW g, NEW h, NEW n \in Nat, n # 0 => g[n - 1] = h[n - 1]
      PROVE  B(g, n) = B(h, n)
  BY <1>1
<1>2. TopTasks(q) = CHOOSE f : f = [n \in 0..(MaxId + 1) |-> B(f, n)]
  BY DEF TopTasks
<1> SUFFICES TopTasks(q) = [n \in 0..(MaxId + 1) |-> B(TopTasks(q), n)]
  OBVIOUS
<1> HIDE DEF B
<1> DEFINE Has(m) == \E g : g = [n \in 0..m |-> B(g, n)]
           Bad == {m \in Nat : ~Has(m)}
<1>3. Has(0)
  <2> DEFINE g == [n \in 0..0 |-> B(<<>>, 0)]
  <2>1. \A n \in 0..0 : B(g, n) = B(<<>>, 0)
    BY <1>1
  <2>2. g = [n \in 0..0 |-> B(g, n)]
    BY <2>1
  <2> QED
    BY <2>2
<1>4. ASSUME NEW m \in Nat, m # 0, Has(m - 1)
      PROVE  Has(m)
  <2>1. PICK g : g = [n \in 0..(m - 1) |-> B(g, n)]
    BY <1>4
  <2> DEFINE h == [n \in 0..m |-> IF n = m THEN B(g, m) ELSE g[n]]
  <2>2. ASSUME NEW n \in 0..m
        PROVE  h[n] = B(h, n)
    <3>1. n # 0 => h[n - 1] = g[n - 1]
      OBVIOUS
    <3>2. B(h, n) = B(g, n)
      BY <1>1, <3>1
    <3>3. n # m => n \in 0..(m - 1)
      OBVIOUS
    <3>4. n # m => g[n] = B(g, n)
      BY <2>1, <3>3
    <3> QED
      BY <3>2, <3>4
  <2>3. h = [n \in 0..m |-> B(h, n)]
    BY <2>2
  <2> QED
    BY <2>3
<1>5. Bad = {}
  <2> SUFFICES ASSUME Bad # {}
               PROVE  FALSE
    OBVIOUS
  <2>0. Bad \in SUBSET Nat
    OBVIOUS
  <2>1. PICK m \in Bad : \A k \in Bad : m <= k
    BY <2>0, LeastNat
  <2> HIDE DEF Has
  <2>2. m \in Nat /\ ~Has(m)
    OBVIOUS
  <2>3. m # 0
    BY <1>3, <2>2
  <2>4. m - 1 \in Nat /\ m - 1 \notin Bad
    BY <2>1, <2>2, <2>3
  <2> QED
    BY <1>4, <2>2, <2>3, <2>4
<1>6. MaxId + 1 \in Nat
  BY QueueAssumption
<1>7. Has(MaxId + 1)
  BY <1>5, <1>6
<1> QED
  BY <1>2, <1>7, Zenon

\* The task that PeekNextTaskUnlocked returns is the first of all that are
\* pending in the owner and in any number of subsumed queues.
LEMMA PeekIsFirst ==
    SourceTypes =>
        \A q \in Queues : HasPendingTasks(q) => FirstOf(PeekNextTask(q), Group(q))
<1> SUFFICES ASSUME SourceTypes, NEW q \in Queues, HasPendingTasks(q)
             PROVE  FirstOf(PeekNextTask(q), Group(q))
  OBVIOUS
<1>0. ownerOf[q] \subseteq Queues /\ MaxId \in Nat
  BY QueueAssumption DEF SourceTypes
<1>1. PICK p \in Group(q) : Pending(p) # {}
  BY DEF HasPendingTasks
<1>2. CASE ownerOf[q] = {}
  <2>1. Group(q) = {q} /\ PeekNextTask(q) = Top(q)
    BY <1>2 DEF Group, PeekNextTask
  <2> QED
    BY <1>1, <2>1, TopIsFirst
<1>3. CASE ownerOf[q] # {}
  <2> DEFINE f == TopTasks(q)
             Seen(n) == {q} \cup {r \in ownerOf[q] : r < n}
             Bad == {n \in 0..(MaxId + 1) : ~Best(f[n], Seen(n))}
  <2>1. \A r \in Queues : r \in Nat /\ r < MaxId + 1 /\ 0 <= r
    BY <1>0 DEF Queues
  <2>2. \A n \in 0..(MaxId + 1) : Seen(n) \in SUBSET Queues
    BY <1>0
  <2>3. \A n \in 0..(MaxId + 1) :
           f[n] = IF n = 0 THEN UpdateTop({}, q)
                  ELSE IF n - 1 \in ownerOf[q] THEN UpdateTop(f[n - 1], n - 1)
                  ELSE f[n - 1]
    <3>1. f = [n \in 0..(MaxId + 1) |->
                  IF n = 0 THEN UpdateTop({}, q)
                  ELSE IF n - 1 \in ownerOf[q] THEN UpdateTop(f[n - 1], n - 1)
                  ELSE f[n - 1]]
      BY TopTasksDef
    <3> HIDE DEF f
    <3> QED
      BY <3>1
  <2> HIDE DEF f
  <2>4. Best(f[0], Seen(0))
    <3>1. Best({}, {})
      BY DEF Best
    <3>2. Best(UpdateTop({}, q), {} \cup {q})
      BY <3>1, UpdateIsBest
    <3>3. Seen(0) = {} \cup {q}
      BY <1>0, <2>1
    <3>4. f[0] = UpdateTop({}, q)
      BY <1>0, <2>3
    <3> QED
      BY <3>2, <3>3, <3>4
  <2>5. ASSUME NEW n \in 1..(MaxId + 1), Best(f[n - 1], Seen(n - 1))
        PROVE  Best(f[n], Seen(n))
    <3>0. n - 1 \in 0..(MaxId + 1) /\ n \in 0..(MaxId + 1) /\ n # 0
      BY <1>0
    <3>1. CASE n - 1 \in ownerOf[q]
      <4>1. f[n] = UpdateTop(f[n - 1], n - 1)
        BY <2>3, <3>0, <3>1
      <4>2. Seen(n) = Seen(n - 1) \cup {n - 1}
        BY <1>0, <2>1, <3>0, <3>1
      <4>3. n - 1 \in Queues /\ Seen(n - 1) \in SUBSET Queues
        BY <1>0, <2>2, <3>0, <3>1
      <4> HIDE DEF Seen
      <4>4. Best(UpdateTop(f[n - 1], n - 1), Seen(n - 1) \cup {n - 1})
        BY <2>5, <4>3, UpdateIsBest
      <4> QED
        BY <4>1, <4>2, <4>4
    <3>2. CASE n - 1 \notin ownerOf[q]
      <4>1. f[n] = f[n - 1]
        BY <2>3, <3>0, <3>2
      <4>2. Seen(n) = Seen(n - 1)
        BY <1>0, <2>1, <3>0, <3>2
      <4> QED
        BY <2>5, <4>1, <4>2
    <3> QED
      BY <3>1, <3>2
  <2>6. Bad = {}
    <3> SUFFICES ASSUME Bad # {}
                 PROVE  FALSE
      OBVIOUS
    <3>1. Bad \in SUBSET Nat
      BY <1>0
    <3>2. PICK n \in Bad : \A k \in Bad : n <= k
      BY <3>1, LeastNat
    <3> HIDE DEF Seen
    <3>3. n \in 0..(MaxId + 1) /\ ~Best(f[n], Seen(n))
      OBVIOUS
    <3>4. n # 0
      BY <2>4, <3>3
    <3>5. n \in 1..(MaxId + 1) /\ n - 1 \in 0..(MaxId + 1) /\ n - 1 \notin Bad
      BY <1>0, <3>2, <3>3, <3>4
    <3> QED
      BY <2>5, <3>3, <3>5
  <2>7. Best(f[MaxId + 1], Seen(MaxId + 1))
    <3> HIDE DEF Seen
    <3>1. MaxId + 1 \in 0..(MaxId + 1)
      BY <1>0
    <3> QED
      BY <2>6, <3>1
  <2>8. Seen(MaxId + 1) = Group(q)
    BY <1>0, <2>1 DEF Group
  <2>9. PICK c \in TopTask : f[MaxId + 1] = {c} /\ FirstOf(c, Group(q))
    BY <1>1, <2>7, <2>8 DEF Best
  <2>10. PeekNextTask(q) = c
    BY <1>3, <2>9 DEF PeekNextTask, f
  <2> QED
    BY <2>9, <2>10
<1> QED
  BY <1>2, <1>3

\* The same after a step.
LEMMA PeekIsFirstPrime ==
    (SourceTypes =>
        \A q \in Queues :
            HasPendingTasks(q) => FirstOf(PeekNextTask(q), Group(q)))'
  BY PeekIsFirst, PTL

\* A loop that has pending tasks has a wake-up time, that of the first.
LEMMA WakeTime ==
    SourceTypes =>
        \A q \in Queues : HasPendingTasks(q) =>
            /\ PeekNextTask(q) \in TopTask
            /\ GetNextWakeTime(q) \in Time
            /\ \A r \in Group(q) : \A t \in Pending(r) :
                  GetNextWakeTime(q) <= t.time
<1> SUFFICES ASSUME SourceTypes, NEW q \in Queues, HasPendingTasks(q)
             PROVE  /\ PeekNextTask(q) \in TopTask
                    /\ GetNextWakeTime(q) \in Time
                    /\ \A r \in Group(q) : \A t \in Pending(r) :
                          GetNextWakeTime(q) <= t.time
  OBVIOUS
<1>1. FirstOf(PeekNextTask(q), Group(q))
  BY PeekIsFirst
<1>2. PeekNextTask(q) \in TopTask /\ PeekNextTask(q).task \in DelayedTask
  BY <1>1 DEF FirstOf, TopTask
<1>3. \A r \in Group(q) : Pending(r) \subseteq DelayedTask
  BY DEF SourceTypes, Pending, Heap, Group
<1>4. ASSUME NEW r \in Group(q), NEW t \in Pending(r)
      PROVE  PeekNextTask(q).task.time <= t.time
  <2>1. ~Greater(PeekNextTask(q).task, t)
    BY <1>1 DEF FirstOf
  <2>2. t.time \in Nat /\ PeekNextTask(q).task.time \in Nat
    BY <1>2, <1>3, BoundAssumption DEF DelayedTask, Time
  <2> QED
    BY <2>1, <2>2 DEF Greater
<1> QED
  BY <1>2, <1>4 DEF GetNextWakeTime, DelayedTask

\* The same after a step.
LEMMA WakeTimePrime ==
    (SourceTypes =>
        \A q \in Queues : HasPendingTasks(q) =>
            /\ PeekNextTask(q) \in TopTask
            /\ GetNextWakeTime(q) \in Time
            /\ \A r \in Group(q) : \A t \in Pending(r) :
                  GetNextWakeTime(q) <= t.time)'
  BY WakeTime, PTL

-----------------------------------------------------------------------------
(* Types *)

\* Waking loops keeps the timers well typed.
LEMMA WakeUpType ==
    ASSUME TypeOK, NEW L, WakeUpIfPending(L), SourceTypes'
    PROVE  timer' \in [Queues -> 0..Never]
<1> SUFFICES ASSUME NEW q \in Queues, q \in L, HasPendingTasks(q)'
             PROVE  GetNextWakeTime(q)' \in 0..Never
  BY DEF WakeUpIfPending, TypeOK
<1>1. GetNextWakeTime(q)' \in Time
  BY WakeTimePrime
<1> QED
  BY <1>1, BoundAssumption DEF Time, Never

\* TypeOK has those parts.
LEMMA HasSourceTypes == TypeOK => SourceTypes
  BY DEF TypeOK, SourceTypes

\* Every step keeps the types.
LEMMA TypeStep ==
    ASSUME TypeOK, [Next]_vars
    PROVE  TypeOK'
<1> USE BoundAssumption, QueueAssumption DEF entryVars, mergeVars, loopVars
<1>1. CASE UNCHANGED vars
  BY <1>1 DEF vars, TypeOK
<1>2. ASSUME NEW q \in Queues, CreateTaskQueue(q) PROVE TypeOK'
  BY <1>2 DEF CreateTaskQueue, TypeOK, Phases
<1>3. ASSUME NEW q \in Queues, Dispose(q) PROVE TypeOK'
  BY <1>3 DEF Dispose, TypeOK
<1>4. ASSUME NEW q \in Queues, NEW time \in Time, NEW g \in Grades,
             RegisterTask(q, time, g)
      PROVE  /\ tasks' \in [Queues -> SUBSET DelayedTask]
             /\ timer' \in [Queues -> 0..Never]
             /\ order' \in Nat
             /\ UNCHANGED <<pauses, mergeVars>>
  <2>1. [order |-> order, time |-> time, grade |-> g] \in DelayedTask
    BY DEF TypeOK, DelayedTask
  <2>2. tasks' \in [Queues -> SUBSET DelayedTask]
    BY <1>4, <2>1 DEF RegisterTask, TypeOK
  <2>3. SourceTypes'
    BY <1>4, <2>2 DEF RegisterTask, TypeOK, SourceTypes
  <2>4. timer' \in [Queues -> 0..Never]
    BY <1>4, <2>3, WakeUpType DEF RegisterTask
  <2> QED
    BY <1>4, <2>2, <2>4 DEF RegisterTask, TypeOK
<1>5. ASSUME NEW q \in Queues, NEW g \in Grades, RegisterGraded(q, g)
      PROVE  TypeOK'
  <2>1. clock \in Time
    BY DEF TypeOK
  <2>2. /\ tasks' \in [Queues -> SUBSET DelayedTask]
        /\ timer' \in [Queues -> 0..Never]
        /\ order' \in Nat
        /\ UNCHANGED <<pauses, mergeVars>>
    BY <1>4, <1>5, <2>1 DEF RegisterGraded
  <2> QED
    BY <1>5, <2>2 DEF RegisterGraded, TypeOK
<1>6. ASSUME NEW q \in Queues, PauseSecondarySource(q) PROVE TypeOK'
  BY <1>6 DEF PauseSecondarySource, TypeOK
<1>7. ASSUME NEW o \in Queues, NEW s \in Queues, Merge(o, s) PROVE TypeOK'
  <2>1. /\ tasks' \in [Queues -> SUBSET DelayedTask]
        /\ ownerOf' \in [Queues -> SUBSET Queues]
        /\ subsumedBy' \in [Queues -> Queues \cup {kUnmerged}]
    BY <1>7 DEF Merge, TypeOK
  <2>2. timer' \in [Queues -> 0..Never]
    <3>1. SourceTypes'
      BY <1>7, <2>1 DEF Merge, TypeOK, SourceTypes
    <3> QED
      BY <1>7, <3>1, WakeUpType DEF Merge
  <2> QED
    BY <1>7, <2>1, <2>2 DEF Merge, TypeOK
<1>8. ASSUME NEW o \in Queues, NEW s \in Queues, Unmerge(o, s) PROVE TypeOK'
  <2>1. /\ tasks' \in [Queues -> SUBSET DelayedTask]
        /\ ownerOf' \in [Queues -> SUBSET Queues]
        /\ subsumedBy' \in [Queues -> Queues \cup {kUnmerged}]
    BY <1>8 DEF Unmerge, TypeOK
  <2>2. timer' \in [Queues -> 0..Never]
    <3>1. SourceTypes'
      BY <1>8, <2>1 DEF Unmerge, TypeOK, SourceTypes
    <3> QED
      BY <1>8, <3>1, WakeUpType DEF Unmerge
  <2> QED
    BY <1>8, <2>1, <2>2 DEF Unmerge, TypeOK
<1>9. ASSUME NEW p \in Posters, NEW q \in Queues, PostTask(p, q) PROVE TypeOK'
  BY <1>9 DEF PostTask, TypeOK
<1>10. ASSUME NEW p \in Posters, NEW time \in Time, PostTaskRegister(p, time)
       PROVE  TypeOK'
  <2>1. posting[p] \in Queues /\ "kUnspecified" \in Grades
    BY <1>10 DEF PostTaskRegister, TypeOK, Grades
  <2>2. /\ tasks' \in [Queues -> SUBSET DelayedTask]
        /\ timer' \in [Queues -> 0..Never]
        /\ order' \in Nat
        /\ UNCHANGED <<pauses, mergeVars>>
    BY <1>4, <1>10, <2>1 DEF PostTaskRegister
  <2> QED
    BY <1>10, <2>2 DEF PostTaskRegister, TypeOK
<1>11. ASSUME NEW l \in Queues, OnEventFired(l) PROVE TypeOK'
  BY <1>11 DEF OnEventFired, TypeOK, Phases, Time, Never
<1>12. ASSUME NEW l \in Queues, RunNextTask(l) PROVE TypeOK'
  <2> DEFINE top == PeekNextTask(l)
  <2>1. top \in TopTask /\ top.task.time \in 0..Never
    BY <1>12, HasSourceTypes, WakeTime DEF RunNextTask, GetNextWakeTime, Time, Never
  <2>2. top.queue \in Queues /\ top.task.grade \in Grades
    BY <2>1 DEF TopTask, DelayedTask
  <2> HIDE DEF top
  <2>3. GradeAfterPop(top) \in Grades
    <3> DEFINE heap == Heap(top.queue, Secondary(top.task.grade)) \ {top.task}
    <3>1. heap \subseteq DelayedTask
      BY <2>2 DEF TypeOK, Heap
    <3>2. heap # {} => Earliest(heap) \in DelayedTask
      BY <3>1, EarliestIsLeast
    <3> QED
      BY <2>2, <3>2 DEF GradeAfterPop, DelayedTask
  <2>4. /\ timer' = [timer EXCEPT ![l] = top.task.time]
        /\ tasks' = [tasks EXCEPT ![top.queue] = @ \ {top.task}]
        /\ running' = [running EXCEPT ![l] = {top}]
        /\ grade' = [grade EXCEPT ![l] = GradeAfterPop(top)]
        /\ phase' = [phase EXCEPT ![l] = "running"]
        /\ UNCHANGED <<entryVars, mergeVars, order, clock, terminated, final,
                       now, toNotify, posting>>
    BY <1>12 DEF RunNextTask, top
  <2> QED
    BY <2>1, <2>2, <2>3, <2>4 DEF TypeOK, Phases
<1>13. ASSUME NEW l \in Queues, EndFlush(l) PROVE TypeOK'
  <2>1. timer' \in [Queues -> 0..Never]
    <3>1. HasPendingTasks(l) => GetNextWakeTime(l) \in 0..Never
      BY HasSourceTypes, WakeTime DEF Time, Never
    <3> QED
      BY <1>13, <3>1 DEF EndFlush, TypeOK
  <2>2. phase' \in [Queues -> Phases] /\ now' \in [Queues -> Time]
    BY <1>13 DEF EndFlush, LeaveFlush, TypeOK, Phases, Time
  <2>3. final' \in [Queues -> BOOLEAN]
    BY <1>13 DEF EndFlush, LeaveFlush, TypeOK
  <2> QED
    BY <1>13, <2>1, <2>2, <2>3 DEF EndFlush, TypeOK
<1>14. ASSUME NEW l \in Queues, EndTask(l) PROVE TypeOK'
  <2>1. GetObserversToNotify(l) \subseteq Queues \X ObserverKeys
    BY DEF GetObserversToNotify, Group, TypeOK
  <2> QED
    BY <1>14, <2>1 DEF EndTask, TypeOK, Phases
<1>15. ASSUME NEW l \in Queues, NEW ob, NotifyObserver(l, ob) PROVE TypeOK'
  BY <1>15 DEF NotifyObserver, TypeOK
<1>16. ASSUME NEW l \in Queues, EndNotify(l) PROVE TypeOK'
  BY <1>16 DEF EndNotify, TypeOK, Phases
<1>17. ASSUME NEW l \in Queues, DisposeTasks(l) PROVE TypeOK'
  BY <1>17 DEF DisposeTasks, TypeOK, Phases
<1>18. ASSUME NEW l \in Queues, Terminate(l) PROVE TypeOK'
  BY <1>18 DEF Terminate, TypeOK, Time, Never
<1>19. ASSUME NEW l \in Queues, NEW k \in ObserverKeys,
              AddTaskObserver(l, k) \/ RemoveTaskObserver(l, k)
       PROVE  TypeOK'
  BY <1>19 DEF AddTaskObserver, RemoveTaskObserver, TypeOK
<1>20. ASSUME NEW l \in Queues, NEW q \in Queues, ResumeSecondarySource(l, q)
       PROVE  TypeOK'
  <2>1. /\ tasks' \in [Queues -> SUBSET DelayedTask]
        /\ ownerOf' \in [Queues -> SUBSET Queues]
        /\ pauses' \in [Queues -> Nat]
    BY <1>20 DEF ResumeSecondarySource, TypeOK
  <2>2. timer' \in [Queues -> 0..Never]
    BY <1>20, <2>1, WakeUpType DEF ResumeSecondarySource, SourceTypes
  <2> QED
    BY <1>20, <2>1, <2>2 DEF ResumeSecondarySource, TypeOK
<1>21. CASE Tick
  BY <1>21 DEF Tick, TypeOK, Time
<1>22. \A pair \in MergePairs : pair[1] \in Queues /\ pair[2] \in Queues
  OBVIOUS
<1>23. CASE AnyThread
  BY <1>2, <1>3, <1>5, <1>6, <1>7, <1>8, <1>9, <1>10, <1>22, <1>23
     DEF AnyThread, Grades
<1>24. ASSUME NEW l \in Queues, LoopStep(l) \/ TaskEffect(l) PROVE TypeOK'
  BY <1>11, <1>12, <1>13, <1>14, <1>15, <1>16, <1>17, <1>18, <1>19, <1>20,
     <1>24 DEF LoopStep, TaskEffect
<1> QED
  BY <1>1, <1>21, <1>23, <1>24 DEF Next

\* Every variable of the dispatcher and of the loops always has its type, for
\* any number of threads, tasks and observers.
THEOREM TypeCorrect == Spec => []TypeOK
<1>1. Init => TypeOK
  BY BoundAssumption, QueueAssumption
     DEF Init, TypeOK, Time, Never, Phases, Grades
<1>2. TypeOK /\ [Next]_vars => TypeOK'
  BY TypeStep
<1> QED
  BY <1>1, <1>2, PTL DEF Spec

-----------------------------------------------------------------------------
(* Who owns whom *)

\* A queue that was never created has no entry and no tasks.
Untouched ==
    \A q \in Queues : phase[q] = "none" => q \notin entries /\ tasks[q] = {}

\* Only UI queues are paused, and they are never subsumed.
PausedServeThemselves ==
    \A q \in Queues : /\ pauses[q] # 0 => q \in UIQueues
                      /\ q \in UIQueues => subsumedBy[q] = kUnmerged

Structure == MergeTopology /\ Untouched /\ PausedServeThemselves

\* Every step keeps the merge relation consistent.
LEMMA StructureStep ==
    ASSUME TypeOK, Structure, [Next]_vars
    PROVE  Structure'
<1> USE QueueAssumption DEF entryVars, mergeVars, loopVars
<1>1. CASE UNCHANGED vars
  BY <1>1 DEF vars, Structure, MergeTopology, Untouched, PausedServeThemselves
<1>2. ASSUME NEW q \in Queues, CreateTaskQueue(q) PROVE Structure'
  BY <1>2 DEF CreateTaskQueue, TypeOK, Structure, MergeTopology, Untouched,
              PausedServeThemselves
<1>3. ASSUME NEW q \in Queues, Dispose(q) PROVE Structure'
  <2>1. \A o, s \in Queues : s \in ownerOf[o] => o # q /\ s # q
    BY <1>3 DEF Dispose, Structure, MergeTopology, TypeOK
  <2>2. MergeTopology'
    BY <1>3, <2>1 DEF Dispose, Structure, MergeTopology, TypeOK, Group
  <2> QED
    BY <1>3, <2>2 DEF Dispose, TypeOK, Structure, Untouched,
                      PausedServeThemselves
<1>4. ASSUME NEW q \in Queues, NEW time \in Time, NEW g \in Grades,
             RegisterTask(q, time, g), UNCHANGED <<entries, phase>>
      PROVE  Structure'
  BY <1>4 DEF RegisterTask, TypeOK, Structure, MergeTopology, Untouched,
              PausedServeThemselves
<1>5. ASSUME NEW q \in Queues, NEW g \in Grades, RegisterGraded(q, g)
      PROVE  Structure'
  <2>1. clock \in Time
    BY DEF TypeOK
  <2> QED
    BY <1>4, <1>5, <2>1 DEF RegisterGraded
<1>6. ASSUME NEW q \in Queues, PauseSecondarySource(q) PROVE Structure'
  BY <1>6 DEF PauseSecondarySource, TypeOK, Structure, MergeTopology,
              Untouched, PausedServeThemselves
<1>7. ASSUME NEW o \in Queues, NEW s \in Queues, s \notin UIQueues, Merge(o, s)
      PROVE  Structure'
  <2>1. MergeTopology'
    BY <1>7 DEF Merge, CanMerge, TypeOK, Structure, MergeTopology
  <2> QED
    BY <1>7, <2>1 DEF Merge, TypeOK, Structure, Untouched,
                      PausedServeThemselves
<1>8. ASSUME NEW o \in Queues, NEW s \in Queues, Unmerge(o, s)
      PROVE  Structure'
  <2>1. MergeTopology'
    BY <1>8 DEF Unmerge, CanUnmerge, TypeOK, Structure, MergeTopology
  <2> QED
    BY <1>8, <2>1 DEF Unmerge, TypeOK, Structure, Untouched,
                      PausedServeThemselves
<1>9. ASSUME NEW p \in Posters, NEW q \in Queues, PostTask(p, q)
      PROVE  Structure'
  BY <1>9 DEF PostTask, Structure, MergeTopology, Untouched,
              PausedServeThemselves
<1>10. ASSUME NEW p \in Posters, NEW time \in Time, PostTaskRegister(p, time)
       PROVE  Structure'
  <2>1. posting[p] \in Queues /\ "kUnspecified" \in Grades
    BY <1>10 DEF PostTaskRegister, TypeOK, Grades
  <2> QED
    BY <1>4, <1>10, <2>1 DEF PostTaskRegister
\* The steps of a loop leave the relation and the entries alone, and take
\* tasks away from existing queues only.
<1>11. ASSUME NEW l \in Queues, LoopStep(l)
       PROVE  /\ UNCHANGED <<entries, pauses, ownerOf, subsumedBy>>
              /\ \A q \in Queues : tasks'[q] \subseteq tasks[q]
              /\ \A q \in Queues : phase'[q] = "none" => phase[q] = "none"
  <2>1. CASE RunNextTask(l)
    BY <2>1 DEF RunNextTask, TypeOK
  <2>2. CASE EndFlush(l)
    BY <2>2 DEF EndFlush, LeaveFlush, TypeOK
  <2>3. CASE \/ OnEventFired(l)
             \/ EndTask(l)
             \/ \E ob \in toNotify[l] : NotifyObserver(l, ob)
             \/ EndNotify(l)
    BY <2>3 DEF OnEventFired, EndTask, NotifyObserver, EndNotify, TypeOK
  <2>4. CASE DisposeTasks(l)
    BY <2>4 DEF DisposeTasks, TypeOK
  <2> QED
    BY <1>11, <2>1, <2>2, <2>3, <2>4 DEF LoopStep
<1>12. ASSUME NEW l \in Queues, LoopStep(l) PROVE Structure'
  BY <1>11, <1>12 DEF Structure, MergeTopology, Untouched,
                      PausedServeThemselves, TypeOK
<1>13. ASSUME NEW l \in Queues, TaskEffect(l) PROVE Structure'
  <2>1. CASE Terminate(l)
    BY <2>1 DEF Terminate, Structure, MergeTopology, Untouched,
                PausedServeThemselves
  <2>2. CASE \E k \in ObserverKeys :
               AddTaskObserver(l, k) \/ RemoveTaskObserver(l, k)
    BY <2>2 DEF AddTaskObserver, RemoveTaskObserver, Structure,
                MergeTopology, Untouched, PausedServeThemselves
  <2>3. CASE \E q \in Queues : ResumeSecondarySource(l, q)
    BY <2>3 DEF ResumeSecondarySource, TypeOK, Structure, MergeTopology,
                Untouched, PausedServeThemselves
  <2> QED
    BY <1>13, <2>1, <2>2, <2>3 DEF TaskEffect
<1>14. CASE Tick
  BY <1>14 DEF Tick, Structure, MergeTopology, Untouched,
               PausedServeThemselves
<1>15. \A pair \in MergePairs :
          pair[1] \in Queues /\ pair[2] \in Queues /\ pair[2] \notin UIQueues
  BY PausedQueuesNotSubsumed
<1>16. CASE AnyThread
  BY <1>2, <1>3, <1>5, <1>6, <1>7, <1>8, <1>9, <1>10, <1>15, <1>16
     DEF AnyThread, Grades
<1> QED
  BY <1>1, <1>12, <1>13, <1>14, <1>16 DEF Next

\* TypeOK and Structure are invariant together.
LEMMA StructureInvariant == Spec => [](TypeOK /\ Structure)
<1>1. Init => TypeOK
  BY BoundAssumption, QueueAssumption
     DEF Init, TypeOK, Time, Never, Phases, Grades
<1>2. Init => Structure
  BY QueueAssumption DEF Init, Structure, MergeTopology, Untouched,
                         PausedServeThemselves
<1>3. TypeOK /\ Structure /\ [Next]_vars => (TypeOK /\ Structure)'
  BY TypeStep, StructureStep
<1> QED
  BY <1>1, <1>2, <1>3, PTL DEF Spec

\* However threads merge and unmerge queues, each queue is an owner, is
\* subsumed or is independent, and both ends of the relation agree.
THEOREM TopologyCorrect == Spec => []MergeTopology
  BY StructureInvariant, PTL DEF Structure

-----------------------------------------------------------------------------
(* No lost wake-up *)

\* ArmedForPending for one loop.
Armed(q) ==
    phase[q] = "waiting" /\ subsumedBy[q] = kUnmerged
        => \A r \in Group(q) : \A t \in Pending(r) : timer[q] <= t.time

\* A loop woken by WakeUpIfPending is armed, whatever it was before.
LEMMA WokenIsArmed ==
    ASSUME TypeOK, TypeOK', NEW L, WakeUpIfPending(L), NEW q \in Queues, q \in L
    PROVE  Armed(q)'
<1> SUFFICES ASSUME subsumedBy'[q] = kUnmerged,
                    NEW r \in Group(q)', NEW t \in Pending(r)'
             PROVE  timer'[q] <= t.time
  BY DEF Armed
<1>1. HasPendingTasks(q)'
  BY DEF HasPendingTasks
<1>2. timer'[q] = GetNextWakeTime(q)'
  BY <1>1 DEF WakeUpIfPending, TypeOK
<1>3. GetNextWakeTime(q)' <= t.time
  BY <1>1, WakeTimePrime DEF TypeOK, SourceTypes
<1> QED
  BY <1>2, <1>3

\* A loop that serves the same queues, whose pending tasks only became
\* fewer and whose timer was not touched, stays armed.
LEMMA StaysArmed ==
    ASSUME TypeOK, NEW q \in Queues, Armed(q),
           phase'[q] = "waiting" => phase[q] = "waiting",
           subsumedBy'[q] = kUnmerged => subsumedBy[q] = kUnmerged,
           Group(q)' \subseteq Group(q),
           \A r \in Group(q) : Pending(r)' \subseteq Pending(r),
           timer'[q] = timer[q]
    PROVE  Armed(q)'
  BY DEF Armed

\* Every step keeps every sleeping loop armed.
LEMMA ArmedStep ==
    ASSUME TypeOK, TypeOK', Structure, ArmedForPending, [Next]_vars
    PROVE  ArmedForPending'
<1> USE QueueAssumption DEF entryVars, mergeVars, loopVars
<1> SUFFICES ASSUME NEW q \in Queues
             PROVE  Armed(q)'
  BY DEF ArmedForPending, Armed
<1>0. Armed(q)
  BY DEF ArmedForPending, Armed
<1>1. CASE UNCHANGED vars
  BY <1>0, <1>1, StaysArmed DEF vars, Group, Pending, Heap
<1>2. ASSUME NEW n \in Queues, CreateTaskQueue(n) PROVE Armed(q)'
  <2>1. CASE q = n
    <3>1. ownerOf[q] = {} /\ tasks[q] = {}
      BY <1>2, <2>1 DEF CreateTaskQueue, Structure, MergeTopology, Untouched,
                        TypeOK
    <3>2. Group(q)' = {q} /\ Pending(q)' = {}
      BY <1>2, <3>1 DEF CreateTaskQueue, Group, Pending, Heap, TypeOK
    <3> QED
      BY <3>2 DEF Armed
  <2>2. CASE q # n
    BY <1>0, <1>2, <2>2, StaysArmed DEF CreateTaskQueue, Group, Pending, Heap, TypeOK
  <2> QED
    BY <2>1, <2>2
<1>3. ASSUME NEW d \in Queues, Dispose(d) PROVE Armed(q)'
  <2>1. \A r \in Queues : Pending(r)' \subseteq Pending(r)
    BY <1>3 DEF Dispose, Pending, Heap, TypeOK
  <2>2. \A r \in Group(q) : r \in Queues
    BY DEF Group, TypeOK
  <2> QED
    BY <1>0, <1>3, <2>1, <2>2, StaysArmed DEF Dispose, Group
\* A task is registered: the loop that serves the queue is woken, and no
\* other loop is concerned.
<1>4. ASSUME NEW r \in Queues, NEW time \in Time, NEW g \in Grades,
             RegisterTask(r, time, g), UNCHANGED phase
      PROVE  Armed(q)'
  <2> DEFINE host == IF subsumedBy[r] # kUnmerged THEN subsumedBy[r] ELSE r
  <2>1. CASE q = host
    <3>1. WakeUpIfPending({host})
      BY <1>4 DEF RegisterTask
    <3> QED
      BY <2>1, <3>1, WokenIsArmed
  <2>2. CASE q # host /\ subsumedBy[q] = kUnmerged
    <3>1. r \notin Group(q)
      BY <2>2 DEF Group, Structure, MergeTopology, TypeOK
    <3>2. \A x \in Group(q) : Pending(x)' = Pending(x)
      BY <1>4, <3>1 DEF RegisterTask, Pending, Heap, Group, TypeOK
    <3>3. timer'[q] = timer[q] /\ Group(q)' = Group(q)
      BY <1>4, <2>2 DEF RegisterTask, WakeUpIfPending, Group
    <3> QED
      BY <1>0, <1>4, <3>2, <3>3, StaysArmed DEF RegisterTask
  <2>3. CASE subsumedBy[q] # kUnmerged
    BY <1>4, <2>3 DEF RegisterTask, Armed
  <2> QED
    BY <2>1, <2>2, <2>3
<1>5. ASSUME NEW r \in Queues, NEW g \in Grades, RegisterGraded(r, g)
      PROVE  Armed(q)'
  <2>1. clock \in Time
    BY DEF TypeOK
  <2> QED
    BY <1>4, <1>5, <2>1 DEF RegisterGraded
<1>6. ASSUME NEW r \in Queues, PauseSecondarySource(r) PROVE Armed(q)'
  <2>1. \A x \in Queues : Pending(x)' \subseteq Pending(x)
    BY <1>6 DEF PauseSecondarySource, Pending, Heap, TypeOK
  <2>2. \A x \in Group(q) : x \in Queues
    BY DEF Group, TypeOK
  <2> QED
    BY <1>0, <1>6, <2>1, <2>2, StaysArmed DEF PauseSecondarySource, Group
\* Merging and unmerging: the loops that serve more queues than before, or
\* serve themselves again, are the ones that are woken.
<1>7. ASSUME NEW o \in Queues, NEW s \in Queues, Merge(o, s) PROVE Armed(q)'
  <2>1. CASE q = o
    BY <1>7, <2>1, WokenIsArmed DEF Merge
  <2>2. CASE q # o
    <3>1. timer'[q] = timer[q] /\ Group(q)' = Group(q)
      BY <1>7, <2>2 DEF Merge, WakeUpIfPending, Heap, Group, TypeOK
    <3>2. subsumedBy'[q] = kUnmerged => subsumedBy[q] = kUnmerged
      BY <1>7 DEF Merge, TypeOK
    <3> QED
      BY <1>0, <1>7, <3>1, <3>2, StaysArmed DEF Merge, Pending, Heap
  <2> QED
    BY <2>1, <2>2
<1>8. ASSUME NEW o \in Queues, NEW s \in Queues, Unmerge(o, s) PROVE Armed(q)'
  <2>1. CASE q \in {o, s}
    BY <1>8, <2>1, WokenIsArmed DEF Unmerge
  <2>2. CASE q \notin {o, s}
    <3>1. timer'[q] = timer[q] /\ Group(q)' = Group(q)
      BY <1>8, <2>2 DEF Unmerge, WakeUpIfPending, Heap, Group, TypeOK
    <3>2. subsumedBy'[q] = subsumedBy[q]
      BY <1>8, <2>2 DEF Unmerge, TypeOK
    <3> QED
      BY <1>0, <1>8, <3>1, <3>2, StaysArmed DEF Unmerge, Pending, Heap
  <2> QED
    BY <2>1, <2>2
<1>9. ASSUME NEW p \in Posters, NEW r \in Queues, PostTask(p, r)
      PROVE  Armed(q)'
  BY <1>0, <1>9, StaysArmed DEF PostTask, Group, Pending, Heap
<1>10. ASSUME NEW p \in Posters, NEW time \in Time, PostTaskRegister(p, time)
       PROVE  Armed(q)'
  <2>1. posting[p] \in Queues /\ "kUnspecified" \in Grades
    BY <1>10 DEF PostTaskRegister, TypeOK, Grades
  <2> QED
    BY <1>4, <1>10, <2>1 DEF PostTaskRegister
<1>11. ASSUME NEW l \in Queues, OnEventFired(l) PROVE Armed(q)'
  <2>1. CASE q = l
    BY <1>11, <2>1 DEF OnEventFired, Armed, TypeOK
  <2>2. CASE q # l
    BY <1>0, <1>11, <2>2, StaysArmed DEF OnEventFired, Group, Pending, Heap, TypeOK
  <2> QED
    BY <2>1, <2>2
<1>12. ASSUME NEW l \in Queues, RunNextTask(l) PROVE Armed(q)'
  <2>1. CASE q = l
    BY <1>12, <2>1 DEF RunNextTask, Armed, TypeOK
  <2>2. CASE q # l
    <3>1. \A r \in Queues : Pending(r)' \subseteq Pending(r)
      BY <1>12 DEF RunNextTask, Pending, Heap, TypeOK
    <3>2. \A r \in Group(q) : r \in Queues
      BY DEF Group, TypeOK
    <3>3. timer'[q] = timer[q] /\ phase'[q] = phase[q]
      BY <1>12, <2>2 DEF RunNextTask, TypeOK
    <3> QED
      BY <1>0, <1>12, <3>1, <3>2, <3>3, StaysArmed DEF RunNextTask, Group
  <2> QED
    BY <2>1, <2>2
<1>13. ASSUME NEW l \in Queues, EndFlush(l) PROVE Armed(q)'
  <2>1. /\ Group(q)' = Group(q) /\ subsumedBy' = subsumedBy
        /\ \A r \in Queues : Pending(r)' = Pending(r)
        /\ Group(q) \subseteq Queues
    BY <1>13 DEF EndFlush, Group, Pending, Heap, TypeOK
  <2>2. CASE q = l /\ HasPendingTasks(l)
    <3>1. timer'[q] = GetNextWakeTime(q)
      BY <1>13, <2>2 DEF EndFlush, TypeOK
    <3>2. \A r \in Group(q) : \A t \in Pending(r) : GetNextWakeTime(q) <= t.time
      BY <2>2, HasSourceTypes, WakeTime
    <3> QED
      BY <2>1, <3>1, <3>2 DEF Armed
  <2>3. CASE q = l /\ ~HasPendingTasks(l)
    <3>1. subsumedBy[q] = kUnmerged => \A r \in Group(q) : Pending(r) = {}
      BY <2>3 DEF HasPendingTasks
    <3> QED
      BY <2>1, <3>1 DEF Armed
  <2>4. CASE q # l
    <3>1. timer'[q] = timer[q] /\ phase'[q] = phase[q]
      BY <1>13, <2>4 DEF EndFlush, LeaveFlush, TypeOK
    <3> QED
      BY <1>0, <2>1, <3>1 DEF Armed
  <2> QED
    BY <2>2, <2>3, <2>4
<1>14. ASSUME NEW l \in Queues,
              \/ EndTask(l)
              \/ \E ob \in toNotify[l] : NotifyObserver(l, ob)
              \/ EndNotify(l)
       PROVE  Armed(q)'
  <2>1. phase'[q] = "waiting" => phase[q] = "waiting"
    BY <1>14 DEF EndTask, NotifyObserver, EndNotify, TypeOK
  <2> QED
    BY <1>0, <1>14, <2>1, StaysArmed
       DEF EndTask, NotifyObserver, EndNotify, Group, Pending, Heap
<1>15. ASSUME NEW l \in Queues, DisposeTasks(l) PROVE Armed(q)'
  <2>1. \A r \in Queues : Pending(r)' \subseteq Pending(r)
    BY <1>15 DEF DisposeTasks, Pending, Heap, TypeOK
  <2>2. \A r \in Group(q) : r \in Queues
    BY DEF Group, TypeOK
  <2>3. phase'[q] = "waiting" => phase[q] = "waiting"
    BY <1>15 DEF DisposeTasks, TypeOK
  <2> QED
    BY <1>0, <1>15, <2>1, <2>2, <2>3, StaysArmed DEF DisposeTasks, Group
<1>16. ASSUME NEW l \in Queues, Terminate(l) PROVE Armed(q)'
  <2>1. CASE q = l
    BY <1>16, <2>1 DEF Terminate, Armed
  <2>2. CASE q # l
    BY <1>0, <1>16, <2>2, StaysArmed DEF Terminate, Group, Pending, Heap, TypeOK
  <2> QED
    BY <2>1, <2>2
<1>17. ASSUME NEW l \in Queues, NEW k \in ObserverKeys,
              AddTaskObserver(l, k) \/ RemoveTaskObserver(l, k)
       PROVE  Armed(q)'
  BY <1>0, <1>17, StaysArmed
     DEF AddTaskObserver, RemoveTaskObserver, Group, Pending, Heap
\* Resuming wakes the queue itself, never an owner: enough, because a paused
\* queue is not subsumed.
<1>18. ASSUME NEW l \in Queues, NEW r \in Queues, ResumeSecondarySource(l, r)
       PROVE  Armed(q)'
  <2>1. CASE q = r
    BY <1>18, <2>1, WokenIsArmed DEF ResumeSecondarySource
  <2>2. CASE q # r
    <3>1. subsumedBy[r] = kUnmerged
      BY <1>18 DEF ResumeSecondarySource, Structure, PausedServeThemselves,
                   TypeOK
    <3>2. r \notin Group(q)
      BY <2>2, <3>1 DEF Group, Structure, MergeTopology
    <3>3. \A x \in Group(q) : Pending(x)' = Pending(x)
      BY <1>18, <3>2 DEF ResumeSecondarySource, Pending, Heap, Group, TypeOK
    <3>4. timer'[q] = timer[q] /\ Group(q)' = Group(q)
      BY <1>18, <2>2 DEF ResumeSecondarySource, WakeUpIfPending, Group
    <3> QED
      BY <1>0, <1>18, <3>3, <3>4, StaysArmed DEF ResumeSecondarySource
  <2> QED
    BY <2>1, <2>2
<1>19. CASE Tick
  BY <1>0, <1>19, StaysArmed DEF Tick, Group, Pending, Heap
<1>20. \A pair \in MergePairs : pair[1] \in Queues /\ pair[2] \in Queues
  OBVIOUS
<1>21. CASE AnyThread
  BY <1>2, <1>3, <1>5, <1>6, <1>7, <1>8, <1>9, <1>10, <1>20, <1>21
     DEF AnyThread, Grades
<1>22. ASSUME NEW l \in Queues, LoopStep(l) PROVE Armed(q)'
  BY <1>11, <1>12, <1>13, <1>14, <1>15, <1>22 DEF LoopStep
<1>23. ASSUME NEW l \in Queues, TaskEffect(l) PROVE Armed(q)'
  BY <1>16, <1>17, <1>18, <1>23 DEF TaskEffect
<1> QED
  BY <1>1, <1>19, <1>21, <1>22, <1>23 DEF Next

\* No interleaving of posting, merging, unmerging, pausing, resuming and
\* flushing loses a wake-up, for any number of threads and tasks.
THEOREM NoLostWakeup == Spec => []ArmedForPending
<1>1. Init => ArmedForPending
  BY DEF Init, ArmedForPending
<1>2. /\ TypeOK /\ Structure /\ TypeOK' /\ ArmedForPending
      /\ [Next]_vars
      => ArmedForPending'
  BY ArmedStep
<1>3. Spec => [](TypeOK /\ Structure)
  BY StructureInvariant
<1> QED
  BY <1>1, <1>2, <1>3, PTL DEF Spec

-----------------------------------------------------------------------------
(* Which task runs *)

\* The grade read after the pop is that of a task of the same heap.
LEMMA GradeOfHeap ==
    ASSUME TypeOK, NEW c \in TopTask
    PROVE  \/ GradeAfterPop(c) = c.task.grade
           \/ ~Secondary(GradeAfterPop(c)) /\ ~Secondary(c.task.grade)
<1> DEFINE heap == Heap(c.queue, Secondary(c.task.grade)) \ {c.task}
<1>1. c.queue \in Queues /\ c.task \in DelayedTask
  BY DEF TopTask
<1>2. heap \subseteq DelayedTask
  BY <1>1 DEF TypeOK, Heap
<1>3. \A t \in heap : Secondary(t.grade) = Secondary(c.task.grade)
  BY DEF Heap
<1>4. heap # {} => Earliest(heap) \in heap
  BY <1>2, EarliestIsLeast
<1>5. CASE heap = {}
  BY <1>5 DEF GradeAfterPop
<1>6. CASE heap # {}
  <2>1. /\ GradeAfterPop(c) = Earliest(heap).grade
        /\ Secondary(Earliest(heap).grade) = Secondary(c.task.grade)
    BY <1>3, <1>4, <1>6 DEF GradeAfterPop
  <2> QED
    BY <2>1 DEF Secondary
<1> QED
  BY <1>5, <1>6

\* FlushTasks compares target times with a time that has come.
NowHasCome == \A l \in Queues : now[l] <= clock

\* now is read from a clock that only goes on.
LEMMA NowStep ==
    ASSUME TypeOK, TypeOK', NowHasCome, [Next]_vars
    PROVE  NowHasCome'
<1> USE DEF entryVars, mergeVars, loopVars
<1> SUFFICES ASSUME NEW q \in Queues
             PROVE  now'[q] <= clock'
  BY DEF NowHasCome
<1>0. now[q] <= clock /\ now[q] \in Nat /\ clock \in Nat
  BY BoundAssumption DEF NowHasCome, TypeOK, Time
<1>1. CASE UNCHANGED <<now, clock>>
  BY <1>0, <1>1
<1>2. CASE Tick
  BY <1>0, <1>2 DEF Tick
<1>3. ASSUME NEW l \in Queues, LeaveFlush(l), UNCHANGED clock
      PROVE  now'[q] <= clock'
  BY <1>0, <1>3 DEF LeaveFlush, TypeOK
<1>4. ASSUME NEW l \in Queues, LoopStep(l)
      PROVE  now'[q] <= clock'
  <2>1. CASE OnEventFired(l)
    BY <1>0, <2>1 DEF OnEventFired, TypeOK
  <2>2. CASE EndFlush(l)
    BY <1>3, <2>2 DEF EndFlush
  <2>3. CASE \/ RunNextTask(l) \/ EndTask(l) \/ EndNotify(l) \/ DisposeTasks(l)
             \/ \E ob \in toNotify[l] : NotifyObserver(l, ob)
    BY <1>1, <2>3 DEF RunNextTask, EndTask, EndNotify, DisposeTasks,
                      NotifyObserver
  <2> QED
    BY <1>4, <2>1, <2>2, <2>3 DEF LoopStep
<1>5. ASSUME NEW l \in Queues, TaskEffect(l)
      PROVE  now'[q] <= clock'
  BY <1>1, <1>5 DEF TaskEffect, Terminate, AddTaskObserver,
                    RemoveTaskObserver, ResumeSecondarySource
<1>6. CASE AnyThread
  BY <1>1, <1>6 DEF AnyThread, CreateTaskQueue, Dispose, RegisterGraded,
                    PauseSecondarySource, Merge, Unmerge, PostTask,
                    PostTaskRegister
<1>7. CASE UNCHANGED vars
  BY <1>1, <1>7 DEF vars
<1> QED
  BY <1>2, <1>4, <1>5, <1>6, <1>7 DEF Next

\* No step but RunNextTask starts a task, and EndTask leaves none.
LEMMA StartStep ==
    ASSUME TypeOK, [Next]_vars, NEW q \in Queues,
           ~(\E l \in Queues : RunNextTask(l))
    PROVE  /\ running'[q] \subseteq running[q]
           /\ phase'[q] = "running" => phase[q] = "running" /\ grade'[q] = grade[q]
<1> USE DEF entryVars, mergeVars, loopVars
<1> DEFINE P == /\ running'[q] \subseteq running[q]
                /\ phase'[q] = "running" => /\ phase[q] = "running"
                                            /\ grade'[q] = grade[q]
<1> SUFFICES P
  OBVIOUS
<1>1. CASE UNCHANGED <<running, phase, grade>>
  BY <1>1
<1>2. ASSUME NEW l \in Queues, LoopStep(l)
      PROVE  P
  <2>1. CASE OnEventFired(l)
    BY <2>1 DEF OnEventFired, TypeOK
  <2>2. CASE EndFlush(l)
    BY <2>2 DEF EndFlush, LeaveFlush, TypeOK
  <2>3. CASE EndTask(l)
    BY <2>3 DEF EndTask, TypeOK
  <2>4. CASE EndNotify(l)
    BY <2>4 DEF EndNotify, TypeOK
  <2>5. CASE DisposeTasks(l)
    BY <2>5 DEF DisposeTasks, TypeOK
  <2>6. CASE \E ob \in toNotify[l] : NotifyObserver(l, ob)
    BY <1>1, <2>6 DEF NotifyObserver
  <2> QED
    BY <1>2, <2>1, <2>2, <2>3, <2>4, <2>5, <2>6 DEF LoopStep
<1>3. ASSUME NEW l \in Queues, TaskEffect(l)
      PROVE  P
  BY <1>1, <1>3 DEF TaskEffect, Terminate, AddTaskObserver,
                    RemoveTaskObserver, ResumeSecondarySource
<1>4. ASSUME NEW n \in Queues, CreateTaskQueue(n)
      PROVE  P
  BY <1>4 DEF CreateTaskQueue, TypeOK
<1>5. CASE AnyThread
  BY <1>1, <1>4, <1>5 DEF AnyThread, Dispose, RegisterGraded,
                    PauseSecondarySource, Merge, Unmerge, PostTask,
                    PostTaskRegister
<1>6. CASE Tick
  BY <1>1, <1>6 DEF Tick
<1>7. CASE UNCHANGED vars
  BY <1>1, <1>7 DEF vars
<1> QED
  BY <1>2, <1>3, <1>5, <1>6, <1>7 DEF Next

\* GetCurrentTaskSourceGrade names the heap of the running task, although it
\* is read from the heap after the task was popped, for any queues and tasks
\* of all three grades.
THEOREM GradeCorrect == Spec => []CurrentGradeOfRightHeap
<1>1. Init => CurrentGradeOfRightHeap
  BY DEF Init, CurrentGradeOfRightHeap
<1>2. ASSUME TypeOK, CurrentGradeOfRightHeap, [Next]_vars
      PROVE  CurrentGradeOfRightHeap'
  <2> DEFINE Right(g, c) == \/ g = c.task.grade
                            \/ "kDartMicroTasks" \notin {g, c.task.grade}
  <2> SUFFICES ASSUME NEW q \in Queues, phase'[q] = "running",
                      NEW c \in running'[q]
               PROVE  Right(grade'[q], c)
    BY DEF CurrentGradeOfRightHeap
  <2>0. \A r \in Queues : phase[r] = "running" =>
           \A d \in running[r] : Right(grade[r], d)
    BY <1>2 DEF CurrentGradeOfRightHeap
  <2> HIDE DEF Right
  <2>1. CASE ~(\E l \in Queues : RunNextTask(l))
    BY <1>2, <2>0, <2>1, StartStep
  <2>2. ASSUME NEW l \in Queues, RunNextTask(l)
        PROVE  Right(grade'[q], c)
    <3>1. CASE q # l
      BY <1>2, <2>0, <2>2, <3>1 DEF RunNextTask, TypeOK
    <3>2. CASE q = l
      <4>1. c = PeekNextTask(l) /\ grade'[l] = GradeAfterPop(PeekNextTask(l))
        BY <1>2, <2>2, <3>2 DEF RunNextTask, TypeOK
      <4>2. PeekNextTask(l) \in TopTask
        BY <1>2, <2>2, HasSourceTypes, WakeTime DEF RunNextTask
      <4>3. Right(GradeAfterPop(PeekNextTask(l)), PeekNextTask(l))
        BY <1>2, <4>2, GradeOfHeap DEF Right, Secondary
      <4> QED
        BY <3>2, <4>1, <4>3
    <3> QED
      BY <3>1, <3>2
  <2> QED
    BY <2>1, <2>2
<1> QED
  BY <1>1, <1>2, TypeCorrect, PTL DEF Spec

\* Tasks start when they are due and in the order of DelayedTask::operator>
\* over all the heaps of any number of merged queues: what TaskSource::Top
\* and the loop of PeekNextTaskUnlocked compute is the first of all tasks.
THEOREM OrderCorrect == Spec => StartsInOrder
<1>1. Init => NowHasCome
  BY BoundAssumption DEF Init, NowHasCome
<1>2. TypeOK /\ TypeOK' /\ NowHasCome /\ [Next]_vars => NowHasCome'
  BY NowStep
<1>3. ASSUME TypeOK, NowHasCome, [Next]_vars
      PROVE  [\A l \in Queues : \A c \in running'[l] \ running[l] :
                 /\ c.task.time <= clock
                 /\ \A r \in Group(l) : \A t \in Pending(r) :
                       ~Greater(c.task, t)]_vars
  <2> SUFFICES ASSUME NEW q \in Queues, NEW c \in running'[q] \ running[q]
               PROVE  /\ c.task.time <= clock
                      /\ \A r \in Group(q) : \A t \in Pending(r) :
                            ~Greater(c.task, t)
    OBVIOUS
  <2>1. PICK l \in Queues : RunNextTask(l)
    BY <1>3, StartStep
  <2>2. q = l
    BY <1>3, <2>1 DEF RunNextTask, TypeOK
  <2>3. c = PeekNextTask(l) /\ c.task.time <= now[l]
    BY <1>3, <2>1, <2>2 DEF RunNextTask, TypeOK
  <2>4. FirstOf(PeekNextTask(l), Group(l))
    BY <1>3, <2>1, HasSourceTypes, PeekIsFirst DEF RunNextTask
  <2>5. c.task.time <= clock
    <3>1. c.task.time \in Nat /\ now[l] \in Nat /\ clock \in Nat
      BY <1>3, <2>3, <2>4, BoundAssumption
         DEF FirstOf, TypeOK, TopTask, DelayedTask, Time
    <3> QED
      BY <1>3, <2>3, <3>1 DEF NowHasCome
  <2> QED
    BY <2>2, <2>3, <2>4, <2>5 DEF FirstOf
<1> QED
  BY <1>1, <1>2, <1>3, TypeCorrect, PTL DEF Spec, StartsInOrder
=============================================================================
