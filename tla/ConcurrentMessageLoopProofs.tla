--------------------- MODULE ConcurrentMessageLoopProofs ---------------------
(***************************************************************************)
(* No notification of the worker pool is lost and each worker takes one    *)
(* task on its last round, for any number of workers, posters and tasks.   *)
(***************************************************************************)
EXTENDS ConcurrentMessageLoop, FiniteSetTheorems, TLAPS

\* A worker that posts is running a task.
PostsFromTask ==
    \A w \in Workers \cap notifying : phase[w] \in {"running", "last"}

\* Nobody is on its last round before the shutdown, and the destructor has
\* set the flag.
ShutdownFirst ==
    /\ ~shutdown => LastRound = {}
    /\ loop # "live" => shutdown

PoolInv ==
    /\ TypeOK
    /\ PostsFromTask
    /\ ShutdownFirst
    /\ SleepersHaveNothing
    /\ NoTaskBesideIdleWorker
    /\ DrainAtShutdown

-----------------------------------------------------------------------------
\* Sets of threads are finite.
LEMMA FiniteThreads ==
    ASSUME TypeOK
    PROVE  /\ IsFiniteSet(Awake) /\ IsFiniteSet(LastRound)
           /\ Cardinality(Awake) \in Nat /\ Cardinality(LastRound) \in Nat
<1>1. IsFiniteSet(Threads)
  BY WorkersAssumption, FS_Union DEF Threads
<1>2. Awake \in SUBSET Threads /\ LastRound \in SUBSET Threads
  BY DEF Awake, LastRound, In, TypeOK, Threads
<1>3. IsFiniteSet(Awake) /\ IsFiniteSet(LastRound)
  BY <1>1, <1>2, FS_Subset
<1> QED
  BY <1>3, FS_CardinalityType

\* The initial state of the pool.
LEMMA PoolInit == Init => PoolInv
<1> SUFFICES ASSUME Init PROVE PoolInv
  OBVIOUS
<1>1. TypeOK /\ PostsFromTask
  <2>1. tasks \in Seq(Nat)
    BY DEF Init
  <2>2. phase \in [Workers -> Phases] /\ thread_tasks \in [Workers -> Nat]
    BY DEF Init, Phases
  <2>3. notifying = {} /\ shutdown \in BOOLEAN
    BY DEF Init
  <2>4. TypeOK
    BY <2>1, <2>2, <2>3 DEF Init, TypeOK
  <2> QED
    BY <2>3, <2>4 DEF PostsFromTask
<1>2. ShutdownFirst /\ SleepersHaveNothing
  BY DEF Init, ShutdownFirst, SleepersHaveNothing, LastRound, In
<1>3. NoTaskBesideIdleWorker
  <2>1. In("waiting") = {}
    BY DEF Init, In
  <2> QED
    BY <2>1 DEF NoTaskBesideIdleWorker
<1>4. DrainAtShutdown
  BY DEF Init, DrainAtShutdown
<1> QED
  BY <1>1, <1>2, <1>3, <1>4 DEF PoolInv

\* A step that neither changes the queue, nor takes a thread off its way to
\* it, nor lets a worker fall asleep, leaves no task beside an idle worker.
LEMMA StaysServed ==
    ASSUME PoolInv, TypeOK', tasks' = tasks,
           Awake \subseteq Awake',
           In("waiting")' \subseteq In("waiting")
    PROVE  NoTaskBesideIdleWorker'
<1>1. IsFiniteSet(Awake) /\ Cardinality(Awake) \in Nat
  BY FiniteThreads DEF PoolInv
<1>2. IsFiniteSet(Awake') /\ Cardinality(Awake') \in Nat
  <2>1. IsFiniteSet(Threads)
    BY WorkersAssumption, FS_Union DEF Threads
  <2>2. Awake' \in SUBSET Threads
    BY DEF Awake, In, TypeOK, Threads
  <2> QED
    BY <2>1, <2>2, FS_Subset, FS_CardinalityType
<1>3. Cardinality(Awake) <= Cardinality(Awake')
  BY <1>2, FS_Subset
<1>4. Len(tasks) \in Nat
  BY DEF PoolInv, TypeOK
<1> QED
  BY <1>1, <1>2, <1>3, <1>4 DEF PoolInv, NoTaskBesideIdleWorker

\* A step that changes neither the queue nor who is on its last round.
LEMMA StaysDrained ==
    ASSUME PoolInv, tasks' = tasks, shutdown' = shutdown, left' = left,
           LastRound' = LastRound
    PROVE  DrainAtShutdown'
  BY DEF PoolInv, DrainAtShutdown

-----------------------------------------------------------------------------
\* The types and the simple parts, which look at one thread at a time.
LEMMA SimpleStep ==
    ASSUME PoolInv, [Next]_vars
    PROVE  TypeOK' /\ PostsFromTask' /\ ShutdownFirst' /\ SleepersHaveNothing'
<1> USE DEF PoolInv, TypeOK, PostsFromTask, ShutdownFirst,
            SleepersHaveNothing, LastRound, In, Phases
<1>1. ASSUME NEW t \in Threads, PostTask(t)
      PROVE  TypeOK' /\ PostsFromTask' /\ ShutdownFirst' /\ SleepersHaveNothing'
  BY <1>1 DEF PostTask, MayCall
<1>2. ASSUME NEW t \in Threads, PostTaskExecutes(t)
      PROVE  TypeOK' /\ PostsFromTask' /\ ShutdownFirst' /\ SleepersHaveNothing'
  BY <1>2 DEF PostTaskExecutes
<1>3. ASSUME NEW t \in Threads, NotifyOne(t)
      PROVE  TypeOK' /\ PostsFromTask' /\ ShutdownFirst' /\ SleepersHaveNothing'
  <2>1. CASE \E w \in Workers : phase[w] = "waiting"
    <3>1. PICK w \in Workers : /\ phase[w] = "waiting"
                               /\ phase' = [phase EXCEPT ![w] = "checking"]
      BY <1>3, <2>1 DEF NotifyOne, WakeOne
    <3> QED
      BY <1>3, <3>1 DEF NotifyOne
  <2>2. CASE ~\E w \in Workers : phase[w] = "waiting"
    <3>1. phase' = phase
      BY <1>3, <2>2 DEF NotifyOne, WakeOne
    <3> QED
      BY <1>3, <3>1 DEF NotifyOne
  <2> QED
    BY <2>1, <2>2
<1>4. ASSUME NEW t \in Threads, PostTaskToAllWorkers(t)
      PROVE  TypeOK' /\ PostsFromTask' /\ ShutdownFirst' /\ SleepersHaveNothing'
  BY <1>4 DEF PostTaskToAllWorkers, NotifyAll
<1>5. ASSUME NEW w \in Workers, WorkerWait(w)
      PROVE  TypeOK' /\ PostsFromTask' /\ ShutdownFirst' /\ SleepersHaveNothing'
  BY <1>5 DEF WorkerWait, MayWake, HasThreadTasks
<1>6. ASSUME NEW w \in Workers, WorkerTake(w)
      PROVE  TypeOK' /\ PostsFromTask' /\ ShutdownFirst' /\ SleepersHaveNothing'
  BY <1>6 DEF WorkerTake
<1>7. ASSUME NEW w \in Workers, EndTasks(w)
      PROVE  TypeOK' /\ PostsFromTask' /\ ShutdownFirst' /\ SleepersHaveNothing'
  BY <1>7 DEF EndTasks
<1>8. ASSUME NEW w \in Workers, SpuriousWake(w)
      PROVE  TypeOK' /\ PostsFromTask' /\ ShutdownFirst' /\ SleepersHaveNothing'
  BY <1>8 DEF SpuriousWake
<1>9. ASSUME CallTerminate \/ Destroy
      PROVE  TypeOK' /\ PostsFromTask' /\ ShutdownFirst' /\ SleepersHaveNothing'
  <2>1. /\ shutdown' = TRUE /\ phase' = NotifyAll(phase)
        /\ left' = IF shutdown THEN left ELSE Len(tasks)
        /\ UNCHANGED <<tasks, thread_tasks, notifying, posted, for_all>>
        /\ loop' \in {"live", "joining"}
    BY <1>9 DEF CallTerminate, Destroy, Terminate, SetShutdown
  <2>2. phase' \in [Workers -> Phases] /\ \A w \in Workers : phase'[w] # "waiting"
    BY <2>1 DEF NotifyAll
  <2>3. left' \in Nat
    BY <2>1
  <2>4. TypeOK'
    BY <2>1, <2>2, <2>3
  <2>5. PostsFromTask'
    BY <2>1 DEF NotifyAll
  <2> QED
    BY <2>1, <2>2, <2>4, <2>5
<1>10. ASSUME Join \/ Gone \/ UNCHANGED vars
       PROVE  TypeOK' /\ PostsFromTask' /\ ShutdownFirst' /\ SleepersHaveNothing'
  BY <1>10 DEF Join, Gone, vars
<1> QED
  BY <1>1, <1>2, <1>3, <1>4, <1>5, <1>6, <1>7, <1>8, <1>9, <1>10
     DEF Next, WorkerMain

\* The counting: who is on the way to the queue.
LEMMA ServedStep ==
    ASSUME PoolInv, [Next]_vars
    PROVE  NoTaskBesideIdleWorker'
<1>0. /\ TypeOK' /\ PostsFromTask' /\ SleepersHaveNothing'
      /\ IsFiniteSet(Awake) /\ Cardinality(Awake) \in Nat /\ Len(tasks) \in Nat
  BY SimpleStep, FiniteThreads DEF PoolInv, TypeOK
<1>1. ASSUME NEW t \in Threads, PostTask(t)
      PROVE  NoTaskBesideIdleWorker'
  <2>1. Awake' = Awake \cup {t} /\ t \notin Awake
    BY <1>1 DEF PostTask, MayCall, Awake, In
  <2>2. Cardinality(Awake') = Cardinality(Awake) + 1
    BY <1>0, <2>1, FS_AddElement
  <2>3. Len(tasks') = Len(tasks) + 1 /\ In("waiting")' = In("waiting")
    BY <1>1 DEF PostTask, In, PoolInv, TypeOK
  <2> QED
    BY <1>0, <2>2, <2>3 DEF PoolInv, NoTaskBesideIdleWorker
<1>2. ASSUME NEW t \in Threads, NotifyOne(t)
      PROVE  NoTaskBesideIdleWorker'
  <2>1. CASE \E w \in Workers : phase[w] = "waiting"
    <3>1. PICK w \in Workers : /\ phase[w] = "waiting"
                               /\ phase' = [phase EXCEPT ![w] = "checking"]
      BY <1>2, <2>1 DEF NotifyOne, WakeOne
    <3>2. t \in Awake /\ w \notin Awake /\ t # w
      BY <1>2, <3>1 DEF NotifyOne, Awake, In, PoolInv, PostsFromTask
    <3>3. Awake' = (Awake \ {t}) \cup {w}
      <4>1. In("checking")' = In("checking") \cup {w}
        BY <3>1 DEF In, PoolInv, TypeOK
      <4>2. t \notin In("checking")
        BY <1>2 DEF NotifyOne, In, PoolInv, PostsFromTask
      <4>3. notifying' = notifying \ {t}
        BY <1>2 DEF NotifyOne
      <4> QED
        BY <4>1, <4>2, <4>3 DEF Awake
    <3>4. /\ IsFiniteSet(Awake \ {t})
          /\ Cardinality(Awake \ {t}) = Cardinality(Awake) - 1
      BY <1>0, <3>2, FS_RemoveElement
    <3>5. Cardinality(Awake') = Cardinality(Awake)
      <4>1. w \notin Awake \ {t}
        BY <3>2
      <4>2. Cardinality(Awake') = Cardinality(Awake \ {t}) + 1
        BY <3>3, <3>4, <4>1, FS_AddElement
      <4> QED
        BY <1>0, <3>4, <4>2
    <3>6. tasks' = tasks /\ In("waiting") # {}
      BY <1>2, <3>1 DEF NotifyOne, In
    <3> QED
      BY <1>0, <3>5, <3>6 DEF PoolInv, NoTaskBesideIdleWorker
  <2>2. CASE ~\E w \in Workers : phase[w] = "waiting"
    <3>1. In("waiting")' = {}
      BY <1>2, <2>2 DEF NotifyOne, WakeOne, In
    <3> QED
      BY <3>1 DEF NoTaskBesideIdleWorker
  <2> QED
    BY <2>1, <2>2
<1>3. ASSUME NEW w \in Workers, WorkerWait(w)
      PROVE  NoTaskBesideIdleWorker'
  <2>1. Len(tasks') = 0
    BY <1>3 DEF WorkerWait, MayWake
  <2>2. Cardinality(Awake') \in Nat
    <3>1. IsFiniteSet(Threads) /\ Awake' \in SUBSET Threads
      BY <1>0, WorkersAssumption, FS_Union DEF Awake, In, TypeOK, Threads
    <3> QED
      BY <3>1, FS_Subset, FS_CardinalityType
  <2> QED
    BY <2>1, <2>2 DEF NoTaskBesideIdleWorker
<1>4. ASSUME NEW w \in Workers, WorkerTake(w)
      PROVE  NoTaskBesideIdleWorker'
  <2>1. Awake' = Awake \ {w} /\ w \in Awake
    BY <1>4 DEF WorkerTake, Awake, In, PoolInv, PostsFromTask, TypeOK
  <2>2. Cardinality(Awake') = Cardinality(Awake) - 1 /\ Cardinality(Awake') \in Nat
    BY <1>0, <2>1, FS_RemoveElement, FS_CardinalityType
  <2>3. In("waiting")' = In("waiting")
    BY <1>4 DEF WorkerTake, In, PoolInv, TypeOK
  <2>4. Len(tasks') = 0 \/ Len(tasks') = Len(tasks) - 1
    BY <1>4 DEF WorkerTake, PoolInv, TypeOK
  <2> QED
    BY <1>0, <2>2, <2>3, <2>4 DEF PoolInv, NoTaskBesideIdleWorker
<1>5. ASSUME NEW t \in Threads, PostTaskExecutes(t)
      PROVE  NoTaskBesideIdleWorker'
  BY <1>0, <1>5, StaysServed DEF PostTaskExecutes, Awake, In
<1>6. ASSUME NEW w \in Workers, EndTasks(w)
      PROVE  NoTaskBesideIdleWorker'
  <2>1. Awake \subseteq Awake' /\ In("waiting")' \subseteq In("waiting")
    BY <1>6 DEF EndTasks, Awake, In, PoolInv, TypeOK
  <2> QED
    BY <1>0, <1>6, <2>1, StaysServed DEF EndTasks
<1>7. ASSUME NEW w \in Workers, SpuriousWake(w)
      PROVE  NoTaskBesideIdleWorker'
  <2>1. Awake \subseteq Awake' /\ In("waiting")' \subseteq In("waiting")
    BY <1>7 DEF SpuriousWake, Awake, In, PoolInv, TypeOK
  <2> QED
    BY <1>0, <1>7, <2>1, StaysServed DEF SpuriousWake
<1>8. ASSUME (\E t \in Threads : PostTaskToAllWorkers(t)) \/ CallTerminate \/ Destroy
      PROVE  NoTaskBesideIdleWorker'
  <2>1. In("waiting")' = {}
    BY <1>8 DEF PostTaskToAllWorkers, CallTerminate, Destroy, Terminate,
                NotifyAll, In
  <2> QED
    BY <2>1 DEF NoTaskBesideIdleWorker
<1>9. ASSUME Join \/ Gone \/ UNCHANGED vars
      PROVE  NoTaskBesideIdleWorker'
  BY <1>0, <1>9, StaysServed DEF Join, Gone, vars, Awake, In
<1> QED
  BY <1>1, <1>2, <1>3, <1>4, <1>5, <1>6, <1>7, <1>8, <1>9 DEF Next, WorkerMain

\* The counting: who is on its last round.
LEMMA DrainedStep ==
    ASSUME PoolInv, [Next]_vars
    PROVE  DrainAtShutdown'
<1>0. /\ IsFiniteSet(LastRound) /\ Cardinality(LastRound) \in Nat
      /\ Len(tasks) \in Nat /\ left \in Nat
  BY FiniteThreads DEF PoolInv, TypeOK
<1>1. ASSUME NEW t \in Threads, PostTask(t)
      PROVE  DrainAtShutdown'
  BY <1>1 DEF PostTask, DrainAtShutdown
<1>2. ASSUME NEW t \in Threads, PostTaskExecutes(t)
      PROVE  DrainAtShutdown'
  BY <1>2, StaysDrained DEF PostTaskExecutes, LastRound, In
<1>3. ASSUME NEW t \in Threads, NotifyOne(t)
      PROVE  DrainAtShutdown'
  <2>1. LastRound' = LastRound
    <3>1. CASE \E w \in Workers : phase[w] = "waiting"
      <4>1. PICK w \in Workers : /\ phase[w] = "waiting"
                                 /\ phase' = [phase EXCEPT ![w] = "checking"]
        BY <1>3, <3>1 DEF NotifyOne, WakeOne
      <4> QED
        BY <4>1 DEF LastRound, In, PoolInv, TypeOK
    <3>2. CASE ~\E w \in Workers : phase[w] = "waiting"
      <4>1. phase' = phase
        BY <1>3, <3>2 DEF NotifyOne, WakeOne
      <4> QED
        BY <4>1 DEF LastRound, In
    <3> QED
      BY <3>1, <3>2
  <2> QED
    BY <1>3, <2>1, StaysDrained DEF NotifyOne
<1>4. ASSUME NEW t \in Threads, PostTaskToAllWorkers(t)
      PROVE  DrainAtShutdown'
  <2>1. LastRound' = LastRound
    BY <1>4 DEF PostTaskToAllWorkers, NotifyAll, LastRound, In, PoolInv, TypeOK
  <2> QED
    BY <1>4, <2>1, StaysDrained DEF PostTaskToAllWorkers
<1>5. ASSUME NEW w \in Workers, WorkerWait(w) \/ SpuriousWake(w) \/ EndTasks(w)
      PROVE  DrainAtShutdown'
  <2>1. LastRound' = LastRound
    BY <1>5 DEF WorkerWait, SpuriousWake, EndTasks, LastRound, In, PoolInv,
                TypeOK
  <2> QED
    BY <1>5, <2>1, StaysDrained DEF WorkerWait, SpuriousWake, EndTasks
<1>6. ASSUME NEW w \in Workers, WorkerTake(w)
      PROVE  DrainAtShutdown'
  <2> SUFFICES ASSUME shutdown
               PROVE  DrainAtShutdown'
    BY <1>6 DEF WorkerTake, DrainAtShutdown
  <2>1. LastRound' = LastRound \cup {w} /\ w \notin LastRound
    BY <1>6 DEF WorkerTake, LastRound, In, PoolInv, TypeOK
  <2>2. Cardinality(LastRound') = Cardinality(LastRound) + 1
    BY <1>0, <2>1, FS_AddElement
  <2>3. Len(tasks') = IF Len(tasks) = 0 THEN 0 ELSE Len(tasks) - 1
    BY <1>6 DEF WorkerTake, PoolInv, TypeOK
  <2>4. left' = left
    BY <1>6 DEF WorkerTake
  <2> QED
    BY <1>0, <2>2, <2>3, <2>4 DEF PoolInv, DrainAtShutdown
<1>7. ASSUME CallTerminate \/ Destroy
      PROVE  DrainAtShutdown'
  <2>1. LastRound' = LastRound /\ tasks' = tasks
    BY <1>7 DEF CallTerminate, Destroy, Terminate, NotifyAll, LastRound, In,
                PoolInv, TypeOK
  <2>2. CASE shutdown
    BY <1>7, <2>1, <2>2, StaysDrained
       DEF CallTerminate, Destroy, Terminate, SetShutdown
  <2>3. CASE ~shutdown
    <3>1. Cardinality(LastRound') = 0
      BY <2>1, <2>3, FS_EmptySet DEF PoolInv, ShutdownFirst
    <3>2. left' = Len(tasks)
      BY <1>7, <2>3 DEF CallTerminate, Destroy, Terminate, SetShutdown
    <3> QED
      BY <1>0, <2>1, <3>1, <3>2 DEF DrainAtShutdown
  <2> QED
    BY <2>2, <2>3
<1>8. ASSUME Join \/ Gone \/ UNCHANGED vars
      PROVE  DrainAtShutdown'
  BY <1>8, StaysDrained DEF Join, Gone, vars, LastRound, In
<1> QED
  BY <1>1, <1>2, <1>3, <1>4, <1>5, <1>6, <1>7, <1>8 DEF Next, WorkerMain

\* The invariant of the pool.
LEMMA PoolInvariant == Spec => []PoolInv
<1>1. Init => PoolInv
  BY PoolInit
<1>2. PoolInv /\ [Next]_vars => PoolInv'
  BY SimpleStep, ServedStep, DrainedStep DEF PoolInv
<1> QED
  BY <1>1, <1>2, PTL DEF Spec

-----------------------------------------------------------------------------
\* The queue, the counters and the phases of WorkerMain keep their types.
THEOREM TypeCorrect == Spec => []TypeOK
  BY PoolInvariant, PTL DEF PoolInv

\* PostTask notifies without the mutex and still no task lies beside a
\* sleeping worker that nobody is about to wake.
THEOREM NoLostNotify == Spec => []NoTaskBesideIdleWorker
  BY PoolInvariant, PTL DEF PoolInv

\* PostTaskToAllWorkers and Terminate reach every worker: none sleeps over
\* tasks of its own or over the shutdown.
THEOREM AllAreWoken == Spec => []SleepersHaveNothing
  BY PoolInvariant, PTL DEF PoolInv

\* What the shutdown in WorkerMain leaves in tasks_, for any pool.
THEOREM LeftAtShutdown == Spec => []DrainAtShutdown
  BY PoolInvariant, PTL DEF PoolInv

=============================================================================
