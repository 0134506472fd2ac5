----------------------------- MODULE TaskQueues -----------------------------
(***************************************************************************)
(* The task dispatcher of the engine: fml::MessageLoopTaskQueues with its  *)
(* TaskSource heaps, and the fml::MessageLoopImpl of every thread that     *)
(* drains it.                                                              *)
(*                                                                         *)
(* Each queue belongs to one loop, so a queue id also names the thread     *)
(* that runs the loop.  All operations of MessageLoopTaskQueues hold       *)
(* queue_mutex_ throughout, so each of them is one action; what a loop     *)
(* does between two of those calls (run a task, notify an observer, test   *)
(* terminated_) is where threads interleave, and gets a phase of its own.  *)
(*                                                                         *)
(* The clock is discrete.  A loop sleeps on one timer, re-armed (and       *)
(* thereby overwritten) by each WakeUp; Never is fml::TimePoint::Max().    *)
(***************************************************************************)
EXTENDS Integers, FiniteSets

CONSTANTS
    MaxId,         \* the last TaskQueueId that is handed out
    kUnmerged,     \* TaskQueueId::kUnmerged
    UIQueues,      \* queues that run Dart isolates: microtasks, observers
    MergePairs,    \* the <<owner, subsumed>> pairs anybody tries to merge
    Posters,       \* threads that post tasks through a TaskRunner
    ObserverKeys,  \* keys of task observers
    MaxOrder,      \* bound on order_: how many tasks are ever registered
    MaxTime,       \* bound on the clock and on target times
    MaxPauses      \* bound on nested PauseSecondary requests

\* TaskQueueIds, from task_queue_id_counter_: one per loop / thread.
Queues == 0..MaxId

ASSUME QueueAssumption ==
    /\ MaxId \in Nat
    /\ kUnmerged \notin Queues
    /\ UIQueues \subseteq Queues
    /\ MergePairs \subseteq Queues \X Queues

ASSUME BoundAssumption ==
    /\ MaxOrder \in Nat
    /\ MaxTime \in Nat
    /\ MaxPauses \in Nat

(***************************************************************************)
(* Only the raster queue is ever subsumed (fml::RasterThreadMerger) and    *)
(* only a UI queue is ever paused (VsyncWaiter::FireCallback).             *)
(***************************************************************************)
ASSUME PausedQueuesNotSubsumed ==
    \A pair \in MergePairs : pair[2] \notin UIQueues

Grades == {"kUserInteraction", "kDartMicroTasks", "kUnspecified"}

Time == 0..MaxTime
Never == MaxTime + 1

DelayedTask == [order : Nat, time : Time, grade : Grades]

\* TaskSource::TopTask: a task and the queue it was registered with.
TopTask == [queue : Queues, task : DelayedTask]

Phases == {"none", "waiting", "flushing", "running", "notifying",
           "disposing", "done"}

VARIABLES
    entries,     \* keys of queue_entries_
    tasks,       \* task_source of an entry: both heaps, told apart by grade
    pauses,      \* secondary_pause_requests_ of an entry
    observers,   \* task_observers of an entry
    ownerOf,     \* owner_of of an entry
    subsumedBy,  \* subsumed_by of an entry
    order,       \* order_
    timer,       \* when the loop's wakeable is armed to fire
    clock,       \* fml::TimePoint::Now()
    terminated,  \* MessageLoopImpl::terminated_
    phase,       \* where the loop's thread is
    final,       \* Run() has returned: this is the last flush of DoRun
    now,         \* the local of FlushTasks, 0 when it is not in scope
    running,     \* {} or the task the loop's thread is running
    grade,       \* tls_task_source_grade of the loop's thread
    toNotify,    \* the local observers vector of FlushTasks
    posting      \* queue a poster has found not terminated, or kUnmerged

entryVars == <<entries, pauses, observers>>
mergeVars == <<ownerOf, subsumedBy>>
loopVars  == <<phase, final, now, running, grade, toNotify>>
vars == <<entryVars, tasks, mergeVars, order, timer, clock, terminated,
          loopVars, posting>>

-----------------------------------------------------------------------------
(* TaskSource and DelayedTask *)

\* Fault: one heap for all grades.
NoSecondaryHeap(g) == FALSE

\* The heap a task of the grade lives in.
Secondary(g) == g = "kDartMicroTasks"

Heap(q, isSecondary) == {t \in tasks[q] : Secondary(t.grade) = isSecondary}

\* DelayedTask::operator>.
Greater(t, u) ==
    IF t.time = u.time THEN t.order > u.order ELSE t.time > u.time

\* top() of the std::priority_queue that holds the tasks T.
Earliest(T) == CHOOSE t \in T : \A u \in T : ~Greater(t, u)

\* What GetNumPendingTasks counts: all but a paused secondary heap.
Pending(q) ==
    Heap(q, FALSE) \cup (IF pauses[q] = 0 THEN Heap(q, TRUE) ELSE {})

\* TaskSource::Top; meaningful only when Pending(q) # {}.
Top(q) ==
    LET primary == Heap(q, FALSE)
        secondary == Heap(q, TRUE)
    IN  [queue |-> q,
         task |-> IF pauses[q] > 0 \/ secondary = {} THEN Earliest(primary)
                  ELSE IF primary = {} THEN Earliest(secondary)
                  ELSE IF Greater(Earliest(primary), Earliest(secondary))
                  THEN Earliest(secondary) ELSE Earliest(primary)]

-----------------------------------------------------------------------------
(* MessageLoopTaskQueues, the helpers that expect queue_mutex_ to be held *)

\* The queues whose tasks loop q runs while it is not subsumed.
Group(q) == {q} \cup ownerOf[q]

HasPendingTasks(q) ==
    /\ subsumedBy[q] = kUnmerged
    /\ \E r \in Group(q) : Pending(r) # {}

\* Fault: the first source that has a task provides the next one.
UpdateTopIfNone(best, r) ==
    IF Pending(r) # {} /\ best = {} THEN {Top(r)} ELSE best

\* top_task_updater: best is the std::optional top_task, {} for nullopt.
UpdateTop(best, r) ==
    IF Pending(r) # {} /\ \A b \in best : Greater(b.task, Top(r).task)
    THEN {Top(r)} ELSE best

\* top_task once the owner and the queues of owner_of before n were visited.
TopTasks(q) ==
    LET top[n \in 0..(MaxId + 1)] ==
            IF n = 0 THEN UpdateTop({}, q)
            ELSE IF n - 1 \in ownerOf[q] THEN UpdateTop(top[n - 1], n - 1)
            ELSE top[n - 1]
    IN  top

\* Meaningful only when HasPendingTasks(q).
PeekNextTask(q) ==
    IF ownerOf[q] = {} THEN Top(q)
    ELSE CHOOSE c \in TopTasks(q)[MaxId + 1] : TRUE

GetNextWakeTime(q) == PeekNextTask(q).task.time

\* Re-arm the timers of the loops in L that now have a task to run.
WakeUpIfPending(L) ==
    timer' = [q \in Queues |->
                 IF q \in L /\ HasPendingTasks(q)'
                 THEN GetNextWakeTime(q)' ELSE timer[q]]

-----------------------------------------------------------------------------
Init ==
    /\ entries = {}
    /\ tasks = [q \in Queues |-> {}]
    /\ pauses = [q \in Queues |-> 0]
    /\ observers = [q \in Queues |-> {}]
    /\ ownerOf = [q \in Queues |-> {}]
    /\ subsumedBy = [q \in Queues |-> kUnmerged]
    /\ order = 0
    /\ timer = [q \in Queues |-> Never]
    /\ clock = 0
    /\ terminated = [q \in Queues |-> FALSE]
    /\ phase = [q \in Queues |-> "none"]
    /\ final = [q \in Queues |-> FALSE]
    /\ now = [q \in Queues |-> 0]
    /\ running = [q \in Queues |-> {}]
    /\ grade = [q \in Queues |-> "kUnspecified"]
    /\ toNotify = [q \in Queues |-> {}]
    /\ posting = [p \in Posters |-> kUnmerged]

-----------------------------------------------------------------------------
(* Queues and merging: called by any thread *)

\* The constructor of a thread's MessageLoopImpl: CreateTaskQueue, which
\* never hands out an id twice, and SetWakeable before the id is shared.
CreateTaskQueue(q) ==
    /\ phase[q] = "none"
    /\ entries' = entries \cup {q}
    /\ phase' = [phase EXCEPT ![q] = "waiting"]
    /\ UNCHANGED <<tasks, pauses, observers, mergeVars, order, timer, clock,
                   terminated, final, now, running, grade, toNotify, posting>>

\* The destructor of the MessageLoopImpl, once nobody holds a reference to
\* it.  It calls Dispose, whose FML_DCHECK asks that the queue is not
\* subsumed; an owner must have unmerged too, or the subsumed entry vanishes
\* under a loop that is still alive.
Dispose(q) ==
    /\ phase[q] = "done"
    /\ q \in entries
    /\ subsumedBy[q] = kUnmerged
    /\ ownerOf[q] = {}
    /\ \A p \in Posters : posting[p] # q
    /\ entries' = entries \ Group(q)
    /\ tasks' = [tasks EXCEPT ![q] = {}]
    /\ UNCHANGED <<pauses, observers, mergeVars, order, timer, clock,
                   terminated, loopVars, posting>>

CanMerge(owner, subsumed) ==
    /\ owner # subsumed
    /\ subsumed \notin ownerOf[owner]
    /\ subsumedBy[owner] = kUnmerged
    /\ ownerOf[subsumed] = {}
    /\ subsumedBy[subsumed] = kUnmerged

\* A call that fails one of the checks of CanMerge returns true or false
\* and changes nothing.  A loop is not subsumed once it was told to
\* terminate: DisposeTasks asks for that.
Merge(owner, subsumed) ==
    /\ {owner, subsumed} \subseteq entries
    /\ ~terminated[subsumed]
    /\ CanMerge(owner, subsumed)
    /\ ownerOf' = [ownerOf EXCEPT ![owner] = @ \cup {subsumed}]
    /\ subsumedBy' = [subsumedBy EXCEPT ![subsumed] = owner]
    /\ UNCHANGED <<tasks, pauses>>
    /\ WakeUpIfPending({owner})
    /\ UNCHANGED <<entries, observers, order, clock, terminated, loopVars,
                   posting>>

CanUnmerge(owner, subsumed) ==
    /\ ownerOf[owner] # {}
    /\ subsumedBy[owner] = kUnmerged
    /\ subsumedBy[subsumed] # kUnmerged
    /\ subsumed \in ownerOf[owner]

\* Fault: the entry of the owner is updated, that of the subsumed queue not.
UnmergeOwnerOnly(owner, subsumed) ==
    /\ {owner, subsumed} \subseteq entries
    /\ CanUnmerge(owner, subsumed)
    /\ ownerOf' = [ownerOf EXCEPT ![owner] = @ \ {subsumed}]
    /\ UNCHANGED <<subsumedBy, tasks, pauses>>
    /\ WakeUpIfPending({owner, subsumed})
    /\ UNCHANGED <<entries, observers, order, clock, terminated, loopVars,
                   posting>>

Unmerge(owner, subsumed) ==
    /\ {owner, subsumed} \subseteq entries
    /\ CanUnmerge(owner, subsumed)
    /\ ownerOf' = [ownerOf EXCEPT ![owner] = @ \ {subsumed}]
    /\ subsumedBy' = [subsumedBy EXCEPT ![subsumed] = kUnmerged]
    /\ UNCHANGED <<tasks, pauses>>
    /\ WakeUpIfPending({owner, subsumed})
    /\ UNCHANGED <<entries, observers, order, clock, terminated, loopVars,
                   posting>>

-----------------------------------------------------------------------------
(* Registering tasks *)

\* Fault: the loop of the queue is woken even when it is subsumed.
RegisterTaskWakesQueue(q, time, g) ==
    /\ q \in entries
    /\ order < MaxOrder
    /\ order' = order + 1
    /\ tasks' = [tasks EXCEPT ![q] =
                    @ \cup {[order |-> order, time |-> time, grade |-> g]}]
    /\ UNCHANGED <<pauses, mergeVars>>
    /\ WakeUpIfPending({q})

\* Registers with the given queue, and wakes the loop that will run it.
RegisterTask(q, time, g) ==
    /\ q \in entries
    /\ order < MaxOrder
    /\ order' = order + 1
    /\ tasks' = [tasks EXCEPT ![q] =
                    @ \cup {[order |-> order, time |-> time, grade |-> g]}]
    /\ UNCHANGED <<pauses, mergeVars>>
    /\ WakeUpIfPending({IF subsumedBy[q] # kUnmerged THEN subsumedBy[q]
                        ELSE q})

\* MessageLoopImpl::PostTask, up to the test of terminated_.  A task for a
\* terminated loop is dropped and changes nothing.
PostTask(p, q) ==
    /\ posting[p] = kUnmerged
    /\ q \in entries
    /\ ~terminated[q]
    /\ posting' = [posting EXCEPT ![p] = q]
    /\ UNCHANGED <<entryVars, tasks, mergeVars, order, timer, clock,
                   terminated, loopVars>>

\* The rest of PostTask.  Nothing orders it with the loop's shutdown.
PostTaskRegister(p, time) ==
    /\ posting[p] # kUnmerged
    /\ RegisterTask(posting[p], time, "kUnspecified")
    /\ posting' = [posting EXCEPT ![p] = kUnmerged]
    /\ UNCHANGED <<entries, observers, clock, terminated, loopVars>>

\* RegisterTask called with a grade, for the current time: kDartMicroTasks by
\* the message handler of a DartIsolate.  Nothing in the engine registers
\* kUserInteraction, but the dispatcher takes it.
RegisterGraded(q, g) ==
    /\ q \in UIQueues
    /\ RegisterTask(q, clock, g)
    /\ UNCHANGED <<entries, observers, clock, terminated, loopVars, posting>>

\* VsyncWaiter::FireCallback, on any thread.
PauseSecondarySource(q) ==
    /\ q \in UIQueues \cap entries
    /\ pauses[q] < MaxPauses
    /\ pauses' = [pauses EXCEPT ![q] = @ + 1]
    /\ UNCHANGED <<entries, observers, tasks, mergeVars, order, timer, clock,
                   terminated, loopVars, posting>>

-----------------------------------------------------------------------------
(* The thread of loop l: MessageLoopImpl::DoRun and FlushTasks *)

\* The timer fires in Run(): drain it, and start FlushTasks.
OnEventFired(l) ==
    /\ phase[l] = "waiting"
    /\ timer[l] <= clock
    /\ timer' = [timer EXCEPT ![l] = Never]
    /\ phase' = [phase EXCEPT ![l] = "flushing"]
    /\ now' = [now EXCEPT ![l] = clock]
    /\ UNCHANGED <<entryVars, tasks, mergeVars, order, clock, terminated,
                   final, running, grade, toNotify, posting>>

\* tls_task_source_grade is read through a reference to the heap's front,
\* after the pop: it is the grade of the task that moved there, or of the
\* popped one where the heap is left with none.
GradeAfterPop(c) ==
    LET heap == Heap(c.queue, Secondary(c.task.grade)) \ {c.task}
    IN  IF heap = {} THEN c.task.grade ELSE Earliest(heap).grade

\* GetNextTaskToRun finds a task that is due.  The timer is armed for that
\* very task, before it is popped.
RunNextTask(l) ==
    /\ phase[l] = "flushing"
    /\ HasPendingTasks(l)
    /\ LET top == PeekNextTask(l)
       IN  /\ top.task.time <= now[l]
           /\ timer' = [timer EXCEPT ![l] = top.task.time]
           /\ tasks' = [tasks EXCEPT ![top.queue] = @ \ {top.task}]
           /\ running' = [running EXCEPT ![l] = {top}]
           /\ grade' = [grade EXCEPT ![l] = GradeAfterPop(top)]
    /\ phase' = [phase EXCEPT ![l] = "running"]
    /\ UNCHANGED <<entryVars, mergeVars, order, clock, terminated, final, now,
                   toNotify, posting>>

\* Fault: Run() goes on waiting although running_ was cleared.
LeaveFlushToWait(l) ==
    /\ phase' = [phase EXCEPT ![l] = "waiting"]
    /\ now' = [now EXCEPT ![l] = 0]
    /\ UNCHANGED final

\* FlushTasks returns.  If the loop was terminated meanwhile, Run() returns
\* as well and DoRun flushes once more, then disposes of what is left.
LeaveFlush(l) ==
    \/ /\ final[l]
       /\ phase' = [phase EXCEPT ![l] = "disposing"]
       /\ now' = [now EXCEPT ![l] = 0]
       /\ UNCHANGED final
    \/ /\ terminated[l] /\ ~final[l]
       /\ final' = [final EXCEPT ![l] = TRUE]
       /\ now' = [now EXCEPT ![l] = clock]
       /\ UNCHANGED phase
    \/ /\ ~terminated[l] /\ ~final[l]
       /\ phase' = [phase EXCEPT ![l] = "waiting"]
       /\ now' = [now EXCEPT ![l] = 0]
       /\ UNCHANGED final

\* Fault: the timer is re-armed only for a task that is due.
EndFlushWithoutArming(l) ==
    /\ phase[l] = "flushing"
    /\ HasPendingTasks(l) => GetNextWakeTime(l) > now[l]
    /\ LeaveFlush(l)
    /\ UNCHANGED <<entryVars, tasks, mergeVars, order, timer, clock,
                   terminated, running, grade, toNotify, posting>>

\* GetNextTaskToRun returns null: nothing is pending, or nothing is due.
EndFlush(l) ==
    /\ phase[l] = "flushing"
    /\ \/ /\ ~HasPendingTasks(l)
          /\ UNCHANGED timer
       \/ /\ HasPendingTasks(l)
          /\ GetNextWakeTime(l) > now[l]
          /\ timer' = [timer EXCEPT ![l] = GetNextWakeTime(l)]
    /\ LeaveFlush(l)
    /\ UNCHANGED <<entryVars, tasks, mergeVars, order, clock, terminated,
                   running, grade, toNotify, posting>>

GetObserversToNotify(l) ==
    IF subsumedBy[l] # kUnmerged THEN {}
    ELSE UNION {{<<q, k>> : k \in observers[q]} : q \in Group(l)}

\* The task returns; the observers to notify are copied under the lock.
EndTask(l) ==
    /\ phase[l] = "running"
    /\ running' = [running EXCEPT ![l] = {}]
    /\ toNotify' = [toNotify EXCEPT ![l] = GetObserversToNotify(l)]
    /\ phase' = [phase EXCEPT ![l] = "notifying"]
    /\ UNCHANGED <<entryVars, tasks, mergeVars, order, timer, clock,
                   terminated, final, now, grade, posting>>

\* Call one observer of the copy.
NotifyObserver(l, ob) ==
    /\ phase[l] = "notifying"
    /\ ob \in toNotify[l]
    /\ toNotify' = [toNotify EXCEPT ![l] = @ \ {ob}]
    /\ UNCHANGED <<entryVars, tasks, mergeVars, order, timer, clock,
                   terminated, phase, final, now, running, grade, posting>>

\* All observers were called: go round the loop of FlushTasks.
EndNotify(l) ==
    /\ phase[l] = "notifying"
    /\ toNotify[l] = {}
    /\ phase' = [phase EXCEPT ![l] = "flushing"]
    /\ UNCHANGED <<entryVars, tasks, mergeVars, order, timer, clock,
                   terminated, final, now, running, grade, toNotify, posting>>

\* The tasks of a queue that owns others go down with theirs.
DisposeTasks(l) ==
    /\ phase[l] = "disposing"
    /\ tasks' = [q \in Queues |-> IF q \in Group(l) THEN {} ELSE tasks[q]]
    /\ phase' = [phase EXCEPT ![l] = "done"]
    /\ UNCHANGED <<entryVars, mergeVars, order, timer, clock, terminated,
                   final, now, running, grade, toNotify, posting>>

-----------------------------------------------------------------------------
(* What a running task does to the loop it runs on *)

\* MessageLoop::GetCurrent().Terminate(), in the task posted by
\* fml::Thread::Join.  Terminating a subsumed loop would break the
\* FML_DCHECK of DisposeTasks.
Terminate(l) ==
    /\ phase[l] = "running"
    /\ ~terminated[l]
    /\ subsumedBy[l] = kUnmerged
    /\ terminated' = [terminated EXCEPT ![l] = TRUE]
    /\ timer' = [timer EXCEPT ![l] = clock]
    /\ UNCHANGED <<entryVars, tasks, mergeVars, order, clock, loopVars,
                   posting>>

\* Adding and removing is allowed on the loop's own thread only.
AddTaskObserver(l, k) ==
    /\ phase[l] = "running"
    /\ l \in UIQueues
    /\ observers' = [observers EXCEPT ![l] = @ \cup {k}]
    /\ UNCHANGED <<entries, pauses, tasks, mergeVars, order, timer, clock,
                   terminated, loopVars, posting>>

RemoveTaskObserver(l, k) ==
    /\ phase[l] = "running"
    /\ l \in UIQueues
    /\ observers' = [observers EXCEPT ![l] = @ \ {k}]
    /\ UNCHANGED <<entries, pauses, tasks, mergeVars, order, timer, clock,
                   terminated, loopVars, posting>>

\* Fault: resumes without a matching pause.
ResumeUnpaired(l, q) ==
    /\ phase[l] = "running"
    /\ \E c \in running[l] : c.queue = q
    /\ pauses' = [pauses EXCEPT ![q] = @ - 1]
    /\ UNCHANGED <<tasks, mergeVars>>
    /\ WakeUpIfPending({q})
    /\ UNCHANGED <<entries, observers, order, clock, terminated, loopVars,
                   posting>>

\* The task that FireCallback posts to the UI queue q ends with this.  It was
\* posted after the matching pause, so there is one to resume from: what the
\* FML_DCHECK of ResumeSecondary asks.
ResumeSecondarySource(l, q) ==
    /\ phase[l] = "running"
    /\ \E c \in running[l] : c.queue = q
    /\ pauses[q] > 0
    /\ pauses' = [pauses EXCEPT ![q] = @ - 1]
    /\ UNCHANGED <<tasks, mergeVars>>
    /\ WakeUpIfPending({q})
    /\ UNCHANGED <<entries, observers, order, clock, terminated, loopVars,
                   posting>>

-----------------------------------------------------------------------------
Tick ==
    /\ clock < MaxTime
    /\ clock' = clock + 1
    /\ UNCHANGED <<entryVars, tasks, mergeVars, order, timer, terminated,
                   loopVars, posting>>

\* What the thread of loop l does by itself.
LoopStep(l) ==
    \/ OnEventFired(l)
    \/ RunNextTask(l)
    \/ EndFlush(l)
    \/ EndTask(l)
    \/ \E ob \in toNotify[l] : NotifyObserver(l, ob)
    \/ EndNotify(l)
    \/ DisposeTasks(l)

\* What the tasks that run on the thread of loop l may do.
TaskEffect(l) ==
    \/ Terminate(l)
    \/ \E k \in ObserverKeys : AddTaskObserver(l, k) \/ RemoveTaskObserver(l, k)
    \/ \E q \in Queues : ResumeSecondarySource(l, q)

AnyThread ==
    \/ \E q \in Queues :
        \/ CreateTaskQueue(q) \/ Dispose(q) \/ PauseSecondarySource(q)
        \/ \E g \in {"kUserInteraction", "kDartMicroTasks"} :
              RegisterGraded(q, g)
    \/ \E pair \in MergePairs :
        Merge(pair[1], pair[2]) \/ Unmerge(pair[1], pair[2])
    \/ \E p \in Posters :
        \/ \E q \in Queues : PostTask(p, q)
        \/ \E time \in Time : PostTaskRegister(p, time)

Next ==
    \/ AnyThread
    \/ \E l \in Queues : LoopStep(l) \/ TaskEffect(l)
    \/ Tick

Spec == Init /\ [][Next]_vars

(***************************************************************************)
(* Threads that can run do, tasks return, time passes.  Nobody has to post *)
(* a task, merge queues or terminate a loop.                               *)
(***************************************************************************)
Fairness ==
    /\ WF_vars(Tick)
    /\ \A l \in Queues : WF_vars(LoopStep(l))

FairSpec == Spec /\ Fairness

-----------------------------------------------------------------------------
(* Properties *)

\* Every variable has its type: heaps hold tasks whose order was handed out,
\* a thread runs at most one task, and runs none outside invocation().
TypeOK ==
    /\ entries \subseteq Queues
    /\ tasks \in [Queues -> SUBSET DelayedTask]
    /\ pauses \in [Queues -> Nat]
    /\ observers \in [Queues -> SUBSET ObserverKeys]
    /\ ownerOf \in [Queues -> SUBSET Queues]
    /\ subsumedBy \in [Queues -> Queues \cup {kUnmerged}]
    /\ order \in Nat
    /\ timer \in [Queues -> 0..Never]
    /\ clock \in Time
    /\ terminated \in [Queues -> BOOLEAN]
    /\ phase \in [Queues -> Phases]
    /\ final \in [Queues -> BOOLEAN]
    /\ now \in [Queues -> Time]
    /\ running \in [Queues -> SUBSET TopTask]
    /\ grade \in [Queues -> Grades]
    /\ toNotify \in [Queues -> SUBSET (Queues \X ObserverKeys)]
    /\ posting \in [Posters -> Queues \cup {kUnmerged}]

\* "A TaskQueue can be in exactly one of the following three states": owner,
\* subsumed or independent; the two directions of the relation, kept in two
\* entries by Merge and Unmerge, always agree and name live queues only, so
\* that no lookup of a related queue can miss.
MergeTopology ==
    \A o, s \in Queues :
        /\ s \in ownerOf[o] <=> subsumedBy[s] = o
        /\ s \in ownerOf[o] => /\ subsumedBy[o] = kUnmerged
                               /\ ownerOf[s] = {}
                               /\ {o, s} \subseteq entries

\* No wake-up is lost: a loop that sleeps, and is responsible for its own
\* and its subsumed queues' tasks, is armed to wake no later than any task
\* it has to run, whichever mix of posting, merging, unmerging, pausing and
\* resuming by other threads led here.
ArmedForPending ==
    \A q \in Queues :
        phase[q] = "waiting" /\ subsumedBy[q] = kUnmerged
            => \A r \in Group(q) : \A t \in Pending(r) : timer[q] <= t.time

\* "assert that it's received by the right heap": while a task runs,
\* GetCurrentTaskSourceGrade on that thread is the grade of the task, although
\* the code reads it from the heap after the task has been popped.  Only the
\* two grades of the primary heap may be taken for one another.
CurrentGradeOfRightHeap ==
    \A l \in Queues : phase[l] = "running" =>
        \A c \in running[l] :
            \/ grade[l] = c.task.grade
            \/ "kDartMicroTasks" \notin {grade[l], c.task.grade}

\* A task starts only once it is due, and before every task of sooner target
\* time, or registered first for the same time, that is pending in any heap
\* the loop serves: comparing the tops of the heaps, source by source in the
\* order of their ids, finds the first of all tasks.
StartsInOrder ==
    [][\A l \in Queues : \A c \in running'[l] \ running[l] :
          /\ c.task.time <= clock
          /\ \A r \in Group(l) : \A t \in Pending(r) :
                ~Greater(c.task, t)]_vars

\* The loop that runs the tasks of q.
Host(q) == IF subsumedBy[q] = kUnmerged THEN q ELSE subsumedBy[q]

HasTaskOfOrder(q, n) ==
    \E t \in tasks[q] : t.order = n /\ ~Secondary(t.grade)

\* Unless queues are merged and unmerged for ever, every posted task
\* eventually starts, or goes down with the loop that should have run it.
PostedTaskRuns ==
    <>[][FALSE]_mergeVars =>
        \A q \in Queues : \A n \in 0..(MaxOrder - 1) :
            HasTaskOfOrder(q, n)
                ~> (~HasTaskOfOrder(q, n) \/ phase[Host(q)] = "done")

\* A loop that is told to terminate finishes its last flush and ends, so
\* that fml::Thread::Join returns.
TerminatedLoopEnds ==
    \A l \in Queues : terminated[l] ~> phase[l] = "done"
=============================================================================
