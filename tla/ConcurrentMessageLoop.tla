------------------------ MODULE ConcurrentMessageLoop ------------------------
(***************************************************************************)
(* fml/concurrent_message_loop.cc: the pool of worker threads that share   *)
(* one queue of tasks, with a list of further tasks for each worker, and   *)
(* its shutdown.                                                           *)
(*                                                                         *)
(* A critical section of tasks_mutex_ is one step.  PostTask releases the  *)
(* mutex before it notifies, so a thread in `notifying' has pushed a task  *)
(* and not yet called notify_one.  Tasks run on the workers and may post   *)
(* tasks themselves.                                                       *)
(***************************************************************************)
EXTENDS Integers, Sequences, FiniteSets

CONSTANTS Workers,     \* the threads of workers_
          Posters,     \* other threads, which only post
          MaxTasks,    \* bound on the tasks posted to the shared queue
          MaxForAll    \* bound on the calls of PostTaskToAllWorkers

ASSUME WorkersAssumption ==
    /\ IsFiniteSet(Workers) /\ Workers # {}
    /\ IsFiniteSet(Posters) /\ Posters \cap Workers = {}

ASSUME BoundsAssumption == MaxTasks \in Nat /\ MaxForAll \in Nat

VARIABLES
    tasks,         \* tasks_, numbered in the order they are posted
    thread_tasks,  \* how many tasks thread_tasks_ holds for each worker
    shutdown,      \* shutdown_
    phase,         \* where each worker is in WorkerMain
    notifying,     \* threads between the push of a task and notify_one
    posted,        \* number of tasks posted to the loop or its runner
    for_all,       \* number of calls of PostTaskToAllWorkers
    loop,          \* the loop object: "live", "joining" in ~, or "gone"
    left           \* history: length of tasks_ when shutdown_ was set

vars == <<tasks, thread_tasks, shutdown, phase, notifying, posted, for_all,
          loop, left>>

Threads == Workers \cup Posters

(***************************************************************************)
(* "checking": about to take the mutex and test the condition; "waiting"   *)
(* on tasks_condition_; "running" tasks; "last": running tasks with        *)
(* shutdown_now set; "done": out of the loop.                              *)
(***************************************************************************)
Phases == {"checking", "waiting", "running", "last", "done"}

In(ph) == {w \in Workers : phase[w] = ph}

Init ==
    /\ tasks = <<>> /\ thread_tasks = [w \in Workers |-> 0]
    /\ shutdown = FALSE /\ phase = [w \in Workers |-> "checking"]
    /\ notifying = {} /\ posted = 0 /\ for_all = 0
    /\ loop = "live" /\ left = 0

-----------------------------------------------------------------------------
(***************************************************************************)
(* Posting.  A worker posts from the task it runs.                         *)
(***************************************************************************)
MayCall(t) ==
    /\ t \notin notifying
    /\ t \in Workers => phase[t] \in {"running", "last"}

NotifyAll(ph) ==
    [w \in Workers |-> IF ph[w] = "waiting" THEN "checking" ELSE ph[w]]

\* Fault: notify_one where all workers are concerned.
NotifyAnyone(ph) ==
    IF \E w \in Workers : ph[w] = "waiting"
    THEN [ph EXCEPT ![CHOOSE w \in Workers : ph[w] = "waiting"] = "checking"]
    ELSE ph

\* ConcurrentTaskRunner::PostTask on a loop that is alive and not shut down.
PostTask(t) ==
    /\ MayCall(t) /\ posted < MaxTasks
    /\ loop = "live" /\ ~shutdown
    /\ posted' = posted + 1
    /\ tasks' = Append(tasks, posted')
    /\ notifying' = notifying \cup {t}
    /\ UNCHANGED <<thread_tasks, shutdown, phase, for_all, loop, left>>

\* ConcurrentTaskRunner::PostTask otherwise: weak_loop_ has expired or
\* shutdown_ is set, and the task is executed on the thread of the caller.
PostTaskExecutes(t) ==
    /\ MayCall(t) /\ posted < MaxTasks
    /\ loop # "live" \/ shutdown
    /\ posted' = posted + 1
    /\ UNCHANGED <<tasks, thread_tasks, shutdown, phase, notifying, for_all,
                   loop, left>>

WakeOne(ph) ==
    IF \E w \in Workers : ph[w] = "waiting"
    THEN {[ph EXCEPT ![w] = "checking"] : w \in {v \in Workers : ph[v] = "waiting"}}
    ELSE {ph}

\* Fault: PostTask notifies only if it finds no other worker awake.
NotifyOneIfAllWait(t) ==
    /\ t \in notifying
    /\ notifying' = notifying \ {t}
    /\ phase' \in IF In("waiting") = Workers THEN WakeOne(phase) ELSE {phase}
    /\ UNCHANGED <<tasks, thread_tasks, shutdown, posted, for_all, loop, left>>

\* Fault: PostTask does not notify at all.
NotifyNobody(t) ==
    /\ t \in notifying
    /\ notifying' = notifying \ {t}
    /\ UNCHANGED <<tasks, thread_tasks, shutdown, phase, posted, for_all, loop,
                   left>>

\* The end of PostTask: notify_one, with the mutex released.
NotifyOne(t) ==
    /\ t \in notifying
    /\ notifying' = notifying \ {t}
    /\ phase' \in WakeOne(phase)
    /\ UNCHANGED <<tasks, thread_tasks, shutdown, posted, for_all, loop, left>>

\* Fault: as PostTask, PostTaskToAllWorkers wakes one worker.
PostTaskToAllWakesOne(t) ==
    /\ MayCall(t) /\ for_all < MaxForAll
    /\ loop = "live"
    /\ for_all' = for_all + 1
    /\ thread_tasks' = [w \in Workers |-> thread_tasks[w] + 1]
    /\ phase' = NotifyAnyone(phase)
    /\ UNCHANGED <<tasks, shutdown, notifying, posted, loop, left>>

\* PostTaskToAllWorkers, which does not look at shutdown_.
PostTaskToAllWorkers(t) ==
    /\ MayCall(t) /\ for_all < MaxForAll
    /\ loop = "live"
    /\ for_all' = for_all + 1
    /\ thread_tasks' = [w \in Workers |-> thread_tasks[w] + 1]
    /\ phase' = NotifyAll(phase)
    /\ UNCHANGED <<tasks, shutdown, notifying, posted, loop, left>>

-----------------------------------------------------------------------------
(***************************************************************************)
(* WorkerMain.                                                             *)
(***************************************************************************)
HasThreadTasks(w) == thread_tasks[w] > 0

MayWake(w) == tasks # <<>> \/ shutdown \/ HasThreadTasks(w)

WorkerWait(w) ==
    /\ phase[w] = "checking" /\ ~MayWake(w)
    /\ phase' = [phase EXCEPT ![w] = "waiting"]
    /\ UNCHANGED <<tasks, thread_tasks, shutdown, notifying, posted, for_all,
                   loop, left>>

\* A condition variable may wake up by itself.
SpuriousWake(w) ==
    /\ phase[w] = "waiting"
    /\ phase' = [phase EXCEPT ![w] = "checking"]
    /\ UNCHANGED <<tasks, thread_tasks, shutdown, notifying, posted, for_all,
                   loop, left>>

\* Fault: one task of the worker is taken on each round, there or not.
WorkerTakeOneEach(w) ==
    /\ phase[w] = "checking" /\ MayWake(w)
    /\ tasks' = IF tasks = <<>> THEN tasks ELSE Tail(tasks)
    /\ thread_tasks' = [thread_tasks EXCEPT ![w] = @ - 1]
    /\ phase' = [phase EXCEPT ![w] = IF shutdown THEN "last" ELSE "running"]
    /\ UNCHANGED <<shutdown, notifying, posted, for_all, loop, left>>

\* Fault: a worker told to shut down leaves the shared queue alone.
WorkerTakeUnlessShutdown(w) ==
    /\ phase[w] = "checking" /\ MayWake(w)
    /\ tasks' = IF tasks = <<>> \/ shutdown THEN tasks ELSE Tail(tasks)
    /\ thread_tasks' = [thread_tasks EXCEPT ![w] = 0]
    /\ phase' = [phase EXCEPT ![w] = IF shutdown THEN "last" ELSE "running"]
    /\ UNCHANGED <<shutdown, notifying, posted, for_all, loop, left>>

\* Under the mutex: shutdown_now is read, the front of tasks_ and all tasks
\* of this worker are taken.
WorkerTake(w) ==
    /\ phase[w] = "checking" /\ MayWake(w)
    /\ tasks' = IF tasks = <<>> THEN tasks ELSE Tail(tasks)
    /\ thread_tasks' = [thread_tasks EXCEPT ![w] = 0]
    /\ phase' = [phase EXCEPT ![w] = IF shutdown THEN "last" ELSE "running"]
    /\ UNCHANGED <<shutdown, notifying, posted, for_all, loop, left>>

\* The tasks have been executed: round again, or out if shutdown_now.
EndTasks(w) ==
    /\ w \notin notifying
    /\ \/ /\ phase[w] = "running"
          /\ phase' = [phase EXCEPT ![w] = "checking"]
       \/ /\ phase[w] = "last"
          /\ phase' = [phase EXCEPT ![w] = "done"]
    /\ UNCHANGED <<tasks, thread_tasks, shutdown, notifying, posted, for_all,
                   loop, left>>

-----------------------------------------------------------------------------
(***************************************************************************)
(* Shutdown.                                                               *)
(***************************************************************************)
SetShutdown ==
    /\ shutdown' = TRUE
    /\ left' = IF shutdown THEN left ELSE Len(tasks)

\* Fault: Terminate as PostTask, with notify_one.
TerminateWakesOne ==
    /\ SetShutdown
    /\ phase' = NotifyAnyone(phase)

Terminate ==
    /\ SetShutdown
    /\ phase' = NotifyAll(phase)

\* Terminate called by a user of the loop.
CallTerminate ==
    /\ loop = "live" /\ ~shutdown
    /\ Terminate
    /\ UNCHANGED <<tasks, thread_tasks, notifying, posted, for_all, loop>>

(***************************************************************************)
(* ~ConcurrentMessageLoop, up to the joins.  A thread in PostTask holds a  *)
(* shared_ptr to the loop, so nobody is notifying.  The thread that drops  *)
(* the last reference is taken not to be a worker, which would join        *)
(* itself.                                                                 *)
(***************************************************************************)
Destroy ==
    /\ loop = "live" /\ notifying = {}
    /\ loop' = "joining"
    /\ Terminate
    /\ UNCHANGED <<tasks, thread_tasks, notifying, posted, for_all>>

Join ==
    /\ loop = "joining" /\ In("done") = Workers
    /\ loop' = "gone"
    /\ UNCHANGED <<tasks, thread_tasks, shutdown, phase, notifying, posted,
                   for_all, left>>

Gone == loop = "gone" /\ UNCHANGED vars

WorkerMain(w) == WorkerWait(w) \/ WorkerTake(w) \/ EndTasks(w)

Next ==
    \/ \E t \in Threads : \/ PostTask(t) \/ PostTaskExecutes(t)
                          \/ NotifyOne(t) \/ PostTaskToAllWorkers(t)
    \/ \E w \in Workers : WorkerMain(w) \/ SpuriousWake(w)
    \/ CallTerminate \/ Destroy \/ Join \/ Gone

Spec == Init /\ [][Next]_vars

\* Every worker and every thread inside PostTask goes on: tasks return and
\* the mutex is free again and again.  Nobody has to post or to terminate.
Fairness ==
    /\ \A w \in Workers : WF_vars(WorkerMain(w))
    /\ \A t \in Threads : WF_vars(NotifyOne(t))
    /\ WF_vars(Join)

FairSpec == Spec /\ Fairness

-----------------------------------------------------------------------------
TypeOK ==
    /\ tasks \in Seq(Nat)
    /\ thread_tasks \in [Workers -> Nat]
    /\ shutdown \in BOOLEAN
    /\ phase \in [Workers -> Phases]
    /\ notifying \subseteq Threads
    /\ posted \in Nat /\ for_all \in Nat
    /\ loop \in {"live", "joining", "gone"}
    /\ left \in Nat

(***************************************************************************)
(* Threads that are on their way to the queue or about to send somebody.   *)
(***************************************************************************)
Awake == notifying \cup In("checking")

(***************************************************************************)
(* While some worker sleeps, each task in the shared queue has a thread of *)
(* its own on the way to it: one that is about to test the condition or    *)
(* one that is about to notify.  PostTask may thus notify without holding  *)
(* the mutex (lines 63-68), and no task waits behind a long one while      *)
(* there is an idle worker.                                                *)
(***************************************************************************)
NoTaskBesideIdleWorker ==
    In("waiting") # {} => Len(tasks) <= Cardinality(Awake)

(***************************************************************************)
(* A worker does not sleep over tasks of its own or over the shutdown:     *)
(* notify_all in PostTaskToAllWorkers and Terminate reaches all of them    *)
(* although workers go to sleep and wake up at any time.                   *)
(***************************************************************************)
SleepersHaveNothing ==
    \A w \in In("waiting") : thread_tasks[w] = 0 /\ ~shutdown

(***************************************************************************)
(* How many tasks the shutdown leaves in the queue: every worker takes one *)
(* more task on its last round, none takes two, and what is beyond that    *)
(* number is never run.                                                    *)
(***************************************************************************)
LastRound == In("last") \cup In("done")

DrainAtShutdown ==
    shutdown => Len(tasks) = IF left > Cardinality(LastRound)
                             THEN left - Cardinality(LastRound) ELSE 0

\* A task in the shared queue is taken by a worker unless the loop is shut
\* down, however the workers' sleeping and the posters' notifying interleave.
TaskTaken ==
    \A n \in 1..MaxTasks :
        (\E i \in DOMAIN tasks : tasks[i] = n)
            ~> (shutdown \/ \A i \in DOMAIN tasks : tasks[i] # n)

\* The destructor returns: every worker sees the shutdown and ends.
DestructorReturns == (loop = "joining") ~> (loop = "gone")

=============================================================================
