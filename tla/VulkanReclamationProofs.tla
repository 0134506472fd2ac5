---------------------- MODULE VulkanReclamationProofs ----------------------
(***************************************************************************)
(* Theorems about VulkanReclamation, for any number of encoding threads,   *)
(* encoders and pools: no pool is reset or reused while the GPU needs it   *)
(* and no callback comes too early, unless a wait for the fences failed;   *)
(* no callback comes twice; and no thread joins itself, unless the context *)
(* was abandoned without a Shutdown.                                       *)
(***************************************************************************)
EXTENDS VulkanReclamation, FiniteSetTheorems, TLAPS

\* What Shutdown has done.  A context that is abandoned has its members until
\* it is destroyed.
Owned ==
    /\ context = "alive" /\ shutdown \in {"no", "abandoned"}
          => "waiter" \in members
    /\ shutdown \in {"waiter", "done", "gone"} => "waiter" \notin members
    /\ shutdown \in {"done", "gone"} => "manager" \notin members

\* Once the last reference to the context is gone no other can be made.
Last ==
    context # "alive" =>
        /\ frame = {} /\ resetting = None
        /\ shutdown \in {"gone", "abandoned"}
        /\ \A a \in Actors : stage[a] \notin {"locked", "reclaimed"}

\* A thread that was told to end has nobody left who gives it work.
Told ==
    /\ terminate => "waiter" \notin members /\ Submitters = {}
    /\ shouldExit => "manager" \notin members /\ users = {}

\* The manager's thread leaves only when nothing can be reclaimed any more.
Managing ==
    /\ manager \in {"leaving", "exited"} => shouldExit /\ reclaimables = {}
    /\ manager = "exited" => collecting = {}

\* Of a context that is not abandoned, the manager's thread runs no destructor
\* of a CommandPoolVK or of a wait set entry, and the waiter's thread does not
\* destroy the waiter.
Joins ==
    shutdown # "abandoned" =>
        /\ dropping["manager"] = None
        /\ erased["manager"] = {}
        /\ joining["manager"] = None
        /\ joining["waiter"] # "waiter"

\* The way of a submitted buffer through the wait set: its callback is in one
\* place until it is called, and while the GPU has the buffer that is Submit
\* or the wait set.
Waiting(e) ==
    /\ encoder[e] \in {"none", "recording", "submitting"} =>
          /\ called[e] = 0
          /\ e \notin waitSet
          /\ \A a \in Actors : e \notin erased[a]
    /\ e \in waitSet => called[e] = 0 /\ \A a \in Actors : e \notin erased[a]
    /\ \A a, b \in Actors :
          e \in erased[a] => called[e] = 0 /\ (b # a => e \notin erased[b])
    /\ called[e] <= 1
    /\ e \in gpu => encoder[e] = "submitting" \/ e \in waitSet \/ GivenUp

\* Once the waiter's thread has ended, but for a failure, the GPU has none of
\* what is left; and the waiter is joined after it was told to end.
Ended ==
    /\ waiter = "waiting" => snapshot \subseteq waitSet
    /\ \A a \in Actors : joining[a] = "waiter" => terminate
    /\ context \notin {"alive", "dying"} => gpu = {}
    /\ waiter = "exited" => \/ terminate /\ waitSet = {}
                            \/ failed
                            \/ context = "dead"

\* Who holds the tracked objects of an encoder.
Holding(e) ==
    /\ encoder[e] = "none" => held[e] = {}
    /\ encoder[e] = "recording" => held[e] = {"encoder"}
    /\ encoder[e] = "submitting" => held[e] = {"submit"}
    /\ encoder[e] = "added" => "submit" \in held[e]
    /\ e \in waitSet => "entry" \in held[e]
    /\ held[e] # {} <=> tracked[e] # None

\* A CommandPoolVK is destroyed by one thread, once nobody refers to it.
Dropped(a) ==
    dropping[a] # None =>
        /\ dropping[a] \in registered
        /\ \A t \in Threads : tls[t] # dropping[a]
        /\ \A e \in Encoders : tracked[e] # dropping[a]
        /\ \A b \in Actors : b # a => dropping[b] # dropping[a]
        /\ stage[a] = "locked" => pool[dropping[a]] # None

\* The objects that are referred to exist, no two threads have the same, and
\* they have the pool from which the buffer was allocated.
Owning ==
    /\ \A t \in Threads : tls[t] \in registered \cup {None}
    /\ \A s, t \in Threads : tls[s] = tls[t] /\ tls[s] # None => s = t
    /\ \A e \in Encoders : tracked[e] \in registered \cup {None}
    /\ context \in {"alive", "dying"} =>
          \A e \in Encoders : tracked[e] # None => pool[tracked[e]] = home[e]

\* Where a pool can be.
InObject(p) == \E o \in Objects : pool[o] = p
InList(p) == \E i \in DOMAIN recycled : recycled[i] = p

\* Every pool that is somewhere was made.
Made ==
    /\ \A o \in Objects : pool[o] \in created \cup {None}
    /\ \A i \in DOMAIN recycled : recycled[i] \in created
    /\ reclaimables \subseteq created /\ collecting \subseteq created
    /\ resetting \in created \cup {None}

\* A pool is in no two places, nor twice in one.
Apart(p) ==
    /\ \A o, q \in Objects : pool[o] = p /\ pool[q] = p => o = q
    /\ \A i, j \in DOMAIN recycled : recycled[i] = p /\ recycled[j] = p => i = j
    /\ InObject(p) => /\ ~InList(p) /\ p \notin reclaimables
                      /\ p \notin collecting /\ p # resetting
    /\ InList(p) => /\ p \notin reclaimables /\ p \notin collecting
                    /\ p # resetting
    /\ p \in reclaimables => p \notin collecting /\ p # resetting
    /\ p \in collecting => p # resetting

\* The inductive invariant.
VulkanInv ==
    /\ TypeOK
    /\ Owned /\ Last /\ Told
    /\ Managing /\ Joins
    /\ \A e \in Encoders : Waiting(e) /\ Holding(e)
    /\ Ended
    /\ \A a \in Actors : Dropped(a)
    /\ Owning
    /\ Made /\ \A p \in Pools : Apart(p)

-----------------------------------------------------------------------------
(* Types *)

\* The steps of the encoding threads and the GPU.
EncodeStep ==
    \/ \E t \in Threads : EnterFrame(t) \/ Encode(t) \/ Complete(t)
    \/ \E e \in Encoders : Signal(e)

\* The steps of the threads that the context owns, and of its owner.
ServiceStep ==
    \/ Waiter \/ WaitFails \/ Manager
    \/ Shutdown \/ ShutdownManager \/ OwnerLetsGo \/ Destroy

\* The encoding threads are not the threads of the context or its owner.
LEMMA ActorTypes ==
    /\ \A t \in Threads : t \in Actors
    /\ "owner" \in Actors /\ "waiter" \in Actors /\ "manager" \in Actors
    /\ None \notin Actors /\ None \notin Pools /\ None \notin Objects
    /\ \A t \in Threads : t # "owner" /\ t # "waiter" /\ t # "manager"
  BY VulkanAssumption DEF Actors

\* The last reference makes the context die, on the thread that had it.
LEMMA LetGoTypes ==
    ASSUME TypeOK, NEW r, NEW a \in Actors, LetGo(r, a)
    PROVE  /\ context' \in {"alive", "dying", "recycler", "manager", "waiter", "dead"}
           /\ destroyer' \in Actors \cup {None}
  BY DEF LetGo, lifeVars, TypeOK

\* Giving up tracked objects begins at most one destructor.
LEMMA ReleaseForms ==
    ASSUME NEW a \in Actors, NEW e \in Encoders, NEW h, ReleaseTracked(a, e, h)
    PROVE  \/ UNCHANGED <<dropping, stage>>
           \/ /\ dropping' = [dropping EXCEPT ![a] = tracked[e]]
              /\ stage' = [stage EXCEPT ![a] = "entered"]
  BY DEF ReleaseTracked, ReleasePool

\* Giving up tracked objects keeps the types.
LEMMA ReleaseTypes ==
    ASSUME TypeOK, NEW a \in Actors, NEW e \in Encoders,
           NEW h \in {"encoder", "submit", "entry"}, ReleaseTracked(a, e, h)
    PROVE  /\ held' \in [Encoders -> SUBSET {"encoder", "submit", "entry"}]
           /\ tracked' \in [Encoders -> Objects \cup {None}]
           /\ dropping' \in [Actors -> Objects \cup {None}]
           /\ stage' \in [Actors -> {"none", "entered", "locked", "reclaimed"}]
<1>1. held' \in [Encoders -> SUBSET {"encoder", "submit", "entry"}]
  BY DEF ReleaseTracked, TypeOK
<1>2. tracked' \in [Encoders -> Objects \cup {None}]
  BY DEF ReleaseTracked, TypeOK
<1>3. \/ UNCHANGED <<dropping, stage>>
      \/ /\ dropping' = [dropping EXCEPT ![a] = tracked[e]]
         /\ stage' = [stage EXCEPT ![a] = "entered"]
  BY ReleaseForms
<1> QED
  BY <1>1, <1>2, <1>3 DEF TypeOK

\* The threads that encode.
LEMMA EncodeTypes ==
    ASSUME VulkanInv, EncodeStep
    PROVE  TypeOK'
<1> USE DEF poolVars, encoderVars, waiterVars, managerVars, lifeVars,
            contextVars, threadVars
<1>0. TypeOK
  BY DEF VulkanInv
<1>1. ASSUME NEW t \in Threads, EnterFrame(t)
      PROVE  TypeOK'
  <2>1. frame' \subseteq Threads
    BY <1>0, <1>1 DEF EnterFrame, TypeOK
  <2> QED
    BY <1>0, <1>1, <2>1 DEF EnterFrame, TypeOK
<1>2. ASSUME NEW t \in Threads, LeaveFrame(t)
      PROVE  TypeOK'
  <2>1. frame' \subseteq Threads
    BY <1>0, <1>2 DEF LeaveFrame, TypeOK
  <2>2. /\ context' \in {"alive", "dying", "recycler", "manager", "waiter", "dead"}
        /\ destroyer' \in Actors \cup {None}
    BY <1>0, <1>2, ActorTypes, LetGoTypes DEF LeaveFrame
  <2> QED
    BY <1>0, <1>2, <2>1, <2>2 DEF LeaveFrame, TypeOK
<1>3. ASSUME NEW t \in Threads, Dispose(t)
      PROVE  TypeOK'
  <2>1. tls' \in [Threads -> Objects \cup {None}]
    BY <1>0, <1>3 DEF Dispose, TypeOK
  <2>2. \/ UNCHANGED <<dropping, stage>>
        \/ /\ dropping' = [dropping EXCEPT ![t] = tls[t]]
           /\ stage' = [stage EXCEPT ![t] = "entered"]
    BY <1>3 DEF Dispose, ReleasePool
  <2>3. dropping' \in [Actors -> Objects \cup {None}]
    <3>1. tls[t] \in Objects \cup {None}
      BY <1>0 DEF TypeOK
    <3> QED
      BY <1>0, <2>2, <3>1 DEF TypeOK
  <2>4. stage' \in [Actors -> {"none", "entered", "locked", "reclaimed"}]
    BY <1>0, <2>2 DEF TypeOK
  <2> QED
    BY <1>0, <1>3, <2>1, <2>3, <2>4 DEF Dispose, TypeOK
<1>4. ASSUME NEW t \in Threads, NEW e \in Encoders, NEW o \in Objects,
             CreateEncoder(t, e, o)
      PROVE  TypeOK'
  <2>0. Get(t, o)
    BY <1>4 DEF CreateEncoder
  <2>1. /\ tls' \in [Threads -> Objects \cup {None}]
        /\ pool' \in [Objects -> Pools \cup {None}]
        /\ registered' \subseteq Objects
    BY <1>0, <2>0 DEF Get, TypeOK
  <2>2. created' \subseteq Pools /\ recycled' \in Seq(Pools)
    <3>1. CASE UNCHANGED poolVars
      BY <1>0, <3>1 DEF TypeOK
    <3>2. ASSUME NEW q \in Pools, CreatePool(q)
          PROVE  created' \subseteq Pools /\ recycled' \in Seq(Pools)
      <4>1. recycled # <<>> => SubSeq(recycled, 1, Len(recycled) - 1) \in Seq(Pools)
        BY <1>0 DEF TypeOK
      <4> QED
        BY <1>0, <3>2, <4>1 DEF CreatePool, Reuse, TypeOK
    <3> QED
      BY <2>0, <3>1, <3>2 DEF Get
  <2>3. /\ encoder' \in [Encoders -> {"none", "recording", "submitting", "added",
                                      "submitted", "gone"}]
        /\ tracked' \in [Encoders -> Objects \cup {None}]
        /\ held' \in [Encoders -> SUBSET {"encoder", "submit", "entry"}]
    <3>1. \/ UNCHANGED <<encoder, held, tracked>>
          \/ /\ encoder' = [encoder EXCEPT ![e] = "recording"]
             /\ held' = [held EXCEPT ![e] = {"encoder"}]
             /\ tracked' = [tracked EXCEPT ![e] = o]
      BY <1>4 DEF CreateEncoder
    <3>2. CASE UNCHANGED <<encoder, held, tracked>>
      BY <1>0, <3>2 DEF TypeOK
    <3>3. CASE /\ encoder' = [encoder EXCEPT ![e] = "recording"]
               /\ held' = [held EXCEPT ![e] = {"encoder"}]
               /\ tracked' = [tracked EXCEPT ![e] = o]
      <4>1. /\ encoder' \in [Encoders -> {"none", "recording", "submitting", "added",
                                          "submitted", "gone"}]
            /\ tracked' \in [Encoders -> Objects \cup {None}]
        BY <1>0, <3>3 DEF TypeOK
      <4>2. {"encoder"} \in SUBSET {"encoder", "submit", "entry"}
        OBVIOUS
      <4> QED
        BY <1>0, <3>3, <4>1, <4>2 DEF TypeOK
    <3> QED
      BY <3>1, <3>2, <3>3
  <2>4. home' \in [Encoders -> Pools \cup {None}]
    <3>1. pool'[o] \in Pools \cup {None}
      BY <2>1
    <3>2. home' = home \/ home' = [home EXCEPT ![e] = pool'[o]]
      BY <1>4 DEF CreateEncoder
    <3> QED
      BY <1>0, <3>1, <3>2 DEF TypeOK
  <2> QED
    BY <1>0, <1>4, <2>1, <2>2, <2>3, <2>4 DEF CreateEncoder, TypeOK
<1>5. ASSUME NEW t \in Threads, NEW e \in Encoders, SubmitFails(t, e)
      PROVE  TypeOK'
  <2>1. ReleaseTracked(t, e, "encoder") /\ t \in Actors
    BY <1>5, ActorTypes DEF SubmitFails
  <2>2. called' \in [Encoders -> 0..2]
    <3>1. called[e] = 0
      BY <1>5 DEF SubmitFails, VulkanInv, Waiting
    <3>2. called' = [called EXCEPT ![e] = called[e] + 1]
      BY <1>5 DEF SubmitFails
    <3> QED
      BY <1>0, <3>1, <3>2 DEF TypeOK
  <2>3. encoder' \in [Encoders -> {"none", "recording", "submitting", "added",
                                   "submitted", "gone"}]
    BY <1>0, <1>5 DEF SubmitFails, TypeOK
  <2> QED
    BY <1>0, <1>5, <2>1, <2>2, <2>3, ReleaseTypes DEF SubmitFails, TypeOK
<1>6. ASSUME NEW t \in Threads, NEW e \in Encoders, Submit(t, e) \/ AddFence(t, e)
      PROVE  TypeOK'
  <2>1. /\ encoder' \in [Encoders -> {"none", "recording", "submitting", "added",
                                      "submitted", "gone"}]
        /\ held' \in [Encoders -> SUBSET {"encoder", "submit", "entry"}]
    BY <1>0, <1>6 DEF Submit, AddFence, TypeOK
  <2>2. gpu' \subseteq Encoders /\ waitSet' \subseteq Encoders
    BY <1>0, <1>6 DEF Submit, AddFence, TypeOK
  <2>3. UNCHANGED <<tls, tracked, home, called, poolVars, snapshot, terminate,
                    waiter, failed, managerVars, contextVars, threadVars>>
    BY <1>6 DEF Submit, AddFence
  <2> QED
    BY <1>0, <2>1, <2>2, <2>3 DEF TypeOK
<1>7. ASSUME NEW t \in Threads, NEW e \in Encoders, SubmitReturns(t, e)
      PROVE  TypeOK'
  <2>1. ReleaseTracked(t, e, "submit") /\ t \in Actors
    BY <1>7, ActorTypes DEF SubmitReturns
  <2>2. encoder' \in [Encoders -> {"none", "recording", "submitting", "added",
                                   "submitted", "gone"}]
    BY <1>0, <1>7 DEF SubmitReturns, TypeOK
  <2> QED
    BY <1>0, <1>7, <2>1, <2>2, ReleaseTypes DEF SubmitReturns, TypeOK
<1>8. ASSUME NEW t \in Threads, NEW e \in Encoders, DropEncoder(t, e)
      PROVE  TypeOK'
  <2>1. /\ held' \in [Encoders -> SUBSET {"encoder", "submit", "entry"}]
        /\ tracked' \in [Encoders -> Objects \cup {None}]
        /\ dropping' \in [Actors -> Objects \cup {None}]
        /\ stage' \in [Actors -> {"none", "entered", "locked", "reclaimed"}]
    <3>1. CASE encoder[e] = "recording"
      BY <1>0, <1>8, <3>1, ActorTypes, ReleaseTypes DEF DropEncoder
    <3>2. CASE encoder[e] # "recording"
      BY <1>0, <1>8, <3>2 DEF DropEncoder, TypeOK
    <3> QED
      BY <3>1, <3>2
  <2>2. terminate' \in BOOLEAN /\ joining' \in [Actors -> {"waiter", "manager", None}]
    <3>1. \/ UNCHANGED <<terminate, joining>>
          \/ terminate' = TRUE /\ joining' = [joining EXCEPT ![t] = "waiter"]
      BY <1>8 DEF DropEncoder, ReleaseWaiter
    <3> QED
      BY <1>0, <3>1 DEF TypeOK
  <2>3. encoder' \in [Encoders -> {"none", "recording", "submitting", "added",
                                   "submitted", "gone"}]
    BY <1>0, <1>8 DEF DropEncoder, TypeOK
  <2> QED
    BY <1>0, <1>8, <2>1, <2>2, <2>3 DEF DropEncoder, TypeOK
<1>9. ASSUME NEW e \in Encoders, Signal(e)
      PROVE  TypeOK'
  <2>1. gpu' \subseteq Encoders
    BY <1>0, <1>9 DEF Signal, TypeOK
  <2> QED
    BY <1>0, <1>9, <2>1 DEF Signal, TypeOK
<1> QED
  BY <1>1, <1>2, <1>3, <1>4, <1>5, <1>6, <1>7, <1>8, <1>9
     DEF EncodeStep, Encode, Complete

\* The destructors.
LEMMA DestructTypes ==
    ASSUME VulkanInv, NEW a \in Actors, Destruct(a)
    PROVE  TypeOK'
<1> USE DEF poolVars, encoderVars, waiterVars, managerVars, lifeVars,
            contextVars, threadVars
<1>0. TypeOK
  BY DEF VulkanInv
<1>1. CASE LockContext(a)
  <2>1. pool' \in [Objects -> Pools \cup {None}]
    BY <1>0, <1>1 DEF LockContext, TypeOK
  <2>2. /\ dropping' \in [Actors -> Objects \cup {None}]
        /\ stage' \in [Actors -> {"none", "entered", "locked", "reclaimed"}]
    BY <1>0, <1>1 DEF LockContext, TypeOK
  <2> QED
    BY <1>0, <1>1, <2>1, <2>2 DEF LockContext, TypeOK
<1>2. CASE ReclaimPool(a)
  <2>1. pool[dropping[a]] \in Pools
    <3>1. dropping[a] \in Objects /\ pool[dropping[a]] # None
      BY <1>0, <1>2, ActorTypes DEF VulkanInv, Dropped, ReclaimPool, Destructs, TypeOK
    <3> QED
      BY <1>0, <3>1 DEF TypeOK
  <2>2. pool' \in [Objects -> Pools \cup {None}]
    BY <1>0, <1>2 DEF ReclaimPool, TypeOK
  <2>3. stage' \in [Actors -> {"none", "entered", "locked", "reclaimed"}]
    BY <1>0, <1>2 DEF ReclaimPool, TypeOK
  <2>4. /\ reclaimables' \subseteq Pools
        /\ users' \subseteq Actors
        /\ recycled' \in Seq(Pools)
    <3>1. Append(recycled, pool[dropping[a]]) \in Seq(Pools)
      BY <1>0, <2>1 DEF TypeOK
    <3> QED
      BY <1>0, <1>2, <2>1, <3>1 DEF ReclaimPool, TypeOK
  <2> QED
    BY <1>0, <1>2, <2>2, <2>3, <2>4 DEF ReclaimPool, TypeOK
<1>3. CASE UnlockManager(a)
  <2>1. users' \subseteq Actors
    BY <1>0, <1>3 DEF UnlockManager, TypeOK
  <2>2. /\ shouldExit' \in BOOLEAN
        /\ joining' \in [Actors -> {"waiter", "manager", None}]
    BY <1>0, <1>3 DEF UnlockManager, ReleaseManager, TypeOK
  <2> QED
    BY <1>0, <1>3, <2>1, <2>2 DEF UnlockManager, TypeOK
<1>4. CASE UnlockContext(a)
  <2>1. /\ dropping' \in [Actors -> Objects \cup {None}]
        /\ stage' \in [Actors -> {"none", "entered", "locked", "reclaimed"}]
    BY <1>0, <1>4 DEF UnlockContext, TypeOK
  <2>2. /\ context' \in {"alive", "dying", "recycler", "manager", "waiter", "dead"}
        /\ destroyer' \in Actors \cup {None}
    BY <1>0, <1>4, LetGoTypes DEF UnlockContext
  <2> QED
    BY <1>0, <1>4, <2>1, <2>2 DEF UnlockContext, TypeOK
<1>5. ASSUME NEW e \in Encoders, DestroyEntry(a, e)
      PROVE  TypeOK'
  <2>1. ReleaseTracked(a, e, "entry")
    BY <1>5 DEF DestroyEntry
  <2> QED
    BY <1>0, <1>5, <2>1, ReleaseTypes DEF DestroyEntry, TypeOK
<1>6. ASSUME NEW e \in Encoders, CallBack(a, e)
      PROVE  TypeOK'
  <2>1. called' \in [Encoders -> 0..2]
    <3>1. called[e] = 0
      BY <1>6 DEF CallBack, VulkanInv, Waiting
    <3>2. called' = [called EXCEPT ![e] = called[e] + 1]
      BY <1>6 DEF CallBack
    <3> QED
      BY <1>0, <3>1, <3>2 DEF TypeOK
  <2>2. erased' \in [Actors -> SUBSET Encoders]
    BY <1>0, <1>6 DEF CallBack, TypeOK
  <2> QED
    BY <1>0, <1>6, <2>1, <2>2 DEF CallBack, TypeOK
<1>7. CASE WaiterJoined(a)
  <2>1. /\ joining' \in [Actors -> {"waiter", "manager", None}]
        /\ erased' \in [Actors -> SUBSET Encoders]
        /\ waitSet' \subseteq Encoders
    BY <1>0, <1>7 DEF WaiterJoined, TypeOK
  <2> QED
    BY <1>0, <1>7, <2>1 DEF WaiterJoined, TypeOK
<1>8. CASE ManagerJoined(a)
  <2>1. joining' \in [Actors -> {"waiter", "manager", None}]
    BY <1>0, <1>8 DEF ManagerJoined, TypeOK
  <2> QED
    BY <1>0, <1>8, <2>1 DEF ManagerJoined, TypeOK
<1> QED
  BY <1>1, <1>2, <1>3, <1>4, <1>5, <1>6, <1>7, <1>8 DEF Destruct

\* The threads of the context, its owner and its destructor.
LEMMA ServiceTypes ==
    ASSUME VulkanInv, ServiceStep
    PROVE  TypeOK'
<1> USE DEF poolVars, encoderVars, waiterVars, managerVars, lifeVars,
            contextVars, threadVars
<1>0. TypeOK
  BY DEF VulkanInv
<1>1. CASE WaiterWakes
  <2>1. waiter' \in {"idle", "waiting", "exited"} /\ snapshot' \subseteq Encoders
    BY <1>0, <1>1 DEF WaiterWakes, TypeOK
  <2> QED
    BY <1>0, <1>1, <2>1 DEF WaiterWakes, TypeOK
<1>2. CASE WaitReturns
  <2>1. erased' \in [Actors -> SUBSET Encoders]
    BY <1>0, <1>2 DEF WaitReturns, TypeOK
  <2>2. waitSet' \subseteq Encoders /\ snapshot' \subseteq Encoders
    BY <1>0, <1>2 DEF WaitReturns, TypeOK
  <2> QED
    BY <1>0, <1>2, <2>1, <2>2 DEF WaitReturns, TypeOK
<1>3. CASE WaitFails
  BY <1>0, <1>3 DEF WaitFails, TypeOK
<1>4. CASE ManagerWakes
  <2>1. /\ manager' \in {"idle", "collecting", "leaving", "exited"}
        /\ collecting' \subseteq Pools /\ reclaimables' \subseteq Pools
    BY <1>0, <1>4 DEF ManagerWakes, TypeOK
  <2> QED
    BY <1>0, <1>4, <2>1 DEF ManagerWakes, TypeOK
<1>5. ASSUME NEW p \in Pools, ResetPool(p)
      PROVE  TypeOK'
  <2>1. collecting' \subseteq Pools /\ resetting' \in Pools \cup {None}
    BY <1>0, <1>5 DEF ResetPool, TypeOK
  <2> QED
    BY <1>0, <1>5, <2>1 DEF ResetPool, TypeOK
<1>6. CASE Recycle
  <2>1. recycled' \in Seq(Pools)
    BY <1>0, <1>6 DEF Recycle, TypeOK
  <2>2. /\ context' \in {"alive", "dying", "recycler", "manager", "waiter", "dead"}
        /\ destroyer' \in Actors \cup {None}
    BY <1>0, <1>6, ActorTypes, LetGoTypes DEF Recycle
  <2>3. resetting' \in Pools \cup {None}
    BY <1>6 DEF Recycle
  <2> QED
    BY <1>0, <1>6, <2>1, <2>2, <2>3 DEF Recycle, TypeOK
<1>7. CASE ManagerPasses
  BY <1>0, <1>7 DEF ManagerPasses, TypeOK
<1>8. CASE Shutdown
  <2>1. /\ members' \subseteq {"waiter", "manager"}
        /\ terminate' \in BOOLEAN
        /\ joining' \in [Actors -> {"waiter", "manager", None}]
    BY <1>0, <1>8 DEF Shutdown, DropWaiterMember, ReleaseWaiter, TypeOK
  <2> QED
    BY <1>0, <1>8, <2>1 DEF Shutdown, TypeOK
<1>9. CASE ShutdownManager
  <2>1. /\ members' \subseteq {"waiter", "manager"}
        /\ shouldExit' \in BOOLEAN
        /\ joining' \in [Actors -> {"waiter", "manager", None}]
    BY <1>0, <1>9 DEF ShutdownManager, DropManagerMember, ReleaseManager, TypeOK
  <2> QED
    BY <1>0, <1>9, <2>1 DEF ShutdownManager, TypeOK
<1>10. CASE OwnerLetsGo
  <2>1. /\ context' \in {"alive", "dying", "recycler", "manager", "waiter", "dead"}
        /\ destroyer' \in Actors \cup {None}
    BY <1>0, <1>10, ActorTypes, LetGoTypes DEF OwnerLetsGo
  <2> QED
    BY <1>0, <1>10, <2>1 DEF OwnerLetsGo, TypeOK
<1>11. CASE DestroyPools
  <2>1. pool' \in [Objects -> Pools \cup {None}]
    BY <1>0, <1>11 DEF DestroyPools, TypeOK
  <2>2. tls' \in [Threads -> Objects \cup {None}]
    BY <1>0, <1>11 DEF DestroyPools, TypeOK
  <2> QED
    BY <1>0, <1>11, <2>1, <2>2 DEF DestroyPools, TypeOK
<1>12. CASE DestroyManager
  <2>1. /\ members' \subseteq {"waiter", "manager"}
        /\ shouldExit' \in BOOLEAN
        /\ joining' \in [Actors -> {"waiter", "manager", None}]
    BY <1>0, <1>12 DEF DestroyManager, DropManagerMember, ReleaseManager, TypeOK
  <2>2. recycled' \in Seq(Pools)
    BY <1>12 DEF DestroyManager
  <2> QED
    BY <1>0, <1>12, <2>1, <2>2 DEF DestroyManager, TypeOK
<1>13. CASE DestroyWaiter
  <2>1. /\ members' \subseteq {"waiter", "manager"}
        /\ terminate' \in BOOLEAN
        /\ joining' \in [Actors -> {"waiter", "manager", None}]
    BY <1>0, <1>13 DEF DestroyWaiter, DropWaiterMember, ReleaseWaiter, TypeOK
  <2> QED
    BY <1>0, <1>13, <2>1 DEF DestroyWaiter, TypeOK
<1>14. CASE DestroyDevice
  BY <1>0, <1>14 DEF DestroyDevice, TypeOK
<1> QED
  BY <1>1, <1>2, <1>3, <1>4, <1>5, <1>6, <1>7, <1>8, <1>9, <1>10, <1>11, <1>12,
     <1>13, <1>14 DEF ServiceStep, Waiter, Manager, Destroy

\* Every step keeps the types.
LEMMA NextTypes ==
    ASSUME VulkanInv, Next
    PROVE  TypeOK'
<1>1. EncodeStep \/ ServiceStep \/ \E a \in Actors : Destruct(a)
  BY DEF Next, EncodeStep, ServiceStep
<1> QED
  BY <1>1, EncodeTypes, ServiceTypes, DestructTypes

-----------------------------------------------------------------------------
(* The life of the context *)

\* Shutdown resets both members, and then they stay so.
LEMMA OwnedStep ==
    ASSUME VulkanInv, Next
    PROVE  Owned'
<1> USE DEF poolVars, encoderVars, waiterVars, managerVars, lifeVars,
            contextVars, threadVars
<1>0. Owned /\ Last
  BY DEF VulkanInv
<1> DEFINE Same == /\ UNCHANGED <<members, shutdown>>
                   /\ context' = "alive" => context = "alive"
<1>1. EncodeStep => Same
  <2>1. \A t \in Threads : EnterFrame(t) \/ LeaveFrame(t) \/ Dispose(t) => Same
    BY DEF EnterFrame, LeaveFrame, LetGo, Dispose
  <2>2. \A t \in Threads, e \in Encoders, o \in Objects :
           CreateEncoder(t, e, o) => Same
    BY DEF CreateEncoder
  <2>3. \A t \in Threads, e \in Encoders :
           SubmitFails(t, e) \/ Submit(t, e) \/ AddFence(t, e) => Same
    BY DEF SubmitFails, Submit, AddFence
  <2>4. \A t \in Threads, e \in Encoders :
           SubmitReturns(t, e) \/ DropEncoder(t, e) => Same
    BY DEF SubmitReturns, DropEncoder
  <2>5. \A e \in Encoders : Signal(e) => Same
    BY DEF Signal
  <2> QED
    BY <2>1, <2>2, <2>3, <2>4, <2>5 DEF EncodeStep, Encode, Complete
<1>2. (\E a \in Actors : Destruct(a)) => Same
  <2>1. \A a \in Actors : LockContext(a) \/ ReclaimPool(a) \/ UnlockManager(a)
           \/ UnlockContext(a) => Same
    BY DEF LockContext, ReclaimPool, UnlockManager, UnlockContext, LetGo
  <2>2. /\ \A a \in Actors : WaiterJoined(a) \/ ManagerJoined(a) => Same
        /\ \A a \in Actors, e \in Encoders :
              DestroyEntry(a, e) \/ CallBack(a, e) => Same
    BY DEF DestroyEntry, CallBack, WaiterJoined, ManagerJoined
  <2> QED
    BY <2>1, <2>2 DEF Destruct
<1>3. Waiter \/ WaitFails \/ Manager \/ DestroyPools \/ DestroyDevice => Same
  <2>1. Waiter \/ WaitFails \/ DestroyPools \/ DestroyDevice => Same
    BY DEF Waiter, WaiterWakes, WaitReturns, WaitFails, DestroyPools,
           DestroyDevice
  <2>2. Manager => Same
    BY DEF Manager, ManagerWakes, ResetPool, Recycle, LetGo, ManagerPasses
  <2> QED
    BY <2>1, <2>2
<1>4. CASE Same
  BY <1>0, <1>4 DEF Owned
<1>5. CASE Shutdown
  BY <1>0, <1>5 DEF Owned, Shutdown, DropWaiterMember
<1>6. CASE ShutdownManager
  BY <1>0, <1>6 DEF Owned, ShutdownManager, DropManagerMember
<1>7. CASE OwnerLetsGo
  <2>1. /\ members' = members /\ (context' = "alive" => context = "alive")
        /\ shutdown \in {"no", "done"}
        /\ shutdown' = IF shutdown = "done" THEN "gone" ELSE "abandoned"
    BY <1>7 DEF OwnerLetsGo, LetGo
  <2> QED
    BY <1>0, <2>1 DEF Owned
<1>8. CASE DestroyManager \/ DestroyWaiter
  BY <1>0, <1>8 DEF Owned, Last, DestroyManager, DestroyWaiter,
                    DropManagerMember, DropWaiterMember
<1> QED
  BY <1>1, <1>2, <1>3, <1>4, <1>5, <1>6, <1>7, <1>8 DEF Next, EncodeStep, Destroy

\* The last reference is the only one.
LEMMA OnlyReference ==
    ASSUME NEW k, NEW x, References = {<<k, x>>}
    PROVE  /\ \A t \in frame : k = "frame" /\ t = x
           /\ \A a \in Actors :
                 stage[a] \in {"locked", "reclaimed"} => k = "drop" /\ a = x
           /\ resetting # None => k = "reset"
           /\ shutdown \notin {"gone", "abandoned"} => k = "owner"
<1>1. \A l, y : <<l, y>> \in References => l = k /\ y = x
  OBVIOUS
<1>2. \A t \in frame : <<"frame", t>> \in References
  BY DEF References
<1>3. \A a \in Actors : stage[a] \in {"locked", "reclaimed"} => <<"drop", a>> \in References
  BY DEF References
<1>4. /\ resetting # None => <<"reset", "manager">> \in References
      /\ shutdown \notin {"gone", "abandoned"}
           => <<"owner", "owner">> \in References
  BY DEF References
<1> QED
  BY <1>1, <1>2, <1>3, <1>4

\* Nobody makes a reference from nothing.
LEMMA LastStep ==
    ASSUME VulkanInv, Next
    PROVE  Last'
<1> USE DEF poolVars, encoderVars, waiterVars, managerVars, lifeVars,
            contextVars, threadVars
<1>0. Last /\ TypeOK
  BY DEF VulkanInv
<1>2. ASSUME NEW t \in Threads, EnterFrame(t)
      PROVE  Last'
  BY <1>0, <1>2 DEF Last, EnterFrame
<1>3. ASSUME NEW t \in Threads, LeaveFrame(t)
      PROVE  Last'
  <2>1. CASE References = {<<"frame", t>>}
    <3>1. /\ frame \subseteq {t} /\ resetting = None
          /\ shutdown \in {"gone", "abandoned"}
      BY <2>1, OnlyReference
    <3>2. \A a \in Actors : stage[a] \notin {"locked", "reclaimed"}
      BY <2>1, OnlyReference
    <3> QED
      BY <1>3, <3>1, <3>2 DEF Last, LeaveFrame
  <2>2. CASE References # {<<"frame", t>>}
    BY <1>0, <1>3, <2>2 DEF Last, LeaveFrame, LetGo
  <2> QED
    BY <2>1, <2>2
<1>4. ASSUME NEW t \in Threads, Dispose(t)
      PROVE  Last'
  BY <1>0, <1>4 DEF Last, Dispose
<1>5. ASSUME NEW t \in Threads, NEW e \in Encoders,
             SubmitFails(t, e) \/ SubmitReturns(t, e) \/ DropEncoder(t, e)
      PROVE  Last'
  BY <1>0, <1>5 DEF Last, SubmitFails, SubmitReturns, DropEncoder
<1>6. ASSUME NEW a \in Actors, LockContext(a)
      PROVE  Last'
  BY <1>0, <1>6 DEF Last, LockContext, TypeOK
<1>7. ASSUME NEW a \in Actors, ReclaimPool(a)
      PROVE  Last'
  BY <1>0, <1>7 DEF Last, ReclaimPool, Destructs
<1>8. ASSUME NEW a \in Actors, UnlockContext(a)
      PROVE  Last'
  <2>1. \A b \in Actors : stage'[b] = IF b = a THEN "none" ELSE stage[b]
    BY <1>0, <1>8 DEF UnlockContext, TypeOK
  <2>2. CASE References = {<<"drop", a>>}
    <3>1. /\ frame = {} /\ resetting = None
          /\ shutdown \in {"gone", "abandoned"}
      BY <2>2, OnlyReference
    <3>2. \A b \in Actors : b # a => stage[b] \notin {"locked", "reclaimed"}
      BY <2>2, OnlyReference
    <3> QED
      BY <1>8, <2>1, <3>1, <3>2 DEF Last, UnlockContext
  <2>3. CASE References # {<<"drop", a>>}
    BY <1>0, <1>8, <2>1, <2>3 DEF Last, UnlockContext, LetGo
  <2> QED
    BY <2>2, <2>3
<1>9. ASSUME NEW a \in Actors, NEW e \in Encoders, DestroyEntry(a, e)
      PROVE  Last'
  <2>1. \A b \in Actors : stage'[b] \in {stage[b], "entered"}
    BY <1>0, <1>9, ReleaseForms DEF DestroyEntry, TypeOK
  <2> QED
    BY <1>0, <1>9, <2>1 DEF Last, DestroyEntry
<1>10. ASSUME NEW p \in Pools, ResetPool(p)
       PROVE  Last'
  BY <1>0, <1>10 DEF Last, ResetPool
<1>11. CASE Recycle
  <2>1. CASE References = {<<"reset", "manager">>}
    <3>1. frame = {} /\ shutdown \in {"gone", "abandoned"}
      BY <2>1, OnlyReference
    <3>2. \A a \in Actors : stage[a] \notin {"locked", "reclaimed"}
      BY <2>1, OnlyReference
    <3> QED
      BY <1>11, <3>1, <3>2 DEF Last, Recycle
  <2>2. CASE References # {<<"reset", "manager">>}
    BY <1>0, <1>11, <2>2 DEF Last, Recycle, LetGo
  <2> QED
    BY <2>1, <2>2
<1>12. CASE OwnerLetsGo
  <2>1. CASE References = {<<"owner", "owner">>}
    <3>1. frame = {} /\ resetting = None
      BY <2>1, OnlyReference
    <3>2. \A a \in Actors : stage[a] \notin {"locked", "reclaimed"}
      BY <2>1, OnlyReference
    <3> QED
      BY <1>12, <3>1, <3>2 DEF Last, OwnerLetsGo
  <2>2. CASE References # {<<"owner", "owner">>}
    BY <1>0, <1>12, <2>2 DEF Last, OwnerLetsGo, LetGo
  <2> QED
    BY <2>1, <2>2
<1>13. CASE Shutdown \/ ShutdownManager \/ Destroy
  BY <1>0, <1>13 DEF Last, Shutdown, ShutdownManager, Destroy, DestroyPools,
                     DestroyManager, DestroyWaiter, DestroyDevice
<1>14. CASE UNCHANGED <<context, frame, resetting, shutdown, stage>>
  BY <1>0, <1>14 DEF Last
<1>15. /\ \A t \in Threads, e \in Encoders, o \in Objects :
             CreateEncoder(t, e, o)
               => UNCHANGED <<context, frame, resetting, shutdown, stage>>
       /\ \A t \in Threads, e \in Encoders : Submit(t, e) \/ AddFence(t, e)
               => UNCHANGED <<context, frame, resetting, shutdown, stage>>
       /\ \A e \in Encoders : Signal(e)
               => UNCHANGED <<context, frame, resetting, shutdown, stage>>
  BY DEF CreateEncoder, Submit, AddFence, Signal
<1>16. /\ \A a \in Actors : UnlockManager(a) \/ WaiterJoined(a) \/ ManagerJoined(a)
             => UNCHANGED <<context, frame, resetting, shutdown, stage>>
       /\ \A a \in Actors, e \in Encoders : CallBack(a, e)
             => UNCHANGED <<context, frame, resetting, shutdown, stage>>
  BY DEF UnlockManager, CallBack, WaiterJoined, ManagerJoined
<1>17. Waiter \/ WaitFails \/ ManagerWakes \/ ManagerPasses
          => UNCHANGED <<context, frame, resetting, shutdown, stage>>
  BY DEF Waiter, WaiterWakes, WaitReturns, WaitFails, ManagerWakes, ManagerPasses
<1> QED
  BY <1>2, <1>3, <1>4, <1>5, <1>6, <1>7, <1>8, <1>9, <1>10, <1>11, <1>12, <1>13,
     <1>14, <1>15, <1>16, <1>17
     DEF Next, Encode, Complete, Destruct, Manager

\* Who could still give work to a thread keeps it from being told to end.
LEMMA ToldStep ==
    ASSUME VulkanInv, Next
    PROVE  Told'
<1> USE DEF poolVars, encoderVars, waiterVars, managerVars, lifeVars,
            contextVars, threadVars
<1>0. Told /\ Owned /\ Last /\ TypeOK
  BY DEF VulkanInv
<1>1. ASSUME NEW t \in Threads, NEW e \in Encoders, NEW o \in Objects,
             CreateEncoder(t, e, o)
      PROVE  Told'
  <2>1. /\ UNCHANGED <<terminate, shouldExit, members, users>>
        /\ t \in frame /\ shutdown \in {"no", "abandoned"}
    BY <1>1 DEF CreateEncoder
  <2>2. ~terminate
    BY <1>0, <2>1 DEF Told, Owned, Last
  <2> QED
    BY <1>0, <2>1, <2>2 DEF Told
<1>2. ASSUME NEW t \in Threads, NEW e \in Encoders,
             \/ SubmitFails(t, e) \/ Submit(t, e) \/ AddFence(t, e)
             \/ SubmitReturns(t, e)
      PROVE  Told'
  <2>1. UNCHANGED <<terminate, shouldExit, members, users>>
    BY <1>2 DEF SubmitFails, Submit, AddFence, SubmitReturns
  <2>2. e \in Submitters
    BY <1>2 DEF Submitters, SubmitFails, Submit, AddFence, SubmitReturns
  <2> QED
    BY <1>0, <2>1, <2>2 DEF Told
<1>3. ASSUME NEW t \in Threads, NEW e \in Encoders, DropEncoder(t, e)
      PROVE  Told'
  <2>1. UNCHANGED <<shouldExit, users, members>>
    BY <1>3 DEF DropEncoder
  <2>2. e \in Submitters
    BY <1>3 DEF DropEncoder, Submitters
  <2>3. terminate' => Submitters \ {e} = {} /\ "waiter" \notin members
    BY <1>0, <1>3, <2>2 DEF DropEncoder, ReleaseWaiter, Told
  <2>4. Submitters' \subseteq Submitters \ {e}
    BY <1>0, <1>3 DEF DropEncoder, Submitters, TypeOK
  <2> QED
    BY <1>0, <2>1, <2>3, <2>4 DEF Told
<1>4. ASSUME NEW a \in Actors, ReclaimPool(a)
      PROVE  Told'
  <2>1. UNCHANGED <<terminate, shouldExit, members, encoder>>
    BY <1>4 DEF ReclaimPool
  <2>2. shouldExit => users' = users
    BY <1>0, <1>4 DEF ReclaimPool, Told
  <2> QED
    BY <1>0, <2>1, <2>2 DEF Told, Submitters
<1>5. ASSUME NEW a \in Actors, UnlockManager(a)
      PROVE  Told'
  <2>1. UNCHANGED <<terminate, members, encoder>>
    BY <1>5 DEF UnlockManager
  <2>2. shouldExit' => users' = {} /\ "manager" \notin members
    BY <1>0, <1>5 DEF UnlockManager, ReleaseManager, Told
  <2> QED
    BY <1>0, <2>1, <2>2 DEF Told, Submitters
<1>6. CASE Shutdown \/ DestroyWaiter
  <2>1. /\ UNCHANGED <<shouldExit, users, encoder>>
        /\ members' = members \ {"waiter"}
    BY <1>6 DEF Shutdown, DestroyWaiter, DropWaiterMember
  <2>2. terminate' => Submitters = {}
    BY <1>0, <1>6 DEF Shutdown, DestroyWaiter, DropWaiterMember, ReleaseWaiter,
                      Told
  <2> QED
    BY <1>0, <2>1, <2>2 DEF Told, Submitters
<1>7. CASE ShutdownManager \/ DestroyManager
  <2>1. /\ UNCHANGED <<terminate, users, encoder>>
        /\ members' = members \ {"manager"}
    BY <1>7 DEF ShutdownManager, DestroyManager, DropManagerMember
  <2>2. shouldExit' => users = {}
    BY <1>0, <1>7 DEF ShutdownManager, DestroyManager, DropManagerMember,
                      ReleaseManager, Told
  <2> QED
    BY <1>0, <2>1, <2>2 DEF Told, Submitters
<1>8. CASE OwnerLetsGo
  BY <1>0, <1>8 DEF OwnerLetsGo, Told, Submitters
<1>10. CASE UNCHANGED <<terminate, shouldExit, members, users, encoder>>
  BY <1>0, <1>10 DEF Told, Submitters
<1>11. /\ \A t \in Threads : EnterFrame(t) \/ LeaveFrame(t) \/ Dispose(t)
             => UNCHANGED <<terminate, shouldExit, members, users, encoder>>
       /\ \A e \in Encoders : Signal(e)
             => UNCHANGED <<terminate, shouldExit, members, users, encoder>>
  BY DEF EnterFrame, LeaveFrame, Dispose, Signal
<1>12. /\ \A a \in Actors :
             LockContext(a) \/ UnlockContext(a) \/ WaiterJoined(a) \/ ManagerJoined(a)
               => UNCHANGED <<terminate, shouldExit, members, users, encoder>>
       /\ \A a \in Actors, e \in Encoders : DestroyEntry(a, e) \/ CallBack(a, e)
               => UNCHANGED <<terminate, shouldExit, members, users, encoder>>
  BY DEF LockContext, UnlockContext, WaiterJoined, ManagerJoined, DestroyEntry, CallBack
<1>13. Waiter \/ WaitFails \/ Manager \/ DestroyPools \/ DestroyDevice
          => UNCHANGED <<terminate, shouldExit, members, users, encoder>>
  BY DEF Waiter, WaiterWakes, WaitReturns, WaitFails, Manager, ManagerWakes,
         ResetPool, Recycle, ManagerPasses, DestroyPools, DestroyDevice
<1> QED
  BY <1>1, <1>2, <1>3, <1>4, <1>5, <1>6, <1>7, <1>8, <1>10, <1>11, <1>12, <1>13
     DEF Next, Encode, Complete, Destruct, Destroy

\* A pool is given to the manager only while the context has its reference.
LEMMA ManagingStep ==
    ASSUME VulkanInv, Next
    PROVE  Managing'
<1> USE DEF poolVars, encoderVars, waiterVars, managerVars, lifeVars,
            contextVars, threadVars
<1>0. Managing /\ Told /\ TypeOK
  BY DEF VulkanInv
<1>1. ASSUME NEW a \in Actors, ReclaimPool(a)
      PROVE  Managing'
  <2>1. shouldExit => "manager" \notin members
    BY <1>0 DEF Told
  <2> QED
    BY <1>0, <1>1, <2>1 DEF Managing, ReclaimPool
<1>2. ASSUME shouldExit => shouldExit',
             UNCHANGED <<manager, reclaimables, collecting>>
      PROVE  Managing'
  BY <1>0, <1>2 DEF Managing
<1>3. ASSUME NEW a \in Actors, UnlockManager(a)
      PROVE  Managing'
  BY <1>2, <1>3 DEF UnlockManager, ReleaseManager
<1>4. CASE ShutdownManager \/ DestroyManager
  BY <1>2, <1>4 DEF ShutdownManager, DestroyManager, DropManagerMember, ReleaseManager
<1>5. CASE ManagerWakes
  BY <1>0, <1>5 DEF Managing, ManagerWakes
<1>6. ASSUME NEW p \in Pools, ResetPool(p)
      PROVE  Managing'
  BY <1>0, <1>6 DEF Managing, ResetPool
<1>7. CASE ManagerPasses
  BY <1>0, <1>7 DEF Managing, ManagerPasses
<1>8. EncodeStep => UNCHANGED <<shouldExit, manager, reclaimables, collecting>>
  <2>1. /\ \A t \in Threads : EnterFrame(t) \/ LeaveFrame(t) \/ Dispose(t)
             => UNCHANGED <<shouldExit, manager, reclaimables, collecting>>
        /\ \A e \in Encoders : Signal(e)
             => UNCHANGED <<shouldExit, manager, reclaimables, collecting>>
    BY DEF EnterFrame, LeaveFrame, Dispose, Signal
  <2>2. \A t \in Threads, e \in Encoders, o \in Objects : CreateEncoder(t, e, o)
             => UNCHANGED <<shouldExit, manager, reclaimables, collecting>>
    BY DEF CreateEncoder
  <2>3. \A t \in Threads, e \in Encoders :
           SubmitFails(t, e) \/ Submit(t, e) \/ AddFence(t, e)
             => UNCHANGED <<shouldExit, manager, reclaimables, collecting>>
    BY DEF SubmitFails, Submit, AddFence
  <2>4. \A t \in Threads, e \in Encoders : SubmitReturns(t, e) \/ DropEncoder(t, e)
             => UNCHANGED <<shouldExit, manager, reclaimables, collecting>>
    BY DEF SubmitReturns, DropEncoder
  <2> QED
    BY <2>1, <2>2, <2>3, <2>4 DEF EncodeStep, Encode, Complete
<1>9. /\ \A a \in Actors :
            LockContext(a) \/ UnlockContext(a) \/ WaiterJoined(a) \/ ManagerJoined(a)
              => UNCHANGED <<shouldExit, manager, reclaimables, collecting>>
      /\ \A a \in Actors, e \in Encoders : DestroyEntry(a, e) \/ CallBack(a, e)
              => UNCHANGED <<shouldExit, manager, reclaimables, collecting>>
  BY DEF LockContext, UnlockContext, WaiterJoined, ManagerJoined, DestroyEntry, CallBack
<1>10. Waiter \/ WaitFails \/ Recycle \/ Shutdown \/ OwnerLetsGo
          => UNCHANGED <<shouldExit, manager, reclaimables, collecting>>
  BY DEF Waiter, WaiterWakes, WaitReturns, WaitFails, Recycle, Shutdown, OwnerLetsGo
<1>11. DestroyPools \/ DestroyWaiter \/ DestroyDevice
          => UNCHANGED <<shouldExit, manager, reclaimables, collecting>>
  BY DEF DestroyPools, DestroyWaiter, DestroyDevice
<1>12. CASE UNCHANGED <<shouldExit, manager, reclaimables, collecting>>
  BY <1>2, <1>12
<1> QED
  BY <1>1, <1>3, <1>4, <1>5, <1>6, <1>7, <1>8, <1>9, <1>10, <1>11, <1>12
     DEF Next, EncodeStep, Destruct, Manager, Destroy

\* A context that is abandoned remains so.
LEMMA AbandonedStays ==
    ASSUME Next, shutdown = "abandoned"
    PROVE  shutdown' = "abandoned"
<1> USE DEF poolVars, encoderVars, waiterVars, managerVars, lifeVars,
            contextVars, threadVars
<1>1. EncodeStep => shutdown' = shutdown
  <2>1. /\ \A t \in Threads : EnterFrame(t) \/ LeaveFrame(t) \/ Dispose(t)
             => shutdown' = shutdown
        /\ \A e \in Encoders : Signal(e) => shutdown' = shutdown
    BY DEF EnterFrame, LeaveFrame, Dispose, Signal
  <2>2. \A t \in Threads, e \in Encoders, o \in Objects : CreateEncoder(t, e, o)
             => shutdown' = shutdown
    BY DEF CreateEncoder
  <2>3. \A t \in Threads, e \in Encoders :
           SubmitFails(t, e) \/ Submit(t, e) \/ AddFence(t, e)
             => shutdown' = shutdown
    BY DEF SubmitFails, Submit, AddFence
  <2>4. \A t \in Threads, e \in Encoders : SubmitReturns(t, e) \/ DropEncoder(t, e)
             => shutdown' = shutdown
    BY DEF SubmitReturns, DropEncoder
  <2> QED
    BY <2>1, <2>2, <2>3, <2>4 DEF EncodeStep, Encode, Complete
<1>2. (\E a \in Actors : Destruct(a)) => shutdown' = shutdown
  BY DEF Destruct, LockContext, ReclaimPool, UnlockManager, UnlockContext,
         DestroyEntry, CallBack, WaiterJoined, ManagerJoined
<1>3. Waiter \/ WaitFails \/ Manager \/ Destroy => shutdown' = shutdown
  BY DEF Waiter, Manager, WaiterWakes, WaitReturns, WaitFails, ManagerWakes,
         ResetPool, Recycle, ManagerPasses, Destroy, DestroyPools,
         DestroyManager, DestroyWaiter, DestroyDevice
<1>4. ~Shutdown /\ ~ShutdownManager /\ ~OwnerLetsGo
  BY DEF Shutdown, ShutdownManager, OwnerLetsGo
<1> QED
  BY <1>1, <1>2, <1>3, <1>4 DEF Next, EncodeStep

\* The owner, an encoding thread or the waiter's thread may destroy the
\* manager, and the owner or an encoding thread the waiter.
LEMMA JoinsStep ==
    ASSUME VulkanInv, Next
    PROVE  Joins'
<1> USE DEF poolVars, encoderVars, waiterVars, managerVars, lifeVars,
            contextVars, threadVars
<1> SUFFICES ASSUME shutdown' # "abandoned"
             PROVE  Joins'
  BY DEF Joins
<1>00. shutdown # "abandoned"
  BY AbandonedStays
<1>0. Joins /\ Last /\ Owned /\ TypeOK
  BY DEF VulkanInv
<1>000. /\ dropping["manager"] = None /\ erased["manager"] = {}
        /\ joining["manager"] = None /\ joining["waiter"] # "waiter"
  BY <1>00, <1>0 DEF Joins
<1>1. ASSUME NEW a \in Actors, a # "manager",
             \A b \in Actors : b # a => /\ dropping'[b] = dropping[b]
                                        /\ erased'[b] = erased[b]
                                        /\ joining'[b] = joining[b],
             a = "waiter" => joining'[a] # "waiter"
      PROVE  Joins'
  BY <1>000, <1>0, <1>1, ActorTypes DEF Joins
<1>2. ASSUME NEW t \in Threads, Dispose(t)
      PROVE  Joins'
  <2>1. \A b \in Actors : b # t => dropping'[b] = dropping[b]
    BY <1>000, <1>0, <1>2, ActorTypes DEF Dispose, ReleasePool, TypeOK
  <2>2. t # "waiter" /\ t # "manager" /\ t \in Actors
    BY ActorTypes
  <2> QED
    BY <1>1, <1>2, <2>1, <2>2 DEF Dispose
<1>3. ASSUME NEW t \in Threads, NEW e \in Encoders,
             SubmitFails(t, e) \/ SubmitReturns(t, e)
      PROVE  Joins'
  <2>1. \A b \in Actors : b # t => dropping'[b] = dropping[b]
    BY <1>000, <1>0, <1>3, ActorTypes, ReleaseForms DEF SubmitFails, SubmitReturns, TypeOK
  <2>2. t # "waiter" /\ t # "manager" /\ t \in Actors
    BY ActorTypes
  <2>3. UNCHANGED <<erased, joining>>
    BY <1>3 DEF SubmitFails, SubmitReturns
  <2> QED
    BY <1>1, <2>1, <2>2, <2>3
<1>4. ASSUME NEW t \in Threads, NEW e \in Encoders, DropEncoder(t, e)
      PROVE  Joins'
  <2>1. \A b \in Actors : b # t => dropping'[b] = dropping[b]
    BY <1>000, <1>0, <1>4, ActorTypes, ReleaseForms DEF DropEncoder, TypeOK
  <2>2. t # "waiter" /\ t # "manager" /\ t \in Actors
    BY ActorTypes
  <2>3. erased' = erased /\ \A b \in Actors : b # t => joining'[b] = joining[b]
    BY <1>000, <1>0, <1>4 DEF DropEncoder, ReleaseWaiter, TypeOK
  <2> QED
    BY <1>1, <2>1, <2>2, <2>3
<1>5. ASSUME NEW a \in Actors, LockContext(a) \/ UnlockContext(a)
      PROVE  Joins'
  <2>1. a # "manager"
    BY <1>000, <1>0, <1>5 DEF Joins, LockContext, UnlockContext, Destructs
  <2>2. \A b \in Actors : b # a => dropping'[b] = dropping[b]
    BY <1>000, <1>0, <1>5 DEF LockContext, UnlockContext, TypeOK
  <2>3. UNCHANGED <<erased, joining>>
    BY <1>5 DEF LockContext, UnlockContext
  <2> QED
    BY <1>000, <1>0, <1>1, <2>1, <2>2, <2>3 DEF Joins
<1>6. ASSUME NEW a \in Actors, UnlockManager(a)
      PROVE  Joins'
  <2>1. a # "manager"
    BY <1>000, <1>0, <1>6 DEF Joins, UnlockManager, Destructs
  <2>2. UNCHANGED <<dropping, erased>>
    BY <1>6 DEF UnlockManager
  <2>3. \A b \in Actors : b # a => joining'[b] = joining[b]
    BY <1>000, <1>0, <1>6 DEF UnlockManager, ReleaseManager, TypeOK
  <2>4. joining'[a] \in {joining[a], "manager"}
    BY <1>000, <1>0, <1>6 DEF UnlockManager, ReleaseManager, TypeOK
  <2> QED
    BY <1>000, <1>0, <1>1, <2>1, <2>2, <2>3, <2>4 DEF Joins
<1>7. ASSUME NEW a \in Actors, NEW e \in Encoders, DestroyEntry(a, e) \/ CallBack(a, e)
      PROVE  Joins'
  <2>1. a # "manager"
    BY <1>000, <1>0, <1>7 DEF Joins, DestroyEntry, CallBack
  <2>2. joining' = joining
    BY <1>7 DEF DestroyEntry, CallBack
  <2>3. \A b \in Actors : b # a => erased'[b] = erased[b]
    BY <1>000, <1>0, <1>7 DEF DestroyEntry, CallBack, TypeOK
  <2>4. \A b \in Actors : b # a => dropping'[b] = dropping[b]
    BY <1>000, <1>0, <1>7, ReleaseForms DEF DestroyEntry, CallBack, TypeOK
  <2> QED
    BY <1>000, <1>0, <1>1, <2>1, <2>2, <2>3, <2>4 DEF Joins
<1>8. ASSUME NEW a \in Actors, WaiterJoined(a) \/ ManagerJoined(a)
      PROVE  Joins'
  <2>1. a # "manager"
    BY <1>000, <1>0, <1>8, ActorTypes DEF Joins, WaiterJoined, ManagerJoined
  <2>2. dropping' = dropping
    BY <1>8 DEF WaiterJoined, ManagerJoined
  <2>3. joining' = [joining EXCEPT ![a] = None]
    BY <1>8 DEF WaiterJoined, ManagerJoined
  <2>4. \A b \in Actors : b # a => erased'[b] = erased[b]
    BY <1>000, <1>0, <1>8 DEF WaiterJoined, ManagerJoined, TypeOK
  <2>5. "waiter" # None
    BY ActorTypes
  <2> QED
    BY <1>000, <1>0, <1>1, <2>1, <2>2, <2>3, <2>4, <2>5 DEF TypeOK
<1>9. CASE WaitReturns
  <2>1. \A b \in Actors : b # "waiter" => erased'[b] = erased[b]
    BY <1>000, <1>0, <1>9 DEF WaitReturns, TypeOK
  <2>2. UNCHANGED <<dropping, joining>>
    BY <1>9 DEF WaitReturns
  <2> QED
    BY <1>000, <1>0, <1>1, <2>1, <2>2, ActorTypes DEF Joins
<1>10. CASE Shutdown \/ ShutdownManager
  <2>1. UNCHANGED <<dropping, erased>>
    BY <1>10 DEF Shutdown, ShutdownManager
  <2>2. \A b \in Actors : b # "owner" => joining'[b] = joining[b]
    BY <1>000, <1>0, <1>10 DEF Shutdown, ShutdownManager, DropWaiterMember, DropManagerMember,
                       ReleaseWaiter, ReleaseManager, TypeOK
  <2> QED
    BY <1>000, <1>0, <1>1, <2>1, <2>2, ActorTypes DEF Joins
<1>11. CASE DestroyManager \/ DestroyWaiter
  <2>1. members = {}
    BY <1>00, <1>0, <1>11 DEF DestroyManager, DestroyWaiter, Last, Owned, TypeOK
  <2>2. UNCHANGED <<dropping, erased, joining>>
    BY <1>11, <2>1 DEF DestroyManager, DestroyWaiter, DropManagerMember, DropWaiterMember
  <2> QED
    BY <1>000, <1>0, <2>2 DEF Joins
<1>12. CASE UNCHANGED <<dropping, erased, joining>>
  BY <1>000, <1>0, <1>12 DEF Joins
<1>13. /\ \A t \in Threads : EnterFrame(t) \/ LeaveFrame(t)
             => UNCHANGED <<dropping, erased, joining>>
       /\ \A e \in Encoders : Signal(e) => UNCHANGED <<dropping, erased, joining>>
       /\ \A t \in Threads, e \in Encoders, o \in Objects : CreateEncoder(t, e, o)
             => UNCHANGED <<dropping, erased, joining>>
       /\ \A t \in Threads, e \in Encoders : Submit(t, e) \/ AddFence(t, e)
             => UNCHANGED <<dropping, erased, joining>>
  BY DEF EnterFrame, LeaveFrame, Signal, CreateEncoder, Submit, AddFence
<1>14. \A a \in Actors : ReclaimPool(a) => UNCHANGED <<dropping, erased, joining>>
  BY DEF ReclaimPool
<1>15. WaiterWakes \/ WaitFails \/ Manager => UNCHANGED <<dropping, erased, joining>>
  BY DEF WaiterWakes, WaitFails, Manager, ManagerWakes, ResetPool, Recycle, ManagerPasses
<1>16. OwnerLetsGo \/ DestroyPools \/ DestroyDevice
          => UNCHANGED <<dropping, erased, joining>>
  BY DEF OwnerLetsGo, DestroyPools, DestroyDevice
<1> QED
  BY <1>2, <1>3, <1>4, <1>5, <1>6, <1>7, <1>8, <1>9, <1>10, <1>11, <1>12, <1>13,
     <1>14, <1>15, <1>16
     DEF Next, Encode, Complete, Destruct, Waiter, Destroy

-----------------------------------------------------------------------------
(* The wait set *)

\* An encoder that has yet to add its fence finds a waiter that takes it.
LEMMA FenceIsAdded ==
    ASSUME VulkanInv, NEW t \in Threads, NEW e \in Encoders, AddFence(t, e)
    PROVE  /\ waitSet' = waitSet \cup {e}
           /\ held' = [held EXCEPT ![e] = held[e] \cup {"entry"}]
           /\ encoder' = [encoder EXCEPT ![e] = "added"]
           /\ ~terminate
<1>1. e \in Submitters
  BY DEF AddFence, Submitters
<1>2. ~terminate
  BY <1>1 DEF VulkanInv, Told
<1> QED
  BY <1>2 DEF AddFence

\* The entries that the end of the waiter's thread leaves are not pending,
\* unless it gave up.
LEMMA NothingPending ==
    ASSUME VulkanInv, NEW a \in Actors, WaiterJoined(a), NEW e \in waitSet
    PROVE  e \notin gpu \/ GivenUp
  BY DEF VulkanInv, Ended, WaiterJoined, GivenUp

\* Nobody takes back what ends a waiter.
LEMMA GivenUpStays ==
    ASSUME Next
    PROVE  /\ terminate => terminate'
           /\ GivenUp => GivenUp'
<1> USE DEF poolVars, encoderVars, waiterVars, managerVars, lifeVars,
            contextVars, threadVars
<1> DEFINE Stay == (terminate => terminate') /\ (failed => failed')
<1>1. EncodeStep => Stay
  <2>1. /\ \A t \in Threads : EnterFrame(t) \/ LeaveFrame(t) \/ Dispose(t) => Stay
        /\ \A e \in Encoders : Signal(e) => Stay
    BY DEF EnterFrame, LeaveFrame, Dispose, Signal
  <2>2. \A t \in Threads, e \in Encoders, o \in Objects :
           CreateEncoder(t, e, o) => Stay
    BY DEF CreateEncoder
  <2>3. \A t \in Threads, e \in Encoders :
           SubmitFails(t, e) \/ Submit(t, e) \/ AddFence(t, e) => Stay
    BY DEF SubmitFails, Submit, AddFence
  <2>4. \A t \in Threads, e \in Encoders :
           SubmitReturns(t, e) \/ DropEncoder(t, e) => Stay
    BY DEF SubmitReturns, DropEncoder, ReleaseWaiter
  <2> QED
    BY <2>1, <2>2, <2>3, <2>4 DEF EncodeStep, Encode, Complete
<1>2. (\E a \in Actors : Destruct(a)) => Stay
  BY DEF Destruct, LockContext, ReclaimPool, UnlockManager, UnlockContext,
         DestroyEntry, CallBack, WaiterJoined, ManagerJoined
<1>3. Waiter \/ WaitFails \/ Manager => Stay
  BY DEF Waiter, Manager, WaiterWakes, WaitReturns, WaitFails, ManagerWakes,
         ResetPool, Recycle, ManagerPasses
<1>4. Shutdown \/ ShutdownManager \/ OwnerLetsGo => Stay
  BY DEF Shutdown, ShutdownManager, OwnerLetsGo, DropWaiterMember, ReleaseWaiter
<1>5. Destroy => Stay
  BY DEF Destroy, DestroyPools, DestroyManager, DestroyWaiter, DestroyDevice,
         DropWaiterMember, ReleaseWaiter
<1>6. Stay
  BY <1>1, <1>2, <1>3, <1>4, <1>5 DEF Next, EncodeStep
<1> QED
  BY <1>6 DEF GivenUp

\* A callback is in one place.
LEMMA WaitingStep ==
    ASSUME VulkanInv, Next, NEW d \in Encoders
    PROVE  Waiting(d)'
<1> USE DEF poolVars, encoderVars, waiterVars, managerVars, lifeVars,
            contextVars, threadVars
<1>0. /\ Waiting(d) /\ Ended /\ TypeOK /\ called[d] \in 0..2
      /\ GivenUp => GivenUp'
  BY GivenUpStays DEF VulkanInv, TypeOK
<1>1. ASSUME NEW t \in Threads, NEW e \in Encoders, NEW o \in Objects,
             CreateEncoder(t, e, o)
      PROVE  Waiting(d)'
  <2>1. UNCHANGED <<called, waitSet, erased, gpu>>
    BY <1>1 DEF CreateEncoder
  <2>2. encoder'[d] = encoder[d] \/ (encoder[d] = "none" /\ encoder'[d] = "recording")
    BY <1>0, <1>1 DEF CreateEncoder, TypeOK
  <2> QED
    BY <1>0, <2>1, <2>2 DEF Waiting
<1>2. ASSUME NEW t \in Threads, NEW e \in Encoders, SubmitFails(t, e)
      PROVE  Waiting(d)'
  <2>1. UNCHANGED <<waitSet, erased, gpu>>
    BY <1>2 DEF SubmitFails
  <2>2. /\ d # e => encoder'[d] = encoder[d] /\ called'[d] = called[d]
        /\ d = e => /\ encoder[d] = "recording" /\ encoder'[d] = "submitted"
                    /\ called'[d] = called[d] + 1
    BY <1>0, <1>2 DEF SubmitFails, TypeOK
  <2> QED
    BY <1>0, <2>1, <2>2 DEF Waiting
<1>3. ASSUME NEW t \in Threads, NEW e \in Encoders, Submit(t, e)
      PROVE  Waiting(d)'
  <2>1. UNCHANGED <<called, waitSet, erased>> /\ gpu' = gpu \cup {e}
    BY <1>3 DEF Submit
  <2>2. /\ d # e => encoder'[d] = encoder[d]
        /\ d = e => encoder[d] = "recording" /\ encoder'[d] = "submitting"
    BY <1>0, <1>3 DEF Submit, TypeOK
  <2> QED
    BY <1>0, <2>1, <2>2 DEF Waiting
<1>4. ASSUME NEW t \in Threads, NEW e \in Encoders, AddFence(t, e)
      PROVE  Waiting(d)'
  <2>1. UNCHANGED <<called, erased, gpu>> /\ waitSet' = waitSet \cup {e}
    BY <1>4, FenceIsAdded DEF AddFence
  <2>2. /\ d # e => encoder'[d] = encoder[d]
        /\ d = e => encoder[d] = "submitting" /\ encoder'[d] = "added"
    BY <1>0, <1>4 DEF AddFence, TypeOK
  <2> QED
    BY <1>0, <2>1, <2>2 DEF Waiting
<1>5. ASSUME NEW t \in Threads, NEW e \in Encoders,
             SubmitReturns(t, e) \/ DropEncoder(t, e)
      PROVE  Waiting(d)'
  <2>1. UNCHANGED <<called, waitSet, erased, gpu>>
    BY <1>5 DEF SubmitReturns, DropEncoder
  <2>2. /\ d # e => encoder'[d] = encoder[d]
        /\ d = e => /\ encoder[d] # "submitting"
                    /\ encoder'[d] \in {"submitted", "gone"}
    BY <1>0, <1>5 DEF SubmitReturns, DropEncoder, TypeOK
  <2> QED
    BY <1>0, <2>1, <2>2 DEF Waiting
<1>6. ASSUME NEW e \in Encoders, Signal(e)
      PROVE  Waiting(d)'
  BY <1>0, <1>6 DEF Waiting, Signal
<1>7. ASSUME NEW a \in Actors, NEW e \in Encoders, CallBack(a, e)
      PROVE  Waiting(d)'
  <2>1. UNCHANGED <<encoder, waitSet, gpu>>
    BY <1>7 DEF CallBack
  <2>2. \A b \in Actors : erased'[b] = IF b = a THEN erased[b] \ {e} ELSE erased[b]
    BY <1>0, <1>7 DEF CallBack, TypeOK
  <2>3. CASE d = e
    <3>1. d \in erased[a] /\ called'[d] = called[d] + 1
      BY <1>0, <1>7, <2>3 DEF CallBack, TypeOK
    <3>2. called[d] = 0 /\ d \notin waitSet
      BY <1>0, <3>1 DEF Waiting
    <3>3. encoder[d] \notin {"none", "recording", "submitting"}
      BY <1>0, <3>1 DEF Waiting
    <3>4. \A b \in Actors : d \notin erased'[b]
      BY <1>0, <2>2, <2>3, <3>1 DEF Waiting
    <3> QED
      BY <1>0, <2>1, <3>1, <3>2, <3>3, <3>4 DEF Waiting
  <2>4. CASE d # e
    <3>1. called'[d] = called[d]
      BY <1>0, <1>7, <2>4 DEF CallBack, TypeOK
    <3> QED
      BY <1>0, <2>1, <2>2, <2>4, <3>1 DEF Waiting
  <2> QED
    BY <2>3, <2>4
<1>8. CASE WaitReturns
  <2>1. UNCHANGED <<encoder, called, gpu>>
    BY <1>8 DEF WaitReturns
  <2>2. waitSet' = waitSet \ (snapshot \ gpu) /\ snapshot \subseteq waitSet
    BY <1>0, <1>8 DEF WaitReturns, Ended
  <2>3. \A b \in Actors :
           erased'[b] = IF b = "waiter" THEN snapshot \ gpu ELSE erased[b]
    BY <1>0, <1>8 DEF WaitReturns, TypeOK
  <2> QED
    BY <1>0, <2>1, <2>2, <2>3 DEF Waiting
<1>9. CASE WaitFails
  BY <1>0, <1>9 DEF Waiting, WaitFails
<1>10. ASSUME NEW a \in Actors, WaiterJoined(a)
       PROVE  Waiting(d)'
  <2>1. UNCHANGED <<encoder, called, gpu>> /\ waitSet' = {}
    BY <1>10 DEF WaiterJoined
  <2>2. \A b \in Actors : erased'[b] = IF b = a THEN waitSet ELSE erased[b]
    BY <1>0, <1>10 DEF WaiterJoined, TypeOK
  <2>3. d \in waitSet => d \notin gpu \/ GivenUp
    BY <1>10, NothingPending
  <2> QED
    BY <1>0, <2>1, <2>2, <2>3 DEF Waiting
<1>11. CASE UNCHANGED <<encoder, called, waitSet, erased, gpu>>
  BY <1>0, <1>11 DEF Waiting
<1>12. \A t \in Threads : EnterFrame(t) \/ LeaveFrame(t) \/ Dispose(t)
          => UNCHANGED <<encoder, called, waitSet, erased, gpu>>
  BY DEF EnterFrame, LeaveFrame, Dispose
<1>13. /\ \A a \in Actors : \/ LockContext(a) \/ ReclaimPool(a) \/ UnlockManager(a)
                            \/ UnlockContext(a) \/ ManagerJoined(a)
             => UNCHANGED <<encoder, called, waitSet, erased, gpu>>
       /\ \A a \in Actors, e \in Encoders : DestroyEntry(a, e)
             => UNCHANGED <<encoder, called, waitSet, erased, gpu>>
  BY DEF LockContext, ReclaimPool, UnlockManager, UnlockContext, ManagerJoined,
         DestroyEntry
<1>14. WaiterWakes \/ Manager => UNCHANGED <<encoder, called, waitSet, erased, gpu>>
  BY DEF WaiterWakes, Manager, ManagerWakes, ResetPool, Recycle, ManagerPasses
<1>15. Shutdown \/ ShutdownManager \/ OwnerLetsGo \/ Destroy
          => UNCHANGED <<encoder, called, waitSet, erased, gpu>>
  BY DEF Shutdown, ShutdownManager, OwnerLetsGo, Destroy, DestroyPools,
         DestroyManager, DestroyWaiter, DestroyDevice
<1> QED
  BY <1>1, <1>2, <1>3, <1>4, <1>5, <1>6, <1>7, <1>8, <1>9, <1>10, <1>11, <1>12,
     <1>13, <1>14, <1>15
     DEF Next, Encode, Complete, Destruct, Waiter

\* The context is alive whenever a reference to it is given up.
LEMMA LetGoAlive ==
    ASSUME VulkanInv, NEW r, NEW a, LetGo(r, a),
           \/ frame # {} \/ resetting # None
           \/ shutdown \notin {"gone", "abandoned"}
           \/ \E b \in Actors : stage[b] = "reclaimed"
    PROVE  context = "alive" /\ context' \in {"alive", "dying"}
<1>1. context = "alive"
  BY DEF VulkanInv, Last
<1> QED
  BY <1>1 DEF LetGo, lifeVars

\* The waiter is joined after it was told to end.
LEMMA JoinsTold ==
    ASSUME VulkanInv, Next
    PROVE  \A b \in Actors : joining'[b] = "waiter" => terminate'
<1> USE DEF poolVars, encoderVars, waiterVars, managerVars, lifeVars,
            contextVars, threadVars
<1>0. /\ \A b \in Actors : joining[b] = "waiter" => terminate
      /\ terminate => terminate'
      /\ joining \in [Actors -> {"waiter", "manager", None}]
      /\ "manager" # "waiter" /\ "waiter" # None
  BY GivenUpStays, ActorTypes DEF VulkanInv, Ended, TypeOK
<1> DEFINE Kept == \/ joining' = joining
                   \/ terminate'
                   \/ \E a \in Actors : joining' = [joining EXCEPT ![a] = "manager"]
                   \/ \E a \in Actors : joining' = [joining EXCEPT ![a] = None]
                   \/ joining' = [joining EXCEPT ![destroyer] = "manager"]
<1>1. EncodeStep => Kept
  <2>1. /\ \A t \in Threads : EnterFrame(t) \/ LeaveFrame(t) \/ Dispose(t) => Kept
        /\ \A e \in Encoders : Signal(e) => Kept
    BY DEF EnterFrame, LeaveFrame, Dispose, Signal
  <2>2. \A t \in Threads, e \in Encoders, o \in Objects :
           CreateEncoder(t, e, o) => Kept
    BY DEF CreateEncoder
  <2>3. \A t \in Threads, e \in Encoders :
           SubmitFails(t, e) \/ Submit(t, e) \/ AddFence(t, e) => Kept
    BY DEF SubmitFails, Submit, AddFence
  <2>4. \A t \in Threads, e \in Encoders :
           SubmitReturns(t, e) \/ DropEncoder(t, e) => Kept
    BY DEF SubmitReturns, DropEncoder, ReleaseWaiter
  <2> QED
    BY <2>1, <2>2, <2>3, <2>4 DEF EncodeStep, Encode, Complete
<1>2. (\E a \in Actors : Destruct(a)) => Kept
  <2>1. \A a \in Actors : LockContext(a) \/ ReclaimPool(a) \/ UnlockManager(a)
           \/ UnlockContext(a) => Kept
    BY DEF LockContext, ReclaimPool, UnlockManager, UnlockContext, ReleaseManager
  <2>2. /\ \A a \in Actors : WaiterJoined(a) \/ ManagerJoined(a) => Kept
        /\ \A a \in Actors, e \in Encoders :
              DestroyEntry(a, e) \/ CallBack(a, e) => Kept
    BY DEF DestroyEntry, CallBack, WaiterJoined, ManagerJoined
  <2> QED
    BY <2>1, <2>2 DEF Destruct
<1>3. Waiter \/ WaitFails \/ Manager => Kept
  BY DEF Waiter, Manager, WaiterWakes, WaitReturns, WaitFails, ManagerWakes,
         ResetPool, Recycle, ManagerPasses
<1>4. Shutdown \/ ShutdownManager \/ OwnerLetsGo => Kept
  BY ActorTypes DEF Shutdown, ShutdownManager, OwnerLetsGo, DropWaiterMember,
         ReleaseWaiter, DropManagerMember, ReleaseManager
<1>5. Destroy => Kept
  BY DEF Destroy, DestroyPools, DestroyManager, DestroyWaiter, DestroyDevice,
         DropWaiterMember, ReleaseWaiter, DropManagerMember, ReleaseManager
<1>6. Kept
  BY <1>1, <1>2, <1>3, <1>4, <1>5 DEF Next, EncodeStep
<1>7. CASE joining' = joining \/ terminate'
  BY <1>0, <1>7
<1>8. ASSUME NEW a, NEW v \in {"manager", None}, joining' = [joining EXCEPT ![a] = v]
      PROVE  \A b \in Actors : joining'[b] = "waiter" => joining[b] = "waiter"
  BY <1>0, <1>8
<1> QED
  BY <1>0, <1>6, <1>7, <1>8

\* The waiter's thread ends when nothing it could wait for is left.
LEMMA EndedStep ==
    ASSUME VulkanInv, Next
    PROVE  Ended'
<1> USE DEF poolVars, encoderVars, waiterVars, managerVars, lifeVars,
            contextVars, threadVars
<1>0. /\ Ended /\ Last /\ TypeOK
      /\ terminate => terminate'
      /\ \A a \in Actors : joining'[a] = "waiter" => terminate'
  BY GivenUpStays, JoinsTold DEF VulkanInv
<1>1. ASSUME UNCHANGED <<waiter, snapshot, waitSet, failed>>, gpu' \subseteq gpu,
             context # "dead" \/ context' = "dead",
             context' \notin {"alive", "dying"} =>
                 context \notin {"alive", "dying"} \/ gpu = {}
      PROVE  Ended'
  BY <1>0, <1>1 DEF Ended
<1>2. ASSUME NEW t \in Threads, LeaveFrame(t)
      PROVE  Ended'
  <2>1. context = "alive" /\ context' \in {"alive", "dying"}
    BY <1>2, LetGoAlive DEF LeaveFrame
  <2> QED
    BY <1>1, <1>2, <2>1 DEF LeaveFrame
<1>3. ASSUME NEW t \in Threads, NEW e \in Encoders, Submit(t, e)
      PROVE  Ended'
  <2>1. context = "alive"
    BY <1>0, <1>3 DEF Last, Submit
  <2> QED
    BY <1>0, <1>3, <2>1 DEF Ended, Submit
<1>4. ASSUME NEW t \in Threads, NEW e \in Encoders, AddFence(t, e)
      PROVE  Ended'
  <2>1. waitSet' = waitSet \cup {e} /\ ~terminate
    BY <1>4, FenceIsAdded
  <2>2. UNCHANGED <<waiter, snapshot, failed, gpu, context, terminate>>
    BY <1>4 DEF AddFence
  <2> QED
    BY <1>0, <2>1, <2>2 DEF Ended
<1>5. ASSUME NEW t \in Threads, NEW e \in Encoders, DropEncoder(t, e)
      PROVE  Ended'
  BY <1>1, <1>5 DEF DropEncoder
<1>6. ASSUME NEW e \in Encoders, Signal(e)
      PROVE  Ended'
  BY <1>1, <1>6 DEF Signal
<1>7. ASSUME NEW a \in Actors, UnlockContext(a)
      PROVE  Ended'
  <2>1. context = "alive" /\ context' \in {"alive", "dying"}
    BY <1>7, LetGoAlive DEF UnlockContext, Destructs
  <2> QED
    BY <1>1, <1>7, <2>1 DEF UnlockContext
<1>8. ASSUME NEW a \in Actors, WaiterJoined(a)
      PROVE  Ended'
  BY <1>0, <1>8 DEF Ended, WaiterJoined
<1>9. CASE WaiterWakes
  BY <1>0, <1>9 DEF Ended, WaiterWakes
<1>10. CASE WaitReturns \/ WaitFails
  BY <1>0, <1>10 DEF Ended, WaitReturns, WaitFails
<1>11. CASE Recycle
  <2>1. context = "alive" /\ context' \in {"alive", "dying"}
    BY <1>11, LetGoAlive DEF Recycle
  <2> QED
    BY <1>1, <1>11, <2>1 DEF Recycle
<1>12. CASE OwnerLetsGo
  <2>1. context = "alive" /\ context' \in {"alive", "dying"}
    BY <1>12, LetGoAlive DEF OwnerLetsGo
  <2> QED
    BY <1>1, <1>12, <2>1 DEF OwnerLetsGo
<1>13. CASE Shutdown
  BY <1>1, <1>13 DEF Shutdown
<1>14. CASE Destroy
  <2>2. UNCHANGED <<waiter, snapshot, waitSet, failed, gpu>>
    BY <1>14 DEF Destroy, DestroyPools, DestroyManager, DestroyWaiter, DestroyDevice
  <2>3. /\ context # "dead"
        /\ context \notin {"alive", "dying"} \/ gpu = {}
    BY <1>14 DEF Destroy, DestroyPools, DestroyManager, DestroyWaiter, DestroyDevice
  <2> QED
    BY <1>1, <2>2, <2>3
<1>15. CASE UNCHANGED <<waiter, snapshot, waitSet, failed, gpu, terminate, context>>
  BY <1>0, <1>15 DEF Ended
<1>16. /\ \A t \in Threads : EnterFrame(t) \/ Dispose(t)
             => UNCHANGED <<waiter, snapshot, waitSet, failed, gpu, terminate, context>>
       /\ \A t \in Threads, e \in Encoders, o \in Objects : CreateEncoder(t, e, o)
             => UNCHANGED <<waiter, snapshot, waitSet, failed, gpu, terminate, context>>
       /\ \A t \in Threads, e \in Encoders : SubmitFails(t, e) \/ SubmitReturns(t, e)
             => UNCHANGED <<waiter, snapshot, waitSet, failed, gpu, terminate, context>>
  BY DEF EnterFrame, Dispose, CreateEncoder, SubmitFails, SubmitReturns
<1>17. /\ \A a \in Actors :
             LockContext(a) \/ ReclaimPool(a) \/ UnlockManager(a) \/ ManagerJoined(a)
             => UNCHANGED <<waiter, snapshot, waitSet, failed, gpu, terminate, context>>
       /\ \A a \in Actors, e \in Encoders : DestroyEntry(a, e) \/ CallBack(a, e)
             => UNCHANGED <<waiter, snapshot, waitSet, failed, gpu, terminate, context>>
  BY DEF LockContext, ReclaimPool, UnlockManager, ManagerJoined, DestroyEntry, CallBack
<1>18. /\ ManagerWakes \/ ManagerPasses \/ ShutdownManager
             => UNCHANGED <<waiter, snapshot, waitSet, failed, gpu, terminate, context>>
       /\ \A p \in Pools : ResetPool(p)
             => UNCHANGED <<waiter, snapshot, waitSet, failed, gpu, terminate, context>>
  BY DEF ManagerWakes, ManagerPasses, ShutdownManager, ResetPool
<1> QED
  BY <1>2, <1>3, <1>4, <1>5, <1>6, <1>7, <1>8, <1>9, <1>10, <1>11, <1>12, <1>13,
     <1>14, <1>15, <1>16, <1>17, <1>18
     DEF Next, Encode, Complete, Destruct, Waiter, Manager

-----------------------------------------------------------------------------
(* Tracked objects and pools *)

\* What giving up tracked objects does to them.
LEMMA ReleaseHolds ==
    ASSUME TypeOK, NEW a \in Actors, NEW e \in Encoders, NEW h \in held[e],
           held[e] # {} <=> tracked[e] # None, ReleaseTracked(a, e, h)
    PROVE  /\ \A d \in Encoders : d # e => held'[d] = held[d] /\ tracked'[d] = tracked[d]
           /\ held'[e] = held[e] \ {h}
           /\ tracked'[e] \in {tracked[e], None}
           /\ held'[e] # {} <=> tracked'[e] # None
<1>1. /\ \A d \in Encoders : held'[d] = IF d = e THEN held[e] \ {h} ELSE held[d]
  BY DEF ReleaseTracked, TypeOK
<1>2. CASE held[e] = {h}
  <2>1. tracked' = [tracked EXCEPT ![e] = None]
    BY <1>2 DEF ReleaseTracked
  <2>2. \A d \in Encoders : tracked'[d] = IF d = e THEN None ELSE tracked[d]
    BY <2>1 DEF TypeOK
  <2> QED
    BY <1>1, <1>2, <2>2
<1>3. CASE held[e] # {h}
  <2>1. tracked' = tracked
    BY <1>3 DEF ReleaseTracked
  <2>2. held[e] \ {h} # {}
    BY <1>3
  <2> QED
    BY <1>1, <2>1, <2>2
<1> QED
  BY <1>2, <1>3

\* Tracked objects have a pool while someone holds them.
LEMMA HoldingStep ==
    ASSUME VulkanInv, Next, NEW d \in Encoders
    PROVE  Holding(d)'
<1> USE DEF poolVars, encoderVars, waiterVars, managerVars, lifeVars,
            contextVars, threadVars
<1>0. /\ Holding(d) /\ Waiting(d) /\ TypeOK
      /\ \A e \in Encoders : Holding(e) /\ Waiting(e)
  BY DEF VulkanInv
<1>1. ASSUME NEW t \in Threads, NEW e \in Encoders, NEW o \in Objects,
             CreateEncoder(t, e, o)
      PROVE  Holding(d)'
  <2>1. CASE UNCHANGED <<encoder, held, tracked>>
    BY <1>0, <1>1, <2>1 DEF Holding, CreateEncoder
  <2>2. CASE /\ encoder' = [encoder EXCEPT ![e] = "recording"]
             /\ held' = [held EXCEPT ![e] = {"encoder"}]
             /\ tracked' = [tracked EXCEPT ![e] = o]
    <3>1. encoder[e] = "none" /\ waitSet' = waitSet
      BY <1>1 DEF CreateEncoder
    <3>2. CASE d = e
      <4>1. encoder'[d] = "recording" /\ held'[d] = {"encoder"} /\ tracked'[d] = o
        BY <1>0, <2>2, <3>2 DEF TypeOK
      <4>2. d \notin waitSet
        BY <1>0, <3>1, <3>2 DEF Waiting
      <4>3. o # None
        BY ActorTypes
      <4> QED
        BY <3>1, <4>1, <4>2, <4>3 DEF Holding
    <3>3. CASE d # e
      <4>1. encoder'[d] = encoder[d] /\ held'[d] = held[d] /\ tracked'[d] = tracked[d]
        BY <1>0, <2>2, <3>3 DEF TypeOK
      <4> QED
        BY <1>0, <3>1, <4>1 DEF Holding
    <3> QED
      BY <3>2, <3>3
  <2> QED
    BY <1>1, <2>1, <2>2 DEF CreateEncoder
<1>2. ASSUME NEW a \in Actors, NEW e \in Encoders, NEW h \in held[e],
             ReleaseTracked(a, e, h), waitSet' = waitSet,
             \A c \in Encoders : c # e => encoder'[c] = encoder[c],
             encoder'[e] \notin {"none", "recording", "submitting"},
             encoder'[e] = "added" => "submit" \in held[e] /\ h # "submit",
             e \in waitSet => h # "entry"
      PROVE  Holding(d)'
  <2>1. /\ d # e => held'[d] = held[d] /\ tracked'[d] = tracked[d]
        /\ held'[e] = held[e] \ {h}
        /\ held'[e] # {} <=> tracked'[e] # None
    BY <1>0, <1>2, ReleaseHolds DEF Holding
  <2>2. CASE d = e
    BY <1>0, <1>2, <2>1, <2>2 DEF Holding
  <2>3. CASE d # e
    BY <1>0, <1>2, <2>1, <2>3 DEF Holding
  <2> QED
    BY <2>2, <2>3
<1>3. ASSUME NEW t \in Threads, NEW e \in Encoders, SubmitFails(t, e)
      PROVE  Holding(d)'
  <2>1. encoder[e] = "recording" /\ ReleaseTracked(t, e, "encoder") /\ waitSet' = waitSet
    BY <1>3 DEF SubmitFails
  <2>2. "encoder" \in held[e] /\ t \in Actors
    BY <1>0, <2>1, ActorTypes DEF Holding
  <2>3. /\ \A c \in Encoders : c # e => encoder'[c] = encoder[c]
        /\ encoder'[e] = "submitted"
    BY <1>0, <1>3 DEF SubmitFails, TypeOK
  <2> QED
    BY <1>2, <2>1, <2>2, <2>3
<1>4. ASSUME NEW t \in Threads, NEW e \in Encoders, Submit(t, e)
      PROVE  Holding(d)'
  <2>1. encoder[e] = "recording" /\ UNCHANGED <<waitSet, tracked>>
    BY <1>4 DEF Submit
  <2>2. CASE d = e
    <3>1. encoder'[d] = "submitting" /\ held'[d] = {"submit"}
      BY <1>0, <1>4, <2>2 DEF Submit, TypeOK
    <3>2. tracked[d] # None /\ d \notin waitSet
      BY <1>0, <2>1, <2>2 DEF Holding, Waiting
    <3> QED
      BY <2>1, <3>1, <3>2 DEF Holding
  <2>3. CASE d # e
    <3>1. encoder'[d] = encoder[d] /\ held'[d] = held[d]
      BY <1>0, <1>4, <2>3 DEF Submit, TypeOK
    <3> QED
      BY <1>0, <2>1, <3>1 DEF Holding
  <2> QED
    BY <2>2, <2>3
<1>5. ASSUME NEW t \in Threads, NEW e \in Encoders, AddFence(t, e)
      PROVE  Holding(d)'
  <2>1. encoder[e] = "submitting" /\ tracked' = tracked
    BY <1>5 DEF AddFence
  <2>2. /\ waitSet' = waitSet \cup {e}
        /\ held' = [held EXCEPT ![e] = held[e] \cup {"entry"}]
        /\ encoder' = [encoder EXCEPT ![e] = "added"]
    BY <1>5, FenceIsAdded
  <2>3. CASE d = e
    <3>1. encoder'[d] = "added" /\ held'[d] = {"submit", "entry"}
      BY <1>0, <2>1, <2>2, <2>3 DEF Holding, TypeOK
    <3>2. tracked[d] # None
      BY <1>0, <2>1, <2>3 DEF Holding
    <3> QED
      BY <2>1, <3>1, <3>2 DEF Holding
  <2>4. CASE d # e
    <3>1. encoder'[d] = encoder[d] /\ held'[d] = held[d] /\ (d \in waitSet' <=> d \in waitSet)
      BY <1>0, <2>2, <2>4 DEF TypeOK
    <3> QED
      BY <1>0, <2>1, <3>1 DEF Holding
  <2> QED
    BY <2>3, <2>4
<1>6. ASSUME NEW t \in Threads, NEW e \in Encoders, SubmitReturns(t, e)
      PROVE  Holding(d)'
  <2>1. encoder[e] = "added" /\ ReleaseTracked(t, e, "submit") /\ waitSet' = waitSet
    BY <1>6 DEF SubmitReturns
  <2>2. "submit" \in held[e] /\ t \in Actors
    BY <1>0, <2>1, ActorTypes DEF Holding
  <2>3. /\ \A c \in Encoders : c # e => encoder'[c] = encoder[c]
        /\ encoder'[e] = "submitted"
    BY <1>0, <1>6 DEF SubmitReturns, TypeOK
  <2> QED
    BY <1>2, <2>1, <2>2, <2>3
<1>7. ASSUME NEW t \in Threads, NEW e \in Encoders, DropEncoder(t, e)
      PROVE  Holding(d)'
  <2>1. /\ \A c \in Encoders : c # e => encoder'[c] = encoder[c]
        /\ encoder'[e] = "gone" /\ waitSet' = waitSet
    BY <1>0, <1>7 DEF DropEncoder, TypeOK
  <2>2. CASE encoder[e] = "recording"
    <3>1. ReleaseTracked(t, e, "encoder")
      BY <1>7, <2>2 DEF DropEncoder
    <3>2. "encoder" \in held[e] /\ t \in Actors
      BY <1>0, <2>2, ActorTypes DEF Holding
    <3> QED
      BY <1>2, <2>1, <3>1, <3>2
  <2>3. CASE encoder[e] # "recording"
    <3>1. UNCHANGED <<held, tracked>>
      BY <1>7, <2>3 DEF DropEncoder
    <3> QED
      BY <1>0, <2>1, <3>1 DEF Holding
  <2> QED
    BY <2>2, <2>3
<1>8. ASSUME NEW a \in Actors, NEW e \in Encoders, DestroyEntry(a, e)
      PROVE  Holding(d)'
  <2>1. /\ e \in erased[a] /\ "entry" \in held[e]
        /\ ReleaseTracked(a, e, "entry") /\ UNCHANGED <<waitSet, encoder>>
    BY <1>8 DEF DestroyEntry
  <2>2. encoder[e] \notin {"none", "recording", "submitting"} /\ e \notin waitSet
    BY <1>0, <2>1 DEF Waiting
  <2>3. encoder[e] = "added" => "submit" \in held[e]
    BY <1>0 DEF Holding
  <2> QED
    BY <1>2, <2>1, <2>2, <2>3
<1>9. CASE waitSet' \subseteq waitSet /\ UNCHANGED <<encoder, held, tracked>>
  BY <1>0, <1>9 DEF Holding
<1>10. /\ \A t \in Threads : EnterFrame(t) \/ LeaveFrame(t) \/ Dispose(t)
             => UNCHANGED <<encoder, held, tracked, waitSet>>
       /\ \A e \in Encoders : Signal(e) => UNCHANGED <<encoder, held, tracked, waitSet>>
  BY DEF EnterFrame, LeaveFrame, Dispose, Signal
<1>11. /\ \A a \in Actors : \/ LockContext(a) \/ ReclaimPool(a) \/ UnlockManager(a)
                            \/ UnlockContext(a) \/ ManagerJoined(a)
             => UNCHANGED <<encoder, held, tracked, waitSet>>
       /\ \A a \in Actors, e \in Encoders : CallBack(a, e)
             => UNCHANGED <<encoder, held, tracked, waitSet>>
  BY DEF LockContext, ReclaimPool, UnlockManager, UnlockContext, ManagerJoined, CallBack
<1>12. /\ \A a \in Actors : WaiterJoined(a)
             => waitSet' \subseteq waitSet /\ UNCHANGED <<encoder, held, tracked>>
       /\ Waiter \/ WaitFails
             => waitSet' \subseteq waitSet /\ UNCHANGED <<encoder, held, tracked>>
  BY DEF WaiterJoined, Waiter, WaiterWakes, WaitReturns, WaitFails
<1>13. Manager => UNCHANGED <<encoder, held, tracked, waitSet>>
  BY DEF Manager, ManagerWakes, ResetPool, Recycle, ManagerPasses
<1>14. Shutdown \/ ShutdownManager \/ OwnerLetsGo \/ Destroy => UNCHANGED <<encoder, held, tracked, waitSet>>
  BY DEF Shutdown, ShutdownManager, OwnerLetsGo, Destroy, DestroyPools,
         DestroyManager, DestroyWaiter, DestroyDevice
<1> QED
  BY <1>1, <1>3, <1>4, <1>5, <1>6, <1>7, <1>8, <1>9, <1>10, <1>11, <1>12, <1>13, <1>14
     DEF Next, Encode, Complete, Destruct

\* What Get makes is new.
LEMMA GetForms ==
    ASSUME TypeOK, NEW t \in Threads, NEW o \in Objects, Get(t, o)
    PROVE  \/ tls[t] = o /\ UNCHANGED <<tls, poolVars>>
           \/ /\ tls[t] = None /\ o \notin registered
              /\ \E p \in Pools : CreatePool(p) /\ pool' = [pool EXCEPT ![o] = p]
              /\ tls' = [tls EXCEPT ![t] = o]
              /\ registered' = registered \cup {o}
<1>1. registered # Objects => Fresh(Objects, registered) \in Objects \ registered
  <2>1. registered # Objects => \E x : x \in Objects \ registered
    BY DEF TypeOK
  <2> QED
    BY <2>1 DEF Fresh
<1> QED
  BY <1>1 DEF Get

\* Only the last reference to a CommandPoolVK begins its destructor.
LEMMA ReleaseDrops ==
    ASSUME VulkanInv, NEW a \in Actors, NEW e \in Encoders, NEW h \in held[e],
           ReleaseTracked(a, e, h), UNCHANGED <<tls, pool, registered>>,
           NEW c \in Actors
    PROVE  Dropped(c)'
<1>0. TypeOK /\ Owning /\ Dropped(c) /\ Holding(e) /\ \A b \in Actors : Dropped(b)
  BY DEF VulkanInv
<1>1. /\ \A d \in Encoders : d # e => tracked'[d] = tracked[d]
      /\ tracked'[e] \in {tracked[e], None}
      /\ tracked[e] # None
  BY <1>0, ReleaseHolds DEF Holding
<1>2. CASE UNCHANGED <<dropping, stage>>
  BY <1>0, <1>1, <1>2 DEF Dropped
<1>3. CASE ~UNCHANGED <<dropping, stage>>
  <2>1. /\ held[e] = {h}
        /\ {t \in Threads : tls[t] = tracked[e]}
              \cup {d \in Encoders \ {e} : tracked[d] = tracked[e]} = {}
        /\ tracked' = [tracked EXCEPT ![e] = None]
        /\ dropping' = [dropping EXCEPT ![a] = tracked[e]]
        /\ stage' = [stage EXCEPT ![a] = "entered"]
    BY <1>3 DEF ReleaseTracked, ReleasePool
  <2>2. /\ \A t \in Threads : tls[t] # tracked[e]
        /\ \A d \in Encoders : d # e => tracked[d] # tracked[e]
    BY <2>1
  <2>3. /\ \A b \in Actors : dropping'[b] = IF b = a THEN tracked[e] ELSE dropping[b]
        /\ \A b \in Actors : stage'[b] = IF b = a THEN "entered" ELSE stage[b]
        /\ \A d \in Encoders : tracked'[d] = IF d = e THEN None ELSE tracked[d]
    BY <1>0, <2>1 DEF TypeOK
  <2>4. \A b \in Actors : dropping[b] # tracked[e]
    BY <1>0, <1>1 DEF Dropped
  <2>5. CASE c = a
    <3>1. tracked[e] \in registered
      BY <1>0, <1>1 DEF Owning
    <3>2. \A d \in Encoders : tracked'[d] # tracked[e]
      BY <1>1, <2>2, <2>3
    <3>3. \A b \in Actors : b # c => dropping'[b] # tracked[e]
      BY <2>3, <2>4, <2>5
    <3>4. dropping'[c] = tracked[e] /\ stage'[c] = "entered"
      BY <2>3, <2>5
    <3> QED
      BY <2>2, <3>1, <3>2, <3>3, <3>4 DEF Dropped
  <2>6. CASE c # a
    <3>1. dropping'[c] = dropping[c] /\ stage'[c] = stage[c]
      BY <2>3, <2>6
    <3>2. \A b \in Actors : b # c /\ dropping[c] # None => dropping'[b] # dropping[c]
      BY <1>0, <2>3, <2>4 DEF Dropped
    <3>3. \A d \in Encoders : dropping[c] # None => tracked'[d] # dropping[c]
      BY <1>0, <2>3 DEF Dropped
    <3> QED
      BY <1>0, <3>1, <3>2, <3>3 DEF Dropped
  <2> QED
    BY <2>5, <2>6
<1> QED
  BY <1>2, <1>3

\* One thread destroys an object, and then nobody refers to it.
LEMMA DroppedStep ==
    ASSUME VulkanInv, Next, NEW c \in Actors
    PROVE  Dropped(c)'
<1> USE DEF poolVars, encoderVars, waiterVars, managerVars, lifeVars,
            contextVars, threadVars
<1>0. /\ TypeOK /\ Owning /\ Dropped(c)
      /\ \A b \in Actors : Dropped(b)
      /\ \A e \in Encoders : Holding(e)
  BY DEF VulkanInv
<1>1. ASSUME NEW t \in Threads, NEW e \in Encoders, NEW o \in Objects,
             CreateEncoder(t, e, o)
      PROVE  Dropped(c)'
  <2>1. UNCHANGED <<dropping, stage>>
    BY <1>1 DEF CreateEncoder
  <2>2. \A d \in Encoders : tracked'[d] \in {tracked[d], o}
    BY <1>0, <1>1 DEF CreateEncoder, TypeOK
  <2>3. CASE tls[t] = o /\ UNCHANGED <<tls, poolVars>>
    BY <1>0, <2>1, <2>2, <2>3 DEF Dropped
  <2>4. CASE /\ tls[t] = None /\ o \notin registered
             /\ \E p \in Pools : CreatePool(p) /\ pool' = [pool EXCEPT ![o] = p]
             /\ tls' = [tls EXCEPT ![t] = o]
             /\ registered' = registered \cup {o}
    <3>1. \A s \in Threads : tls'[s] \in {tls[s], o}
      BY <1>0, <2>4 DEF TypeOK
    <3>2. \A q \in Objects : q # o => pool'[q] = pool[q]
      BY <1>0, <2>4 DEF TypeOK
    <3>3. dropping[c] \in Objects \cup {None}
      BY <1>0 DEF TypeOK
    <3> QED
      BY <1>0, <2>1, <2>2, <2>4, <3>1, <3>2, <3>3 DEF Dropped
  <2> QED
    BY <1>0, <1>1, <2>3, <2>4, GetForms DEF CreateEncoder
<1>2. ASSUME NEW t \in Threads, NEW e \in Encoders, SubmitFails(t, e)
      PROVE  Dropped(c)'
  <2>1. "encoder" \in held[e] /\ t \in Actors
    BY <1>0, <1>2, ActorTypes DEF SubmitFails, Holding
  <2> QED
    BY <1>2, <2>1, ReleaseDrops DEF SubmitFails
<1>3. ASSUME NEW t \in Threads, NEW e \in Encoders, SubmitReturns(t, e)
      PROVE  Dropped(c)'
  <2>1. "submit" \in held[e] /\ t \in Actors
    BY <1>0, <1>3, ActorTypes DEF SubmitReturns, Holding
  <2> QED
    BY <1>3, <2>1, ReleaseDrops DEF SubmitReturns
<1>4. ASSUME NEW t \in Threads, NEW e \in Encoders, DropEncoder(t, e)
      PROVE  Dropped(c)'
  <2>1. UNCHANGED <<tls, pool, registered>>
    BY <1>4 DEF DropEncoder
  <2>2. CASE encoder[e] = "recording"
    <3>1. "encoder" \in held[e] /\ t \in Actors
      BY <1>0, <2>2, ActorTypes DEF Holding
    <3> QED
      BY <1>4, <2>1, <2>2, <3>1, ReleaseDrops DEF DropEncoder
  <2>3. CASE encoder[e] # "recording"
    BY <1>0, <1>4, <2>1, <2>3 DEF DropEncoder, Dropped
  <2> QED
    BY <2>2, <2>3
<1>5. ASSUME NEW a \in Actors, NEW e \in Encoders, DestroyEntry(a, e)
      PROVE  Dropped(c)'
  <2>1. "entry" \in held[e]
    BY <1>5 DEF DestroyEntry
  <2> QED
    BY <1>5, <2>1, ReleaseDrops DEF DestroyEntry
<1>6. ASSUME NEW t \in Threads, Dispose(t)
      PROVE  Dropped(c)'
  <2>1. UNCHANGED <<pool, registered, tracked>>
    BY <1>6 DEF Dispose
  <2>2. /\ \A s \in Threads : tls'[s] = IF s = t THEN None ELSE tls[s]
        /\ tls[t] # None
    BY <1>0, <1>6 DEF Dispose, TypeOK
  <2>3. CASE UNCHANGED <<dropping, stage>>
    BY <1>0, <2>1, <2>2, <2>3 DEF Dropped
  <2>4. CASE ~UNCHANGED <<dropping, stage>>
    <3>1. /\ \A e \in Encoders : tracked[e] # tls[t]
          /\ dropping' = [dropping EXCEPT ![t] = tls[t]]
          /\ stage' = [stage EXCEPT ![t] = "entered"]
      BY <1>6, <2>4 DEF Dispose, ReleasePool
    <3>2. /\ \A b \in Actors : dropping'[b] = IF b = t THEN tls[t] ELSE dropping[b]
          /\ \A b \in Actors : stage'[b] = IF b = t THEN "entered" ELSE stage[b]
      BY <1>0, <3>1 DEF TypeOK
    <3>3. \A b \in Actors : dropping[b] # tls[t]
      BY <1>0, <2>2 DEF Dropped
    <3>4. \A s \in Threads : tls'[s] # tls[t]
      BY <1>0, <2>2 DEF Owning
    <3>5. tls[t] \in registered
      BY <1>0, <2>2 DEF Owning
    <3>6. CASE c = t
      <4>1. dropping'[c] = tls[t] /\ stage'[c] = "entered"
        BY <3>2, <3>6
      <4>2. \A b \in Actors : b # c => dropping'[b] # tls[t]
        BY <3>2, <3>3, <3>6
      <4> QED
        BY <2>1, <3>1, <3>4, <3>5, <4>1, <4>2 DEF Dropped
    <3>7. CASE c # t
      <4>1. dropping'[c] = dropping[c] /\ stage'[c] = stage[c]
        BY <3>2, <3>7
      <4>2. \A b \in Actors : b # c /\ dropping[c] # None => dropping'[b] # dropping[c]
        BY <1>0, <3>2, <3>3 DEF Dropped
      <4>3. \A s \in Threads : dropping[c] # None => tls'[s] # dropping[c]
        BY <1>0, <2>2 DEF Dropped
      <4> QED
        BY <1>0, <2>1, <4>1, <4>2, <4>3 DEF Dropped
    <3> QED
      BY <3>6, <3>7
  <2> QED
    BY <2>3, <2>4
<1>7. ASSUME NEW a \in Actors, UNCHANGED <<tls, tracked, registered>>,
             dropping[a] # None,
             \A b \in Actors : b # a => dropping'[b] = dropping[b] /\ stage'[b] = stage[b],
             \A o \in Objects : o # dropping[a] => pool'[o] = pool[o],
             dropping'[a] \in {dropping[a], None},
             stage'[a] = "locked" => pool'[dropping[a]] # None
      PROVE  Dropped(c)'
  <2>1. CASE c = a
    BY <1>0, <1>7, <2>1 DEF Dropped
  <2>2. CASE c # a
    <3>1. dropping[c] # None => dropping[c] \in Objects /\ dropping[c] # dropping[a]
      BY <1>0, <2>2 DEF Dropped, TypeOK
    <3> QED
      BY <1>0, <1>7, <2>2, <3>1 DEF Dropped
  <2> QED
    BY <2>1, <2>2
<1>8. ASSUME NEW a \in Actors, LockContext(a)
      PROVE  Dropped(c)'
  <2>1. UNCHANGED <<tls, tracked, registered>> /\ dropping[a] # None
    BY <1>8 DEF LockContext, Destructs
  <2>2. /\ \A b \in Actors : b # a => dropping'[b] = dropping[b] /\ stage'[b] = stage[b]
        /\ dropping'[a] \in {dropping[a], None}
    BY <1>0, <1>8 DEF LockContext, TypeOK
  <2>3. \A o \in Objects : o # dropping[a] => pool'[o] = pool[o]
    BY <1>0, <1>8 DEF LockContext, TypeOK
  <2>4. stage'[a] = "locked" => pool'[dropping[a]] # None
    BY <1>0, <1>8 DEF LockContext, TypeOK
  <2> QED
    BY <1>7, <2>1, <2>2, <2>3, <2>4
<1>9. ASSUME NEW a \in Actors, ReclaimPool(a)
      PROVE  Dropped(c)'
  <2>1. UNCHANGED <<tls, tracked, registered, dropping>> /\ dropping[a] # None
    BY <1>9 DEF ReclaimPool, Destructs
  <2>2. \A b \in Actors : stage'[b] = IF b = a THEN "reclaimed" ELSE stage[b]
    BY <1>0, <1>9 DEF ReclaimPool, TypeOK
  <2>3. \A o \in Objects : o # dropping[a] => pool'[o] = pool[o]
    BY <1>0, <1>9 DEF ReclaimPool, TypeOK
  <2> QED
    BY <1>7, <2>1, <2>2, <2>3
<1>10. ASSUME NEW a \in Actors, UnlockContext(a)
       PROVE  Dropped(c)'
  <2>1. UNCHANGED <<tls, tracked, registered, pool>> /\ dropping[a] # None
    BY <1>10 DEF UnlockContext, Destructs
  <2>2. /\ \A b \in Actors : dropping'[b] = IF b = a THEN None ELSE dropping[b]
        /\ \A b \in Actors : stage'[b] = IF b = a THEN "none" ELSE stage[b]
    BY <1>0, <1>10 DEF UnlockContext, TypeOK
  <2> QED
    BY <1>7, <2>1, <2>2
<1>11. CASE DestroyPools
  <2>1. UNCHANGED <<dropping, stage, registered, tracked>>
    BY <1>11 DEF DestroyPools
  <2>2. /\ \A t \in Threads : tls'[t] \in {tls[t], None}
        /\ \A o \in Objects : dropping[c] = o => pool'[o] = pool[o]
    BY <1>11 DEF DestroyPools
  <2>3. dropping[c] \in Objects \cup {None}
    BY <1>0 DEF TypeOK
  <2> QED
    BY <1>0, <2>1, <2>2, <2>3 DEF Dropped
<1>12. CASE UNCHANGED <<dropping, stage, registered, tls, tracked, pool>>
  BY <1>0, <1>12 DEF Dropped
<1>13. /\ \A t \in Threads : EnterFrame(t) \/ LeaveFrame(t)
             => UNCHANGED <<dropping, stage, registered, tls, tracked, pool>>
       /\ \A t \in Threads, e \in Encoders : Submit(t, e) \/ AddFence(t, e)
             => UNCHANGED <<dropping, stage, registered, tls, tracked, pool>>
       /\ \A e \in Encoders : Signal(e)
             => UNCHANGED <<dropping, stage, registered, tls, tracked, pool>>
  BY DEF EnterFrame, LeaveFrame, Submit, AddFence, Signal
<1>14. /\ \A a \in Actors : UnlockManager(a) \/ WaiterJoined(a) \/ ManagerJoined(a)
             => UNCHANGED <<dropping, stage, registered, tls, tracked, pool>>
       /\ \A a \in Actors, e \in Encoders : CallBack(a, e)
             => UNCHANGED <<dropping, stage, registered, tls, tracked, pool>>
  BY DEF UnlockManager, WaiterJoined, ManagerJoined, CallBack
<1>15. Waiter \/ WaitFails \/ Manager
          => UNCHANGED <<dropping, stage, registered, tls, tracked, pool>>
  BY DEF Waiter, WaiterWakes, WaitReturns, WaitFails, Manager, ManagerWakes,
         ResetPool, Recycle, ManagerPasses
<1>16. Shutdown \/ ShutdownManager \/ OwnerLetsGo \/ DestroyManager \/ DestroyWaiter \/ DestroyDevice
          => UNCHANGED <<dropping, stage, registered, tls, tracked, pool>>
  BY DEF Shutdown, ShutdownManager, OwnerLetsGo, DestroyManager,
         DestroyWaiter, DestroyDevice
<1> QED
  BY <1>1, <1>2, <1>3, <1>4, <1>5, <1>6, <1>8, <1>9, <1>10, <1>11, <1>12, <1>13,
     <1>14, <1>15, <1>16
     DEF Next, Encode, Complete, Destruct, Destroy

\* An object keeps the pool of the buffers that refer to it.
LEMMA OwningStep ==
    ASSUME VulkanInv, Next
    PROVE  Owning'
<1> USE DEF poolVars, encoderVars, waiterVars, managerVars, lifeVars,
            contextVars, threadVars
<1>0. /\ TypeOK /\ Owning /\ Last
      /\ \A b \in Actors : Dropped(b)
      /\ \A e \in Encoders : Holding(e)
  BY DEF VulkanInv
<1>1. ASSUME UNCHANGED <<registered, home>>,
             \A t \in Threads : tls'[t] \in {tls[t], None},
             \A e \in Encoders : tracked'[e] \in {tracked[e], None},
             context' \in {"alive", "dying"} =>
                 /\ context \in {"alive", "dying"}
                 /\ \A e \in Encoders :
                       tracked[e] # None => pool'[tracked[e]] = pool[tracked[e]]
      PROVE  Owning'
  BY <1>0, <1>1 DEF Owning
<1>2. ASSUME NEW t \in Threads, NEW e \in Encoders, NEW o \in Objects,
             CreateEncoder(t, e, o)
      PROVE  Owning'
  <2>0. context' = context /\ o # None
    BY <1>2, ActorTypes DEF CreateEncoder
  <2>1. \/ UNCHANGED <<tracked, home>>
        \/ /\ \A d \in Encoders : tracked'[d] = IF d = e THEN o ELSE tracked[d]
           /\ \A d \in Encoders : home'[d] = IF d = e THEN pool'[o] ELSE home[d]
    BY <1>0, <1>2 DEF CreateEncoder, TypeOK
  <2>2. /\ o \in registered'
        /\ registered \subseteq registered'
        /\ \A s \in Threads : tls'[s] \in registered' \cup {None}
        /\ \A r, s \in Threads : tls'[r] = tls'[s] /\ tls'[r] # None => r = s
        /\ \A d \in Encoders :
              tracked[d] # None => pool'[tracked[d]] = pool[tracked[d]]
    <3>1. CASE tls[t] = o /\ UNCHANGED <<tls, poolVars>>
      BY <1>0, <2>0, <3>1 DEF Owning
    <3>2. CASE /\ tls[t] = None /\ o \notin registered
               /\ \E p \in Pools : CreatePool(p) /\ pool' = [pool EXCEPT ![o] = p]
               /\ tls' = [tls EXCEPT ![t] = o]
               /\ registered' = registered \cup {o}
      <4>1. \A s \in Threads : tls'[s] = IF s = t THEN o ELSE tls[s]
        BY <1>0, <3>2 DEF TypeOK
      <4>2. \A s \in Threads : tls[s] # o
        BY <1>0, <2>0, <3>2 DEF Owning
      <4>3. \A d \in Encoders : tracked[d] # o
        BY <1>0, <2>0, <3>2 DEF Owning
      <4>4. \A q \in Objects : q # o => pool'[q] = pool[q]
        BY <1>0, <3>2 DEF TypeOK
      <4>5. \A d \in Encoders : tracked[d] \in Objects \cup {None}
        BY <1>0 DEF TypeOK
      <4>6. \A r, s \in Threads : tls'[r] = tls'[s] /\ tls'[r] # None => r = s
        BY <1>0, <4>1, <4>2 DEF Owning
      <4> QED
        BY <1>0, <3>2, <4>1, <4>3, <4>4, <4>5, <4>6 DEF Owning
    <3> QED
      BY <1>0, <1>2, <3>1, <3>2, GetForms DEF CreateEncoder
  <2>3. \A d \in Encoders : tracked'[d] \in registered' \cup {None}
    BY <1>0, <2>1, <2>2 DEF Owning
  <2>4. context' \in {"alive", "dying"} =>
           \A d \in Encoders : tracked'[d] # None => pool'[tracked'[d]] = home'[d]
    <3>1. CASE UNCHANGED <<tracked, home>>
      BY <1>0, <2>0, <2>2, <3>1 DEF Owning
    <3>2. CASE /\ \A d \in Encoders : tracked'[d] = IF d = e THEN o ELSE tracked[d]
               /\ \A d \in Encoders : home'[d] = IF d = e THEN pool'[o] ELSE home[d]
      BY <1>0, <2>0, <2>2, <3>2 DEF Owning
    <3> QED
      BY <2>1, <3>1, <3>2
  <2> QED
    BY <2>2, <2>3, <2>4 DEF Owning
<1>3. ASSUME NEW a \in Actors, NEW e \in Encoders, NEW h \in held[e],
             ReleaseTracked(a, e, h), UNCHANGED <<tls, pool, registered, home, context>>
      PROVE  Owning'
  <2>1. \A d \in Encoders : tracked'[d] \in {tracked[d], None}
    BY <1>0, <1>3, ReleaseHolds DEF Holding
  <2> QED
    BY <1>1, <1>3, <2>1
<1>4. ASSUME NEW t \in Threads, NEW e \in Encoders, SubmitFails(t, e)
      PROVE  Owning'
  <2>1. "encoder" \in held[e] /\ t \in Actors
    BY <1>0, <1>4, ActorTypes DEF SubmitFails, Holding
  <2> QED
    BY <1>3, <1>4, <2>1 DEF SubmitFails
<1>5. ASSUME NEW t \in Threads, NEW e \in Encoders, SubmitReturns(t, e)
      PROVE  Owning'
  <2>1. "submit" \in held[e] /\ t \in Actors
    BY <1>0, <1>5, ActorTypes DEF SubmitReturns, Holding
  <2> QED
    BY <1>3, <1>5, <2>1 DEF SubmitReturns
<1>6. ASSUME NEW t \in Threads, NEW e \in Encoders, DropEncoder(t, e)
      PROVE  Owning'
  <2>1. UNCHANGED <<tls, pool, registered, home, context>>
    BY <1>6 DEF DropEncoder
  <2>2. CASE encoder[e] = "recording"
    <3>1. "encoder" \in held[e] /\ t \in Actors
      BY <1>0, <2>2, ActorTypes DEF Holding
    <3> QED
      BY <1>3, <1>6, <2>1, <2>2, <3>1 DEF DropEncoder
  <2>3. CASE encoder[e] # "recording"
    BY <1>1, <1>6, <2>1, <2>3 DEF DropEncoder
  <2> QED
    BY <2>2, <2>3
<1>7. ASSUME NEW a \in Actors, NEW e \in Encoders, DestroyEntry(a, e)
      PROVE  Owning'
  <2>1. "entry" \in held[e]
    BY <1>7 DEF DestroyEntry
  <2> QED
    BY <1>3, <1>7, <2>1 DEF DestroyEntry
<1>8. ASSUME NEW t \in Threads, Dispose(t)
      PROVE  Owning'
  <2>1. \A s \in Threads : tls'[s] \in {tls[s], None}
    BY <1>0, <1>8 DEF Dispose, TypeOK
  <2> QED
    BY <1>1, <1>8, <2>1 DEF Dispose
<1>9. ASSUME NEW a \in Actors, LockContext(a) \/ ReclaimPool(a)
      PROVE  Owning'
  <2>1. UNCHANGED <<tls, tracked, registered, home, context>> /\ dropping[a] # None
    BY <1>9 DEF LockContext, ReclaimPool, Destructs
  <2>2. \A o \in Objects : o # dropping[a] => pool'[o] = pool[o]
    BY <1>0, <1>9 DEF LockContext, ReclaimPool, TypeOK
  <2>3. \A e \in Encoders : tracked[e] # dropping[a] /\ tracked[e] \in Objects \cup {None}
    BY <1>0, <2>1 DEF Dropped, TypeOK
  <2> QED
    BY <1>1, <2>1, <2>2, <2>3
<1>10. ASSUME NEW t \in Threads, LeaveFrame(t)
       PROVE  Owning'
  <2>1. context = "alive"
    BY <1>0, <1>10 DEF Last, LeaveFrame
  <2> QED
    BY <1>1, <1>10, <2>1 DEF LeaveFrame
<1>11. ASSUME NEW a \in Actors, UnlockContext(a)
       PROVE  Owning'
  <2>1. context = "alive"
    BY <1>0, <1>11 DEF Last, UnlockContext, Destructs
  <2> QED
    BY <1>1, <1>11, <2>1 DEF UnlockContext
<1>12. CASE Recycle
  <2>1. context = "alive"
    BY <1>0, <1>12 DEF Last, Recycle
  <2> QED
    BY <1>1, <1>12, <2>1 DEF Recycle
<1>13. CASE OwnerLetsGo
  <2>1. context = "alive"
    BY <1>0, <1>13 DEF Last, OwnerLetsGo
  <2> QED
    BY <1>1, <1>13, <2>1 DEF OwnerLetsGo
<1>14. CASE DestroyPools
  BY <1>1, <1>14 DEF DestroyPools
<1>15. CASE DestroyManager \/ DestroyWaiter \/ DestroyDevice
  <2>1. UNCHANGED <<tls, tracked, registered, home>> /\ context' \notin {"alive", "dying"}
    BY <1>15 DEF DestroyManager, DestroyWaiter, DestroyDevice
  <2> QED
    BY <1>1, <2>1
<1>16. CASE UNCHANGED <<tls, registered, tracked, context, pool, home>>
  BY <1>1, <1>16
<1>17. /\ \A t \in Threads : EnterFrame(t)
             => UNCHANGED <<tls, registered, tracked, context, pool, home>>
       /\ \A t \in Threads, e \in Encoders : Submit(t, e) \/ AddFence(t, e)
             => UNCHANGED <<tls, registered, tracked, context, pool, home>>
       /\ \A e \in Encoders : Signal(e)
             => UNCHANGED <<tls, registered, tracked, context, pool, home>>
  BY DEF EnterFrame, Submit, AddFence, Signal
<1>18. /\ \A a \in Actors : UnlockManager(a) \/ WaiterJoined(a) \/ ManagerJoined(a)
             => UNCHANGED <<tls, registered, tracked, context, pool, home>>
       /\ \A a \in Actors, e \in Encoders : CallBack(a, e)
             => UNCHANGED <<tls, registered, tracked, context, pool, home>>
  BY DEF UnlockManager, WaiterJoined, ManagerJoined, CallBack
<1>19. /\ Waiter \/ WaitFails \/ ManagerWakes \/ ManagerPasses
             => UNCHANGED <<tls, registered, tracked, context, pool, home>>
       /\ \A p \in Pools : ResetPool(p)
             => UNCHANGED <<tls, registered, tracked, context, pool, home>>
  BY DEF Waiter, WaiterWakes, WaitReturns, WaitFails, ManagerWakes, ManagerPasses,
         ResetPool
<1>20. Shutdown \/ ShutdownManager
          => UNCHANGED <<tls, registered, tracked, context, pool, home>>
  BY DEF Shutdown, ShutdownManager
<1> QED
  BY <1>2, <1>4, <1>5, <1>6, <1>7, <1>8, <1>9, <1>10, <1>11, <1>12, <1>13, <1>14,
     <1>15, <1>16, <1>17, <1>18, <1>19, <1>20
     DEF Next, Encode, Complete, Destruct, Manager, Destroy

\* The recycler's list with one more pool.
LEMMA ListGrows ==
    ASSUME TypeOK, NEW x \in Pools, recycled' = Append(recycled, x)
    PROVE  /\ DOMAIN recycled' = 1..(Len(recycled) + 1)
           /\ DOMAIN recycled = 1..Len(recycled)
           /\ Len(recycled) \in Nat
           /\ \A i \in DOMAIN recycled : recycled'[i] = recycled[i]
           /\ recycled'[Len(recycled) + 1] = x
  BY DEF TypeOK

\* The list without its last pool.
LEMMA ListShrinks ==
    ASSUME TypeOK, recycled # <<>>,
           recycled' = SubSeq(recycled, 1, Len(recycled) - 1)
    PROVE  /\ DOMAIN recycled' = 1..(Len(recycled) - 1)
           /\ DOMAIN recycled = 1..Len(recycled)
           /\ Len(recycled) \in Nat /\ Len(recycled) # 0
           /\ \A i \in DOMAIN recycled' : recycled'[i] = recycled[i]
  BY DEF TypeOK

\* The steps that move a pool.
LEMMA PoolSteps ==
    ASSUME Next
    PROVE  \/ \E t \in Threads, e \in Encoders, o \in Objects : CreateEncoder(t, e, o)
           \/ \E a \in Actors : LockContext(a) \/ ReclaimPool(a)
           \/ ManagerWakes \/ Recycle \/ \E p \in Pools : ResetPool(p)
           \/ DestroyPools \/ DestroyManager
           \/ UNCHANGED <<poolVars, reclaimables, collecting, resetting>>
<1> USE DEF poolVars, encoderVars, waiterVars, managerVars, lifeVars,
            contextVars, threadVars
<1>1. \A t \in Threads : EnterFrame(t) \/ LeaveFrame(t) \/ Dispose(t)
         => UNCHANGED <<poolVars, reclaimables, collecting, resetting>>
  BY DEF EnterFrame, LeaveFrame, Dispose
<1>2. /\ \A t \in Threads, e \in Encoders : \/ SubmitFails(t, e) \/ Submit(t, e)
                                            \/ AddFence(t, e)
            => UNCHANGED <<poolVars, reclaimables, collecting, resetting>>
      /\ \A t \in Threads, e \in Encoders : SubmitReturns(t, e) \/ DropEncoder(t, e)
            => UNCHANGED <<poolVars, reclaimables, collecting, resetting>>
      /\ \A e \in Encoders : Signal(e)
            => UNCHANGED <<poolVars, reclaimables, collecting, resetting>>
  BY DEF SubmitFails, Submit, AddFence, SubmitReturns, DropEncoder, Signal
<1>3. /\ \A a \in Actors : \/ UnlockManager(a) \/ UnlockContext(a)
                           \/ WaiterJoined(a) \/ ManagerJoined(a)
            => UNCHANGED <<poolVars, reclaimables, collecting, resetting>>
      /\ \A a \in Actors, e \in Encoders : DestroyEntry(a, e) \/ CallBack(a, e)
            => UNCHANGED <<poolVars, reclaimables, collecting, resetting>>
  BY DEF UnlockManager, UnlockContext, WaiterJoined, ManagerJoined, DestroyEntry, CallBack
<1>4. Waiter \/ WaitFails \/ ManagerPasses
         => UNCHANGED <<poolVars, reclaimables, collecting, resetting>>
  BY DEF Waiter, WaiterWakes, WaitReturns, WaitFails, ManagerPasses
<1>5. Shutdown \/ ShutdownManager \/ OwnerLetsGo \/ DestroyWaiter \/ DestroyDevice
         => UNCHANGED <<poolVars, reclaimables, collecting, resetting>>
  BY DEF Shutdown, ShutdownManager, OwnerLetsGo, DestroyWaiter, DestroyDevice
<1> QED
  BY <1>1, <1>2, <1>3, <1>4, <1>5
     DEF Next, Encode, Complete, Destruct, Manager, Destroy

\* Pools are made before they are anywhere.
LEMMA MadeStep ==
    ASSUME VulkanInv, Next
    PROVE  Made'
<1> USE DEF poolVars, encoderVars, waiterVars, managerVars, lifeVars,
            contextVars, threadVars
<1>0. TypeOK /\ Made /\ \A b \in Actors : Dropped(b)
  BY DEF VulkanInv
<1>1. ASSUME NEW t \in Threads, NEW e \in Encoders, NEW o \in Objects,
             CreateEncoder(t, e, o)
      PROVE  Made'
  <2>1. UNCHANGED <<reclaimables, collecting, resetting>>
    BY <1>1 DEF CreateEncoder
  <2>2. ASSUME NEW x \in Pools, CreatePool(x), pool' = [pool EXCEPT ![o] = x]
        PROVE  Made'
    <3>1. \A q \in Objects : pool'[q] = IF q = o THEN x ELSE pool[q]
      BY <1>0, <2>2 DEF TypeOK
    <3>2. CASE Reuse(x) /\ UNCHANGED created
      <4>1. recycled' = SubSeq(recycled, 1, Len(recycled) - 1) /\ recycled # <<>>
        BY <3>2 DEF Reuse
      <4>2. x \in created
        BY <1>0, <3>2, <4>1, ListShrinks DEF Reuse, Made
      <4>3. \A i \in DOMAIN recycled' : i \in DOMAIN recycled /\ recycled'[i] = recycled[i]
        BY <1>0, <4>1, ListShrinks
      <4>4. \A i \in DOMAIN recycled' : recycled'[i] \in created
        BY <1>0, <4>3 DEF Made
      <4> QED
        BY <1>0, <2>1, <3>1, <3>2, <4>2, <4>4 DEF Made
    <3>3. CASE UNCHANGED recycled /\ created' = created \cup {x}
      BY <1>0, <2>1, <3>1, <3>3 DEF Made
    <3> QED
      BY <2>2, <3>2, <3>3 DEF CreatePool
  <2>3. CASE UNCHANGED poolVars
    BY <1>0, <2>1, <2>3 DEF Made
  <2> QED
    BY <1>0, <1>1, <2>2, <2>3, GetForms DEF CreateEncoder
<1>2. ASSUME NEW a \in Actors, LockContext(a)
      PROVE  Made'
  <2>1. \A o \in Objects : pool'[o] \in {pool[o], None}
    BY <1>0, <1>2 DEF LockContext, TypeOK
  <2> QED
    BY <1>0, <1>2, <2>1 DEF Made, LockContext
<1>3. ASSUME NEW a \in Actors, ReclaimPool(a)
      PROVE  Made'
  <2>1. \A o \in Objects : pool'[o] \in {pool[o], None}
    BY <1>0, <1>3 DEF ReclaimPool, TypeOK
  <2>2. pool[dropping[a]] \in created /\ pool[dropping[a]] \in Pools
    <3>1. dropping[a] \in Objects /\ pool[dropping[a]] # None
      BY <1>0, <1>3, ActorTypes DEF Dropped, ReclaimPool, Destructs, TypeOK
    <3> QED
      BY <1>0, <3>1 DEF TypeOK, Made
  <2>3. UNCHANGED <<created, collecting, resetting>>
    BY <1>3 DEF ReclaimPool
  <2>4. CASE "manager" \in members
    BY <1>0, <1>3, <2>1, <2>2, <2>3, <2>4 DEF Made, ReclaimPool
  <2>5. CASE "manager" \notin members
    <3>1. recycled' = Append(recycled, pool[dropping[a]]) /\ reclaimables' = reclaimables
      BY <1>3, <2>5 DEF ReclaimPool
    <3>2. \A i \in DOMAIN recycled' : recycled'[i] \in created
      BY <1>0, <2>2, <3>1, ListGrows DEF Made
    <3> QED
      BY <1>0, <2>1, <2>3, <3>1, <3>2 DEF Made
  <2> QED
    BY <2>4, <2>5
<1>4. CASE ManagerWakes
  BY <1>0, <1>4 DEF Made, ManagerWakes
<1>5. ASSUME NEW p \in Pools, ResetPool(p)
      PROVE  Made'
  BY <1>0, <1>5 DEF Made, ResetPool
<1>6. CASE Recycle
  <2>1. resetting \in Pools /\ resetting \in created
    BY <1>0, <1>6 DEF Recycle, TypeOK, Made
  <2>2. /\ recycled' = Append(recycled, resetting)
        /\ UNCHANGED <<pool, created, reclaimables, collecting>> /\ resetting' = None
    BY <1>6 DEF Recycle
  <2>3. \A i \in DOMAIN recycled' : recycled'[i] \in created
    BY <1>0, <2>1, <2>2, ListGrows DEF Made
  <2> QED
    BY <1>0, <2>2, <2>3 DEF Made
<1>7. CASE DestroyPools
  <2>1. \A o \in Objects : pool'[o] \in {pool[o], None}
    BY <1>7 DEF DestroyPools
  <2> QED
    BY <1>0, <1>7, <2>1 DEF Made, DestroyPools
<1>8. CASE DestroyManager
  <2>1. DOMAIN recycled' = {}
    BY <1>8 DEF DestroyManager
  <2> QED
    BY <1>0, <1>8, <2>1 DEF Made, DestroyManager
<1>9. CASE UNCHANGED <<poolVars, reclaimables, collecting, resetting>>
  BY <1>0, <1>9 DEF Made
<1> QED
  BY <1>1, <1>2, <1>3, <1>4, <1>5, <1>6, <1>7, <1>8, <1>9, PoolSteps

\* A pool leaves the place it was in before it is in another one.
LEMMA ApartStep ==
    ASSUME VulkanInv, Next, NEW p \in Pools
    PROVE  Apart(p)'
<1> USE DEF poolVars, encoderVars, waiterVars, managerVars, lifeVars,
            contextVars, threadVars
<1>0. TypeOK /\ Made /\ Apart(p) /\ p # None
  BY ActorTypes DEF VulkanInv
<1>1. ASSUME \A o \in Objects : pool'[o] = p => pool[o] = p,
             \A i \in DOMAIN recycled' :
                recycled'[i] = p => i \in DOMAIN recycled /\ recycled[i] = p,
             p \in reclaimables' => p \in reclaimables,
             p \in collecting' => p \in collecting,
             p = resetting' => p = resetting
      PROVE  Apart(p)'
  <2>1. (InObject(p)' => InObject(p)) /\ (InList(p)' => InList(p))
    BY <1>1 DEF InObject, InList
  <2> QED
    BY <1>0, <1>1, <2>1 DEF Apart
<1>2. ASSUME NEW t \in Threads, NEW e \in Encoders, NEW o \in Objects,
             CreateEncoder(t, e, o)
      PROVE  Apart(p)'
  <2>1. UNCHANGED <<reclaimables, collecting, resetting>>
    BY <1>2 DEF CreateEncoder
  <2>2. ASSUME NEW x \in Pools, CreatePool(x), pool' = [pool EXCEPT ![o] = x]
        PROVE  Apart(p)'
    <3>1. \A q \in Objects : pool'[q] = IF q = o THEN x ELSE pool[q]
      BY <1>0, <2>2 DEF TypeOK
    <3>2. CASE Reuse(x)
      <4>1. /\ recycled' = SubSeq(recycled, 1, Len(recycled) - 1) /\ recycled # <<>>
            /\ x = recycled[Len(recycled)]
        BY <3>2 DEF Reuse
      <4>2. \A i \in DOMAIN recycled' :
               i \in DOMAIN recycled /\ recycled'[i] = recycled[i] /\ i # Len(recycled)
        BY <1>0, <4>1, ListShrinks
      <4>3. Len(recycled) \in DOMAIN recycled
        BY <1>0, <4>1, ListShrinks
      <4>4. CASE p = x
        <5>1. InList(p)
          BY <4>1, <4>3, <4>4 DEF InList
        <5>2. ~InList(p)'
          BY <1>0, <4>1, <4>2, <4>3, <4>4 DEF Apart, InList
        <5>3. \A q \in Objects : pool'[q] = p => q = o
          BY <1>0, <3>1, <5>1 DEF Apart, InObject
        <5> QED
          BY <1>0, <2>1, <5>1, <5>2, <5>3 DEF Apart, InList
      <4>5. CASE p # x
        BY <1>1, <2>1, <3>1, <4>2, <4>5
      <4> QED
        BY <4>4, <4>5
    <3>3. CASE x \notin created /\ recycled' = recycled
      <4>1. CASE p = x
        <5>1. ~InObject(p) /\ ~InList(p)
          BY <1>0, <3>3, <4>1 DEF Made, InObject, InList
        <5>2. p \notin reclaimables /\ p \notin collecting /\ p # resetting
          BY <1>0, <3>3, <4>1 DEF Made
        <5>3. ~InList(p)'
          BY <3>3, <5>1 DEF InList
        <5>4. \A q \in Objects : pool'[q] = p => q = o
          BY <3>1, <5>1 DEF InObject
        <5> QED
          BY <2>1, <5>2, <5>3, <5>4 DEF Apart, InList
      <4>2. CASE p # x
        BY <1>1, <2>1, <3>1, <3>3, <4>2
      <4> QED
        BY <4>1, <4>2
    <3>4. created # Pools => Fresh(Pools, created) \notin created
      <4>1. created # Pools => \E y : y \in Pools \ created
        BY <1>0 DEF TypeOK
      <4> QED
        BY <4>1 DEF Fresh
    <3> QED
      BY <2>2, <3>2, <3>3, <3>4 DEF CreatePool
  <2>3. CASE UNCHANGED poolVars
    BY <1>1, <2>1, <2>3
  <2> QED
    BY <1>0, <1>2, <2>2, <2>3, GetForms DEF CreateEncoder
<1>3. ASSUME NEW a \in Actors, LockContext(a)
      PROVE  Apart(p)'
  <2>1. \A o \in Objects : pool'[o] \in {pool[o], None}
    BY <1>0, <1>3 DEF LockContext, TypeOK
  <2> QED
    BY <1>0, <1>1, <1>3, <2>1 DEF LockContext
<1>4. ASSUME NEW a \in Actors, ReclaimPool(a)
      PROVE  Apart(p)'
  <2>0. PICK x \in Pools : x = pool[dropping[a]]
    <3>1. dropping[a] \in Objects /\ pool[dropping[a]] # None
      BY <1>0, <1>4, ActorTypes DEF VulkanInv, Dropped, ReclaimPool, Destructs, TypeOK
    <3> QED
      BY <1>0, <3>1 DEF TypeOK
  <2>1. \A o \in Objects : pool'[o] = IF o = dropping[a] THEN None ELSE pool[o]
    BY <1>0, <1>4 DEF ReclaimPool, TypeOK
  <2>2. UNCHANGED <<collecting, resetting>> /\ dropping[a] \in Objects
    BY <1>0, <1>4 DEF ReclaimPool, Destructs, TypeOK
  <2>3. \/ reclaimables' = reclaimables \cup {x} /\ recycled' = recycled
        \/ recycled' = Append(recycled, x) /\ reclaimables' = reclaimables
    BY <1>4, <2>0 DEF ReclaimPool
  <2>4. recycled' = Append(recycled, x) =>
           /\ \A i \in DOMAIN recycled' : \/ i \in DOMAIN recycled /\ recycled'[i] = recycled[i]
                                          \/ i = Len(recycled) + 1 /\ recycled'[i] = x
    BY <1>0, ListGrows
  <2>5. CASE p = x
    <3>1. InObject(p)
      BY <2>0, <2>2, <2>5 DEF InObject
    <3>2. ~InObject(p)'
      BY <1>0, <2>0, <2>1, <2>2, <2>5 DEF Apart, InObject
    <3>3. ~InList(p) /\ p \notin reclaimables /\ p \notin collecting /\ p # resetting
      BY <1>0, <3>1 DEF Apart
    <3>4. CASE reclaimables' = reclaimables \cup {x} /\ recycled' = recycled
      <4>1. ~InList(p)'
        BY <3>3, <3>4 DEF InList
      <4> QED
        BY <2>2, <3>2, <3>3, <4>1 DEF Apart, InObject, InList
    <3>5. CASE recycled' = Append(recycled, x) /\ reclaimables' = reclaimables
      <4>1. \A i \in DOMAIN recycled' : recycled'[i] = p => i = Len(recycled) + 1
        BY <2>4, <3>3, <3>5 DEF InList
      <4> QED
        BY <2>2, <3>2, <3>3, <3>5, <4>1 DEF Apart, InObject
    <3> QED
      BY <2>3, <3>4, <3>5
  <2>6. CASE p # x
    BY <1>0, <1>1, <2>1, <2>2, <2>3, <2>4, <2>6
  <2> QED
    BY <2>5, <2>6
<1>5. CASE ManagerWakes
  <2>1. /\ UNCHANGED <<pool, recycled, resetting>>
        /\ collecting' = reclaimables /\ reclaimables' = {}
    BY <1>5 DEF ManagerWakes
  <2>2. (InObject(p)' <=> InObject(p)) /\ (InList(p)' <=> InList(p))
    BY <2>1 DEF InObject, InList
  <2> QED
    BY <1>0, <2>1, <2>2 DEF Apart
<1>6. ASSUME NEW x \in Pools, ResetPool(x)
      PROVE  Apart(p)'
  <2>1. /\ UNCHANGED <<pool, recycled, reclaimables>>
        /\ x \in collecting /\ collecting' = collecting \ {x}
        /\ resetting' \in {x, None}
    BY <1>6 DEF ResetPool
  <2>2. (InObject(p)' <=> InObject(p)) /\ (InList(p)' <=> InList(p))
    BY <2>1 DEF InObject, InList
  <2> QED
    BY <1>0, <2>1, <2>2 DEF Apart
<1>7. CASE Recycle
  <2>0. PICK x \in Pools : x = resetting
    BY <1>0, <1>7 DEF Recycle, TypeOK
  <2>1. /\ UNCHANGED <<pool, reclaimables, collecting>> /\ resetting' = None
        /\ recycled' = Append(recycled, x)
    BY <1>7, <2>0 DEF Recycle
  <2>2. \A i \in DOMAIN recycled' : \/ i \in DOMAIN recycled /\ recycled'[i] = recycled[i]
                                    \/ i = Len(recycled) + 1 /\ recycled'[i] = x
    BY <1>0, <2>1, ListGrows
  <2>3. CASE p = x
    <3>1. ~InObject(p) /\ ~InList(p) /\ p \notin reclaimables /\ p \notin collecting
      BY <1>0, <2>0, <2>3 DEF Apart
    <3>2. \A i \in DOMAIN recycled' : recycled'[i] = p => i = Len(recycled) + 1
      BY <2>2, <3>1 DEF InList
    <3>3. ~InObject(p)'
      BY <2>1, <3>1 DEF InObject
    <3> QED
      BY <1>0, <2>1, <3>1, <3>2, <3>3 DEF Apart, InObject
  <2>4. CASE p # x
    BY <1>0, <1>1, <2>1, <2>2, <2>4
  <2> QED
    BY <2>3, <2>4
<1>8. CASE DestroyPools
  <2>1. \A o \in Objects : pool'[o] \in {pool[o], None}
    BY <1>8 DEF DestroyPools
  <2> QED
    BY <1>0, <1>1, <1>8, <2>1 DEF DestroyPools
<1>9. CASE DestroyManager
  <2>1. DOMAIN recycled' = {}
    BY <1>9 DEF DestroyManager
  <2> QED
    BY <1>1, <1>9, <2>1 DEF DestroyManager
<1>10. CASE UNCHANGED <<poolVars, reclaimables, collecting, resetting>>
  BY <1>1, <1>10
<1> QED
  BY <1>2, <1>3, <1>4, <1>5, <1>6, <1>7, <1>8, <1>9, <1>10, PoolSteps

-----------------------------------------------------------------------------
(* Theorems *)

\* The invariant holds before anything was encoded,
LEMMA VulkanInit ==
    ASSUME Init
    PROVE  VulkanInv
<1>1. TypeOK
  <2>1. /\ tls \in [Threads -> Objects \cup {None}]
        /\ tracked \in [Encoders -> Objects \cup {None}]
        /\ home \in [Encoders -> Pools \cup {None}]
        /\ pool \in [Objects -> Pools \cup {None}]
        /\ dropping \in [Actors -> Objects \cup {None}]
        /\ joining \in [Actors -> {"waiter", "manager", None}]
    BY DEF Init
  <2>2. /\ encoder \in [Encoders -> {"none", "recording", "submitting", "added",
                                     "submitted", "gone"}]
        /\ held \in [Encoders -> SUBSET {"encoder", "submit", "entry"}]
        /\ called \in [Encoders -> 0..2]
        /\ stage \in [Actors -> {"none", "entered", "locked", "reclaimed"}]
        /\ erased \in [Actors -> SUBSET Encoders]
    BY DEF Init
  <2>3. recycled \in Seq(Pools)
    BY DEF Init
  <2> QED
    BY <2>1, <2>2, <2>3 DEF Init, TypeOK
<1>2. Owned /\ Last /\ Told /\ Managing
  BY DEF Init, Owned, Last, Told, Managing
<1>3. Joins
  BY ActorTypes DEF Init, Joins
<1>4. \A e \in Encoders : Waiting(e) /\ Holding(e)
  BY DEF Init, Waiting, Holding
<1>5. Ended /\ Owning /\ \A a \in Actors : Dropped(a)
  BY ActorTypes DEF Init, Ended, Owning, Dropped
<1>6. DOMAIN recycled = {} /\ \A p \in Pools : ~InObject(p) /\ ~InList(p)
  BY ActorTypes DEF Init, InObject, InList
<1>7. Made
  BY <1>6 DEF Init, Made
<1>8. \A p \in Pools : Apart(p)
  BY <1>6 DEF Init, Apart, InObject
<1> QED
  BY <1>1, <1>2, <1>3, <1>4, <1>5, <1>7, <1>8 DEF VulkanInv

\* where nothing happens,
LEMMA VulkanStutters ==
    ASSUME VulkanInv, UNCHANGED vars
    PROVE  VulkanInv'
<1> USE DEF vars, poolVars, encoderVars, waiterVars, managerVars, lifeVars,
            contextVars, threadVars
<1>1. TypeOK'
  BY DEF VulkanInv, TypeOK
<1>2. Owned' /\ Last' /\ Told' /\ Managing' /\ Joins'
  BY DEF VulkanInv, Owned, Last, Told, Submitters, Managing, Joins
<1>3. \A e \in Encoders : Waiting(e)' /\ Holding(e)'
  BY DEF VulkanInv, Waiting, Holding, GivenUp
<1>4. Ended' /\ Owning' /\ \A a \in Actors : Dropped(a)'
  BY DEF VulkanInv, Ended, Owning, Dropped
<1>5. Made' /\ \A p \in Pools : Apart(p)'
  BY DEF VulkanInv, Made, Apart, InObject, InList
<1> QED
  BY <1>1, <1>2, <1>3, <1>4, <1>5 DEF VulkanInv

\* and after every step of every thread.
LEMMA VulkanStep ==
    ASSUME VulkanInv, [Next]_vars
    PROVE  VulkanInv'
<1>1. CASE UNCHANGED vars
  BY <1>1, VulkanStutters
<1>2. CASE Next
  <2>1. TypeOK'
    BY <1>2, NextTypes
  <2>2. Owned' /\ Last' /\ Told' /\ Managing' /\ Joins'
    BY <1>2, OwnedStep, LastStep, ToldStep, ManagingStep, JoinsStep
  <2>3. Ended' /\ \A e \in Encoders : Waiting(e)' /\ Holding(e)'
    BY <1>2, EndedStep, WaitingStep, HoldingStep
  <2>4. Owning' /\ \A a \in Actors : Dropped(a)'
    BY <1>2, OwningStep, DroppedStep
  <2>5. Made' /\ \A p \in Pools : Apart(p)'
    BY <1>2, MadeStep, ApartStep
  <2> QED
    BY <2>1, <2>2, <2>3, <2>4, <2>5 DEF VulkanInv
<1> QED
  BY <1>1, <1>2

\* The inductive invariant holds whatever the threads, the GPU and the owner
\* of the context do.
THEOREM VulkanInvariant == Spec => []VulkanInv
<1>1. Init => VulkanInv
  BY VulkanInit
<1>2. VulkanInv /\ [Next]_vars => VulkanInv'
  BY VulkanStep
<1> QED
  BY <1>1, <1>2, PTL DEF Spec

\* Every variable keeps its type; the list of recycled pools never holds a
\* pool that was moved away.
THEOREM TypeCorrect == Spec => []TypeOK
<1>1. VulkanInv => TypeOK
  BY DEF VulkanInv
<1> QED
  BY <1>1, VulkanInvariant, PTL

\* However many threads encode and whichever of them, or of the context's own
\* threads, drops the last reference: the pool of a buffer that the GPU may
\* still execute stays with its object, until a waiter is destroyed whose
\* thread ended when a wait failed.
THEOREM PendingKept == Spec => []PendingKeepsPool
<1>1. VulkanInv => PendingKeepsPool
  <2> SUFFICES ASSUME VulkanInv, NEW e \in gpu
               PROVE  \/ tracked[e] # None /\ pool[tracked[e]] = home[e]
                      \/ GivenUp
    BY DEF PendingKeepsPool
  <2>1. e \in Encoders /\ Waiting(e) /\ Holding(e)
    BY DEF VulkanInv, TypeOK
  <2>2. tracked[e] # None \/ GivenUp
    BY <2>1 DEF Waiting, Holding
  <2>3. context \in {"alive", "dying"}
    BY DEF VulkanInv, Ended
  <2> QED
    BY <2>1, <2>2, <2>3 DEF VulkanInv, Owning
<1> QED
  BY <1>1, VulkanInvariant, PTL

\* Submit, the waiter's thread and whoever destroys the waiter do not call the
\* callback twice between them, nor before the GPU is done, unless a wait
\* failed.
THEOREM CallbackOnce == Spec => []CalledOnce
<1>1. VulkanInv => CalledOnce
  <2> SUFFICES ASSUME VulkanInv, NEW e \in Encoders
               PROVE  /\ called[e] <= 1
                      /\ called[e] = 1 => e \notin gpu \/ GivenUp
    BY DEF CalledOnce
  <2>1. Waiting(e)
    BY DEF VulkanInv
  <2> QED
    BY <2>1 DEF Waiting
<1> QED
  BY <1>1, VulkanInvariant, PTL

\* The thread that destroys the waiter or the manager is not the one that it
\* joins, whichever thread gives up the last reference, if the owner calls
\* Shutdown before it lets go.
THEOREM NeverJoinsItself == Spec => []NoSelfJoin
<1>1. VulkanInv => NoSelfJoin
  <2> SUFFICES ASSUME VulkanInv, NEW a \in Actors, shutdown # "abandoned"
               PROVE  joining[a] # a
    BY DEF NoSelfJoin
  <2>1. joining[a] \in {"waiter", "manager", None} /\ a # None
    BY ActorTypes DEF VulkanInv, TypeOK
  <2>2. joining["manager"] = None /\ joining["waiter"] # "waiter"
    BY DEF VulkanInv, Joins
  <2>3. a \notin {"waiter", "manager"} => joining[a] # a
    BY <2>1
  <2> QED
    BY <2>1, <2>2, <2>3
<1> QED
  BY <1>1, VulkanInvariant, PTL

\* No pool is given to the manager once its thread has looked for the last
\* time.
THEOREM NothingIsLeft == Spec => []NothingLeft
<1>1. VulkanInv => NothingLeft
  BY DEF VulkanInv, Managing, NothingLeft
<1> QED
  BY <1>1, VulkanInvariant, PTL

\* A set without two elements has at most one.
LEMMA AtMostOne ==
    ASSUME NEW S, \A x, y \in S : x = y
    PROVE  /\ Cardinality(S) \in {0, 1}
           /\ S = {} => Cardinality(S) = 0
<1>1. CASE S = {}
  BY <1>1, FS_EmptySet
<1>2. CASE S # {}
  <2>1. PICK x : x \in S
    BY <1>2
  <2>2. S = {x}
    BY <2>1
  <2> QED
    BY <1>2, <2>2, FS_Singleton
<1> QED
  BY <1>1, <1>2

\* The threads that encode, the manager's thread and the recycler hand a pool
\* around without ever having it twice.
THEOREM PoolPlacedOnce == Spec => []PoolInOnePlace
<1>1. VulkanInv => PoolInOnePlace
  <2> SUFFICES ASSUME VulkanInv, NEW p \in created
               PROVE  Cardinality({o \in Objects : pool[o] = p})
                        + Cardinality({i \in DOMAIN recycled : recycled[i] = p})
                        + Cardinality({s \in {<<1, reclaimables>>, <<2, collecting>>,
                                              <<3, {resetting}>>} : p \in s[2]}) <= 1
    BY DEF PoolInOnePlace
  <2> DEFINE A == {o \in Objects : pool[o] = p}
             B == {i \in DOMAIN recycled : recycled[i] = p}
             C == {s \in {<<1, reclaimables>>, <<2, collecting>>,
                          <<3, {resetting}>>} : p \in s[2]}
  <2>1. Apart(p)
    BY DEF VulkanInv, TypeOK
  <2>2. (A # {} => InObject(p)) /\ (B # {} => InList(p))
    BY DEF InObject, InList
  <2>3. /\ <<1, reclaimables>> \in C => p \in reclaimables
        /\ <<2, collecting>> \in C => p \in collecting
        /\ <<3, {resetting}>> \in C => p = resetting
    OBVIOUS
  <2>4. \A s \in C : s \in {<<1, reclaimables>>, <<2, collecting>>, <<3, {resetting}>>}
    OBVIOUS
  <2> HIDE DEF C
  <2>5. \A x, y \in C : x = y
    BY <2>1, <2>3, <2>4 DEF Apart
  <2>6. (A # {} => B = {} /\ C = {}) /\ (B # {} => C = {})
    BY <2>1, <2>2, <2>3, <2>4 DEF Apart, InList
  <2>7. (\A x, y \in A : x = y) /\ (\A x, y \in B : x = y)
    BY <2>1 DEF Apart
  <2> HIDE DEF A, B
  <2>8. /\ Cardinality(A) \in {0, 1} /\ (A = {} => Cardinality(A) = 0)
        /\ Cardinality(B) \in {0, 1} /\ (B = {} => Cardinality(B) = 0)
        /\ Cardinality(C) \in {0, 1} /\ (C = {} => Cardinality(C) = 0)
    BY <2>5, <2>7, AtMostOne
  <2>9. Cardinality(A) + Cardinality(B) + Cardinality(C) <= 1
    BY <2>6, <2>8
  <2> QED
    BY <2>9 DEF A, B, C
<1> QED
  BY <1>1, VulkanInvariant, PTL
=============================================================================
