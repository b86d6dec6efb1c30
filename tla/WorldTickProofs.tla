-------------------------- MODULE WorldTickProofs --------------------------
(***************************************************************************)
(* Theorems about the threads that work beside the world thread in a tick. *)
(* MapUpdater, for any number of map threads, maps and instances and any   *)
(* queue capacity: the counter of MapUpdater counts the outstanding        *)
(* requests, the world thread is alone with the maps after                 *)
(* MapUpdater::wait, every map is updated once in a tick, and none is      *)
(* deleted under a request.  AuctionListing, for any searches and players: *)
(* the listing thread stays out of the section in which World::Update      *)
(* changes auctions and sessions, and every search is in one place.        *)
(***************************************************************************)
EXTENDS MapUpdater, AuctionListing, FiniteSetTheorems, SequenceTheorems,
        WellFoundedInduction, TLAPS

-----------------------------------------------------------------------------
(* The map update pool: the inductive invariants.                          *)

\* A thread inside schedule_update has a request to enqueue, a map thread
\* that is not idle has one to call.
HandlesRequest ==
    /\ \A t \in Threads : pc[t] = "enqueue" => arg[t] \in Tasks
    /\ \A w \in BusyWorkers : request[w] \in Tasks

\* A pool that is not activated has nothing to do: it was never started, or
\* it was deactivated after MapUpdater::wait.
InactivePool ==
    ~activated => queue = <<>> /\ BusyWorkers = {} /\ pc[World] # "enqueue"

\* The inductive invariant.
IInv == TypeOK /\ HandlesRequest /\ MutexHolder /\ PendingCountsRequests /\ Barrier /\ InactivePool

-----------------------------------------------------------------------------
(* The way of a map, or of the LFG manager, through a tick: to be visited, *)
(* being enqueued, queued, called, done.                                   *)

ToVisit == UNION {todo[t] : t \in Threads}
Entered == {arg[t] : t \in Threads} \ {None}
InQueue == {queue[n] : n \in DOMAIN queue}
Called  == {request[w] : w \in {v \in Workers : pc[v] = "call"}}

\* It is at one stage at a time, ...
StagesApart ==
    /\ ToVisit \cap (Entered \cup InQueue \cup Called \cup done) = {}
    /\ Entered \cap (InQueue \cup Called \cup done) = {}
    /\ InQueue \cap (Called \cup done) = {}
    /\ Called \cap done = {}

\* ... and there once.
NoDuplicates ==
    /\ \A m, n \in DOMAIN queue : queue[m] = queue[n] => m = n
    /\ \A v, w \in Workers : request[v] = request[w] /\ request[v] # None => v = w

\* A thread has something to enqueue only in schedule_update, and a map thread
\* has a request only while it is busy; past the call it has been updated.
ThreadsHave ==
    /\ \A t \in Threads : arg[t] # None => pc[t] = "enqueue"
    /\ \A w \in Workers : request[w] # None => w \in BusyWorkers
    /\ \A w \in BusyWorkers : pc[w] # "call" => request[w] \in done

\* In their loops the world thread visits base maps, and a map thread the
\* instances of its container.
ThreadsVisit ==
    /\ todo[World] \subseteq {LFG} \cup maps
    /\ todo[World] # {} => pc[World] \in {"loop", "enqueue"}
    /\ \A w \in Workers : \A i \in todo[w] :
          i \in inst /\ ParentOf[i] = request[w] /\ pc[w] \in {"loop", "enqueue"}

\* An instance comes to be scheduled only when its container was updated.
ParentsFirst ==
    \A i \in Instances :
        i \in Entered \cup InQueue \cup Called \cup done => ParentOf[i] \in done

\* A request that has been made is one for a map that is there.
RequestsAlive ==
    /\ Entered \cup InQueue \subseteq {LFG} \cup maps \cup inst
    /\ \A w \in Workers : request[w] \in {None, LFG} \cup maps \cup inst

\* In a tick nothing is passed over: a base map is at one of the stages, and
\* so is an instance once its container was updated, unless it is skipped.
NothingMissed ==
    pc[World] \in {"loop", "enqueue", "wait", "sleep", "delayed"} /\ ~stopping =>
        /\ {LFG} \cup maps \subseteq ToVisit \cup Entered \cup InQueue \cup Called \cup done
        /\ \A i \in inst : ParentOf[i] \in done =>
              i \in ToVisit \cup Entered \cup InQueue \cup Called \cup done \cup skipped

\* The pool is open exactly while it is activated, the world thread shuts down
\* once, and the container of an instance is there.
PoolAndMaps ==
    /\ open = activated
    /\ stopping => pc[World] \in {"wait", "sleep", "close", "join", "stopped"}
    /\ \A i \in inst : ParentOf[i] \in maps

StageInv ==
    /\ StagesApart
    /\ NoDuplicates
    /\ ThreadsHave
    /\ ThreadsVisit
    /\ ParentsFirst
    /\ RequestsAlive
    /\ NothingMissed
    /\ PoolAndMaps

-----------------------------------------------------------------------------
\* The set of busy map threads is finite, so its cardinality counts it.
LEMMA BusyFinite ==
    /\ IsFiniteSet(BusyWorkers)
    /\ Cardinality(BusyWorkers) \in Nat
    /\ Cardinality(BusyWorkers) = 0 <=> BusyWorkers = {}
<1>1. BusyWorkers \subseteq Workers BY DEF BusyWorkers
<1>2. IsFiniteSet(BusyWorkers) BY <1>1, ThreadAssumption, FS_Subset
<1> QED BY <1>2, FS_CardinalityType, FS_EmptySet

\* A map thread that takes a request joins the busy ones.
LEMMA BusyJoin ==
    ASSUME NEW w \in Workers, w \notin BusyWorkers, BusyWorkers' = BusyWorkers \cup {w}
    PROVE  Cardinality(BusyWorkers') = Cardinality(BusyWorkers) + 1
BY BusyFinite, FS_AddElement

\* A map thread that has finished its request leaves them.
LEMMA BusyLeave ==
    ASSUME NEW w \in Workers, w \in BusyWorkers, BusyWorkers' = BusyWorkers \ {w}
    PROVE  /\ Cardinality(BusyWorkers') = Cardinality(BusyWorkers) - 1
           /\ Cardinality(BusyWorkers) >= 1
<1>1. Cardinality(BusyWorkers') = Cardinality(BusyWorkers) - 1
  BY BusyFinite, FS_RemoveElement
<1>2. Cardinality(BusyWorkers) # 0 BY BusyFinite
<1> QED BY <1>1, <1>2, BusyFinite

LEMMA InitIInv == Init => IInv
<1> SUFFICES ASSUME Init PROVE IInv
  OBVIOUS
<1>1. BusyWorkers = {} BY DEF Init, BusyWorkers, Threads
<1>2. TypeOK
  <2>1. activated \in BOOLEAN /\ open \in BOOLEAN BY Zenon DEF Init
  <2>2. request \in [Workers -> Tasks \cup {None}] BY DEF Init
  <2>3. /\ pc \in [Threads -> WorldLabels \cup WorkerLabels]
        /\ pc[World] \in WorldLabels
        /\ \A w \in Workers : pc[w] \in WorkerLabels
    <3>1. pc = [t \in Threads |-> IF t \in Workers /\ ~activated THEN "exit" ELSE "idle"]
      BY Zenon DEF Init
    <3>2. \A t \in Threads : pc[t] = "exit" \/ pc[t] = "idle" BY <3>1
    <3>3. pc[World] = "idle" BY <3>1, ThreadAssumption DEF Threads
    <3> QED BY <3>1, <3>2, <3>3 DEF Threads, WorldLabels, WorkerLabels
  <2>4. /\ todo \in [Threads -> SUBSET Tasks]
        /\ arg \in [Threads -> Tasks \cup {None}]
    BY DEF Init
  <2>5. queue \in Seq(Tasks) /\ pending \in Nat BY DEF Init
  <2> QED BY <2>3, <2>4, <2>5, <2>1, <2>2, ThreadAssumption DEF Init, TypeOK, Threads, WorldLabels, WorkerLabels
<1>3. HandlesRequest BY <1>1 DEF Init, HandlesRequest
<1>4. MutexHolder BY ThreadAssumption DEF Init, MutexHolder
<1>5. PendingCountsRequests BY <1>1, FS_EmptySet DEF Init, PendingCountsRequests
<1>6. Barrier BY <1>1 DEF Init, Barrier
<1>7. InactivePool BY <1>1 DEF Init, InactivePool, Threads
<1> QED BY <1>2, <1>3, <1>4, <1>5, <1>6, <1>7 DEF IInv

\* One step of the specification, type correctness.
LEMMA TypeStep == IInv /\ [Next]_vars => TypeOK'
<1> SUFFICES ASSUME IInv, [Next]_vars PROVE TypeOK'
  OBVIOUS
<1> USE ThreadAssumption, TaskAssumption, CapacityAssumption DEF IInv, TypeOK, Threads, WorldLabels, WorkerLabels
<1>1. ASSUME NEW m \in BaseMaps, CreateBaseMap(m) PROVE TypeOK'
  BY <1>1 DEF CreateBaseMap
<1>2. ASSUME NEW i \in Instances, CreateInstance(i) PROVE TypeOK'
  BY <1>2 DEF CreateInstance
<1>3. CASE BeginUpdate
  BY <1>3 DEF BeginUpdate, Tasks
<1>4. CASE UnloadAll
  BY <1>4 DEF UnloadAll
<1>5. CASE SpuriousWakeup
  BY <1>5 DEF SpuriousWakeup
<1>6. ASSUME NEW x \in Tasks, ScheduleFromTick(x) PROVE TypeOK'
  BY <1>6 DEF ScheduleFromTick, EnterSchedule
<1>7. ASSUME NEW t \in Threads, Enqueue(t) PROVE TypeOK'
  <2>1. arg[t] \in Tasks BY <1>7 DEF Enqueue, HandlesRequest
  <2>2. mutex = t BY <1>7 DEF Enqueue, MutexHolder
  <2>3. pending - 1 \in Nat BY <2>2, BusyFinite DEF PendingCountsRequests
  <2> QED BY <1>7, <2>1, <2>3 DEF Enqueue
<1>8. ASSUME NEW x \in {LFG} \cup BaseMaps, NEW gone \in SUBSET Instances,
             NEW kept \in SUBSET Instances, UpdateInline(x, gone, kept)
      PROVE TypeOK'
  BY <1>8 DEF UpdateInline, ChildrenOf, Tasks
<1>9. CASE EndLoop
  BY <1>9 DEF EndLoop
<1>10. CASE Wait
  BY <1>10 DEF Wait
<1>11. CASE DelayedUpdate
  BY <1>11 DEF DelayedUpdate
<1>12. CASE Deactivate
  BY <1>12 DEF Deactivate
<1>13. CASE Join
  BY <1>13 DEF Join
<1>14. ASSUME NEW w \in Workers, Dequeue(w) PROVE TypeOK'
  BY <1>14 DEF Dequeue
<1>15. ASSUME NEW w \in Workers, Exit(w) PROVE TypeOK'
  BY <1>15 DEF Exit
<1>16. ASSUME NEW w \in Workers, Call(w) PROVE TypeOK'
  <2>1. request[w] \in Tasks BY <1>16 DEF Call, HandlesRequest, BusyWorkers
  <2> QED BY <1>16, <2>1 DEF Call, ChildrenOf, Tasks
<1>17. ASSUME NEW w \in Workers, NEW i \in Instances, DestroyInstance(w, i) PROVE TypeOK'
  BY <1>17 DEF DestroyInstance
<1>18. ASSUME NEW w \in Workers, NEW i \in Instances, KeepInstance(w, i) PROVE TypeOK'
  BY <1>18 DEF KeepInstance
<1>19. ASSUME NEW w \in Workers, NEW i \in Instances, ScheduleInstance(w, i) PROVE TypeOK'
  BY <1>19 DEF ScheduleInstance, EnterSchedule, Tasks
<1>20. ASSUME NEW w \in Workers, EndInstances(w) PROVE TypeOK'
  BY <1>20 DEF EndInstances
<1>21. ASSUME NEW w \in Workers, UpdateFinished(w) PROVE TypeOK'
  BY <1>21 DEF UpdateFinished
<1>22. CASE UNCHANGED vars
  BY <1>22 DEF vars
<1> QED
  BY <1>1, <1>2, <1>3, <1>4, <1>5, <1>6, <1>7, <1>8, <1>9, <1>10, <1>11, <1>12, <1>13,
     <1>14, <1>15, <1>16, <1>17, <1>18, <1>19, <1>20, <1>21, <1>22
     DEF Next, Tick, Worker, Terminating

\* The invariant but for its types.
Counts == HandlesRequest /\ MutexHolder /\ PendingCountsRequests /\ Barrier /\ InactivePool

\* A step that touches neither the threads nor the requests preserves it.
LEMMA QuietStep ==
    ASSUME IInv, UNCHANGED <<activated, pc, queue, pending, mutex, arg, request>>
    PROVE  Counts'
<1>1. BusyWorkers' = BusyWorkers BY DEF BusyWorkers
<1> QED
  BY <1>1 DEF IInv, Counts, HandlesRequest, MutexHolder, PendingCountsRequests, Barrier, InactivePool

\* The world thread moves outside schedule_update; it only passes the barrier
\* when nothing is outstanding.
LEMMA WorldStep ==
    ASSUME IInv, NEW l \in WorldLabels \ {"enqueue"}, pc[World] # "enqueue",
           pc' = [pc EXCEPT ![World] = l],
           l \in {"loop", "wait", "sleep"} \/ (queue = <<>> /\ BusyWorkers = {}),
           activated' = activated \/ (queue = <<>> /\ BusyWorkers = {}),
           UNCHANGED <<queue, pending, mutex, arg, request>>
    PROVE  Counts'
<1> USE ThreadAssumption DEF IInv, TypeOK, Threads
<1>1. BusyWorkers' = BusyWorkers BY DEF BusyWorkers
<1>2. HandlesRequest' BY <1>1 DEF HandlesRequest
<1>3. MutexHolder' BY DEF MutexHolder
<1>4. PendingCountsRequests' BY <1>1 DEF PendingCountsRequests
<1>5. Barrier' /\ InactivePool' BY <1>1 DEF Barrier, InactivePool
<1> QED BY <1>2, <1>3, <1>4, <1>5 DEF Counts

\* A busy map thread moves on within its request, outside schedule_update.
LEMMA WorkerStep ==
    ASSUME IInv, NEW w \in Workers, NEW l \in {"loop", "finish"},
           pc[w] \in {"call", "loop"}, pc' = [pc EXCEPT ![w] = l],
           UNCHANGED <<activated, queue, pending, mutex, arg, request>>
    PROVE  Counts'
<1> USE ThreadAssumption DEF IInv, TypeOK, Threads
<1>1. BusyWorkers' = BusyWorkers BY DEF BusyWorkers
<1>2. HandlesRequest' BY <1>1 DEF HandlesRequest
<1>3. MutexHolder' BY DEF MutexHolder
<1>4. PendingCountsRequests' BY <1>1 DEF PendingCountsRequests
<1>5. Barrier' /\ InactivePool' BY <1>1 DEF Barrier, InactivePool
<1> QED BY <1>2, <1>3, <1>4, <1>5 DEF Counts

\* schedule_update counts the request before it is in the queue.
LEMMA ScheduleStep ==
    ASSUME IInv, NEW t \in Threads, NEW x \in Tasks, pc[t] = "loop", EnterSchedule(t, x),
           activated \/ t \in Workers,
           UNCHANGED <<activated, queue, request>>
    PROVE  Counts'
<1> USE ThreadAssumption, BusyFinite DEF IInv, TypeOK, Threads
<1>1. BusyWorkers' = BusyWorkers BY DEF EnterSchedule, BusyWorkers
<1>2. HandlesRequest' BY <1>1 DEF EnterSchedule, HandlesRequest
<1>3. MutexHolder' BY DEF EnterSchedule, MutexHolder
<1>4. PendingCountsRequests' BY <1>1 DEF EnterSchedule, PendingCountsRequests
<1>5. Barrier' BY <1>1 DEF EnterSchedule, Barrier, BusyWorkers
<1>6. InactivePool' BY <1>1 DEF EnterSchedule, InactivePool, BusyWorkers
<1> QED BY <1>2, <1>3, <1>4, <1>5, <1>6 DEF Counts

\* The request enters the queue, or the count is taken back.
LEMMA EnqueueStep ==
    ASSUME IInv, NEW t \in Threads, Enqueue(t)
    PROVE  Counts'
<1> USE ThreadAssumption, BusyFinite DEF IInv, TypeOK, Threads, Enqueue
<1>1. BusyWorkers' = BusyWorkers BY DEF BusyWorkers
<1>2. mutex = t /\ arg[t] \in Tasks BY DEF MutexHolder, HandlesRequest
<1>3. HandlesRequest' BY <1>1 DEF HandlesRequest
<1>4. MutexHolder' BY <1>2 DEF MutexHolder
<1>5. PendingCountsRequests'
  <2>1. open => Len(queue') = Len(queue) + 1 BY <1>2
  <2> QED BY <1>1, <1>2, <2>1 DEF PendingCountsRequests
<1>6. pc[World] = "enqueue" \/ BusyWorkers # {} BY DEF BusyWorkers
<1>7. Barrier' BY <1>1, <1>6 DEF Barrier, BusyWorkers
<1>8. InactivePool' BY <1>1, <1>6 DEF InactivePool
<1> QED BY <1>3, <1>4, <1>5, <1>7, <1>8 DEF Counts

\* MapUpdater::wait is left only when the count is zero, and then nothing is
\* outstanding: m_mutex is free, so no schedule_update is under way.
LEMMA WaitStep == ASSUME IInv, Wait PROVE Counts'
<1> DEFINE l == IF pending > 0 THEN "sleep" ELSE IF stopping THEN "close" ELSE "delayed"
<1>1. ~ (pending > 0) => queue = <<>> /\ BusyWorkers = {}
  <2> SUFFICES ASSUME ~ (pending > 0) PROVE queue = <<>> /\ BusyWorkers = {}
    OBVIOUS
  <2>1. pending = 0 BY DEF IInv, TypeOK
  <2>2. Len(queue) \in Nat BY DEF IInv, TypeOK
  <2>3. 0 = Len(queue) + Cardinality(BusyWorkers)
    BY <2>1, <2>2, BusyFinite DEF IInv, PendingCountsRequests, Wait
  <2>4. Len(queue) = 0 /\ Cardinality(BusyWorkers) = 0 BY <2>2, <2>3, BusyFinite
  <2> QED BY <2>4, BusyFinite DEF IInv, TypeOK
<1>2. l \in WorldLabels \ {"enqueue"} BY DEF WorldLabels
<1>3. l \in {"loop", "wait", "sleep"} \/ (queue = <<>> /\ BusyWorkers = {}) BY <1>1
<1>4. pc' = [pc EXCEPT ![World] = l] /\ pc[World] # "enqueue" BY DEF Wait
<1> HIDE DEF l
<1> QED BY <1>2, <1>3, <1>4, WorldStep DEF Wait

\* A map thread takes a request over from the queue.
LEMMA DequeueStep == ASSUME IInv, NEW w \in Workers, Dequeue(w) PROVE Counts'
<1> USE ThreadAssumption, BusyFinite DEF IInv, TypeOK, Threads, Dequeue
<1>1. w \notin BusyWorkers /\ BusyWorkers' = BusyWorkers \cup {w} BY DEF BusyWorkers
<1>2. Len(queue') = Len(queue) - 1 /\ Head(queue) \in Tasks OBVIOUS
<1>3. HandlesRequest' BY <1>1, <1>2 DEF HandlesRequest
<1>4. MutexHolder' BY DEF MutexHolder
<1>5. PendingCountsRequests'
  <2>1. Cardinality(BusyWorkers') = Cardinality(BusyWorkers) + 1 BY <1>1, BusyJoin
  <2>2. Len(queue) \in Nat OBVIOUS
  <2> QED BY <1>2, <2>1, <2>2 DEF PendingCountsRequests
<1>6. Barrier' BY DEF Barrier
<1>7. InactivePool' BY DEF InactivePool
<1> QED BY <1>3, <1>4, <1>5, <1>6, <1>7 DEF Counts

\* update_finished takes the request off the count; its error branch is dead.
LEMMA FinishStep == ASSUME IInv, NEW w \in Workers, UpdateFinished(w) PROVE Counts'
<1> USE ThreadAssumption, BusyFinite DEF IInv, TypeOK, Threads, UpdateFinished
<1>1. w \in BusyWorkers /\ BusyWorkers' = BusyWorkers \ {w} BY DEF BusyWorkers
<1>2. /\ Cardinality(BusyWorkers') = Cardinality(BusyWorkers) - 1
      /\ Cardinality(BusyWorkers) >= 1
  BY <1>1, BusyLeave
<1>3. HandlesRequest' BY <1>1 DEF HandlesRequest
<1>4. MutexHolder' BY DEF MutexHolder
<1>5. PendingCountsRequests'
  <2>1. Len(queue) \in Nat OBVIOUS
  <2>2. pending >= 1 BY <1>2, <2>1 DEF PendingCountsRequests
  <2> QED BY <1>2, <2>1, <2>2 DEF PendingCountsRequests
<1>6. Barrier' BY <1>1 DEF Barrier
<1>7. InactivePool' BY <1>1 DEF InactivePool
<1> QED BY <1>3, <1>4, <1>5, <1>6, <1>7 DEF Counts

\* One step of the specification, the counter and the barrier.
LEMMA CountStep == IInv /\ [Next]_vars => Counts'
<1> SUFFICES ASSUME IInv, [Next]_vars PROVE Counts'
  OBVIOUS
<1> USE DEF WorldLabels
<1>1. ASSUME NEW m \in BaseMaps, CreateBaseMap(m) PROVE Counts'
  BY <1>1, QuietStep DEF CreateBaseMap
<1>2. ASSUME NEW i \in Instances, CreateInstance(i) PROVE Counts'
  BY <1>2, QuietStep DEF CreateInstance
<1>3. CASE BeginUpdate
  BY <1>3, WorldStep DEF BeginUpdate
<1>4. CASE UnloadAll
  <2>1. queue = <<>> /\ BusyWorkers = {} BY <1>4 DEF UnloadAll, IInv, Barrier
  <2>2. (IF activated THEN "wait" ELSE "stopped") \in WorldLabels \ {"enqueue"} OBVIOUS
  <2> QED BY <1>4, <2>1, <2>2, WorldStep DEF UnloadAll
<1>5. CASE SpuriousWakeup
  BY <1>5, WorldStep DEF SpuriousWakeup
<1>6. ASSUME NEW x \in Tasks, ScheduleFromTick(x) PROVE Counts'
  BY <1>6, ScheduleStep DEF ScheduleFromTick, Threads
<1>7. ASSUME NEW t \in Threads, Enqueue(t) PROVE Counts'
  BY <1>7, EnqueueStep
<1>8. ASSUME NEW x \in {LFG} \cup BaseMaps, NEW gone \in SUBSET Instances,
             NEW kept \in SUBSET Instances, UpdateInline(x, gone, kept)
      PROVE Counts'
  BY <1>8, QuietStep DEF UpdateInline
<1>9. CASE EndLoop
  <2>1. ~activated => queue = <<>> /\ BusyWorkers = {} BY DEF IInv, InactivePool
  <2>2. (IF activated THEN "wait" ELSE "delayed") \in WorldLabels \ {"enqueue"} OBVIOUS
  <2> QED BY <1>9, <2>1, <2>2, WorldStep DEF EndLoop
<1>10. CASE Wait
  BY <1>10, WaitStep
<1>11. CASE DelayedUpdate
  <2>1. queue = <<>> /\ BusyWorkers = {} BY <1>11 DEF DelayedUpdate, IInv, Barrier
  <2> QED BY <1>11, <2>1, WorldStep DEF DelayedUpdate
<1>12. CASE Deactivate
  <2>1. queue = <<>> /\ BusyWorkers = {} BY <1>12 DEF Deactivate, IInv, Barrier
  <2> QED BY <1>12, <2>1, WorldStep DEF Deactivate
<1>13. CASE Join
  <2>1. queue = <<>> /\ BusyWorkers = {} BY <1>13 DEF Join, IInv, Barrier
  <2> QED BY <1>13, <2>1, WorldStep DEF Join
<1>14. ASSUME NEW w \in Workers, Dequeue(w) PROVE Counts'
  BY <1>14, DequeueStep
<1>15. ASSUME NEW w \in Workers, Exit(w) PROVE Counts'
  <2> USE ThreadAssumption DEF IInv, TypeOK, Threads, Exit
  <2>1. BusyWorkers' = BusyWorkers BY <1>15 DEF BusyWorkers
  <2>2. HandlesRequest' BY <1>15, <2>1 DEF HandlesRequest
  <2>3. MutexHolder' BY <1>15 DEF MutexHolder
  <2>4. PendingCountsRequests' BY <1>15, <2>1 DEF PendingCountsRequests
  <2>5. Barrier' /\ InactivePool' BY <1>15, <2>1 DEF Barrier, InactivePool
  <2> QED BY <2>2, <2>3, <2>4, <2>5 DEF Counts
<1>16. ASSUME NEW w \in Workers, Call(w) PROVE Counts'
  BY <1>16, WorkerStep DEF Call
<1>17. ASSUME NEW w \in Workers, NEW i \in Instances, DestroyInstance(w, i) PROVE Counts'
  BY <1>17, QuietStep DEF DestroyInstance
<1>18. ASSUME NEW w \in Workers, NEW i \in Instances, KeepInstance(w, i) PROVE Counts'
  BY <1>18, QuietStep DEF KeepInstance
<1>19. ASSUME NEW w \in Workers, NEW i \in Instances, ScheduleInstance(w, i) PROVE Counts'
  BY <1>19, ScheduleStep DEF ScheduleInstance, Threads, Tasks
<1>20. ASSUME NEW w \in Workers, EndInstances(w) PROVE Counts'
  BY <1>20, WorkerStep DEF EndInstances
<1>21. ASSUME NEW w \in Workers, UpdateFinished(w) PROVE Counts'
  BY <1>21, FinishStep
<1>22. CASE UNCHANGED vars
  BY <1>22, QuietStep DEF vars
<1> QED
  BY <1>1, <1>2, <1>3, <1>4, <1>5, <1>6, <1>7, <1>8, <1>9, <1>10, <1>11, <1>12, <1>13,
     <1>14, <1>15, <1>16, <1>17, <1>18, <1>19, <1>20, <1>21, <1>22
     DEF Next, Tick, Worker, Terminating, Threads

\* The invariant holds in every reachable state.
LEMMA Invariance == Spec => []IInv
<1>1. IInv /\ [Next]_vars => IInv' BY TypeStep, CountStep DEF IInv, Counts
<1> QED BY InitIInv, <1>1, PTL DEF Spec

-----------------------------------------------------------------------------
(* The stages of a tick.                                                   *)

\* At the start nothing is under way.
LEMMA InitStage == Init => StageInv
<1> SUFFICES ASSUME Init PROVE StageInv
  OBVIOUS
<1>1. BusyWorkers = {} /\ pc[World] = "idle"
  <2>1. pc = [t \in Threads |-> IF t \in Workers /\ ~activated THEN "exit" ELSE "idle"]
    BY Zenon DEF Init
  <2> QED BY <2>1, ThreadAssumption DEF BusyWorkers, Threads
<1>2. ToVisit = {} /\ Entered = {} /\ InQueue = {} /\ Called = {}
  BY <1>1 DEF Init, ToVisit, Entered, InQueue, Called, BusyWorkers
<1>3. StagesApart BY <1>2 DEF StagesApart
<1>4. NoDuplicates BY DEF Init, NoDuplicates
<1>5. ThreadsHave /\ ThreadsVisit BY <1>1 DEF Init, ThreadsHave, ThreadsVisit, Threads
<1>6. ParentsFirst BY <1>2 DEF Init, ParentsFirst
<1>7. RequestsAlive BY <1>2 DEF Init, RequestsAlive
<1>8. NothingMissed BY <1>1 DEF NothingMissed
<1>9. PoolAndMaps
  <2>1. open = activated /\ stopping = FALSE /\ inst = {} BY Zenon DEF Init
  <2> QED BY <2>1 DEF PoolAndMaps
<1> QED BY <1>3, <1>4, <1>5, <1>6, <1>7, <1>8, <1>9 DEF StageInv

\* A map is on one thread's list only.
LEMMA VisitedOnce ==
    ASSUME IInv, StageInv, NEW t \in Threads, NEW u \in Threads,
           NEW x \in todo[t], x \in todo[u]
    PROVE  t = u
<1> USE TaskAssumption, ThreadAssumption DEF IInv, StageInv, ThreadsVisit, Threads
<1>1. \A w \in Workers : \A i \in todo[w] : i \in Instances /\ request[w] \in Containers /\ request[w] # None
  BY DEF TypeOK, Tasks, BaseMaps
<1>2. \A i \in todo[World] : i \notin Instances
  BY DEF TypeOK
<1>3. CASE t = World \/ u = World
  BY <1>1, <1>2, <1>3
<1>4. CASE t \in Workers /\ u \in Workers
  <2>1. request[t] = ParentOf[x] /\ request[u] = ParentOf[x] /\ request[t] # None BY <1>1, <1>4
  <2> QED BY <2>1, <1>4 DEF NoDuplicates
<1> QED BY <1>3, <1>4

\* A map taken off a thread's list is not to be visited any more.
LEMMA Visit ==
    ASSUME IInv, StageInv, NEW t \in Threads, NEW x \in todo[t],
           todo' = [todo EXCEPT ![t] = @ \ {x}]
    PROVE  ToVisit' = ToVisit \ {x}
<1>1. \A u \in Threads : x \in todo[u] => u = t BY VisitedOnce
<1>2. \A u \in Threads : todo'[u] = todo[u] \ {x}
  BY <1>1 DEF IInv, TypeOK
<1> QED BY <1>2 DEF ToVisit

\* The stages are read off these variables.
LEMMA SameStages ==
    ASSUME StageInv, UNCHANGED <<todo, arg, queue, request, done>>, Called' = Called
    PROVE  /\ UNCHANGED <<ToVisit, Entered, InQueue, Called>>
           /\ StagesApart' /\ NoDuplicates' /\ ParentsFirst'
<1>1. UNCHANGED <<ToVisit, Entered, InQueue, Called>> BY DEF ToVisit, Entered, InQueue
<1> QED BY <1>1 DEF StageInv, StagesApart, NoDuplicates, ParentsFirst

\* The world thread moves on with nothing left on its list.
LEMMA WorldMoves ==
    ASSUME IInv, StageInv, NEW l \in WorldLabels \ {"enqueue"}, pc[World] # "enqueue",
           pc' = [pc EXCEPT ![World] = l], todo[World] = {},
           UNCHANGED <<queue, arg, todo, request, maps, inst, done, skipped, stopping>>,
           open' = activated',
           stopping => l \in {"wait", "sleep", "close", "join", "stopped"},
           l \in {"loop", "wait", "sleep", "delayed"} => pc[World] \in {"loop", "wait", "sleep"}
    PROVE  StageInv'
<1> USE ThreadAssumption DEF Threads
<1>0. /\ pc'[World] = l /\ World \in Threads
      /\ \A w \in Workers : pc'[w] = pc[w] /\ w # World
  BY DEF IInv, TypeOK
<1>1. Called' = Called /\ BusyWorkers' = BusyWorkers BY <1>0 DEF Called, BusyWorkers
<1>2. /\ UNCHANGED <<ToVisit, Entered, InQueue, Called>>
      /\ StagesApart' /\ NoDuplicates' /\ ParentsFirst'
  BY <1>1, SameStages
<1>3. ThreadsHave'
  <2>1. \A t \in Threads : arg'[t] # None => pc'[t] = "enqueue"
    BY <1>0 DEF StageInv, ThreadsHave
  <2> QED BY <2>1, <1>0, <1>1 DEF StageInv, ThreadsHave, BusyWorkers
<1>7. ThreadsVisit' BY <1>0, <1>1 DEF StageInv, ThreadsVisit
<1>4. RequestsAlive' BY <1>2 DEF StageInv, RequestsAlive
<1>5. NothingMissed' BY <1>0, <1>2 DEF StageInv, NothingMissed
<1>6. PoolAndMaps' BY <1>0 DEF StageInv, PoolAndMaps
<1> QED BY <1>2, <1>3, <1>4, <1>5, <1>6, <1>7 DEF StageInv

\* A map thread moves on, outside schedule_update, with nothing on its list.
LEMMA WorkerMoves ==
    ASSUME IInv, StageInv, NEW w \in Workers, NEW l,
           \/ pc[w] = "loop" /\ l = "finish"
           \/ pc[w] = "idle" /\ l = "exit",
           pc' = [pc EXCEPT ![w] = l], todo[w] = {},
           UNCHANGED <<activated, open, queue, arg, todo, request, maps, inst, done, skipped, stopping>>
    PROVE  StageInv'
<1> USE ThreadAssumption DEF Threads
<1>0. /\ pc'[w] = l /\ w # World /\ pc'[World] = pc[World]
      /\ \A t \in Threads : t # w => pc'[t] = pc[t]
  BY DEF IInv, TypeOK
<1>1. Called' = Called /\ BusyWorkers' = BusyWorkers BY <1>0 DEF Called, BusyWorkers
<1>2. /\ UNCHANGED <<ToVisit, Entered, InQueue, Called>>
      /\ StagesApart' /\ NoDuplicates' /\ ParentsFirst'
  BY <1>1, SameStages
<1>3. ThreadsHave' BY <1>0, <1>1 DEF StageInv, ThreadsHave, BusyWorkers
<1>7. ThreadsVisit' BY <1>0 DEF StageInv, ThreadsVisit
<1>4. RequestsAlive' BY <1>2 DEF StageInv, RequestsAlive
<1>5. NothingMissed' BY <1>0, <1>2 DEF StageInv, NothingMissed
<1>6. PoolAndMaps' BY <1>0 DEF StageInv, PoolAndMaps
<1> QED BY <1>2, <1>3, <1>4, <1>5, <1>6, <1>7 DEF StageInv

\* After MapUpdater::wait every stage but the last is empty.
LEMMA AllDone ==
    ASSUME IInv, StageInv, pc[World] \in {"idle", "delayed", "close", "join", "stopped"}
    PROVE  /\ ToVisit = {} /\ Entered = {} /\ InQueue = {} /\ Called = {}
           /\ \A t \in Threads : todo[t] = {} /\ arg[t] = None
           /\ \A w \in Workers : request[w] = None /\ w \notin BusyWorkers
<1> USE ThreadAssumption DEF Threads
<1>1. queue = <<>> /\ BusyWorkers = {} BY DEF IInv, Barrier
<1>2. \A w \in Workers : request[w] = None /\ w \notin BusyWorkers
  BY <1>1 DEF StageInv, ThreadsHave
<1>3. \A t \in Threads : pc[t] \notin {"loop", "enqueue"} BY <1>1 DEF BusyWorkers
<1>4. \A t \in Threads : todo[t] = {} /\ arg[t] = None BY <1>3 DEF StageInv, ThreadsHave, ThreadsVisit
<1>5. InQueue = {} BY <1>1 DEF InQueue
<1>6. Called = {} BY <1>1 DEF Called, BusyWorkers
<1>7. ToVisit = {} /\ Entered = {} BY <1>4 DEF ToVisit, Entered
<1> QED BY <1>2, <1>4, <1>5, <1>6, <1>7

\* A map is created, a tick is begun, or all maps are deleted.
LEMMA StageAtRest ==
    ASSUME IInv, StageInv, TypeOK',
           \/ \E m \in BaseMaps : CreateBaseMap(m)
           \/ \E i \in Instances : CreateInstance(i)
           \/ BeginUpdate
           \/ UnloadAll
    PROVE  StageInv'
<1> USE ThreadAssumption, TaskAssumption DEF Threads
<1>0. pc[World] = "idle" BY DEF CreateBaseMap, CreateInstance, BeginUpdate, UnloadAll
<1>1. /\ ToVisit = {} /\ Entered = {} /\ InQueue = {} /\ Called = {}
      /\ \A t \in Threads : todo[t] = {} /\ arg[t] = None
      /\ \A w \in Workers : request[w] = None /\ w \notin BusyWorkers
  BY <1>0, AllDone
<1>2. UNCHANGED <<activated, open, queue, arg, request>>
  BY DEF CreateBaseMap, CreateInstance, BeginUpdate, UnloadAll
<1>3. \A w \in Workers : pc'[w] = pc[w] /\ w # World
  BY DEF CreateBaseMap, CreateInstance, BeginUpdate, UnloadAll, IInv, TypeOK
<1>4. UNCHANGED <<Entered, InQueue, Called, BusyWorkers>>
  BY <1>2, <1>3 DEF Entered, InQueue, Called, BusyWorkers
<1>5. /\ \A w \in Workers : todo'[w] = {}
      /\ \/ todo'[World] = {} /\ done' = done /\ pc'[World] # "loop"
         \/ todo'[World] = {LFG} \cup maps /\ done' = {} /\ pc'[World] = "loop" /\ maps' = maps
  BY <1>1 DEF CreateBaseMap, CreateInstance, BeginUpdate, UnloadAll, IInv, TypeOK
<1>6. ToVisit' = todo'[World] BY <1>5 DEF ToVisit
<1>7. StagesApart' BY <1>1, <1>4, <1>5, <1>6 DEF StagesApart
<1>8. NoDuplicates' BY <1>2 DEF NoDuplicates, StageInv
<1>9. ThreadsHave'
  <2>1. BusyWorkers' = {} BY <1>1, <1>4 DEF BusyWorkers
  <2> QED BY <1>1, <1>2, <2>1 DEF ThreadsHave
<1>14. ThreadsVisit' BY <1>5 DEF ThreadsVisit
<1>10. ParentsFirst' BY <1>1, <1>4, <1>5 DEF StageInv, ParentsFirst
<1>11. RequestsAlive' BY <1>1, <1>2, <1>4 DEF RequestsAlive
<1>12. PoolAndMaps'
  BY <1>0, <1>2 DEF StageInv, PoolAndMaps, CreateBaseMap, CreateInstance, BeginUpdate, UnloadAll, IInv, TypeOK
<1>13. NothingMissed'
  <2>1. CASE BeginUpdate BY <2>1, <1>5, <1>6, TypeOK' DEF NothingMissed, BeginUpdate, TypeOK, Tasks, BaseMaps
  <2>2. CASE UnloadAll
    <3>1. stopping' BY <2>2 DEF UnloadAll
    <3> QED BY <3>1 DEF NothingMissed
  <2>3. CASE ~BeginUpdate /\ ~UnloadAll
    <3>1. pc' = pc BY <2>3 DEF CreateBaseMap, CreateInstance
    <3> QED BY <3>1, <1>0 DEF NothingMissed
  <2> QED BY <2>1, <2>2, <2>3
<1> QED BY <1>7, <1>8, <1>9, <1>10, <1>11, <1>12, <1>13, <1>14 DEF StageInv

\* schedule_update takes a map off the list.
LEMMA StageSchedule ==
    ASSUME IInv, StageInv, NEW t \in Threads, NEW x \in todo[t], pc[t] = "loop",
           EnterSchedule(t, x),
           UNCHANGED <<activated, open, queue, request, maps, inst, done, skipped, stopping>>
    PROVE  StageInv'
<1> USE ThreadAssumption, TaskAssumption DEF Threads
<1>0. /\ x \in Tasks /\ x # None /\ World \in Threads
      /\ \A u \in Threads : arg'[u] = IF u = t THEN x ELSE arg[u]
      /\ \A u \in Threads : pc'[u] = IF u = t THEN "enqueue" ELSE pc[u]
      /\ \A u \in Threads : todo'[u] \subseteq todo[u]
  BY DEF EnterSchedule, IInv, TypeOK
<1>1. ToVisit' = ToVisit \ {x} BY Visit DEF EnterSchedule
<1>2. x \in ToVisit BY DEF ToVisit
<1>3. arg[t] = None BY DEF StageInv, ThreadsHave
<1>4. Entered' = Entered \cup {x} BY <1>0, <1>3 DEF Entered
<1>5. InQueue' = InQueue /\ Called' = Called /\ BusyWorkers' = BusyWorkers
  BY <1>0 DEF InQueue, Called, BusyWorkers
<1>6. StagesApart' BY <1>1, <1>2, <1>4, <1>5 DEF StageInv, StagesApart
<1>7. NoDuplicates' BY DEF StageInv, NoDuplicates
<1>8. ThreadsHave'
  <2>1. \A u \in Threads : arg'[u] # None => pc'[u] = "enqueue"
    BY <1>0 DEF StageInv, ThreadsHave
  <2>2. \A w \in BusyWorkers : pc'[w] # "call" => request[w] \in done
    BY <1>0 DEF StageInv, ThreadsHave, BusyWorkers
  <2> QED BY <2>1, <2>2, <1>5 DEF StageInv, ThreadsHave
<1>9. ThreadsVisit' BY <1>0 DEF StageInv, ThreadsVisit
<1>10. x \in Instances => ParentOf[x] \in done
  <2> SUFFICES ASSUME x \in Instances PROVE ParentOf[x] \in done
    OBVIOUS
  <2>1. t \in Workers BY DEF StageInv, ThreadsVisit, IInv, TypeOK
  <2>2. ParentOf[x] = request[t] BY <2>1 DEF StageInv, ThreadsVisit
  <2> QED BY <2>1, <2>2 DEF StageInv, ThreadsHave, BusyWorkers
<1>11. ParentsFirst' BY <1>4, <1>5, <1>10 DEF StageInv, ParentsFirst
<1>12. x \in {LFG} \cup maps \cup inst BY DEF StageInv, ThreadsVisit
<1>13. RequestsAlive' BY <1>4, <1>5, <1>12 DEF StageInv, RequestsAlive
<1>14. NothingMissed'
  <2>1. pc'[World] \in {"loop", "enqueue", "wait", "sleep", "delayed"} =>
           pc[World] \in {"loop", "enqueue", "wait", "sleep", "delayed"}
    BY <1>0
  <2>2. ToVisit' \cup Entered' = ToVisit \cup Entered BY <1>1, <1>2, <1>4
  <2> QED BY <2>1, <2>2, <1>5 DEF StageInv, NothingMissed
<1>15. PoolAndMaps' BY <1>0 DEF StageInv, PoolAndMaps
<1> QED BY <1>6, <1>7, <1>8, <1>9, <1>11, <1>13, <1>14, <1>15 DEF StageInv

\* The request enters the queue: nobody schedules on a pool that is closed.
LEMMA StageEnqueue ==
    ASSUME IInv, StageInv, NEW t \in Threads, Enqueue(t)
    PROVE  StageInv'
<1> USE ThreadAssumption, TaskAssumption DEF Threads
<1> DEFINE x == arg[t]
<1>0. /\ x \in Tasks /\ x # None /\ World \in Threads
      /\ \A u \in Threads : arg'[u] = IF u = t THEN None ELSE arg[u]
      /\ \A u \in Threads : pc'[u] = IF u = t THEN "loop" ELSE pc[u]
      /\ UNCHANGED <<activated, open, todo, request, maps, inst, done, skipped, stopping>>
  BY DEF Enqueue, IInv, TypeOK, HandlesRequest
<1>1. \A u \in Threads : u # t => arg[u] = None
  BY DEF Enqueue, IInv, MutexHolder, StageInv, ThreadsHave
<1>2. Entered = {x} /\ Entered' = {} BY <1>0, <1>1 DEF Entered
<1>3. open
  <2>1. pc[World] = "enqueue" \/ BusyWorkers # {} BY DEF Enqueue, BusyWorkers
  <2> QED BY <2>1 DEF IInv, InactivePool, StageInv, PoolAndMaps
<1>4. /\ queue' = Append(queue, x) /\ queue \in Seq(Tasks)
      /\ DOMAIN queue = 1 .. Len(queue) /\ Len(queue) \in Nat
      /\ DOMAIN queue' = 1 .. Len(queue) + 1
      /\ \A n \in 1 .. Len(queue) + 1 : queue'[n] = IF n = Len(queue) + 1 THEN x ELSE queue[n]
  BY <1>0, <1>3 DEF Enqueue, IInv, TypeOK
<1>5. InQueue' = InQueue \cup {x}
  <2> HIDE DEF x
  <2> QED BY <1>4 DEF InQueue
<1>6. Called' = Called /\ BusyWorkers' = BusyWorkers /\ ToVisit' = ToVisit
  BY <1>0 DEF Called, BusyWorkers, Enqueue, ToVisit
<1>7. StagesApart' BY <1>2, <1>5, <1>6, <1>0 DEF StageInv, StagesApart
<1>8. NoDuplicates'
  <2>1. x \notin InQueue BY <1>2 DEF StageInv, StagesApart
  <2>2. \A n \in DOMAIN queue : queue[n] # x BY <2>1 DEF InQueue
  <2> HIDE DEF x
  <2> QED BY <1>0, <1>4, <2>2 DEF StageInv, NoDuplicates
<1>9. ThreadsHave'
  <2>1. \A w \in BusyWorkers : pc'[w] # "call" => request[w] \in done
    BY <1>0 DEF StageInv, ThreadsHave, BusyWorkers, Enqueue
  <2> QED BY <1>0, <1>1, <2>1, <1>6 DEF StageInv, ThreadsHave
<1>10. ThreadsVisit' BY <1>0 DEF StageInv, ThreadsVisit
<1>11. ParentsFirst' BY <1>0, <1>2, <1>5, <1>6 DEF StageInv, ParentsFirst
<1>12. RequestsAlive' BY <1>0, <1>2, <1>5, <1>6 DEF StageInv, RequestsAlive
<1>13. NothingMissed'
  <2>1. pc'[World] \in {"loop", "enqueue", "wait", "sleep", "delayed"} =>
           pc[World] \in {"loop", "enqueue", "wait", "sleep", "delayed"}
    BY <1>0 DEF Enqueue
  <2>2. Entered' \cup InQueue' = Entered \cup InQueue BY <1>2, <1>5
  <2> QED BY <2>1, <2>2, <1>0, <1>6 DEF StageInv, NothingMissed
<1>14. PoolAndMaps'
  <2>1. stopping => pc[World] # "enqueue" BY DEF StageInv, PoolAndMaps
  <2> QED BY <1>0, <2>1 DEF StageInv, PoolAndMaps, Enqueue
<1> QED BY <1>7, <1>8, <1>9, <1>10, <1>11, <1>12, <1>13, <1>14 DEF StageInv

\* A map thread takes the first request of the queue.
LEMMA StageDequeue ==
    ASSUME IInv, StageInv, NEW w \in Workers, Dequeue(w)
    PROVE  StageInv'
<1> USE ThreadAssumption, TaskAssumption DEF Threads
<1> DEFINE x == Head(queue)
<1>0. /\ x \in Tasks /\ x # None /\ w # World
      /\ \A v \in Workers : request'[v] = IF v = w THEN x ELSE request[v]
      /\ \A u \in Threads : pc'[u] = IF u = w THEN "call" ELSE pc[u]
      /\ UNCHANGED <<activated, open, todo, arg, maps, inst, done, skipped, stopping>>
  BY DEF Dequeue, IInv, TypeOK
<1>1. /\ queue \in Seq(Tasks) /\ Len(queue) \in Nat \ {0} /\ x = queue[1]
      /\ DOMAIN queue = 1 .. Len(queue) /\ DOMAIN queue' = 1 .. Len(queue) - 1
      /\ \A n \in 1 .. Len(queue) - 1 : queue'[n] = queue[n + 1]
  BY DEF Dequeue, IInv, TypeOK
<1> HIDE DEF x
<1>2. \A m, n \in 1 .. Len(queue) : queue[m] = queue[n] => m = n
  BY <1>1 DEF StageInv, NoDuplicates
<1>3. InQueue' = InQueue \ {x} /\ x \in InQueue
  <2>1. ASSUME NEW n \in 1 .. Len(queue) - 1 PROVE queue'[n] # x /\ queue'[n] \in InQueue
    <3>1. /\ 1 \in 1 .. Len(queue) /\ n + 1 \in 1 .. Len(queue) /\ n + 1 # 1
          /\ queue'[n] = queue[n + 1]
      BY <1>1
    <3> QED BY <1>1, <1>2, <3>1 DEF InQueue
  <2>2. ASSUME NEW y \in InQueue, y # x PROVE y \in InQueue'
    <3>1. PICK n \in 1 .. Len(queue) : queue[n] = y BY <1>1, <2>2 DEF InQueue
    <3>2. n # 1 /\ n - 1 \in 1 .. Len(queue) - 1 /\ queue'[n - 1] = y BY <1>1, <2>2, <3>1
    <3> QED BY <3>2, <1>1 DEF InQueue
  <2>3. InQueue' \subseteq InQueue \ {x} BY <1>1, <2>1 DEF InQueue
  <2>4. x \in InQueue BY <1>1 DEF InQueue
  <2> QED BY <2>2, <2>3, <2>4
<1>4. request[w] = None /\ w \notin BusyWorkers /\ pc[w] = "idle"
  BY DEF Dequeue, BusyWorkers, StageInv, ThreadsHave
<1>5. Called' = Called \cup {x} /\ BusyWorkers' = BusyWorkers \cup {w}
  BY <1>0, <1>4 DEF Called, BusyWorkers
<1>6. ToVisit' = ToVisit /\ Entered' = Entered BY <1>0 DEF ToVisit, Entered
<1>7. StagesApart' BY <1>0, <1>3, <1>5, <1>6 DEF StageInv, StagesApart
<1>8. NoDuplicates'
  <2>1. \A v \in Workers : request[v] # x
    <3> SUFFICES ASSUME NEW v \in Workers, request[v] = x PROVE FALSE
      OBVIOUS
    <3>1. v \in BusyWorkers BY <1>0 DEF StageInv, ThreadsHave
    <3>2. x \in Called \/ x \in done BY <3>1 DEF StageInv, ThreadsHave, Called
    <3> QED BY <3>2, <1>3 DEF StageInv, StagesApart
  <2>2. ASSUME NEW m \in DOMAIN queue', NEW n \in DOMAIN queue', queue'[m] = queue'[n]
        PROVE  m = n
    <3>1. m + 1 \in 1 .. Len(queue) /\ n + 1 \in 1 .. Len(queue) BY <1>1
    <3>2. queue[m + 1] = queue[n + 1] BY <1>1, <2>2
    <3>3. m + 1 = n + 1 BY <1>2, <3>1, <3>2
    <3> QED BY <1>1, <3>3
  <2> QED BY <1>0, <2>1, <2>2 DEF StageInv, NoDuplicates
<1>9. ThreadsHave'
  <2>1. \A u \in Threads : arg'[u] # None => pc'[u] = "enqueue"
    BY <1>0, <1>4 DEF StageInv, ThreadsHave
  <2> QED BY <1>0, <1>5, <2>1 DEF StageInv, ThreadsHave, BusyWorkers
<1>10. ThreadsVisit' BY <1>0, <1>4 DEF StageInv, ThreadsVisit
<1>11. ParentsFirst' BY <1>0, <1>3, <1>5, <1>6 DEF StageInv, ParentsFirst
<1>12. RequestsAlive' BY <1>0, <1>3, <1>6 DEF StageInv, RequestsAlive
<1>13. NothingMissed'
  <2>1. InQueue' \cup Called' = InQueue \cup Called BY <1>3, <1>5
  <2> QED BY <2>1, <1>0, <1>6 DEF StageInv, NothingMissed
<1>14. PoolAndMaps' BY <1>0 DEF StageInv, PoolAndMaps
<1> QED BY <1>7, <1>8, <1>9, <1>10, <1>11, <1>12, <1>13, <1>14 DEF StageInv

\* The update itself; a container has its instances to visit then.
LEMMA StageCall ==
    ASSUME IInv, StageInv, NEW w \in Workers, Call(w)
    PROVE  StageInv'
<1> USE ThreadAssumption, TaskAssumption DEF Threads
<1> DEFINE x == request[w]
           new == ChildrenOf(x)
<1>0. /\ x \in Tasks /\ x # None /\ w # World /\ pc[w] = "call" /\ done' = done \cup {x}
      /\ \A u \in Threads : pc'[u] = IF u = w THEN (IF x \in Containers THEN "loop" ELSE "finish") ELSE pc[u]
      /\ \A u \in Threads : todo'[u] = IF u = w THEN new ELSE todo[u]
      /\ UNCHANGED <<activated, open, queue, arg, request, maps, inst, skipped, stopping>>
  BY DEF Call, IInv, TypeOK, HandlesRequest, BusyWorkers
<1>1. \A i \in new : i \in inst /\ i \in Instances /\ ParentOf[i] = x /\ x \in Containers
  BY DEF ChildrenOf, IInv, TypeOK
<1>2. \A i \in inst : ParentOf[i] = x => i \in new BY DEF ChildrenOf
<1> HIDE DEF new, x
<1>3. todo[w] = {} BY <1>0 DEF StageInv, ThreadsVisit
<1>4. ToVisit' = ToVisit \cup new BY <1>0, <1>3 DEF ToVisit
<1>5. x \in Called BY <1>0 DEF Called, x
<1>6. Called' = Called \ {x}
  <2>1. \A v \in Workers : request[v] = x => v = w BY <1>0 DEF StageInv, NoDuplicates, x
  <2>2. \A v \in Workers : pc'[v] = "call" <=> pc[v] = "call" /\ v # w BY <1>0
  <2>3. request' = request /\ request[w] = x BY <1>0 DEF x
  <2> QED BY <2>1, <2>2, <2>3 DEF Called
<1>7. Entered' = Entered /\ InQueue' = InQueue /\ BusyWorkers' = BusyWorkers
  BY <1>0 DEF Entered, InQueue, BusyWorkers
<1>8. x \notin done /\ x \notin Entered \cup InQueue \cup ToVisit
  BY <1>5 DEF StageInv, StagesApart
<1>9. \A i \in new : i \notin Entered \cup InQueue \cup Called \cup done \cup {x}
  BY <1>1, <1>8 DEF StageInv, ParentsFirst, BaseMaps
<1>10. StagesApart' BY <1>0, <1>4, <1>5, <1>6, <1>7, <1>8, <1>9 DEF StageInv, StagesApart
<1>11. NoDuplicates' BY <1>0 DEF StageInv, NoDuplicates
<1>12. ThreadsHave'
  <2>1. \A u \in Threads : arg'[u] # None => pc'[u] = "enqueue"
    BY <1>0 DEF StageInv, ThreadsHave
  <2>2. \A v \in BusyWorkers : pc'[v] # "call" => request[v] \in done'
    BY <1>0 DEF StageInv, ThreadsHave, BusyWorkers, x
  <2> QED BY <1>0, <1>7, <2>1, <2>2 DEF StageInv, ThreadsHave
<1>13. ThreadsVisit'
  <2>1. \A i \in new : i \in inst /\ ParentOf[i] = request[w] /\ pc'[w] = "loop"
    BY <1>0, <1>1 DEF x
  <2> QED BY <1>0, <2>1 DEF StageInv, ThreadsVisit
<1>14. ParentsFirst' BY <1>0, <1>5, <1>6, <1>7 DEF StageInv, ParentsFirst
<1>15. RequestsAlive' BY <1>0, <1>7 DEF StageInv, RequestsAlive
<1>16. NothingMissed' BY <1>0, <1>2, <1>4, <1>5, <1>6, <1>7 DEF StageInv, NothingMissed
<1>17. PoolAndMaps' BY <1>0 DEF StageInv, PoolAndMaps
<1> QED BY <1>10, <1>11, <1>12, <1>13, <1>14, <1>15, <1>16, <1>17 DEF StageInv

\* An instance is destroyed, or kept because of its players.
LEMMA StageVisit ==
    ASSUME IInv, StageInv, NEW w \in Workers, NEW i \in Instances,
           DestroyInstance(w, i) \/ KeepInstance(w, i)
    PROVE  StageInv'
<1> USE ThreadAssumption, TaskAssumption DEF Threads
<1>0. /\ i \in todo[w] /\ w \in Threads /\ todo' = [todo EXCEPT ![w] = @ \ {i}]
      /\ UNCHANGED <<activated, open, queue, arg, pc, request, maps, done, stopping>>
      /\ \/ inst' = inst \ {i} /\ skipped' = skipped
         \/ inst' = inst /\ skipped' = skipped \cup {i}
  BY DEF DestroyInstance, KeepInstance
<1>1. ToVisit' = ToVisit \ {i} /\ i \in ToVisit BY <1>0, Visit DEF ToVisit
<1>2. UNCHANGED <<Entered, InQueue, Called, BusyWorkers>> BY <1>0 DEF Entered, InQueue, Called, BusyWorkers
<1>3. StagesApart' BY <1>0, <1>1, <1>2 DEF StageInv, StagesApart
<1>4. NoDuplicates' BY <1>0 DEF StageInv, NoDuplicates
<1>5. ThreadsHave' BY <1>0, <1>2 DEF StageInv, ThreadsHave
<1>6. ThreadsVisit'
  <2>1. \A u \in Threads : todo'[u] \subseteq todo[u] BY <1>0 DEF IInv, TypeOK
  <2>2. \A u \in Threads : i \notin todo'[u] BY <1>1 DEF ToVisit
  <2> QED BY <1>0, <2>1, <2>2 DEF StageInv, ThreadsVisit
<1>7. ParentsFirst' BY <1>0, <1>2 DEF StageInv, ParentsFirst
<1>8. i \notin Entered \cup InQueue /\ \A v \in Workers : request[v] # i
  <2>1. i \notin Entered \cup InQueue \cup Called \cup done BY <1>1 DEF StageInv, StagesApart
  <2>2. ASSUME NEW v \in Workers, request[v] = i PROVE FALSE
    <3>1. i # None BY DEF Tasks
    <3>2. v \in BusyWorkers BY <2>2, <3>1 DEF StageInv, ThreadsHave
    <3> QED BY <2>1, <2>2, <3>2 DEF StageInv, ThreadsHave, Called
  <2> QED BY <2>1, <2>2
<1>9. RequestsAlive' BY <1>0, <1>2, <1>8 DEF StageInv, RequestsAlive
<1>10. NothingMissed'
  <2>1. i \notin {LFG} \cup maps BY DEF IInv, TypeOK
  <2> QED BY <1>0, <1>1, <1>2, <2>1 DEF StageInv, NothingMissed
<1>11. PoolAndMaps' BY <1>0 DEF StageInv, PoolAndMaps
<1> QED BY <1>3, <1>4, <1>5, <1>6, <1>7, <1>9, <1>10, <1>11 DEF StageInv

\* update_finished, which may wake the world thread.
LEMMA StageFinish ==
    ASSUME IInv, StageInv, NEW w \in Workers, UpdateFinished(w)
    PROVE  StageInv'
<1> USE ThreadAssumption, TaskAssumption DEF Threads
<1>0. /\ pc[w] = "finish" /\ w # World
      /\ \A v \in Workers : pc'[v] = IF v = w THEN "idle" ELSE pc[v]
      /\ pc'[World] = IF pc[World] = "sleep" THEN "wait" ELSE pc[World]
      /\ \A v \in Workers : request'[v] = IF v = w THEN None ELSE request[v]
      /\ UNCHANGED <<activated, open, queue, arg, todo, maps, inst, done, skipped, stopping>>
  BY DEF UpdateFinished, IInv, TypeOK
<1>1. Called' = Called /\ BusyWorkers' = BusyWorkers \ {w} BY <1>0 DEF Called, BusyWorkers
<1>2. ToVisit' = ToVisit /\ Entered' = Entered /\ InQueue' = InQueue
  BY <1>0 DEF ToVisit, Entered, InQueue
<1>3. StagesApart' BY <1>0, <1>1, <1>2 DEF StageInv, StagesApart
<1>4. NoDuplicates' BY <1>0 DEF StageInv, NoDuplicates
<1>5. ThreadsHave'
  <2>1. \A t \in Threads : arg'[t] # None => pc'[t] = "enqueue"
    BY <1>0 DEF StageInv, ThreadsHave
  <2>2. \A v \in BusyWorkers' : pc'[v] # "call" => request'[v] \in done'
    BY <1>0, <1>1 DEF StageInv, ThreadsHave, BusyWorkers
  <2> QED BY <1>0, <1>1, <2>1, <2>2 DEF StageInv, ThreadsHave
<1>6. ThreadsVisit' BY <1>0 DEF StageInv, ThreadsVisit
<1>7. ParentsFirst' BY <1>0, <1>1, <1>2 DEF StageInv, ParentsFirst
<1>8. RequestsAlive' BY <1>0, <1>2 DEF StageInv, RequestsAlive
<1>9. NothingMissed' BY <1>0, <1>1, <1>2 DEF StageInv, NothingMissed
<1>10. PoolAndMaps' BY <1>0 DEF StageInv, PoolAndMaps
<1> QED BY <1>3, <1>4, <1>5, <1>6, <1>7, <1>8, <1>9, <1>10 DEF StageInv

\* Without map threads everything happens on the world thread.
LEMMA StageInline ==
    ASSUME IInv, StageInv, NEW x \in {LFG} \cup BaseMaps, NEW gone \in SUBSET Instances,
           NEW kept \in SUBSET Instances, UpdateInline(x, gone, kept)
    PROVE  StageInv'
<1> USE ThreadAssumption, TaskAssumption DEF Threads
<1> DEFINE new == ChildrenOf(x) \ (gone \cup kept)
<1>0. /\ x \in todo[World] /\ World \in Threads /\ pc[World] = "loop" /\ ~activated
      /\ todo' = [todo EXCEPT ![World] = @ \ {x}] /\ inst' = inst \ gone
      /\ done' = done \cup {x} \cup new /\ skipped' = skipped \cup kept
      /\ UNCHANGED <<activated, open, queue, arg, pc, request, maps, stopping>>
  BY DEF UpdateInline
<1>1. /\ \A i \in new : i \in Instances /\ ParentOf[i] = x
      /\ \A i \in inst : ParentOf[i] = x => i \in new \cup gone \cup kept
      /\ \A i \in gone \cup kept : ParentOf[i] = x
  BY DEF ChildrenOf, UpdateInline, IInv, TypeOK
<1> HIDE DEF new
<1>2. queue = <<>> /\ BusyWorkers = {} BY <1>0 DEF IInv, InactivePool
<1>3. \A w \in Workers : request[w] = None /\ todo[w] = {} /\ pc[w] # "call" /\ arg[w] = None
  BY <1>2 DEF StageInv, ThreadsHave, ThreadsVisit, BusyWorkers
<1>4. arg[World] = None BY <1>0 DEF StageInv, ThreadsHave
<1>5. InQueue = {} /\ Called = {} /\ Entered = {} BY <1>2, <1>3, <1>4 DEF InQueue, Called, Entered
<1>6. UNCHANGED <<InQueue, Called, Entered, BusyWorkers>> BY <1>0 DEF InQueue, Called, Entered, BusyWorkers
<1>7. ToVisit' = ToVisit \ {x} /\ x \in ToVisit BY <1>0, Visit DEF ToVisit
<1>8. ToVisit \subseteq {LFG} \cup maps BY <1>3 DEF ToVisit, StageInv, ThreadsVisit
<1>9. StagesApart'
  <2>1. new \cap ToVisit = {} BY <1>1, <1>8 DEF IInv, TypeOK
  <2> QED BY <1>0, <1>5, <1>6, <1>7, <2>1 DEF StageInv, StagesApart
<1>10. NoDuplicates' BY <1>0 DEF StageInv, NoDuplicates
<1>11. ThreadsHave' BY <1>0, <1>2, <1>6 DEF StageInv, ThreadsHave
<1>12. ThreadsVisit'
  <2>1. \A w \in Workers : todo'[w] = {} BY <1>0, <1>3 DEF IInv, TypeOK
  <2>2. todo'[World] \subseteq todo[World] BY <1>0 DEF IInv, TypeOK
  <2> QED BY <1>0, <2>1, <2>2 DEF StageInv, ThreadsVisit
<1>13. ParentsFirst'
  <2>1. x \notin Instances OBVIOUS
  <2> QED BY <1>0, <1>1, <1>5, <1>6, <2>1 DEF StageInv, ParentsFirst
<1>14. RequestsAlive' BY <1>0, <1>3, <1>5, <1>6 DEF RequestsAlive
<1>15. NothingMissed'
  <2> SUFFICES ASSUME ~stopping PROVE NothingMissed'
    BY <1>0 DEF NothingMissed
  <2>1. /\ {LFG} \cup maps \subseteq ToVisit \cup done
        /\ \A i \in inst : ParentOf[i] \in done => i \in ToVisit \cup done \cup skipped
    BY <1>0, <1>5 DEF StageInv, NothingMissed
  <2>2. {LFG} \cup maps' \subseteq ToVisit' \cup done' BY <1>0, <1>7, <2>1
  <2>3. ASSUME NEW i \in inst', ParentOf[i] \in done'
        PROVE  i \in ToVisit' \cup done' \cup skipped'
    <3>1. i \in inst /\ i \notin gone /\ i \in Instances BY <1>0 DEF IInv, TypeOK
    <3>2. CASE ParentOf[i] = x BY <1>0, <1>1, <3>1, <3>2
    <3>3. CASE ParentOf[i] # x
      <4>1. ParentOf[i] \notin new BY <1>1, <3>1 DEF BaseMaps
      <4>2. ParentOf[i] \in done BY <1>0, <2>3, <3>3, <4>1
      <4>3. i \in ToVisit \cup done \cup skipped BY <2>1, <3>1, <4>2
      <4> QED BY <1>0, <1>7, <4>3
    <3> QED BY <3>2, <3>3
  <2> QED BY <2>2, <2>3 DEF NothingMissed
<1>16. PoolAndMaps' BY <1>0 DEF StageInv, PoolAndMaps
<1> QED BY <1>9, <1>10, <1>11, <1>12, <1>13, <1>14, <1>15, <1>16 DEF StageInv

\* One step of the specification, the stages.
LEMMA StageStep == IInv /\ StageInv /\ [Next]_vars => StageInv'
<1> SUFFICES ASSUME IInv, StageInv, [Next]_vars PROVE StageInv'
  OBVIOUS
<1>0. TypeOK' BY TypeStep
<1> USE DEF WorldLabels
<1>v. pc[World] \notin {"loop", "enqueue"} => todo[World] = {} BY DEF StageInv, ThreadsVisit
<1>p. /\ open = activated
      /\ stopping => pc[World] \in {"wait", "sleep", "close", "join", "stopped"}
  BY DEF StageInv, PoolAndMaps
<1>1. CASE \/ \E m \in BaseMaps : CreateBaseMap(m)
           \/ \E i \in Instances : CreateInstance(i)
           \/ BeginUpdate
           \/ UnloadAll
  BY <1>0, <1>1, StageAtRest
<1>2. CASE SpuriousWakeup
  BY <1>2, <1>v, <1>p, WorldMoves DEF SpuriousWakeup
<1>3. ASSUME NEW x \in Tasks, ScheduleFromTick(x) PROVE StageInv'
  BY <1>3, StageSchedule DEF ScheduleFromTick, Threads
<1>4. ASSUME NEW t \in Threads, Enqueue(t) PROVE StageInv'
  BY <1>4, StageEnqueue
<1>5. ASSUME NEW x \in {LFG} \cup BaseMaps, NEW gone \in SUBSET Instances,
             NEW kept \in SUBSET Instances, UpdateInline(x, gone, kept)
      PROVE StageInv'
  BY <1>5, StageInline
<1>6. CASE EndLoop
  <2>1. (IF activated THEN "wait" ELSE "delayed") \in WorldLabels \ {"enqueue"} OBVIOUS
  <2> QED BY <1>6, <2>1, <1>p, WorldMoves DEF EndLoop
<1>7. CASE Wait
  <2> DEFINE l == IF pending > 0 THEN "sleep" ELSE IF stopping THEN "close" ELSE "delayed"
  <2>1. /\ l \in WorldLabels \ {"enqueue"}
        /\ stopping => l \in {"wait", "sleep", "close", "join", "stopped"}
    OBVIOUS
  <2>2. pc' = [pc EXCEPT ![World] = l] /\ pc[World] = "wait" BY <1>7 DEF Wait
  <2> HIDE DEF l
  <2> QED BY <1>7, <2>1, <2>2, <1>v, <1>p, WorldMoves DEF Wait
<1>8. CASE DelayedUpdate
  BY <1>8, <1>v, <1>p, WorldMoves DEF DelayedUpdate
<1>9. CASE Deactivate
  BY <1>9, <1>v, WorldMoves DEF Deactivate
<1>10. CASE Join
  BY <1>10, <1>v, <1>p, WorldMoves DEF Join
<1>11. ASSUME NEW w \in Workers, Dequeue(w) PROVE StageInv'
  BY <1>11, StageDequeue
<1>12. ASSUME NEW w \in Workers, Exit(w) PROVE StageInv'
  <2>1. todo[w] = {} BY <1>12 DEF Exit, StageInv, ThreadsVisit
  <2> QED BY <1>12, <2>1, WorkerMoves DEF Exit
<1>13. ASSUME NEW w \in Workers, Call(w) PROVE StageInv'
  BY <1>13, StageCall
<1>14. ASSUME NEW w \in Workers, NEW i \in Instances, DestroyInstance(w, i) \/ KeepInstance(w, i)
       PROVE StageInv'
  BY <1>14, StageVisit
<1>15. ASSUME NEW w \in Workers, NEW i \in Instances, ScheduleInstance(w, i) PROVE StageInv'
  BY <1>15, StageSchedule DEF ScheduleInstance, Threads
<1>16. ASSUME NEW w \in Workers, EndInstances(w) PROVE StageInv'
  BY <1>16, WorkerMoves DEF EndInstances
<1>17. ASSUME NEW w \in Workers, UpdateFinished(w) PROVE StageInv'
  BY <1>17, StageFinish
<1>18. CASE UNCHANGED vars
  <2>1. Called' = Called /\ BusyWorkers' = BusyWorkers BY <1>18 DEF vars, Called, BusyWorkers
  <2>2. /\ UNCHANGED <<ToVisit, Entered, InQueue, Called>>
        /\ StagesApart' /\ NoDuplicates' /\ ParentsFirst'
    BY <1>18, <2>1, SameStages DEF vars
  <2> QED BY <1>18, <2>1, <2>2 DEF vars, StageInv, ThreadsHave, ThreadsVisit, RequestsAlive,
                                   NothingMissed, PoolAndMaps
<1> QED
  BY <1>1, <1>2, <1>3, <1>4, <1>5, <1>6, <1>7, <1>8, <1>9, <1>10, <1>11, <1>12, <1>13,
     <1>14, <1>15, <1>16, <1>17, <1>18
     DEF Next, Tick, Worker, Terminating, Threads

\* The stages are kept apart in every reachable state.
LEMMA StageInvariance == Spec => [](IInv /\ StageInv)
<1>1. Init => IInv /\ StageInv BY InitIInv, InitStage
<1>2. (IInv /\ StageInv) /\ [Next]_vars => (IInv /\ StageInv)'
  BY TypeStep, CountStep, StageStep DEF IInv, Counts
<1> QED BY <1>1, <1>2, PTL DEF Spec

\* Every variable of the tick keeps its type.
THEOREM TypeCorrect == Spec => []TypeOK
<1>1. IInv => TypeOK BY DEF IInv
<1> QED BY Invariance, <1>1, PTL

\* pending_requests is the number of outstanding requests at all times.
THEOREM PendingCorrect == Spec => []PendingCountsRequests
<1>1. IInv => PendingCountsRequests BY DEF IInv
<1> QED BY Invariance, <1>1, PTL

\* After MapUpdater::wait no map thread is inside a map: the delayed updates,
\* the sessions and the shutdown have the maps to themselves.
THEOREM BarrierCorrect == Spec => []Barrier
<1>1. IInv => Barrier BY DEF IInv
<1> QED BY Invariance, <1>1, PTL

\* A set without two different elements has at most one.
LEMMA AtMostOne ==
    ASSUME NEW S, \A a, b \in S : a = b
    PROVE  Cardinality(S) = IF S = {} THEN 0 ELSE 1
<1>1. CASE S = {} BY <1>1, FS_EmptySet
<1>2. CASE S # {}
  <2>1. PICK a \in S : TRUE BY <1>2
  <2>2. S = {a} BY <2>1
  <2> QED BY <1>2, <2>2, FS_Singleton
<1> QED BY <1>1, <1>2

\* Every tick updates every map once: MapManager::Update and MapInstanced::Update
\* never schedule a map twice, two map threads never update one map, and when
\* MapUpdater::wait has returned no map and no instance was passed over.
THEOREM UpdatedOnceCorrect == Spec => []UpdatedOnce
<1>1. IInv /\ StageInv => UpdatedOnce
  <2> SUFFICES ASSUME IInv, StageInv PROVE UpdatedOnce
    OBVIOUS
  <2>1. ASSUME NEW x \in Tasks
        PROVE  Cardinality(Queued(x)) + Cardinality(Holders(x)) + Cardinality(Entering(x))
                 + (IF x \in done THEN 1 ELSE 0) <= 1
    <3>0. x # None BY TaskAssumption
    <3>1. Cardinality(Queued(x)) = IF Queued(x) = {} THEN 0 ELSE 1
      <4>1. \A a, b \in Queued(x) : a = b BY DEF Queued, StageInv, NoDuplicates
      <4> QED BY <4>1, AtMostOne
    <3>2. Cardinality(Holders(x)) = IF Holders(x) = {} THEN 0 ELSE 1
      <4>1. \A a, b \in Holders(x) : a = b BY <3>0 DEF Holders, StageInv, NoDuplicates
      <4> QED BY <4>1, AtMostOne
    <3>3. Cardinality(Entering(x)) = IF Entering(x) = {} THEN 0 ELSE 1
      <4>1. \A a, b \in Entering(x) : a = b
        BY <3>0 DEF Entering, StageInv, ThreadsHave, IInv, MutexHolder
      <4> QED BY <4>1, AtMostOne
    <3>4. /\ Queued(x) # {} => x \in InQueue
          /\ Holders(x) # {} => x \in Called
          /\ Entering(x) # {} => x \in Entered
      BY <3>0 DEF Queued, Holders, Entering, InQueue, Called, Entered
    <3>5. /\ x \in InQueue => x \notin Called /\ x \notin Entered /\ x \notin done
          /\ x \in Called => x \notin Entered /\ x \notin done
          /\ x \in Entered => x \notin done
      BY DEF StageInv, StagesApart
    <3> QED BY <3>1, <3>2, <3>3, <3>4, <3>5
  <2>2. ASSUME pc[World] = "delayed"
        PROVE  {LFG} \cup maps \cup inst \subseteq done \cup skipped
    <3>1. ToVisit = {} /\ Entered = {} /\ InQueue = {} /\ Called = {} BY <2>2, AllDone
    <3>2. ~stopping BY <2>2 DEF StageInv, PoolAndMaps
    <3>3. /\ {LFG} \cup maps \subseteq done
          /\ \A i \in inst : ParentOf[i] \in done => i \in done \cup skipped
      BY <2>2, <3>1, <3>2 DEF StageInv, NothingMissed
    <3> QED BY <3>3 DEF StageInv, PoolAndMaps
  <2> QED BY <2>1, <2>2 DEF UpdatedOnce
<1> QED BY StageInvariance, <1>1, PTL

\* No request refers to a map that was deleted: DestroyInstance, on whichever
\* map thread, only meets instances that are not scheduled in this tick.
THEOREM NoDeletedMapCorrect == Spec => []NoDeletedMap
<1>1. IInv /\ StageInv => NoDeletedMap
  <2> SUFFICES ASSUME StageInv, NEW x \in BaseMaps \cup Instances,
                      \/ Queued(x) # {}
                      \/ Entering(x) # {}
                      \/ \E w \in Workers : request[w] = x
               PROVE  x \in maps \cup inst
    BY DEF NoDeletedMap
  <2>1. x # None /\ x # LFG BY TaskAssumption DEF Tasks
  <2>2. /\ Queued(x) # {} => x \in InQueue
        /\ Entering(x) # {} => x \in Entered
    BY <2>1 DEF Queued, Entering, InQueue, Entered
  <2> QED BY <2>1, <2>2 DEF StageInv, RequestsAlive
<1> QED BY StageInvariance, <1>1, PTL

-----------------------------------------------------------------------------
(* The listing thread: the inductive invariant.                            *)

\* auctionListingLock is held by the thread that is in its section.
LockHolder ==
    /\ lock = "lister" <=> lpc \in {"choose", "execute"}
    /\ lock = "world" <=> wpc = "section"

\* The listing thread executes the first search whose delay is over, for a
\* player who is there.
Executing ==
    lpc = "execute" =>
        /\ Ready # {}
        /\ current = list[FirstReady]
        /\ wpc # "end" => PlayerOf[current] \in online

\* The two lists have what was filed and not answered, each search once.
Lists ==
    /\ answered \subseteq filed
    /\ \A m, n \in DOMAIN temp : temp[m] = temp[n] => m = n
    /\ \A m, n \in DOMAIN list : list[m] = list[n] => m = n
    /\ ToSet(temp) \cap ToSet(list) = {}
    /\ ToSet(temp) \cup ToSet(list) = filed \ answered

\* While World::Update waits for the lock the permission is withdrawn.
Forbidden == wpc \in {"wait", "section", "leave"} => ~allowed

ListingInv == ListingTypeOK /\ LockHolder /\ Executing /\ Lists /\ Forbidden

-----------------------------------------------------------------------------
(* Sequences of searches.                                                  *)

\* A set of naturals that is not empty has a smallest element.
LEMMA SmallestOf ==
    ASSUME NEW S \in SUBSET Nat, S # {}
    PROVE  \E n \in S : \A m \in S : n <= m
<1> DEFINE Less == OpToRel(<, Nat)
<1>1. IsWellFoundedOn(Less, Nat) BY NatLessThanWellFounded
<1> HIDE DEF Less
<1>2. PICK n \in S : \A m \in S : <<m, n>> \notin Less BY <1>1, WFMin
<1>3. \A m \in S : ~(m < n) BY <1>2 DEF Less, OpToRel
<1> QED BY <1>3

\* The first of the searches whose delay is over is one of them.
LEMMA FirstIsReady ==
    ASSUME list \in Seq(Requests), Ready # {}
    PROVE  FirstReady \in Ready /\ FirstReady \in DOMAIN list /\ list[FirstReady] \in Requests
<1>1. Ready \subseteq Nat BY DEF Ready
<1>2. \E n \in Ready : \A m \in Ready : n <= m BY <1>1, SmallestOf
<1>3. FirstReady \in Ready BY <1>2 DEF FirstReady
<1> QED BY <1>3 DEF Ready

\* RemoveAt closes the gap.
LEMMA Removed ==
    ASSUME NEW s \in Seq(Requests), NEW i \in DOMAIN s
    PROVE  /\ RemoveAt(s, i) \in Seq(Requests)
           /\ DOMAIN RemoveAt(s, i) = 1 .. Len(s) - 1
           /\ \A n \in 1 .. Len(s) - 1 : RemoveAt(s, i)[n] = IF n < i THEN s[n] ELSE s[n + 1]
<1>1. Len(s) \in Nat /\ i \in 1 .. Len(s) /\ DOMAIN s = 1 .. Len(s) OBVIOUS
<1> DEFINE front == SubSeq(s, 1, i - 1)
           back == SubSeq(s, i + 1, Len(s))
<1>2. front \in Seq(Requests) /\ Len(front) = i - 1 /\ \A n \in 1 .. i - 1 : front[n] = s[n]
  BY <1>1
<1>3. back \in Seq(Requests) /\ Len(back) = Len(s) - i /\ \A n \in 1 .. Len(s) - i : back[n] = s[n + i]
  <2>1. \A n \in i + 1 .. Len(s) : s[n] \in Requests BY <1>1
  <2>2. back \in Seq(Requests) /\ Len(back) = Len(s) - i
    BY <1>1, <2>1, SubSeqProperties
  <2>3. ASSUME NEW n \in 1 .. Len(s) - i PROVE back[n] = s[n + i]
    <3>1. back[n] = s[(i + 1) + n - 1] BY <1>1, <2>1, SubSeqProperties
    <3>2. (i + 1) + n - 1 = n + i BY <1>1
    <3> QED BY <3>1, <3>2
  <2> QED BY <2>2, <2>3
<1> HIDE DEF front, back
<1>4. RemoveAt(s, i) = front \o back BY DEF RemoveAt, front, back
<1>5. RemoveAt(s, i) \in Seq(Requests) /\ Len(RemoveAt(s, i)) = Len(s) - 1
  <2>1. front \o back \in Seq(Requests) /\ Len(front \o back) = (i - 1) + (Len(s) - i)
    BY <1>2, <1>3, ConcatProperties
  <2> QED BY <1>1, <1>4, <2>1
<1>6. ASSUME NEW n \in 1 .. Len(s) - 1
      PROVE  RemoveAt(s, i)[n] = IF n < i THEN s[n] ELSE s[n + 1]
  <2>1. CASE n < i BY <1>1, <1>2, <1>3, <1>4, <2>1
  <2>2. CASE ~(n < i)
    <3>1. n - (i - 1) \in 1 .. Len(s) - i /\ (n - (i - 1)) + i = n + 1 BY <1>1, <2>2
    <3>2. n \in 1 .. Len(front) + Len(back) /\ ~(n <= Len(front)) BY <1>1, <1>2, <1>3, <2>2
    <3>3. (front \o back)[n] = back[n - Len(front)]
      <4>1. \A j \in 1 .. Len(front) + Len(back) :
               (front \o back)[j] = IF j <= Len(front) THEN front[j] ELSE back[j - Len(front)]
        BY <1>2, <1>3, ConcatProperties
      <4> QED BY <3>2, <4>1
    <3> QED BY <1>2, <1>3, <1>4, <2>2, <3>1, <3>3
  <2> QED BY <2>1, <2>2
<1> QED BY <1>5, <1>6

\* What is removed from a sequence without repetitions is gone; the others stay,
\* once.
LEMMA RemovedOnce ==
    ASSUME NEW s \in Seq(Requests), NEW i \in DOMAIN s,
           \A m, n \in DOMAIN s : s[m] = s[n] => m = n
    PROVE  /\ ToSet(RemoveAt(s, i)) = ToSet(s) \ {s[i]}
           /\ \A m, n \in DOMAIN RemoveAt(s, i) : RemoveAt(s, i)[m] = RemoveAt(s, i)[n] => m = n
<1> DEFINE t == RemoveAt(s, i)
           From(n) == IF n < i THEN n ELSE n + 1
<1>1. Len(s) \in Nat /\ i \in 1 .. Len(s) /\ DOMAIN s = 1 .. Len(s) OBVIOUS
<1>2. DOMAIN t = 1 .. Len(s) - 1 /\ \A n \in 1 .. Len(s) - 1 : t[n] = IF n < i THEN s[n] ELSE s[n + 1]
  BY Removed
<1> HIDE DEF t
<1>3. \A n \in DOMAIN t : From(n) \in DOMAIN s /\ From(n) # i /\ t[n] = s[From(n)]
  BY <1>1, <1>2
<1>4. \A m, n \in DOMAIN t : From(m) = From(n) => m = n BY <1>1, <1>2
<1>5. \A n \in DOMAIN s : n # i => \E m \in DOMAIN t : From(m) = n
  <2> SUFFICES ASSUME NEW n \in DOMAIN s, n # i PROVE \E m \in DOMAIN t : From(m) = n
    OBVIOUS
  <2>1. CASE n < i
    <3>1. n \in DOMAIN t /\ From(n) = n BY <1>1, <1>2, <2>1
    <3> QED BY <3>1
  <2>2. CASE n > i
    <3>1. n - 1 \in DOMAIN t /\ From(n - 1) = n BY <1>1, <1>2, <2>2
    <3> QED BY <3>1
  <2> QED BY <1>1, <2>1, <2>2
<1> HIDE DEF From
<1>6. ToSet(t) = ToSet(s) \ {s[i]} BY <1>3, <1>5 DEF ToSet
<1>7. \A m, n \in DOMAIN t : t[m] = t[n] => m = n BY <1>3, <1>4
<1> QED BY <1>6, <1>7 DEF t

\* What two sequences have one after the other.
LEMMA Joined ==
    ASSUME NEW s \in Seq(Requests), NEW t \in Seq(Requests),
           \A m, n \in DOMAIN s : s[m] = s[n] => m = n,
           \A m, n \in DOMAIN t : t[m] = t[n] => m = n,
           ToSet(s) \cap ToSet(t) = {}
    PROVE  /\ s \o t \in Seq(Requests)
           /\ ToSet(s \o t) = ToSet(s) \cup ToSet(t)
           /\ \A m, n \in DOMAIN (s \o t) : (s \o t)[m] = (s \o t)[n] => m = n
<1> DEFINE u == s \o t
<1>1. Len(s) \in Nat /\ DOMAIN s = 1 .. Len(s) /\ Len(t) \in Nat /\ DOMAIN t = 1 .. Len(t) OBVIOUS
<1>2. /\ u \in Seq(Requests) /\ DOMAIN u = 1 .. Len(s) + Len(t)
      /\ \A n \in 1 .. Len(s) + Len(t) : u[n] = IF n <= Len(s) THEN s[n] ELSE t[n - Len(s)]
  BY ConcatProperties
<1> HIDE DEF u
<1>3. \A n \in DOMAIN u :
         \/ n \in DOMAIN s /\ u[n] = s[n]
         \/ n \notin DOMAIN s /\ n - Len(s) \in DOMAIN t /\ u[n] = t[n - Len(s)]
  <2> SUFFICES ASSUME NEW n \in DOMAIN u
               PROVE  \/ n \in DOMAIN s /\ u[n] = s[n]
                      \/ n \notin DOMAIN s /\ n - Len(s) \in DOMAIN t /\ u[n] = t[n - Len(s)]
    OBVIOUS
  <2>1. CASE n <= Len(s) BY <1>1, <1>2, <2>1
  <2>2. CASE ~(n <= Len(s))
    <3>1. n \notin 1 .. Len(s) /\ n - Len(s) \in 1 .. Len(t) BY <1>1, <1>2, <2>2
    <3> QED BY <1>1, <1>2, <2>2, <3>1
  <2> QED BY <2>1, <2>2
<1>4. \A n \in DOMAIN s : n \in DOMAIN u /\ u[n] = s[n] BY <1>1, <1>2
<1>5. \A n \in DOMAIN t : n + Len(s) \in DOMAIN u /\ u[n + Len(s)] = t[n]
  <2> SUFFICES ASSUME NEW n \in 1 .. Len(t) PROVE n + Len(s) \in DOMAIN u /\ u[n + Len(s)] = t[n]
    BY <1>1
  <2>1. n + Len(s) \in 1 .. Len(s) + Len(t) /\ ~(n + Len(s) <= Len(s)) /\ (n + Len(s)) - Len(s) = n
    BY <1>1
  <2> QED BY <1>2, <2>1
<1>6. ToSet(u) = ToSet(s) \cup ToSet(t) BY <1>3, <1>4, <1>5 DEF ToSet
<1>7. ASSUME NEW m \in DOMAIN u, NEW n \in DOMAIN u, u[m] = u[n] PROVE m = n
  <2>1. CASE m \in DOMAIN s /\ n \in DOMAIN s BY <1>3, <1>7, <2>1
  <2>2. CASE m \notin DOMAIN s /\ n \notin DOMAIN s
    <3>1. m - Len(s) = n - Len(s) BY <1>3, <1>7, <2>2
    <3> QED BY <1>1, <1>2, <3>1
  <2>3. CASE m \in DOMAIN s <=> n \notin DOMAIN s BY <1>3, <1>7, <2>3 DEF ToSet
  <2> QED BY <2>1, <2>2, <2>3
<1> QED BY <1>2, <1>6, <1>7 DEF u

-----------------------------------------------------------------------------
(* The listing thread: the invariant is inductive.                         *)

LEMMA ListingInitInv == ListingInit => ListingInv
<1> SUFFICES ASSUME ListingInit PROVE ListingInv
  OBVIOUS
<1>1. temp = <<>> /\ list = <<>> /\ ToSet(temp) = {} /\ ToSet(list) = {} BY DEF ListingInit, ToSet
<1>2. ListingTypeOK
  <2>1. <<>> \in Seq(Requests) OBVIOUS
  <2>2. temp \in Seq(Requests) /\ list \in Seq(Requests) BY <1>1, <2>1
  <2> QED BY <2>2 DEF ListingInit, ListingTypeOK
<1>3. LockHolder BY RequestAssumption DEF ListingInit, LockHolder
<1>4. Lists BY <1>1 DEF ListingInit, Lists
<1> QED BY <1>2, <1>3, <1>4 DEF ListingInit, ListingInv, Executing, Forbidden

\* A step that touches neither list keeps the lists.
LEMMA SameLists ==
    ASSUME Lists, UNCHANGED <<filed, temp, list, answered>> PROVE Lists'
BY DEF Lists, ToSet

\* The search being executed stays the first while the lists stay.
LEMMA SameFirst ==
    ASSUME UNCHANGED <<list, due>> PROVE Ready' = Ready /\ FirstReady' = FirstReady
BY DEF Ready, FirstReady

\* A search is filed.
LEMMA FileInv == ASSUME ListingInv, NEW r \in Requests, HandleAuctionListItems(r) PROVE ListingInv'
<1> USE RequestAssumption
<1>1. /\ r \notin filed /\ filed' = filed \cup {r} /\ temp' = Append(temp, r) /\ PlayerOf[r] \in online
      /\ UNCHANGED <<online, list, due, answered, allowed, lock, wpc, lpc, current, stopped>>
  BY DEF HandleAuctionListItems
<1>2. temp \in Seq(Requests) /\ list \in Seq(Requests) BY DEF ListingInv, ListingTypeOK
<1>3. ListingTypeOK' BY <1>1 DEF ListingInv, ListingTypeOK
<1>4. LockHolder' /\ Forbidden' BY <1>1 DEF ListingInv, LockHolder, Forbidden
<1>5. Executing' BY <1>1, SameFirst DEF ListingInv, Executing
<1>6. Lists'
  <2>1. r \notin ToSet(temp) /\ r \notin ToSet(list) BY <1>1 DEF ListingInv, Lists
  <2>2. temp' = temp \o <<r>> /\ <<r>> \in Seq(Requests) /\ ToSet(<<r>>) = {r} BY <1>1, <1>2 DEF ToSet
  <2>3. \A m, n \in DOMAIN <<r>> : <<r>>[m] = <<r>>[n] => m = n OBVIOUS
  <2>4. /\ ToSet(temp') = ToSet(temp) \cup {r}
        /\ \A m, n \in DOMAIN temp' : temp'[m] = temp'[n] => m = n
    <3>1. \A m, n \in DOMAIN temp : temp[m] = temp[n] => m = n BY DEF ListingInv, Lists
    <3>2. ToSet(temp) \cap ToSet(<<r>>) = {} BY <2>1, <2>2
    <3>3. /\ ToSet(temp \o <<r>>) = ToSet(temp) \cup ToSet(<<r>>)
          /\ \A m, n \in DOMAIN (temp \o <<r>>) :
                (temp \o <<r>>)[m] = (temp \o <<r>>)[n] => m = n
      BY <1>2, <2>2, <2>3, <3>1, <3>2, Joined
    <3> QED BY <2>2, <3>3
  <2> QED BY <1>1, <2>1, <2>4 DEF ListingInv, Lists
<1> QED BY <1>3, <1>4, <1>5, <1>6 DEF ListingInv

\* The world thread, outside the lists.
LEMMA WorldInv ==
    ASSUME ListingInv, WorldThread \/ StopNow \/ \E p \in Players : Login(p) \/ Logout(p)
    PROVE  ListingInv'
<1> USE RequestAssumption
<1>1. UNCHANGED <<filed, temp, list, due, answered, lpc, current>>
  BY DEF WorldThread, Forbid, EnterSection, LeaveSection, Allow, LastUpdateSessions, StopNow, Login, Logout
<1>2. Lists' BY <1>1, SameLists DEF ListingInv
<1>3. Ready' = Ready /\ FirstReady' = FirstReady BY <1>1, SameFirst
<1>4. CASE Forbid
  <2> USE <1>4 DEF Forbid
  <2>1. ListingTypeOK' BY DEF ListingInv, ListingTypeOK
  <2>2. LockHolder' /\ Forbidden' BY DEF ListingInv, LockHolder, Forbidden
  <2>3. Executing' BY <1>3 DEF ListingInv, Executing
  <2> QED BY <1>2, <2>1, <2>2, <2>3 DEF ListingInv
<1>5. CASE EnterSection
  <2> USE <1>5 DEF EnterSection
  <2>1. ListingTypeOK' BY DEF ListingInv, ListingTypeOK
  <2>2. LockHolder' /\ Forbidden' BY DEF ListingInv, LockHolder, Forbidden
  <2>3. Executing' BY <1>3 DEF ListingInv, Executing
  <2> QED BY <1>2, <2>1, <2>2, <2>3 DEF ListingInv
<1>6. CASE LeaveSection
  <2> USE <1>6 DEF LeaveSection
  <2>1. ListingTypeOK' BY DEF ListingInv, ListingTypeOK
  <2>2. LockHolder' /\ Forbidden' BY DEF ListingInv, LockHolder, Forbidden
  <2>3. Executing' BY <1>3 DEF ListingInv, Executing
  <2> QED BY <1>2, <2>1, <2>2, <2>3 DEF ListingInv
<1>7. CASE Allow
  <2> USE <1>7 DEF Allow
  <2>1. ListingTypeOK' BY DEF ListingInv, ListingTypeOK
  <2>2. LockHolder' /\ Forbidden' BY DEF ListingInv, LockHolder, Forbidden
  <2>3. Executing' BY <1>3 DEF ListingInv, Executing
  <2> QED BY <1>2, <2>1, <2>2, <2>3 DEF ListingInv
<1>8. CASE LastUpdateSessions
  <2> USE <1>8 DEF LastUpdateSessions
  <2>1. ListingTypeOK' BY DEF ListingInv, ListingTypeOK
  <2>2. LockHolder' /\ Forbidden' BY DEF ListingInv, LockHolder, Forbidden
  <2>3. Executing' BY <1>3 DEF ListingInv, Executing
  <2> QED BY <1>2, <2>1, <2>2, <2>3 DEF ListingInv
<1>9. CASE StopNow
  <2> USE <1>9 DEF StopNow
  <2>1. ListingTypeOK' BY DEF ListingInv, ListingTypeOK
  <2>2. LockHolder' /\ Forbidden' BY DEF ListingInv, LockHolder, Forbidden
  <2>3. Executing' BY <1>3 DEF ListingInv, Executing
  <2> QED BY <1>2, <2>1, <2>2, <2>3 DEF ListingInv
<1>10. ASSUME NEW p \in Players, Login(p) \/ Logout(p) PROVE ListingInv'
  <2>1. /\ wpc = "section" /\ online' \subseteq Players
        /\ UNCHANGED <<allowed, lock, wpc, stopped>>
    BY <1>10 DEF Login, Logout, ListingInv, ListingTypeOK
  <2>2. lpc # "execute" BY <2>1 DEF ListingInv, LockHolder
  <2>3. ListingTypeOK' BY <1>1, <2>1 DEF ListingInv, ListingTypeOK
  <2>4. LockHolder' /\ Forbidden' BY <1>1, <2>1 DEF ListingInv, LockHolder, Forbidden
  <2>5. Executing' BY <1>1, <2>2 DEF Executing
  <2> QED BY <1>2, <2>3, <2>4, <2>5 DEF ListingInv
<1> QED BY <1>4, <1>5, <1>6, <1>7, <1>8, <1>9, <1>10 DEF WorldThread

\* The listing thread takes the new searches over.
LEMMA TakeInv == ASSUME ListingInv, NEW expired \in SUBSET Requests, TakeSearches(expired) PROVE ListingInv'
<1> USE RequestAssumption
<1>1. /\ lpc = "lock" /\ lock = Nobody /\ lock' = "lister" /\ list' = list \o temp /\ temp' = <<>>
      /\ due' = due \cup expired /\ lpc' = "choose"
      /\ UNCHANGED <<online, filed, answered, allowed, wpc, current, stopped>>
  BY DEF TakeSearches
<1>2. temp \in Seq(Requests) /\ list \in Seq(Requests) BY DEF ListingInv, ListingTypeOK
<1>3. /\ list' \in Seq(Requests)
      /\ ToSet(list') = ToSet(list) \cup ToSet(temp)
      /\ \A m, n \in DOMAIN list' : list'[m] = list'[n] => m = n
  BY <1>1, <1>2, Joined DEF ListingInv, Lists
<1>4. ListingTypeOK' BY <1>1, <1>3 DEF ListingInv, ListingTypeOK
<1>5. LockHolder' /\ Forbidden' /\ Executing' BY <1>1 DEF ListingInv, LockHolder, Forbidden, Executing
<1>6. ToSet(temp') = {} /\ DOMAIN temp' = {} BY <1>1 DEF ToSet
<1>7. Lists' BY <1>1, <1>3, <1>6 DEF ListingInv, Lists
<1> QED BY <1>4, <1>5, <1>7 DEF ListingInv

\* A search is answered or dropped.
LEMMA AnswerInv == ASSUME ListingInv, DropSearch \/ FinishExecute PROVE ListingInv'
<1> USE RequestAssumption
<1>1. /\ lpc \in {"choose", "execute"} /\ Ready # {}
      /\ answered' = answered \cup {list[FirstReady]} /\ list' = RemoveAt(list, FirstReady)
      /\ lock' = Nobody /\ lpc' = "check" /\ current' \in {current, Nobody}
      /\ UNCHANGED <<online, filed, temp, due, allowed, wpc, stopped>>
  BY DEF DropSearch, FinishExecute, ListingInv, Executing
<1>2. list \in Seq(Requests) /\ temp \in Seq(Requests) BY DEF ListingInv, ListingTypeOK
<1>3. FirstReady \in DOMAIN list /\ list[FirstReady] \in Requests BY <1>1, <1>2, FirstIsReady
<1>4. list' \in Seq(Requests) BY <1>1, <1>2, <1>3, Removed
<1>5. /\ ToSet(list') = ToSet(list) \ {list[FirstReady]}
      /\ \A m, n \in DOMAIN list' : list'[m] = list'[n] => m = n
  BY <1>1, <1>2, <1>3, RemovedOnce DEF ListingInv, Lists
<1>6. list[FirstReady] \in ToSet(list) BY <1>3 DEF ToSet
<1>7. Lists'
  <2>1. list[FirstReady] \in filed \ answered /\ list[FirstReady] \notin ToSet(temp) BY <1>6 DEF ListingInv, Lists
  <2> QED BY <1>1, <1>5, <2>1 DEF ListingInv, Lists
<1>8. ListingTypeOK' BY <1>1, <1>3, <1>4 DEF ListingInv, ListingTypeOK
<1>9. wpc # "section" BY <1>1 DEF ListingInv, LockHolder
<1>10. LockHolder' /\ Forbidden' /\ Executing'
  BY <1>1, <1>9 DEF ListingInv, LockHolder, Forbidden, Executing
<1> QED BY <1>7, <1>8, <1>10 DEF ListingInv

\* The other steps of the listing thread.
LEMMA ListerInv ==
    ASSUME ListingInv, Check \/ NothingReady \/ BeginExecute \/ InterruptExecute \/ ListingExit PROVE ListingInv'
<1> USE RequestAssumption
<1>1. UNCHANGED <<online, filed, temp, list, due, answered, allowed, wpc, stopped>>
  BY DEF Check, NothingReady, BeginExecute, InterruptExecute, ListingExit
<1>2. Lists' BY <1>1, SameLists DEF ListingInv
<1>3. CASE Check \/ ListingExit
  <2>1. lpc = "check" /\ lpc' \in {"lock", "exit"} /\ UNCHANGED <<lock, current>> BY <1>3 DEF Check, ListingExit
  <2>2. ListingTypeOK' BY <1>1, <2>1 DEF ListingInv, ListingTypeOK
  <2>3. LockHolder' /\ Forbidden' /\ Executing'
    BY <1>1, <2>1 DEF ListingInv, LockHolder, Forbidden, Executing
  <2> QED BY <1>2, <2>2, <2>3 DEF ListingInv
<1>4. CASE NothingReady \/ InterruptExecute
  <2>1. /\ lpc \in {"choose", "execute"} /\ lpc' = "check" /\ lock' = Nobody
        /\ current' \in {current, Nobody}
    BY <1>4 DEF NothingReady, InterruptExecute
  <2>2. ListingTypeOK' BY <1>1, <2>1 DEF ListingInv, ListingTypeOK
  <2>3. wpc # "section" BY <2>1 DEF ListingInv, LockHolder
  <2>4. LockHolder' /\ Forbidden' /\ Executing'
    BY <1>1, <2>1, <2>3 DEF ListingInv, LockHolder, Forbidden, Executing
  <2> QED BY <1>2, <2>2, <2>4 DEF ListingInv
<1>5. CASE BeginExecute
  <2>1. /\ lpc = "choose" /\ lpc' = "execute" /\ lock' = lock /\ Ready # {}
        /\ current' = list[FirstReady] /\ PlayerOf[list[FirstReady]] \in online
    BY <1>5 DEF BeginExecute
  <2>2. list[FirstReady] \in Requests BY <2>1, FirstIsReady DEF ListingInv, ListingTypeOK
  <2>3. ListingTypeOK' BY <1>1, <2>1, <2>2 DEF ListingInv, ListingTypeOK
  <2>4. LockHolder' /\ Forbidden' BY <1>1, <2>1 DEF ListingInv, LockHolder, Forbidden
  <2>5. Ready' = Ready /\ FirstReady' = FirstReady BY <1>1, SameFirst
  <2>6. Executing' BY <1>1, <2>1, <2>5 DEF Executing
  <2> QED BY <1>2, <2>3, <2>4, <2>6 DEF ListingInv
<1> QED BY <1>3, <1>4, <1>5

\* Every step preserves the invariant.
LEMMA ListingNextInv == ListingInv /\ [ListingNext]_listingVars => ListingInv'
<1> SUFFICES ASSUME ListingInv, [ListingNext]_listingVars PROVE ListingInv'
  OBVIOUS
<1>1. CASE UNCHANGED listingVars
  <2>1. UNCHANGED <<online, filed, temp, list, due, answered, allowed, lock, wpc, lpc, current, stopped>>
    BY <1>1 DEF listingVars
  <2>2. Lists' BY <2>1, SameLists DEF ListingInv
  <2>3. Executing' BY <2>1, SameFirst DEF ListingInv, Executing
  <2>4. ListingTypeOK' /\ LockHolder' /\ Forbidden' BY <2>1 DEF ListingInv, ListingTypeOK, LockHolder, Forbidden
  <2> QED BY <2>2, <2>3, <2>4 DEF ListingInv
<1>2. CASE Lister BY <1>2, TakeInv, AnswerInv, ListerInv DEF Lister
<1>3. CASE WorldThread \/ StopNow \/ \E p \in Players : Login(p) \/ Logout(p) BY <1>3, WorldInv
<1>4. CASE \E r \in Requests : HandleAuctionListItems(r) BY <1>4, FileInv
<1> QED BY <1>1, <1>2, <1>3, <1>4 DEF ListingNext, ListingEnds

\* The invariant holds throughout.
LEMMA ListingInvariance == ListingSpec => []ListingInv
BY ListingInitInv, ListingNextInv, PTL DEF ListingSpec

-----------------------------------------------------------------------------
(* The theorems about the listing thread.                                  *)

\* For any number of searches and players, the listing thread is between its
\* lock and its unlock only while World::Update is not, and the player whose
\* search it executes stays until the world loop has ended
\* (AuctionListingRunnable::run, World::Update).
THEOREM SectionCorrect == ListingSpec => []NoListingInSection
<1>1. ListingInv => NoListingInSection
  BY RequestAssumption DEF ListingInv, LockHolder, Executing, NoListingInSection
<1> QED BY <1>1, ListingInvariance, PTL

\* A search that was filed is in one of the two lists, once, until it is
\* answered, and then in none: whatever interrupts it and however often the
\* lists are joined, none is lost and none is answered twice.
THEOREM SearchesCorrect == ListingSpec => []EachSearchOnce
<1>1. ListingInv => EachSearchOnce
  <2> SUFFICES ASSUME ListingInv PROVE EachSearchOnce
    OBVIOUS
  <2> DEFINE waiting == temp \o list
  <2>1. /\ ToSet(waiting) = filed \ answered
        /\ \A m, n \in DOMAIN waiting : waiting[m] = waiting[n] => m = n
    BY Joined DEF ListingInv, ListingTypeOK, Lists
  <2> HIDE DEF waiting
  <2>2. ASSUME NEW r \in filed
        PROVE  IF r \in answered THEN \A n \in DOMAIN waiting : waiting[n] # r
               ELSE \E n \in DOMAIN waiting : \A m \in DOMAIN waiting : waiting[m] = r <=> m = n
    <3>1. CASE r \in answered BY <2>1, <3>1 DEF ToSet
    <3>2. CASE r \notin answered
      <4>1. PICK n \in DOMAIN waiting : waiting[n] = r BY <2>1, <3>2 DEF ToSet
      <4> QED BY <2>1, <3>2, <4>1
    <3> QED BY <3>1, <3>2
  <2> QED BY <2>2 DEF EachSearchOnce, waiting
<1> QED BY <1>1, ListingInvariance, PTL

\* The listing thread does not come back for the lock while World::Update waits
\* for it: the permission was withdrawn before.
THEOREM ListerYields ==
    ListingSpec => [][wpc = "wait" /\ wpc' = "wait" /\ lpc = "check" => lpc' # "lock"]_listingVars
<1>1. ListingInv /\ [ListingNext]_listingVars =>
         [wpc = "wait" /\ wpc' = "wait" /\ lpc = "check" => lpc' # "lock"]_listingVars
  <2> SUFFICES ASSUME ListingInv, ListingNext, wpc = "wait", lpc = "check", lpc' = "lock" PROVE FALSE
    OBVIOUS
  <2>1. ~allowed BY DEF ListingInv, Forbidden
  <2>2. lpc' # lpc BY Zenon
  <2>3. Lister
    BY <2>2 DEF ListingNext, HandleAuctionListItems, WorldThread, Forbid, EnterSection, LeaveSection, Allow,
                LastUpdateSessions, Login, Logout, StopNow, ListingEnds, listingVars
  <2> QED
    BY <2>1, <2>3 DEF Lister, Check, TakeSearches, NothingReady, BeginExecute, DropSearch, FinishExecute,
                      InterruptExecute, ListingExit
<1> QED BY <1>1, ListingInvariance, PTL DEF ListingSpec
=============================================================================
