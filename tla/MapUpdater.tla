----------------------------- MODULE MapUpdater -----------------------------
(***************************************************************************)
(* The world tick: MapManager::Update hands every base map, and the LFG    *)
(* manager, to a pool of map threads through MapUpdater, and waits until   *)
(* all of them are done.  A base map of an instanceable zone is a          *)
(* MapInstanced container: its update runs on a map thread, destroys the   *)
(* idle instances and schedules the others through the same MapUpdater.    *)
(*                                                                         *)
(* Each critical section of MapUpdater::m_mutex is an action, except that  *)
(* of schedule_update, which may block on a full queue while it holds the  *)
(* mutex and is therefore two.  What a map update computes and the time    *)
(* differences are abstracted away; the answers of Map::CanUnload and of   *)
(* Map::HavePlayers after RemoveAllPlayers are nondeterministic choices.   *)
(***************************************************************************)
EXTENDS Naturals, Sequences, FiniteSets

CONSTANTS
    Workers,     \* the map threads, when CONFIG_NUMTHREADS asks for them
    World,       \* the world thread
    LFG,         \* the LFGUpdateRequest
    PlainMaps,   \* the base maps that are not instanceable
    Containers,  \* the instanceable base maps (MapInstanced)
    Instances,   \* the instance maps
    ParentOf,    \* the container each instance belongs to
    Capacity,    \* how many requests fit below the high water mark of the ACE queue
    None         \* no thread, no request

Threads  == Workers \cup {World}
BaseMaps == PlainMaps \cup Containers
Tasks    == {LFG} \cup BaseMaps \cup Instances

ASSUME ThreadAssumption ==
    /\ IsFiniteSet(Workers)
    /\ World \notin Workers
    /\ None \notin Threads

ASSUME TaskAssumption ==
    /\ None \notin Tasks
    /\ LFG \notin BaseMaps \cup Instances
    /\ PlainMaps \cap Containers = {}
    /\ BaseMaps \cap Instances = {}
    /\ ParentOf \in [Instances -> Containers]

ASSUME CapacityAssumption == Capacity \in Nat \ {0}

VARIABLES
    activated,   \* DelayExecutor::activated_
    open,        \* whether the ACE message queue is activated
    queue,       \* the requests in the message queue, first in first out
    pending,     \* MapUpdater::pending_requests
    mutex,       \* the holder of MapUpdater::m_mutex, or None
    pc,          \* where each thread is
    todo,        \* what the map loop of each thread has still to visit
    arg,         \* the argument of the schedule_update each thread is in
    request,     \* the request each map thread took from the queue
    maps,        \* MapManager::i_maps
    inst,        \* the instances in the m_InstancedMaps of their containers
    done,        \* history: what has been updated in this tick
    skipped,     \* history: instances neither updated nor destroyed in this tick
    stopping     \* the world loop has ended (World::IsStopped)

vars == <<activated, open, queue, pending, mutex, pc, todo, arg, request,
          maps, inst, done, skipped, stopping>>

WorldLabels  == {"idle", "loop", "enqueue", "wait", "sleep", "delayed", "close", "join", "stopped"}
WorkerLabels == {"idle", "call", "loop", "enqueue", "finish", "exit"}

ChildrenOf(m) == {i \in inst : ParentOf[i] = m}

\* MapManager::Initialize: the pool is started when CONFIG_NUMTHREADS is not
\* zero; without it there are no map threads.
Init ==
    /\ activated \in {b \in BOOLEAN : b => Workers # {}}
    /\ open = activated
    /\ queue = <<>>
    /\ pending = 0
    /\ mutex = None
    /\ pc = [t \in Threads |-> IF t \in Workers /\ ~activated THEN "exit" ELSE "idle"]
    /\ todo = [t \in Threads |-> {}]
    /\ arg = [t \in Threads |-> None]
    /\ request = [w \in Workers |-> None]
    /\ maps = {}
    /\ inst = {}
    /\ done = {}
    /\ skipped = {}
    /\ stopping = FALSE

-----------------------------------------------------------------------------
(* The world thread between two ticks: sessions, teleports and scripts     *)
(* create maps.  CreateInstanceForPlayer may also destroy an instance and  *)
(* create it anew under the same id, which leaves i_maps and the           *)
(* containers as they were.                                                *)

CreateBaseMap(m) ==
    /\ pc[World] = "idle"
    /\ m \notin maps
    /\ maps' = maps \cup {m}
    /\ UNCHANGED <<activated, open, queue, pending, mutex, pc, todo, arg, request,
                   inst, done, skipped, stopping>>

CreateInstance(i) ==
    /\ pc[World] = "idle"
    /\ ParentOf[i] \in maps
    /\ i \notin inst
    /\ inst' = inst \cup {i}
    /\ UNCHANGED <<activated, open, queue, pending, mutex, pc, todo, arg, request,
                   maps, done, skipped, stopping>>

-----------------------------------------------------------------------------
(* MapManager::Update on the world thread.                                 *)

BeginUpdate ==
    /\ pc[World] = "idle"
    /\ pc' = [pc EXCEPT ![World] = "loop"]
    /\ todo' = [todo EXCEPT ![World] = {LFG} \cup maps]
    /\ done' = {}
    /\ skipped' = {}
    /\ UNCHANGED <<activated, open, queue, pending, mutex, arg, request, maps, inst, stopping>>

\* The entry of schedule_update and schedule_lfg_update: take m_mutex and count.
EnterSchedule(t, x) ==
    /\ mutex = None
    /\ mutex' = t
    /\ pending' = pending + 1
    /\ arg' = [arg EXCEPT ![t] = x]
    /\ todo' = [todo EXCEPT ![t] = @ \ {x}]
    /\ pc' = [pc EXCEPT ![t] = "enqueue"]

\* The LFG request is scheduled before the maps.
ScheduleFromTick(x) ==
    /\ pc[World] = "loop"
    /\ activated
    /\ x \in todo[World]
    /\ LFG \in todo[World] => x = LFG
    /\ EnterSchedule(World, x)
    /\ UNCHANGED <<activated, open, queue, request, maps, inst, done, skipped, stopping>>

\* DelayExecutor::execute waits while the queue is full and fails once it is
\* closed; the counter is then taken back.  m_mutex is held all along.
Enqueue(t) ==
    /\ pc[t] = "enqueue"
    /\ open => Len(queue) < Capacity
    /\ queue' = IF open THEN Append(queue, arg[t]) ELSE queue
    /\ pending' = IF open THEN pending ELSE pending - 1
    /\ mutex' = None
    /\ arg' = [arg EXCEPT ![t] = None]
    /\ pc' = [pc EXCEPT ![t] = "loop"]
    /\ UNCHANGED <<activated, open, todo, request, maps, inst, done, skipped, stopping>>

\* Without map threads everything is updated in place, a container together
\* with the instances it does not destroy (gone) or keep waiting (kept).
UpdateInline(x, gone, kept) ==
    /\ pc[World] = "loop"
    /\ ~activated
    /\ x \in todo[World]
    /\ LFG \in todo[World] => x = LFG
    /\ gone \cap kept = {}
    /\ gone \cup kept \subseteq ChildrenOf(x)
    /\ todo' = [todo EXCEPT ![World] = @ \ {x}]
    /\ inst' = inst \ gone
    /\ done' = done \cup {x} \cup (ChildrenOf(x) \ (gone \cup kept))
    /\ skipped' = skipped \cup kept
    /\ UNCHANGED <<activated, open, queue, pending, mutex, pc, arg, request, maps, stopping>>

EndLoop ==
    /\ pc[World] = "loop"
    /\ todo[World] = {}
    /\ pc' = [pc EXCEPT ![World] = IF activated THEN "wait" ELSE "delayed"]
    /\ UNCHANGED <<activated, open, queue, pending, mutex, todo, arg, request,
                   maps, inst, done, skipped, stopping>>

\* MapUpdater::wait with m_mutex held: leave it, or sleep on m_condition.
Wait ==
    /\ pc[World] = "wait"
    /\ mutex = None
    /\ pc' = [pc EXCEPT ![World] = IF pending > 0 THEN "sleep"
                                   ELSE IF stopping THEN "close" ELSE "delayed"]
    /\ UNCHANGED <<activated, open, queue, pending, mutex, todo, arg, request,
                   maps, inst, done, skipped, stopping>>

\* Mutant: wait does not test pending_requests again after it was woken.
WakeupWithoutRecheck ==
    /\ pc[World] = "sleep"
    /\ pc' = [pc EXCEPT ![World] = IF stopping THEN "close" ELSE "delayed"]
    /\ UNCHANGED <<activated, open, queue, pending, mutex, todo, arg, request,
                   maps, inst, done, skipped, stopping>>

\* A condition variable may wake up without a broadcast.
SpuriousWakeup ==
    /\ pc[World] = "sleep"
    /\ pc' = [pc EXCEPT ![World] = "wait"]
    /\ UNCHANGED <<activated, open, queue, pending, mutex, todo, arg, request,
                   maps, inst, done, skipped, stopping>>

\* The delayed updates and the timers: the world thread is alone with the maps.
DelayedUpdate ==
    /\ pc[World] = "delayed"
    /\ pc' = [pc EXCEPT ![World] = "idle"]
    /\ UNCHANGED <<activated, open, queue, pending, mutex, todo, arg, request,
                   maps, inst, done, skipped, stopping>>

-----------------------------------------------------------------------------
(* The end of the world loop: MapManager::UnloadAll deletes every map and  *)
(* then deactivates the pool.                                              *)

UnloadAll ==
    /\ pc[World] = "idle"
    /\ stopping' = TRUE
    /\ maps' = {}
    /\ inst' = {}
    /\ pc' = [pc EXCEPT ![World] = IF activated THEN "wait" ELSE "stopped"]
    /\ UNCHANGED <<activated, open, queue, pending, mutex, todo, arg, request, done, skipped>>

\* DelayExecutor::deactivate, up to the wait for the threads.
Deactivate ==
    /\ pc[World] = "close"
    /\ activated' = FALSE
    /\ open' = FALSE
    /\ pc' = [pc EXCEPT ![World] = "join"]
    /\ UNCHANGED <<queue, pending, mutex, todo, arg, request,
                   maps, inst, done, skipped, stopping>>

Join ==
    /\ pc[World] = "join"
    /\ \A w \in Workers : pc[w] = "exit"
    /\ pc' = [pc EXCEPT ![World] = "stopped"]
    /\ UNCHANGED <<activated, open, queue, pending, mutex, todo, arg, request,
                   maps, inst, done, skipped, stopping>>

-----------------------------------------------------------------------------
(* The map threads: DelayExecutor::svc.                                    *)

Dequeue(w) ==
    /\ pc[w] = "idle"
    /\ open
    /\ queue # <<>>
    /\ request' = [request EXCEPT ![w] = Head(queue)]
    /\ queue' = Tail(queue)
    /\ pc' = [pc EXCEPT ![w] = "call"]
    /\ UNCHANGED <<activated, open, pending, mutex, todo, arg, maps, inst, done, skipped, stopping>>

\* A closed queue hands out nothing, whatever is left in it.
Exit(w) ==
    /\ pc[w] = "idle"
    /\ ~open
    /\ pc' = [pc EXCEPT ![w] = "exit"]
    /\ UNCHANGED <<activated, open, queue, pending, mutex, todo, arg, request,
                   maps, inst, done, skipped, stopping>>

\* Mutant: MapInstanced::Update does not visit its instances.
CallAlone(w) ==
    /\ pc[w] = "call"
    /\ done' = done \cup {request[w]}
    /\ pc' = [pc EXCEPT ![w] = "finish"]
    /\ UNCHANGED <<activated, open, queue, pending, mutex, todo, arg, request,
                   maps, inst, skipped, stopping>>

\* Map::Update or LFGMgr::Update; MapInstanced::Update goes on to its instances.
Call(w) ==
    /\ pc[w] = "call"
    /\ done' = done \cup {request[w]}
    /\ pc' = [pc EXCEPT ![w] = IF request[w] \in Containers THEN "loop" ELSE "finish"]
    /\ todo' = [todo EXCEPT ![w] = ChildrenOf(request[w])]
    /\ UNCHANGED <<activated, open, queue, pending, mutex, arg, request,
                   maps, inst, skipped, stopping>>

\* Mutant: CanUnload is asked after the instance was scheduled.
DestroyScheduled(w, i) ==
    /\ pc[w] = "loop"
    /\ i \in ChildrenOf(request[w])
    /\ inst' = inst \ {i}
    /\ todo' = [todo EXCEPT ![w] = @ \ {i}]
    /\ UNCHANGED <<activated, open, queue, pending, mutex, pc, arg, request,
                   maps, done, skipped, stopping>>

\* MapInstanced::Update: the instance is due for unloading and has no player left.
DestroyInstance(w, i) ==
    /\ pc[w] = "loop"
    /\ i \in todo[w]
    /\ inst' = inst \ {i}
    /\ todo' = [todo EXCEPT ![w] = @ \ {i}]
    /\ UNCHANGED <<activated, open, queue, pending, mutex, pc, arg, request,
                   maps, done, skipped, stopping>>

\* The instance is due for unloading but a player could not be removed.
KeepInstance(w, i) ==
    /\ pc[w] = "loop"
    /\ i \in todo[w]
    /\ skipped' = skipped \cup {i}
    /\ todo' = [todo EXCEPT ![w] = @ \ {i}]
    /\ UNCHANGED <<activated, open, queue, pending, mutex, pc, arg, request,
                   maps, inst, done, stopping>>

\* The instance stays.  The map threads end before activated is reset, so the
\* inline branch of MapInstanced::Update is UpdateInline's.
ScheduleInstance(w, i) ==
    /\ pc[w] = "loop"
    /\ i \in todo[w]
    /\ EnterSchedule(w, i)
    /\ UNCHANGED <<activated, open, queue, request, maps, inst, done, skipped, stopping>>

EndInstances(w) ==
    /\ pc[w] = "loop"
    /\ todo[w] = {}
    /\ pc' = [pc EXCEPT ![w] = "finish"]
    /\ UNCHANGED <<activated, open, queue, pending, mutex, todo, arg, request,
                   maps, inst, done, skipped, stopping>>

\* Mutant: update_finished does not count down.
UpdateFinishedUncounted(w) ==
    /\ pc[w] = "finish"
    /\ mutex = None
    /\ pc' = [pc EXCEPT ![w] = "idle",
                        ![World] = IF @ = "sleep" THEN "wait" ELSE @]
    /\ request' = [request EXCEPT ![w] = None]
    /\ UNCHANGED <<activated, open, queue, pending, mutex, todo, arg,
                   maps, inst, done, skipped, stopping>>

\* Mutant: update_finished does not broadcast.
UpdateFinishedSilent(w) ==
    /\ pc[w] = "finish"
    /\ mutex = None
    /\ pending' = IF pending = 0 THEN pending ELSE pending - 1
    /\ pc' = [pc EXCEPT ![w] = "idle"]
    /\ request' = [request EXCEPT ![w] = None]
    /\ UNCHANGED <<activated, open, queue, mutex, todo, arg, maps, inst, done, skipped, stopping>>

\* MapUpdater::update_finished, then the request is deleted.
UpdateFinished(w) ==
    /\ pc[w] = "finish"
    /\ mutex = None
    /\ pending' = IF pending = 0 THEN pending ELSE pending - 1
    /\ pc' = [pc EXCEPT ![w] = "idle",
                        ![World] = IF @ = "sleep" THEN "wait" ELSE @]
    /\ request' = [request EXCEPT ![w] = None]
    /\ UNCHANGED <<activated, open, queue, mutex, todo, arg, maps, inst, done, skipped, stopping>>

-----------------------------------------------------------------------------
Tick ==
    \/ \E x \in Tasks : ScheduleFromTick(x)
    \/ Enqueue(World)
    \/ \E x \in {LFG} \cup BaseMaps : \E gone, kept \in SUBSET Instances : UpdateInline(x, gone, kept)
    \/ EndLoop
    \/ Wait
    \/ DelayedUpdate
    \/ Deactivate
    \/ Join

Worker(w) ==
    \/ Dequeue(w)
    \/ Exit(w)
    \/ Call(w)
    \/ \E i \in Instances : DestroyInstance(w, i) \/ KeepInstance(w, i) \/ ScheduleInstance(w, i)
    \/ Enqueue(w)
    \/ EndInstances(w)
    \/ UpdateFinished(w)

Terminating == pc[World] = "stopped" /\ UNCHANGED vars

Next ==
    \/ \E m \in BaseMaps : CreateBaseMap(m)
    \/ \E i \in Instances : CreateInstance(i)
    \/ BeginUpdate
    \/ UnloadAll
    \/ SpuriousWakeup
    \/ Tick
    \/ \E w \in Workers : Worker(w)
    \/ Terminating

Spec == Init /\ [][Next]_vars

\* A started tick or shutdown and every map thread keep going; nothing forces
\* a new map, a new tick, the shutdown or a spurious wakeup.
FairSpec == Spec /\ WF_vars(Tick) /\ \A w \in Workers : WF_vars(Worker(w))

-----------------------------------------------------------------------------
(* Properties.                                                             *)

\* Every variable keeps its type.
TypeOK ==
    /\ activated \in BOOLEAN
    /\ open \in BOOLEAN
    /\ queue \in Seq(Tasks)
    /\ pending \in Nat
    /\ mutex \in Threads \cup {None}
    /\ pc \in [Threads -> WorldLabels \cup WorkerLabels]
    /\ pc[World] \in WorldLabels
    /\ \A w \in Workers : pc[w] \in WorkerLabels
    /\ todo \in [Threads -> SUBSET Tasks]
    /\ arg \in [Threads -> Tasks \cup {None}]
    /\ request \in [Workers -> Tasks \cup {None}]
    /\ maps \in SUBSET BaseMaps
    /\ inst \in SUBSET Instances
    /\ done \in SUBSET Tasks
    /\ skipped \in SUBSET Instances
    /\ stopping \in BOOLEAN

BusyWorkers == {w \in Workers : pc[w] \in {"call", "loop", "enqueue", "finish"}}

\* MapUpdater::pending_requests counts exactly the requests that are queued,
\* being called, or counted by a schedule_update still waiting to enqueue.
PendingCountsRequests ==
    pending = Len(queue) + Cardinality(BusyWorkers) + (IF mutex = None THEN 0 ELSE 1)

\* m_mutex is held by exactly the thread that is inside schedule_update.
MutexHolder == \A t \in Threads : mutex = t <=> pc[t] = "enqueue"

\* Once MapUpdater::wait has returned, the world thread is alone: no request
\* is queued and no map thread is inside a map, so the delayed updates, the
\* sessions and the shutdown may touch every map without a lock.
Barrier ==
    pc[World] \in {"idle", "delayed", "close", "join", "stopped"} =>
        queue = <<>> /\ BusyWorkers = {}

Queued(x) == {n \in DOMAIN queue : queue[n] = x}
Holders(x) == {w \in Workers : pc[w] = "call" /\ request[w] = x}
Entering(x) == {t \in Threads : arg[t] = x}

\* Every tick updates every map exactly once.  In one tick no map is updated
\* twice, by one thread or by two at a time: a map is in at most one of the
\* places a request goes through.  And when the tick reaches the delayed
\* updates, the LFG manager, every base map and every living instance have been
\* updated, but for the instances that were due for unloading and still had
\* players.
UpdatedOnce ==
    /\ \A x \in Tasks :
          Cardinality(Queued(x)) + Cardinality(Holders(x)) + Cardinality(Entering(x))
            + (IF x \in done THEN 1 ELSE 0) <= 1
    /\ pc[World] = "delayed" => {LFG} \cup maps \cup inst \subseteq done \cup skipped

\* No request refers to a map that was deleted: an instance that is queued,
\* being enqueued or being updated is still in its container.
NoDeletedMap ==
    \A x \in BaseMaps \cup Instances :
        (\/ Queued(x) # {}
         \/ Entering(x) # {}
         \/ \E w \in Workers : request[w] = x) => x \in maps \cup inst

\* The world thread is never stuck: a tick that was begun ends, so that
\* MapUpdater::wait returns, and a shutdown ends with every map thread gone.
WorldReturns ==
    /\ pc[World] = "loop" ~> pc[World] = "idle"
    /\ stopping ~> pc[World] = "stopped" /\ \A w \in Workers : pc[w] = "exit"
=============================================================================
