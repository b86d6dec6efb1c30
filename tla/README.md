# AzerothShard core: a TLA+ verification

AzerothShard is a game server of two programs. `authserver` logs clients on;
`worldserver` runs the world. This project models two sides of `worldserver`:
the part in which threads meet (the world loop, the map threads, the network
threads, the auction listing thread and the database workers), and the
sequential state machines that several players drive at once and whose state is
spread over memory, queued transactions and the database (auctions, mail,
trade, battlegrounds). It consists of TLA+ modules, TLC configurations that
check them on small instances, and proofs that TLAPS checks for every size of
the instance. Paths below are relative to the repository; `game/` stands for
`src/server/game/`.

## 1. The system

### 1.1 Threads and what they share

| thread | started in | works on |
| --- | --- | --- |
| world thread | `Master::Run`, `WorldRunnable::run` | one `World::Update` per tick: sessions, maps, everything else |
| map threads | `MapUpdater::activate` | `Map::Update` of the maps scheduled in this tick |
| network threads | `WorldSocketMgr::StartNetwork` | a reactor each; `handle_input`, `handle_output`, `Update` of its sockets |
| acceptor | thread 0 of the network threads | `WorldSocket::open` of new connections |
| listing thread | `AuctionListingRunnable::run` | searches of the auction house |
| database workers | `DatabaseWorkerPool::Open` | asynchronous operations, one connection each |
| RA, SOAP, console, freeze detector | `Master::Run` | commands for the world thread |

### 1.2 Inventory

| component | state | operations | meets | what makes it correct |
| --- | --- | --- | --- | --- |
| Map update pool (`game/Maps/MapUpdater.cpp`, `MapManager.cpp`, `MapInstanced.cpp`, `common/Threading/DelayExecutor.cpp`) | queue of requests, `pending_requests`, mutex and condition, `i_maps`, instances | `schedule_update`, `wait`, `update_finished`, `activate`, `deactivate`, creation and destruction of maps | world thread and map threads | `wait` is a barrier; every map updated once per tick; no deleted map is updated |
| World sessions (`game/World/World.cpp`, `game/Server/WorldSession.cpp`, `game/Handlers/CharacterHandler.cpp`, `MiscHandler.cpp`) | `m_sessions`, `m_offlineSessions`, `addSessQueue`, `m_QueuedPlayer`, `m_disconnects`, the session's player, flags in two databases | `AddSession_`, `RemoveQueuedPlayer`, `UpdateSessions`, login, takeover, logout, kick, `KickAll` | network threads, database workers | one owner per session, one player per character, queue consistent and work conserving, nobody left at shutdown |
| World socket, life cycle (`game/Server/WorldSocket.cpp`, `WorldSocketMgr.cpp`) | reference count, reactor registration, `closing_`, `m_Session` | `open`, `handle_input`, `HandleAuthSession`, `CloseSocket`, `handle_close`, `Update` | acceptor, network thread, world thread, senders | no use of a released socket or a deleted session; every socket released |
| World socket, output (the same file, ACE message queue) | buffer, queue, `m_OutActive`, reactor mask, cipher | `SendPacket`, `handle_output`, `handle_output_queue`, `schedule_wakeup_output`, `cancel_wakeup_output` | senders and network thread | stream in order and complete, bounded backlog, cipher in step, delivery |
| Auction listing (`WorldThread/WorldRunnable.cpp`, `game/Misc/AsyncAuctionListing.cpp`, handlers) | two lists, permission flag, lock | file, take over, execute, interrupt | world thread and listing thread | no search during the section; each answered once; the world is not starved |
| Database pool (`common/Database/`) | queue, workers, connections, open transactions | `Execute`, `CommitTransaction`, `DirectExecute`, `ExecuteTransaction`, `_HandleMySQLErrno`, `Close` | every thread, MySQL | all or nothing, order, no open transaction left behind, every operation ends |
| Auction house (`game/AuctionHouse/AuctionHouseMgr.cpp`, `AuctionHouseHandler.cpp`) | auctions in memory and in rows, items held for them | sell, bid, buy out, cancel, expire, load | mail, players' purses and inventories, the database queue | no item or money made or lost, also by a crash; an item passes only against its price |
| Mail (`game/Mails/Mail.cpp`, `MailHandler.cpp`, `ObjectMgr.cpp`) | mail boxes of players in the world, rows of mails and their items | send, take, return, delete, expire, load at login, save | auction house, login, the database queue | box and rows agree; cash on delivery is paid; expiry leaves players in the world alone |
| Trade (`game/Handlers/TradeHandler.cpp`, `TradeData` in `Player.cpp`) | two `TradeData` that point at each other | begin, offer, accept, take back, cancel, exchange | logout, closed sockets, anything that changes purse or inventory | what is executed is what was accepted; both halves end together; a crash doubles nothing |
| Battlegrounds and arenas (`game/Battlegrounds/`, `BattleGroundHandler.cpp`) | queue ids of a player, groups in a queue, expiry events, invited counts, status of a battleground | join alone or as a party, match, invite, decline, accept, arrive, leave, log out, end, delete | teleports, logout, groups | the three records of who is queued and invited agree; no team overfull; an ended battleground goes |
| Auth server, RA, SOAP, groups, dungeon finder, guilds, instance saves, movement, spells, AI, scripts, data stores, ... | listed one by one in `PROJECT.json` with the reason each is not modelled | | | |

What is hard to test in these components is listed under `hazards` in
`PROJECT.json`, each with its line and the properties aimed at it.

## 2. Plan

Done:

1. `MapUpdater`: the barrier of the world tick, with proofs.
2. `WorldSessions`: sessions, queue, offline sessions, login and shutdown, with
   proofs.
3. `WorldSocket`, `WorldSocketOutput`: the connection, with proofs.
4. `AuctionListing`: the listing thread, with proofs.
5. `DatabasePool`: what the database promises the others, with proofs.
6. `CharacterStore`, `Mail`, `AuctionHouse`: the economy over the queue of the
   character database, with crashes, and `Exchange`, the abstract specification
   its rows implement; with proofs about the items, the money and the memory,
   and of that implementation.
7. `Trade`: the exchange between two players, with proofs.
8. `BattlegroundQueue`: queues, invitations and the life of a battleground, with
   proofs of its safety invariants.

To come, in this order:

9. An abstract specification of the map update pool (a tick is one atomic
    "update all" step) and of the output path (a FIFO that may lose its tail at
    a close), with the detailed modules shown to implement them.
10. The dungeon finder's role checks and proposals (`LFGMgr`, `LFGQueue`),
    group invitations, instance binding and reset; the protocol states of the
    auth server; the command queue of RA, SOAP and the console.

## 3. The modules

In all of them an action is what a thread does between two points at which
another can interfere: a critical section, a call of the database or the
kernel, or a step the world thread does alone. `PROJECT.json` maps every
definition to its lines. Operators marked "Mutant" are faulty variants of the
definition after them; no specification uses one.

### MapUpdater

`queue` is the message queue of `DelayExecutor`, `pending` is
`pending_requests`, `mutex` is `MapUpdater::m_mutex`, `pc` says where each
thread is, `todo` what a loop over maps or instances has still to visit.
`BeginUpdate`, `ScheduleFromTick`, `EndLoop`, `Wait` and `DelayedUpdate` are
`MapManager::Update`; `EnterSchedule` and `Enqueue` are the two halves of
`schedule_update`, since the enqueue may block with the mutex held; `Dequeue`,
`Call`, `UpdateFinished` are the worker's loop; `ScheduleInstance`,
`DestroyInstance`, `KeepInstance`, `EndInstances` are `MapInstanced::Update` in
a map thread; `Deactivate`, `Join`, `UnloadAll`, `Exit` are the shutdown. The
pool may also be off (`MapUpdate.Threads = 0`), in which case `UpdateInline`
updates a map, and its instances, in place. What an update does inside its map
is one step.

### WorldSessions

Sessions have identities that are used once. `connecting`, `addSessQueue`,
`sessions` and `offline` are the four places that own a session; `queued`,
`inQueue` and `disconnects` are the waiting queue; `player`, `loading`, `ready`
follow a character's login; `kicked`, `leaving`, `away`, `socket` are flags of
the session; `accountOnline` and `charOnline` are the flags in the databases,
written in issue order (one worker, the default). `phase`, `visit` and `cur`
follow the world thread through `UpdateSessions`. Packets other than login and
logout change none of this and are left out.

### WorldSocket

One socket. `refs` are the holders of a reference (acceptor, reactor, manager,
session), `listed` is the manager's list, `routed` is `m_Session` set,
`session` the session object, `held` is `m_SessionLock`; `apc`, `npc`, `wpc`,
`spc` are the acceptor, the network thread, the world thread and the senders.
`CloseSocket` is two steps, since it takes two locks one after the other.

### WorldSocketOutput

The bytes of the stream are numbered as `SendPacket` accepts them; `outBuffer`,
`queue` and `wire` say where they are. `room` is the free room of the kernel,
so that `send` takes all, a part or nothing. `skewed` says that the cipher has
advanced for a header that never left.

### AuctionListing

`temp` and `list` are the two lists, `due` the searches whose delay is over,
`allowed` the permission flag, `lock` the listing lock; `wpc` and `lpc` the two
threads.

### DatabasePool

`op`, `at` and `tries` say which operation a connection executes and at which
of its commands it is; `link` is `m_Mysql`. `trans`, `pend` and `db` are the
server: the open transactions, their statements, and what took effect. The
server is external; it is modelled from how `MySQLConnection` uses it: it
executes a command, refuses it (any command, COMMIT and ROLLBACK included),
aborts it as the victim of a deadlock (and rolls back), or the connection breaks
before or after the execution (and the server rolls back).

`BeginTransaction`, `RollbackTransaction` and `CommitTransaction` return nothing,
so the code does not see those commands fail; the histories `ignored` (which
failed), `left` (connections whose transaction the server refused to end) and
`adopted` (single statements that then ran inside such a transaction) let the
properties say what still holds. An operation is `Framed` if its connection held,
the server executed its START TRANSACTION and ROLLBACK, and it ran inside nobody
else's transaction: it takes effect whole and only if it is reported done, or not
at all (`AllOrNothing`). Done and yet without effect it is only if its COMMIT
failed; one that was refused may take effect later, when the next START
TRANSACTION of the connection commits what is open.

### CharacterStore, Mail, AuctionHouse, Exchange

`CharacterStore` holds the rows and the queue in front of them. With one worker
(the default of the character database, and what `IssueOrder` of `DatabasePool`
is about) transactions are applied whole and in order, so the queue is kept as
`log`, the sequence of the database states it will go through; `Now` is its
head, `Soon` its end. A crash keeps `Now` and loses the rest. Three fields of a
database state are bookkeeping: `parted`, `gone` and `burnt` account for what
leaves the tables.

`Mail` adds the memory of the world thread (`gold`, `inv`, `box`, `deleted` of
the characters in the world), the handlers, and how characters come and go: a
login is queued behind the transactions of the account (`ahead`), its queries
are answered together (`Fetched`), and only then does the character enter the
world. `HandleGetMailList` changes nothing, since the box is always loaded at
login. `AuctionHouse` extends `Mail` with `ah`, the auctions in memory; every
handler is one action with the transactions it commits, in their order:
`SellPart` commits two, and `AuctionExpires` two when nobody is there to
receive the item. Characters are all of different accounts. The constants
`Races` and `DeleteSellers` say whether the operations that read the database
synchronously may run while something is queued, and whether a character may be
deleted while he sells; see section 7 for what happens when they may.

`Exchange` says what the rows promise whatever the crash: it knows owners,
wealth and the terms on which an item is for sale, and has two actions, `Give`
and `Sale`. `AuctionHouse!Exchanged` maps the rows to it (`Wealth`, `Holder`,
`Offers` of `CharacterStore`): money in purses, mails, bids and deposits is its
owner's, an item sent cash on delivery is the sender's until it is paid.

### Trade

`trade` is `Player::m_trade`; items are GUIDs that are looked up again when
needed (`GetItem`). `HandleAcceptTradeOpcode` is one action per way out, in the
order of its checks: `AcceptRefused` (money), `AcceptWaits`, `AcceptSpellFails`,
`AcceptNoSpace`, `AcceptTrade`. `seen` is a ghost that remembers which offers a
player accepted. `Spend`, `ItemLeaves` and `ItemComes` stand for everything else
a player does between two packets of a trade; `rows` is what a crash leaves.

### BattlegroundQueue

`slots` are the queue ids a player holds, `groups` the groups in each queue with
the list (premade or normal) they are in, `events` the expiry events, `invited`
the counts of a battleground, `mine` and `side` the battleground id and team of
a player, `at` where he is. A time is kept as what is left of it. The three ways
a battleground is filled are `FillBattleground`, `CreatePremade` and
`CreateNormal`; `CreateArena` matches two rated teams. `Accept`, `Arrive`,
`ArriveElsewhere`, `LeaveBattleground`, `Logout` and `ProcessLeave` are the ways
in and out, each with its effect on the counts.

`MC*.tla` hold only the functions between model values that a configuration
needs, and the symmetry sets.

## 4. The runs

| run | instance | what it shows |
| --- | --- | --- |
| `map_updater` | 3 threads or none, 1 map, 1 container with 2 instances, LFG | `PendingCountsRequests`, `Barrier`, `UpdatedOnce`, `NoDeletedMap`, and that ticks and shutdown end (`WorldReturns`) |
| `sessions_login` | 1 account, 2 characters, 3 connections one after the other or at once | `OneCharacterPerAccount`, `OneOwner`, `ShutdownComplete`, and with fairness `ConnectionLossHandled`, `OfflineEnds` |
| `sessions_queue` | 3 accounts, one of staff, limit 1 or 2 changed at any time, rejections | `QueueConsistent`, `NoPlaceWasted` |
| `socket` | 2 senders | `SessionAliveInUse`, `SocketAliveInUse`, `SocketReleased` |
| `socket_output` | 2 senders, packets of 1 to 3 bytes, buffer 3, queue 3, kernel 2, 9 bytes in all | `InOrder`, `BacklogBounded`, `Delivered` |
| `auction_listing` | 2 players, 3 searches | `NoListingInSection`, `EachSearchOnce`, `WorldNotStarved`, `SearchesAnswered` |
| `database_pool` | 1 worker, 1 synchronous connection, 1 statement, 2 transactions of 2, two commands refused or aborted, one lost connection | `AllOrNothing`, `IssueOrder`, `NoOpenTransaction`, `ConnectionAliveInUse`, `OperationsEnd` |
| `auction_house` | 3 characters, 1 item, 4 coins, 3 mails, 2 queued transactions; 2 characters may be deleted | `ItemsOnce`, `MoneyConserved`, `MemoryStored`, and the refinement `IsExchange` |
| `trade` | 3 players, 2 items, 1 spell, 1 slot that is traded and 1 that is not | `Paired`, `AcceptedStands`, `NothingDoubled`, `TradedAsAgreed` |
| `battleground` | 5 players: a party of two on each side and one alone, 2 against 2 | `QueueMatches`, `InvitedExactly`, `TeamFits`, `FullInviteTime` |
| `arena` | 4 players of one faction, two rated teams, a battleground queue beside | `EndedDeleted` |
| `mail_expiry` | as `auction_house`, with `Races` | the code does not do what a comment says, see section 7 |

Every property of a passing run has a mutant of the code that breaks it, listed
in `PROJECT.json`.

Why the bounds are enough. The map pool needs a plain map, a container and two
instances to have a nested request overtake a sibling and a destroyed instance
next to a queued one; two workers suffice for any pair of map threads to
interleave, the third lets one thread schedule while two others finish. For the
sessions, the third connection lets an account reconnect, be replaced and
reconnect again while an offline session exists; three accounts give a queue
with a head and a tail next to an active session. The output path needs packets
larger than the room in the buffer, in the kernel and in the queue, in every
combination; nine bytes let buffer, queue and kernel be full at once. The
database needs two transactions and a statement, so that one can find what
another left open, one lost connection, and two errors, so that a COMMIT can be
refused and the START TRANSACTION that would commit it late fail too; the number
of statements is a parameter that the theorems leave open. A search needs a second player's search to be passed over
and a third to arrive while one is interrupted. The economy needs a seller, a
bidder and one who outbids him or buys out, money for one of them to do both,
and two queued transactions so that one committed in two parts can be cut in
the middle; three mails are what a buyout sends. A trade needs a third player,
so that one half can be left over for another trade, an inventory that can be
full (`Space` = 1) and a purse that is too full at the start (`MaxMoney` = 2,
all of it with one player). The battleground needs a party and a single player on one side, so that a party and
a replacement compete for the same places while one declines (`Leavers` bounds
who leaves by himself and who queues again for what he waits for; everybody's
invitation may expire), and one unit of time
per invitation, so that an old event meets a new invitation of the same player.

The executor's queue has room for every request of a tick (`Capacity`): the code
gives it tens of thousands of places. With less room than requests a thread that
enqueues with `m_mutex` held waits for workers that wait for that mutex.

Symmetry is used in `sessions_queue` (over sessions and the accounts that are
not staff) and `battleground` (the members of one party), which check safety
only. Deadlock is checked except
in `auction_house`, `mail_expiry`, `battleground` and `arena`, where the bounds
on mails, queued transactions and who may leave end a behaviour that the
program would continue; elsewhere the terminated states stutter explicitly.

## 5. Fairness

Fairness is assumed only of what the scheduler and the clock guarantee:

- `MapUpdater`: the world thread within a tick or shutdown, and every map
  thread, keep going. Nothing forces a tick to start.
- `WorldSessions`: the world loop keeps going; a `WorldSession::Update` handles
  at most 150 packets; sixty seconds pass (strong fairness of the removal of an
  expired offline session); the loop that drains `addSessQueue` ends when it
  finds it empty (strong fairness of `EndAdd`). `ConnectionLossHandled` says
  outright that it needs arrivals not to be endless (`ArrivalsBounded`), since
  no code bounds that loop.
- `WorldSocket`: all threads keep going, an input event ends, and a closed
  connection gives the reactor an event (strong fairness of `EndInput`); the
  world thread visits a session in each tick (strong fairness of `Detach`,
  which is enabled only in that phase).
- `WorldSocketOutput`: the network thread calls the reactor and `Update`, and
  the client reads. `Delivered` says nothing of a client that does not.
- `AuctionListing`: both threads keep going and delays run out. Nothing is
  assumed of interruptions: the code starts an interrupted search again from the
  beginning and does not bound how often, so `SearchesAnswered` says outright
  that it needs them to end (`InterruptionsEnd`); without that TLC finds it
  violated.
- `DatabasePool`: workers, callers and `Close` keep going, and reconnecting
  succeeds or gives up (`Open` makes 180 attempts). Nothing forces an operation
  to be issued or the pool to close.

- `BattlegroundQueue`: `BattlegroundMgr::Update` runs in every tick: time passes,
  events that are due are executed, an empty battleground is deleted, one that
  has ended sends its players home; and a client that is being teleported
  arrives or is disconnected (`Arrival`). Nobody is forced to answer an
  invitation.

`AuctionHouse` and `Trade` state no fairness: nothing in them must happen.

## 6. The proofs

TLAPS proves, for every value of the constants that satisfies the named
assumptions of the modules (the sets of threads, maps, connections and
operations are disjoint, finite where they are counted, and sizes are
positive):

| module | theorem | statement |
| --- | --- | --- |
| `WorldTickProofs` | `TypeCorrect` | `Spec => []TypeOK` |
| | `PendingCorrect` | `Spec => []PendingCountsRequests` |
| | `BarrierCorrect` | `Spec => []Barrier` |
| | `UpdatedOnceCorrect` | `Spec => []UpdatedOnce` |
| | `NoDeletedMapCorrect` | `Spec => []NoDeletedMap` |
| | `SectionCorrect` | `ListingSpec => []NoListingInSection` |
| | `SearchesCorrect` | `ListingSpec => []EachSearchOnce` |
| | `ListerYields` | the action part of `WorldNotStarved` |
| `WorldSessionsProofs` | `CharacterCorrect` | `Spec => []OneCharacterPerAccount` |
| | `OwnerCorrect` | `Spec => [](~MayReject => OneOwner)` |
| | `QueueCorrect` | `Spec => []QueueConsistent` |
| | `ShutdownCorrect` | `Spec => []ShutdownComplete` |
| | `WorkConserving` | `Spec => NoPlaceWasted` |
| `WorldSocketProofs` | `TypeCorrect` | `Spec => []TypeOK` |
| | `SessionCorrect` | `Spec => []SessionAliveInUse` |
| | `SocketCorrect` | `Spec => []SocketAliveInUse` |
| | `InOrderCorrect` | `OutputSpec => []InOrder` |
| | `BacklogCorrect` | `OutputSpec => []BacklogBounded` |
| `DatabasePoolProofs` | `TypeCorrect` | `Spec => []TypeOK` |
| | `TransactionsEnd` | `Spec => []NoOpenTransaction` |
| | `CloseCorrect` | `Spec => []ConnectionAliveInUse` |
| | `AllOrNothingCorrect` | `Spec => []AllOrNothing` |
| | `IssueOrderCorrect` | `Spec => []IssueOrder` |
| `TradeProofs` | `PairedCorrect` | `Spec => []Paired` |
| | `AcceptedCorrect` | `Spec => []AcceptedStands` |
| | `TypeCorrect` | `Spec => []TypeOK` |
| | `NothingDoubledCorrect` | `Spec => []NothingDoubled` |
| | `TradedCorrect` | `Spec => TradedAsAgreed` |
| `AuctionHouseProofs` | `TypeCorrect` | `Calm => (Spec => []TypeOK)` |
| | `ItemsCorrect` | `Calm => (Spec => []ItemsOnce)` |
| | `MoneyCorrect` | `Calm => (Spec => []MoneyConserved)` |
| | `MemoryCorrect` | `Calm => (Spec => []MemoryStored)` |
| `ExchangeProofs` | `ExchangeCorrect` | `Calm => (Spec => IsExchange)` |
| `BattlegroundQueueProofs` | `TypesHold` | `Spec => []TypeOK` |
| | `QueuesMatchIds` | `Spec => []QueueMatches` |
| | `InvitationsStand` | `Spec => FullInviteTime` |
| | `CountsExact` | `~MayRefuse => (Spec => []InvitedExactly)` |
| | `TeamsFit` | `Spec => []TeamFits` |

Each is proved from an inductive invariant, `IInv`, which TLC checked on the
instances of the runs before it was proved. `WorldTickProofs` is about
`MapUpdater` and `AuctionListing`, the two kinds of threads that work beside the
world thread in a tick, and `WorldSocketProofs` about `WorldSocket` and
`WorldSocketOutput`; their second modules name what they define accordingly
(`ListingSpec`, `OutputSpec`). `ExchangeProofs` builds on `AuctionHouseProofs`.

*MapUpdater.* `Barrier` is not inductive: that the world thread may pass `wait`
only when nothing runs rests on `pending` being exact, and that rests on the
mutex being held by exactly the thread inside `schedule_update`. The invariant
`IInv` therefore joins `TypeOK`, `MutexHolder`, `PendingCountsRequests`,
`Barrier`, `HandlesRequest` (a busy thread has a request) and `InactivePool`
(without threads there are no requests). The counting needs the cardinality
lemmas of FiniteSetTheorems: a worker that enters or leaves `BusyWorkers`
changes its size by one. `UpdatedOnce` and `NoDeletedMap` rest on a second
invariant, `StageInv`, which says of every map, and of every instance of a
container, at which stage of the tick it is (to be scheduled, queued, in the
hands of one thread, updated) and that it is at no other; an instance is
destroyed before it is scheduled or not at all.

*WorldSessions.* `IInv` says where each session is (`Places`, `Kept`), what it
may have there (`Fields`: a player only when listed or offline, a login query
only when listed), that the world thread's cursor points at listed sessions
(`Cursor`), what two sessions of one account may have at once (`Pairs`: the
offline one that has lost its player, or whose account has logged on to another
character and kicked it, is still ahead of the loop over the offline sessions),
that every flag in the databases has a session (`Online`), the queue (`Line`)
and how far the last `UpdateSessions` has come (`Ending`). `Pairs` is what makes
`OneCharacterPerAccount` inductive: the exception it grants ends because the
kicked session is ahead of the loop. The seven ways to move, replace and delete
the sessions of an account (`AddSession_` with its four outcomes, a lost
connection, the two removals) are instances of one action, `Move`, and share
the lemma `MoveInv`. `OneOwner` is proved where `MayReject` is FALSE; with a
rejection it is false, because `HandleAuthSession` leaks the session it built.
`NoPlaceWasted` follows from `IInv` by counting: of the steps that change who is
listed and who waits, each leaves the queue empty, or the realm full, or no more
idle places than before. `RemoveQueuedPlayer` counts before its callers erase the
session from the list, which is right only because a session that is not queued
is taken off by hand (`ActiveWithout`).

*WorldSocket.* `CloseSocket` sets `closing_` under one lock and clears
`m_Session` under another. Between the two the world thread may find the socket
closed and delete the session, while the network thread still sees `m_Session`.
`SessionAliveInUse` holds nevertheless: whoever set `closing_` also clears
`m_Session` before the world thread looks at its sessions again, or is the
network thread itself, which then uses the session no more. `IInv` states who
may be between the two steps (`ClosedForgets`, `GivenUpIsClosed`,
`GivenUpIsForgotten`), that the lock is held exactly in the use (`LockHeld`),
that senders close sockets only while the world thread waits for them
(`SendersInMaps`, which is the barrier of the map update pool), and what a used
session rests on (`UsedIsRouted`, `ClosedUnused`, `NotYetRegistered`). For
`SocketAliveInUse` it also says which reference each user of the socket holds at
each of its steps.

*WorldSocketOutput.* `InOrder` becomes inductive when it is also said of the
chunk a thread holds between taking it off the queue and putting its rest back,
and when the total `Bytes` of a queue is known to follow its ends. `Bytes` is a
recursive function; that it exists and what it does under Append, Tail and a
new head is proved by taking the smallest length at which the claim fails (the
library's well-founded minimum), since its induction theorems cannot be applied
here. `BacklogBounded` needs that a message is put back only where it was taken.

*AuctionListing.* `ListingInv` says which thread holds the lock in which of its
steps, that the search in progress is a listed one, and that the two lists hold
every filed and unanswered search once; the lemmas are about erasing from a list
and joining two.

*DatabasePool.* `NoOpenTransaction` needs to know where a transaction can be
open: on a connection that is up, in an operation that is a transaction and is
past its START TRANSACTION, or where the server refused to end it
(`OpenTransactions`), while a single statement has one command
(`SingleCommand`) and a broken connection is in use (`LostInUse`).
`ConnectionAliveInUse` needs who may use a connection at which stage of `Close`
(`Users`, `Deleted`, `ClosedPool`). All commands share one lemma, `CallStep`.
`AllOrNothing` needs `EffectInv`, which accounts for every pending statement
(`Pending`): it belongs to the transaction under way, whose pending statements
are its first ones, in order and alone, if it is framed (`Progress`), or to one
whose COMMIT was refused, as a whole and before everything else
(`WholeAtFront`), or to an operation that lost its frame; and no framed
operation is pending on two connections (`PendApart`). A command then adds to
the database a whole operation that was not in it, or nothing of a framed one
(`Accounted`), and every action comes down to one lemma, `CallEffect`.
`IssueOrder` needs that a worker begins an operation when those issued before it
have ended (`OneAtATime`), and, because a refused COMMIT can take effect late,
that what is pending of an operation comes before what the later ones added
(`PendInOrder`).

*Trade.* `IInv` (`Counted`, `Good`) says of the two halves of a trade what they
point at, that the players are in the world, and that an acceptance, and what
its owner saw (`seen`), agree with the offers on both sides, and that no item is
in two slots of an offer (`Singly`, which the check in
`HandleSetTradeItemOpcode` keeps true). A second invariant, `Owned`, says that
what a player has in the world or in the database (`Held`) nobody else has, and
that nobody in the world has more money than his row: so a row that is written
adds nothing, and the exchange, which writes both, neither. The central lemma is
`MovesAll`: `moveItems` takes the slots one by one and would give an item back
that does not fit, but after `CanStoreItems` of both sides it never does, since
what a player holds on the way is always a proper part of what he holds at the
end; this needs `Singly` and that the two inventories are disjoint. `MoveItems`
is a fold over the slots and `Total` one over the players; that such a fold
exists (`FoldExists`) and what it computes is proved by taking a smallest
counterexample. The proofs need the sets of players and of items to be finite.

*AuctionHouse*, with *Mail* and *CharacterStore*. The theorems are about an
auction house that is `Calm`: `Races` and `DeleteSellers` are FALSE, as in the
run `auction_house`. Without that they are false: the pass over expired mails
reads rows that queued transactions are about to change (section 7), and the
deletion of a seller deletes the items of his auctions and leaves the auctions
in memory. `ItemsOnce` and `MoneyConserved` are statements about every state in
the queue and `MemoryStored` one about the last of them; none is inductive alone, because a
handler decides by what it has in memory and changes the rows by what the last
state says. `IInv` joins them: every state in the queue is `Sound` (each item in
one place, mails with ids of their own and something in them, the money of the
start in all purses, mails, auctions and fees together); a character in
the world has in memory what the last state has (`Mirror`), with the marks of
deleted mails among the mails in his box; one that is loading has fetched it, or
has no transaction of his own behind his queries (`Settled`, which is why
`HandlePlayerLoginOpcode` may be answered before the queue is empty); and an
auction in memory is in the last state, its item not destroyed (`Listed`). Each
handler is shown to commit states in which the items it moves are again in one
place, and to change the memory of nobody but in step with his rows; the mails
of the house, up to three in one step, are gathered by `Mailing` and its two
uses, `Bearing` (only money so far) and `Given` (the item is in the last one, or
destroyed), which also say what the mails and the fees have come to so far
(`Owed`). The model counts money per character (`TotalMoney`); the proofs count
it per kind of row (`Worth`), and `WorthIs` shows the two sums equal wherever
nobody bids in an auction of his own (`Fair`, which the check of the owner in
`HandleAuctionPlaceBid` keeps true): this exchanges the order of two sums over
the characters and the auctions. The lemmas on sums rest on `Total` being a
recursive function over the subsets of a finite set; that it exists, and does
not depend on the order of the summands, is proved by taking a smallest
counterexample, as for `Bytes`. The proof found no assumption to be missing but these: the sets are
finite, `None` is not an auction, and every item is somebody's at the start.

`ExchangeCorrect`, that the rows implement `Exchange` across crashes, cannot be
proved handler by handler: a handler runs long before its transactions are
applied, and what it read is gone by then. It rests on a second invariant,
`Trading`, which says of the queue itself that each state in it follows from
the one before by a step of `Exchange` (`Edges`). A handler then has to show so
of the transactions it puts at the end; the worker applies the next one, and a
crash drops the rest, and neither has anything left to show. `Passes`, a step
between two states, is `Gives` or `Sells`; `PassesStep` shows that these are
`Give` and `Sale` under the mapping, which is again an exchange of sums
(`WealthTotal`). `Trading` also keeps the terms of the sales that are under way
(`Terms`: who is paid on delivery is a character, the mail was not returned and
is not to himself, and a bid is of some money), that no mail that is still to be
paid for is marked as deleted (`Marked`, the check at `MailHandler.cpp:344`;
otherwise the save of a player could destroy what is not his), and that the server
knows which characters are deleted (`Known`, the character cache that a mail of
the house is addressed by; `Give` and `Sale` excuse only losses of characters
that were deleted earlier). Most handlers commit a `Give` of the one who acts.
`Sale` is needed in three: a mail that is paid on delivery (`TakeItem`), a buyout
and an auction that expires with a bid, where the price, the deposit, the
refund of an outbid bidder and the item are spread over up to three mails, and
must come out as one step in which the buyer is poorer by at least what he
agreed to, the seller richer by no more than that, and nobody else is touched.
The handlers that commit two transactions have to show it of both.

*BattlegroundQueue.* The invariant has three layers. `QueueInv` (`TypeOK`,
`QueueMatches`, and that who travels to a battleground or is inside has its id,
`AwayHasId`) is inductive by itself, and `FullInviteTime` follows from it: an
event that is due removes only the player it names (`ExecuteKeepsOthers`), whose
group has no time left either; a player is in one group of a queue (`InOne`), and
who has left an invited group was named himself (`InvitedLeavesAlone`); and no
other step takes away an event that is due (`DueStays`). `CountInv` adds what the counts say. Without refused teleports the
count of a team is the number of players `Expected` there, invited and not yet
counted off; that needs `IdMeansAway`, that nobody in the world keeps a
battleground id, because the code that counts a player off is guarded by his id.
A refused teleport leaves such an id, and a place that is counted and not taken
(section 7), so `CountsExact` has the hypothesis `~MayRefuse`, under which the
run checks it. With refusals `Enough` remains: a count leaves nobody out.
`IInv` adds that no count exceeds the places of a team (`Fits`), for rated teams
because a team is never larger than its arena (`TeamsFitArena`); together with
`Enough` this is `TeamFits`, whether or not teleports are refused. The three
ways to fill a battleground are folds over a queue, and a selection pool is one
group or several: that a pool never holds more players than it was given room
for (`PoolFits`) is proved for every length of the queue by a smallest
counterexample, as for the folds of `Trade`. The number of players on one side
is a sum over the queues, counted as the set of pairs of a player and a queue. The
assumptions are those of the module (`BgAssumption`): players and queues are
finite, a party is of one team, and `None` is not a queue or a battleground.

Only model-checked: all liveness (TLAPS does not reason about fairness or
ENABLED here). Of the safety properties of the passing runs each is stated by a
theorem, under the hypotheses in the table.

## 7. Where code and comments disagree

Kept as a run that TLC must find violated (`findings` in `PROJECT.json`):

- `mail_expiry`: the pass over expired mails spares "mails of a logged in
  player" (`ObjectMgr.cpp:5544`), whom it finds by his Player object. A
  character whose login queries have been executed and who has no Player object
  yet is not found; the mail is returned or deleted behind those queries, and
  the character enters the world with it in his box. In `auction_house` the pass
  runs only with an empty queue and no login under way (`Races` = FALSE).

Seen in the same models and not kept as runs; the actions that show them are in
the modules:

- `CMSG_KEEP_ALIVE` uses `m_Session` without the lock that is there to protect
  it (`WorldSocket.cpp:687`, `WorldSocket.h:165`) and can touch a deleted
  session (`KeepAlive`, `ResetTimeOutTime` of `WorldSocket`).
- The last `UpdateSessions` of the shutdown (`WorldRunnable.cpp:72`) runs
  without the listing lock that `World.cpp:2118` takes, and can delete a player
  under a search (`LastUpdateSessions` of `AuctionListing`).
- A connection lost in the middle of a transaction (`MySQLConnection.cpp:253`)
  leaves its second half in the database: the rest is executed statement by
  statement in autocommit mode, and `ExecuteTransaction` returns true.
- The results of START TRANSACTION, ROLLBACK and COMMIT are ignored
  (`MySQLConnection.cpp:396-409, 457-458`): a transaction whose COMMIT the server
  refuses or aborts is reported as done and has no effect, and after a refusal
  the connection goes into its next operation with it open: a single statement
  runs inside it, and the next START TRANSACTION commits it late (`ignored`,
  `left`, `adopted` of `DatabasePool`).
- The retry after errno 1213 (`Transaction.cpp:69`) is never made, because
  ROLLBACK has reset the error code before it is looked at.
- Deleting a character deletes the items he has in auctions, by their owner
  (`Player.cpp:4981`), and leaves the auctions: until the next restart a bidder
  can win an item whose rows are gone (`DeleteSellers`).
- A mail sent while its receiver is loading reaches the rows only
  (`Mail.cpp:239`) and is not shown until the next login.
- The part of a stack that is put up for auction is taken off the stack in a
  transaction of its own (`AuctionHouseHandler.cpp:309-375`); a crash before the
  next one loses it. `ItemsOnce` names this window (`parted`).
- `HandleBattleFieldPortOpcode` counts the player as invited and sets his
  battleground id before `TeleportTo`, which may refuse; both stay until he next
  changes maps or logs out, and after a logout the count stays (`MayRefuse`).
- `BattlegroundMgr::Update` counts scheduled arena updates with a `uint8`
  (`BattlegroundMgr.cpp:100`): 256 of them in one tick would not end.
- An account that reconnects and picks another character has two characters in
  the world until the end of that `UpdateSessions` (`CharacterHandler.cpp:797`
  against the comment at `WorldSession.cpp:608`); `OneCharacterPerAccount`
  bounds how long.
- The account's online flag can be 0 while a session of the account is listed:
  the new session's constructor writes 1 before the replaced one's destructor
  writes 0 (`World.cpp:255, 284`).
- A socket that closes between `HandleSocketClosed` and the tail of
  `WorldSession::Update` takes its character out of the world at once, although
  `CharacterHandler.cpp:800` says players stay in the game.
- `AddSession_` counts staff against the player limit, which
  `worldserver.conf.dist:180` excludes.
- A session still in `addSessQueue` when `KickAll` runs is not kicked.
- `HandleAuthSession` leaks the session it built when the realm or the state of
  the world turns the connection away (`WorldSocket.cpp:976`).
- `handle_output_queue` ignores a failure of `enqueue_head` after EWOULDBLOCK
  (`WorldSocket.cpp:393`): an accepted packet is lost and the connection stays
  open. `InOrder` and `Delivered` make this exception explicit (`lost`).
- `DatabaseWorkerPool::Close` drops what is still queued; a worker whose
  reconnection failed for good lets every later operation fail; a COMMIT
  repeated on a new connection reports success for nothing.

## 8. Not modelled

The game rules (entities, spells, AI, scripts, loot, quests, custom modules),
geometry and path finding, cryptography, packet formats, configuration, data
stores and tools: they are sequential code over large data or floating point
numbers, and what they do is one step of the components above. Torn reads of
containers and variables that two threads touch without a lock
(`MapManager::Update` over `i_maps`, `EscapeString`, `m_timeOutTime`) are
outside the models, which read such a variable at one instant.

Of the modelled components: random battlegrounds, unrated arenas, the
invitation types 1 and 2, spectators, ratings and what happens inside a
battleground; the deliver delay and the limit of 100 mails, mails without
contents, from creatures, quests and the calendar; the checks of distance, level
and faction that only refuse. The rest of `worldserver` that has a life of its
own (groups, dungeon finder, instance saves, guilds, auth server, remote
access) is in the plan or listed in `PROJECT.json` with the reason it is not.
