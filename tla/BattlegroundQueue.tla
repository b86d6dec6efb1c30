------------------------- MODULE BattlegroundQueue --------------------------
(***************************************************************************)
(* The queues of battlegrounds and rated arenas: BattlegroundQueue.cpp,    *)
(* the parts of BattlegroundMgr.cpp, Battleground.cpp and Player.cpp that  *)
(* count who is invited, and the handlers of BattleGroundHandler.cpp.      *)
(*                                                                         *)
(* Three records of the same fact are kept apart in the code: the queue    *)
(* ids a player holds, the groups that wait in a queue, and the number of  *)
(* players a battleground counts as invited.  The count decides how many   *)
(* more are invited and when an empty battleground is deleted, so a player *)
(* must leave it exactly once, whether he declines, lets the invitation    *)
(* expire, queues again, enters and leaves, logs out or is cut off halfway.*)
(*                                                                         *)
(* Everything here runs on the world thread, one handler or one iteration  *)
(* of a loop of BattlegroundMgr::Update at a time.  Levels, ratings and    *)
(* waiting times only decide which groups are matched and are a choice;    *)
(* Battleground.InvitationType is 0, its default.                          *)
(***************************************************************************)
EXTENDS Integers, FiniteSets, SequencesExt

CONSTANTS
    Players, TeamOf,
    Parties,                \* the groups players are in, one arena team each
    BgQueues, Arenas,       \* the queue types: battlegrounds, rated arenas
    Joins,                  \* bound: who asks for which queue, <<players, queue>>
    Leavers,                \* bound: who declines, queues again, leaves, strays or logs out
    Bgs,                    \* instance ids
    MinPlayers, MaxPlayers, \* per team, of a battleground
    ArenaSize,
    InviteTime,             \* INVITE_ACCEPT_WAIT_TIME
    MayRefuse,              \* whether Player::TeleportTo may refuse
    None

ASSUME BgAssumption ==
    /\ TeamOf \in [Players -> {"alliance", "horde"}]
    /\ \A P \in Parties : P \subseteq Players /\ \A p, o \in P : TeamOf[p] = TeamOf[o]
    /\ MinPlayers \in Nat /\ MaxPlayers \in Nat /\ InviteTime \in Nat /\ ArenaSize \in Nat
    /\ MayRefuse \in BOOLEAN /\ Leavers \subseteq Players
    /\ IsFiniteSet(Players) /\ IsFiniteSet(BgQueues \cup Arenas)
    /\ BgQueues \cap Arenas = {} /\ None \notin Bgs \cup BgQueues \cup Arenas

Teams == {"alliance", "horde"}
Queues == BgQueues \cup Arenas
Other(team) == CHOOSE t \in Teams : t # team

VARIABLES
    at,         \* "off", "world", "port" (on the way to a battleground) or "bg"
    slots,      \* Player::m_bgBattlegroundQueueID
    mine, side, \* Player::m_bgData: bgInstanceID, bgTeamId
    groups,     \* m_QueuedGroups: of each queue, the groups in order
    events,     \* the BGQueueRemoveEvents
    status,     \* Battleground::m_Status, "none" before and after its life
    kind,       \* the queue type a battleground belongs to
    invited     \* Battleground::m_BgInvitedPlayers

vars == <<at, slots, mine, side, groups, events, status, kind, invited>>

\* GroupQueueInfo.  list says which of the lists of its team it is in, side is
\* teamId (RealTeamID is its players' team), left is the time until
\* RemoveInviteTime.
Group == [players : (SUBSET Players) \ {{}}, list : {"premade", "normal"}, side : Teams,
          bg : Bgs \cup {None}, left : 0 .. InviteTime]

NewGroup(P, list, team) ==
    [players |-> P, list |-> list, side |-> team, bg |-> None, left |-> 0]

Queued(q) == UNION {g.players : g \in ToSet(groups[q])}     \* m_QueuedPlayers
Inside(b) == {p \in Players : at[p] = "bg" /\ mine[p] = b}  \* Battleground::m_Players
Holds(g, p, b) == p \in g.players /\ g.bg = b

Init ==
    /\ at = [p \in Players |-> "world"]
    /\ slots = [p \in Players |-> {}]
    /\ mine = [p \in Players |-> None] /\ side = TeamOf
    /\ groups = [q \in Queues |-> <<>>]
    /\ events = {}
    /\ status = [b \in Bgs |-> "none"]
    /\ kind = [b \in Bgs |-> None]
    /\ invited = [b \in Bgs |-> [t \in Teams |-> 0]]

-----------------------------------------------------------------------------
(* Leaving a queue.  R is a set of <<player, queue>>.                       *)

\* The rest of a rated team that waits leaves with its first member.
WithTeam(R) ==
    R \cup {r \in Players \X Arenas :
              \E g \in ToSet(groups[r[2]]) :
                r[1] \in g.players /\ g.bg = None /\ \E o \in g.players : <<o, r[2]>> \in R}

SlotsWithout(R) == [p \in Players |-> slots[p] \ {q \in Queues : <<p, q>> \in R}]

\* What is left of a group of the queue q; without players it is deleted.
Rest(g, q, R) == [g EXCEPT !.players = {p \in @ : <<p, q>> \notin R}]
KeepRest(kept, g, q, R) == IF Rest(g, q, R).players = {} THEN kept ELSE Append(kept, Rest(g, q, R))
AllRest(gs, q, R) == FoldLeft(LAMBDA kept, g : KeepRest(kept, g, q, R), <<>>, gs)

GroupsWithout(R) == [q \in Queues |-> AllRest(groups[q], q, R)]

\* The player r[1] is invited from the queue r[2] to the team t of b.
Awaited(r, b, t) == \E g \in ToSet(groups[r[2]]) : Holds(g, r[1], b) /\ g.side = t

\* Battleground::DecreaseInvitedCount, n times.
Decreased(count, n) == IF n < count THEN count - n ELSE 0

InvitedWithout(R) ==
    [b \in Bgs |-> [t \in Teams |->
        Decreased(invited[b][t], Cardinality({r \in R : Awaited(r, b, t)}))]]

\* BattlegroundQueue::RemovePlayer, and Player::RemoveBattlegroundQueueId.
RemovePlayers(R) ==
    /\ slots' = SlotsWithout(WithTeam(R))
    /\ groups' = GroupsWithout(WithTeam(R))
    /\ invited' = InvitedWithout(WithTeam(R))

\* BattlegroundQueue::IsPlayerInvitedToRatedArena.
InvitedToRated(p, q) ==
    q \in Arenas /\ \E g \in ToSet(groups[q]) : p \in g.players /\ g.bg # None

-----------------------------------------------------------------------------
(* Entering a queue.                                                        *)

\* The players leave what R names and, if they may, queue as one group.
Requeue(R, P, q, list, may) ==
    LET out == WithTeam(R)
    IN  /\ invited' = InvitedWithout(out)
        /\ IF may
           THEN /\ groups' = [GroupsWithout(out) EXCEPT
                                ![q] = Append(@, NewGroup(P, list, TeamOf[CHOOSE p \in P : TRUE]))]
                /\ slots' = [p \in Players |->
                                SlotsWithout(out)[p] \cup (IF p \in P THEN {q} ELSE {})]
           ELSE groups' = GroupsWithout(out) /\ slots' = SlotsWithout(out)
        /\ UNCHANGED <<at, mine, side, events, status, kind>>

HasFreeSlot(p, q) == Cardinality(slots[p] \ {q}) < 2    \* PLAYER_MAX_BATTLEGROUND_QUEUES

\* WorldSession::HandleBattlemasterJoinOpcode, alone.  ok: no deserter, not in
\* the dungeon finder.
Join(p, q, ok) ==
    /\ at[p] = "world" /\ q \in BgQueues
    /\ HasFreeSlot(p, q)
    /\ Requeue({p} \X (slots[p] \cap {q}), {p}, q, "normal",
               ok /\ mine[p] = None /\ slots[p] \cap Arenas = {})

\* Mutant: only the leader leaves his queues.
GivenUpByLeader(P, l, q) == {<<l, k>> : k \in slots[l] \cap {q}}

\* What a party of the leader l gives up to queue for q.
GivenUp(P, l, q) == {r \in P \X Queues : r[2] \in slots[r[1]] \ (slots[l] \ {q})}

\* The same handler, as the leader of a party.
JoinGroup(P, l, q, ok) ==
    LET here == {p \in P : at[p] # "off"}
        R == GivenUp(here, l, q)
    IN  /\ at[l] = "world" /\ q \in BgQueues
        /\ HasFreeSlot(l, q)
        /\ ~ \E r \in R : InvitedToRated(r[1], r[2])
        /\ Requeue(R, P, q, IF Cardinality(P) >= MinPlayers THEN "premade" ELSE "normal",
                   /\ ok /\ here = P /\ \A p \in P : mine[p] = None
                   /\ slots[l] \cap Arenas = {})

\* WorldSession::HandleBattlemasterJoinArena, rated.
JoinArena(P, l, q, ok) ==
    LET here == {p \in P : at[p] # "off"}
        R == GivenUp(here, l, q)
        again == {<<l, k>> : k \in slots[l] \cap {q}}
    IN  /\ at[l] = "world" /\ q \in Arenas
        /\ ~InvitedToRated(l, q)
        /\ IF slots[l] \ {q} # {} THEN Requeue(again, P, q, "premade", FALSE)
           ELSE /\ ~ \E r \in R : InvitedToRated(r[1], r[2])
                /\ Requeue(R, P, q, "premade",
                           /\ ok /\ here = P /\ \A p \in P : mine[p] = None
                           /\ Cardinality(P) = ArenaSize)

\* Both handlers stop at a member who is invited to a rated match: the ones
\* before him have already left their queues.
JoinStopped(P, l, q, before) ==
    LET here == {p \in P : at[p] # "off"}
    IN  /\ at[l] = "world" /\ before \subseteq here
        /\ IF q \in Arenas THEN slots[l] \subseteq {q} /\ ~InvitedToRated(l, q)
                           ELSE HasFreeSlot(l, q)
        /\ \E r \in GivenUp(here \ before, l, q) : InvitedToRated(r[1], r[2])
        /\ \A r \in GivenUp(before, l, q) : ~InvitedToRated(r[1], r[2])
        /\ Requeue(GivenUp(before, l, q) \cup {<<l, k>> : k \in slots[l] \cap {q}},
                   P, q, "normal", FALSE)

-----------------------------------------------------------------------------
(* Matching.                                                                *)

\* Mutant: the places are counted by those who have entered.
FreeSlotsInside(st, inv, in, t) ==
    IF st \in {"join", "progress"} /\ in[t] < MaxPlayers THEN MaxPlayers - in[t] ELSE 0

\* Battleground::GetFreeSlotsForTeam, of a battleground in state st with inv
\* invited and in entered.
FreeSlots(st, inv, in, t) ==
    LET o == Other(t)
        diff == IF inv[o] = inv[t] THEN 1 ELSE IF inv[t] < inv[o] THEN inv[o] - inv[t] ELSE 0
        diff2 == IF inv[t] < MaxPlayers THEN MaxPlayers - inv[t] ELSE 0
        diff3 == IF in[o] = in[t] THEN 1
                 ELSE IF in[o] > in[t] THEN in[o] - in[t]
                 ELSE IF inv[t] <= MinPlayers THEN MinPlayers - inv[t] + 1 ELSE 0
    IN  CASE st = "join" -> diff2
          [] st = "progress" -> Min({diff, diff2, diff3})
          [] OTHER -> 0

Entered(b) == [t \in Teams |-> Cardinality({p \in Inside(b) : side[p] = t})]

\* SelectionPool::AddGroup.
AddGroup(pool, g, desired) ==
    IF g.bg = None /\ Cardinality(UNION pool) + Cardinality(g.players) <= desired
    THEN pool \cup {g.players} ELSE pool

\* The normal list of a team, of which one group after the other is added.
InNormal(g, t) == g.list = "normal" /\ g.side = t
AddNormal(pool, g, t, desired) == IF InNormal(g, t) THEN AddGroup(pool, g, desired) ELSE pool
Pool(gs, t, desired) == FoldLeft(LAMBDA pool, g : AddNormal(pool, g, t, desired), {}, gs)

\* BattlegroundQueue::FillPlayersToBG: the groups, by their players, that are
\* chosen from the lists gs for free places.
Fill(gs, free) ==
    IF \E t \in Teams : free[t] > free[Other(t)] /\ \A g \in ToSet(gs) : ~InNormal(g, t)
    THEN [t \in Teams |-> {}] ELSE [t \in Teams |-> Pool(gs, t, free[t])]

\* BattlegroundMgr::InviteGroupToBG for the groups of both pools.
InvitedGroups(gs, b, pools) ==
    [i \in DOMAIN gs |->
        IF \E t \in Teams : gs[i].players \in pools[t]
        THEN [gs[i] EXCEPT !.bg = b, !.left = InviteTime,
                           !.side = CHOOSE t \in Teams : gs[i].players \in pools[t]]
        ELSE gs[i]]

Reachable(pool) == (UNION pool) \cap {p \in Players : at[p] # "off"}

Counted(count, pools) == [t \in Teams |-> count[t] + Cardinality(Reachable(pools[t]))]

RemoveEvents(q, b, pools) ==
    [player : UNION {Reachable(pools[t]) : t \in Teams}, queue : {q}, bg : {b}, left : {InviteTime}]

Invite(q, b, gs, count, pools) ==
    /\ groups' = [groups EXCEPT ![q] = InvitedGroups(gs, b, pools)]
    /\ invited' = [invited EXCEPT ![b] = Counted(count, pools)]
    /\ events' = events \cup RemoveEvents(q, b, pools)
    /\ UNCHANGED <<at, slots, mine, side>>

\* BattlegroundQueueUpdate, action 1: a battleground with free places.
FillBattleground(q, b) ==
    LET free == [t \in Teams |-> FreeSlots(status[b], invited[b], Entered(b), t)]
        pools == Fill(groups[q], free)
    IN  /\ status[b] \in {"join", "progress"} /\ kind[b] = q /\ q \in BgQueues
        /\ \E t \in Teams : free[t] > 0
        /\ \E t \in Teams : pools[t] # {}
        /\ Invite(q, b, groups[q], invited[b], pools)
        /\ UNCHANGED <<status, kind>>

\* BattlegroundMgr::CreateNewBattleground.
Create(q, b) ==
    /\ status[b] = "none"
    /\ status' = [status EXCEPT ![b] = "join"]
    /\ kind' = [kind EXCEPT ![b] = q]

Nobody == [t \in Teams |-> 0]

\* BattlegroundQueue::CheckPremadeMatch: the first group of each side that
\* waits and is large enough.
Premade(q, t) ==
    LET able == {i \in DOMAIN groups[q] :
                   LET g == groups[q][i]
                   IN  /\ g.list = "premade" /\ g.side = t /\ g.bg = None
                       /\ Cardinality(g.players) >= MinPlayers}
    IN  IF able = {} THEN {} ELSE AddGroup({}, groups[q][Min(able)], MaxPlayers)

\* Action 2, two premade groups: they are invited, and then as many as there
\* is room for.
CreatePremade(q, b) ==
    LET first == [t \in Teams |-> Premade(q, t)]
        gs == InvitedGroups(groups[q], b, first)
        count == Counted(Nobody, first)
        then == Fill(gs, [t \in Teams |-> FreeSlots("join", count, Nobody, t)])
    IN  /\ q \in BgQueues /\ \A t \in Teams : first[t] # {}
        /\ Create(q, b)
        /\ groups' = [groups EXCEPT ![q] = InvitedGroups(gs, b, then)]
        /\ invited' = [invited EXCEPT ![b] = Counted(count, then)]
        /\ events' = events \cup RemoveEvents(q, b, first) \cup RemoveEvents(q, b, then)
        /\ UNCHANGED <<at, slots, mine, side>>

\* A premade group that has waited too long, or has become too small, goes to
\* the front of the normal list.
MoveToNormal(q, i) ==
    LET g == groups[q][i]
    IN  /\ q \in BgQueues /\ i \in DOMAIN groups[q]
        /\ g.list = "premade" /\ g.bg = None
        /\ \E t \in Teams : Premade(q, t) = {}
        /\ groups' = [groups EXCEPT ![q] = <<[g EXCEPT !.list = "normal"]>> \o RemoveAt(@, i)]
        /\ UNCHANGED <<at, slots, mine, side, events, status, kind, invited>>

\* BattlegroundQueue::CheckNormalMatch.
CreateNormal(q, b) ==
    LET pools == Fill(groups[q], [t \in Teams |-> MaxPlayers])
    IN  /\ q \in BgQueues
        /\ \A t \in Teams : Cardinality(UNION pools[t]) >= MinPlayers
        /\ Create(q, b)
        /\ Invite(q, b, groups[q], Nobody, pools)

\* A rated arena: two teams that wait; the second one changes sides if it has
\* to.
CreateArena(q, b, i, j) ==
    LET g == groups[q][i]
        pools == [t \in Teams |-> {IF t = g.side THEN g.players ELSE groups[q][j].players}]
    IN  /\ q \in Arenas /\ i # j /\ i \in DOMAIN groups[q] /\ j \in DOMAIN groups[q]
        /\ g.bg = None /\ groups[q][j].bg = None
        /\ Create(q, b)
        /\ Invite(q, b, groups[q], Nobody, pools)

-----------------------------------------------------------------------------
(* Answering an invitation, and the battleground itself.                    *)

\* Player::SetBattlegroundId(0, ...): count without p.
CountWithout(p, count) ==
    IF mine[p] = None THEN count
    ELSE [count EXCEPT ![mine[p]][side[p]] = Decreased(@, 1)]

\* WorldSession::HandleBattleFieldPortOpcode, leave.
LeaveQueue(p, q) ==
    /\ at[p] \in {"world", "bg"} /\ p \in Queued(q)
    /\ RemovePlayers({<<p, q>>})
    /\ UNCHANGED <<at, mine, side, events, status, kind>>

\* The same handler, accept: out of every queue and into the battleground.
\* goes: Player::TeleportTo lets him go.
Accept(p, q, goes) ==
    \E g \in ToSet(groups[q]) :
        LET out == WithTeam({p} \X slots[p])
        IN  /\ at[p] = "world" /\ p \in g.players
            /\ g.bg # None /\ status[g.bg] # "none"
            /\ goes \/ MayRefuse
            /\ slots' = SlotsWithout(out)
            /\ groups' = GroupsWithout(out)
            /\ invited' = [InvitedWithout(out) EXCEPT ![g.bg][g.side] = @ + 1]
            /\ mine' = [mine EXCEPT ![p] = g.bg]
            /\ side' = [side EXCEPT ![p] = g.side]
            /\ at' = [at EXCEPT ![p] = IF goes THEN "port" ELSE "world"]
            /\ UNCHANGED <<events, status, kind>>

\* WorldSession::HandleMoveWorldportAckOpcode into the battleground's map:
\* Battleground::AddPlayer.
Arrive(p) ==
    /\ at[p] = "port" /\ status[mine[p]] # "none"
    /\ at' = [at EXCEPT ![p] = "bg"]
    /\ UNCHANGED <<slots, mine, side, groups, events, status, kind, invited>>

\* Back in the world without a battleground.
Return(p) ==
    /\ at' = [at EXCEPT ![p] = "world"]
    /\ mine' = [mine EXCEPT ![p] = None]
    /\ side' = [side EXCEPT ![p] = TeamOf[p]]
    /\ invited' = CountWithout(p, invited)
    /\ UNCHANGED <<slots, groups, events, status, kind>>

\* The same handler when the map cannot be entered, or after a journey to
\* another map with a battleground id still set.
ArriveElsewhere(p) == at[p] \in {"port", "world"} /\ mine[p] # None /\ Return(p)

\* Player::LeaveBattleground, which ends in Battleground::RemovePlayerAtLeave.
LeaveBattleground(p) == at[p] = "bg" /\ Return(p)

\* Mutant: one who is on his way does not leave the battleground.
LogoutHalfway(p) ==
    LET out == WithTeam({p} \X slots[p])
    IN  /\ at[p] # "off"
        /\ at' = [at EXCEPT ![p] = "off"]
        /\ mine' = [mine EXCEPT ![p] = None]
        /\ side' = [side EXCEPT ![p] = TeamOf[p]]
        /\ slots' = SlotsWithout(out)
        /\ groups' = GroupsWithout(out)
        /\ invited' = IF at[p] = "bg" THEN CountWithout(p, InvitedWithout(out))
                       ELSE InvitedWithout(out)
        /\ UNCHANGED <<events, status, kind>>

\* WorldSession::LogoutPlayer: a transfer is finished first, then the
\* battleground and the queues are left.  A player with a battleground id who
\* is not on its map does not leave it: his entry point is on his own map.
Logout(p) ==
    LET out == WithTeam({p} \X slots[p])
    IN  /\ at[p] # "off"
        /\ at' = [at EXCEPT ![p] = "off"]
        /\ mine' = [mine EXCEPT ![p] = None]
        /\ side' = [side EXCEPT ![p] = TeamOf[p]]
        /\ slots' = SlotsWithout(out)
        /\ groups' = GroupsWithout(out)
        /\ invited' = IF at[p] \in {"port", "bg"} THEN CountWithout(p, InvitedWithout(out))
                       ELSE InvitedWithout(out)
        /\ UNCHANGED <<events, status, kind>>

Login(p) ==
    /\ at[p] = "off"
    /\ at' = [at EXCEPT ![p] = "world"]
    /\ UNCHANGED <<slots, mine, side, groups, events, status, kind, invited>>

\* Mutant: the event does not compare the time of the invitation.
ExecuteRemoveAny(e) ==
    /\ e.left = 0
    /\ events' = events \ {e}
    /\ IF \E g \in ToSet(groups[e.queue]) : Holds(g, e.player, e.bg)
       THEN RemovePlayers({<<e.player, e.queue>>})
       ELSE UNCHANGED <<slots, groups, invited>>
    /\ UNCHANGED <<at, mine, side, status, kind>>

\* Mutant: the player is removed and still counted as invited.
ExecuteRemoveUncounted(e) ==
    /\ e.left = 0
    /\ events' = events \ {e}
    /\ slots' = SlotsWithout({<<e.player, e.queue>>})
    /\ groups' = GroupsWithout({<<e.player, e.queue>>})
    /\ UNCHANGED <<at, mine, side, status, kind, invited>>

\* BGQueueRemoveEvent::Execute, IsPlayerInvited.
ExecuteRemove(e) ==
    /\ e.left = 0
    /\ events' = events \ {e}
    /\ IF /\ at[e.player] # "off" /\ e.queue \in slots[e.player]
          /\ \E g \in ToSet(groups[e.queue]) : Holds(g, e.player, e.bg) /\ g.left = e.left
       THEN RemovePlayers({<<e.player, e.queue>>})
       ELSE UNCHANGED <<slots, groups, invited>>
    /\ UNCHANGED <<at, mine, side, status, kind>>

\* Time passes; the events that are due are executed first.
Tick ==
    /\ \A e \in events : e.left > 0
    /\ events # {}
    /\ events' = {[e EXCEPT !.left = @ - 1] : e \in events}
    /\ groups' = [q \in Queues |-> [i \in DOMAIN groups[q] |->
                    [groups[q][i] EXCEPT !.left = IF @ > 0 THEN @ - 1 ELSE 0]]]
    /\ UNCHANGED <<at, slots, mine, side, status, kind, invited>>

\* Battleground::Update without players: BattlegroundMgr::Update deletes it.
DeleteEmpty(b) ==
    /\ status[b] # "none" /\ Inside(b) = {}
    /\ \A t \in Teams : invited[b][t] = 0
    /\ status' = [status EXCEPT ![b] = "none"]
    /\ kind' = [kind EXCEPT ![b] = None]
    /\ UNCHANGED <<at, slots, mine, side, groups, events, invited>>

\* Battleground::_ProcessJoin, and EndBattleground or EndNow.
Proceed(b, st) ==
    /\ Inside(b) # {}
    /\ <<status[b], st>> \in {<<"join", "progress">>, <<"join", "leave">>, <<"progress", "leave">>}
    /\ status' = [status EXCEPT ![b] = st]
    /\ UNCHANGED <<at, slots, mine, side, groups, events, kind, invited>>

\* Battleground::_ProcessLeave: after two minutes, and every two minutes, all
\* who are inside leave.
ProcessLeave(b) ==
    /\ status[b] = "leave" /\ Inside(b) # {}
    /\ at' = [p \in Players |-> IF p \in Inside(b) THEN "world" ELSE at[p]]
    /\ mine' = [p \in Players |-> IF p \in Inside(b) THEN None ELSE mine[p]]
    /\ side' = [p \in Players |-> IF p \in Inside(b) THEN TeamOf[p] ELSE side[p]]
    /\ invited' = [invited EXCEPT ![b] = [t \in Teams |-> Decreased(@[t], Entered(b)[t])]]
    /\ UNCHANGED <<slots, groups, events, status, kind>>

-----------------------------------------------------------------------------
\* The requests that the bounds allow: only a party with one of the Leavers
\* queues again for what it waits for.
Asked(P, q) ==
    /\ <<P, q>> \in Joins
    /\ P \cap Leavers # {} \/ \A p \in P : q \notin slots[p]

Queueing ==
    \/ \E p \in Players, q \in Queues, ok \in BOOLEAN : Asked({p}, q) /\ Join(p, q, ok)
    \/ \E P \in Parties, q \in Queues, ok \in BOOLEAN : \E l \in P : Asked(P, q) /\ JoinGroup(P, l, q, ok)
    \/ \E P \in Parties, q \in Queues, ok \in BOOLEAN : \E l \in P : Asked(P, q) /\ JoinArena(P, l, q, ok)
    \/ \E P \in Parties, q \in Queues : \E l \in P, before \in SUBSET P :
          Asked(P, q) /\ JoinStopped(P, l, q, before)
    \/ \E p \in Leavers, q \in Queues : LeaveQueue(p, q)

Matching ==
    \/ \E q \in Queues, b \in Bgs : FillBattleground(q, b)
    \/ \E q \in Queues, b \in Bgs : CreatePremade(q, b)
    \/ \E q \in Queues : \E i \in DOMAIN groups[q] : MoveToNormal(q, i)
    \/ \E q \in Queues, b \in Bgs : CreateNormal(q, b)
    \/ \E q \in Queues, b \in Bgs : \E i, j \in DOMAIN groups[q] : CreateArena(q, b, i, j)

Next ==
    \/ Queueing
    \/ Matching
    \/ \E p \in Players, q \in Queues : \E goes \in BOOLEAN : Accept(p, q, goes)
    \/ \E p \in Players : Arrive(p)
    \/ \E p \in Leavers : ArriveElsewhere(p)
    \/ \E p \in Leavers : LeaveBattleground(p)
    \/ \E p \in Leavers : Logout(p)
    \/ \E p \in Players : Login(p)
    \/ \E e \in events : ExecuteRemove(e)
    \/ Tick
    \/ \E b \in Bgs : DeleteEmpty(b)
    \/ \E b \in Bgs : \E st \in {"progress", "leave"} : Proceed(b, st)
    \/ \E b \in Bgs : ProcessLeave(b)

Spec == Init /\ [][Next]_vars

\* The client answers, or is disconnected and LogoutPlayer finishes the transfer.
Arrival(p) == at[p] = "port" /\ (Arrive(p) \/ ArriveElsewhere(p))

\* The world thread calls BattlegroundMgr::Update on every tick, which runs the
\* events and updates every battleground.
Fairness ==
    /\ WF_vars(Tick) /\ WF_vars(\E e \in events : ExecuteRemove(e))
    /\ \A b \in Bgs : WF_vars(DeleteEmpty(b)) /\ WF_vars(ProcessLeave(b))
    /\ \A p \in Players : WF_vars(Arrival(p))

FairSpec == Spec /\ Fairness

-----------------------------------------------------------------------------
(* Properties.                                                              *)

TypeOK ==
    /\ at \in [Players -> {"off", "world", "port", "bg"}]
    /\ slots \in [Players -> SUBSET Queues]
    /\ mine \in [Players -> Bgs \cup {None}] /\ side \in [Players -> Teams]
    /\ groups \in [Queues -> Seq(Group)]
    /\ events \subseteq [player : Players, queue : Queues, bg : Bgs, left : 0 .. InviteTime]
    /\ status \in [Bgs -> {"none", "join", "progress", "leave"}]
    /\ kind \in [Bgs -> Queues \cup {None}]
    /\ invited \in [Bgs -> [Teams -> Nat]]

\* A player holds the id of a queue exactly when he waits in it, in one group
\* only, and nobody waits who has logged out: what RemovePlayer, AddGroup and
\* InviteGroupToBG assert, over every order in which members of a group leave,
\* queue again, enter and log out.
QueueMatches ==
    \A p \in Players, q \in Queues :
        /\ q \in slots[p] <=> p \in Queued(q)
        /\ q \in slots[p] => at[p] = "world"
        /\ \A i, j \in DOMAIN groups[q] :
              p \in groups[q][i].players \cap groups[q][j].players => i = j

\* Those a battleground waits for or has: invited from a queue, or with its id.
Expected(b, t) ==
    {r \in Players \X Queues : Awaited(r, b, t)}
    \cup {<<p, None>> : p \in {o \in Players : mine[o] = b /\ side[o] = t}}

\* m_BgInvitedPlayers counts every player a battleground expects or has once,
\* and nobody is invited to or assigned to one that is gone: the number is
\* neither left behind by one who declines, expires, requeues, leaves or logs
\* out, nor taken off twice, and its clamp at zero hides nothing.
InvitedExactly ==
    \A b \in Bgs, t \in Teams :
        /\ status[b] # "none" => invited[b][t] = Cardinality(Expected(b, t))
        /\ status[b] = "none" => Expected(b, t) = {} /\ invited[b][t] = 0

\* No team of a battleground is ever promised more places than it has, although
\* nothing is checked at the door ("invitations are limited by
\* Battleground::GetFreeSlotsForTeam", Map.cpp).
TeamFits ==
    \A b \in Bgs, t \in Teams :
        Cardinality(Expected(b, t)) <= IF kind[b] \in Arenas THEN ArenaSize ELSE MaxPlayers

\* An invitation that is not answered stands for its whole time: an event left
\* behind by an earlier invitation of the same player, to the same battleground
\* perhaps, takes nobody out of the queue.
FullInviteTime ==
    [][(\E e \in events : e.left = 0 /\ e \notin events') =>
          \A q \in Queues : \A g \in ToSet(groups[q]) :
             (g.bg # None /\ g.left > 0) => g \in ToSet(groups'[q])]_vars

\* A battleground that has ended is deleted: those invited enter or expire,
\* those on their way arrive, and those inside, late ones too, are sent home.
EndedDeleted == \A b \in Bgs : status[b] = "leave" ~> status[b] = "none"
=============================================================================
