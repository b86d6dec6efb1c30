--------------------------- MODULE WorldSessions ---------------------------
(***************************************************************************)
(* The life of a WorldSession: built by a network thread, added to         *)
(* World::m_sessions by the world thread, queued while the realm is full,  *)
(* logged in to a character through an asynchronous query, left in the     *)
(* world as an offline session for a minute when the connection is lost,   *)
(* taken over by a reconnect, and deleted by World::UpdateSessions.        *)
(*                                                                         *)
(* The world thread is cut into steps wherever a network thread or the     *)
(* database thread can come in between: UpdateSessions handles one session *)
(* at a time, and WorldSession::Update is packets, query callbacks, tail.  *)
(* Writes to the databases take effect in the order they are issued, which *)
(* is what one asynchronous worker per database (the default) guarantees.  *)
(* Time is abstracted: a period may have passed, or not, at each test.     *)
(***************************************************************************)
EXTENDS Naturals, Sequences, FiniteSets

CONSTANTS
    Accounts,      \* account ids
    Chars,         \* characters
    OwnerOf,       \* the account of each character
    SessionIds,    \* addresses of WorldSession objects
    Exempt,        \* accounts that never wait: above SEC_PLAYER or CanSkipQueue
    Limits,        \* the values PlayerLimit may take
    Tolerance,     \* whether CONFIG_INTERVAL_DISCONNECT_TOLERANCE is not zero
    LoginAfterDC,  \* CONFIG_ENABLE_LOGIN_AFTER_DC
    MayReject,     \* whether the world may be closed, or a client name another realm
    None           \* NULL

ASSUME ConstantAssumption ==
    /\ IsFiniteSet(Accounts)
    /\ OwnerOf \in [Chars -> Accounts]
    /\ Exempt \subseteq Accounts
    /\ Limits \subseteq Nat
    /\ Tolerance \in BOOLEAN
    /\ LoginAfterDC \in BOOLEAN
    /\ MayReject \in BOOLEAN
    /\ None \notin Chars \cup SessionIds \cup Accounts

VARIABLES
    \* WorldSession objects
    live,          \* the objects that exist
    account,       \* _accountId (None: no such object)
    socket,        \* m_Socket: open, closed by either side, or none
    player,        \* _player
    loading,       \* the character of the login query under way (m_playerLoading)
    ready,         \* sessions whose login query has been answered
    inQueue,       \* sessions with m_inQueue set
    kicked,        \* sessions with _kicked set
    leaving,       \* sessions with _logoutTime set
    away,          \* sessions whose player is on a taxi or between two maps
    \* World
    connecting,    \* sessions a network thread built and has not yet added
    addSessQueue,  \* World::addSessQueue
    sessions,      \* World::m_sessions
    offline,       \* World::m_offlineSessions
    queued,        \* World::m_QueuedPlayer
    disconnects,   \* accounts in World::m_disconnects within the tolerance
    limit,         \* World::m_playerLimit
    stopped,       \* World::IsStopped
    kickedAll,     \* the world loop has ended and KickAll was called
    phase,         \* where the world thread is
    visit,         \* accounts the loop of UpdateSessions has still to visit
    cur,           \* the session being updated
    \* databases
    accountOnline, \* accounts with account.online # 0
    charOnline     \* characters with characters.online = 1

objVars   == <<live, account, socket, player, loading, ready, kicked, leaving, away>>
queueVars == <<inQueue, queued, disconnects>>
listVars  == <<sessions, offline>>
netVars   == <<connecting, addSessQueue>>
ctlVars   == <<phase, visit, cur>>
stopVars  == <<stopped, kickedAll>>
dbVars    == <<accountOnline, charOnline>>
vars == <<objVars, queueVars, listVars, netVars, ctlVars, dbVars, limit, stopVars>>

Phases == {"rest", "add", "sessions", "packets", "tail", "offline", "end"}

Init ==
    /\ live = {}
    /\ account = [i \in SessionIds |-> None]
    /\ socket = [i \in SessionIds |-> "none"]
    /\ player = [i \in SessionIds |-> None]
    /\ loading = [i \in SessionIds |-> None]
    /\ ready = {} /\ inQueue = {} /\ kicked = {} /\ leaving = {} /\ away = {}
    /\ connecting = {} /\ addSessQueue = <<>>
    /\ sessions = [a \in Accounts |-> None]
    /\ offline = [a \in Accounts |-> None]
    /\ queued = <<>> /\ disconnects = {}
    /\ limit \in Limits
    /\ stopped = FALSE /\ kickedAll = FALSE
    /\ phase = "rest" /\ visit = {} /\ cur = None
    /\ accountOnline = {} /\ charOnline = {}

Listed == {a \in Accounts : sessions[a] # None}
CharsOf(a) == {c \in Chars : OwnerOf[c] = a}

-----------------------------------------------------------------------------
(* Deleting sessions: WorldSession::~WorldSession with LogoutPlayer.       *)

\* LogoutPlayer marks every character of the account offline.
LogoutWrites(D) == UNION {CharsOf(account[i]) : i \in {j \in D : player[j] # None}}

\* The objects D go; those in silent had SetShouldSetOfflineInDB(false).
Delete(D, silent) ==
    /\ live' = live \ D
    /\ account' = [i \in SessionIds |-> IF i \in D THEN None ELSE account[i]]
    /\ player' = [i \in SessionIds |-> IF i \in D THEN None ELSE player[i]]
    /\ loading' = [i \in SessionIds |-> IF i \in D THEN None ELSE loading[i]]
    /\ ready' = ready \ D
    /\ kicked' = kicked \ D
    /\ leaving' = leaving \ D
    /\ away' = away \ D
    /\ accountOnline' = accountOnline \ {account[i] : i \in D \ silent}
    /\ charOnline' = charOnline \ LogoutWrites(D)

\* The sockets after deleting D and detaching those in gone.
SocketsWithout(gone) == [i \in SessionIds |-> IF i \in gone THEN "none" ELSE socket[i]]

-----------------------------------------------------------------------------
(* World::RemoveQueuedPlayer.                                              *)

Positions(i) == {n \in DOMAIN queued : queued[n] = i}

\* The list without its n-th element.
Erase(q, n) == [k \in 1 .. Len(q) - 1 |-> IF k < n THEN q[k] ELSE q[k + 1]]

QueueWithout(i) ==
    IF Positions(i) = {} THEN queued
    ELSE Erase(queued, CHOOSE n \in Positions(i) : \A m \in Positions(i) : n <= m)

\* Mutant: the session that leaves is still counted.
ActiveStale(i) == Cardinality(Listed) - Len(queued)

\* The active sessions once i is gone: a session that is not queued was active.
ActiveWithout(i) ==
    Cardinality(Listed) - Len(queued) - (IF Positions(i) = {} THEN 1 ELSE 0)

\* Accept the first in the queue.
Accepts(i) == (limit = 0 \/ ActiveWithout(i) < limit) /\ QueueWithout(i) # <<>>
QueueAfter(i) == IF Accepts(i) THEN Tail(QueueWithout(i)) ELSE QueueWithout(i)
Accepted(i) == IF Accepts(i) THEN {Head(QueueWithout(i))} ELSE {}

\* The callers note the time when the session was not queued.
DisconnectsAfter(i) ==
    IF Positions(i) = {} /\ Tolerance THEN disconnects \cup {account[i]} ELSE disconnects

\* Mutant: the accepted session keeps its flag.
RemoveQueuedPlayerFlagged(i) ==
    /\ queued' = QueueAfter(i)
    /\ inQueue' = inQueue \ {i}
    /\ disconnects' = DisconnectsAfter(i)

RemoveQueuedPlayer(i) ==
    /\ queued' = QueueAfter(i)
    /\ inQueue' = inQueue \ ({i} \cup Accepted(i))
    /\ disconnects' = DisconnectsAfter(i)

-----------------------------------------------------------------------------
(* Network threads and the database thread.                                *)

\* WorldSocket::HandleAuthSession builds the session, ...
Construct(i, a) ==
    /\ phase # "end"
    /\ i \notin live
    /\ live' = live \cup {i}
    /\ account' = [account EXCEPT ![i] = a]
    /\ socket' = [socket EXCEPT ![i] = "open"]
    /\ connecting' = connecting \cup {i}
    /\ accountOnline' = accountOnline \cup {a}
    /\ UNCHANGED <<player, loading, ready, kicked, leaving, away, queueVars, listVars,
                   addSessQueue, ctlVars, charOnline, limit, stopVars>>

\* ... and hands it to World::AddSession after more queries.
AddSession(i) ==
    /\ i \in connecting
    /\ connecting' = connecting \ {i}
    /\ addSessQueue' = Append(addSessQueue, i)
    /\ UNCHANGED <<objVars, queueVars, listVars, ctlVars, dbVars, limit, stopVars>>

\* HandleAuthSession turns the client away after it has built the session: the
\* socket is closed and forgets the session, which nobody deletes.
RejectAuth(i) ==
    /\ MayReject
    /\ i \in connecting
    /\ connecting' = connecting \ {i}
    /\ socket' = [socket EXCEPT ![i] = "closed"]
    /\ UNCHANGED <<live, account, player, loading, ready, kicked, leaving, away, queueVars,
                   listVars, addSessQueue, ctlVars, dbVars, limit, stopVars>>

\* The client goes away, or an idle or misbehaving connection is closed.
CloseSocket(i) ==
    /\ socket[i] = "open"
    /\ socket' = [socket EXCEPT ![i] = "closed"]
    /\ UNCHANGED <<live, account, player, loading, ready, kicked, leaving, away, queueVars,
                   listVars, netVars, ctlVars, dbVars, limit, stopVars>>

\* The asynchronous worker has executed the LoginQueryHolder.
HolderExecuted(i) ==
    /\ loading[i] # None
    /\ i \notin ready
    /\ ready' = ready \cup {i}
    /\ UNCHANGED <<live, account, socket, player, loading, kicked, leaving, away, queueVars,
                   listVars, netVars, ctlVars, dbVars, limit, stopVars>>

-----------------------------------------------------------------------------
(* World::UpdateSessions: add new sessions.                                *)

BeginUpdateSessions ==
    /\ phase = "rest"
    /\ ~stopped
    /\ phase' = "add"
    /\ UNCHANGED <<objVars, queueVars, listVars, netVars, visit, cur, dbVars, limit, stopVars>>

\* HandleSocketClosed, for a session whose socket is closed.
StaysInWorld(i) == i \notin kicked /\ player[i] # None /\ i \notin away /\ ~stopped

\* The old session of the account is loading a character: the new one is dropped.
AddSessionRefused(i, a) ==
    /\ sessions[a] # None
    /\ loading[sessions[a]] # None
    /\ Delete({i}, {})
    /\ socket' = SocketsWithout({i})
    /\ UNCHANGED <<queueVars, listVars>>

\* Whether AddSession_ puts the new session of a in the queue; recent are the
\* accounts HasRecentlyDisconnected lets through.
MustWait(a, recent) ==
    /\ limit > 0
    /\ Cardinality(Listed \cup {a}) - 1 >= limit
    /\ a \notin Exempt \cup recent

\* The account has no other session.
AddSessionFresh(i, a) ==
    /\ sessions[a] = None
    /\ sessions' = [sessions EXCEPT ![a] = i]
    /\ queued' = IF MustWait(a, disconnects) THEN Append(queued, i) ELSE queued
    /\ inQueue' = IF MustWait(a, disconnects) THEN inQueue \cup {i} ELSE inQueue
    /\ UNCHANGED <<objVars, disconnects, offline, dbVars>>

\* The old session is kicked; it stays as an offline session when its player
\* is in the world, and any earlier offline session of the account is deleted.
AddSessionReplacing(i, a) ==
    LET old  == sessions[a]
        prev == {offline[a]} \ {None}
    IN  /\ old # None
        /\ loading[old] = None
        /\ LET recent == DisconnectsAfter(old) IN
           /\ disconnects' = recent
           /\ queued' = IF MustWait(a, recent) THEN Append(QueueAfter(old), i) ELSE QueueAfter(old)
           /\ inQueue' = (inQueue \ ({old} \cup Accepted(old)))
                            \cup (IF MustWait(a, recent) THEN {i} ELSE {})
        /\ IF StaysInWorld(old)
           THEN /\ Delete(prev, prev)
                /\ offline' = [offline EXCEPT ![a] = old]
           ELSE /\ Delete({old}, {old})
                /\ offline' = offline
        /\ socket' = SocketsWithout({old})
        /\ sessions' = [sessions EXCEPT ![a] = i]

AddSession_ ==
    /\ phase = "add"
    /\ addSessQueue # <<>>
    /\ LET i == Head(addSessQueue)
           a == account[i]
       IN  AddSessionRefused(i, a) \/ AddSessionFresh(i, a) \/ AddSessionReplacing(i, a)
    /\ addSessQueue' = Tail(addSessQueue)
    /\ UNCHANGED <<connecting, ctlVars, limit, stopVars>>

EndAdd ==
    /\ phase = "add"
    /\ addSessQueue = <<>>
    /\ phase' = "sessions"
    /\ visit' = Listed
    /\ UNCHANGED <<objVars, queueVars, listVars, netVars, cur, dbVars, limit, stopVars>>

-----------------------------------------------------------------------------
(* World::UpdateSessions: update the sessions.                             *)

\* The connection was lost and the player stays in the world.
SocketClosed(a) ==
    LET i    == sessions[a]
        prev == {offline[a]} \ {None}
    IN  /\ phase = "sessions"
        /\ a \in visit
        /\ socket[i] = "closed"
        /\ StaysInWorld(i)
        /\ RemoveQueuedPlayer(i)
        /\ Delete(prev, prev)
        /\ socket' = SocketsWithout({i})
        /\ sessions' = [sessions EXCEPT ![a] = None]
        /\ offline' = [offline EXCEPT ![a] = i]
        /\ visit' = visit \ {a}
        /\ UNCHANGED <<netVars, phase, cur, limit, stopVars>>

\* Otherwise WorldSession::Update is called.
BeginUpdate(a) ==
    LET i == sessions[a]
    IN  /\ phase = "sessions"
        /\ a \in visit
        /\ ~ (socket[i] = "closed" /\ StaysInWorld(i))
        /\ phase' = "packets"
        /\ visit' = visit \ {a}
        /\ cur' = i
        /\ UNCHANGED <<objVars, queueVars, listVars, netVars, dbVars, limit, stopVars>>

\* A packet is processed only while the socket is open.
HandlingPacket == phase = "packets" /\ socket[cur] = "open"

KickEffect(i) ==
    /\ socket' = [socket EXCEPT ![i] = IF @ = "open" THEN "closed" ELSE @]
    /\ kicked' = kicked \cup {i}

\* HandlePlayerLoginOpcode on a session that is loading or logged in.
LoginAgain ==
    /\ HandlingPacket
    /\ cur \notin inQueue
    /\ loading[cur] # None \/ player[cur] # None
    /\ KickEffect(cur)
    /\ UNCHANGED <<live, account, player, loading, ready, leaving, away, queueVars, listVars,
                   netVars, ctlVars, dbVars, limit, stopVars>>

\* HandlePlayerLoginOpcode, up to the asynchronous query.  An offline session
\* with another character is kicked, and goes in the offline loop.
LoginFromCharacterList(c) ==
    LET a   == account[cur]
        off == offline[a]
    IN  /\ HandlingPacket
        /\ cur \notin inQueue
        /\ loading[cur] = None /\ player[cur] = None
        /\ OwnerOf[c] = a
        /\ off # None => player[off] \notin {None, c} /\ off \notin kicked
        /\ kicked' = kicked \cup ({off} \ {None})
        /\ loading' = [loading EXCEPT ![cur] = c]
        /\ UNCHANGED <<live, account, socket, player, ready, leaving, away, queueVars, listVars,
                       netVars, ctlVars, dbVars, limit, stopVars>>

\* Mutant: the offline session keeps its player.
LoginToSharedChar(c) ==
    LET off == offline[account[cur]]
    IN  /\ HandlingPacket
        /\ loading[cur] = None /\ player[cur] = None
        /\ off # None
        /\ player[off] = c
        /\ off \notin kicked
        /\ player' = [player EXCEPT ![cur] = c]
        /\ UNCHANGED <<live, account, socket, loading, ready, kicked, leaving, away, queueVars,
                       listVars, netVars, ctlVars, dbVars, limit, stopVars>>

\* HandlePlayerLoginOpcode for the character of the offline session: its
\* teleports are finished, and the new session takes the player over.
LoginToCharInWorld(c) ==
    LET off == offline[account[cur]]
    IN  /\ HandlingPacket
        /\ cur \notin inQueue
        /\ loading[cur] = None /\ player[cur] = None
        /\ LoginAfterDC
        /\ off # None
        /\ player[off] = c
        /\ off \notin kicked
        /\ player' = [player EXCEPT ![off] = None, ![cur] = c]
        /\ away' = away \ {off}
        /\ UNCHANGED <<live, account, socket, loading, ready, kicked, leaving, queueVars, listVars,
                       netVars, ctlVars, dbVars, limit, stopVars>>

\* LogoutPlayer of the session i, which goes on without a player.
LogoutPlayer(i) ==
    /\ player' = [player EXCEPT ![i] = None]
    /\ leaving' = leaving \ {i}
    /\ away' = away \ {i}
    /\ charOnline' = charOnline \ LogoutWrites({i})

\* HandleLogoutRequestOpcode: at once in an inn, on a taxi, or for the staff, ...
InstantLogout ==
    /\ HandlingPacket
    /\ player[cur] # None
    /\ LogoutPlayer(cur)
    /\ UNCHANGED <<live, account, socket, loading, ready, kicked, queueVars, listVars,
                   netVars, ctlVars, accountOnline, limit, stopVars>>

\* ... after twenty seconds, or not at all (in combat, falling, in a duel,
\* or HandleLogoutCancelOpcode).
LogoutRequest(granted) ==
    /\ HandlingPacket
    /\ player[cur] # None
    /\ cur \notin away
    /\ leaving' = IF granted THEN leaving \cup {cur} ELSE leaving \ {cur}
    /\ UNCHANGED <<live, account, socket, player, loading, ready, kicked, away, queueVars, listVars,
                   netVars, ctlVars, dbVars, limit, stopVars>>

\* ProcessQueryCallbacks without a login to finish.
NoLoginCallback ==
    /\ phase = "packets"
    /\ socket[cur] = "open" => cur \notin ready
    /\ phase' = "tail"
    /\ UNCHANGED <<objVars, queueVars, listVars, netVars, visit, cur, dbVars, limit, stopVars>>

\* HandlePlayerLoginFromDB: the player enters the world, or is sent on to
\* another map or a taxi at once (elsewhere).
PlayerLoginFromDB(elsewhere) ==
    LET c == loading[cur]
    IN  /\ HandlingPacket
        /\ cur \in ready
        /\ phase' = "tail"
        /\ player' = [player EXCEPT ![cur] = c]
        /\ away' = IF elsewhere THEN away \cup {cur} ELSE away
        /\ loading' = [loading EXCEPT ![cur] = None]
        /\ ready' = ready \ {cur}
        /\ charOnline' = charOnline \cup {c}
        /\ accountOnline' = accountOnline \cup {account[cur]}
        /\ UNCHANGED <<live, account, socket, kicked, leaving, queueVars, listVars,
                       netVars, visit, cur, limit, stopVars>>

\* HandlePlayerLoginFromDB when LoadFromDB fails: the session is kicked.
PlayerLoginFailed ==
    /\ HandlingPacket
    /\ cur \in ready
    /\ phase' = "tail"
    /\ loading' = [loading EXCEPT ![cur] = None]
    /\ ready' = ready \ {cur}
    /\ KickEffect(cur)
    /\ UNCHANGED <<live, account, player, leaving, away, queueVars, listVars,
                   netVars, visit, cur, dbVars, limit, stopVars>>

\* The rest of Update: the twenty seconds of a logout request are over.
DelayedLogout ==
    /\ phase = "tail"
    /\ cur \in leaving
    /\ loading[cur] = None
    /\ LogoutPlayer(cur)
    /\ UNCHANGED <<live, account, socket, loading, ready, kicked, queueVars, listVars,
                   netVars, ctlVars, accountOnline, limit, stopVars>>

\* Mutant: unless it was kicked, a session is kept while it is loading, whatever its socket.
EndUpdateLoading ==
    /\ phase = "tail"
    /\ socket[cur] = "open" \/ (loading[cur] # None /\ cur \notin kicked)
    /\ phase' = "sessions"
    /\ cur' = None
    /\ UNCHANGED <<objVars, queueVars, listVars, netVars, visit, dbVars, limit, stopVars>>

\* Update returns true.
EndUpdate ==
    /\ phase = "tail"
    /\ socket[cur] = "open"
    /\ phase' = "sessions"
    /\ cur' = None
    /\ UNCHANGED <<objVars, queueVars, listVars, netVars, visit, dbVars, limit, stopVars>>

\* Mutant: the deleted session is not erased from m_sessions.
RemoveSessionDangling ==
    /\ phase = "tail"
    /\ socket[cur] # "open"
    /\ RemoveQueuedPlayer(cur)
    /\ Delete({cur}, {})
    /\ socket' = SocketsWithout({cur})
    /\ phase' = "sessions"
    /\ cur' = None
    /\ UNCHANGED <<listVars, netVars, visit, limit, stopVars>>

\* Update returns false, and the session is removed and deleted.
RemoveSession ==
    LET a == account[cur]
    IN  /\ phase = "tail"
        /\ socket[cur] # "open"
        /\ RemoveQueuedPlayer(cur)
        /\ sessions' = [sessions EXCEPT ![a] = None]
        /\ Delete({cur}, IF offline[a] # None THEN {cur} ELSE {})
        /\ socket' = SocketsWithout({cur})
        /\ phase' = "sessions"
        /\ cur' = None
        /\ UNCHANGED <<offline, netVars, visit, limit, stopVars>>

EndSessions ==
    /\ phase = "sessions"
    /\ visit = {}
    /\ phase' = "offline"
    /\ visit' = {a \in Accounts : offline[a] # None}
    /\ UNCHANGED <<objVars, queueVars, listVars, netVars, cur, dbVars, limit, stopVars>>

-----------------------------------------------------------------------------
(* World::UpdateSessions: offline sessions.                                *)

\* Mutant: the sixty seconds are not tested.
RemoveOfflineNeverExpired(a, expired) ==
    LET i == offline[a]
    IN  /\ phase = "offline"
        /\ a \in visit
        /\ player[i] = None \/ i \in kicked
        /\ offline' = [offline EXCEPT ![a] = None]
        /\ Delete({i}, IF sessions[a] # None THEN {i} ELSE {})
        /\ visit' = visit \ {a}
        /\ UNCHANGED <<socket, queueVars, sessions, netVars, phase, cur, limit, stopVars>>

\* Gone with its player taken over, kicked, or after sixty seconds (expired).
RemoveOffline(a, expired) ==
    LET i == offline[a]
    IN  /\ phase = "offline"
        /\ a \in visit
        /\ player[i] = None \/ i \in kicked \/ expired
        /\ offline' = [offline EXCEPT ![a] = None]
        /\ Delete({i}, IF sessions[a] # None THEN {i} ELSE {})
        /\ visit' = visit \ {a}
        /\ UNCHANGED <<socket, queueVars, sessions, netVars, phase, cur, limit, stopVars>>

KeepOffline(a) ==
    /\ phase = "offline"
    /\ a \in visit
    /\ player[offline[a]] # None /\ offline[a] \notin kicked
    /\ visit' = visit \ {a}
    /\ UNCHANGED <<objVars, queueVars, listVars, netVars, phase, cur, dbVars, limit, stopVars>>

EndUpdateSessions ==
    /\ phase = "offline"
    /\ visit = {}
    /\ phase' = IF kickedAll THEN "end" ELSE "rest"
    /\ UNCHANGED <<objVars, queueVars, listVars, netVars, visit, cur, dbVars, limit, stopVars>>

-----------------------------------------------------------------------------
(* The rest of the world tick.                                             *)

Known == ({sessions[a] : a \in Accounts} \cup {offline[a] : a \in Accounts}) \ {None}

\* KickPlayer by a command, a ban, Warden or a script.
KickPlayer(i) ==
    /\ phase = "rest"
    /\ i \in Known
    /\ KickEffect(i)
    /\ UNCHANGED <<live, account, player, loading, ready, leaving, away, queueVars, listVars,
                   netVars, ctlVars, dbVars, limit, stopVars>>

\* The player takes off or lands, leaves a map or arrives in one.
Travel(i) ==
    /\ phase = "rest"
    /\ i \in Known
    /\ player[i] # None
    /\ away' = IF i \in away THEN away \ {i} ELSE away \cup {i}
    /\ UNCHANGED <<live, account, socket, player, loading, ready, kicked, leaving, queueVars,
                   listVars, netVars, ctlVars, dbVars, limit, stopVars>>

\* World::StopNow, by a command, a signal or the shutdown timer, at any time.
StopNow ==
    /\ ~stopped
    /\ stopped' = TRUE
    /\ UNCHANGED <<objVars, queueVars, listVars, netVars, ctlVars, dbVars, limit, kickedAll>>

\* Mutant: the offline sessions are not kicked.
KickListed ==
    LET listed == {sessions[a] : a \in Listed}
    IN  /\ phase = "rest"
        /\ stopped
        /\ kickedAll' = TRUE
        /\ queued' = <<>>
        /\ socket' = [i \in SessionIds |-> IF i \in listed /\ socket[i] = "open" THEN "closed" ELSE socket[i]]
        /\ kicked' = kicked \cup listed
        /\ phase' = "add"
        /\ UNCHANGED <<live, account, player, loading, ready, leaving, away, inQueue, disconnects,
                       listVars, netVars, visit, cur, dbVars, limit, stopped>>

\* The world loop is over: KickAll closes every socket, and UpdateSessions runs a last time.
KickAll ==
    /\ phase = "rest"
    /\ stopped
    /\ kickedAll' = TRUE
    /\ queued' = <<>>
    /\ socket' = [i \in SessionIds |-> IF i \in Known /\ socket[i] = "open" THEN "closed" ELSE socket[i]]
    /\ kicked' = kicked \cup Known
    /\ phase' = "add"
    /\ UNCHANGED <<live, account, player, loading, ready, leaving, away, inQueue, disconnects,
                   listVars, netVars, visit, cur, dbVars, limit, stopped>>

SetPlayerAmountLimit(l) ==
    /\ phase = "rest"
    /\ limit' = l
    /\ UNCHANGED <<objVars, queueVars, listVars, netVars, ctlVars, dbVars, stopVars>>

\* The tolerance after a disconnect has run out.
ForgetDisconnect(a) ==
    /\ a \in disconnects
    /\ disconnects' = disconnects \ {a}
    /\ UNCHANGED <<objVars, inQueue, queued, listVars, netVars, ctlVars, dbVars, limit, stopVars>>

Terminating == phase = "end" /\ UNCHANGED vars

-----------------------------------------------------------------------------
Network(i) ==
    \/ \E a \in Accounts : Construct(i, a)
    \/ AddSession(i)
    \/ RejectAuth(i)
    \/ CloseSocket(i)

WorldUpdateSessions ==
    \/ AddSession_
    \/ EndAdd
    \/ \E a \in Accounts : SocketClosed(a) \/ BeginUpdate(a)
    \/ NoLoginCallback
    \/ \E elsewhere \in BOOLEAN : PlayerLoginFromDB(elsewhere)
    \/ PlayerLoginFailed
    \/ EndUpdate
    \/ RemoveSession
    \/ EndSessions
    \/ \E a \in Accounts, expired \in BOOLEAN : RemoveOffline(a, expired)
    \/ \E a \in Accounts : KeepOffline(a)
    \/ EndUpdateSessions

Packet ==
    \/ LoginAgain
    \/ \E c \in Chars : LoginFromCharacterList(c) \/ LoginToCharInWorld(c)
    \/ InstantLogout
    \/ \E granted \in BOOLEAN : LogoutRequest(granted)

Next ==
    \/ \E i \in SessionIds : Network(i) \/ HolderExecuted(i) \/ KickPlayer(i) \/ Travel(i)
    \/ BeginUpdateSessions
    \/ WorldUpdateSessions
    \/ Packet
    \/ DelayedLogout
    \/ StopNow
    \/ KickAll
    \/ \E l \in Limits : SetPlayerAmountLimit(l)
    \/ \E a \in Accounts : ForgetDisconnect(a)
    \/ Terminating

Spec == Init /\ [][Next]_vars

\* The world loop keeps running, and a WorldSession::Update processes at most
\* 150 packets.  Whenever addSessQueue is found empty the loop that drains it
\* ends, and sixty seconds do pass.
FairSpec ==
    /\ Spec
    /\ WF_vars(BeginUpdateSessions)
    /\ WF_vars(WorldUpdateSessions)
    /\ SF_vars(EndAdd)
    /\ \A a \in Accounts : SF_vars(RemoveOffline(a, TRUE))

-----------------------------------------------------------------------------
(* Properties.                                                             *)

\* Every variable keeps its type.
TypeOK ==
    /\ live \subseteq SessionIds
    /\ account \in [SessionIds -> Accounts \cup {None}]
    /\ socket \in [SessionIds -> {"open", "closed", "none"}]
    /\ player \in [SessionIds -> Chars \cup {None}]
    /\ loading \in [SessionIds -> Chars \cup {None}]
    /\ ready \subseteq SessionIds
    /\ inQueue \subseteq SessionIds
    /\ kicked \subseteq SessionIds
    /\ leaving \subseteq SessionIds
    /\ away \subseteq SessionIds
    /\ connecting \subseteq SessionIds
    /\ addSessQueue \in Seq(SessionIds)
    /\ sessions \in [Accounts -> SessionIds \cup {None}]
    /\ offline \in [Accounts -> SessionIds \cup {None}]
    /\ queued \in Seq(SessionIds)
    /\ disconnects \subseteq Accounts
    /\ limit \in Limits
    /\ stopped \in BOOLEAN
    /\ kickedAll \in BOOLEAN
    /\ phase \in Phases
    /\ visit \subseteq Accounts
    /\ cur \in SessionIds \cup {None}
    /\ accountOnline \subseteq Accounts
    /\ charOnline \subseteq Chars

\* A Player belongs to one session at a time: a reconnect moves it, and no
\* character is loaded while it is still in the world with another session.
\* "Each account can only have one online character at any given time"
\* (WorldSession::LogoutPlayer), but for the one that an account left behind
\* when it lost its connection and gave up for another: that session is kicked
\* and goes before the end of the same UpdateSessions.  And the database agrees
\* between two UpdateSessions: a character that is marked online is in the
\* world, and an account that is marked online has a session, whichever of its
\* sessions left the writing of the flag to which other.
OneCharacterPerAccount ==
    /\ \A i, j \in live :
          player[i] # None /\ player[j] # None /\ i # j =>
            /\ player[i] # player[j]
            /\ account[i] = account[j] => phase # "rest" /\ {i, j} \cap kicked # {}
    /\ phase = "rest" =>
          /\ \A c \in charOnline : \E i \in live : player[i] = c
          /\ \A a \in accountOnline : \E i \in live : account[i] = a

Listings(i) ==
    (IF i \in connecting THEN 1 ELSE 0)
    + Cardinality({n \in DOMAIN addSessQueue : addSessQueue[n] = i})
    + Cardinality({a \in Accounts : sessions[a] = i})
    + Cardinality({a \in Accounts : offline[a] = i})

\* Every session is in exactly one of the hands of a network thread,
\* addSessQueue, m_sessions and m_offlineSessions until it is deleted, and no
\* deleted one is in any: none leaks (but for that of a rejected connection,
\* which HandleAuthSession never deletes), none is deleted twice or used after.
\* Between two UpdateSessions an offline session exists only for a player in
\* the world, and not next to a session that is logged on to a character.
OneOwner ==
    /\ \A i \in SessionIds : Listings(i) = IF i \in live THEN 1 ELSE 0
    /\ phase \in {"rest", "add"} =>
          \A a \in Accounts : offline[a] # None =>
            /\ socket[offline[a]] = "none"
            /\ player[offline[a]] # None
            /\ sessions[a] # None => player[sessions[a]] = None

\* m_QueuedPlayer holds no dangling pointer and nobody twice: its sessions are
\* in m_sessions, flagged, without a player and not loading one.  And nobody is
\* forgotten: a flagged session is in the list, so it will be let in one day.
QueueConsistent ==
    /\ \A n \in DOMAIN queued :
          /\ queued[n] \in live \cap inQueue
          /\ sessions[account[queued[n]]] = queued[n]
    /\ \A m, n \in DOMAIN queued : queued[m] = queued[n] => m = n
    /\ \A i \in inQueue : player[i] = None /\ loading[i] = None
    /\ ~kickedAll => \A i \in inQueue : \E n \in DOMAIN queued : queued[n] = i

\* The places that are free although somebody waits.
IdlePlaces ==
    LET active == Cardinality(Listed) - Len(queued)
    IN  IF queued = <<>> \/ active >= limit THEN 0 ELSE limit - active

\* The queue is work conserving: whoever leaves, returns or is replaced, no
\* place falls free while somebody waits.  Only an administrator who raises
\* the limit leaves places free, for RemoveQueuedPlayer lets in one session
\* per departure.
NoPlaceWasted == [][limit' = limit => IdlePlaces' <= IdlePlaces]_vars

\* The shutdown is complete: of the sessions KickAll found, listed or offline,
\* none survives the last UpdateSessions, so all their players are saved.
ShutdownComplete ==
    phase = "end" => \A i \in Known : i \notin kicked /\ i \notin {offline[a] : a \in Accounts}

\* New sessions do not arrive faster than AddSession_ takes them: the loop
\* that drains addSessQueue has no bound of its own.
ArrivalsBounded == []<>(addSessQueue = <<>>)

\* A session that has lost its connection leaves m_sessions, unless arrivals
\* keep the world thread in the loop that adds sessions or the world stops.
ConnectionLossHandled ==
    ArrivalsBounded => \A a \in Accounts :
        sessions[a] # None /\ socket[sessions[a]] # "open" ~>
            sessions[a] = None \/ socket[sessions[a]] = "open" \/ stopped

\* No player stays in the world without a connection for good, unless arrivals
\* keep the world thread in the loop that adds sessions or the world stops.
OfflineEnds ==
    ArrivalsBounded => \A a \in Accounts : offline[a] # None ~> offline[a] = None \/ stopped
=============================================================================
