----------------------------- MODULE WorldSocket -----------------------------
(***************************************************************************)
(* The life of one WorldSocket and of the WorldSession it routes packets   *)
(* to.  Four kinds of threads meet here: the acceptor thread opens the     *)
(* socket; a network thread dispatches its events and updates it; the      *)
(* world thread kicks, detaches and deletes the session; and the map and   *)
(* auction listing threads (senders) close the socket when a send fails.   *)
(*                                                                         *)
(* The socket is reference counted.  refs holds who has a reference: the   *)
(* acceptor, the manager (ReactorRunnable::m_NewSockets and m_Sockets),    *)
(* the ACE reactor and the session; the socket is freed when it is empty.  *)
(*                                                                         *)
(* The critical sections of m_OutBufferLock are single actions; those of   *)
(* m_SessionLock too, except for the ones in which the network thread      *)
(* works with the session.  What is sent is WorldSocketOutput's.           *)
(***************************************************************************)
EXTENDS Naturals, FiniteSets

CONSTANT Senders   \* the map threads and the auction listing thread

VARIABLES
    apc,        \* where the acceptor thread is in WorldSocket::open
    npc,        \* where the network thread is
    wpc,        \* where the world thread is: among the sessions or the maps
    spc,        \* where each sender is
    refs,       \* who holds a reference
    listed,     \* m_NewSockets, m_Sockets, or none of them
    buffer,     \* whether m_OutBuffer is allocated
    outActive,  \* m_OutActive
    closing,    \* closing_
    routed,     \* whether m_Session is not NULL
    held,       \* whether the network thread holds m_SessionLock
    session     \* what has become of the WorldSession

vars == <<apc, npc, wpc, spc, refs, listed, buffer, outActive, closing, routed, held, session>>

Holders  == {"acceptor", "manager", "reactor", "session"}
Sessions == {"none", "built", "leaked", "world", "offline", "deleted"}

Init ==
    /\ apc = "open"
    /\ npc = "loop"
    /\ wpc = "maps"
    /\ spc = [t \in Senders |-> "idle"]
    /\ refs = {"acceptor"}
    /\ listed = "no"
    /\ buffer = FALSE
    /\ outActive = FALSE
    /\ closing = FALSE
    /\ routed = FALSE
    /\ held = FALSE
    /\ session = "none"

-----------------------------------------------------------------------------
(* CloseSocket and handle_close: closing_ is set under m_OutBufferLock,    *)
(* and m_Session reset under m_SessionLock, with a gap in between.         *)

ForgetSession ==
    /\ ~held
    /\ routed' = FALSE

-----------------------------------------------------------------------------
(* The acceptor thread: WorldSocket::open.                                 *)

\* OnSocketOpen gives the socket to a network thread (AddSocket).
Open ==
    /\ apc = "open"
    /\ apc' = "hooked"
    /\ outActive' = TRUE
    /\ refs' = refs \cup {"manager"}
    /\ listed' = "new"
    /\ UNCHANGED <<npc, wpc, spc, buffer, closing, routed, held, session>>

\* The buffer is allocated and the socket registered with the reactor.
Register ==
    /\ apc = "hooked"
    /\ apc' = "registered"
    /\ buffer' = TRUE
    /\ refs' = refs \cup {"reactor"}
    /\ UNCHANGED <<npc, wpc, spc, listed, outActive, closing, routed, held, session>>

\* "reactor takes care of the socket from now on"
Opened ==
    /\ apc = "registered"
    /\ apc' = "done"
    /\ refs' = refs \ {"acceptor"}
    /\ UNCHANGED <<npc, wpc, spc, listed, buffer, outActive, closing, routed, held, session>>

\* open fails before or after OnSocketOpen, and the acceptor calls close.
OpenFails ==
    /\ apc \in {"open", "hooked"}
    /\ apc' = "done"
    /\ closing' = TRUE
    /\ refs' = refs \ {"acceptor"}
    /\ UNCHANGED <<npc, wpc, spc, listed, buffer, outActive, routed, held, session>>

-----------------------------------------------------------------------------
(* The network thread: ReactorRunnable::svc.                               *)

AddNewSockets ==
    /\ npc = "loop"
    /\ listed = "new"
    /\ listed' = IF closing THEN "no" ELSE "in"
    /\ refs' = IF closing THEN refs \ {"manager"} ELSE refs
    /\ UNCHANGED <<apc, npc, wpc, spc, buffer, outActive, closing, routed, held, session>>

\* Mutant: the manager's reference to a closed socket is kept.
UpdateClosedKept ==
    /\ npc = "loop"
    /\ listed = "in"
    /\ closing
    /\ listed' = "no"
    /\ UNCHANGED <<apc, npc, wpc, spc, refs, buffer, outActive, closing, routed, held, session>>

\* Update finds the socket closed: CloseSocket does nothing and it is dropped.
UpdateClosed ==
    /\ npc = "loop"
    /\ listed = "in"
    /\ closing
    /\ listed' = "no"
    /\ refs' = refs \ {"manager"}
    /\ UNCHANGED <<apc, npc, wpc, spc, buffer, outActive, closing, routed, held, session>>

\* Whether Update calls handle_output.
Updatable == listed = "in" /\ ~closing /\ ~outActive

\* Update sends; the socket may be scheduled for output.
UpdateSends ==
    /\ npc = "loop"
    /\ Updatable
    /\ outActive' \in BOOLEAN
    /\ UNCHANGED <<apc, npc, wpc, spc, refs, listed, buffer, closing, routed, held, session>>

\* Update fails and svc closes the socket.
UpdateFails ==
    /\ npc = "loop"
    /\ Updatable
    /\ closing' = TRUE
    /\ npc' = "drop"
    /\ UNCHANGED <<apc, wpc, spc, refs, listed, buffer, outActive, routed, held, session>>

Drop ==
    /\ npc = "drop"
    /\ ForgetSession
    /\ npc' = "loop"
    /\ listed' = "no"
    /\ refs' = refs \ {"manager"}
    /\ UNCHANGED <<apc, wpc, spc, buffer, outActive, closing, held, session>>

-----------------------------------------------------------------------------
(* The network thread: events.                                             *)

\* The socket is writable.
HandleOutput ==
    /\ npc = "loop"
    /\ "reactor" \in refs
    /\ outActive
    /\ ~closing
    /\ outActive' \in BOOLEAN
    /\ UNCHANGED <<apc, npc, wpc, spc, refs, listed, buffer, closing, routed, held, session>>

\* The socket is readable and a complete header arrives.
HandleInput ==
    /\ npc = "loop"
    /\ "reactor" \in refs
    /\ ~closing
    /\ npc' = "packet"
    /\ UNCHANGED <<apc, wpc, spc, refs, listed, buffer, outActive, closing, routed, held, session>>

\* An event finds the socket closed.
EventWhenClosed ==
    /\ npc = "loop"
    /\ "reactor" \in refs
    /\ closing
    /\ npc' = "close"
    /\ UNCHANGED <<apc, wpc, spc, refs, listed, buffer, outActive, closing, routed, held, session>>

\* The end of the stream, an error, or a malformed header.
EventFails ==
    /\ npc \in {"loop", "packet"}
    /\ "reactor" \in refs
    /\ npc' = "close"
    /\ UNCHANGED <<apc, wpc, spc, refs, listed, buffer, outActive, closing, routed, held, session>>

\* The input is used up.
EndInput ==
    /\ npc = "packet"
    /\ npc' = "loop"
    /\ UNCHANGED <<apc, wpc, spc, refs, listed, buffer, outActive, closing, routed, held, session>>

\* ProcessIncoming: its only test of closing_ comes first.
ProcessIncoming ==
    /\ npc = "packet"
    /\ npc' = IF closing THEN "close" ELSE "process"
    /\ UNCHANGED <<apc, wpc, spc, refs, listed, buffer, outActive, closing, routed, held, session>>

\* CMSG_AUTH_SESSION a second time, or one that is refused.
AuthFails ==
    /\ npc = "process"
    /\ npc' = "close"
    /\ UNCHANGED <<apc, wpc, spc, refs, listed, buffer, outActive, closing, routed, held, session>>

\* HandleAuthSession builds the session, which takes a reference.  The model
\* follows one session per socket: a second CMSG_AUTH_SESSION on a socket whose
\* first session has been detached from it is left out.
AuthSession ==
    /\ npc = "process"
    /\ ~routed
    /\ session = "none"
    /\ session' = "built"
    /\ routed' = TRUE
    /\ refs' = refs \cup {"session"}
    /\ npc' = "auth"
    /\ UNCHANGED <<apc, wpc, spc, listed, buffer, outActive, closing, held>>

\* The world is closed or the realm is another one: nobody owns the session.
AuthRejected ==
    /\ npc = "auth"
    /\ session' = "leaked"
    /\ npc' = "close"
    /\ UNCHANGED <<apc, wpc, spc, refs, listed, buffer, outActive, closing, routed, held>>

\* World::AddSession.
AddSession ==
    /\ npc = "auth"
    /\ session' = "world"
    /\ npc' = "packet"
    /\ UNCHANGED <<apc, wpc, spc, refs, listed, buffer, outActive, closing, routed, held>>

\* Mutant: the session is used without m_SessionLock.
EnterSessionUnlocked ==
    /\ npc = "process"
    /\ routed
    /\ npc' = "using"
    /\ UNCHANGED <<apc, wpc, spc, refs, listed, buffer, outActive, closing, routed, held, session>>

\* CMSG_PING and every other packet for the session: m_SessionLock is taken
\* and m_Session is not NULL.
EnterSession ==
    /\ npc = "process"
    /\ ~held
    /\ routed
    /\ held' = TRUE
    /\ npc' = "using"
    /\ UNCHANGED <<apc, wpc, spc, refs, listed, buffer, outActive, closing, routed, session>>

\* m_Session is NULL.
NoSession ==
    /\ npc = "process"
    /\ ~held
    /\ ~routed
    /\ npc' = "close"
    /\ UNCHANGED <<apc, wpc, spc, refs, listed, buffer, outActive, closing, routed, held, session>>

\* The packet is queued or the latency set; too many pings, or a pong that
\* cannot be sent, end the connection.
LeaveSession(failed) ==
    /\ npc = "using"
    /\ held' = FALSE
    /\ npc' = IF failed THEN "close" ELSE "packet"
    /\ UNCHANGED <<apc, wpc, spc, refs, listed, buffer, outActive, closing, routed, session>>

\* CMSG_KEEP_ALIVE tests m_Session without the lock, ...
KeepAlive ==
    /\ npc = "process"
    /\ npc' = IF routed THEN "alive" ELSE "packet"
    /\ UNCHANGED <<apc, wpc, spc, refs, listed, buffer, outActive, closing, routed, held, session>>

\* ... and then resets the session's timeout.
ResetTimeOutTime ==
    /\ npc = "alive"
    /\ npc' = "packet"
    /\ UNCHANGED <<apc, wpc, spc, refs, listed, buffer, outActive, closing, routed, held, session>>

\* handle_close.
HandleClose ==
    /\ npc = "close"
    /\ closing' = TRUE
    /\ npc' = "unregister"
    /\ UNCHANGED <<apc, wpc, spc, refs, listed, buffer, outActive, routed, held, session>>

Unregister ==
    /\ npc = "unregister"
    /\ ForgetSession
    /\ npc' = "loop"
    /\ refs' = refs \ {"reactor"}
    /\ UNCHANGED <<apc, wpc, spc, listed, buffer, outActive, closing, held, session>>

-----------------------------------------------------------------------------
(* The world thread, in UpdateSessions.                                    *)

\* Mutant: World::Update does not wait for the senders.
BeginSessionsEarly ==
    /\ wpc = "maps"
    /\ wpc' = "sessions"
    /\ UNCHANGED <<apc, npc, spc, refs, listed, buffer, outActive, closing, routed, held, session>>

\* MapUpdater::wait and the lock of the auction listing: no sender is active.
BeginSessions ==
    /\ wpc = "maps"
    /\ \A t \in Senders : spc[t] = "idle"
    /\ wpc' = "sessions"
    /\ UNCHANGED <<apc, npc, spc, refs, listed, buffer, outActive, closing, routed, held, session>>

EndSessions ==
    /\ wpc = "sessions"
    /\ wpc' = "maps"
    /\ UNCHANGED <<apc, npc, spc, refs, listed, buffer, outActive, closing, routed, held, session>>

Attached == session = "world" /\ "session" \in refs

\* KickPlayer, a failed send, or the destructor: CloseSocket.
WorldCloses ==
    /\ wpc = "sessions"
    /\ Attached
    /\ ~closing
    /\ closing' = TRUE
    /\ wpc' = "forget"
    /\ UNCHANGED <<apc, npc, spc, refs, listed, buffer, outActive, routed, held, session>>

WorldForgets ==
    /\ wpc = "forget"
    /\ ForgetSession
    /\ wpc' = "sessions"
    /\ UNCHANGED <<apc, npc, spc, refs, listed, buffer, outActive, closing, held, session>>

\* The session finds its socket closed and gives up its reference: the player
\* stays in the world (HandleSocketClosed) or the session is deleted.
Detach(stays) ==
    /\ wpc = "sessions"
    /\ Attached
    /\ closing
    /\ refs' = refs \ {"session"}
    /\ session' = IF stays THEN "offline" ELSE "deleted"
    /\ UNCHANGED <<apc, npc, wpc, spc, listed, buffer, outActive, closing, routed, held>>

RemoveOffline ==
    /\ wpc = "sessions"
    /\ session = "offline"
    /\ session' = "deleted"
    /\ UNCHANGED <<apc, npc, wpc, spc, refs, listed, buffer, outActive, closing, routed, held>>

-----------------------------------------------------------------------------
(* The senders: WorldSession::SendPacket fails, CloseSocket follows.       *)

SenderCloses(t) ==
    /\ wpc = "maps"
    /\ spc[t] = "idle"
    /\ Attached
    /\ ~closing
    /\ closing' = TRUE
    /\ spc' = [spc EXCEPT ![t] = "forget"]
    /\ UNCHANGED <<apc, npc, wpc, refs, listed, buffer, outActive, routed, held, session>>

SenderForgets(t) ==
    /\ spc[t] = "forget"
    /\ ForgetSession
    /\ spc' = [spc EXCEPT ![t] = "idle"]
    /\ UNCHANGED <<apc, npc, wpc, refs, listed, buffer, outActive, closing, held, session>>

-----------------------------------------------------------------------------
Acceptor == Open \/ Register \/ Opened \/ OpenFails

Svc == AddNewSockets \/ UpdateClosed \/ UpdateSends \/ UpdateFails \/ Drop

Handler ==
    \/ EndInput \/ ProcessIncoming \/ AuthFails \/ AuthSession \/ AuthRejected \/ AddSession
    \/ EnterSession \/ NoSession \/ KeepAlive \/ ResetTimeOutTime
    \/ \E failed \in BOOLEAN : LeaveSession(failed)

Closing == EventWhenClosed \/ HandleClose \/ Unregister

WorldThread ==
    \/ BeginSessions \/ EndSessions \/ WorldCloses \/ WorldForgets \/ RemoveOffline
    \/ \E stays \in BOOLEAN : Detach(stays)

Next ==
    \/ Acceptor
    \/ Svc
    \/ HandleOutput \/ HandleInput \/ EventFails
    \/ Handler
    \/ Closing
    \/ WorldThread
    \/ \E t \in Senders : SenderCloses(t) \/ SenderForgets(t)

Spec == Init /\ [][Next]_vars

\* The threads keep running: an event handler ends, svc visits the socket,
\* the world thread visits the session in each of its ticks and lets go of a
\* closed socket.  The client answers a closed connection by closing its side
\* or by sending, so that the reactor has an event to dispatch.
FairSpec ==
    /\ Spec
    /\ WF_vars(Acceptor)
    /\ WF_vars(AddNewSockets) /\ WF_vars(UpdateClosed) /\ WF_vars(Drop)
    /\ WF_vars(Handler)
    /\ SF_vars(EndInput)
    /\ WF_vars(Closing)
    /\ WF_vars(BeginSessions) /\ WF_vars(WorldForgets)
    /\ SF_vars(\E stays \in BOOLEAN : Detach(stays))
    /\ \A t \in Senders : WF_vars(SenderForgets(t))

-----------------------------------------------------------------------------
(* Properties.                                                             *)

\* Every variable keeps its type.
TypeOK ==
    /\ apc \in {"open", "hooked", "registered", "done"}
    /\ npc \in {"loop", "drop", "packet", "process", "auth", "using", "alive", "close", "unregister"}
    /\ wpc \in {"maps", "sessions", "forget"}
    /\ spc \in [Senders -> {"idle", "forget"}]
    /\ refs \subseteq Holders
    /\ listed \in {"no", "new", "in"}
    /\ buffer \in BOOLEAN
    /\ outActive \in BOOLEAN
    /\ closing \in BOOLEAN
    /\ routed \in BOOLEAN
    /\ held \in BOOLEAN
    /\ session \in Sessions

\* While the network thread works with the session under m_SessionLock, the
\* world thread has not deleted it, although IsClosed is true, and deletion
\* possible, before m_Session is reset.
SessionAliveInUse == npc = "using" => session # "deleted"

\* The socket is there whenever a thread works with it: no thread is inside it
\* once its last reference is gone, and it is not updated before it is set up,
\* when Update goes on to handle_output the buffer is there.
SocketAliveInUse ==
    /\ refs = {} =>
          /\ apc = "done"
          /\ npc = "loop" /\ listed = "no"
          /\ wpc # "forget"
          /\ \A t \in Senders : spc[t] = "idle"
    /\ Updatable => buffer

\* A closed socket is freed, unless its session was leaked: every holder
\* drops its reference.
SocketReleased == closing ~> refs = {} \/ session = "leaked"
=============================================================================
