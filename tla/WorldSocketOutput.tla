-------------------------- MODULE WorldSocketOutput --------------------------
(***************************************************************************)
(* The output of a WorldSocket: the world thread, the map threads and the  *)
(* auction listing thread put packets into one buffer, or into a queue     *)
(* when the buffer is full, and the network thread of the socket sends     *)
(* them when the reactor finds the socket writable or, at most ten         *)
(* milliseconds later, when ReactorRunnable::svc calls Update.             *)
(*                                                                         *)
(* Every critical section of m_OutBufferLock is an action.  The bytes of   *)
(* the stream are numbered in the order SendPacket accepts them; a packet  *)
(* is a run of bytes.  The kernel's send buffer is its free room: send()   *)
(* takes what fits and fails with EWOULDBLOCK when nothing does.           *)
(* The model starts when WorldSocket::open has returned: the challenge,    *)
(* one byte here, is in the buffer and the socket is registered for both   *)
(* events.                                                                 *)
(***************************************************************************)
EXTENDS Naturals, Sequences

CONSTANTS
    Callers,     \* the threads that call WorldSession::SendPacket
    Sizes,       \* the sizes of a packet with its header
    BufferSize,  \* m_OutBufferSize
    QueueLimit,  \* the high water mark of the message queue
    KernelSize,  \* the size of the kernel's send buffer
    MaxBytes     \* bound: the bytes SendPacket accepts

ASSUME SizeAssumption ==
    /\ Sizes \subseteq Nat \ {0}
    /\ {BufferSize, QueueLimit, KernelSize, MaxBytes} \subseteq Nat \ {0}

VARIABLES
    accepted,   \* how many bytes SendPacket has accepted: the stream is 1 .. accepted
    outBuffer,  \* m_OutBuffer
    queue,      \* msg_queue(): messages with their size and what is left of them
    wire,       \* what send() has taken
    room,       \* the free room in the kernel's send buffer
    active,     \* m_OutActive
    wakeup,     \* whether the reactor watches the socket for output
    closed,     \* closing_
    writer,     \* where the network thread is
    sender,     \* where each sender is
    skewed,     \* m_Crypt has encrypted a header that is not in the stream
    lost        \* a message could not be put back and was dropped (history)

outputVars ==
    <<accepted, outBuffer, queue, wire, room, active, wakeup, closed, writer, sender, skewed, lost>>

\* The bytes of the stream that come after the first n.
Run(n, size) == [k \in 1 .. size |-> n + k]

OutputInit ==
    /\ accepted = 1
    /\ outBuffer = <<1>>
    /\ queue = <<>>
    /\ wire = <<>>
    /\ room = KernelSize
    /\ active = TRUE
    /\ wakeup = TRUE
    /\ closed = FALSE
    /\ writer = "loop"
    /\ sender = [t \in Callers |-> "idle"]
    /\ skewed = FALSE
    /\ lost = FALSE

-----------------------------------------------------------------------------
(* The message queue of ACE.                                               *)

\* A message counts with its full size until it is taken off the queue.
Bytes(q) ==
    LET total[n \in 0 .. Len(q)] == IF n = 0 THEN 0 ELSE total[n - 1] + q[n].size
    IN  total[Len(q)]

IsFull(q) == Bytes(q) >= QueueLimit

-----------------------------------------------------------------------------
(* The senders: WorldSession::SendPacket.                                  *)

NextBytes(size) == Run(accepted, size)

\* Mutant: the buffer is used although older packets wait in the queue.
SendPacketOvertaking(t, size) ==
    /\ sender[t] = "idle"
    /\ ~closed
    /\ accepted + size <= MaxBytes
    /\ IF Len(outBuffer) + size <= BufferSize
       THEN outBuffer' = outBuffer \o NextBytes(size) /\ queue' = queue
       ELSE outBuffer' = outBuffer /\ queue' = Append(queue, [size |-> size, data |-> NextBytes(size)])
    /\ accepted' = accepted + size
    /\ UNCHANGED <<wire, room, active, wakeup, closed, writer, sender, skewed, lost>>

\* Mutant: the queue has no high water mark.
SendPacketUnlimited(t, size) ==
    /\ sender[t] = "idle"
    /\ ~closed
    /\ accepted + size <= MaxBytes
    /\ IF Len(outBuffer) + size <= BufferSize /\ queue = <<>>
       THEN outBuffer' = outBuffer \o NextBytes(size) /\ queue' = queue
       ELSE outBuffer' = outBuffer /\ queue' = Append(queue, [size |-> size, data |-> NextBytes(size)])
    /\ accepted' = accepted + size
    /\ UNCHANGED <<wire, room, active, wakeup, closed, writer, sender, skewed, lost>>

\* SendPacket puts the packet into the buffer or the queue.
SendPacket(t, size) ==
    /\ sender[t] = "idle"
    /\ ~closed
    /\ accepted + size <= MaxBytes
    /\ IF Len(outBuffer) + size <= BufferSize /\ queue = <<>>
       THEN outBuffer' = outBuffer \o NextBytes(size) /\ queue' = queue
       ELSE /\ ~IsFull(queue)
            /\ outBuffer' = outBuffer
            /\ queue' = Append(queue, [size |-> size, data |-> NextBytes(size)])
    /\ accepted' = accepted + size
    /\ UNCHANGED <<wire, room, active, wakeup, closed, writer, sender, skewed, lost>>

\* enqueue_tail fails, after the header was encrypted.
SendPacketFails(t) ==
    /\ sender[t] = "idle"
    /\ ~closed
    /\ queue # <<>>
    /\ IsFull(queue)
    /\ skewed' = TRUE
    /\ lost' = lost
    /\ sender' = [sender EXCEPT ![t] = "failed"]
    /\ UNCHANGED <<accepted, outBuffer, queue, wire, room, active, wakeup, closed, writer>>

\* WorldSession::SendPacket closes the socket then.
CloseAfterFailure(t) ==
    /\ sender[t] = "failed"
    /\ closed' = TRUE
    /\ sender' = [sender EXCEPT ![t] = "idle"]
    /\ UNCHANGED <<accepted, outBuffer, queue, wire, room, active, wakeup, writer, skewed, lost>>

\* CloseSocket for any other reason, by any thread.
CloseSocket ==
    /\ ~closed
    /\ closed' = TRUE
    /\ UNCHANGED <<accepted, outBuffer, queue, wire, room, active, wakeup, writer, sender, skewed, lost>>

-----------------------------------------------------------------------------
(* The network thread.                                                     *)

\* handle_output is called by the reactor, by Update, or once more because it
\* returned WRITE_MASK.
OutputCalled ==
    /\ ~closed
    /\ \/ writer = "loop" /\ wakeup /\ room > 0
       \/ writer = "loop" /\ ~active /\ (outBuffer # <<>> \/ queue # <<>>)
       \/ writer = "again"

\* schedule_wakeup_output, up to the release of the lock.
Schedule ==
    /\ active' = TRUE
    /\ writer' = IF active THEN "loop" ELSE "schedule"

\* Mutant: the mark stays when there is nothing left to send.
CancelStillActive ==
    /\ active' = active
    /\ writer' = IF active THEN "cancel" ELSE "loop"

\* cancel_wakeup_output, up to the release of the lock.
Cancel ==
    /\ active' = FALSE
    /\ writer' = IF active THEN "cancel" ELSE "loop"

\* handle_output: not all of the buffer is taken.
SendBufferPart ==
    /\ OutputCalled
    /\ room < Len(outBuffer)
    /\ wire' = wire \o SubSeq(outBuffer, 1, room)
    /\ outBuffer' = SubSeq(outBuffer, room + 1, Len(outBuffer))
    /\ room' = 0
    /\ Schedule
    /\ UNCHANGED <<accepted, queue, wakeup, closed, sender, skewed, lost>>

\* What handle_output_queue finds: the buffer has been sent and reset.
Sent     == wire \o outBuffer
RoomLeft == room - Len(outBuffer)

BufferSent ==
    /\ OutputCalled
    /\ Len(outBuffer) <= room
    /\ outBuffer' = <<>>

SendBuffer ==
    /\ BufferSent
    /\ queue = <<>>
    /\ wire' = Sent
    /\ room' = RoomLeft
    /\ Cancel
    /\ UNCHANGED <<accepted, queue, wakeup, closed, sender, skewed, lost>>

\* A whole message is sent.
SendMessage ==
    /\ BufferSent
    /\ queue # <<>>
    /\ Len(Head(queue).data) <= RoomLeft
    /\ wire' = Sent \o Head(queue).data
    /\ room' = RoomLeft - Len(Head(queue).data)
    /\ queue' = Tail(queue)
    /\ IF Tail(queue) = <<>> THEN Cancel ELSE writer' = "again" /\ active' = active
    /\ UNCHANGED <<accepted, wakeup, closed, sender, skewed, lost>>

\* A part of the message is sent and the rest is put back, which fails when
\* the queue is full without it: the connection is given up.
SendMessagePart ==
    /\ BufferSent
    /\ queue # <<>>
    /\ 0 < RoomLeft /\ RoomLeft < Len(Head(queue).data)
    /\ wire' = Sent \o SubSeq(Head(queue).data, 1, RoomLeft)
    /\ room' = 0
    /\ IF IsFull(Tail(queue))
       THEN queue' = Tail(queue) /\ writer' = "fail" /\ active' = active
       ELSE /\ queue' = <<[Head(queue) EXCEPT !.data = SubSeq(@, RoomLeft + 1, Len(@))]>> \o Tail(queue)
            /\ Schedule
    /\ UNCHANGED <<accepted, wakeup, closed, sender, skewed, lost>>

\* Nothing is sent and the message is put back; that this may fail is ignored.
SendMessageBlocked ==
    /\ BufferSent
    /\ queue # <<>>
    /\ RoomLeft = 0
    /\ wire' = Sent
    /\ room' = 0
    /\ queue' = IF IsFull(Tail(queue)) THEN Tail(queue) ELSE queue
    /\ Schedule
    /\ lost' = (lost \/ IsFull(Tail(queue)))
    /\ UNCHANGED <<accepted, wakeup, closed, sender, skewed>>

\* The reactor is told after the lock was released.
TellReactor ==
    /\ writer \in {"schedule", "cancel"}
    /\ wakeup' = (writer = "schedule")
    /\ writer' = "loop"
    /\ UNCHANGED <<accepted, outBuffer, queue, wire, room, active, closed, sender, skewed, lost>>

\* send() reports an error for the buffer, ...
SendBufferError ==
    /\ OutputCalled
    /\ outBuffer # <<>>
    /\ writer' = "fail"
    /\ UNCHANGED <<accepted, outBuffer, queue, wire, room, active, wakeup, closed, sender, skewed, lost>>

\* ... or for a message, which is released.
SendMessageError ==
    /\ BufferSent
    /\ queue # <<>>
    /\ wire' = Sent
    /\ room' = RoomLeft
    /\ queue' = Tail(queue)
    /\ writer' = "fail"
    /\ UNCHANGED <<accepted, active, wakeup, closed, sender, skewed, lost>>

\* handle_close, or svc's CloseSocket, after the lock was released.
GiveUp ==
    /\ writer = "fail"
    /\ closed' = TRUE
    /\ writer' = "loop"
    /\ UNCHANGED <<accepted, outBuffer, queue, wire, room, active, wakeup, sender, skewed, lost>>

\* The client takes a byte.
ClientReads ==
    /\ room < KernelSize
    /\ room' = room + 1
    /\ UNCHANGED <<accepted, outBuffer, queue, wire, active, wakeup, closed, writer, sender, skewed, lost>>

Closed == closed /\ UNCHANGED outputVars

-----------------------------------------------------------------------------
Output == SendBufferPart \/ SendBuffer \/ SendMessage \/ SendMessagePart \/ SendMessageBlocked

OutputNext ==
    \/ \E t \in Callers, size \in Sizes : SendPacket(t, size)
    \/ \E t \in Callers : SendPacketFails(t) \/ CloseAfterFailure(t)
    \/ CloseSocket
    \/ Output
    \/ TellReactor
    \/ SendBufferError \/ SendMessageError \/ GiveUp
    \/ ClientReads
    \/ Closed

OutputSpec == OutputInit /\ [][OutputNext]_outputVars

\* The network thread keeps calling the reactor and Update, a sender goes on
\* after a failed send, and the client reads.
OutputFairSpec ==
    /\ OutputSpec
    /\ WF_outputVars(Output)
    /\ WF_outputVars(TellReactor)
    /\ WF_outputVars(GiveUp)
    /\ WF_outputVars(ClientReads)
    /\ \A t \in Callers : WF_outputVars(CloseAfterFailure(t))

-----------------------------------------------------------------------------
(* Properties.                                                             *)

\* Every variable keeps its type; a message has something left to send.
OutputTypeOK ==
    /\ accepted \in 1 .. MaxBytes
    /\ outBuffer \in Seq(1 .. MaxBytes)
    /\ \A n \in DOMAIN queue :
          /\ queue[n].size \in Sizes
          /\ Len(queue[n].data) \in 1 .. queue[n].size
    /\ wire \in Seq(1 .. MaxBytes)
    /\ room \in 0 .. KernelSize
    /\ active \in BOOLEAN
    /\ wakeup \in BOOLEAN
    /\ closed \in BOOLEAN
    /\ writer \in {"loop", "again", "schedule", "cancel", "fail"}
    /\ sender \in [Callers -> {"idle", "failed"}]
    /\ skewed \in BOOLEAN
    /\ lost \in BOOLEAN

\* The stream is complete and in order: what was sent, then the buffer, then
\* the queue are exactly the bytes SendPacket accepted, in the order it
\* accepted them, whichever threads sent them and however send() cut them,
\* until the connection is given up or a full queue refuses a message back.
\* And when a header was encrypted in vain, the two ends are out of step for
\* good: the socket is closed, or the sender that failed is about to close it.
InOrder ==
    LET Buffered == Len(wire) + Len(outBuffer)
        UpTo(n) == IF n = 0 THEN Buffered ELSE queue[n].data[Len(queue[n].data)]
    IN  /\ ~closed /\ writer # "fail" /\ ~lost =>
              /\ wire = Run(0, Len(wire))
              /\ outBuffer = Run(Len(wire), Len(outBuffer))
              /\ \A n \in DOMAIN queue : queue[n].data = Run(UpTo(n - 1), Len(queue[n].data))
              /\ UpTo(Len(queue)) = accepted
        /\ skewed => closed \/ \E t \in Callers : sender[t] = "failed"

\* A client that does not read costs no more than the buffer and the queue
\* up to the packet that crosses the high water mark.
BacklogBounded ==
    /\ Len(outBuffer) <= BufferSize
    /\ \A s \in Sizes : (\A r \in Sizes : r <= s) => Bytes(queue) < QueueLimit + s

\* What SendPacket accepted is sent, unless the connection is closed or a full
\* queue refuses a message back: no wakeup is lost between the lock and the
\* reactor.
Delivered ==
    \A n \in 1 .. MaxBytes : accepted >= n ~> Len(wire) >= n \/ closed \/ lost
=============================================================================
