---------------------------- MODULE DatabasePool ----------------------------
(***************************************************************************)
(* A DatabaseWorkerPool: asynchronous operations wait in a queue shared by *)
(* the worker threads, each with a connection of its own, and direct ones  *)
(* run in the caller's thread on a free synchronous connection.            *)
(*                                                                         *)
(* An operation is a single statement (a query with a future included: the *)
(* future is set when the operation ends, well or not) or a transaction,   *)
(* the commands START TRANSACTION, its statements and COMMIT.  Every call  *)
(* of mysql_query or mysql_stmt_execute is a step of its connection; the   *)
(* server executes it, refuses it, aborts it as the victim of a deadlock,  *)
(* or the connection is lost before or after it was executed.  The results *)
(* of START TRANSACTION, ROLLBACK and COMMIT are not looked at.            *)
(*                                                                         *)
(* The server is modelled from how MySQLConnection uses it: a statement    *)
(* outside a transaction takes effect at once, START TRANSACTION commits   *)
(* what is open, a deadlock and the end of a connection roll it back, a    *)
(* command that is refused does nothing, so that a transaction whose       *)
(* COMMIT is refused stays open, and mysql_errno is the code of the        *)
(* connection's last command.                                              *)
(* The model starts when Open has returned.  The pings of KeepAlive, which *)
(* change nothing, and empty transactions, which are not executed, are     *)
(* left out.                                                               *)
(***************************************************************************)
EXTENDS Naturals, Sequences, FiniteSets

CONSTANTS
    Async,         \* the connections of the worker threads
    Sync,          \* the synchronous connections
    Singles,       \* operations of one statement
    Transactions,  \* operations that are a transaction
    Size,          \* the statements of a transaction
    MaxErrors,     \* bound: commands the server refuses or aborts
    MaxLosses,     \* bound: lost connections
    None           \* no operation

Conns == Async \cup Sync
Ops   == Singles \cup Transactions

ASSUME PoolAssumption ==
    /\ IsFiniteSet(Async) /\ IsFiniteSet(Sync)
    /\ Async \cap Sync = {}
    /\ Singles \cap Transactions = {}
    /\ None \notin Ops
    /\ Size \in Nat \ {0}
    /\ MaxErrors \in Nat /\ MaxLosses \in Nat

VARIABLES
    pool,     \* whether the pool is open, closing or closed
    queue,    \* _queue
    running,  \* the workers that are in DatabaseWorker::svc
    op,       \* the operation each connection executes
    at,       \* the command it is at: 0 for ROLLBACK, then 1, 2, ...
    tries,    \* how often the transaction was started again
    link,     \* m_Mysql: a connection that is up or lost, no handle, or closed
    trans,    \* server: the connections with an open transaction
    pend,     \* server: the statements of the open transaction
    db,       \* server: the statements that took effect, in order
    left,     \* server: the connections whose COMMIT or ROLLBACK was refused
              \* and whose transaction is open since then (history)
    outcome,  \* what became of each operation
    issued,   \* the asynchronous operations in the order of Enqueue (history)
    broken,   \* the operations that met a lost connection (history)
    ignored,  \* the commands that failed at the server and whose result nobody
              \* looked at, with their operations (history)
    adopted,  \* the single statements that were executed in a transaction an
              \* earlier operation left open (history)
    errors,   \* how many errors there were
    losses    \* how many connections were lost

callVars   == <<op, at, tries, outcome>>
serverVars == <<trans, pend, db, left>>
poolVars   == <<pool, queue, running, issued>>
envVars    == <<broken, ignored, adopted, errors, losses>>
vars == <<callVars, serverVars, poolVars, envVars, link>>

LoopBreaker == 5

Init ==
    /\ pool = "open"
    /\ queue = <<>>
    /\ running = Async
    /\ op = [c \in Conns |-> None]
    /\ at = [c \in Conns |-> 0]
    /\ tries = [c \in Conns |-> 0]
    /\ link = [c \in Conns |-> "up"]
    /\ trans = {}
    /\ pend = [c \in Conns |-> <<>>]
    /\ db = <<>>
    /\ left = {}
    /\ outcome = [o \in Ops |-> "none"]
    /\ issued = <<>>
    /\ broken = {}
    /\ ignored = {}
    /\ adopted = {}
    /\ errors = 0
    /\ losses = 0

-----------------------------------------------------------------------------
(* Issuing operations.                                                     *)

\* Mutant: the operation overtakes those that wait.
EnqueueFront(o) ==
    /\ pool = "open"
    /\ outcome[o] = "none"
    /\ outcome' = [outcome EXCEPT ![o] = "issued"]
    /\ queue' = <<o>> \o queue
    /\ issued' = Append(issued, o)
    /\ UNCHANGED <<pool, running, op, at, tries, link, serverVars, envVars>>

\* Execute, AsyncQuery, DelayQueryHolder and CommitTransaction.
Enqueue(o) ==
    /\ pool = "open"
    /\ outcome[o] = "none"
    /\ outcome' = [outcome EXCEPT ![o] = "issued"]
    /\ queue' = Append(queue, o)
    /\ issued' = Append(issued, o)
    /\ UNCHANGED <<pool, running, op, at, tries, link, serverVars, envVars>>

\* Mutant: the statements are sent without START TRANSACTION.
StartWithoutBegin(c, o) ==
    /\ op' = [op EXCEPT ![c] = o]
    /\ at' = [at EXCEPT ![c] = IF o \in Transactions THEN 2 ELSE 1]
    /\ tries' = [tries EXCEPT ![c] = 0]

\* A connection gets an operation and is at its first command.
Start(c, o) ==
    /\ op' = [op EXCEPT ![c] = o]
    /\ at' = [at EXCEPT ![c] = 1]
    /\ tries' = [tries EXCEPT ![c] = 0]

\* DirectExecute, Query and DirectCommitTransaction: the caller locks a free
\* connection (GetFreeConnection) and executes the operation itself.
Direct(c, o) ==
    /\ pool = "open"
    /\ c \in Sync
    /\ op[c] = None
    /\ outcome[o] = "none"
    /\ outcome' = [outcome EXCEPT ![o] = "issued"]
    /\ Start(c, o)
    /\ UNCHANGED <<poolVars, link, serverVars, envVars>>

\* Mutant: a worker whose connection is gone takes nothing any more.
DequeueConnected(c) ==
    /\ pool = "open"
    /\ c \in running
    /\ op[c] = None
    /\ link[c] = "up"
    /\ queue # <<>>
    /\ Start(c, Head(queue))
    /\ queue' = Tail(queue)
    /\ UNCHANGED <<pool, running, issued, outcome, link, serverVars, envVars>>

\* DatabaseWorker::svc takes the next operation.
Dequeue(c) ==
    /\ pool = "open"
    /\ c \in running
    /\ op[c] = None
    /\ queue # <<>>
    /\ Start(c, Head(queue))
    /\ queue' = Tail(queue)
    /\ UNCHANGED <<pool, running, issued, outcome, link, serverVars, envVars>>

-----------------------------------------------------------------------------
(* The commands of an operation.                                           *)

\* The last command of an operation.
LastAt(o) == IF o \in Transactions THEN Size + 2 ELSE 1

Command(c) ==
    CASE at[c] = 0                                            -> "ROLLBACK"
      [] op[c] \in Transactions /\ at[c] = 1                  -> "START TRANSACTION"
      [] op[c] \in Transactions /\ at[c] = LastAt(op[c])      -> "COMMIT"
      [] OTHER                                                -> "statement"

\* The statement a connection is at, as it appears in the database.
Statement(c) == <<op[c], IF op[c] \in Transactions THEN at[c] - 1 ELSE 1>>

\* The server executes the command.
TakesEffect(c) ==
    IF Command(c) \in {"START TRANSACTION", "COMMIT"} THEN pend[c]
    ELSE IF Command(c) = "statement" /\ c \notin trans THEN <<Statement(c)>>
    ELSE <<>>

ServerExecutes(c) ==
    /\ db' = db \o TakesEffect(c)
    /\ pend' = [pend EXCEPT ![c] =
                   IF Command(c) = "statement" /\ c \in trans THEN Append(@, Statement(c)) ELSE <<>>]
    /\ trans' = IF Command(c) = "START TRANSACTION" THEN trans \cup {c}
                ELSE IF Command(c) = "statement" THEN trans ELSE trans \ {c}
    /\ left' = IF Command(c) = "statement" THEN left ELSE left \ {c}

\* The server rolls back what is open.
ServerRollsBack(c) ==
    /\ pend' = [pend EXCEPT ![c] = <<>>]
    /\ trans' = trans \ {c}
    /\ left' = left \ {c}

-----------------------------------------------------------------------------
(* MySQLConnection::Execute returns to ExecuteTransaction or to the task.  *)

\* The operation ends; ok is what Execute or ExecuteTransaction returned.
Finish(c, ok) ==
    /\ outcome' = [outcome EXCEPT ![op[c]] = IF ok THEN "done" ELSE "failed"]
    /\ op' = [op EXCEPT ![c] = None]
    /\ at' = [at EXCEPT ![c] = 0]
    /\ tries' = [tries EXCEPT ![c] = 0]

GoesTo(c, k) ==
    /\ at' = [at EXCEPT ![c] = k]
    /\ UNCHANGED <<op, tries, outcome>>

\* TransactionTask::Execute and DirectCommitTransaction start a transaction
\* again that failed: errno is GetLastError after the ROLLBACK.
AfterRollback(c, errno) ==
    IF IF tries[c] = 0 THEN errno = "deadlock" ELSE tries[c] < LoopBreaker
    THEN /\ at' = [at EXCEPT ![c] = 1]
         /\ tries' = [tries EXCEPT ![c] = @ + 1]
         /\ UNCHANGED <<op, outcome>>
    ELSE Finish(c, FALSE)

\* Mutant: a transaction whose statement fails is left without ROLLBACK.
ReturnsWithoutRollback(c, ok, errno) ==
    IF Command(c) = "ROLLBACK" THEN AfterRollback(c, errno)
    ELSE IF Command(c) = "statement" /\ ~ok THEN Finish(c, FALSE)
    ELSE IF at[c] = LastAt(op[c]) THEN Finish(c, TRUE)
    ELSE GoesTo(c, at[c] + 1)

\* The results of START TRANSACTION, ROLLBACK and COMMIT are not looked at; a
\* statement that fails ends its operation or sends it to ROLLBACK.
Returns(c, ok, errno) ==
    IF Command(c) = "ROLLBACK" THEN AfterRollback(c, errno)
    ELSE IF Command(c) = "statement" /\ ~ok
         THEN IF op[c] \in Transactions THEN GoesTo(c, 0) ELSE Finish(c, FALSE)
    ELSE IF at[c] = LastAt(op[c]) THEN Finish(c, TRUE)
    ELSE GoesTo(c, at[c] + 1)

-----------------------------------------------------------------------------
(* MySQLConnection::Execute.                                               *)

Execute(c) ==
    /\ op[c] # None
    /\ link[c] = "up"
    /\ ServerExecutes(c)
    /\ adopted' = IF op[c] \in Singles /\ c \in trans THEN adopted \cup {op[c]} ELSE adopted
    /\ Returns(c, TRUE, "none")
    /\ UNCHANGED <<poolVars, link, broken, ignored, errors, losses>>

\* BeginTransaction, RollbackTransaction and CommitTransaction return nothing.
IgnoredAfter(c) ==
    IF Command(c) = "statement" THEN ignored ELSE ignored \cup {<<op[c], Command(c)>>}

\* The server refuses the command and _HandleMySQLErrno skips it.  (For the
\* errors of an outdated schema it ends the process, which is left out.)
ExecuteRefused(c) ==
    /\ op[c] # None
    /\ link[c] = "up"
    /\ errors < MaxErrors
    /\ errors' = errors + 1
    /\ ignored' = IgnoredAfter(c)
    /\ left' = IF Command(c) \in {"COMMIT", "ROLLBACK"} /\ c \in trans THEN left \cup {c} ELSE left
    /\ Returns(c, FALSE, "refused")
    /\ UNCHANGED <<poolVars, link, trans, pend, db, broken, adopted, losses>>

\* The command is the victim of a deadlock: ER_LOCK_DEADLOCK.  (ROLLBACK waits
\* for nothing.)
ExecuteDeadlock(c) ==
    /\ op[c] # None
    /\ link[c] = "up"
    /\ Command(c) # "ROLLBACK"
    /\ errors < MaxErrors
    /\ errors' = errors + 1
    /\ ignored' = IgnoredAfter(c)
    /\ ServerRollsBack(c)
    /\ Returns(c, FALSE, "deadlock")
    /\ UNCHANGED <<poolVars, link, db, broken, adopted, losses>>

\* The connection is lost, before or after the command was executed.
ConnectionLost(c, executed) ==
    /\ op[c] # None
    /\ link[c] = "up"
    /\ losses < MaxLosses
    /\ losses' = losses + 1
    /\ broken' = broken \cup {op[c]}
    /\ link' = [link EXCEPT ![c] = "lost"]
    /\ db' = IF executed THEN db \o TakesEffect(c) ELSE db
    /\ ServerRollsBack(c)
    /\ UNCHANGED <<callVars, poolVars, ignored, adopted, errors>>

\* _HandleMySQLErrno: Open succeeds, and the command is executed again.
Reconnect(c) ==
    /\ link[c] = "lost"
    /\ link' = [link EXCEPT ![c] = "up"]
    /\ UNCHANGED <<callVars, poolVars, serverVars, envVars>>

\* Open gives up after its attempts and leaves m_Mysql NULL.
ReconnectFails(c) ==
    /\ link[c] = "lost"
    /\ link' = [link EXCEPT ![c] = "null"]
    /\ Returns(c, FALSE, "none")
    /\ UNCHANGED <<poolVars, serverVars, envVars>>

\* Without a handle Execute fails at once.
ExecuteWithoutHandle(c) ==
    /\ op[c] # None
    /\ link[c] = "null"
    /\ Returns(c, FALSE, "none")
    /\ UNCHANGED <<poolVars, link, serverVars, envVars>>

-----------------------------------------------------------------------------
(* DatabaseWorkerPool::Close, when the threads of the core have exited.    *)

\* The queue is deactivated, and what it still holds is freed.
Close ==
    /\ pool = "open"
    /\ \A c \in Sync : op[c] = None
    /\ pool' = "closing"
    /\ queue' = <<>>
    /\ outcome' = [o \in Ops |-> IF \E n \in DOMAIN queue : queue[n] = o THEN "dropped" ELSE outcome[o]]
    /\ UNCHANGED <<running, issued, op, at, tries, link, serverVars, envVars>>

\* dequeue fails, and the worker leaves svc.
Exit(c) ==
    /\ pool = "closing"
    /\ c \in running
    /\ op[c] = None
    /\ running' = running \ {c}
    /\ UNCHANGED <<pool, queue, issued, callVars, link, serverVars, envVars>>

\* Mutant: Close does not wait for the worker.
CloseAsyncEarly(c) ==
    /\ pool = "closing"
    /\ c \in Async
    /\ link[c] # "closed"
    /\ link' = [link EXCEPT ![c] = "closed"]
    /\ ServerRollsBack(c)
    /\ UNCHANGED <<callVars, poolVars, db, envVars>>

\* worker->wait(), then the connection is deleted, and the server rolls back
\* what is open on it.
CloseAsync(c) ==
    /\ pool = "closing"
    /\ c \in Async \ running
    /\ link[c] # "closed"
    /\ link' = [link EXCEPT ![c] = "closed"]
    /\ ServerRollsBack(c)
    /\ UNCHANGED <<callVars, poolVars, db, envVars>>

CloseSync ==
    /\ pool = "closing"
    /\ \A c \in Async : link[c] = "closed"
    /\ pool' = "closed"
    /\ link' = [c \in Conns |-> "closed"]
    /\ pend' = [c \in Conns |-> <<>>]
    /\ trans' = {}
    /\ left' = {}
    /\ UNCHANGED <<queue, running, issued, callVars, db, envVars>>

Terminating == pool = "closed" /\ UNCHANGED vars

-----------------------------------------------------------------------------
\* A connection that executes an operation goes on.
Step(c) ==
    \/ Execute(c)
    \/ ExecuteWithoutHandle(c)
    \/ Reconnect(c)

Fault(c) ==
    \/ ExecuteRefused(c)
    \/ ExecuteDeadlock(c)
    \/ \E executed \in BOOLEAN : ConnectionLost(c, executed)
    \/ ReconnectFails(c)

Next ==
    \/ \E o \in Ops : Enqueue(o)
    \/ \E c \in Sync, o \in Ops : Direct(c, o)
    \/ \E c \in Async : Dequeue(c) \/ Exit(c) \/ CloseAsync(c)
    \/ \E c \in Conns : Step(c) \/ Fault(c)
    \/ Close
    \/ CloseSync
    \/ Terminating

Spec == Init /\ [][Next]_vars

\* Workers, callers and Close keep going; a lost connection comes back or Open
\* gives up.  Nothing forces an operation to be issued or the pool to close.
FairSpec ==
    /\ Spec
    /\ \A c \in Conns : WF_vars(Step(c) \/ ReconnectFails(c))
    /\ \A c \in Async : WF_vars(Dequeue(c)) /\ WF_vars(Exit(c)) /\ WF_vars(CloseAsync(c))
    /\ WF_vars(CloseSync)

-----------------------------------------------------------------------------
(* Properties.                                                             *)

\* Every variable keeps its type.
TypeOK ==
    /\ pool \in {"open", "closing", "closed"}
    /\ queue \in Seq(Ops)
    /\ running \subseteq Async
    /\ op \in [Conns -> Ops \cup {None}]
    /\ at \in [Conns -> 0 .. Size + 2]
    /\ tries \in [Conns -> 0 .. LoopBreaker]
    /\ link \in [Conns -> {"up", "lost", "null", "closed"}]
    /\ trans \subseteq Conns
    /\ pend \in [Conns -> Seq(Ops \X Nat)]
    /\ db \in Seq(Ops \X Nat)
    /\ left \subseteq Conns
    /\ outcome \in [Ops -> {"none", "issued", "done", "failed", "dropped"}]
    /\ issued \in Seq(Ops)
    /\ broken \subseteq Ops
    /\ ignored \subseteq Ops \X {"START TRANSACTION", "ROLLBACK", "COMMIT"}
    /\ adopted \subseteq Singles
    /\ errors \in 0 .. MaxErrors
    /\ losses \in 0 .. MaxLosses

\* The statements of an operation stand in the database one after the other,
\* with nothing between them, and nowhere else.
TookEffect(o) ==
    LET size == IF o \in Transactions THEN Size ELSE 1 IN
    \E n \in 0 .. Len(db) :
        /\ n + size <= Len(db)
        /\ \A k \in 1 .. size : db[n + k] = <<o, k>>
        /\ \A j \in DOMAIN db : db[j][1] = o => j \in n + 1 .. n + size

NoEffect(o) == \A j \in DOMAIN db : db[j][1] # o

\* The operations whose commands mean what ExecuteTransaction takes them to
\* mean: the connection held, the server executed START TRANSACTION and
\* ROLLBACK, and a single statement ran outside a transaction.
Framed(o) ==
    /\ o \notin broken
    /\ o \notin adopted
    /\ <<o, "START TRANSACTION">> \notin ignored
    /\ <<o, "ROLLBACK">> \notin ignored

\* Such an operation takes effect as a whole, once, in the order of its
\* statements and with none of another operation between them, or not at all;
\* it does only when success is returned for it, and always then, unless its
\* COMMIT failed, which is reported as success too.  A transaction is never
\* half in the database, whatever its statements met.  And a single statement
\* for which success was returned took effect, even when its connection was
\* lost and the statement repeated on another, unless it ran in a transaction
\* that an earlier operation left open.
AllOrNothing ==
    /\ \A o \in Ops : Framed(o) =>
          \/ TookEffect(o) /\ outcome[o] = "done"
          \/ NoEffect(o) /\ (outcome[o] = "done" => <<o, "COMMIT">> \in ignored)
    /\ \A o \in Singles \ adopted : outcome[o] = "done" => ~NoEffect(o)

\* With one worker the asynchronous operations take effect in the order they
\* were issued, through errors and reconnections.
IssueOrder ==
    Cardinality(Async) = 1 =>
        \A m, n \in DOMAIN issued : m < n =>
            \A j, k \in DOMAIN db : db[j][1] = issued[n] /\ db[k][1] = issued[m] => k < j

\* A connection between two operations has no open transaction, which the next
\* START TRANSACTION would commit, unless the server refused to end it.
NoOpenTransaction ==
    \A c \in Conns : op[c] = None /\ c \notin left => c \notin trans /\ pend[c] = <<>>

\* A connection is deleted only when nobody uses it any more.
ConnectionAliveInUse == \A c \in Conns : link[c] = "closed" => op[c] = None /\ c \notin running

\* Every operation that was issued comes to an end, and a future is answered,
\* unless the pool is closed over it.
OperationsEnd == \A o \in Ops : outcome[o] = "issued" ~> outcome[o] \in {"done", "failed", "dropped"}
=============================================================================
