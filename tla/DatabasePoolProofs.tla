-------------------------- MODULE DatabasePoolProofs --------------------------
(***************************************************************************)
(* Theorems about DatabasePool, for any number of connections, operations  *)
(* and statements: no transaction is left open between two operations      *)
(* unless the server refused to end it, no connection is deleted while     *)
(* somebody uses it, an operation takes effect as a whole or not at all,   *)
(* and a single worker keeps the order the operations were issued in.      *)
(***************************************************************************)
EXTENDS DatabasePool, FiniteSetTheorems, SequenceTheorems, TLAPS

-----------------------------------------------------------------------------
(* The inductive invariant.                                                *)

\* A single statement has one command, which is never ROLLBACK.
SingleCommand == \A c \in Conns : op[c] \in Singles => at[c] = 1

\* A transaction is open only on a connection that is up and past the START
\* TRANSACTION of its operation, or whose last COMMIT or ROLLBACK was refused,
\* and only an open one has statements.
OpenTransactions ==
    \A c \in Conns :
        /\ c \in trans => link[c] = "up" /\ (c \in left \/ (op[c] \in Transactions /\ at[c] # 1))
        /\ c \notin trans => c \notin left /\ pend[c] = <<>>

\* Only a worker that is in svc executes on an asynchronous connection, and
\* nobody on a synchronous one once Close was called.
Users ==
    /\ \A c \in Async : op[c] # None => c \in running
    /\ pool # "open" => \A c \in Sync : op[c] = None

\* Connections are deleted by Close alone, those of the workers first.
Deleted ==
    \A c \in Conns : link[c] = "closed" =>
        /\ pool # "open"
        /\ c \in Async => c \notin running
        /\ c \in Sync => pool = "closed"

\* A connection that broke is in the middle of an operation.
LostInUse == \A c \in Conns : link[c] = "lost" => op[c] # None

\* Nothing is left to do when the pool is closed.
ClosedPool == pool = "closed" => \A c \in Conns : link[c] = "closed"

IInv ==
    /\ TypeOK
    /\ SingleCommand
    /\ OpenTransactions
    /\ Users
    /\ Deleted
    /\ LostInUse
    /\ ClosedPool

-----------------------------------------------------------------------------
(* What the operations leave in the database.                              *)

\* An operation that waits or is executed is issued and does so in one place.
OnePlace ==
    /\ \A c \in Conns : op[c] # None => outcome[op[c]] = "issued"
    /\ \A c, d \in Conns : op[c] = op[d] /\ op[c] # None => c = d
    /\ \A n \in DOMAIN queue : outcome[queue[n]] = "issued" /\ \A c \in Conns : op[c] # queue[n]
    /\ \A m, n \in DOMAIN queue : queue[m] = queue[n] => m = n

\* No statement of an operation is in a sequence, or they are the first of it,
\* all of them and in order, and nowhere else.
Absent(s, o) == \A j \in DOMAIN s : s[j][1] # o

Block(s, o) ==
    LET size == IF o \in Transactions THEN Size ELSE 1 IN
    /\ size <= Len(s)
    /\ \A k \in 1 .. size : s[k] = <<o, k>>
    /\ \A j \in DOMAIN s : s[j][1] = o => j \in 1 .. size

\* A transaction whose COMMIT was refused and that is open since then.
WholeAtFront(c, o) ==
    /\ o \in Transactions
    /\ outcome[o] = "done"
    /\ <<o, "COMMIT">> \in ignored
    /\ NoEffect(o)
    /\ Block(pend[c], o)

\* What waits on a connection belongs to the transaction it executes, to one
\* whose COMMIT was refused, as a whole, or to an operation without a frame.
PendingAt(c, o) ==
    \/ o = op[c] /\ o \in Transactions /\ at[c] # 1
    \/ ~Framed(o)
    \/ WholeAtFront(c, o)

Pending == \A c \in Conns : \A j \in DOMAIN pend[c] : PendingAt(c, pend[c][j][1])

\* No operation that kept its frame waits on two connections.
PendApart ==
    \A c, d \in Conns : \A j \in DOMAIN pend[c], k \in DOMAIN pend[d] :
        pend[c][j][1] = pend[d][k][1] /\ Framed(pend[c][j][1]) => c = d

\* A transaction that kept its frame is as far on the server as in
\* ExecuteTransaction, alone; without a handle it does not get past its first
\* statement.
Progress ==
    /\ \A c \in Conns : link[c] = "lost" => op[c] \in broken
    /\ \A c \in Conns : op[c] \in Transactions /\ Framed(op[c]) =>
          /\ link[c] = "up" /\ at[c] >= 2 =>
                c \in trans /\ Len(pend[c]) = at[c] - 2 /\ \A j \in DOMAIN pend[c] : pend[c][j] = <<op[c], j>>
          /\ link[c] = "null" => at[c] <= 2

EffectInv == OnePlace /\ Pending /\ PendApart /\ Progress /\ AllOrNothing

-----------------------------------------------------------------------------
(* The order of the asynchronous operations.                               *)

\* They are issued once, and what is in the database or pending has been issued.
IssuedOnce ==
    /\ \A n \in DOMAIN issued : outcome[issued[n]] # "none"
    /\ \A m, n \in DOMAIN issued : issued[m] = issued[n] => m = n
    /\ \A j \in DOMAIN db : outcome[db[j][1]] # "none"
    /\ \A c \in Conns : \A j \in DOMAIN pend[c] : outcome[pend[c][j][1]] # "none"

\* Until they end they wait, in the order they were issued in, or a worker
\* executes them; the synchronous connections have nothing of them.
WaitInOrder ==
    /\ \A c \in Sync : op[c] # None => \A n \in DOMAIN issued : issued[n] # op[c]
    /\ \A c \in Sync : \A n \in DOMAIN issued : Absent(pend[c], issued[n])
    /\ \A n \in DOMAIN issued : outcome[issued[n]] = "issued" =>
          (\E q \in DOMAIN queue : queue[q] = issued[n]) \/ (\E c \in Async : op[c] = issued[n])
    /\ \A m, n \in DOMAIN issued : \A p, q \in DOMAIN queue :
          m < n /\ queue[p] = issued[m] /\ queue[q] = issued[n] => p < q

\* An operation was begun by a worker: it is executed, pending or in the
\* database.
Begun(o) ==
    \/ \E c \in Async : op[c] = o \/ ~Absent(pend[c], o)
    \/ ~NoEffect(o)

\* A single worker begins an operation when those issued before it have ended.
OneAtATime ==
    Cardinality(Async) = 1 =>
        \A m, n \in DOMAIN issued :
            m < n /\ Begun(issued[n]) => outcome[issued[m]] \in {"done", "failed", "dropped"}

\* What is pending of an operation comes before what the later ones added.
PendInOrder ==
    Cardinality(Async) = 1 =>
        \A m, n \in DOMAIN issued, c \in Async : \A k \in DOMAIN pend[c] :
            m < n /\ pend[c][k][1] = issued[m] =>
                /\ NoEffect(issued[n])
                /\ \A j \in DOMAIN pend[c] : pend[c][j][1] = issued[n] => k < j

OrderInv == IssuedOnce /\ WaitInOrder /\ OneAtATime /\ PendInOrder /\ IssueOrder

-----------------------------------------------------------------------------
(* The parts of a step.                                                    *)

\* Command tells the five cases of a connection apart.
LEMMA CommandCases ==
    ASSUME TypeOK, SingleCommand, NEW c \in Conns, op[c] # None
    PROVE  /\ op[c] \in Ops
           /\ at[c] = 0 <=> Command(c) = "ROLLBACK"
           /\ Command(c) = "START TRANSACTION" <=> op[c] \in Transactions /\ at[c] = 1
           /\ Command(c) = "COMMIT" <=> op[c] \in Transactions /\ at[c] = Size + 2
           /\ Command(c) \in {"ROLLBACK", "START TRANSACTION", "COMMIT", "statement"}
           /\ at[c] = LastAt(op[c]) <=>
                 op[c] \in Singles \/ (op[c] \in Transactions /\ at[c] = Size + 2)
           /\ op[c] \in Transactions /\ Command(c) = "statement" => at[c] \in 2 .. Size + 1
<1> USE PoolAssumption
<1>1. op[c] \in Ops BY DEF TypeOK
<1>2. at[c] \in 0 .. Size + 2 BY DEF TypeOK
<1>3. op[c] \in Singles \/ op[c] \in Transactions BY <1>1 DEF Ops
<1>4. CASE op[c] \in Singles
  <2>1. op[c] \notin Transactions /\ at[c] = 1 BY <1>4 DEF SingleCommand
  <2> QED BY <2>1, <1>1, <1>4 DEF Command, LastAt
<1>5. CASE op[c] \in Transactions
  <2>1. op[c] \notin Singles /\ LastAt(op[c]) = Size + 2 BY <1>5 DEF LastAt
  <2> QED BY <2>1, <1>1, <1>2, <1>5 DEF Command
<1> QED BY <1>3, <1>4, <1>5

\* The state of a call that ended.
LEMMA FinishStep ==
    ASSUME TypeOK, NEW c \in Conns, op[c] # None, NEW ok, Finish(c, ok)
    PROVE  /\ op' = [op EXCEPT ![c] = None] /\ op' \in [Conns -> Ops \cup {None}]
           /\ at' = [at EXCEPT ![c] = 0] /\ at' \in [Conns -> 0 .. Size + 2]
           /\ tries' \in [Conns -> 0 .. LoopBreaker]
           /\ outcome' \in [Ops -> {"none", "issued", "done", "failed", "dropped"}]
<1> USE PoolAssumption
<1>1. /\ op \in [Conns -> Ops \cup {None}] /\ at \in [Conns -> 0 .. Size + 2]
      /\ tries \in [Conns -> 0 .. LoopBreaker]
      /\ outcome \in [Ops -> {"none", "issued", "done", "failed", "dropped"}]
  BY DEF TypeOK
<1>2. outcome' \in [Ops -> {"none", "issued", "done", "failed", "dropped"}] BY <1>1 DEF Finish
<1>3. tries' \in [Conns -> 0 .. LoopBreaker] BY <1>1 DEF Finish, LoopBreaker
<1>4. at' \in [Conns -> 0 .. Size + 2] BY <1>1 DEF Finish
<1>5. op' \in [Conns -> Ops \cup {None}] BY <1>1 DEF Finish
<1> QED BY <1>2, <1>3, <1>4, <1>5 DEF Finish

\* The state of a call that goes to another command.
LEMMA GoesToStep ==
    ASSUME TypeOK, NEW c \in Conns, NEW k \in 0 .. Size + 2, GoesTo(c, k)
    PROVE  /\ op' = op /\ op' \in [Conns -> Ops \cup {None}]
           /\ at' = [at EXCEPT ![c] = k] /\ at' \in [Conns -> 0 .. Size + 2]
           /\ tries' \in [Conns -> 0 .. LoopBreaker]
           /\ outcome' \in [Ops -> {"none", "issued", "done", "failed", "dropped"}]
BY PoolAssumption DEF TypeOK, GoesTo

\* Whatever Returns does, the operation goes on at another of its commands or
\* ends; after START TRANSACTION and after a statement of a transaction it
\* goes on, to ROLLBACK if the statement failed.
LEMMA ReturnsStep ==
    ASSUME TypeOK, SingleCommand, NEW c \in Conns, op[c] # None,
           NEW ok \in BOOLEAN, NEW errno, Returns(c, ok, errno)
    PROVE  /\ op' \in [Conns -> Ops \cup {None}]
           /\ at' \in [Conns -> 0 .. Size + 2]
           /\ tries' \in [Conns -> 0 .. LoopBreaker]
           /\ outcome' \in [Ops -> {"none", "issued", "done", "failed", "dropped"}]
           /\ \/ op' = [op EXCEPT ![c] = None] /\ at' = [at EXCEPT ![c] = 0]
                 /\ ~(op[c] \in Transactions /\ Command(c) \in {"START TRANSACTION", "statement"})
              \/ \E k \in 0 .. Size + 2 :
                    /\ op' = op /\ at' = [at EXCEPT ![c] = k]
                    /\ op[c] \in Transactions
                    /\ k = 1 => Command(c) = "ROLLBACK"
<1> USE PoolAssumption
<1>1. op[c] \in Ops /\ tries[c] \in 0 .. LoopBreaker BY DEF TypeOK
<1>2. CASE Command(c) = "ROLLBACK"
  <2>1. AfterRollback(c, errno) BY <1>2 DEF Returns
  <2>2. at[c] = 0 BY <1>2, CommandCases
  <2>3. op[c] \in Transactions BY <1>1, <2>2 DEF SingleCommand, Ops
  <2>4. CASE Finish(c, FALSE)
    BY <1>2, <2>4, FinishStep
  <2>5. CASE ~Finish(c, FALSE)
    <3>1. /\ at' = [at EXCEPT ![c] = 1]
          /\ tries' = [tries EXCEPT ![c] = @ + 1]
          /\ op' = op /\ outcome' = outcome
          /\ tries[c] = 0 \/ tries[c] < LoopBreaker
      BY <2>1, <2>5 DEF AfterRollback
    <3>2. tries[c] + 1 \in 0 .. LoopBreaker BY <1>1, <3>1 DEF LoopBreaker
    <3>3. tries' \in [Conns -> 0 .. LoopBreaker] BY <3>1, <3>2 DEF TypeOK
    <3>4. 1 \in 0 .. Size + 2 OBVIOUS
    <3> QED BY <1>2, <2>3, <3>1, <3>3, <3>4 DEF TypeOK
  <2> QED BY <2>4, <2>5
<1>3. CASE Command(c) = "statement" /\ op[c] \in Transactions /\ ~ok
  <2>1. GoesTo(c, 0) BY <1>3 DEF Returns
  <2>2. 0 \in 0 .. Size + 2 OBVIOUS
  <2> QED BY <1>3, <2>1, <2>2, GoesToStep
<1>4. CASE \/ Command(c) = "statement" /\ op[c] \in Transactions /\ ok
          \/ Command(c) = "START TRANSACTION"
  <2>1. op[c] \in Transactions /\ at[c] \in 1 .. Size + 1
    <3>1. CASE Command(c) = "START TRANSACTION"
      <4>1. op[c] \in Transactions /\ at[c] = 1 BY <3>1, CommandCases
      <4> QED BY <4>1
    <3>2. CASE Command(c) = "statement" /\ op[c] \in Transactions
      <4>1. at[c] \in 2 .. Size + 1 BY <3>2, CommandCases
      <4> QED BY <3>2, <4>1
    <3> QED BY <3>1, <3>2, <1>4
  <2>2. at[c] # LastAt(op[c]) BY <2>1 DEF LastAt
  <2>3. GoesTo(c, at[c] + 1) BY <1>4, <2>2 DEF Returns
  <2>4. at[c] + 1 \in 0 .. Size + 2 /\ at[c] + 1 # 1 BY <2>1
  <2> QED BY <2>1, <2>3, <2>4, GoesToStep
<1>5. CASE Command(c) = "statement" /\ op[c] \notin Transactions
  <2>1. op[c] \in Singles BY <1>1, <1>5 DEF Ops
  <2>2. at[c] = LastAt(op[c]) BY <2>1, CommandCases
  <2>3. Finish(c, TRUE) \/ Finish(c, FALSE) BY <1>5, <2>2 DEF Returns
  <2> QED BY <1>5, <2>3, FinishStep
<1>6. CASE Command(c) = "COMMIT"
  <2>1. at[c] = LastAt(op[c]) BY <1>6, CommandCases
  <2>2. Finish(c, TRUE) BY <1>6, <2>1 DEF Returns
  <2> QED BY <1>6, <2>2, FinishStep
<1> QED BY <1>2, <1>3, <1>4, <1>5, <1>6, CommandCases

-----------------------------------------------------------------------------
(* The invariant is inductive.                                             *)

\* A step in which a connection executes a command keeps the invariant, if the
\* server has a transaction open afterwards only in the middle of one.
LEMMA CallStep ==
    ASSUME IInv, NEW c \in Conns, op[c] # None, link[c] # "closed",
           NEW ok \in BOOLEAN, NEW errno, Returns(c, ok, errno),
           link' \in [Conns -> {"up", "lost", "null", "closed"}],
           \A d \in Conns \ {c} : link'[d] = link[d],
           link'[c] \in {"up", "null"},
           UNCHANGED poolVars,
           trans' \subseteq Conns,
           pend' \in [Conns -> Seq(Ops \X Nat)],
           \A d \in Conns \ {c} : (d \in trans' <=> d \in trans) /\ pend'[d] = pend[d],
           left' \subseteq Conns,
           \A d \in Conns \ {c} : d \in left' <=> d \in left,
           c \in trans' => /\ link'[c] = "up"
                           /\ c \in left' \/ (/\ op[c] \in Transactions
                                              /\ Command(c) \in {"START TRANSACTION", "statement"}),
           c \notin trans' => c \notin left' /\ pend'[c] = <<>>
    PROVE  /\ op' \in [Conns -> Ops \cup {None}]
           /\ at' \in [Conns -> 0 .. Size + 2]
           /\ tries' \in [Conns -> 0 .. LoopBreaker]
           /\ outcome' \in [Ops -> {"none", "issued", "done", "failed", "dropped"}]
           /\ SingleCommand' /\ OpenTransactions' /\ Users' /\ Deleted' /\ LostInUse' /\ ClosedPool'
<1> USE PoolAssumption
<1>1. /\ op' \in [Conns -> Ops \cup {None}]
      /\ at' \in [Conns -> 0 .. Size + 2]
      /\ tries' \in [Conns -> 0 .. LoopBreaker]
      /\ outcome' \in [Ops -> {"none", "issued", "done", "failed", "dropped"}]
  BY ReturnsStep DEF IInv
<1>2. /\ \A d \in Conns \ {c} : op'[d] = op[d] /\ at'[d] = at[d]
      /\ op'[c] \in {op[c], None}
      /\ op'[c] # None => op[c] \in Transactions
      /\ op[c] \in Transactions /\ Command(c) \in {"START TRANSACTION", "statement"} =>
            op'[c] = op[c] /\ at'[c] # 1
  <2>1. op \in [Conns -> Ops \cup {None}] /\ at \in [Conns -> 0 .. Size + 2] BY DEF IInv, TypeOK
  <2>2. CASE /\ op' = [op EXCEPT ![c] = None] /\ at' = [at EXCEPT ![c] = 0]
             /\ ~(op[c] \in Transactions /\ Command(c) \in {"START TRANSACTION", "statement"})
    BY <2>1, <2>2
  <2>3. ASSUME NEW k \in 0 .. Size + 2, op' = op, at' = [at EXCEPT ![c] = k],
               op[c] \in Transactions, k = 1 => Command(c) = "ROLLBACK"
        PROVE  <1>2!:
    BY <2>1, <2>3
  <2>4. TypeOK /\ SingleCommand BY DEF IInv
  <2>5. \/ /\ op' = [op EXCEPT ![c] = None] /\ at' = [at EXCEPT ![c] = 0]
           /\ ~(op[c] \in Transactions /\ Command(c) \in {"START TRANSACTION", "statement"})
        \/ \E k \in 0 .. Size + 2 :
              /\ op' = op /\ at' = [at EXCEPT ![c] = k]
              /\ op[c] \in Transactions
              /\ k = 1 => Command(c) = "ROLLBACK"
    BY <2>4, ReturnsStep
  <2> QED BY <2>2, <2>3, <2>5, Zenon
<1>3. SingleCommand'
  <2> SUFFICES ASSUME NEW d \in Conns, op'[d] \in Singles PROVE at'[d] = 1
    BY DEF SingleCommand
  <2>1. op'[d] # None BY DEF Ops
  <2>2. d # c BY <2>1, <1>2
  <2> QED BY <2>2, <1>2 DEF IInv, SingleCommand
<1>4. OpenTransactions'
  <2> SUFFICES ASSUME NEW d \in Conns
               PROVE  /\ d \in trans' =>
                             link'[d] = "up" /\ (d \in left' \/ (op'[d] \in Transactions /\ at'[d] # 1))
                      /\ d \notin trans' => d \notin left' /\ pend'[d] = <<>>
    BY DEF OpenTransactions
  <2>1. CASE d = c BY <2>1, <1>2
  <2>2. CASE d # c BY <2>2, <1>2 DEF IInv, OpenTransactions
  <2> QED BY <2>1, <2>2
<1>5. Users'
  BY <1>2 DEF IInv, Users, poolVars, Conns
<1>6. Deleted' /\ LostInUse' /\ ClosedPool'
  BY <1>2 DEF IInv, Deleted, LostInUse, ClosedPool, poolVars
<1> QED BY <1>1, <1>3, <1>4, <1>5, <1>6

\* Initially nothing is issued and every connection is up.
LEMMA InitInv == Init => IInv
<1> SUFFICES ASSUME Init PROVE IInv
  OBVIOUS
<1> USE PoolAssumption
<1>1. TypeOK
  <2>1. <<>> \in Seq(Ops) /\ <<>> \in Seq(Ops \X Nat) OBVIOUS
  <2> QED BY <2>1 DEF Init, TypeOK, LoopBreaker
<1>2. None \notin Singles BY DEF Ops
<1> QED
  BY <1>1, <1>2 DEF Init, IInv, SingleCommand, OpenTransactions, Users, Deleted, LostInUse, ClosedPool, Conns

\* What a command adds to the database.
LEMMA EffectType ==
    ASSUME TypeOK, SingleCommand, NEW c \in Conns, op[c] # None
    PROVE  /\ Command(c) = "statement" => Statement(c) \in Ops \X Nat
           /\ db \o TakesEffect(c) \in Seq(Ops \X Nat)
<1>1. ASSUME Command(c) = "statement" PROVE Statement(c) \in Ops \X Nat
  <2>1. op[c] \in Ops BY CommandCases
  <2>2. op[c] \in Transactions => at[c] - 1 \in Nat
    <3>1. op[c] \in Transactions => at[c] \in 2 .. Size + 1 BY <1>1, CommandCases
    <3> QED BY <3>1, PoolAssumption
  <2> QED BY <2>1, <2>2 DEF Statement
<1>2. TakesEffect(c) \in Seq(Ops \X Nat)
  <2>1. pend[c] \in Seq(Ops \X Nat) BY DEF TypeOK
  <2>2. <<>> \in Seq(Ops \X Nat) OBVIOUS
  <2>3. Command(c) = "statement" => <<Statement(c)>> \in Seq(Ops \X Nat)
    <3>1. \A S : \A s \in S : <<s>> \in Seq(S) OBVIOUS
    <3> QED BY <1>1, <3>1
  <2> QED BY <2>1, <2>2, <2>3 DEF TakesEffect
<1>3. db \in Seq(Ops \X Nat) BY DEF TypeOK
<1> QED BY <1>1, <1>2, <1>3, ConcatProperties

\* The commands: what the server does with them fits CallStep.
LEMMA ExecuteInv == ASSUME IInv, NEW c \in Conns, Execute(c) PROVE IInv'
<1> USE PoolAssumption
<1>1. /\ op[c] # None /\ link[c] = "up" /\ ServerExecutes(c) /\ Returns(c, TRUE, "none")
      /\ link' = link /\ UNCHANGED poolVars /\ UNCHANGED <<broken, ignored, errors, losses>>
      /\ adopted' = IF op[c] \in Singles /\ c \in trans THEN adopted \cup {op[c]} ELSE adopted
  BY DEF Execute
<1>2. TypeOK /\ SingleCommand BY DEF IInv
<1>3. c \in trans => c \in left \/ op[c] \in Transactions BY DEF IInv, OpenTransactions
<1>4. Command(c) = "statement" => Statement(c) \in Ops \X Nat
  BY <1>1, <1>2, EffectType
<1>6. db' \in Seq(Ops \X Nat) BY <1>1, <1>2, EffectType DEF ServerExecutes
<1>7. pend' \in [Conns -> Seq(Ops \X Nat)]
  <2>1. pend \in [Conns -> Seq(Ops \X Nat)] BY <1>2 DEF TypeOK
  <2>2. <<>> \in Seq(Ops \X Nat) OBVIOUS
  <2>3. Command(c) = "statement" => Append(pend[c], Statement(c)) \in Seq(Ops \X Nat)
    BY <2>1, <1>4
  <2> QED BY <2>1, <2>2, <2>3, <1>1 DEF ServerExecutes
<1>8. /\ trans' \subseteq Conns /\ left' \subseteq Conns
      /\ \A d \in Conns \ {c} : (d \in trans' <=> d \in trans) /\ pend'[d] = pend[d]
      /\ \A d \in Conns \ {c} : d \in left' <=> d \in left
  <2>1. pend \in [Conns -> Seq(Ops \X Nat)] /\ trans \subseteq Conns /\ left \subseteq Conns BY <1>2 DEF TypeOK
  <2> QED BY <2>1, <1>1 DEF ServerExecutes
<1>9. /\ c \in trans' => c \in left' \/ (/\ op[c] \in Transactions
                                         /\ Command(c) \in {"START TRANSACTION", "statement"})
      /\ c \notin trans' => c \notin left' /\ pend'[c] = <<>>
  <2>1. pend \in [Conns -> Seq(Ops \X Nat)] BY <1>2 DEF TypeOK
  <2>2. Command(c) = "START TRANSACTION" => op[c] \in Transactions BY <1>1, <1>2, CommandCases
  <2>3. c \notin trans => c \notin left BY DEF IInv, OpenTransactions
  <2> QED BY <2>1, <2>2, <2>3, <1>1, <1>3 DEF ServerExecutes
<1>11. link \in [Conns -> {"up", "lost", "null", "closed"}] BY <1>2 DEF TypeOK
<1>12. /\ op' \in [Conns -> Ops \cup {None}]
       /\ at' \in [Conns -> 0 .. Size + 2]
       /\ tries' \in [Conns -> 0 .. LoopBreaker]
       /\ outcome' \in [Ops -> {"none", "issued", "done", "failed", "dropped"}]
       /\ SingleCommand' /\ OpenTransactions' /\ Users' /\ Deleted' /\ LostInUse' /\ ClosedPool'
  BY <1>1, <1>7, <1>8, <1>9, <1>11, CallStep
<1>13. adopted' \subseteq Singles BY <1>1, <1>2 DEF TypeOK
<1>14. TypeOK'
  BY <1>1, <1>2, <1>6, <1>7, <1>8, <1>11, <1>12, <1>13 DEF TypeOK, poolVars
<1> QED BY <1>12, <1>14 DEF IInv

\* The numbers of errors and lost connections stay within their bounds.
LEMMA ErrorCount ==
    ASSUME TypeOK
    PROVE  /\ errors < MaxErrors => errors + 1 \in 0 .. MaxErrors
           /\ losses < MaxLosses => losses + 1 \in 0 .. MaxLosses
<1>1. errors \in 0 .. MaxErrors /\ losses \in 0 .. MaxLosses BY DEF TypeOK
<1> QED BY <1>1, PoolAssumption

\* What is recorded of a command whose result is not looked at.
LEMMA IgnoredType ==
    ASSUME TypeOK, SingleCommand, NEW c \in Conns, op[c] # None
    PROVE  IgnoredAfter(c) \subseteq Ops \X {"START TRANSACTION", "ROLLBACK", "COMMIT"}
<1>1. op[c] \in Ops /\ Command(c) \in {"ROLLBACK", "START TRANSACTION", "COMMIT", "statement"}
  BY CommandCases
<1>2. ignored \subseteq Ops \X {"START TRANSACTION", "ROLLBACK", "COMMIT"} BY DEF TypeOK
<1>3. CASE Command(c) = "statement" BY <1>2, <1>3 DEF IgnoredAfter
<1>4. CASE Command(c) # "statement"
  <2>1. <<op[c], Command(c)>> \in Ops \X {"START TRANSACTION", "ROLLBACK", "COMMIT"} BY <1>1, <1>4
  <2>2. IgnoredAfter(c) = ignored \cup {<<op[c], Command(c)>>} BY <1>4 DEF IgnoredAfter
  <2> QED BY <1>2, <2>1, <2>2
<1> QED BY <1>3, <1>4

\* A command that is refused leaves the transaction as it is, for ROLLBACK to
\* end or left over.
LEMMA RefusedInv == ASSUME IInv, NEW c \in Conns, ExecuteRefused(c) PROVE IInv'
<1> USE PoolAssumption
<1>1. /\ op[c] # None /\ link[c] = "up"
      /\ Returns(c, FALSE, "refused")
      /\ link' = link /\ trans' = trans /\ pend' = pend /\ db' = db
      /\ UNCHANGED poolVars /\ broken' = broken /\ adopted' = adopted /\ losses' = losses
      /\ errors < MaxErrors /\ errors' = errors + 1 /\ ignored' = IgnoredAfter(c)
      /\ left' = IF Command(c) \in {"COMMIT", "ROLLBACK"} /\ c \in trans THEN left \cup {c} ELSE left
  BY DEF ExecuteRefused
<1>2. TypeOK /\ SingleCommand BY DEF IInv
<1>3. /\ c \in trans => c \in left \/ (op[c] \in Transactions /\ at[c] # 1)
      /\ c \notin trans => c \notin left /\ pend[c] = <<>>
  BY DEF IInv, OpenTransactions
<1>4. link \in [Conns -> {"up", "lost", "null", "closed"}] /\ trans \subseteq Conns /\ left \subseteq Conns
      /\ pend \in [Conns -> Seq(Ops \X Nat)]
  BY <1>2 DEF TypeOK
<1>5. /\ left' \subseteq Conns
      /\ \A d \in Conns \ {c} : d \in left' <=> d \in left
      /\ c \notin trans' => c \notin left' /\ pend'[c] = <<>>
  BY <1>1, <1>3, <1>4
<1>6. c \in trans' => c \in left' \/ (/\ op[c] \in Transactions
                                     /\ Command(c) \in {"START TRANSACTION", "statement"})
  <2>1. Command(c) \in {"ROLLBACK", "START TRANSACTION", "COMMIT", "statement"}
    BY <1>1, <1>2, CommandCases
  <2> QED BY <1>1, <1>3, <2>1
<1>7. /\ op' \in [Conns -> Ops \cup {None}]
      /\ at' \in [Conns -> 0 .. Size + 2]
      /\ tries' \in [Conns -> 0 .. LoopBreaker]
      /\ outcome' \in [Ops -> {"none", "issued", "done", "failed", "dropped"}]
      /\ SingleCommand' /\ OpenTransactions' /\ Users' /\ Deleted' /\ LostInUse' /\ ClosedPool'
  BY <1>1, <1>4, <1>5, <1>6, CallStep
<1>8. errors' \in 0 .. MaxErrors BY <1>1, <1>2, ErrorCount
<1>9. ignored' \subseteq Ops \X {"START TRANSACTION", "ROLLBACK", "COMMIT"} BY <1>1, <1>2, IgnoredType
<1>10. TypeOK' BY <1>1, <1>2, <1>5, <1>7, <1>8, <1>9 DEF TypeOK, poolVars
<1> QED BY <1>7, <1>10 DEF IInv

\* A deadlock has rolled the transaction back already.
LEMMA DeadlockInv == ASSUME IInv, NEW c \in Conns, ExecuteDeadlock(c) PROVE IInv'
<1> USE PoolAssumption
<1>1. /\ op[c] # None /\ link[c] = "up"
      /\ Returns(c, FALSE, "deadlock")
      /\ link' = link /\ trans' = trans \ {c} /\ pend' = [pend EXCEPT ![c] = <<>>] /\ db' = db
      /\ left' = left \ {c} /\ ignored' = IgnoredAfter(c)
      /\ UNCHANGED poolVars /\ broken' = broken /\ adopted' = adopted /\ losses' = losses
      /\ errors < MaxErrors /\ errors' = errors + 1
  BY DEF ExecuteDeadlock, ServerRollsBack
<1>2. TypeOK /\ SingleCommand BY DEF IInv
<1>3. link \in [Conns -> {"up", "lost", "null", "closed"}] /\ trans' \subseteq Conns
      /\ pend \in [Conns -> Seq(Ops \X Nat)]
      /\ left' \subseteq Conns /\ \A d \in Conns \ {c} : d \in left' <=> d \in left
  BY <1>1, <1>2 DEF TypeOK
<1>4. <<>> \in Seq(Ops \X Nat) OBVIOUS
<1>5. /\ pend' \in [Conns -> Seq(Ops \X Nat)]
      /\ c \notin trans' /\ c \notin left' /\ pend'[c] = <<>>
      /\ \A d \in Conns \ {c} : (d \in trans' <=> d \in trans) /\ pend'[d] = pend[d]
  BY <1>1, <1>3, <1>4
<1>6. /\ op' \in [Conns -> Ops \cup {None}]
      /\ at' \in [Conns -> 0 .. Size + 2]
      /\ tries' \in [Conns -> 0 .. LoopBreaker]
      /\ outcome' \in [Ops -> {"none", "issued", "done", "failed", "dropped"}]
      /\ SingleCommand' /\ OpenTransactions' /\ Users' /\ Deleted' /\ LostInUse' /\ ClosedPool'
  BY <1>1, <1>3, <1>5, CallStep
<1>7. errors' \in 0 .. MaxErrors BY <1>1, <1>2, ErrorCount
<1>8. ignored' \subseteq Ops \X {"START TRANSACTION", "ROLLBACK", "COMMIT"} BY <1>1, <1>2, IgnoredType
<1>9. TypeOK' BY <1>1, <1>2, <1>3, <1>5, <1>6, <1>7, <1>8 DEF TypeOK, poolVars
<1> QED BY <1>6, <1>9 DEF IInv

\* Reconnecting fails, or there is no handle: nothing is open on the server.
LEMMA NoHandleInv ==
    ASSUME IInv, NEW c \in Conns, ReconnectFails(c) \/ ExecuteWithoutHandle(c)
    PROVE  IInv'
<1> USE PoolAssumption
<1>1. /\ link[c] \in {"lost", "null"}
      /\ Returns(c, FALSE, "none")
      /\ link' = [link EXCEPT ![c] = "null"] \/ (link' = link /\ link[c] = "null")
      /\ UNCHANGED poolVars /\ UNCHANGED serverVars /\ UNCHANGED envVars
  BY DEF ReconnectFails, ExecuteWithoutHandle
<1>2. TypeOK /\ SingleCommand BY DEF IInv
<1>3. op[c] # None
  BY DEF ReconnectFails, ExecuteWithoutHandle, IInv, LostInUse
<1>4. c \notin trans /\ c \notin left /\ pend[c] = <<>> BY <1>1 DEF IInv, OpenTransactions
<1>5. link \in [Conns -> {"up", "lost", "null", "closed"}] /\ trans \subseteq Conns /\ left \subseteq Conns
      /\ pend \in [Conns -> Seq(Ops \X Nat)]
  BY <1>2 DEF TypeOK
<1>6. /\ link' \in [Conns -> {"up", "lost", "null", "closed"}]
      /\ \A d \in Conns \ {c} : link'[d] = link[d]
      /\ link'[c] = "null"
  BY <1>1, <1>5
<1>7. trans' = trans /\ left' = left /\ pend' = pend /\ db' = db BY <1>1 DEF serverVars
<1>8. /\ op' \in [Conns -> Ops \cup {None}]
      /\ at' \in [Conns -> 0 .. Size + 2]
      /\ tries' \in [Conns -> 0 .. LoopBreaker]
      /\ outcome' \in [Ops -> {"none", "issued", "done", "failed", "dropped"}]
      /\ SingleCommand' /\ OpenTransactions' /\ Users' /\ Deleted' /\ LostInUse' /\ ClosedPool'
  BY <1>1, <1>3, <1>4, <1>5, <1>6, <1>7, CallStep
<1>9. TypeOK' BY <1>1, <1>2, <1>6, <1>7, <1>8 DEF TypeOK, poolVars, envVars
<1> QED BY <1>8, <1>9 DEF IInv

\* The connection breaks, and the server rolls back.
LEMMA LostInv ==
    ASSUME IInv, NEW c \in Conns, NEW executed \in BOOLEAN, ConnectionLost(c, executed)
    PROVE  IInv'
<1> USE PoolAssumption
<1>1. /\ op[c] # None /\ link[c] = "up" /\ losses < MaxLosses
      /\ losses' = losses + 1 /\ broken' = broken \cup {op[c]}
      /\ link' = [link EXCEPT ![c] = "lost"]
      /\ db' = db \o TakesEffect(c) \/ db' = db
      /\ pend' = [pend EXCEPT ![c] = <<>>] /\ trans' = trans \ {c} /\ left' = left \ {c}
      /\ UNCHANGED callVars /\ UNCHANGED poolVars /\ ignored' = ignored /\ adopted' = adopted /\ errors' = errors
  BY DEF ConnectionLost, ServerRollsBack
<1>2. TypeOK /\ SingleCommand BY DEF IInv
<1>3. TypeOK'
  <2>1. db' \in Seq(Ops \X Nat) BY <1>1, <1>2, EffectType DEF TypeOK
  <2>2. <<>> \in Seq(Ops \X Nat) OBVIOUS
  <2>3. pend' \in [Conns -> Seq(Ops \X Nat)] BY <1>1, <1>2, <2>2 DEF TypeOK
  <2>4. op[c] \in Ops BY <1>1, <1>2 DEF TypeOK
  <2>5. losses' \in 0 .. MaxLosses BY <1>1, <1>2, ErrorCount
  <2> QED BY <1>1, <1>2, <2>1, <2>3, <2>4, <2>5 DEF TypeOK, callVars, poolVars
<1>4. link \in [Conns -> {"up", "lost", "null", "closed"}] /\ pend \in [Conns -> Seq(Ops \X Nat)]
  BY <1>2 DEF TypeOK
<1>5. SingleCommand' BY <1>1, <1>2 DEF SingleCommand, callVars
<1>6. OpenTransactions' BY <1>1, <1>4 DEF IInv, OpenTransactions, callVars
<1>7. Users' BY <1>1 DEF IInv, Users, callVars, poolVars
<1>8. Deleted' /\ LostInUse' BY <1>1, <1>4 DEF IInv, Deleted, LostInUse, callVars, poolVars
<1>9. ClosedPool' BY <1>1, <1>4 DEF IInv, ClosedPool, poolVars
<1> QED BY <1>3, <1>5, <1>6, <1>7, <1>8, <1>9 DEF IInv

\* _HandleMySQLErrno reopens a connection on which nothing is open.
LEMMA ReconnectInv == ASSUME IInv, NEW c \in Conns, Reconnect(c) PROVE IInv'
<1> USE PoolAssumption
<1>1. /\ link[c] = "lost" /\ link' = [link EXCEPT ![c] = "up"]
      /\ UNCHANGED callVars /\ UNCHANGED poolVars /\ UNCHANGED serverVars /\ UNCHANGED envVars
  BY DEF Reconnect
<1>2. link \in [Conns -> {"up", "lost", "null", "closed"}] BY DEF IInv, TypeOK
<1>3. TypeOK' BY <1>1, <1>2 DEF IInv, TypeOK, callVars, poolVars, serverVars, envVars
<1>4. SingleCommand' /\ OpenTransactions' /\ Users'
  BY <1>1, <1>2 DEF IInv, SingleCommand, OpenTransactions, Users, callVars, poolVars, serverVars
<1>5. Deleted' /\ LostInUse' /\ ClosedPool'
  BY <1>1, <1>2 DEF IInv, Deleted, LostInUse, ClosedPool, callVars, poolVars
<1> QED BY <1>3, <1>4, <1>5 DEF IInv

\* Issuing an operation touches no connection.
LEMMA EnqueueInv == ASSUME IInv, NEW o \in Ops, Enqueue(o) PROVE IInv'
<1> USE PoolAssumption DEF Enqueue, serverVars, envVars
<1>1. TypeOK'
  <2>1. /\ queue \in Seq(Ops) /\ issued \in Seq(Ops)
        /\ outcome \in [Ops -> {"none", "issued", "done", "failed", "dropped"}]
    BY DEF IInv, TypeOK
  <2>2. queue' \in Seq(Ops) /\ issued' \in Seq(Ops) BY <2>1
  <2>3. outcome' \in [Ops -> {"none", "issued", "done", "failed", "dropped"}] BY <2>1
  <2> QED BY <2>2, <2>3 DEF IInv, TypeOK
<1>2. SingleCommand' /\ OpenTransactions' /\ Users' /\ Deleted' /\ LostInUse' /\ ClosedPool'
  BY DEF IInv, SingleCommand, OpenTransactions, Users, Deleted, LostInUse, ClosedPool
<1> QED BY <1>1, <1>2 DEF IInv

\* An operation starts on a connection that nobody uses and that is not deleted.
LEMMA StartStep ==
    ASSUME IInv, NEW c \in Conns, NEW o \in Ops, pool = "open", op[c] = None,
           c \in Sync \cup running, Start(c, o),
           UNCHANGED <<pool, running, issued, link, serverVars, envVars>>
    PROVE  /\ op' \in [Conns -> Ops \cup {None}]
           /\ at' \in [Conns -> 0 .. Size + 2]
           /\ tries' \in [Conns -> 0 .. LoopBreaker]
           /\ SingleCommand' /\ OpenTransactions' /\ Users' /\ Deleted' /\ LostInUse' /\ ClosedPool'
<1> USE PoolAssumption
<1>1. /\ op \in [Conns -> Ops \cup {None}] /\ at \in [Conns -> 0 .. Size + 2]
      /\ tries \in [Conns -> 0 .. LoopBreaker] /\ running \subseteq Async
  BY DEF IInv, TypeOK
<1>2. /\ op' = [op EXCEPT ![c] = o] /\ at' = [at EXCEPT ![c] = 1]
      /\ tries' = [tries EXCEPT ![c] = 0]
      /\ pool' = pool /\ running' = running /\ link' = link /\ trans' = trans /\ left' = left /\ pend' = pend
  BY DEF Start, serverVars
<1>3. op' \in [Conns -> Ops \cup {None}] BY <1>1, <1>2
<1>4. at' \in [Conns -> 0 .. Size + 2] BY <1>1, <1>2
<1>5. tries' \in [Conns -> 0 .. LoopBreaker] BY <1>1, <1>2 DEF LoopBreaker
<1>6. SingleCommand' BY <1>1, <1>2 DEF IInv, SingleCommand
<1>7. OpenTransactions'
  <2>1. c \in trans => c \in left BY DEF IInv, OpenTransactions, Ops
  <2> QED BY <1>1, <1>2, <2>1 DEF IInv, OpenTransactions
<1>8. Users' BY <1>1, <1>2 DEF IInv, Users, Conns
<1>9. Deleted' /\ ClosedPool' BY <1>2 DEF IInv, Deleted, ClosedPool
<1>10. LostInUse'
  <2>1. o # None OBVIOUS
  <2> QED BY <1>1, <1>2, <2>1 DEF IInv, LostInUse
<1> QED BY <1>3, <1>4, <1>5, <1>6, <1>7, <1>8, <1>9, <1>10

\* A caller takes a free synchronous connection.
LEMMA DirectInv == ASSUME IInv, NEW c \in Sync, NEW o \in Ops, Direct(c, o) PROVE IInv'
<1> USE PoolAssumption
<1>1. /\ pool = "open" /\ op[c] = None /\ Start(c, o)
      /\ outcome' = [outcome EXCEPT ![o] = "issued"]
      /\ UNCHANGED <<poolVars, link, serverVars, envVars>>
  BY DEF Direct
<1>2. c \in Conns /\ UNCHANGED <<pool, running, issued, link, serverVars, envVars>> /\ queue' = queue
  BY <1>1 DEF Conns, poolVars
<1>3. /\ op' \in [Conns -> Ops \cup {None}]
      /\ at' \in [Conns -> 0 .. Size + 2]
      /\ tries' \in [Conns -> 0 .. LoopBreaker]
      /\ SingleCommand' /\ OpenTransactions' /\ Users' /\ Deleted' /\ LostInUse' /\ ClosedPool'
  BY <1>1, <1>2, StartStep
<1>4. TypeOK' BY <1>1, <1>2, <1>3 DEF IInv, TypeOK, serverVars, envVars
<1> QED BY <1>3, <1>4 DEF IInv

\* A worker takes the next operation.
LEMMA DequeueInv == ASSUME IInv, NEW c \in Async, Dequeue(c) PROVE IInv'
<1> USE PoolAssumption
<1>1. /\ pool = "open" /\ op[c] = None /\ c \in running /\ queue # <<>>
      /\ Start(c, Head(queue)) /\ queue' = Tail(queue)
      /\ outcome' = outcome /\ UNCHANGED <<pool, running, issued, link, serverVars, envVars>>
  BY DEF Dequeue
<1>2. queue \in Seq(Ops) BY DEF IInv, TypeOK
<1>3. Head(queue) \in Ops /\ Tail(queue) \in Seq(Ops) BY <1>1, <1>2
<1>4. c \in Conns BY DEF Conns
<1>5. /\ op' \in [Conns -> Ops \cup {None}]
      /\ at' \in [Conns -> 0 .. Size + 2]
      /\ tries' \in [Conns -> 0 .. LoopBreaker]
      /\ SingleCommand' /\ OpenTransactions' /\ Users' /\ Deleted' /\ LostInUse' /\ ClosedPool'
  BY <1>1, <1>3, <1>4, StartStep
<1>6. TypeOK' BY <1>1, <1>3, <1>5 DEF IInv, TypeOK, serverVars, envVars
<1> QED BY <1>5, <1>6 DEF IInv

\* Close frees the queue; no synchronous connection is in use any more.
LEMMA CloseInv == ASSUME IInv, Close PROVE IInv'
<1> USE PoolAssumption DEF Close, serverVars, envVars
<1>1. TypeOK'
  <2>1. <<>> \in Seq(Ops) OBVIOUS
  <2> QED BY <2>1 DEF IInv, TypeOK
<1>2. SingleCommand' /\ OpenTransactions' /\ LostInUse'
  BY DEF IInv, SingleCommand, OpenTransactions, LostInUse
<1>3. Users' /\ Deleted' /\ ClosedPool'
  BY DEF IInv, Users, Deleted, ClosedPool
<1> QED BY <1>1, <1>2, <1>3 DEF IInv

\* A worker leaves svc.
LEMMA ExitInv == ASSUME IInv, NEW c \in Async, Exit(c) PROVE IInv'
<1> USE PoolAssumption DEF Exit, callVars, serverVars, envVars
<1>1. TypeOK' BY DEF IInv, TypeOK
<1>2. SingleCommand' /\ OpenTransactions' /\ LostInUse'
  BY DEF IInv, SingleCommand, OpenTransactions, LostInUse
<1>3. Users' /\ Deleted' /\ ClosedPool'
  BY DEF IInv, Users, Deleted, ClosedPool
<1> QED BY <1>1, <1>2, <1>3 DEF IInv

\* The connection of a worker that is gone is deleted.
LEMMA CloseAsyncInv == ASSUME IInv, NEW c \in Async, CloseAsync(c) PROVE IInv'
<1> USE PoolAssumption DEF CloseAsync, ServerRollsBack, callVars, poolVars, envVars
<1>1. TypeOK /\ c \in Conns /\ link \in [Conns -> {"up", "lost", "null", "closed"}]
      /\ pend \in [Conns -> Seq(Ops \X Nat)]
  BY DEF IInv, TypeOK, Conns
<1>0. <<>> \in Seq(Ops \X Nat) OBVIOUS
<1>2. TypeOK'
  <2>1. pend' \in [Conns -> Seq(Ops \X Nat)] BY <1>0, <1>1
  <2>2. link' \in [Conns -> {"up", "lost", "null", "closed"}] BY <1>1
  <2> QED BY <1>1, <2>1, <2>2 DEF TypeOK
<1>3. op[c] = None BY DEF IInv, Users
<1>4. pend'[c] = <<>> /\ \A d \in Conns \ {c} : pend'[d] = pend[d] /\ link'[d] = link[d]
  BY <1>1
<1>5. OpenTransactions' BY <1>1, <1>4 DEF IInv, OpenTransactions
<1>6. SingleCommand' /\ LostInUse' BY <1>1, <1>3 DEF IInv, SingleCommand, LostInUse
<1>7. Users' /\ Deleted' /\ ClosedPool'
  BY <1>1 DEF IInv, Users, Deleted, ClosedPool
<1> QED BY <1>2, <1>5, <1>6, <1>7 DEF IInv

\* The synchronous connections are deleted when nobody can use them.
LEMMA CloseSyncInv == ASSUME IInv, CloseSync PROVE IInv'
<1> USE PoolAssumption DEF CloseSync, callVars, envVars
<1>0. <<>> \in Seq(Ops \X Nat) OBVIOUS
<1>1. TypeOK' BY <1>0 DEF IInv, TypeOK
<1>2. \A c \in Conns : op[c] = None
  BY DEF IInv, Users, Deleted, Conns
<1>3. SingleCommand' /\ OpenTransactions' /\ LostInUse'
  BY <1>2 DEF IInv, SingleCommand, OpenTransactions, LostInUse
<1>4. Users' /\ ClosedPool' BY DEF IInv, Users, ClosedPool
<1>5. Deleted' BY DEF IInv, Deleted, Conns
<1> QED BY <1>1, <1>3, <1>4, <1>5 DEF IInv

\* Every step of the specification preserves the invariant.
LEMMA NextInv == IInv /\ [Next]_vars => IInv'
<1> SUFFICES ASSUME IInv, [Next]_vars PROVE IInv'
  OBVIOUS
<1>1. CASE UNCHANGED vars
  BY <1>1 DEF vars, callVars, poolVars, serverVars, envVars, IInv, TypeOK, SingleCommand,
              OpenTransactions, Users, Deleted, LostInUse, ClosedPool
<1>2. ASSUME NEW c \in Conns, Step(c) \/ Fault(c) PROVE IInv'
  BY <1>2, ExecuteInv, RefusedInv, DeadlockInv, NoHandleInv, LostInv, ReconnectInv DEF Step, Fault
<1>3. ASSUME NEW c \in Async, Dequeue(c) \/ Exit(c) \/ CloseAsync(c) PROVE IInv'
  BY <1>3, DequeueInv, ExitInv, CloseAsyncInv
<1> QED
  BY <1>1, <1>2, <1>3, EnqueueInv, DirectInv, CloseInv, CloseSyncInv DEF Next, Terminating

-----------------------------------------------------------------------------
(* What the operations leave in the database.                              *)

\* The operation ends: well after COMMIT, whose result is not looked at, and
\* after a single statement that succeeded.
Ends(c, ok) ==
    \E r \in {"done", "failed"} :
        /\ op' = [op EXCEPT ![c] = None] /\ at' = [at EXCEPT ![c] = 0]
        /\ outcome' = [outcome EXCEPT ![op[c]] = r]
        /\ r = "done" <=> Command(c) = "COMMIT" \/ (op[c] \in Singles /\ ok)
        /\ op[c] \in Singles \/ Command(c) \in {"ROLLBACK", "COMMIT"}

\* A transaction goes on, to the next command, to ROLLBACK, or from there to
\* its beginning.
GoesOn(c, ok) ==
    \E k \in 0 .. Size + 2 :
        /\ op' = op /\ at' = [at EXCEPT ![c] = k] /\ outcome' = outcome
        /\ op[c] \in Transactions
        /\ \/ Command(c) = "ROLLBACK" /\ k = 1
           \/ Command(c) = "statement" /\ ~ok /\ k = 0
           \/ Command(c) = "statement" /\ ok /\ k = at[c] + 1
           \/ Command(c) = "START TRANSACTION" /\ k = 2

\* What Returns does with an operation.
LEMMA ReturnsOutcome ==
    ASSUME TypeOK, SingleCommand, NEW c \in Conns, op[c] # None,
           NEW ok \in BOOLEAN, NEW errno, Returns(c, ok, errno)
    PROVE  Ends(c, ok) \/ GoesOn(c, ok)
<1> USE PoolAssumption
<1>1. op[c] \in Ops BY DEF TypeOK
<1>2. CASE Command(c) = "ROLLBACK"
  <2>1. AfterRollback(c, errno) BY <1>2 DEF Returns
  <2>2. at[c] = 0 BY <1>2, CommandCases
  <2>3. op[c] \in Transactions /\ op[c] \notin Singles BY <1>1, <2>2 DEF SingleCommand, Ops
  <2>4. CASE Finish(c, FALSE) BY <1>2, <2>3, <2>4 DEF Finish, Ends
  <2>5. CASE ~Finish(c, FALSE)
    <3>1. at' = [at EXCEPT ![c] = 1] /\ op' = op /\ outcome' = outcome
      BY <2>1, <2>5 DEF AfterRollback
    <3>2. 1 \in 0 .. Size + 2 OBVIOUS
    <3> QED BY <1>2, <2>3, <3>1, <3>2 DEF GoesOn
  <2> QED BY <2>4, <2>5
<1>3. CASE Command(c) = "statement" /\ op[c] \in Transactions /\ ~ok
  <2>1. GoesTo(c, 0) BY <1>3 DEF Returns
  <2>2. 0 \in 0 .. Size + 2 OBVIOUS
  <2> QED BY <1>3, <2>1, <2>2 DEF GoesTo, GoesOn
<1>4. CASE Command(c) = "statement" /\ op[c] \in Transactions /\ ok
  <2>1. at[c] \in 2 .. Size + 1 BY <1>4, CommandCases
  <2>2. at[c] # LastAt(op[c]) BY <1>4, <2>1 DEF LastAt
  <2>3. GoesTo(c, at[c] + 1) BY <1>4, <2>2 DEF Returns
  <2>4. at[c] + 1 \in 0 .. Size + 2 BY <2>1
  <2> QED BY <1>4, <2>3, <2>4 DEF GoesTo, GoesOn
<1>5. CASE Command(c) = "START TRANSACTION"
  <2>1. op[c] \in Transactions /\ at[c] = 1 BY <1>5, CommandCases
  <2>2. at[c] # LastAt(op[c]) BY <2>1 DEF LastAt
  <2>3. GoesTo(c, at[c] + 1) BY <1>5, <2>2 DEF Returns
  <2>4. at[c] + 1 = 2 /\ 2 \in 0 .. Size + 2 BY <2>1
  <2> QED BY <1>5, <2>1, <2>3, <2>4 DEF GoesTo, GoesOn
<1>6. CASE Command(c) = "statement" /\ op[c] \notin Transactions
  <2>1. op[c] \in Singles BY <1>1, <1>6 DEF Ops
  <2>2. at[c] = LastAt(op[c]) BY <2>1, CommandCases
  <2>3. Finish(c, ok) BY <1>6, <2>2 DEF Returns
  <2> QED BY <1>6, <2>1, <2>3 DEF Finish, Ends
<1>7. CASE Command(c) = "COMMIT"
  <2>1. at[c] = LastAt(op[c]) BY <1>7, CommandCases
  <2>2. Finish(c, TRUE) BY <1>7, <2>1 DEF Returns
  <2> QED BY <1>7, <2>2 DEF Finish, Ends
<1> QED BY <1>2, <1>3, <1>4, <1>5, <1>6, <1>7, CommandCases

\* The operations that a call leaves alone, and the places.
LEMMA OnePlaceCall ==
    ASSUME IInv, OnePlace, NEW c \in Conns, op[c] # None,
           NEW ok \in BOOLEAN, NEW errno, Returns(c, ok, errno), UNCHANGED poolVars
    PROVE  /\ OnePlace'
           /\ op[c] \in Ops /\ outcome[op[c]] = "issued"
           /\ \A o \in Ops \ {op[c]} : outcome'[o] = outcome[o]
           /\ \A d \in Conns \ {c} : op'[d] = op[d] /\ at'[d] = at[d]
<1> USE PoolAssumption
<1>1. TypeOK /\ SingleCommand BY DEF IInv
<1>2. /\ op \in [Conns -> Ops \cup {None}] /\ at \in [Conns -> 0 .. Size + 2]
      /\ outcome \in [Ops -> {"none", "issued", "done", "failed", "dropped"}]
      /\ queue \in Seq(Ops)
  BY <1>1 DEF TypeOK
<1>3. op[c] \in Ops /\ outcome[op[c]] = "issued" BY <1>2 DEF OnePlace
<1>4. queue' = queue /\ \A n \in DOMAIN queue : queue[n] \in Ops \ {op[c]}
  BY <1>2 DEF OnePlace, poolVars
<1>5. /\ \A d \in Conns \ {c} : op'[d] = op[d] /\ at'[d] = at[d]
      /\ \A o \in Ops \ {op[c]} : outcome'[o] = outcome[o]
      /\ op'[c] = None \/ (op' = op /\ outcome' = outcome)
  <2>1. CASE Ends(c, ok) BY <1>2, <2>1 DEF Ends
  <2>2. CASE GoesOn(c, ok) BY <1>2, <2>2 DEF GoesOn
  <2> QED BY <1>1, <2>1, <2>2, ReturnsOutcome
<1>6. \A d \in Conns : op'[d] # None => op'[d] = op[d]
  BY <1>5
<1>7. \A d \in Conns : op'[d] # None => outcome'[op'[d]] = "issued"
  <2> SUFFICES ASSUME NEW d \in Conns, op'[d] # None PROVE outcome'[op'[d]] = "issued"
    OBVIOUS
  <2>1. op'[d] = op[d] /\ op[d] \in Ops /\ outcome[op[d]] = "issued" BY <1>2, <1>6 DEF OnePlace
  <2>2. CASE d = c BY <1>5, <2>1, <2>2
  <2>3. CASE d # c
    <3>1. op[d] # op[c] BY <2>1, <2>3 DEF OnePlace
    <3> QED BY <1>5, <2>1, <3>1
  <2> QED BY <2>2, <2>3
<1>8. OnePlace' BY <1>4, <1>5, <1>6, <1>7 DEF OnePlace
<1> QED BY <1>3, <1>5, <1>8

\* Appending to the database.
LEMMA AppendTo ==
    ASSUME TypeOK, NEW s \in Seq(Ops \X Nat), db' = db \o s
    PROVE  /\ Len(db) \in Nat /\ Len(s) \in Nat /\ Len(db') = Len(db) + Len(s)
           /\ DOMAIN db = 1 .. Len(db) /\ DOMAIN s = 1 .. Len(s) /\ DOMAIN db' = 1 .. Len(db')
           /\ \A j \in DOMAIN db : j \in DOMAIN db' /\ db'[j] = db[j]
           /\ \A k \in DOMAIN s : Len(db) + k \in DOMAIN db' /\ db'[Len(db) + k] = s[k]
           /\ \A j \in DOMAIN db' \ DOMAIN db :
                 j > Len(db) /\ j - Len(db) \in DOMAIN s /\ db'[j] = s[j - Len(db)]
<1>1. db \in Seq(Ops \X Nat) BY DEF TypeOK
<1>2. Len(db) \in Nat /\ Len(s) \in Nat /\ DOMAIN db = 1 .. Len(db) /\ DOMAIN s = 1 .. Len(s)
  BY <1>1
<1>3. db' \in Seq(Ops \X Nat) /\ Len(db') = Len(db) + Len(s) /\ DOMAIN db' = 1 .. Len(db')
  BY <1>1, ConcatProperties
<1>4. \A j \in 1 .. Len(db) + Len(s) :
         db'[j] = IF j <= Len(db) THEN db[j] ELSE s[j - Len(db)]
  BY <1>1, ConcatProperties
<1>5. \A j \in DOMAIN db : j \in DOMAIN db' /\ db'[j] = db[j] BY <1>2, <1>3, <1>4
<1>6. \A k \in DOMAIN s : Len(db) + k \in DOMAIN db' /\ db'[Len(db) + k] = s[k]
  <2> SUFFICES ASSUME NEW k \in 1 .. Len(s)
               PROVE  Len(db) + k \in 1 .. Len(db) + Len(s) /\ db'[Len(db) + k] = s[k]
    BY <1>2, <1>3
  <2>1. Len(db) + k \in 1 .. Len(db) + Len(s) /\ ~(Len(db) + k <= Len(db)) /\ Len(db) + k - Len(db) = k
    BY <1>2
  <2> QED BY <1>4, <2>1
<1>7. \A j \in DOMAIN db' \ DOMAIN db :
         j > Len(db) /\ j - Len(db) \in DOMAIN s /\ db'[j] = s[j - Len(db)]
  <2> SUFFICES ASSUME NEW j \in 1 .. Len(db) + Len(s), j \notin 1 .. Len(db)
               PROVE  j > Len(db) /\ j - Len(db) \in 1 .. Len(s) /\ db'[j] = s[j - Len(db)]
    BY <1>2, <1>3
  <2>1. j > Len(db) /\ j - Len(db) \in 1 .. Len(s) BY <1>2
  <2> QED BY <1>2, <1>4, <2>1
<1> QED BY <1>2, <1>3, <1>5, <1>6, <1>7

\* What is recorded of the operations is not forgotten.
HistoriesGrow == broken \subseteq broken' /\ ignored \subseteq ignored' /\ adopted \subseteq adopted'

LEMMA FramedBefore == ASSUME HistoriesGrow, NEW o, Framed(o)' PROVE Framed(o)
BY DEF HistoriesGrow, Framed

\* What is appended without a statement of an operation says nothing of it.
LEMMA OthersKeep ==
    ASSUME TypeOK, NEW s \in Seq(Ops \X Nat), db' = db \o s, NEW o, Absent(s, o)
    PROVE  /\ TookEffect(o) => TookEffect(o)'
           /\ NoEffect(o) <=> NoEffect(o)'
<1>1. /\ Len(db) \in Nat /\ Len(s) \in Nat /\ Len(db') = Len(db) + Len(s)
      /\ DOMAIN db = 1 .. Len(db) /\ DOMAIN db' = 1 .. Len(db')
      /\ \A j \in DOMAIN db : j \in DOMAIN db' /\ db'[j] = db[j]
  BY AppendTo
<1>2. \A j \in DOMAIN db' : db'[j][1] = o => j \in DOMAIN db /\ db[j][1] = o
  BY AppendTo DEF Absent
<1>3. ASSUME TookEffect(o) PROVE TookEffect(o)'
  <2> DEFINE size == IF o \in Transactions THEN Size ELSE 1
  <2>0. size \in Nat \ {0} BY PoolAssumption
  <2>1. PICK n \in 0 .. Len(db) :
           /\ n + size <= Len(db)
           /\ \A k \in 1 .. size : db[n + k] = <<o, k>>
           /\ \A j \in DOMAIN db : db[j][1] = o => j \in n + 1 .. n + size
    BY <1>3 DEF TookEffect
  <2> HIDE DEF size
  <2>2. n \in 0 .. Len(db') /\ n + size <= Len(db') BY <1>1, <2>0, <2>1
  <2>3. \A k \in 1 .. size : db'[n + k] = <<o, k>>
    <3> SUFFICES ASSUME NEW k \in 1 .. size PROVE db'[n + k] = <<o, k>>
      OBVIOUS
    <3>1. n + k \in DOMAIN db BY <1>1, <2>0, <2>1
    <3> QED BY <1>1, <2>1, <3>1
  <2>4. \A j \in DOMAIN db' : db'[j][1] = o => j \in n + 1 .. n + size BY <1>2, <2>1
  <2> QED BY <2>2, <2>3, <2>4 DEF TookEffect, size
<1>4. NoEffect(o) <=> NoEffect(o)' BY <1>1, <1>2 DEF NoEffect
<1> QED BY <1>3, <1>4

\* Appending a whole operation that was not there.
LEMMA BlockAppended ==
    ASSUME TypeOK, NEW s \in Seq(Ops \X Nat), db' = db \o s, NEW o, NoEffect(o), Block(s, o)
    PROVE  TookEffect(o)'
<1> DEFINE size == IF o \in Transactions THEN Size ELSE 1
<1>1. size \in Nat \ {0} BY PoolAssumption
<1>2. /\ size <= Len(s)
      /\ \A k \in 1 .. size : s[k] = <<o, k>>
      /\ \A j \in DOMAIN s : s[j][1] = o => j \in 1 .. size
  BY DEF Block
<1> HIDE DEF size
<1>3. /\ Len(db) \in Nat /\ Len(s) \in Nat /\ Len(db') = Len(db) + Len(s)
      /\ DOMAIN db = 1 .. Len(db) /\ DOMAIN s = 1 .. Len(s) /\ DOMAIN db' = 1 .. Len(db')
  BY AppendTo
<1>4. \A k \in 1 .. size : db'[Len(db) + k] = <<o, k>>
  <2>1. \A k \in DOMAIN s : db'[Len(db) + k] = s[k] BY AppendTo
  <2>2. \A k \in 1 .. size : k \in DOMAIN s BY <1>1, <1>2, <1>3
  <2> QED BY <1>2, <2>1, <2>2
<1>5. \A j \in DOMAIN db' : db'[j][1] = o => j \in Len(db) + 1 .. Len(db) + size
  <2> SUFFICES ASSUME NEW j \in DOMAIN db', db'[j][1] = o
               PROVE  j \in Len(db) + 1 .. Len(db) + size
    OBVIOUS
  <2>1. j \notin DOMAIN db BY AppendTo DEF NoEffect
  <2>2. j - Len(db) \in DOMAIN s /\ db'[j] = s[j - Len(db)] BY <2>1, AppendTo
  <2>3. j - Len(db) \in 1 .. size BY <1>2, <2>2
  <2> QED BY <1>1, <1>3, <2>3
<1>6. Len(db) \in 0 .. Len(db') /\ Len(db) + size <= Len(db') BY <1>1, <1>2, <1>3
<1> QED BY <1>4, <1>5, <1>6 DEF TookEffect, size

\* What becomes of an operation when s is appended to the database: nothing
\* new; or it has no effect and is not reported done, unless its COMMIT failed;
\* or it is in s as a whole, for the first time, and is reported done.
Accounted(s, o) ==
    \/ Absent(s, o) /\ outcome'[o] = outcome[o]
    \/ Absent(s, o) /\ NoEffect(o) /\ (outcome'[o] = "done" => <<o, "COMMIT">> \in ignored')
    \/ Block(s, o) /\ NoEffect(o) /\ outcome'[o] = "done"

LEMMA AllOrNothingAppend ==
    ASSUME TypeOK, AllOrNothing, HistoriesGrow,
           NEW s \in Seq(Ops \X Nat), db' = db \o s,
           \A o \in Ops : Framed(o)' => Accounted(s, o),
           \A o \in Singles \ adopted' : outcome'[o] = "done" => outcome[o] = "done" \/ ~Absent(s, o)
    PROVE  AllOrNothing'
<1>1. ASSUME NEW o \in Ops, Framed(o)'
      PROVE  \/ TookEffect(o)' /\ outcome'[o] = "done"
             \/ NoEffect(o)' /\ (outcome'[o] = "done" => <<o, "COMMIT">> \in ignored')
  <2>1. Framed(o) BY <1>1, FramedBefore
  <2>2. \/ TookEffect(o) /\ outcome[o] = "done"
        \/ NoEffect(o) /\ (outcome[o] = "done" => <<o, "COMMIT">> \in ignored)
    BY <2>1 DEF AllOrNothing
  <2>3. Accounted(s, o) BY <1>1
  <2>4. CASE Absent(s, o) /\ outcome'[o] = outcome[o]
    <3>1. (TookEffect(o) => TookEffect(o)') /\ (NoEffect(o) <=> NoEffect(o)') BY <2>4, OthersKeep
    <3> QED BY <2>2, <2>4, <3>1 DEF HistoriesGrow
  <2>5. CASE Absent(s, o) /\ NoEffect(o) /\ (outcome'[o] = "done" => <<o, "COMMIT">> \in ignored')
    <3>1. NoEffect(o)' BY <2>5, OthersKeep
    <3> QED BY <2>5, <3>1
  <2>6. CASE Block(s, o) /\ NoEffect(o) /\ outcome'[o] = "done"
    <3>1. TookEffect(o)' BY <2>6, BlockAppended
    <3> QED BY <2>6, <3>1
  <2> QED BY <2>3, <2>4, <2>5, <2>6 DEF Accounted
<1>2. ASSUME NEW o \in Singles \ adopted', outcome'[o] = "done" PROVE ~NoEffect(o)'
  <2>1. CASE outcome[o] = "done"
    <3>1. ~NoEffect(o) BY <1>2, <2>1 DEF AllOrNothing, HistoriesGrow
    <3>2. PICK j \in DOMAIN db : db[j][1] = o BY <3>1 DEF NoEffect
    <3>3. j \in DOMAIN db' /\ db'[j] = db[j] BY AppendTo
    <3> QED BY <3>2, <3>3 DEF NoEffect
  <2>2. CASE ~Absent(s, o)
    <3>1. PICK k \in DOMAIN s : s[k][1] = o BY <2>2 DEF Absent
    <3>2. Len(db) + k \in DOMAIN db' /\ db'[Len(db) + k] = s[k] BY AppendTo
    <3> QED BY <3>1, <3>2 DEF NoEffect
  <2> QED BY <1>2, <2>1, <2>2
<1> QED BY <1>1, <1>2 DEF AllOrNothing

\* A command makes effective what is pending on its connection, or a statement
\* of its operation alone, or nothing.
LEMMA EffectOf ==
    ASSUME IInv, NEW c \in Conns, op[c] # None
    PROVE  /\ TakesEffect(c) \in Seq(Ops \X Nat)
           /\ \/ TakesEffect(c) = pend[c] /\ Command(c) \in {"START TRANSACTION", "COMMIT"}
              \/ /\ \A j \in DOMAIN TakesEffect(c) : TakesEffect(c)[j][1] = op[c]
                 /\ Command(c) \notin {"START TRANSACTION", "COMMIT"}
           /\ \A j \in DOMAIN TakesEffect(c) :
                 TakesEffect(c)[j][1] = op[c] \/ ~Absent(pend[c], TakesEffect(c)[j][1])
<1>1. TypeOK /\ SingleCommand BY DEF IInv
<1>2. CASE Command(c) \in {"START TRANSACTION", "COMMIT"}
  <2>1. TakesEffect(c) = pend[c] /\ pend[c] \in Seq(Ops \X Nat) BY <1>1, <1>2 DEF TakesEffect, TypeOK
  <2> QED BY <1>2, <2>1 DEF Absent
<1>3. CASE Command(c) = "statement" /\ c \notin trans
  <2>1. Statement(c) \in Ops \X Nat BY <1>1, <1>3, EffectType
  <2>2. TakesEffect(c) = <<Statement(c)>> BY <1>3 DEF TakesEffect
  <2>3. Statement(c)[1] = op[c] BY DEF Statement
  <2> QED BY <1>3, <2>1, <2>2, <2>3
<1>4. CASE /\ Command(c) \notin {"START TRANSACTION", "COMMIT"}
           /\ ~(Command(c) = "statement" /\ c \notin trans)
  <2>1. TakesEffect(c) = <<>> BY <1>4 DEF TakesEffect
  <2>2. TakesEffect(c) \in Seq(Ops \X Nat) /\ DOMAIN TakesEffect(c) = {} BY <2>1
  <2> QED BY <1>4, <2>2, Zenon
<1> QED BY <1>2, <1>3, <1>4

\* The statements that wait on the other connections are kept by a command of
\* one, which makes none of them effective.
LEMMA OtherPending ==
    ASSUME IInv, EffectInv, HistoriesGrow, NEW c \in Conns, op[c] \in Ops, outcome[op[c]] = "issued",
           NEW s \in Seq(Ops \X Nat), db' = db \o s,
           \A j \in DOMAIN s : s[j][1] = op[c] \/ ~Absent(pend[c], s[j][1]),
           \A o \in Ops \ {op[c]} : outcome'[o] = outcome[o],
           NEW d \in Conns \ {c}, op'[d] = op[d], at'[d] = at[d], pend'[d] = pend[d],
           NEW o, ~Absent(pend[d], o)
    PROVE  PendingAt(d, o)'
<1>1. PendingAt(d, o) BY DEF EffectInv, Pending, Absent
<1>2. CASE o = op[d] /\ o \in Transactions /\ at[d] # 1 BY <1>2 DEF PendingAt
<1>3. CASE ~Framed(o)
  <2>1. ~(Framed(o)') BY <1>3, FramedBefore
  <2> QED BY <2>1 DEF PendingAt
<1>4. CASE Framed(o) /\ WholeAtFront(d, o)
  <2>1. /\ o \in Transactions /\ outcome[o] = "done" /\ <<o, "COMMIT">> \in ignored
        /\ NoEffect(o) /\ Block(pend[d], o)
    BY <1>4 DEF WholeAtFront
  <2>2. o # op[c] /\ o \in Ops BY <2>1 DEF Ops
  <2>3. Absent(pend[c], o)
    <3> SUFFICES ASSUME NEW j \in DOMAIN pend[c], pend[c][j][1] = o PROVE FALSE
      BY DEF Absent
    <3>1. PICK k \in DOMAIN pend[d] : pend[d][k][1] = o BY DEF Absent
    <3>2. c = d BY <1>4, <3>1 DEF EffectInv, PendApart
    <3> QED BY <3>2
  <2>4. Absent(s, o) BY <2>2, <2>3 DEF Absent
  <2>5. TypeOK BY DEF IInv
  <2>6. NoEffect(o)' BY <2>1, <2>4, <2>5, OthersKeep
  <2>7. outcome'[o] = "done" /\ <<o, "COMMIT">> \in ignored' BY <2>1, <2>2 DEF HistoriesGrow
  <2>8. Block(pend[d], o)' BY <2>1 DEF Block
  <2>9. WholeAtFront(d, o)' BY <2>1, <2>6, <2>7, <2>8 DEF WholeAtFront
  <2> QED BY <2>9 DEF PendingAt
<1> QED BY <1>1, <1>2, <1>3, <1>4 DEF PendingAt

\* The operation of a connection waits on no other.
LEMMA OwnElsewhere ==
    ASSUME EffectInv, NEW c \in Conns, op[c] # None, NEW d \in Conns \ {c}, Framed(op[c])
    PROVE  Absent(pend[d], op[c])
<1> SUFFICES ASSUME ~Absent(pend[d], op[c]) PROVE FALSE
  OBVIOUS
<1>1. PendingAt(d, op[c]) BY DEF EffectInv, Pending, Absent
<1>2. op[d] # op[c] /\ outcome[op[c]] = "issued" BY DEF EffectInv, OnePlace
<1> QED BY <1>1, <1>2 DEF PendingAt, WholeAtFront

\* Two connections hold statements of one operation only if it lost its frame.
LEMMA ApartKept ==
    ASSUME EffectInv, HistoriesGrow, NEW c \in Conns, op[c] # None,
           \A d \in Conns \ {c} : pend'[d] = pend[d],
           \A j \in DOMAIN pend'[c] : pend'[c][j][1] = op[c] \/ ~Absent(pend[c], pend'[c][j][1])
    PROVE  PendApart'
<1>1. ASSUME NEW d \in Conns \ {c}, NEW j \in DOMAIN pend'[c], NEW k \in DOMAIN pend[d],
             pend'[c][j][1] = pend[d][k][1], Framed(pend[d][k][1])
      PROVE  FALSE
  <2>1. CASE pend'[c][j][1] = op[c]
    <3>1. Absent(pend[d], op[c]) BY <1>1, <2>1, OwnElsewhere
    <3> QED BY <1>1, <2>1, <3>1 DEF Absent
  <2>2. CASE ~Absent(pend[c], pend'[c][j][1])
    <3>1. PICK i \in DOMAIN pend[c] : pend[c][i][1] = pend[d][k][1] BY <1>1, <2>2 DEF Absent
    <3>2. c = d BY <1>1, <3>1 DEF EffectInv, PendApart
    <3> QED BY <3>2
  <2> QED BY <2>1, <2>2
<1> SUFFICES ASSUME NEW a \in Conns, NEW b \in Conns, NEW j \in DOMAIN pend'[a], NEW k \in DOMAIN pend'[b],
                    pend'[a][j][1] = pend'[b][k][1], Framed(pend[a][j][1])'
             PROVE  a = b
  BY DEF PendApart
<1>2. Framed(pend'[a][j][1])
  <2> DEFINE o == pend'[a][j][1]
  <2>1. Framed(pend[a][j][1])' => Framed(o) BY DEF HistoriesGrow, Framed
  <2> QED BY <2>1
<1>3. CASE a = c /\ b # c BY <1>1, <1>2, <1>3
<1>4. CASE a # c /\ b = c BY <1>1, <1>2, <1>4
<1>5. CASE a # c /\ b # c BY <1>2, <1>5 DEF EffectInv, PendApart
<1> QED BY <1>3, <1>4, <1>5

\* A block keeps its place when something else is appended.
LEMMA BlockGrows ==
    ASSUME NEW s \in Seq(Ops \X Nat), NEW e \in Ops \X Nat, NEW o, e[1] # o, Block(s, o)
    PROVE  Block(Append(s, e), o)
<1> DEFINE size == IF o \in Transactions THEN Size ELSE 1
<1>1. size \in Nat \ {0} BY PoolAssumption
<1>2. /\ size <= Len(s)
      /\ \A k \in 1 .. size : s[k] = <<o, k>>
      /\ \A j \in DOMAIN s : s[j][1] = o => j \in 1 .. size
  BY DEF Block
<1> HIDE DEF size
<1>3. /\ Len(s) \in Nat /\ DOMAIN s = 1 .. Len(s)
      /\ Len(Append(s, e)) = Len(s) + 1 /\ DOMAIN Append(s, e) = 1 .. Len(s) + 1
      /\ \A k \in 1 .. Len(s) : Append(s, e)[k] = s[k]
      /\ Append(s, e)[Len(s) + 1] = e
  OBVIOUS
<1>4. \A k \in 1 .. size : Append(s, e)[k] = <<o, k>>
  <2>1. \A k \in 1 .. size : k \in 1 .. Len(s) BY <1>1, <1>2, <1>3
  <2> QED BY <1>2, <1>3, <2>1
<1>5. \A j \in DOMAIN Append(s, e) : Append(s, e)[j][1] = o => j \in 1 .. size
  <2> SUFFICES ASSUME NEW j \in 1 .. Len(s) + 1, Append(s, e)[j][1] = o PROVE j \in 1 .. size
    BY <1>3
  <2>1. j # Len(s) + 1 /\ Len(s) \in Nat BY <1>3
  <2>2. j \in 1 .. Len(s) BY <2>1
  <2> QED BY <1>2, <1>3, <2>2
<1> QED BY <1>1, <1>2, <1>3, <1>4, <1>5 DEF Block, size

\* What an earlier operation left on a connection stays there, before what the
\* present one adds.
LEMMA LeftOverStays ==
    ASSUME IInv, EffectInv, HistoriesGrow, NEW c \in Conns, op[c] \in Ops, db' = db,
           \A o \in Ops \ {op[c]} : outcome'[o] = outcome[o],
           \/ pend'[c] = pend[c]
           \/ pend'[c] = Append(pend[c], Statement(c)) /\ Statement(c) \in Ops \X Nat,
           NEW o, o # op[c], ~Absent(pend[c], o)
    PROVE  PendingAt(c, o)'
<1>1. PendingAt(c, o) BY DEF EffectInv, Pending, Absent
<1>2. CASE ~Framed(o)
  <2>1. ~(Framed(o)') BY <1>2, FramedBefore
  <2> QED BY <2>1 DEF PendingAt
<1>3. CASE WholeAtFront(c, o)
  <2>1. /\ o \in Transactions /\ outcome[o] = "done" /\ <<o, "COMMIT">> \in ignored
        /\ NoEffect(o) /\ Block(pend[c], o)
    BY <1>3 DEF WholeAtFront
  <2>2. o \in Ops BY <2>1 DEF Ops
  <2>3. NoEffect(o)' BY <2>1 DEF NoEffect
  <2>4. outcome'[o] = "done" /\ <<o, "COMMIT">> \in ignored' BY <2>1, <2>2 DEF HistoriesGrow
  <2>5. Block(pend[c], o)'
    <3>1. CASE pend'[c] = pend[c] BY <2>1, <3>1 DEF Block
    <3>2. CASE pend'[c] = Append(pend[c], Statement(c)) /\ Statement(c) \in Ops \X Nat
      <4>0. pend[c] \in Seq(Ops \X Nat) BY DEF IInv, TypeOK
      <4>1. Statement(c)[1] # o BY DEF Statement
      <4>2. Block(Append(pend[c], Statement(c)), o) BY <2>1, <3>2, <4>0, <4>1, BlockGrows
      <4>3. Block(pend'[c], o) BY <3>2, <4>2
      <4> QED BY <4>3 DEF Block
    <3> QED BY <3>1, <3>2
  <2>6. WholeAtFront(c, o)' BY <2>1, <2>3, <2>4, <2>5 DEF WholeAtFront
  <2> QED BY <2>6 DEF PendingAt
<1> QED BY <1>1, <1>2, <1>3 DEF PendingAt

\* Progress is kept by a step that touches one connection if it is kept there.
LEMMA ProgressAt ==
    ASSUME Progress, HistoriesGrow, NEW c \in Conns,
           \A d \in Conns \ {c} :
               /\ op'[d] = op[d] /\ at'[d] = at[d] /\ link'[d] = link[d]
               /\ pend'[d] = pend[d] /\ (d \in trans <=> d \in trans'),
           link'[c] = "lost" => op'[c] \in broken',
           op'[c] \in Transactions /\ Framed(op[c])' =>
               /\ link'[c] = "up" /\ at'[c] >= 2 =>
                     /\ c \in trans' /\ Len(pend'[c]) = at'[c] - 2
                     /\ \A j \in DOMAIN pend'[c] : pend'[c][j] = <<op'[c], j>>
               /\ link'[c] = "null" => at'[c] <= 2
    PROVE  Progress'
<1>1. ASSUME NEW d \in Conns, link'[d] = "lost" PROVE op'[d] \in broken'
  BY <1>1 DEF Progress, HistoriesGrow
<1>2. ASSUME NEW d \in Conns, op'[d] \in Transactions, Framed(op[d])'
      PROVE  /\ link'[d] = "up" /\ at'[d] >= 2 =>
                   /\ d \in trans' /\ Len(pend'[d]) = at'[d] - 2
                   /\ \A j \in DOMAIN pend'[d] : pend'[d][j] = <<op'[d], j>>
             /\ link'[d] = "null" => at'[d] <= 2
  <2>1. CASE d = c BY <1>2, <2>1
  <2>2. CASE d # c
    <3>1. /\ op'[d] = op[d] /\ at'[d] = at[d] /\ link'[d] = link[d]
          /\ pend'[d] = pend[d] /\ (d \in trans <=> d \in trans')
      BY <2>2
    <3>2. Framed(op[d]) BY <1>2, <3>1 DEF HistoriesGrow, Framed
    <3> QED BY <1>2, <3>1, <3>2 DEF Progress
  <2> QED BY <2>1, <2>2
<1> QED BY <1>1, <1>2 DEF Progress

\* A step that leaves the database and what waits for it as they are, or drops
\* what waits, and ends no operation well.
LEMMA QuietStep ==
    ASSUME EffectInv, UNCHANGED <<db, broken, ignored, adopted>>,
           \A o \in Ops : outcome'[o] = "done" <=> outcome[o] = "done",
           \A d \in Conns :
               /\ pend'[d] = pend[d] \/ pend'[d] = <<>>
               /\ op[d] = None \/ (op'[d] = op[d] /\ at'[d] = at[d])
    PROVE  Pending' /\ PendApart' /\ AllOrNothing'
<1>1. /\ \A o : (TookEffect(o)' <=> TookEffect(o)) /\ (NoEffect(o)' <=> NoEffect(o))
  BY DEF TookEffect, NoEffect
<1>2. \A o : Framed(o)' <=> Framed(o) BY DEF Framed
<1>3. \A o \in Singles : o \in Ops BY DEF Ops
<1>4. AllOrNothing'
  <2>1. AllOrNothing BY DEF EffectInv
  <2>2. ASSUME NEW o \in Ops, Framed(o)'
        PROVE  \/ TookEffect(o)' /\ outcome'[o] = "done"
               \/ NoEffect(o)' /\ (outcome'[o] = "done" => <<o, "COMMIT">> \in ignored')
    BY <1>1, <1>2, <2>1, <2>2 DEF AllOrNothing
  <2>3. ASSUME NEW o \in Singles \ adopted', outcome'[o] = "done" PROVE ~NoEffect(o)'
    BY <1>1, <1>3, <2>1, <2>3 DEF AllOrNothing
  <2> QED BY <2>2, <2>3 DEF AllOrNothing
<1>5. Pending'
  <2> SUFFICES ASSUME NEW d \in Conns, NEW j \in DOMAIN pend'[d] PROVE PendingAt(d, pend[d][j][1])'
    BY DEF Pending
  <2> DEFINE o == pend[d][j][1]
  <2>1. pend'[d] = pend[d] /\ j \in DOMAIN pend[d] OBVIOUS
  <2>2. PendingAt(d, o) BY <2>1 DEF EffectInv, Pending
  <2>3. CASE o = op[d] /\ o \in Transactions /\ at[d] # 1
    <3>1. op[d] # None BY <2>3, PoolAssumption DEF Ops
    <3>2. op'[d] = op[d] /\ at'[d] = at[d] BY <3>1
    <3> QED BY <2>1, <2>3, <3>2 DEF PendingAt
  <2>4. CASE ~Framed(o)
    <3>1. ~(Framed(pend[d][j][1])') BY <2>1, <2>4 DEF Framed
    <3> QED BY <3>1 DEF PendingAt
  <2>5. CASE WholeAtFront(d, o)
    <3>1. o \in Ops BY <2>5 DEF WholeAtFront, Ops
    <3>2. NoEffect(o)' /\ outcome'[o] = "done" BY <1>1, <2>5, <3>1 DEF WholeAtFront
    <3>3. WholeAtFront(d, o)' BY <2>1, <2>5, <3>2 DEF WholeAtFront, Block
    <3>4. WholeAtFront(d, pend[d][j][1])' BY <2>1, <3>3
    <3> QED BY <3>4 DEF PendingAt
  <2> QED BY <2>2, <2>3, <2>4, <2>5 DEF PendingAt
<1>6. PendApart'
  <2> SUFFICES ASSUME NEW a \in Conns, NEW b \in Conns, NEW j \in DOMAIN pend'[a], NEW k \in DOMAIN pend'[b],
                      pend'[a][j][1] = pend'[b][k][1], Framed(pend[a][j][1])'
               PROVE  a = b
    BY DEF PendApart
  <2>1. pend'[a] = pend[a] /\ pend'[b] = pend[b] OBVIOUS
  <2>2. Framed(pend[a][j][1]) BY <2>1 DEF Framed
  <2> QED BY <2>1, <2>2 DEF EffectInv, PendApart
<1> QED BY <1>4, <1>5, <1>6

\* The step of a call, from what becomes of each operation and of what waits on
\* its connection.
LEMMA CallEffect ==
    ASSUME IInv, EffectInv, HistoriesGrow, NEW c \in Conns, op[c] \in Ops, outcome[op[c]] = "issued",
           NEW s \in Seq(Ops \X Nat), db' = db \o s,
           \A j \in DOMAIN s : s[j][1] = op[c] \/ ~Absent(pend[c], s[j][1]),
           \A o \in Ops \ {op[c]} : outcome'[o] = outcome[o],
           \A d \in Conns \ {c} : op'[d] = op[d] /\ at'[d] = at[d] /\ pend'[d] = pend[d],
           \A j \in DOMAIN pend'[c] : pend'[c][j][1] = op[c] \/ ~Absent(pend[c], pend'[c][j][1]),
           \A j \in DOMAIN pend'[c] : PendingAt(c, pend[c][j][1])',
           \A o \in Ops : Framed(o)' => Accounted(s, o),
           \A o \in Singles \ adopted' : outcome'[o] = "done" => outcome[o] = "done" \/ ~Absent(s, o),
           OnePlace', Progress'
    PROVE  EffectInv'
<1>1. op[c] # None /\ TypeOK BY PoolAssumption DEF IInv
<1>2. AllOrNothing'
  <2>1. AllOrNothing BY DEF EffectInv
  <2> QED BY <1>1, <2>1, AllOrNothingAppend
<1>3. PendApart'
  <2>1. \A d \in Conns \ {c} : pend'[d] = pend[d] OBVIOUS
  <2> QED BY <1>1, <2>1, ApartKept
<1>4. Pending'
  <2> SUFFICES ASSUME NEW d \in Conns, NEW j \in DOMAIN pend'[d] PROVE PendingAt(d, pend[d][j][1])'
    BY DEF Pending
  <2>1. CASE d = c BY <2>1
  <2>2. CASE d # c
    <3>1. d \in Conns \ {c} /\ op'[d] = op[d] /\ at'[d] = at[d] /\ pend'[d] = pend[d] BY <2>2
    <3>2. ~Absent(pend[d], pend[d][j][1]) BY <3>1 DEF Absent
    <3>3. PICK o : o = pend[d][j][1] OBVIOUS
    <3>4. PendingAt(d, o)' BY <3>1, <3>2, <3>3, OtherPending
    <3> QED BY <3>1, <3>3, <3>4
  <2> QED BY <2>1, <2>2
<1> QED BY <1>2, <1>3, <1>4 DEF EffectInv

\* What becomes of the other operations when a command takes effect.
LEMMA OtherAccounted ==
    ASSUME IInv, EffectInv, HistoriesGrow, NEW c \in Conns, op[c] \in Ops,
           NEW o \in Ops \ {op[c]}, outcome'[o] = outcome[o], Framed(o)'
    PROVE  Accounted(TakesEffect(c), o)
<1>1. Framed(o) BY FramedBefore
<1>2. op[c] # None BY PoolAssumption
<1>3. CASE TakesEffect(c) = pend[c]
  <2>1. CASE Absent(pend[c], o) BY <1>3, <2>1 DEF Accounted
  <2>2. CASE ~Absent(pend[c], o)
    <3>1. PendingAt(c, o) BY <2>2 DEF EffectInv, Pending, Absent
    <3>2. WholeAtFront(c, o) BY <1>1, <3>1 DEF PendingAt
    <3> QED BY <1>3, <3>2 DEF WholeAtFront, Accounted
  <2> QED BY <2>1, <2>2
<1>4. CASE \A j \in DOMAIN TakesEffect(c) : TakesEffect(c)[j][1] = op[c]
  BY <1>4 DEF Accounted, Absent
<1> QED BY <1>2, <1>3, <1>4, EffectOf

\* An operation that is executed and kept its frame had no effect yet.
LEMMA NotYet ==
    ASSUME EffectInv, NEW o \in Ops, outcome[o] = "issued", Framed(o) PROVE NoEffect(o)
BY DEF EffectInv, AllOrNothing

\* A command that fails, and anything without a handle: nothing takes effect.
LEMMA FailsEffect ==
    ASSUME IInv, EffectInv, HistoriesGrow, NEW c \in Conns, op[c] # None,
           NEW errno, Returns(c, FALSE, errno), UNCHANGED poolVars, db' = db,
           \A d \in Conns \ {c} :
               link'[d] = link[d] /\ pend'[d] = pend[d] /\ (d \in trans <=> d \in trans'),
           link'[c] \in {"up", "null"},
           pend'[c] = pend[c] \/ pend'[c] = <<>>,
           link'[c] = "up" =>
               link[c] = "up" /\ (Command(c) # "statement" => <<op[c], Command(c)>> \in ignored'),
           link'[c] = "null" => pend'[c] = <<>> /\ (link[c] = "null" \/ op[c] \in broken)
    PROVE  EffectInv'
<1> USE PoolAssumption
<1>1. TypeOK /\ SingleCommand /\ OnePlace /\ Progress BY DEF IInv, EffectInv
<1>2. /\ OnePlace'
      /\ op[c] \in Ops /\ outcome[op[c]] = "issued"
      /\ \A o \in Ops \ {op[c]} : outcome'[o] = outcome[o]
      /\ \A d \in Conns \ {c} : op'[d] = op[d] /\ at'[d] = at[d]
  BY <1>1, OnePlaceCall
<1>3. /\ op \in [Conns -> Ops \cup {None}] /\ at \in [Conns -> 0 .. Size + 2]
      /\ outcome \in [Ops -> {"none", "issued", "done", "failed", "dropped"}]
      /\ db \in Seq(Ops \X Nat) /\ pend \in [Conns -> Seq(Ops \X Nat)]
  BY <1>1 DEF TypeOK
<1>4. db' = db \o <<>> /\ <<>> \in Seq(Ops \X Nat) /\ DOMAIN <<>> = {} BY <1>3
<1>5. \A o : Absent(<<>>, o) BY DEF Absent
<1>6. \A j \in DOMAIN pend'[c] : pend'[c] = pend[c] /\ ~Absent(pend[c], pend'[c][j][1]) /\ link'[c] = "up"
  <2> SUFFICES ASSUME NEW j \in DOMAIN pend'[c]
               PROVE  pend'[c] = pend[c] /\ ~Absent(pend[c], pend'[c][j][1]) /\ link'[c] = "up"
    OBVIOUS
  <2>1. pend'[c] # <<>> OBVIOUS
  <2> QED BY <2>1 DEF Absent
<1>7. \A o \in Ops \ {op[c]} : Accounted(<<>>, o) BY <1>2, <1>5 DEF Accounted
<1>8. PICK x : x = op[c] OBVIOUS
<1>9. ASSUME NEW j \in DOMAIN pend'[c], x \in Transactions /\ at[c] # 1 => PendingAt(c, x)'
      PROVE  PendingAt(c, pend[c][j][1])'
  <2>1. PICK o : o = pend'[c][j][1] OBVIOUS
  <2>2. pend'[c] = pend[c] /\ ~Absent(pend[c], o) BY <1>6, <2>1
  <2>3. PendingAt(c, o) BY <2>2 DEF EffectInv, Pending, Absent
  <2>4. PendingAt(c, o)'
    <3>1. CASE o # op[c] BY <1>2, <2>2, <3>1, LeftOverStays
    <3>2. CASE o = x /\ o \in Transactions /\ at[c] # 1 BY <1>9, <3>2
    <3>3. CASE ~Framed(o)
      <4>1. ~(Framed(o)') BY <3>3, FramedBefore
      <4> QED BY <4>1 DEF PendingAt
    <3>4. CASE o = op[c] /\ WholeAtFront(c, o) BY <1>2, <3>4 DEF WholeAtFront
    <3> QED BY <1>8, <2>3, <3>1, <3>2, <3>3, <3>4 DEF PendingAt
  <2> QED BY <2>1, <2>4
<1>10. /\ \A j \in DOMAIN <<>> : <<>>[j][1] = op[c] \/ ~Absent(pend[c], <<>>[j][1])
       /\ \A j \in DOMAIN pend'[c] : pend'[c][j][1] = op[c] \/ ~Absent(pend[c], pend'[c][j][1])
       /\ \A d \in Conns \ {c} : op'[d] = op[d] /\ at'[d] = at[d] /\ pend'[d] = pend[d]
  BY <1>2, <1>4, <1>6
<1>11. CASE Ends(c, FALSE)
  <2>1. PICK r \in {"done", "failed"} :
           /\ op' = [op EXCEPT ![c] = None] /\ at' = [at EXCEPT ![c] = 0]
           /\ outcome' = [outcome EXCEPT ![op[c]] = r]
           /\ r = "done" <=> Command(c) = "COMMIT"
           /\ op[c] \in Singles \/ Command(c) \in {"ROLLBACK", "COMMIT"}
    BY <1>11 DEF Ends
  <2>2. op'[c] = None /\ outcome'[x] = r BY <1>2, <1>3, <1>8, <2>1
  <2>3. op'[c] \notin Transactions BY <2>2 DEF Ops
  <2>4. Progress' BY <1>1, <1>2, <2>3, ProgressAt
  <2>5. Command(c) = "COMMIT" => x \in Transactions /\ x \notin Singles /\ at[c] = Size + 2
    BY <1>1, <1>8, CommandCases
  <2>6. ASSUME Framed(x)', Command(c) = "COMMIT" PROVE link'[c] = "up" /\ <<x, "COMMIT">> \in ignored'
    <3>1. Framed(x) BY <2>6, FramedBefore
    <3>2. x \notin broken BY <3>1 DEF Framed
    <3>3. ~(at[c] <= 2) BY <2>5, <2>6
    <3>4. link[c] # "null" BY <1>1, <1>8, <2>5, <2>6, <3>1, <3>3 DEF Progress
    <3>5. link'[c] = "up" BY <1>8, <3>2, <3>4
    <3> QED BY <1>8, <2>6, <3>5
  <2>7. ASSUME Framed(x)' PROVE Accounted(<<>>, x) /\ NoEffect(x)'
    <3>1. Framed(x) BY <2>7, FramedBefore
    <3>2. NoEffect(x) BY <1>2, <1>8, <3>1, NotYet
    <3>3. outcome'[x] = "done" => <<x, "COMMIT">> \in ignored' BY <2>1, <2>2, <2>6, <2>7
    <3>4. NoEffect(x)' BY <3>2 DEF NoEffect
    <3> QED BY <1>5, <3>2, <3>3, <3>4 DEF Accounted
  <2>8. ASSUME NEW o \in Singles \ adopted', outcome'[o] = "done" PROVE outcome[o] = "done"
    <3>1. o \in Ops BY DEF Ops
    <3>2. o # x BY <2>1, <2>2, <2>5, <2>8
    <3> QED BY <1>2, <1>8, <2>8, <3>1, <3>2
  <2>9. ASSUME NEW j \in DOMAIN pend'[c], x \in Transactions, at[c] # 1 PROVE PendingAt(c, x)'
    <3>1. pend'[c] = pend[c] /\ link'[c] = "up" BY <1>6
    <3>2. x \notin Singles BY <2>9
    <3>3. CASE Command(c) = "ROLLBACK"
      <4>1. <<x, "ROLLBACK">> \in ignored' BY <1>8, <3>1, <3>3
      <4>2. ~(Framed(x)') BY <4>1 DEF Framed
      <4> QED BY <4>2 DEF PendingAt
    <3>4. CASE Command(c) = "COMMIT" /\ Framed(x)'
      <4>1. Framed(x) BY <3>4, FramedBefore
      <4>2. link[c] = "up" /\ <<x, "COMMIT">> \in ignored' BY <2>6, <3>1, <3>4
      <4>3. at[c] = Size + 2 /\ at[c] >= 2 BY <2>5, <3>4
      <4>4. Len(pend[c]) = at[c] - 2 /\ \A i \in DOMAIN pend[c] : pend[c][i] = <<x, i>>
        BY <1>1, <1>8, <2>9, <4>1, <4>2, <4>3 DEF Progress
      <4>5. pend[c] \in Seq(Ops \X Nat) BY <1>3
      <4>6. Len(pend[c]) = Size /\ DOMAIN pend[c] = 1 .. Size BY <4>3, <4>4, <4>5
      <4>7. Block(pend[c], x) BY <2>9, <4>4, <4>6 DEF Block
      <4>8. Block(pend'[c], x) BY <3>1, <4>7
      <4>9. outcome'[x] = "done" BY <2>1, <2>2, <3>4
      <4>10. WholeAtFront(c, x)' BY <2>7, <2>9, <3>4, <4>2, <4>8, <4>9 DEF WholeAtFront
      <4> QED BY <4>10 DEF PendingAt
    <3>5. CASE ~(Framed(x)') BY <3>5 DEF PendingAt
    <3> QED BY <1>8, <2>1, <3>2, <3>3, <3>4, <3>5
  <2>10. \A j \in DOMAIN pend'[c] : PendingAt(c, pend[c][j][1])' BY <1>9, <2>9
  <2>11. /\ \A o \in Ops : Framed(o)' => Accounted(<<>>, o)
         /\ \A o \in Singles \ adopted' : outcome'[o] = "done" => outcome[o] = "done" \/ ~Absent(<<>>, o)
    BY <1>7, <1>8, <2>7, <2>8
  <2> QED BY <1>2, <1>4, <1>10, <2>4, <2>10, <2>11, CallEffect
<1>12. CASE GoesOn(c, FALSE)
  <2>1. PICK k \in 0 .. Size + 2 :
           /\ op' = op /\ at' = [at EXCEPT ![c] = k] /\ outcome' = outcome /\ op[c] \in Transactions
           /\ \/ Command(c) = "ROLLBACK" /\ k = 1
              \/ Command(c) = "statement" /\ k = 0
              \/ Command(c) = "START TRANSACTION" /\ k = 2
    BY <1>12 DEF GoesOn
  <2>2. at'[c] = k /\ op'[c] = x BY <1>3, <1>8, <2>1
  <2>3. ASSUME Framed(x)', link'[c] = "up" PROVE k = 0
    <3>1. <<x, "START TRANSACTION">> \notin ignored' /\ <<x, "ROLLBACK">> \notin ignored' BY <2>3 DEF Framed
    <3> QED BY <1>8, <2>1, <2>3, <3>1
  <2>4. Progress'
    <3>1. ASSUME Framed(op[c])', link'[c] = "up" PROVE ~(at'[c] >= 2)
      <4>1. Framed(x)' BY <2>2, <3>1
      <4>2. at'[c] = 0 BY <2>2, <2>3, <3>1, <4>1
      <4> QED BY <4>2
    <3>2. link'[c] # "lost" OBVIOUS
    <3>3. at'[c] <= 2
      <4>1. k \in {0, 1, 2} BY <2>1
      <4> QED BY <2>2, <4>1
    <3> QED BY <1>1, <1>2, <3>1, <3>2, <3>3, ProgressAt
  <2>5. ASSUME NEW j \in DOMAIN pend'[c], x \in Transactions, at[c] # 1 PROVE PendingAt(c, x)'
    <3>1. link'[c] = "up" BY <1>6
    <3>2. CASE Framed(x)'
      <4>1. at'[c] # 1 BY <2>2, <2>3, <3>1, <3>2
      <4> QED BY <2>2, <2>5, <4>1 DEF PendingAt
    <3> QED BY <3>2 DEF PendingAt
  <2>6. \A j \in DOMAIN pend'[c] : PendingAt(c, pend[c][j][1])' BY <1>9, <2>5
  <2>7. Accounted(<<>>, x) BY <1>5, <2>1 DEF Accounted
  <2>8. /\ \A o \in Ops : Framed(o)' => Accounted(<<>>, o)
        /\ \A o \in Singles \ adopted' : outcome'[o] = "done" => outcome[o] = "done" \/ ~Absent(<<>>, o)
    BY <1>7, <1>8, <2>1, <2>7
  <2> QED BY <1>2, <1>4, <1>10, <2>4, <2>6, <2>8, CallEffect
<1> QED BY <1>1, <1>11, <1>12, ReturnsOutcome

\* The server executes the command.
LEMMA ExecuteEffect ==
    ASSUME IInv, EffectInv, NEW c \in Conns, Execute(c) PROVE EffectInv'
<1> USE PoolAssumption
<1>1. TypeOK /\ SingleCommand /\ OnePlace /\ Progress BY DEF IInv, EffectInv
<1>2. /\ op[c] # None /\ link[c] = "up" /\ Returns(c, TRUE, "none")
      /\ db' = db \o TakesEffect(c)
      /\ UNCHANGED poolVars /\ link' = link
      /\ adopted' = IF op[c] \in Singles /\ c \in trans THEN adopted \cup {op[c]} ELSE adopted
  BY DEF Execute, ServerExecutes
<1>3. HistoriesGrow BY <1>2 DEF Execute, HistoriesGrow
<1>4. /\ OnePlace'
      /\ op[c] \in Ops /\ outcome[op[c]] = "issued"
      /\ \A o \in Ops \ {op[c]} : outcome'[o] = outcome[o]
      /\ \A d \in Conns \ {c} : op'[d] = op[d] /\ at'[d] = at[d]
  BY <1>1, <1>2, OnePlaceCall
<1>5. /\ op \in [Conns -> Ops \cup {None}] /\ at \in [Conns -> 0 .. Size + 2]
      /\ outcome \in [Ops -> {"none", "issued", "done", "failed", "dropped"}]
      /\ pend \in [Conns -> Seq(Ops \X Nat)] /\ trans \subseteq Conns
  BY <1>1 DEF TypeOK
<1>6. /\ \A d \in Conns \ {c} : pend'[d] = pend[d] /\ (d \in trans <=> d \in trans')
      /\ pend'[c] = IF Command(c) = "statement" /\ c \in trans THEN Append(pend[c], Statement(c)) ELSE <<>>
      /\ Command(c) = "START TRANSACTION" => c \in trans'
      /\ Command(c) = "statement" => trans' = trans
  BY <1>5 DEF Execute, ServerExecutes
<1>7. PICK x : x = op[c] OBVIOUS
<1>8. ASSUME Framed(x) PROVE NoEffect(x) BY <1>4, <1>7, <1>8, NotYet
<1>9. ASSUME Framed(x), x \in Transactions, at[c] >= 2
      PROVE  c \in trans /\ Len(pend[c]) = at[c] - 2 /\ \A j \in DOMAIN pend[c] : pend[c][j] = <<x, j>>
  BY <1>1, <1>2, <1>7, <1>9 DEF Progress
<1>10. /\ TakesEffect(c) \in Seq(Ops \X Nat)
       /\ \A j \in DOMAIN TakesEffect(c) :
             TakesEffect(c)[j][1] = op[c] \/ ~Absent(pend[c], TakesEffect(c)[j][1])
  BY <1>2, EffectOf
<1>11. ASSUME NEW o \in Ops \ {x}, Framed(o)' PROVE Accounted(TakesEffect(c), o)
  BY <1>3, <1>4, <1>7, <1>11, OtherAccounted
<1>12. Statement(c) = <<x, IF x \in Transactions THEN at[c] - 1 ELSE 1>> /\ Statement(c)[1] = x
  BY <1>7 DEF Statement
<1>13. Command(c) = "statement" => Statement(c) \in Ops \X Nat BY <1>1, <1>2, EffectType
<1>14. \A j \in DOMAIN pend'[c] :
          /\ Command(c) = "statement" /\ c \in trans
          /\ pend'[c][j][1] = x \/ ~Absent(pend[c], pend'[c][j][1])
  <2> SUFFICES ASSUME NEW j \in DOMAIN pend'[c]
               PROVE  /\ Command(c) = "statement" /\ c \in trans
                      /\ pend'[c][j][1] = x \/ ~Absent(pend[c], pend'[c][j][1])
    OBVIOUS
  <2>1. Command(c) = "statement" /\ c \in trans
    <3>1. pend'[c] # <<>> OBVIOUS
    <3> QED BY <1>6, <3>1
  <2>2. pend'[c] = Append(pend[c], Statement(c)) /\ pend[c] \in Seq(Ops \X Nat) BY <1>5, <1>6, <2>1
  <2>3. (j \in DOMAIN pend[c] /\ pend'[c][j] = pend[c][j]) \/ pend'[c][j] = Statement(c) BY <2>2
  <2> QED BY <1>12, <2>1, <2>3 DEF Absent
<1>15. ASSUME Command(c) # "statement" \/ c \notin trans, NEW j \in DOMAIN pend'[c] PROVE FALSE
  BY <1>14, <1>15
<1>16. ASSUME db' = db, NEW j \in DOMAIN pend'[c], PendingAt(c, x)' PROVE PendingAt(c, pend[c][j][1])'
  <2>1. PICK o : o = pend'[c][j][1] OBVIOUS
  <2>2. Command(c) = "statement" /\ c \in trans /\ (o = x \/ ~Absent(pend[c], o)) BY <1>14, <2>1
  <2>3. pend'[c] = Append(pend[c], Statement(c)) /\ Statement(c) \in Ops \X Nat BY <1>6, <1>13, <2>2
  <2>4. PendingAt(c, o)'
    <3>1. CASE o = x BY <1>16, <3>1
    <3>2. CASE o # x BY <1>3, <1>4, <1>7, <1>16, <2>2, <2>3, <3>2, LeftOverStays
    <3> QED BY <3>1, <3>2
  <2> QED BY <2>1, <2>4
<1>17. ASSUME Progress', \A j \in DOMAIN pend'[c] : PendingAt(c, pend[c][j][1])',
              Framed(x)' => Accounted(TakesEffect(c), x),
              x \in Singles \ adopted' => ~Absent(TakesEffect(c), x)
       PROVE  EffectInv'
  <2>1. \A o \in Ops : Framed(o)' => Accounted(TakesEffect(c), o) BY <1>4, <1>7, <1>11, <1>17
  <2>2. \A o \in Singles \ adopted' : outcome'[o] = "done" => outcome[o] = "done" \/ ~Absent(TakesEffect(c), o)
    BY <1>4, <1>7, <1>17 DEF Ops
  <2>3. \A j \in DOMAIN pend'[c] : pend'[c][j][1] = op[c] \/ ~Absent(pend[c], pend'[c][j][1]) BY <1>7, <1>14
  <2>4. \A d \in Conns \ {c} : op'[d] = op[d] /\ at'[d] = at[d] /\ pend'[d] = pend[d] BY <1>4, <1>6
  <2> QED BY <1>2, <1>3, <1>4, <1>10, <1>17, <2>1, <2>2, <2>3, <2>4, CallEffect
<1>18. CASE Ends(c, TRUE)
  <2>1. PICK r \in {"done", "failed"} :
           /\ op' = [op EXCEPT ![c] = None] /\ at' = [at EXCEPT ![c] = 0]
           /\ outcome' = [outcome EXCEPT ![op[c]] = r]
           /\ r = "done" <=> Command(c) = "COMMIT" \/ op[c] \in Singles
           /\ op[c] \in Singles \/ Command(c) \in {"ROLLBACK", "COMMIT"}
    BY <1>18 DEF Ends
  <2>2. op'[c] = None /\ outcome'[x] = r BY <1>4, <1>5, <1>7, <2>1
  <2>3. op'[c] \notin Transactions BY <2>2 DEF Ops
  <2>4. Progress'
    <3>1. \A d \in Conns \ {c} :
             /\ op'[d] = op[d] /\ at'[d] = at[d] /\ link'[d] = link[d]
             /\ pend'[d] = pend[d] /\ (d \in trans <=> d \in trans')
      BY <1>2, <1>4, <1>6
    <3>2. link'[c] # "lost" BY <1>2
    <3> QED BY <1>1, <1>3, <2>3, <3>1, <3>2, ProgressAt
  <2>5. CASE x \in Singles
    <3>1. Command(c) = "statement" /\ x \notin Transactions
      <4>1. x \notin Transactions /\ at[c] = 1 BY <1>1, <1>7, <2>5 DEF SingleCommand
      <4>2. Command(c) # "ROLLBACK"
        <5>1. at[c] # 0 BY <4>1
        <5> QED BY <1>1, <1>2, <5>1, CommandCases, Zenon
      <4>3. Command(c) # "START TRANSACTION" /\ Command(c) # "COMMIT"
        BY <1>1, <1>2, <1>7, <4>1, CommandCases, Zenon
      <4>4. Command(c) \in {"ROLLBACK", "START TRANSACTION", "COMMIT", "statement"}
        BY <1>1, <1>2, CommandCases, Zenon
      <4> QED BY <4>1, <4>2, <4>3, <4>4
    <3>2. outcome'[x] = "done" BY <1>7, <2>1, <2>2, <2>5
    <3>3. CASE c \notin trans
      <4>1. TakesEffect(c) = << <<x, 1>> >> BY <1>12, <3>1, <3>3 DEF TakesEffect
      <4>2. Block(TakesEffect(c), x) BY <3>1, <4>1 DEF Block
      <4>3. ~Absent(TakesEffect(c), x)
        <5>1. 1 \in DOMAIN TakesEffect(c) /\ TakesEffect(c)[1][1] = x BY <4>1
        <5> QED BY <5>1 DEF Absent
      <4>4. ASSUME Framed(x)' PROVE Accounted(TakesEffect(c), x)
        <5>1. Framed(x) BY <1>3, <4>4, FramedBefore
        <5> QED BY <1>8, <3>2, <4>2, <5>1 DEF Accounted
      <4>5. \A j \in DOMAIN pend'[c] : PendingAt(c, pend[c][j][1])' BY <1>15, <3>3
      <4> QED BY <1>17, <2>4, <4>3, <4>4, <4>5
    <3>4. CASE c \in trans
      <4>1. TakesEffect(c) = <<>> BY <3>1, <3>4 DEF TakesEffect
      <4>2. db' = db
        <5>1. db \in Seq(Ops \X Nat) BY <1>1 DEF TypeOK
        <5> QED BY <1>2, <4>1, <5>1
      <4>3. x \in adopted' BY <1>2, <1>7, <2>5, <3>4
      <4>4. ~(Framed(x)') BY <4>3 DEF Framed
      <4>5. PendingAt(c, x)' BY <4>4 DEF PendingAt
      <4>6. \A j \in DOMAIN pend'[c] : PendingAt(c, pend[c][j][1])' BY <1>16, <4>2, <4>5
      <4> QED BY <1>17, <2>4, <4>3, <4>4, <4>6
    <3> QED BY <3>3, <3>4
  <2>6. CASE x \notin Singles /\ Command(c) = "COMMIT"
    <3>1. x \in Transactions /\ at[c] = Size + 2 BY <1>1, <1>2, <1>7, <2>6, CommandCases
    <3>2. TakesEffect(c) = pend[c] BY <2>6 DEF TakesEffect
    <3>3. at[c] >= 2 /\ at[c] - 2 = Size BY <3>1
    <3>4. outcome'[x] = "done" BY <2>1, <2>2, <2>6
    <3>5. ASSUME Framed(x)' PROVE Accounted(TakesEffect(c), x)
      <4>1. Framed(x) BY <1>3, <3>5, FramedBefore
      <4>2. Len(pend[c]) = Size /\ \A j \in DOMAIN pend[c] : pend[c][j] = <<x, j>>
        BY <1>9, <3>1, <3>3, <4>1
      <4>3. DOMAIN pend[c] = 1 .. Size
        <5>1. pend[c] \in Seq(Ops \X Nat) BY <1>5
        <5> QED BY <4>2, <5>1
      <4>4. Block(pend[c], x) BY <3>1, <4>2, <4>3 DEF Block
      <4> QED BY <1>8, <3>2, <3>4, <4>1, <4>4 DEF Accounted
    <3>6. \A j \in DOMAIN pend'[c] : PendingAt(c, pend[c][j][1])' BY <1>15, <2>6
    <3> QED BY <1>17, <2>4, <2>6, <3>5, <3>6
  <2>7. CASE x \notin Singles /\ Command(c) = "ROLLBACK"
    <3>1. TakesEffect(c) = <<>> BY <2>7 DEF TakesEffect
    <3>2. outcome'[x] # "done" BY <1>7, <2>1, <2>2, <2>7
    <3>3. ASSUME Framed(x)' PROVE Accounted(TakesEffect(c), x)
      <4>1. Framed(x) BY <1>3, <3>3, FramedBefore
      <4>2. Absent(TakesEffect(c), x) BY <3>1 DEF Absent
      <4> QED BY <1>8, <3>2, <4>1, <4>2 DEF Accounted
    <3>4. \A j \in DOMAIN pend'[c] : PendingAt(c, pend[c][j][1])' BY <1>15, <2>7
    <3> QED BY <1>17, <2>4, <2>7, <3>3, <3>4
  <2> QED BY <1>7, <2>1, <2>5, <2>6, <2>7
<1>19. CASE GoesOn(c, TRUE)
  <2>1. PICK k \in 0 .. Size + 2 :
           /\ op' = op /\ at' = [at EXCEPT ![c] = k] /\ outcome' = outcome /\ op[c] \in Transactions
           /\ \/ Command(c) = "ROLLBACK" /\ k = 1
              \/ Command(c) = "statement" /\ k = at[c] + 1
              \/ Command(c) = "START TRANSACTION" /\ k = 2
    BY <1>19 DEF GoesOn
  <2>2. at'[c] = k /\ op'[c] = x /\ x \in Transactions /\ x \notin Singles BY <1>5, <1>7, <2>1
  <2>3. Command(c) = "statement" => at[c] \in 2 .. Size + 1 BY <1>1, <1>2, <2>1, CommandCases
  <2>4. ASSUME Framed(x)', k >= 2
        PROVE  c \in trans' /\ Len(pend'[c]) = k - 2 /\ \A j \in DOMAIN pend'[c] : pend'[c][j] = <<x, j>>
    <3>1. CASE Command(c) = "START TRANSACTION"
      <4>1. k = 2 /\ c \in trans' /\ pend'[c] = <<>> BY <1>6, <2>1, <3>1
      <4> QED BY <4>1
    <3>2. CASE Command(c) = "statement"
      <4>0. Framed(x) BY <1>3, <2>4, FramedBefore
      <4>1. at[c] \in Nat /\ at[c] >= 2 /\ k = at[c] + 1 BY <2>1, <2>3, <3>2
      <4>2. c \in trans /\ Len(pend[c]) = at[c] - 2 /\ \A j \in DOMAIN pend[c] : pend[c][j] = <<x, j>>
        BY <1>9, <2>2, <4>0, <4>1
      <4>3. pend'[c] = Append(pend[c], Statement(c)) /\ c \in trans' BY <1>6, <3>2, <4>2
      <4>4. Statement(c) = <<x, at[c] - 1>> BY <1>12, <2>2
      <4>5. pend[c] \in Seq(Ops \X Nat) BY <1>5
      <4>6. Len(pend'[c]) = k - 2 BY <4>1, <4>2, <4>3, <4>5
      <4>7. ASSUME NEW j \in DOMAIN pend'[c] PROVE pend'[c][j] = <<x, j>>
        <5>1. CASE j \in DOMAIN pend[c] BY <4>2, <4>3, <4>5, <5>1
        <5>2. CASE j = Len(pend[c]) + 1
          <6>1. pend'[c][j] = Statement(c) BY <4>3, <4>5, <5>2
          <6>2. j = at[c] - 1 BY <4>1, <4>2, <5>2
          <6> QED BY <4>4, <6>1, <6>2
        <5> QED BY <4>3, <4>5, <5>1, <5>2
      <4> QED BY <4>3, <4>6, <4>7
    <3>3. Command(c) # "ROLLBACK"
      <4>1. k # 1 BY <2>4
      <4> QED BY <2>1, <4>1
    <3> QED BY <2>1, <3>1, <3>2, <3>3
  <2>5. Progress'
    <3>1. link'[c] = "up" BY <1>2
    <3>2. ASSUME Framed(op[c])', at'[c] >= 2
          PROVE  /\ c \in trans' /\ Len(pend'[c]) = at'[c] - 2
                 /\ \A j \in DOMAIN pend'[c] : pend'[c][j] = <<op'[c], j>>
      <4>1. Framed(x)' BY <2>2, <3>2
      <4> QED BY <2>2, <2>4, <3>2, <4>1
    <3>3. \A d \in Conns \ {c} :
             /\ op'[d] = op[d] /\ at'[d] = at[d] /\ link'[d] = link[d]
             /\ pend'[d] = pend[d] /\ (d \in trans <=> d \in trans')
      BY <1>2, <1>4, <1>6
    <3> QED BY <1>1, <1>3, <3>1, <3>2, <3>3, ProgressAt
  <2>6. ASSUME Framed(x) PROVE Absent(TakesEffect(c), x)
    <3>1. CASE Command(c) = "START TRANSACTION"
      <4>1. at[c] = 1 BY <1>1, <1>2, <3>1, CommandCases
      <4>2. ~PendingAt(c, x) BY <1>4, <1>7, <2>6, <4>1 DEF PendingAt, WholeAtFront
      <4>3. Absent(pend[c], x) BY <4>2 DEF EffectInv, Pending, Absent
      <4> QED BY <3>1, <4>3 DEF TakesEffect
    <3>2. CASE Command(c) = "statement"
      <4>1. c \in trans
        <5>1. at[c] >= 2 BY <2>3, <3>2
        <5> QED BY <1>9, <2>2, <2>6, <5>1
      <4>2. TakesEffect(c) = <<>> BY <3>2, <4>1 DEF TakesEffect
      <4> QED BY <4>2 DEF Absent
    <3>3. CASE Command(c) = "ROLLBACK"
      <4>1. TakesEffect(c) = <<>> BY <3>3 DEF TakesEffect
      <4> QED BY <4>1 DEF Absent
    <3> QED BY <2>1, <3>1, <3>2, <3>3
  <2>7. ASSUME Framed(x)' PROVE Accounted(TakesEffect(c), x)
    <3>1. Framed(x) BY <1>3, <2>7, FramedBefore
    <3> QED BY <2>1, <2>6, <3>1 DEF Accounted
  <2>8. \A j \in DOMAIN pend'[c] : PendingAt(c, pend[c][j][1])'
    <3> SUFFICES ASSUME NEW j \in DOMAIN pend'[c] PROVE PendingAt(c, pend[c][j][1])'
      OBVIOUS
    <3>1. Command(c) = "statement" /\ c \in trans BY <1>14
    <3>2. k = at[c] + 1 /\ at'[c] # 1
      <4>1. k = at[c] + 1 BY <2>1, <3>1
      <4>2. at[c] \in 2 .. Size + 1 BY <2>3, <3>1
      <4> QED BY <2>2, <4>1, <4>2
    <3>3. PendingAt(c, x)' BY <2>2, <3>2 DEF PendingAt
    <3>4. db' = db
      <4>1. TakesEffect(c) = <<>> BY <3>1 DEF TakesEffect
      <4>2. db \in Seq(Ops \X Nat) BY <1>1 DEF TypeOK
      <4> QED BY <1>2, <4>1, <4>2
    <3> QED BY <1>16, <3>3, <3>4
  <2> QED BY <1>17, <2>2, <2>5, <2>7, <2>8
<1> QED BY <1>1, <1>2, <1>18, <1>19, ReturnsOutcome

\* The commands that do not succeed.
LEMMA FaultEffect ==
    ASSUME IInv, EffectInv, NEW c \in Conns,
           ExecuteRefused(c) \/ ExecuteDeadlock(c) \/ ReconnectFails(c) \/ ExecuteWithoutHandle(c)
    PROVE  EffectInv'
<1> USE PoolAssumption
<1>1. /\ link \in [Conns -> {"up", "lost", "null", "closed"}] /\ pend \in [Conns -> Seq(Ops \X Nat)]
      /\ OnePlace /\ Progress
  BY DEF IInv, TypeOK, EffectInv
<1>2. CASE ExecuteRefused(c)
  <2>1. /\ op[c] # None /\ link' = link /\ link[c] = "up"
        /\ Returns(c, FALSE, "refused") /\ UNCHANGED poolVars
        /\ db' = db /\ pend' = pend /\ trans' = trans
        /\ ignored' = IgnoredAfter(c)
    BY <1>2 DEF ExecuteRefused
  <2>2. HistoriesGrow BY <1>2 DEF ExecuteRefused, IgnoredAfter, HistoriesGrow
  <2>3. Command(c) # "statement" => <<op[c], Command(c)>> \in ignored' BY <2>1 DEF IgnoredAfter
  <2> QED BY <2>1, <2>2, <2>3, FailsEffect
<1>3. CASE ExecuteDeadlock(c)
  <2>1. /\ op[c] # None /\ link' = link /\ link[c] = "up"
        /\ Returns(c, FALSE, "deadlock") /\ UNCHANGED poolVars
        /\ db' = db /\ pend' = [pend EXCEPT ![c] = <<>>] /\ trans' = trans \ {c}
        /\ ignored' = IgnoredAfter(c)
    BY <1>3 DEF ExecuteDeadlock, ServerRollsBack
  <2>2. HistoriesGrow BY <1>3 DEF ExecuteDeadlock, IgnoredAfter, HistoriesGrow
  <2>3. Command(c) # "statement" => <<op[c], Command(c)>> \in ignored' BY <2>1 DEF IgnoredAfter
  <2>4. pend'[c] = <<>> /\ \A d \in Conns \ {c} : pend'[d] = pend[d] BY <1>1, <2>1
  <2> QED BY <2>1, <2>2, <2>3, <2>4, FailsEffect
<1>4. CASE ReconnectFails(c) \/ ExecuteWithoutHandle(c)
  <2>1. /\ Returns(c, FALSE, "none") /\ UNCHANGED poolVars
        /\ db' = db /\ pend' = pend /\ trans' = trans
        /\ \/ link[c] = "lost" /\ link' = [link EXCEPT ![c] = "null"]
           \/ link[c] = "null" /\ link' = link
    BY <1>4 DEF ReconnectFails, ExecuteWithoutHandle, serverVars
  <2>2. HistoriesGrow BY <1>4 DEF ReconnectFails, ExecuteWithoutHandle, envVars, HistoriesGrow
  <2>3. op[c] # None BY <1>4 DEF ReconnectFails, ExecuteWithoutHandle, IInv, LostInUse
  <2>4. link'[c] = "null" /\ (link[c] = "null" \/ op[c] \in broken) /\ \A d \in Conns \ {c} : link'[d] = link[d]
    BY <1>1, <2>1 DEF Progress
  <2>5. pend'[c] = <<>>
    <3>1. c \notin trans BY <2>1 DEF IInv, OpenTransactions
    <3> QED BY <2>1, <3>1 DEF IInv, OpenTransactions
  <2> QED BY <2>1, <2>2, <2>3, <2>4, <2>5, FailsEffect
<1> QED BY <1>2, <1>3, <1>4

\* The connection breaks; what was executed before is in the database.
LEMMA LostEffect ==
    ASSUME IInv, EffectInv, NEW c \in Conns, NEW executed \in BOOLEAN, ConnectionLost(c, executed)
    PROVE  EffectInv'
<1> USE PoolAssumption
<1>1. /\ op[c] # None /\ broken' = broken \cup {op[c]}
      /\ link' = [link EXCEPT ![c] = "lost"]
      /\ db' = db \o TakesEffect(c) \/ db' = db
      /\ pend' = [pend EXCEPT ![c] = <<>>] /\ trans' = trans \ {c}
      /\ op' = op /\ at' = at /\ outcome' = outcome /\ queue' = queue
  BY DEF ConnectionLost, ServerRollsBack, callVars, poolVars
<1>2. HistoriesGrow BY DEF ConnectionLost, HistoriesGrow
<1>3. /\ OnePlace /\ Progress
      /\ link \in [Conns -> {"up", "lost", "null", "closed"}] /\ pend \in [Conns -> Seq(Ops \X Nat)]
      /\ db \in Seq(Ops \X Nat) /\ op[c] \in Ops
  BY <1>1 DEF IInv, TypeOK, EffectInv
<1>4. /\ \A d \in Conns \ {c} : pend'[d] = pend[d] /\ link'[d] = link[d] /\ (d \in trans <=> d \in trans')
      /\ pend'[c] = <<>> /\ DOMAIN pend'[c] = {} /\ link'[c] = "lost"
  BY <1>1, <1>3
<1>5. OnePlace' BY <1>1, <1>3 DEF OnePlace
<1>6. op'[c] \in broken' BY <1>1
<1>7. Progress' BY <1>1, <1>2, <1>3, <1>4, <1>6, ProgressAt
<1>8. outcome[op[c]] = "issued" BY <1>1, <1>3 DEF OnePlace
<1>9. ~(Framed(op[c])') BY <1>6 DEF Framed
<1>10. op' = op BY <1>1
<1>11. ASSUME NEW s \in Seq(Ops \X Nat), db' = db \o s,
              \A j \in DOMAIN s : s[j][1] = op[c] \/ ~Absent(pend[c], s[j][1]),
              \A o \in Ops \ {op[c]} : Framed(o)' => Accounted(s, o)
       PROVE  EffectInv'
  <2>1. \A o \in Ops : Framed(o)' => Accounted(s, o)
    <3> SUFFICES ASSUME NEW o \in Ops, Framed(o)' PROVE Accounted(s, o)
      OBVIOUS
    <3>1. o # op[c]
      <4>1. o \notin broken' BY DEF Framed
      <4> QED BY <1>1, <4>1
    <3> QED BY <1>11, <3>1
  <2>2. \A o \in Singles \ adopted' : outcome'[o] = "done" => outcome[o] = "done" \/ ~Absent(s, o) BY <1>1
  <2>3. /\ \A j \in DOMAIN pend'[c] : pend'[c][j][1] = op[c] \/ ~Absent(pend[c], pend'[c][j][1])
        /\ \A j \in DOMAIN pend'[c] : PendingAt(c, pend[c][j][1])'
    BY <1>4
  <2>4. /\ \A o \in Ops \ {op[c]} : outcome'[o] = outcome[o]
        /\ \A d \in Conns \ {c} : op'[d] = op[d] /\ at'[d] = at[d] /\ pend'[d] = pend[d]
    BY <1>1, <1>4
  <2> QED BY <1>2, <1>3, <1>5, <1>7, <1>8, <1>11, <2>1, <2>2, <2>3, <2>4, CallEffect
<1>12. CASE db' = db \o TakesEffect(c)
  <2>1. /\ TakesEffect(c) \in Seq(Ops \X Nat)
        /\ \A j \in DOMAIN TakesEffect(c) :
              TakesEffect(c)[j][1] = op[c] \/ ~Absent(pend[c], TakesEffect(c)[j][1])
    BY <1>1, EffectOf
  <2>2. \A o \in Ops \ {op[c]} : Framed(o)' => Accounted(TakesEffect(c), o)
    <3> SUFFICES ASSUME NEW o \in Ops \ {op[c]}, Framed(o)' PROVE Accounted(TakesEffect(c), o)
      OBVIOUS
    <3>1. outcome'[o] = outcome[o] BY <1>1
    <3> QED BY <1>2, <1>3, <3>1, OtherAccounted
  <2> QED BY <1>11, <1>12, <2>1, <2>2
<1>13. CASE db' = db
  <2>1. db' = db \o <<>> /\ <<>> \in Seq(Ops \X Nat) /\ DOMAIN <<>> = {} BY <1>3, <1>13
  <2>2. \A o \in Ops : Accounted(<<>>, o) BY <1>1 DEF Accounted, Absent
  <2> QED BY <1>11, <2>1, <2>2
<1> QED BY <1>1, <1>12, <1>13

\* What a sequence of operations has after Append.
LEMMA Appended ==
    ASSUME NEW s \in Seq(Ops), NEW o \in Ops
    PROVE  /\ \A n \in DOMAIN Append(s, o) :
                 \/ n \in DOMAIN s /\ Append(s, o)[n] = s[n]
                 \/ n = Len(s) + 1 /\ n \notin DOMAIN s /\ Append(s, o)[n] = o
           /\ \A n \in DOMAIN s : n \in DOMAIN Append(s, o) /\ n \in Nat /\ n < Len(s) + 1
           /\ Len(s) + 1 \in DOMAIN Append(s, o)
<1>1. Len(s) \in Nat /\ DOMAIN s = 1 .. Len(s) /\ DOMAIN Append(s, o) = 1 .. Len(s) + 1
  OBVIOUS
<1>2. \A n \in 1 .. Len(s) : Append(s, o)[n] = s[n] OBVIOUS
<1>3. Append(s, o)[Len(s) + 1] = o OBVIOUS
<1>4. \A n \in 1 .. Len(s) + 1 : n \in 1 .. Len(s) \/ (n = Len(s) + 1 /\ n \notin 1 .. Len(s))
  BY <1>1
<1>5. \A n \in 1 .. Len(s) : n \in 1 .. Len(s) + 1 /\ n \in Nat /\ n < Len(s) + 1 BY <1>1
<1>6. Len(s) + 1 \in 1 .. Len(s) + 1 BY <1>1
<1> QED BY <1>1, <1>2, <1>3, <1>4, <1>5, <1>6

\* An operation is issued, to the queue or to a connection.
LEMMA IssueEffect ==
    ASSUME IInv, EffectInv, NEW o \in Ops,
           Enqueue(o) \/ \E c \in Sync : Direct(c, o)
    PROVE  EffectInv'
<1> USE PoolAssumption
<1>1. /\ outcome[o] = "none" /\ outcome' = [outcome EXCEPT ![o] = "issued"]
      /\ link' = link /\ pend' = pend /\ trans' = trans /\ db' = db
      /\ UNCHANGED <<broken, ignored, adopted>>
  BY DEF Enqueue, Direct, serverVars, envVars
<1>2. /\ OnePlace /\ Progress
      /\ op \in [Conns -> Ops \cup {None}] /\ at \in [Conns -> 0 .. Size + 2]
      /\ outcome \in [Ops -> {"none", "issued", "done", "failed", "dropped"}]
      /\ queue \in Seq(Ops)
  BY DEF IInv, TypeOK, EffectInv
<1>3. /\ \A c \in Conns : op[c] # o
      /\ \A n \in DOMAIN queue : queue[n] # o /\ queue[n] \in Ops
      /\ outcome'[o] = "issued" /\ \A x \in Ops \ {o} : outcome'[x] = outcome[x]
  BY <1>1, <1>2 DEF OnePlace
<1>4. \A x \in Ops : outcome'[x] = "done" <=> outcome[x] = "done" BY <1>1, <1>3
<1>5. HistoriesGrow BY <1>1 DEF HistoriesGrow
<1>6. CASE Enqueue(o)
  <2>1. op' = op /\ at' = at /\ queue' = Append(queue, o) BY <1>6 DEF Enqueue
  <2>2. Progress' BY <1>1, <1>2, <2>1 DEF Progress, Framed
  <2>3. \A n \in DOMAIN queue' :
           \/ n \in DOMAIN queue /\ queue'[n] = queue[n]
           \/ n = Len(queue) + 1 /\ n \notin DOMAIN queue /\ queue'[n] = o
    BY <1>2, <2>1, Appended
  <2>4. OnePlace' BY <1>2, <1>3, <2>1, <2>3 DEF OnePlace
  <2>5. \A d \in Conns : pend'[d] = pend[d] /\ op'[d] = op[d] /\ at'[d] = at[d] BY <1>1, <2>1
  <2>6. Pending' /\ PendApart' /\ AllOrNothing' BY <1>1, <1>4, <2>5, QuietStep
  <2> QED BY <2>2, <2>4, <2>6 DEF EffectInv
<1>7. ASSUME NEW c \in Sync, Direct(c, o) PROVE EffectInv'
  <2>1. op' = [op EXCEPT ![c] = o] /\ at' = [at EXCEPT ![c] = 1] /\ queue' = queue /\ op[c] = None /\ c \in Conns
    BY <1>7 DEF Direct, Start, poolVars, Conns
  <2>2. op'[c] = o /\ at'[c] = 1 /\ \A d \in Conns \ {c} : op'[d] = op[d] /\ at'[d] = at[d] BY <1>2, <2>1
  <2>3. link[c] # "lost" BY <2>1 DEF IInv, LostInUse
  <2>4. Progress' BY <1>1, <1>2, <1>5, <2>1, <2>2, <2>3, ProgressAt
  <2>5. OnePlace' BY <1>2, <1>3, <2>1, <2>2 DEF OnePlace
  <2>6. \A d \in Conns : pend'[d] = pend[d] /\ (op[d] = None \/ (op'[d] = op[d] /\ at'[d] = at[d]))
    BY <1>1, <2>1, <2>2
  <2>7. Pending' /\ PendApart' /\ AllOrNothing' BY <1>1, <1>4, <2>6, QuietStep
  <2> QED BY <2>4, <2>5, <2>7 DEF EffectInv
<1> QED BY <1>6, <1>7

\* A worker takes the next operation.
LEMMA DequeueEffect ==
    ASSUME IInv, EffectInv, NEW c \in Async, Dequeue(c) PROVE EffectInv'
<1> USE PoolAssumption
<1>1. /\ op' = [op EXCEPT ![c] = Head(queue)] /\ at' = [at EXCEPT ![c] = 1] /\ op[c] = None
      /\ queue # <<>> /\ queue' = Tail(queue) /\ outcome' = outcome /\ c \in Conns
      /\ link' = link /\ pend' = pend /\ trans' = trans /\ db' = db
      /\ UNCHANGED <<broken, ignored, adopted>>
  BY DEF Dequeue, Start, serverVars, envVars, Conns
<1>2. /\ OnePlace /\ Progress
      /\ op \in [Conns -> Ops \cup {None}] /\ at \in [Conns -> 0 .. Size + 2]
      /\ queue \in Seq(Ops)
  BY DEF IInv, TypeOK, EffectInv
<1>3. /\ op'[c] = Head(queue) /\ at'[c] = 1
      /\ \A d \in Conns \ {c} : op'[d] = op[d] /\ at'[d] = at[d]
  BY <1>1, <1>2
<1>4. link[c] # "lost" BY <1>1 DEF IInv, LostInUse
<1>5. HistoriesGrow BY <1>1 DEF HistoriesGrow
<1>6. Progress' BY <1>1, <1>2, <1>3, <1>4, <1>5, ProgressAt
<1>7. 1 \in DOMAIN queue /\ Head(queue) = queue[1] BY <1>1, <1>2
<1>8. \A n \in DOMAIN queue' : n + 1 \in DOMAIN queue /\ queue'[n] = queue[n + 1] /\ n \in Nat \ {0}
  BY <1>1, <1>2
<1>9. /\ \A n \in DOMAIN queue' : queue'[n] # Head(queue)
      /\ \A m, n \in DOMAIN queue' : queue'[m] = queue'[n] => m = n
  BY <1>2, <1>7, <1>8 DEF OnePlace
<1>10. OnePlace' BY <1>1, <1>2, <1>3, <1>7, <1>8, <1>9 DEF OnePlace
<1>11. \A d \in Conns : pend'[d] = pend[d] /\ (op[d] = None \/ (op'[d] = op[d] /\ at'[d] = at[d]))
  BY <1>1, <1>3
<1>12. Pending' /\ PendApart' /\ AllOrNothing' BY <1>1, <1>11, QuietStep
<1> QED BY <1>6, <1>10, <1>12 DEF EffectInv

\* Close drops what waits, which had no effect.
LEMMA CloseEffect == ASSUME IInv, EffectInv, Close PROVE EffectInv'
<1> USE PoolAssumption
<1>1. /\ op' = op /\ at' = at /\ queue' = <<>>
      /\ outcome' = [o \in Ops |-> IF \E n \in DOMAIN queue : queue[n] = o THEN "dropped" ELSE outcome[o]]
      /\ link' = link /\ pend' = pend /\ trans' = trans /\ db' = db
      /\ UNCHANGED <<broken, ignored, adopted>>
  BY DEF Close, serverVars, envVars
<1>2. /\ OnePlace /\ Progress
      /\ op \in [Conns -> Ops \cup {None}]
  BY DEF IInv, TypeOK, EffectInv
<1>3. Progress' BY <1>1, <1>2 DEF Progress, Framed
<1>4. \A x \in Ops : outcome'[x] = "done" <=> outcome[x] = "done" BY <1>1, <1>2 DEF OnePlace
<1>5. \A d \in Conns : pend'[d] = pend[d] /\ op'[d] = op[d] /\ at'[d] = at[d] BY <1>1
<1>6. Pending' /\ PendApart' /\ AllOrNothing' BY <1>1, <1>4, <1>5, QuietStep
<1>7. OnePlace' BY <1>1, <1>2 DEF OnePlace
<1> QED BY <1>3, <1>6, <1>7 DEF EffectInv

\* The steps that change only a connection or who runs.
LEMMA LinkEffect ==
    ASSUME IInv, EffectInv,
           \/ \E c \in Conns : Reconnect(c)
           \/ \E c \in Async : Exit(c) \/ CloseAsync(c)
           \/ CloseSync
           \/ UNCHANGED vars
    PROVE  EffectInv'
<1> USE PoolAssumption
<1>1. /\ op' = op /\ at' = at /\ queue' = queue /\ outcome' = outcome /\ db' = db
      /\ UNCHANGED <<broken, ignored, adopted>>
  BY DEF Reconnect, Exit, CloseAsync, CloseSync, vars, callVars, serverVars, poolVars, envVars
<1>2. /\ OnePlace /\ Progress
      /\ link \in [Conns -> {"up", "lost", "null", "closed"}] /\ pend \in [Conns -> Seq(Ops \X Nat)]
      /\ trans \subseteq Conns
  BY DEF IInv, TypeOK, EffectInv
<1>3. \A c \in Conns :
         \/ link'[c] = "closed" /\ (pend'[c] = pend[c] \/ pend'[c] = <<>>)
         \/ /\ link'[c] = link[c] \/ (link[c] = "lost" /\ link'[c] = "up")
            /\ pend'[c] = pend[c] /\ (c \in trans <=> c \in trans')
  <2>1. CASE \E c \in Conns : Reconnect(c) BY <1>2, <2>1 DEF Reconnect, serverVars
  <2>2. CASE \E c \in Async : Exit(c) BY <1>2, <2>2 DEF Exit, serverVars
  <2>3. CASE \E c \in Async : CloseAsync(c) BY <1>2, <2>3 DEF CloseAsync, ServerRollsBack
  <2>4. CASE CloseSync BY <2>4 DEF CloseSync
  <2>5. CASE UNCHANGED vars BY <2>5 DEF vars, serverVars
  <2> QED BY <2>1, <2>2, <2>3, <2>4, <2>5
<1>4. OnePlace' BY <1>1, <1>2 DEF OnePlace
<1>5. \A o : Framed(o)' <=> Framed(o) BY <1>1 DEF Framed
<1>6. Progress'
  <2>1. ASSUME NEW c \in Conns, link'[c] = "lost" PROVE op'[c] \in broken'
    BY <1>1, <1>2, <1>3, <2>1 DEF Progress
  <2>2. ASSUME NEW c \in Conns, op'[c] \in Transactions, Framed(op[c])'
        PROVE  /\ link'[c] = "up" /\ at'[c] >= 2 =>
                     /\ c \in trans' /\ Len(pend'[c]) = at'[c] - 2
                     /\ \A j \in DOMAIN pend'[c] : pend'[c][j] = <<op'[c], j>>
               /\ link'[c] = "null" => at'[c] <= 2
    <3>1. op'[c] = op[c] /\ at'[c] = at[c] /\ Framed(op[c]) BY <1>1, <2>2 DEF Framed
    <3>2. op[c] \notin broken BY <3>1 DEF Framed
    <3>3. CASE link'[c] = "closed" BY <3>3
    <3>4. CASE link[c] = "lost" BY <1>2, <3>2, <3>4 DEF Progress
    <3>5. CASE link'[c] = link[c] /\ pend'[c] = pend[c] /\ (c \in trans <=> c \in trans')
      BY <1>2, <2>2, <3>1, <3>5 DEF Progress
    <3> QED BY <1>3, <3>3, <3>4, <3>5
  <2> QED BY <2>1, <2>2 DEF Progress
<1>7. \A d \in Conns : (pend'[d] = pend[d] \/ pend'[d] = <<>>) /\ op'[d] = op[d] /\ at'[d] = at[d]
  BY <1>1, <1>3
<1>8. Pending' /\ PendApart' /\ AllOrNothing' BY <1>1, <1>7, QuietStep
<1> QED BY <1>4, <1>6, <1>8 DEF EffectInv

\* Every step preserves what the database has of the operations.
LEMMA NextEffect == IInv /\ EffectInv /\ [Next]_vars => EffectInv'
<1> SUFFICES ASSUME IInv, EffectInv, [Next]_vars PROVE EffectInv'
  OBVIOUS
<1>1. ASSUME NEW c \in Conns, Step(c) \/ Fault(c) PROVE EffectInv'
  BY <1>1, ExecuteEffect, FaultEffect, LostEffect, LinkEffect DEF Step, Fault
<1>2. ASSUME NEW c \in Async, Dequeue(c) \/ Exit(c) \/ CloseAsync(c) PROVE EffectInv'
  BY <1>2, DequeueEffect, LinkEffect
<1>3. ASSUME NEW o \in Ops, Enqueue(o) \/ \E c \in Sync : Direct(c, o) PROVE EffectInv'
  BY <1>3, IssueEffect
<1>4. CASE Close BY <1>4, CloseEffect
<1>5. CASE CloseSync \/ UNCHANGED vars BY <1>5, LinkEffect
<1> QED BY <1>1, <1>2, <1>3, <1>4, <1>5 DEF Next, Terminating

LEMMA InitEffect == Init => EffectInv
<1> SUFFICES ASSUME Init PROVE EffectInv
  OBVIOUS
<1> USE PoolAssumption
<1>1. OnePlace BY DEF Init, OnePlace
<1>2. \A c \in Conns : op[c] \notin Transactions /\ link[c] = "up" /\ pend[c] = <<>> /\ DOMAIN pend[c] = {}
  BY DEF Init, Ops
<1>3. Progress BY <1>2 DEF Progress
<1>4. Pending /\ PendApart BY <1>2 DEF Pending, PendApart
<1>5. AllOrNothing BY DEF Init, AllOrNothing, NoEffect, Ops
<1> QED BY <1>1, <1>3, <1>4, <1>5 DEF EffectInv

-----------------------------------------------------------------------------
(* The order of the asynchronous operations.                               *)

LEMMA InitOrder == Init => OrderInv
<1> SUFFICES ASSUME Init PROVE OrderInv
  OBVIOUS
<1>1. issued = <<>> /\ queue = <<>> /\ db = <<>> BY DEF Init
<1>2. \A c \in Sync : op[c] = None BY DEF Init, Conns
<1>3. \A c \in Conns : DOMAIN pend[c] = {} BY DEF Init
<1> QED BY <1>1, <1>2, <1>3 DEF OrderInv, IssuedOnce, WaitInOrder, OneAtATime, PendInOrder, IssueOrder

\* What is in the database or pending belongs to operations.
LEMMA StoredOps ==
    ASSUME TypeOK
    PROVE  /\ \A j \in DOMAIN db : db[j][1] \in Ops /\ j \in Nat
           /\ \A d \in Conns : \A j \in DOMAIN pend[d] : pend[d][j][1] \in Ops
<1>1. db \in Seq(Ops \X Nat) /\ \A d \in Conns : pend[d] \in Seq(Ops \X Nat) BY DEF TypeOK
<1>2. \A j \in DOMAIN db : db[j] \in Ops \X Nat /\ j \in Nat BY <1>1
<1>3. \A d \in Conns : \A j \in DOMAIN pend[d] : pend[d][j] \in Ops \X Nat BY <1>1
<1> QED BY <1>2, <1>3

\* What is appended to the database comes after what it had.
LEMMA AppendAfter ==
    ASSUME TypeOK, NEW s \in Seq(Ops \X Nat), db' = db \o s
    PROVE  \A k \in DOMAIN db, j \in DOMAIN db' \ DOMAIN db : k < j
<1> SUFFICES ASSUME NEW k \in DOMAIN db, NEW j \in DOMAIN db' \ DOMAIN db PROVE k < j
  OBVIOUS
<1>1. Len(db) \in Nat /\ DOMAIN db = 1 .. Len(db) BY AppendTo
<1>2. DOMAIN db' = 1 .. Len(db') /\ j > Len(db) BY AppendTo
<1>3. k \in 1 .. Len(db) /\ j \in Int BY <1>1, <1>2
<1> QED BY <1>1, <1>2, <1>3

\* A command of an operation, of which it adds something to the database or
\* commits what is pending, and with which it may end.
LEMMA OrderCall ==
    ASSUME TypeOK, OnePlace, OrderInv, NEW c \in Conns, op[c] # None,
           queue' = queue, issued' = issued,
           NEW s \in Seq(Ops \X Nat), db' = db \o s,
           s = pend[c] \/ \A j \in DOMAIN s : s[j][1] = op[c],
           \A d \in Conns \ {c} : op'[d] = op[d] /\ pend'[d] = pend[d],
           \/ pend'[c] = <<>>
           \/ db' = db /\ pend'[c] = pend[c]
           \/ db' = db /\ \E e \in Ops \X Nat : e[1] = op[c] /\ pend'[c] = Append(pend[c], e),
           \A o \in Ops \ {op[c]} : outcome'[o] = outcome[o],
           \/ op'[c] = op[c] /\ outcome'[op[c]] = "issued"
           \/ op'[c] = None /\ outcome'[op[c]] \in {"done", "failed"}
    PROVE  OrderInv'
<1> USE PoolAssumption
<1>1. /\ op[c] \in Ops /\ outcome[op[c]] = "issued"
      /\ \A n \in DOMAIN issued : issued[n] \in Ops /\ n \in Nat
      /\ \A n \in DOMAIN queue : queue[n] \in Ops /\ queue[n] # op[c]
      /\ \A j \in DOMAIN db : db[j][1] \in Ops /\ j \in Nat
      /\ \A d \in Conns : pend[d] \in Seq(Ops \X Nat)
      /\ \A d \in Conns : \A j \in DOMAIN pend[d] : pend[d][j][1] \in Ops
  <2>1. /\ op \in [Conns -> Ops \cup {None}] /\ issued \in Seq(Ops) /\ queue \in Seq(Ops)
        /\ db \in Seq(Ops \X Nat) /\ pend \in [Conns -> Seq(Ops \X Nat)]
    BY DEF TypeOK
  <2>2. op[c] \in Ops /\ outcome[op[c]] = "issued" BY <2>1 DEF OnePlace
  <2>3. \A n \in DOMAIN issued : issued[n] \in Ops /\ n \in Nat BY <2>1
  <2>4. \A n \in DOMAIN queue : queue[n] \in Ops /\ queue[n] # op[c] BY <2>1 DEF OnePlace
  <2>5. \A j \in DOMAIN db : db[j][1] \in Ops /\ j \in Nat BY StoredOps
  <2>6. \A d \in Conns : pend[d] \in Seq(Ops \X Nat) BY <2>1
  <2>7. \A d \in Conns : \A j \in DOMAIN pend[d] : pend[d][j][1] \in Ops BY StoredOps
  <2> QED BY <2>2, <2>3, <2>4, <2>5, <2>6, <2>7
<1>2. /\ \A o \in Ops : outcome'[o] = outcome[o] \/ (o = op[c] /\ outcome'[o] \in {"issued", "done", "failed"})
      /\ \A d \in Conns : op'[d] # None => op'[d] = op[d]
  BY <1>1
<1>3. /\ \A j \in DOMAIN db : j \in DOMAIN db' /\ db'[j] = db[j]
      /\ \A j \in DOMAIN db' \ DOMAIN db : j - Len(db) \in DOMAIN s /\ db'[j] = s[j - Len(db)]
      /\ \A k \in DOMAIN db, j \in DOMAIN db' \ DOMAIN db : k < j
  BY AppendTo, AppendAfter
<1>4. \A j \in DOMAIN db' \ DOMAIN db : db'[j][1] = op[c] \/ ~Absent(pend[c], db'[j][1])
  BY <1>3 DEF Absent
<1>5. \A d \in Conns : \A j \in DOMAIN pend'[d] :
         \/ ~Absent(pend[d], pend'[d][j][1])
         \/ d = c /\ pend'[d][j][1] = op[c]
  <2> SUFFICES ASSUME NEW d \in Conns, NEW j \in DOMAIN pend'[d]
               PROVE  ~Absent(pend[d], pend'[d][j][1]) \/ (d = c /\ pend'[d][j][1] = op[c])
    OBVIOUS
  <2>1. CASE pend'[d] = pend[d] BY <2>1 DEF Absent
  <2>2. CASE d = c /\ \E e \in Ops \X Nat : e[1] = op[c] /\ pend'[c] = Append(pend[c], e)
    <3>1. PICK e \in Ops \X Nat : e[1] = op[c] /\ pend'[c] = Append(pend[c], e) BY <2>2
    <3>2. pend[c] \in Seq(Ops \X Nat) /\ j \in DOMAIN Append(pend[c], e) BY <1>1, <2>2, <3>1
    <3>3. (j \in DOMAIN pend[c] /\ Append(pend[c], e)[j] = pend[c][j]) \/ Append(pend[c], e)[j] = e BY <3>2
    <3> QED BY <2>2, <3>1, <3>3 DEF Absent
  <2>3. CASE d = c /\ pend'[c] = <<>> BY <2>3
  <2> QED BY <2>1, <2>2, <2>3
<1>6. \A d \in Conns : \A o : ~Absent(pend[d], o) => o \in Ops /\ outcome[o] # "none"
  BY <1>1 DEF OrderInv, IssuedOnce, Absent
<1>7. \A o \in Ops : outcome[o] # "none" => outcome'[o] # "none" BY <1>2
<1>8. IssuedOnce'
  <2>1. \A n \in DOMAIN issued : outcome'[issued[n]] # "none" BY <1>1, <1>7 DEF OrderInv, IssuedOnce
  <2>2. \A j \in DOMAIN db' : outcome'[db'[j][1]] # "none"
    <3> SUFFICES ASSUME NEW j \in DOMAIN db' PROVE outcome'[db'[j][1]] # "none"
      OBVIOUS
    <3>1. CASE j \in DOMAIN db
      <4>1. db'[j] = db[j] /\ db[j][1] \in Ops /\ outcome[db[j][1]] # "none"
        BY <1>1, <1>3, <3>1 DEF OrderInv, IssuedOnce
      <4> QED BY <1>7, <4>1
    <3>2. CASE j \notin DOMAIN db
      <4>1. db'[j][1] \in Ops /\ outcome[db'[j][1]] # "none" BY <1>1, <1>4, <1>6, <3>2
      <4> QED BY <1>7, <4>1
    <3> QED BY <3>1, <3>2
  <2>3. ASSUME NEW d \in Conns, NEW j \in DOMAIN pend'[d] PROVE outcome'[pend'[d][j][1]] # "none"
    <3>1. pend'[d][j][1] \in Ops /\ outcome[pend'[d][j][1]] # "none" BY <1>1, <1>5, <1>6
    <3> QED BY <1>7, <3>1
  <2> QED BY <2>1, <2>2, <2>3 DEF OrderInv, IssuedOnce
<1>9. \A n \in DOMAIN issued : issued[n] = op[c] => c \in Async
  BY DEF OrderInv, WaitInOrder, Conns
<1>10. WaitInOrder'
  <2>1. \A d \in Sync : op'[d] # None => \A n \in DOMAIN issued : issued[n] # op'[d]
    BY <1>2 DEF OrderInv, WaitInOrder, Conns
  <2>2. ASSUME NEW n \in DOMAIN issued, outcome'[issued[n]] = "issued"
        PROVE  (\E q \in DOMAIN queue : queue[q] = issued[n]) \/ (\E d \in Async : op'[d] = issued[n])
    <3>1. outcome[issued[n]] = "issued" BY <1>1, <1>2, <2>2
    <3>2. CASE \E q \in DOMAIN queue : queue[q] = issued[n] BY <3>2
    <3>3. ASSUME NEW d \in Async, op[d] = issued[n] PROVE op'[d] = issued[n]
      <4>1. d \in Conns BY DEF Conns
      <4>2. CASE d # c BY <3>3, <4>1, <4>2
      <4>3. CASE d = c BY <2>2, <3>3, <4>3
      <4> QED BY <4>2, <4>3
    <3> QED BY <3>1, <3>2, <3>3 DEF OrderInv, WaitInOrder
  <2>3. ASSUME NEW d \in Sync, NEW n \in DOMAIN issued PROVE Absent(pend'[d], issued[n])
    <3> SUFFICES ASSUME NEW j \in DOMAIN pend'[d], pend'[d][j][1] = issued[n] PROVE FALSE
      BY DEF Absent
    <3>1. d \in Conns BY DEF Conns
    <3>2. Absent(pend[d], issued[n]) BY DEF OrderInv, WaitInOrder
    <3>3. d = c /\ issued[n] = op[c] BY <1>5, <3>1, <3>2
    <3> QED BY <1>9, <3>3
  <2>4. \A d \in Sync, n \in DOMAIN issued' : Absent(pend[d], issued[n])' BY <2>3 DEF Absent
  <2> QED BY <2>1, <2>2, <2>4 DEF OrderInv, WaitInOrder
<1>11. ASSUME NEW n \in DOMAIN issued, ~Absent(pend[c], issued[n]) PROVE c \in Async
  BY <1>11 DEF OrderInv, WaitInOrder, Conns
<1>12. ASSUME NEW n \in DOMAIN issued, op[c] = issued[n] \/ ~Absent(pend[c], issued[n]) PROVE Begun(issued[n])
  BY <1>9, <1>11, <1>12 DEF Begun
<1>13. ASSUME NEW n \in DOMAIN issued, Begun(issued[n])' PROVE Begun(issued[n])
  <2>1. PICK o : o = issued[n] OBVIOUS
  <2>2. \/ \E d \in Async : op'[d] = o \/ \E j \in DOMAIN pend'[d] : pend'[d][j][1] = o
        \/ \E j \in DOMAIN db' : db'[j][1] = o
    BY <1>13, <2>1 DEF Begun, Absent, NoEffect
  <2>3. ASSUME NEW d \in Async, op'[d] = o PROVE Begun(o)
    <3>1. op[d] = o BY <1>1, <1>2, <2>1, <2>3 DEF Conns, Ops
    <3> QED BY <3>1 DEF Begun
  <2>4. ASSUME NEW d \in Async, NEW j \in DOMAIN pend'[d], pend'[d][j][1] = o PROVE Begun(o)
    <3>1. d \in Conns BY DEF Conns
    <3>2. ~Absent(pend[d], o) \/ op[d] = o BY <1>5, <2>4, <3>1
    <3> QED BY <3>2 DEF Begun
  <2>5. ASSUME NEW j \in DOMAIN db', db'[j][1] = o PROVE Begun(o)
    <3>1. CASE j \in DOMAIN db BY <1>3, <2>5, <3>1 DEF Begun, NoEffect
    <3>2. CASE j \notin DOMAIN db BY <1>4, <1>12, <2>1, <2>5, <3>2
    <3> QED BY <3>1, <3>2
  <2> QED BY <2>1, <2>2, <2>3, <2>4, <2>5
<1>14. \A m, n \in DOMAIN issued : Cardinality(Async) = 1 /\ m < n /\ Begun(issued[n])
          => outcome[issued[m]] \in {"done", "failed", "dropped"}
  BY Zenon DEF OrderInv, OneAtATime
<1>15. OneAtATime'
  <2> SUFFICES ASSUME NEW m \in DOMAIN issued, NEW n \in DOMAIN issued, Cardinality(Async) = 1, m < n,
                      Begun(issued[n])'
               PROVE  outcome'[issued[m]] \in {"done", "failed", "dropped"}
    BY DEF OneAtATime
  <2>1. outcome[issued[m]] \in {"done", "failed", "dropped"} BY <1>13, <1>14
  <2> QED BY <1>1, <2>1
<1>16. ASSUME NEW m \in DOMAIN issued, NEW n \in DOMAIN issued, Cardinality(Async) = 1, m < n,
              issued[m] = op[c], Begun(issued[n])
       PROVE  FALSE
  <2>1. outcome[issued[m]] \in {"done", "failed", "dropped"} BY <1>14, <1>16
  <2> QED BY <1>1, <1>16, <2>1
<1>17. \A m, n \in DOMAIN issued : m < n => issued[m] # issued[n]
  <2> SUFFICES ASSUME NEW m \in DOMAIN issued, NEW n \in DOMAIN issued, m < n, issued[m] = issued[n] PROVE FALSE
    OBVIOUS
  <2>1. m = n BY DEF OrderInv, IssuedOnce
  <2>2. m \in Nat BY <1>1
  <2> QED BY <2>1, <2>2
<1>18. ASSUME NEW m \in DOMAIN issued, NEW n \in DOMAIN issued, Cardinality(Async) = 1, m < n,
              c \in Async, NEW k \in DOMAIN pend[c], pend[c][k][1] = issued[m]
       PROVE  /\ \A j \in DOMAIN db : db[j][1] # issued[n]
              /\ \A j \in DOMAIN pend[c] : pend[c][j][1] = issued[n] => k < j
  BY <1>18 DEF OrderInv, PendInOrder, NoEffect
<1>19. PendInOrder'
  <2> SUFFICES ASSUME Cardinality(Async) = 1, NEW m \in DOMAIN issued, NEW n \in DOMAIN issued, m < n,
                      NEW d \in Async, NEW k \in DOMAIN pend'[d], pend'[d][k][1] = issued[m]
               PROVE  /\ \A j \in DOMAIN db' : db'[j][1] # issued[n]
                      /\ \A j \in DOMAIN pend'[d] : pend'[d][j][1] = issued[n] => k < j
    BY DEF PendInOrder, NoEffect
  <2>1. d \in Conns BY DEF Conns
  <2>2. CASE d # c
    <3>1. pend'[d] = pend[d] BY <2>1, <2>2
    <3>2. c \notin Async
      <4>1. PICK a : Async = {a} BY FS_Singleton
      <4> QED BY <2>2, <4>1
    <3>3. /\ \A j \in DOMAIN db : db[j][1] # issued[n]
          /\ \A j \in DOMAIN pend[d] : pend[d][j][1] = issued[n] => k < j
      BY <3>1 DEF OrderInv, PendInOrder, NoEffect
    <3>4. \A j \in DOMAIN db' : db'[j][1] # issued[n]
      <4> SUFFICES ASSUME NEW j \in DOMAIN db', db'[j][1] = issued[n] PROVE FALSE
        OBVIOUS
      <4>1. j \notin DOMAIN db BY <1>3, <3>3
      <4>2. issued[n] = op[c] \/ ~Absent(pend[c], issued[n]) BY <1>4, <4>1
      <4> QED BY <1>9, <1>11, <3>2, <4>2
    <3> QED BY <3>1, <3>3, <3>4
  <2>3. CASE d = c
    <3>1. pend'[c] # <<>> BY <2>3
    <3>2. db' = db BY <3>1
    <3>3. CASE pend'[c] = pend[c] BY <1>18, <2>3, <3>2, <3>3
    <3>4. ASSUME NEW e \in Ops \X Nat, e[1] = op[c], pend'[c] = Append(pend[c], e)
          PROVE  /\ \A j \in DOMAIN db' : db'[j][1] # issued[n]
                 /\ \A j \in DOMAIN pend'[d] : pend'[d][j][1] = issued[n] => k < j
      <4>1. \A j \in DOMAIN pend'[c] :
               \/ j \in DOMAIN pend[c] /\ pend'[c][j] = pend[c][j]
               \/ j = Len(pend[c]) + 1 /\ pend'[c][j] = e
        BY <1>1, <3>4
      <4>2. \A j \in DOMAIN pend[c] : j < Len(pend[c]) + 1 BY <1>1
      <4>3. CASE k \in DOMAIN pend[c] /\ pend'[c][k] = pend[c][k]
        <5>1. /\ \A j \in DOMAIN db : db[j][1] # issued[n]
              /\ \A j \in DOMAIN pend[c] : pend[c][j][1] = issued[n] => k < j
          BY <1>18, <2>3, <4>3
        <5>2. ASSUME NEW j \in DOMAIN pend'[c], pend'[c][j][1] = issued[n] PROVE k < j
          BY <4>1, <4>2, <4>3, <5>1, <5>2
        <5> QED BY <2>3, <3>2, <5>1, <5>2
      <4>4. CASE pend'[c][k] = e
        <5>1. issued[m] = op[c] BY <2>3, <3>4, <4>4
        <5>2. ~Begun(issued[n]) BY <1>16, <5>1
        <5>3. \A j \in DOMAIN db : db[j][1] # issued[n] BY <5>2 DEF Begun, NoEffect
        <5>4. Absent(pend[c], issued[n]) BY <2>3, <5>2 DEF Begun
        <5>5. ASSUME NEW j \in DOMAIN pend'[c], pend'[c][j][1] = issued[n] PROVE FALSE
          <6>1. pend'[c][j] = e BY <4>1, <5>4, <5>5 DEF Absent
          <6>2. issued[n] = issued[m] BY <3>4, <5>1, <5>5, <6>1
          <6> QED BY <1>17, <6>2
        <5> QED BY <2>3, <3>2, <5>3, <5>5
      <4> QED BY <2>3, <4>1, <4>3, <4>4
    <3> QED BY <3>1, <3>3, <3>4
  <2> QED BY <2>2, <2>3
<1>20. IssueOrder'
  <2> SUFFICES ASSUME Cardinality(Async) = 1, NEW m \in DOMAIN issued', NEW n \in DOMAIN issued', m < n,
                      NEW j \in DOMAIN db', NEW k \in DOMAIN db',
                      db'[j][1] = issued'[n], db'[k][1] = issued'[m]
               PROVE  k < j
    BY DEF IssueOrder
  <2>1. CASE j \in DOMAIN db /\ k \in DOMAIN db
    <3>1. db[j][1] = issued[n] /\ db[k][1] = issued[m] BY <1>3, <2>1
    <3> QED BY <2>1, <3>1 DEF OrderInv, IssueOrder
  <2>2. CASE j \notin DOMAIN db /\ k \in DOMAIN db BY <1>3, <2>2
  <2>3. CASE k \notin DOMAIN db
    <3>1. CASE \A i \in DOMAIN s : s[i][1] = op[c]
      <4>1. issued[m] = op[c] BY <1>3, <2>3, <3>1
      <4>2. CASE j \in DOMAIN db
        <5>1. Begun(issued[n]) BY <1>3, <4>2 DEF Begun, NoEffect
        <5> QED BY <1>16, <4>1, <5>1
      <4>3. CASE j \notin DOMAIN db
        <5>1. issued[n] = op[c] BY <1>3, <3>1, <4>3
        <5> QED BY <1>17, <4>1, <5>1
      <4> QED BY <4>2, <4>3
    <3>2. CASE s = pend[c]
      <4>1. k - Len(db) \in DOMAIN pend[c] /\ pend[c][k - Len(db)][1] = issued[m] BY <1>3, <2>3, <3>2
      <4>2. c \in Async BY <1>11, <4>1 DEF Absent
      <4>3. /\ \A i \in DOMAIN db : db[i][1] # issued[n]
            /\ \A i \in DOMAIN pend[c] : pend[c][i][1] = issued[n] => k - Len(db) < i
        BY <1>18, <4>1, <4>2
      <4>4. j \notin DOMAIN db BY <1>3, <4>3
      <4>5. k - Len(db) < j - Len(db) BY <1>3, <3>2, <4>3, <4>4
      <4>6. Len(db) \in Nat /\ j \in Int /\ k \in Int BY AppendTo
      <4> QED BY <4>5, <4>6
    <3> QED BY <3>1, <3>2
  <2> QED BY <2>1, <2>2, <2>3
<1> QED BY <1>8, <1>10, <1>15, <1>19, <1>20 DEF OrderInv

\* Every command of a connection.
LEMMA StepOrder ==
    ASSUME IInv, EffectInv, OrderInv, NEW c \in Conns,
           \/ Execute(c) \/ ExecuteWithoutHandle(c) \/ ExecuteRefused(c) \/ ExecuteDeadlock(c)
           \/ ReconnectFails(c) \/ \E executed \in BOOLEAN : ConnectionLost(c, executed)
    PROVE  OrderInv'
<1> USE PoolAssumption
<1>1. TypeOK /\ SingleCommand /\ OnePlace /\ Progress BY DEF IInv, EffectInv
<1>2. op[c] # None
  BY DEF Execute, ExecuteWithoutHandle, ExecuteRefused, ExecuteDeadlock, ReconnectFails,
         ConnectionLost, IInv, LostInUse
<1>3. /\ UNCHANGED poolVars /\ queue' = queue /\ issued' = issued
      /\ db' = db \o TakesEffect(c) \/ db' = db
  BY DEF Execute, ExecuteWithoutHandle, ExecuteRefused, ExecuteDeadlock, ReconnectFails,
         ConnectionLost, ServerExecutes, ServerRollsBack, serverVars, poolVars
<1>4. pend \in [Conns -> Seq(Ops \X Nat)] /\ db \in Seq(Ops \X Nat) BY <1>1 DEF TypeOK
<1>5. PICK s \in Seq(Ops \X Nat) : db' = db \o s /\ (s = pend[c] \/ \A j \in DOMAIN s : s[j][1] = op[c])
  <2>1. CASE db' = db \o TakesEffect(c) BY <1>1, <1>2, <2>1, EffectOf
  <2>2. CASE db' = db
    <3>1. db' = db \o <<>> /\ <<>> \in Seq(Ops \X Nat) /\ DOMAIN <<>> = {} BY <1>4, <2>2
    <3> QED BY <3>1
  <2> QED BY <1>3, <2>1, <2>2
<1>6. /\ \A d \in Conns \ {c} : pend'[d] = pend[d]
      /\ \/ pend'[c] = <<>>
         \/ db' = db /\ pend'[c] = pend[c]
         \/ db' = db /\ \E e \in Ops \X Nat : e[1] = op[c] /\ pend'[c] = Append(pend[c], e)
  <2>1. CASE Execute(c)
    <3>1. /\ db' = db \o TakesEffect(c)
          /\ pend' = [pend EXCEPT ![c] =
                         IF Command(c) = "statement" /\ c \in trans THEN Append(@, Statement(c)) ELSE <<>>]
      BY <2>1 DEF Execute, ServerExecutes
    <3>2. CASE Command(c) = "statement" /\ c \in trans
      <4>1. TakesEffect(c) = <<>> BY <3>2 DEF TakesEffect
      <4>2. db' = db BY <1>4, <3>1, <4>1
      <4>3. Statement(c) \in Ops \X Nat BY <1>1, <1>2, <3>2, EffectType
      <4>4. Statement(c)[1] = op[c] BY DEF Statement
      <4>5. pend'[c] = Append(pend[c], Statement(c)) /\ \A d \in Conns \ {c} : pend'[d] = pend[d]
        BY <1>4, <3>1, <3>2
      <4> QED BY <4>2, <4>3, <4>4, <4>5
    <3>3. CASE ~(Command(c) = "statement" /\ c \in trans)
      <4>1. pend'[c] = <<>> /\ \A d \in Conns \ {c} : pend'[d] = pend[d] BY <1>4, <3>1, <3>3
      <4> QED BY <4>1
    <3> QED BY <3>2, <3>3
  <2>2. CASE ExecuteWithoutHandle(c) \/ ExecuteRefused(c) \/ ReconnectFails(c)
    BY <2>2 DEF ExecuteWithoutHandle, ExecuteRefused, ReconnectFails, serverVars
  <2>3. CASE ExecuteDeadlock(c) \/ \E executed \in BOOLEAN : ConnectionLost(c, executed)
    <3>1. pend' = [pend EXCEPT ![c] = <<>>] BY <2>3 DEF ExecuteDeadlock, ConnectionLost, ServerRollsBack
    <3>2. pend'[c] = <<>> /\ \A d \in Conns \ {c} : pend'[d] = pend[d] BY <1>4, <3>1
    <3> QED BY <3>2
  <2> QED BY <2>1, <2>2, <2>3
<1>7. /\ \A d \in Conns \ {c} : op'[d] = op[d]
      /\ \A o \in Ops \ {op[c]} : outcome'[o] = outcome[o]
      /\ \/ op'[c] = op[c] /\ outcome'[op[c]] = "issued"
         \/ op'[c] = None /\ outcome'[op[c]] \in {"done", "failed"}
  <2>1. /\ op \in [Conns -> Ops \cup {None}] /\ op[c] \in Ops /\ outcome[op[c]] = "issued"
        /\ outcome \in [Ops -> {"none", "issued", "done", "failed", "dropped"}]
    <3>1. /\ op \in [Conns -> Ops \cup {None}]
          /\ outcome \in [Ops -> {"none", "issued", "done", "failed", "dropped"}]
      BY <1>1 DEF TypeOK
    <3> QED BY <1>1, <1>2, <3>1 DEF OnePlace
  <2>2. ASSUME NEW ok \in BOOLEAN, NEW errno, Returns(c, ok, errno) PROVE <1>7!:
    <3>1. CASE Ends(c, ok) BY <2>1, <3>1 DEF Ends
    <3>2. CASE GoesOn(c, ok) BY <2>1, <3>2 DEF GoesOn
    <3> QED BY <1>1, <1>2, <2>2, <3>1, <3>2, ReturnsOutcome
  <2>3. CASE op' = op /\ outcome' = outcome BY <2>1, <2>3
  <2>4. \/ op' = op /\ outcome' = outcome
        \/ \E ok \in BOOLEAN : \E errno \in {"none", "refused", "deadlock"} : Returns(c, ok, errno)
    BY DEF Execute, ExecuteWithoutHandle, ExecuteRefused, ExecuteDeadlock, ReconnectFails,
           ConnectionLost, callVars
  <2> QED BY <2>2, <2>3, <2>4
<1>8. \A d \in Conns \ {c} : op'[d] = op[d] /\ pend'[d] = pend[d] BY <1>6, <1>7
<1> QED BY <1>1, <1>2, <1>3, <1>5, <1>6, <1>7, <1>8, OrderCall

\* An operation is issued to the queue, behind the others.
LEMMA EnqueueOrder ==
    ASSUME IInv, EffectInv, OrderInv, NEW o \in Ops, Enqueue(o) PROVE OrderInv'
<1> USE PoolAssumption
<1>1. /\ outcome[o] = "none" /\ outcome' = [outcome EXCEPT ![o] = "issued"]
      /\ queue' = Append(queue, o) /\ issued' = Append(issued, o)
      /\ op' = op /\ db' = db /\ pend' = pend
  BY DEF Enqueue, serverVars
<1>2. /\ OnePlace /\ queue \in Seq(Ops) /\ issued \in Seq(Ops)
      /\ outcome \in [Ops -> {"none", "issued", "done", "failed", "dropped"}]
      /\ \A c \in Conns : op[c] \in Ops \cup {None}
      /\ \A j \in DOMAIN db : db[j][1] \in Ops
      /\ \A c \in Conns : \A j \in DOMAIN pend[c] : pend[c][j][1] \in Ops
  BY StoredOps DEF IInv, TypeOK, EffectInv
<1>3. /\ outcome'[o] = "issued"
      /\ \A x \in Ops \ {o} : outcome'[x] = outcome[x]
  BY <1>1, <1>2
<1>4. /\ \A c \in Conns : op[c] # o
      /\ \A n \in DOMAIN queue : queue[n] # o /\ queue[n] \in Ops
      /\ \A n \in DOMAIN issued : issued[n] # o /\ issued[n] \in Ops
      /\ \A j \in DOMAIN db : db[j][1] # o
      /\ \A c \in Conns : \A j \in DOMAIN pend[c] : pend[c][j][1] # o
  <2>1. \A c \in Conns : op[c] # o BY <1>1, <1>2 DEF OnePlace
  <2>2. \A n \in DOMAIN queue : queue[n] # o /\ queue[n] \in Ops BY <1>1, <1>2 DEF OnePlace
  <2>3. \A n \in DOMAIN issued : issued[n] # o /\ issued[n] \in Ops
    BY <1>1, <1>2 DEF OrderInv, IssuedOnce
  <2>4. /\ \A j \in DOMAIN db : db[j][1] # o
        /\ \A c \in Conns : \A j \in DOMAIN pend[c] : pend[c][j][1] # o
    BY <1>1 DEF OrderInv, IssuedOnce
  <2> QED BY <2>1, <2>2, <2>3, <2>4
<1>5. /\ \A n \in DOMAIN queue' :
            \/ n \in DOMAIN queue /\ queue'[n] = queue[n]
            \/ n = Len(queue) + 1 /\ queue'[n] = o
      /\ \A n \in DOMAIN queue : n \in DOMAIN queue' /\ n < Len(queue) + 1 /\ queue'[n] = queue[n]
      /\ Len(queue) + 1 \in DOMAIN queue' /\ queue'[Len(queue) + 1] = o
  BY <1>1, <1>2, Appended
<1>6. /\ \A n \in DOMAIN issued' :
            \/ n \in DOMAIN issued /\ issued'[n] = issued[n] /\ n < Len(issued) + 1
            \/ n = Len(issued) + 1 /\ issued'[n] = o
  BY <1>1, <1>2, Appended
<1>7. IssuedOnce'
  <2>1. \A n \in DOMAIN issued' : outcome'[issued'[n]] # "none"
    BY <1>3, <1>4, <1>6 DEF OrderInv, IssuedOnce
  <2>2. \A m, n \in DOMAIN issued' : issued'[m] = issued'[n] => m = n
    BY <1>4, <1>6 DEF OrderInv, IssuedOnce
  <2>3. \A j \in DOMAIN db : outcome'[db[j][1]] # "none"
    BY <1>2, <1>3, <1>4 DEF OrderInv, IssuedOnce
  <2>4. \A c \in Conns : \A j \in DOMAIN pend[c] : outcome'[pend[c][j][1]] # "none"
    BY <1>2, <1>3, <1>4 DEF OrderInv, IssuedOnce
  <2> QED BY <1>1, <2>1, <2>2, <2>3, <2>4 DEF IssuedOnce
<1>8. WaitInOrder'
  <2>1. \A c \in Sync : op'[c] # None => \A n \in DOMAIN issued' : issued'[n] # op'[c]
    BY <1>1, <1>4, <1>6 DEF OrderInv, WaitInOrder, Conns
  <2>2. ASSUME NEW n \in DOMAIN issued', outcome'[issued'[n]] = "issued"
        PROVE  (\E q \in DOMAIN queue' : queue'[q] = issued'[n]) \/ (\E c \in Async : op'[c] = issued'[n])
    <3>1. CASE issued'[n] = o BY <1>5, <3>1
    <3>2. CASE n \in DOMAIN issued /\ issued'[n] = issued[n]
      <4>1. outcome[issued[n]] = "issued" BY <1>3, <1>4, <2>2, <3>2
      <4> QED BY <1>1, <1>5, <3>2, <4>1 DEF OrderInv, WaitInOrder
    <3> QED BY <1>6, <3>1, <3>2
  <2>3. ASSUME NEW m \in DOMAIN issued', NEW n \in DOMAIN issued', NEW p \in DOMAIN queue', NEW q \in DOMAIN queue',
               m < n, queue'[p] = issued'[m], queue'[q] = issued'[n]
        PROVE  p < q
    <3>0. \A l \in DOMAIN issued : l \in Nat /\ Len(issued) \in Nat BY <1>2
    <3>1. m \in DOMAIN issued /\ issued'[m] = issued[m] BY <1>6, <2>3, <3>0
    <3>2. p \in DOMAIN queue /\ queue'[p] = queue[p] /\ p < Len(queue) + 1 BY <1>4, <1>5, <2>3, <3>1
    <3>3. CASE issued'[n] = o
      <4>1. q = Len(queue) + 1 BY <1>4, <1>5, <2>3, <3>3
      <4> QED BY <3>2, <4>1
    <3>4. CASE n \in DOMAIN issued /\ issued'[n] = issued[n]
      <4>1. q \in DOMAIN queue /\ queue'[q] = queue[q] BY <1>4, <1>5, <2>3, <3>4
      <4>2. \A l, k \in DOMAIN issued : \A a, b \in DOMAIN queue :
               l < k /\ queue[a] = issued[l] /\ queue[b] = issued[k] => a < b
        BY Zenon DEF OrderInv, WaitInOrder
      <4>3. queue[p] = issued[m] /\ queue[q] = issued[n] BY <2>3, <3>1, <3>2, <3>4, <4>1
      <4> QED BY <2>3, <3>1, <3>2, <3>4, <4>1, <4>2, <4>3
    <3> QED BY <1>6, <3>3, <3>4
  <2>4. \A c \in Sync : \A n \in DOMAIN issued' : Absent(pend[c], issued'[n])
    BY <1>4, <1>6 DEF OrderInv, WaitInOrder, Absent, Conns
  <2> QED BY <1>1, <2>1, <2>2, <2>3, <2>4 DEF WaitInOrder
<1>9. \A m, n \in DOMAIN issued' : m < n => m \in DOMAIN issued /\ issued'[m] = issued[m]
  <2>0. \A l \in DOMAIN issued : l \in Nat /\ Len(issued) \in Nat BY <1>2
  <2> QED BY <1>6, <2>0
<1>10. OneAtATime'
  <2> SUFFICES ASSUME NEW m \in DOMAIN issued', NEW n \in DOMAIN issued', Cardinality(Async) = 1, m < n,
                      Begun(issued[n])'
               PROVE  outcome'[issued'[m]] \in {"done", "failed", "dropped"}
    BY DEF OneAtATime
  <2>0. Begun(issued'[n]) BY <1>1 DEF Begun, NoEffect, Absent
  <2>1. issued'[n] # o BY <1>4, <2>0 DEF Begun, NoEffect, Absent, Conns
  <2>2. n \in DOMAIN issued /\ issued'[n] = issued[n] BY <1>6, <2>1
  <2>3. m \in DOMAIN issued /\ issued'[m] = issued[m] BY <1>9
  <2>4. outcome[issued[m]] \in {"done", "failed", "dropped"}
    BY <2>0, <2>2, <2>3 DEF OrderInv, OneAtATime
  <2> QED BY <1>3, <1>4, <2>3, <2>4
<1>11. IssueOrder'
  <2> SUFFICES ASSUME Cardinality(Async) = 1, NEW m \in DOMAIN issued', NEW n \in DOMAIN issued', m < n,
                      NEW j \in DOMAIN db, NEW k \in DOMAIN db,
                      db[j][1] = issued'[n], db[k][1] = issued'[m]
               PROVE  k < j
    BY <1>1 DEF IssueOrder
  <2>1. n \in DOMAIN issued /\ issued'[n] = issued[n] BY <1>4, <1>6
  <2>2. m \in DOMAIN issued /\ issued'[m] = issued[m] BY <1>9
  <2> QED BY <2>1, <2>2 DEF OrderInv, IssueOrder
<1>12. PendInOrder'
  <2> SUFFICES ASSUME Cardinality(Async) = 1, NEW m \in DOMAIN issued', NEW n \in DOMAIN issued', m < n,
                      NEW c \in Async, NEW k \in DOMAIN pend[c], pend[c][k][1] = issued'[m]
               PROVE  /\ \A j \in DOMAIN db : db[j][1] # issued'[n]
                      /\ \A j \in DOMAIN pend[c] : pend[c][j][1] = issued'[n] => k < j
    BY <1>1 DEF PendInOrder, NoEffect
  <2>1. m \in DOMAIN issued /\ issued'[m] = issued[m] BY <1>9
  <2>2. CASE issued'[n] = o BY <1>4, <2>2 DEF Conns
  <2>3. CASE n \in DOMAIN issued /\ issued'[n] = issued[n]
    BY <2>1, <2>3 DEF OrderInv, PendInOrder, NoEffect
  <2> QED BY <1>6, <2>2, <2>3
<1> QED BY <1>7, <1>8, <1>10, <1>11, <1>12 DEF OrderInv

\* An operation of a caller is none of the asynchronous ones.
LEMMA DirectOrder ==
    ASSUME IInv, EffectInv, OrderInv, NEW c \in Sync, NEW o \in Ops, Direct(c, o) PROVE OrderInv'
<1> USE PoolAssumption
<1>1. /\ outcome[o] = "none" /\ outcome' = [outcome EXCEPT ![o] = "issued"] /\ op[c] = None
      /\ queue' = queue /\ issued' = issued /\ op' = [op EXCEPT ![c] = o] /\ db' = db /\ pend' = pend
  BY DEF Direct, Start, serverVars, poolVars
<1>2. /\ op \in [Conns -> Ops \cup {None}] /\ issued \in Seq(Ops)
      /\ outcome \in [Ops -> {"none", "issued", "done", "failed", "dropped"}]
      /\ \A j \in DOMAIN db : db[j][1] \in Ops
      /\ \A d \in Conns : \A j \in DOMAIN pend[d] : pend[d][j][1] \in Ops
  BY StoredOps DEF IInv, TypeOK
<1>3. /\ \A x \in Ops \ {o} : outcome'[x] = outcome[x]
      /\ \A n \in DOMAIN issued : issued[n] # o /\ issued[n] \in Ops
      /\ \A j \in DOMAIN db : db[j][1] # o
      /\ \A d \in Conns : \A j \in DOMAIN pend[d] : pend[d][j][1] # o
      /\ op'[c] = o /\ \A d \in Conns \ {c} : op'[d] = op[d]
      /\ \A d \in Async : op'[d] = op[d] /\ d \in Conns
  BY <1>1, <1>2 DEF OrderInv, IssuedOnce, Conns
<1>4. IssuedOnce' BY <1>1, <1>2, <1>3 DEF OrderInv, IssuedOnce
<1>5. WaitInOrder' BY <1>1, <1>2, <1>3 DEF OrderInv, WaitInOrder, Absent, Conns
<1>6. OneAtATime' BY <1>1, <1>2, <1>3 DEF OrderInv, OneAtATime, Begun, NoEffect, Absent
<1>7. PendInOrder' /\ IssueOrder' BY <1>1 DEF OrderInv, PendInOrder, NoEffect, IssueOrder
<1> QED BY <1>4, <1>5, <1>6, <1>7 DEF OrderInv

\* A worker takes the first that waits: with one worker, those issued before it
\* have ended.
LEMMA DequeueOrder ==
    ASSUME IInv, EffectInv, OrderInv, NEW c \in Async, Dequeue(c) PROVE OrderInv'
<1> USE PoolAssumption
<1>1. /\ op' = [op EXCEPT ![c] = Head(queue)] /\ op[c] = None /\ c \in Conns
      /\ queue # <<>> /\ queue' = Tail(queue) /\ outcome' = outcome /\ issued' = issued
      /\ db' = db /\ pend' = pend
  BY DEF Dequeue, Start, serverVars, Conns
<1>2. /\ OnePlace /\ op \in [Conns -> Ops \cup {None}] /\ queue \in Seq(Ops) /\ issued \in Seq(Ops)
      /\ outcome \in [Ops -> {"none", "issued", "done", "failed", "dropped"}]
  BY DEF IInv, TypeOK, EffectInv
<1>3. op'[c] = queue[1] /\ 1 \in DOMAIN queue /\ \A d \in Conns \ {c} : op'[d] = op[d] BY <1>1, <1>2
<1>4. /\ \A n \in DOMAIN queue' : n + 1 \in DOMAIN queue /\ queue'[n] = queue[n + 1] /\ n \in Nat \ {0}
      /\ \A n \in DOMAIN queue : n # 1 => n - 1 \in DOMAIN queue' /\ queue'[n - 1] = queue[n]
  <2>1. Len(queue) \in Nat \ {0} /\ DOMAIN queue = 1 .. Len(queue) BY <1>1, <1>2
  <2>2. DOMAIN queue' = 1 .. Len(queue) - 1 /\ \A n \in 1 .. Len(queue) - 1 : queue'[n] = queue[n + 1]
    BY <1>1, <1>2, <2>1
  <2>3. \A n \in 1 .. Len(queue) : n # 1 => n - 1 \in 1 .. Len(queue) - 1 /\ (n - 1) + 1 = n BY <2>1
  <2>4. \A n \in 1 .. Len(queue) - 1 : n + 1 \in 1 .. Len(queue) /\ n \in Nat \ {0} BY <2>1
  <2> QED BY <2>1, <2>2, <2>3, <2>4
<1>5. IssuedOnce' BY <1>1 DEF OrderInv, IssuedOnce
<1>6. WaitInOrder'
  <2>1. \A d \in Sync : op'[d] = op[d] BY <1>3 DEF Conns
  <2>2. ASSUME NEW n \in DOMAIN issued, outcome[issued[n]] = "issued"
        PROVE  (\E q \in DOMAIN queue' : queue'[q] = issued[n]) \/ (\E d \in Async : op'[d] = issued[n])
    <3>1. ASSUME NEW q \in DOMAIN queue, queue[q] = issued[n]
          PROVE  op'[c] = issued[n] \/ \E l \in DOMAIN queue' : queue'[l] = issued[n]
      BY <1>3, <1>4, <3>1
    <3>2. ASSUME NEW d \in Async, op[d] = issued[n] PROVE op'[d] = issued[n]
      <4>1. issued[n] # None BY <1>2
      <4> QED BY <1>1, <1>3, <3>2, <4>1 DEF Conns
    <3>3. (\E q \in DOMAIN queue : queue[q] = issued[n]) \/ (\E d \in Async : op[d] = issued[n])
      BY <2>2 DEF OrderInv, WaitInOrder
    <3> QED BY <3>1, <3>2, <3>3
  <2>3. ASSUME NEW m \in DOMAIN issued, NEW n \in DOMAIN issued, NEW p \in DOMAIN queue', NEW q \in DOMAIN queue',
               m < n, queue'[p] = issued[m], queue'[q] = issued[n]
        PROVE  p < q
    <3>1. p + 1 < q + 1 BY <1>4, <2>3 DEF OrderInv, WaitInOrder
    <3> QED BY <1>4, <3>1
  <2>4. \A d \in Sync : \A n \in DOMAIN issued : Absent(pend[d], issued[n])' <=> Absent(pend[d], issued[n])
    BY <1>1 DEF Absent
  <2> QED BY <1>1, <2>1, <2>2, <2>3, <2>4 DEF OrderInv, WaitInOrder
<1>7. OneAtATime'
  <2> SUFFICES ASSUME NEW m \in DOMAIN issued, NEW n \in DOMAIN issued, Cardinality(Async) = 1, m < n,
                      Begun(issued[n])'
               PROVE  outcome[issued[m]] \in {"done", "failed", "dropped"}
    BY <1>1 DEF OneAtATime
  <2>1. \A d \in Async : d = c BY FS_Singleton
  <2>2. CASE Begun(issued[n]) BY <2>2 DEF OrderInv, OneAtATime
  <2>3. CASE op'[c] = issued[n]
    <3>1. issued[m] \in Ops /\ outcome[issued[m]] \in {"none", "issued", "done", "failed", "dropped"} BY <1>2
    <3>2. outcome[issued[m]] # "none" BY DEF OrderInv, IssuedOnce
    <3>3. ASSUME outcome[issued[m]] = "issued" PROVE FALSE
      <4>1. \A d \in Async : op[d] # issued[m] BY <1>1, <2>1, <3>1
      <4>2. PICK p \in DOMAIN queue : queue[p] = issued[m] BY <3>3, <4>1 DEF OrderInv, WaitInOrder
      <4>3. \A l, k \in DOMAIN issued : \A a, b \in DOMAIN queue :
               l < k /\ queue[a] = issued[l] /\ queue[b] = issued[k] => a < b
        BY Zenon DEF OrderInv, WaitInOrder
      <4>4. p < 1 BY <1>3, <2>3, <4>2, <4>3
      <4> QED BY <1>2, <4>4
    <3> QED BY <3>1, <3>2, <3>3
  <2>4. Begun(issued[n]) \/ op'[c] = issued[n] BY <1>1, <2>1 DEF Begun, NoEffect, Absent
  <2> QED BY <2>2, <2>3, <2>4
<1>8. PendInOrder' /\ IssueOrder' BY <1>1 DEF OrderInv, PendInOrder, NoEffect, IssueOrder
<1> QED BY <1>5, <1>6, <1>7, <1>8 DEF OrderInv

\* Close drops what waits.
LEMMA CloseOrder == ASSUME IInv, OrderInv, Close PROVE OrderInv'
<1> USE PoolAssumption
<1>1. /\ op' = op /\ queue' = <<>> /\ issued' = issued /\ db' = db /\ pend' = pend
      /\ outcome' = [o \in Ops |-> IF \E n \in DOMAIN queue : queue[n] = o THEN "dropped" ELSE outcome[o]]
  BY DEF Close, serverVars
<1>2. /\ issued \in Seq(Ops) /\ \A j \in DOMAIN db : db[j][1] \in Ops
      /\ \A d \in Conns : \A j \in DOMAIN pend[d] : pend[d][j][1] \in Ops
  BY StoredOps DEF IInv, TypeOK
<1>3. \A o \in Ops : outcome'[o] = "dropped" \/ (outcome'[o] = outcome[o] /\ \A n \in DOMAIN queue : queue[n] # o)
  BY <1>1
<1>4. IssuedOnce'
  <2>1. \A n \in DOMAIN issued : outcome'[issued[n]] # "none" BY <1>2, <1>3 DEF OrderInv, IssuedOnce
  <2>2. \A j \in DOMAIN db : outcome'[db[j][1]] # "none" BY <1>2, <1>3 DEF OrderInv, IssuedOnce
  <2>3. \A d \in Conns : \A j \in DOMAIN pend[d] : outcome'[pend[d][j][1]] # "none"
    BY <1>2, <1>3 DEF OrderInv, IssuedOnce
  <2> QED BY <1>1, <2>1, <2>2, <2>3 DEF OrderInv, IssuedOnce
<1>5. WaitInOrder'
  <2>1. \A n \in DOMAIN issued : outcome'[issued[n]] = "issued" => \E c \in Async : op[c] = issued[n]
    BY <1>2, <1>3 DEF OrderInv, WaitInOrder
  <2>2. \A d \in Sync : \A n \in DOMAIN issued : Absent(pend[d], issued[n])' <=> Absent(pend[d], issued[n])
    BY <1>1 DEF Absent
  <2> QED BY <1>1, <2>1, <2>2 DEF OrderInv, WaitInOrder
<1>6. OneAtATime'
  <2>1. \A m \in DOMAIN issued : outcome[issued[m]] \in {"done", "failed", "dropped"} =>
                                outcome'[issued[m]] \in {"done", "failed", "dropped"}
    BY <1>2, <1>3
  <2>2. \A n \in DOMAIN issued : Begun(issued[n])' <=> Begun(issued[n]) BY <1>1 DEF Begun, NoEffect, Absent
  <2> QED BY <1>1, <2>1, <2>2 DEF OrderInv, OneAtATime
<1>7. PendInOrder' /\ IssueOrder' BY <1>1 DEF OrderInv, PendInOrder, NoEffect, IssueOrder
<1> QED BY <1>4, <1>5, <1>6, <1>7 DEF OrderInv

\* The steps that change only a connection or who runs.
LEMMA LinkOrder ==
    ASSUME IInv, OrderInv,
           \/ \E c \in Conns : Reconnect(c)
           \/ \E c \in Async : Exit(c) \/ CloseAsync(c)
           \/ CloseSync
           \/ UNCHANGED vars
    PROVE  OrderInv'
<1>1. op' = op /\ queue' = queue /\ outcome' = outcome /\ issued' = issued /\ db' = db
  BY DEF Reconnect, Exit, CloseAsync, CloseSync, vars, callVars, serverVars, poolVars, envVars
<1>2. \A d \in Conns : pend'[d] = pend[d] \/ pend'[d] = <<>>
  <2>1. pend \in [Conns -> Seq(Ops \X Nat)] BY DEF IInv, TypeOK
  <2>2. CASE \E c \in Async : CloseAsync(c) BY <2>1, <2>2 DEF CloseAsync, ServerRollsBack
  <2>3. CASE CloseSync BY <2>3 DEF CloseSync
  <2> QED BY <2>2, <2>3 DEF Reconnect, Exit, vars, serverVars
<1>3. \A d \in Conns : \A j \in DOMAIN pend'[d] : pend'[d] = pend[d]
  <2> SUFFICES ASSUME NEW d \in Conns, NEW j \in DOMAIN pend'[d] PROVE pend'[d] = pend[d]
    OBVIOUS
  <2>1. pend'[d] # <<>> OBVIOUS
  <2> QED BY <1>2, <2>1
<1>4. IssuedOnce' BY <1>1, <1>3 DEF OrderInv, IssuedOnce
<1>5. WaitInOrder' BY <1>1, <1>3 DEF OrderInv, WaitInOrder, Absent, Conns
<1>6. OneAtATime'
  <2>1. ASSUME NEW n \in DOMAIN issued, Begun(issued[n])' PROVE Begun(issued[n])
    BY <1>1, <1>3, <2>1 DEF Begun, NoEffect, Absent, Conns
  <2> QED BY <1>1, <2>1 DEF OrderInv, OneAtATime
<1>7. PendInOrder' /\ IssueOrder' BY <1>1, <1>3 DEF OrderInv, PendInOrder, NoEffect, IssueOrder, Conns
<1> QED BY <1>4, <1>5, <1>6, <1>7 DEF OrderInv

\* Every step preserves the order.
LEMMA NextOrder == IInv /\ EffectInv /\ OrderInv /\ [Next]_vars => OrderInv'
<1> SUFFICES ASSUME IInv, EffectInv, OrderInv, [Next]_vars PROVE OrderInv'
  OBVIOUS
<1>1. ASSUME NEW c \in Conns, Step(c) \/ Fault(c) PROVE OrderInv'
  BY <1>1, StepOrder, LinkOrder DEF Step, Fault
<1>2. ASSUME NEW c \in Async, Dequeue(c) \/ Exit(c) \/ CloseAsync(c) PROVE OrderInv'
  BY <1>2, DequeueOrder, LinkOrder
<1>3. CASE CloseSync \/ UNCHANGED vars BY <1>3, LinkOrder
<1> QED BY <1>1, <1>2, <1>3, EnqueueOrder, DirectOrder, CloseOrder DEF Next, Terminating

-----------------------------------------------------------------------------
(* The theorems.                                                           *)

\* The invariant holds throughout.
LEMMA Invariance == Spec => []IInv
BY InitInv, NextInv, PTL DEF Spec

\* The types of the pool hold for any numbers of connections and operations:
\* in particular a connection never runs past the last command of a transaction
\* nor retries it more often than loopBreaker says.
THEOREM TypeCorrect == Spec => []TypeOK
<1>1. IInv => TypeOK BY DEF IInv
<1> QED BY <1>1, Invariance, PTL

\* No connection is left with an open transaction between two operations,
\* whatever statements fail and connections break, unless the server refused the
\* COMMIT or ROLLBACK that should have ended it: ExecuteTransaction ends what it
\* begins (MySQLConnection::ExecuteTransaction, TransactionTask::Execute).
THEOREM TransactionsEnd == Spec => []NoOpenTransaction
<1>1. IInv => NoOpenTransaction
  BY PoolAssumption DEF IInv, OpenTransactions, NoOpenTransaction, Ops
<1> QED BY <1>1, Invariance, PTL

\* DatabaseWorkerPool::Close deletes no connection that a worker or a caller
\* still uses.
THEOREM CloseCorrect == Spec => []ConnectionAliveInUse
<1>1. IInv => ConnectionAliveInUse
  BY PoolAssumption DEF IInv, TypeOK, Users, Deleted, ConnectionAliveInUse, Conns
<1> QED BY <1>1, Invariance, PTL

\* For any number of connections, operations, statements and failures, any
\* command refused or aborted: an operation whose connection held and whose
\* START TRANSACTION and ROLLBACK the server executed is in the database as a
\* whole, its statements together and in order, only if it was reported done;
\* otherwise it is not in it at all, and it can be missing although it was
\* reported done only when its COMMIT failed, which nobody looks at.  A single
\* statement reported done took effect, unless it ran in a transaction left open
\* (MySQLConnection::ExecuteTransaction, Execute).
THEOREM AllOrNothingCorrect == Spec => []AllOrNothing
<1>1. EffectInv => AllOrNothing BY DEF EffectInv
<1> QED BY <1>1, InitInv, NextInv, InitEffect, NextEffect, PTL DEF Spec

\* With one worker, whatever callers, statements and connections there are, the
\* asynchronous operations take effect in the order in which they were issued:
\* DatabaseWorker::svc begins one when those before it have ended, repetitions
\* after a deadlock or a reconnection included.
THEOREM IssueOrderCorrect == Spec => []IssueOrder
<1>1. OrderInv => IssueOrder BY DEF OrderInv
<1> QED BY <1>1, InitInv, NextInv, InitEffect, NextEffect, InitOrder, NextOrder, PTL DEF Spec
=============================================================================
