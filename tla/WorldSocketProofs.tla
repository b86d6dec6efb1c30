-------------------------- MODULE WorldSocketProofs --------------------------
(***************************************************************************)
(* Theorems about the world socket, for every set of senders: of           *)
(* WorldSocketOutput, that the stream is complete and in order and what    *)
(* waits for a slow client is bounded, for any packet sizes and any sizes  *)
(* of the buffers; of WorldSocket, that the session and the socket are     *)
(* alive while they are used.                                              *)
(***************************************************************************)
EXTENDS WorldSocket, WorldSocketOutput, SequenceTheorems, WellFoundedInduction, TLAPS

-----------------------------------------------------------------------------
(* Runs of bytes.                                                          *)

LEMMA RunIs ==
    ASSUME NEW n \in Nat, NEW size \in Nat
    PROVE  /\ Run(n, size) \in Seq(Nat) /\ Len(Run(n, size)) = size
           /\ \A k \in 1 .. size : Run(n, size)[k] = n + k
BY DEF Run

\* A sequence is a run when its bytes are consecutive.
LEMMA IsRun ==
    ASSUME NEW s \in Seq(Nat), NEW n \in Nat, \A k \in 1 .. Len(s) : s[k] = n + k
    PROVE  s = Run(n, Len(s))
<1>1. Len(s) \in Nat /\ DOMAIN s = 1 .. Len(s) OBVIOUS
<1>2. s = [k \in 1 .. Len(s) |-> s[k]] BY <1>1
<1> QED BY <1>2 DEF Run

\* Two runs of which the second goes on where the first ends are one.
LEMMA RunsJoin ==
    ASSUME NEW n \in Nat, NEW i \in Nat, NEW j \in Nat
    PROVE  Run(n, i) \o Run(n + i, j) = Run(n, i + j)
<1> DEFINE s == Run(n, i)
           t == Run(n + i, j)
<1>0. n + i \in Nat OBVIOUS
<1>1. /\ s \in Seq(Nat) /\ Len(s) = i /\ \A k \in 1 .. i : s[k] = n + k
      /\ t \in Seq(Nat) /\ Len(t) = j /\ \A k \in 1 .. j : t[k] = (n + i) + k
  BY <1>0, RunIs
<1> HIDE DEF s, t
<1>2. /\ s \o t \in Seq(Nat) /\ Len(s \o t) = i + j
      /\ \A k \in 1 .. i + j : (s \o t)[k] = IF k <= i THEN s[k] ELSE t[k - i]
  <2>1. /\ s \o t \in Seq(Nat) /\ Len(s \o t) = Len(s) + Len(t)
        /\ \A k \in 1 .. Len(s) + Len(t) :
             (s \o t)[k] = IF k <= Len(s) THEN s[k] ELSE t[k - Len(s)]
    BY <1>1, ConcatProperties
  <2> QED BY <1>1, <2>1
<1>3. ASSUME NEW k \in 1 .. i + j PROVE (s \o t)[k] = n + k
  <2>1. CASE k <= i BY <1>1, <1>2, <2>1
  <2>2. CASE i < k
    <3>1. k - i \in 1 .. j BY <2>2
    <3> QED BY <1>1, <1>2, <2>2, <3>1
  <2>3. k <= i \/ i < k OBVIOUS
  <2> QED BY <2>1, <2>2, <2>3
<1>4. s \o t = Run(n, Len(s \o t)) BY <1>2, <1>3, IsRun
<1> QED BY <1>2, <1>4 DEF s, t

\* A run is cut into two.
LEMMA RunCut ==
    ASSUME NEW n \in Nat, NEW size \in Nat, NEW i \in 0 .. size
    PROVE  /\ SubSeq(Run(n, size), 1, i) = Run(n, i)
           /\ SubSeq(Run(n, size), i + 1, size) = Run(n + i, size - i)
<1> DEFINE r == Run(n, size)
           s == SubSeq(r, 1, i)
           t == SubSeq(r, i + 1, size)
<1>1. r \in Seq(Nat) /\ Len(r) = size /\ \A k \in 1 .. size : r[k] = n + k BY RunIs
<1> HIDE DEF r
<1>2. \A k \in 1 .. size : r[k] \in Nat BY <1>1
<1>3. s \in Seq(Nat) /\ Len(s) = i /\ \A k \in 1 .. i : s[k] = n + k
  <2>1. \A k \in 1 .. i : r[k] \in Nat BY <1>2
  <2>2. /\ s \in Seq(Nat) /\ Len(s) = IF 1 <= i THEN i - 1 + 1 ELSE 0
        /\ \A k \in 1 .. i - 1 + 1 : s[k] = r[1 + k - 1]
    BY <2>1, SubSeqProperties
  <2> QED BY <1>1, <2>2
<1>4. t \in Seq(Nat) /\ Len(t) = size - i /\ \A k \in 1 .. size - i : t[k] = (n + i) + k
  <2>1. \A k \in i + 1 .. size : r[k] \in Nat BY <1>2
  <2>2. /\ t \in Seq(Nat) /\ Len(t) = IF i + 1 <= size THEN size - (i + 1) + 1 ELSE 0
        /\ \A k \in 1 .. size - (i + 1) + 1 : t[k] = r[i + 1 + k - 1]
    BY <2>1, SubSeqProperties
  <2>3. \A k \in 1 .. size - i : i + 1 + k - 1 = i + k /\ i + k \in 1 .. size OBVIOUS
  <2>4. size - (i + 1) + 1 = size - i OBVIOUS
  <2>5. \A k \in 1 .. size - i : t[k] = r[i + k] BY <2>2, <2>3, <2>4
  <2> QED BY <1>1, <2>2, <2>3, <2>4, <2>5
<1>5. s = Run(n, i) BY <1>3, IsRun
<1>6. t = Run(n + i, size - i)
  <2>1. n + i \in Nat OBVIOUS
  <2>2. t = Run(n + i, Len(t)) BY <1>4, <2>1, IsRun
  <2> QED BY <1>4, <2>2
<1> QED BY <1>5, <1>6 DEF r

-----------------------------------------------------------------------------
(* The bytes of the queue.                                                 *)

\* A set of naturals that is not empty has a smallest element.
LEMMA SmallestOf ==
    ASSUME NEW S \in SUBSET Nat, S # {}
    PROVE  \E n \in S : \A m \in S : n <= m
<1> DEFINE Less == OpToRel(<, Nat)
<1>1. IsWellFoundedOn(Less, Nat) BY NatLessThanWellFounded
<1> HIDE DEF Less
<1>2. PICK n \in S : \A m \in S : <<m, n>> \notin Less BY <1>1, WFMin
<1>3. \A m \in S : ~(m < n) BY <1>2 DEF Less, OpToRel
<1> QED BY <1>3

Sized(q) == Len(q) \in Nat /\ \A n \in 1 .. Len(q) : q[n].size \in Nat

\* f gives the bytes of the first messages of q.
Totals(q, f) ==
    /\ f \in [0 .. Len(q) -> Nat]
    /\ f[0] = 0
    /\ \A n \in 1 .. Len(q) : f[n] = f[n - 1] + q[n].size

\* A part of one queue that has the sizes of another has its bytes.
LEMMA SameTotals ==
    ASSUME NEW q, NEW r, Sized(q), Sized(r), NEW f, NEW g, Totals(q, f), Totals(r, g),
           NEW d \in Nat, NEW m \in Nat, m <= Len(r), m + d <= Len(q),
           \A n \in 1 .. m : q[n + d].size = r[n].size
    PROVE  f[m + d] = g[m] + f[d]
<1> DEFINE Bad == {n \in 0 .. m : f[n + d] # g[n] + f[d]}
<1> SUFFICES ASSUME Bad # {} PROVE FALSE
  OBVIOUS
<1>1. PICK n \in Bad : \A k \in Bad : n <= k
  <2>1. Bad \in SUBSET Nat OBVIOUS
  <2> HIDE DEF Bad
  <2> QED BY <2>1, SmallestOf
<1>2. n \in 0 .. m /\ f[n + d] # g[n] + f[d] BY <1>1
<1>0. Len(q) \in Nat /\ Len(r) \in Nat BY DEF Sized
<1>3. f[d] \in Nat
  <2>1. d \in 0 .. Len(q) BY <1>0
  <2> QED BY <2>1 DEF Totals
<1>4. n # 0 BY <1>2, <1>3 DEF Totals
<1>5. n \in 1 .. m /\ n - 1 \in 0 .. m /\ n - 1 \notin Bad BY <1>1, <1>2, <1>4
<1>6. f[(n - 1) + d] = g[n - 1] + f[d] BY <1>5
<1>7. n + d \in 1 .. Len(q) /\ (n + d) - 1 = (n - 1) + d /\ n \in 1 .. Len(r)
  BY <1>5 DEF Sized
<1>8. f[n + d] = f[(n - 1) + d] + q[n + d].size BY <1>7 DEF Totals
<1>9. g[n] = g[n - 1] + r[n].size BY <1>7 DEF Totals
<1>10. q[n + d].size = r[n].size /\ r[n].size \in Nat BY <1>5, <1>7 DEF Sized
<1>11. g[n - 1] \in Nat
  <2>1. n - 1 \in 0 .. Len(r) BY <1>0, <1>7
  <2> QED BY <2>1 DEF Totals
<1>12. f[n + d] = (g[n - 1] + f[d]) + r[n].size BY <1>6, <1>8, <1>10
<1>13. \A a, b, c \in Nat : (a + b) + c = (a + c) + b OBVIOUS
<1>14. f[n + d] = (g[n - 1] + r[n].size) + f[d] BY <1>3, <1>10, <1>11, <1>12, <1>13
<1> QED BY <1>2, <1>9, <1>14

\* The recursion of Bytes is defined: it has a solution, by induction on the
\* length of the queue.
LEMMA TotalsExist == ASSUME NEW q, Sized(q) PROVE \E f : Totals(q, f)
<1> DEFINE Upto(n, f) == /\ f \in [0 .. n -> Nat] /\ f[0] = 0
                         /\ \A k \in 1 .. n : f[k] = f[k - 1] + q[k].size
           Bad == {n \in 0 .. Len(q) : ~ \E f : Upto(n, f)}
<1>1. Len(q) \in Nat BY DEF Sized
<1>2. SUFFICES ASSUME Bad # {} PROVE FALSE
  <2> SUFFICES ASSUME Bad = {} PROVE \E f : Totals(q, f)
    OBVIOUS
  <2>1. PICK f : Upto(Len(q), f) BY <1>1
  <2>2. Totals(q, f) BY <2>1 DEF Totals
  <2> QED BY <2>2
<1>3. PICK n \in Bad : \A k \in Bad : n <= k
  <2>1. Bad \in SUBSET Nat BY <1>1
  <2> HIDE DEF Bad
  <2> QED BY <1>2, <2>1, SmallestOf
<1>4. n \in 0 .. Len(q) /\ ~ \E f : Upto(n, f) BY <1>3
<1>5. n # 0
  <2> SUFFICES ASSUME n = 0 PROVE FALSE
    OBVIOUS
  <2>1. Upto(0, [k \in 0 .. 0 |-> 0]) OBVIOUS
  <2> QED BY <1>4, <2>1
<1>6. n - 1 \in 0 .. Len(q) /\ n - 1 \notin Bad
  <2>1. n - 1 \in 0 .. Len(q) /\ ~(n <= n - 1) BY <1>1, <1>4, <1>5
  <2> HIDE DEF Bad
  <2> QED BY <1>3, <2>1
<1>7. PICK f : Upto(n - 1, f) BY <1>6
<1> DEFINE g == [k \in 0 .. n |-> IF k = n THEN f[n - 1] + q[n].size ELSE f[k]]
<1>8. q[n].size \in Nat /\ f[n - 1] \in Nat BY <1>1, <1>4, <1>5, <1>6, <1>7 DEF Sized
<1>9. g \in [0 .. n -> Nat] /\ g[0] = 0 BY <1>1, <1>4, <1>5, <1>7, <1>8
<1>10. ASSUME NEW k \in 1 .. n PROVE g[k] = g[k - 1] + q[k].size
  <2>1. g[k - 1] = f[k - 1] BY <1>1, <1>4
  <2>2. CASE k = n BY <1>1, <1>4, <1>5, <2>1, <2>2
  <2>3. CASE k # n
    <3>1. k \in 1 .. n - 1 /\ g[k] = f[k] BY <1>1, <1>4, <2>3
    <3> QED BY <1>7, <2>1, <3>1
  <2> QED BY <2>2, <2>3
<1>11. Upto(n, g) BY <1>9, <1>10
<1> QED BY <1>4, <1>11

\* What Bytes computes.
LEMMA BytesIs ==
    ASSUME NEW q, Sized(q) PROVE \E f : Totals(q, f) /\ Bytes(q) = f[Len(q)]
<1> DEFINE F(f) == [n \in 0 .. Len(q) |-> IF n = 0 THEN 0 ELSE f[n - 1] + q[n].size]
           t == CHOOSE f : f = F(f)
<1>1. Bytes(q) = t[Len(q)] BY DEF Bytes
<1>2. PICK f : Totals(q, f) BY TotalsExist
<1>3. Len(q) \in Nat BY DEF Sized
<1>4. f = F(f)
  <2>1. DOMAIN f = 0 .. Len(q) /\ f = [n \in 0 .. Len(q) |-> f[n]] BY <1>2 DEF Totals
  <2>2. \A n \in 0 .. Len(q) : f[n] = IF n = 0 THEN 0 ELSE f[n - 1] + q[n].size
    BY <1>2, <1>3 DEF Totals
  <2> QED BY <2>1, <2>2
<1>5. t = F(t)
  <2> HIDE DEF F
  <2> QED BY <1>4
<1> HIDE DEF t
<1>6. t[0] = 0 /\ \A n \in 1 .. Len(q) : t[n] = t[n - 1] + q[n].size BY <1>3, <1>5
<1> DEFINE Bad == {n \in 0 .. Len(q) : t[n] # f[n]}
<1>7. Bad = {}
  <2> SUFFICES ASSUME Bad # {} PROVE FALSE
    OBVIOUS
  <2>1. PICK n \in Bad : \A k \in Bad : n <= k
    <3>1. Bad \in SUBSET Nat BY <1>3
    <3> HIDE DEF Bad
    <3> QED BY <3>1, SmallestOf
  <2>2. n \in 0 .. Len(q) /\ t[n] # f[n] BY <2>1
  <2>3. n # 0 BY <1>2, <1>6, <2>2 DEF Totals
  <2>4. n \in 1 .. Len(q) /\ n - 1 \in 0 .. Len(q) /\ n - 1 \notin Bad BY <1>3, <2>1, <2>2, <2>3
  <2>5. t[n - 1] = f[n - 1] BY <2>4
  <2>6. t[n] = t[n - 1] + q[n].size BY <1>6, <2>4
  <2>7. f[n] = f[n - 1] + q[n].size BY <1>2, <2>4 DEF Totals
  <2> QED BY <2>2, <2>5, <2>6, <2>7
<1>8. t[Len(q)] = f[Len(q)] BY <1>3, <1>7
<1> QED BY <1>1, <1>2, <1>8

Messages == [size : Sizes, data : Seq(Nat)]

\* A queue of messages, each with something left to send.
Queue(q) == q \in Seq(Messages) /\ \A n \in 1 .. Len(q) : Len(q[n].data) >= 1

LEMMA QueueSized == ASSUME NEW q, Queue(q) PROVE Sized(q)
<1>1. q \in Seq(Messages) /\ Len(q) \in Nat BY DEF Queue
<1>2. ASSUME NEW n \in 1 .. Len(q) PROVE q[n].size \in Nat
  <2>1. q[n] \in Messages BY <1>1, <1>2
  <2>2. q[n].size \in Sizes BY <2>1 DEF Messages
  <2> QED BY <2>2, SizeAssumption
<1> QED BY <1>1, <1>2 DEF Sized

\* Queues with the same sizes have the same bytes.
LEMMA BytesSame ==
    ASSUME NEW q, NEW r, Sized(q), Sized(r), Len(q) = Len(r),
           \A n \in 1 .. Len(r) : q[n].size = r[n].size
    PROVE  Bytes(q) = Bytes(r)
<1>1. PICK f : Totals(q, f) /\ Bytes(q) = f[Len(q)] BY BytesIs
<1>2. PICK g : Totals(r, g) /\ Bytes(r) = g[Len(r)] BY BytesIs
<1>3. Len(r) \in Nat BY DEF Sized
<1>4. f[Len(r) + 0] = g[Len(r)] + f[0] BY <1>1, <1>2, <1>3, SameTotals
<1>5. f[0] = 0 /\ g[Len(r)] \in Nat /\ Len(r) + 0 = Len(r) BY <1>1, <1>2, <1>3 DEF Totals
<1> QED BY <1>1, <1>2, <1>4, <1>5

\* A message joins the queue.
LEMMA BytesAppend ==
    ASSUME NEW q, Queue(q), NEW m \in Messages, Len(m.data) >= 1
    PROVE  Queue(Append(q, m)) /\ Bytes(Append(q, m)) = Bytes(q) + m.size /\ Bytes(q) \in Nat
<1> DEFINE r == Append(q, m)
<1>1. q \in Seq(Messages) /\ Len(q) \in Nat BY DEF Queue
<1>2. /\ r \in Seq(Messages) /\ Len(r) = Len(q) + 1 /\ r[Len(q) + 1] = m
      /\ \A n \in 1 .. Len(q) : r[n] = q[n]
  BY <1>1, AppendProperties
<1> HIDE DEF r
<1>3. Queue(r)
  <2> SUFFICES ASSUME NEW n \in 1 .. Len(r) PROVE Len(r[n].data) >= 1
    BY <1>2 DEF Queue
  <2>1. CASE n = Len(q) + 1 BY <1>2, <2>1
  <2>2. CASE n # Len(q) + 1
    <3>1. n \in 1 .. Len(q) BY <1>1, <1>2, <2>2
    <3> QED BY <1>2, <3>1 DEF Queue
  <2> QED BY <2>1, <2>2
<1>4. Sized(q) /\ Sized(r) BY <1>3, QueueSized
<1>5. PICK f : Totals(r, f) /\ Bytes(r) = f[Len(r)] BY <1>4, BytesIs
<1>6. PICK g : Totals(q, g) /\ Bytes(q) = g[Len(q)] BY <1>4, BytesIs
<1>7. f[Len(q) + 0] = g[Len(q)] + f[0]
  <2>1. Len(q) + 0 <= Len(r) /\ \A n \in 1 .. Len(q) : r[n + 0].size = q[n].size BY <1>1, <1>2
  <2> QED BY <1>1, <1>4, <1>5, <1>6, <2>1, SameTotals
<1>8. f[0] = 0 /\ g[Len(q)] \in Nat /\ Len(q) + 0 = Len(q) BY <1>1, <1>5, <1>6 DEF Totals
<1>9. f[Len(q)] = g[Len(q)] BY <1>7, <1>8
<1>10. f[Len(r)] = f[Len(q)] + m.size
  <2>1. Len(q) + 1 \in 1 .. Len(r) /\ (Len(q) + 1) - 1 = Len(q) BY <1>1, <1>2
  <2>2. f[Len(q) + 1] = f[(Len(q) + 1) - 1] + r[Len(q) + 1].size BY <1>5, <2>1 DEF Totals
  <2> QED BY <1>2, <2>1, <2>2
<1> QED BY <1>3, <1>5, <1>6, <1>8, <1>9, <1>10 DEF r

\* The first message is taken off the queue.
LEMMA BytesTail ==
    ASSUME NEW q, Queue(q), q # <<>>
    PROVE  /\ Queue(Tail(q)) /\ Bytes(q) = Bytes(Tail(q)) + Head(q).size
           /\ Bytes(Tail(q)) \in Nat /\ Head(q).size \in Nat
<1> DEFINE r == Tail(q)
<1>1. q \in Seq(Messages) /\ Len(q) \in Nat BY DEF Queue
<1>2. Len(q) >= 1 BY <1>1, EmptySeq
<1>3. /\ r \in Seq(Messages) /\ Len(r) = Len(q) - 1 /\ \A n \in 1 .. Len(r) : r[n] = q[n + 1]
  BY <1>1, HeadTailProperties
<1>4. Head(q) = q[1] BY <1>1, <1>2
<1> HIDE DEF r
<1>5. Queue(r)
  <2> SUFFICES ASSUME NEW n \in 1 .. Len(r) PROVE Len(r[n].data) >= 1
    BY <1>3 DEF Queue
  <2>1. n + 1 \in 1 .. Len(q) /\ r[n] = q[n + 1] BY <1>1, <1>3
  <2> QED BY <2>1 DEF Queue
<1>6. Sized(q) /\ Sized(r) BY <1>5, QueueSized
<1>7. PICK f : Totals(q, f) /\ Bytes(q) = f[Len(q)] BY <1>6, BytesIs
<1>8. PICK g : Totals(r, g) /\ Bytes(r) = g[Len(r)] BY <1>6, BytesIs
<1>9. f[Len(r) + 1] = g[Len(r)] + f[1]
  <2>1. /\ Len(r) \in Nat /\ Len(r) + 1 <= Len(q) /\ \A n \in 1 .. Len(r) : q[n + 1].size = r[n].size
    BY <1>1, <1>2, <1>3
  <2> QED BY <1>6, <1>7, <1>8, <2>1, SameTotals
<1>10. f[1] = q[1].size /\ q[1].size \in Nat
  <2>1. 1 \in 1 .. Len(q) /\ 1 - 1 = 0 BY <1>1, <1>2
  <2>2. f[1] = f[1 - 1] + q[1].size /\ f[0] = 0 /\ q[1].size \in Nat
    BY <1>6, <1>7, <2>1 DEF Totals, Sized
  <2> QED BY <2>1, <2>2
<1>11. Len(r) + 1 = Len(q) /\ Len(r) \in Nat BY <1>1, <1>2, <1>3
<1>12. g[Len(r)] \in Nat BY <1>8, <1>11 DEF Totals
<1> QED BY <1>4, <1>5, <1>7, <1>8, <1>9, <1>10, <1>11, <1>12 DEF r

-----------------------------------------------------------------------------
(* The chain of the bytes that were sent, those in the buffer and those of *)
(* the messages in the queue.                                              *)

End(w, b, q, n) == IF n = 0 THEN Len(w) + Len(b) ELSE q[n].data[Len(q[n].data)]

Chain(w, b, q, a) ==
    /\ w = Run(0, Len(w))
    /\ b = Run(Len(w), Len(b))
    /\ \A n \in 1 .. Len(q) : q[n].data = Run(End(w, b, q, n - 1), Len(q[n].data))
    /\ End(w, b, q, Len(q)) = a

\* A message of the queue.
LEMMA MessageOf ==
    ASSUME NEW q, Queue(q), NEW n \in 1 .. Len(q)
    PROVE  /\ q[n] \in Messages /\ q[n].data \in Seq(Nat) /\ Len(q[n].data) \in Nat \ {0}
           /\ q[n].data[Len(q[n].data)] \in Nat
<1>1. q[n] \in Messages BY DEF Queue
<1>2. q[n].data \in Seq(Nat) BY <1>1 DEF Messages
<1>3. Len(q[n].data) \in Nat /\ Len(q[n].data) >= 1 BY <1>2 DEF Queue
<1> QED BY <1>1, <1>2, <1>3

\* Bytes move from the buffer to the wire.
LEMMA ChainPart ==
    ASSUME NEW w \in Seq(Nat), NEW b \in Seq(Nat), NEW q, Queue(q), NEW a, Chain(w, b, q, a),
           NEW i \in 0 .. Len(b)
    PROVE  LET v == w \o SubSeq(b, 1, i)
               c == SubSeq(b, i + 1, Len(b))
           IN  /\ v \in Seq(Nat) /\ c \in Seq(Nat)
               /\ Len(v) = Len(w) + i /\ Len(c) = Len(b) - i
               /\ Chain(v, c, q, a)
<1> DEFINE m == Len(w)
           l == Len(b)
           v == w \o SubSeq(b, 1, i)
           c == SubSeq(b, i + 1, l)
<1>1. m \in Nat /\ l \in Nat /\ w = Run(0, m) /\ b = Run(m, l) BY DEF Chain
<1> HIDE DEF m, l
<1>2. i \in Nat /\ i \in 0 .. l /\ m + i \in Nat /\ l - i \in Nat BY <1>1 DEF l
<1>3. SubSeq(b, 1, i) = Run(m, i) /\ c = Run(m + i, l - i) BY <1>1, <1>2, RunCut
<1>4. v = Run(0, m + i)
  <2>1. Run(0, m) \o Run(0 + m, i) = Run(0, m + i) BY <1>1, <1>2, RunsJoin
  <2>2. 0 + m = m BY <1>1
  <2> QED BY <1>1, <1>3, <2>1, <2>2
<1> HIDE DEF v, c
<1>5. v \in Seq(Nat) /\ Len(v) = m + i /\ c \in Seq(Nat) /\ Len(c) = l - i
  BY <1>1, <1>2, <1>3, <1>4, RunIs
<1>6. Len(v) + Len(c) = m + l BY <1>1, <1>2, <1>5
<1>7. \A n : End(v, c, q, n) = End(w, b, q, n) BY <1>6 DEF End, m, l
<1>8. Chain(v, c, q, a)
  <2>1. v = Run(0, Len(v)) /\ c = Run(Len(v), Len(c)) BY <1>3, <1>4, <1>5
  <2>2. \A n \in 1 .. Len(q) : q[n].data = Run(End(v, c, q, n - 1), Len(q[n].data))
    BY <1>7 DEF Chain
  <2>3. End(v, c, q, Len(q)) = a BY <1>7 DEF Chain
  <2> QED BY <2>1, <2>2, <2>3 DEF Chain
<1> QED BY <1>5, <1>8 DEF v, c, m, l

\* All of the buffer is sent.
LEMMA ChainFlush ==
    ASSUME NEW w \in Seq(Nat), NEW b \in Seq(Nat), NEW q, Queue(q), NEW a, Chain(w, b, q, a)
    PROVE  w \o b \in Seq(Nat) /\ Chain(w \o b, <<>>, q, a)
<1>1. Len(b) \in 0 .. Len(b) /\ Len(b) \in Nat OBVIOUS
<1>2. SubSeq(b, 1, Len(b)) = b BY SubSeqFull
<1>3. SubSeq(b, Len(b) + 1, Len(b)) = <<>> BY <1>1, SubSeqEmpty
<1>4. /\ w \o SubSeq(b, 1, Len(b)) \in Seq(Nat)
      /\ Chain(w \o SubSeq(b, 1, Len(b)), SubSeq(b, Len(b) + 1, Len(b)), q, a)
  BY <1>1, ChainPart
<1> QED BY <1>2, <1>3, <1>4

\* SendPacket puts a packet into the buffer.
LEMMA ChainBuffer ==
    ASSUME NEW w \in Seq(Nat), NEW b \in Seq(Nat), NEW a \in Nat, Chain(w, b, <<>>, a), NEW size \in Nat
    PROVE  LET c == b \o Run(a, size)
           IN  c \in Seq(Nat) /\ Len(c) = Len(b) + size /\ Chain(w, c, <<>>, a + size)
<1> DEFINE m == Len(w)
           l == Len(b)
           c == b \o Run(a, size)
<1>1. m \in Nat /\ l \in Nat /\ w = Run(0, m) /\ b = Run(m, l) /\ a = m + l BY DEF Chain, End
<1> HIDE DEF m, l
<1>2. c = Run(m, l + size) BY <1>1, RunsJoin
<1> HIDE DEF c
<1>3. l + size \in Nat BY <1>1
<1>4. c \in Seq(Nat) /\ Len(c) = l + size BY <1>1, <1>2, <1>3, RunIs
<1>5. m + (l + size) = a + size BY <1>1
<1>6. End(w, c, <<>>, 0) = a + size BY <1>4, <1>5 DEF End, m
<1>7. Chain(w, c, <<>>, a + size)
  <2>1. Len(<<>>) = 0 /\ 1 .. Len(<<>>) = {} OBVIOUS
  <2>2. w = Run(0, Len(w)) /\ c = Run(Len(w), Len(c)) BY <1>1, <1>2, <1>4 DEF m
  <2> QED BY <1>6, <2>1, <2>2 DEF Chain
<1> QED BY <1>4, <1>7 DEF c, l

\* SendPacket puts a packet into the queue.
LEMMA ChainAppend ==
    ASSUME NEW w, NEW b, NEW q, Queue(q), NEW a \in Nat, Chain(w, b, q, a),
           NEW m \in Messages, NEW size \in Nat \ {0}, m.data = Run(a, size)
    PROVE  Chain(w, b, Append(q, m), a + size)
<1> DEFINE r == Append(q, m)
<1>1. q \in Seq(Messages) /\ Len(q) \in Nat BY DEF Queue
<1>2. /\ Len(r) = Len(q) + 1 /\ r[Len(q) + 1] = m
      /\ \A n \in 1 .. Len(q) : r[n] = q[n]
  BY <1>1, AppendProperties
<1> HIDE DEF r
<1>3. Len(m.data) = size /\ m.data[size] = a + size
  <2>1. size \in Nat /\ size \in 1 .. size OBVIOUS
  <2>2. Len(Run(a, size)) = size /\ Run(a, size)[size] = a + size BY <2>1, RunIs
  <2> QED BY <2>2
<1>4. \A n \in 0 .. Len(q) : End(w, b, r, n) = End(w, b, q, n) BY <1>2 DEF End
<1>5. End(w, b, r, Len(r)) = a + size BY <1>1, <1>2, <1>3 DEF End
<1>6. ASSUME NEW n \in 1 .. Len(r)
      PROVE  r[n].data = Run(End(w, b, r, n - 1), Len(r[n].data))
  <2>1. n - 1 \in 0 .. Len(q) BY <1>1, <1>2
  <2>2. End(w, b, r, n - 1) = End(w, b, q, n - 1) BY <1>4, <2>1
  <2>3. CASE n = Len(q) + 1
    <3>1. n - 1 = Len(q) /\ r[n] = m BY <1>1, <1>2, <2>3
    <3>2. End(w, b, q, n - 1) = a BY <3>1 DEF Chain
    <3> QED BY <1>3, <2>2, <3>1, <3>2
  <2>4. CASE n # Len(q) + 1
    <3>1. n \in 1 .. Len(q) BY <1>1, <1>2, <2>4
    <3> QED BY <1>2, <2>2, <3>1 DEF Chain
  <2> QED BY <2>3, <2>4
<1>7. Chain(w, b, r, a + size) BY <1>5, <1>6 DEF Chain
<1> QED BY <1>7 DEF r

\* The first message of the queue: where it begins.
LEMMA FirstMessage ==
    ASSUME NEW w \in Seq(Nat), NEW q, Queue(q), q # <<>>, NEW a, Chain(w, <<>>, q, a)
    PROVE  LET d == Head(q).data
           IN  /\ Head(q) = q[1] /\ Len(q) \in Nat \ {0} /\ Head(q) \in Messages
               /\ d \in Seq(Nat) /\ Len(d) \in Nat \ {0}
               /\ w = Run(0, Len(w)) /\ d = Run(Len(w), Len(d))
               /\ d[Len(d)] = Len(w) + Len(d)
<1> DEFINE d == Head(q).data
<1>1. q \in Seq(Messages) /\ Len(q) \in Nat \ {0} BY EmptySeq DEF Queue
<1>2. Head(q) = q[1] /\ 1 \in 1 .. Len(q) BY <1>1
<1>3. Head(q) \in Messages /\ d \in Seq(Nat) /\ Len(d) \in Nat \ {0} BY <1>2, MessageOf
<1>4. Len(w) \in Nat /\ Len(<<>>) = 0 OBVIOUS
<1>5. End(w, <<>>, q, 1 - 1) = Len(w) BY <1>4 DEF End
<1>6. w = Run(0, Len(w)) /\ q[1].data = Run(End(w, <<>>, q, 1 - 1), Len(q[1].data))
  BY <1>2 DEF Chain
<1>7. d = Run(Len(w), Len(d)) BY <1>2, <1>5, <1>6
<1>8. Len(d) \in 1 .. Len(d) BY <1>3
<1>9. Run(Len(w), Len(d))[Len(d)] = Len(w) + Len(d) BY <1>3, <1>4, <1>8, RunIs
<1> QED BY <1>1, <1>2, <1>3, <1>6, <1>7, <1>9

\* The first message is sent.
LEMMA ChainHead ==
    ASSUME NEW w \in Seq(Nat), NEW q, Queue(q), q # <<>>, NEW a, Chain(w, <<>>, q, a)
    PROVE  w \o Head(q).data \in Seq(Nat) /\ Chain(w \o Head(q).data, <<>>, Tail(q), a)
<1> DEFINE d == Head(q).data
           v == w \o d
           r == Tail(q)
           m == Len(w)
           l == Len(d)
<1>1. /\ Head(q) = q[1] /\ Len(q) \in Nat \ {0} /\ d \in Seq(Nat) /\ l \in Nat \ {0}
      /\ w = Run(0, m) /\ d = Run(m, l) /\ d[l] = m + l /\ m \in Nat
  BY FirstMessage
<1>2. /\ Len(r) = Len(q) - 1 /\ \A n \in 1 .. Len(r) : r[n] = q[n + 1]
  BY <1>1, HeadTailProperties DEF Queue
<1> HIDE DEF r, m, l, d
<1>3. v = Run(0, m + l)
  <2>1. Run(0, m) \o Run(0 + m, l) = Run(0, m + l) BY <1>1, RunsJoin
  <2>2. 0 + m = m BY <1>1
  <2> QED BY <1>1, <2>1, <2>2
<1> HIDE DEF v
<1>4. v \in Seq(Nat) /\ Len(v) = m + l BY <1>1, <1>3, RunIs
<1>5. ASSUME NEW n \in 0 .. Len(r) PROVE End(v, <<>>, r, n) = End(w, <<>>, q, n + 1)
  <2>1. CASE n = 0
    <3>1. End(w, <<>>, q, n + 1) = d[l] BY <1>1, <2>1 DEF End, d, l
    <3>2. End(v, <<>>, r, n) = m + l BY <1>1, <1>4, <2>1 DEF End
    <3> QED BY <1>1, <3>1, <3>2
  <2>2. CASE n # 0
    <3>1. n \in 1 .. Len(r) /\ n + 1 # 0 BY <1>1, <1>2, <2>2
    <3> QED BY <1>2, <2>2, <3>1 DEF End
  <2> QED BY <2>1, <2>2
<1>6. ASSUME NEW n \in 1 .. Len(r)
      PROVE  r[n].data = Run(End(v, <<>>, r, n - 1), Len(r[n].data))
  <2>1. n + 1 \in 1 .. Len(q) /\ n - 1 \in 0 .. Len(r) /\ (n - 1) + 1 = (n + 1) - 1
    BY <1>1, <1>2
  <2>2. q[n + 1].data = Run(End(w, <<>>, q, (n + 1) - 1), Len(q[n + 1].data))
    BY <2>1 DEF Chain
  <2>3. End(v, <<>>, r, n - 1) = End(w, <<>>, q, (n - 1) + 1) BY <1>5, <2>1
  <2> QED BY <1>2, <2>1, <2>2, <2>3
<1>7. End(v, <<>>, r, Len(r)) = a
  <2>1. Len(r) \in 0 .. Len(r) /\ Len(r) + 1 = Len(q) BY <1>1, <1>2
  <2> QED BY <1>5, <2>1 DEF Chain
<1>8. Chain(v, <<>>, r, a)
  <2>1. Len(<<>>) = 0 /\ Len(v) \in Nat /\ v = Run(0, Len(v))
    <3>1. m + l \in Nat BY <1>1
    <3> QED BY <1>3, <1>4, <3>1
  <2>2. <<>> = Run(Len(v), Len(<<>>)) BY <2>1 DEF Run
  <2> QED BY <1>6, <1>7, <2>1, <2>2 DEF Chain
<1> QED BY <1>4, <1>8 DEF v, d, r

\* The rest of a message that was sent in part is put back.
LEMMA PutBack ==
    ASSUME NEW q, Queue(q), q # <<>>, NEW i \in Nat, i < Len(Head(q).data)
    PROVE  LET rest == [Head(q) EXCEPT !.data = SubSeq(@, i + 1, Len(@))]
               r == <<rest>> \o Tail(q)
           IN  /\ rest.data = SubSeq(Head(q).data, i + 1, Len(Head(q).data))
               /\ Queue(r) /\ Bytes(r) = Bytes(q) /\ Len(r) = Len(q) /\ r[1] = rest
               /\ \A n \in 2 .. Len(q) : r[n] = q[n]
<1> DEFINE d == Head(q).data
           l == Len(d)
           e == SubSeq(d, i + 1, l)
           rest == [Head(q) EXCEPT !.data = e]
           r == <<rest>> \o Tail(q)
<1>1. q \in Seq(Messages) /\ Len(q) \in Nat \ {0} BY EmptySeq DEF Queue
<1>2. Head(q) = q[1] /\ 1 \in 1 .. Len(q) BY <1>1
<1>3. Head(q) \in Messages /\ d \in Seq(Nat) /\ l \in Nat /\ i < l BY <1>2, MessageOf
<1> HIDE DEF d, l
<1>4. e \in Seq(Nat) /\ Len(e) >= 1
  <2>1. \A k \in 1 .. l : d[k] \in Nat BY <1>3 DEF l
  <2>2. \A k \in i + 1 .. l : d[k] \in Nat BY <1>3, <2>1
  <2>3. e \in Seq(Nat) /\ Len(e) = IF i + 1 <= l THEN l - (i + 1) + 1 ELSE 0
    BY <1>3, <2>2, SubSeqProperties
  <2> HIDE DEF e
  <2> QED BY <1>3, <2>3
<1> HIDE DEF e
<1>7. rest \in Messages /\ rest.data = e /\ rest.size = q[1].size BY <1>2, <1>3, <1>4 DEF Messages
<1> HIDE DEF rest
<1>8. /\ Tail(q) \in Seq(Messages) /\ Len(Tail(q)) = Len(q) - 1
      /\ \A n \in 1 .. Len(Tail(q)) : Tail(q)[n] = q[n + 1]
  BY HeadTailProperties DEF Queue
<1>9. /\ r \in Seq(Messages) /\ Len(r) = Len(q) /\ r[1] = rest
      /\ \A n \in 2 .. Len(q) : r[n] = q[n]
  <2> DEFINE s == <<rest>>
             t == Tail(q)
  <2>1. s \in Seq(Messages) /\ Len(s) = 1 /\ s[1] = rest BY <1>7
  <2> HIDE DEF s, t
  <2>2. t \in Seq(Messages) /\ Len(t) = Len(q) - 1 /\ \A n \in 1 .. Len(t) : t[n] = q[n + 1]
    BY <1>8 DEF t
  <2>3. /\ s \o t \in Seq(Messages) /\ Len(s \o t) = Len(s) + Len(t)
        /\ \A n \in 1 .. Len(s) + Len(t) : (s \o t)[n] = IF n <= Len(s) THEN s[n] ELSE t[n - Len(s)]
    <3>1. s \in Seq(Messages) /\ t \in Seq(Messages) BY <2>1, <2>2
    <3> QED BY ONLY <3>1, ConcatProperties
  <2>4. Len(s) + Len(t) = Len(q) BY <1>1, <2>1, <2>2
  <2>5. (s \o t)[1] = rest BY <1>1, <2>1, <2>3, <2>4
  <2>6. ASSUME NEW n \in 2 .. Len(q) PROVE (s \o t)[n] = q[n]
    <3>1. n \in 1 .. Len(q) /\ ~(n <= 1) /\ n - 1 \in 1 .. Len(t) /\ (n - 1) + 1 = n
      BY <1>1, <2>2
    <3>2. (s \o t)[n] = t[n - 1] BY <2>1, <2>3, <2>4, <3>1
    <3> QED BY <2>2, <3>1, <3>2
  <2> QED BY <2>3, <2>4, <2>5, <2>6 DEF s, t
<1> HIDE DEF r
<1>10. Queue(r)
  <2> SUFFICES ASSUME NEW n \in 1 .. Len(r) PROVE Len(r[n].data) >= 1
    BY <1>9 DEF Queue
  <2>1. CASE n = 1 BY <1>4, <1>7, <1>9, <2>1
  <2>2. CASE n # 1
    <3>1. n \in 2 .. Len(q) /\ n \in 1 .. Len(q) BY <1>1, <1>9, <2>2
    <3> QED BY <1>9, <3>1 DEF Queue
  <2> QED BY <2>1, <2>2
<1>11. Bytes(r) = Bytes(q)
  <2>1. Sized(r) /\ Sized(q) BY <1>10, QueueSized
  <2>2. ASSUME NEW n \in 1 .. Len(q) PROVE r[n].size = q[n].size
    <3>1. CASE n = 1 BY <1>7, <1>9, <3>1
    <3>2. CASE n # 1
      <4>1. n \in 2 .. Len(q) BY <1>1, <3>2
      <4> QED BY <1>9, <4>1
    <3> QED BY <3>1, <3>2
  <2> QED BY <1>9, <2>1, <2>2, BytesSame
<1> QED BY <1>7, <1>9, <1>10, <1>11 DEF r, rest, e, l, d

\* A part of the first message is sent and the rest is put back.
LEMMA ChainHeadPart ==
    ASSUME NEW w \in Seq(Nat), NEW q, Queue(q), q # <<>>, NEW a, Chain(w, <<>>, q, a),
           NEW i \in Nat, 0 < i, i < Len(Head(q).data)
    PROVE  LET v == w \o SubSeq(Head(q).data, 1, i)
               rest == [Head(q) EXCEPT !.data = SubSeq(@, i + 1, Len(@))]
               r == <<rest>> \o Tail(q)
           IN  /\ v \in Seq(Nat) /\ Queue(r) /\ Bytes(r) = Bytes(q)
               /\ Chain(v, <<>>, r, a)
<1> DEFINE d == Head(q).data
           m == Len(w)
           l == Len(d)
           e == SubSeq(d, i + 1, l)
           v == w \o SubSeq(d, 1, i)
           rest == [Head(q) EXCEPT !.data = e]
           r == <<rest>> \o Tail(q)
<1>1. /\ Head(q) = q[1] /\ Len(q) \in Nat \ {0} /\ d \in Seq(Nat) /\ l \in Nat \ {0}
      /\ w = Run(0, m) /\ d = Run(m, l) /\ d[l] = m + l /\ m \in Nat /\ Head(q) \in Messages
  BY FirstMessage
<1>0. i \in 0 .. l /\ i < l BY <1>1
<1> HIDE DEF m, l, d
<1>2. SubSeq(d, 1, i) = Run(m, i) /\ e = Run(m + i, l - i) BY <1>0, <1>1, RunCut
<1>3. l - i \in Nat \ {0} /\ m + i \in Nat /\ (m + i) + (l - i) = m + l BY <1>0, <1>1
<1>4. e \in Seq(Nat) /\ Len(e) = l - i /\ e[l - i] = m + l
  <2>1. l - i \in 1 .. l - i BY <1>3
  <2>2. e \in Seq(Nat) /\ Len(e) = l - i /\ e[l - i] = (m + i) + (l - i)
    <3>1. l - i \in Nat BY <1>3
    <3>2. /\ Run(m + i, l - i) \in Seq(Nat) /\ Len(Run(m + i, l - i)) = l - i
          /\ Run(m + i, l - i)[l - i] = (m + i) + (l - i)
      BY <1>3, <2>1, <3>1, RunIs
    <3> QED BY <1>2, <3>2
  <2> QED BY <1>3, <2>2
<1>5. v = Run(0, m + i)
  <2>1. Run(0, m) \o Run(0 + m, i) = Run(0, m + i) BY <1>1, RunsJoin
  <2>2. 0 + m = m BY <1>1
  <2> QED BY <1>1, <1>2, <2>1, <2>2
<1> HIDE DEF e, v
<1>6. v \in Seq(Nat) /\ Len(v) = m + i
  <2>1. Run(0, m + i) \in Seq(Nat) /\ Len(Run(0, m + i)) = m + i BY <1>3, RunIs
  <2> QED BY <1>5, <2>1
<1>7. i < Len(Head(q).data) OBVIOUS
<1>9. /\ rest.data = e /\ Queue(r) /\ Bytes(r) = Bytes(q) /\ Len(r) = Len(q) /\ r[1] = rest
      /\ \A n \in 2 .. Len(q) : r[n] = q[n]
  BY <1>7, PutBack DEF e, l, d
<1> HIDE DEF rest, r
<1>12. ASSUME NEW n \in 1 .. Len(q) PROVE End(v, <<>>, r, n) = End(w, <<>>, q, n)
  <2>1. CASE n = 1
    <3>1. End(w, <<>>, q, n) = d[l] BY <1>1, <2>1 DEF End, d, l
    <3>2. End(v, <<>>, r, n) = e[l - i] BY <1>4, <1>9, <2>1 DEF End
    <3> QED BY <1>1, <1>4, <3>1, <3>2
  <2>2. CASE n # 1
    <3>1. n \in 2 .. Len(q) BY <1>1, <2>2
    <3> QED BY <1>9, <3>1 DEF End
  <2> QED BY <2>1, <2>2
<1>13. ASSUME NEW n \in 1 .. Len(r)
       PROVE  r[n].data = Run(End(v, <<>>, r, n - 1), Len(r[n].data))
  <2>1. CASE n = 1
    <3>1. Len(<<>>) = 0 /\ n - 1 = 0 BY <2>1
    <3>2. End(v, <<>>, r, n - 1) = m + i BY <1>3, <1>6, <3>1 DEF End
    <3> QED BY <1>2, <1>4, <1>9, <2>1, <3>2
  <2>2. CASE n # 1
    <3>1. n \in 2 .. Len(q) /\ n \in 1 .. Len(q) /\ n - 1 \in 1 .. Len(q) BY <1>1, <1>9, <2>2
    <3>2. End(v, <<>>, r, n - 1) = End(w, <<>>, q, n - 1) BY <1>12, <3>1
    <3>3. q[n].data = Run(End(w, <<>>, q, n - 1), Len(q[n].data)) BY <3>1 DEF Chain
    <3> QED BY <1>9, <3>1, <3>2, <3>3
  <2> QED BY <2>1, <2>2
<1>14. End(v, <<>>, r, Len(r)) = a
  <2>1. Len(q) \in 1 .. Len(q) BY <1>1
  <2> QED BY <1>9, <1>12, <2>1 DEF Chain
<1>15. Chain(v, <<>>, r, a)
  <2>1. Len(<<>>) = 0 /\ Len(v) \in Nat /\ v = Run(0, Len(v)) BY <1>3, <1>5, <1>6
  <2>2. <<>> = Run(Len(v), Len(<<>>)) BY <2>1 DEF Run
  <2> QED BY <1>13, <1>14, <2>1, <2>2 DEF Chain
<1> QED BY <1>6, <1>9, <1>15 DEF v, r, rest, e, l, d

-----------------------------------------------------------------------------
(* The inductive invariant.                                                *)

Typed ==
    /\ accepted \in Nat /\ room \in Nat
    /\ outBuffer \in Seq(Nat) /\ wire \in Seq(Nat) /\ Queue(queue)
    /\ writer \in {"loop", "again", "schedule", "cancel", "fail"}
    /\ sender \in [Callers -> {"idle", "failed"}]

\* Nothing has gone wrong yet.
Alive == ~closed /\ writer # "fail" /\ ~lost

Ordered == Alive => Chain(wire, outBuffer, queue, accepted)

Bounded ==
    /\ Len(outBuffer) <= BufferSize
    /\ \A s \in Sizes : (\A r \in Sizes : r <= s) => Bytes(queue) < QueueLimit + s

Closes == skewed => closed \/ \E t \in Callers : sender[t] = "failed"

OutputInv == Typed /\ Ordered /\ Bounded /\ Closes

LEMMA InitInv == OutputInit => OutputInv
<1> SUFFICES ASSUME OutputInit PROVE OutputInv
  OBVIOUS
<1>1. accepted = 1 /\ outBuffer = <<1>> /\ wire = <<>> /\ queue = <<>> /\ ~skewed BY DEF OutputInit
<1>2. Len(<<>>) = 0 /\ Len(<<1>>) = 1 OBVIOUS
<1>3. Queue(queue) BY <1>1, <1>2 DEF Queue
<1>4. Typed
  <2>1. outBuffer \in Seq(Nat) /\ wire \in Seq(Nat) BY <1>1
  <2>2. room \in Nat BY SizeAssumption DEF OutputInit
  <2> QED BY <1>1, <1>3, <2>1, <2>2 DEF OutputInit, Typed
<1>5. Chain(wire, outBuffer, queue, accepted)
  <2>1. wire = Run(0, Len(wire)) BY <1>1, <1>2 DEF Run
  <2>2. outBuffer = Run(Len(wire), Len(outBuffer)) BY <1>1, <1>2 DEF Run
  <2>3. End(wire, outBuffer, queue, Len(queue)) = accepted BY <1>1, <1>2 DEF End
  <2>4. 1 .. Len(queue) = {} BY <1>1, <1>2
  <2> QED BY <2>1, <2>2, <2>3, <2>4 DEF Chain
<1>6. Bounded
  <2>1. Sized(queue) BY <1>3, QueueSized
  <2>2. PICK f : Totals(queue, f) /\ Bytes(queue) = f[Len(queue)] BY <2>1, BytesIs
  <2>3. Bytes(queue) = 0 BY <1>1, <1>2, <2>2 DEF Totals
  <2>4. Len(outBuffer) <= BufferSize BY <1>1, <1>2, SizeAssumption
  <2>5. \A s \in Sizes : 0 < QueueLimit + s BY SizeAssumption
  <2> QED BY <2>3, <2>4, <2>5 DEF Bounded
<1> QED BY <1>1, <1>4, <1>5, <1>6 DEF OutputInv, Ordered, Closes

\* Bounded only looks at the length of the buffer and the bytes of the queue.
LEMMA BoundedSteps ==
    ASSUME Bounded, Typed, outBuffer' \in Seq(Nat), Queue(queue'),
           Len(outBuffer') <= Len(outBuffer) \/ Len(outBuffer') <= BufferSize,
           Bytes(queue') <= Bytes(queue), Bytes(queue) \in Nat, Bytes(queue') \in Nat
    PROVE  Bounded'
<1>1. Len(outBuffer') \in Nat /\ Len(outBuffer) \in Nat BY DEF Typed
<1>2. Len(outBuffer') <= BufferSize BY <1>1, SizeAssumption DEF Bounded
<1>3. ASSUME NEW s \in Sizes, \A r \in Sizes : r <= s PROVE Bytes(queue') < QueueLimit + s
  <2>1. Bytes(queue) < QueueLimit + s BY <1>3 DEF Bounded
  <2>2. QueueLimit + s \in Nat BY SizeAssumption
  <2> QED BY <2>1, <2>2
<1> QED BY <1>2, <1>3 DEF Bounded

LEMMA BytesNat == ASSUME NEW q, Queue(q) PROVE Bytes(q) \in Nat
<1>1. Sized(q) BY QueueSized
<1>2. PICK f : Totals(q, f) /\ Bytes(q) = f[Len(q)] BY <1>1, BytesIs
<1>3. Len(q) \in Nat BY <1>1 DEF Sized
<1> QED BY <1>2, <1>3 DEF Totals

\* SendPacket.
LEMMA SendInv ==
    ASSUME OutputInv, NEW t \in Callers, NEW size \in Sizes, SendPacket(t, size) PROVE OutputInv'
<1>1. /\ UNCHANGED <<wire, room, closed, writer, sender, skewed, lost>> /\ accepted' = accepted + size
  BY DEF SendPacket
<1>2. /\ Typed /\ Ordered /\ Bounded /\ accepted \in Nat /\ size \in Nat \ {0}
      /\ outBuffer \in Seq(Nat) /\ wire \in Seq(Nat) /\ Queue(queue)
  BY SizeAssumption DEF OutputInv, Typed
<1>3. Bytes(queue) \in Nat BY <1>2, BytesNat
<1>4. Closes' BY <1>1 DEF OutputInv, Closes
<1>5. accepted' \in Nat BY <1>1, <1>2
<1>6. CASE Len(outBuffer) + size <= BufferSize /\ queue = <<>>
  <2>1. outBuffer' = outBuffer \o Run(accepted, size) /\ queue' = queue
    BY <1>6 DEF SendPacket, NextBytes
  <2> DEFINE c == outBuffer \o Run(accepted, size)
  <2>2. ASSUME Alive PROVE c \in Seq(Nat) /\ Len(c) = Len(outBuffer) + size
                           /\ Chain(wire, c, <<>>, accepted + size)
    BY <1>2, <1>6, <2>2, ChainBuffer DEF Ordered
  <2>3. c \in Seq(Nat) /\ Len(c) = Len(outBuffer) + size
    <3> DEFINE r == Run(accepted, size)
    <3>1. r \in Seq(Nat) /\ Len(r) = size BY <1>2, RunIs
    <3> HIDE DEF r
    <3>2. outBuffer \o r \in Seq(Nat) /\ Len(outBuffer \o r) = Len(outBuffer) + Len(r)
      BY <1>2, <3>1, ConcatProperties
    <3> QED BY <3>1, <3>2 DEF r
  <2> HIDE DEF c
  <2>4. Typed' BY <1>1, <1>2, <1>5, <2>1, <2>3 DEF Typed, c
  <2>5. Ordered' BY <1>1, <1>6, <2>1, <2>2 DEF Ordered, Alive, c
  <2>6. Bounded'
    <3>1. outBuffer' \in Seq(Nat) /\ Len(outBuffer') <= BufferSize BY <1>6, <2>1, <2>3 DEF c
    <3>2. Queue(queue') /\ Bytes(queue') <= Bytes(queue) /\ Bytes(queue') \in Nat BY <1>2, <1>3, <2>1
    <3> QED BY <1>2, <1>3, <3>1, <3>2, BoundedSteps
  <2> QED BY <1>4, <2>4, <2>5, <2>6 DEF OutputInv
<1>7. CASE ~(Len(outBuffer) + size <= BufferSize /\ queue = <<>>)
  <2> DEFINE m == [size |-> size, data |-> Run(accepted, size)]
  <2>1. ~IsFull(queue) /\ outBuffer' = outBuffer /\ queue' = Append(queue, m)
    BY <1>7 DEF SendPacket, NextBytes
  <2>2. Run(accepted, size) \in Seq(Nat) /\ Len(Run(accepted, size)) = size BY <1>2, RunIs
  <2>3. m \in Messages /\ m.data = Run(accepted, size) /\ m.size = size BY <2>2 DEF Messages
  <2> HIDE DEF m
  <2>4. Len(m.data) >= 1 BY <1>2, <2>2, <2>3
  <2>5. Queue(queue') /\ Bytes(queue') = Bytes(queue) + size
    BY <1>2, <2>1, <2>3, <2>4, BytesAppend
  <2>6. Typed' BY <1>1, <1>2, <1>5, <2>1, <2>5 DEF Typed
  <2>7. Ordered'
    <3>1. Alive => Chain(wire, outBuffer, Append(queue, m), accepted + size)
      BY <1>2, <2>3, ChainAppend DEF Ordered
    <3> QED BY <1>1, <2>1, <3>1 DEF Ordered, Alive
  <2>8. Bounded'
    <3>1. ASSUME NEW s \in Sizes, \A r \in Sizes : r <= s PROVE Bytes(queue') < QueueLimit + s
      <4>1. Bytes(queue) < QueueLimit BY <1>3, <2>1, SizeAssumption DEF IsFull
      <4>2. size <= s /\ s \in Nat /\ QueueLimit \in Nat BY <3>1, SizeAssumption
      <4> QED BY <1>2, <1>3, <2>5, <4>1, <4>2
    <3> QED BY <1>2, <2>1, <3>1 DEF Bounded
  <2> QED BY <1>4, <2>6, <2>7, <2>8 DEF OutputInv
<1> QED BY <1>6, <1>7

\* The steps that move no byte.
LEMMA QuietInv ==
    ASSUME OutputInv,
           \/ \E t \in Callers : SendPacketFails(t) \/ CloseAfterFailure(t)
           \/ CloseSocket \/ TellReactor \/ SendBufferError \/ GiveUp \/ ClientReads \/ UNCHANGED outputVars
    PROVE  OutputInv'
<1>1. UNCHANGED <<accepted, outBuffer, queue, wire>>
  BY DEF SendPacketFails, CloseAfterFailure, CloseSocket, TellReactor, SendBufferError, GiveUp,
         ClientReads, outputVars
<1>2. Typed BY DEF OutputInv
<1>3. room' \in Nat
  <2>1. room' \in {room, room + 1}
    BY DEF SendPacketFails, CloseAfterFailure, CloseSocket, TellReactor, SendBufferError, GiveUp,
           ClientReads, outputVars
  <2> QED BY <1>2, <2>1 DEF Typed
<1>4. writer' \in {"loop", "again", "schedule", "cancel", "fail"}
  BY <1>2 DEF Typed, SendPacketFails, CloseAfterFailure, CloseSocket, TellReactor, SendBufferError, GiveUp,
              ClientReads, outputVars
<1>5. sender' \in [Callers -> {"idle", "failed"}]
  BY <1>2 DEF Typed, SendPacketFails, CloseAfterFailure, CloseSocket, TellReactor, SendBufferError, GiveUp,
              ClientReads, outputVars
<1>6. Typed' BY <1>1, <1>2, <1>3, <1>4, <1>5 DEF Typed
<1>7. Alive' => Alive
  BY DEF Alive, SendPacketFails, CloseAfterFailure, CloseSocket, TellReactor, SendBufferError, GiveUp,
         ClientReads, outputVars
<1>8. Ordered' BY <1>1, <1>7 DEF OutputInv, Ordered
<1>9. Bounded' BY <1>1 DEF OutputInv, Bounded
<1>10. Closes'
  <2>1. CASE \E t \in Callers : SendPacketFails(t)
    <3>1. PICK t \in Callers : SendPacketFails(t) BY <2>1
    <3>2. sender'[t] = "failed" BY <1>2, <3>1 DEF Typed, SendPacketFails
    <3> QED BY <3>2 DEF Closes
  <2>2. CASE \E t \in Callers : CloseAfterFailure(t) BY <2>2 DEF Closes, CloseAfterFailure
  <2>3. CASE CloseSocket \/ TellReactor \/ SendBufferError \/ GiveUp \/ ClientReads \/ UNCHANGED outputVars
    <3>1. skewed' = skewed /\ sender' = sender /\ (closed => closed')
      BY <2>3 DEF CloseSocket, TellReactor, SendBufferError, GiveUp, ClientReads, outputVars
    <3> QED BY <3>1 DEF OutputInv, Closes
  <2> QED BY <2>1, <2>2, <2>3
<1> QED BY <1>6, <1>8, <1>9, <1>10 DEF OutputInv

\* What the steps of handle_output have in common.
LEMMA OutputStep ==
    ASSUME OutputInv, OutputCalled,
           UNCHANGED <<accepted, closed, sender, skewed>>, lost => lost',
           room' \in Nat, writer' \in {"loop", "again", "schedule", "cancel", "fail"},
           wire' \in Seq(Nat), outBuffer' \in Seq(Nat), Queue(queue'),
           Len(outBuffer') <= Len(outBuffer), Bytes(queue') <= Bytes(queue),
           Alive /\ Alive' => Chain(wire', outBuffer', queue', accepted)
    PROVE  OutputInv'
<1>1. Typed' BY DEF OutputInv, Typed
<1>2. Alive' => Alive BY DEF OutputCalled, Alive
<1>3. Ordered' BY <1>2 DEF Ordered
<1>4. Queue(queue) /\ Bytes(queue) \in Nat /\ Bytes(queue') \in Nat BY BytesNat DEF OutputInv, Typed
<1>5. Bounded' BY <1>4, BoundedSteps DEF OutputInv
<1>6. Closes' BY DEF OutputInv, Closes
<1> QED BY <1>1, <1>3, <1>5, <1>6 DEF OutputInv

\* The buffer does not fit into the kernel's.
LEMMA BufferPartInv == ASSUME OutputInv, SendBufferPart PROVE OutputInv'
<1> DEFINE v == wire \o SubSeq(outBuffer, 1, room)
           c == SubSeq(outBuffer, room + 1, Len(outBuffer))
<1>1. /\ OutputCalled /\ room < Len(outBuffer) /\ wire' = v /\ outBuffer' = c /\ room' = 0
      /\ UNCHANGED <<accepted, queue, closed, sender, skewed, lost>>
      /\ writer' \in {"loop", "schedule"}
  BY DEF SendBufferPart, Schedule
<1>2. wire \in Seq(Nat) /\ outBuffer \in Seq(Nat) /\ Queue(queue) /\ room \in Nat BY DEF OutputInv, Typed
<1>3. Len(outBuffer) \in Nat /\ room \in 0 .. Len(outBuffer) BY <1>1, <1>2
<1>4. v \in Seq(Nat) /\ c \in Seq(Nat) /\ Len(c) <= Len(outBuffer)
  <2>1. \A k \in 1 .. Len(outBuffer) : outBuffer[k] \in Nat BY <1>2
  <2>2. \A k \in 1 .. room : outBuffer[k] \in Nat BY <1>3, <2>1
  <2>3. SubSeq(outBuffer, 1, room) \in Seq(Nat) BY <1>2, <2>2, SubSeqProperties
  <2>4. \A k \in room + 1 .. Len(outBuffer) : outBuffer[k] \in Nat BY <1>3, <2>1
  <2>5. /\ c \in Seq(Nat)
        /\ Len(c) = IF room + 1 <= Len(outBuffer) THEN Len(outBuffer) - (room + 1) + 1 ELSE 0
    BY <1>2, <1>3, <2>4, SubSeqProperties
  <2>6. v \in Seq(Nat) BY <1>2, <2>3, ConcatProperties
  <2> HIDE DEF c, v
  <2> QED BY <1>2, <1>3, <2>5, <2>6
<1>5. ASSUME Alive PROVE Chain(v, c, queue, accepted)
  <2>1. Chain(wire, outBuffer, queue, accepted) BY <1>5 DEF OutputInv, Ordered
  <2> QED BY <1>2, <1>3, <2>1, ChainPart
<1> HIDE DEF v, c
<1>6. Bytes(queue') <= Bytes(queue)
  <2>1. Bytes(queue) \in Nat BY <1>2, BytesNat
  <2> QED BY <1>1, <2>1
<1> QED BY <1>1, <1>2, <1>4, <1>5, <1>6, OutputStep

\* The buffer has been sent.
LEMMA SentIs ==
    ASSUME OutputInv, BufferSent
    PROVE  /\ OutputCalled /\ outBuffer' = <<>> /\ outBuffer' \in Seq(Nat) /\ Len(outBuffer') <= Len(outBuffer)
           /\ RoomLeft \in Nat /\ Sent \in Seq(Nat) /\ Queue(queue) /\ Bytes(queue) \in Nat
           /\ Alive => Chain(Sent, <<>>, queue, accepted)
<1>1. wire \in Seq(Nat) /\ outBuffer \in Seq(Nat) /\ Queue(queue) /\ room \in Nat BY DEF OutputInv, Typed
<1>2. OutputCalled /\ outBuffer' = <<>> /\ Len(outBuffer) <= room BY DEF BufferSent
<1>3. Len(outBuffer) \in Nat /\ RoomLeft \in Nat BY <1>1, <1>2 DEF RoomLeft
<1>4. <<>> \in Seq(Nat) /\ Len(<<>>) = 0 OBVIOUS
<1>5. Sent \in Seq(Nat) BY <1>1, ConcatProperties DEF Sent
<1>6. ASSUME Alive PROVE Chain(Sent, <<>>, queue, accepted)
  <2>1. Chain(wire, outBuffer, queue, accepted) BY <1>6 DEF OutputInv, Ordered
  <2> QED BY <1>1, <2>1, ChainFlush DEF Sent
<1>7. Bytes(queue) \in Nat BY <1>1, BytesNat
<1>8. Len(outBuffer') <= Len(outBuffer) BY <1>2, <1>3, <1>4
<1> QED BY <1>1, <1>2, <1>3, <1>4, <1>5, <1>6, <1>7, <1>8

\* The steps that look at the queue.
LEMMA QueueStepsInv ==
    ASSUME OutputInv, SendBuffer \/ SendMessage \/ SendMessagePart \/ SendMessageBlocked \/ SendMessageError
    PROVE  OutputInv'
<1>1. BufferSent /\ UNCHANGED <<accepted, closed, sender, skewed>>
  BY DEF SendBuffer, SendMessage, SendMessagePart, SendMessageBlocked, SendMessageError
<1>2. /\ OutputCalled /\ outBuffer' = <<>> /\ outBuffer' \in Seq(Nat) /\ Len(outBuffer') <= Len(outBuffer)
      /\ RoomLeft \in Nat /\ Sent \in Seq(Nat) /\ Queue(queue) /\ Bytes(queue) \in Nat
      /\ Alive => Chain(Sent, <<>>, queue, accepted)
  BY <1>1, SentIs
<1>4. writer' \in {"loop", "again", "schedule", "cancel", "fail"}
  BY DEF SendBuffer, SendMessage, SendMessagePart, SendMessageBlocked, SendMessageError, Cancel, Schedule
<1>5. queue # <<>> => /\ Queue(Tail(queue)) /\ Bytes(Tail(queue)) <= Bytes(queue)
                      /\ Head(queue).data \in Seq(Nat) /\ Len(Head(queue).data) \in Nat
  <2> SUFFICES ASSUME queue # <<>>
               PROVE  /\ Queue(Tail(queue)) /\ Bytes(Tail(queue)) <= Bytes(queue)
                      /\ Head(queue).data \in Seq(Nat) /\ Len(Head(queue).data) \in Nat
    OBVIOUS
  <2>1. /\ Queue(Tail(queue)) /\ Bytes(queue) = Bytes(Tail(queue)) + Head(queue).size
        /\ Bytes(Tail(queue)) \in Nat /\ Head(queue).size \in Nat
    BY <1>2, BytesTail
  <2>2. Bytes(Tail(queue)) <= Bytes(queue) BY <2>1
  <2>3. queue \in Seq(Messages) /\ Len(queue) \in Nat \ {0} BY <1>2, EmptySeq DEF Queue
  <2>4. Head(queue) = queue[1] /\ 1 \in 1 .. Len(queue) BY <2>3
  <2>5. Head(queue).data \in Seq(Nat) /\ Len(Head(queue).data) \in Nat BY <1>2, <2>4, MessageOf
  <2> QED BY <2>1, <2>2, <2>5
<1>6. CASE SendBuffer
  <2>1. queue' = queue /\ wire' = Sent /\ room' = RoomLeft /\ lost' = lost BY <1>6 DEF SendBuffer
  <2>2. Bytes(queue') <= Bytes(queue) BY <1>2, <2>1
  <2> QED BY <1>1, <1>2, <1>4, <2>1, <2>2, OutputStep
<1>7. CASE SendMessage
  <2>1. /\ queue # <<>> /\ queue' = Tail(queue) /\ wire' = Sent \o Head(queue).data /\ lost' = lost
        /\ room' = RoomLeft - Len(Head(queue).data) /\ Len(Head(queue).data) <= RoomLeft
    BY <1>7 DEF SendMessage
  <2>2. room' \in Nat BY <1>2, <1>5, <2>1
  <2>3. wire' \in Seq(Nat) BY <1>2, <1>5, <2>1, ConcatProperties
  <2>4. Alive => Chain(wire', outBuffer', queue', accepted) BY <1>2, <2>1, ChainHead
  <2> QED BY <1>1, <1>2, <1>4, <1>5, <2>1, <2>2, <2>3, <2>4, OutputStep
<1>8. CASE SendMessagePart
  <2> DEFINE v == Sent \o SubSeq(Head(queue).data, 1, RoomLeft)
             rest == [Head(queue) EXCEPT !.data = SubSeq(@, RoomLeft + 1, Len(@))]
             r == <<rest>> \o Tail(queue)
  <2>1. /\ queue # <<>> /\ wire' = v /\ room' = 0 /\ lost' = lost
        /\ 0 < RoomLeft /\ RoomLeft < Len(Head(queue).data)
    BY <1>8 DEF SendMessagePart
  <2>2. v \in Seq(Nat)
    <3>1. \A k \in 1 .. Len(Head(queue).data) : Head(queue).data[k] \in Nat BY <1>5, <2>1
    <3>2. \A k \in 1 .. RoomLeft : Head(queue).data[k] \in Nat BY <1>2, <1>5, <2>1, <3>1
    <3>3. SubSeq(Head(queue).data, 1, RoomLeft) \in Seq(Nat) BY <1>2, <3>2, SubSeqProperties
    <3> QED BY <1>2, <3>3, ConcatProperties
  <2>3. CASE IsFull(Tail(queue))
    <3>1. queue' = Tail(queue) /\ writer' = "fail" BY <1>8, <2>3 DEF SendMessagePart
    <3>2. ~Alive' BY <3>1 DEF Alive
    <3> HIDE DEF v
    <3> QED BY <1>1, <1>2, <1>4, <1>5, <2>1, <2>2, <3>1, <3>2, OutputStep
  <2>4. CASE ~IsFull(Tail(queue))
    <3>1. queue' = r BY <1>8, <2>4 DEF SendMessagePart
    <3>2. Alive => Queue(r) /\ Bytes(r) = Bytes(queue) /\ Chain(v, <<>>, r, accepted)
      BY <1>2, <2>1, ChainHeadPart
    <3>3. Queue(r) /\ Bytes(r) = Bytes(queue) BY <1>2, <2>1, PutBack
    <3> HIDE DEF v, r
    <3>4. Bytes(queue') <= Bytes(queue) BY <1>2, <3>1, <3>3
    <3>5. Alive => Chain(wire', outBuffer', queue', accepted) BY <1>2, <2>1, <3>1, <3>2
    <3> QED BY <1>1, <1>2, <1>4, <2>1, <2>2, <3>1, <3>3, <3>4, <3>5, OutputStep
  <2> QED BY <2>3, <2>4
<1>9. CASE SendMessageBlocked
  <2>1. /\ queue # <<>> /\ wire' = Sent /\ room' = 0
        /\ queue' = IF IsFull(Tail(queue)) THEN Tail(queue) ELSE queue
        /\ lost' = (lost \/ IsFull(Tail(queue)))
    BY <1>9 DEF SendMessageBlocked
  <2>2. Queue(queue') /\ Bytes(queue') <= Bytes(queue)
    <3>1. CASE IsFull(Tail(queue)) BY <1>5, <2>1, <3>1
    <3>2. CASE ~IsFull(Tail(queue)) BY <1>2, <2>1, <3>2
    <3> QED BY <3>1, <3>2
  <2>3. Alive /\ Alive' => Chain(wire', outBuffer', queue', accepted)
    <3>1. Alive' => ~lost' BY DEF Alive
    <3>2. Alive' => queue' = queue BY <2>1, <3>1
    <3> QED BY <1>2, <2>1, <3>2
  <2>4. lost => lost' BY <2>1
  <2> QED BY <1>1, <1>2, <1>4, <2>1, <2>2, <2>3, <2>4, OutputStep
<1>10. CASE SendMessageError
  <2>1. queue # <<>> /\ queue' = Tail(queue) /\ wire' = Sent /\ room' = RoomLeft /\ lost' = lost
        /\ writer' = "fail"
    BY <1>10 DEF SendMessageError
  <2>2. ~Alive' BY <2>1 DEF Alive
  <2> QED BY <1>1, <1>2, <1>4, <1>5, <2>1, <2>2, OutputStep
<1> QED BY <1>6, <1>7, <1>8, <1>9, <1>10

LEMMA NextInv == ASSUME OutputInv, [OutputNext]_outputVars PROVE OutputInv'
<1>1. CASE \E t \in Callers, size \in Sizes : SendPacket(t, size) BY <1>1, SendInv
<1>2. CASE \/ \E t \in Callers : SendPacketFails(t) \/ CloseAfterFailure(t)
           \/ CloseSocket \/ TellReactor \/ SendBufferError \/ GiveUp \/ ClientReads \/ UNCHANGED outputVars
  BY <1>2, QuietInv
<1>3. CASE SendBufferPart BY <1>3, BufferPartInv
<1>4. CASE SendBuffer \/ SendMessage \/ SendMessagePart \/ SendMessageBlocked \/ SendMessageError
  BY <1>4, QueueStepsInv
<1> QED BY <1>1, <1>2, <1>3, <1>4 DEF OutputNext, Output, Closed

LEMMA Invariance == OutputSpec => []OutputInv
BY InitInv, NextInv, PTL DEF OutputSpec

-----------------------------------------------------------------------------
(* The results.                                                            *)

\* The stream of WorldSocket is complete and in order, whichever threads call
\* SendPacket and however send() cuts their packets, until the connection is
\* given up; and after a failed SendPacket it is closed.
THEOREM InOrderCorrect == OutputSpec => []InOrder
<1>1. OutputInv => InOrder
  <2> SUFFICES ASSUME OutputInv PROVE InOrder
    OBVIOUS
  <2>1. skewed => closed \/ \E t \in Callers : sender[t] = "failed" BY DEF OutputInv, Closes
  <2>2. DOMAIN queue = 1 .. Len(queue) BY DEF OutputInv, Typed, Queue
  <2>3. ASSUME Alive PROVE Chain(wire, outBuffer, queue, accepted) BY <2>3 DEF OutputInv, Ordered
  <2> QED BY <2>1, <2>2, <2>3 DEF InOrder, Alive, Chain, End
<1> QED BY <1>1, Invariance, PTL

\* What waits for a client that does not read is bounded: m_OutBuffer by its
\* size, the message queue by its high water mark and one packet.
THEOREM BacklogCorrect == OutputSpec => []BacklogBounded
<1>1. OutputInv => BacklogBounded BY DEF OutputInv, Bounded, BacklogBounded
<1> QED BY <1>1, Invariance, PTL

-----------------------------------------------------------------------------
(* The life cycle.                                                         *)
(*                                                                         *)
(* Whoever deletes the session has seen closing_, and whoever set closing_ *)
(* resets m_Session before the world thread looks at its sessions again,   *)
(* or is the network thread itself, which then does not use the session.   *)
(* And every thread inside the socket is there on behalf of a holder of a  *)
(* reference that nobody else gives up.                                    *)

\* The network thread is on its way to reset m_Session, and uses it no more.
NetworkForgets == npc \in {"drop", "unregister"}

\* m_SessionLock is held by the network thread exactly while it uses m_Session.
LockHeld == held <=> npc = "using"

\* A closed socket still routes to the session only while the thread that
\* closed it is about to reset m_Session.
ClosedForgets ==
    closing /\ routed =>
        NetworkForgets \/ wpc = "forget" \/ \E t \in Senders : spc[t] = "forget"

\* The senders close sockets only while the world thread waits for them.
SendersInMaps == \A t \in Senders : spc[t] = "forget" => wpc = "maps"

\* Before the socket is registered nothing is routed, and no event comes.
NotYetRegistered ==
    apc \in {"open", "hooked"} =>
        ~routed /\ session = "none" /\ "reactor" \notin refs /\ npc \in {"loop", "drop"}

\* A session that was given up belongs to a closed socket.
GivenUpIsClosed == session \in {"offline", "deleted"} => closing

\* ... and the network thread is the only one that may still have to reset
\* m_Session.
GivenUpIsForgotten == session \in {"offline", "deleted"} /\ routed => NetworkForgets

\* Without a session, a closed socket processes no packet any more.
ClosedUnused ==
    closing /\ session = "none" => npc \in {"loop", "drop", "close", "unregister"}

\* m_Session is not reset while the network thread holds m_SessionLock.
UsedIsRouted == npc = "using" => routed

IInv ==
    /\ TypeOK
    /\ LockHeld
    /\ ClosedForgets
    /\ SendersInMaps
    /\ NotYetRegistered
    /\ GivenUpIsClosed
    /\ GivenUpIsForgotten
    /\ ClosedUnused
    /\ UsedIsRouted

-----------------------------------------------------------------------------
(* Who holds the reference that keeps the socket alive for each thread.    *)

\* The acceptor, until open returns.
AcceptorHolds == apc # "done" => "acceptor" \in refs

\* The manager, while the socket is in one of its lists.
ManagerHolds == listed # "no" => "manager" \in refs

\* svc drops a socket of m_Sockets, and OnSocketOpen lists it first.
DropsListed == (npc = "drop" => listed = "in") /\ (apc = "open" => listed = "no")

\* The reactor, while the network thread is in an event handler.
ReactorHolds == npc \notin {"loop", "drop"} => "reactor" \in refs

\* The session, while the world thread or a sender is in CloseSocket.
SessionHolds ==
    /\ wpc = "forget" => "session" \in refs
    /\ \A t \in Senders : spc[t] = "forget" => "session" \in refs

\* Until the buffer is allocated m_OutActive keeps Update away, or the socket
\* is closed because open failed.
SetUp ==
    \/ buffer \/ closing
    \/ apc = "open" /\ listed = "no"
    \/ apc = "hooked" /\ outActive

AliveInv ==
    /\ AcceptorHolds
    /\ ManagerHolds
    /\ DropsListed
    /\ ReactorHolds
    /\ SessionHolds
    /\ SetUp

-----------------------------------------------------------------------------
\* The variables every conjunct but TypeOK depends on are left alone.
LEMMA Unrelated ==
    ASSUME IInv, TypeOK', UNCHANGED <<apc, npc, wpc, spc, refs, closing, routed, held, session>>
    PROVE  IInv'
BY DEF IInv, LockHeld, ClosedForgets, SendersInMaps, NotYetRegistered, GivenUpIsClosed,
       GivenUpIsForgotten, ClosedUnused, UsedIsRouted, NetworkForgets

\* The initial state of a new connection.
LEMMA InitIInv == Init => IInv
BY DEF Init, IInv, TypeOK, Holders, Sessions, LockHeld, ClosedForgets, SendersInMaps,
       NotYetRegistered, GivenUpIsClosed, GivenUpIsForgotten, ClosedUnused, UsedIsRouted,
       NetworkForgets

\* Every step of every thread keeps the types.
LEMMA NextType == TypeOK /\ [Next]_vars => TypeOK'
<1> SUFFICES ASSUME TypeOK, [Next]_vars PROVE TypeOK'
    OBVIOUS
<1> USE DEF TypeOK, Holders, Sessions
<1>1. CASE Acceptor
    <2>1. CASE Open
        BY <2>1 DEF Open
    <2>2. CASE Register
        BY <2>2 DEF Register
    <2>3. CASE Opened
        BY <2>3 DEF Opened
    <2>4. CASE OpenFails
        BY <2>4 DEF OpenFails
    <2> QED
        BY <1>1, <2>1, <2>2, <2>3, <2>4 DEF Acceptor
<1>2. CASE Svc
    <2>1. CASE AddNewSockets
        BY <2>1 DEF AddNewSockets
    <2>2. CASE UpdateClosed
        BY <2>2 DEF UpdateClosed
    <2>3. CASE UpdateSends
        BY <2>3 DEF UpdateSends
    <2>4. CASE UpdateFails
        BY <2>4 DEF UpdateFails
    <2>5. CASE Drop
        <3>1. /\ npc' = "loop" /\ listed' = "no" /\ refs' = refs \ {"manager"}
              /\ routed' \in BOOLEAN
            BY <2>5 DEF Drop, ForgetSession
        <3>2. UNCHANGED <<apc, wpc, spc, buffer, outActive, closing, held, session>>
            BY <2>5 DEF Drop
        <3> QED
            BY <3>1, <3>2
    <2> QED
        BY <1>2, <2>1, <2>2, <2>3, <2>4, <2>5 DEF Svc
<1>3. CASE HandleOutput \/ HandleInput \/ EventFails
    <2>1. CASE HandleOutput
        BY <2>1 DEF HandleOutput
    <2>2. CASE HandleInput
        BY <2>2 DEF HandleInput
    <2>3. CASE EventFails
        BY <2>3 DEF EventFails
    <2> QED
        BY <1>3, <2>1, <2>2, <2>3
<1>4. CASE Handler
    <2>1. CASE EndInput
        BY <2>1 DEF EndInput
    <2>2. CASE ProcessIncoming
        BY <2>2 DEF ProcessIncoming
    <2>3. CASE AuthFails
        BY <2>3 DEF AuthFails
    <2>4. CASE NoSession
        BY <2>4 DEF NoSession
    <2>5. CASE KeepAlive
        BY <2>5 DEF KeepAlive
    <2>6. CASE ResetTimeOutTime
        BY <2>6 DEF ResetTimeOutTime
    <2>7. CASE AuthSession
        BY <2>7 DEF AuthSession
    <2>8. CASE AuthRejected
        BY <2>8 DEF AuthRejected
    <2>9. CASE AddSession
        BY <2>9 DEF AddSession
    <2>10. CASE EnterSession
        BY <2>10 DEF EnterSession
    <2>11. CASE \E failed \in BOOLEAN : LeaveSession(failed)
        <3>1. PICK failed \in BOOLEAN : LeaveSession(failed)
            BY <2>11
        <3>2. /\ npc' \in {"loop", "drop", "packet", "process", "auth", "using", "alive", "close", "unregister"}
              /\ held' \in BOOLEAN
            BY <3>1 DEF LeaveSession
        <3>3. UNCHANGED <<apc, wpc, spc, refs, listed, buffer, outActive, closing, routed, session>>
            BY <3>1 DEF LeaveSession
        <3> QED
            BY <3>2, <3>3
    <2> QED
        BY <1>4, <2>1, <2>2, <2>3, <2>4, <2>5, <2>6, <2>7, <2>8, <2>9, <2>10, <2>11 DEF Handler
<1>5. CASE Closing
    <2>1. CASE EventWhenClosed
        BY <2>1 DEF EventWhenClosed
    <2>2. CASE HandleClose
        BY <2>2 DEF HandleClose
    <2>3. CASE Unregister
        <3>1. npc' = "loop" /\ refs' = refs \ {"reactor"} /\ routed' \in BOOLEAN
            BY <2>3 DEF Unregister, ForgetSession
        <3>2. UNCHANGED <<apc, wpc, spc, listed, buffer, outActive, closing, held, session>>
            BY <2>3 DEF Unregister
        <3> QED
            BY <3>1, <3>2
    <2> QED
        BY <1>5, <2>1, <2>2, <2>3 DEF Closing
<1>6. CASE WorldThread
    <2>1. CASE BeginSessions
        BY <2>1 DEF BeginSessions
    <2>2. CASE EndSessions
        BY <2>2 DEF EndSessions
    <2>3. CASE WorldCloses
        BY <2>3 DEF WorldCloses
    <2>4. CASE WorldForgets
        <3>1. wpc' = "sessions" /\ routed' \in BOOLEAN
            BY <2>4 DEF WorldForgets, ForgetSession
        <3>2. UNCHANGED <<apc, npc, spc, refs, listed, buffer, outActive, closing, held, session>>
            BY <2>4 DEF WorldForgets
        <3> QED
            BY <3>1, <3>2
    <2>5. CASE RemoveOffline
        BY <2>5 DEF RemoveOffline
    <2>6. CASE \E stays \in BOOLEAN : Detach(stays)
        <3>1. PICK stays \in BOOLEAN : Detach(stays)
            BY <2>6
        <3>2. refs' \subseteq Holders /\ session' \in Sessions
            BY <3>1 DEF Detach
        <3>3. UNCHANGED <<apc, npc, wpc, spc, listed, buffer, outActive, closing, routed, held>>
            BY <3>1 DEF Detach
        <3> QED
            BY <3>2, <3>3
    <2> QED
        BY <1>6, <2>1, <2>2, <2>3, <2>4, <2>5, <2>6 DEF WorldThread
<1>7. CASE \E t \in Senders : SenderCloses(t) \/ SenderForgets(t)
    <2>1. PICK t \in Senders : SenderCloses(t) \/ SenderForgets(t)
        BY <1>7
    <2>2. CASE SenderCloses(t)
        BY <2>2 DEF SenderCloses
    <2>3. CASE SenderForgets(t)
        <3>1. spc' \in [Senders -> {"idle", "forget"}]
            BY <2>3 DEF SenderForgets
        <3>2. /\ routed' \in BOOLEAN
              /\ UNCHANGED <<apc, npc, wpc, refs, listed, buffer, outActive, closing, held, session>>
            BY <2>3 DEF SenderForgets, ForgetSession
        <3> QED
            BY <3>1, <3>2
    <2> QED
        BY <2>1, <2>2, <2>3
<1>8. CASE UNCHANGED vars
    BY <1>8 DEF vars
<1> QED
    BY <1>1, <1>2, <1>3, <1>4, <1>5, <1>6, <1>7, <1>8 DEF Next

\* Every step of every thread preserves the invariant.
LEMMA NextIInv == IInv /\ [Next]_vars => IInv'
<1> SUFFICES ASSUME IInv, [Next]_vars PROVE IInv'
    OBVIOUS
<1>t. TypeOK /\ TypeOK'
    BY NextType DEF IInv
<1> USE DEF LockHeld, ClosedForgets, SendersInMaps, NotYetRegistered, GivenUpIsClosed,
            GivenUpIsForgotten, ClosedUnused, UsedIsRouted, NetworkForgets
<1>1. CASE Acceptor
    BY <1>1, <1>t DEF IInv, TypeOK, Acceptor, Open, Register, Opened, OpenFails
<1>2. CASE Svc
    <2>1. CASE AddNewSockets \/ UpdateClosed
        BY <2>1, <1>t DEF IInv, TypeOK, AddNewSockets, UpdateClosed
    <2>2. CASE UpdateSends
        BY <2>2, <1>t, Unrelated DEF UpdateSends
    <2>3. CASE UpdateFails
        BY <2>3, <1>t DEF IInv, TypeOK, UpdateFails
    <2>4. CASE Drop
        BY <2>4, <1>t DEF IInv, TypeOK, Drop, ForgetSession
    <2> QED
        BY <1>2, <2>1, <2>2, <2>3, <2>4 DEF Svc
<1>3. CASE HandleOutput
    BY <1>3, <1>t, Unrelated DEF HandleOutput
<1>4. CASE HandleInput \/ EventFails
    BY <1>4, <1>t DEF IInv, TypeOK, HandleInput, EventFails
<1>5. CASE Handler
    <2>1. CASE EndInput \/ ProcessIncoming \/ AuthFails \/ NoSession \/ KeepAlive \/ ResetTimeOutTime
        BY <2>1, <1>t DEF IInv, TypeOK, EndInput, ProcessIncoming, AuthFails, NoSession,
                          KeepAlive, ResetTimeOutTime
    <2>2. CASE AuthSession
        <3>1. ~closing
            BY <2>2, <1>t DEF IInv, TypeOK, AuthSession
        <3> QED
            BY <2>2, <3>1, <1>t DEF IInv, TypeOK, AuthSession
    <2>3. CASE AuthRejected \/ AddSession
        BY <2>3, <1>t DEF IInv, TypeOK, AuthRejected, AddSession
    <2>4. CASE EnterSession
        BY <2>4, <1>t DEF IInv, TypeOK, EnterSession
    <2>5. CASE \E failed \in BOOLEAN : LeaveSession(failed)
        BY <2>5, <1>t DEF IInv, TypeOK, LeaveSession
    <2> QED
        BY <1>5, <2>1, <2>2, <2>3, <2>4, <2>5 DEF Handler
<1>6. CASE Closing
    BY <1>6, <1>t DEF IInv, TypeOK, Closing, EventWhenClosed, HandleClose, Unregister, ForgetSession
<1>7. CASE WorldThread
    <2>1. CASE BeginSessions \/ EndSessions
        BY <2>1, <1>t DEF IInv, TypeOK, BeginSessions, EndSessions
    <2>2. CASE WorldCloses \/ WorldForgets
        BY <2>2, <1>t DEF IInv, TypeOK, WorldCloses, WorldForgets, ForgetSession, Attached
    <2>3. CASE RemoveOffline
        BY <2>3, <1>t DEF IInv, TypeOK, RemoveOffline
    <2>4. CASE \E stays \in BOOLEAN : Detach(stays)
        <3>1. closing /\ wpc = "sessions"
            BY <2>4 DEF Detach
        <3>2. routed => NetworkForgets
            BY <3>1 DEF IInv
        <3> QED
            BY <2>4, <3>1, <3>2, <1>t DEF IInv, TypeOK, Detach, Attached
    <2> QED
        BY <1>7, <2>1, <2>2, <2>3, <2>4 DEF WorldThread
<1>8. CASE \E t \in Senders : SenderCloses(t) \/ SenderForgets(t)
    <2>1. PICK t \in Senders : SenderCloses(t) \/ SenderForgets(t)
        BY <1>8
    <2>2. CASE SenderCloses(t)
        BY <2>2, <1>t DEF IInv, TypeOK, SenderCloses, Attached
    <2>3. CASE SenderForgets(t)
        BY <2>3, <1>t DEF IInv, TypeOK, SenderForgets, ForgetSession
    <2> QED
        BY <2>1, <2>2, <2>3
<1>9. CASE UNCHANGED vars
    BY <1>9, <1>t, Unrelated DEF vars
<1> QED
    BY <1>1, <1>2, <1>3, <1>4, <1>5, <1>6, <1>7, <1>8, <1>9 DEF Next

-----------------------------------------------------------------------------
(* The holders of references.                                              *)

\* A new connection belongs to the acceptor.
LEMMA InitAlive == Init => AliveInv
BY DEF Init, AliveInv, AcceptorHolds, ManagerHolds, DropsListed, ReactorHolds, SessionHolds, SetUp

\* A step of the network thread that stays outside event handlers or inside
\* them, and leaves references, lists and buffers alone.
LEMMA WithinHandler ==
    ASSUME AliveInv,
           npc' \in {"loop", "drop"} \/ "reactor" \in refs,
           npc' = "drop" => listed = "in",
           closing => closing',
           UNCHANGED <<apc, wpc, spc, refs, listed, buffer, outActive>>
    PROVE  AliveInv'
BY DEF AliveInv, AcceptorHolds, ManagerHolds, DropsListed, ReactorHolds, SessionHolds, SetUp

\* Every step of every thread leaves the others the reference they rely on.
LEMMA NextAlive == IInv /\ AliveInv /\ [Next]_vars => AliveInv'
<1> SUFFICES ASSUME IInv, AliveInv, [Next]_vars PROVE AliveInv'
    OBVIOUS
<1> USE DEF AcceptorHolds, ManagerHolds, DropsListed, ReactorHolds, SessionHolds, SetUp
<1>1. CASE Acceptor
    BY <1>1 DEF AliveInv, Acceptor, Open, Register, Opened, OpenFails
<1>2. CASE Svc
    <2>1. CASE AddNewSockets \/ UpdateClosed
        BY <2>1 DEF AliveInv, AddNewSockets, UpdateClosed
    <2>2. CASE UpdateSends
        BY <2>2 DEF AliveInv, UpdateSends, Updatable
    <2>3. CASE UpdateFails
        BY <2>3, WithinHandler DEF UpdateFails, Updatable
    <2>4. CASE Drop
        BY <2>4 DEF AliveInv, Drop
    <2> QED
        BY <1>2, <2>1, <2>2, <2>3, <2>4 DEF Svc
<1>3. CASE HandleOutput
    <2>1. apc \notin {"open", "hooked"}
        BY <1>3 DEF HandleOutput, IInv, NotYetRegistered
    <2> QED
        BY <1>3, <2>1 DEF AliveInv, HandleOutput
<1>4. CASE HandleInput \/ EventFails
    BY <1>4, WithinHandler DEF HandleInput, EventFails
<1>5. CASE Handler
    <2>1. CASE EndInput \/ ProcessIncoming \/ AuthFails \/ NoSession \/ KeepAlive \/ ResetTimeOutTime
        <3>1. "reactor" \in refs
            BY <2>1 DEF AliveInv, EndInput, ProcessIncoming, AuthFails, NoSession, KeepAlive,
                        ResetTimeOutTime
        <3>2. /\ npc' # "drop" /\ closing' = closing
              /\ UNCHANGED <<apc, wpc, spc, refs, listed, buffer, outActive>>
            BY <2>1 DEF EndInput, ProcessIncoming, AuthFails, NoSession, KeepAlive, ResetTimeOutTime
        <3> QED
            BY <3>1, <3>2, WithinHandler
    <2>2. CASE AuthSession
        BY <2>2 DEF AliveInv, AuthSession
    <2>3. CASE AuthRejected \/ AddSession \/ EnterSession
        <3>1. "reactor" \in refs
            BY <2>3 DEF AliveInv, AuthRejected, AddSession, EnterSession
        <3>2. /\ npc' # "drop" /\ closing' = closing
              /\ UNCHANGED <<apc, wpc, spc, refs, listed, buffer, outActive>>
            BY <2>3 DEF AuthRejected, AddSession, EnterSession
        <3> QED
            BY <3>1, <3>2, WithinHandler
    <2>4. ASSUME NEW failed \in BOOLEAN, LeaveSession(failed) PROVE AliveInv'
        <3>1. "reactor" \in refs
            BY <2>4 DEF AliveInv, LeaveSession
        <3>2. /\ npc' # "drop" /\ closing' = closing
              /\ UNCHANGED <<apc, wpc, spc, refs, listed, buffer, outActive>>
            BY <2>4 DEF LeaveSession
        <3> QED
            BY <3>1, <3>2, WithinHandler
    <2> QED
        BY <1>5, <2>1, <2>2, <2>3, <2>4 DEF Handler
<1>6. CASE Closing
    <2>1. CASE EventWhenClosed \/ HandleClose
        <3>1. "reactor" \in refs
            BY <2>1 DEF AliveInv, EventWhenClosed, HandleClose
        <3>2. /\ npc' # "drop" /\ (closing => closing')
              /\ UNCHANGED <<apc, wpc, spc, refs, listed, buffer, outActive>>
            BY <2>1 DEF EventWhenClosed, HandleClose
        <3> QED
            BY <3>1, <3>2, WithinHandler
    <2>2. CASE Unregister
        BY <2>2 DEF AliveInv, Unregister
    <2> QED
        BY <1>6, <2>1, <2>2 DEF Closing
<1>7. CASE WorldThread
    <2>1. CASE BeginSessions \/ EndSessions \/ RemoveOffline
        BY <2>1 DEF AliveInv, BeginSessions, EndSessions, RemoveOffline
    <2>2. CASE WorldCloses \/ WorldForgets
        BY <2>2 DEF AliveInv, WorldCloses, WorldForgets, Attached
    <2>3. ASSUME NEW stays \in BOOLEAN, Detach(stays) PROVE AliveInv'
        <3>1. wpc = "sessions" /\ \A t \in Senders : spc[t] # "forget"
            BY <2>3 DEF Detach, IInv, SendersInMaps
        <3> QED
            BY <2>3, <3>1 DEF AliveInv, Detach
    <2> QED
        BY <1>7, <2>1, <2>2, <2>3 DEF WorldThread
<1>8. ASSUME NEW t \in Senders, SenderCloses(t) \/ SenderForgets(t) PROVE AliveInv'
    <2>1. spc \in [Senders -> {"idle", "forget"}]
        BY DEF IInv, TypeOK
    <2>2. CASE SenderCloses(t)
        BY <2>1, <2>2 DEF AliveInv, SenderCloses, Attached
    <2>3. CASE SenderForgets(t)
        BY <2>1, <2>3 DEF AliveInv, SenderForgets
    <2> QED
        BY <1>8, <2>2, <2>3
<1>9. CASE UNCHANGED vars
    BY <1>9 DEF AliveInv, vars
<1> QED
    BY <1>1, <1>2, <1>3, <1>4, <1>5, <1>6, <1>7, <1>8, <1>9 DEF Next

-----------------------------------------------------------------------------
\* The socket's state is well typed whatever the threads do.
THEOREM TypeCorrect == Spec => []TypeOK
<1>1. IInv => TypeOK
    BY DEF IInv
<1> QED
    BY InitIInv, NextIInv, <1>1, PTL DEF Spec

\* While a network thread handles a packet in the session it found under
\* m_SessionLock (WorldSocket::ProcessIncoming, HandlePing), the world thread
\* does not delete that session, however many threads close the socket.
THEOREM SessionCorrect == Spec => []SessionAliveInUse
<1>1. IInv => SessionAliveInUse
    BY DEF IInv, SessionAliveInUse, UsedIsRouted, GivenUpIsForgotten, NetworkForgets
<1> QED
    BY InitIInv, NextIInv, <1>1, PTL DEF Spec

\* WorldSocket's reference count does its work: no thread is inside the socket
\* once the last reference is gone, and ReactorRunnable::svc updates it only
\* when open has allocated its buffer, however many threads close it.
THEOREM SocketCorrect == Spec => []SocketAliveInUse
<1>1. IInv /\ AliveInv => SocketAliveInUse
    <2> SUFFICES ASSUME IInv, AliveInv PROVE SocketAliveInUse
        OBVIOUS
    <2>1. ASSUME refs = {}
          PROVE  /\ apc = "done" /\ npc = "loop" /\ listed = "no" /\ wpc # "forget"
                 /\ \A t \in Senders : spc[t] = "idle"
        BY <2>1 DEF IInv, TypeOK, AliveInv, AcceptorHolds, ManagerHolds, DropsListed,
                    ReactorHolds, SessionHolds
    <2>2. Updatable => buffer
        BY DEF AliveInv, SetUp, Updatable
    <2> QED
        BY <2>1, <2>2 DEF SocketAliveInUse
<1>2. Init => IInv /\ AliveInv
    BY InitIInv, InitAlive
<1>3. (IInv /\ AliveInv) /\ [Next]_vars => (IInv /\ AliveInv)'
    BY NextIInv, NextAlive
<1> QED
    BY <1>1, <1>2, <1>3, PTL DEF Spec
=============================================================================
