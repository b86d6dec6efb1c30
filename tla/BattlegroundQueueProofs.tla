------------------------ MODULE BattlegroundQueueProofs ------------------------
(***************************************************************************)
(* Theorems about BattlegroundQueue, for any finite sets of players and    *)
(* queues, any parties, any numbers of places and any number of            *)
(* battlegrounds: a player's queue ids match the groups that wait, an      *)
(* invitation stands for its whole time, no team is promised more places   *)
(* than it has; and, when every teleport that is accepted takes place,     *)
(* every player a battleground expects is counted exactly once.            *)
(***************************************************************************)
EXTENDS BattlegroundQueue, FiniteSetTheorems, SequenceTheorems, WellFoundedInduction, TLAPS

-----------------------------------------------------------------------------
(* The invariants.                                                         *)

\* Who is on his way to a battleground, or inside, has its id.
AwayHasId == \A p \in Players : at[p] \in {"port", "bg"} => mine[p] # None

QueueInv == TypeOK /\ QueueMatches /\ AwayHasId

\* ... and nobody else, when no teleport is refused.
IdMeansAway == MayRefuse \/ \A p \in Players : at[p] \in {"off", "world"} => mine[p] = None

\* The count n leaves none of E out, and is exact when no teleport is refused.
Enough(n, E) == Cardinality(E) <= n /\ (MayRefuse \/ n = Cardinality(E))

CountsEnough ==
    \A b \in Bgs, t \in Teams :
        /\ Enough(invited[b][t], Expected(b, t))
        /\ status[b] = "none" => Expected(b, t) = {}

CountInv == QueueInv /\ IdMeansAway /\ CountsEnough

\* A rated team is never larger than the arena it queues for.
TeamsFitArena ==
    \A q \in Arenas : \A g \in ToSet(groups[q]) : Cardinality(g.players) <= ArenaSize

\* No count is larger than the places of a team.
Room(k) == IF k \in Arenas THEN ArenaSize ELSE MaxPlayers

Fits(inv, kd) == \A b \in Bgs, t \in Teams : inv[b][t] <= Room(kd[b])

IInv == CountInv /\ TeamsFitArena /\ Fits(invited, kind)

-----------------------------------------------------------------------------
(* Folds.  The library's induction theorems take a predicate; the least    *)
(* element of a set of numbers does as well.                               *)

\* A set of natural numbers that is not empty has a least element.
LEMMA NatMin ==
    ASSUME NEW T, T \subseteq Nat, T # {}
    PROVE  \E x \in T : \A y \in T : x <= y
<1>1. PICK R : R = OpToRel(<, Nat) OBVIOUS
<1>2. IsWellFoundedOn(R, Nat) BY <1>1, NatLessThanWellFounded
<1>3. ASSUME NEW x \in Nat, NEW y \in Nat, y < x PROVE <<y, x>> \in R
  BY <1>1, <1>3 DEF OpToRel
<1>4. PICK x \in T : \A y \in T : ~ (<<y, x>> \in R) BY <1>2, WFMin
<1>5. \A y \in T : ~ (y < x) BY <1>3, <1>4
<1> QED BY <1>5

\* Induction on the subsets of a finite set.
LEMMA SubsetInduct ==
    ASSUME NEW D, IsFiniteSet(D), NEW G,
           \A s \in SUBSET D : (\A x \in s : s \ {x} \in G) => s \in G
    PROVE  \A s \in SUBSET D : s \in G
<1> DEFINE T == {n \in Nat : \E s \in SUBSET D : Cardinality(s) = n /\ s \notin G}
<1>1. T = {}
  <2>1. SUFFICES ASSUME T # {} PROVE FALSE OBVIOUS
  <2>2. T \subseteq Nat OBVIOUS
  <2> HIDE DEF T
  <2>3. PICK n \in T : \A k \in T : n <= k BY <2>1, <2>2, NatMin
  <2>4. PICK s \in SUBSET D : Cardinality(s) = n /\ s \notin G BY <2>3 DEF T
  <2>5. n \in Nat BY <2>2, <2>3
  <2>6. PICK x \in s : s \ {x} \notin G BY <2>4
  <2>7. Cardinality(s \ {x}) = n - 1 /\ Cardinality(s \ {x}) \in Nat
    <3>1. IsFiniteSet(s) BY FS_Subset
    <3>2. IsFiniteSet(s \ {x}) BY <3>1, FS_RemoveElement
    <3> QED BY <2>4, <3>1, <3>2, FS_CardinalityType, FS_RemoveElement
  <2>8. n - 1 \notin T BY <2>3, <2>5, <2>7
  <2>9. s \ {x} \in SUBSET D OBVIOUS
  <2>10. s \ {x} \in G BY <2>7, <2>8, <2>9 DEF T
  <2> QED BY <2>6, <2>10
<1>2. \A s \in SUBSET D : Cardinality(s) \in Nat BY FS_Subset, FS_CardinalityType
<1> QED BY <1>1, <1>2

\* g[s] is what the step F makes of base when it takes the elements of s, the
\* one that ch gives last.
Folded(D, V, base, F, ch, g) ==
    /\ g \in [SUBSET D -> V]
    /\ \A s \in SUBSET D : g[s] = IF s = {} THEN base ELSE F[<<ch[s], g[s \ {ch[s]}]>>]

LEMMA FoldExists ==
    ASSUME NEW D, IsFiniteSet(D), NEW V, NEW base \in V, NEW F \in [D \X V -> V], NEW ch,
           \A s \in SUBSET D : s # {} => ch[s] \in s
    PROVE  \E g : Folded(D, V, base, F, ch, g)
<1> DEFINE Small(n) == {s \in SUBSET D : Cardinality(s) <= n}
           Val(g, s) == IF s = {} THEN base ELSE F[<<ch[s], g[s \ {ch[s]}]>>]
           Upto(g, n) == g \in [Small(n) -> V] /\ \A s \in Small(n) : g[s] = Val(g, s)
           T == {n \in Nat : ~ \E g : Upto(g, n)}
<1>1. ASSUME NEW s \in SUBSET D
      PROVE  /\ Cardinality(s) \in Nat /\ Cardinality(s) <= Cardinality(D)
             /\ s = {} <=> Cardinality(s) = 0
             /\ s # {} => /\ s \ {ch[s]} \in SUBSET D /\ ch[s] \in D
                          /\ Cardinality(s \ {ch[s]}) = Cardinality(s) - 1
  <2>1. IsFiniteSet(s) /\ Cardinality(s) <= Cardinality(D) BY FS_Subset
  <2>2. s # {} => ch[s] \in s OBVIOUS
  <2> QED BY <2>1, <2>2, FS_CardinalityType, FS_EmptySet, FS_RemoveElement
<1>2. T = {}
  <2>1. SUFFICES ASSUME T # {} PROVE FALSE OBVIOUS
  <2>2. T \subseteq Nat OBVIOUS
  <2> HIDE DEF T
  <2>3. PICK n \in T : \A k \in T : n <= k BY <2>1, <2>2, NatMin
  <2>4. n \in Nat /\ ~ \E g : Upto(g, n) BY <2>3 DEF T
  <2>5. CASE n = 0
    <3>1. ASSUME NEW s \in Small(0) PROVE s = {}
      <4>1. s \in SUBSET D /\ Cardinality(s) <= 0 OBVIOUS
      <4>2. Cardinality(s) \in Nat /\ (s = {} <=> Cardinality(s) = 0) BY <1>1, <4>1
      <4> QED BY <4>1, <4>2
    <3> DEFINE g == [s \in Small(0) |-> base]
    <3>2. g \in [Small(0) -> V] /\ \A s \in Small(0) : g[s] = base OBVIOUS
    <3> HIDE DEF g
    <3>3. Upto(g, 0) BY <3>1, <3>2
    <3> QED BY <2>4, <2>5, <3>3
  <2>6. CASE n # 0
    <3>1. n - 1 \in Nat /\ n - 1 \notin T BY <2>3, <2>4, <2>6
    <3>2. PICK g : Upto(g, n - 1) BY <3>1 DEF T
    <3> DEFINE h == [s \in Small(n) |-> Val(g, s)]
    <3>3. ASSUME NEW s \in Small(n), s # {}
          PROVE  /\ s \ {ch[s]} \in Small(n - 1) /\ s \ {ch[s]} \in Small(n)
                 /\ g[s \ {ch[s]}] \in V /\ ch[s] \in D
      <4>1. s \in SUBSET D /\ Cardinality(s) <= n OBVIOUS
      <4>2. /\ Cardinality(s) \in Nat /\ s \ {ch[s]} \in SUBSET D /\ ch[s] \in D
            /\ Cardinality(s \ {ch[s]}) = Cardinality(s) - 1
        BY <1>1, <3>3, <4>1
      <4>3. Cardinality(s \ {ch[s]}) <= n - 1 /\ Cardinality(s \ {ch[s]}) <= n
        BY <2>4, <4>1, <4>2
      <4>4. s \ {ch[s]} \in Small(n - 1) /\ s \ {ch[s]} \in Small(n) BY <4>2, <4>3
      <4> QED BY <3>2, <4>2, <4>4
    <3>4. \A s \in Small(n) : Val(g, s) \in V
      <4> SUFFICES ASSUME NEW s \in Small(n) PROVE Val(g, s) \in V
        OBVIOUS
      <4>1. CASE s = {} BY <4>1
      <4>2. CASE s # {}
        <5>1. <<ch[s], g[s \ {ch[s]}]>> \in D \X V BY <3>3, <4>2
        <5>2. F[<<ch[s], g[s \ {ch[s]}]>>] \in V BY <5>1
        <5> QED BY <4>2, <5>2
      <4> QED BY <4>1, <4>2
    <3>5. h \in [Small(n) -> V] BY <3>4
    <3>6. \A s \in Small(n - 1) : s \in Small(n)
      <4> SUFFICES ASSUME NEW s \in Small(n - 1) PROVE s \in Small(n)
        OBVIOUS
      <4>1. s \in SUBSET D /\ Cardinality(s) <= n - 1 OBVIOUS
      <4>2. Cardinality(s) \in Nat BY <1>1, <4>1
      <4> QED BY <2>4, <4>1, <4>2
    <3>7. \A s \in Small(n - 1) : h[s] = g[s] BY <3>2, <3>6
    <3>8. ASSUME NEW s \in Small(n) PROVE h[s] = Val(h, s)
      <4>1. h[s] = Val(g, s) OBVIOUS
      <4> HIDE DEF h
      <4>2. CASE s = {} BY <4>1, <4>2
      <4>3. CASE s # {} BY <3>3, <3>7, <4>1, <4>3
      <4> QED BY <4>2, <4>3
    <3> HIDE DEF h
    <3>9. Upto(h, n) BY <3>5, <3>8
    <3> QED BY <2>4, <3>9
  <2> QED BY <2>5, <2>6
<1>3. Cardinality(D) \in Nat BY FS_CardinalityType
<1>4. PICK g : Upto(g, Cardinality(D)) BY <1>2, <1>3
<1>5. Small(Cardinality(D)) = SUBSET D BY <1>1
<1>6. g \in [SUBSET D -> V] /\ \A s \in SUBSET D : g[s] = Val(g, s) BY <1>4, <1>5
<1> QED BY <1>6 DEF Folded

\* The greatest of some of the first numbers.
LEMMA MaxIn ==
    ASSUME NEW N \in Nat, NEW s \in SUBSET (1 .. N), s # {}
    PROVE  Max(s) \in s /\ \A z \in s : Max(s) >= z
<1> DEFINE T == {N - x : x \in s}
<1>1. T \subseteq Nat /\ T # {}
  <2>1. \A x \in s : x \in 1 .. N OBVIOUS
  <2>2. \A x \in s : N - x \in Nat BY <2>1
  <2> QED BY <2>2
<1> HIDE DEF T
<1>2. PICK y \in T : \A z \in T : y <= z BY <1>1, NatMin
<1>3. PICK x \in s : y = N - x BY <1>2 DEF T
<1>4. ASSUME NEW z \in s PROVE x >= z
  <2>1. x \in 1 .. N /\ z \in 1 .. N OBVIOUS
  <2>2. N - z \in T BY DEF T
  <2>3. N - x <= N - z BY <1>2, <1>3, <2>2
  <2> QED BY <2>1, <2>3
<1>5. \E m \in s : \A z \in s : m >= z BY <1>4
<1> QED BY <1>5, Zenon DEF Max

LEMMA MaxOfFirst ==
    ASSUME NEW n \in Nat \ {0}
    PROVE  Max(1 .. n) = n /\ (1 .. n) \ {Max(1 .. n)} = 1 .. (n - 1)
<1>1. PICK s : s = 1 .. n OBVIOUS
<1>2. s \in SUBSET (1 .. n) /\ s # {} /\ n \in Nat BY <1>1
<1>3. Max(s) \in s /\ \A z \in s : Max(s) >= z BY <1>2, MaxIn
<1>4. Max(s) = n BY <1>1, <1>3
<1>5. s \ {n} = 1 .. (n - 1) BY <1>1
<1> QED BY <1>1, <1>4, <1>5

-----------------------------------------------------------------------------
(* What leaving a queue leaves of its groups.                              *)

LEMMA RestIs ==
    ASSUME NEW g \in Group, NEW q, NEW R
    PROVE  /\ Rest(g, q, R) = [players |-> {p \in g.players : <<p, q>> \notin R}, list |-> g.list,
                              side |-> g.side, bg |-> g.bg, left |-> g.left]
           /\ Rest(g, q, R).players = {p \in g.players : <<p, q>> \notin R}
           /\ Rest(g, q, R).players # {} => Rest(g, q, R) \in Group
           /\ (\A p \in g.players : <<p, q>> \notin R) => Rest(g, q, R) = g
<1>1. PICK P : P = {p \in g.players : <<p, q>> \notin R} OBVIOUS
<1>2. PICK r : r = [players |-> P, list |-> g.list, side |-> g.side, bg |-> g.bg, left |-> g.left]
  OBVIOUS
<1>3. Rest(g, q, R) = [g EXCEPT !.players = P] BY <1>1 DEF Rest
<1>4. [g EXCEPT !.players = P] = r BY <1>2 DEF Group
<1>5. /\ g.players \in SUBSET Players /\ g.list \in {"premade", "normal"} /\ g.side \in Teams
      /\ g.bg \in Bgs \cup {None} /\ g.left \in 0 .. InviteTime
      /\ g = [players |-> g.players, list |-> g.list, side |-> g.side, bg |-> g.bg, left |-> g.left]
  BY DEF Group
<1>6. P \subseteq g.players BY <1>1
<1>7. P # {} => r \in Group BY <1>2, <1>5, <1>6 DEF Group
<1>8. r.players = P BY <1>2
<1>9. (\A p \in g.players : <<p, q>> \notin R) => P = g.players BY <1>1
<1>10. P = g.players => r = g BY <1>2, <1>5
<1> QED BY <1>1, <1>2, <1>3, <1>4, <1>7, <1>8, <1>9, <1>10

\* r is what is kept of the first n groups of s: e says where they come from.
KeptFrom(s, q, R, n, r, e) ==
    /\ e \in [DOMAIN r -> 1 .. n]
    /\ \A j \in DOMAIN r : r[j] = Rest(s[e[j]], q, R) /\ r[j].players # {}
    /\ \A j, k \in DOMAIN r : e[j] = e[k] => j = k
    /\ \A i \in 1 .. n : Rest(s[i], q, R).players # {} => \E j \in DOMAIN r : e[j] = i

KeptOf(s, q, R, n, r) == r \in Seq(Group) /\ \E e : KeptFrom(s, q, R, n, r, e)

KeepsTo(s, q, R, g) ==
    g = [d \in SUBSET DOMAIN s |->
           IF d = {} THEN <<>> ELSE KeepRest(g[d \ {Max(d)}], s[Max(d)], q, R)]

LEMMA KeepIs ==
    ASSUME NEW s, NEW q, NEW R, NEW g, KeepsTo(s, q, R, g)
    PROVE  \E h : /\ KeepsTo(s, q, R, h)
                  /\ AllRest(s, q, R) = h[DOMAIN s]
BY Zenon DEF KeepsTo, AllRest, FoldLeft, MapThenFoldSet

\* One group more.
LEMMA KeptStep ==
    ASSUME NEW s \in Seq(Group), NEW q, NEW R, NEW n \in 1 .. Len(s), NEW r, KeptOf(s, q, R, n - 1, r)
    PROVE  KeptOf(s, q, R, n, KeepRest(r, s[n], q, R))
<1>0. Len(s) \in Nat /\ n \in Nat /\ n - 1 \in Nat OBVIOUS
<1>1. r \in Seq(Group) BY DEF KeptOf
<1>2. PICK e : KeptFrom(s, q, R, n - 1, r, e) BY DEF KeptOf
<1>3. PICK m \in Nat : m = Len(r) /\ DOMAIN r = 1 .. m BY <1>1
<1>4. PICK x : x = Rest(s[n], q, R) OBVIOUS
<1>5. s[n] \in Group OBVIOUS
<1>6. x.players # {} => x \in Group BY <1>4, <1>5, RestIs
<1>7. CASE x.players = {}
  <2>1. KeepRest(r, s[n], q, R) = r BY <1>4, <1>7 DEF KeepRest
  <2>2. e \in [DOMAIN r -> 1 .. n] BY <1>0, <1>2 DEF KeptFrom
  <2>3. \A i \in 1 .. n : Rest(s[i], q, R).players # {} => i \in 1 .. (n - 1) BY <1>0, <1>4, <1>7
  <2>4. KeptFrom(s, q, R, n, r, e) BY <1>2, <2>2, <2>3 DEF KeptFrom
  <2> QED BY <1>1, <2>1, <2>4 DEF KeptOf
<1>8. CASE x.players # {}
  <2>1. KeepRest(r, s[n], q, R) = Append(r, x) BY <1>4, <1>8 DEF KeepRest
  <2>2. PICK u : u = Append(r, x) OBVIOUS
  <2>3. /\ u \in Seq(Group) /\ DOMAIN u = 1 .. (m + 1)
        /\ u[m + 1] = x /\ \A j \in 1 .. m : u[j] = r[j]
    BY <1>1, <1>3, <1>6, <1>8, <2>2
  <2>4. PICK f : f = [j \in 1 .. (m + 1) |-> IF j = m + 1 THEN n ELSE e[j]] OBVIOUS
  <2>5. \A j \in 1 .. m : e[j] \in 1 .. (n - 1) BY <1>2, <1>3 DEF KeptFrom
  <2>6. f[m + 1] = n /\ \A j \in 1 .. m : f[j] = e[j] BY <1>3, <2>4
  <2>7. f \in [DOMAIN u -> 1 .. n] BY <1>0, <2>3, <2>4, <2>5
  <2>8. \A j \in DOMAIN u : u[j] = Rest(s[f[j]], q, R) /\ u[j].players # {}
    BY <1>2, <1>3, <1>4, <1>8, <2>3, <2>6 DEF KeptFrom
  <2>9. \A j, k \in DOMAIN u : f[j] = f[k] => j = k
    <3> SUFFICES ASSUME NEW j \in 1 .. (m + 1), NEW k \in 1 .. (m + 1), f[j] = f[k] PROVE j = k
      BY <2>3
    <3>1. CASE j \in 1 .. m /\ k \in 1 .. m BY <1>2, <1>3, <2>6, <3>1 DEF KeptFrom
    <3>2. CASE j = m + 1 /\ k \in 1 .. m BY <1>0, <2>5, <2>6, <3>2
    <3>3. CASE k = m + 1 /\ j \in 1 .. m BY <1>0, <2>5, <2>6, <3>3
    <3> QED BY <1>3, <3>1, <3>2, <3>3
  <2>10. ASSUME NEW i \in 1 .. n, Rest(s[i], q, R).players # {} PROVE \E j \in DOMAIN u : f[j] = i
    <3>1. CASE i = n BY <1>3, <2>3, <2>6, <3>1
    <3>2. CASE i \in 1 .. (n - 1)
      <4>1. PICK j \in 1 .. m : e[j] = i BY <1>2, <1>3, <2>10, <3>2 DEF KeptFrom
      <4> QED BY <1>3, <2>3, <2>6, <4>1
    <3> QED BY <1>0, <3>1, <3>2
  <2>11. KeptFrom(s, q, R, n, u, f) BY <2>7, <2>8, <2>9, <2>10 DEF KeptFrom
  <2> QED BY <2>1, <2>2, <2>3, <2>11 DEF KeptOf
<1> QED BY <1>7, <1>8

LEMMA KeptIs ==
    ASSUME NEW s \in Seq(Group), NEW q, NEW R
    PROVE  KeptOf(s, q, R, Len(s), AllRest(s, q, R))
<1>0. PICK N \in Nat : N = Len(s) /\ DOMAIN s = 1 .. N OBVIOUS
<1>1. PICK D : D = 1 .. N OBVIOUS
<1>2. IsFiniteSet(D) BY <1>0, <1>1, FS_Interval
<1>3. PICK V : V = Seq(Group) OBVIOUS
<1>4. PICK base \in V : base = <<>>
  <2>1. <<>> \in Seq(Group) OBVIOUS
  <2> QED BY <1>3, <2>1
<1> DEFINE F == [z \in D \X V |-> KeepRest(z[2], s[z[1]], q, R)]
           ch == [d \in SUBSET D |-> Max(d)]
<1>5. ASSUME NEW k \in D, NEW r \in V PROVE KeepRest(r, s[k], q, R) \in V
  <2>1. s[k] \in Group /\ r \in Seq(Group) BY <1>0, <1>1, <1>3
  <2>2. PICK x : x = Rest(s[k], q, R) OBVIOUS
  <2>3. x.players # {} => x \in Group BY <2>1, <2>2, RestIs
  <2>4. x.players # {} => Append(r, x) \in Seq(Group) BY <2>1, <2>3
  <2> QED BY <1>3, <2>2, <2>4 DEF KeepRest
<1>6. F \in [D \X V -> V] /\ \A k \in D, r \in V : F[<<k, r>>] = KeepRest(r, s[k], q, R)
  BY <1>5
<1>7. \A d \in SUBSET D : ch[d] = Max(d) /\ (d # {} => ch[d] \in d) BY <1>0, <1>1, MaxIn
<1> HIDE DEF F, ch
<1>8. PICK g : Folded(D, V, base, F, ch, g) BY <1>2, <1>6, <1>7, FoldExists
<1>9. \A d \in SUBSET D : g[d] = IF d = {} THEN <<>> ELSE KeepRest(g[d \ {Max(d)}], s[Max(d)], q, R)
  <2> SUFFICES ASSUME NEW d \in SUBSET D
               PROVE  g[d] = IF d = {} THEN <<>> ELSE KeepRest(g[d \ {Max(d)}], s[Max(d)], q, R)
    OBVIOUS
  <2>1. CASE d = {} BY <1>4, <1>8, <2>1 DEF Folded
  <2>2. CASE d # {}
    <3>1. PICK k \in D : k = Max(d) BY <1>7, <2>2
    <3>2. g[d] = F[<<k, g[d \ {k}]>>] BY <1>7, <1>8, <2>2, <3>1 DEF Folded
    <3>3. g[d \ {k}] \in V BY <1>8 DEF Folded
    <3> QED BY <1>6, <2>2, <3>1, <3>2, <3>3
  <2> QED BY <2>1, <2>2
<1>10. KeepsTo(s, q, R, g)
  <2>1. g \in [SUBSET D -> V] BY <1>8 DEF Folded
  <2> QED BY <1>0, <1>1, <1>9, <2>1 DEF KeepsTo
<1>11. PICK h : /\ KeepsTo(s, q, R, h)
                /\ AllRest(s, q, R) = h[D]
  BY <1>0, <1>1, <1>10, KeepIs
<1> DEFINE H == [d \in SUBSET D |-> IF d = {} THEN <<>> ELSE KeepRest(h[d \ {Max(d)}], s[Max(d)], q, R)]
           T == {n \in Nat : n <= N /\ ~KeptOf(s, q, R, n, h[1 .. n])}
<1>12. h = H BY <1>0, <1>1, <1>11 DEF KeepsTo
<1>13. \A d \in SUBSET D : H[d] = IF d = {} THEN <<>> ELSE KeepRest(h[d \ {Max(d)}], s[Max(d)], q, R)
  OBVIOUS
<1> HIDE DEF H
<1>14. T = {}
  <2> SUFFICES ASSUME T # {} PROVE FALSE OBVIOUS
  <2>1. T \subseteq Nat OBVIOUS
  <2> HIDE DEF T
  <2>2. PICK n \in T : \A k \in T : n <= k BY <2>1, NatMin
  <2>3. n \in Nat /\ n <= N /\ ~KeptOf(s, q, R, n, h[1 .. n]) BY <2>1, <2>2 DEF T
  <2>4. 1 .. n \in SUBSET D BY <1>0, <1>1, <2>3
  <2>5. CASE n = 0
    <3>1. PICK r : r = <<>> OBVIOUS
    <3>2. 1 .. n = {} BY <2>5
    <3>3. h[1 .. n] = r BY <1>12, <1>13, <2>4, <3>1, <3>2
    <3>4. r \in Seq(Group) /\ DOMAIN r = {} BY <3>1
    <3>5. PICK e : e = [j \in DOMAIN r |-> 1] OBVIOUS
    <3>6. e \in [DOMAIN r -> 1 .. n] BY <3>4, <3>5
    <3>7. KeptFrom(s, q, R, n, r, e) BY <3>2, <3>4, <3>6 DEF KeptFrom
    <3> QED BY <2>3, <3>3, <3>4, <3>7 DEF KeptOf
  <2>6. CASE n # 0
    <3>1. n \in Nat \ {0} /\ n - 1 \in Nat /\ n - 1 <= N /\ ~ (n <= n - 1) BY <1>0, <2>3, <2>6
    <3>2. n - 1 \notin T BY <2>2, <3>1
    <3>3. KeptOf(s, q, R, n - 1, h[1 .. (n - 1)]) BY <3>1, <3>2 DEF T
    <3>4. 1 .. n # {}
      <4>1. n \in 1 .. n BY <3>1
      <4> QED BY <4>1
    <3>5. Max(1 .. n) = n /\ (1 .. n) \ {Max(1 .. n)} = 1 .. (n - 1) BY <3>1, MaxOfFirst
    <3>6. h[1 .. n] = KeepRest(h[1 .. (n - 1)], s[n], q, R) BY <1>12, <1>13, <2>4, <3>4, <3>5
    <3>7. n \in 1 .. Len(s) BY <1>0, <2>3, <3>1
    <3>8. PICK r : r = h[1 .. (n - 1)] OBVIOUS
    <3>9. KeptOf(s, q, R, n, KeepRest(r, s[n], q, R)) BY <3>3, <3>7, <3>8, KeptStep
    <3> QED BY <2>3, <3>6, <3>8, <3>9
  <2> QED BY <2>5, <2>6
<1>15. KeptOf(s, q, R, N, h[1 .. N]) BY <1>0, <1>14
<1> QED BY <1>0, <1>1, <1>11, <1>15


-----------------------------------------------------------------------------
(* The groups of one queue.                                                *)

\* Their players, and those that are invited to the team t of b.
In(gs) == UNION {g.players : g \in ToSet(gs)}
Held(gs, b, t) == {p \in Players : \E g \in ToSet(gs) : Holds(g, p, b) /\ g.side = t}

OneGroup(gs) ==
    \A p \in Players : \A i, j \in DOMAIN gs : p \in gs[i].players \cap gs[j].players => i = j

\* A queue's groups: nobody is in two of them.
Queue(gs) == gs \in Seq(Group) /\ OneGroup(gs)

\* The players R names have left the groups gs of the queue q.
LeftBy(R, q, gs, r) ==
    /\ Queue(r)
    /\ \A p \in Players : p \in In(r) <=> p \in In(gs) /\ <<p, q>> \notin R
    /\ \A p \in Players, b \in Bgs, t \in Teams :
          p \in Held(r, b, t) <=> p \in Held(gs, b, t) /\ <<p, q>> \notin R
    /\ \A x \in ToSet(r) : \E g \in ToSet(gs) : x.players \subseteq g.players
    /\ \A g \in ToSet(gs) : (\A p \in g.players : <<p, q>> \notin R) => g \in ToSet(r)

LEMMA GroupIs ==
    ASSUME NEW g \in Group
    PROVE  /\ g.players \subseteq Players /\ g.players # {} /\ g.list \in {"premade", "normal"}
           /\ g.side \in Teams /\ g.bg \in Bgs \cup {None} /\ g.left \in 0 .. InviteTime
           /\ g = [players |-> g.players, list |-> g.list, side |-> g.side, bg |-> g.bg, left |-> g.left]
<1>1. /\ g.players \in (SUBSET Players) \ {{}} /\ g.list \in {"premade", "normal"}
      /\ g.side \in Teams /\ g.bg \in Bgs \cup {None} /\ g.left \in 0 .. InviteTime
      /\ g = [players |-> g.players, list |-> g.list, side |-> g.side, bg |-> g.bg, left |-> g.left]
  BY DEF Group
<1>2. PICK P : P = g.players OBVIOUS
<1>3. P \in (SUBSET Players) \ {{}} BY <1>1, <1>2
<1>4. P \subseteq Players /\ P # {} BY <1>3
<1> QED BY <1>1, <1>2, <1>4

LEMMA ElementOf ==
    ASSUME NEW gs \in Seq(Group)
    PROVE  /\ \A i \in DOMAIN gs : gs[i] \in Group /\ gs[i] \in ToSet(gs)
           /\ \A g \in ToSet(gs) : g \in Group /\ \E i \in DOMAIN gs : g = gs[i]
BY DEF ToSet

LEMMA InIs ==
    ASSUME NEW gs \in Seq(Group), NEW p
    PROVE  p \in In(gs) <=> \E i \in DOMAIN gs : p \in gs[i].players
BY ElementOf DEF In

LEMMA HeldIs ==
    ASSUME NEW gs \in Seq(Group), NEW p \in Players, NEW b, NEW t
    PROVE  p \in Held(gs, b, t) <=>
              \E i \in DOMAIN gs : p \in gs[i].players /\ gs[i].bg = b /\ gs[i].side = t
BY ElementOf DEF Held, Holds

LEMMA AllRestIs ==
    ASSUME NEW gs, Queue(gs), NEW q, NEW R
    PROVE  LeftBy(R, q, gs, AllRest(gs, q, R))
<1>1. gs \in Seq(Group) /\ OneGroup(gs) BY DEF Queue
<1>2. PICK r : r = AllRest(gs, q, R) OBVIOUS
<1>3. KeptOf(gs, q, R, Len(gs), r) BY <1>1, <1>2, KeptIs
<1>4. r \in Seq(Group) BY <1>3 DEF KeptOf
<1>5. PICK e : KeptFrom(gs, q, R, Len(gs), r, e) BY <1>3 DEF KeptOf
<1>6. DOMAIN gs = 1 .. Len(gs) BY <1>1
<1>7. /\ e \in [DOMAIN r -> DOMAIN gs]
      /\ \A j \in DOMAIN r : r[j] = Rest(gs[e[j]], q, R) /\ r[j].players # {}
      /\ \A j, k \in DOMAIN r : e[j] = e[k] => j = k
      /\ \A i \in DOMAIN gs : Rest(gs[i], q, R).players # {} => \E j \in DOMAIN r : e[j] = i
  BY <1>5, <1>6 DEF KeptFrom
<1>8. ASSUME NEW i \in DOMAIN gs
      PROVE  LET x == Rest(gs[i], q, R)
             IN  /\ x.players = {p \in gs[i].players : <<p, q>> \notin R}
                 /\ x.bg = gs[i].bg /\ x.side = gs[i].side
                 /\ (\A p \in gs[i].players : <<p, q>> \notin R) => x = gs[i]
  <2>1. gs[i] \in Group BY <1>1, ElementOf
  <2> QED BY <2>1, RestIs
<1>9. ASSUME NEW j \in DOMAIN r
      PROVE  /\ r[j].players = {p \in gs[e[j]].players : <<p, q>> \notin R}
             /\ r[j].bg = gs[e[j]].bg /\ r[j].side = gs[e[j]].side /\ e[j] \in DOMAIN gs
  <2>1. e[j] \in DOMAIN gs /\ r[j] = Rest(gs[e[j]], q, R) BY <1>7
  <2> QED BY <1>8, <2>1
<1>10. OneGroup(r)
  <2> SUFFICES ASSUME NEW p \in Players, NEW i \in DOMAIN r, NEW j \in DOMAIN r,
                      p \in r[i].players \cap r[j].players
               PROVE  i = j
    BY DEF OneGroup
  <2>1. p \in gs[e[i]].players \cap gs[e[j]].players /\ e[i] \in DOMAIN gs /\ e[j] \in DOMAIN gs
    BY <1>9
  <2>2. e[i] = e[j] BY <1>1, <2>1 DEF OneGroup
  <2> QED BY <1>7, <2>2
<1>11. ASSUME NEW p \in Players PROVE p \in In(r) <=> p \in In(gs) /\ <<p, q>> \notin R
  <2>1. p \in In(r) => p \in In(gs) /\ <<p, q>> \notin R BY <1>1, <1>4, <1>9, InIs
  <2>2. ASSUME p \in In(gs), <<p, q>> \notin R PROVE p \in In(r)
    <3>1. PICK i \in DOMAIN gs : p \in gs[i].players BY <1>1, <2>2, InIs
    <3>2. p \in Rest(gs[i], q, R).players BY <1>8, <2>2, <3>1
    <3>3. PICK j \in DOMAIN r : e[j] = i BY <1>7, <3>2
    <3> QED BY <1>4, <1>9, <2>2, <3>1, <3>3, InIs
  <2> QED BY <2>1, <2>2
<1>12. ASSUME NEW p \in Players, NEW b \in Bgs, NEW t \in Teams
       PROVE  p \in Held(r, b, t) <=> p \in Held(gs, b, t) /\ <<p, q>> \notin R
  <2>1. p \in Held(r, b, t) => p \in Held(gs, b, t) /\ <<p, q>> \notin R BY <1>1, <1>4, <1>9, HeldIs
  <2>2. ASSUME p \in Held(gs, b, t), <<p, q>> \notin R PROVE p \in Held(r, b, t)
    <3>1. PICK i \in DOMAIN gs : p \in gs[i].players /\ gs[i].bg = b /\ gs[i].side = t
      BY <1>1, <2>2, HeldIs
    <3>2. p \in Rest(gs[i], q, R).players BY <1>8, <2>2, <3>1
    <3>3. PICK j \in DOMAIN r : e[j] = i BY <1>7, <3>2
    <3> QED BY <1>4, <1>9, <2>2, <3>1, <3>3, HeldIs
  <2> QED BY <2>1, <2>2
<1>13. ASSUME NEW x \in ToSet(r) PROVE \E g \in ToSet(gs) : x.players \subseteq g.players
  <2>1. PICK j \in DOMAIN r : x = r[j] BY <1>4, ElementOf
  <2>2. x.players \subseteq gs[e[j]].players /\ e[j] \in DOMAIN gs BY <1>9, <2>1
  <2> QED BY <1>1, <2>2, ElementOf
<1>14. ASSUME NEW g \in ToSet(gs), \A p \in g.players : <<p, q>> \notin R PROVE g \in ToSet(r)
  <2>1. PICK i \in DOMAIN gs : g = gs[i] /\ g \in Group BY <1>1, ElementOf
  <2>2. Rest(gs[i], q, R) = g BY <1>8, <1>14, <2>1
  <2>3. g.players # {} BY <2>1, GroupIs
  <2>4. PICK j \in DOMAIN r : e[j] = i BY <1>7, <2>2, <2>3
  <2>5. r[j] = g BY <1>7, <2>2, <2>4
  <2> QED BY <1>4, <2>5, ElementOf
<1>15. LeftBy(R, q, gs, r)
  BY <1>4, <1>10, <1>11, <1>12, <1>13, <1>14 DEF LeftBy, Queue
<1> QED BY <1>2, <1>15

\* A new group, of players who are in none.
LEMMA AppendQueue ==
    ASSUME NEW gs, Queue(gs), NEW x \in Group, x.bg = None, x.players \cap In(gs) = {}
    PROVE  /\ Queue(Append(gs, x))
           /\ In(Append(gs, x)) = In(gs) \cup x.players
           /\ \A b \in Bgs, t \in Teams : Held(Append(gs, x), b, t) = Held(gs, b, t)
           /\ ToSet(Append(gs, x)) = ToSet(gs) \cup {x}
<1>1. gs \in Seq(Group) /\ OneGroup(gs) BY DEF Queue
<1>2. PICK m \in Nat : m = Len(gs) /\ DOMAIN gs = 1 .. m BY <1>1
<1>3. PICK r : r = Append(gs, x) OBVIOUS
<1>4. /\ r \in Seq(Group) /\ DOMAIN r = 1 .. (m + 1) /\ r[m + 1] = x
      /\ \A i \in 1 .. m : r[i] = gs[i]
  BY <1>1, <1>2, <1>3
<1>5. \A i \in 1 .. m : gs[i].players \cap x.players = {} BY <1>1, <1>2, InIs
<1>6. OneGroup(r)
  <2> SUFFICES ASSUME NEW p \in Players, NEW i \in 1 .. (m + 1), NEW j \in 1 .. (m + 1),
                      p \in r[i].players \cap r[j].players
               PROVE  i = j
    BY <1>4 DEF OneGroup
  <2>1. CASE i \in 1 .. m /\ j \in 1 .. m BY <1>1, <1>2, <1>4, <2>1 DEF OneGroup
  <2>2. CASE i = m + 1 /\ j \in 1 .. m BY <1>4, <1>5, <2>2
  <2>3. CASE j = m + 1 /\ i \in 1 .. m BY <1>4, <1>5, <2>3
  <2> QED BY <1>2, <2>1, <2>2, <2>3
<1>7. ToSet(r) = ToSet(gs) \cup {x}
  <2>1. DOMAIN r = 1 .. m \cup {m + 1} BY <1>2, <1>4
  <2> QED BY <1>2, <1>4, <2>1 DEF ToSet
<1>8. In(r) = In(gs) \cup x.players BY <1>7 DEF In
<1>9. ASSUME NEW b \in Bgs, NEW t \in Teams PROVE Held(r, b, t) = Held(gs, b, t)
  <2>1. b # None BY BgAssumption
  <2> QED BY <1>7, <2>1 DEF Held, Holds
<1> QED BY <1>3, <1>4, <1>6, <1>7, <1>8, <1>9 DEF Queue

-----------------------------------------------------------------------------
(* The queues match the ids: what the steps have in common.                *)

\* What TypeOK says of the variables other than slots and groups.
TypeRest ==
    /\ at \in [Players -> {"off", "world", "port", "bg"}]
    /\ mine \in [Players -> Bgs \cup {None}] /\ side \in [Players -> Teams]
    /\ events \subseteq [player : Players, queue : Queues, bg : Bgs, left : 0 .. InviteTime]
    /\ status \in [Bgs -> {"none", "join", "progress", "leave"}]
    /\ kind \in [Bgs -> Queues \cup {None}]
    /\ invited \in [Bgs -> [Teams -> Nat]]

TypeQueues(sl, gs) == sl \in [Players -> SUBSET Queues] /\ gs \in [Queues -> Seq(Group)]

Match(a, sl, gs) ==
    \A q \in Queues :
        /\ Queue(gs[q])
        /\ \A p \in Players : (q \in sl[p] <=> p \in In(gs[q])) /\ (q \in sl[p] => a[p] = "world")

LEMMA QueueInvIs ==
    /\ QueueInv <=> TypeRest /\ TypeQueues(slots, groups) /\ Match(at, slots, groups) /\ AwayHasId
    /\ QueueInv' <=> /\ TypeRest' /\ TypeQueues(slots', groups')
                     /\ Match(at', slots', groups') /\ AwayHasId'
<1>1. TypeOK <=> TypeRest /\ TypeQueues(slots, groups) BY DEF TypeOK, TypeRest, TypeQueues
<1>2. TypeOK' <=> TypeRest' /\ TypeQueues(slots', groups') BY DEF TypeOK, TypeRest, TypeQueues
<1>3. TypeQueues(slots, groups) => (QueueMatches <=> Match(at, slots, groups))
  BY DEF TypeQueues, QueueMatches, Match, Queue, OneGroup, In, Queued
<1>4. TypeQueues(slots', groups') => (QueueMatches' <=> Match(at', slots', groups'))
  BY DEF TypeQueues, QueueMatches, Match, Queue, OneGroup, In, Queued
<1> QED BY <1>1, <1>2, <1>3, <1>4 DEF QueueInv

LEMMA QueueIs ==
    ASSUME QueueInv
    PROVE  /\ TypeRest /\ TypeQueues(slots, groups)
           /\ \A q \in Queues : Queue(groups[q]) /\ groups[q] \in Seq(Group)
           /\ \A p \in Players, q \in Queues :
                 (q \in slots[p] <=> p \in In(groups[q])) /\ (q \in slots[p] => at[p] = "world")
           /\ \A p \in Players : slots[p] \subseteq Queues
<1>1. TypeRest /\ TypeQueues(slots, groups) /\ Match(at, slots, groups) BY QueueInvIs
<1>2. \A q \in Queues : groups[q] \in Seq(Group) BY <1>1 DEF TypeQueues
<1>3. \A p \in Players : slots[p] \subseteq Queues BY <1>1 DEF TypeQueues
<1> QED BY <1>1, <1>2, <1>3 DEF Match

LEMMA Finite ==
    /\ IsFiniteSet(Players) /\ IsFiniteSet(Queues) /\ IsFiniteSet(Players \X Queues)
    /\ \A R \in SUBSET (Players \X Queues) : IsFiniteSet(R)
    /\ \A P \in SUBSET Players : IsFiniteSet(P) /\ Cardinality(P) \in Nat
<1>1. IsFiniteSet(Players) /\ IsFiniteSet(Queues) BY BgAssumption DEF Queues
<1>2. IsFiniteSet(Players \X Queues) BY <1>1, FS_Product
<1> QED BY <1>1, <1>2, FS_Subset, FS_CardinalityType

\* A step that changes neither: nobody leaves the world who waits.
LEMMA SameQueues ==
    ASSUME QueueInv, TypeRest', AwayHasId', slots' = slots, groups' = groups,
           \A p \in Players : at[p] = "world" => at'[p] = "world"
    PROVE  QueueInv'
<1>1. TypeQueues(slots, groups) /\ Match(at, slots, groups) BY QueueInvIs
<1>2. Match(at', slots, groups) BY <1>1 DEF Match
<1> QED BY <1>1, <1>2, QueueInvIs

\* A step after which the same players wait in every queue.
SameMembers(gs, r) == Queue(r) /\ \A p \in Players : p \in In(r) <=> p \in In(gs)

LEMMA SameMembersKeeps ==
    ASSUME QueueInv, TypeRest', slots' = slots, at' = at, mine' = mine,
           groups' \in [Queues -> Seq(Group)],
           \A q \in Queues : SameMembers(groups[q], groups'[q])
    PROVE  QueueInv'
<1>1. TypeQueues(slots, groups) /\ Match(at, slots, groups) /\ AwayHasId BY QueueInvIs
<1>2. TypeQueues(slots', groups') BY <1>1 DEF TypeQueues
<1>3. Match(at', slots', groups') BY <1>1 DEF Match, SameMembers
<1>4. AwayHasId' BY <1>1 DEF AwayHasId
<1> QED BY <1>2, <1>3, <1>4, QueueInvIs

\* Each group keeps its players.
LEMMA SamePlayers ==
    ASSUME NEW gs, Queue(gs), NEW r, DOMAIN r = DOMAIN gs, r = [i \in DOMAIN gs |-> r[i]],
           \A i \in DOMAIN gs : r[i] \in Group /\ r[i].players = gs[i].players
    PROVE  SameMembers(gs, r) /\ r \in Seq(Group) /\ Len(r) = Len(gs)
<1>1. gs \in Seq(Group) /\ OneGroup(gs) BY DEF Queue
<1>2. PICK n \in Nat : n = Len(gs) /\ DOMAIN gs = 1 .. n BY <1>1
<1>3. r \in [1 .. n -> Group] BY <1>2
<1>4. r \in Seq(Group) /\ Len(r) = n BY <1>2, <1>3
<1>5. OneGroup(r) BY <1>1 DEF OneGroup
<1>6. ASSUME NEW p \in Players PROVE p \in In(r) <=> p \in In(gs) BY <1>1, <1>4, InIs
<1> QED BY <1>2, <1>4, <1>5, <1>6 DEF SameMembers, Queue

-----------------------------------------------------------------------------
(* Leaving.                                                                *)

LEMMA TeamLeaves ==
    ASSUME NEW R \in SUBSET (Players \X Queues)
    PROVE  WithTeam(R) \in SUBSET (Players \X Queues) /\ R \subseteq WithTeam(R)
BY DEF WithTeam, Queues

Left(R, gs, r) == \A q \in Queues : LeftBy(R, q, gs[q], r[q])

LEMMA RemovedIs ==
    ASSUME QueueInv, NEW R \in SUBSET (Players \X Queues)
    PROVE  /\ TypeQueues(SlotsWithout(R), GroupsWithout(R))
           /\ \A p \in Players, q \in Queues :
                 q \in SlotsWithout(R)[p] <=> q \in slots[p] /\ <<p, q>> \notin R
           /\ Left(R, groups, GroupsWithout(R))
           /\ InvitedWithout(R) \in [Bgs -> [Teams -> Nat]]
<1>1. TypeRest /\ TypeQueues(slots, groups) /\ \A q \in Queues : Queue(groups[q]) BY QueueIs
<1>2. ASSUME NEW q \in Queues
      PROVE  /\ LeftBy(R, q, groups[q], GroupsWithout(R)[q])
             /\ GroupsWithout(R)[q] \in Seq(Group)
  <2>1. GroupsWithout(R)[q] = AllRest(groups[q], q, R) BY DEF GroupsWithout
  <2>2. LeftBy(R, q, groups[q], AllRest(groups[q], q, R)) BY <1>1, AllRestIs
  <2> QED BY <2>1, <2>2 DEF LeftBy, Queue
<1>3. GroupsWithout(R) \in [Queues -> Seq(Group)]
  <2>1. GroupsWithout(R) = [q \in Queues |-> GroupsWithout(R)[q]] BY DEF GroupsWithout
  <2> QED BY <1>2, <2>1
<1>4. /\ SlotsWithout(R) \in [Players -> SUBSET Queues]
      /\ \A p \in Players, q \in Queues :
            q \in SlotsWithout(R)[p] <=> q \in slots[p] /\ <<p, q>> \notin R
  BY <1>1 DEF SlotsWithout, TypeQueues
<1>5. ASSUME NEW b \in Bgs, NEW t \in Teams
      PROVE  Decreased(invited[b][t], Cardinality({r \in R : Awaited(r, b, t)})) \in Nat
  <2>1. IsFiniteSet({r \in R : Awaited(r, b, t)}) BY Finite
  <2>2. PICK n \in Nat : n = Cardinality({r \in R : Awaited(r, b, t)}) BY <2>1, FS_CardinalityType
  <2>3. invited[b][t] \in Nat BY <1>1 DEF TypeRest
  <2>4. Decreased(invited[b][t], n) \in Nat BY <2>3 DEF Decreased
  <2> QED BY <2>2, <2>4
<1>6. InvitedWithout(R) \in [Bgs -> [Teams -> Nat]] BY <1>5 DEF InvitedWithout
<1> QED BY <1>2, <1>3, <1>4, <1>6 DEF TypeQueues, Left

\* Who leaves the world leaves all of his queues.
LeavesAll(R) ==
    \A p \in Players : at[p] = "world" /\ at'[p] # "world" => \A q \in slots[p] : <<p, q>> \in R

LEMMA RemovalKeeps ==
    ASSUME QueueInv, NEW R \in SUBSET (Players \X Queues), TypeRest', AwayHasId',
           slots' = SlotsWithout(R), groups' = GroupsWithout(R), LeavesAll(R)
    PROVE  QueueInv'
<1>1. /\ TypeQueues(slots', groups') /\ Left(R, groups, groups')
      /\ \A p \in Players, q \in Queues : q \in slots'[p] <=> q \in slots[p] /\ <<p, q>> \notin R
  BY RemovedIs
<1>2. Match(at', slots', groups')
  <2> SUFFICES ASSUME NEW q \in Queues
               PROVE  /\ Queue(groups'[q])
                      /\ \A p \in Players : /\ q \in slots'[p] <=> p \in In(groups'[q])
                                            /\ q \in slots'[p] => at'[p] = "world"
    BY DEF Match
  <2>1. LeftBy(R, q, groups[q], groups'[q]) BY <1>1 DEF Left
  <2>2. Queue(groups'[q]) BY <2>1 DEF LeftBy
  <2>3. ASSUME NEW p \in Players PROVE q \in slots'[p] <=> p \in In(groups'[q])
    <3>1. p \in In(groups'[q]) <=> p \in In(groups[q]) /\ <<p, q>> \notin R BY <2>1 DEF LeftBy
    <3> QED BY <1>1, <3>1, QueueIs
  <2>4. ASSUME NEW p \in Players, q \in slots'[p] PROVE at'[p] = "world"
    <3>1. q \in slots[p] /\ <<p, q>> \notin R BY <1>1, <2>4
    <3>2. at[p] = "world" BY <3>1, QueueIs
    <3> QED BY <3>1, <3>2 DEF LeavesAll
  <2> QED BY <2>2, <2>3, <2>4
<1> QED BY <1>1, <1>2, QueueInvIs

\* The players P, who are in none of the groups that are left, queue for q.
LEMMA JoinKeeps ==
    ASSUME QueueInv, NEW R \in SUBSET (Players \X Queues), NEW q \in Queues, NEW x \in Group,
           x.bg = None, TypeRest', at' = at, mine' = mine,
           groups' = [GroupsWithout(R) EXCEPT ![q] = Append(@, x)],
           slots' = [p \in Players |-> SlotsWithout(R)[p] \cup (IF p \in x.players THEN {q} ELSE {})],
           \A p \in x.players : at[p] = "world" /\ (q \in slots[p] => <<p, q>> \in R)
    PROVE  QueueInv'
<1>1. /\ TypeQueues(SlotsWithout(R), GroupsWithout(R)) /\ Left(R, groups, GroupsWithout(R))
      /\ \A p \in Players, k \in Queues :
            k \in SlotsWithout(R)[p] <=> k \in slots[p] /\ <<p, k>> \notin R
  BY RemovedIs
<1>2. PICK gs : gs = GroupsWithout(R)[q] OBVIOUS
<1>3. LeftBy(R, q, groups[q], gs) BY <1>1, <1>2 DEF Left
<1>4. Queue(gs) BY <1>3 DEF LeftBy
<1>5. x.players \subseteq Players BY GroupIs
<1>6. x.players \cap In(gs) = {}
  <2> SUFFICES ASSUME NEW p \in x.players, p \in In(gs) PROVE FALSE OBVIOUS
  <2>1. p \in In(groups[q]) /\ <<p, q>> \notin R BY <1>3, <1>5 DEF LeftBy
  <2> QED BY <1>5, <2>1, QueueIs
<1>7. PICK r : r = Append(gs, x) OBVIOUS
<1>8. Queue(r) /\ In(r) = In(gs) \cup x.players BY <1>4, <1>6, <1>7, AppendQueue
<1>9. groups'[q] = r /\ \A k \in Queues \ {q} : groups'[k] = GroupsWithout(R)[k]
  BY <1>1, <1>2, <1>7 DEF TypeQueues
<1>10. groups' \in [Queues -> Seq(Group)]
  <2>1. r \in Seq(Group) BY <1>8 DEF Queue
  <2> QED BY <1>1, <1>2, <1>7, <2>1 DEF TypeQueues
<1>11. slots' \in [Players -> SUBSET Queues] BY <1>1 DEF TypeQueues
<1>12. Match(at', slots', groups')
  <2> SUFFICES ASSUME NEW k \in Queues
               PROVE  /\ Queue(groups'[k])
                      /\ \A p \in Players : /\ k \in slots'[p] <=> p \in In(groups'[k])
                                            /\ k \in slots'[p] => at'[p] = "world"
    BY DEF Match
  <2>1. LeftBy(R, k, groups[k], GroupsWithout(R)[k]) BY <1>1 DEF Left
  <2>2. Queue(groups'[k]) BY <1>8, <1>9, <2>1 DEF LeftBy
  <2>3. ASSUME NEW p \in Players
        PROVE  p \in In(GroupsWithout(R)[k]) <=> k \in slots[p] /\ <<p, k>> \notin R
    <3>1. p \in In(GroupsWithout(R)[k]) <=> p \in In(groups[k]) /\ <<p, k>> \notin R
      BY <2>1 DEF LeftBy
    <3> QED BY <3>1, QueueIs
  <2>4. ASSUME NEW p \in Players
        PROVE  p \in In(groups'[k]) <=> p \in In(GroupsWithout(R)[k]) \/ (k = q /\ p \in x.players)
    BY <1>2, <1>8, <1>9
  <2>5. ASSUME NEW p \in Players
        PROVE  k \in slots'[p] <=> (k \in slots[p] /\ <<p, k>> \notin R) \/ (k = q /\ p \in x.players)
    BY <1>1
  <2>6. \A p \in Players : k \in slots[p] => at[p] = "world" BY QueueIs
  <2> QED BY <2>2, <2>3, <2>4, <2>5, <2>6
<1>13. AwayHasId' BY QueueInvIs DEF AwayHasId
<1> QED BY <1>10, <1>11, <1>12, <1>13, QueueInvIs DEF TypeQueues

-----------------------------------------------------------------------------
(* ... and what the actions do.                                            *)

\* The operands of a step's removal.
LEMMA SlotsOf ==
    ASSUME QueueInv, NEW p \in Players
    PROVE  {p} \X slots[p] \in SUBSET (Players \X Queues)
BY QueueIs

LEMMA CountWithoutType ==
    ASSUME TypeRest, NEW p \in Players, NEW count \in [Bgs -> [Teams -> Nat]]
    PROVE  CountWithout(p, count) \in [Bgs -> [Teams -> Nat]]
<1>1. mine[p] \in Bgs \cup {None} /\ side[p] \in Teams BY DEF TypeRest
<1>2. CASE mine[p] = None BY <1>2 DEF CountWithout
<1>3. CASE mine[p] # None
  <2>1. PICK b \in Bgs : b = mine[p] BY <1>1, <1>3
  <2>2. PICK t \in Teams : t = side[p] BY <1>1
  <2>3. count[b][t] \in Nat OBVIOUS
  <2>4. PICK n : n = Decreased(count[b][t], 1) OBVIOUS
  <2>5. n \in Nat BY <2>3, <2>4 DEF Decreased
  <2>6. CountWithout(p, count) = [count EXCEPT ![b][t] = n]
    BY <1>3, <2>1, <2>2, <2>4 DEF CountWithout
  <2> QED BY <2>5, <2>6
<1> QED BY <1>2, <1>3

LEMMA RemoveKeeps ==
    ASSUME QueueInv, NEW R \in SUBSET (Players \X Queues), RemovePlayers(R),
           UNCHANGED <<at, mine, side, status, kind>>,
           events' \subseteq events
    PROVE  QueueInv'
<1>1. PICK out : out = WithTeam(R) OBVIOUS
<1>2. out \in SUBSET (Players \X Queues) BY <1>1, TeamLeaves
<1>3. slots' = SlotsWithout(out) /\ groups' = GroupsWithout(out) /\ invited' = InvitedWithout(out)
  BY <1>1 DEF RemovePlayers
<1>4. invited' \in [Bgs -> [Teams -> Nat]] BY <1>2, <1>3, RemovedIs
<1>5. TypeRest' BY <1>4, QueueIs DEF TypeRest
<1>6. AwayHasId' BY QueueInvIs DEF AwayHasId
<1>7. LeavesAll(out) BY DEF LeavesAll
<1> QED BY <1>2, <1>3, <1>5, <1>6, <1>7, RemovalKeeps

\* Whoever queues is in the world and leaves the queue first.
MayQueue(R, P, q) == \A p \in P : at[p] = "world" /\ (q \in slots[p] => <<p, q>> \in R)

LEMMA RequeueKeeps ==
    ASSUME QueueInv, NEW R \in SUBSET (Players \X Queues), NEW P \in SUBSET Players, P # {},
           NEW q \in Queues, NEW list \in {"premade", "normal"}, NEW may,
           Requeue(R, P, q, list, may), may => MayQueue(R, P, q)
    PROVE  QueueInv'
<1>1. PICK out : out = WithTeam(R) OBVIOUS
<1>2. out \in SUBSET (Players \X Queues) /\ R \subseteq out BY <1>1, TeamLeaves
<1>3. invited' = InvitedWithout(out) /\ UNCHANGED <<at, mine, side, events, status, kind>>
  BY <1>1 DEF Requeue
<1>4. invited' \in [Bgs -> [Teams -> Nat]] BY <1>2, <1>3, RemovedIs
<1>5. TypeRest' BY <1>3, <1>4, QueueIs DEF TypeRest
<1>6. AwayHasId' BY <1>3, QueueInvIs DEF AwayHasId
<1>7. CASE ~may
  <2>1. groups' = GroupsWithout(out) /\ slots' = SlotsWithout(out) BY <1>1, <1>7 DEF Requeue
  <2>2. LeavesAll(out) BY <1>3 DEF LeavesAll
  <2> QED BY <1>2, <1>5, <1>6, <2>1, <2>2, RemovalKeeps
<1>8. CASE may
  <2>0. TeamOf[CHOOSE p \in P : TRUE] \in Teams BY BgAssumption DEF Teams
  <2>1. PICK t \in Teams : t = TeamOf[CHOOSE p \in P : TRUE] BY <2>0
  <2>2. PICK x : x = NewGroup(P, list, t) OBVIOUS
  <2>3. x \in Group /\ x.players = P /\ x.bg = None BY <2>2, BgAssumption DEF NewGroup, Group
  <2>4. groups' = [GroupsWithout(out) EXCEPT ![q] = Append(@, x)] BY <1>1, <1>8, <2>1, <2>2 DEF Requeue
  <2>5. slots' = [p \in Players |-> SlotsWithout(out)[p] \cup (IF p \in x.players THEN {q} ELSE {})]
    BY <1>1, <1>8, <2>3 DEF Requeue
  <2>6. \A p \in x.players : at[p] = "world" /\ (q \in slots[p] => <<p, q>> \in out)
    BY <1>2, <1>8, <2>3 DEF MayQueue
  <2> QED BY <1>2, <1>3, <1>5, <2>3, <2>4, <2>5, <2>6, JoinKeeps
<1> QED BY <1>7, <1>8

\* Who has no battleground and has not logged out is in the world.
LEMMA InWorld ==
    ASSUME QueueInv, NEW p \in Players, at[p] # "off", mine[p] = None
    PROVE  at[p] = "world"
<1>1. at[p] \in {"off", "world", "port", "bg"} BY QueueIs DEF TypeRest
<1>2. at[p] \in {"port", "bg"} => mine[p] # None BY QueueInvIs DEF AwayHasId
<1> QED BY <1>1, <1>2

LEMMA PartyIs ==
    ASSUME NEW P \in Parties, NEW l \in P
    PROVE  P \in SUBSET Players /\ P # {} /\ l \in Players
BY BgAssumption

LEMMA GivenUpIs ==
    ASSUME QueueInv, NEW P \in SUBSET Players, NEW l, NEW q
    PROVE  /\ GivenUp(P, l, q) \in SUBSET (Players \X Queues)
           /\ \A p \in P, k \in Queues : <<p, k>> \in GivenUp(P, l, q) <=> k \in slots[p] \ (slots[l] \ {q})
BY DEF GivenUp

\* A party of which nobody is offline or has a battleground.
LEMMA PartyMayQueue ==
    ASSUME QueueInv, NEW P \in SUBSET Players, NEW l, NEW q \in Queues,
           {p \in P : at[p] # "off"} = P, \A p \in P : mine[p] = None
    PROVE  MayQueue(GivenUp(P, l, q), P, q)
<1> SUFFICES ASSUME NEW p \in P
             PROVE  at[p] = "world" /\ (q \in slots[p] => <<p, q>> \in GivenUp(P, l, q))
  BY DEF MayQueue
<1>1. at[p] # "off" /\ mine[p] = None /\ p \in Players OBVIOUS
<1>2. at[p] = "world" BY <1>1, InWorld
<1> QED BY <1>2, GivenUpIs

\* A step in which players leave queues and may queue again: what all the
\* handlers that queue come to.
Requeues ==
    \E R \in SUBSET (Players \X Queues), P \in SUBSET Players, q \in Queues,
       list \in {"premade", "normal"}, may \in BOOLEAN :
        /\ P # {} /\ Requeue(R, P, q, list, may)
        /\ may => MayQueue(R, P, q) /\ (q \in Arenas => Cardinality(P) = ArenaSize)

LEMMA RequeuesKeep ==
    ASSUME QueueInv, Requeues
    PROVE  QueueInv'
<1>1. PICK R \in SUBSET (Players \X Queues), P \in SUBSET Players, q \in Queues,
           list \in {"premade", "normal"}, may \in BOOLEAN :
              P # {} /\ Requeue(R, P, q, list, may) /\ (may => MayQueue(R, P, q))
  BY DEF Requeues
<1> QED BY <1>1, RequeueKeeps

LEMMA JoinRequeues ==
    ASSUME QueueInv, NEW p \in Players, NEW q \in Queues, NEW ok \in BOOLEAN, Join(p, q, ok)
    PROVE  Requeues
<1>1. PICK R : R = {p} \X (slots[p] \cap {q}) OBVIOUS
<1>2. R \in SUBSET (Players \X Queues) BY <1>1
<1>3. PICK P : P = {p} OBVIOUS
<1>4. P \in SUBSET Players /\ P # {} BY <1>3
<1>5. PICK may \in BOOLEAN : may = (ok /\ mine[p] = None /\ slots[p] \cap Arenas = {}) OBVIOUS
<1>6. Requeue(R, P, q, "normal", may) /\ at[p] = "world" /\ q \in BgQueues BY <1>1, <1>3, <1>5 DEF Join
<1>7. MayQueue(R, P, q) BY <1>1, <1>3, <1>6 DEF MayQueue
<1>8. q \notin Arenas BY <1>6, BgAssumption
<1> QED BY <1>2, <1>4, <1>6, <1>7, <1>8 DEF Requeues

LEMMA JoinGroupRequeues ==
    ASSUME QueueInv, NEW P \in Parties, NEW l \in P, NEW q \in Queues, NEW ok \in BOOLEAN,
           JoinGroup(P, l, q, ok)
    PROVE  Requeues
<1>1. P \in SUBSET Players /\ P # {} BY PartyIs
<1>2. PICK here : here = {p \in P : at[p] # "off"} OBVIOUS
<1>3. PICK R : R = GivenUp(here, l, q) OBVIOUS
<1>4. R \in SUBSET (Players \X Queues) BY <1>1, <1>2, <1>3, GivenUpIs
<1>5. PICK may \in BOOLEAN : may = (/\ ok /\ here = P /\ \A p \in P : mine[p] = None
                                    /\ slots[l] \cap Arenas = {})
  OBVIOUS
<1>6. PICK list : list = (IF Cardinality(P) >= MinPlayers THEN "premade" ELSE "normal") OBVIOUS
<1>7. list \in {"premade", "normal"} BY <1>6
<1>8. Requeue(R, P, q, list, may) /\ q \in BgQueues BY <1>2, <1>3, <1>5, <1>6 DEF JoinGroup
<1>9. may => MayQueue(R, P, q) BY <1>1, <1>2, <1>3, <1>5, PartyMayQueue
<1>10. q \notin Arenas BY <1>8, BgAssumption
<1> QED BY <1>1, <1>4, <1>7, <1>8, <1>9, <1>10 DEF Requeues

LEMMA JoinArenaRequeues ==
    ASSUME QueueInv, NEW P \in Parties, NEW l \in P, NEW q \in Queues, NEW ok \in BOOLEAN,
           JoinArena(P, l, q, ok)
    PROVE  Requeues
<1>1. P \in SUBSET Players /\ P # {} /\ l \in Players BY PartyIs
<1>2. PICK here : here = {p \in P : at[p] # "off"} OBVIOUS
<1>3. PICK R : R = GivenUp(here, l, q) OBVIOUS
<1>4. PICK again : again = {<<l, k>> : k \in slots[l] \cap {q}} OBVIOUS
<1>5. R \in SUBSET (Players \X Queues) BY <1>1, <1>2, <1>3, GivenUpIs
<1>6. again \in SUBSET (Players \X Queues) BY <1>1, <1>4
<1>7. PICK may \in BOOLEAN : may = (/\ ok /\ here = P /\ \A p \in P : mine[p] = None
                                    /\ Cardinality(P) = ArenaSize)
  OBVIOUS
<1>8. \/ Requeue(again, P, q, "premade", FALSE)
      \/ Requeue(R, P, q, "premade", may)
  BY <1>2, <1>3, <1>4, <1>7 DEF JoinArena
<1>9. may => MayQueue(R, P, q) BY <1>1, <1>2, <1>3, <1>7, PartyMayQueue
<1>10. CASE Requeue(again, P, q, "premade", FALSE) BY <1>1, <1>6, <1>10 DEF Requeues
<1>11. CASE Requeue(R, P, q, "premade", may) BY <1>1, <1>5, <1>7, <1>9, <1>11 DEF Requeues
<1> QED BY <1>8, <1>10, <1>11

LEMMA JoinStoppedRequeues ==
    ASSUME QueueInv, NEW P \in Parties, NEW l \in P, NEW q \in Queues, NEW before \in SUBSET P,
           JoinStopped(P, l, q, before)
    PROVE  Requeues
<1>1. P \in SUBSET Players /\ P # {} /\ l \in Players /\ before \in SUBSET Players BY PartyIs
<1>2. PICK R : R = GivenUp(before, l, q) \cup {<<l, k>> : k \in slots[l] \cap {q}} OBVIOUS
<1>3. R \in SUBSET (Players \X Queues) BY <1>1, <1>2, GivenUpIs
<1>4. Requeue(R, P, q, "normal", FALSE) BY <1>2 DEF JoinStopped
<1> QED BY <1>1, <1>3, <1>4 DEF Requeues

LEMMA LeaveQueueQueue ==
    ASSUME QueueInv, NEW p \in Players, NEW q \in Queues, LeaveQueue(p, q)
    PROVE  QueueInv'
<1>1. PICK R : R = {<<p, q>>} OBVIOUS
<1>2. R \in SUBSET (Players \X Queues) BY <1>1
<1>3. RemovePlayers(R) /\ UNCHANGED <<at, mine, side, events, status, kind>> BY <1>1 DEF LeaveQueue
<1> QED BY <1>2, <1>3, RemoveKeeps

LEMMA ExecuteRemoveQueue ==
    ASSUME QueueInv, NEW e \in events, ExecuteRemove(e)
    PROVE  QueueInv'
<1>1. e.player \in Players /\ e.queue \in Queues BY QueueIs DEF TypeRest
<1>2. PICK R : R = {<<e.player, e.queue>>} OBVIOUS
<1>3. R \in SUBSET (Players \X Queues) BY <1>1, <1>2
<1>4. events' \subseteq events /\ UNCHANGED <<at, mine, side, status, kind>> BY DEF ExecuteRemove
<1>5. RemovePlayers(R) \/ UNCHANGED <<slots, groups, invited>> BY <1>2 DEF ExecuteRemove
<1>6. CASE RemovePlayers(R) BY <1>3, <1>4, <1>6, RemoveKeeps
<1>7. CASE UNCHANGED <<slots, groups, invited>>
  <2>1. TypeRest' BY <1>4, <1>7, QueueIs DEF TypeRest
  <2>2. AwayHasId' BY <1>4, QueueInvIs DEF AwayHasId
  <2> QED BY <1>4, <1>7, <2>1, <2>2, SameQueues
<1> QED BY <1>5, <1>6, <1>7

LEMMA ChosenTeam ==
    ASSUME NEW x, NEW pools, \E t \in Teams : x \in pools[t]
    PROVE  /\ (CHOOSE t \in Teams : x \in pools[t]) \in Teams
           /\ x \in pools[CHOOSE t \in Teams : x \in pools[t]]
OBVIOUS

\* What an invitation makes of the groups gs: each is left alone, or has its
\* players in one of the pools.
LEMMA InvitedIs ==
    ASSUME NEW gs, Queue(gs), NEW b \in Bgs, NEW pools, NEW r, r = InvitedGroups(gs, b, pools)
    PROVE  /\ SameMembers(gs, r) /\ r \in Seq(Group) /\ Len(r) = Len(gs) /\ DOMAIN r = DOMAIN gs
           /\ \A i \in DOMAIN gs :
                 /\ r[i].players = gs[i].players
                 /\ (\A t \in Teams : gs[i].players \notin pools[t]) => r[i] = gs[i]
                 /\ (\E t \in Teams : gs[i].players \in pools[t]) =>
                       /\ r[i].bg = b /\ r[i].left = InviteTime /\ r[i].list = gs[i].list
                       /\ r[i].side \in Teams /\ gs[i].players \in pools[r[i].side]
<1>1. gs \in Seq(Group) BY DEF Queue
<1>2. DOMAIN r = DOMAIN gs /\ r = [i \in DOMAIN gs |-> r[i]] BY DEF InvitedGroups
<1>3. ASSUME NEW i \in DOMAIN gs
      PROVE  /\ r[i] \in Group /\ r[i].players = gs[i].players
             /\ (\A t \in Teams : gs[i].players \notin pools[t]) => r[i] = gs[i]
             /\ (\E t \in Teams : gs[i].players \in pools[t]) =>
                   /\ r[i].bg = b /\ r[i].left = InviteTime /\ r[i].list = gs[i].list
                   /\ r[i].side \in Teams /\ gs[i].players \in pools[r[i].side]
  <2>1. PICK g \in Group : g = gs[i] BY <1>1
  <2>2. CASE \A t \in Teams : g.players \notin pools[t]
    <3>1. r[i] = g BY <2>1, <2>2 DEF InvitedGroups
    <3> QED BY <2>1, <2>2, <3>1
  <2>3. CASE \E t \in Teams : g.players \in pools[t]
    <3>1. PICK t \in Teams : t = CHOOSE u \in Teams : g.players \in pools[u]
      BY <2>3, ChosenTeam
    <3>2. g.players \in pools[t] BY <2>3, <3>1, ChosenTeam
    <3>3. r[i] = [g EXCEPT !.bg = b, !.left = InviteTime, !.side = t]
      BY <2>1, <2>3, <3>1 DEF InvitedGroups
    <3>4. /\ r[i] \in Group /\ r[i].players = g.players /\ r[i].bg = b /\ r[i].left = InviteTime
          /\ r[i].list = g.list /\ r[i].side = t
      <4>1. PICK T : T = InviteTime OBVIOUS
      <4>2. T \in 0 .. InviteTime BY <4>1, BgAssumption
      <4>3. r[i] = [players |-> g.players, list |-> g.list, side |-> t, bg |-> b, left |-> T]
        BY <3>3, <4>1 DEF Group
      <4>4. r[i] \in Group BY <4>2, <4>3 DEF Group
      <4> QED BY <4>1, <4>3, <4>4
    <3> QED BY <2>1, <2>3, <3>2, <3>4
  <2> QED BY <2>1, <2>2, <2>3
<1>4. SameMembers(gs, r) /\ r \in Seq(Group) /\ Len(r) = Len(gs) BY <1>2, <1>3, SamePlayers
<1> QED BY <1>2, <1>3, <1>4

LEMMA SameTwice ==
    ASSUME NEW gs, NEW r, NEW s, SameMembers(gs, r), SameMembers(r, s)
    PROVE  SameMembers(gs, s)
BY DEF SameMembers

LEMMA SameItself ==
    ASSUME NEW gs, Queue(gs)
    PROVE  SameMembers(gs, gs)
BY DEF SameMembers

\* One queue changes, and keeps its members.
LEMMA OneQueueKeeps ==
    ASSUME QueueInv, TypeRest', slots' = slots, at' = at, mine' = mine, NEW q \in Queues, NEW r,
           SameMembers(groups[q], r), groups' = [groups EXCEPT ![q] = r]
    PROVE  QueueInv'
<1>1. groups \in [Queues -> Seq(Group)] BY QueueIs DEF TypeQueues
<1>2. r \in Seq(Group) BY DEF SameMembers, Queue
<1>3. groups' \in [Queues -> Seq(Group)] BY <1>1, <1>2
<1>4. ASSUME NEW k \in Queues PROVE SameMembers(groups[k], groups'[k])
  <2>1. CASE k = q
    <3>1. groups'[q] = r BY <1>1
    <3> QED BY <2>1, <3>1
  <2>2. CASE k # q
    <3>1. groups'[k] = groups[k] BY <1>1, <2>2
    <3>2. Queue(groups[k]) BY QueueIs
    <3> QED BY <3>1, <3>2, SameItself
  <2> QED BY <2>1, <2>2
<1> QED BY <1>3, <1>4, SameMembersKeeps

LEMMA CountedType ==
    ASSUME NEW count \in [Teams -> Nat], NEW pools
    PROVE  Counted(count, pools) \in [Teams -> Nat]
<1>1. \A t \in Teams : Cardinality(Reachable(pools[t])) \in Nat
  <2> SUFFICES ASSUME NEW t \in Teams PROVE Cardinality(Reachable(pools[t])) \in Nat OBVIOUS
  <2>1. PICK P : P = Reachable(pools[t]) OBVIOUS
  <2>2. P \in SUBSET Players BY <2>1 DEF Reachable
  <2> QED BY <2>1, <2>2, Finite
<1> QED BY <1>1 DEF Counted

LEMMA RemoveEventsType ==
    ASSUME NEW q \in Queues, NEW b \in Bgs, NEW pools
    PROVE  RemoveEvents(q, b, pools) \subseteq
              [player : Players, queue : Queues, bg : Bgs, left : 0 .. InviteTime]
<1>1. PICK P : P = UNION {Reachable(pools[t]) : t \in Teams} OBVIOUS
<1>2. P \subseteq Players BY <1>1 DEF Reachable
<1>3. RemoveEvents(q, b, pools) = [player : P, queue : {q}, bg : {b}, left : {InviteTime}]
  BY <1>1 DEF RemoveEvents
<1>4. InviteTime \in 0 .. InviteTime BY BgAssumption
<1> QED BY <1>2, <1>3, <1>4

LEMMA InviteKeeps ==
    ASSUME QueueInv, NEW q \in Queues, NEW b \in Bgs, NEW gs, NEW count \in [Teams -> Nat], NEW pools,
           gs = groups[q], Invite(q, b, gs, count, pools),
           status' \in [Bgs -> {"none", "join", "progress", "leave"}],
           kind' \in [Bgs -> Queues \cup {None}]
    PROVE  QueueInv'
<1>1. PICK r : r = InvitedGroups(gs, b, pools) OBVIOUS
<1>2. Queue(gs) BY QueueIs
<1>3. SameMembers(groups[q], r) BY <1>1, <1>2, InvitedIs
<1>4. PICK c \in [Teams -> Nat] : c = Counted(count, pools) BY CountedType
<1>5. /\ groups' = [groups EXCEPT ![q] = r] /\ invited' = [invited EXCEPT ![b] = c]
      /\ events' = events \cup RemoveEvents(q, b, pools)
      /\ UNCHANGED <<at, slots, mine, side>>
  BY <1>1, <1>4 DEF Invite
<1>6. TypeRest'
  <2>1. TypeRest BY QueueIs
  <2>2. events' \subseteq [player : Players, queue : Queues, bg : Bgs, left : 0 .. InviteTime]
    BY <1>5, <2>1, RemoveEventsType DEF TypeRest
  <2> QED BY <1>5, <2>1, <2>2 DEF TypeRest
<1> QED BY <1>3, <1>5, <1>6, OneQueueKeeps

LEMMA CreateType ==
    ASSUME TypeRest, NEW q \in Queues, NEW b \in Bgs, Create(q, b)
    PROVE  /\ status' \in [Bgs -> {"none", "join", "progress", "leave"}]
           /\ kind' \in [Bgs -> Queues \cup {None}]
BY DEF TypeRest, Create

LEMMA NobodyType == Nobody \in [Teams -> Nat]
BY DEF Nobody

LEMMA FillQueue ==
    ASSUME QueueInv, NEW q \in Queues, NEW b \in Bgs, FillBattleground(q, b)
    PROVE  QueueInv'
<1>1. TypeRest BY QueueIs
<1>2. PICK gs : gs = groups[q] OBVIOUS
<1>3. PICK count \in [Teams -> Nat] : count = invited[b] BY <1>1 DEF TypeRest
<1>4. PICK pools : Invite(q, b, gs, count, pools) /\ UNCHANGED <<status, kind>>
  BY <1>2, <1>3 DEF FillBattleground
<1>5. /\ status' \in [Bgs -> {"none", "join", "progress", "leave"}]
      /\ kind' \in [Bgs -> Queues \cup {None}]
  BY <1>1, <1>4 DEF TypeRest
<1> QED BY <1>2, <1>4, <1>5, InviteKeeps

LEMMA CreateNormalQueue ==
    ASSUME QueueInv, NEW q \in Queues, NEW b \in Bgs, CreateNormal(q, b)
    PROVE  QueueInv'
<1>1. PICK gs : gs = groups[q] OBVIOUS
<1>2. PICK count \in [Teams -> Nat] : count = Nobody BY NobodyType
<1>3. PICK pools : Invite(q, b, gs, count, pools) /\ Create(q, b)
  BY <1>1, <1>2 DEF CreateNormal
<1> QED BY <1>1, <1>3, InviteKeeps, CreateType, QueueIs

LEMMA CreateArenaQueue ==
    ASSUME QueueInv, NEW q \in Queues, NEW b \in Bgs, NEW i, NEW j, CreateArena(q, b, i, j)
    PROVE  QueueInv'
<1>1. PICK gs : gs = groups[q] OBVIOUS
<1>2. PICK count \in [Teams -> Nat] : count = Nobody BY NobodyType
<1>3. PICK pools : Invite(q, b, gs, count, pools) /\ Create(q, b)
  BY <1>1, <1>2 DEF CreateArena
<1> QED BY <1>1, <1>3, InviteKeeps, CreateType, QueueIs

LEMMA CreatePremadeQueue ==
    ASSUME QueueInv, NEW q \in Queues, NEW b \in Bgs, CreatePremade(q, b)
    PROVE  QueueInv'
<1>1. TypeRest /\ Queue(groups[q]) BY QueueIs
<1>2. PICK first : first = [t \in Teams |-> Premade(q, t)] OBVIOUS
<1>3. PICK gs : gs = InvitedGroups(groups[q], b, first) OBVIOUS
<1>4. PICK count \in [Teams -> Nat] : count = Counted(Nobody, first) BY NobodyType, CountedType
<1>5. PICK then : then = Fill(gs, [t \in Teams |-> FreeSlots("join", count, Nobody, t)]) OBVIOUS
<1>6. PICK r : r = InvitedGroups(gs, b, then) OBVIOUS
<1>7. PICK c \in [Teams -> Nat] : c = Counted(count, then) BY CountedType
<1>8. /\ Create(q, b) /\ groups' = [groups EXCEPT ![q] = r] /\ invited' = [invited EXCEPT ![b] = c]
      /\ events' = events \cup RemoveEvents(q, b, first) \cup RemoveEvents(q, b, then)
      /\ UNCHANGED <<at, slots, mine, side>>
  BY <1>2, <1>3, <1>4, <1>5, <1>6, <1>7 DEF CreatePremade
<1>9. SameMembers(groups[q], gs) BY <1>1, <1>3, InvitedIs
<1>10. Queue(gs) BY <1>9 DEF SameMembers
<1>11. SameMembers(gs, r) BY <1>6, <1>10, InvitedIs
<1>12. SameMembers(groups[q], r) BY <1>9, <1>11, SameTwice
<1>13. TypeRest'
  <2>1. events' \subseteq [player : Players, queue : Queues, bg : Bgs, left : 0 .. InviteTime]
    BY <1>1, <1>8, RemoveEventsType DEF TypeRest
  <2> QED BY <1>1, <1>8, <2>1, CreateType DEF TypeRest
<1> QED BY <1>8, <1>12, <1>13, OneQueueKeeps

\* A group is moved to the front and stays what it is to its players.
ToFront(gs, i, x, r) ==
    \E e \in [DOMAIN r -> DOMAIN gs] :
        /\ \A k \in DOMAIN gs : \E j \in DOMAIN r : e[j] = k
        /\ \A j \in DOMAIN r : r[j] = IF e[j] = i THEN x ELSE gs[e[j]]

LEMMA FrontIs ==
    ASSUME NEW gs, Queue(gs), NEW i \in DOMAIN gs, NEW x \in Group, x.players = gs[i].players,
           NEW r, r = <<x>> \o RemoveAt(gs, i)
    PROVE  SameMembers(gs, r) /\ r \in Seq(Group) /\ ToFront(gs, i, x, r)
<1>1. gs \in Seq(Group) /\ OneGroup(gs) BY DEF Queue
<1>2. PICK n \in Nat : n = Len(gs) /\ DOMAIN gs = 1 .. n BY <1>1
<1>3. i \in 1 .. n BY <1>2
<1>4. PICK u : u = SubSeq(gs, 1, i - 1) OBVIOUS
<1>5. u \in Seq(Group) /\ Len(u) = i - 1 /\ \A j \in 1 .. (i - 1) : u[j] = gs[j]
  BY <1>1, <1>2, <1>3, <1>4
<1>6. PICK v : v = SubSeq(gs, i + 1, Len(gs)) OBVIOUS
<1>7. v \in Seq(Group) /\ Len(v) = n - i /\ \A j \in 1 .. (n - i) : v[j] = gs[i + j]
  BY <1>1, <1>2, <1>3, <1>6
<1>8. RemoveAt(gs, i) = u \o v BY <1>4, <1>6 DEF RemoveAt
<1>9. PICK w : w = u \o v OBVIOUS
<1>10. /\ w \in Seq(Group) /\ Len(w) = n - 1
       /\ \A j \in 1 .. (n - 1) : w[j] = IF j < i THEN gs[j] ELSE gs[j + 1]
  <2>0. PICK a \in Nat, c \in Nat : a = i - 1 /\ c = n - i BY <1>2, <1>3
  <2>1. w \in Seq(Group) /\ Len(w) = n - 1
    <3>1. u \in Seq(Group) /\ v \in Seq(Group) /\ Len(u) = i - 1 /\ Len(v) = n - i BY <1>5, <1>7
    <3>02. w \in Seq(Group) BY <1>9, <3>1
    <3>2. w \in Seq(Group) /\ Len(w) = Len(u) + Len(v) BY <1>9, <3>1, <3>02, ConcatProperties
    <3>3. i - 1 + (n - i) = n - 1 BY <1>2, <1>3
    <3> QED BY <3>1, <3>2, <3>3
  <2>2. \A j \in 1 .. (n - 1) : j < i => w[j] = u[j] BY <1>3, <1>5, <1>7, <1>9
  <2>3. ASSUME NEW j \in 1 .. (n - 1), ~ (j < i) PROVE w[j] = v[j - (i - 1)]
    <3>0. Len(u) = a /\ Len(v) = c BY <1>5, <1>7, <2>0
    <3>01. n \in Nat /\ i \in Nat /\ a \in Nat /\ c \in Nat /\ a = i - 1 /\ c = n - i BY <1>3, <2>0
    <3>02. n - 1 = a + c BY <3>01
    <3>1. Len(u) = a /\ Len(v) = c /\ n - 1 = a + c BY <3>0, <3>02
    <3>2. j \in 1 .. (a + c) /\ ~ (j <= a) BY <1>3, <2>0, <2>3, <3>1
    <3>3. w[j] = v[j - a] BY <1>5, <1>7, <1>9, <3>1, <3>2
    <3> QED BY <2>0, <3>3
  <2>4. \A j \in 1 .. (n - 1) : j < i => j \in 1 .. (i - 1) BY <1>3
  <2>5. \A j \in 1 .. (n - 1) : ~ (j < i) => j - (i - 1) \in 1 .. (n - i) /\ i + (j - (i - 1)) = j + 1
    BY <1>3
  <2> QED BY <1>5, <1>7, <2>1, <2>2, <2>3, <2>4, <2>5
<1>11. /\ r \in Seq(Group) /\ DOMAIN r = 1 .. n /\ r[1] = x
       /\ \A j \in 2 .. n : r[j] = w[j - 1]
  BY <1>2, <1>3, <1>8, <1>9, <1>10
<1>12. PICK e : e = [j \in 1 .. n |-> IF j = 1 THEN i ELSE IF j <= i THEN j - 1 ELSE j] OBVIOUS
<1>13. e \in [DOMAIN r -> DOMAIN gs] BY <1>2, <1>3, <1>11, <1>12
<1>14. \A j, k \in DOMAIN r : e[j] = e[k] => j = k BY <1>3, <1>11, <1>12
<1>15. ASSUME NEW k \in DOMAIN gs PROVE \E j \in DOMAIN r : e[j] = k
  <2>1. k \in 1 .. n BY <1>2
  <2>2. CASE k = i
    <3>1. 1 \in 1 .. n /\ e[1] = i BY <1>3, <1>12
    <3> QED BY <1>11, <2>2, <3>1
  <2>3. CASE k < i
    <3>1. k + 1 \in 1 .. n /\ e[k + 1] = k BY <1>3, <1>12, <2>1, <2>3
    <3> QED BY <1>11, <3>1
  <2>4. CASE k > i
    <3>1. e[k] = k BY <1>3, <1>12, <2>1, <2>4
    <3> QED BY <1>11, <2>1, <3>1
  <2> QED BY <1>3, <2>1, <2>2, <2>3, <2>4
<1>16. ASSUME NEW j \in DOMAIN r PROVE r[j] = IF e[j] = i THEN x ELSE gs[e[j]]
  <2>1. j \in 1 .. n BY <1>11
  <2>2. CASE j = 1
    <3>1. e[j] = i BY <1>12, <2>1, <2>2
    <3> QED BY <1>11, <2>2, <3>1
  <2>3. CASE j # 1
    <3>1. j \in 2 .. n /\ j - 1 \in 1 .. (n - 1) BY <1>2, <2>1, <2>3
    <3>2. r[j] = IF j - 1 < i THEN gs[j - 1] ELSE gs[j - 1 + 1] BY <1>10, <1>11, <3>1
    <3>3. e[j] = IF j <= i THEN j - 1 ELSE j BY <1>12, <2>1, <2>3
    <3>4. CASE j <= i
      <4>1. e[j] = j - 1 /\ j - 1 < i /\ j - 1 # i BY <1>3, <3>1, <3>3, <3>4
      <4> QED BY <3>2, <4>1
    <3>5. CASE ~ (j <= i)
      <4>1. e[j] = j /\ ~ (j - 1 < i) /\ j # i /\ j - 1 + 1 = j BY <1>3, <3>1, <3>3, <3>5
      <4> QED BY <3>2, <4>1
    <3> QED BY <3>4, <3>5
  <2> QED BY <2>2, <2>3
<1>17. \A j \in DOMAIN r : r[j].players = gs[e[j]].players BY <1>16
<1>18. OneGroup(r)
  <2> SUFFICES ASSUME NEW p \in Players, NEW j \in DOMAIN r, NEW k \in DOMAIN r,
                      p \in r[j].players \cap r[k].players
               PROVE  j = k
    BY DEF OneGroup
  <2>1. e[j] \in DOMAIN gs /\ e[k] \in DOMAIN gs BY <1>13
  <2>2. p \in gs[e[j]].players \cap gs[e[k]].players BY <1>17
  <2>3. e[j] = e[k] BY <1>1, <2>1, <2>2 DEF OneGroup
  <2> QED BY <1>14, <2>3
<1>19. ASSUME NEW p \in Players PROVE p \in In(r) <=> p \in In(gs)
  <2>1. p \in In(r) <=> \E j \in DOMAIN r : p \in r[j].players BY <1>11, InIs
  <2>2. p \in In(gs) <=> \E k \in DOMAIN gs : p \in gs[k].players BY <1>1, InIs
  <2>3. \A j \in DOMAIN r : e[j] \in DOMAIN gs /\ r[j].players = gs[e[j]].players BY <1>13, <1>17
  <2>4. ASSUME NEW j \in DOMAIN r, p \in r[j].players PROVE p \in In(gs) BY <2>2, <2>3, <2>4
  <2>5. ASSUME NEW k \in DOMAIN gs, p \in gs[k].players PROVE p \in In(r)
    <3>1. PICK j \in DOMAIN r : e[j] = k BY <1>15
    <3> QED BY <2>1, <2>3, <2>5, <3>1
  <2> QED BY <2>1, <2>2, <2>4, <2>5
<1> QED BY <1>11, <1>13, <1>15, <1>16, <1>18, <1>19 DEF SameMembers, Queue, ToFront

LEMMA MoveQueue ==
    ASSUME QueueInv, NEW q \in Queues, NEW i \in DOMAIN groups[q], MoveToNormal(q, i)
    PROVE  QueueInv'
<1>1. PICK gs : gs = groups[q] OBVIOUS
<1>2. Queue(gs) BY <1>1, QueueIs
<1>3. gs[i] \in Group BY <1>1, QueueIs
<1>4. PICK x : x = [gs[i] EXCEPT !.list = "normal"] OBVIOUS
<1>5. x \in Group /\ x.players = gs[i].players BY <1>3, <1>4 DEF Group
<1>6. PICK r : r = <<x>> \o RemoveAt(gs, i) OBVIOUS
<1>7. SameMembers(gs, r) BY <1>1, <1>2, <1>5, <1>6, FrontIs
<1>8. groups' = [groups EXCEPT ![q] = r]
  <2>1. groups \in [Queues -> Seq(Group)] BY QueueIs DEF TypeQueues
  <2> QED BY <1>1, <1>4, <1>6, <2>1 DEF MoveToNormal
<1>9. UNCHANGED <<at, slots, mine, side, events, status, kind, invited>> BY DEF MoveToNormal
<1>10. TypeRest' BY <1>9, QueueIs DEF TypeRest
<1> QED BY <1>1, <1>7, <1>8, <1>9, <1>10, OneQueueKeeps

LEMMA TickQueue ==
    ASSUME QueueInv, Tick
    PROVE  QueueInv'
<1>1. TypeRest /\ TypeQueues(slots, groups) /\ \A q \in Queues : Queue(groups[q]) BY QueueIs
<1>2. ASSUME NEW q \in Queues, NEW r, r = groups'[q]
      PROVE  /\ DOMAIN r = DOMAIN groups[q] /\ r = [i \in DOMAIN groups[q] |-> r[i]]
             /\ \A i \in DOMAIN groups[q] :
                   r[i] = [groups[q][i] EXCEPT !.left = IF @ > 0 THEN @ - 1 ELSE 0]
  <2>1. r = [i \in DOMAIN groups[q] |-> [groups[q][i] EXCEPT !.left = IF @ > 0 THEN @ - 1 ELSE 0]]
    BY <1>2 DEF Tick
  <2> QED BY <2>1
<1>3. ASSUME NEW g \in Group, NEW x, x = [g EXCEPT !.left = IF @ > 0 THEN @ - 1 ELSE 0]
      PROVE  x \in Group /\ x.players = g.players
  <2>1. PICK n : n = IF g.left > 0 THEN g.left - 1 ELSE 0 OBVIOUS
  <2>2. n \in 0 .. InviteTime
    <3>1. g.left \in 0 .. InviteTime BY GroupIs
    <3> QED BY <2>1, <3>1, BgAssumption
  <2>3. x = [g EXCEPT !.left = n] BY <1>3, <2>1 DEF Group
  <2> QED BY <2>2, <2>3 DEF Group
<1>4. ASSUME NEW q \in Queues
      PROVE  SameMembers(groups[q], groups'[q]) /\ groups'[q] \in Seq(Group)
  <2>1. PICK gs : gs = groups[q] OBVIOUS
  <2>2. Queue(gs) /\ gs \in Seq(Group) BY <2>1, QueueIs
  <2>3. PICK r : r = groups'[q] OBVIOUS
  <2>4. /\ DOMAIN r = DOMAIN gs /\ r = [i \in DOMAIN gs |-> r[i]]
        /\ \A i \in DOMAIN gs : r[i] = [gs[i] EXCEPT !.left = IF @ > 0 THEN @ - 1 ELSE 0]
    BY <1>2, <2>1, <2>3
  <2>5. \A i \in DOMAIN gs : r[i] \in Group /\ r[i].players = gs[i].players
    BY <1>3, <2>2, <2>4, ElementOf
  <2>6. SameMembers(gs, r) /\ r \in Seq(Group) BY <2>2, <2>4, <2>5, SamePlayers
  <2> QED BY <2>1, <2>3, <2>6
<1>5. groups' \in [Queues -> Seq(Group)]
  <2>1. groups' = [q \in Queues |-> groups'[q]] BY DEF Tick
  <2> QED BY <1>4, <2>1
<1>6. UNCHANGED <<at, slots, mine, side, status, kind, invited>> BY DEF Tick
<1>7. TypeRest'
  <2>1. ASSUME NEW e \in events
        PROVE  [e EXCEPT !.left = @ - 1] \in
                  [player : Players, queue : Queues, bg : Bgs, left : 0 .. InviteTime]
    <3>1. e \in [player : Players, queue : Queues, bg : Bgs, left : 0 .. InviteTime] /\ e.left > 0
      BY <1>1 DEF TypeRest, Tick
    <3>2. e.left - 1 \in 0 .. InviteTime BY <3>1, BgAssumption
    <3> QED BY <3>1, <3>2
  <2>2. events' \subseteq [player : Players, queue : Queues, bg : Bgs, left : 0 .. InviteTime]
    BY <2>1 DEF Tick
  <2> QED BY <1>1, <1>6, <2>2 DEF TypeRest
<1> QED BY <1>4, <1>5, <1>6, <1>7, SameMembersKeeps

LEMMA AcceptQueue ==
    ASSUME QueueInv, NEW p \in Players, NEW q \in Queues, NEW goes \in BOOLEAN, Accept(p, q, goes)
    PROVE  QueueInv'
<1>1. TypeRest /\ groups[q] \in Seq(Group) /\ AwayHasId BY QueueIs, QueueInvIs
<1>2. PICK out : out = WithTeam({p} \X slots[p]) OBVIOUS
<1>3. out \in SUBSET (Players \X Queues) /\ {p} \X slots[p] \subseteq out
  BY <1>2, SlotsOf, TeamLeaves
<1>4. PICK inv \in [Bgs -> [Teams -> Nat]] : inv = InvitedWithout(out) BY <1>3, RemovedIs
<1>5. PICK g \in ToSet(groups[q]) :
         /\ at[p] = "world" /\ g.bg # None
         /\ slots' = SlotsWithout(out) /\ groups' = GroupsWithout(out)
         /\ invited' = [inv EXCEPT ![g.bg][g.side] = @ + 1]
         /\ mine' = [mine EXCEPT ![p] = g.bg] /\ side' = [side EXCEPT ![p] = g.side]
         /\ at' = [at EXCEPT ![p] = IF goes THEN "port" ELSE "world"]
         /\ UNCHANGED <<events, status, kind>>
  BY <1>2, <1>4 DEF Accept
<1>6. g \in Group BY <1>1, ElementOf
<1>7. PICK b \in Bgs : b = g.bg BY <1>5, <1>6, GroupIs
<1>8. PICK t \in Teams : t = g.side BY <1>6, GroupIs
<1>9. TypeRest'
  <2>1. inv[b][t] + 1 \in Nat BY <1>4
  <2>2. invited' = [inv EXCEPT ![b][t] = inv[b][t] + 1] BY <1>5, <1>7, <1>8
  <2>3. invited' \in [Bgs -> [Teams -> Nat]] BY <2>1, <2>2
  <2>4. at' \in [Players -> {"off", "world", "port", "bg"}] BY <1>1, <1>5 DEF TypeRest
  <2>5. mine' \in [Players -> Bgs \cup {None}] /\ side' \in [Players -> Teams]
    BY <1>1, <1>5, <1>7, <1>8 DEF TypeRest
  <2> QED BY <1>1, <1>5, <2>3, <2>4, <2>5 DEF TypeRest
<1>10. AwayHasId'
  <2> SUFFICES ASSUME NEW o \in Players, at'[o] \in {"port", "bg"} PROVE mine'[o] # None
    BY DEF AwayHasId
  <2>1. CASE o = p BY <1>1, <1>5, <2>1 DEF TypeRest
  <2>2. CASE o # p BY <1>1, <1>5, <2>2 DEF TypeRest, AwayHasId
  <2> QED BY <2>1, <2>2
<1>11. LeavesAll(out)
  <2> SUFFICES ASSUME NEW o \in Players, at[o] = "world", at'[o] # "world", NEW k \in slots[o]
               PROVE  <<o, k>> \in out
    BY DEF LeavesAll
  <2>1. o = p BY <1>1, <1>5 DEF TypeRest
  <2> QED BY <1>3, <2>1
<1> QED BY <1>3, <1>5, <1>9, <1>10, <1>11, RemovalKeeps

LEMMA LogoutQueue ==
    ASSUME QueueInv, NEW p \in Players, Logout(p)
    PROVE  QueueInv'
<1>1. TypeRest /\ AwayHasId BY QueueIs, QueueInvIs
<1>2. PICK out : out = WithTeam({p} \X slots[p]) OBVIOUS
<1>3. out \in SUBSET (Players \X Queues) /\ {p} \X slots[p] \subseteq out
  BY <1>2, SlotsOf, TeamLeaves
<1>4. PICK inv \in [Bgs -> [Teams -> Nat]] : inv = InvitedWithout(out) BY <1>3, RemovedIs
<1>5. /\ at' = [at EXCEPT ![p] = "off"] /\ mine' = [mine EXCEPT ![p] = None]
      /\ side' = [side EXCEPT ![p] = TeamOf[p]]
      /\ slots' = SlotsWithout(out) /\ groups' = GroupsWithout(out)
      /\ invited' = inv \/ invited' = CountWithout(p, inv)
      /\ UNCHANGED <<events, status, kind>>
  BY <1>2, <1>4 DEF Logout
<1>6. TypeRest'
  <2>1. CountWithout(p, inv) \in [Bgs -> [Teams -> Nat]] BY <1>1, CountWithoutType
  <2>2. invited' \in [Bgs -> [Teams -> Nat]] BY <1>5, <2>1
  <2>3. TeamOf[p] \in Teams BY BgAssumption DEF Teams
  <2> QED BY <1>1, <1>5, <2>2, <2>3 DEF TypeRest
<1>7. AwayHasId' BY <1>1, <1>5 DEF TypeRest, AwayHasId
<1>8. LeavesAll(out)
  <2> SUFFICES ASSUME NEW o \in Players, at[o] = "world", at'[o] # "world", NEW k \in slots[o]
               PROVE  <<o, k>> \in out
    BY DEF LeavesAll
  <2>1. o = p BY <1>1, <1>5 DEF TypeRest
  <2> QED BY <1>3, <2>1
<1> QED BY <1>3, <1>5, <1>6, <1>7, <1>8, RemovalKeeps

LEMMA ReturnQueue ==
    ASSUME QueueInv, NEW p \in Players, Return(p)
    PROVE  QueueInv'
<1>1. TypeRest /\ AwayHasId BY QueueIs, QueueInvIs
<1>2. CountWithout(p, invited) \in [Bgs -> [Teams -> Nat]] BY <1>1, CountWithoutType DEF TypeRest
<1>3. TeamOf[p] \in Teams BY BgAssumption DEF Teams
<1>4. TypeRest' BY <1>1, <1>2, <1>3 DEF TypeRest, Return
<1>5. AwayHasId' BY <1>1 DEF TypeRest, AwayHasId, Return
<1>6. /\ slots' = slots /\ groups' = groups
      /\ \A o \in Players : at[o] = "world" => at'[o] = "world"
  BY <1>1 DEF TypeRest, Return
<1> QED BY <1>4, <1>5, <1>6, SameQueues

LEMMA ArriveQueue ==
    ASSUME QueueInv, NEW p \in Players, Arrive(p)
    PROVE  QueueInv'
<1>1. TypeRest /\ AwayHasId BY QueueIs, QueueInvIs
<1>2. TypeRest' BY <1>1 DEF TypeRest, Arrive
<1>3. AwayHasId' BY <1>1 DEF TypeRest, AwayHasId, Arrive
<1>4. /\ slots' = slots /\ groups' = groups
      /\ \A o \in Players : at[o] = "world" => at'[o] = "world"
  BY <1>1 DEF TypeRest, Arrive
<1> QED BY <1>2, <1>3, <1>4, SameQueues

LEMMA LoginQueue ==
    ASSUME QueueInv, NEW p \in Players, Login(p)
    PROVE  QueueInv'
<1>1. TypeRest /\ AwayHasId BY QueueIs, QueueInvIs
<1>2. TypeRest' BY <1>1 DEF TypeRest, Login
<1>3. AwayHasId' BY <1>1 DEF TypeRest, AwayHasId, Login
<1>4. /\ slots' = slots /\ groups' = groups
      /\ \A o \in Players : at[o] = "world" => at'[o] = "world"
  BY <1>1 DEF TypeRest, Login
<1> QED BY <1>2, <1>3, <1>4, SameQueues

LEMMA ProcessLeaveQueue ==
    ASSUME QueueInv, NEW b \in Bgs, ProcessLeave(b)
    PROVE  QueueInv'
<1>1. TypeRest /\ AwayHasId BY QueueIs, QueueInvIs
<1>2. \A p \in Players : TeamOf[p] \in Teams BY BgAssumption DEF Teams
<1>3. ASSUME NEW t \in Teams PROVE Decreased(invited[b][t], Entered(b)[t]) \in Nat
  <2>1. PICK P : P = {p \in Inside(b) : side[p] = t} OBVIOUS
  <2>2. P \in SUBSET Players BY <2>1 DEF Inside
  <2>3. PICK n \in Nat : n = Cardinality(P) BY <2>2, Finite
  <2>4. Entered(b)[t] = n BY <2>1, <2>3 DEF Entered
  <2>5. invited[b][t] \in Nat BY <1>1 DEF TypeRest
  <2>6. Decreased(invited[b][t], n) \in Nat BY <2>5 DEF Decreased
  <2> QED BY <2>4, <2>6
<1>4. PICK c : c = [t \in Teams |-> Decreased(invited[b][t], Entered(b)[t])] OBVIOUS
<1>5. c \in [Teams -> Nat] BY <1>3, <1>4
<1>6. invited' = [invited EXCEPT ![b] = c] BY <1>1, <1>4 DEF ProcessLeave, TypeRest
<1>7. TypeRest' BY <1>1, <1>2, <1>5, <1>6 DEF TypeRest, ProcessLeave
<1>8. AwayHasId' BY <1>1 DEF TypeRest, AwayHasId, ProcessLeave, Inside
<1>9. /\ slots' = slots /\ groups' = groups
      /\ \A o \in Players : at[o] = "world" => at'[o] = "world"
  BY DEF ProcessLeave
<1> QED BY <1>7, <1>8, <1>9, SameQueues

LEMMA DeleteEmptyQueue ==
    ASSUME QueueInv, NEW b \in Bgs, DeleteEmpty(b)
    PROVE  QueueInv'
<1>1. TypeRest /\ AwayHasId BY QueueIs, QueueInvIs
<1>2. TypeRest' BY <1>1 DEF TypeRest, DeleteEmpty
<1>3. AwayHasId' BY <1>1 DEF AwayHasId, DeleteEmpty
<1> QED BY <1>2, <1>3, SameQueues DEF DeleteEmpty

LEMMA ProceedQueue ==
    ASSUME QueueInv, NEW b \in Bgs, NEW st \in {"progress", "leave"}, Proceed(b, st)
    PROVE  QueueInv'
<1>1. TypeRest /\ AwayHasId BY QueueIs, QueueInvIs
<1>2. status' = [status EXCEPT ![b] = st] /\ UNCHANGED <<at, mine, side, events, kind, invited>>
  BY DEF Proceed
<1>3. TypeRest' BY <1>1, <1>2 DEF TypeRest
<1>4. AwayHasId' BY <1>1, <1>2 DEF AwayHasId
<1> QED BY <1>3, <1>4, SameQueues DEF Proceed

-----------------------------------------------------------------------------
(* The theorem.                                                            *)

LEMMA QueueInitially == Init => QueueInv
<1> SUFFICES ASSUME Init PROVE QueueInv OBVIOUS
<1>1. TeamOf \in [Players -> Teams] BY BgAssumption DEF Teams
<1>2. TypeRest BY <1>1 DEF Init, TypeRest
<1>3. PICK e : e = <<>> OBVIOUS
<1>4. e \in Seq(Group) /\ DOMAIN e = {} BY <1>3
<1>5. TypeQueues(slots, groups) BY <1>3, <1>4 DEF Init, TypeQueues
<1>6. Queue(e) BY <1>4 DEF Queue, OneGroup
<1>7. \A p \in Players : p \notin In(e) BY <1>4, InIs
<1>8. Match(at, slots, groups) BY <1>3, <1>6, <1>7 DEF Init, Match
<1>9. AwayHasId BY DEF Init, AwayHasId
<1> QED BY <1>2, <1>5, <1>8, <1>9, QueueInvIs

LEMMA QueueingIs ==
    ASSUME QueueInv, Queueing
    PROVE  Requeues \/ \E p \in Leavers, q \in Queues : LeaveQueue(p, q)
<1>1. CASE \E p \in Players, q \in Queues, ok \in BOOLEAN : Asked({p}, q) /\ Join(p, q, ok)
  BY <1>1, JoinRequeues
<1>2. CASE \E P \in Parties, q \in Queues, ok \in BOOLEAN :
              \E l \in P : Asked(P, q) /\ JoinGroup(P, l, q, ok)
  BY <1>2, JoinGroupRequeues
<1>3. CASE \E P \in Parties, q \in Queues, ok \in BOOLEAN :
              \E l \in P : Asked(P, q) /\ JoinArena(P, l, q, ok)
  BY <1>3, JoinArenaRequeues
<1>4. CASE \E P \in Parties, q \in Queues : \E l \in P, before \in SUBSET P :
              Asked(P, q) /\ JoinStopped(P, l, q, before)
  BY <1>4, JoinStoppedRequeues
<1> QED BY <1>1, <1>2, <1>3, <1>4 DEF Queueing

LEMMA MatchingKeeps ==
    ASSUME QueueInv, Matching
    PROVE  QueueInv'
<1>1. CASE \E q \in Queues, b \in Bgs : FillBattleground(q, b) BY <1>1, FillQueue
<1>2. CASE \E q \in Queues, b \in Bgs : CreatePremade(q, b) BY <1>2, CreatePremadeQueue
<1>3. CASE \E q \in Queues : \E i \in DOMAIN groups[q] : MoveToNormal(q, i) BY <1>3, MoveQueue
<1>4. CASE \E q \in Queues, b \in Bgs : CreateNormal(q, b) BY <1>4, CreateNormalQueue
<1>5. CASE \E q \in Queues, b \in Bgs : \E i, j \in DOMAIN groups[q] : CreateArena(q, b, i, j)
  BY <1>5, CreateArenaQueue
<1> QED BY <1>1, <1>2, <1>3, <1>4, <1>5 DEF Matching

LEMMA QueueStep == QueueInv /\ [Next]_vars => QueueInv'
<1> SUFFICES ASSUME QueueInv, [Next]_vars PROVE QueueInv' OBVIOUS
<1>0. Leavers \subseteq Players BY BgAssumption
<1>1. CASE Queueing BY <1>0, <1>1, QueueingIs, RequeuesKeep, LeaveQueueQueue
<1>2. CASE Matching BY <1>2, MatchingKeeps
<1>3. CASE \E p \in Players, q \in Queues : \E goes \in BOOLEAN : Accept(p, q, goes)
  BY <1>3, AcceptQueue
<1>4. CASE \E p \in Players : Arrive(p) BY <1>4, ArriveQueue
<1>5. CASE \E p \in Leavers : ArriveElsewhere(p) BY <1>0, <1>5, ReturnQueue DEF ArriveElsewhere
<1>6. CASE \E p \in Leavers : LeaveBattleground(p) BY <1>0, <1>6, ReturnQueue DEF LeaveBattleground
<1>7. CASE \E p \in Leavers : Logout(p) BY <1>0, <1>7, LogoutQueue
<1>8. CASE \E p \in Players : Login(p) BY <1>8, LoginQueue
<1>9. CASE \E e \in events : ExecuteRemove(e) BY <1>9, ExecuteRemoveQueue
<1>10. CASE Tick BY <1>10, TickQueue
<1>11. CASE \E b \in Bgs : DeleteEmpty(b) BY <1>11, DeleteEmptyQueue
<1>12. CASE \E b \in Bgs : \E st \in {"progress", "leave"} : Proceed(b, st) BY <1>12, ProceedQueue
<1>13. CASE \E b \in Bgs : ProcessLeave(b) BY <1>13, ProcessLeaveQueue
<1>14. CASE UNCHANGED vars
  <2>1. UNCHANGED <<at, slots, mine, side, groups, events, status, kind, invited>> BY <1>14 DEF vars
  <2>2. TypeRest' BY <2>1, QueueIs DEF TypeRest
  <2>3. AwayHasId' BY <2>1, QueueInvIs DEF AwayHasId
  <2> QED BY <2>1, <2>2, <2>3, SameQueues
<1> QED BY <1>1, <1>2, <1>3, <1>4, <1>5, <1>6, <1>7, <1>8, <1>9, <1>10, <1>11, <1>12, <1>13, <1>14
    DEF Next

LEMMA QueueAlways == Spec => []QueueInv
BY QueueInitially, QueueStep, PTL DEF Spec

\* The variables keep their types.
THEOREM TypesHold == Spec => []TypeOK
<1>1. QueueInv => TypeOK BY DEF QueueInv
<1> QED BY <1>1, QueueAlways, PTL

\* A player holds the id of a queue exactly when he waits in it, in one group
\* only, in the world, whatever is joined, left, matched, entered and logged
\* out in any order.
THEOREM QueuesMatchIds == Spec => []QueueMatches
<1>1. QueueInv => QueueMatches BY DEF QueueInv
<1> QED BY <1>1, QueueAlways, PTL

-----------------------------------------------------------------------------
(* An invitation stands for its whole time.                                *)

\* A player is in one group of a queue.
LEMMA InOne ==
    ASSUME NEW gs, Queue(gs), NEW g \in ToSet(gs), NEW h \in ToSet(gs), NEW p,
           p \in g.players, p \in h.players
    PROVE  g = h
<1>1. gs \in Seq(Group) /\ OneGroup(gs) BY DEF Queue
<1>2. PICK i \in DOMAIN gs : g = gs[i] BY <1>1, ElementOf
<1>3. PICK j \in DOMAIN gs : h = gs[j] BY <1>1, ElementOf
<1>4. p \in Players
  <2>1. g \in Group BY <1>1, ElementOf
  <2> QED BY <2>1, GroupIs
<1>5. i = j BY <1>1, <1>2, <1>3, <1>4 DEF OneGroup
<1> QED BY <1>2, <1>3, <1>5

\* Who leaves with an invited group was named himself.
LEMMA InvitedLeavesAlone ==
    ASSUME QueueInv, NEW R \in SUBSET (Players \X Queues), NEW q \in Queues,
           NEW g \in ToSet(groups[q]), g.bg # None, NEW p \in g.players, <<p, q>> \in WithTeam(R)
    PROVE  <<p, q>> \in R
<1>1. Queue(groups[q]) BY QueueIs
<1>2. SUFFICES ASSUME <<p, q>> \notin R PROVE FALSE OBVIOUS
<1>3. PICK h \in ToSet(groups[q]) : p \in h.players /\ h.bg = None BY <1>2 DEF WithTeam
<1>4. g = h BY <1>1, <1>3, InOne
<1> QED BY <1>3, <1>4

\* The step that executes an event leaves every standing invitation.
LEMMA ExecuteKeepsOthers ==
    ASSUME QueueInv, NEW e \in events, ExecuteRemove(e), NEW q \in Queues,
           NEW g \in ToSet(groups[q]), g.bg # None, g.left > 0
    PROVE  g \in ToSet(groups'[q])
<1>1. e.player \in Players /\ e.queue \in Queues BY QueueIs DEF TypeRest
<1>2. Queue(groups[q]) BY QueueIs
<1>3. CASE groups' = groups BY <1>3
<1>4. CASE /\ RemovePlayers({<<e.player, e.queue>>})
           /\ \E h \in ToSet(groups[e.queue]) : Holds(h, e.player, e.bg) /\ h.left = e.left
  <2>1. PICK R : R = {<<e.player, e.queue>>} OBVIOUS
  <2>2. R \in SUBSET (Players \X Queues) BY <1>1, <2>1
  <2>3. PICK out : out = WithTeam(R) OBVIOUS
  <2>4. out \in SUBSET (Players \X Queues) BY <2>2, <2>3, TeamLeaves
  <2>5. groups' = GroupsWithout(out) BY <1>4, <2>1, <2>3 DEF RemovePlayers
  <2>6. LeftBy(out, q, groups[q], groups'[q]) BY <2>4, <2>5, RemovedIs DEF Left
  <2>7. ASSUME NEW p \in g.players, <<p, q>> \in out PROVE FALSE
    <3>1. <<p, q>> \in R BY <2>2, <2>3, <2>7, InvitedLeavesAlone
    <3>2. p = e.player /\ q = e.queue BY <2>1, <3>1
    <3>3. PICK h \in ToSet(groups[q]) : p \in h.players /\ h.left = e.left
      BY <1>4, <3>2 DEF Holds
    <3>4. g = h BY <1>2, <3>3, InOne
    <3>5. e.left = 0 BY DEF ExecuteRemove
    <3> QED BY <3>3, <3>4, <3>5
  <2> QED BY <2>6, <2>7 DEF LeftBy
<1> QED BY <1>3, <1>4 DEF ExecuteRemove

\* No other step takes away an event that is due.
LEMMA DueStays ==
    ASSUME [Next]_vars, NEW e \in events, e.left = 0, e \notin events'
    PROVE  \E x \in events : ExecuteRemove(x)
<1>1. ASSUME NEW R, NEW P, NEW q, NEW list, NEW may, Requeue(R, P, q, list, may)
      PROVE  events' = events
  BY <1>1 DEF Requeue
<1>2. ~Queueing
  <2> SUFFICES ASSUME Queueing PROVE events' = events OBVIOUS
  <2>1. \A p, q, ok : Join(p, q, ok) => events' = events BY <1>1 DEF Join
  <2>2. \A P, l, q, ok : JoinGroup(P, l, q, ok) => events' = events BY <1>1 DEF JoinGroup
  <2>3. \A P, l, q, ok : JoinArena(P, l, q, ok) => events' = events BY <1>1 DEF JoinArena
  <2>4. \A P, l, q, before : JoinStopped(P, l, q, before) => events' = events
    BY <1>1 DEF JoinStopped
  <2>5. \A p, q : LeaveQueue(p, q) => events' = events BY DEF LeaveQueue
  <2> QED BY <2>1, <2>2, <2>3, <2>4, <2>5 DEF Queueing
<1>3. ~Matching
  <2> SUFFICES ASSUME Matching PROVE events \subseteq events' OBVIOUS
  <2>1. \A q, b, gs, count, pools : Invite(q, b, gs, count, pools) => events \subseteq events'
    BY DEF Invite
  <2>2. \A q, b : FillBattleground(q, b) => events \subseteq events' BY <2>1 DEF FillBattleground
  <2>3. \A q, b : CreatePremade(q, b) => events \subseteq events' BY DEF CreatePremade
  <2>4. \A q, i : MoveToNormal(q, i) => events \subseteq events' BY DEF MoveToNormal
  <2>5. \A q, b : CreateNormal(q, b) => events \subseteq events' BY <2>1 DEF CreateNormal
  <2>6. \A q, b, i, j : CreateArena(q, b, i, j) => events \subseteq events'
    BY <2>1 DEF CreateArena
  <2> QED BY <2>2, <2>3, <2>4, <2>5, <2>6 DEF Matching
<1>4. ~Tick BY DEF Tick
<1>5. ~ \E p \in Players, q \in Queues : \E goes \in BOOLEAN : Accept(p, q, goes) BY DEF Accept
<1>6. /\ ~ \E p \in Players : Arrive(p)
      /\ ~ \E p \in Leavers : ArriveElsewhere(p)
      /\ ~ \E p \in Leavers : LeaveBattleground(p)
      /\ ~ \E p \in Players : Login(p)
  BY DEF Arrive, ArriveElsewhere, LeaveBattleground, Return, Login
<1>7. ~ \E p \in Leavers : Logout(p) BY DEF Logout
<1>8. /\ ~ \E b \in Bgs : DeleteEmpty(b)
      /\ ~ \E b \in Bgs : \E st \in {"progress", "leave"} : Proceed(b, st)
      /\ ~ \E b \in Bgs : ProcessLeave(b)
  BY DEF DeleteEmpty, Proceed, ProcessLeave
<1>9. ~ UNCHANGED vars BY DEF vars
<1> QED BY <1>2, <1>3, <1>4, <1>5, <1>6, <1>7, <1>8, <1>9 DEF Next

\* An event that is due takes nobody with it whose own invitation has time
\* left: an earlier invitation's event finds the later one's time and stops.
THEOREM InvitationsStand == Spec => FullInviteTime
<1>1. QueueInv /\ [Next]_vars =>
         ((\E e \in events : e.left = 0 /\ e \notin events') =>
             \A q \in Queues : \A g \in ToSet(groups[q]) :
                (g.bg # None /\ g.left > 0) => g \in ToSet(groups'[q]))
  BY DueStays, ExecuteKeepsOthers
<1>2. QueueInv /\ [Next]_vars =>
         [(\E e \in events : e.left = 0 /\ e \notin events') =>
             \A q \in Queues : \A g \in ToSet(groups[q]) :
                (g.bg # None /\ g.left > 0) => g \in ToSet(groups'[q])]_vars
  BY <1>1
<1> QED BY <1>2, QueueAlways, PTL DEF Spec, FullInviteTime

-----------------------------------------------------------------------------
(* The counts.  Those a battleground expects, as a function of the parts   *)
(* of a state.                                                             *)

Exp(gs, mn, sd, b, t) ==
    {r \in Players \X Queues : r[1] \in Held(gs[r[2]], b, t)}
    \cup {<<p, None>> : p \in {o \in Players : mn[o] = b /\ sd[o] = t}}

\* The counts inv are enough for those expected, and st is "none" only for a
\* battleground that expects nobody.
Counts(inv, st, gs, mn, sd) ==
    \A b \in Bgs, t \in Teams :
        /\ Enough(inv[b][t], Exp(gs, mn, sd, b, t))
        /\ st[b] = "none" => Exp(gs, mn, sd, b, t) = {}

LEMMA ExpIs ==
    ASSUME NEW gs, NEW mn, NEW sd, NEW b, NEW t, NEW E, E = Exp(gs, mn, sd, b, t)
    PROVE  /\ \A p \in Players, q \in Queues : <<p, q>> \in E <=> p \in Held(gs[q], b, t)
           /\ \A p \in Players : <<p, None>> \in E <=> mn[p] = b /\ sd[p] = t
           /\ E \subseteq Players \X (Queues \cup {None})
           /\ IsFiniteSet(E) /\ Cardinality(E) \in Nat
<1>1. None \notin Queues BY BgAssumption DEF Queues
<1>2. \A p \in Players, q \in Queues : <<p, q>> \in E <=> p \in Held(gs[q], b, t) BY <1>1 DEF Exp
<1>3. \A p \in Players : <<p, None>> \in E <=> mn[p] = b /\ sd[p] = t BY <1>1 DEF Exp
<1>4. E \subseteq Players \X (Queues \cup {None}) BY DEF Exp
<1>5. IsFiniteSet(Queues \cup {None}) BY Finite, FS_AddElement
<1>6. IsFiniteSet(Players \X (Queues \cup {None})) BY <1>5, Finite, FS_Product
<1>7. IsFiniteSet(E) BY <1>4, <1>6, FS_Subset
<1> QED BY <1>2, <1>3, <1>4, <1>7, FS_CardinalityType

\* Two sets of such pairs are compared pair by pair.
LEMMA SamePairs ==
    ASSUME NEW E \in SUBSET (Players \X (Queues \cup {None})),
           NEW F \in SUBSET (Players \X (Queues \cup {None})),
           \A p \in Players, q \in Queues : <<p, q>> \in E <=> <<p, q>> \in F,
           \A p \in Players : <<p, None>> \in E <=> <<p, None>> \in F
    PROVE  E = F
<1>1. \A x \in Players \X (Queues \cup {None}) : x \in E <=> x \in F
  <2> SUFFICES ASSUME NEW p \in Players, NEW k \in Queues \cup {None}
               PROVE  <<p, k>> \in E <=> <<p, k>> \in F
    OBVIOUS
  <2> QED OBVIOUS
<1> QED BY <1>1

LEMMA PairCard ==
    ASSUME NEW P \in SUBSET Players, NEW k
    PROVE  IsFiniteSet(P \X {k}) /\ Cardinality(P \X {k}) = Cardinality(P)
<1>1. IsFiniteSet(P) /\ Cardinality(P) \in Nat BY Finite
<1>2. IsFiniteSet({k}) /\ Cardinality({k}) = 1 BY FS_Singleton
<1>3. Cardinality(P \X {k}) = Cardinality(P) * 1 /\ IsFiniteSet(P \X {k}) BY <1>1, <1>2, FS_Product
<1> QED BY <1>1, <1>3

LEMMA EnoughNone ==
    /\ \A E : E = {} => Enough(0, E)
    /\ \A E : IsFiniteSet(E) /\ Enough(0, E) => E = {}
<1>1. \A E : E = {} => Cardinality(E) = 0 BY FS_EmptySet
<1>2. ASSUME NEW E, IsFiniteSet(E), Enough(0, E) PROVE E = {}
  <2>1. PICK c \in Nat : c = Cardinality(E) BY <1>2, FS_CardinalityType
  <2>2. c = 0 BY <1>2, <2>1 DEF Enough
  <2> QED BY <1>2, <2>1, <2>2, FS_EmptySet
<1> QED BY <1>1, <1>2 DEF Enough

\* k of those expected leave, and are taken off; its clamp at zero is no loss.
LEMMA EnoughLess ==
    ASSUME NEW E, IsFiniteSet(E), NEW Q, NEW n \in Nat, Enough(n, E),
           NEW k, k = Cardinality(E \cap Q), NEW F, F = E \ Q
    PROVE  Enough(Decreased(n, k), F)
<1>1. PICK c \in Nat : c = Cardinality(E) BY FS_CardinalityType
<1>2. IsFiniteSet(E \cap Q) /\ IsFiniteSet(F) BY FS_Subset
<1>3. k \in Nat BY <1>2, FS_CardinalityType
<1>4. PICK d \in Nat : d = Cardinality(F) BY <1>2, FS_CardinalityType
<1>5. d = c - k BY <1>1, <1>4, FS_Difference
<1>6. c <= n /\ (MayRefuse \/ n = c) BY <1>1 DEF Enough
<1>7. PICK m : m = Decreased(n, k) OBVIOUS
<1>8. m = IF k < n THEN n - k ELSE 0 BY <1>7 DEF Decreased
<1>9. d <= m /\ (n = c => m = d) BY <1>1, <1>3, <1>4, <1>5, <1>6, <1>8
<1> QED BY <1>4, <1>6, <1>7, <1>9 DEF Enough

\* k more are expected, and are added.
LEMMA EnoughMore ==
    ASSUME NEW E, IsFiniteSet(E), NEW n \in Nat, Enough(n, E), NEW k \in Nat, NEW F,
           Cardinality(F) = Cardinality(E) + k
    PROVE  Enough(n + k, F)
<1>1. PICK c \in Nat : c = Cardinality(E) BY FS_CardinalityType
<1>2. c <= n /\ (MayRefuse \/ n = c) BY <1>1 DEF Enough
<1>3. n \in Nat /\ k \in Nat /\ c \in Nat /\ c <= n BY <1>2
<1>4. c + k <= n + k /\ (n = c => n + k = c + k) BY <1>3
<1>5. Cardinality(F) = c + k BY <1>1
<1> QED BY <1>2, <1>4, <1>5 DEF Enough

\* Some leave and are not taken off.
LEMMA EnoughSub ==
    ASSUME MayRefuse, NEW E, IsFiniteSet(E), NEW n \in Nat, Enough(n, E), NEW F, F \subseteq E
    PROVE  Enough(n, F)
<1>1. PICK c \in Nat : c = Cardinality(E) BY FS_CardinalityType
<1>2. IsFiniteSet(F) /\ Cardinality(F) <= c BY <1>1, FS_Subset
<1>3. PICK d \in Nat : d = Cardinality(F) BY <1>2, FS_CardinalityType
<1>4. c <= n /\ d <= c BY <1>1, <1>2, <1>3 DEF Enough
<1>5. d <= n BY <1>1, <1>3, <1>4
<1> QED BY <1>3, <1>5 DEF Enough

LEMMA CountsIs ==
    /\ CountsEnough <=> Counts(invited, status, groups, mine, side)
    /\ CountsEnough' <=> Counts(invited', status', groups', mine', side')
<1>1. ASSUME NEW b, NEW t PROVE Expected(b, t) = Exp(groups, mine, side, b, t)
  <2>1. ASSUME NEW r \in Players \X Queues PROVE Awaited(r, b, t) <=> r[1] \in Held(groups[r[2]], b, t)
    BY DEF Awaited, Held
  <2> QED BY <2>1 DEF Expected, Exp
<1>2. ASSUME NEW b, NEW t PROVE Expected(b, t)' = Exp(groups', mine', side', b, t)
  <2>1. ASSUME NEW r \in Players \X Queues
        PROVE  Awaited(r, b, t)' <=> r[1] \in Held(groups'[r[2]], b, t)
    BY DEF Awaited, Held
  <2> QED BY <2>1 DEF Expected, Exp
<1>4. CountsEnough <=> Counts(invited, status, groups, mine, side)
  <2>1. \A b \in Bgs, t \in Teams : Expected(b, t) = Exp(groups, mine, side, b, t) BY <1>1
  <2> QED BY <2>1 DEF CountsEnough, Counts
<1>5. CountsEnough' <=> Counts(invited', status', groups', mine', side')
  <2>1. \A b \in Bgs, t \in Teams : Expected(b, t)' = Exp(groups', mine', side', b, t) BY <1>2
  <2> QED BY <2>1 DEF CountsEnough, Counts
<1> QED BY <1>4, <1>5

LEMMA CountInvIs ==
    /\ CountInv <=> QueueInv /\ IdMeansAway /\ Counts(invited, status, groups, mine, side)
    /\ CountInv' <=> QueueInv' /\ IdMeansAway' /\ Counts(invited', status', groups', mine', side')
BY CountsIs DEF CountInv

\* A removal takes exactly those off the counts that it takes out of queues.
LEMMA RemovedCounts ==
    ASSUME CountInv, NEW R \in SUBSET (Players \X Queues), NEW inv, inv = InvitedWithout(R),
           NEW gs, gs = GroupsWithout(R)
    PROVE  Counts(inv, status, gs, mine, side)
<1> SUFFICES ASSUME NEW b \in Bgs, NEW t \in Teams
             PROVE  /\ Enough(inv[b][t], Exp(gs, mine, side, b, t))
                    /\ status[b] = "none" => Exp(gs, mine, side, b, t) = {}
  BY DEF Counts
<1>1. Left(R, groups, gs) BY RemovedIs, CountInvIs
<1>2. PICK E : E = Exp(groups, mine, side, b, t) OBVIOUS
<1>3. PICK F : F = Exp(gs, mine, side, b, t) OBVIOUS
<1>4. Enough(invited[b][t], E) /\ (status[b] = "none" => E = {})
  BY <1>2, CountInvIs DEF Counts
<1>5. /\ \A p \in Players, q \in Queues : <<p, q>> \in E <=> p \in Held(groups[q], b, t)
      /\ \A p \in Players : <<p, None>> \in E <=> mine[p] = b /\ side[p] = t
      /\ E \subseteq Players \X (Queues \cup {None})
      /\ IsFiniteSet(E) /\ Cardinality(E) \in Nat
  BY <1>2, ExpIs
<1>6. /\ \A p \in Players, q \in Queues : <<p, q>> \in F <=> p \in Held(gs[q], b, t)
      /\ \A p \in Players : <<p, None>> \in F <=> mine[p] = b /\ side[p] = t
      /\ F \subseteq Players \X (Queues \cup {None})
      /\ IsFiniteSet(F) /\ Cardinality(F) \in Nat
  BY <1>3, ExpIs
<1>7. ASSUME NEW p \in Players, NEW q \in Queues
      PROVE  <<p, q>> \in F <=> <<p, q>> \in E /\ <<p, q>> \notin R
  <2>1. LeftBy(R, q, groups[q], gs[q]) BY <1>1 DEF Left
  <2>2. p \in Held(gs[q], b, t) <=> p \in Held(groups[q], b, t) /\ <<p, q>> \notin R
    BY <2>1 DEF LeftBy
  <2> QED BY <1>5, <1>6, <2>2
<1>8. \A p \in Players : <<p, None>> \notin R BY BgAssumption DEF Queues
<1>9. F = E \ R
  <2>1. E \ R \in SUBSET (Players \X (Queues \cup {None})) BY <1>5
  <2>2. PICK H : H = E \ R OBVIOUS
  <2>3. \A p \in Players, q \in Queues : <<p, q>> \in F <=> <<p, q>> \in H BY <1>7, <2>2
  <2>4. \A p \in Players : <<p, None>> \in F <=> <<p, None>> \in H BY <1>5, <1>6, <1>8, <2>2
  <2> QED BY <1>6, <2>1, <2>2, <2>3, <2>4, SamePairs
<1>10. {r \in R : Awaited(r, b, t)} = E \cap R
  <2>1. ASSUME NEW p \in Players, NEW q \in Queues
        PROVE  Awaited(<<p, q>>, b, t) <=> <<p, q>> \in E
    BY <1>5, <2>1 DEF Awaited, Held
  <2> QED BY <2>1
<1>11. PICK n : n = Cardinality(E \cap R) OBVIOUS
<1>12. PICK c \in Nat : c = invited[b][t] BY CountInvIs, QueueIs DEF TypeRest
<1>13. inv[b][t] = Decreased(c, n)
  <2>1. InvitedWithout(R)[b][t] = Decreased(invited[b][t], Cardinality({r \in R : Awaited(r, b, t)}))
    BY DEF InvitedWithout
  <2> QED BY <1>10, <1>11, <1>12, <2>1
<1>14. Enough(c, E) BY <1>4, <1>12
<1>15. Enough(Decreased(c, n), F) BY <1>5, <1>9, <1>11, <1>14, EnoughLess
<1>16. status[b] = "none" => F = {} BY <1>4, <1>9
<1> QED BY <1>3, <1>13, <1>15, <1>16

\* Only p's battleground and team differ.
OnlyHis(p, mn, sd) == \A o \in Players \ {p} : mn[o] = mine[o] /\ sd[o] = side[o]

OneMore(inv, c, m, u) ==
    \A b \in Bgs, t \in Teams : c[b][t] = IF b = m /\ t = u THEN inv[b][t] + 1 ELSE inv[b][t]

\* A player loses his battleground and is taken off its count.
LEMMA CountOff ==
    ASSUME NEW inv \in [Bgs -> [Teams -> Nat]], NEW gs, TypeRest, Counts(inv, status, gs, mine, side),
           NEW p \in Players, NEW mn, NEW sd, mn[p] = None, OnlyHis(p, mn, sd)
    PROVE  Counts(CountWithout(p, inv), status, gs, mn, sd)
<1>1. mine \in [Players -> Bgs \cup {None}] /\ side \in [Players -> Teams] BY DEF TypeRest
<1> SUFFICES ASSUME NEW b \in Bgs, NEW t \in Teams
             PROVE  /\ Enough(CountWithout(p, inv)[b][t], Exp(gs, mn, sd, b, t))
                    /\ status[b] = "none" => Exp(gs, mn, sd, b, t) = {}
  BY DEF Counts
<1>2. PICK E : E = Exp(gs, mine, side, b, t) OBVIOUS
<1>3. PICK F : F = Exp(gs, mn, sd, b, t) OBVIOUS
<1>4. Enough(inv[b][t], E) /\ (status[b] = "none" => E = {}) BY <1>2 DEF Counts
<1>5. /\ \A o \in Players, q \in Queues : <<o, q>> \in E <=> o \in Held(gs[q], b, t)
      /\ \A o \in Players : <<o, None>> \in E <=> mine[o] = b /\ side[o] = t
      /\ E \subseteq Players \X (Queues \cup {None})
      /\ IsFiniteSet(E) /\ Cardinality(E) \in Nat
  BY <1>2, ExpIs
<1>6. /\ \A o \in Players, q \in Queues : <<o, q>> \in F <=> o \in Held(gs[q], b, t)
      /\ \A o \in Players : <<o, None>> \in F <=> mn[o] = b /\ sd[o] = t
      /\ F \subseteq Players \X (Queues \cup {None})
      /\ IsFiniteSet(F) /\ Cardinality(F) \in Nat
  BY <1>3, ExpIs
<1>7. b # None /\ None \notin Queues BY BgAssumption DEF Queues
<1>8. mn[p] = None /\ \A o \in Players \ {p} : mn[o] = mine[o] /\ sd[o] = side[o] BY DEF OnlyHis
<1>9. F = E \ {<<p, None>>}
  <2>1. PICK H : H = E \ {<<p, None>>} OBVIOUS
  <2>2. H \in SUBSET (Players \X (Queues \cup {None})) BY <1>5, <2>1
  <2>3. \A o \in Players, q \in Queues : <<o, q>> \in F <=> <<o, q>> \in H BY <1>5, <1>6, <1>7, <2>1
  <2>4. \A o \in Players : <<o, None>> \in F <=> <<o, None>> \in H
    BY <1>5, <1>6, <1>7, <1>8, <2>1
  <2> QED BY <1>6, <2>1, <2>2, <2>3, <2>4, SamePairs
<1>10. PICK c \in Nat : c = inv[b][t] OBVIOUS
<1>11. status[b] = "none" => F = {} BY <1>4, <1>9
<1>12. CASE <<p, None>> \notin E
  <2>1. F = E BY <1>9, <1>12
  <2>2. CountWithout(p, inv)[b][t] = c
    <3>1. CASE mine[p] = None BY <1>10, <3>1 DEF CountWithout
    <3>2. CASE mine[p] # None
      <4>1. PICK m \in Bgs : m = mine[p] BY <1>1, <3>2
      <4>2. PICK u \in Teams : u = side[p] BY <1>1
      <4>3. CountWithout(p, inv) = [inv EXCEPT ![m][u] = Decreased(@, 1)]
        BY <3>2, <4>1, <4>2 DEF CountWithout
      <4>4. b # m \/ t # u BY <1>5, <1>12, <4>1, <4>2
      <4> QED BY <1>10, <4>3, <4>4
    <3> QED BY <3>1, <3>2
  <2> QED BY <1>3, <1>4, <1>10, <1>11, <2>1, <2>2
<1>13. CASE <<p, None>> \in E
  <2>1. mine[p] = b /\ side[p] = t BY <1>5, <1>13
  <2>2. CountWithout(p, inv) = [inv EXCEPT ![b][t] = Decreased(@, 1)]
    BY <1>7, <2>1 DEF CountWithout
  <2>3. CountWithout(p, inv)[b][t] = Decreased(c, 1) BY <1>10, <2>2
  <2>4. PICK Q : Q = {<<p, None>>} OBVIOUS
  <2>5. E \cap Q = {<<p, None>>} BY <1>13, <2>4
  <2>6. Cardinality({<<p, None>>}) = 1 BY FS_Singleton
  <2>7. PICK k : k = Cardinality(E \cap Q) OBVIOUS
  <2>8. k = 1 BY <2>5, <2>6, <2>7
  <2>9. F = E \ Q /\ Enough(c, E) BY <1>4, <1>9, <1>10, <2>4
  <2>10. Enough(Decreased(c, k), F) BY <1>5, <2>7, <2>9, EnoughLess
  <2> QED BY <1>3, <1>11, <2>3, <2>8, <2>10
<1> QED BY <1>12, <1>13

\* After a teleport that was refused he may lose it and stay on the count.
LEMMA CountLeft ==
    ASSUME MayRefuse, NEW inv \in [Bgs -> [Teams -> Nat]], NEW gs, TypeRest,
           Counts(inv, status, gs, mine, side),
           NEW p \in Players, NEW mn, NEW sd, mn[p] = None, OnlyHis(p, mn, sd)
    PROVE  Counts(inv, status, gs, mn, sd)
<1> SUFFICES ASSUME NEW b \in Bgs, NEW t \in Teams
             PROVE  /\ Enough(inv[b][t], Exp(gs, mn, sd, b, t))
                    /\ status[b] = "none" => Exp(gs, mn, sd, b, t) = {}
  BY DEF Counts
<1>1. PICK E : E = Exp(gs, mine, side, b, t) OBVIOUS
<1>2. PICK F : F = Exp(gs, mn, sd, b, t) OBVIOUS
<1>3. Enough(inv[b][t], E) /\ (status[b] = "none" => E = {}) BY <1>1 DEF Counts
<1>4. /\ \A o \in Players, q \in Queues : <<o, q>> \in E <=> o \in Held(gs[q], b, t)
      /\ \A o \in Players : <<o, None>> \in E <=> mine[o] = b /\ side[o] = t
      /\ E \subseteq Players \X (Queues \cup {None})
      /\ IsFiniteSet(E)
  BY <1>1, ExpIs
<1>5. /\ \A o \in Players, q \in Queues : <<o, q>> \in F <=> o \in Held(gs[q], b, t)
      /\ \A o \in Players : <<o, None>> \in F <=> mn[o] = b /\ sd[o] = t
      /\ F \subseteq Players \X (Queues \cup {None})
  BY <1>2, ExpIs
<1>6. b # None BY BgAssumption
<1>7. \A o \in Players \ {p} : mn[o] = mine[o] /\ sd[o] = side[o] BY DEF OnlyHis
<1>8. \A o \in Players, q \in Queues : <<o, q>> \in F => <<o, q>> \in E BY <1>4, <1>5
<1>9. \A o \in Players : <<o, None>> \in F => <<o, None>> \in E BY <1>4, <1>5, <1>6, <1>7
<1>10. F \subseteq E
  <2> SUFFICES ASSUME NEW x \in F PROVE x \in E OBVIOUS
  <2>1. PICK o \in Players, k \in Queues \cup {None} : x = <<o, k>> BY <1>5
  <2> QED BY <1>8, <1>9, <2>1
<1>11. PICK n \in Nat : n = inv[b][t] OBVIOUS
<1>12. Enough(n, E) BY <1>3, <1>11
<1>13. Enough(n, F) BY <1>4, <1>10, <1>12, EnoughSub
<1> QED BY <1>2, <1>3, <1>10, <1>11, <1>13

\* ... or gets one, and is added.  He has one already only if a teleport was
\* refused.
LEMMA CountOn ==
    ASSUME NEW inv \in [Bgs -> [Teams -> Nat]], NEW gs, TypeRest, Counts(inv, status, gs, mine, side),
           NEW p \in Players, MayRefuse \/ mine[p] = None, NEW m \in Bgs, NEW u \in Teams,
           status[m] # "none", NEW mn, NEW sd, mn[p] = m, sd[p] = u, OnlyHis(p, mn, sd),
           NEW c, OneMore(inv, c, m, u)
    PROVE  Counts(c, status, gs, mn, sd)
<1>1. mine \in [Players -> Bgs \cup {None}] /\ side \in [Players -> Teams] BY DEF TypeRest
<1> SUFFICES ASSUME NEW b \in Bgs, NEW t \in Teams
             PROVE  /\ Enough(c[b][t], Exp(gs, mn, sd, b, t))
                    /\ status[b] = "none" => Exp(gs, mn, sd, b, t) = {}
  BY DEF Counts
<1>2. PICK E : E = Exp(gs, mine, side, b, t) OBVIOUS
<1>3. PICK F : F = Exp(gs, mn, sd, b, t) OBVIOUS
<1>4. PICK n \in Nat : n = inv[b][t] OBVIOUS
<1>5. /\ \A o \in Players, q \in Queues : <<o, q>> \in E <=> o \in Held(gs[q], b, t)
      /\ \A o \in Players : <<o, None>> \in E <=> mine[o] = b /\ side[o] = t
      /\ E \subseteq Players \X (Queues \cup {None})
      /\ IsFiniteSet(E) /\ Cardinality(E) \in Nat
  BY <1>2, ExpIs
<1>6. /\ \A o \in Players, q \in Queues : <<o, q>> \in F <=> o \in Held(gs[q], b, t)
      /\ \A o \in Players : <<o, None>> \in F <=> mn[o] = b /\ sd[o] = t
      /\ F \subseteq Players \X (Queues \cup {None})
      /\ IsFiniteSet(F) /\ Cardinality(F) \in Nat
  BY <1>3, ExpIs
<1>7. b # None /\ None \notin Queues BY BgAssumption DEF Queues
<1>8. mn[p] = m /\ sd[p] = u /\ \A o \in Players \ {p} : mn[o] = mine[o] /\ sd[o] = side[o]
  BY DEF OnlyHis
<1>9. <<p, None>> \in E => MayRefuse BY <1>5, <1>7
<1>10. Enough(n, E) /\ (status[b] = "none" => E = {}) BY <1>2, <1>4 DEF Counts
<1>11. PICK D : D = E \ {<<p, None>>} OBVIOUS
<1>12. D \subseteq E /\ IsFiniteSet(D) /\ <<p, None>> \notin D BY <1>5, <1>11, FS_Subset
<1>13. Enough(n, D)
  <2>1. CASE <<p, None>> \in E
    <3>1. MayRefuse BY <1>9, <2>1
    <3> QED BY <1>5, <1>10, <1>12, <3>1, EnoughSub
  <2>2. CASE <<p, None>> \notin E
    <3>1. D = E BY <1>11, <2>2
    <3> QED BY <1>10, <3>1
  <2> QED BY <2>1, <2>2
<1>14. CASE b = m /\ t = u
  <2>1. PICK H : H = D \cup {<<p, None>>} OBVIOUS
  <2>2. H \in SUBSET (Players \X (Queues \cup {None})) BY <1>5, <1>12, <2>1
  <2>3. \A o \in Players, q \in Queues : <<o, q>> \in F <=> <<o, q>> \in H
    BY <1>5, <1>6, <1>7, <1>11, <2>1
  <2>4. \A o \in Players : <<o, None>> \in F <=> <<o, None>> \in H
    BY <1>5, <1>6, <1>7, <1>8, <1>11, <1>14, <2>1
  <2>5. F = H BY <1>6, <2>2, <2>3, <2>4, SamePairs
  <2>6. PICK k \in Nat : k = 1 OBVIOUS
  <2>7. Cardinality(F) = Cardinality(D) + k BY <1>12, <2>1, <2>5, <2>6, FS_AddElement
  <2>8. Enough(n + k, F) BY <1>12, <1>13, <2>7, EnoughMore
  <2>9. c[b][t] = inv[b][t] + 1 BY <1>14 DEF OneMore
  <2> QED BY <1>3, <1>4, <1>14, <2>6, <2>8, <2>9
<1>15. CASE b # m \/ t # u
  <2>1. \A o \in Players, q \in Queues : <<o, q>> \in F <=> <<o, q>> \in D
    BY <1>5, <1>6, <1>7, <1>11
  <2>2. \A o \in Players : <<o, None>> \in F <=> <<o, None>> \in D
    BY <1>5, <1>6, <1>7, <1>8, <1>11, <1>15
  <2>3. D \in SUBSET (Players \X (Queues \cup {None})) BY <1>5, <1>12
  <2>4. F = D BY <1>6, <2>1, <2>2, <2>3, SamePairs
  <2>5. c[b][t] = n /\ (status[b] = "none" => D = {}) BY <1>4, <1>10, <1>12, <1>15 DEF OneMore
  <2> QED BY <1>3, <1>13, <2>4, <2>5
<1> QED BY <1>14, <1>15

\* The same players are invited, by every battleground to every team.
SameHeld(gs, r) ==
    \A p \in Players, b \in Bgs, t \in Teams : p \in Held(gs, b, t) <=> p \in Held(r, b, t)

LEMMA SameCounts ==
    ASSUME NEW gs, NEW r, \A q \in Queues : SameHeld(gs[q], r[q]), NEW inv, NEW st, NEW mn, NEW sd,
           Counts(inv, st, gs, mn, sd)
    PROVE  Counts(inv, st, r, mn, sd)
<1> SUFFICES ASSUME NEW b \in Bgs, NEW t \in Teams
             PROVE  Exp(r, mn, sd, b, t) = Exp(gs, mn, sd, b, t)
  BY DEF Counts
<1>1. PICK E : E = Exp(gs, mn, sd, b, t) OBVIOUS
<1>2. PICK F : F = Exp(r, mn, sd, b, t) OBVIOUS
<1>3. /\ \A o \in Players, q \in Queues : <<o, q>> \in E <=> o \in Held(gs[q], b, t)
      /\ \A o \in Players : <<o, None>> \in E <=> mn[o] = b /\ sd[o] = t
      /\ E \subseteq Players \X (Queues \cup {None})
  BY <1>1, ExpIs
<1>4. /\ \A o \in Players, q \in Queues : <<o, q>> \in F <=> o \in Held(r[q], b, t)
      /\ \A o \in Players : <<o, None>> \in F <=> mn[o] = b /\ sd[o] = t
      /\ F \subseteq Players \X (Queues \cup {None})
  BY <1>2, ExpIs
<1>5. \A o \in Players, q \in Queues : <<o, q>> \in F <=> <<o, q>> \in E BY <1>3, <1>4 DEF SameHeld
<1>6. \A o \in Players : <<o, None>> \in F <=> <<o, None>> \in E BY <1>3, <1>4
<1>7. F = E BY <1>3, <1>4, <1>5, <1>6, SamePairs
<1> QED BY <1>1, <1>2, <1>7

\* A step that leaves the counts, the invitations and the battlegrounds alone.
LEMMA CountsStay ==
    ASSUME CountInv, UNCHANGED <<mine, side, invited, status>>,
           \A q \in Queues : SameHeld(groups[q], groups'[q])
    PROVE  Counts(invited', status', groups', mine', side')
<1>1. Counts(invited, status, groups, mine, side) BY CountInvIs
<1>2. PICK r : r = groups' OBVIOUS
<1>3. \A q \in Queues : SameHeld(groups[q], r[q]) BY <1>2
<1>4. Counts(invited, status, r, mine, side) BY <1>1, <1>3, SameCounts
<1> QED BY <1>2, <1>4

\* Nobody comes back, or leaves, by accident: where and with what id.
LEMMA IdStays ==
    ASSUME IdMeansAway, UNCHANGED <<at, mine>>
    PROVE  IdMeansAway'
BY DEF IdMeansAway

LEMMA RemoveCount ==
    ASSUME CountInv, NEW R \in SUBSET (Players \X Queues), RemovePlayers(R),
           UNCHANGED <<at, mine, side, status>>
    PROVE  IdMeansAway' /\ Counts(invited', status', groups', mine', side')
<1>1. PICK out \in SUBSET (Players \X Queues) : out = WithTeam(R) BY TeamLeaves
<1>2. PICK inv : inv = InvitedWithout(out) OBVIOUS
<1>3. PICK gs : gs = GroupsWithout(out) OBVIOUS
<1>4. Counts(inv, status, gs, mine, side) BY <1>2, <1>3, RemovedCounts
<1>5. groups' = gs /\ invited' = inv BY <1>1, <1>2, <1>3 DEF RemovePlayers
<1> QED BY <1>4, <1>5, CountInvIs, IdStays

LEMMA RequeueCount ==
    ASSUME CountInv, NEW R \in SUBSET (Players \X Queues), NEW P \in SUBSET Players, P # {},
           NEW q \in Queues, NEW list \in {"premade", "normal"}, NEW may,
           Requeue(R, P, q, list, may), may => MayQueue(R, P, q)
    PROVE  CountInv'
<1>1. QueueInv' BY RequeueKeeps, CountInvIs
<1>2. PICK out \in SUBSET (Players \X Queues) : out = WithTeam(R) /\ R \subseteq out BY TeamLeaves
<1>3. PICK inv : inv = InvitedWithout(out) OBVIOUS
<1>4. PICK gs : gs = GroupsWithout(out) OBVIOUS
<1>5. Counts(inv, status, gs, mine, side) BY <1>3, <1>4, RemovedCounts
<1>6. invited' = inv /\ UNCHANGED <<at, mine, side, status>> BY <1>2, <1>3 DEF Requeue
<1>7. IdMeansAway' BY <1>6, CountInvIs, IdStays
<1>8. CASE ~may
  <2>1. groups' = gs BY <1>2, <1>4, <1>8 DEF Requeue
  <2> QED BY <1>1, <1>5, <1>6, <1>7, <2>1, CountInvIs
<1>9. CASE may
  <2>0. TeamOf[CHOOSE p \in P : TRUE] \in Teams BY BgAssumption DEF Teams
  <2>1. PICK t \in Teams : t = TeamOf[CHOOSE p \in P : TRUE] BY <2>0
  <2>2. PICK x : x = NewGroup(P, list, t) OBVIOUS
  <2>3. x \in Group /\ x.players = P /\ x.bg = None BY <2>2, BgAssumption DEF NewGroup, Group
  <2>4. groups' = [gs EXCEPT ![q] = Append(@, x)] BY <1>2, <1>4, <1>9, <2>1, <2>2 DEF Requeue
  <2>5. /\ Left(out, groups, gs) /\ gs \in [Queues -> Seq(Group)]
    BY <1>4, RemovedIs, CountInvIs DEF TypeQueues
  <2>6. LeftBy(out, q, groups[q], gs[q]) BY <2>5 DEF Left
  <2>7. P \cap In(gs[q]) = {}
    <3> SUFFICES ASSUME NEW p \in P, p \in In(gs[q]) PROVE FALSE OBVIOUS
    <3>1. p \in In(groups[q]) /\ <<p, q>> \notin out BY <2>6 DEF LeftBy
    <3>2. q \in slots[p] BY <3>1, QueueIs, CountInvIs
    <3> QED BY <1>2, <1>9, <3>1, <3>2 DEF MayQueue
  <2>8. PICK s : s = gs[q] OBVIOUS
  <2>9. Queue(s) /\ x.players \cap In(s) = {} BY <2>3, <2>6, <2>7, <2>8 DEF LeftBy
  <2>10. PICK r : r = Append(s, x) OBVIOUS
  <2>11. \A b \in Bgs, t1 \in Teams : Held(r, b, t1) = Held(s, b, t1)
    BY <2>3, <2>9, <2>10, AppendQueue
  <2>12. groups'[q] = r /\ \A k \in Queues \ {q} : groups'[k] = gs[k]
    BY <2>4, <2>5, <2>8, <2>10
  <2>13. \A k \in Queues : SameHeld(gs[k], groups'[k]) BY <2>8, <2>11, <2>12 DEF SameHeld
  <2>14. PICK h : h = groups' OBVIOUS
  <2>15. Counts(inv, status, h, mine, side) BY <1>5, <2>13, <2>14, SameCounts
  <2> QED BY <1>1, <1>6, <1>7, <2>14, <2>15, CountInvIs
<1> QED BY <1>8, <1>9

LEMMA RequeuesCount ==
    ASSUME CountInv, Requeues
    PROVE  CountInv'
<1>1. PICK R \in SUBSET (Players \X Queues), P \in SUBSET Players, q \in Queues,
           list \in {"premade", "normal"}, may \in BOOLEAN :
              P # {} /\ Requeue(R, P, q, list, may) /\ (may => MayQueue(R, P, q))
  BY DEF Requeues
<1> QED BY <1>1, RequeueCount

LEMMA LogoutCount ==
    ASSUME CountInv, NEW p \in Players, Logout(p)
    PROVE  CountInv'
<1>1. QueueInv /\ TypeRest /\ AwayHasId /\ IdMeansAway BY CountInvIs, QueueInvIs
<1>2. QueueInv' BY <1>1, LogoutQueue
<1>3. {p} \X slots[p] \in SUBSET (Players \X Queues) BY <1>1, SlotsOf
<1>4. PICK out \in SUBSET (Players \X Queues) : out = WithTeam({p} \X slots[p])
  BY <1>3, TeamLeaves
<1>5. PICK inv \in [Bgs -> [Teams -> Nat]] : inv = InvitedWithout(out) BY <1>1, RemovedIs
<1>6. PICK gs : gs = GroupsWithout(out) OBVIOUS
<1>7. Counts(inv, status, gs, mine, side) BY <1>5, <1>6, RemovedCounts
<1>8. PICK mn : mn = mine' OBVIOUS
<1>9. PICK sd : sd = side' OBVIOUS
<1>10. mn[p] = None /\ OnlyHis(p, mn, sd) BY <1>1, <1>8, <1>9 DEF Logout, TypeRest, OnlyHis
<1>11. PICK c : c = CountWithout(p, inv) OBVIOUS
<1>12. Counts(c, status, gs, mn, sd) BY <1>1, <1>7, <1>10, <1>11, CountOff
<1>13. PICK n : n = invited' OBVIOUS
<1>14. Counts(n, status, gs, mn, sd)
  <2>1. CASE at[p] \in {"port", "bg"}
    <3>1. n = c BY <1>4, <1>5, <1>11, <1>13, <2>1 DEF Logout
    <3> QED BY <1>12, <3>1
  <2>2. CASE at[p] \notin {"port", "bg"}
    <3>1. at[p] \in {"off", "world"} BY <1>1, <2>2 DEF TypeRest
    <3>2. n = inv BY <1>4, <1>5, <1>13, <2>2 DEF Logout
    <3>3. CASE MayRefuse BY <1>1, <1>7, <1>10, <3>2, <3>3, CountLeft
    <3>4. CASE mine[p] = None
      <4>1. c = inv BY <1>11, <3>4 DEF CountWithout
      <4> QED BY <1>12, <3>2, <4>1
    <3> QED BY <1>1, <3>1, <3>3, <3>4 DEF IdMeansAway
  <2> QED BY <2>1, <2>2
<1>15. groups' = gs /\ status' = status BY <1>4, <1>6 DEF Logout
<1>16. IdMeansAway' BY <1>1 DEF IdMeansAway, Logout, TypeRest
<1> QED BY <1>2, <1>8, <1>9, <1>13, <1>14, <1>15, <1>16, CountInvIs

LEMMA ReturnCount ==
    ASSUME CountInv, NEW p \in Players, Return(p)
    PROVE  CountInv'
<1>1. QueueInv /\ TypeRest /\ IdMeansAway BY CountInvIs, QueueInvIs
<1>2. QueueInv' BY <1>1, ReturnQueue
<1>3. Counts(invited, status, groups, mine, side) BY CountInvIs
<1>4. PICK mn : mn = mine' OBVIOUS
<1>5. PICK sd : sd = side' OBVIOUS
<1>6. mn[p] = None /\ OnlyHis(p, mn, sd) BY <1>1, <1>4, <1>5 DEF Return, TypeRest, OnlyHis
<1>7. PICK c : c = CountWithout(p, invited) OBVIOUS
<1>8. invited \in [Bgs -> [Teams -> Nat]] BY <1>1 DEF TypeRest
<1>9. Counts(c, status, groups, mn, sd) BY <1>1, <1>3, <1>6, <1>7, <1>8, CountOff
<1>10. invited' = c /\ groups' = groups /\ status' = status BY <1>7 DEF Return
<1>11. IdMeansAway' BY <1>1 DEF IdMeansAway, Return, TypeRest
<1> QED BY <1>2, <1>4, <1>5, <1>9, <1>10, <1>11, CountInvIs

LEMMA AcceptCount ==
    ASSUME CountInv, NEW p \in Players, NEW q \in Queues, NEW goes \in BOOLEAN,
           Accept(p, q, goes)
    PROVE  CountInv'
<1>1. QueueInv /\ TypeRest /\ IdMeansAway /\ groups[q] \in Seq(Group)
  BY CountInvIs, QueueIs
<1>2. QueueInv' BY <1>1, AcceptQueue
<1>3. {p} \X slots[p] \in SUBSET (Players \X Queues) BY <1>1, SlotsOf
<1>4. PICK out \in SUBSET (Players \X Queues) : out = WithTeam({p} \X slots[p])
  BY <1>3, TeamLeaves
<1>5. PICK inv \in [Bgs -> [Teams -> Nat]] : inv = InvitedWithout(out) BY <1>1, RemovedIs
<1>6. PICK gs : gs = GroupsWithout(out) OBVIOUS
<1>7. Counts(inv, status, gs, mine, side) BY <1>5, <1>6, RemovedCounts
<1>8. PICK g \in ToSet(groups[q]) :
         /\ at[p] = "world" /\ g.bg # None /\ status[g.bg] # "none" /\ (goes \/ MayRefuse)
         /\ groups' = gs
         /\ invited' = [inv EXCEPT ![g.bg][g.side] = @ + 1]
         /\ mine' = [mine EXCEPT ![p] = g.bg] /\ side' = [side EXCEPT ![p] = g.side]
         /\ at' = [at EXCEPT ![p] = IF goes THEN "port" ELSE "world"]
         /\ UNCHANGED status
  BY <1>4, <1>5, <1>6 DEF Accept
<1>9. g \in Group BY <1>1, ElementOf
<1>10. PICK m \in Bgs : m = g.bg BY <1>8, <1>9, GroupIs
<1>11. PICK u \in Teams : u = g.side BY <1>9, GroupIs
<1>12. (MayRefuse \/ mine[p] = None) /\ status[m] # "none" BY <1>1, <1>8, <1>10 DEF IdMeansAway
<1>13. PICK mn : mn = mine' OBVIOUS
<1>14. PICK sd : sd = side' OBVIOUS
<1>15. mn[p] = m /\ sd[p] = u /\ OnlyHis(p, mn, sd)
  BY <1>1, <1>8, <1>10, <1>11, <1>13, <1>14 DEF TypeRest, OnlyHis
<1>16. PICK c : c = invited' OBVIOUS
<1>17. OneMore(inv, c, m, u) BY <1>8, <1>10, <1>11, <1>16 DEF OneMore
<1>18. Counts(c, status, gs, mn, sd) BY <1>1, <1>7, <1>12, <1>15, <1>17, CountOn
<1>19. IdMeansAway' BY <1>1, <1>8 DEF IdMeansAway, TypeRest
<1> QED BY <1>2, <1>8, <1>13, <1>14, <1>16, <1>18, <1>19, CountInvIs

LEMMA ArriveCount ==
    ASSUME CountInv, NEW p \in Players, Arrive(p) \/ Login(p)
    PROVE  CountInv'
<1>1. QueueInv /\ TypeRest /\ IdMeansAway BY CountInvIs, QueueInvIs
<1>2. QueueInv' BY <1>1, ArriveQueue, LoginQueue
<1>3. UNCHANGED <<groups, mine, side, invited, status>> BY DEF Arrive, Login
<1>4. Counts(invited', status', groups', mine', side') BY <1>3, CountInvIs
<1>5. IdMeansAway' BY <1>1 DEF IdMeansAway, Arrive, Login, TypeRest
<1> QED BY <1>2, <1>4, <1>5, CountInvIs

LEMMA DeleteEmptyCount ==
    ASSUME CountInv, NEW b \in Bgs, DeleteEmpty(b)
    PROVE  CountInv'
<1>1. QueueInv /\ TypeRest /\ IdMeansAway /\ Counts(invited, status, groups, mine, side)
  BY CountInvIs, QueueInvIs
<1>2. QueueInv' BY <1>1, DeleteEmptyQueue
<1>3. UNCHANGED <<at, groups, mine, side, invited>> /\ \A t \in Teams : invited[b][t] = 0
  BY DEF DeleteEmpty
<1>4. \A c \in Bgs : c # b => status'[c] = status[c] BY <1>1 DEF DeleteEmpty, TypeRest
<1>5. ASSUME NEW t \in Teams PROVE Exp(groups, mine, side, b, t) = {}
  <2>1. PICK E : E = Exp(groups, mine, side, b, t) OBVIOUS
  <2>2. Enough(invited[b][t], E) BY <1>1, <2>1 DEF Counts
  <2>3. Enough(0, E) BY <1>3, <2>2
  <2>4. IsFiniteSet(E) BY <2>1, ExpIs
  <2> QED BY <2>1, <2>3, <2>4, EnoughNone
<1>6. Counts(invited, status', groups, mine, side) BY <1>1, <1>4, <1>5 DEF Counts
<1> QED BY <1>1, <1>2, <1>3, <1>6, CountInvIs, IdStays

LEMMA ProceedCount ==
    ASSUME CountInv, NEW b \in Bgs, NEW st \in {"progress", "leave"}, Proceed(b, st)
    PROVE  CountInv'
<1>1. QueueInv /\ TypeRest /\ IdMeansAway /\ Counts(invited, status, groups, mine, side)
  BY CountInvIs, QueueInvIs
<1>2. QueueInv' BY <1>1, ProceedQueue
<1>3. UNCHANGED <<at, groups, mine, side, invited>> BY DEF Proceed
<1>4. \A c \in Bgs : status'[c] = "none" => status[c] = "none"
  BY <1>1 DEF Proceed, TypeRest
<1>5. Counts(invited, status', groups, mine, side) BY <1>1, <1>4 DEF Counts
<1> QED BY <1>1, <1>2, <1>3, <1>5, CountInvIs, IdStays

LEMMA ProcessLeaveCount ==
    ASSUME CountInv, NEW b \in Bgs, ProcessLeave(b)
    PROVE  CountInv'
<1>1. QueueInv /\ TypeRest /\ IdMeansAway /\ Counts(invited, status, groups, mine, side)
  BY CountInvIs, QueueInvIs
<1>2. QueueInv' BY <1>1, ProcessLeaveQueue
<1>3. PICK in : in = Inside(b) OBVIOUS
<1>4. in \in SUBSET Players /\ \A p \in in : mine[p] = b BY <1>3 DEF Inside
<1>5. PICK mn : mn = mine' OBVIOUS
<1>6. PICK sd : sd = side' OBVIOUS
<1>7. \A p \in Players : IF p \in in THEN mn[p] = None ELSE mn[p] = mine[p] /\ sd[p] = side[p]
  BY <1>3, <1>5, <1>6 DEF ProcessLeave
<1>8. UNCHANGED <<groups, status>> BY DEF ProcessLeave
<1>9. PICK inv : inv = invited' OBVIOUS
<1>10. \A c \in Bgs, t \in Teams :
          inv[c][t] = IF c = b THEN Decreased(invited[b][t], Entered(b)[t]) ELSE invited[c][t]
  BY <1>1, <1>9 DEF ProcessLeave, TypeRest
<1>11. ASSUME NEW c \in Bgs, NEW t \in Teams
       PROVE  /\ Enough(inv[c][t], Exp(groups, mn, sd, c, t))
              /\ status[c] = "none" => Exp(groups, mn, sd, c, t) = {}
  <2>1. PICK E : E = Exp(groups, mine, side, c, t) OBVIOUS
  <2>2. PICK F : F = Exp(groups, mn, sd, c, t) OBVIOUS
  <2>3. Enough(invited[c][t], E) /\ (status[c] = "none" => E = {}) BY <1>1, <2>1 DEF Counts
  <2>4. /\ \A o \in Players, q \in Queues : <<o, q>> \in E <=> o \in Held(groups[q], c, t)
        /\ \A o \in Players : <<o, None>> \in E <=> mine[o] = c /\ side[o] = t
        /\ E \subseteq Players \X (Queues \cup {None})
        /\ IsFiniteSet(E) /\ Cardinality(E) \in Nat
    BY <2>1, ExpIs
  <2>5. /\ \A o \in Players, q \in Queues : <<o, q>> \in F <=> o \in Held(groups[q], c, t)
        /\ \A o \in Players : <<o, None>> \in F <=> mn[o] = c /\ sd[o] = t
        /\ F \subseteq Players \X (Queues \cup {None})
        /\ IsFiniteSet(F) /\ Cardinality(F) \in Nat
    BY <2>2, ExpIs
  <2>6. c # None /\ None \notin Queues BY BgAssumption DEF Queues
  <2>7. \A o \in Players, q \in Queues : <<o, q>> \in F <=> <<o, q>> \in E BY <2>4, <2>5
  <2>8. CASE c # b
    <3>1. \A o \in Players : <<o, None>> \in F <=> <<o, None>> \in E
      BY <1>4, <1>7, <2>4, <2>5, <2>6, <2>8
    <3>2. F = E BY <2>4, <2>5, <2>7, <3>1, SamePairs
    <3> QED BY <1>10, <2>2, <2>3, <2>8, <3>2
  <2>9. CASE c = b
    <3>1. PICK P : P = {p \in in : side[p] = t} OBVIOUS
    <3>2. P \in SUBSET Players BY <1>4, <3>1
    <3>3. Entered(b)[t] = Cardinality(P) BY <1>3, <3>1 DEF Entered
    <3>4. PICK H : H = E \ (P \X {None}) OBVIOUS
    <3>5. H \in SUBSET (Players \X (Queues \cup {None})) BY <2>4, <3>4
    <3>6. \A o \in Players, q \in Queues : <<o, q>> \in F <=> <<o, q>> \in H BY <2>6, <2>7, <3>4
    <3>7. \A o \in Players : <<o, None>> \in F <=> <<o, None>> \in H
      BY <1>4, <1>7, <2>4, <2>5, <2>6, <2>9, <3>1, <3>4
    <3>8. F = H BY <2>5, <3>5, <3>6, <3>7, SamePairs
    <3>9. E \cap (P \X {None}) = P \X {None}
      <4>1. ASSUME NEW p \in P PROVE <<p, None>> \in E BY <1>4, <2>4, <2>9, <3>1, <3>2
      <4> QED BY <4>1
    <3>10. PICK Q : Q = P \X {None} OBVIOUS
    <3>11. PICK k : k = Cardinality(E \cap Q) OBVIOUS
    <3>12. k = Entered(b)[t] BY <3>2, <3>3, <3>9, <3>10, <3>11, PairCard
    <3>13. PICK n \in Nat : n = invited[c][t] BY <1>1 DEF TypeRest
    <3>14. Enough(n, E) /\ F = E \ Q BY <2>3, <3>4, <3>8, <3>10, <3>13
    <3>15. Enough(Decreased(n, k), F) BY <2>4, <3>11, <3>14, EnoughLess
    <3>16. status[c] = "none" => F = {} BY <2>3, <3>4, <3>8
    <3> QED BY <1>10, <2>2, <2>9, <3>12, <3>13, <3>15, <3>16
  <2> QED BY <2>8, <2>9
<1>12. Counts(inv, status, groups, mn, sd) BY <1>11 DEF Counts
<1>13. IdMeansAway' BY <1>1 DEF IdMeansAway, ProcessLeave, TypeRest
<1> QED BY <1>2, <1>5, <1>6, <1>8, <1>9, <1>12, <1>13, CountInvIs

-----------------------------------------------------------------------------
(* Who is chosen.                                                          *)

\* The groups of the normal list of the team t that wait, by their players.
Normal(gs, t) ==
    {P \in SUBSET Players : \E g \in ToSet(gs) : InNormal(g, t) /\ g.bg = None /\ g.players = P}

\* Some of them, for d places.
PoolFits(pool, gs, t, d) == pool \subseteq Normal(gs, t) /\ Cardinality(UNION pool) <= d

\* One more group fits when its players are counted on top.
LEMMA AddGroupFits ==
    ASSUME NEW pool \in SUBSET SUBSET Players, NEW g \in Group, NEW d \in Nat,
           Cardinality(UNION pool) <= d
    PROVE  /\ AddGroup(pool, g, d) \in SUBSET SUBSET Players
           /\ Cardinality(UNION AddGroup(pool, g, d)) <= d
           /\ \A P \in AddGroup(pool, g, d) : P \in pool \/ (g.bg = None /\ P = g.players)
<1>1. PICK P \in SUBSET Players : P = g.players BY GroupIs
<1>2. PICK U \in SUBSET Players : U = UNION pool OBVIOUS
<1>3. IsFiniteSet(P) /\ IsFiniteSet(U) BY Finite
<1>4. PICK x \in Nat : x = Cardinality(P) BY Finite
<1>5. PICK y \in Nat : y = Cardinality(U) BY Finite
<1>6. CASE g.bg = None /\ y + x <= d
  <2>1. AddGroup(pool, g, d) = pool \cup {P} BY <1>1, <1>2, <1>4, <1>5, <1>6 DEF AddGroup
  <2>2. UNION (pool \cup {P}) = U \cup P BY <1>2
  <2>3. Cardinality(U \cup P) = y + x - Cardinality(U \cap P) BY <1>3, <1>4, <1>5, FS_Union
  <2>4. U \cap P \in SUBSET Players BY <1>2
  <2>5. PICK z \in Nat : z = Cardinality(U \cap P) BY <2>4, Finite
  <2>6. Cardinality(U \cup P) <= d BY <1>4, <1>5, <1>6, <2>3, <2>5
  <2> QED BY <1>1, <1>6, <2>1, <2>2, <2>6
<1>7. CASE ~ (g.bg = None /\ y + x <= d)
  <2>1. AddGroup(pool, g, d) = pool BY <1>1, <1>2, <1>4, <1>5, <1>7 DEF AddGroup
  <2> QED BY <2>1
<1> QED BY <1>6, <1>7

LEMMA AddNormalFits ==
    ASSUME NEW gs \in Seq(Group), NEW t, NEW d \in Nat, NEW k \in DOMAIN gs,
           NEW pool \in SUBSET SUBSET Players, PoolFits(pool, gs, t, d)
    PROVE  /\ AddNormal(pool, gs[k], t, d) \in SUBSET SUBSET Players
           /\ PoolFits(AddNormal(pool, gs[k], t, d), gs, t, d)
<1>1. PICK g : g = gs[k] OBVIOUS
<1>2. g \in Group /\ g \in ToSet(gs) BY <1>1, ElementOf
<1>3. pool \subseteq Normal(gs, t) /\ Cardinality(UNION pool) <= d BY DEF PoolFits
<1>4. CASE InNormal(g, t)
  <2>1. PICK r : r = AddGroup(pool, g, d) OBVIOUS
  <2>2. /\ r \in SUBSET SUBSET Players /\ Cardinality(UNION r) <= d
        /\ \A P \in r : P \in pool \/ (g.bg = None /\ P = g.players)
    BY <1>2, <1>3, <2>1, AddGroupFits
  <2>3. g.bg = None => g.players \in Normal(gs, t) BY <1>2, <1>4, GroupIs DEF Normal
  <2>4. r \subseteq Normal(gs, t) BY <1>3, <2>2, <2>3
  <2>5. AddNormal(pool, gs[k], t, d) = r BY <1>1, <1>4, <2>1 DEF AddNormal
  <2> QED BY <2>2, <2>4, <2>5 DEF PoolFits
<1>5. CASE ~InNormal(g, t)
  <2>1. AddNormal(pool, gs[k], t, d) = pool BY <1>1, <1>5 DEF AddNormal
  <2> QED BY <2>1
<1> QED BY <1>4, <1>5

PoolSteps(gs, t, d, g) ==
    g = [s \in SUBSET DOMAIN gs |->
           IF s = {} THEN {} ELSE AddNormal(g[s \ {Max(s)}], gs[Max(s)], t, d)]

LEMMA PoolIsFold ==
    ASSUME NEW gs, NEW t, NEW d, NEW g, PoolSteps(gs, t, d, g)
    PROVE  \E h : /\ PoolSteps(gs, t, d, h)
                  /\ Pool(gs, t, d) = h[DOMAIN gs]
BY Zenon DEF PoolSteps, Pool, FoldLeft, MapThenFoldSet

\* Those chosen from a list wait in it, and are no more than there are places.
LEMMA PoolIs ==
    ASSUME NEW gs \in Seq(Group), NEW t, NEW d \in Nat
    PROVE  Pool(gs, t, d) \in SUBSET SUBSET Players /\ PoolFits(Pool(gs, t, d), gs, t, d)
<1>0. PICK N \in Nat : N = Len(gs) /\ DOMAIN gs = 1 .. N OBVIOUS
<1>1. PICK D : D = 1 .. N OBVIOUS
<1>2. IsFiniteSet(D) BY <1>0, <1>1, FS_Interval
<1> DEFINE V == {pool \in SUBSET SUBSET Players : PoolFits(pool, gs, t, d)}
           F == [z \in D \X V |-> AddNormal(z[2], gs[z[1]], t, d)]
           ch == [s \in SUBSET D |-> Max(s)]
<1>3. PICK base \in V : base = {}
  <2>1. PICK x : x = {} OBVIOUS
  <2>2. UNION x = {} BY <2>1
  <2>3. Cardinality(UNION x) = 0 BY <2>2, FS_EmptySet
  <2>4. x \in SUBSET SUBSET Players /\ x \subseteq Normal(gs, t) BY <2>1
  <2>5. x \in V BY <2>3, <2>4 DEF PoolFits
  <2> QED BY <2>1, <2>5
<1>4. ASSUME NEW k \in D, NEW pool \in V PROVE AddNormal(pool, gs[k], t, d) \in V
  <2>1. k \in DOMAIN gs BY <1>0, <1>1
  <2> QED BY <2>1, AddNormalFits
<1>5. F \in [D \X V -> V] /\ \A k \in D, pool \in V : F[<<k, pool>>] = AddNormal(pool, gs[k], t, d)
  BY <1>4
<1>6. \A s \in SUBSET D : ch[s] = Max(s) /\ (s # {} => ch[s] \in s) BY <1>0, <1>1, MaxIn
<1> HIDE DEF V, F, ch
<1>7. PICK g : Folded(D, V, base, F, ch, g) BY <1>2, <1>5, <1>6, FoldExists
<1>8. \A s \in SUBSET D :
         g[s] = IF s = {} THEN {} ELSE AddNormal(g[s \ {Max(s)}], gs[Max(s)], t, d)
  <2> SUFFICES ASSUME NEW s \in SUBSET D
               PROVE  g[s] = IF s = {} THEN {} ELSE AddNormal(g[s \ {Max(s)}], gs[Max(s)], t, d)
    OBVIOUS
  <2>1. CASE s = {} BY <1>3, <1>7, <2>1 DEF Folded
  <2>2. CASE s # {}
    <3>1. PICK k \in D : k = Max(s) BY <1>6, <2>2
    <3>2. g[s] = F[<<k, g[s \ {k}]>>] BY <1>6, <1>7, <2>2, <3>1 DEF Folded
    <3>3. g[s \ {k}] \in V BY <1>7 DEF Folded
    <3> QED BY <1>5, <2>2, <3>1, <3>2, <3>3
  <2> QED BY <2>1, <2>2
<1>9. PoolSteps(gs, t, d, g)
  <2>1. g \in [SUBSET D -> V] BY <1>7 DEF Folded
  <2> QED BY <1>0, <1>1, <1>8, <2>1 DEF PoolSteps
<1>10. PICK h : /\ PoolSteps(gs, t, d, h)
                /\ Pool(gs, t, d) = h[D]
  BY <1>0, <1>1, <1>9, PoolIsFold
<1> DEFINE H == [s \in SUBSET D |->
                   IF s = {} THEN {} ELSE AddNormal(h[s \ {Max(s)}], gs[Max(s)], t, d)]
<1>11. h = H BY <1>0, <1>1, <1>10 DEF PoolSteps
<1>12. \A s \in SUBSET D :
          H[s] = IF s = {} THEN {} ELSE AddNormal(h[s \ {Max(s)}], gs[Max(s)], t, d)
  OBVIOUS
<1> HIDE DEF H
<1>13. PICK G : G = {s \in SUBSET D : h[s] \in V} OBVIOUS
<1>14. \A s \in SUBSET D : (\A x \in s : s \ {x} \in G) => s \in G
  <2> SUFFICES ASSUME NEW s \in SUBSET D, \A x \in s : s \ {x} \in G PROVE h[s] \in V BY <1>13
  <2>1. CASE s = {} BY <1>3, <1>11, <1>12, <2>1
  <2>2. CASE s # {}
    <3>1. PICK k \in D : k = Max(s) /\ k \in s BY <1>6, <2>2
    <3>2. h[s \ {k}] \in V BY <1>13, <3>1
    <3>3. h[s] = AddNormal(h[s \ {k}], gs[k], t, d) BY <1>11, <1>12, <2>2, <3>1
    <3> QED BY <1>4, <3>2, <3>3
  <2> QED BY <2>1, <2>2
<1>15. \A s \in SUBSET D : s \in G BY <1>2, <1>14, SubsetInduct
<1>16. h[D] \in V BY <1>13, <1>15
<1> QED BY <1>10, <1>16 DEF V

\* Groups of gs that wait, by their players; no group is chosen for both teams.
Pooled(gs, pools) ==
    /\ \A t \in Teams : \A P \in pools[t] : \E g \in ToSet(gs) : g.bg = None /\ g.players = P
    /\ \A t, u \in Teams : \A P \in pools[t] : P \in pools[u] => t = u

\* A group is known by its players, who are some.
LEMMA GroupOf ==
    ASSUME NEW gs, Queue(gs), NEW g \in ToSet(gs), NEW h \in ToSet(gs), g.players = h.players
    PROVE  g = h
<1>1. gs \in Seq(Group) BY DEF Queue
<1>2. g \in Group BY <1>1, ElementOf
<1>3. g.players # {} BY <1>2, GroupIs
<1>4. PICK p : p \in g.players BY <1>3
<1> QED BY <1>4, InOne

\* Groups of the team t that wait.
OfTeam(pool, gs, t) ==
    \A P \in pool : \E g \in ToSet(gs) : g.bg = None /\ g.side = t /\ g.players = P

\* Groups of one side each are not chosen for both.
LEMMA SidesApart ==
    ASSUME NEW gs, Queue(gs), NEW pools, \A t \in Teams : OfTeam(pools[t], gs, t)
    PROVE  Pooled(gs, pools)
<1>1. ASSUME NEW t \in Teams, NEW u \in Teams, NEW P \in pools[t], P \in pools[u] PROVE t = u
  <2>1. PICK g \in ToSet(gs) : g.side = t /\ g.players = P BY DEF OfTeam
  <2>2. PICK h \in ToSet(gs) : h.side = u /\ h.players = P BY <1>1 DEF OfTeam
  <2>3. g = h BY <2>1, <2>2, GroupOf
  <2> QED BY <2>1, <2>2, <2>3
<1> QED BY <1>1 DEF Pooled, OfTeam

\* No more players of each team than there are places free.
Few(pools, free) ==
    \A t \in Teams : /\ pools[t] \in SUBSET SUBSET Players
                     /\ Cardinality(UNION pools[t]) <= free[t]

LEMMA FillIs ==
    ASSUME NEW gs, Queue(gs), NEW free \in [Teams -> Nat], NEW pools, pools = Fill(gs, free)
    PROVE  /\ Pooled(gs, pools)
           /\ Few(pools, free)
<1>1. gs \in Seq(Group) BY DEF Queue
<1>2. ASSUME NEW t \in Teams
      PROVE  pools[t] \in SUBSET SUBSET Players /\ PoolFits(pools[t], gs, t, free[t])
  <2>1. PICK d \in Nat : d = free[t] OBVIOUS
  <2>2. pools[t] = {} \/ pools[t] = Pool(gs, t, d) BY <2>1 DEF Fill
  <2>3. CASE pools[t] = Pool(gs, t, d) BY <1>1, <2>1, <2>3, PoolIs
  <2>4. CASE pools[t] = {}
    <3>1. PICK x : x = pools[t] OBVIOUS
    <3>2. UNION x = {} BY <2>4, <3>1
    <3>3. Cardinality(UNION x) = 0 BY <3>2, FS_EmptySet
    <3>4. x \in SUBSET SUBSET Players /\ x \subseteq Normal(gs, t) BY <2>4, <3>1
    <3>5. Cardinality(UNION x) <= d BY <3>3
    <3>6. PoolFits(x, gs, t, d) BY <3>4, <3>5 DEF PoolFits
    <3> QED BY <2>1, <3>1, <3>4, <3>6
  <2> QED BY <2>2, <2>3, <2>4
<1>3. ASSUME NEW t \in Teams PROVE OfTeam(pools[t], gs, t)
  <2>1. PICK pool : pool = pools[t] OBVIOUS
  <2>2. pool \subseteq Normal(gs, t) BY <1>2, <2>1 DEF PoolFits
  <2>3. OfTeam(pool, gs, t) BY <2>2 DEF Normal, InNormal, OfTeam
  <2> QED BY <2>1, <2>3
<1>4. Pooled(gs, pools) BY <1>3, SidesApart
<1> QED BY <1>2, <1>4 DEF PoolFits, Few

-----------------------------------------------------------------------------
(* Inviting those chosen.                                                  *)

\* Nobody of gs has logged out.
Waits(gs) == \A p \in Players : p \in In(gs) => at[p] # "off"

Else(G, H, q) == \A k \in Queues \ {q} : H[k] = G[k]

LEMMA InviteHeld ==
    ASSUME NEW gs, Queue(gs), NEW b \in Bgs, NEW pools, Pooled(gs, pools),
           NEW r, r = InvitedGroups(gs, b, pools), NEW p \in Players, NEW c \in Bgs, NEW t \in Teams
    PROVE  /\ p \in Held(r, c, t) <=> p \in Held(gs, c, t) \/ (c = b /\ p \in UNION pools[t])
           /\ p \in UNION pools[t] => p \in In(gs) /\ p \notin Held(gs, c, t)
<1>1. gs \in Seq(Group) BY DEF Queue
<1>2. /\ r \in Seq(Group) /\ DOMAIN r = DOMAIN gs
      /\ \A i \in DOMAIN gs :
            /\ r[i].players = gs[i].players
            /\ (\A u \in Teams : gs[i].players \notin pools[u]) => r[i] = gs[i]
            /\ (\E u \in Teams : gs[i].players \in pools[u]) =>
                  /\ r[i].bg = b /\ r[i].left = InviteTime /\ r[i].list = gs[i].list
                  /\ r[i].side \in Teams /\ gs[i].players \in pools[r[i].side]
  BY InvitedIs
<1>3. c # None BY BgAssumption
<1>4. ASSUME NEW i \in DOMAIN gs, NEW u \in Teams, gs[i].players \in pools[u] PROVE gs[i].bg = None
  <2>1. PICK g \in ToSet(gs) : g.bg = None /\ g.players = gs[i].players BY <1>4 DEF Pooled
  <2>2. gs[i] \in ToSet(gs) BY <1>1, ElementOf
  <2>3. g = gs[i] BY <2>1, <2>2, GroupOf
  <2> QED BY <2>1, <2>3
<1>5. ASSUME p \in UNION pools[t]
      PROVE  \E i \in DOMAIN gs : p \in gs[i].players /\ gs[i].players \in pools[t]
  <2>1. PICK P \in pools[t] : p \in P BY <1>5
  <2>2. PICK g \in ToSet(gs) : g.players = P BY DEF Pooled
  <2>3. PICK i \in DOMAIN gs : g = gs[i] BY <1>1, ElementOf
  <2> QED BY <2>1, <2>2, <2>3
<1>6. ASSUME p \in Held(r, c, t) PROVE p \in Held(gs, c, t) \/ (c = b /\ p \in UNION pools[t])
  <2>1. PICK i \in DOMAIN gs : p \in r[i].players /\ r[i].bg = c /\ r[i].side = t
    BY <1>2, <1>6, HeldIs
  <2>2. CASE \A u \in Teams : gs[i].players \notin pools[u]
    <3>1. r[i] = gs[i] BY <1>2, <2>2
    <3> QED BY <1>1, <2>1, <3>1, HeldIs
  <2>3. CASE \E u \in Teams : gs[i].players \in pools[u]
    <3>1. r[i].bg = b /\ gs[i].players \in pools[r[i].side] /\ r[i].players = gs[i].players
      BY <1>2, <2>3
    <3> QED BY <2>1, <3>1
  <2> QED BY <2>2, <2>3
<1>7. ASSUME p \in Held(gs, c, t) PROVE p \in Held(r, c, t)
  <2>1. PICK i \in DOMAIN gs : p \in gs[i].players /\ gs[i].bg = c /\ gs[i].side = t
    BY <1>1, <1>7, HeldIs
  <2>2. \A u \in Teams : gs[i].players \notin pools[u] BY <1>3, <1>4, <2>1
  <2>3. r[i] = gs[i] BY <1>2, <2>2
  <2> QED BY <1>2, <2>1, <2>3, HeldIs
<1>8. ASSUME c = b, p \in UNION pools[t] PROVE p \in Held(r, c, t)
  <2>1. PICK i \in DOMAIN gs : p \in gs[i].players /\ gs[i].players \in pools[t] BY <1>5, <1>8
  <2>2. /\ r[i].bg = b /\ r[i].side \in Teams /\ gs[i].players \in pools[r[i].side]
        /\ r[i].players = gs[i].players
    BY <1>2, <2>1
  <2>3. r[i].side = t BY <2>1, <2>2 DEF Pooled
  <2> QED BY <1>2, <1>8, <2>1, <2>2, <2>3, HeldIs
<1>9. ASSUME p \in UNION pools[t] PROVE p \in In(gs) /\ p \notin Held(gs, c, t)
  <2>1. PICK i \in DOMAIN gs : p \in gs[i].players /\ gs[i].players \in pools[t] BY <1>5, <1>9
  <2>2. gs[i].bg = None BY <1>4, <2>1
  <2>3. p \in In(gs) BY <1>1, <2>1, InIs
  <2>4. SUFFICES ASSUME p \in Held(gs, c, t) PROVE FALSE BY <2>3
  <2>5. PICK j \in DOMAIN gs : p \in gs[j].players /\ gs[j].bg = c BY <1>1, <2>4, HeldIs
  <2>6. i = j BY <2>1, <2>5 DEF Queue, OneGroup
  <2> QED BY <1>3, <2>2, <2>5, <2>6
<1> QED BY <1>6, <1>7, <1>8, <1>9

LEMMA InviteExp ==
    ASSUME NEW G, NEW H, NEW q \in Queues, NEW gs, gs = G[q], Queue(gs), Waits(gs), NEW b \in Bgs,
           NEW pools, Pooled(gs, pools), H[q] = InvitedGroups(gs, b, pools), Else(G, H, q),
           NEW c \in Bgs, NEW t \in Teams
    PROVE  /\ c # b => Exp(H, mine, side, c, t) = Exp(G, mine, side, c, t)
           /\ Cardinality(Exp(H, mine, side, b, t))
                 = Cardinality(Exp(G, mine, side, b, t)) + Cardinality(Reachable(pools[t]))
<1>1. PICK r : r = H[q] OBVIOUS
<1>2. r = InvitedGroups(gs, b, pools) BY <1>1
<1>3. ASSUME NEW p \in Players, NEW m \in Bgs, NEW k \in Queues
      PROVE  p \in Held(H[k], m, t) <=>
                p \in Held(G[k], m, t) \/ (k = q /\ m = b /\ p \in UNION pools[t])
  <2>1. CASE k # q BY <2>1 DEF Else
  <2>2. CASE k = q
    <3>1. p \in Held(r, m, t) <=> p \in Held(gs, m, t) \/ (m = b /\ p \in UNION pools[t])
      BY <1>2, InviteHeld
    <3> QED BY <1>1, <2>2, <3>1
  <2> QED BY <2>1, <2>2
<1>4. PICK P : P = Reachable(pools[t]) OBVIOUS
<1>5. P \in SUBSET Players BY <1>4 DEF Reachable
<1>6. ASSUME NEW p \in Players PROVE p \in P <=> p \in UNION pools[t]
  <2>1. p \in UNION pools[t] => p \in In(gs) BY <1>2, InviteHeld
  <2> QED BY <1>4, <2>1 DEF Reachable, Waits
<1>7. None \notin Queues BY BgAssumption DEF Queues
<1>8. ASSUME c # b PROVE Exp(H, mine, side, c, t) = Exp(G, mine, side, c, t)
  <2>1. PICK E : E = Exp(G, mine, side, c, t) OBVIOUS
  <2>2. PICK F : F = Exp(H, mine, side, c, t) OBVIOUS
  <2>3. /\ \A o \in Players, k \in Queues : <<o, k>> \in E <=> o \in Held(G[k], c, t)
        /\ \A o \in Players : <<o, None>> \in E <=> mine[o] = c /\ side[o] = t
        /\ E \subseteq Players \X (Queues \cup {None})
    BY <2>1, ExpIs
  <2>4. /\ \A o \in Players, k \in Queues : <<o, k>> \in F <=> o \in Held(H[k], c, t)
        /\ \A o \in Players : <<o, None>> \in F <=> mine[o] = c /\ side[o] = t
        /\ F \subseteq Players \X (Queues \cup {None})
    BY <2>2, ExpIs
  <2>5. \A o \in Players, k \in Queues : <<o, k>> \in F <=> <<o, k>> \in E
    BY <1>3, <1>8, <2>3, <2>4
  <2>6. \A o \in Players : <<o, None>> \in F <=> <<o, None>> \in E BY <2>3, <2>4
  <2> QED BY <2>1, <2>2, <2>3, <2>4, <2>5, <2>6, SamePairs
<1>9. Cardinality(Exp(H, mine, side, b, t)) = Cardinality(Exp(G, mine, side, b, t)) + Cardinality(P)
  <2>1. PICK E : E = Exp(G, mine, side, b, t) OBVIOUS
  <2>2. PICK F : F = Exp(H, mine, side, b, t) OBVIOUS
  <2>3. /\ \A o \in Players, k \in Queues : <<o, k>> \in E <=> o \in Held(G[k], b, t)
        /\ \A o \in Players : <<o, None>> \in E <=> mine[o] = b /\ side[o] = t
        /\ E \subseteq Players \X (Queues \cup {None})
        /\ IsFiniteSet(E) /\ Cardinality(E) \in Nat
    BY <2>1, ExpIs
  <2>4. /\ \A o \in Players, k \in Queues : <<o, k>> \in F <=> o \in Held(H[k], b, t)
        /\ \A o \in Players : <<o, None>> \in F <=> mine[o] = b /\ side[o] = t
        /\ F \subseteq Players \X (Queues \cup {None})
    BY <2>2, ExpIs
  <2>5. PICK Q : Q = P \X {q} OBVIOUS
  <2>6. PICK U : U = E \cup Q OBVIOUS
  <2>7. U \in SUBSET (Players \X (Queues \cup {None})) BY <1>5, <2>3, <2>5, <2>6
  <2>8. \A o \in Players, k \in Queues : <<o, k>> \in F <=> <<o, k>> \in U
    BY <1>3, <1>6, <2>3, <2>4, <2>5, <2>6
  <2>9. \A o \in Players : <<o, None>> \in F <=> <<o, None>> \in U
    BY <1>7, <2>3, <2>4, <2>5, <2>6
  <2>10. F = U BY <2>4, <2>7, <2>8, <2>9, SamePairs
  <2>11. E \cap Q = {}
    <3> SUFFICES ASSUME NEW p \in P, <<p, q>> \in E PROVE FALSE BY <2>5
    <3>1. p \in Players /\ p \in UNION pools[t] BY <1>5, <1>6
    <3>2. p \notin Held(gs, b, t) BY <1>2, <3>1, InviteHeld
    <3> QED BY <2>3, <3>1, <3>2
  <2>12. IsFiniteSet(Q) /\ Cardinality(Q) = Cardinality(P) BY <1>5, <2>5, PairCard
  <2>13. Cardinality(E \cap Q) = 0 BY <2>11, FS_EmptySet
  <2>14. Cardinality(U) = Cardinality(E) + Cardinality(Q) - Cardinality(E \cap Q)
    BY <2>3, <2>6, <2>12, FS_Union
  <2>15. Cardinality(P) \in Nat BY <1>5, Finite
  <2> QED BY <2>1, <2>2, <2>3, <2>10, <2>12, <2>13, <2>14, <2>15
<1> QED BY <1>4, <1>8, <1>9

\* n counts those the battleground b expects.
CountsAt(n, G, b) == \A t \in Teams : Enough(n[t], Exp(G, mine, side, b, t))

\* Every other battleground expects those it did.
OthersSame(G, H, b) ==
    \A c \in Bgs \ {b}, t \in Teams : Exp(H, mine, side, c, t) = Exp(G, mine, side, c, t)

LEMMA InviteCounts ==
    ASSUME NEW G, NEW H, NEW q \in Queues, NEW gs, gs = G[q], Queue(gs), Waits(gs), NEW b \in Bgs,
           NEW pools, Pooled(gs, pools), H[q] = InvitedGroups(gs, b, pools), Else(G, H, q),
           NEW n \in [Teams -> Nat], CountsAt(n, G, b)
    PROVE  CountsAt(Counted(n, pools), H, b) /\ OthersSame(G, H, b)
<1>1. \A c \in Bgs, t \in Teams :
         /\ c # b => Exp(H, mine, side, c, t) = Exp(G, mine, side, c, t)
         /\ Cardinality(Exp(H, mine, side, b, t))
               = Cardinality(Exp(G, mine, side, b, t)) + Cardinality(Reachable(pools[t]))
  BY InviteExp
<1>2. OthersSame(G, H, b) BY <1>1 DEF OthersSame
<1>3. \A t \in Teams : Counted(n, pools)[t] = n[t] + Cardinality(Reachable(pools[t])) BY DEF Counted
<1>4. ASSUME NEW t \in Teams PROVE Enough(Counted(n, pools)[t], Exp(H, mine, side, b, t))
  <2>1. PICK E : E = Exp(G, mine, side, b, t) OBVIOUS
  <2>2. PICK F : F = Exp(H, mine, side, b, t) OBVIOUS
  <2>3. PICK P : P = Reachable(pools[t]) OBVIOUS
  <2>4. P \in SUBSET Players BY <2>3 DEF Reachable
  <2>5. PICK k \in Nat : k = Cardinality(P) BY <2>4, Finite
  <2>6. PICK m \in Nat : m = n[t] OBVIOUS
  <2>7. IsFiniteSet(E) BY <2>1, ExpIs
  <2>8. Enough(m, E) BY <2>1, <2>6 DEF CountsAt
  <2>9. Cardinality(F) = Cardinality(E) + k BY <1>1, <2>1, <2>2, <2>3, <2>5
  <2>10. Enough(m + k, F) BY <2>7, <2>8, <2>9, EnoughMore
  <2> QED BY <1>3, <2>2, <2>3, <2>5, <2>6, <2>10
<1>5. CountsAt(Counted(n, pools), H, b) BY <1>4 DEF CountsAt
<1> QED BY <1>2, <1>5

\* What such a step makes of all the counts.
LEMMA CountsNext ==
    ASSUME CountInv, UNCHANGED <<at, mine, side>>, NEW b \in Bgs, NEW n \in [Teams -> Nat],
           invited' = [invited EXCEPT ![b] = n], CountsAt(n, groups', b),
           OthersSame(groups, groups', b), status'[b] # "none",
           \A c \in Bgs \ {b} : status'[c] = status[c]
    PROVE  IdMeansAway' /\ Counts(invited', status', groups', mine', side')
<1>1. IdMeansAway /\ TypeRest /\ Counts(invited, status, groups, mine, side)
  BY CountInvIs, QueueInvIs
<1>2. PICK H : H = groups' OBVIOUS
<1>3. PICK inv : inv = invited' OBVIOUS
<1>4. inv[b] = n /\ \A c \in Bgs \ {b} : inv[c] = invited[c] BY <1>1, <1>3 DEF TypeRest
<1>5. CountsAt(n, H, b) /\ OthersSame(groups, H, b) BY <1>2
<1>6. ASSUME NEW c \in Bgs, NEW t \in Teams
      PROVE  /\ Enough(inv[c][t], Exp(H, mine, side, c, t))
             /\ status'[c] = "none" => Exp(H, mine, side, c, t) = {}
  <2>1. CASE c = b BY <1>4, <1>5, <2>1 DEF CountsAt
  <2>2. CASE c # b BY <1>1, <1>4, <1>5, <2>2 DEF Counts, OthersSame
  <2> QED BY <2>1, <2>2
<1>7. Counts(inv, status', H, mine, side) BY <1>6 DEF Counts
<1> QED BY <1>1, <1>2, <1>3, <1>7, IdStays

\* Before it is created a battleground expects nobody.
LEMMA NobodyCounts ==
    ASSUME CountInv, NEW b \in Bgs, status[b] = "none"
    PROVE  CountsAt(Nobody, groups, b)
<1>1. \A t \in Teams : Exp(groups, mine, side, b, t) = {} BY CountInvIs DEF Counts
<1>2. \A E : E = {} => Enough(0, E) BY EnoughNone
<1> QED BY <1>1, <1>2 DEF CountsAt, Nobody

LEMMA InviteCount ==
    ASSUME CountInv, NEW q \in Queues, NEW b \in Bgs, NEW gs, gs = groups[q],
           NEW count \in [Teams -> Nat], NEW pools, Invite(q, b, gs, count, pools),
           Pooled(gs, pools), CountsAt(count, groups, b), status'[b] # "none",
           \A c \in Bgs \ {b} : status'[c] = status[c]
    PROVE  IdMeansAway' /\ Counts(invited', status', groups', mine', side')
<1>1. Queue(gs) BY CountInvIs, QueueIs
<1>2. Waits(gs) BY CountInvIs, QueueIs DEF Waits
<1>3. PICK H : H = groups' OBVIOUS
<1>4. groups \in [Queues -> Seq(Group)] BY CountInvIs, QueueIs DEF TypeQueues
<1>5. H[q] = InvitedGroups(gs, b, pools) /\ Else(groups, H, q) BY <1>3, <1>4 DEF Invite, Else
<1>6. PICK n \in [Teams -> Nat] : n = Counted(count, pools) BY CountedType
<1>7. CountsAt(Counted(count, pools), H, b) /\ OthersSame(groups, H, b)
  BY <1>1, <1>2, <1>5, InviteCounts
<1>8. CountsAt(n, groups', b) /\ OthersSame(groups, groups', b) BY <1>3, <1>6, <1>7
<1>9. UNCHANGED <<at, mine, side>> /\ invited' = [invited EXCEPT ![b] = n] BY <1>6 DEF Invite
<1> QED BY <1>8, <1>9, CountsNext

LEMMA FreeSlotsIs ==
    ASSUME NEW st, NEW inv \in [Teams -> Nat], NEW in \in [Teams -> Nat], NEW t \in Teams
    PROVE  /\ FreeSlots(st, inv, in, t) \in Nat
           /\ inv[t] <= MaxPlayers => inv[t] + FreeSlots(st, inv, in, t) <= MaxPlayers
<1>1. Other(t) \in Teams
  <2>1. \E u \in Teams : u # t BY DEF Teams
  <2> QED BY <2>1 DEF Other
<1>2. MaxPlayers \in Nat /\ MinPlayers \in Nat BY BgAssumption
<1>3. PICK o \in Teams : o = Other(t) BY <1>1
<1>4. inv[o] \in Nat /\ inv[t] \in Nat /\ in[o] \in Nat /\ in[t] \in Nat OBVIOUS
<1>5. PICK d1 \in Nat : d1 = IF inv[o] = inv[t] THEN 1
                             ELSE IF inv[t] < inv[o] THEN inv[o] - inv[t] ELSE 0
  BY <1>4
<1>6. PICK d2 \in Nat : d2 = IF inv[t] < MaxPlayers THEN MaxPlayers - inv[t] ELSE 0 BY <1>2, <1>4
<1>7. PICK d3 \in Nat : d3 = IF in[o] = in[t] THEN 1
                             ELSE IF in[o] > in[t] THEN in[o] - in[t]
                             ELSE IF inv[t] <= MinPlayers THEN MinPlayers - inv[t] + 1 ELSE 0
  BY <1>2, <1>4
<1>8. FreeSlots(st, inv, in, t) = (CASE st = "join" -> d2
                                     [] st = "progress" -> Min({d1, d2, d3})
                                     [] OTHER -> 0)
  BY <1>3, <1>5, <1>6, <1>7 DEF FreeSlots
<1>9. Min({d1, d2, d3}) \in {d1, d2, d3} /\ Min({d1, d2, d3}) <= d2
  <2>1. PICK S : S = {d1, d2, d3} OBVIOUS
  <2>2. S \subseteq Nat /\ S # {} /\ d2 \in S BY <2>1
  <2>3. \E x \in S : \A y \in S : x <= y BY <2>2, NatMin
  <2>4. Min(S) \in S /\ \A y \in S : Min(S) <= y BY <2>3 DEF Min
  <2> QED BY <2>1, <2>2, <2>4
<1>10. PICK m \in Nat : m = Min({d1, d2, d3}) /\ m <= d2 BY <1>9
<1>11. PICK f \in Nat : f = FreeSlots(st, inv, in, t) /\ f <= d2 BY <1>8, <1>10
<1>12. inv[t] <= MaxPlayers => inv[t] + f <= MaxPlayers BY <1>2, <1>4, <1>6, <1>11
<1> QED BY <1>11, <1>12

LEMMA EnteredType ==
    ASSUME NEW b
    PROVE  Entered(b) \in [Teams -> Nat]
<1>1. ASSUME NEW t \in Teams PROVE Cardinality({p \in Inside(b) : side[p] = t}) \in Nat
  <2>1. PICK P : P = {p \in Inside(b) : side[p] = t} OBVIOUS
  <2>2. P \in SUBSET Players BY <2>1 DEF Inside
  <2> QED BY <2>1, <2>2, Finite
<1> QED BY <1>1 DEF Entered

LEMMA PremadeIs ==
    ASSUME QueueInv, NEW q \in Queues, NEW t \in Teams, NEW pool, pool = Premade(q, t)
    PROVE  /\ pool \in SUBSET SUBSET Players /\ Cardinality(UNION pool) <= MaxPlayers
           /\ OfTeam(pool, groups[q], t)
<1>1. groups[q] \in Seq(Group) BY QueueIs
<1>2. PICK able : able = {i \in DOMAIN groups[q] :
                            LET g == groups[q][i]
                            IN  /\ g.list = "premade" /\ g.side = t /\ g.bg = None
                                /\ Cardinality(g.players) >= MinPlayers}
  OBVIOUS
<1>3. \A i \in able : i \in DOMAIN groups[q] /\ groups[q][i].side = t BY <1>2
<1>4. PICK none : none = {} OBVIOUS
<1>5. none \in SUBSET SUBSET Players /\ Cardinality(UNION none) <= MaxPlayers
  <2>1. UNION none = {} BY <1>4
  <2>2. Cardinality(UNION none) = 0 BY <2>1, FS_EmptySet
  <2> QED BY <1>4, <2>2, BgAssumption
<1>6. CASE able = {}
  <2>1. pool = none BY <1>2, <1>4, <1>6 DEF Premade
  <2> QED BY <1>4, <1>5, <2>1 DEF OfTeam
<1>7. CASE able # {}
  <2>1. able \subseteq Nat
    <3>1. DOMAIN groups[q] \subseteq Nat BY <1>1
    <3> QED BY <1>3, <3>1
  <2>2. \E x \in able : \A y \in able : x <= y BY <1>7, <2>1, NatMin
  <2>3. Min(able) \in able BY <2>2 DEF Min
  <2>4. PICK i \in able : i = Min(able) BY <2>3
  <2>5. PICK g : g = groups[q][i] OBVIOUS
  <2>6. g \in Group /\ g \in ToSet(groups[q]) /\ g.side = t BY <1>1, <1>3, <2>5, ElementOf
  <2>7. pool = AddGroup(none, g, MaxPlayers) BY <1>2, <1>4, <1>7, <2>4, <2>5 DEF Premade
  <2>8. /\ pool \in SUBSET SUBSET Players /\ Cardinality(UNION pool) <= MaxPlayers
        /\ \A P \in pool : P \in none \/ (g.bg = None /\ P = g.players)
    <3>1. PICK d \in Nat : d = MaxPlayers BY BgAssumption
    <3>2. none \in SUBSET SUBSET Players /\ Cardinality(UNION none) <= d BY <1>5, <3>1
    <3>3. pool = AddGroup(none, g, d) BY <2>7, <3>1
    <3>4. /\ pool \in SUBSET SUBSET Players /\ Cardinality(UNION pool) <= d
          /\ \A P \in pool : P \in none \/ (g.bg = None /\ P = g.players)
      BY <2>6, <3>2, <3>3, AddGroupFits
    <3> QED BY <3>1, <3>4
  <2> QED BY <1>4, <2>6, <2>8 DEF OfTeam
<1> QED BY <1>6, <1>7

\* A new battleground, and nothing else changes its status.
LEMMA CreateStatus ==
    ASSUME QueueInv, NEW q, NEW b \in Bgs, Create(q, b)
    PROVE  /\ status[b] = "none" /\ status'[b] # "none"
           /\ \A c \in Bgs \ {b} : status'[c] = status[c]
           /\ kind'[b] = q /\ \A c \in Bgs \ {b} : kind'[c] = kind[c]
BY QueueIs DEF Create, TypeRest

LEMMA FillCount ==
    ASSUME CountInv, NEW q \in Queues, NEW b \in Bgs, FillBattleground(q, b)
    PROVE  CountInv'
<1>1. QueueInv /\ TypeRest /\ Queue(groups[q]) BY CountInvIs, QueueIs
<1>2. QueueInv' BY <1>1, FillQueue
<1>3. PICK gs : gs = groups[q] OBVIOUS
<1>4. PICK count \in [Teams -> Nat] : count = invited[b] BY <1>1 DEF TypeRest
<1>5. PICK free : free = [t \in Teams |-> FreeSlots(status[b], count, Entered(b), t)] OBVIOUS
<1>6. free \in [Teams -> Nat] BY <1>5, FreeSlotsIs, EnteredType
<1>7. PICK pools : pools = Fill(gs, free) OBVIOUS
<1>8. Invite(q, b, gs, count, pools) /\ status[b] \in {"join", "progress"} /\ UNCHANGED status
  BY <1>3, <1>4, <1>5, <1>7 DEF FillBattleground
<1>9. Queue(gs) BY <1>1, <1>3
<1>10. Pooled(gs, pools) BY <1>6, <1>7, <1>9, FillIs
<1>11. CountsAt(count, groups, b) BY <1>4, CountInvIs DEF CountsAt, Counts
<1>12. status'[b] # "none" /\ \A c \in Bgs \ {b} : status'[c] = status[c] BY <1>8
<1>13. IdMeansAway' /\ Counts(invited', status', groups', mine', side')
  BY <1>3, <1>8, <1>10, <1>11, <1>12, InviteCount
<1> QED BY <1>2, <1>13, CountInvIs

LEMMA CreateNormalCount ==
    ASSUME CountInv, NEW q \in Queues, NEW b \in Bgs, CreateNormal(q, b)
    PROVE  CountInv'
<1>1. QueueInv /\ TypeRest /\ Queue(groups[q]) BY CountInvIs, QueueIs
<1>2. QueueInv' BY <1>1, CreateNormalQueue
<1>3. PICK gs : gs = groups[q] OBVIOUS
<1>4. PICK count \in [Teams -> Nat] : count = Nobody BY NobodyType
<1>5. PICK free : free = [t \in Teams |-> MaxPlayers] OBVIOUS
<1>6. free \in [Teams -> Nat] BY <1>5, BgAssumption
<1>7. PICK pools : pools = Fill(gs, free) OBVIOUS
<1>8. Invite(q, b, gs, count, pools) /\ Create(q, b)
  BY <1>3, <1>4, <1>5, <1>7 DEF CreateNormal
<1>9. Queue(gs) BY <1>1, <1>3
<1>10. Pooled(gs, pools) BY <1>6, <1>7, <1>9, FillIs
<1>11. /\ status[b] = "none" /\ status'[b] # "none"
       /\ \A c \in Bgs \ {b} : status'[c] = status[c]
  BY <1>1, <1>8, CreateStatus
<1>12. CountsAt(count, groups, b) BY <1>4, <1>11, NobodyCounts
<1>13. IdMeansAway' /\ Counts(invited', status', groups', mine', side')
  BY <1>3, <1>8, <1>10, <1>11, <1>12, InviteCount
<1> QED BY <1>2, <1>13, CountInvIs

\* The two teams of a rated match.
LEMMA ArenaPools ==
    ASSUME QueueInv, NEW q \in Queues, NEW i \in DOMAIN groups[q], NEW j \in DOMAIN groups[q], i # j,
           groups[q][i].bg = None, groups[q][j].bg = None, NEW T \in Teams, NEW pools,
           pools = [t \in Teams |-> {IF t = T THEN groups[q][i].players ELSE groups[q][j].players}]
    PROVE  Pooled(groups[q], pools)
<1>1. PICK gs : gs = groups[q] OBVIOUS
<1>2. Queue(gs) /\ gs \in Seq(Group) BY <1>1, QueueIs
<1>3. gs[i] \in ToSet(gs) /\ gs[j] \in ToSet(gs) /\ gs[i] \in Group BY <1>1, <1>2, ElementOf
<1>4. gs[i].players # gs[j].players
  <2>1. SUFFICES ASSUME gs[i].players = gs[j].players PROVE FALSE OBVIOUS
  <2>2. gs[i].players # {} /\ gs[i].players \subseteq Players BY <1>3, GroupIs
  <2>3. PICK p \in Players : p \in gs[i].players BY <2>2
  <2>4. i = j BY <1>1, <1>2, <2>1, <2>3 DEF Queue, OneGroup
  <2> QED BY <2>4
<1>5. \A t \in Teams : pools[t] = {IF t = T THEN gs[i].players ELSE gs[j].players} BY <1>1
<1>6. \A t \in Teams : \A P \in pools[t] : \E g \in ToSet(gs) : g.bg = None /\ g.players = P
  BY <1>1, <1>3, <1>5
<1>7. \A t, u \in Teams : (t = T /\ u = T) \/ (t # T /\ u # T) => t = u BY DEF Teams
<1>8. ASSUME NEW t \in Teams, NEW u \in Teams, NEW P \in pools[t], P \in pools[u] PROVE t = u
  <2>1. P = IF t = T THEN gs[i].players ELSE gs[j].players BY <1>5
  <2>2. P = IF u = T THEN gs[i].players ELSE gs[j].players BY <1>5, <1>8
  <2>3. (t = T /\ u = T) \/ (t # T /\ u # T) BY <1>4, <2>1, <2>2
  <2> QED BY <1>7, <2>3
<1>9. Pooled(gs, pools) BY <1>6, <1>8 DEF Pooled
<1> QED BY <1>1, <1>9

LEMMA CreateArenaCount ==
    ASSUME CountInv, NEW q \in Queues, NEW b \in Bgs, NEW i \in DOMAIN groups[q],
           NEW j \in DOMAIN groups[q], CreateArena(q, b, i, j)
    PROVE  CountInv'
<1>1. QueueInv /\ groups[q] \in Seq(Group) BY CountInvIs, QueueIs
<1>2. QueueInv' BY <1>1, CreateArenaQueue
<1>3. PICK gs : gs = groups[q] OBVIOUS
<1>4. PICK T \in Teams : T = gs[i].side
  <2>1. gs[i] \in Group BY <1>1, <1>3, ElementOf
  <2> QED BY <2>1, GroupIs
<1>5. PICK count \in [Teams -> Nat] : count = Nobody BY NobodyType
<1>6. PICK pools : pools = [t \in Teams |-> {IF t = T THEN gs[i].players ELSE gs[j].players}]
  OBVIOUS
<1>7. /\ i # j /\ gs[i].bg = None /\ gs[j].bg = None
      /\ Create(q, b) /\ Invite(q, b, gs, count, pools)
  BY <1>3, <1>4, <1>5, <1>6 DEF CreateArena
<1>8. Pooled(gs, pools) BY <1>1, <1>3, <1>6, <1>7, ArenaPools
<1>9. /\ status[b] = "none" /\ status'[b] # "none"
      /\ \A c \in Bgs \ {b} : status'[c] = status[c]
  BY <1>1, <1>7, CreateStatus
<1>10. CountsAt(count, groups, b) BY <1>5, <1>9, NobodyCounts
<1>11. IdMeansAway' /\ Counts(invited', status', groups', mine', side')
  BY <1>3, <1>7, <1>8, <1>9, <1>10, InviteCount
<1> QED BY <1>2, <1>11, CountInvIs

\* Two premade groups are invited, and more after them.
LEMMA CreatePremadeCount ==
    ASSUME CountInv, NEW q \in Queues, NEW b \in Bgs, CreatePremade(q, b)
    PROVE  CountInv'
<1>1. /\ QueueInv /\ Queue(groups[q]) /\ Waits(groups[q])
      /\ groups \in [Queues -> Seq(Group)] /\ invited \in [Bgs -> [Teams -> Nat]]
  BY CountInvIs, QueueIs DEF Waits, TypeQueues, TypeRest
<1>2. QueueInv' BY <1>1, CreatePremadeQueue
<1>3. PICK old : old = groups[q] OBVIOUS
<1>4. PICK first : first = [t \in Teams |-> Premade(q, t)] OBVIOUS
<1>5. PICK gs : gs = InvitedGroups(old, b, first) OBVIOUS
<1>6. PICK nobody \in [Teams -> Nat] : nobody = Nobody BY NobodyType
<1>7. PICK count \in [Teams -> Nat] : count = Counted(nobody, first) BY CountedType
<1>8. PICK free : free = [t \in Teams |-> FreeSlots("join", count, nobody, t)] OBVIOUS
<1>9. free \in [Teams -> Nat] BY <1>8, FreeSlotsIs
<1>10. PICK then : then = Fill(gs, free) OBVIOUS
<1>11. PICK n \in [Teams -> Nat] : n = Counted(count, then) BY CountedType
<1>12. PICK r : r = InvitedGroups(gs, b, then) OBVIOUS
<1>13. /\ Create(q, b) /\ groups' = [groups EXCEPT ![q] = r] /\ invited' = [invited EXCEPT ![b] = n]
       /\ UNCHANGED <<at, slots, mine, side>>
  BY <1>3, <1>4, <1>5, <1>6, <1>7, <1>8, <1>10, <1>11, <1>12 DEF CreatePremade
<1>14. ASSUME NEW t \in Teams PROVE OfTeam(first[t], old, t)
  <2>1. PICK pool : pool = Premade(q, t) OBVIOUS
  <2>2. OfTeam(pool, groups[q], t) BY <1>1, <2>1, PremadeIs
  <2> QED BY <1>3, <1>4, <2>1, <2>2
<1>15. Queue(old) /\ Waits(old) BY <1>1, <1>3
<1>16. Pooled(old, first) BY <1>14, <1>15, SidesApart
<1>17. SameMembers(old, gs) BY <1>5, <1>15, InvitedIs
<1>18. Queue(gs) /\ Waits(gs) BY <1>15, <1>17 DEF SameMembers, Waits
<1>19. Pooled(gs, then) BY <1>9, <1>10, <1>18, FillIs
<1>20. PICK G : G = [groups EXCEPT ![q] = gs] OBVIOUS
<1>21. G[q] = gs /\ Else(groups, G, q) BY <1>1, <1>20 DEF Else
<1>22. PICK H : H = groups' OBVIOUS
<1>23. H[q] = r /\ Else(G, H, q) BY <1>1, <1>13, <1>21, <1>22 DEF Else
<1>24. /\ status[b] = "none" /\ status'[b] # "none"
       /\ \A c \in Bgs \ {b} : status'[c] = status[c]
  BY <1>1, <1>13, CreateStatus
<1>25. CountsAt(nobody, groups, b) BY <1>6, <1>24, NobodyCounts
<1>26. G[q] = InvitedGroups(old, b, first) BY <1>5, <1>21
<1>27. CountsAt(Counted(nobody, first), G, b) /\ OthersSame(groups, G, b)
  BY <1>3, <1>15, <1>16, <1>21, <1>25, <1>26, InviteCounts
<1>28. CountsAt(count, G, b) BY <1>7, <1>27
<1>29. H[q] = InvitedGroups(gs, b, then) BY <1>12, <1>23
<1>30. CountsAt(Counted(count, then), H, b) /\ OthersSame(G, H, b)
  BY <1>18, <1>19, <1>21, <1>23, <1>28, <1>29, InviteCounts
<1>31. OthersSame(groups, H, b) BY <1>27, <1>30 DEF OthersSame
<1>32. CountsAt(n, groups', b) /\ OthersSame(groups, groups', b) BY <1>11, <1>22, <1>30, <1>31
<1>33. IdMeansAway' /\ Counts(invited', status', groups', mine', side')
  BY <1>13, <1>24, <1>32, CountsNext
<1> QED BY <1>2, <1>33, CountInvIs

\* Groups that change neither their players nor their invitation.
LEMMA SameBg ==
    ASSUME NEW gs \in Seq(Group), NEW r \in Seq(Group), NEW e \in [DOMAIN r -> DOMAIN gs],
           \A i \in DOMAIN gs : \E j \in DOMAIN r : e[j] = i,
           \A j \in DOMAIN r : /\ r[j].players = gs[e[j]].players
                               /\ r[j].bg = gs[e[j]].bg /\ r[j].side = gs[e[j]].side
    PROVE  SameHeld(gs, r)
<1> SUFFICES ASSUME NEW p \in Players, NEW b \in Bgs, NEW t \in Teams
             PROVE  p \in Held(gs, b, t) <=> p \in Held(r, b, t)
  BY DEF SameHeld
<1>1. ASSUME p \in Held(r, b, t) PROVE p \in Held(gs, b, t)
  <2>1. PICK j \in DOMAIN r : p \in r[j].players /\ r[j].bg = b /\ r[j].side = t BY <1>1, HeldIs
  <2>2. e[j] \in DOMAIN gs OBVIOUS
  <2>3. p \in gs[e[j]].players /\ gs[e[j]].bg = b /\ gs[e[j]].side = t BY <2>1
  <2> QED BY <2>2, <2>3, HeldIs
<1>2. ASSUME p \in Held(gs, b, t) PROVE p \in Held(r, b, t)
  <2>1. PICK i \in DOMAIN gs : p \in gs[i].players /\ gs[i].bg = b /\ gs[i].side = t BY <1>2, HeldIs
  <2>2. PICK j \in DOMAIN r : e[j] = i OBVIOUS
  <2>3. p \in r[j].players /\ r[j].bg = b /\ r[j].side = t BY <2>1, <2>2
  <2> QED BY <2>3, HeldIs
<1> QED BY <1>1, <1>2

LEMMA TickCount ==
    ASSUME CountInv, Tick
    PROVE  CountInv'
<1>1. QueueInv /\ IdMeansAway BY CountInvIs
<1>2. QueueInv' BY <1>1, TickQueue
<1>3. UNCHANGED <<at, mine, side, status, invited>> BY DEF Tick
<1>4. ASSUME NEW q \in Queues PROVE SameHeld(groups[q], groups'[q])
  <2>1. PICK gs : gs = groups[q] OBVIOUS
  <2>2. PICK r : r = groups'[q] OBVIOUS
  <2>3. gs \in Seq(Group) BY <1>1, <2>1, QueueIs
  <2>4. r \in Seq(Group) BY <1>2, <2>2, QueueInvIs DEF TypeQueues
  <2>5. r = [i \in DOMAIN gs |-> [gs[i] EXCEPT !.left = IF @ > 0 THEN @ - 1 ELSE 0]]
    BY <2>1, <2>2 DEF Tick
  <2>6. DOMAIN r = DOMAIN gs BY <2>5
  <2>7. ASSUME NEW i \in DOMAIN gs
        PROVE  r[i].players = gs[i].players /\ r[i].bg = gs[i].bg /\ r[i].side = gs[i].side
    <3>1. PICK g \in Group : g = gs[i] BY <2>3
    <3>2. r[i] = [g EXCEPT !.left = IF @ > 0 THEN @ - 1 ELSE 0] BY <2>5, <3>1
    <3>3. r[i].players = g.players /\ r[i].bg = g.bg /\ r[i].side = g.side BY <3>2 DEF Group
    <3> QED BY <3>1, <3>3
  <2>8. PICK e : e = [i \in DOMAIN gs |-> i] OBVIOUS
  <2>9. e \in [DOMAIN r -> DOMAIN gs] /\ \A i \in DOMAIN gs : e[i] = i BY <2>6, <2>8
  <2>10. SameHeld(gs, r)
    <3>1. \A i \in DOMAIN gs : \E j \in DOMAIN r : e[j] = i BY <2>6, <2>9
    <3>2. \A j \in DOMAIN r : /\ r[j].players = gs[e[j]].players
                              /\ r[j].bg = gs[e[j]].bg /\ r[j].side = gs[e[j]].side
      BY <2>6, <2>7, <2>9
    <3> QED BY <2>3, <2>4, <2>9, <3>1, <3>2, SameBg
  <2> QED BY <2>1, <2>2, <2>10
<1>5. Counts(invited', status', groups', mine', side') BY <1>3, <1>4, CountsStay
<1> QED BY <1>1, <1>2, <1>3, <1>5, CountInvIs, IdStays

LEMMA MoveCount ==
    ASSUME CountInv, NEW q \in Queues, NEW i \in DOMAIN groups[q], MoveToNormal(q, i)
    PROVE  CountInv'
<1>1. QueueInv /\ IdMeansAway BY CountInvIs
<1>2. QueueInv' BY <1>1, MoveQueue
<1>3. UNCHANGED <<at, mine, side, status, invited>> BY DEF MoveToNormal
<1>4. PICK gs : gs = groups[q] OBVIOUS
<1>5. Queue(gs) /\ gs \in Seq(Group) BY <1>1, <1>4, QueueIs
<1>6. gs[i] \in Group BY <1>4, <1>5
<1>7. PICK x : x = [gs[i] EXCEPT !.list = "normal"] OBVIOUS
<1>8. /\ x \in Group /\ x.players = gs[i].players /\ x.bg = gs[i].bg /\ x.side = gs[i].side
  BY <1>6, <1>7 DEF Group
<1>9. PICK r : r = <<x>> \o RemoveAt(gs, i) OBVIOUS
<1>10. /\ r \in Seq(Group)
       /\ ToFront(gs, i, x, r)
  BY <1>4, <1>5, <1>8, <1>9, FrontIs
<1>11. PICK e \in [DOMAIN r -> DOMAIN gs] :
          /\ \A k \in DOMAIN gs : \E j \in DOMAIN r : e[j] = k
          /\ \A j \in DOMAIN r : r[j] = IF e[j] = i THEN x ELSE gs[e[j]]
  BY <1>10 DEF ToFront
<1>12. \A j \in DOMAIN r : /\ r[j].players = gs[e[j]].players
                           /\ r[j].bg = gs[e[j]].bg /\ r[j].side = gs[e[j]].side
  BY <1>8, <1>11
<1>13. SameHeld(gs, r) BY <1>5, <1>10, <1>11, <1>12, SameBg
<1>14. groups \in [Queues -> Seq(Group)] BY <1>1, QueueIs DEF TypeQueues
<1>15. groups' = [groups EXCEPT ![q] = r] BY <1>4, <1>7, <1>9, <1>14 DEF MoveToNormal
<1>16. ASSUME NEW k \in Queues PROVE SameHeld(groups[k], groups'[k])
  <2>1. CASE k = q
    <3>1. groups'[k] = r BY <1>14, <1>15, <2>1
    <3> QED BY <1>4, <1>13, <2>1, <3>1
  <2>2. CASE k # q
    <3>1. groups'[k] = groups[k] BY <1>14, <1>15, <2>2
    <3> QED BY <3>1 DEF SameHeld
  <2> QED BY <2>1, <2>2
<1>17. Counts(invited', status', groups', mine', side') BY <1>3, <1>16, CountsStay
<1> QED BY <1>1, <1>2, <1>3, <1>17, CountInvIs, IdStays

LEMMA LeaveQueueCount ==
    ASSUME CountInv, NEW p \in Players, NEW q \in Queues, LeaveQueue(p, q)
    PROVE  CountInv'
<1>1. QueueInv' BY LeaveQueueQueue, CountInvIs
<1>2. PICK R : R = {<<p, q>>} OBVIOUS
<1>3. R \in SUBSET (Players \X Queues) BY <1>2
<1>4. RemovePlayers(R) /\ UNCHANGED <<at, mine, side, status>> BY <1>2 DEF LeaveQueue
<1> QED BY <1>1, <1>3, <1>4, RemoveCount, CountInvIs

LEMMA ExecuteRemoveCount ==
    ASSUME CountInv, NEW e \in events, ExecuteRemove(e)
    PROVE  CountInv'
<1>1. QueueInv' BY ExecuteRemoveQueue, CountInvIs
<1>2. e.player \in Players /\ e.queue \in Queues BY CountInvIs, QueueIs DEF TypeRest
<1>3. PICK R : R = {<<e.player, e.queue>>} OBVIOUS
<1>4. R \in SUBSET (Players \X Queues) BY <1>2, <1>3
<1>5. UNCHANGED <<at, mine, side, status>> BY DEF ExecuteRemove
<1>6. RemovePlayers(R) \/ UNCHANGED <<slots, groups, invited>> BY <1>3 DEF ExecuteRemove
<1>7. CASE RemovePlayers(R) BY <1>1, <1>4, <1>5, <1>7, RemoveCount, CountInvIs
<1>8. CASE UNCHANGED <<slots, groups, invited>>
  <2>1. \A q \in Queues : SameHeld(groups[q], groups'[q]) BY <1>8 DEF SameHeld
  <2>2. Counts(invited', status', groups', mine', side') BY <1>5, <1>8, <2>1, CountsStay
  <2> QED BY <1>1, <1>5, <2>2, CountInvIs, IdStays
<1> QED BY <1>6, <1>7, <1>8

LEMMA StutterCount ==
    ASSUME CountInv, UNCHANGED vars
    PROVE  CountInv'
<1>1. UNCHANGED <<at, slots, mine, side, groups, events, status, kind, invited>> BY DEF vars
<1>2. QueueInv'
  <2>1. TypeRest' BY <1>1, CountInvIs, QueueIs DEF TypeRest
  <2>2. AwayHasId' BY <1>1, CountInvIs, QueueInvIs DEF AwayHasId
  <2> QED BY <1>1, <2>1, <2>2, SameQueues, CountInvIs
<1>3. \A q \in Queues : SameHeld(groups[q], groups'[q]) BY <1>1 DEF SameHeld
<1>4. Counts(invited', status', groups', mine', side') BY <1>1, <1>3, CountsStay
<1> QED BY <1>1, <1>2, <1>4, CountInvIs, IdStays

LEMMA CountInitially == Init => CountInv
<1> SUFFICES ASSUME Init PROVE CountInv OBVIOUS
<1>1. QueueInv BY QueueInitially
<1>2. IdMeansAway BY DEF Init, IdMeansAway
<1>3. ASSUME NEW b \in Bgs, NEW t \in Teams
      PROVE  invited[b][t] = 0 /\ Exp(groups, mine, side, b, t) = {}
  <2>1. PICK E : E = Exp(groups, mine, side, b, t) OBVIOUS
  <2>2. PICK none : none = {} OBVIOUS
  <2>3. /\ \A p \in Players, q \in Queues : <<p, q>> \in E <=> p \in Held(groups[q], b, t)
        /\ \A p \in Players : <<p, None>> \in E <=> mine[p] = b /\ side[p] = t
        /\ E \subseteq Players \X (Queues \cup {None})
    BY <2>1, ExpIs
  <2>4. ASSUME NEW p \in Players, NEW q \in Queues PROVE p \notin Held(groups[q], b, t)
    <3>1. PICK e : e = <<>> OBVIOUS
    <3>2. e \in Seq(Group) /\ DOMAIN e = {} BY <3>1
    <3>3. groups[q] = e BY <3>1 DEF Init
    <3> QED BY <3>2, <3>3, HeldIs
  <2>5. \A p \in Players : mine[p] # b BY BgAssumption DEF Init
  <2>6. \A p \in Players, q \in Queues : <<p, q>> \in E <=> <<p, q>> \in none BY <2>2, <2>3, <2>4
  <2>7. \A p \in Players : <<p, None>> \in E <=> <<p, None>> \in none BY <2>2, <2>3, <2>5
  <2>8. none \in SUBSET (Players \X (Queues \cup {None})) BY <2>2
  <2>9. E = none BY <2>3, <2>6, <2>7, <2>8, SamePairs
  <2> QED BY <2>1, <2>2, <2>9 DEF Init
<1>4. \A E : E = {} => Enough(0, E) BY EnoughNone
<1>5. Counts(invited, status, groups, mine, side) BY <1>3, <1>4 DEF Counts
<1> QED BY <1>1, <1>2, <1>5, CountInvIs

LEMMA MatchingCount ==
    ASSUME CountInv, Matching
    PROVE  CountInv'
<1>1. CASE \E q \in Queues, b \in Bgs : FillBattleground(q, b) BY <1>1, FillCount
<1>2. CASE \E q \in Queues, b \in Bgs : CreatePremade(q, b) BY <1>2, CreatePremadeCount
<1>3. CASE \E q \in Queues : \E i \in DOMAIN groups[q] : MoveToNormal(q, i) BY <1>3, MoveCount
<1>4. CASE \E q \in Queues, b \in Bgs : CreateNormal(q, b) BY <1>4, CreateNormalCount
<1>5. CASE \E q \in Queues, b \in Bgs : \E i, j \in DOMAIN groups[q] : CreateArena(q, b, i, j)
  BY <1>5, CreateArenaCount
<1> QED BY <1>1, <1>2, <1>3, <1>4, <1>5 DEF Matching

LEMMA CountStep ==
    ASSUME CountInv, [Next]_vars
    PROVE  CountInv'
<1>0. Leavers \subseteq Players /\ QueueInv BY BgAssumption, CountInvIs
<1>1. CASE Queueing BY <1>0, <1>1, QueueingIs, RequeuesCount, LeaveQueueCount
<1>2. CASE Matching BY <1>2, MatchingCount
<1>3. CASE \E p \in Players, q \in Queues : \E goes \in BOOLEAN : Accept(p, q, goes)
  BY <1>3, AcceptCount
<1>4. CASE \E p \in Players : Arrive(p) BY <1>4, ArriveCount
<1>5. CASE \E p \in Leavers : ArriveElsewhere(p) BY <1>0, <1>5, ReturnCount DEF ArriveElsewhere
<1>6. CASE \E p \in Leavers : LeaveBattleground(p) BY <1>0, <1>6, ReturnCount DEF LeaveBattleground
<1>7. CASE \E p \in Leavers : Logout(p) BY <1>0, <1>7, LogoutCount
<1>8. CASE \E p \in Players : Login(p) BY <1>8, ArriveCount
<1>9. CASE \E e \in events : ExecuteRemove(e) BY <1>9, ExecuteRemoveCount
<1>10. CASE Tick BY <1>10, TickCount
<1>11. CASE \E b \in Bgs : DeleteEmpty(b) BY <1>11, DeleteEmptyCount
<1>12. CASE \E b \in Bgs : \E st \in {"progress", "leave"} : Proceed(b, st) BY <1>12, ProceedCount
<1>13. CASE \E b \in Bgs : ProcessLeave(b) BY <1>13, ProcessLeaveCount
<1>14. CASE UNCHANGED vars BY <1>14, StutterCount
<1> QED BY <1>1, <1>2, <1>3, <1>4, <1>5, <1>6, <1>7, <1>8, <1>9, <1>10, <1>11, <1>12, <1>13, <1>14
    DEF Next

\* m_BgInvitedPlayers is exact: when every teleport that is accepted takes
\* place, whoever is invited, comes, declines, is late, queues again, leaves or
\* logs out, on any way, is counted once and taken off the count once.
THEOREM CountsExact ==
    ASSUME ~MayRefuse
    PROVE  Spec => []InvitedExactly
<1>1. CountInv /\ [Next]_vars => CountInv' BY CountStep
<1>2. CountInv => InvitedExactly
  <2>1. \A E : E = {} => Cardinality(E) = 0 BY FS_EmptySet
  <2> QED BY <2>1 DEF CountInv, CountsEnough, Enough, InvitedExactly
<1> QED BY <1>1, <1>2, CountInitially, PTL DEF Spec

-----------------------------------------------------------------------------
(* The places.  No team has more players than places when no count, which  *)
(* leaves nobody out, is larger than its places.                           *)

LEMMA IInvIs ==
    /\ IInv <=> CountInv /\ TeamsFitArena /\ Fits(invited, kind)
    /\ IInv' <=> CountInv' /\ TeamsFitArena' /\ Fits(invited', kind')
BY DEF IInv, Fits

LEMMA RoomType ==
    ASSUME NEW k
    PROVE  Room(k) \in Nat
BY BgAssumption DEF Room

\* No count of c is larger than the one of d.
Below(c, d) == \A b \in Bgs, t \in Teams : c[b][t] <= d[b][t]

LEMMA BelowFits ==
    ASSUME NEW c \in [Bgs -> [Teams -> Nat]], NEW d \in [Bgs -> [Teams -> Nat]], Below(c, d),
           NEW kd, Fits(d, kd)
    PROVE  Fits(c, kd)
<1> SUFFICES ASSUME NEW b \in Bgs, NEW t \in Teams PROVE c[b][t] <= Room(kd[b])
  BY DEF Fits
<1>1. PICK n \in Nat : n = Room(kd[b]) BY RoomType
<1>2. c[b][t] \in Nat /\ d[b][t] \in Nat OBVIOUS
<1>3. d[b][t] <= n /\ c[b][t] <= d[b][t] BY <1>1 DEF Fits, Below
<1> QED BY <1>1, <1>2, <1>3

LEMMA BelowTwice ==
    ASSUME NEW c \in [Bgs -> [Teams -> Nat]], NEW d \in [Bgs -> [Teams -> Nat]],
           NEW e \in [Bgs -> [Teams -> Nat]], Below(c, d), Below(d, e)
    PROVE  Below(c, e)
<1> SUFFICES ASSUME NEW b \in Bgs, NEW t \in Teams PROVE c[b][t] <= e[b][t]
  BY DEF Below
<1>1. c[b][t] \in Nat /\ d[b][t] \in Nat /\ e[b][t] \in Nat OBVIOUS
<1>2. c[b][t] <= d[b][t] /\ d[b][t] <= e[b][t] BY DEF Below
<1> QED BY <1>1, <1>2

LEMMA WithoutBelow ==
    ASSUME TypeRest, NEW R \in SUBSET (Players \X Queues)
    PROVE  Below(InvitedWithout(R), invited)
<1> SUFFICES ASSUME NEW b \in Bgs, NEW t \in Teams
             PROVE  InvitedWithout(R)[b][t] <= invited[b][t]
  BY DEF Below
<1>1. IsFiniteSet({r \in R : Awaited(r, b, t)}) BY Finite
<1>2. PICK n \in Nat : n = Cardinality({r \in R : Awaited(r, b, t)}) BY <1>1, FS_CardinalityType
<1>3. PICK c \in Nat : c = invited[b][t] BY DEF TypeRest
<1>4. InvitedWithout(R)[b][t] = Decreased(c, n) BY <1>2, <1>3 DEF InvitedWithout
<1>5. Decreased(c, n) <= c BY DEF Decreased
<1> QED BY <1>3, <1>4, <1>5

LEMMA CountWithoutBelow ==
    ASSUME TypeRest, NEW p \in Players, NEW c \in [Bgs -> [Teams -> Nat]]
    PROVE  Below(CountWithout(p, c), c)
<1> SUFFICES ASSUME NEW b \in Bgs, NEW t \in Teams
             PROVE  CountWithout(p, c)[b][t] <= c[b][t]
  BY DEF Below
<1>1. PICK n \in Nat : n = c[b][t] OBVIOUS
<1>2. Decreased(n, 1) <= n BY DEF Decreased
<1>3. CASE mine[p] = None BY <1>1, <1>3 DEF CountWithout
<1>4. CASE mine[p] # None
  <2>1. PICK m \in Bgs : m = mine[p] BY <1>4 DEF TypeRest
  <2>2. PICK u \in Teams : u = side[p] BY DEF TypeRest
  <2>3. CountWithout(p, c) = [c EXCEPT ![m][u] = Decreased(@, 1)] BY <1>4, <2>1, <2>2 DEF CountWithout
  <2>4. CountWithout(p, c)[b][t] = IF b = m /\ t = u THEN Decreased(n, 1) ELSE n
    BY <1>1, <2>3
  <2> QED BY <1>1, <1>2, <2>4
<1> QED BY <1>3, <1>4

\* Every group of r is a group of gs, or what is left of one.
Within(gs, r) == \A x \in ToSet(r) : \E g \in ToSet(gs) : x.players \subseteq g.players

SmallTeams(gs) == \A g \in ToSet(gs) : Cardinality(g.players) <= ArenaSize

LEMMA WithinSmall ==
    ASSUME NEW gs \in Seq(Group), SmallTeams(gs), NEW r \in Seq(Group), Within(gs, r)
    PROVE  SmallTeams(r)
<1> SUFFICES ASSUME NEW x \in ToSet(r) PROVE Cardinality(x.players) <= ArenaSize
  BY DEF SmallTeams
<1>1. PICK g \in ToSet(gs) : x.players \subseteq g.players BY DEF Within
<1>2. g \in Group /\ x \in Group BY ElementOf
<1>3. PICK P \in SUBSET Players : P = g.players BY <1>2, GroupIs
<1>4. PICK Q \in SUBSET Players : Q = x.players BY <1>2, GroupIs
<1>5. IsFiniteSet(P) /\ Cardinality(P) \in Nat /\ Cardinality(Q) \in Nat BY Finite
<1>6. Cardinality(Q) <= Cardinality(P) BY <1>1, <1>3, <1>4, <1>5, FS_Subset
<1>7. Cardinality(P) <= ArenaSize BY <1>3 DEF SmallTeams
<1>8. ArenaSize \in Nat BY BgAssumption
<1> QED BY <1>4, <1>5, <1>6, <1>7, <1>8

LEMMA WithinItself ==
    ASSUME NEW gs
    PROVE  Within(gs, gs)
BY DEF Within

LEMMA ArenaIs ==
    /\ TeamsFitArena <=> \A q \in Arenas : SmallTeams(groups[q])
    /\ TeamsFitArena' <=> \A q \in Arenas : SmallTeams(groups'[q])
BY DEF TeamsFitArena, SmallTeams

LEMMA ArenaStays ==
    ASSUME QueueInv, QueueInv', TeamsFitArena, \A q \in Arenas : Within(groups[q], groups'[q])
    PROVE  TeamsFitArena'
<1>1. \A q \in Arenas : groups[q] \in Seq(Group) /\ groups'[q] \in Seq(Group)
  BY QueueInvIs DEF TypeQueues, Queues
<1> QED BY <1>1, ArenaIs, WithinSmall

LEMMA LeftWithin ==
    ASSUME QueueInv, NEW R \in SUBSET (Players \X Queues), NEW q \in Queues
    PROVE  Within(groups[q], GroupsWithout(R)[q])
<1>1. Left(R, groups, GroupsWithout(R)) BY RemovedIs
<1>2. LeftBy(R, q, groups[q], GroupsWithout(R)[q]) BY <1>1 DEF Left
<1> QED BY <1>2 DEF LeftBy, Within

LEMMA RemoveFits ==
    ASSUME IInv, QueueInv', NEW R \in SUBSET (Players \X Queues), RemovePlayers(R), kind' = kind
    PROVE  TeamsFitArena' /\ Fits(invited', kind')
<1>1. CountInv /\ QueueInv /\ TeamsFitArena /\ Fits(invited, kind) /\ TypeRest
  BY IInvIs, CountInvIs, QueueInvIs
<1>2. PICK out \in SUBSET (Players \X Queues) : out = WithTeam(R) BY TeamLeaves
<1>3. groups' = GroupsWithout(out) /\ invited' = InvitedWithout(out) BY <1>2 DEF RemovePlayers
<1>4. \A q \in Queues : Within(groups[q], groups'[q]) BY <1>1, <1>3, LeftWithin
<1>5. TeamsFitArena' BY <1>1, <1>4, ArenaStays DEF Queues
<1>6. PICK inv \in [Bgs -> [Teams -> Nat]] : inv = InvitedWithout(out) BY <1>1, RemovedIs
<1>7. Below(inv, invited) BY <1>1, <1>6, WithoutBelow
<1>8. invited \in [Bgs -> [Teams -> Nat]] BY <1>1 DEF TypeRest
<1>9. Fits(inv, kind) BY <1>1, <1>7, <1>8, BelowFits
<1> QED BY <1>3, <1>5, <1>6, <1>9

LEMMA RequeuesFit ==
    ASSUME IInv, QueueInv', Requeues
    PROVE  TeamsFitArena' /\ Fits(invited', kind')
<1>1. CountInv /\ QueueInv /\ TeamsFitArena /\ Fits(invited, kind) /\ TypeRest
  BY IInvIs, CountInvIs, QueueInvIs
<1>2. PICK R \in SUBSET (Players \X Queues), P \in SUBSET Players, q \in Queues,
           list \in {"premade", "normal"}, may \in BOOLEAN :
              /\ P # {} /\ Requeue(R, P, q, list, may)
              /\ may => (q \in Arenas => Cardinality(P) = ArenaSize)
  BY DEF Requeues
<1>3. PICK out \in SUBSET (Players \X Queues) : out = WithTeam(R) BY TeamLeaves
<1>4. PICK inv \in [Bgs -> [Teams -> Nat]] : inv = InvitedWithout(out) BY <1>1, RemovedIs
<1>5. PICK gs : gs = GroupsWithout(out) OBVIOUS
<1>6. invited' = inv /\ kind' = kind BY <1>2, <1>3, <1>4 DEF Requeue
<1>7. Fits(invited', kind')
  <2>1. Below(inv, invited) BY <1>1, <1>4, WithoutBelow
  <2>2. invited \in [Bgs -> [Teams -> Nat]] BY <1>1 DEF TypeRest
  <2>3. Fits(inv, kind) BY <1>1, <2>1, <2>2, BelowFits
  <2> QED BY <1>6, <2>3
<1>8. \A k \in Queues : Within(groups[k], gs[k]) BY <1>1, <1>5, LeftWithin
<1>9. CASE ~may
  <2>1. groups' = gs BY <1>2, <1>3, <1>5, <1>9 DEF Requeue
  <2>2. TeamsFitArena' BY <1>1, <1>8, <2>1, ArenaStays DEF Queues
  <2> QED BY <1>7, <2>2
<1>10. CASE may
  <2>0. TeamOf[CHOOSE p \in P : TRUE] \in Teams BY <1>2, BgAssumption DEF Teams
  <2>1. PICK t \in Teams : t = TeamOf[CHOOSE p \in P : TRUE] BY <2>0
  <2>2. PICK x : x = NewGroup(P, list, t) OBVIOUS
  <2>3. x.players = P BY <2>2 DEF NewGroup
  <2>4. groups' = [gs EXCEPT ![q] = Append(@, x)] BY <1>2, <1>3, <1>5, <1>10, <2>1, <2>2 DEF Requeue
  <2>5. gs \in [Queues -> Seq(Group)] BY <1>1, <1>5, RemovedIs DEF TypeQueues
  <2>6. ASSUME NEW k \in Arenas PROVE SmallTeams(groups'[k])
    <3>1. k \in Queues BY DEF Queues
    <3>2. SmallTeams(groups[k]) BY <1>1, ArenaIs
    <3>3. groups[k] \in Seq(Group) /\ gs[k] \in Seq(Group) BY <1>1, <2>5, <3>1, QueueIs
    <3>4. SmallTeams(gs[k]) BY <1>8, <3>1, <3>2, <3>3, WithinSmall
    <3>5. CASE k # q
      <4>1. groups'[k] = gs[k] BY <2>4, <2>5, <3>1, <3>5
      <4> QED BY <3>4, <4>1
    <3>6. CASE k = q
      <4>1. PICK s \in Seq(Group) : s = gs[k] BY <3>3
      <4>2. groups'[k] = Append(s, x) BY <2>4, <2>5, <3>1, <3>6, <4>1
      <4>3. PICK r : r = Append(s, x) OBVIOUS
      <4>4. PICK m \in Nat : m = Len(s) /\ DOMAIN s = 1 .. m BY <4>1
      <4>5. DOMAIN r = 1 .. (m + 1) /\ r[m + 1] = x /\ \A i \in 1 .. m : r[i] = s[i]
        BY <4>1, <4>3, <4>4
      <4>6. \A g \in ToSet(r) : g = x \/ g \in ToSet(s)
        <5>1. DOMAIN r = 1 .. m \cup {m + 1} BY <4>4, <4>5
        <5> QED BY <4>4, <4>5, <5>1 DEF ToSet
      <4>7. Cardinality(x.players) <= ArenaSize BY <1>2, <1>10, <2>3, <3>6, BgAssumption
      <4>8. SmallTeams(r) BY <3>4, <4>1, <4>6, <4>7 DEF SmallTeams
      <4> QED BY <4>2, <4>3, <4>8
    <3> QED BY <3>5, <3>6
  <2>7. TeamsFitArena' BY <2>6, ArenaIs
  <2> QED BY <1>7, <2>7
<1> QED BY <1>9, <1>10

LEMMA ReturnFits ==
    ASSUME IInv, QueueInv', NEW p \in Players, Return(p)
    PROVE  TeamsFitArena' /\ Fits(invited', kind')
<1>1. CountInv /\ QueueInv /\ TeamsFitArena /\ Fits(invited, kind) /\ TypeRest
  BY IInvIs, CountInvIs, QueueInvIs
<1>2. invited' = CountWithout(p, invited) /\ UNCHANGED <<groups, kind>> BY DEF Return
<1>3. TeamsFitArena' BY <1>1, <1>2, WithinItself, ArenaStays
<1>4. invited \in [Bgs -> [Teams -> Nat]] BY <1>1 DEF TypeRest
<1>5. PICK c \in [Bgs -> [Teams -> Nat]] : c = CountWithout(p, invited)
  BY <1>1, <1>4, CountWithoutType
<1>6. Below(c, invited) BY <1>1, <1>4, <1>5, CountWithoutBelow
<1>7. Fits(c, kind) BY <1>1, <1>4, <1>6, BelowFits
<1> QED BY <1>2, <1>3, <1>5, <1>7

LEMMA LogoutFits ==
    ASSUME IInv, QueueInv', NEW p \in Players, Logout(p)
    PROVE  TeamsFitArena' /\ Fits(invited', kind')
<1>1. CountInv /\ QueueInv /\ TeamsFitArena /\ Fits(invited, kind) /\ TypeRest
  BY IInvIs, CountInvIs, QueueInvIs
<1>2. {p} \X slots[p] \in SUBSET (Players \X Queues) BY <1>1, SlotsOf
<1>3. PICK out \in SUBSET (Players \X Queues) : out = WithTeam({p} \X slots[p])
  BY <1>2, TeamLeaves
<1>4. PICK inv \in [Bgs -> [Teams -> Nat]] : inv = InvitedWithout(out) BY <1>1, RemovedIs
<1>5. PICK c \in [Bgs -> [Teams -> Nat]] : c = CountWithout(p, inv) BY <1>1, CountWithoutType
<1>6. /\ groups' = GroupsWithout(out) /\ kind' = kind
      /\ invited' = c \/ invited' = inv
  BY <1>3, <1>4, <1>5 DEF Logout
<1>7. \A q \in Queues : Within(groups[q], groups'[q]) BY <1>1, <1>6, LeftWithin
<1>8. TeamsFitArena' BY <1>1, <1>7, ArenaStays DEF Queues
<1>9. invited \in [Bgs -> [Teams -> Nat]] BY <1>1 DEF TypeRest
<1>10. Below(inv, invited) BY <1>1, <1>4, WithoutBelow
<1>11. Below(c, inv) BY <1>1, <1>5, CountWithoutBelow
<1>12. Below(c, invited) BY <1>9, <1>10, <1>11, BelowTwice
<1>13. Fits(c, kind) /\ Fits(inv, kind) BY <1>1, <1>9, <1>10, <1>12, BelowFits
<1> QED BY <1>6, <1>8, <1>13

\* The place of one who accepts was counted while he was invited.
LEMMA AcceptFits ==
    ASSUME IInv, QueueInv', NEW p \in Players, NEW q \in Queues, NEW goes \in BOOLEAN,
           Accept(p, q, goes)
    PROVE  TeamsFitArena' /\ Fits(invited', kind')
<1>1. /\ CountInv /\ QueueInv /\ TeamsFitArena /\ Fits(invited, kind) /\ TypeRest
      /\ Counts(invited, status, groups, mine, side) /\ groups[q] \in Seq(Group)
  BY IInvIs, CountInvIs, QueueInvIs, QueueIs
<1>2. {p} \X slots[p] \in SUBSET (Players \X Queues) BY <1>1, SlotsOf
<1>3. PICK out \in SUBSET (Players \X Queues) :
         out = WithTeam({p} \X slots[p]) /\ {p} \X slots[p] \subseteq out
  BY <1>2, TeamLeaves
<1>4. PICK inv \in [Bgs -> [Teams -> Nat]] : inv = InvitedWithout(out) BY <1>1, RemovedIs
<1>5. PICK g \in ToSet(groups[q]) :
         /\ p \in g.players /\ g.bg # None
         /\ groups' = GroupsWithout(out) /\ kind' = kind
         /\ invited' = [inv EXCEPT ![g.bg][g.side] = @ + 1]
  BY <1>3, <1>4 DEF Accept
<1>6. \A k \in Queues : Within(groups[k], groups'[k]) BY <1>1, <1>5, LeftWithin
<1>7. TeamsFitArena' BY <1>1, <1>6, ArenaStays DEF Queues
<1>8. g \in Group BY <1>1, ElementOf
<1>9. PICK m \in Bgs : m = g.bg BY <1>5, <1>8, GroupIs
<1>10. PICK u \in Teams : u = g.side BY <1>8, GroupIs
<1>11. PICK c \in [Bgs -> [Teams -> Nat]] : c = invited'
  <2>1. invited' \in [Bgs -> [Teams -> Nat]] BY QueueInvIs DEF TypeRest
  <2> QED BY <2>1
<1>12. \A b \in Bgs, t \in Teams : c[b][t] = IF b = m /\ t = u THEN inv[b][t] + 1 ELSE inv[b][t]
  BY <1>5, <1>9, <1>10, <1>11
<1>13. invited \in [Bgs -> [Teams -> Nat]] BY <1>1 DEF TypeRest
<1>14. Below(inv, invited) BY <1>1, <1>4, WithoutBelow
<1>15. inv[m][u] + 1 <= invited[m][u]
  <2>1. q \in slots[p]
    <3>1. p \in In(groups[q]) BY <1>5 DEF In
    <3> QED BY <1>1, <3>1, QueueIs
  <2>2. <<p, q>> \in out BY <1>3, <2>1
  <2>3. Awaited(<<p, q>>, m, u) BY <1>5, <1>9, <1>10 DEF Awaited, Holds
  <2>4. PICK A : A = {r \in out : Awaited(r, m, u)} OBVIOUS
  <2>5. <<p, q>> \in A BY <2>2, <2>3, <2>4
  <2>6. IsFiniteSet(A) BY <2>4, Finite
  <2>7. PICK n \in Nat : n = Cardinality(A) BY <2>6, FS_CardinalityType
  <2>8. n # 0 BY <2>5, <2>6, <2>7, FS_EmptySet
  <2>9. PICK E : E = Exp(groups, mine, side, m, u) OBVIOUS
  <2>10. p \in Held(groups[q], m, u) BY <1>5, <1>9, <1>10 DEF Held, Holds
  <2>11. <<p, q>> \in E /\ IsFiniteSet(E) BY <2>9, <2>10, ExpIs
  <2>12. PICK e \in Nat : e = invited[m][u] BY <1>13
  <2>13. Enough(e, E) BY <1>1, <2>9, <2>12 DEF Counts
  <2>14. e # 0 BY <2>11, <2>13, EnoughNone
  <2>15. inv[m][u] = Decreased(e, n) BY <1>4, <2>4, <2>7, <2>12 DEF InvitedWithout
  <2>16. Decreased(e, n) + 1 <= e BY <2>8, <2>14 DEF Decreased
  <2> QED BY <2>12, <2>15, <2>16
<1>16. Below(c, invited) BY <1>12, <1>14, <1>15 DEF Below
<1>17. Fits(c, kind) BY <1>1, <1>13, <1>16, BelowFits
<1> QED BY <1>5, <1>7, <1>11, <1>17

LEMMA ProcessLeaveFits ==
    ASSUME IInv, QueueInv', NEW b \in Bgs, ProcessLeave(b)
    PROVE  TeamsFitArena' /\ Fits(invited', kind')
<1>1. CountInv /\ QueueInv /\ TeamsFitArena /\ Fits(invited, kind) /\ TypeRest
  BY IInvIs, CountInvIs, QueueInvIs
<1>2. UNCHANGED <<groups, kind>> BY DEF ProcessLeave
<1>3. TeamsFitArena' BY <1>1, <1>2, WithinItself, ArenaStays
<1>4. invited \in [Bgs -> [Teams -> Nat]] BY <1>1 DEF TypeRest
<1>5. PICK c \in [Bgs -> [Teams -> Nat]] : c = invited'
  <2>1. invited' \in [Bgs -> [Teams -> Nat]] BY QueueInvIs DEF TypeRest
  <2> QED BY <2>1
<1>6. ASSUME NEW m \in Bgs, NEW t \in Teams PROVE c[m][t] <= invited[m][t]
  <2>1. PICK e \in Nat : e = invited[m][t] BY <1>4
  <2>2. PICK n \in Nat : n = Entered(b)[t] BY EnteredType
  <2>3. c[m][t] = IF m = b THEN Decreased(e, n) ELSE e
    BY <1>4, <1>5, <2>1, <2>2 DEF ProcessLeave
  <2>4. Decreased(e, n) <= e BY DEF Decreased
  <2> QED BY <2>1, <2>3, <2>4
<1>7. Fits(c, kind) BY <1>1, <1>4, <1>6, BelowFits DEF Below
<1> QED BY <1>2, <1>3, <1>5, <1>7

LEMMA QuietFits ==
    ASSUME IInv, QueueInv', UNCHANGED <<invited, kind>>,
           \A q \in Arenas : Within(groups[q], groups'[q])
    PROVE  TeamsFitArena' /\ Fits(invited', kind')
<1>1. CountInv /\ QueueInv /\ TeamsFitArena /\ Fits(invited, kind) BY IInvIs, CountInvIs
<1> QED BY <1>1, ArenaStays

LEMMA DeleteEmptyFits ==
    ASSUME IInv, QueueInv', NEW b \in Bgs, DeleteEmpty(b)
    PROVE  TeamsFitArena' /\ Fits(invited', kind')
<1>1. CountInv /\ QueueInv /\ TeamsFitArena /\ Fits(invited, kind) /\ TypeRest
  BY IInvIs, CountInvIs, QueueInvIs
<1>2. UNCHANGED <<groups, invited>> /\ kind' = [kind EXCEPT ![b] = None] BY DEF DeleteEmpty
<1>3. TeamsFitArena' BY <1>1, <1>2, WithinItself, ArenaStays
<1>4. ASSUME NEW c \in Bgs, NEW t \in Teams PROVE invited[c][t] <= Room(kind'[c])
  <2>1. CASE c = b
    <3>1. invited[c][t] = 0 BY <2>1 DEF DeleteEmpty
    <3>2. PICK n \in Nat : n = Room(kind'[c]) BY RoomType
    <3> QED BY <3>1, <3>2
  <2>2. CASE c # b
    <3>1. kind'[c] = kind[c] BY <1>1, <1>2, <2>2 DEF TypeRest
    <3> QED BY <1>1, <3>1 DEF Fits
  <2> QED BY <2>1, <2>2
<1> QED BY <1>2, <1>3, <1>4 DEF Fits

LEMMA TickFits ==
    ASSUME IInv, QueueInv', Tick
    PROVE  TeamsFitArena' /\ Fits(invited', kind')
<1>1. QueueInv BY IInvIs, CountInvIs
<1>2. UNCHANGED <<invited, kind>> BY DEF Tick
<1>3. ASSUME NEW q \in Arenas PROVE Within(groups[q], groups'[q])
  <2>0. q \in Queues BY DEF Queues
  <2>1. PICK gs : gs = groups[q] OBVIOUS
  <2>2. PICK r : r = groups'[q] OBVIOUS
  <2>3. gs \in Seq(Group) BY <1>1, <2>0, <2>1, QueueIs
  <2>4. r \in Seq(Group) BY <2>0, <2>2, QueueInvIs DEF TypeQueues
  <2>5. r = [i \in DOMAIN gs |-> [gs[i] EXCEPT !.left = IF @ > 0 THEN @ - 1 ELSE 0]]
    BY <2>0, <2>1, <2>2 DEF Tick
  <2>6. ASSUME NEW x \in ToSet(r) PROVE \E g \in ToSet(gs) : x.players \subseteq g.players
    <3>1. PICK i \in DOMAIN r : x = r[i] BY <2>4, ElementOf
    <3>2. i \in DOMAIN gs BY <2>5
    <3>3. PICK g \in Group : g = gs[i] /\ g \in ToSet(gs) BY <2>3, <3>2, ElementOf
    <3>4. x = [g EXCEPT !.left = IF @ > 0 THEN @ - 1 ELSE 0] BY <2>5, <3>1, <3>2, <3>3
    <3>5. x.players = g.players BY <3>4 DEF Group
    <3> QED BY <3>3, <3>5
  <2>7. Within(gs, r) BY <2>6 DEF Within
  <2> QED BY <2>1, <2>2, <2>7
<1> QED BY <1>2, <1>3, QuietFits

\* A battleground's queue is no arena's.
LEMMA NoArena ==
    ASSUME QueueInv, NEW q \in BgQueues, NEW r, groups' = [groups EXCEPT ![q] = r]
    PROVE  Room(q) = MaxPlayers /\ \A k \in Arenas : Within(groups[k], groups'[k])
<1>1. q \notin Arenas BY BgAssumption
<1>2. groups \in [Queues -> Seq(Group)] BY QueueIs DEF TypeQueues
<1>3. ASSUME NEW k \in Arenas PROVE groups'[k] = groups[k] BY <1>1, <1>2 DEF Queues
<1> QED BY <1>1, <1>3, WithinItself DEF Room

LEMMA MoveFits ==
    ASSUME IInv, QueueInv', NEW q \in Queues, NEW i \in DOMAIN groups[q], MoveToNormal(q, i)
    PROVE  TeamsFitArena' /\ Fits(invited', kind')
<1>1. QueueInv BY IInvIs, CountInvIs
<1>2. PICK x : groups' = [groups EXCEPT ![q] = <<x>> \o RemoveAt(@, i)] BY DEF MoveToNormal
<1>3. PICK r : groups' = [groups EXCEPT ![q] = r] BY <1>2
<1>4. q \in BgQueues /\ UNCHANGED <<invited, kind>> BY DEF MoveToNormal
<1>5. \A k \in Arenas : Within(groups[k], groups'[k]) BY <1>1, <1>3, <1>4, NoArena
<1> QED BY <1>4, <1>5, QuietFits

-----------------------------------------------------------------------------
(* The places of those invited.                                            *)

LEMMA ReachableIs ==
    ASSUME NEW pool \in SUBSET SUBSET Players
    PROVE  /\ Cardinality(Reachable(pool)) \in Nat /\ Cardinality(UNION pool) \in Nat
           /\ Cardinality(Reachable(pool)) <= Cardinality(UNION pool)
<1>1. PICK U \in SUBSET Players : U = UNION pool OBVIOUS
<1>2. PICK V \in SUBSET Players : V = Reachable(pool) BY DEF Reachable
<1>3. V \subseteq U BY <1>1, <1>2 DEF Reachable
<1>4. IsFiniteSet(U) /\ Cardinality(U) \in Nat /\ Cardinality(V) \in Nat BY Finite
<1>5. Cardinality(V) <= Cardinality(U) BY <1>3, <1>4, FS_Subset
<1> QED BY <1>1, <1>2, <1>4, <1>5

\* The count grows by no more than the places that the players were pools for.
LEMMA CountedIs ==
    ASSUME NEW count \in [Teams -> Nat], NEW pools, NEW t \in Teams, NEW d \in Nat,
           pools[t] \in SUBSET SUBSET Players, Cardinality(UNION pools[t]) <= d
    PROVE  Counted(count, pools)[t] <= count[t] + d
<1>1. PICK pool \in SUBSET SUBSET Players : pool = pools[t] OBVIOUS
<1>2. PICK x \in Nat : x = Cardinality(Reachable(pool)) BY ReachableIs
<1>3. PICK y \in Nat : y = Cardinality(UNION pool) BY ReachableIs
<1>4. x <= y BY <1>2, <1>3, ReachableIs
<1>5. y <= d BY <1>1, <1>3
<1>6. Counted(count, pools)[t] = count[t] + x BY <1>1, <1>2 DEF Counted
<1>7. count[t] \in Nat OBVIOUS
<1> QED BY <1>4, <1>5, <1>6, <1>7

\* One battleground's counts change, and fit.
LEMMA OneFits ==
    ASSUME TypeRest, Fits(invited, kind), NEW b \in Bgs, NEW n,
           invited' = [invited EXCEPT ![b] = n], \A t \in Teams : n[t] <= Room(kind'[b]),
           \A c \in Bgs \ {b} : kind'[c] = kind[c]
    PROVE  Fits(invited', kind')
<1>1. PICK kd : kd = kind' OBVIOUS
<1>2. PICK inv : inv = invited' OBVIOUS
<1>3. inv[b] = n /\ \A c \in Bgs \ {b} : inv[c] = invited[c] BY <1>2 DEF TypeRest
<1>4. ASSUME NEW c \in Bgs, NEW t \in Teams PROVE inv[c][t] <= Room(kd[c])
  <2>1. CASE c = b BY <1>1, <1>3, <2>1
  <2>2. CASE c # b BY <1>1, <1>3, <2>2 DEF Fits
  <2> QED BY <2>1, <2>2
<1>5. Fits(inv, kd) BY <1>4 DEF Fits
<1> QED BY <1>1, <1>2, <1>5

LEMMA FillFits ==
    ASSUME IInv, QueueInv', NEW q \in Queues, NEW b \in Bgs, FillBattleground(q, b)
    PROVE  TeamsFitArena' /\ Fits(invited', kind')
<1>1. /\ CountInv /\ QueueInv /\ TeamsFitArena /\ Fits(invited, kind) /\ TypeRest
      /\ Queue(groups[q])
  BY IInvIs, CountInvIs, QueueInvIs, QueueIs
<1>2. PICK gs : gs = groups[q] OBVIOUS
<1>3. PICK count \in [Teams -> Nat] : count = invited[b] BY <1>1 DEF TypeRest
<1>4. PICK free : free = [t \in Teams |-> FreeSlots(status[b], count, Entered(b), t)] OBVIOUS
<1>5. free \in [Teams -> Nat] BY <1>4, FreeSlotsIs, EnteredType
<1>6. PICK pools : pools = Fill(gs, free) OBVIOUS
<1>all. Queue(gs) BY <1>1, <1>2
<1>few. Few(pools, free) BY <1>5, <1>6, <1>all, FillIs
<1>7. PICK r : r = InvitedGroups(gs, b, pools) OBVIOUS
<1>8. PICK n : n = Counted(count, pools) OBVIOUS
<1>9. /\ q \in BgQueues /\ kind[b] = q /\ kind' = kind
      /\ groups' = [groups EXCEPT ![q] = r] /\ invited' = [invited EXCEPT ![b] = n]
  BY <1>2, <1>3, <1>4, <1>6, <1>7, <1>8 DEF FillBattleground, Invite
<1>10. Room(q) = MaxPlayers /\ \A k \in Arenas : Within(groups[k], groups'[k])
  BY <1>1, <1>9, NoArena
<1>11. TeamsFitArena' BY <1>1, <1>10, ArenaStays
<1>12. ASSUME NEW t \in Teams PROVE n[t] <= MaxPlayers
  <2>1. count[t] <= MaxPlayers BY <1>1, <1>3, <1>9, <1>10 DEF Fits
  <2>2. PICK d \in Nat : d = free[t] BY <1>5
  <2>3. count[t] + d <= MaxPlayers BY <1>4, <2>1, <2>2, FreeSlotsIs, EnteredType
  <2>4. pools[t] \in SUBSET SUBSET Players /\ Cardinality(UNION pools[t]) <= d
    BY <1>few, <2>2 DEF Few
  <2>5. Counted(count, pools)[t] <= count[t] + d BY <2>4, CountedIs
  <2>6. PICK c \in [Teams -> Nat] : c = n BY <1>8, CountedType
  <2>7. n[t] \in Nat /\ count[t] \in Nat /\ MaxPlayers \in Nat BY <2>6, BgAssumption
  <2> QED BY <1>8, <2>2, <2>3, <2>5, <2>7
<1>13. Fits(invited', kind') BY <1>1, <1>9, <1>10, <1>12, OneFits
<1> QED BY <1>11, <1>13

LEMMA CreateNormalFits ==
    ASSUME IInv, QueueInv', NEW q \in Queues, NEW b \in Bgs, CreateNormal(q, b)
    PROVE  TeamsFitArena' /\ Fits(invited', kind')
<1>1. /\ CountInv /\ QueueInv /\ TeamsFitArena /\ Fits(invited, kind) /\ TypeRest
      /\ Queue(groups[q])
  BY IInvIs, CountInvIs, QueueInvIs, QueueIs
<1>2. PICK gs : gs = groups[q] OBVIOUS
<1>3. PICK count \in [Teams -> Nat] : count = Nobody BY NobodyType
<1>4. PICK free : free = [t \in Teams |-> MaxPlayers] OBVIOUS
<1>5. free \in [Teams -> Nat] BY <1>4, BgAssumption
<1>6. PICK pools : pools = Fill(gs, free) OBVIOUS
<1>all. Queue(gs) BY <1>1, <1>2
<1>few. Few(pools, free) BY <1>5, <1>6, <1>all, FillIs
<1>7. PICK r : r = InvitedGroups(gs, b, pools) OBVIOUS
<1>8. PICK n : n = Counted(count, pools) OBVIOUS
<1>9. /\ q \in BgQueues /\ Create(q, b)
      /\ groups' = [groups EXCEPT ![q] = r] /\ invited' = [invited EXCEPT ![b] = n]
  BY <1>2, <1>3, <1>4, <1>6, <1>7, <1>8 DEF CreateNormal, Invite
<1>10. Room(q) = MaxPlayers /\ \A k \in Arenas : Within(groups[k], groups'[k])
  BY <1>1, <1>9, NoArena
<1>11. TeamsFitArena' BY <1>1, <1>10, ArenaStays
<1>12. ASSUME NEW t \in Teams PROVE n[t] <= MaxPlayers
  <2>1. PICK d \in Nat : d = MaxPlayers BY BgAssumption
  <2>2. free[t] = d BY <1>4, <2>1
  <2>3. pools[t] \in SUBSET SUBSET Players /\ Cardinality(UNION pools[t]) <= d
    BY <1>few, <2>2 DEF Few
  <2>4. Counted(count, pools)[t] <= count[t] + d BY <2>3, CountedIs
  <2>5. count[t] = 0 BY <1>3 DEF Nobody
  <2> QED BY <1>8, <2>1, <2>4, <2>5
<1>13. kind'[b] = q /\ \A c \in Bgs \ {b} : kind'[c] = kind[c] BY <1>1, <1>9, CreateStatus
<1>14. Fits(invited', kind') BY <1>1, <1>9, <1>10, <1>12, <1>13, OneFits
<1> QED BY <1>11, <1>14

LEMMA CreatePremadeFits ==
    ASSUME IInv, QueueInv', NEW q \in Queues, NEW b \in Bgs, CreatePremade(q, b)
    PROVE  TeamsFitArena' /\ Fits(invited', kind')
<1>1. /\ CountInv /\ QueueInv /\ TeamsFitArena /\ Fits(invited, kind) /\ TypeRest
      /\ Queue(groups[q])
  BY IInvIs, CountInvIs, QueueInvIs, QueueIs
<1>2. PICK old : old = groups[q] OBVIOUS
<1>3. PICK first : first = [t \in Teams |-> Premade(q, t)] OBVIOUS
<1>4. PICK gs : gs = InvitedGroups(old, b, first) OBVIOUS
<1>5. PICK nobody \in [Teams -> Nat] : nobody = Nobody BY NobodyType
<1>6. PICK count \in [Teams -> Nat] : count = Counted(nobody, first) BY CountedType
<1>7. PICK free : free = [t \in Teams |-> FreeSlots("join", count, nobody, t)] OBVIOUS
<1>8. free \in [Teams -> Nat] BY <1>7, FreeSlotsIs
<1>9. PICK then : then = Fill(gs, free) OBVIOUS
<1>10. PICK n \in [Teams -> Nat] : n = Counted(count, then) BY CountedType
<1>11. PICK r : r = InvitedGroups(gs, b, then) OBVIOUS
<1>12. /\ q \in BgQueues /\ Create(q, b)
       /\ groups' = [groups EXCEPT ![q] = r] /\ invited' = [invited EXCEPT ![b] = n]
  BY <1>2, <1>3, <1>4, <1>5, <1>6, <1>7, <1>9, <1>10, <1>11 DEF CreatePremade
<1>13. Room(q) = MaxPlayers /\ \A k \in Arenas : Within(groups[k], groups'[k])
  BY <1>1, <1>12, NoArena
<1>14. TeamsFitArena' BY <1>1, <1>13, ArenaStays
<1>15. SameMembers(old, gs) BY <1>1, <1>2, <1>4, InvitedIs
<1>16. Queue(gs) BY <1>15 DEF SameMembers
<1>few. Few(then, free) BY <1>8, <1>9, <1>16, FillIs
<1>17. ASSUME NEW t \in Teams PROVE n[t] <= MaxPlayers
  <2>1. PICK m \in Nat : m = MaxPlayers BY BgAssumption
  <2>2. PICK pool : pool = Premade(q, t) OBVIOUS
  <2>3. pool \in SUBSET SUBSET Players /\ Cardinality(UNION pool) <= m
    BY <1>1, <2>1, <2>2, PremadeIs
  <2>4. first[t] = pool BY <1>3, <2>2
  <2>5. Counted(nobody, first)[t] <= nobody[t] + m BY <2>3, <2>4, CountedIs
  <2>6. nobody[t] = 0 BY <1>5 DEF Nobody
  <2>7. count[t] <= m BY <1>6, <2>5, <2>6
  <2>8. PICK d \in Nat : d = free[t] BY <1>8
  <2>9. count[t] + d <= m BY <1>7, <2>1, <2>7, <2>8, FreeSlotsIs
  <2>10. then[t] \in SUBSET SUBSET Players /\ Cardinality(UNION then[t]) <= d
    BY <1>few, <2>8 DEF Few
  <2>11. Counted(count, then)[t] <= count[t] + d BY <2>10, CountedIs
  <2>12. n[t] \in Nat /\ count[t] \in Nat OBVIOUS
  <2> QED BY <1>10, <2>1, <2>9, <2>11, <2>12
<1>18. kind'[b] = q /\ \A c \in Bgs \ {b} : kind'[c] = kind[c] BY <1>1, <1>12, CreateStatus
<1>19. Fits(invited', kind') BY <1>1, <1>12, <1>13, <1>17, <1>18, OneFits
<1> QED BY <1>14, <1>19

LEMMA CreateArenaFits ==
    ASSUME IInv, QueueInv', NEW q \in Queues, NEW b \in Bgs, NEW i \in DOMAIN groups[q],
           NEW j \in DOMAIN groups[q], CreateArena(q, b, i, j)
    PROVE  TeamsFitArena' /\ Fits(invited', kind')
<1>1. /\ CountInv /\ QueueInv /\ TeamsFitArena /\ Fits(invited, kind) /\ TypeRest
      /\ Queue(groups[q]) /\ groups[q] \in Seq(Group) /\ groups \in [Queues -> Seq(Group)]
  BY IInvIs, CountInvIs, QueueInvIs, QueueIs DEF TypeQueues
<1>2. PICK gs : gs = groups[q] OBVIOUS
<1>3. PICK count \in [Teams -> Nat] : count = Nobody BY NobodyType
<1>4. PICK T : T = gs[i].side OBVIOUS
<1>5. PICK pools : pools = [t \in Teams |-> {IF t = T THEN gs[i].players ELSE gs[j].players}]
  OBVIOUS
<1>6. PICK r : r = InvitedGroups(gs, b, pools) OBVIOUS
<1>7. PICK n : n = Counted(count, pools) OBVIOUS
<1>8. /\ q \in Arenas /\ Create(q, b)
      /\ groups' = [groups EXCEPT ![q] = r] /\ invited' = [invited EXCEPT ![b] = n]
  BY <1>2, <1>3, <1>4, <1>5, <1>6, <1>7 DEF CreateArena, Invite
<1>9. Within(gs, r)
  <2>1. r \in Seq(Group) /\ DOMAIN r = DOMAIN gs /\ \A k \in DOMAIN gs : r[k].players = gs[k].players
    BY <1>1, <1>2, <1>6, InvitedIs
  <2>2. ASSUME NEW x \in ToSet(r) PROVE \E g \in ToSet(gs) : x.players \subseteq g.players
    <3>1. PICK k \in DOMAIN r : x = r[k] BY <2>1, ElementOf
    <3>2. gs[k] \in ToSet(gs) BY <1>1, <1>2, <2>1, <3>1, ElementOf
    <3>3. x.players = gs[k].players BY <2>1, <3>1
    <3> QED BY <3>2, <3>3
  <2> QED BY <2>2 DEF Within
<1>10. ASSUME NEW k \in Arenas PROVE Within(groups[k], groups'[k])
  <2>0. k \in Queues BY DEF Queues
  <2>1. CASE k = q
    <3>1. groups'[k] = r BY <1>1, <1>8, <2>0, <2>1
    <3> QED BY <1>2, <1>9, <2>1, <3>1
  <2>2. CASE k # q
    <3>1. groups'[k] = groups[k] BY <1>1, <1>8, <2>0, <2>2
    <3> QED BY <3>1, WithinItself
  <2> QED BY <2>1, <2>2
<1>11. TeamsFitArena' BY <1>1, <1>10, ArenaStays
<1>12. ASSUME NEW t \in Teams PROVE n[t] <= ArenaSize
  <2>1. PICK d \in Nat : d = ArenaSize BY BgAssumption
  <2>2. PICK g : g = IF t = T THEN gs[i] ELSE gs[j] OBVIOUS
  <2>3. g \in ToSet(gs) /\ g \in Group BY <1>1, <1>2, <2>2, ElementOf
  <2>4. PICK P \in SUBSET Players : P = g.players BY <2>3, GroupIs
  <2>5. SmallTeams(gs) BY <1>1, <1>2, <1>8, ArenaIs
  <2>6. Cardinality(P) <= d BY <2>1, <2>3, <2>4, <2>5 DEF SmallTeams
  <2>7. pools[t] = {P} BY <1>5, <2>2, <2>4
  <2>8. UNION {P} = P OBVIOUS
  <2>9. pools[t] \in SUBSET SUBSET Players /\ Cardinality(UNION pools[t]) <= d
    BY <2>4, <2>6, <2>7, <2>8
  <2>10. Counted(count, pools)[t] <= count[t] + d BY <2>9, CountedIs
  <2>11. count[t] = 0 BY <1>3 DEF Nobody
  <2> QED BY <1>7, <2>1, <2>10, <2>11
<1>13. kind'[b] = q /\ \A c \in Bgs \ {b} : kind'[c] = kind[c] BY <1>1, <1>8, CreateStatus
<1>14. \A t \in Teams : n[t] <= Room(kind'[b]) BY <1>8, <1>12, <1>13 DEF Room
<1>15. Fits(invited', kind') BY <1>1, <1>8, <1>13, <1>14, OneFits
<1> QED BY <1>11, <1>15

-----------------------------------------------------------------------------
(* The theorem.                                                            *)

LEMMA FitInitially == Init => IInv
<1> SUFFICES ASSUME Init PROVE IInv OBVIOUS
<1>1. CountInv BY CountInitially
<1>2. TeamsFitArena
  <2>1. ASSUME NEW q \in Arenas PROVE ToSet(groups[q]) = {}
    <3>1. groups[q] = <<>> BY DEF Init, Queues
    <3> QED BY <3>1 DEF ToSet
  <2> QED BY <2>1 DEF TeamsFitArena
<1>3. ASSUME NEW b \in Bgs, NEW t \in Teams PROVE invited[b][t] <= Room(kind[b])
  <2>1. invited[b][t] = 0 BY DEF Init
  <2>2. PICK n \in Nat : n = Room(kind[b]) BY RoomType
  <2> QED BY <2>1, <2>2
<1> QED BY <1>1, <1>2, <1>3, IInvIs DEF Fits

LEMMA FitStep ==
    ASSUME IInv, [Next]_vars
    PROVE  IInv'
<1>0. Leavers \subseteq Players /\ CountInv /\ QueueInv BY BgAssumption, IInvIs, CountInvIs
<1>1. CountInv' /\ QueueInv' BY <1>0, CountStep, CountInvIs
<1> SUFFICES TeamsFitArena' /\ Fits(invited', kind')
  BY <1>1, IInvIs
<1>2. CASE Queueing
  <2>1. ASSUME NEW p \in Leavers, NEW q \in Queues, LeaveQueue(p, q)
        PROVE  TeamsFitArena' /\ Fits(invited', kind')
    <3>1. {<<p, q>>} \in SUBSET (Players \X Queues) BY <1>0
    <3> QED BY <1>1, <2>1, <3>1, RemoveFits DEF LeaveQueue
  <2> QED BY <1>0, <1>1, <1>2, <2>1, QueueingIs, RequeuesFit
<1>3. CASE \E q \in Queues, b \in Bgs : FillBattleground(q, b) BY <1>1, <1>3, FillFits
<1>4. CASE \E q \in Queues, b \in Bgs : CreatePremade(q, b) BY <1>1, <1>4, CreatePremadeFits
<1>5. CASE \E q \in Queues : \E i \in DOMAIN groups[q] : MoveToNormal(q, i)
  BY <1>1, <1>5, MoveFits
<1>6. CASE \E q \in Queues, b \in Bgs : CreateNormal(q, b) BY <1>1, <1>6, CreateNormalFits
<1>7. CASE \E q \in Queues, b \in Bgs : \E i, j \in DOMAIN groups[q] : CreateArena(q, b, i, j)
  BY <1>1, <1>7, CreateArenaFits
<1>8. CASE \E p \in Players, q \in Queues : \E goes \in BOOLEAN : Accept(p, q, goes)
  BY <1>1, <1>8, AcceptFits
<1>9. CASE UNCHANGED <<invited, kind, groups>> BY <1>1, <1>9, WithinItself, QuietFits
<1>10. CASE \E p \in Leavers : ArriveElsewhere(p) \/ LeaveBattleground(p)
  BY <1>0, <1>1, <1>10, ReturnFits DEF ArriveElsewhere, LeaveBattleground
<1>11. CASE \E p \in Leavers : Logout(p) BY <1>0, <1>1, <1>11, LogoutFits
<1>12. CASE \E e \in events : ExecuteRemove(e)
  <2>1. PICK e \in events : ExecuteRemove(e) BY <1>12
  <2>2. e.player \in Players /\ e.queue \in Queues BY <1>0, QueueIs DEF TypeRest
  <2>3. {<<e.player, e.queue>>} \in SUBSET (Players \X Queues) BY <2>2
  <2>4. RemovePlayers({<<e.player, e.queue>>}) \/ UNCHANGED <<groups, invited>>
    BY <2>1 DEF ExecuteRemove
  <2>5. kind' = kind BY <2>1 DEF ExecuteRemove
  <2>6. CASE RemovePlayers({<<e.player, e.queue>>}) BY <1>1, <2>3, <2>5, <2>6, RemoveFits
  <2>7. CASE UNCHANGED <<groups, invited>> BY <1>9, <2>5, <2>7
  <2> QED BY <2>4, <2>6, <2>7
<1>13. CASE Tick BY <1>1, <1>13, TickFits
<1>14. CASE \E b \in Bgs : DeleteEmpty(b) BY <1>1, <1>14, DeleteEmptyFits
<1>15. CASE \E b \in Bgs : ProcessLeave(b) BY <1>1, <1>15, ProcessLeaveFits
<1>16. CASE Matching BY <1>3, <1>4, <1>5, <1>6, <1>7, <1>16 DEF Matching
<1>17. CASE \/ \E p \in Players : Arrive(p) \/ Login(p)
            \/ \E b \in Bgs : \E st \in {"progress", "leave"} : Proceed(b, st)
  BY <1>9, <1>17 DEF Arrive, Login, Proceed
<1>18. CASE UNCHANGED vars BY <1>9, <1>18 DEF vars
<1> QED BY <1>2, <1>8, <1>10, <1>11, <1>12, <1>13, <1>14, <1>15, <1>16, <1>17, <1>18 DEF Next

LEMMA FitsNow == IInv => TeamFits
<1> SUFFICES ASSUME IInv, NEW b \in Bgs, NEW t \in Teams
             PROVE  Cardinality(Expected(b, t)) <= Room(kind[b])
  BY DEF TeamFits, Room
<1>1. CountInv /\ Fits(invited, kind) BY IInvIs
<1>2. TypeRest /\ Counts(invited, status, groups, mine, side) BY <1>1, CountInvIs, QueueInvIs
<1>3. PICK n \in Nat : n = invited[b][t] BY <1>2 DEF TypeRest
<1>4. PICK m \in Nat : m = Room(kind[b]) BY RoomType
<1>5. PICK E : E = Expected(b, t) OBVIOUS
<1>6. E = Exp(groups, mine, side, b, t)
  <2>1. \A r \in Players \X Queues : Awaited(r, b, t) <=> r[1] \in Held(groups[r[2]], b, t)
    BY DEF Awaited, Held
  <2> QED BY <1>5, <2>1 DEF Expected, Exp
<1>7. PICK c \in Nat : c = Cardinality(E) BY <1>6, ExpIs
<1>8. c <= n /\ n <= m BY <1>1, <1>3, <1>4, <1>5, <1>7 DEF CountInv, CountsEnough, Enough, Fits
<1>9. c <= m BY <1>8
<1> QED BY <1>4, <1>5, <1>7, <1>9

\* No team of a battleground or of a rated arena is ever promised more places
\* than it has, though nothing is checked at the door: those invited from the
\* queue and those who have come are never more than the places, also when an
\* accepted teleport is refused and leaves its place on the count.
THEOREM TeamsFit == Spec => []TeamFits
<1>1. IInv /\ [Next]_vars => IInv' BY FitStep
<1> QED BY <1>1, FitsNow, FitInitially, PTL DEF Spec
=============================================================================
