------------------------ MODULE AuctionHouseProofs --------------------------
(***************************************************************************)
(* Proofs about the auction house and the mail.                            *)
(***************************************************************************)
EXTENDS AuctionHouse, FiniteSetTheorems, SequenceTheorems, WellFoundedInduction, TLAPS

\* The places of an item in the rows of a state of the database.
Bags(db, x) == {c \in Chars : x \in db.inv[c]}
Posts(db, x) == {m \in db.mails : x \in m.items}
Cuts(db, x) == {c \in Chars : <<c, x>> \in db.parted}

Lone(S) == \E e \in S : S = {e}

\* An item is in one place.
Once(db, x) ==
    IF x \in db.gone THEN Bags(db, x) = {} /\ Posts(db, x) = {} /\ Cuts(db, x) = {}
    ELSE \/ Lone(Bags(db, x)) /\ Posts(db, x) = {} /\ Cuts(db, x) = {} /\ db.ah[x] = None
         \/ Bags(db, x) = {} /\ Lone(Posts(db, x)) /\ Cuts(db, x) = {} /\ db.ah[x] = None
         \/ Bags(db, x) = {} /\ Posts(db, x) = {} /\ Lone(Cuts(db, x)) /\ db.ah[x] = None
         \/ Bags(db, x) = {} /\ Posts(db, x) = {} /\ Cuts(db, x) = {} /\ db.ah[x] # None

\* The mails of a state have ids of their own, and something in them.
Proper(mails) ==
    /\ \A m, k \in mails : m.id = k.id => m = k
    /\ Carrying(mails) = mails

\* The money that is in an auction: the deposit, and the bid.
Value(v) == IF v = None THEN 0 ELSE Deposit + (IF v.bidder = None THEN 0 ELSE v.bid)

Values(h) == [x \in Items |-> Value(h[x])]

Worth(db) == Total(db.gold) + Money(db.mails) + Total(Values(db.ah)) + db.burnt

\* Nobody bids for what is his.
Fair(h) == \A x \in Items : h[x] # None => h[x].owner # h[x].bidder

\* All the money is there.
Balanced(db) == Fair(db.ah) /\ Worth(db) = Total(StartGold)

Sound(db) == Proper(db.mails) /\ Balanced(db) /\ \A x \in Items : Once(db, x)

MailsOf(db, c) == {m \in db.mails : m.to = c}

\* The rows of c in every state from the n-th on are those of the last one, but
\* for mails that arrive.
Settled(c, n) ==
    \A k \in DOMAIN log : k >= n =>
        /\ log[k].gold[c] = Soon.gold[c] /\ log[k].inv[c] = Soon.inv[c]
        /\ MailsOf(log[k], c) \subseteq Soon.mails

Mirror(c) ==
    /\ gold[c] = Soon.gold[c] /\ inv[c] = Soon.inv[c]
    /\ box[c] \subseteq MailsOf(Soon, c)

Member(c) ==
    /\ status[c] = "online" => Mirror(c) /\ deleted[c] \subseteq {m.id : m \in box[c]}
    /\ status[c] = "loading" =>
          /\ ahead[c] < Len(log) /\ Settled(c, ahead[c] + 1)
          /\ ahead[c] = 0 => Mirror(c)
    /\ status[c] # "online" => deleted[c] = {}
    /\ status[c] \notin {"online", "loading"} => box[c] = {}

Listed(x) ==
    /\ ah[x] # None => x \notin Soon.gone
    /\ x \notin Soon.gone => ah[x] = Soon.ah[x]

IInv ==
    /\ TypeOK
    /\ \A n \in DOMAIN log : Sound(log[n])
    /\ \A c \in Chars : Member(c)
    /\ \A x \in Items : Listed(x)
-----------------------------------------------------------------------------
(* Sums.  The library's induction theorems take a predicate; the least      *)
(* element of a set of numbers does as well.                                *)

\* A set of natural numbers that is not empty has a least element.
LEMMA NatMin ==
    ASSUME NEW T, T \subseteq Nat, T # {}
    PROVE  \E x \in T : \A y \in T : x <= y
<1>1. PICK R : R = OpToRel(<, Nat) OBVIOUS
<1>2. IsWellFoundedOn(R, Nat) BY <1>1, NatLessThanWellFounded
<1>3. ASSUME NEW x \in Nat, NEW y \in Nat, y < x PROVE <<y, x>> \in R
  BY <1>1, <1>3 DEF OpToRel
<1>4. PICK x \in T : \A y \in T : ~ (<<y, x>> \in R) BY <1>2, WFMin
<1>5. \A y \in T : ~ (y < x) BY <1>3, <1>4
<1> QED BY <1>5

Pick(s) == CHOOSE x \in s : TRUE

\* The values g(s) are the sums of f over the subsets s of its domain, added up
\* in the order in which Total adds them.
Adds(f, g) ==
    g = [s \in SUBSET DOMAIN f |-> IF s = {} THEN 0 ELSE f[Pick(s)] + g[s \ {Pick(s)}]]

LEMMA TotalIs ==
    ASSUME NEW f, NEW g, Adds(f, g)
    PROVE  \E h : Adds(f, h) /\ Total(f) = h[DOMAIN f]
BY Zenon DEF Adds, Pick, Total, MapThenSumSet, MapThenFoldSet

LEMMA PickIn == \A s : s # {} => Pick(s) \in s
BY Zenon DEF Pick

LEMMA AddsExists ==
    ASSUME NEW D, IsFiniteSet(D), NEW f \in [D -> Int]
    PROVE  \E g : Adds(f, g)
<1> DEFINE Small(n) == {s \in SUBSET D : Cardinality(s) <= n}
           Summing(g, n) == /\ g \in [Small(n) -> Int]
                         /\ \A s \in Small(n) :
                              g[s] = IF s = {} THEN 0 ELSE f[Pick(s)] + g[s \ {Pick(s)}]
           T == {n \in Nat : ~ \E g : Summing(g, n)}
<1>1. ASSUME NEW s \in SUBSET D
      PROVE  /\ IsFiniteSet(s) /\ Cardinality(s) \in Nat
             /\ s = {} <=> Cardinality(s) = 0
             /\ s # {} => /\ s \ {Pick(s)} \in SUBSET D
                          /\ Cardinality(s \ {Pick(s)}) = Cardinality(s) - 1
  <2>1. IsFiniteSet(s) BY FS_Subset
  <2>2. s # {} => Pick(s) \in s BY PickIn
  <2> QED BY <2>1, <2>2, FS_CardinalityType, FS_EmptySet, FS_RemoveElement
<1>2. T = {}
  <2>1. SUFFICES ASSUME T # {} PROVE FALSE OBVIOUS
  <2>2. T \subseteq Nat OBVIOUS
  <2> HIDE DEF T
  <2>3. PICK n \in T : \A k \in T : n <= k BY <2>1, <2>2, NatMin
  <2>4. n \in Nat /\ ~ \E g : Summing(g, n) BY <2>3 DEF T
  <2>5. CASE n = 0
    <3>1. ASSUME NEW s \in Small(0) PROVE s = {}
      <4>1. s \in SUBSET D /\ Cardinality(s) <= 0 OBVIOUS
      <4>2. Cardinality(s) \in Nat /\ (s = {} <=> Cardinality(s) = 0) BY <1>1, <4>1
      <4> QED BY <4>1, <4>2
    <3>2. Summing([s \in Small(0) |-> 0], 0) BY <3>1
    <3> QED BY <2>4, <2>5, <3>2
  <2>6. CASE n # 0
    <3>1. n - 1 \in Nat /\ n - 1 \notin T BY <2>3, <2>4, <2>6
    <3>2. PICK g : Summing(g, n - 1) BY <3>1 DEF T
    <3> DEFINE h == [s \in Small(n) |-> IF s = {} THEN 0 ELSE f[Pick(s)] + g[s \ {Pick(s)}]]
    <3>3. ASSUME NEW s \in Small(n), s # {}
          PROVE  /\ s \ {Pick(s)} \in Small(n - 1) /\ s \ {Pick(s)} \in Small(n)
                 /\ g[s \ {Pick(s)}] \in Int /\ f[Pick(s)] \in Int
      <4>1. s \in SUBSET D /\ Cardinality(s) <= n OBVIOUS
      <4>2. /\ Cardinality(s) \in Nat /\ s \ {Pick(s)} \in SUBSET D
            /\ Cardinality(s \ {Pick(s)}) = Cardinality(s) - 1
        BY <1>1, <3>3, <4>1
      <4>3. Cardinality(s \ {Pick(s)}) <= n - 1 /\ Cardinality(s \ {Pick(s)}) <= n
        BY <2>4, <4>1, <4>2
      <4>4. s \ {Pick(s)} \in Small(n - 1) /\ s \ {Pick(s)} \in Small(n) BY <4>2, <4>3
      <4>5. Pick(s) \in D BY <3>3, <4>1, PickIn
      <4> QED BY <3>2, <4>4, <4>5
    <3>4. h \in [Small(n) -> Int] BY <3>3
    <3>5. \A s \in Small(n - 1) : h[s] = g[s]
      <4>1. ASSUME NEW s \in Small(n - 1) PROVE s \in Small(n)
        <5>1. s \in SUBSET D /\ Cardinality(s) <= n - 1 OBVIOUS
        <5>2. Cardinality(s) \in Nat BY <1>1, <5>1
        <5> QED BY <2>4, <5>1, <5>2
      <4> QED BY <3>2, <4>1
    <3>6. Summing(h, n) BY <3>3, <3>4, <3>5
    <3> QED BY <2>4, <3>6
  <2> QED BY <2>5, <2>6
<1>3. Cardinality(D) \in Nat BY FS_CardinalityType
<1>4. PICK g : Summing(g, Cardinality(D)) BY <1>2, <1>3
<1>5. Small(Cardinality(D)) = SUBSET DOMAIN f
  <2>1. ASSUME NEW s \in SUBSET D PROVE Cardinality(s) <= Cardinality(D) BY FS_Subset
  <2> QED BY <2>1
<1>6. g = [s \in SUBSET DOMAIN f |-> IF s = {} THEN 0 ELSE f[Pick(s)] + g[s \ {Pick(s)}]]
  BY <1>4, <1>5
<1> QED BY <1>6 DEF Adds

\* The order of the summands does not matter.
LEMMA AddsAny ==
    ASSUME NEW D, IsFiniteSet(D), NEW f \in [D -> Int], NEW g, Adds(f, g)
    PROVE  /\ g[{}] = 0
           /\ \A s \in SUBSET D : g[s] \in Int /\ \A x \in s : g[s] = f[x] + g[s \ {x}]
<1> DEFINE Free(s) == g[s] \in Int /\ \A x \in s : g[s] = f[x] + g[s \ {x}]
           T == {n \in Nat : \E s \in SUBSET D : Cardinality(s) = n /\ ~Free(s)}
<1>1. \A s \in SUBSET D : g[s] = IF s = {} THEN 0 ELSE f[Pick(s)] + g[s \ {Pick(s)}]
  <2>1. g = [s \in SUBSET D |-> IF s = {} THEN 0 ELSE f[Pick(s)] + g[s \ {Pick(s)}]] BY DEF Adds
  <2> DEFINE G == [s \in SUBSET D |-> IF s = {} THEN 0 ELSE f[Pick(s)] + g[s \ {Pick(s)}]]
  <2>2. \A s \in SUBSET D : G[s] = IF s = {} THEN 0 ELSE f[Pick(s)] + g[s \ {Pick(s)}]
    OBVIOUS
  <2>3. g = G BY <2>1
  <2> HIDE DEF G
  <2> QED BY <2>2, <2>3
<1>2. ASSUME NEW s \in SUBSET D, NEW x \in s
      PROVE  /\ Cardinality(s) \in Nat /\ s \ {x} \in SUBSET D
             /\ Cardinality(s \ {x}) = Cardinality(s) - 1 /\ Cardinality(s \ {x}) \in Nat
  <2>1. IsFiniteSet(s) BY FS_Subset
  <2>2. IsFiniteSet(s \ {x}) BY <2>1, FS_RemoveElement
  <2> QED BY <2>1, <2>2, FS_CardinalityType, FS_RemoveElement
<1>3. T = {}
  <2>1. SUFFICES ASSUME T # {} PROVE FALSE OBVIOUS
  <2>2. T \subseteq Nat OBVIOUS
  <2> HIDE DEF T
  <2>3. PICK n \in T : \A k \in T : n <= k BY <2>1, <2>2, NatMin
  <2>4. PICK s \in SUBSET D : Cardinality(s) = n /\ ~Free(s) BY <2>3 DEF T
  <2>5. n \in Nat BY <2>2, <2>3
  <2>6. s # {} BY <1>1, <2>4
  <2>7. ASSUME NEW x \in s PROVE Free(s \ {x})
    <3>1. Cardinality(s \ {x}) \in Nat /\ Cardinality(s \ {x}) < n /\ s \ {x} \in SUBSET D
      BY <1>2, <2>4, <2>5
    <3>2. Cardinality(s \ {x}) \notin T BY <2>3, <2>5, <3>1
    <3> QED BY <3>1, <3>2 DEF T
  <2> DEFINE p == Pick(s)
  <2>8. p \in s BY <2>6, PickIn
  <2>9. g[s] = f[p] + g[s \ {p}] BY <1>1, <2>6
  <2> HIDE DEF p
  <2>10. ASSUME NEW x \in s PROVE f[x] \in Int /\ g[s \ {x}] \in Int
    BY <2>7
  <2>11. ASSUME NEW x \in s PROVE g[s] = f[x] + g[s \ {x}]
    <3>1. CASE x = p BY <2>9, <3>1
    <3>2. CASE x # p
      <4>1. x \in s \ {p} /\ p \in s \ {x} /\ (s \ {p}) \ {x} = (s \ {x}) \ {p} BY <2>8, <3>2
      <4> DEFINE r == (s \ {x}) \ {p}
      <4>2. g[s \ {p}] = f[x] + g[r] BY <2>7, <2>8, <4>1
      <4>3. g[s \ {x}] = f[p] + g[r] BY <2>7, <4>1
      <4>4. g[r] \in Int
        <5>1. r \in SUBSET D /\ Cardinality(r) \in Nat /\ Cardinality(r) < n
          <6>1. s \ {x} \in SUBSET D /\ Cardinality(s \ {x}) = n - 1 BY <1>2, <2>4
          <6> QED BY <1>2, <2>5, <4>1, <6>1
        <5>2. Cardinality(r) \notin T BY <2>3, <2>5, <5>1
        <5> QED BY <5>1, <5>2 DEF T
      <4> HIDE DEF r
      <4> QED BY <2>8, <2>9, <2>10, <4>2, <4>3, <4>4
    <3> QED BY <3>1, <3>2
  <2>12. g[s] \in Int BY <2>8, <2>9, <2>10
  <2> QED BY <2>4, <2>11, <2>12
<1>4. \A s \in SUBSET D : Cardinality(s) \in Nat BY FS_Subset, FS_CardinalityType
<1>5. \A s \in SUBSET D : Free(s) BY <1>3, <1>4
<1> QED BY <1>1, <1>5

\* Where two functions agree, their sums do.
LEMMA AddsAgree ==
    ASSUME NEW D, IsFiniteSet(D), NEW f \in [D -> Int], NEW g, Adds(f, g),
           NEW E, IsFiniteSet(E), NEW e \in [E -> Int], NEW h, Adds(e, h),
           E \subseteq D, \A x \in E : e[x] = f[x]
    PROVE  \A s \in SUBSET E : g[s] = h[s]
<1> DEFINE T == {n \in Nat : \E s \in SUBSET E : Cardinality(s) = n /\ g[s] # h[s]}
<1>1. g[{}] = 0 /\ \A s \in SUBSET D : \A x \in s : g[s] = f[x] + g[s \ {x}] BY AddsAny
<1>2. h[{}] = 0 /\ \A s \in SUBSET E : \A x \in s : h[s] = e[x] + h[s \ {x}] BY AddsAny
<1>3. T = {}
  <2>1. SUFFICES ASSUME T # {} PROVE FALSE OBVIOUS
  <2>2. T \subseteq Nat OBVIOUS
  <2> HIDE DEF T
  <2>3. PICK n \in T : \A k \in T : n <= k BY <2>1, <2>2, NatMin
  <2>4. PICK s \in SUBSET E : Cardinality(s) = n /\ g[s] # h[s] BY <2>3 DEF T
  <2>5. n \in Nat BY <2>2, <2>3
  <2>6. PICK x \in s : TRUE BY <1>1, <1>2, <2>4
  <2>7. Cardinality(s \ {x}) = n - 1 /\ Cardinality(s \ {x}) \in Nat
    <3>1. IsFiniteSet(s) BY FS_Subset
    <3>2. IsFiniteSet(s \ {x}) BY <3>1, FS_RemoveElement
    <3> QED BY <2>4, <3>1, <3>2, FS_CardinalityType, FS_RemoveElement
  <2>8. n - 1 \notin T BY <2>3, <2>5, <2>7
  <2>9. g[s \ {x}] = h[s \ {x}] BY <2>7, <2>8 DEF T
  <2>10. g[s] = f[x] + g[s \ {x}] BY <1>1
  <2>11. h[s] = e[x] + h[s \ {x}] BY <1>2
  <2> QED BY <2>4, <2>9, <2>10, <2>11
<1>4. \A s \in SUBSET E : Cardinality(s) \in Nat BY FS_Subset, FS_CardinalityType
<1> QED BY <1>3, <1>4

\* A sum is the value at any point and the sum of the rest.
LEMMA TotalRest ==
    ASSUME NEW D, IsFiniteSet(D), NEW f \in [D -> Int]
    PROVE  /\ Total(f) \in Int
           /\ D = {} => Total(f) = 0
           /\ \A x \in D : Total(f) = f[x] + Total([y \in D \ {x} |-> f[y]])
<1>1. PICK g : Adds(f, g) /\ Total(f) = g[D] BY AddsExists, TotalIs
<1>2. /\ g[{}] = 0
      /\ \A s \in SUBSET D : g[s] \in Int /\ \A x \in s : g[s] = f[x] + g[s \ {x}]
  <2>1. Adds(f, g) BY <1>1
  <2> QED BY <2>1, AddsAny
<1>3. ASSUME NEW x \in D PROVE Total(f) = f[x] + Total([y \in D \ {x} |-> f[y]])
  <2> DEFINE E == D \ {x}
             e == [y \in E |-> f[y]]
  <2>1. IsFiniteSet(E) BY FS_RemoveElement
  <2>2. e \in [E -> Int] /\ E \subseteq D /\ \A y \in E : e[y] = f[y] OBVIOUS
  <2>3. DOMAIN e = E OBVIOUS
  <2> HIDE DEF e, E
  <2>4. PICK h : Adds(e, h) /\ Total(e) = h[E] BY <2>1, <2>2, <2>3, AddsExists, TotalIs
  <2>5. g[E] = h[E] BY <1>1, <2>1, <2>2, <2>4, AddsAgree
  <2>6. g[D] = f[x] + g[E] BY <1>2 DEF E
  <2>7. Total(f) = f[x] + Total(e) BY <1>1, <2>4, <2>5, <2>6
  <2> QED BY <2>7 DEF e, E
<1> QED BY <1>1, <1>2, <1>3

\* Natural numbers add up to one.
LEMMA TotalNat ==
    ASSUME NEW D, IsFiniteSet(D), NEW f \in [D -> Nat]
    PROVE  Total(f) \in Nat
<1>1. f \in [D -> Int] OBVIOUS
<1>2. PICK g : Adds(f, g) /\ Total(f) = g[D] BY <1>1, AddsExists, TotalIs
<1>3. /\ g[{}] = 0
      /\ \A s \in SUBSET D : g[s] \in Int /\ \A x \in s : g[s] = f[x] + g[s \ {x}]
  BY <1>1, <1>2, AddsAny
<1> DEFINE T == {n \in Nat : \E s \in SUBSET D : Cardinality(s) = n /\ g[s] \notin Nat}
<1>4. T = {}
  <2>1. SUFFICES ASSUME T # {} PROVE FALSE OBVIOUS
  <2>2. T \subseteq Nat OBVIOUS
  <2> HIDE DEF T
  <2>3. PICK n \in T : \A k \in T : n <= k BY <2>1, <2>2, NatMin
  <2>4. PICK s \in SUBSET D : Cardinality(s) = n /\ g[s] \notin Nat BY <2>3 DEF T
  <2>5. n \in Nat BY <2>2, <2>3
  <2>6. PICK x \in s : TRUE BY <1>3, <2>4
  <2>7. Cardinality(s \ {x}) = n - 1 /\ Cardinality(s \ {x}) \in Nat
    <3>1. IsFiniteSet(s) BY FS_Subset
    <3>2. IsFiniteSet(s \ {x}) BY <3>1, FS_RemoveElement
    <3> QED BY <2>4, <3>1, <3>2, FS_CardinalityType, FS_RemoveElement
  <2>8. n - 1 \notin T BY <2>3, <2>5, <2>7
  <2>9. g[s \ {x}] \in Nat BY <2>7, <2>8 DEF T
  <2>10. g[s] = f[x] + g[s \ {x}] BY <1>3
  <2>11. f[x] \in Nat OBVIOUS
  <2> QED BY <2>4, <2>9, <2>10, <2>11
<1>5. \A s \in SUBSET D : Cardinality(s) \in Nat BY FS_Subset, FS_CardinalityType
<1> QED BY <1>2, <1>4, <1>5

\* Induction on the subsets of a finite set.
LEMMA SubsetInduct ==
    ASSUME NEW D, IsFiniteSet(D), NEW G, {} \in G,
           \A s \in SUBSET D : \A x \in s : s \ {x} \in G => s \in G
    PROVE  D \in G
<1> DEFINE T == {n \in Nat : \E s \in SUBSET D : Cardinality(s) = n /\ s \notin G}
<1>1. T = {}
  <2>1. SUFFICES ASSUME T # {} PROVE FALSE OBVIOUS
  <2>2. T \subseteq Nat OBVIOUS
  <2> HIDE DEF T
  <2>3. PICK n \in T : \A k \in T : n <= k BY <2>1, <2>2, NatMin
  <2>4. PICK s \in SUBSET D : Cardinality(s) = n /\ s \notin G BY <2>3 DEF T
  <2>5. n \in Nat BY <2>2, <2>3
  <2>6. PICK x \in s : TRUE BY <2>4
  <2>7. Cardinality(s \ {x}) = n - 1 /\ Cardinality(s \ {x}) \in Nat
    <3>1. IsFiniteSet(s) BY FS_Subset
    <3>2. IsFiniteSet(s \ {x}) BY <3>1, FS_RemoveElement
    <3> QED BY <2>4, <3>1, <3>2, FS_CardinalityType, FS_RemoveElement
  <2>8. n - 1 \notin T BY <2>3, <2>5, <2>7
  <2>9. s \ {x} \in G BY <2>7, <2>8 DEF T
  <2> QED BY <2>4, <2>9
<1>2. Cardinality(D) \in Nat BY FS_CardinalityType
<1> QED BY <1>1, <1>2

Part(f, S) == [x \in S |-> f[x]]

\* The sum over a part of the domain.
LEMMA TotalPart ==
    ASSUME NEW D, IsFiniteSet(D), NEW f \in [D -> Int], NEW S \in SUBSET D
    PROVE  /\ Total(Part(f, S)) \in Int
           /\ \A x \in S : Total(Part(f, S)) = f[x] + Total(Part(f, S \ {x}))
<1>1. IsFiniteSet(S) BY FS_Subset
<1>2. PICK g : g = Part(f, S) OBVIOUS
<1>3. g \in [S -> Int] /\ \A x \in S : g[x] = f[x] BY <1>2 DEF Part
<1>4. /\ Total(g) \in Int
      /\ \A x \in S : Total(g) = g[x] + Total([y \in S \ {x} |-> g[y]])
  BY <1>1, <1>3, TotalRest
<1>5. ASSUME NEW x \in S PROVE [y \in S \ {x} |-> g[y]] = Part(f, S \ {x}) BY <1>3 DEF Part
<1> QED BY <1>2, <1>3, <1>4, <1>5

LEMMA TotalNone ==
    ASSUME NEW f
    PROVE  Total(Part(f, {})) = 0
<1>1. PICK D : D = {} OBVIOUS
<1>2. PICK g : g = Part(f, D) OBVIOUS
<1>3. IsFiniteSet(D) BY <1>1, FS_EmptySet
<1>4. g \in [D -> Int] BY <1>1, <1>2 DEF Part
<1>5. Total(g) = 0 BY <1>1, <1>3, <1>4, TotalRest
<1> QED BY <1>1, <1>2, <1>5

\* One value of a sum changes.
LEMMA TotalPut ==
    ASSUME NEW D, IsFiniteSet(D), NEW f \in [D -> Int], NEW c \in D, NEW v \in Int
    PROVE  Total([f EXCEPT ![c] = v]) = Total(f) - f[c] + v
<1>1. PICK g : g = [f EXCEPT ![c] = v] OBVIOUS
<1>2. g \in [D -> Int] /\ g[c] = v BY <1>1
<1>3. PICK r : r = [y \in D \ {c} |-> f[y]] OBVIOUS
<1>4. [y \in D \ {c} |-> g[y]] = r BY <1>1, <1>3
<1>5. Total(f) \in Int /\ Total(f) = f[c] + Total(r) BY <1>3, TotalRest
<1>6. Total(g) = v + Total(r)
  <2>1. \A x \in D : Total(g) = g[x] + Total([y \in D \ {x} |-> g[y]]) BY <1>2, TotalRest
  <2>2. Total(g) = g[c] + Total([y \in D \ {c} |-> g[y]]) BY <2>1
  <2> QED BY <1>2, <1>4, <2>2
<1>7. Total(r) \in Int
  <2>1. IsFiniteSet(D \ {c}) BY FS_RemoveElement
  <2>2. r \in [D \ {c} -> Int] BY <1>3
  <2> QED BY <2>1, <2>2, TotalRest
<1>8. f[c] \in Int OBVIOUS
<1> QED BY <1>1, <1>5, <1>6, <1>7, <1>8

\* The sum of the sums.
LEMMA TotalPlus ==
    ASSUME NEW D, IsFiniteSet(D), NEW f \in [D -> Int], NEW g \in [D -> Int]
    PROVE  Total([x \in D |-> f[x] + g[x]]) = Total(f) + Total(g)
<1>1. PICK h : h = [x \in D |-> f[x] + g[x]] OBVIOUS
<1>2. h \in [D -> Int] /\ \A x \in D : h[x] = f[x] + g[x] BY <1>1
<1> DEFINE G == {s \in SUBSET D : Total(Part(h, s)) = Total(Part(f, s)) + Total(Part(g, s))}
<1>3. {} \in G BY TotalNone
<1>4. ASSUME NEW s \in SUBSET D, NEW x \in s, s \ {x} \in G PROVE s \in G
  <2>1. PICK r \in SUBSET D : r = s \ {x} OBVIOUS
  <2>2. Total(Part(h, r)) = Total(Part(f, r)) + Total(Part(g, r)) BY <1>4, <2>1
  <2>3. Total(Part(h, s)) = h[x] + Total(Part(h, r)) BY <1>2, <2>1, TotalPart
  <2>4. Total(Part(f, s)) = f[x] + Total(Part(f, r)) /\ Total(Part(f, r)) \in Int BY <2>1, TotalPart
  <2>5. Total(Part(g, s)) = g[x] + Total(Part(g, r)) /\ Total(Part(g, r)) \in Int BY <2>1, TotalPart
  <2>6. h[x] = f[x] + g[x] /\ f[x] \in Int /\ g[x] \in Int BY <1>2
  <2>7. Total(Part(h, s)) = Total(Part(f, s)) + Total(Part(g, s))
    BY <2>2, <2>3, <2>4, <2>5, <2>6
  <2> QED BY <2>7
<1> HIDE DEF G
<1>5. D \in G BY <1>3, <1>4, SubsetInduct
<1>6. Part(h, D) = h /\ Part(f, D) = f /\ Part(g, D) = g BY <1>2 DEF Part
<1> QED BY <1>1, <1>5, <1>6 DEF G

\* A sum in two parts.
LEMMA TotalSplit ==
    ASSUME NEW D, IsFiniteSet(D), NEW f \in [D -> Int], NEW S \in SUBSET D
    PROVE  Total(f) = Total(Part(f, S)) + Total(Part(f, D \ S))
<1> DEFINE G == {s \in SUBSET S : Total(f) = Total(Part(f, s)) + Total(Part(f, D \ s))}
<1>0. Part(f, D) = f BY DEF Part
<1>1. {} \in G
  <2>1. D \ {} = D OBVIOUS
  <2>2. Total(f) \in Int BY TotalRest
  <2> QED BY <1>0, <2>1, <2>2, TotalNone
<1>2. ASSUME NEW s \in SUBSET S, NEW x \in s, s \ {x} \in G PROVE s \in G
  <2>1. PICK r \in SUBSET D : r = s \ {x} OBVIOUS
  <2>2. PICK k \in SUBSET D : k = D \ s OBVIOUS
  <2>3. PICK l \in SUBSET D : l = D \ r OBVIOUS
  <2>4. l \ {x} = k /\ x \in l BY <2>1, <2>2, <2>3
  <2>5. Total(f) = Total(Part(f, r)) + Total(Part(f, l)) BY <1>2, <2>1, <2>3
  <2>6. Total(Part(f, s)) = f[x] + Total(Part(f, r)) /\ Total(Part(f, r)) \in Int
    BY <2>1, TotalPart
  <2>7. Total(Part(f, l)) = f[x] + Total(Part(f, k)) BY <2>4, TotalPart
  <2>8. Total(Part(f, k)) \in Int BY TotalPart
  <2>9. f[x] \in Int OBVIOUS
  <2>10. Total(f) = Total(Part(f, s)) + Total(Part(f, k)) BY <2>5, <2>6, <2>7, <2>8, <2>9
  <2> QED BY <2>2, <2>10
<1> HIDE DEF G
<1>3. IsFiniteSet(S) BY FS_Subset
<1>4. S \in G BY <1>1, <1>2, <1>3, SubsetInduct
<1> QED BY <1>4 DEF G

\* Zeros do not count.
LEMMA TotalZero ==
    ASSUME NEW D, IsFiniteSet(D), NEW f, f = [x \in D |-> 0]
    PROVE  Total(f) = 0
<1>1. f \in [D -> Int] OBVIOUS
<1> DEFINE G == {s \in SUBSET D : Total(Part(f, s)) = 0}
<1>2. {} \in G BY TotalNone
<1>3. ASSUME NEW s \in SUBSET D, NEW x \in s, s \ {x} \in G PROVE s \in G
  <2>1. Total(Part(f, s)) = f[x] + Total(Part(f, s \ {x})) BY <1>1, TotalPart
  <2> QED BY <1>3, <2>1
<1> HIDE DEF G
<1>4. D \in G BY <1>2, <1>3, SubsetInduct
<1>5. Part(f, D) = f BY DEF Part
<1> QED BY <1>4, <1>5 DEF G

\* The money in mails.
LEMMA MoneyRest ==
    ASSUME NEW M \in SUBSET Mails, IsFiniteSet(M)
    PROVE  /\ Money(M) \in Nat
           /\ M = {} => Money(M) = 0
           /\ \A m \in M : m.money \in Nat /\ Money(M) = m.money + Money(M \ {m})
           /\ \A S \in SUBSET M : IsFiniteSet(S) /\ Money(M) = Money(S) + Money(M \ S)
<1>1. PICK f : f = [m \in M |-> m.money] OBVIOUS
<1>2. f \in [M -> Nat] /\ f \in [M -> Int] /\ \A m \in M : f[m] = m.money /\ m.money \in Nat
  BY <1>1 DEF Mails
<1>3. Money(M) = Total(f) BY <1>1 DEF Money
<1>4. \A S \in SUBSET M : Money(S) = Total(Part(f, S))
  <2>1. ASSUME NEW S \in SUBSET M PROVE [m \in S |-> m.money] = Part(f, S) BY <1>2 DEF Part
  <2> QED BY <2>1 DEF Money
<1>5. Total(f) \in Nat BY <1>2, TotalNat
<1>6. M = {} => Total(f) = 0 BY <1>2, TotalRest
<1>7. ASSUME NEW m \in M PROVE Money(M) = m.money + Money(M \ {m})
  <2>1. PICK S \in SUBSET M : S = M OBVIOUS
  <2>2. \A x \in S : Total(Part(f, S)) = f[x] + Total(Part(f, S \ {x})) BY <1>2, TotalPart
  <2>3. Total(Part(f, M)) = f[m] + Total(Part(f, M \ {m})) BY <2>1, <2>2
  <2> QED BY <1>2, <1>4, <2>3
<1>8. ASSUME NEW S \in SUBSET M PROVE IsFiniteSet(S) /\ Money(M) = Money(S) + Money(M \ S)
  <2>1. Total(f) = Total(Part(f, S)) + Total(Part(f, M \ S)) BY <1>2, TotalSplit
  <2>2. IsFiniteSet(S) BY FS_Subset
  <2> QED BY <1>3, <1>4, <2>1, <2>2
<1> QED BY <1>2, <1>3, <1>5, <1>6, <1>7, <1>8

\* Mails are added to others.
LEMMA MoneyAdded ==
    ASSUME NEW M \in SUBSET Mails, IsFiniteSet(M), NEW N \in SUBSET Mails, IsFiniteSet(N),
           M \cap N = {}
    PROVE  IsFiniteSet(M \cup N) /\ Money(M \cup N) = Money(M) + Money(N)
<1>1. PICK L \in SUBSET Mails : L = M \cup N OBVIOUS
<1>2. IsFiniteSet(L) BY <1>1, FS_Union
<1>3. M \in SUBSET L /\ L \ M = N BY <1>1
<1>4. Money(L) = Money(M) + Money(L \ M) BY <1>2, <1>3, MoneyRest
<1> QED BY <1>1, <1>2, <1>3, <1>4

LEMMA MoneyOne ==
    ASSUME NEW m \in Mails
    PROVE  IsFiniteSet({m}) /\ Money({m}) = m.money
<1>1. PICK M \in SUBSET Mails : M = {m} OBVIOUS
<1>2. IsFiniteSet(M) BY <1>1, FS_Singleton
<1>3. PICK E \in SUBSET Mails : E = {} OBVIOUS
<1>4. Money(E) = 0 BY <1>3, FS_EmptySet, MoneyRest
<1>5. m \in M /\ M \ {m} = E BY <1>1, <1>3
<1>6. Money(M) = m.money + Money(M \ {m}) /\ m.money \in Nat BY <1>2, <1>5, MoneyRest
<1>7. Money(M) = m.money + 0 BY <1>4, <1>5, <1>6
<1> QED BY <1>1, <1>2, <1>6, <1>7

\* What is left out of the mails without anything in them is worth nothing.
LEMMA MoneyCarrying ==
    ASSUME NEW M \in SUBSET Mails, IsFiniteSet(M)
    PROVE  IsFiniteSet(Carrying(M)) /\ Money(Carrying(M)) = Money(M)
<1>1. PICK C \in SUBSET M : C = Carrying(M) BY DEF Carrying
<1> DEFINE E == M \ C
           G == {s \in SUBSET E : Money(s) = 0}
<1>2. {} \in G
  <2>1. PICK N \in SUBSET Mails : N = {} OBVIOUS
  <2>2. Money(N) = 0 BY <2>1, FS_EmptySet, MoneyRest
  <2> QED BY <2>1, <2>2
<1>3. ASSUME NEW s \in SUBSET E, NEW m \in s, s \ {m} \in G PROVE s \in G
  <2>1. s \in SUBSET Mails /\ IsFiniteSet(s) BY FS_Subset
  <2>2. Money(s) = m.money + Money(s \ {m}) /\ m.money \in Nat BY <2>1, MoneyRest
  <2>3. ~(m.money > 0) BY <1>1 DEF Carrying
  <2> QED BY <1>3, <2>2, <2>3
<1>4. IsFiniteSet(E) BY FS_Subset
<1> HIDE DEF G
<1>5. E \in G BY <1>2, <1>3, <1>4, SubsetInduct
<1>6. Money(E) = 0 BY <1>5 DEF G
<1>7. Money(M) \in Nat /\ IsFiniteSet(C) /\ Money(M) = Money(C) + Money(M \ C) BY MoneyRest
<1>8. Money(C) \in Nat
  <2>1. C \in SUBSET Mails OBVIOUS
  <2> QED BY <1>7, <2>1, MoneyRest
<1> QED BY <1>1, <1>6, <1>7, <1>8

-----------------------------------------------------------------------------
(* What the characters are worth together.                                  *)

LEMMA ValueNat ==
    ASSUME NEW h \in [Items -> Auctions \cup {None}]
    PROVE  Values(h) \in [Items -> Int] /\ Values(h) \in [Items -> Nat] /\ Total(Values(h)) \in Nat
<1>1. ASSUME NEW x \in Items PROVE Value(h[x]) \in Nat
  <2>1. h[x] # None => h[x] \in Auctions OBVIOUS
  <2>2. h[x] # None => h[x].bid \in Nat BY <2>1 DEF Auctions
  <2> QED BY <2>2, StoreAssumption DEF Value
<1>2. Values(h) \in [Items -> Nat] BY <1>1 DEF Values
<1>3. Values(h) \in [Items -> Int] BY <1>2
<1>4. Total(Values(h)) \in Nat BY <1>2, StoreAssumption, TotalNat
<1> QED BY <1>2, <1>3, <1>4

\* An auction changes.
LEMMA ValuePut ==
    ASSUME NEW h \in [Items -> Auctions \cup {None}], NEW x \in Items, NEW v \in Auctions \cup {None}
    PROVE  /\ Total(Values([h EXCEPT ![x] = v])) = Total(Values(h)) - Value(h[x]) + Value(v)
           /\ Value(h[x]) \in Nat /\ Value(v) \in Nat
<1>1. PICK f : f = Values(h) OBVIOUS
<1>2. PICK g : g = [h EXCEPT ![x] = v] OBVIOUS
<1>3. g \in [Items -> Auctions \cup {None}] /\ g[x] = v BY <1>2
<1>4. f \in [Items -> Int] /\ Values(g) \in [Items -> Nat] /\ Values(h) \in [Items -> Nat]
  BY <1>1, <1>3, ValueNat
<1>5. Value(h[x]) \in Nat /\ Value(v) \in Nat
  <2>1. Values(h)[x] = Value(h[x]) /\ Values(g)[x] = Value(g[x]) BY DEF Values
  <2> QED BY <1>3, <1>4, <2>1
<1>6. Values(g) = [f EXCEPT ![x] = Value(v)] BY <1>1, <1>2 DEF Values
<1>7. PICK w \in Int : w = Value(v) BY <1>5
<1>8. Total([f EXCEPT ![x] = Value(v)]) = Total(f) - f[x] + Value(v)
  <2>1. IsFiniteSet(Items) BY StoreAssumption
  <2>2. Total([f EXCEPT ![x] = w]) = Total(f) - f[x] + w BY <1>4, <2>1, TotalPut
  <2> QED BY <1>7, <2>2
<1>9. f[x] = Value(h[x]) BY <1>1 DEF Values
<1> QED BY <1>1, <1>2, <1>5, <1>6, <1>8, <1>9

\* A purse changes.
LEMMA PursePut ==
    ASSUME NEW G \in [Chars -> Nat], NEW c \in Chars, NEW g \in Nat
    PROVE  /\ Total([G EXCEPT ![c] = g]) = Total(G) - G[c] + g
           /\ Total(G) \in Nat /\ G[c] \in Nat
<1>1. G \in [Chars -> Int] /\ g \in Int OBVIOUS
<1>2. Total(G) \in Nat BY StoreAssumption, TotalNat
<1>3. Total([G EXCEPT ![c] = g]) = Total(G) - G[c] + g
  <2>1. IsFiniteSet(Chars) BY StoreAssumption
  <2>2. PICK f \in [Chars -> Int] : f = G BY <1>1
  <2>3. PICK w \in Int : w = g BY <1>1
  <2>4. Total([f EXCEPT ![c] = w]) = Total(f) - f[c] + w BY <2>1, TotalPut
  <2> QED BY <2>2, <2>3, <2>4
<1> QED BY <1>2, <1>3

\* What the characters get together from an auction.
LEMMA StakeTotal ==
    ASSUME NEW v \in Auctions, v.owner # v.bidder
    PROVE  /\ Total([c \in Chars |-> Stake(v, c)]) = Value(v)
           /\ [c \in Chars |-> Stake(v, c)] \in [Chars -> Int]
<1>1. v.owner \in Chars /\ v.bidder \in Chars \cup {None} /\ v.bid \in Nat /\ v # None
  BY NoneAssumption DEF Auctions
<1>2. Deposit \in Int /\ IsFiniteSet(Chars) /\ None \notin Chars BY StoreAssumption
<1>3. PICK z : z = [c \in Chars |-> 0] OBVIOUS
<1>4. z \in [Chars -> Int] /\ Total(z) = 0 BY <1>2, <1>3, TotalZero
<1>5. PICK f : f = [z EXCEPT ![v.owner] = Deposit] OBVIOUS
<1>6. PICK o \in Chars : o = v.owner BY <1>1
<1>7. PICK w \in Int : w = Deposit BY <1>2
<1>8. f \in [Chars -> Int] /\ Total(f) = w
  <2>0. IsFiniteSet(Chars) /\ z \in [Chars -> Int] BY <1>2, <1>4
  <2>1. Total([z EXCEPT ![o] = w]) = Total(z) - z[o] + w BY <2>0, TotalPut
  <2>2. z[o] = 0 BY <1>3
  <2>3. f = [z EXCEPT ![o] = w] BY <1>5, <1>6, <1>7
  <2> QED BY <1>4, <2>1, <2>2, <2>3
<1>9. PICK s : s = [c \in Chars |-> Stake(v, c)] OBVIOUS
<1>10. CASE v.bidder = None
  <2>1. s = f BY <1>2, <1>3, <1>5, <1>9, <1>10 DEF Stake
  <2> QED BY <1>1, <1>7, <1>8, <1>9, <1>10, <2>1 DEF Value
<1>11. CASE v.bidder # None
  <2>1. PICK b \in Chars : b = v.bidder BY <1>1, <1>11
  <2>2. PICK u \in Int : u = v.bid BY <1>1
  <2>0. IsFiniteSet(Chars) /\ f \in [Chars -> Int] BY <1>2, <1>8
  <2>3. Total([f EXCEPT ![b] = u]) = Total(f) - f[b] + u BY <2>0, TotalPut
  <2>4. f[b] = 0 BY <1>3, <1>5, <2>1
  <2>5. s = [f EXCEPT ![b] = u] BY <1>3, <1>5, <1>9, <2>1, <2>2 DEF Stake
  <2>6. s \in [Chars -> Int] BY <1>8, <2>5
  <2>7. Total(s) = w + u BY <1>8, <2>3, <2>4, <2>5
  <2> QED BY <1>1, <1>7, <1>9, <1>11, <2>2, <2>6, <2>7 DEF Value
<1> QED BY <1>10, <1>11

\* The mails of all characters are all mails.
LEMMA MailTotal ==
    ASSUME NEW M \in SUBSET Mails, IsFiniteSet(M)
    PROVE  /\ Total([c \in Chars |-> Money({m \in M : m.to = c})]) = Money(M)
           /\ [c \in Chars |-> Money({m \in M : m.to = c})] \in [Chars -> Int]
<1> DEFINE F(s) == [c \in Chars |-> Money({m \in s : m.to = c})]
           G == {s \in SUBSET M : Total(F(s)) = Money(s)}
<1>0. IsFiniteSet(Chars) BY StoreAssumption
<1>1. ASSUME NEW s \in SUBSET M PROVE F(s) \in [Chars -> Int] /\ s \in SUBSET Mails /\ IsFiniteSet(s)
  <2>1. IsFiniteSet(s) BY FS_Subset
  <2>2. ASSUME NEW c \in Chars PROVE Money({m \in s : m.to = c}) \in Int
    <3>1. PICK k \in SUBSET s : k = {m \in s : m.to = c} OBVIOUS
    <3>2. IsFiniteSet(k) /\ k \in SUBSET Mails BY <2>1, FS_Subset
    <3>3. Money(k) \in Nat BY <3>2, MoneyRest
    <3> QED BY <3>1, <3>3
  <2> QED BY <2>1, <2>2
<1>2. {} \in G
  <2>1. PICK e \in SUBSET Mails : e = {} OBVIOUS
  <2>2. Money(e) = 0 BY <2>1, FS_EmptySet, MoneyRest
  <2>3. F({}) = [c \in Chars |-> 0] BY <2>1, <2>2
  <2>4. PICK z : z = [c \in Chars |-> 0] OBVIOUS
  <2>5. Total(z) = 0 BY <1>0, <2>4, TotalZero
  <2> HIDE DEF F
  <2>6. Total(F({})) = Money({}) BY <2>1, <2>2, <2>3, <2>4, <2>5
  <2> QED BY <2>6
<1>3. ASSUME NEW s \in SUBSET M, NEW m \in s, s \ {m} \in G PROVE s \in G
  <2>1. PICK r \in SUBSET M : r = s \ {m} OBVIOUS
  <2>2. PICK f : f = F(r) OBVIOUS
  <2>3. f \in [Chars -> Int] BY <1>1, <2>2
  <2>4. m \in Mails /\ m.to \in Chars /\ m.money \in Int BY DEF Mails
  <2>5. Money(s) = m.money + Money(r) BY <1>1, <2>1, MoneyRest
  <2>6. PICK d \in Chars : d = m.to BY <2>4
  <2>7. PICK w \in Int : w = f[d] + m.money BY <2>3, <2>4
  <2>8. F(s) = [f EXCEPT ![d] = w]
    <3>1. ASSUME NEW c \in Chars, c # d PROVE {k \in s : k.to = c} = {k \in r : k.to = c}
      BY <2>1, <2>6, <3>1
    <3>2. Money({k \in s : k.to = d}) = w
      <4>1. PICK k \in SUBSET s : k = {l \in s : l.to = d} OBVIOUS
      <4>2. k \in SUBSET Mails /\ IsFiniteSet(k) /\ m \in k BY <1>1, <2>6, <4>1, FS_Subset
      <4>3. Money(k) = m.money + Money(k \ {m}) BY <4>2, MoneyRest
      <4>4. k \ {m} = {l \in r : l.to = d} BY <2>1, <4>1
      <4>5. f[d] = Money({l \in r : l.to = d}) BY <2>2
      <4>6. Money(k) = m.money + f[d] BY <4>3, <4>4, <4>5
      <4>7. f[d] \in Int BY <2>3
      <4> HIDE DEF F
      <4> QED BY <2>4, <2>7, <4>1, <4>6, <4>7
    <3>3. ASSUME NEW c \in Chars
          PROVE  Money({k \in s : k.to = c}) = IF c = d THEN w ELSE f[c]
      BY <2>2, <3>1, <3>2
    <3> QED BY <2>3, <3>3
  <2>9. Total([f EXCEPT ![d] = w]) = Total(f) - f[d] + w BY <1>0, <2>3, TotalPut
  <2>10. Total(f) = Money(r) /\ Total(f) \in Int /\ f[d] \in Int
    <3>1. Total(f) = Money(r) BY <1>3, <2>1, <2>2
    <3>2. Total(f) \in Int BY <1>0, <2>3, TotalRest
    <3> QED BY <2>3, <3>1, <3>2
  <2> HIDE DEF F
  <2>11. Total(F(s)) = Money(s) BY <2>4, <2>5, <2>7, <2>8, <2>9, <2>10
  <2> QED BY <2>11
<1> HIDE DEF G
<1>4. M \in G BY <1>2, <1>3, SubsetInduct
<1>5. F(M) \in [Chars -> Int] BY <1>1
<1> QED BY <1>4, <1>5 DEF G

\* What all characters have in auctions is what is in the auctions.
LEMMA StakesTotal ==
    ASSUME NEW h \in [Items -> Auctions \cup {None}], Fair(h),
           NEW A, A = {x \in Items : h[x] # None}
    PROVE  /\ Total([c \in Chars |-> Total([x \in A |-> Stake(h[x], c)])]) = Total(Values(h))
           /\ [c \in Chars |-> Total([x \in A |-> Stake(h[x], c)])] \in [Chars -> Int]
<1> DEFINE F(s) == [c \in Chars |-> Total([x \in s |-> Stake(h[x], c)])]
           K(c) == [x \in A |-> Stake(h[x], c)]
<1>0. IsFiniteSet(Chars) /\ IsFiniteSet(Items) /\ A \in SUBSET Items BY StoreAssumption
<1>1. IsFiniteSet(A) BY <1>0, FS_Subset
<1>2. ASSUME NEW x \in A
      PROVE  /\ Total([c \in Chars |-> Stake(h[x], c)]) = Value(h[x])
             /\ [c \in Chars |-> Stake(h[x], c)] \in [Chars -> Int]
  <2>1. PICK v \in Auctions : v = h[x] OBVIOUS
  <2>2. v.owner # v.bidder BY <2>1 DEF Fair
  <2>3. /\ Total([c \in Chars |-> Stake(v, c)]) = Value(v)
        /\ [c \in Chars |-> Stake(v, c)] \in [Chars -> Int]
    BY <2>2, StakeTotal
  <2> QED BY <2>1, <2>3
<1>3. ASSUME NEW c \in Chars PROVE K(c) \in [A -> Int]
  <2>1. ASSUME NEW x \in A PROVE Stake(h[x], c) \in Int
    <3>1. PICK p \in [Chars -> Int] : p = [d \in Chars |-> Stake(h[x], d)] BY <1>2
    <3>2. p[c] = Stake(h[x], c) /\ p[c] \in Int BY <3>1
    <3> QED BY <3>2
  <2> QED BY <2>1
<1>4. ASSUME NEW c \in Chars, NEW s \in SUBSET A
      PROVE  F(s)[c] = Total(Part(K(c), s))
  <2>1. [x \in s |-> Stake(h[x], c)] = Part(K(c), s) BY DEF Part
  <2> HIDE DEF K
  <2> QED BY <2>1
<1>5. ASSUME NEW s \in SUBSET A PROVE F(s) \in [Chars -> Int]
  <2>1. ASSUME NEW c \in Chars PROVE F(s)[c] \in Int
    <3>1. PICK f \in [A -> Int] : f = K(c) BY <1>3
    <3>2. Total(Part(f, s)) \in Int BY <1>1, TotalPart
    <3>3. F(s)[c] = Total(Part(f, s)) BY <1>4, <3>1
    <3> HIDE DEF F, K
    <3> QED BY <3>2, <3>3
  <2> QED BY <2>1
<1>6. PICK V : V = Values(h) OBVIOUS
<1>7. V \in [Items -> Int] /\ \A x \in Items : V[x] = Value(h[x]) BY <1>6, ValueNat DEF Values
<1> DEFINE G == {s \in SUBSET A : Total(F(s)) = Total(Part(V, s))}
<1>8. {} \in G
  <2>1. PICK z : z = [c \in Chars |-> 0] OBVIOUS
  <2>2. ASSUME NEW c \in Chars PROVE F({})[c] = 0
    <3>1. PICK s \in SUBSET A : s = {} OBVIOUS
    <3>2. PICK f : f = K(c) OBVIOUS
    <3>3. Total(Part(f, {})) = 0 BY TotalNone
    <3>4. F(s)[c] = Total(Part(K(c), s)) BY <1>4
    <3> HIDE DEF F, K
    <3> QED BY <3>1, <3>2, <3>3, <3>4
  <2>3. F({}) = z BY <2>1, <2>2
  <2>4. Total(z) = 0 BY <1>0, <2>1, TotalZero
  <2> HIDE DEF F
  <2>5. Total(F({})) = Total(Part(V, {})) BY <2>3, <2>4, TotalNone
  <2> QED BY <2>5
<1>9. ASSUME NEW s \in SUBSET A, NEW x \in s, s \ {x} \in G PROVE s \in G
  <2>1. PICK r \in SUBSET A : r = s \ {x} OBVIOUS
  <2>2. PICK f : f = F(r) OBVIOUS
  <2>3. PICK p : p = [c \in Chars |-> Stake(h[x], c)] OBVIOUS
  <2>4. f \in [Chars -> Int] BY <1>5, <2>2
  <2>5. p \in [Chars -> Int] /\ Total(p) = V[x] BY <1>0, <1>2, <1>7, <2>3
  <2>6. ASSUME NEW c \in Chars PROVE F(s)[c] = p[c] + f[c]
    <3>1. PICK k \in [A -> Int] : k = K(c) BY <1>3
    <3>2. Total(Part(k, s)) = k[x] + Total(Part(k, r)) BY <1>1, <2>1, TotalPart
    <3>3. k[x] = p[c] BY <2>3, <3>1
    <3>4. F(s)[c] = Total(Part(K(c), s)) /\ F(r)[c] = Total(Part(K(c), r)) BY <1>4
    <3> HIDE DEF F, K
    <3> QED BY <2>2, <3>1, <3>2, <3>3, <3>4
  <2>7. F(s) = [c \in Chars |-> p[c] + f[c]]
    <3>1. F(s) = [c \in Chars |-> F(s)[c]] OBVIOUS
    <3> HIDE DEF F
    <3> QED BY <2>6, <3>1
  <2>8. Total([c \in Chars |-> p[c] + f[c]]) = Total(p) + Total(f) BY <1>0, <2>4, <2>5, TotalPlus
  <2>9. Total(f) = Total(Part(V, r)) BY <1>9, <2>1, <2>2
  <2>10. Total(Part(V, s)) = V[x] + Total(Part(V, r))
    <3>1. s \in SUBSET Items BY <1>0
    <3> QED BY <1>0, <1>7, <2>1, <3>1, TotalPart
  <2> HIDE DEF F
  <2>11. Total(F(s)) = Total(Part(V, s)) BY <2>5, <2>7, <2>8, <2>9, <2>10
  <2> QED BY <2>11
<1> HIDE DEF G
<1>10. A \in G BY <1>1, <1>8, <1>9, SubsetInduct
<1>11. Total(V) = Total(Part(V, A))
  <2>1. Total(V) = Total(Part(V, A)) + Total(Part(V, Items \ A)) BY <1>0, <1>7, TotalSplit
  <2>2. PICK E : E = Items \ A OBVIOUS
  <2>3. PICK z : z = Part(V, E) OBVIOUS
  <2>4. z = [x \in E |-> 0] BY <1>7, <2>2, <2>3 DEF Part, Value
  <2>5. IsFiniteSet(E) BY <1>0, <2>2, FS_Subset
  <2>6. Total(z) = 0 BY <2>4, <2>5, TotalZero
  <2>7. Total(Part(V, A)) \in Int BY <1>0, <1>7, TotalPart
  <2> QED BY <2>1, <2>2, <2>3, <2>6, <2>7
<1>12. Total(F(A)) = Total(V) BY <1>10, <1>11 DEF G
<1>13. F(A) \in [Chars -> Int] BY <1>5
<1> QED BY <1>6, <1>12, <1>13

\* What is counted character by character is what is counted row by row.
LEMMA WorthIs ==
    ASSUME NEW db \in Databases, Fair(db.ah), IsFiniteSet(db.mails)
    PROVE  TotalMoney(db) = Worth(db)
<1>1. /\ db.gold \in [Chars -> Nat] /\ db.mails \in SUBSET Mails
      /\ db.ah \in [Items -> Auctions \cup {None}]
  BY DEF Databases
<1>2. PICK g \in [Chars -> Int] : g = db.gold BY <1>1
<1>3. PICK M \in SUBSET Mails : M = db.mails BY <1>1
<1>4. PICK h \in [Items -> Auctions \cup {None}] : h = db.ah BY <1>1
<1>5. PICK A : A = {x \in Items : h[x] # None} OBVIOUS
<1>6. PICK f : f = [c \in Chars |-> Money({m \in M : m.to = c})] OBVIOUS
<1>7. PICK k : k = [c \in Chars |-> Total([x \in A |-> Stake(h[x], c)])] OBVIOUS
<1>8. f \in [Chars -> Int] /\ Total(f) = Money(M) BY <1>3, <1>6, MailTotal
<1>9. k \in [Chars -> Int] /\ Total(k) = Total(Values(h))
  <2>1. Fair(h) BY <1>4
  <2>2. /\ Total([c \in Chars |-> Total([x \in {y \in Items : h[y] # None} |-> Stake(h[x], c)])])
           = Total(Values(h))
        /\ [c \in Chars |-> Total([x \in {y \in Items : h[y] # None} |-> Stake(h[x], c)])]
           \in [Chars -> Int]
    BY <2>1, StakesTotal
  <2> QED BY <1>5, <1>7, <2>2
<1>10. IsFiniteSet(Chars) BY StoreAssumption
<1>11. PICK s : s = [c \in Chars |-> g[c] + f[c]] OBVIOUS
<1>12. s \in [Chars -> Int] BY <1>8, <1>11
<1>13. Total(s) = Total(g) + Total(f) BY <1>8, <1>10, <1>11, TotalPlus
<1>14. Total([c \in Chars |-> s[c] + k[c]]) = Total(s) + Total(k) BY <1>9, <1>10, <1>12, TotalPlus
<1>15. Wealth(db) = [c \in Chars |-> s[c] + k[c]]
  <2>1. Auctioned(db) = A BY <1>4, <1>5 DEF Auctioned
  <2>2. ASSUME NEW c \in Chars
        PROVE  db.gold[c] + Money({m \in db.mails : m.to = c})
               + Total([x \in Auctioned(db) |-> Stake(db.ah[x], c)]) = s[c] + k[c]
    <3>1. s[c] = db.gold[c] + Money({m \in db.mails : m.to = c}) BY <1>2, <1>3, <1>6, <1>11
    <3>2. k[c] = Total([x \in Auctioned(db) |-> Stake(db.ah[x], c)]) BY <1>4, <1>7, <2>1
    <3> QED BY <3>1, <3>2
  <2> QED BY <2>2 DEF Wealth
<1>16. TotalMoney(db) = Total(g) + Money(M) + Total(Values(h)) + db.burnt
  BY <1>8, <1>9, <1>13, <1>14, <1>15 DEF TotalMoney
<1> QED BY <1>2, <1>3, <1>4, <1>16 DEF Worth

-----------------------------------------------------------------------------
(* What the building blocks do to the rows.                                 *)

Boxes == [Chars -> SUBSET Mails]

\* Mails with ids of their own are finitely many, and so is their money.
LEMMA MailsFinite ==
    ASSUME NEW M \in SUBSET Mails, Proper(M), NEW S \in SUBSET M
    PROVE  IsFiniteSet(S) /\ Money(S) \in Nat
<1> DEFINE f == [m \in M |-> m.id]
<1>1. f \in [M -> MailIds] BY DEF Mails
<1>2. \A m, k \in M : f[m] = f[k] => m = k BY DEF Proper
<1>3. f \in Injection(M, MailIds) BY <1>1, <1>2 DEF Injection, IsInjective
<1>4. IsFiniteSet(MailIds) BY StoreAssumption
<1>5. IsFiniteSet(M) BY <1>3, <1>4, FS_Injection
<1>6. IsFiniteSet(S) BY <1>5, FS_Subset
<1>7. [m \in S |-> m.money] \in [S -> Nat] BY DEF Mails
<1> QED BY <1>6, <1>7, TotalNat DEF Money

LEMMA MoneyNone == Money({}) = 0
<1>1. PICK E \in SUBSET Mails : E = {} OBVIOUS
<1>2. Money(E) = 0 BY <1>1, FS_EmptySet, MoneyRest
<1> QED BY <1>1, <1>2

\* A mail is sent.
LEMMA MoneyPlus ==
    ASSUME NEW M \in SUBSET Mails, Proper(M), NEW m \in Mails, m \notin M
    PROVE  /\ Money(M \cup {m}) = Money(M) + m.money
           /\ Money(M \cup Carrying({m})) = Money(M) + m.money
           /\ Money(M) \in Nat /\ m.money \in Nat
<1>1. IsFiniteSet(M) /\ Money(M) \in Nat BY MailsFinite
<1>2. PICK N \in SUBSET Mails : N = {m} OBVIOUS
<1>3. IsFiniteSet(N) /\ Money(N) = m.money BY <1>2, MoneyOne
<1>4. M \cap N = {} BY <1>2
<1>5. Money(M \cup N) = Money(M) + Money(N) BY <1>1, <1>3, <1>4, MoneyAdded
<1>6. PICK C \in SUBSET N : C = Carrying(N) BY DEF Carrying
<1>7. IsFiniteSet(C) /\ Money(C) = Money(N) BY <1>3, <1>6, MoneyCarrying
<1>8. C \in SUBSET Mails /\ M \cap C = {} BY <1>4
<1>9. Money(M \cup C) = Money(M) + Money(C) BY <1>1, <1>7, <1>8, MoneyAdded
<1>10. m.money \in Nat BY DEF Mails
<1> QED BY <1>1, <1>2, <1>3, <1>5, <1>6, <1>7, <1>9, <1>10

\* The mails change, and what was burnt.
LEMMA BalancedMails ==
    ASSUME NEW db \in Databases, Balanced(db), Proper(db.mails),
           NEW a \in Databases, Proper(a.mails), a.gold = db.gold, a.ah = db.ah,
           Money(a.mails) + a.burnt = Money(db.mails) + db.burnt
    PROVE  Balanced(a)
<1>1. PICK k \in Nat : k = Money(db.mails) BY MailsFinite DEF Databases
<1>2. PICK l \in Nat : l = Money(a.mails) BY MailsFinite DEF Databases
<1>3. db.burnt \in Nat /\ a.burnt \in Nat BY DEF Databases
<1>4. PICK v \in Nat : v = Total(Values(db.ah)) BY ValueNat DEF Databases
<1>5. PICK g \in Nat : g = Total(db.gold)
  <2>1. IsFiniteSet(Chars) /\ db.gold \in [Chars -> Nat] BY StoreAssumption DEF Databases
  <2> QED BY <2>1, TotalNat
<1>6. g + l + v + a.burnt = g + k + v + db.burnt BY <1>1, <1>2, <1>3
<1> QED BY <1>1, <1>2, <1>4, <1>5, <1>6 DEF Balanced, Worth

\* So does a purse.
LEMMA BalancedPurse ==
    ASSUME NEW db \in Databases, Balanced(db), Proper(db.mails),
           NEW a \in Databases, Proper(a.mails),
           NEW c \in Chars, NEW g \in Nat, a.gold = [db.gold EXCEPT ![c] = g], a.ah = db.ah,
           g + Money(a.mails) + a.burnt = db.gold[c] + Money(db.mails) + db.burnt
    PROVE  Balanced(a)
<1>1. PICK k \in Nat : k = Money(db.mails) BY MailsFinite DEF Databases
<1>2. PICK l \in Nat : l = Money(a.mails) BY MailsFinite DEF Databases
<1>3. db.burnt \in Nat /\ a.burnt \in Nat BY DEF Databases
<1>4. PICK v \in Nat : v = Total(Values(db.ah)) BY ValueNat DEF Databases
<1>5. PICK G \in [Chars -> Nat] : G = db.gold BY DEF Databases
<1>6. Total([G EXCEPT ![c] = g]) = Total(G) - G[c] + g /\ Total(G) \in Nat /\ G[c] \in Nat
  BY PursePut
<1>7. Total(a.gold) + l + v + a.burnt = Total(G) + k + v + db.burnt
  BY <1>1, <1>2, <1>3, <1>5, <1>6
<1> QED BY <1>1, <1>2, <1>4, <1>5, <1>7 DEF Balanced, Worth

\* So does an auction.
LEMMA BalancedSale ==
    ASSUME NEW db \in Databases, Balanced(db), Proper(db.mails),
           NEW a \in Databases, Proper(a.mails),
           NEW c \in Chars, NEW g \in Nat, a.gold = [db.gold EXCEPT ![c] = g],
           NEW x \in Items, NEW v \in Auctions \cup {None}, a.ah = [db.ah EXCEPT ![x] = v],
           v # None => v.owner # v.bidder,
           g + Money(a.mails) + Value(v) + a.burnt
           = db.gold[c] + Money(db.mails) + Value(db.ah[x]) + db.burnt
    PROVE  Balanced(a)
<1>1. PICK k \in Nat : k = Money(db.mails) BY MailsFinite DEF Databases
<1>2. PICK l \in Nat : l = Money(a.mails) BY MailsFinite DEF Databases
<1>3. db.burnt \in Nat /\ a.burnt \in Nat BY DEF Databases
<1>4. PICK h \in [Items -> Auctions \cup {None}] : h = db.ah BY DEF Databases
<1>5. /\ Total(Values([h EXCEPT ![x] = v])) = Total(Values(h)) - Value(h[x]) + Value(v)
      /\ Value(h[x]) \in Nat /\ Value(v) \in Nat
  BY ValuePut
<1>6. Total(Values(h)) \in Nat BY ValueNat
<1>7. PICK G \in [Chars -> Nat] : G = db.gold BY DEF Databases
<1>8. Total([G EXCEPT ![c] = g]) = Total(G) - G[c] + g /\ Total(G) \in Nat /\ G[c] \in Nat
  BY PursePut
<1>9. Total(a.gold) + l + Total(Values(a.ah)) + a.burnt = Total(G) + k + Total(Values(h)) + db.burnt
  <2>1. PICK t \in Int : t = Total(Values(a.ah)) BY <1>4, <1>5, <1>6
  <2>2. PICK p \in Int : p = Total(a.gold) BY <1>7, <1>8
  <2>3. PICK u, w \in Int : u = Value(h[x]) /\ w = Value(v) BY <1>5
  <2>4. PICK q, r \in Int : q = Total(G) /\ r = G[c] BY <1>8
  <2>5. PICK z \in Int : z = Total(Values(h)) BY <1>6
  <2>6. t = z - u + w BY <1>4, <1>5, <2>1, <2>3, <2>5
  <2>7. p = q - r + g BY <1>7, <1>8, <2>2, <2>4
  <2>8. g + l + w + a.burnt = r + k + u + db.burnt BY <1>1, <1>2, <1>4, <1>7, <2>3, <2>4
  <2>9. p + l + t + a.burnt = q + k + z + db.burnt BY <1>3, <2>6, <2>7, <2>8
  <2> QED BY <2>1, <2>2, <2>4, <2>5, <2>9
<1>10. Fair(a.ah) BY <1>4 DEF Balanced, Fair
<1> QED BY <1>1, <1>2, <1>4, <1>7, <1>9, <1>10 DEF Balanced, Worth

\* The rows but for the ones named.
LEMMA Saved ==
    ASSUME NEW db \in Databases, NEW c \in Chars, NEW money \in Nat, NEW things \in SUBSET Items
    PROVE  LET e == SaveInventoryAndGold(db, c, money, things)
           IN  /\ e \in Databases
               /\ e.gold = [db.gold EXCEPT ![c] = money]
               /\ e.inv = [db.inv EXCEPT ![c] = things]
               /\ e.mails = db.mails /\ e.ah = db.ah /\ e.parted = db.parted /\ e.gone = db.gone
               /\ e.chars = db.chars /\ e.burnt = db.burnt
BY DEF SaveInventoryAndGold, Databases

LEMMA Destroyed ==
    ASSUME NEW db \in Databases, NEW things \in SUBSET Items, NEW money \in Nat
    PROVE  LET e == Destroy(db, things, money)
           IN  /\ e \in Databases
               /\ e.gone = db.gone \cup things /\ e.burnt = db.burnt + money
               /\ e.gold = db.gold /\ e.inv = db.inv
               /\ e.mails = db.mails /\ e.ah = db.ah /\ e.parted = db.parted
               /\ e.chars = db.chars
<1>1. PICK g : g = db.gone \cup things OBVIOUS
<1>2. PICK b : b = db.burnt + money OBVIOUS
<1>3. g \in SUBSET Items /\ b \in Nat BY <1>1, <1>2 DEF Databases
<1> DEFINE e == [db EXCEPT !.gone = g, !.burnt = b]
<1>4. /\ e \in Databases /\ e.gone = g /\ e.burnt = b
      /\ e.gold = db.gold /\ e.inv = db.inv
      /\ e.mails = db.mails /\ e.ah = db.ah /\ e.parted = db.parted
      /\ e.chars = db.chars
  BY <1>3 DEF Databases
<1>5. Destroy(db, things, money) = e BY <1>1, <1>2 DEF Destroy
<1> HIDE DEF e
<1> QED BY <1>1, <1>2, <1>4, <1>5

LEMMA Spent ==
    ASSUME NEW db \in Databases, NEW money \in Nat
    PROVE  LET e == Destroy(db, {}, money)
           IN  /\ e \in Databases
               /\ e.gone = db.gone /\ e.burnt = db.burnt + money
               /\ e.gold = db.gold /\ e.inv = db.inv
               /\ e.mails = db.mails /\ e.ah = db.ah /\ e.parted = db.parted
               /\ e.chars = db.chars
<1>1. PICK t \in SUBSET Items : t = {} OBVIOUS
<1>2. PICK e : e = Destroy(db, t, money) OBVIOUS
<1>3. /\ e \in Databases
      /\ e.gone = db.gone \cup t /\ e.burnt = db.burnt + money
      /\ e.gold = db.gold /\ e.inv = db.inv
      /\ e.mails = db.mails /\ e.ah = db.ah /\ e.parted = db.parted
      /\ e.chars = db.chars
  BY <1>2, Destroyed
<1>4. db.gone \cup t = db.gone BY <1>1
<1>5. e = Destroy(db, {}, money) BY <1>1, <1>2
<1> QED BY <1>3, <1>4, <1>5

LEMMA Sent ==
    ASSUME NEW db \in Databases, NEW b \in Boxes, NEW m \in Mails
    PROVE  LET st == SendMailTo([db |-> db, box |-> b], m)
               e == st.db
           IN  /\ st = [db |-> e, box |-> st.box]
               /\ e \in Databases /\ st.box \in Boxes
               /\ e.mails = db.mails \cup Carrying({m})
               /\ e.gold = db.gold /\ e.inv = db.inv
               /\ e.ah = db.ah /\ e.parted = db.parted /\ e.gone = db.gone
               /\ e.chars = db.chars /\ e.burnt = db.burnt
               /\ \A c \in Chars : st.box[c] = IF c = m.to /\ InWorld(c)
                                               THEN b[c] \cup Carrying({m}) ELSE b[c]
<1> DEFINE new == Carrying({m})
<1>1. new \subseteq {m} /\ m.to \in Chars BY DEF Carrying, Mails
<1> HIDE DEF new
<1> DEFINE e == [db EXCEPT !.mails = @ \cup new]
           w == IF InWorld(m.to) THEN [b EXCEPT ![m.to] = @ \cup new] ELSE b
<1>2. /\ e \in Databases /\ e.mails = db.mails \cup new
      /\ e.gold = db.gold /\ e.inv = db.inv
      /\ e.ah = db.ah /\ e.parted = db.parted /\ e.gone = db.gone
      /\ e.chars = db.chars /\ e.burnt = db.burnt
  BY <1>1 DEF Databases
<1>3. w \in Boxes BY <1>1 DEF Boxes
<1>4. \A c \in Chars : w[c] = IF c = m.to /\ InWorld(c) THEN b[c] \cup new ELSE b[c]
  BY <1>1 DEF Boxes
<1>5. SendMailTo([db |-> db, box |-> b], m) = [db |-> e, box |-> w] BY DEF SendMailTo, new
<1> HIDE DEF e, w
<1>6. PICK st : st = SendMailTo([db |-> db, box |-> b], m) OBVIOUS
<1>7. st.db = e /\ st.box = w /\ st = [db |-> st.db, box |-> st.box] BY <1>5, <1>6
<1>8. /\ st.db \in Databases /\ st.box \in Boxes
      /\ st.db.mails = db.mails \cup new
      /\ st.db.gold = db.gold /\ st.db.inv = db.inv
      /\ st.db.ah = db.ah /\ st.db.parted = db.parted /\ st.db.gone = db.gone
      /\ st.db.chars = db.chars /\ st.db.burnt = db.burnt
  BY <1>2, <1>3, <1>7
<1>9. \A c \in Chars : st.box[c] = IF c = m.to /\ InWorld(c) THEN b[c] \cup new ELSE b[c]
  BY <1>4, <1>7
<1> QED BY <1>6, <1>7, <1>8, <1>9 DEF new

Ids(M) == {m.id : m \in M}

Room(U, n) == Cardinality(MailIds \ U) >= n

\* An id that is free, and how many are left.
LEMMA FreshId ==
    ASSUME NEW U, NEW n \in Nat \ {0}, Room(U, n)
    PROVE  Unused(U) \in MailIds \ U /\ \A i : Room(U \cup {i}, n - 1)
<1> DEFINE F == MailIds \ U
<1>1. IsFiniteSet(F) /\ F \subseteq Nat BY StoreAssumption, FS_Subset
<1>2. Cardinality(F) \in Nat /\ F # {} BY <1>1, FS_CardinalityType, FS_EmptySet DEF Room
<1>3. Unused(U) \in F
  <2>1. \E x \in F : \A y \in F : x <= y BY <1>1, <1>2, NatMin
  <2> HIDE DEF F
  <2>2. Min(F) \in F BY <2>1 DEF Min
  <2> QED BY <2>2 DEF Unused, F
<1>4. ASSUME NEW i PROVE Room(U \cup {i}, n - 1)
  <2>1. MailIds \ (U \cup {i}) = F \ {i} OBVIOUS
  <2>2. CASE i \in F
    <3>1. Cardinality(F \ {i}) = Cardinality(F) - 1 BY <1>1, <2>2, FS_RemoveElement
    <3> QED BY <1>2, <2>1, <3>1 DEF Room
  <2>3. CASE i \notin F
    <3>1. F \ {i} = F BY <2>3
    <3> QED BY <1>2, <2>1, <3>1 DEF Room
  <2> QED BY <2>2, <2>3
<1> QED BY <1>3, <1>4

LEMMA RoomLess ==
    ASSUME NEW U, NEW V, V \subseteq U, NEW n \in Nat, Room(U, n)
    PROVE  Room(V, n)
<1>1. IsFiniteSet(MailIds \ V) /\ MailIds \ U \subseteq MailIds \ V BY StoreAssumption, FS_Subset
<1>2. IsFiniteSet(MailIds \ U) /\ Cardinality(MailIds \ U) <= Cardinality(MailIds \ V)
  BY <1>1, FS_Subset
<1> QED BY <1>1, <1>2, FS_CardinalityType DEF Room

\* st is the rows as they will be and the boxes as they are, but for new mails
\* N, money that was destroyed and items that were.
Mailing(st, N) ==
    /\ st = [db |-> st.db, box |-> st.box] /\ st.db \in Databases /\ st.box \in Boxes
    /\ N \in SUBSET Mails /\ st.db.mails = Soon.mails \cup N /\ Proper(st.db.mails)
    /\ \A m \in N : m.id \notin UsedIds
    /\ \A c \in Chars : st.box[c] = IF InWorld(c) THEN box[c] \cup {m \in N : m.to = c} ELSE box[c]
    /\ st.db.gold = Soon.gold /\ st.db.inv = Soon.inv
    /\ st.db.ah = Soon.ah /\ st.db.parted = Soon.parted /\ st.db.chars = Soon.chars

\* A mail is added that has an id of its own.
LEMMA ProperAdded ==
    ASSUME NEW M \in SUBSET Mails, Proper(M), NEW m \in Mails, m.id \notin Ids(M)
    PROVE  Proper(M \cup Carrying({m}))
<1>1. \A k \in Carrying({m}) : k = m /\ (k.money > 0 \/ k.items # {}) BY DEF Carrying
<1>2. \A k \in M : k.id # m.id BY DEF Ids
<1> DEFINE C == Carrying({m})
<1>3. \A k \in M : k.money > 0 \/ k.items # {} BY DEF Proper, Carrying
<1> HIDE DEF C
<1>4. Carrying(M \cup C) = M \cup C BY <1>1, <1>3 DEF Carrying, C
<1>5. \A k, l \in M \cup C : k.id = l.id => k = l BY <1>1, <1>2 DEF Proper, C
<1> QED BY <1>4, <1>5 DEF Proper, C

LEMMA MailingSent ==
    ASSUME NEW st, NEW N, Mailing(st, N), NEW m \in Mails, m.id \notin Ids(st.db.mails) \cup UsedIds
    PROVE  LET t == SendMailTo(st, m)
           IN  Mailing(t, N \cup Carrying({m})) /\ t.db.gone = st.db.gone
               /\ t.db.chars = st.db.chars /\ t.db.burnt = st.db.burnt
<1>1. PICK db : db = st.db OBVIOUS
<1>2. PICK b : b = st.box OBVIOUS
<1>3. st = [db |-> db, box |-> b] /\ db \in Databases /\ b \in Boxes BY <1>1, <1>2 DEF Mailing
<1>4. PICK t : t = SendMailTo(st, m) OBVIOUS
<1> DEFINE C == Carrying({m})
<1>5. /\ t = [db |-> t.db, box |-> t.box]
      /\ t.db \in Databases /\ t.box \in Boxes
      /\ t.db.mails = db.mails \cup C
      /\ t.db.gold = db.gold /\ t.db.inv = db.inv
      /\ t.db.ah = db.ah /\ t.db.parted = db.parted /\ t.db.gone = db.gone
      /\ t.db.chars = db.chars /\ t.db.burnt = db.burnt
      /\ \A c \in Chars : t.box[c] = IF c = m.to /\ InWorld(c) THEN b[c] \cup C ELSE b[c]
  BY <1>3, <1>4, Sent
<1>6. C \subseteq {m} BY DEF Carrying
<1>7. db.mails \in SUBSET Mails BY <1>3 DEF Databases
<1>8. Proper(db.mails \cup C) BY <1>1, <1>7, ProperAdded DEF Mailing
<1> HIDE DEF C
<1>9. \A c \in Chars : t.box[c] = IF InWorld(c) THEN box[c] \cup {k \in N \cup C : k.to = c} ELSE box[c]
  <2> TAKE c \in Chars
  <2>1. b[c] = IF InWorld(c) THEN box[c] \cup {k \in N : k.to = c} ELSE box[c] BY <1>2 DEF Mailing
  <2>2. t.box[c] = IF c = m.to /\ InWorld(c) THEN b[c] \cup C ELSE b[c] BY <1>5
  <2>3. \A k \in C : k.to = m.to BY <1>6
  <2>4. CASE c = m.to /\ InWorld(c)
    <3>1. {k \in N \cup C : k.to = c} = {k \in N : k.to = c} \cup C BY <2>3, <2>4
    <3> QED BY <2>1, <2>2, <2>4, <3>1
  <2>5. CASE ~(c = m.to /\ InWorld(c))
    <3>1. InWorld(c) => {k \in N \cup C : k.to = c} = {k \in N : k.to = c} BY <2>3, <2>5
    <3> QED BY <2>1, <2>2, <2>5, <3>1
  <2> QED BY <2>4, <2>5
<1>10. /\ N \cup C \in SUBSET Mails /\ t.db.mails = Soon.mails \cup (N \cup C)
       /\ \A k \in N \cup C : k.id \notin UsedIds
  BY <1>1, <1>5, <1>6 DEF Mailing
<1>11. /\ t.db.gold = Soon.gold /\ t.db.inv = Soon.inv
       /\ t.db.ah = Soon.ah /\ t.db.parted = Soon.parted /\ t.db.chars = Soon.chars
  BY <1>1, <1>5 DEF Mailing
<1>12. Mailing(t, N \cup C) BY <1>5, <1>8, <1>9, <1>10, <1>11 DEF Mailing
<1> QED BY <1>1, <1>4, <1>5, <1>12 DEF C

LEMMA MailingDestroyed ==
    ASSUME NEW st, NEW N, Mailing(st, N), NEW things \in SUBSET Items, NEW money \in Nat
    PROVE  LET t == [st EXCEPT !.db = Destroy(@, things, money)]
           IN  Mailing(t, N) /\ t.db.gone = st.db.gone \cup things
               /\ t.db.chars = st.db.chars /\ t.db.burnt = st.db.burnt + money
<1>1. PICK db : db = st.db OBVIOUS
<1>2. PICK b : b = st.box OBVIOUS
<1>3. st = [db |-> db, box |-> b] /\ db \in Databases /\ b \in Boxes BY <1>1, <1>2 DEF Mailing
<1>4. PICK e : e = Destroy(db, things, money) OBVIOUS
<1>5. /\ e \in Databases
      /\ e.gone = db.gone \cup things /\ e.burnt = db.burnt + money
      /\ e.gold = db.gold /\ e.inv = db.inv
      /\ e.mails = db.mails /\ e.ah = db.ah /\ e.parted = db.parted
      /\ e.chars = db.chars
  BY <1>3, <1>4, Destroyed
<1>6. PICK t : t = [db |-> e, box |-> b] OBVIOUS
<1>7. [st EXCEPT !.db = Destroy(@, things, money)] = t BY <1>3, <1>4, <1>6
<1>8. t = [db |-> t.db, box |-> t.box] /\ t.db = e /\ t.box = b BY <1>6
<1>9. Mailing(t, N) BY <1>1, <1>2, <1>3, <1>5, <1>8 DEF Mailing
<1> QED BY <1>1, <1>5, <1>7, <1>8, <1>9

\* What a letter of the house adds: the mails K, which are one, or none when
\* nobody is there to get it.
Posted(t, st, N, K, to, money, items, n) ==
    /\ Mailing(t, N \cup K) /\ Room(UsedIds \cup Ids(t.db.mails), n - 1)
    /\ t.db.chars = st.db.chars
    /\ \A m \in K : /\ m.items = items /\ m.money = money /\ m.to = to
                    /\ m.from = House /\ m.cod = 0 /\ m \notin st.db.mails
    /\ \A m, k \in K : m = k
    /\ Exists(to) => /\ t.db.gone = st.db.gone /\ t.db.burnt = st.db.burnt
                     /\ (money > 0 \/ items # {}) => K # {}
                     /\ (money = 0 /\ items = {}) => K = {}
    /\ ~Exists(to) => /\ K = {} /\ t.db.gone = st.db.gone \cup items
                      /\ t.db.burnt = st.db.burnt + money

LEMMA MailingHouse ==
    ASSUME NEW st, NEW N, Mailing(st, N), NEW to \in Chars, NEW money \in Nat,
           NEW items \in SUBSET Items,
           NEW n \in Nat \ {0}, Room(UsedIds \cup Ids(st.db.mails), n)
    PROVE  \E K \in SUBSET Mails :
              Posted(HouseMail(st, to, money, items), st, N, K, to, money, items, n)
<1>1. PICK U : U = UsedIds \cup Ids(st.db.mails) OBVIOUS
<1>2. Unused(U) \in MailIds \ U /\ \A i : Room(U \cup {i}, n - 1) BY <1>1, FreshId
<1>3. PICK m : m = Letter(Unused(U), House, to, money, 0, items, FALSE) OBVIOUS
<1>4. /\ m \in Mails /\ m.id = Unused(U) /\ m.items = items /\ m.money = money /\ m.to = to
      /\ m.from = House /\ m.cod = 0
  BY <1>2, <1>3 DEF Letter, Mails
<1>5. m.id \notin Ids(st.db.mails) \cup UsedIds BY <1>1, <1>2, <1>4
<1>6. m \notin st.db.mails BY <1>5 DEF Ids
<1>7. Exists(to) => HouseMail(st, to, money, items) = SendMailTo(st, m)
  BY <1>1, <1>3 DEF HouseMail, Ids
<1>8. ~Exists(to) => HouseMail(st, to, money, items) = [st EXCEPT !.db = Destroy(@, items, money)]
  BY DEF HouseMail
<1>9. PICK t : t = HouseMail(st, to, money, items) OBVIOUS
<1>10. CASE Exists(to)
  <2> DEFINE K == Carrying({m})
  <2>1. /\ Mailing(t, N \cup K) /\ t.db.gone = st.db.gone
        /\ t.db.chars = st.db.chars /\ t.db.burnt = st.db.burnt
    BY <1>4, <1>5, <1>7, <1>9, <1>10, MailingSent
  <2>2. K \subseteq {m} /\ ((m.money > 0 \/ m.items # {}) <=> K # {}) BY DEF Carrying
  <2> HIDE DEF K
  <2>3. st.db.mails = Soon.mails \cup N /\ t.db.mails = Soon.mails \cup (N \cup K)
    BY <2>1 DEF Mailing
  <2>4. UsedIds \cup Ids(t.db.mails) \subseteq U \cup {m.id}
    BY <1>1, <2>2, <2>3 DEF Ids
  <2>5. Room(UsedIds \cup Ids(t.db.mails), n - 1)
    <3>1. Room(U \cup {m.id}, n - 1) BY <1>2
    <3>0. n - 1 \in Nat OBVIOUS
    <3> QED BY <2>4, <3>0, <3>1, RoomLess
  <2>6. K \in SUBSET Mails BY <1>4, <2>2
  <2>7. (money > 0 \/ items # {} => K # {}) /\ (money = 0 /\ items = {} => K = {})
    BY <1>4, <2>2
  <2>8. \A k \in K : k = m BY <2>2
  <2>9. Posted(t, st, N, K, to, money, items, n)
    BY <1>4, <1>6, <1>10, <2>1, <2>5, <2>7, <2>8 DEF Posted
  <2> QED BY <1>9, <2>6, <2>9
<1>11. CASE ~Exists(to)
  <2>1. /\ Mailing(t, N) /\ t.db.gone = st.db.gone \cup items
        /\ t.db.chars = st.db.chars /\ t.db.burnt = st.db.burnt + money
    <3>1. LET u == [st EXCEPT !.db = Destroy(@, items, money)]
          IN  Mailing(u, N) /\ u.db.gone = st.db.gone \cup items
              /\ u.db.chars = st.db.chars /\ u.db.burnt = st.db.burnt + money
      BY MailingDestroyed
    <3>2. t = [st EXCEPT !.db = Destroy(@, items, money)] BY <1>8, <1>9, <1>11
    <3> QED BY <3>1, <3>2
  <2>2. t.db.mails = st.db.mails BY <2>1 DEF Mailing
  <2>3. Room(UsedIds \cup Ids(t.db.mails), n - 1)
    <3>1. Room(U \cup {m.id}, n - 1) BY <1>2
    <3>0. n - 1 \in Nat OBVIOUS
    <3>2. UsedIds \cup Ids(t.db.mails) \subseteq U \cup {m.id} BY <1>1, <2>2
    <3> QED BY <3>0, <3>1, <3>2, RoomLess
  <2>4. N \cup {} = N OBVIOUS
  <2>5. {} \in SUBSET Mails /\ Mailing(t, N \cup {}) BY <2>1, <2>4
  <2>6. Posted(t, st, N, {}, to, money, items, n) BY <1>11, <2>1, <2>3, <2>5 DEF Posted
  <2> QED BY <1>9, <2>5, <2>6
<1> QED BY <1>10, <1>11

-----------------------------------------------------------------------------
(* An item in one place.                                                    *)

\* The rows of x in e are as in db.
Alike(e, db, x) ==
    /\ \A c \in Chars : x \in e.inv[c] <=> x \in db.inv[c]
    /\ Posts(e, x) = Posts(db, x)
    /\ \A c \in Chars : <<c, x>> \in e.parted <=> <<c, x>> \in db.parted
    /\ e.ah[x] = db.ah[x]
    /\ x \in e.gone <=> x \in db.gone

LEMMA OnceAlike ==
    ASSUME NEW e, NEW db, NEW x, Once(db, x), Alike(e, db, x)
    PROVE  Once(e, x)
<1>1. Bags(e, x) = Bags(db, x) BY DEF Alike, Bags
<1>2. Cuts(e, x) = Cuts(db, x) BY DEF Alike, Cuts
<1>3. Posts(e, x) = Posts(db, x) /\ e.ah[x] = db.ah[x] /\ (x \in e.gone <=> x \in db.gone)
  BY DEF Alike
<1> QED BY <1>1, <1>2, <1>3 DEF Once

\* Where an item is, it is alone.
LEMMA OnceBag ==
    ASSUME NEW db, NEW x, Once(db, x), NEW c \in Chars, x \in db.inv[c]
    PROVE  /\ x \notin db.gone /\ db.ah[x] = None
           /\ \A d \in Chars : x \in db.inv[d] => d = c
           /\ \A m \in db.mails : x \notin m.items
           /\ \A d \in Chars : <<d, x>> \notin db.parted
<1>1. c \in Bags(db, x) BY DEF Bags
<1>2. x \notin db.gone /\ db.ah[x] = None /\ Lone(Bags(db, x)) /\ Posts(db, x) = {} /\ Cuts(db, x) = {}
  BY <1>1 DEF Once
<1>3. Bags(db, x) = {c} BY <1>1, <1>2 DEF Lone
<1> QED BY <1>2, <1>3 DEF Bags, Posts, Cuts

LEMMA OncePost ==
    ASSUME NEW db, NEW x, Once(db, x), NEW m \in db.mails, x \in m.items
    PROVE  /\ x \notin db.gone /\ db.ah[x] = None
           /\ \A d \in Chars : x \notin db.inv[d]
           /\ \A k \in db.mails : x \in k.items => k = m
           /\ \A d \in Chars : <<d, x>> \notin db.parted
<1>1. m \in Posts(db, x) BY DEF Posts
<1>2. x \notin db.gone /\ db.ah[x] = None /\ Lone(Posts(db, x)) /\ Bags(db, x) = {} /\ Cuts(db, x) = {}
  BY <1>1 DEF Once
<1>3. Posts(db, x) = {m} BY <1>1, <1>2 DEF Lone
<1> QED BY <1>2, <1>3 DEF Bags, Posts, Cuts

LEMMA OnceSale ==
    ASSUME NEW db, NEW x, Once(db, x), db.ah[x] # None
    PROVE  /\ \A d \in Chars : x \notin db.inv[d]
           /\ \A k \in db.mails : x \notin k.items
           /\ \A d \in Chars : <<d, x>> \notin db.parted
<1>1. Bags(db, x) = {} /\ Posts(db, x) = {} /\ Cuts(db, x) = {} BY DEF Once
<1> QED BY <1>1 DEF Bags, Posts, Cuts

LEMMA OnceInBag ==
    ASSUME NEW e, NEW x, x \notin e.gone, e.ah[x] = None,
           \A k \in e.mails : x \notin k.items, \A d \in Chars : <<d, x>> \notin e.parted,
           NEW c \in Chars, x \in e.inv[c], \A d \in Chars : x \in e.inv[d] => d = c
    PROVE  Once(e, x)
<1>1. Bags(e, x) = {c} /\ Posts(e, x) = {} /\ Cuts(e, x) = {} BY DEF Bags, Posts, Cuts
<1> QED BY <1>1 DEF Once, Lone

LEMMA OnceInPost ==
    ASSUME NEW e, NEW x, x \notin e.gone, e.ah[x] = None,
           \A d \in Chars : x \notin e.inv[d], \A d \in Chars : <<d, x>> \notin e.parted,
           NEW m \in e.mails, x \in m.items, \A k \in e.mails : x \in k.items => k = m
    PROVE  Once(e, x)
<1>1. Posts(e, x) = {m} /\ Bags(e, x) = {} /\ Cuts(e, x) = {} BY DEF Bags, Posts, Cuts
<1> QED BY <1>1 DEF Once, Lone

LEMMA OnceCut ==
    ASSUME NEW e, NEW x, x \notin e.gone, e.ah[x] = None,
           \A d \in Chars : x \notin e.inv[d], \A k \in e.mails : x \notin k.items,
           NEW c \in Chars, <<c, x>> \in e.parted, \A d \in Chars : <<d, x>> \in e.parted => d = c
    PROVE  Once(e, x)
<1>1. Cuts(e, x) = {c} /\ Bags(e, x) = {} /\ Posts(e, x) = {} BY DEF Bags, Posts, Cuts
<1> QED BY <1>1 DEF Once, Lone

LEMMA OnceElse ==
    ASSUME NEW e, NEW x, x \in e.gone \/ e.ah[x] # None,
           \A d \in Chars : x \notin e.inv[d], \A d \in Chars : <<d, x>> \notin e.parted,
           \A k \in e.mails : x \notin k.items
    PROVE  Once(e, x)
<1>1. Bags(e, x) = {} /\ Posts(e, x) = {} /\ Cuts(e, x) = {} BY DEF Bags, Posts, Cuts
<1> QED BY <1>1 DEF Once

-----------------------------------------------------------------------------
(* A commit, and those whom it does not concern.                            *)

Grown ==
    /\ log' \in Seq(Databases) /\ log' # <<>> /\ Len(log) <= Len(log')
    /\ \A n \in DOMAIN log : n \in DOMAIN log' /\ log'[n] = log[n]

\* The states that are committed.
Added == DOMAIN log' \ DOMAIN log

LEMMA OneMore ==
    ASSUME log \in Seq(Databases), log # <<>>, NEW a \in Databases, Commit(<<a>>)
    PROVE  Grown /\ Soon' = a /\ \A n \in Added : log'[n] = a
<1>1. log' = log \o <<a>> BY DEF Commit
<1>2. log' \in Seq(Databases) /\ Len(log') = Len(log) + 1 BY <1>1
<1>3. \A n \in 1 .. Len(log) : log'[n] = log[n] BY <1>1
<1>4. log'[Len(log) + 1] = a BY <1>1
<1>5. DOMAIN log = 1 .. Len(log) /\ DOMAIN log' = 1 .. Len(log) + 1 BY <1>2
<1>6. Soon' = a BY <1>2, <1>4 DEF Soon, Last
<1>7. \A n \in Added : n = Len(log) + 1 BY <1>5 DEF Added
<1> QED BY <1>2, <1>3, <1>4, <1>5, <1>6, <1>7 DEF Grown

LEMMA TwoMore ==
    ASSUME log \in Seq(Databases), log # <<>>, NEW a \in Databases, NEW b \in Databases,
           Commit(<<a, b>>)
    PROVE  Grown /\ Soon' = b /\ \A n \in Added : log'[n] \in {a, b}
<1>1. log' = log \o <<a, b>> BY DEF Commit
<1>2. log' \in Seq(Databases) /\ Len(log') = Len(log) + 2 BY <1>1
<1>3. \A n \in 1 .. Len(log) : log'[n] = log[n] BY <1>1
<1>4. log'[Len(log) + 1] = a /\ log'[Len(log) + 2] = b BY <1>1
<1>5. DOMAIN log = 1 .. Len(log) /\ DOMAIN log' = 1 .. Len(log) + 2 BY <1>2
<1>6. Soon' = b BY <1>2, <1>4 DEF Soon, Last
<1>7. \A n \in Added : n \in {Len(log) + 1, Len(log) + 2} BY <1>5 DEF Added
<1> QED BY <1>2, <1>3, <1>4, <1>5, <1>6, <1>7 DEF Grown

\* What is committed does not concern c, but for mails that arrive.
Stays(c) ==
    /\ status'[c] = status[c] /\ ahead'[c] = ahead[c]
    /\ gold'[c] = gold[c] /\ inv'[c] = inv[c] /\ deleted'[c] = deleted[c]
    /\ \A n \in Added :
          /\ log'[n].gold[c] = Soon.gold[c] /\ log'[n].inv[c] = Soon.inv[c]
          /\ MailsOf(log'[n], c) \subseteq Soon'.mails
    /\ Soon'.gold[c] = Soon.gold[c] /\ Soon'.inv[c] = Soon.inv[c]
    /\ MailsOf(Soon, c) \subseteq Soon'.mails
    /\ box[c] \subseteq box'[c] /\ box'[c] \subseteq box[c] \cup MailsOf(Soon', c)
    /\ InWorld(c) \/ box'[c] = box[c]

LEMMA StaysMember ==
    ASSUME log \in Seq(Databases), ahead \in [Chars -> Nat], NEW c \in Chars,
           Member(c), Grown, Stays(c)
    PROVE  Member(c)'
<1>1. PICK e : e = Soon' OBVIOUS
<1>2. MailsOf(Soon, c) \subseteq MailsOf(e, c) BY <1>1 DEF Stays, MailsOf
<1>3. ASSUME Mirror(c) PROVE Mirror(c)'
  <2>1. box[c] \subseteq MailsOf(e, c) BY <1>2, <1>3 DEF Mirror
  <2>2. box'[c] \subseteq MailsOf(e, c) BY <1>1, <2>1 DEF Stays
  <2>3. gold'[c] = e.gold[c] /\ inv'[c] = e.inv[c] BY <1>1, <1>3 DEF Stays, Mirror
  <2> QED BY <1>1, <2>2, <2>3 DEF Mirror
<1>4. ASSUME NEW n \in Nat, Settled(c, n) PROVE Settled(c, n)'
  <2>1. ASSUME NEW k \in DOMAIN log', k >= n
        PROVE  /\ log'[k].gold[c] = e.gold[c] /\ log'[k].inv[c] = e.inv[c]
               /\ MailsOf(log'[k], c) \subseteq e.mails
    <3>1. CASE k \in DOMAIN log
      <4>1. log'[k] = log[k] BY <3>1 DEF Grown
      <4>2. /\ log[k].gold[c] = Soon.gold[c] /\ log[k].inv[c] = Soon.inv[c]
            /\ MailsOf(log[k], c) \subseteq Soon.mails
        BY <1>4, <2>1, <3>1 DEF Settled
      <4>3. MailsOf(log[k], c) \subseteq e.mails BY <1>2, <4>2 DEF MailsOf
      <4>4. e.gold[c] = Soon.gold[c] /\ e.inv[c] = Soon.inv[c] BY <1>1 DEF Stays
      <4> QED BY <4>1, <4>2, <4>3, <4>4
    <3>2. CASE k \notin DOMAIN log
      <4>1. k \in Added BY <3>2 DEF Added
      <4> QED BY <1>1, <4>1 DEF Stays
    <3> QED BY <3>1, <3>2
  <2> QED BY <1>1, <2>1 DEF Settled
<1>5. status'[c] = status[c] /\ ahead'[c] = ahead[c] /\ deleted'[c] = deleted[c] BY DEF Stays
<1>6. ASSUME status[c] = "online"
      PROVE  Mirror(c)' /\ deleted'[c] \subseteq {m.id : m \in box'[c]}
  <2>1. Mirror(c) /\ deleted[c] \subseteq {m.id : m \in box[c]} BY <1>6 DEF Member
  <2>2. box[c] \subseteq box'[c] BY DEF Stays
  <2> QED BY <1>3, <1>5, <2>1, <2>2
<1>7. ASSUME status[c] = "loading"
      PROVE  /\ ahead'[c] < Len(log') /\ Settled(c, ahead[c] + 1)'
             /\ ahead'[c] = 0 => Mirror(c)'
  <2>1. ahead[c] < Len(log) /\ Settled(c, ahead[c] + 1) /\ (ahead[c] = 0 => Mirror(c))
    BY <1>7 DEF Member
  <2>2. PICK a : a = ahead[c] OBVIOUS
  <2>3. a \in Nat /\ a + 1 \in Nat BY <2>2
  <2>4. Settled(c, a + 1)' BY <1>4, <2>1, <2>2, <2>3
  <2>5. Len(log) \in Nat /\ Len(log') \in Nat BY DEF Grown
  <2>6. ahead'[c] < Len(log') BY <1>5, <2>1, <2>2, <2>3, <2>5 DEF Grown
  <2>7. Settled(c, ahead[c] + 1)' BY <1>5, <2>2, <2>4
  <2>8. ahead'[c] = 0 => Mirror(c)' BY <1>3, <1>5, <2>1
  <2> QED BY <2>6, <2>7, <2>8
<1>8. status[c] # "online" => deleted'[c] = {} BY <1>5 DEF Member
<1>9. status[c] \notin {"online", "loading"} => box'[c] = {} BY DEF Member, Stays, InWorld
<1> QED BY <1>5, <1>6, <1>7, <1>8, <1>9 DEF Member

LEMMA Basics ==
    ASSUME IInv
    PROVE  /\ log \in Seq(Databases) /\ log # <<>> /\ Len(log) \in Nat \ {0}
           /\ Len(log) \in DOMAIN log /\ 1 \in DOMAIN log
           /\ Soon = log[Len(log)] /\ Soon \in Databases /\ Sound(Soon)
           /\ Now = log[1] /\ Now \in Databases /\ Sound(Now)
           /\ Soon.mails \in SUBSET Mails
           /\ Ids(Soon.mails) \subseteq UsedIds
           /\ \A c \in Chars : Ids(box[c]) \subseteq UsedIds
           /\ ahead \in [Chars -> Nat] /\ box \in Boxes
           /\ \A n \in Nat : HasRoom(n) => Room(UsedIds \cup Ids(Soon.mails), n)
           /\ Mailing(Here, {})
<1>1. log \in Seq(Databases) /\ log # <<>> BY DEF IInv, TypeOK
<1>2. Len(log) \in Nat \ {0} /\ Len(log) \in DOMAIN log /\ 1 \in DOMAIN log BY <1>1
<1>3. Soon = log[Len(log)] /\ Now = log[1] BY <1>1, <1>2 DEF Soon, Last, Now
<1>4. Soon \in Databases /\ Now \in Databases BY <1>1, <1>2, <1>3
<1>5. Sound(Soon) /\ Sound(Now) BY <1>2, <1>3 DEF IInv
<1>6. Soon.mails \in SUBSET Mails BY <1>4 DEF Databases
<1>7. Ids(Soon.mails) \subseteq UsedIds
  <2>1. ASSUME NEW m \in log[Len(log)].mails PROVE m.id \in UsedIds BY <1>2 DEF UsedIds
  <2> QED BY <1>3, <2>1 DEF Ids
<1>8. \A c \in Chars : Ids(box[c]) \subseteq UsedIds
  <2>1. ASSUME NEW c \in Chars, NEW m \in box[c] PROVE m.id \in UsedIds BY DEF UsedIds
  <2> QED BY <2>1 DEF Ids
<1>9. ahead \in [Chars -> Nat] /\ box \in Boxes BY DEF IInv, TypeOK, Boxes
<1>10. UsedIds \cup Ids(Soon.mails) = UsedIds BY <1>7
<1>11. \A n \in Nat : HasRoom(n) => Room(UsedIds \cup Ids(Soon.mails), n)
  BY <1>10 DEF HasRoom, Room
<1>12. Mailing(Here, {})
  <2>1. PICK st : st = Here OBVIOUS
  <2>2. st = [db |-> st.db, box |-> st.box] /\ st.db = Soon /\ st.box = box BY <2>1 DEF Here
  <2>3. Proper(Soon.mails) BY <1>5 DEF Sound
  <2>4. \A c \in Chars : {m \in {} : m.to = c} = {} OBVIOUS
  <2>5. Mailing(st, {}) BY <1>4, <1>9, <2>2, <2>3, <2>4 DEF Mailing
  <2> QED BY <2>1, <2>5
<1> QED BY <1>1, <1>2, <1>3, <1>4, <1>5, <1>6, <1>7, <1>8, <1>9, <1>11, <1>12

\* Mails N are sent, and the rows of characters in the world follow their
\* memory.
LEMMA Delivered ==
    ASSUME IInv, NEW st, NEW N, Mailing(st, N), Grown,
           Soon'.mails = Soon.mails \cup N, box' = st.box,
           UNCHANGED <<status, ahead, deleted>>,
           \A n \in Added : log'[n].mails \subseteq Soon'.mails,
           \A d \in Chars :
              \/ /\ gold'[d] = gold[d] /\ inv'[d] = inv[d]
                 /\ Soon'.gold[d] = Soon.gold[d] /\ Soon'.inv[d] = Soon.inv[d]
                 /\ \A n \in Added : log'[n].gold[d] = Soon.gold[d] /\ log'[n].inv[d] = Soon.inv[d]
              \/ /\ InWorld(d)
                 /\ gold'[d] = Soon'.gold[d] /\ inv'[d] = Soon'.inv[d]
    PROVE  \A d \in Chars : Member(d)'
<1> SUFFICES ASSUME NEW d \in Chars PROVE Member(d)' OBVIOUS
<1>1. log \in Seq(Databases) /\ ahead \in [Chars -> Nat] BY Basics
<1>2. Member(d) BY DEF IInv
<1>3. box'[d] = IF InWorld(d) THEN box[d] \cup {m \in N : m.to = d} ELSE box[d] BY DEF Mailing
<1>4. PICK e : e = Soon' OBVIOUS
<1>5. e.mails = Soon.mails \cup N BY <1>4
<1>6. MailsOf(Soon, d) \subseteq MailsOf(e, d) BY <1>5 DEF MailsOf
<1>7. {m \in N : m.to = d} \subseteq MailsOf(e, d) BY <1>5 DEF MailsOf
<1>8. status'[d] = status[d] /\ ahead'[d] = ahead[d] /\ deleted'[d] = deleted[d] OBVIOUS
<1>9. CASE /\ gold'[d] = gold[d] /\ inv'[d] = inv[d]
           /\ Soon'.gold[d] = Soon.gold[d] /\ Soon'.inv[d] = Soon.inv[d]
           /\ \A n \in Added : log'[n].gold[d] = Soon.gold[d] /\ log'[n].inv[d] = Soon.inv[d]
  <2>1. \A n \in Added : MailsOf(log'[n], d) \subseteq Soon'.mails BY DEF MailsOf
  <2>2. MailsOf(Soon, d) \subseteq Soon'.mails BY <1>4, <1>6 DEF MailsOf
  <2>3. box[d] \subseteq box'[d] /\ box'[d] \subseteq box[d] \cup MailsOf(Soon', d)
    BY <1>3, <1>4, <1>7
  <2>4. InWorld(d) \/ box'[d] = box[d] BY <1>3
  <2>5. Stays(d) BY <1>8, <1>9, <2>1, <2>2, <2>3, <2>4 DEF Stays
  <2> QED BY <1>1, <1>2, <2>5, StaysMember
<1>10. CASE InWorld(d) /\ gold'[d] = Soon'.gold[d] /\ inv'[d] = Soon'.inv[d]
  <2>1. status[d] = "online" BY <1>10 DEF InWorld
  <2>2. box[d] \subseteq MailsOf(Soon, d) /\ deleted[d] \subseteq {m.id : m \in box[d]}
    BY <1>2, <2>1 DEF Member, Mirror
  <2>3. box'[d] = box[d] \cup {m \in N : m.to = d} BY <1>3, <1>10
  <2>4. box'[d] \subseteq MailsOf(e, d) BY <1>6, <1>7, <2>2, <2>3
  <2>5. deleted'[d] \subseteq {m.id : m \in box'[d]} BY <1>8, <2>2, <2>3
  <2>6. Mirror(d)' BY <1>4, <1>10, <2>4 DEF Mirror
  <2> QED BY <1>8, <2>1, <2>5, <2>6 DEF Member
<1> QED BY <1>9, <1>10

\* The rows of a state stay sound: the new ones are.
LEMMA GrownSound ==
    ASSUME IInv, Grown, \A n \in Added : Sound(log'[n])
    PROVE  \A n \in DOMAIN log' : Sound(log'[n])
<1> SUFFICES ASSUME NEW n \in DOMAIN log' PROVE Sound(log'[n]) OBVIOUS
<1>1. CASE n \in DOMAIN log BY <1>1 DEF IInv, Grown
<1>2. CASE n \notin DOMAIN log BY <1>2 DEF Added
<1> QED BY <1>1, <1>2

-----------------------------------------------------------------------------
(* The handlers of the mail.                                                *)

\* The parts of the invariant, put together.
LEMMA Together ==
    ASSUME IInv, Grown, \A n \in Added : Sound(log'[n]),
           \A d \in Chars : Member(d)', \A x \in Items : Listed(x)',
           status' \in [Chars -> Statuses], ahead' \in [Chars -> Nat], gold' \in [Chars -> Nat],
           inv' \in [Chars -> SUBSET Items], box' \in Boxes,
           deleted' \in [Chars -> SUBSET MailIds], ah' \in [Items -> Auctions \cup {None}]
    PROVE  IInv'
<1>1. \A n \in DOMAIN log' : Sound(log'[n]) BY GrownSound
<1>2. TypeOK' BY DEF TypeOK, Grown, Boxes
<1> QED BY <1>1, <1>2 DEF IInv

\* The auctions are as before, and so is what is gone of them.
LEMMA ListedSame ==
    ASSUME IInv, UNCHANGED ah, Soon'.ah = Soon.ah, Soon.gone \subseteq Soon'.gone,
           \A x \in Items : ah[x] # None => x \notin Soon'.gone
    PROVE  \A x \in Items : Listed(x)'
BY DEF IInv, Listed

\* A letter m of c goes out with what it costs.
Posting(c, to, money, cod, items, st, m, g, r, cost, a) ==
    /\ m \in Mails /\ g \in Nat /\ r \in SUBSET Items /\ cost \in Nat
    /\ InWorld(c) /\ items \subseteq inv[c] /\ gold[c] >= cost + money
    /\ g = gold[c] - cost - money /\ r = inv[c] \ items
    /\ gold' = [gold EXCEPT ![c] = g] /\ inv' = [inv EXCEPT ![c] = r]
    /\ gold'[c] = g /\ inv'[c] = r /\ box' = st.box
    /\ Commit(<<a>>) /\ UNCHANGED <<status, ahead, deleted>>
    /\ m.id \notin UsedIds /\ m.items = items /\ m.money = money /\ m.cod = cod
    /\ m.from = c /\ m.to = to /\ ~m.back /\ to # c /\ (items = {} => cod = 0)
    /\ Mailing(st, {m})
    /\ a \in Databases
    /\ a.gold = [Soon.gold EXCEPT ![c] = g] /\ a.inv = [Soon.inv EXCEPT ![c] = r]
    /\ a.mails = Soon.mails \cup {m} /\ Proper(a.mails)
    /\ a.ah = Soon.ah /\ a.parted = Soon.parted /\ a.gone = Soon.gone
    /\ a.burnt = Soon.burnt + cost /\ a.chars = Soon.chars

LEMMA SendMailRows ==
    ASSUME IInv, NEW c \in Chars, NEW to \in Chars, NEW money \in Nat, NEW cod \in Nat,
           NEW items \in SUBSET Items, SendMail(c, to, money, cod, items)
    PROVE  \E st, m, g, r, cost, a :
              Posting(c, to, money, cod, items, st, m, g, r, cost, a)
<1> DEFINE cost == Postage * (IF items = {} THEN 1 ELSE Cardinality(items))
           m == Letter(Unused(UsedIds), c, to, money, cod, items, FALSE)
           st == SendMailTo(Here, m)
           e == SaveInventoryAndGold(st.db, c, gold'[c], inv'[c])
           a == Destroy(e, {}, cost)
<1>1. /\ InWorld(c) /\ items \subseteq inv[c] /\ (money > 0 \/ items # {})
      /\ gold[c] >= cost + money /\ HasRoom(1) /\ to # c /\ (items = {} => cod = 0)
      /\ gold' = [gold EXCEPT ![c] = @ - cost - money]
      /\ inv' = [inv EXCEPT ![c] = @ \ items]
      /\ box' = st.box
      /\ Commit(<<a>>)
      /\ UNCHANGED <<status, ahead, deleted>>
  BY DEF SendMail, Here
<1>2. cost \in Nat
  <2>1. IsFiniteSet(items) BY StoreAssumption, FS_Subset
  <2>2. Cardinality(items) \in Nat BY <2>1, FS_CardinalityType
  <2>3. PICK k : k = IF items = {} THEN 1 ELSE Cardinality(items) OBVIOUS
  <2>4. k \in Nat /\ Postage \in Nat BY <2>2, <2>3, MailAssumption
  <2>5. Postage * k \in Nat BY <2>4
  <2> QED BY <2>3, <2>5
<1> HIDE DEF cost
<1>3. /\ m \in Mails /\ m.id \notin UsedIds /\ m.items = items /\ m.to = to /\ Carrying({m}) = {m}
      /\ m.money = money /\ m.cod = cod /\ m.from = c /\ ~m.back
  <2>1. Room(UsedIds, 1) BY <1>1 DEF HasRoom, Room
  <2>2. Unused(UsedIds) \in MailIds \ UsedIds BY <2>1, FreshId
  <2>3. PICK i : i = Unused(UsedIds) OBVIOUS
  <2>4. m = [id |-> i, from |-> c, to |-> to, money |-> money, cod |-> cod,
             items |-> items, back |-> FALSE] BY <2>3 DEF Letter
  <2> HIDE DEF m
  <2>5. m \in Mails BY <2>2, <2>3, <2>4 DEF Mails
  <2>6. /\ m.id = i /\ m.items = items /\ m.to = to /\ m.money = money
        /\ m.cod = cod /\ m.from = c /\ ~m.back
    BY <2>4
  <2>7. Carrying({m}) = {m} BY <1>1, <2>6 DEF Carrying
  <2> QED BY <2>2, <2>3, <2>5, <2>6, <2>7
<1> HIDE DEF m
<1>4. /\ gold \in [Chars -> Nat] /\ inv \in [Chars -> SUBSET Items] BY DEF IInv, TypeOK
<1>5. PICK g \in Nat : g = gold[c] - cost - money BY <1>1, <1>2, <1>4
<1>6. PICK r \in SUBSET Items : r = inv[c] \ items BY <1>4
<1>7. gold' = [gold EXCEPT ![c] = g] /\ inv' = [inv EXCEPT ![c] = r] BY <1>1, <1>5, <1>6
<1>8. gold'[c] = g /\ inv'[c] = r BY <1>4, <1>7
<1>9. /\ Mailing(st, {m}) /\ st.db.gone = Soon.gone /\ st.db.burnt = Soon.burnt
      /\ st.db.chars = Soon.chars
  <2>1. Mailing(Here, {}) /\ Here.db = Soon /\ Ids(Soon.mails) \subseteq UsedIds BY Basics DEF Here
  <2>2. m.id \notin Ids(Here.db.mails) \cup UsedIds BY <1>3, <2>1
  <2>3. /\ Mailing(st, {} \cup Carrying({m})) /\ st.db.gone = Here.db.gone
        /\ st.db.burnt = Here.db.burnt /\ st.db.chars = Here.db.chars
    BY <1>3, <2>1, <2>2, MailingSent
  <2>4. {} \cup Carrying({m}) = {m} BY <1>3
  <2> QED BY <2>1, <2>3, <2>4
<1> HIDE DEF st
<1>10. PICK db : db = st.db OBVIOUS
<1>11. /\ db \in Databases /\ db.mails = Soon.mails \cup {m} /\ Proper(db.mails)
       /\ db.gold = Soon.gold /\ db.inv = Soon.inv
       /\ db.ah = Soon.ah /\ db.parted = Soon.parted /\ db.gone = Soon.gone
       /\ db.burnt = Soon.burnt /\ db.chars = Soon.chars
  BY <1>9, <1>10 DEF Mailing
<1>12. /\ e \in Databases
       /\ e.gold = [db.gold EXCEPT ![c] = g]
       /\ e.inv = [db.inv EXCEPT ![c] = r]
       /\ e.mails = db.mails /\ e.ah = db.ah /\ e.parted = db.parted /\ e.gone = db.gone
       /\ e.burnt = db.burnt /\ e.chars = db.chars
  BY <1>8, <1>10, <1>11, Saved
<1> HIDE DEF e
<1>13. /\ a \in Databases
       /\ a.gold = [Soon.gold EXCEPT ![c] = g] /\ a.inv = [Soon.inv EXCEPT ![c] = r]
       /\ a.mails = Soon.mails \cup {m} /\ Proper(a.mails)
       /\ a.ah = Soon.ah /\ a.parted = Soon.parted /\ a.gone = Soon.gone
       /\ a.burnt = Soon.burnt + cost /\ a.chars = Soon.chars
  <2>1. /\ a \in Databases /\ a.gone = e.gone /\ a.burnt = e.burnt + cost
        /\ a.gold = e.gold /\ a.inv = e.inv
        /\ a.mails = e.mails /\ a.ah = e.ah /\ a.parted = e.parted /\ a.chars = e.chars
    BY <1>2, <1>12, Spent
  <2> QED BY <1>11, <1>12, <2>1
<1> HIDE DEF a
<1>14. Posting(c, to, money, cod, items, st, m, g, r, cost, a)
  BY <1>1, <1>2, <1>3, <1>5, <1>6, <1>7, <1>8, <1>9, <1>13 DEF Posting
<1> QED BY <1>14

LEMMA SendMailStep ==
    ASSUME IInv, NEW c \in Chars, NEW to \in Chars, NEW money \in Nat, NEW cod \in Nat,
           NEW items \in SUBSET Items, SendMail(c, to, money, cod, items), UNCHANGED ah
    PROVE  IInv'
<1>0. PICK st, m, g, r, cost, a :
         Posting(c, to, money, cod, items, st, m, g, r, cost, a)
  BY SendMailRows
<1>1. /\ InWorld(c) /\ items \subseteq inv[c] /\ gold[c] >= cost + money
      /\ box' = st.box /\ Commit(<<a>>) /\ UNCHANGED <<status, ahead, deleted>>
  BY <1>0 DEF Posting
<1>3. m \in Mails /\ m.id \notin UsedIds /\ m.items = items /\ m.money = money BY <1>0 DEF Posting
<1>2. cost \in Nat /\ g \in Nat /\ r \in SUBSET Items BY <1>0 DEF Posting
<1>4. /\ gold \in [Chars -> Nat] /\ inv \in [Chars -> SUBSET Items] BY DEF IInv, TypeOK
<1>5. g = gold[c] - cost - money BY <1>0 DEF Posting
<1>6. r = inv[c] \ items BY <1>0 DEF Posting
<1>7. gold' = [gold EXCEPT ![c] = g] /\ inv' = [inv EXCEPT ![c] = r] BY <1>0 DEF Posting
<1>8. gold'[c] = g /\ inv'[c] = r BY <1>0 DEF Posting
<1>9. Mailing(st, {m}) BY <1>0 DEF Posting
<1>13. /\ a \in Databases
       /\ a.gold = [Soon.gold EXCEPT ![c] = g] /\ a.inv = [Soon.inv EXCEPT ![c] = r]
       /\ a.mails = Soon.mails \cup {m} /\ Proper(a.mails)
       /\ a.ah = Soon.ah /\ a.parted = Soon.parted /\ a.gone = Soon.gone
       /\ a.burnt = Soon.burnt + cost
  BY <1>0 DEF Posting
<1>14. Grown /\ Soon' = a /\ \A n \in Added : log'[n] = a BY <1>1, <1>13, Basics, OneMore
<1>15. inv[c] = Soon.inv[c] /\ gold[c] = Soon.gold[c]
  BY <1>1 DEF IInv, Member, Mirror, InWorld
<1>16. Soon \in Databases /\ Sound(Soon) BY Basics
<1>17. Soon.gold \in [Chars -> Nat] /\ Soon.inv \in [Chars -> SUBSET Items] BY <1>16 DEF Databases
<1>18. Sound(a)
  <2>1. ASSUME NEW x \in Items PROVE Once(a, x)
    <3>1. Once(Soon, x) BY <1>16 DEF Sound
    <3>2. CASE x \in items
      <4>1. x \in Soon.inv[c] BY <1>1, <1>15, <3>2
      <4>2. /\ x \notin Soon.gone /\ Soon.ah[x] = None
            /\ \A d \in Chars : x \in Soon.inv[d] => d = c
            /\ \A k \in Soon.mails : x \notin k.items
            /\ \A d \in Chars : <<d, x>> \notin Soon.parted
        BY <3>1, <4>1, OnceBag
      <4>3. \A d \in Chars : x \notin a.inv[d] BY <1>6, <1>13, <1>17, <3>2, <4>2
      <4>4. m \in a.mails /\ x \in m.items /\ \A k \in a.mails : x \in k.items => k = m
        BY <1>3, <1>13, <3>2, <4>2
      <4> QED BY <1>13, <4>2, <4>3, <4>4, OnceInPost
    <3>3. CASE x \notin items
      <4>1. \A d \in Chars : x \in a.inv[d] <=> x \in Soon.inv[d]
        BY <1>6, <1>13, <1>15, <1>17, <3>3
      <4>2. Posts(a, x) = Posts(Soon, x) BY <1>3, <1>13, <3>3 DEF Posts
      <4>3. Alike(a, Soon, x) BY <1>13, <4>1, <4>2 DEF Alike
      <4> QED BY <3>1, <4>3, OnceAlike
    <3> QED BY <3>2, <3>3
  <2>2. Balanced(a)
    <3>1. Balanced(Soon) /\ Proper(Soon.mails) /\ Soon.mails \in SUBSET Mails
      BY <1>16 DEF Sound, Databases
    <3>2. m \notin Soon.mails
      <4>1. Ids(Soon.mails) \subseteq UsedIds BY Basics
      <4> QED BY <1>3, <4>1 DEF Ids
    <3>3. /\ Money(Soon.mails \cup {m}) = Money(Soon.mails) + money
          /\ Money(Soon.mails) \in Nat
      BY <1>3, <3>1, <3>2, MoneyPlus
    <3>4. g + Money(a.mails) + a.burnt = Soon.gold[c] + Money(Soon.mails) + Soon.burnt
      <4>1. Soon.burnt \in Nat /\ Soon.gold[c] \in Nat BY <1>16, <1>17 DEF Databases
      <4>2. g = Soon.gold[c] - cost - money BY <1>5, <1>15
      <4> QED BY <1>2, <1>13, <3>3, <4>1, <4>2
    <3> QED BY <1>2, <1>13, <1>16, <3>1, <3>4, BalancedPurse
  <2> QED BY <1>13, <2>1, <2>2 DEF Sound
<1>19. \A d \in Chars : Member(d)'
  <2>1. Soon'.mails = Soon.mails \cup {m} /\ \A n \in Added : log'[n].mails \subseteq Soon'.mails
    BY <1>13, <1>14
  <2>2. ASSUME NEW d \in Chars
        PROVE  \/ /\ gold'[d] = gold[d] /\ inv'[d] = inv[d]
                  /\ Soon'.gold[d] = Soon.gold[d] /\ Soon'.inv[d] = Soon.inv[d]
                  /\ \A n \in Added : log'[n].gold[d] = Soon.gold[d] /\ log'[n].inv[d] = Soon.inv[d]
               \/ /\ InWorld(d)
                  /\ gold'[d] = Soon'.gold[d] /\ inv'[d] = Soon'.inv[d]
    <3>1. CASE d = c
      <4>1. a.gold[c] = g /\ a.inv[c] = r BY <1>13, <1>17
      <4> QED BY <1>1, <1>8, <1>14, <3>1, <4>1
    <3>2. CASE d # c
      <4>1. a.gold[d] = Soon.gold[d] /\ a.inv[d] = Soon.inv[d] BY <1>13, <1>17, <3>2
      <4>2. gold'[d] = gold[d] /\ inv'[d] = inv[d] BY <1>4, <1>7, <3>2
      <4> QED BY <1>14, <4>1, <4>2
    <3> QED BY <3>1, <3>2
  <2> QED BY <1>1, <1>9, <1>14, <2>1, <2>2, Delivered
<1>20. \A x \in Items : Listed(x)'
  <2>1. \A x \in Items : ah[x] # None => x \notin Soon.gone BY DEF IInv, Listed
  <2> QED BY <1>13, <1>14, <2>1, ListedSame
<1>21. \A n \in Added : Sound(log'[n]) BY <1>14, <1>18
<1>22. box' \in Boxes BY <1>1, <1>9 DEF Mailing
<1>23. gold' \in [Chars -> Nat] /\ inv' \in [Chars -> SUBSET Items] BY <1>2, <1>4, <1>7
<1> QED BY <1>1, <1>14, <1>19, <1>20, <1>21, <1>22, <1>23, Together DEF IInv, TypeOK

\* One row under Player::_SaveMail.
Updating(r, changed, taken) ==
    LET now == {m \in changed : m.id = r.id}
    IN  [r EXCEPT !.items = @ \ taken,
                  !.money = IF now = {} THEN @ ELSE Pick(now).money,
                  !.cod = IF now = {} THEN @ ELSE Pick(now).cod]

\* The mails of db that are not marked as deleted.
Undeleted(db, c) == {q \in db.mails : q.id \notin deleted[c]}

Dead(c) == {m \in box[c] : m.id \in deleted[c]}

\* What is in them.
DeadItems(c) == UNION {m.items : m \in Dead(c)}

DeadMoney(db, c) == Money({r \in db.mails : r.id \in deleted[c]})

Written(db, c, changed, taken) ==
    {Updating(r, changed, taken) : r \in Undeleted(db, c)}

LEMMA UpdatingType ==
    ASSUME NEW r \in Mails, NEW changed \in SUBSET Mails, NEW taken
    PROVE  Updating(r, changed, taken) \in Mails
<1>1. PICK now : now = {m \in changed : m.id = r.id} OBVIOUS
<1>2. now # {} => Pick(now) \in Mails BY <1>1, PickIn
<1>3. PICK y : y = IF now = {} THEN r.money ELSE Pick(now).money OBVIOUS
<1>4. PICK z : z = IF now = {} THEN r.cod ELSE Pick(now).cod OBVIOUS
<1>5. y \in Nat /\ z \in Nat BY <1>2, <1>3, <1>4 DEF Mails
<1>6. Updating(r, changed, taken) = [r EXCEPT !.items = r.items \ taken, !.money = y, !.cod = z]
  BY <1>1, <1>3, <1>4 DEF Updating
<1>7. r.items \ taken \in SUBSET Items BY DEF Mails
<1> QED BY <1>5, <1>6, <1>7 DEF Mails

LEMMA SaveMailRows ==
    ASSUME NEW db \in Databases, NEW c \in Chars, box \in Boxes, Proper(db.mails),
           NEW changed \in SUBSET Mails, NEW taken
    PROVE  LET e == SaveMail(db, c, changed, taken)
           IN  /\ e \in Databases
               /\ e.mails = Carrying(Written(db, c, changed, taken))
               /\ e.gone = db.gone \cup DeadItems(c)
               /\ e.burnt = db.burnt + DeadMoney(db, c)
               /\ e.gold = db.gold /\ e.inv = db.inv /\ e.ah = db.ah /\ e.parted = db.parted
               /\ e.chars = db.chars
<1> DEFINE M == Carrying(Written(db, c, changed, taken))
           d == [db EXCEPT !.mails = M]
           things == DeadItems(c)
           money == DeadMoney(db, c)
<1>1. db.mails \in SUBSET Mails BY DEF Databases
<1>2. M \in SUBSET Mails
  <2>1. \A r \in Undeleted(db, c) : Updating(r, changed, taken) \in Mails
    BY <1>1, UpdatingType DEF Undeleted
  <2> QED BY <2>1 DEF Carrying, Written
<1>3. SaveMail(db, c, changed, taken) = Destroy(d, things, money)
  BY DEF SaveMail, Updating, Undeleted, Dead, DeadItems, DeadMoney, Written, Pick
<1> HIDE DEF M
<1>4. /\ d \in Databases /\ d.mails = M /\ d.gold = db.gold /\ d.inv = db.inv /\ d.ah = db.ah
      /\ d.parted = db.parted /\ d.chars = db.chars /\ d.gone = db.gone /\ d.burnt = db.burnt
  BY <1>2 DEF Databases
<1> HIDE DEF d
<1>5. things \in SUBSET Items
  <2>1. \A m \in Dead(c) : m.items \in SUBSET Items BY DEF Dead, Boxes, Mails
  <2> QED BY <2>1 DEF DeadItems
<1>6. money \in Nat
  <2>1. {r \in db.mails : r.id \in deleted[c]} \in SUBSET db.mails OBVIOUS
  <2> QED BY <1>1, <2>1, MailsFinite DEF DeadMoney
<1> HIDE DEF things, money
<1>7. PICK e : e = Destroy(d, things, money) OBVIOUS
<1>8. /\ e \in Databases
      /\ e.gone = d.gone \cup things /\ e.burnt = d.burnt + money
      /\ e.gold = d.gold /\ e.inv = d.inv
      /\ e.mails = d.mails /\ e.ah = d.ah /\ e.parted = d.parted
      /\ e.chars = d.chars
  BY <1>4, <1>5, <1>6, <1>7, Destroyed
<1> QED BY <1>3, <1>4, <1>7, <1>8 DEF M, things, money

\* A row that nothing concerns is written as it is; the mail that was changed
\* is written as it is in memory.
LEMMA UpdatingSame ==
    ASSUME NEW r \in Mails, NEW changed, NEW taken,
           \A k \in changed : k.id # r.id, r.items \cap taken = {}
    PROVE  Updating(r, changed, taken) = r
<1>1. PICK now : now = {m \in changed : m.id = r.id} OBVIOUS
<1>2. now = {} BY <1>1
<1>3. r.items \ taken = r.items OBVIOUS
<1>4. Updating(r, changed, taken) = [r EXCEPT !.items = r.items, !.money = r.money, !.cod = r.cod]
  BY <1>1, <1>2, <1>3 DEF Updating
<1> QED BY <1>4 DEF Mails

LEMMA UpdatingRest ==
    ASSUME NEW m \in Mails, NEW rest, NEW taken,
           rest.id = m.id,
           rest = [m EXCEPT !.items = m.items \ taken, !.money = rest.money, !.cod = rest.cod]
    PROVE  Updating(m, {rest}, taken) = rest
<1>1. PICK now : now = {k \in {rest} : k.id = m.id} OBVIOUS
<1>2. now = {rest} BY <1>1
<1>3. Pick(now) = rest BY <1>2, PickIn
<1>4. now # {} BY <1>2
<1>5. Updating(m, {rest}, taken)
        = [m EXCEPT !.items = m.items \ taken, !.money = rest.money, !.cod = rest.cod]
  BY <1>1, <1>3, <1>4 DEF Updating
<1> QED BY <1>5

\* The mail m without what was taken out of it.
Leaves(m, rest, taken) ==
    /\ rest.id = m.id /\ rest.to = m.to /\ rest.items = m.items \ taken
    /\ rest = [m EXCEPT !.items = m.items \ taken, !.money = rest.money, !.cod = rest.cod]

\* No mail but m has any of it.
Apart(M, m, taken) == \A r \in M \ {m} : r.items \cap taken = {}

Exchanging(M, m, rest) == (M \ {m}) \cup {rest}

LEMMA SaveMailRest ==
    ASSUME NEW db \in Databases, NEW c \in Chars, Proper(db.mails),
           NEW m \in Undeleted(db, c), NEW rest, NEW taken,
           Leaves(m, rest, taken), Apart(db.mails, m, taken),
           NEW changed, changed = {rest}
    PROVE  Written(db, c, changed, taken) = Exchanging(Undeleted(db, c), m, rest)
<1>1. db.mails \in SUBSET Mails BY DEF Databases
<1>2. Undeleted(db, c) \subseteq db.mails BY DEF Undeleted
<1>3. Updating(m, {rest}, taken) = rest BY <1>1, <1>2, UpdatingRest DEF Leaves
<1>4. ASSUME NEW r \in Undeleted(db, c) \ {m} PROVE Updating(r, {rest}, taken) = r
  <2>1. r \in Mails /\ r.id # m.id BY <1>1, <1>2 DEF Proper
  <2>2. r.items \cap taken = {} BY <1>2 DEF Apart
  <2>3. \A k \in {rest} : k.id # r.id BY <2>1 DEF Leaves
  <2> QED BY <2>1, <2>2, <2>3, UpdatingSame
<1> QED BY <1>3, <1>4 DEF Written, Exchanging

\* The mails with the marked ids are those in the box.
LEMMA DeadRows ==
    ASSUME NEW db, NEW c \in Chars, Proper(db.mails), box[c] \subseteq db.mails,
           deleted[c] \subseteq {m.id : m \in box[c]}
    PROVE  \A r \in db.mails : r \in Dead(c) <=> r.id \in deleted[c]
BY DEF Proper, Dead

LEMMA ProperPart ==
    ASSUME NEW M, Proper(M), NEW S \in SUBSET M
    PROVE  Proper(S)
BY DEF Proper, Carrying

LEMMA ProperRest ==
    ASSUME NEW M, Proper(M), NEW S \in SUBSET M, NEW m \in M, NEW rest, rest.id = m.id
    PROVE  Proper(Carrying((S \ {m}) \cup {rest}))
<1>1. PICK R : R = (S \ {m}) \cup {rest} OBVIOUS
<1>2. \A k, l \in R : k.id = l.id => k = l BY <1>1 DEF Proper
<1>3. Carrying(Carrying(R)) = Carrying(R) /\ Carrying(R) \subseteq R BY DEF Carrying
<1> QED BY <1>1, <1>2, <1>3 DEF Proper

\* What is left is what is not marked as deleted.
LEMMA UndeletedMoney ==
    ASSUME NEW db \in Databases, Proper(db.mails), NEW c
    PROVE  /\ Money(Undeleted(db, c)) \in Nat /\ DeadMoney(db, c) \in Nat
           /\ Money(db.mails) = Money(Undeleted(db, c)) + DeadMoney(db, c)
           /\ IsFiniteSet(Undeleted(db, c))
<1>1. PICK M \in SUBSET Mails : M = db.mails BY DEF Databases
<1>2. PICK U \in SUBSET M : U = Undeleted(db, c) BY <1>1 DEF Undeleted
<1>3. PICK D \in SUBSET M : D = {r \in db.mails : r.id \in deleted[c]} BY <1>1
<1>4. M \ U = D BY <1>1, <1>2, <1>3 DEF Undeleted
<1>5. Proper(M) BY <1>1
<1>6. IsFiniteSet(M) /\ IsFiniteSet(U) /\ Money(U) \in Nat /\ Money(D) \in Nat BY <1>5, MailsFinite
<1>7. Money(M) = Money(U) + Money(M \ U) BY <1>6, MoneyRest
<1> QED BY <1>1, <1>2, <1>3, <1>4, <1>6, <1>7 DEF DeadMoney

\* What a character in the world has in memory is in the rows.
LEMMA Online ==
    ASSUME IInv, NEW c \in Chars, InWorld(c)
    PROVE  /\ gold[c] = Soon.gold[c] /\ inv[c] = Soon.inv[c]
           /\ box[c] \subseteq MailsOf(Soon, c) /\ box[c] \subseteq Soon.mails
           /\ deleted[c] \subseteq {m.id : m \in box[c]}
           /\ gold[c] \in Nat /\ inv[c] \in SUBSET Items
           /\ \A r \in Soon.mails : r \in Dead(c) <=> r.id \in deleted[c]
           /\ Dead(c) \subseteq Soon.mails /\ \A m \in Dead(c) : m.to = c
           /\ Live(c) \subseteq Undeleted(Soon, c) /\ Live(c) \subseteq box[c]
           /\ \A m \in box[c] : m \in Mails /\ m.to = c
<1>1. Member(c) /\ status[c] = "online" BY DEF IInv, InWorld
<1>2. /\ gold[c] = Soon.gold[c] /\ inv[c] = Soon.inv[c]
      /\ box[c] \subseteq MailsOf(Soon, c)
      /\ deleted[c] \subseteq {m.id : m \in box[c]}
  BY <1>1 DEF Member, Mirror
<1>3. box[c] \subseteq Soon.mails /\ \A m \in box[c] : m.to = c BY <1>2 DEF MailsOf
<1>4. Proper(Soon.mails) /\ Soon.mails \in SUBSET Mails BY Basics DEF Sound
<1>5. \A r \in Soon.mails : r \in Dead(c) <=> r.id \in deleted[c] BY <1>2, <1>3, <1>4, DeadRows
<1>6. Dead(c) \subseteq box[c] BY DEF Dead
<1>7. Live(c) \subseteq Undeleted(Soon, c) /\ Live(c) \subseteq box[c] BY <1>3 DEF Live, Undeleted
<1>8. gold[c] \in Nat /\ inv[c] \in SUBSET Items BY DEF IInv, TypeOK
<1> QED BY <1>2, <1>3, <1>4, <1>5, <1>6, <1>7, <1>8

\* c is saved without his marked mails.
Leaving(c, a) ==
    /\ InWorld(c) /\ Commit(<<a>>)
    /\ status' = [status EXCEPT ![c] = "offline"]
    /\ ahead' = [ahead EXCEPT ![c] = Len(log)]
    /\ gold' = [gold EXCEPT ![c] = 0]
    /\ inv' = [inv EXCEPT ![c] = {}]
    /\ box' = [box EXCEPT ![c] = {}]
    /\ deleted' = [deleted EXCEPT ![c] = {}]
    /\ a \in Databases /\ a.mails = Undeleted(Soon, c)
    /\ a.gone = Soon.gone \cup DeadItems(c) /\ a.burnt = Soon.burnt + DeadMoney(Soon, c)
    /\ a.gold = Soon.gold /\ a.inv = Soon.inv /\ a.ah = Soon.ah /\ a.parted = Soon.parted
    /\ a.chars = Soon.chars

LEMMA LogoutRows ==
    ASSUME IInv, NEW c \in Chars, Logout(c)
    PROVE  \E a : Leaving(c, a)
<1> DEFINE s == SaveInventoryAndGold(Soon, c, gold[c], inv[c])
           a == SaveMail(s, c, {}, {})
<1>1. /\ InWorld(c) /\ Commit(<<a>>)
      /\ status' = [status EXCEPT ![c] = "offline"]
      /\ ahead' = [ahead EXCEPT ![c] = Len(log)]
      /\ gold' = [gold EXCEPT ![c] = 0]
      /\ inv' = [inv EXCEPT ![c] = {}]
      /\ box' = [box EXCEPT ![c] = {}]
      /\ deleted' = [deleted EXCEPT ![c] = {}]
  BY DEF Logout, Forgotten
<1>2. /\ gold[c] = Soon.gold[c] /\ inv[c] = Soon.inv[c]
      /\ gold[c] \in Nat /\ inv[c] \in SUBSET Items
      /\ \A r \in Soon.mails : r \in Dead(c) <=> r.id \in deleted[c]
      /\ Dead(c) \subseteq Soon.mails /\ \A m \in Dead(c) : m.to = c
  BY <1>1, Online
<1>3. Soon \in Databases /\ Sound(Soon) /\ Proper(Soon.mails) /\ Soon.mails \in SUBSET Mails
  BY Basics DEF Sound
<1>4. Soon.gold \in [Chars -> Nat] /\ Soon.inv \in [Chars -> SUBSET Items] BY <1>3 DEF Databases
<1>5. /\ s \in Databases /\ s.gold = Soon.gold /\ s.inv = Soon.inv
      /\ s.mails = Soon.mails /\ s.ah = Soon.ah /\ s.parted = Soon.parted /\ s.gone = Soon.gone
      /\ s.burnt = Soon.burnt /\ s.chars = Soon.chars
  <2>1. /\ s \in Databases
        /\ s.gold = [Soon.gold EXCEPT ![c] = gold[c]]
        /\ s.inv = [Soon.inv EXCEPT ![c] = inv[c]]
        /\ s.mails = Soon.mails /\ s.ah = Soon.ah /\ s.parted = Soon.parted /\ s.gone = Soon.gone
        /\ s.burnt = Soon.burnt /\ s.chars = Soon.chars
    BY <1>2, <1>3, Saved
  <2> HIDE DEF s
  <2> QED BY <1>2, <1>4, <2>1
<1> HIDE DEF s
<1> DEFINE U == Undeleted(Soon, c)
<1>6. Undeleted(s, c) = U BY <1>5 DEF Undeleted
<1>7. U \in SUBSET Soon.mails BY DEF Undeleted
<1>8. /\ a \in Databases /\ a.mails = U
      /\ a.gone = Soon.gone \cup DeadItems(c) /\ a.burnt = Soon.burnt + DeadMoney(Soon, c)
      /\ a.gold = Soon.gold /\ a.inv = Soon.inv /\ a.ah = Soon.ah /\ a.parted = Soon.parted
      /\ a.chars = Soon.chars
  <2>1. box \in Boxes /\ {} \in SUBSET Mails BY Basics
  <2> DEFINE left == Written(s, c, {}, {})
  <2>2. /\ a \in Databases /\ a.mails = Carrying(left)
        /\ a.gone = s.gone \cup DeadItems(c) /\ a.burnt = s.burnt + DeadMoney(s, c)
        /\ a.gold = s.gold /\ a.inv = s.inv /\ a.ah = s.ah /\ a.parted = s.parted
        /\ a.chars = s.chars
    <3>1. PICK none \in SUBSET Mails : none = {} OBVIOUS
    <3>2. PICK t : t = s OBVIOUS
    <3>3. LET b == SaveMail(t, c, none, none)
          IN  /\ b \in Databases
              /\ b.mails = Carrying(Written(t, c, none, none))
              /\ b.gone = t.gone \cup DeadItems(c) /\ b.burnt = t.burnt + DeadMoney(t, c)
              /\ b.gold = t.gold /\ b.inv = t.inv /\ b.ah = t.ah /\ b.parted = t.parted
              /\ b.chars = t.chars
      <4>1. t \in Databases /\ Proper(t.mails) BY <1>3, <1>5, <3>2
      <4> QED BY <2>1, <4>1, SaveMailRows
    <3>4. a = SaveMail(t, c, none, none) BY <3>1, <3>2
    <3>5. left = Written(t, c, none, none) BY <3>1, <3>2
    <3> HIDE DEF a, left
    <3> QED BY <3>2, <3>3, <3>4, <3>5
  <2>3. \A r \in U : Updating(r, {}, {}) = r
    <3>1. ASSUME NEW r \in U PROVE Updating(r, {}, {}) = r
      <4>1. r \in Mails /\ r.items \cap {} = {} BY <1>3, <1>7
      <4> QED BY <4>1, UpdatingSame
    <3> QED BY <3>1
  <2>4. left = U BY <1>6, <2>3 DEF Written
  <2>5. Carrying(U) = U BY <1>3, <1>7, ProperPart DEF Proper
  <2>6. DeadMoney(s, c) = DeadMoney(Soon, c) BY <1>5 DEF DeadMoney
  <2> QED BY <1>5, <2>2, <2>4, <2>5, <2>6
<1> HIDE DEF a
<1> QED BY <1>1, <1>8 DEF Leaving

LEMMA LogoutStep ==
    ASSUME IInv, NEW c \in Chars, Logout(c), UNCHANGED ah
    PROVE  IInv'
<1> DEFINE U == Undeleted(Soon, c)
<1>0. PICK a : Leaving(c, a) BY LogoutRows
<1>1. /\ InWorld(c) /\ Commit(<<a>>)
      /\ status' = [status EXCEPT ![c] = "offline"]
      /\ ahead' = [ahead EXCEPT ![c] = Len(log)]
      /\ gold' = [gold EXCEPT ![c] = 0]
      /\ inv' = [inv EXCEPT ![c] = {}]
      /\ box' = [box EXCEPT ![c] = {}]
      /\ deleted' = [deleted EXCEPT ![c] = {}]
  BY <1>0 DEF Leaving
<1>2. /\ gold[c] \in Nat /\ inv[c] \in SUBSET Items
      /\ \A r \in Soon.mails : r \in Dead(c) <=> r.id \in deleted[c]
      /\ Dead(c) \subseteq Soon.mails /\ \A m \in Dead(c) : m.to = c
  BY <1>1, Online
<1>3. Soon \in Databases /\ Sound(Soon) /\ Proper(Soon.mails) /\ Soon.mails \in SUBSET Mails
  BY Basics DEF Sound
<1>7. U \in SUBSET Soon.mails BY DEF Undeleted
<1>8. /\ a \in Databases /\ a.mails = U
      /\ a.gone = Soon.gone \cup DeadItems(c) /\ a.burnt = Soon.burnt + DeadMoney(Soon, c)
      /\ a.gold = Soon.gold /\ a.inv = Soon.inv /\ a.ah = Soon.ah /\ a.parted = Soon.parted
  BY <1>0 DEF Leaving
<1>9. Grown /\ Soon' = a /\ \A n \in Added : log'[n] = a BY <1>1, <1>8, Basics, OneMore
<1>10. Sound(a)
  <2>1. ASSUME NEW x \in Items PROVE Once(a, x)
    <3>1. Once(Soon, x) BY <1>3 DEF Sound
    <3>2. CASE x \in DeadItems(c)
      <4>1. PICK m \in Dead(c) : x \in m.items BY <3>2 DEF DeadItems
      <4>2. m \in Soon.mails BY <1>2, <4>1
      <4>3. /\ \A d \in Chars : x \notin Soon.inv[d]
            /\ \A k \in Soon.mails : x \in k.items => k = m
            /\ \A d \in Chars : <<d, x>> \notin Soon.parted
        BY <3>1, <4>1, <4>2, OncePost
      <4>4. m \notin U BY <1>2, <4>1, <4>2 DEF Undeleted
      <4>5. \A k \in a.mails : x \notin k.items BY <1>7, <1>8, <4>3, <4>4
      <4>6. x \in a.gone BY <1>8, <3>2
      <4> QED BY <1>8, <4>3, <4>5, <4>6, OnceElse
    <3>3. CASE x \notin DeadItems(c)
      <4>1. Posts(a, x) = Posts(Soon, x)
        <5>1. ASSUME NEW k \in Soon.mails, x \in k.items PROVE k \in U
          BY <1>2, <3>3, <5>1 DEF Undeleted, DeadItems
        <5> QED BY <1>7, <1>8, <5>1 DEF Posts
      <4>2. Alike(a, Soon, x) BY <1>8, <3>3, <4>1 DEF Alike
      <4> QED BY <3>1, <4>2, OnceAlike
    <3> QED BY <3>2, <3>3
  <2>2. Proper(a.mails) BY <1>3, <1>7, <1>8, ProperPart
  <2>3. Money(a.mails) + a.burnt = Money(Soon.mails) + Soon.burnt
    <3>1. Money(U) \in Nat /\ DeadMoney(Soon, c) \in Nat
          /\ Money(Soon.mails) = Money(U) + DeadMoney(Soon, c)
      BY <1>3, UndeletedMoney
    <3>2. Soon.burnt \in Nat BY <1>3 DEF Databases
    <3> QED BY <1>8, <3>1, <3>2
  <2>4. Balanced(a)
    <3>1. Balanced(Soon) BY <1>3 DEF Sound
    <3> QED BY <1>3, <1>8, <2>2, <2>3, <3>1, BalancedMails
  <2> QED BY <2>1, <2>2, <2>4 DEF Sound
<1>11. TypeOK BY DEF IInv
<1>12. /\ status \in [Chars -> Statuses] /\ ahead \in [Chars -> Nat] /\ gold \in [Chars -> Nat]
       /\ inv \in [Chars -> SUBSET Items] /\ box \in [Chars -> SUBSET Mails]
       /\ deleted \in [Chars -> SUBSET MailIds]
  BY <1>11 DEF TypeOK
<1>13. ASSUME NEW d \in Chars PROVE Member(d)'
  <2>1. CASE d = c
    <3>1. status'[d] = "offline" /\ box'[d] = {} /\ deleted'[d] = {} BY <1>1, <1>12, <2>1
    <3> QED BY <3>1 DEF Member
  <2>2. CASE d # c
    <3>1. /\ status'[d] = status[d] /\ ahead'[d] = ahead[d]
          /\ gold'[d] = gold[d] /\ inv'[d] = inv[d] /\ deleted'[d] = deleted[d] /\ box'[d] = box[d]
      BY <1>1, <1>12, <2>2
    <3>2. MailsOf(Soon, d) \subseteq a.mails
      <4>1. ASSUME NEW k \in Soon.mails, k.to = d PROVE k \in U
        BY <1>2, <2>2, <4>1 DEF Undeleted
      <4> QED BY <1>8, <4>1 DEF MailsOf
    <3>3. MailsOf(a, d) \subseteq a.mails BY DEF MailsOf
    <3>4. Stays(d) BY <1>8, <1>9, <3>1, <3>2, <3>3 DEF Stays
    <3>5. Member(d) BY DEF IInv
    <3> QED BY <1>9, <1>12, <3>4, <3>5, Basics, StaysMember
  <2> QED BY <2>1, <2>2
<1>14. \A x \in Items : Listed(x)'
  <2>1. ASSUME NEW x \in Items, ah[x] # None PROVE x \notin a.gone
    <3>1. x \notin Soon.gone /\ Soon.ah[x] # None BY <2>1 DEF IInv, Listed
    <3>2. Once(Soon, x) BY <1>3 DEF Sound
    <3>3. \A k \in Soon.mails : x \notin k.items BY <3>1, <3>2, OnceSale
    <3>4. x \notin DeadItems(c) BY <1>2, <3>3 DEF DeadItems
    <3> QED BY <1>8, <3>1, <3>4
  <2>2. Soon.gone \subseteq a.gone BY <1>8
  <2> QED BY <1>8, <1>9, <2>1, <2>2, ListedSame
<1>15. \A n \in Added : Sound(log'[n]) BY <1>9, <1>10
<1>16. /\ status' \in [Chars -> Statuses] /\ ahead' \in [Chars -> Nat] /\ gold' \in [Chars -> Nat]
       /\ inv' \in [Chars -> SUBSET Items] /\ box' \in Boxes
       /\ deleted' \in [Chars -> SUBSET MailIds]
  <2>1. Len(log) \in Nat BY Basics
  <2> QED BY <1>1, <1>12, <2>1 DEF Boxes, Statuses
<1> QED BY <1>9, <1>11, <1>13, <1>14, <1>15, <1>16, Together DEF TypeOK

\* HandleMailTakeItem and HandleMailTakeMoney: m becomes rest in memory and in
\* the rows, what was taken out goes into the inventory, mails N are sent and
\* the marked mails are removed.
Taking(c, m, rest, taken, s, N, g) ==
    /\ InWorld(c) /\ m \in Live(c) /\ rest \in Mails
    /\ Leaves(m, rest, taken) /\ taken \subseteq m.items
    /\ s \in Databases /\ s.gold = [Soon.gold EXCEPT ![c] = g]
    /\ s.inv = [Soon.inv EXCEPT ![c] = Soon.inv[c] \cup taken]
    /\ s.mails = Soon.mails \cup N /\ Proper(s.mails)
    /\ s.ah = Soon.ah /\ s.parted = Soon.parted /\ s.gone = Soon.gone /\ s.chars = Soon.chars
    /\ N \in SUBSET Mails /\ \A k \in N : k.items = {} /\ k.id \notin UsedIds
    /\ Money(N) + rest.money + g + s.burnt = m.money + Soon.gold[c] + Soon.burnt

\* The mails of which m is changed to rest.
Remain(c, m, rest, N) == Carrying(Exchanging(Undeleted(Soon, c) \cup N, m, rest))

LEMMA TakingRows ==
    ASSUME IInv, NEW c \in Chars, NEW m, NEW rest, NEW taken, NEW s, NEW N, NEW g \in Nat,
           Taking(c, m, rest, taken, s, N, g), NEW changed, changed = {rest},
           NEW a, a = SaveMail(s, c, changed, taken)
    PROVE  /\ a \in Databases
           /\ a.mails = Remain(c, m, rest, N)
           /\ a.gone = Soon.gone \cup DeadItems(c)
           /\ a.burnt = s.burnt + DeadMoney(s, c)
           /\ a.gold = s.gold /\ a.inv = s.inv /\ a.ah = Soon.ah /\ a.parted = Soon.parted
           /\ m \notin N /\ a.chars = s.chars
<1>1. /\ box[c] \subseteq Soon.mails /\ m \in box[c] /\ m \in Undeleted(Soon, c)
      /\ deleted[c] \subseteq {k.id : k \in box[c]}
  BY Online DEF Taking
<1>2. Ids(box[c]) \subseteq UsedIds /\ box \in Boxes BY Basics
<1>3. \A k \in N : k.id \notin deleted[c] /\ k.id # m.id BY <1>1, <1>2 DEF Taking, Ids
<1>4. Undeleted(s, c) = Undeleted(Soon, c) \cup N BY <1>3 DEF Undeleted, Taking
<1>5. m \in Undeleted(s, c) BY <1>1, <1>4
<1>6. Apart(s.mails, m, taken)
  <2> SUFFICES ASSUME NEW r \in s.mails \ {m}, NEW x \in taken, x \in r.items PROVE FALSE
    BY DEF Apart
  <2>1. r \in Soon.mails BY DEF Taking
  <2>2. x \in m.items /\ m \in Soon.mails BY <1>1 DEF Taking
  <2>3. m \in Mails /\ x \in Items BY <1>1, <1>2, <2>2 DEF Boxes, Mails
  <2>4. Once(Soon, x) BY <2>3, Basics DEF Sound
  <2> QED BY <2>1, <2>2, <2>4, OncePost
<1>7. s \in Databases /\ Proper(s.mails) /\ Leaves(m, rest, taken) /\ changed \in SUBSET Mails
  BY DEF Taking
<1>8. Written(s, c, changed, taken) = Exchanging(Undeleted(s, c), m, rest)
  BY <1>5, <1>6, <1>7, SaveMailRest
<1>9. /\ a \in Databases
      /\ a.mails = Carrying(Written(s, c, changed, taken))
      /\ a.gone = s.gone \cup DeadItems(c)
      /\ a.burnt = s.burnt + DeadMoney(s, c)
      /\ a.gold = s.gold /\ a.inv = s.inv /\ a.ah = s.ah /\ a.parted = s.parted
      /\ a.chars = s.chars
  BY <1>2, <1>7, SaveMailRows
<1>10. s.gone = Soon.gone /\ s.ah = Soon.ah /\ s.parted = Soon.parted BY DEF Taking
<1>11. m \notin N BY <1>3
<1>12. a.mails = Remain(c, m, rest, N) BY <1>4, <1>8, <1>9 DEF Remain
<1> QED BY <1>9, <1>10, <1>11, <1>12

\* One mail is exchanged.
LEMMA ExchangedMoney ==
    ASSUME NEW V \in SUBSET Mails, IsFiniteSet(V), NEW m \in V, NEW rest \in Mails,
           rest \notin V \ {m}
    PROVE  /\ Money(Carrying(Exchanging(V, m, rest))) + m.money = Money(V) + rest.money
           /\ Money(Carrying(Exchanging(V, m, rest))) \in Nat
<1>1. PICK W \in SUBSET Mails : W = V \ {m} OBVIOUS
<1>2. IsFiniteSet(W) BY <1>1, FS_Subset
<1>3. Money(V) = m.money + Money(W) /\ m.money \in Nat BY <1>1, MoneyRest
<1>4. Money(W) \in Nat BY <1>2, MoneyRest
<1>5. PICK R \in SUBSET Mails : R = {rest} OBVIOUS
<1>6. IsFiniteSet(R) /\ Money(R) = rest.money BY <1>5, MoneyOne
<1>7. W \cap R = {} BY <1>1, <1>5
<1>8. PICK X \in SUBSET Mails : X = W \cup R OBVIOUS
<1>9. IsFiniteSet(X) /\ Money(X) = Money(W) + rest.money BY <1>2, <1>6, <1>7, <1>8, MoneyAdded
<1>10. Money(Carrying(X)) = Money(X) BY <1>9, MoneyCarrying
<1>11. Exchanging(V, m, rest) = X BY <1>1, <1>5, <1>8 DEF Exchanging
<1>12. rest.money \in Nat BY DEF Mails
<1> QED BY <1>3, <1>4, <1>9, <1>10, <1>11, <1>12

LEMMA TakingBalanced ==
    ASSUME IInv, NEW c \in Chars, NEW m, NEW rest, NEW taken, NEW s, NEW N, NEW g \in Nat,
           Taking(c, m, rest, taken, s, N, g), NEW changed, changed = {rest},
           NEW a, a = SaveMail(s, c, changed, taken), Proper(a.mails)
    PROVE  Balanced(a)
<1>1. /\ a \in Databases /\ a.mails = Remain(c, m, rest, N)
      /\ a.burnt = s.burnt + DeadMoney(s, c)
      /\ a.gold = s.gold /\ a.ah = Soon.ah /\ m \notin N
  BY TakingRows
<1>2. Soon \in Databases /\ Balanced(Soon) /\ Proper(Soon.mails) /\ Soon.mails \in SUBSET Mails
  BY Basics DEF Sound
<1>3. /\ rest \in Mails /\ rest.id = m.id /\ s \in Databases /\ a.gold = [Soon.gold EXCEPT ![c] = g]
      /\ s.mails = Soon.mails \cup N /\ Proper(s.mails) /\ N \in SUBSET Mails
      /\ \A k \in N : k.id \notin UsedIds
  BY <1>1 DEF Taking, Leaves
<1>4. /\ box[c] \subseteq Soon.mails /\ m \in box[c] /\ m \in Undeleted(Soon, c)
      /\ deleted[c] \subseteq {k.id : k \in box[c]}
  BY Online DEF Taking
<1>5. Ids(Soon.mails) \subseteq UsedIds BY Basics
<1>6. \A k \in N : k.id \notin deleted[c] /\ k \notin Soon.mails BY <1>3, <1>4, <1>5 DEF Ids
<1>7. PICK U \in SUBSET Mails : U = Undeleted(Soon, c) BY <1>2 DEF Undeleted
<1>8. U \subseteq Soon.mails BY <1>7 DEF Undeleted
<1>9. /\ Money(U) \in Nat /\ DeadMoney(Soon, c) \in Nat /\ IsFiniteSet(U)
      /\ Money(Soon.mails) = Money(U) + DeadMoney(Soon, c)
  BY <1>2, <1>7, UndeletedMoney
<1>10. DeadMoney(s, c) = DeadMoney(Soon, c)
  <2>1. {r \in s.mails : r.id \in deleted[c]} = {r \in Soon.mails : r.id \in deleted[c]}
    BY <1>3, <1>6
  <2> QED BY <2>1 DEF DeadMoney
<1>11. IsFiniteSet(N) /\ Money(N) \in Nat
  <2>1. s.mails \in SUBSET Mails /\ N \in SUBSET s.mails BY <1>2, <1>3
  <2> QED BY <1>3, <2>1, MailsFinite
<1>12. PICK V \in SUBSET Mails : V = U \cup N BY <1>3
<1>13. IsFiniteSet(V) /\ Money(V) = Money(U) + Money(N)
  <2>1. U \cap N = {} BY <1>6, <1>8
  <2> QED BY <1>3, <1>9, <1>11, <1>12, <2>1, MoneyAdded
<1>14. m \in V /\ rest \notin V \ {m} /\ m \in Mails
  <2>1. V \subseteq s.mails /\ m \in V BY <1>3, <1>4, <1>7, <1>8, <1>12
  <2> QED BY <1>3, <2>1 DEF Proper
<1>15. /\ Money(a.mails) + m.money = Money(V) + rest.money /\ Money(a.mails) \in Nat
  <2>1. /\ Money(Carrying(Exchanging(V, m, rest))) + m.money = Money(V) + rest.money
        /\ Money(Carrying(Exchanging(V, m, rest))) \in Nat
    BY <1>3, <1>13, <1>14, ExchangedMoney
  <2>2. a.mails = Carrying(Exchanging(V, m, rest)) BY <1>1, <1>7, <1>12 DEF Remain
  <2> QED BY <2>1, <2>2
<1>16. Money(N) + rest.money + g + s.burnt = m.money + Soon.gold[c] + Soon.burnt BY DEF Taking
<1>17. /\ rest.money \in Nat /\ m.money \in Nat /\ s.burnt \in Nat /\ Soon.burnt \in Nat
       /\ Soon.gold[c] \in Nat
  BY <1>2, <1>3, <1>14 DEF Mails, Databases
<1>18. g + Money(a.mails) + a.burnt = Soon.gold[c] + Money(Soon.mails) + Soon.burnt
  <2>1. PICK u, d, n, w \in Nat : u = Money(U) /\ d = DeadMoney(Soon, c) /\ n = Money(N) /\ w = Money(a.mails)
    BY <1>9, <1>11, <1>15
  <2>2. w + m.money = u + n + rest.money BY <1>13, <1>15, <2>1
  <2>3. n + rest.money + g + s.burnt = m.money + Soon.gold[c] + Soon.burnt BY <1>16, <2>1
  <2>4. a.burnt = s.burnt + d /\ Money(Soon.mails) = u + d BY <1>1, <1>9, <1>10, <2>1
  <2>5. g + w + (s.burnt + d) = Soon.gold[c] + (u + d) + Soon.burnt
    <3>1. PICK r, p, q, b, h \in Nat : /\ r = rest.money /\ p = m.money /\ q = s.burnt
                                      /\ b = Soon.burnt /\ h = Soon.gold[c]
      BY <1>17
    <3>2. w + p = u + n + r BY <2>2, <3>1
    <3>3. n + r + g + q = p + h + b BY <2>3, <3>1
    <3>4. g + w + (q + d) = h + (u + d) + b BY <3>2, <3>3
    <3> QED BY <3>1, <3>4
  <2> QED BY <2>1, <2>4, <2>5
<1> QED BY <1>1, <1>2, <1>3, <1>18, BalancedPurse

LEMMA TakingSound ==
    ASSUME IInv, NEW c \in Chars, NEW m, NEW rest, NEW taken, NEW s, NEW N, NEW g \in Nat,
           Taking(c, m, rest, taken, s, N, g), NEW changed, changed = {rest},
           NEW a, a = SaveMail(s, c, changed, taken)
    PROVE  Sound(a)
<1> DEFINE U == Undeleted(Soon, c)
<1>1. /\ a.mails = Remain(c, m, rest, N)
      /\ a.gone = Soon.gone \cup DeadItems(c)
      /\ a.gold = s.gold /\ a.inv = s.inv /\ a.ah = Soon.ah /\ a.parted = Soon.parted
      /\ m \notin N
  BY TakingRows
<1>0. /\ \A k \in a.mails : (k \in U /\ k # m) \/ k \in N \/ k = rest
      /\ \A k \in U \cup N \cup {rest} : k.items # {} /\ k # m => k \in a.mails
      /\ rest.items # {} => rest \in a.mails
  <2>1. PICK R : R = Exchanging(U \cup N, m, rest) OBVIOUS
  <2>2. a.mails = Carrying(R) BY <1>1, <2>1 DEF Remain
  <2>3. \A k \in R : k.items # {} => k \in a.mails BY <2>2 DEF Carrying
  <2>4. a.mails \subseteq R BY <2>2 DEF Carrying
  <2> QED BY <1>1, <2>1, <2>3, <2>4 DEF Exchanging
<1>2. /\ \A r \in Soon.mails : r \in Dead(c) <=> r.id \in deleted[c]
      /\ Dead(c) \subseteq Soon.mails
      /\ box[c] \subseteq Soon.mails /\ m \in box[c] /\ m \in U
  BY Online DEF Taking
<1>3. U \subseteq Soon.mails /\ \A k \in U : k \notin Dead(c) BY <1>2 DEF Undeleted
<1>4. Soon \in Databases /\ Sound(Soon) /\ Proper(Soon.mails) BY Basics DEF Sound
<1>5. Soon.inv \in [Chars -> SUBSET Items] BY <1>4 DEF Databases
<1>6. a.inv = [Soon.inv EXCEPT ![c] = Soon.inv[c] \cup taken] BY <1>1 DEF Taking
<1>7. rest.items = m.items \ taken /\ taken \subseteq m.items /\ \A k \in N : k.items = {}
  BY DEF Taking, Leaves
<1> HIDE DEF U
<1>8. \A k \in a.mails : (k \in U /\ k # m) \/ k \in N \/ k = rest BY <1>0
<1>9. ASSUME NEW x \in Items PROVE Once(a, x)
  <2>1. Once(Soon, x) BY <1>4 DEF Sound
  <2>2. CASE x \in DeadItems(c)
    <3>1. PICK d \in Dead(c) : x \in d.items BY <2>2 DEF DeadItems
    <3>2. d \in Soon.mails /\ d \notin U BY <1>2, <1>3, <3>1
    <3>3. /\ \A e \in Chars : x \notin Soon.inv[e]
          /\ \A k \in Soon.mails : x \in k.items => k = d
          /\ \A e \in Chars : <<e, x>> \notin Soon.parted
      BY <2>1, <3>1, <3>2, OncePost
    <3>4. x \notin m.items BY <1>2, <1>3, <3>2, <3>3
    <3>5. \A k \in a.mails : x \notin k.items BY <1>3, <1>7, <1>8, <3>2, <3>3, <3>4
    <3>6. \A e \in Chars : x \notin a.inv[e] BY <1>5, <1>6, <1>7, <3>3, <3>4
    <3>7. x \in a.gone BY <1>1, <2>2
    <3>8. \A e \in Chars : <<e, x>> \notin a.parted BY <1>1, <3>3
    <3> QED BY <3>5, <3>6, <3>7, <3>8, OnceElse
  <2>3. CASE x \notin DeadItems(c) /\ x \in m.items
    <3>1. m \in Soon.mails BY <1>2
    <3>2. /\ x \notin Soon.gone /\ Soon.ah[x] = None
          /\ \A d \in Chars : x \notin Soon.inv[d]
          /\ \A k \in Soon.mails : x \in k.items => k = m
          /\ \A d \in Chars : <<d, x>> \notin Soon.parted
      BY <2>1, <2>3, <3>1, OncePost
    <3>3. x \notin a.gone /\ a.ah[x] = None /\ \A d \in Chars : <<d, x>> \notin a.parted
      BY <1>1, <2>3, <3>2
    <3>4. CASE x \in taken
      <4>1. \A k \in a.mails : x \notin k.items BY <1>3, <1>7, <1>8, <3>2, <3>4
      <4>2. x \in a.inv[c] /\ \A d \in Chars : x \in a.inv[d] => d = c
        BY <1>5, <1>6, <3>2, <3>4
      <4> QED BY <3>3, <4>1, <4>2, OnceInBag
    <3>5. CASE x \notin taken
      <4>1. x \in rest.items BY <1>7, <2>3, <3>5
      <4>2. rest \in a.mails BY <1>0, <4>1
      <4>3. \A k \in a.mails : x \in k.items => k = rest BY <1>3, <1>7, <1>8, <3>2
      <4>4. \A d \in Chars : x \notin a.inv[d] BY <1>5, <1>6, <3>2, <3>5
      <4> QED BY <3>3, <4>1, <4>2, <4>3, <4>4, OnceInPost
    <3> QED BY <3>4, <3>5
  <2>4. CASE x \notin DeadItems(c) /\ x \notin m.items
    <3>1. Posts(a, x) = Posts(Soon, x)
      <4>1. ASSUME NEW k \in Soon.mails, x \in k.items PROVE k \in a.mails
        <5>1. k # m /\ k \notin Dead(c) BY <2>4, <4>1 DEF DeadItems
        <5>2. k \in U BY <1>2, <5>1 DEF U, Undeleted
        <5> QED BY <1>0, <4>1, <5>1, <5>2
      <4>2. ASSUME NEW k \in a.mails, x \in k.items PROVE k \in Soon.mails
        BY <1>3, <1>7, <1>8, <2>4, <4>2
      <4> QED BY <4>1, <4>2 DEF Posts
    <3>2. \A d \in Chars : x \in a.inv[d] <=> x \in Soon.inv[d] BY <1>5, <1>6, <1>7, <2>4
    <3>3. Alike(a, Soon, x) BY <1>1, <2>4, <3>1, <3>2 DEF Alike
    <3> QED BY <2>1, <3>3, OnceAlike
  <2> QED BY <2>2, <2>3, <2>4
<1>10. Proper(a.mails)
  <2>1. s.mails = Soon.mails \cup N /\ Proper(s.mails) /\ rest.id = m.id BY DEF Taking, Leaves
  <2>2. U \cup N \in SUBSET s.mails /\ m \in s.mails BY <1>2, <1>3, <2>1
  <2>3. Proper(Carrying(((U \cup N) \ {m}) \cup {rest})) BY <2>1, <2>2, ProperRest
  <2> QED BY <1>1, <2>3 DEF Remain, Exchanging, U
<1>11. Balanced(a) BY <1>10, TakingBalanced
<1> QED BY <1>9, <1>10, <1>11 DEF Sound


\* Everything else that is there stays.
LEMMA RemainHas ==
    ASSUME NEW c, NEW m, NEW rest, NEW N, NEW M, Soon.mails \cup N = M, Proper(M)
    PROVE  /\ \A k \in Undeleted(Soon, c) \cup N : k # m => k \in Remain(c, m, rest, N)
           /\ \A L \in SUBSET Undeleted(Soon, c) :
                 Carrying(Exchanging(L, m, rest)) \subseteq Remain(c, m, rest, N)
<1>1. Undeleted(Soon, c) \subseteq M BY DEF Undeleted
<1>2. \A k \in M : k.money > 0 \/ k.items # {} BY DEF Proper, Carrying
<1>3. PICK R : R = Exchanging(Undeleted(Soon, c) \cup N, m, rest) OBVIOUS
<1>4. Remain(c, m, rest, N) = Carrying(R) BY <1>3 DEF Remain
<1>5. \A k \in Undeleted(Soon, c) \cup N : k # m => k \in R BY <1>3 DEF Exchanging
<1>6. \A k \in Undeleted(Soon, c) \cup N : k # m => k \in Remain(c, m, rest, N)
  BY <1>1, <1>2, <1>4, <1>5 DEF Carrying
<1>7. ASSUME NEW L \in SUBSET Undeleted(Soon, c)
      PROVE  Carrying(Exchanging(L, m, rest)) \subseteq Remain(c, m, rest, N)
  <2>1. PICK Q : Q = Exchanging(L, m, rest) OBVIOUS
  <2>2. Q \subseteq R BY <1>3, <2>1 DEF Exchanging
  <2>3. Carrying(Q) \subseteq Carrying(R) BY <2>2 DEF Carrying
  <2> QED BY <1>4, <2>1, <2>3
<1> QED BY <1>6, <1>7

\* No item on sale is in a mail that was marked as deleted.
LEMMA DeadUnlisted ==
    ASSUME IInv, NEW c \in Chars, InWorld(c), NEW x \in Items, ah[x] # None
    PROVE  x \notin Soon.gone \cup DeadItems(c)
<1>1. x \notin Soon.gone /\ Soon.ah[x] # None BY DEF IInv, Listed
<1>2. Once(Soon, x) BY Basics DEF Sound
<1>3. \A k \in Soon.mails : x \notin k.items BY <1>1, <1>2, OnceSale
<1>4. Dead(c) \subseteq Soon.mails BY Online
<1>5. x \notin DeadItems(c) BY <1>3, <1>4 DEF DeadItems
<1> QED BY <1>1, <1>5

Takes(c, m, rest, taken, s, N, g, st, a) ==
    /\ Mailing(st, N) /\ Taking(c, m, rest, taken, s, N, g)
    /\ a = SaveMail(s, c, {rest}, taken) /\ Commit(<<a>>)
    /\ UNCHANGED <<status, ahead, ah>>
    /\ gold' = [gold EXCEPT ![c] = g] /\ inv' = [inv EXCEPT ![c] = inv[c] \cup taken]
    /\ box' = [st.box EXCEPT ![c] = Carrying(Exchanging(Live(c), m, rest))]
    /\ deleted' = [deleted EXCEPT ![c] = {}]

LEMMA TakingStep ==
    ASSUME IInv, NEW c \in Chars, NEW m, NEW rest, NEW taken, NEW s, NEW N, NEW g \in Nat,
           NEW st, NEW a, Takes(c, m, rest, taken, s, N, g, st, a)
    PROVE  IInv'
<1> PICK changed : changed = {rest} OBVIOUS
<1> PICK kept : kept = Carrying(Exchanging(Live(c), m, rest)) OBVIOUS
<1>0. /\ Mailing(st, N) /\ Taking(c, m, rest, taken, s, N, g)
      /\ a = SaveMail(s, c, changed, taken) /\ Commit(<<a>>)
      /\ UNCHANGED <<status, ahead, ah>>
      /\ gold' = [gold EXCEPT ![c] = g] /\ inv' = [inv EXCEPT ![c] = inv[c] \cup taken]
      /\ box' = [st.box EXCEPT ![c] = kept]
      /\ deleted' = [deleted EXCEPT ![c] = {}]
  BY DEF Takes
<1>1. /\ a \in Databases
      /\ a.mails = Remain(c, m, rest, N)
      /\ a.gone = Soon.gone \cup DeadItems(c)
      /\ a.gold = s.gold /\ a.inv = s.inv /\ a.ah = Soon.ah
      /\ m \notin N
  BY <1>0, TakingRows
<1>2. Sound(a) BY <1>0, TakingSound
<1>3. Grown /\ Soon' = a /\ \A n \in Added : log'[n] = a BY <1>0, <1>1, Basics, OneMore
<1>4. InWorld(c) /\ m \in Live(c) /\ taken \subseteq m.items /\ rest \in Mails
  BY <1>0 DEF Taking
<1>5. /\ inv[c] = Soon.inv[c] /\ Live(c) \subseteq Undeleted(Soon, c) /\ Live(c) \subseteq box[c]
      /\ \A r \in Soon.mails : r \in Dead(c) <=> r.id \in deleted[c]
      /\ \A k \in Dead(c) : k.to = c
      /\ \A k \in box[c] : k \in Mails /\ k.to = c
  BY <1>4, Online
<1>6. TypeOK BY DEF IInv
<1>7. /\ status \in [Chars -> Statuses] /\ ahead \in [Chars -> Nat] /\ gold \in [Chars -> Nat]
      /\ inv \in [Chars -> SUBSET Items] /\ box \in [Chars -> SUBSET Mails]
      /\ deleted \in [Chars -> SUBSET MailIds] /\ st.box \in [Chars -> SUBSET Mails]
  BY <1>0, <1>6 DEF TypeOK, Mailing, Boxes
<1>8. Soon.gold \in [Chars -> Nat] /\ Soon.inv \in [Chars -> SUBSET Items] BY Basics DEF Databases
<1>9. a.gold = [Soon.gold EXCEPT ![c] = g] /\ a.inv = [Soon.inv EXCEPT ![c] = Soon.inv[c] \cup taken]
  BY <1>0, <1>1 DEF Taking
<1>10. /\ \A k \in Undeleted(Soon, c) \cup N : k # m => k \in a.mails
       /\ kept \subseteq a.mails
  <2>1. Soon.mails \cup N = s.mails /\ Proper(s.mails) BY <1>0 DEF Taking
  <2>2. PICK M : M = s.mails OBVIOUS
  <2>3. Soon.mails \cup N = M /\ Proper(M) BY <2>1, <2>2
  <2>4. /\ \A k \in Undeleted(Soon, c) \cup N : k # m => k \in Remain(c, m, rest, N)
        /\ \A L \in SUBSET Undeleted(Soon, c) :
              Carrying(Exchanging(L, m, rest)) \subseteq Remain(c, m, rest, N)
    BY <2>3, RemainHas
  <2>5. Live(c) \in SUBSET Undeleted(Soon, c) BY <1>5
  <2> QED BY <1>1, <2>4, <2>5
<1>11. \A k \in kept : k \in Mails /\ k.to = c
  <2>1. \A k \in kept : k \in Live(c) \/ k = rest BY DEF Carrying, Exchanging
  <2>2. rest.to = m.to BY <1>0 DEF Taking, Leaves
  <2> QED BY <1>4, <1>5, <2>1, <2>2
<1>12. ASSUME NEW d \in Chars PROVE Member(d)'
  <2>1. CASE d = c
    <3>1. status'[d] = "online" /\ box'[d] = kept /\ deleted'[d] = {}
      BY <1>0, <1>4, <1>7, <2>1 DEF InWorld
    <3>2. gold'[d] = a.gold[d] /\ inv'[d] = a.inv[d] BY <1>0, <1>5, <1>7, <1>8, <1>9, <2>1
    <3>3. kept \subseteq MailsOf(a, d) BY <1>10, <1>11, <2>1 DEF MailsOf
    <3>4. Mirror(d)' BY <1>3, <3>1, <3>2, <3>3 DEF Mirror
    <3> QED BY <3>1, <3>4 DEF Member
  <2>2. CASE d # c
    <3>1. /\ status'[d] = status[d] /\ ahead'[d] = ahead[d]
          /\ gold'[d] = gold[d] /\ inv'[d] = inv[d] /\ deleted'[d] = deleted[d]
          /\ box'[d] = st.box[d]
      BY <1>0, <1>7, <2>2
    <3>2. st.box[d] = IF InWorld(d) THEN box[d] \cup {k \in N : k.to = d} ELSE box[d]
      BY <1>0 DEF Mailing
    <3>3. MailsOf(Soon, d) \subseteq a.mails
      <4>1. ASSUME NEW k \in Soon.mails, k.to = d PROVE k \in a.mails
        <5>1. k # m /\ k \in Undeleted(Soon, c) BY <1>4, <1>5, <2>2, <4>1 DEF Undeleted
        <5> QED BY <1>10, <5>1
      <4> QED BY <4>1 DEF MailsOf
    <3>4. {k \in N : k.to = d} \subseteq MailsOf(a, d) BY <1>1, <1>10 DEF MailsOf
    <3>5. a.gold[d] = Soon.gold[d] /\ a.inv[d] = Soon.inv[d] BY <1>8, <1>9, <2>2
    <3>6. MailsOf(a, d) \subseteq a.mails BY DEF MailsOf
    <3>7. /\ box[d] \subseteq box'[d] /\ box'[d] \subseteq box[d] \cup MailsOf(a, d)
          /\ InWorld(d) \/ box'[d] = box[d]
      BY <3>1, <3>2, <3>4
    <3>8. Stays(d) BY <1>3, <3>1, <3>3, <3>5, <3>6, <3>7 DEF Stays
    <3>9. Member(d) BY DEF IInv
    <3> QED BY <1>3, <1>7, <3>8, <3>9, Basics, StaysMember
  <2> QED BY <2>1, <2>2
<1>13. \A x \in Items : Listed(x)'
  <2>1. \A x \in Items : ah[x] # None => x \notin a.gone BY <1>1, <1>4, DeadUnlisted
  <2>2. Soon.gone \subseteq a.gone BY <1>1
  <2> QED BY <1>0, <1>1, <1>3, <2>1, <2>2, ListedSame
<1>14. \A n \in Added : Sound(log'[n]) BY <1>2, <1>3
<1>15. /\ status' \in [Chars -> Statuses] /\ ahead' \in [Chars -> Nat] /\ gold' \in [Chars -> Nat]
       /\ inv' \in [Chars -> SUBSET Items] /\ box' \in Boxes
       /\ deleted' \in [Chars -> SUBSET MailIds]
  <2>1. kept \subseteq Mails BY <1>11
  <2>2. inv[c] \cup taken \subseteq Items BY <1>4, <1>5, <1>7 DEF Mails
  <2> QED BY <1>0, <1>7, <2>1, <2>2 DEF Boxes
<1> QED BY <1>0, <1>3, <1>6, <1>12, <1>13, <1>14, <1>15, Together DEF TypeOK

\* The price of what is taken out is sent, or lost.
\* The price of m is on its way to who sent it.
Pays(c, m, N) ==
    /\ m.cod = 0 \/ ~Exists(m.from) => N = {}
    /\ m.cod > 0 /\ Exists(m.from) =>
          \E k \in Mails : /\ N = {k} /\ k.from = c /\ k.to = m.from /\ k.money = m.cod
                          /\ k.cod = 0 /\ k.items = {}

LEMMA Paid ==
    ASSUME IInv, NEW c \in Chars, NEW m \in Mails, m.cod > 0 => HasRoom(1), NEW paid, NEW payment,
           payment = Letter(Unused(UsedIds), c, m.from, m.cod, 0, {}, TRUE),
           paid = IF m.cod = 0 THEN Here
                  ELSE IF Exists(m.from) THEN SendMailTo(Here, payment)
                  ELSE [db |-> Destroy(Soon, {}, m.cod), box |-> box]
    PROVE  \E N : /\ Mailing(paid, N) /\ paid.db.gone = Soon.gone
                  /\ \A k \in N : k.items = {}
                  /\ Money(N) + paid.db.burnt = m.cod + Soon.burnt
                  /\ Pays(c, m, N)
<1>a. PICK none \in SUBSET Items : none = {} OBVIOUS
<1>b. PICK st : st = Here OBVIOUS
<1>1. /\ Mailing(st, none) /\ st.db = Soon /\ st.box = box /\ Ids(Soon.mails) \subseteq UsedIds
      /\ st = [db |-> Soon, box |-> box] /\ Soon.burnt \in Nat /\ Money(none) = 0
  BY <1>a, <1>b, Basics, MoneyNone DEF Here, Databases
<1>2. CASE m.cod = 0
  <2>1. paid = st BY <1>2, <1>b
  <2>2. \A k \in none : k.items = {} BY <1>a
  <2>3. Mailing(paid, none) /\ paid.db.gone = Soon.gone BY <1>1, <2>1
  <2>4. Money(none) + paid.db.burnt = m.cod + Soon.burnt BY <1>1, <1>2, <2>1
  <2>5. Pays(c, m, none) BY <1>2, <1>a DEF Pays
  <2> QED BY <2>2, <2>3, <2>4, <2>5
<1>3. CASE m.cod # 0 /\ Exists(m.from)
  <2>1. m.cod \in Nat /\ m.cod > 0 BY <1>3 DEF Mails
  <2>2. Room(UsedIds, 1) BY <2>1 DEF HasRoom, Room
  <2>3. Unused(UsedIds) \in MailIds \ UsedIds BY <2>2, FreshId
  <2>4. m.from \in Chars BY <1>3 DEF Exists
  <2>5. /\ payment \in Mails /\ payment.id = Unused(UsedIds) /\ payment.items = {}
        /\ payment.money = m.cod /\ payment.from = c /\ payment.to = m.from /\ payment.cod = 0
    BY <2>1, <2>3, <2>4 DEF Letter, Mails
  <2>6. payment.id \notin Ids(st.db.mails) \cup UsedIds BY <1>1, <2>3, <2>5
  <2>7. PICK K : K = Carrying({payment}) OBVIOUS
  <2>8. paid = SendMailTo(st, payment) BY <1>3, <1>b
  <2>9. Mailing(paid, none \cup K) /\ paid.db.gone = st.db.gone /\ paid.db.burnt = st.db.burnt
    <3>1. LET t == SendMailTo(st, payment)
          IN  Mailing(t, none \cup Carrying({payment})) /\ t.db.gone = st.db.gone
              /\ t.db.burnt = st.db.burnt
      BY <1>1, <2>5, <2>6, MailingSent
    <3> QED BY <2>7, <2>8, <3>1
  <2>10. \A k \in none \cup K : k.items = {} BY <1>a, <2>5, <2>7 DEF Carrying
  <2>11. Money(none \cup K) = m.cod
    <3>1. PICK P \in SUBSET Mails : P = {payment} BY <2>5
    <3>2. IsFiniteSet(P) /\ Money(P) = m.cod BY <2>5, <3>1, MoneyOne
    <3>3. Money(K) = m.cod BY <2>7, <3>1, <3>2, MoneyCarrying
    <3>4. none \cup K = K BY <1>a
    <3> QED BY <3>3, <3>4
  <2>12. Money(none \cup K) + paid.db.burnt = m.cod + Soon.burnt BY <1>1, <2>9, <2>11
  <2>13. Pays(c, m, none \cup K)
    <3>1. none \cup K = {payment} BY <1>a, <2>1, <2>5, <2>7 DEF Carrying
    <3>2. /\ payment.money = m.cod /\ payment.from = c /\ payment.to = m.from /\ payment.cod = 0
          /\ payment.items = {} /\ payment \in Mails
      BY <2>5
    <3>3. m.cod # 0 /\ Exists(m.from) BY <1>3
    <3> QED BY <3>1, <3>2, <3>3 DEF Pays
  <2> QED BY <1>1, <2>9, <2>10, <2>12, <2>13
<1>4. CASE m.cod # 0 /\ ~Exists(m.from)
  <2>1. PICK z \in Nat : z = m.cod BY DEF Mails
  <2>2. PICK u : u = [st EXCEPT !.db = Destroy(@, none, z)] OBVIOUS
  <2>3. /\ Mailing(u, none) /\ u.db.gone = st.db.gone \cup none
        /\ u.db.burnt = st.db.burnt + z
    <3>1. LET t == [st EXCEPT !.db = Destroy(@, none, z)]
          IN  Mailing(t, none) /\ t.db.gone = st.db.gone \cup none
              /\ t.db.burnt = st.db.burnt + z
      <4>1. Mailing(st, none) BY <1>1
      <4> QED BY <4>1, MailingDestroyed
    <3> QED BY <2>2, <3>1
  <2>4. u = paid BY <1>1, <1>4, <1>a, <2>1, <2>2
  <2>5. \A k \in none : k.items = {} BY <1>a
  <2>6. Mailing(paid, none) /\ paid.db.gone = Soon.gone BY <1>1, <1>a, <2>3, <2>4
  <2>7. Money(none) + paid.db.burnt = m.cod + Soon.burnt
    <3>1. paid.db.burnt = Soon.burnt + z BY <1>1, <2>3, <2>4
    <3>2. PICK b \in Nat : b = Soon.burnt BY <1>1
    <3>3. Money(none) = 0 BY <1>1
    <3>4. 0 + (b + z) = z + b OBVIOUS
    <3> QED BY <2>1, <3>1, <3>2, <3>3, <3>4
  <2>8. Pays(c, m, none) BY <1>4, <1>a DEF Pays
  <2> QED BY <2>5, <2>6, <2>7, <2>8
<1>5. m.cod = 0 \/ m.cod # 0 OBVIOUS
<1> QED BY <1>2, <1>3, <1>4, <1>5

LEMMA TakeItemRows ==
    ASSUME IInv, NEW c \in Chars, NEW m \in box[c], NEW x \in m.items, TakeItem(c, m, x), UNCHANGED ah
    PROVE  \E rest, taken, s, N, g, st, a :
              /\ g \in Nat /\ Takes(c, m, rest, taken, s, N, g, st, a)
              /\ taken = {x} /\ Pays(c, m, N) /\ rest.cod = 0 /\ rest.money = m.money
              /\ g = Soon.gold[c] - m.cod
<1> DEFINE payment == Letter(Unused(UsedIds), c, m.from, m.cod, 0, {}, TRUE)
           paid == IF m.cod = 0 THEN Here
                   ELSE IF Exists(m.from) THEN SendMailTo(Here, payment)
                   ELSE [db |-> Destroy(Soon, {}, m.cod), box |-> box]
           rest == [m EXCEPT !.cod = 0, !.items = @ \ {x}]
           s == SaveInventoryAndGold(paid.db, c, gold'[c], inv'[c])
           a == SaveMail(s, c, {rest}, {x})
           kept == Carrying((Live(c) \ {m}) \cup {rest})
<1>1. /\ InWorld(c) /\ m \in Live(c) /\ gold[c] >= m.cod /\ (m.cod > 0 => HasRoom(1))
      /\ gold' = [gold EXCEPT ![c] = @ - m.cod]
      /\ inv' = [inv EXCEPT ![c] = @ \cup {x}]
      /\ box' = [paid.box EXCEPT ![c] = kept]
      /\ deleted' = [deleted EXCEPT ![c] = {}]
      /\ Commit(<<a>>)
      /\ UNCHANGED <<status, ahead>>
  BY DEF TakeItem, Here
<1>2. m \in Mails /\ m.to = c /\ inv[c] = Soon.inv[c] /\ gold[c] = Soon.gold[c]
  BY <1>1, Online
<1>3. PICK N : /\ Mailing(paid, N) /\ paid.db.gone = Soon.gone
               /\ \A k \in N : k.items = {}
               /\ Money(N) + paid.db.burnt = m.cod + Soon.burnt
               /\ Pays(c, m, N)
  <2>1. PICK letter : letter = payment OBVIOUS
  <2>2. PICK u : u = paid OBVIOUS
  <2>3. m \in Mails /\ (m.cod > 0 => HasRoom(1)) BY <1>1, <1>2
  <2>4. u = IF m.cod = 0 THEN Here
            ELSE IF Exists(m.from) THEN SendMailTo(Here, letter)
            ELSE [db |-> Destroy(Soon, {}, m.cod), box |-> box]
    BY <2>1, <2>2
  <2>5. letter = Letter(Unused(UsedIds), c, m.from, m.cod, 0, {}, TRUE) BY <2>1
  <2> HIDE DEF paid, payment
  <2>6. \E N : /\ Mailing(u, N) /\ u.db.gone = Soon.gone
               /\ \A k \in N : k.items = {}
               /\ Money(N) + u.db.burnt = m.cod + Soon.burnt
               /\ Pays(c, m, N)
    BY <2>3, <2>4, <2>5, Paid
  <2> QED BY <2>2, <2>6
<1>4. PICK st : st = paid OBVIOUS
<1> HIDE DEF paid
<1>5. gold \in [Chars -> Nat] /\ inv \in [Chars -> SUBSET Items] BY DEF IInv, TypeOK
<1>6. PICK g \in Nat : g = gold[c] - m.cod BY <1>1, <1>2, <1>5 DEF Mails
<1>7. PICK taken : taken = {x} OBVIOUS
<1>8. PICK r \in SUBSET Items : r = inv[c] \cup taken BY <1>2, <1>5, <1>7 DEF Mails
<1>9. gold' = [gold EXCEPT ![c] = g] /\ inv' = [inv EXCEPT ![c] = inv[c] \cup taken]
  BY <1>1, <1>6, <1>7
<1>10. gold'[c] = g /\ inv'[c] = r BY <1>5, <1>8, <1>9
<1>11. rest \in Mails /\ Leaves(m, rest, taken) BY <1>2, <1>7 DEF Leaves, Mails
<1>12. PICK db : db = st.db OBVIOUS
<1>13. /\ db \in Databases /\ db.mails = Soon.mails \cup N /\ Proper(db.mails)
       /\ db.gold = Soon.gold /\ db.inv = Soon.inv
       /\ db.ah = Soon.ah /\ db.parted = Soon.parted /\ db.gone = Soon.gone
       /\ db.chars = Soon.chars
       /\ N \in SUBSET Mails /\ \A k \in N : k.id \notin UsedIds
  BY <1>3, <1>4, <1>12 DEF Mailing
<1>14. /\ s \in Databases
       /\ s.gold = [db.gold EXCEPT ![c] = g]
       /\ s.inv = [db.inv EXCEPT ![c] = r]
       /\ s.mails = db.mails /\ s.ah = db.ah /\ s.parted = db.parted /\ s.gone = db.gone
       /\ s.burnt = db.burnt /\ s.chars = db.chars
  BY <1>4, <1>10, <1>12, <1>13, Saved
<1>a. rest.money = m.money /\ rest.cod = 0 BY <1>2 DEF Mails
<1> HIDE DEF s, rest
<1>b. Money(N) + rest.money + g + s.burnt = m.money + Soon.gold[c] + Soon.burnt
  <2>1. db.mails \in SUBSET Mails /\ N \in SUBSET db.mails BY <1>13 DEF Databases
  <2>2. Money(N) \in Nat BY <1>13, <2>1, MailsFinite
  <2>3. m.money \in Nat /\ m.cod \in Nat /\ gold[c] \in Nat BY <1>2, <1>5 DEF Mails
  <2>4. Soon.burnt \in Nat /\ db.burnt \in Nat BY <1>13, Basics DEF Databases
  <2>5. Money(N) + db.burnt = m.cod + Soon.burnt BY <1>3, <1>4, <1>12
  <2> QED BY <1>2, <1>6, <1>14, <1>a, <2>2, <2>3, <2>4, <2>5
<1>15. Taking(c, m, rest, taken, s, N, g)
  BY <1>b, <1>1, <1>2, <1>3, <1>7, <1>8, <1>11, <1>13, <1>14 DEF Taking
<1>16. a = SaveMail(s, c, {rest}, taken) BY <1>7
<1>17. kept = Carrying(Exchanging(Live(c), m, rest)) BY DEF Exchanging
<1> HIDE DEF a, kept
<1>18. Takes(c, m, rest, taken, s, N, g, st, a)
  BY <1>1, <1>3, <1>4, <1>9, <1>15, <1>16, <1>17 DEF Takes
<1> QED BY <1>2, <1>3, <1>6, <1>7, <1>18, <1>a

LEMMA TakeItemStep ==
    ASSUME IInv, NEW c \in Chars, NEW m \in box[c], NEW x \in m.items, TakeItem(c, m, x), UNCHANGED ah
    PROVE  IInv'
BY TakeItemRows, TakingStep

LEMMA TakeMoneyRows ==
    ASSUME IInv, NEW c \in Chars, NEW m \in box[c], TakeMoney(c, m), UNCHANGED ah
    PROVE  \E rest, taken, s, N, g, st, a :
              /\ g \in Nat /\ Takes(c, m, rest, taken, s, N, g, st, a)
              /\ taken = {} /\ N = {} /\ rest.cod = m.cod /\ rest.money = 0
              /\ g = Soon.gold[c] + m.money
<1> DEFINE rest == [m EXCEPT !.money = 0]
           s == [Soon EXCEPT !.gold[c] = gold'[c]]
           a == SaveMail(s, c, {rest}, {})
           kept == Carrying((Live(c) \ {m}) \cup {rest})
<1>1. /\ InWorld(c) /\ m \in Live(c)
      /\ gold' = [gold EXCEPT ![c] = @ + m.money]
      /\ box' = [box EXCEPT ![c] = kept]
      /\ deleted' = [deleted EXCEPT ![c] = {}]
      /\ Commit(<<a>>)
      /\ UNCHANGED <<status, ahead, inv>>
  BY DEF TakeMoney
<1>2. m \in Mails /\ m.to = c /\ inv[c] = Soon.inv[c] /\ gold[c] = Soon.gold[c]
  BY <1>1, Online
<1>3. Mailing(Here, {}) /\ Here.box = box /\ Soon \in Databases /\ Sound(Soon) BY Basics DEF Here
<1>4. gold \in [Chars -> Nat] /\ inv \in [Chars -> SUBSET Items] BY DEF IInv, TypeOK
<1>5. PICK g \in Nat : g = gold[c] + m.money BY <1>2, <1>4 DEF Mails
<1>6. PICK taken : taken = {} OBVIOUS
<1>7. gold' = [gold EXCEPT ![c] = g] /\ gold'[c] = g BY <1>1, <1>4, <1>5
<1>8. inv' = [inv EXCEPT ![c] = inv[c] \cup taken] BY <1>1, <1>4, <1>6
<1>9. rest \in Mails /\ Leaves(m, rest, taken) BY <1>2, <1>6 DEF Leaves, Mails
<1>10. Soon.gold \in [Chars -> Nat] /\ Soon.inv \in [Chars -> SUBSET Items] BY <1>3 DEF Databases
<1>11. /\ s \in Databases
       /\ s.gold = [Soon.gold EXCEPT ![c] = g] /\ s.inv = Soon.inv
       /\ s.mails = Soon.mails /\ s.ah = Soon.ah /\ s.parted = Soon.parted /\ s.gone = Soon.gone
       /\ s.burnt = Soon.burnt /\ s.chars = Soon.chars
  BY <1>3, <1>7 DEF Databases
<1>a. rest.money = 0 /\ rest.cod = m.cod BY <1>2 DEF Mails
<1> HIDE DEF s, rest
<1>12. s.inv = [Soon.inv EXCEPT ![c] = Soon.inv[c] \cup taken] BY <1>6, <1>10, <1>11
<1>13. PICK N \in SUBSET Mails : N = {} OBVIOUS
<1>14. s.mails = Soon.mails \cup N /\ Proper(s.mails) BY <1>3, <1>11, <1>13 DEF Sound
<1>b. Money(N) + rest.money + g + s.burnt = m.money + Soon.gold[c] + Soon.burnt
  <2>1. Money(N) = 0 BY <1>13, MoneyNone
  <2>2. m.money \in Nat /\ gold[c] \in Nat /\ Soon.burnt \in Nat
    BY <1>2, <1>3, <1>4 DEF Mails, Databases
  <2> QED BY <1>2, <1>5, <1>11, <1>a, <2>1, <2>2
<1>15. Taking(c, m, rest, taken, s, N, g)
  BY <1>b, <1>1, <1>2, <1>6, <1>9, <1>11, <1>12, <1>13, <1>14 DEF Taking
<1>16. a = SaveMail(s, c, {rest}, taken) BY <1>6
<1>17. kept = Carrying(Exchanging(Live(c), m, rest)) BY DEF Exchanging
<1>18. PICK st : st = Here OBVIOUS
<1>19. Mailing(st, N) /\ box' = [st.box EXCEPT ![c] = kept] BY <1>1, <1>3, <1>13, <1>18
<1> HIDE DEF a, kept
<1>20. Takes(c, m, rest, taken, s, N, g, st, a)
  BY <1>1, <1>7, <1>8, <1>15, <1>16, <1>17, <1>19 DEF Takes
<1> QED BY <1>2, <1>5, <1>6, <1>13, <1>20, <1>a

LEMMA TakeMoneyStep ==
    ASSUME IInv, NEW c \in Chars, NEW m \in box[c], TakeMoney(c, m), UNCHANGED ah
    PROVE  IInv'
BY TakeMoneyRows, TakingStep

\* Nothing is committed.
LEMMA Quiet ==
    ASSUME IInv, UNCHANGED <<log, ah>>, \A d \in Chars : Member(d)',
           status' \in [Chars -> Statuses], ahead' \in [Chars -> Nat], gold' \in [Chars -> Nat],
           inv' \in [Chars -> SUBSET Items], box' \in Boxes,
           deleted' \in [Chars -> SUBSET MailIds]
    PROVE  IInv'
<1>1. Soon' = Soon BY DEF Soon
<1>2. TypeOK' BY DEF IInv, TypeOK, Boxes
<1>3. \A n \in DOMAIN log' : Sound(log'[n]) BY DEF IInv
<1>4. \A x \in Items : Listed(x)' BY <1>1 DEF IInv, Listed
<1> QED BY <1>2, <1>3, <1>4 DEF IInv

LEMMA QuietMember ==
    ASSUME UNCHANGED log, NEW d \in Chars, Member(d),
           status'[d] = status[d], ahead'[d] = ahead[d], gold'[d] = gold[d], inv'[d] = inv[d],
           box'[d] = box[d], deleted'[d] = deleted[d]
    PROVE  Member(d)'
<1>1. Soon' = Soon BY DEF Soon
<1>2. Mirror(d) => Mirror(d)' BY <1>1 DEF Mirror
<1>3. Settled(d, ahead[d] + 1) => Settled(d, ahead[d] + 1)' BY <1>1 DEF Settled
<1> QED BY <1>2, <1>3 DEF Member

LEMMA DeleteMailStep ==
    ASSUME IInv, NEW c \in Chars, NEW m \in box[c], DeleteMail(c, m), UNCHANGED ah
    PROVE  IInv'
<1>1. /\ InWorld(c)
      /\ deleted' = [deleted EXCEPT ![c] = @ \cup {m.id}]
      /\ UNCHANGED <<log, status, ahead, gold, inv, box>>
  BY DEF DeleteMail
<1>2. TypeOK BY DEF IInv
<1>3. m \in Mails BY <1>2 DEF TypeOK
<1>4. deleted \in [Chars -> SUBSET MailIds] /\ m.id \in MailIds BY <1>2, <1>3 DEF TypeOK, Mails
<1>5. Soon' = Soon BY <1>1 DEF Soon
<1>6. ASSUME NEW d \in Chars PROVE Member(d)'
  <2>1. Member(d) BY DEF IInv
  <2>2. CASE d # c
    <3>1. deleted'[d] = deleted[d] BY <1>1, <1>4, <2>2
    <3> QED BY <1>1, <2>1, <3>1, QuietMember
  <2>3. CASE d = c
    <3>1. status'[d] = "online" /\ Mirror(d) /\ deleted[d] \subseteq {k.id : k \in box[d]}
      BY <1>1, <2>1, <2>3 DEF InWorld, Member
    <3>2. Mirror(d)' BY <1>1, <1>5, <3>1 DEF Mirror
    <3>3. deleted'[d] \subseteq {k.id : k \in box'[d]} BY <1>1, <1>4, <2>3, <3>1
    <3> QED BY <3>1, <3>2, <3>3 DEF Member
  <2> QED BY <2>2, <2>3
<1> QED BY <1>1, <1>2, <1>4, <1>6, Quiet DEF TypeOK, Boxes

LEMMA LoginRequestStep ==
    ASSUME IInv, NEW c \in Chars, LoginRequest(c), UNCHANGED ah
    PROVE  IInv'
<1> DEFINE C == IF Len(log) = 1 THEN {c} ELSE {}
<1>1. /\ status[c] = "offline"
      /\ status' = [status EXCEPT ![c] = "loading"]
      /\ ahead' = [ahead EXCEPT ![c] = Len(log) - 1]
      /\ gold' = [d \in Chars |-> IF d \in C THEN Now.gold[d] ELSE gold[d]]
      /\ inv' = [d \in Chars |-> IF d \in C THEN Now.inv[d] ELSE inv[d]]
      /\ box' = [d \in Chars |-> IF d \in C THEN {m \in Now.mails : m.to = d} ELSE box[d]]
      /\ UNCHANGED <<log, deleted>>
  BY DEF LoginRequest, Fetched
<1>2. /\ Len(log) \in Nat \ {0} /\ Soon = log[Len(log)] /\ Now = log[1] /\ Now \in Databases
      /\ log \in Seq(Databases)
  BY Basics
<1>3. TypeOK BY DEF IInv
<1>4. /\ status \in [Chars -> Statuses] /\ ahead \in [Chars -> Nat] /\ gold \in [Chars -> Nat]
      /\ inv \in [Chars -> SUBSET Items] /\ box \in [Chars -> SUBSET Mails]
      /\ deleted \in [Chars -> SUBSET MailIds]
  BY <1>3 DEF TypeOK
<1>5. Now.gold \in [Chars -> Nat] /\ Now.inv \in [Chars -> SUBSET Items] /\ Now.mails \subseteq Mails
  BY <1>2 DEF Databases
<1>6. PICK e : e = Soon OBVIOUS
<1>7. Soon' = e BY <1>1, <1>6 DEF Soon
<1>8. ASSUME NEW d \in Chars PROVE Member(d)'
  <2>1. Member(d) BY DEF IInv
  <2>2. CASE d # c
    <3>1. d \notin C BY <2>2
    <3> HIDE DEF C
    <3>2. /\ status'[d] = status[d] /\ ahead'[d] = ahead[d] /\ gold'[d] = gold[d]
          /\ inv'[d] = inv[d] /\ box'[d] = box[d] /\ deleted'[d] = deleted[d]
      BY <1>1, <1>4, <2>2, <3>1
    <3> QED BY <1>1, <2>1, <3>2, QuietMember
  <2>3. CASE d = c
    <3>1. /\ status'[d] = "loading" /\ ahead'[d] = Len(log) - 1 /\ deleted'[d] = {}
      BY <1>1, <1>4, <2>1, <2>3 DEF Member
    <3>2. ahead'[d] < Len(log') /\ ahead'[d] + 1 = Len(log) BY <1>1, <1>2, <3>1
    <3>3. PICK n : n = Len(log) OBVIOUS
    <3>4. Settled(d, n)'
      <4>1. ASSUME NEW k \in DOMAIN log', k >= n
            PROVE  /\ log'[k].gold[d] = e.gold[d] /\ log'[k].inv[d] = e.inv[d]
                   /\ MailsOf(log'[k], d) \subseteq e.mails
        <5>1. k = n BY <1>1, <1>2, <3>3, <4>1
        <5>2. log'[k] = e BY <1>1, <1>2, <1>6, <3>3, <5>1
        <5> QED BY <5>2 DEF MailsOf
      <4> QED BY <1>7, <4>1 DEF Settled
    <3>5. ASSUME ahead'[d] = 0 PROVE Mirror(d)'
      <4>0. PICK l \in Nat : l = Len(log) BY <1>2
      <4>1. Len(log) = 1 BY <3>1, <3>5, <4>0
      <4>2. Now = e /\ d \in C BY <1>2, <1>6, <2>3, <4>1
      <4> HIDE DEF C
      <4>3. /\ gold'[d] = e.gold[d] /\ inv'[d] = e.inv[d]
            /\ box'[d] = {m \in e.mails : m.to = d}
        BY <1>1, <4>2
      <4>4. box'[d] \subseteq MailsOf(e, d) BY <4>3 DEF MailsOf
      <4> QED BY <1>7, <4>3, <4>4 DEF Mirror
    <3>6. Settled(d, ahead[d] + 1)'
      <4>1. (ahead'[d] + 1) = n BY <3>2, <3>3
      <4> QED BY <3>4, <4>1
    <3> QED BY <3>1, <3>2, <3>5, <3>6 DEF Member
  <2> QED BY <2>2, <2>3
<1>9. /\ status' \in [Chars -> Statuses] /\ ahead' \in [Chars -> Nat] /\ gold' \in [Chars -> Nat]
      /\ inv' \in [Chars -> SUBSET Items]
  <2>1. Len(log) - 1 \in Nat BY <1>2
  <2>2. ahead' \in [Chars -> Nat] BY <1>1, <1>4, <2>1
  <2> HIDE DEF C
  <2> QED BY <1>1, <1>4, <1>5, <2>2 DEF Statuses
<1>10. box' \in Boxes
  <2>1. ASSUME NEW d \in Chars PROVE {m \in Now.mails : m.to = d} \in SUBSET Mails BY <1>5
  <2> HIDE DEF C
  <2> QED BY <1>1, <1>4, <2>1 DEF Boxes
<1> QED BY <1>1, <1>4, <1>8, <1>9, <1>10, Quiet

LEMMA LoginStep ==
    ASSUME IInv, NEW c \in Chars, Login(c), UNCHANGED ah
    PROVE  IInv'
<1>1. /\ status[c] = "loading" /\ ahead[c] = 0
      /\ status' = [status EXCEPT ![c] = "online"]
      /\ UNCHANGED <<log, ahead, gold, inv, box, deleted>>
  BY DEF Login
<1>2. TypeOK BY DEF IInv
<1>3. status \in [Chars -> Statuses] BY <1>2 DEF TypeOK
<1>4. Soon' = Soon BY <1>1 DEF Soon
<1>5. ASSUME NEW d \in Chars PROVE Member(d)'
  <2>1. Member(d) BY DEF IInv
  <2>2. CASE d # c
    <3>1. status'[d] = status[d] BY <1>1, <1>3, <2>2
    <3> QED BY <1>1, <2>1, <3>1, QuietMember
  <2>3. CASE d = c
    <3>1. status'[d] = "online" BY <1>1, <1>3, <2>3
    <3>2. Mirror(d) /\ deleted[d] = {} BY <1>1, <2>1, <2>3 DEF Member
    <3>3. Mirror(d)' BY <1>1, <1>4, <3>2 DEF Mirror
    <3> QED BY <1>1, <3>1, <3>2, <3>3 DEF Member
  <2> QED BY <2>2, <2>3
<1>6. status' \in [Chars -> Statuses] BY <1>1, <1>3 DEF Statuses
<1> QED BY <1>1, <1>2, <1>5, <1>6, Quiet DEF TypeOK, Boxes

LEMMA ApplyStep ==
    ASSUME IInv, Apply, UNCHANGED ah
    PROVE  IInv'
<1> DEFINE C == {c \in Chars : status[c] = "loading" /\ ahead[c] = 1}
<1>1. /\ Len(log) > 1 /\ log' = Tail(log)
      /\ ahead' = [c \in Chars |-> IF ahead[c] = 0 THEN 0 ELSE ahead[c] - 1]
      /\ gold' = [d \in Chars |-> IF d \in C THEN log[2].gold[d] ELSE gold[d]]
      /\ inv' = [d \in Chars |-> IF d \in C THEN log[2].inv[d] ELSE inv[d]]
      /\ box' = [d \in Chars |-> IF d \in C THEN {m \in log[2].mails : m.to = d} ELSE box[d]]
      /\ UNCHANGED <<status, deleted>>
  BY DEF Apply, Applied, Fetched
<1>2. log \in Seq(Databases) /\ Len(log) \in Nat /\ Soon = log[Len(log)] BY Basics
<1>3. /\ log' \in Seq(Databases) /\ Len(log') = Len(log) - 1 /\ log' # <<>>
      /\ DOMAIN log' = 1 .. Len(log) - 1 /\ DOMAIN log = 1 .. Len(log)
      /\ \A k \in DOMAIN log' : k + 1 \in DOMAIN log /\ log'[k] = log[k + 1]
  <2>1. log # <<>> BY <1>1, <1>2
  <2>2. log' \in Seq(Databases) /\ Len(log') = Len(log) - 1 BY <1>1, <1>2, <2>1
  <2>0. PICK l \in Nat : l = Len(log) BY <1>2
  <2>3. log' # <<>>
    <3>1. Len(log') > 0 BY <1>1, <2>0, <2>2
    <3>2. Len(<<>>) = 0 OBVIOUS
    <3> QED BY <3>1, <3>2
  <2>4. DOMAIN log' = 1 .. Len(log) - 1 /\ DOMAIN log = 1 .. Len(log) BY <1>2, <2>2
  <2>5. \A k \in 1 .. Len(log) - 1 : k + 1 \in 1 .. Len(log) BY <1>2
  <2>6. \A k \in 1 .. Len(log) - 1 : log'[k] = log[k + 1] BY <1>1, <1>2, <2>1
  <2> QED BY <2>2, <2>3, <2>4, <2>5, <2>6
<1>4. PICK e : e = Soon OBVIOUS
<1>5. Soon' = e BY <1>1, <1>2, <1>3, <1>4 DEF Soon, Last
<1>6. TypeOK BY DEF IInv
<1>7. /\ status \in [Chars -> Statuses] /\ ahead \in [Chars -> Nat] /\ gold \in [Chars -> Nat]
      /\ inv \in [Chars -> SUBSET Items] /\ box \in [Chars -> SUBSET Mails]
      /\ deleted \in [Chars -> SUBSET MailIds]
  BY <1>6 DEF TypeOK
<1>8. 2 \in DOMAIN log BY <1>1, <1>2
<1>9. PICK b : b = log[2] OBVIOUS
<1>10. b \in Databases BY <1>2, <1>8, <1>9
<1>11. b.gold \in [Chars -> Nat] /\ b.inv \in [Chars -> SUBSET Items] /\ b.mails \subseteq Mails
  BY <1>10 DEF Databases
<1>12. ASSUME NEW d \in Chars PROVE Member(d)'
  <2>1. Member(d) BY DEF IInv
  <2>2. ahead[d] \in Nat BY <1>7
  <2>3. status'[d] = status[d] /\ deleted'[d] = deleted[d] BY <1>1
  <2>4. d \notin C => gold'[d] = gold[d] /\ inv'[d] = inv[d] /\ box'[d] = box[d]
    <3> HIDE DEF C
    <3> QED BY <1>1
  <2>5. ASSUME d \notin C, Mirror(d) PROVE Mirror(d)' BY <1>4, <1>5, <2>4, <2>5 DEF Mirror
  <2>6. ASSUME status[d] = "online" PROVE Mirror(d)' /\ deleted'[d] \subseteq {m.id : m \in box'[d]}
    <3>1. d \notin C BY <2>6
    <3>2. Mirror(d) /\ deleted[d] \subseteq {m.id : m \in box[d]} BY <2>1, <2>6 DEF Member
    <3> QED BY <2>3, <2>4, <2>5, <3>1, <3>2
  <2>7. ASSUME status[d] = "loading"
        PROVE  /\ ahead'[d] < Len(log') /\ Settled(d, ahead[d] + 1)'
               /\ ahead'[d] = 0 => Mirror(d)'
    <3>1. ahead[d] < Len(log) /\ Settled(d, ahead[d] + 1) /\ (ahead[d] = 0 => Mirror(d))
      BY <2>1, <2>7 DEF Member
    <3>2. ahead'[d] = IF ahead[d] = 0 THEN 0 ELSE ahead[d] - 1 BY <1>1
    <3>3. ahead'[d] < Len(log') BY <1>1, <1>2, <1>3, <2>2, <3>1, <3>2
    <3>4. ahead'[d] \in Nat /\ ahead'[d] + 2 >= ahead[d] + 1 BY <2>2, <3>2
    <3>5. PICK n : n = ahead'[d] + 1 OBVIOUS
    <3>6. Settled(d, n)'
      <4>1. ASSUME NEW k \in DOMAIN log', k >= n
            PROVE  /\ log'[k].gold[d] = e.gold[d] /\ log'[k].inv[d] = e.inv[d]
                   /\ MailsOf(log'[k], d) \subseteq e.mails
        <5>1. k + 1 \in DOMAIN log /\ log'[k] = log[k + 1] BY <1>3
        <5>2. k + 1 >= ahead[d] + 1 BY <1>3, <2>2, <3>4, <3>5, <4>1
        <5>3. PICK j : j = k + 1 OBVIOUS
        <5>4. j \in DOMAIN log /\ j >= ahead[d] + 1 BY <5>1, <5>2, <5>3
        <5>5. /\ log[j].gold[d] = Soon.gold[d] /\ log[j].inv[d] = Soon.inv[d]
              /\ MailsOf(log[j], d) \subseteq Soon.mails
          BY <3>1, <5>4 DEF Settled
        <5> QED BY <1>4, <5>1, <5>3, <5>5
      <4> QED BY <1>5, <4>1 DEF Settled
    <3>7. ASSUME ahead'[d] = 0 PROVE Mirror(d)'
      <4>1. CASE ahead[d] = 0
        <5>1. d \notin C BY <4>1
        <5> QED BY <2>5, <3>1, <4>1, <5>1
      <4>2. CASE ahead[d] = 1
        <5>1. d \in C BY <2>7, <4>2
        <5> HIDE DEF C
        <5>2. /\ gold'[d] = b.gold[d] /\ inv'[d] = b.inv[d]
              /\ box'[d] = {m \in b.mails : m.to = d}
          BY <1>1, <1>9, <5>1
        <5>3. b.gold[d] = e.gold[d] /\ b.inv[d] = e.inv[d] /\ MailsOf(b, d) \subseteq e.mails
          BY <1>4, <1>8, <1>9, <3>1, <4>2 DEF Settled
        <5>4. box'[d] \subseteq MailsOf(e, d) BY <5>2, <5>3 DEF MailsOf
        <5> QED BY <1>5, <5>2, <5>3, <5>4 DEF Mirror
      <4> QED BY <2>2, <3>2, <3>7, <4>1, <4>2
    <3>8. Settled(d, ahead[d] + 1)' BY <3>5, <3>6
    <3> QED BY <3>3, <3>7, <3>8
  <2>8. status[d] # "online" => deleted'[d] = {} BY <2>1, <2>3 DEF Member
  <2>9. status[d] \notin {"online", "loading"} => box'[d] = {}
    <3>1. status[d] \notin {"online", "loading"} => d \notin C OBVIOUS
    <3> QED BY <2>1, <2>4, <3>1 DEF Member
  <2> QED BY <2>3, <2>6, <2>7, <2>8, <2>9 DEF Member
<1>13. \A x \in Items : Listed(x)' BY <1>4, <1>5 DEF IInv, Listed
<1>14. \A n \in DOMAIN log' : Sound(log'[n]) BY <1>3 DEF IInv
<1>15. ahead' \in [Chars -> Nat]
  <2>1. ASSUME NEW d \in Chars PROVE (IF ahead[d] = 0 THEN 0 ELSE ahead[d] - 1) \in Nat BY <1>7
  <2> QED BY <1>1, <2>1
<1>16. gold' \in [Chars -> Nat] /\ inv' \in [Chars -> SUBSET Items]
  <2> HIDE DEF C
  <2> QED BY <1>1, <1>7, <1>9, <1>11
<1>17. box' \in [Chars -> SUBSET Mails]
  <2>1. ASSUME NEW d \in Chars PROVE {m \in b.mails : m.to = d} \in SUBSET Mails BY <1>11
  <2> HIDE DEF C
  <2> QED BY <1>1, <1>7, <1>9, <2>1
<1>18. TypeOK' BY <1>1, <1>3, <1>6, <1>15, <1>16, <1>17 DEF TypeOK
<1> QED BY <1>12, <1>13, <1>14, <1>18 DEF IInv

\* In the rows a mail m is replaced by R, a mail or none, and what is lost of
\* its items is gone.
Replaced(e, db, m, R, lost) ==
    /\ e \in Databases /\ m \in db.mails /\ R \in SUBSET Mails /\ lost \subseteq m.items
    /\ e.mails = (db.mails \ {m}) \cup R /\ e.gone = db.gone \cup lost
    /\ e.gold = db.gold /\ e.inv = db.inv /\ e.ah = db.ah /\ e.parted = db.parted
    /\ e.chars = db.chars
    /\ \A k \in R : /\ k.id = m.id /\ k.items = m.items \ lost
                    /\ k.money > 0 \/ k.items # {}
    /\ \A k, l \in R : k = l
    /\ R = {} => lost = m.items /\ e.burnt = db.burnt + m.money
    /\ R # {} => e.burnt = db.burnt /\ \A k \in R : k.money = m.money

\* It stays with its receiver or goes back; what is lost of it was to be paid
\* to none of the characters C.
Rightly(m, R, lost, C) ==
    /\ \A k \in R : \/ k = Turned(m) /\ m.from \in Chars
                    \/ k.from = m.from /\ k.to = m.to /\ k.cod = m.cod /\ k.back = m.back
    /\ lost # {} => m.cod = 0 \/ m.back \/ m.from \notin C

\* The characters that the server knows to exist.
Living == {d \in Chars : Exists(d)}

LEMMA ReplacedSound ==
    ASSUME NEW e, NEW db \in Databases, NEW m, NEW R, NEW lost, Replaced(e, db, m, R, lost), Sound(db)
    PROVE  Sound(e)
<1>1. /\ e.mails = (db.mails \ {m}) \cup R /\ e.gone = db.gone \cup lost /\ m \in db.mails
      /\ e.inv = db.inv /\ e.ah = db.ah /\ e.parted = db.parted
      /\ \A k \in R : k.id = m.id /\ k.items = m.items \ lost
      /\ \A k, l \in R : k = l
      /\ R = {} => lost = m.items
      /\ lost \subseteq m.items
  BY DEF Replaced
<1>2. ASSUME NEW x \in Items PROVE Once(e, x)
  <2>1. Once(db, x) BY DEF Sound
  <2>2. CASE x \in m.items
    <3>1. /\ x \notin db.gone /\ db.ah[x] = None
          /\ \A d \in Chars : x \notin db.inv[d]
          /\ \A k \in db.mails : x \in k.items => k = m
          /\ \A d \in Chars : <<d, x>> \notin db.parted
      BY <1>1, <2>1, <2>2, OncePost
    <3>2. (\A d \in Chars : x \notin e.inv[d]) /\ \A d \in Chars : <<d, x>> \notin e.parted
      BY <1>1, <3>1
    <3>3. CASE x \in lost
      <4>1. \A k \in e.mails : x \notin k.items BY <1>1, <3>1, <3>3
      <4>2. x \in e.gone BY <1>1, <3>3
      <4> QED BY <3>2, <4>1, <4>2, OnceElse
    <3>4. CASE x \notin lost
      <4>1. PICK t \in R : TRUE BY <1>1, <2>2, <3>4
      <4>2. t \in e.mails /\ x \in t.items BY <1>1, <2>2, <3>4, <4>1
      <4>3. \A k \in e.mails : x \in k.items => k = t BY <1>1, <3>1, <4>1
      <4>4. x \notin e.gone /\ e.ah[x] = None BY <1>1, <3>1, <3>4
      <4> QED BY <3>2, <4>2, <4>3, <4>4, OnceInPost
    <3> QED BY <3>3, <3>4
  <2>3. CASE x \notin m.items
    <3>1. \A k \in R : x \notin k.items BY <1>1, <2>3
    <3>2. Posts(e, x) = Posts(db, x) BY <1>1, <2>3, <3>1 DEF Posts
    <3>3. Alike(e, db, x) BY <1>1, <2>3, <3>2 DEF Alike
    <3> QED BY <2>1, <3>3, OnceAlike
  <2> QED BY <2>2, <2>3
<1>3. Proper(e.mails)
  <2>1. Proper(db.mails) BY DEF Sound
  <2>2. \A k, l \in e.mails : k.id = l.id => k = l BY <1>1, <2>1 DEF Proper
  <2>3. \A k \in db.mails : k.money > 0 \/ k.items # {} BY <2>1 DEF Proper, Carrying
  <2>4. \A k \in R : k.money > 0 \/ k.items # {} BY DEF Replaced
  <2>5. Carrying(e.mails) = e.mails BY <1>1, <2>3, <2>4 DEF Carrying
  <2> QED BY <2>2, <2>5 DEF Proper
<1>4. Balanced(e)
  <2>1. Balanced(db) /\ Proper(db.mails) /\ db.mails \in SUBSET Mails /\ db.burnt \in Nat
    BY DEF Sound, Databases
  <2>2. /\ e \in Databases /\ e.gold = db.gold /\ R \in SUBSET Mails
        /\ R = {} => e.burnt = db.burnt + m.money
        /\ R # {} => e.burnt = db.burnt /\ \A k \in R : k.money = m.money
    BY DEF Replaced
  <2>3. PICK W \in SUBSET Mails : W = db.mails \ {m} BY <2>1
  <2>4. Proper(W) BY <2>1, <2>3, ProperPart
  <2>5. Money(db.mails) = m.money + Money(W) /\ m.money \in Nat
    <3>1. IsFiniteSet(db.mails) BY <2>1, MailsFinite
    <3> QED BY <1>1, <2>1, <2>3, <3>1, MoneyRest
  <2>6. Money(W) \in Nat BY <2>4, MailsFinite
  <2>7. CASE R = {}
    <3>1. e.mails = W BY <1>1, <2>3, <2>7
    <3>2. Money(e.mails) + e.burnt = Money(db.mails) + db.burnt BY <2>1, <2>2, <2>5, <2>6, <2>7, <3>1
    <3> QED BY <1>1, <1>3, <2>1, <2>2, <3>2, BalancedMails
  <2>8. CASE R # {}
    <3>1. PICK t \in R : TRUE BY <2>8
    <3>2. e.mails = W \cup {t} BY <1>1, <2>3, <3>1
    <3>3. t \notin W BY <1>1, <2>1, <2>3, <3>1 DEF Proper
    <3>4. t \in Mails /\ t.money = m.money BY <2>2, <3>1
    <3>5. Money(W \cup {t}) = Money(W) + t.money BY <2>4, <3>3, <3>4, MoneyPlus
    <3>6. e.burnt = db.burnt BY <2>2, <2>8
    <3>7. Money(e.mails) + e.burnt = Money(db.mails) + db.burnt
      BY <2>1, <2>5, <2>6, <3>2, <3>4, <3>5, <3>6
    <3> QED BY <1>1, <1>3, <2>1, <2>2, <3>7, BalancedMails
  <2> QED BY <2>7, <2>8
<1> QED BY <1>2, <1>3, <1>4 DEF Sound

\* A mail that is gone had nothing on sale.
LEMMA ReplacedUnlisted ==
    ASSUME NEW e, NEW db \in Databases, NEW m, NEW R, NEW lost, Replaced(e, db, m, R, lost), Sound(db),
           NEW x \in Items, x \notin db.gone, db.ah[x] # None
    PROVE  x \notin e.gone
<1>1. m \in db.mails /\ e.gone = db.gone \cup lost /\ lost \subseteq m.items BY DEF Replaced
<1>2. Once(db, x) BY DEF Sound
<1>3. x \notin m.items BY <1>1, <1>2, OnceSale
<1> QED BY <1>1, <1>3

\* The rows with other mails.
LEMMA Rewritten ==
    ASSUME NEW db \in Databases, NEW M \in SUBSET Mails
    PROVE  LET e == [db EXCEPT !.mails = M]
           IN  /\ e \in Databases /\ e.mails = M
               /\ e.gold = db.gold /\ e.inv = db.inv /\ e.ah = db.ah /\ e.parted = db.parted
               /\ e.gone = db.gone /\ e.chars = db.chars /\ e.burnt = db.burnt
BY DEF Databases

LEMMA TurnedMail ==
    ASSUME NEW m \in Mails, m.from \in Chars
    PROVE  /\ Turned(m) \in Mails /\ Turned(m).id = m.id /\ Turned(m).to = m.from
           /\ Turned(m).items = m.items /\ Turned(m).money = m.money
BY DEF Turned, Mails

\* HandleMailReturnToSender: the mail that goes back, if there is one, is in the
\* box of a receiver who is in the world.
LEMMA ReturnMailRows ==
    ASSUME IInv, NEW c \in Chars, NEW m, ReturnMail(c, m)
    PROVE  \E a, R, lost :
              /\ Replaced(a, Soon, m, R, lost) /\ Rightly(m, R, lost, Living)
              /\ Commit(<<a>>) /\ box' \in Boxes
              /\ \A d \in Chars : \A k \in box'[d] :
                    (k \in box[d] /\ (d = c => k # m)) \/ (k \in R /\ k.to = d /\ InWorld(d))
              /\ \A d \in Chars : \A k \in box[d] : (d = c => k # m) => k \in box'[d]
<1> DEFINE rows == {r \in Soon.mails : r.id # m.id}
           db == [Soon EXCEPT !.mails = rows]
           b == [box EXCEPT ![c] = box[c] \ {m}]
           left == [db |-> db, box |-> b]
           st == IF m.from = House THEN [left EXCEPT !.db = Destroy(@, m.items, m.money)]
                 ELSE SendReturnToSender(left, m)
<1>1. InWorld(c) /\ m \in Live(c) /\ Commit(<<st.db>>) /\ box' = st.box
  BY DEF ReturnMail
<1>2. m \in box[c] /\ m \in Soon.mails /\ m \in Mails /\ m.to = c BY <1>1, Online
<1>3. Soon \in Databases /\ Proper(Soon.mails) /\ Soon.mails \in SUBSET Mails /\ box \in Boxes
  BY Basics DEF Sound
<1>4. rows = Soon.mails \ {m} BY <1>2, <1>3 DEF Proper
<1>5. rows \in SUBSET Mails BY <1>3
<1> HIDE DEF rows
<1>6. /\ db \in Databases /\ db.mails = rows /\ db.gold = Soon.gold /\ db.inv = Soon.inv
      /\ db.ah = Soon.ah /\ db.parted = Soon.parted /\ db.gone = Soon.gone
      /\ db.burnt = Soon.burnt /\ db.chars = Soon.chars
  BY <1>3, <1>5, Rewritten
<1>7. b \in Boxes /\ \A d \in Chars : b[d] = IF d = c THEN box[c] \ {m} ELSE box[d]
  BY <1>3 DEF Boxes
<1>8. m.items \in SUBSET Items /\ m.money \in Nat BY <1>2 DEF Mails
<1>9. m.money > 0 \/ m.items # {} BY <1>2, <1>3 DEF Proper, Carrying
<1>10. left.db = db /\ left.box = b OBVIOUS
<1> HIDE DEF db, b
<1>11. CASE m.from # House /\ Exists(m.from)
  <2>1. m.from \in Chars BY <1>11 DEF Exists
  <2>2. PICK t : t = Turned(m) OBVIOUS
  <2>3. t \in Mails /\ t.id = m.id /\ t.items = m.items /\ t.money = m.money
    BY <1>2, <2>1, <2>2, TurnedMail
  <2>4. st = SendMailTo(left, t) BY <1>11, <2>2 DEF SendReturnToSender
  <2> HIDE DEF st
  <2>5. PICK K : K = Carrying({t}) OBVIOUS
  <2>6. K = {t} BY <1>9, <2>3, <2>5 DEF Carrying
  <2>7. /\ st.db \in Databases /\ st.box \in Boxes
        /\ st.db.mails = db.mails \cup K
        /\ st.db.gold = db.gold /\ st.db.inv = db.inv
        /\ st.db.ah = db.ah /\ st.db.parted = db.parted /\ st.db.gone = db.gone
        /\ st.db.burnt = db.burnt /\ st.db.chars = db.chars
        /\ \A d \in Chars : st.box[d] = IF d = t.to /\ InWorld(d) THEN b[d] \cup K ELSE b[d]
    <3>1. PICK db1 \in Databases : db1 = db BY <1>6
    <3>2. PICK b1 \in Boxes : b1 = b BY <1>7
    <3>3. t \in Mails BY <2>3
    <3>4. LET u == SendMailTo([db |-> db1, box |-> b1], t)
              e == u.db
          IN  /\ u = [db |-> e, box |-> u.box]
              /\ e \in Databases /\ u.box \in Boxes
              /\ e.mails = db1.mails \cup Carrying({t})
              /\ e.gold = db1.gold /\ e.inv = db1.inv
              /\ e.ah = db1.ah /\ e.parted = db1.parted /\ e.gone = db1.gone
              /\ e.chars = db1.chars /\ e.burnt = db1.burnt
              /\ \A d \in Chars : u.box[d] = IF d = t.to /\ InWorld(d)
                                             THEN b1[d] \cup Carrying({t}) ELSE b1[d]
      BY <3>3, Sent
    <3>5. st = SendMailTo([db |-> db1, box |-> b1], t) BY <2>4, <3>1, <3>2
    <3> HIDE DEF left
    <3> QED BY <2>5, <3>1, <3>2, <3>4, <3>5
  <2>8. PICK a : a = st.db OBVIOUS
  <2>9. PICK R \in SUBSET Mails : R = {t} BY <2>3
  <2>10. PICK lost : lost = {} OBVIOUS
  <2>11. Replaced(a, Soon, m, R, lost)
    <3>1. /\ a \in Databases /\ a.mails = (Soon.mails \ {m}) \cup R /\ a.gone = Soon.gone \cup lost
          /\ a.gold = Soon.gold /\ a.inv = Soon.inv /\ a.ah = Soon.ah /\ a.parted = Soon.parted
          /\ a.burnt = Soon.burnt /\ a.chars = Soon.chars
      BY <1>4, <1>6, <2>6, <2>7, <2>8, <2>9, <2>10
    <3>2. \A k \in R : k.id = m.id /\ k.items = m.items \ lost /\ (k.money > 0 \/ k.items # {})
      BY <1>9, <2>3, <2>9, <2>10
    <3>3. (\A k, l \in R : k = l) /\ (R = {} => lost = m.items) /\ lost \subseteq m.items
      BY <2>9, <2>10
    <3>4. R # {} /\ \A k \in R : k.money = m.money BY <2>3, <2>9
    <3> QED BY <1>2, <3>1, <3>2, <3>3, <3>4 DEF Replaced
  <2>12. \A d \in Chars : \A k \in box'[d] :
            (k \in box[d] /\ (d = c => k # m)) \/ (k \in R /\ k.to = d /\ InWorld(d))
    <3>1. ASSUME NEW d \in Chars, NEW k \in box'[d]
          PROVE  (k \in box[d] /\ (d = c => k # m)) \/ (k \in R /\ k.to = d /\ InWorld(d))
      <4>1. k \in b[d] \/ (d = t.to /\ InWorld(d) /\ k = t) BY <1>1, <2>6, <2>7
      <4>2. k \in b[d] => k \in box[d] /\ (d = c => k # m) BY <1>7
      <4> QED BY <2>9, <4>1, <4>2
    <3> QED BY <3>1
  <2>13. \A d \in Chars : \A k \in box[d] : (d = c => k # m) => k \in box'[d]
    BY <1>1, <1>7, <2>7
  <2>14. Rightly(m, R, lost, Living) BY <2>1, <2>2, <2>9, <2>10 DEF Rightly, Living
  <2> QED BY <1>1, <2>7, <2>8, <2>11, <2>12, <2>13, <2>14
<1>12. CASE ~(m.from # House /\ Exists(m.from))
  <2>1. st = [left EXCEPT !.db = Destroy(db, m.items, m.money)]
    BY <1>12 DEF SendReturnToSender
  <2>2. st.db = Destroy(db, m.items, m.money) /\ st.box = b BY <2>1
  <2> HIDE DEF st, left
  <2>3. PICK a : a = Destroy(db, m.items, m.money) OBVIOUS
  <2>4. PICK things \in SUBSET Items : things = m.items BY <1>8
  <2>0. PICK money \in Nat : money = m.money BY <1>8
  <2>5. /\ a \in Databases
        /\ a.gone = db.gone \cup things /\ a.burnt = db.burnt + money
        /\ a.gold = db.gold /\ a.inv = db.inv
        /\ a.mails = db.mails /\ a.ah = db.ah /\ a.parted = db.parted /\ a.chars = db.chars
    <3>1. a = Destroy(db, things, money) BY <2>0, <2>3, <2>4
    <3> QED BY <1>6, <3>1, Destroyed
  <2>6. PICK R \in SUBSET Mails : R = {} OBVIOUS
  <2>7. Replaced(a, Soon, m, R, things)
    <3>1. /\ a \in Databases /\ a.mails = (Soon.mails \ {m}) \cup R /\ a.gone = Soon.gone \cup things
          /\ a.gold = Soon.gold /\ a.inv = Soon.inv /\ a.ah = Soon.ah /\ a.parted = Soon.parted
          /\ a.burnt = Soon.burnt + m.money /\ a.chars = Soon.chars
      BY <1>4, <1>6, <2>0, <2>5, <2>6
    <3> QED BY <1>2, <2>4, <2>6, <3>1 DEF Replaced
  <2>8. /\ \A d \in Chars : \A k \in box'[d] : k \in box[d] /\ (d = c => k # m)
        /\ \A d \in Chars : \A k \in box[d] : (d = c => k # m) => k \in box'[d]
    BY <1>1, <1>7, <2>2
  <2>9. Rightly(m, R, things, Living)
    <3>1. m.from \notin Living BY <1>12, StoreAssumption DEF Living
    <3> QED BY <2>6, <3>1 DEF Rightly
  <2> QED BY <1>1, <1>7, <2>2, <2>3, <2>7, <2>8, <2>9
<1> QED BY <1>11, <1>12

LEMMA ReturnMailStep ==
    ASSUME IInv, NEW c \in Chars, NEW m, ReturnMail(c, m), UNCHANGED ah
    PROVE  IInv'
<1>1. PICK a, R, lost :
              /\ Replaced(a, Soon, m, R, lost) /\ Rightly(m, R, lost, Living)
              /\ Commit(<<a>>) /\ box' \in Boxes
              /\ \A d \in Chars : \A k \in box'[d] :
                    (k \in box[d] /\ (d = c => k # m)) \/ (k \in R /\ k.to = d /\ InWorld(d))
              /\ \A d \in Chars : \A k \in box[d] : (d = c => k # m) => k \in box'[d]
  BY ReturnMailRows
<1>2. InWorld(c) /\ m \in Live(c) /\ UNCHANGED <<status, ahead, gold, inv, deleted>>
  BY DEF ReturnMail
<1>3. /\ a \in Databases /\ a.mails = (Soon.mails \ {m}) \cup R /\ a.gold = Soon.gold
      /\ a.inv = Soon.inv /\ a.ah = Soon.ah /\ a.gone = Soon.gone \cup lost
  BY <1>1 DEF Replaced
<1>4. Sound(a) BY <1>1, Basics, ReplacedSound
<1>5. Grown /\ Soon' = a /\ \A n \in Added : log'[n] = a BY <1>1, <1>3, Basics, OneMore
<1>6. m.to = c BY <1>2, Online
<1>7. ASSUME NEW d \in Chars PROVE Member(d)'
  <2>1. Member(d) BY DEF IInv
  <2>2. CASE d = c
    <3>1. /\ gold[d] = Soon.gold[d] /\ inv[d] = Soon.inv[d] /\ box[d] \subseteq MailsOf(Soon, d)
          /\ deleted[d] \subseteq {k.id : k \in box[d]} /\ status[d] = "online"
      BY <1>2, <2>1, <2>2 DEF Member, Mirror, InWorld
    <3>2. box'[d] \subseteq MailsOf(a, d) BY <1>1, <1>3, <2>2, <3>1 DEF MailsOf
    <3>3. Mirror(d)' BY <1>2, <1>3, <1>5, <3>1, <3>2 DEF Mirror
    <3>4. m.id \notin deleted[d] BY <1>2, <2>2 DEF Live
    <3>5. deleted'[d] \subseteq {k.id : k \in box'[d]} BY <1>1, <1>2, <2>2, <3>1, <3>4
    <3> QED BY <1>2, <3>1, <3>3, <3>5 DEF Member
  <2>3. CASE d # c
    <3>1. MailsOf(Soon, d) \subseteq a.mails BY <1>3, <1>6, <2>3 DEF MailsOf
    <3>2. MailsOf(a, d) \subseteq a.mails BY DEF MailsOf
    <3>3. box[d] \subseteq box'[d] BY <1>1, <2>3
    <3>4. box'[d] \subseteq box[d] \cup MailsOf(a, d) BY <1>1, <1>3 DEF MailsOf
    <3>5. InWorld(d) \/ box'[d] = box[d] BY <1>1, <3>3
    <3>6. Stays(d) BY <1>2, <1>3, <1>5, <3>1, <3>2, <3>3, <3>4, <3>5 DEF Stays
    <3> QED BY <1>5, <2>1, <3>6, Basics, StaysMember
  <2> QED BY <2>2, <2>3
<1>8. \A x \in Items : Listed(x)'
  <2>1. ASSUME NEW x \in Items, ah[x] # None PROVE x \notin a.gone
    <3>1. x \notin Soon.gone /\ Soon.ah[x] # None BY <2>1 DEF IInv, Listed
    <3> QED BY <1>1, <3>1, Basics, ReplacedUnlisted
  <2>2. Soon.gone \subseteq a.gone BY <1>3
  <2> QED BY <1>3, <1>5, <2>1, <2>2, ListedSame
<1>9. \A n \in Added : Sound(log'[n]) BY <1>4, <1>5
<1>10. TypeOK BY DEF IInv
<1> QED BY <1>1, <1>2, <1>5, <1>7, <1>8, <1>9, <1>10, Together DEF TypeOK

-----------------------------------------------------------------------------
(* Expired mails and the crash.                                             *)

\* A mail m of db has expired, or a step of its removal was made.
Expired(e, db, m) == \E R, lost : Replaced(e, db, m, R, lost) /\ Rightly(m, R, lost, Chars)

\* What is left of an emptied mail to c is thrown away.
Dropped(b, a, c) ==
    /\ b \in Databases /\ b.mails \subseteq a.mails
    /\ \A k \in a.mails : k.to # c \/ k.items # {} => k \in b.mails
    /\ b.gone = a.gone /\ b.gold = a.gold /\ b.inv = a.inv /\ b.ah = a.ah
    /\ b.parted = a.parted /\ b.chars = a.chars /\ a.burnt <= b.burnt

\* What ReturnOrDeleteOldMails commits: one state or two, of which the second
\* has the mails to others that the first one has.
LEMMA ExpireStates ==
    ASSUME NEW db \in Databases, Sound(db), NEW m \in db.mails, NEW drop
    PROVE  \/ \E a : Expire(db, m, drop) = <<a>> /\ Expired(a, db, m)
           \/ \E a, b : /\ Expire(db, m, drop) = <<a, b>> /\ Expired(a, db, m) /\ Expired(b, db, m)
                        /\ \A k \in a.mails : k.to # m.to => k \in b.mails
                        /\ Dropped(b, a, m.to)
<1> DEFINE others == {r \in db.mails : r.id # m.id}
           row == {r \in db.mails : r.id = m.id}
           part == Carrying({[r EXCEPT !.items = @ \ m.items] : r \in row})
           back == {Turned(r) : r \in row}
           emptied == [db EXCEPT !.mails = others \cup part]
           removed == [db EXCEPT !.mails = others]
           turned == [db EXCEPT !.mails = others \cup back]
<1>1. Proper(db.mails) /\ db.mails \in SUBSET Mails /\ m \in Mails BY DEF Sound, Databases
<1>2. others = db.mails \ {m} /\ row = {m} BY <1>1 DEF Proper
<1>3. Money(row) \in Nat /\ Money(row) = m.money /\ db.burnt \in Nat
  <2>1. Money({m}) = m.money BY <1>1, MoneyOne
  <2>2. m.money \in Nat /\ db.burnt \in Nat BY <1>1 DEF Mails, Databases
  <2> QED BY <1>2, <2>1, <2>2
<1>4. m.money > 0 \/ m.items # {} BY <1>1 DEF Proper, Carrying
<1>5. m.items \in SUBSET Items /\ others \in SUBSET Mails BY <1>1 DEF Mails
<1>6. PICK r1 : r1 = [m EXCEPT !.items = m.items \ m.items] OBVIOUS
<1>7. /\ r1 \in Mails /\ r1.id = m.id /\ r1.items = {} /\ r1.to = m.to /\ r1.money = m.money
      /\ r1.from = m.from /\ r1.cod = m.cod /\ r1.back = m.back
  BY <1>1, <1>6 DEF Mails
<1>8. part = Carrying({r1}) BY <1>2, <1>6
<1>9. back = {Turned(m)} BY <1>2
<1>10. /\ Expire(db, m, drop) =
            IF m.items = {} THEN <<Destroy(removed, {}, Money(row))>>
            ELSE IF m.from = House \/ m.back \/ (drop /\ m.cod = 0)
            THEN <<Destroy(emptied, m.items, 0), Destroy(removed, m.items, Money(row))>>
            ELSE <<turned>>
  BY DEF Expire
<1>11. part \subseteq {r1} /\ part \in SUBSET Mails /\ \A k \in part : k.money > 0 \/ k.items # {}
  BY <1>7, <1>8 DEF Carrying
<1>12. PICK money \in Nat : money = Money(row) BY <1>3
<1>13. PICK none \in SUBSET Mails : none = {} OBVIOUS
<1>14. PICK things \in SUBSET Items : things = m.items BY <1>5
<1> HIDE DEF others, row, part, back
<1>15. /\ removed \in Databases /\ removed.mails = others
       /\ removed.gold = db.gold /\ removed.inv = db.inv /\ removed.ah = db.ah
       /\ removed.parted = db.parted /\ removed.gone = db.gone /\ removed.burnt = db.burnt
       /\ removed.chars = db.chars
  BY <1>5, Rewritten
<1>16. PICK old \in Databases : old = removed BY <1>15
<1>17. PICK b : b = Destroy(old, things, money) OBVIOUS
<1>18. /\ b \in Databases /\ b.gone = db.gone \cup things /\ b.mails = others
       /\ b.gold = db.gold /\ b.inv = db.inv /\ b.ah = db.ah /\ b.parted = db.parted
       /\ b.burnt = db.burnt + m.money /\ b.chars = db.chars
  <2>1. /\ b \in Databases /\ b.gone = old.gone \cup things /\ b.mails = old.mails
        /\ b.gold = old.gold /\ b.inv = old.inv /\ b.ah = old.ah /\ b.parted = old.parted
        /\ b.burnt = old.burnt + money /\ b.chars = old.chars
    BY <1>17, Destroyed
  <2> QED BY <1>3, <1>12, <1>15, <1>16, <2>1
<1>19. ASSUME m.items = {} \/ m.from = House \/ m.back \/ m.cod = 0
       PROVE  Expired(b, db, m)
  <2>1. b.mails = (db.mails \ {m}) \cup none BY <1>2, <1>13, <1>18
  <2>2. Replaced(b, db, m, none, things) BY <1>13, <1>14, <1>18, <2>1 DEF Replaced
  <2>3. Rightly(m, none, things, Chars)
    <3>1. House \notin Chars BY StoreAssumption
    <3> QED BY <1>13, <1>14, <1>19, <3>1 DEF Rightly
  <2> QED BY <2>2, <2>3 DEF Expired
<1>20. b = Destroy(removed, m.items, Money(row)) BY <1>12, <1>14, <1>16, <1>17
<1>21. CASE m.items = {}
  <2>1. Expire(db, m, drop) = <<b>> BY <1>10, <1>20, <1>21
  <2> QED BY <1>19, <1>21, <2>1
<1>22. CASE m.items # {} /\ (m.from = House \/ m.back \/ (drop /\ m.cod = 0))
  <2>1. PICK M \in SUBSET Mails : M = others \cup part BY <1>5, <1>11
  <2>2. PICK e : e = [db EXCEPT !.mails = M] OBVIOUS
  <2>3. /\ e \in Databases /\ e.mails = M
        /\ e.gold = db.gold /\ e.inv = db.inv /\ e.ah = db.ah
        /\ e.parted = db.parted /\ e.gone = db.gone /\ e.burnt = db.burnt /\ e.chars = db.chars
    BY <2>2, Rewritten
  <2>4. PICK zero \in Nat : zero = 0 OBVIOUS
  <2>5. PICK a : a = Destroy(e, things, zero) OBVIOUS
  <2>6. /\ a \in Databases /\ a.gone = e.gone \cup things /\ a.mails = e.mails
        /\ a.gold = e.gold /\ a.inv = e.inv /\ a.ah = e.ah /\ a.parted = e.parted
        /\ a.burnt = e.burnt + zero /\ a.chars = e.chars
    <3>1. PICK f \in Databases : f = e BY <2>3
    <3>2. a = Destroy(f, things, zero) BY <2>5, <3>1
    <3>3. /\ a \in Databases /\ a.gone = f.gone \cup things /\ a.mails = f.mails
          /\ a.gold = f.gold /\ a.inv = f.inv /\ a.ah = f.ah /\ a.parted = f.parted
          /\ a.burnt = f.burnt + zero /\ a.chars = f.chars
      BY <3>2, Destroyed
    <3> QED BY <3>1, <3>3
  <2>7. a = Destroy(emptied, m.items, 0) BY <1>14, <2>1, <2>2, <2>4, <2>5
  <2>8. a.mails = (db.mails \ {m}) \cup part BY <1>2, <2>1, <2>3, <2>6
  <2>9. /\ \A k \in part : k.id = m.id /\ k.items = m.items \ things
        /\ \A k, l \in part : k = l
    BY <1>7, <1>11, <1>14
  <2>0. /\ part = {} => a.burnt = db.burnt + m.money
        /\ part # {} => a.burnt = db.burnt /\ \A k \in part : k.money = m.money
    <3>1. a.burnt = db.burnt BY <1>3, <2>3, <2>4, <2>6
    <3>2. part = {} => m.money = 0 BY <1>1, <1>7, <1>8 DEF Carrying, Mails
    <3>3. \A k \in part : k.money = m.money BY <1>7, <1>11
    <3> QED BY <1>3, <3>1, <3>2, <3>3
  <2>10. Replaced(a, db, m, part, things)
    BY <2>0, <1>11, <1>14, <2>3, <2>6, <2>8, <2>9 DEF Replaced
  <2>a. Rightly(m, part, things, Chars)
    <3>1. m.from = House \/ m.back \/ m.cod = 0 BY <1>22
    <3>2. House \notin Chars BY StoreAssumption
    <3> QED BY <1>7, <1>11, <3>1, <3>2 DEF Rightly
  <2>11. Expired(a, db, m) BY <2>10, <2>a DEF Expired
  <2>12. Expire(db, m, drop) = <<a, b>> BY <1>10, <1>20, <1>22, <2>7
  <2>13. \A k \in a.mails : k.to # m.to => k \in b.mails
    BY <1>2, <1>7, <1>11, <1>18, <2>8
  <2>14. Dropped(b, a, m.to)
    <3>1. a.burnt = db.burnt BY <1>3, <2>3, <2>4, <2>6
    <3>2. a.burnt <= b.burnt
      <4>1. m.money \in Nat BY <1>1 DEF Mails
      <4> QED BY <1>3, <1>18, <3>1, <4>1
    <3>3. b.mails \subseteq a.mails BY <1>2, <1>18, <2>8
    <3>4. \A k \in a.mails : k.to # m.to \/ k.items # {} => k \in b.mails
      BY <1>2, <1>7, <1>11, <1>18, <2>8
    <3> QED BY <1>18, <2>3, <2>6, <3>2, <3>3, <3>4 DEF Dropped
  <2> QED BY <1>19, <1>22, <2>11, <2>12, <2>13, <2>14
<1>23. CASE m.items # {} /\ ~(m.from = House \/ m.back \/ (drop /\ m.cod = 0))
  <2>1. m.from \in Chars BY <1>1, <1>23 DEF Mails
  <2>2. PICK t \in Mails : t = Turned(m) /\ t.id = m.id /\ t.items = m.items /\ t.money = m.money
    BY <1>1, <2>1, TurnedMail
  <2>3. PICK R \in SUBSET Mails : R = {t} OBVIOUS
  <2>4. PICK M \in SUBSET Mails : M = others \cup R BY <1>5
  <2>5. PICK a : a = [db EXCEPT !.mails = M] OBVIOUS
  <2>6. /\ a \in Databases /\ a.mails = M
        /\ a.gold = db.gold /\ a.inv = db.inv /\ a.ah = db.ah
        /\ a.parted = db.parted /\ a.gone = db.gone /\ a.burnt = db.burnt /\ a.chars = db.chars
    BY <2>5, Rewritten
  <2>7. a = turned BY <1>9, <2>2, <2>3, <2>4, <2>5
  <2>8. PICK lost : lost = {} OBVIOUS
  <2>9. /\ a.mails = (db.mails \ {m}) \cup R /\ a.gone = db.gone \cup lost
        /\ \A k \in R : k.id = m.id /\ k.items = m.items \ lost /\ k.items # {}
                         /\ k.money = m.money
        /\ \A k, l \in R : k = l
        /\ R # {} /\ lost \subseteq m.items
    BY <1>2, <1>23, <2>2, <2>3, <2>4, <2>6, <2>8
  <2>10. Replaced(a, db, m, R, lost) BY <2>6, <2>9 DEF Replaced
  <2>11. Expire(db, m, drop) = <<a>> BY <1>10, <1>23, <2>7
  <2>12. Rightly(m, R, lost, Chars) BY <2>1, <2>2, <2>3, <2>8 DEF Rightly
  <2> QED BY <2>10, <2>11, <2>12 DEF Expired
<1> QED BY <1>21, <1>22, <1>23

\* What is committed for an expired mail keeps the rows sound, and nobody but
\* its receiver loses a mail.
LEMMA ExpiredRows ==
    ASSUME NEW e, NEW db \in Databases, Sound(db), NEW m, Expired(e, db, m)
    PROVE  /\ e \in Databases /\ Sound(e)
           /\ e.gold = db.gold /\ e.inv = db.inv /\ e.ah = db.ah /\ db.gone \subseteq e.gone
           /\ \A k \in db.mails : k.to # m.to => k \in e.mails
           /\ \A x \in Items : x \notin db.gone /\ db.ah[x] # None => x \notin e.gone
<1>1. PICK R, lost : Replaced(e, db, m, R, lost) BY DEF Expired
<1>2. /\ e \in Databases /\ e.gold = db.gold /\ e.inv = db.inv /\ e.ah = db.ah
      /\ db.gone \subseteq e.gone /\ \A k \in db.mails : k.to # m.to => k \in e.mails
  BY <1>1 DEF Replaced
<1>3. Sound(e) BY <1>1, ReplacedSound
<1>4. \A x \in Items : x \notin db.gone /\ db.ah[x] # None => x \notin e.gone
  BY <1>1, ReplacedUnlisted
<1> QED BY <1>2, <1>3, <1>4

LEMMA ExpireMailStep ==
    ASSUME IInv, ~Races, NEW m, NEW drop, ExpireMail(m, drop), UNCHANGED ah
    PROVE  IInv'
<1>1. /\ m \in Now.mails /\ ~InWorld(m.to) /\ Len(log) = 1
      /\ \A c \in Chars : status[c] # "loading"
      /\ Commit(Expire(Soon, m, drop))
      /\ UNCHANGED <<status, ahead, gold, inv, box, deleted>>
  BY DEF ExpireMail
<1>2. Soon = Now /\ Soon \in Databases /\ Sound(Soon) BY <1>1, Basics
<1>3. /\ Grown
      /\ Expired(Soon', Soon, m)
      /\ \A n \in Added : Expired(log'[n], Soon, m) /\ \A k \in log'[n].mails : k.to # m.to => k \in Soon'.mails
  <2>0. m \in Soon.mails BY <1>1, <1>2
  <2>1. \/ \E a : Expire(Soon, m, drop) = <<a>> /\ Expired(a, Soon, m)
        \/ \E a, b : /\ Expire(Soon, m, drop) = <<a, b>> /\ Expired(a, Soon, m) /\ Expired(b, Soon, m)
                     /\ \A k \in a.mails : k.to # m.to => k \in b.mails
    BY <1>2, <2>0, ExpireStates
  <2>2. CASE \E a : Expire(Soon, m, drop) = <<a>> /\ Expired(a, Soon, m)
    <3>1. PICK a : Expire(Soon, m, drop) = <<a>> /\ Expired(a, Soon, m) BY <2>2
    <3>2. a \in Databases BY <1>2, <3>1, ExpiredRows
    <3>3. Commit(<<a>>) BY <1>1, <3>1
    <3>4. Grown /\ Soon' = a /\ \A n \in Added : log'[n] = a BY <3>2, <3>3, Basics, OneMore
    <3> QED BY <3>1, <3>4
  <2>3. CASE \E a, b : /\ Expire(Soon, m, drop) = <<a, b>> /\ Expired(a, Soon, m) /\ Expired(b, Soon, m)
                       /\ \A k \in a.mails : k.to # m.to => k \in b.mails
    <3>1. PICK a, b : /\ Expire(Soon, m, drop) = <<a, b>> /\ Expired(a, Soon, m) /\ Expired(b, Soon, m)
                      /\ \A k \in a.mails : k.to # m.to => k \in b.mails
      BY <2>3
    <3>2. a \in Databases /\ b \in Databases BY <1>2, <3>1, ExpiredRows
    <3>3. Commit(<<a, b>>) BY <1>1, <3>1
    <3>4. Grown /\ Soon' = b /\ \A n \in Added : log'[n] \in {a, b} BY <3>2, <3>3, Basics, TwoMore
    <3>5. ASSUME NEW n \in Added
          PROVE  Expired(log'[n], Soon, m) /\ \A k \in log'[n].mails : k.to # m.to => k \in b.mails
      <4>1. CASE log'[n] = a BY <3>1, <4>1
      <4>2. CASE log'[n] = b BY <3>1, <4>2
      <4> QED BY <3>4, <4>1, <4>2
    <3> QED BY <3>1, <3>4, <3>5
  <2> QED BY <2>1, <2>2, <2>3
<1>4. PICK e : e = Soon' OBVIOUS
<1>5. /\ e.gold = Soon.gold /\ e.inv = Soon.inv /\ e.ah = Soon.ah /\ Soon.gone \subseteq e.gone
      /\ \A k \in Soon.mails : k.to # m.to => k \in e.mails
      /\ \A x \in Items : x \notin Soon.gone /\ Soon.ah[x] # None => x \notin e.gone
  BY <1>2, <1>3, <1>4, ExpiredRows
<1>6. ASSUME NEW n \in Added
      PROVE  /\ Sound(log'[n]) /\ log'[n].gold = Soon.gold /\ log'[n].inv = Soon.inv
             /\ \A k \in log'[n].mails : k.to # m.to => k \in e.mails
  <2>1. PICK a : a = log'[n] OBVIOUS
  <2>2. Expired(a, Soon, m) BY <1>3, <2>1
  <2>3. Sound(a) /\ a.gold = Soon.gold /\ a.inv = Soon.inv BY <1>2, <2>2, ExpiredRows
  <2> QED BY <1>3, <1>4, <2>1, <2>3
<1>7. ASSUME NEW d \in Chars PROVE Member(d)'
  <2>1. Member(d) BY DEF IInv
  <2>2. CASE InWorld(d)
    <3>1. d # m.to BY <1>1, <2>2
    <3>2. MailsOf(Soon, d) \subseteq e.mails BY <1>5, <3>1 DEF MailsOf
    <3>3. \A n \in Added : MailsOf(log'[n], d) \subseteq e.mails BY <1>6, <3>1 DEF MailsOf
    <3>4. \A n \in Added : log'[n].gold[d] = Soon.gold[d] /\ log'[n].inv[d] = Soon.inv[d] BY <1>6
    <3>5. Stays(d) BY <1>1, <1>4, <1>5, <3>2, <3>3, <3>4 DEF Stays
    <3> QED BY <1>3, <2>1, <3>5, Basics, StaysMember
  <2>3. CASE ~InWorld(d)
    <3>1. status[d] \notin {"online", "loading"} BY <1>1, <2>3 DEF InWorld
    <3> QED BY <1>1, <2>1, <3>1 DEF Member
  <2> QED BY <2>2, <2>3
<1>8. \A x \in Items : Listed(x)'
  <2>1. ASSUME NEW x \in Items, ah[x] # None PROVE x \notin e.gone
    <3>1. x \notin Soon.gone /\ Soon.ah[x] # None BY <2>1 DEF IInv, Listed
    <3> QED BY <1>5, <3>1
  <2> QED BY <1>4, <1>5, <2>1, ListedSame
<1>9. \A n \in Added : Sound(log'[n]) BY <1>6
<1>10. TypeOK BY DEF IInv
<1> QED BY <1>1, <1>3, <1>7, <1>8, <1>9, <1>10, Together DEF TypeOK, Boxes

\* The states after a crash: the one the database holds, and those of the pass
\* over expired mails.
LEMMA RestartRows ==
    ASSUME IInv, \/ log' = <<Now>>
                 \/ \E m \in Now.mails, drop \in BOOLEAN : log' = <<Now>> \o Expire(Now, m, drop)
    PROVE  /\ log' \in Seq(Databases) /\ log' # <<>> /\ Len(log') - 1 \in Nat
           /\ \A n \in DOMAIN log' : Sound(log'[n])
           /\ Soon'.ah = Now.ah /\ Now.gone \subseteq Soon'.gone
           /\ \A x \in Items : x \notin Now.gone /\ Now.ah[x] # None => x \notin Soon'.gone
<1>1. PICK db \in Databases : db = Now BY Basics
<1>2. Sound(db) BY <1>1, Basics
<1>3. CASE log' = <<Now>>
  <2>1. log' = <<db>> BY <1>1, <1>3
  <2>2. log' \in Seq(Databases) /\ Len(log') = 1 /\ DOMAIN log' = {1} /\ log'[1] = db BY <2>1
  <2>3. Soon' = db BY <2>2 DEF Soon, Last
  <2>4. log' # <<>> BY <2>1
  <2>5. Len(log') - 1 \in Nat BY <2>2
  <2>6. \A n \in DOMAIN log' : Sound(log'[n]) BY <1>2, <2>2
  <2> QED BY <1>1, <2>2, <2>3, <2>4, <2>5, <2>6
<1>4. ASSUME NEW m \in Now.mails, NEW drop \in BOOLEAN, log' = <<Now>> \o Expire(Now, m, drop)
      PROVE  /\ log' \in Seq(Databases) /\ log' # <<>> /\ Len(log') - 1 \in Nat
             /\ \A n \in DOMAIN log' : Sound(log'[n])
             /\ Expired(Soon', db, m)
  <2>0. m \in db.mails BY <1>1
  <2>1. \/ \E a : Expire(db, m, drop) = <<a>> /\ Expired(a, db, m)
        \/ \E a, b : /\ Expire(db, m, drop) = <<a, b>> /\ Expired(a, db, m) /\ Expired(b, db, m)
                     /\ \A k \in a.mails : k.to # m.to => k \in b.mails
    BY <1>2, <2>0, ExpireStates
  <2>2. ASSUME NEW a, Expire(db, m, drop) = <<a>>, Expired(a, db, m)
        PROVE  /\ log' \in Seq(Databases) /\ log' # <<>> /\ Len(log') - 1 \in Nat
               /\ \A n \in DOMAIN log' : Sound(log'[n])
               /\ Expired(Soon', db, m)
    <3>1. a \in Databases /\ Sound(a) BY <1>2, <2>2, ExpiredRows
    <3>2. PICK l : l = <<db>> /\ l \in Seq(Databases)
      <4>1. <<db>> \in Seq(Databases) OBVIOUS
      <4> QED BY <4>1
    <3>0. Len(l) = 1 /\ l[1] = db BY <3>2
    <3>3. log' \in Seq(Databases) /\ Len(log') = 2 /\ log'[1] = db /\ log'[2] = a
      <4>1. log' = l \o <<a>> BY <1>1, <1>4, <2>2, <3>2
      <4>0. l \in Seq(Databases) BY <3>2
      <4>2. log' \in Seq(Databases) /\ Len(log') = Len(l) + 1 BY <3>1, <4>0, <4>1
      <4>3. \A n \in 1 .. Len(l) : log'[n] = l[n] BY <4>1
      <4>4. log'[Len(l) + 1] = a BY <4>1
      <4> QED BY <3>0, <4>2, <4>3, <4>4
    <3>4. DOMAIN log' = {1, 2} /\ log' # <<>>
      <4>1. DOMAIN log' = 1 .. 2 BY <3>3
      <4>2. 1 .. 2 = {1, 2} OBVIOUS
      <4>3. Len(<<>>) = 0 OBVIOUS
      <4>0. Len(log') > 0 BY <3>3
      <4>4. log' # <<>> BY <4>0, <4>3
      <4> QED BY <4>1, <4>2, <4>4
    <3>5. Soon' = a BY <3>3 DEF Soon, Last
    <3>6. \A n \in DOMAIN log' : Sound(log'[n]) BY <1>2, <3>1, <3>3, <3>4
    <3>7. Len(log') - 1 \in Nat BY <3>3
    <3> QED BY <2>2, <3>3, <3>4, <3>5, <3>6, <3>7
  <2>3. ASSUME NEW a, NEW b, Expire(db, m, drop) = <<a, b>>, Expired(a, db, m), Expired(b, db, m)
        PROVE  /\ log' \in Seq(Databases) /\ log' # <<>> /\ Len(log') - 1 \in Nat
               /\ \A n \in DOMAIN log' : Sound(log'[n])
               /\ Expired(Soon', db, m)
    <3>1. a \in Databases /\ Sound(a) /\ b \in Databases /\ Sound(b) BY <1>2, <2>3, ExpiredRows
    <3>2. PICK l : l = <<db>> /\ l \in Seq(Databases)
      <4>1. <<db>> \in Seq(Databases) OBVIOUS
      <4> QED BY <4>1
    <3>0. Len(l) = 1 /\ l[1] = db BY <3>2
    <3>3. log' \in Seq(Databases) /\ Len(log') = 3 /\ log'[1] = db /\ log'[2] = a /\ log'[3] = b
      <4>1. log' = l \o <<a, b>> BY <1>1, <1>4, <2>3, <3>2
      <4>0. l \in Seq(Databases) BY <3>2
      <4>2. log' \in Seq(Databases) /\ Len(log') = Len(l) + 2 BY <3>1, <4>0, <4>1
      <4>3. \A n \in 1 .. Len(l) : log'[n] = l[n] BY <4>1
      <4>4. log'[Len(l) + 1] = a /\ log'[Len(l) + 2] = b BY <4>1
      <4> QED BY <3>0, <4>2, <4>3, <4>4
    <3>4. DOMAIN log' = {1, 2, 3} /\ log' # <<>>
      <4>1. DOMAIN log' = 1 .. 3 BY <3>3
      <4>2. 1 .. 3 = {1, 2, 3} OBVIOUS
      <4>3. Len(<<>>) = 0 OBVIOUS
      <4>0. Len(log') > 0 BY <3>3
      <4>4. log' # <<>> BY <4>0, <4>3
      <4> QED BY <4>1, <4>2, <4>4
    <3>5. Soon' = b BY <3>3 DEF Soon, Last
    <3>6. \A n \in DOMAIN log' : Sound(log'[n]) BY <1>2, <3>1, <3>3, <3>4
    <3>7. Len(log') - 1 \in Nat BY <3>3
    <3> QED BY <2>3, <3>3, <3>4, <3>5, <3>6, <3>7
  <2> QED BY <2>1, <2>2, <2>3
<1>5. ASSUME NEW m, Expired(Soon', db, m)
      PROVE  /\ Soon'.ah = Now.ah /\ Now.gone \subseteq Soon'.gone
             /\ \A x \in Items : x \notin Now.gone /\ Now.ah[x] # None => x \notin Soon'.gone
  <2>1. PICK e : e = Soon' OBVIOUS
  <2>2. Expired(e, db, m) BY <1>5, <2>1
  <2>3. /\ e.ah = db.ah /\ db.gone \subseteq e.gone
        /\ \A x \in Items : x \notin db.gone /\ db.ah[x] # None => x \notin e.gone
    BY <1>2, <2>2, ExpiredRows
  <2> QED BY <1>1, <2>1, <2>3
<1> QED BY <1>3, <1>4, <1>5

LEMMA RestartStep ==
    ASSUME IInv, Restart
    PROVE  IInv'
<1>1. /\ \/ log' = <<Now>>
         \/ \E m \in Now.mails, drop \in BOOLEAN : log' = <<Now>> \o Expire(Now, m, drop)
      /\ status' = [c \in Chars |-> IF c \in Now.chars THEN "offline" ELSE "gone"]
      /\ ahead' = [c \in Chars |-> Len(log') - 1]
      /\ gold' = [c \in Chars |-> 0]
      /\ inv' = [c \in Chars |-> {}]
      /\ box' = [c \in Chars |-> {}]
      /\ deleted' = [c \in Chars |-> {}]
      /\ ah' = [x \in Items |-> IF x \in Now.gone THEN None ELSE Now.ah[x]]
  BY DEF Restart, Crash
<1>2. /\ log' \in Seq(Databases) /\ log' # <<>> /\ Len(log') - 1 \in Nat
      /\ \A n \in DOMAIN log' : Sound(log'[n])
      /\ Soon'.ah = Now.ah /\ Now.gone \subseteq Soon'.gone
      /\ \A x \in Items : x \notin Now.gone /\ Now.ah[x] # None => x \notin Soon'.gone
  BY <1>1, RestartRows
<1>3. ASSUME NEW d \in Chars PROVE Member(d)'
  <2>1. status'[d] \in {"offline", "gone"} /\ box'[d] = {} /\ deleted'[d] = {} BY <1>1
  <2> QED BY <2>1 DEF Member
<1>4. ASSUME NEW x \in Items PROVE Listed(x)'
  <2>1. ah'[x] = IF x \in Now.gone THEN None ELSE Now.ah[x] BY <1>1
  <2> QED BY <1>2, <2>1 DEF Listed
<1>5. Now.ah \in [Items -> Auctions \cup {None}] BY Basics DEF Databases
<1>6. TypeOK'
  <2>1. ahead' \in [Chars -> Nat] BY <1>1, <1>2
  <2>2. /\ status' \in [Chars -> Statuses] /\ gold' \in [Chars -> Nat]
        /\ inv' \in [Chars -> SUBSET Items]
        /\ box' \in [Chars -> SUBSET Mails] /\ deleted' \in [Chars -> SUBSET MailIds]
    BY <1>1 DEF Statuses
  <2>3. ah' \in [Items -> Auctions \cup {None}] BY <1>1, <1>5
  <2> QED BY <1>2, <2>1, <2>2, <2>3 DEF TypeOK
<1> QED BY <1>2, <1>3, <1>4, <1>6 DEF IInv

LEMMA InitIInv == Init => IInv
<1> SUFFICES ASSUME Init PROVE IInv OBVIOUS
<1>1. PICK db : db = [gold |-> StartGold, inv |-> StartItems, mails |-> {},
                      ah |-> [x \in Items |-> None], chars |-> Chars,
                      parted |-> {}, gone |-> {}, burnt |-> 0]
  OBVIOUS
<1>2. /\ log = <<db>>
      /\ status = [c \in Chars |-> "offline"]
      /\ ahead = [c \in Chars |-> 0]
      /\ gold = [c \in Chars |-> 0]
      /\ inv = [c \in Chars |-> {}]
      /\ box = [c \in Chars |-> {}]
      /\ deleted = [c \in Chars |-> {}]
      /\ ah = [x \in Items |-> None]
  BY <1>1 DEF Init, MailInit, StoreInit
<1>3. /\ db.inv = StartItems /\ db.mails = {} /\ db.ah = [x \in Items |-> None]
      /\ db.parted = {} /\ db.gone = {} /\ db.gold = StartGold /\ db.burnt = 0
  BY <1>1
<1>4. db \in Databases
  <2>1. [x \in Items |-> None] \in [Items -> Auctions \cup {None}] OBVIOUS
  <2> QED BY <1>1, <2>1, StoreAssumption DEF Databases
<1>5. log \in Seq(Databases) /\ log # <<>> /\ DOMAIN log = {1} /\ log[1] = db /\ Len(log) = 1
  BY <1>2, <1>4
<1>6. Soon = db BY <1>5 DEF Soon, Last
<1>7. Sound(db)
  <2>1. Proper(db.mails) BY <1>3 DEF Proper, Carrying
  <2>2. ASSUME NEW x \in Items PROVE Once(db, x)
    <3>1. PICK c \in Chars : x \in StartItems[c] BY StoreAssumption
    <3>2. \A d \in Chars : x \in StartItems[d] => d = c BY <3>1, StoreAssumption
    <3>3. x \in db.inv[c] /\ \A d \in Chars : x \in db.inv[d] => d = c BY <1>3, <3>1, <3>2
    <3>4. /\ x \notin db.gone /\ db.ah[x] = None /\ \A k \in db.mails : x \notin k.items
          /\ \A d \in Chars : <<d, x>> \notin db.parted
      BY <1>3
    <3> QED BY <3>3, <3>4, OnceInBag
  <2>3. Balanced(db)
    <3>1. IsFiniteSet(Chars) /\ IsFiniteSet(Items) /\ StartGold \in [Chars -> Nat] BY StoreAssumption
    <3>2. PICK t \in Nat : t = Total(StartGold) BY <3>1, TotalNat
    <3>3. PICK f : f = Values(db.ah) OBVIOUS
    <3>4. f = [x \in Items |-> 0] BY <1>3, <3>3 DEF Values, Value
    <3>5. Total(f) = 0 BY <3>1, <3>4, TotalZero
    <3>6. Money(db.mails) = 0 BY <1>3, MoneyNone
    <3>7. Worth(db) = t + 0 + 0 + 0 BY <1>3, <3>2, <3>3, <3>5, <3>6 DEF Worth
    <3>8. Fair(db.ah) BY <1>3 DEF Fair
    <3> QED BY <3>2, <3>7, <3>8 DEF Balanced
  <2> QED BY <2>1, <2>2, <2>3 DEF Sound
<1>8. \A n \in DOMAIN log : Sound(log[n]) BY <1>5, <1>7
<1>9. ASSUME NEW d \in Chars PROVE Member(d)
  <2>1. status[d] = "offline" /\ box[d] = {} /\ deleted[d] = {} BY <1>2
  <2> QED BY <2>1 DEF Member
<1>10. \A x \in Items : Listed(x) BY <1>2, <1>3, <1>6 DEF Listed
<1>11. TypeOK BY <1>2, <1>5 DEF TypeOK, Statuses
<1> QED BY <1>8, <1>9, <1>10, <1>11 DEF IInv

-----------------------------------------------------------------------------
(* A character is deleted.                                                  *)

\* The mails of db that go back when c is deleted.
Returning(db, c) ==
    {r \in {m \in db.mails : m.to = c /\ m.items # {} /\ m.cod > 0 /\ m.from # House} : Exists(r.from)}

GoingBack(db, c) == {Turned(m) : m \in Returning(db, c)}

\* The ones that are lost.
Losing(db, c) == {m \in db.mails : m.to = c} \ Returning(db, c)

LEMMA BackMails ==
    ASSUME NEW db \in Databases, NEW c \in Chars, NEW t \in GoingBack(db, c)
    PROVE  /\ t \in Mails /\ t.items # {}
           /\ \E r \in Returning(db, c) : /\ r \in db.mails /\ t = Turned(r) /\ r.to = c
                                          /\ t.id = r.id /\ t.items = r.items
<1>1. PICK r \in Returning(db, c) : t = Turned(r) BY DEF GoingBack
<1>2. r \in db.mails /\ r.to = c /\ r.items # {} /\ r.from \in Chars BY <1>1 DEF Returning, Exists
<1>3. r \in Mails BY <1>2 DEF Databases
<1>4. t \in Mails /\ t.id = r.id /\ t.items = r.items BY <1>1, <1>2, <1>3, TurnedMail
<1> QED BY <1>1, <1>2, <1>4

LEMMA ClearedProper ==
    ASSUME NEW db \in Databases, NEW c \in Chars, Proper(db.mails)
    PROVE  Proper({m \in db.mails : m.to # c} \cup GoingBack(db, c))
<1> DEFINE kept == {m \in db.mails : m.to # c}
           B == GoingBack(db, c)
<1>1. \A k, l \in db.mails : k.id = l.id => k = l BY DEF Proper
<1>2. \A k \in db.mails : k.money > 0 \/ k.items # {} BY DEF Proper, Carrying
<1>3. ASSUME NEW t \in B PROVE t.items # {} BY BackMails
<1>4. ASSUME NEW k \in kept, NEW t \in B PROVE k.id # t.id
  <2>1. PICK r \in Returning(db, c) : r \in db.mails /\ r.to = c /\ t.id = r.id BY BackMails
  <2> QED BY <1>1, <2>1
<1>5. ASSUME NEW t \in B, NEW u \in B, t.id = u.id PROVE t = u
  <2>1. PICK r \in Returning(db, c) : r \in db.mails /\ t = Turned(r) /\ t.id = r.id BY BackMails
  <2>2. PICK q \in Returning(db, c) : q \in db.mails /\ u = Turned(q) /\ u.id = q.id BY BackMails
  <2>3. r = q BY <1>1, <1>5, <2>1, <2>2
  <2> QED BY <2>1, <2>2, <2>3
<1> DEFINE M == kept \cup B
<1>6. ASSUME NEW k \in M, NEW l \in M, k.id = l.id PROVE k = l
  <2>1. CASE k \in kept /\ l \in kept BY <1>1, <1>6, <2>1
  <2>2. CASE k \in B /\ l \in B BY <1>5, <1>6, <2>2
  <2>3. CASE k \in kept /\ l \in B BY <1>4, <1>6, <2>3
  <2>4. CASE k \in B /\ l \in kept BY <1>4, <1>6, <2>4
  <2> QED BY <2>1, <2>2, <2>3, <2>4
<1>7. \A k \in M : k.money > 0 \/ k.items # {} BY <1>2, <1>3
<1> HIDE DEF M
<1>8. Carrying(M) = M BY <1>7 DEF Carrying
<1>9. Proper(M) BY <1>6, <1>8 DEF Proper
<1> QED BY <1>9 DEF M

\* The rows after the deletion of c.
Cleared(a, db, c) ==
    /\ a \in Databases /\ a.mails = {m \in db.mails : m.to # c} \cup GoingBack(db, c)
    /\ a.gold = [db.gold EXCEPT ![c] = 0] /\ a.inv = [db.inv EXCEPT ![c] = {}]
    /\ a.ah = db.ah /\ a.parted = db.parted
    /\ a.gone = db.gone \cup db.inv[c] \cup UNION {m.items : m \in Losing(db, c)}
    /\ a.burnt = db.burnt + (db.gold[c] + Money(Losing(db, c)))
    /\ a.chars = db.chars \ {c}

\* What goes back is what came.
LEMMA MoneyTurned ==
    ASSUME NEW db \in Databases, NEW c \in Chars, Proper(db.mails)
    PROVE  Money(GoingBack(db, c)) = Money(Returning(db, c))
<1> DEFINE R == Returning(db, c)
           F(s) == {Turned(m) : m \in s}
           G == {s \in SUBSET R : IsFiniteSet(F(s)) /\ Money(F(s)) = Money(s)}
<1>1. /\ db.mails \in SUBSET Mails /\ R \in SUBSET db.mails /\ R \in SUBSET Mails
  BY DEF Returning, Databases
<1>2. IsFiniteSet(R) BY <1>1, MailsFinite
<1>3. ASSUME NEW m \in R
      PROVE  Turned(m) \in Mails /\ Turned(m).id = m.id /\ Turned(m).money = m.money /\ m \in Mails
  <2>1. m \in Mails /\ m.from \in Chars BY <1>1 DEF Returning, Exists
  <2> QED BY <2>1, TurnedMail DEF Turned, Mails
<1>4. ASSUME NEW m \in R, NEW k \in R, Turned(m) = Turned(k) PROVE m = k
  <2>1. m.id = k.id BY <1>3, <1>4
  <2> QED BY <1>1, <2>1 DEF Proper
<1>5. {} \in G
  <2>1. F({}) = {} OBVIOUS
  <2>2. IsFiniteSet({}) BY FS_EmptySet
  <2> QED BY <2>1, <2>2
<1>6. ASSUME NEW s \in SUBSET R, NEW x \in s, s \ {x} \in G PROVE s \in G
  <2>1. PICK r \in SUBSET Mails : r = s \ {x} /\ IsFiniteSet(F(r)) /\ Money(F(r)) = Money(r)
    BY <1>1, <1>6
  <2>2. PICK q \in SUBSET Mails : q = F(r) BY <1>3, <2>1
  <2>3. PICK t \in Mails : t = Turned(x) /\ t.money = x.money BY <1>3
  <2>4. t \notin q BY <1>4, <2>1, <2>2, <2>3
  <2>5. F(s) = q \cup {t} BY <2>1, <2>2, <2>3
  <2>6. IsFiniteSet({t}) /\ Money({t}) = t.money BY MoneyOne
  <2>7. PICK o \in SUBSET Mails : o = {t} OBVIOUS
  <2>8. q \cap o = {} BY <2>4, <2>7
  <2>9. IsFiniteSet(q \cup o) /\ Money(q \cup o) = Money(q) + Money(o)
    BY <2>1, <2>2, <2>6, <2>7, <2>8, MoneyAdded
  <2>10. PICK v \in SUBSET Mails : v = s BY <1>1
  <2>11. IsFiniteSet(v) BY <1>2, <2>10, FS_Subset
  <2>12. x.money \in Nat /\ Money(v) = x.money + Money(v \ {x}) BY <2>10, <2>11, MoneyRest
  <2>13. PICK w \in Nat : w = Money(r)
    <3>1. IsFiniteSet(r) BY <1>2, <2>1, FS_Subset
    <3> QED BY <3>1, MoneyRest
  <2>14. PICK z \in Nat : z = x.money BY <2>12
  <2>15. w + z = z + w OBVIOUS
  <2>16. Money(F(s)) = Money(s) BY <2>1, <2>2, <2>3, <2>5, <2>6, <2>7, <2>9, <2>10, <2>12, <2>13, <2>14, <2>15
  <2> QED BY <2>5, <2>7, <2>9, <2>16
<1>7. R \in G
  <2> HIDE DEF G, R
  <2> QED BY <1>2, <1>5, <1>6, SubsetInduct
<1> QED BY <1>7 DEF GoingBack

LEMMA ClearedBalanced ==
    ASSUME NEW db \in Databases, NEW c \in Chars, Sound(db), NEW a, Cleared(a, db, c), Proper(a.mails)
    PROVE  Balanced(a)
<1> DEFINE K == {m \in db.mails : m.to # c}
           R == Returning(db, c)
           L == Losing(db, c)
           B == GoingBack(db, c)
<1>1. db.mails \in SUBSET Mails /\ Proper(db.mails) /\ Balanced(db) /\ db.gold \in [Chars -> Nat]
      /\ db.burnt \in Nat /\ a \in Databases
  BY DEF Databases, Sound, Cleared
<1>2. /\ K \in SUBSET db.mails /\ R \in SUBSET db.mails /\ L \in SUBSET db.mails
      /\ L \cap R = {} /\ db.mails \ K = L \cup R
  BY DEF Losing, Returning
<1>3. a.mails = K \cup B /\ a.gold = [db.gold EXCEPT ![c] = 0] /\ a.ah = db.ah
      /\ a.burnt = db.burnt + (db.gold[c] + Money(L))
  BY DEF Cleared
<1>4. Money(B) = Money(R) BY <1>1, MoneyTurned
<1>5. a.mails \in SUBSET Mails /\ B \in SUBSET a.mails /\ K \in SUBSET a.mails
  BY <1>1, <1>3 DEF Databases
<1>6. K \cap B = {}
  <2>1. ASSUME NEW t \in B, t \in K PROVE FALSE
    <3>1. PICK r \in R : r \in db.mails /\ r.to = c /\ t.id = r.id BY BackMails
    <3>2. t = r BY <1>1, <1>2, <2>1, <3>1 DEF Proper
    <3> QED BY <2>1, <3>1, <3>2
  <2> QED BY <2>1
<1> HIDE DEF K, R, L, B
<1>7. IsFiniteSet(B) /\ IsFiniteSet(K) /\ Money(B) \in Nat /\ Money(K) \in Nat
  BY <1>5, MailsFinite
<1>8. IsFiniteSet(L) /\ IsFiniteSet(R) /\ Money(L) \in Nat /\ Money(R) \in Nat /\ IsFiniteSet(db.mails)
  BY <1>1, <1>2, MailsFinite
<1>9. Money(a.mails) = Money(K) + Money(B)
  <2>1. K \in SUBSET Mails /\ B \in SUBSET Mails BY <1>5
  <2> QED BY <1>3, <1>6, <1>7, <2>1, MoneyAdded
<1>10. Money(db.mails \ K) = Money(L) + Money(R)
  <2>1. L \in SUBSET Mails /\ R \in SUBSET Mails BY <1>1, <1>2
  <2> QED BY <1>2, <1>8, <2>1, MoneyAdded
<1>11. Money(db.mails) = Money(K) + Money(db.mails \ K)
  BY <1>1, <1>2, <1>8, MoneyRest
<1>12. PICK l, r, k, b, g \in Nat : l = Money(L) /\ r = Money(R) /\ k = Money(K) /\ b = db.burnt /\ g = db.gold[c]
  BY <1>1, <1>7, <1>8
<1>13. PICK z \in Nat : z = 0 OBVIOUS
<1>14. z + (k + r) + (b + (g + l)) = g + (k + (l + r)) + b BY <1>13
<1>15. z + Money(a.mails) + a.burnt = db.gold[c] + Money(db.mails) + db.burnt
  BY <1>3, <1>4, <1>9, <1>10, <1>11, <1>12, <1>14
<1>16. a.gold = [db.gold EXCEPT ![c] = z] /\ a.ah = db.ah BY <1>3, <1>13
<1> QED BY <1>1, <1>15, <1>16, BalancedPurse

LEMMA ClearedSound ==
    ASSUME NEW db \in Databases, NEW c \in Chars, Sound(db), NEW a, Cleared(a, db, c)
    PROVE  Sound(a)
<1>0. db.inv \in [Chars -> SUBSET Items] BY DEF Databases
<1>1. /\ a.mails = {m \in db.mails : m.to # c} \cup GoingBack(db, c)
      /\ a.ah = db.ah /\ a.parted = db.parted
  BY DEF Cleared
<1>2. \A d \in Chars : a.inv[d] = IF d = c THEN {} ELSE db.inv[d] BY <1>0 DEF Cleared
<1>3. \A x : x \in a.gone <=> \/ x \in db.gone \/ x \in db.inv[c]
                              \/ \E m \in Losing(db, c) : x \in m.items
  BY DEF Cleared
<1>4. ASSUME NEW k \in a.mails
      PROVE  \/ k \in db.mails /\ k.to # c
             \/ \E r \in Returning(db, c) : r \in db.mails /\ k = Turned(r) /\ k.items = r.items /\ r.to = c
  BY <1>1, BackMails
<1>5. ASSUME NEW x \in Items PROVE Once(a, x)
  <2>1. Once(db, x) BY DEF Sound
  <2>2. CASE x \in db.inv[c]
    <3>1. /\ \A d \in Chars : x \in db.inv[d] => d = c
          /\ \A m \in db.mails : x \notin m.items
          /\ \A d \in Chars : <<d, x>> \notin db.parted
      BY <2>1, <2>2, OnceBag
    <3>2. \A k \in a.mails : x \notin k.items BY <1>4, <3>1
    <3>3. x \in a.gone BY <1>3, <2>2
    <3>4. \A d \in Chars : x \notin a.inv[d] BY <1>2, <3>1
    <3>5. \A d \in Chars : <<d, x>> \notin a.parted BY <1>1, <3>1
    <3> QED BY <3>2, <3>3, <3>4, <3>5, OnceElse
  <2>3. ASSUME NEW m \in Losing(db, c), x \in m.items PROVE Once(a, x)
    <3>0. m \in db.mails /\ m.to = c /\ m \notin Returning(db, c) BY DEF Losing
    <3>1. /\ \A d \in Chars : x \notin db.inv[d]
          /\ \A k \in db.mails : x \in k.items => k = m
          /\ \A d \in Chars : <<d, x>> \notin db.parted
      BY <2>1, <2>3, <3>0, OncePost
    <3>2. \A k \in a.mails : x \notin k.items BY <1>4, <3>0, <3>1
    <3>3. x \in a.gone BY <1>3, <2>3
    <3>4. \A d \in Chars : x \notin a.inv[d] BY <1>2, <3>1
    <3>5. \A d \in Chars : <<d, x>> \notin a.parted BY <1>1, <3>1
    <3> QED BY <3>2, <3>3, <3>4, <3>5, OnceElse
  <2>4. ASSUME NEW m \in Returning(db, c), x \in m.items PROVE Once(a, x)
    <3>0. m \in db.mails /\ m.to = c /\ m \notin Losing(db, c) BY DEF Losing, Returning
    <3>1. /\ x \notin db.gone /\ db.ah[x] = None
          /\ \A d \in Chars : x \notin db.inv[d]
          /\ \A k \in db.mails : x \in k.items => k = m
          /\ \A d \in Chars : <<d, x>> \notin db.parted
      BY <2>1, <2>4, <3>0, OncePost
    <3>2. PICK t : t = Turned(m) OBVIOUS
    <3>3. t \in a.mails BY <1>1, <3>2 DEF GoingBack
    <3>4. \A k \in a.mails : x \in k.items => k = t BY <1>4, <3>0, <3>1, <3>2
    <3>5. x \in t.items
      <4>1. m.from \in Chars /\ m \in Mails BY <3>0 DEF Returning, Exists, Databases
      <4> QED BY <2>4, <3>2, <4>1, TurnedMail
    <3>6. x \notin a.gone
      <4>1. \A k \in Losing(db, c) : x \notin k.items BY <3>0, <3>1 DEF Losing
      <4> QED BY <1>3, <3>1, <4>1
    <3>7. \A d \in Chars : x \notin a.inv[d] BY <1>2, <3>1
    <3>8. a.ah[x] = None /\ \A d \in Chars : <<d, x>> \notin a.parted BY <1>1, <3>1
    <3> QED BY <3>3, <3>4, <3>5, <3>6, <3>7, <3>8, OnceInPost
  <2>5. CASE /\ x \notin db.inv[c] /\ \A m \in Losing(db, c) : x \notin m.items
             /\ \A m \in Returning(db, c) : x \notin m.items
    <3>1. \A d \in Chars : x \in a.inv[d] <=> x \in db.inv[d] BY <1>2, <2>5
    <3>2. x \in a.gone <=> x \in db.gone BY <1>3, <2>5
    <3>3. ASSUME NEW k \in db.mails, x \in k.items PROVE k \in a.mails
      <4>1. k.to # c BY <2>5, <3>3 DEF Losing
      <4> QED BY <1>1, <4>1
    <3>4. ASSUME NEW k \in a.mails, x \in k.items PROVE k \in db.mails BY <1>4, <2>5, <3>4
    <3>5. Posts(a, x) = Posts(db, x) BY <3>3, <3>4 DEF Posts
    <3>6. Alike(a, db, x) BY <1>1, <3>1, <3>2, <3>5 DEF Alike
    <3> QED BY <2>1, <3>6, OnceAlike
  <2> QED BY <2>2, <2>3, <2>4, <2>5
<1>6. Proper(a.mails) BY <1>1, ClearedProper DEF Sound
<1>7. Balanced(a) BY <1>6, ClearedBalanced
<1> QED BY <1>5, <1>6, <1>7 DEF Sound

LEMMA DeleteCharacterRows ==
    ASSUME IInv, NEW c \in Chars, ~Races, DeleteCharacter(c),
           \A x \in Items : ah[x] # None => ah[x].owner # c
    PROVE  \E a : /\ Commit(<<a>>) /\ Cleared(a, Soon, c)
                  /\ box' = [d \in Chars |->
                       IF InWorld(d) THEN box[d] \cup {m \in GoingBack(Soon, c) : m.to = d} ELSE box[d]]
<1> DEFINE returned == {m \in Now.mails : m.to = c /\ m.items # {} /\ m.cod > 0 /\ m.from # House}
           back == {Turned(m) : m \in {r \in returned : Exists(r.from)}}
           kept == {m \in Soon.mails : m.to # c}
           lost == {m \in Soon.mails : m.to = c /\ \A r \in returned : r.id # m.id}
                   \cup {m \in returned : ~Exists(m.from)}
           sold == {x \in Auctioned(Soon) : Soon.ah[x].owner = c}
           things == Soon.inv[c] \cup (UNION {m.items : m \in lost}) \cup sold
           money == Soon.gold[c] + Money(lost)
           e == Destroy(Soon, things, money)
           a == [e EXCEPT !.mails = kept \cup back, !.gold[c] = 0, !.inv[c] = {}, !.chars = @ \ {c}]
<1>1. /\ Len(log) = 1 /\ Commit(<<a>>)
      /\ box' = [d \in Chars |->
                   IF InWorld(d) THEN box[d] \cup {m \in back : m.to = d} ELSE box[d]]
  BY DEF DeleteCharacter
<1>2. Now = Soon /\ Soon \in Databases /\ Proper(Soon.mails) /\ Soon.mails \in SUBSET Mails
  BY <1>1, Basics DEF Sound
<1>3. back = GoingBack(Soon, c) BY <1>2 DEF GoingBack, Returning
<1>4. lost = Losing(Soon, c)
  <2>1. returned \subseteq Soon.mails /\ \A m \in returned : m.to = c BY <1>2
  <2>2. Returning(Soon, c) = {r \in returned : Exists(r.from)} BY <1>2 DEF Returning
  <2>3. \A m \in Soon.mails : (\A r \in returned : r.id # m.id) <=> m \notin returned
    BY <1>2, <2>1 DEF Proper
  <2> HIDE DEF returned
  <2> QED BY <2>1, <2>2, <2>3 DEF Losing
<1> HIDE DEF back, lost
<1>5. Losing(Soon, c) \in SUBSET Soon.mails BY DEF Losing
<1>6. Money(lost) \in Nat BY <1>2, <1>4, <1>5, MailsFinite
<1>7. /\ Soon.gold \in [Chars -> Nat] /\ Soon.inv \in [Chars -> SUBSET Items]
      /\ Soon.chars \in SUBSET Chars
  BY <1>2 DEF Databases
<1>8. money \in Nat BY <1>6, <1>7
<1>9. ASSUME NEW x \in sold PROVE x \in Soon.gone
  <2>1. x \in Items /\ Soon.ah[x] # None /\ Soon.ah[x].owner = c BY DEF Auctioned
  <2>2. Listed(x) BY <2>1 DEF IInv
  <2> QED BY <2>1, <2>2 DEF Listed
<1>10. UNION {m.items : m \in lost} \in SUBSET Items
  <2>1. \A m \in lost : m.items \in SUBSET Items BY <1>2, <1>4, <1>5 DEF Mails
  <2> QED BY <2>1
<1>0. PICK L \in SUBSET Items : L = UNION {m.items : m \in lost} BY <1>10
<1>a. PICK D \in SUBSET Items : D = sold /\ D \subseteq Soon.gone
  <2>1. sold \in SUBSET Items BY DEF Auctioned
  <2>2. sold \subseteq Soon.gone BY <1>9
  <2> QED BY <2>1, <2>2
<1>b. things = Soon.inv[c] \cup L \cup D
  <2>1. L = UNION {m.items : m \in lost} BY <1>0
  <2>2. D = sold BY <1>a
  <2> HIDE DEF sold
  <2> QED BY <2>1, <2>2
<1> HIDE DEF things
<1>11. things \in SUBSET Items BY <1>7, <1>b
<1>12. Soon.gone \cup things = Soon.gone \cup Soon.inv[c] \cup UNION {m.items : m \in Losing(Soon, c)}
  <2>1. Soon.gone \cup things = Soon.gone \cup Soon.inv[c] \cup L BY <1>a, <1>b
  <2> QED BY <1>0, <1>4, <2>1
<1>c. money = Soon.gold[c] + Money(Losing(Soon, c)) BY <1>4
<1> HIDE DEF money
<1>13. /\ e \in Databases /\ e.gone = Soon.gone \cup things /\ e.burnt = Soon.burnt + money
       /\ e.gold = Soon.gold /\ e.inv = Soon.inv
       /\ e.mails = Soon.mails /\ e.ah = Soon.ah /\ e.parted = Soon.parted /\ e.chars = Soon.chars
  BY <1>2, <1>8, <1>11, Destroyed
<1> HIDE DEF e
<1>14. PICK M \in SUBSET Mails : M = kept \cup back
  <2>1. \A t \in GoingBack(Soon, c) : t \in Mails BY <1>2, BackMails
  <2> QED BY <1>2, <1>3, <2>1
<1>15. PICK g \in [Chars -> Nat] : g = [e.gold EXCEPT ![c] = 0] BY <1>7, <1>13
<1>16. PICK i \in [Chars -> SUBSET Items] : i = [e.inv EXCEPT ![c] = {}] BY <1>7, <1>13
<1>17. PICK h \in SUBSET Chars : h = e.chars \ {c} BY <1>13 DEF Databases
<1>18. a = [e EXCEPT !.mails = M, !.gold = g, !.inv = i, !.chars = h]
  BY <1>13, <1>14, <1>15, <1>16, <1>17 DEF Databases
<1>19. /\ a \in Databases /\ a.mails = M /\ a.gold = g /\ a.inv = i
       /\ a.ah = e.ah /\ a.parted = e.parted /\ a.gone = e.gone /\ a.burnt = e.burnt
       /\ a.chars = Soon.chars \ {c}
  <2> HIDE DEF a
  <2> QED BY <1>13, <1>17, <1>18 DEF Databases
<1> HIDE DEF a
<1>20. Cleared(a, Soon, c)
  <2>1. a.mails = {m \in Soon.mails : m.to # c} \cup GoingBack(Soon, c) BY <1>3, <1>14, <1>19
  <2>2. a.gold = [Soon.gold EXCEPT ![c] = 0] /\ a.inv = [Soon.inv EXCEPT ![c] = {}]
    BY <1>13, <1>15, <1>16, <1>19
  <2>3. a.gone = Soon.gone \cup Soon.inv[c] \cup UNION {m.items : m \in Losing(Soon, c)}
    BY <1>12, <1>13, <1>19
  <2>4. a.ah = Soon.ah /\ a.parted = Soon.parted /\ a \in Databases BY <1>13, <1>19
  <2>5. a.burnt = Soon.burnt + (Soon.gold[c] + Money(Losing(Soon, c))) BY <1>c, <1>13, <1>19
  <2>6. a.chars = Soon.chars \ {c} BY <1>19
  <2> QED BY <2>1, <2>2, <2>3, <2>4, <2>5, <2>6 DEF Cleared
<1> QED BY <1>1, <1>3, <1>20

LEMMA DeleteCharacterStep ==
    ASSUME IInv, NEW c \in Chars, ~Races, DeleteCharacter(c),
           \A x \in Items : ah[x] # None => ah[x].owner # c, UNCHANGED ah
    PROVE  IInv'
<1>1. PICK a : /\ Commit(<<a>>) /\ Cleared(a, Soon, c)
               /\ box' = [d \in Chars |->
                    IF InWorld(d) THEN box[d] \cup {m \in GoingBack(Soon, c) : m.to = d} ELSE box[d]]
  BY DeleteCharacterRows
<1>2. /\ status[c] = "offline"
      /\ status' = [status EXCEPT ![c] = "gone"]
      /\ UNCHANGED <<ahead, gold, inv, deleted>>
  BY DEF DeleteCharacter
<1>3. Soon \in Databases /\ Sound(Soon) BY Basics
<1>4. Sound(a) BY <1>1, <1>3, ClearedSound
<1>5. /\ a \in Databases /\ a.mails = {m \in Soon.mails : m.to # c} \cup GoingBack(Soon, c)
      /\ a.gold = [Soon.gold EXCEPT ![c] = 0] /\ a.inv = [Soon.inv EXCEPT ![c] = {}]
      /\ a.ah = Soon.ah
      /\ a.gone = Soon.gone \cup Soon.inv[c] \cup UNION {m.items : m \in Losing(Soon, c)}
  BY <1>1 DEF Cleared
<1>6. Grown /\ Soon' = a /\ \A n \in Added : log'[n] = a BY <1>1, <1>5, Basics, OneMore
<1>7. Soon.gold \in [Chars -> Nat] /\ Soon.inv \in [Chars -> SUBSET Items] BY <1>3 DEF Databases
<1>8. TypeOK BY DEF IInv
<1>9. status \in [Chars -> Statuses] /\ box \in [Chars -> SUBSET Mails] BY <1>8 DEF TypeOK
<1>10. ASSUME NEW d \in Chars PROVE Member(d)'
  <2>1. Member(d) BY DEF IInv
  <2>2. box'[d] = IF InWorld(d) THEN box[d] \cup {m \in GoingBack(Soon, c) : m.to = d} ELSE box[d]
    BY <1>1
  <2>3. CASE d = c
    <3>1. status'[d] = "gone" /\ box'[d] = {} /\ deleted'[d] = {}
      BY <1>2, <1>9, <2>1, <2>2, <2>3 DEF Member, InWorld
    <3> QED BY <3>1 DEF Member
  <2>4. CASE d # c
    <3>1. status'[d] = status[d] BY <1>2, <1>9, <2>4
    <3>2. a.gold[d] = Soon.gold[d] /\ a.inv[d] = Soon.inv[d] BY <1>5, <1>7, <2>4
    <3>3. MailsOf(Soon, d) \subseteq a.mails BY <1>5, <2>4 DEF MailsOf
    <3>4. MailsOf(a, d) \subseteq a.mails BY DEF MailsOf
    <3>5. {m \in GoingBack(Soon, c) : m.to = d} \subseteq MailsOf(a, d) BY <1>5 DEF MailsOf
    <3>6. /\ box[d] \subseteq box'[d] /\ box'[d] \subseteq box[d] \cup MailsOf(a, d)
          /\ InWorld(d) \/ box'[d] = box[d]
      BY <2>2, <3>5
    <3>7. Stays(d) BY <1>2, <1>6, <3>1, <3>2, <3>3, <3>4, <3>6 DEF Stays
    <3> QED BY <1>6, <2>1, <3>7, Basics, StaysMember
  <2> QED BY <2>3, <2>4
<1>11. \A x \in Items : Listed(x)'
  <2>1. ASSUME NEW x \in Items, ah[x] # None PROVE x \notin a.gone
    <3>1. x \notin Soon.gone /\ Soon.ah[x] # None BY <2>1 DEF IInv, Listed
    <3>2. Once(Soon, x) BY <1>3 DEF Sound
    <3>3. (\A d \in Chars : x \notin Soon.inv[d]) /\ \A k \in Soon.mails : x \notin k.items
      BY <3>1, <3>2, OnceSale
    <3>4. x \notin UNION {m.items : m \in Losing(Soon, c)} BY <3>3 DEF Losing
    <3> QED BY <1>5, <3>1, <3>3, <3>4
  <2>2. Soon.gone \subseteq a.gone BY <1>5
  <2> QED BY <1>5, <1>6, <2>1, <2>2, ListedSame
<1>12. \A n \in Added : Sound(log'[n]) BY <1>4, <1>6
<1>13. status' \in [Chars -> Statuses] BY <1>2, <1>9 DEF Statuses
<1>14. box' \in Boxes
  <2>1. \A t \in GoingBack(Soon, c) : t \in Mails BY <1>3, BackMails
  <2>2. ASSUME NEW d \in Chars PROVE {m \in GoingBack(Soon, c) : m.to = d} \in SUBSET Mails BY <2>1
  <2> QED BY <1>1, <1>9, <2>2 DEF Boxes
<1> QED BY <1>2, <1>6, <1>8, <1>10, <1>11, <1>12, <1>13, <1>14, Together DEF TypeOK

-----------------------------------------------------------------------------
(* The auctions.                                                            *)

\* The auction of x becomes v in memory and in the rows.
LEMMA ListedDeal ==
    ASSUME IInv, NEW x \in Items, NEW v, NEW a, Soon' = a,
           ah' = [ah EXCEPT ![x] = v], a.ah = [Soon.ah EXCEPT ![x] = v],
           Soon.gone \subseteq a.gone, a.gone \subseteq Soon.gone \cup {x},
           v # None => x \notin a.gone
    PROVE  \A y \in Items : Listed(y)'
<1>1. ah \in [Items -> Auctions \cup {None}] BY DEF IInv, TypeOK
<1>2. Soon.ah \in [Items -> Auctions \cup {None}] BY Basics DEF Databases
<1>3. ASSUME NEW y \in Items PROVE Listed(y)'
  <2>1. Listed(y) BY DEF IInv
  <2>2. CASE y = x
    <3>1. ah'[y] = v /\ a.ah[y] = v BY <1>1, <1>2, <2>2
    <3> QED BY <2>2, <3>1 DEF Listed
  <2>3. CASE y # x
    <3>1. ah'[y] = ah[y] /\ a.ah[y] = Soon.ah[y] /\ (y \in a.gone <=> y \in Soon.gone)
      BY <1>1, <1>2, <2>3
    <3> QED BY <2>1, <3>1 DEF Listed
  <2> QED BY <2>2, <2>3
<1> QED BY <1>3

\* What an operation on the auction of x does: mails N are sent, the auction
\* becomes v, and the rows of who is concerned follow his memory.
Dealing(a, st, N, x, v) ==
    /\ Mailing(st, N) /\ a \in Databases /\ a.mails = Soon.mails \cup N
    /\ Grown /\ Soon' = a /\ \A n \in Added : Sound(log'[n]) /\ log'[n].mails \subseteq a.mails
    /\ box' = st.box /\ UNCHANGED <<status, ahead, deleted>>
    /\ gold' \in [Chars -> Nat] /\ inv' \in [Chars -> SUBSET Items]
    /\ \A d \in Chars :
          \/ /\ gold'[d] = gold[d] /\ inv'[d] = inv[d]
             /\ a.gold[d] = Soon.gold[d] /\ a.inv[d] = Soon.inv[d]
             /\ \A n \in Added : log'[n].gold[d] = Soon.gold[d] /\ log'[n].inv[d] = Soon.inv[d]
          \/ InWorld(d) /\ gold'[d] = a.gold[d] /\ inv'[d] = a.inv[d]
    /\ v \in Auctions \cup {None}
    /\ ah' = [ah EXCEPT ![x] = v] /\ a.ah = [Soon.ah EXCEPT ![x] = v]
    /\ Soon.gone \subseteq a.gone /\ a.gone \subseteq Soon.gone \cup {x}
    /\ v # None => x \notin a.gone

LEMMA DealingStep ==
    ASSUME IInv, NEW a, NEW st, NEW N, NEW x \in Items, NEW v, Dealing(a, st, N, x, v)
    PROVE  IInv'
<1>1. \A y \in Items : Listed(y)'
  <2>1. /\ Soon' = a /\ ah' = [ah EXCEPT ![x] = v] /\ a.ah = [Soon.ah EXCEPT ![x] = v]
        /\ Soon.gone \subseteq a.gone /\ a.gone \subseteq Soon.gone \cup {x}
        /\ (v # None => x \notin a.gone)
    BY DEF Dealing
  <2> QED BY <2>1, ListedDeal
<1>2. \A d \in Chars : Member(d)'
  <2>1. /\ Mailing(st, N) /\ Grown /\ Soon'.mails = Soon.mails \cup N /\ box' = st.box
        /\ UNCHANGED <<status, ahead, deleted>>
        /\ \A n \in Added : log'[n].mails \subseteq Soon'.mails
    BY DEF Dealing
  <2>2. \A d \in Chars :
          \/ /\ gold'[d] = gold[d] /\ inv'[d] = inv[d]
             /\ Soon'.gold[d] = Soon.gold[d] /\ Soon'.inv[d] = Soon.inv[d]
             /\ \A n \in Added : log'[n].gold[d] = Soon.gold[d] /\ log'[n].inv[d] = Soon.inv[d]
          \/ InWorld(d) /\ gold'[d] = Soon'.gold[d] /\ inv'[d] = Soon'.inv[d]
    BY DEF Dealing
  <2> QED BY <2>1, <2>2, Delivered
<1>3. TypeOK BY DEF IInv
<1>4. ah' \in [Items -> Auctions \cup {None}] BY <1>3 DEF TypeOK, Dealing
<1>5. /\ Grown /\ \A n \in Added : Sound(log'[n])
      /\ UNCHANGED <<status, ahead, deleted>>
      /\ gold' \in [Chars -> Nat] /\ inv' \in [Chars -> SUBSET Items] /\ box' \in Boxes
  BY DEF Dealing, Mailing
<1> QED BY <1>1, <1>2, <1>3, <1>4, <1>5, Together DEF TypeOK

\* The money in the mails M to c.
Post(M, c) == Money({m \in M : m.to = c})

\* Who keeps his mails keeps their money.
LEMMA PostKept ==
    ASSUME NEW M \in SUBSET Mails, Proper(M), NEW c, NEW S, {m \in S : m.to = c} \subseteq M
    PROVE  Post(S, c) <= Post(M, c) /\ Post(S, c) \in Nat /\ Post(M, c) \in Nat
<1>1. PICK P \in SUBSET M : P = {m \in M : m.to = c} OBVIOUS
<1>2. PICK K \in SUBSET P : K = {m \in S : m.to = c} BY <1>1
<1>3. IsFiniteSet(P) /\ Money(P) \in Nat BY MailsFinite
<1>4. K \in SUBSET M /\ P \ K \in SUBSET M /\ P \in SUBSET Mails OBVIOUS
<1>5. Money(K) \in Nat /\ Money(P \ K) \in Nat BY <1>4, MailsFinite
<1>6. Money(P) = Money(K) + Money(P \ K) BY <1>3, <1>4, MoneyRest
<1>7. Money(K) <= Money(P) BY <1>3, <1>5, <1>6
<1> QED BY <1>1, <1>2, <1>3, <1>5, <1>7 DEF Post

LEMMA PostAdded ==
    ASSUME NEW M \in SUBSET Mails, Proper(M), NEW N \in SUBSET Mails, IsFiniteSet(N),
           M \cap N = {}, NEW c
    PROVE  /\ Post(M \cup N, c) = Post(M, c) + Post(N, c)
           /\ Post(M, c) \in Nat /\ Post(N, c) \in Nat
<1>1. PICK P \in SUBSET Mails : P = {m \in M : m.to = c} OBVIOUS
<1>2. PICK K \in SUBSET Mails : K = {m \in N : m.to = c} OBVIOUS
<1>3. IsFiniteSet(P) /\ Money(P) \in Nat
  <2>1. P \in SUBSET M BY <1>1
  <2> QED BY <2>1, MailsFinite
<1>4. IsFiniteSet(K) /\ Money(K) \in Nat
  <2>1. IsFiniteSet(K) BY <1>2, FS_Subset
  <2> QED BY <2>1, MoneyRest
<1>5. P \cap K = {} BY <1>1, <1>2
<1>6. Money(P \cup K) = Money(P) + Money(K) BY <1>3, <1>4, <1>5, MoneyAdded
<1>7. {m \in M \cup N : m.to = c} = P \cup K BY <1>1, <1>2
<1> QED BY <1>1, <1>2, <1>3, <1>4, <1>6, <1>7 DEF Post

\* The money in one mail, or none.
LEMMA PostOne ==
    ASSUME NEW c
    PROVE  /\ Post({}, c) = 0
           /\ \A k \in Mails : Post({k}, c) = IF k.to = c THEN k.money ELSE 0
<1>1. Post({}, c) = 0
  <2>1. {m \in {} : m.to = c} = {} OBVIOUS
  <2> QED BY <2>1, MoneyNone DEF Post
<1>2. ASSUME NEW k \in Mails PROVE Post({k}, c) = IF k.to = c THEN k.money ELSE 0
  <2>1. CASE k.to = c
    <3>1. {m \in {k} : m.to = c} = {k} BY <2>1
    <3> QED BY <2>1, <3>1, MoneyOne DEF Post
  <2>2. CASE k.to # c
    <3>1. {m \in {k} : m.to = c} = {} BY <2>2
    <3> QED BY <2>2, <3>1, MoneyNone DEF Post
  <2> QED BY <2>1, <2>2
<1> QED BY <1>1, <1>2

\* What a letter with this money, sent to `to', brings d.
Gets(to, money, d) == IF d = to /\ Exists(to) THEN money ELSE 0

\* The mails that were sent so far are of the house; they bring each d the
\* money P[d], and what went to nobody was lost.
Due(st, P) ==
    /\ st.db \in Databases /\ P \in [Chars -> Nat] /\ Soon.burnt <= st.db.burnt
    /\ \A k \in st.db.mails : k \notin Soon.mails => k.from = House /\ k.cod = 0
    /\ \A d \in Chars : Post(st.db.mails, d) = Post(Soon.mails, d) + P[d]

LEMMA DueHere ==
    ASSUME IInv
    PROVE  Due(Here, [d \in Chars |-> 0])
<1>1. PICK st : st = Here OBVIOUS
<1>2. st.db = Soon BY <1>1 DEF Here
<1>3. PICK P : P = [d \in Chars |-> 0] OBVIOUS
<1>4. P \in [Chars -> Nat] /\ \A d \in Chars : P[d] = 0 BY <1>3
<1>5. Soon.burnt \in Nat /\ Soon.mails \in SUBSET Mails /\ Proper(Soon.mails) BY Basics DEF Databases, Sound
<1>6. Soon.burnt <= st.db.burnt BY <1>2, <1>5
<1>7. ASSUME NEW d \in Chars PROVE Post(st.db.mails, d) = Post(Soon.mails, d) + P[d]
  <2>1. {m \in Soon.mails : m.to = d} \subseteq Soon.mails OBVIOUS
  <2>2. Post(Soon.mails, d) \in Nat BY <1>5, <2>1, PostKept
  <2> QED BY <1>2, <1>4, <2>2
<1>8. \A k \in st.db.mails : k \notin Soon.mails => k.from = House /\ k.cod = 0 BY <1>2
<1>9. Due(st, P) BY <1>2, <1>4, <1>6, <1>7, <1>8, Basics DEF Due
<1> QED BY <1>1, <1>3, <1>9

LEMMA DueHouse ==
    ASSUME IInv, NEW st, NEW N, Mailing(st, N), NEW P, Due(st, P),
           NEW to \in Chars, NEW money \in Nat, NEW items \in SUBSET Items,
           NEW n \in Nat \ {0}, Room(UsedIds \cup Ids(st.db.mails), n)
    PROVE  Due(HouseMail(st, to, money, items), [d \in Chars |-> P[d] + Gets(to, money, d)])
<1>1. PICK t : t = HouseMail(st, to, money, items) OBVIOUS
<1>2. PICK K \in SUBSET Mails : Posted(t, st, N, K, to, money, items, n) BY <1>1, MailingHouse
<1>3. PICK Q : Q = [d \in Chars |-> P[d] + Gets(to, money, d)] OBVIOUS
<1>4. P \in [Chars -> Nat] BY DEF Due
<1>5. \A d \in Chars : Gets(to, money, d) \in Nat BY DEF Gets
<1>6. Q \in [Chars -> Nat] /\ \A d \in Chars : Q[d] = P[d] + Gets(to, money, d) BY <1>3, <1>4, <1>5
<1>7. /\ t.db \in Databases /\ t.db.mails = st.db.mails \cup K /\ t.db.burnt \in Nat /\ st.db.burnt \in Nat
      /\ st.db.mails \in SUBSET Mails /\ Proper(st.db.mails)
  BY <1>2 DEF Posted, Mailing, Databases
<1>8. Soon.burnt <= st.db.burnt BY DEF Due
<1>9. Soon.burnt \in Nat /\ Soon.mails \in SUBSET Mails /\ Proper(Soon.mails) BY Basics DEF Databases, Sound
<1>10. Soon.burnt <= t.db.burnt
  <2>1. t.db.burnt = st.db.burnt \/ t.db.burnt = st.db.burnt + money BY <1>2 DEF Posted
  <2> QED BY <1>7, <1>8, <1>9, <2>1
<1>11. \A k \in t.db.mails : k \notin Soon.mails => k.from = House /\ k.cod = 0
  BY <1>2, <1>7 DEF Posted, Due
<1>12. ASSUME NEW d \in Chars PROVE Post(t.db.mails, d) = Post(Soon.mails, d) + Q[d]
  <2>1. Post(st.db.mails, d) = Post(Soon.mails, d) + P[d] BY DEF Due
  <2>2. PICK p \in Nat : p = P[d] BY <1>4
  <2>3. PICK q \in Nat : q = Gets(to, money, d) BY <1>5
  <2>4. Post(t.db.mails, d) = Post(st.db.mails, d) + q
    <3>1. st.db.mails \cap K = {} BY <1>2 DEF Posted
    <3>2. IsFiniteSet(K)
      <4>1. K \in SUBSET t.db.mails /\ t.db.mails \in SUBSET Mails /\ Proper(t.db.mails)
        BY <1>2, <1>7 DEF Posted, Mailing, Databases
      <4> QED BY <4>1, MailsFinite
    <3>3. /\ Post(st.db.mails \cup K, d) = Post(st.db.mails, d) + Post(K, d)
          /\ Post(st.db.mails, d) \in Nat /\ Post(K, d) \in Nat
      BY <1>7, <3>1, <3>2, PostAdded
    <3>4. Post(K, d) = q
      <4>1. CASE K = {}
        <5>1. Post(K, d) = 0 BY <4>1, PostOne
        <5>2. ~Exists(to) \/ money = 0 BY <1>2, <4>1 DEF Posted
        <5> QED BY <2>3, <5>1, <5>2 DEF Gets
      <4>2. CASE K # {}
        <5>1. PICK k \in K : TRUE BY <4>2
        <5>2. K = {k} /\ k \in Mails /\ k.to = to /\ k.money = money BY <1>2, <5>1 DEF Posted
        <5>3. Exists(to) BY <1>2, <4>2 DEF Posted
        <5>4. Post({k}, d) = IF k.to = d THEN k.money ELSE 0 BY <5>2, PostOne
        <5> QED BY <2>3, <5>2, <5>3, <5>4 DEF Gets
      <4> QED BY <4>1, <4>2
    <3> QED BY <1>7, <3>3, <3>4
  <2>5. Q[d] = p + q BY <1>6, <2>2, <2>3
  <2>6. Post(Soon.mails, d) \in Nat
    <3>1. {m \in Soon.mails : m.to = d} \subseteq Soon.mails OBVIOUS
    <3> QED BY <1>9, <3>1, PostKept
  <2>7. PICK s \in Nat : s = Post(Soon.mails, d) BY <2>6
  <2>8. (s + p) + q = s + (p + q) OBVIOUS
  <2> QED BY <2>1, <2>2, <2>4, <2>5, <2>7, <2>8
<1>13. Due(t, Q) BY <1>6, <1>7, <1>10, <1>11, <1>12 DEF Due
<1> QED BY <1>1, <1>3, <1>13

\* What is thrown away brings nobody anything.
LEMMA DueKeeps ==
    ASSUME IInv, NEW st, NEW N, Mailing(st, N), NEW P, Due(st, P), NEW money \in Nat
    PROVE  Due([st EXCEPT !.db = Destroy(@, {}, money)], P)
<1>1. PICK none \in SUBSET Items : none = {} OBVIOUS
<1>2. PICK t : t = [st EXCEPT !.db = Destroy(@, none, money)] OBVIOUS
<1>3. Mailing(t, N) /\ t.db.burnt = st.db.burnt + money
  <2>1. LET u == [st EXCEPT !.db = Destroy(@, none, money)]
        IN  Mailing(u, N) /\ u.db.gone = st.db.gone \cup none
            /\ u.db.chars = st.db.chars /\ u.db.burnt = st.db.burnt + money
    BY MailingDestroyed
  <2> QED BY <1>2, <2>1
<1>4. t.db.mails = st.db.mails BY <1>3 DEF Mailing
<1>5. st.db.burnt \in Nat /\ Soon.burnt \in Nat BY Basics DEF Mailing, Databases
<1>6. Soon.burnt <= st.db.burnt BY DEF Due
<1>7. Soon.burnt <= t.db.burnt BY <1>3, <1>5, <1>6
<1>9. t.db \in Databases BY <1>3 DEF Mailing
<1>8. Due(t, P) BY <1>4, <1>7, <1>9 DEF Due
<1> QED BY <1>1, <1>2, <1>8

\* The money in the mails, and what is spent.
Owed(db) == Money(db.mails) + db.burnt

\* Every mail that was sent so far has only money in it, which makes s; there
\* is room for n more.
Bearing(st, N, n, s) ==
    /\ Mailing(st, N) /\ st.db.gone = Soon.gone /\ \A k \in N : k.items = {}
    /\ Room(UsedIds \cup Ids(st.db.mails), n)
    /\ Owed(st.db) = s

\* The last of the mails has x in it, or x was destroyed.
Given(st, N, x, s) ==
    /\ Mailing(st, N) /\ Owed(st.db) = s /\ \A k \in N : k.items \subseteq {x}
    /\ \/ /\ st.db.gone = Soon.gone
          /\ \E k \in N : x \in k.items /\ \A l \in N : x \in l.items => l = k
       \/ st.db.gone = Soon.gone \cup {x} /\ \A k \in N : x \notin k.items

LEMMA OwedNat ==
    ASSUME NEW st, NEW N, Mailing(st, N)
    PROVE  Owed(st.db) \in Nat /\ Money(st.db.mails) \in Nat /\ st.db.burnt \in Nat
<1>1. PICK db \in Databases : db = st.db BY DEF Mailing
<1>2. db.mails \in SUBSET Mails /\ db.burnt \in Nat BY DEF Databases
<1>3. Proper(db.mails) BY <1>1 DEF Mailing
<1>4. Money(db.mails) \in Nat BY <1>2, <1>3, MailsFinite
<1> QED BY <1>1, <1>2, <1>4 DEF Owed

\* A letter of the house costs what is in it, whoever gets it.
LEMMA PostedOwed ==
    ASSUME NEW st, NEW N, Mailing(st, N), NEW t, NEW K \in SUBSET Mails, NEW to, NEW money \in Nat,
           NEW items, NEW n, Posted(t, st, N, K, to, money, items, n)
    PROVE  Owed(t.db) = Owed(st.db) + money
<1>1. Money(st.db.mails) \in Nat /\ st.db.burnt \in Nat BY OwedNat
<1>2. PICK p, b \in Nat : p = Money(st.db.mails) /\ b = st.db.burnt BY <1>1
<1>3. t.db.mails = st.db.mails \cup K BY DEF Posted, Mailing
<1>4. st.db.mails \in SUBSET Mails /\ Proper(st.db.mails) BY DEF Mailing, Databases
<1>5. CASE K = {}
  <2>1. t.db.mails = st.db.mails BY <1>3, <1>5
  <2>2. CASE Exists(to)
    <3>1. money = 0 /\ t.db.burnt = st.db.burnt BY <1>5, <2>2 DEF Posted
    <3>2. p + b = (p + b) + money BY <3>1
    <3> QED BY <1>2, <2>1, <3>1, <3>2 DEF Owed
  <2>3. CASE ~Exists(to)
    <3>1. t.db.burnt = st.db.burnt + money BY <2>3 DEF Posted
    <3>2. p + (b + money) = (p + b) + money OBVIOUS
    <3> QED BY <1>2, <2>1, <3>1, <3>2 DEF Owed
  <2> QED BY <2>2, <2>3
<1>6. CASE K # {}
  <2>1. PICK k \in K : TRUE BY <1>6
  <2>2. K = {k} /\ k \in Mails /\ k \notin st.db.mails /\ k.money = money BY <2>1 DEF Posted
  <2>3. t.db.burnt = st.db.burnt BY <1>6 DEF Posted
  <2>4. Money(st.db.mails \cup {k}) = Money(st.db.mails) + k.money BY <1>4, <2>2, MoneyPlus
  <2>5. Money(t.db.mails) = p + money BY <1>2, <1>3, <2>2, <2>4
  <2>6. (p + money) + b = (p + b) + money OBVIOUS
  <2> QED BY <1>2, <2>3, <2>5, <2>6 DEF Owed
<1> QED BY <1>5, <1>6

LEMMA HousePays ==
    ASSUME NEW st, NEW N, NEW n \in Nat \ {0}, NEW s, Bearing(st, N, n, s),
           NEW to \in Chars, NEW money \in Nat
    PROVE  \E K : Bearing(HouseMail(st, to, money, {}), K, n - 1, s + money)
<1>1. PICK items \in SUBSET Items : items = {} OBVIOUS
<1>2. PICK t : t = HouseMail(st, to, money, items) OBVIOUS
<1>3. Mailing(st, N) /\ Room(UsedIds \cup Ids(st.db.mails), n) BY DEF Bearing
<1>4. PICK K \in SUBSET Mails : Posted(t, st, N, K, to, money, items, n)
  <2>1. \E K \in SUBSET Mails :
           Posted(HouseMail(st, to, money, items), st, N, K, to, money, items, n)
    BY <1>3, MailingHouse
  <2> QED BY <1>2, <2>1
<1>5. t.db.gone = Soon.gone BY <1>1, <1>4 DEF Bearing, Posted
<1>6. \A k \in N \cup K : k.items = {} BY <1>1, <1>4 DEF Bearing, Posted
<1>7. Owed(t.db) = Owed(st.db) + money BY <1>3, <1>4, PostedOwed
<1>8. Owed(t.db) = s + money BY <1>7 DEF Bearing
<1>9. Bearing(t, N \cup K, n - 1, s + money) BY <1>4, <1>5, <1>6, <1>8 DEF Bearing, Posted
<1> QED BY <1>1, <1>2, <1>9

LEMMA HouseKeeps ==
    ASSUME NEW st, NEW N, NEW n, NEW s, Bearing(st, N, n, s), NEW money \in Nat
    PROVE  Bearing([st EXCEPT !.db = Destroy(@, {}, money)], N, n, s + money)
<1>1. PICK none \in SUBSET Items : none = {} OBVIOUS
<1>2. Mailing(st, N) BY DEF Bearing
<1>3. PICK t : t = [st EXCEPT !.db = Destroy(@, none, money)] OBVIOUS
<1>4. Mailing(t, N) /\ t.db.gone = st.db.gone \cup none /\ t.db.burnt = st.db.burnt + money
  <2>1. LET u == [st EXCEPT !.db = Destroy(@, none, money)]
        IN  Mailing(u, N) /\ u.db.gone = st.db.gone \cup none
            /\ u.db.chars = st.db.chars /\ u.db.burnt = st.db.burnt + money
    BY <1>2, MailingDestroyed
  <2> QED BY <1>3, <2>1
<1>5. t.db.mails = st.db.mails BY <1>2, <1>4 DEF Mailing
<1>8. Owed(t.db) = s + money
  <2>1. PICK p, b \in Nat : p = Money(st.db.mails) /\ b = st.db.burnt BY <1>2, OwedNat
  <2>2. p + (b + money) = (p + b) + money OBVIOUS
  <2> QED BY <1>4, <1>5, <2>1, <2>2 DEF Bearing, Owed
<1>6. Bearing(t, N, n, s + money) BY <1>1, <1>4, <1>5, <1>8 DEF Bearing
<1>7. t = [st EXCEPT !.db = Destroy(@, {}, money)] BY <1>1, <1>3
<1> QED BY <1>6, <1>7

\* x is in the mail to the heir, if he is there to get it.
Inherits(st, N, x, to) ==
    /\ \A k \in N : x \in k.items => k.to = to
    /\ st.db.gone = IF Exists(to) THEN Soon.gone ELSE Soon.gone \cup {x}

LEMMA HouseGives ==
    ASSUME NEW st, NEW N, NEW n \in Nat \ {0}, NEW s, Bearing(st, N, n, s),
           NEW to \in Chars, NEW x \in Items
    PROVE  \E K : /\ Given(HouseMail(st, to, 0, {x}), K, x, s)
                  /\ Inherits(HouseMail(st, to, 0, {x}), K, x, to)
<1>1. PICK items \in SUBSET Items : items = {x} OBVIOUS
<1>2. PICK zero \in Nat : zero = 0 OBVIOUS
<1>3. PICK t : t = HouseMail(st, to, zero, items) OBVIOUS
<1>4. Mailing(st, N) /\ Room(UsedIds \cup Ids(st.db.mails), n) BY DEF Bearing
<1>5. PICK K \in SUBSET Mails : Posted(t, st, N, K, to, zero, items, n)
  <2>1. \E K \in SUBSET Mails :
           Posted(HouseMail(st, to, zero, items), st, N, K, to, zero, items, n)
    BY <1>4, MailingHouse
  <2> QED BY <1>3, <2>1
<1>6. st.db.gone = Soon.gone /\ \A k \in N : k.items = {} BY DEF Bearing
<1>7. \A k \in N \cup K : k.items \subseteq {x} BY <1>1, <1>5, <1>6 DEF Posted
<1>a. Owed(t.db) = s
  <2>1. Owed(t.db) = Owed(st.db) + zero BY <1>4, <1>5, PostedOwed
  <2>2. PICK o \in Nat : o = Owed(st.db) BY <1>4, OwedNat
  <2>3. o + 0 = o OBVIOUS
  <2> QED BY <1>2, <2>1, <2>2, <2>3 DEF Bearing
<1>8. CASE Exists(to)
  <2>1. PICK k \in K : TRUE BY <1>1, <1>5, <1>8 DEF Posted
  <2>2. x \in k.items /\ \A l \in N \cup K : x \in l.items => l = k BY <1>1, <1>5, <1>6, <2>1 DEF Posted
  <2>3. t.db.gone = Soon.gone BY <1>5, <1>6, <1>8 DEF Posted
  <2>4. Given(t, N \cup K, x, s) BY <1>5, <1>a, <1>7, <2>2, <2>3 DEF Given, Posted
  <2>5. Inherits(t, N \cup K, x, to) BY <1>5, <1>6, <1>8, <2>3 DEF Inherits, Posted
  <2> QED BY <1>1, <1>2, <1>3, <2>4, <2>5
<1>9. CASE ~Exists(to)
  <2>1. t.db.gone = Soon.gone \cup {x} /\ \A k \in N \cup K : x \notin k.items
    BY <1>1, <1>5, <1>6, <1>9 DEF Posted
  <2>2. Given(t, N \cup K, x, s) BY <1>5, <1>a, <1>7, <2>1 DEF Given, Posted
  <2>3. Inherits(t, N \cup K, x, to) BY <1>9, <2>1 DEF Inherits
  <2> QED BY <1>1, <1>2, <1>3, <2>2, <2>3
<1> QED BY <1>8, <1>9

\* The mail with the item brings no money.
LEMMA DueGives ==
    ASSUME IInv, NEW st, NEW N, NEW n \in Nat \ {0}, NEW s, Bearing(st, N, n, s), NEW P, Due(st, P),
           NEW to \in Chars, NEW x \in Items
    PROVE  Due(HouseMail(st, to, 0, {x}), P)
<1>1. PICK items \in SUBSET Items : items = {x} OBVIOUS
<1>2. PICK zero \in Nat : zero = 0 OBVIOUS
<1>3. Mailing(st, N) /\ Room(UsedIds \cup Ids(st.db.mails), n) BY DEF Bearing
<1>4. PICK Q : Q = [d \in Chars |-> P[d] + Gets(to, zero, d)] OBVIOUS
<1>5. Due(HouseMail(st, to, zero, items), Q) BY <1>3, <1>4, DueHouse
<1>6. P \in [Chars -> Nat] BY DEF Due
<1>7. \A d \in Chars : Gets(to, zero, d) = 0 BY <1>2 DEF Gets
<1>8. \A d \in Chars : P[d] + Gets(to, zero, d) = P[d] BY <1>6, <1>7
<1>9. Q = P BY <1>4, <1>6, <1>8
<1> QED BY <1>1, <1>2, <1>5, <1>9

LEMMA GivenKeeps ==
    ASSUME NEW st, NEW N, NEW x, NEW s, Given(st, N, x, s), NEW money \in Nat
    PROVE  Given([st EXCEPT !.db = Destroy(@, {}, money)], N, x, s + money)
<1>1. PICK none \in SUBSET Items : none = {} OBVIOUS
<1>2. Mailing(st, N) BY DEF Given
<1>3. PICK t : t = [st EXCEPT !.db = Destroy(@, none, money)] OBVIOUS
<1>4. Mailing(t, N) /\ t.db.gone = st.db.gone \cup none /\ t.db.burnt = st.db.burnt + money
  <2>1. LET u == [st EXCEPT !.db = Destroy(@, none, money)]
        IN  Mailing(u, N) /\ u.db.gone = st.db.gone \cup none
            /\ u.db.chars = st.db.chars /\ u.db.burnt = st.db.burnt + money
    BY <1>2, MailingDestroyed
  <2> QED BY <1>3, <2>1
<1>5. t.db.gone = st.db.gone BY <1>1, <1>4
<1>8. Owed(t.db) = s + money
  <2>1. PICK p, b \in Nat : p = Money(st.db.mails) /\ b = st.db.burnt BY <1>2, OwedNat
  <2>2. p + (b + money) = (p + b) + money OBVIOUS
  <2>3. t.db.mails = st.db.mails BY <1>2, <1>4 DEF Mailing
  <2> QED BY <1>4, <2>1, <2>2, <2>3 DEF Given, Owed
<1>6. Given(t, N, x, s + money) BY <1>4, <1>5, <1>8 DEF Given
<1>7. t = [st EXCEPT !.db = Destroy(@, {}, money)] BY <1>1, <1>3
<1> QED BY <1>6, <1>7

LEMMA BearingHere ==
    ASSUME IInv, NEW n \in Nat, HasRoom(n)
    PROVE  Bearing(Here, {}, n, Owed(Soon))
<1>1. Here.db = Soon /\ Mailing(Here, {}) /\ Room(UsedIds \cup Ids(Soon.mails), n) BY Basics DEF Here
<1> QED BY <1>1 DEF Bearing

LEMMA BearingLess ==
    ASSUME NEW st, NEW N, NEW n \in Nat, NEW s, Bearing(st, N, n, s), NEW m \in Nat, m <= n
    PROVE  Bearing(st, N, m, s)
<1>1. PICK U : U = MailIds \ (UsedIds \cup Ids(st.db.mails)) OBVIOUS
<1>2. IsFiniteSet(U) BY <1>1, StoreAssumption, FS_Subset
<1>3. Cardinality(U) \in Nat BY <1>2, FS_CardinalityType
<1>4. Cardinality(U) >= n BY <1>1 DEF Bearing, Room
<1>5. Cardinality(U) >= m BY <1>3, <1>4
<1> QED BY <1>1, <1>5 DEF Bearing, Room


\* The auction of x is over, or has a new bid: the rows after it.
Deal(a, st, x, v, G) ==
    /\ a \in Databases /\ a.mails = st.db.mails /\ a.gone = st.db.gone
    /\ a.parted = Soon.parted /\ a.inv = Soon.inv
    /\ a.gold = G /\ a.ah = [Soon.ah EXCEPT ![x] = v] /\ a.chars = Soon.chars
    /\ st.db.burnt <= a.burnt

\* What is on sale is nowhere else.
LEMMA OnSale ==
    ASSUME IInv, NEW x \in Items, ah[x] # None
    PROVE  /\ x \notin Soon.gone /\ Soon.ah[x] = ah[x]
           /\ \A d \in Chars : x \notin Soon.inv[d]
           /\ \A k \in Soon.mails : x \notin k.items
           /\ \A d \in Chars : <<d, x>> \notin Soon.parted
<1>1. x \notin Soon.gone /\ Soon.ah[x] = ah[x] BY DEF IInv, Listed
<1>2. Once(Soon, x) BY Basics DEF Sound
<1>3. /\ \A d \in Chars : x \notin Soon.inv[d]
      /\ \A k \in Soon.mails : x \notin k.items
      /\ \A d \in Chars : <<d, x>> \notin Soon.parted
  BY <1>1, <1>2, OnceSale
<1> QED BY <1>1, <1>3

\* The other items are where they were.
LEMMA DealOthers ==
    ASSUME IInv, NEW x \in Items, NEW a, NEW st, NEW N, NEW v, NEW G, Deal(a, st, x, v, G),
           Mailing(st, N), \A k \in N : k.items \subseteq {x},
           Soon.gone \subseteq st.db.gone, st.db.gone \subseteq Soon.gone \cup {x},
           NEW y \in Items, y # x
    PROVE  Once(a, y)
<1>1. Once(Soon, y) BY Basics DEF Sound
<1>2. a.mails = Soon.mails \cup N BY DEF Deal, Mailing
<1>3. Posts(a, y) = Posts(Soon, y) BY <1>2 DEF Posts
<1>4. Soon.ah \in [Items -> Auctions \cup {None}] BY Basics DEF Databases
<1>5. a.ah[y] = Soon.ah[y] BY <1>4 DEF Deal
<1>6. /\ a.inv = Soon.inv /\ a.parted = Soon.parted /\ (y \in a.gone <=> y \in Soon.gone)
  BY DEF Deal
<1>7. Alike(a, Soon, y) BY <1>3, <1>5, <1>6 DEF Alike
<1> QED BY <1>1, <1>7, OnceAlike

LEMMA SoldSound ==
    ASSUME IInv, NEW x \in Items, ah[x] # None, NEW a, NEW st, NEW N, NEW G,
           Deal(a, st, x, None, G), NEW s, Given(st, N, x, s), Balanced(a)
    PROVE  Sound(a)
<1>1. Mailing(st, N) /\ \A k \in N : k.items \subseteq {x} BY DEF Given
<1>2. Soon.gone \subseteq st.db.gone /\ st.db.gone \subseteq Soon.gone \cup {x} BY DEF Given
<1>3. \A y \in Items : y # x => Once(a, y) BY <1>1, <1>2, DealOthers
<1>4. /\ x \notin Soon.gone
      /\ \A d \in Chars : x \notin Soon.inv[d]
      /\ \A k \in Soon.mails : x \notin k.items
      /\ \A d \in Chars : <<d, x>> \notin Soon.parted
  BY OnSale
<1>5. Soon.ah \in [Items -> Auctions \cup {None}] BY Basics DEF Databases
<1>6. /\ a.mails = Soon.mails \cup N /\ a.ah[x] = None /\ Proper(a.mails)
      /\ a.inv = Soon.inv /\ a.parted = Soon.parted /\ a.gone = st.db.gone
  BY <1>1, <1>5 DEF Deal, Mailing
<1>7. Once(a, x)
  <2>1. CASE st.db.gone = Soon.gone /\ \E k \in N : x \in k.items /\ \A l \in N : x \in l.items => l = k
    <3>1. PICK k \in N : x \in k.items /\ \A l \in N : x \in l.items => l = k BY <2>1
    <3>2. k \in a.mails /\ \A l \in a.mails : x \in l.items => l = k BY <1>4, <1>6, <3>1
    <3> QED BY <1>4, <1>6, <2>1, <3>1, <3>2, OnceInPost
  <2>2. CASE st.db.gone = Soon.gone \cup {x} /\ \A k \in N : x \notin k.items
    <3>1. x \in a.gone /\ \A l \in a.mails : x \notin l.items BY <1>4, <1>6, <2>2
    <3> QED BY <1>4, <1>6, <3>1, OnceElse
  <2> QED BY <2>1, <2>2 DEF Given
<1> QED BY <1>3, <1>6, <1>7 DEF Sound

LEMMA BidSound ==
    ASSUME IInv, NEW x \in Items, ah[x] # None, NEW a, NEW st, NEW N, NEW n, NEW v, v # None,
           NEW G, Deal(a, st, x, v, G), NEW s, Bearing(st, N, n, s), Balanced(a)
    PROVE  Sound(a)
<1>1. Mailing(st, N) /\ st.db.gone = Soon.gone /\ \A k \in N : k.items = {} BY DEF Bearing
<1>2. Soon.gone \subseteq st.db.gone /\ st.db.gone \subseteq Soon.gone \cup {x} BY <1>1
<1>3. \A k \in N : k.items \subseteq {x} BY <1>1
<1>4. \A y \in Items : y # x => Once(a, y) BY <1>1, <1>2, <1>3, DealOthers
<1>5. /\ \A d \in Chars : x \notin Soon.inv[d]
      /\ \A k \in Soon.mails : x \notin k.items
      /\ \A d \in Chars : <<d, x>> \notin Soon.parted
  BY OnSale
<1>6. Soon.ah \in [Items -> Auctions \cup {None}] BY Basics DEF Databases
<1>7. /\ a.mails = Soon.mails \cup N /\ a.ah[x] = v /\ Proper(a.mails)
      /\ a.inv = Soon.inv /\ a.parted = Soon.parted
  BY <1>1, <1>6 DEF Deal, Mailing
<1>8. \A k \in a.mails : x \notin k.items BY <1>1, <1>5, <1>7
<1>9. Once(a, x) BY <1>5, <1>7, <1>8, OnceElse
<1> QED BY <1>4, <1>7, <1>9 DEF Sound

\* The money that changes hands is the money there was.
LEMMA DealBalanced ==
    ASSUME IInv, NEW x \in Items, NEW a, NEW st, NEW N, Mailing(st, N),
           NEW v \in Auctions \cup {None}, v # None => v.owner # v.bidder,
           NEW c \in Chars, NEW g \in Nat, Deal(a, st, x, v, [Soon.gold EXCEPT ![c] = g]),
           g + Owed(a) + Value(v) = Soon.gold[c] + Owed(Soon) + Value(Soon.ah[x])
    PROVE  Balanced(a)
<1>1. PICK db \in Databases : db = Soon /\ Sound(db) BY Basics
<1>2. Balanced(db) /\ Proper(db.mails) BY <1>1 DEF Sound
<1>3. /\ a \in Databases /\ Proper(a.mails) /\ a.gold = [db.gold EXCEPT ![c] = g]
      /\ a.ah = [db.ah EXCEPT ![x] = v]
  BY <1>1 DEF Deal, Mailing
<1>4. /\ db.gold \in [Chars -> Nat] /\ db.ah \in [Items -> Auctions \cup {None}]
      /\ db.mails \in SUBSET Mails /\ a.mails \in SUBSET Mails
      /\ db.burnt \in Nat /\ a.burnt \in Nat
  BY <1>3 DEF Databases
<1>5. Money(db.mails) \in Nat BY <1>2, <1>4, MailsFinite
<1>6. Money(a.mails) \in Nat BY <1>3, <1>4, MailsFinite
<1>7. Value(db.ah[x]) \in Nat /\ Value(v) \in Nat BY <1>4, ValuePut
<1>8. PICK h, p, q, b, d, u, w \in Nat : /\ h = db.gold[c] /\ p = Money(db.mails) /\ q = Money(a.mails)
                                       /\ b = db.burnt /\ d = a.burnt
                                       /\ u = Value(db.ah[x]) /\ w = Value(v)
  BY <1>4, <1>5, <1>6, <1>7
<1>9. g + (q + d) + w = h + (p + b) + u BY <1>1, <1>8 DEF Owed
<1>10. g + q + w + d = h + p + u + b BY <1>9
<1>11. g + Money(a.mails) + Value(v) + a.burnt
       = db.gold[c] + Money(db.mails) + Value(db.ah[x]) + db.burnt
  BY <1>8, <1>10
<1> QED BY <1>2, <1>3, <1>11, BalancedSale

\* The step: the states that are committed are a, and at most the rows before
\* the auction changed.
DealMade(a, st, N, x, v, G) ==
    /\ ah[x] # None /\ v \in Auctions \cup {None} /\ Deal(a, st, x, v, G)
    /\ \E s : \/ v = None /\ Given(st, N, x, s)
              \/ v # None /\ \E n : Bearing(st, N, n, s)
    /\ Grown /\ Soon' = a /\ Balanced(a)
    /\ \A n \in Added : \/ log'[n] = a
                        \/ /\ Sound(log'[n]) /\ log'[n].mails = Soon.mails
                           /\ log'[n].gold = Soon.gold /\ log'[n].inv = Soon.inv
    /\ \A d \in Chars : \/ gold'[d] = gold[d] /\ G[d] = Soon.gold[d]
                        \/ InWorld(d) /\ gold'[d] = G[d]
    /\ gold' \in [Chars -> Nat]
    /\ ah' = [ah EXCEPT ![x] = v] /\ box' = st.box
    /\ UNCHANGED <<status, ahead, inv, deleted>>

LEMMA DealStep ==
    ASSUME IInv, NEW x \in Items, NEW a, NEW st, NEW N, NEW v, NEW G, DealMade(a, st, N, x, v, G)
    PROVE  IInv'
<1> USE DEF DealMade
<1>1. Mailing(st, N) BY DEF Given, Bearing
<1>2. Sound(a)
  <2>1. ASSUME NEW s, v = None, Given(st, N, x, s) PROVE Sound(a) BY <2>1, SoldSound
  <2>2. ASSUME NEW s, v # None, NEW n, Bearing(st, N, n, s) PROVE Sound(a) BY <2>2, BidSound
  <2> QED BY <2>1, <2>2
<1>3. a.mails = Soon.mails \cup N BY <1>1 DEF Deal, Mailing
<1>4. x \notin Soon.gone BY OnSale
<1>5. /\ Soon.gone \subseteq a.gone /\ a.gone \subseteq Soon.gone \cup {x}
      /\ (v # None => x \notin a.gone)
  BY <1>4 DEF Deal, Given, Bearing
<1>6. a \in Databases /\ a.inv = Soon.inv /\ a.gold = G /\ a.ah = [Soon.ah EXCEPT ![x] = v]
  BY DEF Deal
<1>7. \A n \in Added : Sound(log'[n]) /\ log'[n].mails \subseteq a.mails BY <1>2, <1>3
<1>8. inv' \in [Chars -> SUBSET Items] BY DEF IInv, TypeOK
<1>9. ASSUME NEW d \in Chars
      PROVE  \/ /\ gold'[d] = gold[d] /\ inv'[d] = inv[d]
                /\ a.gold[d] = Soon.gold[d] /\ a.inv[d] = Soon.inv[d]
                /\ \A n \in Added : log'[n].gold[d] = Soon.gold[d] /\ log'[n].inv[d] = Soon.inv[d]
             \/ InWorld(d) /\ gold'[d] = a.gold[d] /\ inv'[d] = a.inv[d]
  <2>1. CASE gold'[d] = gold[d] /\ G[d] = Soon.gold[d] BY <1>6, <2>1
  <2>2. CASE InWorld(d) /\ gold'[d] = G[d]
    <3>1. inv[d] = Soon.inv[d] BY <2>2 DEF IInv, Member, Mirror, InWorld
    <3> QED BY <1>6, <2>2, <3>1
  <2> QED BY <2>1, <2>2
<1>10. Dealing(a, st, N, x, v) BY <1>1, <1>3, <1>5, <1>6, <1>7, <1>8, <1>9 DEF Dealing
<1> QED BY <1>10, DealingStep


\* The house takes no more than the bid.
LEMMA CutBound ==
    ASSUME NEW bid \in Nat
    PROVE  (bid * CutPercent) \div 100 \in Nat /\ (bid * CutPercent) \div 100 <= bid
<1>1. CutPercent \in Nat /\ CutPercent <= 100 BY AuctionAssumption
<1>2. PICK p : p = bid * CutPercent OBVIOUS
<1>3. p \in Nat BY <1>1, <1>2
<1>4. p <= bid * 100 BY <1>1, <1>2
<1>5. p \div 100 \in Nat /\ p \div 100 <= bid BY <1>3, <1>4
<1> QED BY <1>2, <1>5

\* An auction is a new row, in the state of one who has put it up.
LEMMA Auctioning ==
    ASSUME NEW db \in Databases, NEW x \in Items, NEW v \in Auctions \cup {None}
    PROVE  LET e == [db EXCEPT !.ah[x] = v]
           IN  /\ e \in Databases /\ e.ah = [db.ah EXCEPT ![x] = v]
               /\ e.gold = db.gold /\ e.inv = db.inv /\ e.mails = db.mails
               /\ e.parted = db.parted /\ e.gone = db.gone
               /\ e.chars = db.chars /\ e.burnt = db.burnt
BY DEF Databases

\* The rows after a bid.
LEMMA BidRows ==
    ASSUME IInv, NEW c \in Chars, InWorld(c), NEW st, NEW N, Mailing(st, N), NEW g \in Nat,
           NEW x \in Items, NEW v \in Auctions \cup {None}
    PROVE  LET a == [SaveInventoryAndGold(st.db, c, g, inv[c]) EXCEPT !.ah[x] = v]
           IN  Deal(a, st, x, v, [Soon.gold EXCEPT ![c] = g]) /\ Owed(a) = Owed(st.db)
<1>1. PICK db \in Databases : db = st.db BY DEF Mailing
<1>2. /\ db.gold = Soon.gold /\ db.inv = Soon.inv /\ db.ah = Soon.ah /\ db.parted = Soon.parted
      /\ db.chars = Soon.chars /\ db.burnt \in Nat
  BY <1>1 DEF Mailing, Databases
<1>3. PICK things \in SUBSET Items : things = inv[c] BY DEF IInv, TypeOK
<1>4. things = Soon.inv[c] BY <1>3 DEF IInv, Member, Mirror, InWorld
<1>5. PICK e : e = SaveInventoryAndGold(db, c, g, things) OBVIOUS
<1>6. /\ e \in Databases
      /\ e.gold = [db.gold EXCEPT ![c] = g]
      /\ e.inv = [db.inv EXCEPT ![c] = things]
      /\ e.mails = db.mails /\ e.ah = db.ah /\ e.parted = db.parted /\ e.gone = db.gone
      /\ e.burnt = db.burnt /\ e.chars = db.chars
  BY <1>5, Saved
<1>7. PICK a : a = [e EXCEPT !.ah[x] = v] OBVIOUS
<1>8. /\ a \in Databases /\ a.ah = [e.ah EXCEPT ![x] = v]
      /\ a.gold = e.gold /\ a.inv = e.inv /\ a.mails = e.mails
      /\ a.parted = e.parted /\ a.gone = e.gone /\ a.burnt = e.burnt /\ a.chars = e.chars
  BY <1>6, <1>7, Auctioning
<1>9. Soon.inv \in [Chars -> SUBSET Items] BY Basics DEF Databases
<1>10. a.inv = Soon.inv BY <1>2, <1>4, <1>6, <1>8, <1>9
<1>11. Deal(a, st, x, v, [Soon.gold EXCEPT ![c] = g])
  BY <1>1, <1>2, <1>6, <1>8, <1>10 DEF Deal
<1>12. Owed(a) = Owed(db) BY <1>6, <1>8 DEF Owed
<1> QED BY <1>1, <1>3, <1>5, <1>7, <1>11, <1>12

LEMMA StruckRows ==
    ASSUME IInv, NEW st, NEW N, Mailing(st, N), NEW x \in Items
    PROVE  Deal(Struck(st.db, x), st, x, None, Soon.gold) /\ Owed(Struck(st.db, x)) = Owed(st.db)
           /\ Struck(st.db, x).burnt = st.db.burnt
<1>1. PICK db \in Databases : db = st.db BY DEF Mailing
<1>2. /\ db.gold = Soon.gold /\ db.inv = Soon.inv /\ db.ah = Soon.ah /\ db.parted = Soon.parted
      /\ db.chars = Soon.chars /\ db.burnt \in Nat
  BY <1>1 DEF Mailing, Databases
<1>3. PICK v \in Auctions \cup {None} : v = None OBVIOUS
<1>4. PICK a : a = [db EXCEPT !.ah[x] = v] OBVIOUS
<1>5. /\ a \in Databases /\ a.ah = [db.ah EXCEPT ![x] = v]
      /\ a.gold = db.gold /\ a.inv = db.inv /\ a.mails = db.mails
      /\ a.parted = db.parted /\ a.gone = db.gone /\ a.burnt = db.burnt /\ a.chars = db.chars
  BY <1>4, Auctioning
<1>6. Deal(a, st, x, None, Soon.gold) BY <1>1, <1>2, <1>3, <1>5 DEF Deal
<1>7. Owed(a) = Owed(db) BY <1>5 DEF Owed
<1> QED BY <1>1, <1>3, <1>4, <1>5, <1>6, <1>7 DEF Struck

\* The rows after an auction was bought out or cancelled.
LEMMA OverRows ==
    ASSUME IInv, NEW c \in Chars, InWorld(c), NEW st, NEW N, Mailing(st, N), NEW g \in Nat,
           NEW x \in Items
    PROVE  LET a == SaveInventoryAndGold(Struck(st.db, x), c, g, inv[c])
           IN  /\ Deal(a, st, x, None, [Soon.gold EXCEPT ![c] = g])
               /\ a.burnt = st.db.burnt /\ Owed(a) = Owed(st.db)
<1>1. PICK db : db = Struck(st.db, x) OBVIOUS
<1>2. Deal(db, st, x, None, Soon.gold) /\ db.burnt = st.db.burnt BY <1>1, StruckRows
<1>3. /\ db \in Databases /\ db.mails = st.db.mails /\ db.gone = st.db.gone
      /\ db.parted = Soon.parted /\ db.inv = Soon.inv
      /\ db.gold = Soon.gold /\ db.ah = [Soon.ah EXCEPT ![x] = None]
      /\ db.chars = Soon.chars /\ db.burnt \in Nat
  BY <1>2 DEF Deal, Databases
<1>4. PICK things \in SUBSET Items : things = inv[c] BY DEF IInv, TypeOK
<1>5. things = Soon.inv[c] BY <1>4 DEF IInv, Member, Mirror, InWorld
<1>6. PICK e : e = SaveInventoryAndGold(db, c, g, things) OBVIOUS
<1>7. /\ e \in Databases
      /\ e.gold = [db.gold EXCEPT ![c] = g]
      /\ e.inv = [db.inv EXCEPT ![c] = things]
      /\ e.mails = db.mails /\ e.ah = db.ah /\ e.parted = db.parted /\ e.gone = db.gone
      /\ e.burnt = db.burnt /\ e.chars = db.chars
  BY <1>3, <1>6, Saved
<1>8. Soon.inv \in [Chars -> SUBSET Items] BY Basics DEF Databases
<1>9. e.inv = Soon.inv BY <1>3, <1>5, <1>7, <1>8
<1>10. Deal(e, st, x, None, [Soon.gold EXCEPT ![c] = g])
  <2>1. st.db.burnt <= e.burnt BY <1>2, <1>3, <1>7
  <2> QED BY <1>3, <1>7, <1>9, <2>1 DEF Deal
<1>11. e.burnt = st.db.burnt /\ Owed(e) = Owed(st.db) BY <1>2, <1>3, <1>7 DEF Owed
<1> QED BY <1>1, <1>4, <1>6, <1>10, <1>11

\* Who pays, pays in memory and in the rows.
LEMMA PaysStep ==
    ASSUME IInv, NEW c \in Chars, InWorld(c), NEW x \in Items, ah[x] # None, NEW a, NEW st, NEW N,
           NEW g \in Nat, NEW v \in Auctions \cup {None},
           Deal(a, st, x, v, [Soon.gold EXCEPT ![c] = g]),
           NEW s, \/ v = None /\ Given(st, N, x, s)
                  \/ v # None /\ v.owner # v.bidder /\ \E n : Bearing(st, N, n, s),
           g + Owed(a) + Value(v) = gold[c] + Owed(Soon) + Value(ah[x]),
           Commit(<<a>>), gold' = [gold EXCEPT ![c] = g],
           ah' = [ah EXCEPT ![x] = v], box' = st.box,
           UNCHANGED <<status, ahead, inv, deleted>>
    PROVE  IInv'
<1>1. a \in Databases BY DEF Deal
<1>2. Grown /\ Soon' = a /\ \A n \in Added : log'[n] = a BY <1>1, Basics, OneMore
<1>3. gold \in [Chars -> Nat] BY DEF IInv, TypeOK
<1>4. Soon.gold \in [Chars -> Nat] BY Basics DEF Databases
<1>5. PICK G : G = [Soon.gold EXCEPT ![c] = g] OBVIOUS
<1>6. \A d \in Chars : \/ gold'[d] = gold[d] /\ G[d] = Soon.gold[d]
                       \/ InWorld(d) /\ gold'[d] = G[d]
  <2>1. ASSUME NEW d \in Chars, d # c PROVE gold'[d] = gold[d] /\ G[d] = Soon.gold[d]
    BY <1>3, <1>4, <1>5, <2>1
  <2>2. gold'[c] = G[c] BY <1>3, <1>4, <1>5
  <2> QED BY <2>1, <2>2
<1>7. gold' \in [Chars -> Nat] BY <1>3
<1>8. Deal(a, st, x, v, G) BY <1>5
<1>9. \A n \in Added : \/ log'[n] = a
                       \/ /\ Sound(log'[n]) /\ log'[n].mails = Soon.mails
                          /\ log'[n].gold = Soon.gold /\ log'[n].inv = Soon.inv
  BY <1>2
<1>10. Grown /\ Soon' = a BY <1>2
<1>12. Balanced(a)
  <2>1. Mailing(st, N) BY DEF Given, Bearing
  <2>2. gold[c] = Soon.gold[c] BY DEF IInv, Member, Mirror, InWorld
  <2>3. ah[x] = Soon.ah[x] BY OnSale
  <2>4. g + Owed(a) + Value(v) = Soon.gold[c] + Owed(Soon) + Value(Soon.ah[x]) BY <2>2, <2>3
  <2>5. v # None => v.owner # v.bidder OBVIOUS
  <2> QED BY <2>1, <2>4, <2>5, DealBalanced
<1>13. \E t : \/ v = None /\ Given(st, N, x, t)
              \/ v # None /\ \E n : Bearing(st, N, n, t)
  OBVIOUS
<1>11. DealMade(a, st, N, x, v, G) BY <1>6, <1>7, <1>8, <1>9, <1>10, <1>12, <1>13 DEF DealMade
<1> QED BY <1>11, DealStep


LEMMA AuctionType ==
    ASSUME IInv, NEW x \in Items, ah[x] # None
    PROVE  /\ ah[x] \in Auctions /\ ah[x].owner \in Chars /\ ah[x].bidder \in Chars \cup {None}
           /\ ah[x].bid \in Nat /\ ah[x].buyout \in Nat
<1>1. ah[x] \in Auctions BY DEF IInv, TypeOK
<1> QED BY <1>1 DEF Auctions

\* A bidder is refunded, or there is none.
LEMMA Refunded ==
    ASSUME IInv, NEW a \in Auctions, NEW n \in Nat \ {0}, HasRoom(n)
    PROVE  /\ \E N : Bearing(Here, N, n - 1, Owed(Soon))
           /\ a.bidder # None => \E N : Bearing(RefundBidder(Here, a), N, n - 1, Owed(Soon) + a.bid)
           /\ Owed(Soon) \in Nat
<1>0. n - 1 \in Nat /\ n - 1 <= n /\ n \in Nat OBVIOUS
<1>a. PICK o : o = Owed(Soon) OBVIOUS
<1>1. Bearing(Here, {}, n, o) BY <1>0, <1>a, BearingHere
<1>2. PICK N : Bearing(Here, N, n, o) BY <1>1
<1>3. Bearing(Here, N, n - 1, o) BY <1>0, <1>2, BearingLess
<1>b. o \in Nat
  <2>1. Mailing(Here, N) /\ Owed(Here.db) = o BY <1>2 DEF Bearing
  <2> QED BY <2>1, OwedNat
<1>4. a.bidder \in Chars \cup {None} /\ a.bid \in Nat BY DEF Auctions
<1>5. ASSUME a.bidder # None PROVE \E K : Bearing(RefundBidder(Here, a), K, n - 1, o + a.bid)
  <2>1. PICK to \in Chars : to = a.bidder BY <1>4, <1>5
  <2>2. PICK money \in Nat : money = a.bid BY <1>4
  <2>3. PICK st : st = Here OBVIOUS
  <2>4. Bearing(st, N, n, o) BY <1>2, <2>3
  <2>5. \E K : Bearing(HouseMail(st, to, money, {}), K, n - 1, o + money) BY <2>4, HousePays
  <2> QED BY <2>1, <2>2, <2>3, <2>5 DEF RefundBidder
<1> QED BY <1>a, <1>b, <1>3, <1>5

\* What the bidders B who are refunded get.
Refund(a, B, d) == IF a.bidder \in B THEN 0 ELSE Gets(a.bidder, a.bid, d)

LEMMA DueRefund ==
    ASSUME IInv, NEW a \in Auctions, NEW n \in Nat \ {0}, HasRoom(n), NEW B, None \in B,
           NEW st, st = IF a.bidder \in B THEN Here ELSE RefundBidder(Here, a)
    PROVE  Due(st, [d \in Chars |-> Refund(a, B, d)])
<1>1. PICK P : P = [d \in Chars |-> 0] OBVIOUS
<1>2. Due(Here, P) BY <1>1, DueHere
<1>3. PICK Q : Q = [d \in Chars |-> Refund(a, B, d)] OBVIOUS
<1>4. CASE a.bidder \in B
  <2>1. Q = P BY <1>1, <1>3, <1>4 DEF Refund
  <2> QED BY <1>2, <1>3, <1>4, <2>1
<1>5. CASE a.bidder \notin B
  <2>1. PICK to \in Chars : to = a.bidder BY <1>5 DEF Auctions
  <2>2. PICK money \in Nat : money = a.bid BY DEF Auctions
  <2>3. PICK none \in SUBSET Items : none = {} OBVIOUS
  <2>4. PICK h : h = Here OBVIOUS
  <2>5. Bearing(h, {}, n, Owed(Soon)) BY <2>4, BearingHere
  <2>6. Mailing(h, {}) /\ Room(UsedIds \cup Ids(h.db.mails), n) BY <2>5 DEF Bearing
  <2>7. PICK R : R = [d \in Chars |-> P[d] + Gets(to, money, d)] OBVIOUS
  <2>8. Due(HouseMail(h, to, money, none), R) BY <1>2, <2>4, <2>6, <2>7, DueHouse
  <2>9. \A d \in Chars : Gets(to, money, d) \in Nat /\ P[d] = 0 BY <1>1 DEF Gets
  <2>10. \A d \in Chars : P[d] + Gets(to, money, d) = Refund(a, B, d)
    BY <1>5, <2>1, <2>2, <2>9 DEF Refund
  <2>11. R = Q BY <1>3, <2>7, <2>10
  <2>12. HouseMail(h, to, money, none) = st BY <1>5, <2>1, <2>2, <2>3, <2>4 DEF RefundBidder
  <2> QED BY <1>3, <2>8, <2>11, <2>12
<1> QED BY <1>4, <1>5

\* A deal: the auction a of x becomes v, the purse of c, who deals, g; the rows
\* become e, after mails in the state st that bring P.
Dealt(c, x, a, v, g, e, st, P) ==
    /\ InWorld(c) /\ a = ah[x] /\ a # None /\ a \in Auctions /\ g \in Nat
    /\ v \in Auctions \cup {None}
    /\ Deal(e, st, x, v, [Soon.gold EXCEPT ![c] = g]) /\ Due(st, P)
    /\ g + Owed(e) + Value(v) = gold[c] + Owed(Soon) + Value(ah[x])
    /\ Commit(<<e>>) /\ gold' = [gold EXCEPT ![c] = g]
    /\ ah' = [ah EXCEPT ![x] = v] /\ box' = st.box
    /\ UNCHANGED <<status, ahead, inv, deleted>>

\* The mails N of a deal after which the auction goes on.
Bidding(st, N, v) ==
    /\ v # None /\ v.owner # v.bidder
    /\ \E n, s : Bearing(st, N, n, s)

LEMMA PlaceBidRows ==
    ASSUME IInv, NEW c \in Chars, NEW x \in Items, NEW price \in Nat, PlaceBid(c, x, price)
    PROVE  \E a, v, g, e, st, N, P :
              /\ Dealt(c, x, a, v, g, e, st, P) /\ Bidding(st, N, v)
              /\ v = [a EXCEPT !.bidder = c, !.bid = price] /\ a.owner # c /\ price > a.bid
              /\ gold[c] >= price
              /\ g = gold[c] - price + (IF a.bidder = c THEN a.bid ELSE 0)
              /\ P = [d \in Chars |-> Refund(a, {None, c}, d)]
<1>1. PICK a : a = ah[x] OBVIOUS
<1>2. PICK st : st = IF a.bidder \in {None, c} THEN Here ELSE RefundBidder(Here, a) OBVIOUS
<1>3. PICK new : new = [a EXCEPT !.bidder = c, !.bid = price] OBVIOUS
<1>4. /\ InWorld(c) /\ ah[x] # None /\ gold[c] >= price /\ HasRoom(1) /\ a.owner # c
      /\ price > a.bid
  BY <1>1 DEF PlaceBid, CanBid
<1>5. /\ gold' = [gold EXCEPT ![c] = @ - price + (IF a.bidder = c THEN a.bid ELSE 0)]
      /\ ah' = [ah EXCEPT ![x] = new]
      /\ box' = st.box
      /\ Commit(<<[SaveInventoryAndGold(st.db, c, gold'[c], inv[c]) EXCEPT !.ah[x] = new]>>)
      /\ UNCHANGED <<status, ahead, inv, deleted>>
  BY <1>1, <1>2, <1>3 DEF PlaceBid
<1>6. a \in Auctions /\ a.bidder \in Chars \cup {None} /\ a.bid \in Nat BY <1>1, <1>4, AuctionType
<1>7. gold \in [Chars -> Nat] BY DEF IInv, TypeOK
<1>8. PICK g \in Nat : g = gold[c] - price + (IF a.bidder = c THEN a.bid ELSE 0)
  <2>1. gold[c] - price \in Nat BY <1>4, <1>7
  <2>2. gold[c] - price + (IF a.bidder = c THEN a.bid ELSE 0) \in Nat BY <1>6, <2>1
  <2> QED BY <2>2
<1>9. gold' = [gold EXCEPT ![c] = g] /\ gold'[c] = g BY <1>5, <1>7, <1>8
<1>10. new \in Auctions BY <1>3, <1>6 DEF Auctions
<1>11. new # None BY <1>10, NoneAssumption
<1>12. PICK one \in Nat \ {0} : one = 1 OBVIOUS
<1>13. HasRoom(one) BY <1>4, <1>12
<1>a. PICK r \in Nat : r = IF a.bidder \in {None, c} THEN 0 ELSE a.bid BY <1>6
<1>b. PICK o \in Nat : o = Owed(Soon) BY <1>6, <1>13, Refunded
<1>14. PICK N : Bearing(st, N, one - 1, o + r)
  <2>1. /\ \E N : Bearing(Here, N, one - 1, o)
        /\ a.bidder # None => \E N : Bearing(RefundBidder(Here, a), N, one - 1, o + a.bid)
    BY <1>6, <1>13, <1>b, Refunded
  <2>2. o + 0 = o BY <1>b
  <2> QED BY <1>2, <1>a, <2>1, <2>2
<1>15. Mailing(st, N) BY <1>14 DEF Bearing
<1>16. PICK e : e = [SaveInventoryAndGold(st.db, c, g, inv[c]) EXCEPT !.ah[x] = new] OBVIOUS
<1>17. Deal(e, st, x, new, [Soon.gold EXCEPT ![c] = g]) /\ Owed(e) = Owed(st.db)
  <2>1. LET u == [SaveInventoryAndGold(st.db, c, g, inv[c]) EXCEPT !.ah[x] = new]
        IN  Deal(u, st, x, new, [Soon.gold EXCEPT ![c] = g]) /\ Owed(u) = Owed(st.db)
    BY <1>4, <1>10, <1>15, BidRows
  <2> QED BY <1>16, <2>1
<1>18. Commit(<<e>>) BY <1>5, <1>9, <1>16
<1>c. PICK s \in Nat : s = o + r OBVIOUS
<1>d. new.bidder = c /\ new.bid = price /\ new.owner = a.owner BY <1>3, <1>6 DEF Auctions
<1>19. new # None /\ new.owner # new.bidder /\ \E n : Bearing(st, N, n, s)
  BY <1>4, <1>11, <1>14, <1>c, <1>d
<1>e. g + Owed(e) + Value(new) = gold[c] + Owed(Soon) + Value(ah[x])
  <2>1. Owed(e) = s BY <1>14, <1>17, <1>c DEF Bearing
  <2>2. PICK fee \in Nat : fee = Deposit BY StoreAssumption
  <2>3. c # None BY StoreAssumption
  <2>4. Value(new) = fee + price BY <1>11, <1>d, <2>2, <2>3 DEF Value
  <2>5. a # None BY <1>1, <1>4
  <2>6. PICK bid, h \in Nat : bid = a.bid /\ h = gold[c] BY <1>6, <1>7
  <2>7. Value(a) = fee + (IF a.bidder = None THEN 0 ELSE bid) BY <2>2, <2>5, <2>6 DEF Value
  <2>8. PICK w \in Nat : w = IF a.bidder = None THEN 0 ELSE bid OBVIOUS
  <2>9. PICK k \in Nat : k = IF a.bidder = c THEN bid ELSE 0 OBVIOUS
  <2>10. r + k = w BY <1>a, <2>3, <2>6, <2>8, <2>9
  <2>11. g = h - price + k BY <1>8, <2>6, <2>9
  <2>12. g + (o + r) + (fee + price) = h + o + (fee + w) BY <2>10, <2>11
  <2> QED BY <1>1, <1>b, <1>c, <2>1, <2>4, <2>6, <2>7, <2>8, <2>12
<1>20. /\ InWorld(c) /\ ah[x] # None /\ gold' = [gold EXCEPT ![c] = g]
       /\ ah' = [ah EXCEPT ![x] = new] /\ box' = st.box
       /\ UNCHANGED <<status, ahead, inv, deleted>>
  BY <1>4, <1>5, <1>9
<1>21. PICK P : P = [d \in Chars |-> Refund(a, {None, c}, d)] OBVIOUS
<1>22. Due(st, P) BY <1>2, <1>6, <1>13, <1>21, DueRefund
<1>23. PICK v \in Auctions \cup {None} : v = new BY <1>10
<1>24. a # None /\ a = ah[x] BY <1>1, <1>4
<1>25. Dealt(c, x, a, v, g, e, st, P)
  BY <1>6, <1>8, <1>17, <1>18, <1>20, <1>22, <1>23, <1>24, <1>e DEF Dealt
<1>26. Bidding(st, N, v) BY <1>14, <1>19, <1>23 DEF Bidding
<1> QED BY <1>3, <1>4, <1>8, <1>21, <1>23, <1>25, <1>26

LEMMA DealtStep ==
    ASSUME IInv, NEW c \in Chars, NEW x \in Items, NEW a, NEW v, NEW g, NEW e, NEW st, NEW N, NEW P,
           Dealt(c, x, a, v, g, e, st, P),
           Bidding(st, N, v) \/ (v = None /\ \E s : Given(st, N, x, s))
    PROVE  IInv'
<1>1. InWorld(c) /\ ah[x] # None /\ g \in Nat /\ v \in Auctions \cup {None} BY DEF Dealt
<1>2. PICK s : \/ v = None /\ Given(st, N, x, s)
               \/ v # None /\ v.owner # v.bidder /\ \E n : Bearing(st, N, n, s)
  BY DEF Bidding
<1>3. /\ Deal(e, st, x, v, [Soon.gold EXCEPT ![c] = g])
      /\ g + Owed(e) + Value(v) = gold[c] + Owed(Soon) + Value(ah[x])
      /\ Commit(<<e>>) /\ gold' = [gold EXCEPT ![c] = g]
      /\ ah' = [ah EXCEPT ![x] = v] /\ box' = st.box
      /\ UNCHANGED <<status, ahead, inv, deleted>>
  BY DEF Dealt
<1> QED BY <1>1, <1>2, <1>3, PaysStep

LEMMA PlaceBidStep ==
    ASSUME IInv, NEW c \in Chars, NEW x \in Items, NEW price \in Nat, PlaceBid(c, x, price)
    PROVE  IInv'
BY PlaceBidRows, DealtStep


\* The mails at the end of an auction.
LEMMA Succeeds ==
    ASSUME NEW st, NEW N, NEW n \in Nat \ {0}, NEW s \in Nat, Bearing(st, N, n, s),
           NEW a \in Auctions
    PROVE  \E K : Bearing(SendAuctionSuccessfulMail(st, a), K, n - 1, s + (a.bid + Deposit))
<1>1. PICK to \in Chars : to = a.owner BY DEF Auctions
<1>2. PICK bid \in Nat : bid = a.bid BY DEF Auctions
<1>3. PICK cut \in Nat : cut = (bid * CutPercent) \div 100 /\ cut <= bid BY CutBound
<1>4. PICK money \in Nat : money = bid + Deposit - cut BY <1>3, StoreAssumption
<1>5. PICK paid : paid = HouseMail(st, to, money, {}) OBVIOUS
<1>6. PICK K : Bearing(paid, K, n - 1, s + money) BY <1>5, HousePays
<1>9. PICK p \in Nat : p = s + money OBVIOUS
<1>10. Bearing([paid EXCEPT !.db = Destroy(@, {}, cut)], K, n - 1, p + cut) BY <1>6, <1>9, HouseKeeps
<1>11. p + cut = s + (a.bid + Deposit)
  <2>1. PICK fee \in Nat : fee = Deposit BY StoreAssumption
  <2>2. money + cut = bid + fee BY <1>3, <1>4, <2>1
  <2>3. p + cut = s + (bid + fee) BY <1>9, <2>2
  <2> QED BY <1>2, <2>1, <2>3
<1>7. Bearing([paid EXCEPT !.db = Destroy(@, {}, cut)], K, n - 1, s + (a.bid + Deposit))
  BY <1>10, <1>11
<1>8. SendAuctionSuccessfulMail(st, a) = [paid EXCEPT !.db = Destroy(@, {}, cut)]
  BY <1>1, <1>2, <1>3, <1>4, <1>5 DEF SendAuctionSuccessfulMail, AuctionCut
<1> QED BY <1>7, <1>8

LEMMA DueSucceeds ==
    ASSUME IInv, NEW st, NEW N, NEW n \in Nat \ {0}, NEW s, Bearing(st, N, n, s),
           NEW P, Due(st, P), NEW a \in Auctions
    PROVE  /\ Due(SendAuctionSuccessfulMail(st, a),
                  [d \in Chars |-> P[d] + Gets(a.owner, a.bid + Deposit - AuctionCut(a), d)])
           /\ AuctionCut(a) \in Nat /\ AuctionCut(a) <= a.bid
<1>1. PICK to \in Chars : to = a.owner BY DEF Auctions
<1>2. PICK bid \in Nat : bid = a.bid BY DEF Auctions
<1>3. PICK cut \in Nat : cut = (bid * CutPercent) \div 100 /\ cut <= bid BY CutBound
<1>4. PICK money \in Nat : money = bid + Deposit - cut BY <1>3, StoreAssumption
<1>5. PICK none \in SUBSET Items : none = {} OBVIOUS
<1>6. PICK paid : paid = HouseMail(st, to, money, none) OBVIOUS
<1>7. Mailing(st, N) /\ Room(UsedIds \cup Ids(st.db.mails), n) BY DEF Bearing
<1>8. PICK Q : Q = [d \in Chars |-> P[d] + Gets(to, money, d)] OBVIOUS
<1>9. Due(paid, Q) BY <1>6, <1>7, <1>8, DueHouse
<1>10. PICK K : Mailing(paid, K)
  <2>1. \E K \in SUBSET Mails : Posted(HouseMail(st, to, money, none), st, N, K, to, money, none, n)
    BY <1>7, MailingHouse
  <2> QED BY <1>6, <2>1 DEF Posted
<1>11. Due([paid EXCEPT !.db = Destroy(@, {}, cut)], Q) BY <1>9, <1>10, DueKeeps
<1>12. SendAuctionSuccessfulMail(st, a) = [paid EXCEPT !.db = Destroy(@, {}, cut)]
  BY <1>1, <1>2, <1>3, <1>4, <1>5, <1>6 DEF SendAuctionSuccessfulMail, AuctionCut
<1>13. AuctionCut(a) = cut BY <1>2, <1>3 DEF AuctionCut
<1>14. Q = [d \in Chars |-> P[d] + Gets(a.owner, a.bid + Deposit - AuctionCut(a), d)]
  BY <1>1, <1>2, <1>4, <1>8, <1>13
<1> QED BY <1>2, <1>3, <1>11, <1>12, <1>13, <1>14

LEMMA Wins ==
    ASSUME NEW st, NEW N, NEW n \in Nat \ {0}, NEW s, Bearing(st, N, n, s),
           NEW a, a.bidder \in Chars, NEW x \in Items
    PROVE  \E K : /\ Given(SendAuctionWonMail(st, a, x), K, x, s)
                  /\ Inherits(SendAuctionWonMail(st, a, x), K, x, a.bidder)
<1>1. PICK to \in Chars : to = a.bidder OBVIOUS
<1>2. \E K : /\ Given(HouseMail(st, to, 0, {x}), K, x, s)
             /\ Inherits(HouseMail(st, to, 0, {x}), K, x, to)
  BY HouseGives
<1> QED BY <1>1, <1>2 DEF SendAuctionWonMail

LEMMA Expires ==
    ASSUME NEW st, NEW N, NEW n \in Nat \ {0}, NEW s, Bearing(st, N, n, s),
           NEW a, a.owner \in Chars, NEW x \in Items
    PROVE  \E K : /\ Given(SendAuctionExpiredMail(st, a, x), K, x, s + Deposit)
                  /\ Inherits(SendAuctionExpiredMail(st, a, x), K, x, a.owner)
<1>1. PICK to \in Chars : to = a.owner OBVIOUS
<1>2. PICK t : t = HouseMail(st, to, 0, {x}) OBVIOUS
<1>3. PICK K : Given(t, K, x, s) /\ Inherits(t, K, x, to) BY <1>2, HouseGives
<1>4. PICK fee \in Nat : fee = Deposit BY StoreAssumption
<1>5. Given([t EXCEPT !.db = Destroy(@, {}, fee)], K, x, s + fee) BY <1>3, GivenKeeps
<1>6. SendAuctionExpiredMail(st, a, x) = [t EXCEPT !.db = Destroy(@, {}, fee)]
  BY <1>1, <1>2, <1>4 DEF SendAuctionExpiredMail
<1>7. PICK u : u = [t EXCEPT !.db = Destroy(@, {}, fee)] OBVIOUS
<1>8. u.db.gone = t.db.gone
  <2>1. Mailing(t, K) BY <1>3 DEF Given
  <2>2. PICK none \in SUBSET Items : none = {} OBVIOUS
  <2>3. LET w == [t EXCEPT !.db = Destroy(@, none, fee)]
        IN  /\ Mailing(w, K) /\ w.db.gone = t.db.gone \cup none
            /\ w.db.chars = t.db.chars /\ w.db.burnt = t.db.burnt + fee
    BY <2>1, MailingDestroyed
  <2> QED BY <1>7, <2>2, <2>3
<1>9. Inherits(u, K, x, a.owner) BY <1>1, <1>3, <1>8 DEF Inherits
<1> QED BY <1>4, <1>5, <1>6, <1>7, <1>9

\* The auction is over, and x went to the heir.
Closing(st, N, x, to) == (\E s : Given(st, N, x, s)) /\ Inherits(st, N, x, to)

LEMMA BuyoutRows ==
    ASSUME IInv, NEW c \in Chars, NEW x \in Items, NEW price \in Nat, Buyout(c, x, price)
    PROVE  \E a, v, g, e, st, N, P, cut :
              /\ Dealt(c, x, a, v, g, e, st, P) /\ Closing(st, N, x, c) /\ v = None
              /\ a.owner # c /\ a.buyout # 0 /\ gold[c] >= a.buyout
              /\ g = gold[c] - a.buyout + (IF a.bidder = c THEN a.bid ELSE 0)
              /\ cut \in Nat /\ cut <= a.buyout
              /\ P = [d \in Chars |-> Refund(a, {None, c}, d)
                                      + Gets(a.owner, a.buyout + Deposit - cut, d)]
<1>1. PICK a : a = ah[x] OBVIOUS
<1>2. PICK b : b = Bought(a, c) OBVIOUS
<1>3. PICK refunded : refunded = IF a.bidder \in {None, c} THEN Here ELSE RefundBidder(Here, a)
  OBVIOUS
<1>4. PICK good : good = SendAuctionSuccessfulMail(refunded, b) OBVIOUS
<1>5. PICK st : st = SendAuctionWonMail(good, b, x) OBVIOUS
<1>6. /\ InWorld(c) /\ ah[x] # None /\ gold[c] >= price /\ HasRoom(3) /\ price >= a.buyout
      /\ a.owner # c /\ a.buyout # 0
  BY <1>1 DEF Buyout, CanBid
<1>7. /\ gold' = [gold EXCEPT ![c] = @ - b.bid + (IF a.bidder = c THEN a.bid ELSE 0)]
      /\ ah' = [ah EXCEPT ![x] = None]
      /\ box' = st.box
      /\ Commit(<<SaveInventoryAndGold(Struck(st.db, x), c, gold'[c], inv[c])>>)
      /\ UNCHANGED <<status, ahead, inv, deleted>>
  BY <1>1, <1>2, <1>3, <1>4, <1>5 DEF Buyout
<1>8. /\ a \in Auctions /\ a.bidder \in Chars \cup {None} /\ a.bid \in Nat /\ a.buyout \in Nat
  BY <1>1, <1>6, AuctionType
<1>9. b \in Auctions /\ b.bidder = c /\ b.bid = a.buyout BY <1>2, <1>8 DEF Bought, Auctions
<1>10. gold \in [Chars -> Nat] BY DEF IInv, TypeOK
<1>11. PICK g \in Nat : g = gold[c] - b.bid + (IF a.bidder = c THEN a.bid ELSE 0)
  <2>1. gold[c] - b.bid \in Nat BY <1>6, <1>8, <1>9, <1>10
  <2>2. gold[c] - b.bid + (IF a.bidder = c THEN a.bid ELSE 0) \in Nat BY <1>8, <2>1
  <2> QED BY <2>2
<1>12. gold' = [gold EXCEPT ![c] = g] /\ gold'[c] = g BY <1>7, <1>10, <1>11
<1>13. PICK three \in Nat \ {0} : three = 3 OBVIOUS
<1>14. PICK two \in Nat \ {0} : two = three - 1 BY <1>13
<1>15. PICK one \in Nat \ {0} : one = two - 1 BY <1>13, <1>14
<1>16. HasRoom(three) BY <1>6, <1>13
<1>a. PICK r \in Nat : r = IF a.bidder \in {None, c} THEN 0 ELSE a.bid BY <1>8
<1>b. PICK o \in Nat : o = Owed(Soon) BY <1>8, <1>16, Refunded
<1>c. PICK p \in Nat : p = o + r OBVIOUS
<1>d. PICK fee \in Nat : fee = Deposit BY StoreAssumption
<1>f. PICK s \in Nat : s = p + (b.bid + Deposit) BY <1>8, <1>9, <1>d
<1>17. PICK N : Bearing(refunded, N, three - 1, p)
  <2>1. /\ \E N : Bearing(Here, N, three - 1, o)
        /\ a.bidder # None => \E N : Bearing(RefundBidder(Here, a), N, three - 1, o + a.bid)
    BY <1>8, <1>16, <1>b, Refunded
  <2>2. o + 0 = o BY <1>b
  <2> QED BY <1>3, <1>a, <1>c, <2>1, <2>2
<1>18. Bearing(refunded, N, two, p) BY <1>14, <1>17
<1>19. PICK K : Bearing(good, K, two - 1, s)
  <2>1. \E K : Bearing(SendAuctionSuccessfulMail(refunded, b), K, two - 1, p + (b.bid + Deposit))
    BY <1>9, <1>18, Succeeds
  <2> QED BY <1>4, <1>f, <2>1
<1>20. Bearing(good, K, one, s) BY <1>15, <1>19
<1>21. PICK M : Given(st, M, x, s) /\ Inherits(st, M, x, c)
  <2>1. b.bidder \in Chars BY <1>9
  <2>2. \E M : /\ Given(SendAuctionWonMail(good, b, x), M, x, s)
               /\ Inherits(SendAuctionWonMail(good, b, x), M, x, b.bidder)
    BY <1>20, <2>1, Wins
  <2> QED BY <1>5, <1>9, <2>2
<1>22. Mailing(st, M) BY <1>21 DEF Given
<1>23. PICK e : e = SaveInventoryAndGold(Struck(st.db, x), c, g, inv[c]) OBVIOUS
<1>24. PICK v \in Auctions \cup {None} : v = None OBVIOUS
<1>25. Deal(e, st, x, v, [Soon.gold EXCEPT ![c] = g]) /\ Owed(e) = Owed(st.db)
  <2>1. LET u == SaveInventoryAndGold(Struck(st.db, x), c, g, inv[c])
        IN  /\ Deal(u, st, x, None, [Soon.gold EXCEPT ![c] = g])
            /\ u.burnt = st.db.burnt /\ Owed(u) = Owed(st.db)
    BY <1>6, <1>22, OverRows
  <2> QED BY <1>23, <1>24, <2>1
<1>26. Commit(<<e>>) BY <1>7, <1>12, <1>23
<1>27. v = None /\ Given(st, M, x, s) BY <1>21, <1>24
<1>29. g + Owed(e) + Value(v) = gold[c] + Owed(Soon) + Value(ah[x])
  <2>1. Owed(e) = s BY <1>21, <1>25 DEF Given
  <2>2. c # None BY StoreAssumption
  <2>3. Value(v) = 0 BY <1>24 DEF Value
  <2>4. a # None BY <1>1, <1>6
  <2>5. PICK bid, h, q \in Nat : bid = a.bid /\ h = gold[c] /\ q = b.bid BY <1>8, <1>9, <1>10
  <2>6. Value(a) = fee + (IF a.bidder = None THEN 0 ELSE bid) BY <1>d, <2>4, <2>5 DEF Value
  <2>7. PICK w \in Nat : w = IF a.bidder = None THEN 0 ELSE bid OBVIOUS
  <2>8. PICK k \in Nat : k = IF a.bidder = c THEN bid ELSE 0 OBVIOUS
  <2>9. r + k = w BY <1>a, <2>2, <2>5, <2>7, <2>8
  <2>10. g = h - q + k BY <1>11, <2>5, <2>8
  <2>11. s = (o + r) + (q + fee) BY <1>c, <1>d, <1>f, <2>5
  <2>12. g + s + 0 = h + o + (fee + w) BY <2>9, <2>10, <2>11
  <2> QED BY <1>1, <1>b, <2>1, <2>3, <2>5, <2>6, <2>7, <2>12
<1>28. /\ InWorld(c) /\ ah[x] # None /\ gold' = [gold EXCEPT ![c] = g]
       /\ ah' = [ah EXCEPT ![x] = v] /\ box' = st.box
       /\ UNCHANGED <<status, ahead, inv, deleted>>
  BY <1>6, <1>7, <1>12, <1>24
<1>30. PICK R : R = [d \in Chars |-> Refund(a, {None, c}, d)] OBVIOUS
<1>31. Due(refunded, R) BY <1>3, <1>8, <1>16, <1>30, DueRefund
<1>32. PICK P : P = [d \in Chars |-> R[d] + Gets(b.owner, b.bid + Deposit - AuctionCut(b), d)] OBVIOUS
<1>33. Due(good, P) /\ AuctionCut(b) \in Nat /\ AuctionCut(b) <= b.bid
  BY <1>4, <1>9, <1>18, <1>31, <1>32, DueSucceeds
<1>34. PICK cut \in Nat : cut = AuctionCut(b) /\ cut <= a.buyout BY <1>9, <1>33
<1>35. Due(st, P)
  <2>1. PICK to \in Chars : to = b.bidder BY <1>9
  <2>2. Due(HouseMail(good, to, 0, {x}), P) BY <1>20, <1>33, DueGives
  <2> QED BY <1>5, <2>1, <2>2 DEF SendAuctionWonMail
<1>36. P = [d \in Chars |-> Refund(a, {None, c}, d) + Gets(a.owner, a.buyout + Deposit - cut, d)]
  <2>1. b.owner = a.owner /\ b.bid = a.buyout BY <1>2, <1>8 DEF Bought, Auctions
  <2> QED BY <1>30, <1>32, <1>34, <2>1
<1>37. a = ah[x] /\ a # None BY <1>1, <1>6
<1>38. Dealt(c, x, a, v, g, e, st, P)
  BY <1>8, <1>11, <1>25, <1>26, <1>28, <1>29, <1>35, <1>37 DEF Dealt
<1>39. Closing(st, M, x, c) BY <1>21 DEF Closing
<1>40. gold[c] >= a.buyout BY <1>6, <1>8, <1>10
<1>41. g = gold[c] - a.buyout + (IF a.bidder = c THEN a.bid ELSE 0) BY <1>9, <1>11
<1> QED BY <1>6, <1>24, <1>34, <1>36, <1>38, <1>39, <1>40, <1>41

LEMMA BuyoutStep ==
    ASSUME IInv, NEW c \in Chars, NEW x \in Items, NEW price \in Nat, Buyout(c, x, price)
    PROVE  IInv'
<1>1. PICK a, v, g, e, st, N, P, cut :
              /\ Dealt(c, x, a, v, g, e, st, P) /\ Closing(st, N, x, c) /\ v = None
              /\ a.owner # c /\ a.buyout # 0 /\ gold[c] >= a.buyout
              /\ g = gold[c] - a.buyout + (IF a.bidder = c THEN a.bid ELSE 0)
              /\ cut \in Nat /\ cut <= a.buyout
              /\ P = [d \in Chars |-> Refund(a, {None, c}, d)
                                      + Gets(a.owner, a.buyout + Deposit - cut, d)]
  BY BuyoutRows
<1>2. \E s : Given(st, N, x, s) BY <1>1 DEF Closing
<1> QED BY <1>1, <1>2, DealtStep

LEMMA CancelAuctionRows ==
    ASSUME IInv, NEW c \in Chars, NEW x \in Items, CancelAuction(c, x)
    PROVE  \E a, v, g, e, st, N, P :
              /\ Dealt(c, x, a, v, g, e, st, P) /\ Closing(st, N, x, c) /\ v = None
              /\ a.owner = c /\ P = [d \in Chars |-> Refund(a, {None}, d)]
<1>1. PICK a : a = ah[x] OBVIOUS
<1>2. PICK cut : cut = IF a.bidder = None THEN 0 ELSE AuctionCut(a) OBVIOUS
<1>3. PICK refunded : refunded = IF a.bidder = None THEN Here ELSE RefundBidder(Here, a) OBVIOUS
<1>4. PICK st : st = HouseMail(refunded, c, 0, {x}) OBVIOUS
<1>5. InWorld(c) /\ ah[x] # None /\ gold[c] >= cut /\ HasRoom(2) /\ a.owner = c
  BY <1>1, <1>2 DEF CancelAuction
<1>6. /\ gold' = [gold EXCEPT ![c] = @ - cut]
      /\ ah' = [ah EXCEPT ![x] = None]
      /\ box' = st.box
      /\ Commit(<<Destroy(SaveInventoryAndGold(Struck(st.db, x), c, gold'[c], inv[c]),
                          {}, cut + Deposit)>>)
      /\ UNCHANGED <<status, ahead, inv, deleted>>
  BY <1>1, <1>2, <1>3, <1>4 DEF CancelAuction
<1>7. a \in Auctions /\ a.bid \in Nat BY <1>1, <1>5, AuctionType
<1>8. cut \in Nat
  <2>1. PICK bid \in Nat : bid = a.bid BY <1>7
  <2>2. (bid * CutPercent) \div 100 \in Nat BY CutBound
  <2>3. AuctionCut(a) \in Nat BY <2>1, <2>2 DEF AuctionCut
  <2> QED BY <1>2, <2>3
<1>9. gold \in [Chars -> Nat] BY DEF IInv, TypeOK
<1>10. PICK g \in Nat : g = gold[c] - cut BY <1>5, <1>8, <1>9
<1>11. gold' = [gold EXCEPT ![c] = g] /\ gold'[c] = g BY <1>6, <1>9, <1>10
<1>12. PICK two \in Nat \ {0} : two = 2 OBVIOUS
<1>13. PICK one \in Nat \ {0} : one = two - 1 BY <1>12
<1>14. HasRoom(two) BY <1>5, <1>12
<1>a. PICK r \in Nat : r = IF a.bidder = None THEN 0 ELSE a.bid BY <1>7
<1>b. PICK o \in Nat : o = Owed(Soon) BY <1>7, <1>14, Refunded
<1>c. PICK s \in Nat : s = o + r OBVIOUS
<1>15. PICK N : Bearing(refunded, N, two - 1, s)
  <2>1. /\ \E N : Bearing(Here, N, two - 1, o)
        /\ a.bidder # None => \E N : Bearing(RefundBidder(Here, a), N, two - 1, o + a.bid)
    BY <1>7, <1>14, <1>b, Refunded
  <2>2. o + 0 = o BY <1>b
  <2> QED BY <1>3, <1>a, <1>c, <2>1, <2>2
<1>16. Bearing(refunded, N, one, s) BY <1>13, <1>15
<1>17. PICK M : Given(st, M, x, s) /\ Inherits(st, M, x, c)
  <2>1. \E M : /\ Given(HouseMail(refunded, c, 0, {x}), M, x, s)
               /\ Inherits(HouseMail(refunded, c, 0, {x}), M, x, c)
    BY <1>16, HouseGives
  <2> QED BY <1>4, <2>1
<1>18. Mailing(st, M) BY <1>17 DEF Given
<1>19. PICK e : e = SaveInventoryAndGold(Struck(st.db, x), c, g, inv[c]) OBVIOUS
<1>20. Deal(e, st, x, None, [Soon.gold EXCEPT ![c] = g]) /\ e.burnt = st.db.burnt
  <2>1. LET u == SaveInventoryAndGold(Struck(st.db, x), c, g, inv[c])
        IN  /\ Deal(u, st, x, None, [Soon.gold EXCEPT ![c] = g])
            /\ u.burnt = st.db.burnt /\ Owed(u) = Owed(st.db)
    BY <1>5, <1>18, OverRows
  <2> QED BY <1>19, <2>1
<1>21. PICK fee \in Nat : fee = cut + Deposit BY <1>8, StoreAssumption
<1>22. PICK f : f = Destroy(e, {}, fee) OBVIOUS
<1>23. PICK v \in Auctions \cup {None} : v = None OBVIOUS
<1>24. Deal(f, st, x, v, [Soon.gold EXCEPT ![c] = g]) /\ f.burnt = st.db.burnt + fee
  <2>1. e \in Databases BY <1>20 DEF Deal
  <2>2. /\ f \in Databases /\ f.gone = e.gone /\ f.burnt = e.burnt + fee
        /\ f.gold = e.gold /\ f.inv = e.inv
        /\ f.mails = e.mails /\ f.ah = e.ah /\ f.parted = e.parted /\ f.chars = e.chars
    BY <1>22, <2>1, Spent
  <2>3. st.db.burnt \in Nat BY <1>18 DEF Mailing, Databases
  <2>4. st.db.burnt <= f.burnt BY <1>20, <2>2, <2>3
  <2> QED BY <1>20, <1>23, <2>2, <2>4 DEF Deal
<1>25. Commit(<<f>>) BY <1>6, <1>11, <1>19, <1>21, <1>22
<1>26. v = None /\ Given(st, M, x, s) BY <1>17, <1>23
<1>28. g + Owed(f) + Value(v) = gold[c] + Owed(Soon) + Value(ah[x])
  <2>1. PICK p, b \in Nat : p = Money(st.db.mails) /\ b = st.db.burnt BY <1>18, OwedNat
  <2>2. p + b = s BY <1>17, <2>1 DEF Given, Owed
  <2>3. Owed(f) = p + (b + fee) BY <1>24, <2>1 DEF Deal, Owed
  <2>4. Value(v) = 0 BY <1>23 DEF Value
  <2>5. a # None BY <1>1, <1>5
  <2>6. PICK d, h, k \in Nat : d = Deposit /\ h = gold[c] /\ k = cut BY <1>8, <1>9, StoreAssumption
  <2>7. Value(a) = d + r BY <1>a, <2>5, <2>6 DEF Value
  <2>8. g = h - k /\ fee = k + d BY <1>10, <1>21, <2>6
  <2>9. g + (p + (b + fee)) + 0 = h + o + (d + r) BY <1>c, <2>2, <2>8
  <2> QED BY <1>1, <1>b, <2>3, <2>4, <2>6, <2>7, <2>9
<1>27. /\ InWorld(c) /\ ah[x] # None /\ gold' = [gold EXCEPT ![c] = g]
       /\ ah' = [ah EXCEPT ![x] = v] /\ box' = st.box
       /\ UNCHANGED <<status, ahead, inv, deleted>>
  BY <1>5, <1>6, <1>11, <1>23
<1>29. PICK P : P = [d \in Chars |-> Refund(a, {None}, d)] OBVIOUS
<1>30. Due(refunded, P)
  <2>1. refunded = IF a.bidder \in {None} THEN Here ELSE RefundBidder(Here, a) BY <1>3
  <2> QED BY <1>7, <1>14, <1>29, <2>1, DueRefund
<1>31. Due(st, P)
  <2>1. Due(HouseMail(refunded, c, 0, {x}), P) BY <1>16, <1>30, DueGives
  <2> QED BY <1>4, <2>1
<1>32. a = ah[x] /\ a # None BY <1>1, <1>5
<1>33. Dealt(c, x, a, v, g, f, st, P)
  BY <1>7, <1>10, <1>24, <1>25, <1>27, <1>28, <1>31, <1>32 DEF Dealt
<1>34. Closing(st, M, x, c) BY <1>17 DEF Closing
<1> QED BY <1>5, <1>23, <1>29, <1>33, <1>34

LEMMA CancelAuctionStep ==
    ASSUME IInv, NEW c \in Chars, NEW x \in Items, CancelAuction(c, x)
    PROVE  IInv'
BY CancelAuctionRows, DealtStep DEF Closing


\* The item is deleted before its auction is.
LEMMA EarlySound ==
    ASSUME IInv, NEW x \in Items, ah[x] # None, NEW e, e = Destroy(Soon, {x}, 0)
    PROVE  /\ e \in Databases /\ Sound(e)
           /\ e.mails = Soon.mails /\ e.gold = Soon.gold /\ e.inv = Soon.inv
           /\ e.ah = Soon.ah /\ e.parted = Soon.parted /\ e.chars = Soon.chars
           /\ e.gone = Soon.gone \cup {x} /\ e.burnt = Soon.burnt
<1>1. PICK db \in Databases : db = Soon BY Basics
<1>2. PICK things \in SUBSET Items : things = {x} OBVIOUS
<1>3. PICK zero \in Nat : zero = 0 OBVIOUS
<1>4. e = Destroy(db, things, zero) BY <1>1, <1>2, <1>3
<1>5. /\ e \in Databases /\ e.gone = db.gone \cup things /\ e.burnt = db.burnt + zero
      /\ e.gold = db.gold /\ e.inv = db.inv
      /\ e.mails = db.mails /\ e.ah = db.ah /\ e.parted = db.parted
      /\ e.chars = db.chars
  <2>1. LET f == Destroy(db, things, zero)
        IN  /\ f \in Databases
            /\ f.gone = db.gone \cup things /\ f.burnt = db.burnt + zero
            /\ f.gold = db.gold /\ f.inv = db.inv
            /\ f.mails = db.mails /\ f.ah = db.ah /\ f.parted = db.parted
            /\ f.chars = db.chars
    BY Destroyed
  <2> QED BY <1>4, <2>1
<1>6. /\ \A d \in Chars : x \notin Soon.inv[d]
      /\ \A k \in Soon.mails : x \notin k.items
      /\ \A d \in Chars : <<d, x>> \notin Soon.parted
  BY OnSale
<1>7. Once(e, x) BY <1>1, <1>2, <1>5, <1>6, OnceElse
<1>8. ASSUME NEW y \in Items, y # x PROVE Once(e, y)
  <2>1. Once(Soon, y) BY Basics DEF Sound
  <2>2. Posts(e, y) = Posts(Soon, y) BY <1>1, <1>5 DEF Posts
  <2>3. Alike(e, Soon, y) BY <1>1, <1>2, <1>5, <1>8, <2>2 DEF Alike
  <2> QED BY <2>1, <2>3, OnceAlike
<1>9. Proper(e.mails) BY <1>1, <1>5, Basics DEF Sound
<1>11. Balanced(e)
  <2>1. Proper(db.mails) /\ Balanced(db) BY <1>1, Basics DEF Sound
  <2>2. PICK b \in Nat : b = db.burnt BY DEF Databases
  <2>3. b + 0 = b OBVIOUS
  <2>4. e.burnt = db.burnt BY <1>3, <1>5, <2>2, <2>3
  <2>5. Money(e.mails) + e.burnt = Money(db.mails) + db.burnt BY <1>5, <2>4
  <2> QED BY <1>5, <1>9, <2>1, <2>5, BalancedMails
<1>10. Sound(e) BY <1>7, <1>8, <1>9, <1>11 DEF Sound
<1>12. e.burnt = db.burnt
  <2>1. db.burnt \in Nat BY DEF Databases
  <2> QED BY <1>3, <1>5, <2>1
<1> QED BY <1>1, <1>2, <1>5, <1>10, <1>12

\* Two transactions, one committed after the other.
LEMMA Pair ==
    ASSUME NEW D, NEW e \in D, NEW s \in D
    PROVE  <<e>> \o <<s>> = <<e, s>>
<1>1. <<e>> \in Seq(D) /\ <<s>> \in Seq(D) /\ <<e, s>> \in Seq(D) OBVIOUS
<1>2. PICK l \in Seq(D) : l = <<e>> BY <1>1
<1>3. PICK r \in Seq(D) : r = <<s>> BY <1>1
<1>4. PICK p \in Seq(D) : p = <<e, s>> BY <1>1
<1>5. PICK k : k = l \o r OBVIOUS
<1>6. Len(l) = 1 /\ l[1] = e BY <1>2
<1>7. Len(r) = 1 /\ r[1] = s BY <1>3
<1>8. Len(p) = 2 /\ p[1] = e /\ p[2] = s BY <1>4
<1>9. k \in Seq(D) /\ Len(k) = Len(l) + Len(r) /\ \A i \in 1 .. Len(r) : k[Len(l) + i] = r[i]
  BY <1>5, ConcatProperties
<1>17. \A i \in 1 .. Len(l) : k[i] = l[i] BY <1>5, ConcatProperties
<1>10. k \in Seq(D) /\ Len(k) = 2 BY <1>6, <1>7, <1>9
<1>11. k[1] = e BY <1>6, <1>17
<1>12. k[2] = s BY <1>6, <1>7, <1>9
<1>13. DOMAIN k = 1 .. 2 /\ DOMAIN p = 1 .. 2 BY <1>8, <1>10
<1>14. \A i \in 1 .. 2 : k[i] = p[i] BY <1>8, <1>11, <1>12
<1>15. k = [i \in DOMAIN k |-> k[i]] /\ p = [i \in DOMAIN p |-> p[i]] BY <1>10
<1>16. k = p BY <1>13, <1>14, <1>15
<1> QED BY <1>2, <1>3, <1>4, <1>5, <1>16

\* The end of the auction a of x: the rows become s, or first e when the heir
\* is not there to get the item.
Ended(x, a, heir, e, s, st, N, P, t) ==
    /\ a = ah[x] /\ a # None /\ a \in Auctions
    /\ heir \in Chars /\ heir = IF a.bidder = None THEN a.owner ELSE a.bidder
    /\ t = IF a.bidder = None THEN Owed(Soon) + Deposit ELSE Owed(Soon) + (a.bid + Deposit)
    /\ Given(st, N, x, t) /\ Inherits(st, N, x, heir)
    /\ Deal(s, st, x, None, Soon.gold) /\ Owed(s) = Owed(st.db) /\ Due(st, P)
    /\ e = Destroy(Soon, {x}, 0)
    /\ Exists(heir) => Commit(<<s>>)
    /\ ~Exists(heir) => Commit(<<e, s>>)
    /\ ah' = [ah EXCEPT ![x] = None] /\ box' = st.box
    /\ UNCHANGED <<status, ahead, gold, inv, deleted>>

LEMMA AuctionExpiresRows ==
    ASSUME IInv, NEW x \in Items, AuctionExpires(x)
    PROVE  \E a, heir, e, s, st, N, P, t, cut :
              /\ Ended(x, a, heir, e, s, st, N, P, t) /\ cut \in Nat /\ cut <= a.bid
              /\ P = [d \in Chars |-> IF a.bidder = None THEN 0
                                      ELSE Gets(a.owner, a.bid + Deposit - cut, d)]
<1>1. PICK a : a = ah[x] OBVIOUS
<1>2. PICK heir : heir = IF a.bidder = None THEN a.owner ELSE a.bidder OBVIOUS
<1>3. PICK good : good = SendAuctionSuccessfulMail(Here, a) OBVIOUS
<1>4. PICK st : st = IF a.bidder = None THEN SendAuctionExpiredMail(Here, a, x)
                     ELSE SendAuctionWonMail(good, a, x)
  OBVIOUS
<1>5. PICK e : e = Destroy(Soon, {x}, 0) OBVIOUS
<1>6. PICK s : s = Struck(st.db, x) OBVIOUS
<1>7. /\ ah[x] # None /\ HasRoom(2)
      /\ ah' = [ah EXCEPT ![x] = None] /\ box' = st.box
      /\ Commit((IF Exists(heir) THEN <<>> ELSE <<e>>) \o <<s>>)
      /\ UNCHANGED <<status, ahead, gold, inv, deleted>>
  BY <1>1, <1>2, <1>3, <1>4, <1>5, <1>6 DEF AuctionExpires
<1>8. a \in Auctions /\ a.owner \in Chars /\ a.bidder \in Chars \cup {None} /\ a.bid \in Nat
  BY <1>1, <1>7, AuctionType
<1>9. PICK two \in Nat \ {0} : two = 2 OBVIOUS
<1>10. PICK one \in Nat \ {0} : one = two - 1 BY <1>9
<1>a. PICK o : o = Owed(Soon) OBVIOUS
<1>11. PICK h, N : h = Here /\ Bearing(h, N, two, o)
  <2>1. two \in Nat /\ HasRoom(two) BY <1>7, <1>9
  <2>2. Bearing(Here, {}, two, o) BY <1>a, <2>1, BearingHere
  <2> QED BY <2>2
<1>b. o \in Nat
  <2>1. Mailing(h, N) /\ Owed(h.db) = o BY <1>11 DEF Bearing
  <2> QED BY <2>1, OwedNat
<1>c. PICK t \in Nat : t = IF a.bidder = None THEN o + Deposit ELSE o + (a.bid + Deposit)
  BY <1>8, <1>b, StoreAssumption
<1>d. PICK Z : Z = [d \in Chars |-> 0] OBVIOUS
<1>e. Due(h, Z) BY <1>11, <1>d, DueHere
<1>f. PICK cut \in Nat : cut = AuctionCut(a) /\ cut <= a.bid BY <1>8, <1>11, <1>e, DueSucceeds
<1>g. PICK P : P = [d \in Chars |-> IF a.bidder = None THEN 0
                                    ELSE Gets(a.owner, a.bid + Deposit - cut, d)]
  OBVIOUS
<1>12. (\E M : Given(st, M, x, t) /\ Inherits(st, M, x, heir)) /\ Due(st, P)
  <2>1. CASE a.bidder = None
    <3>1. \E M : /\ Given(SendAuctionExpiredMail(h, a, x), M, x, o + Deposit)
                 /\ Inherits(SendAuctionExpiredMail(h, a, x), M, x, a.owner)
      BY <1>8, <1>11, Expires
    <3>2. PICK to \in Chars : to = a.owner BY <1>8
    <3>3. PICK fee \in Nat : fee = Deposit BY StoreAssumption
    <3>4. PICK w : w = HouseMail(h, to, 0, {x}) OBVIOUS
    <3>5. Due(w, Z) BY <1>11, <1>e, <3>4, DueGives
    <3>6. PICK K : Mailing(w, K)
      <4>1. \E K : /\ Given(HouseMail(h, to, 0, {x}), K, x, o)
                   /\ Inherits(HouseMail(h, to, 0, {x}), K, x, to)
        BY <1>11, HouseGives
      <4> QED BY <3>4, <4>1 DEF Given
    <3>7. Due([w EXCEPT !.db = Destroy(@, {}, fee)], Z) BY <3>5, <3>6, DueKeeps
    <3>8. st = [w EXCEPT !.db = Destroy(@, {}, fee)]
      BY <1>4, <1>11, <2>1, <3>2, <3>3, <3>4 DEF SendAuctionExpiredMail
    <3>9. P = Z BY <1>d, <1>g, <2>1
    <3> QED BY <1>2, <1>4, <1>11, <1>c, <2>1, <3>1, <3>7, <3>8, <3>9
  <2>2. CASE a.bidder # None
    <3>1. PICK K : Bearing(good, K, two - 1, t)
      <4>1. \E K : Bearing(SendAuctionSuccessfulMail(h, a), K, two - 1, o + (a.bid + Deposit))
        BY <1>8, <1>11, <1>b, Succeeds
      <4> QED BY <1>3, <1>11, <1>c, <2>2, <4>1
    <3>2. Bearing(good, K, one, t) BY <1>10, <3>1
    <3>3. PICK to \in Chars : to = a.bidder BY <1>8, <2>2
    <3>4. \E M : /\ Given(SendAuctionWonMail(good, a, x), M, x, t)
                 /\ Inherits(SendAuctionWonMail(good, a, x), M, x, a.bidder)
      BY <3>2, <3>3, Wins
    <3>5. PICK R : R = [d \in Chars |-> Z[d] + Gets(a.owner, a.bid + Deposit - AuctionCut(a), d)]
      OBVIOUS
    <3>6. Due(good, R) BY <1>3, <1>8, <1>11, <1>e, <3>5, DueSucceeds
    <3>7. Due(HouseMail(good, to, 0, {x}), R) BY <3>2, <3>6, DueGives
    <3>8. st = HouseMail(good, to, 0, {x}) BY <1>4, <2>2, <3>3 DEF SendAuctionWonMail
    <3>9. PICK money \in Nat : money = a.bid + Deposit - cut BY <1>8, <1>f, StoreAssumption
    <3>10. \A d \in Chars : Gets(a.owner, money, d) \in Nat BY DEF Gets
    <3>11. R = P BY <1>d, <1>f, <1>g, <2>2, <3>5, <3>9, <3>10
    <3> QED BY <1>2, <1>4, <2>2, <3>4, <3>7, <3>8, <3>11
  <2> QED BY <2>1, <2>2
<1>h. PICK M : Given(st, M, x, t) /\ Inherits(st, M, x, heir) BY <1>12
<1>13. Mailing(st, M) BY <1>h DEF Given
<1>14. Deal(s, st, x, None, Soon.gold) /\ Owed(s) = Owed(st.db) BY <1>6, <1>13, StruckRows
<1>15. s \in Databases BY <1>14 DEF Deal
<1>16. e \in Databases BY <1>5, <1>7, EarlySound
<1>17. Exists(heir) => Commit(<<s>>)
  <2>1. <<>> \o <<s>> = <<s>> OBVIOUS
  <2> QED BY <1>7, <2>1
<1>18. ~Exists(heir) => Commit(<<e, s>>)
  <2>1. <<e>> \o <<s>> = <<e, s>> BY <1>15, <1>16, Pair
  <2> QED BY <1>7, <2>1
<1>19. heir \in Chars BY <1>2, <1>8
<1>20. Ended(x, a, heir, e, s, st, M, P, t)
  BY <1>1, <1>2, <1>5, <1>7, <1>8, <1>a, <1>c, <1>h, <1>12, <1>14, <1>17, <1>18, <1>19 DEF Ended
<1> QED BY <1>f, <1>g, <1>20

LEMMA AuctionExpiresStep ==
    ASSUME IInv, NEW x \in Items, AuctionExpires(x)
    PROVE  IInv'
<1>1. PICK a, heir, e, s, st, M, P, t : Ended(x, a, heir, e, s, st, M, P, t) BY AuctionExpiresRows
<1>2. /\ a = ah[x] /\ a # None /\ ah[x] # None /\ a \in Auctions
      /\ t = IF a.bidder = None THEN Owed(Soon) + Deposit ELSE Owed(Soon) + (a.bid + Deposit)
      /\ Given(st, M, x, t) /\ Deal(s, st, x, None, Soon.gold) /\ Owed(s) = Owed(st.db)
      /\ e = Destroy(Soon, {x}, 0)
      /\ Exists(heir) => Commit(<<s>>)
      /\ ~Exists(heir) => Commit(<<e, s>>)
      /\ ah' = [ah EXCEPT ![x] = None] /\ box' = st.box
      /\ UNCHANGED <<status, ahead, gold, inv, deleted>>
  BY <1>1 DEF Ended
<1>3. Mailing(st, M) /\ s \in Databases BY <1>2 DEF Given, Deal
<1>4. /\ e \in Databases /\ Sound(e)
      /\ e.mails = Soon.mails /\ e.gold = Soon.gold /\ e.inv = Soon.inv
  BY <1>2, EarlySound
<1>5. Grown /\ Soon' = s /\ \A n \in Added : log'[n] = s \/ log'[n] = e
  <2>1. CASE Exists(heir)
    <3>1. Commit(<<s>>) BY <1>2, <2>1
    <3> QED BY <1>3, <3>1, Basics, OneMore
  <2>2. CASE ~Exists(heir)
    <3>1. Commit(<<e, s>>) BY <1>2, <2>2
    <3>2. Grown /\ Soon' = s /\ \A n \in Added : log'[n] \in {e, s}
      BY <1>3, <1>4, <3>1, Basics, TwoMore
    <3> QED BY <3>2
  <2> QED BY <2>1, <2>2
<1>6. \A n \in Added : \/ log'[n] = s
                       \/ /\ Sound(log'[n]) /\ log'[n].mails = Soon.mails
                          /\ log'[n].gold = Soon.gold /\ log'[n].inv = Soon.inv
  BY <1>4, <1>5
<1>7. gold' = gold /\ gold \in [Chars -> Nat] BY <1>2 DEF IInv, TypeOK
<1>8. Balanced(s)
  <2>1. PICK c \in Chars : c = a.owner BY <1>2 DEF Auctions
  <2>2. Soon.gold \in [Chars -> Nat] BY Basics DEF Databases
  <2>3. PICK g \in Nat : g = Soon.gold[c] BY <2>2
  <2>4. Soon.gold = [Soon.gold EXCEPT ![c] = g] BY <2>2, <2>3
  <2>5. PICK v \in Auctions \cup {None} : v = None OBVIOUS
  <2>6. Deal(s, st, x, v, [Soon.gold EXCEPT ![c] = g]) BY <1>2, <2>4, <2>5
  <2>7. Owed(s) = t BY <1>2 DEF Given
  <2>8. Soon.ah[x] = a BY <1>2, OnSale
  <2>9. PICK fee, bid \in Nat : fee = Deposit /\ bid = a.bid BY <1>2, StoreAssumption DEF Auctions
  <2>10. PICK o \in Nat : o = Owed(Soon)
    <3>1. PICK h : h = Here OBVIOUS
    <3>2. Mailing(h, {}) /\ h.db = Soon BY <3>1, Basics DEF Here
    <3> QED BY <3>2, OwedNat
  <2>11. Value(a) = fee + (IF a.bidder = None THEN 0 ELSE bid) BY <1>2, <2>9 DEF Value
  <2>12. Value(v) = 0 BY <2>5 DEF Value
  <2>13. t = IF a.bidder = None THEN o + fee ELSE o + (bid + fee) BY <1>2, <2>9, <2>10
  <2>14. g + t + 0 = g + o + (fee + (IF a.bidder = None THEN 0 ELSE bid)) BY <2>13
  <2>15. g + Owed(s) + Value(v) = Soon.gold[c] + Owed(Soon) + Value(Soon.ah[x])
    BY <2>3, <2>7, <2>8, <2>10, <2>11, <2>12, <2>14
  <2>16. v # None => v.owner # v.bidder BY <2>5
  <2> QED BY <1>3, <2>6, <2>15, <2>16, DealBalanced
<1>9. DealMade(s, st, M, x, None, Soon.gold)
  BY <1>2, <1>5, <1>6, <1>7, <1>8 DEF DealMade
<1> QED BY <1>9, DealStep

\* What is put up for sale: x leaves the inventory of c for the auction.
LEMMA PutUpSound ==
    ASSUME IInv, NEW c \in Chars, NEW x \in Items, x \in Soon.inv[c], NEW a,
           a.mails = Soon.mails, a.gone = Soon.gone, a.ah[x] # None,
           \A y \in Items : y # x => a.ah[y] = Soon.ah[y],
           a.inv = [Soon.inv EXCEPT ![c] = Soon.inv[c] \ {x}],
           a.parted = Soon.parted, Balanced(a)
    PROVE  Sound(a)
<1>1. Soon \in Databases /\ Sound(Soon) BY Basics
<1>2. Soon.inv \in [Chars -> SUBSET Items] BY <1>1 DEF Databases
<1>3. Once(Soon, x) BY <1>1 DEF Sound
<1>4. /\ \A d \in Chars : x \in Soon.inv[d] => d = c
      /\ \A k \in Soon.mails : x \notin k.items
      /\ \A d \in Chars : <<d, x>> \notin Soon.parted
  BY <1>3, OnceBag
<1>5. \A d \in Chars : x \notin a.inv[d] BY <1>2, <1>4
<1>6. Once(a, x) BY <1>4, <1>5, OnceElse
<1>7. ASSUME NEW y \in Items, y # x PROVE Once(a, y)
  <2>1. Once(Soon, y) BY <1>1 DEF Sound
  <2>2. Posts(a, y) = Posts(Soon, y) BY DEF Posts
  <2>3. \A d \in Chars : y \in a.inv[d] <=> y \in Soon.inv[d] BY <1>2, <1>7
  <2>4. Alike(a, Soon, y) BY <1>7, <2>2, <2>3 DEF Alike
  <2> QED BY <2>1, <2>4, OnceAlike
<1> QED BY <1>1, <1>6, <1>7 DEF Sound

LEMMA PartedSound ==
    ASSUME IInv, NEW c \in Chars, NEW x \in Items, x \in Soon.inv[c], NEW a,
           a.mails = Soon.mails, a.gone = Soon.gone, a.ah = Soon.ah,
           a.inv = [Soon.inv EXCEPT ![c] = Soon.inv[c] \ {x}],
           a.parted = Soon.parted \cup {<<c, x>>},
           a \in Databases, a.gold = Soon.gold, a.burnt = Soon.burnt
    PROVE  Sound(a)
<1>1. Soon \in Databases /\ Sound(Soon) BY Basics
<1>2. Soon.inv \in [Chars -> SUBSET Items] BY <1>1 DEF Databases
<1>3. Once(Soon, x) BY <1>1 DEF Sound
<1>4. /\ x \notin Soon.gone /\ Soon.ah[x] = None
      /\ \A d \in Chars : x \in Soon.inv[d] => d = c
      /\ \A k \in Soon.mails : x \notin k.items
      /\ \A d \in Chars : <<d, x>> \notin Soon.parted
  BY <1>3, OnceBag
<1>5. \A d \in Chars : x \notin a.inv[d] BY <1>2, <1>4
<1>6. <<c, x>> \in a.parted /\ \A d \in Chars : <<d, x>> \in a.parted => d = c BY <1>4
<1>7. Once(a, x) BY <1>4, <1>5, <1>6, OnceCut
<1>8. ASSUME NEW y \in Items, y # x PROVE Once(a, y)
  <2>1. Once(Soon, y) BY <1>1 DEF Sound
  <2>2. Posts(a, y) = Posts(Soon, y) BY DEF Posts
  <2>3. \A d \in Chars : y \in a.inv[d] <=> y \in Soon.inv[d] BY <1>2, <1>8
  <2>4. \A d \in Chars : <<d, y>> \in a.parted <=> <<d, y>> \in Soon.parted BY <1>8
  <2>5. Alike(a, Soon, y) BY <2>2, <2>3, <2>4 DEF Alike
  <2> QED BY <2>1, <2>5, OnceAlike
<1>9. Proper(a.mails) /\ Proper(Soon.mails) /\ Balanced(Soon) BY <1>1 DEF Sound
<1>10. Money(a.mails) + a.burnt = Money(Soon.mails) + Soon.burnt OBVIOUS
<1>11. Balanced(a) BY <1>1, <1>9, <1>10, BalancedMails
<1> QED BY <1>7, <1>8, <1>9, <1>11 DEF Sound


\* What an item that is put up leaves in memory.
LEMMA PutUpMemory ==
    ASSUME IInv, NEW c \in Chars, NEW x \in Items, NEW b \in Nat, PutUp(c, x, b)
    PROVE  /\ InWorld(c) /\ x \in Soon.inv[c] /\ x \notin Soon.gone
           /\ \E g \in Nat : /\ gold' = [gold EXCEPT ![c] = g] /\ gold'[c] = g
                             /\ g + Deposit = Soon.gold[c]
           /\ inv' = [inv EXCEPT ![c] = Soon.inv[c] \ {x}] /\ inv'[c] = Soon.inv[c] \ {x}
           /\ gold' \in [Chars -> Nat] /\ inv' \in [Chars -> SUBSET Items]
           /\ NewAuction(c, b) \in Auctions /\ NewAuction(c, b) # None
           /\ ah' = [ah EXCEPT ![x] = NewAuction(c, b)]
           /\ UNCHANGED <<status, ahead, box, deleted>>
<1>1. /\ InWorld(c) /\ x \in inv[c] /\ gold[c] >= Deposit
      /\ gold' = [gold EXCEPT ![c] = @ - Deposit]
      /\ inv' = [inv EXCEPT ![c] = @ \ {x}]
      /\ ah' = [ah EXCEPT ![x] = NewAuction(c, b)]
      /\ UNCHANGED <<status, ahead, box, deleted>>
  BY DEF PutUp
<1>2. inv[c] = Soon.inv[c] /\ gold[c] = Soon.gold[c] BY <1>1 DEF IInv, Member, Mirror, InWorld
<1>3. gold \in [Chars -> Nat] /\ inv \in [Chars -> SUBSET Items] BY DEF IInv, TypeOK
<1>4. PICK g \in Nat : g = gold[c] - Deposit BY <1>1, <1>3, StoreAssumption
<1>5. gold' = [gold EXCEPT ![c] = g] /\ gold'[c] = g BY <1>1, <1>3, <1>4
<1>a. g + Deposit = Soon.gold[c] BY <1>2, <1>3, <1>4, StoreAssumption
<1>6. inv' = [inv EXCEPT ![c] = Soon.inv[c] \ {x}] /\ inv'[c] = Soon.inv[c] \ {x} BY <1>1, <1>2, <1>3
<1>7. gold' \in [Chars -> Nat] /\ inv' \in [Chars -> SUBSET Items] BY <1>1, <1>3, <1>5
<1>8. NewAuction(c, b) \in Auctions BY DEF NewAuction, Auctions
<1>9. Once(Soon, x) BY Basics DEF Sound
<1>10. x \notin Soon.gone BY <1>1, <1>2, <1>9, OnceBag
<1> QED BY <1>a, <1>1, <1>2, <1>5, <1>6, <1>7, <1>8, <1>10, NoneAssumption

\* The rows after an item was put up: a state a of one transaction, or of the
\* second of two.
PutUpRows(a, c, x, v) ==
    /\ a \in Databases /\ a.mails = Soon.mails /\ a.gone = Soon.gone
    /\ a.ah = [Soon.ah EXCEPT ![x] = v] /\ a.gold = [Soon.gold EXCEPT ![c] = gold'[c]]
    /\ a.inv = [Soon.inv EXCEPT ![c] = Soon.inv[c] \ {x}] /\ a.parted = Soon.parted
    /\ a.burnt = Soon.burnt /\ a.chars = Soon.chars

LEMMA PutUpStep ==
    ASSUME IInv, NEW c \in Chars, NEW x \in Items, NEW b \in Nat, PutUp(c, x, b),
           NEW a, PutUpRows(a, c, x, NewAuction(c, b)), Grown, Soon' = a,
           \A n \in Added : \/ log'[n] = a
                            \/ /\ Sound(log'[n]) /\ log'[n].mails = Soon.mails
                               /\ log'[n].gold = Soon.gold
                               /\ log'[n].inv = [Soon.inv EXCEPT ![c] = Soon.inv[c] \ {x}]
    PROVE  IInv'
<1>1. PICK v : v = NewAuction(c, b) OBVIOUS
<1>2. PICK g \in Nat : /\ gold' = [gold EXCEPT ![c] = g] /\ gold'[c] = g
                       /\ g + Deposit = Soon.gold[c]
  BY PutUpMemory
<1>3. PICK r : r = Soon.inv[c] \ {x} OBVIOUS
<1>4. /\ InWorld(c) /\ x \in Soon.inv[c] /\ x \notin Soon.gone
      /\ inv' = [inv EXCEPT ![c] = r] /\ inv'[c] = r
      /\ gold' \in [Chars -> Nat] /\ inv' \in [Chars -> SUBSET Items]
      /\ v \in Auctions /\ v # None
      /\ ah' = [ah EXCEPT ![x] = v]
      /\ UNCHANGED <<status, ahead, box, deleted>>
  BY <1>1, <1>3, PutUpMemory
<1>5. /\ a \in Databases /\ a.mails = Soon.mails /\ a.gone = Soon.gone
      /\ a.ah = [Soon.ah EXCEPT ![x] = v] /\ a.gold = [Soon.gold EXCEPT ![c] = g]
      /\ a.inv = [Soon.inv EXCEPT ![c] = r] /\ a.parted = Soon.parted
  BY <1>1, <1>2, <1>3 DEF PutUpRows
<1>6. /\ Soon.gold \in [Chars -> Nat] /\ Soon.inv \in [Chars -> SUBSET Items]
      /\ Soon.ah \in [Items -> Auctions \cup {None}]
  BY Basics DEF Databases
<1>7. a.ah[x] = v /\ \A y \in Items : y # x => a.ah[y] = Soon.ah[y] BY <1>5, <1>6
<1>8. /\ x \in Soon.inv[c] /\ a.mails = Soon.mails /\ a.gone = Soon.gone /\ a.ah[x] # None
      /\ \A y \in Items : y # x => a.ah[y] = Soon.ah[y]
      /\ a.inv = [Soon.inv EXCEPT ![c] = Soon.inv[c] \ {x}] /\ a.parted = Soon.parted
  BY <1>3, <1>4, <1>5, <1>7
<1>18. Balanced(a)
  <2>1. PICK db \in Databases : db = Soon /\ Sound(db) BY Basics
  <2>2. Balanced(db) /\ Proper(db.mails) /\ Once(db, x) BY <2>1 DEF Sound
  <2>3. db.ah[x] = None BY <1>4, <2>1, <2>2, OnceBag
  <2>4. PICK u \in Auctions \cup {None} : u = v BY <1>4
  <2>5. v.owner = c /\ v.bidder = None /\ c # None BY <1>1, StoreAssumption DEF NewAuction
  <2>6. PICK fee \in Nat : fee = Deposit BY StoreAssumption
  <2>7. Value(db.ah[x]) = 0 BY <2>3 DEF Value
  <2>8. Value(u) = fee + 0 BY <1>4, <2>4, <2>5, <2>6 DEF Value
  <2>9. db.gold \in [Chars -> Nat] /\ db.mails \in SUBSET Mails /\ db.burnt \in Nat BY DEF Databases
  <2>10. Money(db.mails) \in Nat BY <2>2, <2>9, MailsFinite
  <2>11. PICK h, p, q \in Nat : h = db.gold[c] /\ p = Money(db.mails) /\ q = db.burnt BY <2>9, <2>10
  <2>12. g + fee = h BY <1>2, <2>1, <2>6, <2>11
  <2>13. g + p + (fee + 0) + q = h + p + 0 + q BY <2>12
  <2>14. a.burnt = db.burnt BY <2>1 DEF PutUpRows
  <2>15. g + Money(a.mails) + Value(u) + a.burnt
         = db.gold[c] + Money(db.mails) + Value(db.ah[x]) + db.burnt
    BY <1>5, <2>1, <2>7, <2>8, <2>11, <2>13, <2>14
  <2>16. /\ a \in Databases /\ Proper(a.mails) /\ a.gold = [db.gold EXCEPT ![c] = g]
         /\ a.ah = [db.ah EXCEPT ![x] = u] /\ (u # None => u.owner # u.bidder)
    BY <1>5, <2>1, <2>2, <2>4, <2>5
  <2> QED BY <2>2, <2>15, <2>16, BalancedSale
<1>9. Sound(a) BY <1>8, <1>18, PutUpSound
<1>10. \A n \in Added : Sound(log'[n]) /\ log'[n].mails \subseteq a.mails BY <1>5, <1>9
<1>11. gold \in [Chars -> Nat] /\ inv \in [Chars -> SUBSET Items] BY DEF IInv, TypeOK
<1>12. ASSUME NEW d \in Chars
       PROVE  \/ /\ gold'[d] = gold[d] /\ inv'[d] = inv[d]
                 /\ a.gold[d] = Soon.gold[d] /\ a.inv[d] = Soon.inv[d]
                 /\ \A n \in Added : log'[n].gold[d] = Soon.gold[d] /\ log'[n].inv[d] = Soon.inv[d]
              \/ InWorld(d) /\ gold'[d] = a.gold[d] /\ inv'[d] = a.inv[d]
  <2>1. CASE d = c
    <3>1. a.gold[c] = g /\ a.inv[c] = r BY <1>5, <1>6
    <3> QED BY <1>2, <1>4, <2>1, <3>1
  <2>2. CASE d # c
    <3>1. gold'[d] = gold[d] /\ inv'[d] = inv[d] BY <1>2, <1>4, <1>11, <2>2
    <3>2. a.gold[d] = Soon.gold[d] /\ a.inv[d] = Soon.inv[d] BY <1>5, <1>6, <2>2
    <3>3. [Soon.inv EXCEPT ![c] = Soon.inv[c] \ {x}][d] = Soon.inv[d] BY <1>6, <2>2
    <3>4. \A n \in Added : log'[n].gold[d] = Soon.gold[d] /\ log'[n].inv[d] = Soon.inv[d]
      BY <3>2, <3>3
    <3> QED BY <3>1, <3>2, <3>4
  <2> QED BY <2>1, <2>2
<1>13. PICK st : st = Here OBVIOUS
<1>14. Mailing(st, {}) /\ st.box = box BY <1>13, Basics DEF Here
<1>15. PICK N : N = {} OBVIOUS
<1>16. Mailing(st, N) /\ a.mails = Soon.mails \cup N BY <1>5, <1>14, <1>15
<1>17. Dealing(a, st, N, x, v)
  BY <1>4, <1>5, <1>10, <1>12, <1>14, <1>16 DEF Dealing
<1> QED BY <1>17, DealingStep


LEMMA SellItemRows ==
    ASSUME IInv, NEW c \in Chars, NEW x \in Items, NEW b \in Nat, SellItem(c, x, b)
    PROVE  \E a : PutUpRows(a, c, x, NewAuction(c, b)) /\ Commit(<<a>>)
<1>1. PutUp(c, x, b) BY DEF SellItem
<1>2. PICK v \in Auctions \cup {None} : v = NewAuction(c, b) BY <1>1, PutUpMemory
<1>3. PICK db \in Databases : db = Soon BY Basics
<1>4. PICK g \in Nat : g = gold'[c] BY <1>1, PutUpMemory
<1>5. PICK r \in SUBSET Items : r = Soon.inv[c] \ {x} BY <1>3 DEF Databases
<1>6. r = inv'[c] BY <1>1, <1>5, PutUpMemory
<1>7. PICK e : e = SaveInventoryAndGold(db, c, g, r) OBVIOUS
<1>8. /\ e \in Databases
      /\ e.gold = [db.gold EXCEPT ![c] = g]
      /\ e.inv = [db.inv EXCEPT ![c] = r]
      /\ e.mails = db.mails /\ e.ah = db.ah /\ e.parted = db.parted /\ e.gone = db.gone
      /\ e.burnt = db.burnt /\ e.chars = db.chars
  BY <1>7, Saved
<1>9. PICK a : a = [e EXCEPT !.ah[x] = v] OBVIOUS
<1>10. /\ a \in Databases /\ a.ah = [e.ah EXCEPT ![x] = v]
       /\ a.gold = e.gold /\ a.inv = e.inv /\ a.mails = e.mails
       /\ a.parted = e.parted /\ a.gone = e.gone /\ a.burnt = e.burnt /\ a.chars = e.chars
  BY <1>8, <1>9, Auctioning
<1>11. Commit(<<a>>) BY <1>2, <1>3, <1>4, <1>6, <1>7, <1>9 DEF SellItem
<1>12. PutUpRows(a, c, x, NewAuction(c, b)) BY <1>2, <1>3, <1>4, <1>5, <1>8, <1>10 DEF PutUpRows
<1> QED BY <1>11, <1>12

LEMMA SellItemStep ==
    ASSUME IInv, NEW c \in Chars, NEW x \in Items, NEW b \in Nat, SellItem(c, x, b)
    PROVE  IInv'
<1>1. PICK a : PutUpRows(a, c, x, NewAuction(c, b)) /\ Commit(<<a>>) BY SellItemRows
<1>2. a \in Databases BY <1>1 DEF PutUpRows
<1>3. Grown /\ Soon' = a /\ \A n \in Added : log'[n] = a BY <1>1, <1>2, Basics, OneMore
<1>4. PutUp(c, x, b) BY DEF SellItem
<1>5. \A n \in Added : \/ log'[n] = a
                       \/ /\ Sound(log'[n]) /\ log'[n].mails = Soon.mails
                          /\ log'[n].gold = Soon.gold
                          /\ log'[n].inv = [Soon.inv EXCEPT ![c] = Soon.inv[c] \ {x}]
  BY <1>3
<1>6. Grown /\ Soon' = a BY <1>3
<1> QED BY <1>1, <1>4, <1>5, <1>6, PutUpStep

\* The first transaction of SellPart.
CutOff(split, c, x) ==
    /\ x \in Soon.inv[c] /\ split \in Databases /\ split.mails = Soon.mails /\ split.gone = Soon.gone
    /\ split.ah = Soon.ah /\ split.gold = Soon.gold
    /\ split.inv = [Soon.inv EXCEPT ![c] = Soon.inv[c] \ {x}]
    /\ split.parted = Soon.parted \cup {<<c, x>>}
    /\ split.burnt = Soon.burnt /\ split.chars = Soon.chars /\ Sound(split)

LEMMA SellPartRows ==
    ASSUME IInv, NEW c \in Chars, NEW x \in Items, NEW b \in Nat, SellPart(c, x, b)
    PROVE  \E split, a : /\ CutOff(split, c, x) /\ PutUpRows(a, c, x, NewAuction(c, b))
                         /\ Commit(<<split, a>>)
<1>1. PutUp(c, x, b) BY DEF SellPart
<1>2. PICK v \in Auctions \cup {None} : v = NewAuction(c, b) BY <1>1, PutUpMemory
<1>3. PICK db \in Databases : db = Soon BY Basics
<1>4. PICK g \in Nat : g = gold'[c] BY <1>1, PutUpMemory
<1>5. PICK r \in SUBSET Items : r = Soon.inv[c] \ {x} BY <1>3 DEF Databases
<1>6. r = inv'[c] BY <1>1, <1>5, PutUpMemory
<1>7. PICK split : split = [db EXCEPT !.inv[c] = @ \ {x}, !.parted = @ \cup {<<c, x>>}] OBVIOUS
<1>8. /\ split \in Databases
      /\ split.inv = [db.inv EXCEPT ![c] = r] /\ split.parted = db.parted \cup {<<c, x>>}
      /\ split.gold = db.gold /\ split.mails = db.mails /\ split.ah = db.ah /\ split.gone = db.gone
      /\ split.burnt = db.burnt /\ split.chars = db.chars
  <2>0. <<c, x>> \in Chars \X Items /\ db.parted \in SUBSET (Chars \X Items) BY DEF Databases
  <2>1. PICK p \in SUBSET (Chars \X Items) : p = db.parted \cup {<<c, x>>} BY <2>0
  <2>2. split = [db EXCEPT !.inv[c] = r, !.parted = p] BY <1>3, <1>5, <1>7, <2>1
  <2>3. /\ split \in Databases
        /\ split.inv = [db.inv EXCEPT ![c] = r] /\ split.parted = p
        /\ split.gold = db.gold /\ split.mails = db.mails /\ split.ah = db.ah
        /\ split.gone = db.gone /\ split.burnt = db.burnt /\ split.chars = db.chars
    BY <2>2 DEF Databases
  <2> QED BY <2>1, <2>3
<1>9. PICK e : e = SaveInventoryAndGold(split, c, g, r) OBVIOUS
<1>10. /\ e \in Databases
       /\ e.gold = [split.gold EXCEPT ![c] = g]
       /\ e.inv = [split.inv EXCEPT ![c] = r]
       /\ e.mails = split.mails /\ e.ah = split.ah /\ e.parted = split.parted
       /\ e.gone = split.gone /\ e.burnt = split.burnt /\ e.chars = split.chars
  BY <1>8, <1>9, Saved
<1>11. PICK a : a = [e EXCEPT !.ah[x] = v, !.parted = @ \ {<<c, x>>}] OBVIOUS
<1>12. /\ a \in Databases /\ a.ah = [e.ah EXCEPT ![x] = v]
       /\ a.gold = e.gold /\ a.inv = e.inv /\ a.mails = e.mails
       /\ a.parted = e.parted \ {<<c, x>>} /\ a.gone = e.gone /\ a.burnt = e.burnt
       /\ a.chars = e.chars
  BY <1>10, <1>11 DEF Databases
<1>13. Commit(<<split, a>>) BY <1>2, <1>3, <1>4, <1>6, <1>7, <1>9, <1>11 DEF SellPart
<1>14. x \in Soon.inv[c] BY <1>1, PutUpMemory
<1>15. <<c, x>> \notin Soon.parted
  <2>1. Once(Soon, x) BY Basics DEF Sound
  <2> QED BY <1>14, <2>1, OnceBag
<1>16. a.parted = Soon.parted BY <1>3, <1>8, <1>10, <1>12, <1>15
<1>17. db.inv \in [Chars -> SUBSET Items] BY DEF Databases
<1>18. a.inv = [Soon.inv EXCEPT ![c] = r] BY <1>3, <1>8, <1>10, <1>12, <1>17
<1>19. PutUpRows(a, c, x, NewAuction(c, b))
  BY <1>2, <1>3, <1>4, <1>5, <1>8, <1>10, <1>12, <1>16, <1>18 DEF PutUpRows
<1>20. /\ x \in Soon.inv[c] /\ split.mails = Soon.mails /\ split.gone = Soon.gone
       /\ split.ah = Soon.ah /\ split.gold = Soon.gold
       /\ split.inv = [Soon.inv EXCEPT ![c] = Soon.inv[c] \ {x}]
       /\ split.parted = Soon.parted \cup {<<c, x>>}
       /\ split \in Databases /\ split.burnt = Soon.burnt /\ split.chars = Soon.chars
  BY <1>3, <1>5, <1>8, <1>14
<1>21. Sound(split) BY <1>20, PartedSound
<1>22. CutOff(split, c, x) BY <1>20, <1>21 DEF CutOff
<1> QED BY <1>13, <1>19, <1>22

LEMMA SellPartStep ==
    ASSUME IInv, NEW c \in Chars, NEW x \in Items, NEW b \in Nat, SellPart(c, x, b)
    PROVE  IInv'
<1>1. PICK split, a : /\ CutOff(split, c, x) /\ PutUpRows(a, c, x, NewAuction(c, b))
                      /\ Commit(<<split, a>>)
  BY SellPartRows
<1>2. PutUp(c, x, b) BY DEF SellPart
<1>3. a \in Databases /\ split \in Databases BY <1>1 DEF PutUpRows, CutOff
<1>4. Grown /\ Soon' = a /\ \A n \in Added : log'[n] \in {split, a}
  BY <1>1, <1>3, Basics, TwoMore
<1>5. \A n \in Added : \/ log'[n] = a
                       \/ /\ Sound(log'[n]) /\ log'[n].mails = Soon.mails
                          /\ log'[n].gold = Soon.gold
                          /\ log'[n].inv = [Soon.inv EXCEPT ![c] = Soon.inv[c] \ {x}]
  BY <1>1, <1>4 DEF CutOff
<1> QED BY <1>1, <1>2, <1>4, <1>5, PutUpStep

-----------------------------------------------------------------------------
(* The theorems.                                                            *)

\* What the theorems are about: neither operation that reads the database while
\* changes to it are queued does so, and nobody is deleted who sells.
Calm == ~Races /\ ~DeleteSellers

LEMMA MailNextStep ==
    ASSUME IInv, Calm, MailNext, UNCHANGED ah
    PROVE  IInv'
<1>1. ASSUME NEW c \in Chars, Logout(c) \/ LoginRequest(c) \/ Login(c) PROVE IInv'
  BY <1>1, LogoutStep, LoginRequestStep, LoginStep
<1>2. ASSUME NEW w \in Letters, NEW money \in Sums \cup {0}, NEW cod \in Sums \cup {0},
             NEW items \in SUBSET Items, SendMail(w[1], w[2], money, cod, items)
      PROVE  IInv'
  <2>1. w[1] \in Chars /\ w[2] \in Chars /\ money \in Nat /\ cod \in Nat BY MailAssumption
  <2> QED BY <1>2, <2>1, SendMailStep
<1>3. ASSUME NEW c \in Chars, NEW m \in box[c],
             \/ DeleteMail(c, m) \/ ReturnMail(c, m) \/ TakeMoney(c, m)
             \/ \E x \in m.items : TakeItem(c, m, x)
      PROVE  IInv'
  BY <1>3, DeleteMailStep, ReturnMailStep, TakeMoneyStep, TakeItemStep
<1>4. ASSUME NEW m \in Now.mails, NEW drop \in BOOLEAN, ExpireMail(m, drop) PROVE IInv'
  BY <1>4, ExpireMailStep DEF Calm
<1>5. ASSUME Apply PROVE IInv' BY <1>5, ApplyStep
<1> QED BY <1>1, <1>2, <1>3, <1>4, <1>5 DEF MailNext


LEMMA NextStep ==
    ASSUME IInv, Calm, [Next]_vars
    PROVE  IInv'
<1>1. CASE MailNext /\ UNCHANGED ah BY <1>1, MailNextStep
<1>2. ASSUME NEW c \in Leavers, DeleteCharacter(c),
             DeleteSellers \/ \A x \in Items : ah[x] # None => ah[x].owner # c, UNCHANGED ah
      PROVE  IInv'
  <2>1. c \in Chars BY AuctionAssumption
  <2> QED BY <1>2, <2>1, DeleteCharacterStep DEF Calm
<1>3. ASSUME NEW c \in Chars, NEW x \in Items, NEW b \in Buyouts,
             SellItem(c, x, b) \/ SellPart(c, x, b)
      PROVE  IInv'
  <2>1. b \in Nat BY AuctionAssumption
  <2> QED BY <1>3, <2>1, SellItemStep, SellPartStep
<1>4. ASSUME NEW c \in Chars, NEW x \in Items, NEW p \in Prices,
             PlaceBid(c, x, p) \/ Buyout(c, x, p)
      PROVE  IInv'
  <2>1. p \in Nat BY AuctionAssumption
  <2> QED BY <1>4, <2>1, PlaceBidStep, BuyoutStep
<1>5. ASSUME NEW c \in Chars, NEW x \in Items, CancelAuction(c, x) PROVE IInv'
  BY <1>5, CancelAuctionStep
<1>6. ASSUME NEW x \in Items, AuctionExpires(x) PROVE IInv' BY <1>6, AuctionExpiresStep
<1>7. CASE Restart BY <1>7, RestartStep
<1>8. CASE UNCHANGED vars
  <2>1. /\ log' = log /\ status' = status /\ ahead' = ahead /\ gold' = gold /\ inv' = inv
        /\ box' = box /\ deleted' = deleted /\ ah' = ah
    BY <1>8 DEF vars
  <2>2. TypeOK' BY <2>1 DEF IInv, TypeOK
  <2>3. Soon' = Soon BY <2>1 DEF Soon
  <2>4. \A n \in DOMAIN log' : Sound(log'[n]) BY <2>1 DEF IInv
  <2>5. ASSUME NEW c \in Chars PROVE Member(c)'
    <3>1. Member(c) BY DEF IInv
    <3>2. Mirror(c)' <=> Mirror(c) BY <2>1, <2>3 DEF Mirror
    <3>3. \A n : Settled(c, n)' <=> Settled(c, n) BY <2>1, <2>3 DEF Settled
    <3> QED BY <2>1, <3>1, <3>2, <3>3 DEF Member
  <2>6. ASSUME NEW x \in Items PROVE Listed(x)'
    <3>1. Listed(x) BY DEF IInv
    <3> QED BY <2>1, <2>3, <3>1 DEF Listed
  <2> QED BY <2>2, <2>4, <2>5, <2>6 DEF IInv
<1> QED BY <1>1, <1>2, <1>3, <1>4, <1>5, <1>6, <1>7, <1>8 DEF Next

\* Where an item is once, the rows name one place.
LEMMA OncePlaces ==
    ASSUME NEW db, NEW x, Once(db, x)
    PROVE  IF x \in db.gone
           THEN Places(db, x) = IF db.ah[x] = None THEN 0 ELSE 1
           ELSE Places(db, x) = 1
<1>1. \A S : Lone(S) => Cardinality(S) = 1 BY FS_Singleton DEF Lone
<1>2. Cardinality({}) = 0 BY FS_EmptySet
<1>3. Places(db, x) = Cardinality(Bags(db, x)) + Cardinality(Posts(db, x))
                      + (IF db.ah[x] = None THEN 0 ELSE 1) + Cardinality(Cuts(db, x))
  BY DEF Places, Bags, Posts, Cuts
<1>4. PICK b : b = Cardinality(Bags(db, x)) OBVIOUS
<1>5. PICK p : p = Cardinality(Posts(db, x)) OBVIOUS
<1>6. PICK k : k = Cardinality(Cuts(db, x)) OBVIOUS
<1>7. Places(db, x) = b + p + (IF db.ah[x] = None THEN 0 ELSE 1) + k BY <1>3, <1>4, <1>5, <1>6
<1>8. CASE x \in db.gone
  <2>1. b = 0 /\ p = 0 /\ k = 0 BY <1>2, <1>4, <1>5, <1>6, <1>8 DEF Once
  <2> QED BY <1>7, <1>8, <2>1
<1>9. CASE x \notin db.gone
  <2>1. \/ b = 1 /\ p = 0 /\ k = 0 /\ db.ah[x] = None
        \/ b = 0 /\ p = 1 /\ k = 0 /\ db.ah[x] = None
        \/ b = 0 /\ p = 0 /\ k = 1 /\ db.ah[x] = None
        \/ b = 0 /\ p = 0 /\ k = 0 /\ db.ah[x] # None
    BY <1>1, <1>2, <1>4, <1>5, <1>6, <1>9 DEF Once
  <2> QED BY <1>7, <1>9, <2>1
<1> QED BY <1>8, <1>9

LEMMA Invariant == Calm => (Spec => []IInv)
<1> SUFFICES ASSUME Calm PROVE Spec => []IInv OBVIOUS
<1>1. Init => IInv BY InitIInv
<1>2. IInv /\ [Next]_vars => IInv' BY NextStep
<1> QED BY <1>1, <1>2, PTL DEF Spec

\* Every variable keeps its type, whatever players do and whenever the server
\* crashes.
THEOREM TypeCorrect == Calm => (Spec => []TypeOK)
<1>1. IInv => TypeOK BY DEF IInv
<1> QED BY <1>1, Invariant, PTL

\* No item is lost or doubled: in every state the database goes through, each
\* is in exactly one inventory, mail, auction or transaction in two parts.
THEOREM ItemsCorrect == Calm => (Spec => []ItemsOnce)
<1>1. IInv => ItemsOnce
  <2> SUFFICES ASSUME IInv, NEW n \in DOMAIN log, NEW x \in Items
               PROVE  IF x \in log[n].gone
                      THEN Places(log[n], x) = IF log[n].ah[x] = None THEN 0 ELSE 1
                      ELSE Places(log[n], x) = 1
    BY DEF ItemsOnce
  <2>1. Once(log[n], x) BY DEF IInv, Sound
  <2> QED BY <2>1, OncePlaces
<1> QED BY <1>1, Invariant, PTL

\* No money is made or lost: in every state the database goes through, purses,
\* mails, bids, deposits and what was paid in fees or thrown away make up what
\* there was at the start.
THEOREM MoneyCorrect == Calm => (Spec => []MoneyConserved)
<1>1. IInv => MoneyConserved
  <2> SUFFICES ASSUME IInv, NEW n \in DOMAIN log PROVE TotalMoney(log[n]) = Total(StartGold)
    BY DEF MoneyConserved
  <2>1. PICK db \in Databases : db = log[n] BY DEF IInv, TypeOK
  <2>2. Proper(db.mails) /\ Balanced(db) BY <2>1 DEF IInv, Sound
  <2>3. db.mails \in SUBSET Mails BY DEF Databases
  <2>4. IsFiniteSet(db.mails) BY <2>2, <2>3, MailsFinite
  <2>5. Fair(db.ah) /\ Worth(db) = Total(StartGold) BY <2>2 DEF Balanced
  <2>6. TotalMoney(db) = Worth(db) BY <2>4, <2>5, WorthIs
  <2> QED BY <2>1, <2>5, <2>6
<1> QED BY <1>1, Invariant, PTL

\* What the handlers work with (the purses, the inventories, the mail boxes and
\* the auctions in memory) is what the database will hold once the queue is
\* empty.
THEOREM MemoryCorrect == Calm => (Spec => []MemoryStored)
<1>1. IInv => MemoryStored
  <2> SUFFICES ASSUME IInv PROVE MemoryStored OBVIOUS
  <2>1. ASSUME NEW c \in Chars, InWorld(c)
        PROVE  gold[c] = Soon.gold[c] /\ inv[c] = Soon.inv[c] /\ box[c] \subseteq MailsOf(Soon, c)
    <3>1. status[c] = "online" BY <2>1 DEF InWorld
    <3> QED BY <3>1 DEF IInv, Member, Mirror
  <2>2. \A x \in Items \ Soon.gone : ah[x] = Soon.ah[x] BY DEF IInv, Listed
  <2> QED BY <2>1, <2>2 DEF MemoryStored, BoxStored, MailsOf
<1> QED BY <1>1, Invariant, PTL
=============================================================================
