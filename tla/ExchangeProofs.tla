--------------------------- MODULE ExchangeProofs ---------------------------
(***************************************************************************)
(* The rows that the auction house and the mail leave behind implement     *)
(* module Exchange: the invariant about the transactions in the queue, the *)
(* step of Exchange that each handler queues, and the refinement.          *)
(***************************************************************************)
EXTENDS AuctionHouseProofs

-----------------------------------------------------------------------------
(* Whom the rows of a state say money and items belong to, read as in       *)
(* module Exchange.                                                         *)

\* What c has in the auction v, if there is one, and in the auctions h.
Share(v, c) == IF v = None THEN 0 ELSE Stake(v, c)

Shares(h, c) == Total([x \in Items |-> Share(h[x], c)])

LEMMA ShareNat ==
    ASSUME NEW v \in Auctions \cup {None}, NEW c
    PROVE  Share(v, c) \in Nat
BY StoreAssumption DEF Share, Stake, Auctions

LEMMA SharesPut ==
    ASSUME NEW h \in [Items -> Auctions \cup {None}], NEW c
    PROVE  /\ Shares(h, c) \in Nat
           /\ \A x \in Items : \A v \in Auctions \cup {None} :
                 Shares([h EXCEPT ![x] = v], c) = Shares(h, c) - Share(h[x], c) + Share(v, c)
<1> DEFINE f == [x \in Items |-> Share(h[x], c)]
<1>1. IsFiniteSet(Items) BY StoreAssumption
<1>2. \A x \in Items : Share(h[x], c) \in Nat BY ShareNat
<1>3. f \in [Items -> Nat] /\ f \in [Items -> Int] BY <1>2
<1>4. Shares(h, c) = Total(f) BY DEF Shares
<1> HIDE DEF f
<1>5. Total(f) \in Nat BY <1>1, <1>3, TotalNat
<1>6. ASSUME NEW x \in Items, NEW v \in Auctions \cup {None}
      PROVE  Shares([h EXCEPT ![x] = v], c) = Shares(h, c) - Share(h[x], c) + Share(v, c)
  <2>1. PICK s \in Nat : s = Share(v, c) BY ShareNat
  <2>2. Total([f EXCEPT ![x] = s]) = Total(f) - f[x] + s
    <3>1. s \in Int BY <2>1
    <3> QED BY <1>1, <1>3, <3>1, TotalPut
  <2>3. PICK k : k = [h EXCEPT ![x] = v] OBVIOUS
  <2>4. \A y \in Items : k[y] = IF y = x THEN v ELSE h[y] BY <2>3
  <2>5. [y \in Items |-> Share(k[y], c)] = [f EXCEPT ![x] = s] BY <2>1, <2>4 DEF f
  <2>6. f[x] = Share(h[x], c) BY DEF f
  <2> QED BY <1>4, <2>1, <2>2, <2>3, <2>5, <2>6 DEF Shares
<1> QED BY <1>4, <1>5, <1>6

\* The money of a character: his purse, the mails to him and what he has in
\* auctions.
LEMMA WealthAt ==
    ASSUME NEW db \in Databases, Proper(db.mails), NEW c \in Chars
    PROVE  /\ Wealth(db)[c] = db.gold[c] + Post(db.mails, c) + Shares(db.ah, c)
           /\ db.gold[c] \in Nat /\ Post(db.mails, c) \in Nat /\ Shares(db.ah, c) \in Nat
           /\ Wealth(db)[c] \in Nat
<1>1. /\ db.gold \in [Chars -> Nat] /\ db.mails \in SUBSET Mails
      /\ db.ah \in [Items -> Auctions \cup {None}]
  BY DEF Databases
<1>2. Post(db.mails, c) \in Nat
  <2>1. {m \in db.mails : m.to = c} \in SUBSET db.mails OBVIOUS
  <2> QED BY <1>1, <2>1, MailsFinite DEF Post
<1>3. Shares(db.ah, c) \in Nat BY <1>1, SharesPut
<1>4. Total([x \in Auctioned(db) |-> Stake(db.ah[x], c)]) = Shares(db.ah, c)
  <2> DEFINE f == [x \in Items |-> Share(db.ah[x], c)]
             S == Auctioned(db)
  <2>1. \A x \in Items : Share(db.ah[x], c) \in Int
    <3>1. \A x \in Items : Share(db.ah[x], c) \in Nat BY <1>1, ShareNat
    <3> QED BY <3>1
  <2>2. f \in [Items -> Int] /\ S \in SUBSET Items /\ IsFiniteSet(Items)
    BY <2>1, StoreAssumption DEF Auctioned
  <2>3. Part(f, S) = [x \in Auctioned(db) |-> Stake(db.ah[x], c)]
    BY DEF Part, Auctioned, Share
  <2>4. PICK T : T = Items \ S OBVIOUS
  <2>5. Part(f, T) = [x \in T |-> 0] BY <2>4 DEF Part, Auctioned, Share
  <2>6. IsFiniteSet(T) BY <2>2, <2>4, FS_Subset
  <2>7. PICK p : p = Part(f, T) OBVIOUS
  <2>8. Total(p) = 0 BY <2>5, <2>6, <2>7, TotalZero
  <2> HIDE DEF f, S
  <2>9. Total(f) = Total(Part(f, S)) + Total(Part(f, Items \ S)) BY <2>2, TotalSplit
  <2>10. Total(Part(f, S)) \in Int BY <2>2, TotalPart
  <2>11. Total(f) = Total(Part(f, S)) BY <2>4, <2>7, <2>8, <2>9, <2>10
  <2> QED BY <2>3, <2>11 DEF Shares, f
<1>5. Wealth(db)[c] = db.gold[c] + Post(db.mails, c) + Shares(db.ah, c)
  BY <1>4 DEF Wealth, Post
<1> QED BY <1>1, <1>2, <1>3, <1>5

\* What all characters have is what was not paid in fees or thrown away.
LEMMA WealthTotal ==
    ASSUME NEW db \in Databases, Sound(db)
    PROVE  /\ Wealth(db) \in [Chars -> Nat] /\ db.burnt \in Nat /\ Total(Wealth(db)) \in Nat
           /\ Total(Wealth(db)) + db.burnt = Total(StartGold)
<1>1. Proper(db.mails) /\ Balanced(db) BY DEF Sound
<1>2. db.mails \in SUBSET Mails /\ db.burnt \in Nat BY DEF Databases
<1>3. IsFiniteSet(db.mails) BY <1>1, <1>2, MailsFinite
<1>4. TotalMoney(db) = Total(StartGold) BY <1>1, <1>3, WorthIs DEF Balanced
<1>5. ASSUME NEW c \in Chars PROVE Wealth(db)[c] \in Nat BY <1>1, WealthAt
<1>6. PICK w : w = Wealth(db) OBVIOUS
<1>7. w \in [Chars -> Nat]
  <2>1. w = [c \in Chars |-> w[c]] BY <1>6 DEF Wealth
  <2> QED BY <1>5, <1>6, <2>1
<1>8. Total(w) \in Nat BY <1>7, StoreAssumption, TotalNat
<1> QED BY <1>2, <1>4, <1>6, <1>7, <1>8 DEF TotalMoney

\* Rows that say the same of an item.
LEMMA HasAlike ==
    ASSUME NEW e, NEW db, NEW x \in Items, Alike(e, db, x)
    PROVE  Holder(e)[x] = Holder(db)[x] /\ Offers(e)[x] = Offers(db)[x]
<1>1. \A m : (m \in e.mails /\ x \in m.items) <=> (m \in db.mails /\ x \in m.items)
  BY DEF Alike, Posts
<1>2. Holders(e, x) = Holders(db, x) BY <1>1 DEF Alike, Holders
<1>3. (x \in e.gone <=> x \in db.gone) /\ e.ah[x] = db.ah[x] BY DEF Alike
<1>4. Holder(e)[x] = Holder(db)[x] BY <1>2, <1>3 DEF Holder
<1>5. {<<m.to, m.cod>> : m \in {n \in e.mails : x \in n.items /\ n.cod > 0}}
      = {<<m.to, m.cod>> : m \in {n \in db.mails : x \in n.items /\ n.cod > 0}}
  <2>1. {n \in e.mails : x \in n.items /\ n.cod > 0} = {n \in db.mails : x \in n.items /\ n.cod > 0}
    BY <1>1
  <2> QED BY <2>1
<1> QED BY <1>3, <1>4, <1>5 DEF Offers

LEMMA HasGone ==
    ASSUME NEW db, NEW x \in Items, x \in db.gone
    PROVE  Holder(db)[x] = None /\ Offers(db)[x] = {}
BY DEF Holder, Offers

\* An item with one holder.
LEMMA HasOne ==
    ASSUME NEW db, NEW x \in Items, x \notin db.gone, NEW c \in Chars, Holders(db, x) = {c}
    PROVE  Holder(db)[x] = c
<1>1. Holders(db, x) # {} BY DEF Holders
<1>2. (CHOOSE d \in {c} : TRUE) = c OBVIOUS
<1> QED BY <1>1, <1>2 DEF Holder

LEMMA HasNothing ==
    ASSUME NEW db, NEW x \in Items, db.ah[x] = None, \A m \in db.mails : x \in m.items => ~(m.cod > 0)
    PROVE  Offers(db)[x] = {}
<1>1. {n \in db.mails : x \in n.items /\ n.cod > 0} = {} OBVIOUS
<1> QED BY <1>1 DEF Offers

LEMMA HasBag ==
    ASSUME NEW db, NEW x \in Items, Once(db, x), NEW c \in Chars, x \in db.inv[c]
    PROVE  Holder(db)[x] = c /\ Offers(db)[x] = {}
<1>1. /\ x \notin db.gone /\ db.ah[x] = None
      /\ \A d \in Chars : x \in db.inv[d] => d = c
      /\ \A m \in db.mails : x \notin m.items
      /\ \A d \in Chars : <<d, x>> \notin db.parted
  BY OnceBag
<1>2. Holders(db, x) = {c} BY <1>1 DEF Holders
<1> QED BY <1>1, <1>2, HasOne, HasNothing

LEMMA HasCut ==
    ASSUME NEW db, NEW x \in Items, Once(db, x), NEW c \in Chars, <<c, x>> \in db.parted
    PROVE  Holder(db)[x] = c /\ Offers(db)[x] = {}
<1>1. c \in Cuts(db, x) BY DEF Cuts
<1>2. x \notin db.gone BY <1>1 DEF Once
<1>3. Bags(db, x) = {} /\ Posts(db, x) = {} /\ Lone(Cuts(db, x)) /\ db.ah[x] = None
  BY <1>1, <1>2 DEF Once
<1>4. /\ \A d \in Chars : x \notin db.inv[d]
      /\ \A m \in db.mails : x \notin m.items
      /\ \A d \in Chars : <<d, x>> \in db.parted => d = c
  BY <1>1, <1>3 DEF Bags, Posts, Cuts, Lone
<1>5. Holders(db, x) = {c} BY <1>3, <1>4 DEF Holders
<1> QED BY <1>2, <1>3, <1>4, <1>5, HasOne, HasNothing

LEMMA HasPost ==
    ASSUME NEW db \in Databases, NEW x \in Items, Once(db, x), NEW m \in db.mails, x \in m.items
    PROVE  /\ m.cod = 0 => Holder(db)[x] = m.to /\ Offers(db)[x] = {}
           /\ m.cod > 0 /\ m.from \in Chars =>
                 Holder(db)[x] = m.from /\ Offers(db)[x] = {<<m.to, m.cod>>}
<1>1. /\ x \notin db.gone /\ db.ah[x] = None
      /\ \A d \in Chars : x \notin db.inv[d]
      /\ \A k \in db.mails : x \in k.items => k = m
      /\ \A d \in Chars : <<d, x>> \notin db.parted
  BY OncePost
<1>2. m \in Mails BY DEF Databases
<1>3. m.to \in Chars BY <1>2 DEF Mails
<1>4. Holders(db, x) = {c \in Chars : MailHolder(m) = c} BY <1>1 DEF Holders
<1>5. CASE m.cod = 0
  <2>1. ~(m.cod > 0) BY <1>5
  <2>2. Holders(db, x) = {m.to} BY <1>3, <1>4, <2>1 DEF MailHolder
  <2>3. Offers(db)[x] = {} BY <1>1, <2>1, HasNothing
  <2> QED BY <1>1, <1>3, <1>5, <2>1, <2>2, <2>3, HasOne
<1>6. CASE m.cod > 0 /\ m.from \in Chars
  <2>1. Holders(db, x) = {m.from} BY <1>4, <1>6 DEF MailHolder
  <2>2. {n \in db.mails : x \in n.items /\ n.cod > 0} = {m} BY <1>1, <1>6
  <2>3. Offers(db)[x] = {<<m.to, m.cod>>} BY <1>1, <2>2 DEF Offers
  <2>4. m.cod # 0 BY <1>6
  <2> QED BY <1>1, <1>6, <2>1, <2>3, <2>4, HasOne
<1> QED BY <1>5, <1>6

LEMMA HasSale ==
    ASSUME NEW db \in Databases, NEW x \in Items, Once(db, x), x \notin db.gone, db.ah[x] # None
    PROVE  /\ Holder(db)[x] = db.ah[x].owner /\ db.ah[x].owner \in Chars
           /\ \A c \in Chars : c # db.ah[x].owner => <<c, db.ah[x].buyout>> \in Offers(db)[x]
           /\ <<db.ah[x].bidder, db.ah[x].bid>> \in Offers(db)[x]
<1>1. db.ah[x] \in Auctions BY DEF Databases
<1>2. db.ah[x].owner \in Chars BY <1>1 DEF Auctions
<1>3. /\ \A d \in Chars : x \notin db.inv[d]
      /\ \A k \in db.mails : x \notin k.items
      /\ \A d \in Chars : <<d, x>> \notin db.parted
  BY OnceSale
<1>4. Holders(db, x) = {db.ah[x].owner} BY <1>2, <1>3 DEF Holders
<1>5. Holder(db)[x] = db.ah[x].owner BY <1>2, <1>4, HasOne
<1> QED BY <1>2, <1>5 DEF Offers

-----------------------------------------------------------------------------
(* The steps of module Exchange, between two states of the rows.            *)

\* An item after a step in which a disposes of what is his.
Fate(D, E, a, x) ==
    IF Holder(D)[x] = a
    THEN Offers(D)[x] = {} \/ Holder(E)[x] \in {a, None}
    ELSE \/ Holder(E)[x] = Holder(D)[x] /\ Offers(E)[x] \subseteq Offers(D)[x]
         \/ Holder(D)[x] \in Chars \ D.chars

\* Give: nobody but a, or who was deleted, is worse off.
Gives(D, E, a) ==
    /\ \A c \in D.chars \ {a} : Wealth(E)[c] >= Wealth(D)[c]
    /\ D.burnt <= E.burnt
    /\ \A x \in Items : Fate(D, E, a, x)
    /\ E.chars \in {D.chars, D.chars \ {a}}

\* An item after a step in which others are sold to b.
Aside(D, E, b, x) ==
    /\ Holder(E)[x] = Holder(D)[x] \/ (Holder(D)[x] = b /\ Holder(E)[x] = None)
    /\ Offers(E)[x] \subseteq Offers(D)[x]

\* Sale: b pays a the price of the items S.
Sells(D, E, a, b) ==
    \E price \in 1 .. Wealth(D)[b], S \in SUBSET Items :
        /\ S # {}
        /\ Wealth(E)[b] <= Wealth(D)[b] - price
        /\ Wealth(E)[a] <= Wealth(D)[a] + price
        /\ \A c \in D.chars \ {a, b} : Wealth(E)[c] = Wealth(D)[c]
        /\ \A c \in Chars \ D.chars : Wealth(E)[c] <= Wealth(D)[c]
        /\ \A x \in S : /\ Holder(D)[x] = a /\ <<b, price>> \in Offers(D)[x]
                        /\ Holder(E)[x] = b /\ Offers(E)[x] = {}
        /\ \A x \in Items \ S : Aside(D, E, b, x)
        /\ E.chars = D.chars

Passes(D, E) ==
    \/ \E a \in Chars : Gives(D, E, a)
    \/ \E a, b \in Chars : a # b /\ Sells(D, E, a, b)

\* Exchange adds up money as the rows do.
LEMMA ExTotalIs ==
    ASSUME NEW f, NEW g, Adds(f, g), DOMAIN f = Chars
    PROVE  \E h : Adds(f, h) /\ Exchanged!Total(f) = h[DOMAIN f]
BY Zenon DEF Adds, Pick, Exchanged!Total, Exchanged!MapThenSumSet, Exchanged!MapThenFoldSet

LEMMA ExTotal ==
    ASSUME NEW f \in [Chars -> Int]
    PROVE  Exchanged!Total(f) = Total(f)
<1>1. IsFiniteSet(Chars) /\ DOMAIN f = Chars BY StoreAssumption
<1>2. PICK g : Adds(f, g) BY <1>1, AddsExists
<1>3. PICK h : Adds(f, h) /\ Total(f) = h[DOMAIN f] BY <1>2, TotalIs
<1>4. PICK k : Adds(f, k) /\ Exchanged!Total(f) = k[DOMAIN f] BY <1>1, <1>2, ExTotalIs
<1>5. h[Chars] = k[Chars] BY <1>1, <1>3, <1>4, AddsAgree
<1> QED BY <1>1, <1>3, <1>4, <1>5

LEMMA GiveStep ==
    ASSUME Now \in Databases, Now' \in Databases, Sound(Now), Sound(Now'),
           NEW a \in Chars, Gives(Now, Now', a)
    PROVE  Exchanged!Next
<1>1. PICK D \in Databases : D = Now OBVIOUS
<1>2. PICK E \in Databases : E = Now' OBVIOUS
<1>3. Exchanged!Total(Wealth(E)) <= Exchanged!Total(Wealth(D))
  <2>1. /\ Wealth(D) \in [Chars -> Nat] /\ D.burnt \in Nat /\ Total(Wealth(D)) \in Nat
        /\ Total(Wealth(D)) + D.burnt = Total(StartGold)
    BY <1>1, WealthTotal
  <2>2. /\ Wealth(E) \in [Chars -> Nat] /\ E.burnt \in Nat /\ Total(Wealth(E)) \in Nat
        /\ Total(Wealth(E)) + E.burnt = Total(StartGold)
    BY <1>2, WealthTotal
  <2>3. D.burnt <= E.burnt BY <1>1, <1>2 DEF Gives
  <2>4. Total(Wealth(E)) <= Total(Wealth(D)) BY <2>1, <2>2, <2>3
  <2>5. PICK v \in [Chars -> Int] : v = Wealth(D) BY <2>1
  <2>6. PICK w \in [Chars -> Int] : w = Wealth(E) BY <2>2
  <2>7. Exchanged!Total(v) = Total(v) /\ Exchanged!Total(w) = Total(w) BY ExTotal
  <2> QED BY <2>4, <2>5, <2>6, <2>7
<1>4. Exchanged!Total(Wealth(Now')) <= Exchanged!Total(Wealth(Now)) BY <1>1, <1>2, <1>3
<1>5. \A c \in Chars \ ({a} \cup (Chars \ Now.chars)) : Wealth(Now')[c] >= Wealth(Now)[c]
  BY DEF Gives
<1>6. \A x \in Items :
         IF Holder(Now)[x] = a
         THEN Offers(Now)[x] = {} \/ Holder(Now')[x] \in {a, None}
         ELSE \/ Holder(Now')[x] = Holder(Now)[x] /\ Offers(Now')[x] \subseteq Offers(Now)[x]
              \/ Holder(Now)[x] \in Chars \ Now.chars
  BY DEF Gives, Fate
<1>7. (Chars \ Now'.chars) \in {Chars \ Now.chars, (Chars \ Now.chars) \cup {a}}
  BY DEF Gives, Databases
<1>8. Exchanged!Give(a) BY <1>4, <1>5, <1>6, <1>7 DEF Exchanged!Give
<1> QED BY <1>8 DEF Exchanged!Next

LEMMA SaleStep ==
    ASSUME Now \in Databases, Now' \in Databases,
           NEW a \in Chars, NEW b \in Chars, a # b, Sells(Now, Now', a, b)
    PROVE  Exchanged!Next
<1>1. PICK price \in 1 .. Wealth(Now)[b], S \in SUBSET Items :
        /\ S # {}
        /\ Wealth(Now')[b] <= Wealth(Now)[b] - price
        /\ Wealth(Now')[a] <= Wealth(Now)[a] + price
        /\ \A c \in Now.chars \ {a, b} : Wealth(Now')[c] = Wealth(Now)[c]
        /\ \A c \in Chars \ Now.chars : Wealth(Now')[c] <= Wealth(Now)[c]
        /\ \A x \in S : /\ Holder(Now)[x] = a /\ <<b, price>> \in Offers(Now)[x]
                        /\ Holder(Now')[x] = b /\ Offers(Now')[x] = {}
        /\ \A x \in Items \ S : Aside(Now, Now', b, x)
        /\ Now'.chars = Now.chars
  BY DEF Sells
<1>2. S = {x \in Items : /\ Holder(Now)[x] = a /\ <<b, price>> \in Offers(Now)[x]
                         /\ Holder(Now')[x] # a}
  BY <1>1 DEF Aside
<1>3. \A c \in Chars \ ({a, b} \cup (Chars \ Now.chars)) : Wealth(Now')[c] = Wealth(Now)[c]
  BY <1>1
<1>4. \A x \in Items :
         IF x \in S THEN Holder(Now')[x] = b /\ Offers(Now')[x] = {}
         ELSE /\ Holder(Now')[x] = Holder(Now)[x] \/ (Holder(Now)[x] = b /\ Holder(Now')[x] = None)
              /\ Offers(Now')[x] \subseteq Offers(Now)[x]
  BY <1>1 DEF Aside
<1>5. Exchanged!Sale(a, b) BY <1>1, <1>2, <1>3, <1>4 DEF Exchanged!Sale
<1> QED BY <1>5 DEF Exchanged!Next

LEMMA PassesStep ==
    ASSUME Now \in Databases, Now' \in Databases, Sound(Now), Sound(Now'), Passes(Now, Now')
    PROVE  Exchanged!Next
BY GiveStep, SaleStep DEF Passes

\* A step in which only mails to a change, and purses of others do not shrink.
LEMMA GivesMail ==
    ASSUME NEW D \in Databases, NEW E \in Databases, Proper(D.mails), Proper(E.mails), NEW a \in Chars,
           E.ah = D.ah, D.burnt <= E.burnt, E.chars \in {D.chars, D.chars \ {a}},
           \A d \in Chars : d # a => E.gold[d] >= D.gold[d] /\ MailsOf(D, d) \subseteq E.mails,
           \A x \in Items : Fate(D, E, a, x)
    PROVE  Gives(D, E, a)
<1>1. ASSUME NEW c \in D.chars \ {a} PROVE Wealth(E)[c] >= Wealth(D)[c]
  <2>1. c \in Chars BY DEF Databases
  <2>2. /\ Wealth(D)[c] = D.gold[c] + Post(D.mails, c) + Shares(D.ah, c)
        /\ D.gold[c] \in Nat /\ Post(D.mails, c) \in Nat /\ Shares(D.ah, c) \in Nat
    BY <2>1, WealthAt
  <2>3. /\ Wealth(E)[c] = E.gold[c] + Post(E.mails, c) + Shares(D.ah, c)
        /\ E.gold[c] \in Nat /\ Post(E.mails, c) \in Nat
    BY <2>1, WealthAt
  <2>4. Post(D.mails, c) <= Post(E.mails, c)
    <3>1. {m \in D.mails : m.to = c} \subseteq E.mails BY <2>1 DEF MailsOf
    <3>2. E.mails \in SUBSET Mails BY DEF Databases
    <3> QED BY <3>1, <3>2, PostKept
  <2>5. E.gold[c] >= D.gold[c] BY <2>1
  <2> QED BY <2>2, <2>3, <2>4, <2>5
<1> QED BY <1>1 DEF Gives

\* What a character has after mails brought him p and an auction changed.
LEMMA DealWealth ==
    ASSUME NEW D \in Databases, NEW E \in Databases, Proper(D.mails), Proper(E.mails),
           NEW x \in Items, NEW v \in Auctions \cup {None}, E.ah = [D.ah EXCEPT ![x] = v],
           NEW c \in Chars, NEW p \in Nat, Post(E.mails, c) = Post(D.mails, c) + p
    PROVE  /\ Wealth(E)[c] + D.gold[c] + Share(D.ah[x], c)
              = Wealth(D)[c] + E.gold[c] + p + Share(v, c)
           /\ Wealth(E)[c] \in Nat /\ Wealth(D)[c] \in Nat
           /\ D.gold[c] \in Nat /\ E.gold[c] \in Nat
           /\ Share(D.ah[x], c) \in Nat /\ Share(v, c) \in Nat
           /\ Wealth(D)[c] >= D.gold[c] + Share(D.ah[x], c)
<1>1. /\ Wealth(D)[c] = D.gold[c] + Post(D.mails, c) + Shares(D.ah, c)
      /\ D.gold[c] \in Nat /\ Post(D.mails, c) \in Nat /\ Shares(D.ah, c) \in Nat
      /\ Wealth(D)[c] \in Nat
  BY WealthAt
<1>2. /\ Wealth(E)[c] = E.gold[c] + Post(E.mails, c) + Shares(E.ah, c)
      /\ E.gold[c] \in Nat /\ Wealth(E)[c] \in Nat
  BY WealthAt
<1>3. D.ah \in [Items -> Auctions \cup {None}] BY DEF Databases
<1>6. Shares(E.ah, c) = Shares(D.ah, c) - Share(D.ah[x], c) + Share(v, c) BY <1>3, SharesPut
<1>7. Share(D.ah[x], c) \in Nat /\ Share(v, c) \in Nat
  <2>1. D.ah[x] \in Auctions \cup {None} BY <1>3
  <2> QED BY <2>1, ShareNat
<1>8. Share(D.ah[x], c) <= Shares(D.ah, c)
  <2>1. PICK none \in Auctions \cup {None} : none = None OBVIOUS
  <2>2. PICK h \in [Items -> Auctions \cup {None}] : h = [D.ah EXCEPT ![x] = none] BY <1>3
  <2>3. Shares(h, c) = Shares(D.ah, c) - Share(D.ah[x], c) + Share(none, c) BY <1>3, <2>2, SharesPut
  <2>4. Share(none, c) = 0 BY <2>1 DEF Share
  <2>5. Shares(h, c) \in Nat BY SharesPut
  <2> QED BY <1>1, <1>7, <2>3, <2>4, <2>5
<1> QED BY <1>1, <1>2, <1>6, <1>7, <1>8

LEMMA FateSame ==
    ASSUME NEW D, NEW E, NEW a, NEW x \in Items, Alike(E, D, x)
    PROVE  Fate(D, E, a, x) /\ \A b : Aside(D, E, b, x)
BY HasAlike DEF Fate, Aside

\* b pays a the price of the items S.
LEMMA SaleMade ==
    ASSUME NEW D, NEW E, NEW a, NEW b, NEW price \in Nat, NEW S \in SUBSET Items,
           price > 0, price <= Wealth(D)[b], Wealth(D)[b] \in Nat, S # {},
           Wealth(E)[b] <= Wealth(D)[b] - price, Wealth(E)[a] <= Wealth(D)[a] + price,
           \A c \in Chars : c # a /\ c # b =>
              Wealth(E)[c] <= Wealth(D)[c] /\ (c \in D.chars => Wealth(E)[c] = Wealth(D)[c]),
           a \notin D.chars => Wealth(E)[a] <= Wealth(D)[a],
           b \in D.chars, D.chars \in SUBSET Chars, E.chars = D.chars,
           \A x \in S : /\ Holder(D)[x] = a /\ <<b, price>> \in Offers(D)[x]
                        /\ Holder(E)[x] = b /\ Offers(E)[x] = {},
           \A x \in Items \ S : Aside(D, E, b, x)
    PROVE  Sells(D, E, a, b)
<1>1. price \in 1 .. Wealth(D)[b] OBVIOUS
<1>2. \A c \in D.chars \ {a, b} : Wealth(E)[c] = Wealth(D)[c] OBVIOUS
<1>3. \A c \in Chars \ D.chars : Wealth(E)[c] <= Wealth(D)[c]
  <2>1. ASSUME NEW c \in Chars \ D.chars PROVE Wealth(E)[c] <= Wealth(D)[c]
    <3>1. CASE c = a BY <3>1
    <3>2. CASE c # a /\ c # b BY <3>2
    <3> QED BY <3>1, <3>2
  <2> QED BY <2>1
<1> QED BY <1>1, <1>2, <1>3 DEF Sells

-----------------------------------------------------------------------------
(* The invariant: what is queued is a sequence of such steps.               *)

\* Who pays on delivery pays a character, for a mail that was not returned.
Tame(k) == k.from # k.to /\ (k.cod > 0 => k.from \in Chars /\ ~k.back)

\* The terms on which items are sold; a bid is of some money.
Terms(db) ==
    /\ \A k \in db.mails : Tame(k)
    /\ \A x \in Items : db.ah[x] # None /\ db.ah[x].bidder # None => db.ah[x].bid > 0

AllTerms == \A n \in DOMAIN log : Terms(log[n])

\* The server knows who was deleted.
Known == \A c \in Chars : status[c] # "gone" <=> c \in Soon.chars

\* No mail that is still to be paid for is marked as deleted.
Marked == \A c \in Chars : \A m \in box[c] : m.id \in deleted[c] => m.cod = 0

Edges == \A n \in DOMAIN log : n + 1 \in DOMAIN log => Passes(log[n], log[n + 1])

Trading == AllTerms /\ Known /\ Marked /\ Edges

LEMMA SoonTerms ==
    ASSUME IInv, Trading
    PROVE  Terms(Soon) /\ Terms(Now) /\ (\A c \in Chars : Exists(c) <=> c \in Soon.chars)
           /\ Soon.chars \in SUBSET Chars
<1>1. Terms(Soon) /\ Terms(Now) BY Basics DEF Trading, AllTerms
<1>2. \A c \in Chars : Exists(c) <=> c \in Soon.chars BY DEF Trading, Known, Exists
<1>3. Soon.chars \in SUBSET Chars BY Basics DEF Databases
<1> QED BY <1>1, <1>2, <1>3

\* Transactions are queued, of which the last leads to a.
Enqueued(a) == AllTerms' /\ Edges' /\ Soon' = a /\ Now' = Now

\* What is queued is still such a sequence, and nothing was applied.
Trades == Trading' /\ Now' = Now

\* One transaction, or two, that are such steps.
LEMMA QueuedOne ==
    ASSUME IInv, Trading, NEW a \in Databases, Commit(<<a>>), Passes(Soon, a), Terms(a)
    PROVE  Enqueued(a)
<1>1. /\ log \in Seq(Databases) /\ Len(log) \in Nat \ {0} /\ Soon = log[Len(log)] BY Basics
<1>2. log' = log \o <<a>> BY DEF Commit
<1>3. Len(log') = Len(log) + 1 /\ log' \in Seq(Databases) BY <1>1, <1>2
<1>4. /\ \A n \in 1 .. Len(log) : log'[n] = log[n]
      /\ log'[Len(log) + 1] = a
  BY <1>1, <1>2
<1>5. DOMAIN log' = 1 .. (Len(log) + 1) /\ DOMAIN log = 1 .. Len(log) BY <1>1, <1>3
<1>6. Soon' = a BY <1>3, <1>4 DEF Soon, Last
<1>7. AllTerms'
  <2>1. ASSUME NEW n \in DOMAIN log' PROVE Terms(log'[n])
    <3>1. CASE n \in 1 .. Len(log) BY <1>4, <1>5, <3>1 DEF Trading, AllTerms
    <3>2. CASE n = Len(log) + 1 BY <1>4, <3>2
    <3> QED BY <1>1, <1>5, <3>1, <3>2
  <2> QED BY <2>1 DEF AllTerms
<1>8. Edges'
  <2>1. ASSUME NEW n \in DOMAIN log', n + 1 \in DOMAIN log' PROVE Passes(log'[n], log'[n + 1])
    <3>1. CASE n + 1 \in 1 .. Len(log)
      <4>1. n \in 1 .. Len(log) BY <1>1, <1>5, <3>1
      <4> QED BY <1>4, <1>5, <3>1, <4>1 DEF Trading, Edges
    <3>2. CASE n + 1 = Len(log) + 1
      <4>1. n = Len(log) BY <1>1, <1>5, <3>2
      <4>2. log'[n] = Soon BY <1>1, <1>4, <4>1
      <4> QED BY <1>4, <3>2, <4>2
    <3> QED BY <1>1, <1>5, <2>1, <3>1, <3>2
  <2> QED BY <2>1 DEF Edges
<1>9. Now' = Now BY <1>1, <1>3, <1>4, Basics DEF Now
<1> QED BY <1>6, <1>7, <1>8, <1>9 DEF Enqueued

LEMMA QueuedTwo ==
    ASSUME IInv, Trading, NEW a \in Databases, NEW b \in Databases, Commit(<<a, b>>),
           Passes(Soon, a), Passes(a, b), Terms(a), Terms(b)
    PROVE  Enqueued(b)
<1>1. /\ log \in Seq(Databases) /\ Len(log) \in Nat \ {0} /\ Soon = log[Len(log)] BY Basics
<1>2. log' = log \o <<a, b>> BY DEF Commit
<1>3. Len(log') = Len(log) + 2 /\ log' \in Seq(Databases) BY <1>1, <1>2
<1>4. /\ \A n \in 1 .. Len(log) : log'[n] = log[n]
      /\ log'[Len(log) + 1] = a /\ log'[Len(log) + 2] = b
  BY <1>1, <1>2
<1>5. DOMAIN log' = 1 .. (Len(log) + 2) /\ DOMAIN log = 1 .. Len(log) BY <1>1, <1>3
<1>6. Soon' = b BY <1>3, <1>4 DEF Soon, Last
<1>7. AllTerms'
  <2>1. ASSUME NEW n \in DOMAIN log' PROVE Terms(log'[n])
    <3>1. CASE n \in 1 .. Len(log) BY <1>4, <1>5, <3>1 DEF Trading, AllTerms
    <3>2. CASE n = Len(log) + 1 BY <1>4, <3>2
    <3>3. CASE n = Len(log) + 2 BY <1>4, <3>3
    <3> QED BY <1>1, <1>5, <3>1, <3>2, <3>3
  <2> QED BY <2>1 DEF AllTerms
<1>8. Edges'
  <2>1. ASSUME NEW n \in DOMAIN log', n + 1 \in DOMAIN log' PROVE Passes(log'[n], log'[n + 1])
    <3>1. CASE n + 1 \in 1 .. Len(log)
      <4>1. n \in 1 .. Len(log) BY <1>1, <1>5, <3>1
      <4> QED BY <1>4, <1>5, <3>1, <4>1 DEF Trading, Edges
    <3>2. CASE n + 1 = Len(log) + 1
      <4>1. n = Len(log) BY <1>1, <1>5, <3>2
      <4>2. log'[n] = Soon BY <1>1, <1>4, <4>1
      <4> QED BY <1>4, <3>2, <4>2
    <3>3. CASE n + 1 = Len(log) + 2
      <4>1. n = Len(log) + 1 BY <1>1, <1>5, <3>3
      <4> QED BY <1>4, <3>3, <4>1
    <3> QED BY <1>1, <1>5, <2>1, <3>1, <3>2, <3>3
  <2> QED BY <2>1 DEF Edges
<1>9. Now' = Now BY <1>1, <1>3, <1>4, Basics DEF Now
<1> QED BY <1>6, <1>7, <1>8, <1>9 DEF Enqueued

\* Nobody is deleted.
LEMMA KnownSame ==
    ASSUME Known, Soon'.chars = Soon.chars, \A c \in Chars : status'[c] = "gone" <=> status[c] = "gone"
    PROVE  Known'
BY DEF Known

\* Whoever gets mails has marked others.
LEMMA MarkedMailing ==
    ASSUME IInv, Marked, NEW st, NEW N, Mailing(st, N),
           \A d \in Chars : \/ box'[d] \subseteq st.box[d] /\ deleted'[d] = deleted[d]
                            \/ deleted'[d] = {}
    PROVE  Marked'
<1>1. ASSUME NEW d \in Chars, NEW m \in box'[d], m.id \in deleted'[d] PROVE m.cod = 0
  <2>1. box'[d] \subseteq st.box[d] /\ deleted'[d] = deleted[d] BY <1>1
  <2>2. deleted[d] \subseteq UsedIds
    <3>1. Member(d) BY DEF IInv
    <3>2. deleted[d] \subseteq Ids(box[d]) BY <3>1 DEF Member, Ids
    <3>3. Ids(box[d]) \subseteq UsedIds BY Basics
    <3> QED BY <3>2, <3>3
  <2>3. m \in box[d] \/ m \in N BY <1>1, <2>1 DEF Mailing
  <2>4. m \notin N BY <1>1, <2>1, <2>2 DEF Mailing
  <2> QED BY <1>1, <2>1, <2>3, <2>4 DEF Marked
<1> QED BY <1>1 DEF Marked

\* What is committed is sound.
LEMMA CommittedOne ==
    ASSUME IInv, IInv', NEW a \in Databases, Commit(<<a>>)
    PROVE  Sound(a)
<1>1. log \in Seq(Databases) /\ Len(log) \in Nat BY Basics
<1>2. log' = log \o <<a>> BY DEF Commit
<1>3. log'[Len(log) + 1] = a /\ Len(log) + 1 \in DOMAIN log' BY <1>1, <1>2
<1> QED BY <1>3 DEF IInv

LEMMA CommittedTwo ==
    ASSUME IInv, IInv', NEW a \in Databases, NEW b \in Databases, Commit(<<a, b>>)
    PROVE  Sound(a) /\ Sound(b)
<1>1. log \in Seq(Databases) /\ Len(log) \in Nat BY Basics
<1>2. log' = log \o <<a, b>> BY DEF Commit
<1>3. /\ log'[Len(log) + 1] = a /\ Len(log) + 1 \in DOMAIN log'
      /\ log'[Len(log) + 2] = b /\ Len(log) + 2 \in DOMAIN log'
  BY <1>1, <1>2
<1> QED BY <1>3 DEF IInv

\* A step of a character in the world, by which mails are sent.
LEMMA TradedMail ==
    ASSUME IInv, Trading, NEW a, Enqueued(a), a.chars = Soon.chars,
           \A c \in Chars : status'[c] = "gone" <=> status[c] = "gone",
           NEW st, NEW N, Mailing(st, N),
           \A d \in Chars : \/ box'[d] \subseteq st.box[d] /\ deleted'[d] = deleted[d]
                            \/ deleted'[d] = {}
    PROVE  Trades
<1>1. Known /\ Marked BY DEF Trading
<1>2. Known' BY <1>1, KnownSame DEF Enqueued
<1>3. Marked' BY <1>1, MarkedMailing
<1> QED BY <1>2, <1>3 DEF Trading, Trades, Enqueued

-----------------------------------------------------------------------------
(* The auctions.                                                            *)

\* Other items than x are where they were.
LEMMA DealAlike ==
    ASSUME IInv, NEW x \in Items, NEW st, NEW N, Mailing(st, N), \A k \in N : k.items \subseteq {x},
           st.db.gone = Soon.gone \/ st.db.gone = Soon.gone \cup {x},
           NEW e, NEW v, NEW G, Deal(e, st, x, v, G), NEW y \in Items, y # x
    PROVE  Alike(e, Soon, y)
<1>1. /\ e.mails = Soon.mails \cup N /\ e.gone = st.db.gone /\ e.parted = Soon.parted
      /\ e.inv = Soon.inv /\ e.ah = [Soon.ah EXCEPT ![x] = v]
  BY DEF Deal, Mailing
<1>2. Soon.ah \in [Items -> Auctions \cup {None}] BY Basics DEF Databases
<1>3. e.ah[y] = Soon.ah[y] BY <1>1, <1>2
<1>4. Posts(e, y) = Posts(Soon, y) BY <1>1 DEF Posts
<1>5. y \in e.gone <=> y \in Soon.gone BY <1>1
<1> QED BY <1>1, <1>3, <1>4, <1>5 DEF Alike

LEMMA DealTerms ==
    ASSUME IInv, Terms(Soon), NEW x \in Items, NEW st, NEW P, Due(st, P),
           NEW e, NEW v, NEW G, Deal(e, st, x, v, G),
           v # None /\ v.bidder # None => v.bid > 0
    PROVE  Terms(e)
<1>1. /\ e \in Databases /\ e.mails = st.db.mails /\ e.ah = [Soon.ah EXCEPT ![x] = v] BY DEF Deal
<1>2. ASSUME NEW k \in e.mails PROVE Tame(k)
  <2>1. k \in Mails BY <1>1 DEF Databases
  <2>2. CASE k \in Soon.mails BY <2>2 DEF Terms
  <2>3. CASE k \notin Soon.mails
    <3>1. k.from = House /\ k.cod = 0 BY <1>1, <2>3 DEF Due
    <3>2. k.to \in Chars BY <2>1 DEF Mails
    <3> QED BY <3>1, <3>2, StoreAssumption DEF Tame
  <2> QED BY <2>2, <2>3
<1>3. Soon.ah \in [Items -> Auctions \cup {None}] BY Basics DEF Databases
<1>4. ASSUME NEW y \in Items, e.ah[y] # None /\ e.ah[y].bidder # None PROVE e.ah[y].bid > 0
  <2>1. CASE y = x BY <1>1, <1>3, <1>4, <2>1
  <2>2. CASE y # x BY <1>1, <1>3, <1>4, <2>2 DEF Terms
  <2> QED BY <2>1, <2>2
<1> QED BY <1>2, <1>4 DEF Terms

\* Where the item of an auction that is over is.
LEMMA Passed ==
    ASSUME NEW e \in Databases, Sound(e), NEW x \in Items, NEW st, NEW N, NEW to \in Chars,
           \E s : Given(st, N, x, s), Inherits(st, N, x, to), x \notin Soon.gone,
           e.mails = st.db.mails, e.gone = st.db.gone,
           \A k \in N : k.cod = 0
    PROVE  /\ Exists(to) => Holder(e)[x] = to /\ Offers(e)[x] = {}
           /\ ~Exists(to) => Holder(e)[x] = None /\ Offers(e)[x] = {}
           /\ Mailing(st, N) /\ (\A k \in N : k.items \subseteq {x})
           /\ (st.db.gone = Soon.gone \/ st.db.gone = Soon.gone \cup {x})
<1>1. /\ Mailing(st, N) /\ \A k \in N : k.items \subseteq {x}
      /\ \/ /\ st.db.gone = Soon.gone
            /\ \E k \in N : x \in k.items /\ \A l \in N : x \in l.items => l = k
         \/ st.db.gone = Soon.gone \cup {x} /\ \A k \in N : x \notin k.items
  BY DEF Given
<1>2. e.mails = Soon.mails \cup N BY <1>1 DEF Mailing
<1>3. Once(e, x) BY DEF Sound
<1>4. ASSUME Exists(to) PROVE Holder(e)[x] = to /\ Offers(e)[x] = {}
  <2>0. st.db.gone = Soon.gone BY <1>4 DEF Inherits
  <2>1. PICK k \in N : x \in k.items BY <1>1, <2>0
  <2>2. k \in e.mails /\ k.to = to /\ k.cod = 0 BY <1>2, <2>1 DEF Inherits
  <2> QED BY <1>3, <2>1, <2>2, HasPost
<1>5. ASSUME ~Exists(to) PROVE Holder(e)[x] = None /\ Offers(e)[x] = {}
  <2>1. x \in e.gone BY <1>5 DEF Inherits
  <2> QED BY <2>1, HasGone
<1> QED BY <1>1, <1>4, <1>5
\* What everybody has after a deal of c.
Counts(e, a, v, P, c, g) ==
    \A d \in Chars :
        /\ Wealth(e)[d] \in Nat /\ Wealth(Soon)[d] \in Nat /\ P[d] \in Nat
        /\ Share(a, d) \in Nat /\ Share(v, d) \in Nat
        /\ d # c => Wealth(e)[d] + Share(a, d) = Wealth(Soon)[d] + P[d] + Share(v, d)
        /\ d = c => Wealth(e)[d] + gold[c] + Share(a, d) = Wealth(Soon)[d] + g + P[d] + Share(v, d)

\* The terms of the auction a of x.
Offered(a, x) ==
    /\ Holder(Soon)[x] = a.owner
    /\ \A d \in Chars : d # a.owner => <<d, a.buyout>> \in Offers(Soon)[x]
    /\ <<a.bidder, a.bid>> \in Offers(Soon)[x]

LEMMA SaleFacts ==
    ASSUME IInv, NEW x \in Items, NEW a, a = ah[x], a # None
    PROVE  /\ Soon \in Databases /\ Sound(Soon) /\ Soon.ah[x] = a /\ x \notin Soon.gone
           /\ a \in Auctions /\ a.owner \in Chars /\ a.bidder \in Chars \cup {None}
           /\ a.owner # a.bidder /\ a.bid \in Nat /\ a.buyout \in Nat
           /\ Offered(a, x)
<1>1. Soon \in Databases /\ Sound(Soon) BY Basics
<1>2. Soon.ah[x] = a /\ x \notin Soon.gone BY OnSale
<1>3. /\ a \in Auctions /\ a.owner \in Chars /\ a.bidder \in Chars \cup {None}
      /\ a.bid \in Nat /\ a.buyout \in Nat
  BY AuctionType
<1>4. Once(Soon, x) BY <1>1 DEF Sound
<1>5. a.owner # a.bidder BY <1>1, <1>2 DEF Sound, Balanced, Fair
<1>6. /\ Holder(Soon)[x] = a.owner
      /\ \A d \in Chars : d # a.owner => <<d, a.buyout>> \in Offers(Soon)[x]
      /\ <<a.bidder, a.bid>> \in Offers(Soon)[x]
  BY <1>1, <1>2, <1>4, HasSale
<1> QED BY <1>1, <1>2, <1>3, <1>5, <1>6 DEF Offered

LEMMA DealtFacts ==
    ASSUME IInv, IInv', Trading, NEW c \in Chars, NEW x \in Items,
           NEW a, NEW v, NEW g, NEW e, NEW st, NEW P, Dealt(c, x, a, v, g, e, st, P)
    PROVE  /\ e \in Databases /\ Sound(e) /\ Counts(e, a, v, P, c, g)
           /\ e.chars = Soon.chars /\ Soon.burnt <= e.burnt /\ c \in Soon.chars
           /\ gold[c] \in Nat /\ gold[c] = Soon.gold[c] /\ gold[c] + Share(a, c) <= Wealth(Soon)[c]
           /\ g \in Nat /\ v \in Auctions \cup {None} /\ P \in [Chars -> Nat]
<1>1. /\ InWorld(c) /\ a = ah[x] /\ a # None /\ g \in Nat /\ v \in Auctions \cup {None}
      /\ Deal(e, st, x, v, [Soon.gold EXCEPT ![c] = g]) /\ Due(st, P) /\ Commit(<<e>>)
  BY DEF Dealt
<1>2. /\ e \in Databases /\ e.mails = st.db.mails
      /\ e.gold = [Soon.gold EXCEPT ![c] = g] /\ e.ah = [Soon.ah EXCEPT ![x] = v]
      /\ e.chars = Soon.chars /\ st.db.burnt <= e.burnt
  BY <1>1 DEF Deal
<1>3. Sound(e) BY <1>1, <1>2, CommittedOne
<1>a. a = ah[x] /\ a # None BY <1>1
<1>b. Soon \in Databases /\ Sound(Soon) /\ Soon.ah[x] = a BY <1>a, SaleFacts
<1>4. PICK D \in Databases : D = Soon /\ Sound(D) /\ D.ah[x] = a BY <1>b
<1>c. v \in Auctions \cup {None} BY <1>1
<1>d. e \in Databases BY <1>2
<1>5. D.gold \in [Chars -> Nat] /\ D.burnt \in Nat /\ e.burnt \in Nat BY <1>2 DEF Databases
<1>6. P \in [Chars -> Nat] /\ Soon.burnt <= st.db.burnt BY <1>1 DEF Due
<1>7. gold[c] = Soon.gold[c] BY <1>1 DEF IInv, Member, Mirror, InWorld
<1>8. Proper(D.mails) /\ Proper(e.mails) BY <1>3, <1>4 DEF Sound
<1>9. ASSUME NEW d \in Chars
      PROVE  /\ Wealth(e)[d] + D.gold[d] + Share(a, d) = Wealth(D)[d] + e.gold[d] + P[d] + Share(v, d)
             /\ Wealth(e)[d] \in Nat /\ Wealth(D)[d] \in Nat
             /\ D.gold[d] \in Nat /\ e.gold[d] \in Nat
             /\ Share(a, d) \in Nat /\ Share(v, d) \in Nat
             /\ Wealth(D)[d] >= D.gold[d] + Share(a, d)
  <2>1. PICK p \in Nat : p = P[d] BY <1>6
  <2>2. Post(e.mails, d) = Post(D.mails, d) + p BY <1>1, <1>2, <1>4, <2>1 DEF Due
  <2>3. e.ah = [D.ah EXCEPT ![x] = v] BY <1>2, <1>4
  <2>4. /\ Wealth(e)[d] + D.gold[d] + Share(D.ah[x], d) = Wealth(D)[d] + e.gold[d] + p + Share(v, d)
        /\ Wealth(e)[d] \in Nat /\ Wealth(D)[d] \in Nat
        /\ D.gold[d] \in Nat /\ e.gold[d] \in Nat
        /\ Share(D.ah[x], d) \in Nat /\ Share(v, d) \in Nat
        /\ Wealth(D)[d] >= D.gold[d] + Share(D.ah[x], d)
    BY <1>8, <1>c, <1>d, <2>2, <2>3, DealWealth
  <2> QED BY <1>4, <2>1, <2>4
<1>10. ASSUME NEW d \in Chars
       PROVE  /\ Wealth(e)[d] \in Nat /\ Wealth(Soon)[d] \in Nat /\ P[d] \in Nat
              /\ Share(a, d) \in Nat /\ Share(v, d) \in Nat
              /\ d # c => Wealth(e)[d] + Share(a, d) = Wealth(Soon)[d] + P[d] + Share(v, d)
              /\ d = c => Wealth(e)[d] + gold[c] + Share(a, d) = Wealth(Soon)[d] + g + P[d] + Share(v, d)
  <2>1. PICK w, u, h, p, s, t \in Nat :
           /\ w = Wealth(e)[d] /\ u = Wealth(D)[d] /\ h = D.gold[d] /\ p = P[d]
           /\ s = Share(a, d) /\ t = Share(v, d)
    BY <1>6, <1>9
  <2>2. w + h + s = u + e.gold[d] + p + t BY <1>9, <2>1
  <2>3. CASE d = c
    <3>1. e.gold[d] = g BY <1>2, <1>4, <1>5, <2>3
    <3> QED BY <1>4, <1>7, <2>1, <2>2, <2>3, <3>1
  <2>4. CASE d # c
    <3>1. e.gold[d] = h BY <1>2, <1>4, <1>5, <2>1, <2>4
    <3>2. w + s = u + p + t BY <2>2, <3>1
    <3> QED BY <1>4, <2>1, <2>4, <3>2
  <2> QED BY <2>3, <2>4
<1>11. Counts(e, a, v, P, c, g) BY <1>10 DEF Counts
<1>12. c \in Soon.chars
  <2>1. Exists(c) BY <1>1 DEF Exists, InWorld
  <2> QED BY <2>1, SoonTerms
<1>13. Soon.burnt <= e.burnt
  <2>1. Soon.burnt \in Nat /\ e.burnt \in Nat BY <1>4, <1>5
  <2>2. st.db.burnt \in Nat BY <1>1 DEF Due, Databases
  <2> QED BY <1>2, <1>6, <2>1, <2>2
<1>14. gold[c] \in Nat /\ gold[c] + Share(a, c) <= Wealth(Soon)[c] BY <1>4, <1>5, <1>7, <1>9
<1> QED BY <1>1, <1>2, <1>3, <1>6, <1>7, <1>11, <1>12, <1>13, <1>14

LEMMA ShareIs ==
    ASSUME NEW a, a # None, NEW d
    PROVE  Share(a, d) = IF d = a.owner THEN Deposit ELSE IF d = a.bidder THEN a.bid ELSE 0
BY DEF Share, Stake

\* A deal that is a step of Exchange keeps what the proof is about.
LEMMA DealtTrades ==
    ASSUME IInv, IInv', Trading, NEW c \in Chars, NEW x \in Items,
           NEW a, NEW v, NEW g, NEW e, NEW st, NEW N, NEW P, Dealt(c, x, a, v, g, e, st, P),
           Mailing(st, N), Passes(Soon, e), v # None /\ v.bidder # None => v.bid > 0
    PROVE  Trades
<1>1. e \in Databases /\ e.chars = Soon.chars BY DealtFacts
<1>2. /\ Commit(<<e>>) /\ Due(st, P) /\ Deal(e, st, x, v, [Soon.gold EXCEPT ![c] = g])
      /\ box' = st.box /\ status' = status /\ deleted' = deleted
  BY DEF Dealt
<1>3. Terms(Soon) BY SoonTerms
<1>4. Terms(e) BY <1>2, <1>3, DealTerms
<1>5. Enqueued(e) BY <1>1, <1>2, <1>4, QueuedOne
<1>6. \A d \in Chars : \/ box'[d] \subseteq st.box[d] /\ deleted'[d] = deleted[d]
                       \/ deleted'[d] = {}
  BY <1>2
<1>7. \A d \in Chars : status'[d] = "gone" <=> status[d] = "gone" BY <1>2
<1> QED BY <1>1, <1>5, <1>6, <1>7, TradedMail

\* A bid: nobody but the owner of the auction disposes of anything.
LEMMA PlaceBidTrades ==
    ASSUME IInv, IInv', Trading, NEW c \in Chars, NEW x \in Items, NEW price \in Nat,
           PlaceBid(c, x, price)
    PROVE  Trades
<1>1. PICK a, v, g, e, st, N, P :
         /\ Dealt(c, x, a, v, g, e, st, P) /\ Bidding(st, N, v)
         /\ v = [a EXCEPT !.bidder = c, !.bid = price] /\ a.owner # c /\ price > a.bid
         /\ gold[c] >= price
         /\ g = gold[c] - price + (IF a.bidder = c THEN a.bid ELSE 0)
         /\ P = [d \in Chars |-> Refund(a, {None, c}, d)]
  BY PlaceBidRows
<1>2. a = ah[x] /\ a # None BY <1>1 DEF Dealt
<1>3. /\ Soon \in Databases /\ Soon.ah[x] = a /\ x \notin Soon.gone
      /\ a \in Auctions /\ a.owner \in Chars /\ a.bidder \in Chars \cup {None} /\ a.owner # a.bidder
      /\ a.bid \in Nat /\ Offered(a, x)
  BY <1>2, SaleFacts
<1>4. /\ e \in Databases /\ Sound(e) /\ Counts(e, a, v, P, c, g)
      /\ e.chars = Soon.chars /\ Soon.burnt <= e.burnt
      /\ gold[c] \in Nat /\ g \in Nat /\ v \in Auctions \cup {None}
  BY <1>1, DealtFacts
<1>5. v.owner = a.owner /\ v.bidder = c /\ v.bid = price /\ v # None
  BY <1>1, <1>3 DEF Auctions, Bidding
<1>6. ASSUME NEW d \in Soon.chars \ {a.owner} PROVE Wealth(e)[d] >= Wealth(Soon)[d]
  <2>1. d \in Chars /\ Exists(d) BY <1>3, <1>6, SoonTerms DEF Databases
  <2>2. Share(a, d) = IF d = a.bidder THEN a.bid ELSE 0 BY <1>2, <1>6, ShareIs
  <2>3. Share(v, d) = IF d = c THEN price ELSE 0 BY <1>5, <1>6, ShareIs
  <2>4. P[d] = IF a.bidder \in {None, c} THEN 0 ELSE IF d = a.bidder THEN a.bid ELSE 0
    BY <1>1, <2>1 DEF Refund, Gets
  <2>5. /\ Wealth(e)[d] \in Nat /\ Wealth(Soon)[d] \in Nat
        /\ d # c => Wealth(e)[d] + Share(a, d) = Wealth(Soon)[d] + P[d] + Share(v, d)
        /\ d = c => Wealth(e)[d] + gold[c] + Share(a, d) = Wealth(Soon)[d] + g + P[d] + Share(v, d)
    BY <1>4, <2>1 DEF Counts
  <2>6. PICK w, u, b, h, y \in Nat : /\ w = Wealth(e)[d] /\ u = Wealth(Soon)[d] /\ b = a.bid
                                     /\ h = gold[c] /\ y = g
    BY <1>3, <1>4, <2>5
  <2>7. d # None BY <2>1, StoreAssumption
  <2>8. CASE d = c
    <3>1. P[d] = 0 BY <2>4, <2>7, <2>8
    <3>2. w + h + (IF d = a.bidder THEN b ELSE 0) = u + y + 0 + price
      BY <2>2, <2>3, <2>5, <2>6, <2>8, <3>1
    <3>3. y = h - price + (IF d = a.bidder THEN b ELSE 0) BY <1>1, <2>6, <2>8
    <3>4. w = u BY <3>2, <3>3
    <3> QED BY <2>6, <3>4
  <2>9. CASE d # c
    <3>1. P[d] = IF d = a.bidder THEN a.bid ELSE 0 BY <2>4, <2>7, <2>9
    <3>2. w + (IF d = a.bidder THEN b ELSE 0) = u + (IF d = a.bidder THEN b ELSE 0) + 0
      BY <2>2, <2>3, <2>5, <2>6, <2>9, <3>1
    <3>3. w = u BY <3>2
    <3> QED BY <2>6, <3>3
  <2> QED BY <2>8, <2>9
<1>7. PICK n, s : Bearing(st, N, n, s) BY <1>1 DEF Bidding
<1>8. Mailing(st, N) /\ (\A k \in N : k.items \subseteq {x}) /\ st.db.gone = Soon.gone
  BY <1>7 DEF Bearing
<1>9. Deal(e, st, x, v, [Soon.gold EXCEPT ![c] = g]) BY <1>1 DEF Dealt
<1>10. Holder(e)[x] = a.owner
  <2>1. Soon.ah \in [Items -> Auctions \cup {None}] BY <1>3 DEF Databases
  <2>2. e.ah[x] = v /\ x \notin e.gone BY <1>3, <1>8, <1>9, <2>1 DEF Deal
  <2>3. Once(e, x) BY <1>4 DEF Sound
  <2> QED BY <1>4, <1>5, <2>2, <2>3, HasSale
<1>11. ASSUME NEW y \in Items PROVE Fate(Soon, e, a.owner, y)
  <2>1. CASE y = x BY <1>3, <1>10, <2>1 DEF Fate, Offered
  <2>2. CASE y # x
    <3>1. Alike(e, Soon, y) BY <1>8, <1>9, <2>2, DealAlike
    <3> QED BY <3>1, FateSame
  <2> QED BY <2>1, <2>2
<1>12. Gives(Soon, e, a.owner) BY <1>4, <1>6, <1>11 DEF Gives
<1>13. Passes(Soon, e) BY <1>3, <1>12 DEF Passes
<1>14. v # None /\ v.bidder # None => v.bid > 0 BY <1>1, <1>3, <1>5
<1> QED BY <1>1, <1>8, <1>13, <1>14, DealtTrades

\* The purchase: the owner sells to c, who pays.
LEMMA BuyoutTrades ==
    ASSUME IInv, IInv', Trading, NEW c \in Chars, NEW x \in Items, NEW price \in Nat,
           Buyout(c, x, price)
    PROVE  Trades
<1>1. PICK a, v, g, e, st, N, P, cut :
         /\ Dealt(c, x, a, v, g, e, st, P) /\ Closing(st, N, x, c) /\ v = None
         /\ a.owner # c /\ a.buyout # 0 /\ gold[c] >= a.buyout
         /\ g = gold[c] - a.buyout + (IF a.bidder = c THEN a.bid ELSE 0)
         /\ cut \in Nat /\ cut <= a.buyout
         /\ P = [d \in Chars |-> Refund(a, {None, c}, d)
                                 + Gets(a.owner, a.buyout + Deposit - cut, d)]
  BY BuyoutRows
<1>2. a = ah[x] /\ a # None /\ InWorld(c) BY <1>1 DEF Dealt
<1>3. /\ Soon \in Databases /\ Soon.ah[x] = a /\ x \notin Soon.gone
      /\ a \in Auctions /\ a.owner \in Chars /\ a.bidder \in Chars \cup {None} /\ a.owner # a.bidder
      /\ a.bid \in Nat /\ a.buyout \in Nat /\ Offered(a, x)
  BY <1>2, SaleFacts
<1>4. /\ e \in Databases /\ Sound(e) /\ Counts(e, a, v, P, c, g)
      /\ e.chars = Soon.chars /\ c \in Soon.chars
      /\ gold[c] \in Nat /\ g \in Nat /\ gold[c] + Share(a, c) <= Wealth(Soon)[c]
  BY <1>1, DealtFacts
<1>5. Deal(e, st, x, v, [Soon.gold EXCEPT ![c] = g]) /\ Due(st, P) BY <1>1 DEF Dealt
<1>6. (\E s : Given(st, N, x, s)) /\ Inherits(st, N, x, c) BY <1>1 DEF Closing
<1>7. \A k \in N : k.cod = 0
  <2>1. Mailing(st, N) BY <1>6 DEF Given
  <2>2. N \subseteq st.db.mails /\ \A k \in N : k.id \notin UsedIds BY <2>1 DEF Mailing
  <2>3. \A k \in N : k \notin Soon.mails BY <2>2, Basics DEF Ids
  <2> QED BY <1>5, <2>2, <2>3 DEF Due
<1>8. /\ Holder(e)[x] = c /\ Offers(e)[x] = {}
      /\ Mailing(st, N) /\ (\A k \in N : k.items \subseteq {x})
      /\ (st.db.gone = Soon.gone \/ st.db.gone = Soon.gone \cup {x})
  <2>1. Exists(c) BY <1>2 DEF Exists, InWorld
  <2>2. e.mails = st.db.mails /\ e.gone = st.db.gone BY <1>5 DEF Deal
  <2> QED BY <1>3, <1>4, <1>6, <1>7, <2>1, <2>2, Passed
<1>9. ASSUME NEW d \in Chars
      PROVE  /\ Wealth(e)[d] \in Nat /\ Wealth(Soon)[d] \in Nat
             /\ d = c => Wealth(e)[d] = Wealth(Soon)[d] - a.buyout
             /\ d = a.owner => Wealth(e)[d] <= Wealth(Soon)[d] + a.buyout
             /\ d # c /\ ~Exists(d) => Wealth(e)[d] <= Wealth(Soon)[d]
             /\ d # a.owner /\ d # c /\ Exists(d) => Wealth(e)[d] = Wealth(Soon)[d]
  <2>1. Share(a, d) = IF d = a.owner THEN Deposit ELSE IF d = a.bidder THEN a.bid ELSE 0
    BY <1>2, ShareIs
  <2>2. Share(v, d) = 0 BY <1>1 DEF Share
  <2>3. P[d] = (IF a.bidder \in {None, c} THEN 0 ELSE IF d = a.bidder /\ Exists(a.bidder) THEN a.bid ELSE 0)
               + (IF d = a.owner /\ Exists(d) THEN a.buyout + Deposit - cut ELSE 0)
    BY <1>1 DEF Refund, Gets
  <2>4. /\ Wealth(e)[d] \in Nat /\ Wealth(Soon)[d] \in Nat
        /\ d # c => Wealth(e)[d] + Share(a, d) = Wealth(Soon)[d] + P[d] + Share(v, d)
        /\ d = c => Wealth(e)[d] + gold[c] + Share(a, d) = Wealth(Soon)[d] + g + P[d] + Share(v, d)
    BY <1>4 DEF Counts
  <2>5. PICK w, u, b, h, y, q, k, fee \in Nat :
           /\ w = Wealth(e)[d] /\ u = Wealth(Soon)[d] /\ b = a.bid
           /\ h = gold[c] /\ y = g /\ q = a.buyout /\ k = cut /\ fee = Deposit
    BY <1>1, <1>3, <1>4, <2>4, StoreAssumption
  <2>6. d # None BY StoreAssumption
  <2>7. CASE d = c
    <3>1. d # a.owner BY <1>1, <2>7
    <3>2. Share(a, d) = IF d = a.bidder THEN b ELSE 0 BY <2>1, <2>5, <3>1
    <3>3. P[d] = 0 BY <2>3, <2>7, <3>1
    <3>4. w + h + (IF d = a.bidder THEN b ELSE 0) = u + y + 0 + 0
      BY <2>2, <2>4, <2>5, <2>7, <3>2, <3>3
    <3>5. y = h - q + (IF d = a.bidder THEN b ELSE 0) BY <1>1, <2>5, <2>7
    <3>6. w = u - q BY <3>4, <3>5
    <3> QED BY <2>5, <2>7, <3>1, <3>6
  <2>8. CASE d # c /\ d = a.owner
    <3>1. Share(a, d) = fee BY <2>1, <2>5, <2>8
    <3>2. d # a.bidder BY <1>3, <2>8
    <3>3. P[d] = 0 + (IF Exists(d) THEN q + fee - k ELSE 0) BY <2>3, <2>5, <2>8, <3>2
    <3>4. w + fee = u + (0 + (IF Exists(d) THEN q + fee - k ELSE 0)) + 0
      BY <2>2, <2>4, <2>5, <2>8, <3>1, <3>3
    <3>5. w <= u + q /\ (~Exists(d) => w <= u) BY <3>4
    <3> QED BY <2>5, <2>8, <3>5
  <2>9. CASE d # c /\ d # a.owner
    <3>1. Share(a, d) = IF d = a.bidder THEN b ELSE 0 BY <2>1, <2>5, <2>9
    <3>2. P[d] = (IF d = a.bidder /\ Exists(d) THEN b ELSE 0) + 0 BY <2>3, <2>5, <2>6, <2>9
    <3>3. w + (IF d = a.bidder THEN b ELSE 0) = u + ((IF d = a.bidder /\ Exists(d) THEN b ELSE 0) + 0) + 0
      BY <2>2, <2>4, <2>5, <2>9, <3>1, <3>2
    <3>4. w <= u /\ (Exists(d) => w = u) BY <3>3
    <3> QED BY <2>5, <2>9, <3>4
  <2> QED BY <2>7, <2>8, <2>9
<1>10. Soon.chars \in SUBSET Chars /\ \A d \in Chars : Exists(d) <=> d \in Soon.chars BY SoonTerms
<1>11. Sells(Soon, e, a.owner, c)
  <2>1. PICK p \in Nat : p = a.buyout BY <1>3
  <2>2. PICK S \in SUBSET Items : S = {x} OBVIOUS
  <2>3. p > 0 BY <1>1, <2>1
  <2>4. p <= Wealth(Soon)[c] /\ Wealth(Soon)[c] \in Nat
    <3>1. Share(a, c) \in Nat BY <1>4 DEF Counts
    <3> QED BY <1>1, <1>4, <1>9, <2>1, <3>1
  <2>5. Wealth(e)[c] <= Wealth(Soon)[c] - p /\ Wealth(e)[a.owner] <= Wealth(Soon)[a.owner] + p
    BY <1>3, <1>9, <2>1
  <2>6. \A d \in Chars : d # a.owner /\ d # c =>
           Wealth(e)[d] <= Wealth(Soon)[d] /\ (d \in Soon.chars => Wealth(e)[d] = Wealth(Soon)[d])
    <3>1. ASSUME NEW d \in Chars, d # a.owner, d # c
          PROVE  Wealth(e)[d] <= Wealth(Soon)[d] /\ (d \in Soon.chars => Wealth(e)[d] = Wealth(Soon)[d])
      <4>1. CASE Exists(d) BY <1>9, <3>1, <4>1
      <4>2. CASE ~Exists(d) BY <1>9, <1>10, <3>1, <4>2
      <4> QED BY <4>1, <4>2
    <3> QED BY <3>1
  <2>7. a.owner \notin Soon.chars => Wealth(e)[a.owner] <= Wealth(Soon)[a.owner]
    BY <1>1, <1>3, <1>9, <1>10
  <2>8. \A y \in S : /\ Holder(Soon)[y] = a.owner /\ <<c, p>> \in Offers(Soon)[y]
                     /\ Holder(e)[y] = c /\ Offers(e)[y] = {}
    BY <1>1, <1>3, <1>8, <2>1, <2>2 DEF Offered
  <2>9. ASSUME NEW y \in Items \ S PROVE Aside(Soon, e, c, y)
    <3>1. y # x BY <2>2
    <3>2. Alike(e, Soon, y) BY <1>5, <1>8, <3>1, DealAlike
    <3> QED BY <3>2, FateSame
  <2>10. S # {} BY <2>2
  <2>11. a.owner \in Chars /\ e.chars = Soon.chars /\ c \in Soon.chars BY <1>3, <1>4
  <2> QED BY <1>10, <2>3, <2>4, <2>5, <2>6, <2>7, <2>8, <2>9, <2>10, <2>11, SaleMade
<1>12. Passes(Soon, e) BY <1>1, <1>3, <1>11 DEF Passes
<1> QED BY <1>1, <1>8, <1>12, DealtTrades

\* The owner takes his auction back.
LEMMA CancelAuctionTrades ==
    ASSUME IInv, IInv', Trading, NEW c \in Chars, NEW x \in Items, CancelAuction(c, x)
    PROVE  Trades
<1>1. PICK a, v, g, e, st, N, P :
         /\ Dealt(c, x, a, v, g, e, st, P) /\ Closing(st, N, x, c) /\ v = None
         /\ a.owner = c /\ P = [d \in Chars |-> Refund(a, {None}, d)]
  BY CancelAuctionRows
<1>2. a = ah[x] /\ a # None /\ InWorld(c) BY <1>1 DEF Dealt
<1>3. /\ Soon \in Databases /\ Soon.ah[x] = a /\ x \notin Soon.gone
      /\ a \in Auctions /\ a.bidder \in Chars \cup {None} /\ a.owner # a.bidder
      /\ a.bid \in Nat /\ Offered(a, x)
  BY <1>2, SaleFacts
<1>4. /\ e \in Databases /\ Sound(e) /\ Counts(e, a, v, P, c, g)
      /\ e.chars = Soon.chars /\ Soon.burnt <= e.burnt
  BY <1>1, DealtFacts
<1>5. Deal(e, st, x, v, [Soon.gold EXCEPT ![c] = g]) /\ Due(st, P) BY <1>1 DEF Dealt
<1>6. (\E s : Given(st, N, x, s)) /\ Inherits(st, N, x, c) BY <1>1 DEF Closing
<1>7. \A k \in N : k.cod = 0
  <2>1. Mailing(st, N) BY <1>6 DEF Given
  <2>2. N \subseteq st.db.mails /\ \A k \in N : k.id \notin UsedIds BY <2>1 DEF Mailing
  <2>3. \A k \in N : k \notin Soon.mails BY <2>2, Basics DEF Ids
  <2> QED BY <1>5, <2>2, <2>3 DEF Due
<1>8. /\ Holder(e)[x] = c
      /\ Mailing(st, N) /\ (\A k \in N : k.items \subseteq {x})
      /\ (st.db.gone = Soon.gone \/ st.db.gone = Soon.gone \cup {x})
  <2>1. Exists(c) BY <1>2 DEF Exists, InWorld
  <2>2. e.mails = st.db.mails /\ e.gone = st.db.gone BY <1>5 DEF Deal
  <2> QED BY <1>3, <1>4, <1>6, <1>7, <2>1, <2>2, Passed
<1>9. ASSUME NEW d \in Soon.chars \ {c} PROVE Wealth(e)[d] >= Wealth(Soon)[d]
  <2>1. d \in Chars /\ Exists(d) BY <1>3, <1>9, SoonTerms DEF Databases
  <2>2. Share(a, d) = IF d = a.bidder THEN a.bid ELSE 0 BY <1>1, <1>2, <1>9, ShareIs
  <2>3. Share(v, d) = 0 BY <1>1 DEF Share
  <2>4. d # None BY <2>1, StoreAssumption
  <2>5. P[d] = IF d = a.bidder THEN a.bid ELSE 0 BY <1>1, <2>1, <2>4 DEF Refund, Gets
  <2>6. /\ Wealth(e)[d] \in Nat /\ Wealth(Soon)[d] \in Nat
        /\ Wealth(e)[d] + Share(a, d) = Wealth(Soon)[d] + P[d] + Share(v, d)
    BY <1>4, <1>9, <2>1 DEF Counts
  <2>7. PICK w, u, b \in Nat : w = Wealth(e)[d] /\ u = Wealth(Soon)[d] /\ b = a.bid BY <1>3, <2>6
  <2>8. w + (IF d = a.bidder THEN b ELSE 0) = u + (IF d = a.bidder THEN b ELSE 0) + 0
    BY <2>2, <2>3, <2>5, <2>6, <2>7
  <2>9. w = u BY <2>8
  <2> QED BY <2>7, <2>9
<1>10. ASSUME NEW y \in Items PROVE Fate(Soon, e, c, y)
  <2>1. CASE y = x BY <1>1, <1>3, <1>8, <2>1 DEF Fate, Offered
  <2>2. CASE y # x
    <3>1. Alike(e, Soon, y) BY <1>5, <1>8, <2>2, DealAlike
    <3> QED BY <3>1, FateSame
  <2> QED BY <2>1, <2>2
<1>11. Gives(Soon, e, c) BY <1>4, <1>9, <1>10 DEF Gives
<1>12. Passes(Soon, e) BY <1>11 DEF Passes
<1> QED BY <1>1, <1>8, <1>12, DealtTrades

LEMMA WealthSame ==
    ASSUME NEW D, NEW E, E.gold = D.gold, E.mails = D.mails, E.ah = D.ah
    PROVE  Wealth(E) = Wealth(D)
BY DEF Wealth, Auctioned

LEMMA TermsSame ==
    ASSUME NEW D, NEW E, E.mails = D.mails, E.ah = D.ah, Terms(D)
    PROVE  Terms(E)
BY DEF Terms

\* What everybody has when the auction a is over.
Settles(s, a, P) ==
    \A d \in Chars :
        /\ Wealth(s)[d] \in Nat /\ Wealth(Soon)[d] \in Nat /\ P[d] \in Nat /\ Share(a, d) \in Nat
        /\ Wealth(s)[d] + Share(a, d) = Wealth(Soon)[d] + P[d]
        /\ Share(a, d) <= Wealth(Soon)[d]

LEMMA EndedFacts ==
    ASSUME IInv, IInv', Trading, NEW x \in Items, NEW a, NEW heir, NEW e, NEW s, NEW st, NEW N, NEW P,
           NEW t, Ended(x, a, heir, e, s, st, N, P, t)
    PROVE  /\ s \in Databases /\ Sound(s) /\ Settles(s, a, P) /\ Terms(s)
           /\ s.chars = Soon.chars /\ Soon.burnt <= s.burnt
           /\ Mailing(st, N) /\ P \in [Chars -> Nat]
           /\ Exists(heir) => Holder(s)[x] = heir /\ Offers(s)[x] = {}
           /\ ~Exists(heir) => Holder(s)[x] = None /\ Offers(s)[x] = {}
           /\ \A y \in Items : y # x => Alike(s, Soon, y)
<1>1. /\ a = ah[x] /\ a # None /\ heir \in Chars
      /\ Given(st, N, x, t) /\ Inherits(st, N, x, heir)
      /\ Deal(s, st, x, None, Soon.gold) /\ Due(st, P) /\ e = Destroy(Soon, {x}, 0)
      /\ Exists(heir) => Commit(<<s>>)
      /\ ~Exists(heir) => Commit(<<e, s>>)
  BY DEF Ended
<1>2. PICK v \in Auctions \cup {None} : v = None OBVIOUS
<1>3. /\ s \in Databases /\ s.mails = st.db.mails /\ s.gone = st.db.gone
      /\ s.gold = Soon.gold /\ s.ah = [Soon.ah EXCEPT ![x] = v]
      /\ s.chars = Soon.chars /\ st.db.burnt <= s.burnt
  BY <1>1, <1>2 DEF Deal
<1>4. Sound(s)
  <2>1. CASE Exists(heir) BY <1>1, <1>3, <2>1, CommittedOne
  <2>2. CASE ~Exists(heir)
    <3>1. ah[x] # None BY <1>1
    <3>2. e \in Databases BY <1>1, <3>1, EarlySound
    <3> QED BY <1>1, <1>3, <2>2, <3>2, CommittedTwo
  <2> QED BY <2>1, <2>2
<1>5. /\ Soon \in Databases /\ Sound(Soon) /\ Soon.ah[x] = a /\ x \notin Soon.gone BY <1>1, SaleFacts
<1>6. PICK D \in Databases : D = Soon /\ Sound(D) /\ D.ah[x] = a BY <1>5
<1>7. Proper(D.mails) /\ Proper(s.mails) BY <1>4, <1>6 DEF Sound
<1>8. P \in [Chars -> Nat] /\ Soon.burnt <= st.db.burnt /\ st.db \in Databases BY <1>1 DEF Due
<1>9. ASSUME NEW d \in Chars
      PROVE  /\ Wealth(s)[d] \in Nat /\ Wealth(Soon)[d] \in Nat /\ P[d] \in Nat /\ Share(a, d) \in Nat
             /\ Wealth(s)[d] + Share(a, d) = Wealth(Soon)[d] + P[d]
             /\ Share(a, d) <= Wealth(Soon)[d]
  <2>1. PICK p \in Nat : p = P[d] BY <1>8
  <2>2. Post(s.mails, d) = Post(D.mails, d) + p BY <1>1, <1>3, <1>6, <2>1 DEF Due
  <2>3. s.ah = [D.ah EXCEPT ![x] = v] BY <1>3, <1>6
  <2>0. s \in Databases BY <1>3
  <2>4. /\ Wealth(s)[d] + D.gold[d] + Share(D.ah[x], d) = Wealth(D)[d] + s.gold[d] + p + Share(v, d)
        /\ Wealth(s)[d] \in Nat /\ Wealth(D)[d] \in Nat
        /\ D.gold[d] \in Nat /\ s.gold[d] \in Nat
        /\ Share(D.ah[x], d) \in Nat /\ Share(v, d) \in Nat
        /\ Wealth(D)[d] >= D.gold[d] + Share(D.ah[x], d)
    BY <1>7, <2>0, <2>2, <2>3, DealWealth
  <2>5. Share(v, d) = 0 /\ s.gold[d] = D.gold[d] BY <1>2, <1>3, <1>6 DEF Share
  <2>6. PICK w, u, h, k \in Nat :
           w = Wealth(s)[d] /\ u = Wealth(D)[d] /\ h = D.gold[d] /\ k = Share(a, d)
    BY <1>6, <2>4
  <2>7. w + h + k = u + h + p + 0 /\ u >= h + k BY <1>6, <2>4, <2>5, <2>6
  <2>8. w + k = u + p /\ k <= u BY <2>7
  <2> QED BY <1>6, <2>1, <2>6, <2>8
<1>10. Settles(s, a, P) BY <1>9 DEF Settles
<1>11. Terms(s)
  <2>1. Terms(Soon) BY SoonTerms
  <2>2. Deal(s, st, x, v, Soon.gold) BY <1>1, <1>2
  <2> QED BY <1>1, <1>2, <2>1, <2>2, DealTerms
<1>12. Soon.burnt <= s.burnt
  <2>1. D.burnt \in Nat /\ s.burnt \in Nat /\ st.db.burnt \in Nat BY <1>3, <1>8 DEF Databases
  <2>2. D.burnt <= st.db.burnt /\ st.db.burnt <= s.burnt BY <1>3, <1>6, <1>8
  <2>3. D.burnt <= s.burnt BY <2>1, <2>2
  <2> QED BY <1>6, <2>3
<1>13. \A k \in N : k.cod = 0
  <2>1. Mailing(st, N) BY <1>1 DEF Given
  <2>2. N \subseteq st.db.mails /\ \A k \in N : k.id \notin UsedIds BY <2>1 DEF Mailing
  <2>3. \A k \in N : k \notin Soon.mails BY <2>2, Basics DEF Ids
  <2> QED BY <1>1, <2>2, <2>3 DEF Due
<1>14. \E z : Given(st, N, x, z) BY <1>1
<1>15. /\ Exists(heir) => Holder(s)[x] = heir /\ Offers(s)[x] = {}
       /\ ~Exists(heir) => Holder(s)[x] = None /\ Offers(s)[x] = {}
       /\ Mailing(st, N) /\ (\A k \in N : k.items \subseteq {x})
       /\ (st.db.gone = Soon.gone \/ st.db.gone = Soon.gone \cup {x})
  BY <1>1, <1>3, <1>4, <1>5, <1>13, <1>14, Passed
<1>16. ASSUME NEW y \in Items, y # x PROVE Alike(s, Soon, y)
  BY <1>1, <1>15, <1>16, DealAlike
<1> QED BY <1>3, <1>4, <1>8, <1>10, <1>11, <1>12, <1>15, <1>16

\* The auction ends and its item goes to who bid, for his bid, or back.
LEMMA AuctionExpiresTrades ==
    ASSUME IInv, IInv', Trading, NEW x \in Items, AuctionExpires(x)
    PROVE  Trades
<1>1. PICK a, heir, e, s, st, N, P, t, cut :
         /\ Ended(x, a, heir, e, s, st, N, P, t) /\ cut \in Nat /\ cut <= a.bid
         /\ P = [d \in Chars |-> IF a.bidder = None THEN 0
                                 ELSE Gets(a.owner, a.bid + Deposit - cut, d)]
  BY AuctionExpiresRows
<1>2. /\ a = ah[x] /\ a # None
      /\ heir \in Chars /\ heir = IF a.bidder = None THEN a.owner ELSE a.bidder
      /\ e = Destroy(Soon, {x}, 0)
      /\ Exists(heir) => Commit(<<s>>)
      /\ ~Exists(heir) => Commit(<<e, s>>)
      /\ box' = st.box /\ status' = status /\ deleted' = deleted
  BY <1>1 DEF Ended
<1>3. /\ Soon \in Databases /\ Soon.ah[x] = a /\ x \notin Soon.gone
      /\ a \in Auctions /\ a.owner \in Chars /\ a.owner # a.bidder
      /\ a.bid \in Nat /\ Offered(a, x)
  BY <1>2, SaleFacts
<1>4. /\ s \in Databases /\ Sound(s) /\ Settles(s, a, P) /\ Terms(s)
      /\ s.chars = Soon.chars /\ Soon.burnt <= s.burnt
      /\ Mailing(st, N) /\ P \in [Chars -> Nat]
      /\ Exists(heir) => Holder(s)[x] = heir /\ Offers(s)[x] = {}
      /\ ~Exists(heir) => Holder(s)[x] = None /\ Offers(s)[x] = {}
      /\ \A y \in Items : y # x => Alike(s, Soon, y)
  BY <1>1, EndedFacts
<1>5. /\ Terms(Soon) /\ Soon.chars \in SUBSET Chars
      /\ \A d \in Chars : Exists(d) <=> d \in Soon.chars
  BY SoonTerms
<1>6. ASSUME NEW d \in Chars
      PROVE  /\ Wealth(s)[d] \in Nat /\ Wealth(Soon)[d] \in Nat
             /\ d # a.owner /\ (Exists(heir) => d # a.bidder) /\ Exists(d) => Wealth(s)[d] = Wealth(Soon)[d]
             /\ d # a.owner => Wealth(s)[d] <= Wealth(Soon)[d]
             /\ d # a.owner /\ d = a.bidder =>
                   Wealth(s)[d] = Wealth(Soon)[d] - a.bid /\ a.bid <= Wealth(Soon)[d]
             /\ d = a.owner => Wealth(s)[d] <= Wealth(Soon)[d] + a.bid
             /\ d = a.owner /\ ~Exists(d) => Wealth(s)[d] <= Wealth(Soon)[d]
  <2>1. Share(a, d) = IF d = a.owner THEN Deposit ELSE IF d = a.bidder THEN a.bid ELSE 0
    BY <1>2, ShareIs
  <2>2. P[d] = IF a.bidder = None THEN 0
               ELSE IF d = a.owner /\ Exists(d) THEN a.bid + Deposit - cut ELSE 0
    BY <1>1 DEF Gets
  <2>3. /\ Wealth(s)[d] \in Nat /\ Wealth(Soon)[d] \in Nat
        /\ Wealth(s)[d] + Share(a, d) = Wealth(Soon)[d] + P[d]
        /\ Share(a, d) <= Wealth(Soon)[d]
    BY <1>4 DEF Settles
  <2>4. PICK w, u, b, k, fee \in Nat :
           w = Wealth(s)[d] /\ u = Wealth(Soon)[d] /\ b = a.bid /\ k = cut /\ fee = Deposit
    BY <1>1, <1>3, <2>3, StoreAssumption
  <2>5. d # None BY StoreAssumption
  <2>6. CASE d = a.owner
    <3>1. w + fee = u + (IF a.bidder = None THEN 0 ELSE IF Exists(d) THEN b + fee - k ELSE 0)
      BY <2>1, <2>2, <2>3, <2>4, <2>6
    <3>2. w <= u + b /\ (~Exists(d) => w <= u) BY <3>1
    <3> QED BY <2>4, <2>6, <3>2
  <2>7. CASE d # a.owner
    <3>1. w + (IF d = a.bidder THEN b ELSE 0) = u + 0 /\ (IF d = a.bidder THEN b ELSE 0) <= u
      BY <2>1, <2>2, <2>3, <2>4, <2>7
    <3>2. d = a.bidder => heir = d BY <1>2, <2>5
    <3>3. w <= u /\ (d = a.bidder => w = u - b /\ b <= u) /\ (d # a.bidder => w = u) BY <3>1
    <3> QED BY <2>4, <2>7, <3>2, <3>3
  <2> QED BY <2>6, <2>7
<1>7. ASSUME NEW d \in Soon.chars \ {a.owner}, d # heir PROVE Wealth(s)[d] >= Wealth(Soon)[d]
  <2>1. d \in Chars /\ Exists(d) BY <1>5
  <2>2. d # a.bidder
    <3>1. d # None BY <2>1, StoreAssumption
    <3> QED BY <1>2, <1>7, <3>1
  <2>3. Wealth(s)[d] = Wealth(Soon)[d] /\ Wealth(s)[d] \in Nat BY <1>6, <1>7, <2>1, <2>2
  <2> QED BY <2>3
<1>8. ASSUME Exists(heir), a.bidder = None
      PROVE  Enqueued(s)
  <2>1. heir = a.owner BY <1>2, <1>8
  <2>2. ASSUME NEW y \in Items PROVE Fate(Soon, s, a.owner, y)
    <3>1. CASE y = x BY <1>3, <1>4, <1>8, <2>1, <3>1 DEF Fate, Offered
    <3>2. CASE y # x BY <1>4, <3>2, FateSame
    <3> QED BY <3>1, <3>2
  <2>3. \A d \in Soon.chars \ {a.owner} : Wealth(s)[d] >= Wealth(Soon)[d] BY <1>7, <2>1
  <2>4. Gives(Soon, s, a.owner) BY <1>4, <2>2, <2>3 DEF Gives
  <2>5. Passes(Soon, s) BY <1>3, <2>4 DEF Passes
  <2> QED BY <1>2, <1>4, <1>8, <2>5, QueuedOne
<1>9. ASSUME Exists(heir), a.bidder # None
      PROVE  Enqueued(s)
  <2>1. heir = a.bidder BY <1>2, <1>9
  <2>2. PICK b \in Chars : b = a.bidder BY <1>2, <2>1
  <2>3. PICK p \in Nat : p = a.bid BY <1>3
  <2>4. PICK S \in SUBSET Items : S = {x} OBVIOUS
  <2>5. p > 0 BY <1>2, <1>3, <1>5, <1>9, <2>3 DEF Terms
  <2>6. /\ p <= Wealth(Soon)[b] /\ Wealth(Soon)[b] \in Nat /\ b # a.owner
        /\ Wealth(s)[b] <= Wealth(Soon)[b] - p
    BY <1>3, <1>6, <2>2, <2>3
  <2>7. Wealth(s)[a.owner] <= Wealth(Soon)[a.owner] + p BY <1>3, <1>6, <2>3
  <2>8. \A d \in Chars : d # a.owner /\ d # b =>
           Wealth(s)[d] <= Wealth(Soon)[d] /\ (d \in Soon.chars => Wealth(s)[d] = Wealth(Soon)[d])
    BY <1>5, <1>6, <2>2
  <2>9. a.owner \notin Soon.chars => Wealth(s)[a.owner] <= Wealth(Soon)[a.owner]
    BY <1>3, <1>5, <1>6
  <2>10. \A y \in S : /\ Holder(Soon)[y] = a.owner /\ <<b, p>> \in Offers(Soon)[y]
                      /\ Holder(s)[y] = b /\ Offers(s)[y] = {}
    BY <1>3, <1>4, <1>9, <2>1, <2>2, <2>3, <2>4 DEF Offered
  <2>11. ASSUME NEW y \in Items \ S PROVE Aside(Soon, s, b, y)
    <3>1. y # x BY <2>4
    <3>2. Alike(s, Soon, y) BY <1>4, <3>1
    <3> QED BY <3>2, FateSame
  <2>12. S # {} BY <2>4
  <2>13. s.chars = Soon.chars /\ b \in Soon.chars BY <1>4, <1>5, <1>9, <2>1, <2>2
  <2>14. Sells(Soon, s, a.owner, b)
    BY <1>5, <2>5, <2>6, <2>7, <2>8, <2>9, <2>10, <2>11, <2>12, <2>13, SaleMade
  <2>15. Passes(Soon, s) BY <1>3, <2>6, <2>14 DEF Passes
  <2> QED BY <1>2, <1>4, <1>9, <2>15, QueuedOne
<1>10. ASSUME ~Exists(heir)
       PROVE  Enqueued(s)
  <2>1. ah[x] # None BY <1>2
  <2>2. /\ e \in Databases /\ Sound(e)
        /\ e.mails = Soon.mails /\ e.gold = Soon.gold /\ e.inv = Soon.inv
        /\ e.ah = Soon.ah /\ e.parted = Soon.parted /\ e.chars = Soon.chars
        /\ e.gone = Soon.gone \cup {x} /\ e.burnt = Soon.burnt
    BY <1>2, <2>1, EarlySound
  <2>3. Holder(e)[x] = None /\ Offers(e)[x] = {} BY <2>2, HasGone
  <2>4. ASSUME NEW y \in Items, y # x PROVE Alike(e, Soon, y)
    <3>1. Posts(e, y) = Posts(Soon, y) BY <2>2 DEF Posts
    <3> QED BY <2>2, <2>4, <3>1 DEF Alike
  <2>5. Wealth(e) = Wealth(Soon) BY <2>2, WealthSame
  <2>6. Passes(Soon, e)
    <3>1. ASSUME NEW y \in Items PROVE Fate(Soon, e, a.owner, y)
      <4>1. CASE y = x BY <1>3, <2>3, <4>1 DEF Fate, Offered
      <4>2. CASE y # x BY <2>4, <4>2, FateSame
      <4> QED BY <4>1, <4>2
    <3>2. \A d \in Soon.chars \ {a.owner} : Wealth(e)[d] >= Wealth(Soon)[d]
      <4>1. \A d \in Chars : Wealth(Soon)[d] \in Nat BY <1>6
      <4> QED BY <1>5, <2>5, <4>1
    <3>3. Soon.burnt <= e.burnt BY <1>3, <2>2 DEF Databases
    <3>4. Gives(Soon, e, a.owner) BY <2>2, <3>1, <3>2, <3>3 DEF Gives
    <3> QED BY <1>3, <3>4 DEF Passes
  <2>7. Passes(e, s)
    <3>1. ASSUME NEW y \in Items PROVE Fate(e, s, a.owner, y)
      <4>1. CASE y = x
        <5>1. a.owner # None BY <1>3, StoreAssumption
        <5> QED BY <1>4, <1>10, <2>3, <4>1, <5>1 DEF Fate
      <4>2. CASE y # x
        <5>1. Alike(s, Soon, y) /\ Alike(e, Soon, y) BY <1>4, <2>4, <4>2
        <5>2. Alike(s, e, y) BY <5>1 DEF Alike
        <5> QED BY <5>2, FateSame
      <4> QED BY <4>1, <4>2
    <3>2. ASSUME NEW d \in e.chars \ {a.owner} PROVE Wealth(s)[d] >= Wealth(e)[d]
      <4>1. d # heir BY <1>5, <1>10, <2>2
      <4> QED BY <1>7, <2>2, <2>5, <4>1
    <3>3. Gives(e, s, a.owner) BY <1>4, <2>2, <3>1, <3>2 DEF Gives
    <3> QED BY <1>3, <3>3 DEF Passes
  <2>8. Terms(e) BY <1>5, <2>2, TermsSame
  <2> QED BY <1>2, <1>4, <1>10, <2>2, <2>6, <2>7, <2>8, QueuedTwo
<1>11. Enqueued(s)
  BY <1>8, <1>9, <1>10
<1> QED BY <1>2, <1>4, <1>11, TradedMail

-----------------------------------------------------------------------------
(* The mails.                                                               *)

\* A mail is returned, emptied or removed: its receiver disposes of it.
LEMMA ReplacedGives ==
    ASSUME NEW D \in Databases, Sound(D), Terms(D), NEW e, NEW m, NEW R, NEW lost,
           Replaced(e, D, m, R, lost), NEW C, Rightly(m, R, lost, C), D.chars \subseteq C
    PROVE  e \in Databases /\ Sound(e) /\ Terms(e) /\ m.to \in Chars /\ Gives(D, e, m.to)
           /\ e.chars = D.chars
<1>1. /\ e \in Databases /\ m \in D.mails /\ R \in SUBSET Mails /\ lost \subseteq m.items
      /\ e.mails = (D.mails \ {m}) \cup R /\ e.gone = D.gone \cup lost
      /\ e.gold = D.gold /\ e.inv = D.inv /\ e.ah = D.ah /\ e.parted = D.parted
      /\ e.chars = D.chars
      /\ \A k \in R : k.items = m.items \ lost
      /\ R = {} => lost = m.items /\ e.burnt = D.burnt + m.money
      /\ R # {} => e.burnt = D.burnt
  BY DEF Replaced
<1>2. /\ \A k \in R : \/ k = Turned(m) /\ m.from \in Chars
                      \/ k.from = m.from /\ k.to = m.to /\ k.cod = m.cod /\ k.back = m.back
      /\ lost # {} => m.cod = 0 \/ m.back \/ m.from \notin C
  BY DEF Rightly
<1>3. Sound(e) BY ReplacedSound
<1>4. m \in Mails /\ D.burnt \in Nat BY <1>1 DEF Databases
<1>5. /\ m.to \in Chars /\ m.cod \in Nat /\ m.money \in Nat /\ m.items \in SUBSET Items
      /\ Tame(m)
  BY <1>1, <1>4 DEF Mails, Terms
<1>6. m.from \in Chars => /\ Turned(m).from = m.to /\ Turned(m).to = m.from /\ Turned(m).cod = 0
                          /\ Turned(m).items = m.items
  BY <1>4 DEF Turned, Mails
<1>7. Terms(e)
  <2>1. ASSUME NEW k \in R PROVE Tame(k)
    <3>1. CASE k = Turned(m) /\ m.from \in Chars BY <1>5, <1>6, <3>1 DEF Tame
    <3>2. CASE k.from = m.from /\ k.to = m.to /\ k.cod = m.cod /\ k.back = m.back
      BY <1>5, <3>2 DEF Tame
    <3> QED BY <1>2, <3>1, <3>2
  <2> QED BY <1>1, <2>1 DEF Terms
<1>8. D.burnt <= e.burnt BY <1>1, <1>4, <1>5
<1>9. ASSUME NEW x \in Items PROVE Fate(D, e, m.to, x)
  <2>1. Once(D, x) /\ Once(e, x) BY <1>3 DEF Sound
  <2>2. CASE x \notin m.items
    <3>1. Posts(e, x) = Posts(D, x) BY <1>1, <2>2 DEF Posts
    <3>2. Alike(e, D, x) BY <1>1, <2>2, <3>1 DEF Alike
    <3> QED BY <3>2, FateSame
  <2>3. CASE x \in m.items /\ m.cod = 0
    <3>1. Holder(D)[x] = m.to /\ Offers(D)[x] = {} BY <1>1, <2>1, <2>3, HasPost
    <3> QED BY <3>1 DEF Fate
  <2>4. CASE x \in m.items /\ m.cod > 0
    <3>1. m.from \in Chars /\ ~m.back /\ m.from # m.to BY <1>5, <2>4 DEF Tame
    <3>2. Holder(D)[x] = m.from /\ Offers(D)[x] = {<<m.to, m.cod>>} BY <1>1, <2>1, <2>4, <3>1, HasPost
    <3>3. CASE x \in lost
      <4>1. m.from \notin C BY <1>2, <2>4, <3>1, <3>3
      <4>2. m.from \in Chars \ D.chars BY <3>1, <4>1
      <4> QED BY <3>1, <3>2, <4>2 DEF Fate
    <3>4. CASE x \notin lost
      <4>1. R # {} BY <1>1, <2>4, <3>4
      <4>2. PICK k \in R : TRUE BY <4>1
      <4>3. k \in e.mails /\ x \in k.items BY <1>1, <2>4, <3>4, <4>2
      <4>4. Holder(e)[x] = m.from /\ Offers(e)[x] \subseteq Offers(D)[x]
        <5>1. CASE k = Turned(m)
          <6>1. k.cod = 0 /\ k.to = m.from BY <1>6, <3>1, <5>1
          <6>2. Holder(e)[x] = k.to /\ Offers(e)[x] = {} BY <1>1, <2>1, <4>3, <6>1, HasPost
          <6> QED BY <6>1, <6>2
        <5>2. CASE k.from = m.from /\ k.to = m.to /\ k.cod = m.cod
          <6>1. k.cod > 0 /\ k.from \in Chars BY <2>4, <3>1, <5>2
          <6>2. Holder(e)[x] = k.from /\ Offers(e)[x] = {<<k.to, k.cod>>}
            BY <1>1, <2>1, <4>3, <6>1, HasPost
          <6> QED BY <3>2, <5>2, <6>2
        <5> QED BY <1>2, <4>2, <5>1, <5>2
      <4> QED BY <3>1, <3>2, <4>4 DEF Fate
    <3> QED BY <3>3, <3>4
  <2> QED BY <1>5, <2>2, <2>3, <2>4
<1>10. Proper(D.mails) /\ Proper(e.mails) BY <1>3 DEF Sound
<1>11. ASSUME NEW d \in Chars, d # m.to
       PROVE  e.gold[d] >= D.gold[d] /\ MailsOf(D, d) \subseteq e.mails
  <2>1. D.gold[d] \in Nat BY DEF Databases
  <2>2. e.gold[d] >= D.gold[d] BY <1>1, <2>1
  <2>3. MailsOf(D, d) \subseteq e.mails BY <1>1, <1>11 DEF MailsOf
  <2> QED BY <2>2, <2>3
<1>12. Gives(D, e, m.to) BY <1>1, <1>5, <1>8, <1>9, <1>10, <1>11, GivesMail
<1> QED BY <1>1, <1>3, <1>5, <1>7, <1>12

\* What is left of an emptied mail is thrown away.
LEMMA DroppedGives ==
    ASSUME NEW D \in Databases, Sound(D), Terms(D), NEW c \in Chars, NEW e, Dropped(e, D, c), Sound(e)
    PROVE  Gives(D, e, c) /\ Terms(e)
<1>1. /\ e \in Databases /\ e.mails \subseteq D.mails
      /\ \A k \in D.mails : k.to # c \/ k.items # {} => k \in e.mails
      /\ e.gone = D.gone /\ e.gold = D.gold /\ e.inv = D.inv /\ e.ah = D.ah
      /\ e.parted = D.parted /\ e.chars = D.chars /\ D.burnt <= e.burnt
  BY DEF Dropped
<1>2. Terms(e) BY <1>1 DEF Terms
<1>3. ASSUME NEW x \in Items PROVE Fate(D, e, c, x)
  <2>1. Posts(e, x) = Posts(D, x) BY <1>1 DEF Posts
  <2>2. Alike(e, D, x) BY <1>1, <2>1 DEF Alike
  <2> QED BY <2>2, FateSame
<1>4. Proper(D.mails) /\ Proper(e.mails) BY DEF Sound
<1>5. ASSUME NEW d \in Chars, d # c
      PROVE  e.gold[d] >= D.gold[d] /\ MailsOf(D, d) \subseteq e.mails
  <2>1. D.gold[d] \in Nat BY DEF Databases
  <2>2. e.gold[d] >= D.gold[d] BY <1>1, <2>1
  <2>3. MailsOf(D, d) \subseteq e.mails BY <1>1, <1>5 DEF MailsOf
  <2> QED BY <2>2, <2>3
<1>6. Gives(D, e, c) BY <1>1, <1>3, <1>4, <1>5, GivesMail
<1> QED BY <1>2, <1>6

LEMMA SendMailTrades ==
    ASSUME IInv, IInv', Trading, NEW c \in Chars, NEW to \in Chars, NEW money \in Nat, NEW cod \in Nat,
           NEW items \in SUBSET Items, SendMail(c, to, money, cod, items)
    PROVE  Trades
<1>1. PICK st, m, g, r, cost, a : Posting(c, to, money, cod, items, st, m, g, r, cost, a)
  BY SendMailRows
<1>2. /\ m \in Mails /\ g \in Nat /\ r \in SUBSET Items /\ cost \in Nat /\ InWorld(c)
      /\ items \subseteq inv[c] /\ r = inv[c] \ items /\ box' = st.box /\ Commit(<<a>>)
      /\ UNCHANGED <<status, ahead, deleted>>
      /\ m.items = items /\ m.cod = cod /\ m.from = c /\ m.to = to /\ ~m.back /\ to # c
      /\ Mailing(st, {m}) /\ a \in Databases
      /\ a.gold = [Soon.gold EXCEPT ![c] = g] /\ a.inv = [Soon.inv EXCEPT ![c] = r]
      /\ a.mails = Soon.mails \cup {m} /\ Proper(a.mails)
      /\ a.ah = Soon.ah /\ a.parted = Soon.parted /\ a.gone = Soon.gone
      /\ a.burnt = Soon.burnt + cost /\ a.chars = Soon.chars
  BY <1>1 DEF Posting
<1>3. Soon \in Databases /\ Sound(Soon) /\ Proper(Soon.mails) BY Basics DEF Sound
<1>4. inv[c] = Soon.inv[c] BY <1>2, Online
<1>5. Terms(Soon) BY SoonTerms
<1>6. Terms(a) BY <1>2, <1>5 DEF Terms, Tame
<1>7. ASSUME NEW x \in Items PROVE Fate(Soon, a, c, x)
  <2>1. CASE x \in items
    <3>1. Once(Soon, x) /\ x \in Soon.inv[c] BY <1>2, <1>3, <1>4, <2>1 DEF Sound
    <3>2. Holder(Soon)[x] = c /\ Offers(Soon)[x] = {} BY <3>1, HasBag
    <3> QED BY <3>2 DEF Fate
  <2>2. CASE x \notin items
    <3>1. \A d \in Chars : x \in a.inv[d] <=> x \in Soon.inv[d]
      <4>1. Soon.inv \in [Chars -> SUBSET Items] BY <1>3 DEF Databases
      <4> QED BY <1>2, <1>4, <2>2, <4>1
    <3>2. Posts(a, x) = Posts(Soon, x) BY <1>2, <2>2 DEF Posts
    <3>3. Alike(a, Soon, x) BY <1>2, <3>1, <3>2 DEF Alike
    <3> QED BY <3>3, FateSame
  <2> QED BY <2>1, <2>2
<1>8. ASSUME NEW d \in Chars, d # c
      PROVE  a.gold[d] >= Soon.gold[d] /\ MailsOf(Soon, d) \subseteq a.mails
  <2>1. Soon.gold \in [Chars -> Nat] BY <1>3 DEF Databases
  <2>2. a.gold[d] = Soon.gold[d] /\ Soon.gold[d] \in Nat BY <1>2, <1>8, <2>1
  <2>3. MailsOf(Soon, d) \subseteq a.mails BY <1>2 DEF MailsOf
  <2> QED BY <2>2, <2>3
<1>9. Soon.burnt <= a.burnt
  <2>1. Soon.burnt \in Nat BY <1>3 DEF Databases
  <2> QED BY <1>2, <2>1
<1>10. Gives(Soon, a, c) BY <1>2, <1>3, <1>7, <1>8, <1>9, GivesMail
<1>11. Passes(Soon, a) BY <1>10 DEF Passes
<1>12. Enqueued(a) BY <1>2, <1>6, <1>11, QueuedOne
<1> QED BY <1>2, <1>12, TradedMail

\* What is thrown away with marked mails is their receiver's.
LEMMA DeadHeld ==
    ASSUME IInv, Marked, NEW c \in Chars, InWorld(c), NEW x \in Items, x \in DeadItems(c)
    PROVE  Holder(Soon)[x] = c /\ Offers(Soon)[x] = {}
<1>1. PICK k \in Dead(c) : x \in k.items BY DEF DeadItems
<1>2. k \in Soon.mails /\ k.to = c /\ k.cod = 0 BY <1>1, Online DEF Marked, Dead
<1>3. Soon \in Databases /\ Once(Soon, x) BY Basics DEF Sound
<1> QED BY <1>1, <1>2, <1>3, HasPost

LEMMA LogoutTrades ==
    ASSUME IInv, IInv', Trading, NEW c \in Chars, Logout(c)
    PROVE  Trades
<1>1. PICK a : Leaving(c, a) BY LogoutRows
<1>2. /\ InWorld(c) /\ Commit(<<a>>) /\ status' = [status EXCEPT ![c] = "offline"]
      /\ box' = [box EXCEPT ![c] = {}] /\ deleted' = [deleted EXCEPT ![c] = {}]
      /\ a \in Databases /\ a.mails = Undeleted(Soon, c)
      /\ a.gone = Soon.gone \cup DeadItems(c) /\ a.burnt = Soon.burnt + DeadMoney(Soon, c)
      /\ a.gold = Soon.gold /\ a.inv = Soon.inv /\ a.ah = Soon.ah /\ a.parted = Soon.parted
      /\ a.chars = Soon.chars
  BY <1>1 DEF Leaving
<1>3. Soon \in Databases /\ Sound(Soon) /\ Proper(Soon.mails) BY Basics DEF Sound
<1>4. Sound(a) /\ Proper(a.mails) BY <1>2, CommittedOne DEF Sound
<1>5. Marked /\ Terms(Soon) BY SoonTerms DEF Trading
<1>6. Terms(a) BY <1>2, <1>5 DEF Terms, Undeleted
<1>7. \A k \in Soon.mails : k \in Dead(c) <=> k.id \in deleted[c] BY <1>2, Online
<1>8. \A k \in Dead(c) : k.to = c BY <1>2, Online
<1>9. ASSUME NEW x \in Items PROVE Fate(Soon, a, c, x)
  <2>1. CASE x \in DeadItems(c) BY <1>2, <1>5, <2>1, DeadHeld DEF Fate
  <2>2. CASE x \notin DeadItems(c)
    <3>1. \A k \in Soon.mails : x \in k.items => k \in a.mails BY <1>2, <1>7, <2>2 DEF Undeleted, DeadItems
    <3>2. Posts(a, x) = Posts(Soon, x) BY <1>2, <3>1 DEF Posts, Undeleted
    <3>3. Alike(a, Soon, x) BY <1>2, <2>2, <3>2 DEF Alike
    <3> QED BY <3>3, FateSame
  <2> QED BY <2>1, <2>2
<1>10. ASSUME NEW d \in Chars, d # c
       PROVE  a.gold[d] >= Soon.gold[d] /\ MailsOf(Soon, d) \subseteq a.mails
  <2>1. Soon.gold[d] \in Nat BY <1>3 DEF Databases
  <2>2. a.gold[d] >= Soon.gold[d] BY <1>2, <2>1
  <2>3. MailsOf(Soon, d) \subseteq a.mails BY <1>2, <1>7, <1>8, <1>10 DEF MailsOf, Undeleted
  <2> QED BY <2>2, <2>3
<1>11. Soon.burnt <= a.burnt
  <2>1. Soon.burnt \in Nat BY <1>3 DEF Databases
  <2>2. DeadMoney(Soon, c) \in Nat BY <1>3, UndeletedMoney
  <2> QED BY <1>2, <2>1, <2>2
<1>12. Gives(Soon, a, c) BY <1>2, <1>3, <1>4, <1>9, <1>10, <1>11, GivesMail
<1>13. Passes(Soon, a) BY <1>12 DEF Passes
<1>14. Enqueued(a) BY <1>2, <1>6, <1>13, QueuedOne
<1>15. \A d \in Chars : status'[d] = "gone" <=> status[d] = "gone"
  <2>1. status \in [Chars -> Statuses] BY DEF IInv, TypeOK
  <2>2. status[c] = "online" BY <1>2 DEF InWorld
  <2> QED BY <1>2, <2>1, <2>2
<1>16. Mailing(Here, {}) /\ Here.box = box BY Basics DEF Here
<1>17. \A d \in Chars : \/ box'[d] \subseteq Here.box[d] /\ deleted'[d] = deleted[d]
                        \/ deleted'[d] = {}
  <2>1. box \in Boxes /\ deleted \in [Chars -> SUBSET MailIds] BY Basics DEF IInv, TypeOK
  <2> QED BY <1>2, <1>16, <2>1 DEF Boxes
<1> QED BY <1>2, <1>14, <1>15, <1>16, <1>17, TradedMail

\* What taking money or an item from a mail m leaves in the rows.
TakenRows(c, m, rest, taken, N, g, a) ==
    /\ m \in Soon.mails /\ m \in Mails /\ m.to = c /\ m \in Live(c)
    /\ rest \in Mails /\ rest.id = m.id /\ rest.to = c /\ rest.from = m.from /\ rest.back = m.back
    /\ rest.items = m.items \ taken /\ taken \subseteq m.items
    /\ N \in SUBSET Mails /\ \A k \in N : k.items = {}
    /\ a \in Databases /\ Sound(a)
    /\ a.gold = [Soon.gold EXCEPT ![c] = g]
    /\ a.inv = [Soon.inv EXCEPT ![c] = Soon.inv[c] \cup taken]
    /\ a.gone = Soon.gone \cup DeadItems(c)
    /\ a.ah = Soon.ah /\ a.parted = Soon.parted /\ a.chars = Soon.chars
    /\ \A k : k \in a.mails <=> /\ k.money > 0 \/ k.items # {}
                                /\ \/ k \in Soon.mails /\ k \notin Dead(c) /\ k # m
                                   \/ k \in N \/ k = rest
    /\ \A k \in Soon.mails \cup N : k.money > 0 \/ k.items # {}

LEMMA TakenRowsAre ==
    ASSUME IInv, IInv', NEW c \in Chars, NEW m, NEW rest, NEW taken, NEW s, NEW N, NEW g \in Nat,
           NEW st, NEW a, Takes(c, m, rest, taken, s, N, g, st, a)
    PROVE  /\ TakenRows(c, m, rest, taken, N, g, a) /\ InWorld(c)
           /\ DeadMoney(s, c) \in Nat /\ s \in Databases /\ a.burnt = s.burnt + DeadMoney(s, c)
           /\ Money(N) + rest.money + g + s.burnt = m.money + Soon.gold[c] + Soon.burnt
<1>1. /\ Mailing(st, N) /\ Taking(c, m, rest, taken, s, N, g) /\ Commit(<<a>>)
      /\ a = SaveMail(s, c, {rest}, taken)
  BY DEF Takes
<1>2. PICK changed : changed = {rest} OBVIOUS
<1>3. /\ a \in Databases /\ a.mails = Remain(c, m, rest, N)
      /\ a.gone = Soon.gone \cup DeadItems(c) /\ a.burnt = s.burnt + DeadMoney(s, c)
      /\ a.gold = s.gold /\ a.inv = s.inv /\ a.ah = Soon.ah /\ a.parted = Soon.parted
      /\ m \notin N /\ a.chars = s.chars
  BY <1>1, <1>2, TakingRows
<1>4. /\ InWorld(c) /\ m \in Live(c) /\ rest \in Mails /\ Leaves(m, rest, taken)
      /\ taken \subseteq m.items /\ s \in Databases
      /\ s.gold = [Soon.gold EXCEPT ![c] = g]
      /\ s.inv = [Soon.inv EXCEPT ![c] = Soon.inv[c] \cup taken]
      /\ s.mails = Soon.mails \cup N /\ Proper(s.mails) /\ s.chars = Soon.chars
      /\ N \in SUBSET Mails /\ \A k \in N : k.items = {}
      /\ Money(N) + rest.money + g + s.burnt = m.money + Soon.gold[c] + Soon.burnt
  BY <1>1 DEF Taking
<1>5. /\ m \in Soon.mails /\ m \in Mails /\ m.to = c
      /\ \A r \in Soon.mails : r \in Dead(c) <=> r.id \in deleted[c]
  BY <1>4, Online DEF Live
<1>6. Sound(a) BY <1>1, <1>3, CommittedOne
<1>7. \A k \in Soon.mails \cup N : k.money > 0 \/ k.items # {} BY <1>4 DEF Proper, Carrying
<1>8. DeadMoney(s, c) \in Nat BY <1>4, UndeletedMoney
<1>9. /\ rest.id = m.id /\ rest.to = c /\ rest.from = m.from /\ rest.back = m.back
      /\ rest.items = m.items \ taken
  BY <1>4, <1>5 DEF Leaves, Mails
<1>10. ASSUME NEW k
       PROVE  k \in a.mails <=> /\ k.money > 0 \/ k.items # {}
                                /\ \/ k \in Soon.mails /\ k \notin Dead(c) /\ k # m
                                   \/ k \in N \/ k = rest
  <2>1. k \in Undeleted(Soon, c) <=> k \in Soon.mails /\ k \notin Dead(c) BY <1>5 DEF Undeleted
  <2>2. k \in Exchanging(Undeleted(Soon, c) \cup N, m, rest)
        <=> (k \in Undeleted(Soon, c) /\ k # m) \/ k \in N \/ k = rest
    BY <1>3 DEF Exchanging
  <2>3. k \in a.mails <=> /\ k \in Exchanging(Undeleted(Soon, c) \cup N, m, rest)
                          /\ k.money > 0 \/ k.items # {}
    BY <1>3 DEF Remain, Carrying
  <2> QED BY <2>1, <2>2, <2>3
<1>11. TakenRows(c, m, rest, taken, N, g, a)
  <2>1. /\ a.gold = [Soon.gold EXCEPT ![c] = g]
        /\ a.inv = [Soon.inv EXCEPT ![c] = Soon.inv[c] \cup taken] /\ a.chars = Soon.chars
    BY <1>3, <1>4
  <2> QED BY <1>3, <1>4, <1>5, <1>6, <1>7, <1>9, <1>10, <2>1 DEF TakenRows
<1> QED BY <1>3, <1>4, <1>8, <1>11

\* x is a's, who sells it to b for p.
Priced(D, x, a, b, p) == Holder(D)[x] = a /\ Offers(D)[x] = {<<b, p>>}

\* Where the items are, before and after.
LEMMA TakenFate ==
    ASSUME IInv, Marked, Terms(Soon), NEW c \in Chars, InWorld(c), NEW m, NEW rest, NEW taken, NEW N,
           NEW g \in Nat, NEW a, TakenRows(c, m, rest, taken, N, g, a), NEW x \in Items
    PROVE  /\ x \notin m.items => Fate(Soon, a, c, x) /\ Aside(Soon, a, c, x)
           /\ x \in m.items /\ m.cod = 0 => Holder(Soon)[x] = c /\ Offers(Soon)[x] = {}
           /\ x \in m.items /\ m.cod > 0 =>
                 /\ Priced(Soon, x, m.from, c, m.cod)
                 /\ m.from \in Chars /\ m.from # c
           /\ x \in m.items /\ (rest.cod = 0 \/ x \in taken) =>
                 Holder(a)[x] = c /\ Offers(a)[x] = {}
<1>1. /\ m \in Soon.mails /\ m \in Mails /\ m.to = c /\ m \in Live(c)
      /\ rest \in Mails /\ rest.to = c /\ rest.from = m.from
      /\ rest.items = m.items \ taken /\ taken \subseteq m.items
      /\ \A k \in N : k.items = {}
      /\ a \in Databases /\ Sound(a)
      /\ a.inv = [Soon.inv EXCEPT ![c] = Soon.inv[c] \cup taken]
      /\ a.gone = Soon.gone \cup DeadItems(c)
      /\ a.ah = Soon.ah /\ a.parted = Soon.parted
      /\ \A k : k \in a.mails <=> /\ k.money > 0 \/ k.items # {}
                                  /\ \/ k \in Soon.mails /\ k \notin Dead(c) /\ k # m
                                     \/ k \in N \/ k = rest
      /\ \A k \in Soon.mails \cup N : k.money > 0 \/ k.items # {}
  BY DEF TakenRows
<1>2. Soon \in Databases /\ Once(Soon, x) /\ Once(a, x) BY <1>1, Basics DEF Sound
<1>3. Soon.inv \in [Chars -> SUBSET Items] BY <1>2 DEF Databases
<1>4. Tame(m) BY <1>1 DEF Terms
<1>5. ASSUME x \notin m.items PROVE Fate(Soon, a, c, x) /\ Aside(Soon, a, c, x)
  <2>1. CASE x \in DeadItems(c)
    <3>1. Holder(Soon)[x] = c /\ Offers(Soon)[x] = {} BY <2>1, DeadHeld
    <3>2. Holder(a)[x] = None /\ Offers(a)[x] = {} BY <1>1, <2>1, HasGone
    <3> QED BY <3>1, <3>2 DEF Fate, Aside
  <2>2. CASE x \notin DeadItems(c)
    <3>1. \A k \in Soon.mails : x \in k.items => k \notin Dead(c) BY <2>2 DEF DeadItems
    <3>2. ASSUME NEW k, x \in k.items PROVE k \in a.mails <=> k \in Soon.mails
      BY <1>1, <1>5, <3>1, <3>2
    <3>3. Posts(a, x) = Posts(Soon, x) BY <3>2 DEF Posts
    <3>4. \A d \in Chars : x \in a.inv[d] <=> x \in Soon.inv[d] BY <1>1, <1>3, <1>5
    <3>5. Alike(a, Soon, x) BY <1>1, <2>2, <3>3, <3>4 DEF Alike
    <3> QED BY <3>5, FateSame
  <2> QED BY <2>1, <2>2
<1>6. x \in m.items /\ m.cod = 0 => Holder(Soon)[x] = c /\ Offers(Soon)[x] = {}
  BY <1>1, <1>2, HasPost
<1>7. x \in m.items /\ m.cod > 0 =>
         /\ Priced(Soon, x, m.from, c, m.cod)
         /\ m.from \in Chars /\ m.from # c
  BY <1>1, <1>2, <1>4, HasPost DEF Tame, Priced
<1>8. ASSUME x \in m.items, x \notin taken PROVE rest \in a.mails /\ x \in rest.items
  BY <1>1, <1>8
<1>9. ASSUME x \in taken PROVE Holder(a)[x] = c /\ Offers(a)[x] = {}
  <2>1. x \in a.inv[c] BY <1>1, <1>3, <1>9
  <2> QED BY <1>2, <2>1, HasBag
<1>10. ASSUME x \in m.items, x \notin taken, rest.cod = 0
       PROVE  Holder(a)[x] = c /\ Offers(a)[x] = {}
  <2>1. rest \in a.mails /\ x \in rest.items BY <1>8, <1>10
  <2> QED BY <1>1, <1>2, <1>10, <2>1, HasPost
<1> QED BY <1>5, <1>6, <1>7, <1>9, <1>10

LEMMA TakenAside ==
    ASSUME IInv, Marked, Terms(Soon), NEW c \in Chars, InWorld(c), NEW m, NEW rest, NEW taken, NEW N,
           NEW g \in Nat, NEW a, TakenRows(c, m, rest, taken, N, g, a), NEW x \in Items,
           x \notin m.items
    PROVE  Aside(Soon, a, c, x)
BY TakenFate

\* x is c's, and not for sale.
Owns(D, c, x) == Holder(D)[x] = c /\ Offers(D)[x] = {}

\* Nothing is to be paid any more.
Free(k) == k.cod = 0

LEMMA TakenHolds ==
    ASSUME IInv, Marked, Terms(Soon), NEW c \in Chars, InWorld(c), NEW m, NEW rest, NEW taken, NEW N,
           NEW g \in Nat, NEW a, TakenRows(c, m, rest, taken, N, g, a), NEW x \in Items,
           x \in m.items, Free(rest)
    PROVE  Owns(a, c, x)
BY TakenFate DEF Free, Owns

\* What is still to be paid for is where it was.
LEMMA TakenStays ==
    ASSUME NEW c, NEW m, NEW rest, NEW taken, NEW N, NEW g, NEW a,
           TakenRows(c, m, rest, taken, N, g, a), NEW x \in Items, x \in m.items, x \notin taken,
           rest.cod = m.cod, m.cod > 0, m.from \in Chars
    PROVE  Priced(a, x, m.from, c, m.cod)
<1>1. /\ rest \in Mails /\ rest.to = c /\ rest.from = m.from /\ rest.items = m.items \ taken
      /\ a \in Databases /\ Sound(a)
      /\ rest \in a.mails <=> /\ rest.money > 0 \/ rest.items # {}
                              /\ \/ rest \in Soon.mails /\ rest \notin Dead(c) /\ rest # m
                                 \/ rest \in N \/ rest = rest
  BY DEF TakenRows
<1>2. rest \in a.mails /\ x \in rest.items BY <1>1
<1>3. Once(a, x) BY <1>1 DEF Sound
<1>4. rest.cod > 0 /\ rest.from \in Chars BY <1>1
<1>5. Holder(a)[x] = rest.from /\ Offers(a)[x] = {<<rest.to, rest.cod>>}
  BY <1>1, <1>2, <1>3, <1>4, HasPost
<1> QED BY <1>1, <1>5 DEF Priced

\* Mails to others are not touched, and the terms stay.
LEMMA TakenTerms ==
    ASSUME IInv, Terms(Soon), NEW c \in Chars, InWorld(c), NEW m, NEW rest, NEW taken, NEW N,
           NEW g \in Nat, NEW a, TakenRows(c, m, rest, taken, N, g, a),
           rest.cod \in {0, m.cod}, \A k \in N : k.from # k.to /\ k.cod = 0
    PROVE  /\ Terms(a)
           /\ \A k : k.to # c => (k \in a.mails <=> k \in Soon.mails \cup N)
<1>1. /\ m \in Soon.mails /\ m \in Mails /\ m.to = c
      /\ rest.to = c /\ rest.from = m.from /\ rest.back = m.back /\ a.ah = Soon.ah
      /\ \A k : k \in a.mails <=> /\ k.money > 0 \/ k.items # {}
                                  /\ \/ k \in Soon.mails /\ k \notin Dead(c) /\ k # m
                                     \/ k \in N \/ k = rest
      /\ \A k \in Soon.mails \cup N : k.money > 0 \/ k.items # {}
  BY DEF TakenRows
<1>2. \A k \in Dead(c) : k.to = c BY Online
<1>3. Tame(m) /\ m.cod \in Nat BY <1>1 DEF Terms, Mails
<1>4. Tame(rest) BY <1>1, <1>3 DEF Tame
<1>5. \A k \in N : Tame(k) BY DEF Tame
<1>6. \A k \in a.mails : k \in Soon.mails \/ k \in N \/ k = rest BY <1>1
<1>7. \A k \in a.mails : Tame(k) BY <1>4, <1>5, <1>6 DEF Terms
<1>8. Terms(a) BY <1>1, <1>7 DEF Terms
<1>9. ASSUME NEW k, k.to # c PROVE k \in a.mails <=> k \in Soon.mails \cup N
  BY <1>1, <1>2, <1>9
<1> QED BY <1>8, <1>9

\* The end of such a step.
LEMMA TakenTrades ==
    ASSUME IInv, IInv', Trading, NEW c \in Chars, NEW m, NEW rest, NEW taken, NEW s, NEW N,
           NEW g \in Nat, NEW st, NEW a, Takes(c, m, rest, taken, s, N, g, st, a),
           Passes(Soon, a), Terms(a)
    PROVE  Trades
<1>1. TakenRows(c, m, rest, taken, N, g, a) BY TakenRowsAre
<1>2. a \in Databases /\ a.chars = Soon.chars BY <1>1 DEF TakenRows
<1>3. /\ Mailing(st, N) /\ Commit(<<a>>) /\ UNCHANGED <<status, ahead, ah>>
      /\ box' = [st.box EXCEPT ![c] = Carrying(Exchanging(Live(c), m, rest))]
      /\ deleted' = [deleted EXCEPT ![c] = {}]
  BY DEF Takes
<1>4. Enqueued(a) BY <1>2, <1>3, QueuedOne
<1>5. st.box \in Boxes /\ deleted \in [Chars -> SUBSET MailIds] BY <1>3 DEF Mailing, IInv, TypeOK
<1>6. \A d \in Chars : \/ box'[d] \subseteq st.box[d] /\ deleted'[d] = deleted[d]
                       \/ deleted'[d] = {}
  BY <1>3, <1>5 DEF Boxes
<1> QED BY <1>2, <1>3, <1>4, <1>6, TradedMail

\* Nothing is paid.
LEMMA TakenGives ==
    ASSUME IInv, IInv', Trading, NEW c \in Chars, NEW m, NEW rest, NEW taken, NEW s, NEW N,
           NEW g \in Nat, NEW st, NEW a, Takes(c, m, rest, taken, s, N, g, st, a), N = {},
           (rest.cod = m.cod /\ taken = {}) \/ (rest.cod = 0 /\ (m.cod = 0 \/ ~Exists(m.from))),
           Soon.burnt <= s.burnt
    PROVE  Trades
<1>1. /\ TakenRows(c, m, rest, taken, N, g, a) /\ InWorld(c)
      /\ DeadMoney(s, c) \in Nat /\ s \in Databases /\ a.burnt = s.burnt + DeadMoney(s, c)
  BY TakenRowsAre
<1>2. Marked /\ Terms(Soon) /\ \A d \in Chars : Exists(d) <=> d \in Soon.chars
  BY SoonTerms DEF Trading
<1>3. /\ a \in Databases /\ Sound(a) /\ a.gold = [Soon.gold EXCEPT ![c] = g]
      /\ a.ah = Soon.ah /\ a.chars = Soon.chars /\ m \in Mails
  BY <1>1 DEF TakenRows
<1>4. Soon \in Databases /\ Proper(Soon.mails) /\ Proper(a.mails) BY <1>3, Basics DEF Sound
<1>5. Terms(a) /\ \A k : k.to # c => (k \in a.mails <=> k \in Soon.mails \cup N)
  <2>1. \A k \in N : k.from # k.to /\ k.cod = 0 OBVIOUS
  <2>2. rest.cod \in {0, m.cod} OBVIOUS
  <2> QED BY <1>1, <1>2, <2>1, <2>2, TakenTerms
<1>6. ASSUME NEW x \in Items PROVE Fate(Soon, a, c, x)
  <2>1. CASE x \notin m.items BY <1>1, <1>2, <2>1, TakenFate
  <2>2. CASE x \in m.items /\ m.cod = 0
    <3>1. Holder(Soon)[x] = c /\ Offers(Soon)[x] = {} BY <1>1, <1>2, <2>2, TakenFate
    <3> QED BY <3>1 DEF Fate
  <2>3. CASE x \in m.items /\ m.cod > 0
    <3>1. Priced(Soon, x, m.from, c, m.cod) /\ m.from \in Chars /\ m.from # c
      BY <1>1, <1>2, <2>3, TakenFate
    <3>2. CASE rest.cod = m.cod /\ taken = {}
      <4>0. x \notin taken /\ rest.cod = m.cod BY <3>2
      <4>1. Priced(a, x, m.from, c, m.cod) BY <1>1, <2>3, <3>1, <4>0, TakenStays
      <4> QED BY <3>1, <4>1 DEF Fate, Priced
    <3>3. CASE m.cod = 0 \/ ~Exists(m.from)
      <4>1. m.from \in Chars \ Soon.chars BY <1>2, <2>3, <3>1, <3>3
      <4> QED BY <3>1, <4>1 DEF Fate, Priced
    <3> QED BY <3>2, <3>3
  <2>4. m.cod \in Nat BY <1>3 DEF Mails
  <2> QED BY <2>1, <2>2, <2>3, <2>4
<1>7. ASSUME NEW d \in Chars, d # c
      PROVE  a.gold[d] >= Soon.gold[d] /\ MailsOf(Soon, d) \subseteq a.mails
  <2>1. Soon.gold \in [Chars -> Nat] BY <1>4 DEF Databases
  <2>2. a.gold[d] = Soon.gold[d] /\ Soon.gold[d] \in Nat BY <1>3, <1>7, <2>1
  <2>3. MailsOf(Soon, d) \subseteq a.mails BY <1>5, <1>7 DEF MailsOf
  <2> QED BY <2>2, <2>3
<1>8. Soon.burnt <= a.burnt
  <2>1. Soon.burnt \in Nat /\ s.burnt \in Nat BY <1>1, <1>4 DEF Databases
  <2> QED BY <1>1, <2>1
<1>9. Gives(Soon, a, c) BY <1>3, <1>4, <1>6, <1>7, <1>8, GivesMail
<1>10. Passes(Soon, a) BY <1>9 DEF Passes
<1> QED BY <1>5, <1>10, TakenTrades

LEMMA TakeMoneyTrades ==
    ASSUME IInv, IInv', Trading, NEW c \in Chars, NEW m \in box[c], TakeMoney(c, m), UNCHANGED ah
    PROVE  Trades
<1>1. PICK rest, taken, s, N, g, st, a :
              /\ g \in Nat /\ Takes(c, m, rest, taken, s, N, g, st, a)
              /\ taken = {} /\ N = {} /\ rest.cod = m.cod /\ rest.money = 0
              /\ g = Soon.gold[c] + m.money
  BY TakeMoneyRows
<1>2. /\ TakenRows(c, m, rest, taken, N, g, a) /\ s \in Databases
      /\ Money(N) + rest.money + g + s.burnt = m.money + Soon.gold[c] + Soon.burnt
  BY <1>1, TakenRowsAre
<1>3. Money(N) = 0 BY <1>1, MoneyNone
<1>4. Soon.burnt \in Nat /\ s.burnt \in Nat /\ Soon.gold[c] \in Nat BY <1>2, Basics DEF Databases
<1>5. m.money \in Nat BY <1>2 DEF TakenRows, Mails
<1>6. Soon.burnt <= s.burnt BY <1>1, <1>2, <1>3, <1>4, <1>5
<1> QED BY <1>1, <1>6, TakenGives

\* Its receiver got no money by mail.
LEMMA TakenPost ==
    ASSUME IInv, NEW c \in Chars, InWorld(c), NEW m, NEW rest, NEW taken, NEW N,
           NEW g \in Nat, NEW a, TakenRows(c, m, rest, taken, N, g, a),
           rest.money = m.money, \A k \in N : k.to # c
    PROVE  Post(a.mails, c) <= Post(Soon.mails, c)
<1>1. /\ m \in Soon.mails /\ m \in Mails /\ m.to = c /\ m \in Live(c)
      /\ rest \in Mails /\ rest.id = m.id /\ rest.to = c
      /\ \A k : k \in a.mails <=> /\ k.money > 0 \/ k.items # {}
                                  /\ \/ k \in Soon.mails /\ k \notin Dead(c) /\ k # m
                                     \/ k \in N \/ k = rest
  BY DEF TakenRows
<1>2. PICK M \in SUBSET Mails : M = Soon.mails /\ Proper(M) BY Basics DEF Sound
<1>3. PICK V \in SUBSET M : V = {k \in M : k \notin Dead(c) /\ k.to = c} OBVIOUS
<1>4. IsFiniteSet(V) /\ Money(V) \in Nat /\ V \in SUBSET Mails BY <1>2, <1>3, MailsFinite
<1>5. m \in V BY <1>1, <1>2, <1>3 DEF Live, Dead
<1>6. rest \notin V \ {m} BY <1>1, <1>2, <1>3 DEF Proper
<1>7. PICK X : X = Carrying(Exchanging(V, m, rest)) OBVIOUS
<1>8. Money(X) + m.money = Money(V) + rest.money /\ Money(X) \in Nat
  BY <1>1, <1>4, <1>5, <1>6, <1>7, ExchangedMoney
<1>9. {k \in a.mails : k.to = c} = X
  <2>1. \A k : k \in X <=> /\ (k \in V /\ k # m) \/ k = rest
                           /\ k.money > 0 \/ k.items # {}
    BY <1>7 DEF Carrying, Exchanging
  <2>2. ASSUME NEW k PROVE (k \in a.mails /\ k.to = c) <=> k \in X
    BY <1>1, <1>2, <1>3, <2>1
  <2> QED BY <2>2
<1>10. Post(a.mails, c) = Money(X) BY <1>9 DEF Post
<1>11. Post(V, c) <= Post(M, c) /\ Post(M, c) \in Nat /\ Post(V, c) \in Nat BY <1>2, PostKept
<1>12. Post(V, c) = Money(V)
  <2>1. {k \in V : k.to = c} = V BY <1>3
  <2> QED BY <2>1 DEF Post
<1>13. m.money \in Nat BY <1>1 DEF Mails
<1> QED BY <1>2, <1>4, <1>8, <1>10, <1>11, <1>12, <1>13

\* HandleMailTakeItem of a mail that is paid for.
LEMMA TakenSells ==
    ASSUME IInv, IInv', Trading, NEW c \in Chars, NEW m, NEW rest, NEW taken, NEW s, NEW N,
           NEW g \in Nat, NEW st, NEW a, Takes(c, m, rest, taken, s, N, g, st, a),
           m.cod > 0, Exists(m.from), Pays(c, m, N), rest.cod = 0, rest.money = m.money,
           g = Soon.gold[c] - m.cod, m.items # {}
    PROVE  Trades
<1>1. TakenRows(c, m, rest, taken, N, g, a) /\ InWorld(c) BY TakenRowsAre
<1>2. Marked /\ Terms(Soon) /\ (\A d \in Chars : Exists(d) <=> d \in Soon.chars)
      /\ Soon.chars \in SUBSET Chars
  BY SoonTerms DEF Trading
<1>3. /\ a \in Databases /\ Sound(a) /\ a.gold = [Soon.gold EXCEPT ![c] = g]
      /\ a.ah = Soon.ah /\ a.chars = Soon.chars /\ m \in Mails /\ m \in Soon.mails /\ m.to = c
  BY <1>1 DEF TakenRows
<1>4. Soon \in Databases /\ Proper(Soon.mails) /\ Proper(a.mails) BY <1>3, Basics DEF Sound
<1>5. PICK k \in Mails : /\ N = {k} /\ k.from = c /\ k.to = m.from /\ k.money = m.cod
                         /\ k.cod = 0 /\ k.items = {}
  BY DEF Pays
<1>6. m.from \in Chars /\ m.from # c /\ m.cod \in Nat /\ m.items \in SUBSET Items
  BY <1>2, <1>3 DEF Mails, Terms, Tame
<1>7. PICK b \in Chars : b = m.from BY <1>6
<1>8. PICK p \in Nat : p = m.cod BY <1>6
<1>9. Terms(a) /\ \A q : q.to # c => (q \in a.mails <=> q \in Soon.mails \cup N)
  <2>1. \A q \in N : q.from # q.to /\ q.cod = 0 BY <1>5, <1>6
  <2>2. rest.cod \in {0, m.cod} OBVIOUS
  <2> QED BY <1>1, <1>2, <2>1, <2>2, TakenTerms
<1>10. k \notin Soon.mails
  <2>1. k.id \notin UsedIds BY <1>5 DEF Takes, Mailing
  <2> QED BY <2>1, Basics DEF Ids
<1>11. Soon.gold \in [Chars -> Nat] /\ Soon.mails \in SUBSET Mails BY <1>4 DEF Databases
<1>12. /\ Wealth(a)[c] <= Wealth(Soon)[c] - p /\ p <= Wealth(Soon)[c]
       /\ Wealth(Soon)[c] \in Nat
  <2>1. /\ Wealth(Soon)[c] = Soon.gold[c] + Post(Soon.mails, c) + Shares(Soon.ah, c)
        /\ Soon.gold[c] \in Nat /\ Post(Soon.mails, c) \in Nat /\ Shares(Soon.ah, c) \in Nat
    BY <1>4, WealthAt
  <2>2. /\ Wealth(a)[c] = a.gold[c] + Post(a.mails, c) + Shares(Soon.ah, c)
        /\ Post(a.mails, c) \in Nat
    <3>1. /\ Wealth(a)[c] = a.gold[c] + Post(a.mails, c) + Shares(a.ah, c)
          /\ Post(a.mails, c) \in Nat
      BY <1>3, <1>4, WealthAt
    <3>2. Shares(a.ah, c) = Shares(Soon.ah, c) BY <1>3
    <3> QED BY <3>1, <3>2
  <2>3. \A q \in N : q.to # c BY <1>5, <1>6
  <2>4. Post(a.mails, c) <= Post(Soon.mails, c) BY <1>1, <2>3, TakenPost
  <2>5. a.gold[c] = g /\ g = Soon.gold[c] - p BY <1>3, <1>8, <1>11
  <2> QED BY <2>1, <2>2, <2>4, <2>5
<1>13. ASSUME NEW d \in Chars, d # c
       PROVE  Wealth(a)[d] = Wealth(Soon)[d] + (IF d = b THEN p ELSE 0) /\ Wealth(Soon)[d] \in Nat
  <2>1. /\ Wealth(Soon)[d] = Soon.gold[d] + Post(Soon.mails, d) + Shares(Soon.ah, d)
        /\ Soon.gold[d] \in Nat /\ Post(Soon.mails, d) \in Nat /\ Shares(Soon.ah, d) \in Nat
        /\ Wealth(Soon)[d] \in Nat
    BY <1>4, WealthAt
  <2>2. Wealth(a)[d] = a.gold[d] + Post(a.mails, d) + Shares(Soon.ah, d)
    <3>1. Wealth(a)[d] = a.gold[d] + Post(a.mails, d) + Shares(a.ah, d) BY <1>3, <1>4, WealthAt
    <3>2. Shares(a.ah, d) = Shares(Soon.ah, d) BY <1>3
    <3> QED BY <3>1, <3>2
  <2>3. a.gold[d] = Soon.gold[d] BY <1>3, <1>11, <1>13
  <2>4. Post(a.mails, d) = Post(Soon.mails \cup N, d)
    <3>1. {q \in a.mails : q.to = d} = {q \in Soon.mails \cup N : q.to = d} BY <1>9, <1>13
    <3> QED BY <3>1 DEF Post
  <2>5. Post(Soon.mails \cup N, d) = Post(Soon.mails, d) + Post(N, d)
    <3>1. N \in SUBSET Mails /\ Soon.mails \cap N = {} BY <1>5, <1>10
    <3>2. IsFiniteSet(N) BY <1>5, FS_Singleton
    <3> QED BY <1>4, <1>11, <3>1, <3>2, PostAdded
  <2>6. Post(N, d) = IF d = b THEN p ELSE 0 BY <1>5, <1>7, <1>8, PostOne
  <2> QED BY <2>1, <2>2, <2>3, <2>4, <2>5, <2>6
<1>14. ASSUME NEW x \in m.items
       PROVE  /\ Holder(Soon)[x] = b /\ <<c, p>> \in Offers(Soon)[x]
              /\ Holder(a)[x] = c /\ Offers(a)[x] = {}
  <2>1. x \in Items BY <1>6
  <2>2. Priced(Soon, x, m.from, c, m.cod) BY <1>1, <1>2, <1>14, <2>1, TakenFate
  <2>3. Holder(Soon)[x] = b /\ <<c, p>> \in Offers(Soon)[x] BY <1>7, <1>8, <2>2 DEF Priced
  <2>4. Holder(a)[x] = c /\ Offers(a)[x] = {}
    <3>1. x \in m.items /\ Free(rest) BY <1>14 DEF Free
    <3>2. Owns(a, c, x) BY <1>1, <1>2, <2>1, <3>1, TakenHolds
    <3> QED BY <3>2 DEF Owns
  <2> QED BY <2>3, <2>4
<1>15. ASSUME NEW x \in Items \ m.items PROVE Aside(Soon, a, c, x)
  <2>1. x \in Items /\ x \notin m.items BY <1>15
  <2> QED BY <1>1, <1>2, <2>1, TakenAside
<1>16. \A d \in Chars : d # b /\ d # c =>
          Wealth(a)[d] <= Wealth(Soon)[d] /\ (d \in Soon.chars => Wealth(a)[d] = Wealth(Soon)[d])
  <2>1. ASSUME NEW d \in Chars, d # b, d # c
        PROVE  Wealth(a)[d] <= Wealth(Soon)[d] /\ Wealth(a)[d] = Wealth(Soon)[d]
    <3>1. Wealth(a)[d] = Wealth(Soon)[d] + 0 /\ Wealth(Soon)[d] \in Nat BY <1>13, <2>1
    <3> QED BY <3>1
  <2> QED BY <2>1
<1>17. Wealth(a)[b] <= Wealth(Soon)[b] + p
  <2>1. Wealth(a)[b] = Wealth(Soon)[b] + p /\ Wealth(Soon)[b] \in Nat BY <1>6, <1>7, <1>13
  <2> QED BY <2>1
<1>18. b \in Soon.chars /\ c \in Soon.chars
  <2>1. Exists(c) BY <1>1 DEF InWorld, Exists
  <2> QED BY <1>2, <1>7, <2>1
<1>19. p > 0 /\ m.items # {} BY <1>8
<1>20. Sells(Soon, a, b, c)
  <2>1. PICK S \in SUBSET Items : S = m.items BY <1>6
  <2>2. \A x \in S : /\ Holder(Soon)[x] = b /\ <<c, p>> \in Offers(Soon)[x]
                     /\ Holder(a)[x] = c /\ Offers(a)[x] = {}
    BY <1>14, <2>1
  <2>3. \A x \in Items \ S : Aside(Soon, a, c, x) BY <1>15, <2>1
  <2>4. S # {} /\ p > 0 BY <1>19, <2>1
  <2>5. b \notin Soon.chars => Wealth(a)[b] <= Wealth(Soon)[b] BY <1>18
  <2>6. a.chars = Soon.chars /\ Soon.chars \in SUBSET Chars BY <1>2, <1>3
  <2> QED BY <1>12, <1>16, <1>17, <1>18, <2>2, <2>3, <2>4, <2>5, <2>6, SaleMade
<1>21. Passes(Soon, a) BY <1>6, <1>7, <1>20 DEF Passes
<1> QED BY <1>9, <1>21, TakenTrades

LEMMA TakeItemTrades ==
    ASSUME IInv, IInv', Trading, NEW c \in Chars, NEW m \in box[c], NEW x \in m.items,
           TakeItem(c, m, x), UNCHANGED ah
    PROVE  Trades
<1>1. PICK rest, taken, s, N, g, st, a :
              /\ g \in Nat /\ Takes(c, m, rest, taken, s, N, g, st, a)
              /\ taken = {x} /\ Pays(c, m, N) /\ rest.cod = 0 /\ rest.money = m.money
              /\ g = Soon.gold[c] - m.cod
  BY TakeItemRows
<1>2. /\ TakenRows(c, m, rest, taken, N, g, a) /\ s \in Databases
      /\ Money(N) + rest.money + g + s.burnt = m.money + Soon.gold[c] + Soon.burnt
  BY <1>1, TakenRowsAre
<1>3. m.cod \in Nat /\ m.money \in Nat BY <1>2 DEF TakenRows, Mails
<1>4. CASE m.cod > 0 /\ Exists(m.from)
  <2>1. m.items # {} OBVIOUS
  <2> QED BY <1>1, <1>4, <2>1, TakenSells
<1>5. CASE m.cod = 0 \/ ~Exists(m.from)
  <2>1. N = {} BY <1>1, <1>5 DEF Pays
  <2>2. Money(N) = 0 BY <2>1, MoneyNone
  <2>3. Soon.burnt \in Nat /\ s.burnt \in Nat /\ Soon.gold[c] \in Nat BY <1>2, Basics DEF Databases
  <2>4. Soon.burnt <= s.burnt BY <1>1, <1>2, <1>3, <2>2, <2>3
  <2>5. (rest.cod = m.cod /\ taken = {}) \/ (rest.cod = 0 /\ (m.cod = 0 \/ ~Exists(m.from)))
    BY <1>1, <1>5
  <2> QED BY <1>1, <2>1, <2>4, <2>5, TakenGives
<1> QED BY <1>3, <1>4, <1>5

LEMMA ReturnMailTrades ==
    ASSUME IInv, IInv', Trading, NEW c \in Chars, NEW m, ReturnMail(c, m)
    PROVE  Trades
<1>1. PICK a, R, lost :
              /\ Replaced(a, Soon, m, R, lost) /\ Rightly(m, R, lost, Living)
              /\ Commit(<<a>>) /\ box' \in Boxes
              /\ \A d \in Chars : \A k \in box'[d] :
                    (k \in box[d] /\ (d = c => k # m)) \/ (k \in R /\ k.to = d /\ InWorld(d))
              /\ \A d \in Chars : \A k \in box[d] : (d = c => k # m) => k \in box'[d]
  BY ReturnMailRows
<1>2. InWorld(c) /\ m \in Live(c) /\ UNCHANGED <<status, ahead, gold, inv, deleted>>
  BY DEF ReturnMail
<1>3. m.to = c /\ m.id \notin deleted[c] BY <1>2, Online DEF Live
<1>4. Marked /\ Terms(Soon) /\ (\A d \in Chars : Exists(d) <=> d \in Soon.chars)
      /\ Soon.chars \in SUBSET Chars /\ Known
  BY SoonTerms DEF Trading
<1>5. Soon.chars \subseteq Living BY <1>4 DEF Living
<1>6. Soon \in Databases /\ Sound(Soon) BY Basics
<1>7. a \in Databases /\ Terms(a) /\ Gives(Soon, a, c) /\ a.chars = Soon.chars
  BY <1>1, <1>3, <1>4, <1>5, <1>6, ReplacedGives
<1>8. Passes(Soon, a) BY <1>7 DEF Passes
<1>9. Enqueued(a) BY <1>1, <1>7, <1>8, QueuedOne
<1>10. Known' BY <1>2, <1>4, <1>7, <1>9, KnownSame DEF Enqueued
<1>11. ASSUME NEW d \in Chars, NEW k \in box'[d], k.id \in deleted'[d] PROVE k.cod = 0
  <2>1. CASE k \in box[d] BY <1>2, <1>4, <1>11, <2>1 DEF Marked
  <2>2. CASE k \in R /\ k.to = d
    <3>1. k.id = m.id BY <1>1, <2>2 DEF Replaced
    <3>2. k.to # m.to BY <1>2, <1>3, <1>11, <2>2, <3>1
    <3>3. k = Turned(m) BY <1>1, <2>2, <3>2 DEF Rightly
    <3>4. m \in Mails BY <1>1, <1>6 DEF Replaced, Databases
    <3> QED BY <1>2, <3>3, <3>4, Online DEF Turned, Mails
  <2> QED BY <1>1, <2>1, <2>2
<1>12. Marked' BY <1>11 DEF Marked
<1> QED BY <1>9, <1>10, <1>12 DEF Trading, Trades, Enqueued

\* c puts x up for sale in the auction v.
Lists(D, E, c, x, v) ==
    /\ v \in Auctions /\ v.owner = c /\ v.bidder = None
    /\ D.ah[x] = None /\ E.ah = [D.ah EXCEPT ![x] = v]
    /\ \A d \in Chars : d # c => E.gold[d] = D.gold[d]
    /\ E.mails = D.mails /\ E.burnt = D.burnt /\ E.chars = D.chars

LEMMA PutWealth ==
    ASSUME NEW D \in Databases, NEW E \in Databases, Proper(D.mails), Proper(E.mails),
           NEW x \in Items, NEW c, NEW v, Lists(D, E, c, x, v), NEW d \in Chars, d # c
    PROVE  Wealth(E)[d] = Wealth(D)[d] /\ Wealth(D)[d] \in Nat
<1>1. /\ Wealth(D)[d] = D.gold[d] + Post(D.mails, d) + Shares(D.ah, d)
      /\ D.gold[d] \in Nat /\ Post(D.mails, d) \in Nat /\ Shares(D.ah, d) \in Nat
      /\ Wealth(D)[d] \in Nat
  BY WealthAt
<1>2. Wealth(E)[d] = E.gold[d] + Post(E.mails, d) + Shares(E.ah, d) BY WealthAt
<1>3. PICK h \in [Items -> Auctions \cup {None}] : h = D.ah BY DEF Databases
<1>4. PICK w \in Auctions \cup {None} : w = v BY DEF Lists
<1>5. E.ah = [h EXCEPT ![x] = w] /\ h[x] = None BY <1>3, <1>4 DEF Lists
<1>6. Shares(E.ah, d) = Shares(h, d) - Share(h[x], d) + Share(w, d)
  <2>1. Shares([h EXCEPT ![x] = w], d) = Shares(h, d) - Share(h[x], d) + Share(w, d) BY SharesPut
  <2>2. PICK k : k = [h EXCEPT ![x] = w] OBVIOUS
  <2>3. E.ah = k BY <1>5, <2>2
  <2> QED BY <2>1, <2>2, <2>3
<1>7. Share(h[x], d) = 0 BY <1>5 DEF Share
<1>8. Share(w, d) = 0
  <2>1. w # None /\ w.owner # d /\ w.bidder # d BY <1>4, NoneAssumption, StoreAssumption DEF Lists
  <2> QED BY <2>1 DEF Share, Stake
<1>9. E.gold[d] = D.gold[d] /\ E.mails = D.mails BY DEF Lists
<1> QED BY <1>1, <1>2, <1>3, <1>6, <1>7, <1>8, <1>9

LEMMA PutGives ==
    ASSUME NEW D \in Databases, Sound(D), NEW E \in Databases, Sound(E), NEW c \in Chars,
           NEW x \in Items, Owns(D, c, x), NEW v, Lists(D, E, c, x, v),
           \A y \in Items : y # x => Alike(E, D, y)
    PROVE  Gives(D, E, c)
<1>1. Proper(D.mails) /\ Proper(E.mails) BY DEF Sound
<1>2. ASSUME NEW d \in Chars, d # c PROVE Wealth(E)[d] >= Wealth(D)[d]
  <2>1. Wealth(E)[d] = Wealth(D)[d] /\ Wealth(D)[d] \in Nat BY <1>1, <1>2, PutWealth
  <2> QED BY <2>1
<1>3. ASSUME NEW y \in Items PROVE Fate(D, E, c, y)
  <2>1. CASE y = x BY <2>1 DEF Fate, Owns
  <2>2. CASE y # x BY <2>2, FateSame
  <2> QED BY <2>1, <2>2
<1>4. D.chars \in SUBSET Chars /\ D.burnt \in Nat BY DEF Databases
<1>5. E.chars = D.chars /\ E.burnt = D.burnt BY DEF Lists
<1> QED BY <1>2, <1>3, <1>4, <1>5 DEF Gives

LEMMA SellItemTrades ==
    ASSUME IInv, IInv', Trading, NEW c \in Chars, NEW x \in Items, NEW b \in Nat, SellItem(c, x, b)
    PROVE  Trades
<1>1. PICK a : PutUpRows(a, c, x, NewAuction(c, b)) /\ Commit(<<a>>) BY SellItemRows
<1>2. PutUp(c, x, b) BY DEF SellItem
<1>3. PICK g \in Nat : /\ gold' = [gold EXCEPT ![c] = g] /\ gold'[c] = g
                       /\ g + Deposit = Soon.gold[c]
  BY <1>2, PutUpMemory
<1>4. /\ InWorld(c) /\ x \in Soon.inv[c] /\ x \notin Soon.gone
      /\ NewAuction(c, b) \in Auctions /\ UNCHANGED <<status, ahead, box, deleted>>
  BY <1>2, PutUpMemory
<1>5. PICK v \in Auctions : v = NewAuction(c, b) BY <1>4
<1>6. /\ a \in Databases /\ a.mails = Soon.mails /\ a.gone = Soon.gone
      /\ a.ah = [Soon.ah EXCEPT ![x] = v] /\ a.gold = [Soon.gold EXCEPT ![c] = g]
      /\ a.inv = [Soon.inv EXCEPT ![c] = Soon.inv[c] \ {x}] /\ a.parted = Soon.parted
      /\ a.burnt = Soon.burnt /\ a.chars = Soon.chars
  BY <1>1, <1>3, <1>5 DEF PutUpRows
<1>7. v.owner = c /\ v.bidder = None BY <1>5 DEF NewAuction
<1>8. Soon \in Databases /\ Sound(Soon) /\ Once(Soon, x) BY Basics DEF Sound
<1>9. Sound(a) BY <1>1, <1>6, CommittedOne
<1>10. Owns(Soon, c, x) /\ Soon.ah[x] = None BY <1>4, <1>8, HasBag, OnceBag DEF Owns
<1>11. /\ Soon.gold \in [Chars -> Nat] /\ Soon.inv \in [Chars -> SUBSET Items]
       /\ Soon.ah \in [Items -> Auctions \cup {None}]
  BY <1>8 DEF Databases
<1>12. \A d \in Chars : d # c => a.gold[d] = Soon.gold[d] BY <1>6, <1>11
<1>13. ASSUME NEW y \in Items, y # x PROVE Alike(a, Soon, y)
  <2>1. Posts(a, y) = Posts(Soon, y) BY <1>6 DEF Posts
  <2>2. \A d \in Chars : y \in a.inv[d] <=> y \in Soon.inv[d] BY <1>6, <1>11, <1>13
  <2>3. a.ah[y] = Soon.ah[y] BY <1>6, <1>11, <1>13
  <2> QED BY <1>6, <2>1, <2>2, <2>3 DEF Alike
<1>14. Gives(Soon, a, c)
  <2>1. Lists(Soon, a, c, x, v) BY <1>6, <1>7, <1>10, <1>12 DEF Lists
  <2> QED BY <1>6, <1>8, <1>9, <1>10, <1>13, <2>1, PutGives
<1>15. Passes(Soon, a) BY <1>14 DEF Passes
<1>16. Terms(Soon) BY SoonTerms
<1>17. Terms(a) BY <1>6, <1>7, <1>11, <1>16 DEF Terms
<1>18. Enqueued(a) BY <1>1, <1>6, <1>15, <1>17, QueuedOne
<1>19. Mailing(Here, {}) /\ Here.box = box BY Basics DEF Here
<1>20. \A d \in Chars : \/ box'[d] \subseteq Here.box[d] /\ deleted'[d] = deleted[d]
                        \/ deleted'[d] = {}
  BY <1>4, <1>19
<1> QED BY <1>4, <1>6, <1>18, <1>19, <1>20, TradedMail

LEMMA SellPartTrades ==
    ASSUME IInv, IInv', Trading, NEW c \in Chars, NEW x \in Items, NEW b \in Nat, SellPart(c, x, b)
    PROVE  Trades
<1>1. PICK e, a : /\ CutOff(e, c, x) /\ PutUpRows(a, c, x, NewAuction(c, b))
                  /\ Commit(<<e, a>>)
  BY SellPartRows
<1>2. PutUp(c, x, b) BY DEF SellPart
<1>3. PICK g \in Nat : /\ gold' = [gold EXCEPT ![c] = g] /\ gold'[c] = g
                       /\ g + Deposit = Soon.gold[c]
  BY <1>2, PutUpMemory
<1>4. /\ InWorld(c) /\ x \in Soon.inv[c] /\ x \notin Soon.gone
      /\ NewAuction(c, b) \in Auctions /\ UNCHANGED <<status, ahead, box, deleted>>
  BY <1>2, PutUpMemory
<1>5. PICK v \in Auctions : v = NewAuction(c, b) BY <1>4
<1>6. /\ a \in Databases /\ a.mails = Soon.mails /\ a.gone = Soon.gone
      /\ a.ah = [Soon.ah EXCEPT ![x] = v] /\ a.gold = [Soon.gold EXCEPT ![c] = g]
      /\ a.inv = [Soon.inv EXCEPT ![c] = Soon.inv[c] \ {x}] /\ a.parted = Soon.parted
      /\ a.burnt = Soon.burnt /\ a.chars = Soon.chars
  BY <1>1, <1>3, <1>5 DEF PutUpRows
<1>7. v.owner = c /\ v.bidder = None BY <1>5 DEF NewAuction
<1>8. Soon \in Databases /\ Sound(Soon) /\ Once(Soon, x) BY Basics DEF Sound
<1>9. /\ e \in Databases /\ e.mails = Soon.mails /\ e.gone = Soon.gone
      /\ e.ah = Soon.ah /\ e.gold = Soon.gold
      /\ e.inv = [Soon.inv EXCEPT ![c] = Soon.inv[c] \ {x}]
      /\ e.parted = Soon.parted \cup {<<c, x>>}
      /\ e.burnt = Soon.burnt /\ e.chars = Soon.chars /\ Sound(e)
  BY <1>1 DEF CutOff
<1>10. Sound(a) BY <1>1, <1>6, <1>9, CommittedTwo
<1>11. Owns(Soon, c, x) /\ Soon.ah[x] = None BY <1>4, <1>8, HasBag, OnceBag DEF Owns
<1>12. /\ Soon.gold \in [Chars -> Nat] /\ Soon.inv \in [Chars -> SUBSET Items]
       /\ Soon.ah \in [Items -> Auctions \cup {None}]
  BY <1>8 DEF Databases
<1>13. ASSUME NEW y \in Items, y # x PROVE Alike(e, Soon, y) /\ Alike(a, e, y)
  <2>1. Posts(e, y) = Posts(Soon, y) /\ Posts(a, y) = Posts(e, y) BY <1>6, <1>9 DEF Posts
  <2>2. \A d \in Chars : y \in e.inv[d] <=> y \in Soon.inv[d] BY <1>9, <1>12, <1>13
  <2>3. a.ah[y] = e.ah[y] BY <1>6, <1>9, <1>12, <1>13
  <2>4. \A d \in Chars : <<d, y>> \in e.parted <=> <<d, y>> \in Soon.parted BY <1>9, <1>13
  <2>5. \A d \in Chars : y \in a.inv[d] <=> y \in e.inv[d] BY <1>6, <1>9
  <2>6. Alike(e, Soon, y) BY <1>9, <2>1, <2>2, <2>4 DEF Alike
  <2> QED BY <1>6, <1>9, <2>1, <2>3, <2>4, <2>5, <2>6 DEF Alike
<1>14. Owns(e, c, x) /\ e.ah[x] = None
  <2>1. Once(e, x) /\ <<c, x>> \in e.parted BY <1>9 DEF Sound
  <2>2. Owns(e, c, x) BY <2>1, HasCut DEF Owns
  <2> QED BY <1>9, <1>11, <2>2
<1>15. Gives(Soon, e, c)
  <2>1. ASSUME NEW y \in Items PROVE Fate(Soon, e, c, y)
    <3>1. CASE y = x BY <1>11, <3>1 DEF Fate, Owns
    <3>2. CASE y # x BY <1>13, <3>2, FateSame
    <3> QED BY <3>1, <3>2
  <2>2. Proper(Soon.mails) BY <1>8 DEF Sound
  <2>3. ASSUME NEW d \in Chars, d # c
        PROVE  e.gold[d] >= Soon.gold[d] /\ MailsOf(Soon, d) \subseteq e.mails
    <3>1. e.gold[d] = Soon.gold[d] /\ Soon.gold[d] \in Nat BY <1>9, <1>12
    <3> QED BY <1>9, <3>1 DEF MailsOf
  <2>4. Soon.burnt <= e.burnt BY <1>8, <1>9 DEF Databases
  <2> QED BY <1>8, <1>9, <2>1, <2>2, <2>3, <2>4, GivesMail
<1>16. Gives(e, a, c)
  <2>1. \A d \in Chars : d # c => a.gold[d] = e.gold[d] BY <1>6, <1>9, <1>12
  <2>2. a.ah = [e.ah EXCEPT ![x] = v] /\ a.mails = e.mails /\ a.burnt = e.burnt /\ a.chars = e.chars
    BY <1>6, <1>9
  <2>3. Lists(e, a, c, x, v) BY <1>7, <1>14, <2>1, <2>2 DEF Lists
  <2> QED BY <1>6, <1>9, <1>10, <1>13, <1>14, <2>3, PutGives
<1>17. Passes(Soon, e) /\ Passes(e, a) BY <1>15, <1>16 DEF Passes
<1>18. Terms(Soon) BY SoonTerms
<1>19. Terms(e) BY <1>9, <1>18 DEF Terms
<1>20. Terms(a) BY <1>6, <1>7, <1>12, <1>18 DEF Terms
<1>21. Enqueued(a) BY <1>1, <1>6, <1>9, <1>17, <1>19, <1>20, QueuedTwo
<1>22. Mailing(Here, {}) /\ Here.box = box BY Basics DEF Here
<1>23. \A d \in Chars : \/ box'[d] \subseteq Here.box[d] /\ deleted'[d] = deleted[d]
                        \/ deleted'[d] = {}
  BY <1>4, <1>22
<1> QED BY <1>4, <1>6, <1>21, <1>22, <1>23, TradedMail

\* What is committed for an expired mail.
LEMMA ExpiredGives ==
    ASSUME NEW D \in Databases, Sound(D), Terms(D), NEW e, NEW m, Expired(e, D, m)
    PROVE  /\ e \in Databases /\ Sound(e) /\ Terms(e) /\ e.chars = D.chars
           /\ m.to \in Chars /\ Gives(D, e, m.to) /\ Passes(D, e)
<1>1. PICK R, lost : Replaced(e, D, m, R, lost) /\ Rightly(m, R, lost, Chars) BY DEF Expired
<1>2. D.chars \subseteq Chars BY DEF Databases
<1>3. /\ e \in Databases /\ Sound(e) /\ Terms(e) /\ e.chars = D.chars
      /\ m.to \in Chars /\ Gives(D, e, m.to)
  BY <1>1, <1>2, ReplacedGives
<1> QED BY <1>3 DEF Passes

LEMMA ExpireMailTrades ==
    ASSUME IInv, IInv', Trading, ~Races, NEW m, NEW drop, ExpireMail(m, drop)
    PROVE  Trades
<1>1. /\ m \in Now.mails /\ Len(log) = 1 /\ Commit(Expire(Soon, m, drop))
      /\ UNCHANGED <<status, ahead, gold, inv, box, deleted>>
  BY DEF ExpireMail
<1>2. PICK db \in Databases : db = Soon /\ Sound(db) BY Basics
<1>3. m \in db.mails BY <1>1, <1>2, Basics
<1>4. Terms(db) /\ Known /\ Marked BY <1>2, SoonTerms DEF Trading
<1>5. ASSUME NEW a, Expire(db, m, drop) = <<a>>, Expired(a, db, m)
      PROVE  \E e : Enqueued(e) /\ e.chars = db.chars
  <2>1. a \in Databases /\ Terms(a) /\ Passes(db, a) /\ a.chars = db.chars
    BY <1>2, <1>4, <1>5, ExpiredGives
  <2>2. Commit(<<a>>) /\ Passes(Soon, a) BY <1>1, <1>2, <1>5, <2>1
  <2>3. Enqueued(a) BY <2>1, <2>2, QueuedOne
  <2> QED BY <2>1, <2>3
<1>6. ASSUME NEW a, NEW b, Expire(db, m, drop) = <<a, b>>, Expired(a, db, m), Expired(b, db, m),
             Dropped(b, a, m.to)
      PROVE  \E e : Enqueued(e) /\ e.chars = db.chars
  <2>1. /\ a \in Databases /\ Sound(a) /\ Terms(a) /\ Passes(db, a) /\ a.chars = db.chars
        /\ m.to \in Chars
    BY <1>2, <1>4, <1>6, ExpiredGives
  <2>2. b \in Databases /\ Sound(b) /\ b.chars = db.chars BY <1>2, <1>4, <1>6, ExpiredGives
  <2>3. Gives(a, b, m.to) /\ Terms(b) BY <1>6, <2>1, <2>2, DroppedGives
  <2>4. Passes(a, b) BY <2>1, <2>3 DEF Passes
  <2>5. Commit(<<a, b>>) /\ Passes(Soon, a) BY <1>1, <1>2, <1>6, <2>1
  <2>6. Enqueued(b) BY <2>1, <2>2, <2>3, <2>4, <2>5, QueuedTwo
  <2> QED BY <2>2, <2>6
<1>7. PICK e : Enqueued(e) /\ e.chars = db.chars BY <1>2, <1>3, <1>5, <1>6, ExpireStates
<1>8. Known' BY <1>1, <1>2, <1>4, <1>7, KnownSame DEF Enqueued
<1>9. Marked' BY <1>1, <1>4 DEF Marked
<1> QED BY <1>7, <1>8, <1>9 DEF Trading, Trades, Enqueued

\* A queue of two or three states.
LEMMA JoinOne ==
    ASSUME NEW p \in Databases, NEW q \in Databases, NEW l, l = <<p>> \o <<q>>
    PROVE  DOMAIN l = {1, 2} /\ l[1] = p /\ l[2] = q /\ Len(l) = 2
<1>1. PICK k : k = <<p>> OBVIOUS
<1>2. k \in Seq(Databases) /\ Len(k) = 1 /\ k[1] = p BY <1>1
<1>3. l = k \o <<q>> BY <1>1
<1>4. l \in Seq(Databases) /\ Len(l) = Len(k) + 1 BY <1>2, <1>3
<1>5. l[1] = k[1] /\ l[Len(k) + 1] = q BY <1>2, <1>3
<1>6. DOMAIN l = 1 .. 2 /\ 1 .. 2 = {1, 2} BY <1>2, <1>4
<1> QED BY <1>2, <1>4, <1>5, <1>6

LEMMA JoinTwo ==
    ASSUME NEW p \in Databases, NEW q \in Databases, NEW r \in Databases, NEW l,
           l = <<p>> \o <<q, r>>
    PROVE  DOMAIN l = {1, 2, 3} /\ l[1] = p /\ l[2] = q /\ l[3] = r /\ Len(l) = 3
<1>1. PICK k : k = <<p>> OBVIOUS
<1>2. k \in Seq(Databases) /\ Len(k) = 1 /\ k[1] = p BY <1>1
<1>3. l = k \o <<q, r>> BY <1>1
<1>4. l \in Seq(Databases) /\ Len(l) = Len(k) + 2 BY <1>2, <1>3
<1>5. l[1] = k[1] /\ l[Len(k) + 1] = q /\ l[Len(k) + 2] = r BY <1>2, <1>3
<1>6. DOMAIN l = 1 .. 3 /\ 1 .. 3 = {1, 2, 3} BY <1>2, <1>4
<1> QED BY <1>2, <1>4, <1>5, <1>6

\* After a crash what was queued is gone.
LEMMA RestartTrades ==
    ASSUME IInv, IInv', Trading, Restart
    PROVE  Trades
<1>1. /\ \/ log' = <<Now>>
         \/ \E m \in Now.mails, drop \in BOOLEAN : log' = <<Now>> \o Expire(Now, m, drop)
      /\ status' = [c \in Chars |-> IF c \in Now.chars THEN "offline" ELSE "gone"]
      /\ box' = [c \in Chars |-> {}]
  BY DEF Restart, Crash
<1>2. PICK db \in Databases : db = Now /\ Sound(db) BY Basics
<1>3. Terms(db) BY <1>2, SoonTerms
<1>4. CASE log' = <<Now>>
  <2>1. log' = <<db>> BY <1>2, <1>4
  <2>2. DOMAIN log' = {1} /\ log'[1] = db /\ Len(log') = 1 BY <2>1
  <2>3. Soon' = db /\ Now' = Now BY <1>2, <2>2 DEF Soon, Last, Now
  <2>4. AllTerms' BY <1>3, <2>2 DEF AllTerms
  <2>5. Edges' BY <2>2 DEF Edges
  <2>6. AllTerms' /\ Edges' /\ Soon'.chars = db.chars /\ Now' = Now BY <2>3, <2>4, <2>5
  <2>7. Known' BY <1>1, <1>2, <2>6 DEF Known
  <2>8. Marked' BY <1>1 DEF Marked
  <2> QED BY <2>6, <2>7, <2>8 DEF Trading, Trades
<1>5. ASSUME NEW m \in Now.mails, NEW drop \in BOOLEAN, log' = <<Now>> \o Expire(Now, m, drop)
      PROVE  AllTerms' /\ Edges' /\ Soon'.chars = db.chars /\ Now' = Now
  <2>1. m \in db.mails BY <1>2
  <2>2. ASSUME NEW a, Expire(db, m, drop) = <<a>>, Expired(a, db, m)
        PROVE  AllTerms' /\ Edges' /\ Soon'.chars = db.chars /\ Now' = Now
    <3>1. Terms(a) /\ Passes(db, a) /\ a.chars = db.chars /\ a \in Databases
      BY <1>2, <1>3, <2>2, ExpiredGives
    <3>2. log' = <<db>> \o <<a>> BY <1>2, <1>5, <2>2
    <3>4. DOMAIN log' = {1, 2} /\ log'[1] = db /\ log'[2] = a /\ Len(log') = 2
      BY <3>1, <3>2, JoinOne
    <3>5. Soon' = a /\ Now' = Now BY <1>2, <3>4 DEF Soon, Last, Now
    <3>6. AllTerms' BY <1>3, <3>1, <3>4 DEF AllTerms
    <3>7. Edges' BY <3>1, <3>4 DEF Edges
    <3> QED BY <3>1, <3>5, <3>6, <3>7
  <2>3. ASSUME NEW a, NEW b, Expire(db, m, drop) = <<a, b>>, Expired(a, db, m), Expired(b, db, m),
               Dropped(b, a, m.to)
        PROVE  AllTerms' /\ Edges' /\ Soon'.chars = db.chars /\ Now' = Now
    <3>1. /\ a \in Databases /\ Sound(a) /\ Terms(a) /\ Passes(db, a) /\ a.chars = db.chars
          /\ m.to \in Chars
      BY <1>2, <1>3, <2>3, ExpiredGives
    <3>2. b \in Databases /\ Sound(b) /\ b.chars = db.chars BY <1>2, <1>3, <2>3, ExpiredGives
    <3>3. Gives(a, b, m.to) /\ Terms(b) BY <2>3, <3>1, <3>2, DroppedGives
    <3>4. Passes(a, b) BY <3>1, <3>3 DEF Passes
    <3>5. log' = <<db>> \o <<a, b>> BY <1>2, <1>5, <2>3
    <3>7. /\ DOMAIN log' = {1, 2, 3} /\ log'[1] = db /\ log'[2] = a /\ log'[3] = b
          /\ Len(log') = 3
      BY <3>1, <3>2, <3>5, JoinTwo
    <3>8. Soon' = b /\ Now' = Now BY <1>2, <3>7 DEF Soon, Last, Now
    <3>9. AllTerms' BY <1>3, <3>1, <3>3, <3>7 DEF AllTerms
    <3>10. Edges' BY <3>1, <3>4, <3>7 DEF Edges
    <3> QED BY <3>2, <3>8, <3>9, <3>10
  <2> QED BY <1>2, <2>1, <2>2, <2>3, ExpireStates
<1>6. ASSUME NEW m \in Now.mails, NEW drop \in BOOLEAN, log' = <<Now>> \o Expire(Now, m, drop)
      PROVE  Trades
  <2>1. AllTerms' /\ Edges' /\ Soon'.chars = db.chars /\ Now' = Now BY <1>5, <1>6
  <2>2. Known' BY <1>1, <1>2, <2>1 DEF Known
  <2>3. Marked' BY <1>1 DEF Marked
  <2> QED BY <2>1, <2>2, <2>3 DEF Trading, Trades
<1> QED BY <1>1, <1>4, <1>6

-----------------------------------------------------------------------------
(* Characters come and go.                                                  *)

LEMMA DeleteCharacterTrades ==
    ASSUME IInv, IInv', Trading, ~Races, NEW c \in Chars, DeleteCharacter(c),
           \A x \in Items : ah[x] # None => ah[x].owner # c
    PROVE  Trades
<1>1. PICK a : /\ Commit(<<a>>) /\ Cleared(a, Soon, c)
               /\ box' = [d \in Chars |->
                    IF InWorld(d) THEN box[d] \cup {m \in GoingBack(Soon, c) : m.to = d} ELSE box[d]]
  BY DeleteCharacterRows
<1>2. PICK R : R = Returning(Soon, c) OBVIOUS
<1>3. PICK G : G = GoingBack(Soon, c) OBVIOUS
<1>4. PICK L : L = Losing(Soon, c) OBVIOUS
<1>5. /\ a \in Databases /\ a.mails = {m \in Soon.mails : m.to # c} \cup G
      /\ a.gold = [Soon.gold EXCEPT ![c] = 0] /\ a.inv = [Soon.inv EXCEPT ![c] = {}]
      /\ a.ah = Soon.ah /\ a.parted = Soon.parted
      /\ a.gone = Soon.gone \cup Soon.inv[c] \cup UNION {m.items : m \in L}
      /\ a.burnt = Soon.burnt + (Soon.gold[c] + Money(L))
      /\ a.chars = Soon.chars \ {c}
  BY <1>1, <1>3, <1>4 DEF Cleared
<1>6. /\ Soon \in Databases /\ Sound(Soon) /\ Proper(Soon.mails) /\ Soon.mails \in SUBSET Mails
      /\ \A x \in Items : Once(Soon, x)
  BY Basics DEF Sound
<1>7. Sound(a) /\ Proper(a.mails) BY <1>1, <1>5, CommittedOne DEF Sound
<1>8. Terms(Soon) /\ Known /\ Marked /\ \A d \in Chars : Exists(d) <=> d \in Soon.chars
  BY SoonTerms DEF Trading
<1>9. /\ status' = [status EXCEPT ![c] = "gone"] /\ UNCHANGED deleted
  BY DEF DeleteCharacter
<1>10. \A m \in R : /\ m \in Soon.mails /\ m \in Mails /\ m.to = c /\ m.items # {} /\ m.cod > 0
                    /\ Tame(m) /\ m.from \in Chars /\ Exists(m.from)
  BY <1>2, <1>6, <1>8 DEF Returning, Terms, Tame
<1>11. \A m \in R : /\ Turned(m) \in G /\ Turned(m).from = c /\ Turned(m).to = m.from
                    /\ Turned(m).cod = 0 /\ Turned(m).items = m.items
  BY <1>2, <1>3, <1>10 DEF Turned, Mails, GoingBack
<1>12. \A k \in G : \E m \in R : k = Turned(m) BY <1>2, <1>3 DEF GoingBack
<1>13. \A m \in L : m \in Soon.mails /\ m.to = c /\ m \notin R BY <1>2, <1>4 DEF Losing
<1>14. \A m \in Soon.mails : m.to = c => m \in R \/ m \in L BY <1>2, <1>4 DEF Losing
<1>15. \A k \in G : k.from # k.to /\ k.cod = 0
  <2>1. \A m \in R : m.from # c BY <1>10 DEF Tame
  <2> QED BY <1>11, <1>12, <2>1
<1>16. Terms(a)
  <2>1. \A k \in G : Tame(k) BY <1>15 DEF Tame
  <2> QED BY <1>5, <1>8, <2>1 DEF Terms
<1>17. \A m \in Soon.mails : m.to = c /\ m.cod > 0 /\ m \notin R =>
          m.items = {} \/ (m.from \in Chars \ Soon.chars /\ m.from # c)
  <2>1. ASSUME NEW m \in Soon.mails, m.to = c, m.cod > 0, m \notin R, m.items # {}
        PROVE  m.from \in Chars \ Soon.chars /\ m.from # c
    <3>1. m.from \in Chars /\ m.from # c BY <1>8, <2>1 DEF Terms, Tame
    <3>2. m.from # House BY <3>1, StoreAssumption
    <3>3. ~Exists(m.from) BY <1>2, <2>1, <3>2 DEF Returning
    <3> QED BY <1>8, <3>1, <3>3
  <2> QED BY <2>1
<1>18. ASSUME NEW x \in Items PROVE Fate(Soon, a, c, x)
  <2>1. Once(Soon, x) /\ Once(a, x) BY <1>6, <1>7 DEF Sound
  <2>2. CASE x \in Soon.inv[c]
    <3>1. Holder(Soon)[x] = c /\ Offers(Soon)[x] = {} BY <2>1, <2>2, HasBag
    <3> QED BY <3>1 DEF Fate
  <2>3. CASE \E m \in Soon.mails : m.to = c /\ x \in m.items
    <3>1. PICK m \in Soon.mails : m.to = c /\ x \in m.items BY <2>3
    <3>2. m \in Mails /\ m.cod \in Nat BY <1>6 DEF Mails
    <3>3. CASE m.cod = 0
      <4>1. Holder(Soon)[x] = c /\ Offers(Soon)[x] = {} BY <1>6, <2>1, <3>1, <3>3, HasPost
      <4> QED BY <4>1 DEF Fate
    <3>4. CASE m.cod > 0 /\ m \in R
      <4>1. m.from \in Chars /\ m.from # c BY <1>10, <3>4 DEF Tame
      <4>2. Holder(Soon)[x] = m.from BY <1>6, <2>1, <3>1, <3>4, <4>1, HasPost
      <4>3. PICK k \in G : k.to = m.from /\ k.cod = 0 /\ k.items = m.items BY <1>11, <3>4
      <4>4. k \in a.mails /\ x \in k.items BY <1>5, <3>1, <4>3
      <4>5. Holder(a)[x] = m.from /\ Offers(a)[x] = {} BY <1>5, <2>1, <4>3, <4>4, HasPost
      <4> QED BY <4>1, <4>2, <4>5 DEF Fate
    <3>5. CASE m.cod > 0 /\ m \notin R
      <4>1. m.from \in Chars \ Soon.chars /\ m.from # c BY <1>17, <3>1, <3>5
      <4>2. Holder(Soon)[x] = m.from BY <1>6, <2>1, <3>1, <3>5, <4>1, HasPost
      <4> QED BY <4>1, <4>2 DEF Fate
    <3> QED BY <3>2, <3>3, <3>4, <3>5
  <2>4. CASE x \notin Soon.inv[c] /\ \A m \in Soon.mails : m.to = c => x \notin m.items
    <3>1. \A k \in G : x \notin k.items BY <1>10, <1>11, <1>12, <2>4
    <3>2. Posts(a, x) = Posts(Soon, x) BY <1>5, <2>4, <3>1 DEF Posts
    <3>3. \A d \in Chars : x \in a.inv[d] <=> x \in Soon.inv[d]
      <4>1. Soon.inv \in [Chars -> SUBSET Items] BY <1>6 DEF Databases
      <4> QED BY <1>5, <2>4, <4>1
    <3>4. x \in a.gone <=> x \in Soon.gone BY <1>5, <1>13, <2>4
    <3>5. Alike(a, Soon, x) BY <1>5, <3>2, <3>3, <3>4 DEF Alike
    <3> QED BY <3>5, FateSame
  <2> QED BY <2>2, <2>3, <2>4
<1>19. ASSUME NEW d \in Chars, d # c
       PROVE  a.gold[d] >= Soon.gold[d] /\ MailsOf(Soon, d) \subseteq a.mails
  <2>1. Soon.gold \in [Chars -> Nat] BY <1>6 DEF Databases
  <2>2. a.gold[d] = Soon.gold[d] /\ Soon.gold[d] \in Nat BY <1>5, <1>19, <2>1
  <2>3. MailsOf(Soon, d) \subseteq a.mails BY <1>5, <1>19 DEF MailsOf
  <2> QED BY <2>2, <2>3
<1>20. Soon.burnt <= a.burnt
  <2>1. Soon.burnt \in Nat /\ Soon.gold[c] \in Nat BY <1>6 DEF Databases
  <2>2. L \in SUBSET Soon.mails BY <1>13
  <2>3. Money(L) \in Nat BY <1>6, <2>2, MailsFinite
  <2> QED BY <1>5, <2>1, <2>3
<1>21. Gives(Soon, a, c) BY <1>5, <1>6, <1>7, <1>18, <1>19, <1>20, GivesMail
<1>22. Passes(Soon, a) BY <1>21 DEF Passes
<1>23. Enqueued(a) BY <1>1, <1>5, <1>16, <1>22, QueuedOne
<1>24. Known'
  <2>1. status \in [Chars -> Statuses] BY DEF IInv, TypeOK
  <2>2. \A d \in Chars : status'[d] # "gone" <=> d # c /\ status[d] # "gone" BY <1>9, <2>1
  <2> QED BY <1>5, <1>8, <1>23, <2>2 DEF Known, Enqueued
<1>25. Marked'
  <2>1. ASSUME NEW d \in Chars, NEW m \in box'[d], m.id \in deleted'[d] PROVE m.cod = 0
    <3>1. m \in box[d] \/ m \in G BY <1>1, <1>3, <2>1
    <3>2. CASE m \in box[d] BY <1>8, <1>9, <2>1, <3>2 DEF Marked
    <3>3. CASE m \in G BY <1>15, <3>3
    <3> QED BY <3>1, <3>2, <3>3
  <2> QED BY <2>1 DEF Marked
<1> QED BY <1>23, <1>24, <1>25 DEF Trading, Trades, Enqueued

\* Nothing is committed.
LEMMA IdleTrades ==
    ASSUME Trading, log' = log, \A c \in Chars : status'[c] = "gone" <=> status[c] = "gone", Marked'
    PROVE  Trades
<1>1. AllTerms' /\ Edges' /\ Soon' = Soon /\ Now' = Now
  BY DEF Trading, AllTerms, Edges, Soon, Now
<1>2. Known' BY <1>1, KnownSame DEF Trading
<1> QED BY <1>1, <1>2 DEF Trading, Trades

\* The mails that are loaded are not marked.
LEMMA LoadedUnmarked ==
    ASSUME IInv, Trading, UNCHANGED deleted,
           \A c \in Chars : status[c] = "online" => box'[c] = box[c]
    PROVE  Marked'
<1>1. ASSUME NEW c \in Chars, NEW m \in box'[c], m.id \in deleted'[c] PROVE m.cod = 0
  <2>1. Member(c) BY DEF IInv
  <2>2. status[c] = "online" BY <1>1, <2>1 DEF Member
  <2> QED BY <1>1, <2>2 DEF Trading, Marked
<1> QED BY <1>1 DEF Marked

LEMMA LoginRequestTrades ==
    ASSUME IInv, Trading, NEW c \in Chars, LoginRequest(c)
    PROVE  Trades
<1>1. /\ status[c] = "offline" /\ status' = [status EXCEPT ![c] = "loading"]
      /\ Fetched(IF Len(log) = 1 THEN {c} ELSE {}, Now)
      /\ UNCHANGED <<log, deleted>>
  BY DEF LoginRequest
<1>2. status \in [Chars -> Statuses] BY DEF IInv, TypeOK
<1>3. \A d \in Chars : status'[d] = "gone" <=> status[d] = "gone" BY <1>1, <1>2
<1>4. \A d \in Chars : d # c => box'[d] = box[d] BY <1>1 DEF Fetched
<1>5. Marked' BY <1>1, <1>4, LoadedUnmarked
<1> QED BY <1>1, <1>3, <1>5, IdleTrades

LEMMA LoginTrades ==
    ASSUME IInv, Trading, NEW c \in Chars, Login(c)
    PROVE  Trades
<1>1. /\ status[c] = "loading" /\ status' = [status EXCEPT ![c] = "online"]
      /\ UNCHANGED <<log, ahead, gold, inv, box, deleted>>
  BY DEF Login
<1>2. status \in [Chars -> Statuses] BY DEF IInv, TypeOK
<1>3. \A d \in Chars : status'[d] = "gone" <=> status[d] = "gone" BY <1>1, <1>2
<1>4. Marked' BY <1>1, LoadedUnmarked
<1> QED BY <1>1, <1>3, <1>4, IdleTrades

LEMMA DeleteMailTrades ==
    ASSUME IInv, Trading, NEW c \in Chars, NEW m \in box[c], DeleteMail(c, m)
    PROVE  Trades
<1>1. /\ InWorld(c) /\ m.cod = 0 /\ deleted' = [deleted EXCEPT ![c] = @ \cup {m.id}]
      /\ UNCHANGED <<log, status, ahead, gold, inv, box>>
  BY DEF DeleteMail
<1>2. deleted \in [Chars -> SUBSET MailIds] BY DEF IInv, TypeOK
<1>3. Marked'
  <2>1. ASSUME NEW d \in Chars, NEW k \in box'[d], k.id \in deleted'[d] PROVE k.cod = 0
    <3>1. k \in box[d] BY <1>1, <2>1
    <3>2. k.id \in deleted[d] \/ (d = c /\ k.id = m.id) BY <1>1, <1>2, <2>1
    <3>3. CASE k.id \in deleted[d] BY <3>1, <3>3 DEF Trading, Marked
    <3>4. CASE d = c /\ k.id = m.id
      <4>1. k \in Soon.mails /\ m \in Soon.mails BY <1>1, <3>1, <3>4, Online
      <4>2. Proper(Soon.mails) BY Basics DEF Sound
      <4>3. k = m BY <3>4, <4>1, <4>2 DEF Proper
      <4> QED BY <1>1, <4>3
    <3> QED BY <3>2, <3>3, <3>4
  <2> QED BY <2>1 DEF Marked
<1> QED BY <1>1, <1>3, IdleTrades

LEMMA ApplyTrades ==
    ASSUME IInv, Trading, Apply
    PROVE  Trading' /\ Now' = log[2] /\ Passes(Now, Now')
<1>1. /\ Len(log) > 1 /\ log' = Tail(log)
      /\ Fetched({c \in Chars : status[c] = "loading" /\ ahead[c] = 1}, log[2])
      /\ UNCHANGED <<status, deleted>>
  BY DEF Apply, Applied
<1>2. log \in Seq(Databases) /\ Len(log) \in Nat /\ DOMAIN log = 1 .. Len(log) BY Basics
<1>3. /\ log' \in Seq(Databases) /\ Len(log') = Len(log) - 1 /\ DOMAIN log' = 1 .. (Len(log) - 1)
      /\ \A n \in 1 .. (Len(log) - 1) : log'[n] = log[n + 1]
  BY <1>1, <1>2
<1>4. Soon' = Soon BY <1>1, <1>2, <1>3 DEF Soon, Last
<1>5. Now' = log[2] /\ Now = log[1] BY <1>1, <1>2, <1>3, Basics DEF Now
<1>6. \A n \in 1 .. (Len(log) - 1) : n + 1 \in DOMAIN log BY <1>2
<1>7. AllTerms' BY <1>3, <1>6 DEF Trading, AllTerms
<1>8. Edges'
  <2>1. ASSUME NEW n \in DOMAIN log', n + 1 \in DOMAIN log' PROVE Passes(log'[n], log'[n + 1])
    <3>1. n + 1 \in DOMAIN log /\ n + 1 + 1 \in DOMAIN log BY <1>2, <1>3, <2>1
    <3>2. log'[n] = log[n + 1] /\ log'[n + 1] = log[n + 1 + 1] BY <1>3, <2>1
    <3> QED BY <3>1, <3>2 DEF Trading, Edges
  <2> QED BY <2>1 DEF Edges
<1>9. Known' BY <1>1, <1>4, KnownSame DEF Trading
<1>10. \A c \in Chars : status[c] = "online" => box'[c] = box[c] BY <1>1 DEF Fetched
<1>11. Marked' BY <1>1, <1>10, LoadedUnmarked
<1>12. Passes(Now, Now')
  <2>1. 1 \in DOMAIN log /\ 1 + 1 \in DOMAIN log BY <1>1, <1>2
  <2>2. Passes(log[1], log[1 + 1]) BY <2>1 DEF Trading, Edges
  <2>3. 1 + 1 = 2 OBVIOUS
  <2> QED BY <1>5, <2>2, <2>3
<1> QED BY <1>5, <1>7, <1>8, <1>9, <1>11, <1>12 DEF Trading

-----------------------------------------------------------------------------
(* The refinement.                                                          *)

LEMMA MailNextTrades ==
    ASSUME IInv, IInv', Trading, Calm, MailNext, UNCHANGED ah
    PROVE  Trading' /\ (Now' = Now \/ Passes(Now, Now'))
<1>1. ASSUME NEW c \in Chars, Logout(c) \/ LoginRequest(c) \/ Login(c) PROVE Trades
  BY <1>1, LogoutTrades, LoginRequestTrades, LoginTrades
<1>2. ASSUME NEW w \in Letters, NEW money \in Sums \cup {0}, NEW cod \in Sums \cup {0},
             NEW items \in SUBSET Items, SendMail(w[1], w[2], money, cod, items)
      PROVE  Trades
  <2>1. w[1] \in Chars /\ w[2] \in Chars /\ money \in Nat /\ cod \in Nat BY MailAssumption
  <2> QED BY <1>2, <2>1, SendMailTrades
<1>3. ASSUME NEW c \in Chars, NEW m \in box[c],
             \/ DeleteMail(c, m) \/ ReturnMail(c, m) \/ TakeMoney(c, m)
             \/ \E x \in m.items : TakeItem(c, m, x)
      PROVE  Trades
  BY <1>3, DeleteMailTrades, ReturnMailTrades, TakeMoneyTrades, TakeItemTrades
<1>4. ASSUME NEW m \in Now.mails, NEW drop \in BOOLEAN, ExpireMail(m, drop) PROVE Trades
  BY <1>4, ExpireMailTrades DEF Calm
<1>5. ASSUME Apply PROVE Trading' /\ Passes(Now, Now') BY <1>5, ApplyTrades
<1> QED BY <1>1, <1>2, <1>3, <1>4, <1>5 DEF MailNext, Trades

LEMMA NextTrades ==
    ASSUME IInv, IInv', Trading, Calm, [Next]_vars
    PROVE  Trading' /\ (Now' = Now \/ Passes(Now, Now'))
<1>1. CASE MailNext /\ UNCHANGED ah BY <1>1, MailNextTrades
<1>2. ASSUME NEW c \in Leavers, DeleteCharacter(c),
             DeleteSellers \/ \A x \in Items : ah[x] # None => ah[x].owner # c, UNCHANGED ah
      PROVE  Trades
  <2>1. c \in Chars BY AuctionAssumption
  <2> QED BY <1>2, <2>1, DeleteCharacterTrades DEF Calm
<1>3. ASSUME NEW c \in Chars, NEW x \in Items, NEW b \in Buyouts,
             SellItem(c, x, b) \/ SellPart(c, x, b)
      PROVE  Trades
  <2>1. b \in Nat BY AuctionAssumption
  <2> QED BY <1>3, <2>1, SellItemTrades, SellPartTrades
<1>4. ASSUME NEW c \in Chars, NEW x \in Items, NEW p \in Prices,
             PlaceBid(c, x, p) \/ Buyout(c, x, p)
      PROVE  Trades
  <2>1. p \in Nat BY AuctionAssumption
  <2> QED BY <1>4, <2>1, PlaceBidTrades, BuyoutTrades
<1>5. ASSUME NEW c \in Chars, NEW x \in Items, CancelAuction(c, x) PROVE Trades
  BY <1>5, CancelAuctionTrades
<1>6. ASSUME NEW x \in Items, AuctionExpires(x) PROVE Trades BY <1>6, AuctionExpiresTrades
<1>7. ASSUME Restart PROVE Trades BY <1>7, RestartTrades
<1>8. ASSUME UNCHANGED vars PROVE Trades
  <2>1. log' = log /\ status' = status /\ box' = box /\ deleted' = deleted BY <1>8 DEF vars
  <2>2. Marked' BY <2>1 DEF Trading, Marked
  <2> QED BY <2>1, <2>2, IdleTrades
<1> QED BY <1>1, <1>2, <1>3, <1>4, <1>5, <1>6, <1>7, <1>8 DEF Next, Trades

\* In the beginning everybody has what he begins with.
LEMMA InitTrades ==
    ASSUME Init
    PROVE  Trading /\ Exchanged!Init
<1>1. PICK db : db = [gold |-> StartGold, inv |-> StartItems, mails |-> {},
                      ah |-> [x \in Items |-> None], chars |-> Chars,
                      parted |-> {}, gone |-> {}, burnt |-> 0]
  OBVIOUS
<1>2. /\ log = <<db>> /\ status = [c \in Chars |-> "offline"] /\ box = [c \in Chars |-> {}]
  BY <1>1 DEF Init, MailInit, StoreInit
<1>3. /\ db.mails = {} /\ db.ah = [x \in Items |-> None] /\ db.chars = Chars /\ db.gone = {}
  BY <1>1
<1>4. DOMAIN log = {1} /\ log[1] = db /\ Len(log) = 1 BY <1>2
<1>5. Soon = db /\ Now = db BY <1>4 DEF Soon, Last, Now
<1>6. IInv BY InitIInv
<1>7. db \in Databases /\ Sound(db) BY <1>5, <1>6, Basics
<1>8. Terms(db) BY <1>3 DEF Terms
<1>9. AllTerms BY <1>4, <1>8 DEF AllTerms
<1>10. Edges BY <1>4 DEF Edges
<1>11. Known BY <1>2, <1>3, <1>5 DEF Known
<1>12. Marked BY <1>2 DEF Marked
<1>13. Wealth(db) \in [Chars -> Nat] BY <1>7, WealthTotal
<1>14. Holder(db) \in [Items -> Chars \cup {None}]
  <2>1. \A x \in Items : Holder(db)[x] \in Chars \cup {None} BY DEF Holder, Holders
  <2> QED BY <2>1 DEF Holder
<1>15. Offers(db) = [x \in Items |-> {}]
  <2>1. \A x \in Items : Offers(db)[x] = {} BY <1>3, HasNothing
  <2> QED BY <2>1 DEF Offers
<1>16. Chars \ db.chars = {} BY <1>3
<1>17. Exchanged!Init BY <1>5, <1>13, <1>14, <1>15, <1>16 DEF Exchanged!Init
<1> QED BY <1>9, <1>10, <1>11, <1>12, <1>17 DEF Trading

\* The exchange takes a step, or none.
LEMMA NextExchanges ==
    ASSUME IInv, IInv', Trading, Calm, [Next]_vars
    PROVE  [Exchanged!Next]_(Exchanged!vars)
<1>1. CASE Now' = Now BY <1>1 DEF Exchanged!vars
<1>2. CASE Passes(Now, Now')
  <2>1. Now \in Databases /\ Sound(Now) BY Basics
  <2>2. Now' \in Databases /\ Sound(Now')
    <3>1. log' \in Seq(Databases) /\ log' # <<>> BY DEF IInv, TypeOK
    <3>2. 1 \in DOMAIN log' /\ Now' = log'[1] BY <3>1 DEF Now
    <3> QED BY <3>1, <3>2 DEF IInv
  <2> QED BY <1>2, <2>1, <2>2, PassesStep
<1> QED BY <1>1, <1>2, NextTrades

\* The database implements an exchange of goods, across crashes: an item on
\* sale passes to a buyer only in the step in which he pays the agreed price,
\* and nobody disposes of what is another's.
THEOREM ExchangeCorrect == Calm => (Spec => IsExchange)
<1> SUFFICES ASSUME Calm PROVE Spec => IsExchange OBVIOUS
<1>1. Init => Trading /\ Exchanged!Init BY InitTrades
<1>2. IInv /\ IInv' /\ Trading /\ [Next]_vars => Trading' BY NextTrades
<1>3. IInv /\ IInv' /\ Trading /\ [Next]_vars => [Exchanged!Next]_(Exchanged!vars)
  BY NextExchanges
<1>4. Spec => []IInv BY Invariant
<1> QED BY <1>1, <1>2, <1>3, <1>4, PTL DEF Spec, IsExchange, Exchanged!Spec
=============================================================================
