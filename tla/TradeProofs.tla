----------------------------- MODULE TradeProofs -----------------------------
(***************************************************************************)
(* Proofs about trades: the two halves of a trade belong together, an      *)
(* acceptance is one of the offers as they stand, money and items follow   *)
(* the offers, and nothing is doubled, for every finite set of players and *)
(* items, any number of slots and whatever the players do.                 *)
(***************************************************************************)
EXTENDS Trade, FiniteSetTheorems, WellFoundedInduction, TLAPS

-----------------------------------------------------------------------------
(* What holds of all the trades t there are, while the players h are in    *)
(* the world.                                                              *)

Typed(t) == t \in [Players -> TradeData \cup {None}]

PairedIn(t, h) ==
    \A p \in Players : t[p] # None =>
        /\ p # t[p].trader /\ p \in h /\ t[p].trader \in h
        /\ t[t[p].trader] # None /\ t[t[p].trader].trader = p

Stand(t) ==
    \A p \in Players : t[p] # None /\ t[p].accepted => t[p].seen = Both(t, p)

\* No item is in two slots.
Apart(items, S) == \A i, j \in S : i # j /\ items[i] = items[j] => items[i] = None

Singly(t) == \A p \in Players : t[p] # None => Apart(t[p].offer.items, Slots)

Good(t, h) == Typed(t) /\ PairedIn(t, h) /\ Stand(t) /\ Singly(t)

Counted ==
    /\ here \subseteq Players
    /\ gold \in [Players -> Nat]
    /\ \A p \in Players : rows[p].gold \in Nat
    /\ DOMAIN rows = Players

IInv == Counted /\ Good(trade, here)

\* What a player has, in the world or in the database.
Held(p) == inv[p] \cup rows[p].inv

Banked == [p \in Players |-> rows[p].gold]

\* Nothing is in two hands, and nobody has more money than the database says.
Owned ==
    /\ inv \in [Players -> SUBSET Items]
    /\ rows \in [Players -> [gold : Nat, inv : SUBSET Items]]
    /\ \A p, q \in Players : p # q => Held(p) \cap Held(q) = {}
    /\ \A p \in here : gold[p] <= rows[p].gold
    /\ Total(Banked) <= Total(StartGold)

-----------------------------------------------------------------------------
(* The operations of TradeData keep a good set of trades good.             *)

\* A trade of a good set: its fields, and its other half.
LEMMA Half ==
    ASSUME NEW t, NEW h, Typed(t), PairedIn(t, h), NEW p \in Players, t[p] # None
    PROVE  /\ t[p] \in TradeData /\ t[p].trader \in Players \ {p}
           /\ t[p].offer \in Offers /\ t[p].accepted \in BOOLEAN
           /\ p \in h /\ t[p].trader \in h
           /\ t[t[p].trader] \in TradeData /\ t[t[p].trader] # None
           /\ t[t[p].trader].trader = p /\ t[t[p].trader].offer \in Offers
<1>1. t[p] \in TradeData BY DEF Typed
<1>2. t[p].trader \in Players /\ t[p].offer \in Offers /\ t[p].accepted \in BOOLEAN
  BY <1>1 DEF TradeData
<1>3. /\ p # t[p].trader /\ p \in h /\ t[p].trader \in h
      /\ t[t[p].trader] # None /\ t[t[p].trader].trader = p
  BY DEF PairedIn
<1>4. t[t[p].trader] \in TradeData BY <1>2, <1>3 DEF Typed
<1>5. t[t[p].trader].offer \in Offers BY <1>4 DEF TradeData
<1> QED BY <1>1, <1>2, <1>3, <1>4, <1>5

\* What SetAccepted writes.
LEMMA AcceptedFields ==
    ASSUME NEW t, Typed(t), NEW p \in Players, t[p] \in TradeData, t[t[p].trader].offer \in Offers,
           NEW state \in BOOLEAN
    PROVE  LET u == SetAccepted(t, p, state)
           IN  /\ Typed(u)
               /\ \A r \in Players \ {p} : u[r] = t[r]
               /\ u[p] # None
               /\ u[p].trader = t[p].trader /\ u[p].offer = t[p].offer
               /\ u[p].accepted = state
               /\ state => u[p].seen = Both(t, p)
<1> DEFINE s == IF state THEN Both(t, p) ELSE None
           v == [trader |-> t[p].trader, offer |-> t[p].offer, accepted |-> state, seen |-> s]
           u == SetAccepted(t, p, state)
<1>1. t[p].trader \in Players /\ t[p].offer \in Offers BY DEF TradeData
<1>2. s \in (Offers \X Offers) \cup {None} BY <1>1 DEF Both
<1>3. v \in TradeData
  <2> HIDE DEF s
  <2> QED BY <1>1, <1>2 DEF TradeData
<1>4. u = [t EXCEPT ![p] = [[t[p] EXCEPT !.accepted = state] EXCEPT !.seen = s]]
  BY DEF SetAccepted, Typed
<1>5. [[t[p] EXCEPT !.accepted = state] EXCEPT !.seen = s] = v
  <2> HIDE DEF s
  <2> DEFINE w == [t[p] EXCEPT !.accepted = state]
  <2>1. /\ w \in TradeData /\ w.trader = t[p].trader /\ w.offer = t[p].offer
        /\ w.accepted = state
    BY DEF TradeData
  <2> HIDE DEF w
  <2>2. [w EXCEPT !.seen = s]
          = [trader |-> w.trader, offer |-> w.offer, accepted |-> w.accepted, seen |-> s]
    BY <2>1 DEF TradeData
  <2>3. [w EXCEPT !.seen = s] = v BY <2>1, <2>2
  <2> QED BY <2>3 DEF w
<1>6. u = [t EXCEPT ![p] = v]
  <2> HIDE DEF u, v, s
  <2> QED BY <1>4, <1>5
<1>7. Typed(u) /\ u[p] = v /\ \A r \in Players \ {p} : u[r] = t[r]
  <2> HIDE DEF u, v, s
  <2> QED BY <1>3, <1>6 DEF Typed
<1>8. u[p] # None
  <2> HIDE DEF u, v
  <2> QED BY <1>3, <1>7, NoneAssumption
<1>9. /\ u[p].trader = t[p].trader /\ u[p].offer = t[p].offer
      /\ u[p].accepted = state /\ u[p].seen = s
  <2> HIDE DEF u, s
  <2> QED BY <1>7
<1> HIDE DEF u
<1>10. state => u[p].seen = Both(t, p) BY <1>9
<1> QED BY <1>7, <1>8, <1>9, <1>10 DEF u

\* Two sets of trades with the same players and traders are paired alike.
LEMMA SamePairs ==
    ASSUME NEW t, NEW u, NEW h, Typed(t), PairedIn(t, h),
           \A r \in Players : (u[r] = None <=> t[r] = None) /\ (t[r] # None => u[r].trader = t[r].trader)
    PROVE  PairedIn(u, h)
<1> SUFFICES ASSUME NEW r \in Players, u[r] # None
             PROVE  /\ r # u[r].trader /\ r \in h /\ u[r].trader \in h
                    /\ u[u[r].trader] # None /\ u[u[r].trader].trader = r
  BY DEF PairedIn
<1>1. t[r] # None /\ u[r].trader = t[r].trader OBVIOUS
<1>2. /\ t[r].trader \in Players \ {r} /\ r \in h /\ t[r].trader \in h
      /\ t[t[r].trader] # None /\ t[t[r].trader].trader = r
  BY <1>1, Half
<1> QED BY <1>1, <1>2

\* A player accepts, or takes it back.
LEMMA SetAcceptedGood ==
    ASSUME NEW t, NEW h, Good(t, h), NEW p \in Players, t[p] # None, NEW state \in BOOLEAN
    PROVE  LET u == SetAccepted(t, p, state)
           IN  /\ Good(u, h)
               /\ u[p] # None /\ u[p].trader = t[p].trader
               /\ \A r \in Players : u[r] # None <=> t[r] # None
               /\ \A r \in Players : t[r] # None => u[r].trader = t[r].trader /\ u[r].offer = t[r].offer
<1> DEFINE u == SetAccepted(t, p, state)
<1>1. Typed(t) /\ PairedIn(t, h) /\ Stand(t) /\ Singly(t) BY DEF Good
<1>2. t[p] \in TradeData /\ t[t[p].trader].offer \in Offers BY <1>1, Half
<1>3. /\ Typed(u)
      /\ \A r \in Players \ {p} : u[r] = t[r]
      /\ u[p] # None
      /\ u[p].trader = t[p].trader /\ u[p].offer = t[p].offer
      /\ u[p].accepted = state
      /\ state => u[p].seen = Both(t, p)
  BY <1>1, <1>2, AcceptedFields
<1> HIDE DEF u
<1>4. \A r \in Players :
        /\ u[r] # None <=> t[r] # None
        /\ t[r] # None => u[r].trader = t[r].trader /\ u[r].offer = t[r].offer
  BY <1>3
<1>5. PairedIn(u, h) BY <1>1, <1>4, SamePairs
<1>6. Stand(u)
  <2> SUFFICES ASSUME NEW r \in Players, u[r] # None, u[r].accepted PROVE u[r].seen = Both(u, r)
    BY DEF Stand
  <2>1. t[r] # None BY <1>4
  <2>2. t[r].trader \in Players /\ t[t[r].trader] # None BY <1>1, <2>1, Half
  <2>3. Both(u, r) = Both(t, r) BY <1>4, <2>1, <2>2 DEF Both
  <2>4. CASE r = p BY <1>3, <2>3, <2>4
  <2>5. CASE r # p BY <1>1, <1>3, <2>1, <2>3, <2>5 DEF Stand
  <2> QED BY <2>4, <2>5
<1>7. Singly(u) BY <1>1, <1>4 DEF Singly
<1>8. Good(u, h) BY <1>3, <1>5, <1>6, <1>7 DEF Good
<1> QED BY <1>3, <1>4, <1>8 DEF u

\* The acceptances of a trade are taken back: then it does not matter what its
\* two offers were.
LEMMA TakenBackGood ==
    ASSUME NEW t, NEW h, Typed(t), PairedIn(t, h), Singly(t), NEW p \in Players, t[p] # None,
           \A r \in Players \ {p, t[p].trader} :
              t[r] # None /\ t[r].accepted => t[r].seen = Both(t, r)
    PROVE  LET u == TakenBack(t, p)
           IN  /\ Good(u, h)
               /\ u[p] # None /\ u[p].trader = t[p].trader
               /\ \A r \in Players : u[r] # None <=> t[r] # None
               /\ \A r \in Players : t[r] # None => u[r].trader = t[r].trader /\ u[r].offer = t[r].offer
<1>0. PICK no \in BOOLEAN : no = FALSE OBVIOUS
<1> DEFINE q == t[p].trader
           v == SetAccepted(t, p, no)
           u == SetAccepted(v, q, no)
<1>1. /\ t[p] \in TradeData /\ t[q].offer \in Offers /\ q \in Players \ {p}
      /\ t[q] \in TradeData /\ t[q].trader = p /\ t[p].offer \in Offers /\ t[q] # None
  BY Half
<1>2. /\ Typed(v) /\ \A r \in Players \ {p} : v[r] = t[r]
      /\ v[p] # None /\ v[p].trader = q /\ v[p].offer = t[p].offer /\ v[p].accepted = no
  BY <1>1, AcceptedFields
<1> HIDE DEF v, q
<1>3. v[q] = t[q] /\ v[q] \in TradeData /\ v[v[q].trader].offer \in Offers /\ v[q].trader = p
  BY <1>1, <1>2
<1>4. /\ Typed(u) /\ \A r \in Players \ {q} : u[r] = v[r]
      /\ u[q] # None /\ u[q].trader = v[q].trader /\ u[q].offer = v[q].offer /\ u[q].accepted = no
  BY <1>1, <1>2, <1>3, AcceptedFields
<1>5. u = TakenBack(t, p) BY <1>0 DEF u, v, q, TakenBack
<1> HIDE DEF u
<1>6. \A r \in Players \ {p, q} : u[r] = t[r] BY <1>2, <1>4
<1>7. /\ u[p] # None /\ u[p].trader = q /\ u[p].offer = t[p].offer /\ u[p].accepted = no
      /\ u[q] # None /\ u[q].trader = p /\ u[q].offer = t[q].offer /\ u[q].accepted = no
  BY <1>1, <1>2, <1>3, <1>4
<1>8. \A r \in Players :
        /\ u[r] # None <=> t[r] # None
        /\ t[r] # None => u[r].trader = t[r].trader /\ u[r].offer = t[r].offer
  <2> SUFFICES ASSUME NEW r \in Players
               PROVE  /\ u[r] # None <=> t[r] # None
                      /\ t[r] # None => u[r].trader = t[r].trader /\ u[r].offer = t[r].offer
    OBVIOUS
  <2>1. CASE r = p BY <1>7, <2>1 DEF q
  <2>2. CASE r = q BY <1>1, <1>7, <2>2
  <2>3. CASE r \notin {p, q} BY <1>6, <2>3
  <2> QED BY <2>1, <2>2, <2>3
<1>9. PairedIn(u, h) BY <1>8, SamePairs
<1>10. Stand(u)
  <2> SUFFICES ASSUME NEW r \in Players, u[r] # None, u[r].accepted PROVE u[r].seen = Both(u, r)
    BY DEF Stand
  <2>1. r \notin {p, q} BY <1>0, <1>7
  <2>2. u[r] = t[r] /\ t[r] # None BY <1>6, <2>1
  <2>3. t[r].trader \in Players /\ t[t[r].trader] # None BY <2>2, Half
  <2>4. Both(u, r) = Both(t, r) BY <1>8, <2>2, <2>3 DEF Both
  <2>5. t[r].seen = Both(t, r) BY <2>1, <2>2 DEF q
  <2> QED BY <2>2, <2>4, <2>5
<1>11. Singly(u) BY <1>8 DEF Singly
<1>12. Good(u, h) BY <1>4, <1>9, <1>10, <1>11 DEF Good
<1> QED BY <1>5, <1>7, <1>8, <1>12 DEF q

\* An offer is changed and the acceptances are taken back.
LEMMA OfferGood ==
    ASSUME NEW t, NEW h, Good(t, h), NEW p \in Players, t[p] # None,
           NEW w \in TradeData, w.trader = t[p].trader, Apart(w.offer.items, Slots)
    PROVE  LET u == TakenBack([t EXCEPT ![p] = w], p)
           IN  /\ Good(u, h)
               /\ u[p] # None /\ u[p].trader = t[p].trader
               /\ \A r \in Players : u[r] # None <=> t[r] # None
<1> DEFINE v == [t EXCEPT ![p] = w]
<1>1. Typed(t) /\ PairedIn(t, h) /\ Stand(t) /\ Singly(t) BY DEF Good
<1>2. t[p] \in TradeData /\ t[p].trader \in Players \ {p} BY <1>1, Half
<1>3. w # None BY NoneAssumption
<1>4. Typed(v) /\ v[p] = w /\ \A r \in Players \ {p} : v[r] = t[r] BY <1>1 DEF Typed
<1> HIDE DEF v
<1>5. \A r \in Players :
        (v[r] = None <=> t[r] = None) /\ (t[r] # None => v[r].trader = t[r].trader)
  BY <1>3, <1>4
<1>6. PairedIn(v, h) BY <1>1, <1>5, SamePairs
<1>7. ASSUME NEW r \in Players \ {p, v[p].trader}, v[r] # None, v[r].accepted
      PROVE  v[r].seen = Both(v, r)
  <2>1. r # p /\ r # t[p].trader /\ v[r] = t[r] /\ t[r] # None BY <1>4, <1>7
  <2>2. t[r].trader \in Players /\ t[t[r].trader].trader = r BY <1>1, <2>1, Half
  <2>3. t[r].trader # p BY <2>1, <2>2
  <2>4. Both(v, r) = Both(t, r) BY <1>4, <2>1, <2>2, <2>3 DEF Both
  <2>5. t[r].seen = Both(t, r) BY <1>1, <1>7, <2>1 DEF Stand
  <2> QED BY <2>1, <2>4, <2>5
<1>8. v[p] # None /\ v[p].trader = t[p].trader BY <1>3, <1>4
<1>9. Singly(v) BY <1>1, <1>4 DEF Singly
<1>10. LET u == TakenBack(v, p)
       IN  /\ Good(u, h)
           /\ u[p] # None /\ u[p].trader = v[p].trader
           /\ \A r \in Players : u[r] # None <=> v[r] # None
  BY <1>4, <1>6, <1>7, <1>8, <1>9, TakenBackGood
<1>11. LET u == TakenBack(v, p)
       IN  /\ Good(u, h)
           /\ u[p] # None /\ u[p].trader = t[p].trader
           /\ \A r \in Players : u[r] # None <=> t[r] # None
  BY <1>5, <1>8, <1>10
<1> QED BY <1>11 DEF v

\* TradeData::SetSpell.
LEMMA SetSpellGood ==
    ASSUME NEW t, NEW h, Good(t, h), NEW p \in Players, t[p] # None,
           NEW spell \in Spells \cup {None}
    PROVE  LET u == SetSpell(t, p, spell)
           IN  /\ Good(u, h)
               /\ u[p] # None /\ u[p].trader = t[p].trader
               /\ \A r \in Players : u[r] # None <=> t[r] # None
<1> DEFINE o == [t[p].offer EXCEPT !.spell = spell]
<1>1. Typed(t) /\ PairedIn(t, h) /\ Singly(t) BY DEF Good
<1>2. t[p] \in TradeData /\ t[p].offer \in Offers BY <1>1, Half
<1>3. o \in Offers /\ o.items = t[p].offer.items BY <1>2 DEF Offers
<1>4. [t EXCEPT ![p].offer.spell = spell] = [t EXCEPT ![p] = [t[p] EXCEPT !.offer = o]]
  BY <1>1, <1>2 DEF Typed
<1> DEFINE w == [t[p] EXCEPT !.offer = o]
           v == [t EXCEPT ![p] = w]
           u == TakenBack(v, p)
<1> HIDE DEF o
<1>5. w \in TradeData /\ w.trader = t[p].trader /\ w.offer = o BY <1>2, <1>3 DEF TradeData
<1>6. Apart(w.offer.items, Slots) BY <1>1, <1>3, <1>5 DEF Singly
<1> HIDE DEF w
<1>7. /\ Good(u, h)
      /\ u[p] # None /\ u[p].trader = t[p].trader
      /\ \A r \in Players : u[r] # None <=> t[r] # None
  BY <1>5, <1>6, OfferGood
<1> HIDE DEF v
<1>8. CASE t[p].offer.spell = spell BY <1>8 DEF SetSpell
<1>9. CASE t[p].offer.spell # spell
  <2>1. SetSpell(t, p, spell) = u BY <1>4, <1>9 DEF SetSpell, v, w
  <2> HIDE DEF u
  <2> QED BY <1>7, <2>1
<1> QED BY <1>8, <1>9

\* TradeData::SetMoney.
LEMMA SetMoneyGood ==
    ASSUME NEW t, NEW h, Good(t, h), NEW p \in Players, t[p] # None, NEW money \in Nat
    PROVE  Good(SetMoney(t, p, money), h)
<1> DEFINE o == [t[p].offer EXCEPT !.money = money]
<1>1. Typed(t) /\ PairedIn(t, h) /\ Singly(t) BY DEF Good
<1>2. t[p] \in TradeData /\ t[p].offer \in Offers BY <1>1, Half
<1>3. o \in Offers /\ o.items = t[p].offer.items BY <1>2 DEF Offers
<1>4. [t EXCEPT ![p].offer.money = money] = [t EXCEPT ![p] = [t[p] EXCEPT !.offer = o]]
  BY <1>1, <1>2 DEF Typed
<1> DEFINE w == [t[p] EXCEPT !.offer = o]
           v == [t EXCEPT ![p] = w]
           u == TakenBack(v, p)
<1> HIDE DEF o
<1>5. w \in TradeData /\ w.trader = t[p].trader /\ w.offer = o BY <1>2, <1>3 DEF TradeData
<1>6. Apart(w.offer.items, Slots) BY <1>1, <1>3, <1>5 DEF Singly
<1> HIDE DEF w
<1>7. /\ Good(u, h)
      /\ u[p] # None /\ u[p].trader = t[p].trader
      /\ \A r \in Players : u[r] # None <=> t[r] # None
  BY <1>5, <1>6, OfferGood
<1> HIDE DEF v
<1>8. Good(TakenBack([t EXCEPT ![p].offer.money = money], p), h) BY <1>4, <1>7 DEF v, w
<1>9. CASE t[p].offer.money = money \/ gold[p] < money BY <1>9 DEF SetMoney
<1>10. CASE ~(t[p].offer.money = money \/ gold[p] < money) BY <1>8, <1>10 DEF SetMoney
<1> QED BY <1>9, <1>10

\* TradeData::SetItem, with the spells it takes back.
LEMMA SetItemGood ==
    ASSUME NEW t, NEW h, Good(t, h), NEW p \in Players, t[p] # None,
           NEW slot \in Slots, NEW x \in Items \cup {None},
           x = None \/ \A k \in Slots : t[p].offer.items[k] # x
    PROVE  Good(SetItem(t, p, slot, x), h)
<1> DEFINE o == [t[p].offer EXCEPT !.items = [t[p].offer.items EXCEPT ![slot] = x]]
           put == TakenBack([t EXCEPT ![p].offer.items[slot] = x], p)
           his == IF slot = NonTraded THEN SetSpell(put, t[p].trader, None) ELSE put
           all == SetSpell(his, p, None)
<1>1. Typed(t) /\ PairedIn(t, h) /\ Singly(t) BY DEF Good
<1>2. /\ t[p] \in TradeData /\ t[p].offer \in Offers /\ t[p].trader \in Players \ {p}
      /\ t[t[p].trader] # None
  BY <1>1, Half
<1>3. o \in Offers /\ Apart(o.items, Slots)
  <2>1. t[p].offer.items \in [Slots -> Items \cup {None}] BY <1>2 DEF Offers
  <2>2. [t[p].offer.items EXCEPT ![slot] = x] \in [Slots -> Items \cup {None}] BY <2>1
  <2>3. Apart(t[p].offer.items, Slots) BY <1>1 DEF Singly
  <2>4. Apart([t[p].offer.items EXCEPT ![slot] = x], Slots) BY <2>1, <2>3 DEF Apart
  <2>5. o \in Offers /\ o.items = [t[p].offer.items EXCEPT ![slot] = x] BY <1>2, <2>2 DEF Offers
  <2> QED BY <2>4, <2>5
<1>4. [t EXCEPT ![p].offer.items[slot] = x] = [t EXCEPT ![p] = [t[p] EXCEPT !.offer = o]]
  BY <1>1, <1>2 DEF Typed
<1> DEFINE w == [t[p] EXCEPT !.offer = o]
           v == [t EXCEPT ![p] = w]
           u == TakenBack(v, p)
<1> HIDE DEF o
<1>5. w \in TradeData /\ w.trader = t[p].trader /\ w.offer = o BY <1>2, <1>3 DEF TradeData
<1>6. Apart(w.offer.items, Slots) BY <1>3, <1>5
<1> HIDE DEF w
<1>7. /\ Good(u, h)
      /\ u[p] # None /\ u[p].trader = t[p].trader
      /\ \A r \in Players : u[r] # None <=> t[r] # None
  BY <1>5, <1>6, OfferGood
<1> HIDE DEF v
<1>8. /\ Good(put, h) /\ put[p] # None /\ put[p].trader = t[p].trader
      /\ \A r \in Players : put[r] # None <=> t[r] # None
  <2>1. put = u BY <1>4 DEF v, w
  <2> HIDE DEF u, put
  <2> QED BY <1>7, <2>1
<1> HIDE DEF put
<1>9. Good(his, h) /\ his[p] # None
  <2>1. put[t[p].trader] # None BY <1>2, <1>8
  <2>2. LET k == SetSpell(put, t[p].trader, None)
        IN  Good(k, h) /\ \A r \in Players : k[r] # None <=> put[r] # None
    BY <1>2, <1>8, <2>1, SetSpellGood
  <2>3. CASE slot = NonTraded BY <1>8, <2>2, <2>3
  <2>4. CASE slot # NonTraded BY <1>8, <2>4
  <2> QED BY <2>3, <2>4
<1> HIDE DEF his
<1>10. Good(all, h) BY <1>9, SetSpellGood
<1>11. SetItem(t, p, slot, x) = IF t[p].offer.items[slot] = x THEN t ELSE all
  BY DEF SetItem, all, his, put
<1> HIDE DEF all
<1> QED BY <1>10, <1>11

\* Both objects are deleted: the other trades do not know them.
LEMMA ClosedGood ==
    ASSUME NEW h, Good(trade, here), h \subseteq Players, NEW p \in Players, trade[p] # None,
           here \ h \subseteq {p, trade[p].trader}
    PROVE  Good(Closed(p), h)
<1> DEFINE q == trade[p].trader
           u == Closed(p)
<1>1. Typed(trade) /\ PairedIn(trade, here) /\ Stand(trade) /\ Singly(trade) BY DEF Good
<1>2. q \in Players \ {p} /\ trade[q] # None /\ trade[q].trader = p BY <1>1, Half
<1>3. u = [trade EXCEPT ![p] = None, ![q] = None] BY DEF Closed
<1> HIDE DEF u, q
<1>4. Typed(u) BY <1>1, <1>2, <1>3 DEF Typed
<1>5. u[p] = None /\ u[q] = None /\ \A r \in Players \ {p, q} : u[r] = trade[r]
  BY <1>1, <1>2, <1>3 DEF Typed
<1>6. ASSUME NEW r \in Players, u[r] # None
      PROVE  /\ r # u[r].trader /\ r \in h /\ u[r].trader \in h
             /\ u[u[r].trader] # None /\ u[u[r].trader].trader = r
             /\ u[r] = trade[r] /\ Both(u, r) = Both(trade, r)
  <2>1. r \notin {p, q} /\ u[r] = trade[r] BY <1>5, <1>6
  <2>2. /\ trade[r].trader \in Players \ {r} /\ r \in here /\ trade[r].trader \in here
        /\ trade[trade[r].trader] # None /\ trade[trade[r].trader].trader = r
    BY <1>1, <1>6, <2>1, Half
  <2>3. trade[r].trader \notin {p, q} BY <1>2, <2>1, <2>2 DEF q
  <2>4. u[trade[r].trader] = trade[trade[r].trader] BY <1>5, <2>2, <2>3
  <2>5. r \in h /\ trade[r].trader \in h BY <2>1, <2>2, <2>3 DEF q
  <2> QED BY <2>1, <2>2, <2>4, <2>5 DEF Both
<1>7. PairedIn(u, h) BY <1>6 DEF PairedIn
<1>8. Stand(u) BY <1>1, <1>6 DEF Stand
<1>9. Singly(u) BY <1>1, <1>6 DEF Singly
<1>10. Good(u, h) BY <1>4, <1>7, <1>8, <1>9 DEF Good
<1> QED BY <1>10 DEF u

\* A trade begins.
LEMMA BegunGood ==
    ASSUME NEW t, NEW h, Good(t, h), h \subseteq Players, NEW p \in h, NEW q \in h \ {p},
           t[p] = None, t[q] = None
    PROVE  Good([t EXCEPT ![p] = NewTrade(q), ![q] = NewTrade(p)], h)
<1> DEFINE u == [t EXCEPT ![p] = NewTrade(q), ![q] = NewTrade(p)]
<1>1. Typed(t) /\ PairedIn(t, h) /\ Stand(t) /\ Singly(t) BY DEF Good
<1>2. ASSUME NEW r \in Players
      PROVE  /\ NewTrade(r) \in TradeData /\ NewTrade(r) # None
             /\ NewTrade(r).trader = r /\ NewTrade(r).accepted = FALSE
             /\ Apart(NewTrade(r).offer.items, Slots)
  <2> DEFINE o == [items |-> [s \in Slots |-> None], money |-> 0, spell |-> None]
  <2>1. o \in Offers /\ Apart(o.items, Slots) BY DEF Offers, Apart
  <2>2. NewTrade(r) = [trader |-> r, accepted |-> FALSE, seen |-> None, offer |-> o]
    BY DEF NewTrade
  <2> HIDE DEF o
  <2>3. NewTrade(r) \in TradeData BY <2>1, <2>2 DEF TradeData
  <2>4. NewTrade(r).trader = r /\ NewTrade(r).accepted = FALSE /\ NewTrade(r).offer = o BY <2>2
  <2> QED BY <2>1, <2>3, <2>4, NoneAssumption
<1>3. Typed(u) BY <1>1, <1>2 DEF Typed
<1>4. u[p] = NewTrade(q) /\ u[q] = NewTrade(p) /\ \A r \in Players \ {p, q} : u[r] = t[r]
  BY <1>1 DEF Typed
<1> HIDE DEF u
<1>5. /\ u[p] # None /\ u[p].trader = q /\ u[p].accepted = FALSE
      /\ u[q] # None /\ u[q].trader = p /\ u[q].accepted = FALSE
  BY <1>2, <1>4
<1>6. ASSUME NEW r \in Players \ {p, q}, u[r] # None
      PROVE  /\ r # u[r].trader /\ r \in h /\ u[r].trader \in h
             /\ u[u[r].trader] # None /\ u[u[r].trader].trader = r
             /\ u[r] = t[r] /\ Both(u, r) = Both(t, r)
  <2>1. u[r] = t[r] BY <1>4, <1>6
  <2>2. /\ t[r].trader \in Players \ {r} /\ r \in h /\ t[r].trader \in h
        /\ t[t[r].trader] # None /\ t[t[r].trader].trader = r
    BY <1>1, <1>6, <2>1, Half
  <2>3. u[t[r].trader] = t[t[r].trader] BY <1>4, <2>2
  <2> QED BY <2>1, <2>2, <2>3 DEF Both
<1>7. PairedIn(u, h)
  <2> SUFFICES ASSUME NEW r \in Players, u[r] # None
               PROVE  /\ r # u[r].trader /\ r \in h /\ u[r].trader \in h
                      /\ u[u[r].trader] # None /\ u[u[r].trader].trader = r
    BY DEF PairedIn
  <2>1. CASE r = p BY <1>5, <2>1
  <2>2. CASE r = q BY <1>5, <2>2
  <2>3. CASE r \in Players \ {p, q} BY <1>6, <2>3
  <2> QED BY <2>1, <2>2, <2>3
<1>8. Stand(u)
  <2> SUFFICES ASSUME NEW r \in Players, u[r] # None, u[r].accepted PROVE u[r].seen = Both(u, r)
    BY DEF Stand
  <2>1. r \in Players \ {p, q} BY <1>5
  <2> QED BY <1>1, <1>6, <2>1 DEF Stand
<1>9. Singly(u) BY <1>1, <1>2, <1>4 DEF Singly
<1>10. Good(u, h) BY <1>3, <1>7, <1>8, <1>9 DEF Good
<1> QED BY <1>10 DEF u

-----------------------------------------------------------------------------
(* Folds.  The library's induction theorems take a predicate; the least    *)
(* element of a set of numbers does as well.                               *)

\* A set of natural numbers that is not empty has a least element.
LEMMA NatMin ==
    ASSUME NEW T, T \subseteq Nat, T # {}
    PROVE  \E x \in T : \A y \in T : x <= y
<1>1. PICK R : R = OpToRel(<, Nat) OBVIOUS
<1>2. IsWellFoundedOn(R, Nat) BY <1>1, NatLessThanWellFounded
<1>3. ASSUME NEW x \in Nat, NEW y \in Nat, y < x PROVE <<y, x>> \in R
  BY <1>1, <1>3 DEF OpToRel
<1>4. PICK x \in T : \A y \in T : ~ (<<y, x>> \in R) BY <1>2, WFMin
<1>5. \A y \in T : ~ (y < x) BY <1>3, <1>4
<1> QED BY <1>5

\* Induction on the subsets of a finite set.
LEMMA SubsetInduct ==
    ASSUME NEW D, IsFiniteSet(D), NEW G,
           \A s \in SUBSET D : (\A x \in s : s \ {x} \in G) => s \in G
    PROVE  \A s \in SUBSET D : s \in G
<1> DEFINE T == {n \in Nat : \E s \in SUBSET D : Cardinality(s) = n /\ s \notin G}
<1>1. T = {}
  <2>1. SUFFICES ASSUME T # {} PROVE FALSE OBVIOUS
  <2>2. T \subseteq Nat OBVIOUS
  <2> HIDE DEF T
  <2>3. PICK n \in T : \A k \in T : n <= k BY <2>1, <2>2, NatMin
  <2>4. PICK s \in SUBSET D : Cardinality(s) = n /\ s \notin G BY <2>3 DEF T
  <2>5. n \in Nat BY <2>2, <2>3
  <2>6. PICK x \in s : s \ {x} \notin G BY <2>4
  <2>7. Cardinality(s \ {x}) = n - 1 /\ Cardinality(s \ {x}) \in Nat
    <3>1. IsFiniteSet(s) BY FS_Subset
    <3>2. IsFiniteSet(s \ {x}) BY <3>1, FS_RemoveElement
    <3> QED BY <2>4, <3>1, <3>2, FS_CardinalityType, FS_RemoveElement
  <2>8. n - 1 \notin T BY <2>3, <2>5, <2>7
  <2>9. s \ {x} \in SUBSET D OBVIOUS
  <2>10. s \ {x} \in G BY <2>7, <2>8, <2>9 DEF T
  <2> QED BY <2>6, <2>10
<1>2. \A s \in SUBSET D : Cardinality(s) \in Nat BY FS_Subset, FS_CardinalityType
<1> QED BY <1>1, <1>2

\* g[s] is what the step F makes of base when it takes the elements of s, the
\* one that ch gives last.
Folded(D, V, base, F, ch, g) ==
    /\ g \in [SUBSET D -> V]
    /\ \A s \in SUBSET D : g[s] = IF s = {} THEN base ELSE F[<<ch[s], g[s \ {ch[s]}]>>]

LEMMA FoldExists ==
    ASSUME NEW D, IsFiniteSet(D), NEW V, NEW base \in V, NEW F \in [D \X V -> V], NEW ch,
           \A s \in SUBSET D : s # {} => ch[s] \in s
    PROVE  \E g : Folded(D, V, base, F, ch, g)
<1> DEFINE Small(n) == {s \in SUBSET D : Cardinality(s) <= n}
           Val(g, s) == IF s = {} THEN base ELSE F[<<ch[s], g[s \ {ch[s]}]>>]
           Upto(g, n) == g \in [Small(n) -> V] /\ \A s \in Small(n) : g[s] = Val(g, s)
           T == {n \in Nat : ~ \E g : Upto(g, n)}
<1>1. ASSUME NEW s \in SUBSET D
      PROVE  /\ Cardinality(s) \in Nat /\ Cardinality(s) <= Cardinality(D)
             /\ s = {} <=> Cardinality(s) = 0
             /\ s # {} => /\ s \ {ch[s]} \in SUBSET D /\ ch[s] \in D
                          /\ Cardinality(s \ {ch[s]}) = Cardinality(s) - 1
  <2>1. IsFiniteSet(s) /\ Cardinality(s) <= Cardinality(D) BY FS_Subset
  <2>2. s # {} => ch[s] \in s OBVIOUS
  <2> QED BY <2>1, <2>2, FS_CardinalityType, FS_EmptySet, FS_RemoveElement
<1>2. T = {}
  <2>1. SUFFICES ASSUME T # {} PROVE FALSE OBVIOUS
  <2>2. T \subseteq Nat OBVIOUS
  <2> HIDE DEF T
  <2>3. PICK n \in T : \A k \in T : n <= k BY <2>1, <2>2, NatMin
  <2>4. n \in Nat /\ ~ \E g : Upto(g, n) BY <2>3 DEF T
  <2>5. CASE n = 0
    <3>1. ASSUME NEW s \in Small(0) PROVE s = {}
      <4>1. s \in SUBSET D /\ Cardinality(s) <= 0 OBVIOUS
      <4>2. Cardinality(s) \in Nat /\ (s = {} <=> Cardinality(s) = 0) BY <1>1, <4>1
      <4> QED BY <4>1, <4>2
    <3> DEFINE g == [s \in Small(0) |-> base]
    <3>2. g \in [Small(0) -> V] /\ \A s \in Small(0) : g[s] = base OBVIOUS
    <3> HIDE DEF g
    <3>3. Upto(g, 0) BY <3>1, <3>2
    <3> QED BY <2>4, <2>5, <3>3
  <2>6. CASE n # 0
    <3>1. n - 1 \in Nat /\ n - 1 \notin T BY <2>3, <2>4, <2>6
    <3>2. PICK g : Upto(g, n - 1) BY <3>1 DEF T
    <3> DEFINE h == [s \in Small(n) |-> Val(g, s)]
    <3>3. ASSUME NEW s \in Small(n), s # {}
          PROVE  /\ s \ {ch[s]} \in Small(n - 1) /\ s \ {ch[s]} \in Small(n)
                 /\ g[s \ {ch[s]}] \in V /\ ch[s] \in D
      <4>1. s \in SUBSET D /\ Cardinality(s) <= n OBVIOUS
      <4>2. /\ Cardinality(s) \in Nat /\ s \ {ch[s]} \in SUBSET D /\ ch[s] \in D
            /\ Cardinality(s \ {ch[s]}) = Cardinality(s) - 1
        BY <1>1, <3>3, <4>1
      <4>3. Cardinality(s \ {ch[s]}) <= n - 1 /\ Cardinality(s \ {ch[s]}) <= n
        BY <2>4, <4>1, <4>2
      <4>4. s \ {ch[s]} \in Small(n - 1) /\ s \ {ch[s]} \in Small(n) BY <4>2, <4>3
      <4> QED BY <3>2, <4>2, <4>4
    <3>4. \A s \in Small(n) : Val(g, s) \in V
      <4> SUFFICES ASSUME NEW s \in Small(n) PROVE Val(g, s) \in V
        OBVIOUS
      <4>1. CASE s = {} BY <4>1
      <4>2. CASE s # {}
        <5>1. <<ch[s], g[s \ {ch[s]}]>> \in D \X V BY <3>3, <4>2
        <5>2. F[<<ch[s], g[s \ {ch[s]}]>>] \in V BY <5>1
        <5> QED BY <4>2, <5>2
      <4> QED BY <4>1, <4>2
    <3>5. h \in [Small(n) -> V] BY <3>4
    <3>6. \A s \in Small(n - 1) : s \in Small(n)
      <4> SUFFICES ASSUME NEW s \in Small(n - 1) PROVE s \in Small(n)
        OBVIOUS
      <4>1. s \in SUBSET D /\ Cardinality(s) <= n - 1 OBVIOUS
      <4>2. Cardinality(s) \in Nat BY <1>1, <4>1
      <4> QED BY <2>4, <4>1, <4>2
    <3>7. \A s \in Small(n - 1) : h[s] = g[s] BY <3>2, <3>6
    <3>8. ASSUME NEW s \in Small(n) PROVE h[s] = Val(h, s)
      <4>1. h[s] = Val(g, s) OBVIOUS
      <4> HIDE DEF h
      <4>2. CASE s = {} BY <4>1, <4>2
      <4>3. CASE s # {} BY <3>3, <3>7, <4>1, <4>3
      <4> QED BY <4>2, <4>3
    <3> HIDE DEF h
    <3>9. Upto(h, n) BY <3>5, <3>8
    <3> QED BY <2>4, <3>9
  <2> QED BY <2>5, <2>6
<1>3. Cardinality(D) \in Nat BY FS_CardinalityType
<1>4. PICK g : Upto(g, Cardinality(D)) BY <1>2, <1>3
<1>5. Small(Cardinality(D)) = SUBSET D BY <1>1
<1>6. g \in [SUBSET D -> V] /\ \A s \in SUBSET D : g[s] = Val(g, s) BY <1>4, <1>5
<1> QED BY <1>6 DEF Folded

-----------------------------------------------------------------------------
(* Sums.                                                                   *)

Pick(s) == CHOOSE x \in s : TRUE

LEMMA PickIn == \A s : s # {} => Pick(s) \in s
BY Zenon DEF Pick

\* The values g[s] are the sums of f over the subsets s of its domain, added up
\* in the order in which Total adds them.
Adds(f, g) ==
    g = [s \in SUBSET DOMAIN f |-> IF s = {} THEN 0 ELSE f[Pick(s)] + g[s \ {Pick(s)}]]

LEMMA TotalIs ==
    ASSUME NEW f, NEW g, Adds(f, g)
    PROVE  \E h : Adds(f, h) /\ Total(f) = h[DOMAIN f]
BY Zenon DEF Adds, Pick, Total, MapThenSumSet, MapThenFoldSet

\* What the sums over the subsets of a set are made of.
Sums(D, f, h) ==
    /\ h[{}] = 0
    /\ \A s \in SUBSET D : h[s] \in Int
    /\ \A s \in SUBSET D : s # {} => h[s] = f[Pick(s)] + h[s \ {Pick(s)}]

LEMMA TotalAdds ==
    ASSUME NEW D, IsFiniteSet(D), NEW f \in [D -> Int]
    PROVE  \E h : Total(f) = h[D] /\ Sums(D, f, h)
<1> DEFINE F == [z \in D \X Int |-> f[z[1]] + z[2]]
           ch == [s \in SUBSET D |-> Pick(s)]
<1>1. F \in [D \X Int -> Int] /\ \A x \in D, v \in Int : F[<<x, v>>] = f[x] + v OBVIOUS
<1>2. \A s \in SUBSET D : ch[s] = Pick(s) /\ (s # {} => ch[s] \in s) BY PickIn
<1> HIDE DEF F, ch
<1>3. PICK base \in Int : base = 0 OBVIOUS
<1>4. PICK g : Folded(D, Int, base, F, ch, g)
  <2>1. PICK V : V = Int OBVIOUS
  <2>2. F \in [D \X V -> V] /\ base \in V BY <1>1, <2>1
  <2>3. \E g : Folded(D, V, base, F, ch, g) BY <1>2, <2>2, FoldExists
  <2> QED BY <2>1, <2>3
<1>5. ASSUME NEW s \in SUBSET D, s # {}
      PROVE  Pick(s) \in D /\ s \ {Pick(s)} \in SUBSET D /\ f[Pick(s)] \in Int
  BY <1>5, PickIn
<1>6. \A s \in SUBSET D : g[s] = IF s = {} THEN 0 ELSE f[Pick(s)] + g[s \ {Pick(s)}]
  <2> SUFFICES ASSUME NEW s \in SUBSET D
               PROVE  g[s] = IF s = {} THEN 0 ELSE f[Pick(s)] + g[s \ {Pick(s)}]
    OBVIOUS
  <2>1. CASE s = {} BY <1>3, <1>4, <2>1 DEF Folded
  <2>2. CASE s # {}
    <3>1. g[s] = F[<<Pick(s), g[s \ {Pick(s)}]>>] BY <1>2, <1>4, <2>2 DEF Folded
    <3>2. Pick(s) \in D /\ g[s \ {Pick(s)}] \in Int BY <1>4, <1>5, <2>2 DEF Folded
    <3> QED BY <1>1, <2>2, <3>1, <3>2
  <2> QED BY <2>1, <2>2
<1>7. Adds(f, g)
  <2>1. g \in [SUBSET D -> Int] /\ DOMAIN f = D BY <1>4 DEF Folded
  <2> QED BY <1>6, <2>1 DEF Adds
<1>8. PICK h : Adds(f, h) /\ Total(f) = h[D] BY <1>7, TotalIs
<1> DEFINE H == [s \in SUBSET D |-> IF s = {} THEN 0 ELSE f[Pick(s)] + h[s \ {Pick(s)}]]
           G == {s \in SUBSET D : h[s] \in Int}
<1>9. h = H BY <1>8 DEF Adds
<1>10. \A s \in SUBSET D : H[s] = IF s = {} THEN 0 ELSE f[Pick(s)] + h[s \ {Pick(s)}]
  OBVIOUS
<1> HIDE DEF H
<1>11. \A s \in SUBSET D : h[s] = IF s = {} THEN 0 ELSE f[Pick(s)] + h[s \ {Pick(s)}]
  BY <1>9, <1>10
<1>12. ASSUME NEW s \in SUBSET D, \A x \in s : s \ {x} \in G PROVE s \in G
  <2>1. CASE s = {}
    <3>1. h[s] = 0 BY <1>11, <2>1
    <3> QED BY <3>1
  <2>2. CASE s # {}
    <3>1. h[s \ {Pick(s)}] \in Int BY <1>12, <2>2, PickIn
    <3>2. h[s] \in Int BY <1>5, <1>11, <2>2, <3>1
    <3> QED BY <3>2
  <2> QED BY <2>1, <2>2
<1>13. \A s \in SUBSET D : s \in G
  <2> HIDE DEF G
  <2> QED BY <1>12, SubsetInduct
<1>14. Sums(D, f, h) BY <1>11, <1>13 DEF Sums
<1> QED BY <1>8, <1>14

\* Two of the values of a function change, or one.
Moved(D, f, e, p, a, q, b) ==
    \A r \in D : e[r] = f[r] + (IF r = p THEN a ELSE 0) + (IF r = q THEN b ELSE 0)

\* So does their sum.
LEMMA TotalMoves ==
    ASSUME NEW D, IsFiniteSet(D), NEW f \in [D -> Int], NEW e \in [D -> Int],
           NEW p \in D, NEW q \in D, NEW a \in Int, NEW b \in Int,
           Moved(D, f, e, p, a, q, b)
    PROVE  Total(f) \in Int /\ Total(e) = Total(f) + a + b
<1>1. PICK g : Total(f) = g[D] /\ Sums(D, f, g) BY TotalAdds
<1>2. PICK h : Total(e) = h[D] /\ Sums(D, e, h) BY TotalAdds
<1> DEFINE G == {s \in SUBSET D : h[s] = g[s] + (IF p \in s THEN a ELSE 0) + (IF q \in s THEN b ELSE 0)}
<1>3. ASSUME NEW s \in SUBSET D, \A x \in s : s \ {x} \in G PROVE s \in G
  <2>1. CASE s = {} BY <1>1, <1>2, <2>1 DEF Sums
  <2>2. CASE s # {}
    <3>1. PICK x \in s : x = Pick(s) BY <2>2, PickIn
    <3>2. PICK r \in SUBSET D : r = s \ {x} OBVIOUS
    <3>3. h[r] = g[r] + (IF p \in r THEN a ELSE 0) + (IF q \in r THEN b ELSE 0) BY <1>3, <3>2
    <3>4. h[s] = e[x] + h[r] /\ g[s] = f[x] + g[r] BY <1>1, <1>2, <2>2, <3>1, <3>2 DEF Sums
    <3>5. e[x] = f[x] + (IF x = p THEN a ELSE 0) + (IF x = q THEN b ELSE 0) BY DEF Moved
    <3>6. f[x] \in Int /\ g[r] \in Int BY <1>1 DEF Sums
    <3>7. (p \in s <=> p \in r \/ x = p) /\ (x = p => p \notin r) BY <3>2
    <3>8. (q \in s <=> q \in r \/ x = q) /\ (x = q => q \notin r) BY <3>2
    <3>9. h[s] = g[s] + (IF p \in s THEN a ELSE 0) + (IF q \in s THEN b ELSE 0)
      BY <3>3, <3>4, <3>5, <3>6, <3>7, <3>8
    <3> QED BY <3>9
  <2> QED BY <2>1, <2>2
<1>4. D \in G
  <2>1. \A s \in SUBSET D : (\A x \in s : s \ {x} \in G) => s \in G BY <1>3
  <2> HIDE DEF G
  <2> QED BY <2>1, SubsetInduct
<1>5. g[D] \in Int BY <1>1 DEF Sums
<1> QED BY <1>1, <1>2, <1>4, <1>5

-----------------------------------------------------------------------------
(* The exchange of the items.                                              *)

\* The slots whose items change hands, in order.
AllSlots == [slot \in 1 .. Traded |-> slot]

MovesTo(p, q, g) ==
    g = [s \in SUBSET DOMAIN AllSlots |->
           IF s = {} THEN [p |-> inv[p] \ Things(Handed(p)), q |-> inv[q] \ Things(Handed(q))]
           ELSE Move(Handed(p), Handed(q), g[s \ {Max(s)}], AllSlots[Max(s)])]

LEMMA MoveItemsIs ==
    ASSUME NEW p, NEW q, NEW g, MovesTo(p, q, g)
    PROVE  \E h : MovesTo(p, q, h) /\ MoveItems(p, q) = h[DOMAIN AllSlots]
BY Zenon DEF MovesTo, AllSlots, MoveItems, FoldLeft, MapThenFoldSet
LEMMA MaxIn == ASSUME NEW s \in SUBSET (1 .. Traded), s # {} PROVE Max(s) \in s
<1> DEFINE T == {Traded - x : x \in s}
<1>1. Traded \in Nat BY TradeAssumption
<1>2. T \subseteq Nat /\ T # {}
  <2>1. \A x \in s : x \in 1 .. Traded OBVIOUS
  <2>2. \A x \in s : Traded - x \in Nat BY <1>1, <2>1
  <2> QED BY <2>2
<1> HIDE DEF T
<1>3. PICK y \in T : \A z \in T : y <= z BY <1>2, NatMin
<1>4. PICK x \in s : y = Traded - x BY <1>3 DEF T
<1>5. ASSUME NEW z \in s PROVE x >= z
  <2>1. x \in 1 .. Traded /\ z \in 1 .. Traded OBVIOUS
  <2>2. Traded - z \in T BY DEF T
  <2>3. Traded - x <= Traded - z BY <1>3, <1>4, <2>2
  <2> QED BY <1>1, <2>1, <2>3
<1>6. \E m \in s : \A z \in s : m >= z BY <1>5
<1> QED BY <1>6, Zenon DEF Max

\* The items of some of the slots.
Of(handed, s) == {handed[k] : k \in s} \ {None}

\* A player who has the items A has room for those of the slots S.
Room(A, handed, S) ==
    /\ IsFiniteSet(A \cup Of(handed, S)) /\ Cardinality(A \cup Of(handed, S)) <= Space
    /\ A \cap Of(handed, S) = {} /\ Apart(handed, S)

\* The item of one more of the slots is stored.
StoresOne(A, handed, s, k) ==
    /\ Fits(A \cup Of(handed, s \ {k}), handed[k])
    /\ With(A \cup Of(handed, s \ {k}), handed[k]) = A \cup Of(handed, s)

LEMMA StoreOne ==
    ASSUME NEW A, NEW handed, NEW S, Room(A, handed, S), NEW s \in SUBSET S, NEW k \in s
    PROVE  StoresOne(A, handed, s, k)
<1>0. PICK B : B = A \cup Of(handed, S) OBVIOUS
<1> DEFINE held == A \cup Of(handed, s \ {k})
<1>1. /\ k \in S /\ Space \in Nat
      /\ IsFiniteSet(B) /\ Cardinality(B) <= Space /\ A \cap Of(handed, S) = {} /\ Apart(handed, S)
  BY <1>0, TradeAssumption DEF Room
<1>2. CASE handed[k] = None
  <2>1. held = A \cup Of(handed, s) BY <1>2 DEF Of
  <2> HIDE DEF held
  <2> QED BY <1>2, <2>1 DEF StoresOne, Fits, With, held
<1>3. CASE handed[k] # None
  <2>1. handed[k] \in B \ A BY <1>0, <1>1, <1>3 DEF Of
  <2>2. handed[k] \notin Of(handed, s \ {k}) BY <1>1, <1>3 DEF Of, Apart
  <2>3. held \in SUBSET B BY <1>0 DEF Of
  <2>4. held \cup {handed[k]} = A \cup Of(handed, s) BY <1>3 DEF Of
  <2>5. handed[k] \notin held BY <2>1, <2>2
  <2> HIDE DEF held
  <2>6. B # held BY <2>1, <2>5
  <2>7. IsFiniteSet(held) /\ Cardinality(held) <= Cardinality(B) /\ Cardinality(B) # Cardinality(held)
    BY <1>1, <2>3, <2>6, FS_Subset
  <2>8. Cardinality(B) \in Nat /\ Cardinality(held) \in Nat BY <1>1, <2>7, FS_CardinalityType
  <2>9. Cardinality(held) < Space BY <1>1, <2>7, <2>8
  <2> QED BY <1>3, <2>4, <2>9 DEF StoresOne, Fits, With, held
<1> QED BY <1>2, <1>3

\* With room for all of it on both sides, every slot is exchanged.
LEMMA MovesAll ==
    ASSUME NEW p \in Players, NEW q \in Players, inv \in [Players -> SUBSET Items],
           inv[p] \cap inv[q] = {}, CanStoreItems(p, q), CanStoreItems(q, p),
           Apart(trade[p].offer.items, 1 .. Traded), Apart(trade[q].offer.items, 1 .. Traded)
    PROVE  MoveItems(p, q) = [p |-> (inv[p] \ Things(Handed(p))) \cup Things(Handed(q)),
                              q |-> (inv[q] \ Things(Handed(q))) \cup Things(Handed(p))]
<1>0. PICK D : D = 1 .. Traded OBVIOUS
<1>1. PICK mine, his : mine = Handed(p) /\ his = Handed(q) OBVIOUS
<1>2. PICK A, C : A = inv[p] \ Things(mine) /\ C = inv[q] \ Things(his) OBVIOUS
<1>3. ASSUME NEW r \in Players, NEW handed, handed = Handed(r), Apart(trade[r].offer.items, 1 .. Traded)
      PROVE  /\ DOMAIN handed = D /\ Things(handed) = Of(handed, D)
             /\ \A k \in D : handed[k] \in inv[r] \cup {None}
             /\ Apart(handed, D)
             /\ Of(handed, D) \subseteq inv[r]
  <2>1. DOMAIN handed = D BY <1>0, <1>3 DEF Handed
  <2>2. \A k \in D : handed[k] = IF trade[r].offer.items[k] \in inv[r]
                                           THEN trade[r].offer.items[k] ELSE None
    BY <1>0, <1>3 DEF Handed, GetItem
  <2>3. \A k \in D : handed[k] \in inv[r] \cup {None} BY <2>2
  <2>4. Apart(handed, D) BY <1>0, <1>3, <2>2 DEF Apart
  <2> QED BY <2>1, <2>3, <2>4 DEF Things, Of
<1>4. /\ DOMAIN mine = D /\ Things(mine) = Of(mine, D)
      /\ \A k \in D : mine[k] \in inv[p] \cup {None}
      /\ Apart(mine, D) /\ Of(mine, D) \subseteq inv[p]
  BY <1>0, <1>1, <1>3
<1>5. /\ DOMAIN his = D /\ Things(his) = Of(his, D)
      /\ \A k \in D : his[k] \in inv[q] \cup {None}
      /\ Apart(his, D) /\ Of(his, D) \subseteq inv[q]
  BY <1>0, <1>1, <1>3
<1>6. A \cup Of(his, D) \subseteq Items /\ C \cup Of(mine, D) \subseteq Items
  BY <1>2, <1>4, <1>5
<1>7. IsFiniteSet(A \cup Of(his, D)) /\ IsFiniteSet(C \cup Of(mine, D))
  BY <1>6, TradeAssumption, FS_Subset
<1>8. /\ Cardinality(A \cup Of(his, D)) <= Space
      /\ Cardinality(C \cup Of(mine, D)) <= Space
  BY <1>1, <1>2, <1>4, <1>5 DEF CanStoreItems
<1>9. A \cap Of(his, D) = {} /\ C \cap Of(mine, D) = {}
  BY <1>2, <1>4, <1>5
<1> DEFINE base == [p |-> A, q |-> C]
           V == [p : SUBSET Items, q : SUBSET Items]
           F == [z \in D \X V |-> Move(mine, his, z[2], z[1])]
           ch == [s \in SUBSET D |-> Max(s)]
<1>10. IsFiniteSet(D) BY <1>0, TradeAssumption, FS_Interval
<1>11. base \in V BY <1>2
<1>12. ASSUME NEW k \in D, NEW st \in V PROVE Move(mine, his, st, k) \in V
  <2>1. st.p \in SUBSET Items /\ st.q \in SUBSET Items OBVIOUS
  <2>2. mine[k] \in Items \cup {None} /\ his[k] \in Items \cup {None} BY <1>4, <1>5
  <2> HIDE DEF V
  <2>3. ASSUME NEW held \in SUBSET Items, NEW x \in Items \cup {None} PROVE With(held, x) \in SUBSET Items
    BY DEF With
  <2>4. /\ With(st.p, his[k]) \in SUBSET Items /\ With(st.q, mine[k]) \in SUBSET Items
        /\ With(st.p, mine[k]) \in SUBSET Items /\ With(st.q, his[k]) \in SUBSET Items
    BY <2>1, <2>2, <2>3
  <2> QED BY <2>4 DEF Move, V
<1>13. F \in [D \X V -> V] /\ \A k \in D, st \in V : F[<<k, st>>] = Move(mine, his, st, k)
  <2> HIDE DEF V
  <2> QED BY <1>12
<1>14. \A s \in SUBSET D : ch[s] = Max(s) /\ (s # {} => ch[s] \in s) BY <1>0, MaxIn
<1> HIDE DEF F, ch, base, V
<1>15. PICK g : Folded(D, V, base, F, ch, g)
  <2> QED BY <1>10, <1>11, <1>13, <1>14, FoldExists
<1>16. \A s \in SUBSET D : g[s] = IF s = {} THEN base ELSE Move(mine, his, g[s \ {Max(s)}], AllSlots[Max(s)])
  <2> SUFFICES ASSUME NEW s \in SUBSET D
               PROVE  g[s] = IF s = {} THEN base ELSE Move(mine, his, g[s \ {Max(s)}], AllSlots[Max(s)])
    OBVIOUS
  <2>1. CASE s = {} BY <1>15, <2>1 DEF Folded
  <2>2. CASE s # {}
    <3>1. PICK k \in D : k = Max(s) BY <1>14, <2>2
    <3>2. g[s] = F[<<k, g[s \ {k}]>>] BY <1>14, <1>15, <2>2, <3>1 DEF Folded
    <3>3. g[s \ {k}] \in V BY <1>15 DEF Folded
    <3>4. AllSlots[k] = k BY <1>0 DEF AllSlots
    <3> QED BY <1>13, <2>2, <3>1, <3>2, <3>3, <3>4
  <2> QED BY <2>1, <2>2
<1>17. DOMAIN AllSlots = D BY <1>0 DEF AllSlots
<1>18. base = [p |-> inv[p] \ Things(Handed(p)), q |-> inv[q] \ Things(Handed(q))]
  BY <1>1, <1>2 DEF base
<1>19. MovesTo(p, q, g)
  <2>1. g \in [SUBSET D -> V] BY <1>15 DEF Folded
  <2> QED BY <1>1, <1>16, <1>17, <1>18, <2>1 DEF MovesTo
<1>20. PICK h : MovesTo(p, q, h) /\ MoveItems(p, q) = h[D] BY <1>17, <1>19, MoveItemsIs
<1> DEFINE H == [s \in SUBSET D |-> IF s = {} THEN base
                                     ELSE Move(mine, his, h[s \ {Max(s)}], AllSlots[Max(s)])]
           G == {s \in SUBSET D : h[s] = [p |-> A \cup Of(his, s), q |-> C \cup Of(mine, s)]}
<1>21. h = H BY <1>1, <1>17, <1>18, <1>20 DEF MovesTo
<1>22. \A s \in SUBSET D : H[s] = IF s = {} THEN base
                                  ELSE Move(mine, his, h[s \ {Max(s)}], AllSlots[Max(s)])
  OBVIOUS
<1> HIDE DEF H
<1>23. ASSUME NEW s \in SUBSET D, \A x \in s : s \ {x} \in G PROVE s \in G
  <2>1. CASE s = {}
    <3>1. Of(his, s) = {} /\ Of(mine, s) = {} BY <2>1 DEF Of
    <3>2. h[s] = base BY <1>21, <1>22, <2>1
    <3> QED BY <3>1, <3>2 DEF base
  <2>2. CASE s # {}
    <3>1. PICK k \in s : k = Max(s) BY <1>14, <2>2
    <3>2. AllSlots[k] = k BY <1>0 DEF AllSlots
    <3>3. h[s] = Move(mine, his, h[s \ {k}], k) BY <1>21, <1>22, <2>2, <3>1, <3>2
    <3>4. h[s \ {k}] = [p |-> A \cup Of(his, s \ {k}), q |-> C \cup Of(mine, s \ {k})] BY <1>23
    <3>5. StoresOne(A, his, s, k) /\ StoresOne(C, mine, s, k)
      <4>1. Room(A, his, D) /\ Room(C, mine, D) BY <1>4, <1>5, <1>7, <1>8, <1>9 DEF Room
      <4> QED BY <4>1, StoreOne
    <3>6. /\ Fits(A \cup Of(his, s \ {k}), his[k])
          /\ With(A \cup Of(his, s \ {k}), his[k]) = A \cup Of(his, s)
          /\ Fits(C \cup Of(mine, s \ {k}), mine[k])
          /\ With(C \cup Of(mine, s \ {k}), mine[k]) = C \cup Of(mine, s)
      BY <3>5 DEF StoresOne
    <3>7. PICK st : st = h[s \ {k}] OBVIOUS
    <3>8. st.p = A \cup Of(his, s \ {k}) /\ st.q = C \cup Of(mine, s \ {k}) BY <3>4, <3>7
    <3>9. Fits(st.q, mine[k]) /\ Fits(st.p, his[k]) BY <3>6, <3>8
    <3>10. Move(mine, his, st, k) = [p |-> With(st.p, his[k]), q |-> With(st.q, mine[k])]
      BY <3>9 DEF Move
    <3>11. h[s] = [p |-> A \cup Of(his, s), q |-> C \cup Of(mine, s)]
      BY <3>3, <3>6, <3>7, <3>8, <3>10
    <3> QED BY <3>11
  <2> QED BY <2>1, <2>2
<1>24. D \in G
  <2>1. \A s \in SUBSET D : (\A x \in s : s \ {x} \in G) => s \in G BY <1>23
  <2> HIDE DEF G
  <2>2. \A s \in SUBSET D : s \in G BY <1>10, <2>1, SubsetInduct
  <2>3. D \in SUBSET D OBVIOUS
  <2> QED BY <2>2, <2>3
<1>25. h[D] = [p |-> A \cup Of(his, D), q |-> C \cup Of(mine, D)] BY <1>24
<1> QED BY <1>1, <1>2, <1>4, <1>5, <1>20, <1>25

-----------------------------------------------------------------------------
(* The invariant is inductive.                                             *)

LEMMA InitInv == Init => IInv
<1> SUFFICES ASSUME Init PROVE IInv
  OBVIOUS
<1>1. Counted BY TradeAssumption DEF Init, Counted
<1>2. \A p \in Players : trade[p] = None BY DEF Init
<1>3. Typed(trade) BY DEF Init, Typed
<1>4. PairedIn(trade, here) /\ Stand(trade) /\ Singly(trade) BY <1>2 DEF PairedIn, Stand, Singly
<1> QED BY <1>1, <1>3, <1>4 DEF IInv, Good

\* The handlers that change an offer or an acceptance and nothing else.
LEMMA OfferSteps ==
    ASSUME IInv, NEW p \in Players, UNCHANGED <<here, gold, inv, rows>>,
           \/ \E q \in Players : Initiate(p, q) \/ AcceptSpellFails(p, q)
           \/ \E money \in 0 .. gold[p] : SetTradeGold(p, money)
           \/ \E slot \in Slots : ClearTradeItem(p, slot) \/ \E x \in Items : SetTradeItem(p, slot, x)
           \/ \E spell \in Spells : CastOnTrade(p, spell)
           \/ Unaccept(p) \/ TradeCancel(p)
           \/ AcceptRefused(p) \/ AcceptWaits(p) \/ AcceptNoSpace(p)
    PROVE  IInv'
<1>1. Counted /\ Good(trade, here) BY DEF IInv
<1>2. Typed(trade) /\ PairedIn(trade, here) /\ Stand(trade) /\ Singly(trade) BY <1>1 DEF Good
<1>3. Counted' BY <1>1 DEF Counted
<1>4. here' = here OBVIOUS
<1>5. SUFFICES Good(trade', here) BY <1>3, <1>4 DEF IInv, Good, Typed, PairedIn, Stand, Singly, Apart, Both
<1> DEFINE q == trade[p].trader
<1>6. trade[p] # None => q \in Players \ {p} /\ trade[q] # None BY <1>2, Half
<1>7. ASSUME trade[p] # None
      PROVE  /\ Good(SetAccepted(trade, p, FALSE), here)
             /\ Good(Accepted(p), here) /\ Accepted(p)[p] # None /\ Accepted(p)[q] # None
             /\ Good(SetAccepted(Accepted(p), q, FALSE), here)
  <2>1. PICK no \in BOOLEAN, yes \in BOOLEAN : no = FALSE /\ yes = TRUE OBVIOUS
  <2>2. Good(SetAccepted(trade, p, no), here) BY <1>1, <1>7, SetAcceptedGood
  <2> DEFINE u == SetAccepted(trade, p, yes)
  <2>3. Good(u, here) /\ u[p] # None /\ \A r \in Players : u[r] # None <=> trade[r] # None
    BY <1>1, <1>7, SetAcceptedGood
  <2> HIDE DEF u
  <2>4. u[q] # None BY <1>6, <1>7, <2>3
  <2> HIDE DEF q
  <2>5. Good(SetAccepted(u, q, no), here) BY <1>6, <1>7, <2>3, <2>4, SetAcceptedGood
  <2>6. u = Accepted(p) BY <2>1 DEF u, Accepted
  <2> QED BY <2>1, <2>2, <2>3, <2>4, <2>5, <2>6
<1>8. CASE \E r \in Players : Initiate(p, r)
  <2>1. PICK r \in Players : Initiate(p, r) BY <1>8
  <2>2. /\ p \in here /\ r \in here \ {p} /\ trade[p] = None /\ trade[r] = None
        /\ trade' = [trade EXCEPT ![p] = NewTrade(r), ![r] = NewTrade(p)]
    BY <2>1 DEF Initiate
  <2> QED BY <1>1, <2>2, BegunGood DEF Counted
<1>9. CASE \E c \in Players : AcceptSpellFails(p, c)
  <2>1. PICK c \in Players : AcceptSpellFails(p, c) BY <1>9
  <2>2. trade[p] # None /\ c \in {p, q} /\ trade' = SetSpell(Accepted(p), c, None)
    BY <2>1 DEF AcceptSpellFails, AcceptEnds
  <2>3. Accepted(p)[c] # None BY <1>7, <2>2
  <2> HIDE DEF q
  <2> QED BY <1>7, <2>2, <2>3, SetSpellGood
<1>10. CASE \E money \in 0 .. gold[p] : SetTradeGold(p, money)
  <2>1. PICK money \in 0 .. gold[p] : SetTradeGold(p, money) BY <1>10
  <2>2. trade[p] # None /\ trade' = SetMoney(trade, p, money) /\ money \in Nat
    BY <1>1, <2>1 DEF SetTradeGold, Counted
  <2> QED BY <1>1, <2>2, SetMoneyGood
<1>11. CASE \E slot \in Slots : ClearTradeItem(p, slot) \/ \E x \in Items : SetTradeItem(p, slot, x)
  <2>1. PICK slot \in Slots, x \in Items \cup {None} :
           /\ trade[p] # None /\ trade' = SetItem(trade, p, slot, x)
           /\ x = None \/ \A k \in Slots : trade[p].offer.items[k] # x
    BY <1>11 DEF ClearTradeItem, SetTradeItem
  <2> QED BY <1>1, <2>1, SetItemGood
<1>12. CASE \E spell \in Spells : CastOnTrade(p, spell)
  <2>1. PICK spell \in Spells : trade[p] # None /\ trade' = SetSpell(trade, p, spell)
    BY <1>12 DEF CastOnTrade
  <2> QED BY <1>1, <2>1, SetSpellGood
<1>13. CASE Unaccept(p) BY <1>7, <1>13 DEF Unaccept
<1>14. CASE TradeCancel(p)
  <2>1. trade[p] # None /\ trade' = Closed(p) BY <1>14 DEF TradeCancel
  <2> QED BY <1>1, <2>1, ClosedGood DEF Counted
<1>15. CASE AcceptRefused(p)
  <2>1. trade[p] # None /\ trade' = MoneyRefused(p) /\ MoneyRefused(p) # None
    BY <1>15 DEF AcceptRefused, AcceptEnds
  <2>2. MoneyRefused(p) \in {SetAccepted(trade, p, FALSE), SetAccepted(Accepted(p), q, FALSE)}
    BY <2>1 DEF MoneyRefused
  <2> QED BY <1>7, <2>1, <2>2
<1>16. CASE AcceptWaits(p) BY <1>7, <1>16 DEF AcceptWaits, AcceptEnds
<1>17. CASE AcceptNoSpace(p)
  <2>1. trade[p] # None /\ trade' = TakenBack(trade, p) BY <1>17 DEF AcceptNoSpace, AcceptEnds
  <2> QED BY <1>2, <2>1, TakenBackGood DEF Stand
<1> QED BY <1>8, <1>9, <1>10, <1>11, <1>12, <1>13, <1>14, <1>15, <1>16, <1>17

\* The money of a trade that is executed: both can pay, and nothing is made.
LEMMA Paid ==
    ASSUME IInv, NEW p \in Players, AcceptTrade(p)
    PROVE  LET q == trade[p].trader
               mine == trade[p].offer.money
               his == trade[q].offer.money
           IN  /\ trade[p] # None /\ trade[q].accepted
               /\ mine \in Nat /\ his \in Nat /\ mine <= gold[p] /\ his <= gold[q]
               /\ gold' \in [Players -> Nat]
               /\ gold'[p] = gold[p] - mine + his /\ gold'[q] = gold[q] - his + mine
<1> DEFINE q == trade[p].trader
           mine == trade[p].offer.money
           his == trade[q].offer.money
<1>1. Counted /\ Typed(trade) /\ PairedIn(trade, here) BY DEF IInv, Good
<1>2. /\ trade[p] # None /\ trade[q].accepted /\ MoneyRefused(p) = None
      /\ gold' = [gold EXCEPT ![p] = @ - mine + his, ![q] = @ - his + mine]
  BY DEF AcceptTrade
<1>3. /\ q \in Players \ {p} /\ trade[p].offer \in Offers /\ trade[q].offer \in Offers
      /\ trade[p] \in TradeData /\ trade[q] \in TradeData /\ trade[q].trader = p
  BY <1>1, <1>2, Half
<1>4. mine \in Nat /\ his \in Nat BY <1>3 DEF Offers
<1>5. mine <= gold[p] /\ his <= gold[q]
  <2> DEFINE no == SetAccepted(trade, p, FALSE)
             hisNo == SetAccepted(Accepted(p), q, FALSE)
  <2>1. no # None /\ hisNo # None
    <3>1. PICK f \in BOOLEAN, t \in BOOLEAN : f = FALSE /\ t = TRUE OBVIOUS
    <3>2. Typed(SetAccepted(trade, p, f)) BY <1>1, <1>3, AcceptedFields
    <3> DEFINE u == SetAccepted(trade, p, t)
    <3>3. Good(u, here) /\ \A r \in Players : u[r] # None <=> trade[r] # None
      BY <1>2, SetAcceptedGood DEF IInv
    <3> HIDE DEF u
    <3>4. u[q] # None BY <1>1, <1>2, <3>3, Half
    <3> HIDE DEF q
    <3>5. Typed(SetAccepted(u, q, f)) BY <1>3, <3>3, <3>4, SetAcceptedGood DEF Good
    <3>6. u = Accepted(p) BY <3>1 DEF u, Accepted
    <3>7. Typed(no) /\ Typed(hisNo) BY <3>1, <3>2, <3>5, <3>6
    <3> QED BY <3>7, NoneAssumption DEF Typed
  <2> HIDE DEF no, hisNo
  <2>2. MoneyRefused(p) = IF gold[p] < mine THEN no
                          ELSE IF gold[q] < his THEN hisNo
                          ELSE IF gold[p] >= MaxMoney - his THEN no
                          ELSE IF gold[q] >= MaxMoney - mine THEN hisNo
                          ELSE None
    BY DEF MoneyRefused, no, hisNo
  <2> HIDE DEF mine, his, q
  <2>3. ~(gold[p] < mine) /\ ~(gold[q] < his) BY <1>2, <2>1, <2>2
  <2> QED BY <1>1, <1>3, <1>4, <2>3 DEF Counted
<1> HIDE DEF mine, his, q
<1>6. gold'[p] = gold[p] - mine + his /\ gold'[q] = gold[q] - his + mine
  BY <1>1, <1>2, <1>3 DEF Counted
<1>7. gold' \in [Players -> Nat]
  <2>1. gold[p] - mine + his \in Nat /\ gold[q] - his + mine \in Nat
    BY <1>1, <1>3, <1>4, <1>5 DEF Counted
  <2> QED BY <1>1, <1>2, <1>3, <2>1 DEF Counted
<1> QED BY <1>2, <1>4, <1>5, <1>6, <1>7 DEF mine, his, q

\* The trade is executed.
LEMMA TradeStep == ASSUME IInv, NEW p \in Players, AcceptTrade(p) PROVE IInv'
<1> DEFINE q == trade[p].trader
<1>1. Counted /\ Good(trade, here) BY DEF IInv
<1>2. gold' \in [Players -> Nat] /\ trade[p] # None BY Paid
<1>3. here' = here /\ trade' = Closed(p) /\ rows' = Saved(p, q) BY DEF AcceptTrade
<1>4. Counted'
  <2>1. DOMAIN rows' = Players BY <1>3 DEF Saved
  <2>2. \A r \in Players : rows'[r].gold \in {gold'[r], rows[r].gold} BY <1>3 DEF Saved
  <2> QED BY <1>1, <1>2, <1>3, <2>1, <2>2 DEF Counted
<1>5. Good(trade', here') BY <1>1, <1>2, <1>3, ClosedGood DEF Counted
<1> QED BY <1>4, <1>5 DEF IInv, Good, Typed, PairedIn, Stand, Singly, Apart, Both

\* The steps that leave the trades alone.
LEMMA OtherSteps ==
    ASSUME IInv, NEW p \in Players,
           Spend(p) \/ Login(p) \/ \E x \in Items : ItemLeaves(p, x) \/ ItemComes(p, x)
    PROVE  IInv'
<1>1. Counted /\ Good(trade, here) BY DEF IInv
<1>2. trade' = trade /\ here \subseteq here' BY DEF Spend, Login, ItemLeaves, ItemComes
<1>3. Counted'
  <2>1. CASE Spend(p)
    <3>1. gold[p] \in Nat /\ gold[p] - 1 \in Nat BY <1>1, <2>1 DEF Counted, Spend
    <3> QED BY <1>1, <2>1, <3>1 DEF Counted, Spend
  <2>2. CASE Login(p) BY <1>1, <2>2 DEF Counted, Login
  <2>3. CASE \E x \in Items : ItemLeaves(p, x) \/ ItemComes(p, x)
    BY <1>1, <2>3 DEF Counted, ItemLeaves, ItemComes
  <2> QED BY <2>1, <2>2, <2>3
<1>4. Good(trade', here') BY <1>1, <1>2 DEF Good, PairedIn
<1> QED BY <1>3, <1>4 DEF IInv, Good, Typed, PairedIn, Stand, Singly, Apart, Both

\* A player leaves the world.
LEMMA LogoutStep == ASSUME IInv, NEW p \in Players, Logout(p) PROVE IInv'
<1>1. Counted /\ Good(trade, here) BY DEF IInv
<1>2. Counted' BY <1>1 DEF Counted, Logout
<1>3. here' = here \ {p} BY DEF Logout
<1>4. CASE trade[p] = None
  <2>1. trade' = trade BY <1>4 DEF Logout
  <2>2. Typed(trade) /\ PairedIn(trade, here) /\ Stand(trade) /\ Singly(trade) BY <1>1 DEF Good
  <2>3. PairedIn(trade, here')
    <3> SUFFICES ASSUME NEW r \in Players, trade[r] # None
                 PROVE  r # p /\ trade[r].trader # p
      BY <1>3, <2>2 DEF PairedIn
    <3>1. trade[trade[r].trader] # None BY <2>2 DEF PairedIn
    <3> QED BY <1>4, <3>1
  <2> QED BY <1>2, <2>1, <2>2, <2>3 DEF IInv, Good, Typed, PairedIn, Stand, Singly, Apart, Both
<1>5. CASE trade[p] # None
  <2>1. trade' = Closed(p) BY <1>5 DEF Logout
  <2>2. Good(trade', here') BY <1>1, <1>3, <1>5, <2>1, ClosedGood DEF Counted
  <2> QED BY <1>2, <2>2 DEF IInv, Good, Typed, PairedIn, Stand, Singly, Apart, Both
<1> QED BY <1>4, <1>5

LEMMA CrashStep == ASSUME IInv, Crash PROVE IInv'
<1>1. Counted' BY DEF IInv, Counted, Crash
<1>2. \A p \in Players : trade'[p] = None BY DEF Crash
<1>3. Typed(trade') BY DEF Crash, Typed
<1>4. PairedIn(trade', here') /\ Stand(trade') /\ Singly(trade') BY <1>2 DEF PairedIn, Stand, Singly
<1> QED BY <1>1, <1>3, <1>4 DEF IInv, Good, Typed, PairedIn, Stand, Singly, Apart, Both

LEMMA NextInv == ASSUME IInv, [Next]_vars PROVE IInv'
<1>1. CASE \E p \in Players :
             \/ \E q \in Players : Initiate(p, q) \/ AcceptSpellFails(p, q)
             \/ \E money \in 0 .. gold[p] : SetTradeGold(p, money)
             \/ \E slot \in Slots : ClearTradeItem(p, slot) \/ \E x \in Items : SetTradeItem(p, slot, x)
             \/ \E spell \in Spells : CastOnTrade(p, spell)
             \/ Unaccept(p) \/ TradeCancel(p)
             \/ AcceptRefused(p) \/ AcceptWaits(p) \/ AcceptNoSpace(p)
  <2>1. UNCHANGED <<here, gold, inv, rows>>
    BY <1>1 DEF Initiate, AcceptSpellFails, SetTradeGold, ClearTradeItem, SetTradeItem, CastOnTrade,
                Unaccept, TradeCancel, AcceptRefused, AcceptWaits, AcceptNoSpace, AcceptEnds
  <2> QED BY <1>1, <2>1, OfferSteps
<1>2. CASE \E p \in Players : AcceptTrade(p) BY <1>2, TradeStep
<1>3. CASE \E p \in Players :
             Spend(p) \/ Login(p) \/ \E x \in Items : ItemLeaves(p, x) \/ ItemComes(p, x)
  BY <1>3, OtherSteps
<1>4. CASE \E p \in Players : Logout(p) BY <1>4, LogoutStep
<1>5. CASE Crash BY <1>5, CrashStep
<1>6. CASE UNCHANGED vars
  BY <1>6 DEF vars, IInv, Counted, Good, Typed, PairedIn, Stand, Singly, Apart, Both
<1> QED BY <1>1, <1>2, <1>3, <1>4, <1>5, <1>6 DEF Next

LEMMA Invariance == Spec => []IInv
BY InitInv, NextInv, PTL DEF Spec

-----------------------------------------------------------------------------
(* What the players have.                                                  *)

\* What a player hands over are the items of his slots that he still has.
LEMMA HandedIs ==
    ASSUME NEW p \in Players, inv \in [Players -> SUBSET Items]
    PROVE  Things(Handed(p)) = {trade[p].offer.items[s] : s \in 1 .. Traded} \cap inv[p]
<1>1. PICK handed : handed = Handed(p) OBVIOUS
<1>2. PICK items : items = trade[p].offer.items OBVIOUS
<1>3. DOMAIN handed = 1 .. Traded BY <1>1 DEF Handed
<1>4. \A k \in 1 .. Traded : handed[k] = IF items[k] \in inv[p] THEN items[k] ELSE None
  BY <1>1, <1>2 DEF Handed, GetItem
<1>5. None \notin inv[p] BY TradeAssumption
<1>6. Things(handed) = {items[s] : s \in 1 .. Traded} \cap inv[p] BY <1>3, <1>4, <1>5 DEF Things
<1> QED BY <1>1, <1>2, <1>6

\* The items of a trade that is executed: CanStoreItems was asked of both, so
\* moveItems puts nothing back.
LEMMA Exchanged ==
    ASSUME IInv, Owned, NEW p \in Players, AcceptTrade(p)
    PROVE  LET q == trade[p].trader
               mine == Things(Handed(p))
               his == Things(Handed(q))
           IN  /\ q \in Players \ {p} /\ p \in here /\ q \in here
               /\ mine \subseteq inv[p] /\ his \subseteq inv[q]
               /\ inv' \in [Players -> SUBSET Items]
               /\ inv'[p] = (inv[p] \ mine) \cup his
               /\ inv'[q] = (inv[q] \ his) \cup mine
               /\ \A r \in Players \ {p, q} : inv'[r] = inv[r]
<1> DEFINE q == trade[p].trader
           mine == Things(Handed(p))
           his == Things(Handed(q))
<1>1. /\ Counted /\ Typed(trade) /\ PairedIn(trade, here) /\ Singly(trade)
      /\ inv \in [Players -> SUBSET Items]
  BY DEF IInv, Good, Owned
<1>2. /\ trade[p] # None /\ CanStoreItems(p, q) /\ CanStoreItems(q, p)
      /\ inv' = [inv EXCEPT ![p] = MoveItems(p, q).p, ![q] = MoveItems(p, q).q]
  BY DEF AcceptTrade
<1>3. q \in Players \ {p} /\ trade[q] # None /\ p \in here /\ q \in here BY <1>1, <1>2, Half
<1>4. inv[p] \cap inv[q] = {} BY <1>3 DEF Owned, Held
<1>5. Apart(trade[p].offer.items, 1 .. Traded) /\ Apart(trade[q].offer.items, 1 .. Traded)
  <2>1. 1 .. Traded \subseteq Slots BY TradeAssumption DEF Slots, NonTraded
  <2>2. Apart(trade[p].offer.items, Slots) /\ Apart(trade[q].offer.items, Slots)
    BY <1>1, <1>2, <1>3 DEF Singly
  <2> QED BY <2>1, <2>2 DEF Apart
<1>6. mine \subseteq inv[p] /\ his \subseteq inv[q] BY <1>1, <1>3, HandedIs
<1>7. MoveItems(p, q) = [p |-> (inv[p] \ mine) \cup his, q |-> (inv[q] \ his) \cup mine]
  <2> HIDE DEF q
  <2> QED BY <1>1, <1>2, <1>3, <1>4, <1>5, MovesAll
<1> HIDE DEF mine, his, q
<1>8. inv' = [inv EXCEPT ![p] = (inv[p] \ mine) \cup his, ![q] = (inv[q] \ his) \cup mine]
  BY <1>2, <1>7
<1>9. (inv[p] \ mine) \cup his \in SUBSET Items /\ (inv[q] \ his) \cup mine \in SUBSET Items
  BY <1>1, <1>3, <1>6
<1>10. /\ inv' \in [Players -> SUBSET Items]
       /\ inv'[p] = (inv[p] \ mine) \cup his
       /\ inv'[q] = (inv[q] \ his) \cup mine
       /\ \A r \in Players \ {p, q} : inv'[r] = inv[r]
  BY <1>1, <1>3, <1>8, <1>9
<1> QED BY <1>3, <1>6, <1>10 DEF mine, his, q

LEMMA InitOwned == Init => Owned
<1> SUFFICES ASSUME Init PROVE Owned
  OBVIOUS
<1>1. inv \in [Players -> SUBSET Items] /\ \A p \in Players : inv[p] = {} BY DEF Init
<1>2. \A p \in Players : rows[p].gold = StartGold[p] /\ rows[p].inv = StartItems[p] BY DEF Init
<1>3. rows \in [Players -> [gold : Nat, inv : SUBSET Items]] BY TradeAssumption DEF Init
<1>4. \A p, q \in Players : p # q => Held(p) \cap Held(q) = {}
  BY <1>1, <1>2, TradeAssumption DEF Held
<1>5. Banked = StartGold BY <1>2, TradeAssumption DEF Banked
<1>6. Total(StartGold) <= Total(StartGold)
  <2>1. StartGold \in [Players -> Int] /\ IsFiniteSet(Players) BY TradeAssumption
  <2>2. PICK h : Total(StartGold) = h[Players] /\ Sums(Players, StartGold, h) BY <2>1, TotalAdds
  <2>3. h[Players] \in Int BY <2>2 DEF Sums
  <2> QED BY <2>2, <2>3
<1>7. here = {} BY DEF Init
<1> QED BY <1>1, <1>3, <1>4, <1>5, <1>6, <1>7 DEF Owned

\* The money of the database is no more than it was, if that of two players is
\* no more together.
LEMMA BankedMoves ==
    ASSUME Owned, NEW p \in Players, NEW q \in Players, NEW a \in Int, NEW b \in Int, a + b <= 0,
           Moved(Players, Banked, Banked', p, a, q, b)
    PROVE  Total(Banked') <= Total(StartGold)
<1>1. PICK f : f = Banked OBVIOUS
<1>2. PICK e : e = Banked' OBVIOUS
<1>3. \A r \in Players : rows[r].gold \in Nat BY DEF Owned
<1>4. f \in [Players -> Int] /\ \A r \in Players : f[r] = rows[r].gold BY <1>1, <1>3 DEF Banked
<1>5. Moved(Players, f, e, p, a, q, b) BY <1>1, <1>2
<1>6. e \in [Players -> Int]
  <2>1. \A r \in Players : e[r] \in Int BY <1>4, <1>5 DEF Moved
  <2>2. e = [r \in Players |-> e[r]] BY <1>2 DEF Banked
  <2> QED BY <2>1, <2>2
<1>7. IsFiniteSet(Players) BY TradeAssumption
<1>8. Total(f) \in Int /\ Total(e) = Total(f) + a + b BY <1>4, <1>5, <1>6, <1>7, TotalMoves
<1>9. Total(StartGold) \in Int
  <2>1. StartGold \in [Players -> Int] BY TradeAssumption
  <2>2. PICK h : Total(StartGold) = h[Players] /\ Sums(Players, StartGold, h) BY <1>7, <2>1, TotalAdds
  <2> QED BY <2>2 DEF Sums
<1>10. Total(f) <= Total(StartGold) BY <1>1 DEF Owned
<1>11. Total(e) <= Total(StartGold) BY <1>8, <1>9, <1>10
<1> QED BY <1>2, <1>11

\* The trade is executed and both players are saved.
LEMMA TradeOwned == ASSUME IInv, Owned, NEW p \in Players, AcceptTrade(p) PROVE Owned'
<1>1. PICK q : q = trade[p].trader OBVIOUS
<1>2. PICK mine, his : mine = Things(Handed(p)) /\ his = Things(Handed(q)) OBVIOUS
<1>3. /\ q \in Players \ {p} /\ p \in here /\ q \in here
      /\ mine \subseteq inv[p] /\ his \subseteq inv[q]
      /\ inv' \in [Players -> SUBSET Items]
      /\ inv'[p] = (inv[p] \ mine) \cup his
      /\ inv'[q] = (inv[q] \ his) \cup mine
      /\ \A r \in Players \ {p, q} : inv'[r] = inv[r]
  BY <1>1, <1>2, Exchanged
<1>4. PICK m, k : m = trade[p].offer.money /\ k = trade[q].offer.money OBVIOUS
<1>5. /\ m \in Nat /\ k \in Nat /\ m <= gold[p] /\ k <= gold[q]
      /\ gold' \in [Players -> Nat]
      /\ gold'[p] = gold[p] - m + k /\ gold'[q] = gold[q] - k + m
  BY <1>1, <1>4, Paid
<1>6. here' = here /\ rows' = Saved(p, q) BY <1>1 DEF AcceptTrade
<1>7. /\ rows'[p] = [gold |-> gold'[p], inv |-> inv'[p]]
      /\ rows'[q] = [gold |-> gold'[q], inv |-> inv'[q]]
      /\ \A r \in Players \ {p, q} : rows'[r] = rows[r]
      /\ DOMAIN rows' = Players
  BY <1>3, <1>6 DEF Saved
<1>8. /\ rows \in [Players -> [gold : Nat, inv : SUBSET Items]]
      /\ \A r, o \in Players : r # o => Held(r) \cap Held(o) = {}
      /\ \A r \in here : gold[r] <= rows[r].gold
  BY DEF Owned
<1>9. gold \in [Players -> Nat] /\ here \subseteq Players BY DEF IInv, Counted
<1>10. \A r \in Players \ {p, q} : gold'[r] = gold[r]
  <2>1. gold' = [gold EXCEPT ![p] = @ - m + k, ![q] = @ - k + m] BY <1>1, <1>4 DEF AcceptTrade
  <2> QED BY <1>9, <2>1
<1>11. rows' \in [Players -> [gold : Nat, inv : SUBSET Items]]
  <2>1. \A r \in Players : rows'[r] \in [gold : Nat, inv : SUBSET Items]
    <3> SUFFICES ASSUME NEW r \in Players PROVE rows'[r] \in [gold : Nat, inv : SUBSET Items]
      OBVIOUS
    <3>1. gold'[r] \in Nat /\ inv'[r] \in SUBSET Items BY <1>3, <1>5
    <3>2. CASE r \in {p, q} BY <1>7, <3>1, <3>2
    <3>3. CASE r \notin {p, q} BY <1>7, <1>8, <3>3
    <3> QED BY <3>2, <3>3
  <2>2. rows' = [r \in Players |-> rows'[r]] BY <1>6 DEF Saved
  <2> QED BY <2>1, <2>2
<1>12. ASSUME NEW r \in Players, NEW o \in Players, r # o
       PROVE  (inv'[r] \cup rows'[r].inv) \cap (inv'[o] \cup rows'[o].inv) = {}
  <2>1. ASSUME NEW z \in Players, z \notin {p, q} PROVE inv'[z] \cup rows'[z].inv = Held(z)
    BY <1>3, <1>7, <2>1 DEF Held
  <2>2. inv'[p] \cup rows'[p].inv = inv'[p] /\ inv'[q] \cup rows'[q].inv = inv'[q] BY <1>7
  <2>3. inv[p] \cap inv[q] = {} BY <1>3, <1>8 DEF Held
  <2>4. inv'[p] \cap inv'[q] = {} BY <1>3, <2>3
  <2>5. inv'[p] \subseteq Held(p) \cup Held(q) /\ inv'[q] \subseteq Held(p) \cup Held(q)
    BY <1>3 DEF Held
  <2>6. CASE r \in {p, q} /\ o \in {p, q} BY <1>12, <2>2, <2>4, <2>6
  <2>7. CASE r \in {p, q} /\ o \notin {p, q}
    <3>1. Held(p) \cap Held(o) = {} /\ Held(q) \cap Held(o) = {} BY <1>3, <1>8, <2>7
    <3>2. inv'[r] \cup rows'[r].inv \subseteq Held(p) \cup Held(q) BY <2>2, <2>5, <2>7
    <3> QED BY <2>1, <2>7, <3>1, <3>2
  <2>8. CASE r \notin {p, q} /\ o \in {p, q}
    <3>1. Held(p) \cap Held(r) = {} /\ Held(q) \cap Held(r) = {} BY <1>3, <1>8, <2>8
    <3>2. inv'[o] \cup rows'[o].inv \subseteq Held(p) \cup Held(q) BY <2>2, <2>5, <2>8
    <3> QED BY <2>1, <2>8, <3>1, <3>2
  <2>9. CASE r \notin {p, q} /\ o \notin {p, q} BY <1>8, <1>12, <2>1, <2>9
  <2> QED BY <2>6, <2>7, <2>8, <2>9
<1>13. ASSUME NEW r \in here' PROVE gold'[r] <= rows'[r].gold
  <2>1. r \in Players /\ r \in here BY <1>6, <1>9
  <2>2. gold'[r] \in Nat BY <1>5, <2>1
  <2>3. CASE r \in {p, q} BY <1>7, <2>2, <2>3
  <2>4. CASE r \notin {p, q} BY <1>7, <1>8, <1>10, <2>1, <2>4
  <2> QED BY <2>3, <2>4
<1>14. Total(Banked') <= Total(StartGold)
  <2>1. /\ rows[p].gold \in Nat /\ rows[q].gold \in Nat /\ gold[p] \in Nat /\ gold[q] \in Nat
        /\ gold[p] <= rows[p].gold /\ gold[q] <= rows[q].gold
    BY <1>3, <1>8, <1>9
  <2>2. PICK a \in Int : a = gold'[p] - rows[p].gold BY <1>5, <2>1
  <2>3. PICK b \in Int : b = gold'[q] - rows[q].gold BY <1>5, <2>1
  <2>4. a + b <= 0 BY <1>5, <2>1, <2>2, <2>3
  <2>5. ASSUME NEW r \in Players
        PROVE  rows'[r].gold = rows[r].gold + (IF r = p THEN a ELSE 0) + (IF r = q THEN b ELSE 0)
    <3>1. rows[r].gold \in Nat BY <1>8
    <3>2. CASE r = p BY <1>3, <1>5, <1>7, <2>1, <2>2, <3>2
    <3>3. CASE r = q BY <1>3, <1>5, <1>7, <2>1, <2>3, <3>3
    <3>4. CASE r \notin {p, q} BY <1>7, <3>1, <3>4
    <3> QED BY <3>2, <3>3, <3>4
  <2>6. Moved(Players, Banked, Banked', p, a, q, b) BY <2>5 DEF Moved, Banked
  <2> QED BY <1>3, <2>4, <2>6, BankedMoves
<1> QED BY <1>3, <1>11, <1>12, <1>13, <1>14 DEF Owned, Held, Banked

\* A player leaves the world, and is saved.
LEMMA LogoutOwned == ASSUME IInv, Owned, NEW p \in Players, Logout(p) PROVE Owned'
<1>1. /\ rows \in [Players -> [gold : Nat, inv : SUBSET Items]]
      /\ inv \in [Players -> SUBSET Items]
      /\ \A r, o \in Players : r # o => Held(r) \cap Held(o) = {}
      /\ \A r \in here : gold[r] <= rows[r].gold
  BY DEF Owned
<1>2. gold \in [Players -> Nat] /\ here \subseteq Players BY DEF IInv, Counted
<1>3. /\ p \in here /\ here' = here \ {p}
      /\ rows' = [rows EXCEPT ![p] = [gold |-> gold[p], inv |-> inv[p]]]
      /\ gold' = [gold EXCEPT ![p] = 0] /\ inv' = [inv EXCEPT ![p] = {}]
  BY DEF Logout
<1>4. inv' \in [Players -> SUBSET Items] BY <1>1, <1>3
<1>5. rows' \in [Players -> [gold : Nat, inv : SUBSET Items]]
  <2>1. [gold |-> gold[p], inv |-> inv[p]] \in [gold : Nat, inv : SUBSET Items] BY <1>1, <1>2
  <2> QED BY <1>1, <1>3, <2>1
<1>6. /\ rows'[p].gold = gold[p] /\ rows'[p].inv = inv[p] /\ inv'[p] = {}
      /\ \A r \in Players \ {p} : rows'[r] = rows[r] /\ inv'[r] = inv[r] /\ gold'[r] = gold[r]
  BY <1>1, <1>2, <1>3
<1>7. \A r \in Players : inv'[r] \cup rows'[r].inv \subseteq Held(r) BY <1>6 DEF Held
<1>8. \A r, o \in Players : r # o => (inv'[r] \cup rows'[r].inv) \cap (inv'[o] \cup rows'[o].inv) = {}
  BY <1>1, <1>7
<1>9. \A r \in here' : gold'[r] <= rows'[r].gold BY <1>1, <1>2, <1>3, <1>6
<1>10. Total(Banked') <= Total(StartGold)
  <2>1. gold[p] \in Nat /\ rows[p].gold \in Nat /\ gold[p] <= rows[p].gold BY <1>1, <1>2, <1>3
  <2>2. PICK a \in Int : a = gold[p] - rows[p].gold BY <2>1
  <2>3. PICK b \in Int : b = 0 OBVIOUS
  <2>4. a + b <= 0 BY <2>1, <2>2, <2>3
  <2>5. ASSUME NEW r \in Players
        PROVE  rows'[r].gold = rows[r].gold + (IF r = p THEN a ELSE 0) + (IF r = p THEN b ELSE 0)
    <3>1. rows[r].gold \in Nat BY <1>1
    <3>2. CASE r = p BY <1>6, <2>1, <2>2, <2>3, <3>2
    <3>3. CASE r # p BY <1>6, <3>1, <3>3
    <3> QED BY <3>2, <3>3
  <2>6. Moved(Players, Banked, Banked', p, a, p, b) BY <2>5 DEF Moved, Banked
  <2> QED BY <2>4, <2>6, BankedMoves
<1> QED BY <1>4, <1>5, <1>8, <1>9, <1>10 DEF Owned, Held, Banked

\* The steps that leave the database alone.
LEMMA UnsavedOwned ==
    ASSUME IInv, Owned, rows' = rows, inv' \in [Players -> SUBSET Items],
           \A p \in Players : inv'[p] \subseteq Held(p) \/
              \E x \in Items : /\ inv'[p] = inv[p] \cup {x}
                               /\ \A q \in Players : x \notin Held(q)
                               /\ \A q \in Players \ {p} : inv'[q] = inv[q],
           \A p \in here' : gold'[p] <= rows[p].gold
    PROVE  Owned'
<1>1. /\ rows \in [Players -> [gold : Nat, inv : SUBSET Items]]
      /\ \A r, o \in Players : r # o => Held(r) \cap Held(o) = {}
      /\ Total(Banked) <= Total(StartGold)
  BY DEF Owned
<1>2. ASSUME NEW r \in Players, NEW o \in Players, r # o
      PROVE  (inv'[r] \cup rows'[r].inv) \cap (inv'[o] \cup rows'[o].inv) = {}
  <2>1. Held(r) \cap Held(o) = {} BY <1>1, <1>2
  <2>2. rows'[r].inv \subseteq Held(r) /\ rows'[o].inv \subseteq Held(o) BY DEF Held
  <2>3. CASE inv'[r] \subseteq Held(r) /\ inv'[o] \subseteq Held(o) BY <2>1, <2>2, <2>3
  <2>4. CASE ~(inv'[r] \subseteq Held(r))
    <3>1. PICK x \in Items : /\ inv'[r] = inv[r] \cup {x} /\ inv'[o] = inv[o]
                             /\ x \notin Held(o)
      BY <1>2, <2>4
    <3>2. inv'[r] \subseteq Held(r) \cup {x} /\ inv'[o] \subseteq Held(o) BY <3>1 DEF Held
    <3> QED BY <2>1, <2>2, <3>1, <3>2
  <2>5. CASE ~(inv'[o] \subseteq Held(o))
    <3>1. PICK x \in Items : /\ inv'[o] = inv[o] \cup {x} /\ inv'[r] = inv[r]
                             /\ x \notin Held(r)
      BY <1>2, <2>5
    <3>2. inv'[o] \subseteq Held(o) \cup {x} /\ inv'[r] \subseteq Held(r) BY <3>1 DEF Held
    <3> QED BY <2>1, <2>2, <3>1, <3>2
  <2> QED BY <2>3, <2>4, <2>5
<1>3. Total(Banked') <= Total(StartGold)
  <2>1. Banked' = Banked BY DEF Banked
  <2> QED BY <1>1, <2>1
<1> QED BY <1>1, <1>2, <1>3 DEF Owned, Held, Banked

LEMMA NextOwned == ASSUME IInv, Owned, [Next]_vars PROVE Owned'
<1>1. /\ gold \in [Players -> Nat] /\ here \subseteq Players
      /\ inv \in [Players -> SUBSET Items]
      /\ rows \in [Players -> [gold : Nat, inv : SUBSET Items]]
      /\ \A r \in here : gold[r] <= rows[r].gold
  BY DEF IInv, Counted, Owned
<1>2. \A p \in Players : inv[p] \subseteq Held(p) /\ rows[p].inv \subseteq Held(p) /\ {} \subseteq Held(p)
  BY DEF Held
<1>3. CASE UNCHANGED <<here, gold, inv, rows>> BY <1>1, <1>2, <1>3, UnsavedOwned
<1>4. CASE \E p \in Players : AcceptTrade(p) BY <1>4, TradeOwned
<1>5. CASE \E p \in Players : Logout(p) BY <1>5, LogoutOwned
<1>6. CASE Crash
  <2>1. /\ rows' = rows /\ here' = {} /\ inv' \in [Players -> SUBSET Items]
        /\ \A p \in Players : inv'[p] = {}
    BY <1>6 DEF Crash
  <2> QED BY <1>2, <2>1, UnsavedOwned
<1>7. ASSUME NEW p \in Players, Spend(p) PROVE Owned'
  <2>1. /\ rows' = rows /\ here' = here /\ inv' = inv /\ p \in here
        /\ gold' = [gold EXCEPT ![p] = gold[p] - 1]
    BY <1>7 DEF Spend
  <2>2. \A r \in here' : gold'[r] <= rows[r].gold
    <3> SUFFICES ASSUME NEW r \in here PROVE gold'[r] <= rows[r].gold
      BY <2>1
    <3>1. r \in Players /\ gold[r] \in Nat /\ rows[r].gold \in Nat /\ gold[r] <= rows[r].gold
      BY <1>1
    <3>2. gold'[r] \in {gold[r], gold[r] - 1} BY <1>1, <2>1, <3>1
    <3> QED BY <3>1, <3>2
  <2>3. \A r \in Players : inv'[r] \subseteq Held(r) BY <1>2, <2>1
  <2>4. inv' \in [Players -> SUBSET Items] BY <1>1, <2>1
  <2> QED BY <2>1, <2>2, <2>3, <2>4, UnsavedOwned
<1>8. ASSUME NEW p \in Players, NEW x \in Items, ItemLeaves(p, x) PROVE Owned'
  <2>1. /\ rows' = rows /\ here' = here /\ gold' = gold
        /\ inv' = [inv EXCEPT ![p] = inv[p] \ {x}]
    BY <1>8 DEF ItemLeaves
  <2>2. \A r \in Players : inv'[r] \subseteq Held(r) BY <1>1, <1>2, <2>1
  <2>3. inv' \in [Players -> SUBSET Items] BY <1>1, <2>1
  <2> QED BY <1>1, <2>1, <2>2, <2>3, UnsavedOwned
<1>9. ASSUME NEW p \in Players, NEW x \in Items, ItemComes(p, x) PROVE Owned'
  <2>1. /\ rows' = rows /\ here' = here /\ gold' = gold
        /\ inv' = [inv EXCEPT ![p] = inv[p] \cup {x}]
        /\ \A q \in Players : x \notin Held(q)
    BY <1>9 DEF ItemComes, Held
  <2>2. /\ inv'[p] = inv[p] \cup {x}
        /\ \A q \in Players \ {p} : inv'[q] = inv[q] /\ inv'[q] \subseteq Held(q)
    BY <1>1, <1>2, <2>1
  <2>3. inv' \in [Players -> SUBSET Items] BY <1>1, <2>1
  <2>4. \A r \in Players : inv'[r] \subseteq Held(r) \/
           \E y \in Items : /\ inv'[r] = inv[r] \cup {y}
                            /\ \A q \in Players : y \notin Held(q)
                            /\ \A q \in Players \ {r} : inv'[q] = inv[q]
    BY <2>1, <2>2
  <2> QED BY <1>1, <2>1, <2>3, <2>4, UnsavedOwned
<1>10. ASSUME NEW p \in Players, Login(p) PROVE Owned'
  <2>1. /\ rows' = rows /\ here' = here \cup {p}
        /\ gold' = [gold EXCEPT ![p] = rows[p].gold] /\ inv' = [inv EXCEPT ![p] = rows[p].inv]
    BY <1>10 DEF Login
  <2>2. \A r \in Players : inv'[r] \subseteq Held(r) BY <1>1, <1>2, <2>1
  <2>3. inv' \in [Players -> SUBSET Items]
    <3>1. rows[p].inv \in SUBSET Items BY <1>1
    <3> QED BY <1>1, <2>1, <3>1
  <2>4. \A r \in here' : gold'[r] <= rows[r].gold
    <3> SUFFICES ASSUME NEW r \in here' PROVE gold'[r] <= rows[r].gold
      OBVIOUS
    <3>1. r \in Players /\ rows[r].gold \in Nat BY <1>1, <2>1
    <3>2. CASE r = p BY <1>1, <2>1, <3>1, <3>2
    <3>3. CASE r # p BY <1>1, <2>1, <3>1, <3>3
    <3> QED BY <3>2, <3>3
  <2> QED BY <2>1, <2>2, <2>3, <2>4, UnsavedOwned
<1>11. CASE UNCHANGED vars BY <1>3, <1>11 DEF vars
<1> QED BY <1>3, <1>4, <1>5, <1>6, <1>7, <1>8, <1>9, <1>10, <1>11
        DEF Next, Initiate, AcceptSpellFails, SetTradeGold, ClearTradeItem, SetTradeItem, CastOnTrade,
            Unaccept, TradeCancel, AcceptRefused, AcceptWaits, AcceptNoSpace, AcceptEnds

LEMMA OwnedAlways == Spec => []Owned
BY InitOwned, NextOwned, Invariance, PTL DEF Spec

-----------------------------------------------------------------------------
(* The results.                                                            *)

\* The two TradeData of a trade point at each other and at players who are in
\* the world: GetTrader and GetTraderData never follow a dangling pointer.
THEOREM PairedCorrect == Spec => []Paired
<1>1. IInv => Paired
  <2> SUFFICES ASSUME IInv, NEW p \in Players, trade[p] # None
               PROVE  LET q == trade[p].trader
                      IN  /\ p # q /\ {p, q} \subseteq here
                          /\ trade[q] # None /\ trade[q].trader = p
    BY DEF Paired
  <2> QED BY DEF IInv, Good, PairedIn
<1> QED BY <1>1, Invariance, PTL

\* An acceptance is one of the two offers as they stand: SetItem, SetSpell and
\* SetMoney take back both acceptances whenever they change something.
THEOREM AcceptedCorrect == Spec => []AcceptedStands
<1>1. IInv => AcceptedStands BY DEF IInv, Good, Stand, AcceptedStands
<1> QED BY <1>1, Invariance, PTL

\* Every variable keeps its type: nobody pays what he does not have, and
\* nothing but items is in an inventory.
THEOREM TypeCorrect == Spec => []TypeOK
<1>1. IInv /\ Owned => TypeOK BY DEF IInv, Counted, Good, Typed, Owned, TypeOK
<1> QED BY <1>1, Invariance, OwnedAlways, PTL

\* The database never has an item twice nor more money than there was, and the
\* world has no item twice, whenever the server crashes.
THEOREM NothingDoubledCorrect == Spec => []NothingDoubled
<1>1. Owned => NothingDoubled
  <2> SUFFICES ASSUME Owned PROVE NothingDoubled
    OBVIOUS
  <2>1. \A p, q \in Players : p # q =>
           rows[p].inv \cap rows[q].inv = {} /\ inv[p] \cap inv[q] = {}
    BY DEF Owned, Held
  <2>2. Total([p \in Players |-> rows[p].gold]) <= Total(StartGold) BY DEF Owned, Banked
  <2> QED BY <2>1, <2>2 DEF NothingDoubled
<1> QED BY <1>1, OwnedAlways, PTL

\* A step that ends a trade between two players who stay, and moves anything, is
\* the execution of that trade.
LEMMA Executed ==
    ASSUME IInv, Next, NEW p \in Players, trade[p] # None, trade'[p] = None,
           p \in here', trade[p].trader \in here', gold' # gold \/ inv' # inv
    PROVE  \E r \in {p, trade[p].trader} : r \in Players /\ AcceptTrade(r)
<1> DEFINE q == trade[p].trader
<1>1. Typed(trade) /\ PairedIn(trade, here) BY DEF IInv, Good
<1>2. q \in Players \ {p} /\ trade[q] # None /\ trade[q].trader = p BY <1>1, Half
<1>3. PICK r \in Players : AcceptTrade(r)
  <2>1. trade' # trade OBVIOUS
  <2>2. ASSUME NEW r \in Players, Logout(r) PROVE FALSE
    <3>1. trade[r] # None /\ trade' = Closed(r) /\ r \notin here' BY <2>1, <2>2 DEF Logout
    <3>2. r \notin {p, q} BY <3>1
    <3>3. trade[r].trader \in Players /\ trade[trade[r].trader].trader = r BY <1>1, <3>1, Half
    <3>4. trade[r].trader # p BY <3>2, <3>3
    <3>5. trade'[p] = trade[p] BY <1>1, <3>1, <3>2, <3>4 DEF Closed, Typed
    <3> QED BY <3>5
  <2>3. ~Crash BY DEF Crash
  <2>4. ~(gold' = gold /\ inv' = inv) OBVIOUS
  <2> QED BY <2>1, <2>2, <2>3, <2>4
          DEF Next, Initiate, AcceptSpellFails, SetTradeGold, ClearTradeItem, SetTradeItem, CastOnTrade,
              Unaccept, TradeCancel, AcceptRefused, AcceptWaits, AcceptNoSpace, AcceptEnds,
              Spend, Login, ItemLeaves, ItemComes
<1>4. trade[r] # None /\ trade' = Closed(r) BY <1>3, Paid DEF AcceptTrade
<1>5. r \in {p, q}
  <2> SUFFICES ASSUME r \notin {p, q} PROVE FALSE
    OBVIOUS
  <2>1. trade[r].trader \in Players /\ trade[trade[r].trader].trader = r BY <1>1, <1>4, Half
  <2>2. trade[r].trader # p BY <2>1
  <2>3. trade'[p] = trade[p] BY <1>1, <1>4, <2>2 DEF Closed, Typed
  <2> QED BY <2>3
<1> QED BY <1>3, <1>5

\* HandleAcceptTradeOpcode moves the money and the items that were agreed to,
\* between the two and to the last coin and item, and no other step that ends a
\* trade between two players who stay moves anything.
THEOREM TradedCorrect == Spec => TradedAsAgreed
<1>1. ASSUME IInv, Owned, [Next]_vars PROVE [\A p \in Players : AsAgreed(p)]_vars
  <2> SUFFICES ASSUME Next, NEW p \in Players PROVE AsAgreed(p)
    BY <1>1
  <2>1. PICK q : q = trade[p].trader OBVIOUS
  <2> SUFFICES ASSUME trade[p] # None, trade'[p] = None, p \in here', q \in here', gold' # gold \/ inv' # inv
               PROVE  /\ trade[p].accepted \/ trade[q].accepted
                      /\ trade[p].accepted =>
                           /\ gold'[p] = gold[p] - trade[p].seen[1].money + trade[p].seen[2].money
                           /\ inv'[p] = (inv[p] \ ({trade[p].seen[1].items[s] : s \in 1 .. Traded} \cap inv[p]))
                                          \cup ({trade[p].seen[2].items[s] : s \in 1 .. Traded} \cap inv[q])
                      /\ gold'[p] + gold'[q] = gold[p] + gold[q]
                      /\ inv'[p] \cup inv'[q] = inv[p] \cup inv[q]
    BY <2>1 DEF AsAgreed
  <2>3. /\ Typed(trade) /\ PairedIn(trade, here) /\ Stand(trade) /\ gold \in [Players -> Nat]
        /\ inv \in [Players -> SUBSET Items]
    BY <1>1 DEF IInv, Good, Counted, Owned
  <2>4. q \in Players \ {p} /\ trade[q] # None /\ trade[q].trader = p BY <2>1, <2>3, Half
  <2>5. PICK r \in {p, q} : AcceptTrade(r) BY <1>1, <2>1, Executed
  <2>6. PICK m, k : m = trade[p].offer.money /\ k = trade[q].offer.money OBVIOUS
  <2>7. /\ trade[p].accepted \/ trade[q].accepted
        /\ m \in Nat /\ k \in Nat
        /\ gold'[p] = gold[p] - m + k /\ gold'[q] = gold[q] - k + m
    <3>1. CASE r = p BY <1>1, <2>1, <2>5, <2>6, <3>1, Paid
    <3>2. CASE r = q BY <1>1, <2>4, <2>5, <2>6, <3>2, Paid
    <3> QED BY <3>1, <3>2
  <2>8. PICK mine, his : mine = Things(Handed(p)) /\ his = Things(Handed(q)) OBVIOUS
  <2>9. /\ mine \subseteq inv[p] /\ his \subseteq inv[q]
        /\ inv'[p] = (inv[p] \ mine) \cup his /\ inv'[q] = (inv[q] \ his) \cup mine
    <3>1. CASE r = p BY <1>1, <2>1, <2>5, <2>8, <3>1, Exchanged
    <3>2. CASE r = q BY <1>1, <2>4, <2>5, <2>8, <3>2, Exchanged
    <3> QED BY <3>1, <3>2
  <2>10. /\ mine = {trade[p].offer.items[s] : s \in 1 .. Traded} \cap inv[p]
         /\ his = {trade[q].offer.items[s] : s \in 1 .. Traded} \cap inv[q]
    BY <2>3, <2>4, <2>8, HandedIs
  <2>11. ASSUME trade[p].accepted
         PROVE  /\ gold'[p] = gold[p] - trade[p].seen[1].money + trade[p].seen[2].money
                /\ inv'[p] = (inv[p] \ ({trade[p].seen[1].items[s] : s \in 1 .. Traded} \cap inv[p]))
                               \cup ({trade[p].seen[2].items[s] : s \in 1 .. Traded} \cap inv[q])
    <3>1. trade[p].seen = <<trade[p].offer, trade[q].offer>> BY <2>1, <2>3, <2>11 DEF Stand, Both
    <3>2. trade[p].seen[1] = trade[p].offer /\ trade[p].seen[2] = trade[q].offer BY <3>1
    <3> QED BY <2>6, <2>7, <2>9, <2>10, <3>2
  <2>12. gold'[p] + gold'[q] = gold[p] + gold[q]
    <3>1. gold[p] \in Nat /\ gold[q] \in Nat BY <2>3, <2>4
    <3> QED BY <2>7, <3>1
  <2>13. inv'[p] \cup inv'[q] = inv[p] \cup inv[q] BY <2>9
  <2> QED BY <2>7, <2>11, <2>12, <2>13
<1> QED BY <1>1, Invariance, OwnedAlways, PTL DEF Spec, TradedAsAgreed
=============================================================================
