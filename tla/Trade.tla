------------------------------- MODULE Trade --------------------------------
(***************************************************************************)
(* Trade between two players: the handlers of TradeHandler.cpp and         *)
(* TradeData of Player.cpp.                                                *)
(*                                                                         *)
(* A trade is a pair of TradeData objects that point at each other's       *)
(* player.  The handlers run on the world thread, one at a time, but       *)
(* between two of them anything may happen to a player: he spends his      *)
(* money, loses or finds an item, is cut off, takes a flight or logs out.  *)
(* Items are kept as GUIDs in the slots and looked up when they are needed,*)
(* so an item that has left the inventory is no longer in the trade.       *)
(*                                                                         *)
(* What the packets tell the clients is left out, and so is the size of a  *)
(* stack (Player::SplitItem refuses an item that is in a trade).           *)
(***************************************************************************)
EXTENDS Integers, FiniteSets, SequencesExt

CONSTANTS Players, Items, Spells, None,
          Traded,       \* the number of slots whose items change hands
          StartGold, StartItems,
          MaxMoney,     \* MAX_MONEY_AMOUNT
          Space         \* how many items an inventory holds

ASSUME TradeAssumption ==
    /\ Traded \in Nat /\ MaxMoney \in Nat /\ Space \in Nat
    /\ IsFiniteSet(Players) /\ IsFiniteSet(Items)
    /\ StartGold \in [Players -> Nat] /\ StartItems \in [Players -> SUBSET Items]
    /\ \A p, q \in Players : p # q => StartItems[p] \cap StartItems[q] = {}
    /\ None \notin Players \cup Items \cup Spells

VARIABLES
    here,       \* the players in the world
    trade,      \* Player::m_trade
    gold, inv,  \* money and inventory, of the players in the world
    rows        \* money and inventory in the database

vars == <<here, trade, gold, inv, rows>>

NonTraded == Traded + 1     \* TRADE_SLOT_NONTRADED

Slots == 1 .. NonTraded     \* TRADE_SLOT_COUNT of them

Offers == [items : [Slots -> Items \cup {None}], money : Nat, spell : Spells \cup {None}]

\* TradeData; seen is a ghost: the two offers as they stood when the player
\* accepted, his own first.
TradeData == [trader : Players, offer : Offers, accepted : BOOLEAN,
              seen : (Offers \X Offers) \cup {None}]

\* None stands for a null pointer: it is not an object, nor all the objects.
ASSUME NoneAssumption ==
    None \notin TradeData /\ None \notin [Players -> TradeData \cup {None}]

Both(t, p) == <<t[p].offer, t[t[p].trader].offer>>

\* TradeData::GetItem.
GetItem(p, slot) ==
    IF trade[p].offer.items[slot] \in inv[p] THEN trade[p].offer.items[slot] ELSE None

\* What p would hand over, as a sequence of slots.
Handed(p) == [slot \in 1 .. Traded |-> GetItem(p, slot)]

Things(handed) == {handed[i] : i \in DOMAIN handed} \ {None}

-----------------------------------------------------------------------------
(* TradeData: what is changed takes back the acceptance of both.           *)

\* TradeData::SetAccepted.
SetAccepted(t, p, state) ==
    [t EXCEPT ![p].accepted = state, ![p].seen = IF state THEN Both(t, p) ELSE None]

\* Mutant: only the one who changes his offer has to accept again.
TakenBackOwn(t, p) == SetAccepted(t, p, FALSE)

TakenBack(t, p) == SetAccepted(SetAccepted(t, p, FALSE), t[p].trader, FALSE)

\* TradeData::SetSpell.
SetSpell(t, p, spell) ==
    IF t[p].offer.spell = spell THEN t ELSE TakenBack([t EXCEPT ![p].offer.spell = spell], p)

\* TradeData::SetItem: a spell that was to be cast on the item of the slot
\* that is not traded is taken back, and so is the player's own.
SetItem(t, p, slot, x) ==
    LET put == TakenBack([t EXCEPT ![p].offer.items[slot] = x], p)
        his == IF slot = NonTraded THEN SetSpell(put, t[p].trader, None) ELSE put
    IN  IF t[p].offer.items[slot] = x THEN t ELSE SetSpell(his, p, None)

\* TradeData::SetMoney.
SetMoney(t, p, money) ==
    IF t[p].offer.money = money \/ gold[p] < money THEN t
    ELSE TakenBack([t EXCEPT ![p].offer.money = money], p)

\* Both objects are deleted.
Closed(p) == [trade EXCEPT ![p] = None, ![trade[p].trader] = None]

-----------------------------------------------------------------------------
(* The handlers before the trade is accepted.                              *)

NewTrade(q) ==
    [trader |-> q, accepted |-> FALSE, seen |-> None,
     offer |-> [items |-> [s \in Slots |-> None], money |-> 0, spell |-> None]]

\* HandleInitiateTradeOpcode.
Initiate(p, q) ==
    /\ p \in here /\ q \in here /\ p # q
    /\ trade[p] = None /\ trade[q] = None
    /\ trade' = [trade EXCEPT ![p] = NewTrade(q), ![q] = NewTrade(p)]
    /\ UNCHANGED <<here, gold, inv, rows>>

\* HandleSetTradeGoldOpcode.
SetTradeGold(p, money) ==
    /\ trade[p] # None
    /\ trade' = SetMoney(trade, p, money)
    /\ UNCHANGED <<here, gold, inv, rows>>

\* HandleSetTradeItemOpcode.
SetTradeItem(p, slot, x) ==
    /\ trade[p] # None
    /\ x \in inv[p]
    /\ \A s \in Slots : trade[p].offer.items[s] # x
    /\ trade' = SetItem(trade, p, slot, x)
    /\ UNCHANGED <<here, gold, inv, rows>>

\* HandleClearTradeItemOpcode.
ClearTradeItem(p, slot) ==
    /\ trade[p] # None
    /\ trade' = SetItem(trade, p, slot, None)
    /\ UNCHANGED <<here, gold, inv, rows>>

\* Spell::cast on the item that is not traded: it is kept for the end of the
\* trade.
CastOnTrade(p, spell) ==
    /\ trade[p] # None
    /\ trade[p].offer.spell = None
    /\ GetItem(trade[p].trader, NonTraded) # None
    /\ trade' = SetSpell(trade, p, spell)
    /\ UNCHANGED <<here, gold, inv, rows>>

\* HandleUnacceptTradeOpcode.
Unaccept(p) ==
    /\ trade[p] # None
    /\ trade' = SetAccepted(trade, p, FALSE)
    /\ UNCHANGED <<here, gold, inv, rows>>

\* Player::TradeCancel: asked for by the player, at a flight, or when the
\* socket of the session is found closed.
TradeCancel(p) ==
    /\ trade[p] # None
    /\ trade' = Closed(p)
    /\ UNCHANGED <<here, gold, inv, rows>>

-----------------------------------------------------------------------------
(* HandleAcceptTradeOpcode.                                                *)

\* The acceptance is set first, and stays set on some of the ways out.
Accepted(p) == SetAccepted(trade, p, TRUE)

\* The rest of a handler that ends before the exchange.
AcceptEnds(p, t) ==
    /\ trade' = t
    /\ UNCHANGED <<here, gold, inv, rows>>

\* The checks of the money, in the order of the code: what becomes of the
\* trade when one fails, or None.
MoneyRefused(p) ==
    LET q == trade[p].trader
    IN  IF gold[p] < trade[p].offer.money THEN SetAccepted(trade, p, FALSE)
        ELSE IF gold[q] < trade[q].offer.money THEN SetAccepted(Accepted(p), q, FALSE)
        ELSE IF gold[p] >= MaxMoney - trade[q].offer.money THEN SetAccepted(trade, p, FALSE)
        ELSE IF gold[q] >= MaxMoney - trade[p].offer.money THEN SetAccepted(Accepted(p), q, FALSE)
        ELSE None

\* One of the checks of the money fails.
AcceptRefused(p) ==
    /\ trade[p] # None
    /\ MoneyRefused(p) # None
    /\ AcceptEnds(p, MoneyRefused(p))

\* An item that is offered cannot be traded (CanBeTraded, IsBindedNotWith), or
\* the other one has not accepted.
AcceptWaits(p) ==
    LET q == trade[p].trader
    IN  /\ trade[p] # None
        /\ MoneyRefused(p) = None
        /\ ~trade[q].accepted \/ Things(Handed(p)) \cup Things(Handed(q)) # {}
        /\ AcceptEnds(p, Accepted(p))

\* Both have accepted, but the spell of one of them, c, cannot be cast: there
\* is no item for it, or CheckCast refuses.
AcceptSpellFails(p, c) ==
    /\ trade[p] # None
    /\ c \in {p, trade[p].trader}
    /\ MoneyRefused(p) = None
    /\ trade[trade[p].trader].accepted
    /\ trade[c].offer.spell # None
    /\ AcceptEnds(p, SetSpell(Accepted(p), c, None))

\* Mutant: it is not checked whether the items fit.
CanStoreItemsAlways(p, q) == TRUE

\* CanStoreItems of p with the items of the trade out of the way.
CanStoreItems(p, q) ==
    Cardinality((inv[p] \ Things(Handed(p))) \cup Things(Handed(q))) <= Space

SpellsReady(p) ==
    \A c \in {p, trade[p].trader} :
        trade[c].offer.spell # None => GetItem(trade[c].trader, NonTraded) # None

\* Both have accepted, but what they would get does not fit.
AcceptNoSpace(p) ==
    LET q == trade[p].trader
    IN  /\ trade[p] # None
        /\ MoneyRefused(p) = None
        /\ trade[q].accepted
        /\ SpellsReady(p)
        /\ ~(CanStoreItems(p, q) /\ CanStoreItems(q, p))
        /\ AcceptEnds(p, TakenBack(trade, p))

\* CanStoreItem, or nothing to store.
Fits(held, x) == x = None \/ Cardinality(held) < Space

\* CanStoreItem and MoveItemToInventory.
With(held, x) == IF x # None /\ Fits(held, x) THEN held \cup {x} ELSE held

\* One slot of moveItems: it is exchanged when both items can be stored, and
\* otherwise each goes back if there is room.
Move(mine, his, st, slot) ==
    IF Fits(st.q, mine[slot]) /\ Fits(st.p, his[slot])
    THEN [p |-> With(st.p, his[slot]), q |-> With(st.q, mine[slot])]
    ELSE [p |-> With(st.p, mine[slot]), q |-> With(st.q, his[slot])]

\* WorldSession::moveItems, slot by slot, on the two inventories from which the
\* items have been taken.
MoveItems(p, q) ==
    FoldLeft(LAMBDA st, slot : Move(Handed(p), Handed(q), st, slot),
             [p |-> inv[p] \ Things(Handed(p)), q |-> inv[q] \ Things(Handed(q))],
             [slot \in 1 .. Traded |-> slot])

\* Mutant: only the player who accepted last is saved.
SavedOne(p, q) == [rows EXCEPT ![p] = [gold |-> gold'[p], inv |-> inv'[p]]]

\* SaveInventoryAndGoldToDB of both, in one transaction.
Saved(p, q) ==
    [r \in Players |-> IF r \in {p, q} THEN [gold |-> gold'[r], inv |-> inv'[r]] ELSE rows[r]]

\* Both have accepted and nothing is in the way: the trade is executed.
AcceptTrade(p) ==
    LET q == trade[p].trader
        moved == MoveItems(p, q)
    IN  /\ trade[p] # None
        /\ MoneyRefused(p) = None
        /\ trade[q].accepted
        /\ SpellsReady(p)
        /\ CanStoreItems(p, q) /\ CanStoreItems(q, p)
        /\ inv' = [inv EXCEPT ![p] = moved.p, ![q] = moved.q]
        /\ gold' = [gold EXCEPT ![p] = @ - trade[p].offer.money + trade[q].offer.money,
                                ![q] = @ - trade[q].offer.money + trade[p].offer.money]
        /\ trade' = Closed(p)
        /\ rows' = Saved(p, q)
        /\ UNCHANGED here

-----------------------------------------------------------------------------
(* What else happens to a player.                                          *)

\* Money is spent, an item is destroyed, sold or used up: not saved yet.
Spend(p) ==
    /\ p \in here /\ gold[p] > 0
    /\ gold' = [gold EXCEPT ![p] = @ - 1]
    /\ UNCHANGED <<here, trade, inv, rows>>

ItemLeaves(p, x) ==
    /\ p \in here /\ x \in inv[p]
    /\ inv' = [inv EXCEPT ![p] = @ \ {x}]
    /\ UNCHANGED <<here, trade, gold, rows>>

\* A new item, with a GUID that nothing has.
ItemComes(p, x) ==
    /\ p \in here
    /\ \A q \in Players : x \notin inv[q] \cup rows[q].inv
    /\ Cardinality(inv[p]) < Space
    /\ inv' = [inv EXCEPT ![p] = @ \cup {x}]
    /\ UNCHANGED <<here, trade, gold, rows>>

Login(p) ==
    /\ p \notin here
    /\ here' = here \cup {p}
    /\ gold' = [gold EXCEPT ![p] = rows[p].gold]
    /\ inv' = [inv EXCEPT ![p] = rows[p].inv]
    /\ UNCHANGED <<trade, rows>>

\* Mutant: the trade of the deleted player is not cancelled.
LogoutTrading(p) ==
    /\ p \in here
    /\ here' = here \ {p}
    /\ rows' = [rows EXCEPT ![p] = [gold |-> gold[p], inv |-> inv[p]]]
    /\ gold' = [gold EXCEPT ![p] = 0]
    /\ inv' = [inv EXCEPT ![p] = {}]
    /\ trade' = [trade EXCEPT ![p] = None]

\* LogoutPlayer: SaveToDB, and CleanupsBeforeDelete, which cancels the trade.
Logout(p) ==
    /\ p \in here
    /\ here' = here \ {p}
    /\ rows' = [rows EXCEPT ![p] = [gold |-> gold[p], inv |-> inv[p]]]
    /\ gold' = [gold EXCEPT ![p] = 0]
    /\ inv' = [inv EXCEPT ![p] = {}]
    /\ trade' = IF trade[p] = None THEN trade ELSE Closed(p)

\* The server crashes and is started again.
Crash ==
    /\ here' = {}
    /\ trade' = [p \in Players |-> None]
    /\ gold' = [p \in Players |-> 0]
    /\ inv' = [p \in Players |-> {}]
    /\ UNCHANGED rows

Init ==
    /\ here = {}
    /\ trade = [p \in Players |-> None]
    /\ gold = [p \in Players |-> 0]
    /\ inv = [p \in Players |-> {}]
    /\ rows = [p \in Players |-> [gold |-> StartGold[p], inv |-> StartItems[p]]]

Next ==
    \/ \E p, q \in Players : Initiate(p, q) \/ AcceptSpellFails(p, q)
    \/ \E p \in Players :
          \/ \E money \in 0 .. gold[p] : SetTradeGold(p, money)
          \/ \E slot \in Slots : ClearTradeItem(p, slot) \/ \E x \in Items : SetTradeItem(p, slot, x)
          \/ \E spell \in Spells : CastOnTrade(p, spell)
          \/ Unaccept(p) \/ TradeCancel(p)
          \/ AcceptRefused(p) \/ AcceptWaits(p) \/ AcceptNoSpace(p) \/ AcceptTrade(p)
          \/ Spend(p)
          \/ \E x \in Items : ItemLeaves(p, x) \/ ItemComes(p, x)
          \/ Login(p) \/ Logout(p)
    \/ Crash

Spec == Init /\ [][Next]_vars

-----------------------------------------------------------------------------
(* Properties.                                                             *)

\* Every variable keeps its type.
TypeOK ==
    /\ here \subseteq Players
    /\ trade \in [Players -> TradeData \cup {None}]
    /\ gold \in [Players -> Nat]
    /\ inv \in [Players -> SUBSET Items]
    /\ rows \in [Players -> [gold : Nat, inv : SUBSET Items]]

\* The two TradeData of a trade come and go together and point at each other:
\* the pointer from one player to the other is never followed to a player who
\* has been deleted, nor to his trade with somebody else.
Paired ==
    \A p \in Players : trade[p] # None =>
        LET q == trade[p].trader
        IN  /\ p # q /\ {p, q} \subseteq here
            /\ trade[q] # None /\ trade[q].trader = p

\* An acceptance that counts is one of the two offers as they stand: whatever
\* the two do in between, nobody has accepted an offer that was changed later.
AcceptedStands ==
    \A p \in Players : trade[p] # None /\ trade[p].accepted => trade[p].seen = Both(trade, p)

\* If the step ends the trade of p and both players stay: what is moved.
AsAgreed(p) ==
    LET q == trade[p].trader
        mine == trade[p].seen[1]
        his == trade[p].seen[2]
        Of(offer, held) == {offer.items[s] : s \in 1 .. Traded} \cap held
    IN  /\ trade[p] # None /\ trade'[p] = None
        /\ {p, q} \subseteq here'
        /\ gold' # gold \/ inv' # inv
        => /\ trade[p].accepted \/ trade[q].accepted
           /\ trade[p].accepted =>
                 /\ gold'[p] = gold[p] - mine.money + his.money
                 /\ inv'[p] = (inv[p] \ Of(mine, inv[p])) \cup Of(his, inv[q])
           /\ gold'[p] + gold'[q] = gold[p] + gold[q]
           /\ inv'[p] \cup inv'[q] = inv[p] \cup inv[q]

\* A trade that is executed follows what was accepted, by one of the two before
\* it: the money and the items he agreed to give go, those he agreed to take
\* come as far as the other one still has them, and the two together lose and
\* gain nothing.
TradedAsAgreed == [][\A p \in Players : AsAgreed(p)]_vars

Total(f) == MapThenSumSet(LAMBDA p : f[p], DOMAIN f)

\* A crash doubles nothing: no two characters of the database have the same
\* item, nor more money together than there was; nor have two players.
NothingDoubled ==
    /\ \A p, q \in Players : p # q =>
          rows[p].inv \cap rows[q].inv = {} /\ inv[p] \cap inv[q] = {}
    /\ Total([p \in Players |-> rows[p].gold]) <= Total(StartGold)
=============================================================================
