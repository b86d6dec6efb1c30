---------------------------- MODULE AuctionHouse ----------------------------
(***************************************************************************)
(* The auction house (AuctionHouseHandler.cpp, AuctionHouseMgr.cpp) on top *)
(* of the mail: what is sold, bid, bought out, cancelled or expires moves  *)
(* money and items between characters, through mails and transactions.     *)
(* The module composes the auctions with everything module Mail does.      *)
(***************************************************************************)
EXTENDS Mail

CONSTANTS StartBid,         \* the start bid of an auction
          Buyouts,          \* the buyout prices sellers ask for, 0 for none
          Prices,           \* the prices bidders offer
          CutPercent,       \* the share of the house (AuctionHouse.dbc)
          Leavers,          \* bound: the characters that may be deleted
          DeleteSellers     \* whether also while they have auctions

ASSUME AuctionAssumption ==
    /\ StartBid \in Nat /\ Buyouts \subseteq Nat /\ Prices \subseteq Nat
    /\ CutPercent \in 0 .. 100 /\ Leavers \subseteq Chars /\ DeleteSellers \in BOOLEAN

VARIABLE ah     \* AuctionsMap and mAitems: the auctions in memory, by item

vars == <<log, status, ahead, gold, inv, box, deleted, ah>>

\* AuctionEntry::GetAuctionCut.
AuctionCut(a) == (a.bid * CutPercent) \div 100

\* AuctionEntry::GetAuctionOutBid.
AuctionOutBid(a) == IF (a.bid * 5) \div 100 = 0 THEN 1 ELSE (a.bid * 5) \div 100

NewAuction(c, buyout) == [owner |-> c, bidder |-> None, bid |-> 0, buyout |-> buyout]

Here == [db |-> Soon, box |-> box]

-----------------------------------------------------------------------------
(* The mails of the auction house, each on a pair of rows and boxes.       *)

\* A letter of the house; who is not there any more does not get it and what
\* is in it is lost.
HouseMail(st, to, money, items) ==
    IF Exists(to)
    THEN SendMailTo(st, Letter(Unused(UsedIds \cup {m.id : m \in st.db.mails}),
                               House, to, money, 0, items, FALSE))
    ELSE [st EXCEPT !.db = Destroy(@, items, money)]

\* Mutant: the bidder is told, but the money is not in the mail.
RefundNothing(st, a) == st

\* SendAuctionOutbiddedMail and SendAuctionCancelledToBidderMail.
RefundBidder(st, a) == HouseMail(st, a.bidder, a.bid, {})

\* SendAuctionSuccessfulMail: the bid and the deposit less the cut.
SendAuctionSuccessfulMail(st, a) ==
    LET cut == AuctionCut(a)
        paid == HouseMail(st, a.owner, a.bid + Deposit - cut, {})
    IN  [paid EXCEPT !.db = Destroy(@, {}, cut)]

\* SendAuctionWonMail.
SendAuctionWonMail(st, a, x) == HouseMail(st, a.bidder, 0, {x})

\* SendAuctionExpiredMail, with the deposit kept by the house.
SendAuctionExpiredMail(st, a, x) ==
    [HouseMail(st, a.owner, 0, {x}) EXCEPT !.db = Destroy(@, {}, Deposit)]

\* Mutant: the auction is only forgotten in memory.
NotStruck(db, x) == db

\* DeleteFromDB of an auction.
Struck(db, x) == [db EXCEPT !.ah[x] = None]

-----------------------------------------------------------------------------
(* The handlers.                                                           *)

\* What HandleAuctionSellItem does in memory.
PutUp(c, x, buyout) ==
    /\ InWorld(c)
    /\ x \in inv[c]
    /\ ah[x] = None
    /\ gold[c] >= Deposit
    /\ gold' = [gold EXCEPT ![c] = @ - Deposit]
    /\ inv' = [inv EXCEPT ![c] = @ \ {x}]
    /\ ah' = [ah EXCEPT ![x] = NewAuction(c, buyout)]
    /\ UNCHANGED <<status, ahead, box, deleted>>

\* HandleAuctionSellItem of a whole stack, in one transaction.
SellItem(c, x, buyout) ==
    /\ PutUp(c, x, buyout)
    /\ Commit(<<[SaveInventoryAndGold(Soon, c, gold'[c], inv'[c])
                 EXCEPT !.ah[x] = NewAuction(c, buyout)]>>)

\* HandleAuctionSellItem of a part of a stack, or of several: what is taken
\* off the stacks is committed before the item that is put up.
SellPart(c, x, buyout) ==
    LET split == [Soon EXCEPT !.inv[c] = @ \ {x}, !.parted = @ \cup {<<c, x>>}]
    IN  /\ PutUp(c, x, buyout)
        /\ Commit(<<split, [SaveInventoryAndGold(split, c, gold'[c], inv'[c])
                            EXCEPT !.ah[x] = NewAuction(c, buyout), !.parted = @ \ {<<c, x>>}]>>)

\* The checks of HandleAuctionPlaceBid.
CanBid(c, x, price) ==
    LET a == ah[x]
    IN  /\ InWorld(c)
        /\ a # None
        /\ a.owner # c
        /\ price > a.bid /\ price >= StartBid
        /\ price < a.buyout \/ a.buyout = 0 => price >= a.bid + AuctionOutBid(a)
        /\ gold[c] >= price

\* HandleAuctionPlaceBid below the buyout price: who raises his own bid pays
\* the difference, anybody else pays in full and the last bidder is refunded.
PlaceBid(c, x, price) ==
    LET a == ah[x]
        st == IF a.bidder \in {None, c} THEN Here ELSE RefundBidder(Here, a)
        new == [a EXCEPT !.bidder = c, !.bid = price]
    IN  /\ CanBid(c, x, price)
        /\ price < a.buyout \/ a.buyout = 0
        /\ HasRoom(1)
        /\ gold' = [gold EXCEPT ![c] = @ - price + (IF a.bidder = c THEN a.bid ELSE 0)]
        /\ ah' = [ah EXCEPT ![x] = new]
        /\ box' = st.box
        /\ Commit(<<[SaveInventoryAndGold(st.db, c, gold'[c], inv[c]) EXCEPT !.ah[x] = new]>>)
        /\ UNCHANGED <<status, ahead, inv, deleted>>

\* Mutant: who buys out gets the item for the bid that stands.
BoughtAtBid(a, c) == [a EXCEPT !.bidder = c]

\* The auction at the price of the buyout.
Bought(a, c) == [a EXCEPT !.bidder = c, !.bid = a.buyout]

\* HandleAuctionPlaceBid at the buyout price or above, which only costs the
\* buyout price.
Buyout(c, x, price) ==
    LET a == ah[x]
        bought == Bought(a, c)
        refunded == IF a.bidder \in {None, c} THEN Here ELSE RefundBidder(Here, a)
        st == SendAuctionWonMail(SendAuctionSuccessfulMail(refunded, bought), bought, x)
    IN  /\ CanBid(c, x, price)
        /\ price >= a.buyout /\ a.buyout # 0
        /\ HasRoom(3)
        /\ gold' = [gold EXCEPT ![c] = @ - bought.bid + (IF a.bidder = c THEN a.bid ELSE 0)]
        /\ ah' = [ah EXCEPT ![x] = None]
        /\ box' = st.box
        /\ Commit(<<SaveInventoryAndGold(Struck(st.db, x), c, gold'[c], inv[c])>>)
        /\ UNCHANGED <<status, ahead, inv, deleted>>

\* HandleAuctionRemoveItem: the owner pays the cut of a bid, which is refunded.
CancelAuction(c, x) ==
    LET a == ah[x]
        cut == IF a.bidder = None THEN 0 ELSE AuctionCut(a)
        refunded == IF a.bidder = None THEN Here ELSE RefundBidder(Here, a)
        st == HouseMail(refunded, c, 0, {x})
    IN  /\ InWorld(c)
        /\ a # None
        /\ a.owner = c
        /\ gold[c] >= cut
        /\ HasRoom(2)
        /\ gold' = [gold EXCEPT ![c] = @ - cut]
        /\ ah' = [ah EXCEPT ![x] = None]
        /\ box' = st.box
        /\ Commit(<<Destroy(SaveInventoryAndGold(Struck(st.db, x), c, gold'[c], inv[c]),
                            {}, cut + Deposit)>>)
        /\ UNCHANGED <<status, ahead, inv, deleted>>

\* AuctionHouseObject::Update of an auction that has expired.  When the item
\* has nobody to go to, RemoveAItem deletes it in a transaction of its own,
\* committed before that of the mails.
AuctionExpires(x) ==
    LET a == ah[x]
        heir == IF a.bidder = None THEN a.owner ELSE a.bidder
        early == IF Exists(heir) THEN <<>> ELSE <<Destroy(Soon, {x}, 0)>>
        st == IF a.bidder = None THEN SendAuctionExpiredMail(Here, a, x)
              ELSE SendAuctionWonMail(SendAuctionSuccessfulMail(Here, a), a, x)
    IN  /\ a # None
        /\ HasRoom(2)
        /\ ah' = [ah EXCEPT ![x] = None]
        /\ box' = st.box
        /\ Commit(early \o <<Struck(st.db, x)>>)
        /\ UNCHANGED <<status, ahead, gold, inv, deleted>>

\* LoadAuctionItems and LoadAuctions after a crash: an auction whose item has
\* no row any more is not found.
Restart ==
    /\ Crash
    /\ ah' = [x \in Items |-> IF x \in Now.gone THEN None ELSE Now.ah[x]]

Init ==
    /\ MailInit
    /\ ah = [x \in Items |-> None]

Next ==
    \/ MailNext /\ UNCHANGED ah
    \/ \E c \in Leavers :
          /\ DeleteCharacter(c)
          /\ DeleteSellers \/ \A x \in Items : ah[x] # None => ah[x].owner # c
          /\ UNCHANGED ah
    \/ \E c \in Chars, x \in Items, b \in Buyouts : SellItem(c, x, b) \/ SellPart(c, x, b)
    \/ \E c \in Chars, x \in Items, p \in Prices : PlaceBid(c, x, p) \/ Buyout(c, x, p)
    \/ \E c \in Chars, x \in Items : CancelAuction(c, x)
    \/ \E x \in Items : AuctionExpires(x)
    \/ Restart

Spec == Init /\ [][Next]_vars

-----------------------------------------------------------------------------
(* Properties.                                                             *)

\* Every variable keeps its type.
TypeOK ==
    /\ log \in Seq(Databases) /\ log # <<>>
    /\ status \in [Chars -> Statuses]
    /\ ahead \in [Chars -> Nat]
    /\ gold \in [Chars -> Nat]
    /\ inv \in [Chars -> SUBSET Items]
    /\ box \in [Chars -> SUBSET Mails]
    /\ deleted \in [Chars -> SUBSET MailIds]
    /\ ah \in [Items -> Auctions \cup {None}]

\* No item is lost or doubled by a crash: in every state the database goes
\* through, an item that was not destroyed is in exactly one inventory, mail
\* or auction, or parted from its stack by the first of the two transactions
\* of SellPart; one that was destroyed is in none, but for the auction whose
\* own transaction is still to come.
ItemsOnce ==
    \A n \in DOMAIN log : \A x \in Items :
        IF x \in log[n].gone
        THEN Places(log[n], x) = IF log[n].ah[x] = None THEN 0 ELSE 1
        ELSE Places(log[n], x) = 1

\* No money is made or lost by a crash: in every state the database goes
\* through, what characters have in their purses, mails, bids and deposits,
\* and what was paid in fees or thrown away, is what there was at the start.
MoneyConserved ==
    \A n \in DOMAIN log :
        TotalMoney(log[n]) = Total(StartGold)

\* A mail in the mail box of a character in the world is a mail of the
\* database, with the same money, price and items.
BoxStored == \A c \in Chars : InWorld(c) => box[c] \subseteq {m \in Soon.mails : m.to = c}

\* What the handlers work with is what the database will hold: the purse and
\* the inventory of every character in the world, the auctions, and the mail
\* boxes, however mails were sent, returned, taken and expired meanwhile:
\* nothing is answered from a copy that has gone stale.
MemoryStored ==
    /\ \A c \in Chars : InWorld(c) => gold[c] = Soon.gold[c] /\ inv[c] = Soon.inv[c]
    /\ \A x \in Items \ Soon.gone : ah[x] = Soon.ah[x]
    /\ BoxStored

Exchanged == INSTANCE Exchange WITH
    wealth <- Wealth(Now), holder <- Holder(Now), offers <- Offers(Now),
    left <- Chars \ Now.chars

\* The database implements an exchange of goods, across crashes: an item on
\* sale passes to a buyer only in the step in which he pays the agreed price,
\* money comes to a character only out of what another one paid or gave, and
\* nobody disposes of what is another's.
IsExchange == Exchanged!Spec

-----------------------------------------------------------------------------
(* What the sources say and the code does not do.                          *)

\* ObjectMgr::ReturnOrDeleteOldMails: "don't modify mails of a logged in
\* player".
LoggedInMailKept == BoxStored
=============================================================================
