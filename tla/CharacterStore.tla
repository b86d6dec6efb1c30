--------------------------- MODULE CharacterStore ---------------------------
(***************************************************************************)
(* The rows of the character database that hold money and items, and the   *)
(* queue of transactions in front of them.                                 *)
(*                                                                         *)
(* CharacterDatabase has one worker thread (CharacterDatabase.WorkerThreads *)
(* in worldserver.conf.dist), so transactions are applied whole and in the *)
(* order in which they were committed (IssueOrder of module DatabasePool). *)
(* Each is then a function of the rows before it, and the queue is kept as *)
(* the sequence of the states it will go through: Head(log) is what the    *)
(* database holds now, Last(log) what it will hold once the queue is empty.*)
(*                                                                         *)
(* A state of the database is a record                                     *)
(*   gold     characters.money                                             *)
(*   inv      character_inventory, as the set of items of a character      *)
(*   mails    mail and mail_items, a set of mails                          *)
(*   ah       auctionhouse, by item                                        *)
(*   chars    the characters that exist                                    *)
(* and three fields that account for what leaves these tables:             *)
(*   parted   items cut off from a stack, whose auction is not stored yet  *)
(*   gone     items that were destroyed (their item_instance is deleted)   *)
(*   burnt    money paid in fees or thrown away                            *)
(***************************************************************************)
EXTENDS Integers, Sequences, FiniteSets, FiniteSetsExt, SequencesExt

CONSTANTS Chars, Items, None,
          House,        \* the sender of the mails of the auction house
          MailIds,      \* bound: as many mails may exist at a time
          StartGold,    \* the money a character begins with
          StartItems,   \* the items a character begins with
          Deposit,      \* the deposit of an auction
          MaxQueue      \* bound: transactions waiting for the worker

ASSUME StoreAssumption ==
    /\ MailIds \subseteq Nat /\ IsFiniteSet(MailIds)
    /\ IsFiniteSet(Chars) /\ IsFiniteSet(Items)
    /\ StartGold \in [Chars -> Nat]
    /\ StartItems \in [Chars -> SUBSET Items]
    /\ \A c, d \in Chars : c # d => StartItems[c] \cap StartItems[d] = {}
    /\ \A x \in Items : \E c \in Chars : x \in StartItems[c]
    /\ Deposit \in Nat /\ MaxQueue \in Nat
    /\ None \notin Chars \cup {House} /\ House \notin Chars

VARIABLE log            \* the states of the database, the queue included

Mails == [id : MailIds, from : Chars \cup {House}, to : Chars, money : Nat,
          cod : Nat, items : SUBSET Items, back : BOOLEAN]

Auctions == [owner : Chars, bidder : Chars \cup {None}, bid : Nat, buyout : Nat]

ASSUME NoneAssumption == None \notin Auctions

Databases ==
    [gold : [Chars -> Nat], inv : [Chars -> SUBSET Items], mails : SUBSET Mails,
     ah : [Items -> Auctions \cup {None}], chars : SUBSET Chars,
     parted : SUBSET (Chars \X Items), gone : SUBSET Items, burnt : Nat]

Now == Head(log)

Soon == Last(log)

StoreInit ==
    log = <<[gold |-> StartGold, inv |-> StartItems, mails |-> {},
             ah |-> [x \in Items |-> None], chars |-> Chars,
             parted |-> {}, gone |-> {}, burnt |-> 0]>>

\* CommitTransaction: the transactions are queued, in this order.
Commit(states) ==
    /\ Len(log) + Len(states) <= MaxQueue + 1
    /\ log' = log \o states

\* The worker thread takes a transaction from the queue and applies it.
Applied ==
    /\ Len(log) > 1
    /\ log' = Tail(log)

\* The sum of the values of a function.
Total(f) == MapThenSumSet(LAMBDA x : f[x], DOMAIN f)

Money(mails) == Total([m \in mails |-> m.money])

Destroy(db, things, money) ==
    [db EXCEPT !.gone = @ \cup things, !.burnt = @ + money]

-----------------------------------------------------------------------------
(* What the rows say, read as in module Exchange.                          *)

Auctioned(db) == {x \in Items : db.ah[x] # None}

\* What a character has in an auction: his bid, or the deposit.
Stake(a, c) == IF a.owner = c THEN Deposit ELSE IF a.bidder = c THEN a.bid ELSE 0

Wealth(db) == [c \in Chars |->
    db.gold[c]
    + Money({m \in db.mails : m.to = c})
    + Total([x \in Auctioned(db) |-> Stake(db.ah[x], c)])]

\* An item that is sent cash on delivery is its sender's until it is paid.
MailHolder(m) == IF m.cod > 0 THEN m.from ELSE m.to

Holders(db, x) ==
    {c \in Chars : \/ x \in db.inv[c]
                   \/ \E m \in db.mails : x \in m.items /\ MailHolder(m) = c
                   \/ db.ah[x] # None /\ db.ah[x].owner = c
                   \/ <<c, x>> \in db.parted}

Holder(db) == [x \in Items |->
    IF x \in db.gone \/ Holders(db, x) = {} THEN None
    ELSE CHOOSE c \in Holders(db, x) : TRUE]

Offers(db) == [x \in Items |->
    IF x \in db.gone THEN {}
    ELSE {<<m.to, m.cod>> : m \in {n \in db.mails : x \in n.items /\ n.cod > 0}}
         \cup (IF db.ah[x] = None THEN {}
               ELSE {<<c, db.ah[x].buyout>> : c \in Chars \ {db.ah[x].owner}}
                    \cup {<<db.ah[x].bidder, db.ah[x].bid>>})]

\* The number of places in which the rows say an item is.
Places(db, x) ==
    Cardinality({c \in Chars : x \in db.inv[c]})
    + Cardinality({m \in db.mails : x \in m.items})
    + (IF db.ah[x] = None THEN 0 ELSE 1)
    + Cardinality({c \in Chars : <<c, x>> \in db.parted})

TotalMoney(db) == Total(Wealth(db)) + db.burnt
=============================================================================
