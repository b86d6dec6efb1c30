-------------------------------- MODULE Mail --------------------------------
(***************************************************************************)
(* Mails between characters: the handlers of MailHandler.cpp, MailDraft    *)
(* (Mail.cpp), the mail box of a Player, its loading and saving, and the   *)
(* pass that returns or deletes expired mails (ObjectMgr.cpp); with the    *)
(* coming and going of characters and the crash of the server, which       *)
(* decide what is in memory and what only in the database.                 *)
(*                                                                         *)
(* All handlers run on the world thread, one at a time; the database       *)
(* worker applies their transactions later, and synchronous queries read   *)
(* what it has applied so far.                                             *)
(*                                                                         *)
(* A mail in which there is nothing (any more) but its text is left out.   *)
(***************************************************************************)
EXTENDS CharacterStore

CONSTANTS Postage,      \* the price of a mail, per item and at least once
          Sums,         \* the amounts players write into mails
          Letters,      \* bound: who writes mails to whom
          MaxMoney,     \* MAX_MONEY_AMOUNT
          Races         \* whether the two operations that read the database
                        \* synchronously before they queue changes, the pass
                        \* over expired mails and the deletion of a character,
                        \* may run while transactions are queued

ASSUME MailAssumption ==
    /\ Postage \in Nat /\ Sums \subseteq Nat /\ Letters \subseteq Chars \X Chars /\ MaxMoney \in Nat
    /\ Races \in BOOLEAN

VARIABLES
    status,     \* of a character: "gone" (deleted), "offline", "loading"
                \* or "online"
    ahead,      \* the transactions in front of the last query of its account
    gold,       \* Player::GetMoney, of the characters in the world; of one
                \* that is loading, what the queries of the login found
    inv,        \* the inventory, likewise
    box,        \* Player::m_mail with the mailed items
    deleted     \* the ids of the mails in it with MAIL_STATE_DELETED

Statuses == {"gone", "offline", "loading", "online"}

InWorld(c) == status[c] = "online"

Exists(c) == c \in Chars /\ status[c] # "gone"

\* Everything that is forgotten with the Player object.
Forgotten(c) ==
    /\ gold' = [gold EXCEPT ![c] = 0]
    /\ inv' = [inv EXCEPT ![c] = {}]
    /\ box' = [box EXCEPT ![c] = {}]
    /\ deleted' = [deleted EXCEPT ![c] = {}]

-----------------------------------------------------------------------------
(* Building blocks of the handlers.                                        *)

UsedIds == {m.id : m \in UNION ({log[n].mails : n \in DOMAIN log} \cup {box[c] : c \in Chars})}

Unused(used) == Min(MailIds \ used)

HasRoom(n) == Cardinality(MailIds \ UsedIds) >= n

Letter(id, from, to, money, cod, items, back) ==
    [id |-> id, from |-> from, to |-> to, money |-> money,
     cod |-> cod, items |-> items, back |-> back]

Carrying(mails) == {m \in mails : m.money > 0 \/ m.items # {}}

\* MailDraft::SendMailTo, on a pair of the rows and the boxes: the mail goes
\* into the database, and into the memory of a receiver who is in the world.
SendMailTo(st, m) ==
    [db |-> [st.db EXCEPT !.mails = @ \cup Carrying({m})],
     box |-> IF InWorld(m.to) THEN [st.box EXCEPT ![m.to] = @ \cup Carrying({m})] ELSE st.box]

\* A mail on its way back.  It gets a new id, which here may be the old one,
\* for the old mail is deleted in the same transaction.
Turned(m) == [m EXCEPT !.from = m.to, !.to = m.from, !.cod = 0, !.back = TRUE]

\* MailDraft::SendReturnToSender: the mail goes back, or is destroyed when its
\* sender no longer exists.
SendReturnToSender(st, m) ==
    IF Exists(m.from) THEN SendMailTo(st, Turned(m))
    ELSE [st EXCEPT !.db = Destroy(@, m.items, m.money)]

\* SaveInventoryAndGoldToDB.
SaveInventoryAndGold(db, c, money, things) ==
    [db EXCEPT !.gold[c] = money, !.inv[c] = things]

Live(c) == {m \in box[c] : m.id \notin deleted[c]}

\* Player::_SaveMail: the mail that was
\* changed is updated, the items taken out are deleted from mail_items, and the
\* mails that were deleted are removed with their items.
SaveMail(db, c, changed, taken) ==
    LET dead == {m \in box[c] : m.id \in deleted[c]}
        Updated(r) ==
            LET now == {m \in changed : m.id = r.id}
            IN  [r EXCEPT !.items = @ \ taken,
                          !.money = IF now = {} THEN @ ELSE (CHOOSE m \in now : TRUE).money,
                          !.cod = IF now = {} THEN @ ELSE (CHOOSE m \in now : TRUE).cod]
    IN  Destroy([db EXCEPT !.mails = Carrying({Updated(r) : r \in {q \in @ : q.id \notin deleted[c]}})],
                UNION {m.items : m \in dead},
                Money({r \in db.mails : r.id \in deleted[c]}))

-----------------------------------------------------------------------------
(* Characters come and go.                                                 *)

\* Player::SaveToDB and the end of the Player object at logout; what the
\* account asks the database next is queued behind.
Logout(c) ==
    /\ InWorld(c)
    /\ Commit(<<SaveMail(SaveInventoryAndGold(Soon, c, gold[c], inv[c]), c, {}, {})>>)
    /\ status' = [status EXCEPT ![c] = "offline"]
    /\ ahead' = [ahead EXCEPT ![c] = Len(log)]
    /\ Forgotten(c)

\* The queries of the login, which the worker executes together, find what db
\* holds of the characters C: the money, the inventory and the mails.
Fetched(C, db) ==
    /\ gold' = [c \in Chars |-> IF c \in C THEN db.gold[c] ELSE gold[c]]
    /\ inv' = [c \in Chars |-> IF c \in C THEN db.inv[c] ELSE inv[c]]
    /\ box' = [c \in Chars |-> IF c \in C THEN {m \in db.mails : m.to = c} ELSE box[c]]

\* HandlePlayerLoginOpcode: the queries are queued like any transaction.
LoginRequest(c) ==
    /\ status[c] = "offline"
    /\ ahead[c] = 0
    /\ status' = [status EXCEPT ![c] = "loading"]
    /\ ahead' = [ahead EXCEPT ![c] = Len(log) - 1]
    /\ Fetched(IF Len(log) = 1 THEN {c} ELSE {}, Now)
    /\ UNCHANGED <<log, deleted>>

\* HandlePlayerLoginFromDB: Player::LoadFromDB takes what the queries found,
\* _LoadMailAsynch the mails.
Login(c) ==
    /\ status[c] = "loading"
    /\ ahead[c] = 0
    /\ status' = [status EXCEPT ![c] = "online"]
    /\ UNCHANGED <<log, ahead, gold, inv, box, deleted>>

\* HandleCharDeleteOpcode and Player::DeleteFromDB of a character whose account
\* has seen its character list: the mails with items to pay for, as a
\* synchronous query finds them, go back, everything else of the character is
\* deleted, the items by their owner, so those he has in auctions too.
DeleteCharacter(c) ==
    LET returned == {m \in Now.mails : m.to = c /\ m.items # {} /\ m.cod > 0 /\ m.from # House}
        back == {Turned(m) : m \in {r \in returned : Exists(r.from)}}
        kept == {m \in Soon.mails : m.to # c}
        lost == {m \in Soon.mails : m.to = c /\ \A r \in returned : r.id # m.id}
                \cup {m \in returned : ~Exists(m.from)}
        cleared == [Destroy(Soon, Soon.inv[c] \cup (UNION {m.items : m \in lost})
                                  \cup {x \in Auctioned(Soon) : Soon.ah[x].owner = c},
                            Soon.gold[c] + Money(lost))
                    EXCEPT !.mails = kept \cup back, !.gold[c] = 0, !.inv[c] = {}, !.chars = @ \ {c}]
    IN  /\ status[c] = "offline"
        /\ ahead[c] = 0
        /\ Races \/ Len(log) = 1
        /\ Commit(<<cleared>>)
        /\ box' = [d \in Chars |->
                     IF InWorld(d) THEN box[d] \cup {m \in back : m.to = d} ELSE box[d]]
        /\ status' = [status EXCEPT ![c] = "gone"]
        /\ UNCHANGED <<ahead, gold, inv, deleted>>

-----------------------------------------------------------------------------
(* The handlers.                                                           *)

\* HandleSendMail.
SendMail(c, to, money, cod, items) ==
    LET cost == Postage * (IF items = {} THEN 1 ELSE Cardinality(items))
        m == Letter(Unused(UsedIds), c, to, money, cod, items, FALSE)
        st == SendMailTo([db |-> Soon, box |-> box], m)
    IN  /\ InWorld(c)
        /\ Exists(to) /\ to # c
        /\ items \subseteq inv[c]
        /\ money > 0 \/ items # {}
        /\ items = {} => cod = 0
        /\ gold[c] >= cost + money
        /\ HasRoom(1)
        /\ gold' = [gold EXCEPT ![c] = @ - cost - money]
        /\ inv' = [inv EXCEPT ![c] = @ \ items]
        /\ box' = st.box
        /\ Commit(<<Destroy(SaveInventoryAndGold(st.db, c, gold'[c], inv'[c]), {}, cost)>>)
        /\ UNCHANGED <<status, ahead, deleted>>

\* HandleMailDelete: a mark only, saved with the next change or at logout.
DeleteMail(c, m) ==
    /\ InWorld(c) /\ m \in box[c]
    /\ m.cod = 0
    /\ deleted' = [deleted EXCEPT ![c] = @ \cup {m.id}]
    /\ UNCHANGED <<log, status, ahead, gold, inv, box>>

\* HandleMailReturnToSender: a mail of the auction house is not returned but
\* lost, with the items whose rows in mail_items are deleted.
ReturnMail(c, m) ==
    LET left == [db |-> [Soon EXCEPT !.mails = {r \in @ : r.id # m.id}],
                 box |-> [box EXCEPT ![c] = @ \ {m}]]
        st == IF m.from = House THEN [left EXCEPT !.db = Destroy(@, m.items, m.money)]
              ELSE SendReturnToSender(left, m)
    IN  /\ InWorld(c) /\ m \in Live(c)
        /\ Commit(<<st.db>>)
        /\ box' = st.box
        /\ UNCHANGED <<status, ahead, gold, inv, deleted>>

\* HandleMailTakeItem: the price of a mail that is to be paid is sent to its
\* sender, or lost when he no longer exists.
TakeItem(c, m, x) ==
    LET payment == Letter(Unused(UsedIds), c, m.from, m.cod, 0, {}, TRUE)
        paid == IF m.cod = 0 THEN [db |-> Soon, box |-> box]
                ELSE IF Exists(m.from) THEN SendMailTo([db |-> Soon, box |-> box], payment)
                ELSE [db |-> Destroy(Soon, {}, m.cod), box |-> box]
        rest == [m EXCEPT !.cod = 0, !.items = @ \ {x}]
    IN  /\ InWorld(c) /\ m \in Live(c)
        /\ x \in m.items
        /\ gold[c] >= m.cod
        /\ m.cod > 0 => HasRoom(1)
        /\ gold' = [gold EXCEPT ![c] = @ - m.cod]
        /\ inv' = [inv EXCEPT ![c] = @ \cup {x}]
        /\ box' = [paid.box EXCEPT ![c] = Carrying((Live(c) \ {m}) \cup {rest})]
        /\ deleted' = [deleted EXCEPT ![c] = {}]
        /\ Commit(<<SaveMail(SaveInventoryAndGold(paid.db, c, gold'[c], inv'[c]), c, {rest}, {x})>>)
        /\ UNCHANGED <<status, ahead>>

\* HandleMailTakeMoney: ModifyMoney refuses what would reach MAX_MONEY_AMOUNT.
TakeMoney(c, m) ==
    LET rest == [m EXCEPT !.money = 0]
    IN  /\ InWorld(c) /\ m \in Live(c)
        /\ m.money > 0
        /\ gold[c] < MaxMoney - m.money
        /\ gold' = [gold EXCEPT ![c] = @ + m.money]
        /\ box' = [box EXCEPT ![c] = Carrying((Live(c) \ {m}) \cup {rest})]
        /\ deleted' = [deleted EXCEPT ![c] = {}]
        /\ Commit(<<SaveMail([Soon EXCEPT !.gold[c] = gold'[c]], c, {rest}, {})>>)
        /\ UNCHANGED <<status, ahead, inv>>

-----------------------------------------------------------------------------
(* Expired mails, the database worker and the crash.                       *)

\* ObjectMgr::ReturnOrDeleteOldMails for one expired mail m as the query found
\* it, in statements that are queued one by one; drop tells a mail that was
\* read, which is not returned.
Expire(db, m, drop) ==
    LET others == {r \in db.mails : r.id # m.id}
        row == {r \in db.mails : r.id = m.id}
        emptied == [db EXCEPT !.mails = others \cup Carrying({[r EXCEPT !.items = @ \ m.items] : r \in row})]
        removed == [db EXCEPT !.mails = others]
    IN  IF m.items = {} THEN <<Destroy(removed, {}, Money(row))>>
        ELSE IF m.from = House \/ m.back \/ (drop /\ m.cod = 0)
        THEN <<Destroy(emptied, m.items, 0), Destroy(removed, m.items, Money(row))>>
        ELSE <<[db EXCEPT !.mails = others \cup {Turned(r) : r \in row}]>>

\* Mutant: the mails of characters in the world are not left out.
ExpireMailAnyone(m, drop) ==
    /\ m \in Now.mails
    /\ Races \/ (Len(log) = 1 /\ \A c \in Chars : status[c] # "loading")
    /\ Commit(Expire(Soon, m, drop))
    /\ UNCHANGED <<status, ahead, gold, inv, box, deleted>>

\* The pass of World::Update, every six hours: it leaves out the mails of the
\* characters that are in the world.
ExpireMail(m, drop) ==
    /\ m \in Now.mails
    /\ ~InWorld(m.to)
    /\ Races \/ (Len(log) = 1 /\ \A c \in Chars : status[c] # "loading")
    /\ Commit(Expire(Soon, m, drop))
    /\ UNCHANGED <<status, ahead, gold, inv, box, deleted>>

\* The worker applies a transaction, and executes the queries behind it.
Apply ==
    /\ Applied
    /\ ahead' = [c \in Chars |-> IF ahead[c] = 0 THEN 0 ELSE ahead[c] - 1]
    /\ Fetched({c \in Chars : status[c] = "loading" /\ ahead[c] = 1}, log[2])
    /\ UNCHANGED <<status, deleted>>

\* The server crashes: memory and queue are lost.  It is started again, with
\* the pass over expired mails, which may find one.
Crash ==
    /\ \/ log' = <<Now>>
       \/ \E m \in Now.mails, drop \in BOOLEAN : log' = <<Now>> \o Expire(Now, m, drop)
    /\ status' = [c \in Chars |-> IF c \in Now.chars THEN "offline" ELSE "gone"]
    /\ ahead' = [c \in Chars |-> Len(log') - 1]
    /\ gold' = [c \in Chars |-> 0]
    /\ inv' = [c \in Chars |-> {}]
    /\ box' = [c \in Chars |-> {}]
    /\ deleted' = [c \in Chars |-> {}]

MailInit ==
    /\ StoreInit
    /\ status = [c \in Chars |-> "offline"]
    /\ ahead = [c \in Chars |-> 0]
    /\ gold = [c \in Chars |-> 0]
    /\ inv = [c \in Chars |-> {}]
    /\ box = [c \in Chars |-> {}]
    /\ deleted = [c \in Chars |-> {}]

MailNext ==
    \/ \E c \in Chars : Logout(c) \/ LoginRequest(c) \/ Login(c)
    \/ \E w \in Letters, money, cod \in Sums \cup {0}, items \in SUBSET Items :
          SendMail(w[1], w[2], money, cod, items)
    \/ \E c \in Chars : \E m \in box[c] :
          \/ DeleteMail(c, m) \/ ReturnMail(c, m) \/ TakeMoney(c, m)
          \/ \E x \in m.items : TakeItem(c, m, x)
    \/ \E m \in Now.mails, drop \in BOOLEAN : ExpireMail(m, drop)
    \/ Apply
=============================================================================
