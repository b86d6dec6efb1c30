--------------------------- MODULE AuctionListing ---------------------------
(***************************************************************************)
(* Auction house searches.  A map thread files a search in a temporary     *)
(* list; the auction listing thread moves the searches to a list of its    *)
(* own, lets their delays run out and executes one of them at a time,      *)
(* reading the auctions and the player.  World::Update keeps it out while  *)
(* it changes auctions and sessions: it withdraws the permission, which a  *)
(* search in progress notices, and takes the lock the listing thread       *)
(* holds while it works.                                                   *)
(*                                                                         *)
(* Time is abstracted: the delay of a search has run out or not each time  *)
(* the listing thread looks.  What a search finds is abstracted away.      *)
(***************************************************************************)
EXTENDS Naturals, Sequences, SequencesExt

CONSTANTS
    Requests,   \* searches, each filed at most once
    Players,    \* players
    PlayerOf,   \* who searches
    Nobody        \* nobody

ASSUME RequestAssumption ==
    /\ PlayerOf \in [Requests -> Players]
    /\ Nobody \notin Requests \cup {"world", "lister"}

VARIABLES
    online,     \* the players in the world: FindPlayer finds them
    filed,      \* history: the searches that were filed
    temp,       \* auctionListingListTemp
    list,       \* auctionListingList
    due,        \* searches whose _msTimer is zero
    answered,   \* history: the searches that were executed, or dropped for want of a player
    allowed,    \* auctionListingAllowed
    lock,       \* the holder of auctionListingLock
    wpc,        \* where the world thread is
    lpc,        \* where the listing thread is
    current,    \* the search being executed
    stopped     \* World::IsStopped

listingVars == <<online, filed, temp, list, due, answered, allowed, lock, wpc, lpc, current, stopped>>

ListingInit ==
    /\ online = {}
    /\ filed = {}
    /\ temp = <<>>
    /\ list = <<>>
    /\ due = {}
    /\ answered = {}
    /\ allowed = FALSE
    /\ lock = Nobody
    /\ wpc = "tick"
    /\ lpc = "check"
    /\ current = Nobody
    /\ stopped = FALSE

-----------------------------------------------------------------------------
(* The world thread and the map threads.                                   *)

\* WorldSession::HandleAuctionListItems, on a map thread.
HandleAuctionListItems(r) ==
    /\ wpc = "tick"
    /\ r \notin filed
    /\ PlayerOf[r] \in online
    /\ filed' = filed \cup {r}
    /\ temp' = Append(temp, r)
    /\ UNCHANGED <<online, list, due, answered, allowed, lock, wpc, lpc, current, stopped>>

\* World::Update comes to the section with the mutex.
Forbid ==
    /\ wpc = "tick"
    /\ ~stopped
    /\ allowed' = FALSE
    /\ wpc' = "wait"
    /\ UNCHANGED <<online, filed, temp, list, due, answered, lock, lpc, current, stopped>>

\* Mutant: the lock is not taken.
EnterSectionUnlocked ==
    /\ wpc = "wait"
    /\ wpc' = "section"
    /\ UNCHANGED <<online, filed, temp, list, due, answered, allowed, lock, lpc, current, stopped>>

EnterSection ==
    /\ wpc = "wait"
    /\ lock = Nobody
    /\ lock' = "world"
    /\ wpc' = "section"
    /\ UNCHANGED <<online, filed, temp, list, due, answered, allowed, lpc, current, stopped>>

\* UpdateSessions: a player logs in, or leaves and is deleted.
Login(p) ==
    /\ wpc = "section"
    /\ online' = online \cup {p}
    /\ UNCHANGED <<filed, temp, list, due, answered, allowed, lock, wpc, lpc, current, stopped>>

Logout(p) ==
    /\ wpc = "section"
    /\ p \in online
    /\ online' = online \ {p}
    /\ UNCHANGED <<filed, temp, list, due, answered, allowed, lock, wpc, lpc, current, stopped>>

\* "end of section with mutex": the lock is released, then the permission given.
LeaveSection ==
    /\ wpc = "section"
    /\ lock' = Nobody
    /\ wpc' = "leave"
    /\ UNCHANGED <<online, filed, temp, list, due, answered, allowed, lpc, current, stopped>>

Allow ==
    /\ wpc = "leave"
    /\ allowed' = TRUE
    /\ wpc' = "tick"
    /\ UNCHANGED <<online, filed, temp, list, due, answered, lock, lpc, current, stopped>>

StopNow ==
    /\ ~stopped
    /\ stopped' = TRUE
    /\ UNCHANGED <<online, filed, temp, list, due, answered, allowed, lock, wpc, lpc, current>>

\* WorldRunnable::run: KickAll and the last UpdateSessions delete players (of
\* which ones, see WorldSessions).
LastUpdateSessions ==
    /\ wpc = "tick"
    /\ stopped
    /\ online' \in SUBSET online
    /\ wpc' = "end"
    /\ UNCHANGED <<filed, temp, list, due, answered, allowed, lock, lpc, current, stopped>>

-----------------------------------------------------------------------------
(* The listing thread: AuctionListingRunnable::run.                        *)

\* Mutant: the permission is not asked for.
CheckAlways ==
    /\ lpc = "check"
    /\ ~stopped
    /\ temp # <<>> \/ list # <<>>
    /\ lpc' = "lock"
    /\ UNCHANGED <<online, filed, temp, list, due, answered, allowed, lock, wpc, current, stopped>>

\* There is permission, and something in one of the lists (both are looked at
\* without a lock).
Check ==
    /\ lpc = "check"
    /\ ~stopped
    /\ allowed
    /\ temp # <<>> \/ list # <<>>
    /\ lpc' = "lock"
    /\ UNCHANGED <<online, filed, temp, list, due, answered, allowed, lock, wpc, current, stopped>>

\* Mutant: the delays are not counted down.
TakeSearchesUntimed(expired) ==
    /\ lpc = "lock"
    /\ lock = Nobody
    /\ lock' = "lister"
    /\ list' = list \o temp
    /\ temp' = <<>>
    /\ lpc' = "choose"
    /\ UNCHANGED <<online, filed, due, answered, allowed, wpc, current, stopped>>

\* With the lock: the new searches are taken over, and the delays of some
\* have run out (expired).
TakeSearches(expired) ==
    /\ lpc = "lock"
    /\ lock = Nobody
    /\ lock' = "lister"
    /\ expired \subseteq ToSet(list \o temp)
    /\ list' = list \o temp
    /\ temp' = <<>>
    /\ due' = due \cup expired
    /\ lpc' = "choose"
    /\ UNCHANGED <<online, filed, answered, allowed, wpc, current, stopped>>

\* The searches of the list whose delay is over, by position.
Ready == {n \in DOMAIN list : list[n] \in due}
FirstReady == CHOOSE n \in Ready : \A m \in Ready : n <= m

\* Nothing is ready.
NothingReady ==
    /\ lpc = "choose"
    /\ Ready = {}
    /\ lock' = Nobody
    /\ lpc' = "check"
    /\ UNCHANGED <<online, filed, temp, list, due, answered, allowed, wpc, current, stopped>>

\* Execute finds the player.
BeginExecute ==
    /\ lpc = "choose"
    /\ Ready # {}
    /\ PlayerOf[list[FirstReady]] \in online
    /\ current' = list[FirstReady]
    /\ lpc' = "execute"
    /\ UNCHANGED <<online, filed, temp, list, due, answered, allowed, lock, wpc, stopped>>

\* The player is gone, or not where he can search: the search is dropped.
DropSearch ==
    /\ lpc = "choose"
    /\ Ready # {}
    /\ answered' = answered \cup {list[FirstReady]}
    /\ list' = RemoveAt(list, FirstReady)
    /\ lock' = Nobody
    /\ lpc' = "check"
    /\ UNCHANGED <<online, filed, temp, due, allowed, wpc, current, stopped>>

\* Mutant: the search is kept although it was answered.
FinishExecuteKept ==
    /\ lpc = "execute"
    /\ answered' = answered \cup {current}
    /\ current' = Nobody
    /\ lock' = Nobody
    /\ lpc' = "check"
    /\ UNCHANGED <<online, filed, temp, list, due, allowed, wpc, stopped>>

\* The result is sent.
FinishExecute ==
    /\ lpc = "execute"
    /\ answered' = answered \cup {current}
    /\ list' = RemoveAt(list, FirstReady)
    /\ current' = Nobody
    /\ lock' = Nobody
    /\ lpc' = "check"
    /\ UNCHANGED <<online, filed, temp, due, allowed, wpc, stopped>>

\* "World::Update is waiting for us": the search is given up until later.
InterruptExecute ==
    /\ lpc = "execute"
    /\ ~allowed
    /\ current' = Nobody
    /\ lock' = Nobody
    /\ lpc' = "check"
    /\ UNCHANGED <<online, filed, temp, list, due, answered, allowed, wpc, stopped>>

ListingExit ==
    /\ lpc = "check"
    /\ stopped
    /\ lpc' = "exit"
    /\ UNCHANGED <<online, filed, temp, list, due, answered, allowed, lock, wpc, current, stopped>>

ListingEnds == wpc = "end" /\ lpc = "exit" /\ UNCHANGED listingVars

-----------------------------------------------------------------------------
Lister ==
    \/ Check
    \/ \E expired \in SUBSET Requests : TakeSearches(expired)
    \/ NothingReady
    \/ BeginExecute
    \/ DropSearch
    \/ FinishExecute
    \/ InterruptExecute
    \/ ListingExit

WorldThread == Forbid \/ EnterSection \/ LeaveSection \/ Allow \/ LastUpdateSessions

ListingNext ==
    \/ \E r \in Requests : HandleAuctionListItems(r)
    \/ WorldThread
    \/ \E p \in Players : Login(p) \/ Logout(p)
    \/ StopNow
    \/ Lister
    \/ ListingEnds

ListingSpec == ListingInit /\ [][ListingNext]_listingVars

\* Both threads keep running, the listing thread meets the permission and the
\* lock sooner or later, and delays run out.
ListingFairSpec ==
    /\ ListingSpec
    /\ WF_listingVars(WorldThread)
    /\ WF_listingVars(Lister)
    /\ SF_listingVars(Check)
    /\ SF_listingVars(TakeSearches(ToSet(list \o temp)))

-----------------------------------------------------------------------------
(* Properties.                                                             *)

\* Every variable keeps its type.
ListingTypeOK ==
    /\ online \subseteq Players
    /\ filed \subseteq Requests
    /\ temp \in Seq(Requests)
    /\ list \in Seq(Requests)
    /\ due \subseteq Requests
    /\ answered \subseteq Requests
    /\ allowed \in BOOLEAN
    /\ lock \in {Nobody, "world", "lister"}
    /\ wpc \in {"tick", "wait", "section", "leave", "end"}
    /\ lpc \in {"check", "lock", "choose", "execute", "exit"}
    /\ current \in Requests \cup {Nobody}
    /\ stopped \in BOOLEAN

\* While the world loop runs, no search is executed while World::Update
\* changes auctions and sessions, so the player of a search in progress is
\* not deleted under it.
NoListingInSection ==
    /\ wpc = "section" => lpc \notin {"choose", "execute"}
    /\ lpc = "execute" /\ wpc # "end" => PlayerOf[current] \in online

\* A search is in one place: waiting in one of the two lists, once, or done;
\* none is lost and none is answered twice.
EachSearchOnce ==
    LET waiting == temp \o list IN
    \A r \in filed :
        IF r \in answered
        THEN \A n \in DOMAIN waiting : waiting[n] # r
        ELSE \E n \in DOMAIN waiting : \A m \in DOMAIN waiting : waiting[m] = r <=> m = n

\* The tick waits for the search in progress at most: the listing thread does
\* not come back for the lock while World::Update waits for it, and lets it go.
WorldNotStarved ==
    /\ wpc = "wait" ~> wpc = "section"
    /\ [][wpc = "wait" /\ wpc' = "wait" /\ lpc = "check" => lpc' # "lock"]_listingVars

\* The hypothesis of SearchesAnswered, which the code does not guarantee: from
\* some time on no search is interrupted.  An interrupted one starts again from
\* the beginning, at the head of the list, and nothing counts how often.
InterruptionsEnd == <>[][~InterruptExecute]_listingVars

\* Interruptions without end are the only way to starve a search: if they end,
\* every search is answered, or dropped because its player is gone, whatever
\* is filed later and however often those before it were interrupted, unless
\* the world stops.
SearchesAnswered ==
    InterruptionsEnd => \A r \in Requests : r \in filed ~> r \in answered \/ stopped
=============================================================================
