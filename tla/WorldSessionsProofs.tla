------------------------ MODULE WorldSessionsProofs ------------------------
(***************************************************************************)
(* Theorems about WorldSessions, for any accounts, characters and          *)
(* connections, and any limit of players: every session has one owner, a   *)
(* character is in the world once, the queue is consistent and wastes no   *)
(* place, and the shutdown reaches every session.                          *)
(***************************************************************************)
EXTENDS WorldSessions, FiniteSetTheorems, SequenceTheorems, WellFoundedInduction, TLAPS

-----------------------------------------------------------------------------
(* The inductive invariant.                                                *)

Typed ==
    /\ live \subseteq SessionIds
    /\ account \in [SessionIds -> Accounts \cup {None}]
    /\ socket \in [SessionIds -> {"open", "closed", "none"}]
    /\ player \in [SessionIds -> Chars \cup {None}]
    /\ loading \in [SessionIds -> Chars \cup {None}]
    /\ ready \subseteq SessionIds
    /\ inQueue \subseteq SessionIds
    /\ kicked \subseteq SessionIds
    /\ connecting \subseteq SessionIds
    /\ addSessQueue \in Seq(SessionIds)
    /\ sessions \in [Accounts -> SessionIds \cup {None}]
    /\ offline \in [Accounts -> SessionIds \cup {None}]
    /\ queued \in Seq(SessionIds)
    /\ phase \in Phases
    /\ visit \subseteq Accounts

Waits(i) == \E n \in DOMAIN addSessQueue : addSessQueue[n] = i

\* Session i is the one of its account in m_sessions, or in m_offlineSessions.
IsListed(i) == i \in live /\ sessions[account[i]] = i
IsOffline(i) == i \in live /\ offline[account[i]] = i

\* Where the sessions are.
Places ==
    /\ \A i \in SessionIds : i \in live <=> account[i] # None
    /\ connecting \subseteq live
    /\ \A n \in DOMAIN addSessQueue : addSessQueue[n] \in live \ connecting
    /\ \A m, n \in DOMAIN addSessQueue : addSessQueue[m] = addSessQueue[n] => m = n
    /\ \A a \in Accounts : sessions[a] # None =>
          /\ sessions[a] \in live \ connecting /\ account[sessions[a]] = a
          /\ sessions[a] # offline[a] /\ ~Waits(sessions[a])
    /\ \A a \in Accounts : offline[a] # None =>
          /\ offline[a] \in live \ connecting /\ account[offline[a]] = a
          /\ ~Waits(offline[a])

\* A session that is not rejected is somewhere.
Kept ==
    ~MayReject =>
        \A i \in live : i \in connecting \/ Waits(i) \/ IsListed(i) \/ IsOffline(i)

\* What a session may have, depending on where it is.
Fields ==
    /\ \A i \in SessionIds :
          /\ player[i] # None =>
               /\ IsListed(i) \/ IsOffline(i)
               /\ loading[i] = None /\ OwnerOf[player[i]] = account[i]
          /\ loading[i] # None => IsListed(i) /\ OwnerOf[loading[i]] = account[i]
          /\ i \in ready => loading[i] # None
          /\ i \in inQueue => IsListed(i) /\ player[i] = None /\ loading[i] = None
          /\ i \in kicked => (IsListed(i) \/ IsOffline(i)) /\ socket[i] # "open"
    /\ \A a \in Accounts : offline[a] # None => socket[offline[a]] = "none"

\* The world thread knows the session it updates and those it has to visit.
Cursor ==
    /\ phase \in {"packets", "tail"} => IsListed(cur) /\ account[cur] \notin visit
    /\ phase \in {"sessions", "packets", "tail"} => \A a \in visit : sessions[a] # None
    /\ phase = "offline" => \A a \in visit : offline[a] # None

\* The loop over the offline sessions has still to come to account a.
Ahead(a) ==
    phase \in {"sessions", "packets", "tail"} \/ (phase = "offline" /\ a \in visit)

\* An account with two sessions: the offline one that has lost its player, or
\* that the other one has left behind, goes in the next loop.
Pair(a) ==
    offline[a] # None =>
        /\ player[offline[a]] = None => Ahead(a)
        /\ sessions[a] # None /\ (player[sessions[a]] # None \/ loading[sessions[a]] # None) =>
             /\ Ahead(a)
             /\ player[offline[a]] # None =>
                  /\ offline[a] \in kicked
                  /\ player[offline[a]] \notin {player[sessions[a]], loading[sessions[a]]}
Pairs == \A a \in Accounts : Pair(a)

\* The flags in the databases.
Online ==
    /\ charOnline \subseteq Chars
    /\ \A c \in charOnline : \E i \in live : player[i] = c
    /\ \A a \in accountOnline : \E i \in live : account[i] = a

\* m_QueuedPlayer and the flags of its sessions.
Line ==
    /\ \A n \in DOMAIN queued : queued[n] \in inQueue
    /\ \A m, n \in DOMAIN queued : queued[m] = queued[n] => m = n
    /\ ~kickedAll => \A i \in inQueue : \E n \in DOMAIN queued : queued[n] = i

\* The last UpdateSessions, after KickAll, comes to every session of account a.
Comes(a) ==
    /\ offline[a] # None => offline[a] \in kicked /\ (phase = "add" \/ Ahead(a))
    /\ sessions[a] # None /\ sessions[a] \in kicked =>
          \/ phase = "add"
          \/ phase \in {"sessions", "packets", "tail"} /\ a \in visit
          \/ phase \in {"packets", "tail"} /\ cur = sessions[a]
Ending ==
    /\ phase = "end" => kickedAll
    /\ kickedAll => stopped /\ phase # "rest" /\ \A a \in Accounts : Comes(a)

IInv ==
    /\ Typed /\ Places /\ Kept /\ Fields /\ Cursor
    /\ Pairs /\ Online /\ Line /\ Ending

-----------------------------------------------------------------------------
(* What follows from where the sessions are.                               *)

\* A session that an account lists, or keeps offline.
LEMMA ListedIs ==
    ASSUME Typed, Places, NEW a \in Accounts
    PROVE  /\ sessions[a] # None =>
                /\ sessions[a] \in live /\ sessions[a] \in SessionIds /\ account[sessions[a]] = a
                /\ IsListed(sessions[a]) /\ ~IsOffline(sessions[a])
           /\ offline[a] # None =>
                /\ offline[a] \in live /\ offline[a] \in SessionIds /\ account[offline[a]] = a
                /\ IsOffline(offline[a]) /\ ~IsListed(offline[a])
<1>1. ASSUME sessions[a] # None
      PROVE  /\ sessions[a] \in live /\ sessions[a] \in SessionIds /\ account[sessions[a]] = a
             /\ IsListed(sessions[a]) /\ ~IsOffline(sessions[a])
  BY <1>1 DEF Typed, Places, IsListed, IsOffline
<1>2. ASSUME offline[a] # None
      PROVE  /\ offline[a] \in live /\ offline[a] \in SessionIds /\ account[offline[a]] = a
             /\ IsOffline(offline[a]) /\ ~IsListed(offline[a])
  <2>1. offline[a] \in live /\ offline[a] \in SessionIds /\ account[offline[a]] = a
    BY <1>2 DEF Typed, Places
  <2>2. IsOffline(offline[a]) BY <2>1 DEF IsOffline
  <2>3. ~IsListed(offline[a]) BY <1>2, <2>1 DEF IsListed, Places
  <2> QED BY <2>1, <2>2, <2>3
<1> QED BY <1>1, <1>2

\* The account of a session.
LEMMA AccountIs ==
    ASSUME Typed, Places, NEW i \in live
    PROVE  i \in SessionIds /\ account[i] \in Accounts /\ i # None
<1>1. i \in SessionIds BY DEF Typed
<1>2. account[i] # None /\ account[i] \in Accounts \cup {None} BY <1>1 DEF Typed, Places
<1> QED BY <1>1, <1>2, ConstantAssumption

placeVars == <<live, account, connecting, addSessQueue, sessions, offline>>

LEMMA SamePlaces ==
    ASSUME Places, Kept, UNCHANGED placeVars
    PROVE  /\ Places' /\ Kept'
           /\ \A i : (IsListed(i)' <=> IsListed(i)) /\ (IsOffline(i)' <=> IsOffline(i))
<1>1. Places' BY DEF placeVars, Places, Waits
<1>2. Kept' BY DEF placeVars, Kept, Waits, IsListed, IsOffline
<1>3. \A i : (IsListed(i)' <=> IsListed(i)) /\ (IsOffline(i)' <=> IsOffline(i))
  BY DEF placeVars, IsListed, IsOffline
<1> QED BY <1>1, <1>2, <1>3

LEMMA SameOnline ==
    ASSUME Online, UNCHANGED <<live, account, player, accountOnline, charOnline>> PROVE Online'
BY DEF Online

LEMMA SameLine == ASSUME Line, UNCHANGED <<queued, inQueue, kickedAll>> PROVE Line'
BY DEF Line

LEMMA SameCursor ==
    ASSUME Cursor, UNCHANGED <<live, account, sessions, offline, phase, visit, cur>> PROVE Cursor'
BY DEF Cursor, IsListed

LEMMA SameEnding ==
    ASSUME Ending, UNCHANGED <<sessions, offline, phase, visit, cur, kicked, stopped, kickedAll>>
    PROVE  Ending'
BY DEF Ending, Comes, Ahead

LEMMA SamePairs ==
    ASSUME Pairs, UNCHANGED <<sessions, offline, phase, visit, kicked, player, loading>> PROVE Pairs'
BY DEF Pairs, Pair, Ahead

LEMMA SameFields ==
    ASSUME Fields, Places, Kept, UNCHANGED placeVars,
           UNCHANGED <<player, loading, ready, inQueue, kicked, socket>>
    PROVE  Fields'
BY SamePlaces DEF Fields, placeVars

-----------------------------------------------------------------------------
(* Lists of sessions.                                                      *)

IsIn(x, s) == \E n \in DOMAIN s : s[n] = x
Once(s) == \A m, n \in DOMAIN s : s[m] = s[n] => m = n

LEMMA Pushed ==
    ASSUME NEW s \in Seq(SessionIds), NEW i \in SessionIds, Once(s), ~IsIn(i, s)
    PROVE  /\ Append(s, i) \in Seq(SessionIds) /\ Once(Append(s, i))
           /\ \A j : IsIn(j, Append(s, i)) <=> IsIn(j, s) \/ j = i
<1> DEFINE t == Append(s, i)
<1>1. /\ t \in Seq(SessionIds) /\ Len(s) \in Nat /\ DOMAIN s = 1 .. Len(s)
      /\ DOMAIN t = 1 .. Len(s) + 1
      /\ \A n \in 1 .. Len(s) : t[n] = s[n]
      /\ t[Len(s) + 1] = i
  OBVIOUS
<1> HIDE DEF t
<1>2. \A n \in DOMAIN t : n \in DOMAIN s \/ n = Len(s) + 1 BY <1>1
<1>3. \A n \in DOMAIN s : n \in DOMAIN t /\ t[n] = s[n] /\ t[n] # i BY <1>1 DEF IsIn
<1>4. Len(s) + 1 \in DOMAIN t BY <1>1
<1>5. Once(t) BY <1>1, <1>2, <1>3 DEF Once
<1>6. \A j : IsIn(j, t) <=> IsIn(j, s) \/ j = i BY <1>1, <1>2, <1>3, <1>4 DEF IsIn
<1> QED BY <1>1, <1>5, <1>6 DEF t

LEMMA Popped ==
    ASSUME NEW s \in Seq(SessionIds), s # <<>>, Once(s)
    PROVE  /\ Tail(s) \in Seq(SessionIds) /\ Once(Tail(s))
           /\ Head(s) \in SessionIds /\ IsIn(Head(s), s)
           /\ \A j : IsIn(j, Tail(s)) <=> IsIn(j, s) /\ j # Head(s)
<1> DEFINE t == Tail(s)
<1>1. /\ t \in Seq(SessionIds) /\ Len(s) \in Nat /\ Len(s) >= 1 /\ DOMAIN s = 1 .. Len(s)
      /\ DOMAIN t = 1 .. Len(s) - 1
      /\ \A n \in 1 .. Len(s) - 1 : t[n] = s[n + 1]
      /\ Head(s) = s[1]
  <2>1. Len(s) \in Nat /\ Len(s) # 0 BY EmptySeq
  <2>2. t \in Seq(SessionIds) /\ Len(t) = Len(s) - 1 BY <2>1
  <2>3. DOMAIN t = 1 .. Len(s) - 1 BY <2>1, <2>2
  <2>4. \A n \in 1 .. Len(s) - 1 : t[n] = s[n + 1] BY <2>1
  <2>5. Head(s) = s[1] BY <2>1
  <2> QED BY <2>1, <2>2, <2>3, <2>4, <2>5
<1> HIDE DEF t
<1>2. 1 \in DOMAIN s /\ s[1] \in SessionIds BY <1>1
<1>3. \A n \in DOMAIN t : n + 1 \in DOMAIN s /\ n + 1 # 1 /\ t[n] = s[n + 1] BY <1>1
<1>4. \A n \in DOMAIN s : n # 1 => n - 1 \in DOMAIN t /\ t[n - 1] = s[n]
  <2>1. ASSUME NEW n \in DOMAIN s, n # 1 PROVE n - 1 \in DOMAIN t /\ t[n - 1] = s[n]
    <3>1. n - 1 \in 1 .. Len(s) - 1 /\ (n - 1) + 1 = n BY <1>1, <2>1
    <3> QED BY <1>1, <3>1
  <2> QED BY <2>1
<1>5. Once(t)
  <2>1. ASSUME NEW m \in DOMAIN t, NEW n \in DOMAIN t, t[m] = t[n] PROVE m = n
    <3>1. m + 1 = n + 1 BY <1>3, <2>1 DEF Once
    <3>2. m \in Nat /\ n \in Nat BY <1>1
    <3> QED BY <3>1, <3>2
  <2> QED BY <2>1 DEF Once
<1>6. ASSUME NEW j PROVE IsIn(j, t) <=> IsIn(j, s) /\ j # Head(s)
  <2>1. ASSUME IsIn(j, t) PROVE IsIn(j, s) /\ j # Head(s)
    <3>1. PICK n \in DOMAIN t : t[n] = j BY <2>1 DEF IsIn
    <3>2. n + 1 \in DOMAIN s /\ n + 1 # 1 /\ s[n + 1] = j BY <1>3, <3>1
    <3>3. j # s[1] BY <1>2, <3>2 DEF Once
    <3> QED BY <1>1, <3>2, <3>3 DEF IsIn
  <2>2. ASSUME IsIn(j, s), j # Head(s) PROVE IsIn(j, t)
    <3>1. PICK n \in DOMAIN s : s[n] = j BY <2>2 DEF IsIn
    <3>2. n - 1 \in DOMAIN t /\ t[n - 1] = j BY <1>1, <1>4, <2>2, <3>1
    <3> QED BY <3>2 DEF IsIn
  <2> QED BY <2>1, <2>2
<1> QED BY <1>1, <1>2, <1>5, <1>6 DEF t, IsIn

LEMMA Erased ==
    ASSUME NEW s \in Seq(SessionIds), NEW k \in DOMAIN s, Once(s)
    PROVE  /\ Erase(s, k) \in Seq(SessionIds) /\ Once(Erase(s, k))
           /\ \A j : IsIn(j, Erase(s, k)) <=> IsIn(j, s) /\ j # s[k]
<1> DEFINE t == Erase(s, k)
<1>1. Len(s) \in Nat /\ DOMAIN s = 1 .. Len(s) /\ Len(s) - 1 \in Nat /\ k \in 1 .. Len(s) OBVIOUS
<1>2. t = [n \in 1 .. Len(s) - 1 |-> IF n < k THEN s[n] ELSE s[n + 1]] BY DEF Erase
<1> HIDE DEF t
<1>3. DOMAIN t = 1 .. Len(s) - 1 BY <1>2
<1>4. ASSUME NEW n \in DOMAIN t
      PROVE  /\ n < k => n \in DOMAIN s /\ t[n] = s[n]
             /\ ~(n < k) => n + 1 \in DOMAIN s /\ t[n] = s[n + 1] /\ n + 1 # k
  BY <1>1, <1>2, <1>3
<1>5. t \in Seq(SessionIds)
  <2>1. \A n \in 1 .. Len(s) - 1 : t[n] \in SessionIds BY <1>1, <1>3, <1>4
  <2>2. t \in [1 .. Len(s) - 1 -> SessionIds] BY <1>2, <2>1
  <2> QED BY <1>1, <2>2
<1>6. Once(t)
  <2>1. ASSUME NEW m \in DOMAIN t, NEW n \in DOMAIN t, t[m] = t[n] PROVE m = n
    <3>1. m \in Nat /\ n \in Nat /\ k \in Nat BY <1>1, <1>3
    <3>2. CASE m < k /\ n < k BY <1>4, <2>1, <3>2 DEF Once
    <3>3. CASE ~(m < k) /\ ~(n < k)
      <4>1. m + 1 = n + 1 BY <1>4, <2>1, <3>3 DEF Once
      <4> QED BY <3>1, <4>1
    <3>4. CASE m < k /\ ~(n < k)
      <4>0. m \in DOMAIN s /\ t[m] = s[m] /\ n + 1 \in DOMAIN s /\ t[n] = s[n + 1] BY <1>4, <3>4
      <4>1. m = n + 1 BY <2>1, <4>0 DEF Once
      <4> QED BY <3>1, <3>4, <4>1
    <3>5. CASE ~(m < k) /\ n < k
      <4>0. n \in DOMAIN s /\ t[n] = s[n] /\ m + 1 \in DOMAIN s /\ t[m] = s[m + 1] BY <1>4, <3>5
      <4>1. n = m + 1 BY <2>1, <4>0 DEF Once
      <4> QED BY <3>1, <3>5, <4>1
    <3> QED BY <3>2, <3>3, <3>4, <3>5
  <2> QED BY <2>1 DEF Once
<1>7. ASSUME NEW j PROVE IsIn(j, t) <=> IsIn(j, s) /\ j # s[k]
  <2>1. ASSUME IsIn(j, t) PROVE IsIn(j, s) /\ j # s[k]
    <3>1. PICK n \in DOMAIN t : t[n] = j BY <2>1 DEF IsIn
    <3>2. n \in Nat /\ k \in Nat BY <1>1, <1>3
    <3>3. PICK m \in DOMAIN s : s[m] = j /\ m # k BY <1>4, <3>1, <3>2
    <3> QED BY <3>3 DEF IsIn, Once
  <2>2. ASSUME IsIn(j, s), j # s[k] PROVE IsIn(j, t)
    <3>1. PICK n \in DOMAIN s : s[n] = j BY <2>2 DEF IsIn
    <3>2. n # k /\ n \in Nat /\ k \in Nat BY <1>1, <2>2, <3>1
    <3>3. CASE n < k
      <4>1. n \in DOMAIN t BY <1>1, <1>3, <3>3
      <4> QED BY <1>4, <3>1, <3>2, <3>3, <4>1 DEF IsIn
    <3>4. CASE ~(n < k)
      <4>1. n - 1 \in DOMAIN t /\ ~(n - 1 < k) /\ (n - 1) + 1 = n BY <1>1, <1>3, <3>2, <3>4
      <4>2. t[n - 1] = j BY <1>4, <3>1, <4>1
      <4> QED BY <4>1, <4>2 DEF IsIn
    <3> QED BY <3>3, <3>4
  <2> QED BY <2>1, <2>2
<1> QED BY <1>5, <1>6, <1>7 DEF t

\* A set of naturals that is not empty has a smallest element.
LEMMA SmallestOf ==
    ASSUME NEW S \in SUBSET Nat, S # {}
    PROVE  \E n \in S : \A m \in S : n <= m
<1> DEFINE Less == OpToRel(<, Nat)
<1>1. IsWellFoundedOn(Less, Nat) BY NatLessThanWellFounded
<1> HIDE DEF Less
<1>2. PICK n \in S : \A m \in S : <<m, n>> \notin Less BY <1>1, WFMin
<1>3. \A m \in S : ~(m < n) BY <1>2 DEF Less, OpToRel
<1> QED BY <1>3

\* RemoveQueuedPlayer takes the session out, and the one it lets in.
LEMMA LeavesLine ==
    ASSUME Typed, Once(queued), NEW i \in SessionIds
    PROVE  /\ QueueAfter(i) \in Seq(SessionIds) /\ Once(QueueAfter(i))
           /\ Accepted(i) \subseteq SessionIds
           /\ \A j : IsIn(j, QueueAfter(i)) <=> IsIn(j, queued) /\ j # i /\ j \notin Accepted(i)
<1>1. queued \in Seq(SessionIds) BY DEF Typed
<1>2. /\ QueueWithout(i) \in Seq(SessionIds) /\ Once(QueueWithout(i))
      /\ \A j : IsIn(j, QueueWithout(i)) <=> IsIn(j, queued) /\ j # i
  <2>1. CASE Positions(i) = {}
    <3>1. QueueWithout(i) = queued /\ ~IsIn(i, queued)
      BY <2>1 DEF QueueWithout, Positions, IsIn
    <3> QED BY <1>1, <3>1
  <2>2. CASE Positions(i) # {}
    <3> DEFINE k == CHOOSE n \in Positions(i) : \A m \in Positions(i) : n <= m
    <3>1. Positions(i) \subseteq Nat BY <1>1 DEF Positions
    <3>2. \E n \in Positions(i) : \A m \in Positions(i) : n <= m BY <2>2, <3>1, SmallestOf
    <3>3. k \in Positions(i) BY <3>2
    <3>4. QueueWithout(i) = Erase(queued, k) BY <2>2 DEF QueueWithout
    <3> HIDE DEF k
    <3>5. k \in DOMAIN queued /\ queued[k] = i BY <3>3 DEF Positions
    <3> QED BY <1>1, <3>4, <3>5, Erased
  <2> QED BY <2>1, <2>2
<1>3. CASE ~Accepts(i)
  <2>1. QueueAfter(i) = QueueWithout(i) /\ Accepted(i) = {} BY <1>3 DEF QueueAfter, Accepted
  <2> QED BY <1>2, <2>1
<1>4. CASE Accepts(i)
  <2>1. QueueWithout(i) # <<>> BY <1>4 DEF Accepts
  <2>2. QueueAfter(i) = Tail(QueueWithout(i)) /\ Accepted(i) = {Head(QueueWithout(i))}
    BY <1>4 DEF QueueAfter, Accepted
  <2> QED BY <1>2, <2>1, <2>2, Popped
<1> QED BY <1>3, <1>4

-----------------------------------------------------------------------------
(* The invariant is inductive.                                             *)

LEMMA InitInv == Init => IInv
<1> SUFFICES ASSUME Init PROVE IInv
  OBVIOUS
<1>1. addSessQueue = <<>> /\ queued = <<>> /\ DOMAIN addSessQueue = {} /\ DOMAIN queued = {}
  BY DEF Init
<1>2. /\ \A a \in Accounts : sessions[a] = None /\ offline[a] = None
      /\ \A i \in SessionIds : player[i] = None /\ loading[i] = None /\ account[i] = None
  BY DEF Init
<1>3. Typed
  <2>1. addSessQueue \in Seq(SessionIds) /\ queued \in Seq(SessionIds) BY <1>1
  <2> QED BY <2>1 DEF Init, Typed, Phases
<1>4. Places BY <1>1, <1>2 DEF Init, Places
<1>5. Kept BY DEF Init, Kept
<1>6. Fields BY <1>2 DEF Init, Fields
<1>7. Cursor BY DEF Init, Cursor
<1>8. Pairs BY <1>2 DEF Pairs, Pair
<1>9. Online BY DEF Init, Online
<1>10. Line BY <1>1 DEF Init, Line
<1>11. Ending BY DEF Init, Ending, Comes
<1> QED BY <1>3, <1>4, <1>5, <1>6, <1>7, <1>8, <1>9, <1>10, <1>11 DEF IInv

\* The steps that change nothing the invariant looks at.
LEMMA QuietInv ==
    ASSUME IInv,
           \/ \E granted \in BOOLEAN : LogoutRequest(granted)
           \/ \E i \in SessionIds : Travel(i)
           \/ \E l \in Limits : SetPlayerAmountLimit(l)
           \/ \E a \in Accounts : ForgetDisconnect(a)
           \/ UNCHANGED vars
    PROVE  IInv'
<1>1. /\ UNCHANGED placeVars /\ UNCHANGED <<socket, player, loading, ready, inQueue, kicked>>
      /\ UNCHANGED <<queued, stopped, kickedAll, phase, visit, cur, accountOnline, charOnline>>
  BY DEF LogoutRequest, Travel, SetPlayerAmountLimit, ForgetDisconnect, vars, placeVars,
         objVars, queueVars, listVars, netVars, ctlVars, stopVars, dbVars
<1>2. UNCHANGED <<live, account, connecting, addSessQueue, sessions, offline>> BY <1>1 DEF placeVars
<1>3. Typed' BY <1>1, <1>2 DEF IInv, Typed
<1>4. Places' /\ Kept' BY <1>1, SamePlaces DEF IInv
<1>5. Fields' BY <1>1, SameFields DEF IInv
<1>6. Cursor' /\ Pairs' BY <1>1, <1>2, SameCursor, SamePairs DEF IInv
<1>7. Online' /\ Line' /\ Ending' BY <1>1, <1>2, SameOnline, SameLine, SameEnding DEF IInv
<1> QED BY <1>3, <1>4, <1>5, <1>6, <1>7 DEF IInv

\* A connection is lost.
LEMMA CloseSocketInv == ASSUME IInv, NEW i \in SessionIds, CloseSocket(i) PROVE IInv'
<1>1. /\ UNCHANGED placeVars /\ UNCHANGED <<player, loading, ready, inQueue, kicked>>
      /\ UNCHANGED <<queued, stopped, kickedAll, phase, visit, cur, accountOnline, charOnline>>
      /\ socket[i] = "open" /\ socket' = [socket EXCEPT ![i] = "closed"]
  BY DEF CloseSocket, placeVars, queueVars, listVars, netVars, ctlVars, stopVars, dbVars
<1>2. UNCHANGED <<live, account, connecting, addSessQueue, sessions, offline>> BY <1>1 DEF placeVars
<1>3. Typed' BY <1>1, <1>2 DEF IInv, Typed
<1>4. Places' /\ Kept' BY <1>1, SamePlaces DEF IInv
<1>5. Fields'
  <2>1. \A j \in SessionIds : socket'[j] = IF j = i THEN "closed" ELSE socket[j]
    BY <1>1 DEF IInv, Typed
  <2>2. ASSUME NEW a \in Accounts, offline'[a] # None PROVE socket'[offline'[a]] = "none"
    <3>1. offline[a] # None BY <1>2, <2>2
    <3>2. offline[a] \in SessionIds /\ socket[offline[a]] = "none" BY <3>1, ListedIs DEF IInv, Fields
    <3> QED BY <1>1, <1>2, <2>1, <3>2
  <2>3. \A j \in SessionIds : socket'[j] = "open" => socket[j] = "open" BY <2>1
  <2> QED BY <1>1, <1>2, <2>2, <2>3, SamePlaces DEF IInv, Fields
<1>6. Cursor' /\ Pairs' BY <1>1, <1>2, SameCursor, SamePairs DEF IInv
<1>7. Online' /\ Line' /\ Ending' BY <1>1, <1>2, SameOnline, SameLine, SameEnding DEF IInv
<1> QED BY <1>3, <1>4, <1>5, <1>6, <1>7 DEF IInv

\* The database thread answers the login query.
LEMMA HolderInv == ASSUME IInv, NEW i \in SessionIds, HolderExecuted(i) PROVE IInv'
<1>1. /\ UNCHANGED placeVars /\ UNCHANGED <<player, loading, socket, inQueue, kicked>>
      /\ UNCHANGED <<queued, stopped, kickedAll, phase, visit, cur, accountOnline, charOnline>>
      /\ loading[i] # None /\ ready' = ready \cup {i}
  BY DEF HolderExecuted, placeVars, queueVars, listVars, netVars, ctlVars, stopVars, dbVars
<1>2. UNCHANGED <<live, account, connecting, addSessQueue, sessions, offline>> BY <1>1 DEF placeVars
<1>3. Typed' BY <1>1, <1>2 DEF IInv, Typed
<1>4. Places' /\ Kept' BY <1>1, SamePlaces DEF IInv
<1>5. Fields' BY <1>1, <1>2, SamePlaces DEF IInv, Fields
<1>6. Cursor' /\ Pairs' BY <1>1, <1>2, SameCursor, SamePairs DEF IInv
<1>7. Online' /\ Line' /\ Ending' BY <1>1, <1>2, SameOnline, SameLine, SameEnding DEF IInv
<1> QED BY <1>3, <1>4, <1>5, <1>6, <1>7 DEF IInv

\* World::StopNow.
LEMMA StopInv == ASSUME IInv, StopNow PROVE IInv'
<1>1. /\ UNCHANGED placeVars /\ UNCHANGED <<player, loading, socket, ready, inQueue, kicked>>
      /\ UNCHANGED <<queued, kickedAll, phase, visit, cur, accountOnline, charOnline>>
      /\ stopped' = TRUE
  BY DEF StopNow, placeVars, objVars, queueVars, listVars, netVars, ctlVars, dbVars
<1>2. UNCHANGED <<live, account, connecting, addSessQueue, sessions, offline>> BY <1>1 DEF placeVars
<1>3. Typed' BY <1>1, <1>2 DEF IInv, Typed
<1>4. Places' /\ Kept' BY <1>1, SamePlaces DEF IInv
<1>5. Fields' BY <1>1, SameFields DEF IInv
<1>6. Cursor' /\ Pairs' BY <1>1, <1>2, SameCursor, SamePairs DEF IInv
<1>7. Online' /\ Line' BY <1>1, <1>2, SameOnline, SameLine DEF IInv
<1>8. Ending' BY <1>1, <1>2 DEF IInv, Ending, Comes, Ahead
<1> QED BY <1>3, <1>4, <1>5, <1>6, <1>7, <1>8 DEF IInv

\* The steps of the world thread that only move it on.
LEMMA ControlInv ==
    ASSUME IInv,
           \/ BeginUpdateSessions \/ EndAdd \/ (\E a \in Accounts : BeginUpdate(a)) \/ NoLoginCallback
           \/ EndUpdate \/ EndSessions \/ (\E a \in Accounts : KeepOffline(a)) \/ EndUpdateSessions
    PROVE  IInv'
<1>1. /\ UNCHANGED placeVars /\ UNCHANGED <<player, loading, socket, ready, inQueue, kicked>>
      /\ UNCHANGED <<queued, kickedAll, stopped, accountOnline, charOnline>>
  BY DEF BeginUpdateSessions, EndAdd, BeginUpdate, NoLoginCallback, EndUpdate, EndSessions, KeepOffline,
         EndUpdateSessions, placeVars, objVars, queueVars, listVars, netVars, stopVars, dbVars
<1>2. UNCHANGED <<live, account, connecting, addSessQueue, sessions, offline>> BY <1>1 DEF placeVars
<1>3. Typed /\ Places /\ Kept /\ Fields /\ Cursor /\ Pairs /\ Ending BY DEF IInv
<1>4. SUFFICES phase' \in Phases /\ visit' \subseteq Accounts /\ Cursor' /\ Pairs' /\ Ending'
  <2>1. ASSUME phase' \in Phases, visit' \subseteq Accounts PROVE Typed'
    BY <1>1, <1>2, <1>3, <2>1 DEF Typed
  <2>2. Places' /\ Kept' /\ Fields' BY <1>1, <1>3, SamePlaces, SameFields
  <2>3. Online' /\ Line' BY <1>1, <1>2, SameOnline, SameLine DEF IInv
  <2> QED BY <2>1, <2>2, <2>3 DEF IInv
<1>5. CASE BeginUpdateSessions
  <2>1. phase = "rest" /\ ~stopped /\ phase' = "add" /\ visit' = visit BY <1>5 DEF BeginUpdateSessions
  <2>2. \A a : ~Ahead(a) BY <2>1 DEF Ahead
  <2>3. Cursor' BY <2>1 DEF Cursor
  <2>4. Pairs' BY <1>1, <1>2, <1>3, <2>2 DEF Pairs, Pair
  <2>5. Ending' BY <1>1, <1>3, <2>1 DEF Ending, Comes
  <2> QED BY <1>3, <2>1, <2>3, <2>4, <2>5 DEF Typed, Phases
<1>6. CASE EndAdd
  <2>1. phase = "add" /\ phase' = "sessions" /\ visit' = Listed BY <1>6 DEF EndAdd
  <2>2. \A a \in Accounts : Ahead(a)' BY <2>1 DEF Ahead
  <2>3. \A a \in Accounts : sessions'[a] # None => a \in visit' BY <1>2, <2>1 DEF Listed
  <2>4. Cursor' BY <1>2, <2>1 DEF Cursor, Listed
  <2>5. Pairs' BY <1>1, <1>2, <1>3, <2>2 DEF Pairs, Pair
  <2>6. Ending' BY <1>1, <1>2, <1>3, <2>1, <2>2, <2>3 DEF Ending, Comes
  <2> QED BY <2>1, <2>4, <2>5, <2>6 DEF Phases, Listed
<1>7. CASE \E a \in Accounts : BeginUpdate(a)
  <2>1. PICK b \in Accounts : BeginUpdate(b) BY <1>7
  <2>2. /\ phase = "sessions" /\ b \in visit /\ phase' = "packets" /\ visit' = visit \ {b}
        /\ cur' = sessions[b]
    BY <2>1 DEF BeginUpdate
  <2>3. sessions[b] # None BY <1>3, <2>2 DEF Cursor
  <2>4. account[cur'] = b /\ IsListed(cur') BY <1>3, <2>2, <2>3, ListedIs
  <2>5. \A a \in Accounts : Ahead(a)' BY <2>2 DEF Ahead
  <2>6. Cursor'
    <3>1. (\A a \in visit : sessions[a] # None) BY <1>3, <2>2 DEF Cursor
    <3>2. IsListed(cur)' /\ account'[cur'] \notin visit' BY <1>2, <2>2, <2>4 DEF IsListed
    <3> QED BY <1>2, <2>2, <3>1, <3>2 DEF Cursor
  <2>7. Pairs' BY <1>1, <1>2, <1>3, <2>5 DEF Pairs, Pair
  <2>8. Ending' BY <1>1, <1>2, <1>3, <2>2, <2>5 DEF Ending, Comes
  <2> QED BY <1>3, <2>2, <2>6, <2>7, <2>8 DEF Typed, Phases
<1>8. CASE NoLoginCallback
  <2>1. phase = "packets" /\ phase' = "tail" /\ visit' = visit /\ cur' = cur
    BY <1>8 DEF NoLoginCallback
  <2>2. \A a \in Accounts : Ahead(a)' BY <2>1 DEF Ahead
  <2>3. Cursor' BY <1>2, <1>3, <2>1 DEF Cursor, IsListed
  <2>4. Pairs' BY <1>1, <1>2, <1>3, <2>2 DEF Pairs, Pair
  <2>5. Ending' BY <1>1, <1>2, <1>3, <2>1, <2>2 DEF Ending, Comes
  <2> QED BY <1>3, <2>1, <2>3, <2>4, <2>5 DEF Typed, Phases
<1>9. CASE EndUpdate
  <2>1. phase = "tail" /\ phase' = "sessions" /\ visit' = visit /\ socket[cur] = "open"
    BY <1>9 DEF EndUpdate
  <2>2. \A a \in Accounts : Ahead(a)' BY <2>1 DEF Ahead
  <2>3. Cursor' BY <1>2, <1>3, <2>1 DEF Cursor
  <2>4. Pairs' BY <1>1, <1>2, <1>3, <2>2 DEF Pairs, Pair
  <2>5. Ending'
    <3>1. cur \in SessionIds /\ cur \notin kicked BY <1>3, <2>1 DEF Cursor, IsListed, Typed, Fields
    <3> QED BY <1>1, <1>2, <1>3, <2>1, <2>2, <3>1 DEF Ending, Comes
  <2> QED BY <1>3, <2>1, <2>3, <2>4, <2>5 DEF Typed, Phases
<1>10. CASE EndSessions
  <2>1. /\ phase = "sessions" /\ phase' = "offline" /\ visit = {}
        /\ visit' = {a \in Accounts : offline[a] # None}
    BY <1>10 DEF EndSessions
  <2>2. \A a \in Accounts : offline[a] # None => Ahead(a)' BY <2>1 DEF Ahead
  <2>3. Cursor' BY <1>2, <2>1 DEF Cursor
  <2>4. Pairs' BY <1>1, <1>2, <1>3, <2>2 DEF Pairs, Pair
  <2>5. Ending' BY <1>1, <1>2, <1>3, <2>1, <2>2 DEF Ending, Comes
  <2> QED BY <2>1, <2>3, <2>4, <2>5 DEF Phases
<1>11. CASE \E a \in Accounts : KeepOffline(a)
  <2>1. PICK b \in Accounts : KeepOffline(b) BY <1>11
  <2>2. /\ phase = "offline" /\ b \in visit /\ phase' = phase /\ visit' = visit \ {b}
        /\ player[offline[b]] # None /\ offline[b] \notin kicked
    BY <2>1 DEF KeepOffline
  <2>3. offline[b] # None BY <1>3, <2>2 DEF Cursor
  <2>4. \A a \in Accounts \ {b} : Ahead(a) => Ahead(a)' BY <2>2 DEF Ahead
  <2>5. Cursor' BY <1>2, <1>3, <2>2 DEF Cursor
  <2>6. Pairs' BY <1>1, <1>2, <1>3, <2>2, <2>4 DEF Pairs, Pair
  <2>7. Ending' BY <1>1, <1>3, <2>2, <2>3 DEF Ending, Comes
  <2> QED BY <1>3, <2>2, <2>5, <2>6, <2>7 DEF Typed
<1>12. CASE EndUpdateSessions
  <2>1. /\ phase = "offline" /\ visit = {} /\ visit' = visit
        /\ phase' = IF kickedAll THEN "end" ELSE "rest"
    BY <1>12 DEF EndUpdateSessions
  <2>2. \A a \in Accounts : ~Ahead(a) BY <2>1 DEF Ahead
  <2>3. Cursor' BY <2>1 DEF Cursor
  <2>4. Pairs' BY <1>1, <1>2, <1>3, <2>2 DEF Pairs, Pair
  <2>5. Ending' BY <1>1, <1>2, <1>3, <2>1, <2>2 DEF Ending, Comes
  <2> QED BY <1>3, <2>1, <2>3, <2>4, <2>5 DEF Typed, Phases
<1> QED BY <1>5, <1>6, <1>7, <1>8, <1>9, <1>10, <1>11, <1>12

\* A session is kicked: by itself when it logs in again, or by KickPlayer.
LEMMA KickInv ==
    ASSUME IInv, LoginAgain \/ \E i \in SessionIds : KickPlayer(i) PROVE IInv'
<1>1. Typed /\ Places /\ Kept /\ Fields /\ Cursor /\ Pairs /\ Ending BY DEF IInv
<1>2. PICK i \in SessionIds :
        /\ IsListed(i) \/ IsOffline(i)
        /\ KickEffect(i)
        /\ phase = "rest" \/ (phase = "packets" /\ i = cur)
  <2>1. CASE LoginAgain
    <3>1. phase = "packets" /\ KickEffect(cur) BY <2>1 DEF LoginAgain, HandlingPacket
    <3>2. IsListed(cur) /\ cur \in SessionIds BY <1>1, <3>1 DEF Cursor, IsListed, Typed
    <3> QED BY <3>1, <3>2
  <2>2. CASE \E i \in SessionIds : KickPlayer(i)
    <3>1. PICK i \in SessionIds : KickPlayer(i) BY <2>2
    <3>2. phase = "rest" /\ i \in Known /\ KickEffect(i) BY <3>1 DEF KickPlayer
    <3>3. PICK a \in Accounts : i \in {sessions[a], offline[a]} /\ i # None BY <3>2 DEF Known
    <3>4. IsListed(i) \/ IsOffline(i) BY <1>1, <3>3, ListedIs
    <3> QED BY <3>2, <3>4
  <2> QED BY <2>1, <2>2
<1>3. /\ UNCHANGED placeVars /\ UNCHANGED <<player, loading, ready, inQueue>>
      /\ UNCHANGED <<queued, kickedAll, stopped, accountOnline, charOnline, phase, visit, cur>>
  BY DEF LoginAgain, KickPlayer, placeVars, queueVars, listVars, netVars, ctlVars, stopVars, dbVars
<1>4. UNCHANGED <<live, account, connecting, addSessQueue, sessions, offline>> BY <1>3 DEF placeVars
<1>5. /\ kicked' = kicked \cup {i}
      /\ socket' = [socket EXCEPT ![i] = IF @ = "open" THEN "closed" ELSE @]
  BY <1>2 DEF KickEffect
<1>6. \A j \in SessionIds : /\ socket'[j] \in {"open", "closed", "none"}
                            /\ socket'[j] = "open" => socket[j] = "open" /\ j # i
                            /\ socket[j] = "none" => socket'[j] = "none"
  BY <1>1, <1>5 DEF Typed
<1>7. Typed' BY <1>1, <1>3, <1>4, <1>5 DEF Typed
<1>8. Places' /\ Kept' BY <1>1, <1>3, SamePlaces
<1>9. Fields'
  <2>1. ASSUME NEW a \in Accounts, offline'[a] # None PROVE socket'[offline'[a]] = "none"
    <3>1. offline[a] # None BY <1>4, <2>1
    <3>2. offline[a] \in SessionIds /\ socket[offline[a]] = "none" BY <1>1, <3>1, ListedIs DEF Fields
    <3> QED BY <1>4, <1>6, <3>2
  <2>2. \A j : (IsListed(j)' <=> IsListed(j)) /\ (IsOffline(j)' <=> IsOffline(j))
    BY <1>1, <1>3, SamePlaces
  <2>3. \A j \in kicked' : (IsListed(j) \/ IsOffline(j)) /\ socket'[j] # "open"
    BY <1>1, <1>2, <1>5, <1>6 DEF Fields, Typed
  <2> QED BY <1>1, <1>3, <1>4, <2>1, <2>2, <2>3 DEF Fields
<1>10. Cursor' BY <1>1, <1>3, <1>4, SameCursor
<1>11. Pairs' BY <1>1, <1>3, <1>4, <1>5 DEF Pairs, Pair, Ahead
<1>12. Online' /\ Line' BY <1>3, <1>4, SameOnline, SameLine DEF IInv
<1>13. Ending' BY <1>1, <1>2, <1>3, <1>4, <1>5 DEF Ending, Comes, Ahead
<1> QED BY <1>7, <1>8, <1>9, <1>10, <1>11, <1>12, <1>13 DEF IInv

\* World::KickAll.
LEMMA KickAllInv == ASSUME IInv, KickAll PROVE IInv'
<1>1. Typed /\ Places /\ Kept /\ Fields /\ Cursor /\ Pairs /\ Ending BY DEF IInv
<1>2. /\ UNCHANGED placeVars /\ UNCHANGED <<player, loading, ready, inQueue>>
      /\ UNCHANGED <<stopped, accountOnline, charOnline, visit, cur>>
      /\ phase = "rest" /\ stopped /\ phase' = "add" /\ queued' = <<>> /\ kickedAll' = TRUE
      /\ kicked' = kicked \cup Known
      /\ socket' = [i \in SessionIds |->
                      IF i \in Known /\ socket[i] = "open" THEN "closed" ELSE socket[i]]
  BY DEF KickAll, placeVars, listVars, netVars, dbVars
<1>3. UNCHANGED <<live, account, connecting, addSessQueue, sessions, offline>> BY <1>2 DEF placeVars
<1>4. ASSUME NEW i \in Known PROVE i \in SessionIds /\ (IsListed(i) \/ IsOffline(i))
  <2>1. PICK a \in Accounts : i \in {sessions[a], offline[a]} /\ i # None BY <1>4 DEF Known
  <2> QED BY <1>1, <2>1, ListedIs
<1>5. \A j \in SessionIds : /\ socket'[j] \in {"open", "closed", "none"}
                            /\ socket'[j] = "open" => socket[j] = "open" /\ j \notin Known
                            /\ socket[j] = "none" => socket'[j] = "none"
  BY <1>1, <1>2 DEF Typed
<1>6. Typed'
  <2>1. queued' \in Seq(SessionIds) /\ phase' \in Phases BY <1>2 DEF Phases
  <2>2. kicked' \subseteq SessionIds BY <1>1, <1>2, <1>4 DEF Typed
  <2>3. socket' \in [SessionIds -> {"open", "closed", "none"}] BY <1>2, <1>5
  <2> QED BY <1>1, <1>2, <1>3, <2>1, <2>2, <2>3 DEF Typed
<1>7. Places' /\ Kept' BY <1>1, <1>2, SamePlaces
<1>8. Fields'
  <2>1. ASSUME NEW a \in Accounts, offline'[a] # None PROVE socket'[offline'[a]] = "none"
    <3>1. offline[a] # None BY <1>3, <2>1
    <3>2. offline[a] \in SessionIds /\ socket[offline[a]] = "none" BY <1>1, <3>1, ListedIs DEF Fields
    <3> QED BY <1>3, <1>5, <3>2
  <2>2. \A j : (IsListed(j)' <=> IsListed(j)) /\ (IsOffline(j)' <=> IsOffline(j))
    BY <1>1, <1>2, SamePlaces
  <2>3. \A j \in kicked' : (IsListed(j) \/ IsOffline(j)) /\ socket'[j] # "open"
    BY <1>1, <1>2, <1>4, <1>5 DEF Fields, Typed
  <2> QED BY <1>1, <1>2, <1>3, <2>1, <2>2, <2>3 DEF Fields
<1>9. Cursor' BY <1>2 DEF Cursor
<1>10. Pairs'
  <2>1. \A a \in Accounts : ~Ahead(a) BY <1>2 DEF Ahead
  <2> QED BY <1>1, <1>2, <1>3, <2>1 DEF Pairs, Pair
<1>11. Online' BY <1>2, <1>3, SameOnline DEF IInv
<1>12. Line'
  <2>1. DOMAIN queued' = {} BY <1>2
  <2> QED BY <1>2, <2>1 DEF Line
<1>13. Ending'
  <2>1. \A a \in Accounts : offline[a] # None => offline[a] \in Known BY DEF Known
  <2> QED BY <1>2, <1>3, <2>1 DEF Ending, Comes
<1> QED BY <1>6, <1>7, <1>8, <1>9, <1>10, <1>11, <1>12, <1>13 DEF IInv

\* The session that is updated, and the one its account may have offline.
LEMMA CurrentIs ==
    ASSUME Typed, Places, Cursor, phase \in {"packets", "tail"}
    PROVE  /\ cur \in SessionIds /\ cur \in live /\ account[cur] \in Accounts /\ IsListed(cur)
           /\ cur # None /\ sessions[account[cur]] = cur /\ account[cur] \notin visit
           /\ \A a \in Accounts : sessions[a] = cur <=> a = account[cur]
           /\ \A a \in Accounts : offline[a] # cur
<1>1. IsListed(cur) /\ account[cur] \notin visit BY DEF Cursor
<1>2. cur \in live /\ sessions[account[cur]] = cur BY <1>1 DEF IsListed
<1>3. cur \in SessionIds /\ account[cur] \in Accounts /\ cur # None BY <1>2, AccountIs
<1>4. \A a \in Accounts : sessions[a] = cur <=> a = account[cur] BY <1>2, <1>3, ListedIs
<1>5. \A a \in Accounts : offline[a] # cur BY <1>1, <1>3, ListedIs
<1> QED BY <1>1, <1>2, <1>3, <1>4, <1>5

\* The login query is sent.
LEMMA LoginFromInv == ASSUME IInv, NEW c \in Chars, LoginFromCharacterList(c) PROVE IInv'
<1>1. Typed /\ Places /\ Kept /\ Fields /\ Cursor /\ Pairs /\ Ending BY DEF IInv
<1> DEFINE a == account[cur]
           off == offline[a]
<1>2. /\ UNCHANGED placeVars /\ UNCHANGED <<player, socket, ready, inQueue>>
      /\ UNCHANGED <<queued, kickedAll, stopped, accountOnline, charOnline, phase, visit, cur>>
      /\ phase = "packets" /\ cur \notin inQueue
      /\ loading[cur] = None /\ player[cur] = None /\ OwnerOf[c] = a
      /\ off # None => player[off] \notin {None, c}
      /\ kicked' = kicked \cup ({off} \ {None})
      /\ loading' = [loading EXCEPT ![cur] = c]
  BY DEF LoginFromCharacterList, HandlingPacket, placeVars, queueVars, listVars, netVars, ctlVars,
         stopVars, dbVars
<1>3. UNCHANGED <<live, account, connecting, addSessQueue, sessions, offline>> BY <1>2 DEF placeVars
<1>4. /\ cur \in SessionIds /\ a \in Accounts /\ IsListed(cur) /\ sessions[a] = cur
      /\ \A b \in Accounts : sessions[b] = cur <=> b = a
  BY <1>1, <1>2, CurrentIs
<1>5. off # None => off \in SessionIds /\ IsOffline(off) /\ ~IsListed(off) /\ socket[off] = "none"
  BY <1>1, <1>4, ListedIs DEF Fields
<1>6. \A j \in SessionIds : loading'[j] = IF j = cur THEN c ELSE loading[j]
  BY <1>1, <1>2 DEF Typed
<1> HIDE DEF a, off
<1>7. Typed'
  <2>1. kicked' \subseteq SessionIds BY <1>1, <1>2, <1>5 DEF Typed
  <2>2. loading' \in [SessionIds -> Chars \cup {None}] BY <1>1, <1>2 DEF Typed
  <2> QED BY <1>1, <1>2, <1>3, <2>1, <2>2 DEF Typed
<1>8. /\ Places' /\ Kept'
      /\ \A j : (IsListed(j)' <=> IsListed(j)) /\ (IsOffline(j)' <=> IsOffline(j))
  BY <1>1, <1>2, SamePlaces
<1>9. Fields'
  <2>1. \A j \in kicked' : (IsListed(j) \/ IsOffline(j)) /\ socket[j] # "open"
    BY <1>1, <1>2, <1>5 DEF Fields, Typed
  <2>2. account[cur] = a BY DEF a
  <2>3. \A j \in SessionIds : loading'[j] # None => IsListed(j) /\ OwnerOf[loading'[j]] = account[j]
    BY <1>1, <1>2, <1>4, <1>6, <2>2 DEF Fields
  <2>4. \A j \in SessionIds : player[j] # None \/ j \in inQueue => loading'[j] = None
    BY <1>1, <1>2, <1>6 DEF Fields
  <2>5. \A j \in ready : loading'[j] # None
    BY <1>1, <1>6, ConstantAssumption DEF Fields, Typed
  <2> QED BY <1>1, <1>2, <1>3, <1>8, <2>1, <2>3, <2>4, <2>5 DEF Fields
<1>10. Cursor' BY <1>1, <1>2, <1>3, SameCursor
<1>11. Pairs'
  <2>1. \A b \in Accounts : Ahead(b)' BY <1>2 DEF Ahead
  <2>2. ASSUME NEW b \in Accounts, offline[b] # None, sessions[b] # None,
               player[sessions[b]] # None \/ loading'[sessions[b]] # None,
               player[offline[b]] # None
        PROVE  /\ offline[b] \in kicked'
               /\ player[offline[b]] \notin {player[sessions[b]], loading'[sessions[b]]}
    <3>1. CASE b = a
      <4>1. offline[b] = off BY <3>1 DEF off
      <4> QED BY <1>2, <1>4, <1>6, <2>2, <3>1, <4>1
    <3>2. CASE b # a
      <4>1. sessions[b] # cur /\ sessions[b] \in SessionIds BY <1>1, <1>4, <2>2, <3>2, ListedIs
      <4>2. loading'[sessions[b]] = loading[sessions[b]] BY <1>6, <4>1
      <4> QED BY <1>1, <1>2, <2>2, <4>2 DEF Pairs, Pair
    <3> QED BY <3>1, <3>2
  <2> QED BY <1>2, <1>3, <2>1, <2>2 DEF Pairs, Pair
<1>12. Online' /\ Line' BY <1>2, <1>3, SameOnline, SameLine DEF IInv
<1>13. Ending'
  <2>1. \A b \in Accounts : sessions[b] # None /\ sessions[b] \in kicked' => sessions[b] \in kicked
    BY <1>1, <1>2, <1>5, ListedIs
  <2> QED BY <1>1, <1>2, <1>3, <2>1 DEF Ending, Comes, Ahead
<1> QED BY <1>7, <1>8, <1>9, <1>10, <1>11, <1>12, <1>13 DEF IInv

\* The player of the offline session is taken over.
LEMMA LoginToInv == ASSUME IInv, NEW c \in Chars, LoginToCharInWorld(c) PROVE IInv'
<1>1. Typed /\ Places /\ Kept /\ Fields /\ Cursor /\ Pairs /\ Online /\ Ending BY DEF IInv
<1> DEFINE a == account[cur]
           off == offline[a]
<1>2. /\ UNCHANGED placeVars /\ UNCHANGED <<loading, socket, ready, inQueue, kicked>>
      /\ UNCHANGED <<queued, kickedAll, stopped, accountOnline, charOnline, phase, visit, cur>>
      /\ phase = "packets" /\ cur \notin inQueue
      /\ loading[cur] = None /\ player[cur] = None /\ off # None /\ player[off] = c
      /\ player' = [player EXCEPT ![off] = None, ![cur] = c]
  BY DEF LoginToCharInWorld, HandlingPacket, placeVars, queueVars, listVars, netVars, ctlVars,
         stopVars, dbVars
<1>3. UNCHANGED <<live, account, connecting, addSessQueue, sessions, offline>> BY <1>2 DEF placeVars
<1>4. /\ cur \in SessionIds /\ cur \in live /\ a \in Accounts /\ IsListed(cur) /\ sessions[a] = cur
      /\ \A b \in Accounts : sessions[b] = cur <=> b = a
  BY <1>1, <1>2, CurrentIs
<1>5. off \in SessionIds /\ off # cur /\ account[off] = a /\ IsOffline(off) /\ ~IsListed(off)
  BY <1>1, <1>2, <1>4, ListedIs
<1>6. \A j \in SessionIds : player'[j] = IF j = cur THEN c ELSE IF j = off THEN None ELSE player[j]
  BY <1>1, <1>2, <1>5 DEF Typed
<1>7. c # None BY ConstantAssumption
<1>8. OwnerOf[c] = account[cur] BY <1>1, <1>2, <1>5, <1>7 DEF Fields, a
<1> HIDE DEF a, off
<1>9. Typed'
  <2>1. player' \in [SessionIds -> Chars \cup {None}] BY <1>1, <1>2 DEF Typed
  <2> QED BY <1>1, <1>2, <1>3, <2>1 DEF Typed
<1>10. /\ Places' /\ Kept'
       /\ \A j : (IsListed(j)' <=> IsListed(j)) /\ (IsOffline(j)' <=> IsOffline(j))
  BY <1>1, <1>2, SamePlaces
<1>11. Fields'
  <2>1. ASSUME NEW j \in SessionIds, player'[j] # None
        PROVE  (IsListed(j) \/ IsOffline(j)) /\ loading[j] = None /\ OwnerOf[player'[j]] = account[j]
    <3>1. CASE j = cur BY <1>2, <1>4, <1>6, <1>8, <3>1
    <3>2. CASE j # cur
      <4>1. player'[j] = player[j] BY <1>6, <2>1, <3>2
      <4> QED BY <1>1, <2>1, <4>1 DEF Fields
    <3> QED BY <3>1, <3>2
  <2>2. \A j \in SessionIds : j \in inQueue => player'[j] = None BY <1>1, <1>2, <1>6 DEF Fields
  <2> QED BY <1>1, <1>2, <1>3, <1>10, <2>1, <2>2 DEF Fields
<1>12. Cursor' BY <1>1, <1>2, <1>3, SameCursor
<1>13. Pairs'
  <2>1. \A b \in Accounts : Ahead(b)' BY <1>2 DEF Ahead
  <2>2. ASSUME NEW b \in Accounts, offline[b] # None, sessions[b] # None,
               player'[sessions[b]] # None \/ loading[sessions[b]] # None,
               player'[offline[b]] # None
        PROVE  /\ offline[b] \in kicked
               /\ player'[offline[b]] \notin {player'[sessions[b]], loading[sessions[b]]}
    <3>1. b # a BY <1>5, <1>6, <2>2 DEF off
    <3>2. sessions[b] \notin {cur, off} /\ sessions[b] \in SessionIds
      BY <1>1, <1>4, <1>5, <2>2, <3>1, ListedIs
    <3>3. offline[b] \notin {cur, off} /\ offline[b] \in SessionIds
      BY <1>1, <1>4, <1>5, <2>2, <3>1, ListedIs
    <3>4. player'[sessions[b]] = player[sessions[b]] /\ player'[offline[b]] = player[offline[b]]
      BY <1>6, <3>2, <3>3
    <3> QED BY <1>1, <2>2, <3>4 DEF Pairs, Pair
  <2> QED BY <1>2, <1>3, <2>1, <2>2 DEF Pairs, Pair
<1>14. Online'
  <2>1. ASSUME NEW d \in charOnline PROVE \E i \in live : player'[i] = d
    <3>1. PICK i \in live : player[i] = d BY <1>1 DEF Online
    <3>2. i \in SessionIds BY <1>1 DEF Typed
    <3>3. CASE i = off BY <1>2, <1>4, <1>6, <3>1, <3>3
    <3>4. CASE i = cur /\ i # off
      <4>1. d = None BY <1>2, <3>1, <3>4
      <4>2. player'[off] = None /\ off \in live BY <1>5, <1>6 DEF IsOffline
      <4> QED BY <4>1, <4>2
    <3>5. CASE i # cur /\ i # off BY <1>6, <3>1, <3>2, <3>5
    <3> QED BY <3>3, <3>4, <3>5
  <2> QED BY <1>1, <1>2, <1>3, <2>1 DEF Online
<1>15. Line' BY <1>2, SameLine DEF IInv
<1>16. Ending' BY <1>1, <1>2, <1>3, SameEnding
<1> QED BY <1>9, <1>10, <1>11, <1>12, <1>13, <1>14, <1>15, <1>16 DEF IInv

\* The player of the session that is updated leaves the world.
LEMMA LogoutInv == ASSUME IInv, InstantLogout \/ DelayedLogout PROVE IInv'
<1>1. Typed /\ Places /\ Kept /\ Fields /\ Cursor /\ Pairs /\ Online /\ Ending BY DEF IInv
<1>2. /\ UNCHANGED placeVars /\ UNCHANGED <<loading, socket, ready, inQueue, kicked>>
      /\ UNCHANGED <<queued, kickedAll, stopped, accountOnline, phase, visit, cur>>
      /\ phase \in {"packets", "tail"}
      /\ player' = [player EXCEPT ![cur] = None] /\ charOnline' = charOnline \ LogoutWrites({cur})
  BY DEF InstantLogout, DelayedLogout, LogoutPlayer, HandlingPacket, placeVars, queueVars, listVars,
         netVars, ctlVars, stopVars
<1>3. UNCHANGED <<live, account, connecting, addSessQueue, sessions, offline>> BY <1>2 DEF placeVars
<1>4. cur \in SessionIds /\ cur \in live /\ \A b \in Accounts : offline[b] # cur
  BY <1>1, <1>2, CurrentIs
<1>5. \A j \in SessionIds : player'[j] = IF j = cur THEN None ELSE player[j]
  BY <1>1, <1>2 DEF Typed
<1>6. Typed'
  <2>1. player' \in [SessionIds -> Chars \cup {None}] BY <1>1, <1>2 DEF Typed
  <2> QED BY <1>1, <1>2, <1>3, <2>1 DEF Typed
<1>7. /\ Places' /\ Kept'
      /\ \A j : (IsListed(j)' <=> IsListed(j)) /\ (IsOffline(j)' <=> IsOffline(j))
  BY <1>1, <1>2, SamePlaces
<1>8. Fields'
  <2>1. \A j \in SessionIds : player'[j] # None => player'[j] = player[j] BY <1>5
  <2>2. \A j \in SessionIds : player[j] = None => player'[j] = None BY <1>5
  <2> QED BY <1>1, <1>2, <1>3, <1>7, <2>1, <2>2 DEF Fields
<1>9. Cursor' BY <1>1, <1>2, <1>3, SameCursor
<1>10. Pairs'
  <2>1. \A b \in Accounts : Ahead(b)' BY <1>2 DEF Ahead
  <2>2. ASSUME NEW b \in Accounts, offline[b] # None, sessions[b] # None,
               player'[sessions[b]] # None \/ loading[sessions[b]] # None,
               player'[offline[b]] # None
        PROVE  /\ offline[b] \in kicked
               /\ player'[offline[b]] \notin {player'[sessions[b]], loading[sessions[b]]}
    <3>1. sessions[b] \in SessionIds /\ offline[b] \in SessionIds BY <1>1, <2>2, ListedIs
    <3>2. player'[offline[b]] = player[offline[b]] BY <1>4, <1>5, <3>1
    <3>3. player'[sessions[b]] \in {None, player[sessions[b]]} BY <1>5, <3>1
    <3> QED BY <1>1, <2>2, <3>2, <3>3 DEF Pairs, Pair
  <2> QED BY <1>2, <1>3, <2>1, <2>2 DEF Pairs, Pair
<1>11. Online'
  <2>1. ASSUME NEW d \in charOnline' PROVE \E i \in live : player'[i] = d
    <3>1. PICK i \in live : player[i] = d BY <1>1, <1>2 DEF Online
    <3>2. i \in SessionIds BY <1>1 DEF Typed
    <3>3. CASE i # cur BY <1>5, <3>1, <3>2, <3>3
    <3>4. CASE i = cur /\ player[cur] = None BY <1>4, <1>5, <3>1, <3>4
    <3>5. CASE i = cur /\ player[cur] # None
      <4>1. d \in Chars /\ OwnerOf[d] = account[cur] BY <1>1, <1>4, <3>1, <3>5 DEF Typed, Fields
      <4>2. d \in LogoutWrites({cur}) BY <3>5, <4>1 DEF LogoutWrites, CharsOf
      <4> QED BY <1>2, <4>2
    <3> QED BY <3>3, <3>4, <3>5
  <2> QED BY <1>1, <1>2, <1>3, <2>1 DEF Online
<1>12. Line' BY <1>2, SameLine DEF IInv
<1>13. Ending' BY <1>1, <1>2, <1>3, SameEnding
<1> QED BY <1>6, <1>7, <1>8, <1>9, <1>10, <1>11, <1>12, <1>13 DEF IInv

\* The world thread takes the answer of the login query: the player enters the
\* world, or the session is kicked.
LEMMA LoginDoneInv ==
    ASSUME IInv, PlayerLoginFailed \/ \E elsewhere \in BOOLEAN : PlayerLoginFromDB(elsewhere)
    PROVE  IInv'
<1>1. Typed /\ Places /\ Kept /\ Fields /\ Cursor /\ Pairs /\ Online /\ Ending BY DEF IInv
<1>2. /\ UNCHANGED placeVars /\ UNCHANGED <<inQueue, queued, kickedAll, stopped, visit, cur>>
      /\ phase = "packets" /\ phase' = "tail" /\ cur \in ready
      /\ loading' = [loading EXCEPT ![cur] = None] /\ ready' = ready \ {cur}
  BY DEF PlayerLoginFailed, PlayerLoginFromDB, HandlingPacket, placeVars, queueVars, listVars,
         netVars, stopVars
<1>3. UNCHANGED <<live, account, connecting, addSessQueue, sessions, offline>> BY <1>2 DEF placeVars
<1>4. /\ cur \in SessionIds /\ cur \in live /\ account[cur] \in Accounts /\ IsListed(cur)
      /\ \A b \in Accounts : offline[b] # cur
      /\ \A b \in Accounts : sessions[b] = cur <=> b = account[cur]
  BY <1>1, <1>2, CurrentIs
<1>5. /\ loading[cur] # None /\ loading[cur] \in Chars /\ OwnerOf[loading[cur]] = account[cur]
      /\ player[cur] = None /\ cur \notin inQueue
  BY <1>1, <1>2, <1>4 DEF Fields, Typed
<1>6. \A j \in SessionIds : loading'[j] = IF j = cur THEN None ELSE loading[j]
  BY <1>1, <1>2 DEF Typed
<1>7. loading' \in [SessionIds -> Chars \cup {None}] /\ ready' \subseteq SessionIds
  BY <1>1, <1>2 DEF Typed
<1>8. /\ Places' /\ Kept'
      /\ \A j : (IsListed(j)' <=> IsListed(j)) /\ (IsOffline(j)' <=> IsOffline(j))
  BY <1>1, <1>2, SamePlaces
<1>9. Cursor' BY <1>1, <1>2, <1>3 DEF Cursor, IsListed
<1>10. Line' BY <1>2, SameLine DEF IInv
<1>11. \A b \in Accounts : Ahead(b)' BY <1>2 DEF Ahead
<1>12. phase' \in Phases BY <1>2 DEF Phases
<1>13. CASE PlayerLoginFailed
  <2>1. /\ UNCHANGED <<player, accountOnline, charOnline>>
        /\ kicked' = kicked \cup {cur}
        /\ socket' = [socket EXCEPT ![cur] = IF @ = "open" THEN "closed" ELSE @]
    BY <1>13 DEF PlayerLoginFailed, KickEffect, dbVars
  <2>2. \A j \in SessionIds : /\ socket'[j] \in {"open", "closed", "none"}
                              /\ socket'[j] = "open" => socket[j] = "open" /\ j # cur
                              /\ socket[j] = "none" => socket'[j] = "none"
    BY <1>1, <2>1 DEF Typed
  <2>3. Typed' BY <1>1, <1>2, <1>3, <1>4, <1>7, <1>12, <2>1 DEF Typed
  <2>4. Fields'
    <3>1. ASSUME NEW b \in Accounts, offline'[b] # None PROVE socket'[offline'[b]] = "none"
      <4>1. offline[b] # None BY <1>3, <3>1
      <4>2. offline[b] \in SessionIds /\ socket[offline[b]] = "none" BY <1>1, <4>1, ListedIs DEF Fields
      <4> QED BY <1>3, <2>2, <4>2
    <3>2. \A j \in kicked' : (IsListed(j) \/ IsOffline(j)) /\ socket'[j] # "open"
      BY <1>1, <1>4, <2>1, <2>2 DEF Fields, Typed
    <3>3. \A j \in SessionIds : /\ loading'[j] # None => loading'[j] = loading[j]
                                /\ loading[j] = None => loading'[j] = None
                                /\ j \in ready' => loading'[j] # None
      BY <1>1, <1>2, <1>6 DEF Fields
    <3> QED BY <1>1, <1>2, <1>3, <1>8, <2>1, <3>1, <3>2, <3>3 DEF Fields
  <2>5. Pairs'
    <3>1. ASSUME NEW b \in Accounts, offline[b] # None, sessions[b] # None,
                 player[sessions[b]] # None \/ loading'[sessions[b]] # None,
                 player[offline[b]] # None
          PROVE  /\ offline[b] \in kicked'
                 /\ player[offline[b]] \notin {player[sessions[b]], loading'[sessions[b]]}
      <4>1. sessions[b] \in SessionIds BY <1>1, <3>1, ListedIs
      <4>2. sessions[b] # cur /\ loading'[sessions[b]] = loading[sessions[b]]
        BY <1>5, <1>6, <3>1, <4>1
      <4> QED BY <1>1, <2>1, <3>1, <4>2 DEF Pairs, Pair
    <3> QED BY <1>3, <1>11, <2>1, <3>1 DEF Pairs, Pair
  <2>6. Online' BY <1>3, <2>1, SameOnline DEF IInv
  <2>7. Ending' BY <1>1, <1>2, <1>3, <1>4, <2>1, <1>11 DEF Ending, Comes
  <2> QED BY <1>8, <1>9, <1>10, <2>3, <2>4, <2>5, <2>6, <2>7 DEF IInv
<1>14. CASE \E elsewhere \in BOOLEAN : PlayerLoginFromDB(elsewhere)
  <2>1. /\ UNCHANGED <<socket, kicked>>
        /\ player' = [player EXCEPT ![cur] = loading[cur]]
        /\ charOnline' = charOnline \cup {loading[cur]}
        /\ accountOnline' = accountOnline \cup {account[cur]}
    BY <1>14 DEF PlayerLoginFromDB
  <2>2. \A j \in SessionIds : player'[j] = IF j = cur THEN loading[cur] ELSE player[j]
    BY <1>1, <2>1 DEF Typed
  <2>3. Typed'
    <3>1. player' \in [SessionIds -> Chars \cup {None}] BY <1>1, <1>5, <2>1 DEF Typed
    <3> QED BY <1>1, <1>2, <1>3, <1>7, <1>12, <2>1, <3>1 DEF Typed
  <2>4. Fields'
    <3>1. ASSUME NEW j \in SessionIds, player'[j] # None
          PROVE  /\ IsListed(j) \/ IsOffline(j)
                 /\ loading'[j] = None /\ OwnerOf[player'[j]] = account[j]
      <4>1. CASE j = cur BY <1>4, <1>5, <1>6, <2>2, <4>1
      <4>2. CASE j # cur
        <5>1. player'[j] = player[j] /\ loading'[j] = loading[j] BY <1>6, <2>2, <4>2
        <5> QED BY <1>1, <3>1, <5>1 DEF Fields
      <4> QED BY <4>1, <4>2
    <3>2. \A j \in SessionIds : /\ loading'[j] # None => loading'[j] = loading[j]
                                /\ loading[j] = None => loading'[j] = None
                                /\ j \in ready' => loading'[j] # None
                                /\ j \in inQueue => player'[j] = player[j]
      BY <1>1, <1>2, <1>5, <1>6, <2>2 DEF Fields
    <3> QED BY <1>1, <1>2, <1>3, <1>8, <2>1, <3>1, <3>2 DEF Fields
  <2>5. Pairs'
    <3>1. ASSUME NEW b \in Accounts, offline[b] # None, sessions[b] # None,
                 player'[sessions[b]] # None \/ loading'[sessions[b]] # None,
                 player'[offline[b]] # None
          PROVE  /\ offline[b] \in kicked
                 /\ player'[offline[b]] \notin {player'[sessions[b]], loading'[sessions[b]]}
      <4>1. sessions[b] \in SessionIds /\ offline[b] \in SessionIds BY <1>1, <3>1, ListedIs
      <4>2. player'[offline[b]] = player[offline[b]] BY <1>4, <2>2, <4>1
      <4>3. CASE sessions[b] = cur
        <5>1. player'[sessions[b]] = loading[sessions[b]] /\ loading'[sessions[b]] = None
          BY <1>6, <2>2, <4>1, <4>3
        <5>2. loading[sessions[b]] # None BY <1>5, <4>3
        <5> QED BY <1>1, <3>1, <4>2, <5>1, <5>2 DEF Pairs, Pair
      <4>4. CASE sessions[b] # cur
        <5>1. /\ player'[sessions[b]] = player[sessions[b]]
              /\ loading'[sessions[b]] = loading[sessions[b]]
          BY <1>6, <2>2, <4>1, <4>4
        <5> QED BY <1>1, <3>1, <4>2, <5>1 DEF Pairs, Pair
      <4> QED BY <4>3, <4>4
    <3> QED BY <1>3, <1>11, <2>1, <3>1 DEF Pairs, Pair
  <2>6. Online'
    <3>1. ASSUME NEW d \in charOnline' PROVE \E i \in live : player'[i] = d
      <4>1. CASE d = loading[cur] BY <1>4, <2>2, <4>1
      <4>2. CASE d \in charOnline
        <5>1. PICK i \in live : player[i] = d BY <1>1, <4>2 DEF Online
        <5>2. i \in SessionIds BY <1>1 DEF Typed
        <5>3. CASE i # cur BY <2>2, <5>1, <5>2, <5>3
        <5>4. CASE i = cur
          <6>1. d = None /\ d \in Chars BY <1>1, <1>5, <4>2, <5>1, <5>4 DEF Online
          <6> QED BY <6>1, ConstantAssumption
        <5> QED BY <5>3, <5>4
      <4> QED BY <2>1, <3>1, <4>1, <4>2
    <3>2. \A b \in accountOnline' : \E i \in live : account[i] = b
      BY <1>1, <1>4, <2>1 DEF Online
    <3>3. charOnline' \subseteq Chars BY <1>1, <1>5, <2>1 DEF Online
    <3> QED BY <1>3, <3>1, <3>2, <3>3 DEF Online
  <2>7. Ending' BY <1>1, <1>2, <1>3, <2>1, <1>11 DEF Ending, Comes
  <2> QED BY <1>8, <1>9, <1>10, <2>3, <2>4, <2>5, <2>6, <2>7 DEF IInv
<1> QED BY <1>13, <1>14

\* The places in terms of lists.
LEMMA PlacesAre ==
    /\ \A j : Waits(j) <=> IsIn(j, addSessQueue)
    /\ Places => Once(addSessQueue)
    /\ Line => Once(queued)
BY DEF Waits, IsIn, Once, Places, Line

\* A network thread builds a session.
LEMMA ConstructInv ==
    ASSUME IInv, NEW i \in SessionIds, NEW a \in Accounts, Construct(i, a) PROVE IInv'
<1>1. Typed /\ Places /\ Kept /\ Fields /\ Cursor /\ Pairs /\ Online /\ Line /\ Ending BY DEF IInv
<1>2. /\ UNCHANGED <<player, loading, ready, inQueue, kicked, addSessQueue, sessions, offline>>
      /\ UNCHANGED <<queued, kickedAll, stopped, charOnline, phase, visit, cur>>
      /\ i \notin live /\ live' = live \cup {i}
      /\ account' = [account EXCEPT ![i] = a] /\ socket' = [socket EXCEPT ![i] = "open"]
      /\ connecting' = connecting \cup {i} /\ accountOnline' = accountOnline \cup {a}
  BY DEF Construct, queueVars, listVars, ctlVars, stopVars
<1>3. a # None /\ i # None BY ConstantAssumption
<1>4. \A j \in SessionIds : /\ account'[j] = IF j = i THEN a ELSE account[j]
                            /\ socket'[j] = IF j = i THEN "open" ELSE socket[j]
  BY <1>1, <1>2 DEF Typed
<1>5. (\A b \in Accounts : sessions[b] # i /\ offline[b] # i) /\ ~Waits(i)
  <2>1. \A b \in Accounts : sessions[b] # i /\ offline[b] # i BY <1>1, <1>2, <1>3, ListedIs
  <2>2. ~Waits(i) BY <1>1, <1>2 DEF Places, Waits
  <2> QED BY <2>1, <2>2
<1>6. \A j \in SessionIds : (IsListed(j)' <=> IsListed(j)) /\ (IsOffline(j)' <=> IsOffline(j))
  <2>1. ~IsListed(i) /\ ~IsOffline(i) BY <1>2 DEF IsListed, IsOffline
  <2>2. ~IsListed(i)' /\ ~IsOffline(i)' BY <1>2, <1>4, <1>5 DEF IsListed, IsOffline
  <2>3. ASSUME NEW j \in SessionIds, j # i
        PROVE  (IsListed(j)' <=> IsListed(j)) /\ (IsOffline(j)' <=> IsOffline(j))
    BY <1>2, <1>4, <2>3 DEF IsListed, IsOffline
  <2> QED BY <2>1, <2>2, <2>3
<1>7. \A j : Waits(j)' <=> Waits(j) BY <1>2 DEF Waits
<1>8. Typed' BY <1>1, <1>2 DEF Typed
<1>9. Places'
  <2>1. \A j \in SessionIds : j \in live' <=> account'[j] # None BY <1>1, <1>2, <1>3, <1>4 DEF Places
  <2>2. \A n \in DOMAIN addSessQueue : addSessQueue[n] \in live' \ connecting'
    BY <1>1, <1>2, <1>5 DEF Places, Waits
  <2>3. ASSUME NEW b \in Accounts, sessions[b] # None
        PROVE  /\ sessions[b] \in live' \ connecting' /\ account'[sessions[b]] = b
               /\ sessions[b] # offline[b] /\ ~Waits(sessions[b])
    <3>1. sessions[b] # i /\ sessions[b] \in SessionIds BY <1>1, <1>5, <2>3, ListedIs
    <3> QED BY <1>1, <1>2, <1>4, <2>3, <3>1 DEF Places
  <2>4. ASSUME NEW b \in Accounts, offline[b] # None
        PROVE  offline[b] \in live' \ connecting' /\ account'[offline[b]] = b /\ ~Waits(offline[b])
    <3>1. offline[b] # i /\ offline[b] \in SessionIds BY <1>1, <1>5, <2>4, ListedIs
    <3> QED BY <1>1, <1>2, <1>4, <2>4, <3>1 DEF Places
  <2>5. connecting' \subseteq live' BY <1>1, <1>2 DEF Places
  <2>6. \A m, n \in DOMAIN addSessQueue : addSessQueue[m] = addSessQueue[n] => m = n
    BY <1>1 DEF Places
  <2> QED BY <1>2, <1>7, <2>1, <2>2, <2>3, <2>4, <2>5, <2>6 DEF Places
<1>10. Kept' BY <1>1, <1>2, <1>6, <1>7 DEF Kept, Typed
<1>11. Fields'
  <2>1. i \notin kicked /\ player[i] = None /\ loading[i] = None /\ i \notin inQueue
    BY <1>1, <1>2 DEF Fields, IsListed, IsOffline
  <2>2. \A j \in SessionIds : j # i => account'[j] = account[j] /\ socket'[j] = socket[j] BY <1>4
  <2>3. ASSUME NEW b \in Accounts, offline[b] # None PROVE socket'[offline[b]] = "none"
    <3>1. offline[b] # i /\ offline[b] \in SessionIds BY <1>1, <1>5, <2>3, ListedIs
    <3> QED BY <1>1, <2>2, <2>3, <3>1 DEF Fields
  <2> QED BY <1>1, <1>2, <1>6, <2>1, <2>2, <2>3 DEF Fields
<1>12. Cursor'
  <2>1. ASSUME phase \in {"packets", "tail"} PROVE IsListed(cur)' /\ account'[cur] \notin visit
    <3>1. cur \in SessionIds /\ cur \in live /\ IsListed(cur) /\ account[cur] \notin visit
      BY <1>1, <2>1, CurrentIs
    <3> QED BY <1>2, <1>4, <1>6, <3>1
  <2> QED BY <1>1, <1>2, <2>1 DEF Cursor, IsListed
<1>13. Pairs' BY <1>1, <1>2, SamePairs
<1>14. Online'
  <2>1. \A b \in accountOnline' : \E j \in live' : account'[j] = b
    BY <1>1, <1>2, <1>4 DEF Online, Typed
  <2>2. \A c \in charOnline : \E j \in live' : player[j] = c BY <1>1, <1>2 DEF Online
  <2> QED BY <1>1, <1>2, <2>1, <2>2 DEF Online
<1>15. Line' BY <1>1, <1>2, SameLine
<1>16. Ending' BY <1>1, <1>2, SameEnding
<1> QED BY <1>8, <1>9, <1>10, <1>11, <1>12, <1>13, <1>14, <1>15, <1>16 DEF IInv

\* A network thread hands its session over, or rejects the client.
LEMMA HandOverInv ==
    ASSUME IInv, NEW i \in SessionIds, AddSession(i) \/ RejectAuth(i) PROVE IInv'
<1>1. Typed /\ Places /\ Kept /\ Fields /\ Cursor /\ Pairs /\ Online /\ Line /\ Ending BY DEF IInv
<1>2. /\ UNCHANGED <<live, account, player, loading, ready, inQueue, kicked, sessions, offline>>
      /\ UNCHANGED <<queued, kickedAll, stopped, accountOnline, charOnline, phase, visit, cur>>
      /\ i \in connecting /\ connecting' = connecting \ {i}
  BY DEF AddSession, RejectAuth, objVars, queueVars, listVars, ctlVars, stopVars, dbVars
<1>3. i \in live /\ i # None BY <1>1, <1>2, ConstantAssumption DEF Places
<1>4. (\A b \in Accounts : sessions[b] # i /\ offline[b] # i) /\ ~Waits(i)
  <2>1. \A b \in Accounts : sessions[b] # i /\ offline[b] # i BY <1>1, <1>2, <1>3 DEF Places
  <2>2. ~Waits(i) BY <1>1, <1>2 DEF Places, Waits
  <2> QED BY <2>1, <2>2
<1>5. \A j : (IsListed(j)' <=> IsListed(j)) /\ (IsOffline(j)' <=> IsOffline(j))
  BY <1>2 DEF IsListed, IsOffline
<1>6. ~IsListed(i) /\ ~IsOffline(i) BY <1>1, <1>3, <1>4, AccountIs DEF IsListed, IsOffline
<1>7. Cursor' /\ Pairs' /\ Online' /\ Line' /\ Ending'
  BY <1>1, <1>2, SameCursor, SamePairs, SameOnline, SameLine, SameEnding
<1>8. CASE AddSession(i)
  <2>1. socket' = socket /\ addSessQueue' = Append(addSessQueue, i) BY <1>8 DEF AddSession, objVars
  <2>2. /\ addSessQueue' \in Seq(SessionIds) /\ Once(addSessQueue')
        /\ \A j : Waits(j)' <=> Waits(j) \/ j = i
    <3>1. addSessQueue \in Seq(SessionIds) /\ Once(addSessQueue) /\ ~IsIn(i, addSessQueue)
      BY <1>1, <1>4, PlacesAre DEF Typed
    <3>2. /\ Append(addSessQueue, i) \in Seq(SessionIds) /\ Once(Append(addSessQueue, i))
          /\ \A j : IsIn(j, Append(addSessQueue, i)) <=> IsIn(j, addSessQueue) \/ j = i
      BY <3>1, Pushed
    <3>3. \A j : Waits(j) <=> IsIn(j, addSessQueue) BY DEF Waits, IsIn
    <3>4. \A j : Waits(j)' <=> IsIn(j, addSessQueue') BY DEF Waits, IsIn
    <3> QED BY <2>1, <3>2, <3>3, <3>4
  <2>3. Typed' BY <1>1, <1>2, <2>1, <2>2 DEF Typed
  <2>4. Places'
    <3>1. \A n \in DOMAIN addSessQueue' : addSessQueue'[n] \in live \ connecting'
      <4>1. ASSUME NEW n \in DOMAIN addSessQueue' PROVE addSessQueue'[n] \in live \ connecting'
        <5>1. PICK j : j = addSessQueue'[n] OBVIOUS
        <5>2. Waits(j)' BY <5>1 DEF Waits
        <5>3. Waits(j) \/ j = i BY <2>2, <5>2
        <5> QED BY <1>1, <1>2, <1>3, <5>1, <5>3 DEF Places, Waits
      <4> QED BY <4>1
    <3>2. \A b \in Accounts : sessions[b] # None =>
            /\ sessions[b] \in live \ connecting' /\ account[sessions[b]] = b
            /\ sessions[b] # offline[b] /\ ~Waits(sessions[b])'
      BY <1>1, <1>2, <1>4, <2>2 DEF Places
    <3>3. \A b \in Accounts : offline[b] # None =>
            /\ offline[b] \in live \ connecting' /\ account[offline[b]] = b
            /\ ~Waits(offline[b])'
      BY <1>1, <1>2, <1>4, <2>2 DEF Places
    <3>4. \A m, n \in DOMAIN addSessQueue' : addSessQueue'[m] = addSessQueue'[n] => m = n
      BY <2>2 DEF Once
    <3>5. (\A j \in SessionIds : j \in live <=> account[j] # None) /\ connecting' \subseteq live
      BY <1>1, <1>2 DEF Places
    <3> QED BY <1>2, <3>1, <3>2, <3>3, <3>4, <3>5 DEF Places, Waits
  <2>5. Kept' BY <1>1, <1>2, <1>5, <2>2 DEF Kept
  <2>6. Fields' BY <1>1, <1>2, <1>5, <2>1 DEF Fields
  <2> QED BY <1>7, <2>3, <2>4, <2>5, <2>6 DEF IInv
<1>9. CASE RejectAuth(i)
  <2>1. MayReject /\ addSessQueue' = addSessQueue /\ socket' = [socket EXCEPT ![i] = "closed"]
    BY <1>9 DEF RejectAuth
  <2>2. Typed' BY <1>1, <1>2, <2>1 DEF Typed
  <2>3. Places' BY <1>1, <1>2, <2>1 DEF Places, Waits
  <2>4. Kept' BY <2>1 DEF Kept
  <2>5. Fields'
    <3>1. \A j \in SessionIds : socket'[j] = IF j = i THEN "closed" ELSE socket[j]
      BY <1>1, <2>1 DEF Typed
    <3>2. ASSUME NEW b \in Accounts, offline[b] # None PROVE socket'[offline[b]] = "none"
      <4>1. offline[b] # i /\ offline[b] \in SessionIds BY <1>1, <1>4, <3>2, ListedIs
      <4> QED BY <1>1, <3>1, <3>2, <4>1 DEF Fields
    <3>3. \A j \in SessionIds : socket'[j] = "open" => socket[j] = "open" BY <3>1
    <3> QED BY <1>1, <1>2, <1>5, <3>2, <3>3 DEF Fields
  <2> QED BY <1>7, <2>2, <2>3, <2>4, <2>5 DEF IInv
<1> QED BY <1>8, <1>9

-----------------------------------------------------------------------------
(* The steps that move the sessions of one account between the lists and   *)
(* delete the others have one form: of the sessions that account a lists   *)
(* or keeps offline, and the one taken from addSessQueue (new), s is now   *)
(* listed, o is kept offline, and the rest is deleted.                     *)

Gone(a, new, s, o) == ({sessions[a], offline[a]} \cup new) \ {s, o, None}

Move(a, new, s, o, silent) ==
    /\ new \subseteq SessionIds
    /\ \A i \in new : Waits(i) /\ account[i] = a
    /\ {s, o} \subseteq {sessions[a], offline[a], None} \cup new
    /\ s # None => s # o
    /\ connecting' = connecting
    /\ addSessQueue' \in Seq(SessionIds) /\ Once(addSessQueue')
    /\ \A j \in SessionIds : Waits(j)' <=> Waits(j) /\ j \notin new
    /\ sessions' = [sessions EXCEPT ![a] = s]
    /\ offline' = [offline EXCEPT ![a] = o]
    /\ Delete(Gone(a, new, s, o), silent)

\* Whose sessions they are.
LEMMA MoveFacts ==
    ASSUME Typed, Places, NEW a \in Accounts, NEW new, NEW s, NEW o, NEW silent,
           Move(a, new, s, o, silent)
    PROVE  /\ \A i \in {sessions[a], offline[a], s, o} \cup new :
                 i # None => i \in live \ connecting /\ i \in SessionIds /\ account[i] = a
           /\ \A i \in Gone(a, new, s, o) :
                 i \in live \ connecting /\ i \in SessionIds /\ account[i] = a
           /\ \A i \in new : i # None /\ ~IsListed(i) /\ ~IsOffline(i)
           /\ live' = live \ Gone(a, new, s, o)
           /\ \A b \in Accounts : /\ sessions'[b] = IF b = a THEN s ELSE sessions[b]
                                  /\ offline'[b] = IF b = a THEN o ELSE offline[b]
           /\ \A i \in SessionIds :
                 /\ account'[i] = IF i \in Gone(a, new, s, o) THEN None ELSE account[i]
                 /\ player'[i] = IF i \in Gone(a, new, s, o) THEN None ELSE player[i]
                 /\ loading'[i] = IF i \in Gone(a, new, s, o) THEN None ELSE loading[i]
<1> DEFINE D == Gone(a, new, s, o)
<1>1. ASSUME NEW i \in new PROVE i \in live \ connecting /\ i \in SessionIds /\ account[i] = a
  <2>1. Waits(i) /\ account[i] = a /\ i \in SessionIds BY DEF Move
  <2> QED BY <2>1 DEF Waits, Places
<1>2. ASSUME NEW i \in {sessions[a], offline[a]}, i # None
      PROVE  i \in live \ connecting /\ i \in SessionIds /\ account[i] = a
  BY <1>2, ListedIs DEF Places
<1>3. {s, o} \subseteq {sessions[a], offline[a], None} \cup new BY DEF Move
<1>4. \A i \in {sessions[a], offline[a], s, o} \cup new :
          i # None => i \in live \ connecting /\ i \in SessionIds /\ account[i] = a
  BY <1>1, <1>2, <1>3
<1>5. \A i \in D : i \in live \ connecting /\ i \in SessionIds /\ account[i] = a
  BY <1>4 DEF Gone
<1>6. ASSUME NEW i \in new PROVE i # None /\ ~IsListed(i) /\ ~IsOffline(i)
  <2>1. Waits(i) /\ i \in SessionIds BY DEF Move
  <2>2. i # None BY <2>1, ConstantAssumption
  <2>3. \A b \in Accounts : sessions[b] # i /\ offline[b] # i BY <2>1, <2>2 DEF Places
  <2>4. account[i] \in Accounts BY <1>1
  <2> QED BY <2>2, <2>3, <2>4 DEF IsListed, IsOffline
<1>7. Delete(D, silent) BY DEF Move
<1> HIDE DEF D
<1>8. /\ live' = live \ D
      /\ \A i \in SessionIds : /\ account'[i] = IF i \in D THEN None ELSE account[i]
                               /\ player'[i] = IF i \in D THEN None ELSE player[i]
                               /\ loading'[i] = IF i \in D THEN None ELSE loading[i]
  BY <1>7 DEF Delete
<1>9. \A b \in Accounts : /\ sessions'[b] = IF b = a THEN s ELSE sessions[b]
                          /\ offline'[b] = IF b = a THEN o ELSE offline[b]
  BY DEF Move, Typed
<1> QED BY <1>4, <1>5, <1>6, <1>8, <1>9 DEF D

\* The sessions stay where they belong.
LEMMA MovePlaces ==
    ASSUME Typed, Places, Kept, NEW a \in Accounts, NEW new, NEW s, NEW o, NEW silent,
           Move(a, new, s, o, silent)
    PROVE  /\ Places' /\ Kept'
           /\ \A j \in SessionIds :
                 /\ IsListed(j)' <=> (IF j \in live /\ account[j] = a THEN j = s ELSE IsListed(j))
                 /\ IsOffline(j)' <=> (IF j \in live /\ account[j] = a THEN j = o ELSE IsOffline(j))
<1> DEFINE D == Gone(a, new, s, o)
<1>1. /\ \A i \in {sessions[a], offline[a], s, o} \cup new :
            i # None => i \in live \ connecting /\ i \in SessionIds /\ account[i] = a
      /\ \A i \in D : i \in live \ connecting /\ i \in SessionIds /\ account[i] = a
      /\ \A i \in new : i # None /\ ~IsListed(i) /\ ~IsOffline(i)
      /\ live' = live \ D
      /\ \A b \in Accounts : /\ sessions'[b] = IF b = a THEN s ELSE sessions[b]
                             /\ offline'[b] = IF b = a THEN o ELSE offline[b]
      /\ \A i \in SessionIds : account'[i] = IF i \in D THEN None ELSE account[i]
  BY MoveFacts
<1>2. D = ({sessions[a], offline[a]} \cup new) \ {s, o, None} BY DEF Gone
<1> HIDE DEF D
<1>3. /\ new \subseteq SessionIds /\ \A i \in new : Waits(i)
      /\ {s, o} \subseteq {sessions[a], offline[a], None} \cup new
      /\ s # None => s # o
      /\ connecting' = connecting /\ Once(addSessQueue')
      /\ \A j \in SessionIds : Waits(j)' <=> Waits(j) /\ j \notin new
      /\ addSessQueue' \in Seq(SessionIds)
  BY DEF Move
<1>4. \A j \in live : j \in SessionIds /\ account[j] \in Accounts /\ j # None BY AccountIs
<1>5. ASSUME NEW j \in SessionIds
      PROVE  /\ IsListed(j)' <=> (IF j \in live /\ account[j] = a THEN j = s ELSE IsListed(j))
             /\ IsOffline(j)' <=> (IF j \in live /\ account[j] = a THEN j = o ELSE IsOffline(j))
  <2>1. CASE j \notin live BY <1>1, <2>1 DEF IsListed, IsOffline
  <2>2. CASE j \in live /\ account[j] = a /\ j \in D
    <3>1. j # s /\ j # o /\ j \notin live' BY <1>1, <1>2, <2>2
    <3> QED BY <2>2, <3>1 DEF IsListed, IsOffline
  <2>3. CASE j \in live /\ account[j] = a /\ j \notin D
    <3>1. j \in live' /\ account'[j] = a BY <1>1, <2>3
    <3>2. sessions'[a] = s /\ offline'[a] = o BY <1>1
    <3> QED BY <2>3, <3>1, <3>2 DEF IsListed, IsOffline
  <2>4. CASE j \in live /\ account[j] # a
    <3>1. j \notin D BY <1>1, <2>4
    <3>2. j \in live' /\ account'[j] = account[j] /\ account[j] \in Accounts BY <1>1, <1>4, <2>4, <3>1
    <3>3. sessions'[account[j]] = sessions[account[j]] /\ offline'[account[j]] = offline[account[j]]
      BY <1>1, <2>4, <3>2
    <3> QED BY <2>4, <3>2, <3>3 DEF IsListed, IsOffline
  <2> QED BY <2>1, <2>2, <2>3, <2>4
<1>6. Places'
  <2>1. \A i \in SessionIds : i \in live' <=> account'[i] # None BY <1>1 DEF Places
  <2>2. connecting' \subseteq live' BY <1>1, <1>3 DEF Places
  <2>3. ASSUME NEW n \in DOMAIN addSessQueue' PROVE addSessQueue'[n] \in live' \ connecting'
    <3>1. PICK j \in SessionIds : j = addSessQueue'[n] BY <1>3
    <3>2. Waits(j)' BY <3>1 DEF Waits
    <3>3. Waits(j) /\ j \notin new BY <1>3, <3>2
    <3>4. j \in live \ connecting BY <3>3 DEF Waits, Places
    <3>5. j \notin {sessions[a], offline[a]} BY <3>3, <3>4, <1>4 DEF Places
    <3>6. j \notin D BY <1>2, <3>3, <3>5
    <3> QED BY <1>1, <1>3, <3>1, <3>4, <3>6
  <2>4. \A m, n \in DOMAIN addSessQueue' : addSessQueue'[m] = addSessQueue'[n] => m = n
    BY <1>3 DEF Once
  <2>5. ASSUME NEW i \in {s, o}, i # None
        PROVE  /\ i \in live' \ connecting' /\ account'[i] = a /\ ~Waits(i)'
    <3>1. i \in live \ connecting /\ i \in SessionIds /\ account[i] = a /\ i \notin D
      BY <1>1, <1>2, <2>5
    <3>2. i \in new \/ ~Waits(i) BY <1>3, <2>5 DEF Places
    <3>3. ~(Waits(i) /\ i \notin new) BY <3>2
    <3>4. PICK k \in SessionIds : k = i BY <3>1
    <3>5. ~Waits(k)' BY <1>3, <3>3, <3>4
    <3> QED BY <1>1, <1>3, <3>1, <3>4, <3>5
  <2>6. ASSUME NEW b \in Accounts, b # a, NEW i \in {sessions[b], offline[b]}, i # None
        PROVE  /\ i \in live' \ connecting' /\ account'[i] = b /\ ~Waits(i)'
    <3>1. i \in live \ connecting /\ i \in SessionIds /\ account[i] = b /\ ~Waits(i)
      BY <2>6, ListedIs DEF Places
    <3>2. i \notin D BY <1>1, <2>6, <3>1
    <3>3. PICK k \in SessionIds : k = i BY <3>1
    <3>4. ~Waits(k)' BY <1>3, <3>1, <3>3
    <3> QED BY <1>1, <1>3, <3>1, <3>2, <3>3, <3>4
  <2>7. ASSUME NEW b \in Accounts, sessions'[b] # None
        PROVE  /\ sessions'[b] \in live' \ connecting' /\ account'[sessions'[b]] = b
               /\ sessions'[b] # offline'[b] /\ ~Waits(sessions[b])'
    <3>1. CASE b = a BY <1>1, <1>3, <2>5, <2>7, <3>1 DEF Waits
    <3>2. CASE b # a
      <4>1. sessions'[b] = sessions[b] /\ offline'[b] = offline[b] BY <1>1, <3>2
      <4>2. sessions[b] # offline[b] BY <2>7, <4>1 DEF Places
      <4> QED BY <2>6, <2>7, <3>2, <4>1, <4>2 DEF Waits
    <3> QED BY <3>1, <3>2
  <2>8. ASSUME NEW b \in Accounts, offline'[b] # None
        PROVE  /\ offline'[b] \in live' \ connecting' /\ account'[offline'[b]] = b
               /\ ~Waits(offline[b])'
    <3>1. CASE b = a BY <1>1, <2>5, <2>8, <3>1 DEF Waits
    <3>2. CASE b # a
      <4>1. offline'[b] = offline[b] BY <1>1, <3>2
      <4> QED BY <2>6, <2>8, <3>2, <4>1 DEF Waits
    <3> QED BY <3>1, <3>2
  <2> QED BY <2>1, <2>2, <2>3, <2>4, <2>7, <2>8 DEF Places
<1>7. Kept'
  <2>1. SUFFICES ASSUME ~MayReject, NEW i \in live'
                 PROVE  i \in connecting' \/ Waits(i)' \/ IsListed(i)' \/ IsOffline(i)'
    BY DEF Kept
  <2>2. i \in live /\ i \in SessionIds /\ i \notin D BY <1>1, <1>4
  <2>3. i \in connecting \/ Waits(i) \/ IsListed(i) \/ IsOffline(i) BY <2>1, <2>2 DEF Kept
  <2>4. CASE i \in connecting BY <1>3, <2>4
  <2>5. CASE Waits(i) /\ i \notin new BY <1>3, <2>2, <2>5
  <2>6. CASE i \in new
    <3>1. i \in {s, o} /\ account[i] = a BY <1>1, <1>2, <2>2, <2>6
    <3> QED BY <1>5, <2>2, <3>1
  <2>7. CASE (IsListed(i) \/ IsOffline(i)) /\ account[i] = a
    <3>1. i \in {sessions[a], offline[a]} /\ i # None BY <1>4, <2>2, <2>7 DEF IsListed, IsOffline
    <3>2. i \in {s, o} BY <1>2, <2>2, <3>1
    <3> QED BY <1>5, <2>2, <2>7, <3>2
  <2>8. CASE (IsListed(i) \/ IsOffline(i)) /\ account[i] # a BY <1>5, <2>2, <2>8
  <2> QED BY <2>3, <2>4, <2>5, <2>6, <2>7, <2>8
<1> QED BY <1>5, <1>6, <1>7

\* They keep what they have.
LEMMA MoveFields ==
    ASSUME Typed, Places, Kept, Fields,
           NEW a \in Accounts, NEW new, NEW s, NEW o, NEW silent, Move(a, new, s, o, silent),
           \A j \in SessionIds : socket'[j] \in {socket[j], "none"},
           o # None => socket'[o] = "none",
           sessions[a] \notin {s, None} \cup Gone(a, new, s, o) => loading[sessions[a]] = None,
           inQueue' \subseteq inQueue \cup new,
           \A j \in inQueue' : account[j] = a => j = s
    PROVE  Fields'
<1> DEFINE D == Gone(a, new, s, o)
<1>1. /\ \A i \in {sessions[a], offline[a], s, o} \cup new :
            i # None => i \in live \ connecting /\ i \in SessionIds /\ account[i] = a
      /\ \A i \in new : i # None /\ ~IsListed(i) /\ ~IsOffline(i)
      /\ live' = live \ D
      /\ \A b \in Accounts : offline'[b] = IF b = a THEN o ELSE offline[b]
      /\ \A i \in SessionIds : /\ account'[i] = IF i \in D THEN None ELSE account[i]
                               /\ player'[i] = IF i \in D THEN None ELSE player[i]
                               /\ loading'[i] = IF i \in D THEN None ELSE loading[i]
  BY MoveFacts
<1>2. ready' = ready \ D /\ kicked' = kicked \ D BY DEF Move, Delete
<1>3. D = ({sessions[a], offline[a]} \cup new) \ {s, o, None} BY DEF Gone
<1>4. \A j \in SessionIds :
        /\ IsListed(j)' <=> (IF j \in live /\ account[j] = a THEN j = s ELSE IsListed(j))
        /\ IsOffline(j)' <=> (IF j \in live /\ account[j] = a THEN j = o ELSE IsOffline(j))
  BY MovePlaces
<1>5. sessions[a] \notin {s, None} \cup D => loading[sessions[a]] = None OBVIOUS
<1> HIDE DEF D
<1>6. ASSUME NEW j \in SessionIds, IsListed(j) \/ IsOffline(j), j \notin D
      PROVE  IsListed(j)' \/ IsOffline(j)'
  <2>1. CASE account[j] # a BY <1>4, <1>6, <2>1
  <2>2. CASE account[j] = a
    <3>1. j \in live /\ j \in {sessions[a], offline[a]} BY <1>6, <2>2 DEF IsListed, IsOffline
    <3>2. j # None BY ConstantAssumption
    <3>3. j \in {s, o} BY <1>3, <1>6, <3>1, <3>2
    <3> QED BY <1>4, <2>2, <3>1, <3>3
  <2> QED BY <2>1, <2>2
<1>7. ASSUME NEW j \in SessionIds, player'[j] # None
      PROVE  /\ IsListed(j)' \/ IsOffline(j)'
             /\ loading'[j] = None /\ OwnerOf[player'[j]] = account'[j]
  <2>1. /\ j \notin D /\ player'[j] = player[j] /\ loading'[j] = loading[j]
        /\ account'[j] = account[j]
    BY <1>1, <1>7
  <2>2. /\ IsListed(j) \/ IsOffline(j)
        /\ loading[j] = None /\ OwnerOf[player[j]] = account[j]
    BY <1>7, <2>1 DEF Fields
  <2> QED BY <1>6, <2>1, <2>2
<1>8. ASSUME NEW j \in SessionIds, loading'[j] # None
      PROVE  IsListed(j)' /\ OwnerOf[loading'[j]] = account'[j]
  <2>1. j \notin D /\ loading'[j] = loading[j] /\ account'[j] = account[j] BY <1>1, <1>8
  <2>2. IsListed(j) /\ OwnerOf[loading[j]] = account[j] BY <1>8, <2>1 DEF Fields
  <2>3. account[j] = a => j = s
    <3>1. SUFFICES ASSUME account[j] = a PROVE j = s OBVIOUS
    <3>2. j = sessions[a] /\ j # None BY <2>2, <3>1, ConstantAssumption DEF IsListed
    <3> QED BY <1>5, <1>8, <2>1, <3>2
  <2> QED BY <1>4, <2>1, <2>2, <2>3
<1>9. ASSUME NEW j \in SessionIds, j \in ready' PROVE loading'[j] # None
  BY <1>1, <1>2, <1>9 DEF Fields
<1>10. ASSUME NEW j \in SessionIds, j \in inQueue'
       PROVE  IsListed(j)' /\ player'[j] = None /\ loading'[j] = None
  <2>1. CASE j \in new
    <3>1. account[j] = a /\ j \in live BY <1>1, <2>1
    <3>2. player[j] = None /\ loading[j] = None BY <1>1, <2>1 DEF Fields
    <3> QED BY <1>1, <1>4, <1>10, <3>1, <3>2
  <2>2. CASE j \in inQueue
    <3>1. IsListed(j) /\ player[j] = None /\ loading[j] = None BY <2>2 DEF Fields
    <3> QED BY <1>1, <1>4, <1>10, <3>1
  <2> QED BY <1>10, <2>1, <2>2
<1>11. ASSUME NEW j \in SessionIds, j \in kicked'
       PROVE  (IsListed(j)' \/ IsOffline(j)') /\ socket'[j] # "open"
  <2>1. j \notin D /\ (IsListed(j) \/ IsOffline(j)) /\ socket[j] # "open" BY <1>2, <1>11 DEF Fields
  <2>2. socket'[j] # "open" BY <2>1
  <2> QED BY <1>6, <2>1, <2>2
<1>12. ASSUME NEW b \in Accounts, offline'[b] # None PROVE socket'[offline'[b]] = "none"
  <2>1. CASE b = a BY <1>1, <1>12, <2>1
  <2>2. CASE b # a
    <3>1. offline'[b] = offline[b] BY <1>1, <2>2
    <3>2. offline[b] \in SessionIds /\ socket[offline[b]] = "none"
      BY <1>12, <3>1, ListedIs DEF Fields
    <3> QED BY <3>1, <3>2
  <2> QED BY <2>1, <2>2
<1> QED BY <1>7, <1>8, <1>9, <1>10, <1>11, <1>12 DEF Fields

\* The flags in the databases go with the last session of the account.
LEMMA MoveOnline ==
    ASSUME Typed, Places, Fields, Online,
           NEW a \in Accounts, NEW new, NEW s, NEW o, NEW silent, Move(a, new, s, o, silent),
           silent \cap Gone(a, new, s, o) # {} => {s, o} # {None}
    PROVE  Online'
<1> DEFINE D == Gone(a, new, s, o)
<1>1. /\ \A i \in {s, o} : i # None => i \in live /\ i \in SessionIds /\ account[i] = a
      /\ \A i \in D : i \in live /\ i \in SessionIds /\ account[i] = a
      /\ live' = live \ D
      /\ \A i \in SessionIds : /\ account'[i] = IF i \in D THEN None ELSE account[i]
                               /\ player'[i] = IF i \in D THEN None ELSE player[i]
  BY MoveFacts
<1>2. /\ accountOnline' = accountOnline \ {account[i] : i \in D \ silent}
      /\ charOnline' = charOnline \ LogoutWrites(D)
  BY DEF Move, Delete
<1>3. D = ({sessions[a], offline[a]} \cup new) \ {s, o, None} BY DEF Gone
<1>4. silent \cap D # {} => {s, o} # {None} OBVIOUS
<1> HIDE DEF D
<1>5. ASSUME NEW c \in charOnline' PROVE \E i \in live' : player'[i] = c
  <2>1. PICK i \in live : player[i] = c BY <1>2 DEF Online
  <2>2. i \in SessionIds /\ c \in Chars /\ c # None BY <1>2, ConstantAssumption DEF Online, Typed
  <2>3. i \notin D
    <3>1. SUFFICES ASSUME i \in D PROVE FALSE OBVIOUS
    <3>2. OwnerOf[c] = account[i] BY <2>1, <2>2 DEF Fields
    <3>3. c \in LogoutWrites(D) BY <2>1, <2>2, <3>1, <3>2 DEF LogoutWrites, CharsOf
    <3> QED BY <1>2, <3>3
  <2> QED BY <1>1, <2>1, <2>2, <2>3
<1>6. ASSUME NEW b \in accountOnline' PROVE \E i \in live' : account'[i] = b
  <2>1. PICK i \in live : account[i] = b BY <1>2 DEF Online
  <2>2. i \in SessionIds BY DEF Typed
  <2>3. CASE i \notin D BY <1>1, <2>1, <2>2, <2>3
  <2>4. CASE i \in D
    <3>1. b = a /\ i \in silent BY <1>1, <1>2, <2>1, <2>4
    <3>2. PICK k \in {s, o} : k # None BY <1>4, <2>4, <3>1
    <3>3. k \in live' /\ account'[k] = a BY <1>1, <1>3, <3>2
    <3> QED BY <3>1, <3>3
  <2> QED BY <2>3, <2>4
<1>7. charOnline' \subseteq Chars BY <1>2 DEF Online
<1> QED BY <1>5, <1>6, <1>7 DEF Online

\* The other accounts are not concerned.
LEMMA MoveOthers ==
    ASSUME Typed, Places,
           NEW a \in Accounts, NEW new, NEW s, NEW o, NEW silent, Move(a, new, s, o, silent),
           NEW b \in Accounts, b # a, Ahead(b) => Ahead(b)'
    PROVE  /\ Pair(b) => Pair(b)'
           /\ /\ Comes(b)
              /\ phase = "add" => phase' = "add"
              /\ phase \in {"sessions", "packets", "tail"} /\ b \in visit =>
                   phase' \in {"sessions", "packets", "tail"} /\ b \in visit'
              /\ phase \in {"packets", "tail"} => cur # sessions[b]
              => Comes(b)'
<1> DEFINE D == Gone(a, new, s, o)
<1>1. /\ \A i \in D : account[i] = a
      /\ sessions'[b] = sessions[b] /\ offline'[b] = offline[b]
      /\ \A i \in SessionIds : /\ player'[i] = IF i \in D THEN None ELSE player[i]
                               /\ loading'[i] = IF i \in D THEN None ELSE loading[i]
  BY MoveFacts
<1>2. kicked' = kicked \ D BY DEF Move, Delete
<1> HIDE DEF D
<1>3. sessions[b] # None => sessions[b] \in SessionIds /\ sessions[b] \notin D BY <1>1, ListedIs
<1>4. offline[b] # None => offline[b] \in SessionIds /\ offline[b] \notin D BY <1>1, ListedIs
<1>5. sessions[b] # None => /\ player'[sessions[b]] = player[sessions[b]]
                            /\ loading'[sessions[b]] = loading[sessions[b]]
  BY <1>1, <1>3
<1>6. offline[b] # None => player'[offline[b]] = player[offline[b]] BY <1>1, <1>4
<1>7. /\ offline[b] # None => (offline[b] \in kicked' <=> offline[b] \in kicked)
      /\ sessions[b] # None => (sessions[b] \in kicked' <=> sessions[b] \in kicked)
  BY <1>2, <1>3, <1>4
<1>8. Pair(b) => Pair(b)' BY <1>1, <1>5, <1>6, <1>7 DEF Pair
<1>9. ASSUME Comes(b), phase = "add" => phase' = "add",
             phase \in {"sessions", "packets", "tail"} /\ b \in visit =>
               phase' \in {"sessions", "packets", "tail"} /\ b \in visit',
             phase \in {"packets", "tail"} => cur # sessions[b]
      PROVE  Comes(b)'
  BY <1>1, <1>7, <1>9 DEF Comes
<1> QED BY <1>8, <1>9

\* What the world thread does besides: it does not forget another account.
Calm(a) ==
    /\ UNCHANGED <<stopped, kickedAll>>
    /\ phase' \in Phases \ {"rest", "end"}
    /\ visit' \subseteq Accounts
    /\ \A b \in Accounts \ {a} :
          /\ Ahead(b) => Ahead(b)'
          /\ phase = "add" => phase' = "add"
          /\ phase \in {"sessions", "packets", "tail"} /\ b \in visit =>
               phase' \in {"sessions", "packets", "tail"} /\ b \in visit'
          /\ phase \in {"packets", "tail"} => cur # sessions[b]

\* What becomes of the connections and the flags.
Tidy(a, new, s, o, silent) ==
    /\ socket' \in [SessionIds -> {"open", "closed", "none"}]
    /\ \A j \in SessionIds : socket'[j] \in {socket[j], "none"}
    /\ o # None => socket'[o] = "none"
    /\ sessions[a] \notin {s, None} \cup Gone(a, new, s, o) => loading[sessions[a]] = None
    /\ silent \cap Gone(a, new, s, o) # {} => {s, o} # {None}
    /\ inQueue' \subseteq inQueue \cup new
    /\ \A j \in inQueue' : account[j] = a => j = s

\* So such a step keeps the invariant, if it does for the account it is about
\* and for the queue.
LEMMA MoveInv ==
    ASSUME IInv, NEW a \in Accounts, NEW new, NEW s, NEW o, NEW silent,
           Move(a, new, s, o, silent), Calm(a), Tidy(a, new, s, o, silent),
           Cursor', Pair(a)', kickedAll => Comes(a)', Line', queued' \in Seq(SessionIds)
    PROVE  IInv'
<1>1. Typed /\ Places /\ Kept /\ Fields /\ Pairs /\ Online /\ Ending BY DEF IInv
<1> DEFINE D == Gone(a, new, s, o)
<1>0. UNCHANGED <<stopped, kickedAll>> /\ phase' \in Phases \ {"rest", "end"} /\ visit' \subseteq Accounts
  BY DEF Calm
<1>2. Typed'
  <2>1. /\ new \subseteq SessionIds /\ connecting' = connecting
        /\ {s, o} \subseteq {sessions[a], offline[a], None} \cup new
        /\ addSessQueue' \in Seq(SessionIds) /\ Delete(D, silent)
        /\ sessions' = [sessions EXCEPT ![a] = s] /\ offline' = [offline EXCEPT ![a] = o]
    BY DEF Move
  <2> HIDE DEF D
  <2>2. /\ live' = live \ D /\ ready' = ready \ D /\ kicked' = kicked \ D
        /\ account' = [i \in SessionIds |-> IF i \in D THEN None ELSE account[i]]
        /\ player' = [i \in SessionIds |-> IF i \in D THEN None ELSE player[i]]
        /\ loading' = [i \in SessionIds |-> IF i \in D THEN None ELSE loading[i]]
    BY <2>1 DEF Delete
  <2>3. live' \subseteq SessionIds /\ ready' \subseteq SessionIds /\ kicked' \subseteq SessionIds
    BY <1>1, <2>2 DEF Typed
  <2>4. /\ account' \in [SessionIds -> Accounts \cup {None}]
        /\ player' \in [SessionIds -> Chars \cup {None}]
        /\ loading' \in [SessionIds -> Chars \cup {None}]
    BY <1>1, <2>2 DEF Typed
  <2>5. s \in SessionIds \cup {None} /\ o \in SessionIds \cup {None} BY <1>1, <2>1 DEF Typed
  <2>6. /\ sessions' \in [Accounts -> SessionIds \cup {None}]
        /\ offline' \in [Accounts -> SessionIds \cup {None}]
    BY <1>1, <2>1, <2>5 DEF Typed
  <2>7. inQueue' \subseteq SessionIds /\ connecting' \subseteq SessionIds BY <1>1, <2>1 DEF Typed, Tidy
  <2>8. socket' \in [SessionIds -> {"open", "closed", "none"}] BY DEF Tidy
  <2> QED BY <1>0, <2>1, <2>3, <2>4, <2>6, <2>7, <2>8 DEF Typed
<1>3. Places' /\ Kept' BY <1>1, MovePlaces
<1>4. Fields' BY <1>1, MoveFields DEF Tidy
<1>5. Online' BY <1>1, MoveOnline DEF Tidy
<1>6. Pairs'
  <2>1. ASSUME NEW b \in Accounts PROVE Pair(b)'
    <3>1. CASE b = a BY <3>1
    <3>2. CASE b # a BY <1>1, <3>2, MoveOthers DEF Pairs, Calm
    <3> QED BY <3>1, <3>2
  <2> QED BY <2>1 DEF Pairs
<1>7. Ending'
  <2>1. ASSUME kickedAll, NEW b \in Accounts PROVE Comes(b)'
    <3>1. CASE b = a BY <2>1, <3>1
    <3>2. CASE b # a
      <4>1. Comes(b) BY <1>1, <2>1 DEF Ending
      <4> QED BY <1>1, <3>2, <4>1, MoveOthers DEF Calm
    <3> QED BY <3>1, <3>2
  <2> QED BY <1>0, <1>1, <2>1 DEF Ending
<1> QED BY <1>2, <1>3, <1>4, <1>5, <1>6, <1>7 DEF IInv

\* The queue after a session has left it, and after one has joined it.
LEMMA LineLeft ==
    ASSUME Typed, Line, NEW i \in SessionIds, queued' = QueueAfter(i), kickedAll' = kickedAll,
           inQueue' = inQueue \ ({i} \cup Accepted(i))
    PROVE  Line' /\ queued' \in Seq(SessionIds)
<1>1. /\ QueueAfter(i) \in Seq(SessionIds) /\ Once(QueueAfter(i))
      /\ \A j : IsIn(j, QueueAfter(i)) <=> IsIn(j, queued) /\ j # i /\ j \notin Accepted(i)
  BY PlacesAre, LeavesLine
<1>2. \A n \in DOMAIN queued' : queued'[n] \in inQueue'
  <2>1. \A j : IsIn(j, queued) => j \in inQueue BY DEF Line, IsIn
  <2>2. \A j : IsIn(j, queued') => j \in inQueue' BY <1>1, <2>1
  <2> QED BY <2>2 DEF IsIn
<1>3. ~kickedAll => \A j \in inQueue' : \E n \in DOMAIN queued' : queued'[n] = j
  BY <1>1 DEF Line, IsIn
<1> QED BY <1>1, <1>2, <1>3 DEF Line, Once

LEMMA LineJoined ==
    ASSUME NEW q \in Seq(SessionIds), NEW Q, NEW i \in SessionIds, i \notin Q, Once(q),
           \A j : IsIn(j, q) => j \in Q,
           ~kickedAll => \A j \in Q : IsIn(j, q),
           queued' = Append(q, i), inQueue' = Q \cup {i}, kickedAll' = kickedAll
    PROVE  Line' /\ queued' \in Seq(SessionIds)
<1>1. /\ queued' \in Seq(SessionIds) /\ Once(queued')
      /\ \A j : IsIn(j, queued') <=> IsIn(j, q) \/ j = i
  BY Pushed
<1>2. \A n \in DOMAIN queued' : queued'[n] \in inQueue'
  <2>1. \A j : IsIn(j, queued') => j \in inQueue' BY <1>1
  <2> QED BY <2>1 DEF IsIn
<1>3. ~kickedAll => \A j \in inQueue' : \E n \in DOMAIN queued' : queued'[n] = j
  <2>1. ~kickedAll => \A j \in inQueue' : IsIn(j, queued') BY <1>1
  <2> QED BY <2>1 DEF IsIn
<1> QED BY <1>1, <1>2, <1>3 DEF Line, Once

\* The sockets after a session has lost its.
LEMMA SocketGone ==
    ASSUME Typed, NEW i \in SessionIds, socket' = SocketsWithout({i})
    PROVE  /\ socket' \in [SessionIds -> {"open", "closed", "none"}]
           /\ \A j \in SessionIds : socket'[j] = IF j = i THEN "none" ELSE socket[j]
<1>1. socket' = [j \in SessionIds |-> IF j \in {i} THEN "none" ELSE socket[j]] BY DEF SocketsWithout
<1>2. \A j \in SessionIds : socket'[j] = IF j = i THEN "none" ELSE socket[j] BY <1>1
<1>3. socket' \in [SessionIds -> {"open", "closed", "none"}] BY <1>1 DEF Typed
<1> QED BY <1>2, <1>3

\* The connection of a player in the world is lost.
LEMMA SocketClosedInv == ASSUME IInv, NEW a \in Accounts, SocketClosed(a) PROVE IInv'
<1>1. Typed /\ Places /\ Kept /\ Fields /\ Cursor /\ Pairs /\ Online /\ Line /\ Ending BY DEF IInv
<1>2. PICK i : i = sessions[a] OBVIOUS
<1>3. PICK prev : prev = {offline[a]} \ {None} OBVIOUS
<1>4. /\ phase = "sessions" /\ a \in visit /\ StaysInWorld(i) /\ RemoveQueuedPlayer(i)
      /\ Delete(prev, prev) /\ socket' = SocketsWithout({i})
      /\ sessions' = [sessions EXCEPT ![a] = None] /\ offline' = [offline EXCEPT ![a] = i]
      /\ visit' = visit \ {a}
      /\ UNCHANGED <<connecting, addSessQueue, phase, cur, stopped, kickedAll>>
  BY <1>2, <1>3 DEF SocketClosed, netVars, stopVars
<1>5. i # None BY <1>1, <1>2, <1>4 DEF Cursor
<1>6. i \in SessionIds /\ account[i] = a /\ ~IsOffline(i) /\ i # offline[a]
  BY <1>1, <1>2, <1>5, ListedIs DEF Places
<1>7. player[i] # None /\ loading[i] = None /\ ~stopped BY <1>1, <1>4, <1>6 DEF StaysInWorld, Fields
<1>8. PICK n : n = None OBVIOUS
<1>9. PICK new : new = {} OBVIOUS
<1>10. Gone(a, new, n, i) = prev BY <1>2, <1>3, <1>6, <1>8, <1>9 DEF Gone
<1>11. Move(a, new, n, i, prev)
  <2>1. \A j : Waits(j)' <=> Waits(j) BY <1>4 DEF Waits
  <2>2. Once(addSessQueue) /\ addSessQueue \in Seq(SessionIds) BY <1>1, PlacesAre DEF Typed
  <2> QED BY <1>2, <1>4, <1>8, <1>9, <1>10, <2>1, <2>2 DEF Move
<1>12. queued' = QueueAfter(i) /\ inQueue' = inQueue \ ({i} \cup Accepted(i))
  BY <1>4 DEF RemoveQueuedPlayer
<1>13. Line' /\ queued' \in Seq(SessionIds) BY <1>1, <1>4, <1>6, <1>12, LineLeft
<1>14. \A j \in inQueue' : j \in inQueue /\ account[j] # a
  BY <1>1, <1>2, <1>12 DEF Fields, Typed, IsListed
<1>15. /\ socket' \in [SessionIds -> {"open", "closed", "none"}]
       /\ \A j \in SessionIds : socket'[j] = IF j = i THEN "none" ELSE socket[j]
  BY <1>1, <1>4, <1>6, SocketGone
<1>16. sessions'[a] = None /\ offline'[a] = i /\ player'[i] = player[i]
  <2>1. i \notin prev BY <1>3, <1>6
  <2> QED BY <1>1, <1>4, <1>6, <2>1 DEF Typed, Delete
<1>17. Pair(a)' BY <1>7, <1>16 DEF Pair
<1>18. ~kickedAll BY <1>1, <1>7 DEF Ending
<1>19. Cursor'
  <2>1. \A b \in visit' : sessions'[b] # None BY <1>1, <1>4 DEF Cursor, Typed
  <2> QED BY <1>4, <2>1 DEF Cursor
<1>20. Calm(a) BY <1>1, <1>4 DEF Calm, Ahead, Typed, Phases
<1>21. \A j \in SessionIds : socket'[j] \in {socket[j], "none"} BY <1>15
<1>22. i # None => socket'[i] = "none" BY <1>6, <1>15
<1>23. /\ sessions[a] \notin {n, None} \cup Gone(a, new, n, i) => loading[sessions[a]] = None
       /\ prev \cap Gone(a, new, n, i) # {} => {n, i} # {None}
  BY <1>2, <1>5, <1>7
<1>24. inQueue' \subseteq inQueue \cup new /\ \A j \in inQueue' : account[j] = a => j = n
  BY <1>14
<1>25. Tidy(a, new, n, i, prev) BY <1>15, <1>21, <1>22, <1>23, <1>24 DEF Tidy
<1> QED BY <1>11, <1>13, <1>17, <1>18, <1>19, <1>20, <1>25, MoveInv

\* A session without a connection is removed.
LEMMA RemoveSessionInv == ASSUME IInv, RemoveSession PROVE IInv'
<1>1. Typed /\ Places /\ Kept /\ Fields /\ Cursor /\ Pairs /\ Online /\ Line /\ Ending BY DEF IInv
<1>2. PICK a \in Accounts : a = account[cur] BY <1>1, CurrentIs DEF RemoveSession
<1>3. PICK i : i = cur OBVIOUS
<1>4. PICK o : o = offline[a] OBVIOUS
<1>5. PICK silent : silent = IF o # None THEN {i} ELSE {} OBVIOUS
<1>6. /\ phase = "tail" /\ phase' = "sessions" /\ visit' = visit /\ RemoveQueuedPlayer(i)
      /\ Delete({i}, silent) /\ socket' = SocketsWithout({i})
      /\ sessions' = [sessions EXCEPT ![a] = None]
      /\ UNCHANGED <<connecting, addSessQueue, offline, stopped, kickedAll>>
  BY <1>2, <1>3, <1>4, <1>5 DEF RemoveSession, netVars, stopVars
<1>7. /\ i \in SessionIds /\ a \in Accounts /\ i # None /\ sessions[a] = i /\ a \notin visit
      /\ account[i] = a /\ \A b \in Accounts : (sessions[b] = i <=> b = a) /\ offline[b] # i
  BY <1>1, <1>2, <1>3, <1>6, CurrentIs
<1>8. PICK n : n = None OBVIOUS
<1>9. PICK new : new = {} OBVIOUS
<1>10. Gone(a, new, n, o) = {i} BY <1>4, <1>7, <1>8, <1>9 DEF Gone
<1>11. Move(a, new, n, o, silent)
  <2>1. \A j : Waits(j)' <=> Waits(j) BY <1>6 DEF Waits
  <2>2. Once(addSessQueue) /\ addSessQueue \in Seq(SessionIds) BY <1>1, PlacesAre DEF Typed
  <2>3. offline' = [offline EXCEPT ![a] = o] BY <1>1, <1>4, <1>6, <1>7 DEF Typed
  <2> QED BY <1>4, <1>6, <1>8, <1>9, <1>10, <2>1, <2>2, <2>3 DEF Move
<1>12. queued' = QueueAfter(i) /\ inQueue' = inQueue \ ({i} \cup Accepted(i))
  BY <1>6 DEF RemoveQueuedPlayer
<1>13. Line' /\ queued' \in Seq(SessionIds) BY <1>1, <1>6, <1>7, <1>12, LineLeft
<1>14. \A j \in inQueue' : j \in inQueue /\ account[j] # a
  BY <1>1, <1>7, <1>12 DEF Fields, Typed, IsListed
<1>15. /\ socket' \in [SessionIds -> {"open", "closed", "none"}]
       /\ \A j \in SessionIds : socket'[j] = IF j = i THEN "none" ELSE socket[j]
  BY <1>1, <1>6, <1>7, SocketGone
<1>16. sessions'[a] = None /\ offline'[a] = o /\ kicked' = kicked \ {i} /\ o # i
  BY <1>1, <1>4, <1>6, <1>7 DEF Typed, Delete
<1>17. Pair(a)'
  <2>1. Ahead(a)' BY <1>6 DEF Ahead
  <2> QED BY <1>16, <2>1 DEF Pair
<1>18. kickedAll => Comes(a)'
  <2>1. SUFFICES ASSUME kickedAll PROVE Comes(a)' OBVIOUS
  <2>2. o # None => o \in kicked BY <1>1, <1>4, <1>7, <2>1 DEF Ending, Comes
  <2>3. Ahead(a)' BY <1>6 DEF Ahead
  <2> QED BY <1>16, <2>2, <2>3 DEF Comes
<1>19. Cursor'
  <2>1. \A b \in visit' : sessions'[b] # None BY <1>1, <1>6, <1>7 DEF Cursor, Typed
  <2> QED BY <1>6, <2>1 DEF Cursor
<1>20. Calm(a) BY <1>1, <1>3, <1>6, <1>7 DEF Calm, Ahead, Typed, Phases
<1>21. \A j \in SessionIds : socket'[j] \in {socket[j], "none"} BY <1>15
<1>22. o # None => socket'[o] = "none" BY <1>1, <1>4, <1>7, <1>15, ListedIs DEF Fields
<1>23. /\ sessions[a] \notin {n, None} \cup Gone(a, new, n, o) => loading[sessions[a]] = None
       /\ silent \cap Gone(a, new, n, o) # {} => {n, o} # {None}
  BY <1>5, <1>7, <1>10
<1>24. inQueue' \subseteq inQueue \cup new /\ \A j \in inQueue' : account[j] = a => j = n
  BY <1>14
<1>25. Tidy(a, new, n, o, silent) BY <1>15, <1>21, <1>22, <1>23, <1>24 DEF Tidy
<1> QED BY <1>11, <1>13, <1>17, <1>18, <1>19, <1>20, <1>25, MoveInv

\* An offline session is removed.
LEMMA RemoveOfflineInv ==
    ASSUME IInv, NEW a \in Accounts, NEW expired \in BOOLEAN, RemoveOffline(a, expired) PROVE IInv'
<1>1. Typed /\ Places /\ Kept /\ Fields /\ Cursor /\ Pairs /\ Online /\ Line /\ Ending BY DEF IInv
<1>2. PICK i : i = offline[a] OBVIOUS
<1>3. PICK s : s = sessions[a] OBVIOUS
<1>4. PICK silent : silent = IF s # None THEN {i} ELSE {} OBVIOUS
<1>5. /\ phase = "offline" /\ a \in visit /\ visit' = visit \ {a} /\ Delete({i}, silent)
      /\ offline' = [offline EXCEPT ![a] = None]
      /\ UNCHANGED <<connecting, addSessQueue, sessions, socket, inQueue, queued>>
      /\ UNCHANGED <<phase, cur, stopped, kickedAll>>
  BY <1>2, <1>3, <1>4 DEF RemoveOffline, netVars, stopVars, queueVars
<1>6. i # None BY <1>1, <1>2, <1>5 DEF Cursor
<1>7. i \in SessionIds /\ s # i BY <1>1, <1>2, <1>3, <1>6, ListedIs DEF Places
<1>8. PICK n : n = None OBVIOUS
<1>9. PICK new : new = {} OBVIOUS
<1>10. Gone(a, new, s, n) = {i} BY <1>2, <1>3, <1>6, <1>7, <1>8, <1>9 DEF Gone
<1>11. Move(a, new, s, n, silent)
  <2>1. \A j : Waits(j)' <=> Waits(j) BY <1>5 DEF Waits
  <2>2. Once(addSessQueue) /\ addSessQueue \in Seq(SessionIds) BY <1>1, PlacesAre DEF Typed
  <2>3. sessions' = [sessions EXCEPT ![a] = s] BY <1>1, <1>3, <1>5 DEF Typed
  <2> QED BY <1>3, <1>5, <1>8, <1>9, <1>10, <2>1, <2>2, <2>3 DEF Move
<1>12. Line' /\ queued' \in Seq(SessionIds) BY <1>1, <1>5, SameLine DEF Typed
<1>13. \A j \in inQueue' : account[j] = a => j = s
  BY <1>1, <1>3, <1>5 DEF Fields, Typed, IsListed
<1>14. /\ sessions'[a] = s /\ offline'[a] = None /\ kicked' = kicked \ {i}
  BY <1>1, <1>3, <1>5 DEF Typed, Delete
<1>15. Pair(a)' BY <1>14 DEF Pair
<1>16. kickedAll => Comes(a)'
  <2>1. SUFFICES ASSUME kickedAll PROVE Comes(a)' OBVIOUS
  <2>2. s # None => s \notin kicked BY <1>1, <1>3, <1>5, <2>1 DEF Ending, Comes
  <2> QED BY <1>14, <2>2 DEF Comes
<1>17. Cursor'
  <2>1. \A b \in visit' : offline'[b] # None BY <1>1, <1>5 DEF Cursor, Typed
  <2> QED BY <1>5, <2>1 DEF Cursor
<1>18. Calm(a) BY <1>1, <1>5 DEF Calm, Ahead, Typed, Phases
<1>19. /\ socket' \in [SessionIds -> {"open", "closed", "none"}]
       /\ \A j \in SessionIds : socket'[j] \in {socket[j], "none"}
       /\ n # None => socket'[n] = "none"
  BY <1>1, <1>5, <1>8 DEF Typed
<1>20. /\ sessions[a] \notin {s, None} \cup Gone(a, new, s, n) => loading[sessions[a]] = None
       /\ silent \cap Gone(a, new, s, n) # {} => {s, n} # {None}
  BY <1>3, <1>4, <1>10
<1>21. inQueue' \subseteq inQueue \cup new BY <1>5
<1>22. Tidy(a, new, s, n, silent) BY <1>13, <1>19, <1>20, <1>21 DEF Tidy
<1> QED BY <1>11, <1>12, <1>15, <1>16, <1>17, <1>18, <1>22, MoveInv

\* The first of addSessQueue is in no other hands, and has nothing yet.
LEMMA FirstNew ==
    ASSUME IInv, addSessQueue # <<>>, addSessQueue' = Tail(addSessQueue),
           NEW i, i = Head(addSessQueue)
    PROVE  /\ i \in SessionIds /\ i # None /\ account[i] \in Accounts /\ Waits(i)
           /\ i \notin inQueue /\ i \notin kicked /\ player[i] = None /\ loading[i] = None
           /\ \A b \in Accounts : sessions[b] # i /\ offline[b] # i
           /\ addSessQueue' \in Seq(SessionIds) /\ Once(addSessQueue')
           /\ \A j \in SessionIds : Waits(j)' <=> Waits(j) /\ j # i
<1>1. Typed /\ Places /\ Fields BY DEF IInv
<1>2. addSessQueue \in Seq(SessionIds) /\ Once(addSessQueue) BY <1>1, PlacesAre DEF Typed
<1>3. /\ Tail(addSessQueue) \in Seq(SessionIds) /\ Once(Tail(addSessQueue))
      /\ Head(addSessQueue) \in SessionIds /\ IsIn(Head(addSessQueue), addSessQueue)
      /\ \A j : IsIn(j, Tail(addSessQueue)) <=> IsIn(j, addSessQueue) /\ j # Head(addSessQueue)
  BY <1>2, Popped
<1>4. Waits(i) /\ i \in SessionIds BY <1>3, PlacesAre
<1>5. i # None BY <1>4, ConstantAssumption
<1>6. i \in live BY <1>1, <1>4 DEF Places, Waits
<1>7. account[i] \in Accounts BY <1>1, <1>6, AccountIs
<1>8. \A b \in Accounts : sessions[b] # i /\ offline[b] # i BY <1>1, <1>4, <1>5 DEF Places
<1>9. ~IsListed(i) /\ ~IsOffline(i) BY <1>7, <1>8 DEF IsListed, IsOffline
<1>10. i \notin inQueue /\ i \notin kicked /\ player[i] = None /\ loading[i] = None
  BY <1>1, <1>4, <1>9 DEF Fields
<1>11. \A j \in SessionIds : Waits(j)' <=> Waits(j) /\ j # i
  <2>1. \A j : Waits(j)' <=> IsIn(j, addSessQueue') BY DEF Waits, IsIn
  <2>2. \A j : Waits(j) <=> IsIn(j, addSessQueue) BY DEF Waits, IsIn
  <2> QED BY <1>3, <2>1, <2>2
<1> QED BY <1>3, <1>4, <1>5, <1>7, <1>8, <1>10, <1>11

\* AddSession_ drops the new session: the other one is loading a character.
LEMMA RefusedInv ==
    ASSUME IInv, phase = "add", addSessQueue # <<>>, addSessQueue' = Tail(addSessQueue),
           UNCHANGED <<connecting, phase, visit, cur, stopped, kickedAll>>,
           NEW i, i = Head(addSessQueue), NEW a, a = account[i], AddSessionRefused(i, a)
    PROVE  IInv'
<1>1. Typed /\ Places /\ Kept /\ Fields /\ Cursor /\ Pairs /\ Online /\ Line /\ Ending BY DEF IInv
<1>2. /\ i \in SessionIds /\ i # None /\ account[i] \in Accounts /\ Waits(i)
      /\ \A b \in Accounts : sessions[b] # i /\ offline[b] # i
      /\ addSessQueue' \in Seq(SessionIds) /\ Once(addSessQueue')
      /\ \A j \in SessionIds : Waits(j)' <=> Waits(j) /\ j # i
  BY FirstNew
<1>3. /\ sessions[a] # None /\ loading[sessions[a]] # None
      /\ Delete({i}, {}) /\ socket' = SocketsWithout({i})
      /\ UNCHANGED <<sessions, offline, inQueue, queued>>
  BY DEF AddSessionRefused, queueVars, listVars
<1>4. PICK s : s = sessions[a] OBVIOUS
<1>5. PICK o : o = offline[a] OBVIOUS
<1>6. PICK new : new = {i} OBVIOUS
<1>7. PICK silent : silent = {} OBVIOUS
<1>8. Gone(a, new, s, o) = {i} BY <1>2, <1>4, <1>5, <1>6 DEF Gone
<1>9. a \in Accounts /\ Move(a, new, s, o, silent)
  <2>1. sessions' = [sessions EXCEPT ![a] = s] BY <1>1, <1>2, <1>3, <1>4 DEF Typed
  <2>2. offline' = [offline EXCEPT ![a] = o] BY <1>1, <1>2, <1>3, <1>5 DEF Typed
  <2>3. s # None => s # o BY <1>1, <1>2, <1>4, <1>5 DEF Places
  <2> QED BY <1>2, <1>3, <1>4, <1>5, <1>6, <1>7, <1>8, <2>1, <2>2, <2>3 DEF Move
<1>10. PICK b \in Accounts : b = a BY <1>2
<1>11. s \in SessionIds /\ (o # None => o \in SessionIds) /\ s # i /\ o # i
  BY <1>1, <1>2, <1>3, <1>4, <1>5, ListedIs
<1>12. /\ player'[s] = player[s] /\ loading'[s] = loading[s]
       /\ o # None => player'[o] = player[o] /\ socket[o] = "none"
       /\ kicked' = kicked \ {i}
  BY <1>1, <1>2, <1>3, <1>5, <1>11 DEF Delete, Fields
<1>13. /\ socket' \in [SessionIds -> {"open", "closed", "none"}]
       /\ \A j \in SessionIds : socket'[j] = IF j = i THEN "none" ELSE socket[j]
  BY <1>1, <1>2, <1>3, SocketGone
<1>14. ~Ahead(a) /\ ~Ahead(b)' BY DEF Ahead
<1>15. Pair(b)'
  <2>1. Pair(a) BY <1>1, <1>2 DEF Pairs
  <2>2. sessions'[b] = s /\ offline'[b] = o BY <1>3, <1>4, <1>5, <1>10
  <2> QED BY <1>3, <1>4, <1>5, <1>12, <1>14, <2>1, <2>2 DEF Pair
<1>16. kickedAll => Comes(b)'
  <2>1. SUFFICES ASSUME kickedAll PROVE Comes(b)' OBVIOUS
  <2>2. o # None => o \in kicked' BY <1>1, <1>2, <1>5, <1>11, <1>12, <2>1 DEF Ending, Comes
  <2>3. offline'[b] = o BY <1>3, <1>5, <1>10
  <2> QED BY <2>2, <2>3 DEF Comes
<1>17. Cursor' BY DEF Cursor
<1>18. Line' /\ queued' \in Seq(SessionIds) BY <1>1, <1>3, SameLine DEF Typed
<1>19. Calm(b) BY <1>1 DEF Calm, Ahead, Typed, Phases
<1>20. /\ socket' \in [SessionIds -> {"open", "closed", "none"}]
       /\ \A j \in SessionIds : socket'[j] \in {socket[j], "none"}
       /\ o # None => socket'[o] = "none"
  BY <1>11, <1>12, <1>13
<1>21. /\ sessions[b] \notin {s, None} \cup Gone(b, new, s, o) => loading[sessions[b]] = None
       /\ silent \cap Gone(b, new, s, o) # {} => {s, o} # {None}
  BY <1>4, <1>7, <1>10
<1>22. inQueue' \subseteq inQueue \cup new /\ \A j \in inQueue' : account[j] = b => j = s
  BY <1>1, <1>3, <1>4, <1>10 DEF Fields, Typed, IsListed
<1>23. Move(b, new, s, o, silent) BY <1>9, <1>10
<1>24. Tidy(b, new, s, o, silent) BY <1>20, <1>21, <1>22 DEF Tidy
<1> QED BY <1>15, <1>16, <1>17, <1>18, <1>19, <1>23, <1>24, MoveInv

\* AddSession_ lists the new session of an account that had none.
LEMMA FreshInv ==
    ASSUME IInv, phase = "add", addSessQueue # <<>>, addSessQueue' = Tail(addSessQueue),
           UNCHANGED <<connecting, phase, visit, cur, stopped, kickedAll>>,
           NEW i, i = Head(addSessQueue), NEW a, a = account[i], AddSessionFresh(i, a)
    PROVE  IInv'
<1>1. Typed /\ Places /\ Kept /\ Fields /\ Cursor /\ Pairs /\ Online /\ Line /\ Ending BY DEF IInv
<1>2. /\ i \in SessionIds /\ i # None /\ account[i] \in Accounts /\ Waits(i)
      /\ i \notin inQueue /\ i \notin kicked /\ player[i] = None /\ loading[i] = None
      /\ \A b \in Accounts : sessions[b] # i /\ offline[b] # i
      /\ addSessQueue' \in Seq(SessionIds) /\ Once(addSessQueue')
      /\ \A j \in SessionIds : Waits(j)' <=> Waits(j) /\ j # i
  BY FirstNew
<1>3. /\ sessions[a] = None /\ sessions' = [sessions EXCEPT ![a] = i]
      /\ queued' = IF MustWait(a, disconnects) THEN Append(queued, i) ELSE queued
      /\ inQueue' = IF MustWait(a, disconnects) THEN inQueue \cup {i} ELSE inQueue
      /\ UNCHANGED <<live, account, socket, player, loading, ready, kicked, leaving, away, offline>>
      /\ UNCHANGED <<accountOnline, charOnline>>
  BY DEF AddSessionFresh, objVars, dbVars
<1>4. PICK o : o = offline[a] OBVIOUS
<1>5. PICK new : new = {i} OBVIOUS
<1>6. PICK silent : silent = {} OBVIOUS
<1>7. Gone(a, new, i, o) = {} BY <1>2, <1>3, <1>4, <1>5 DEF Gone
<1>8. Delete({}, {})
  <2>1. account' = [j \in SessionIds |-> IF j \in {} THEN None ELSE account[j]] BY <1>1, <1>3 DEF Typed
  <2>2. player' = [j \in SessionIds |-> IF j \in {} THEN None ELSE player[j]] BY <1>1, <1>3 DEF Typed
  <2>3. loading' = [j \in SessionIds |-> IF j \in {} THEN None ELSE loading[j]] BY <1>1, <1>3 DEF Typed
  <2>4. LogoutWrites({}) = {} BY DEF LogoutWrites
  <2>5. {account[j] : j \in {} \ {}} = {} OBVIOUS
  <2> QED BY <1>3, <2>1, <2>2, <2>3, <2>4, <2>5 DEF Delete
<1>9. PICK b \in Accounts : b = a BY <1>2
<1>10. Move(b, new, i, o, silent)
  <2>1. offline' = [offline EXCEPT ![a] = o] BY <1>1, <1>2, <1>3, <1>4 DEF Typed
  <2>2. i # o BY <1>2, <1>4
  <2> QED BY <1>2, <1>3, <1>4, <1>5, <1>6, <1>7, <1>8, <1>9, <2>1, <2>2 DEF Move
<1>11. o # None => socket[o] = "none" BY <1>1, <1>2, <1>4 DEF Fields
<1>12. sessions'[b] = i /\ offline'[b] = o BY <1>1, <1>2, <1>3, <1>4, <1>9 DEF Typed
<1>13. Pair(b)'
  <2>1. ~Ahead(a) BY DEF Ahead
  <2>2. o # None => player[o] # None BY <1>1, <1>2, <1>4, <2>1 DEF Pairs, Pair
  <2> QED BY <1>2, <1>3, <1>12, <2>2 DEF Pair
<1>14. kickedAll => Comes(b)'
  <2>1. SUFFICES ASSUME kickedAll PROVE Comes(b)' OBVIOUS
  <2>2. o # None => o \in kicked' BY <1>1, <1>2, <1>3, <1>4, <2>1 DEF Ending, Comes
  <2> QED BY <1>12, <2>2 DEF Comes
<1>15. Cursor' BY DEF Cursor
<1>16. Line' /\ queued' \in Seq(SessionIds)
  <2>1. CASE MustWait(a, disconnects)
    <3>1. queued \in Seq(SessionIds) /\ Once(queued) BY <1>1, PlacesAre DEF Typed
    <3>2. /\ \A j : IsIn(j, queued) => j \in inQueue
          /\ ~kickedAll => \A j \in inQueue : IsIn(j, queued)
      BY <1>1 DEF Line, IsIn
    <3>3. queued' = Append(queued, i) /\ inQueue' = inQueue \cup {i} BY <1>3, <2>1
    <3> QED BY <1>2, <3>1, <3>2, <3>3, LineJoined
  <2>2. CASE ~MustWait(a, disconnects) BY <1>1, <1>3, <2>2, SameLine DEF Typed
  <2> QED BY <2>1, <2>2
<1>17. Calm(b) BY <1>1 DEF Calm, Ahead, Typed, Phases
<1>18. /\ socket' \in [SessionIds -> {"open", "closed", "none"}]
       /\ \A j \in SessionIds : socket'[j] \in {socket[j], "none"}
       /\ o # None => socket'[o] = "none"
  BY <1>1, <1>3, <1>11 DEF Typed
<1>19. /\ sessions[b] \notin {i, None} \cup Gone(b, new, i, o) => loading[sessions[b]] = None
       /\ silent \cap Gone(b, new, i, o) # {} => {i, o} # {None}
  BY <1>3, <1>6, <1>9
<1>20. inQueue' \subseteq inQueue \cup new /\ \A j \in inQueue' : account[j] = b => j = i
  <2>1. inQueue' \subseteq inQueue \cup {i} BY <1>3
  <2>2. \A j \in inQueue : account[j] # a
    BY <1>1, <1>3, ConstantAssumption DEF Fields, Typed, IsListed
  <2> QED BY <1>5, <1>9, <2>1, <2>2
<1>21. Tidy(b, new, i, o, silent) BY <1>18, <1>19, <1>20 DEF Tidy
<1> QED BY <1>10, <1>13, <1>14, <1>15, <1>16, <1>17, <1>21, MoveInv

\* AddSession_ replaces the session of the account, which stays in the world
\* with its player or is deleted.
LEMMA ReplacingInv ==
    ASSUME IInv, phase = "add", addSessQueue # <<>>, addSessQueue' = Tail(addSessQueue),
           UNCHANGED <<connecting, phase, visit, cur, stopped, kickedAll>>,
           NEW i, i = Head(addSessQueue), NEW a, a = account[i], AddSessionReplacing(i, a)
    PROVE  IInv'
<1>1. Typed /\ Places /\ Kept /\ Fields /\ Cursor /\ Pairs /\ Online /\ Line /\ Ending BY DEF IInv
<1>2. /\ i \in SessionIds /\ i # None /\ account[i] \in Accounts /\ Waits(i)
      /\ i \notin inQueue /\ i \notin kicked /\ player[i] = None /\ loading[i] = None
      /\ \A b \in Accounts : sessions[b] # i /\ offline[b] # i
      /\ addSessQueue' \in Seq(SessionIds) /\ Once(addSessQueue')
      /\ \A j \in SessionIds : Waits(j)' <=> Waits(j) /\ j # i
  BY FirstNew
<1>3. PICK old : old = sessions[a] OBVIOUS
<1>4. PICK off : off = offline[a] OBVIOUS
<1>5. PICK prev : prev = {off} \ {None} OBVIOUS
<1>6. PICK recent : recent = DisconnectsAfter(old) OBVIOUS
<1>7. /\ old # None /\ loading[old] = None
      /\ queued' = IF MustWait(a, recent) THEN Append(QueueAfter(old), i) ELSE QueueAfter(old)
      /\ inQueue' = (inQueue \ ({old} \cup Accepted(old)))
                      \cup (IF MustWait(a, recent) THEN {i} ELSE {})
      /\ IF StaysInWorld(old)
         THEN Delete(prev, prev) /\ offline' = [offline EXCEPT ![a] = old]
         ELSE Delete({old}, {old}) /\ offline' = offline
      /\ socket' = SocketsWithout({old}) /\ sessions' = [sessions EXCEPT ![a] = i]
  BY <1>3, <1>4, <1>5, <1>6 DEF AddSessionReplacing
<1>8. PICK b \in Accounts : b = a BY <1>2
<1>9. /\ old \in SessionIds /\ account[old] = b /\ old # i /\ old # off /\ off # i
      /\ off # None => off \in SessionIds /\ socket[off] = "none"
  BY <1>1, <1>2, <1>3, <1>4, <1>7, <1>8, ListedIs DEF Fields, Places
<1>10. PICK new : new = {i} OBVIOUS
<1>11. /\ socket' \in [SessionIds -> {"open", "closed", "none"}]
       /\ \A j \in SessionIds : socket'[j] = IF j = old THEN "none" ELSE socket[j]
  BY <1>1, <1>7, <1>9, SocketGone
<1>12. Line' /\ queued' \in Seq(SessionIds)
  <2>1. CASE MustWait(a, recent)
    <3>1. /\ QueueAfter(old) \in Seq(SessionIds) /\ Once(QueueAfter(old))
          /\ \A j : IsIn(j, QueueAfter(old)) <=>
                      IsIn(j, queued) /\ j # old /\ j \notin Accepted(old)
      BY <1>1, <1>9, PlacesAre, LeavesLine
    <3>2. PICK q \in Seq(SessionIds) : q = QueueAfter(old) BY <3>1
    <3>3. PICK Q : Q = inQueue \ ({old} \cup Accepted(old)) OBVIOUS
    <3>4. /\ \A j : IsIn(j, queued) => j \in inQueue
          /\ ~kickedAll => \A j \in inQueue : IsIn(j, queued)
      BY <1>1 DEF Line, IsIn
    <3>5. /\ \A j : IsIn(j, q) => j \in Q
          /\ ~kickedAll => \A j \in Q : IsIn(j, q)
      BY <3>1, <3>2, <3>3, <3>4
    <3>6. queued' = Append(q, i) /\ inQueue' = Q \cup {i} BY <1>7, <2>1, <3>2, <3>3
    <3>7. i \notin Q /\ Once(q) BY <1>2, <3>1, <3>2, <3>3
    <3> QED BY <1>2, <3>5, <3>6, <3>7, LineJoined
  <2>2. CASE ~MustWait(a, recent)
    <3>1. queued' = QueueAfter(old) /\ inQueue' = inQueue \ ({old} \cup Accepted(old))
      BY <1>7, <2>2
    <3> QED BY <1>1, <1>9, <3>1, LineLeft
  <2> QED BY <2>1, <2>2
<1>13. inQueue' \subseteq inQueue \cup new /\ \A j \in inQueue' : account[j] = b => j = i
  <2>1. inQueue' \subseteq (inQueue \ {old}) \cup {i} BY <1>7
  <2>2. \A j \in inQueue : account[j] = a => j = old BY <1>1, <1>3 DEF Fields, Typed, IsListed
  <2> QED BY <1>8, <1>10, <2>1, <2>2
<1>14. Calm(b) BY <1>1 DEF Calm, Ahead, Typed, Phases
<1>15. Cursor' BY DEF Cursor
<1>16. ~Ahead(a) BY DEF Ahead
<1>17. CASE StaysInWorld(old)
  <2>1. player[old] # None /\ ~stopped BY <1>17 DEF StaysInWorld
  <2>2. Delete(prev, prev) /\ offline' = [offline EXCEPT ![a] = old] BY <1>7, <1>17
  <2>3. Gone(b, new, i, old) = prev BY <1>2, <1>3, <1>4, <1>5, <1>8, <1>9, <1>10 DEF Gone
  <2>4. Move(b, new, i, old, prev)
    BY <1>2, <1>3, <1>7, <1>8, <1>9, <1>10, <2>2, <2>3 DEF Move
  <2>5. sessions'[b] = i /\ offline'[b] = old BY <1>1, <1>7, <1>8, <2>2 DEF Typed
  <2>6. player'[old] = player[old] /\ player'[i] = None /\ loading'[i] = None
    <3>1. old \notin prev /\ i \notin prev BY <1>5, <1>9
    <3> QED BY <1>2, <1>9, <2>2, <3>1 DEF Delete
  <2>7. Pair(b)' BY <2>1, <2>5, <2>6 DEF Pair
  <2>8. ~kickedAll BY <1>1, <2>1 DEF Ending
  <2>9. /\ socket' \in [SessionIds -> {"open", "closed", "none"}]
        /\ \A j \in SessionIds : socket'[j] \in {socket[j], "none"}
        /\ old # None => socket'[old] = "none"
    BY <1>9, <1>11
  <2>10. /\ sessions[b] \notin {i, None} \cup Gone(b, new, i, old) => loading[sessions[b]] = None
         /\ prev \cap Gone(b, new, i, old) # {} => {i, old} # {None}
    BY <1>3, <1>7, <1>8
  <2>11. Tidy(b, new, i, old, prev) BY <1>13, <2>9, <2>10 DEF Tidy
  <2> QED BY <1>12, <1>14, <1>15, <2>4, <2>7, <2>8, <2>11, MoveInv
<1>18. CASE ~StaysInWorld(old)
  <2>1. PICK silent : silent = {old} OBVIOUS
  <2>2. Delete({old}, silent) /\ offline' = offline BY <1>7, <1>18, <2>1
  <2>3. Gone(b, new, i, off) = {old} BY <1>3, <1>4, <1>7, <1>8, <1>9, <1>10 DEF Gone
  <2>4. Move(b, new, i, off, silent)
    <3>1. offline' = [offline EXCEPT ![b] = off] BY <1>1, <1>4, <1>8, <2>2 DEF Typed
    <3> QED BY <1>2, <1>4, <1>7, <1>8, <1>9, <1>10, <2>2, <2>3, <3>1 DEF Move
  <2>5. sessions'[b] = i /\ offline'[b] = off BY <1>1, <1>4, <1>7, <1>8, <2>2 DEF Typed
  <2>6. /\ player'[i] = None /\ loading'[i] = None /\ kicked' = kicked \ {old}
        /\ off # None => player'[off] = player[off]
    BY <1>2, <1>9, <2>2 DEF Delete
  <2>7. Pair(b)'
    <3>1. off # None => player[off] # None BY <1>1, <1>2, <1>4, <1>16 DEF Pairs, Pair
    <3> QED BY <2>5, <2>6, <3>1 DEF Pair
  <2>8. kickedAll => Comes(b)'
    <3>1. SUFFICES ASSUME kickedAll PROVE Comes(b)' OBVIOUS
    <3>2. off # None => off \in kicked BY <1>1, <1>2, <1>4, <3>1 DEF Ending, Comes
    <3>3. off # None => off \in kicked' BY <1>9, <2>6, <3>2
    <3> QED BY <2>5, <3>3 DEF Comes
  <2>9. /\ socket' \in [SessionIds -> {"open", "closed", "none"}]
        /\ \A j \in SessionIds : socket'[j] \in {socket[j], "none"}
        /\ off # None => socket'[off] = "none"
    BY <1>9, <1>11
  <2>10. /\ sessions[b] \notin {i, None} \cup Gone(b, new, i, off) => loading[sessions[b]] = None
         /\ silent \cap Gone(b, new, i, off) # {} => {i, off} # {None}
    <3>1. sessions[b] \in Gone(b, new, i, off) BY <1>3, <1>8, <2>3
    <3>2. i \in {i, off} /\ i \notin {None} BY <1>2
    <3> QED BY <3>1, <3>2
  <2>11. Tidy(b, new, i, off, silent) BY <1>13, <2>9, <2>10 DEF Tidy
  <2> QED BY <1>12, <1>14, <1>15, <2>4, <2>7, <2>8, <2>11, MoveInv
<1> QED BY <1>17, <1>18

\* World::AddSession_.
LEMMA AddSessionInv == ASSUME IInv, AddSession_ PROVE IInv'
<1>1. PICK i : i = Head(addSessQueue) OBVIOUS
<1>2. PICK a : a = account[i] OBVIOUS
<1>3. /\ phase = "add" /\ addSessQueue # <<>> /\ addSessQueue' = Tail(addSessQueue)
      /\ UNCHANGED <<connecting, phase, visit, cur, stopped, kickedAll>>
      /\ AddSessionRefused(i, a) \/ AddSessionFresh(i, a) \/ AddSessionReplacing(i, a)
  BY <1>1, <1>2 DEF AddSession_, ctlVars, stopVars
<1>4. CASE AddSessionRefused(i, a) BY <1>1, <1>2, <1>3, <1>4, RefusedInv
<1>5. CASE AddSessionFresh(i, a) BY <1>1, <1>2, <1>3, <1>5, FreshInv
<1>6. CASE AddSessionReplacing(i, a) BY <1>1, <1>2, <1>3, <1>6, ReplacingInv
<1> QED BY <1>3, <1>4, <1>5, <1>6

LEMMA NextInv == IInv /\ [Next]_vars => IInv'
<1> SUFFICES ASSUME IInv, [Next]_vars PROVE IInv'
  OBVIOUS
<1>1. CASE \E i \in SessionIds : Network(i) \/ HolderExecuted(i) \/ KickPlayer(i) \/ Travel(i)
  <2>1. PICK i \in SessionIds : Network(i) \/ HolderExecuted(i) \/ KickPlayer(i) \/ Travel(i)
    BY <1>1
  <2>2. CASE Network(i)
    <3>1. CASE \E a \in Accounts : Construct(i, a) BY <3>1, ConstructInv
    <3>2. CASE AddSession(i) \/ RejectAuth(i) BY <3>2, HandOverInv
    <3>3. CASE CloseSocket(i) BY <3>3, CloseSocketInv
    <3> QED BY <2>2, <3>1, <3>2, <3>3 DEF Network
  <2>3. CASE HolderExecuted(i) BY <2>3, HolderInv
  <2>4. CASE KickPlayer(i) BY <2>4, KickInv
  <2>5. CASE Travel(i) BY <2>5, QuietInv
  <2> QED BY <2>1, <2>2, <2>3, <2>4, <2>5
<1>2. CASE BeginUpdateSessions BY <1>2, ControlInv
<1>3. CASE WorldUpdateSessions
  <2>1. CASE AddSession_ BY <2>1, AddSessionInv
  <2>2. CASE \E a \in Accounts : SocketClosed(a) BY <2>2, SocketClosedInv
  <2>3. CASE PlayerLoginFailed \/ \E elsewhere \in BOOLEAN : PlayerLoginFromDB(elsewhere)
    BY <2>3, LoginDoneInv
  <2>4. CASE RemoveSession BY <2>4, RemoveSessionInv
  <2>5. CASE \E a \in Accounts, expired \in BOOLEAN : RemoveOffline(a, expired)
    BY <2>5, RemoveOfflineInv
  <2>6. CASE \/ EndAdd \/ (\E a \in Accounts : BeginUpdate(a)) \/ NoLoginCallback \/ EndUpdate
             \/ EndSessions \/ (\E a \in Accounts : KeepOffline(a)) \/ EndUpdateSessions
    BY <2>6, ControlInv
  <2> QED BY <1>3, <2>1, <2>2, <2>3, <2>4, <2>5, <2>6 DEF WorldUpdateSessions
<1>4. CASE Packet
  <2>1. CASE LoginAgain BY <2>1, KickInv
  <2>2. CASE \E c \in Chars : LoginFromCharacterList(c) BY <2>2, LoginFromInv
  <2>3. CASE \E c \in Chars : LoginToCharInWorld(c) BY <2>3, LoginToInv
  <2>4. CASE InstantLogout BY <2>4, LogoutInv
  <2>5. CASE \E granted \in BOOLEAN : LogoutRequest(granted) BY <2>5, QuietInv
  <2> QED BY <1>4, <2>1, <2>2, <2>3, <2>4, <2>5 DEF Packet
<1>5. CASE DelayedLogout BY <1>5, LogoutInv
<1>6. CASE StopNow BY <1>6, StopInv
<1>7. CASE KickAll BY <1>7, KickAllInv
<1>8. CASE \/ \E l \in Limits : SetPlayerAmountLimit(l)
           \/ \E a \in Accounts : ForgetDisconnect(a)
           \/ UNCHANGED vars
  BY <1>8, QuietInv
<1>9. CASE Terminating BY <1>9, QuietInv DEF Terminating
<1> QED BY <1>1, <1>2, <1>3, <1>4, <1>5, <1>6, <1>7, <1>8, <1>9 DEF Next

LEMMA Invariance == Spec => []IInv
<1>1. Init => IInv BY InitInv
<1>2. IInv /\ [Next]_vars => IInv' BY NextInv
<1> QED BY <1>1, <1>2, PTL DEF Spec

-----------------------------------------------------------------------------
(* No place is wasted.                                                     *)

\* The limit is always a number.
LEMMA LimitKept == [Next]_vars => limit' = limit \/ limit' \in Limits
<1> SUFFICES ASSUME Next PROVE limit' = limit \/ limit' \in Limits BY DEF vars
<1>1. CASE \E i \in SessionIds : Network(i) \/ HolderExecuted(i) \/ KickPlayer(i) \/ Travel(i)
  BY <1>1 DEF Network, Construct, AddSession, RejectAuth, CloseSocket, HolderExecuted, KickPlayer,
              Travel
<1>2. CASE WorldUpdateSessions
  BY <1>2 DEF WorldUpdateSessions, AddSession_, EndAdd, SocketClosed, BeginUpdate, NoLoginCallback,
              PlayerLoginFromDB, PlayerLoginFailed, EndUpdate, RemoveSession, EndSessions,
              RemoveOffline, KeepOffline, EndUpdateSessions
<1>3. CASE Packet
  BY <1>3 DEF Packet, LoginAgain, LoginFromCharacterList, LoginToCharInWorld, InstantLogout,
              LogoutRequest
<1>4. CASE BeginUpdateSessions \/ DelayedLogout \/ StopNow \/ KickAll
  BY <1>4 DEF BeginUpdateSessions, DelayedLogout, StopNow, KickAll
<1>5. CASE \/ \E l \in Limits : SetPlayerAmountLimit(l)
           \/ \E a \in Accounts : ForgetDisconnect(a)
           \/ Terminating
  BY <1>5 DEF SetPlayerAmountLimit, ForgetDisconnect, Terminating, vars
<1> QED BY <1>1, <1>2, <1>3, <1>4, <1>5 DEF Next

Limited == limit \in Nat

LEMMA LimitAlways == Spec => []Limited
<1>1. Init => Limited BY ConstantAssumption DEF Init, Limited
<1>2. Limited /\ [Next]_vars => Limited' BY LimitKept, ConstantAssumption DEF Limited
<1> QED BY <1>1, <1>2, PTL DEF Spec

\* Only AddSession_ and the two removals change who is listed and who waits,
\* and KickAll, which empties the queue.
LEMMA OthersKeep ==
    ASSUME [Next]_vars
    PROVE  \/ UNCHANGED <<sessions, queued>>
           \/ queued' = <<>>
           \/ AddSession_ \/ RemoveSession \/ \E a \in Accounts : SocketClosed(a)
<1>1. CASE \E i \in SessionIds : Network(i) \/ HolderExecuted(i) \/ KickPlayer(i) \/ Travel(i)
  BY <1>1 DEF Network, Construct, AddSession, RejectAuth, CloseSocket, HolderExecuted, KickPlayer,
              Travel, queueVars, listVars
<1>2. CASE WorldUpdateSessions
  BY <1>2 DEF WorldUpdateSessions, EndAdd, BeginUpdate, NoLoginCallback,
              PlayerLoginFromDB, PlayerLoginFailed, EndUpdate, EndSessions,
              RemoveOffline, KeepOffline, EndUpdateSessions, queueVars, listVars
<1>3. CASE Packet
  BY <1>3 DEF Packet, LoginAgain, LoginFromCharacterList, LoginToCharInWorld, InstantLogout,
              LogoutRequest, queueVars, listVars
<1>4. CASE BeginUpdateSessions \/ DelayedLogout \/ StopNow \/ KickAll
  BY <1>4 DEF BeginUpdateSessions, DelayedLogout, StopNow, KickAll, queueVars, listVars
<1>5. CASE \/ \E l \in Limits : SetPlayerAmountLimit(l)
           \/ \E a \in Accounts : ForgetDisconnect(a)
           \/ UNCHANGED vars
  BY <1>5 DEF SetPlayerAmountLimit, ForgetDisconnect, vars, queueVars, listVars
<1> QED BY <1>1, <1>2, <1>3, <1>4, <1>5 DEF Next, Terminating

\* The numbers that IdlePlaces is made of.
LEMMA IdleIs ==
    ASSUME Typed
    PROVE  /\ Cardinality(Listed) \in Nat /\ Len(queued) \in Nat
           /\ queued = <<>> <=> Len(queued) = 0
<1>1. IsFiniteSet(Listed) BY ConstantAssumption, FS_Subset DEF Listed
<1>2. queued \in Seq(SessionIds) BY DEF Typed
<1> QED BY <1>1, <1>2, FS_CardinalityType, EmptySeq

\* The three ways in which the idle places do not grow.
LEMMA IdleLess ==
    ASSUME Typed, limit \in Nat, limit' = limit,
           NEW c \in Nat, c = Cardinality(Listed), NEW d \in Nat, d = Cardinality(Listed'),
           NEW m \in Nat, m = Len(queued), NEW n \in Nat, n = Len(queued'),
           \/ queued' = <<>>
           \/ d - n >= limit
           \/ queued # <<>> /\ d - n >= c - m
    PROVE  IdlePlaces' <= IdlePlaces
<1>1. PICK x : x = IdlePlaces OBVIOUS
<1>2. PICK y : y = IdlePlaces' OBVIOUS
<1>3. x = IF queued = <<>> \/ c - m >= limit THEN 0 ELSE limit - (c - m)
  BY <1>1 DEF IdlePlaces
<1>4. y = IF queued' = <<>> \/ d - n >= limit THEN 0 ELSE limit - (d - n)
  BY <1>2 DEF IdlePlaces
<1>5. y <= x
  <2>1. PICK k \in Nat : k = limit OBVIOUS
  <2>2. x >= 0 BY <1>3, <2>1
  <2>3. CASE queued' = <<>> \/ d - n >= limit BY <1>4, <2>2, <2>3
  <2>4. CASE ~(queued' = <<>> \/ d - n >= limit)
    <3>1. queued # <<>> /\ d - n >= c - m BY <2>4
    <3>2. ~(c - m >= k) BY <2>1, <2>4, <3>1
    <3>3. x = k - (c - m) /\ y = k - (d - n) BY <1>3, <1>4, <2>1, <2>4, <3>1, <3>2
    <3> QED BY <3>1, <3>3
  <2> QED BY <2>3, <2>4
<1> QED BY <1>1, <1>2, <1>5

\* What RemoveQueuedPlayer leaves in the queue.
LEMMA LengthLeft ==
    ASSUME Typed, Line, NEW i \in SessionIds
    PROVE  \E w \in {0, 1}, x \in {0, 1} :
              /\ Len(QueueAfter(i)) \in Nat
              /\ Len(QueueAfter(i)) = Len(queued) - w - x
              /\ w = 0 <=> Positions(i) = {}
              /\ x = 1 <=> Accepts(i)
              /\ w = 0 => QueueWithout(i) = queued
<1>1. queued \in Seq(SessionIds) /\ Once(queued) BY DEF Typed, Line, Once
<1>2. PICK m \in Nat : m = Len(queued) BY <1>1
<1>3. PICK s : s = QueueWithout(i) OBVIOUS
<1>4. PICK w \in {0, 1} : /\ s \in Seq(SessionIds) /\ Len(s) = m - w
                          /\ w = 0 <=> Positions(i) = {}
                          /\ w = 0 => s = queued
  <2>1. CASE Positions(i) = {}
    <3>1. s = queued BY <1>3, <2>1 DEF QueueWithout
    <3>2. Len(s) = m - 0 BY <1>2, <3>1
    <3> QED BY <1>1, <2>1, <3>1, <3>2
  <2>2. CASE Positions(i) # {}
    <3> DEFINE k == CHOOSE n \in Positions(i) : \A o \in Positions(i) : n <= o
    <3>1. Positions(i) \subseteq Nat BY <1>1 DEF Positions
    <3>2. \E n \in Positions(i) : \A o \in Positions(i) : n <= o BY <2>2, <3>1, SmallestOf
    <3>3. k \in Positions(i) BY <3>2
    <3>4. s = Erase(queued, k) BY <1>3, <2>2 DEF QueueWithout
    <3> HIDE DEF k
    <3>5. k \in DOMAIN queued BY <3>3 DEF Positions
    <3>6. s \in Seq(SessionIds) BY <1>1, <3>4, <3>5, Erased
    <3>7. k \in 1 .. m BY <1>1, <1>2, <3>5
    <3>8. DOMAIN s = 1 .. m - 1 /\ m - 1 \in Nat BY <1>2, <3>4, <3>7 DEF Erase
    <3>9. Len(s) = m - 1 BY <3>6, <3>8, LenProperties
    <3> QED BY <2>2, <3>6, <3>9
  <2> QED BY <2>1, <2>2
<1>5. CASE Accepts(i)
  <2>1. s # <<>> /\ QueueAfter(i) = Tail(s) BY <1>3, <1>5 DEF Accepts, QueueAfter
  <2>2. Len(QueueAfter(i)) = Len(s) - 1 /\ Len(QueueAfter(i)) \in Nat
    BY <1>4, <2>1, HeadTailProperties
  <2>3. Len(QueueAfter(i)) = m - w - 1 BY <1>2, <1>4, <2>2
  <2> QED BY <1>2, <1>3, <1>4, <1>5, <2>2, <2>3
<1>6. CASE ~Accepts(i)
  <2>1. QueueAfter(i) = s BY <1>3, <1>6 DEF QueueAfter
  <2>2. Len(QueueAfter(i)) = m - w - 0 /\ Len(QueueAfter(i)) \in Nat BY <1>2, <1>4, <2>1
  <2> QED BY <1>2, <1>3, <1>4, <1>6, <2>2
<1> QED BY <1>5, <1>6

\* A listed session leaves.
LEMMA LeavesIdle ==
    ASSUME IInv, limit \in Nat, limit' = limit, NEW a \in Accounts, NEW i \in SessionIds,
           sessions[a] = i, RemoveQueuedPlayer(i), sessions' = [sessions EXCEPT ![a] = None]
    PROVE  IdlePlaces' <= IdlePlaces
<1>1. Typed /\ Line BY DEF IInv
<1>2. PICK c \in Nat : c = Cardinality(Listed) BY <1>1, IdleIs
<1>3. PICK m \in Nat : m = Len(queued) /\ (queued = <<>> <=> m = 0) BY <1>1, IdleIs
<1>4. queued' = QueueAfter(i) BY DEF RemoveQueuedPlayer
<1>5. PICK w \in {0, 1}, x \in {0, 1} :
         /\ Len(QueueAfter(i)) \in Nat
         /\ Len(QueueAfter(i)) = m - w - x
         /\ w = 0 <=> Positions(i) = {}
         /\ x = 1 <=> Accepts(i)
         /\ w = 0 => QueueWithout(i) = queued
  BY <1>1, <1>3, LengthLeft
<1>6. PICK n \in Nat : n = Len(queued') /\ n = m - w - x BY <1>4, <1>5
<1>7. c - 1 \in Nat /\ Cardinality(Listed') = c - 1
  <2>1. IsFiniteSet(Listed) BY ConstantAssumption, FS_Subset DEF Listed
  <2>2. a \in Listed BY ConstantAssumption DEF Listed
  <2>3. Listed' = Listed \ {a} BY <1>1 DEF Listed, Typed
  <2>4. Cardinality(Listed \ {a}) = c - 1 BY <1>2, <2>1, <2>2, FS_RemoveElement
  <2>5. Cardinality(Listed \ {a}) \in Nat BY <2>1, FS_RemoveElement, FS_CardinalityType
  <2> QED BY <2>3, <2>4, <2>5
<1>8. PICK d \in Nat : d = c - 1 BY <1>7
<1>9. d = Cardinality(Listed') BY <1>7, <1>8
<1>10. queued' \in Seq(SessionIds) BY <1>1, <1>4, LeavesLine DEF Line, Once
<1>11. CASE w = 1 \/ x = 1
  <2>1. m # 0 BY <1>6, <1>11
  <2>2. d - n >= c - m BY <1>6, <1>8, <1>11
  <2> QED BY <1>1, <1>2, <1>3, <1>6, <1>9, <2>1, <2>2, IdleLess
<1>12. CASE w = 0 /\ x = 0
  <2>1. CASE queued = <<>>
    <3>1. n = 0 BY <1>3, <1>6, <1>12, <2>1
    <3>2. queued' = <<>> BY <1>6, <1>10, <3>1, EmptySeq
    <3> QED BY <1>1, <1>2, <1>3, <1>6, <1>9, <3>2, IdleLess
  <2>2. CASE queued # <<>>
    <3>1. ActiveWithout(i) = c - m - 1 BY <1>2, <1>3, <1>5, <1>12 DEF ActiveWithout
    <3>2. ~(c - m - 1 < limit) BY <1>5, <1>12, <2>2, <3>1 DEF Accepts
    <3>3. d - n >= limit BY <1>6, <1>8, <1>12, <3>2
    <3> QED BY <1>1, <1>2, <1>3, <1>6, <1>9, <3>3, IdleLess
  <2> QED BY <2>1, <2>2
<1> QED BY <1>11, <1>12

\* One more listed session.
LEMMA ListedWith ==
    ASSUME Typed, NEW a \in Accounts, NEW i, i # None, sessions' = [sessions EXCEPT ![a] = i]
    PROVE  /\ Cardinality(Listed) \in Nat
           /\ Listed' = Listed \cup {a}
           /\ Cardinality(Listed \cup {a}) =
                 IF sessions[a] = None THEN Cardinality(Listed) + 1 ELSE Cardinality(Listed)
<1>1. IsFiniteSet(Listed) BY ConstantAssumption, FS_Subset DEF Listed
<1>2. Cardinality(Listed) \in Nat BY <1>1, FS_CardinalityType
<1>3. Listed' = Listed \cup {a} BY DEF Listed, Typed
<1>4. a \in Listed <=> sessions[a] # None BY DEF Listed
<1>5. Cardinality(Listed \cup {a}) =
         IF a \in Listed THEN Cardinality(Listed) ELSE Cardinality(Listed) + 1
  BY <1>1, FS_AddElement
<1> QED BY <1>2, <1>3, <1>4, <1>5

\* The account had no session.
LEMMA FreshIdle ==
    ASSUME IInv, limit \in Nat, limit' = limit, NEW a \in Accounts, NEW i \in SessionIds, i # None,
           AddSessionFresh(i, a)
    PROVE  IdlePlaces' <= IdlePlaces
<1>1. Typed BY DEF IInv
<1>2. PICK c \in Nat : c = Cardinality(Listed) BY <1>1, IdleIs
<1>3. PICK m \in Nat : m = Len(queued) /\ (queued = <<>> <=> m = 0) BY <1>1, IdleIs
<1>4. sessions[a] = None /\ sessions' = [sessions EXCEPT ![a] = i] BY DEF AddSessionFresh
<1>5. PICK d \in Nat : d = c + 1 OBVIOUS
<1>6. d = Cardinality(Listed') /\ d = Cardinality(Listed \cup {a})
  BY <1>1, <1>2, <1>4, <1>5, ListedWith
<1>7. CASE MustWait(a, disconnects)
  <2>1. queued' = Append(queued, i) BY <1>7 DEF AddSessionFresh
  <2>2. queued \in Seq(SessionIds) BY <1>1 DEF Typed
  <2>3. PICK n \in Nat : n = Len(queued') /\ n = m + 1 BY <1>3, <2>1, <2>2, AppendProperties
  <2>4. d - 1 >= limit BY <1>6, <1>7 DEF MustWait
  <2>5. queued = <<>> => d - n >= limit BY <1>3, <2>3, <2>4
  <2>6. d - n >= c - m BY <1>5, <2>3
  <2> QED BY <1>1, <1>2, <1>3, <1>6, <2>3, <2>5, <2>6, IdleLess
<1>8. CASE ~MustWait(a, disconnects)
  <2>1. queued' = queued BY <1>8 DEF AddSessionFresh
  <2>2. d - m >= c - m BY <1>5
  <2> QED BY <1>1, <1>2, <1>3, <1>6, <2>1, <2>2, IdleLess
<1> QED BY <1>7, <1>8

\* The account's session is replaced.
LEMMA ReplacingIdle ==
    ASSUME IInv, limit \in Nat, limit' = limit, NEW a \in Accounts, NEW i \in SessionIds, i # None,
           AddSessionReplacing(i, a)
    PROVE  IdlePlaces' <= IdlePlaces
<1>1. Typed /\ Line BY DEF IInv
<1>2. PICK c \in Nat : c = Cardinality(Listed) BY <1>1, IdleIs
<1>3. PICK m \in Nat : m = Len(queued) /\ (queued = <<>> <=> m = 0) BY <1>1, IdleIs
<1>4. PICK old : old = sessions[a] OBVIOUS
<1>5. PICK recent : recent = DisconnectsAfter(old) OBVIOUS
<1>6. /\ old # None /\ sessions' = [sessions EXCEPT ![a] = i]
      /\ queued' = IF MustWait(a, recent) THEN Append(QueueAfter(old), i) ELSE QueueAfter(old)
  BY <1>4, <1>5 DEF AddSessionReplacing
<1>7. old \in SessionIds BY <1>1, <1>4, <1>6 DEF Typed
<1>8. c = Cardinality(Listed') /\ c = Cardinality(Listed \cup {a})
  <2>1. sessions[a] # None BY <1>4, <1>6
  <2>2. Listed' = Listed \cup {a} BY <1>1, <1>6, ListedWith
  <2>3. Cardinality(Listed \cup {a}) = Cardinality(Listed) BY <1>1, <1>6, <2>1, ListedWith
  <2> QED BY <1>2, <2>2, <2>3
<1>9. PICK w \in {0, 1}, x \in {0, 1} :
         /\ Len(QueueAfter(old)) \in Nat
         /\ Len(QueueAfter(old)) = m - w - x
         /\ w = 0 <=> Positions(old) = {}
         /\ x = 1 <=> Accepts(old)
         /\ w = 0 => QueueWithout(old) = queued
  BY <1>1, <1>3, <1>7, LengthLeft
<1>10. QueueAfter(old) \in Seq(SessionIds) BY <1>1, <1>7, LeavesLine DEF Line, Once
<1>11. PICK z \in {0, 1} : /\ Len(queued') \in Nat /\ Len(queued') = m - w - x + z
                           /\ queued' \in Seq(SessionIds)
                           /\ z = 1 => c - 1 >= limit
  <2>1. CASE MustWait(a, recent)
    <3>1. queued' = Append(QueueAfter(old), i) BY <1>6, <2>1
    <3>2. Len(queued') = Len(QueueAfter(old)) + 1 /\ queued' \in Seq(SessionIds)
      BY <1>10, <3>1, AppendProperties
    <3>3. c - 1 >= limit BY <1>8, <2>1 DEF MustWait
    <3>4. Len(queued') \in Nat /\ Len(queued') = m - w - x + 1 BY <1>9, <3>2
    <3> QED BY <3>2, <3>3, <3>4
  <2>2. CASE ~MustWait(a, recent)
    <3>1. queued' = QueueAfter(old) BY <1>6, <2>2
    <3>2. Len(queued') \in Nat /\ Len(queued') = m - w - x + 0 BY <1>9, <3>1
    <3> QED BY <1>10, <3>1, <3>2
  <2> QED BY <2>1, <2>2
<1>12. PICK n \in Nat : n = Len(queued') /\ n = m - w - x + z BY <1>11
<1>13. CASE queued # <<>> /\ (w = 1 \/ x = 1 \/ z = 0)
  <2>1. c - n >= c - m BY <1>12, <1>13
  <2> QED BY <1>1, <1>2, <1>3, <1>8, <1>12, <1>13, <2>1, IdleLess
<1>14. CASE queued = <<>>
  <2>1. n = z
    <3>1. m = 0 /\ m - w - x \in Nat BY <1>3, <1>9, <1>14
    <3>2. w = 0 /\ x = 0 BY <3>1
    <3> QED BY <1>12, <3>1, <3>2
  <2>2. CASE z = 0
    <3>1. queued' = <<>> BY <1>11, <1>12, <2>1, <2>2, EmptySeq
    <3> QED BY <1>1, <1>2, <1>3, <1>8, <1>12, <3>1, IdleLess
  <2>3. CASE z = 1
    <3>1. c - n >= limit BY <1>11, <2>1, <2>3
    <3> QED BY <1>1, <1>2, <1>3, <1>8, <1>12, <3>1, IdleLess
  <2> QED BY <2>2, <2>3
<1>15. CASE queued # <<>> /\ w = 0 /\ x = 0 /\ z = 1
  <2>1. ActiveWithout(old) = c - m - 1 BY <1>2, <1>3, <1>9, <1>15 DEF ActiveWithout
  <2>2. ~(c - m - 1 < limit) BY <1>9, <1>15, <2>1 DEF Accepts
  <2>3. c - n >= limit BY <1>12, <1>15, <2>2
  <2> QED BY <1>1, <1>2, <1>3, <1>8, <1>12, <2>3, IdleLess
<1> QED BY <1>13, <1>14, <1>15

\* Every step but a new limit.
LEMMA IdleStep ==
    ASSUME IInv, limit \in Nat, [Next]_vars, limit' = limit
    PROVE  IdlePlaces' <= IdlePlaces
<1>1. Typed /\ Places /\ Cursor BY DEF IInv
<1>2. Typed' BY NextInv DEF IInv
<1>3. PICK c \in Nat : c = Cardinality(Listed) BY <1>1, IdleIs
<1>4. PICK m \in Nat : m = Len(queued) BY <1>1, IdleIs
<1>5. CASE UNCHANGED <<sessions, queued>>
  <2>1. Listed' = Listed BY <1>5 DEF Listed
  <2>2. queued = <<>> \/ c - m >= c - m BY <1>3, <1>4
  <2> QED BY <1>1, <1>3, <1>4, <1>5, <2>1, <2>2, IdleLess
<1>6. CASE queued' = <<>>
  <2>1. PICK d \in Nat : d = Cardinality(Listed')
    <3>1. IsFiniteSet(Listed') BY ConstantAssumption, FS_Subset DEF Listed
    <3> QED BY <3>1, FS_CardinalityType
  <2>2. PICK n \in Nat : n = Len(queued') BY <1>6
  <2> QED BY <1>1, <1>3, <1>4, <1>6, <2>1, <2>2, IdleLess
<1>7. CASE AddSession_
  <2>1. PICK i : i = Head(addSessQueue) OBVIOUS
  <2>2. PICK a : a = account[i] OBVIOUS
  <2>3. /\ addSessQueue # <<>> /\ addSessQueue' = Tail(addSessQueue)
        /\ AddSessionRefused(i, a) \/ AddSessionFresh(i, a) \/ AddSessionReplacing(i, a)
    BY <1>7, <2>1, <2>2 DEF AddSession_
  <2>4. i \in SessionIds /\ i # None /\ a \in Accounts BY <2>1, <2>2, <2>3, FirstNew
  <2>5. CASE AddSessionRefused(i, a)
    <3>1. UNCHANGED <<sessions, queued>> BY <2>5 DEF AddSessionRefused, queueVars, listVars
    <3> QED BY <1>5, <3>1
  <2>6. CASE AddSessionFresh(i, a) BY <2>4, <2>6, FreshIdle
  <2>7. CASE AddSessionReplacing(i, a) BY <2>4, <2>7, ReplacingIdle
  <2> QED BY <2>3, <2>5, <2>6, <2>7
<1>8. CASE RemoveSession
  <2>1. IsListed(cur) BY <1>1, <1>8 DEF RemoveSession, Cursor
  <2>2. cur \in SessionIds /\ account[cur] \in Accounts BY <1>1, <2>1, AccountIs DEF IsListed
  <2>3. sessions[account[cur]] = cur BY <2>1 DEF IsListed
  <2>4. RemoveQueuedPlayer(cur) /\ sessions' = [sessions EXCEPT ![account[cur]] = None]
    BY <1>8 DEF RemoveSession
  <2> QED BY <2>2, <2>3, <2>4, LeavesIdle
<1>9. ASSUME NEW a \in Accounts, SocketClosed(a) PROVE IdlePlaces' <= IdlePlaces
  <2>1. PICK i : i = sessions[a] OBVIOUS
  <2>2. i # None /\ i \in SessionIds BY <1>1, <1>9, <2>1 DEF SocketClosed, Cursor, Typed
  <2>3. RemoveQueuedPlayer(i) /\ sessions' = [sessions EXCEPT ![a] = None]
    BY <1>9, <2>1 DEF SocketClosed
  <2> QED BY <2>1, <2>2, <2>3, LeavesIdle
<1> QED BY <1>5, <1>6, <1>7, <1>8, <1>9, OthersKeep

-----------------------------------------------------------------------------
(* The theorems.                                                           *)

\* Two sessions with a player have two players, and two sessions of one account
\* never both have a player between two UpdateSessions; the flags in the
\* databases agree with the sessions.
LEMMA OneCharacter == IInv => OneCharacterPerAccount
<1> SUFFICES ASSUME IInv PROVE OneCharacterPerAccount
  OBVIOUS
<1>1. Typed /\ Places /\ Fields /\ Pairs /\ Online BY DEF IInv
<1>2. ASSUME NEW i \in live, NEW j \in live, IsListed(i), IsOffline(j), account[i] = account[j],
             player[i] # None, player[j] # None
      PROVE  player[i] # player[j] /\ phase # "rest" /\ j \in kicked
  <2>1. account[j] \in Accounts /\ i # None /\ j # None BY <1>1, AccountIs
  <2>2. sessions[account[j]] = i /\ offline[account[j]] = j BY <1>2 DEF IsListed, IsOffline
  <2>3. Ahead(account[j]) /\ j \in kicked /\ player[j] \notin {player[i], loading[i]}
    BY <1>1, <1>2, <2>1, <2>2 DEF Pairs, Pair
  <2> QED BY <2>3 DEF Ahead
<1>3. ASSUME NEW i \in live, NEW j \in live, player[i] # None, player[j] # None, i # j
      PROVE  /\ player[i] # player[j]
             /\ account[i] = account[j] => phase # "rest" /\ {i, j} \cap kicked # {}
  <2>1. /\ IsListed(i) \/ IsOffline(i)
        /\ IsListed(j) \/ IsOffline(j)
        /\ OwnerOf[player[i]] = account[i] /\ OwnerOf[player[j]] = account[j]
    BY <1>1, <1>3 DEF Fields, Typed
  <2>2. CASE account[i] # account[j] BY <2>1, <2>2
  <2>3. CASE account[i] = account[j]
    <3>1. ~(IsListed(i) /\ IsListed(j)) /\ ~(IsOffline(i) /\ IsOffline(j))
      BY <1>3, <2>3 DEF IsListed, IsOffline
    <3>2. CASE IsListed(i) /\ IsOffline(j) BY <1>2, <1>3, <2>3, <3>2
    <3>3. CASE IsListed(j) /\ IsOffline(i) BY <1>2, <1>3, <2>3, <3>3
    <3> QED BY <2>1, <3>1, <3>2, <3>3
  <2> QED BY <2>2, <2>3
<1> QED BY <1>1, <1>3 DEF OneCharacterPerAccount, Online

\* A set with one element, and one with none.
LEMMA CountIs ==
    ASSUME NEW S
    PROVE  /\ S = {} => Cardinality(S) = 0
           /\ \A x : S = {x} => Cardinality(S) = 1
<1>1. S = {} => Cardinality(S) = 0 BY FS_EmptySet
<1>2. ASSUME NEW x, S = {x} PROVE Cardinality(S) = 1 BY <1>2, FS_Singleton
<1> QED BY <1>1, <1>2

\* Every session that was not rejected has one owner, and the offline ones wait
\* for their player only.
LEMMA Owner == IInv /\ ~MayReject => OneOwner
<1> SUFFICES ASSUME IInv, ~MayReject PROVE OneOwner
  OBVIOUS
<1>1. Typed /\ Places /\ Kept /\ Fields /\ Pairs BY DEF IInv
<1>2. ASSUME NEW i \in SessionIds PROVE Listings(i) = IF i \in live THEN 1 ELSE 0
  <2> DEFINE N == {n \in DOMAIN addSessQueue : addSessQueue[n] = i}
             S == {a \in Accounts : sessions[a] = i}
             O == {a \in Accounts : offline[a] = i}
  <2>1. Listings(i) = (IF i \in connecting THEN 1 ELSE 0) + Cardinality(N) + Cardinality(S)
                        + Cardinality(O)
    BY DEF Listings
  <2>2. i # None BY ConstantAssumption
  <2>3. /\ IF Waits(i) THEN \E n : N = {n} ELSE N = {}
    <3>1. CASE Waits(i)
      <4>1. PICK n \in DOMAIN addSessQueue : addSessQueue[n] = i BY <3>1 DEF Waits
      <4>2. N = {n} BY <1>1, <4>1 DEF Places
      <4> QED BY <3>1, <4>2
    <3>2. CASE ~Waits(i) BY <3>2 DEF Waits
    <3> QED BY <3>1, <3>2
  <2>4. IF IsListed(i) THEN S = {account[i]} ELSE S = {}
    <3>1. \A a \in S : i \in live /\ account[i] = a /\ IsListed(i) BY <1>1, <2>2, ListedIs
    <3>2. IsListed(i) => account[i] \in S BY <1>1, AccountIs DEF IsListed
    <3> QED BY <3>1, <3>2
  <2>5. IF IsOffline(i) THEN O = {account[i]} ELSE O = {}
    <3>1. \A a \in O : i \in live /\ account[i] = a /\ IsOffline(i) BY <1>1, <2>2, ListedIs
    <3>2. IsOffline(i) => account[i] \in O BY <1>1, AccountIs DEF IsOffline
    <3> QED BY <3>1, <3>2
  <2> HIDE DEF N, S, O
  <2>6. /\ Cardinality(N) = IF Waits(i) THEN 1 ELSE 0
        /\ Cardinality(S) = IF IsListed(i) THEN 1 ELSE 0
        /\ Cardinality(O) = IF IsOffline(i) THEN 1 ELSE 0
    BY <2>3, <2>4, <2>5, CountIs
  <2>7. /\ i \in connecting \/ Waits(i) \/ IsListed(i) \/ IsOffline(i) <=> i \in live
        /\ i \in connecting => ~Waits(i) /\ ~IsListed(i) /\ ~IsOffline(i)
        /\ Waits(i) => ~IsListed(i) /\ ~IsOffline(i)
        /\ IsListed(i) => ~IsOffline(i)
    <3>1. i \in connecting \/ Waits(i) \/ IsListed(i) \/ IsOffline(i) <=> i \in live
      BY <1>1 DEF Kept, Places, Waits, IsListed, IsOffline
    <3>2. i \in connecting => ~Waits(i) BY <1>1 DEF Places, Waits
    <3>3. ASSUME IsListed(i) \/ IsOffline(i)
          PROVE  /\ i \notin connecting /\ ~Waits(i) /\ ~(IsListed(i) /\ IsOffline(i))
      <4>1. i \in live /\ account[i] \in Accounts BY <1>1, <3>3, AccountIs DEF IsListed, IsOffline
      <4> QED BY <1>1, <2>2, <3>3, <4>1 DEF Places, IsListed, IsOffline
    <3> QED BY <3>1, <3>2, <3>3
  <2> QED BY <2>1, <2>6, <2>7
<1>3. ASSUME phase \in {"rest", "add"}, NEW a \in Accounts, offline[a] # None
      PROVE  /\ socket[offline[a]] = "none" /\ player[offline[a]] # None
             /\ sessions[a] # None => player[sessions[a]] = None
  <2>1. ~Ahead(a) BY <1>3 DEF Ahead
  <2> QED BY <1>1, <1>3, <2>1 DEF Fields, Pairs, Pair
<1> QED BY <1>2, <1>3 DEF OneOwner

\* m_QueuedPlayer holds listed sessions, once, with their flag.
LEMMA QueueIs == IInv => QueueConsistent
<1> SUFFICES ASSUME IInv PROVE QueueConsistent
  OBVIOUS
<1>1. Typed /\ Fields /\ Line BY DEF IInv
<1>2. \A i \in inQueue : IsListed(i) /\ player[i] = None /\ loading[i] = None
  BY <1>1 DEF Typed, Fields
<1>3. \A n \in DOMAIN queued : queued[n] \in live \cap inQueue /\ sessions[account[queued[n]]] = queued[n]
  BY <1>1, <1>2 DEF Line, IsListed
<1> QED BY <1>1, <1>2, <1>3 DEF QueueConsistent, Line

\* No session that KickAll found survives.
LEMMA ShutdownIs == IInv => ShutdownComplete
<1> SUFFICES ASSUME IInv, phase = "end", NEW i \in Known
             PROVE  i \notin kicked /\ i \notin {offline[a] : a \in Accounts}
  BY DEF ShutdownComplete
<1>1. \A a \in Accounts : Comes(a) BY DEF IInv, Ending
<1>2. \A a \in Accounts : ~Ahead(a) BY DEF Ahead
<1>3. \A a \in Accounts : offline[a] = None /\ (sessions[a] # None => sessions[a] \notin kicked)
  BY <1>1, <1>2 DEF Comes
<1> QED BY <1>3 DEF Known

\* A Player belongs to one session, an account has one online character between
\* two updates, and the databases agree (WorldSession::LogoutPlayer,
\* HandlePlayerLoginOpcode, World::UpdateSessions).
THEOREM CharacterCorrect == Spec => []OneCharacterPerAccount
BY Invariance, OneCharacter, PTL

\* Every session is in the hands of exactly one owner until it is deleted, if no
\* connection is rejected: HandleAuthSession leaks the session of one that is.
THEOREM OwnerCorrect == Spec => [](~MayReject => OneOwner)
BY Invariance, Owner, PTL

\* The login queue of the realm is consistent (World::AddQueuedPlayer,
\* World::RemoveQueuedPlayer).
THEOREM QueueCorrect == Spec => []QueueConsistent
BY Invariance, QueueIs, PTL

\* World::KickAll and the last UpdateSessions delete every session.
THEOREM ShutdownCorrect == Spec => []ShutdownComplete
BY Invariance, ShutdownIs, PTL

\* Nobody's departure, return or replacement leaves a place free that somebody
\* in the queue could have, whatever the limit and whoever is exempt from it.
THEOREM WorkConserving == Spec => NoPlaceWasted
<1>1. IInv /\ Limited /\ [Next]_vars => [limit' = limit => IdlePlaces' <= IdlePlaces]_vars
  BY IdleStep DEF Limited
<1> QED BY <1>1, Invariance, LimitAlways, PTL DEF Spec, NoPlaceWasted
=============================================================================
