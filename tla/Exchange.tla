------------------------------ MODULE Exchange ------------------------------
(***************************************************************************)
(* What the auction house and the mail promise together, as far as a crash *)
(* can tell: who owns which money and which item, and on which terms an    *)
(* item is for sale.  It is the abstract specification that the rows of    *)
(* the character database are shown to follow.                             *)
(***************************************************************************)
EXTENDS Integers, FiniteSetsExt

CONSTANTS Chars,        \* the characters
          Items,        \* the items
          None          \* the owner of an item that was destroyed

VARIABLES wealth,       \* the money of a character, wherever it is kept
          holder,       \* the owner of an item, wherever it is kept
          offers,       \* the pairs <<buyer, price>> at which it may be sold
          left          \* the characters that were deleted

vars == <<wealth, holder, offers, left>>

Total(w) == MapThenSumSet(LAMBDA c : w[c], Chars)

Init ==
    /\ wealth \in [Chars -> Nat]
    /\ holder \in [Items -> Chars \cup {None}]
    /\ offers = [x \in Items |-> {}]
    /\ left = {}

\* A character disposes of what is his: he pays, gives or throws away, puts an
\* item up for sale, and has bids put on it.  What is on sale he can withdraw
\* or lose, but not give away; what is not his he leaves alone, unless its
\* owner was deleted.  He may be deleted himself.
Give(a) ==
    /\ \A c \in Chars \ ({a} \cup left) : wealth'[c] >= wealth[c]
    /\ Total(wealth') <= Total(wealth)
    /\ \A x \in Items :
          IF holder[x] = a
          THEN offers[x] = {} \/ holder'[x] \in {a, None}
          ELSE \/ holder'[x] = holder[x] /\ offers'[x] \subseteq offers[x]
               \/ holder[x] \in left
    /\ left' \in {left, left \cup {a}}

\* Items on sale pass from a to b at an agreed price, which b pays in the same
\* step; a receives it but for the fees.  The buyer may throw away what is his
\* at the same time.
Sale(a, b) ==
    \E price \in 1 .. wealth[b] :
        LET sold == {x \in Items : holder[x] = a /\ <<b, price>> \in offers[x]
                                                 /\ holder'[x] # a}
        IN  /\ sold # {}
            /\ wealth'[b] <= wealth[b] - price
            /\ wealth'[a] <= wealth[a] + price
            /\ \A c \in Chars \ ({a, b} \cup left) : wealth'[c] = wealth[c]
            /\ \A c \in left : wealth'[c] <= wealth[c]
            /\ \A x \in Items :
                  IF x \in sold THEN holder'[x] = b /\ offers'[x] = {}
                  ELSE /\ holder'[x] = holder[x] \/ (holder[x] = b /\ holder'[x] = None)
                       /\ offers'[x] \subseteq offers[x]
            /\ left' = left

Next ==
    \/ \E a \in Chars : Give(a)
    \/ \E a, b \in Chars : a # b /\ Sale(a, b)

Spec == Init /\ [][Next]_vars
=============================================================================
