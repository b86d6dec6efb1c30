------------------------------ MODULE MCTrade -------------------------------
(* All the money is with the first player, who starts at the limit; he and *)
(* the second have an item each, and the third has nothing.                *)
EXTENDS Trade

CONSTANTS p1, p2, p3, x1, x2

MCStartGold == [p \in Players |-> IF p = p1 THEN MaxMoney ELSE 0]
MCStartItems == [p \in Players |-> IF p = p1 THEN {x1} ELSE IF p = p2 THEN {x2} ELSE {}]
=============================================================================
