SPECIFICATION Spec
CONSTANTS
    p1 = p1
    p2 = p2
    p3 = p3
    x1 = x1
    x2 = x2
    Players = {p1, p2, p3}
    Items = {x1, x2}
    Spells = {enchant}
    None = None
    Traded = 1
    StartGold <- MCStartGold
    StartItems <- MCStartItems
    MaxMoney = 2
    Space = 1
INVARIANTS Paired AcceptedStands NothingDoubled
PROPERTIES TradedAsAgreed
