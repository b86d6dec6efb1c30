SPECIFICATION Spec
CONSTANTS
    alice = alice
    bob = bob
    carol = carol
    sword = sword
    Chars = {alice, bob, carol}
    Items = {sword}
    None = None
    House = House
    MailIds = {1, 2, 3}
    StartGold <- MCStartGold
    StartItems <- MCStartItems
    Deposit = 1
    MaxQueue = 2
    Postage = 1
    Sums = {1}
    Letters <- MCLetters
    MaxMoney = 4
    Races = FALSE
    StartBid = 1
    Buyouts = {0, 2}
    Prices = {1, 2}
    CutPercent = 50
    Leavers = {alice, bob}
    DeleteSellers = FALSE
INVARIANTS ItemsOnce MoneyConserved MemoryStored
PROPERTIES IsExchange
CHECK_DEADLOCK FALSE
