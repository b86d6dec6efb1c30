SPECIFICATION FairSpec
CONSTANTS
    a1 = a1
    a2 = a2
    a3 = a3
    h1 = h1
    h2 = h2
    Players = {a1, a2, h1, h2}
    TeamOf <- MCAllianceOnly
    Parties <- MCParties
    BgQueues = {wsg}
    Arenas = {ar}
    Joins <- MCArenaJoins
    Leavers = {a1, a2, h1}
    Bgs = {b1}
    MinPlayers = 1
    MaxPlayers = 2
    ArenaSize = 2
    InviteTime = 1
    MayRefuse = FALSE
    None = None
CHECK_DEADLOCK FALSE
PROPERTIES EndedDeleted
