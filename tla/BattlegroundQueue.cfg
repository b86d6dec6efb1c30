SPECIFICATION Spec
CONSTANTS
    a1 = a1
    a2 = a2
    a3 = a3
    h1 = h1
    h2 = h2
    Players = {a1, a2, a3, h1, h2}
    TeamOf <- MCTeamOf
    Parties <- MCParties
    BgQueues = {wsg}
    Arenas = {}
    Joins <- MCBgJoins
    Leavers = {a1}
    Bgs = {b1}
    MinPlayers = 2
    MaxPlayers = 2
    ArenaSize = 2
    InviteTime = 1
    MayRefuse = FALSE
    None = None
SYMMETRY Symmetry
CHECK_DEADLOCK FALSE
INVARIANTS QueueMatches InvitedExactly TeamFits
PROPERTIES FullInviteTime
