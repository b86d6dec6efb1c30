------------------------ MODULE MCBattlegroundQueue -------------------------
(* A party of two on either side, and who asks for which queue.            *)
EXTENDS BattlegroundQueue, TLC

CONSTANTS a1, a2, a3, h1, h2

MCTeamOf == [p \in Players |-> IF p \in {a1, a2, a3} THEN "alliance" ELSE "horde"]
MCParties == {{a1, a2}, {h1, h2}}
MCBgJoins == (Parties \X BgQueues) \cup ({{a3}} \X BgQueues)
MCArenaJoins == (Parties \X Arenas) \cup ({{a1}, {a2}} \X BgQueues)
Symmetry == Permutations({h1, h2})

\* Two arena teams of the same faction.
MCAllianceOnly == [p \in Players |-> "alliance"]
=============================================================================
