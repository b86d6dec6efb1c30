-------------------------- MODULE MCWorldSessions --------------------------
(* Small instances of WorldSessions.  a1 owns every character.             *)
EXTENDS WorldSessions, TLC

CONSTANT a1

MCOwnerOf == [c \in Chars |-> a1]

\* Without characters the accounts that may have to wait can be exchanged.
QueueSymmetry == Permutations(SessionIds) \cup Permutations(Accounts \ Exempt)
=============================================================================
