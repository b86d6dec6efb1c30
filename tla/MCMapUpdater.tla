---------------------------- MODULE MCMapUpdater ----------------------------
(* Small instances of MapUpdater: one plain map, one container and two     *)
(* instances of it.                                                        *)
EXTENDS MapUpdater

CONSTANTS c1

MCParentOf == [i \in Instances |-> c1]
=============================================================================
