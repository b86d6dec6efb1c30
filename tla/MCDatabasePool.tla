--------------------------- MODULE MCDatabasePool ---------------------------
(* Small instances of DatabasePool.                                        *)
EXTENDS DatabasePool
=============================================================================
