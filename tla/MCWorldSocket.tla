--------------------------- MODULE MCWorldSocket ---------------------------
(* Small instances of WorldSocket.                                         *)
EXTENDS WorldSocket
=============================================================================
