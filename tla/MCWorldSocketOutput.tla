------------------------ MODULE MCWorldSocketOutput ------------------------
(* Small instances of WorldSocketOutput.                                   *)
EXTENDS WorldSocketOutput
=============================================================================
