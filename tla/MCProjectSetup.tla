--------------------------- MODULE MCProjectSetup ---------------------------
(* Small instances of ProjectSetup.                                        *)
EXTENDS ProjectSetup
=============================================================================
