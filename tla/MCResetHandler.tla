--------------------------- MODULE MCResetHandler ---------------------------
(***************************************************************************)
(* The reset handler with the remote control and the Postman, for TLC.     *)
(***************************************************************************)
EXTENDS ResetHandler

TwoThreads == {M, P}
=============================================================================
