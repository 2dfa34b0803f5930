----------------------------- MODULE MCPostman -----------------------------
(***************************************************************************)
(* The main thread and the Postman, for TLC.                               *)
(***************************************************************************)
EXTENDS Postman

TwoThreads == {M, P}
=============================================================================
