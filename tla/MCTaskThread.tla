---------------------------- MODULE MCTaskThread ----------------------------
(***************************************************************************)
(* Instances of TaskThread.  A TaskThread has at least 0x31 slots; two or  *)
(* three are enough for a slot to be reused while others wait, for the     *)
(* slots to run out and for the queue to hold a slot twice.                *)
(***************************************************************************)
EXTENDS TaskThread, TLC

CONSTANTS main, nand, task1, task3, j1, j2, j3, j4

\* Thread priorities of iplSystem.cpp: the main thread, the NAND thread,
\* Task1 and Task3.
AllPriorities ==
    main :> 16 @@ nand :> 18 @@ task1 :> 19 @@ task3 :> 20
OSPriority == [t \in Requester \union {Worker} |-> AllPriorities[t]]
=============================================================================
