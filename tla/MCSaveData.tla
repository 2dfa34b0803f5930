----------------------------- MODULE MCSaveData -----------------------------
(***************************************************************************)
(* Instances of SaveData.  Three File objects are enough for the file of   *)
(* initManagerTask, that of the keyboard, that of the channels or a title, *)
(* and one more that replaces the first.  Files are interchangeable.       *)
(***************************************************************************)
EXTENDS SaveData, TLC

Symmetry == Permutations(File) \union Permutations(Move)
=============================================================================
