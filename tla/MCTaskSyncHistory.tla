------------------------- MODULE MCTaskSyncHistory --------------------------
(***************************************************************************)
(* Instances of TaskSyncHistory for TLC.                                   *)
(***************************************************************************)
EXTENDS TaskSyncHistory, TLC

Symmetry == Permutations(Value) \cup Permutations(Handler)
=============================================================================
