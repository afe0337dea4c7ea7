----------------------------- MODULE MCTaskSync -----------------------------
(***************************************************************************)
(* Instances of TaskSync for TLC.                                          *)
(***************************************************************************)
EXTENDS TaskSync, TLC

\* The values of a field are interchangeable, and so are the handlers.
Symmetry == Permutations(Value) \cup Permutations(Handler)
=============================================================================
