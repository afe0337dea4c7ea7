------------------------- MODULE MCIncrementalSync -------------------------
(***************************************************************************)
(* Two objects of one calendar.  An object's UID and its first href are    *)
(* the same model value, so that objects can be permuted, and so can the   *)
(* values of their one field.                                              *)
(***************************************************************************)
EXTENDS IncrementalSync

MCCalendarOf == [h \in Href |-> Cal]
MCHomeUID == [h \in Href |-> h]
MCSymmetry == Permutations(Href) \cup Permutations(Value)
=============================================================================
