----------------------------- MODULE MCFamilies -----------------------------
EXTENDS Families, TLC

CONSTANTS t1, t2, t3

MCValue == {"open", "done", None} \cup Task

MCRemoteText == {[f \in Field |-> IF f = "status" THEN "open" ELSE p] : p \in Task \cup {None}}

MCSymmetry == Permutations(Handler) \cup Permutations(Task)
=============================================================================
