------------------------------ MODULE MCLabels ------------------------------
EXTENDS Labels, TLC

CONSTANTS t1, t2, h1, h2

\* Two spellings of one name, and another name that sorts behind it.
MCFold == [n \in Spelling |-> IF n = "work" THEN 2 ELSE 1]

MCValue == {s \in SUBSET Spelling : ~({"home", "Home"} \subseteq s)}

MCChoice == {{}, {"home"}, {"Home", "work"}}

MCRemoteText == {[f \in Field |-> s] : s \in {{"home"}, {"home", "work"}}}

MCSymmetry == Permutations(Handler) \cup Permutations(Task)
=============================================================================
