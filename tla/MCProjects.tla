----------------------------- MODULE MCProjects -----------------------------
(* A calendar made under name a gets the href c1, one under b the href c2. *)
EXTENDS Projects, TLC

CONSTANTS a, b, c1, c2

MCSlugOf == [n \in Name |-> IF n = b THEN c2 ELSE c1]

MCSymmetry == Permutations(Handler) \cup Permutations(Project)
=============================================================================
