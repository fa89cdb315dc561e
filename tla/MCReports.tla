----------------------------- MODULE MCReports -----------------------------
(* Instances of Reports for TLC. *)
EXTENDS Reports, TLC

CONSTANTS i1, i2, i3, p1, p2

\* Two incidents of one month, which tie in the lists, and an earlier one.
TwoMonths == i1 :> 1 @@ i2 :> 1 @@ i3 :> 0

TwoGrades == i1 :> "minor" @@ i2 :> "minor" @@ i3 :> "major"

Symmetry == Permutations({i1, i2}) \cup Permutations({p1, p2})

==============================================================================
