----------------------------- MODULE MCRefresh -----------------------------
(* Constants for Refresh. Two groups that bring the same item overlap: a   *)
(* second trip-wide position makes the amount two. A per-person one is a    *)
(* row of its own for each traveler.                                       *)
EXTENDS Refresh, TLC

Pos(q, dedup, pp) == [quantity |-> q, dedup |-> dedup, per_person |-> pp]

TripWide == {Pos(1, "sum", FALSE)}

SmallPositions == TripWide \cup {Pos(1, "max", TRUE)}

Symmetry == Permutations(Device) \cup Permutations(Group)

=============================================================================
