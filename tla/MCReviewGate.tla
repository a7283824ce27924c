----------------------------- MODULE MCReviewGate -----------------------------
(* Gates for checking ReviewGate. *)
EXTENDS ReviewGate

Symmetry == Permutations(Agents) \cup Permutations(Contents)

Gate(rerun, max) == [rerun |-> rerun, max |-> max]

(* With and without dedupe, both with the smallest budget. *)
SmallestBudgets == {Gate(TRUE, 1), Gate(FALSE, 1)}

DedupeWithBudget == {Gate(TRUE, 2)}

===============================================================================
