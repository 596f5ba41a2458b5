-------------------------- MODULE MCPriorityQueue ---------------------------
(* Small instances of the priority queue for TLC. *)
EXTENDS PriorityQueue, TLC

\* Eight pointers, two of them with equal keys.
EightItems == 1..8
EightKeys == <<1, 2, 3, 3, 4, 5, 6, 7>>

SixItems == 1..6
SixKeys == <<1, 2, 3, 3, 4, 5>>
Sizes == 1..4
BothOutcomes == {"abort", "ignore"}
Ignored == {"ignore"}
=============================================================================
