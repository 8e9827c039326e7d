--------------------------- MODULE MCFlushProtocol ---------------------------
(* Instances of FlushProtocol for TLC. *)
EXTENDS FlushProtocol

CONSTANTS a, b, c, d, t1, t2

(* Two independent renames. *)
Independent == {<<a, b>>, <<c, d>>}
(* One rename. *)
Single == {<<a, b>>}
(* Both ways, and a rename that lands where it started. *)
BothWays == {<<a, b>>, <<b, a>>, <<a, a>>}
(* b makes room, then a takes its name. *)
Swap == {<<b, c>>, <<a, b>>}

TwoNotes == (1 :> {a, c}) @@ (2 :> {a})
SwapNote == 1 :> {a, b}
Link == 1 :> {a}

TaskSymmetry == Permutations(Task)
=============================================================================
