----------------------------- MODULE MCRecording ----------------------------
(* Four blocks: a1 follows the genesis block, a2 and b2 follow a1.  a1 adds an  *)
(* account (x) with storage (s) to that of the genesis state (y); a2 removes y  *)
(* again and shares x with a1; b2 leaves the state of a1 alone.                 *)
EXTENDS RecordingProperties, TLC

CONSTANTS g, a1, a2, b2, s, x, y, rg, ra, rc

Nodes == {s, x, y, rg, ra, rc}
InOrder == <<s, x, y, rg, ra, rc>>
Inside == [n \in Nodes |-> CASE n = rg -> {y} [] n = ra -> {x, y} [] n = rc -> {x}
                             [] OTHER -> {}]
Storages == [n \in Nodes |-> IF n = x THEN {s} ELSE {}]
Tree == g :> g @@ a1 :> g @@ a2 :> a1 @@ b2 :> a1
StateRoots == g :> rg @@ a1 :> ra @@ a2 :> rc @@ b2 :> ra
Symmetry == Permutations(Client)
=============================================================================
