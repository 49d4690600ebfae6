-------------------------------- MODULE MCChain --------------------------------
(* Small trees of blocks for TLC. *)
EXTENDS ChainFreezer

Line   == {"g", "a1", "a2", "a3", "a4"}
Fork   == {"g", "a1", "a2", "b1", "b2"}
Forked == {"g", "a1", "a2", "a3", "b2", "b3"}

LineParent == [a1 |-> "g", a2 |-> "a1", a3 |-> "a2", a4 |-> "a3"]
ForkParent == [a1 |-> "g", a2 |-> "a1", b1 |-> "g", b2 |-> "b1"]
ForkedParent == [a1 |-> "g", a2 |-> "a1", a3 |-> "a2", b2 |-> "a1", b3 |-> "b2"]

=============================================================================
