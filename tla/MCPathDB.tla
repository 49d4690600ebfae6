------------------------------ MODULE MCPathDB ------------------------------
(* A chain of five states above the first, and a branch of two on the first  *)
(* of them: long enough for a cap to reach the limit of the histories.       *)
EXTENDS PathDBStore

States == {"g", "s1", "s2", "s3", "s4", "s5", "b2", "b3"}
Tree == [r \in States |-> CASE r \in {"g", "s1"} -> "g" [] r \in {"s2", "b2"} -> "s1"
                             [] r = "s3" -> "s2" [] r = "s4" -> "s3" [] r = "s5" -> "s4"
                             [] r = "b3" -> "b2"]
\* s1 changes both keys; then the two branches change them by turns.
Changes == [r \in States |-> CASE r = "g" -> {} [] r = "s1" -> {"x", "y"}
                                [] r \in {"s2", "s4", "b3"} -> {"x"}
                                [] r \in {"s3", "s5", "b2"} -> {"y"}]

Budget(u, c, r, s, f, d) ==
    [updates |-> u, commits |-> c, recovers |-> r, stops |-> s, crashes |-> f, reads |-> d]

\* Stops and failures, a reader next to the operations, or a second recovery.
Bounds ==
    {Budget(5, 1, 1, 1, 1, 0), Budget(3, 1, 1, 0, 0, 1), Budget(4, 2, 2, 0, 0, 0)}

\* A power failure after states were flushed and histories pruned.
PruneBounds == {Budget(5, 1, 0, 0, 1, 0)}
=============================================================================
