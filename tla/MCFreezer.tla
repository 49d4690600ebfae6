------------------------------ MODULE MCFreezer ------------------------------
(* Small ancient stores for TLC: a prunable and a permanent table whose      *)
(* items have different sizes.                                               *)
EXTENDS Freezer

TwoTables == {"bodies", "hashes"}
OneTable  == {"bodies"}
OnlyBodies == {"bodies"}

TwoBlobs ==
    [k \in TwoTables |->
        IF k = "bodies" THEN [v1 |-> <<"b">>, v2 |-> <<"c", "d">>]
                        ELSE [v1 |-> <<"h">>, v2 |-> <<"g">>]]
OneBlob == [k \in OneTable |-> [v1 |-> <<"b">>, v2 |-> <<"c", "d">>]]
EmptyBlob == [k \in OneTable |-> [v1 |-> <<"b">>, v2 |-> <<"c", "d">>, v3 |-> <<>>]]

\* A write or an fsync fails, not both.
OneError == budget.sync = MaxSyncErrors \/ budget.write = MaxWriteErrors
=============================================================================
