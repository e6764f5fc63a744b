----------------------------- MODULE MCSharding -----------------------------
(***************************************************************************)
(* ShardingFerry for TLC: tenant 1 is moved, tenant 2 stays.               *)
(***************************************************************************)
EXTENDS ShardingMove

CONSTANTS v1, v2   \* contents of the primary key table

TwoVersions == {v1, v2}

\* A row of a join table.
Refers(t, p) == [tenant |-> t, ref |-> p]

\* Both joined rows are there; one row of one join table refers to the second.
OneReference ==
    {[join |-> [r \in JoinRows |-> IF r = <<"carts", 1>> THEN Refers(1, 2) ELSE NoRow],
      joined |-> JoinedPks,
      tenant |-> [p \in Tenants |-> v1]]}

\* The target is empty, or holds what an earlier run left.
EmptyOrStale ==
    {[join |-> [r \in JoinRows |-> NoRow], joined |-> {}, tenant |-> [p \in Tenants |-> NoRow]],
     [join |-> [r \in JoinRows |-> NoRow], joined |-> {1},
      tenant |-> [p \in Tenants |-> IF p = ShardingValue THEN v2 ELSE NoRow]]}
=============================================================================
