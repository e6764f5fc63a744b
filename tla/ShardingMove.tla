---------------------------- MODULE ShardingMove ----------------------------
(***************************************************************************)
(* A sharding run as a move of one tenant: ShardingFerry implements        *)
(* TenantMove.  The tenant has its rows of the join tables and its row of  *)
(* the primary key table to itself; the rows of the joined table that it   *)
(* refers to it may share with others.                                     *)
(***************************************************************************)
EXTENDS ShardingFerry

PrimaryKeyRow == <<PrimaryKeyTable, ShardingValue>>

TenantRows == JoinRows \cup {PrimaryKeyRow}

\* What a server that holds data knows of the tenant.
TenantView(data) ==
    [rows |-> [r \in TenantRows |->
                  IF r = PrimaryKeyRow THEN data.tenant[ShardingValue]
                  ELSE IF OfTenant(data.join[r]) THEN data.join[r] ELSE NoRow],
     needs |-> References(data)]

\* All that the target holds in the place of these rows, whoever's it is.
TargetRows ==
    [r \in TenantRows |->
        IF r = PrimaryKeyRow THEN target.tenant[ShardingValue] ELSE target.join[r]]

Home == IF cutover = "open" THEN "source" ELSE IF cutover = "locked" THEN "nowhere" ELSE "target"

Tenant == INSTANCE TenantMove WITH
    Rows <- TenantRows,
    current <- TenantView(Master),
    past <- {TenantView(history[p]) : p \in 1..Len(history)},
    rows <- TargetRows,
    shared <- target.joined,
    home <- Home

(***************************************************************************)
(* Every step of a sharding run (sharding.go, Run, with all it starts) is  *)
(* one that TenantMove allows: the lock comes before the unlock and is not *)
(* given back, the unlock finds the tenant complete, and afterwards no     *)
(* batch, no replayed event and no late goroutine changes the target.      *)
(***************************************************************************)
ImplementsTenantMove == Tenant!MoveSpec
=============================================================================
