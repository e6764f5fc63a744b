--------------------------- MODULE ShardedTables ---------------------------
(***************************************************************************)
(* sharding/filter.go over the tables of one shard: which rows a batch of  *)
(* the cursor holds (BuildSelect), which logged changes are replayed       *)
(* (ApplicableEvent) and which tables are copied (ApplicableTables), for   *)
(* the three kinds of table there are:                                     *)
(*   - join tables, ordinary sharded tables: a row names its tenant and a  *)
(*     row of the joined table;                                            *)
(*   - the joined table, whose rows never change and are shared by the     *)
(*     tenants that refer to them;                                         *)
(*   - the primary key table, with one row per tenant.                     *)
(* Index hints are left out, as they do not change what a query returns.   *)
(***************************************************************************)
EXTENDS Naturals, Sequences, FiniteSets

CONSTANTS JoinTables,      \* names of the join tables
          JoinIds,         \* primary keys of their rows
          JoinedPks,       \* primary keys of the joined table
          Tenants,         \* values of the sharding key
          ShardingValue,   \* the tenant that is moved
          NullKey,         \* a sharding key that is no integer
          Versions,        \* contents of a row of the primary key table
          NoRow,           \* there is no row with this key
          BatchSize        \* DataIterationBatchSize

JoinedTable == "joined"
PrimaryKeyTable == "tenant"

ASSUME ShardedTablesAssumption ==
    /\ JoinIds \subseteq Nat \ {0} /\ IsFiniteSet(JoinIds)
    /\ JoinedPks \subseteq Nat \ {0} /\ IsFiniteSet(JoinedPks)
    /\ Tenants \subseteq Nat \ {0} /\ IsFiniteSet(Tenants)
    /\ ShardingValue \in Tenants
    /\ NullKey \notin Tenants
    /\ NoRow \notin Versions
    /\ NoRow \notin [tenant : Tenants \cup {NullKey}, ref : JoinedPks \cup {0}]
    /\ JoinTables \cap {JoinedTable, PrimaryKeyTable} = {}
    /\ BatchSize \in Nat \ {0}

AllTables == JoinTables \cup {JoinedTable, PrimaryKeyTable}

JoinRows == JoinTables \X JoinIds

\* A row of a join table: its tenant, and the row of the joined table it refers
\* to, which is left out (0) of the rows of other tenants.
JoinRow == [tenant : {ShardingValue}, ref : JoinedPks] \cup
           [tenant : (Tenants \cup {NullKey}) \ {ShardingValue}, ref : {0}]

\* What a server holds: the join tables, the keys of the joined table (its rows
\* are immutable, so the key stands for the row) and the primary key table.
Contents == [join : [JoinRows -> JoinRow \cup {NoRow}],
             joined : SUBSET JoinedPks,
             tenant : [Tenants -> Versions \cup {NoRow}]]

----------------------------------------------------------------------------
\* ShardedCopyFilter.

OfTenant(row) == row # NoRow /\ row.tenant = ShardingValue

\* The UNION of the join columns of all join tables.
References(data) == {data.join[r].ref : r \in {q \in JoinRows : OfTenant(data.join[q])}}

\* ORDER BY ... LIMIT BatchSize
FirstKeys(S) == {k \in S : Cardinality({j \in S : j < k}) < BatchSize}

\* A batch of a joined table: the limit comes from the subquery on the join
\* tables, so it counts references and not rows.
JoinedBatch(data, lastPk) ==
    FirstKeys({p \in References(data) : p > lastPk}) \cap data.joined

\* A batch of a sharded table.
ShardedBatch(data, t, lastPk) ==
    FirstKeys({i \in JoinIds : OfTenant(data.join[<<t, i>>]) /\ i > lastPk})

\* A batch of a primary key table: the second condition makes the next one empty.
PrimaryKeyBatch(data, lastPk) ==
    {p \in {ShardingValue} : data.tenant[p] # NoRow /\ p > lastPk}

BuildSelect(data, t, lastPk) ==
    IF t = PrimaryKeyTable THEN PrimaryKeyBatch(data, lastPk)
    ELSE IF t = JoinedTable THEN JoinedBatch(data, lastPk)
    ELSE ShardedBatch(data, t, lastPk)

(***************************************************************************)
(* The last row of the batch sets the position of the cursor.  The query   *)
(* for a sharded table joins with the ordered subquery and does not order  *)
(* its own result, so any row may come last.                               *)
(***************************************************************************)
LastOfBatch(t, batch) ==
    {k \in batch : t \in JoinTables \/ \A j \in batch : j <= k}

\* The primary keys of all rows of a table, whatever their tenant.
KeysOf(data, t) ==
    IF t = PrimaryKeyTable THEN {p \in Tenants : data.tenant[p] # NoRow}
    ELSE IF t = JoinedTable THEN data.joined
    ELSE {i \in JoinIds : data.join[<<t, i>>] # NoRow}

\* parseShardingValue: the key of an image that is there has to be an integer.
Unparsable(row) == row # NoRow /\ row.tenant = NullKey

\* Slip: a row that changes its tenant is taken for one of the new tenant.
ApplicableEventOfEither(old, new) ==
    IF Unparsable(old) \/ Unparsable(new) THEN "error"
    ELSE IF OfTenant(old) \/ OfTenant(new) THEN "yes" ELSE "no"

\* Slip: only the after image is looked at.
ApplicableEventOfNew(old, new) ==
    IF Unparsable(old) \/ Unparsable(new) THEN "error"
    ELSE IF OfTenant(new) THEN "yes" ELSE "no"

(***************************************************************************)
(* ApplicableEvent for a row of a join table.  An event of the joined      *)
(* table has no sharding key and is never applicable; the primary key      *)
(* table is not among the tables that are streamed.                        *)
(***************************************************************************)
ApplicableEvent(old, new) ==
    IF Unparsable(old) \/ Unparsable(new) THEN "error"
    ELSE IF old # NoRow /\ new # NoRow /\ OfTenant(old) # OfTenant(new) THEN "error"
    ELSE IF OfTenant(old) \/ OfTenant(new) THEN "yes" ELSE "no"

\* ShardedTableFilter: sharded and joined tables, and the given primary key tables.
ApplicableTables(primaryKeyTables) ==
    {t \in AllTables : t \in JoinTables \cup {JoinedTable} \/ t \in primaryKeyTables}

----------------------------------------------------------------------------
\* Writes to the target.

\* INSERT IGNORE of the rows of the table t with the given keys.
InsertIgnore(data, t, keys, to) ==
    IF t = PrimaryKeyTable
      THEN [to EXCEPT !.tenant = [p \in Tenants |->
               IF p \in keys /\ to.tenant[p] = NoRow THEN data.tenant[p] ELSE to.tenant[p]]]
    ELSE IF t = JoinedTable
      THEN [to EXCEPT !.joined = to.joined \cup keys]
    ELSE [to EXCEPT !.join = [r \in JoinRows |->
             IF r[1] = t /\ r[2] \in keys /\ to.join[r] = NoRow
               THEN data.join[r] ELSE to.join[r]]]

\* The statement an applicable event is replayed with: INSERT IGNORE, or an
\* UPDATE or DELETE whose WHERE clause names the whole before image.
Replay(old, new, row) ==
    IF old = NoRow THEN (IF row = NoRow THEN new ELSE row)
    ELSE (IF row = old THEN new ELSE row)
=============================================================================
