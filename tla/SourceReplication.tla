------------------------- MODULE SourceReplication -------------------------
(***************************************************************************)
(* The source of a sharding run: the master the application writes to,     *)
(* the server Ghostferry reads, which may be a replica of it, and          *)
(* wait_until_replica_is_caught_up_to_master.go.                           *)
(*                                                                         *)
(* `history' holds the contents of the master after each of its            *)
(* transactions; a log position is an index of it.  The replica has        *)
(* applied a prefix, and its heartbeat table tells a position that it has  *)
(* reached.  The application is outside the repository.  It keeps to what  *)
(* filter.go asks for: a row of the joined table is written with the first *)
(* reference to it, is never changed, and is deleted only when it is no    *)
(* longer referred to.                                                     *)
(***************************************************************************)
EXTENDS ShardedTables

CONSTANTS InitialContents,   \* what the master may hold at first
          MaxChanges         \* bound: transactions of the application

\* The tenant exists, and every reference of it leads to a row.
WellFormed(data) ==
    /\ data.tenant[ShardingValue] # NoRow
    /\ References(data) \subseteq data.joined

ASSUME SourceReplicationAssumption ==
    /\ InitialContents \subseteq Contents
    /\ \A data \in InitialContents : WellFormed(data)
    /\ MaxChanges \in Nat

VARIABLES history,          \* contents of the master, oldest first
          replicated,       \* position up to which the server that is read has them
          sourceIsReplica,  \* that server is a read-only replica
          cutover,          \* "open", "locked", or "moved": writes go to the target
          masterPos         \* targetMasterPos of Wait, 0 as long as it is not read

replicationVars == <<history, replicated, sourceIsReplica, cutover, masterPos>>

Master == history[Len(history)]
Source == history[replicated]

ReplicationInit ==
    /\ history \in {<<data>> : data \in InitialContents}
    /\ replicated = 1
    /\ sourceIsReplica \in BOOLEAN
    /\ cutover = "open"
    /\ masterPos = 0

----------------------------------------------------------------------------
\* The application.

Commit(data) ==
    /\ cutover = "open"
    /\ Len(history) <= MaxChanges
    /\ data # Master
    /\ WellFormed(data)
    /\ history' = Append(history, data)
    /\ replicated' = IF sourceIsReplica THEN replicated ELSE Len(history) + 1
    /\ UNCHANGED <<sourceIsReplica, cutover, masterPos>>

\* A row of a join table is inserted or updated, with the joined row it refers to.
WriteJoinRow(r, row) ==
    Commit([Master EXCEPT !.join = [Master.join EXCEPT ![r] = row],
                          !.joined = Master.joined \cup ({row.ref} \ {0})])

\* A row of a join table is deleted; the joined row it referred to is kept for
\* other tenants, or deleted as well.
DeleteJoinRow(r, gone) ==
    /\ Master.join[r] # NoRow
    /\ gone \subseteq {Master.join[r].ref}
    /\ Commit([Master EXCEPT !.join = [Master.join EXCEPT ![r] = NoRow],
                             !.joined = Master.joined \ gone])

UpdateTenant(v) ==
    Commit([Master EXCEPT !.tenant = [Master.tenant EXCEPT ![ShardingValue] = v]])

ApplicationCommits ==
    \/ \E r \in JoinRows, row \in JoinRow : WriteJoinRow(r, row)
    \/ \E r \in JoinRows, gone \in SUBSET JoinedPks : DeleteJoinRow(r, gone)
    \/ \E v \in Versions : UpdateTenant(v)

----------------------------------------------------------------------------
\* MySQL replication.

Replicate ==
    /\ replicated < Len(history)
    /\ replicated' = replicated + 1
    /\ UNCHANGED <<history, sourceIsReplica, cutover, masterPos>>

----------------------------------------------------------------------------
\* WaitUntilReplicaIsCaughtUpToMaster.

\* ShowMasterStatusBinlogPosition(MasterDB)
ReadMasterPosition ==
    /\ masterPos' = Len(history)
    /\ UNCHANGED <<history, replicated, sourceIsReplica, cutover>>

\* Slip: one position short.
IsAlmostThere == \E current \in 1..replicated : current + 1 >= masterPos

\* The heartbeat is written on the master and may lag behind what is replicated.
IsCaughtUp == \E current \in 1..replicated : current >= masterPos

\* The answer to the CutoverLock and CutoverUnlock callbacks.
SetCutover(state) ==
    /\ cutover' = state
    /\ UNCHANGED <<history, replicated, sourceIsReplica, masterPos>>

ReplicationTypeOK ==
    /\ history \in Seq(Contents)
    /\ replicated \in 1..Len(history)
    /\ sourceIsReplica \in BOOLEAN
    /\ cutover \in {"open", "locked", "moved"}
    /\ masterPos \in 0..Len(history)
=============================================================================
