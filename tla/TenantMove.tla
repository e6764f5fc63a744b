----------------------------- MODULE TenantMove -----------------------------
(***************************************************************************)
(* What a sharding run promises to those who use the tenant, without       *)
(* replicas, log positions, filters, cursors, goroutines or errors.  The   *)
(* tenant is at home on one server at a time, and between the two on none. *)
(* Its rows arrive on the target in any order, each as it once was on the  *)
(* source.  The target becomes its home only with all of it there and      *)
(* nothing else, and from then on the run leaves it alone.  A run that     *)
(* fails stops somewhere on this way, and may leave the tenant locked.     *)
(***************************************************************************)
CONSTANT Rows   \* rows that only the tenant has

VARIABLES current,   \* rows: the tenant's rows on the source; needs: the shared
                     \* rows it refers to
          past,      \* all values of current so far
          rows,      \* its rows on the target
          shared,    \* the shared rows that are on the target
          home       \* "source", "nowhere" or "target"

moveVars == <<current, past, rows, shared, home>>

MoveInit ==
    /\ past = {current}
    /\ home = "source"

\* The tenant is used.
SourceChanges ==
    /\ home = "source"
    /\ past' = past \cup {current'}
    /\ UNCHANGED <<rows, shared, home>>

\* The run writes to the target what was on the source at some time.
Arrive ==
    /\ home # "target"
    /\ \A r \in Rows : rows'[r] = rows[r] \/ \E view \in past : rows'[r] = view.rows[r]
    /\ \A s \in shared' : s \in shared \/ \E view \in past : s \in view.needs
    /\ shared \subseteq shared'
    /\ UNCHANGED <<current, past, home>>

Lock ==
    /\ home = "source"
    /\ home' = "nowhere"
    /\ UNCHANGED <<current, past, rows, shared>>

Unlock ==
    /\ home = "nowhere"
    /\ \A r \in Rows : rows[r] = current.rows[r]
    /\ current.needs \subseteq shared
    /\ home' = "target"
    /\ UNCHANGED <<current, past, rows, shared>>

MoveNext == SourceChanges \/ Arrive \/ Lock \/ Unlock

MoveSpec == MoveInit /\ [][MoveNext]_moveVars
=============================================================================
