---------------------------- MODULE LagThrottler ----------------------------
(***************************************************************************)
(* throttler.go as ghostferry-sharding uses it: the goroutine of           *)
(* LagThrottler.Run keeps the measured replication lag, and whoever is     *)
(* about to write calls WaitForThrottle.  Of the lag only lag > MaxLag is  *)
(* kept.  Nothing pauses the throttler in ghostferry-sharding, which has   *)
(* no control server.                                                      *)
(***************************************************************************)
VARIABLES lagging,    \* lag > MaxLag
          disabled    \* SetDisabled

throttlerVars == <<lagging, disabled>>

ThrottlerInit ==
    /\ lagging = FALSE
    /\ disabled = FALSE

\* The condition on which WaitForThrottle returns.
NotThrottled == disabled \/ ~lagging

\* updateLag; no row and NULL leave the lag as it is.
UpdateLag ==
    /\ lagging' \in BOOLEAN \ {lagging}
    /\ UNCHANGED disabled

SetDisabled(value) ==
    /\ disabled' = value
    /\ UNCHANGED lagging

ThrottlerTypeOK ==
    /\ lagging \in BOOLEAN
    /\ disabled \in BOOLEAN
=============================================================================
