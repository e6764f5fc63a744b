--------------------------- MODULE BinlogStreamer ---------------------------
(***************************************************************************)
(* binlog_streamer.go: the goroutine that tails the source's binary log    *)
(* and hands the row changes to the event listeners, of which              *)
(* BinlogWriter.BufferBinlogEvents is the first.                           *)
(*                                                                         *)
(* A position is the number of log entries before it.  `sent' counts the   *)
(* entries given to the listeners, `pos' is lastStreamedBinlogPosition.    *)
(* In the middle of a transaction of several rows pos < sent.              *)
(***************************************************************************)
EXTENDS Databases

VARIABLES streamer,       \* "off", "connected", "running" or "closed"
          sent,           \* log entries handed to the listeners
          pos,            \* lastStreamedBinlogPosition
          targetPos,      \* targetBinlogPosition, 0 as long as it is not set
          stopRequested

streamerVars == <<streamer, sent, pos, targetPos, stopRequested>>

StreamerInit ==
    /\ streamer = "off"
    /\ sent = 0
    /\ pos = 0
    /\ targetPos = 0
    /\ stopRequested = FALSE

\* SHOW MASTER STATUS gives the position the synchronization starts from.
ConnectBinlogStreamerToMysql ==
    /\ streamer = "off"
    /\ streamer' = "connected"
    /\ sent' = committed
    /\ pos' = committed
    /\ UNCHANGED <<targetPos, stopRequested>>

\* Slip: the loop ends as soon as it is asked to.
KeepStreamingUntilAsked == ~stopRequested

\* Slip: the loop waits for a position beyond the last one.
KeepStreamingPastTarget == ~stopRequested \/ pos <= targetPos

\* The condition of the loop of Run.
KeepStreaming == ~stopRequested \/ pos < targetPos

\* Between two transactions the loop looks at its condition.
EventAvailable == sent < committed /\ (sent = pos => KeepStreaming)

(***************************************************************************)
(* One row of the event being handled, or an event without rows for us.    *)
(* The caller says when the listeners accept it.  The position moves with  *)
(* the last row, for ignored events too.                                   *)
(***************************************************************************)
StreamEvent ==
    /\ streamer = "running"
    /\ EventAvailable
    /\ sent' = sent + 1
    /\ pos' = IF binlog[sent + 1].end THEN sent + 1 ELSE pos
    /\ UNCHANGED <<streamer, targetPos, stopRequested>>

\* Run returns, and BinlogWriter.Stop closes the buffer right after it.
StreamerReturns ==
    /\ streamer = "running"
    /\ sent = pos
    /\ ~KeepStreaming
    /\ streamer' = "closed"
    /\ UNCHANGED <<sent, pos, targetPos, stopRequested>>

\* FlushAndStop in two steps, as the streamer's goroutine reads both fields:
\* first the position to reach ...
ReadTargetPosition ==
    /\ targetPos' = committed
    /\ UNCHANGED <<streamer, sent, pos, stopRequested>>

\* ... then the request to stop.
RequestStop ==
    /\ stopRequested' = TRUE
    /\ UNCHANGED <<streamer, sent, pos, targetPos>>

StreamerTypeOK ==
    /\ streamer \in {"off", "connected", "running", "closed"}
    /\ sent \in 0..committed
    /\ pos \in 0..sent
    /\ targetPos \in 0..committed
    /\ stopRequested \in BOOLEAN
=============================================================================
