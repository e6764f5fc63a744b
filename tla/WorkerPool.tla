----------------------------- MODULE WorkerPool -----------------------------
(***************************************************************************)
(* WorkerPool.Run of utils.go, on which both passes of the iterative       *)
(* verifier run: one goroutine hands out the indices 0..Items-1, the       *)
(* others process them, and the first to fail ends the hand-out.           *)
(***************************************************************************)
EXTENDS Naturals, Sequences, FiniteSets

CONSTANTS Workers,   \* Concurrency is their number
          Items,     \* the argument n of Run
          Nil        \* the error that is none

ASSUME WorkerPoolAssumption ==
    /\ Workers # {}
    /\ IsFiniteSet(Workers)
    /\ Items \in Nat
    /\ Nil \notin Nat

VARIABLES main,       \* where Run is: "handing", "closed" or "returned"
          next,       \* i, the next index to hand out
          worker,     \* per worker: "waiting", "working", "failing" or "returned"
          item,       \* per worker: the index it was handed last
          results,    \* per worker: the last result, "none", "ok" or "failed"
          errCh,      \* the channel of errors; an error is the index it is about
          err,        \* the error Run returns
          processed,  \* indices processed without error
          failures    \* the errors, in the order they were sent on errCh

poolVars == <<main, next, worker, item, results, errCh, err, processed, failures>>

Index == 0..Items - 1
Error == Index \cup {Nil}

\* Slip: the channel has no room for the last worker.
CapacityShort == Cardinality(Workers) - 1

\* The buffer of errCh.
Capacity == Cardinality(Workers)

PoolInit ==
    /\ main = "handing"
    /\ next = 0
    /\ worker = [w \in Workers |-> "waiting"]
    /\ item = [w \in Workers |-> 0]
    /\ results = [w \in Workers |-> "none"]
    /\ errCh = <<>>
    /\ err = Nil
    /\ processed = {}
    /\ failures = <<>>

\* Slip: one index too many.
HandOutBeyond(w) ==
    /\ main = "handing"
    /\ next <= Items
    /\ worker[w] = "waiting"
    /\ worker' = [worker EXCEPT ![w] = "working"]
    /\ item' = [item EXCEPT ![w] = next]
    /\ next' = next + 1
    /\ UNCHANGED <<main, results, errCh, err, processed, failures>>

\* Slip: the workers count for themselves.
HandOutPerWorker(w) ==
    /\ main = "handing"
    /\ next < Items
    /\ worker[w] = "waiting"
    /\ worker' = [worker EXCEPT ![w] = "working"]
    /\ item' = [item EXCEPT ![w] = IF results[w] = "none" THEN 0 ELSE @ + 1]
    /\ next' = next + 1
    /\ UNCHANGED <<main, results, errCh, err, processed, failures>>

\* The work queue is not buffered: the index goes to a worker that waits for it.
HandOut(w) ==
    /\ main = "handing"
    /\ next < Items
    /\ worker[w] = "waiting"
    /\ worker' = [worker EXCEPT ![w] = "working"]
    /\ item' = [item EXCEPT ![w] = next]
    /\ next' = next + 1
    /\ UNCHANGED <<main, results, errCh, err, processed, failures>>

\* Slip: the hand-out ends, and the error is forgotten.
ReceiveErrorForgets ==
    /\ main = "handing"
    /\ next < Items
    /\ errCh # <<>>
    /\ errCh' = Tail(errCh)
    /\ main' = IF Head(errCh) # Nil THEN "closed" ELSE main
    /\ UNCHANGED <<err, next, worker, item, results, processed, failures>>

\* Slip: the select finds the error again and again, and the loop goes on.
ReceiveErrorGoesOn ==
    /\ main = "handing"
    /\ next < Items
    /\ errCh # <<>>
    /\ UNCHANGED poolVars

\* Either case of the select may be taken when both are ready.
ReceiveError ==
    /\ main = "handing"
    /\ next < Items
    /\ errCh # <<>>
    /\ err' = Head(errCh)
    /\ errCh' = Tail(errCh)
    /\ main' = IF Head(errCh) # Nil THEN "closed" ELSE main
    /\ UNCHANGED <<next, worker, item, results, processed, failures>>

\* The loop is over, and the queue is closed.
CloseQueue ==
    /\ main = "handing"
    /\ next = Items
    /\ main' = "closed"
    /\ UNCHANGED <<next, worker, item, results, errCh, err, processed, failures>>

ProcessSucceeds(w) ==
    /\ worker[w] = "working"
    /\ worker' = [worker EXCEPT ![w] = "waiting"]
    /\ results' = [results EXCEPT ![w] = "ok"]
    /\ processed' = processed \cup {item[w]}
    /\ UNCHANGED <<main, next, item, errCh, err, failures>>

\* Slip: the result is stored without an error only.
ProcessFailsSilently(w) ==
    /\ worker[w] = "working"
    /\ worker' = [worker EXCEPT ![w] = "failing"]
    /\ UNCHANGED <<main, next, item, results, errCh, err, processed, failures>>

ProcessFails(w) ==
    /\ worker[w] = "working"
    /\ worker' = [worker EXCEPT ![w] = "failing"]
    /\ results' = [results EXCEPT ![w] = "failed"]
    /\ UNCHANGED <<main, next, item, errCh, err, processed, failures>>

\* A worker sends one error, or nil when the queue is closed, and returns.
Send(w, e) ==
    /\ Len(errCh) < Capacity
    /\ errCh' = Append(errCh, e)
    /\ worker' = [worker EXCEPT ![w] = "returned"]
    /\ failures' = IF e # Nil THEN Append(failures, e) ELSE failures
    /\ UNCHANGED <<main, next, item, results, err, processed>>

\* Slip: the worker goes on after it has reported the error.
SendErrorAndGoOn(w) ==
    /\ worker[w] = "failing"
    /\ Len(errCh) < Capacity
    /\ errCh' = Append(errCh, item[w])
    /\ worker' = [worker EXCEPT ![w] = "waiting"]
    /\ failures' = Append(failures, item[w])
    /\ UNCHANGED <<main, next, item, results, err, processed>>

SendError(w) ==
    /\ worker[w] = "failing"
    /\ Send(w, item[w])

SendNil(w) ==
    /\ main = "closed"
    /\ worker[w] = "waiting"
    /\ Send(w, Nil)

\* Slip: one receive in place of the loop.
DrainedOnce(ch) == {Head(ch)}

\* What the loop over the closed channel leaves in err: the last error in it.
Drained(ch) ==
    {e \in Error : \/ e = Nil /\ \A k \in 1..Len(ch) : ch[k] = Nil
                   \/ e # Nil /\ \E k \in 1..Len(ch) :
                         ch[k] = e /\ \A j \in k + 1..Len(ch) : ch[j] = Nil}

Return ==
    /\ main = "closed"
    /\ \A w \in Workers : worker[w] = "returned"
    /\ main' = "returned"
    /\ err' \in IF err # Nil THEN {err} ELSE Drained(errCh)
    /\ UNCHANGED <<next, worker, item, results, errCh, processed, failures>>

MainStep == ReceiveError \/ CloseQueue \/ Return
Process(w) == ProcessSucceeds(w) \/ ProcessFails(w)
WorkerStep(w) == Process(w) \/ SendError(w) \/ SendNil(w)

Returned == main = "returned" /\ UNCHANGED poolVars

PoolNext ==
    \/ MainStep
    \/ \E w \in Workers : HandOut(w) \/ WorkerStep(w)
    \/ Returned

PoolSpec == PoolInit /\ [][PoolNext]_poolVars

(***************************************************************************)
(* The goroutines run, and Process returns.  The select looks at both      *)
(* channels again and again.                                               *)
(***************************************************************************)
PoolFairness ==
    /\ WF_poolVars(MainStep)
    /\ WF_poolVars(\E w \in Workers : HandOut(w))
    /\ \A w \in Workers : WF_poolVars(WorkerStep(w))

FairPoolSpec == PoolSpec /\ PoolFairness

----------------------------------------------------------------------------

(***************************************************************************)
(* What verifyStore makes of the results: the first that failed, else the  *)
(* last of those there are.  Without any, it is the zero value.            *)
(***************************************************************************)
CombinedResult ==
    IF \E w \in Workers : results[w] = "failed" THEN "failed"
    ELSE IF \E w \in Workers : results[w] = "ok" THEN "ok"
    ELSE "zero"

----------------------------------------------------------------------------
\* Properties.

\* The variables hold what the locals of Run and its goroutines can hold.
PoolTypeOK ==
    /\ main \in {"handing", "closed", "returned"}
    /\ next \in 0..Items
    /\ worker \in [Workers -> {"waiting", "working", "failing", "returned"}]
    /\ item \in [Workers -> Nat]
    /\ results \in [Workers -> {"none", "ok", "failed"}]
    /\ errCh \in Seq(Error)
    /\ err \in Error
    /\ processed \subseteq Index
    /\ failures \in Seq(Index)

Failed == {failures[k] : k \in 1..Len(failures)}

(***************************************************************************)
(* Run returns no error only if every index was processed without one      *)
(* (iterateAllTables takes nil to mean that every table was compared).     *)
(* The error it returns is the first that was sent if that ended the       *)
(* hand-out, and the last if all indices had been handed out: the loop     *)
(* over the closed channel overwrites err.                                 *)
(***************************************************************************)
ErrorTellsOutcome ==
    main = "returned" =>
        IF err = Nil THEN processed = Index /\ failures = <<>>
        ELSE /\ failures # <<>>
             /\ err = IF next < Items THEN failures[1] ELSE failures[Len(failures)]

(***************************************************************************)
(* A failure is not covered by a later result: verifyStore, which drops    *)
(* Run's error and looks at the last result of each worker, says "ok" only *)
(* if every batch was compared and found equal.                            *)
(***************************************************************************)
ResultsTellOutcome ==
    main = "returned" /\ Items > 0 =>
        CombinedResult = IF processed = Index /\ failures = <<>> THEN "ok" ELSE "failed"

HasIndex(w) == worker[w] \in {"working", "failing"}

\* No index is processed twice (the loop of Run with its two channels).
NoIndexTwice ==
    \A w \in Workers : HasIndex(w) =>
        /\ item[w] \notin processed \cup Failed
        /\ \A v \in Workers \ {w} : HasIndex(v) => item[v] # item[w]

(***************************************************************************)
(* No goroutine of Run waits for ever: a worker that has not returned      *)
(* finds room in errCh for what it still sends, and when all workers have  *)
(* gone with indices left, the select finds an error.                      *)
(***************************************************************************)
NobodyBlocks ==
    /\ \A w \in Workers : worker[w] # "returned" => Len(errCh) < Capacity
    /\ main = "handing" /\ (\A w \in Workers : worker[w] = "returned") => errCh # <<>>

\* What is left to do at most: an index takes two steps, a worker up to two more,
\* Run receives what is in the channel, closes the queue and returns.
Many(s) == Cardinality({w \in Workers : worker[w] = s})

MainStepsLeft == CASE main = "handing" -> 2 [] main = "closed" -> 1 [] OTHER -> 0

StepsLeft ==
    2 * (Items - next) + 2 * Many("waiting") + 3 * Many("working") + 2 * Many("failing")
    + Len(errCh) + MainStepsLeft

(***************************************************************************)
(* No step is in vain: each leaves less to do, so that Run is over after   *)
(* 2 * (Items + Concurrency + 1) steps of all its goroutines at the most,  *)
(* however work, errors and the select interleave.                         *)
(***************************************************************************)
EveryStepCounts == [][StepsLeft' \in 0..StepsLeft - 1]_poolVars

\* Run returns, whichever workers fail and whenever (no send on errCh blocks).
PoolReturns == <>(main = "returned")

----------------------------------------------------------------------------
\* The inductive invariant.

\* The error that the loop over errCh will come to last is the last that was sent.
LastIsLast ==
    IF failures = <<>> THEN \A k \in 1..Len(errCh) : errCh[k] = Nil
    ELSE \E k \in 1..Len(errCh) : /\ errCh[k] = failures[Len(failures)]
                                  /\ \A j \in k + 1..Len(errCh) : errCh[j] = Nil

\* Until one is received, the channel holds the errors as they were sent; that one
\* is the first of them.
ErrorsTravel ==
    /\ main = "handing" => errCh = failures
    /\ main = "closed" => IF err = Nil THEN next = Items /\ LastIsLast ELSE next < Items
    /\ err # Nil /\ next < Items => failures # <<>> /\ err = failures[1]

\* Every index handed out is in hand, processed or failed.
IndicesAccounted ==
    0..next - 1 = {item[w] : w \in {v \in Workers : HasIndex(v)}} \cup processed \cup Failed

\* A worker that failed does not work again, one that was never handed anything
\* has no result, and the hand-out ends early for an error only.
PoolPhases ==
    /\ main = "handing" => /\ err = Nil
                           /\ \A w \in Workers : worker[w] = "returned" => results[w] = "failed"
    /\ main = "returned" => /\ \A w \in Workers : worker[w] = "returned"
                            /\ err = Nil => next = Items /\ failures = <<>>
                            /\ err # Nil /\ next = Items =>
                                  failures # <<>> /\ err = failures[Len(failures)]
    /\ \A w \in Workers : worker[w] = "failing" => results[w] = "failed"
    /\ \A w \in Workers : worker[w] = "working" => results[w] # "failed"
    /\ \A w \in Workers : worker[w] = "waiting" => results[w] # "failed"
    /\ \A w \in Workers : HasIndex(w) => item[w] < next
    /\ (\E w \in Workers : results[w] = "failed") <=>
          failures # <<>> \/ \E w \in Workers : worker[w] = "failing"
    /\ processed # {} => \E w \in Workers : results[w] # "none"

\* What is in the channel was sent by workers that have returned, one value each.
ChannelFits == Len(errCh) <= Cardinality({w \in Workers : worker[w] = "returned"})

PoolInv == PoolTypeOK /\ ErrorsTravel /\ IndicesAccounted /\ PoolPhases /\ NoIndexTwice
           /\ ChannelFits
=============================================================================
