------------------------- MODULE CopydbVerification -------------------------
(***************************************************************************)
(* The iterative verifier as copydb.go uses it: VerifyBeforeCutover is a   *)
(* done listener of the data iterator, and the cutover verification is     *)
(* started in the background by the control server once the run is over.   *)
(***************************************************************************)
EXTENDS IterativeVerifier, Integers

VARIABLES counter,    \* of backgroundVerificationWg
          deferred,   \* calls of Done the goroutine has still to make
          panicked

copydbVars == <<verificationVars, counter, deferred, panicked>>

CopydbInit ==
    /\ VerificationInit
    /\ counter = 0
    /\ deferred = 0
    /\ panicked = FALSE

(***************************************************************************)
(* VerifyBeforeCutover returns an error.  beforeCutoverVerifyDone is set   *)
(* all the same, and DataIterator.Run does not look at what its listeners  *)
(* return: the run goes on to the cutover.                                 *)
(***************************************************************************)
RunIterativeVerifierAfterRowCopy ==
    /\ BeforeCutoverError
    /\ stage' = "ready"
    /\ todo' = {}
    /\ errored' = FALSE
    /\ UNCHANGED <<sourceVars, target, streamerVars, writerVars, attachedAt, notified, store,
                   scan, scanLast, jobs, before, iteration, failed, result,
                   counter, deferred, panicked>>

\* HandleVerify, after Ferry.Run has returned.  It is accepted once.
StartInBackground ==
    /\ VerifyDuringCutover
    /\ counter' = 1
    /\ deferred' = 2
    /\ UNCHANGED panicked

\* The two deferred functions of the goroutine each call Done.
DeferredDone ==
    /\ stage = "finished"
    /\ deferred > 0
    /\ deferred' = deferred - 1
    /\ counter' = counter - 1
    /\ panicked' = (counter - 1 < 0)
    /\ UNCHANGED verificationVars

VerifierGoesOn ==
    /\ VerifierProgress \/ RunStep \/ CutoverLock \/ ApplicationStep
    /\ UNCHANGED <<counter, deferred, panicked>>

CopydbVerified == stage = "finished" /\ deferred = 0 /\ UNCHANGED copydbVars

CopydbNext ==
    \/ VerifierGoesOn
    \/ RunIterativeVerifierAfterRowCopy
    \/ StartInBackground
    \/ DeferredDone
    \/ CopydbVerified

CopydbSpec == CopydbInit /\ [][CopydbNext]_copydbVars

----------------------------------------------------------------------------
\* Properties.

(***************************************************************************)
(* "If no verification failure occurs, the source and the target are       *)
(* identical" (docs/source/verifiers.rst), for the rows the verifier looks *)
(* at (iterative_verifier.go, VerifyDuringCutover).                        *)
(***************************************************************************)
NoFailureMeansIdentical ==
    result = "correct" => \A r \in RowIds : InScope(r) => target[r] = Source[r]

(***************************************************************************)
(* "Wait for the verifier until it finishes verification after it was      *)
(* started with the StartInBackground" (verifier.go): a verification that  *)
(* has finished leaves a process that can be asked for its result.         *)
(***************************************************************************)
FinishedCanBeAwaited == ~panicked
=============================================================================
