--------------------------- MODULE ProcLifeProofs ---------------------------
(***************************************************************************)
(* What the contract of a process promises.  The store and the process are *)
(* both shown to keep the contract (ProcsFollowLife in ProcStore,          *)
(* ImplementsLife in Proc), so what is proved here holds of both.          *)
(***************************************************************************)
EXTENDS ProcLife, TLAPS

(* A stop that has left no error was asked for; it is not known yet        *)
(* whether one is added before run returns.                                *)
StoppingWasAsked == phase \in {"stopping", "exited"} /\ ~errors => exit

Inv == TypeOK /\ StoppingWasAsked /\ ExitReleasesWaiters /\ CleanupFailureIsError

(* A process that was not created yet keeps all of it.                     *)
THEOREM InitInv == Init => Inv
BY DEF Init, Inv, TypeOK, Phases, StoppingWasAsked, ExitReleasesWaiters, CleanupFailureIsError

(* Every step of a process, and of those who share it, keeps it.           *)
THEOREM StepInv == Inv /\ [Next]_vars => Inv'
<1> SUFFICES ASSUME Inv, [Next]_vars PROVE Inv'
  OBVIOUS
<1> USE DEF Inv, TypeOK, Phases, StoppingWasAsked, ExitReleasesWaiters, CleanupFailureIsError
<1>1. CASE Create
  BY <1>1 DEF Create
<1>2. CASE Start
  BY <1>2 DEF Start
<1>3. CASE StartError
  BY <1>3 DEF StartError
<1>4. CASE BecomeReady
  BY <1>4 DEF BecomeReady
<1>5. CASE StopRequested
  BY <1>5 DEF StopRequested
<1>6. CASE StopFailed
  BY <1>6 DEF StopFailed
<1>7. CASE Finish
  BY <1>7 DEF Finish
<1>8. CASE CloseExit
  BY <1>8 DEF CloseExit
<1>9. CASE CloseFailure
  BY <1>9 DEF CloseFailure
<1>10. CASE UNCHANGED vars
  BY <1>10 DEF vars
<1> QED
  BY <1>1, <1>2, <1>3, <1>4, <1>5, <1>6, <1>7, <1>8, <1>9, <1>10 DEF Next

(* The invariant holds of every behaviour of a process.                    *)
THEOREM Invariance == Spec => []Inv
BY InitInv, StepInv, PTL DEF Spec

(* A process whose status has no errors was told to exit: procErrors, that *)
(* counts the statuses with errors, misses no process that died by itself. *)
THEOREM CleanExitsWereAsked == Spec => []CleanExitWasAsked
<1>1. Inv => CleanExitWasAsked
  BY DEF Inv, StoppingWasAsked, CleanExitWasAsked
<1> QED
  BY <1>1, Invariance, PTL

(* Whichever way run returns, no handler is left waiting for ready, and a  *)
(* failed cleanup comes with an error.                                     *)
THEOREM ReturnsAreTold == Spec => [](ExitReleasesWaiters /\ CleanupFailureIsError)
<1>1. Inv => ExitReleasesWaiters /\ CleanupFailureIsError
  BY DEF Inv
<1> QED
  BY <1>1, Invariance, PTL
=============================================================================
