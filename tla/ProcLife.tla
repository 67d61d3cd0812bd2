------------------------------ MODULE ProcLife ------------------------------
(***************************************************************************)
(* The contract of one user process, as the store and the request handlers *)
(* of htproc rely on it: the type runner of htproc/procStore.go, kept by   *)
(* proc of htproc/proc.go.                                                 *)
(*                                                                         *)
(* A process lives through the phases                                      *)
(*                                                                         *)
(*   none      not created yet                                             *)
(*   created   newProc has returned, run has not started the command       *)
(*   starting  the command runs, its ready line has not been read          *)
(*   serving   the ready line was read                                     *)
(*   stopping  run has left its select loop and waits for the exit         *)
(*   exited    run has returned its status                                 *)
(*                                                                         *)
(* and shares three channels with its environment, of which only the fact  *)
(* that they are closed is ever used: ready, exit and failure.             *)
(***************************************************************************)

VARIABLES phase,          \* where the process is in its life
          ready,          \* the channel ready is closed: callers stop waiting
          exit,           \* the channel exit is closed: told to stop
          failure,        \* the channel failure is closed: a request failed
          errors,         \* the status holds at least one error
          cleanupFailed   \* the status says the process may still be there

vars == <<phase, ready, exit, failure, errors, cleanupFailed>>

Phases == {"none", "created", "starting", "serving", "stopping", "exited"}

(* The phases in which run, or the goroutine about to call it, is active.  *)
Alive == {"created", "starting", "serving", "stopping"}

TypeOK == /\ phase \in Phases
          /\ {ready, exit, failure, errors, cleanupFailed} \subseteq BOOLEAN

Init == /\ phase = "none"
        /\ ready = FALSE /\ exit = FALSE /\ failure = FALSE
        /\ errors = FALSE /\ cleanupFailed = FALSE

Create == /\ phase = "none"
          /\ phase' = "created"
          /\ UNCHANGED <<ready, exit, failure, errors, cleanupFailed>>

Start == /\ phase = "created"
         /\ phase' = "starting"
         /\ UNCHANGED <<ready, exit, failure, errors, cleanupFailed>>

(* The command could not be started: nobody is left waiting for ready.     *)
StartError == /\ phase = "created"
              /\ phase' = "exited"
              /\ ready' = TRUE
              /\ errors' = TRUE
              /\ UNCHANGED <<exit, failure, cleanupFailed>>

BecomeReady == /\ phase = "starting"
               /\ phase' = "serving"
               /\ ready' = TRUE
               /\ UNCHANGED <<exit, failure, errors, cleanupFailed>>

(* Told to exit: the only way to stop without an error in the status.      *)
StopRequested == /\ phase \in {"starting", "serving"}
                 /\ exit
                 /\ phase' = "stopping"
                 /\ UNCHANGED <<ready, exit, failure, errors, cleanupFailed>>

(* A failed request, the startup timeout or the end of the output.         *)
StopFailed == /\ phase \in {"starting", "serving"}
              /\ phase' = "stopping"
              /\ errors' = TRUE
              /\ UNCHANGED <<ready, exit, failure, cleanupFailed>>

(* run returns; a failed cleanup never comes without an error.             *)
Finish == /\ phase = "stopping"
          /\ phase' = "exited"
          /\ ready' = TRUE
          /\ \E e, cf \in BOOLEAN : /\ cf => e
                                    /\ errors' = (errors \/ e)
                                    /\ cleanupFailed' = cf
          /\ UNCHANGED <<exit, failure>>

(* The store closes exit, a handler closes failure: each at most once and  *)
(* only on a process that exists.                                          *)
CloseExit == /\ phase # "none" /\ ~exit
             /\ exit' = TRUE
             /\ UNCHANGED <<phase, ready, failure, errors, cleanupFailed>>

CloseFailure == /\ phase # "none" /\ ready /\ ~failure
                /\ failure' = TRUE
                /\ UNCHANGED <<phase, ready, exit, errors, cleanupFailed>>

Next == \/ Create \/ Start \/ StartError \/ BecomeReady
        \/ StopRequested \/ StopFailed \/ Finish
        \/ CloseExit \/ CloseFailure

Spec == Init /\ [][Next]_vars

(***************************************************************************)
(* What the contract promises.                                             *)
(***************************************************************************)

(* A process that ends with an empty list of errors was told to exit, so   *)
(* the failure count of procStore.procErrors misses no process that died   *)
(* by itself.                                                              *)
CleanExitWasAsked == phase = "exited" /\ ~errors => exit

(* Whatever way run returns, ready is closed: a handler that waits in      *)
(* proc.serve for a process that never came up is released.                *)
ExitReleasesWaiters == phase = "exited" => ready

(* A failed cleanup is always accompanied by an error.                     *)
CleanupFailureIsError == cleanupFailed => errors
=============================================================================
