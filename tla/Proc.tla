-------------------------------- MODULE Proc --------------------------------
(***************************************************************************)
(* One user process from the inside (htproc/proc.go): the goroutine of     *)
(* run, with signalWait and waitExit; the goroutines of filterLines, one   *)
(* for each output; the goroutine that waits for the command; and the      *)
(* child program, which is external and may do anything a program can.     *)
(*                                                                         *)
(* The durations (startup, exit) are not modelled: a timer may fire as     *)
(* soon as it is set.  Lines are told apart only by what filterLines does  *)
(* with them: the ready line is passed on, every other one is copied.      *)
(*                                                                         *)
(* An operator named for a slip stands before the one it is a wrong        *)
(* version of, and is used nowhere: in its place it makes a property fail. *)
(***************************************************************************)
EXTENDS FiniteSets

VARIABLES
  pc,             \* run: "created", "select", "signal", "waiting", "returned"
  started,        \* run's local started
  signal,         \* the parameter signal of signalWait
  kill,           \* signalWait's local kill
  ready,          \* proc.ready is closed
  panicked,       \* it was closed when it already was, and the server is gone
  exit,           \* proc.exit is closed
  failure,        \* proc.failure is closed
  errors,         \* the errors run has collected
  cleanupFailed,  \* the status run returns
  child,          \* the command: "none", "running", "dead"
  reaped,         \* its exit was collected by cmd.Wait
  killed,         \* SIGKILL was sent to it
  open,           \* per output, the child can still write to it
  lines,          \* what stdout holds: "", a ready line, or "part", a ready
                  \* line that is cut off at the end of the output
  readClosed,     \* cmd.Wait has closed our ends of the pipes
  reader,         \* per output, the goroutine of filterLines
  ended,          \* history: per output, what its reader has ended with: "" not
                  \* yet, "EOF" or an error
  waiter,         \* the goroutine of signalWait
  waitErrors,     \* the errors it has collected
  waitFailed      \* the cleanupFailed it has found

readyVars == <<ready, panicked>>
runVars   == <<pc, started, signal, kill, readyVars, errors, cleanupFailed>>
orders    == <<exit, failure>>
childVars == <<child, killed, open, lines>>
waitVars  == <<waiter, waitErrors, waitFailed>>

vars == <<pc, started, signal, kill, ready, panicked, exit, failure, errors,
          cleanupFailed, child, reaped, killed, open, lines, readClosed, reader,
          ended, waiter, waitErrors, waitFailed>>

Outputs == {"stdout", "stderr"}

Errors == {"startError", "startupTimeouted", "unexpectedExit", "readError",
           "copyError", "socketFailure", "signalError", "waitError", "killSignaled",
           "exitTimeouted"}

(* A goroutine of filterLines reads and copies, is blocked on sending a    *)
(* line, the last line together with the end, the end, or an error, or it  *)
(* is gone.                                                                *)
Failed  == {"readError", "copyError"}
Sending == {"line", "lastLine", "EOF"} \cup Failed

Init ==
  /\ pc = "created" /\ started = FALSE /\ signal = FALSE /\ kill = FALSE
  /\ ready = FALSE /\ panicked = FALSE /\ exit = FALSE /\ failure = FALSE
  /\ errors = {} /\ cleanupFailed = FALSE
  /\ child = "none" /\ reaped = FALSE /\ killed = FALSE
  /\ open = [o \in Outputs |-> TRUE] /\ lines = "" /\ readClosed = FALSE
  /\ reader = [o \in Outputs |-> "off"] /\ ended = [o \in Outputs |-> ""]
  /\ waiter = "off" /\ waitErrors = {} /\ waitFailed = FALSE

-----------------------------------------------------------------------------
(***************************************************************************)
(* run up to the moment it leaves its select loop.                         *)
(***************************************************************************)

Start ==
  /\ pc = "created"
  /\ pc' = "select"
  /\ child' = "running"
  /\ reader' = [o \in Outputs |-> "reading"]
  /\ UNCHANGED <<started, signal, kill, readyVars, errors, cleanupFailed, orders,
                 reaped, killed, open, lines, readClosed, ended, waitVars>>

(* close(proc.ready): closing a closed channel panics.                     *)
CloseReady == ready' = TRUE /\ panicked' = (panicked \/ ready)

CloseUnlessStarted == IF started THEN UNCHANGED readyVars ELSE CloseReady

StartErrorNotReady ==
  /\ pc = "created"
  /\ pc' = "returned"
  /\ errors' = {"startError"}
  /\ UNCHANGED <<started, signal, kill, readyVars, cleanupFailed, orders, childVars,
                 reaped, readClosed, reader, ended, waitVars>>

StartError ==
  /\ pc = "created"
  /\ pc' = "returned"
  /\ CloseReady
  /\ errors' = {"startError"}
  /\ UNCHANGED <<started, signal, kill, cleanupFailed, orders, childVars,
                 reaped, readClosed, reader, ended, waitVars>>

(* waitExit and signalWait are entered, to send SIGTERM or not.            *)
Leave(sig, errs) ==
  /\ pc = "select"
  /\ pc' = IF sig THEN "signal" ELSE "waiting"
  /\ signal' = sig
  /\ waiter' = IF sig THEN "off" ELSE "wait"
  /\ errors' = errs
  /\ UNCHANGED <<started, kill, readyVars, cleanupFailed, orders, childVars,
                 reaped, readClosed, ended, waitErrors, waitFailed>>

(* The ready line: passed on by filterLines, it counts only once, however  *)
(* often the child prints it.                                              *)
ReceiveReady ==
  /\ pc = "select"
  /\ reader["stdout"] = "line"
  /\ reader' = [reader EXCEPT !["stdout"] = "reading"]
  /\ started' = TRUE
  /\ CloseUnlessStarted
  /\ UNCHANGED <<pc, signal, kill, errors, cleanupFailed, orders, childVars,
                 reaped, readClosed, ended, waitVars>>

(* The next state of a reader whose message was received: the last line    *)
(* is followed by the end, the end and an error by the end of the reader.  *)
AfterSend(o) ==
  CASE reader[o] = "line"     -> "reading"
    [] reader[o] = "lastLine" -> "EOF"
    [] OTHER                  -> "closed"

(* outputError: the end of an output is an unexpected exit, and the child  *)
(* is not signaled; any other error is kept, and it is.                    *)
ReceiveEndAsIs(o) ==
  /\ reader[o] \in Sending \ {"line"}
  /\ reader' = [reader EXCEPT ![o] = AfterSend(o)]
  /\ Leave(TRUE, {reader[o]})

ReceiveEnd(o) ==
  /\ reader[o] \in Sending \ {"line"}
  /\ reader' = [reader EXCEPT ![o] = AfterSend(o)]
  /\ IF reader[o] \in Failed
     THEN Leave(TRUE, {reader[o]})
     ELSE Leave(FALSE, {"unexpectedExit"})

StartupTimeout == ~started /\ Leave(TRUE, {"startupTimeouted"}) /\ UNCHANGED reader

ReceiveFailure == failure /\ Leave(TRUE, {"socketFailure"}) /\ UNCHANGED reader

ReceiveExit == exit /\ Leave(TRUE, {}) /\ UNCHANGED reader

-----------------------------------------------------------------------------
(***************************************************************************)
(* signalWait, and the end of waitExit.                                    *)
(***************************************************************************)

(* run returns: whoever waits for ready is released if nobody was yet.     *)
ReturnStatusNotReady(errs, failed) ==
  /\ pc' = "returned"
  /\ errors' = errors \cup errs
  /\ cleanupFailed' = failed
  /\ UNCHANGED <<started, signal, readyVars, orders, reaped, readClosed, reader, ended>>

ReturnStatus(errs, failed) ==
  /\ pc' = "returned"
  /\ errors' = errors \cup errs
  /\ cleanupFailed' = failed
  /\ CloseUnlessStarted
  /\ UNCHANGED <<started, signal, orders, reaped, readClosed, reader, ended>>

SendTerm ==
  /\ pc = "signal"
  /\ pc' = "waiting"
  /\ waiter' = "wait"
  /\ UNCHANGED <<started, signal, kill, readyVars, errors, cleanupFailed, orders,
                 childVars, reaped, readClosed, reader, ended, waitErrors, waitFailed>>

(* The signal could not be sent, as to a process of another user.          *)
SendTermError ==
  /\ pc = "signal"
  /\ ReturnStatus({"signalError"}, TRUE)
  /\ UNCHANGED <<kill, childVars, waitVars>>

(* The first exitTimeout: SIGKILL, which fails for a command that cmd.Wait *)
(* has already collected, while its output is still awaited.               *)
KillChild ==
  /\ pc = "waiting" /\ ~kill /\ ~reaped
  /\ kill' = TRUE
  /\ killed' = TRUE
  /\ UNCHANGED <<pc, started, signal, readyVars, errors, cleanupFailed, orders,
                 child, open, lines, reaped, readClosed, reader, ended, waitVars>>

KillError ==   \* also when the child belongs to another user
  /\ pc = "waiting" /\ ~kill
  /\ kill' = TRUE
  /\ ReturnStatus({"signalError"}, TRUE)
  /\ UNCHANGED <<childVars, waitVars>>

(* The second one.                                                         *)
ExitTimeoutNever == FALSE /\ UNCHANGED vars

ExitTimeout ==
  /\ pc = "waiting" /\ kill
  /\ ReturnStatus({"exitTimeouted"}, TRUE)
  /\ UNCHANGED <<kill, childVars, waitVars>>

NoKillErrors == {}

KillErrors == IF kill THEN {"killSignaled"} ELSE {}

ReceiveStatus ==
  /\ pc = "waiting" /\ waiter = "send"
  /\ waiter' = "done"
  /\ ReturnStatus(waitErrors \cup KillErrors, waitFailed)
  /\ UNCHANGED <<kill, childVars, waitErrors, waitFailed>>

-----------------------------------------------------------------------------
(***************************************************************************)
(* The goroutine of signalWait.                                            *)
(***************************************************************************)

(* cmd.Wait: the exit of the child, by itself or by a signal, is no error  *)
(* here.  When it is seen our ends of the pipes are closed, read or not.   *)
CmdWait ==
  /\ waiter = "wait" /\ child = "dead"
  /\ waiter' = "stdout"
  /\ reaped' = TRUE
  /\ readClosed' = TRUE
  /\ UNCHANGED <<runVars, orders, childVars, reader, ended, waitErrors, waitFailed>>

(* cmd.Wait fails in another way: the child may be there or not.           *)
CmdWaitErrorOnly ==
  /\ waiter = "wait"
  /\ waiter' = "stdout"
  /\ readClosed' = TRUE
  /\ waitErrors' = {"waitError"}
  /\ UNCHANGED <<runVars, orders, childVars, reaped, reader, ended, waitFailed>>

CmdWaitError ==
  /\ waiter = "wait"
  /\ waiter' = "stdout"
  /\ readClosed' = TRUE
  /\ waitErrors' = {"waitError"}
  /\ waitFailed' = TRUE
  /\ UNCHANGED <<runVars, orders, childVars, reaped, reader, ended>>

StdoutOnly(o) == "send"

NextOutput(o) == IF o = "stdout" THEN "stderr" ELSE "send"

(* waitOutput: messages are dropped up to the end of the output.           *)
DrainLine(o) ==
  /\ waiter = o /\ reader[o] = "line"
  /\ reader' = [reader EXCEPT ![o] = AfterSend(o)]
  /\ UNCHANGED <<runVars, orders, childVars, reaped, readClosed, ended, waitVars>>

DrainEnd(o) ==
  /\ waiter = o
  /\ reader[o] \in (Sending \ {"line"}) \cup {"closed"}
  /\ waiter' = NextOutput(o)
  /\ reader' = [reader EXCEPT ![o] = AfterSend(o)]
  /\ waitErrors' = waitErrors \cup (Failed \cap {reader[o]})
  /\ UNCHANGED <<runVars, orders, childVars, reaped, readClosed, ended, waitFailed>>

-----------------------------------------------------------------------------
(***************************************************************************)
(* filterLines.                                                            *)
(***************************************************************************)

(* The last line comes with the end, which is then sent again by itself.   *)
EndOf(found) ==
  IF found \in Failed THEN found ELSE IF found = "line" THEN "" ELSE "EOF"

Read(o, found) ==
  /\ reader[o] = "reading"
  /\ reader' = [reader EXCEPT ![o] = found]
  /\ ended' = [ended EXCEPT ![o] = EndOf(found)]
  /\ UNCHANGED <<runVars, orders, child, killed, open, reaped, readClosed, waitVars>>

ReadLine == lines = "ready" /\ Read("stdout", "line") /\ lines' = ""

ReadLastLine ==
  /\ lines = "part" /\ ~open["stdout"]
  /\ Read("stdout", "lastLine")
  /\ lines' = ""

ReadEOF(o) ==
  /\ ~open[o]
  /\ o = "stdout" => lines = ""
  /\ Read(o, "EOF")
  /\ UNCHANGED lines

(* A read from a pipe that cmd.Wait has closed.                            *)
ReadError(o) == readClosed /\ Read(o, "readError") /\ UNCHANGED lines

(* The copy to our own output fails.                                       *)
CopyError(o) == Read(o, "copyError") /\ UNCHANGED lines

-----------------------------------------------------------------------------
(***************************************************************************)
(* The child program and the environment: the store closes exit, a request *)
(* handler that got past ready closes failure.                             *)
(***************************************************************************)

Child(alive, outputs, out) ==
  /\ child = "running"
  /\ child' = alive
  /\ open' = outputs
  /\ lines' = out
  /\ UNCHANGED <<runVars, orders, killed, reaped, readClosed, reader, ended, waitVars>>

PrintReady ==
  \E out \in {"ready", "part"} :
    open["stdout"] /\ lines = "" /\ Child("running", open, out)

CloseOutput(o) == open[o] /\ Child("running", [open EXCEPT ![o] = FALSE], lines)

(* It exits by itself, of a signal or of SIGKILL.                          *)
Die == Child("dead", [o \in Outputs |-> FALSE], lines)

CloseExit ==
  /\ ~exit
  /\ exit' = TRUE
  /\ UNCHANGED <<runVars, failure, childVars, reaped, readClosed, reader, ended, waitVars>>

CloseFailure ==
  /\ ready /\ ~failure
  /\ failure' = TRUE
  /\ UNCHANGED <<runVars, exit, childVars, reaped, readClosed, reader, ended, waitVars>>

-----------------------------------------------------------------------------

Run ==
  \/ Start \/ StartError \/ ReceiveReady
  \/ \E o \in Outputs : ReceiveEnd(o)
  \/ StartupTimeout \/ ReceiveFailure \/ ReceiveExit
  \/ SendTerm \/ SendTermError
  \/ KillChild \/ KillError \/ ExitTimeout \/ ReceiveStatus

Wait == CmdWait \/ CmdWaitError \/ \E o \in Outputs : DrainLine(o) \/ DrainEnd(o)

Reader == ReadLine \/ ReadLastLine \/ \E o \in Outputs :
            ReadEOF(o) \/ ReadError(o) \/ CopyError(o)

Environment ==
  \/ PrintReady \/ Die \/ \E o \in Outputs : CloseOutput(o)
  \/ CloseExit \/ CloseFailure

Next == Run \/ Wait \/ Reader \/ Environment

Spec == Init /\ [][Next]_vars

(***************************************************************************)
(* Fairness: run goes on, its timers fire, and its select takes a case     *)
(* that stays ready.  Nothing is assumed of the child, of the copying, nor *)
(* of the goroutine that waits.                                            *)
(***************************************************************************)
Fairness ==
  /\ WF_vars(Start \/ StartError)
  /\ WF_vars(ReceiveReady \/ StartupTimeout)
  /\ WF_vars(ReceiveExit)
  /\ WF_vars(ReceiveFailure)
  /\ WF_vars(SendTerm \/ SendTermError)
  /\ WF_vars(KillChild \/ KillError)
  /\ WF_vars(ExitTimeout \/ ReceiveStatus)

FairSpec == Spec /\ Fairness

-----------------------------------------------------------------------------
(***************************************************************************)
(* Correctness.                                                            *)
(***************************************************************************)

TypeOK ==
  /\ pc \in {"created", "select", "signal", "waiting", "returned"}
  /\ {started, signal, kill, ready, panicked, exit, failure, cleanupFailed,
      reaped, killed, readClosed, waitFailed} \subseteq BOOLEAN
  /\ errors \subseteq Errors /\ waitErrors \subseteq Errors
  /\ child \in {"none", "running", "dead"}
  /\ open \in [Outputs -> BOOLEAN]
  /\ lines \in {"", "ready", "part"}
  /\ reader \in [Outputs -> Sending \cup {"off", "reading", "closed"}]
  /\ ended \in [Outputs -> Failed \cup {"", "EOF"}]
  /\ waiter \in Outputs \cup {"off", "wait", "send", "done"}

(* run never returns with the child still there, or not collected, unless  *)
(* the status says so: the store counts on it to stop the server.          *)
NoSilentLeak ==
  pc = "returned" /\ child # "none" /\ ~cleanupFailed => child = "dead" /\ reaped

(* And then each of its outputs was read to its end, or the error that its *)
(* reader has stopped at before the end, be it that cmd.Wait has closed    *)
(* the pipe, is in the status: no output is lost without a word.           *)
OutputAccounted ==
  pc = "returned" /\ child # "none" /\ ~cleanupFailed
    => \A o \in Outputs : \/ ended[o] = "EOF" /\ (o = "stdout" => lines = "")
                          \/ ended[o] \in errors

(* ready is closed once: by run at the start error, at the first ready     *)
(* line, or by waitExit when there was none, whatever the child prints and *)
(* whichever of the timers and the orders come in between.  A second time  *)
(* would be the end of the server and of all of its processes.             *)
ReadyClosedOnce == ~panicked

(* A child that had to be killed never gives a status without an error, so *)
(* procStore.procErrors counts it.                                         *)
KillIsReported == pc = "returned" /\ killed => errors # {}

(* The process, as the rest of htproc sees it, is a ProcLife.              *)
LifePhase ==
  CASE pc = "created" -> "created"
    [] pc = "select" -> IF started THEN "serving" ELSE "starting"
    [] pc \in {"signal", "waiting"} -> "stopping"
    [] pc = "returned" -> "exited"

Life == INSTANCE ProcLife WITH
  phase <- LifePhase, errors <- errors # {}

(* From its creation on: the first step of ProcLife is newProc.            *)
ImplementsLife ==
  [][Life!Next \/ UNCHANGED Life!vars]_vars

(* A process told to exit, or whose request failed, returns its status,    *)
(* whatever the child does: the store and closeAll are not kept waiting.   *)
StopReturns == exit \/ failure ~> pc = "returned"

(* A process is ready, or has given up, in the end.                        *)
ReadyIsDecided == pc = "created" ~> ready

-----------------------------------------------------------------------------
(* "run, exit" of proc_test.go: a process that is told to exit and does so *)
(* at once has no errors in its status, unless copying its output failed.  *)
CleanStopHasNoErrors ==
  [][pc = "waiting" /\ pc' = "returned"
       /\ errors = {} /\ ~kill' /\ ~waitFailed /\ "copyError" \notin waitErrors
       => errors' = {}]_vars
=============================================================================
