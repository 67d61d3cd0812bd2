----------------------------- MODULE ProcProofs -----------------------------
(***************************************************************************)
(* What run of a process promises, and that it keeps the contract ProcLife *)
(* that the store and the handlers rely on.  The goroutines of run, of     *)
(* signalWait and of filterLines share nothing but their channels: what    *)
(* the status says is true since each of them only goes on after another.  *)
(***************************************************************************)
EXTENDS Proc, TLAPS

(* The goroutine of signalWait is past cmd.Wait, or past an output.        *)
Waited  == Outputs \cup {"send", "done"}
Drained == [o \in Outputs |-> IF o = "stdout" THEN {"stderr", "send", "done"}
                                              ELSE {"send", "done"}]

(* Nothing has happened before the command is started.                     *)
CreatedInv ==
  pc = "created" => /\ child = "none" /\ ~started /\ ~ready
                    /\ ~kill /\ ~killed /\ errors = {} /\ ~cleanupFailed
                    /\ \A o \in Outputs : reader[o] = "off"

(* It takes one order, or one failure, to leave the select loop; only then *)
(* is the exit waited for.                                                 *)
SelectInv ==
  /\ pc = "select" => errors = {}
  /\ pc \in {"created", "select", "signal"} => waiter = "off" /\ ~kill
  /\ pc # "returned" => (ready <=> started)
  /\ pc # "returned" => ~cleanupFailed
  /\ cleanupFailed => errors # {}

(* What the goroutine of signalWait has seen.                              *)
WaitInv ==
  /\ waiter \in Waited /\ ~waitFailed => child = "dead" /\ reaped
  /\ waitFailed => waitErrors # {}
  /\ waiter \in {"off", "wait"} => waitErrors = {}
  /\ \A o \in Outputs : waiter \in Drained[o] => reader[o] \in {"EOF", "closed"}

(* Only the first exit timeout kills, and run then returns an error.       *)
KillInv ==
  /\ killed => kill
  /\ pc = "returned" /\ kill => errors # {}

(* run has its status from the goroutine of signalWait, with its errors.   *)
StatusInv ==
  pc = "returned" /\ child # "none" /\ ~cleanupFailed
    => waiter = "done" /\ waitErrors \subseteq errors

Inv == /\ TypeOK /\ CreatedInv /\ SelectInv /\ WaitInv /\ KillInv /\ StatusInv
       /\ NoSilentLeak /\ ReadyClosedOnce

(* A process that newProc has returned.                                    *)
LEMMA InitInv == Init => Inv
BY DEF Init, Inv, TypeOK, CreatedInv, SelectInv, WaitInv, KillInv, StatusInv,
       NoSilentLeak, ReadyClosedOnce, Outputs, Waited, Drained, Sending, Failed, Errors

(* What a reader does when its message was received.                       *)
LEMMA AfterSends ==
  ASSUME NEW o
  PROVE  /\ reader[o] = "line" => AfterSend(o) = "reading"
         /\ reader[o] = "lastLine" => AfterSend(o) = "EOF"
         /\ reader[o] \notin {"line", "lastLine"} => AfterSend(o) = "closed"
BY Zenon DEF AfterSend

(* While run goes on, ready is closed if and only if it has started.       *)
LEMMA ReadyCloses ==
  ASSUME Inv, pc # "returned", CloseUnlessStarted
  PROVE  ready' = TRUE /\ panicked' = FALSE
<1>1. ready = started /\ panicked = FALSE /\ started \in BOOLEAN
  BY DEF Inv, TypeOK, SelectInv, ReadyClosedOnce
<1>2. CASE started
  BY <1>1, <1>2, Zenon DEF CloseUnlessStarted, readyVars
<1>3. CASE ~started
  BY <1>1, <1>3, Zenon DEF CloseUnlessStarted, CloseReady
<1> QED
  BY <1>1, <1>2, <1>3

(* run, from the start of the command on.                                  *)
LEMMA RunStep == Inv /\ Run => Inv'
<1> SUFFICES ASSUME Inv, Run PROVE Inv'
  OBVIOUS
<1> USE DEF Inv, TypeOK, CreatedInv, SelectInv, WaitInv, KillInv, StatusInv,
            NoSilentLeak, ReadyClosedOnce,
            runVars, readyVars, orders, childVars, waitVars, Outputs, Waited, Drained, Sending,
            Failed, Errors
<1>1. CASE Start
  BY <1>1 DEF Start
<1>2. CASE StartError
  BY <1>2 DEF StartError, CloseReady
<1>3. CASE ReceiveReady
  <2>1. ready' = TRUE /\ panicked' = FALSE
    BY <1>3, ReadyCloses DEF ReceiveReady
  <2> QED
    BY <1>3, <2>1 DEF ReceiveReady
<1>4. ASSUME NEW o \in Outputs, ReceiveEnd(o) PROVE Inv'
  BY <1>4, AfterSends, ZenonT(60) DEF ReceiveEnd, Leave
<1>5. ASSUME NEW errs \in SUBSET Errors, Leave(TRUE, errs), reader' = reader PROVE Inv'
  BY <1>5 DEF Leave
<1>12. CASE StartupTimeout \/ ReceiveFailure \/ ReceiveExit
  BY <1>5, <1>12 DEF StartupTimeout, ReceiveFailure, ReceiveExit
<1>6. CASE SendTerm
  BY <1>6 DEF SendTerm
<1>7. CASE SendTermError
  <2>0. ready' = TRUE /\ panicked' = FALSE
    BY <1>7, ReadyCloses DEF SendTermError, ReturnStatus
  <2>1. TypeOK'
    BY <1>7, <2>0 DEF SendTermError, ReturnStatus
  <2>2. CreatedInv' /\ SelectInv' /\ KillInv'
    BY <1>7, <2>0 DEF SendTermError, ReturnStatus
  <2>3. WaitInv'
    BY <1>7, <2>0 DEF SendTermError, ReturnStatus
  <2>4. StatusInv' /\ NoSilentLeak' /\ ReadyClosedOnce'
    BY <1>7, <2>0 DEF SendTermError, ReturnStatus
  <2> QED
    BY <2>1, <2>2, <2>3, <2>4
<1>8. CASE KillChild
  <2>1. TypeOK'
    BY <1>8 DEF KillChild
  <2>2. CreatedInv' /\ SelectInv' /\ KillInv'
    BY <1>8 DEF KillChild
  <2>3. WaitInv'
    BY <1>8 DEF KillChild
  <2>4. StatusInv' /\ NoSilentLeak' /\ ReadyClosedOnce'
    BY <1>8 DEF KillChild
  <2> QED
    BY <2>1, <2>2, <2>3, <2>4
<1>9. CASE KillError
  <2>0. ready' = TRUE /\ panicked' = FALSE
    BY <1>9, ReadyCloses DEF KillError, ReturnStatus
  <2>1. TypeOK'
    BY <1>9, <2>0 DEF KillError, ReturnStatus
  <2>2. CreatedInv' /\ SelectInv' /\ KillInv'
    BY <1>9, <2>0 DEF KillError, ReturnStatus
  <2>3. WaitInv'
    BY <1>9, <2>0 DEF KillError, ReturnStatus
  <2>4. StatusInv' /\ NoSilentLeak' /\ ReadyClosedOnce'
    BY <1>9, <2>0 DEF KillError, ReturnStatus
  <2> QED
    BY <2>1, <2>2, <2>3, <2>4
<1>10. CASE ExitTimeout
  <2>0. ready' = TRUE /\ panicked' = FALSE
    BY <1>10, ReadyCloses DEF ExitTimeout, ReturnStatus
  <2>1. TypeOK'
    BY <1>10, <2>0 DEF ExitTimeout, ReturnStatus
  <2>2. CreatedInv' /\ SelectInv' /\ KillInv'
    BY <1>10, <2>0 DEF ExitTimeout, ReturnStatus
  <2>3. WaitInv'
    BY <1>10, <2>0 DEF ExitTimeout, ReturnStatus
  <2>4. StatusInv' /\ NoSilentLeak' /\ ReadyClosedOnce'
    BY <1>10, <2>0 DEF ExitTimeout, ReturnStatus
  <2> QED
    BY <2>1, <2>2, <2>3, <2>4
<1>11. CASE ReceiveStatus
  <2>0. ready' = TRUE /\ panicked' = FALSE
    BY <1>11, ReadyCloses DEF ReceiveStatus, ReturnStatus
  <2>1. TypeOK'
    BY <1>11, <2>0 DEF ReceiveStatus, KillErrors, ReturnStatus
  <2>2. CreatedInv' /\ SelectInv' /\ KillInv'
    BY <1>11, <2>0 DEF ReceiveStatus, KillErrors, ReturnStatus
  <2>3. WaitInv'
    BY <1>11, <2>0 DEF ReceiveStatus, KillErrors, ReturnStatus
  <2>4. StatusInv' /\ NoSilentLeak' /\ ReadyClosedOnce'
    BY <1>11, <2>0 DEF ReceiveStatus, KillErrors, ReturnStatus
  <2> QED
    BY <2>1, <2>2, <2>3, <2>4
<1> QED
  BY <1>1, <1>2, <1>3, <1>4, <1>5, <1>6, <1>7, <1>8, <1>9, <1>10, <1>11, <1>12 DEF Run

(* The goroutine of signalWait: it goes on when the child was collected,   *)
(* or tells otherwise, and past an output when it has ended.               *)
LEMMA WaitStep == Inv /\ Wait => Inv'
<1> SUFFICES ASSUME Inv, Wait PROVE Inv'
  OBVIOUS
<1> USE DEF Inv, TypeOK, CreatedInv, SelectInv, WaitInv, KillInv, StatusInv,
            NoSilentLeak, ReadyClosedOnce,
            runVars, readyVars, orders, childVars, waitVars, Outputs, Waited, Drained, Sending,
            Failed, Errors
<1>1. CASE CmdWait
  BY <1>1, ZenonT(60) DEF CmdWait
<1>2. CASE CmdWaitError
  <2>1. TypeOK'
    BY <1>2 DEF CmdWaitError
  <2>2. CreatedInv' /\ SelectInv' /\ KillInv'
    BY <1>2 DEF CmdWaitError
  <2>3. WaitInv'
    BY <1>2 DEF CmdWaitError
  <2>4. StatusInv' /\ NoSilentLeak' /\ ReadyClosedOnce'
    BY <1>2 DEF CmdWaitError
  <2> QED
    BY <2>1, <2>2, <2>3, <2>4
<1>3. ASSUME NEW o \in Outputs, DrainLine(o) PROVE Inv'
  BY <1>3, AfterSends, ZenonT(60) DEF DrainLine
<1>4. ASSUME NEW o \in Outputs, DrainEnd(o) PROVE Inv'
  BY <1>4, AfterSends, ZenonT(60) DEF DrainEnd, NextOutput
<1> QED
  BY <1>1, <1>2, <1>3, <1>4 DEF Wait

(* Readers go on only from reading, so that the end of an output stays.    *)
LEMMA ReaderStep == Inv /\ Reader => Inv'
<1> SUFFICES ASSUME Inv, Reader PROVE Inv'
  OBVIOUS
<1> SUFFICES ASSUME NEW o \in Outputs, NEW found \in Sending, Read(o, found),
                    lines' \in {"", "ready", "part"}
             PROVE  Inv'
  <2>1. lines \in {"", "ready", "part"}
    BY DEF Inv, TypeOK
  <2>2. ReadLine => Read("stdout", "line") /\ lines' = ""
    BY DEF ReadLine
  <2>3. ReadLastLine => Read("stdout", "lastLine") /\ lines' = ""
    BY DEF ReadLastLine
  <2>4. \A o \in Outputs : ReadEOF(o) => Read(o, "EOF") /\ lines' = lines
    BY DEF ReadEOF
  <2>5. \A o \in Outputs : ReadError(o) => Read(o, "readError") /\ lines' = lines
    BY DEF ReadError
  <2>6. \A o \in Outputs : CopyError(o) => Read(o, "copyError") /\ lines' = lines
    BY DEF CopyError
  <2>7. "stdout" \in Outputs /\ {"line", "lastLine", "EOF", "readError", "copyError"} \subseteq Sending
    BY DEF Outputs, Sending, Failed
  <2> QED
    BY <2>1, <2>2, <2>3, <2>4, <2>5, <2>6, <2>7 DEF Reader
  <1> USE DEF Read, Inv, TypeOK, CreatedInv, SelectInv, WaitInv, KillInv, StatusInv,
              NoSilentLeak, ReadyClosedOnce, runVars, readyVars, orders, childVars, waitVars,
              Outputs, Waited, Drained, Sending, Failed
<1>1. TypeOK'
  BY DEF EndOf
<1>2. CreatedInv' /\ SelectInv' /\ KillInv'
  OBVIOUS
<1>3. WaitInv'
  OBVIOUS
<1>4. StatusInv' /\ NoSilentLeak' /\ ReadyClosedOnce'
  OBVIOUS
<1> QED
  BY <1>1, <1>2, <1>3, <1>4

(* Whatever the child does, a collected one does nothing.                  *)
LEMMA EnvironmentStep == Inv /\ (Environment \/ UNCHANGED vars) => Inv'
<1> SUFFICES ASSUME Inv, Environment \/ UNCHANGED vars PROVE Inv'
  OBVIOUS
<1> USE DEF Inv, TypeOK, CreatedInv, SelectInv, WaitInv, KillInv, StatusInv,
            NoSilentLeak, ReadyClosedOnce,
            runVars, readyVars, orders, childVars, waitVars, Outputs, Waited, Drained
<1>1. CASE PrintReady
  <2>1. PICK out \in {"ready", "part"} : Child("running", open, out)
    BY <1>1 DEF PrintReady
  <2> QED
    BY <2>1, ZenonT(60) DEF Child
<1>2. CASE Die
  BY <1>2, ZenonT(60) DEF Die, Child
<1>3. ASSUME NEW o \in Outputs, CloseOutput(o) PROVE Inv'
  BY <1>3, ZenonT(60) DEF CloseOutput, Child
<1>7. ASSUME {exit', failure'} \subseteq BOOLEAN,
             UNCHANGED <<runVars, childVars, reaped, readClosed, reader, ended, waitVars>>
      PROVE  Inv'
  <2>1. TypeOK'
    BY <1>7
  <2>2. CreatedInv' /\ SelectInv' /\ KillInv'
    BY <1>7
  <2>3. WaitInv'
    BY <1>7
  <2>4. StatusInv' /\ NoSilentLeak' /\ ReadyClosedOnce'
    BY <1>7
  <2> QED
    BY <2>1, <2>2, <2>3, <2>4
<1>4. CASE CloseExit
  <2>1. {exit', failure'} \subseteq BOOLEAN
    BY <1>4 DEF CloseExit
  <2> QED
    BY <1>4, <1>7, <2>1 DEF CloseExit
<1>5. CASE CloseFailure
  <2>1. {exit', failure'} \subseteq BOOLEAN
    BY <1>5 DEF CloseFailure
  <2> QED
    BY <1>5, <1>7, <2>1 DEF CloseFailure
<1>6. CASE UNCHANGED vars
  <2>1. {exit', failure'} \subseteq BOOLEAN
    BY <1>6 DEF vars
  <2> QED
    BY <1>6, <1>7, <2>1 DEF vars
<1> QED
  BY <1>1, <1>2, <1>3, <1>4, <1>5, <1>6 DEF Environment

(* All of it holds of every behaviour of a process.                        *)
THEOREM Invariance == Spec => []Inv
<1>1. Inv /\ [Next]_vars => Inv'
  BY RunStep, WaitStep, ReaderStep, EnvironmentStep DEF Next
<1> QED
  BY <1>1, InitInv, PTL DEF Spec

(* Every variable keeps its type, whatever the child and the timers do.    *)
THEOREM TypesKept == Spec => []TypeOK
<1>1. Inv => TypeOK
  BY DEF Inv
<1> QED
  BY <1>1, Invariance, PTL

(* A status without a failed cleanup is true: the child is dead and        *)
(* collected.  So the store, which goes on when it receives such a status, *)
(* leaves nothing behind.                                                  *)
THEOREM CleanStatusIsTrue == Spec => []NoSilentLeak
<1>1. Inv => NoSilentLeak
  BY DEF Inv
<1> QED
  BY <1>1, Invariance, PTL

(* ready is never closed a second time, which would be a panic: whatever   *)
(* the child prints and however run returns.                               *)
THEOREM ReadyIsClosedOnce == Spec => []ReadyClosedOnce
<1>1. Inv => ReadyClosedOnce
  BY DEF Inv
<1> QED
  BY <1>1, Invariance, PTL

(* The store counts every process that had to be killed as a failure.      *)
THEOREM KillsAreReported == Spec => []KillIsReported
<1>1. Inv => KillIsReported
  BY DEF Inv, KillInv, KillIsReported
<1> QED
  BY <1>1, Invariance, PTL

-----------------------------------------------------------------------------
(* How a reader has ended: it is told with its last message, kept by run   *)
(* or by the goroutine of signalWait, whichever receives it.               *)
ReaderInv ==
  /\ \A o \in Outputs :
       /\ reader[o] \in {"off", "reading", "line"} => ended[o] = ""
       /\ reader[o] \in {"lastLine", "EOF"} => ended[o] = "EOF"
       /\ reader[o] \in Failed => ended[o] = reader[o]
       /\ reader[o] = "closed" => ended[o] = "EOF" \/ ended[o] \in errors \cup waitErrors
  /\ ended["stdout"] = "EOF" => ~open["stdout"] /\ lines = ""

(* Nothing was read before the command is started.                         *)
LEMMA ReadersStart == Init => ReaderInv
BY DEF Init, ReaderInv, Outputs, Failed

(* A step that leaves the readers and the pipes alone, and drops no error. *)
LEMMA ReadersStay ==
  ASSUME ReaderInv, UNCHANGED <<reader, ended, lines>>,
         ~open["stdout"] => ~open'["stdout"],
         errors \cup waitErrors \subseteq errors' \cup waitErrors'
  PROVE  ReaderInv'
BY DEF ReaderInv

(* The last message of a reader is received: by run, that has no errors    *)
(* yet, or by the goroutine of signalWait, that adds one.                  *)
LEMMA ReadersEnd ==
  ASSUME Inv, ReaderInv, NEW o \in Outputs, reader[o] \in Sending \cup {"closed"},
         reader' = [reader EXCEPT ![o] = AfterSend(o)], UNCHANGED <<ended, lines, open>>,
         errors \cup waitErrors \cup (Failed \cap {reader[o]}) \subseteq errors' \cup waitErrors'
  PROVE  ReaderInv'
<1>1. \A q \in Outputs : q # o => reader'[q] = reader[q]
  BY DEF Inv, TypeOK
<1>2. reader'[o] = AfterSend(o)
  BY DEF Inv, TypeOK
<1>3. ASSUME NEW q \in Outputs, q # o
      PROVE  /\ reader'[q] \in {"off", "reading", "line"} => ended'[q] = ""
             /\ reader'[q] \in {"lastLine", "EOF"} => ended'[q] = "EOF"
             /\ reader'[q] \in Failed => ended'[q] = reader'[q]
             /\ reader'[q] = "closed" => \/ ended'[q] = "EOF"
                                        \/ ended'[q] \in errors' \cup waitErrors'
  BY <1>1, <1>3 DEF ReaderInv
<1>4. CASE reader[o] = "line"
  BY <1>2, <1>3, <1>4, AfterSends DEF ReaderInv, Failed
<1>5. CASE reader[o] \in {"lastLine", "EOF", "closed"}
  BY <1>2, <1>3, <1>5, AfterSends DEF ReaderInv, Failed
<1>6. CASE reader[o] \in Failed
  BY <1>2, <1>3, <1>6, AfterSends DEF ReaderInv, Failed
<1> QED
  BY <1>4, <1>5, <1>6 DEF Sending

(* A reader has found something: at the end there is no line left in the   *)
(* pipe, and nobody to write one.                                          *)
LEMMA ReadersFind ==
  ASSUME Inv, ReaderInv, NEW o \in Outputs, NEW found \in Sending, Read(o, found), open' = open,
         o = "stdout" /\ EndOf(found) = "EOF" => ~open["stdout"] /\ lines' = "",
         o # "stdout" => lines' = lines
  PROVE  ReaderInv'
<1>1. /\ reader'[o] = found /\ ended'[o] = EndOf(found)
      /\ \A q \in Outputs : q # o => reader'[q] = reader[q] /\ ended'[q] = ended[q]
  BY DEF Inv, TypeOK, Read
<1>2. errors' = errors /\ waitErrors' = waitErrors
  BY DEF Read, runVars, waitVars
<1>3. /\ found = "line" => EndOf(found) = ""
      /\ found \in {"lastLine", "EOF"} => EndOf(found) = "EOF"
      /\ found \in Failed => EndOf(found) = found
      /\ found # "off" /\ found # "reading" /\ found # "closed"
  BY DEF EndOf, Sending, Failed
<1>4. \A q \in Outputs :
       /\ reader'[q] \in {"off", "reading", "line"} => ended'[q] = ""
       /\ reader'[q] \in {"lastLine", "EOF"} => ended'[q] = "EOF"
       /\ reader'[q] \in Failed => ended'[q] = reader'[q]
       /\ reader'[q] = "closed" => ended'[q] = "EOF" \/ ended'[q] \in errors' \cup waitErrors'
  BY <1>1, <1>2, <1>3 DEF ReaderInv
<1>5. ended'["stdout"] = "EOF" => ~open'["stdout"] /\ lines' = ""
  BY <1>1 DEF ReaderInv, Outputs
<1> QED
  BY <1>4, <1>5 DEF ReaderInv

(* Every step keeps how the readers have ended.                            *)
LEMMA ReadersStep == Inv /\ ReaderInv /\ [Next]_vars => ReaderInv'
<1> SUFFICES ASSUME Inv, ReaderInv, [Next]_vars PROVE ReaderInv'
  OBVIOUS
<1> USE DEF runVars, orders, childVars, waitVars
<1>1. CASE Start
  <2>1. \A o \in Outputs : ended'[o] = "" /\ reader'[o] = "reading"
    BY <1>1 DEF Start, ReaderInv, Inv, CreatedInv
  <2>2. ended'["stdout"] # "EOF"
    BY <2>1 DEF Outputs
  <2> QED
    BY <2>1, <2>2 DEF ReaderInv, Failed
<1>2. CASE ReceiveReady
  <2>1. AfterSend("stdout") = "reading"
    BY <1>2, AfterSends DEF ReceiveReady
  <2> QED
    BY <1>2, <2>1, ReadersEnd DEF ReceiveReady, Outputs, Sending, Failed
<1>3. ASSUME NEW o \in Outputs, ReceiveEnd(o) PROVE ReaderInv'
  <2>1. errors = {} /\ waitErrors' = waitErrors
        /\ (reader[o] \in Failed => errors' = {reader[o]}) /\ UNCHANGED <<ended, lines, open>>
    BY <1>3 DEF ReceiveEnd, Leave, Inv, SelectInv
  <2> QED
    BY <1>3, <2>1, ReadersEnd DEF ReceiveEnd, Sending
<1>4. CASE StartError \/ StartupTimeout \/ ReceiveFailure \/ ReceiveExit
  BY <1>4, ReadersStay DEF StartError, StartupTimeout, ReceiveFailure, ReceiveExit, Leave,
     Inv, CreatedInv, SelectInv
<1>5. CASE SendTerm \/ SendTermError \/ KillChild \/ KillError \/ ExitTimeout \/ ReceiveStatus
  BY <1>5, ReadersStay DEF SendTerm, SendTermError, KillChild, KillError, ExitTimeout,
     ReceiveStatus, ReturnStatus
<1>6. CASE CmdWait \/ CmdWaitError
  BY <1>6, ReadersStay DEF CmdWait, CmdWaitError, Inv, WaitInv
<1>7. ASSUME NEW o \in Outputs, DrainLine(o) PROVE ReaderInv'
  BY <1>7, ReadersEnd DEF DrainLine, Sending, Failed
<1>8. ASSUME NEW o \in Outputs, DrainEnd(o) PROVE ReaderInv'
  BY <1>8, ReadersEnd DEF DrainEnd, Sending
<1>9. CASE Reader
  <2>1. CASE ReadLine
    <3>1. EndOf("line") = ""
      BY DEF EndOf, Failed
    <3> QED
      BY <2>1, <3>1, ReadersFind DEF ReadLine, Read, Outputs, Sending
  <2>2. CASE ReadLastLine
    BY <2>2, ReadersFind DEF ReadLastLine, Read, Outputs, Sending
  <2>3. ASSUME NEW o \in Outputs, ReadEOF(o) PROVE ReaderInv'
    BY <2>3, ReadersFind DEF ReadEOF, Read, Sending
  <2>4. ASSUME NEW o \in Outputs, ReadError(o) \/ CopyError(o) PROVE ReaderInv'
    <3>1. EndOf("readError") = "readError" /\ EndOf("copyError") = "copyError"
      BY DEF EndOf, Failed
    <3> QED
      BY <2>4, <3>1, ReadersFind DEF ReadError, CopyError, Read, Sending, Failed
  <2> QED
    BY <1>9, <2>1, <2>2, <2>3, <2>4 DEF Reader
<1>10. CASE PrintReady
  <2>1. ended["stdout"] # "EOF"
    BY <1>10 DEF PrintReady, ReaderInv
  <2> QED
    BY <1>10, <2>1 DEF PrintReady, Child, ReaderInv
<1>11. CASE Die
  BY <1>11, ReadersStay DEF Die, Child, Outputs
<1>12. ASSUME NEW o \in Outputs, CloseOutput(o) PROVE ReaderInv'
  <2>1. ~open["stdout"] => ~open'["stdout"]
    BY <1>12 DEF CloseOutput, Child, Inv, TypeOK, Outputs
  <2> QED
    BY <1>12, <2>1, ReadersStay DEF CloseOutput, Child
<1>13. CASE CloseExit \/ CloseFailure \/ UNCHANGED vars
  BY <1>13, ReadersStay DEF CloseExit, CloseFailure, vars
<1> QED
  BY <1>1, <1>2, <1>3, <1>4, <1>5, <1>6, <1>7, <1>8, <1>9, <1>10, <1>11, <1>12, <1>13
     DEF Next, Run, Wait, Environment

(* With a status that does not report a failed cleanup each output of the  *)
(* child was read to its end, or the error at which its reader has stopped *)
(* is in the status.                                                       *)
THEOREM OutputIsAccountedFor == Spec => []OutputAccounted
<1>1. Inv /\ ReaderInv => OutputAccounted
  <2> SUFFICES ASSUME Inv, ReaderInv, pc = "returned", child # "none", ~cleanupFailed,
                      NEW o \in Outputs
               PROVE  \/ ended[o] = "EOF" /\ (o = "stdout" => lines = "")
                      \/ ended[o] \in errors
    BY DEF OutputAccounted
  <2>1. waiter = "done" /\ waitErrors \subseteq errors
    BY DEF Inv, StatusInv
  <2>2. reader[o] \in {"EOF", "closed"}
    BY <2>1 DEF Inv, WaitInv, Drained, Outputs
  <2> QED
    BY <2>1, <2>2 DEF ReaderInv
<1>2. Inv /\ ReaderInv /\ [Next]_vars => ReaderInv'
  BY ReadersStep
<1> QED
  BY <1>1, <1>2, ReadersStart, Invariance, PTL DEF Spec

-----------------------------------------------------------------------------
(* Every step of the process is a step of ProcLife, or none of it.         *)

LifeStep == Life!Next \/ UNCHANGED Life!vars

(* Where the process is in its life, by the line run is at.                *)
LEMMA LifePhases ==
  /\ pc = "created" => LifePhase = "created"
  /\ pc = "select" /\ started => LifePhase = "serving"
  /\ pc = "select" /\ ~started => LifePhase = "starting"
  /\ pc \in {"signal", "waiting"} => LifePhase = "stopping"
  /\ pc = "returned" => LifePhase = "exited"
BY Zenon DEF LifePhase

(* The phase of the process's life, by where it gets to.                   *)
LEMMA LifePhasesNext ==
  /\ pc' = "created" => LifePhase' = "created"
  /\ pc' = "select" /\ started' => LifePhase' = "serving"
  /\ pc' = "select" /\ ~started' => LifePhase' = "starting"
  /\ pc' \in {"signal", "waiting"} => LifePhase' = "stopping"
  /\ pc' = "returned" => LifePhase' = "exited"
BY Zenon DEF LifePhase

(* Steps of run that return a status end the life of the process: there is *)
(* an error whenever the cleanup may have failed.                          *)
LEMMA Returns ==
  ASSUME Inv, NEW errs, NEW failed \in BOOLEAN, pc \in {"signal", "waiting"},
         ReturnStatus(errs, failed), failed => errs # {}
  PROVE  Life!Next
<1>1. LifePhase = "stopping" /\ LifePhase' = "exited"
  BY LifePhases, LifePhasesNext DEF ReturnStatus
<1>2. /\ ready' = TRUE /\ exit' = exit /\ failure' = failure
      /\ cleanupFailed' = failed
      /\ (errors' # {}) = (errors # {} \/ errs # {})
  BY ReadyCloses DEF ReturnStatus, orders
<1>3. Life!Finish
  BY <1>1, <1>2 DEF Life!Finish
<1> QED
  BY <1>3 DEF Life!Next

(* Every step of a process is a step of its life, or none.                 *)
LEMMA LifeRefined ==
  ASSUME Inv, [Next]_vars
  PROVE  LifeStep
<1> USE DEF runVars, readyVars, orders, childVars, waitVars
<1>1. ASSUME UNCHANGED <<pc, started, ready, exit, failure, errors, cleanupFailed>>
      PROVE  LifeStep
  <2>1. LifePhase' = LifePhase /\ (errors # {})' = (errors # {})
    BY <1>1 DEF LifePhase
  <2> QED
    BY <1>1, <2>1 DEF LifeStep, Life!vars
<1>2. CASE Start
  <2>1. ~started /\ started' = started
    BY <1>2 DEF Start, Inv, CreatedInv
  <2>2. LifePhase = "created" /\ LifePhase' = "starting"
    BY <1>2, <2>1, LifePhases, LifePhasesNext DEF Start
  <2> QED
    BY <1>2, <2>2 DEF Start, LifeStep, Life!Next, Life!Start
<1>3. CASE StartError
  <2>1. LifePhase = "created" /\ LifePhase' = "exited"
    BY <1>3, LifePhases, LifePhasesNext DEF StartError
  <2> QED
    BY <1>3, <2>1 DEF StartError, CloseReady, LifeStep, Life!Next, Life!StartError
<1>4. CASE ReceiveReady
  <2>1. LifePhase' = "serving" /\ ready' = TRUE
        /\ UNCHANGED <<exit, failure, errors, cleanupFailed>>
    BY <1>4, LifePhasesNext, ReadyCloses DEF ReceiveReady
  <2>2. CASE started
    <3>1. LifePhase = "serving" /\ ready
      BY <1>4, <2>2, LifePhases DEF ReceiveReady, Inv, SelectInv
    <3>2. ready' = ready
      BY <2>1, <3>1 DEF Inv, TypeOK
    <3> QED
      BY <2>1, <3>1, <3>2 DEF LifeStep, Life!vars
  <2>3. CASE ~started
    <3>1. LifePhase = "starting"
      BY <1>4, <2>3, LifePhases DEF ReceiveReady
    <3> QED
      BY <2>1, <3>1 DEF LifeStep, Life!Next, Life!BecomeReady
  <2> QED
    BY <2>2, <2>3
<1>5. ASSUME NEW sig \in BOOLEAN, NEW errs, Leave(sig, errs), errs # {} \/ exit
      PROVE  LifeStep
  <2>1. /\ LifePhase \in {"starting", "serving"} /\ LifePhase' = "stopping"
        /\ errors = {} /\ errors' = errs
        /\ UNCHANGED <<ready, exit, failure, cleanupFailed>>
    BY <1>5, LifePhases, LifePhasesNext DEF Leave, Inv, SelectInv
  <2>2. CASE errs # {}
    BY <2>1, <2>2 DEF LifeStep, Life!Next, Life!StopFailed
  <2>3. CASE errs = {}
    BY <1>5, <2>1, <2>3 DEF LifeStep, Life!Next, Life!StopRequested
  <2> QED
    BY <2>2, <2>3
<1>6. ASSUME NEW o \in Outputs, ReceiveEnd(o) PROVE LifeStep
  <2>1. Leave(TRUE, {reader[o]}) \/ Leave(FALSE, {"unexpectedExit"})
    BY <1>6 DEF ReceiveEnd
  <2> QED
    BY <1>5, <2>1
<1>7. CASE StartupTimeout \/ ReceiveFailure
  <2>1. Leave(TRUE, {"startupTimeouted"}) \/ Leave(TRUE, {"socketFailure"})
    BY <1>7 DEF StartupTimeout, ReceiveFailure
  <2> QED
    BY <1>5, <2>1
<1>8. CASE ReceiveExit
  BY <1>5, <1>8 DEF ReceiveExit
<1>9. CASE SendTermError \/ KillError \/ ExitTimeout
  <2>1. pc \in {"signal", "waiting"}
        /\ (ReturnStatus({"signalError"}, TRUE) \/ ReturnStatus({"exitTimeouted"}, TRUE))
    BY <1>9 DEF SendTermError, KillError, ExitTimeout
  <2> QED
    BY <2>1, Returns DEF LifeStep
<1>10. CASE ReceiveStatus
  <2>1. /\ pc = "waiting" /\ waitFailed \in BOOLEAN
        /\ ReturnStatus(waitErrors \cup KillErrors, waitFailed)
        /\ waitFailed => waitErrors \cup KillErrors # {}
    BY <1>10 DEF ReceiveStatus, Inv, TypeOK, WaitInv
  <2> QED
    BY <2>1, Returns DEF LifeStep
<1>11. CASE SendTerm
  <2>1. LifePhase = "stopping" /\ LifePhase' = "stopping"
        /\ UNCHANGED <<ready, exit, failure, errors, cleanupFailed>>
    BY <1>11, LifePhases, LifePhasesNext DEF SendTerm
  <2> QED
    BY <2>1 DEF LifeStep, Life!vars
<1>12. CASE KillChild \/ Wait \/ Reader \/ PrintReady \/ Die \/ \E o \in Outputs : CloseOutput(o)
  <2>1. UNCHANGED <<pc, started, ready, exit, failure, errors, cleanupFailed>>
    BY <1>12 DEF KillChild, Wait, CmdWait, CmdWaitError, DrainLine, DrainEnd, Reader, ReadLine,
       ReadLastLine, ReadEOF, ReadError, CopyError, Read, PrintReady, Die, CloseOutput, Child
  <2> QED
    BY <1>1, <2>1
<1>13. CASE CloseExit \/ CloseFailure
  <2>1. LifePhase' = LifePhase /\ LifePhase # "none" /\ (errors # {})' = (errors # {})
        /\ UNCHANGED <<ready, cleanupFailed>>
    <3>1. UNCHANGED <<pc, started, errors, ready, cleanupFailed>>
      BY <1>13 DEF CloseExit, CloseFailure
    <3>2. LifePhase # "none"
      BY LifePhases DEF Inv, TypeOK
    <3> QED
      BY <3>1, <3>2 DEF LifePhase
  <2>2. CASE CloseExit
    BY <2>1, <2>2 DEF CloseExit, LifeStep, Life!Next, Life!CloseExit
  <2>3. CASE CloseFailure
    BY <2>1, <2>3 DEF CloseFailure, LifeStep, Life!Next, Life!CloseFailure
  <2> QED
    BY <1>13, <2>2, <2>3
<1>14. CASE UNCHANGED vars
  BY <1>1, <1>14 DEF vars
<1> QED
  BY <1>2, <1>3, <1>4, <1>6, <1>7, <1>8, <1>9, <1>10, <1>11, <1>12, <1>13, <1>14
     DEF Next, Run, Environment

(* The process implements the contract that ProcStore is built on.         *)
THEOREM ProcImplementsLife == Spec => ImplementsLife
<1>1. Inv /\ [Next]_vars => [LifeStep]_vars
  BY LifeRefined
<1> QED
  BY <1>1, Invariance, PTL DEF Spec, ImplementsLife, LifeStep
-----------------------------------------------------------------------------
(* What the contract promises holds of a process, therefore.               *)

Contract == INSTANCE ProcLifeProofs WITH
  phase <- LifePhase, errors <- errors # {}

(* A process that ends without an error was told to exit; however run      *)
(* returns, ready is closed and a failed cleanup comes with an error.      *)
THEOREM PromisesKept ==
  Spec => [](Life!CleanExitWasAsked /\ Life!ExitReleasesWaiters /\ Life!CleanupFailureIsError)
<1>1. Init => Contract!Inv
  <2> SUFFICES ASSUME Init PROVE Contract!Inv
    OBVIOUS
  <2>1. LifePhase = "created"
    BY LifePhases DEF Init
  <2> QED
    BY <2>1 DEF Init, Contract!Inv, Contract!TypeOK, Contract!Phases, Contract!StoppingWasAsked,
          Contract!ExitReleasesWaiters, Contract!CleanupFailureIsError
<1>2. Contract!Inv /\ LifeStep => Contract!Inv'
  BY Contract!StepInv DEF LifeStep, Life!Next, Life!vars, Contract!Next, Contract!vars,
     Life!Create, Life!Start, Life!StartError, Life!BecomeReady, Life!StopRequested,
     Life!StopFailed, Life!Finish, Life!CloseExit, Life!CloseFailure,
     Contract!Create, Contract!Start, Contract!StartError, Contract!BecomeReady,
     Contract!StopRequested, Contract!StopFailed, Contract!Finish, Contract!CloseExit,
     Contract!CloseFailure
<1>3. Contract!Inv => /\ Life!CleanExitWasAsked
                      /\ Life!ExitReleasesWaiters /\ Life!CleanupFailureIsError
  BY DEF Contract!Inv, Contract!TypeOK, Contract!Phases, Contract!StoppingWasAsked,
         Contract!ExitReleasesWaiters, Contract!CleanupFailureIsError,
         Life!CleanExitWasAsked, Life!ExitReleasesWaiters, Life!CleanupFailureIsError
<1>4. Inv /\ [Next]_vars => LifeStep
  BY LifeRefined
<1> QED
  BY <1>1, <1>2, <1>3, <1>4, Invariance, PTL DEF Spec
=============================================================================
