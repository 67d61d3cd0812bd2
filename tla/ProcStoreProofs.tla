-------------------------- MODULE ProcStoreProofs ---------------------------
(***************************************************************************)
(* Theorems about ProcStore, for every number of users, processes and      *)
(* handlers and every value of the limits.  The second part is about what  *)
(* the store decides by the clock: which processes leave the map, by the   *)
(* times they were accessed, and who is banned, by the times of the        *)
(* failures.                                                               *)
(***************************************************************************)
EXTENDS ProcStore, FiniteSetTheorems, TLAPS

(* Dropping old failures leaves a list of failures.                        *)
LEMMA DiscardType ==
  ASSUME NEW fs \in Seq(Time), NEW t \in Int
  PROVE  Discard(fs, t) \in Seq(Time)
<1> DEFINE old == {i \in 1..Len(fs) : \A j \in 1..i : t - fs[j] >= RecoveryTime}
<1>0. Len(fs) \in Nat
  BY DEF Time
<1>1. IsFiniteSet(1..Len(fs))
  BY <1>0, FS_Interval
<1>2. IsFiniteSet(old) /\ Cardinality(old) \in Nat
  BY <1>1, FS_Subset, FS_CardinalityType
<1>3. ASSUME NEW n \in Nat
      PROVE  SubSeq(fs, n + 1, Len(fs)) \in Seq(Time)
  OBVIOUS
<1> QED
  BY <1>2, <1>3 DEF Discard
-----------------------------------------------------------------------------
(***************************************************************************)
(* The inductive invariant.  None of the properties is inductive by        *)
(* itself: they lean on how the maps, the channels and the phases of the   *)
(* processes go together.                                                  *)
(***************************************************************************)

(* Nothing was closed on a process that does not exist; any other belongs  *)
(* to a user.                                                              *)
LifeInv ==
  \A p \in Procs :
    /\ phase[p] = "none" => p \notin exitClosed \cup readyClosed \cup failureClosed
    /\ phase[p] # "none" => owner[p] \in Users

(* A user's entry is a process created for that user (so no process has    *)
(* two entries), and while the run loop is at work, one not yet reported.  *)
MapInv ==
  \A u \in Mapped :
    /\ owner[procs[u]] = u
    /\ phase[procs[u]] # "none"
    /\ store = "running" => phase[procs[u]] \in Unreported

(* How far the shutdown is.                                                *)
ShutdownInv ==
  /\ store # "returned" => result = "none"
  /\ store = "running" => waiter = "off"
  /\ store = "closing" => exit

(* A handler past getCreate holds an existing process of its user.         *)
HandlerInv ==
  \A c \in Clients :
    /\ pc[c] \in {"getCreate", "waitReady", "proxy"} => user[c] \in Users
    /\ pc[c] \in {"waitReady", "proxy"} =>
         /\ handle[c] \in Procs
         /\ phase[handle[c]] # "none"
         /\ owner[handle[c]] = user[c]
    /\ pc[c] = "proxy" => handle[c] \in readyClosed

Inv ==
  /\ TypeOK /\ LifeInv /\ MapInv /\ ShutdownInv /\ HandlerInv
  /\ MappedProcsOpen /\ BannedHasNoProc /\ NoOrphan /\ ShutdownTellsAll

(* The store starts with empty maps and no process.                        *)
THEOREM InitInv == Init => Inv
<1> SUFFICES ASSUME Init PROVE Inv
  OBVIOUS
<1> USE DEF Init
<1>1. TypeOK
  <2>1. failures \in [Users -> Seq(Time)]
    OBVIOUS
  <2>2. status \in [Procs -> Statuses]
    BY DEF Statuses, NoError
  <2> QED
    BY <2>1, <2>2, DurationAssumption DEF TypeOK, Time, Never, Unreported
<1>2. LifeInv /\ HandlerInv /\ ShutdownInv
  BY DEF LifeInv, HandlerInv, ShutdownInv
<1>3. Mapped = {}
  BY DEF Mapped
<1>4. MapInv /\ MappedProcsOpen /\ BannedHasNoProc /\ NoOrphan /\ ShutdownTellsAll
  BY <1>3 DEF MapInv, MappedProcsOpen, BannedHasNoProc, NoOrphan, ShutdownTellsAll,
              Unreported, Alive, Never
<1> QED
  BY <1>1, <1>2, <1>4 DEF Inv
-----------------------------------------------------------------------------
(* What removing processes does to the maps.                               *)
LEMMA RemovalType ==
  ASSUME TypeOK, NEW S
  PROVE  /\ ProcsWithout(S) \in [Users -> Procs \cup {NoProc}]
         /\ AccessedWithout(S) \in [Users -> Time \cup {Never}]
         /\ ClosedWith(S) \subseteq Procs
BY DEF TypeOK, ProcsWithout, AccessedWithout, ClosedWith, Mapped

(* Counting a failure keeps the types of the failures and the bans.        *)
LEMMA CountFailureType ==
  ASSUME TypeOK, NEW u \in Users, CountFailure(u)
  PROVE  /\ failures' \in [Users -> Seq(Time)]
         /\ banned' \in [Users -> Time \cup {Never}]
<1>1. now \in Int /\ failures[u] \in Seq(Time)
  BY DEF TypeOK, Time
<1>2. Discard(failures[u], now) \in Seq(Time)
  BY <1>1, DiscardType
<1>3. Append(Discard(failures[u], now), now) \in Seq(Time)
  BY <1>2 DEF TypeOK
<1>4. << >> \in Seq(Time)
  OBVIOUS
<1> QED
  BY <1>2, <1>3, <1>4 DEF CountFailure, TypeOK

(* The map holds finitely many processes.                                  *)
LEMMA MappedFinite == TypeOK => IsFiniteSet(Mapped) /\ Cardinality(Mapped) \in Nat
BY UsersAssumption, FS_Subset, FS_CardinalityType DEF Mapped

(* Every action keeps the types.                                           *)
LEMMA TypeStep == Inv /\ [Next]_vars => TypeOK'
<1> SUFFICES ASSUME Inv, [Next]_vars PROVE TypeOK'
  OBVIOUS
<1> USE DEF Inv, Time, mapVars, banVars, runVars, lifeVars, clientVars
<1>1. ASSUME NEW c \in Clients, NEW u \in Users, Request(c, u) PROVE TypeOK'
  BY <1>1 DEF TypeOK, Request
<1>2. ASSUME NEW c \in Clients, GetClosed(c) PROVE TypeOK'
  BY <1>2 DEF TypeOK, GetClosed, Return
<1>3. ASSUME NEW c \in Clients, GetExisting(c) PROVE TypeOK'
  <2>1. user[c] \in Users
    BY <1>3 DEF HandlerInv, GetExisting, Asks
  <2> QED
    BY <1>3, <2>1 DEF TypeOK, GetExisting, HandOut
<1>4. ASSUME NEW c \in Clients, GetBanned(c) PROVE TypeOK'
  BY <1>4 DEF TypeOK, GetBanned, Return
<1>5. ASSUME NEW c \in Clients, NEW p \in Procs, GetNew(c, p) PROVE TypeOK'
  <2>1. user[c] \in Users
    BY <1>5 DEF HandlerInv, GetNew, Asks
  <2>2. PICK gone : /\ procs' = [ProcsWithout(gone) EXCEPT ![user[c]] = p]
                    /\ accessed' = [AccessedWithout(gone) EXCEPT ![user[c]] = now]
                    /\ exitClosed' = ClosedWith(gone)
    BY <1>5 DEF GetNew
  <2>3. /\ procs' \in [Users -> Procs \cup {NoProc}]
        /\ accessed' \in [Users -> Time \cup {Never}]
        /\ exitClosed' \subseteq Procs
    BY <2>2, RemovalType DEF TypeOK
  <2> QED
    BY <1>5, <2>1, <2>3 DEF TypeOK, GetNew, HandOut, Unbanned, Unreported, Alive
<1>6. ASSUME NEW c \in Clients, AwaitReady(c) PROVE TypeOK'
  BY <1>6 DEF TypeOK, AwaitReady
<1>7. ASSUME NEW c \in Clients, ProxyOk(c) \/ ProxyFailed(c) PROVE TypeOK'
  BY <1>7, ZenonT(60) DEF TypeOK, ProxyOk, ProxyFailed, Return, HandlerInv
<1>8. ASSUME NEW p \in Procs, Process(p) PROVE TypeOK'
  <2>1. /\ phase' \in [Procs -> Unreported \cup {"none", "reported"}]
        /\ readyClosed' \subseteq Procs
    BY <1>8 DEF TypeOK, Process, Start, StartError, BecomeReady, StopRequested,
                StopOnFailure, StartupTimeout, UnexpectedExit, StopWithError,
                Finish, Proceed, Unreported, Alive
  <2>2. status' \in [Procs -> Statuses]
    <3>1. OneError \in Statuses
      BY DEF OneError, Statuses
    <3>2. CASE Finish(p)
      <4>1. PICK e \in BOOLEAN, cf \in BOOLEAN :
              status' = [status EXCEPT ![p] = [errors |-> status[p].errors \/ e,
                                               cleanupFailed |-> cf]]
        BY <3>2 DEF Finish
      <4>2. [errors |-> status[p].errors \/ e, cleanupFailed |-> cf] \in Statuses
        BY DEF Statuses
      <4> QED
        BY <4>1, <4>2 DEF TypeOK
    <3>3. CASE ~Finish(p)
      BY <1>8, <3>1, <3>3
         DEF TypeOK, Process, Start, StartError, BecomeReady, StopRequested,
             StopOnFailure, StartupTimeout, UnexpectedExit, StopWithError
    <3> QED
      BY <3>2, <3>3
  <2> QED
    BY <1>8, <2>1, <2>2
       DEF TypeOK, Process, Start, StartError, BecomeReady, StopRequested,
           StopOnFailure, StartupTimeout, UnexpectedExit, StopWithError,
           Finish, Proceed
<1>9. ASSUME NEW p \in Procs, ExitStatus(p) PROVE TypeOK'
  <2>1. owner[p] \in Users
    BY <1>9 DEF LifeInv, ExitStatus
  <2>2. /\ failures' \in [Users -> Seq(Time)]
        /\ banned' \in [Users -> Time \cup {Never}]
    BY <1>9, <2>1, CountFailureType DEF ExitStatus, TypeOK
  <2>3. /\ procs' \in [Users -> Procs \cup {NoProc}]
        /\ accessed' \in [Users -> Time \cup {Never}]
        /\ exitClosed' \subseteq Procs
    BY <1>9, RemovalType DEF ExitStatus
  <2> QED
    BY <1>9, <2>2, <2>3 DEF TypeOK, ExitStatus
<1>10. ASSUME CheckIdle PROVE TypeOK'
  <2>1. idleCheckAt \in Int /\ \A u \in Users : failures[u] \in Seq(Time)
    BY DEF TypeOK
  <2>2. /\ failures' \in [Users -> Seq(Time)]
        /\ banned' \in [Users -> Time \cup {Never}]
    BY <1>10, <2>1, DiscardType DEF CheckIdle, CleanupFailures, TypeOK
  <2>3. /\ procs' \in [Users -> Procs \cup {NoProc}]
        /\ accessed' \in [Users -> Time \cup {Never}]
        /\ exitClosed' \subseteq Procs
    BY <1>10, RemovalType DEF CheckIdle
  <2> QED
    BY <1>10, <2>2, <2>3, DurationAssumption DEF TypeOK, CheckIdle
<1>11. ASSUME CloseAll PROVE TypeOK'
  BY <1>11, MappedFinite, RemovalType DEF TypeOK, CloseAll
<1>12. ASSUME NEW p \in Procs, WaitExit(p) PROVE TypeOK'
  <2>1. waiter' \in {"waiting", "failed"} /\ awaited > 0
    BY <1>12 DEF WaitExit, StatusesDue
  <2> QED
    BY <1>12, <2>1 DEF TypeOK, WaitExit
<1>13. ASSUME AllReported \/ CleanupFailed \/ CloseTimeout PROVE TypeOK'
  BY <1>13 DEF TypeOK, AllReported, CleanupFailed, CloseTimeout, StoreReturn
<1>14. ASSUME Server \/ Tick PROVE TypeOK'
  <2>1. CASE Server
    BY <2>1 DEF TypeOK, Server, ServerStop, StoreFailed
  <2>2. CASE Tick
    BY <2>2 DEF TypeOK, Tick
  <2> QED
    BY <1>14, <2>1, <2>2
<1>15. ASSUME UNCHANGED vars PROVE TypeOK'
  BY <1>15 DEF TypeOK, vars
<1> QED
  BY <1>1, <1>2, <1>3, <1>4, <1>5, <1>6, <1>7, <1>8, <1>9, <1>10, <1>11,
     <1>12, <1>13, <1>14, <1>15 DEF Next, Handler, Store

(* Only processes of the map are told to exit, and they exist.             *)
LEMMA ClosedExist ==
  ASSUME Inv, NEW S, NEW p \in ClosedWith(S)
  PROVE  p \in Procs /\ phase[p] # "none"
BY DEF Inv, TypeOK, LifeInv, MapInv, ClosedWith, Mapped

(* Channels are closed and owners set only for processes that exist.       *)
LEMMA LifeStep == Inv /\ [Next]_vars => LifeInv'
<1> SUFFICES ASSUME Inv, [Next]_vars PROVE LifeInv'
  OBVIOUS
<1> USE DEF mapVars, banVars, runVars, lifeVars, clientVars
<1>0. TypeOK /\ LifeInv /\ MapInv /\ HandlerInv
  BY DEF Inv
<1>1. ASSUME NEW c \in Clients, NEW u \in Users, Request(c, u) PROVE LifeInv'
  BY <1>0, <1>1 DEF LifeInv, Request
<1>2. ASSUME NEW c \in Clients,
             GetClosed(c) \/ GetExisting(c) \/ GetBanned(c) \/ AwaitReady(c) \/ ProxyOk(c)
      PROVE  LifeInv'
  BY <1>0, <1>2 DEF LifeInv, GetClosed, GetExisting, GetBanned, AwaitReady, ProxyOk
<1>3. ASSUME NEW c \in Clients, NEW p \in Procs, GetNew(c, p) PROVE LifeInv'
  <2>1. user[c] \in Users
    BY <1>0, <1>3 DEF HandlerInv, GetNew, Asks
  <2>2. PICK gone : exitClosed' = ClosedWith(gone)
    BY <1>3 DEF GetNew
  <2>3. \A q \in exitClosed' : phase[q] # "none"
    BY <2>2, ClosedExist
  <2>4. /\ phase' = [phase EXCEPT ![p] = "created"]
        /\ owner' = [owner EXCEPT ![p] = user[c]]
        /\ UNCHANGED <<readyClosed, failureClosed>>
    BY <1>3 DEF GetNew
  <2> QED
    BY <1>0, <2>1, <2>3, <2>4 DEF LifeInv, TypeOK
<1>4. ASSUME NEW c \in Clients, ProxyFailed(c) PROVE LifeInv'
  <2>1. handle[c] \in Procs /\ phase[handle[c]] # "none"
    BY <1>0, <1>4 DEF HandlerInv, ProxyFailed
  <2> QED
    BY <1>0, <1>4, <2>1 DEF LifeInv, ProxyFailed
<1>5. ASSUME NEW p \in Procs, Process(p) PROVE LifeInv'
  <2>1. /\ phase[p] # "none"
        /\ readyClosed' \subseteq readyClosed \cup {p}
        /\ UNCHANGED <<owner, exitClosed, failureClosed>>
        /\ \A q \in Procs \ {p} : phase'[q] = phase[q]
        /\ phase'[p] # "none"
    BY <1>0, <1>5 DEF TypeOK, Process, Start, StartError, BecomeReady,
          StopRequested, StopOnFailure, StartupTimeout, UnexpectedExit,
          StopWithError, Finish, Proceed
  <2> QED
    BY <1>0, <2>1 DEF LifeInv
<1>6. ASSUME NEW p \in Procs, ExitStatus(p) PROVE LifeInv'
  <2>1. \A q \in exitClosed' : phase[q] # "none"
    BY <1>6, ClosedExist DEF ExitStatus
  <2>2. /\ phase[p] = "exited"
        /\ phase' = [phase EXCEPT ![p] = "reported"]
        /\ UNCHANGED <<owner, readyClosed, failureClosed>>
    BY <1>6 DEF ExitStatus
  <2> QED
    BY <1>0, <2>1, <2>2 DEF LifeInv, TypeOK
<1>7. ASSUME CheckIdle \/ CloseAll PROVE LifeInv'
  <2>1. \A q \in exitClosed' : phase[q] # "none"
    BY <1>7, ClosedExist DEF CheckIdle, CloseAll
  <2>2. UNCHANGED <<phase, owner, readyClosed, failureClosed>>
    BY <1>7 DEF CheckIdle, CloseAll
  <2> QED
    BY <1>0, <2>1, <2>2 DEF LifeInv
<1>8. ASSUME NEW p \in Procs, WaitExit(p) PROVE LifeInv'
  BY <1>0, <1>8 DEF LifeInv, TypeOK, WaitExit
<1>9. ASSUME \/ AllReported \/ CleanupFailed \/ CloseTimeout
             \/ Server \/ Tick \/ UNCHANGED vars
      PROVE  LifeInv'
  BY <1>0, <1>9 DEF LifeInv, AllReported, CleanupFailed, CloseTimeout, StoreReturn,
        Server, ServerStop, StoreFailed, Tick, vars
<1> QED
  BY <1>1, <1>2, <1>3, <1>4, <1>5, <1>6, <1>7, <1>8, <1>9
     DEF Next, Handler, Store

(* The map: entries are removed, and one is added, for a process that did  *)
(* not exist and to a user that has none.                                  *)
LEMMA MapStep == Inv /\ [Next]_vars => MapInv' /\ MappedProcsOpen'
<1> SUFFICES ASSUME Inv, [Next]_vars PROVE MapInv' /\ MappedProcsOpen'
  OBVIOUS
<1> USE DEF mapVars, banVars, runVars, lifeVars, clientVars
<1>0. TypeOK /\ LifeInv /\ MapInv /\ MappedProcsOpen /\ HandlerInv
  BY DEF Inv
<1>1. ASSUME NEW c \in Clients, NEW u \in Users, Request(c, u)
      PROVE  MapInv' /\ MappedProcsOpen'
  BY <1>0, <1>1 DEF MapInv, MappedProcsOpen, Mapped, Request
<1>2. ASSUME NEW c \in Clients,
             \/ GetClosed(c) \/ GetExisting(c) \/ GetBanned(c)
             \/ AwaitReady(c) \/ ProxyOk(c) \/ ProxyFailed(c)
      PROVE  MapInv' /\ MappedProcsOpen'
  BY <1>0, <1>2 DEF MapInv, MappedProcsOpen, Mapped, GetClosed, GetExisting,
        GetBanned, AwaitReady, ProxyOk, ProxyFailed
<1>3. ASSUME NEW c \in Clients, NEW p \in Procs, GetNew(c, p)
      PROVE  MapInv' /\ MappedProcsOpen'
  <2>1. user[c] \in Users
    BY <1>0, <1>3 DEF HandlerInv, GetNew, Asks
  <2>2. PICK gone : /\ procs' = [ProcsWithout(gone) EXCEPT ![user[c]] = p]
                    /\ exitClosed' = ClosedWith(gone)
    BY <1>3 DEF GetNew
  <2>3. /\ store = "running" /\ store' = store
        /\ phase[p] = "none" /\ procs[user[c]] = NoProc
        /\ phase' = [phase EXCEPT ![p] = "created"]
        /\ owner' = [owner EXCEPT ![p] = user[c]]
    BY <1>3 DEF GetNew, Asks
  <2>4. p \notin exitClosed'
    BY <2>2, <2>3, ClosedExist
  <2>5. \A u \in Users \ {user[c]} :
          procs'[u] # NoProc => u \in Mapped /\ procs'[u] = procs[u] /\ u \notin gone
    BY <2>1, <2>2 DEF ProcsWithout, Mapped
  <2>6. procs'[user[c]] = p
    BY <2>1, <2>2 DEF ProcsWithout
  <2>7. \A u, v \in Mapped : procs[u] = procs[v] => u = v
    BY <1>0 DEF MapInv
  <2>8. \A u \in Mapped : u \notin gone => procs[u] \notin exitClosed'
    BY <1>0, <2>2, <2>3, <2>7 DEF ClosedWith, MappedProcsOpen
  <2>9. MapInv'
    <3> SUFFICES ASSUME NEW u \in Users, procs'[u] # NoProc
                 PROVE  /\ owner'[procs'[u]] = u
                        /\ phase'[procs'[u]] # "none"
                        /\ phase'[procs'[u]] \in Unreported
      BY DEF MapInv, Mapped
    <3>1. CASE u = user[c]
      BY <1>0, <2>3, <2>6, <3>1 DEF TypeOK, Unreported, Alive
    <3>2. CASE u # user[c]
      <4>1. u \in Mapped /\ procs'[u] = procs[u] /\ procs[u] \in Procs
        BY <1>0, <2>5, <3>2 DEF TypeOK, Mapped
      <4>2. /\ owner[procs[u]] = u
            /\ phase[procs[u]] # "none"
            /\ phase[procs[u]] \in Unreported
            /\ procs[u] # p
        BY <1>0, <2>3, <4>1 DEF MapInv
      <4> QED
        BY <1>0, <2>3, <4>1, <4>2 DEF TypeOK
    <3> QED
      BY <3>1, <3>2
  <2>10. MappedProcsOpen'
    BY <2>4, <2>5, <2>6, <2>8 DEF MappedProcsOpen, Mapped
  <2> QED
    BY <2>9, <2>10
<1>4. ASSUME NEW p \in Procs, Process(p) PROVE MapInv' /\ MappedProcsOpen'
  <2>1. /\ UNCHANGED <<procs, owner, exitClosed, store>>
        /\ \A q \in Procs \ {p} : phase'[q] = phase[q]
        /\ phase'[p] \in Unreported /\ phase[p] \in Unreported
    BY <1>0, <1>4 DEF TypeOK, Process, Start, StartError, BecomeReady,
          StopRequested, StopOnFailure, StartupTimeout, UnexpectedExit,
          StopWithError, Finish, Proceed, Unreported, Alive
  <2>2. Mapped' = Mapped /\ \A u \in Mapped : procs[u] \in Procs
    BY <1>0, <2>1 DEF Mapped, TypeOK
  <2> QED
    BY <1>0, <2>1, <2>2 DEF MapInv, MappedProcsOpen, Unreported, Alive
<1>5. ASSUME NEW p \in Procs, ExitStatus(p) PROVE MapInv' /\ MappedProcsOpen'
  <2>1. /\ procs' = ProcsWithout({owner[p]})
        /\ exitClosed' = ClosedWith({owner[p]})
        /\ phase' = [phase EXCEPT ![p] = "reported"]
        /\ store = "running" /\ owner' = owner
    BY <1>5 DEF ExitStatus
  <2>2. \A u \in Mapped' : u \in Mapped /\ procs'[u] = procs[u] /\ u # owner[p]
    BY <2>1 DEF Mapped, ProcsWithout
  <2>3. \A u \in Mapped : u # owner[p] => procs[u] # p /\ procs[u] \notin exitClosed'
    BY <1>0, <2>1 DEF MapInv, MappedProcsOpen, ClosedWith
  <2>4. MappedProcsOpen'
    BY <2>2, <2>3 DEF MappedProcsOpen
  <2>5. MapInv'
    <3> SUFFICES ASSUME NEW u \in Mapped'
                 PROVE  /\ owner'[procs'[u]] = u
                        /\ phase'[procs'[u]] # "none"
                        /\ phase'[procs'[u]] \in Unreported
      BY DEF MapInv
    <3>1. /\ u \in Mapped /\ procs'[u] = procs[u] /\ procs[u] # p
          /\ procs[u] \in Procs
      BY <1>0, <2>2, <2>3 DEF TypeOK, Mapped
    <3> QED
      BY <1>0, <2>1, <3>1 DEF MapInv, TypeOK
  <2> QED
    BY <2>4, <2>5
<1>6. ASSUME CheckIdle PROVE MapInv' /\ MappedProcsOpen'
  <2>1. PICK idle : procs' = ProcsWithout(idle) /\ exitClosed' = ClosedWith(idle)
    BY <1>6 DEF CheckIdle
  <2>2. UNCHANGED <<phase, owner, store>>
    BY <1>6 DEF CheckIdle
  <2>3. \A u \in Mapped' : u \in Mapped /\ procs'[u] = procs[u] /\ u \notin idle
    BY <2>1 DEF Mapped, ProcsWithout
  <2>4. \A u \in Mapped : store = "running" /\ u \notin idle => procs[u] \notin exitClosed'
    BY <1>0, <2>1 DEF MapInv, MappedProcsOpen, ClosedWith
  <2> QED
    BY <1>0, <2>2, <2>3, <2>4 DEF MapInv, MappedProcsOpen
<1>7. ASSUME CloseAll PROVE MapInv' /\ MappedProcsOpen'
  BY <1>0, <1>7 DEF MapInv, MappedProcsOpen, Mapped, CloseAll
<1>8. ASSUME NEW p \in Procs, WaitExit(p) PROVE MapInv' /\ MappedProcsOpen'
  <2>1. store # "running" /\ store' = store
    BY <1>8 DEF Inv, ShutdownInv, WaitExit, StatusesDue
  <2> QED
    BY <1>0, <1>8, <2>1 DEF MapInv, MappedProcsOpen, Mapped, WaitExit, TypeOK
<1>9. ASSUME \/ AllReported \/ CleanupFailed \/ CloseTimeout
             \/ Server \/ Tick \/ UNCHANGED vars
      PROVE  MapInv' /\ MappedProcsOpen'
  BY <1>0, <1>9 DEF MapInv, MappedProcsOpen, Mapped, AllReported, CleanupFailed,
        CloseTimeout, StoreReturn, Server, ServerStop, StoreFailed, Tick, vars
<1> QED
  BY <1>1, <1>2, <1>3, <1>4, <1>5, <1>6, <1>7, <1>8, <1>9
     DEF Next, Handler, Store

(* A ban is set where the entry of the user is removed, and lifted where   *)
(* one is made.                                                            *)
LEMMA BanStep == Inv /\ [Next]_vars => BannedHasNoProc'
<1> SUFFICES ASSUME Inv, [Next]_vars PROVE BannedHasNoProc'
  OBVIOUS
<1> USE DEF mapVars, banVars, runVars, lifeVars, clientVars
<1>0. TypeOK /\ LifeInv /\ BannedHasNoProc /\ HandlerInv
  BY DEF Inv
<1>1. ASSUME UNCHANGED <<procs, banned>> PROVE BannedHasNoProc'
  BY <1>0, <1>1 DEF BannedHasNoProc
<1>2. ASSUME NEW c \in Clients, Handler(c), ~(\E p \in Procs : GetNew(c, p))
      PROVE  BannedHasNoProc'
  BY <1>1, <1>2 DEF Handler, Request, GetClosed, GetExisting, GetBanned,
        AwaitReady, ProxyOk, ProxyFailed
<1>3. ASSUME NEW c \in Clients, NEW p \in Procs, GetNew(c, p)
      PROVE  BannedHasNoProc'
  <2>1. PICK gone : procs' = [ProcsWithout(gone) EXCEPT ![user[c]] = p]
    BY <1>3 DEF GetNew
  <2>2. banned' = [banned EXCEPT ![user[c]] = Never] /\ user[c] \in Users
    BY <1>0, <1>3 DEF GetNew, Unbanned, HandlerInv, Asks
  <2> QED
    BY <1>0, <2>1, <2>2 DEF BannedHasNoProc, ProcsWithout, TypeOK
<1>4. ASSUME NEW p \in Procs, Process(p) PROVE BannedHasNoProc'
  BY <1>1, <1>4 DEF Process, Start, StartError, BecomeReady, StopRequested,
        StopOnFailure, StartupTimeout, UnexpectedExit, StopWithError, Finish, Proceed
<1>5. ASSUME NEW p \in Procs, ExitStatus(p) PROVE BannedHasNoProc'
  <2>1. procs' = ProcsWithout({owner[p]})
    BY <1>5 DEF ExitStatus
  <2>2. \A u \in Users \ {owner[p]} : banned'[u] = banned[u]
    BY <1>0, <1>5 DEF ExitStatus, CountFailure, TypeOK
  <2> QED
    BY <1>0, <2>1, <2>2 DEF BannedHasNoProc, ProcsWithout
<1>6. ASSUME CheckIdle PROVE BannedHasNoProc'
  <2>1. PICK idle : procs' = ProcsWithout(idle)
    BY <1>6 DEF CheckIdle
  <2>2. \A u \in Users : banned'[u] \in {Never, banned[u]}
    BY <1>6 DEF CheckIdle, CleanupFailures
  <2> QED
    BY <1>0, <2>1, <2>2 DEF BannedHasNoProc, ProcsWithout
<1>7. ASSUME \/ CloseAll \/ \E p \in Procs : WaitExit(p)
             \/ AllReported \/ CleanupFailed \/ CloseTimeout
             \/ Server \/ Tick \/ UNCHANGED vars
      PROVE  BannedHasNoProc'
  BY <1>1, <1>7 DEF CloseAll, WaitExit, AllReported, CleanupFailed, CloseTimeout,
        StoreReturn, Server, ServerStop, StoreFailed, Tick, vars
<1> QED
  BY <1>2, <1>3, <1>4, <1>5, <1>6, <1>7 DEF Next, Handler, Store

(* Whatever leaves the map is told to exit in the same step.               *)
LEMMA OrphanStep == Inv /\ [Next]_vars => NoOrphan'
<1> SUFFICES ASSUME Inv, [Next]_vars PROVE NoOrphan'
  OBVIOUS
<1> USE DEF mapVars, banVars, runVars, lifeVars, clientVars
<1>0. TypeOK /\ LifeInv /\ MapInv /\ NoOrphan /\ HandlerInv
  BY DEF Inv
<1>1. ASSUME /\ UNCHANGED <<procs, owner, exitClosed>>
             /\ \A p \in Procs : phase'[p] \in Unreported => phase[p] \in Unreported
      PROVE NoOrphan'
  BY <1>0, <1>1 DEF NoOrphan
<1>2. ASSUME NEW c \in Clients, Handler(c), ~(\E p \in Procs : GetNew(c, p))
      PROVE  NoOrphan'
  BY <1>1, <1>2 DEF Handler, Request, GetClosed, GetExisting, GetBanned,
        AwaitReady, ProxyOk, ProxyFailed
<1>3. ASSUME NEW c \in Clients, NEW p \in Procs, GetNew(c, p) PROVE NoOrphan'
  <2>1. PICK gone : /\ procs' = [ProcsWithout(gone) EXCEPT ![user[c]] = p]
                    /\ exitClosed' = ClosedWith(gone)
    BY <1>3 DEF GetNew
  <2>2. /\ user[c] \in Users /\ procs[user[c]] = NoProc
        /\ phase' = [phase EXCEPT ![p] = "created"]
        /\ owner' = [owner EXCEPT ![p] = user[c]]
    BY <1>0, <1>3 DEF GetNew, HandlerInv, Asks
  <2> SUFFICES ASSUME NEW q \in Procs, phase'[q] \in Unreported, q \notin exitClosed'
               PROVE  owner'[q] \in Users /\ procs'[owner'[q]] = q
    BY DEF NoOrphan
  <2>3. CASE q = p
    BY <1>0, <2>1, <2>2, <2>3 DEF TypeOK, ProcsWithout
  <2>4. CASE q # p
    <3>1. /\ phase[q] \in Unreported /\ owner'[q] = owner[q]
          /\ q \notin exitClosed
      BY <1>0, <2>1, <2>2, <2>4 DEF TypeOK, ClosedWith
    <3>2. owner[q] \in Users /\ procs[owner[q]] = q
      BY <1>0, <3>1 DEF NoOrphan
    <3>3. owner[q] \in Mapped /\ owner[q] # user[c]
      BY <2>2, <3>2, NullAssumption DEF Mapped
    <3>4. owner[q] \notin gone
      BY <2>1, <3>2, <3>3 DEF ClosedWith
    <3> QED
      BY <2>1, <3>1, <3>2, <3>3, <3>4 DEF ProcsWithout
  <2> QED
    BY <2>3, <2>4
<1>4. ASSUME NEW p \in Procs, Process(p) PROVE NoOrphan'
  <2>1. /\ UNCHANGED <<procs, owner, exitClosed>>
        /\ \A q \in Procs \ {p} : phase'[q] = phase[q]
        /\ phase[p] \in Unreported
    BY <1>0, <1>4 DEF TypeOK, Process, Start, StartError, BecomeReady,
          StopRequested, StopOnFailure, StartupTimeout, UnexpectedExit,
          StopWithError, Finish, Proceed, Unreported, Alive
  <2> QED
    BY <1>1, <2>1
<1>5. ASSUME NEW S, procs' = ProcsWithout(S), exitClosed' = ClosedWith(S),
             UNCHANGED owner,
             \A p \in Procs : phase'[p] \in Unreported => phase[p] \in Unreported
      PROVE  NoOrphan'
  <2> SUFFICES ASSUME NEW q \in Procs, phase'[q] \in Unreported, q \notin exitClosed'
               PROVE  owner[q] \in Users /\ procs'[owner[q]] = q
    BY <1>5 DEF NoOrphan
  <2>1. owner[q] \in Users /\ procs[owner[q]] = q /\ owner[q] \in Mapped
    BY <1>0, <1>5, NullAssumption DEF NoOrphan, ClosedWith, Mapped
  <2> QED
    BY <1>5, <2>1 DEF ClosedWith, ProcsWithout
<1>6. ASSUME NEW p \in Procs, ExitStatus(p) PROVE NoOrphan'
  <2>1. /\ procs' = ProcsWithout({owner[p]})
        /\ exitClosed' = ClosedWith({owner[p]})
        /\ UNCHANGED owner
        /\ phase' = [phase EXCEPT ![p] = "reported"]
    BY <1>6 DEF ExitStatus
  <2>2. \A q \in Procs : phase'[q] \in Unreported => phase[q] \in Unreported
    BY <1>0, <2>1 DEF TypeOK, Unreported, Alive
  <2> QED
    BY <1>5, <2>1, <2>2
<1>7. ASSUME CheckIdle PROVE NoOrphan'
  <2>1. PICK idle : procs' = ProcsWithout(idle) /\ exitClosed' = ClosedWith(idle)
    BY <1>7 DEF CheckIdle
  <2>2. UNCHANGED <<phase, owner>>
    BY <1>7 DEF CheckIdle
  <2> QED
    BY <1>5, <2>1, <2>2
<1>8. ASSUME CloseAll PROVE NoOrphan'
  <2>1. exitClosed \subseteq exitClosed' /\ UNCHANGED <<procs, owner, phase>>
    BY <1>8 DEF CloseAll, ClosedWith
  <2> QED
    BY <1>0, <2>1 DEF NoOrphan
<1>9. ASSUME NEW p \in Procs, WaitExit(p) PROVE NoOrphan'
  <2>1. \A q \in Procs : phase'[q] \in Unreported => phase[q] \in Unreported
    BY <1>0, <1>9 DEF WaitExit, TypeOK, Unreported, Alive
  <2> QED
    BY <1>1, <1>9, <2>1 DEF WaitExit
<1>10. ASSUME \/ AllReported \/ CleanupFailed \/ CloseTimeout
              \/ Server \/ Tick \/ UNCHANGED vars
       PROVE  NoOrphan'
  BY <1>1, <1>10 DEF AllReported, CleanupFailed, CloseTimeout,
        StoreReturn, Server, ServerStop, StoreFailed, Tick, vars
<1> QED
  BY <1>2, <1>3, <1>4, <1>6, <1>7, <1>8, <1>9, <1>10 DEF Next, Handler, Store

(* The shutdown reaches every running process: those in the map are told   *)
(* by closeAll, the others were told when they left it, and none is made   *)
(* any more.                                                               *)
LEMMA ShutdownStep == Inv /\ [Next]_vars => ShutdownInv' /\ ShutdownTellsAll'
<1> SUFFICES ASSUME Inv, [Next]_vars PROVE ShutdownInv' /\ ShutdownTellsAll'
  OBVIOUS
<1> USE DEF mapVars, banVars, runVars, lifeVars, clientVars
<1>0. TypeOK /\ LifeInv /\ NoOrphan /\ ShutdownInv /\ ShutdownTellsAll
  BY DEF Inv
<1>1. ASSUME UNCHANGED <<exit, store, result, waiter, exitClosed>>,
             \A p \in Procs : phase'[p] \in Alive => phase[p] \in Alive
      PROVE  ShutdownInv' /\ ShutdownTellsAll'
  BY <1>0, <1>1 DEF ShutdownInv, ShutdownTellsAll
<1>2. ASSUME NEW c \in Clients, Handler(c), ~(\E p \in Procs : GetNew(c, p))
      PROVE  ShutdownInv' /\ ShutdownTellsAll'
  BY <1>1, <1>2 DEF Handler, Request, GetClosed, GetExisting, GetBanned,
        AwaitReady, ProxyOk, ProxyFailed
<1>3. ASSUME store = "running", store' = "running", UNCHANGED <<exit, result, waiter>>
      PROVE  ShutdownInv' /\ ShutdownTellsAll'
  BY <1>0, <1>3 DEF ShutdownInv, ShutdownTellsAll
<1>4. ASSUME NEW c \in Clients, NEW p \in Procs, GetNew(c, p)
      PROVE  ShutdownInv' /\ ShutdownTellsAll'
  BY <1>3, <1>4 DEF GetNew, Asks
<1>5. ASSUME NEW p \in Procs, Process(p) PROVE ShutdownInv' /\ ShutdownTellsAll'
  <2>1. /\ UNCHANGED <<exit, store, result, waiter, exitClosed>>
        /\ \A q \in Procs \ {p} : phase'[q] = phase[q]
        /\ phase[p] \in Alive
    BY <1>0, <1>5 DEF TypeOK, Process, Start, StartError, BecomeReady,
          StopRequested, StopOnFailure, StartupTimeout, UnexpectedExit,
          StopWithError, Finish, Proceed, Alive
  <2> QED
    BY <1>1, <2>1
<1>6. ASSUME NEW p \in Procs, ExitStatus(p) PROVE ShutdownInv' /\ ShutdownTellsAll'
  <2>1. /\ store = "running" /\ UNCHANGED <<exit, waiter>>
        /\ \/ store' = "returned" /\ result' = "fatal"
           \/ UNCHANGED <<store, result>>
    BY <1>6 DEF ExitStatus
  <2> QED
    BY <1>0, <2>1 DEF ShutdownInv, ShutdownTellsAll
<1>7. ASSUME CheckIdle PROVE ShutdownInv' /\ ShutdownTellsAll'
  BY <1>3, <1>7 DEF CheckIdle
<1>8. ASSUME CloseAll PROVE ShutdownInv' /\ ShutdownTellsAll'
  <2>1. /\ store = "running" /\ store' = "closing" /\ exit
        /\ exitClosed' = ClosedWith(Users)
        /\ UNCHANGED <<procs, owner, phase, result, exit>>
    BY <1>8 DEF CloseAll
  <2>2. ASSUME NEW p \in Procs, phase[p] \in Alive PROVE p \in exitClosed'
    <3>1. CASE p \in exitClosed
      BY <2>1, <3>1 DEF ClosedWith
    <3>2. CASE p \notin exitClosed
      <4>1. owner[p] \in Users /\ procs[owner[p]] = p
        BY <1>0, <2>2, <3>2 DEF NoOrphan, Unreported
      <4>2. owner[p] \in Users \cap Mapped
        BY <4>1, NullAssumption DEF Mapped
      <4> QED
        BY <2>1, <4>1, <4>2 DEF ClosedWith
    <3> QED
      BY <3>1, <3>2
  <2> QED
    BY <1>0, <2>1, <2>2 DEF ShutdownInv, ShutdownTellsAll
<1>9. ASSUME NEW p \in Procs, WaitExit(p) PROVE ShutdownInv' /\ ShutdownTellsAll'
  <2>1. store # "running" /\ UNCHANGED <<exit, store, result, exitClosed>>
    BY <1>0, <1>9 DEF WaitExit, StatusesDue, ShutdownInv
  <2>2. \A q \in Procs : phase'[q] \in Alive => phase[q] \in Alive
    BY <1>0, <1>9 DEF WaitExit, TypeOK, Alive
  <2> QED
    BY <1>0, <2>1, <2>2 DEF ShutdownInv, ShutdownTellsAll
<1>10. ASSUME AllReported \/ CleanupFailed \/ CloseTimeout
       PROVE  ShutdownInv' /\ ShutdownTellsAll'
  <2>1. store = "closing" /\ store' = "returned" /\ UNCHANGED <<exit, phase, exitClosed>>
    BY <1>10 DEF AllReported, CleanupFailed, CloseTimeout, StoreReturn
  <2>2. exit
    BY <1>0, <2>1 DEF ShutdownInv
  <2> QED
    BY <1>0, <2>1, <2>2 DEF ShutdownInv, ShutdownTellsAll
<1>11. ASSUME Server \/ Tick \/ UNCHANGED vars
       PROVE  ShutdownInv' /\ ShutdownTellsAll'
  BY <1>0, <1>11 DEF ShutdownInv, ShutdownTellsAll, Server, ServerStop, StoreFailed,
        Tick, vars
<1> QED
  BY <1>2, <1>4, <1>5, <1>6, <1>7, <1>8, <1>9, <1>10, <1>11
     DEF Next, Handler, Store

(* A handler keeps the process it was given until it returns or retries.   *)
LEMMA HandlerStep == Inv /\ [Next]_vars => HandlerInv'
<1> SUFFICES ASSUME Inv, [Next]_vars PROVE HandlerInv'
  OBVIOUS
<1> USE DEF mapVars, banVars, runVars, lifeVars, clientVars
<1>0. TypeOK /\ LifeInv /\ MapInv /\ HandlerInv
  BY DEF Inv
<1>1. ASSUME NEW c \in Clients, NEW u \in Users, Request(c, u) PROVE HandlerInv'
  BY <1>0, <1>1 DEF HandlerInv, TypeOK, Request
<1>2. ASSUME NEW c \in Clients,
             GetClosed(c) \/ GetBanned(c) \/ ProxyOk(c) \/ ProxyFailed(c)
      PROVE  HandlerInv'
  <2>1. pc'[c] \in {"idle", "panicked"}
    BY <1>0, <1>2 DEF TypeOK, GetClosed, GetBanned, ProxyOk, ProxyFailed, Return
  <2>2. /\ \A d \in Clients \ {c} :
             pc'[d] = pc[d] /\ user'[d] = user[d] /\ handle'[d] = handle[d]
        /\ UNCHANGED <<phase, owner, readyClosed>>
    BY <1>0, <1>2 DEF TypeOK, GetClosed, GetBanned, ProxyOk, ProxyFailed, Return
  <2> QED
    BY <1>0, <2>1, <2>2 DEF HandlerInv
<1>3. ASSUME NEW c \in Clients, GetExisting(c) PROVE HandlerInv'
  <2>1. user[c] \in Users /\ user[c] \in Mapped
    BY <1>0, <1>3 DEF HandlerInv, GetExisting, Asks, Mapped
  <2>2. /\ procs[user[c]] \in Procs
        /\ phase[procs[user[c]]] # "none"
        /\ owner[procs[user[c]]] = user[c]
    BY <1>0, <2>1 DEF TypeOK, Mapped, MapInv
  <2> QED
    BY <1>0, <1>3, <2>1, <2>2 DEF HandlerInv, TypeOK, GetExisting, HandOut
<1>4. ASSUME NEW c \in Clients, NEW p \in Procs, GetNew(c, p) PROVE HandlerInv'
  <2>1. user[c] \in Users /\ phase[p] = "none"
    BY <1>0, <1>4 DEF HandlerInv, GetNew, Asks
  <2>2. /\ phase' = [phase EXCEPT ![p] = "created"]
        /\ owner' = [owner EXCEPT ![p] = user[c]]
        /\ pc' = [pc EXCEPT ![c] = "waitReady"]
        /\ handle' = [handle EXCEPT ![c] = p]
        /\ UNCHANGED <<user, readyClosed>>
    BY <1>4 DEF GetNew, HandOut
  <2> QED
    BY <1>0, <2>1, <2>2 DEF HandlerInv, TypeOK
<1>5. ASSUME NEW c \in Clients, AwaitReady(c) PROVE HandlerInv'
  BY <1>0, <1>5 DEF HandlerInv, TypeOK, AwaitReady
<1>6. ASSUME UNCHANGED <<pc, user, handle, owner>>,
             readyClosed \subseteq readyClosed',
             \A p \in Procs : phase[p] # "none" => phase'[p] # "none"
      PROVE  HandlerInv'
  BY <1>0, <1>6 DEF HandlerInv
<1>7. ASSUME NEW p \in Procs, Process(p) PROVE HandlerInv'
  <2>1. /\ UNCHANGED <<pc, user, handle, owner>>
        /\ readyClosed \subseteq readyClosed'
        /\ \A q \in Procs \ {p} : phase'[q] = phase[q]
        /\ phase'[p] # "none"
    BY <1>0, <1>7 DEF TypeOK, Process, Start, StartError, BecomeReady,
          StopRequested, StopOnFailure, StartupTimeout, UnexpectedExit,
          StopWithError, Finish, Proceed
  <2> QED
    BY <1>6, <2>1
<1>8. ASSUME NEW p \in Procs, ExitStatus(p) \/ WaitExit(p) PROVE HandlerInv'
  <2>1. /\ UNCHANGED <<pc, user, handle, owner, readyClosed>>
        /\ phase' = [phase EXCEPT ![p] = "reported"]
    BY <1>8 DEF ExitStatus, WaitExit
  <2> QED
    BY <1>0, <1>6, <2>1 DEF TypeOK
<1>9. ASSUME \/ CheckIdle \/ CloseAll \/ AllReported \/ CleanupFailed
             \/ CloseTimeout \/ Server \/ Tick \/ UNCHANGED vars
      PROVE  HandlerInv'
  BY <1>6, <1>9 DEF CheckIdle, CloseAll, AllReported, CleanupFailed, CloseTimeout,
        StoreReturn, Server, ServerStop, StoreFailed, Tick, vars
<1> QED
  BY <1>1, <1>2, <1>3, <1>4, <1>5, <1>7, <1>8, <1>9 DEF Next, Handler, Store

(* The invariant is inductive.                                             *)
THEOREM StepInv == Inv /\ [Next]_vars => Inv'
BY TypeStep, LifeStep, MapStep, BanStep, OrphanStep, ShutdownStep, HandlerStep
   DEF Inv

(* It holds in every state the store can reach.                            *)
THEOREM Invariance == Spec => []Inv
<1>1. Init => Inv
  BY InitInv
<1>2. Inv /\ [Next]_vars => Inv'
  BY StepInv
<1> QED
  BY <1>1, <1>2, PTL DEF Spec

-----------------------------------------------------------------------------
(***************************************************************************)
(* What the invariant says of the code.                                    *)
(***************************************************************************)

(* The variables of the store, of the processes and of the handlers keep   *)
(* their types.                                                            *)
THEOREM TypeCorrectness == Spec => []TypeOK
BY Invariance, PTL DEF Inv

(* removeProc and closeAll never close a channel twice, and getCreate      *)
(* never hands out a process that was told to exit.                        *)
THEOREM ProcsClosedOnce == Spec => []MappedProcsOpen
BY Invariance, PTL DEF Inv

(* Being banned and having a process exclude each other.                   *)
THEOREM BansExclude == Spec => []BannedHasNoProc
BY Invariance, PTL DEF Inv

(* A process that runs and was not told to exit is the one in the map.     *)
THEOREM OrphansAreTold == Spec => []NoOrphan
BY Invariance, PTL DEF Inv

(* The shutdown tells every running process to exit.                       *)
THEOREM ShutdownIsComplete == Spec => []ShutdownTellsAll
BY Invariance, PTL DEF Inv

(* A request is only ever proxied to a process of the user it is from.     *)
THEOREM HandlersKeepToTheirUser ==
  Spec => [](\A c \in Clients : pc[c] = "proxy" => owner[handle[c]] = user[c])
<1>1. Inv => \A c \in Clients : pc[c] = "proxy" => owner[handle[c]] = user[c]
  BY DEF Inv, HandlerInv
<1> QED
  BY <1>1, Invariance, PTL

-----------------------------------------------------------------------------
(***************************************************************************)
(* The limit on the number of processes.                                   *)
(***************************************************************************)

(* Evicting one of the oldest makes the room the new entry takes.          *)
LEMMA EvictionMakesRoom ==
  ASSUME TypeOK, MaxProcs > 0, NEW S \in SUBSET Mapped, Cardinality(Mapped) <= MaxProcs,
         NEW victims \in Victims(S)
  PROVE  IsFiniteSet(S \ victims) /\ Cardinality(S \ victims) < MaxProcs
<1>1. /\ IsFiniteSet(S) /\ Cardinality(S) \in Nat
      /\ Cardinality(S) <= Cardinality(Mapped) /\ Cardinality(Mapped) \in Nat
  BY MappedFinite, FS_Subset, FS_CardinalityType
<1>2. CASE Cardinality(S) >= MaxProcs
  <2>1. PICK v \in S : victims = {v}
    BY <1>2 DEF Victims, Oldest
  <2>2. IsFiniteSet(S \ {v}) /\ Cardinality(S \ {v}) = Cardinality(S) - 1
    BY <1>1, FS_RemoveElement
  <2> QED
    BY <1>1, <2>1, <2>2, OptionAssumption
<1>3. CASE ~(Cardinality(S) >= MaxProcs)
  <2>1. victims = {} /\ S \ victims = S
    BY <1>3 DEF Victims
  <2> QED
    BY <1>1, <1>3, <2>1, OptionAssumption
<1> QED
  BY <1>2, <1>3

(* No action lets the map grow past the limit.                             *)
LEMMA MaxProcsStep ==
  Inv /\ MaxProcsRespected /\ [Next]_vars => MaxProcsRespected'
<1> SUFFICES ASSUME Inv, MaxProcsRespected, [Next]_vars, MaxProcs > 0
             PROVE  Cardinality(Mapped') <= MaxProcs
  BY DEF MaxProcsRespected
<1> USE DEF mapVars, banVars, runVars, lifeVars, clientVars
<1>0. /\ TypeOK /\ LifeInv /\ HandlerInv /\ Cardinality(Mapped) <= MaxProcs
      /\ IsFiniteSet(Mapped) /\ Cardinality(Mapped) \in Nat
  BY MappedFinite DEF Inv, MaxProcsRespected
<1>1. ASSUME Mapped' \subseteq Mapped PROVE Cardinality(Mapped') <= MaxProcs
  <2>1. Cardinality(Mapped') <= Cardinality(Mapped) /\ Cardinality(Mapped') \in Nat
    BY <1>0, <1>1, FS_Subset, FS_CardinalityType
  <2> QED
    BY <1>0, <2>1, OptionAssumption
<1>2. ASSUME NEW c \in Clients, NEW p \in Procs, GetNew(c, p)
      PROVE  Cardinality(Mapped') <= MaxProcs
  <2> DEFINE left == Mapped \ Idle(now)
  <2>1. PICK victims \in Victims(left) :
          procs' = [ProcsWithout(Idle(now) \cup victims) EXCEPT ![user[c]] = p]
    BY <1>2 DEF GetNew
  <2>2. IsFiniteSet(left \ victims) /\ Cardinality(left \ victims) < MaxProcs
    BY <1>0, EvictionMakesRoom
  <2>3. Mapped' \subseteq (left \ victims) \cup {user[c]}
    BY <2>1 DEF Mapped, ProcsWithout
  <2>4. /\ IsFiniteSet((left \ victims) \cup {user[c]})
        /\ Cardinality((left \ victims) \cup {user[c]}) \in
             {Cardinality(left \ victims), Cardinality(left \ victims) + 1}
    BY <2>2, FS_AddElement
  <2>5. /\ Cardinality(Mapped') <= Cardinality((left \ victims) \cup {user[c]})
        /\ Cardinality(Mapped') \in Nat /\ Cardinality(left \ victims) \in Nat
    BY <2>2, <2>3, <2>4, FS_Subset, FS_CardinalityType
  <2> QED
    BY <2>2, <2>4, <2>5, OptionAssumption
<1>3. ASSUME NEW c \in Clients, Handler(c), ~(\E p \in Procs : GetNew(c, p))
      PROVE  Cardinality(Mapped') <= MaxProcs
  <2>1. UNCHANGED procs
    BY <1>3 DEF Handler, Request, GetClosed, GetExisting, GetBanned, AwaitReady,
          ProxyOk, ProxyFailed
  <2> QED
    BY <1>1, <2>1 DEF Mapped
<1>4. ASSUME NEW p \in Procs, Process(p) PROVE Cardinality(Mapped') <= MaxProcs
  <2>1. UNCHANGED procs
    BY <1>4 DEF Process, Start, StartError, BecomeReady, StopRequested,
          StopOnFailure, StartupTimeout, UnexpectedExit, StopWithError, Finish, Proceed
  <2> QED
    BY <1>1, <2>1 DEF Mapped
<1>5. ASSUME CheckIdle \/ \E p \in Procs : ExitStatus(p)
      PROVE  Cardinality(Mapped') <= MaxProcs
  <2>1. PICK S : procs' = ProcsWithout(S)
    BY <1>5 DEF CheckIdle, ExitStatus
  <2> QED
    BY <1>1, <2>1 DEF Mapped, ProcsWithout
<1>6. ASSUME \/ CloseAll \/ \E p \in Procs : WaitExit(p)
             \/ AllReported \/ CleanupFailed \/ CloseTimeout
             \/ Server \/ Tick \/ UNCHANGED vars
      PROVE  Cardinality(Mapped') <= MaxProcs
  <2>1. UNCHANGED procs
    BY <1>6 DEF CloseAll, WaitExit, AllReported, CleanupFailed, CloseTimeout,
          StoreReturn, Server, ServerStop, StoreFailed, Tick, vars
  <2> QED
    BY <1>1, <2>1 DEF Mapped
<1> QED
  BY <1>2, <1>3, <1>4, <1>5, <1>6 DEF Next, Handler, Store

(* The map of processes never exceeds max-user-processes.                  *)
THEOREM LimitHolds == Spec => []MaxProcsRespected
<1>1. Init => MaxProcsRespected
  <2> SUFFICES ASSUME Init, MaxProcs > 0 PROVE Cardinality(Mapped) <= MaxProcs
    BY DEF MaxProcsRespected
  <2>1. Mapped = {}
    BY DEF Init, Mapped
  <2> QED
    BY <2>1, FS_EmptySet, OptionAssumption
<1>2. Inv /\ MaxProcsRespected /\ [Next]_vars => MaxProcsRespected'
  BY MaxProcsStep
<1> QED
  BY <1>1, <1>2, Invariance, PTL DEF Spec
-----------------------------------------------------------------------------
(***************************************************************************)
(* closeAll can always come to its end, and every process keeps to the     *)
(* contract ProcLife.                                                      *)
(***************************************************************************)

(* The processes that have a status still to report.                       *)
Reporting == {p \in Procs : phase[p] \in Unreported}

CountInv == /\ IsFiniteSet(Reporting)
            /\ CloseCanFinish

(* Every entry of the map stands for a process of its own.                 *)
LEMMA MappedReporting ==
  ASSUME Inv, store = "running", IsFiniteSet(Reporting)
  PROVE  Cardinality(Mapped) <= Cardinality(Reporting)
<1> DEFINE f == [u \in Mapped |-> procs[u]]
<1>1. f \in [Mapped -> Reporting]
  BY DEF Inv, TypeOK, MapInv, Mapped, Reporting
<1>2. \A u, v \in Mapped : f[u] = f[v] => u = v
  BY DEF Inv, MapInv
<1>3. f \in Injection(Mapped, Reporting)
  BY <1>1, <1>2 DEF Injection, IsInjective
<1> QED
  BY <1>3, FS_Injection

(* A status is awaited only from a process of the map, and counted once.   *)
LEMMA CountStep == Inv /\ CountInv /\ [Next]_vars => CountInv'
<1> SUFFICES ASSUME Inv, CountInv, [Next]_vars PROVE CountInv'
  OBVIOUS
<1> USE DEF mapVars, banVars, runVars, lifeVars, clientVars
<1>0. /\ TypeOK /\ ShutdownInv /\ LifeInv
      /\ IsFiniteSet(Reporting) /\ Cardinality(Reporting) \in Nat
      /\ waiter = "waiting" => Cardinality(Reporting) >= awaited
  BY FS_CardinalityType DEF Inv, CountInv, CloseCanFinish, Reporting
<1>1. ASSUME Reporting' = Reporting, UNCHANGED <<waiter, awaited>> PROVE CountInv'
  BY <1>0, <1>1 DEF CountInv, CloseCanFinish, Reporting
<1>2. ASSUME NEW c \in Clients, Handler(c), ~(\E p \in Procs : GetNew(c, p))
      PROVE  CountInv'
  <2>1. UNCHANGED <<phase, waiter, awaited>>
    BY <1>2 DEF Handler, Request, GetClosed, GetExisting, GetBanned, AwaitReady,
          ProxyOk, ProxyFailed
  <2> QED
    BY <1>1, <2>1 DEF Reporting
<1>3. ASSUME NEW c \in Clients, NEW p \in Procs, GetNew(c, p) PROVE CountInv'
  <2>1. phase' = [phase EXCEPT ![p] = "created"] /\ store = "running" /\ waiter' = waiter
    BY <1>3 DEF GetNew, Asks
  <2>2. Reporting' = Reporting \cup {p}
    BY <1>0, <2>1 DEF Reporting, TypeOK, Unreported, Alive
  <2>3. IsFiniteSet(Reporting')
    BY <1>0, <2>2, FS_AddElement
  <2> QED
    BY <1>0, <2>1, <2>3 DEF CountInv, CloseCanFinish, ShutdownInv
<1>4. ASSUME NEW p \in Procs, Process(p) PROVE CountInv'
  <2>1. /\ UNCHANGED <<waiter, awaited>>
        /\ \A q \in Procs \ {p} : phase'[q] = phase[q]
        /\ phase'[p] \in Unreported /\ phase[p] \in Unreported
    BY <1>0, <1>4 DEF TypeOK, Process, Start, StartError, BecomeReady,
          StopRequested, StopOnFailure, StartupTimeout, UnexpectedExit,
          StopWithError, Finish, Proceed, Unreported, Alive
  <2> QED
    BY <1>1, <2>1 DEF Reporting
<1>5. ASSUME NEW p \in Procs, phase[p] = "exited", phase' = [phase EXCEPT ![p] = "reported"]
      PROVE  /\ IsFiniteSet(Reporting')
             /\ Cardinality(Reporting') = Cardinality(Reporting) - 1
  <2>1. p \in Reporting /\ Reporting' = Reporting \ {p}
    BY <1>0, <1>5 DEF Reporting, TypeOK, Unreported, Alive
  <2> QED
    BY <1>0, <2>1, FS_RemoveElement
<1>6. ASSUME NEW p \in Procs, ExitStatus(p) PROVE CountInv'
  <2>1. IsFiniteSet(Reporting')
    BY <1>5, <1>6 DEF ExitStatus
  <2>2. waiter' # "waiting"
    BY <1>0, <1>6 DEF ExitStatus, ShutdownInv
  <2> QED
    BY <2>1, <2>2 DEF CountInv, CloseCanFinish
<1>7. ASSUME CloseAll PROVE CountInv'
  <2>1. Reporting' = Reporting /\ awaited' = Cardinality(Mapped) /\ store = "running"
    BY <1>7 DEF CloseAll, Reporting
  <2>2. Cardinality(Mapped) <= Cardinality(Reporting) /\ Cardinality(Mapped) \in Nat
    BY <1>0, <2>1, MappedReporting, MappedFinite
  <2> QED
    BY <1>0, <2>1, <2>2 DEF CountInv, CloseCanFinish, Reporting
<1>8. ASSUME NEW p \in Procs, WaitExit(p) PROVE CountInv'
  <2>1. /\ waiter = "waiting" /\ awaited' = awaited - 1
        /\ phase[p] = "exited" /\ phase' = [phase EXCEPT ![p] = "reported"]
    BY <1>8 DEF WaitExit, StatusesDue
  <2>2. /\ IsFiniteSet(Reporting')
        /\ Cardinality(Reporting') = Cardinality(Reporting) - 1
    BY <1>5, <2>1
  <2>3. Cardinality(Reporting') >= awaited'
    BY <1>0, <2>1, <2>2 DEF TypeOK
  <2> QED
    BY <2>2, <2>3 DEF CountInv, CloseCanFinish, Reporting
<1>9. ASSUME \/ CheckIdle \/ AllReported \/ CleanupFailed \/ CloseTimeout
             \/ Server \/ Tick \/ UNCHANGED vars
      PROVE  CountInv'
  <2>1. UNCHANGED <<phase, waiter, awaited>>
    BY <1>9 DEF CheckIdle, AllReported, CleanupFailed, CloseTimeout, StoreReturn,
          Server, ServerStop, StoreFailed, Tick, vars
  <2> QED
    BY <1>1, <2>1 DEF Reporting
<1> QED
  BY <1>2, <1>3, <1>4, <1>6, <1>7, <1>8, <1>9 DEF Next, Handler, Store

(* closeAll never awaits a status nobody is left to send.                  *)
THEOREM CloseNeverStarves == Spec => []CloseCanFinish
<1>1. Init => CountInv
  <2> SUFFICES ASSUME Init PROVE CountInv
    OBVIOUS
  <2>1. Reporting = {} /\ waiter = "off"
    BY DEF Init, Reporting, Unreported, Alive
  <2> QED
    BY <2>1, FS_EmptySet DEF CountInv, CloseCanFinish
<1>2. Inv /\ CountInv /\ [Next]_vars => CountInv'
  BY CountStep
<1>3. CountInv => CloseCanFinish
  BY DEF CountInv
<1> QED
  BY <1>1, <1>2, <1>3, Invariance, PTL DEF Spec

-----------------------------------------------------------------------------
(***************************************************************************)
(* Every process, as the store, the handlers and its goroutine use it,     *)
(* is a behaviour of ProcLife.                                             *)
(***************************************************************************)

LifeStepOf(p) == Life(p)!Next \/ UNCHANGED Life(p)!vars

(* Before run returns there is no failed cleanup.                          *)
StatusInv ==
  \A p \in Procs : phase[p] \in Alive \cup {"none"} => status[p].cleanupFailed = FALSE

(* Only a process that waits for its exit fails its cleanup.               *)
LEMMA StatusStep == Inv /\ StatusInv /\ [Next]_vars => StatusInv'
<1> SUFFICES ASSUME Inv, StatusInv, [Next]_vars PROVE StatusInv'
  OBVIOUS
<1> USE DEF mapVars, banVars, runVars, lifeVars, clientVars
<1>0. TypeOK
  BY DEF Inv
<1>1. ASSUME UNCHANGED <<phase, status>> PROVE StatusInv'
  BY <1>1 DEF StatusInv
<1>2. ASSUME NEW c \in Clients, Handler(c), ~(\E p \in Procs : GetNew(c, p))
      PROVE  StatusInv'
  BY <1>1, <1>2 DEF Handler, Request, GetClosed, GetExisting, GetBanned, AwaitReady,
          ProxyOk, ProxyFailed
<1>3. ASSUME NEW c \in Clients, NEW p \in Procs, GetNew(c, p) PROVE StatusInv'
  BY <1>0, <1>3 DEF GetNew, StatusInv, TypeOK, Alive
<1>4. ASSUME NEW p \in Procs, Process(p) PROVE StatusInv'
  <2>1. CASE Finish(p)
    <3>1. phase' = [phase EXCEPT ![p] = "exited"]
          /\ \A q \in Procs \ {p} : status'[q] = status[q]
      BY <1>0, <2>1 DEF Finish, Proceed, TypeOK
    <3> QED
      BY <1>0, <3>1 DEF StatusInv, TypeOK, Alive
  <2>2. CASE ~Finish(p)
    BY <1>0, <1>4, <2>2 DEF StatusInv, TypeOK, Process, Start, StartError, BecomeReady,
          StopRequested, StopOnFailure, StartupTimeout, UnexpectedExit,
          StopWithError, Proceed, OneError, Alive
  <2> QED
    BY <2>1, <2>2
<1>5. ASSUME NEW p \in Procs, ExitStatus(p) \/ WaitExit(p) PROVE StatusInv'
  <2>1. phase' = [phase EXCEPT ![p] = "reported"] /\ status' = status
    BY <1>5 DEF ExitStatus, WaitExit
  <2> QED
    BY <1>0, <2>1 DEF StatusInv, TypeOK, Alive
<1>6. ASSUME \/ CheckIdle \/ CloseAll \/ AllReported \/ CleanupFailed \/ CloseTimeout
             \/ Server \/ Tick \/ UNCHANGED vars
      PROVE  StatusInv'
  BY <1>1, <1>6 DEF CheckIdle, CloseAll, AllReported, CleanupFailed, CloseTimeout,
          StoreReturn, Server, ServerStop, StoreFailed, Tick, vars
<1> QED
  BY <1>2, <1>3, <1>4, <1>5, <1>6 DEF Next, Handler, Store

(* Every step of the store maps to a step, or a stutter, of each process.  *)
LEMMA LifeRefined ==
  ASSUME Inv, StatusInv, [Next]_vars, NEW p \in Procs
  PROVE  LifeStepOf(p)
<1> USE DEF mapVars, banVars, runVars, lifeVars, clientVars, LifeStepOf
<1>0. TypeOK /\ LifeInv /\ MapInv /\ HandlerInv
  BY DEF Inv
<1>1. ASSUME LifePhase(p)' = LifePhase(p), p \in readyClosed' <=> p \in readyClosed,
             p \in exitClosed' <=> p \in exitClosed,
             p \in failureClosed' <=> p \in failureClosed, status'[p] = status[p]
      PROVE  LifeStepOf(p)
  BY <1>1 DEF Life!vars
<1>2. ASSUME LifePhase(p)' = LifePhase(p), p \in readyClosed' <=> p \in readyClosed,
             p \notin exitClosed, p \in exitClosed', phase[p] # "none",
             p \in failureClosed' <=> p \in failureClosed, status'[p] = status[p]
      PROVE  LifeStepOf(p)
  BY <1>2 DEF Life!Next, Life!CloseExit, LifePhase
<1>3. ASSUME LifePhase(p)' = LifePhase(p), UNCHANGED <<readyClosed, failureClosed, status>>,
             NEW S, exitClosed' = ClosedWith(S)
      PROVE  LifeStepOf(p)
  <2>1. p \in exitClosed => p \in exitClosed'
    BY <1>3 DEF ClosedWith
  <2>2. p \in exitClosed' => phase[p] # "none"
    BY <1>3, ClosedExist
  <2> QED
    BY <1>1, <1>2, <1>3, <2>1, <2>2
<1>4. ASSUME NEW c \in Clients, Handler(c), ~ProxyFailed(c),
             ~(\E q \in Procs : GetNew(c, q))
      PROVE  LifeStepOf(p)
  <2>1. UNCHANGED <<phase, readyClosed, exitClosed, failureClosed, status>>
    BY <1>4 DEF Handler, Request, GetClosed, GetExisting, GetBanned, AwaitReady, ProxyOk
  <2> QED
    BY <1>1, <2>1 DEF LifePhase
<1>5. ASSUME NEW c \in Clients, NEW q \in Procs, GetNew(c, q) PROVE LifeStepOf(p)
  <2>1. /\ phase[q] = "none" /\ phase' = [phase EXCEPT ![q] = "created"]
        /\ UNCHANGED <<readyClosed, failureClosed, status>>
    BY <1>5 DEF GetNew
  <2>2. PICK gone : exitClosed' = ClosedWith(gone)
    BY <1>5 DEF GetNew
  <2>3. CASE q = p
    <3>1. LifePhase(p) = "none" /\ LifePhase(p)' = "created"
      BY <1>0, <2>1, <2>3 DEF LifePhase, TypeOK
    <3>2. p \notin exitClosed /\ p \notin exitClosed'
      BY <1>0, <2>1, <2>2, <2>3, ClosedExist DEF LifeInv
    <3> QED
      BY <2>1, <3>1, <3>2 DEF Life!Next, Life!Create
  <2>4. CASE q # p
    <3>1. LifePhase(p)' = LifePhase(p)
      BY <1>0, <2>1, <2>4 DEF LifePhase, TypeOK
    <3> QED
      BY <1>3, <2>1, <2>2, <3>1
  <2> QED
    BY <2>3, <2>4
<1>6. ASSUME NEW c \in Clients, ProxyFailed(c) PROVE LifeStepOf(p)
  <2>1. /\ handle[c] \in Procs /\ phase[handle[c]] # "none"
        /\ handle[c] \in readyClosed
        /\ failureClosed' = failureClosed \cup {handle[c]}
        /\ UNCHANGED <<phase, readyClosed, exitClosed, status>>
    BY <1>0, <1>6 DEF ProxyFailed, HandlerInv
  <2>2. CASE handle[c] = p /\ p \notin failureClosed
    BY <2>1, <2>2 DEF Life!Next, Life!CloseFailure, LifePhase
  <2>3. CASE ~(handle[c] = p /\ p \notin failureClosed)
    BY <1>1, <2>1, <2>3 DEF LifePhase
  <2> QED
    BY <2>2, <2>3
<1>7. ASSUME NEW q \in Procs, Process(q), q # p PROVE LifeStepOf(p)
  <2>1. /\ phase'[p] = phase[p] /\ status'[p] = status[p]
        /\ p \in readyClosed' <=> p \in readyClosed
        /\ UNCHANGED <<exitClosed, failureClosed>>
    BY <1>0, <1>7 DEF Process, Start, StartError, BecomeReady, StopRequested,
          StopOnFailure, StartupTimeout, UnexpectedExit, StopWithError, Finish,
          Proceed, TypeOK
  <2> QED
    BY <1>1, <2>1 DEF LifePhase
<1>8. ASSUME Process(p) PROVE LifeStepOf(p)
  <2>1. /\ LifePhase(p) = phase[p] /\ LifePhase(p)' = phase'[p]
        /\ UNCHANGED <<exitClosed, failureClosed>>
    BY <1>0, <1>8 DEF Process, Start, StartError, BecomeReady, StopRequested,
          StopOnFailure, StartupTimeout, UnexpectedExit, StopWithError, Finish,
          Proceed, TypeOK, LifePhase
  <2>2. CASE Start(p)
    BY <1>0, <2>1, <2>2 DEF Start, Proceed, TypeOK, Life!Next, Life!Start
  <2>3. CASE StartError(p)
    <3>1. status[p].cleanupFailed = FALSE /\ status'[p] = OneError
      BY <1>0, <2>3 DEF StatusInv, StartError, Proceed, Alive, TypeOK
    <3> QED
      BY <1>0, <2>1, <2>3, <3>1
         DEF StartError, Proceed, TypeOK, OneError, Life!Next, Life!StartError
  <2>4. CASE BecomeReady(p)
    BY <1>0, <2>1, <2>4 DEF BecomeReady, Proceed, TypeOK, Life!Next, Life!BecomeReady
  <2>5. CASE StopRequested(p)
    BY <1>0, <2>1, <2>5 DEF StopRequested, Proceed, TypeOK, Life!Next, Life!StopRequested
  <2>6. CASE StopOnFailure(p) \/ StartupTimeout(p) \/ UnexpectedExit(p)
    <3>1. /\ phase[p] \in {"starting", "serving"} /\ phase'[p] = "stopping"
          /\ status'[p] = OneError /\ readyClosed' = readyClosed
      BY <1>0, <2>6 DEF StopOnFailure, StartupTimeout, UnexpectedExit, StopWithError,
            Proceed, TypeOK
    <3>2. status[p].cleanupFailed = FALSE
      BY <3>1 DEF StatusInv, Alive
    <3>3. status'[p].errors = TRUE /\ status'[p].cleanupFailed = FALSE
      BY <3>1 DEF OneError
    <3>4. Life(p)!StopFailed
      BY <2>1, <3>1, <3>2, <3>3 DEF Life!StopFailed
    <3> QED
      BY <3>4 DEF Life!Next
  <2>7. CASE Finish(p)
    <3>1. PICK e \in BOOLEAN, cf \in BOOLEAN :
            /\ cf => e
            /\ status' = [status EXCEPT ![p] = [errors |-> status[p].errors \/ e,
                                                cleanupFailed |-> cf]]
      BY <2>7 DEF Finish
    <3>2. /\ status'[p].errors = (status[p].errors \/ e)
          /\ status'[p].cleanupFailed = cf
      BY <1>0, <3>1 DEF TypeOK
    <3>3. phase[p] = "stopping" /\ phase'[p] = "exited" /\ p \in readyClosed'
      BY <1>0, <2>7 DEF Finish, Proceed, TypeOK
    <3>4. Life(p)!Finish
      BY <2>1, <3>1, <3>2, <3>3 DEF Life!Finish
    <3> QED
      BY <3>4 DEF Life!Next
  <2> QED
    BY <1>8, <2>2, <2>3, <2>4, <2>5, <2>6, <2>7 DEF Process
<1>9. ASSUME NEW q \in Procs, ExitStatus(q) PROVE LifeStepOf(p)
  <2>1. /\ phase[q] = "exited" /\ phase' = [phase EXCEPT ![q] = "reported"]
        /\ exitClosed' = ClosedWith({owner[q]})
        /\ UNCHANGED <<readyClosed, failureClosed, status>>
    BY <1>9 DEF ExitStatus
  <2>2. LifePhase(p)' = LifePhase(p)
    BY <1>0, <2>1 DEF LifePhase, TypeOK
  <2> QED
    BY <1>3, <2>1, <2>2
<1>10. ASSUME CheckIdle \/ CloseAll PROVE LifeStepOf(p)
  <2>1. PICK S : exitClosed' = ClosedWith(S)
    BY <1>10 DEF CheckIdle, CloseAll
  <2>2. UNCHANGED <<phase, readyClosed, failureClosed, status>>
    BY <1>10 DEF CheckIdle, CloseAll
  <2> QED
    BY <1>3, <2>1, <2>2 DEF LifePhase
<1>11. ASSUME NEW q \in Procs, WaitExit(q) PROVE LifeStepOf(p)
  <2>1. /\ phase[q] = "exited" /\ phase' = [phase EXCEPT ![q] = "reported"]
        /\ UNCHANGED <<readyClosed, exitClosed, failureClosed, status>>
    BY <1>11 DEF WaitExit
  <2>2. LifePhase(p)' = LifePhase(p)
    BY <1>0, <2>1 DEF LifePhase, TypeOK
  <2> QED
    BY <1>1, <2>1, <2>2
<1>12. ASSUME \/ AllReported \/ CleanupFailed \/ CloseTimeout
              \/ Server \/ Tick \/ UNCHANGED vars
       PROVE  LifeStepOf(p)
  <2>1. UNCHANGED <<phase, readyClosed, exitClosed, failureClosed, status>>
    BY <1>12 DEF AllReported, CleanupFailed, CloseTimeout, StoreReturn,
          Server, ServerStop, StoreFailed, Tick, vars
  <2> QED
    BY <1>1, <2>1 DEF LifePhase
<1> QED
  BY <1>4, <1>5, <1>6, <1>7, <1>8, <1>9, <1>10, <1>11, <1>12
     DEF Next, Handler, Store

(* The process objects of the store implement ProcLife.                    *)
THEOREM ProcsImplementLife == Spec => ProcsFollowLife
<1>1. Init => StatusInv
  BY DEF Init, StatusInv, NoError
<1>2. Inv /\ StatusInv /\ [Next]_vars => StatusInv'
  BY StatusStep
<1>3. Init => \A p \in Procs : Life(p)!Init
  BY DEF Init, NoError, LifePhase, Life!Init
<1>4. Inv /\ StatusInv /\ [Next]_vars
        => [\A p \in Procs : Life(p)!Next \/ UNCHANGED Life(p)!vars]_vars
  BY LifeRefined DEF LifeStepOf
<1> QED
  BY <1>1, <1>2, <1>3, <1>4, Invariance, PTL DEF Spec, ProcsFollowLife
-----------------------------------------------------------------------------
(***************************************************************************)
(* What the store decides by the clock.                                    *)
(***************************************************************************)

(* What a step of the store may do to the map, unless it takes a status.   *)
InOrder ==
  \A u, v \in Mapped :
    procs'[u] # procs[u] /\ procs'[v] = procs[v] => accessed[u] <= accessed[v]

(* Only the process whose status was taken has a time of report.           *)
ReportInv ==
  \A p \in Procs : phase[p] # "reported" => reportedAt[p] = Never

(* The statuses of the select loop and of closeAll come once per process.  *)
LEMMA ReportStep == TypeOK /\ ReportInv /\ [Next]_vars => ReportInv'
<1> SUFFICES ASSUME TypeOK, ReportInv, [Next]_vars PROVE ReportInv'
  OBVIOUS
<1> USE DEF mapVars, banVars, runVars, lifeVars, clientVars, ReportInv
<1>1. ASSUME NEW c \in Clients, Handler(c) PROVE ReportInv'
  <2>1. ASSUME NEW p \in Procs, GetNew(c, p) PROVE ReportInv'
    BY <2>1 DEF GetNew, TypeOK
  <2>2. CASE ~(\E p \in Procs : GetNew(c, p))
    BY <1>1, <2>2 DEF Handler, Request, GetClosed, GetExisting, GetBanned, AwaitReady,
          ProxyOk, ProxyFailed
  <2> QED
    BY <2>1, <2>2
<1>2. ASSUME NEW p \in Procs, Process(p) PROVE ReportInv'
  <2>1. PICK to : \E from \in SUBSET Alive : Proceed(p, from, to)
    BY <1>2 DEF Process, Start, StartError, BecomeReady, StopRequested,
          StopOnFailure, StartupTimeout, UnexpectedExit, StopWithError, Finish, Alive
  <2>2. phase[p] # "reported" /\ UNCHANGED reportedAt
        /\ phase' = [phase EXCEPT ![p] = to]
    BY <2>1 DEF Proceed, Alive
  <2> QED
    BY <2>2 DEF TypeOK
<1>3. ASSUME NEW p \in Procs, ExitStatus(p) \/ WaitExit(p) PROVE ReportInv'
  BY <1>3 DEF ExitStatus, WaitExit, TypeOK
<1>4. ASSUME \/ CheckIdle \/ CloseAll \/ AllReported \/ CleanupFailed \/ CloseTimeout
             \/ Server \/ Tick \/ UNCHANGED vars
      PROVE  ReportInv'
  <2>1. UNCHANGED <<phase, reportedAt>>
    BY <1>4 DEF CheckIdle, CloseAll, AllReported, CleanupFailed, CloseTimeout,
          StoreReturn, Server, ServerStop, StoreFailed, Tick, vars
  <2> QED
    BY <2>1
<1> QED
  BY <1>1, <1>2, <1>3, <1>4 DEF Next, Store

(* removeIdle at any time takes the processes accessed before some time.   *)
LEMMA IdleAreOldest ==
  ASSUME TypeOK, NEW t \in Time, NEW u \in Idle(t), NEW v \in Mapped \ Idle(t),
         accessed[u] \in Time \cup {Never}, accessed[v] \in Time \cup {Never}
  PROVE  accessed[u] <= accessed[v]
BY DurationAssumption DEF Idle, Time, Never

(* Every step but the one that takes a status keeps to the order.          *)
LEMMA OrderStep ==
  Inv /\ ReportInv /\ [Next]_vars => (reportedAt' = reportedAt => InOrder)
<1> SUFFICES ASSUME Inv, ReportInv, [Next]_vars, reportedAt' = reportedAt,
                    NEW u \in Mapped, NEW v \in Mapped,
                    procs'[u] # procs[u], procs'[v] = procs[v]
             PROVE  accessed[u] <= accessed[v]
  BY DEF InOrder
<1> USE DEF mapVars, banVars, runVars, lifeVars, clientVars
<1>0. /\ TypeOK /\ u \in Users /\ v \in Users
      /\ accessed[u] \in Time \cup {Never} /\ accessed[v] \in Time \cup {Never}
      /\ procs[u] # NoProc /\ procs[v] # NoProc
      /\ now \in Time /\ idleCheckAt \in Time
  BY DEF Inv, TypeOK, Mapped
<1>1. ASSUME NEW c \in Clients, NEW p \in Procs, GetNew(c, p)
      PROVE  accessed[u] <= accessed[v]
  <2> DEFINE left == Mapped \ Idle(now)
  <2>1. PICK victims \in Victims(left) :
          procs' = [ProcsWithout(Idle(now) \cup victims) EXCEPT ![user[c]] = p]
    BY <1>1 DEF GetNew
  <2>2. u # user[c] /\ v # user[c]
    BY <1>0, <1>1 DEF GetNew
  <2>3. u \in Idle(now) \cup victims /\ v \notin Idle(now) \cup victims
    BY <1>0, <2>1, <2>2 DEF ProcsWithout
  <2>4. CASE u \in Idle(now)
    BY <1>0, <2>3, <2>4, IdleAreOldest
  <2>5. CASE u \in victims
    BY <2>3, <2>5 DEF Victims, Oldest
  <2> QED
    BY <2>3, <2>4, <2>5
<1>2. ASSUME CheckIdle PROVE accessed[u] <= accessed[v]
  <2>1. procs' = ProcsWithout(Idle(idleCheckAt))
    BY <1>2 DEF CheckIdle
  <2>2. u \in Idle(idleCheckAt) /\ v \notin Idle(idleCheckAt)
    BY <1>0, <2>1 DEF ProcsWithout
  <2> QED
    BY <1>0, <2>2, IdleAreOldest
<1>3. ASSUME NEW p \in Procs, ExitStatus(p) PROVE FALSE
  <2>1. reportedAt[p] = Never /\ reportedAt'[p] = now
    BY <1>0, <1>3 DEF ExitStatus, ReportInv, TypeOK
  <2> QED
    BY <1>0, <2>1 DEF Never, Time
<1>4. ASSUME \/ \E c \in Clients : Handler(c) /\ ~(\E p \in Procs : GetNew(c, p))
             \/ \E p \in Procs : Process(p) \/ WaitExit(p)
             \/ CloseAll \/ AllReported \/ CleanupFailed \/ CloseTimeout
             \/ Server \/ Tick \/ UNCHANGED vars
      PROVE  FALSE
  <2>1. CASE \E c \in Clients : Handler(c) /\ ~(\E p \in Procs : GetNew(c, p))
    BY <2>1 DEF Handler, Request, GetClosed, GetExisting, GetBanned, AwaitReady,
          ProxyOk, ProxyFailed
  <2>2. CASE \E p \in Procs : Process(p)
    BY <2>2 DEF Process, Start, StartError, BecomeReady, StopRequested,
          StopOnFailure, StartupTimeout, UnexpectedExit, StopWithError, Finish, Proceed
  <2>3. CASE \/ \E p \in Procs : WaitExit(p)
             \/ CloseAll \/ AllReported \/ CleanupFailed \/ CloseTimeout
             \/ Server \/ Tick \/ UNCHANGED vars
    BY <2>3 DEF WaitExit, CloseAll, AllReported, CleanupFailed, CloseTimeout,
          StoreReturn, Server, ServerStop, StoreFailed, Tick, vars
  <2> QED
    BY <1>4, <2>1, <2>2, <2>3
<1> QED
  BY <1>1, <1>2, <1>3, <1>4 DEF Next, Handler, Store

(* Processes leave the map from its least recently used end, whether       *)
(* removeIdle, the idle check or the limit takes them.                     *)
THEOREM LeastRecentLeave == Spec => LeastRecentGoFirst
<1>1. Init => ReportInv
  BY DEF Init, ReportInv
<1>2. TypeOK /\ ReportInv /\ [Next]_vars => ReportInv'
  BY ReportStep
<1>3. Inv => TypeOK
  BY DEF Inv
<1>4. Inv /\ ReportInv /\ [Next]_vars => [reportedAt' = reportedAt => InOrder]_vars
  BY OrderStep
<1>5. Spec => [][reportedAt' = reportedAt => InOrder]_vars
  BY <1>1, <1>2, <1>3, <1>4, Invariance, PTL DEF Spec
<1> QED
  BY <1>5 DEF LeastRecentGoFirst, InOrder
-----------------------------------------------------------------------------
(***************************************************************************)
(* Bans.  The store keeps lists of times, and forgets; the properties are  *)
(* about the processes that failed.  What relates the two is a witness: to *)
(* each time of a list belongs a process of its own that failed then.      *)
(***************************************************************************)

Reported == {p \in Procs : reportedAt[p] # Never}

FailedProcs(u) == {p \in Reported : owner[p] = u /\ status[p].errors}

(* Nothing is from the future, and only so many have failed.               *)
PastInv ==
  /\ ReportInv
  /\ IsFiniteSet(Reported)
  /\ \A p \in Procs : reportedAt[p] <= now
  /\ \A u \in Users : banned[u] <= now

(* A list of failures in the order of time, none of them after t.          *)
Sorted(fs, t) ==
  \A i, j \in 1..Len(fs) : i <= j => fs[i] <= fs[j] /\ fs[j] <= t

(* g gives each failure of the list fs, of a user whose processes F failed *)
(* at the times at, one of these processes; every one that it does not     *)
(* give is too old to matter at t, or was punished by the ban of b.        *)
Explains(g, fs, F, at, b, t) ==
  /\ g \in Injection(1..Len(fs), F)
  /\ \A i \in 1..Len(fs) : at[g[i]] = fs[i]
  /\ \A p \in F : \/ at[p] <= t - RecoveryTime
                  \/ \E i \in 1..Len(fs) : g[i] = p
                  \/ b # Never /\ at[p] <= b

(* No list is as long as it takes for a ban.                               *)
ListInv ==
  \A u \in Users :
    /\ Len(failures[u]) <= MaxFailures
    /\ Sorted(failures[u], now)
    /\ \E g : Explains(g, failures[u], FailedProcs(u), reportedAt, banned[u], now)

BanInv == PastInv /\ ListInv /\ BanIsEarned

(* discardFailures drops exactly the failures that are too old, as the     *)
(* list is in the order of time.                                           *)
LEMMA DiscardsOld ==
  ASSUME NEW fs \in Seq(Time), NEW t \in Int,
         \A i, j \in 1..Len(fs) : i <= j => fs[i] <= fs[j]
  PROVE  \E k \in 0..Len(fs) :
           /\ Discard(fs, t) = SubSeq(fs, k + 1, Len(fs))
           /\ \A i \in 1..k : t - fs[i] >= RecoveryTime
           /\ \A i \in (k + 1)..Len(fs) : t - fs[i] < RecoveryTime
<1> DEFINE n == Len(fs)
           old == {i \in 1..n : \A j \in 1..i : t - fs[j] >= RecoveryTime}
           k == Cardinality(old)
<1>1. n \in Nat /\ IsFiniteSet(1..n) /\ Cardinality(1..n) = n
  BY FS_Interval DEF Time
<1>2. IsFiniteSet(old) /\ k \in Nat /\ k <= n
  BY <1>1, FS_Subset, FS_CardinalityType
<1>3. old \subseteq 1..k
  <2>0. ASSUME \A i \in old : ~(i > k) PROVE old \subseteq 1..k
    <3>1. old \subseteq 1..n
      OBVIOUS
    <3> HIDE DEF old
    <3> QED
      BY <1>1, <1>2, <2>0, <3>1
  <2> SUFFICES ASSUME NEW i \in old, i > k PROVE FALSE
    BY <2>0
  <2>1. i \in Nat /\ Cardinality(1..i) = i
    BY <1>1, FS_Interval
  <2>2. 1..i \subseteq old
    BY <1>1, <2>1
  <2>3. i <= k
    BY <1>2, <2>1, <2>2, FS_Subset
  <2> QED
    BY <1>2, <2>1, <2>3
<1>4. old = 1..k
  <2>1. IsFiniteSet(1..k) /\ Cardinality(1..k) = k
    BY <1>2, FS_Interval
  <2> HIDE DEF old
  <2> QED
    BY <1>3, <2>1, FS_Subset
<1>5. \A i \in 1..k : t - fs[i] >= RecoveryTime
  BY <1>2, <1>4
<1>6. \A i \in (k + 1)..n : t - fs[i] < RecoveryTime
  <2> SUFFICES ASSUME NEW i \in (k + 1)..n PROVE t - fs[i] < RecoveryTime
    OBVIOUS
  <2>1. k + 1 \in 1..n /\ k + 1 \notin 1..k /\ i \in 1..n
    <3> HIDE DEF k
    <3> QED
      BY <1>1, <1>2
  <2>2. PICK j \in 1..(k + 1) : ~(t - fs[j] >= RecoveryTime)
    BY <1>4, <2>1
  <2>3. j <= i /\ j \in 1..n
    <3> HIDE DEF k
    <3> QED
      BY <1>1, <1>2, <2>1, <2>2
  <2>4. fs[j] <= fs[i] /\ fs[j] \in Int /\ fs[i] \in Int
    BY <2>1, <2>3 DEF Time
  <2> QED
    BY <2>2, <2>4, DurationAssumption
<1>7. Discard(fs, t) = SubSeq(fs, k + 1, n)
  BY DEF Discard
<1> HIDE DEF k, old
<1> QED
  BY <1>1, <1>2, <1>5, <1>6, <1>7

(* What is left of a list when its first k elements are cut off.           *)
LEMMA RestOfList ==
  ASSUME NEW fs \in Seq(Int), NEW k \in 0..Len(fs)
  PROVE  /\ Len(SubSeq(fs, k + 1, Len(fs))) = Len(fs) - k
         /\ \A i \in 1..(Len(fs) - k) :
              SubSeq(fs, k + 1, Len(fs))[i] = fs[i + k] /\ i + k \in 1..Len(fs)
<1>1. Len(fs) \in Nat /\ k + 1 \in 1..(Len(fs) + 1)
  OBVIOUS
<1>2. Len(SubSeq(fs, k + 1, Len(fs))) = Len(fs) - k
  BY <1>1
<1>3. ASSUME NEW i \in 1..(Len(fs) - k)
      PROVE  SubSeq(fs, k + 1, Len(fs))[i] = fs[i + k] /\ i + k \in 1..Len(fs)
  BY <1>1, SMTT(30)
<1> QED
  BY <1>2, <1>3

(* A list that lost only failures too old is still explained, at a later   *)
(* time, also when a ban as old was lifted.                                *)
LEMMA RestExplained ==
  ASSUME NEW fs \in Seq(Time), NEW F, NEW at, \A p \in F : at[p] \in Int,
         NEW b \in Int, NEW t \in Int, NEW g, Explains(g, fs, F, at, b, t),
         NEW k \in 0..Len(fs), \A i \in 1..k : t - fs[i] >= RecoveryTime,
         NEW c \in Int, c = b \/ t - b >= RecoveryTime,
         NEW s \in Int, t <= s
  PROVE  \E h : Explains(h, SubSeq(fs, k + 1, Len(fs)), F, at, c, s)
<1> DEFINE n == Len(fs)
           rest == SubSeq(fs, k + 1, n)
           h == [i \in 1..(n - k) |-> g[i + k]]
<1>1. n \in Nat /\ RecoveryTime \in Nat
  BY DurationAssumption DEF Time
<1>2. Len(rest) = n - k /\ \A i \in 1..(n - k) : rest[i] = fs[i + k] /\ i + k \in 1..n
  <2>1. fs \in Seq(Int)
    BY DEF Time
  <2> QED
    BY <2>1, RestOfList
<1>3. g \in [1..n -> F] /\ \A i, j \in 1..n : g[i] = g[j] => i = j
  BY DEF Explains, Injection, IsInjective
<1>4. h \in Injection(1..(n - k), F)
  <2>1. h \in [1..(n - k) -> F]
    BY <1>2, <1>3
  <2>2. ASSUME NEW i \in 1..(n - k), NEW j \in 1..(n - k), h[i] = h[j] PROVE i = j
    <3>1. g[i + k] = g[j + k] /\ i + k \in 1..n /\ j + k \in 1..n
      BY <1>2, <2>2
    <3>2. i + k = j + k
      BY <1>3, <3>1
    <3> QED
      BY <1>1, <3>2
  <2> QED
    BY <2>1, <2>2 DEF Injection, IsInjective
<1>5. \A i \in 1..(n - k) : at[h[i]] = rest[i]
  BY <1>2 DEF Explains
<1> DEFINE Settled(p) == \/ at[p] <= s - RecoveryTime
                         \/ \E i \in 1..(n - k) : h[i] = p
                         \/ c # Never /\ at[p] <= c
<1>6. ASSUME NEW p \in F PROVE Settled(p)
  <2>1. at[p] \in Int
    OBVIOUS
  <2>2. CASE at[p] <= t - RecoveryTime
    BY <1>1, <2>1, <2>2
  <2>3. CASE b # Never /\ at[p] <= b
    BY <1>1, <2>1, <2>3
  <2>4. ASSUME NEW i \in 1..n, g[i] = p PROVE Settled(p)
    <3>1. at[p] = fs[i]
      BY <2>4 DEF Explains
    <3>2. CASE i <= k
      BY <1>1, <2>1, <3>1, <3>2
    <3>3. CASE i > k
      <4>1. i - k \in 1..(n - k) /\ (i - k) + k = i
        BY <1>1, <3>3
      <4>2. h[i - k] = p
        BY <2>4, <4>1
      <4> QED
        BY <4>1, <4>2
    <3> QED
      BY <1>1, <3>2, <3>3
  <2> QED
    BY <2>2, <2>3, <2>4 DEF Explains
<1> HIDE DEF h, rest
<1>7. Explains(h, rest, F, at, c, s)
  BY <1>2, <1>4, <1>5, <1>6 DEF Explains
<1> QED
  BY <1>7 DEF rest

(* One failure more, of a process that had not failed.                     *)
LEMMA OneMoreExplained ==
  ASSUME NEW fs \in Seq(Time), NEW F, NEW at, NEW b, NEW t \in Time,
         NEW g, Explains(g, fs, F, at, b, t),
         NEW q, q \notin F, NEW after, after[q] = t, \A p \in F : after[p] = at[p]
  PROVE  \E h : Explains(h, Append(fs, t), F \cup {q}, after, b, t)
<1> DEFINE n == Len(fs)
           more == Append(fs, t)
           h == [i \in 1..(n + 1) |-> IF i <= n THEN g[i] ELSE q]
<1>1. n \in Nat
  BY DEF Time
<1>2. Len(more) = n + 1 /\ more[n + 1] = t /\ \A i \in 1..n : more[i] = fs[i]
  BY <1>1 DEF Time
<1>3. g \in [1..n -> F] /\ \A i, j \in 1..n : g[i] = g[j] => i = j
  BY DEF Explains, Injection, IsInjective
<1>4. /\ h[n + 1] = q /\ \A i \in 1..n : h[i] = g[i] /\ i \in 1..(n + 1)
      /\ \A i \in 1..(n + 1) : i \in 1..n \/ i = n + 1
  BY <1>1
<1>5. h \in Injection(1..(n + 1), F \cup {q})
  <2>1. h \in [1..(n + 1) -> F \cup {q}]
    BY <1>3, <1>4
  <2> HIDE DEF h
  <2>2. ASSUME NEW i \in 1..(n + 1), NEW j \in 1..(n + 1), h[i] = h[j] PROVE i = j
    BY <1>3, <1>4, <2>2
  <2> QED
    BY <2>1, <2>2 DEF Injection, IsInjective
<1> HIDE DEF h
<1>6. \A i \in 1..(n + 1) : after[h[i]] = more[i]
  BY <1>2, <1>3, <1>4 DEF Explains
<1>7. \A p \in F \cup {q} : \/ after[p] <= t - RecoveryTime
                            \/ \E i \in 1..(n + 1) : h[i] = p
                            \/ b # Never /\ after[p] <= b
  <2>1. n + 1 \in 1..(n + 1)
    BY <1>1
  <2> QED
    BY <1>4, <2>1 DEF Explains
<1> HIDE DEF more
<1>8. Explains(h, more, F \cup {q}, after, b, t)
  BY <1>2, <1>5, <1>6, <1>7 DEF Explains
<1> QED
  BY <1>8 DEF more

(* What is dropped from the front of a list leaves it in order.            *)
LEMMA RestSorted ==
  ASSUME NEW fs \in Seq(Time), NEW t \in Int, Sorted(fs, t), NEW k \in 0..Len(fs),
         NEW s \in Int, t <= s
  PROVE  /\ Sorted(SubSeq(fs, k + 1, Len(fs)), s)
         /\ Len(SubSeq(fs, k + 1, Len(fs))) <= Len(fs)
<1> DEFINE n == Len(fs)
           rest == SubSeq(fs, k + 1, n)
<1>1. n \in Nat /\ \A i \in 1..n : fs[i] \in Int
  BY DEF Time
<1>2. Len(rest) = n - k /\ \A i \in 1..(n - k) : rest[i] = fs[i + k]
  <2>1. fs \in Seq(Int)
    BY DEF Time
  <2> QED
    BY <2>1, RestOfList
<1>3. ASSUME NEW i \in 1..(n - k), NEW j \in 1..(n - k), i <= j
      PROVE  rest[i] <= rest[j] /\ rest[j] <= s
  <2>1. i + k \in 1..n /\ j + k \in 1..n /\ i + k <= j + k
    BY <1>1, <1>3
  <2>2. fs[i + k] <= fs[j + k] /\ fs[j + k] <= t
    BY <2>1 DEF Sorted
  <2>3. rest[i] = fs[i + k] /\ rest[j] = fs[j + k]
    BY <1>2
  <2> QED
    BY <1>1, <2>1, <2>2, <2>3
<1> HIDE DEF rest
<1> QED
  BY <1>1, <1>2, <1>3 DEF Sorted, rest

(* A failure that comes now leaves the failures in order.                  *)
LEMMA OneMoreSorted ==
  ASSUME NEW fs \in Seq(Time), NEW t \in Time, Sorted(fs, t)
  PROVE  Sorted(Append(fs, t), t)
<1> DEFINE n == Len(fs)
<1>1. n \in Nat /\ t \in Int /\ Len(Append(fs, t)) = n + 1 /\ Append(fs, t)[n + 1] = t
      /\ \A i \in 1..n : Append(fs, t)[i] = fs[i]
  BY DEF Time
<1>2. \A i \in 1..(n + 1) : i \in 1..n \/ i = n + 1
  BY <1>1
<1>3. \A i \in 1..n : fs[i] <= t
  BY <1>1 DEF Sorted
<1> QED
  BY <1>1, <1>2, <1>3 DEF Sorted

(* What a step does to the failed processes: unless it takes a status, it  *)
(* leaves them alone, and it never changes those there are.                *)
LEMMA ReportedStay ==
  ASSUME Inv, PastInv, [Next]_vars
  PROVE  /\ \A p \in Reported : /\ p \in Reported' /\ reportedAt'[p] = reportedAt[p]
                                /\ owner'[p] = owner[p] /\ status'[p] = status[p]
         /\ reportedAt' = reportedAt \/ \E p \in Procs : ExitStatus(p)
<1> USE DEF mapVars, banVars, runVars, lifeVars, clientVars
<1>0. /\ TypeOK /\ \A p \in Reported : p \in Procs /\ phase[p] = "reported"
  BY DEF Inv, PastInv, ReportInv, Reported
<1> DEFINE OwnersKept == /\ reportedAt' = reportedAt /\ status' = status
                         /\ \A p \in Reported : owner'[p] = owner[p]
<1>1. ASSUME NEW c \in Clients, Handler(c) PROVE OwnersKept
  <2>1. ASSUME NEW q \in Procs, GetNew(c, q) PROVE OwnersKept
    BY <1>0, <2>1 DEF GetNew, TypeOK
  <2>2. CASE ~(\E q \in Procs : GetNew(c, q))
    BY <1>1, <2>2 DEF Handler, Request, GetClosed, GetExisting, GetBanned, AwaitReady,
          ProxyOk, ProxyFailed
  <2> QED
    BY <2>1, <2>2
<1>2. ASSUME NEW q \in Procs, Process(q)
      PROVE  /\ reportedAt' = reportedAt /\ owner' = owner
             /\ \A p \in Reported : status'[p] = status[p]
  <2>1. phase[q] # "reported" /\ UNCHANGED <<reportedAt, owner>>
        /\ \A p \in Procs \ {q} : status'[p] = status[p]
    BY <1>0, <1>2 DEF Process, Start, StartError, BecomeReady, StopRequested,
          StopOnFailure, StartupTimeout, UnexpectedExit, StopWithError, Finish, Proceed, TypeOK
  <2> QED
    BY <1>0, <2>1
<1>3. ASSUME NEW q \in Procs, ExitStatus(q)
      PROVE  /\ UNCHANGED <<owner, status>>
             /\ \A p \in Reported : reportedAt'[p] = reportedAt[p]
  BY <1>0, <1>3 DEF ExitStatus, TypeOK
<1>4. ASSUME \/ \E p \in Procs : WaitExit(p)
             \/ CheckIdle \/ CloseAll \/ AllReported \/ CleanupFailed \/ CloseTimeout
             \/ Server \/ Tick \/ UNCHANGED vars
      PROVE  UNCHANGED <<reportedAt, owner, status>>
  BY <1>4 DEF WaitExit, CheckIdle, CloseAll, AllReported, CleanupFailed, CloseTimeout,
        StoreReturn, Server, ServerStop, StoreFailed, Tick, vars
<1>5. /\ \A p \in Reported : /\ reportedAt'[p] = reportedAt[p]
                             /\ owner'[p] = owner[p] /\ status'[p] = status[p]
      /\ reportedAt' = reportedAt \/ \E p \in Procs : ExitStatus(p)
  BY <1>1, <1>2, <1>3, <1>4 DEF Next, Store
<1> QED
  BY <1>0, <1>5 DEF Reported

(* What a step does to the lists, the bans and the clock.                  *)
QuietStep ==
  UNCHANGED <<now, failures, banned, reportedAt>>

TickStep ==
  now' = now + 1 /\ UNCHANGED <<failures, banned, reportedAt>>

UnbanStep ==
  /\ \E u \in Users : ~IsBanned(u) /\ banned' = Unbanned(u)
  /\ UNCHANGED <<now, failures, reportedAt>>

CleanStep ==
  /\ idleCheckAt <= now
  /\ CleanupFailures(idleCheckAt)
  /\ UNCHANGED <<now, reportedAt>>

FailStep ==
  \E p \in Procs :
    /\ phase[p] = "exited" /\ owner[p] \in Users
    /\ reportedAt' = [reportedAt EXCEPT ![p] = now]
    /\ IF status[p].errors THEN CountFailure(owner[p]) ELSE UNCHANGED banVars
    /\ UNCHANGED <<now, owner, status>>

(* What a step does to the times and failures: nothing, or one of four     *)
(* things.                                                                 *)
LEMMA TimeSteps ==
  ASSUME Inv, [Next]_vars
  PROVE  QuietStep \/ TickStep \/ UnbanStep \/ CleanStep \/ FailStep
<1> USE DEF mapVars, banVars, runVars, lifeVars, clientVars
<1>0. TypeOK /\ LifeInv /\ HandlerInv
  BY DEF Inv
<1>1. ASSUME NEW c \in Clients, Handler(c) PROVE QuietStep \/ UnbanStep
  <2>1. ASSUME NEW q \in Procs, GetNew(c, q) PROVE UnbanStep
    <3>1. user[c] \in Users
      BY <1>0, <2>1 DEF GetNew, Asks, HandlerInv
    <3> QED
      BY <2>1, <3>1 DEF GetNew, UnbanStep
  <2>2. CASE ~(\E q \in Procs : GetNew(c, q))
    BY <1>1, <2>2 DEF Handler, Request, GetClosed, GetExisting, GetBanned, AwaitReady,
          ProxyOk, ProxyFailed, QuietStep
  <2> QED
    BY <2>1, <2>2
<1>2. ASSUME NEW q \in Procs, Process(q) PROVE QuietStep
  BY <1>2 DEF Process, Start, StartError, BecomeReady, StopRequested,
        StopOnFailure, StartupTimeout, UnexpectedExit, StopWithError, Finish, Proceed, QuietStep
<1>3. ASSUME NEW q \in Procs, ExitStatus(q) PROVE FailStep
  <2>1. owner[q] \in Users
    BY <1>0, <1>3 DEF ExitStatus, LifeInv
  <2> QED
    BY <1>3, <2>1 DEF ExitStatus, FailStep
<1>4. ASSUME CheckIdle PROVE CleanStep
  BY <1>0, <1>4 DEF CheckIdle, CleanStep, TypeOK, Time
<1>5. ASSUME Tick PROVE TickStep
  BY <1>5 DEF Tick, TickStep
<1>6. ASSUME \/ \E p \in Procs : WaitExit(p)
             \/ CloseAll \/ AllReported \/ CleanupFailed \/ CloseTimeout
             \/ Server \/ UNCHANGED vars
      PROVE  QuietStep
  BY <1>6 DEF WaitExit, CloseAll, AllReported, CleanupFailed, CloseTimeout,
        StoreReturn, Server, ServerStop, StoreFailed, vars, QuietStep
<1> QED
  BY <1>1, <1>2, <1>3, <1>4, <1>5, <1>6 DEF Next, Store

(* The processes that have failed stay so; a status makes one more.        *)
LEMMA FailedStay ==
  ASSUME Inv, PastInv, [Next]_vars, reportedAt' = reportedAt, NEW u
  PROVE  FailedProcs(u)' = FailedProcs(u)
<1>1. Reported' = Reported
  BY DEF Reported
<1>2. \A p \in Reported : owner'[p] = owner[p] /\ status'[p] = status[p]
  BY ReportedStay
<1> QED
  BY <1>1, <1>2 DEF FailedProcs

(* A process that is reported is one more reported, and one more failed if *)
(* it ended with errors.                                                   *)
LEMMA OneMoreFailed ==
  ASSUME Inv, PastInv, NEW p \in Procs, phase[p] = "exited",
         reportedAt' = [reportedAt EXCEPT ![p] = now], UNCHANGED <<owner, status>>
  PROVE  /\ p \notin Reported /\ Reported' = Reported \cup {p}
         /\ reportedAt'[p] = now
         /\ \A q \in Reported : reportedAt'[q] = reportedAt[q]
         /\ \A u : FailedProcs(u)' = IF owner[p] = u /\ status[p].errors
                                     THEN FailedProcs(u) \cup {p} ELSE FailedProcs(u)
<1>1. TypeOK /\ reportedAt[p] = Never /\ now # Never
  BY DEF Inv, PastInv, ReportInv, TypeOK, Time, Never
<1>2. /\ p \notin Reported /\ Reported' = Reported \cup {p} /\ reportedAt'[p] = now
      /\ \A q \in Reported : reportedAt'[q] = reportedAt[q]
  BY <1>1 DEF Reported, TypeOK
<1> QED
  BY <1>2 DEF FailedProcs

(* Every step keeps what is known of the past of the failures.             *)
LEMMA PastStep ==
  ASSUME Inv, PastInv, [Next]_vars
  PROVE  PastInv'
<1>0. TypeOK /\ TypeOK' /\ now \in Int /\ now' \in Int
  BY StepInv DEF Inv, TypeOK, Time
<1>1. ReportInv'
  BY ReportStep DEF Inv, PastInv
<1>2. CASE QuietStep \/ TickStep \/ UnbanStep \/ CleanStep
  <2>1. reportedAt' = reportedAt /\ now <= now'
    BY <1>0, <1>2 DEF QuietStep, TickStep, UnbanStep, CleanStep
  <2>2. IsFiniteSet(Reported')
    BY <2>1 DEF PastInv, Reported
  <2>3. \A u \in Users : banned'[u] = banned[u] \/ banned'[u] = Never
    BY <1>0, <1>2 DEF QuietStep, TickStep, UnbanStep, Unbanned, CleanStep, CleanupFailures, TypeOK
  <2>4. \A p \in Procs : reportedAt[p] \in Int /\ reportedAt[p] <= now
    BY <1>0 DEF PastInv, TypeOK, Time, Never
  <2>5. \A u \in Users : banned[u] \in Int /\ banned[u] <= now /\ Never <= now /\ Never \in Int
    BY <1>0 DEF PastInv, TypeOK, Time, Never
  <2>6. \A p \in Procs : reportedAt'[p] <= now'
    BY <1>0, <2>1, <2>4
  <2>7. \A u \in Users : banned'[u] <= now'
    BY <1>0, <2>1, <2>3, <2>5
  <2> QED
    BY <1>1, <2>2, <2>6, <2>7 DEF PastInv
<1>3. CASE FailStep
  <2>1. PICK p \in Procs :
          /\ phase[p] = "exited"
          /\ reportedAt' = [reportedAt EXCEPT ![p] = now]
          /\ IF status[p].errors THEN CountFailure(owner[p]) ELSE UNCHANGED banVars
          /\ UNCHANGED <<now, owner, status>>
    BY <1>3 DEF FailStep
  <2>2. Reported' = Reported \cup {p}
    BY <2>1, OneMoreFailed
  <2>3. IsFiniteSet(Reported')
    BY <2>2, FS_AddElement DEF PastInv
  <2>4. \A u \in Users : banned'[u] = banned[u] \/ banned'[u] = now
    BY <1>0, <2>1 DEF CountFailure, TypeOK, banVars
  <2>5. \A q \in Procs : reportedAt'[q] = reportedAt[q] \/ reportedAt'[q] = now
    BY <1>0, <2>1 DEF TypeOK
  <2> QED
    BY <1>0, <1>1, <2>1, <2>3, <2>4, <2>5 DEF PastInv
<1> QED
  BY <1>2, <1>3, TimeSteps

(* The facts about one user's list that the lemmas about lists ask for.    *)
LEMMA ListFacts ==
  ASSUME Inv, PastInv, ListInv, NEW u \in Users
  PROVE  /\ failures[u] \in Seq(Time) /\ Len(failures[u]) \in Nat
         /\ now \in Time /\ now \in Int /\ banned[u] \in Int /\ MaxFailures \in Nat
         /\ \A p \in FailedProcs(u) : reportedAt[p] \in Int /\ reportedAt[p] <= now
         /\ Sorted(failures[u], now) /\ Len(failures[u]) <= MaxFailures
         /\ \A i, j \in 1..Len(failures[u]) : i <= j => failures[u][i] <= failures[u][j]
<1>1. TypeOK
  BY DEF Inv
<1> QED
  BY <1>1, OptionAssumption DEF TypeOK, ListInv, PastInv, Time, Never, Sorted, FailedProcs, Reported

(* A list from which old failures may have been dropped.                   *)
LEMMA ListKept ==
  ASSUME Inv, PastInv, ListInv, NEW u \in Users, NEW k \in 0..Len(failures[u]),
         failures'[u] = SubSeq(failures[u], k + 1, Len(failures[u])),
         \A i \in 1..k : now - failures[u][i] >= RecoveryTime,
         now' \in Int, now <= now',
         banned'[u] \in Int, banned'[u] = banned[u] \/ now - banned[u] >= RecoveryTime,
         FailedProcs(u)' = FailedProcs(u),
         \A p \in FailedProcs(u) : reportedAt'[p] = reportedAt[p]
  PROVE  /\ Len(failures'[u]) <= MaxFailures
         /\ Sorted(failures'[u], now')
         /\ \E g : Explains(g, failures'[u], FailedProcs(u)', reportedAt', banned'[u], now')
<1>1. PICK g : Explains(g, failures[u], FailedProcs(u), reportedAt, banned[u], now)
  BY DEF ListInv
<1>2. Explains(g, failures[u], FailedProcs(u), reportedAt', banned[u], now)
  BY <1>1 DEF Explains, Injection
<1>3. \A p \in FailedProcs(u) : reportedAt'[p] \in Int
  BY ListFacts
<1>4. \E h : Explains(h, failures'[u], FailedProcs(u), reportedAt', banned'[u], now')
  <2>1. failures[u] \in Seq(Time) /\ now \in Int /\ banned[u] \in Int
    BY ListFacts
  <2>2. \E h : Explains(h, SubSeq(failures[u], k + 1, Len(failures[u])), FailedProcs(u),
                        reportedAt', banned'[u], now')
    BY <1>2, <1>3, <2>1, RestExplained
  <2> QED
    BY <2>2
<1>5. Sorted(failures'[u], now') /\ Len(failures'[u]) <= Len(failures[u])
  BY ListFacts, RestSorted
<1>6. Len(failures'[u]) <= MaxFailures
  <2>1. failures'[u] \in Seq(Time)
    BY ListFacts
  <2>2. Len(failures'[u]) \in Nat
    BY <2>1 DEF Time
  <2> QED
    BY <1>5, <2>2, ListFacts
<1> QED
  BY <1>4, <1>5, <1>6

(* What the run loop makes of the list of u when a process of u fails.     *)
LEMMA Recent ==
  ASSUME Inv, PastInv, ListInv, NEW u \in Users
  PROVE  \E recent, g :
           /\ Discard(failures[u], now) = recent
           /\ recent \in Seq(Time) /\ Len(recent) \in Nat /\ Len(recent) <= MaxFailures
           /\ Sorted(recent, now)
           /\ \A i \in 1..Len(recent) : now - recent[i] < RecoveryTime
           /\ Explains(g, recent, FailedProcs(u), reportedAt, banned[u], now)
<1> DEFINE fs == failures[u]
           n == Len(fs)
<1>0. /\ fs \in Seq(Time) /\ n \in Nat /\ now \in Int /\ banned[u] \in Int /\ MaxFailures \in Nat
      /\ \A p \in FailedProcs(u) : reportedAt[p] \in Int
      /\ Sorted(fs, now) /\ n <= MaxFailures
      /\ \A i, j \in 1..n : i <= j => fs[i] <= fs[j]
  BY ListFacts
<1>1. PICK k \in 0..n : /\ Discard(fs, now) = SubSeq(fs, k + 1, n)
                        /\ \A i \in 1..k : now - fs[i] >= RecoveryTime
                        /\ \A i \in (k + 1)..n : now - fs[i] < RecoveryTime
  BY <1>0, DiscardsOld
<1>2. PICK f : Explains(f, fs, FailedProcs(u), reportedAt, banned[u], now)
  BY DEF ListInv
<1>3. \E g : Explains(g, SubSeq(fs, k + 1, n), FailedProcs(u), reportedAt, banned[u], now)
  <2>1. now <= now /\ \A i \in 1..k : now - fs[i] >= RecoveryTime
    BY <1>0, <1>1
  <2> HIDE DEF fs
  <2> QED
    BY <1>0, <1>2, <2>1, RestExplained
<1>4. /\ Sorted(SubSeq(fs, k + 1, n), now)
      /\ Len(SubSeq(fs, k + 1, n)) <= n
  BY <1>0, RestSorted
<1>5. /\ SubSeq(fs, k + 1, n) \in Seq(Time)
      /\ Len(SubSeq(fs, k + 1, n)) = n - k
      /\ \A i \in 1..(n - k) : SubSeq(fs, k + 1, n)[i] = fs[i + k] /\ i + k \in (k + 1)..n
  <2>1. n - k \in Nat /\ \A i \in 1..(n - k) : i + k \in (k + 1)..n /\ i + k \in 1..n
    BY <1>0
  <2> HIDE DEF fs
  <2>2. Len(SubSeq(fs, k + 1, n)) = n - k
        /\ \A i \in 1..(n - k) : SubSeq(fs, k + 1, n)[i] = fs[i + k]
    <3>1. fs \in Seq(Int)
      BY <1>0 DEF Time
    <3> QED
      BY <3>1, RestOfList
  <2> QED
    BY <1>0, <1>1, <2>1, <2>2, DiscardType
<1> HIDE DEF fs, n
<1>6. /\ Len(SubSeq(fs, k + 1, n)) \in Nat /\ Len(SubSeq(fs, k + 1, n)) <= MaxFailures
      /\ \A i \in 1..Len(SubSeq(fs, k + 1, n)) : now - SubSeq(fs, k + 1, n)[i] < RecoveryTime
  BY <1>0, <1>1, <1>4, <1>5
<1> QED
  BY <1>1, <1>3, <1>4, <1>5, <1>6 DEF fs, n

(* Every step keeps the lists explained.                                   *)
LEMMA ListStep ==
  ASSUME Inv, PastInv, ListInv, [Next]_vars
  PROVE  ListInv'
<1> SUFFICES ASSUME NEW u \in Users
             PROVE  /\ Len(failures'[u]) <= MaxFailures
                    /\ Sorted(failures'[u], now')
                    /\ \E g : Explains(g, failures'[u], FailedProcs(u)', reportedAt',
                                       banned'[u], now')
  BY DEF ListInv
<1>0. /\ TypeOK /\ TypeOK' /\ now \in Int /\ now' \in Int /\ now \in Time
      /\ banned[u] \in Int /\ banned'[u] \in Int
  BY StepInv DEF Inv, TypeOK, Time, Never
<1>1. /\ failures[u] \in Seq(Time) /\ Len(failures[u]) \in Nat /\ 0 \in 0..Len(failures[u])
      /\ failures[u] = SubSeq(failures[u], 0 + 1, Len(failures[u]))
      /\ \A i \in 1..0 : now - failures[u][i] >= RecoveryTime
  BY ListFacts
<1>2. CASE QuietStep \/ TickStep \/ UnbanStep
  <2>1. failures'[u] = failures[u] /\ reportedAt' = reportedAt /\ now <= now'
    BY <1>0, <1>2 DEF QuietStep, TickStep, UnbanStep
  <2>2. banned'[u] = banned[u] \/ now - banned[u] >= RecoveryTime
    <3>1. CASE QuietStep \/ TickStep
      BY <3>1 DEF QuietStep, TickStep
    <3>2. CASE UnbanStep
      <4>1. PICK v \in Users : ~IsBanned(v) /\ banned' = Unbanned(v)
        BY <3>2 DEF UnbanStep
      <4>2. CASE v = u
        BY <1>0, <4>1, <4>2, DurationAssumption DEF IsBanned, Unbanned, TypeOK
      <4>3. CASE v # u
        BY <1>0, <4>1, <4>3 DEF Unbanned, TypeOK
      <4> QED
        BY <4>2, <4>3
    <3> QED
      BY <1>2, <3>1, <3>2
  <2>3. FailedProcs(u)' = FailedProcs(u)
    BY <2>1, FailedStay
  <2>4. failures'[u] = SubSeq(failures[u], 0 + 1, Len(failures[u]))
        /\ \A p \in FailedProcs(u) : reportedAt'[p] = reportedAt[p]
    BY <1>1, <2>1
  <2> QED
    BY <1>0, <1>1, <2>1, <2>2, <2>3, <2>4, ListKept
<1>3. CASE CleanStep
  <2>1. /\ failures'[u] = Discard(failures[u], idleCheckAt)
        /\ banned'[u] = IF idleCheckAt - banned[u] > RecoveryTime THEN Never ELSE banned[u]
        /\ reportedAt' = reportedAt /\ now' = now /\ idleCheckAt <= now /\ idleCheckAt \in Int
    BY <1>0, <1>3 DEF CleanStep, CleanupFailures, TypeOK, Time
  <2>2. PICK k \in 0..Len(failures[u]) :
          /\ Discard(failures[u], idleCheckAt) = SubSeq(failures[u], k + 1, Len(failures[u]))
          /\ \A i \in 1..k : idleCheckAt - failures[u][i] >= RecoveryTime
    BY <2>1, DiscardsOld, ListFacts
  <2>3. \A i \in 1..k : now - failures[u][i] >= RecoveryTime
    <3>1. \A i \in 1..k : failures[u][i] \in Int
      BY <1>1 DEF Time
    <3> QED
      BY <1>0, <2>1, <2>2, <3>1, DurationAssumption
  <2>4. banned'[u] = banned[u] \/ now - banned[u] >= RecoveryTime
    BY <1>0, <2>1, DurationAssumption
  <2>5. FailedProcs(u)' = FailedProcs(u) /\ now <= now'
    BY <1>0, <2>1, FailedStay
  <2> QED
    BY <1>0, <2>1, <2>2, <2>3, <2>4, <2>5, ListKept
<1>4. CASE FailStep
  <2>1. PICK p \in Procs :
          /\ phase[p] = "exited"
          /\ reportedAt' = [reportedAt EXCEPT ![p] = now]
          /\ IF status[p].errors THEN CountFailure(owner[p]) ELSE UNCHANGED banVars
          /\ UNCHANGED <<now, owner, status>> /\ owner[p] \in Users
    BY <1>4 DEF FailStep
  <2>2. /\ p \notin Reported /\ reportedAt'[p] = now
        /\ \A q \in Reported : reportedAt'[q] = reportedAt[q]
        /\ FailedProcs(u)' = IF owner[p] = u /\ status[p].errors
                             THEN FailedProcs(u) \cup {p} ELSE FailedProcs(u)
    BY <2>1, OneMoreFailed
  <2>3. \A q \in FailedProcs(u) : reportedAt'[q] = reportedAt[q] /\ q # p
    BY <2>2 DEF FailedProcs
  <2>4. CASE ~(owner[p] = u /\ status[p].errors)
    <3>1. failures'[u] = failures[u] /\ banned'[u] = banned[u]
      BY <1>0, <2>1, <2>4 DEF CountFailure, TypeOK, banVars
    <3>2. failures'[u] = SubSeq(failures[u], 0 + 1, Len(failures[u]))
          /\ FailedProcs(u)' = FailedProcs(u) /\ now <= now'
      BY <1>0, <1>1, <2>1, <2>2, <2>4, <3>1
    <3> QED
      BY <1>0, <1>1, <2>3, <3>1, <3>2, ListKept
  <2>5. CASE owner[p] = u /\ status[p].errors
    <3>1. PICK recent, g :
            /\ Discard(failures[u], now) = recent
            /\ recent \in Seq(Time) /\ Len(recent) \in Nat /\ Len(recent) <= MaxFailures
            /\ Sorted(recent, now)
            /\ Explains(g, recent, FailedProcs(u), reportedAt, banned[u], now)
      BY Recent
    <3>2. CASE TooMany(recent)
      <4>1. failures'[u] = <<>> /\ banned'[u] = now /\ now' = now /\ now # Never
        BY <1>0, <2>1, <2>5, <3>1, <3>2 DEF CountFailure, TypeOK, Time, Never
      <4>2. \A q \in FailedProcs(u)' : reportedAt'[q] <= now
        BY <1>0, <2>2, <2>3, <2>5, ListFacts
      <4>3. <<>> \in Injection(1..Len(<<>>), FailedProcs(u)')
        BY DEF Injection, IsInjective
      <4>4. Explains(<<>>, <<>>, FailedProcs(u)', reportedAt', now, now)
        BY <1>0, <4>1, <4>2, <4>3 DEF Explains
      <4>5. Len(<<>>) <= MaxFailures /\ Sorted(<<>>, now)
        BY OptionAssumption DEF Sorted
      <4> QED
        BY <4>1, <4>4, <4>5
    <3>3. CASE ~TooMany(recent)
      <4>1. failures'[u] = Append(recent, now) /\ banned'[u] = banned[u] /\ now' = now
        BY <1>0, <2>1, <2>5, <3>1, <3>3 DEF CountFailure, TypeOK
      <4>2. FailedProcs(u)' = FailedProcs(u) \cup {p} /\ p \notin FailedProcs(u)
        BY <2>2, <2>3, <2>5
      <4>3. \E h : Explains(h, Append(recent, now), FailedProcs(u) \cup {p}, reportedAt',
                            banned[u], now)
        <5>1. Explains(g, recent, FailedProcs(u), reportedAt, banned[u], now)
          BY <3>1
        <5>2. recent \in Seq(Time) /\ now \in Time /\ reportedAt'[p] = now
              /\ \A q \in FailedProcs(u) : reportedAt'[q] = reportedAt[q]
          BY <1>0, <2>2, <2>3, <3>1
        <5> QED
          BY <4>2, <5>1, <5>2, OneMoreExplained
      <4>4. Sorted(Append(recent, now), now)
        BY <1>0, <3>1, OneMoreSorted
      <4>5. Len(Append(recent, now)) <= MaxFailures
        BY <3>1, <3>3, OptionAssumption DEF TooMany, Time
      <4> QED
        BY <4>1, <4>2, <4>3, <4>4, <4>5
    <3> QED
      BY <3>2, <3>3
  <2> QED
    BY <2>4, <2>5
<1> QED
  BY <1>2, <1>3, <1>4, TimeSteps

(* The failures within some time, after the step.                          *)
FailedNext(u, lo, hi) ==
  {p \in Procs : /\ owner'[p] = u
                 /\ status'[p].errors
                 /\ reportedAt'[p] # Never
                 /\ lo < reportedAt'[p] /\ reportedAt'[p] <= hi}

(* They only become more.                                                  *)
LEMMA FailedInGrows ==
  ASSUME Inv, PastInv, [Next]_vars, NEW u, NEW lo, NEW hi,
         NEW S \in SUBSET FailedIn(u, lo, hi)
  PROVE  /\ S \subseteq FailedNext(u, lo, hi)
         /\ IsFiniteSet(FailedIn(u, lo, hi)) /\ IsFiniteSet(FailedNext(u, lo, hi))
         /\ Cardinality(FailedIn(u, lo, hi)) \in Nat
         /\ Cardinality(FailedNext(u, lo, hi)) \in Nat
         /\ Cardinality(S) <= Cardinality(FailedNext(u, lo, hi))
<1>1. FailedIn(u, lo, hi) \subseteq FailedNext(u, lo, hi)
  BY ReportedStay DEF FailedIn, FailedNext, Reported
<1>2. IsFiniteSet(Reported) /\ IsFiniteSet(Reported')
  BY PastStep DEF PastInv
<1>3. FailedIn(u, lo, hi) \subseteq Reported /\ FailedNext(u, lo, hi) \subseteq Reported'
  BY DEF FailedIn, FailedNext, Reported
<1>4. /\ IsFiniteSet(FailedIn(u, lo, hi)) /\ IsFiniteSet(FailedNext(u, lo, hi))
      /\ Cardinality(FailedIn(u, lo, hi)) \in Nat
      /\ Cardinality(FailedNext(u, lo, hi)) \in Nat
  BY <1>2, <1>3, FS_Subset, FS_CardinalityType
<1>5. S \subseteq FailedNext(u, lo, hi)
  BY <1>1
<1> QED
  BY <1>4, <1>5, FS_Subset

(* A new ban is one for enough failures: those of the list and this one.   *)
LEMMA NewBanEarned ==
  ASSUME Inv, PastInv, ListInv, [Next]_vars, NEW p \in Procs, NEW u \in Users,
         phase[p] = "exited", owner[p] = u, status[p].errors,
         reportedAt' = [reportedAt EXCEPT ![p] = now], UNCHANGED <<now, owner, status>>,
         TooMany(Discard(failures[u], now))
  PROVE  Cardinality(FailedNext(u, now - RecoveryTime, now)) > MaxFailures
<1> DEFINE lo == now - RecoveryTime
           F == FailedIn(u, lo, now)
<1>0. now \in Int /\ now \in Time /\ RecoveryTime \in Nat /\ RecoveryTime > 0 /\ MaxFailures \in Nat
  BY DurationAssumption, OptionAssumption DEF Inv, TypeOK, Time
<1>1. /\ p \notin Reported /\ Reported' = Reported \cup {p} /\ reportedAt'[p] = now
      /\ \A q \in Reported : reportedAt'[q] = reportedAt[q]
  BY OneMoreFailed
<1>2. PICK recent, g :
        /\ Discard(failures[u], now) = recent
        /\ recent \in Seq(Time) /\ Len(recent) \in Nat
        /\ Sorted(recent, now)
        /\ \A i \in 1..Len(recent) : now - recent[i] < RecoveryTime
        /\ Explains(g, recent, FailedProcs(u), reportedAt, banned[u], now)
  BY Recent
<1>3. ASSUME NEW i \in 1..Len(recent) PROVE g[i] \in F
  <2>1. g[i] \in FailedProcs(u) /\ reportedAt[g[i]] = recent[i]
    BY <1>2 DEF Explains, Injection
  <2>2. recent[i] \in Int /\ recent[i] <= now /\ now - recent[i] < RecoveryTime
    BY <1>2 DEF Sorted, Time
  <2>3. lo < recent[i]
    BY <1>0, <2>2
  <2> QED
    BY <2>1, <2>2, <2>3 DEF FailedIn, FailedProcs, Reported
<1>4. g \in Injection(1..Len(recent), F)
  BY <1>2, <1>3 DEF Explains, Injection
<1>5. IsFiniteSet(F) /\ Cardinality(F) \in Nat
  BY FailedInGrows
<1>6. Len(recent) <= Cardinality(F)
  <2>1. Cardinality(1..Len(recent)) = Len(recent)
    BY <1>2, FS_Interval, SMTT(30)
  <2> HIDE DEF F
  <2> QED
    BY <1>4, <1>5, <2>1, FS_Injection
<1>7. F \cup {p} = FailedNext(u, now - RecoveryTime, now) /\ p \notin F
  <2>1. F = {q \in Reported : owner[q] = u /\ status[q].errors
                              /\ lo < reportedAt[q] /\ reportedAt[q] <= now}
    BY DEF FailedIn, Reported
  <2>2. FailedNext(u, now - RecoveryTime, now)
          = {q \in Reported' : owner[q] = u /\ status[q].errors
                               /\ lo < reportedAt'[q] /\ reportedAt'[q] <= now}
    BY DEF FailedNext, Reported
  <2>3. lo < now
    BY <1>0
  <2> HIDE DEF F, lo
  <2> QED
    BY <1>0, <1>1, <2>1, <2>2, <2>3
<1>8. Cardinality(F \cup {p}) = Cardinality(F) + 1
  BY <1>5, <1>7, FS_AddElement
<1>9. Len(recent) >= MaxFailures
  BY <1>2 DEF TooMany
<1> HIDE DEF F, lo
<1>10. Cardinality(F \cup {p}) > MaxFailures
  BY <1>0, <1>2, <1>5, <1>6, <1>8, <1>9
<1> QED
  BY <1>7, <1>10

(* Whoever is banned by a step has earned it by then.                      *)
LEMMA EarnedStep ==
  ASSUME Inv, BanInv, [Next]_vars
  PROVE  BanIsEarned'
<1> SUFFICES ASSUME NEW u \in Users, banned'[u] # Never
             PROVE  Cardinality(FailedNext(u, banned'[u] - RecoveryTime, banned'[u]))
                      > MaxFailures
  BY DEF BanIsEarned, FailedIn, FailedNext
<1>0. TypeOK /\ PastInv /\ ListInv /\ MaxFailures \in Nat
  BY OptionAssumption DEF Inv, BanInv
<1>1. CASE banned'[u] = banned[u]
  <2> DEFINE lo == banned[u] - RecoveryTime
             hi == banned[u]
  <2>1. Cardinality(FailedIn(u, lo, hi)) > MaxFailures
    BY <1>1 DEF BanInv, BanIsEarned
  <2>2. PICK a, b : a = lo /\ b = hi
    OBVIOUS
  <2>3. /\ Cardinality(FailedIn(u, a, b)) \in Nat /\ Cardinality(FailedNext(u, a, b)) \in Nat
        /\ Cardinality(FailedIn(u, a, b)) <= Cardinality(FailedNext(u, a, b))
    BY <1>0, FailedInGrows
  <2>4. FailedNext(u, banned'[u] - RecoveryTime, banned'[u]) = FailedNext(u, a, b)
    BY <1>1, <2>2 DEF FailedNext
  <2> QED
    BY <1>0, <2>1, <2>2, <2>3, <2>4
<1>2. CASE banned'[u] # banned[u]
  <2>1. CASE QuietStep \/ TickStep \/ UnbanStep \/ CleanStep
    BY <1>0, <1>2, <2>1 DEF QuietStep, TickStep, UnbanStep, Unbanned, CleanStep,
       CleanupFailures, TypeOK
  <2>2. CASE FailStep
    <3>1. PICK p \in Procs :
            /\ phase[p] = "exited"
            /\ reportedAt' = [reportedAt EXCEPT ![p] = now]
            /\ IF status[p].errors THEN CountFailure(owner[p]) ELSE UNCHANGED banVars
            /\ UNCHANGED <<now, owner, status>>
      BY <2>2 DEF FailStep
    <3>2. owner[p] = u /\ status[p].errors /\ CountFailure(u)
      BY <1>0, <1>2, <3>1 DEF CountFailure, TypeOK, banVars
    <3>3. TooMany(Discard(failures[u], now)) /\ banned'[u] = now
      BY <1>0, <1>2, <3>2 DEF CountFailure, TypeOK
    <3>4. Cardinality(FailedNext(u, now - RecoveryTime, now)) > MaxFailures
      BY <1>0, <3>1, <3>2, <3>3, NewBanEarned
    <3> QED
      BY <3>1, <3>3, <3>4
  <2> QED
    BY <1>0, <2>1, <2>2, TimeSteps
<1> QED
  BY <1>1, <1>2

(* The list of a user's failures is explained by processes that failed,    *)
(* and the bans are earned, in every behaviour of the store.               *)
THEOREM BanInvariance == Spec => []BanInv
<1>1. Init => BanInv
  <2> SUFFICES ASSUME Init PROVE BanInv
    OBVIOUS
  <2>1. PastInv
    <3>1. Reported = {}
      BY DEF Init, Reported
    <3> QED
      BY <3>1, FS_EmptySet DEF Init, PastInv, ReportInv, Never
  <2>2. ASSUME NEW u \in Users
        PROVE  /\ Len(failures[u]) <= MaxFailures /\ Sorted(failures[u], now)
               /\ \E g : Explains(g, failures[u], FailedProcs(u), reportedAt, banned[u], now)
    <3>1. failures[u] = <<>> /\ FailedProcs(u) = {}
      BY DEF Init, FailedProcs, Reported
    <3>2. <<>> \in Injection(1..Len(<<>>), {})
      BY DEF Injection, IsInjective
    <3>3. Explains(<<>>, failures[u], FailedProcs(u), reportedAt, banned[u], now)
      BY <3>1, <3>2 DEF Explains
    <3> QED
      BY <3>1, <3>3, OptionAssumption DEF Sorted
  <2>3. BanIsEarned
    BY DEF Init, BanIsEarned
  <2> QED
    BY <2>1, <2>2, <2>3 DEF BanInv, ListInv
<1>2. Inv /\ BanInv /\ [Next]_vars => BanInv'
  BY PastStep, ListStep, EarnedStep DEF BanInv
<1> QED
  BY <1>1, <1>2, Invariance, PTL DEF Spec

(* Nobody is banned for less than the failures it takes, within the time   *)
(* it takes, of processes of his own: whatever discardFailures, earlier    *)
(* bans and the idle check have forgotten or kept.                         *)
THEOREM BansAreEarned == Spec => []BanIsEarned
<1>1. BanInv => BanIsEarned
  BY DEF BanInv
<1> QED
  BY <1>1, BanInvariance, PTL

(* Who has had that many failures is banned, and stays so for as long as   *)
(* they are within the time: what the store forgets does not matter.       *)
THEOREM FailuresAreBanned == Spec => []FailuresBan
<1>1. Inv /\ BanInv => FailuresBan
  <2> SUFFICES ASSUME Inv, BanInv, NEW u \in Users, ~IsBanned(u)
               PROVE  ~(Cardinality(FailedIn(u, now - RecoveryTime, now)) > MaxFailures)
    BY DEF FailuresBan
  <2> DEFINE F == FailedIn(u, now - RecoveryTime, now)
             fs == failures[u]
  <2>1. /\ now \in Int /\ banned[u] \in Int /\ RecoveryTime \in Nat /\ MaxFailures \in Nat
        /\ Len(fs) \in Nat /\ Len(fs) <= MaxFailures
        /\ \A p \in FailedProcs(u) : reportedAt[p] \in Int
    BY DurationAssumption, ListFacts DEF BanInv
  <2>2. PICK g : Explains(g, fs, FailedProcs(u), reportedAt, banned[u], now)
    BY DEF BanInv, ListInv
  <2>3. F \subseteq FailedProcs(u)
    BY DEF FailedIn, FailedProcs, Reported
  <2>4. \A p \in F : \E i \in 1..Len(fs) : g[i] = p
    <3> SUFFICES ASSUME NEW p \in F, ~\E i \in 1..Len(fs) : g[i] = p PROVE FALSE
      OBVIOUS
    <3>1. p \in FailedProcs(u) /\ reportedAt[p] \in Int /\ now - RecoveryTime < reportedAt[p]
      BY <2>1, <2>3 DEF FailedIn
    <3>2. banned[u] # Never /\ reportedAt[p] <= banned[u]
      BY <2>1, <2>2, <3>1 DEF Explains
    <3>3. now - banned[u] < RecoveryTime
      BY <2>1, <3>1, <3>2
    <3> QED
      BY <3>2, <3>3 DEF IsBanned
  <2> DEFINE I == {i \in 1..Len(fs) : g[i] \in F}
             f == [i \in I |-> g[i]]
  <2>5. f \in Surjection(I, F)
    BY <2>4 DEF Surjection
  <2>6. IsFiniteSet(I) /\ Cardinality(I) <= Len(fs) /\ Cardinality(I) \in Nat
    <3>1. I \subseteq 1..Len(fs)
      OBVIOUS
    <3> HIDE DEF I, fs
    <3> DEFINE n == Len(fs)
    <3>2. IsFiniteSet(1..n) /\ Cardinality(1..n) = n
      <4>1. n \in Nat
        BY <2>1
      <4> HIDE DEF n
      <4>2. 1 <= n \/ n = 0
        BY <4>1
      <4> QED
        BY <4>1, <4>2, FS_Interval
    <3> QED
      BY <3>1, <3>2, FS_Subset, FS_CardinalityType
  <2> HIDE DEF F, I, f, fs
  <2>7. Cardinality(F) <= Cardinality(I) /\ Cardinality(F) \in Nat
    BY <2>5, <2>6, FS_Surjection, FS_CardinalityType
  <2>8. Cardinality(F) <= MaxFailures
    BY <2>1, <2>6, <2>7
  <2> QED
    BY <2>1, <2>7, <2>8 DEF F
<1> QED
  BY <1>1, BanInvariance, Invariance, PTL
=============================================================================
