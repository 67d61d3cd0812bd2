----------------------------- MODULE ProcStore ------------------------------
(***************************************************************************)
(* The store of user processes of htproc: one goroutine (procStore.run)    *)
(* owns the maps and serves, in a select loop, the request handlers that   *)
(* ask for a process (ProcFilter.Filter), the processes that report their  *)
(* exit, the idle timer and the order to close.                            *)
(*                                                                         *)
(* A Go map is a function on all users whose value NoProc or Never stands  *)
(* for a missing key.  A channel that is only ever closed is the fact that *)
(* it is closed.  What a process does inside is the contract ProcLife.     *)
(*                                                                         *)
(* An operator named for a slip (ProcsKept, VictimsOffByOne, ...) stands   *)
(* before the one it is a wrong version of, and is used nowhere: put in    *)
(* place of the right one it makes a property below fail.                  *)
(***************************************************************************)
EXTENDS Integers, Sequences, FiniteSets

CONSTANTS
  Users,            \* the users requests come from
  Procs,            \* the process objects; each is created at most once
  Clients,          \* the request handlers that run at the same time
  NoUser, NoProc,   \* "no user", and a missing or nil process
  MaxProcs,         \* procStore.maxProcs, 0 when unlimited
  MaxFailures,      \* maxSocketFailures
  RecoveryTime,     \* failureRecoveryTime, in ticks
  IdleTimeout,      \* procIdleTimeout, in ticks
  IdleCheckPeriod,  \* procIdleCheckPeriod, in ticks
  MaxTime           \* bound of the model: the last tick of the clock

ASSUME NullAssumption == NoUser \notin Users /\ NoProc \notin Procs

ASSUME UsersAssumption == IsFiniteSet(Users)

ASSUME OptionAssumption == MaxProcs \in Nat /\ MaxFailures \in Nat

ASSUME DurationAssumption ==
  /\ RecoveryTime \in Nat \ {0} /\ IdleTimeout \in Nat /\ IdleCheckPeriod \in Nat
  /\ MaxTime \in Nat

Never == -1

Time == Nat

VARIABLES
  now,              \* the clock
  procs,            \* procStore.procs
  accessed,         \* procStore.accessed
  failures,         \* procStore.failures
  banned,           \* procStore.banned
  idleCheckAt,      \* when the timer of the next idle check fires
  exit,             \* procStore.exit is closed
  server,           \* server.run of serve.go
  store,            \* the goroutine of procStore.run
  result,           \* what procStore.run returned
  awaited,          \* c of closeAll: the statuses still to be received
  waiter,           \* the goroutine of closeAll
  phase,            \* per process, the phase of its life; "reported" once
                    \* its status was received
  owner,            \* per process, the user it was created for
  readyClosed,      \* the processes whose channel ready is closed
  exitClosed,       \* the processes whose channel exit is closed
  failureClosed,    \* the processes whose channel failure is closed
  status,           \* per process, the status run returns
  pc,               \* per handler, where ProcFilter.Filter is
  user,             \* per handler, the user of the request
  handle,           \* per handler, the process it was given
  reportedAt        \* history: when the run loop received each status

mapVars    == <<procs, accessed>>
banVars    == <<failures, banned>>
runVars    == <<server, store, result, awaited, waiter>>
lifeVars   == <<phase, owner, readyClosed, status>>
clientVars == <<pc, user, handle>>

vars == <<now, procs, accessed, failures, banned, idleCheckAt, exit,
          server, store, result, awaited, waiter,
          phase, owner, readyClosed, exitClosed, failureClosed, status,
          pc, user, handle, reportedAt>>

Alive      == {"created", "starting", "serving", "stopping"}
Unreported == Alive \cup {"exited"}

Statuses == [errors : BOOLEAN, cleanupFailed : BOOLEAN]

NoError  == [errors |-> FALSE, cleanupFailed |-> FALSE]
OneError == [errors |-> TRUE, cleanupFailed |-> FALSE]

Init ==
  /\ now = 0
  /\ procs    = [u \in Users |-> NoProc]
  /\ accessed = [u \in Users |-> Never]
  /\ failures = [u \in Users |-> <<>>]
  /\ banned   = [u \in Users |-> Never]
  /\ idleCheckAt = IdleCheckPeriod
  /\ exit = FALSE
  /\ server = "running" /\ store = "running" /\ result = "none"
  /\ awaited = 0 /\ waiter = "off"
  /\ phase = [p \in Procs |-> "none"]
  /\ owner = [p \in Procs |-> NoUser]
  /\ readyClosed = {} /\ exitClosed = {} /\ failureClosed = {}
  /\ status = [p \in Procs |-> NoError]
  /\ pc     = [c \in Clients |-> "idle"]
  /\ user   = [c \in Clients |-> NoUser]
  /\ handle = [c \in Clients |-> NoProc]
  /\ reportedAt = [p \in Procs |-> Never]

-----------------------------------------------------------------------------
(***************************************************************************)
(* The maps.                                                               *)
(***************************************************************************)

Mapped == {u \in Users : procs[u] # NoProc}

(* removeProc for each user of S that has a process: out of both maps, and *)
(* told to exit.                                                           *)
ProcsKept(S)       == procs
ProcsWithout(S)    == [u \in Users |-> IF u \in S THEN NoProc ELSE procs[u]]
AccessedWithout(S) == [u \in Users |-> IF u \in S THEN Never ELSE accessed[u]]
NotClosed(S)       == exitClosed
ClosedWith(S)      == exitClosed \cup {procs[u] : u \in S \cap Mapped}

(* removeIdle at time t.                                                   *)
Idle(t) == {u \in Mapped : t - accessed[u] >= IdleTimeout}

(* The users of S accessed the longest ago; which of them the loop over    *)
(* the map ends with depends on its random order.                          *)
Newest(S) == {u \in S : \A v \in S : accessed[u] >= accessed[v]}
Oldest(S) == {u \in S : \A v \in S : accessed[u] <= accessed[v]}

(* What getCreateProc evicts when the users of S have a process: nobody,   *)
(* or one of the oldest when the limit is reached.                         *)
VictimsOffByOne(S) == IF MaxProcs > 0 /\ Cardinality(S) > MaxProcs
                      THEN {{u} : u \in Oldest(S)}
                      ELSE {{}}

Victims(S) == IF MaxProcs > 0 /\ Cardinality(S) >= MaxProcs
              THEN {{u} : u \in Oldest(S)}
              ELSE {{}}

(* discardFailures: the leading times that are too old.                    *)
DiscardNone(fs, t) == fs

Discard(fs, t) ==
  LET old == {i \in 1..Len(fs) : \A j \in 1..i : t - fs[j] >= RecoveryTime}
  IN  SubSeq(fs, Cardinality(old) + 1, Len(fs))

IsBanned(u) == banned[u] # Never /\ now - banned[u] < RecoveryTime

BanKept(u)  == banned
Unbanned(u) == [banned EXCEPT ![u] = Never]

TooManyOffByOne(fs) == Len(fs) > MaxFailures

TooMany(fs) == Len(fs) >= MaxFailures

(* procErrors with a non-empty list: one failure more, or, when there are  *)
(* enough of them already, a ban and a fresh start of the list.            *)
CountFailure(u) ==
  LET recent == Discard(failures[u], now)
  IN  IF TooMany(recent)
      THEN /\ failures' = [failures EXCEPT ![u] = <<>>]
           /\ banned' = [banned EXCEPT ![u] = now]
      ELSE /\ failures' = [failures EXCEPT ![u] = Append(recent, now)]
           /\ UNCHANGED banned

(* cleanupFailures at time t.                                              *)
CleanupFailures(t) ==
  /\ failures' = [u \in Users |-> Discard(failures[u], t)]
  /\ banned' = [u \in Users |-> IF t - banned[u] > RecoveryTime
                                THEN Never ELSE banned[u]]

-----------------------------------------------------------------------------
(***************************************************************************)
(* The request handlers: ProcFilter.Filter, procStore.getCreate and        *)
(* proc.serve.                                                             *)
(***************************************************************************)

(* A request of user u reaches the filter.                                 *)
Request(c, u) ==
  /\ pc[c] \in {"idle", "panicked"}
  /\ pc'     = [pc EXCEPT ![c] = "getCreate"]
  /\ user'   = [user EXCEPT ![c] = u]
  /\ handle' = [handle EXCEPT ![c] = NoProc]
  /\ UNCHANGED <<now, mapVars, banVars, idleCheckAt, exit, runVars, lifeVars,
                 exitClosed, failureClosed, reportedAt>>

(* The handler ends, with an answer or a panic.                            *)
Return(c, outcome) ==
  /\ pc'     = [pc EXCEPT ![c] = outcome]
  /\ user'   = [user EXCEPT ![c] = NoUser]
  /\ handle' = [handle EXCEPT ![c] = NoProc]

(* The handler holds process p and waits for it to be ready.               *)
HandOut(c, p) ==
  /\ pc'     = [pc EXCEPT ![c] = "waitReady"]
  /\ handle' = [handle EXCEPT ![c] = p]
  /\ UNCHANGED user

(* getCreate sees that the store was closed: 404.                          *)
GetClosedNever(c) == FALSE /\ UNCHANGED vars

GetClosed(c) ==
  /\ pc[c] = "getCreate"
  /\ exit
  /\ Return(c, "idle")
  /\ UNCHANGED <<now, mapVars, banVars, idleCheckAt, exit, runVars, lifeVars,
                 exitClosed, failureClosed, reportedAt>>

(* The store receives the request of handler c for a process; when exit is *)
(* closed too, either side of both selects may win.                        *)
AsksUntilReturned(c) == pc[c] = "getCreate" /\ store # "returned"

Asks(c) == pc[c] = "getCreate" /\ store = "running"

GetExisting(c) ==
  LET u == user[c]
  IN  /\ Asks(c)
      /\ procs[u] # NoProc
      /\ accessed' = [accessed EXCEPT ![u] = now]
      /\ HandOut(c, procs[u])
      /\ UNCHANGED <<now, procs, banVars, idleCheckAt, exit, runVars, lifeVars,
                     exitClosed, failureClosed, reportedAt>>

(* temporarilyBanned: 404.                                                 *)
GetBanned(c) ==
  /\ Asks(c)
  /\ procs[user[c]] = NoProc
  /\ IsBanned(user[c])
  /\ Return(c, "idle")
  /\ UNCHANGED <<now, mapVars, banVars, idleCheckAt, exit, runVars, lifeVars,
                 exitClosed, failureClosed, reportedAt>>

(* A new process p: idle ones are removed, then, when the limit is still   *)
(* reached, the least recently accessed one.                               *)
GetNew(c, p) ==
  LET u == user[c]
      idle == Idle(now)
  IN  /\ Asks(c)
      /\ procs[u] = NoProc
      /\ ~IsBanned(u)
      /\ phase[p] = "none"
      /\ banned' = Unbanned(u)
      /\ \E victims \in Victims(Mapped \ idle) :
           LET gone == idle \cup victims
           IN  /\ procs'    = [ProcsWithout(gone) EXCEPT ![u] = p]
               /\ accessed' = [AccessedWithout(gone) EXCEPT ![u] = now]
               /\ exitClosed' = ClosedWith(gone)
      /\ phase' = [phase EXCEPT ![p] = "created"]
      /\ owner' = [owner EXCEPT ![p] = u]
      /\ HandOut(c, p)
      /\ UNCHANGED <<now, failures, idleCheckAt, exit, runVars, readyClosed,
                     failureClosed, status, reportedAt>>

(* proc.serve: the process is ready, or will never be.  When it was told   *)
(* to exit, Filter starts again.                                           *)
AwaitReady(c) ==
  /\ pc[c] = "waitReady"
  /\ handle[c] \in readyClosed
  /\ IF handle[c] \in exitClosed
     THEN /\ pc'     = [pc EXCEPT ![c] = "getCreate"]
          /\ handle' = [handle EXCEPT ![c] = NoProc]
     ELSE /\ pc' = [pc EXCEPT ![c] = "proxy"]
          /\ UNCHANGED handle
  /\ UNCHANGED <<now, mapVars, banVars, idleCheckAt, exit, runVars, lifeVars,
                 exitClosed, failureClosed, user, reportedAt>>

(* The proxied request is answered, at the moment the child program, which *)
(* is external, answers it: any running process of this user, as the       *)
(* address of the socket depends on the user only.                         *)
ProxyOk(c) ==
  /\ pc[c] = "proxy"
  /\ \E p \in Procs : /\ owner[p] = owner[handle[c]]
                      /\ phase[p] \in {"starting", "serving", "stopping"}
  /\ Return(c, "idle")
  /\ UNCHANGED <<now, mapVars, banVars, idleCheckAt, exit, runVars, lifeVars,
                 exitClosed, failureClosed, reportedAt>>

(* The proxied request fails: failure is closed, and closing it a second   *)
(* time panics in the handler.                                             *)
ProxyFailed(c) ==
  /\ pc[c] = "proxy"
  /\ Return(c, IF handle[c] \in failureClosed THEN "panicked" ELSE "idle")
  /\ failureClosed' = failureClosed \cup {handle[c]}
  /\ UNCHANGED <<now, mapVars, banVars, idleCheckAt, exit, runVars, lifeVars,
                 exitClosed, reportedAt>>

-----------------------------------------------------------------------------
(***************************************************************************)
(* The processes: proc.run, by its contract.                               *)
(***************************************************************************)

Proceed(p, from, to) ==
  /\ phase[p] \in from
  /\ phase' = [phase EXCEPT ![p] = to]
  /\ UNCHANGED <<now, mapVars, banVars, idleCheckAt, exit, runVars, owner,
                 exitClosed, failureClosed, clientVars, reportedAt>>

Start(p) ==
  /\ Proceed(p, {"created"}, "starting")
  /\ UNCHANGED <<readyClosed, status>>

StartErrorNotReady(p) ==
  /\ Proceed(p, {"created"}, "exited")
  /\ status' = [status EXCEPT ![p] = OneError]
  /\ UNCHANGED readyClosed

StartError(p) ==
  /\ Proceed(p, {"created"}, "exited")
  /\ readyClosed' = readyClosed \cup {p}
  /\ status' = [status EXCEPT ![p] = OneError]

BecomeReady(p) ==
  /\ Proceed(p, {"starting"}, "serving")
  /\ readyClosed' = readyClosed \cup {p}
  /\ UNCHANGED status

StopRequested(p) ==
  /\ p \in exitClosed
  /\ Proceed(p, {"starting", "serving"}, "stopping")
  /\ UNCHANGED <<readyClosed, status>>

StopWithError(p, from) ==
  /\ Proceed(p, from, "stopping")
  /\ status' = [status EXCEPT ![p] = OneError]
  /\ UNCHANGED readyClosed

StopOnFailureStarting(p) == p \in failureClosed /\ StopWithError(p, {"starting"})

StopOnFailure(p) == p \in failureClosed /\ StopWithError(p, {"starting", "serving"})

StartupTimeout(p) == StopWithError(p, {"starting"})

UnexpectedExit(p) == StopWithError(p, {"starting", "serving"})

(* Further errors (a kill, an output error) and a failed cleanup, which    *)
(* always is an error, come from waiting for the exit.                     *)
Finish(p) ==
  /\ Proceed(p, {"stopping"}, "exited")
  /\ readyClosed' = readyClosed \cup {p}
  /\ \E e, cf \in BOOLEAN :
       /\ cf => e
       /\ status' = [status EXCEPT ![p] = [errors |-> @.errors \/ e,
                                           cleanupFailed |-> cf]]

-----------------------------------------------------------------------------
(***************************************************************************)
(* The store: procStore.run and closeAll.                                  *)
(***************************************************************************)

(* A status arrives in the select loop: whatever process its user has now  *)
(* is removed, the errors are counted, and a failed cleanup ends the store.*)
ExitStatus(p) ==
  LET u == owner[p]
  IN  /\ store = "running"
      /\ phase[p] = "exited"
      /\ phase' = [phase EXCEPT ![p] = "reported"]
      /\ reportedAt' = [reportedAt EXCEPT ![p] = now]
      /\ procs' = ProcsWithout({u})
      /\ accessed' = AccessedWithout({u})
      /\ exitClosed' = ClosedWith({u})
      /\ IF status[p].errors THEN CountFailure(u) ELSE UNCHANGED banVars
      /\ IF status[p].cleanupFailed
         THEN store' = "returned" /\ result' = "fatal"
         ELSE UNCHANGED <<store, result>>
      /\ UNCHANGED <<now, idleCheckAt, exit, server, awaited, waiter, owner,
                     readyClosed, failureClosed, status, clientVars>>

(* The idle timer: the check works with the time at which the timer fired, *)
(* and the next period starts when the check is done.                      *)
CheckIdle ==
  /\ store = "running"
  /\ now >= idleCheckAt
  /\ LET idle == Idle(idleCheckAt)
     IN  /\ procs' = ProcsWithout(idle)
         /\ accessed' = AccessedWithout(idle)
         /\ exitClosed' = ClosedWith(idle)
  /\ CleanupFailures(idleCheckAt)
  /\ idleCheckAt' = now + IdleCheckPeriod
  /\ UNCHANGED <<now, exit, runVars, lifeVars, failureClosed, clientVars,
                 reportedAt>>

(* The order to close: closeAll tells every process to exit and counts the *)
(* statuses to wait for.                                                   *)
CloseAll ==
  /\ store = "running"
  /\ exit
  /\ store' = "closing"
  /\ exitClosed' = ClosedWith(Users)
  /\ awaited' = Cardinality(Mapped)
  /\ waiter' = "waiting"
  /\ UNCHANGED <<now, mapVars, banVars, idleCheckAt, exit, server, result,
                 lifeVars, failureClosed, clientVars, reportedAt>>

StatusesDueOffByOne == waiter = "waiting" /\ awaited >= 0

StatusesDue == waiter = "waiting" /\ awaited > 0

(* The goroutine of closeAll receives the status of any process.  It goes  *)
(* on doing so when closeAll has given up.                                 *)
WaitExit(p) ==
  /\ StatusesDue
  /\ phase[p] = "exited"
  /\ phase' = [phase EXCEPT ![p] = "reported"]
  /\ awaited' = awaited - 1
  /\ waiter' = IF status[p].cleanupFailed THEN "failed" ELSE "waiting"
  /\ UNCHANGED <<now, mapVars, banVars, idleCheckAt, exit, server, store,
                 result, owner, readyClosed, exitClosed, failureClosed, status,
                 clientVars, reportedAt>>

StoreReturn(r) ==
  /\ store = "closing"
  /\ store' = "returned"
  /\ result' = r
  /\ UNCHANGED <<now, mapVars, banVars, idleCheckAt, exit, server, awaited,
                 waiter, lifeVars, exitClosed, failureClosed, clientVars,
                 reportedAt>>

AllReported == waiter = "waiting" /\ awaited = 0 /\ StoreReturn("nil")

CleanupFailed == waiter = "failed" /\ StoreReturn("cleanupFailed")

(* procStoreCloseTimeout; the durations of the processes' exits are not    *)
(* modelled, so it may pass at any time.                                   *)
CloseTimeout == StoreReturn("timeout")

-----------------------------------------------------------------------------
(***************************************************************************)
(* server.run: it ends when the HTTP server fails or the server is closed, *)
(* and closes the store, or when the store has failed, and does not.       *)
(***************************************************************************)

ServerStop ==
  /\ server = "running"
  /\ server' = "returned"
  /\ exit' = TRUE
  /\ UNCHANGED <<now, mapVars, banVars, idleCheckAt, store, result, awaited,
                 waiter, lifeVars, exitClosed, failureClosed, clientVars,
                 reportedAt>>

StoreFailed ==
  /\ server = "running"
  /\ store = "returned"
  /\ server' = "returned"
  /\ UNCHANGED <<now, mapVars, banVars, idleCheckAt, exit, store, result,
                 awaited, waiter, lifeVars, exitClosed, failureClosed,
                 clientVars, reportedAt>>

(* The clock, up to the bound of the model.                                *)
Tick ==
  /\ now < MaxTime
  /\ now' = now + 1
  /\ UNCHANGED <<mapVars, banVars, idleCheckAt, exit, runVars, lifeVars,
                 exitClosed, failureClosed, clientVars, reportedAt>>

-----------------------------------------------------------------------------

Handler(c) ==
  \/ \E u \in Users : Request(c, u)
  \/ GetClosed(c) \/ GetExisting(c) \/ GetBanned(c)
  \/ \E p \in Procs : GetNew(c, p)
  \/ AwaitReady(c) \/ ProxyOk(c) \/ ProxyFailed(c)

Process(p) ==
  \/ Start(p) \/ StartError(p) \/ BecomeReady(p)
  \/ StopRequested(p) \/ StopOnFailure(p) \/ StartupTimeout(p)
  \/ UnexpectedExit(p) \/ Finish(p)

Store ==
  \/ \E p \in Procs : ExitStatus(p) \/ WaitExit(p)
  \/ CheckIdle \/ CloseAll \/ AllReported \/ CleanupFailed \/ CloseTimeout

Server == ServerStop \/ StoreFailed

Next ==
  \/ \E c \in Clients : Handler(c)
  \/ \E p \in Procs : Process(p)
  \/ Store \/ Server \/ Tick

Spec == Init /\ [][Next]_vars

(***************************************************************************)
(* Fairness.  Goroutines that can run do run; a select whose case stays    *)
(* ready takes it at last, because Go chooses at random among the ready    *)
(* ones; and the timers of proc.run, signalWait and closeAll do fire.      *)
(* Nothing is assumed of the clients, of the child program (it need not    *)
(* become ready, answer or die) or of the order to close.                  *)
(***************************************************************************)
Fairness ==
  /\ \A p \in Procs : /\ WF_vars(Start(p) \/ StartError(p))
                     /\ WF_vars(BecomeReady(p) \/ StartupTimeout(p))
                     /\ WF_vars(StopRequested(p))
                     /\ WF_vars(StopOnFailure(p))
                     /\ WF_vars(Finish(p))
                     /\ WF_vars(ExitStatus(p))
                     /\ WF_vars(WaitExit(p))
  /\ \A c \in Clients :
       /\ WF_vars(\/ GetClosed(c) \/ GetExisting(c) \/ GetBanned(c)
                  \/ \E p \in Procs : GetNew(c, p))
       /\ WF_vars(AwaitReady(c))
  /\ WF_vars(CloseAll)
  /\ WF_vars(AllReported \/ CleanupFailed \/ CloseTimeout)

FairSpec == Spec /\ Fairness

-----------------------------------------------------------------------------
(***************************************************************************)
(* Correctness.                                                            *)
(***************************************************************************)

TypeOK ==
  /\ now \in Time /\ idleCheckAt \in Time /\ awaited \in Nat
  /\ procs    \in [Users -> Procs \cup {NoProc}]
  /\ accessed \in [Users -> Time \cup {Never}]
  /\ failures \in [Users -> Seq(Time)]
  /\ banned   \in [Users -> Time \cup {Never}]
  /\ exit \in BOOLEAN
  /\ server \in {"running", "returned"}
  /\ store \in {"running", "closing", "returned"}
  /\ result \in {"none", "nil", "cleanupFailed", "timeout", "fatal"}
  /\ waiter \in {"off", "waiting", "failed"}
  /\ phase \in [Procs -> Unreported \cup {"none", "reported"}]
  /\ owner \in [Procs -> Users \cup {NoUser}]
  /\ readyClosed \subseteq Procs
  /\ exitClosed \subseteq Procs
  /\ failureClosed \subseteq Procs
  /\ status \in [Procs -> Statuses]
  /\ pc \in [Clients -> {"idle", "getCreate", "waitReady", "proxy", "panicked"}]
  /\ user \in [Clients -> Users \cup {NoUser}]
  /\ handle \in [Clients -> Procs \cup {NoProc}]
  /\ reportedAt \in [Procs -> Time \cup {Never}]

(* While the run loop is at work, no process of the map was told to exit:  *)
(* p.close() of removeProc and closeAll never closes a closed channel      *)
(* (which would end the whole program), and a handler is never given a     *)
(* process that is already stopping on request.                            *)
MappedProcsOpen ==
  store = "running" => \A u \in Mapped : procs[u] \notin exitClosed

(* A banned user has no process in the map, although the exits that lead   *)
(* to a ban may be those of processes replaced long ago.                   *)
BannedHasNoProc == \A u \in Users : banned[u] # Never => procs[u] = NoProc

(* A process that was evicted, was idle, or was dropped by the exit of an  *)
(* other one is told to exit: none runs on without being in the map.       *)
NoOrphan ==
  \A p \in Procs :
    phase[p] \in Unreported /\ p \notin exitClosed
      => owner[p] \in Users /\ procs[owner[p]] = p

(* The map never holds more than max-user-processes.                       *)
MaxProcsRespected == MaxProcs > 0 => Cardinality(Mapped) <= MaxProcs

(* Processes leave the map from its least recently used end: unless a      *)
(* process reports its exit, the one that goes was not accessed later than *)
(* one that stays, whether removeIdle, the idle check or the limit took it.*)
LeastRecentGoFirst ==
  [][reportedAt' = reportedAt =>
       \A u, v \in Mapped :
         procs'[u] # procs[u] /\ procs'[v] = procs[v]
           => accessed[u] <= accessed[v]]_vars

(* The processes of user u that failed after time lo and up to time hi.    *)
FailedIn(u, lo, hi) ==
  {p \in Procs : /\ owner[p] = u
                 /\ status[p].errors
                 /\ reportedAt[p] # Never
                 /\ lo < reportedAt[p] /\ reportedAt[p] <= hi}

(* A user is banned only for more than maxSocketFailures failures within   *)
(* failureRecoveryTime of the ban, whichever idle checks, earlier bans and *)
(* evictions came in between.                                              *)
BanIsEarned ==
  \A u \in Users : banned[u] # Never =>
    Cardinality(FailedIn(u, banned[u] - RecoveryTime, banned[u])) > MaxFailures

(* And for that many failures a user is banned, and still is: the failures *)
(* forgotten by discardFailures, by a ban or by the idle check, and the    *)
(* bans lifted by a request, never leave a failing user unpunished.        *)
FailuresBan ==
  store = "running" =>
    \A u \in Users :
      Cardinality(FailedIn(u, now - RecoveryTime, now)) > MaxFailures
        => IsBanned(u)

(* Once the store has taken the order to close, every process that runs    *)
(* was told to exit, also the one created by a request that won against    *)
(* the order.                                                              *)
ShutdownTellsAll ==
  store = "closing" \/ result \in {"nil", "cleanupFailed", "timeout"}
    => \A p \in Procs : phase[p] \in Alive => p \in exitClosed

(* closeAll never waits for more statuses than there are processes left to *)
(* report, so a close times out only because a process does not exit.      *)
CloseCanFinish ==
  waiter = "waiting"
    => Cardinality({p \in Procs : phase[p] \in Unreported}) >= awaited

(* Each process, as the store, the handlers and its own goroutine use it   *)
(* together, keeps to the contract ProcLife.                               *)
LifePhase(p) == IF phase[p] = "reported" THEN "exited" ELSE phase[p]

Life(p) == INSTANCE ProcLife WITH
  phase <- LifePhase(p),
  ready <- p \in readyClosed,
  exit <- p \in exitClosed,
  failure <- p \in failureClosed,
  errors <- status[p].errors,
  cleanupFailed <- status[p].cleanupFailed

ProcsFollowLife ==
  /\ \A p \in Procs : Life(p)!Init
  /\ [][\A p \in Procs : Life(p)!Next \/ UNCHANGED Life(p)!vars]_vars

-----------------------------------------------------------------------------
(* A handler that waits for its process to be ready goes on, also when the *)
(* process could not be started, timed out or was evicted meanwhile.       *)
WaitersReleased ==
  \A c \in Clients : pc[c] = "waitReady" ~> pc[c] # "waitReady"

(* A handler that asks the store is answered, unless a failed cleanup has  *)
(* ended the store (then it is not), or the processes of the model are     *)
(* used up.                                                                *)
AskersAnswered ==
  \A c \in Clients : pc[c] = "getCreate" ~>
    \/ pc[c] # "getCreate"
    \/ result = "fatal"
    \/ \A p \in Procs : phase[p] # "none"

(* A process whose request failed leaves the map, so that the next request *)
(* of its user gets a new one.                                             *)
FailedProcReplaced ==
  \A p \in Procs :
    p \in failureClosed ~> store # "running" \/ ~\E u \in Users : procs[u] = p

(* When the store is told to close, every process ends, unless the store   *)
(* fails first.                                                            *)
ShutdownDrains ==
  exit ~> result = "fatal" \/ \A p \in Procs : phase[p] \notin Alive

-----------------------------------------------------------------------------
(***************************************************************************)
(* What the tests of htproc state, and the code does not keep.             *)
(***************************************************************************)

(* "proc closed" of htproc_test.go: the process that replaces a removed    *)
(* one stays.  The exit of a process takes no other process with it.       *)
ExitRemovesOwnProc ==
  [][\A p \in Procs :
       phase[p] = "exited" /\ phase'[p] = "reported"
         => \A u \in Mapped : procs[u] # p => procs'[u] = procs[u]]_vars

(* TestServe of proc_test.go: serve returns the error of a failed request. *)
NoHandlerPanic == \A c \in Clients : pc[c] # "panicked"

(* TestCloseAll of procStore_test.go: closeAll returns nil when every      *)
(* process of the map has reported its exit, and does not before.          *)
CleanCloseMeansAllExited ==
  result = "nil" => \A u \in Mapped : phase[procs[u]] = "reported"
=============================================================================
