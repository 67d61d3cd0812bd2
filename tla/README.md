# tasked, specified in TLA+

Tasked is an HTTP server for the files and programs of a machine's users. Users
authenticate with their system password or a token; a request of a logged-in
user is proxied to a process of its own that runs as that user; other requests
go to a file handler. These modules specify the parts of the server in which
order, time and failure matter, check them with TLC on small instances, and
prove what matters most with TLAPS for every value of the constants.

`PROJECT.json` maps each definition to the source lines it stands for.

## The system

| Component | Source | State | Operations | Modelled |
|---|---|---|---|---|
| process store | `htproc/procStore.go` | maps `procs`, `accessed`, `failures`, `banned`; channels `gc`, `px`, `exit` | getCreateProc, removeIdle, procErrors, cleanupFailures, closeAll, run | `ProcStore` |
| process filter, proxy | `htproc/htproc.go`, `proxy.go` | one goroutine per request | Filter, proc.serve, proxy.serve | `ProcStore` |
| user process | `htproc/proc.go` | the command; channels `ready`, `failure`, `exit`; readers of its outputs | run, signalWait, waitExit, filterLines, waitOutput | `Proc`, contract in `ProcLife` |
| tokens | `auth/auth.go` | key, validity, renewal threshold | AuthPwd, AuthToken | `Auth` |
| authentication filter | `htauth/htauth.go` | the locals of a request | isAuthRequest, getCreds, checkCreds, Filter | `HtAuth` |
| HTTP helpers | `share/http.go` | none | GetQryCmd, cascade of filters, JSON bodies, OS errors to statuses | partly, in `HtAuth` and `HtFile` |
| server | `serve.go`, `pam.go`, `crypt.go` | the quit channel, the store, the AES key | run, createHandler, mkauth | partly, in `ProcStore` and `HtAuth` |
| file handler | `htfile/htfile.go` | the file system | props, modprops, get, put, copy, rename, delete, mkdir, search | `HtFile` over `FileTree`, against `HtFileContract` |
| configuration reader | `keyval/keyval.go` | the locals of parseFile; the files already included | parseFile, Parse, expandIncludes | `KeyVal`, `Options` |
| options | `options.go` | the options | command, flags, precedence, defaults | partly, in `Options` |
| rest | `tasked.go`, `listen.go`, `usage.go`, `share/log.go`, `share/fs.go`, `share/sysc.go`, test programs | | sockets, system calls, log and usage text | no: pure I/O |

How they interact. Each HTTP request runs in a goroutine through a cascade:
`htauth` reads credentials and either answers, passes the request on as a user,
or passes it on without one; `htproc` takes the requests of a user, the file
handler the rest. `htproc` asks the store's goroutine for the user's process
over the channel `gc`, waits for the process to be `ready`, and proxies the
request over a Unix socket. Each process has a goroutine in `proc.run`, which
ends with a status sent to the store over `px`. The handler tells a process of
a failed request by closing `failure`, the store tells it to stop by closing
`exit`. `server.run` stops the store when the HTTP server fails or is closed.

What is hard:

- *Interleaving.* One store goroutine, one per request, at least four per
  process (run, two readers, the one that waits). A status may be received long
  after the map has changed; both selects on a closed store choose at random.
- *Failure.* A process may fail to start, never become ready, die at any moment,
  ignore signals, hold its outputs open; a request may fail while others wait.
- *Time.* Idle processes, bans within a sliding window, tokens with dates in
  whole seconds, timeouts that race with what they wait for.
- *Lost and late messages.* Answers that carry a renewed token may be lost or
  overtake each other; a restart makes a new key.
- *State in a loop.* The configuration parser is one loop over runes with three
  interacting flags and text that is kept back.
- *Shared files.* The file handler takes no lock. A request is a list of system
  calls, any other request may come in between any two of them, and any of them
  may fail: what was looked at is not what is opened, a directory goes away
  while it is filled, a copy ends half way.
- *Precedence.* An option may come from four files, those that they include in
  any shape of a graph, a file named by a flag, flags, arguments and defaults.

What makes each part correct:

- store: every process that leaves the map is told to exit, exactly once; the
  limit holds and the least recently used go first; a ban comes with, and only
  with, too many failures; handlers are answered; a shutdown reaches everybody
  and can finish.
- process: whoever waits for `ready` is released, and `ready` is closed once;
  `run` returns whatever the child does; what it could not clean up, had to kill
  or could not read of its output is in the status.
- tokens and filter: a session survives an inactivity of at most 90% of the
  validity, where this is ten seconds or more, and none longer than the validity.
- configuration reader: the entries are those of a text by the rules of the
  format (quotes, escapes, comments, trimming); comments yield nothing.
- options: each has the value of the strongest source that gives one, whatever
  includes what; what cannot be read or understood stops the program.
- file handler: nothing outside of the served directory changes, where the path
  of that directory ends with a name; a request that
  nobody disturbs does what it would do alone, with the status of it; whatever
  the others do, it changes entries only where it was asked to; a request that
  only asks changes nothing; no file gets longer than the limit of a body.

## Modules

| Module | What it is |
|---|---|
| `ProcLife` | the contract of one process, as the store and the handlers rely on it (the interface `runner`): phases none, created, starting, serving, stopping, exited and the three channels |
| `ProcStore` | the store, the handlers and the server around processes that keep the contract |
| `Proc` | one process from the inside, with any child program |
| `Auth` | tokens: dates, validity, renewal |
| `HtAuth` | the filter, the clients, the restarts (EXTENDS `Auth`) |
| `KeyVal` | parseFile, one rune a step |
| `KeyValFormat` | what a configuration text says: lexed, split into lines, each split at its first `=`, trimmed |
| `Options` | readOptions: command, flags, Parse and expandIncludes on files given by their entries, parseOptions |
| `FileTree` | what package os does to a tree of files, by paths (external) |
| `HtFile` | the file handler: concurrent requests as lists of system calls |
| `HtFileContract` | what a request does when it is alone: status, files, answer, without the calls |
| `MCProcStore`, `MCProc`, `MCHtAuth`, `MCKeyVal`, `MCHtFile` | instances for TLC; the `.cfg` files give the constants |
| `ProcLifeProofs`, `ProcProofs`, `ProcStoreProofs`, `HtAuthProofs`, `KeyValProofs`, `FileTreeProofs`, `HtFileProofs`, `HtFileAloneProofs` | theorems |

`ProcLife` is the joint between two refinements: `Proc` implements it
(`ImplementsLife`, with the phase computed from `pc` and `started`), and so do
the process objects of `ProcStore` (`ProcsFollowLife`), where the closing of
`exit` and `failure` is the work of the store and the handlers. What
`ProcLifeProofs` proves of the contract therefore holds of both.

### ProcStore and the code

A Go map is a function on all users whose value `NoProc` or `Never` stands for
a missing key. A channel that is only ever closed is the set of processes it is
closed for (`readyClosed`, `exitClosed`, `failureClosed`). A rendezvous on `gc`
or `px` with the handling that follows in the same `select` case is one action,
as the goroutine does nothing else in between: `GetExisting`, `GetBanned` and
`GetNew` are the three outcomes of `getCreateProc`, `ExitStatus` the whole
status case with `removeProc` and `procErrors`, `CheckIdle` the whole timer
case. `closeAll` is `CloseAll`, then its goroutine (`WaitExit`) and its select
(`AllReported`, `CleanupFailed`, `CloseTimeout`). A handler is `pc[c]`:
getCreate, waitReady, proxy; `AwaitReady` is the select of `proc.serve`,
`ProxyFailed` closes `failure` and panics when it was closed already.
`ServerStop` and `StoreFailed` are the ways out of `server.run`.

Abstracted: requests and answers, the text of errors (a status has errors or
not), log notifications, durations of a process's start and exit. The clock is
`now`; a tick is the unit of the idle and recovery times. `reportedAt` is a
history variable the ban properties refer to.

### Proc and the code

`pc` is `run`: created, select, signal, waiting (the select of `signalWait`),
returned. `reader[o]` is a goroutine of `filterLines` by what it is blocked on;
`waiter` is the goroutine in `signalWait`. The child is external and may print
the ready line, whole or cut off, close an output, or die at any time, also
never. Timers may fire as soon as they are set. Lines other than the ready line
are only copied and are not told apart.

### Auth, HtAuth and the code

A token is its user, date and key: under another key it decrypts to an invalid
one. Clients send tokens as they got them. The code encrypts a token without
authenticating it (`auth.go:58-81`) and accepts whatever decrypts to something
that begins with the iv, so an altered one may be accepted as that of another
user or date: such tokens are not in the model, and nothing is claimed about who
can have made one, or that a request is passed on only as a user who has logged
in. A request is an action
`ReadCreds` (method, command and credentials, in the order of `getCreds`) and,
later, one of `AuthPwd`, `AuthToken`, `Refuse` (`checkCreds` looks at the clock
only then). Malformed credentials, or ones given twice, are one value.
`Deliver` and `Lose` are the client and the connection: a client keeps the
token that came last. `Restart` drops what is under way and makes a new key
unless one is configured. Ticks are finer than seconds: `Second` of them make
one. `usedAt` and `acceptedAt` are history variables.

`SessionSurvives` is about an inactivity of at most the validity less the oldest
age of a token when it is sent (`OldestSent`). That age is the renewal
threshold, a tenth of the validity, and the inactivity the 90% of the comment at
`auth.go:121-123`, when the threshold is at least a second, that is for a token
validity of ten seconds or more. The options allow shorter ones. For them a
token, dated with the second it was made in, may be nearly a second old at once,
so that only an inactivity of the validity less a second is survived: the
comment does not hold there, and with a validity of a second or less nothing is
left.

### KeyVal and the code

One action per case of the loop's switch, one disjunct per case of the switch
inside it. `ts`, `escn`, `es`, `token` and `spaces` are the variables of the
code; `esc` is `escn` before the step, and `Pending` what `escn &^= escOne`
leaves. `e` is the last entry, or nil while there is none; `FlushVal` with text
and no entry is the nil dereference, `status` "panicked". Eight runes stand for
the classes that the code tells apart; the two quotes have the names of the
escapes they begin. `read` is a history variable. Errors of the reader are left
out, as it reads a buffer in memory.

`KeyValFormat` is the reference: it has no flags shared between the phases,
and its lexer knows nothing of keys, values and entries.

### Options and the code

`stage` is where `readOptions` is. `Parse` reads the files of the list one
after the other (`includes`); `ExpandIncludes` is one turn of the loop, from the
last entry to the first: `todo` is what is left of the list it is cut from,
`entries` what it has made, `isRead` the map of the same name. `ParseOptions`
is one turn of the loop that sets the fields. A file is the sequence of its
entries, as `parseFile` returns them; a missing file has none, a `broken` one
cannot be read. Two texts (`root`, `address`) and a boolean (`allow-cookies`)
stand for the 24 options: texts take any value, the others are parsed.

The reference, `Said`, is recursive and knows nothing of what was read before:
an include stands for the whole file in its place, however often, except within
itself. That expandIncludes reads a file only once, and which of the places it
keeps, must therefore have no effect.

### HtFile and the code

`tree` maps paths to nodes with an id (the inode), a kind, mode, owner and
group; `data` maps ids to contents, so that an open file survives its removal
or renaming (`fd`, `tf` of a call hold ids). A handler is `work[h]`, the calls
that it has yet to make, the first of them next, and `status[h]`. One step is
one system call with the code up to the next one: `Target` is a turn of the
loop of `copyRename`, `CopyLstat` to `CopyChmod` are `copyTree`, whose recursion
becomes the calls put in front of the list; `MkdirAll` and `Mkdir` are
`os.MkdirAll`, `RemoveAll` and `Rmdir` `os.RemoveAll`, each with a step per
directory; `Scan` is one directory of `searchFiles`. What comes before the
first call (dispatch on method and command, `getPath`, the checks of queries
and bodies) is `Receive`, with the refusals of `Begin`. `Fault` is a call that
fails for a reason the tree does not show: a permission, the disk, a body that
breaks off.

A path is a sequence of characters, as `pathIntersect` compares characters;
request paths are clean (`path.Join`). The served directory is given as an
absolute or as a relative path; the code takes it as the options have it
(`options.go:283-297`, `serve.go:55`), with the relative branch of
`cleanDirPath`. `RootAssumption` leaves out the paths that do not end with a
name: `/`, where `pathIntersect` accepts nothing, and `.`, `..`, `../..` and so
on. With these last ones comparing prefixes (`htfile.go:109-139`) does not tell
what is in the directory, `./../a` beginning like what is in `.`, and
`OutsideUntouched` does not hold of the code. A content is a sequence of units, each
with its writer. `before` and `pure` are history variables: the tree when a
request came, and whether no other request changed anything it is about and
none of its calls failed without a reason.

`HtFileContract` says what the answer to such a request is, in terms of the
tree alone. `ServedAsAlone` compares status and tree, `TellsWhatIsStored` the
answer: that is serialisability of the requests that do not conflict, with the
contract as the sequential specification. Of those that do conflict,
`ChangesWhereAsked` and `OutsideUntouched` still limit what they change.

Taken for granted of package os: a rename of a directory onto a directory needs
the latter to be empty, as `rename(2)`; `os.RemoveAll` reports what could not
be removed only for the path itself; `MkdirAll` accepts a directory that another
one made meanwhile. The body of a PUT is written unit by unit; the data of a
copied file is one step. There are no hard links. The directories above the
served one exist.

## Runs

| Run | Instance | Shows |
|---|---|---|
| `store_pool` | 2 users, 3 processes, 1 handler, limit 1 | type invariant; no channel closed twice (`MappedProcsOpen`); nobody orphaned (`NoOrphan`); limit; shutdown tells all and can finish; contract of the processes |
| `store_order` | 3 users, 3 processes, limit 2, no order to close | the least recently used go first; bans are earned, come, and exclude a process |
| `store_live` | 1 user, 2 processes, 2 handlers, fairness | waiting and asking handlers go on; failed processes are replaced; the shutdown drains |
| `proc` | one process, all goroutines, fairness | no silent leak, all output read or its loss reported, `ready` closed once, kills reported, contract, `run` returns, `ready` decided |
| `auth` | 2 users, 1 client, 2 requests under way, 1 restart | sessions survive as long as they should, and end |
| `keyval` | every text of up to 6 runes; and every start with seven small files | entries and keys are those of the text; the program ends in comments only; options are as configured, errors reported |
| `files` | 4 trees, 2 handlers, 63 requests, 1 fault | undisturbed requests do and tell what they would alone; the limit; nothing changes outside of a directory given by a relative path, by reading, or where not asked |
| `ExitRemovesOwnProc`, `NoHandlerPanic`, `CleanCloseMeansAllExited`, `CleanStopHasNoErrors`, `CommentsYieldNothing` | as above, texts of up to 4 runes | each is stated by a test of the repository and violated by the code |

Bounds. `Procs` is the pool of process objects; each is used once. Three are
needed for the longest chain: one evicted but not yet reported, its
replacement, and one more that replaces this one. `MaxTime` bounds the clock:
where it is 1, processes of the first tick become idle in the second, and the
idle check fires. In `store_order` it is 2, with a recovery time of 1, so that a
failure or a ban can be as old as the recovery time and older, and processes of
several ticks compete for the limit; without an order to close (`MCOpenSpec`),
as what a shutdown does is the question of the other runs. One failure is allowed
(`MaxFailures`), so the second one bans. In `auth` the validity is two seconds of two ticks and the threshold
one second, so a token can be fresh, renewable and expired, and a date can be
off by most of a second; two requests under way are enough for an old token to
come back after a new one; two credentials in a request exercise the order of
`getCreds`; in six
ticks a token expires, whether its client has a newer one or not. `Proc` has no constants: its run covers every behaviour of it.
Six runes (`MaxRunes`) hold an entry with a quoted key and a value (`'='=a`), two
lines with an entry each, a comment with an escape between two lines, and every
sequence of five runes after an entry has begun. The other half of `keyval`
starts the program with files that include each other and themselves (two with
up to two entries, one with one, each an include of any of the three or a value,
from a file that includes two of them), and with every set of sources of a
value, with values that cannot be parsed and files that cannot be read. The two
halves share no state and are checked in one run.

In `files` the trees have a directory with two files, a file beside a
directory, directories in directories, and nothing; one entry is beside the
served directory with a name that begins with its name. The served directory is
relative, `r`, and one request is for `../r`. The names `a` and `ab`
are there for the comparison of prefixes. Of `path.Join` and `path.Clean`, which
make the path of a request, the module has a definition by names, and
`GetPathAcceptsInside` checks against it, before the run, that `getPath` accepts
just what leads to within the served directory: for absolute and relative
directories of up to three names, `..` among them, but those that
`RootAssumption` leaves out, and up to four names that are sent. Two handlers serve any two of the
requests at the same time, or one after the other. A third request comes only
where it can replace what a copy is about to open (`MCNext`), the one
interleaving of three requests that changes a kind under a handler. Bodies have
one to three units with a limit of two: shorter, equal, longer. Searches find up
to three entries with a limit of one or two. Twelve ids are more than can be in
use, so that no call fails for want of one. One fault is enough to stop a
request at any of its calls; more would only stop the other one too.

`CHECK_DEADLOCK FALSE` is set in all of them: after a fatal status the handlers
of the store do block for ever, the bounded clock and pool run out, and a
process that has returned, or a text that was read, does nothing more.

Symmetry (users, processes, handlers, clients) is used where only invariants
and step properties are checked, not in `store_live`.

Fairness (`ProcStore!Fairness`, `Proc!Fairness`). Weak fairness of goroutines
that can run; a `select` whose case stays ready takes it in the end, since Go
chooses at random among the ready ones; the timers of `run`, `signalWait` and
`closeAll` fire. The file handler and the options are stated without fairness: a
request is a finite list of calls, and none waits for another. Nothing is assumed of clients, of the child program, of the
answer to a proxied request, or of the order to close.

## What the checks found

1. `ExitRemovesOwnProc`: `procStore.run` removes the process of the *user* of a
   status. The exit of an evicted process, received after its user has got a
   new one, takes the new one out of the map and stops it.
2. `NoHandlerPanic`: two requests that fail on the same process both close its
   channel `failure`; the second close panics.
3. `CleanCloseMeansAllExited`: `closeAll` counts statuses, whoever they are of.
   That of a process evicted before makes it return while one of its own runs.
4. `CleanStopHasNoErrors`: `cmd.Wait` closes the pipes under the readers, so a
   process that stopped as told may report a read error, and be counted as
   failed.
5. `CommentsYieldNothing`: two backslashes in a comment are not skipped. They
   become the value of the last entry (`a = b # \\` reads as `b \`, in a comment
   on a line of its own `\` replaces the value), and a comment with them before
   the first entry ends the program with a nil dereference. `KeysAsWritten` holds
   nevertheless: keys and the number of entries are never affected.

The counterexample of the third is also why `CloseCanFinish` is stated as an
inequality: the count is never too high, but it may be too low.

## Proofs

`ProcStoreProofs`. None of the invariants is inductive alone. `Inv` adds to
them `LifeInv` (nothing was closed on a process that does not exist), `MapInv`
(the entry of a user is a process of that user, so a process has at most one
entry, and while the loop runs it has not reported), `ShutdownInv` and
`HandlerInv`. With `MapInv` the removal of users from the map closes channels
of exactly their processes, which is what `MappedProcsOpen` and `NoOrphan` turn
on; `BannedHasNoProc` holds because a process is removed in the same step in
which its failure is counted, and `Unbanned` precedes a creation. `LimitHolds`
needs arithmetic on cardinalities: removing the idle ones and a victim makes
room for one (`EvictionMakesRoom`). `CloseNeverStarves` counts: the processes
not yet reported are at least as many as `awaited`, as each status received
takes one from both. `ProcsImplementLife` is the refinement of `ProcLife`,
action by action, from the invariant and one fact about statuses.

Still in `ProcStoreProofs`: `LeastRecentLeave`, the action property on the order
of removal: what `removeIdle` takes was accessed before what it leaves, and the
victim of the limit is one of the oldest left; the step that takes a status is
told apart by `ReportInv`, each status being taken once.

`BansAreEarned` and `FailuresAreBanned` relate what the store remembers, a list
of times per user and one time of a ban, to what has happened, the processes
that failed (`FailedProcs`). Neither is inductive: the list forgets what is old,
it is emptied by a ban, and several failures may have the same time. `BanInv`
says that it is nevertheless explained (`Explains`): some injective `g` takes
each place of the list to a failed process of the user with that time, and a
failed process without a place is either older than the recovery time or not
younger than the ban, which then still holds. The places are in the order of
their times (`Sorted`), so that `Discard`, which cuts off a prefix, drops exactly the
old ones; the list is never longer than the limit, and a failure that makes it
so becomes a ban. From `g` both counts follow: a new ban has as many failed
processes as the list has places, and one more; without a ban all the recent
ones have a place. The recovery time is assumed to be at least one tick
(`DurationAssumption`; it is the constant of six seconds in the code): with
none, a ban would be over when it begins.

`ProcLifeProofs`. The promises of the contract, with the strengthening that a
stop without errors was asked for already when it began.

`ProcProofs`. The process has no constants to generalise over, but an argument
shows why its run finds nothing: `run`, the waiting goroutine and the readers
only go on after one another. `Inv` says what each has seen when it is past a
point: past `cmd.Wait` without an error the child is dead and collected
(`WaitInv`), past an output its reader is at the end of it, an error that was
caught is in the status, a kill only comes with the first exit timeout, after
which the status has an error (`KillInv`). `ReadyIsClosedOnce` is part of it:
`ready` is open as long as `run` has not seen the ready line and has not
returned, so none of the three places that close it comes after another.
`OutputIsAccountedFor` needs `ReaderInv` besides, which says of each output what
its reader has come to: `ended` is the end or the error that it is about to
send, or has sent; past the output, the waiting goroutine has caught the error,
or run had received it and returns it (`StatusInv`); an end of the file is only
found with no line left. That the pipes are closed by `cmd.Wait` under a reader,
or that a copy fails, thus leaves output unread, but not without an error in the
status. `ProcImplementsLife` is the
refinement, step by step: only the step that is told to exit, or fails, leaves
the phases starting and serving. With it, the invariant of `ProcLifeProofs` is
instantiated for the process (`Contract`), and `PromisesKept` says of `Proc`
what was proved of the contract, without another proof of it.

`HtAuthProofs`. `Inv` says of every token, wherever it is held, that it is not
dated after the last accepted request of its user (`DatedInv`), and that it was
no older than `OldestSent` when the server sent it (`FreshInv`). The second
needs that `Unix` is off by less than a second. `SessionSurvives` and
`IdleSessionEnds` follow by arithmetic, for every validity and threshold, also
where nothing relates them. The assumptions are those named in `Auth` and
`HtAuth`.

`KeyValProofs`. The types, and `OnlyCommentsPanic` for texts of any length, from
one more conjunct (`Collects`): between lines no text is collected, so that only
a comment can hold text without an entry.

`ParsedAsWritten` and `KeysParsedAsWritten`: the parser, whose three flags are
shared by everything it does, reads what `KeyValFormat` says a text of any
length contains. `ReadsAsWritten` relates the two after every rune. The escapes
in force are the mode of the lexer (`AsRead`). The lexed text so far is some
lines that ended and one that did not (`Parts`), and what the parser has is
determined by them (`Written`): the entries of the former, one more entry, with
its key, once the latter has content, and in `token` the trimmed value as far as
it came, with `spaces` what would be trimmed if nothing followed (`Collected`).
In a comment after an escaped backslash only the keys are known, and so it stays
after the comment. The lemmas say what one more rune does to each notion of the
format: to the lexer (`LexedAppend`), what is trimmed (`CollectRune`,
`CollectSpace`), the two sides of the first `=` (`DividedAppend`, `DividedHere`),
the lines (`PartsRune`, `PartsLine`) and their entries (`EntriesOfAppend`).
The induction theorems of the library take an operator, which the provers
cannot instantiate. Induction is done by a least counterexample instead
(`Least`, from the well-foundedness of `<`): the recursive function of the lexer
exists because there is no least text without one (`LexesExists`), and the
n-th of a set of numbers is found in the same way (`NthExists`).

`FileTreeProofs`, `HtFileProofs`. `OutsideStays`: nothing outside of the served
directory changes, for all trees, requests and handlers, and for every served
directory, absolute or relative, that ends with a name. The property is about a
step, so it needs to know what every call is made with when its turn comes.
`Inv` says of every call that is yet to make (`Safe`) that the path it changes
is within the served directory, or will be compared with it first, and that the
open file it writes to is none of those outside (`OutsideId`); and of the tree
(`TreeInv`) that what is outside has ids that nothing inside has. Calls are made
of others: the entries of a directory that is copied become calls with the same
names in the copy, those of one that is removed become calls themselves, missing
directories on the way to a path are made. `FileTreeProofs` shows that each such
path stays within (`WithinOrAbove`, `RebasedIsWithin`, `WithinTransitive`), from
the reading of `Below` as "a prefix that ends before a slash"
(`BelowIsOnTheWay`), and `GetPathIsWithin` that `pathIntersect` decides just
that: an absolute path and a relative one never begin alike, and of two of the
same kind `cleanDirPath` puts the same before both. The steps of others keep a call safe since they keep what is outside, and
with it its ids. Assumed are `RootAssumption`, `HtFileAssumption` and `InitialTreesAssumption`
(what is stored at the start is a tree with the directories above the root,
ids are distinct, directories have no content).

`AskingKeepsAll`: a request with a method that asks changes nothing, whatever
commands its query has. What an earlier step planned decides what a later one
does, so `AskInv` says of the work of every request with such a method that all
its calls only look, and `AskStep` that the calls they make only look too. The
property also says that the handler whose request changes something moves on;
this holds since a call that changes files is never made again as it was
(`WritesMove`): it is dropped, or its counter of bytes, a natural number,
changes.

`AskedChangesOnly`: a step for a request changes entries only where the request
asks for it. The property is about the request, a step about a call that an
earlier step made of another one; `Asked` says which calls belong to a request,
and with which paths: those of the query, those on the way to them for
directories that are missing, those within them for what is copied or removed.
`Follows` lists which calls any call makes (`StepGoesOn`, one lemma per group of
actions), and what follows a call that was asked for is asked for
(`AskedFollows`, by `WithinTransitive`). `WhereItWrites` says what each call
changes, all that is in the tree considered: of a rename, everything within
both of its paths.

`NoFileGrowsLonger`, `LimitKept`: the upload writes a unit only while it is
under the limit, at an offset that it counts itself, and over whatever others
have written there (`WrittenWithin`); a copy writes what was in a file. That
needs the source of a copy to be a file, also when it was removed or replaced
after it was opened (`Source`, part of `CallsInv`). A file that is longer at the
start may be copied, hence the hypothesis of `LimitKept`; `NoFileGrowsLonger`
says what holds without it.

`StoredIsTold`: what an undisturbed get, props or search tells is what was stored
when it came, `TellsWhatIsStored` for all trees and any number of other handlers.
The argument has three parts.

- The store stays one (`Stored`, `StoreStep`): whatever is there is in a
  directory, ids are distinct, directories have no content. Without the second a
  file that was opened by its path could not be told from another one. The third
  needs that nobody writes to a directory through an open file, hence `OpenInv`:
  a directory never has the id of a file that is open for writing, since a new
  one takes an id that no call holds (`NewDirs`).
- While a request is not disturbed, what it is about is as it was when it came
  (`Seen`, `StillSeen`), so its entries are those that the contract describes
  (`SeenIsTold`). `Stage` says how far such a request has come: `ReadingGoesOn`
  takes it from each stage to the next or to its answer, one lemma per action.
- A search looks in its directories one by one, and stops when it has enough
  results. `SearchInv` says with `BreadthFirst` what it has found and what not
  yet: a result is missing exactly if it is below one of the directories that are
  left; none of these is within another one, so nothing is found twice; and they
  come in the order of their depth, those at the end at most one level deeper, so
  what was found is no deeper than what was not. `NextDirectory` shows that this
  stays so when the first directory is replaced by the ones in it at the end of
  the list, `ScanGoesOn` that it gives the contract's answer in the end, whether
  the limit cuts the results off or not (`ToldOfEach` counts them). That an entry
  has the name that the query looks for exactly if the contract says so
  (`NameOfEntry`) needs that no name has a slash (`HtFileAssumption`).

`HtFileAloneProofs`. `DoneAsAlone`: `ServedAsAlone` for all trees, requests,
handlers and interleavings. The request is a list of system calls of any length,
made while others are served, and the contract is one step; the two are related
by an invariant that says, for each operation, how far an undisturbed request
has got and what it has left to do (`Way`, in `AloneInv`).

- What a request is about, as clients see it, is `Part(h)`. No other request
  changes it as long as the request is not disturbed (`PartUndisturbed`), so the
  way stays the same (`WayStays`) and only the request's own steps matter. Each
  of them sets one entry (`Sets`), drops one (`Drops`), or moves a tree.
- `ReadWay`, `ModWay` and `RenameWay` have a few stages each. `MkWay` says which
  directories are missing yet (`Unmade`), in the order in which they will be
  made, and how much of the body is written, over whatever the file had before.
- `DelWay` says that what is still there is covered by a call that is left: an
  entry by the call that removes it or a directory that it is in, a directory
  only after what is in it (`Covers`).
- `CopyWay` is one of three: between two targets (`Between`), at a target that is
  new (`Under`), or onto one that is there (`Onto`). `Under` reads the calls that
  are left as sets of what is not copied yet (`Uncopied`), what has its mode yet
  to get (`Altered`) and what has no content yet (`Blank`), and says that the
  copy is, entry by entry, what these sets tell (`Partly`). A call may be
  replaced by any others that take over what it had to do (`TakesOver`), for
  which `Calls` and `Partly` are shown once; a listed directory is the case that
  needs it most (`ListedTakes`): every path below the directory is below exactly
  one of its children. The targets are a chain of states (`Chain`), each the
  contract's copy of the one before.
- In the end, no call is left, and what `Way` says is the contract's answer. A
  call that fails on its way (a name that is a file, a directory that is not
  empty, an owner that may not be changed) is a case of the contract as well.

The theorem has one hypothesis, that an id is free whenever a file is created
(`FreeIds # {}`): the contract does not know the size of the disk, and a full
one ends a request half way. In `files` there are always free ids (checked once,
as an invariant), so that run is within the hypothesis. The invariant needs those
of `HtFileProofs` (`Inv`, `CallsInv`, `Stored`, `OpenInv`, `AnswersInv`) and that
files contain units (`Contents`).

Only model-checked: all liveness and everything of fairness, which the prover
does not do; `OptionsAsConfigured` and `ErrorsReported`, whose reference is a
`RECURSIVE` operator.

## What the properties leave open

`CloseReady` sets `panicked` when `ready` is closed for the second time; that is
`ReadyClosedOnce`, in `Proc` only. In `ProcLife` and `ProcStore` a channel is
closed or not, so `ImplementsLife`, `ProcsFollowLife`, `WaitersReleased` and
`ReadyIsDecided` are about its being closed in the end.
`BannedHasNoProc` holds because removal is by user, and so says nothing of the
removal of the wrong process: that is `ExitRemovesOwnProc`.

## Not modelled

- Tokens that were altered by whoever holds them, see above: there is no
  property about who has made a token.
- Served directories whose path does not end with a name, such as `/`, `.` and
  `..`: see `RootAssumption`.
- A process's durations, and that the program ends when `server.run` returns,
  without waiting for `closeAll`.
- That a proxied request is answered: nothing bounds it in the code.
- Of the file handler: symbolic and hard links, permissions other than as a call
  that fails (`Fault`) and the owner checks of the code itself, the lookup of
  user and group names, content types, dates and JSON, and regular expressions
  (a query finds a set of names).
- Of the options: the 24 fields one by one, and the getters that read a file
  named by an option (`fieldOrFile`).
- Sockets, TLS, PAM, `runas` and the system calls of it, log output, usage text:
  each is a call out of the program at its start, without state of its own.

## Plan

In this order; all are done.

1. `ProcLife`, `ProcStore`: store, handlers, shutdown; runs `store_*`.
2. `Proc`: the process, refining `ProcLife`; run `proc`.
3. Proofs of the store and of the contract.
4. `Auth`, `HtAuth`: tokens and filter; run `auth`; proofs.
5. `KeyVal`, `KeyValFormat`: the parser of configuration files; run `keyval`;
   proofs.
6. `FileTree`, `HtFile`, `HtFileContract`: the file handler; run `files`;
   proved: containment, that requests that ask change nothing, that changes are
   where asked, the limit, that what is told is what is stored.
7. `Options`: includes and precedence; run `keyval`.
8. Proofs of `Proc`, of the bans and of where requests write.
9. The proof of `TellsWhatIsStored`, from an invariant on what the calls of an
   undisturbed request have seen.
10. The proof of `ServedAsAlone`, for the operations one by one.
