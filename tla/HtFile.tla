------------------------------- MODULE HtFile -------------------------------
(***************************************************************************)
(* The file handler, src/htfile/htfile.go, with its helpers of             *)
(* src/share/http.go: requests are served concurrently, each as a list of  *)
(* calls to the file system that other requests may come in between.       *)
(***************************************************************************)
EXTENDS Integers, FiniteSets, Sequences, FileTree, SequencesExt

CONSTANTS
  Handlers,     \* the goroutines that serve requests
  Requests,     \* the requests that clients send
  InitialTrees, \* what is stored at the start
  Root,         \* dn, the served directory
  Ids,          \* what identifies a file or a directory: the inodes
  Old,          \* the writer of what is stored at the start
  Modes, Users, Groups,
  Me,           \* the user of the process and the group of its files
  MyGroup,
  MyGroups,     \* the groups that it is a member of
  Privileged,   \* whether the process runs as root
  MaxBody,      \* maxRequestBody, 0 for none
  MaxSearch,    \* maxSearchResults
  MaxRequests,  \* bound on the requests
  MaxFaults     \* bound on the calls that fail without a reason in the tree

Free == 0
Serving == 100

Unit == (Handlers \cup {Old}) \X Nat
Zero == <<Old, 0>>
Node == [id : Ids, dir : BOOLEAN, mode : Modes \cup {"default"},
         owner : Users, group : Groups]

(* The served directory, as path.Clean leaves it: absolute, or relative to *)
(* the working directory.  Left out are "/", under which pathIntersect     *)
(* finds nothing, and ".", "..", "../.." and so on, where "./../a" begins  *)
(* like what is below: for these, which the options allow, pathIntersect   *)
(* does not tell what is in the directory, and nothing is claimed.         *)
Bounded(dn) == /\ dn \notin {<<>>, <<"/">>, <<".">>, <<".", ".">>}
               /\ ~IsSuffix(<<"/", ".", ".">>, dn)

ASSUME RootAssumption == Root \in Path /\ Bounded(Root)

(* The paths of requests are what path.Join makes of dn and what was sent. *)
(* What a search matches is the names of files, which have no slash.       *)
ASSUME HtFileAssumption ==
  /\ Ids \subseteq Nat \ {0}
  /\ Me \in Users /\ MyGroup \in Groups /\ Privileged \in BOOLEAN
  /\ MaxBody \in Nat /\ MaxSearch \in Nat
  /\ \A r \in Requests : r.path \in Path /\ r.to \in Seq(Path) /\ r.len \in Nat
                         /\ r.cmds \in Seq(STRING) /\ r.max \in Int
                         /\ r.json \in {"none", "props", "invalid"}
                         /\ \A n \in r.names : n \in Path /\ \A i \in DOMAIN n : n[i] # "/"

(* What is stored at the start: a tree where directories have no content.  *)
(* The served directory may be missing, the ones above it are there.       *)
ASSUME InitialTreesAssumption ==
  \A s \in InitialTrees :
    LET places == DOMAIN s.tree
    IN /\ IsFiniteSet(places) /\ places \subseteq Path /\ Ancestors(Root) \subseteq places
       /\ s.tree \in [places -> Node] /\ Closed(s.tree)
       /\ \A p, q \in places : s.tree[p].id = s.tree[q].id => p = q
       /\ s.data \in [Ids -> Seq(Unit)]
       /\ \A p \in places : s.tree[p].dir => s.data[s.tree[p].id] = <<>>

VARIABLES
  tree,    \* what exists, by path
  data,    \* the contents of the files, by id
  req,     \* the request that a handler serves or has served
  work,    \* the calls that it has yet to make
  status,  \* the status that it answers with
  out,     \* what it answers
  served,  \* how many requests were received
  faults,  \* how many calls failed without a reason in the tree
  before,  \* the tree when the request came,
  pure     \* and whether no one disturbed the request since

fs == <<tree, data>>
vars == <<tree, data, req, work, status, out, served, faults, before, pure>>

---------------------------------------------------------------------------
(* Paths.                                                                  *)

CleanDirPath(p) ==
  IF p = <<>> THEN <<".">>
  ELSE IF p[1] = "/" \/ p = <<".">> THEN p
  ELSE <<".", "/">> \o p

PathIntersect(left, right) ==
  LET p0 == CleanDirPath(left)
      p1 == CleanDirPath(right)
      IsIn(q, p) == SubSeq(q, 1, Len(p)) = p /\ q[Len(p) + 1] = "/"
  IN IF Len(p0) = Len(p1) THEN IF p0 = p1 THEN "samePath" ELSE "noMatch"
     ELSE IF Len(p0) < Len(p1) THEN IF IsIn(p1, p0) THEN "leftContains" ELSE "noMatch"
     ELSE IF IsIn(p0, p1) THEN "rightContains" ELSE "noMatch"

(* Whether getPath accepts p, what path.Join made of dn and a path.        *)
GetPathNoSlash(p) == IsPrefix(CleanDirPath(Root), CleanDirPath(p))

GetPath(p) == PathIntersect(Root, p) \in {"leftContains", "samePath"}

---------------------------------------------------------------------------
(* Requests.                                                               *)

(* The queries' cmd values that the methods allow, with what they ask for. *)
GetCmds == {"props", "search"}
PostCmds == {"modprops", "delete", "mkdir", "copy", "rename"}

Command(cmds, allowed, none) ==
  IF \E i \in DOMAIN cmds : cmds[i] \notin allowed THEN "badRequest"
  ELSE IF Len(cmds) > 1 THEN "badRequest"
  ELSE IF cmds = <<>> THEN none ELSE cmds[1]

(* What a method asks for that allows no command.                          *)
MethodOp ==
  [OPTIONS |-> "options", PROPS |-> "props", MODPROPS |-> "modprops", PUT |-> "put",
   DELETE |-> "delete", MKDIR |-> "mkdir", SEARCH |-> "search", COPY |-> "copy",
   RENAME |-> "rename"]

OperationAnyCmd(r) ==
  IF r.method = "POST" \/ r.cmds = <<>> THEN "put"
  ELSE Command(r.cmds, GetCmds \cup PostCmds, "get")

Operation(r) ==
  IF r.method \in {"GET", "HEAD"} THEN Command(r.cmds, GetCmds, "get")
  ELSE IF r.method = "POST" THEN Command(r.cmds, PostCmds, "put")
  ELSE IF r.method \in DOMAIN MethodOp THEN Command(r.cmds, {}, MethodOp[r.method])
  ELSE "notAllowed"

(* ReadJsonRequest and the checks of what it read, 200 when they pass; no  *)
(* body is an error only to the decoder.                                   *)
PropsStatus(r) ==
  IF r.json = "none" THEN 200
  ELSE IF MaxBody > 0 /\ r.len >= MaxBody THEN 413
  ELSE IF r.json = "props" THEN 200 ELSE 400

StatusOf(err) ==
  IF err \in {"ENOENT", "EPERM", "EACCES", "EISDIR"} THEN 404
  ELSE IF err = "EINVAL" THEN 400 ELSE 500

SearchMax(r) == IF r.max <= 0 \/ r.max > MaxSearch THEN MaxSearch ELSE r.max

---------------------------------------------------------------------------
(* A call that is yet to make, with what earlier ones found: fd and tf are *)
(* open files, fi what Lstat told, n a count.                              *)

NoFd == [id |-> 0, dir |-> FALSE]
NoFi == [dir |-> FALSE, mode |-> "default", owner |-> Me, group |-> MyGroup]

Call(act, from, to) ==
  [act |-> act, from |-> from, to |-> to, fd |-> NoFd, tf |-> NoFd, fi |-> NoFi, n |-> 0]

(* What a request that passes the checks calls first.                      *)
Plan(op, r) ==
  CASE op = "put" -> <<Call("mkdirAll", r.path, r.path), Call("create", r.path, r.path)>>
    [] op = "mkdir" -> <<Call("mkdirAll", r.path, r.path)>>
    [] op = "copy" -> [i \in DOMAIN r.to |-> Call("copyTo", r.path, r.to[i])]
    [] op = "rename" -> [i \in DOMAIN r.to |-> Call("renameTo", r.path, r.to[i])]
    [] op = "delete" -> <<Call("remove", r.path, r.path)>>
    [] OTHER -> <<Call(op, r.path, r.path)>>

(* The status that a request is refused with before any call, or Serving.  *)
Begin(r) ==
  LET op == Operation(r)
  IN IF op = "badRequest" THEN 400
     ELSE IF op = "notAllowed" THEN 405
     ELSE IF op = "options" THEN 200
     ELSE IF op = "modprops" /\ PropsStatus(r) # 200 THEN PropsStatus(r)
     ELSE IF (op = "copy" /\ r.to = <<>>) \/ (op = "rename" /\ Len(r.to) # 1) THEN 400
     ELSE IF ~GetPath(r.path) THEN 404
     ELSE IF op = "search" /\ ~r.valid THEN 400
     ELSE Serving

(* A response: the length and the content of a file, or entries, of which  *)
(* HEAD gets only the length too.                                          *)
NoOut == [size |-> 0, body |-> <<>>, found |-> {}]
NoRequest == [method |-> "OPTIONS", cmds |-> <<>>, path |-> Root, to |-> <<>>]

(* What is stored, by path, as before keeps it.                            *)
View(t, d) ==
  [p \in DOMAIN t |->
     [dir |-> t[p].dir, mode |-> t[p].mode, owner |-> t[p].owner, group |-> t[p].group,
      data |-> IF t[p].dir THEN <<>> ELSE d[t[p].id]]]

---------------------------------------------------------------------------
Init ==
  /\ \E s \in InitialTrees : tree = s.tree /\ data = s.data
  /\ req = [h \in Handlers |-> NoRequest]
  /\ work = [h \in Handlers |-> <<>>]
  /\ status = [h \in Handlers |-> Free]
  /\ out = [h \in Handlers |-> NoOut]
  /\ served = 0
  /\ faults = 0
  /\ before = [h \in Handlers |-> <<>>]
  /\ pure = [h \in Handlers |-> FALSE]

(* ServeHTTP up to the first call to the file system.                      *)
Receive(h) ==
  /\ status[h] = Free
  /\ served < MaxRequests
  /\ served' = served + 1
  /\ \E r \in Requests :
       /\ req' = [req EXCEPT ![h] = r]
       /\ status' = [status EXCEPT ![h] = Begin(r)]
       /\ work' = [work EXCEPT ![h] = IF Begin(r) = Serving THEN Plan(Operation(r), r) ELSE <<>>]
  /\ before' = [before EXCEPT ![h] = View(tree, data)]
  /\ pure' = [pure EXCEPT ![h] = TRUE]
  /\ UNCHANGED <<tree, data, out, faults>>

(* ServeHTTP returns, and the files it opened are closed.                  *)
Return(h) ==
  /\ status[h] \notin {Free, Serving}
  /\ status' = [status EXCEPT ![h] = Free]
  /\ req' = [req EXCEPT ![h] = NoRequest]
  /\ out' = [out EXCEPT ![h] = NoOut]
  /\ before' = [before EXCEPT ![h] = <<>>]
  /\ pure' = [pure EXCEPT ![h] = FALSE]
  /\ UNCHANGED <<tree, data, work, served, faults>>

(* The call is done: the calls cs come next, then those that were to come. *)
(* When there are none the request is served.                              *)
Then(h, cs) ==
  LET w == cs \o Tail(work[h])
  IN /\ work' = [work EXCEPT ![h] = w]
     /\ status' = [status EXCEPT ![h] = IF w = <<>> THEN 200 ELSE Serving]

Continue(h, cs) == Then(h, cs) /\ UNCHANGED fs

Answer(h, code) ==
  /\ work' = [work EXCEPT ![h] = <<>>]
  /\ status' = [status EXCEPT ![h] = code]
  /\ UNCHANGED fs

Fails(h, err) == err # "ok" /\ Answer(h, StatusOf(err))

---------------------------------------------------------------------------
(* Calls to the file system.                                               *)

Exists(p) == LookupError(tree, p) = "ok"

IsDir(p) == p \in DOMAIN tree /\ tree[p].dir

Owns(p) == Privileged \/ tree[p].owner = Me

Opened(p) == [id |-> tree[p].id, dir |-> tree[p].dir]

Info(p) == [dir |-> tree[p].dir, mode |-> tree[p].mode,
            owner |-> tree[p].owner, group |-> tree[p].group]

(* The entries of a response: what toPropertyMap makes of file p; those of *)
(* the last row only for the owner.                                        *)
Entry(p, ext) ==
  [path |-> p, dir |-> tree[p].dir, size |-> Len(data[tree[p].id]),
   ext |-> IF ext THEN <<tree[p].mode, tree[p].owner, tree[p].group>> ELSE <<>>]

OpenIds(w) == UNION {{w[i].fd.id, w[i].tf.id} : i \in DOMAIN w}

FreeIds ==
  Ids \ ({tree[p].id : p \in DOMAIN tree} \cup UNION {OpenIds(work[h]) : h \in Handlers})

NewNode(dir) ==
  [id |-> CHOOSE i \in FreeIds : TRUE, dir |-> dir,
   mode |-> "default", owner |-> Me, group |-> MyGroup]

OrNoSpace(err) == IF err = "ok" /\ FreeIds = {} THEN "ENOSPC" ELSE err

(* os.Create: the file is new or loses its content.                        *)
CreationError(p) ==
  IF p \in DOMAIN tree THEN CreateError(tree, p) ELSE OrNoSpace(CreateError(tree, p))

Create(p) ==
  /\ CreationError(p) = "ok"
  /\ tree' = IF p \in DOMAIN tree THEN tree ELSE With(tree, p, NewNode(FALSE))
  /\ data' = [data EXCEPT ![tree'[p].id] = <<>>]

Created(p) == [id |-> tree'[p].id, dir |-> FALSE]

MakeDir(p) ==
  /\ OrNoSpace(MkdirError(tree, p)) = "ok"
  /\ tree' = With(tree, p, NewNode(TRUE))
  /\ data' = [data EXCEPT ![tree'[p].id] = <<>>]

ChmodError(p) == IF Exists(p) /\ ~Owns(p) THEN "EPERM" ELSE LookupError(tree, p)

Chmod(p, mode) ==
  /\ ChmodError(p) = "ok"
  /\ tree' = [tree EXCEPT ![p].mode = mode]
  /\ UNCHANGED data

(* Where an open directory is by now, if it still is there.                *)
Places(fd) == {p \in DOMAIN tree : tree[p].id = fd.id}

(* The content of a file with the units u written at an offset.            *)
Written(content, off, u) ==
  [i \in 1..(IF Len(content) > off + Len(u) THEN Len(content) ELSE off + Len(u)) |->
     IF i \in off + 1..off + Len(u) THEN u[i - off]
     ELSE IF i <= Len(content) THEN content[i] ELSE Zero]

Write(f, off, u) ==
  /\ data' = [data EXCEPT ![f.id] = Written(@, off, u)]
  /\ UNCHANGED tree

---------------------------------------------------------------------------
(* putf and mkdirf; c is the call that handler h makes.                    *)

(* os.MkdirAll looks which directories are missing: those on the way to    *)
(* the file that is created next, or with the last one too.                *)
MkdirAll(h, c) ==
  LET dirs == Ancestors(c.to) \cup (IF Tail(work[h]) = <<>> THEN {c.to} ELSE {})
  IN /\ c.act = "mkdirAll"
     /\ \/ \E d \in dirs \cap DOMAIN tree : ~tree[d].dir /\ Fails(h, "ENOTDIR")
        \/ /\ \A d \in dirs \cap DOMAIN tree : tree[d].dir
           /\ \E s \in SetToSeqs(dirs \ DOMAIN tree) :
                /\ \A i, j \in DOMAIN s : i < j => Len(s[i]) < Len(s[j])
                /\ Continue(h, [i \in DOMAIN s |-> Call("mkdir", s[i], s[i])])

Mkdir(h, c) ==
  /\ c.act = "mkdir"
  /\ \/ IsDir(c.to) /\ Continue(h, <<>>)
     \/ ~IsDir(c.to) /\ Fails(h, OrNoSpace(MkdirError(tree, c.to)))
     \/ MakeDir(c.to) /\ Then(h, <<>>)

PutCreate(h, c) ==
  /\ c.act = "create"
  /\ \/ Fails(h, CreationError(c.to))
     \/ Create(c.to) /\ Then(h, <<[c EXCEPT !.act = "body", !.tf = Created(c.to)]>>)

(* io.Copy from the body: MaxReader ends it with an error when there is    *)
(* nothing left of what it allows, even at the end of the body.            *)
PutBodyOneMore(h, c) ==
  LET exceeded == MaxBody > 0 /\ c.n > MaxBody
  IN /\ c.act = "body"
     /\ \/ exceeded /\ Answer(h, 413)
        \/ ~exceeded /\ c.n = req[h].len /\ Continue(h, <<>>)
        \/ /\ ~exceeded
           /\ c.n < req[h].len
           /\ Write(c.tf, c.n, <<<<h, c.n + 1>>>>)
           /\ Then(h, <<[c EXCEPT !.n = @ + 1]>>)

PutBody(h, c) ==
  LET exceeded == MaxBody > 0 /\ c.n >= MaxBody
  IN /\ c.act = "body"
     /\ \/ exceeded /\ Answer(h, 413)
        \/ ~exceeded /\ c.n = req[h].len /\ Continue(h, <<>>)
        \/ /\ ~exceeded
           /\ c.n < req[h].len
           /\ Write(c.tf, c.n, <<<<h, c.n + 1>>>>)
           /\ Then(h, <<[c EXCEPT !.n = @ + 1]>>)

---------------------------------------------------------------------------
(* copyRename with copyTree and os.Rename.                                 *)

(* The next "to" of the query.                                             *)
Target(h, c) ==
  /\ c.act \in {"copyTo", "renameTo"}
  /\ \/ ~GetPath(c.to) /\ Answer(h, 404)
     \/ GetPath(c.to) /\ PathIntersect(c.from, c.to) # "noMatch" /\ Answer(h, 400)
     \/ /\ GetPath(c.to)
        /\ PathIntersect(c.from, c.to) = "noMatch"
        /\ Continue(h, <<[c EXCEPT !.act = IF @ = "copyTo" THEN "lstat" ELSE "rename"]>>)

CopyLstat(h, c) ==
  /\ c.act = "lstat"
  /\ \/ Fails(h, LookupError(tree, c.from))
     \/ Exists(c.from) /\ Continue(h, <<[c EXCEPT !.act = "open", !.fi = Info(c.from)]>>)

CopyOpen(h, c) ==
  /\ c.act = "open"
  /\ \/ Fails(h, LookupError(tree, c.from))
     \/ /\ Exists(c.from)
        /\ Continue(h, <<[c EXCEPT !.act = IF c.fi.dir THEN "copyDir" ELSE "copyFile",
                                   !.fd = Opened(c.from)]>>)

CopyDir(h, c) ==
  /\ c.act = "copyDir"
  /\ \/ Fails(h, OrNoSpace(MkdirError(tree, c.to)))
     \/ MakeDir(c.to) /\ Then(h, <<[c EXCEPT !.act = "list"]>>)

(* The entries of the directory are copied in any order, then it gets its  *)
(* mode.                                                                   *)
CopyList(h, c) ==
  LET last == <<[c EXCEPT !.act = "chmod"]>>
      entry(name) == Call("lstat", c.from \o name, c.to \o name)
  IN /\ c.act = "list"
     /\ \/ ~c.fd.dir /\ Fails(h, "ENOTDIR")
        \/ c.fd.dir /\ Places(c.fd) = {} /\ Continue(h, last)
        \/ /\ c.fd.dir
           /\ \E d \in Places(c.fd) : \E s \in SetToSeqs(Children(tree, d)) :
                Continue(h, [i \in DOMAIN s |-> entry(SubSeq(s[i], Len(d) + 1, Len(s[i])))] \o last)

CopyFile(h, c) ==
  /\ c.act = "copyFile"
  /\ \/ Fails(h, CreationError(c.to))
     \/ Create(c.to) /\ Then(h, <<[c EXCEPT !.act = "copy", !.tf = Created(c.to)]>>)

CopyData(h, c) ==
  /\ c.act = "copy"
  /\ \/ c.fd.dir /\ Fails(h, "EISDIR")
     \/ /\ ~c.fd.dir
        /\ Write(c.tf, 0, data[c.fd.id])
        /\ Then(h, <<[c EXCEPT !.act = "chmod"]>>)

CopyChmodSource(h, c) ==
  /\ c.act = "chmod"
  /\ \/ Fails(h, ChmodError(c.from))
     \/ Chmod(c.from, "default") /\ Then(h, <<>>)

CopyChmod(h, c) ==
  /\ c.act = "chmod"
  /\ \/ Fails(h, ChmodError(c.to))
     \/ Chmod(c.to, c.fi.mode) /\ Then(h, <<>>)

Rename(h, c) ==
  /\ c.act = "rename"
  /\ \/ Fails(h, RenameError(tree, c.from, c.to))
     \/ /\ RenameError(tree, c.from, c.to) = "ok"
        /\ tree' = Renamed(tree, c.from, c.to)
        /\ Then(h, <<>>)
        /\ UNCHANGED data

---------------------------------------------------------------------------
(* deletef: os.RemoveAll removes a file or an empty directory; else what   *)
(* the directory contains, then the directory.  What it could not remove   *)
(* on the way only counts when it cannot remove the last one.              *)

Removes(h, p) ==
  /\ Exists(p)
  /\ Children(tree, p) = {}
  /\ tree' = Without(tree, p)
  /\ Then(h, <<>>)
  /\ UNCHANGED data

RemoveAll(h, c) ==
  /\ c.act = "remove"
  /\ \/ ~Exists(c.to) /\ Continue(h, <<>>)
     \/ Removes(h, c.to)
     \/ /\ Children(tree, c.to) # {}
        /\ \E s \in SetToSeqs(Children(tree, c.to)) :
             Continue(h, [i \in DOMAIN s |-> Call("remove", s[i], s[i])]
                         \o <<[c EXCEPT !.act = "rmdir"]>>)

Rmdir(h, c) ==
  LET last == Tail(work[h]) = <<>>
  IN /\ c.act = "rmdir"
     /\ \/ ~Exists(c.to) /\ Continue(h, <<>>)
        \/ Removes(h, c.to)
        \/ Children(tree, c.to) # {} /\ ~last /\ Continue(h, <<>>)
        \/ Children(tree, c.to) # {} /\ last /\ Answer(h, 500)
        \/ Children(tree, c.to) # {} /\ last /\ faults > 0 /\ Answer(h, 404)

---------------------------------------------------------------------------
(* modpropsf: the mode, then the owner and the group, as far as they       *)
(* differ from what Lstat told.                                            *)

ModPropsLstat(h, c) ==
  LET known == req[h].owner \in Users \cup {""} /\ req[h].group \in Groups \cup {""}
  IN /\ c.act = "modprops"
     /\ \/ Fails(h, LookupError(tree, c.to))
        \/ Exists(c.to) /\ ~(Owns(c.to) /\ known) /\ Answer(h, 404)
        \/ /\ Exists(c.to)
           /\ Owns(c.to) /\ known
           /\ Continue(h, <<[c EXCEPT !.act = "setMode", !.fi = Info(c.to)]>>)

SetMode(h, c) ==
  LET mode == IF req[h].mode = "" THEN c.fi.mode ELSE req[h].mode
      next == <<[c EXCEPT !.act = "setOwner"]>>
  IN /\ c.act = "setMode"
     /\ \/ mode = c.fi.mode /\ Continue(h, next)
        \/ mode # c.fi.mode /\ ChmodError(c.to) # "ok" /\ Answer(h, 404)
        \/ mode # c.fi.mode /\ Chmod(c.to, mode) /\ Then(h, next)

SetOwner(h, c) ==
  LET uid == IF req[h].owner = "" THEN c.fi.owner ELSE req[h].owner
      gid == IF req[h].group = "" THEN c.fi.group ELSE req[h].group
      differs == uid # c.fi.owner \/ gid # c.fi.group
      allowed == Privileged \/ (Owns(c.to) /\ uid = Me /\ gid \in MyGroups)
  IN /\ c.act = "setOwner"
     /\ \/ ~differs /\ Continue(h, <<>>)
        \/ differs /\ ~(Exists(c.to) /\ allowed) /\ Answer(h, 404)
        \/ /\ differs
           /\ Exists(c.to) /\ allowed
           /\ tree' = [tree EXCEPT ![c.to].owner = uid, ![c.to].group = gid]
           /\ Then(h, <<>>)
           /\ UNCHANGED data

---------------------------------------------------------------------------
(* propsf, get and searchf.                                                *)

Tells(h, entries) == out' = [out EXCEPT ![h].found = @ \cup entries]

Props(h, c) ==
  /\ c.act = "props"
  /\ \/ Fails(h, LookupError(tree, c.to)) /\ UNCHANGED out
     \/ Exists(c.to) /\ Tells(h, {Entry(c.to, Owns(c.to))}) /\ Continue(h, <<>>)

GetOpen(h, c) ==
  /\ c.act = "get"
  /\ UNCHANGED out
  /\ \/ Fails(h, LookupError(tree, c.to))
     \/ Exists(c.to) /\ Continue(h, <<[c EXCEPT !.act = "stat", !.fd = Opened(c.to)]>>)

(* The length of the response is the size that Stat tells.                 *)
GetStat(h, c) ==
  /\ c.act = "stat"
  /\ \/ c.fd.dir /\ Continue(h, <<[c EXCEPT !.act = "readdir"]>>) /\ UNCHANGED out
     \/ /\ ~c.fd.dir
        /\ out' = [out EXCEPT ![h].size = Len(data[c.fd.id])]
        /\ Continue(h, IF req[h].method = "HEAD" THEN <<>> ELSE <<[c EXCEPT !.act = "send"]>>)

GetDir(h, c) ==
  /\ c.act = "readdir"
  /\ Tells(h, {Entry(q, Owns(q)) : q \in UNION {Children(tree, d) : d \in Places(c.fd)}})
  /\ Continue(h, <<>>)

GetFile(h, c) ==
  /\ c.act = "send"
  /\ out' = [out EXCEPT ![h].body = data[c.fd.id]]
  /\ Continue(h, <<>>)

SearchLstat(h, c) ==
  /\ c.act = "search"
  /\ UNCHANGED out
  /\ \/ Fails(h, LookupError(tree, c.to))
     \/ /\ Exists(c.to)
        /\ Continue(h, IF SearchMax(req[h]) = 0 THEN <<>> ELSE <<[c EXCEPT !.act = "scan"]>>)

(* Whether the query finds entry q of directory d: by its name, and by its *)
(* content if the query has an expression for it.                          *)
Finds(r, q, d) ==
  /\ SubSeq(q, Len(d) + 2, Len(q)) \in r.names
  /\ r.content => ~tree[q].dir /\ data[tree[q].id] # <<>>

RoomPerDirectory(h) == SearchMax(req[h])

(* How many results may come yet.                                          *)
Room(h) == SearchMax(req[h]) - Cardinality(out[h].found)

(* searchFiles with the first directory of its list; those that it         *)
(* contains come at the end, and with as many results as there is room for *)
(* the search ends.                                                        *)
Scan(h, c) ==
  LET matched == {q \in Children(tree, c.to) : Finds(req[h], q, c.to)}
      dirs == {q \in Children(tree, c.to) : tree[q].dir}
      Finding(qs) == Tells(h, {Entry(q, FALSE) : q \in qs})
  IN /\ c.act = "scan"
     /\ UNCHANGED fs
     /\ \/ /\ Cardinality(matched) < Room(h)
           /\ Finding(matched)
           /\ \E s \in SetToSeqs(dirs) :
                LET left == Tail(work[h]) \o [i \in DOMAIN s |-> Call("scan", s[i], s[i])]
                IN /\ work' = [work EXCEPT ![h] = left]
                   /\ status' = [status EXCEPT ![h] = IF left = <<>> THEN 200 ELSE @]
        \/ /\ Cardinality(matched) >= Room(h)
           /\ \E qs \in kSubset(Room(h), matched) : Finding(qs)
           /\ work' = [work EXCEPT ![h] = <<>>]
           /\ status' = [status EXCEPT ![h] = 200]

---------------------------------------------------------------------------
(* A call fails without a reason in the tree: a permission, an error of    *)
(* the disk, or a body that breaks off.  modpropsf answers 404 whatever    *)
(* the error is, os.RemoveAll and searchFiles go on, and a PUT that fails  *)
(* with the last of what it may write is too large.                        *)
Fault(h, c) ==
  /\ faults < MaxFaults
  /\ faults' = faults + 1
  /\ \/ c.act \in {"remove", "rmdir"} /\ Tail(work[h]) # <<>> /\ Continue(h, <<>>)
     \/ c.act = "scan" /\ Continue(h, <<>>)
     \/ c.act \in {"setMode", "setOwner"} /\ Answer(h, 404)
     \/ /\ c.act \notin {"scan", "setMode", "setOwner", "copyTo", "renameTo", "send"}
        /\ c.act \in {"remove", "rmdir"} => Tail(work[h]) = <<>>
        /\ \E code \in {404, 500} : Answer(h, code)
     \/ c.act = "body" /\ c.n + 1 = MaxBody /\ Answer(h, 413)
  /\ UNCHANGED out

Writes(h, c) ==
  \/ MkdirAll(h, c) \/ Mkdir(h, c) \/ PutCreate(h, c) \/ PutBody(h, c)
  \/ Target(h, c) \/ CopyLstat(h, c) \/ CopyOpen(h, c) \/ CopyDir(h, c) \/ CopyList(h, c)
  \/ CopyFile(h, c) \/ CopyData(h, c) \/ CopyChmod(h, c) \/ Rename(h, c)
  \/ RemoveAll(h, c) \/ Rmdir(h, c)
  \/ ModPropsLstat(h, c) \/ SetMode(h, c) \/ SetOwner(h, c)

Reads(h, c) ==
  \/ Props(h, c) \/ GetOpen(h, c) \/ GetStat(h, c) \/ GetDir(h, c) \/ GetFile(h, c)
  \/ SearchLstat(h, c) \/ Scan(h, c)

Step(h) ==
  /\ status[h] = Serving
  /\ LET c == work[h][1] IN (Writes(h, c) /\ UNCHANGED out) \/ Reads(h, c)

(* The paths that a request is about.                                      *)
About(r, p) ==
  \E q \in {r.path} \cup {r.to[i] : i \in DOMAIN r.to} : Within(p, q) \/ Below(q, p)

Changed(p) ==
  ~(/\ p \in DOMAIN tree \cap DOMAIN tree'
    /\ tree[p] = tree'[p]
    /\ View(tree, data)[p] = View(tree', data')[p])

(* What h does disturbs the others whose requests are about what changes;  *)
(* a failing call disturbs h.                                              *)
Disturbs(h, failed) ==
  LET changed == {p \in DOMAIN tree \cup DOMAIN tree' : Changed(p)}
  IN /\ pure' = [g \in Handlers |-> pure[g] /\ IF g = h THEN ~failed
                                               ELSE \A p \in changed : ~About(req[g], p)]
     /\ before' = [g \in Handlers |-> IF pure'[g] THEN before[g] ELSE <<>>]

Next ==
  \E h \in Handlers :
    \/ Receive(h)
    \/ Return(h)
    \/ Step(h) /\ Disturbs(h, FALSE) /\ UNCHANGED <<req, served, faults>>
    \/ /\ status[h] = Serving /\ Fault(h, work[h][1])
       /\ Disturbs(h, TRUE) /\ UNCHANGED <<req, served>>

Spec == Init /\ [][Next]_vars
---------------------------------------------------------------------------
Contract == INSTANCE HtFileContract

Undisturbed(h) == pure[h] /\ status[h] \notin {Free, Serving}

(* A request that nobody disturbs is answered, and leaves the files it is  *)
(* about, as it would if it were served alone and at once, whatever else   *)
(* the other handlers do meanwhile.                                        *)
ServedAsAlone ==
  \A h \in Handlers :
    Undisturbed(h) =>
      LET r == req[h]
          alone == Contract!Served(before[h], r, [i \in 1..r.len |-> <<h, i>>])
          is == View(tree, data)
          Its(s) == [p \in {q \in DOMAIN s : About(r, q)} |-> s[p]]
      IN status[h] = alone.status /\ Its(is) = Its(alone.tree)

(* What such a request tells is what is stored: a file with its length, a  *)
(* directory, or as many results of a search as there are, each once.      *)
TellsWhatIsStored ==
  \A h \in Handlers :
    Undisturbed(h) /\ status[h] = 200 /\ Operation(req[h]) \in {"get", "props", "search"} =>
      Contract!Tells(before[h], req[h], out[h])

(* No file becomes longer than the limit of a body, although its copies,   *)
(* and other requests, write to it at the same time.                       *)
WithinLimit ==
  MaxBody > 0 => \A i \in Ids : Len(data[i]) <= MaxBody

(* Whatever paths the requests have and whatever other requests do at the  *)
(* same time, nothing outside of the served directory changes, be it given *)
(* as an absolute or as a relative path, but for those that RootAssumption *)
(* leaves out.                                                             *)
OutsideUntouched ==
  [][\A p \in DOMAIN tree \cup DOMAIN tree' : ~Within(p, Root) => ~Changed(p)]_vars

(* A step for a request with a method that asks for something only does    *)
(* not change anything.                                                    *)
ReadsChangeNothing ==
  [][fs' # fs => \E h \in Handlers : work'[h] # work[h] /\ req[h].method \notin
       {"GET", "HEAD", "OPTIONS", "PROPS", "SEARCH"}]_vars

(* Whatever other requests do meanwhile, a step for a request adds, takes  *)
(* away or alters entries only where it was asked to: a copy only where it *)
(* copies to, a deletion only by taking away.                              *)
ChangesWhereAsked ==
  [][\A h \in Handlers : work'[h] # work[h] =>
       \A p \in DOMAIN tree \cup DOMAIN tree' :
         LET op == Operation(req[h])
             kept == p \in DOMAIN tree \cap DOMAIN tree' /\ tree[p] = tree'[p]
             added == p \notin DOMAIN tree
             to == req[h].to
         IN \/ kept
            \/ op = "put" /\ added /\ Within(req[h].path, p)
            \/ op = "mkdir" /\ added /\ Within(req[h].path, p)
            \/ op = "copy" /\ p \in DOMAIN tree' /\ \E i \in DOMAIN to : Within(p, to[i])
            \/ op = "rename" /\ (Within(p, req[h].path) \/ Within(p, to[1]))
            \/ op = "delete" /\ p \notin DOMAIN tree' /\ Within(p, req[h].path)
            \/ op = "modprops" /\ p = req[h].path]_vars
=============================================================================
