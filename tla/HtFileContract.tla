--------------------------- MODULE HtFileContract ---------------------------
(***************************************************************************)
(* What a request to the file handler does when nothing comes in between:  *)
(* the status, and what becomes of the stored files s, by their paths.     *)
(* Written without the calls, the strings and the dispatch tables of       *)
(* src/htfile/htfile.go.                                                   *)
(***************************************************************************)
EXTENDS Naturals, FiniteSets, Sequences, FileTree

CONSTANTS Root, Users, Groups, Me, MyGroup, MyGroups, Privileged, MaxBody, MaxSearch

(* Requests by their method or by their command.                           *)
Plain(r, method) == r.method = method /\ r.cmds = <<>>
Posts(r, cmd) == r.method = "POST" /\ r.cmds = <<cmd>>
Gets(r, cmd) == r.method \in {"GET", "HEAD"} /\ r.cmds = <<cmd>>

IsPut(r) == Plain(r, "PUT") \/ Plain(r, "POST")
IsMkdir(r) == Plain(r, "MKDIR") \/ Posts(r, "mkdir")
IsDelete(r) == Plain(r, "DELETE") \/ Posts(r, "delete")
IsCopy(r) == Plain(r, "COPY") \/ Posts(r, "copy")
IsRename(r) == Plain(r, "RENAME") \/ Posts(r, "rename")
IsModProps(r) == Plain(r, "MODPROPS") \/ Posts(r, "modprops")
IsGet(r) == Plain(r, "GET") \/ Plain(r, "HEAD")
IsProps(r) == Plain(r, "PROPS") \/ Gets(r, "props")
IsSearch(r) == Plain(r, "SEARCH") \/ Gets(r, "search")
IsKnown(r) ==
  \/ IsPut(r) \/ IsMkdir(r) \/ IsDelete(r) \/ IsCopy(r) \/ IsRename(r) \/ IsModProps(r)
  \/ IsGet(r) \/ IsProps(r) \/ IsSearch(r) \/ Plain(r, "OPTIONS")
Methods == {"GET", "HEAD", "POST", "OPTIONS", "PROPS", "MODPROPS", "PUT", "DELETE",
            "MKDIR", "SEARCH", "COPY", "RENAME"}

---------------------------------------------------------------------------
File(s, p) == p \in DOMAIN s /\ ~s[p].dir
Dir(s, p) == p \in DOMAIN s /\ s[p].dir
InFile(s, p) == \E a \in Ancestors(p) : File(s, a)
Homeless(s, p) == Ancestors(p) \ DOMAIN s # {}
Mine(s, p) == Privileged \/ s[p].owner = Me

(* The status for a path that is not there: what would be in a file is an  *)
(* error of the server.                                                    *)
NotFound(s, p) == IF InFile(s, p) THEN 500 ELSE 404

New(dir, content) ==
  [dir |-> dir, mode |-> "default", owner |-> Me, group |-> MyGroup, data |-> content]
Added(s, new) == [p \in DOMAIN s \cup DOMAIN new |-> IF p \in DOMAIN new THEN new[p] ELSE s[p]]
Out(s, d) == [p \in {q \in DOMAIN s : ~Within(q, d)} |-> s[p]]
Moved(s, from, to) ==
  [p \in {Rebased(q, from, to) : q \in {r \in DOMAIN s : Within(r, from)}} |->
     s[Rebased(p, to, from)]]
NewDirs(s, ps) == [p \in ps \ DOMAIN s |-> New(TRUE, <<>>)]

Is(code, s) == [status |-> code, tree |-> s]

(* A body is stored whole when it is shorter than the limit; of a longer   *)
(* one, what is allowed stays stored.                                      *)
Put(s, p, body) ==
  LET fits == MaxBody = 0 \/ Len(body) < MaxBody
      old == IF File(s, p) THEN s[p] ELSE New(FALSE, <<>>)
      stored == [old EXCEPT !.data = IF fits THEN body ELSE SubSeq(body, 1, MaxBody)]
      home == Added(s, NewDirs(s, Ancestors(p)))
  IN IF InFile(s, p) THEN Is(500, s)
     ELSE IF Dir(s, p) THEN Is(404, s)
     ELSE Is(IF fits THEN 200 ELSE 413, Added(home, [q \in {p} |-> stored]))

Mkdir(s, p) ==
  IF InFile(s, p) \/ File(s, p) THEN Is(500, s)
  ELSE Is(200, Added(s, NewDirs(s, Ancestors(p) \cup {p})))

Delete(s, p) == Is(200, IF InFile(s, p) THEN s ELSE Out(s, p))

(* A copy replaces the content of a file and never a directory; what is    *)
(* new belongs to the user.                                                *)
Copy(s, from, to) ==
  LET own(n) == [n EXCEPT !.owner = Me, !.group = MyGroup]
      copied == Moved(s, from, to)
      over == [s EXCEPT ![to].data = s[from].data]
  IN IF ~Within(to, Root) THEN Is(404, s)
     ELSE IF Within(from, to) \/ Within(to, from) THEN Is(400, s)
     ELSE IF from \notin DOMAIN s THEN Is(NotFound(s, from), s)
     ELSE IF Homeless(s, to) \/ InFile(s, to) THEN Is(NotFound(s, to), s)
     ELSE IF to \notin DOMAIN s THEN Is(200, Added(s, [p \in DOMAIN copied |-> own(copied[p])]))
     ELSE IF Dir(s, from) THEN Is(500, s)
     ELSE IF Dir(s, to) THEN Is(404, s)
     ELSE IF Mine(s, to) THEN Is(200, [over EXCEPT ![to].mode = s[from].mode])
     ELSE Is(404, over)

(* The copies are made in their order until one fails; the others stay.    *)
CopiesDone(s, from, tos) ==
  LET done[i \in 0..Len(tos)] ==
        IF i = 0 THEN Is(200, s)
        ELSE IF done[i - 1].status = 200 THEN Copy(done[i - 1].tree, from, tos[i])
        ELSE done[i - 1]
  IN done

Copies(s, from, tos) == CopiesDone(s, from, tos)[Len(tos)]

Rename(s, from, to) ==
  IF ~Within(to, Root) THEN Is(404, s)
  ELSE IF Within(from, to) \/ Within(to, from) THEN Is(400, s)
  ELSE IF from \notin DOMAIN s THEN Is(NotFound(s, from), s)
  ELSE IF Homeless(s, to) \/ InFile(s, to) THEN Is(NotFound(s, to), s)
  ELSE IF Dir(s, to) /\ File(s, from) THEN Is(404, s)
  ELSE IF File(s, to) /\ Dir(s, from) THEN Is(500, s)
  ELSE IF \E p \in DOMAIN s : Below(p, to) THEN Is(500, s)
  ELSE Is(200, Added(Out(Out(s, from), to), Moved(s, from, to)))

(* A mode stays changed when the owner cannot be.                          *)
ModProps(s, r) ==
  LET p == r.path
      n == IF r.mode = "" THEN s[p] ELSE [s[p] EXCEPT !.mode = r.mode]
      m == [n EXCEPT !.owner = IF r.owner = "" THEN @ ELSE r.owner,
                     !.group = IF r.group = "" THEN @ ELSE r.group]
      allowed == n = m \/ Privileged \/ (m.owner = Me /\ m.group \in MyGroups)
  IN IF p \notin DOMAIN s THEN Is(NotFound(s, p), s)
     ELSE IF ~Mine(s, p) THEN Is(404, s)
     ELSE IF r.owner \notin Users \cup {""} \/ r.group \notin Groups \cup {""} THEN Is(404, s)
     ELSE IF allowed THEN Is(200, [s EXCEPT ![p] = m])
     ELSE Is(404, [s EXCEPT ![p] = n])

Read(s, p) == Is(IF p \in DOMAIN s THEN 200 ELSE NotFound(s, p), s)

(* The answer to request r with this body.                                 *)
Served(s, r, body) ==
  LET tooLarge == MaxBody > 0 /\ r.len >= MaxBody /\ r.json # "none"
  IN IF r.method \notin Methods THEN Is(405, s)
     ELSE IF ~IsKnown(r) THEN Is(400, s)
     ELSE IF Plain(r, "OPTIONS") THEN Is(200, s)
     ELSE IF IsModProps(r) /\ tooLarge THEN Is(413, s)
     ELSE IF IsModProps(r) /\ r.json = "invalid" THEN Is(400, s)
     ELSE IF IsCopy(r) /\ r.to = <<>> THEN Is(400, s)
     ELSE IF IsRename(r) /\ Len(r.to) # 1 THEN Is(400, s)
     ELSE IF ~Within(r.path, Root) THEN Is(404, s)
     ELSE IF IsSearch(r) /\ ~r.valid THEN Is(400, s)
     ELSE CASE IsPut(r) -> Put(s, r.path, body)
            [] IsMkdir(r) -> Mkdir(s, r.path)
            [] IsDelete(r) -> Delete(s, r.path)
            [] IsCopy(r) -> Copies(s, r.path, r.to)
            [] IsRename(r) -> Rename(s, r.path, r.to[1])
            [] IsModProps(r) -> ModProps(s, r)
            [] OTHER -> Read(s, r.path)

---------------------------------------------------------------------------
(* What is told of p: mode, owner and group only to the owner.             *)
Described(s, p, ext) ==
  [path |-> p, dir |-> s[p].dir, size |-> Len(s[p].data),
   ext |-> IF ext THEN <<s[p].mode, s[p].owner, s[p].group>> ELSE <<>>]

Matches(s, r) ==
  {p \in DOMAIN s :
     /\ Below(p, r.path)
     /\ \E n \in r.names : \E a \in Ancestors(p) : p = a \o <<"/">> \o n
     /\ r.content => File(s, p) /\ s[p].data # <<>>}

(* A search finds as many as are asked for and there are, and none before  *)
(* those that are nearer to where it starts.                               *)
Found(s, r, found) ==
  LET limit == IF r.max \in 1..MaxSearch THEN r.max ELSE MaxSearch
      paths == {e.path : e \in found}
      Depth(p) == Cardinality(Ancestors(p))
      all == Cardinality(Matches(s, r))
  IN /\ paths \subseteq Matches(s, r)
     /\ found = {Described(s, p, FALSE) : p \in paths}
     /\ Cardinality(found) = IF all < limit THEN all ELSE limit
     /\ \A p \in paths, q \in Matches(s, r) \ paths : Depth(p) <= Depth(q)

(* Whether o is what a request that reads tells when it is served.         *)
Tells(s, r, o) ==
  LET p == r.path
  IN IF IsSearch(r) THEN Found(s, r, o.found)
     ELSE IF IsProps(r) THEN o.found = {Described(s, p, Mine(s, p))}
     ELSE IF Dir(s, p) THEN o.found = {Described(s, q, Mine(s, q)) : q \in Children(s, p)}
     ELSE /\ o.size = Len(s[p].data)
          /\ o.body = IF r.method = "HEAD" THEN <<>> ELSE s[p].data
=============================================================================
