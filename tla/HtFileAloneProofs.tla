------------------------- MODULE HtFileAloneProofs --------------------------
(***************************************************************************)
(* A request that nobody disturbs is served as if it was alone: its answer *)
(* and what it leaves in the store are what the contract says of one       *)
(* atomic step, whatever goes on elsewhere in the served directory.        *)
(* For each operation, a Way tells what a request that nobody disturbed    *)
(* has done so far and what it has left to do: the contract, applied to    *)
(* what was stored when the request came, gives what is stored once the    *)
(* rest of its calls are made.  Every call goes one step further on the    *)
(* way, the last one gives the answer, and no step of another request      *)
(* matters, since it changes nothing of what the request is about.         *)
(* A copy makes its calls while it walks: what it has made by then stands  *)
(* Between what was there and what its own step of the contract leaves.    *)
(***************************************************************************)
EXTENDS HtFileProofs

(* What a request is about: the entries as a client sees them, and as they *)
(* are stored.                                                             *)

Part(h) == [p \in {q \in DOMAIN tree : About(req[h], q)} |-> View(tree, data)[p]]
Nodes(h) == [p \in {q \in DOMAIN tree : About(req[h], q)} |-> tree[p]]

Agree(r, t, u) ==
  \A p : About(r, p) => /\ p \in DOMAIN t <=> p \in DOMAIN u
                        /\ p \in DOMAIN t => t[p] = u[p]

Result(h) == Contract!Served(before[h], req[h], [i \in 1..req[h].len |-> <<h, i>>])

(* The request is answered as the contract says.                           *)
IsAlone(h) == status[h] = Result(h).status /\ Agree(req[h], Part(h), Result(h).tree)

(* A step that puts entry e at p, or takes away what is there, and nothing *)
(* else of what request h is about.                                        *)
Sets(h, p, e) ==
  /\ \A q : About(req[h], q) => (q \in DOMAIN Part(h)' <=> q \in DOMAIN Part(h) \/ q = p)
  /\ \A q \in DOMAIN Part(h) : q # p => Part(h)'[q] = Part(h)[q] /\ Nodes(h)'[q] = Nodes(h)[q]
  /\ Part(h)'[p] = e
  /\ p \in DOMAIN Part(h) => Nodes(h)'[p].id = Nodes(h)[p].id

Drops(h, p) ==
  /\ \A q : About(req[h], q) => (q \in DOMAIN Part(h)' <=> q \in DOMAIN Part(h) /\ q # p)
  /\ \A q \in DOMAIN Part(h)' : Part(h)'[q] = Part(h)[q] /\ Nodes(h)'[q] = Nodes(h)[q]

(* What Part and Nodes hold: the entries that the request is about, and    *)
(* nothing else.                                                           *)
LEMMA PartIs ==
  ASSUME NEW h
  PROVE  /\ \A p : p \in DOMAIN Part(h) <=> p \in DOMAIN tree /\ About(req[h], p)
         /\ DOMAIN Nodes(h) = DOMAIN Part(h)
         /\ \A p \in DOMAIN Part(h) :
              /\ Nodes(h)[p] = tree[p]
              /\ Part(h)[p] = [dir |-> tree[p].dir, mode |-> tree[p].mode,
                               owner |-> tree[p].owner, group |-> tree[p].group,
                               data |-> IF tree[p].dir THEN <<>> ELSE data[tree[p].id]]
BY DEF Part, Nodes, View

(* Nobody disturbed the request: what it is about is as it was when it     *)
(* came.                                                                   *)
LEMMA SeenAgrees ==
  ASSUME NEW h
  PROVE  Seen(h) <=> Agree(req[h], Part(h), before[h])
BY DEF Seen, Agree, Part

(* A step that leaves the file system alone leaves what the request is     *)
(* about.                                                                  *)
LEMMA PartStays ==
  ASSUME NEW h, UNCHANGED fs, req'[h] = req[h]
  PROVE  Part(h)' = Part(h) /\ Nodes(h)' = Nodes(h)
<1>1. tree' = tree /\ data' = data /\ View(tree, data)' = View(tree, data)
  BY DEF fs, View
<1>2. \A q : About(req[h], q)' <=> About(req[h], q)
  BY DEF About
<1> QED
  BY <1>1, <1>2 DEF Part, Nodes

(* The contract's operators are those of the handler.                      *)
LEMMA SameTrees ==
  /\ \A p, d : Contract!Within(p, d) <=> Within(p, d)
  /\ \A p, from, to : Contract!Rebased(p, from, to) = Rebased(p, from, to)
<1>1. ASSUME NEW p, NEW d PROVE Contract!Within(p, d) <=> Within(p, d)
  BY SamePaths DEF Within, Contract!Within
<1>2. ASSUME NEW p, NEW from, NEW to PROVE Contract!Rebased(p, from, to) = Rebased(p, from, to)
  BY DEF Rebased, Contract!Rebased
<1> QED
  BY <1>1, <1>2

(* What is on the way to a path that the request is about.                 *)
LEMMA AboutPath ==
  ASSUME NEW r
  PROVE  /\ About(r, r.path)
         /\ \A a \in Ancestors(r.path) : About(r, a)
         /\ \A i \in DOMAIN r.to : /\ About(r, r.to[i])
                                   /\ \A a \in Ancestors(r.to[i]) : About(r, a)
                                   /\ \A p : Within(p, r.to[i]) => About(r, p)
         /\ \A p : Within(p, r.path) => About(r, p)
<1> DEFINE Q == {r.path} \cup {r.to[i] : i \in DOMAIN r.to}
<1>1. \A q \in Q : \A p : Within(p, q) \/ p \in Ancestors(q) => About(r, p)
  BY DEF About, Below
<1>2. r.path \in Q /\ \A i \in DOMAIN r.to : r.to[i] \in Q
  OBVIOUS
<1> HIDE DEF Q
<1>3. \A q : Within(q, q)
  BY DEF Within
<1> QED
  BY <1>1, <1>2, <1>3

---------------------------------------------------------------------------
(* What the calls do to it.                                                *)

LEMMA PartBecomes ==
  ASSUME NEW h, req'[h] = req[h]
  PROVE  /\ \A p : p \in DOMAIN Part(h)' <=> p \in DOMAIN tree' /\ About(req[h], p)
         /\ \A p \in DOMAIN Part(h)' :
              /\ Nodes(h)'[p] = tree'[p]
              /\ Part(h)'[p] = [dir |-> tree'[p].dir, mode |-> tree'[p].mode,
                                owner |-> tree'[p].owner, group |-> tree'[p].group,
                                data |-> IF tree'[p].dir THEN <<>> ELSE data'[tree'[p].id]]
<1>1. \A q : About(req[h], q)' <=> About(req[h], q)
  BY DEF About
<1> QED
  BY <1>1 DEF Part, Nodes, View

(* A change of one entry that the request is about, with its content.      *)
LEMMA ChangeSets ==
  ASSUME NEW h, req'[h] = req[h], NEW p, About(req[h], p), DOMAIN tree' = DOMAIN tree \cup {p},
         \A q \in DOMAIN tree : q # p =>
           tree'[q] = tree[q] /\ (tree[q].dir \/ data'[tree[q].id] = data[tree[q].id]),
         p \in DOMAIN tree => tree'[p].id = tree[p].id
  PROVE  /\ Sets(h, p, Part(h)'[p])
         /\ Part(h)'[p] = [dir |-> tree'[p].dir, mode |-> tree'[p].mode,
                           owner |-> tree'[p].owner, group |-> tree'[p].group,
                           data |-> IF tree'[p].dir THEN <<>> ELSE data'[tree'[p].id]]
<1> DEFINE v == Part(h)
           w == Part(h)'
           N == Nodes(h)
           M == Nodes(h)'
<1>1. /\ \A q : q \in DOMAIN v <=> q \in DOMAIN tree /\ About(req[h], q)
      /\ DOMAIN N = DOMAIN v
      /\ \A q \in DOMAIN v :
              /\ N[q] = tree[q]
              /\ v[q] = [dir |-> tree[q].dir, mode |-> tree[q].mode,
                         owner |-> tree[q].owner, group |-> tree[q].group,
                         data |-> IF tree[q].dir THEN <<>> ELSE data[tree[q].id]]
  BY PartIs
<1>2. /\ \A q : q \in DOMAIN w <=> q \in DOMAIN tree' /\ About(req[h], q)
      /\ \A q \in DOMAIN w :
              /\ M[q] = tree'[q]
              /\ w[q] = [dir |-> tree'[q].dir, mode |-> tree'[q].mode,
                         owner |-> tree'[q].owner, group |-> tree'[q].group,
                         data |-> IF tree'[q].dir THEN <<>> ELSE data'[tree'[q].id]]
  BY PartBecomes
<1> HIDE DEF v, w, N, M
<1>3. \A q \in DOMAIN v : q # p => q \in DOMAIN w /\ w[q] = v[q] /\ M[q] = N[q]
  BY <1>1, <1>2
<1>4. \A q : About(req[h], q) => (q \in DOMAIN w <=> q \in DOMAIN v \/ q = p)
  BY <1>1, <1>2
<1>5. p \in DOMAIN v => M[p].id = N[p].id
  BY <1>1, <1>2
<1> QED
  BY <1>2, <1>3, <1>4, <1>5 DEF Sets, v, w, N, M

(* Mkdir puts a new directory where there was nothing.                     *)
LEMMA MakeDirSets ==
  ASSUME TreeInv, NEW h, req'[h] = req[h], NEW p, About(req[h], p), MakeDir(p)
  PROVE  p \notin DOMAIN Part(h) /\ Sets(h, p, Contract!New(TRUE, <<>>))
<1>1. p \notin DOMAIN tree /\ FreeIds # {}
  BY DEF MakeDir, OrNoSpace, MkdirError
<1> DEFINE n == NewNode(TRUE)
<1>2. /\ n.id \in FreeIds /\ n.dir = TRUE /\ n.mode = "default" /\ n.owner = Me /\ n.group = MyGroup
  BY <1>1 DEF NewNode
<1> HIDE DEF n
<1>3. DOMAIN tree' = DOMAIN tree \cup {p} /\ tree'[p] = n
      /\ \A q \in DOMAIN tree : tree'[q] = tree[q]
  BY <1>1 DEF MakeDir, With, n
<1>4. \A q \in DOMAIN tree : data'[tree[q].id] = data[tree[q].id]
  BY <1>2, <1>3 DEF MakeDir, FreeIds, TreeInv
<1>5. Sets(h, p, Part(h)'[p]) /\
      Part(h)'[p] = [dir |-> n.dir, mode |-> n.mode, owner |-> n.owner, group |-> n.group,
                     data |-> IF n.dir THEN <<>> ELSE data'[n.id]]
  BY <1>1, <1>3, <1>4, ChangeSets
<1>6. Contract!New(TRUE, <<>>) = Part(h)'[p]
  BY <1>2, <1>5 DEF Contract!New
<1> QED
  BY <1>1, <1>5, <1>6, PartIs

(* Opening for writing truncates a file or makes a new, empty one.         *)
LEMMA CreateSets ==
  ASSUME TreeInv, Stored, NEW h, req'[h] = req[h], NEW p, About(req[h], p), Create(p)
  PROVE  /\ Sets(h, p, IF p \in DOMAIN Part(h) THEN [Part(h)[p] EXCEPT !.data = <<>>]
                                               ELSE Contract!New(FALSE, <<>>))
         /\ p \in DOMAIN Part(h)' /\ Nodes(h)'[p].id = Created(p).id
<1>1. p \in DOMAIN Part(h) <=> p \in DOMAIN tree
  BY PartIs
<1>2. CASE p \in DOMAIN tree
  <2>1. tree' = tree /\ ~tree[p].dir /\ data' = [data EXCEPT ![tree[p].id] = <<>>]
    BY <1>2 DEF Create, CreationError, CreateError
  <2>2. \A q \in DOMAIN tree : q # p => data'[tree[q].id] = data[tree[q].id]
    BY <1>2, <2>1 DEF TreeInv, Stored
  <2>3. data'[tree'[p].id] = <<>> /\ DOMAIN tree' = DOMAIN tree \cup {p}
    BY <1>2, <2>1 DEF TreeInv
  <2>4. Sets(h, p, Part(h)'[p]) /\
        Part(h)'[p] = [dir |-> FALSE, mode |-> tree[p].mode, owner |-> tree[p].owner,
                       group |-> tree[p].group, data |-> <<>>]
    <3>1. Stored'
      BY CreateStored
    <3>2. Sets(h, p, Part(h)'[p]) /\
          Part(h)'[p] = [dir |-> tree'[p].dir, mode |-> tree'[p].mode, owner |-> tree'[p].owner,
                         group |-> tree'[p].group, 
                           data |-> IF tree'[p].dir THEN <<>> ELSE data'[tree'[p].id]]
      BY <2>1, <2>2, <2>3, ChangeSets
    <3>3. tree'[p].dir = FALSE
      BY CreateStored, <2>1
    <3> QED
      BY <2>1, <2>3, <3>2, <3>3
  <2>5. Part(h)[p] = [dir |-> tree[p].dir, mode |-> tree[p].mode, owner |-> tree[p].owner,
                      group |-> tree[p].group,
                      data |-> IF tree[p].dir THEN <<>> ELSE data[tree[p].id]]
    BY <1>1, <1>2, PartIs
  <2> QED
    BY <1>1, <1>2, <2>1, <2>3, <2>4, <2>5, PartBecomes DEF Created
<1>3. CASE p \notin DOMAIN tree
  <2> DEFINE n == NewNode(FALSE)
  <2>1. /\ n.id \in FreeIds /\ n.dir = FALSE /\ n.mode = "default" /\ n.owner = Me
        /\ n.group = MyGroup
    BY <1>3 DEF NewNode, Create, CreationError, OrNoSpace
  <2> HIDE DEF n
  <2>2. DOMAIN tree' = DOMAIN tree \cup {p} /\ tree'[p] = n
        /\ \A q \in DOMAIN tree : tree'[q] = tree[q]
    BY <1>3 DEF Create, With, n
  <2>3. data' = [data EXCEPT ![n.id] = <<>>] /\ n.id \in Ids
        /\ \A q \in DOMAIN tree : tree[q].id # n.id
    BY <2>1, <2>2 DEF Create, FreeIds
  <2>4. \A q \in DOMAIN tree : data'[tree[q].id] = data[tree[q].id]
    BY <2>3 DEF TreeInv
  <2>5. data'[n.id] = <<>>
    BY <2>3 DEF TreeInv
  <2>6. Sets(h, p, Part(h)'[p]) /\
        Part(h)'[p] = [dir |-> n.dir, mode |-> n.mode, owner |-> n.owner, group |-> n.group,
                     data |-> IF n.dir THEN <<>> ELSE data'[n.id]]
    BY <1>3, <2>2, <2>4, ChangeSets
  <2>7. Contract!New(FALSE, <<>>) = Part(h)'[p]
    BY <2>1, <2>5, <2>6 DEF Contract!New
  <2> QED
    <3>1. p \in DOMAIN Part(h)' /\ Nodes(h)'[p] = n /\ Created(p).id = n.id
      BY <2>2, PartBecomes DEF Created
    <3>2. (IF p \in DOMAIN Part(h) THEN [Part(h)[p] EXCEPT !.data = <<>>]
                                   ELSE Contract!New(FALSE, <<>>)) = Part(h)'[p]
      BY <1>1, <1>3, <2>7
    <3> QED
      BY <2>6, <3>1, <3>2
<1> QED
  BY <1>2, <1>3

(* Chmod changes the mode and nothing else.                                *)
LEMMA ChmodSets ==
  ASSUME TreeInv, Stored, NEW h, req'[h] = req[h], NEW p, About(req[h], p), p \in DOMAIN tree,
         NEW mode, Chmod(p, mode)
  PROVE  Sets(h, p, [Part(h)[p] EXCEPT !.mode = mode])
<1>1. DOMAIN tree' = DOMAIN tree \cup {p} /\ data' = data
      /\ \A q \in DOMAIN tree : q # p => tree'[q] = tree[q]
  BY DEF Chmod
<1>2. tree'[p].id = tree[p].id /\ tree'[p].dir = tree[p].dir /\ tree'[p].mode = mode
      /\ tree'[p].owner = tree[p].owner /\ tree'[p].group = tree[p].group
  BY DEF Chmod, TreeInv, Stored, Fields
<1>3. Part(h)[p] = [dir |-> tree[p].dir, mode |-> tree[p].mode, owner |-> tree[p].owner,
                    group |-> tree[p].group,
                    data |-> IF tree[p].dir THEN <<>> ELSE data[tree[p].id]]
  BY PartIs
<1>4. Sets(h, p, Part(h)'[p]) /\
      Part(h)'[p] = [dir |-> tree'[p].dir, mode |-> tree'[p].mode, owner |-> tree'[p].owner,
                     group |-> tree'[p].group, 
                     data |-> IF tree'[p].dir THEN <<>> ELSE data'[tree'[p].id]]
  BY <1>1, <1>2, ChangeSets
<1>5. [Part(h)[p] EXCEPT !.mode = mode] = Part(h)'[p]
  BY <1>1, <1>2, <1>3, <1>4
<1> QED
  BY <1>4, <1>5

(* Chown changes owner and group and nothing else.                         *)
LEMMA ChownSets ==
  ASSUME TreeInv, Stored, NEW h, req'[h] = req[h], NEW p, About(req[h], p), p \in DOMAIN tree,
         NEW uid, NEW gid, tree' = [tree EXCEPT ![p].owner = uid, ![p].group = gid], data' = data
  PROVE  Sets(h, p, [dir |-> Part(h)[p].dir, mode |-> Part(h)[p].mode, owner |-> uid,
                     group |-> gid, data |-> Part(h)[p].data])
<1>1. DOMAIN tree' = DOMAIN tree \cup {p}
      /\ \A q \in DOMAIN tree : q # p => tree'[q] = tree[q]
  OBVIOUS
<1>2. tree'[p].id = tree[p].id /\ tree'[p].dir = tree[p].dir /\ tree'[p].mode = tree[p].mode
      /\ tree'[p].owner = uid /\ tree'[p].group = gid
  BY DEF TreeInv, Stored, Fields
<1>3. Part(h)[p] = [dir |-> tree[p].dir, mode |-> tree[p].mode, owner |-> tree[p].owner,
                    group |-> tree[p].group,
                    data |-> IF tree[p].dir THEN <<>> ELSE data[tree[p].id]]
  BY PartIs
<1>4. Sets(h, p, Part(h)'[p]) /\
      Part(h)'[p] = [dir |-> tree'[p].dir, mode |-> tree'[p].mode, owner |-> tree'[p].owner,
                     group |-> tree'[p].group, 
                     data |-> IF tree'[p].dir THEN <<>> ELSE data'[tree'[p].id]]
  BY <1>1, <1>2, ChangeSets
<1>5. [dir |-> Part(h)[p].dir, mode |-> Part(h)[p].mode, owner |-> uid,
       group |-> gid, data |-> Part(h)[p].data] = Part(h)'[p]
  BY <1>1, <1>2, <1>3, <1>4
<1> QED
  BY <1>4, <1>5

(* Writing to an open file changes the content at the path it was opened   *)
(* by.                                                                     *)
LEMMA WriteSets ==
  ASSUME TreeInv, Stored, NEW h, req'[h] = req[h], NEW p, About(req[h], p), p \in DOMAIN tree,
         ~tree[p].dir, NEW f, f.id = tree[p].id, NEW off, NEW u, Write(f, off, u)
  PROVE  Sets(h, p, [Part(h)[p] EXCEPT !.data = Written(Part(h)[p].data, off, u)])
<1> DEFINE d == Written(data[tree[p].id], off, u)
<1>1. tree' = tree /\ data' = [data EXCEPT ![tree[p].id] = d]
  BY DEF Write
<1> HIDE DEF d
<1>2. DOMAIN tree' = DOMAIN tree \cup {p} /\ data'[tree[p].id] = d
      /\ \A q \in DOMAIN tree : q # p => tree'[q] = tree[q] /\ data'[tree[q].id] = data[tree[q].id]
  BY <1>1 DEF TreeInv, Stored
<1>3. Part(h)[p] = [dir |-> tree[p].dir, mode |-> tree[p].mode, owner |-> tree[p].owner,
                    group |-> tree[p].group,
                    data |-> data[tree[p].id]]
  BY PartIs
<1>4. Sets(h, p, Part(h)'[p]) /\
      Part(h)'[p] = [dir |-> tree'[p].dir, mode |-> tree'[p].mode, owner |-> tree'[p].owner,
                     group |-> tree'[p].group, 
                     data |-> IF tree'[p].dir THEN <<>> ELSE data'[tree'[p].id]]
  BY <1>1, <1>2, ChangeSets
<1>5. [Part(h)[p] EXCEPT !.data = d] = Part(h)'[p]
  BY <1>1, <1>2, <1>3, <1>4
<1>6. Part(h)[p].data = data[tree[p].id]
  BY <1>3
<1> QED
  BY <1>4, <1>5, <1>6 DEF d

(* Removing an entry without children takes it away and nothing else.      *)
LEMMA RemoveDrops ==
  ASSUME TreeInv, Stored, NEW h, req'[h] = req[h], NEW p \in Path, Exists(p), 
         Children(tree, p) = {}, tree' = Without(tree, p), data' = data
  PROVE  Drops(h, p)
<1>1. \A q \in DOMAIN tree : Within(q, p) => q = p
  BY TowardsChild DEF Stored, TreeInv, Within, Children
<1>2. p \in DOMAIN tree /\ Within(p, p)
  BY DEF Exists, LookupError, Within
<1>3. DOMAIN tree' = DOMAIN tree \ {p} /\ \A q \in DOMAIN tree' : tree'[q] = tree[q]
  BY <1>1, <1>2 DEF Without
<1> DEFINE v == Part(h)
           w == Part(h)'
           N == Nodes(h)
           M == Nodes(h)'
<1>4. /\ \A q : q \in DOMAIN v <=> q \in DOMAIN tree /\ About(req[h], q)
      /\ DOMAIN N = DOMAIN v
      /\ \A q \in DOMAIN v :
              /\ N[q] = tree[q]
              /\ v[q] = [dir |-> tree[q].dir, mode |-> tree[q].mode,
                         owner |-> tree[q].owner, group |-> tree[q].group,
                         data |-> IF tree[q].dir THEN <<>> ELSE data[tree[q].id]]
  BY PartIs
<1>5. /\ \A q : q \in DOMAIN w <=> q \in DOMAIN tree' /\ About(req[h], q)
      /\ \A q \in DOMAIN w :
              /\ M[q] = tree'[q]
              /\ w[q] = [dir |-> tree'[q].dir, mode |-> tree'[q].mode,
                         owner |-> tree'[q].owner, group |-> tree'[q].group,
                         data |-> IF tree'[q].dir THEN <<>> ELSE data'[tree'[q].id]]
  BY PartBecomes
<1> HIDE DEF v, w, N, M
<1>6. \A q \in DOMAIN w : w[q] = v[q] /\ M[q] = N[q]
  BY <1>3, <1>4, <1>5
<1>7. \A q : About(req[h], q) => (q \in DOMAIN w <=> q \in DOMAIN v /\ q # p)
  BY <1>3, <1>4, <1>5
<1> QED
  BY <1>6, <1>7 DEF Drops, v, w, N, M

(* What a query asks for: the command that is its only one.                *)
LEMMA CommandIs ==
  ASSUME NEW cmds \in Seq(STRING), NEW allowed, NEW none
  PROVE  LET cmd == Command(cmds, allowed, none)
         IN \/ cmds = <<>> /\ cmd = none
            \/ cmds # <<>> /\ cmd \in allowed /\ cmds = <<cmd>>
            \/ cmds # <<>> /\ cmd = "badRequest" /\ \A a \in allowed : cmds # <<a>>
<1>1. CASE \E i \in DOMAIN cmds : cmds[i] \notin allowed
  <2>1. cmds # <<>> /\ Command(cmds, allowed, none) = "badRequest"
    BY <1>1 DEF Command
  <2>2. ASSUME NEW a \in allowed, cmds = <<a>> PROVE FALSE
    BY <1>1, <2>2
  <2> QED
    BY <2>1, <2>2
<1>2. CASE ~(\E i \in DOMAIN cmds : cmds[i] \notin allowed) /\ Len(cmds) > 1
  <2>1. cmds # <<>> /\ Command(cmds, allowed, none) = "badRequest"
    BY <1>2 DEF Command
  <2>2. ASSUME NEW a \in allowed, cmds = <<a>> PROVE FALSE
    BY <1>2, <2>2
  <2> QED
    BY <2>1, <2>2
<1>3. CASE ~(\E i \in DOMAIN cmds : cmds[i] \notin allowed) /\ ~(Len(cmds) > 1) /\ cmds # <<>>
  <2>1. Len(cmds) = 1
    <3>1. Len(cmds) \in Nat /\ ~(Len(cmds) > 1) /\ Len(cmds) # 0
      BY <1>3
    <3>2. \A n \in Nat : ~(n > 1) /\ n # 0 => n = 1
      OBVIOUS
    <3> QED
      BY <3>1, <3>2
  <2>2. cmds[1] \in allowed
    BY <1>3, <2>1
  <2>3. cmds = <<cmds[1]>>
    BY <2>1
  <2>4. Command(cmds, allowed, none) = cmds[1]
    BY <1>3, <2>1, <2>2 DEF Command
  <2> QED
    BY <1>3, <2>2, <2>3, <2>4
<1>4. CASE cmds = <<>>
  BY <1>4 DEF Command
<1> QED
  BY <1>1, <1>2, <1>3, <1>4

(* The operation of a request is what the contract takes it for.           *)
LEMMA OperationIs ==
  ASSUME NEW r \in Requests
  PROVE  LET op == Operation(r)
         IN /\ op = "put" <=> Contract!IsPut(r)
            /\ op = "mkdir" <=> Contract!IsMkdir(r)
            /\ op = "delete" <=> Contract!IsDelete(r)
            /\ op = "copy" <=> Contract!IsCopy(r)
            /\ op = "rename" <=> Contract!IsRename(r)
            /\ op = "modprops" <=> Contract!IsModProps(r)
            /\ op = "search" <=> Contract!IsSearch(r)
            /\ op = "options" <=> Contract!Plain(r, "OPTIONS")
            /\ op = "notAllowed" <=> r.method \notin Contract!Methods
            /\ op = "badRequest" <=> r.method \in Contract!Methods /\ ~Contract!IsKnown(r)
<1> DEFINE op == Operation(r)
<1> USE DEF Contract!IsPut, Contract!IsMkdir, Contract!IsDelete, Contract!IsCopy, Contract!IsRename,
        Contract!IsModProps, Contract!IsGet, Contract!IsProps, Contract!IsSearch, Contract!IsKnown,
        Contract!Plain, Contract!Posts, Contract!Gets, Contract!Methods
<1>0. r.cmds \in Seq(STRING)
  BY HtFileAssumption
<1>1. \A x, y : <<x>> = <<y>> => x = y
  OBVIOUS
<1>2. \A x : <<x>> # <<>>
  OBVIOUS
<1>3. CASE r.method \in {"GET", "HEAD"}
  <2>1. op = Command(r.cmds, GetCmds, "get")
    BY <1>3 DEF Operation
  <2>2. \/ r.cmds = <<>> /\ op = "get"
        \/ r.cmds # <<>> /\ op \in GetCmds /\ r.cmds = <<op>>
        \/ r.cmds # <<>> /\ op = "badRequest" /\ \A a \in GetCmds : r.cmds # <<a>>
    <3> DEFINE cmd == Command(r.cmds, GetCmds, "get")
    <3>1. \/ r.cmds = <<>> /\ cmd = "get"
          \/ r.cmds # <<>> /\ cmd \in GetCmds /\ r.cmds = <<cmd>>
          \/ r.cmds # <<>> /\ cmd = "badRequest" /\ \A a \in GetCmds : r.cmds # <<a>>
      BY <1>0, CommandIs, ZenonT(60)
    <3> HIDE DEF cmd, op
    <3>2. op = cmd
      BY <2>1 DEF cmd
    <3> QED
      BY <3>1, <3>2
  <2> HIDE DEF op
  <2> QED
    BY <1>1, <1>3, <2>2 DEF GetCmds, op
<1>4. CASE r.method = "POST"
  <2>1. op = Command(r.cmds, PostCmds, "put")
    BY <1>4 DEF Operation
  <2>2. \/ r.cmds = <<>> /\ op = "put"
        \/ r.cmds # <<>> /\ op \in PostCmds /\ r.cmds = <<op>>
        \/ r.cmds # <<>> /\ op = "badRequest" /\ \A a \in PostCmds : r.cmds # <<a>>
    <3> DEFINE cmd == Command(r.cmds, PostCmds, "put")
    <3>1. \/ r.cmds = <<>> /\ cmd = "put"
          \/ r.cmds # <<>> /\ cmd \in PostCmds /\ r.cmds = <<cmd>>
          \/ r.cmds # <<>> /\ cmd = "badRequest" /\ \A a \in PostCmds : r.cmds # <<a>>
      BY <1>0, CommandIs, ZenonT(60)
    <3> HIDE DEF cmd, op
    <3>2. op = cmd
      BY <2>1 DEF cmd
    <3> QED
      BY <3>1, <3>2
  <2> HIDE DEF op
  <2> QED
    BY <1>1, <1>4, <2>2 DEF PostCmds, op
<1>5. CASE r.method \notin {"GET", "HEAD", "POST"} /\ r.method \in DOMAIN MethodOp
  <2>1. op = Command(r.cmds, {}, MethodOp[r.method])
    BY <1>5 DEF Operation
  <2>2. \/ r.cmds = <<>> /\ op = MethodOp[r.method]
        \/ r.cmds # <<>> /\ op = "badRequest"
    BY <1>0, <2>1, CommandIs
  <2>3. r.method \in {"OPTIONS", "PROPS", "MODPROPS", "PUT", "DELETE", "MKDIR", "SEARCH", "COPY", "RENAME"}
    BY <1>5 DEF MethodOp
  <2> HIDE DEF op
  <2> QED
    BY <1>5, <2>2, <2>3 DEF MethodOp, op
<1>6. CASE r.method \notin {"GET", "HEAD", "POST"} /\ r.method \notin DOMAIN MethodOp
  <2>1. op = "notAllowed"
    BY <1>6 DEF Operation
  <2>2. r.method \notin {"OPTIONS", "PROPS", "MODPROPS", "PUT", "DELETE", "MKDIR", "SEARCH", "COPY", "RENAME"}
    BY <1>6 DEF MethodOp
  <2> HIDE DEF op
  <2> QED
    BY <1>6, <2>1, <2>2 DEF op
<1> QED
  BY <1>3, <1>4, <1>5, <1>6

(* What is within a path begins with the same character, and is not the    *)
(* working directory.                                                      *)
LEMMA WithinBeginsLikeIt ==
  ASSUME NEW p \in Path, NEW d \in Path, d # <<>>, Within(p, d)
  PROVE  p # <<>> /\ p[1] = d[1] /\ (d # <<".">> => p # <<".">>)
<1>1. CASE Below(p, d)
  <2>1. OnTheWay(d, p)
    BY <1>1, BelowIsOnTheWay
  <2> QED
    BY <2>1 DEF OnTheWay, Path
<1> QED
  BY <1>1 DEF Within

(* getPath accepts the paths within the root directory.                    *)
LEMMA WithinIsGetPath ==
  ASSUME NEW p \in Path
  PROVE  GetPath(p) <=> Within(p, Root)
<1>1. ASSUME Within(p, Root) PROVE GetPath(p)
  <2>1. p # <<>> /\ p # <<".">> /\ (Root[1] = "/" <=> p[1] = "/")
    BY <1>1, WithinBeginsLikeIt, RootIsPath
  <2>2. PathIntersect(Root, p) = IF Root = p THEN "samePath" ELSE IF Below(p, Root) THEN "leftContains"
                               ELSE IF Below(Root, p) THEN "rightContains" ELSE "noMatch"
    BY <2>1, IntersectIs, RootIsPath
  <2> QED
    BY <1>1, <2>2 DEF GetPath, Within
<1> QED
  BY <1>1, GetPathIsWithin

(* What the contract answers to the request.                               *)
LEMMA ServedIs ==
  ASSUME NEW r \in Requests, NEW s, NEW b
  PROVE  LET op == Operation(r)
             is == Contract!Served(s, r, b)
         IN /\ Begin(r) # Serving => is.status = Begin(r) /\ is.tree = s
            /\ Begin(r) = Serving =>
                 /\ op = "put" => is = Contract!Put(s, r.path, b)
                 /\ op = "mkdir" => is = Contract!Mkdir(s, r.path)
                 /\ op = "delete" => is = Contract!Delete(s, r.path)
                 /\ op = "copy" => is = Contract!Copies(s, r.path, r.to)
                 /\ op = "rename" => is = Contract!Rename(s, r.path, r.to[1])
                 /\ op = "modprops" => is = Contract!ModProps(s, r)
                 /\ op \in {"get", "props", "search"} => is = Contract!Read(s, r.path)
<1> DEFINE op == Operation(r)
<1>1. GetPath(r.path) <=> Contract!Within(r.path, Root)
  BY HtFileAssumption, WithinIsGetPath, SameTrees
<1>2. r.json \in {"none", "props", "invalid"} /\ r.len \in Nat /\ MaxBody \in Nat
  BY HtFileAssumption
<1>3. /\ op = "put" <=> Contract!IsPut(r)
      /\ op = "mkdir" <=> Contract!IsMkdir(r)
      /\ op = "delete" <=> Contract!IsDelete(r)
      /\ op = "copy" <=> Contract!IsCopy(r)
      /\ op = "rename" <=> Contract!IsRename(r)
      /\ op = "modprops" <=> Contract!IsModProps(r)
      /\ op = "search" <=> Contract!IsSearch(r)
      /\ op = "options" <=> Contract!Plain(r, "OPTIONS")
      /\ op = "notAllowed" <=> r.method \notin Contract!Methods
      /\ op = "badRequest" <=> r.method \in Contract!Methods /\ ~Contract!IsKnown(r)
  BY OperationIs
<1>4. LET tooLarge == MaxBody > 0 /\ r.len >= MaxBody /\ r.json # "none"
      IN PropsStatus(r) = IF tooLarge THEN 413 ELSE IF r.json = "invalid" THEN 400 ELSE 200
  BY <1>2 DEF PropsStatus
<1> DEFINE P == PropsStatus(r)
           is == Contract!Served(s, r, b)
<1> HIDE DEF op
<1>5. CASE Begin(r) # Serving
  BY <1>1, <1>3, <1>4, <1>5 DEF Begin, op, Contract!Served, Contract!Is
<1>6. CASE Begin(r) = Serving
  <2>0. /\ r.method \in Contract!Methods /\ Contract!IsKnown(r) /\ ~Contract!Plain(r, "OPTIONS")
        /\ Contract!IsModProps(r) => ~(MaxBody > 0 /\ r.len >= MaxBody /\ r.json # "none") /\ r.json # "invalid"
        /\ ~(Contract!IsCopy(r) /\ r.to = <<>>) /\ ~(Contract!IsRename(r) /\ Len(r.to) # 1)
        /\ Contract!Within(r.path, Root) /\ ~(Contract!IsSearch(r) /\ ~r.valid)
    BY <1>1, <1>3, <1>4, <1>6 DEF Begin, op, Serving
  <2> DEFINE does ==
        CASE Contract!IsPut(r) -> Contract!Put(s, r.path, b)
          [] Contract!IsMkdir(r) -> Contract!Mkdir(s, r.path)
          [] Contract!IsDelete(r) -> Contract!Delete(s, r.path)
          [] Contract!IsCopy(r) -> Contract!Copies(s, r.path, r.to)
          [] Contract!IsRename(r) -> Contract!Rename(s, r.path, r.to[1])
          [] Contract!IsModProps(r) -> Contract!ModProps(s, r)
          [] OTHER -> Contract!Read(s, r.path)
  <2>1. is = does
    <3>1. LET tooLarge == MaxBody > 0 /\ r.len >= MaxBody /\ r.json # "none"
          IN is = IF r.method \notin Contract!Methods THEN Contract!Is(405, s)
                  ELSE IF ~Contract!IsKnown(r) THEN Contract!Is(400, s)
                  ELSE IF Contract!Plain(r, "OPTIONS") THEN Contract!Is(200, s)
                  ELSE IF Contract!IsModProps(r) /\ tooLarge THEN Contract!Is(413, s)
                  ELSE IF Contract!IsModProps(r) /\ r.json = "invalid" THEN Contract!Is(400, s)
                  ELSE IF Contract!IsCopy(r) /\ r.to = <<>> THEN Contract!Is(400, s)
                  ELSE IF Contract!IsRename(r) /\ Len(r.to) # 1 THEN Contract!Is(400, s)
                  ELSE IF ~Contract!Within(r.path, Root) THEN Contract!Is(404, s)
                  ELSE IF Contract!IsSearch(r) /\ ~r.valid THEN Contract!Is(400, s)
                  ELSE does
      BY DEF Contract!Served
    <3> HIDE DEF is, does
    <3> QED
      BY <2>0, <3>1
  <2> QED
    BY <1>3, <1>6, <2>1 DEF op
<1> QED
  BY <1>5, <1>6

(* Whether there is something at a path, and the error if not.             *)
LEMMA ParentIs ==
  ASSUME NEW h, NEW s, Agree(req[h], Part(h), s), NEW p, About(req[h], p),
         \A a \in Ancestors(p) : About(req[h], a)
  PROVE  /\ p \in DOMAIN tree <=> p \in DOMAIN s
         /\ p \in DOMAIN tree => s[p] = Part(h)[p] /\ s[p].dir = tree[p].dir
         /\ ParentError(tree, p) = IF Contract!InFile(s, p) THEN "ENOTDIR"
                                   ELSE IF Contract!Homeless(s, p) THEN "ENOENT" ELSE "ok"
<1>1. ASSUME NEW q, About(req[h], q)
      PROVE  /\ q \in DOMAIN tree <=> q \in DOMAIN s
             /\ q \in DOMAIN tree => s[q] = Part(h)[q] /\ s[q].dir = tree[q].dir
  BY <1>1, PartIs DEF Agree
<1>2. Contract!InFile(s, p) <=> \E a \in Ancestors(p) \cap DOMAIN tree : ~tree[a].dir
  BY <1>1, SamePaths DEF Contract!InFile, Contract!File
<1>3. Contract!Homeless(s, p) <=> ~(Ancestors(p) \subseteq DOMAIN tree)
  BY <1>1, SamePaths DEF Contract!Homeless
<1> QED
  BY <1>1, <1>2, <1>3 DEF ParentError

(* A path is found in the store exactly when the contract finds it, and if *)
(* not, the status is the same.                                            *)
LEMMA LookupIs ==
  ASSUME Stored, NEW h, NEW s, Agree(req[h], Part(h), s), NEW p, About(req[h], p),
         \A a \in Ancestors(p) : About(req[h], a)
  PROVE  /\ Exists(p) <=> p \in DOMAIN s
         /\ Exists(p) <=> p \in DOMAIN tree
         /\ Exists(p) <=> LookupError(tree, p) = "ok"
         /\ LookupError(tree, p) # "ok" => StatusOf(LookupError(tree, p)) = Contract!NotFound(s, p)
<1>1. /\ p \in DOMAIN tree <=> p \in DOMAIN s
      /\ ParentError(tree, p) = IF Contract!InFile(s, p) THEN "ENOTDIR"
                                   ELSE IF Contract!Homeless(s, p) THEN "ENOENT" ELSE "ok"
  BY ParentIs
<1>2. p \in DOMAIN tree => ParentError(tree, p) = "ok"
  BY DEF Stored, Closed, ParentError
<1> QED
  BY <1>1, <1>2 DEF Exists, LookupError, StatusOf, Contract!NotFound

(* An answer changes no file, and its status is the one that it was made   *)
(* with.                                                                   *)
LEMMA AnswerIs ==
  ASSUME WorkInv, NEW h \in Handlers
  PROVE  /\ \A code : Answer(h, code) => status'[h] = code /\ UNCHANGED fs
         /\ \A err : Fails(h, err) => status'[h] = StatusOf(err) /\ UNCHANGED fs /\ err # "ok"
BY DEF Answer, Fails, WorkInv

(* The status and the tree of what the contract tells.                     *)
LEMMA ContractIs ==
  ASSUME NEW code, NEW u
  PROVE  Contract!Is(code, u).status = code /\ Contract!Is(code, u).tree = u
BY DEF Contract!Is

(* What the contract says of a request depends on what was stored when it  *)
(* came.                                                                   *)
LEMMA ResultIs ==
  ASSUME NEW h, req'[h] = req[h], before'[h] = before[h]
  PROVE  Result(h)' = Result(h)
BY DEF Result

(* A request that is answered with what it is about as in u.               *)
LEMMA AnsweredAs ==
  ASSUME NEW h, req'[h] = req[h], before'[h] = before[h], NEW u, Agree(req[h], Part(h)', u),
         Result(h) = Contract!Is(status'[h], u)
  PROVE  IsAlone(h)'
<1>1. Result(h)' = Result(h) /\ Result(h).status = status'[h] /\ Result(h).tree = u
  BY ContractIs, ResultIs
<1>2. Agree(req[h], Part(h)', u) => Agree(req[h], Part(h), u)'
  BY DEF Agree, About
<1>3. Agree(req[h], Part(h), Result(h).tree)'
  BY <1>1, <1>2
<1> QED
  BY <1>1, <1>3 DEF IsAlone

---------------------------------------------------------------------------
(* get, props and search.                                                  *)

ReadWay(h) ==
  /\ Agree(req[h], Part(h), before[h])
  /\ work[h][1].act \notin {"get", "props", "search"} => req[h].path \in DOMAIN before[h]

(* A read goes one step further, or is answered as the contract says.      *)
LEMMA ReadsAlone ==
  ASSUME Inv, Stored, OutInv, NEW h \in Handlers, status[h] = Serving, req[h] \in Requests,
         Result(h) = Contract!Read(before[h], req[h].path),
         Operation(req[h]) \in {"get", "props", "search"}, Stage(h), Step(h),
         ReadWay(h), status'[h] = Serving => Stage(h)',
         req' = req, before'[h] = before[h]
  PROVE  IF status'[h] = Serving THEN ReadWay(h)' ELSE IsAlone(h)'
<1> DEFINE r == req[h]
           s == before[h]
           p == r.path
<1>1. PICK c : c = work[h][1]
  OBVIOUS
<1>2. Safe(c) /\ WorkInv
  BY <1>1, FirstCall DEF Inv
<1>3. 1 \in DOMAIN work[h]
  <2>1. work[h] # <<>> /\ work[h] \in Seq({work[h][i] : i \in DOMAIN work[h]})
    BY DEF Inv, WorkInv, SafeWork
  <2> QED
    BY <2>1
<1>4. \/ c.act \in {"get", "props", "search"} /\ c.to = p
      \/ c.act \in {"stat", "readdir", "send", "scan"} /\ p \in DOMAIN s
  BY <1>1, <1>3 DEF Stage, SearchInv, ReadWay
<1>5. Reads(h, c)
  BY <1>1, <1>2, <1>4, WritesMove DEF Step, Looking
<1>6. UNCHANGED fs
  BY <1>5 DEF Reads, Props, GetOpen, GetStat, GetDir, GetFile, SearchLstat, Scan, Continue, Fails, Answer
<1>7. Agree(r, Part(h)', s) /\ Agree(req[h], Part(h), before[h])'
  <2>1. Part(h)' = Part(h)
    BY <1>6, PartStays
  <2> QED
    BY <2>1 DEF Agree, About, ReadWay
<1>8. /\ Exists(p) <=> p \in DOMAIN s
      /\ LookupError(tree, p) # "ok" => StatusOf(LookupError(tree, p)) = Contract!NotFound(s, p)
      /\ Exists(p) <=> LookupError(tree, p) = "ok"
  BY LookupIs, AboutPath DEF ReadWay
<1>9. ASSUME status'[h] = 200, p \in DOMAIN s PROVE IsAlone(h)'
  <2>1. Result(h) = Contract!Is(status'[h], s)
    BY <1>9 DEF Contract!Read
  <2> QED
    BY <1>7, <2>1, AnsweredAs
<1>10. ASSUME c.to = p, Fails(h, LookupError(tree, c.to)) PROVE IsAlone(h)' /\ status'[h] # Serving
  <2>1. status'[h] = Contract!NotFound(s, p) /\ p \notin DOMAIN s
    BY <1>2, <1>8, <1>10, AnswerIs
  <2>2. Result(h) = Contract!Is(status'[h], s)
    BY <2>1 DEF Contract!Read
  <2>3. status'[h] # Serving
    BY <2>1 DEF Contract!NotFound, Serving
  <2> QED
    BY <1>7, <2>2, <2>3, AnsweredAs
<1>11. ASSUME p \in DOMAIN s, \/ \E cs : Continue(h, cs)
                              \/ \E left : status' = [status EXCEPT ![h] = IF left = <<>> THEN 200 ELSE @]
                              \/ status' = [status EXCEPT ![h] = 200]
       PROVE IF status'[h] = Serving THEN ReadWay(h)' ELSE IsAlone(h)'
  <2>1. status'[h] \in {Serving, 200}
    BY <1>2, <1>11 DEF Continue, Then, WorkInv
  <2> QED
    BY <1>7, <1>9, <1>11, <2>1 DEF ReadWay, Serving
<1>12. CASE c.act \in {"get", "props", "search"} /\ c.to = p
  <2>1. \/ Fails(h, LookupError(tree, c.to))
        \/ Exists(p) /\ \E cs : Continue(h, cs)
    BY <1>5, <1>12 DEF Reads, Props, GetOpen, GetStat, GetDir, GetFile, SearchLstat, Scan
  <2> QED
    BY <1>8, <1>10, <1>11, <1>12, <2>1
<1>13. CASE c.act \in {"stat", "readdir", "send", "scan"} /\ p \in DOMAIN s
  <2>1. \/ \E cs : Continue(h, cs)
        \/ \E left : status' = [status EXCEPT ![h] = IF left = <<>> THEN 200 ELSE @]
        \/ status' = [status EXCEPT ![h] = 200]
    <3>1. CASE Scan(h, c)
      BY <3>1, Zenon DEF Scan
    <3>2. CASE ~Scan(h, c)
      BY <1>5, <1>13, <3>2 DEF Reads, Props, GetOpen, GetStat, GetDir, GetFile, SearchLstat
    <3> QED
      BY <3>1, <3>2
  <2> QED
    BY <1>11, <1>13, <2>1
<1> QED
  BY <1>4, <1>12, <1>13

(* The contract's entries with another mode, and with other owners.        *)
ModeSet(s, r) == IF r.mode = "" THEN s[r.path] ELSE [s[r.path] EXCEPT !.mode = r.mode]

Wanted(new, old) == IF new = "" THEN old ELSE new

OwnerSet(e, r) ==
  [dir |-> e.dir, mode |-> e.mode, owner |-> Wanted(r.owner, e.owner),
   group |-> Wanted(r.group, e.group), data |-> e.data]

Known(r) == r.owner \in Users \cup {""} /\ r.group \in Groups \cup {""}

IsEntry(e) == e = [dir |-> e.dir, mode |-> e.mode, owner |-> e.owner, group |-> e.group,
                   data |-> e.data]

(* What the contract says of a change of properties: not found, refused,   *)
(* done, or the mode set and the owner not.                                *)
LEMMA ModPropsIs ==
  ASSUME NEW s, NEW r, LET p == r.path IN p \in DOMAIN s => IsEntry(s[p])
  PROVE  LET p == r.path
             n == ModeSet(s, r)
             m == OwnerSet(n, r)
             allowed == n = m \/ Privileged \/ (m.owner = Me /\ m.group \in MyGroups)
             is == Contract!ModProps(s, r)
         IN /\ p \notin DOMAIN s => is = Contract!Is(Contract!NotFound(s, p), s)
            /\ p \in DOMAIN s /\ ~(Contract!Mine(s, p) /\ Known(r)) => is = Contract!Is(404, s)
            /\ p \in DOMAIN s /\ Contract!Mine(s, p) /\ Known(r) =>
                 /\ allowed => is = Contract!Is(200, [s EXCEPT ![p] = m])
                 /\ ~allowed => is = Contract!Is(404, [s EXCEPT ![p] = n])
<1> DEFINE p == r.path
           n == IF r.mode = "" THEN s[p] ELSE [s[p] EXCEPT !.mode = r.mode]
           m == [n EXCEPT !.owner = IF r.owner = "" THEN @ ELSE r.owner,
                          !.group = IF r.group = "" THEN @ ELSE r.group]
           is == Contract!ModProps(s, r)
<1>1. /\ p \notin DOMAIN s => is = Contract!Is(Contract!NotFound(s, p), s)
      /\ p \in DOMAIN s /\ ~(Contract!Mine(s, p) /\ Known(r)) => is = Contract!Is(404, s)
      /\ p \in DOMAIN s /\ Contract!Mine(s, p) /\ Known(r) =>
           is = IF n = m \/ Privileged \/ (m.owner = Me /\ m.group \in MyGroups)
                THEN Contract!Is(200, [s EXCEPT ![p] = m])
                ELSE Contract!Is(404, [s EXCEPT ![p] = n])
  BY Zenon DEF Contract!ModProps, Known
<1>2. ASSUME p \in DOMAIN s PROVE n = ModeSet(s, r) /\ m = OwnerSet(ModeSet(s, r), r)
  <2>1. n = ModeSet(s, r)
    BY DEF ModeSet
  <2>2. IsEntry(n)
    BY <1>2 DEF IsEntry
  <2>3. PICK e : e = n
    OBVIOUS
  <2>4. PICK k : k = [e EXCEPT !.owner = IF r.owner = "" THEN @ ELSE r.owner,
                               !.group = IF r.group = "" THEN @ ELSE r.group]
    OBVIOUS
  <2>5. m = k
    BY <2>3, <2>4
  <2> HIDE DEF n, m
  <2>6. e = [dir |-> e.dir, mode |-> e.mode, owner |-> e.owner, group |-> e.group, data |-> e.data]
    BY <2>2, <2>3 DEF IsEntry
  <2>7. k.owner = Wanted(r.owner, e.owner) /\ k.group = Wanted(r.group, e.group)
        /\ k.dir = e.dir /\ k.mode = e.mode /\ k.data = e.data
    BY <2>4, <2>6 DEF Wanted
  <2>8. k = [dir |-> k.dir, mode |-> k.mode, owner |-> k.owner, group |-> k.group, data |-> k.data]
    BY <2>4, <2>6
  <2>9. k = OwnerSet(e, r)
    BY <2>7, <2>8 DEF OwnerSet
  <2> QED
    BY <2>1, <2>3, <2>5, <2>9
<1> DEFINE x == ModeSet(s, r)
           y == OwnerSet(x, r)
           mayBe == x = y \/ Privileged \/ (y.owner = Me /\ y.group \in MyGroups)
<1>3. p \in DOMAIN s /\ Contract!Mine(s, p) /\ Known(r) =>
        is = IF mayBe THEN Contract!Is(200, [s EXCEPT ![p] = y])
             ELSE Contract!Is(404, [s EXCEPT ![p] = x])
  <2> HIDE DEF n, m, is, p
  <2> SUFFICES ASSUME p \in DOMAIN s, Contract!Mine(s, p), Known(r)
               PROVE  is = IF mayBe THEN Contract!Is(200, [s EXCEPT ![p] = y])
                           ELSE Contract!Is(404, [s EXCEPT ![p] = x])
    OBVIOUS
  <2>1. n = x /\ m = y
    BY <1>2
  <2> HIDE DEF x, y
  <2> QED
    BY <1>1, <2>1
<1> HIDE DEF n, m, is, x, y
<1>4. p \in DOMAIN s /\ Contract!Mine(s, p) /\ Known(r) =>
        /\ mayBe => is = Contract!Is(200, [s EXCEPT ![p] = y])
        /\ ~mayBe => is = Contract!Is(404, [s EXCEPT ![p] = x])
  BY <1>3
<1> QED
  BY <1>1, <1>4, Zenon DEF x, y, is

ModWay(h) ==
  LET c == work[h][1]
      p == req[h].path
      s == before[h]
  IN /\ Len(work[h]) = 1 /\ c.to = p
     /\ \/ c.act = "modprops" /\ Agree(req[h], Part(h), s)
        \/ /\ c.act \in {"setMode", "setOwner"}
           /\ p \in DOMAIN s /\ Contract!Mine(s, p) /\ Known(req[h]) /\ IsEntry(s[p])
           /\ c.fi.mode = s[p].mode /\ c.fi.owner = s[p].owner /\ c.fi.group = s[p].group
           /\ Agree(req[h], Part(h),
                    IF c.act = "setMode" THEN s ELSE [s EXCEPT ![p] = ModeSet(s, req[h])])

(* What is set at p, and what is left alone.                               *)
LEMMA SetsAgree ==
  ASSUME NEW h, NEW s, Agree(req[h], Part(h), s), NEW p, p \in DOMAIN s, About(req[h], p), NEW e,
         Sets(h, p, e)
  PROVE  Agree(req[h], Part(h)', [s EXCEPT ![p] = e])
<1> DEFINE v == Part(h)
           w == Part(h)'
           N == Nodes(h)
           M == Nodes(h)'
<1>1. /\ \A q : About(req[h], q) => (q \in DOMAIN w <=> q \in DOMAIN v \/ q = p)
      /\ \A q \in DOMAIN v : q # p => w[q] = v[q]
      /\ w[p] = e
  BY DEF Sets
<1> HIDE DEF v, w, N, M
<1>2. \A q : About(req[h], q) => /\ q \in DOMAIN v <=> q \in DOMAIN s
                                 /\ q \in DOMAIN v => v[q] = s[q]
  BY DEF Agree, v
<1>3. \A q : About(req[h], q) => /\ q \in DOMAIN w <=> q \in DOMAIN [s EXCEPT ![p] = e]
                                 /\ q \in DOMAIN w => w[q] = [s EXCEPT ![p] = e][q]
  BY <1>1, <1>2
<1> QED
  BY <1>3 DEF Agree, w

(* A change of properties goes one step further, or is answered as the     *)
(* contract says, also when chown is refused after chmod.                  *)
LEMMA ModPropsAlone ==
  ASSUME Inv, Stored, NEW h \in Handlers, status[h] = Serving, req[h] \in Requests,
         Result(h) = Contract!ModProps(before[h], req[h]),
         Step(h), ModWay(h), req' = req, before'[h] = before[h]
  PROVE  IF status'[h] = Serving THEN ModWay(h)' ELSE IsAlone(h)'
<1> DEFINE r == req[h]
           s == before[h]
           p == r.path
           n == ModeSet(s, r)
<1>1. PICK c : c = work[h][1]
  OBVIOUS
<1>2. Safe(c) /\ WorkInv /\ TreeInv
  BY <1>1, FirstCall DEF Inv
<1>3. About(r, p) /\ \A a \in Ancestors(p) : About(r, a)
  BY AboutPath
<1>4. c.to = p /\ Len(work[h]) = 1
  BY <1>1 DEF ModWay
<1>5. \A q \in DOMAIN Part(h) : IsEntry(Part(h)[q])
  BY PartIs DEF IsEntry
<1>6. p \in DOMAIN s => IsEntry(s[p])
  BY <1>1, <1>3, <1>5 DEF ModWay, Agree
<1>7. ASSUME NEW u, Agree(r, Part(h), u), UNCHANGED fs
      PROVE  Agree(r, Part(h)', u) /\ Agree(req[h], Part(h), u)'
  BY <1>7, PartStays DEF Agree, About
<1>8. ASSUME NEW u, NEW code, Agree(r, Part(h)', u), Result(h) = Contract!Is(code, u), status'[h] = code
      PROVE  IsAlone(h)'
  BY <1>8, AnsweredAs
<1>9. CASE c.act = "modprops"
  <2>1. ModPropsLstat(h, c)
    BY <1>1, <1>9 DEF Step, Writes, Reads, MkdirAll, Mkdir, PutCreate, PutBody, Target, CopyLstat, CopyOpen,
       CopyDir, CopyList, CopyFile, CopyData, CopyChmod, Rename, RemoveAll, Rmdir, SetMode, SetOwner,
       Props, GetOpen, GetStat, GetDir, GetFile, SearchLstat, Scan
  <2>2. Agree(r, Part(h), s)
    BY <1>1, <1>9 DEF ModWay
  <2>3. /\ Exists(p) <=> p \in DOMAIN s
        /\ Exists(p) <=> p \in DOMAIN tree
        /\ LookupError(tree, p) # "ok" => StatusOf(LookupError(tree, p)) = Contract!NotFound(s, p)
        /\ Exists(p) <=> LookupError(tree, p) = "ok"
    BY <1>3, <2>2, LookupIs
  <2>4. p \in DOMAIN s => /\ s[p].mode = tree[p].mode /\ s[p].owner = tree[p].owner
                          /\ s[p].group = tree[p].group /\ (Owns(p) <=> Contract!Mine(s, p))
    <3>1. p \in DOMAIN s => s[p] = Part(h)[p] /\ p \in DOMAIN Part(h)
      BY <1>3, <2>2 DEF Agree
    <3>2. p \in DOMAIN s => s[p].mode = tree[p].mode /\ s[p].owner = tree[p].owner
                          /\ s[p].group = tree[p].group
      BY <3>1, PartIs
    <3> QED
      BY <3>2 DEF Owns, Contract!Mine
  <2>5. CASE Fails(h, LookupError(tree, c.to))
    <3>1. status'[h] = Contract!NotFound(s, p) /\ p \notin DOMAIN s /\ UNCHANGED fs
      BY <1>2, <1>4, <2>3, <2>5, AnswerIs
    <3>2. Result(h) = Contract!Is(Contract!NotFound(s, p), s)
      BY <1>6, <3>1, ModPropsIs, ZenonT(60)
    <3>3. status'[h] # Serving
      BY <3>1 DEF Contract!NotFound, Serving
    <3> QED
      BY <1>7, <1>8, <2>2, <3>1, <3>2, <3>3
  <2>6. CASE Exists(c.to) /\ ~(Owns(c.to) /\ Known(r)) /\ Answer(h, 404)
    <3>1. status'[h] = 404 /\ p \in DOMAIN s /\ UNCHANGED fs /\ ~(Contract!Mine(s, p) /\ Known(r))
      BY <1>2, <1>4, <2>3, <2>4, <2>6, AnswerIs
    <3>2. Result(h) = Contract!Is(404, s)
      BY <1>6, <3>1, ModPropsIs, ZenonT(60)
    <3> QED
      BY <1>7, <1>8, <2>2, <3>1, <3>2 DEF Serving
  <2>7. CASE Exists(c.to) /\ Owns(c.to) /\ Known(r)
             /\ Continue(h, <<[c EXCEPT !.act = "setMode", !.fi = Info(c.to)]>>)
    <3> DEFINE d == [c EXCEPT !.act = "setMode", !.fi = Info(c.to)]
    <3>1. d.act = "setMode" /\ d.to = p /\ d.fi = Info(p)
      BY <1>2, <1>4 DEF Safe
    <3> HIDE DEF d
    <3>2. UNCHANGED fs /\ work'[h] = <<d>> /\ status'[h] = Serving
      BY <1>2, <1>4, <2>7, OnlyCall DEF Continue, d
    <3>3. work'[h][1] = d /\ Len(work'[h]) = 1
      BY <3>2
    <3>4. d.fi.mode = s[p].mode /\ d.fi.owner = s[p].owner /\ d.fi.group = s[p].group
          /\ p \in DOMAIN s /\ Contract!Mine(s, p)
      BY <1>4, <2>3, <2>4, <2>7, <3>1 DEF Info
    <3>5. Agree(req[h], Part(h), s)'
      BY <1>7, <2>2, <3>2
    <3>6. ModWay(h)'
      BY <1>6, <2>7, <3>1, <3>3, <3>4, <3>5 DEF ModWay, Known
    <3> QED
      BY <3>2, <3>6
  <2>8. \/ Fails(h, LookupError(tree, c.to))
        \/ Exists(c.to) /\ ~(Owns(c.to) /\ Known(r)) /\ Answer(h, 404)
        \/ Exists(c.to) /\ Owns(c.to) /\ Known(r)
             /\ Continue(h, <<[c EXCEPT !.act = "setMode", !.fi = Info(c.to)]>>)
    BY <2>1, Zenon DEF ModPropsLstat, Known
  <2> QED
    BY <2>5, <2>6, <2>7, <2>8
<1>10. CASE c.act = "setMode"
  <2> DEFINE mode == IF r.mode = "" THEN c.fi.mode ELSE r.mode
             d == [c EXCEPT !.act = "setOwner"]
             t == [s EXCEPT ![p] = n]
  <2>1. SetMode(h, c)
    BY <1>1, <1>10 DEF Step, Writes, Reads, MkdirAll, Mkdir, PutCreate, PutBody, Target, CopyLstat, CopyOpen,
       CopyDir, CopyList, CopyFile, CopyData, CopyChmod, Rename, RemoveAll, Rmdir, ModPropsLstat, SetOwner,
       Props, GetOpen, GetStat, GetDir, GetFile, SearchLstat, Scan
  <2>2. /\ p \in DOMAIN s /\ Contract!Mine(s, p) /\ Known(r) /\ IsEntry(s[p])
        /\ c.fi.mode = s[p].mode /\ c.fi.owner = s[p].owner /\ c.fi.group = s[p].group
        /\ Agree(r, Part(h), s)
    BY <1>1, <1>10 DEF ModWay
  <2>3. p \in DOMAIN tree /\ s[p] = Part(h)[p] /\ Exists(p)
    BY <1>3, <2>2, LookupIs, ParentIs
  <2>4. Owns(p)
    <3>1. s[p].owner = tree[p].owner
      BY <1>3, <2>3, PartIs
    <3> QED
      BY <2>2, <3>1 DEF Owns, Contract!Mine
  <2>5. d.act = "setOwner" /\ d.to = p /\ d.fi = c.fi
    BY <1>2, <1>4 DEF Safe
  <2>6. ASSUME Then(h, <<d>>), Agree(r, Part(h)', t) PROVE ModWay(h)' /\ status'[h] = Serving
    <3> HIDE DEF d
    <3>1. work'[h] = <<d>> /\ status'[h] = Serving
      BY <1>2, <1>4, <2>6, OnlyCall
    <3>2. work'[h][1] = d /\ Len(work'[h]) = 1
      BY <3>1
    <3>3. Agree(req[h], Part(h), t)'
      BY <2>6, ZenonT(60) DEF Agree, About, ModeSet
    <3> QED
      BY <2>2, <2>5, <3>1, <3>2, <3>3 DEF ModWay, Known, Contract!Mine, IsEntry, ModeSet
  <2>7. CASE mode = c.fi.mode /\ Continue(h, <<d>>)
    <3>1. n = s[p]
      BY <2>2, <2>7 DEF ModeSet, IsEntry
    <3>2. \A q : About(r, q) => /\ q \in DOMAIN Part(h)' <=> q \in DOMAIN t
                                /\ q \in DOMAIN Part(h)' => Part(h)'[q] = t[q]
      <4>1. Part(h)' = Part(h)
        BY <2>7, PartStays DEF Continue
      <4> QED
        BY <2>2, <3>1, <4>1 DEF Agree
    <3>3. Agree(r, Part(h)', t)
      BY <3>2 DEF Agree
    <3> QED
      BY <2>6, <2>7, <3>3 DEF Continue
  <2>8. CASE mode # c.fi.mode /\ Chmod(c.to, mode) /\ Then(h, <<d>>)
    <3>1. mode = r.mode /\ n = [s[p] EXCEPT !.mode = mode]
      BY <2>8 DEF ModeSet
    <3> HIDE DEF mode
    <3>2. Sets(h, p, n)
      BY <1>2, <1>3, <1>4, <2>3, <2>8, <3>1, ChmodSets
    <3>3. Agree(r, Part(h)', t)
      BY <1>3, <2>2, <3>2, SetsAgree
    <3> QED
      BY <2>6, <2>8, <3>3
  <2>9. ChmodError(c.to) = "ok"
    BY <1>4, <2>3, <2>4 DEF ChmodError, Exists
  <2>10. \/ mode = c.fi.mode /\ Continue(h, <<d>>)
         \/ mode # c.fi.mode /\ Chmod(c.to, mode) /\ Then(h, <<d>>)
    BY <2>1, <2>9, Zenon DEF SetMode
  <2> QED
    BY <2>6, <2>7, <2>8, <2>10
<1>11. CASE c.act = "setOwner"
  <2> DEFINE uid == IF r.owner = "" THEN c.fi.owner ELSE r.owner
             gid == IF r.group = "" THEN c.fi.group ELSE r.group
             differs == uid # c.fi.owner \/ gid # c.fi.group
             allowed == Privileged \/ (Owns(c.to) /\ uid = Me /\ gid \in MyGroups)
             t == [s EXCEPT ![p] = n]
             m == OwnerSet(n, r)
             mayBe == n = m \/ Privileged \/ (m.owner = Me /\ m.group \in MyGroups)
  <2>1. SetOwner(h, c)
    BY <1>1, <1>11 DEF Step, Writes, Reads, MkdirAll, Mkdir, PutCreate, PutBody, Target, CopyLstat, CopyOpen,
       CopyDir, CopyList, CopyFile, CopyData, CopyChmod, Rename, RemoveAll, Rmdir, ModPropsLstat, SetMode,
       Props, GetOpen, GetStat, GetDir, GetFile, SearchLstat, Scan
  <2>2. /\ p \in DOMAIN s /\ Contract!Mine(s, p) /\ Known(r) /\ IsEntry(s[p])
        /\ c.fi.mode = s[p].mode /\ c.fi.owner = s[p].owner /\ c.fi.group = s[p].group
        /\ Agree(r, Part(h), t)
    BY <1>1, <1>11 DEF ModWay
  <2>3. n.owner = s[p].owner /\ n.group = s[p].group /\ IsEntry(n) /\ p \in DOMAIN t /\ t[p] = n
    BY <2>2 DEF ModeSet, IsEntry
  <2> HIDE DEF n
  <2>4. m.owner = uid /\ m.group = gid
        /\ m = [dir |-> n.dir, mode |-> n.mode, owner |-> uid, group |-> gid, data |-> n.data]
    BY <2>2, <2>3 DEF OwnerSet, Wanted
  <2> HIDE DEF t, m, uid, gid
  <2>5. n = m <=> ~(uid # c.fi.owner \/ gid # c.fi.group)
    BY <2>2, <2>3, <2>4 DEF IsEntry
  <2>6. p \in DOMAIN tree /\ Part(h)[p] = n /\ Exists(p)
    BY <1>3, <2>2, <2>3, LookupIs, ParentIs
  <2>7. Owns(p) /\ (Privileged \/ s[p].owner = Me)
    <3>1. n.owner = tree[p].owner
      BY <1>3, <2>6, PartIs
    <3> QED
      BY <2>2, <2>3, <3>1 DEF Owns, Contract!Mine
  <2>8. /\ mayBe => Result(h) = Contract!Is(200, [s EXCEPT ![p] = m])
        /\ ~mayBe => Result(h) = Contract!Is(404, t)
    BY <1>6, <2>2, ModPropsIs DEF m, n, t
  <2>9. allowed <=> Privileged \/ (uid = Me /\ gid \in MyGroups)
    BY <1>4, <2>7
  <2>10. CASE ~differs /\ Continue(h, <<>>)
    <3>1. UNCHANGED fs /\ status'[h] = 200
      BY <1>2, <1>4, <2>10, OnlyCall DEF Continue
    <3>2. [s EXCEPT ![p] = m] = t /\ mayBe
      BY <2>5, <2>10 DEF t
    <3> QED
      BY <1>7, <1>8, <2>2, <2>8, <3>1, <3>2 DEF Serving
  <2>11. CASE differs /\ ~(Exists(c.to) /\ allowed) /\ Answer(h, 404)
    <3>1. UNCHANGED fs /\ status'[h] = 404
      BY <1>2, <2>11, AnswerIs
    <3>2. ~mayBe
      BY <1>4, <2>4, <2>5, <2>6, <2>9, <2>11
    <3> QED
      BY <1>7, <1>8, <2>2, <2>8, <3>1, <3>2 DEF Serving
  <2>12. CASE /\ differs /\ allowed
              /\ tree' = [tree EXCEPT ![c.to].owner = uid, ![c.to].group = gid]
              /\ Then(h, <<>>) /\ UNCHANGED data
    <3>1. status'[h] = 200
      BY <1>2, <1>4, <2>12, OnlyCall
    <3>2. Sets(h, p, [dir |-> n.dir, mode |-> n.mode, owner |-> uid, group |-> gid, data |-> n.data])
      BY <1>2, <1>3, <1>4, <2>6, <2>12, ChownSets
    <3>3. Sets(h, p, m)
      BY <2>4, <3>2
    <3>4. Agree(r, Part(h)', [t EXCEPT ![p] = m])
      BY <1>3, <2>2, <2>3, <3>3, SetsAgree
    <3>5. [t EXCEPT ![p] = m] = [s EXCEPT ![p] = m]
      BY DEF t
    <3>6. mayBe
      BY <2>4, <2>9, <2>12
    <3> QED
      BY <1>8, <2>8, <3>1, <3>4, <3>5, <3>6 DEF Serving
  <2>13. \/ ~differs /\ Continue(h, <<>>)
         \/ differs /\ ~(Exists(c.to) /\ allowed) /\ Answer(h, 404)
         \/ /\ differs /\ allowed
            /\ tree' = [tree EXCEPT ![c.to].owner = uid, ![c.to].group = gid]
            /\ Then(h, <<>>) /\ UNCHANGED data
    BY <2>1, Zenon DEF SetOwner, uid, gid
  <2> QED
    BY <2>10, <2>11, <2>12, <2>13
<1> QED
  BY <1>1, <1>9, <1>10, <1>11 DEF ModWay

Writing == {"mkdirAll", "mkdir", "create", "body", "copyTo", "renameTo", "lstat", "open", "copyDir", "list",
            "copyFile", "copy", "chmod", "rename", "remove", "rmdir", "modprops", "setMode", "setOwner"}

(* The action that makes the call.                                         *)
LEMMA WhichAction ==
  ASSUME NEW h, NEW c, c = work[h][1], c.act \in Writing, Step(h)
  PROVE  /\ c.act = "mkdirAll" => MkdirAll(h, c)
         /\ c.act = "mkdir" => Mkdir(h, c)
         /\ c.act = "create" => PutCreate(h, c)
         /\ c.act = "body" => PutBody(h, c)
         /\ c.act \in {"copyTo", "renameTo"} => Target(h, c)
         /\ c.act = "lstat" => CopyLstat(h, c)
         /\ c.act = "open" => CopyOpen(h, c)
         /\ c.act = "copyDir" => CopyDir(h, c)
         /\ c.act = "list" => CopyList(h, c)
         /\ c.act = "copyFile" => CopyFile(h, c)
         /\ c.act = "copy" => CopyData(h, c)
         /\ c.act = "chmod" => CopyChmod(h, c)
         /\ c.act = "rename" => Rename(h, c)
         /\ c.act = "remove" => RemoveAll(h, c)
         /\ c.act = "rmdir" => Rmdir(h, c)
<1>1. ~Reads(h, c)
  BY DEF Writing, Reads, Props, GetOpen, GetStat, GetDir, GetFile, SearchLstat, Scan
<1>2. Writes(h, c)
  BY <1>1 DEF Step
<1>3. /\ MkdirAll(h, c) => c.act = "mkdirAll"
      /\ Mkdir(h, c) => c.act = "mkdir"
      /\ PutCreate(h, c) => c.act = "create"
      /\ PutBody(h, c) => c.act = "body"
      /\ Target(h, c) => c.act \in {"copyTo", "renameTo"}
      /\ CopyLstat(h, c) => c.act = "lstat"
      /\ CopyOpen(h, c) => c.act = "open"
      /\ CopyDir(h, c) => c.act = "copyDir"
      /\ CopyList(h, c) => c.act = "list"
      /\ CopyFile(h, c) => c.act = "copyFile"
      /\ CopyData(h, c) => c.act = "copy"
      /\ CopyChmod(h, c) => c.act = "chmod"
      /\ Rename(h, c) => c.act = "rename"
      /\ RemoveAll(h, c) => c.act = "remove"
      /\ Rmdir(h, c) => c.act = "rmdir"
      /\ ModPropsLstat(h, c) => c.act = "modprops"
      /\ SetMode(h, c) => c.act = "setMode"
      /\ SetOwner(h, c) => c.act = "setOwner"
  BY DEF MkdirAll, Mkdir, PutCreate, PutBody, Target, CopyLstat, CopyOpen,
       CopyDir, CopyList, CopyFile, CopyData, CopyChmod, Rename, RemoveAll, Rmdir, ModPropsLstat, SetMode, SetOwner
<1> QED
  BY <1>2, <1>3 DEF Writes

(* Whether copyRename refuses a target.                                    *)
LEMMA TargetIs ==
  ASSUME NEW r \in Requests, NEW from \in Path, Within(from, Root), NEW to \in Path
  PROVE  /\ GetPath(to) <=> Within(to, Root)
         /\ Within(to, Root) => (PathIntersect(from, to) # "noMatch" <=> Within(from, to) \/ Within(to, from))
<1>1. GetPath(to) <=> Within(to, Root)
  BY WithinIsGetPath
<1>2. ASSUME Within(to, Root)
      PROVE  PathIntersect(from, to) # "noMatch" <=> Within(from, to) \/ Within(to, from)
  <2>1. /\ from # <<>> /\ from # <<".">> /\ to # <<>> /\ to # <<".">>
        /\ (from[1] = "/" <=> to[1] = "/")
    BY <1>2, WithinBeginsLikeIt, RootIsPath
  <2>2. PathIntersect(from, to) = IF from = to THEN "samePath" ELSE IF Below(to, from) THEN "leftContains"
                                  ELSE IF Below(from, to) THEN "rightContains" ELSE "noMatch"
    BY <2>1, IntersectIs
  <2> QED
    BY <2>2 DEF Within
<1> QED
  BY <1>1, <1>2

(* What the contract says of a rename, case by case.                       *)
LEMMA RenameIs ==
  ASSUME NEW s, NEW from, NEW to
  PROVE  LET is == Contract!Rename(s, from, to)
             moved == Contract!Added(Contract!Out(Contract!Out(s, from), to), Contract!Moved(s, from, to))
         IN is = IF ~Within(to, Root) THEN Contract!Is(404, s)
                 ELSE IF Within(from, to) \/ Within(to, from) THEN Contract!Is(400, s)
                 ELSE IF from \notin DOMAIN s THEN Contract!Is(Contract!NotFound(s, from), s)
                 ELSE IF Contract!Homeless(s, to) \/ Contract!InFile(s, to)
                   THEN Contract!Is(Contract!NotFound(s, to), s)
                 ELSE IF Contract!Dir(s, to) /\ Contract!File(s, from) THEN Contract!Is(404, s)
                 ELSE IF Contract!File(s, to) /\ Contract!Dir(s, from) THEN Contract!Is(500, s)
                 ELSE IF \E p \in DOMAIN s : Below(p, to) THEN Contract!Is(500, s)
                 ELSE Contract!Is(200, moved)
<1>1. Contract!Within(to, Root) = Within(to, Root) /\ Contract!Within(to, from) = Within(to, from)
      /\ Contract!Within(from, to) = Within(from, to)
  BY SameTrees DEF Within, Contract!Within
<1>2. (\E p \in DOMAIN s : Contract!Below(p, to)) <=> (\E p \in DOMAIN s : Below(p, to))
  BY SamePaths
<1> QED
  BY <1>1, <1>2 DEF Contract!Rename

(* What is moved.                                                          *)
(* Whether q is where something is moved.                                  *)
Lands(s, from, to, q) == \E b \in DOMAIN s : Within(b, from) /\ q = Rebased(b, from, to)

(* What is stored after a rename, path by path.                            *)
LEMMA MovedIs ==
  ASSUME NEW s, NEW from, NEW to, NEW u,
         u = Contract!Added(Contract!Out(Contract!Out(s, from), to), Contract!Moved(s, from, to))
  PROVE  \A q : /\ q \in DOMAIN u <=> \/ q \in DOMAIN s /\ ~Within(q, from) /\ ~Within(q, to)
                                      \/ Lands(s, from, to, q)
                /\ Lands(s, from, to, q) => u[q] = s[Rebased(q, to, from)]
                /\ q \in DOMAIN u /\ ~Lands(s, from, to, q) => u[q] = s[q]
<1>1. PICK o : o = Contract!Out(Contract!Out(s, from), to)
  OBVIOUS
<1>2. PICK m : m = Contract!Moved(s, from, to)
  OBVIOUS
<1>3. /\ \A q : q \in DOMAIN o <=> q \in DOMAIN s /\ ~Within(q, from) /\ ~Within(q, to)
      /\ \A q \in DOMAIN o : o[q] = s[q]
  BY <1>1, SameTrees DEF Contract!Out
<1>4. /\ \A q : q \in DOMAIN m <=> Lands(s, from, to, q)
      /\ \A q \in DOMAIN m : m[q] = s[Rebased(q, to, from)]
  BY <1>2, SameTrees DEF Contract!Moved, Lands
<1>5. DOMAIN u = DOMAIN o \cup DOMAIN m
      /\ \A q \in DOMAIN u : u[q] = IF q \in DOMAIN m THEN m[q] ELSE o[q]
  BY <1>1, <1>2 DEF Contract!Added
<1> QED
  BY <1>3, <1>4, <1>5

RenameWay(h) ==
  LET c == work[h][1]
      r == req[h]
  IN /\ Len(work[h]) = 1 /\ c.from = r.path /\ c.to = r.to[1] /\ 1 \in DOMAIN r.to
     /\ Agree(r, Part(h), before[h])
     /\ \/ c.act = "renameTo"
        \/ c.act = "rename" /\ Within(c.to, Root) /\ ~Within(c.from, c.to) /\ ~Within(c.to, c.from)

(* A rename goes one step further, or is answered as the contract says.    *)
LEMMA RenameAlone ==
  ASSUME Inv, Stored, NEW h \in Handlers, status[h] = Serving, req[h] \in Requests,
         Within(req[h].path, Root),
         Result(h) = Contract!Rename(before[h], req[h].path, req[h].to[1]),
         Step(h), RenameWay(h), req' = req, before'[h] = before[h]
  PROVE  IF status'[h] = Serving THEN RenameWay(h)' ELSE IsAlone(h)'
<1> DEFINE r == req[h]
           s == before[h]
           from == r.path
           to == r.to[1]
<1>1. PICK c : c = work[h][1]
  OBVIOUS
<1>2. Safe(c) /\ WorkInv /\ TreeInv
  BY <1>1, FirstCall DEF Inv
<1>3. c.from = from /\ c.to = to /\ Len(work[h]) = 1 /\ from \in Path /\ to \in Path
      /\ Agree(r, Part(h), s) /\ 1 \in DOMAIN r.to
  BY <1>1, <1>2 DEF RenameWay, Safe
<1>4. /\ About(r, from) /\ \A a \in Ancestors(from) : About(r, a)
      /\ About(r, to) /\ \A a \in Ancestors(to) : About(r, a)
      /\ \A q : Within(q, from) \/ Within(q, to) => About(r, q)
  BY <1>3, AboutPath
<1>5. ASSUME UNCHANGED fs
      PROVE  Agree(r, Part(h)', s) /\ Agree(req[h], Part(h), before[h])'
  BY <1>3, <1>5, PartStays DEF Agree, About
<1>6. ASSUME NEW code, UNCHANGED fs, Result(h) = Contract!Is(code, s), status'[h] = code
      PROVE  IsAlone(h)'
  BY <1>5, <1>6, AnsweredAs
<1> DEFINE moved == Contract!Added(Contract!Out(Contract!Out(s, from), to), Contract!Moved(s, from, to))
<1>7. Result(h) = IF ~Within(to, Root) THEN Contract!Is(404, s)
                 ELSE IF Within(from, to) \/ Within(to, from) THEN Contract!Is(400, s)
                 ELSE IF from \notin DOMAIN s THEN Contract!Is(Contract!NotFound(s, from), s)
                 ELSE IF Contract!Homeless(s, to) \/ Contract!InFile(s, to)
                   THEN Contract!Is(Contract!NotFound(s, to), s)
                 ELSE IF Contract!Dir(s, to) /\ Contract!File(s, from) THEN Contract!Is(404, s)
                 ELSE IF Contract!File(s, to) /\ Contract!Dir(s, from) THEN Contract!Is(500, s)
                 ELSE IF \E p \in DOMAIN s : Below(p, to) THEN Contract!Is(500, s)
                 ELSE Contract!Is(200, moved)
  BY RenameIs
<1> HIDE DEF from, to, moved
<1>8. CASE c.act = "renameTo"
  <2> DEFINE d == [c EXCEPT !.act = IF @ = "copyTo" THEN "lstat" ELSE "rename"]
  <2>1. /\ GetPath(to) <=> Within(to, Root)
        /\ Within(to, Root) => (PathIntersect(from, to) # "noMatch" <=> Within(from, to) \/ Within(to, from))
    BY <1>3, TargetIs DEF from
  <2>2. Target(h, c)
    BY <1>1, <1>8, WhichAction DEF Writing
  <2>3. CASE ~GetPath(c.to) /\ Answer(h, 404)
    BY <1>2, <1>3, <1>6, <1>7, <2>1, <2>3, AnswerIs DEF Serving
  <2>4. CASE GetPath(c.to) /\ PathIntersect(c.from, c.to) # "noMatch" /\ Answer(h, 400)
    BY <1>2, <1>3, <1>6, <1>7, <2>1, <2>4, AnswerIs DEF Serving
  <2>5. CASE GetPath(c.to) /\ PathIntersect(c.from, c.to) = "noMatch" /\ Continue(h, <<d>>)
    <3>1. d.act = "rename" /\ d.from = from /\ d.to = to
      BY <1>2, <1>3, <1>8 DEF Safe
    <3> HIDE DEF d
    <3>2. UNCHANGED fs /\ work'[h] = <<d>> /\ status'[h] = Serving
      BY <1>2, <1>3, <2>5, OnlyCall DEF Continue
    <3>3. work'[h][1] = d /\ Len(work'[h]) = 1
      BY <3>2
    <3>4. Agree(req[h], Part(h), before[h])'
      BY <1>5, <3>2
    <3> QED
      BY <1>3, <2>1, <2>5, <3>1, <3>2, <3>3, <3>4 DEF RenameWay, from, to
  <2> QED
    BY <2>2, <2>3, <2>4, <2>5, Zenon DEF Target
<1>9. CASE c.act = "rename"
  <2>1. Within(to, Root) /\ ~Within(from, to) /\ ~Within(to, from)
    BY <1>1, <1>3, <1>9 DEF RenameWay, to
  <2>2. Rename(h, c)
    BY <1>1, <1>9, WhichAction DEF Writing
  <2>3. /\ from \in DOMAIN tree <=> from \in DOMAIN s
        /\ from \in DOMAIN tree => s[from].dir = tree[from].dir
        /\ LookupError(tree, from) # "ok" => StatusOf(LookupError(tree, from)) = Contract!NotFound(s, from)
        /\ from \in DOMAIN tree <=> LookupError(tree, from) = "ok"
    BY <1>3, <1>4, LookupIs, ParentIs
  <2>4. /\ to \in DOMAIN tree <=> to \in DOMAIN s
        /\ to \in DOMAIN tree => s[to].dir = tree[to].dir
        /\ ParentError(tree, to) = IF Contract!InFile(s, to) THEN "ENOTDIR"
                                   ELSE IF Contract!Homeless(s, to) THEN "ENOENT" ELSE "ok"
    BY <1>3, <1>4, ParentIs
  <2>5. (\E p \in DOMAIN s : Below(p, to)) <=> Children(tree, to) # {}
    <3>1. \A p : Below(p, to) => (p \in DOMAIN s <=> p \in DOMAIN tree)
      BY <1>3, <1>4, PartIs DEF Within, Agree
    <3>2. \A p \in DOMAIN tree : Below(p, to) => Children(tree, to) # {}
      BY <1>2, <1>3, TowardsChild DEF Stored, TreeInv, Children
    <3>3. \A p \in Children(tree, to) : p \in DOMAIN tree /\ Below(p, to)
      BY DEF Children, IsChild
    <3> QED
      BY <3>1, <3>2, <3>3
  <2> DEFINE err == RenameError(tree, from, to)
  <2>6. /\ err # "ok" => Result(h) = Contract!Is(StatusOf(err), s) /\ StatusOf(err) # Serving
        /\ err = "ok" => Result(h) = Contract!Is(200, moved)
    <3>1. err = IF LookupError(tree, from) # "ok" THEN LookupError(tree, from)
                ELSE IF ParentError(tree, to) # "ok" THEN ParentError(tree, to)
                ELSE IF to \in DOMAIN s /\ s[to].dir /\ ~s[from].dir THEN "EISDIR"
                ELSE IF to \in DOMAIN s /\ ~s[to].dir /\ s[from].dir THEN "ENOTDIR"
                ELSE IF Children(tree, to) # {} THEN "ENOTEMPTY" ELSE "ok"
      BY <2>1, <2>3, <2>4 DEF RenameError, Within
    <3> HIDE DEF err
    <3>2. StatusOf(err) # Serving
      BY DEF StatusOf, Serving
    <3>3. CASE LookupError(tree, from) # "ok"
      BY <1>7, <2>1, <2>3, <3>1, <3>2, <3>3
    <3>4. CASE LookupError(tree, from) = "ok" /\ ParentError(tree, to) # "ok"
      BY <1>7, <2>1, <2>3, <2>4, <3>1, <3>2, <3>4 DEF Contract!NotFound, StatusOf
    <3>5. CASE LookupError(tree, from) = "ok" /\ ParentError(tree, to) = "ok"
      BY <1>7, <2>1, <2>3, <2>4, <2>5, <3>1, <3>2, <3>5 DEF Contract!Dir, Contract!File, StatusOf
    <3> QED
      BY <3>3, <3>4, <3>5
  <2>7. CASE Fails(h, RenameError(tree, c.from, c.to))
    BY <1>2, <1>3, <1>6, <2>6, <2>7, AnswerIs
  <2>8. CASE /\ err = "ok" /\ tree' = Renamed(tree, from, to) /\ Then(h, <<>>) /\ UNCHANGED data
    <3>1. status'[h] = 200
      BY <1>2, <1>3, <2>8, OnlyCall
    <3>2. from # <<>> /\ to # <<>>
      BY <1>3, <2>1, WithinBeginsLikeIt, RootIsPath DEF from
    <3>3. /\ DOMAIN tree' \subseteq Path
          /\ \A q \in DOMAIN tree' :
               IF Within(q, to)
                 THEN LET b == Rebased(q, to, from)
                      IN tree'[q] = tree[b] /\ b \in DOMAIN tree /\ Within(b, from) /\ q = Rebased(b, from, to)
                 ELSE tree'[q] = tree[q] /\ q \in DOMAIN tree /\ ~Within(q, from)
          /\ \A b \in DOMAIN tree : Within(b, from) => Rebased(b, from, to) \in DOMAIN tree'
          /\ \A b \in DOMAIN tree : ~Within(b, from) /\ ~Within(b, to) => b \in DOMAIN tree'
      BY <1>2, <1>3, <2>8, <3>2, RenamedFrom DEF TreeInv, Origin
    <3>4. \A q : /\ q \in DOMAIN moved <=> \/ q \in DOMAIN s /\ ~Within(q, from) /\ ~Within(q, to)
                                           \/ Lands(s, from, to, q)
                 /\ Lands(s, from, to, q) => moved[q] = s[Rebased(q, to, from)]
                 /\ q \in DOMAIN moved /\ ~Lands(s, from, to, q) => moved[q] = s[q]
      BY MovedIs DEF moved
    <3>5. \A q : About(r, q) => /\ q \in DOMAIN s <=> q \in DOMAIN tree
                                /\ q \in DOMAIN tree => s[q] = Part(h)[q]
      BY <1>3, PartIs DEF Agree
    <3>6. \A q : Lands(s, from, to, q) <=> q \in DOMAIN tree' /\ Within(q, to)
      <4>1. ASSUME NEW b \in DOMAIN s, Within(b, from)
            PROVE  Rebased(b, from, to) \in DOMAIN tree' /\ Within(Rebased(b, from, to), to)
        <5>1. b \in DOMAIN tree /\ b \in Path
          BY <1>2, <1>4, <3>5, <4>1 DEF TreeInv
        <5> QED
          BY <1>3, <3>2, <3>3, <4>1, <5>1, RebasedIsWithin
      <4>2. ASSUME NEW q \in DOMAIN tree', Within(q, to) PROVE Lands(s, from, to, q)
        <5>1. LET b == Rebased(q, to, from)
              IN b \in DOMAIN tree /\ Within(b, from) /\ q = Rebased(b, from, to)
          BY <3>3, <4>2
        <5> QED
          BY <1>4, <3>5, <5>1 DEF Lands
      <4> QED
        BY <4>1, <4>2 DEF Lands
    <3>7. ASSUME NEW q, About(r, q), q \in DOMAIN tree'
          PROVE  LET b == IF Within(q, to) THEN Rebased(q, to, from) ELSE q
                 IN /\ b \in DOMAIN s /\ Part(h)'[q] = s[b]
                    /\ ~Within(q, to) => ~Within(q, from)
      <4> DEFINE b == IF Within(q, to) THEN Rebased(q, to, from) ELSE q
      <4>1. b \in DOMAIN tree /\ tree'[q] = tree[b] /\ About(r, b) /\ (~Within(q, to) => ~Within(q, from))
        BY <1>4, <3>3, <3>7
      <4> HIDE DEF b
      <4>2. b \in DOMAIN Part(h) /\ q \in DOMAIN Part(h)'
        BY <3>7, <4>1, PartIs, PartBecomes
      <4>3. Part(h)'[q] = Part(h)[b]
        <5>1. Part(h)[b] = [dir |-> tree[b].dir, mode |-> tree[b].mode,
                               owner |-> tree[b].owner, group |-> tree[b].group,
                               data |-> IF tree[b].dir THEN <<>> ELSE data[tree[b].id]]
          BY <4>2, PartIs
        <5>2. Part(h)'[q] = [dir |-> tree'[q].dir, mode |-> tree'[q].mode,
                                owner |-> tree'[q].owner, group |-> tree'[q].group,
                                data |-> IF tree'[q].dir THEN <<>> ELSE data'[tree'[q].id]]
          BY <4>2, PartBecomes
        <5> QED
          BY <2>8, <4>1, <5>1, <5>2
      <4> QED
        BY <3>5, <4>1, <4>3 DEF b
    <3>8. ASSUME NEW q, About(r, q)
          PROVE  /\ q \in DOMAIN Part(h)' <=> q \in DOMAIN moved
                 /\ q \in DOMAIN Part(h)' => Part(h)'[q] = moved[q]
      <4>1. q \in DOMAIN Part(h)' <=> q \in DOMAIN tree'
        BY <3>8, PartBecomes
      <4>2. q \in DOMAIN moved => q \in DOMAIN tree'
        BY <3>3, <3>4, <3>5, <3>6, <3>8
      <4>3. q \in DOMAIN tree' => q \in DOMAIN moved /\ Part(h)'[q] = moved[q]
        BY <3>4, <3>6, <3>7, <3>8
      <4> QED
        BY <4>1, <4>2, <4>3
    <3>9. Agree(r, Part(h)', moved)
      BY <3>8 DEF Agree
    <3>10. Result(h) = Contract!Is(status'[h], moved)
      BY <2>6, <2>8, <3>1
    <3> QED
      BY <3>1, <3>9, <3>10, AnsweredAs DEF Serving
  <2> QED
    BY <1>3, <2>2, <2>7, <2>8 DEF Rename
<1> QED
  BY <1>1, <1>8, <1>9 DEF RenameWay

(* The calls that are left when the first one is done and cs come next.    *)
LEMMA ThenIs ==
  ASSUME WorkInv, NEW h \in Handlers, status[h] = Serving, NEW S, NEW cs \in Seq(S), Then(h, cs)
  PROVE  LET n == Len(work[h])
             m == Len(cs)
             w == work'[h]
         IN /\ n \in Nat \ {0} /\ m \in Nat /\ DOMAIN work[h] = 1..n /\ DOMAIN cs = 1..m
            /\ Len(w) = m + n - 1 /\ DOMAIN w = 1..(m + n - 1)
            /\ \A i \in 1..m : w[i] = cs[i]
            /\ \A i \in 2..n : w[i - 1 + m] = work[h][i]
            /\ status'[h] = IF m + n - 1 = 0 THEN 200 ELSE Serving
            /\ Tail(work[h]) = <<>> <=> n = 1
<1> DEFINE T == {work[h][i] : i \in DOMAIN work[h]}
           t == Tail(work[h])
<1>1. work[h] \in Seq(T) /\ work[h] # <<>>
  BY DEF WorkInv, SafeWork
<1> HIDE DEF T
<1>2. t \in Seq(T) /\ Len(t) = Len(work[h]) - 1 /\ \A i \in 1..Len(t) : t[i] = work[h][i + 1]
  BY <1>1
<1>3. work'[h] = cs \o t /\ status'[h] = IF cs \o t = <<>> THEN 200 ELSE Serving
  BY DEF Then, WorkInv
<1> HIDE DEF t
<1>4. t \in Seq(T \cup S) /\ cs \in Seq(T \cup S)
  BY <1>2
<1>5. /\ cs \o t \in Seq(T \cup S) /\ Len(cs \o t) = Len(cs) + Len(t)
      /\ \A i \in 1..Len(cs) : (cs \o t)[i] = cs[i]
      /\ \A i \in 1..Len(t) : (cs \o t)[i + Len(cs)] = t[i]
  BY <1>4
<1>6. Len(work[h]) \in Nat \ {0} /\ Len(cs) \in Nat
  BY <1>1
<1>7. \A x \in Seq(T \cup S) : x = <<>> <=> Len(x) = 0
  OBVIOUS
<1>8. \A i \in 2..Len(work[h]) : work'[h][i - 1 + Len(cs)] = work[h][i]
  <2> TAKE i \in 2..Len(work[h])
  <2>1. i - 1 \in 1..Len(t) /\ i - 1 + 1 = i
    BY <1>2, <1>6
  <2> QED
    BY <1>2, <1>3, <1>5, <2>1
<1>9. t = <<>> <=> Len(work[h]) = 1
  <2>1. Len(t) = 0 <=> Len(work[h]) = 1
    BY <1>2, <1>6
  <2> HIDE DEF t
  <2> QED
    BY <1>4, <1>7, <2>1
<1>10. Len(work'[h]) = Len(cs) + Len(work[h]) - 1 /\ DOMAIN work'[h] = 1..(Len(cs) + Len(work[h]) - 1)
  <2>1. PICK u, w : u = cs \o t /\ w = work'[h]
    OBVIOUS
  <2>2. w = u /\ u \in Seq(T \cup S) /\ Len(u) = Len(cs) + Len(t)
    BY <1>3, <1>5, <2>1
  <2>3. Len(cs) + Len(t) = Len(cs) + Len(work[h]) - 1
    BY <1>2, <1>6
  <2>4. DOMAIN u = 1..Len(u)
    BY <2>2
  <2> QED
    BY <2>1, <2>2, <2>3, <2>4
<1>11. status'[h] = IF Len(cs) + Len(work[h]) - 1 = 0 THEN 200 ELSE Serving
  BY <1>2, <1>3, <1>5, <1>7
<1>12. DOMAIN work[h] = 1..Len(work[h]) /\ DOMAIN cs = 1..Len(cs) /\ \A i \in 1..Len(cs) : work'[h][i] = cs[i]
  BY <1>1, <1>3, <1>5
<1> QED
  BY <1>6, <1>8, <1>9, <1>10, <1>11, <1>12 DEF t

(* A request that is served has a call to make.                            *)
LEMMA HasWork ==
  ASSUME WorkInv, NEW h \in Handlers, status[h] = Serving
  PROVE  1 \in DOMAIN work[h]
<1>1. work[h] # <<>> /\ work[h] \in Seq({work[h][i] : i \in DOMAIN work[h]})
  BY DEF WorkInv, SafeWork
<1> QED
  BY <1>1

(* The ancestors of a path are above all that is within it.                *)
LEMMA AncestorsBelow ==
  ASSUME NEW q \in Path, NEW p \in Path, Within(q, p), NEW a \in Ancestors(p)
  PROVE  a \in Ancestors(q)
<1>1. a \in Path /\ Below(p, a) /\ Len(a) < Len(p)
  BY AncestorsOfPath, BelowIsLonger DEF Below
<1>2. OnTheWay(a, p)
  BY <1>1, BelowIsOnTheWay
<1>3. CASE Below(q, p)
  <2>1. OnTheWay(p, q)
    BY <1>3, BelowIsOnTheWay
  <2>2. OnTheWay(a, q)
    BY <1>1, <1>2, <2>1 DEF OnTheWay, Path
  <2> QED
    BY <1>1, <2>2, BelowIsOnTheWay DEF Below
<1> QED
  BY <1>3 DEF Within

---------------------------------------------------------------------------
(* delete.                                                                 *)

(* What a call is going to remove.                                         *)
Covers(c, q) == (c.act = "remove" /\ Within(q, c.to)) \/ (c.act = "rmdir" /\ q = c.to)

Removing(c, p) == c.act \in {"remove", "rmdir"} /\ c.to \in Path /\ Within(c.to, p)

(* All that is not removed yet is going to be, what a directory contains   *)
(* before the directory.                                                   *)
DelWay(h) ==
  LET p == req[h].path
      s == before[h]
  IN /\ \A i \in DOMAIN work[h] : Removing(work[h][i], p)
     /\ \A q \in DOMAIN Part(h) : q \in DOMAIN s /\ Part(h)[q] = s[q]
     /\ \A q \in DOMAIN s : About(req[h], q) /\ ~Within(q, p) => q \in DOMAIN Part(h)
     /\ \A q \in DOMAIN Part(h) : Within(q, p) => \E i \in DOMAIN work[h] : Covers(work[h][i], q)
     /\ \A i \in DOMAIN work[h] : \A q \in DOMAIN Part(h) :
          work[h][i].act = "rmdir" /\ Below(q, work[h][i].to) =>
            \E j \in 1..i - 1 : Covers(work[h][j], q)

(* v is still there, and calls cs remove what the first call was to.       *)
Covered(h, cs, v) ==
  /\ \A i \in DOMAIN cs : Removing(cs[i], req[h].path)
  /\ DOMAIN v \subseteq DOMAIN Part(h) /\ \A q \in DOMAIN v : v[q] = Part(h)[q]
  /\ \A q \in DOMAIN Part(h) : ~Within(q, req[h].path) => q \in DOMAIN v
  /\ \A q \in DOMAIN v : Covers(work[h][1], q) => \E i \in DOMAIN cs : Covers(cs[i], q)
  /\ \A i \in DOMAIN cs : \A q \in DOMAIN v :
       cs[i].act = "rmdir" /\ Below(q, cs[i].to) => \E j \in 1..i - 1 : Covers(cs[j], q)

(* The request goes on, or v is what a delete leaves.                      *)
RemovesOn(h, v) ==
  IF status'[h] = Serving THEN DelWay(h)'
  ELSE /\ status'[h] = 200
       /\ \A q \in DOMAIN v : ~Within(q, req[h].path) /\ q \in DOMAIN before[h] /\ v[q] = before[h][q]
       /\ \A q \in DOMAIN before[h] : About(req[h], q) /\ ~Within(q, req[h].path) => q \in DOMAIN v

(* A removal that replaces its first call by others, which cover what is   *)
(* still there, goes on.                                                   *)
LEMMA RemovingGoesOn ==
  ASSUME WorkInv, NEW h \in Handlers, status[h] = Serving, DelWay(h), req' = req,
         before'[h] = before[h],
         NEW S, NEW cs \in Seq(S), Then(h, cs),
         NEW v, v = Part(h)', Covered(h, cs, v)
  PROVE  RemovesOn(h, v)
<1> USE DEF Covered, RemovesOn
<1> DEFINE p == req[h].path
           w == work[h]
           u == work'[h]
           n == Len(w)
           m == Len(cs)
<1>1. /\ n \in Nat \ {0} /\ m \in Nat /\ DOMAIN w = 1..n /\ DOMAIN cs = 1..m
      /\ DOMAIN u = 1..(m + n - 1)
      /\ \A i \in 1..m : u[i] = cs[i]
      /\ \A i \in 2..n : u[i - 1 + m] = w[i]
      /\ status'[h] = IF m + n - 1 = 0 THEN 200 ELSE Serving
  BY ThenIs
<1>2. /\ \A i \in DOMAIN w : Removing(w[i], p)
      /\ \A q \in DOMAIN v : q \in DOMAIN before[h] /\ v[q] = before[h][q]
      /\ \A q \in DOMAIN before[h] : About(req[h], q) /\ ~Within(q, p) => q \in DOMAIN v
      /\ \A q \in DOMAIN v : Within(q, p) => \E i \in DOMAIN w : Covers(w[i], q)
      /\ \A i \in DOMAIN w : \A q \in DOMAIN v :
          w[i].act = "rmdir" /\ Below(q, w[i].to) => \E j \in 1..i - 1 : Covers(w[j], q)
  BY DEF DelWay
<1> HIDE DEF w, u, n, m, p
<1>3. \A i \in DOMAIN u : i \in 1..m \/ (i - m + 1 \in 2..n /\ u[i] = w[i - m + 1])
  <2> TAKE i \in DOMAIN u
  <2>1. i \in 1..m \/ i - m + 1 \in 2..n
    BY <1>1
  <2>2. (i - m + 1) - 1 + m = i
    BY <1>1
  <2> QED
    BY <1>1, <2>1, <2>2
<1>4. \A i \in DOMAIN u : Removing(u[i], p)
  BY <1>1, <1>2, <1>3 DEF p
<1>5. \A k \in 1..n, q \in DOMAIN v : Covers(w[k], q) => \E j \in 1..(k - 1 + m) : j \in DOMAIN u /\ Covers(u[j], q)
  <2> TAKE k \in 1..n, q \in DOMAIN v
  <2> HAVE Covers(w[k], q)
  <2>1. CASE k = 1
    <3>1. PICK j \in 1..m : Covers(cs[j], q)
      BY <1>1, <2>1 DEF w
    <3> QED
      BY <1>1, <2>1, <3>1
  <2>2. CASE k # 1
    <3>1. k \in 2..n /\ k - 1 + m \in 1..(k - 1 + m) /\ k - 1 + m \in DOMAIN u
      BY <1>1, <2>2
    <3> QED
      BY <1>1, <3>1
  <2> QED
    BY <2>1, <2>2
<1>6. \A q \in DOMAIN v : Within(q, p) => \E i \in DOMAIN u : Covers(u[i], q)
  BY <1>1, <1>2, <1>5
<1>7. \A i \in DOMAIN u : \A q \in DOMAIN v :
          u[i].act = "rmdir" /\ Below(q, u[i].to) => \E j \in 1..i - 1 : Covers(u[j], q)
  <2> TAKE i \in DOMAIN u
  <2> TAKE q \in DOMAIN v
  <2> HAVE u[i].act = "rmdir" /\ Below(q, u[i].to)
  <2>1. CASE i \in 1..m
    <3>1. PICK j \in 1..i - 1 : Covers(cs[j], q)
      BY <1>1, <2>1
    <3>2. j \in 1..m
      BY <1>1, <2>1
    <3> QED
      BY <1>1, <3>1, <3>2
  <2>2. CASE i \notin 1..m
    <3>1. i - m + 1 \in 2..n /\ u[i] = w[i - m + 1] /\ i \in Int
      BY <1>1, <1>3, <2>2
    <3>2. PICK k \in 1..(i - m + 1) - 1 : Covers(w[k], q)
      BY <1>1, <1>2, <3>1
    <3>3. k \in 1..n /\ k - 1 + m <= i - 1 /\ k \in Int
      BY <1>1, <3>1, <3>2
    <3>4. PICK j \in 1..(k - 1 + m) : Covers(u[j], q)
      BY <1>5, <3>2, <3>3
    <3>5. j \in 1..i - 1
      BY <1>1, <3>1, <3>3, <3>4
    <3> QED
      BY <3>4, <3>5
  <2> QED
    BY <2>1, <2>2
<1>8. CASE m + n - 1 = 0
  <2>1. DOMAIN u = {}
    BY <1>1, <1>8
  <2> QED
    BY <1>1, <1>2, <1>6, <1>8, <2>1 DEF Serving, p
<1>9. CASE m + n - 1 # 0
  <2>1. DelWay(h)'
    <3> DEFINE Way(V, W, R, B) ==
          /\ \A i \in DOMAIN W : Removing(W[i], R.path)
          /\ \A q \in DOMAIN V : q \in DOMAIN B /\ V[q] = B[q]
          /\ \A q \in DOMAIN B : About(R, q) /\ ~Within(q, R.path) => q \in DOMAIN V
          /\ \A q \in DOMAIN V : Within(q, R.path) => \E i \in DOMAIN W : Covers(W[i], q)
          /\ \A i \in DOMAIN W : \A q \in DOMAIN V :
               W[i].act = "rmdir" /\ Below(q, W[i].to) => \E j \in 1..i - 1 : Covers(W[j], q)
    <3>1. Way(v, u, req[h], before[h])
      BY <1>2, <1>4, <1>6, <1>7 DEF p
    <3>2. Way(Part(h)', work'[h], req'[h], before'[h])
      BY <3>1 DEF u
    <3> QED
      BY <3>2 DEF DelWay
  <2> QED
    BY <1>1, <1>9, <2>1
<1> QED
  BY <1>8, <1>9

(* A removal goes on when an entry is gone, or was not there any more.     *)
LEMMA RemoveGoes ==
  ASSUME Inv, Stored, NEW h \in Handlers, status[h] = Serving, req[h] \in Requests,
         DelWay(h), req' = req, before'[h] = before[h], NEW c, c = work[h][1],
         \/ ~Exists(c.to) /\ Continue(h, <<>>)
         \/ Removes(h, c.to)
  PROVE  IF status'[h] = Serving THEN DelWay(h)'
         ELSE /\ status'[h] = 200
              /\ \A q \in DOMAIN Part(h)' : /\ ~Within(q, req[h].path) /\ q \in DOMAIN before[h]
                                            /\ Part(h)'[q] = before[h][q]
              /\ \A q \in DOMAIN before[h] : About(req[h], q) /\ ~Within(q, req[h].path) => q \in DOMAIN Part(h)'
<1> DEFINE p == req[h].path
<1>1. WorkInv /\ TreeInv
  BY DEF Inv
<1>2. PICK cs : cs = <<>>
  OBVIOUS
<1>3. cs \in Seq({}) /\ DOMAIN cs = {}
  BY <1>2
<1>4. Then(h, cs)
  BY <1>2 DEF Continue, Removes
<1>5. c.act \in {"remove", "rmdir"} /\ c.to \in Path /\ Within(c.to, p)
  BY <1>1, HasWork DEF DelWay, Removing
<1>6. PICK v : v = Part(h)'
  OBVIOUS
<1>7. \A q \in DOMAIN Part(h) : q \in DOMAIN tree /\ About(req[h], q)
  BY PartIs
<1>8. /\ DOMAIN v \subseteq DOMAIN Part(h) /\ \A q \in DOMAIN v : v[q] = Part(h)[q]
      /\ \A q \in DOMAIN Part(h) : ~Within(q, p) => q \in DOMAIN v
      /\ \A q \in DOMAIN v : ~Covers(c, q)
  <2>1. CASE ~Exists(c.to) /\ Continue(h, <<>>)
    <3>1. v = Part(h)
      BY <1>6, <2>1, PartStays DEF Continue
    <3>2. c.to \notin DOMAIN tree
      BY <2>1 DEF Exists, LookupError, ParentError, Stored, Closed
    <3>3. \A q \in DOMAIN tree : ~Within(q, c.to)
      BY <3>2 DEF Stored, Closed, Within, Below
    <3> QED
      BY <1>7, <3>1, <3>2, <3>3 DEF Covers
  <2>2. CASE Removes(h, c.to)
    <3>1. Drops(h, c.to)
      BY <1>1, <1>5, <2>2, RemoveDrops DEF Removes
    <3>2. \A q \in DOMAIN v : About(req[h], q)
      BY <1>6, PartBecomes
    <3>3. /\ \A q : About(req[h], q) => (q \in DOMAIN v <=> q \in DOMAIN Part(h) /\ q # c.to)
          /\ \A q \in DOMAIN v : v[q] = Part(h)[q]
      BY <1>6, <3>1 DEF Drops
    <3>4. \A q \in DOMAIN tree : Within(q, c.to) => q = c.to
      BY <1>1, <1>5, <2>2, TowardsChild DEF Removes, Stored, TreeInv, Within, Children
    <3> QED
      BY <1>5, <1>7, <3>2, <3>3, <3>4 DEF Covers
  <2> QED
    BY <2>1, <2>2
<1> HIDE DEF p
<1>9. Covered(h, cs, v)
  BY <1>3, <1>8 DEF p, Covered
<1>10. RemovesOn(h, v)
  BY <1>1, <1>3, <1>4, <1>6, <1>9, RemovingGoesOn
<1> QED
  BY <1>6, <1>10 DEF RemovesOn

(* A removal goes on when it has listed a directory: the children first,   *)
(* the directory after them.                                               *)
LEMMA ExpandGoes ==
  ASSUME Inv, Stored, NEW h \in Handlers, status[h] = Serving, req[h] \in Requests,
         DelWay(h), req' = req, before'[h] = before[h], NEW c, c = work[h][1], c.act = "remove",
         NEW s \in SetToSeqs(Children(tree, c.to)),
         Continue(h, [i \in DOMAIN s |-> Call("remove", s[i], s[i])] \o <<[c EXCEPT !.act = "rmdir"]>>)
  PROVE  status'[h] = Serving /\ DelWay(h)'
<1> DEFINE p == req[h].path
           K == Children(tree, c.to)
           calls == [i \in DOMAIN s |-> Call("remove", s[i], s[i])]
           d == [c EXCEPT !.act = "rmdir"]
           R == {Call("remove", k, k) : k \in K}
           S == R \cup {d}
<1>1. WorkInv /\ TreeInv /\ Safe(c)
  BY FirstCall DEF Inv
<1>2. IsFiniteSet(K) /\ K \subseteq Path
  BY <1>1, FS_Subset DEF TreeInv, Children
<1>3. s \in Seq(K) /\ \A k \in K : \E i \in DOMAIN s : s[i] = k
  BY <1>2, OrderHasEach, OrderOfSet
<1>4. calls \in Seq(R) /\ Len(calls) = Len(s) /\ Len(s) \in Nat /\ \A i \in 1..Len(s) : calls[i] = Call("remove", s[i], s[i])
  BY <1>3
<1>5. d.act = "rmdir" /\ d.to = c.to
  BY <1>1 DEF Safe
<1>6. PICK cs : cs = calls \o <<d>>
  OBVIOUS
<1>7. /\ cs \in Seq(S) /\ Len(cs) = Len(s) + 1 /\ DOMAIN cs = 1..Len(s) + 1 /\ cs[Len(s) + 1] = d
      /\ \A i \in 1..Len(s) : cs[i] = Call("remove", s[i], s[i])
  <2> HIDE DEF calls, d, R
  <2>1. calls \in Seq(S) /\ <<d>> \in Seq(S) /\ Len(<<d>>) = 1 /\ <<d>>[1] = d
    BY <1>4
  <2> HIDE DEF S
  <2> QED
    BY <1>4, <1>6, <2>1
<1>8. Then(h, cs) /\ UNCHANGED fs
  BY <1>6 DEF Continue
<1> HIDE DEF calls, d, R, S, K, p
<1>9. status'[h] = Serving
  BY <1>1, <1>4, <1>7, <1>8, ThenIs DEF Serving
<1>10. Within(c.to, req[h].path) /\ c.to \in Path
  BY <1>1, HasWork DEF DelWay, Removing
<1>11. PICK v : v = Part(h)'
  OBVIOUS
<1>12. v = Part(h) /\ \A q \in DOMAIN v : q \in DOMAIN tree /\ q \in Path
  BY <1>1, <1>8, <1>11, PartStays, PartIs DEF TreeInv
<1>13. \A k \in K : Below(k, c.to) /\ k \in Path
  BY <1>2 DEF K, Children, IsChild
<1>14. \A i \in 1..Len(s) : s[i] \in K /\ cs[i].act = "remove" /\ cs[i].to = s[i]
  <2> TAKE i \in 1..Len(s)
  <2>1. s[i] \in K /\ cs[i] = Call("remove", s[i], s[i])
    BY <1>3, <1>7
  <2> QED
    BY <2>1 DEF Call
<1>15. \A i \in DOMAIN cs : Removing(cs[i], req[h].path)
  <2> TAKE i \in DOMAIN cs
  <2>1. CASE i \in 1..Len(s)
    <3>1. Within(s[i], req[h].path)
      BY <1>10, <1>13, <1>14, <2>1, WithinTransitive, HtFileAssumption DEF Within
    <3> QED
      BY <1>13, <1>14, <2>1, <3>1 DEF Removing
  <2>2. CASE i \notin 1..Len(s)
    BY <1>4, <1>5, <1>7, <1>10, <2>2 DEF Removing
  <2> QED
    BY <2>1, <2>2
<1>16. \A q \in DOMAIN v : Below(q, c.to) => \E i \in 1..Len(s) : Covers(cs[i], q)
  <2> TAKE q \in DOMAIN v
  <2> HAVE Below(q, c.to)
  <2>1. \E k \in K : Within(q, k)
    BY <1>10, <1>12, TowardsChild DEF K, Stored, Within, Children
  <2>2. PICK i \in DOMAIN s : Within(q, s[i])
    BY <1>3, <2>1
  <2>3. i \in 1..Len(s)
    BY <1>3
  <2> QED
    BY <1>14, <2>2, <2>3 DEF Covers
<1>17. \A q \in DOMAIN v : Covers(work[h][1], q) => \E i \in DOMAIN cs : Covers(cs[i], q)
  <2> TAKE q \in DOMAIN v
  <2> HAVE Covers(work[h][1], q)
  <2>1. Within(q, c.to)
    BY DEF Covers
  <2>2. CASE Below(q, c.to)
    BY <1>4, <1>7, <1>16, <2>2
  <2>3. CASE q = c.to
    <3>1. Covers(d, q)
      BY <1>5, <2>3 DEF Covers
    <3> QED
      BY <1>4, <1>7, <3>1
  <2> QED
    BY <2>1, <2>2, <2>3 DEF Within
<1>18. \A i \in DOMAIN cs : \A q \in DOMAIN v :
           cs[i].act = "rmdir" /\ Below(q, cs[i].to) => \E j \in 1..i - 1 : Covers(cs[j], q)
  <2> TAKE i \in DOMAIN cs
  <2> TAKE q \in DOMAIN v
  <2> HAVE cs[i].act = "rmdir" /\ Below(q, cs[i].to)
  <2>1. i = Len(s) + 1 /\ cs[i] = d
    BY <1>4, <1>7, <1>14
  <2>2. 1..i - 1 = 1..Len(s)
    BY <1>4, <2>1
  <2> QED
    BY <1>5, <1>16, <2>1, <2>2
<1>19. /\ DOMAIN v \subseteq DOMAIN Part(h) /\ \A q \in DOMAIN v : v[q] = Part(h)[q]
       /\ \A q \in DOMAIN Part(h) : ~Within(q, req[h].path) => q \in DOMAIN v
  BY <1>12
<1>20. cs \in Seq(S) /\ Then(h, cs)
  BY <1>7, <1>8
<1>21. Covered(h, cs, v)
  BY <1>15, <1>17, <1>18, <1>19 DEF Covered
<1>22. RemovesOn(h, v)
  BY <1>1, <1>11, <1>20, <1>21, RemovingGoesOn
<1> QED
  BY <1>9, <1>22 DEF RemovesOn

(* A delete goes one step further, or is answered as the contract says.    *)
LEMMA DeleteAlone ==
  ASSUME Inv, Stored, NEW h \in Handlers, status[h] = Serving, req[h] \in Requests,
         Closed(before[h]), DOMAIN before[h] \subseteq Path,
         Result(h) = Contract!Delete(before[h], req[h].path),
         Step(h), DelWay(h), req' = req, before'[h] = before[h]
  PROVE  IF status'[h] = Serving THEN DelWay(h)' ELSE IsAlone(h)'
<1> DEFINE r == req[h]
           s == before[h]
           p == r.path
<1>1. PICK c : c = work[h][1]
  OBVIOUS
<1>2. Safe(c) /\ WorkInv /\ TreeInv /\ 1 \in DOMAIN work[h]
  <2>1. work[h] # <<>> /\ work[h] \in Seq({work[h][i] : i \in DOMAIN work[h]})
    BY DEF Inv, WorkInv, SafeWork
  <2>2. 1 \in DOMAIN work[h]
    BY <2>1
  <2> QED
    BY <1>1, <2>2, FirstCall DEF Inv
<1>3. Removing(c, p) /\ \A q \in DOMAIN Part(h) :
          c.act = "rmdir" /\ Below(q, c.to) => \E j \in 1..1 - 1 : Covers(work[h][j], q)
  BY <1>1, <1>2 DEF DelWay
<1>4. ASSUME /\ status'[h] = 200
             /\ \A q \in DOMAIN Part(h)' : /\ ~Within(q, p) /\ q \in DOMAIN s
                                           /\ Part(h)'[q] = s[q]
             /\ \A q \in DOMAIN s : About(req[h], q) /\ ~Within(q, p) => q \in DOMAIN Part(h)'
      PROVE  IsAlone(h)'
  <2>1. PICK u : u = IF Contract!InFile(s, p) THEN s ELSE Contract!Out(s, p)
    OBVIOUS
  <2>2. Result(h) = Contract!Is(status'[h], u)
    BY <1>4, <2>1 DEF Contract!Delete
  <2>3. \A q : q \in DOMAIN u <=> q \in DOMAIN s /\ ~Within(q, p)
    <3>1. CASE Contract!InFile(s, p)
      <4>1. PICK a \in Ancestors(p) : a \in DOMAIN s /\ ~s[a].dir
        BY <3>1, SamePaths DEF Contract!InFile, Contract!File
      <4>2. ASSUME NEW q \in DOMAIN s, Within(q, p), q \in Path PROVE FALSE
        <5>1. a \in Ancestors(q)
          BY <1>2, <4>1, <4>2, AncestorsBelow, HtFileAssumption
        <5> QED
          BY <4>1, <5>1 DEF Closed
      <4> QED
        BY <2>1, <3>1, <4>2
    <3>2. CASE ~Contract!InFile(s, p)
      BY <2>1, <3>2, SameTrees DEF Contract!Out
    <3> QED
      BY <3>1, <3>2
  <2>4. \A q \in DOMAIN u : u[q] = s[q]
    BY <2>1 DEF Contract!Out
  <2>5. Agree(r, Part(h)', u)
    BY <1>4, <2>3, <2>4 DEF Agree
  <2> QED
    BY <1>4, <2>2, <2>5, AnsweredAs
<1>5. CASE c.act = "remove"
  <2>1. RemoveAll(h, c)
    BY <1>1, <1>5, WhichAction DEF Writing
  <2>2. CASE \/ ~Exists(c.to) /\ Continue(h, <<>>)
             \/ Removes(h, c.to)
    BY <1>1, <1>4, <2>2, RemoveGoes
  <2>3. ASSUME NEW k \in SetToSeqs(Children(tree, c.to)),
               Continue(h, [i \in DOMAIN k |-> Call("remove", k[i], k[i])] \o <<[c EXCEPT !.act = "rmdir"]>>)
        PROVE  status'[h] = Serving /\ DelWay(h)'
    BY <1>1, <1>5, <2>3, ExpandGoes
  <2> QED
    BY <2>1, <2>2, <2>3 DEF RemoveAll
<1>6. CASE c.act = "rmdir"
  <2>1. Rmdir(h, c)
    BY <1>1, <1>6, WhichAction DEF Writing
  <2>2. \A q \in DOMAIN tree : ~Below(q, c.to)
    <3>1. \A q : Below(q, c.to) /\ q \in Path => Within(q, p)
      BY <1>3, WithinTransitive, HtFileAssumption DEF Removing, Within
    <3>2. \A q \in DOMAIN tree : Below(q, c.to) => q \in DOMAIN Part(h)
      BY <1>2, <3>1, AboutPath, PartIs DEF TreeInv
    <3> QED
      BY <1>3, <1>6, <3>2
  <2>3. Children(tree, c.to) = {}
    BY <2>2 DEF Children, IsChild
  <2>4. \/ ~Exists(c.to) /\ Continue(h, <<>>)
        \/ Removes(h, c.to)
    BY <2>1, <2>3 DEF Rmdir
  <2> QED
    BY <1>1, <1>4, <2>4, RemoveGoes
<1> QED
  BY <1>3, <1>5, <1>6 DEF Removing

(* put and mkdir: the directories to be there, and the ones that are not   *)
(* made yet.                                                               *)
HomeDirs(p, op) == IF op = "put" THEN Ancestors(p) ELSE Ancestors(p) \cup {p}

NewDir == Contract!New(TRUE, <<>>)
NewFile == Contract!New(FALSE, <<>>)

Built(s, P) == Contract!Added(s, Contract!NewDirs(s, P))

(* How many calls are to make directories.                                 *)
ToMake(w, op) == IF op = "put" THEN Len(w) - 1 ELSE Len(w)

Unmade(w, op) == {w[i].to : i \in 1..ToMake(w, op)}

AtFirst(h, op) ==
  LET w == work[h]
      p == req[h].path
  IN /\ w[1].act = "mkdirAll" /\ w[1].to = p /\ Len(w) = IF op = "put" THEN 2 ELSE 1
     /\ op = "put" => w[2] = Call("create", p, p)
     /\ Agree(req[h], Part(h), before[h])

AtDirs(h, op) ==
  LET w == work[h]
      p == req[h].path
      s == before[h]
      n == ToMake(w, op)
  IN /\ \A i \in 1..n : w[i].act = "mkdir" /\ w[i].to \in HomeDirs(p, op) /\ w[i].to \notin DOMAIN s
     /\ \A i, j \in 1..n : i < j => Len(w[i].to) < Len(w[j].to)
     /\ op = "put" => w[n + 1] = Call("create", p, p)
     /\ \A d \in HomeDirs(p, op) : d \in DOMAIN s => s[d].dir
     /\ Agree(req[h], Part(h), Built(s, HomeDirs(p, op) \ Unmade(w, op)))

(* The file with the first n units of the body.                            *)
Begun(h, n) ==
  LET p == req[h].path
      s == before[h]
      e == IF p \in DOMAIN s THEN s[p] ELSE NewFile
  IN [dir |-> FALSE, mode |-> e.mode, owner |-> e.owner, group |-> e.group,
      data |-> [i \in 1..n |-> <<h, i>>]]

WithFile(h, e) ==
  Contract!Added(Built(before[h], Ancestors(req[h].path)), [q \in {req[h].path} |-> e])

AtBody(h) ==
  LET c == work[h][1]
      p == req[h].path
      s == before[h]
  IN /\ Len(work[h]) = 1 /\ c.act = "body" /\ c.to = p
     /\ c.n \in 0..req[h].len /\ (MaxBody > 0 => c.n <= MaxBody)
     /\ p \in DOMAIN Nodes(h) /\ Nodes(h)[p].id = c.tf.id
     /\ \A a \in Ancestors(p) : a \in DOMAIN s => s[a].dir
     /\ p \in DOMAIN s => ~s[p].dir
     /\ Agree(req[h], Part(h), WithFile(h, Begun(h, c.n)))

MkWay(h, op) == AtFirst(h, op) \/ AtDirs(h, op) \/ (op = "put" /\ AtBody(h))

MakesAsTold(h, op) ==
  Result(h) = IF op = "put"
              THEN Contract!Put(before[h], req[h].path, [i \in 1..req[h].len |-> <<h, i>>])
              ELSE Contract!Mkdir(before[h], req[h].path)

(* What is stored once the missing directories are made.                   *)
LEMMA BuiltIs ==
  ASSUME NEW s, NEW P, NEW u, u = Built(s, P)
  PROVE  /\ \A q : q \in DOMAIN u <=> q \in DOMAIN s \/ q \in P
         /\ \A q \in DOMAIN s : u[q] = s[q]
         /\ \A q \in P : q \notin DOMAIN s => u[q] = NewDir
<1>1. PICK m : m = Contract!NewDirs(s, P)
  OBVIOUS
<1>2. /\ \A q : q \in DOMAIN m <=> q \in P /\ q \notin DOMAIN s
      /\ \A q \in DOMAIN m : m[q] = NewDir
  BY <1>1 DEF Contract!NewDirs, NewDir
<1>3. DOMAIN u = DOMAIN s \cup DOMAIN m
      /\ \A q \in DOMAIN u : u[q] = IF q \in DOMAIN m THEN m[q] ELSE s[q]
  BY <1>1 DEF Contract!Added, Built
<1> QED
  BY <1>2, <1>3

(* The directories to be made are above the request's path, so the request *)
(* is about them.                                                          *)
LEMMA DirsArePaths ==
  ASSUME NEW p \in Path, NEW op \in {"put", "mkdir"}
  PROVE  /\ HomeDirs(p, op) \subseteq Path /\ IsFiniteSet(HomeDirs(p, op))
         /\ \A r : r.path = p => \A d \in HomeDirs(p, op) : About(r, d)
         /\ \A d \in HomeDirs(p, op) : Within(p, d) /\ \A a \in Ancestors(d) : a \in Ancestors(p) /\ Len(a) < Len(d)
<1>1. HomeDirs(p, op) \subseteq Path /\ IsFiniteSet(HomeDirs(p, op))
  BY AncestorsOfPath, FS_AddElement DEF HomeDirs
<1>2. \A r : r.path = p => \A d \in HomeDirs(p, op) : About(r, d)
  BY AboutPath DEF HomeDirs
<1>3. ASSUME NEW d \in HomeDirs(p, op)
      PROVE  Within(p, d) /\ \A a \in Ancestors(d) : a \in Ancestors(p) /\ Len(a) < Len(d)
  <2>1. d \in Path /\ Within(p, d)
    BY <1>1 DEF HomeDirs, Within, Below
  <2>2. \A a \in Ancestors(d) : a \in Ancestors(p) /\ a \in Path /\ Below(d, a)
    BY <2>1, AncestorsBelow, AncestorsOfPath DEF Below
  <2> QED
    BY <2>1, <2>2, BelowIsLonger
<1> QED
  BY <1>1, <1>2, <1>3

(* The request is answered when its last call has left nothing to do.      *)
LEMMA ThenEnds ==
  ASSUME WorkInv, NEW h \in Handlers, status[h] = Serving, NEW S, NEW cs \in Seq(S), Then(h, cs)
  PROVE  status'[h] = IF Len(cs) + Len(work[h]) - 1 = 0 THEN 200 ELSE Serving
BY ThenIs

(* The calls after the first one stay, behind those that it is replaced    *)
(* by.                                                                     *)
LEMMA ThenRest ==
  ASSUME WorkInv, NEW h \in Handlers, status[h] = Serving, NEW S, NEW cs \in Seq(S), Then(h, cs)
  PROVE  \A i \in 2..Len(work[h]) : work'[h][i - 1 + Len(cs)] = work[h][i]
BY ThenIs

(* No call is left after the only one.                                     *)
LEMMA LastCall ==
  ASSUME WorkInv, NEW h \in Handlers, status[h] = Serving
  PROVE  Tail(work[h]) = <<>> <=> Len(work[h]) = 1
<1> DEFINE T == {work[h][i] : i \in DOMAIN work[h]}
<1>1. work[h] \in Seq(T) /\ work[h] # <<>>
  BY DEF WorkInv, SafeWork
<1> HIDE DEF T
<1>2. PICK t : t = Tail(work[h])
  OBVIOUS
<1>3. t \in Seq(T) /\ Len(t) = Len(work[h]) - 1 /\ Len(work[h]) \in Nat
  BY <1>1, <1>2
<1>4. \A x \in Seq(T) : x = <<>> <=> Len(x) = 0
  OBVIOUS
<1>5. t = <<>> <=> Len(t) = 0
  BY <1>3, <1>4
<1> QED
  BY <1>2, <1>3, <1>5

(* All directories are made.                                               *)
LEMMA MkdirEnds ==
  ASSUME NEW h, req'[h] = req[h], before'[h] = before[h],
         MakesAsTold(h, "mkdir"),
         \A d \in HomeDirs(req[h].path, "mkdir") : d \in DOMAIN before[h] => before[h][d].dir,
         Agree(req[h], Part(h)', Built(before[h], HomeDirs(req[h].path, "mkdir"))), status'[h] = 200
  PROVE  IsAlone(h)'
<1>1. ~Contract!InFile(before[h], req[h].path) /\ ~Contract!File(before[h], req[h].path)
  BY SamePaths DEF Contract!InFile, Contract!File, HomeDirs
<1>2. Result(h) = Contract!Is(200, Built(before[h], HomeDirs(req[h].path, "mkdir")))
  BY <1>1, SamePaths DEF Contract!Mkdir, Built, HomeDirs, MakesAsTold
<1> QED
  BY <1>2, AnsweredAs

(* The look at the directory at hand leaves those that are missing to be   *)
(* made, or ends the request as the contract says.                         *)
LEMMA MkdirAllAlone ==
  ASSUME Inv, Stored, NEW h \in Handlers, status[h] = Serving, req[h] \in Requests,
         NEW op \in {"put", "mkdir"},
         MakesAsTold(h, op),
         Step(h), AtFirst(h, op), req' = req, before'[h] = before[h]
  PROVE  IF status'[h] = Serving THEN MkWay(h, op)' ELSE IsAlone(h)'
<1> DEFINE r == req[h]
           s == before[h]
           p == r.path
           D == HomeDirs(p, op)
           w == work[h]
<1>1. PICK c : c = work[h][1]
  OBVIOUS
<1>2. Safe(c) /\ WorkInv /\ TreeInv
  BY <1>1, FirstCall DEF Inv
<1>3. /\ c.act = "mkdirAll" /\ c.to = p /\ Agree(r, Part(h), s) /\ p \in Path
      /\ Len(w) = IF op = "put" THEN 2 ELSE 1
      /\ op = "put" => w[2] = Call("create", p, p)
  <2>1. p \in Path
    BY HtFileAssumption
  <2> QED
    BY <1>1, <2>1 DEF AtFirst
<1>4. MkdirAll(h, c)
  BY <1>1, <1>3, WhichAction DEF Writing
<1>5. Tail(work[h]) = <<>> <=> op # "put"
  BY <1>2, <1>3, LastCall
<1>6. D = Ancestors(c.to) \cup (IF Tail(work[h]) = <<>> THEN {c.to} ELSE {})
  BY <1>3, <1>5 DEF HomeDirs
<1>7. \A d \in D : /\ d \in Path /\ About(r, d)
                   /\ d \in DOMAIN tree <=> d \in DOMAIN s
                   /\ d \in DOMAIN tree => s[d].dir = tree[d].dir
  <2> TAKE d \in D
  <2>1. d \in Path /\ About(r, d) /\ \A a \in Ancestors(d) : About(r, a)
    BY <1>3, DirsArePaths, AboutPath
  <2>2. Agree(req[h], Part(h), s)
    BY <1>3
  <2> HIDE DEF s, D, p
  <2>3. (d \in DOMAIN tree <=> d \in DOMAIN s) /\ (d \in DOMAIN tree => s[d].dir = tree[d].dir)
    BY <2>1, <2>2, ParentIs DEF r
  <2> QED
    BY <2>1, <2>3
<1>8. IsFiniteSet(D \ DOMAIN tree) /\ D \ DOMAIN tree = D \ DOMAIN s
  <2>1. IsFiniteSet(D)
    BY <1>3, DirsArePaths
  <2>2. D \ DOMAIN tree = D \ DOMAIN s
    BY <1>7
  <2> QED
    BY <2>1, <2>2, FS_Subset
<1>9. CASE \E d \in D \cap DOMAIN tree : ~tree[d].dir /\ Fails(h, "ENOTDIR")
  <2>1. status'[h] = 500 /\ UNCHANGED fs
    BY <1>2, <1>9, AnswerIs DEF StatusOf
  <2>2. \E d \in D : d \in DOMAIN s /\ ~s[d].dir
    BY <1>7, <1>9
  <2>3. IF op = "put" THEN Contract!InFile(s, p) ELSE Contract!InFile(s, p) \/ Contract!File(s, p)
    BY <2>2, SamePaths DEF HomeDirs, Contract!InFile, Contract!File
  <2>4. Result(h) = Contract!Is(500, s)
    BY <2>3 DEF Contract!Put, Contract!Mkdir, MakesAsTold
  <2>5. Agree(r, Part(h)', s)
    BY <1>3, <2>1, PartStays
  <2> QED
    BY <2>1, <2>4, <2>5, AnsweredAs DEF Serving
<1>10. ASSUME \A d \in D \cap DOMAIN tree : tree[d].dir, NEW o \in SetToSeqs(D \ DOMAIN tree),
              \A i, j \in DOMAIN o : i < j => Len(o[i]) < Len(o[j]),
              Continue(h, [i \in DOMAIN o |-> Call("mkdir", o[i], o[i])])
       PROVE  IF status'[h] = Serving THEN MkWay(h, op)' ELSE IsAlone(h)'
  <2>0. \A i, j \in DOMAIN o : i < j => Len(o[i]) < Len(o[j])
    BY <1>10
  <2> DEFINE Calls == {Call("mkdir", k, k) : k \in D \ DOMAIN s}
  <2>1. /\ o \in Seq(D \ DOMAIN s) /\ DOMAIN o = 1..Len(o) /\ Len(o) \in Nat
        /\ \A x : x \in D \ DOMAIN s <=> \E i \in 1..Len(o) : x = o[i]
    BY <1>8, <1>10, OrderHasEach
  <2>2. PICK cs : cs = [i \in DOMAIN o |-> Call("mkdir", o[i], o[i])]
    OBVIOUS
  <2>3. cs \in Seq(Calls) /\ Len(cs) = Len(o) /\ \A i \in 1..Len(o) : cs[i] = Call("mkdir", o[i], o[i])
    BY <2>1, <2>2
  <2>4. Then(h, cs) /\ UNCHANGED fs
    BY <1>10, <2>2 DEF Continue
  <2> HIDE DEF Calls, D
  <2> DEFINE n == Len(o)
             u == work'[h]
  <2>5. /\ DOMAIN u = 1..Len(u) /\ Len(u) = IF op = "put" THEN n + 1 ELSE n
        /\ \A i \in 1..n : u[i] = Call("mkdir", o[i], o[i])
        /\ op = "put" => u[n + 1] = Call("create", p, p)
        /\ status'[h] = IF Len(u) = 0 THEN 200 ELSE Serving
    <3>1. /\ Len(cs) = n /\ Len(w) \in Nat /\ Len(u) = n + Len(w) - 1 /\ DOMAIN u = 1..Len(u)
          /\ \A i \in 1..n : u[i] = cs[i]
          /\ \A i \in 2..Len(w) : u[i - 1 + n] = w[i]
          /\ status'[h] = IF n + Len(w) - 1 = 0 THEN 200 ELSE Serving
      <4>1. cs \in Seq(Calls) /\ Len(cs) = n /\ Then(h, cs)
        BY <2>3, <2>4
      <4>2. PICK m : m = Len(cs)
        OBVIOUS
      <4> HIDE DEF n
      <4>3. /\ Len(w) \in Nat /\ Len(u) = m + Len(w) - 1 /\ DOMAIN u = 1..(m + Len(w) - 1)
            /\ \A i \in 1..m : u[i] = cs[i]
            /\ \A i \in 2..Len(w) : u[i - 1 + m] = w[i]
            /\ status'[h] = IF m + Len(w) - 1 = 0 THEN 200 ELSE Serving
        <5> USE <1>2, <4>1, <4>2
        <5>1. Len(w) \in Nat /\ Len(u) = m + Len(w) - 1
          BY  ThenIs
        <5>2. DOMAIN u = 1..(m + Len(w) - 1)
          BY ThenIs
        <5>3. \A i \in 1..m : u[i] = cs[i]
          BY ThenIs
        <5>6. \A i \in 2..Len(w) : u[i - 1 + Len(cs)] = w[i]
          BY <1>2, <4>1, ThenRest
        <5>4. \A i \in 2..Len(w) : u[i - 1 + m] = w[i]
          BY <5>6
        <5>5. status'[h] = IF m + Len(w) - 1 = 0 THEN 200 ELSE Serving
          BY ThenEnds
        <5> QED
          BY <5>1, <5>2, <5>3, <5>4, <5>5
      <4> QED
        BY <4>1, <4>2, <4>3
    <3> HIDE DEF u
    <3>2. op = "put" => u[2 - 1 + n] = w[2]
      BY <1>3, <3>1
    <3>3. 2 - 1 + n = n + 1
      BY <2>1
    <3> QED
      BY <1>3, <2>1, <2>3, <3>1, <3>2, <3>3
  <2> HIDE DEF u
  <2>6. ToMake(u, op) = n
    BY <2>1, <2>5 DEF ToMake
  <2>7. \A i \in 1..n : u[i].act = "mkdir" /\ u[i].to = o[i]
    <3> TAKE i \in 1..n
    <3>1. u[i] = Call("mkdir", o[i], o[i])
      BY <2>5
    <3> QED
      BY <3>1 DEF Call
  <2>8. Unmade(u, op) = D \ DOMAIN s
    BY <2>1, <2>6, <2>7 DEF Unmade
  <2>9. \A d \in D : d \in DOMAIN s => s[d].dir
    BY <1>7, <1>10 DEF D
  <2>10. Agree(r, Part(h)', Built(s, D \ (D \ DOMAIN s)))
    <3>1. Part(h)' = Part(h)
      BY <2>4, PartStays
    <3>a. PICK P : P = D \ (D \ DOMAIN s)
      OBVIOUS
    <3> HIDE DEF s, D
    <3>2. PICK b : b = Built(s, P)
      OBVIOUS
    <3>3. /\ \A q : q \in DOMAIN b <=> q \in DOMAIN s \/ q \in D \ (D \ DOMAIN s)
          /\ \A q \in DOMAIN s : b[q] = s[q]
      BY <3>2, <3>a, BuiltIs
    <3> QED
      BY <1>3, <3>1, <3>2, <3>3, <3>a DEF Agree, s
  <2>11. CASE status'[h] = Serving
    <3>1. \A i \in 1..n : u[i].act = "mkdir" /\ u[i].to \in D /\ u[i].to \notin DOMAIN s
      BY <2>1, <2>7
    <3>2. \A i, j \in 1..n : i < j => Len(u[i].to) < Len(u[j].to)
      BY <2>0, <2>1, <2>7
    <3>3. Agree(req[h], Part(h), Built(before[h], D \ Unmade(work[h], op)))'
      <4>1. Agree(req'[h], Part(h)', Built(before'[h], D \ Unmade(work'[h], op)))
        BY <2>8, <2>10 DEF u
      <4> QED
        BY <4>1 DEF Agree, About, Built, Unmade, ToMake, D
    <3> DEFINE Way(W, R, B) ==
          LET k == ToMake(W, op)
          IN /\ \A i \in 1..k : W[i].act = "mkdir" /\ W[i].to \in HomeDirs(R.path, op) /\ W[i].to \notin DOMAIN B
             /\ \A i, j \in 1..k : i < j => Len(W[i].to) < Len(W[j].to)
             /\ op = "put" => W[k + 1] = Call("create", R.path, R.path)
             /\ \A d \in HomeDirs(R.path, op) : d \in DOMAIN B => B[d].dir
    <3>4. Way(u, r, s)
      BY <2>5, <2>6, <2>9, <3>1, <3>2 DEF D
    <3>5. Way(work'[h], req'[h], before'[h])
      BY <3>4 DEF u
    <3>6. AtDirs(h, op)'
      BY <3>3, <3>5 DEF AtDirs, ToMake, HomeDirs, D
    <3> QED
      BY <2>11, <3>6 DEF MkWay
  <2>12. CASE status'[h] # Serving
    <3>1. Len(u) = 0 /\ op # "put" /\ n = 0 /\ status'[h] = 200
      BY <2>1, <2>5, <2>12
    <3>2. D \ DOMAIN s = {}
      BY <2>1, <3>1
    <3>3. D \ (D \ DOMAIN s) = D
      BY <3>2
    <3>4. Agree(r, Part(h)', Built(s, HomeDirs(p, "mkdir")))
      BY <2>10, <3>1, <3>3 DEF D
    <3> QED
      BY <2>9, <2>12, <3>1, <3>4, MkdirEnds DEF D
  <2> QED
    BY <2>11, <2>12
<1>11. \/ \E d \in D \cap DOMAIN tree : ~tree[d].dir /\ Fails(h, "ENOTDIR")
       \/ /\ \A d \in D \cap DOMAIN tree : tree[d].dir
          /\ \E o \in SetToSeqs(D \ DOMAIN tree) :
               /\ \A i, j \in DOMAIN o : i < j => Len(o[i]) < Len(o[j])
               /\ Continue(h, [i \in DOMAIN o |-> Call("mkdir", o[i], o[i])])
  <2> HIDE DEF D
  <2> QED
    BY <1>4, <1>6, Zenon DEF MkdirAll
<1> QED
  BY <1>9, <1>10, <1>11

(* When one entry is set, in the store and in what the contract tells,     *)
(* they still agree.                                                       *)
LEMMA SetsMakes ==
  ASSUME NEW h, NEW s, Agree(req[h], Part(h), s), NEW p, About(req[h], p), NEW e, Sets(h, p, e),
         NEW t, \A q : q \in DOMAIN t <=> q \in DOMAIN s \/ q = p,
         \A q \in DOMAIN s : q # p => t[q] = s[q], t[p] = e
  PROVE  Agree(req[h], Part(h)', t)
<1> DEFINE v == Part(h)
           w == Part(h)'
<1>1. /\ \A q : About(req[h], q) => (q \in DOMAIN w <=> q \in DOMAIN v \/ q = p)
      /\ \A q \in DOMAIN v : q # p => w[q] = v[q]
      /\ w[p] = e
  BY DEF Sets
<1> HIDE DEF v, w
<1>2. \A q : About(req[h], q) => /\ q \in DOMAIN v <=> q \in DOMAIN s
                                 /\ q \in DOMAIN v => v[q] = s[q]
  BY DEF Agree, v
<1>3. ASSUME NEW q, About(req[h], q)
      PROVE  (q \in DOMAIN w <=> q \in DOMAIN t) /\ (q \in DOMAIN w => w[q] = t[q])
  BY <1>1, <1>2, <1>3
<1>4. Agree(req[h], w, t)
  BY <1>3, Zenon DEF Agree
<1> QED
  BY <1>4 DEF w

(* The next directory to make: those on the way to it are there.           *)
LEMMA NextDir ==
  ASSUME Inv, Stored, NEW h \in Handlers, status[h] = Serving, req[h] \in Requests,
         NEW op \in {"put", "mkdir"}, AtDirs(h, op), ToMake(work[h], op) # 0,
         NEW c, c = work[h][1]
  PROVE  /\ c.act = "mkdir" /\ c.to \in HomeDirs(req[h].path, op) /\ About(req[h], c.to)
         /\ c.to \notin DOMAIN before[h] /\ c.to \notin DOMAIN tree
         /\ MkdirError(tree, c.to) = "ok"
         /\ ToMake(work[h], op) \in Nat \ {0} /\ Len(work[h]) \in Nat \ {0}
         /\ \A x \in Unmade(work[h], op) : x # c.to => Len(x) > Len(c.to)
<1> DEFINE r == req[h]
           s == before[h]
           p == r.path
           D == HomeDirs(p, op)
           w == work[h]
           n == ToMake(w, op)
           U == Unmade(w, op)
<1>1. Len(w) \in Nat \ {0}
  <2>1. 1 \in DOMAIN w /\ w \in Seq({w[i] : i \in DOMAIN w})
    BY HasWork DEF Inv, WorkInv, SafeWork
  <2> QED
    BY <2>1
<1>2. n \in Nat \ {0}
  BY <1>1 DEF ToMake
<1>3. /\ \A i \in 1..n : w[i].act = "mkdir" /\ w[i].to \in D /\ w[i].to \notin DOMAIN s
      /\ \A i, j \in 1..n : i < j => Len(w[i].to) < Len(w[j].to)
      /\ \A d \in D : d \in DOMAIN s => s[d].dir
      /\ Agree(r, Part(h), Built(s, D \ U))
  BY DEF AtDirs
<1>4. 1 \in 1..n
  BY <1>2
<1>5. c.act = "mkdir" /\ c.to \in D /\ c.to \notin DOMAIN s
  BY <1>3, <1>4
<1>6. p \in Path
  BY HtFileAssumption
<1>7. About(r, c.to) /\ \A a \in Ancestors(c.to) : a \in D /\ Len(a) < Len(c.to) /\ About(r, a)
  <2>1. D \subseteq Path /\ (\A d \in D : About(r, d))
        /\ \A a \in Ancestors(c.to) : a \in Ancestors(p) /\ Len(a) < Len(c.to)
    BY <1>5, <1>6, DirsArePaths
  <2> QED
    BY <1>5, <2>1 DEF HomeDirs
<1>8. \A x \in U : x # c.to => Len(x) > Len(c.to)
  <2> TAKE x \in U
  <2>1. PICK i \in 1..n : x = w[i].to
    BY DEF Unmade
  <2>2. i = 1 \/ 1 < i
    BY <1>2
  <2>3. 1 < i => Len(c.to) < Len(w[i].to)
    BY <1>3, <1>4
  <2> HIDE DEF w, n, U
  <2>4. w[1] = c
    BY DEF w
  <2>5. x \in D /\ c.to \in D
    BY <1>3, <1>5, <2>1
  <2>6. Len(x) \in Nat /\ Len(c.to) \in Nat
    <3>1. D \subseteq Seq(Char)
      BY <1>6, DirsArePaths DEF Path
    <3> QED
      BY <2>5, <3>1
  <2> QED
    BY <2>1, <2>2, <2>3, <2>4, <2>6
<1>9. c.to \in U
  BY <1>4 DEF Unmade
<1> HIDE DEF U, n, w, D
<1>10. PICK b : b = Built(s, D \ U)
  OBVIOUS
<1>11. /\ \A q : q \in DOMAIN b <=> q \in DOMAIN s \/ q \in D \ U
       /\ \A q \in DOMAIN s : b[q] = s[q]
       /\ \A q \in D \ U : q \notin DOMAIN s => b[q] = NewDir
  BY <1>10, BuiltIs
<1>12. NewDir.dir = TRUE
  BY DEF NewDir, Contract!New
<1>13. \A a \in Ancestors(c.to) : a \in DOMAIN b /\ b[a].dir
  <2> TAKE a \in Ancestors(c.to)
  <2>1. a \in D /\ Len(a) < Len(c.to)
    BY <1>7
  <2>2. a \notin U
    <3>1. Len(a) \in Nat /\ Len(c.to) \in Nat
      <4>1. D \subseteq Seq(Char)
        BY <1>6, DirsArePaths DEF Path, D
      <4> QED
        BY <1>5, <2>1, <4>1
    <3> QED
      BY <1>8, <2>1, <3>1
  <2> QED
    BY <1>3, <1>11, <1>12, <2>1, <2>2
<1>14. c.to \notin DOMAIN b
  BY <1>5, <1>9, <1>11
<1>15. ~Contract!InFile(b, c.to) /\ ~Contract!Homeless(b, c.to)
  BY <1>13, SamePaths DEF Contract!InFile, Contract!Homeless, Contract!File
<1>16. c.to \notin DOMAIN tree /\ ParentError(tree, c.to) = "ok"
  <2>1. Agree(req[h], Part(h), b) /\ About(req[h], c.to) /\ \A a \in Ancestors(c.to) : About(req[h], a)
    BY <1>3, <1>7, <1>10
  <2>2. /\ c.to \in DOMAIN tree <=> c.to \in DOMAIN b
        /\ ParentError(tree, c.to) = IF Contract!InFile(b, c.to) THEN "ENOTDIR"
                                   ELSE IF Contract!Homeless(b, c.to) THEN "ENOENT" ELSE "ok"
    BY <2>1, ParentIs
  <2> QED
    BY <1>14, <1>15, <2>2
<1>17. MkdirError(tree, c.to) = "ok"
  BY <1>16 DEF MkdirError
<1> QED
  BY <1>1, <1>2, <1>5, <1>7, <1>8, <1>16, <1>17 DEF D, U, n, w

(* Making one of the missing directories takes the request one step        *)
(* further.                                                                *)
LEMMA MkdirAlone ==
  ASSUME Inv, Stored, NEW h \in Handlers, status[h] = Serving, req[h] \in Requests, FreeIds # {},
         NEW op \in {"put", "mkdir"},
         MakesAsTold(h, op), AtDirs(h, op), ToMake(work[h], op) # 0,
         Step(h), req' = req, before'[h] = before[h]
  PROVE  IF status'[h] = Serving THEN MkWay(h, op)' ELSE IsAlone(h)'
<1> DEFINE r == req[h]
           s == before[h]
           p == r.path
           D == HomeDirs(p, op)
           w == work[h]
           n == ToMake(w, op)
           U == Unmade(w, op)
           V == Unmade(work'[h], op)
<1>1. PICK c : c = w[1]
  OBVIOUS
<1>2. WorkInv /\ TreeInv
  BY DEF Inv
<1>3. /\ c.act = "mkdir" /\ c.to \in D /\ About(r, c.to)
      /\ c.to \notin DOMAIN s /\ c.to \notin DOMAIN tree
      /\ MkdirError(tree, c.to) = "ok"
      /\ n \in Nat \ {0} /\ Len(w) \in Nat \ {0}
      /\ \A x \in U : x # c.to => Len(x) > Len(c.to)
  BY <1>1, NextDir
<1>4. /\ \A i \in 1..n : w[i].act = "mkdir" /\ w[i].to \in D /\ w[i].to \notin DOMAIN s
      /\ \A i, j \in 1..n : i < j => Len(w[i].to) < Len(w[j].to)
      /\ op = "put" => w[n + 1] = Call("create", p, p)
      /\ \A d \in D : d \in DOMAIN s => s[d].dir
      /\ Agree(r, Part(h), Built(s, D \ U))
  BY DEF AtDirs
<1>5. MakeDir(c.to) /\ Then(h, <<>>)
  <2>1. Mkdir(h, c)
    BY <1>1, <1>3, WhichAction DEF Writing
  <2>2. ~IsDir(c.to)
    BY <1>3 DEF IsDir
  <2>3. ~Fails(h, OrNoSpace(MkdirError(tree, c.to)))
    BY <1>3 DEF Fails, OrNoSpace
  <2> QED
    BY <2>1, <2>2, <2>3 DEF Mkdir
<1>6. Sets(h, c.to, NewDir)
  BY <1>2, <1>3, <1>5, MakeDirSets DEF NewDir
<1> DEFINE u == work'[h]
<1>7. /\ Len(u) = Len(w) - 1
      /\ \A i \in 2..Len(w) : u[i - 1] = w[i]
      /\ status'[h] = IF Len(w) - 1 = 0 THEN 200 ELSE Serving
  <2>1. PICK cs : cs = <<>>
    OBVIOUS
  <2>2. cs \in Seq({}) /\ Len(cs) = 0 /\ Then(h, cs)
    BY <1>5, <2>1
  <2>3. Len(u) = Len(cs) + Len(w) - 1
    BY <1>2, <2>2, ThenIs
  <2>4. \A i \in 2..Len(w) : u[i - 1 + Len(cs)] = w[i]
    BY <1>2, <2>2, ThenRest
  <2>5. status'[h] = IF Len(cs) + Len(w) - 1 = 0 THEN 200 ELSE Serving
    BY <1>2, <2>2, ThenEnds
  <2> HIDE DEF u, w
  <2> QED
    BY <1>3, <2>2, <2>3, <2>4, <2>5
<1>8. Len(w) = IF op = "put" THEN n + 1 ELSE n
  BY <1>3 DEF ToMake
<1> HIDE DEF w, u
<1>9. ToMake(u, op) = n - 1
  BY <1>3, <1>7, <1>8 DEF ToMake
<1> HIDE DEF n
<1>10. \A i \in 1..n - 1 : u[i] = w[i + 1] /\ i + 1 \in 1..n
  <2> TAKE i \in 1..n - 1
  <2>1. i + 1 \in 2..Len(w) /\ (i + 1) - 1 = i /\ i + 1 \in 1..n
    BY <1>3, <1>8
  <2> QED
    BY <1>7, <2>1
<1>11. w[1].to = c.to
  BY <1>1
<1>12. \A x : x \in V <=> x \in U /\ x # c.to
  <2>1. \A x : x \in U <=> \E i \in 1..n : x = w[i].to
    BY DEF Unmade, n, w
  <2>2. \A x : x \in V <=> \E i \in 1..n - 1 : x = u[i].to
    BY <1>9 DEF Unmade, u
  <2>3. \A i \in 1..n : i # 1 => i - 1 \in 1..n - 1 /\ u[i - 1] = w[i]
    <3> TAKE i \in 1..n
    <3> HAVE i # 1
    <3>1. i - 1 \in 1..n - 1 /\ (i - 1) + 1 = i
      BY <1>3
    <3> QED
      BY <1>10, <3>1
  <2>4. \A i \in 1..n : i # 1 => w[i].to # c.to
    <3> TAKE i \in 1..n
    <3> HAVE i # 1
    <3>1. 1 \in 1..n /\ 1 < i
      BY <1>3
    <3>2. Len(w[1].to) < Len(w[i].to)
      BY <1>4, <3>1 DEF w, n
    <3>3. Len(c.to) \in Nat
      <4>1. p \in Path
        BY HtFileAssumption
      <4>2. D \subseteq Seq(Char)
        BY <4>1, DirsArePaths DEF Path
      <4> QED
        BY <1>3, <4>2
    <3> QED
      BY <1>11, <3>2, <3>3
  <2>5. 1 \in 1..n
    BY <1>3
  <2> HIDE DEF U, V
  <2>6. ASSUME NEW x \in V PROVE x \in U /\ x # c.to
    <3>1. PICK i \in 1..n - 1 : x = u[i].to
      BY <2>2
    <3>2. i + 1 \in 1..n /\ i + 1 # 1 /\ x = w[i + 1].to
      BY <1>3, <1>10, <3>1
    <3> QED
      BY <2>1, <2>4, <3>2
  <2>7. ASSUME NEW x \in U, x # c.to PROVE x \in V
    BY <1>11, <2>1, <2>2, <2>3, <2>7
  <2> QED
    BY <2>6, <2>7
<1> HIDE DEF U, V, D
<1>13. PICK b : b = Built(s, D \ U)
  OBVIOUS
<1>14. PICK e : e = Built(s, D \ V)
  OBVIOUS
<1>15. Agree(r, Part(h)', e)
  <2>1. /\ \A q : q \in DOMAIN b <=> q \in DOMAIN s \/ q \in D \ U
        /\ \A q \in DOMAIN s : b[q] = s[q]
        /\ \A q \in D \ U : q \notin DOMAIN s => b[q] = NewDir
    BY <1>13, BuiltIs
  <2>2. /\ \A q : q \in DOMAIN e <=> q \in DOMAIN s \/ q \in D \ V
        /\ \A q \in DOMAIN s : e[q] = s[q]
        /\ \A q \in D \ V : q \notin DOMAIN s => e[q] = NewDir
    BY <1>14, BuiltIs
  <2>3. /\ \A q : q \in DOMAIN e <=> q \in DOMAIN b \/ q = c.to
        /\ \A q \in DOMAIN b : q # c.to => e[q] = b[q]
        /\ e[c.to] = NewDir
    BY <1>3, <1>12, <2>1, <2>2
  <2> HIDE DEF s, p, r
  <2>4. Agree(r, Part(h), b)
    BY <1>4, <1>13 DEF D, U, w, s, p, r
  <2> QED
    BY <1>6, <1>3, <2>3, <2>4, SetsMakes DEF r
<1>16. CASE Len(w) - 1 = 0
  <2>1. op # "put" /\ n = 1 /\ status'[h] = 200
    BY <1>3, <1>7, <1>8, <1>16
  <2>2. V = {}
    BY <1>9, <2>1 DEF Unmade, V, u
  <2>3. Agree(r, Part(h)', Built(s, HomeDirs(p, "mkdir")))
    <3>1. D \ V = D /\ op = "mkdir"
      BY <2>1, <2>2
    <3>2. D \ V = HomeDirs(p, "mkdir")
      BY <3>1 DEF D
    <3> QED
      BY <1>14, <1>15, <3>2
  <2>4. \A d \in HomeDirs(p, "mkdir") : d \in DOMAIN s => s[d].dir
    BY <1>4, <2>1 DEF D
  <2> QED
    BY <2>1, <2>3, <2>4, MkdirEnds DEF Serving
<1>17. CASE Len(w) - 1 # 0
  <2>1. \A i \in 1..n - 1 : u[i].act = "mkdir" /\ u[i].to \in D /\ u[i].to \notin DOMAIN s
    BY <1>4, <1>10 DEF D, w, n
  <2>2. \A i, j \in 1..n - 1 : i < j => Len(u[i].to) < Len(u[j].to)
    <3> TAKE i, j \in 1..n - 1
    <3> HAVE i < j
    <3>1. i + 1 < j + 1 /\ i + 1 \in 1..n /\ j + 1 \in 1..n
      BY <1>3
    <3> QED
      BY <1>4, <1>10, <3>1 DEF w, n
  <2>3. op = "put" => u[(n - 1) + 1] = Call("create", p, p)
    <3>1. ASSUME op = "put" PROVE u[(n - 1) + 1] = w[n + 1]
      <4>1. n + 1 \in 2..Len(w) /\ (n + 1) - 1 = (n - 1) + 1
        BY <1>3, <1>8, <3>1
      <4> QED
        BY <1>7, <4>1
    <3> QED
      BY <1>4, <3>1 DEF w, n
  <2>4. \A d \in D : d \in DOMAIN s => s[d].dir
    BY <1>4 DEF D
  <2> DEFINE Way(W, R, B) ==
        LET k == ToMake(W, op)
        IN /\ \A i \in 1..k : W[i].act = "mkdir" /\ W[i].to \in HomeDirs(R.path, op) /\ W[i].to \notin DOMAIN B
           /\ \A i, j \in 1..k : i < j => Len(W[i].to) < Len(W[j].to)
           /\ op = "put" => W[k + 1] = Call("create", R.path, R.path)
           /\ \A d \in HomeDirs(R.path, op) : d \in DOMAIN B => B[d].dir
  <2>5. Way(u, r, s)
    BY <1>9, <2>1, <2>2, <2>3, <2>4 DEF D
  <2>6. Way(work'[h], req'[h], before'[h])
    BY <2>5 DEF u
  <2>7. Agree(req[h], Part(h), Built(before[h], D \ Unmade(work[h], op)))'
    <3>1. Agree(req'[h], Part(h)', Built(before'[h], D \ Unmade(work'[h], op)))
      BY <1>14, <1>15 DEF V
    <3> QED
      BY <3>1 DEF Agree, About, Built, Unmade, ToMake, D
  <2>8. AtDirs(h, op)'
    BY <2>6, <2>7 DEF AtDirs, ToMake, HomeDirs, D
  <2> QED
    BY <1>7, <1>17, <2>8 DEF MkWay
<1> QED
  BY <1>16, <1>17

(* What is sent of a body, and what a write of its next unit makes of it.  *)
Sent(h, n) == [i \in 1..n |-> <<h, i>>]

(* A body that was received in part is the part before and the next piece. *)
LEMMA SentGrows ==
  ASSUME NEW h, NEW n \in Nat
  PROVE  /\ Sent(h, 0) = <<>> /\ Len(Sent(h, n)) = n
         /\ Written(Sent(h, n), n, <<<<h, n + 1>>>>) = Sent(h, n + 1)
         /\ \A m \in Nat : n <= m => SubSeq(Sent(h, m), 1, n) = Sent(h, n)
<1>1. \A k \in Nat : Len(Sent(h, k)) = k /\ Sent(h, k) \in Seq({<<h, i>> : i \in 1..k})
  BY DEF Sent
<1>2. Sent(h, 0) = <<>>
  <2>1. Len(Sent(h, 0)) = 0 /\ Sent(h, 0) \in Seq({<<h, i>> : i \in 1..0})
    BY <1>1
  <2> QED
    BY <2>1
<1>3. Written(Sent(h, n), n, <<<<h, n + 1>>>>) = Sent(h, n + 1)
  <2>1. PICK u : u = <<<<h, n + 1>>>>
    OBVIOUS
  <2>2. Len(u) = 1 /\ u[1] = <<h, n + 1>>
    BY <2>1
  <2>3. PICK t : t = Written(Sent(h, n), n, u)
    OBVIOUS
  <2>a. PICK x : x = Sent(h, n)
    OBVIOUS
  <2>b. Len(x) = n /\ n + Len(u) = n + 1 /\ ~(Len(x) > n + Len(u))
    <3>1. Len(x) = n
      BY <1>1, <2>a
    <3>2. \A k, l : k = n /\ l = 1 => n + l = n + 1 /\ ~(k > n + l)
      OBVIOUS
    <3> QED
      BY <2>2, <3>1, <3>2
  <2>c. (IF Len(x) > n + Len(u) THEN Len(x) ELSE n + Len(u)) = n + 1
    BY <2>b
  <2>4. t = [i \in 1..n + 1 |-> IF i \in n + 1..n + 1 THEN u[i - n]
                                ELSE IF i <= n THEN Sent(h, n)[i] ELSE Zero]
    <3>1. t = [i \in 1..(IF Len(x) > n + Len(u) THEN Len(x) ELSE n + Len(u)) |->
                 IF i \in n + 1..n + Len(u) THEN u[i - n]
                 ELSE IF i <= Len(x) THEN x[i] ELSE Zero]
      BY <2>3, <2>a DEF Written
    <3> QED
      BY <2>a, <2>b, <2>c, <3>1
  <2>5. \A i \in 1..n + 1 : t[i] = <<h, i>>
    <3> TAKE i \in 1..n + 1
    <3>1. CASE i = n + 1
      <4>1. i \in n + 1..n + 1 /\ i - n = 1
        BY <3>1
      <4> QED
        BY <2>2, <2>4, <3>1, <4>1
    <3>2. CASE i # n + 1
      <4>1. i \notin n + 1..n + 1 /\ i <= n /\ i \in 1..n
        BY <3>2
      <4>2. Sent(h, n)[i] = <<h, i>>
        BY <4>1 DEF Sent
      <4> QED
        BY <2>4, <4>1, <4>2
    <3> QED
      BY <3>1, <3>2
  <2>6. DOMAIN t = 1..n + 1 /\ t = [i \in DOMAIN t |-> t[i]]
    BY <2>4
  <2>7. t = Sent(h, n + 1)
    BY <2>5, <2>6 DEF Sent
  <2> QED
    BY <2>1, <2>3, <2>7
<1>4. ASSUME NEW m \in Nat, n <= m PROVE SubSeq(Sent(h, m), 1, n) = Sent(h, n)
  <2>1. PICK t : t = SubSeq(Sent(h, m), 1, n)
    OBVIOUS
  <2>2. t = [i \in 1..n |-> Sent(h, m)[i]]
    BY <2>1
  <2>3. \A i \in 1..n : Sent(h, m)[i] = <<h, i>>
    BY <1>4 DEF Sent
  <2> QED
    BY <2>1, <2>2, <2>3 DEF Sent
<1> QED
  BY <1>1, <1>2, <1>3, <1>4

(* What is stored once the file is there, path by path.                    *)
LEMMA WithFileIs ==
  ASSUME NEW h, NEW e, NEW b, b = Built(before[h], Ancestors(req[h].path)),
         NEW t, t = WithFile(h, e)
  PROVE  /\ \A q : q \in DOMAIN t <=> q \in DOMAIN b \/ q = req[h].path
         /\ \A q \in DOMAIN b : q # req[h].path => t[q] = b[q]
         /\ t[req[h].path] = e
<1>1. PICK m : m = [q \in {req[h].path} |-> e]
  OBVIOUS
<1>2. DOMAIN m = {req[h].path} /\ m[req[h].path] = e
  BY <1>1
<1>3. DOMAIN t = DOMAIN b \cup DOMAIN m
      /\ \A q \in DOMAIN t : t[q] = IF q \in DOMAIN m THEN m[q] ELSE b[q]
  BY <1>1 DEF Contract!Added, WithFile
<1> QED
  BY <1>2, <1>3

(* What the contract makes of a body.                                      *)
LEMMA PutIs ==
  ASSUME NEW h, req[h] \in Requests, MakesAsTold(h, "put"),
         LET p == req[h].path
             s == before[h]
         IN /\ \A a \in Ancestors(p) : a \in DOMAIN s => s[a].dir
            /\ p \in DOMAIN s => ~s[p].dir /\ IsEntry(s[p])
  PROVE  LET len == req[h].len
             fits == MaxBody = 0 \/ len < MaxBody
         IN Result(h) = Contract!Is(IF fits THEN 200 ELSE 413,
                                    WithFile(h, Begun(h, IF fits THEN len ELSE MaxBody)))
<1> DEFINE p == req[h].path
           s == before[h]
           len == req[h].len
           fits == MaxBody = 0 \/ len < MaxBody
           old == IF Contract!File(s, p) THEN s[p] ELSE Contract!New(FALSE, <<>>)
           body == IF fits THEN Sent(h, len) ELSE SubSeq(Sent(h, len), 1, MaxBody)
           m == IF fits THEN len ELSE MaxBody
<1>1. len \in Nat /\ MaxBody \in Nat
  BY HtFileAssumption
<1>2. ~Contract!InFile(s, p) /\ ~Contract!Dir(s, p)
  BY SamePaths DEF Contract!InFile, Contract!File, Contract!Dir
<1>3. Contract!File(s, p) <=> p \in DOMAIN s
  BY DEF Contract!File
<1>4. Len(Sent(h, len)) = len
  BY <1>1, SentGrows
<1>5. Result(h) = Contract!Put(s, p, Sent(h, len))
  BY DEF MakesAsTold, Sent
<1>6. PICK stored : stored = [old EXCEPT !.data = body]
  OBVIOUS
<1>7. Result(h) = Contract!Is(IF fits THEN 200 ELSE 413, WithFile(h, stored))
  <2>1. PICK x : x = Sent(h, len)
    OBVIOUS
  <2>2. Result(h) = Contract!Put(s, p, x) /\ Len(x) = len
        /\ stored = [old EXCEPT !.data = IF fits THEN x ELSE SubSeq(x, 1, MaxBody)]
    BY <1>4, <1>5, <1>6, <2>1
  <2>3. Contract!Ancestors(p) = Ancestors(p)
    BY SamePaths
  <2> QED
    BY <1>2, <2>2, <2>3 DEF Contract!Put, WithFile, Built
<1>8. body = Sent(h, m)
  <2>1. CASE fits
    BY <2>1
  <2>2. CASE ~fits
    <3>1. MaxBody <= len
      BY <1>1, <2>2
    <3>2. SubSeq(Sent(h, len), 1, MaxBody) = Sent(h, MaxBody)
      BY <1>1, <3>1, SentGrows
    <3> HIDE DEF fits
    <3> QED
      BY <2>2, <3>2
  <2> QED
    BY <2>1, <2>2
<1>9. IsEntry(old) /\ ~old.dir
  BY <1>3 DEF IsEntry, Contract!New
<1>10. stored = [dir |-> old.dir, mode |-> old.mode, owner |-> old.owner, group |-> old.group, data |-> Sent(h, m)]
  <2>1. PICK o : o = old
    OBVIOUS
  <2>2. IsEntry(o) /\ stored = [o EXCEPT !.data = Sent(h, m)]
    BY <1>6, <1>8, <1>9, <2>1
  <2> QED
    BY <2>1, <2>2 DEF IsEntry
<1>11. stored = Begun(h, m)
  <2>1. old = IF p \in DOMAIN s THEN s[p] ELSE NewFile
    BY <1>3 DEF NewFile
  <2>2. old.dir = FALSE
    BY <1>3 DEF Contract!New
  <2> QED
    BY <1>10, <2>1, <2>2 DEF Begun, Sent
<1> QED
  BY <1>7, <1>11

(* The call goes on as d.                                                  *)
LEMMA ThenOne ==
  ASSUME WorkInv, NEW h \in Handlers, status[h] = Serving, NEW d, Then(h, <<d>>)
  PROVE  Len(work'[h]) = Len(work[h]) /\ work'[h][1] = d /\ status'[h] = Serving
<1>1. PICK cs : cs = <<d>>
  OBVIOUS
<1>2. cs \in Seq({d}) /\ Len(cs) = 1 /\ cs[1] = d /\ Then(h, cs)
  BY <1>1
<1>3. Len(work[h]) \in Nat \ {0} /\ Len(work'[h]) = Len(cs) + Len(work[h]) - 1
  BY <1>2, ThenIs
<1>4. work'[h][1] = cs[1]
  <2>1. PICK m : m = Len(cs)
    OBVIOUS
  <2>2. \A i \in 1..m : work'[h][i] = cs[i]
    BY <1>2, <2>1, ThenIs
  <2>3. 1 \in 1..m
    BY <1>2, <2>1
  <2> QED
    BY <2>2, <2>3
<1>5. PICK S, ds : S = {d} /\ ds = cs
  OBVIOUS
<1>6. ds \in Seq(S) /\ Then(h, ds)
  BY <1>2, <1>5
<1>7. status'[h] = IF Len(ds) + Len(work[h]) - 1 = 0 THEN 200 ELSE Serving
  BY <1>6, ThenEnds
<1> QED
  BY <1>2, <1>3, <1>4, <1>5, <1>7

Entries(s) == \A q \in DOMAIN s : IsEntry(s[q])

(* The part of AtBody that does not change with the write.                 *)
LEMMA AtBodyNext ==
  ASSUME NEW h, req'[h] = req[h], before'[h] = before[h], Len(work'[h]) = 1,
         NEW c, c = work'[h][1], c.act = "body", c.to = req[h].path,
         c.n \in 0..req[h].len, MaxBody > 0 => c.n <= MaxBody,
         req[h].path \in DOMAIN Nodes(h)', Nodes(h)'[req[h].path].id = c.tf.id,
         \A a \in Ancestors(req[h].path) : a \in DOMAIN before[h] => before[h][a].dir,
         req[h].path \in DOMAIN before[h] => ~before[h][req[h].path].dir,
         Agree(req[h], Part(h)', WithFile(h, Begun(h, c.n)))
  PROVE  AtBody(h)'
<1>1. Agree(req[h], Part(h), WithFile(h, Begun(h, c.n)))'
  <2>1. WithFile(h, Begun(h, c.n))' = WithFile(h, Begun(h, c'.n))
    BY DEF WithFile, Begun, Built
  <2> QED
    BY <2>1 DEF Agree, About
<1> QED
  BY <1>1 DEF AtBody

(* Creating the file of a put takes it one step further, or ends it as the *)
(* contract says.                                                          *)
LEMMA CreateAlone ==
  ASSUME Inv, Stored, NEW h \in Handlers, status[h] = Serving, req[h] \in Requests, FreeIds # {},
         Closed(before[h]), Entries(before[h]),
         MakesAsTold(h, "put"), AtDirs(h, "put"), ToMake(work[h], "put") = 0,
         Step(h), req' = req, before'[h] = before[h]
  PROVE  IF status'[h] = Serving THEN MkWay(h, "put")' ELSE IsAlone(h)'
<1> DEFINE r == req[h]
           s == before[h]
           p == r.path
           A == Ancestors(p)
           w == work[h]
<1>1. PICK c : c = w[1]
  OBVIOUS
<1>2. WorkInv /\ TreeInv /\ Safe(c)
  BY <1>1, FirstCall DEF Inv
<1>3. Len(w) = 1 /\ c = Call("create", p, p)
  <2>1. 1 \in DOMAIN w /\ w \in Seq({w[i] : i \in DOMAIN w})
    BY HasWork DEF Inv, WorkInv, SafeWork
  <2>2. Len(w) \in Nat /\ Len(w) - 1 = 0
    BY <2>1 DEF ToMake
  <2>3. ToMake(w, "put") + 1 = 1
    OBVIOUS
  <2>4. w[ToMake(w, "put") + 1] = Call("create", p, p)
    BY DEF AtDirs
  <2> QED
    BY <1>1, <2>2, <2>3, <2>4
<1>4. /\ c.act = "create" /\ c.to = p /\ c.n = 0
      /\ \A d : LET e == [c EXCEPT !.act = "body", !.tf = d]
                IN e.act = "body" /\ e.to = p /\ e.n = 0 /\ e.tf = d
  BY <1>3 DEF Call
<1>5. p \in Path /\ r.len \in Nat /\ MaxBody \in Nat
  BY HtFileAssumption
<1>6. /\ \A a \in A : a \in DOMAIN s => s[a].dir
      /\ Agree(r, Part(h), Built(s, A))
  <2>1. Unmade(w, "put") = {}
    BY DEF Unmade
  <2>2. A \ Unmade(w, "put") = A
    BY <2>1
  <2> QED
    BY <2>2 DEF AtDirs, HomeDirs
<1>7. PICK b : b = Built(s, A)
  OBVIOUS
<1>8. /\ \A q : q \in DOMAIN b <=> q \in DOMAIN s \/ q \in A
      /\ \A q \in DOMAIN s : b[q] = s[q]
      /\ \A q \in A : q \notin DOMAIN s => b[q] = NewDir
  BY <1>7, BuiltIs
<1>9. p \notin A
  BY <1>5, BelowIsLonger, AncestorsOfPath DEF Below
<1>10. About(r, p) /\ \A a \in A : About(r, a)
  BY AboutPath
<1>11. ~Contract!InFile(b, p) /\ ~Contract!Homeless(b, p)
  <2>1. NewDir.dir = TRUE
    BY DEF NewDir, Contract!New
  <2> QED
    BY <1>6, <1>8, <2>1, SamePaths DEF Contract!InFile, Contract!Homeless, Contract!File
<1>12. /\ p \in DOMAIN tree <=> p \in DOMAIN s
       /\ p \in DOMAIN tree => s[p] = Part(h)[p] /\ s[p].dir = tree[p].dir
       /\ ParentError(tree, p) = "ok"
  <2> HIDE DEF p, r, s, A
  <2>1. Agree(req[h], Part(h), b) /\ About(req[h], p) /\ \A a \in Ancestors(p) : About(req[h], a)
    BY <1>6, <1>7, <1>10 DEF r, A
  <2>2. /\ p \in DOMAIN tree <=> p \in DOMAIN b
        /\ p \in DOMAIN tree => b[p] = Part(h)[p] /\ b[p].dir = tree[p].dir
        /\ ParentError(tree, p) = IF Contract!InFile(b, p) THEN "ENOTDIR"
                                   ELSE IF Contract!Homeless(b, p) THEN "ENOENT" ELSE "ok"
    BY <2>1, ParentIs
  <2> QED
    BY <1>8, <1>9, <1>11, <2>2
<1>13. PutCreate(h, c)
  BY <1>1, <1>4, WhichAction DEF Writing
<1>14. CASE p \in DOMAIN s /\ s[p].dir
  <2>1. CreationError(p) = "EISDIR"
    BY <1>12, <1>14 DEF CreationError, CreateError
  <2>2. Fails(h, CreationError(p))
    BY <1>4, <1>13, <2>1 DEF PutCreate, Create
  <2>3. status'[h] = 404 /\ UNCHANGED fs
    BY <1>2, <2>1, <2>2, AnswerIs DEF StatusOf
  <2>4. Result(h) = Contract!Is(404, s)
    BY <1>6, <1>14, SamePaths DEF MakesAsTold, Contract!Put, Contract!InFile, Contract!File, Contract!Dir
  <2>5. \A q : (q \in DOMAIN b <=> q \in DOMAIN s) /\ (q \in DOMAIN s => b[q] = s[q])
    BY <1>8, <1>14 DEF Closed
  <2>6. Agree(r, Part(h)', s)
    <3>1. Part(h)' = Part(h)
      BY <2>3, PartStays
    <3>2. Agree(r, Part(h), b)
      BY <1>6, <1>7
    <3> HIDE DEF r, s
    <3> QED
      BY <2>5, <3>1, <3>2 DEF Agree
  <2> QED
    BY <2>3, <2>4, <2>6, AnsweredAs DEF Serving
<1>15. CASE ~(p \in DOMAIN s /\ s[p].dir)
  <2>1. CreationError(p) = "ok"
    BY <1>12, <1>15 DEF CreationError, CreateError, OrNoSpace
  <2>2. PICK d : d = [c EXCEPT !.act = "body", !.tf = Created(p)]
    OBVIOUS
  <2>3. Create(p) /\ Then(h, <<d>>)
    BY <1>4, <1>13, <2>1, <2>2 DEF PutCreate, Fails
  <2>4. PICK e : e = IF p \in DOMAIN Part(h) THEN [Part(h)[p] EXCEPT !.data = <<>>] ELSE NewFile
    OBVIOUS
  <2>5. Sets(h, p, e) /\ p \in DOMAIN Part(h)' /\ Nodes(h)'[p].id = Created(p).id
    BY <1>2, <1>10, <2>3, <2>4, CreateSets DEF NewFile
  <2>6. p \in DOMAIN Nodes(h)'
    BY <2>5, PartIs, PartBecomes DEF Part, Nodes
  <2>7. e = Begun(h, 0)
    <3>1. p \in DOMAIN Part(h) <=> p \in DOMAIN s
      BY <1>10, <1>12, PartIs
    <3>2. CASE p \in DOMAIN s
      <4>1. PICK x : x = s[p]
        OBVIOUS
      <4>2. IsEntry(x) /\ x.dir = FALSE /\ e = [x EXCEPT !.data = <<>>]
        <5>1. Part(h)[p].dir = tree[p].dir /\ ~tree[p].dir
          BY <1>10, <1>12, <1>15, <3>1, <3>2, PartIs
        <5> QED
          BY <1>12, <2>4, <3>1, <3>2, <4>1, <5>1 DEF Entries
      <4>3. e = [dir |-> FALSE, mode |-> x.mode, owner |-> x.owner, group |-> x.group, data |-> <<>>]
        BY <4>2 DEF IsEntry
      <4> QED
        BY <3>2, <4>1, <4>3, SentGrows DEF Begun, Sent
    <3>3. CASE p \notin DOMAIN s
      <4>1. e = NewFile
        BY <2>4, <3>1, <3>3
      <4>2. e = [dir |-> FALSE, mode |-> e.mode, owner |-> e.owner, group |-> e.group, data |-> <<>>]
        BY <4>1 DEF NewFile, Contract!New
      <4> QED
        BY <3>3, <4>1, <4>2, SentGrows DEF Begun, Sent
    <3> QED
      BY <3>2, <3>3
  <2>8. PICK t : t = WithFile(h, Begun(h, 0))
    OBVIOUS
  <2>9. Agree(r, Part(h)', t)
    <3>1. /\ \A q : q \in DOMAIN t <=> q \in DOMAIN b \/ q = p
          /\ \A q \in DOMAIN b : q # p => t[q] = b[q]
          /\ t[p] = e
      BY <1>7, <2>7, <2>8, WithFileIs
    <3>2. Agree(r, Part(h), b)
      BY <1>6, <1>7
    <3> HIDE DEF s, p, r
    <3> QED
      BY <1>10, <2>5, <3>1, <3>2, SetsMakes DEF r
  <2>10. Len(work'[h]) = 1 /\ work'[h][1] = d /\ status'[h] = Serving
    BY <1>2, <1>3, <2>3, ThenOne
  <2>11. d.act = "body" /\ d.to = p /\ d.n = 0 /\ d.tf = Created(p)
    BY <1>4, <2>2
  <2>12. AtBody(h)'
    BY <1>5, <1>6, <1>15, <2>5, <2>6, <2>8, <2>9, <2>10, <2>11, AtBodyNext
  <2> QED
    BY <2>10, <2>12 DEF MkWay
<1> QED
  BY <1>14, <1>15

(* Writing a piece of the body takes a put one step further, or ends it as *)
(* the contract says.                                                      *)
LEMMA BodyAlone ==
  ASSUME Inv, Stored, NEW h \in Handlers, status[h] = Serving, req[h] \in Requests,
         Entries(before[h]), MakesAsTold(h, "put"), AtBody(h),
         Step(h), req' = req, before'[h] = before[h]
  PROVE  IF status'[h] = Serving THEN MkWay(h, "put")' ELSE IsAlone(h)'
<1> DEFINE r == req[h]
           s == before[h]
           p == r.path
           w == work[h]
<1>1. PICK c : c = w[1]
  OBVIOUS
<1>2. WorkInv /\ TreeInv /\ Safe(c)
  BY <1>1, FirstCall DEF Inv
<1>3. PICK n : n = c.n
  OBVIOUS
<1>4. /\ Len(w) = 1 /\ c.act = "body" /\ c.to = p
      /\ n \in 0..r.len /\ (MaxBody > 0 => n <= MaxBody)
      /\ p \in DOMAIN Nodes(h) /\ Nodes(h)[p].id = c.tf.id
      /\ \A a \in Ancestors(p) : a \in DOMAIN s => s[a].dir
      /\ p \in DOMAIN s => ~s[p].dir
      /\ Agree(r, Part(h), WithFile(h, Begun(h, n)))
  BY <1>1, <1>3 DEF AtBody
<1>5. r.len \in Nat /\ MaxBody \in Nat /\ n \in Nat
  BY <1>4, HtFileAssumption
<1>6. About(r, p)
  BY AboutPath
<1> DEFINE fits == MaxBody = 0 \/ r.len < MaxBody
<1>7. Result(h) = Contract!Is(IF fits THEN 200 ELSE 413,
                              WithFile(h, Begun(h, IF fits THEN r.len ELSE MaxBody)))
  BY <1>4, PutIs DEF Entries
<1>8. PutBody(h, c)
  BY <1>1, <1>4, WhichAction DEF Writing
<1>9. ASSUME UNCHANGED fs PROVE Agree(r, Part(h)', WithFile(h, Begun(h, n)))
  BY <1>4, <1>9, PartStays
<1>10. CASE MaxBody > 0 /\ n >= MaxBody /\ Answer(h, 413)
  <2>1. status'[h] = 413 /\ UNCHANGED fs
    BY <1>2, <1>10, AnswerIs
  <2>2. n = MaxBody /\ ~fits
    BY <1>4, <1>5, <1>10
  <2> HIDE DEF fits
  <2>3. Result(h) = Contract!Is(413, WithFile(h, Begun(h, n)))
    BY <1>7, <2>2
  <2> QED
    BY <1>9, <2>1, <2>3, AnsweredAs DEF Serving
<1>11. CASE ~(MaxBody > 0 /\ n >= MaxBody) /\ n = r.len /\ Continue(h, <<>>)
  <2>1. status'[h] = 200 /\ UNCHANGED fs
    <3>1. PICK cs : cs = <<>>
      OBVIOUS
    <3>2. cs \in Seq({}) /\ Len(cs) = 0 /\ Then(h, cs) /\ UNCHANGED fs
      BY <1>11, <3>1 DEF Continue
    <3>3. status'[h] = IF Len(cs) + Len(w) - 1 = 0 THEN 200 ELSE Serving
      BY <1>2, <3>2, ThenEnds
    <3> HIDE DEF w
    <3> QED
      BY <1>4, <3>2, <3>3
  <2>2. fits
    BY <1>5, <1>11
  <2> HIDE DEF fits
  <2>3. Result(h) = Contract!Is(200, WithFile(h, Begun(h, n)))
    BY <1>7, <1>11, <2>2
  <2> QED
    BY <1>9, <2>1, <2>3, AnsweredAs DEF Serving
<1>12. CASE /\ ~(MaxBody > 0 /\ n >= MaxBody) /\ n < r.len
            /\ Write(c.tf, n, <<<<h, n + 1>>>>) /\ Then(h, <<[c EXCEPT !.n = @ + 1]>>)
  <2>1. PICK d : d = [c EXCEPT !.n = @ + 1]
    OBVIOUS
  <2>2. d.act = "body" /\ d.to = p /\ d.n = n + 1 /\ d.tf = c.tf
    BY <1>2, <1>3, <1>4, <2>1 DEF Safe
  <2>3. Len(work'[h]) = 1 /\ work'[h][1] = d /\ status'[h] = Serving
    BY <1>2, <1>4, <1>12, <2>1, ThenOne
  <2>4. PICK b : b = Built(s, Ancestors(p))
    OBVIOUS
  <2>5. PICK t : t = WithFile(h, Begun(h, n))
    OBVIOUS
  <2>6. PICK u : u = WithFile(h, Begun(h, n + 1))
    OBVIOUS
  <2>7. /\ \A q : q \in DOMAIN t <=> q \in DOMAIN b \/ q = p
        /\ \A q \in DOMAIN b : q # p => t[q] = b[q]
        /\ t[p] = Begun(h, n)
    BY <2>4, <2>5, WithFileIs
  <2>8. /\ \A q : q \in DOMAIN u <=> q \in DOMAIN b \/ q = p
        /\ \A q \in DOMAIN b : q # p => u[q] = b[q]
        /\ u[p] = Begun(h, n + 1)
    BY <2>4, <2>6, WithFileIs
  <2>9. p \in DOMAIN Part(h) /\ Part(h)[p] = Begun(h, n)
    BY <1>4, <1>6, <2>5, <2>7, PartIs DEF Agree
  <2>10. p \in DOMAIN tree /\ ~tree[p].dir /\ c.tf.id = tree[p].id
    <3>1. Begun(h, n).dir = FALSE
      BY DEF Begun
    <3> QED
      BY <1>4, <2>9, <3>1, PartIs
  <2>11. PICK e : e = [Part(h)[p] EXCEPT !.data = Written(Part(h)[p].data, n, <<<<h, n + 1>>>>)]
    OBVIOUS
  <2>12. e = Begun(h, n + 1)
    <3>1. Written(Sent(h, n), n, <<<<h, n + 1>>>>) = Sent(h, n + 1)
      BY <1>5, SentGrows
    <3>2. Begun(h, n).data = Sent(h, n)
      BY DEF Begun, Sent
    <3>3. PICK g : g = Begun(h, n)
      OBVIOUS
    <3>4. e = [g EXCEPT !.data = Sent(h, n + 1)]
      BY <2>9, <2>11, <3>1, <3>2, <3>3
    <3> QED
      BY <3>3, <3>4 DEF Begun, Sent
  <2>13. Sets(h, p, e)
    BY <1>2, <1>6, <1>12, <2>10, <2>11, WriteSets
  <2>14. Agree(r, Part(h)', u)
    <3>1. Agree(r, Part(h), t)
      BY <1>4, <2>5
    <3>2. \A q : q \in DOMAIN u <=> q \in DOMAIN t \/ q = p
      BY <2>7, <2>8
    <3>3. \A q \in DOMAIN t : q # p => u[q] = t[q]
      BY <2>7, <2>8
    <3> HIDE DEF s, p, r
    <3> QED
      BY <1>6, <2>8, <2>12, <2>13, <3>1, <3>2, <3>3, SetsMakes DEF r
  <2>15. p \in DOMAIN Nodes(h)' /\ Nodes(h)'[p].id = c.tf.id
    <3>1. p \in DOMAIN Part(h)' /\ Nodes(h)'[p].id = Nodes(h)[p].id
      BY <1>6, <2>9, <2>13 DEF Sets
    <3>2. p \in DOMAIN Nodes(h)'
      BY <3>1 DEF Part, Nodes
    <3> QED
      BY <1>4, <3>1, <3>2
  <2>16. n + 1 \in 0..r.len /\ (MaxBody > 0 => n + 1 <= MaxBody)
    BY <1>5, <1>12
  <2>17. AtBody(h)'
    BY <1>4, <2>2, <2>3, <2>6, <2>14, <2>15, <2>16, AtBodyNext
  <2> QED
    BY <2>3, <2>17 DEF MkWay
<1> QED
  BY <1>3, <1>8, <1>10, <1>11, <1>12 DEF PutBody

(* What copies do, as the contract says: one after the other until one     *)
(* fails.                                                                  *)

CopiedTo(C, s, from, tos) ==
  /\ C[0] = Contract!Is(200, s)
  /\ \A i \in 1..Len(tos) : C[i] = IF C[i - 1].status = 200
                                   THEN Contract!Copy(C[i - 1].tree, from, tos[i]) ELSE C[i - 1]

(* The contract of a copy to many targets does one copy after the other,   *)
(* until one fails.                                                        *)
LEMMA CopiesAre ==
  ASSUME NEW s, NEW from, NEW tos \in Seq(Path)
  PROVE  CopiedTo(Contract!CopiesDone(s, from, tos), s, from, tos)
<1> DEFINE N == Len(tos)
           Does(f, i) == IF i = 0 THEN Contract!Is(200, s)
                         ELSE IF f[i - 1].status = 200 THEN Contract!Copy(f[i - 1].tree, from, tos[i])
                         ELSE f[i - 1]
           IsOn(f, n) == f = [i \in 0..n |-> f[i]]
           Runs(f, n) == /\ IsOn(f, n)
                         /\ \A i \in 0..n : f[i] = Does(f, i)
           Stuck == {n \in 0..N : ~ \E f : Runs(f, n)}
<1>0. N \in Nat
  OBVIOUS
<1>1. ASSUME NEW f, NEW n \in Nat, Runs(f, n)
      PROVE  \E g : Runs(g, n + 1)
  <2>1. PICK e : e = IF f[n].status = 200 THEN Contract!Copy(f[n].tree, from, tos[n + 1]) ELSE f[n]
    OBVIOUS
  <2>2. PICK g : g = [i \in 0..n + 1 |-> IF i = n + 1 THEN e ELSE f[i]]
    OBVIOUS
  <2>3. IsOn(g, n + 1) /\ g[n + 1] = e /\ \A i \in 0..n : g[i] = f[i]
    BY <2>2
  <2> HIDE DEF IsOn
  <2>4. \A i \in 0..n : g[i] = Does(g, i)
    <3> TAKE i \in 0..n
    <3>1. g[i] = Does(f, i) /\ (i # 0 => i - 1 \in 0..n)
      BY <1>1, <2>3
    <3> QED
      BY <2>3, <3>1
  <2>5. g[n + 1] = Does(g, n + 1)
    <3>1. n + 1 # 0 /\ n + 1 - 1 = n
      OBVIOUS
    <3> QED
      BY <2>1, <2>3, <3>1
  <2> HIDE DEF Does
  <2> QED
    BY <2>3, <2>4, <2>5
<1>2. \E f : Runs(f, 0)
  <2>1. PICK f : f = [i \in {0} |-> Contract!Is(200, s)]
    OBVIOUS
  <2>2. IsOn(f, 0) /\ f[0] = Contract!Is(200, s) /\ \A i \in 0..0 : i = 0
    BY <2>1
  <2> QED
    BY <2>2
<1> HIDE DEF Runs
<1>3. Stuck = {}
  <2> SUFFICES ASSUME Stuck # {} PROVE FALSE
    OBVIOUS
  <2>1. Stuck \in SUBSET Nat
    BY <1>0
  <2>2. PICK n \in Stuck : \A m \in Stuck : n <= m
    BY <2>1, Least
  <2>3. n \in Nat /\ n <= N /\ ~ \E f : Runs(f, n)
    BY <1>0
  <2>4. n # 0
    BY <1>2, <2>3
  <2>5. n - 1 \in Nat /\ n - 1 \in 0..N /\ n - 1 \notin Stuck /\ n - 1 + 1 = n
    BY <1>0, <2>2, <2>3, <2>4
  <2>6. PICK f : Runs(f, n - 1)
    BY <2>5
  <2> QED
    BY <1>1, <2>3, <2>5, <2>6
<1>4. PICK f : Runs(f, N)
  BY <1>0, <1>3
<1>5. f = [i \in 0..N |-> Does(f, i)]
  <2> HIDE DEF Does, N
  <2> QED
    BY <1>4 DEF Runs
<1>6. PICK C : C = Contract!CopiesDone(s, from, tos)
  OBVIOUS
<1>7. C = CHOOSE g : g = [i \in 0..N |-> Does(g, i)]
  BY <1>6, Zenon DEF Contract!CopiesDone
<1>8. C = [i \in 0..N |-> Does(C, i)]
  <2> HIDE DEF Does
  <2> QED
    BY <1>5, <1>7
<1> HIDE DEF N
<1>9. C[0] = Does(C, 0) /\ \A i \in 1..N : C[i] = Does(C, i)
  <2> HIDE DEF Does
  <2>1. 0 \in 0..N /\ \A i \in 1..N : i \in 0..N
    BY <1>0
  <2> QED
    BY <1>8, <2>1
<1>10. \A i \in 1..N : i # 0
  BY <1>0
<1> QED
  BY <1>6, <1>9, <1>10 DEF CopiedTo, N

(* What handler h has yet to copy: the calls after the first L are for the *)
(* targets after the first k.                                              *)
Rest(w, L, r, k) ==
  /\ Len(w) = L + Len(r.to) - k
  /\ \A i \in 1..Len(r.to) - k : w[L + i] = Call("copyTo", r.path, r.to[k + i])

Looked == {"lstat", "open", "copyDir", "copyFile"}

(* What an earlier call found, t being what is stored when the copy begins *)
(* and N the entries as they are.                                          *)
Knows(c, t, N) ==
  /\ c.act # "lstat" => /\ c.from \in DOMAIN t
                        /\ c.fi.dir = t[c.from].dir /\ c.fi.mode = t[c.from].mode
  /\ c.act \in {"copyDir", "list"} => t[c.from].dir
  /\ c.act \in {"copyFile", "copy"} => ~t[c.from].dir
  /\ c.act \in {"copyDir", "copyFile", "list", "copy"} =>
       c.from \in DOMAIN N /\ c.fd.id = N[c.from].id /\ c.fd.dir = t[c.from].dir
  /\ c.act = "copy" => c.to \in DOMAIN N /\ c.tf.id = N[c.to].id

Accepted(from, to) == Within(to, Root) /\ ~Within(from, to) /\ ~Within(to, from)

(* Whether the copy makes something new, as far as the tree tells.         *)
MakesNew(t, from, to) ==
  from \in DOMAIN t /\ to \notin DOMAIN t /\ ~Contract!Homeless(t, to) /\ ~Contract!InFile(t, to)

Emptied(t, to) == [t EXCEPT ![to].data = <<>>]
Filled(t, from, to) == [t EXCEPT ![to].data = t[from].data]

Chain(r, s) == Contract!CopiesDone(s, r.path, r.to)

(* Between two copies.                                                     *)
Between(w, r, s, v, k) ==
  LET C == Chain(r, s)
  IN /\ k < Len(r.to) /\ Rest(w, 0, r, k) /\ C[k].status = 200 /\ Agree(r, v, C[k].tree)

(* In a copy over what is there, or one that is going to fail.             *)
Onto(w, r, s, v, N, k) ==
  LET C == Chain(r, s)
      c == w[1]
      t == C[k - 1].tree
      from == r.path
      to == r.to[k]
  IN /\ Rest(w, 1, r, k) /\ C[k - 1].status = 200
     /\ c.from = from /\ c.to = to /\ Accepted(from, to) /\ ~MakesNew(t, from, to)
     /\ Knows(c, t, N)
     /\ \/ c.act \in Looked /\ Agree(r, v, t)
        \/ /\ c.act \in {"copy", "chmod"}
           /\ from \in DOMAIN t /\ ~t[from].dir /\ to \in DOMAIN t /\ ~t[to].dir
           /\ ~Contract!Homeless(t, to) /\ ~Contract!InFile(t, to)
           /\ Agree(r, v, IF c.act = "copy" THEN Emptied(t, to) ELSE Filled(t, from, to))

(* In a copy to where nothing is: what a call is going to make, and what   *)
(* is made but not as it is going to be.                                   *)
WillMake(c, p) == (c.act \in Looked /\ Within(p, c.from)) \/ (c.act = "list" /\ Below(p, c.from))
WillAlter(c, p) == c.act \in {"list", "copy", "chmod"} /\ p = c.from
Todo(c, p) == WillMake(c, p) \/ WillAlter(c, p)

Uncopied(w, L) == {p \in Path : \E i \in 1..L : WillMake(w[i], p)}
Altered(w, L) == {p \in Path : \E i \in 1..L : WillAlter(w[i], p)}
Blank(w, L) == {p \in Path : \E i \in 1..L : w[i].act = "copy" /\ p = w[i].from}

Apart(w, L) == \A i, j \in 1..L : \A p \in Path : Todo(w[i], p) /\ Todo(w[j], p) => i = j

MadeOf(e, p, M, E) ==
  [dir |-> e.dir, mode |-> IF p \in M THEN "default" ELSE e.mode, owner |-> Me, group |-> MyGroup,
   data |-> IF p \in E THEN <<>> ELSE e.data]

(* What is there of the copy when the paths U are not made, M have not     *)
(* their mode, and E not their content.                                    *)
Partly(r, t, from, to, v, U, M, E) ==
  /\ \A q : About(r, q) /\ ~Within(q, to) => /\ q \in DOMAIN v <=> q \in DOMAIN t
                                             /\ q \in DOMAIN v => v[q] = t[q]
  /\ \A q \in DOMAIN t : ~Within(q, to)
  /\ \A p \in DOMAIN t : Within(p, from) =>
       LET q == Rebased(p, from, to)
       IN /\ q \in DOMAIN v <=> p \notin U
          /\ q \in DOMAIN v => v[q] = MadeOf(t[p], p, M, E)
  /\ \A q \in DOMAIN v : Within(q, to) => Lands(t, from, to, q)

CallsFor(w, L, t, from, to) ==
  \A i \in 1..L :
    LET c == w[i]
    IN /\ c.from \in DOMAIN t /\ Within(c.from, from) /\ c.to = Rebased(c.from, from, to)
       /\ c.act \in Looked \cup {"list", "copy", "chmod"}
       /\ i > 1 => c.act \in {"lstat", "chmod"}

Under(w, r, s, v, N, k, L) ==
  LET C == Chain(r, s)
      t == C[k - 1].tree
      from == r.path
      to == r.to[k]
  IN /\ Rest(w, L, r, k) /\ C[k - 1].status = 200
     /\ Accepted(from, to) /\ MakesNew(t, from, to)
     /\ CallsFor(w, L, t, from, to) /\ Apart(w, L) /\ \A i \in 1..L : Knows(w[i], t, N)
     /\ Partly(r, t, from, to, v, Uncopied(w, L), Altered(w, L), Blank(w, L))

CopyIsAt(w, r, s, v, N) ==
  \/ \E k \in 0..Len(r.to) : Between(w, r, s, v, k)
  \/ \E k \in 1..Len(r.to) : Onto(w, r, s, v, N, k)
  \/ \E k \in 1..Len(r.to), L \in Nat \ {0} : Under(w, r, s, v, N, k, L)

CopyWay(h) == CopyIsAt(work[h], req[h], before[h], Part(h), Nodes(h))

(* How far a copy has got, in the next state.                              *)
LEMMA CopyWayNext ==
  ASSUME NEW h, req'[h] = req[h], before'[h] = before[h]
  PROVE  CopyWay(h)' <=> CopyIsAt(work'[h], req[h], before[h], Part(h)', Nodes(h)')
<1>1. \A r, s, w, v, N : r = req[h] /\ s = before[h] =>
        (CopyIsAt(w, r, s, v, N) <=> CopyIsAt(w, req[h], before[h], v, N))
  OBVIOUS
<1>2. CopyWay(h)' <=> CopyIsAt(work'[h], req'[h], before'[h], Part(h)', Nodes(h)')
  BY DEF CopyWay
<1> QED
  BY <1>1, <1>2

(* After a copy has failed nothing is copied.                              *)
LEMMA NoneAfter ==
  ASSUME NEW C, NEW s, NEW from, NEW tos \in Seq(Path), CopiedTo(C, s, from, tos),
         NEW k \in 0..Len(tos), C[k].status # 200
  PROVE  C[Len(tos)] = C[k]
<1> DEFINE N == Len(tos)
           Others == {j \in k..N : C[j] # C[k]}
<1>0. N \in Nat /\ k \in Nat /\ k <= N
  OBVIOUS
<1> HIDE DEF N
<1>1. Others = {}
  <2> SUFFICES ASSUME Others # {} PROVE FALSE
    OBVIOUS
  <2>1. Others \in SUBSET Nat
    BY <1>0
  <2>2. PICK j \in Others : \A i \in Others : j <= i
    BY <2>1, Least
  <2>3. j \in Nat /\ j <= N /\ k <= j /\ C[j] # C[k]
    BY <1>0
  <2>4. j # k
    BY <2>3
  <2>5. j - 1 \in k..N /\ j - 1 \notin Others /\ j \in 1..N
    BY <1>0, <2>2, <2>3, <2>4
  <2>6. C[j - 1] = C[k]
    BY <2>5
  <2> QED
    BY <2>3, <2>5, <2>6 DEF CopiedTo, N
<1> QED
  BY <1>0, <1>1 DEF N

(* A copy that is done, and one that fails.                                *)
LEMMA CopyEnds ==
  ASSUME NEW h \in Handlers, req' = req, before'[h] = before[h], req[h].to \in Seq(Path),
         Result(h) = Contract!Copies(before[h], req[h].path, req[h].to),
         NEW k \in 1..Len(req[h].to), NEW u, Chain(req[h], before[h])[k] = Contract!Is(200, u),
         Agree(req[h], Part(h)', u), Rest(work'[h], 0, req[h], k),
         status'[h] = IF Len(req[h].to) - k = 0 THEN 200 ELSE Serving
  PROVE  IF status'[h] = Serving THEN CopyWay(h)' ELSE IsAlone(h)'
<1>1. CASE k = Len(req[h].to)
  <2>1. Result(h) = Contract!Is(status'[h], u) /\ status'[h] = 200
    BY <1>1 DEF Contract!Copies, Chain
  <2> QED
    BY <2>1, AnsweredAs DEF Serving
<1>2. CASE k # Len(req[h].to)
  <2>1. k \in Nat /\ Len(req[h].to) \in Nat /\ k < Len(req[h].to) /\ status'[h] = Serving
        /\ k \in 0..Len(req[h].to)
    BY <1>2
  <2>2. Between(work'[h], req[h], before[h], Part(h)', k)
    BY <2>1, ContractIs DEF Between
  <2> QED
    BY <2>1, <2>2, CopyWayNext DEF CopyIsAt
<1> QED
  BY <1>1, <1>2

(* A copy whose step to one target fails is answered as the contract says, *)
(* whatever targets are left.                                              *)
LEMMA CopyStops ==
  ASSUME NEW h \in Handlers, req' = req, before'[h] = before[h], req[h].to \in Seq(Path),
         Result(h) = Contract!Copies(before[h], req[h].path, req[h].to),
         NEW k \in 1..Len(req[h].to), NEW u, Agree(req[h], Part(h)', u),
         Chain(req[h], before[h])[k] = Contract!Is(status'[h], u), status'[h] \notin {200, Serving}
  PROVE  IF status'[h] = Serving THEN CopyWay(h)' ELSE IsAlone(h)'
<1>1. CopiedTo(Chain(req[h], before[h]), before[h], req[h].path, req[h].to)
  BY CopiesAre DEF Chain
<1>2. Chain(req[h], before[h])[k].status # 200 /\ k \in 0..Len(req[h].to)
  BY ContractIs
<1>3. Result(h) = Contract!Is(status'[h], u)
  BY <1>1, <1>2, NoneAfter DEF Contract!Copies, Chain
<1> QED
  BY <1>3, AnsweredAs

(* The calls w2 after the first of w became the m calls cs.                *)
Replaced(w, L, cs, m, w2) ==
  /\ \A i \in 1..m : w2[i] = cs[i]
  /\ \A i \in 2..L : w2[i - 1 + m] = w[i]

(* The calls for the targets after the first k stay.                       *)
Onwards(w2, code, w, L, cs, m, r, k) ==
  /\ Replaced(w, L, cs, m, w2) /\ Rest(w2, L - 1 + m, r, k)
  /\ code = IF L - 1 + m + Len(r.to) - k = 0 THEN 200 ELSE Serving

(* The targets that are left stay, behind the calls for the present one.   *)
LEMMA RestGoes ==
  ASSUME WorkInv, NEW h \in Handlers, status[h] = Serving, NEW S, NEW cs \in Seq(S), Then(h, cs),
         NEW r, r.to \in Seq(Path), NEW k \in 0..Len(r.to), NEW L \in Nat \ {0}, Rest(work[h], L, r, k)
  PROVE  Onwards(work'[h], status'[h], work[h], L, cs, Len(cs), r, k)
<1>1. PICK m : m = Len(cs)
  OBVIOUS
<1>2. PICK n : n = Len(r.to) - k
  OBVIOUS
<1>3. PICK w : w = work'[h]
  OBVIOUS
<1>4. m \in Nat /\ n \in Nat /\ Len(work[h]) = L + n /\ Len(r.to) \in Nat /\ k \in Nat
  BY <1>1, <1>2 DEF Rest
<1>5. Len(w) = m + L + n - 1 /\ status'[h] = IF m + L + n - 1 = 0 THEN 200 ELSE Serving
  <2>1. Len(w) = m + Len(work[h]) - 1
    BY <1>1, <1>3, ThenIs
  <2>2. status'[h] = IF m + Len(work[h]) - 1 = 0 THEN 200 ELSE Serving
    BY <1>1, ThenEnds
  <2>3. m + Len(work[h]) - 1 = m + L + n - 1
    BY <1>4
  <2> QED
    BY <2>1, <2>2, <2>3
<1>6. \A i \in 1..m : w[i] = cs[i]
  BY <1>1, <1>3, ThenIs
<1>7. \A i \in 2..L + n : w[i - 1 + m] = work[h][i]
  <2>1. \A i \in 2..Len(work[h]) : w[i - 1 + m] = work[h][i]
    BY <1>1, <1>3, ThenRest
  <2> QED
    BY <1>4, <2>1
<1>8. \A i \in 1..n : w[L - 1 + m + i] = Call("copyTo", r.path, r.to[k + i])
  <2> TAKE i \in 1..n
  <2>1. L + i \in 2..L + n /\ L + i - 1 + m = L - 1 + m + i
    BY <1>4
  <2>2. work[h][L + i] = Call("copyTo", r.path, r.to[k + i])
    BY <1>2 DEF Rest
  <2>3. w[L + i - 1 + m] = work[h][L + i]
    BY <1>7, <2>1
  <2> QED
    BY <2>1, <2>2, <2>3
<1>9. \A i \in 2..L : w[i - 1 + m] = work[h][i]
  BY <1>4, <1>7
<1>11. L - 1 + m + Len(r.to) - k = m + L + n - 1
  <2>1. \A x, a, b \in Int : L - 1 + a + x - b = a + L + (x - b) - 1
    OBVIOUS
  <2>2. PICK a : a = Len(r.to)
    OBVIOUS
  <2>3. a \in Int /\ m \in Int /\ k \in Int
    BY <1>4, <2>2
  <2>4. L - 1 + m + a - k = m + L + (a - k) - 1
    BY <2>1, <2>3
  <2> QED
    BY <1>2, <2>2, <2>4
<1>10. Rest(w, L - 1 + m, r, k)
  <2>1. Len(r.to) - k = n /\ L - 1 + m + Len(r.to) - k = m + L + n - 1
    BY <1>11, <1>2
  <2> QED
    BY <1>5, <1>8, <2>1 DEF Rest
<1>12. Replaced(work[h], L, cs, m, w)
  BY <1>3, <1>6, <1>9 DEF Replaced
<1>13. status'[h] = IF L - 1 + m + Len(r.to) - k = 0 THEN 200 ELSE Serving
  BY <1>5, <1>11
<1>14. Onwards(w, status'[h], work[h], L, cs, m, r, k)
  BY <1>10, <1>12, <1>13 DEF Onwards
<1> QED
  BY <1>1, <1>3, <1>14

(* Files contain units that were written or were there before.             *)
Contents == \A i \in Ids : data[i] \in Seq(Unit)

(* What is stored in the beginning are contents.                           *)
LEMMA ContentsInit == Init => Contents
BY InitialTreesAssumption DEF Init, Contents

(* Whatever step is made, files contain what was written to them.          *)
LEMMA ContentsStep ==
  ASSUME Inv, CallsInv, Contents, [Next]_vars
  PROVE  Contents'
<1> DEFINE empty == <<>>
<1>1. CASE data' = data
  BY <1>1 DEF Contents
<1>2. ASSUME NEW x, NEW v \in Seq(Unit), data' = [data EXCEPT ![x] = v] PROVE Contents'
  BY <1>2 DEF Contents, Inv, TreeInv
<1>3. ASSUME NEW x, data' = [data EXCEPT ![x] = <<>>] PROVE Contents'
  <2>1. data' = [data EXCEPT ![x] = empty] /\ empty \in Seq(Unit)
    BY <1>3
  <2> HIDE DEF empty
  <2> QED
    BY <1>2, <2>1
<1>4. ASSUME NEW f, NEW off \in Nat, NEW u \in Seq(Unit), Write(f, off, u) PROVE Contents'
  <2> DEFINE x == f.id
             v == Written(data[x], off, u)
  <2>1. data' = [data EXCEPT ![x] = v]
    BY <1>4 DEF Write
  <2>2. CASE x \in Ids
    <3>1. PICK content \in Seq(Unit) : content = data[x]
      BY <2>2 DEF Contents
    <3>2. PICK n \in Nat : Len(content) <= n /\ off + Len(u) <= n
      <4>1. Len(content) \in Nat /\ off + Len(u) \in Nat
        OBVIOUS
      <4>2. Len(content) <= Len(content) + off + Len(u) /\ off + Len(u) <= Len(content) + off + Len(u)
            /\ Len(content) + off + Len(u) \in Nat
        BY <4>1
      <4> QED
        BY <4>2
    <3>3. v \in Seq(Unit)
      BY <3>1, <3>2, WrittenWithin
    <3> HIDE DEF v, x
    <3> QED
      BY <1>2, <2>1, <3>3
  <2>3. CASE x \notin Ids
    <3> HIDE DEF v, x
    <3> QED
      BY <2>1, <2>3 DEF Contents, Inv, TreeInv
  <2> QED
    BY <2>2, <2>3
<1>5. ASSUME NEW h \in Handlers, status[h] = Serving, Step(h) \/ Fault(h, work[h][1])
      PROVE  Contents'
  <2> DEFINE c == work[h][1]
  <2>1. Safe(c) /\ Source(c)
    BY <1>5, HasWork, FirstCall DEF Inv, CallsInv
  <2>2. Writes(h, c) \/ Reads(h, c) \/ Fault(h, c)
    BY <1>5 DEF Step
  <2> HIDE DEF c
  <2>3. CASE PutBody(h, c)
    <3>1. CASE Write(c.tf, c.n, <<<<h, c.n + 1>>>>)
      <4>1. c.n \in Nat
        BY <2>1 DEF Safe
      <4> DEFINE u == <<<<h, c.n + 1>>>>
      <4>2. u \in Seq(Unit)
        BY <4>1 DEF Unit
      <4>3. Write(c.tf, c.n, u)
        BY <3>1
      <4> HIDE DEF u
      <4> QED
        BY <1>4, <4>1, <4>2, <4>3
    <3> QED
      BY <1>1, <2>3, <3>1 DEF PutBody, Answer, Continue, fs
  <2>4. CASE CopyData(h, c)
    <3>1. CASE Write(c.tf, 0, data[c.fd.id])
      <4>1. data[c.fd.id] \in Seq(Unit)
        BY <2>1, <2>4 DEF CopyData, Source, Contents
      <4> QED
        BY <1>4, <3>1, <4>1
    <3> QED
      BY <1>1, <2>4, <3>1 DEF CopyData, Fails, Answer, fs
  <2>5. CASE Mkdir(h, c) \/ PutCreate(h, c) \/ CopyDir(h, c) \/ CopyFile(h, c)
    BY <1>1, <1>3, <2>5 DEF Mkdir, PutCreate, CopyDir, CopyFile, MakeDir, Create, Fails,
       Answer, Continue, fs
  <2>6. CASE ~(PutBody(h, c) \/ CopyData(h, c) \/ Mkdir(h, c) \/ PutCreate(h, c)
               \/ CopyDir(h, c) \/ CopyFile(h, c))
    <3>1. data' = data
      <4>1. CASE Writes(h, c)
        BY <2>6, <4>1 DEF Writes, MkdirAll, Target, CopyLstat, CopyOpen, CopyList, CopyChmod,
           Chmod, Rename, RemoveAll, Rmdir, Removes, ModPropsLstat, SetMode, SetOwner,
           Fails, Answer, Continue, fs
      <4>2. CASE Reads(h, c)
        BY <4>2 DEF Reads, Props, GetOpen, GetStat, GetDir, GetFile, SearchLstat,
           Scan, Fails, Answer, Continue, fs
      <4>3. CASE Fault(h, c)
        BY <4>3 DEF Fault, Fails, Answer, Continue, fs
      <4> QED
        BY <2>2, <4>1, <4>2, <4>3
    <3> QED
      BY <1>1, <3>1
  <2> QED
    BY <2>3, <2>4, <2>5, <2>6
<1>6. CASE UNCHANGED vars \/ \E h \in Handlers : Receive(h) \/ Return(h)
  BY <1>1, <1>6 DEF vars, Receive, Return
<1> QED
  BY <1>5, <1>6 DEF Next, Step

---------------------------------------------------------------------------
(* What the contract says of one copy.                                     *)

Owned(e) == [e EXCEPT !.owner = Me, !.group = MyGroup]

CopiedTree(t, from, to) ==
  LET m == Contract!Moved(t, from, to) IN Contract!Added(t, [p \in DOMAIN m |-> Owned(m[p])])

FilledAs(t, from, to) == [Filled(t, from, to) EXCEPT ![to].mode = t[from].mode]

(* What the contract says of a copy to one target, case by case.           *)
LEMMA CopyIs ==
  ASSUME NEW t, NEW from, NEW to, NEW is, is = Contract!Copy(t, from, to)
  PROVE  is = IF ~Within(to, Root) THEN Contract!Is(404, t)
              ELSE IF Within(from, to) \/ Within(to, from) THEN Contract!Is(400, t)
              ELSE IF from \notin DOMAIN t THEN Contract!Is(Contract!NotFound(t, from), t)
              ELSE IF Contract!Homeless(t, to) \/ Contract!InFile(t, to)
                THEN Contract!Is(Contract!NotFound(t, to), t)
              ELSE IF to \notin DOMAIN t THEN Contract!Is(200, CopiedTree(t, from, to))
              ELSE IF t[from].dir THEN Contract!Is(500, t)
              ELSE IF t[to].dir THEN Contract!Is(404, t)
              ELSE IF Contract!Mine(t, to)
                THEN Contract!Is(200, FilledAs(t, from, to))
              ELSE Contract!Is(404, Filled(t, from, to))
<1>1. Contract!Within(to, Root) = Within(to, Root) /\ Contract!Within(to, from) = Within(to, from)
      /\ Contract!Within(from, to) = Within(from, to)
  BY SameTrees DEF Within, Contract!Within
<1>2. is = IF ~Contract!Within(to, Root) THEN Contract!Is(404, t)
           ELSE IF Contract!Within(from, to) \/ Contract!Within(to, from) THEN Contract!Is(400, t)
           ELSE IF from \notin DOMAIN t THEN Contract!Is(Contract!NotFound(t, from), t)
           ELSE IF Contract!Homeless(t, to) \/ Contract!InFile(t, to)
             THEN Contract!Is(Contract!NotFound(t, to), t)
           ELSE IF to \notin DOMAIN t THEN Contract!Is(200, CopiedTree(t, from, to))
           ELSE IF Contract!Dir(t, from) THEN Contract!Is(500, t)
           ELSE IF Contract!Dir(t, to) THEN Contract!Is(404, t)
           ELSE IF Contract!Mine(t, to)
             THEN Contract!Is(200, FilledAs(t, from, to))
           ELSE Contract!Is(404, Filled(t, from, to))
  BY Zenon DEF Contract!Copy, CopiedTree, Owned, Filled, FilledAs
<1>3. from \in DOMAIN t => (Contract!Dir(t, from) <=> t[from].dir)
  BY DEF Contract!Dir
<1>4. to \in DOMAIN t => (Contract!Dir(t, to) <=> t[to].dir)
  BY DEF Contract!Dir
<1> DEFINE A == Contract!Is(200, CopiedTree(t, from, to))
           B == Contract!Is(200, FilledAs(t, from, to))
           D == Contract!Is(404, Filled(t, from, to))
           G == Contract!Is(Contract!NotFound(t, from), t)
           H == Contract!Is(Contract!NotFound(t, to), t)
<1>5. is = IF ~Contract!Within(to, Root) THEN Contract!Is(404, t)
           ELSE IF Contract!Within(from, to) \/ Contract!Within(to, from) THEN Contract!Is(400, t)
           ELSE IF from \notin DOMAIN t THEN G
           ELSE IF Contract!Homeless(t, to) \/ Contract!InFile(t, to) THEN H
           ELSE IF to \notin DOMAIN t THEN A
           ELSE IF Contract!Dir(t, from) THEN Contract!Is(500, t)
           ELSE IF Contract!Dir(t, to) THEN Contract!Is(404, t)
           ELSE IF Contract!Mine(t, to) THEN B ELSE D
  BY <1>2
<1> HIDE DEF A, B, D, G, H
<1>6. is = IF ~Within(to, Root) THEN Contract!Is(404, t)
           ELSE IF Within(from, to) \/ Within(to, from) THEN Contract!Is(400, t)
           ELSE IF from \notin DOMAIN t THEN G
           ELSE IF Contract!Homeless(t, to) \/ Contract!InFile(t, to) THEN H
           ELSE IF to \notin DOMAIN t THEN A
           ELSE IF t[from].dir THEN Contract!Is(500, t)
           ELSE IF t[to].dir THEN Contract!Is(404, t)
           ELSE IF Contract!Mine(t, to) THEN B ELSE D
  BY <1>1, <1>3, <1>4, <1>5
<1> QED
  BY <1>6 DEF A, B, D, G, H

(* What is stored after a copy to a new target, path by path.              *)
LEMMA CopiedIs ==
  ASSUME NEW t, NEW from, NEW to, NEW u, u = CopiedTree(t, from, to)
  PROVE  \A q : /\ q \in DOMAIN u <=> q \in DOMAIN t \/ Lands(t, from, to, q)
                /\ Lands(t, from, to, q) => u[q] = Owned(t[Rebased(q, to, from)])
                /\ q \in DOMAIN u /\ ~Lands(t, from, to, q) => u[q] = t[q]
<1>1. PICK m : m = Contract!Moved(t, from, to)
  OBVIOUS
<1>2. /\ \A q : q \in DOMAIN m <=> Lands(t, from, to, q)
      /\ \A q \in DOMAIN m : m[q] = t[Rebased(q, to, from)]
  BY <1>1, SameTrees DEF Contract!Moved, Lands
<1>3. PICK o : o = [p \in DOMAIN m |-> Owned(m[p])]
  OBVIOUS
<1>4. DOMAIN u = DOMAIN t \cup DOMAIN o
      /\ \A q \in DOMAIN u : u[q] = IF q \in DOMAIN o THEN o[q] ELSE t[q]
  BY <1>1, <1>3 DEF Contract!Added, CopiedTree
<1>5. DOMAIN o = DOMAIN m /\ \A q \in DOMAIN m : o[q] = Owned(m[q])
  BY <1>3
<1> QED
  BY <1>2, <1>4, <1>5

(* Calls that take over what the call c has to do.                         *)
TakesOver(c, cs, m, t, from, to, N) ==
  /\ \A i \in 1..m :
       /\ cs[i].from \in DOMAIN t /\ Within(cs[i].from, from)
       /\ cs[i].to = Rebased(cs[i].from, from, to)
       /\ cs[i].act \in Looked \cup {"list", "copy", "chmod"}
       /\ i > 1 => cs[i].act \in {"lstat", "chmod"}
       /\ Knows(cs[i], t, N)
       /\ \A p \in Path : Todo(cs[i], p) => Todo(c, p)
  /\ \A i, j \in 1..m : \A p \in Path : Todo(cs[i], p) /\ Todo(cs[j], p) => i = j

Calls(w, L, t, from, to, N) ==
  CallsFor(w, L, t, from, to) /\ Apart(w, L) /\ \A i \in 1..L : Knows(w[i], t, N)

(* When the first call is replaced by others, a call is one of those or    *)
(* one of the rest.                                                        *)
LEMMA WhichOfReplaced ==
  ASSUME NEW L \in Nat \ {0}, NEW m \in Nat, NEW w, NEW cs, NEW w2, Replaced(w, L, cs, m, w2),
         NEW i \in 1..L - 1 + m
  PROVE  \/ i \in 1..m /\ w2[i] = cs[i]
         \/ i - m + 1 \in 2..L /\ w2[i] = w[i - m + 1]
<1>1. CASE i <= m
  BY <1>1 DEF Replaced
<1>2. CASE ~(i <= m)
  <2>1. i - m + 1 \in 2..L /\ i - m + 1 - 1 + m = i
    BY <1>2
  <2> QED
    BY <2>1 DEF Replaced
<1> QED
  BY <1>1, <1>2

(* Calls that take over what the first one had to do are the calls of a    *)
(* copy again.                                                             *)
LEMMA CallsGo ==
  ASSUME NEW L \in Nat \ {0}, NEW m \in Nat, NEW w, NEW cs, NEW w2, Replaced(w, L, cs, m, w2),
         NEW t, NEW from, NEW to, NEW N, NEW N2, Calls(w, L, t, from, to, N),
         TakesOver(w[1], cs, m, t, from, to, N2)
  PROVE  Calls(w2, L - 1 + m, t, from, to, N2)
<1> DEFINE ofNew(i) == i \in 1..m /\ w2[i] = cs[i]
           ofOld(i) == i - m + 1 \in 2..L /\ w2[i] = w[i - m + 1]
<1>1. \A i \in 1..L - 1 + m : ofNew(i) \/ ofOld(i)
  BY WhichOfReplaced
<1>2. 1 \in 1..L /\ \A j \in 2..L : j \in 1..L /\ j > 1 /\ j # 1
  OBVIOUS
<1>3. CallsFor(w2, L - 1 + m, t, from, to)
  <2> SUFFICES ASSUME NEW i \in 1..L - 1 + m
               PROVE  LET c == w2[i]
                      IN /\ c.from \in DOMAIN t /\ Within(c.from, from)
                         /\ c.to = Rebased(c.from, from, to)
                         /\ c.act \in Looked \cup {"list", "copy", "chmod"}
                         /\ i > 1 => c.act \in {"lstat", "chmod"}
    BY DEF CallsFor
  <2>1. CASE ofNew(i)
    BY <2>1 DEF TakesOver
  <2>2. CASE ofOld(i)
    BY <1>2, <2>2 DEF Calls, CallsFor
  <2> QED
    BY <1>1, <2>1, <2>2
<1>4. ASSUME NEW i \in 1..L - 1 + m PROVE Knows(w2[i], t, N2)
  <2>1. CASE ofNew(i)
    BY <2>1 DEF TakesOver
  <2>2. CASE ofOld(i)
    <3>1. Knows(w2[i], t, N) /\ w2[i].act \in {"lstat", "chmod"}
      BY <1>2, <2>2 DEF Calls, CallsFor
    <3> QED
      BY <3>1 DEF Knows
  <2> QED
    BY <1>1, <2>1, <2>2
<1>5. Apart(w2, L - 1 + m)
  <2> SUFFICES ASSUME NEW i \in 1..L - 1 + m, NEW j \in 1..L - 1 + m, NEW p \in Path,
                      Todo(w2[i], p), Todo(w2[j], p)
               PROVE  i = j
    BY DEF Apart
  <2>1. \A x \in 1..L : \A y \in 1..L : Todo(w[x], p) /\ Todo(w[y], p) => x = y
    BY DEF Calls, Apart
  <2>2. CASE ofNew(i) /\ ofNew(j)
    BY <2>2 DEF TakesOver
  <2>3. CASE ofNew(i) /\ ofOld(j)
    <3>1. Todo(w[1], p) /\ Todo(w[j - m + 1], p)
      BY <2>3 DEF TakesOver
    <3> QED
      BY <1>2, <2>1, <2>3, <3>1
  <2>4. CASE ofOld(i) /\ ofNew(j)
    <3>1. Todo(w[1], p) /\ Todo(w[i - m + 1], p)
      BY <2>4 DEF TakesOver
    <3> QED
      BY <1>2, <2>1, <2>4, <3>1
  <2>5. CASE ofOld(i) /\ ofOld(j)
    <3>1. i - m + 1 = j - m + 1
      BY <1>2, <2>1, <2>5
    <3> QED
      BY <3>1
  <2> QED
    BY <1>1, <2>2, <2>3, <2>4, <2>5
<1> QED
  BY <1>3, <1>4, <1>5 DEF Calls

(* What is left to do of p, before the first call c became the m calls cs  *)
(* and afterwards.                                                         *)
ToDoLeft(w, L, w2, K, c, cs, m, p) ==
  /\ Todo(c, p) =>
       /\ p \in Uncopied(w, L) <=> WillMake(c, p)
       /\ p \in Altered(w, L) <=> WillAlter(c, p)
       /\ p \in Blank(w, L) <=> c.act = "copy" /\ p = c.from
       /\ p \in Uncopied(w2, K) <=> \E i \in 1..m : WillMake(cs[i], p)
       /\ p \in Altered(w2, K) <=> \E i \in 1..m : WillAlter(cs[i], p)
       /\ p \in Blank(w2, K) <=> \E i \in 1..m : cs[i].act = "copy" /\ p = cs[i].from
  /\ ~Todo(c, p) =>
       /\ p \in Uncopied(w2, K) <=> p \in Uncopied(w, L)
       /\ p \in Altered(w2, K) <=> p \in Altered(w, L)
       /\ p \in Blank(w2, K) <=> p \in Blank(w, L)

(* What is left to do for a path is the same as before, but for what the   *)
(* first call had to do.                                                   *)
LEMMA LeftToDo ==
  ASSUME NEW L \in Nat \ {0}, NEW m \in Nat, NEW w, NEW cs, NEW w2, Replaced(w, L, cs, m, w2),
         NEW t, NEW from, NEW to, NEW N, NEW N2, Calls(w, L, t, from, to, N),
         TakesOver(w[1], cs, m, t, from, to, N2), NEW K, K = L - 1 + m, NEW p \in Path
  PROVE  ToDoLeft(w, L, w2, K, w[1], cs, m, p)
<1> DEFINE Empties(c) == c.act = "copy" /\ p = c.from
<1>0. /\ p \in Uncopied(w, L) <=> \E i \in 1..L : WillMake(w[i], p)
      /\ p \in Altered(w, L) <=> \E i \in 1..L : WillAlter(w[i], p)
      /\ p \in Blank(w, L) <=> \E i \in 1..L : Empties(w[i])
      /\ p \in Uncopied(w2, K) <=> \E i \in 1..K : WillMake(w2[i], p)
      /\ p \in Altered(w2, K) <=> \E i \in 1..K : WillAlter(w2[i], p)
      /\ p \in Blank(w2, K) <=> \E i \in 1..K : Empties(w2[i])
  BY DEF Uncopied, Altered, Blank
<1>1. \A c : (WillMake(c, p) => Todo(c, p)) /\ (WillAlter(c, p) => Todo(c, p))
             /\ (Empties(c) => Todo(c, p))
  BY DEF Todo, WillAlter
<1>2. /\ 1 \in 1..L
      /\ \A i \in 1..L : i # 1 => i \in 2..L /\ i - 1 + m \in 1..K /\ w2[i - 1 + m] = w[i]
      /\ \A i \in 1..m : i \in 1..K /\ w2[i] = cs[i]
      /\ \A i \in 2..L : i \in 1..L /\ i # 1
  <2>1. \A i \in 1..L : i # 1 => i \in 2..L /\ i - 1 + m \in 1..K
    OBVIOUS
  <2>2. \A i \in 1..m : i \in 1..K
    OBVIOUS
  <2> QED
    BY <2>1, <2>2 DEF Replaced
<1>3. \A i \in 1..K : \/ i \in 1..m /\ w2[i] = cs[i]
                      \/ i - m + 1 \in 2..L /\ w2[i] = w[i - m + 1]
  BY WhichOfReplaced
<1>4. \A i \in 1..L : Todo(w[1], p) /\ Todo(w[i], p) => i = 1
  BY <1>2 DEF Calls, Apart
<1>5. \A i \in 1..m : Todo(cs[i], p) => Todo(w[1], p)
  BY DEF TakesOver
<1> HIDE DEF Empties
<1>6. ASSUME Todo(w[1], p)
      PROVE  /\ (\E i \in 1..L : WillMake(w[i], p)) <=> WillMake(w[1], p)
             /\ (\E i \in 1..L : WillAlter(w[i], p)) <=> WillAlter(w[1], p)
             /\ (\E i \in 1..L : Empties(w[i])) <=> Empties(w[1])
  BY <1>1, <1>2, <1>4, <1>6
<1>7. ASSUME Todo(w[1], p)
      PROVE  /\ (\E i \in 1..K : WillMake(w2[i], p)) <=> (\E i \in 1..m : WillMake(cs[i], p))
             /\ (\E i \in 1..K : WillAlter(w2[i], p)) <=> (\E i \in 1..m : WillAlter(cs[i], p))
             /\ (\E i \in 1..K : Empties(w2[i])) <=> (\E i \in 1..m : Empties(cs[i]))
  <2>1. \A i \in 1..K : Todo(w2[i], p) => i \in 1..m /\ w2[i] = cs[i]
    BY <1>2, <1>3, <1>4, <1>7
  <2> QED
    BY <1>1, <1>2, <2>1
<1>8. ASSUME ~Todo(w[1], p)
      PROVE  /\ (\E i \in 1..K : WillMake(w2[i], p)) <=> (\E i \in 1..L : WillMake(w[i], p))
             /\ (\E i \in 1..K : WillAlter(w2[i], p)) <=> (\E i \in 1..L : WillAlter(w[i], p))
             /\ (\E i \in 1..K : Empties(w2[i])) <=> (\E i \in 1..L : Empties(w[i]))
  <2>1. \A i \in 1..K : Todo(w2[i], p) => \E j \in 1..L : w2[i] = w[j]
    BY <1>2, <1>3, <1>5, <1>8
  <2>2. \A i \in 1..L : Todo(w[i], p) => \E j \in 1..K : w2[j] = w[i]
    BY <1>2, <1>8
  <2> QED
    BY <1>1, <2>1, <2>2
<1> QED
  BY <1>0, <1>6, <1>7, <1>8 DEF Empties, ToDoLeft

(* The copies of all but p0 stay as they are.                              *)
SameBut(t, from, p0, U, M, E, U2, M2, E2) ==
  \A p \in DOMAIN t : Within(p, from) /\ p # p0 =>
    /\ p \in U2 <=> p \in U
    /\ p \in M2 <=> p \in M
    /\ p \in E2 <=> p \in E

(* A copy is as far as it was if what is left to do is the same for all    *)
(* that it copies.                                                         *)
LEMMA PartlyStays ==
  ASSUME NEW r, NEW t, NEW from, NEW to, NEW v, NEW U, NEW M, NEW E, NEW U2, NEW M2, NEW E2,
         Partly(r, t, from, to, v, U, M, E),
         \A p \in DOMAIN t : Within(p, from) =>
           /\ p \in U2 <=> p \in U
           /\ p \in M2 <=> p \in M
           /\ p \in E2 <=> p \in E
  PROVE  Partly(r, t, from, to, v, U2, M2, E2)
<1>1. \A p \in DOMAIN t : Within(p, from) => MadeOf(t[p], p, M2, E2) = MadeOf(t[p], p, M, E)
  BY DEF MadeOf
<1> QED
  BY <1>1 DEF Partly

(* A copy that has made one more entry is one entry further.               *)
LEMMA PartlyGrows ==
  ASSUME NEW r, NEW t, NEW from \in Path, NEW to \in Path, NEW v, NEW v2,
         NEW U, NEW M, NEW E, NEW U2, NEW M2, NEW E2,
         Partly(r, t, from, to, v, U, M, E),
         NEW p0 \in DOMAIN t, Within(p0, from), NEW q0, q0 = Rebased(p0, from, to), to # <<>>,
         \A p \in DOMAIN t : Within(p, from) => p \in Path,
         SameBut(t, from, p0, U, M, E, U2, M2, E2), p0 \notin U2,
         \A q : Within(q, to) => About(r, q),
         \A q : About(r, q) => (q \in DOMAIN v2 <=> q \in DOMAIN v \/ q = q0),
         \A q \in DOMAIN v : q # q0 => v2[q] = v[q],
         v2[q0] = MadeOf(t[p0], p0, M2, E2)
  PROVE  Partly(r, t, from, to, v2, U2, M2, E2)
<1>1. \A p \in DOMAIN t : Within(p, from) => /\ Within(Rebased(p, from, to), to)
                                             /\ Rebased(p, from, to) = q0 => p = p0
  BY RebasedIsWithin, RebasedBack
<1>2. \A p \in DOMAIN t : Within(p, from) /\ p # p0 => MadeOf(t[p], p, M2, E2) = MadeOf(t[p], p, M, E)
  BY DEF MadeOf, SameBut
<1>3. Within(q0, to) /\ About(r, q0) /\ Lands(t, from, to, q0)
  BY <1>1 DEF Lands
<1>4. \A q : About(r, q) /\ ~Within(q, to) => /\ q \in DOMAIN v2 <=> q \in DOMAIN t
                                              /\ q \in DOMAIN v2 => v2[q] = t[q]
  <2> TAKE q
  <2> SUFFICES ASSUME About(r, q), ~Within(q, to)
               PROVE  /\ q \in DOMAIN v2 <=> q \in DOMAIN t
                      /\ q \in DOMAIN v2 => v2[q] = t[q]
    OBVIOUS
  <2>1. q # q0
    BY <1>3
  <2>2. /\ q \in DOMAIN v <=> q \in DOMAIN t
        /\ q \in DOMAIN v => v[q] = t[q]
    BY DEF Partly
  <2> QED
    BY <2>1, <2>2
<1>5. \A q \in DOMAIN t : ~Within(q, to)
  BY DEF Partly
<1>6. ASSUME NEW p \in DOMAIN t, Within(p, from), NEW q, q = Rebased(p, from, to)
      PROVE  /\ q \in DOMAIN v2 <=> p \notin U2
             /\ q \in DOMAIN v2 => v2[q] = MadeOf(t[p], p, M2, E2)
  <2>1. About(r, q)
    BY <1>1, <1>6
  <2>2. CASE p = p0
    BY <1>6, <2>1, <2>2
  <2>3. CASE p # p0
    <3>1. q # q0
      BY <1>1, <1>6, <2>3
    <3>2. /\ q \in DOMAIN v <=> p \notin U
          /\ q \in DOMAIN v => v[q] = MadeOf(t[p], p, M, E)
      BY <1>6 DEF Partly
    <3>3. p \in U2 <=> p \in U
      BY <1>6, <2>3 DEF SameBut
    <3>4. MadeOf(t[p], p, M2, E2) = MadeOf(t[p], p, M, E)
      BY <1>2, <1>6, <2>3
    <3> QED
      BY <2>1, <3>1, <3>2, <3>3, <3>4
  <2> QED
    BY <2>2, <2>3
<1>7. \A q \in DOMAIN v2 : Within(q, to) => Lands(t, from, to, q)
  <2> SUFFICES ASSUME NEW q \in DOMAIN v2, Within(q, to) PROVE Lands(t, from, to, q)
    OBVIOUS
  <2>1. q \in DOMAIN v \/ q = q0
    OBVIOUS
  <2>2. q \in DOMAIN v => Lands(t, from, to, q)
    BY DEF Partly
  <2> QED
    BY <1>3, <2>1, <2>2
<1> QED
  BY <1>4, <1>5, <1>6, <1>7 DEF Partly

(* When nothing is left to do it is the tree with the copy.                *)
LEMMA PartlyDone ==
  ASSUME NEW r, NEW t, NEW from \in Path, NEW to \in Path, NEW v, to # <<>>,
         Partly(r, t, from, to, v, {}, {}, {}),
         \A p \in DOMAIN t : Within(p, from) => p \in Path /\ IsEntry(t[p])
  PROVE  Agree(r, v, CopiedTree(t, from, to))
<1>1. PICK u : u = CopiedTree(t, from, to)
  OBVIOUS
<1>2. \A q : /\ q \in DOMAIN u <=> q \in DOMAIN t \/ Lands(t, from, to, q)
             /\ Lands(t, from, to, q) => u[q] = Owned(t[Rebased(q, to, from)])
             /\ q \in DOMAIN u /\ ~Lands(t, from, to, q) => u[q] = t[q]
  BY <1>1, CopiedIs
<1>3. \A p \in DOMAIN t : Within(p, from) => MadeOf(t[p], p, {}, {}) = Owned(t[p])
  <2> SUFFICES ASSUME NEW p \in DOMAIN t, Within(p, from)
               PROVE  MadeOf(t[p], p, {}, {}) = Owned(t[p])
    OBVIOUS
  <2>1. PICK e : e = t[p]
    OBVIOUS
  <2>2. PICK f : f = [dir |-> e.dir, mode |-> e.mode, owner |-> e.owner, group |-> e.group,
                      data |-> e.data]
    OBVIOUS
  <2>3. e = f
    BY <2>1, <2>2 DEF IsEntry
  <2>4. PICK k : k = [f EXCEPT !.owner = Me, !.group = MyGroup]
    OBVIOUS
  <2>5. k.owner = Me /\ k.group = MyGroup /\ k.dir = e.dir /\ k.mode = e.mode /\ k.data = e.data
    BY <2>2, <2>4
  <2>6. k = [dir |-> k.dir, mode |-> k.mode, owner |-> k.owner, group |-> k.group, data |-> k.data]
    BY <2>2, <2>4
  <2>7. Owned(e) = k
    BY <2>3, <2>4 DEF Owned
  <2> QED
    BY <2>1, <2>5, <2>6, <2>7 DEF MadeOf
<1>4. ASSUME NEW q, About(r, q), Lands(t, from, to, q)
      PROVE  q \in DOMAIN v /\ q \in DOMAIN u /\ v[q] = u[q]
  <2>1. PICK p \in DOMAIN t : Within(p, from) /\ q = Rebased(p, from, to)
    BY <1>4 DEF Lands
  <2>2. Rebased(q, to, from) = p
    BY <2>1, RebasedBack
  <2>3. q \in DOMAIN v /\ v[q] = MadeOf(t[p], p, {}, {})
    BY <2>1 DEF Partly
  <2> QED
    BY <1>2, <1>3, <1>4, <2>1, <2>2, <2>3
<1>5. ASSUME NEW q, About(r, q), ~Lands(t, from, to, q)
      PROVE  (q \in DOMAIN v <=> q \in DOMAIN u) /\ (q \in DOMAIN v => v[q] = u[q])
  <2>1. (q \in DOMAIN u <=> q \in DOMAIN t) /\ (q \in DOMAIN u => u[q] = t[q])
    BY <1>2, <1>5
  <2>2. CASE Within(q, to)
    BY <1>5, <2>1, <2>2 DEF Partly
  <2>3. CASE ~Within(q, to)
    BY <1>5, <2>1, <2>3 DEF Partly
  <2> QED
    BY <2>2, <2>3
<1>6. Agree(r, v, u)
  BY <1>4, <1>5 DEF Agree
<1> QED
  BY <1>1, <1>6

(* What is stored during a copy to where nothing is: the source as it was, *)
(* and of the copy what is made.                                           *)
Copying(h, t, from, to, U, M, E) ==
  /\ from \in Path /\ to \in Path /\ from # <<>> /\ to # <<>>
  /\ \A q : Within(q, to) => About(req[h], q)
  /\ \A p : Within(p, from) => (p \in DOMAIN t <=> p \in DOMAIN tree)
  /\ \A p \in DOMAIN t : Within(p, from) =>
       /\ p \in Path /\ IsEntry(t[p]) /\ Exists(p) /\ LookupError(tree, p) = "ok"
       /\ t[p].dir = tree[p].dir /\ t[p].mode = tree[p].mode
       /\ t[p].data = IF t[p].dir THEN <<>> ELSE data[tree[p].id]
       /\ p \in DOMAIN Nodes(h) /\ Nodes(h)[p] = tree[p]
  /\ \A p \in DOMAIN t : \A q : Within(p, from) /\ q = Rebased(p, from, to) =>
       /\ About(req[h], q) /\ Within(q, to) /\ q \in Path
       /\ q \in DOMAIN tree <=> p \notin U
       /\ q \in DOMAIN tree =>
            /\ q \in DOMAIN Part(h) /\ Part(h)[q] = MadeOf(t[p], p, M, E)
            /\ tree[q].dir = t[p].dir /\ tree[q].owner = Me

(* A copy under way finds what it copies as it was, and its targets as far *)
(* as it has made them.                                                    *)
LEMMA CopyingFinds ==
  ASSUME Inv, Stored, NEW h \in Handlers, req[h] \in Requests, NEW k \in 1..Len(req[h].to),
         NEW from, from = req[h].path, NEW to, to = req[h].to[k], Within(from, Root), Accepted(from, to),
         NEW t, NEW U, NEW M, NEW E, Partly(req[h], t, from, to, Part(h), U, M, E)
  PROVE  Copying(h, t, from, to, U, M, E)
<1>1. PICK r : r = req[h]
  OBVIOUS
<1>2. from \in Path /\ to \in Path /\ k \in DOMAIN r.to /\ Root \in Path /\ Root # <<>>
  BY <1>1, HtFileAssumption, RootIsPath
<1>3. from # <<>> /\ to # <<>>
  BY <1>2, WithinBeginsLikeIt DEF Accepted
<1>4. /\ \A q : Within(q, to) => About(r, q)
      /\ \A q : Within(q, from) => About(r, q)
  BY <1>1, <1>2, AboutPath
<1>5. PICK v : v = Part(h)
  OBVIOUS
<1>6. /\ \A p : p \in DOMAIN v <=> p \in DOMAIN tree /\ About(r, p)
      /\ DOMAIN Nodes(h) = DOMAIN v
      /\ \A p \in DOMAIN v :
           /\ Nodes(h)[p] = tree[p]
           /\ v[p] = [dir |-> tree[p].dir, mode |-> tree[p].mode,
                      owner |-> tree[p].owner, group |-> tree[p].group,
                      data |-> IF tree[p].dir THEN <<>> ELSE data[tree[p].id]]
  BY <1>1, <1>5, PartIs
<1>7. Partly(r, t, from, to, v, U, M, E)
  BY <1>1, <1>5
<1>8. DOMAIN tree \subseteq Path /\ Closed(tree)
  BY DEF Inv, TreeInv, Stored
<1>9. ASSUME NEW p, Within(p, from)
      PROVE  /\ p \in DOMAIN t <=> p \in DOMAIN tree
             /\ p \in DOMAIN tree => p \in DOMAIN v /\ t[p] = v[p]
  <2>1. About(r, p)
    BY <1>4, <1>9
  <2>2. p \in DOMAIN tree => ~Within(p, to)
    <3> SUFFICES ASSUME p \in DOMAIN tree, Within(p, to) PROVE FALSE
      OBVIOUS
    <3>1. p \in Path /\ ~Within(from, to) /\ ~Within(to, from)
      BY <1>8 DEF Accepted
    <3>2. p # from /\ p # to
      BY <1>9, <3>1
    <3>3. Below(p, from) /\ Below(p, to)
      BY <1>9, <3>2 DEF Within
    <3> QED
      BY <1>2, <3>1, <3>3, ApartBelow
  <2>3. p \in DOMAIN t => ~Within(p, to)
    BY <1>7 DEF Partly
  <2>4. ~Within(p, to) => (p \in DOMAIN v <=> p \in DOMAIN t) /\ (p \in DOMAIN v => v[p] = t[p])
    BY <1>7, <2>1 DEF Partly
  <2> QED
    BY <1>6, <2>1, <2>2, <2>3, <2>4
<1>10. ASSUME NEW p \in DOMAIN t, Within(p, from)
       PROVE  /\ p \in Path /\ IsEntry(t[p]) /\ Exists(p) /\ LookupError(tree, p) = "ok"
              /\ t[p].dir = tree[p].dir /\ t[p].mode = tree[p].mode
              /\ t[p].data = IF t[p].dir THEN <<>> ELSE data[tree[p].id]
              /\ p \in DOMAIN Nodes(h) /\ Nodes(h)[p] = tree[p]
  <2>1. p \in DOMAIN tree /\ p \in DOMAIN v /\ t[p] = v[p] /\ p \in Path
    BY <1>8, <1>9, <1>10
  <2>2. PICK x : x = [dir |-> tree[p].dir, mode |-> tree[p].mode,
                      owner |-> tree[p].owner, group |-> tree[p].group,
                      data |-> IF tree[p].dir THEN <<>> ELSE data[tree[p].id]]
    OBVIOUS
  <2>3. t[p] = x
    BY <1>6, <2>1, <2>2
  <2>4. IsEntry(x) /\ x.dir = tree[p].dir /\ x.mode = tree[p].mode
        /\ x.data = IF x.dir THEN <<>> ELSE data[tree[p].id]
    BY <2>2 DEF IsEntry
  <2>5. ParentError(tree, p) = "ok"
    BY <1>8, <2>1 DEF Closed, ParentError
  <2>6. LookupError(tree, p) = "ok"
    BY <2>1, <2>5 DEF LookupError
  <2> QED
    BY <1>6, <2>1, <2>3, <2>4, <2>6 DEF Exists
<1>11. ASSUME NEW p \in DOMAIN t, Within(p, from), NEW q, q = Rebased(p, from, to)
       PROVE  /\ About(r, q) /\ Within(q, to) /\ q \in Path
              /\ q \in DOMAIN tree <=> p \notin U
              /\ q \in DOMAIN tree =>
                   /\ q \in DOMAIN v /\ v[q] = MadeOf(t[p], p, M, E)
                   /\ tree[q].dir = t[p].dir /\ tree[q].owner = Me
  <2>1. About(r, q) /\ Within(q, to) /\ q \in Path
    BY <1>2, <1>3, <1>4, <1>10, <1>11, RebasedIsWithin
  <2>2. /\ q \in DOMAIN v <=> p \notin U
        /\ q \in DOMAIN v => v[q] = MadeOf(t[p], p, M, E)
    BY <1>7, <1>11 DEF Partly
  <2>3. q \in DOMAIN v <=> q \in DOMAIN tree
    BY <1>6, <2>1
  <2>4. ASSUME q \in DOMAIN v PROVE tree[q].dir = t[p].dir /\ tree[q].owner = Me
    <3>1. v[q].dir = tree[q].dir /\ v[q].owner = tree[q].owner
      BY <1>6, <2>4
    <3>2. MadeOf(t[p], p, M, E).dir = t[p].dir /\ MadeOf(t[p], p, M, E).owner = Me
      BY DEF MadeOf
    <3> QED
      BY <2>2, <2>4, <3>1, <3>2
  <2> QED
    BY <2>1, <2>2, <2>3, <2>4
<1>12. \A p \in DOMAIN t : Within(p, from) =>
              /\ p \in Path /\ IsEntry(t[p]) /\ Exists(p) /\ LookupError(tree, p) = "ok"
              /\ t[p].dir = tree[p].dir /\ t[p].mode = tree[p].mode
              /\ t[p].data = IF t[p].dir THEN <<>> ELSE data[tree[p].id]
              /\ p \in DOMAIN Nodes(h) /\ Nodes(h)[p] = tree[p]
  BY <1>10
<1>13. \A p \in DOMAIN t : \A q : Within(p, from) /\ q = Rebased(p, from, to) =>
              /\ About(r, q) /\ Within(q, to) /\ q \in Path
              /\ q \in DOMAIN tree <=> p \notin U
              /\ q \in DOMAIN tree =>
                   /\ q \in DOMAIN v /\ v[q] = MadeOf(t[p], p, M, E)
                   /\ tree[q].dir = t[p].dir /\ tree[q].owner = Me
  BY <1>11
<1> QED
  BY <1>1, <1>2, <1>3, <1>4, <1>5, <1>9, <1>12, <1>13 DEF Copying

(* Where the copy of p is made there is a directory for it.                *)
LEMMA PlaceIsMade ==
  ASSUME Inv, Stored, NEW h \in Handlers, req[h] \in Requests, NEW k \in 1..Len(req[h].to),
         NEW from, from = req[h].path, NEW to, to = req[h].to[k], Within(from, Root), Accepted(from, to),
         NEW t, NEW U, NEW M, NEW E, Partly(req[h], t, from, to, Part(h), U, M, E),
         MakesNew(t, from, to), NEW p \in DOMAIN t, Within(p, from), NEW q, q = Rebased(p, from, to),
         \A a \in Ancestors(p) : a \notin U
  PROVE  ParentError(tree, q) = "ok"
<1>0. Copying(h, t, from, to, U, M, E)
  BY CopyingFinds
<1>1. /\ from \in Path /\ to \in Path /\ from # <<>> /\ to # <<>>
      /\ \A b : Within(b, from) => (b \in DOMAIN t <=> b \in DOMAIN tree)
      /\ \A b \in DOMAIN t : Within(b, from) => t[b].dir = tree[b].dir /\ b \in Path
      /\ \A b \in DOMAIN t : \A a : Within(b, from) /\ a = Rebased(b, from, to) =>
           /\ Within(a, to) /\ a \in Path
           /\ a \in DOMAIN tree <=> b \notin U
           /\ a \in DOMAIN tree => tree[a].dir = t[b].dir
  BY <1>0 DEF Copying
<1>2. p \in Path /\ q \in Path /\ Within(q, to) /\ p \in DOMAIN tree /\ Rebased(q, to, from) = p
  BY <1>1, RebasedBack
<1>3. ASSUME NEW a \in Ancestors(q) PROVE a \in DOMAIN tree /\ tree[a].dir
  <2>1. a \in Path
    BY <1>2, AncestorsOfPath
  <2>2. CASE Within(a, to)
    <3>1. PICK b : b = Rebased(a, to, from)
      OBVIOUS
    <3>2. Below(p, b)
      BY <1>1, <1>2, <2>2, <3>1, RebasedBelow
    <3>3. Within(b, from)
      BY <1>1, <2>1, <2>2, <3>1, RebasedIsWithin
    <3>4. Rebased(b, from, to) = a
      BY <1>1, <2>1, <2>2, <3>1, RebasedBack
    <3>5. b \in DOMAIN tree /\ tree[b].dir /\ b \notin U
      BY <1>2, <3>2 DEF Below, Stored, Closed
    <3> QED
      BY <1>1, <3>3, <3>4, <3>5
  <2>3. CASE ~Within(a, to)
    <3>1. a \in Ancestors(to)
      BY <1>1, <1>2, <2>3, WithinOrAbove
    <3>2. a \in DOMAIN t /\ t[a].dir
      BY <3>1, SamePaths DEF MakesNew, Contract!Homeless, Contract!InFile, Contract!File
    <3>3. About(req[h], a)
      BY <1>1, <3>1, AboutPath, HtFileAssumption
    <3>4. a \in DOMAIN Part(h) /\ Part(h)[a] = t[a]
      BY <2>3, <3>2, <3>3 DEF Partly
    <3>5. a \in DOMAIN tree /\ Part(h)[a].dir = tree[a].dir
      BY <3>4, PartIs
    <3> QED
      BY <3>2, <3>4, <3>5
  <2> QED
    BY <2>2, <2>3
<1> QED
  BY <1>3 DEF ParentError

(* What is above what a call looks at is made.                             *)
LEMMA AboveIsMade ==
  ASSUME NEW L \in Nat \ {0}, NEW w, NEW t, NEW from, NEW to, NEW N, Calls(w, L, t, from, to, N),
         NEW p \in Path, p = w[1].from, w[1].act \in Looked,
         \A i \in 1..L : w[i].from \in Path,
         NEW a \in Ancestors(p)
  PROVE  a \notin Uncopied(w, L)
<1> SUFFICES ASSUME a \in Uncopied(w, L) PROVE FALSE
  OBVIOUS
<1>1. PICK i \in 1..L : WillMake(w[i], a)
  BY DEF Uncopied
<1>2. PICK d : d = w[i].from
  OBVIOUS
<1>3. a \in Path /\ d \in Path /\ Below(p, a) /\ Len(a) < Len(p) /\ Len(a) \in Nat /\ Len(p) \in Nat
  BY <1>2, AncestorsOfPath, BelowIsLonger DEF Below
<1>4. Within(p, a)
  BY <1>3 DEF Within
<1>5. Within(a, d)
  BY <1>1, <1>2 DEF WillMake, Within
<1>6. Within(p, d) /\ Len(d) \in Nat /\ Len(d) <= Len(a)
  <2>1. Within(p, d)
    BY <1>3, <1>4, <1>5, WithinTransitive
  <2>2. Below(a, d) => Len(d) < Len(a)
    BY <1>3, BelowIsLonger
  <2>3. Len(d) \in Nat
    BY <1>3
  <2> QED
    BY <1>3, <1>5, <2>1, <2>2, <2>3 DEF Within
<1>7. p # d /\ Below(p, d)
  BY <1>3, <1>6 DEF Within
<1>8. WillMake(w[i], p)
  BY <1>1, <1>2, <1>6, <1>7 DEF WillMake
<1>9. Todo(w[i], p) /\ Todo(w[1], p) /\ 1 \in 1..L
  BY <1>8 DEF Todo, WillMake, Within
<1>10. i = 1
  BY <1>9 DEF Calls, Apart
<1> QED
  BY <1>2, <1>7, <1>10

(* Handler h copies to the k-th target, where nothing is, and has L calls  *)
(* for it.                                                                 *)
Making(h, k, L, t, from, to) ==
  /\ h \in Handlers /\ status[h] = Serving /\ req[h] \in Requests /\ Within(req[h].path, Root)
  /\ Result(h) = Contract!Copies(before[h], req[h].path, req[h].to)
  /\ k \in 1..Len(req[h].to) /\ L \in Nat \ {0}
  /\ from = req[h].path /\ to = req[h].to[k] /\ t = Chain(req[h], before[h])[k - 1].tree
  /\ Under(work[h], req[h], before[h], Part(h), Nodes(h), k, L)

(* What is known of a copy to a new target under way.                      *)
LEMMA MakingIs ==
  ASSUME NEW h, NEW k, NEW L, NEW t, NEW from, NEW to, Making(h, k, L, t, from, to)
  PROVE  /\ h \in Handlers /\ status[h] = Serving /\ req[h] \in Requests /\ k \in 1..Len(req[h].to)
         /\ from = req[h].path /\ to = req[h].to[k] /\ Within(from, Root) /\ L \in Nat \ {0}
         /\ Accepted(from, to) /\ MakesNew(t, from, to)
         /\ Calls(work[h], L, t, from, to, Nodes(h))
         /\ Partly(req[h], t, from, to, Part(h), Uncopied(work[h], L), Altered(work[h], L), Blank(work[h], L))
BY DEF Making, Under, Calls

(* What such a copy finds, from the calls that it has left to make.        *)
LEMMA MakingFinds ==
  ASSUME Inv, Stored, NEW h, NEW k, NEW L, NEW t, NEW from, NEW to, Making(h, k, L, t, from, to)
  PROVE  Copying(h, t, from, to, Uncopied(work[h], L), Altered(work[h], L), Blank(work[h], L))
BY MakingIs, CopyingFinds

(* After the calls cs took over from the first one.                        *)
Left(w, K, r, t, from, to, v) ==
  Partly(r, t, from, to, v, Uncopied(w, K), Altered(w, K), Blank(w, K))

(* Its first call is replaced; it ends when no call and no target is left. *)
LEMMA MakingReplaces ==
  ASSUME Inv, NEW h, NEW k, NEW L, NEW t, NEW from, NEW to, Making(h, k, L, t, from, to),
         NEW S, NEW cs \in Seq(S), Then(h, cs)
  PROVE  /\ Replaced(work[h], L, cs, Len(cs), work'[h])
         /\ Rest(work'[h], L - 1 + Len(cs), req[h], k)
         /\ status'[h] = IF L - 1 + Len(cs) + Len(req[h].to) - k = 0 THEN 200 ELSE Serving
<1>0. PICK r : r = req[h]
  OBVIOUS
<1>1. WorkInv /\ h \in Handlers /\ status[h] = Serving /\ L \in Nat \ {0}
      /\ r.to \in Seq(Path) /\ k \in 0..Len(r.to) /\ Rest(work[h], L, r, k)
  BY <1>0, HtFileAssumption DEF Making, Inv, Under
<1>2. Onwards(work'[h], status'[h], work[h], L, cs, Len(cs), r, k)
  BY <1>1, RestGoes
<1> QED
  BY <1>0, <1>2 DEF Onwards

(* A copy whose first call is taken over by others is on its way, or ends  *)
(* as the contract says.                                                   *)
LEMMA MakingGoes ==
  ASSUME Inv, Stored, NEW h, NEW k, NEW L, NEW t, NEW from, NEW to, Making(h, k, L, t, from, to),
         req' = req, before'[h] = before[h],
         NEW S, NEW cs \in Seq(S), Then(h, cs),
         TakesOver(work[h][1], cs, Len(cs), t, from, to, Nodes(h)'),
         Left(work'[h], L - 1 + Len(cs), req[h], t, from, to, Part(h)')
  PROVE  IF status'[h] = Serving THEN CopyWay(h)' ELSE IsAlone(h)'
<1>1. PICK r, s, w, N, v : r = req[h] /\ s = before[h] /\ w = work'[h] /\ N = Nodes(h)' /\ v = Part(h)'
  OBVIOUS
<1>2. PICK K : K = L - 1 + Len(cs)
  OBVIOUS
<1>3. PICK C : C = Chain(r, s)
  OBVIOUS
<1>10. Making(h, k, L, t, from, to) => /\ t = C[k - 1].tree /\ C[k - 1].status = 200
                                       /\ Result(h) = Contract!Copies(s, from, r.to)
  BY <1>1, <1>3 DEF Making, Under
<1>4. /\ h \in Handlers /\ r \in Requests /\ k \in 1..Len(r.to) /\ L \in Nat \ {0} /\ Len(cs) \in Nat
      /\ from = r.path /\ to = r.to[k] /\ t = C[k - 1].tree /\ C[k - 1].status = 200
      /\ Accepted(from, to) /\ MakesNew(t, from, to) /\ r.to \in Seq(Path)
      /\ Result(h) = Contract!Copies(s, from, r.to)
      /\ Calls(work[h], L, t, from, to, Nodes(h))
  <2>1. /\ h \in Handlers /\ r \in Requests /\ k \in 1..Len(r.to) /\ L \in Nat \ {0}
        /\ from = r.path /\ to = r.to[k] /\ Accepted(from, to) /\ MakesNew(t, from, to)
        /\ Calls(work[h], L, t, from, to, Nodes(h))
    BY <1>1, MakingIs
  <2>2. r.to \in Seq(Path) /\ Len(cs) \in Nat
    BY <2>1, HtFileAssumption
  <2> QED
    BY <1>10, <2>1, <2>2
<1>5. Replaced(work[h], L, cs, Len(cs), w) /\ Rest(w, K, r, k)
      /\ status'[h] = IF K + Len(r.to) - k = 0 THEN 200 ELSE Serving
  BY <1>1, <1>2, MakingReplaces
<1>6. Calls(w, K, t, from, to, N)
  <2>1. PICK m, w1 : m = Len(cs) /\ w1 = work[h]
    OBVIOUS
  <2>2. m \in Nat /\ Replaced(w1, L, cs, m, w) /\ K = L - 1 + m
    BY <1>2, <1>4, <1>5, <2>1
  <2>3. TakesOver(w1[1], cs, m, t, from, to, N)
    BY <1>1, <2>1
  <2>4. Calls(w1, L, t, from, to, Nodes(h))
    BY <1>4, <2>1
  <2>5. Calls(w, L - 1 + m, t, from, to, N)
    BY <1>4, <2>2, <2>3, <2>4, CallsGo
  <2> QED
    BY <2>2, <2>5
<1>7. Partly(r, t, from, to, v, Uncopied(w, K), Altered(w, K), Blank(w, K))
  BY <1>1, <1>2 DEF Left
<1>8. CASE K = 0
  <2>1. Uncopied(w, K) = {} /\ Altered(w, K) = {} /\ Blank(w, K) = {}
    BY <1>8 DEF Uncopied, Altered, Blank
  <2>2. PICK u : u = CopiedTree(t, from, to)
    OBVIOUS
  <2>3. Copying(h, t, from, to, Uncopied(work[h], L), Altered(work[h], L), Blank(work[h], L))
    BY MakingFinds
  <2>4. Agree(r, v, u)
    BY <1>7, <2>1, <2>2, <2>3, PartlyDone DEF Copying
  <2>5. CopiedTo(C, s, from, r.to)
    BY <1>3, <1>4, CopiesAre DEF Chain
  <2>6. C[k] = Contract!Copy(t, from, to)
    BY <1>4, <2>5 DEF CopiedTo
  <2>7. C[k] = Contract!Is(200, u)
    <3>1. PICK x : x = Contract!Copy(t, from, to)
      OBVIOUS
    <3>2. x = IF ~Within(to, Root) THEN Contract!Is(404, t)
              ELSE IF Within(from, to) \/ Within(to, from) THEN Contract!Is(400, t)
              ELSE IF from \notin DOMAIN t THEN Contract!Is(Contract!NotFound(t, from), t)
              ELSE IF Contract!Homeless(t, to) \/ Contract!InFile(t, to)
                THEN Contract!Is(Contract!NotFound(t, to), t)
              ELSE IF to \notin DOMAIN t THEN Contract!Is(200, CopiedTree(t, from, to))
              ELSE IF t[from].dir THEN Contract!Is(500, t)
              ELSE IF t[to].dir THEN Contract!Is(404, t)
              ELSE IF Contract!Mine(t, to)
                THEN Contract!Is(200, FilledAs(t, from, to))
              ELSE Contract!Is(404, Filled(t, from, to))
      BY <3>1, CopyIs
    <3>3. x = Contract!Is(200, CopiedTree(t, from, to))
      BY <1>4, <3>2 DEF Accepted, MakesNew
    <3> QED
      BY <2>2, <2>6, <3>1, <3>3
  <2>8. Rest(w, 0, r, k) /\ status'[h] = IF Len(r.to) - k = 0 THEN 200 ELSE Serving
    <3>1. Len(r.to) \in Nat /\ k \in Nat
      BY <1>4
    <3>2. 0 + Len(r.to) - k = Len(r.to) - k
      BY <3>1
    <3> QED
      BY <1>5, <1>8, <3>2
  <2> QED
    BY <1>1, <1>3, <1>4, <2>4, <2>7, <2>8, CopyEnds
<1>9. CASE K # 0
  <2>1. K \in Nat \ {0}
    BY <1>2, <1>4, <1>9
  <2>2. Under(w, r, s, v, N, k, K)
    BY <1>3, <1>4, <1>5, <1>6, <1>7 DEF Under, Calls
  <2>3. CopyIsAt(w, r, s, v, N)
    BY <1>4, <2>1, <2>2 DEF CopyIsAt
  <2>4. status'[h] = Serving
    <3>1. \A a \in Nat : \A b \in 1..a : K + a - b # 0
      BY <2>1
    <3>2. Len(r.to) \in Nat
      BY <1>4
    <3> QED
      BY <1>4, <1>5, <3>1, <3>2, ZenonT(60)
  <2>5. CopyWay(h)'
    BY <1>1, <2>3, CopyWayNext
  <2> QED
    BY <2>4, <2>5
<1> QED
  BY <1>8, <1>9

(* What is left to do after its first call is replaced.                    *)
LEMMA MakingLeaves ==
  ASSUME Inv, NEW h, NEW k, NEW L, NEW t, NEW from, NEW to, Making(h, k, L, t, from, to),
         NEW S, NEW cs \in Seq(S), Then(h, cs), NEW m, m = Len(cs), NEW K, K = L - 1 + m,
         NEW c, c = work[h][1], NEW N, TakesOver(c, cs, m, t, from, to, N), NEW p \in Path
  PROVE  ToDoLeft(work[h], L, work'[h], K, c, cs, m, p)
<1>1. PICK w, w2 : w = work[h] /\ w2 = work'[h]
  OBVIOUS
<1>2. Replaced(w, L, cs, m, w2)
  BY <1>1, MakingReplaces
<1>3. L \in Nat \ {0} /\ m \in Nat /\ Calls(w, L, t, from, to, Nodes(h))
  BY <1>1, MakingIs
<1>4. TakesOver(w[1], cs, m, t, from, to, N)
  BY <1>1
<1>5. c = w[1]
  BY <1>1
<1> QED
  BY <1>1, <1>2, <1>3, <1>4, <1>5, LeftToDo

(* A call that changes nothing.                                            *)
LEMMA MakingLooks ==
  ASSUME Inv, Stored, NEW h, NEW k, NEW L, NEW t, NEW from, NEW to, Making(h, k, L, t, from, to),
         req' = req, before'[h] = before[h], UNCHANGED fs,
         NEW S, NEW cs \in Seq(S), Then(h, cs), NEW c, c = work[h][1],
         TakesOver(c, cs, Len(cs), t, from, to, Nodes(h)),
         c.act # "copy", \A i \in 1..Len(cs) : cs[i].act # "copy",
         \A p \in DOMAIN t : Within(p, from) =>
           /\ WillMake(c, p) <=> \E i \in 1..Len(cs) : WillMake(cs[i], p)
           /\ WillAlter(c, p) <=> \E i \in 1..Len(cs) : WillAlter(cs[i], p)
  PROVE  IF status'[h] = Serving THEN CopyWay(h)' ELSE IsAlone(h)'
<1>1. Part(h)' = Part(h) /\ Nodes(h)' = Nodes(h)
  BY PartStays
<1>2. PICK m, K : m = Len(cs) /\ K = L - 1 + m
  OBVIOUS
<1>3. PICK w, w2 : w = work[h] /\ w2 = work'[h]
  OBVIOUS
<1>4. \A p \in DOMAIN t : Within(p, from) => p \in Path
  BY MakingFinds DEF Copying
<1>5. TakesOver(c, cs, m, t, from, to, Nodes(h))
  BY <1>2
<1>6. ASSUME NEW p \in DOMAIN t, Within(p, from)
      PROVE  /\ p \in Uncopied(w2, K) <=> p \in Uncopied(w, L)
             /\ p \in Altered(w2, K) <=> p \in Altered(w, L)
             /\ p \in Blank(w2, K) <=> p \in Blank(w, L)
  <2>1. p \in Path
    BY <1>4, <1>6
  <2>2. /\ WillMake(c, p) <=> \E i \in 1..m : WillMake(cs[i], p)
        /\ WillAlter(c, p) <=> \E i \in 1..m : WillAlter(cs[i], p)
        /\ ~ \E i \in 1..m : cs[i].act = "copy" /\ p = cs[i].from
    BY <1>2, <1>6
  <2>3. ToDoLeft(w, L, w2, K, c, cs, m, p)
    BY <1>2, <1>3, <1>5, <2>1, MakingLeaves
  <2>4. CASE Todo(c, p)
    BY <2>2, <2>3, <2>4 DEF ToDoLeft
  <2>5. CASE ~Todo(c, p)
    BY <2>3, <2>5 DEF ToDoLeft
  <2> QED
    BY <2>4, <2>5
<1>7. Partly(req[h], t, from, to, Part(h), Uncopied(w, L), Altered(w, L), Blank(w, L))
  BY <1>3, MakingIs
<1>8. Partly(req[h], t, from, to, Part(h), Uncopied(w2, K), Altered(w2, K), Blank(w2, K))
  BY <1>6, <1>7, PartlyStays
<1>9. Left(work'[h], L - 1 + Len(cs), req[h], t, from, to, Part(h)')
  BY <1>1, <1>2, <1>3, <1>8 DEF Left
<1>10. TakesOver(work[h][1], cs, Len(cs), t, from, to, Nodes(h)')
  BY <1>1
<1> QED
  BY <1>9, <1>10, MakingGoes

(* The calls cs, m of them, that follow one that makes or alters the copy  *)
(* of p0: with them in M it is altered again, in E it has no content yet.  *)
CarriesOn(t, from, c, cs, m, p0, M, E) ==
  /\ p0 = c.from /\ Todo(c, p0)
  /\ \A i \in 1..m : cs[i].from = p0 /\ ~WillMake(cs[i], p0)
  /\ \A p \in DOMAIN t : Within(p, from) /\ p # p0 =>
       WillMake(c, p) <=> \E i \in 1..m : WillMake(cs[i], p)
  /\ p0 \in M <=> \E i \in 1..m : WillAlter(cs[i], p0)
  /\ p0 \in E <=> \E i \in 1..m : cs[i].act = "copy"

(* A call that makes or alters the copy of p0.                             *)
LEMMA MakingSets ==
  ASSUME Inv, Stored, NEW h, NEW k, NEW L, NEW t, NEW from, NEW to, Making(h, k, L, t, from, to),
         req' = req, before'[h] = before[h],
         NEW S, NEW cs \in Seq(S), Then(h, cs), NEW c, c = work[h][1],
         TakesOver(c, cs, Len(cs), t, from, to, Nodes(h)'),
         NEW p0 \in DOMAIN t, Within(p0, from), NEW q0, q0 = Rebased(p0, from, to),
         NEW M, NEW E, CarriesOn(t, from, c, cs, Len(cs), p0, M, E),
         Sets(h, q0, MadeOf(t[p0], p0, M, E))
  PROVE  IF status'[h] = Serving THEN CopyWay(h)' ELSE IsAlone(h)'
<1>1. PICK m, K : m = Len(cs) /\ K = L - 1 + m
  OBVIOUS
<1>0. /\ p0 = c.from /\ Todo(c, p0)
      /\ \A i \in 1..m : cs[i].from = p0 /\ ~WillMake(cs[i], p0)
      /\ \A p \in DOMAIN t : Within(p, from) /\ p # p0 =>
           WillMake(c, p) <=> \E i \in 1..m : WillMake(cs[i], p)
      /\ p0 \in M <=> \E i \in 1..m : WillAlter(cs[i], p0)
      /\ p0 \in E <=> \E i \in 1..m : cs[i].act = "copy"
  BY <1>1 DEF CarriesOn
<1>2. PICK w, w2 : w = work[h] /\ w2 = work'[h]
  OBVIOUS
<1>3. PICK r, v, v2, N2 : r = req[h] /\ v = Part(h) /\ v2 = Part(h)' /\ N2 = Nodes(h)'
  OBVIOUS
<1>4. /\ \A p \in DOMAIN t : Within(p, from) => p \in Path
      /\ from \in Path /\ to \in Path /\ to # <<>>
      /\ \A q : Within(q, to) => About(r, q)
  BY <1>3, MakingFinds DEF Copying
<1>5. TakesOver(c, cs, m, t, from, to, N2)
  BY <1>1, <1>3
<1>21. \A p \in Path : ToDoLeft(w, L, w2, K, c, cs, m, p)
  BY <1>1, <1>2, <1>5, MakingLeaves
<1>6. ASSUME NEW p \in Path, Todo(c, p)
      PROVE  /\ p \in Uncopied(w, L) <=> WillMake(c, p)
             /\ p \in Altered(w, L) <=> WillAlter(c, p)
             /\ p \in Blank(w, L) <=> c.act = "copy"  /\ p = c.from
             /\ p \in Uncopied(w2, K) <=> \E i \in 1..m : WillMake(cs[i], p)
             /\ p \in Altered(w2, K) <=> \E i \in 1..m : WillAlter(cs[i], p)
             /\ p \in Blank(w2, K) <=> \E i \in 1..m : cs[i].act = "copy" /\ p = cs[i].from
  BY <1>6, <1>21 DEF ToDoLeft
<1>7. ASSUME NEW p \in Path, ~Todo(c, p)
      PROVE  /\ p \in Uncopied(w2, K) <=> p \in Uncopied(w, L)
             /\ p \in Altered(w2, K) <=> p \in Altered(w, L)
             /\ p \in Blank(w2, K) <=> p \in Blank(w, L)
  BY <1>7, <1>21 DEF ToDoLeft
<1>8. /\ \A i \in 1..m : cs[i].from = p0 /\ ~WillMake(cs[i], p0)
      /\ \A p : \A i \in 1..m : WillAlter(cs[i], p) => p = p0
      /\ \A p : WillAlter(c, p) => p = p0
  BY <1>0 DEF WillAlter
<1>9. SameBut(t, from, p0, Uncopied(w, L), Altered(w, L), Blank(w, L),
              Uncopied(w2, K), Altered(w2, K), Blank(w2, K))
  <2> SUFFICES ASSUME NEW p \in DOMAIN t, Within(p, from), p # p0
               PROVE  /\ p \in Uncopied(w2, K) <=> p \in Uncopied(w, L)
                      /\ p \in Altered(w2, K) <=> p \in Altered(w, L)
                      /\ p \in Blank(w2, K) <=> p \in Blank(w, L)
    BY DEF SameBut
  <2>1. p \in Path
    BY <1>4
  <2>2. WillMake(c, p) <=> \E i \in 1..m : WillMake(cs[i], p)
    BY <1>0
  <2>3. CASE Todo(c, p)
    BY <1>0, <1>6, <1>8, <2>1, <2>2, <2>3
  <2>4. CASE ~Todo(c, p)
    BY <1>7, <2>1, <2>4
  <2> QED
    BY <2>3, <2>4
<1>10. p0 \in Path
  BY <1>4
<1>11. p0 \notin Uncopied(w2, K)
  BY <1>0, <1>6, <1>8, <1>10
<1>12. (p0 \in Altered(w2, K) <=> p0 \in M) /\ (p0 \in Blank(w2, K) <=> p0 \in E)
  <2>1. /\ p0 \in Altered(w2, K) <=> \E i \in 1..m : WillAlter(cs[i], p0)
        /\ p0 \in Blank(w2, K) <=> \E i \in 1..m : cs[i].act = "copy" /\ p0 = cs[i].from
    BY <1>0, <1>6, <1>10
  <2>2. /\ p0 \in M <=> \E i \in 1..m : WillAlter(cs[i], p0)
        /\ p0 \in E <=> \E i \in 1..m : cs[i].act = "copy"
    BY <1>0
  <2> QED
    BY <1>8, <2>1, <2>2
<1>13. MadeOf(t[p0], p0, M, E) = MadeOf(t[p0], p0, Altered(w2, K), Blank(w2, K))
  BY <1>12 DEF MadeOf
<1>14. PICK e : e = MadeOf(t[p0], p0, Altered(w2, K), Blank(w2, K))
  OBVIOUS
<1>15. Sets(h, q0, e)
  BY <1>13, <1>14
<1>16. /\ \A q : About(r, q) => (q \in DOMAIN v2 <=> q \in DOMAIN v \/ q = q0)
       /\ \A q \in DOMAIN v : q # q0 => v2[q] = v[q]
       /\ v2[q0] = e
  BY <1>3, <1>15 DEF Sets
<1>17. Partly(r, t, from, to, v, Uncopied(w, L), Altered(w, L), Blank(w, L))
  BY <1>2, <1>3, MakingIs
<1>18. Partly(r, t, from, to, v2, Uncopied(w2, K), Altered(w2, K), Blank(w2, K))
  BY <1>4, <1>9, <1>11, <1>14, <1>16, <1>17, PartlyGrows
<1>19. Left(work'[h], L - 1 + Len(cs), req[h], t, from, to, Part(h)')
  BY <1>1, <1>2, <1>3, <1>18 DEF Left
<1>20. TakesOver(work[h][1], cs, Len(cs), t, from, to, Nodes(h)')
  OBVIOUS
<1> QED
  BY <1>19, <1>20, MakingGoes

(* The call c that comes first, which is for the copy of p0 to q0.         *)
CallIs(h, L, t, from, to, c, p0, q0) ==
  /\ WorkInv /\ TreeInv /\ h \in Handlers /\ status[h] = Serving /\ c = work[h][1] /\ Safe(c)
  /\ c.from = p0 /\ c.to = q0 /\ p0 \in DOMAIN t /\ Within(p0, from) /\ q0 = Rebased(p0, from, to)
  /\ c.act \in Looked \cup {"list", "copy", "chmod"} /\ Knows(c, t, Nodes(h))
  /\ p0 \in Path /\ p0 \in DOMAIN tree /\ p0 # q0 /\ About(req[h], p0) /\ About(req[h], q0)
  /\ LookupError(tree, p0) = "ok" /\ p0 \in DOMAIN Nodes(h) /\ Nodes(h)[p0] = tree[p0]
  /\ t[p0].dir = tree[p0].dir /\ t[p0].mode = tree[p0].mode
  /\ t[p0].data = IF t[p0].dir THEN <<>> ELSE data[tree[p0].id]
  /\ c.act \in Looked => q0 \notin DOMAIN tree /\ ParentError(tree, q0) = "ok"
  /\ c.act \notin Looked =>
       /\ q0 \in DOMAIN tree /\ q0 \in DOMAIN Part(h) /\ tree[q0].owner = Me
       /\ tree[q0].dir = t[p0].dir
       /\ Part(h)[q0] = MadeOf(t[p0], p0, {p0}, IF c.act = "copy" THEN {p0} ELSE {})

(* What its first call is about: an entry that is stored, and the target   *)
(* that it is copied to.                                                   *)
LEMMA MakingCall ==
  ASSUME Inv, Stored, NEW h, NEW k, NEW L, NEW t, NEW from, NEW to, Making(h, k, L, t, from, to),
         NEW c, c = work[h][1], NEW p0, p0 = c.from, NEW q0, q0 = c.to
  PROVE  CallIs(h, L, t, from, to, c, p0, q0)
<1>1. PICK w, v : w = work[h] /\ v = Part(h)
  OBVIOUS
<1>2. PICK U, M, E : U = Uncopied(w, L) /\ M = Altered(w, L) /\ E = Blank(w, L)
  OBVIOUS
<1>3. /\ h \in Handlers /\ status[h] = Serving /\ req[h] \in Requests /\ k \in 1..Len(req[h].to)
      /\ from = req[h].path /\ to = req[h].to[k] /\ Within(from, Root) /\ L \in Nat \ {0}
      /\ Accepted(from, to) /\ MakesNew(t, from, to)
      /\ Calls(w, L, t, from, to, Nodes(h))
      /\ Partly(req[h], t, from, to, v, U, M, E)
  BY <1>1, <1>2, MakingIs
<1>4. Copying(h, t, from, to, U, M, E)
  BY <1>1, <1>2, MakingFinds
<1>5. 1 \in 1..L /\ c = w[1]
  BY <1>1, <1>3
<1>6. /\ p0 \in DOMAIN t /\ Within(p0, from) /\ q0 = Rebased(p0, from, to)
      /\ c.act \in Looked \cup {"list", "copy", "chmod"} /\ Knows(c, t, Nodes(h))
  BY <1>3, <1>5 DEF Calls, CallsFor
<1>7. WorkInv /\ TreeInv /\ Safe(c)
  BY <1>1, <1>3, <1>5, FirstCall DEF Inv
<1>8. /\ p0 \in Path /\ p0 \in DOMAIN tree /\ LookupError(tree, p0) = "ok" /\ p0 \in DOMAIN Nodes(h)
      /\ Nodes(h)[p0] = tree[p0]
      /\ t[p0].dir = tree[p0].dir /\ t[p0].mode = tree[p0].mode
      /\ t[p0].data = IF t[p0].dir THEN <<>> ELSE data[tree[p0].id]
  BY <1>4, <1>6 DEF Copying
<1>9. /\ About(req[h], q0) /\ Within(q0, to) /\ q0 \in Path
      /\ q0 \in DOMAIN tree <=> p0 \notin U
      /\ q0 \in DOMAIN tree => /\ q0 \in DOMAIN v /\ v[q0] = MadeOf(t[p0], p0, M, E)
                               /\ tree[q0].dir = t[p0].dir /\ tree[q0].owner = Me
  BY <1>1, <1>4, <1>6 DEF Copying
<1>10. p0 # q0
  BY <1>3, <1>6, <1>9 DEF Partly
<1>11. About(req[h], p0)
  BY <1>3, <1>6, AboutPath
<1>12. Todo(c, p0)
  BY <1>6 DEF Todo, WillMake, WillAlter, Within, Looked
<1>13. \A i \in 1..L : Todo(w[i], p0) => i = 1
  BY <1>3, <1>5, <1>8, <1>12 DEF Calls, Apart
<1>14. p0 \in U <=> WillMake(c, p0)
  BY <1>2, <1>5, <1>8, <1>13 DEF Uncopied, Todo
<1>15. p0 \in M <=> WillAlter(c, p0)
  BY <1>2, <1>5, <1>8, <1>13 DEF Altered, Todo
<1>16. p0 \in E <=> c.act = "copy"
  <2>1. \A i \in 1..L : w[i].act = "copy" /\ p0 = w[i].from => Todo(w[i], p0)
    BY DEF Todo, WillAlter
  <2> QED
    BY <1>2, <1>5, <1>8, <1>13, <2>1 DEF Blank
<1>17. ~Below(p0, p0)
  BY <1>8, BelowIsLonger
<1>18. ASSUME c.act \in Looked PROVE q0 \notin DOMAIN tree /\ ParentError(tree, q0) = "ok"
  <2>1. q0 \notin DOMAIN tree
    BY <1>9, <1>14, <1>18 DEF WillMake, Within
  <2>2. \A i \in 1..L : w[i].from \in Path
    BY <1>3, <1>4 DEF Calls, CallsFor, Copying
  <2>3. \A a \in Ancestors(p0) : a \notin U
    BY <1>2, <1>3, <1>5, <1>8, <1>18, <2>2, AboveIsMade
  <2>4. Partly(req[h], t, from, to, Part(h), U, M, E)
    BY <1>1, <1>3
  <2>5. ParentError(tree, q0) = "ok"
    <3>1. h \in Handlers /\ req[h] \in Requests /\ k \in 1..Len(req[h].to) /\ from = req[h].path
          /\ to = req[h].to[k] /\ Within(from, Root) /\ Accepted(from, to) /\ MakesNew(t, from, to)
      BY <1>3
    <3>2. p0 \in DOMAIN t /\ Within(p0, from) /\ q0 = Rebased(p0, from, to)
      BY <1>6
    <3> HIDE DEF Making
    <3> QED
      BY <3>1, <3>2, <2>3, <2>4, PlaceIsMade, ZenonT(60)
  <2> QED
    BY <2>1, <2>5
<1>19. ASSUME c.act \notin Looked
       PROVE  /\ q0 \in DOMAIN tree /\ q0 \in DOMAIN v /\ tree[q0].owner = Me
              /\ tree[q0].dir = t[p0].dir
              /\ v[q0] = MadeOf(t[p0], p0, {p0}, IF c.act = "copy" THEN {p0} ELSE {})
  <2>1. p0 \notin U
    BY <1>14, <1>17, <1>19 DEF WillMake
  <2>2. p0 \in M
    BY <1>6, <1>15, <1>19 DEF WillAlter
  <2>3. MadeOf(t[p0], p0, M, E) = MadeOf(t[p0], p0, {p0}, IF c.act = "copy" THEN {p0} ELSE {})
    BY <1>16, <2>2 DEF MadeOf
  <2> QED
    BY <1>9, <2>1, <2>3
<1> QED
  BY <1>1, <1>3, <1>6, <1>7, <1>8, <1>9, <1>10, <1>11, <1>18, <1>19 DEF CallIs

(* One call that takes over.                                               *)
LEMMA TakenOver ==
  ASSUME NEW h, NEW L, NEW t, NEW from, NEW to, NEW c, NEW p0, NEW q0,
         CallIs(h, L, t, from, to, c, p0, q0),
         NEW d, d.from = p0, d.to = q0, d.act \in Looked \cup {"list", "copy", "chmod"},
         NEW N, Knows(d, t, N), \A p \in Path : Todo(d, p) => Todo(c, p),
         NEW cs, cs = <<d>>
  PROVE  TakesOver(c, cs, 1, t, from, to, N)
<1>1. \A i \in 1..1 : i = 1 /\ cs[i] = d
  OBVIOUS
<1> QED
  BY <1>1 DEF TakesOver, CallIs

(* How a step of a copy ends.                                              *)
CopyGoes(h) == IF status'[h] = Serving THEN CopyWay(h)' ELSE IsAlone(h)'

(* A call that only looks and is followed by another for the same copy.    *)
LEMMA MakingLooksOn ==
  ASSUME Inv, Stored, NEW h, NEW k, NEW L, NEW t, NEW from, NEW to, Making(h, k, L, t, from, to),
         req' = req, before'[h] = before[h], NEW c, c = work[h][1], c.act \in Looked,
         NEW d, d.from = c.from, d.to = c.to, d.act \in Looked, Knows(d, t, Nodes(h)),
         Continue(h, <<d>>)
  PROVE  CopyGoes(h)
<1>1. PICK p0, q0 : p0 = c.from /\ q0 = c.to
  OBVIOUS
<1>2. CallIs(h, L, t, from, to, c, p0, q0)
  BY <1>1, MakingCall
<1>3. PICK cs : cs = <<d>>
  OBVIOUS
<1>4. cs \in Seq({d}) /\ Len(cs) = 1 /\ \A i \in 1..1 : i = 1 /\ cs[i] = d
  BY <1>3
<1>5. Then(h, cs) /\ UNCHANGED fs
  BY <1>3 DEF Continue
<1>6. \A p : (WillMake(d, p) <=> WillMake(c, p)) /\ ~WillAlter(d, p) /\ ~WillAlter(c, p)
  BY DEF WillMake, WillAlter, Looked
<1>7. d.act # "copy" /\ c.act # "copy"
  BY DEF Looked
<1>8. \A p \in Path : Todo(d, p) => Todo(c, p)
  BY <1>6 DEF Todo
<1>9. PICK N : N = Nodes(h)
  OBVIOUS
<1>10. TakesOver(c, cs, 1, t, from, to, N)
  BY <1>1, <1>2, <1>3, <1>8, <1>9, TakenOver
<1>11. TakesOver(c, cs, Len(cs), t, from, to, Nodes(h))
  BY <1>4, <1>9, <1>10
<1>12. \A i \in 1..Len(cs) : cs[i].act # "copy"
  BY <1>4, <1>7
<1>13. \A p \in DOMAIN t : Within(p, from) =>
              /\ WillMake(c, p) <=> \E i \in 1..Len(cs) : WillMake(cs[i], p)
              /\ WillAlter(c, p) <=> \E i \in 1..Len(cs) : WillAlter(cs[i], p)
  BY <1>4, <1>6
<1>14. IF status'[h] = Serving THEN CopyWay(h)' ELSE IsAlone(h)'
  <2>1. cs \in Seq({d})
    BY <1>4
  <2> QED
    BY <2>1, <1>5, <1>7, <1>11, <1>12, <1>13, MakingLooks, SMTT(60)
<1> QED
  BY <1>14 DEF CopyGoes

(* A copy goes on when it has looked at an entry.                          *)
LEMMA MakingLstat ==
  ASSUME Inv, Stored, NEW h, NEW k, NEW L, NEW t, NEW from, NEW to, Making(h, k, L, t, from, to),
         req' = req, before'[h] = before[h], NEW c, c = work[h][1], c.act = "lstat", Step(h)
  PROVE  CopyGoes(h)
<1>1. PICK p0, q0 : p0 = c.from /\ q0 = c.to
  OBVIOUS
<1>2. /\ Safe(c) /\ p0 \in DOMAIN t /\ LookupError(tree, p0) = "ok"
      /\ t[p0].dir = tree[p0].dir /\ t[p0].mode = tree[p0].mode
  <2>1. CallIs(h, L, t, from, to, c, p0, q0)
    BY <1>1, MakingCall
  <2> QED
    BY <2>1 DEF CallIs
<1>3. CopyLstat(h, c)
  BY WhichAction DEF Writing
<1>4. PICK d : d = [c EXCEPT !.act = "open", !.fi = Info(c.from)]
  OBVIOUS
<1>5. Continue(h, <<d>>)
  BY <1>1, <1>2, <1>3, <1>4 DEF CopyLstat, Fails
<1>6. d.act = "open" /\ d.from = p0 /\ d.to = q0 /\ d.fi = Info(p0)
  BY <1>1, <1>2, <1>4 DEF Safe
<1>7. Knows(d, t, Nodes(h))
  BY <1>2, <1>6 DEF Knows, Info
<1> QED
  BY <1>1, <1>5, <1>6, <1>7, MakingLooksOn DEF Looked

(* A copy goes on when it has opened an entry.                             *)
LEMMA MakingOpen ==
  ASSUME Inv, Stored, NEW h, NEW k, NEW L, NEW t, NEW from, NEW to, Making(h, k, L, t, from, to),
         req' = req, before'[h] = before[h], NEW c, c = work[h][1], c.act = "open", Step(h)
  PROVE  CopyGoes(h)
<1>1. PICK p0, q0 : p0 = c.from /\ q0 = c.to
  OBVIOUS
<1>2. /\ Safe(c) /\ p0 \in DOMAIN t /\ LookupError(tree, p0) = "ok" /\ Knows(c, t, Nodes(h))
      /\ t[p0].dir = tree[p0].dir /\ p0 \in DOMAIN Nodes(h) /\ Nodes(h)[p0] = tree[p0]
  <2>1. CallIs(h, L, t, from, to, c, p0, q0)
    BY <1>1, MakingCall
  <2> QED
    BY <2>1 DEF CallIs
<1>3. CopyOpen(h, c)
  BY WhichAction DEF Writing
<1>4. PICK d : d = [c EXCEPT !.act = IF c.fi.dir THEN "copyDir" ELSE "copyFile",
                             !.fd = Opened(c.from)]
  OBVIOUS
<1>5. Continue(h, <<d>>)
  BY <1>1, <1>2, <1>3, <1>4 DEF CopyOpen, Fails
<1>6. /\ d.act = IF c.fi.dir THEN "copyDir" ELSE "copyFile"
      /\ d.from = p0 /\ d.to = q0 /\ d.fi = c.fi /\ d.fd = Opened(p0)
  BY <1>1, <1>2, <1>4 DEF Safe
<1>7. c.fi.dir = t[p0].dir /\ c.fi.mode = t[p0].mode
  BY <1>1, <1>2 DEF Knows
<1>8. d.fd.id = tree[p0].id /\ d.fd.dir = tree[p0].dir
  BY <1>6 DEF Opened
<1>9. Knows(d, t, Nodes(h))
  BY <1>2, <1>6, <1>7, <1>8 DEF Knows
<1> QED
  BY <1>1, <1>5, <1>6, <1>9, MakingLooksOn DEF Looked

(* A call that makes or alters the copy of p0, and is followed by another  *)
(* for the same copy.                                                      *)
LEMMA MakingSetsOn ==
  ASSUME Inv, Stored, NEW h, NEW k, NEW L, NEW t, NEW from, NEW to, Making(h, k, L, t, from, to),
         req' = req, before'[h] = before[h], NEW c, c = work[h][1],
         NEW p0, p0 = c.from, NEW q0, q0 = c.to,
         NEW d, d.from = p0, d.to = q0, d.act \in {"list", "copy", "chmod"},
         Knows(d, t, Nodes(h)'), Then(h, <<d>>), \A p \in Path : WillMake(d, p) => WillMake(c, p),
         \A p \in DOMAIN t : Within(p, from) /\ p # p0 => (WillMake(c, p) <=> WillMake(d, p)),
         Sets(h, q0, MadeOf(t[p0], p0, {p0}, IF d.act = "copy" THEN {p0} ELSE {}))
  PROVE  CopyGoes(h)
<1>2. CallIs(h, L, t, from, to, c, p0, q0)
  BY MakingCall
<1>3. PICK cs : cs = <<d>>
  OBVIOUS
<1>4. cs \in Seq({d}) /\ Len(cs) = 1 /\ \A i \in 1..1 : i = 1 /\ cs[i] = d
  BY <1>3
<1>5. cs \in Seq({d}) /\ Then(h, cs)
  BY <1>3, <1>4
<1>6. /\ p0 \in DOMAIN t /\ Within(p0, from) /\ q0 = Rebased(p0, from, to) /\ p0 \in Path
      /\ c.act \in Looked \cup {"list", "copy", "chmod"}
  BY <1>2 DEF CallIs
<1>7. Todo(c, p0)
  BY <1>6 DEF Todo, WillMake, WillAlter, Within
<1>8. \A p \in Path : Todo(d, p) => Todo(c, p)
  BY <1>7 DEF Todo, WillAlter
<1>9. PICK N : N = Nodes(h)'
  OBVIOUS
<1>10. TakesOver(c, cs, 1, t, from, to, N)
  <2>1. Knows(d, t, N)
    BY <1>9
  <2>2. d.act \in Looked \cup {"list", "copy", "chmod"}
    OBVIOUS
  <2> QED
    BY <1>2, <1>3, <1>8, <2>1, <2>2, TakenOver
<1>11. TakesOver(c, cs, Len(cs), t, from, to, Nodes(h)')
  BY <1>4, <1>9, <1>10
<1>12. ~WillMake(d, p0)
  BY <1>6, BelowIsLonger DEF WillMake, Looked
<1>13. \A i \in 1..Len(cs) : cs[i].from = p0 /\ ~WillMake(cs[i], p0)
  BY <1>4, <1>12
<1>14. \A p \in DOMAIN t : Within(p, from) /\ p # p0 =>
         WillMake(c, p) <=> \E i \in 1..Len(cs) : WillMake(cs[i], p)
  BY <1>4
<1>20. PICK M : M = {p0}
  OBVIOUS
<1>15. p0 \in M <=> \E i \in 1..Len(cs) : WillAlter(cs[i], p0)
  BY <1>4, <1>20 DEF WillAlter
<1>16. PICK E : E = IF d.act = "copy" THEN {p0} ELSE {}
  OBVIOUS
<1>17. p0 \in E <=> \E i \in 1..Len(cs) : cs[i].act = "copy"
  BY <1>4, <1>16
<1>18. Sets(h, q0, MadeOf(t[p0], p0, M, E))
  BY <1>16, <1>20
<1>21. CarriesOn(t, from, c, cs, Len(cs), p0, M, E)
  BY <1>7, <1>13, <1>14, <1>15, <1>17 DEF CarriesOn
<1>19. IF status'[h] = Serving THEN CopyWay(h)' ELSE IsAlone(h)'
  <2>1. p0 \in DOMAIN t /\ Within(p0, from) /\ q0 = Rebased(p0, from, to)
    BY <1>6
  <2>2. cs \in Seq({d}) /\ Then(h, cs)
    BY <1>5
  <2> QED
    BY <2>1, <2>2, <1>11, <1>18, <1>21, MakingSets
<1> QED
  BY <1>19 DEF CopyGoes

(* The directory is made, with the mode that it has until its entries are. *)
LEMMA MakingDir ==
  ASSUME Inv, Stored, FreeIds # {},
         NEW h, NEW k, NEW L, NEW t, NEW from, NEW to, Making(h, k, L, t, from, to),
         req' = req, before'[h] = before[h], NEW c, c = work[h][1], c.act = "copyDir", Step(h)
  PROVE  CopyGoes(h)
<1>1. PICK p0, q0 : p0 = c.from /\ q0 = c.to
  OBVIOUS
<1>2. CallIs(h, L, t, from, to, c, p0, q0)
  BY <1>1, MakingCall
<1>3. /\ Safe(c) /\ TreeInv /\ p0 \in Path /\ p0 \in DOMAIN t /\ p0 # q0 /\ About(req[h], q0)
      /\ Knows(c, t, Nodes(h)) /\ p0 \in DOMAIN Nodes(h) /\ q0 \notin DOMAIN tree
      /\ ParentError(tree, q0) = "ok"
      /\ t[p0].data = IF t[p0].dir THEN <<>> ELSE data[tree[p0].id]
  BY <1>2 DEF CallIs, Looked
<1>4. t[p0].dir /\ c.fi.mode = t[p0].mode /\ c.fi.dir = t[p0].dir /\ c.fd.id = Nodes(h)[p0].id
      /\ c.fd.dir = t[p0].dir
  BY <1>1, <1>3 DEF Knows
<1>5. CopyDir(h, c)
  BY WhichAction DEF Writing
<1>6. PICK d : d = [c EXCEPT !.act = "list"]
  OBVIOUS
<1>7. OrNoSpace(MkdirError(tree, q0)) = "ok"
  BY <1>3 DEF OrNoSpace, MkdirError
<1>8. MakeDir(q0) /\ Then(h, <<d>>)
  BY <1>1, <1>5, <1>6, <1>7 DEF CopyDir, Fails
<1>9. d.act = "list" /\ d.from = p0 /\ d.to = q0 /\ d.fi = c.fi /\ d.fd = c.fd
  BY <1>1, <1>3, <1>6 DEF Safe
<1>10. Sets(h, q0, Contract!New(TRUE, <<>>))
  BY <1>3, <1>8, MakeDirSets
<1>11. Contract!New(TRUE, <<>>) = MadeOf(t[p0], p0, {p0}, {})
  BY <1>3, <1>4 DEF Contract!New, MadeOf
<1>12. p0 \in DOMAIN Nodes(h)' /\ Nodes(h)'[p0] = Nodes(h)[p0]
  <2>1. req'[h] = req[h]
    OBVIOUS
  <2>2. p0 \in DOMAIN Part(h) /\ DOMAIN Nodes(h)' = DOMAIN Part(h)'
    BY <1>3, <2>1, PartIs DEF Nodes, Part
  <2>3. About(req[h], p0)
    BY <2>2, PartIs
  <2> QED
    BY <1>3, <1>10, <2>2, <2>3 DEF Sets
<1>13. Knows(d, t, Nodes(h)')
  BY <1>3, <1>4, <1>9, <1>12 DEF Knows
<1>14. \A p : p # p0 => (WillMake(c, p) <=> WillMake(d, p))
  BY <1>1, <1>9 DEF WillMake, Within, Looked
<1>15. \A p : WillMake(d, p) => WillMake(c, p)
  BY <1>1, <1>9 DEF WillMake, Within, Looked
<1>16. Sets(h, q0, MadeOf(t[p0], p0, {p0}, IF d.act = "copy" THEN {p0} ELSE {}))
  BY <1>9, <1>10, <1>11
<1> QED
  BY <1>1, <1>8, <1>9, <1>13, <1>14, <1>15, <1>16, MakingSetsOn

(* A file contains nothing.                                                *)
LEMMA NothingInFile ==
  ASSUME Inv, Stored, NEW h, NEW k, NEW L, NEW t, NEW from, NEW to, Making(h, k, L, t, from, to),
         NEW p0 \in DOMAIN t, Within(p0, from), ~t[p0].dir, NEW p \in DOMAIN t, Within(p, from)
  PROVE  ~Below(p, p0)
<1>1. PICK U, M, E : Copying(h, t, from, to, U, M, E)
  BY MakingFinds
<1>2. p \in DOMAIN tree /\ p0 \in DOMAIN tree /\ t[p0].dir = tree[p0].dir
  BY <1>1 DEF Copying
<1> QED
  BY <1>2 DEF Below, Stored, Closed

(* The file is made, or is there with no content.                          *)
LEMMA MakingFile ==
  ASSUME Inv, Stored, FreeIds # {},
         NEW h, NEW k, NEW L, NEW t, NEW from, NEW to, Making(h, k, L, t, from, to),
         req' = req, before'[h] = before[h], NEW c, c = work[h][1], c.act = "copyFile", Step(h)
  PROVE  CopyGoes(h)
<1>1. PICK p0, q0 : p0 = c.from /\ q0 = c.to
  OBVIOUS
<1>2. CallIs(h, L, t, from, to, c, p0, q0)
  BY <1>1, MakingCall
<1>3. /\ Safe(c) /\ TreeInv /\ p0 \in Path /\ p0 \in DOMAIN t /\ p0 # q0 /\ About(req[h], q0)
      /\ Knows(c, t, Nodes(h)) /\ p0 \in DOMAIN Nodes(h) /\ q0 \notin DOMAIN tree
      /\ ParentError(tree, q0) = "ok" /\ Within(p0, from)
  BY <1>2 DEF CallIs, Looked
<1>4. ~t[p0].dir /\ c.fi.mode = t[p0].mode /\ c.fi.dir = t[p0].dir /\ c.fd.id = Nodes(h)[p0].id
      /\ c.fd.dir = t[p0].dir
  BY <1>1, <1>3 DEF Knows
<1>5. CopyFile(h, c)
  BY WhichAction DEF Writing
<1>6. PICK d : d = [c EXCEPT !.act = "copy", !.tf = Created(c.to)]
  OBVIOUS
<1>7. CreationError(q0) = "ok"
  BY <1>3 DEF CreationError, OrNoSpace, CreateError
<1>8. Create(q0) /\ Then(h, <<d>>)
  BY <1>1, <1>5, <1>6, <1>7 DEF CopyFile, Fails
<1>9. d.act = "copy" /\ d.from = p0 /\ d.to = q0 /\ d.fi = c.fi /\ d.fd = c.fd /\ d.tf = Created(q0)
  BY <1>1, <1>3, <1>6 DEF Safe
<1>20. q0 \notin DOMAIN Part(h)
  BY <1>3, PartIs
<1>10. Sets(h, q0, Contract!New(FALSE, <<>>)) /\ q0 \in DOMAIN Part(h)'
       /\ Nodes(h)'[q0].id = Created(q0).id
  BY <1>3, <1>8, <1>20, CreateSets
<1>11. Contract!New(FALSE, <<>>) = MadeOf(t[p0], p0, {p0}, {p0})
  <2>1. PICK e : e = t[p0]
    OBVIOUS
  <2>2. e.dir = FALSE
    BY <1>4, <2>1
  <2>3. MadeOf(e, p0, {p0}, {p0}) = [dir |-> FALSE, mode |-> "default", owner |-> Me, group |-> MyGroup, data |-> <<>>]
    BY <2>2 DEF MadeOf
  <2> QED
    BY <2>1, <2>3 DEF Contract!New
<1>12. p0 \in DOMAIN Nodes(h)' /\ Nodes(h)'[p0] = Nodes(h)[p0] /\ q0 \in DOMAIN Nodes(h)'
  <2>1. req'[h] = req[h]
    OBVIOUS
  <2>2. p0 \in DOMAIN Part(h) /\ DOMAIN Nodes(h)' = DOMAIN Part(h)'
    BY <1>3, <2>1, PartIs DEF Nodes, Part
  <2>3. About(req[h], p0)
    BY <2>2, PartIs
  <2> QED
    BY <1>3, <1>10, <2>2, <2>3 DEF Sets
<1>13. Knows(d, t, Nodes(h)')
  BY <1>3, <1>4, <1>9, <1>10, <1>12 DEF Knows
<1>14. \A p \in DOMAIN t : Within(p, from) /\ p # p0 => (WillMake(c, p) <=> WillMake(d, p))
  BY <1>1, <1>3, <1>4, <1>9, NothingInFile DEF WillMake, Within, Looked
<1>15. \A p : WillMake(d, p) => WillMake(c, p)
  BY <1>1, <1>9 DEF WillMake, Within, Looked
<1>16. Sets(h, q0, MadeOf(t[p0], p0, {p0}, IF d.act = "copy" THEN {p0} ELSE {}))
  BY <1>9, <1>10, <1>11
<1> QED
  BY <1>1, <1>8, <1>9, <1>13, <1>14, <1>15, <1>16, MakingSetsOn

(* The content is written.                                                 *)
LEMMA WrittenWhole ==
  ASSUME NEW u \in Seq(Unit)
  PROVE  Written(<<>>, 0, u) = u
<1>1. PICK n : n = Len(u)
  OBVIOUS
<1>2. n \in Nat /\ DOMAIN u = 1..n
  BY <1>1
<1>3. (IF Len(<<>>) > 0 + n THEN Len(<<>>) ELSE 0 + n) = n
  BY <1>2
<1>4. Written(<<>>, 0, u) = [i \in 1..n |-> IF i \in 0 + 1..0 + n THEN u[i - 0]
                                            ELSE IF i <= Len(<<>>) THEN <<>>[i] ELSE Zero]
  BY <1>1, <1>3 DEF Written
<1>5. u = [i \in 1..n |-> u[i]]
  BY <1>2
<1>6. \A i \in 1..n : i \in 0 + 1..0 + n /\ i - 0 = i
  BY <1>2
<1> QED
  BY <1>4, <1>5, <1>6

(* A copy goes on when it has written a piece of content.                  *)
LEMMA MakingContent ==
  ASSUME Inv, Stored, Contents,
         NEW h, NEW k, NEW L, NEW t, NEW from, NEW to, Making(h, k, L, t, from, to),
         req' = req, before'[h] = before[h], NEW c, c = work[h][1], c.act = "copy", Step(h)
  PROVE  CopyGoes(h)
<1>1. PICK p0, q0 : p0 = c.from /\ q0 = c.to
  OBVIOUS
<1>2. CallIs(h, L, t, from, to, c, p0, q0)
  BY <1>1, MakingCall
<1>3. /\ Safe(c) /\ TreeInv /\ p0 \in Path /\ p0 \in DOMAIN t /\ p0 # q0 /\ About(req[h], q0)
      /\ Knows(c, t, Nodes(h)) /\ p0 \in DOMAIN Nodes(h) /\ p0 \in DOMAIN tree /\ Nodes(h)[p0] = tree[p0]
      /\ q0 \in DOMAIN tree /\ q0 \in DOMAIN Part(h) /\ tree[q0].dir = t[p0].dir
      /\ Part(h)[q0] = MadeOf(t[p0], p0, {p0}, {p0})
      /\ t[p0].data = IF t[p0].dir THEN <<>> ELSE data[tree[p0].id]
  BY <1>2 DEF CallIs, Looked
<1>4. ~t[p0].dir /\ c.fi.mode = t[p0].mode /\ c.fi.dir = t[p0].dir /\ c.fd.id = Nodes(h)[p0].id
      /\ c.fd.dir = t[p0].dir /\ q0 \in DOMAIN Nodes(h) /\ c.tf.id = Nodes(h)[q0].id
  BY <1>1, <1>3 DEF Knows
<1>5. CopyData(h, c)
  BY WhichAction DEF Writing
<1>6. PICK d : d = [c EXCEPT !.act = "chmod"]
  OBVIOUS
<1>7. PICK u : u = data[c.fd.id]
  OBVIOUS
<1>8. Write(c.tf, 0, u) /\ Then(h, <<d>>)
  BY <1>4, <1>5, <1>6, <1>7 DEF CopyData
<1>9. d.act = "chmod" /\ d.from = p0 /\ d.to = q0 /\ d.fi = c.fi
  BY <1>1, <1>3, <1>6 DEF Safe
<1>10. c.tf.id = tree[q0].id /\ ~tree[q0].dir
  BY <1>3, <1>4, PartIs
<1>11. Sets(h, q0, [Part(h)[q0] EXCEPT !.data = Written(Part(h)[q0].data, 0, u)])
  BY <1>3, <1>8, <1>10, WriteSets
<1>12. u = t[p0].data /\ u \in Seq(Unit)
  BY <1>3, <1>4, <1>7 DEF Contents, TreeInv
<1>17. Part(h)[q0].data = <<>> /\ Written(<<>>, 0, u) = u
  <2>1. MadeOf(t[p0], p0, {p0}, {p0}).data = <<>>
    BY DEF MadeOf
  <2> QED
    BY <1>3, <1>12, <2>1, WrittenWhole
<1>18. [Part(h)[q0] EXCEPT !.data = u] = MadeOf(t[p0], p0, {p0}, {})
  BY <1>3, <1>12 DEF MadeOf
<1>13. Knows(d, t, Nodes(h)')
  BY <1>3, <1>4, <1>9 DEF Knows
<1>14. \A p : ~WillMake(c, p) /\ ~WillMake(d, p)
  BY <1>9 DEF WillMake, Looked
<1>16. Sets(h, q0, MadeOf(t[p0], p0, {p0}, IF d.act = "copy" THEN {p0} ELSE {}))
  BY <1>9, <1>11, <1>17, <1>18
<1> QED
  BY <1>1, <1>8, <1>9, <1>13, <1>14, <1>16, MakingSetsOn

(* The copy gets the mode of what it is a copy of, and is done.            *)
LEMMA MakingMode ==
  ASSUME Inv, Stored,
         NEW h, NEW k, NEW L, NEW t, NEW from, NEW to, Making(h, k, L, t, from, to),
         req' = req, before'[h] = before[h], NEW c, c = work[h][1], c.act = "chmod", Step(h)
  PROVE  CopyGoes(h)
<1>1. PICK p0, q0 : p0 = c.from /\ q0 = c.to
  OBVIOUS
<1>2. CallIs(h, L, t, from, to, c, p0, q0)
  BY <1>1, MakingCall
<1>3. /\ Safe(c) /\ TreeInv /\ p0 \in Path /\ p0 \in DOMAIN t /\ About(req[h], q0)
      /\ Within(p0, from) /\ q0 = Rebased(p0, from, to)
      /\ Knows(c, t, Nodes(h)) /\ q0 \in DOMAIN tree /\ q0 \in DOMAIN Part(h) /\ tree[q0].owner = Me
      /\ Part(h)[q0] = MadeOf(t[p0], p0, {p0}, {})
  BY <1>2 DEF CallIs, Looked
<1>4. c.fi.mode = t[p0].mode
  BY <1>1, <1>3 DEF Knows
<1>5. CopyChmod(h, c)
  BY WhichAction DEF Writing
<1>6. ChmodError(q0) = "ok"
  <2>1. ParentError(tree, q0) = "ok"
    BY <1>3 DEF Stored, Closed, ParentError
  <2>2. LookupError(tree, q0) = "ok" /\ Owns(q0)
    BY <1>3, <2>1 DEF LookupError, Owns
  <2> QED
    BY <2>2 DEF ChmodError
<1>7. PICK cs : cs = <<>>
  OBVIOUS
<1>8. cs \in Seq({}) /\ Len(cs) = 0 /\ \A i \in 1..Len(cs) : FALSE
  BY <1>7
<1>9. Chmod(q0, c.fi.mode) /\ Then(h, cs)
  BY <1>1, <1>5, <1>6, <1>7 DEF CopyChmod, Fails
<1>10. Sets(h, q0, [Part(h)[q0] EXCEPT !.mode = c.fi.mode])
  BY <1>3, <1>9, ChmodSets
<1>11. [Part(h)[q0] EXCEPT !.mode = c.fi.mode] = MadeOf(t[p0], p0, {}, {})
  BY <1>3, <1>4 DEF MadeOf
<1>12. Sets(h, q0, MadeOf(t[p0], p0, {}, {}))
  BY <1>10, <1>11
<1>13. TakesOver(c, cs, Len(cs), t, from, to, Nodes(h)')
  BY <1>8 DEF TakesOver
<1>14. CarriesOn(t, from, c, cs, Len(cs), p0, {}, {})
  BY <1>1, <1>8 DEF CarriesOn, Todo, WillMake, WillAlter, Looked
<1>15. IF status'[h] = Serving THEN CopyWay(h)' ELSE IsAlone(h)'
  <2>1. cs \in Seq({}) /\ Then(h, cs)
    BY <1>8, <1>9
  <2>2. p0 \in DOMAIN t /\ Within(p0, from) /\ q0 = Rebased(p0, from, to)
    BY <1>3
  <2> QED
    BY <2>1, <2>2, <1>12, <1>13, <1>14, MakingSets
<1> QED
  BY <1>15 DEF CopyGoes

(* The name of x in p added to p is x, and added to where p is now, it is  *)
(* where x is now.                                                         *)
LEMMA NameAdded ==
  ASSUME NEW x \in Path, NEW p \in Path, NEW to \in Path, Within(x, p)
  PROVE  p \o SubSeq(x, Len(p) + 1, Len(x)) = x
<1> DEFINE n == SubSeq(x, Len(p) + 1, Len(x))
<1>1. Len(p) \in Nat /\ Len(x) \in Nat /\ Len(p) <= Len(x) /\ \A i \in 1..Len(p) : p[i] = x[i]
  BY BelowIsOnTheWay DEF Path, Within, OnTheWay
<1>2. n \in Path /\ Len(n) = Len(x) - Len(p) /\ \A i \in 1..Len(n) : n[i] = x[Len(p) + i]
  BY <1>1 DEF Path
<1>3. /\ p \o n \in Path /\ Len(p \o n) = Len(p) + Len(n)
      /\ \A i \in 1..Len(p) : (p \o n)[i] = p[i]
      /\ \A i \in 1..Len(n) : (p \o n)[Len(p) + i] = n[i]
  BY <1>2, ConcatPaths
<1> DEFINE r == p \o n
<1>4. \A i \in 1..Len(x) : r[i] = x[i]
  <2> TAKE i \in 1..Len(x)
  <2>1. CASE i <= Len(p)
    BY <2>1, <1>1, <1>3
  <2>2. CASE i > Len(p)
    <3> DEFINE j == i - Len(p)
    <3>1. j \in 1..Len(n) /\ i = Len(p) + j
      BY <2>2, <1>1, <1>2
    <3> QED
      BY <3>1, <1>2, <1>3
  <2> QED
    BY <2>1, <2>2, <1>1
<1>5. Len(r) = Len(x)
  BY <1>1, <1>2, <1>3
<1> QED
  BY <1>3, <1>4, <1>5, SamePath

(* A path below a copied one is copied below the target.                   *)
LEMMA RebasedOn ==
  ASSUME NEW x \in Path, NEW p \in Path, NEW from \in Path, NEW to \in Path,
         Within(x, p), Within(p, from)
  PROVE  Rebased(p, from, to) \o SubSeq(x, Len(p) + 1, Len(x)) = Rebased(x, from, to)
<1> DEFINE u == SubSeq(p, Len(from) + 1, Len(p))
           n == SubSeq(x, Len(p) + 1, Len(x))
           v == SubSeq(x, Len(from) + 1, Len(x))
<1>1. /\ Len(p) \in Nat /\ Len(x) \in Nat /\ Len(from) \in Nat /\ Len(to) \in Nat
      /\ Len(p) <= Len(x) /\ Len(from) <= Len(p) /\ \A i \in 1..Len(p) : p[i] = x[i]
  BY BelowIsOnTheWay DEF Path, Within, OnTheWay
<1>2. /\ n \in Path /\ Len(n) = Len(x) - Len(p) /\ \A i \in 1..Len(n) : n[i] = x[Len(p) + i]
      /\ u \in Path /\ Len(u) = Len(p) - Len(from) /\ \A i \in 1..Len(u) : u[i] = p[Len(from) + i]
      /\ v \in Path /\ Len(v) = Len(x) - Len(from) /\ \A i \in 1..Len(v) : v[i] = x[Len(from) + i]
  BY <1>1 DEF Path
<1> HIDE DEF u, n, v
<1>3. /\ u \o n \in Path /\ Len(u \o n) = Len(u) + Len(n)
      /\ \A i \in 1..Len(u) : (u \o n)[i] = u[i]
      /\ \A i \in 1..Len(n) : (u \o n)[Len(u) + i] = n[i]
  BY <1>2, ConcatPaths
<1> DEFINE r == u \o n
<1>4. \A i \in 1..Len(v) : r[i] = v[i]
  <2> TAKE i \in 1..Len(v)
  <2>1. CASE i <= Len(u)
    <3>1. i \in 1..Len(u) /\ Len(from) + i \in 1..Len(p)
      BY <2>1, <1>1, <1>2
    <3> QED
      BY <3>1, <1>1, <1>2, <1>3
  <2>2. CASE i > Len(u)
    <3> DEFINE j == i - Len(u)
    <3>1. j \in 1..Len(n) /\ i = Len(u) + j /\ Len(p) + j = Len(from) + i
      BY <2>2, <1>1, <1>2
    <3>2. r[Len(u) + j] = n[j] /\ n[j] = x[Len(p) + j]
      BY <3>1, <1>2, <1>3
    <3>3. v[i] = x[Len(from) + i]
      BY <1>2
    <3> HIDE DEF r, j
    <3> QED
      BY <3>1, <3>2, <3>3
  <2> QED
    BY <2>1, <2>2, <1>1, <1>2
<1>5. Len(r) = Len(v)
  BY <1>1, <1>2, <1>3
<1>6. r = v
  BY <1>2, <1>3, <1>4, <1>5, SamePath
<1>7. (to \o u) \o n = to \o (u \o n)
  BY <1>2
<1> QED
  BY <1>6, <1>7 DEF Rebased, u, n, v

(* The calls cs for the n entries s of directory p0, and the last one f.   *)
Listed(cs, n, s, f, p0, from, to) ==
  /\ \A i \in 1..n : /\ cs[i].act = "lstat" /\ cs[i].from = s[i]
                     /\ cs[i].to = Rebased(s[i], from, to)
  /\ cs[n + 1] = f /\ f.act = "chmod" /\ f.from = p0 /\ f.to = Rebased(p0, from, to)

Entered(t, s, n, p0) ==
  /\ \A i \in 1..n : s[i] \in Path /\ IsChild(s[i], p0) /\ s[i] \in DOMAIN t
  /\ \A i, j \in 1..n : s[i] = s[j] => i = j
  /\ \A p \in DOMAIN t : p \in Path /\ Below(p, p0) => \E i \in 1..n : Within(p, s[i])

(* What is within a path below a directory is below the directory.         *)
LEMMA Inside ==
  ASSUME NEW p \in Path, NEW x \in Path, NEW d \in Path, Within(p, x), Below(x, d)
  PROVE  Below(p, d) /\ p # d
<1>1. Within(x, d)
  BY DEF Within
<1>2. Within(p, d)
  BY <1>1, WithinTransitive
<1>3. p # d
  <2> SUFFICES ASSUME p = d PROVE FALSE
    OBVIOUS
  <2>1. Len(d) \in Nat /\ Len(x) \in Nat /\ Len(d) < Len(x)
    BY BelowIsLonger
  <2>2. CASE d = x
    BY <2>1, <2>2
  <2>3. CASE Below(d, x)
    <3>1. Len(x) < Len(d)
      BY <2>3, BelowIsLonger
    <3> QED
      BY <2>1, <3>1
  <2> QED
    BY <2>2, <2>3 DEF Within
<1> QED
  BY <1>2, <1>3 DEF Within

(* Each path is for one of them, and for one of them only.                 *)
LEMMA ListedApart ==
  ASSUME NEW n \in Nat, NEW cs, NEW s, NEW f, NEW p0 \in Path, NEW from, NEW to, NEW t,
         Listed(cs, n, s, f, p0, from, to), Entered(t, s, n, p0),
         NEW i \in 1..n + 1, NEW j \in 1..n + 1, NEW p \in Path, Todo(cs[i], p), Todo(cs[j], p)
  PROVE  i = j
<1>1. \A k \in 1..n + 1 : k \in 1..n \/ k = n + 1
  OBVIOUS
<1>2. ASSUME NEW k \in 1..n, Todo(cs[k], p) PROVE Within(p, s[k]) /\ Below(s[k], p0) /\ s[k] \in Path
  BY <1>2 DEF Listed, Entered, Todo, WillMake, WillAlter, IsChild
<1>3. Todo(cs[n + 1], p) => p = p0
  BY DEF Listed, Todo, WillMake, WillAlter, Looked
<1>4. ASSUME NEW k \in 1..n, Todo(cs[k], p) PROVE p # p0
  BY <1>2, <1>4, Inside
<1>5. ASSUME i \in 1..n, j \in 1..n PROVE i = j
  <2> SUFFICES ASSUME s[i] # s[j] PROVE FALSE
    BY <1>5 DEF Entered
  <2>1. PICK a, b : a = s[i] /\ b = s[j]
    OBVIOUS
  <2>2. a \in Path /\ b \in Path /\ IsChild(a, p0) /\ IsChild(b, p0)
    BY <1>5, <2>1 DEF Entered
  <2>3. ~Below(a, b) /\ ~Below(b, a) /\ a # b
    BY <2>1, <2>2, ApartEntries
  <2>4. Within(p, a) /\ Within(p, b)
    BY <1>2, <1>5, <2>1
  <2>5. ~(Below(p, a) /\ Below(p, b))
    BY <2>2, <2>3, ApartBelow DEF Within
  <2> QED
    BY <2>3, <2>4, <2>5 DEF Within
<1> QED
  BY <1>1, <1>3, <1>4, <1>5

(* What is left to do at p of call c is what its m calls cs will do.       *)
DoneBy(c, cs, m, t, p) ==
  /\ \A i \in 1..m : Todo(cs[i], p) => Todo(c, p)
  /\ p \in DOMAIN t => /\ WillMake(c, p) <=> \E i \in 1..m : WillMake(cs[i], p)
                       /\ WillAlter(c, p) <=> \E i \in 1..m : WillAlter(cs[i], p)

(* They do what is left to do of the directory.                            *)
LEMMA ListedLeft ==
  ASSUME NEW n \in Nat, NEW cs, NEW s, NEW f, NEW p0 \in Path, NEW from, NEW to, NEW t,
         Listed(cs, n, s, f, p0, from, to), Entered(t, s, n, p0),
         NEW c, c.act = "list", c.from = p0, NEW p \in Path
  PROVE  DoneBy(c, cs, n + 1, t, p)
<1>1. \A k \in 1..n + 1 : k \in 1..n \/ k = n + 1
  OBVIOUS
<1>2. /\ WillMake(c, p) <=> Below(p, p0)
      /\ WillAlter(c, p) <=> p = p0
  BY DEF WillMake, WillAlter, Looked
<1>3. \A k \in 1..n : /\ WillMake(cs[k], p) <=> Within(p, s[k])
                      /\ ~WillAlter(cs[k], p)
  BY DEF Listed, WillMake, WillAlter, Looked
<1>4. ~WillMake(cs[n + 1], p) /\ (WillAlter(cs[n + 1], p) <=> p = p0) /\ n + 1 \in 1..n + 1
  BY DEF Listed, WillMake, WillAlter, Looked
<1>5. ASSUME NEW k \in 1..n, Within(p, s[k]) PROVE Below(p, p0)
  BY <1>5, Inside DEF Entered, IsChild
<1>6. p \in DOMAIN t /\ Below(p, p0) => \E k \in 1..n : Within(p, s[k])
  BY DEF Entered
<1>7. \A i \in 1..n + 1 : Todo(cs[i], p) => Todo(c, p)
  BY <1>1, <1>2, <1>3, <1>4, <1>5 DEF Todo
<1>8. WillAlter(c, p) <=> \E i \in 1..n + 1 : WillAlter(cs[i], p)
  BY <1>1, <1>2, <1>3, <1>4
<1>9. \A k \in 1..n : k \in 1..n + 1
  OBVIOUS
<1>10. p \in DOMAIN t => (WillMake(c, p) <=> \E i \in 1..n + 1 : WillMake(cs[i], p))
  BY <1>1, <1>2, <1>3, <1>4, <1>5, <1>6, <1>9
<1> QED
  BY <1>7, <1>8, <1>10 DEF DoneBy

(* The calls for the children of a directory, and the change of its mode   *)
(* after them, take over from listing it.                                  *)
LEMMA ListedTakes ==
  ASSUME NEW h, NEW L, NEW t, NEW from \in Path, NEW to, NEW c, NEW p0, NEW q0,
         CallIs(h, L, t, from, to, c, p0, q0), c.act = "list",
         NEW n \in Nat, NEW cs, NEW s, NEW f, Listed(cs, n, s, f, p0, from, to), Entered(t, s, n, p0),
         NEW N, Knows(f, t, N)
  PROVE  TakesOver(c, cs, n + 1, t, from, to, N)
<1>1. p0 \in Path /\ p0 \in DOMAIN t /\ Within(p0, from) /\ c.from = p0
  BY DEF CallIs
<1>2. \A k \in 1..n + 1 : k \in 1..n \/ k = n + 1
  OBVIOUS
<1>3. ASSUME NEW i \in 1..n
      PROVE  /\ cs[i].from \in DOMAIN t /\ Within(cs[i].from, from)
             /\ cs[i].to = Rebased(cs[i].from, from, to)
             /\ cs[i].act = "lstat" /\ Knows(cs[i], t, N)
  <2>1. s[i] \in Path /\ Within(s[i], p0) /\ s[i] \in DOMAIN t
    BY DEF Entered, IsChild, Within
  <2>2. Within(s[i], from)
    BY <1>1, <2>1, WithinTransitive
  <2>3. cs[i].act = "lstat" /\ cs[i].from = s[i] /\ cs[i].to = Rebased(s[i], from, to)
    BY DEF Listed
  <2>4. Knows(cs[i], t, N)
    BY <2>3 DEF Knows
  <2> QED
    BY <2>1, <2>2, <2>3, <2>4
<1>4. /\ cs[n + 1].from \in DOMAIN t /\ Within(cs[n + 1].from, from)
      /\ cs[n + 1].to = Rebased(cs[n + 1].from, from, to)
      /\ cs[n + 1].act = "chmod" /\ Knows(cs[n + 1], t, N)
  BY <1>1 DEF Listed
<1>5. ASSUME NEW i \in 1..n + 1, NEW j \in 1..n + 1, NEW p \in Path, Todo(cs[i], p), Todo(cs[j], p)
      PROVE  i = j
  BY <1>1, <1>5, ListedApart
<1>6. \A i \in 1..n + 1 : \A p \in Path : Todo(cs[i], p) => Todo(c, p)
  BY <1>1, ListedLeft DEF DoneBy
<1>7. ASSUME NEW i \in 1..n + 1
      PROVE  /\ cs[i].from \in DOMAIN t /\ Within(cs[i].from, from)
             /\ cs[i].to = Rebased(cs[i].from, from, to)
             /\ cs[i].act \in {"lstat", "chmod"} /\ Knows(cs[i], t, N)
  BY <1>2, <1>3, <1>4
<1> QED
  BY <1>5, <1>6, <1>7 DEF TakesOver, Looked

(* What is in the tree below the directory is what is to copy.             *)
LEMMA EntriesEntered ==
  ASSUME Inv, Stored, NEW h, NEW k, NEW L, NEW t, NEW from, NEW to, Making(h, k, L, t, from, to),
         NEW p0 \in DOMAIN t, Within(p0, from), p0 \in Path,
         NEW s \in SetToSeqs(Children(tree, p0)), NEW n, n = Len(s)
  PROVE  n \in Nat /\ DOMAIN s = 1..n /\ Entered(t, s, n, p0)
<1>1. PICK U, M, E : Copying(h, t, from, to, U, M, E)
  BY MakingFinds
<1>2. /\ from \in Path /\ \A p : Within(p, from) => (p \in DOMAIN t <=> p \in DOMAIN tree)
  BY <1>1 DEF Copying
<1>3. TreeInv
  BY DEF Inv
<1>4. PICK K : K = Children(tree, p0)
  OBVIOUS
<1>5. IsFiniteSet(K) /\ \A q \in K : q \in Path /\ Below(q, p0) /\ IsChild(q, p0) /\ q \in DOMAIN tree
  BY <1>3, <1>4, ChildrenInside DEF Children
<1>6. /\ s \in Seq(K) /\ DOMAIN s = 1..n
      /\ \A i, j \in 1..n : s[i] = s[j] => i = j
      /\ \A x : x \in K <=> \E i \in 1..n : x = s[i]
  BY <1>4, <1>5, OrderHasEach
<1>7. n \in Nat
  BY <1>6
<1>8. ASSUME NEW q \in Path, Below(q, p0) PROVE q \in DOMAIN t <=> q \in DOMAIN tree
  <2>1. Within(q, from)
    BY <1>2, <1>8, WithinTransitive DEF Within
  <2> QED
    BY <1>2, <2>1
<1>9. \A i \in 1..n : s[i] \in Path /\ IsChild(s[i], p0) /\ s[i] \in DOMAIN t
  BY <1>5, <1>6, <1>8
<1>10. ASSUME NEW p \in DOMAIN t, p \in Path, Below(p, p0) PROVE \E i \in 1..n : Within(p, s[i])
  <2>1. Within(p, from)
    BY <1>2, <1>10, WithinTransitive DEF Within
  <2>2. p \in DOMAIN tree
    BY <1>2, <2>1
  <2>3. \E x \in K : Within(p, x)
    BY <1>4, <1>10, <2>1, <2>2, TowardsChild DEF Stored, Within, Children
  <2> QED
    BY <1>6, <2>1, <2>3
<1> QED
  BY <1>6, <1>7, <1>9, <1>10 DEF Entered

(* The entries are to copy in some order, then the directory gets its mode.*)
LEMMA MakingList ==
  ASSUME Inv, Stored,
         NEW h, NEW k, NEW L, NEW t, NEW from, NEW to, Making(h, k, L, t, from, to),
         req' = req, before'[h] = before[h], NEW c, c = work[h][1], c.act = "list", Step(h)
  PROVE  CopyGoes(h)
<1>1. PICK p0, q0 : p0 = c.from /\ q0 = c.to
  OBVIOUS
<1>2. CallIs(h, L, t, from, to, c, p0, q0)
  BY <1>1, MakingCall
<1>3. /\ Safe(c) /\ p0 \in Path /\ p0 \in DOMAIN t /\ p0 \in DOMAIN tree
      /\ Within(p0, from) /\ q0 = Rebased(p0, from, to)
      /\ Knows(c, t, Nodes(h)) /\ Nodes(h)[p0] = tree[p0]
  BY <1>2 DEF CallIs
<1>4. t[p0].dir /\ c.fd.id = tree[p0].id /\ c.fd.dir = t[p0].dir /\ c.fi.dir = t[p0].dir
      /\ c.fi.mode = t[p0].mode
  BY <1>1, <1>3 DEF Knows
<1>5. from \in Path /\ to \in Path
  BY MakingFinds DEF Copying
<1>6. Places(c.fd) = {p0}
  BY <1>3, <1>4 DEF Places, Stored
<1>7. PICK f : f = [c EXCEPT !.act = "chmod"]
  OBVIOUS
<1>8. f.act = "chmod" /\ f.from = p0 /\ f.to = q0 /\ f.fi = c.fi
  BY <1>1, <1>3, <1>7 DEF Safe
<1> DEFINE Entry0(name) == Call("lstat", p0 \o name, q0 \o name)
<1>9. PICK s \in SetToSeqs(Children(tree, p0)) :
        Continue(h, [i \in DOMAIN s |-> Entry0(SubSeq(s[i], Len(p0) + 1, Len(s[i])))] \o <<f>>)
  <2>1. CopyList(h, c)
    BY WhichAction DEF Writing
  <2>2. \E d \in Places(c.fd) : \E s \in SetToSeqs(Children(tree, d)) :
          Continue(h, [i \in DOMAIN s |->
                         Call("lstat", c.from \o SubSeq(s[i], Len(d) + 1, Len(s[i])),
                              c.to \o SubSeq(s[i], Len(d) + 1, Len(s[i])))] \o <<f>>)
    BY <1>4, <1>6, <1>7, <2>1 DEF CopyList
  <2> QED
    BY <1>1, <1>6, <2>2
<1>10. PICK n : n = Len(s)
  OBVIOUS
<1>11. n \in Nat /\ DOMAIN s = 1..n /\ Entered(t, s, n, p0)
  BY <1>3, <1>10, EntriesEntered
<1>12. PICK es : es = [i \in 1..n |-> Entry0(SubSeq(s[i], Len(p0) + 1, Len(s[i])))]
  OBVIOUS
<1>13. PICK cs : cs = es \o <<f>>
  OBVIOUS
<1>14. Then(h, cs) /\ UNCHANGED fs
  BY <1>9, <1>11, <1>12, <1>13 DEF Continue
<1>15. ASSUME NEW i \in 1..n PROVE es[i] = Call("lstat", s[i], Rebased(s[i], from, to))
  <2>0. PICK x : x = s[i]
    OBVIOUS
  <2>1. x \in Path /\ Within(x, p0)
    BY <1>11, <2>0 DEF Entered, IsChild, Within
  <2>2. p0 \o SubSeq(x, Len(p0) + 1, Len(x)) = x
    BY <1>3, <2>1, NameAdded
  <2>3. Rebased(p0, from, to) \o SubSeq(x, Len(p0) + 1, Len(x)) = Rebased(x, from, to)
    <3>1. p0 \in Path /\ Within(p0, from)
      BY <1>3
    <3> QED
      BY <1>5, <2>1, <3>1, RebasedOn, ZenonT(60)
  <2>4. es[i] = Entry0(SubSeq(x, Len(p0) + 1, Len(x)))
    BY <1>12, <2>0
  <2> QED
    BY <1>3, <2>0, <2>2, <2>3, <2>4
<1> HIDE DEF Entry0
<1> DEFINE S == {es[i] : i \in 1..n} \cup {f}
<1>16. /\ cs \in Seq(S) /\ Len(cs) = n + 1 /\ cs[n + 1] = f /\ \A i \in 1..n : cs[i] = es[i]
  <2>1. es \in Seq(S) /\ Len(es) = n
    BY <1>11, <1>12
  <2>2. <<f>> \in Seq(S) /\ Len(<<f>>) = 1 /\ <<f>>[1] = f
    OBVIOUS
  <2> HIDE DEF S
  <2> QED
    BY <1>11, <1>13, <2>1, <2>2
<1> HIDE DEF S
<1>17. Listed(cs, n, s, f, p0, from, to)
  <2>1. ASSUME NEW i \in 1..n
        PROVE  /\ cs[i].act = "lstat" /\ cs[i].from = s[i]
               /\ cs[i].to = Rebased(s[i], from, to)
    <3>1. PICK x, y, e : x = s[i] /\ y = Rebased(s[i], from, to) /\ e = cs[i]
      OBVIOUS
    <3>2. e = Call("lstat", x, y)
      BY <1>15, <1>16, <3>1
    <3>3. e.act = "lstat" /\ e.from = x /\ e.to = y
      BY <3>2 DEF Call
    <3> QED
      BY <3>1, <3>3
  <2> QED
    BY <1>3, <1>8, <1>16, <2>1 DEF Listed
<1>18. PICK N : N = Nodes(h)
  OBVIOUS
<1>19. Knows(f, t, N)
  BY <1>3, <1>4, <1>8 DEF Knows
<1>20. TakesOver(c, cs, n + 1, t, from, to, N)
  BY <1>2, <1>5, <1>11, <1>17, <1>19, ListedTakes
<1>21. TakesOver(c, cs, Len(cs), t, from, to, Nodes(h))
  BY <1>16, <1>18, <1>20
<1>22. \A i \in 1..Len(cs) : cs[i].act # "copy"
  <2>1. \A i \in 1..n + 1 : i \in 1..n \/ i = n + 1
    BY <1>11
  <2> QED
    BY <1>16, <1>17, <2>1 DEF Listed
<1>23. \A p \in DOMAIN t : Within(p, from) =>
         /\ WillMake(c, p) <=> \E i \in 1..Len(cs) : WillMake(cs[i], p)
         /\ WillAlter(c, p) <=> \E i \in 1..Len(cs) : WillAlter(cs[i], p)
  <2> SUFFICES ASSUME NEW p \in DOMAIN t, Within(p, from)
               PROVE  /\ WillMake(c, p) <=> \E i \in 1..n + 1 : WillMake(cs[i], p)
                      /\ WillAlter(c, p) <=> \E i \in 1..n + 1 : WillAlter(cs[i], p)
    BY <1>16
  <2>1. p \in Path
    BY MakingFinds DEF Copying
  <2> QED
    <3>1. p0 \in Path /\ c.from = p0 /\ n \in Nat /\ Entered(t, s, n, p0)
      BY <1>1, <1>3, <1>11
    <3>2. DoneBy(c, cs, n + 1, t, p)
      BY <3>1, <1>17, <2>1, ListedLeft
    <3> QED
      BY <3>2 DEF DoneBy
<1>24. IF status'[h] = Serving THEN CopyWay(h)' ELSE IsAlone(h)'
  <2>1. cs \in Seq(S)
    BY <1>16
  <2> QED
    BY <2>1, <1>14, <1>21, <1>22, <1>23, MakingLooks
<1> QED
  BY <1>24 DEF CopyGoes

(* Whatever call comes first, what is new is copied.                       *)
LEMMA UnderGoes ==
  ASSUME Inv, Stored, Contents, FreeIds # {},
         NEW h, NEW k, NEW L, NEW t, NEW from, NEW to, Making(h, k, L, t, from, to),
         req' = req, before'[h] = before[h], Step(h)
  PROVE  CopyGoes(h)
<1>1. PICK c : c = work[h][1]
  OBVIOUS
<1>2. c.act \in {"lstat", "open", "copyDir", "copyFile", "list", "copy", "chmod"}
  <2>1. CallIs(h, L, t, from, to, c, c.from, c.to)
    BY <1>1, MakingCall
  <2> QED
    BY <2>1 DEF CallIs, Looked
<1>3. CASE c.act = "lstat"
  BY <1>1, <1>3, MakingLstat
<1>4. CASE c.act = "open"
  BY <1>1, <1>4, MakingOpen
<1>5. CASE c.act = "copyDir"
  BY <1>1, <1>5, MakingDir
<1>6. CASE c.act = "copyFile"
  BY <1>1, <1>6, MakingFile
<1>7. CASE c.act = "list"
  BY <1>1, <1>7, MakingList
<1>8. CASE c.act = "copy"
  BY <1>1, <1>8, MakingContent
<1>9. CASE c.act = "chmod"
  BY <1>1, <1>9, MakingMode
<1> QED
  BY <1>2, <1>3, <1>4, <1>5, <1>6, <1>7, <1>8, <1>9

(* Handler h is at the k-th target, with t made by the copies before it.   *)
Aiming(h, k, t, from, to) ==
  /\ h \in Handlers /\ status[h] = Serving /\ req[h] \in Requests /\ Within(req[h].path, Root)
  /\ Result(h) = Contract!Copies(before[h], req[h].path, req[h].to)
  /\ k \in 1..Len(req[h].to) /\ from = req[h].path /\ to = req[h].to[k]
  /\ Chain(req[h], before[h])[k - 1].status = 200 /\ t = Chain(req[h], before[h])[k - 1].tree

(* What is known of a copy that works on a target.                         *)
LEMMA AimIs ==
  ASSUME NEW h, NEW k, NEW t, NEW from, NEW to, Aiming(h, k, t, from, to)
  PROVE  /\ from \in Path /\ to \in Path /\ req[h].to \in Seq(Path) /\ Len(req[h].to) \in Nat
         /\ k \in Nat
         /\ Chain(req[h], before[h])[k] = Contract!Copy(t, from, to)
<1>1. PICK r, s : r = req[h] /\ s = before[h]
  OBVIOUS
<1>2. PICK C : C = Chain(r, s)
  OBVIOUS
<1>3. /\ r \in Requests /\ k \in 1..Len(r.to) /\ from = r.path /\ to = r.to[k]
      /\ C[k - 1].status = 200 /\ t = C[k - 1].tree
  BY <1>1, <1>2 DEF Aiming
<1>4. r.path \in Path /\ r.to \in Seq(Path)
  BY <1>3, HtFileAssumption
<1>5. CopiedTo(C, s, from, r.to)
  BY <1>2, <1>3, <1>4, CopiesAre DEF Chain
<1>6. C[k] = Contract!Copy(t, from, to)
  BY <1>3, <1>5 DEF CopiedTo
<1> QED
  BY <1>1, <1>2, <1>3, <1>4, <1>6

(* A copy to a target that fails ends the request as the contract says.    *)
LEMMA AimStops ==
  ASSUME NEW h, NEW k, NEW t, NEW from, NEW to, Aiming(h, k, t, from, to),
         req' = req, before'[h] = before[h], NEW u, Agree(req[h], Part(h)', u),
         Contract!Copy(t, from, to) = Contract!Is(status'[h], u), status'[h] \notin {200, Serving}
  PROVE  CopyGoes(h)
<1>1. /\ h \in Handlers /\ Result(h) = Contract!Copies(before[h], req[h].path, req[h].to)
      /\ k \in 1..Len(req[h].to)
  BY DEF Aiming
<1>2. req[h].to \in Seq(Path) /\ Chain(req[h], before[h])[k] = Contract!Is(status'[h], u)
  BY AimIs
<1>3. IF status'[h] = Serving THEN CopyWay(h)' ELSE IsAlone(h)'
  BY <1>1, <1>2, CopyStops
<1> QED
  BY <1>3 DEF CopyGoes

(* A copy to a target that is complete leaves the next targets, or ends    *)
(* the request.                                                            *)
LEMMA AimEnds ==
  ASSUME Inv, NEW h, NEW k, NEW t, NEW from, NEW to, Aiming(h, k, t, from, to),
         req' = req, before'[h] = before[h], NEW u, Agree(req[h], Part(h)', u),
         Contract!Copy(t, from, to) = Contract!Is(200, u),
         Rest(work[h], 1, req[h], k), Then(h, <<>>)
  PROVE  CopyGoes(h)
<1>1. /\ h \in Handlers /\ Result(h) = Contract!Copies(before[h], req[h].path, req[h].to)
      /\ k \in 1..Len(req[h].to) /\ status[h] = Serving
  BY DEF Aiming
<1>2. /\ req[h].to \in Seq(Path) /\ Len(req[h].to) \in Nat /\ k \in Nat
      /\ Chain(req[h], before[h])[k] = Contract!Is(200, u)
  BY AimIs
<1>3. PICK r, cs, w2, code : r = req[h] /\ cs = <<>> /\ w2 = work'[h] /\ code = status'[h]
  OBVIOUS
<1>4. cs \in Seq({}) /\ Len(cs) = 0 /\ Then(h, cs)
  BY <1>3
<1>5. Onwards(w2, code, work[h], 1, cs, 0, r, k)
  <2>1. r.to \in Seq(Path) /\ k \in 0..Len(r.to) /\ Rest(work[h], 1, r, k)
    BY <1>1, <1>2, <1>3
  <2>2. WorkInv /\ 1 \in Nat \ {0}
    BY DEF Inv
  <2>3. Onwards(work'[h], status'[h], work[h], 1, cs, Len(cs), r, k)
    BY <1>1, <1>4, <2>1, <2>2, RestGoes
  <2> QED
    BY <1>3, <1>4, <2>3
<1>6. Rest(w2, 0, r, k) /\ code = IF Len(r.to) - k = 0 THEN 200 ELSE Serving
  <2>1. 1 - 1 + 0 = 0 /\ 1 - 1 + 0 + Len(r.to) - k = Len(r.to) - k
    BY <1>2, <1>3
  <2> QED
    BY <1>5, <2>1 DEF Onwards
<1>7. IF status'[h] = Serving THEN CopyWay(h)' ELSE IsAlone(h)'
  <2>1. /\ Rest(work'[h], 0, req[h], k)
        /\ status'[h] = IF Len(req[h].to) - k = 0 THEN 200 ELSE Serving
    BY <1>3, <1>6
  <2> QED
    BY <1>1, <1>2, <2>1, CopyEnds
<1> QED
  BY <1>7 DEF CopyGoes

(* The copied entry itself is copied to the target.                        *)
LEMMA RebasedItself ==
  ASSUME NEW p \in Path, NEW to \in Path
  PROVE  Rebased(p, p, to) = to
<1>1. SubSeq(p, Len(p) + 1, Len(p)) = <<>>
  BY DEF Path
<1>2. to \o <<>> = to
  BY DEF Path
<1> QED
  BY <1>1, <1>2 DEF Rebased

(* Nothing is at a new target, and all that is to be there is to make.     *)
LEMMA NoneMade ==
  ASSUME Inv, Stored, NEW h, NEW r, r = req[h], r \in Requests, NEW k \in 1..Len(r.to),
         NEW from, NEW to, from = r.path, to = r.to[k], NEW t, to \notin DOMAIN t,
         NEW v, Agree(r, v, t), v = Part(h), NEW w, w[1].act = "lstat", w[1].from = from,
         Accepted(from, to)
  PROVE  Partly(r, t, from, to, v, Uncopied(w, 1), Altered(w, 1), Blank(w, 1))
<1>1. from \in Path /\ to \in Path /\ to # <<>> /\ r.to \in Seq(Path)
  <2>1. from \in Path /\ to \in Path /\ r.to \in Seq(Path)
    BY HtFileAssumption
  <2> QED
    BY <2>1, WithinBeginsLikeIt, RootIsPath DEF Accepted
<1>2. /\ \A p : Within(p, from) => About(r, p)
      /\ \A p : Within(p, to) => About(r, p)
  <2>1. k \in DOMAIN r.to
    BY <1>1
  <2> QED
    BY <2>1, AboutPath
<1>3. \A q : About(r, q) => /\ q \in DOMAIN t <=> q \in DOMAIN v
                            /\ q \in DOMAIN v <=> q \in DOMAIN tree
                            /\ q \in DOMAIN v => v[q] = t[q]
  BY PartIs DEF Agree
<1>4. ASSUME NEW q \in DOMAIN tree PROVE ~Within(q, to)
  <2>1. to \notin DOMAIN tree
    BY <1>2, <1>3 DEF Within
  <2> QED
    BY <2>1 DEF Within, Below, Stored, Closed
<1>5. ASSUME NEW q \in DOMAIN t PROVE ~Within(q, to)
  BY <1>2, <1>3, <1>4
<1>6. \A q \in DOMAIN v : ~Within(q, to)
  BY <1>2, <1>3, <1>4
<1>7. ASSUME NEW p \in DOMAIN t, Within(p, from)
      PROVE  p \in Uncopied(w, 1) /\ Rebased(p, from, to) \notin DOMAIN v
  <2>1. p \in Path
    BY <1>2, <1>3, <1>7 DEF Inv, TreeInv
  <2>2. Within(Rebased(p, from, to), to)
    BY <1>1, <1>7, <2>1, RebasedIsWithin
  <2>3. 1 \in 1..1 /\ WillMake(w[1], p)
    BY <1>7 DEF WillMake, Looked
  <2> QED
    BY <1>6, <2>1, <2>2, <2>3 DEF Uncopied
<1> QED
  BY <1>3, <1>5, <1>6, <1>7 DEF Partly

(* The next target is taken up.                                            *)
LEMMA TakenUp ==
  ASSUME Inv, Stored, NEW h, NEW k, NEW t, NEW from, NEW to, Aiming(h, k, t, from, to),
         req' = req, before'[h] = before[h], UNCHANGED fs, Agree(req[h], Part(h), t),
         Rest(work[h], 1, req[h], k), NEW d, d.act = "lstat", d.from = from, d.to = to,
         Accepted(from, to), Then(h, <<d>>)
  PROVE  CopyGoes(h)
<1>1. /\ h \in Handlers /\ k \in 1..Len(req[h].to) /\ status[h] = Serving
      /\ from = req[h].path /\ to = req[h].to[k] /\ req[h] \in Requests
      /\ Chain(req[h], before[h])[k - 1].status = 200 /\ t = Chain(req[h], before[h])[k - 1].tree
  BY DEF Aiming
<1>2. /\ from \in Path /\ to \in Path /\ req[h].to \in Seq(Path) /\ Len(req[h].to) \in Nat /\ k \in Nat
  BY AimIs
<1>3. PICK r, s, cs, w2, code : r = req[h] /\ s = before[h] /\ cs = <<d>> /\ w2 = work'[h]
                                /\ code = status'[h]
  OBVIOUS
<1>4. cs \in Seq({d}) /\ Len(cs) = 1 /\ cs[1] = d /\ Then(h, cs)
  BY <1>3
<1>5. Onwards(w2, code, work[h], 1, cs, 1, r, k)
  <2>1. r.to \in Seq(Path) /\ k \in 0..Len(r.to) /\ Rest(work[h], 1, r, k)
    BY <1>1, <1>2, <1>3
  <2>2. WorkInv /\ 1 \in Nat \ {0} /\ cs \in Seq({d}) /\ Then(h, cs)
    BY <1>4 DEF Inv
  <2>3. Onwards(work'[h], status'[h], work[h], 1, cs, Len(cs), r, k)
    BY <1>1, <2>1, <2>2, RestGoes
  <2> QED
    BY <1>3, <1>4, <2>3
<1>6. Rest(w2, 1, r, k) /\ w2[1] = d /\ code = Serving
  <2>1. 1 - 1 + 1 = 1 /\ 1 \in 1..1
    OBVIOUS
  <2>2. \A a \in Nat : \A b \in 1..a : 1 - 1 + 1 + a - b # 0
    OBVIOUS
  <2>3. 1 - 1 + 1 + Len(r.to) - k # 0
    BY <1>1, <1>2, <1>3, <2>2
  <2> QED
    BY <1>4, <1>5, <2>1, <2>3 DEF Onwards, Replaced
<1>7. PICK v, N : v = Part(h) /\ N = Nodes(h) /\ Part(h)' = v /\ Nodes(h)' = N
  BY PartStays
<1>8. Knows(d, t, N)
  BY DEF Knows
<1>9. CopyIsAt(w2, r, s, v, N)
  <2>1. CASE MakesNew(t, from, to)
    <3>1. Partly(r, t, from, to, v, Uncopied(w2, 1), Altered(w2, 1), Blank(w2, 1))
      <4>1. to \notin DOMAIN t /\ Agree(r, v, t) /\ w2[1].act = "lstat" /\ w2[1].from = from
        BY <1>3, <1>6, <1>7, <2>1 DEF MakesNew
      <4> QED
        BY <1>1, <1>3, <1>7, <4>1, NoneMade
    <3>2. from \in DOMAIN t /\ Rebased(from, from, to) = to /\ Within(from, from)
      <4>1. Rebased(from, from, to) = to
        BY <1>2, RebasedItself
      <4> QED
        BY <2>1, <4>1 DEF MakesNew, Within
    <3>3. CallsFor(w2, 1, t, from, to) /\ Apart(w2, 1) /\ \A i \in 1..1 : Knows(w2[i], t, N)
      <4>1. \A i \in 1..1 : i = 1
        OBVIOUS
      <4>2. CallsFor(w2, 1, t, from, to)
        BY <1>6, <3>2, <4>1 DEF CallsFor, Looked
      <4>3. Apart(w2, 1)
        BY <4>1 DEF Apart
      <4> QED
        BY <1>6, <1>8, <4>1, <4>2, <4>3
    <3>4. Under(w2, r, s, v, N, k, 1)
      BY <1>1, <1>3, <1>6, <2>1, <3>1, <3>3 DEF Under
    <3>5. 1 \in Nat \ {0}
      OBVIOUS
    <3> QED
      BY <1>1, <1>3, <3>4, <3>5 DEF CopyIsAt
  <2>2. CASE ~MakesNew(t, from, to)
    <3>1. Onto(w2, r, s, v, N, k)
      BY <1>1, <1>3, <1>6, <1>7, <1>8, <2>2 DEF Onto, Looked
    <3> QED
      BY <1>1, <1>3, <3>1 DEF CopyIsAt
  <2> QED
    BY <2>1, <2>2
<1>10. CopyWay(h)'
  BY <1>3, <1>7, <1>9, CopyWayNext
<1> QED
  BY <1>3, <1>6, <1>10 DEF CopyGoes

(* Between two copies the next target is looked at.                        *)
LEMMA NextAim ==
  ASSUME NEW h \in Handlers, status[h] = Serving, req[h] \in Requests, Within(req[h].path, Root),
         Result(h) = Contract!Copies(before[h], req[h].path, req[h].to),
         NEW i \in 0..Len(req[h].to), Between(work[h], req[h], before[h], Part(h), i)
  PROVE  \E k, t, from, to :
           /\ Aiming(h, k, t, from, to) /\ Rest(work[h], 1, req[h], k) /\ Agree(req[h], Part(h), t)
           /\ work[h][1] = Call("copyTo", from, to)
<1>1. PICK k : k = i + 1
  OBVIOUS
<1>2. PICK r, s, w : r = req[h] /\ s = before[h] /\ w = work[h]
  OBVIOUS
<1>3. PICK C, t : C = Chain(r, s) /\ t = C[i].tree
  OBVIOUS
<1>4. PICK from, to : from = r.path /\ to = r.to[k]
  OBVIOUS
<1>5. /\ r.to \in Seq(Path) /\ Len(r.to) \in Nat /\ i \in Nat
  <2>1. r.to \in Seq(Path)
    BY <1>2, HtFileAssumption
  <2> QED
    BY <2>1
<1>6. /\ i < Len(r.to) /\ Rest(w, 0, r, i) /\ C[i].status = 200 /\ Agree(r, Part(h), t)
  BY <1>2, <1>3 DEF Between
<1>7. k \in 1..Len(r.to) /\ k - 1 = i
  BY <1>1, <1>5, <1>6
<1>8. Aiming(h, k, t, from, to)
  BY <1>2, <1>3, <1>4, <1>6, <1>7 DEF Aiming
<1>9. PICK n : n = Len(r.to)
  OBVIOUS
<1>10. Len(w) = 0 + n - i /\ \A j \in 1..n - i : w[0 + j] = Call("copyTo", r.path, r.to[i + j])
  BY <1>6, <1>9 DEF Rest
<1>11. n \in Nat /\ i < n
  BY <1>5, <1>6, <1>9
<1>12. w[1] = Call("copyTo", from, to)
  <2>1. 1 \in 1..n - i /\ 0 + 1 = 1 /\ i + 1 = k
    BY <1>1, <1>5, <1>11
  <2> QED
    BY <1>4, <1>10, <2>1
<1>13. Rest(w, 1, r, k)
  <2>1. Len(w) = 1 + n - k
    BY <1>1, <1>5, <1>10, <1>11
  <2>2. ASSUME NEW j \in 1..n - k PROVE w[1 + j] = Call("copyTo", r.path, r.to[k + j])
    <3>1. PICK m : m = 1 + j
      OBVIOUS
    <3>2. m \in 1..n - i /\ 0 + m = 1 + j /\ i + m = k + j
      <4>1. \A a, b \in Nat : \A x \in 1..a - (b + 1) :
              1 + x \in 1..a - b /\ 0 + (1 + x) = 1 + x /\ b + (1 + x) = (b + 1) + x
        OBVIOUS
      <4>2. i \in Nat /\ n \in Nat
        BY <1>5, <1>11
      <4>3. j \in 1..n - (i + 1)
        BY <1>1
      <4>4. 1 + j \in 1..n - i /\ 0 + (1 + j) = 1 + j /\ i + (1 + j) = (i + 1) + j
        BY <4>1, <4>2, <4>3
      <4> QED
        BY <1>1, <3>1, <4>4
    <3> QED
      BY <1>10, <3>2
  <2> QED
    BY <1>9, <2>1, <2>2 DEF Rest
<1> QED
  BY <1>2, <1>6, <1>8, <1>12, <1>13

(* The look at source and target begins the copy, or refuses it as the     *)
(* contract does.                                                          *)
LEMMA AimGoes ==
  ASSUME Inv, Stored, NEW h, NEW k, NEW t, NEW from, NEW to, Aiming(h, k, t, from, to),
         req' = req, before'[h] = before[h], Rest(work[h], 1, req[h], k), Agree(req[h], Part(h), t),
         NEW c, c = work[h][1], c = Call("copyTo", from, to), Step(h)
  PROVE  CopyGoes(h)
<1>1. /\ h \in Handlers /\ req[h] \in Requests /\ from = req[h].path /\ to = req[h].to[k]
      /\ Within(from, Root) /\ status[h] = Serving
  BY DEF Aiming
<1>2. from \in Path /\ to \in Path
  BY AimIs
<1>3. /\ GetPath(to) <=> Within(to, Root)
      /\ Within(to, Root) => (PathIntersect(from, to) # "noMatch" <=> Within(from, to) \/ Within(to, from))
  BY <1>1, <1>2, TargetIs
<1>4. c.act = "copyTo" /\ c.from = from /\ c.to = to
  BY DEF Call
<1>5. Target(h, c)
  BY <1>4, WhichAction DEF Writing
<1>6. PICK d : d = [c EXCEPT !.act = IF @ = "copyTo" THEN "lstat" ELSE "rename"]
  OBVIOUS
<1>7. d.act = "lstat" /\ d.from = from /\ d.to = to
  BY <1>6 DEF Call
<1>8. PICK is : is = Contract!Copy(t, from, to)
  OBVIOUS
<1>9. /\ ~Within(to, Root) => is = Contract!Is(404, t)
      /\ Within(to, Root) /\ (Within(from, to) \/ Within(to, from)) => is = Contract!Is(400, t)
  <2>1. is = IF ~Within(to, Root) THEN Contract!Is(404, t)
              ELSE IF Within(from, to) \/ Within(to, from) THEN Contract!Is(400, t)
              ELSE IF from \notin DOMAIN t THEN Contract!Is(Contract!NotFound(t, from), t)
              ELSE IF Contract!Homeless(t, to) \/ Contract!InFile(t, to)
                THEN Contract!Is(Contract!NotFound(t, to), t)
              ELSE IF to \notin DOMAIN t THEN Contract!Is(200, CopiedTree(t, from, to))
              ELSE IF t[from].dir THEN Contract!Is(500, t)
              ELSE IF t[to].dir THEN Contract!Is(404, t)
              ELSE IF Contract!Mine(t, to)
                THEN Contract!Is(200, FilledAs(t, from, to))
              ELSE Contract!Is(404, Filled(t, from, to))
    BY <1>8, CopyIs
  <2> QED
    BY <2>1
<1>10. WorkInv
  BY DEF Inv
<1>11. ASSUME UNCHANGED fs PROVE Agree(req[h], Part(h)', t)
  BY <1>11, PartStays
<1>12. ASSUME NEW code \in {404, 400}, Answer(h, code), is = Contract!Is(code, t) PROVE CopyGoes(h)
  <2>1. status'[h] = code /\ UNCHANGED fs
    BY <1>1, <1>10, <1>12, AnswerIs
  <2>2. Agree(req[h], Part(h)', t)
    BY <1>11, <2>1
  <2>3. Contract!Copy(t, from, to) = Contract!Is(status'[h], t) /\ status'[h] \notin {200, Serving}
    BY <1>8, <1>12, <2>1 DEF Serving
  <2> QED
    BY <2>2, <2>3, AimStops
<1>13. CASE ~GetPath(c.to) /\ Answer(h, 404)
  BY <1>3, <1>4, <1>9, <1>12, <1>13
<1>14. CASE GetPath(c.to) /\ PathIntersect(c.from, c.to) # "noMatch" /\ Answer(h, 400)
  BY <1>3, <1>4, <1>9, <1>12, <1>14
<1>15. CASE GetPath(c.to) /\ PathIntersect(c.from, c.to) = "noMatch" /\ Continue(h, <<d>>)
  <2>1. Accepted(from, to)
    BY <1>3, <1>4, <1>15 DEF Accepted
  <2>2. Then(h, <<d>>) /\ UNCHANGED fs
    BY <1>15 DEF Continue
  <2> QED
    BY <1>7, <2>1, <2>2, TakenUp
<1> QED
  BY <1>5, <1>6, <1>13, <1>14, <1>15 DEF Target

(* A request that is between two targets begins the next one.              *)
LEMMA BetweenGoes ==
  ASSUME Inv, Stored, NEW h \in Handlers, status[h] = Serving, req[h] \in Requests,
         Within(req[h].path, Root),
         Result(h) = Contract!Copies(before[h], req[h].path, req[h].to),
         req' = req, before'[h] = before[h], Step(h),
         NEW i \in 0..Len(req[h].to), Between(work[h], req[h], before[h], Part(h), i)
  PROVE  CopyGoes(h)
<1>1. PICK k, t, from, to :
        /\ Aiming(h, k, t, from, to) /\ Rest(work[h], 1, req[h], k) /\ Agree(req[h], Part(h), t)
        /\ work[h][1] = Call("copyTo", from, to)
  BY NextAim
<1>2. PICK c : c = work[h][1]
  OBVIOUS
<1> QED
  BY <1>1, <1>2, AimGoes

(* A copy to a place where something is, or that is going to fail.         *)
Reached(r, c, t, from, to, v) ==
  \/ c.act \in Looked /\ Agree(r, v, t)
  \/ /\ c.act \in {"copy", "chmod"}
     /\ from \in DOMAIN t /\ ~t[from].dir /\ to \in DOMAIN t /\ ~t[to].dir
     /\ ~Contract!Homeless(t, to) /\ ~Contract!InFile(t, to)
     /\ Agree(r, v, IF c.act = "copy" THEN Emptied(t, to) ELSE Filled(t, from, to))

CallOnto(h, k, t, from, to, c) ==
  /\ TreeInv /\ WorkInv /\ h \in Handlers /\ status[h] = Serving /\ req[h] \in Requests
  /\ c = work[h][1] /\ Safe(c) /\ c.from = from /\ c.to = to /\ Rest(work[h], 1, req[h], k)
  /\ from \in Path /\ to \in Path /\ from # to
  /\ Accepted(from, to) /\ ~MakesNew(t, from, to) /\ Knows(c, t, Nodes(h))
  /\ About(req[h], from) /\ \A a \in Ancestors(from) : About(req[h], a)
  /\ About(req[h], to) /\ \A a \in Ancestors(to) : About(req[h], a)
  /\ Reached(req[h], c, t, from, to, Part(h))

(* What is known of a copy onto something that is there.                   *)
LEMMA OntoIs ==
  ASSUME Inv, NEW h, NEW k, NEW t, NEW from, NEW to, Aiming(h, k, t, from, to),
         Onto(work[h], req[h], before[h], Part(h), Nodes(h), k), NEW c, c = work[h][1]
  PROVE  CallOnto(h, k, t, from, to, c)
<1>1. /\ h \in Handlers /\ status[h] = Serving /\ req[h] \in Requests
      /\ k \in 1..Len(req[h].to) /\ from = req[h].path /\ to = req[h].to[k]
      /\ t = Chain(req[h], before[h])[k - 1].tree
  BY DEF Aiming
<1>2. from \in Path /\ to \in Path /\ req[h].to \in Seq(Path)
  BY AimIs
<1>3. Safe(c) /\ TreeInv /\ WorkInv
  BY <1>1, FirstCall DEF Inv
<1>4. /\ About(req[h], from) /\ \A a \in Ancestors(from) : About(req[h], a)
      /\ About(req[h], to) /\ \A a \in Ancestors(to) : About(req[h], a)
  <2>1. k \in DOMAIN req[h].to
    BY <1>1, <1>2
  <2> QED
    BY <1>1, <2>1, AboutPath
<1>5. /\ Rest(work[h], 1, req[h], k) /\ c.from = from /\ c.to = to
      /\ Accepted(from, to) /\ ~MakesNew(t, from, to) /\ Knows(c, t, Nodes(h))
      /\ Reached(req[h], c, t, from, to, Part(h))
  BY <1>1 DEF Onto, Reached
<1>6. from # to
  BY <1>5 DEF Accepted, Within
<1> QED
  BY <1>1, <1>2, <1>3, <1>4, <1>5, <1>6 DEF CallOnto

(* The copy goes on with call d.                                           *)
LEMMA OntoOn ==
  ASSUME Inv, NEW h, NEW k, NEW t, NEW from, NEW to, Aiming(h, k, t, from, to),
         req' = req, before'[h] = before[h], NEW c, CallOnto(h, k, t, from, to, c),
         NEW d, d.from = from, d.to = to, Then(h, <<d>>), Knows(d, t, Nodes(h)'),
         Reached(req[h], d, t, from, to, Part(h)')
  PROVE  CopyGoes(h)
<1>1. /\ h \in Handlers /\ k \in 1..Len(req[h].to) /\ status[h] = Serving
      /\ from = req[h].path /\ to = req[h].to[k] /\ req[h] \in Requests
      /\ Chain(req[h], before[h])[k - 1].status = 200 /\ t = Chain(req[h], before[h])[k - 1].tree
  BY DEF Aiming
<1>2. req[h].to \in Seq(Path) /\ Len(req[h].to) \in Nat /\ k \in Nat
  BY AimIs
<1>3. PICK r, s, cs, w2, code : r = req[h] /\ s = before[h] /\ cs = <<d>> /\ w2 = work'[h]
                                /\ code = status'[h]
  OBVIOUS
<1>4. cs \in Seq({d}) /\ Len(cs) = 1 /\ cs[1] = d /\ Then(h, cs)
  BY <1>3
<1>5. Onwards(w2, code, work[h], 1, cs, 1, r, k)
  <2>1. r.to \in Seq(Path) /\ k \in 0..Len(r.to) /\ Rest(work[h], 1, r, k)
    BY <1>1, <1>2, <1>3, SMTT(30) DEF CallOnto
  <2>2. WorkInv /\ 1 \in Nat \ {0} /\ cs \in Seq({d}) /\ Then(h, cs)
    BY <1>4 DEF Inv
  <2>3. Onwards(work'[h], status'[h], work[h], 1, cs, Len(cs), r, k)
    BY <1>1, <2>1, <2>2, RestGoes
  <2> QED
    BY <1>3, <1>4, <2>3
<1>6. Rest(w2, 1, r, k) /\ w2[1] = d /\ code = Serving
  <2>1. 1 - 1 + 1 = 1 /\ 1 \in 1..1
    OBVIOUS
  <2>2. \A a \in Nat : \A b \in 1..a : 1 - 1 + 1 + a - b # 0
    OBVIOUS
  <2>3. 1 - 1 + 1 + Len(r.to) - k # 0
    BY <1>1, <1>2, <1>3, <2>2
  <2> QED
    BY <1>4, <1>5, <2>1, <2>3 DEF Onwards, Replaced
<1>7. PICK v, N : v = Part(h)' /\ N = Nodes(h)'
  OBVIOUS
<1>8. Accepted(from, to) /\ ~MakesNew(t, from, to)
  BY DEF CallOnto
<1>9. Onto(w2, r, s, v, N, k)
  BY <1>1, <1>3, <1>6, <1>7, <1>8 DEF Onto, Reached
<1>10. CopyIsAt(w2, r, s, v, N)
  BY <1>1, <1>3, <1>9 DEF CopyIsAt
<1>11. CopyWay(h)'
  BY <1>3, <1>7, <1>10, CopyWayNext
<1> QED
  BY <1>3, <1>6, <1>11 DEF CopyGoes

(* The copy fails with status code, and leaves u.                          *)
LEMMA OntoFails ==
  ASSUME NEW h, NEW k, NEW t, NEW from, NEW to, Aiming(h, k, t, from, to),
         req' = req, before'[h] = before[h], NEW c, CallOnto(h, k, t, from, to, c),
         NEW err, Fails(h, err), NEW u, Agree(req[h], Part(h), u),
         Contract!Copy(t, from, to) = Contract!Is(StatusOf(err), u)
  PROVE  CopyGoes(h)
<1>1. WorkInv /\ h \in Handlers
  BY DEF CallOnto
<1>2. status'[h] = StatusOf(err) /\ UNCHANGED fs
  BY <1>1, AnswerIs
<1>3. Agree(req[h], Part(h)', u)
  BY <1>2, PartStays
<1>4. StatusOf(err) \notin {200, Serving}
  BY DEF StatusOf, Serving
<1> QED
  BY <1>2, <1>3, <1>4, AimStops

(* Looking at what is copied.                                              *)
LEMMA OntoLstat ==
  ASSUME Inv, Stored, NEW h, NEW k, NEW t, NEW from, NEW to, Aiming(h, k, t, from, to),
         req' = req, before'[h] = before[h], NEW c, CallOnto(h, k, t, from, to, c),
         c.act = "lstat", Step(h)
  PROVE  CopyGoes(h)
<1>1. /\ c = work[h][1] /\ Safe(c) /\ c.from = from /\ c.to = to /\ Accepted(from, to)
      /\ About(req[h], from) /\ \A a \in Ancestors(from) : About(req[h], a)
  BY DEF CallOnto
<1>2. Agree(req[h], Part(h), t)
  BY DEF CallOnto, Reached
<1>3. /\ Exists(from) <=> from \in DOMAIN t
      /\ Exists(from) <=> from \in DOMAIN tree
      /\ Exists(from) <=> LookupError(tree, from) = "ok"
      /\ LookupError(tree, from) # "ok" => StatusOf(LookupError(tree, from)) = Contract!NotFound(t, from)
  BY <1>1, <1>2, LookupIs
<1>4. CopyLstat(h, c)
  BY <1>1, WhichAction DEF Writing
<1>5. PICK d : d = [c EXCEPT !.act = "open", !.fi = Info(from)]
  OBVIOUS
<1>6. d.act = "open" /\ d.from = from /\ d.to = to /\ d.fi = Info(from)
  BY <1>1, <1>5 DEF Safe
<1>7. CASE Fails(h, LookupError(tree, from))
  <2>1. from \notin DOMAIN t
    BY <1>3, <1>7 DEF Fails
  <2>2. Contract!Copy(t, from, to) = Contract!Is(Contract!NotFound(t, from), t)
    BY <1>1, <2>1, CopyIs DEF Accepted
  <2>3. Contract!Copy(t, from, to) = Contract!Is(StatusOf(LookupError(tree, from)), t)
    BY <1>3, <2>1, <2>2
  <2> QED
    BY <1>2, <1>7, <2>3, OntoFails
<1>8. CASE Exists(from) /\ Continue(h, <<d>>)
  <2>1. Then(h, <<d>>) /\ UNCHANGED fs
    BY <1>8 DEF Continue
  <2>2. Part(h)' = Part(h)
    BY <2>1, PartStays
  <2>3. from \in DOMAIN t /\ t[from].dir = tree[from].dir /\ t[from].mode = tree[from].mode
    <3>1. from \in DOMAIN t /\ from \in DOMAIN Part(h)
      BY <1>1, <1>3, <1>8, PartIs
    <3>2. Part(h)[from].dir = tree[from].dir /\ Part(h)[from].mode = tree[from].mode
      BY <3>1, PartIs
    <3> QED
      BY <1>1, <1>2, <3>1, <3>2 DEF Agree
  <2>4. d.fi.dir = tree[from].dir /\ d.fi.mode = tree[from].mode
    BY <1>6 DEF Info
  <2>5. Knows(d, t, Nodes(h)')
    BY <1>6, <2>3, <2>4 DEF Knows
  <2>6. Reached(req[h], d, t, from, to, Part(h)')
    BY <1>2, <1>6, <2>2 DEF Reached, Looked
  <2> QED
    BY <1>6, <2>1, <2>5, <2>6, OntoOn
<1> QED
  BY <1>1, <1>4, <1>5, <1>7, <1>8 DEF CopyLstat

(* A copy onto something that is there goes on when it has opened the      *)
(* source.                                                                 *)
LEMMA OntoOpen ==
  ASSUME Inv, Stored, NEW h, NEW k, NEW t, NEW from, NEW to, Aiming(h, k, t, from, to),
         req' = req, before'[h] = before[h], NEW c, CallOnto(h, k, t, from, to, c),
         c.act = "open", Step(h)
  PROVE  CopyGoes(h)
<1>1. /\ c = work[h][1] /\ Safe(c) /\ c.from = from /\ c.to = to /\ Accepted(from, to)
      /\ About(req[h], from) /\ \A a \in Ancestors(from) : About(req[h], a)
      /\ Knows(c, t, Nodes(h))
  BY DEF CallOnto
<1>2. Agree(req[h], Part(h), t)
  BY DEF CallOnto, Reached
<1>3. /\ Exists(from) <=> from \in DOMAIN t
      /\ Exists(from) <=> from \in DOMAIN tree
      /\ Exists(from) <=> LookupError(tree, from) = "ok"
  BY <1>1, <1>2, LookupIs
<1>4. from \in DOMAIN t /\ c.fi.dir = t[from].dir /\ c.fi.mode = t[from].mode
  BY <1>1 DEF Knows
<1>5. CopyOpen(h, c)
  BY <1>1, WhichAction DEF Writing
<1>6. PICK d : d = [c EXCEPT !.act = IF c.fi.dir THEN "copyDir" ELSE "copyFile", !.fd = Opened(from)]
  OBVIOUS
<1>7. /\ d.act = (IF c.fi.dir THEN "copyDir" ELSE "copyFile") /\ d.fd = Opened(from)
      /\ d.from = from /\ d.to = to /\ d.fi = c.fi
  BY <1>1, <1>6 DEF Safe
<1>8. Continue(h, <<d>>)
  BY <1>1, <1>3, <1>4, <1>5, <1>6 DEF CopyOpen, Fails
<1>9. Then(h, <<d>>) /\ UNCHANGED fs
  BY <1>8 DEF Continue
<1>10. Part(h)' = Part(h) /\ Nodes(h)' = Nodes(h)
  BY <1>9, PartStays
<1>11. from \in DOMAIN Nodes(h) /\ Nodes(h)[from] = tree[from] /\ tree[from].dir = t[from].dir
  <2>1. from \in DOMAIN Part(h)
    BY <1>1, <1>3, <1>4, PartIs
  <2>2. from \in DOMAIN Nodes(h) /\ Nodes(h)[from] = tree[from] /\ Part(h)[from].dir = tree[from].dir
    BY <2>1, PartIs
  <2> QED
    BY <1>1, <1>2, <2>1, <2>2 DEF Agree
<1>12. d.fd.id = tree[from].id /\ d.fd.dir = tree[from].dir
  BY <1>7 DEF Opened
<1>13. /\ d.act = "copyDir" => t[from].dir
       /\ d.act = "copyFile" => ~t[from].dir
       /\ d.act \in {"copyDir", "copyFile"}
  BY <1>4, <1>7
<1>14. Knows(d, t, Nodes(h))
  BY <1>4, <1>7, <1>11, <1>12, <1>13 DEF Knows
<1>15. Reached(req[h], d, t, from, to, Part(h)')
  BY <1>2, <1>10, <1>13 DEF Reached, Looked
<1> QED
  BY <1>7, <1>9, <1>10, <1>14, <1>15, OntoOn

(* A directory is not copied to where something is.                        *)
LEMMA OntoDir ==
  ASSUME Inv, Stored, NEW h, NEW k, NEW t, NEW from, NEW to, Aiming(h, k, t, from, to),
         req' = req, before'[h] = before[h], NEW c, CallOnto(h, k, t, from, to, c),
         c.act = "copyDir", Step(h)
  PROVE  CopyGoes(h)
<1>1. /\ c = work[h][1] /\ Safe(c) /\ c.from = from /\ c.to = to /\ Accepted(from, to)
      /\ About(req[h], to) /\ \A a \in Ancestors(to) : About(req[h], a)
      /\ Knows(c, t, Nodes(h)) /\ ~MakesNew(t, from, to)
  BY DEF CallOnto
<1>2. Agree(req[h], Part(h), t)
  BY DEF CallOnto, Reached
<1>3. /\ to \in DOMAIN tree <=> to \in DOMAIN t
      /\ ParentError(tree, to) = IF Contract!InFile(t, to) THEN "ENOTDIR"
                                 ELSE IF Contract!Homeless(t, to) THEN "ENOENT" ELSE "ok"
  BY <1>1, <1>2, ParentIs
<1>4. from \in DOMAIN t /\ t[from].dir
  BY <1>1 DEF Knows
<1>5. CopyDir(h, c)
  BY <1>1, WhichAction DEF Writing
<1>6. PICK err : err = OrNoSpace(MkdirError(tree, to))
  OBVIOUS
<1>7. err = IF Contract!InFile(t, to) THEN "ENOTDIR"
            ELSE IF Contract!Homeless(t, to) THEN "ENOENT" ELSE "EEXIST"
  BY <1>1, <1>3, <1>4, <1>6 DEF OrNoSpace, MkdirError, MakesNew
<1>8. Fails(h, err)
  BY <1>1, <1>5, <1>6, <1>7 DEF CopyDir, MakeDir
<1>9. Contract!Copy(t, from, to) = Contract!Is(StatusOf(err), t)
  <2>1. CASE Contract!InFile(t, to) \/ Contract!Homeless(t, to)
    <3>1. Contract!Copy(t, from, to) = Contract!Is(Contract!NotFound(t, to), t)
      BY <1>1, <1>4, <2>1, CopyIs DEF Accepted
    <3>2. Contract!NotFound(t, to) = StatusOf(err)
      BY <1>7, <2>1 DEF Contract!NotFound, StatusOf
    <3> QED
      BY <3>1, <3>2
  <2>2. CASE ~Contract!InFile(t, to) /\ ~Contract!Homeless(t, to)
    <3>1. to \in DOMAIN t
      BY <1>1, <1>4, <2>2 DEF MakesNew
    <3>2. Contract!Copy(t, from, to) = Contract!Is(500, t)
      BY <1>1, <1>4, <2>2, <3>1, CopyIs DEF Accepted
    <3>3. StatusOf(err) = 500
      BY <1>7, <2>2 DEF StatusOf
    <3> QED
      BY <3>2, <3>3
  <2> QED
    BY <2>1, <2>2
<1> QED
  BY <1>2, <1>8, <1>9, OntoFails

(* A file that is there is emptied.                                        *)
LEMMA OntoFile ==
  ASSUME Inv, Stored, NEW h, NEW k, NEW t, NEW from, NEW to, Aiming(h, k, t, from, to),
         req' = req, before'[h] = before[h], NEW c, CallOnto(h, k, t, from, to, c),
         c.act = "copyFile", Step(h)
  PROVE  CopyGoes(h)
<1>1. /\ c = work[h][1] /\ Safe(c) /\ c.from = from /\ c.to = to /\ Accepted(from, to)
      /\ About(req[h], to) /\ \A a \in Ancestors(to) : About(req[h], a)
      /\ About(req[h], from) /\ from # to /\ TreeInv
      /\ Knows(c, t, Nodes(h)) /\ ~MakesNew(t, from, to)
  BY DEF CallOnto
<1>2. Agree(req[h], Part(h), t)
  BY DEF CallOnto, Reached
<1>3. /\ to \in DOMAIN tree <=> to \in DOMAIN t
      /\ to \in DOMAIN tree => t[to] = Part(h)[to] /\ t[to].dir = tree[to].dir
      /\ ParentError(tree, to) = IF Contract!InFile(t, to) THEN "ENOTDIR"
                                 ELSE IF Contract!Homeless(t, to) THEN "ENOENT" ELSE "ok"
  BY <1>1, <1>2, ParentIs
<1>4. /\ from \in DOMAIN t /\ ~t[from].dir /\ c.fi.dir = t[from].dir /\ c.fi.mode = t[from].mode
      /\ from \in DOMAIN Nodes(h) /\ c.fd.id = Nodes(h)[from].id /\ c.fd.dir = t[from].dir
  BY <1>1 DEF Knows
<1>5. CopyFile(h, c)
  BY <1>1, WhichAction DEF Writing
<1>6. PICK d : d = [c EXCEPT !.act = "copy", !.tf = Created(to)]
  OBVIOUS
<1>7. PICK err : err = CreationError(to)
  OBVIOUS
<1>8. err = IF Contract!InFile(t, to) THEN "ENOTDIR"
            ELSE IF Contract!Homeless(t, to) THEN "ENOENT" ELSE IF t[to].dir THEN "EISDIR" ELSE "ok"
  BY <1>1, <1>3, <1>4, <1>7 DEF CreationError, OrNoSpace, CreateError, MakesNew
<1>9. CASE Fails(h, err)
  <2>1. Contract!Copy(t, from, to) = Contract!Is(StatusOf(err), t)
    <3>1. CASE Contract!InFile(t, to) \/ Contract!Homeless(t, to)
      <4>1. Contract!Copy(t, from, to) = Contract!Is(Contract!NotFound(t, to), t)
        BY <1>1, <1>4, <3>1, CopyIs DEF Accepted
      <4>2. Contract!NotFound(t, to) = StatusOf(err)
        BY <1>8, <3>1 DEF Contract!NotFound, StatusOf
      <4> QED
        BY <4>1, <4>2
    <3>2. CASE ~Contract!InFile(t, to) /\ ~Contract!Homeless(t, to)
      <4>1. to \in DOMAIN t /\ t[to].dir
        BY <1>1, <1>4, <1>8, <1>9, <3>2 DEF MakesNew, Fails
      <4>2. Contract!Copy(t, from, to) = Contract!Is(404, t)
        BY <1>1, <1>4, <3>2, <4>1, CopyIs DEF Accepted
      <4>3. StatusOf(err) = 404
        BY <1>8, <3>2, <4>1 DEF StatusOf
      <4> QED
        BY <4>2, <4>3
    <3> QED
      BY <3>1, <3>2
  <2> QED
    BY <1>2, <1>9, <2>1, OntoFails
<1>10. CASE Create(to) /\ Then(h, <<d>>)
  <2>1. ~Contract!InFile(t, to) /\ ~Contract!Homeless(t, to) /\ ~t[to].dir
    BY <1>7, <1>8, <1>10 DEF Create
  <2>2. to \in DOMAIN t /\ to \in DOMAIN tree /\ to \in DOMAIN Part(h) /\ Part(h)[to] = t[to]
    BY <1>1, <1>3, <1>4, <2>1, PartIs DEF MakesNew
  <2>3. /\ Sets(h, to, [Part(h)[to] EXCEPT !.data = <<>>])
        /\ to \in DOMAIN Part(h)' /\ Nodes(h)'[to].id = Created(to).id
    BY <1>1, <1>10, <2>2, CreateSets
  <2>4. Agree(req[h], Part(h)', [t EXCEPT ![to] = [t[to] EXCEPT !.data = <<>>]])
    BY <1>1, <1>2, <2>2, <2>3, SetsAgree
  <2>5. Agree(req[h], Part(h)', Emptied(t, to))
    BY <2>4 DEF Emptied
  <2>6. d.act = "copy" /\ d.from = from /\ d.to = to /\ d.fi = c.fi /\ d.fd = c.fd /\ d.tf = Created(to)
    BY <1>1, <1>6 DEF Safe
  <2>7. from \in DOMAIN Nodes(h)' /\ Nodes(h)'[from] = Nodes(h)[from] /\ to \in DOMAIN Nodes(h)'
    <3>1. from \in DOMAIN Part(h) /\ DOMAIN Nodes(h)' = DOMAIN Part(h)'
      BY <1>4, PartIs DEF Nodes, Part
    <3> QED
      BY <1>1, <2>3, <3>1 DEF Sets
  <2>8. Knows(d, t, Nodes(h)')
    BY <1>4, <2>3, <2>6, <2>7 DEF Knows
  <2>9. Reached(req[h], d, t, from, to, Part(h)')
    BY <1>4, <2>1, <2>2, <2>5, <2>6 DEF Reached
  <2> QED
    BY <1>10, <2>6, <2>8, <2>9, OntoOn
<1> QED
  BY <1>1, <1>5, <1>6, <1>7, <1>9, <1>10 DEF CopyFile

(* Its content is replaced.                                                *)
LEMMA OntoContent ==
  ASSUME Inv, Stored, Contents, NEW h, NEW k, NEW t, NEW from, NEW to, Aiming(h, k, t, from, to),
         req' = req, before'[h] = before[h], NEW c, CallOnto(h, k, t, from, to, c),
         c.act = "copy", Step(h)
  PROVE  CopyGoes(h)
<1>1. /\ c = work[h][1] /\ Safe(c) /\ c.from = from /\ c.to = to
      /\ About(req[h], to) /\ About(req[h], from) /\ from # to /\ TreeInv
      /\ Knows(c, t, Nodes(h))
  BY DEF CallOnto
<1>2. /\ from \in DOMAIN t /\ ~t[from].dir /\ to \in DOMAIN t /\ ~t[to].dir
      /\ ~Contract!Homeless(t, to) /\ ~Contract!InFile(t, to)
      /\ Agree(req[h], Part(h), Emptied(t, to))
  BY DEF CallOnto, Reached, Looked
<1>3. /\ c.fi.dir = t[from].dir /\ c.fi.mode = t[from].mode
      /\ from \in DOMAIN Nodes(h) /\ c.fd.id = Nodes(h)[from].id /\ c.fd.dir = t[from].dir
      /\ to \in DOMAIN Nodes(h) /\ c.tf.id = Nodes(h)[to].id
  BY <1>1 DEF Knows
<1>4. PICK e0 : e0 = [t[to] EXCEPT !.data = <<>>]
  OBVIOUS
<1>5. DOMAIN Emptied(t, to) = DOMAIN t /\ Emptied(t, to)[to] = e0
      /\ \A q \in DOMAIN t : q # to => Emptied(t, to)[q] = t[q]
  BY <1>2, <1>4 DEF Emptied
<1>6. from \in DOMAIN Part(h) /\ to \in DOMAIN Part(h) /\ Part(h)[from] = t[from] /\ Part(h)[to] = e0
  BY <1>1, <1>2, <1>5 DEF Agree
<1>7. /\ from \in DOMAIN tree /\ Nodes(h)[from] = tree[from] /\ tree[from].dir = t[from].dir
      /\ t[from].data = IF tree[from].dir THEN <<>> ELSE data[tree[from].id]
  BY <1>6, PartIs
<1>8. to \in DOMAIN tree /\ Nodes(h)[to] = tree[to] /\ tree[to].dir = e0.dir
  BY <1>6, PartIs
<1>20. Fields \subseteq DOMAIN tree[to] /\ e0 = [dir |-> e0.dir, mode |-> e0.mode, owner |-> e0.owner, group |-> e0.group,
                                                 data |-> e0.data]
  BY <1>6, PartIs DEF Stored
<1>9. e0.data = <<>> /\ e0.dir = tree[to].dir /\ ~tree[to].dir
  <2>1. Part(h)[to].data = IF tree[to].dir THEN <<>> ELSE data[tree[to].id]
    BY <1>6, PartIs
  <2> QED
    BY <1>2, <1>4, <1>8
<1>10. CopyData(h, c)
  BY <1>1, WhichAction DEF Writing
<1>11. PICK d : d = [c EXCEPT !.act = "chmod"]
  OBVIOUS
<1>12. PICK u : u = data[c.fd.id]
  OBVIOUS
<1>13. Write(c.tf, 0, u) /\ Then(h, <<d>>)
  BY <1>2, <1>3, <1>10, <1>11, <1>12 DEF CopyData
<1>14. d.act = "chmod" /\ d.from = from /\ d.to = to /\ d.fi = c.fi
  BY <1>1, <1>11 DEF Safe
<1>15. u = t[from].data /\ u \in Seq(Unit)
  BY <1>1, <1>2, <1>3, <1>7, <1>12 DEF Contents, TreeInv
<1>16. c.tf.id = tree[to].id
  BY <1>3, <1>8
<1>17. Sets(h, to, [e0 EXCEPT !.data = u])
  <2>1. Sets(h, to, [Part(h)[to] EXCEPT !.data = Written(Part(h)[to].data, 0, u)])
    BY <1>1, <1>8, <1>9, <1>13, <1>16, WriteSets
  <2>2. Written(<<>>, 0, u) = u
    BY <1>15, WrittenWhole
  <2> QED
    BY <1>6, <1>9, <2>1, <2>2
<1>18. Agree(req[h], Part(h)', Filled(t, from, to))
  <2>1. PICK f : f = Filled(t, from, to)
    OBVIOUS
  <2>2. f = [t EXCEPT ![to] = [t[to] EXCEPT !.data = u]]
    BY <1>15, <2>1 DEF Filled
  <2>3. [e0 EXCEPT !.data = u] = [t[to] EXCEPT !.data = u]
    BY <1>4
  <2>4. /\ \A q : q \in DOMAIN f <=> q \in DOMAIN Emptied(t, to) \/ q = to
        /\ \A q \in DOMAIN Emptied(t, to) : q # to => f[q] = Emptied(t, to)[q]
        /\ f[to] = [e0 EXCEPT !.data = u]
    BY <1>2, <1>5, <2>2, <2>3
  <2> QED
    BY <1>1, <1>2, <1>17, <2>1, <2>4, SetsMakes
<1>19. Knows(d, t, Nodes(h)')
  BY <1>2, <1>3, <1>14 DEF Knows
<1>21. Reached(req[h], d, t, from, to, Part(h)')
  BY <1>2, <1>14, <1>18 DEF Reached
<1> QED
  BY <1>13, <1>14, <1>19, <1>21, OntoOn

(* It gets the mode of what was copied, if it may.                         *)
LEMMA OntoMode ==
  ASSUME Inv, Stored, NEW h, NEW k, NEW t, NEW from, NEW to, Aiming(h, k, t, from, to),
         req' = req, before'[h] = before[h], NEW c, CallOnto(h, k, t, from, to, c),
         c.act = "chmod", Step(h)
  PROVE  CopyGoes(h)
<1>1. /\ c = work[h][1] /\ Safe(c) /\ c.from = from /\ c.to = to /\ Accepted(from, to)
      /\ About(req[h], to) /\ \A a \in Ancestors(to) : About(req[h], a)
      /\ from # to /\ TreeInv /\ Knows(c, t, Nodes(h)) /\ Rest(work[h], 1, req[h], k)
  BY DEF CallOnto
<1>2. /\ from \in DOMAIN t /\ ~t[from].dir /\ to \in DOMAIN t /\ ~t[to].dir
      /\ ~Contract!Homeless(t, to) /\ ~Contract!InFile(t, to)
      /\ Agree(req[h], Part(h), Filled(t, from, to))
  BY DEF CallOnto, Reached, Looked
<1>3. c.fi.mode = t[from].mode
  BY <1>1 DEF Knows
<1>4. PICK f : f = Filled(t, from, to)
  OBVIOUS
<1>5. PICK e : e = [t[to] EXCEPT !.data = t[from].data]
  OBVIOUS
<1>6. DOMAIN f = DOMAIN t /\ f[to] = e /\ \A q \in DOMAIN t : q # to => f[q] = t[q]
  BY <1>2, <1>4, <1>5 DEF Filled
<1>7. to \in DOMAIN Part(h) /\ Part(h)[to] = e /\ to \in DOMAIN tree
  <2>1. to \in DOMAIN Part(h) /\ Part(h)[to] = f[to]
    BY <1>1, <1>2, <1>4, <1>6 DEF Agree
  <2> QED
    BY <1>6, <2>1, PartIs
<1>8. e.owner = t[to].owner
  BY <1>5
<1>9. Owns(to) <=> Contract!Mine(t, to)
  <2>1. Part(h)[to].owner = tree[to].owner
    BY <1>7, PartIs
  <2> QED
    BY <1>7, <1>8, <2>1 DEF Owns, Contract!Mine
<1>10. Exists(to)
  BY <1>1, <1>2, <1>4, <1>6, LookupIs
<1>11. /\ Contract!Mine(t, to) => Contract!Copy(t, from, to) = Contract!Is(200, FilledAs(t, from, to))
       /\ ~Contract!Mine(t, to) => Contract!Copy(t, from, to) = Contract!Is(404, f)
  <2>1. PICK is : is = Contract!Copy(t, from, to)
    OBVIOUS
  <2>2. is = IF ~Within(to, Root) THEN Contract!Is(404, t)
              ELSE IF Within(from, to) \/ Within(to, from) THEN Contract!Is(400, t)
              ELSE IF from \notin DOMAIN t THEN Contract!Is(Contract!NotFound(t, from), t)
              ELSE IF Contract!Homeless(t, to) \/ Contract!InFile(t, to)
                THEN Contract!Is(Contract!NotFound(t, to), t)
              ELSE IF to \notin DOMAIN t THEN Contract!Is(200, CopiedTree(t, from, to))
              ELSE IF t[from].dir THEN Contract!Is(500, t)
              ELSE IF t[to].dir THEN Contract!Is(404, t)
              ELSE IF Contract!Mine(t, to)
                THEN Contract!Is(200, FilledAs(t, from, to))
              ELSE Contract!Is(404, Filled(t, from, to))
    BY <2>1, CopyIs
  <2> QED
    BY <1>1, <1>2, <1>4, <2>1, <2>2 DEF Accepted
<1>12. CopyChmod(h, c)
  BY <1>1, WhichAction DEF Writing
<1>13. CASE Fails(h, ChmodError(to))
  <2>1. ChmodError(to) = "EPERM" /\ ~Owns(to)
    BY <1>10, <1>13 DEF ChmodError, Exists, Fails
  <2>2. StatusOf(ChmodError(to)) = 404
    BY <2>1 DEF StatusOf
  <2>3. Contract!Copy(t, from, to) = Contract!Is(StatusOf(ChmodError(to)), f)
    BY <1>9, <1>11, <2>1, <2>2
  <2>4. Agree(req[h], Part(h), f)
    BY <1>2, <1>4
  <2> QED
    BY <1>13, <2>3, <2>4, OntoFails
<1>14. CASE Chmod(to, c.fi.mode) /\ Then(h, <<>>)
  <2>1. Owns(to)
    BY <1>10, <1>14 DEF Chmod, ChmodError
  <2>2. Sets(h, to, [Part(h)[to] EXCEPT !.mode = c.fi.mode])
    BY <1>1, <1>7, <1>14, ChmodSets
  <2>3. Agree(req[h], Part(h), f) /\ to \in DOMAIN f
    BY <1>2, <1>4, <1>6
  <2>4. Agree(req[h], Part(h)', [f EXCEPT ![to] = [Part(h)[to] EXCEPT !.mode = c.fi.mode]])
    BY <1>1, <2>2, <2>3, SetsAgree
  <2>5. FilledAs(t, from, to) = [f EXCEPT ![to] = [f[to] EXCEPT !.mode = c.fi.mode]]
    BY <1>3, <1>4 DEF FilledAs
  <2>6. Agree(req[h], Part(h)', FilledAs(t, from, to))
    BY <1>6, <1>7, <2>4, <2>5
  <2> QED
    BY <1>1, <1>9, <1>11, <1>14, <2>1, <2>6, AimEnds
<1> QED
  BY <1>1, <1>12, <1>13, <1>14 DEF CopyChmod

(* A copy onto something that is there goes one step further, or ends as   *)
(* the contract says.                                                      *)
LEMMA OntoGoes ==
  ASSUME Inv, Stored, Contents, NEW h, NEW k, NEW t, NEW from, NEW to, Aiming(h, k, t, from, to),
         req' = req, before'[h] = before[h],
         Onto(work[h], req[h], before[h], Part(h), Nodes(h), k), Step(h)
  PROVE  CopyGoes(h)
<1>1. PICK c : c = work[h][1]
  OBVIOUS
<1>2. CallOnto(h, k, t, from, to, c)
  BY <1>1, OntoIs
<1>3. c.act \in {"lstat", "open", "copyDir", "copyFile", "copy", "chmod"}
  BY <1>2 DEF CallOnto, Reached, Looked
<1>4. CASE c.act = "lstat"
  BY <1>2, <1>4, OntoLstat
<1>5. CASE c.act = "open"
  BY <1>2, <1>5, OntoOpen
<1>6. CASE c.act = "copyDir"
  BY <1>2, <1>6, OntoDir
<1>7. CASE c.act = "copyFile"
  BY <1>2, <1>7, OntoFile
<1>8. CASE c.act = "copy"
  BY <1>2, <1>8, OntoContent
<1>9. CASE c.act = "chmod"
  BY <1>2, <1>9, OntoMode
<1> QED
  BY <1>3, <1>4, <1>5, <1>6, <1>7, <1>8, <1>9

(* So does a copy in all: it comes nearer to what the contract says.       *)
LEMMA CopyAlone ==
  ASSUME Inv, Stored, Contents, FreeIds # {},
         NEW h \in Handlers, status[h] = Serving, req[h] \in Requests, Within(req[h].path, Root),
         Result(h) = Contract!Copies(before[h], req[h].path, req[h].to),
         Step(h), CopyWay(h), req' = req, before'[h] = before[h]
  PROVE  IF status'[h] = Serving THEN CopyWay(h)' ELSE IsAlone(h)'
<1>1. PICK r, s, w, v, N : r = req[h] /\ s = before[h] /\ w = work[h] /\ v = Part(h) /\ N = Nodes(h)
  OBVIOUS
<1>2. CopyIsAt(w, r, s, v, N)
  BY <1>1 DEF CopyWay
<1>3. CopyGoes(h)
  <2>1. CASE \E k \in 0..Len(r.to) : Between(w, r, s, v, k)
    BY <1>1, <2>1, BetweenGoes
  <2>2. CASE \E k \in 1..Len(r.to) : Onto(w, r, s, v, N, k)
    <3>1. PICK k \in 1..Len(r.to) : Onto(w, r, s, v, N, k)
      BY <2>2
    <3>2. PICK t, from, to : t = Chain(r, s)[k - 1].tree /\ from = r.path /\ to = r.to[k]
      OBVIOUS
    <3>3. Chain(r, s)[k - 1].status = 200
      BY <3>1 DEF Onto
    <3>4. Aiming(h, k, t, from, to)
      BY <1>1, <3>2, <3>3 DEF Aiming
    <3> QED
      BY <1>1, <3>1, <3>4, OntoGoes
  <2>3. CASE \E k \in 1..Len(r.to), L \in Nat \ {0} : Under(w, r, s, v, N, k, L)
    <3>1. PICK k \in 1..Len(r.to), L \in Nat \ {0} : Under(w, r, s, v, N, k, L)
      BY <2>3
    <3>2. PICK t, from, to : t = Chain(r, s)[k - 1].tree /\ from = r.path /\ to = r.to[k]
      OBVIOUS
    <3>3. Making(h, k, L, t, from, to)
      BY <1>1, <3>1, <3>2 DEF Making
    <3> QED
      BY <3>3, UnderGoes
  <2> QED
    BY <1>2, <2>1, <2>2, <2>3 DEF CopyIsAt
<1> QED
  BY <1>3 DEF CopyGoes

---------------------------------------------------------------------------
(* All operations.                                                         *)

Way(h) ==
  LET op == Operation(req[h])
  IN /\ op \in {"put", "mkdir"} => MkWay(h, op)
     /\ op = "delete" => DelWay(h)
     /\ op = "rename" => RenameWay(h)
     /\ op = "modprops" => ModWay(h)
     /\ op = "copy" => CopyWay(h)
     /\ op \in {"get", "props", "search"} => ReadWay(h)

(* Of a request that nobody disturbed: what was stored when it came, and   *)
(* how far it has got, or its answer.                                      *)
Alone(h) ==
  status[h] # Free /\ pure[h] =>
    /\ req[h] \in Requests
    /\ Closed(before[h]) /\ DOMAIN before[h] \subseteq Path /\ Entries(before[h])
    /\ status[h] = Serving => Begin(req[h]) = Serving /\ Way(h)
    /\ status[h] # Serving => IsAlone(h)

AloneInv == \A h \in Handlers : Alone(h)

(* A request that is accepted is one of the operations, within the root    *)
(* directory.                                                              *)
LEMMA AcceptedOps ==
  ASSUME NEW r \in Requests, Begin(r) = Serving
  PROVE  /\ Operation(r) \in {"put", "mkdir", "delete", "rename", "modprops", "copy", "get", "props", "search"}
         /\ Within(r.path, Root)
         /\ Operation(r) = "rename" => 1 \in DOMAIN r.to
<1>1. Operation(r) \notin {"badRequest", "notAllowed", "options"} /\ GetPath(r.path)
      /\ ~(Operation(r) = "rename" /\ Len(r.to) # 1)
  BY DEF Begin, Serving, PropsStatus
<1>2. r.path \in Path /\ r.to \in Seq(Path) /\ r.cmds \in Seq(STRING)
  BY HtFileAssumption
<1>3. Operation(r) = "rename" => 1 \in DOMAIN r.to
  BY <1>1, <1>2
<1>4. \A allowed, none : LET cmd == Command(r.cmds, allowed, none)
                         IN cmd \in allowed \/ cmd = none \/ cmd = "badRequest"
  BY <1>2, CommandIs
<1>5. Operation(r) \in {"put", "mkdir", "delete", "rename", "modprops", "copy", "get", "props", "search"}
  <2>1. \/ Operation(r) \in GetCmds \/ Operation(r) \in PostCmds
        \/ Operation(r) \in {"get", "put", "badRequest", "notAllowed"}
        \/ r.method \in DOMAIN MethodOp /\ Operation(r) = MethodOp[r.method]
    BY <1>4 DEF Operation
  <2> QED
    BY <1>1, <2>1 DEF GetCmds, PostCmds, MethodOp
<1> QED
  BY <1>1, <1>2, <1>3, <1>5, WithinIsGetPath

(* A put or mkdir goes one step further, or is answered as the contract    *)
(* says.                                                                   *)
LEMMA MakeAlone ==
  ASSUME Inv, Stored, NEW h \in Handlers, status[h] = Serving, req[h] \in Requests, FreeIds # {},
         Closed(before[h]), Entries(before[h]),
         NEW op \in {"put", "mkdir"}, MakesAsTold(h, op), MkWay(h, op),
         Step(h), req' = req, before'[h] = before[h]
  PROVE  IF status'[h] = Serving THEN MkWay(h, op)' ELSE IsAlone(h)'
<1>1. CASE AtFirst(h, op)
  BY <1>1, MkdirAllAlone
<1>2. CASE AtDirs(h, op) /\ ToMake(work[h], op) # 0
  BY <1>2, MkdirAlone
<1>3. CASE AtDirs(h, op) /\ ToMake(work[h], op) = 0
  <2>1. op = "put"
    <3>1. 1 \in DOMAIN work[h] /\ work[h] \in Seq({work[h][i] : i \in DOMAIN work[h]})
      BY HasWork DEF Inv, WorkInv, SafeWork
    <3>2. Len(work[h]) # 0
      BY <3>1
    <3> QED
      BY <1>3, <3>2 DEF ToMake
  <2> QED
    BY <1>3, <2>1, CreateAlone
<1>4. CASE op = "put" /\ AtBody(h)
  BY <1>4, BodyAlone
<1> QED
  BY <1>1, <1>2, <1>3, <1>4 DEF MkWay

(* A step for a request that nobody disturbs.                              *)
LEMMA StepAlone ==
  ASSUME Inv, Stored, Contents, OutInv, NEW h \in Handlers, FreeIds # {},
         status[h] = Serving, req[h] \in Requests,
         Closed(before[h]), DOMAIN before[h] \subseteq Path, Entries(before[h]),
         Begin(req[h]) = Serving, Way(h),
         Operation(req[h]) \in {"get", "props", "search"} =>
           Stage(h) /\ (status'[h] = Serving => Stage(h)'),
         Step(h), req' = req, before'[h] = before[h]
  PROVE  IF status'[h] = Serving THEN Way(h)' ELSE IsAlone(h)'
<1> DEFINE r == req[h]
           s == before[h]
           body == [i \in 1..r.len |-> <<h, i>>]
<1>0. PICK op : op = Operation(r)
  OBVIOUS
<1>1. Operation(req[h])' = op
  BY <1>0 DEF Operation
<1>2. op \in {"put", "mkdir", "delete", "rename", "modprops", "copy", "get", "props", "search"}
      /\ Within(r.path, Root)
  BY <1>0, AcceptedOps
<1>3. /\ op = "put" => Result(h) = Contract!Put(s, r.path, body)
      /\ op = "mkdir" => Result(h) = Contract!Mkdir(s, r.path)
      /\ op = "delete" => Result(h) = Contract!Delete(s, r.path)
      /\ op = "copy" => Result(h) = Contract!Copies(s, r.path, r.to)
      /\ op = "rename" => Result(h) = Contract!Rename(s, r.path, r.to[1])
      /\ op = "modprops" => Result(h) = Contract!ModProps(s, r)
      /\ op \in {"get", "props", "search"} => Result(h) = Contract!Read(s, r.path)
  BY <1>0, ServedIs DEF Result
<1>4. CASE op \in {"put", "mkdir"}
  <2>1. MakesAsTold(h, op) /\ MkWay(h, op)
    BY <1>0, <1>3, <1>4 DEF MakesAsTold, Way
  <2>2. IF status'[h] = Serving THEN MkWay(h, op)' ELSE IsAlone(h)'
    BY <1>4, <2>1, MakeAlone
  <2>3. MkWay(h, op)' => MkWay(h, Operation(req[h]))'
    BY <1>1
  <2> QED
    BY <1>1, <1>4, <2>2, <2>3 DEF Way
<1>5. CASE op = "delete"
  <2>1. DelWay(h)
    BY <1>0, <1>5 DEF Way
  <2>2. IF status'[h] = Serving THEN DelWay(h)' ELSE IsAlone(h)'
    BY <1>3, <1>5, <2>1, DeleteAlone
  <2> QED
    BY <1>1, <1>5, <2>2 DEF Way
<1>6. CASE op = "rename"
  <2>1. RenameWay(h)
    BY <1>0, <1>6 DEF Way
  <2>2. IF status'[h] = Serving THEN RenameWay(h)' ELSE IsAlone(h)'
    BY <1>2, <1>3, <1>6, <2>1, RenameAlone
  <2> QED
    BY <1>1, <1>6, <2>2 DEF Way
<1>7. CASE op = "modprops"
  <2>1. ModWay(h)
    BY <1>0, <1>7 DEF Way
  <2>2. IF status'[h] = Serving THEN ModWay(h)' ELSE IsAlone(h)'
    BY <1>3, <1>7, <2>1, ModPropsAlone
  <2> QED
    BY <1>1, <1>7, <2>2 DEF Way
<1>8. CASE op \in {"get", "props", "search"}
  <2>1. ReadWay(h) /\ Stage(h) /\ (status'[h] = Serving => Stage(h)')
    BY <1>0, <1>8 DEF Way
  <2>2. IF status'[h] = Serving THEN ReadWay(h)' ELSE IsAlone(h)'
    BY <1>3, <1>0, <1>8, <2>1, ReadsAlone
  <2> QED
    BY <1>1, <1>8, <2>2 DEF Way
<1>9. CASE op = "copy"
  <2>1. CopyWay(h)
    BY <1>0, <1>9 DEF Way
  <2>2. IF status'[h] = Serving THEN CopyWay(h)' ELSE IsAlone(h)'
    BY <1>2, <1>3, <1>9, <2>1, CopyAlone
  <2> QED
    BY <1>1, <1>9, <2>2 DEF Way
<1> QED
  BY <1>2, <1>4, <1>5, <1>6, <1>7, <1>8, <1>9

(* What others do elsewhere changes nothing that the request is about.     *)
LEMMA PartUndisturbed ==
  ASSUME NEW g, req'[g] = req[g],
         \A p \in DOMAIN tree \cup DOMAIN tree' : Changed(p) => ~About(req[g], p)
  PROVE  Part(g)' = Part(g) /\ Nodes(g)' = Nodes(g)
<1>1. ASSUME NEW p, About(req[g], p), p \in DOMAIN tree \cup DOMAIN tree'
      PROVE  p \in DOMAIN tree /\ p \in DOMAIN tree' /\ tree'[p] = tree[p]
             /\ View(tree', data')[p] = View(tree, data)[p]
  BY <1>1 DEF Changed
<1>2. \A q : About(req[g], q)' <=> About(req[g], q)
  BY DEF About
<1>3. {q \in DOMAIN tree : About(req[g], q)}' = {q \in DOMAIN tree : About(req[g], q)}
  BY <1>1, <1>2
<1>4. View(tree, data)' = View(tree', data')
  BY DEF View
<1> QED
  BY <1>1, <1>3, <1>4 DEF Part, Nodes

(* A request is as far as it was if nothing that it is about has changed.  *)
LEMMA WayStays ==
  ASSUME NEW g, req'[g] = req[g], work'[g] = work[g], before'[g] = before[g], Part(g)' = Part(g),
         Nodes(g)' = Nodes(g)
  PROVE  (Way(g) => Way(g)') /\ (status'[g] = status[g] /\ IsAlone(g) => IsAlone(g)')
<1>1. \A u : Agree(req[g], Part(g), u) <=> Agree(req[g], Part(g), u)'
  BY DEF Agree, About
<1>2. ASSUME NEW op \in {"put", "mkdir"} PROVE MkWay(g, op) => MkWay(g, op)'
  <2>1. AtFirst(g, op) => AtFirst(g, op)'
    BY <1>1 DEF AtFirst
  <2>2. AtDirs(g, op) => AtDirs(g, op)'
    <3>1. /\ Built(before[g], HomeDirs(req[g].path, op) \ Unmade(work[g], op))'
             = Built(before[g], HomeDirs(req[g].path, op) \ Unmade(work[g], op))
          /\ HomeDirs(req[g].path, op)' = HomeDirs(req[g].path, op)
          /\ ToMake(work[g], op)' = ToMake(work[g], op)
      BY DEF Built, HomeDirs, Unmade, ToMake
    <3>2. Agree(req[g], Part(g), Built(before[g], HomeDirs(req[g].path, op) \ Unmade(work[g], op)))
          => Agree(req[g], Part(g), Built(before[g], HomeDirs(req[g].path, op) \ Unmade(work[g], op)))'
      BY <3>1 DEF Agree, About
    <3> QED
      BY <3>1, <3>2 DEF AtDirs
  <2>3. AtBody(g) => AtBody(g)'
    <3>1. WithFile(g, Begun(g, work[g][1].n))' = WithFile(g, Begun(g, work[g][1].n))
      BY DEF WithFile, Begun, Built
    <3>2. Agree(req[g], Part(g), WithFile(g, Begun(g, work[g][1].n)))
          => Agree(req[g], Part(g), WithFile(g, Begun(g, work[g][1].n)))'
      BY <3>1 DEF Agree, About
    <3> QED
      BY <3>1, <3>2 DEF AtBody
  <2> QED
    BY <2>1, <2>2, <2>3 DEF MkWay
<1>3. DelWay(g) => DelWay(g)'
  BY DEF DelWay, Covers, Removing, About
<1>4. RenameWay(g) => RenameWay(g)'
  BY <1>1 DEF RenameWay
<1>5. ModWay(g) => ModWay(g)'
  <2>1. \A u : Agree(req[g], Part(g), u)' => (u = (IF work[g][1].act = "setMode" THEN before[g] ELSE [before[g] EXCEPT ![req[g].path] = ModeSet(before[g], req[g])])' => 
         Agree(req[g], Part(g), IF work[g][1].act = "setMode" THEN before[g] ELSE [before[g] EXCEPT ![req[g].path] = ModeSet(before[g], req[g])])')
    OBVIOUS
  <2> QED
    BY <1>1, <2>1 DEF ModWay, ModeSet, IsEntry, Known, Contract!Mine
<1>6. ReadWay(g) => ReadWay(g)'
  BY <1>1 DEF ReadWay
<1>7. CopyWay(g) => CopyWay(g)'
  <2>1. CopyWay(g)' <=> CopyIsAt(work'[g], req[g], before[g], Part(g)', Nodes(g)')
    BY CopyWayNext
  <2> QED
    BY <2>1 DEF CopyWay
<1>8. Way(g) => Way(g)'
  <2>1. PICK op : op = Operation(req[g])
    OBVIOUS
  <2>2. Operation(req[g])' = op
    BY <2>1 DEF Operation
  <2> QED
    BY <1>2, <1>3, <1>4, <1>5, <1>6, <1>7, <2>1, <2>2 DEF Way
<1>9. status'[g] = status[g] /\ IsAlone(g) => IsAlone(g)'
  <2>1. Result(g)' = Result(g)
    BY ResultIs
  <2> QED
    BY <1>1, <2>1 DEF IsAlone
<1> QED
  BY <1>8, <1>9

(* A copy starts before its first target.                                  *)
LEMMA CopyBegins ==
  ASSUME NEW h \in Handlers, NEW r \in Requests, Begin(r) = Serving, Operation(r) = "copy",
         req'[h] = r, work'[h] = Plan("copy", r), Agree(r, Part(h)', before'[h])
  PROVE  CopyWay(h)'
<1>1. PICK w, s, v, N : w = work'[h] /\ s = before'[h] /\ v = Part(h)' /\ N = Nodes(h)'
  OBVIOUS
<1>2. r.path \in Path /\ r.to \in Seq(Path)
  BY HtFileAssumption
<1>3. PICK n : n = Len(r.to)
  OBVIOUS
<1>4. n \in Nat /\ DOMAIN r.to = 1..n /\ n # 0
  <2>1. n \in Nat /\ DOMAIN r.to = 1..n
    BY <1>2, <1>3
  <2>2. r.to # <<>>
    BY AcceptedRequest
  <2> QED
    BY <1>2, <1>3, <2>1, <2>2
<1>5. w = [i \in DOMAIN r.to |-> Call("copyTo", r.path, r.to[i])]
  BY <1>1, Zenon DEF Plan
<1>6. Rest(w, 0, r, 0)
  <2>1. Len(w) = n /\ \A i \in 1..n : w[i] = Call("copyTo", r.path, r.to[i])
    BY <1>4, <1>5
  <2>2. n - 0 = n /\ 0 + n - 0 = n /\ \A i \in 1..n : 0 + i = i
    BY <1>4
  <2> QED
    BY <1>3, <2>1, <2>2 DEF Rest
<1>7. Chain(r, s)[0] = Contract!Is(200, s)
  BY <1>2, CopiesAre DEF Chain, CopiedTo
<1>8. Between(w, r, s, v, 0)
  <2>1. 0 < Len(r.to) /\ Agree(r, v, s)
    BY <1>1, <1>3, <1>4
  <2> QED
    BY <1>6, <1>7, <2>1, ContractIs DEF Between
<1>9. CopyIsAt(w, r, s, v, N)
  <2>1. 0 \in 0..Len(r.to)
    BY <1>3, <1>4
  <2> QED
    BY <1>8, <2>1 DEF CopyIsAt
<1>10. CopyWay(h)' <=> CopyIsAt(work'[h], req'[h], before'[h], Part(h)', Nodes(h)')
  BY DEF CopyWay
<1> QED
  BY <1>1, <1>9, <1>10

(* What a request begins with.                                             *)
LEMMA WayBegins ==
  ASSUME NEW h \in Handlers, NEW r \in Requests, Begin(r) = Serving,
         req'[h] = r, work'[h] = Plan(Operation(r), r), Agree(r, Part(h)', before'[h])
  PROVE  Way(h)'
<1>0. PICK op : op = Operation(r)
  OBVIOUS
<1>1. Operation(req[h])' = op
  BY <1>0 DEF Operation
<1>2. op \in {"put", "mkdir", "delete", "rename", "modprops", "copy", "get", "props", "search"}
      /\ Within(r.path, Root) /\ (op = "rename" => 1 \in DOMAIN r.to)
  BY <1>0, AcceptedOps
<1>3. r.path \in Path /\ r.to \in Seq(Path)
  BY HtFileAssumption
<1>4. Agree(req[h], Part(h), before[h])'
  BY DEF Agree, About
<1> DEFINE own(act) == Call(act, r.path, r.path)
<1>5. \A act : own(act).act = act /\ own(act).to = r.path /\ own(act).from = r.path
  BY DEF Call
<1> HIDE DEF own
<1>6. ASSUME NEW act, Plan(op, r) = <<own(act)>>
      PROVE  work'[h][1].act = act /\ work'[h][1].to = r.path /\ Len(work'[h]) = 1
             /\ DOMAIN work'[h] = {1}
  <2>1. work'[h] = <<own(act)>>
    BY <1>0, <1>6
  <2> QED
    BY <1>5, <2>1
<1>7. CASE op = "put"
  <2>1. Plan(op, r) = <<own("mkdirAll"), own("create")>>
    BY <1>7, Zenon DEF Plan, own
  <2>2. work'[h] = <<own("mkdirAll"), own("create")>>
    BY <1>0, <2>1
  <2>3. work'[h][1] = own("mkdirAll") /\ work'[h][2] = own("create") /\ Len(work'[h]) = 2
    BY <2>2
  <2>4. AtFirst(h, "put")'
    <3>1. Agree(req'[h], Part(h)', before'[h]) <=> Agree(req[h], Part(h), before[h])'
      BY DEF Agree, About
    <3> QED
      BY <1>4, <1>5, <2>3, <3>1 DEF AtFirst, own
  <2>5. MkWay(h, "put")'
    BY <2>4 DEF MkWay
  <2>6. MkWay(h, "put")' => MkWay(h, Operation(req[h]))'
    BY <1>1, <1>7
  <2> QED
    BY <1>1, <1>7, <2>5, <2>6 DEF Way
<1>8. CASE op = "mkdir"
  <2>1. Plan(op, r) = <<own("mkdirAll")>>
    BY <1>8, Zenon DEF Plan, own
  <2>2. AtFirst(h, "mkdir")'
    BY <1>4, <1>6, <2>1 DEF AtFirst
  <2>3. MkWay(h, "mkdir")'
    BY <2>2 DEF MkWay
  <2>4. MkWay(h, "mkdir")' => MkWay(h, Operation(req[h]))'
    BY <1>1, <1>8
  <2> QED
    BY <1>1, <1>8, <2>3, <2>4 DEF Way
<1>9. CASE op = "delete"
  <2>1. Plan(op, r) = <<own("remove")>>
    BY <1>9, Zenon DEF Plan, own
  <2>2. work'[h][1].act = "remove" /\ work'[h][1].to = r.path /\ DOMAIN work'[h] = {1}
    BY <1>6, <2>1
  <2>3. Removing(work'[h][1], r.path)
    BY <1>3, <2>2 DEF Removing, Within
  <2>4. \A q : Within(q, r.path) => Covers(work'[h][1], q)
    BY <2>2 DEF Covers
  <2>5. /\ \A q : About(r, q) => (q \in DOMAIN Part(h)' <=> q \in DOMAIN before'[h])
        /\ \A q \in DOMAIN Part(h)' : About(r, q) /\ Part(h)'[q] = before'[h][q]
    <3>1. \A q \in DOMAIN Part(h)' : About(r, q)
      BY DEF Part, About
    <3> QED
      BY <3>1 DEF Agree
  <2>6. DelWay(h)'
    BY <2>2, <2>3, <2>4, <2>5 DEF DelWay, About, Covers, Removing
  <2> QED
    BY <1>1, <1>9, <2>6 DEF Way
<1>10. CASE op = "rename"
  <2> DEFINE p == [i \in DOMAIN r.to |-> Call("renameTo", r.path, r.to[i])]
  <2>1. Plan(op, r) = p
    BY <1>10, Zenon DEF Plan
  <2>2. Len(r.to) = 1
    <3>1. op # "badRequest" /\ op # "notAllowed" /\ op # "options" /\ op # "modprops"
      BY <1>10
    <3> QED
      BY <1>0, <1>10, <3>1 DEF Begin, Serving
  <2>3. Len(p) = 1 /\ p[1] = Call("renameTo", r.path, r.to[1])
    BY <1>2, <1>3, <1>10, <2>2
  <2>4. work'[h] = p
    BY <1>0, <2>1
  <2> HIDE DEF p
  <2>5. RenameWay(h)'
    BY <1>2, <1>4, <1>10, <2>3, <2>4 DEF RenameWay, Call
  <2> QED
    BY <1>1, <1>10, <2>5 DEF Way
<1>11. CASE op = "modprops"
  <2>1. Plan(op, r) = <<own("modprops")>>
    BY <1>11, Zenon DEF Plan, own
  <2>2. ModWay(h)'
    BY <1>4, <1>6, <2>1 DEF ModWay
  <2> QED
    BY <1>1, <1>11, <2>2 DEF Way
<1>12. CASE op \in {"get", "props", "search"}
  <2>1. Plan(op, r) = <<own(op)>>
    BY <1>12, Zenon DEF Plan, own
  <2>2. ReadWay(h)'
    BY <1>4, <1>6, <1>12, <2>1 DEF ReadWay
  <2> QED
    BY <1>1, <1>12, <2>2 DEF Way
<1>13. CASE op = "copy"
  <2>1. CopyWay(h)'
    BY <1>0, <1>13, CopyBegins
  <2> QED
    BY <1>1, <1>13, <2>1 DEF Way
<1> QED
  BY <1>2, <1>7, <1>8, <1>9, <1>10, <1>11, <1>12, <1>13

(* A request that is received is at the start of its way, or is refused as *)
(* the contract says.                                                      *)
LEMMA AloneBegins ==
  ASSUME Inv, CallsInv, Stored, AnswersInv, NEW h \in Handlers, Receive(h)
  PROVE  Alone(h)'
<1>1. PICK r \in Requests :
        /\ req' = [req EXCEPT ![h] = r]
        /\ status' = [status EXCEPT ![h] = Begin(r)]
        /\ work' = [work EXCEPT ![h] = IF Begin(r) = Serving THEN Plan(Operation(r), r) ELSE <<>>]
  BY DEF Receive
<1>2. PICK s : s = View(tree, data)
  OBVIOUS
<1>3. /\ req'[h] = r /\ status'[h] = Begin(r) /\ before'[h] = s
      /\ tree' = tree /\ data' = data
      /\ Begin(r) = Serving => work'[h] = Plan(Operation(r), r)
  BY <1>1, <1>2 DEF Receive, Inv, WorkInv, CallsInv, AnswersInv
<1>4. /\ DOMAIN s = DOMAIN tree
      /\ \A p \in DOMAIN tree :
           s[p] = [dir |-> tree[p].dir, mode |-> tree[p].mode, owner |-> tree[p].owner,
                   group |-> tree[p].group, data |-> IF tree[p].dir THEN <<>> ELSE data[tree[p].id]]
  BY <1>2 DEF View
<1>5. Closed(s) /\ DOMAIN s \subseteq Path
  BY <1>4 DEF Stored, Closed, Inv, TreeInv
<1>6. Entries(s)
  <2>1. \A dir, mode, owner, group, content :
          IsEntry([dir |-> dir, mode |-> mode, owner |-> owner, group |-> group, data |-> content])
    BY DEF IsEntry
  <2> QED
    BY <1>4, <2>1 DEF Entries
<1>7. Agree(r, Part(h)', s)
  <2>1. /\ \A p : p \in DOMAIN Part(h)' <=> p \in DOMAIN tree /\ About(r, p)
        /\ \A p \in DOMAIN Part(h)' : Part(h)'[p] = s[p]
    BY <1>2, <1>3 DEF Part, About, View
  <2> QED
    BY <1>4, <2>1 DEF Agree
<1>8. ASSUME Begin(r) = Serving PROVE Way(h)'
  BY <1>3, <1>7, <1>8, WayBegins
<1>9. ASSUME Begin(r) # Serving PROVE IsAlone(h)'
  <2>1. PICK a : a = Contract!Served(s, r, [i \in 1..r.len |-> <<h, i>>])
    OBVIOUS
  <2>2. a.status = Begin(r) /\ a.tree = s
    BY <1>9, <2>1, ServedIs
  <2>3. Result(h)' = a
    BY <1>3, <2>1 DEF Result
  <2>4. Agree(req[h], Part(h), Result(h).tree)'
    <3>1. Agree(req'[h], Part(h)', Result(h)'.tree)
      BY <1>3, <1>7, <2>2, <2>3
    <3> QED
      BY <3>1 DEF Agree, About
  <2> QED
    BY <1>3, <2>2, <2>3, <2>4 DEF IsAlone
<1>10. Closed(before[h])' /\ Entries(before[h])'
  BY <1>3, <1>5, <1>6 DEF Closed, Entries
<1>11. (Begin(req[h]) = Serving)' <=> Begin(r) = Serving
  BY <1>3 DEF Begin, Operation, PropsStatus
<1> QED
  BY <1>3, <1>5, <1>8, <1>9, <1>10, <1>11 DEF Alone

(* Whatever happens, a request that nobody disturbed is on its way.        *)
LEMMA AloneStep ==
  ASSUME Inv, Stored, Contents, CallsInv, AnswersInv, AnswersInv', AloneInv, FreeIds # {}, [Next]_vars
  PROVE  AloneInv'
<1>1. ASSUME NEW g \in Handlers, req'[g] = req[g], work'[g] = work[g], status'[g] = status[g],
             pure'[g] => /\ pure[g] /\ before'[g] = before[g]
                         /\ \A p \in DOMAIN tree \cup DOMAIN tree' : Changed(p) => ~About(req[g], p)
      PROVE  Alone(g)'
  <2> SUFFICES ASSUME status'[g] # Free, pure'[g] PROVE Alone(g)'
    BY DEF Alone
  <2>1. pure[g] /\ before'[g] = before[g] /\ Alone(g)
        /\ \A p \in DOMAIN tree \cup DOMAIN tree' : Changed(p) => ~About(req[g], p)
    BY <1>1 DEF AloneInv
  <2>2. Part(g)' = Part(g) /\ Nodes(g)' = Nodes(g)
    BY <1>1, <2>1, PartUndisturbed
  <2>3. (Way(g) => Way(g)') /\ (IsAlone(g) => IsAlone(g)')
    BY <1>1, <2>1, <2>2, WayStays
  <2>4. /\ Closed(before[g])' <=> Closed(before[g])
        /\ Entries(before[g])' <=> Entries(before[g])
        /\ (Begin(req[g]) = Serving)' <=> Begin(req[g]) = Serving
    BY <1>1, <2>1 DEF Closed, Entries, Begin, Operation, PropsStatus
  <2> QED
    BY <1>1, <2>1, <2>3, <2>4 DEF Alone
<1>2. CASE UNCHANGED vars
  <2>1. \A p \in DOMAIN tree \cup DOMAIN tree' : ~Changed(p)
    BY <1>2 DEF vars, Changed
  <2> QED
    BY <1>1, <1>2, <2>1 DEF vars, AloneInv
<1>3. ASSUME NEW h \in Handlers, Receive(h) \/ Return(h) PROVE AloneInv'
  <2>1. \A p \in DOMAIN tree \cup DOMAIN tree' : ~Changed(p)
    BY <1>3 DEF Receive, Return, Changed
  <2>2. ASSUME NEW g \in Handlers, g # h
        PROVE  /\ req'[g] = req[g] /\ work'[g] = work[g] /\ status'[g] = status[g]
               /\ pure'[g] = pure[g] /\ before'[g] = before[g]
    BY <1>3, <2>2 DEF Receive, Return, Inv, WorkInv, CallsInv, AnswersInv
  <2>3. ASSUME NEW g \in Handlers, g # h PROVE Alone(g)'
    BY <1>1, <2>1, <2>2, <2>3
  <2>4. Alone(h)'
    <3>1. CASE Receive(h)
      BY <3>1, AloneBegins
    <3>2. CASE Return(h)
      <4>1. status'[h] = Free
        BY <3>2 DEF Return, Inv, WorkInv
      <4> QED
        BY <4>1 DEF Alone
    <3> QED
      BY <1>3, <3>1, <3>2
  <2> QED
    BY <2>3, <2>4 DEF AloneInv
<1>4. ASSUME NEW h \in Handlers, status[h] = Serving, NEW failed \in BOOLEAN,
             ~failed => Step(h), failed => Fault(h, work[h][1]), Disturbs(h, failed), req' = req
      PROVE  AloneInv'
  <2>1. PICK c : c = work[h][1]
    OBVIOUS
  <2>2. Safe(c)
    BY <1>4, <2>1, FirstCall DEF Inv
  <2>3. (Writes(h, c) /\ UNCHANGED out) \/ Reads(h, c) \/ Fault(h, c)
    BY <1>4, <2>1 DEF Step
  <2>4. \A g \in Handlers : g # h => status'[g] = status[g]
    BY <1>4, <2>3, StepAnswers DEF AnswersInv
  <2>5. \A g \in Handlers : g # h => work'[g] = work[g]
    <3>1. GoesOn(h)
      BY <1>4, <2>1, <2>2, <2>3, StepGoesOn
    <3> QED
      BY <3>1 DEF GoesOn, Inv, WorkInv
  <2>6. ASSUME NEW g \in Handlers, pure'[g]
        PROVE  /\ pure[g] /\ before'[g] = before[g] /\ (g = h => ~failed)
               /\ g # h => \A p \in DOMAIN tree \cup DOMAIN tree' : Changed(p) => ~About(req[g], p)
    <3>1. before'[g] = before[g]
      BY <1>4, <2>6 DEF Disturbs
    <3>2. pure[g] /\ IF g = h THEN ~failed
                     ELSE \A p \in {p \in DOMAIN tree \cup DOMAIN tree' : Changed(p)} : ~About(req[g], p)
      BY <1>4, <2>6 DEF Disturbs
    <3> QED
      BY <3>1, <3>2
  <2>7. ASSUME NEW g \in Handlers, g # h PROVE Alone(g)'
    BY <1>1, <1>4, <2>4, <2>5, <2>6, <2>7
  <2>8. Alone(h)'
    <3> SUFFICES ASSUME status'[h] # Free, pure'[h] PROVE Alone(h)'
      BY DEF Alone
    <3>1. pure[h] /\ before'[h] = before[h] /\ Step(h)
      BY <1>4, <2>6
    <3>2. /\ req[h] \in Requests /\ Closed(before[h]) /\ DOMAIN before[h] \subseteq Path
          /\ Entries(before[h]) /\ Begin(req[h]) = Serving /\ Way(h)
      BY <1>4, <3>1 DEF AloneInv, Alone, Free, Serving
    <3>3. Operation(req[h]) \in {"get", "props", "search"} =>
            Stage(h) /\ (status'[h] = Serving => Stage(h)')
      <4> SUFFICES ASSUME Operation(req[h]) \in {"get", "props", "search"}
                   PROVE  Stage(h) /\ (status'[h] = Serving => Stage(h)')
        OBVIOUS
      <4>1. Reading(h) /\ Reading(h)'
        <5>1. Operation(req[h])' = Operation(req[h])
          BY <1>4 DEF Operation
        <5> QED
          BY <1>4, <3>1, <5>1 DEF Reading, Free, Serving
      <4> QED
        BY <1>4, <4>1 DEF AnswersInv, Answers
    <3>4. IF status'[h] = Serving THEN Way(h)' ELSE IsAlone(h)'
      BY <1>4, <3>1, <3>2, <3>3, StepAlone DEF AnswersInv
    <3>5. /\ Closed(before[h])' <=> Closed(before[h])
          /\ Entries(before[h])' <=> Entries(before[h])
          /\ (Begin(req[h]) = Serving)' <=> Begin(req[h]) = Serving
      BY <1>4, <3>1 DEF Closed, Entries, Begin, Operation, PropsStatus
    <3> QED
      BY <1>4, <3>1, <3>2, <3>4, <3>5 DEF Alone
  <2> QED
    BY <2>7, <2>8 DEF AloneInv
<1>5. ASSUME NEW h \in Handlers, Step(h), Disturbs(h, FALSE), req' = req PROVE AloneInv'
  <2>1. status[h] = Serving
    BY <1>5 DEF Step
  <2>2. ASSUME NEW failed \in BOOLEAN, failed = FALSE PROVE AloneInv'
    <3>1. (~failed => Step(h)) /\ (failed => Fault(h, work[h][1])) /\ Disturbs(h, failed)
      BY <1>5, <2>2
    <3> QED
      BY <1>4, <1>5, <2>1, <3>1
  <2> QED
    BY <2>2
<1>6. ASSUME NEW h \in Handlers, status[h] = Serving, Fault(h, work[h][1]), Disturbs(h, TRUE),
             req' = req
      PROVE  AloneInv'
  <2>1. ASSUME NEW failed \in BOOLEAN, failed = TRUE PROVE AloneInv'
    <3>1. (~failed => Step(h)) /\ (failed => Fault(h, work[h][1])) /\ Disturbs(h, failed)
      BY <1>6, <2>1
    <3> QED
      BY <1>4, <1>6, <3>1
  <2> QED
    BY <2>1
<1> QED
  BY <1>2, <1>3, <1>5, <1>6 DEF Next

(* An answer as the contract says is what ServedAsAlone asks for.          *)
LEMMA AloneIsServed == AloneInv => ServedAsAlone
<1> SUFFICES ASSUME AloneInv, NEW h \in Handlers, Undisturbed(h)
             PROVE  LET r == req[h]
                        alone == Contract!Served(before[h], r, [i \in 1..r.len |-> <<h, i>>])
                        is == View(tree, data)
                        Its(s) == [p \in {q \in DOMAIN s : About(r, q)} |-> s[p]]
                    IN status[h] = alone.status /\ Its(is) = Its(alone.tree)
  BY DEF ServedAsAlone
<1>1. IsAlone(h)
  BY DEF AloneInv, Alone, Undisturbed
<1> DEFINE u == Result(h).tree
           is == View(tree, data)
           Its(s) == [p \in {q \in DOMAIN s : About(req[h], q)} |-> s[p]]
<1>2. Part(h) = Its(is)
  BY DEF Part, View
<1>3. \A p : About(req[h], p) => /\ p \in DOMAIN Its(is) <=> p \in DOMAIN u
                                 /\ p \in DOMAIN Its(is) => Its(is)[p] = u[p]
  BY <1>1, <1>2 DEF IsAlone, Agree
<1> HIDE DEF u, is
<1>4. Its(is) = Its(u)
  <2>1. DOMAIN Its(is) = DOMAIN Its(u)
    BY <1>3
  <2>2. \A p \in DOMAIN Its(is) : Its(is)[p] = Its(u)[p]
    BY <1>3
  <2> QED
    BY <2>1, <2>2
<1> QED
  BY <1>1, <1>4 DEF IsAlone, Result, u, is

(* A request that nobody disturbs is answered, and leaves the files that   *)
(* it is about, as if it was served alone and at once, whatever the other  *)
(* handlers do meanwhile, as long as the disk is not full.                 *)
THEOREM DoneAsAlone == Spec /\ [](FreeIds # {}) => []ServedAsAlone
<1>1. Init => AnswersInv /\ AloneInv
  BY DEF Init, AnswersInv, OutInv, Answers, Reading, AloneInv, Alone
<1>2. /\ Inv /\ CallsInv /\ Stored /\ OpenInv /\ Contents /\ AnswersInv /\ AloneInv
      /\ FreeIds # {} /\ [Next]_vars
      => Inv' /\ CallsInv' /\ Stored' /\ OpenInv' /\ Contents' /\ AnswersInv' /\ AloneInv'
  BY StepInv, CallsStep, StoreStep, ContentsStep, AnswersStep, AloneStep
<1>3. AloneInv => ServedAsAlone
  BY AloneIsServed
<1> QED
  BY <1>1, <1>2, <1>3, InitInv, CallsInit, StoreInit, ContentsInit, PTL DEF Spec
=============================================================================
