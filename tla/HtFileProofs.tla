---------------------------- MODULE HtFileProofs ----------------------------
(***************************************************************************)
(* No request changes anything outside of the served directory, whatever   *)
(* requests there are, in whatever order their calls are made, and         *)
(* wherever they fail.  Calls are only made with paths within it and with  *)
(* files that were created there; what is outside has its own ids, so that *)
(* writing to a file within it cannot change another one.                  *)
(* And a request that asks for something changes nothing at all: the calls *)
(* it starts with only look, and make others that only look.               *)
(* What such a request tells is what is stored.  The store stays a tree    *)
(* (Stored), so a file that was opened by its path is found again by its   *)
(* id; nobody changed what the request is about (Seen); and a search has   *)
(* found what is sought in all directories but those that it has yet to    *)
(* look in, the nearest ones first (SearchInv with BreadthFirst).          *)
(***************************************************************************)
EXTENDS HtFile, FileTreeProofs

Outside(p) == ~Within(p, Root)

OutsideId(i) == \E p \in DOMAIN tree : Outside(p) /\ tree[p].id = i

TreeInv ==
  /\ IsFiniteSet(DOMAIN tree)
  /\ DOMAIN tree \subseteq Path
  /\ Ancestors(Root) \subseteq DOMAIN tree
  /\ \A p \in DOMAIN tree : "id" \in DOMAIN tree[p] /\ tree[p].id \in Ids
  /\ \A p \in DOMAIN tree : ~Outside(p) => ~OutsideId(tree[p].id)
  /\ DOMAIN data = Ids

(* A call that cannot change anything outside: what it is made with.       *)
Safe(c) ==
  /\ {"act", "from", "to", "fd", "tf", "fi", "n"} \subseteq DOMAIN c
  /\ c.from \in Path /\ c.to \in Path /\ c.n \in Nat
  /\ c.act \notin {"copyTo", "renameTo"} => Within(c.to, Root)
  /\ c.act \in {"renameTo", "rename"} => Within(c.from, Root)
  /\ c.act \in {"body", "copy"} => ~OutsideId(c.tf.id)

SafeWork(w) == w \in Seq({w[i] : i \in DOMAIN w}) /\ \A i \in DOMAIN w : Safe(w[i])

WorkInv ==
  /\ DOMAIN work = Handlers /\ DOMAIN status = Handlers
  /\ \A h \in Handlers : SafeWork(work[h]) /\ (status[h] = Serving => work[h] # <<>>)

Inv == TreeInv /\ WorkInv

(* What a step keeps outside.                                              *)
OutsideKept ==
  \A p : Outside(p) =>
    /\ p \in DOMAIN tree <=> p \in DOMAIN tree'
    /\ p \in DOMAIN tree => tree'[p] = tree[p] /\ data'[tree[p].id] = data[tree[p].id]

---------------------------------------------------------------------------
(* Paths.                                                                  *)

LEMMA RootIsPath == Root \in Path /\ Root # <<>> /\ Root # <<".">> /\ Root # <<"/">>
                    /\ Len(Root) \in Nat \ {0}
<1>1. Root \in Path /\ Root # <<>> /\ Root # <<".">> /\ Root # <<"/">>
  BY RootAssumption DEF Bounded
<1> QED
  BY <1>1 DEF Path

(* One sequence begins with another one.                                   *)
LEMMA BeginsWith ==
  ASSUME NEW S, NEW u \in Seq(S), NEW v \in Seq(S), Len(u) <= Len(v)
  PROVE  SubSeq(v, 1, Len(u)) = u <=> \A i \in 1..Len(u) : u[i] = v[i]
<1>1. /\ SubSeq(v, 1, Len(u)) \in Seq(S) /\ Len(SubSeq(v, 1, Len(u))) = Len(u)
      /\ \A i \in 1..Len(u) : SubSeq(v, 1, Len(u))[i] = v[i]
  OBVIOUS
<1>2. ASSUME NEW w \in Seq(S), Len(w) = Len(u) PROVE w = u <=> \A i \in 1..Len(u) : u[i] = w[i]
  BY <1>2
<1> QED
  BY <1>1, <1>2

(* What cleanDirPath puts before a relative path.                          *)
Before(p) == IF p[1] = "/" THEN 0 ELSE 2

CleanChar == Char \cup {".", "/"}

LEMMA CleanDirPathIs ==
  ASSUME NEW p \in Path, p # <<>>, p # <<".">>
  PROVE  LET c == CleanDirPath(p)
         IN /\ c \in Seq(CleanChar) /\ Len(c) = Before(p) + Len(p)
            /\ \A i \in 1..Len(p) : c[Before(p) + i] = p[i]
            /\ Before(p) = 2 => c[1] = "." /\ c[2] = "/"
            /\ Before(p) \in {0, 2} /\ Len(p) \in Nat \ {0}
<1>1. p \in Seq(CleanChar) /\ Len(p) \in Nat \ {0} /\ <<".", "/">> \in Seq(CleanChar)
  BY DEF Path, CleanChar
<1>2. CASE p[1] = "/"
  BY <1>1, <1>2 DEF CleanDirPath, Before
<1>3. CASE p[1] # "/"
  <2>1. CleanDirPath(p) = <<".", "/">> \o p
    BY <1>3 DEF CleanDirPath
  <2> QED
    BY <1>1, <1>3, <2>1 DEF Before
<1> QED
  BY <1>2, <1>3

(* What cleanDirPath makes of two paths of a kind begins alike if they do. *)
LEMMA CleanBeginsAlike ==
  ASSUME NEW a \in Path, NEW b \in Path, a # <<>>, a # <<".">>, b # <<>>, b # <<".">>,
         a[1] = "/" <=> b[1] = "/", Len(a) <= Len(b)
  PROVE  SubSeq(CleanDirPath(b), 1, Len(CleanDirPath(a))) = CleanDirPath(a)
           <=> \A i \in 1..Len(a) : a[i] = b[i]
<1> DEFINE u == CleanDirPath(a)
           v == CleanDirPath(b)
           k == Before(a)
<1>1. /\ u \in Seq(CleanChar) /\ Len(u) = k + Len(a) /\ \A i \in 1..Len(a) : u[k + i] = a[i]
      /\ v \in Seq(CleanChar) /\ Len(v) = k + Len(b) /\ \A i \in 1..Len(b) : v[k + i] = b[i]
      /\ k = 2 => u[1] = "." /\ u[2] = "/" /\ v[1] = "." /\ v[2] = "/"
  <2>1. Before(b) = k
    BY DEF Before
  <2> QED
    BY <2>1, CleanDirPathIs
<1>2. k \in {0, 2} /\ Len(a) \in Nat \ {0} /\ Len(b) \in Nat \ {0}
  BY CleanDirPathIs
<1> HIDE DEF u, v, k
<1>3. Len(u) <= Len(v)
  BY <1>1, <1>2
<1>4. SubSeq(v, 1, Len(u)) = u <=> \A i \in 1..Len(u) : u[i] = v[i]
  BY <1>1, <1>3, BeginsWith
<1>5. ASSUME \A i \in 1..Len(u) : u[i] = v[i], NEW i \in 1..Len(a) PROVE a[i] = b[i]
  <2>1. k + i \in 1..Len(u) /\ i \in 1..Len(b)
    BY <1>1, <1>2
  <2> QED
    BY <1>1, <1>5, <2>1
<1>6. ASSUME \A i \in 1..Len(a) : a[i] = b[i], NEW i \in 1..Len(u) PROVE u[i] = v[i]
  <2>1. CASE i <= k
    BY <1>1, <1>2, <2>1
  <2>2. CASE i > k
    <3>1. i - k \in 1..Len(a) /\ i - k \in 1..Len(b) /\ k + (i - k) = i
      BY <1>1, <1>2, <2>2
    <3> QED
      BY <1>1, <1>6, <3>1
  <2> QED
    BY <1>2, <2>1, <2>2
<1>7. SubSeq(v, 1, Len(u)) = u <=> \A i \in 1..Len(a) : a[i] = b[i]
  BY <1>4, <1>5, <1>6
<1> QED
  BY <1>7 DEF u, v

(* Of two paths, both absolute or both relative, one may be within the     *)
(* other.                                                                  *)
LEMMA IntersectIs ==
  ASSUME NEW p \in Path, NEW q \in Path, p # <<>>, p # <<".">>, q # <<>>, q # <<".">>,
         p[1] = "/" <=> q[1] = "/"
  PROVE  PathIntersect(p, q) = IF p = q THEN "samePath" ELSE IF Below(q, p) THEN "leftContains"
                               ELSE IF Below(p, q) THEN "rightContains" ELSE "noMatch"
<1> DEFINE cp == CleanDirPath(p)
           cq == CleanDirPath(q)
           k == Before(p)
<1>1. /\ cp \in Seq(CleanChar) /\ Len(cp) = k + Len(p) /\ \A i \in 1..Len(p) : cp[k + i] = p[i]
      /\ cq \in Seq(CleanChar) /\ Len(cq) = k + Len(q) /\ \A i \in 1..Len(q) : cq[k + i] = q[i]
      /\ k = 2 => cp[1] = "." /\ cp[2] = "/" /\ cq[1] = "." /\ cq[2] = "/"
  <2>1. Before(q) = k
    BY DEF Before
  <2> QED
    BY <2>1, CleanDirPathIs
<1>2. k \in {0, 2} /\ Len(p) \in Nat \ {0} /\ Len(q) \in Nat \ {0}
  BY CleanDirPathIs
<1>3. /\ Len(p) <= Len(q) => (SubSeq(cq, 1, Len(cp)) = cp <=> \A i \in 1..Len(p) : p[i] = q[i])
      /\ Len(q) <= Len(p) => (SubSeq(cp, 1, Len(cq)) = cq <=> \A i \in 1..Len(q) : q[i] = p[i])
  BY CleanBeginsAlike
<1> HIDE DEF cp, cq, k
<1>4. /\ Below(q, p) => Len(p) < Len(q)
      /\ Below(p, q) => Len(q) < Len(p)
  BY BelowIsLonger
<1>5. CASE Len(p) = Len(q)
  <2>1. Len(cp) = Len(cq) /\ (cp = cq <=> \A i \in 1..Len(cp) : cp[i] = cq[i])
    BY <1>1, <1>2, <1>5
  <2>2. cp = cq <=> SubSeq(cq, 1, Len(cp)) = cp
    BY <1>1, <1>2, <2>1, BeginsWith
  <2>3. p = q <=> \A i \in 1..Len(p) : p[i] = q[i]
    BY <1>5, SamePath
  <2>4. cp = cq <=> p = q
    BY <1>1, <1>2, <1>3, <1>5, <2>2, <2>3
  <2>5. PathIntersect(p, q) = IF cp = cq THEN "samePath" ELSE "noMatch"
    BY <2>1 DEF PathIntersect, cp, cq
  <2> QED
    BY <1>2, <1>4, <1>5, <2>4, <2>5
<1>6. CASE Len(p) < Len(q)
  <2>1. PathIntersect(p, q) = IF SubSeq(cq, 1, Len(cp)) = cp /\ cq[Len(cp) + 1] = "/"
                                THEN "leftContains" ELSE "noMatch"
    <3>1. Len(cp) # Len(cq) /\ Len(cp) < Len(cq)
      BY <1>1, <1>2, <1>6
    <3> QED
      BY <3>1 DEF PathIntersect, cp, cq
  <2>2. SubSeq(cq, 1, Len(cp)) = cp <=> \A i \in 1..Len(p) : p[i] = q[i]
    BY <1>1, <1>2, <1>3, <1>6
  <2>3. cq[Len(cp) + 1] = q[Len(p) + 1]
    <3>1. Len(p) + 1 \in 1..Len(q) /\ Len(cp) + 1 = k + (Len(p) + 1)
      BY <1>1, <1>2, <1>6
    <3> QED
      BY <1>1, <3>1
  <2> QED
    BY <1>2, <1>4, <1>6, <2>1, <2>2, <2>3, BelowIsOnTheWay DEF OnTheWay
<1>7. CASE Len(q) < Len(p)
  <2>1. PathIntersect(p, q) = IF SubSeq(cp, 1, Len(cq)) = cq /\ cp[Len(cq) + 1] = "/"
                                THEN "rightContains" ELSE "noMatch"
    <3>1. Len(cp) # Len(cq) /\ ~(Len(cp) < Len(cq))
      BY <1>1, <1>2, <1>7
    <3> QED
      BY <3>1 DEF PathIntersect, cp, cq
  <2>2. SubSeq(cp, 1, Len(cq)) = cq <=> \A i \in 1..Len(q) : q[i] = p[i]
    BY <1>1, <1>2, <1>3, <1>7
  <2>3. cp[Len(cq) + 1] = p[Len(q) + 1]
    <3>1. Len(q) + 1 \in 1..Len(p) /\ Len(cq) + 1 = k + (Len(q) + 1)
      BY <1>1, <1>2, <1>7
    <3> QED
      BY <1>1, <3>1
  <2> QED
    BY <1>2, <1>4, <1>7, <2>1, <2>2, <2>3, BelowIsOnTheWay DEF OnTheWay
<1> QED
  BY <1>2, <1>5, <1>6, <1>7

(* getPath only accepts what is within the served directory.               *)
LEMMA GetPathIsWithin ==
  ASSUME NEW p \in Path, GetPath(p)
  PROVE  Within(p, Root)
<1> DEFINE c == CleanDirPath(Root)
           q == CleanDirPath(p)
<1>1. /\ c \in Seq(CleanChar) /\ Len(c) = Before(Root) + Len(Root)
      /\ \A i \in 1..Len(Root) : c[Before(Root) + i] = Root[i]
      /\ Before(Root) = 2 => c[1] = "." /\ c[2] = "/"
      /\ Before(Root) \in {0, 2} /\ Len(Root) \in Nat \ {0}
  BY CleanDirPathIs, RootIsPath
<1>2. Len(c) > 1 /\ (c[1] = "/" <=> Root[1] = "/")
  <2>1. CASE Root[1] = "/"
    <3>1. Len(Root) # 1
      BY <2>1, RootIsPath DEF Path
    <3>2. Before(Root) = 0
      BY <2>1 DEF Before
    <3> QED
      BY <1>1, <2>1, <3>1, <3>2
  <2>2. CASE Root[1] # "/"
    <3>1. Before(Root) = 2
      BY <2>2 DEF Before
    <3> QED
      BY <1>1, <2>2, <3>1
  <2> QED
    BY <2>1, <2>2
<1>3. \/ Len(c) = Len(q) /\ q = c
      \/ Len(c) < Len(q) /\ SubSeq(q, 1, Len(c)) = c
  BY Zenon DEF GetPath, PathIntersect
<1>4. p # <<>> /\ p # <<".">>
  <2>1. SUFFICES ASSUME p = <<>> \/ p = <<".">> PROVE FALSE
    OBVIOUS
  <2>2. q = <<".">>
    BY <2>1 DEF CleanDirPath
  <2>3. Len(q) = 1
    BY <2>2
  <2> HIDE DEF c, q
  <2> QED
    BY <1>1, <1>2, <1>3, <2>3
<1>5. /\ q \in Seq(CleanChar) /\ Len(q) = Before(p) + Len(p)
      /\ \A i \in 1..Len(p) : q[Before(p) + i] = p[i]
      /\ Before(p) = 2 => q[1] = "." /\ q[2] = "/"
      /\ Before(p) \in {0, 2} /\ Len(p) \in Nat \ {0}
  BY <1>4, CleanDirPathIs
<1>6. q[1] = "/" <=> p[1] = "/"
  <2>1. CASE p[1] = "/"
    <3>1. Before(p) = 0
      BY <2>1 DEF Before
    <3> HIDE DEF c, q
    <3> QED
      BY <1>5, <2>1, <3>1
  <2>2. CASE p[1] # "/"
    <3>1. Before(p) = 2
      BY <2>2 DEF Before
    <3> HIDE DEF c, q
    <3> QED
      BY <1>5, <2>2, <3>1
  <2> QED
    BY <2>1, <2>2
<1> HIDE DEF c, q
<1>7. q[1] = c[1]
  <2>1. CASE Len(c) < Len(q) /\ SubSeq(q, 1, Len(c)) = c
    <3>1. \A i \in 1..Len(c) : c[i] = q[i]
      BY <1>1, <1>5, <2>1, BeginsWith
    <3> QED
      BY <1>1, <1>2, <3>1
  <2> QED
    BY <1>3, <2>1
<1>8. PathIntersect(Root, p) = IF Root = p THEN "samePath" ELSE IF Below(p, Root) THEN "leftContains"
                               ELSE IF Below(Root, p) THEN "rightContains" ELSE "noMatch"
  BY <1>2, <1>4, <1>6, <1>7, IntersectIs, RootIsPath
<1> QED
  BY <1>8 DEF GetPath, Within

(* The directories above the root are outside.                             *)
LEMMA AboveIsOutside ==
  ASSUME NEW a \in Ancestors(Root)
  PROVE  a \in Path /\ Outside(a)
<1>1. a \in Path /\ OnTheWay(a, Root)
  BY RootIsPath, AncestorsOfPath, BelowIsOnTheWay DEF Below
<1>2. a # Root /\ ~OnTheWay(Root, a)
  BY <1>1, RootIsPath DEF OnTheWay
<1> QED
  BY <1>1, <1>2, RootIsPath, BelowIsOnTheWay DEF Outside, Within

---------------------------------------------------------------------------
(* What the calls do to the tree and to the data.                          *)

(* A call that changes neither keeps what is outside.                      *)
LEMMA NothingChanges ==
  ASSUME TreeInv, UNCHANGED fs
  PROVE  TreeInv' /\ OutsideKept
BY DEF fs, TreeInv, OutsideKept, OutsideId, Outside

(* So does a call that writes to a file that is not outside.               *)
LEMMA WritesInside ==
  ASSUME TreeInv, NEW i, NEW v, ~OutsideId(i), tree' = tree, data' = [data EXCEPT ![i] = v]
  PROVE  TreeInv' /\ OutsideKept
<1>1. DOMAIN data' = DOMAIN data /\ \A j \in DOMAIN data : j # i => data'[j] = data[j]
  OBVIOUS
<1>2. OutsideKept
  BY <1>1 DEF TreeInv, OutsideKept, OutsideId
<1> QED
  BY <1>1, <1>2 DEF TreeInv, OutsideId, Outside

(* So does one that alters what exists at a path inside.                   *)
LEMMA AltersInside ==
  ASSUME TreeInv, NEW p, Within(p, Root),
         DOMAIN tree' = DOMAIN tree,
         \A q \in DOMAIN tree : q # p => tree'[q] = tree[q],
         p \in DOMAIN tree => "id" \in DOMAIN tree'[p] /\ tree'[p].id = tree[p].id,
         data' = data
  PROVE  TreeInv' /\ OutsideKept
<1>1. OutsideKept
  BY DEF OutsideKept, Outside
<1>2. \A i : OutsideId(i)' <=> OutsideId(i)
  BY DEF OutsideId, Outside
<1> QED
  BY <1>1, <1>2 DEF TreeInv, Outside

(* So does one that puts something new, with an id of its own, at a path   *)
(* inside.                                                                 *)
LEMMA AddsInside ==
  ASSUME TreeInv, NEW p \in Path, Within(p, Root), NEW n, "id" \in DOMAIN n, n.id \in FreeIds,
         tree' = With(tree, p, n), NEW v, data' = [data EXCEPT ![n.id] = v]
  PROVE  TreeInv' /\ OutsideKept /\ ~OutsideId(n.id)
<1>1. n.id \in Ids /\ ~OutsideId(n.id)
  BY DEF FreeIds, OutsideId
<1>2. DOMAIN tree' = DOMAIN tree \cup {p} /\ tree'[p] = n
      /\ \A q \in DOMAIN tree : q # p => tree'[q] = tree[q]
  BY DEF With
<1>3. DOMAIN data' = DOMAIN data /\ \A j \in DOMAIN data : j # n.id => data'[j] = data[j]
  OBVIOUS
<1>4. OutsideKept
  BY <1>1, <1>2, <1>3 DEF TreeInv, OutsideKept, OutsideId, Outside
<1>5. \A i : OutsideId(i)' <=> OutsideId(i)
  BY <1>2 DEF OutsideId, Outside
<1>6. IsFiniteSet(DOMAIN tree')
  BY <1>2, FS_AddElement DEF TreeInv
<1> QED
  BY <1>1, <1>2, <1>3, <1>4, <1>5, <1>6 DEF TreeInv, Outside

(* So does one that takes away what is within a path inside.               *)
LEMMA TakesAwayInside ==
  ASSUME TreeInv, NEW p \in Path, Within(p, Root), tree' = Without(tree, p), data' = data
  PROVE  TreeInv' /\ OutsideKept
<1>1. DOMAIN tree' = {q \in DOMAIN tree : ~Within(q, p)}
      /\ \A q \in DOMAIN tree' : tree'[q] = tree[q]
  BY DEF Without
<1>2. \A q \in DOMAIN tree : Outside(q) => ~Within(q, p)
  BY WithinTransitive, RootIsPath DEF TreeInv, Outside
<1>3. OutsideKept
  BY <1>1, <1>2 DEF OutsideKept
<1>4. \A i : OutsideId(i)' <=> OutsideId(i)
  BY <1>1, <1>2 DEF OutsideId, Outside
<1>5. IsFiniteSet(DOMAIN tree')
  BY <1>1, FS_Subset DEF TreeInv
<1>6. Ancestors(Root) \subseteq DOMAIN tree'
  BY <1>3, AboveIsOutside DEF TreeInv, OutsideKept
<1> QED
  BY <1>1, <1>3, <1>4, <1>5, <1>6 DEF TreeInv, Outside

(* So does one that renames what is inside to a path inside.               *)
LEMMA MovesInside ==
  ASSUME TreeInv, NEW from \in Path, NEW to \in Path, Within(from, Root), Within(to, Root),
         tree' = Renamed(tree, from, to), data' = data
  PROVE  TreeInv' /\ OutsideKept
<1> DEFINE stays == {r \in DOMAIN tree : ~Within(r, from) /\ ~Within(r, to)}
           moves == {s \in DOMAIN tree : Within(s, from)}
           moved == {Rebased(r, from, to) : r \in moves}
           f == [r \in moves |-> Rebased(r, from, to)]
<1>1. to # <<>>
  BY RootIsPath, BelowIsOnTheWay DEF Within, OnTheWay, Path
<1>2. DOMAIN tree' = stays \cup moved
  BY DEF Renamed
<1>3. \A q \in stays : tree'[q] = tree[q]
  BY DEF Renamed
<1>4. \A r \in moves : /\ Rebased(r, from, to) \in Path
                       /\ Within(Rebased(r, from, to), to)
                       /\ tree'[Rebased(r, from, to)] = tree[r]
  <2> TAKE r \in moves
  <2>1. r \in Path /\ Within(r, from)
    BY DEF TreeInv
  <2>2. Rebased(r, from, to) \in Path /\ Within(Rebased(r, from, to), to)
    BY <1>1, <2>1, RebasedIsWithin
  <2>3. Rebased(Rebased(r, from, to), to, from) = r
    BY <2>1, RebasedBack
  <2>4. Rebased(r, from, to) \in moved
    OBVIOUS
  <2>5. \A q \in stays \cup moved :
          Within(q, to) => tree'[q] = tree[Rebased(q, to, from)]
    BY Zenon DEF Renamed
  <2> HIDE DEF moved
  <2> QED
    BY <2>2, <2>3, <2>4, <2>5
<1>5. \A q \in DOMAIN tree : Outside(q) => q \in stays
  BY WithinTransitive, RootIsPath DEF TreeInv, Outside
<1>6. \A q \in moved : ~Outside(q) /\ q \in Path /\ \E r \in moves : tree'[q] = tree[r]
  BY <1>4, WithinTransitive, RootIsPath DEF Outside
<1>7. \A r \in moves : ~Outside(r)
  BY WithinTransitive, RootIsPath DEF TreeInv, Outside
<1>8. IsFiniteSet(DOMAIN tree')
  <2>1. IsFiniteSet(stays) /\ IsFiniteSet(moves)
    BY FS_Subset DEF TreeInv
  <2>2. f \in Surjection(moves, moved)
    BY DEF Surjection
  <2>3. IsFiniteSet(moved)
    BY <2>1, <2>2, FS_Surjection
  <2> QED
    BY <1>2, <2>1, <2>3, FS_Union, ZenonT(60)
<1> HIDE DEF moved
<1>9. OutsideKept
  BY <1>2, <1>3, <1>5, <1>6 DEF OutsideKept
<1>10. \A i : OutsideId(i)' <=> OutsideId(i)
  BY <1>2, <1>3, <1>5, <1>6 DEF OutsideId, Outside
<1>11. Ancestors(Root) \subseteq DOMAIN tree'
  BY <1>9, AboveIsOutside DEF TreeInv, OutsideKept
<1>12. \A q \in DOMAIN tree' : q \in Path /\ "id" \in DOMAIN tree'[q] /\ tree'[q].id \in Ids
  BY <1>2, <1>3, <1>6 DEF TreeInv
<1>13. \A q \in DOMAIN tree' : ~Outside(q) => ~OutsideId(tree'[q].id)
  BY <1>2, <1>3, <1>6, <1>7 DEF TreeInv
<1>14. \A q \in DOMAIN tree' : ~Outside(q) => ~OutsideId(tree[q].id)'
  BY <1>10, <1>13
<1>15. DOMAIN data' = Ids
  BY DEF TreeInv
<1> HIDE DEF moves, stays, f
<1> QED
  BY <1>8, <1>9, <1>11, <1>12, <1>14, <1>15 DEF TreeInv, Outside

---------------------------------------------------------------------------
(* The calls that are yet to make.                                         *)

(* What is outside keeps its ids, so that what is safe stays safe.         *)
LEMMA SafeStaysSafe ==
  ASSUME TreeInv, OutsideKept
  PROVE  /\ \A i : OutsideId(i)' <=> OutsideId(i)
         /\ \A c : Safe(c) => Safe(c)'
<1>1. \A i : OutsideId(i)' <=> OutsideId(i)
  BY DEF OutsideKept, OutsideId, Outside
<1>2. ASSUME NEW c, Safe(c) PROVE Safe(c)'
  <2> SUFFICES ASSUME c.act \in {"body", "copy"} PROVE ~OutsideId(c.tf.id)'
    BY <1>2 DEF Safe
  <2> QED
    BY <1>1, <1>2 DEF Safe
<1> QED
  BY <1>1, <1>2

(* Calls that are safe are safe work.                                      *)
LEMMA SafeCalls ==
  ASSUME NEW S, NEW w \in Seq(S), \A c \in S : Safe(c)
  PROVE  SafeWork(w)
<1>1. \A i \in DOMAIN w : w[i] \in S
  OBVIOUS
<1>2. w \in Seq({w[i] : i \in DOMAIN w})
  OBVIOUS
<1> QED
  BY <1>1, <1>2 DEF SafeWork

(* The work of a handler that serves: a safe call and safe ones after it.  *)
LEMMA FirstCall ==
  ASSUME WorkInv, NEW h \in Handlers, status[h] = Serving
  PROVE  /\ Safe(work[h][1])
         /\ \E S : work[h] \in Seq(S) /\ Tail(work[h]) \in Seq(S) /\ \A c \in S : Safe(c)
<1> DEFINE S == {work[h][i] : i \in DOMAIN work[h]}
<1>1. work[h] \in Seq(S) /\ work[h] # <<>> /\ \A c \in S : Safe(c)
  BY DEF WorkInv, SafeWork
<1> HIDE DEF S
<1>2. Tail(work[h]) \in Seq(S) /\ work[h][1] \in S
  BY <1>1
<1> QED
  BY <1>1, <1>2

(* A handler gets other work, which is safe; the others keep theirs.       *)
LEMMA NewWork ==
  ASSUME TreeInv, OutsideKept, WorkInv, NEW h \in Handlers, NEW s, NEW S, NEW w \in Seq(S),
         \A c \in S : Safe(c)', s = Serving => w # <<>>,
         work' = [work EXCEPT ![h] = w], status' = [status EXCEPT ![h] = s]
  PROVE  WorkInv'
<1>1. SafeWork(w)'
  <2>1. w \in Seq({w[i] : i \in DOMAIN w}) /\ \A i \in DOMAIN w : w[i] \in S
    OBVIOUS
  <2> QED
    BY <2>1 DEF SafeWork
<1>2. \A v : SafeWork(v) => SafeWork(v)'
  BY SafeStaysSafe DEF SafeWork
<1>3. DOMAIN work' = Handlers /\ DOMAIN status' = Handlers
      /\ work'[h] = w /\ status'[h] = s
      /\ \A g \in Handlers : g # h => work'[g] = work[g] /\ status'[g] = status[g]
  BY DEF WorkInv
<1> QED
  BY <1>1, <1>2, <1>3 DEF WorkInv

(* The calls that come next are safe.                                      *)
LEMMA ThenIsSafe ==
  ASSUME TreeInv, OutsideKept, WorkInv, NEW h \in Handlers, status[h] = Serving,
         NEW C, NEW cs \in Seq(C), \A c \in C : Safe(c)', Then(h, cs)
  PROVE  WorkInv'
<1>1. PICK S : Tail(work[h]) \in Seq(S) /\ \A c \in S : Safe(c)
  BY FirstCall
<1> DEFINE w == cs \o Tail(work[h])
           T == C \cup S
<1>2. w \in Seq(T) /\ \A c \in T : Safe(c)'
  BY <1>1, SafeStaysSafe
<1>3. work' = [work EXCEPT ![h] = w]
      /\ status' = [status EXCEPT ![h] = IF w = <<>> THEN 200 ELSE Serving]
  BY DEF Then
<1>4. (IF w = <<>> THEN 200 ELSE Serving) = Serving => w # <<>>
  BY DEF Serving
<1> HIDE DEF w, T
<1> QED
  BY <1>2, <1>3, <1>4, NewWork

(* There is nothing more to do.                                            *)
LEMMA NoneIsSafe ==
  ASSUME TreeInv, OutsideKept, WorkInv, NEW h \in Handlers, status[h] = Serving,
         Then(h, <<>>)
  PROVE  WorkInv'
<1> DEFINE cs == <<>>
           C == {}
<1>1. cs \in Seq(C) /\ \A c \in C : Safe(c)'
  OBVIOUS
<1>2. Then(h, cs)
  OBVIOUS
<1> HIDE DEF cs, C
<1> QED
  BY <1>1, <1>2, ThenIsSafe

(* One call comes next.                                                    *)
LEMMA OneIsSafe ==
  ASSUME TreeInv, OutsideKept, WorkInv, NEW h \in Handlers, status[h] = Serving,
         NEW c, Safe(c)', Then(h, <<c>>)
  PROVE  WorkInv'
<1> DEFINE cs == <<c>>
           C == {c}
<1>1. cs \in Seq(C) /\ \A d \in C : Safe(d)'
  OBVIOUS
<1>2. Then(h, cs)
  OBVIOUS
<1> HIDE DEF cs, C
<1> QED
  BY <1>1, <1>2, ThenIsSafe

(* The handler answers, and makes no more calls.                           *)
LEMMA AnswerIsSafe ==
  ASSUME Inv, NEW h \in Handlers, NEW code, code # Serving, Answer(h, code)
  PROVE  Inv' /\ OutsideKept
<1>1. TreeInv' /\ OutsideKept
  BY NothingChanges DEF Inv, Answer
<1> DEFINE w == <<>>
           S == {}
<1>2. w \in Seq(S) /\ \A c \in S : Safe(c)'
  OBVIOUS
<1>3. work' = [work EXCEPT ![h] = w] /\ status' = [status EXCEPT ![h] = code]
  BY DEF Answer
<1> HIDE DEF w, S
<1>4. WorkInv'
  BY <1>1, <1>2, <1>3, NewWork DEF Inv
<1> QED
  BY <1>1, <1>4 DEF Inv

(* A call fails.                                                           *)
LEMMA FailsIsSafe ==
  ASSUME Inv, NEW h \in Handlers, NEW err, Fails(h, err)
  PROVE  Inv' /\ OutsideKept
<1>1. StatusOf(err) # Serving
  BY DEF StatusOf, Serving
<1> QED
  BY <1>1, AnswerIsSafe DEF Fails

(* The handler goes on with other calls, without a change.                 *)
LEMMA ContinueIsSafe ==
  ASSUME Inv, NEW h \in Handlers, status[h] = Serving,
         NEW C, NEW cs \in Seq(C), \A c \in C : Safe(c), Continue(h, cs)
  PROVE  Inv' /\ OutsideKept
<1>1. TreeInv' /\ OutsideKept
  BY NothingChanges DEF Inv, Continue
<1>2. \A c \in C : Safe(c)'
  BY <1>1, SafeStaysSafe DEF Inv
<1> QED
  BY <1>1, <1>2, ThenIsSafe DEF Inv, Continue

(* It goes on with what was to come.                                       *)
LEMMA ContinueNoneIsSafe ==
  ASSUME Inv, NEW h \in Handlers, status[h] = Serving, Continue(h, <<>>)
  PROVE  Inv' /\ OutsideKept
<1>1. TreeInv' /\ OutsideKept
  BY NothingChanges DEF Inv, Continue
<1> QED
  BY <1>1, NoneIsSafe DEF Inv, Continue

(* It goes on with one call.                                               *)
LEMMA ContinueOneIsSafe ==
  ASSUME Inv, NEW h \in Handlers, status[h] = Serving, NEW c, Safe(c), Continue(h, <<c>>)
  PROVE  Inv' /\ OutsideKept
<1>1. TreeInv' /\ OutsideKept
  BY NothingChanges DEF Inv, Continue
<1>2. Safe(c)'
  BY <1>1, SafeStaysSafe DEF Inv
<1> QED
  BY <1>1, <1>2, OneIsSafe DEF Inv, Continue

(* A finite set in some order is a sequence of its elements.               *)
LEMMA OrderOfSet ==
  ASSUME NEW S, IsFiniteSet(S), NEW s \in SetToSeqs(S)
  PROVE  s \in Seq(S)
<1>1. Cardinality(S) \in Nat
  BY FS_CardinalityType
<1> QED
  BY <1>1 DEF SetToSeqs

(* What a directory within a path contains is within it.                   *)
LEMMA ChildrenInside ==
  ASSUME TreeInv, NEW d \in Path
  PROVE  /\ IsFiniteSet(Children(tree, d))
         /\ \A q \in Children(tree, d) :
              q \in Path /\ Below(q, d) /\ (Within(d, Root) => Within(q, Root))
<1>1. IsFiniteSet(Children(tree, d))
  BY FS_Subset DEF TreeInv, Children
<1>2. ASSUME NEW q \in Children(tree, d)
      PROVE  q \in Path /\ Below(q, d) /\ (Within(d, Root) => Within(q, Root))
  <2>1. q \in Path /\ Below(q, d)
    BY DEF TreeInv, Children, IsChild
  <2> QED
    BY <2>1, WithinTransitive, RootIsPath DEF Within
<1> QED
  BY <1>1, <1>2

---------------------------------------------------------------------------
(* The calls of the methods that write.                                    *)

(* os.Mkdir with a path inside.                                            *)
LEMMA MakeDirInside ==
  ASSUME TreeInv, NEW p \in Path, Within(p, Root), MakeDir(p)
  PROVE  TreeInv' /\ OutsideKept
<1> DEFINE n == NewNode(TRUE)
<1>1. FreeIds # {}
  BY DEF MakeDir, OrNoSpace
<1>2. "id" \in DOMAIN n /\ n.id \in FreeIds
  BY <1>1 DEF NewNode
<1>3. tree' = With(tree, p, n)
  BY DEF MakeDir
<1> HIDE DEF n
<1>4. tree'[p].id = n.id
  BY <1>3 DEF With
<1>5. data' = [data EXCEPT ![n.id] = <<>>]
  BY <1>4 DEF MakeDir
<1> QED
  BY <1>2, <1>3, <1>5, AddsInside

(* os.Create with a path inside, and the file that it opens.               *)
LEMMA CreateInside ==
  ASSUME TreeInv, NEW p \in Path, Within(p, Root), Create(p)
  PROVE  TreeInv' /\ OutsideKept /\ ~OutsideId(Created(p).id)
<1>1. CASE p \in DOMAIN tree
  <2>1. tree' = tree /\ ~OutsideId(tree[p].id) /\ data' = [data EXCEPT ![tree[p].id] = <<>>]
    BY <1>1 DEF Create, TreeInv, Outside
  <2> QED
    BY <2>1, WritesInside DEF Created
<1>2. CASE p \notin DOMAIN tree
  <2> DEFINE n == NewNode(FALSE)
  <2>1. FreeIds # {}
    BY <1>2 DEF Create, CreationError, OrNoSpace
  <2>2. "id" \in DOMAIN n /\ n.id \in FreeIds
    BY <2>1 DEF NewNode
  <2>3. tree' = With(tree, p, n)
    BY <1>2 DEF Create
  <2> HIDE DEF n
  <2>4. tree'[p].id = n.id
    BY <2>3 DEF With
  <2>5. data' = [data EXCEPT ![n.id] = <<>>]
    BY <2>4 DEF Create
  <2> QED
    BY <2>2, <2>3, <2>4, <2>5, AddsInside DEF Created
<1> QED
  BY <1>1, <1>2

(* os.Chmod with a path inside.                                            *)
LEMMA ChmodInside ==
  ASSUME TreeInv, NEW p, Within(p, Root), NEW mode, Chmod(p, mode)
  PROVE  TreeInv' /\ OutsideKept
<1>1. tree' = [tree EXCEPT ![p].mode = mode] /\ data' = data
  BY DEF Chmod
<1>2. DOMAIN tree' = DOMAIN tree /\ \A q \in DOMAIN tree : q # p => tree'[q] = tree[q]
  BY <1>1
<1>3. p \in DOMAIN tree => "id" \in DOMAIN tree'[p] /\ tree'[p].id = tree[p].id
  BY <1>1 DEF TreeInv
<1> QED
  BY <1>1, <1>2, <1>3, AltersInside

(* os.MkdirAll only looks at the directories that it will make.            *)
LEMMA MkdirAllIsSafe ==
  ASSUME Inv, NEW h \in Handlers, status[h] = Serving, NEW c, Safe(c), MkdirAll(h, c)
  PROVE  Inv' /\ OutsideKept
<1> DEFINE dirs == Ancestors(c.to) \cup (IF Tail(work[h]) = <<>> THEN {c.to} ELSE {})
           missing == dirs \ DOMAIN tree
           cs(s) == [i \in DOMAIN s |-> Call("mkdir", s[i], s[i])]
<1>1. CASE \E d \in dirs \cap DOMAIN tree : Fails(h, "ENOTDIR")
  BY <1>1, FailsIsSafe
<1>2. CASE \E s \in SetToSeqs(missing) : Continue(h, cs(s))
  <2>1. PICK s \in SetToSeqs(missing) : Continue(h, cs(s))
    BY <1>2
  <2>2. c.to \in Path /\ Within(c.to, Root)
    BY DEF MkdirAll, Safe
  <2>3. IsFiniteSet(missing)
    <3>1. IsFiniteSet(Ancestors(c.to)) /\ IsFiniteSet({c.to}) /\ IsFiniteSet({})
      BY <2>2, AncestorsOfPath, FS_Singleton, FS_EmptySet
    <3>2. IsFiniteSet(dirs)
      BY <3>1, FS_Union
    <3> QED
      BY <3>2, FS_Difference
  <2>4. \A d \in missing : d \in Path /\ Within(d, Root)
    BY <2>2, AncestorsOfPath, WithinOrAbove, RootIsPath DEF Inv, TreeInv
  <2> HIDE DEF missing
  <2> DEFINE C == {Call("mkdir", d, d) : d \in missing}
  <2>5. cs(s) \in Seq(C)
    <3>1. s \in Seq(missing)
      BY <2>3, OrderOfSet
    <3> QED
      BY <3>1
  <2>6. \A d \in C : Safe(d)
    BY <2>4 DEF Safe, Call
  <2> HIDE DEF C, cs
  <2> QED
    BY <2>1, <2>5, <2>6, ContinueIsSafe
<1> QED
  BY <1>1, <1>2 DEF MkdirAll

(* The steps of PUT, and of MKDIR.                                         *)
LEMMA PutIsSafe ==
  ASSUME Inv, NEW h \in Handlers, status[h] = Serving, NEW c, Safe(c),
         Mkdir(h, c) \/ PutCreate(h, c) \/ PutBody(h, c)
  PROVE  Inv' /\ OutsideKept
<1>1. CASE Mkdir(h, c)
  <2>1. c.to \in Path /\ Within(c.to, Root)
    BY <1>1 DEF Mkdir, Safe
  <2>2. CASE MakeDir(c.to) /\ Then(h, <<>>)
    <3>1. TreeInv' /\ OutsideKept
      BY <2>1, <2>2, MakeDirInside DEF Inv
    <3> QED
      BY <2>2, <3>1, NoneIsSafe DEF Inv
  <2> QED
    BY <1>1, <2>2, ContinueNoneIsSafe, FailsIsSafe DEF Mkdir
<1>2. CASE PutCreate(h, c)
  <2>1. c.to \in Path /\ Within(c.to, Root)
    BY <1>2 DEF PutCreate, Safe
  <2>2. CASE Create(c.to) /\ Then(h, <<[c EXCEPT !.act = "body", !.tf = Created(c.to)]>>)
    <3>0. PICK tf : tf = Created(c.to)
      OBVIOUS
    <3> DEFINE d == [c EXCEPT !.act = "body", !.tf = tf]
    <3>1. TreeInv' /\ OutsideKept /\ ~OutsideId(tf.id)
      BY <2>1, <2>2, <3>0, CreateInside DEF Inv
    <3>2. Safe(d)
      BY <2>1, <3>1 DEF Safe
    <3>3. Then(h, <<d>>)
      BY <2>2, <3>0
    <3> HIDE DEF d
    <3>4. Safe(d)'
      BY <3>1, <3>2, SafeStaysSafe DEF Inv
    <3> QED
      BY <3>1, <3>3, <3>4, OneIsSafe DEF Inv
  <2> QED
    BY <1>2, <2>2, FailsIsSafe DEF PutCreate
<1>3. CASE PutBody(h, c)
  <2> DEFINE d == [c EXCEPT !.n = @ + 1]
  <2>1. c.act = "body" /\ ~OutsideId(c.tf.id) /\ Safe(d)
    BY <1>3 DEF PutBody, Safe
  <2>2. CASE Write(c.tf, c.n, <<<<h, c.n + 1>>>>) /\ Then(h, <<d>>)
    <3>1. TreeInv' /\ OutsideKept
      BY <2>1, <2>2, WritesInside DEF Write, Inv
    <3> HIDE DEF d
    <3>2. Safe(d)'
      BY <2>1, <3>1, SafeStaysSafe DEF Inv
    <3> QED
      BY <2>2, <3>1, <3>2, OneIsSafe DEF Inv
  <2>3. CASE Answer(h, 413)
    BY <2>3, AnswerIsSafe DEF Serving
  <2>4. CASE Continue(h, <<>>)
    BY <2>4, ContinueNoneIsSafe
  <2> QED
    BY <1>3, <2>2, <2>3, <2>4 DEF PutBody
<1> QED
  BY <1>1, <1>2, <1>3

(* The next path that a copy or a rename asks for is only used when        *)
(* getPath accepts it.                                                     *)
LEMMA TargetIsSafe ==
  ASSUME Inv, NEW h \in Handlers, status[h] = Serving, NEW c, Safe(c), Target(h, c)
  PROVE  Inv' /\ OutsideKept
<1> DEFINE d == [c EXCEPT !.act = IF @ = "copyTo" THEN "lstat" ELSE "rename"]
<1>1. CASE GetPath(c.to) /\ Continue(h, <<d>>)
  <2>1. Within(c.to, Root)
    BY <1>1, GetPathIsWithin DEF Safe
  <2>2. Safe(d)
    BY <2>1 DEF Target, Safe
  <2> HIDE DEF d
  <2> QED
    BY <1>1, <2>2, ContinueOneIsSafe
<1> QED
  BY <1>1, AnswerIsSafe DEF Target, Serving

(* What a copy looks at and opens.                                         *)
LEMMA CopyLooksIsSafe ==
  ASSUME Inv, NEW h \in Handlers, status[h] = Serving, NEW c, Safe(c),
         CopyLstat(h, c) \/ CopyOpen(h, c)
  PROVE  Inv' /\ OutsideKept
<1>1. CASE CopyLstat(h, c)
  <2> DEFINE d == [c EXCEPT !.act = "open", !.fi = Info(c.from)]
  <2>1. Safe(d)
    BY <1>1 DEF CopyLstat, Safe
  <2>2. Fails(h, LookupError(tree, c.from)) \/ Continue(h, <<d>>)
    BY <1>1 DEF CopyLstat
  <2> HIDE DEF d
  <2> QED
    BY <2>1, <2>2, FailsIsSafe, ContinueOneIsSafe
<1>2. CASE CopyOpen(h, c)
  <2> DEFINE d == [c EXCEPT !.act = IF c.fi.dir THEN "copyDir" ELSE "copyFile",
                            !.fd = Opened(c.from)]
  <2>1. Safe(d)
    BY <1>2 DEF CopyOpen, Safe
  <2>2. Fails(h, LookupError(tree, c.from)) \/ Continue(h, <<d>>)
    BY <1>2 DEF CopyOpen
  <2> HIDE DEF d
  <2> QED
    BY <2>1, <2>2, FailsIsSafe, ContinueOneIsSafe
<1> QED
  BY <1>1, <1>2

(* A copy makes a directory, a file, and its content.                      *)
LEMMA CopyMakesIsSafe ==
  ASSUME Inv, NEW h \in Handlers, status[h] = Serving, NEW c, Safe(c),
         CopyDir(h, c) \/ CopyFile(h, c) \/ CopyData(h, c)
  PROVE  Inv' /\ OutsideKept
<1>1. CASE CopyDir(h, c)
  <2> DEFINE d == [c EXCEPT !.act = "list"]
  <2>1. c.to \in Path /\ Within(c.to, Root) /\ Safe(d)
    BY <1>1 DEF CopyDir, Safe
  <2>2. CASE MakeDir(c.to) /\ Then(h, <<d>>)
    <3>1. TreeInv' /\ OutsideKept
      BY <2>1, <2>2, MakeDirInside DEF Inv
    <3> HIDE DEF d
    <3>2. Safe(d)'
      BY <2>1, <3>1, SafeStaysSafe DEF Inv
    <3> QED
      BY <2>2, <3>1, <3>2, OneIsSafe DEF Inv
  <2> QED
    BY <1>1, <2>2, FailsIsSafe DEF CopyDir
<1>2. CASE CopyFile(h, c)
  <2>1. c.to \in Path /\ Within(c.to, Root)
    BY <1>2 DEF CopyFile, Safe
  <2>2. CASE /\ Create(c.to)
             /\ Then(h, <<[c EXCEPT !.act = "copy", !.tf = Created(c.to)]>>)
    <3>0. PICK tf : tf = Created(c.to)
      OBVIOUS
    <3> DEFINE d == [c EXCEPT !.act = "copy", !.tf = tf]
    <3>1. TreeInv' /\ OutsideKept /\ ~OutsideId(tf.id)
      BY <2>1, <2>2, <3>0, CreateInside DEF Inv
    <3>2. Safe(d)
      BY <2>1, <3>1 DEF Safe
    <3>3. Then(h, <<d>>)
      BY <2>2, <3>0
    <3> HIDE DEF d
    <3>4. Safe(d)'
      BY <3>1, <3>2, SafeStaysSafe DEF Inv
    <3> QED
      BY <3>1, <3>3, <3>4, OneIsSafe DEF Inv
  <2> QED
    BY <1>2, <2>2, FailsIsSafe DEF CopyFile
<1>3. CASE CopyData(h, c)
  <2> DEFINE d == [c EXCEPT !.act = "chmod"]
  <2>1. ~OutsideId(c.tf.id) /\ Safe(d)
    BY <1>3 DEF CopyData, Safe
  <2>2. CASE Write(c.tf, 0, data[c.fd.id]) /\ Then(h, <<d>>)
    <3>1. TreeInv' /\ OutsideKept
      BY <2>1, <2>2, WritesInside DEF Write, Inv
    <3> HIDE DEF d
    <3>2. Safe(d)'
      BY <2>1, <3>1, SafeStaysSafe DEF Inv
    <3> QED
      BY <2>2, <3>1, <3>2, OneIsSafe DEF Inv
  <2> QED
    BY <1>3, <2>2, FailsIsSafe DEF CopyData
<1> QED
  BY <1>1, <1>2, <1>3

(* What a directory that is copied contains is copied into the copy.       *)
LEMMA CopyListIsSafe ==
  ASSUME Inv, NEW h \in Handlers, status[h] = Serving, NEW c, Safe(c), CopyList(h, c)
  PROVE  Inv' /\ OutsideKept
<1> DEFINE e == [c EXCEPT !.act = "chmod"]
           last == <<e>>
           entry(name) == Call("lstat", c.from \o name, c.to \o name)
           name(q, d) == SubSeq(q, Len(d) + 1, Len(q))
           cs(s, d) == [i \in DOMAIN s |-> entry(name(s[i], d))]
<1>1. c.from \in Path /\ c.to \in Path /\ Within(c.to, Root) /\ c.to # <<>> /\ Safe(e)
  <2>1. c.from \in Path /\ c.to \in Path /\ Within(c.to, Root) /\ Safe(e)
    BY DEF CopyList, Safe
  <2> QED
    BY <2>1, RootIsPath, BelowIsOnTheWay DEF Within, OnTheWay, Path
<1> HIDE DEF e
<1>2. CASE Continue(h, last)
  BY <1>1, <1>2, ContinueOneIsSafe
<1>3. CASE \E d \in Places(c.fd) : \E s \in SetToSeqs(Children(tree, d)) :
             Continue(h, cs(s, d) \o last)
  <2>0. PICK d \in Places(c.fd) : \E s \in SetToSeqs(Children(tree, d)) :
               Continue(h, cs(s, d) \o last)
    BY <1>3
  <2>1. PICK s \in SetToSeqs(Children(tree, d)) : Continue(h, cs(s, d) \o last)
    BY <2>0
  <2>2. d \in Path
    BY DEF Places, Inv, TreeInv
  <2> DEFINE C == {entry(name(q, d)) : q \in Children(tree, d)}
  <2>3. \A x \in C : Safe(x)
    <3>1. SUFFICES ASSUME NEW q \in Children(tree, d) PROVE Safe(entry(name(q, d)))
      OBVIOUS
    <3>2. q \in Path /\ Within(q, d)
      BY <2>2, ChildrenInside DEF Within, Inv
    <3>3. name(q, d) \in Path
      BY <2>2, <3>2, BelowIsOnTheWay DEF Within, OnTheWay, Path
    <3>4. c.from \o name(q, d) \in Path
      BY <1>1, <3>3, ConcatPaths
    <3>5. c.to \o name(q, d) \in Path /\ Within(c.to \o name(q, d), c.to)
      BY <1>1, <2>2, <3>2, RebasedIsWithin DEF Rebased
    <3>6. Within(c.to \o name(q, d), Root)
      BY <1>1, <3>5, WithinTransitive, RootIsPath
    <3> HIDE DEF name
    <3> QED
      BY <3>4, <3>5, <3>6 DEF Safe, Call
  <2>4. cs(s, d) \in Seq(C)
    <3>1. s \in Seq(Children(tree, d))
      BY <2>2, ChildrenInside, OrderOfSet DEF Inv
    <3> HIDE DEF entry
    <3> QED
      BY <3>1
  <2> DEFINE D == C \cup {e}
             ds == cs(s, d) \o last
  <2> HIDE DEF C, cs
  <2>5. ds \in Seq(D) /\ \A x \in D : Safe(x)
    BY <1>1, <2>3, <2>4
  <2>6. Continue(h, ds)
    BY <2>1
  <2> HIDE DEF D, ds
  <2> QED
    BY <2>5, <2>6, ContinueIsSafe
<1> HIDE DEF last
<1> QED
  BY <1>2, <1>3, FailsIsSafe DEF CopyList, last, e

(* A copy gets the mode of what is copied.                                 *)
LEMMA CopyChmodIsSafe ==
  ASSUME Inv, NEW h \in Handlers, status[h] = Serving, NEW c, Safe(c), CopyChmod(h, c)
  PROVE  Inv' /\ OutsideKept
<1>1. Within(c.to, Root)
  BY DEF CopyChmod, Safe
<1>2. CASE Chmod(c.to, c.fi.mode) /\ Then(h, <<>>)
  <2>1. TreeInv' /\ OutsideKept
    BY <1>1, <1>2, ChmodInside DEF Inv
  <2> QED
    BY <1>2, <2>1, NoneIsSafe DEF Inv
<1> QED
  BY <1>2, FailsIsSafe DEF CopyChmod

(* os.Rename with two paths inside.                                        *)
LEMMA RenameIsSafe ==
  ASSUME Inv, NEW h \in Handlers, status[h] = Serving, NEW c, Safe(c), Rename(h, c)
  PROVE  Inv' /\ OutsideKept
<1>1. c.from \in Path /\ c.to \in Path /\ Within(c.from, Root) /\ Within(c.to, Root)
  BY DEF Rename, Safe
<1>2. CASE tree' = Renamed(tree, c.from, c.to) /\ Then(h, <<>>) /\ UNCHANGED data
  <2>1. TreeInv' /\ OutsideKept
    BY <1>1, <1>2, MovesInside DEF Inv
  <2> QED
    BY <1>2, <2>1, NoneIsSafe DEF Inv
<1> QED
  BY <1>2, FailsIsSafe DEF Rename

(* os.RemoveAll with a path inside: it and what it contains.               *)
LEMMA RemoveIsSafe ==
  ASSUME Inv, NEW h \in Handlers, status[h] = Serving, NEW c, Safe(c),
         RemoveAll(h, c) \/ Rmdir(h, c)
  PROVE  Inv' /\ OutsideKept
<1>1. c.to \in Path /\ Within(c.to, Root)
  BY DEF RemoveAll, Rmdir, Safe
<1>2. ASSUME Removes(h, c.to) PROVE Inv' /\ OutsideKept
  <2>1. TreeInv' /\ OutsideKept
    BY <1>1, <1>2, TakesAwayInside DEF Removes, Inv
  <2> QED
    BY <1>2, <2>1, NoneIsSafe DEF Removes, Inv
<1>3. CASE RemoveAll(h, c)
  <2> DEFINE e == [c EXCEPT !.act = "rmdir"]
             inside == Children(tree, c.to)
             cs(s) == [i \in DOMAIN s |-> Call("remove", s[i], s[i])]
  <2>1. Safe(e)
    BY <1>3 DEF RemoveAll, Safe
  <2>2. CASE \E s \in SetToSeqs(inside) : Continue(h, cs(s) \o <<e>>)
    <3>1. PICK s \in SetToSeqs(inside) : Continue(h, cs(s) \o <<e>>)
      BY <2>2
    <3> DEFINE C == {Call("remove", q, q) : q \in inside}
               D == C \cup {e}
               ds == cs(s) \o <<e>>
    <3>2. \A x \in C : Safe(x)
      BY <1>1, ChildrenInside DEF Safe, Call, Inv
    <3>3. cs(s) \in Seq(C)
      <4>1. s \in Seq(inside)
        BY <1>1, ChildrenInside, OrderOfSet DEF Inv
      <4> HIDE DEF inside
      <4> QED
        BY <4>1
    <3> HIDE DEF C, cs, e
    <3>4. ds \in Seq(D) /\ \A x \in D : Safe(x)
      BY <2>1, <3>2, <3>3
    <3>5. Continue(h, ds)
      BY <3>1
    <3> HIDE DEF D, ds
    <3> QED
      BY <3>4, <3>5, ContinueIsSafe
  <2> QED
    BY <1>2, <1>3, <2>2, ContinueNoneIsSafe DEF RemoveAll
<1>4. CASE Rmdir(h, c)
  <2>1. ASSUME NEW code \in {404, 500}, Answer(h, code) PROVE Inv' /\ OutsideKept
    BY <2>1, AnswerIsSafe DEF Serving
  <2> QED
    BY <1>2, <1>4, <2>1, ContinueNoneIsSafe DEF Rmdir
<1> QED
  BY <1>3, <1>4

(* modpropsf alters only what is at its path.                              *)
LEMMA ModPropsIsSafe ==
  ASSUME Inv, NEW h \in Handlers, status[h] = Serving, NEW c, Safe(c),
         ModPropsLstat(h, c) \/ SetMode(h, c) \/ SetOwner(h, c)
  PROVE  Inv' /\ OutsideKept
<1>1. ASSUME NEW code \in {404}, Answer(h, code) PROVE Inv' /\ OutsideKept
  BY <1>1, AnswerIsSafe DEF Serving
<1>2. CASE ModPropsLstat(h, c)
  <2> DEFINE d == [c EXCEPT !.act = "setMode", !.fi = Info(c.to)]
  <2>1. Safe(d)
    BY <1>2 DEF ModPropsLstat, Safe
  <2>2. \/ Fails(h, LookupError(tree, c.to)) \/ Answer(h, 404) \/ Continue(h, <<d>>)
    BY <1>2 DEF ModPropsLstat
  <2> HIDE DEF d
  <2> QED
    BY <1>1, <2>1, <2>2, FailsIsSafe, ContinueOneIsSafe
<1>3. CASE SetMode(h, c)
  <2> DEFINE d == [c EXCEPT !.act = "setOwner"]
             mode == IF req[h].mode = "" THEN c.fi.mode ELSE req[h].mode
  <2>1. Within(c.to, Root) /\ Safe(d)
    BY <1>3 DEF SetMode, Safe
  <2>2. \/ Continue(h, <<d>>)
        \/ Answer(h, 404)
        \/ Chmod(c.to, mode) /\ Then(h, <<d>>)
    BY <1>3 DEF SetMode
  <2> HIDE DEF d, mode
  <2>3. CASE Chmod(c.to, mode) /\ Then(h, <<d>>)
    <3>1. TreeInv' /\ OutsideKept
      BY <2>1, <2>3, ChmodInside DEF Inv
    <3>2. Safe(d)'
      BY <2>1, <3>1, SafeStaysSafe DEF Inv
    <3> QED
      BY <2>3, <3>1, <3>2, OneIsSafe DEF Inv
  <2> QED
    BY <1>1, <2>1, <2>2, <2>3, ContinueOneIsSafe
<1>4. CASE SetOwner(h, c)
  <2>1. Within(c.to, Root)
    BY <1>4 DEF SetOwner, Safe
  <2>2. ASSUME NEW uid, NEW gid, Then(h, <<>>), data' = data,
               tree' = [tree EXCEPT ![c.to].owner = uid, ![c.to].group = gid]
        PROVE  Inv' /\ OutsideKept
    <3>1. DOMAIN tree' = DOMAIN tree /\ \A q \in DOMAIN tree : q # c.to => tree'[q] = tree[q]
      BY <2>2
    <3>2. c.to \in DOMAIN tree => "id" \in DOMAIN tree'[c.to] /\ tree'[c.to].id = tree[c.to].id
      BY <2>2 DEF Inv, TreeInv
    <3>3. TreeInv' /\ OutsideKept
      BY <2>1, <2>2, <3>1, <3>2, AltersInside DEF Inv
    <3> QED
      BY <2>2, <3>3, NoneIsSafe DEF Inv
  <2> DEFINE owner == IF req[h].owner = "" THEN c.fi.owner ELSE req[h].owner
             group == IF req[h].group = "" THEN c.fi.group ELSE req[h].group
  <2>3. \/ Continue(h, <<>>)
        \/ Answer(h, 404)
        \/ /\ Then(h, <<>>) /\ data' = data
           /\ tree' = [tree EXCEPT ![c.to].owner = owner, ![c.to].group = group]
    BY <1>4 DEF SetOwner
  <2> HIDE DEF owner, group
  <2> QED
    BY <1>1, <2>2, <2>3, ContinueNoneIsSafe
<1> QED
  BY <1>2, <1>3, <1>4

---------------------------------------------------------------------------
(* The calls of the methods that ask for something.                        *)

(* A search looks at directories only.                                     *)
LEMMA ScanIsSafe ==
  ASSUME Inv, NEW h \in Handlers, status[h] = Serving, NEW c, Safe(c), Scan(h, c)
  PROVE  Inv' /\ OutsideKept
<1>1. TreeInv' /\ OutsideKept
  BY NothingChanges DEF Inv, Scan
<1> DEFINE dirs == {q \in Children(tree, c.to) : tree[q].dir}
           cs(s) == [i \in DOMAIN s |-> Call("scan", s[i], s[i])]
<1>2. c.to \in Path /\ Within(c.to, Root)
  BY DEF Scan, Safe
<1>3. CASE \E s \in SetToSeqs(dirs) :
             LET left == Tail(work[h]) \o cs(s)
             IN /\ work' = [work EXCEPT ![h] = left]
                /\ status' = [status EXCEPT ![h] = IF left = <<>> THEN 200 ELSE @]
  <2>1. PICK s \in SetToSeqs(dirs) :
               LET left == Tail(work[h]) \o cs(s)
               IN /\ work' = [work EXCEPT ![h] = left]
                  /\ status' = [status EXCEPT ![h] = IF left = <<>> THEN 200 ELSE @]
    BY <1>3
  <2>2. PICK S : Tail(work[h]) \in Seq(S) /\ \A x \in S : Safe(x)
    BY FirstCall DEF Inv
  <2> DEFINE C == {Call("scan", q, q) : q \in dirs}
             left == Tail(work[h]) \o cs(s)
             code == IF left = <<>> THEN 200 ELSE status[h]
             T == S \cup C
  <2>3. \A x \in C : Safe(x)
    BY <1>2, ChildrenInside DEF Safe, Call, Inv
  <2>4. cs(s) \in Seq(C)
    <3>1. IsFiniteSet(dirs)
      BY <1>2, ChildrenInside, FS_Subset DEF Inv
    <3>2. s \in Seq(dirs)
      BY <3>1, OrderOfSet
    <3> HIDE DEF dirs
    <3> QED
      BY <3>2
  <2>5. work' = [work EXCEPT ![h] = left] /\ status' = [status EXCEPT ![h] = code]
    BY <2>1
  <2>6. code = Serving => left # <<>>
    BY DEF Serving
  <2> HIDE DEF C, cs
  <2>7. left \in Seq(T) /\ \A x \in T : Safe(x)'
    BY <1>1, <2>2, <2>3, <2>4, SafeStaysSafe DEF Inv
  <2> HIDE DEF left, code, T
  <2>8. WorkInv'
    BY <1>1, <2>5, <2>6, <2>7, NewWork DEF Inv
  <2> QED
    BY <1>1, <2>8 DEF Inv
<1>4. CASE work' = [work EXCEPT ![h] = <<>>] /\ status' = [status EXCEPT ![h] = 200]
  <2>1. Answer(h, 200)
    BY <1>4 DEF Answer, Scan
  <2> QED
    BY <2>1, AnswerIsSafe DEF Serving
<1> QED
  BY <1>3, <1>4 DEF Scan

(* The other ones change nothing and go on with a call with the same path. *)
LEMMA ReadsIsSafe ==
  ASSUME Inv, NEW h \in Handlers, status[h] = Serving, NEW c, Safe(c), Reads(h, c)
  PROVE  Inv' /\ OutsideKept
<1>1. CASE Props(h, c)
  BY <1>1, FailsIsSafe, ContinueNoneIsSafe DEF Props
<1>2. CASE GetOpen(h, c)
  <2> DEFINE d == [c EXCEPT !.act = "stat", !.fd = Opened(c.to)]
  <2>1. Safe(d)
    BY <1>2 DEF GetOpen, Safe
  <2>2. Fails(h, LookupError(tree, c.to)) \/ Continue(h, <<d>>)
    BY <1>2 DEF GetOpen
  <2> HIDE DEF d
  <2> QED
    BY <2>1, <2>2, FailsIsSafe, ContinueOneIsSafe
<1>3. CASE GetStat(h, c)
  <2> DEFINE d == [c EXCEPT !.act = "readdir"]
             e == [c EXCEPT !.act = "send"]
  <2>1. Safe(d) /\ Safe(e)
    BY <1>3 DEF GetStat, Safe
  <2>2. Continue(h, <<d>>) \/ Continue(h, <<>>) \/ Continue(h, <<e>>)
    BY <1>3 DEF GetStat
  <2> HIDE DEF d, e
  <2> QED
    BY <2>1, <2>2, ContinueNoneIsSafe, ContinueOneIsSafe
<1>4. CASE GetDir(h, c) \/ GetFile(h, c)
  BY <1>4, ContinueNoneIsSafe DEF GetDir, GetFile
<1>5. CASE SearchLstat(h, c)
  <2> DEFINE d == [c EXCEPT !.act = "scan"]
  <2>1. Safe(d)
    BY <1>5 DEF SearchLstat, Safe
  <2>2. Fails(h, LookupError(tree, c.to)) \/ Continue(h, <<>>) \/ Continue(h, <<d>>)
    BY <1>5 DEF SearchLstat
  <2> HIDE DEF d
  <2> QED
    BY <2>1, <2>2, FailsIsSafe, ContinueNoneIsSafe, ContinueOneIsSafe
<1> QED
  BY <1>1, <1>2, <1>3, <1>4, <1>5, ScanIsSafe DEF Reads

(* A call that fails ends the request, or the others go on.                *)
LEMMA FaultIsSafe ==
  ASSUME Inv, NEW h \in Handlers, status[h] = Serving, NEW c, Fault(h, c)
  PROVE  Inv' /\ OutsideKept
<1>1. ASSUME NEW code \in {404, 413, 500}, Answer(h, code) PROVE Inv' /\ OutsideKept
  BY <1>1, AnswerIsSafe DEF Serving
<1> QED
  BY <1>1, ContinueNoneIsSafe DEF Fault

---------------------------------------------------------------------------
(* Requests come and go.                                                   *)

Operations == {"get", "props", "search", "put", "modprops", "delete", "mkdir", "copy", "rename"}

(* A request that is not refused is for one of the operations, with a path *)
(* that getPath accepts.                                                   *)
LEMMA AcceptedRequest ==
  ASSUME NEW r \in Requests, Begin(r) = Serving
  PROVE  /\ Operation(r) \in Operations
         /\ Within(r.path, Root)
         /\ Operation(r) \in {"copy", "rename"} => r.to # <<>>
<1> DEFINE op == Operation(r)
<1>1. r.path \in Path /\ r.to \in Seq(Path) /\ r.cmds \in Seq(STRING)
  BY HtFileAssumption
<1>2. op \in Operations \cup {"options", "badRequest", "notAllowed"}
  <2>1. \A none, allowed : Command(r.cmds, allowed, none) \in allowed \cup {none, "badRequest"}
    BY <1>1 DEF Command
  <2> QED
    BY <2>1 DEF Operation, MethodOp, GetCmds, PostCmds, Operations
<1> HIDE DEF op
<1>3. /\ op \notin {"options", "badRequest", "notAllowed"}
      /\ GetPath(r.path)
      /\ op = "copy" => r.to # <<>>
      /\ op = "rename" => Len(r.to) = 1
  <2>1. PropsStatus(r) \in {200, 400, 413}
    BY DEF PropsStatus
  <2> QED
    BY <2>1 DEF Begin, Serving, op
<1>4. op \in {"copy", "rename"} => r.to # <<>>
  <2>1. Len(<<>>) = 0
    OBVIOUS
  <2> QED
    BY <1>3, <2>1
<1> QED
  BY <1>1, <1>2, <1>3, <1>4, GetPathIsWithin DEF op

(* What it calls first is safe.                                            *)
LEMMA PlanIsSafe ==
  ASSUME NEW r \in Requests, Begin(r) = Serving
  PROVE  /\ Plan(Operation(r), r) # <<>>
         /\ \E S : Plan(Operation(r), r) \in Seq(S) /\ \A c \in S : Safe(c)
<1> DEFINE op == Operation(r)
           own(act) == Call(act, r.path, r.path)
<1>1. /\ r.path \in Path /\ r.to \in Seq(Path) /\ Within(r.path, Root)
      /\ op \in Operations /\ (op \in {"copy", "rename"} => r.to # <<>>)
  BY HtFileAssumption, AcceptedRequest
<1>2. ASSUME NEW act \in {"mkdirAll", "create", "remove", "get", "props", "search", "modprops"}
      PROVE  Safe(own(act))
  BY <1>1 DEF Safe, Call
<1> HIDE DEF op
<1>3. CASE op = "put"
  <2> DEFINE S == {own("mkdirAll"), own("create")}
  <2>1. Plan(op, r) = <<own("mkdirAll"), own("create")>>
    BY <1>3, Zenon DEF Plan
  <2>2. \A c \in S : Safe(c)
    BY <1>2
  <2> HIDE DEF own
  <2>3. <<own("mkdirAll"), own("create")>> # <<>>
        /\ <<own("mkdirAll"), own("create")>> \in Seq(S)
    OBVIOUS
  <2> HIDE DEF S
  <2> QED
    BY <2>1, <2>2, <2>3 DEF op
<1>4. CASE op \in {"copy", "rename"}
  <2> DEFINE act == IF op = "copy" THEN "copyTo" ELSE "renameTo"
             S == {Call(act, r.path, q) : q \in Path}
             p == [i \in DOMAIN r.to |-> Call(act, r.path, r.to[i])]
  <2>1. Plan(op, r) = p
    <3>1. CASE op = "copy"
      BY <3>1, Zenon DEF Plan
    <3>2. CASE op = "rename"
      BY <3>2, Zenon DEF Plan
    <3> QED
      BY <1>4, <3>1, <3>2
  <2>2. \A c \in S : Safe(c)
    BY <1>1 DEF Safe, Call
  <2> HIDE DEF act
  <2>3. p \in Seq(S) /\ p # <<>>
    BY <1>1, <1>4
  <2> QED
    BY <2>1, <2>2, <2>3 DEF op
<1>5. CASE op \notin {"put", "copy", "rename"}
  <2> DEFINE act == IF op = "mkdir" THEN "mkdirAll" ELSE IF op = "delete" THEN "remove" ELSE op
             S == {own(act)}
  <2>1. act \in {"mkdirAll", "create", "remove", "get", "props", "search", "modprops"}
    BY <1>1, <1>5 DEF Operations
  <2>2. Plan(op, r) = <<own(act)>>
    <3>1. CASE op = "mkdir"
      BY <3>1, Zenon DEF Plan
    <3>2. CASE op = "delete"
      BY <3>2, Zenon DEF Plan
    <3>3. CASE op \notin {"mkdir", "delete"}
      BY <1>5, <3>3, Zenon DEF Plan
    <3> QED
      BY <3>1, <3>2, <3>3
  <2> HIDE DEF act, op
  <2>3. Safe(own(act))
    BY <1>2, <2>1
  <2> HIDE DEF own
  <2>4. <<own(act)>> # <<>> /\ <<own(act)>> \in Seq(S)
    OBVIOUS
  <2>5. \A c \in S : Safe(c)
    BY <2>3
  <2> HIDE DEF S
  <2> QED
    BY <2>2, <2>4, <2>5 DEF op
<1> QED
  BY <1>3, <1>4, <1>5

(* A request comes, and is answered or begins with safe calls.             *)
LEMMA ReceiveIsSafe ==
  ASSUME Inv, NEW h \in Handlers, Receive(h)
  PROVE  Inv' /\ OutsideKept
<1>1. TreeInv' /\ OutsideKept
  BY NothingChanges DEF Inv, Receive, fs
<1>2. PICK r \in Requests :
        /\ status' = [status EXCEPT ![h] = Begin(r)]
        /\ work' = [work EXCEPT ![h] =
                      IF Begin(r) = Serving THEN Plan(Operation(r), r) ELSE <<>>]
  BY DEF Receive
<1> DEFINE w == IF Begin(r) = Serving THEN Plan(Operation(r), r) ELSE <<>>
<1>3. \E S : w \in Seq(S) /\ \A c \in S : Safe(c)
  <2>1. CASE Begin(r) = Serving
    BY <2>1, PlanIsSafe
  <2>2. CASE Begin(r) # Serving
    <3>1. w \in Seq({}) /\ \A c \in {} : Safe(c)
      BY <2>2
    <3> HIDE DEF w
    <3> QED
      BY <3>1
  <2> QED
    BY <2>1, <2>2
<1>4. Begin(r) = Serving => w # <<>>
  BY PlanIsSafe
<1>5. work' = [work EXCEPT ![h] = w]
  BY <1>2
<1> HIDE DEF w
<1>6. PICK S : w \in Seq(S) /\ \A c \in S : Safe(c)'
  BY <1>1, <1>3, SafeStaysSafe DEF Inv
<1>7. WorkInv'
  BY <1>1, <1>2, <1>4, <1>5, <1>6, NewWork DEF Inv
<1> QED
  BY <1>1, <1>7 DEF Inv

(* A request has been answered.                                            *)
LEMMA ReturnIsSafe ==
  ASSUME Inv, NEW h \in Handlers, Return(h)
  PROVE  Inv' /\ OutsideKept
<1>1. TreeInv' /\ OutsideKept
  BY NothingChanges DEF Inv, Return, fs
<1>2. \A v : SafeWork(v) => SafeWork(v)'
  BY <1>1, SafeStaysSafe DEF SafeWork, Inv
<1>3. work' = work /\ status' = [status EXCEPT ![h] = Free]
  BY DEF Return
<1>4. WorkInv'
  BY <1>2, <1>3 DEF WorkInv, Inv, Free, Serving
<1> QED
  BY <1>1, <1>4 DEF Inv

---------------------------------------------------------------------------
(* Every step keeps the invariant, and what is outside.                    *)

LEMMA InitInv == Init => Inv
<1> SUFFICES ASSUME Init PROVE Inv
  OBVIOUS
<1>1. PICK s \in InitialTrees : tree = s.tree /\ data = s.data
  BY DEF Init
<1>2. /\ IsFiniteSet(DOMAIN tree) /\ DOMAIN tree \subseteq Path
      /\ Ancestors(Root) \subseteq DOMAIN tree
      /\ tree \in [DOMAIN tree -> Node]
      /\ \A p, q \in DOMAIN tree : tree[p].id = tree[q].id => p = q
      /\ DOMAIN data = Ids
  BY <1>1, InitialTreesAssumption
<1>3. \A p \in DOMAIN tree : "id" \in DOMAIN tree[p] /\ tree[p].id \in Ids
  BY <1>2 DEF Node
<1>4. \A p \in DOMAIN tree : ~Outside(p) => ~OutsideId(tree[p].id)
  BY <1>2 DEF OutsideId
<1>5. TreeInv
  BY <1>2, <1>3, <1>4 DEF TreeInv
<1>6. WorkInv
  <2>1. SafeWork(<<>>)
    <3> DEFINE w == <<>>
               S == {}
    <3>1. w \in Seq(S) /\ \A c \in S : Safe(c)
      OBVIOUS
    <3> HIDE DEF S, w
    <3>2. SafeWork(w)
      BY <3>1, SafeCalls
    <3> QED
      BY <3>2 DEF w
  <2> QED
    BY <2>1 DEF Init, WorkInv, Free, Serving
<1> QED
  BY <1>5, <1>6 DEF Inv

(* Every step keeps the invariant, and what is outside.                    *)
LEMMA StepInv ==
  ASSUME Inv, [Next]_vars
  PROVE  Inv' /\ OutsideKept
<1>1. CASE UNCHANGED vars
  <2>1. TreeInv' /\ OutsideKept
    BY <1>1, NothingChanges DEF vars, fs, Inv
  <2>2. \A v : SafeWork(v) => SafeWork(v)'
    BY <2>1, SafeStaysSafe DEF SafeWork, Inv
  <2>3. WorkInv'
    BY <1>1, <2>2 DEF vars, WorkInv, Inv
  <2> QED
    BY <2>1, <2>3 DEF Inv
<1>2. CASE Next
  <2>1. PICK h \in Handlers : Receive(h) \/ Return(h) \/ Step(h)
                              \/ (status[h] = Serving /\ Fault(h, work[h][1]))
    BY <1>2 DEF Next
  <2> DEFINE c == work[h][1]
  <2>2. CASE Step(h)
    <3>1. status[h] = Serving /\ (Writes(h, c) \/ Reads(h, c))
      BY <2>2 DEF Step
    <3>2. Safe(c)
      BY <3>1, FirstCall DEF Inv
    <3> HIDE DEF c
    <3>3. CASE Reads(h, c)
      BY <3>1, <3>2, <3>3, ReadsIsSafe
    <3>4. CASE Writes(h, c)
      <4>1. CASE MkdirAll(h, c)
        BY <3>1, <3>2, <4>1, MkdirAllIsSafe
      <4>2. CASE Mkdir(h, c) \/ PutCreate(h, c) \/ PutBody(h, c)
        BY <3>1, <3>2, <4>2, PutIsSafe
      <4>3. CASE Target(h, c)
        BY <3>1, <3>2, <4>3, TargetIsSafe
      <4>4. CASE CopyLstat(h, c) \/ CopyOpen(h, c)
        BY <3>1, <3>2, <4>4, CopyLooksIsSafe
      <4>5. CASE CopyDir(h, c) \/ CopyFile(h, c) \/ CopyData(h, c)
        BY <3>1, <3>2, <4>5, CopyMakesIsSafe
      <4>6. CASE CopyList(h, c)
        BY <3>1, <3>2, <4>6, CopyListIsSafe
      <4>7. CASE CopyChmod(h, c)
        BY <3>1, <3>2, <4>7, CopyChmodIsSafe
      <4>8. CASE Rename(h, c)
        BY <3>1, <3>2, <4>8, RenameIsSafe
      <4>9. CASE RemoveAll(h, c) \/ Rmdir(h, c)
        BY <3>1, <3>2, <4>9, RemoveIsSafe
      <4>10. CASE ModPropsLstat(h, c) \/ SetMode(h, c) \/ SetOwner(h, c)
        BY <3>1, <3>2, <4>10, ModPropsIsSafe
      <4> QED
        BY <3>4, <4>1, <4>2, <4>3, <4>4, <4>5, <4>6, <4>7, <4>8, <4>9, <4>10 DEF Writes
    <3> QED
      BY <3>1, <3>3, <3>4
  <2>3. CASE status[h] = Serving /\ Fault(h, c)
    BY <2>3, FaultIsSafe
  <2> QED
    BY <2>1, <2>2, <2>3, ReceiveIsSafe, ReturnIsSafe
<1> QED
  BY <1>1, <1>2

(* Whatever requests there are, nothing outside of the served directory    *)
(* changes: what getPath accepts is within it, and what the calls make of  *)
(* such paths is within it too.                                            *)
THEOREM OutsideStays == Spec => OutsideUntouched
<1> DEFINE Kept == \A p \in DOMAIN tree \cup DOMAIN tree' : ~Within(p, Root) => ~Changed(p)
<1>1. ASSUME Inv, OutsideKept PROVE Kept
  <2> SUFFICES ASSUME NEW p \in DOMAIN tree \cup DOMAIN tree', Outside(p) PROVE ~Changed(p)
    BY DEF Outside
  <2>1. p \in DOMAIN tree \cap DOMAIN tree' /\ tree'[p] = tree[p]
        /\ data'[tree[p].id] = data[tree[p].id]
    BY <1>1 DEF OutsideKept
  <2>2. View(tree, data)[p] = View(tree', data')[p]
    BY <2>1 DEF View
  <2> QED
    BY <2>1, <2>2 DEF Changed
<1>2. Inv /\ [Next]_vars => Inv' /\ [Kept]_vars
  BY <1>1, StepInv
<1> QED
  BY <1>2, InitInv, PTL DEF Spec, OutsideUntouched

---------------------------------------------------------------------------
(* Requests that ask for something make calls that only look.              *)

Asking == {"GET", "HEAD", "OPTIONS", "PROPS", "SEARCH"}

Looking(c) == c.act \in {"get", "stat", "readdir", "send", "props", "search", "scan"}

Looks(w) == \A i \in DOMAIN w : Looking(w[i])

AskInv ==
  /\ DOMAIN req = Handlers
  /\ \A h \in Handlers : status[h] = Serving /\ req[h].method \in Asking => Looks(work[h])

(* What a step of h does to the work: it changes that of h only, and when  *)
(* it changes files, that of h changes.                                    *)
Moves(h) ==
  \E w, s :
    /\ work' = [work EXCEPT ![h] = w]
    /\ status' = [status EXCEPT ![h] = s]
    /\ fs' # fs => w # work[h]

(* An answer changes no files; nor does a call that only makes others.     *)
LEMMA AnswerMoves ==
  ASSUME NEW h, NEW code, Answer(h, code)
  PROVE  Moves(h)
BY DEF Answer, Moves

(* A call that fails concerns its own request only.                        *)
LEMMA FailsMoves ==
  ASSUME NEW h, NEW err, Fails(h, err)
  PROVE  Moves(h)
BY AnswerMoves DEF Fails

(* So does one that goes on with other calls, whatever file it changes.    *)
LEMMA ContinueMoves ==
  ASSUME NEW h, NEW cs, Continue(h, cs)
  PROVE  Moves(h)
BY DEF Continue, Then, Moves

(* A call that changes files is not made again.                            *)
LEMMA ThenMoves ==
  ASSUME WorkInv, NEW h \in Handlers, status[h] = Serving, NEW cs, Then(h, cs),
         cs = <<>> \/ \E d : cs = <<d>> /\ d # work[h][1]
  PROVE  Moves(h)
<1> DEFINE S == {work[h][i] : i \in DOMAIN work[h]}
           w == cs \o Tail(work[h])
<1>1. work[h] \in Seq(S) /\ work[h] # <<>>
  BY DEF WorkInv, SafeWork
<1> HIDE DEF S
<1>2. w # work[h]
  <2>1. CASE cs = <<>>
    <3>1. w = Tail(work[h])
      BY <1>1, <2>1
    <3>2. Len(Tail(work[h])) = Len(work[h]) - 1 /\ Len(work[h]) \in Nat
      BY <1>1
    <3> QED
      BY <3>1, <3>2
  <2>2. CASE \E d : cs = <<d>> /\ d # work[h][1]
    <3>1. PICK d : cs = <<d>> /\ d # work[h][1]
      BY <2>2
    <3>2. Tail(work[h]) \in Seq(S \cup {d}) /\ <<d>> \in Seq(S \cup {d})
      BY <1>1
    <3>3. w[1] = d
      BY <3>1, <3>2
    <3> QED
      BY <3>1, <3>3
  <2> QED
    BY <2>1, <2>2
<1>3. /\ work' = [work EXCEPT ![h] = w]
      /\ status' = [status EXCEPT ![h] = IF w = <<>> THEN 200 ELSE Serving]
  BY DEF Then
<1> HIDE DEF w
<1> QED
  BY <1>2, <1>3 DEF Moves

(* So it is with every call of a request that writes, and none of these is *)
(* one that only looks.                                                    *)
LEMMA WritesMove ==
  ASSUME Inv, NEW h \in Handlers, status[h] = Serving, NEW c, c = work[h][1], Safe(c),
         Writes(h, c)
  PROVE  /\ Moves(h)
         /\ ~Looking(c)
<1> USE DEF Inv, Looking
<1>1. CASE MkdirAll(h, c)
  BY <1>1, FailsMoves, ContinueMoves DEF MkdirAll
<1>2. CASE Mkdir(h, c)
  BY <1>2, FailsMoves, ContinueMoves, ThenMoves DEF Mkdir
<1>3. CASE PutCreate(h, c)
  <2>1. c.act = "create" /\ (Fails(h, CreationError(c.to)) \/ \E tf :
          Then(h, <<[c EXCEPT !.act = "body", !.tf = tf]>>))
    BY <1>3 DEF PutCreate
  <2>2. ASSUME NEW tf PROVE [c EXCEPT !.act = "body", !.tf = tf] # c
    BY <2>1 DEF Safe
  <2> QED
    BY <2>1, <2>2, FailsMoves, ThenMoves
<1>4. CASE PutBody(h, c)
  <2>1. c.act = "body" /\ (Answer(h, 413) \/ Continue(h, <<>>)
                           \/ Then(h, <<[c EXCEPT !.n = @ + 1]>>))
    BY <1>4 DEF PutBody
  <2>2. [c EXCEPT !.n = @ + 1] # c
    BY DEF Safe
  <2> QED
    BY <2>1, <2>2, AnswerMoves, ContinueMoves, ThenMoves
<1>5. CASE Target(h, c)
  BY <1>5, AnswerMoves, ContinueMoves DEF Target
<1>6. CASE CopyLstat(h, c) \/ CopyOpen(h, c) \/ CopyList(h, c)
  BY <1>6, FailsMoves, ContinueMoves DEF CopyLstat, CopyOpen, CopyList
<1>7. CASE CopyDir(h, c)
  <2>1. [c EXCEPT !.act = "list"] # c
    BY <1>7 DEF CopyDir, Safe
  <2> QED
    BY <1>7, <2>1, FailsMoves, ThenMoves DEF CopyDir
<1>8. CASE CopyFile(h, c)
  <2>1. c.act = "copyFile" /\ (Fails(h, CreationError(c.to)) \/ \E tf :
          Then(h, <<[c EXCEPT !.act = "copy", !.tf = tf]>>))
    BY <1>8 DEF CopyFile
  <2>2. ASSUME NEW tf PROVE [c EXCEPT !.act = "copy", !.tf = tf] # c
    BY <2>1 DEF Safe
  <2> QED
    BY <2>1, <2>2, FailsMoves, ThenMoves
<1>9. CASE CopyData(h, c)
  <2>1. [c EXCEPT !.act = "chmod"] # c
    BY <1>9 DEF CopyData, Safe
  <2> QED
    BY <1>9, <2>1, FailsMoves, ThenMoves DEF CopyData
<1>10. CASE CopyChmod(h, c) \/ Rename(h, c)
  BY <1>10, FailsMoves, ThenMoves DEF CopyChmod, Rename
<1>11. CASE RemoveAll(h, c) \/ Rmdir(h, c)
  BY <1>11, AnswerMoves, ContinueMoves, ThenMoves, ZenonT(60) DEF RemoveAll, Rmdir, Removes
<1>12. CASE ModPropsLstat(h, c)
  BY <1>12, AnswerMoves, FailsMoves, ContinueMoves DEF ModPropsLstat
<1>13. CASE SetMode(h, c)
  <2>1. [c EXCEPT !.act = "setOwner"] # c
    BY <1>13 DEF SetMode, Safe
  <2> QED
    BY <1>13, <2>1, AnswerMoves, ContinueMoves, ThenMoves DEF SetMode
<1>14. CASE SetOwner(h, c)
  BY <1>14, AnswerMoves, ContinueMoves, ThenMoves DEF SetOwner
<1> QED
  BY <1>1, <1>2, <1>3, <1>4, <1>5, <1>6, <1>7, <1>8, <1>9, <1>10, <1>11, <1>12, <1>13, <1>14
     DEF Writes

(* Calls that only look, in a sequence.                                    *)
LEMMA LookingCalls ==
  ASSUME NEW S, NEW w \in Seq(S), \A c \in S : Looking(c)
  PROVE  Looks(w)
BY DEF Looks

(* A step of a request that asks changes no files, and only looks further. *)
LEMMA ReadsLook ==
  ASSUME Inv, NEW h \in Handlers, status[h] = Serving, Looks(work[h]),
         NEW c, Safe(c), Reads(h, c) \/ Fault(h, c)
  PROVE  /\ UNCHANGED fs
         /\ \E w, s : /\ work' = [work EXCEPT ![h] = w] /\ Looks(w)
                      /\ status' = [status EXCEPT ![h] = s]
<1> DEFINE Looked == UNCHANGED fs /\ \E w, s : /\ work' = [work EXCEPT ![h] = w] /\ Looks(w)
                                              /\ status' = [status EXCEPT ![h] = s]
<1>1. \E S : Tail(work[h]) \in Seq(S) /\ \A d \in S : Looking(d)
  <2> DEFINE S == {work[h][i] : i \in DOMAIN work[h]}
  <2>1. work[h] \in Seq(S) /\ work[h] # <<>> /\ \A d \in S : Looking(d)
    BY DEF Inv, WorkInv, SafeWork, Looks
  <2> HIDE DEF S
  <2> QED
    BY <2>1
<1>2. PICK S : Tail(work[h]) \in Seq(S) /\ \A d \in S : Looking(d)
  BY <1>1
<1>3. ASSUME NEW code, Answer(h, code) PROVE Looked
  <2>1. Looks(<<>>)
    BY DEF Looks
  <2> QED
    BY <1>3, <2>1 DEF Answer
<1>4. ASSUME NEW C, NEW cs \in Seq(C), \A d \in C : Looking(d), Continue(h, cs)
      PROVE  Looked
  <2> DEFINE w == cs \o Tail(work[h])
             T == C \cup S
  <2>1. w \in Seq(T) /\ \A d \in T : Looking(d)
    BY <1>2, <1>4
  <2>2. /\ work' = [work EXCEPT ![h] = w]
        /\ status' = [status EXCEPT ![h] = IF w = <<>> THEN 200 ELSE Serving]
        /\ UNCHANGED fs
    BY <1>4 DEF Continue, Then
  <2> HIDE DEF w, T
  <2>3. Looks(w)
    BY <2>1, LookingCalls
  <2> QED
    BY <2>2, <2>3
<1>5. ASSUME NEW d, Looking(d), Continue(h, <<d>>) PROVE Looked
  <2> DEFINE cs == <<d>>
             C == {d}
  <2>1. cs \in Seq(C) /\ (\A e \in C : Looking(e)) /\ Continue(h, cs)
    BY <1>5
  <2> HIDE DEF cs, C, Looked
  <2> QED
    BY <2>1, <1>4
<1>6. ASSUME Continue(h, <<>>) PROVE Looked
  <2> DEFINE cs == <<>>
             C == {}
  <2>1. cs \in Seq(C) /\ (\A e \in C : Looking(e)) /\ Continue(h, cs)
    BY <1>6
  <2> HIDE DEF cs, C, Looked
  <2> QED
    BY <2>1, <1>4
<1>7. ASSUME NEW err, Fails(h, err) PROVE Looked
  <2> HIDE DEF Looked
  <2> QED
    BY <1>3, <1>7 DEF Fails
<1>8. ASSUME Scan(h, c) PROVE Looked
  <2> DEFINE dirs == {q \in Children(tree, c.to) : tree[q].dir}
             cs(s) == [i \in DOMAIN s |-> Call("scan", s[i], s[i])]
  <2>1. UNCHANGED fs
    BY <1>8 DEF Scan
  <2>2. ASSUME work' = [work EXCEPT ![h] = <<>>], status' = [status EXCEPT ![h] = 200]
        PROVE  Looked
    BY <1>3, <2>1, <2>2 DEF Answer
  <2>3. ASSUME NEW s \in SetToSeqs(dirs), NEW code,
               work' = [work EXCEPT ![h] = Tail(work[h]) \o cs(s)],
               status' = [status EXCEPT ![h] = code]
        PROVE  Looked
    <3> DEFINE C == {Call("scan", d, d) : d \in dirs}
               T == S \cup C
               w == Tail(work[h]) \o cs(s)
    <3>1. s \in Seq(dirs)
      <4>1. c.to \in Path
        BY DEF Safe
      <4>2. IsFiniteSet(dirs)
        BY <4>1, ChildrenInside, FS_Subset DEF Inv
      <4> QED
        BY <4>2, OrderOfSet
    <3>2. cs(s) \in Seq(C)
      <4> HIDE DEF dirs
      <4> QED
        BY <3>1
    <3>3. \A d \in C : Looking(d)
      BY DEF Looking, Call
    <3> HIDE DEF C, cs
    <3>4. w \in Seq(T) /\ \A d \in T : Looking(d)
      BY <1>2, <3>2, <3>3
    <3>5. work' = [work EXCEPT ![h] = w]
      BY <2>3
    <3> HIDE DEF w, T
    <3>6. Looks(w)
      BY <3>4, LookingCalls
    <3> QED
      BY <2>1, <2>3, <3>5, <3>6
  <2> HIDE DEF Looked
  <2> QED
    BY <1>8, <2>2, <2>3 DEF Scan
<1> HIDE DEF Looked
<1>9. ASSUME Reads(h, c) PROVE Looked
  <2>1. ASSUME Props(h, c) PROVE Looked
    BY <1>6, <1>7, <2>1 DEF Props
  <2>2. ASSUME GetOpen(h, c) PROVE Looked
    <3>1. Looking([c EXCEPT !.act = "stat", !.fd = Opened(c.to)])
      BY DEF Looking, Safe
    <3> QED
      BY <1>5, <1>7, <2>2, <3>1 DEF GetOpen
  <2>3. ASSUME GetStat(h, c) PROVE Looked
    <3>1. Looking([c EXCEPT !.act = "readdir"]) /\ Looking([c EXCEPT !.act = "send"])
      BY DEF Looking, Safe
    <3> QED
      BY <1>5, <1>6, <2>3, <3>1 DEF GetStat
  <2>4. ASSUME GetDir(h, c) \/ GetFile(h, c) PROVE Looked
    BY <1>6, <2>4 DEF GetDir, GetFile
  <2>5. ASSUME SearchLstat(h, c) PROVE Looked
    <3>1. Looking([c EXCEPT !.act = "scan"])
      BY DEF Looking, Safe
    <3> QED
      BY <1>5, <1>6, <1>7, <2>5, <3>1 DEF SearchLstat
  <2> QED
    BY <1>8, <1>9, <2>1, <2>2, <2>3, <2>4, <2>5 DEF Reads
<1>10. ASSUME Fault(h, c) PROVE Looked
  BY <1>3, <1>6, <1>10 DEF Fault
<1>11. Looked
  BY <1>9, <1>10
<1> QED
  BY <1>11 DEF Looked

(* A request that asks for something begins with a call that looks.        *)
LEMMA AskingLooks ==
  ASSUME NEW r \in Requests, Begin(r) = Serving, r.method \in Asking
  PROVE  Looks(Plan(Operation(r), r))
<1> DEFINE op == Operation(r)
           first == Call(op, r.path, r.path)
<1>1. op \in {"get", "props", "search"}
  <2>1. r.cmds \in Seq(STRING)
    BY HtFileAssumption
  <2>2. \A none, allowed : Command(r.cmds, allowed, none) \in allowed \cup {none, "badRequest"}
    BY <2>1 DEF Command
  <2>3. op \in {"get", "props", "search", "options", "badRequest", "notAllowed"}
    BY <2>2 DEF Operation, MethodOp, GetCmds, Asking
  <2> HIDE DEF op
  <2>4. op \notin {"options", "badRequest", "notAllowed"}
    <3>1. PropsStatus(r) \in {200, 400, 413}
      BY DEF PropsStatus
    <3> QED
      BY <3>1 DEF Begin, Serving, op
  <2> QED
    BY <2>3, <2>4
<1>2. Looking(first)
  BY <1>1 DEF Looking, Call
<1> HIDE DEF op
<1>3. Plan(op, r) = <<first>>
  <2>1. op \notin {"put", "mkdir", "copy", "rename", "delete"}
    BY <1>1
  <2> QED
    BY <2>1, Zenon DEF Plan
<1> HIDE DEF first
<1>4. Looks(<<first>>)
  BY <1>2 DEF Looks
<1> QED
  BY <1>3, <1>4 DEF op

(* Every step keeps it so, and changes files only for another request.     *)
LEMMA AskStep ==
  ASSUME Inv, AskInv, [Next]_vars
  PROVE  /\ AskInv'
         /\ fs' # fs => \E h \in Handlers : work'[h] # work[h] /\ req[h].method \notin Asking
<1>1. DOMAIN work = Handlers /\ DOMAIN status = Handlers /\ DOMAIN req = Handlers
  BY DEF Inv, WorkInv, AskInv
<1>2. CASE UNCHANGED vars
  <2>1. fs' = fs /\ work' = work /\ status' = status /\ req' = req
    BY <1>2 DEF vars, fs
  <2> QED
    BY <2>1 DEF AskInv, Looks
<1>3. CASE \E h \in Handlers : Receive(h)
  <2>1. PICK h \in Handlers, r \in Requests :
          /\ fs' = fs
          /\ req' = [req EXCEPT ![h] = r]
          /\ status' = [status EXCEPT ![h] = Begin(r)]
          /\ work' = [work EXCEPT ![h] =
                        IF Begin(r) = Serving THEN Plan(Operation(r), r) ELSE <<>>]
    BY <1>3 DEF Receive, fs
  <2>2. status'[h] = Serving /\ req'[h].method \in Asking => Looks(work'[h])
    BY <1>1, <2>1, AskingLooks
  <2>3. \A g \in Handlers : g # h =>
          status'[g] = status[g] /\ req'[g] = req[g] /\ work'[g] = work[g]
    BY <1>1, <2>1
  <2> QED
    BY <1>1, <2>1, <2>2, <2>3 DEF AskInv
<1>4. CASE \E h \in Handlers : Return(h)
  <2>1. PICK h \in Handlers : Return(h)
    BY <1>4
  <2>2. fs' = fs /\ work' = work /\ DOMAIN req' = Handlers /\ status'[h] # Serving
        /\ \A g \in Handlers : g # h => status'[g] = status[g] /\ req'[g] = req[g]
    BY <1>1, <2>1 DEF Return, fs, Free, Serving
  <2> QED
    BY <2>2 DEF AskInv
<1>5. ASSUME NEW h \in Handlers, status[h] = Serving, req' = req,
             Step(h) \/ Fault(h, work[h][1])
      PROVE  /\ AskInv'
             /\ fs' # fs => work'[h] # work[h] /\ req[h].method \notin Asking
  <2> DEFINE c == work[h][1]
  <2>1. Safe(c) /\ work[h] # <<>> /\ 1 \in DOMAIN work[h]
    <3>1. work[h] # <<>> /\ work[h] \in Seq({work[h][i] : i \in DOMAIN work[h]})
      BY <1>5 DEF Inv, WorkInv, SafeWork
    <3>2. 1 \in DOMAIN work[h]
      BY <3>1
    <3> QED
      BY <1>5, <3>1, <3>2, FirstCall DEF Inv
  <2>2. ASSUME NEW w, NEW s, work' = [work EXCEPT ![h] = w], status' = [status EXCEPT ![h] = s],
               req[h].method \in Asking => Looks(w)
        PROVE  AskInv'
    <3>1. work'[h] = w /\ \A g \in Handlers : g # h => work'[g] = work[g] /\ status'[g] = status[g]
      BY <1>1, <2>2
    <3> QED
      BY <1>1, <1>5, <2>2, <3>1 DEF AskInv
  <2>3. CASE req[h].method \in Asking
    <3>1. Looks(work[h])
      BY <1>5, <2>3 DEF AskInv
    <3>2. Looking(c)
      BY <2>1, <3>1 DEF Looks
    <3>3. Reads(h, c) \/ Fault(h, c)
      BY <1>5, <2>1, <3>2, WritesMove DEF Step
    <3> HIDE DEF c
    <3>4. UNCHANGED fs /\ \E w, s : /\ work' = [work EXCEPT ![h] = w] /\ Looks(w)
                                   /\ status' = [status EXCEPT ![h] = s]
      BY <1>5, <2>1, <3>1, <3>3, ReadsLook
    <3> QED
      BY <2>2, <3>4
  <2>4. CASE req[h].method \notin Asking
    <3>1. Moves(h)
      <4>1. CASE Step(h) /\ Writes(h, c)
        BY <1>5, <2>1, <4>1, WritesMove
      <4>2. CASE Step(h) /\ Reads(h, c)
        <5> HIDE DEF c
        <5>1. CASE Scan(h, c)
          <6>1. ASSUME NEW w, NEW s, work' = [work EXCEPT ![h] = w],
                       status' = [status EXCEPT ![h] = s]
                PROVE  Moves(h)
            BY <5>1, <6>1 DEF Scan, Moves
          <6> QED
            BY <5>1, <6>1 DEF Scan
        <5> QED
          BY <4>2, <5>1, FailsMoves, ContinueMoves
             DEF Reads, Props, GetOpen, GetStat, GetDir, GetFile, SearchLstat
      <4>3. CASE Fault(h, c)
        <5> HIDE DEF c
        <5> QED
          BY <4>3, AnswerMoves, ContinueMoves DEF Fault
      <4> QED
        BY <1>5, <4>1, <4>2, <4>3 DEF Step
    <3>2. PICK w, s : /\ work' = [work EXCEPT ![h] = w]
                      /\ status' = [status EXCEPT ![h] = s]
                      /\ fs' # fs => w # work[h]
      BY <3>1 DEF Moves
    <3>3. work'[h] = w
      BY <1>1, <3>2
    <3> QED
      BY <2>2, <2>4, <3>2, <3>3
  <2> QED
    BY <2>3, <2>4
<1>6. CASE \E h \in Handlers : /\ status[h] = Serving /\ req' = req
                              /\ (Step(h) \/ Fault(h, work[h][1]))
  BY <1>5, <1>6
<1> QED
  BY <1>2, <1>3, <1>4, <1>6 DEF Next, Step

(* A request with a method that asks for something changes nothing: the    *)
(* commands that such a method allows only make calls that look.           *)
THEOREM AskingKeepsAll == Spec => ReadsChangeNothing
<1> DEFINE Kept == fs' # fs => \E h \in Handlers : work'[h] # work[h] /\ req[h].method \notin Asking
<1>1. Init => AskInv
  BY DEF Init, AskInv, Free, Serving
<1>2. Inv /\ AskInv /\ [Next]_vars => Inv' /\ AskInv' /\ [Kept]_vars
  BY StepInv, AskStep
<1>3. [][Kept]_vars => ReadsChangeNothing
  BY PTL DEF ReadsChangeNothing, Asking
<1> QED
  BY <1>1, <1>2, <1>3, InitInv, PTL DEF Spec
---------------------------------------------------------------------------
(* Every call of a request is one of its operation, with a path that the   *)
(* request asks for, one on the way to it or one within it.                *)

Asked(r, c) ==
  LET op == Operation(r)
  IN \/ op \in {"put", "mkdir"} /\ c.act = "mkdirAll" /\ c.to = r.path
     \/ op \in {"put", "mkdir"} /\ c.act = "mkdir" /\ Within(r.path, c.to)
     \/ op = "put" /\ c.act \in {"create", "body"} /\ c.to = r.path
     \/ /\ op = "copy"
        /\ c.act \in {"copyTo", "lstat", "open", "copyDir", "list", "copyFile", "copy", "chmod"}
        /\ \E i \in DOMAIN r.to : Within(c.to, r.to[i])
     \/ op = "rename" /\ c.act \in {"renameTo", "rename"} /\ c.from = r.path /\ c.to = r.to[1]
     \/ op = "delete" /\ c.act \in {"remove", "rmdir"} /\ Within(c.to, r.path)
     \/ op = "modprops" /\ c.act \in {"modprops", "setMode", "setOwner"} /\ c.to = r.path
     \/ op \in {"get", "props", "search"} /\ Looking(c)

(* What is copied was opened, so that it is a file.                        *)
Source(c) == c.act \in {"copyFile", "copy"} => c.fd.id \in Ids

CallsInv ==
  /\ DOMAIN req = Handlers
  /\ \A h \in Handlers : status[h] = Serving =>
       /\ req[h] \in Requests
       /\ \A i \in DOMAIN work[h] : Asked(req[h], work[h][i]) /\ Source(work[h][i])

(* The calls that may come after call c.                                   *)
Steps ==
  {<<"create", "body">>, <<"body", "body">>, <<"copyTo", "lstat">>, <<"lstat", "open">>,
   <<"open", "copyDir">>, <<"copyDir", "list">>, <<"list", "chmod">>, <<"open", "copyFile">>,
   <<"copyFile", "copy">>, <<"copy", "chmod">>, <<"remove", "rmdir">>,
   <<"modprops", "setMode">>, <<"setMode", "setOwner">>, <<"renameTo", "rename">>}

Follows(c, d) ==
  /\ \/ <<c.act, d.act>> \in Steps /\ d.to = c.to /\ d.from = c.from
     \/ c.act = "mkdirAll" /\ d.act = "mkdir" /\ Within(c.to, d.to)
     \/ c.act = "list" /\ d.act = "lstat" /\ d.to \in Path /\ Within(d.to, c.to)
     \/ c.act = "remove" /\ d.act = "remove" /\ d.to \in Path /\ Within(d.to, c.to)
     \/ Looking(c) /\ Looking(d)
  /\ Source(c) => Source(d)

(* Handler h has calls left that it had, or that follow the one it made.   *)
GoesOn(h) ==
  \E w, s :
    /\ work' = [work EXCEPT ![h] = w]
    /\ status' = [status EXCEPT ![h] = s]
    /\ \A i \in DOMAIN w : Follows(work[h][1], w[i]) \/ \E j \in DOMAIN work[h] : w[i] = work[h][j]

(* The calls of a request that is answered follow from those before.       *)
LEMMA AnswerGoesOn ==
  ASSUME NEW h, NEW code, Answer(h, code)
  PROVE  GoesOn(h)
<1> DEFINE w == <<>>
<1>1. work' = [work EXCEPT ![h] = w] /\ status' = [status EXCEPT ![h] = code]
  BY DEF Answer
<1>2. \A i \in DOMAIN w : FALSE
  OBVIOUS
<1> HIDE DEF w
<1> QED
  BY <1>1, <1>2 DEF GoesOn

(* The calls of a request that fails follow from those before.             *)
LEMMA FailsGoesOn ==
  ASSUME NEW h, NEW err, Fails(h, err)
  PROVE  GoesOn(h)
BY AnswerGoesOn DEF Fails

(* Calls that follow come before those that were left, or after them.      *)
LEMMA CallsGoOn ==
  ASSUME WorkInv, NEW h \in Handlers, status[h] = Serving,
         NEW C, NEW cs \in Seq(C), \A d \in C : Follows(work[h][1], d),
         NEW w, NEW s, w = cs \o Tail(work[h]) \/ w = Tail(work[h]) \o cs,
         work' = [work EXCEPT ![h] = w], status' = [status EXCEPT ![h] = s]
  PROVE  GoesOn(h)
<1> DEFINE S == {work[h][i] : i \in DOMAIN work[h]}
<1>1. work[h] \in Seq(S) /\ work[h] # <<>>
  BY DEF WorkInv, SafeWork
<1>2. \A x \in S : \E j \in DOMAIN work[h] : x = work[h][j]
  OBVIOUS
<1> HIDE DEF S
<1>3. w \in Seq(C \cup S)
  <2>1. Tail(work[h]) \in Seq(S)
    BY <1>1
  <2> DEFINE t == Tail(work[h])
             T == C \cup S
  <2>2. t \in Seq(T) /\ cs \in Seq(T)
    BY <2>1
  <2>3. w = cs \o t \/ w = t \o cs
    OBVIOUS
  <2> HIDE DEF t, T
  <2>4. cs \o t \in Seq(T) /\ t \o cs \in Seq(T)
    BY <2>2
  <2>5. w \in Seq(T)
    BY <2>3, <2>4
  <2> QED
    BY <2>5 DEF T
<1>4. \A i \in DOMAIN w : w[i] \in C \/ w[i] \in S
  BY <1>3
<1> QED
  BY <1>2, <1>4 DEF GoesOn

(* Calls that follow from the first one may take its place.                *)
LEMMA ThenGoesOn ==
  ASSUME WorkInv, NEW h \in Handlers, status[h] = Serving,
         NEW C, NEW cs \in Seq(C), \A d \in C : Follows(work[h][1], d), Then(h, cs)
  PROVE  GoesOn(h)
<1> DEFINE w == cs \o Tail(work[h])
           s == IF w = <<>> THEN 200 ELSE Serving
<1>1. work' = [work EXCEPT ![h] = w] /\ status' = [status EXCEPT ![h] = s]
  BY DEF Then
<1>2. w = cs \o Tail(work[h])
  OBVIOUS
<1> HIDE DEF w, s
<1> QED
  BY <1>1, <1>2, CallsGoOn

(* A single call may take its place.                                       *)
LEMMA OneGoesOn ==
  ASSUME WorkInv, NEW h \in Handlers, status[h] = Serving,
         NEW d, Follows(work[h][1], d), Then(h, <<d>>)
  PROVE  GoesOn(h)
<1> DEFINE cs == <<d>>
           C == {d}
<1>1. cs \in Seq(C) /\ (\A e \in C : Follows(work[h][1], e)) /\ Then(h, cs)
  OBVIOUS
<1> HIDE DEF cs, C
<1> QED
  BY <1>1, ThenGoesOn

(* The first call may be dropped.                                          *)
LEMMA NoneGoesOn ==
  ASSUME WorkInv, NEW h \in Handlers, status[h] = Serving, Then(h, <<>>)
  PROVE  GoesOn(h)
<1> DEFINE cs == <<>>
           C == {}
<1>1. cs \in Seq(C) /\ (\A e \in C : Follows(work[h][1], e)) /\ Then(h, cs)
  OBVIOUS
<1> HIDE DEF cs, C
<1> QED
  BY <1>1, ThenGoesOn

(* So it is with the calls of the requests that write.                     *)
LEMMA PutGoesOn ==
  ASSUME Inv, NEW h \in Handlers, status[h] = Serving, NEW c, c = work[h][1], Safe(c),
         MkdirAll(h, c) \/ Mkdir(h, c) \/ PutCreate(h, c) \/ PutBody(h, c)
  PROVE  GoesOn(h)
<1> USE DEF Inv
<1>1. CASE MkdirAll(h, c)
  <2> DEFINE dirs == Ancestors(c.to) \cup (IF Tail(work[h]) = <<>> THEN {c.to} ELSE {})
             missing == dirs \ DOMAIN tree
             cs(s) == [i \in DOMAIN s |-> Call("mkdir", s[i], s[i])]
             C == {Call("mkdir", d, d) : d \in missing}
  <2>1. c.act = "mkdirAll" /\ c.to \in Path
    BY <1>1 DEF MkdirAll, Safe
  <2>2. ASSUME NEW s \in SetToSeqs(missing), Continue(h, cs(s)) PROVE GoesOn(h)
    <3>1. IsFiniteSet(missing)
      <4>1. IsFiniteSet(Ancestors(c.to)) /\ IsFiniteSet({c.to}) /\ IsFiniteSet({})
        BY <2>1, AncestorsOfPath, FS_Singleton, FS_EmptySet
      <4>2. IsFiniteSet(dirs)
        BY <4>1, FS_Union
      <4> QED
        BY <4>2, FS_Difference
    <3>2. \A d \in missing : Follows(c, Call("mkdir", d, d))
      BY <2>1 DEF Follows, Call, Within, Below, Source
    <3>3. cs(s) \in Seq(C)
      <4> HIDE DEF missing
      <4>1. s \in Seq(missing)
        BY <3>1, OrderOfSet
      <4> QED
        BY <4>1
    <3>4. \A d \in C : Follows(c, d)
      BY <3>2
    <3> HIDE DEF C, cs
    <3> QED
      BY <2>2, <3>3, <3>4, ThenGoesOn DEF Continue
  <2> HIDE DEF cs, missing
  <2>3. (\E d : Fails(h, "ENOTDIR")) \/ \E s \in SetToSeqs(missing) : Continue(h, cs(s))
    BY <1>1 DEF MkdirAll, cs, missing
  <2> QED
    BY <2>2, <2>3, FailsGoesOn
<1>2. CASE Mkdir(h, c)
  BY <1>2, FailsGoesOn, NoneGoesOn DEF Mkdir, Continue
<1>3. CASE PutCreate(h, c)
  <2>1. PICK tf : tf = Created(c.to)
    OBVIOUS
  <2> DEFINE d == [c EXCEPT !.act = "body", !.tf = tf]
  <2>2. Follows(c, d)
    BY <1>3 DEF PutCreate, Follows, Steps, Safe, Source
  <2>3. Fails(h, CreationError(c.to)) \/ Then(h, <<d>>)
    BY <1>3, <2>1 DEF PutCreate
  <2> HIDE DEF d
  <2> QED
    BY <2>2, <2>3, FailsGoesOn, OneGoesOn
<1>4. CASE PutBody(h, c)
  <2> DEFINE d == [c EXCEPT !.n = @ + 1]
  <2>2. Follows(c, d)
    BY <1>4 DEF PutBody, Follows, Steps, Safe, Source
  <2>3. Answer(h, 413) \/ Then(h, <<>>) \/ Then(h, <<d>>)
    BY <1>4 DEF PutBody, Continue
  <2> HIDE DEF d
  <2> QED
    BY <2>2, <2>3, AnswerGoesOn, NoneGoesOn, OneGoesOn
<1> QED
  BY <1>1, <1>2, <1>3, <1>4

(* The calls of a copy or a rename follow from those before.               *)
LEMMA CopyGoesOn ==
  ASSUME Inv, NEW h \in Handlers, status[h] = Serving, NEW c, c = work[h][1], Safe(c),
         \/ Target(h, c) \/ CopyLstat(h, c) \/ CopyOpen(h, c) \/ CopyDir(h, c)
         \/ CopyFile(h, c) \/ CopyData(h, c) \/ CopyChmod(h, c) \/ Rename(h, c)
  PROVE  GoesOn(h)
<1> USE DEF Inv
<1>1. CASE Target(h, c)
  <2> DEFINE d == [c EXCEPT !.act = IF @ = "copyTo" THEN "lstat" ELSE "rename"]
  <2>1. Follows(c, d)
    BY <1>1 DEF Target, Follows, Steps, Safe, Source
  <2>2. Answer(h, 404) \/ Answer(h, 400) \/ Then(h, <<d>>)
    BY <1>1 DEF Target, Continue
  <2> HIDE DEF d
  <2> QED
    BY <2>1, <2>2, AnswerGoesOn, OneGoesOn
<1>2. CASE CopyLstat(h, c)
  <2> DEFINE d == [c EXCEPT !.act = "open", !.fi = Info(c.from)]
  <2>1. Follows(c, d)
    BY <1>2 DEF CopyLstat, Follows, Steps, Safe, Source
  <2>2. Fails(h, LookupError(tree, c.from)) \/ Then(h, <<d>>)
    BY <1>2 DEF CopyLstat, Continue
  <2> HIDE DEF d
  <2> QED
    BY <2>1, <2>2, FailsGoesOn, OneGoesOn
<1>3. CASE CopyOpen(h, c)
  <2> DEFINE d == [c EXCEPT !.act = IF c.fi.dir THEN "copyDir" ELSE "copyFile",
                            !.fd = Opened(c.from)]
  <2>1. c.act = "open" /\ (Fails(h, LookupError(tree, c.from))
                           \/ (Exists(c.from) /\ Then(h, <<d>>)))
    BY <1>3 DEF CopyOpen, Continue
  <2>2. Exists(c.from) => Opened(c.from).id \in Ids
    BY DEF Exists, LookupError, Opened, TreeInv
  <2>3. Exists(c.from) => Follows(c, d)
    BY <2>1, <2>2 DEF Follows, Steps, Safe, Source
  <2> HIDE DEF d
  <2> QED
    BY <2>1, <2>3, FailsGoesOn, OneGoesOn
<1>4. CASE CopyDir(h, c)
  <2> DEFINE d == [c EXCEPT !.act = "list"]
  <2>1. Follows(c, d)
    BY <1>4 DEF CopyDir, Follows, Steps, Safe, Source
  <2>2. Fails(h, OrNoSpace(MkdirError(tree, c.to))) \/ Then(h, <<d>>)
    BY <1>4 DEF CopyDir
  <2> HIDE DEF d
  <2> QED
    BY <2>1, <2>2, FailsGoesOn, OneGoesOn
<1>5. CASE CopyFile(h, c)
  <2>0. PICK tf : tf = Created(c.to)
    OBVIOUS
  <2> DEFINE d == [c EXCEPT !.act = "copy", !.tf = tf]
  <2>1. Follows(c, d)
    BY <1>5 DEF CopyFile, Follows, Steps, Safe, Source
  <2>2. Fails(h, CreationError(c.to)) \/ Then(h, <<d>>)
    BY <1>5, <2>0 DEF CopyFile
  <2> HIDE DEF d
  <2> QED
    BY <2>1, <2>2, FailsGoesOn, OneGoesOn
<1>6. CASE CopyData(h, c)
  <2> DEFINE d == [c EXCEPT !.act = "chmod"]
  <2>1. Follows(c, d)
    BY <1>6 DEF CopyData, Follows, Steps, Safe, Source
  <2>2. Fails(h, "EISDIR") \/ Then(h, <<d>>)
    BY <1>6 DEF CopyData
  <2> HIDE DEF d
  <2> QED
    BY <2>1, <2>2, FailsGoesOn, OneGoesOn
<1>7. CASE CopyChmod(h, c) \/ Rename(h, c)
  BY <1>7, FailsGoesOn, NoneGoesOn DEF CopyChmod, Rename
<1> QED
  BY <1>1, <1>2, <1>3, <1>4, <1>5, <1>6, <1>7

(* What a directory contains is copied to what is within the copy.         *)
LEMMA CopyListGoesOn ==
  ASSUME Inv, NEW h \in Handlers, status[h] = Serving, NEW c, c = work[h][1], Safe(c),
         CopyList(h, c)
  PROVE  GoesOn(h)
<1> USE DEF Inv
<1> DEFINE e == [c EXCEPT !.act = "chmod"]
           entry(name) == Call("lstat", c.from \o name, c.to \o name)
           name(q, d) == SubSeq(q, Len(d) + 1, Len(q))
           cs(s, d) == [i \in DOMAIN s |-> entry(name(s[i], d))]
<1>1. c.act = "list" /\ c.to \in Path /\ c.to # <<>>
  <2>1. c.act = "list" /\ c.to \in Path /\ Within(c.to, Root)
    BY DEF CopyList, Safe
  <2> QED
    BY <2>1, RootIsPath, BelowIsOnTheWay DEF Within, OnTheWay, Path
<1>2. Follows(c, e)
  BY <1>1 DEF Follows, Steps, Safe, Source
<1>3. \/ Fails(h, "ENOTDIR")
      \/ Then(h, <<e>>)
      \/ \E d \in Places(c.fd) : \E s \in SetToSeqs(Children(tree, d)) : Then(h, cs(s, d) \o <<e>>)
  BY DEF CopyList, Continue
<1> HIDE DEF e
<1>4. ASSUME NEW d \in Places(c.fd), NEW s \in SetToSeqs(Children(tree, d)),
             Then(h, cs(s, d) \o <<e>>)
      PROVE  GoesOn(h)
  <2> DEFINE C == {entry(name(q, d)) : q \in Children(tree, d)}
             D == C \cup {e}
             ds == cs(s, d) \o <<e>>
  <2>1. d \in Path
    BY DEF Places, TreeInv
  <2>2. \A x \in C : Follows(c, x)
    <3>1. SUFFICES ASSUME NEW q \in Children(tree, d) PROVE Follows(c, entry(name(q, d)))
      OBVIOUS
    <3>2. q \in Path /\ Within(q, d)
      BY <2>1, ChildrenInside DEF Within
    <3>3. c.to \o name(q, d) \in Path /\ Within(c.to \o name(q, d), c.to)
      BY <1>1, <2>1, <3>2, RebasedIsWithin DEF Rebased
    <3> HIDE DEF name
    <3> QED
      BY <1>1, <3>3 DEF Follows, Source, Call
  <2>3. cs(s, d) \in Seq(C)
    <3>1. s \in Seq(Children(tree, d))
      BY <2>1, ChildrenInside, OrderOfSet
    <3> HIDE DEF entry
    <3> QED
      BY <3>1
  <2> HIDE DEF C, cs
  <2>4. ds \in Seq(D) /\ \A x \in D : Follows(c, x)
    BY <1>2, <2>2, <2>3
  <2>5. Then(h, ds)
    BY <1>4
  <2> HIDE DEF D, ds
  <2> QED
    BY <2>4, <2>5, ThenGoesOn
<1> HIDE DEF cs
<1> QED
  BY <1>2, <1>3, <1>4, FailsGoesOn, OneGoesOn

(* The calls of a removal follow from those before.                        *)
LEMMA RemoveGoesOn ==
  ASSUME Inv, NEW h \in Handlers, status[h] = Serving, NEW c, c = work[h][1], Safe(c),
         RemoveAll(h, c) \/ Rmdir(h, c)
  PROVE  GoesOn(h)
<1> USE DEF Inv
<1>1. CASE Rmdir(h, c)
  BY <1>1, AnswerGoesOn, NoneGoesOn DEF Rmdir, Removes, Continue
<1>2. CASE RemoveAll(h, c)
  <2> DEFINE e == [c EXCEPT !.act = "rmdir"]
             inside == Children(tree, c.to)
             cs(s) == [i \in DOMAIN s |-> Call("remove", s[i], s[i])]
  <2>1. c.act = "remove" /\ c.to \in Path /\ Follows(c, e)
    BY <1>2 DEF RemoveAll, Safe, Follows, Steps, Source
  <2>2. Then(h, <<>>) \/ \E s \in SetToSeqs(inside) : Then(h, cs(s) \o <<e>>)
    BY <1>2 DEF RemoveAll, Removes, Continue
  <2> HIDE DEF e
  <2>3. ASSUME NEW s \in SetToSeqs(inside), Then(h, cs(s) \o <<e>>) PROVE GoesOn(h)
    <3> DEFINE C == {Call("remove", q, q) : q \in inside}
               D == C \cup {e}
               ds == cs(s) \o <<e>>
    <3>1. \A x \in C : Follows(c, x)
      BY <2>1, ChildrenInside DEF Follows, Source, Call, Within
    <3>2. cs(s) \in Seq(C)
      <4>1. s \in Seq(inside)
        BY <2>1, ChildrenInside, OrderOfSet
      <4> HIDE DEF inside
      <4> QED
        BY <4>1
    <3> HIDE DEF C, cs
    <3>3. ds \in Seq(D) /\ \A x \in D : Follows(c, x)
      BY <2>1, <3>1, <3>2
    <3>4. Then(h, ds)
      BY <2>3
    <3> HIDE DEF D, ds
    <3> QED
      BY <3>3, <3>4, ThenGoesOn
  <2> HIDE DEF cs, inside
  <2> QED
    BY <2>2, <2>3, NoneGoesOn
<1> QED
  BY <1>1, <1>2

(* The calls of a change of properties follow from those before.           *)
LEMMA ModPropsGoesOn ==
  ASSUME Inv, NEW h \in Handlers, status[h] = Serving, NEW c, c = work[h][1], Safe(c),
         ModPropsLstat(h, c) \/ SetMode(h, c) \/ SetOwner(h, c)
  PROVE  GoesOn(h)
<1> USE DEF Inv
<1>1. CASE ModPropsLstat(h, c)
  <2> DEFINE d == [c EXCEPT !.act = "setMode", !.fi = Info(c.to)]
  <2>1. Follows(c, d)
    BY <1>1 DEF ModPropsLstat, Follows, Steps, Safe, Source
  <2>2. Fails(h, LookupError(tree, c.to)) \/ Answer(h, 404) \/ Then(h, <<d>>)
    BY <1>1 DEF ModPropsLstat, Continue
  <2> HIDE DEF d
  <2> QED
    BY <2>1, <2>2, AnswerGoesOn, FailsGoesOn, OneGoesOn
<1>2. CASE SetMode(h, c)
  <2> DEFINE d == [c EXCEPT !.act = "setOwner"]
  <2>1. Follows(c, d)
    BY <1>2 DEF SetMode, Follows, Steps, Safe, Source
  <2>2. Answer(h, 404) \/ Then(h, <<d>>)
    BY <1>2 DEF SetMode, Continue
  <2> HIDE DEF d
  <2> QED
    BY <2>1, <2>2, AnswerGoesOn, OneGoesOn
<1>3. CASE SetOwner(h, c)
  BY <1>3, AnswerGoesOn, NoneGoesOn DEF SetOwner, Continue
<1> QED
  BY <1>1, <1>2, <1>3

(* And with those of the requests that ask.                                *)
LEMMA ReadsGoOn ==
  ASSUME Inv, NEW h \in Handlers, status[h] = Serving, NEW c, c = work[h][1], Safe(c),
         Reads(h, c)
  PROVE  GoesOn(h)
<1> USE DEF Inv
<1>1. CASE Props(h, c) \/ GetDir(h, c) \/ GetFile(h, c)
  BY <1>1, FailsGoesOn, NoneGoesOn DEF Props, GetDir, GetFile, Continue
<1>2. CASE GetOpen(h, c)
  <2> DEFINE d == [c EXCEPT !.act = "stat", !.fd = Opened(c.to)]
  <2>1. Follows(c, d)
    BY <1>2 DEF GetOpen, Follows, Looking, Safe, Source
  <2>2. Fails(h, LookupError(tree, c.to)) \/ Then(h, <<d>>)
    BY <1>2 DEF GetOpen, Continue
  <2> HIDE DEF d
  <2> QED
    BY <2>1, <2>2, FailsGoesOn, OneGoesOn
<1>3. CASE GetStat(h, c)
  <2> DEFINE d == [c EXCEPT !.act = "readdir"]
             e == [c EXCEPT !.act = "send"]
  <2>1. Follows(c, d) /\ Follows(c, e)
    BY <1>3 DEF GetStat, Follows, Looking, Safe, Source
  <2>2. Then(h, <<d>>) \/ Then(h, <<>>) \/ Then(h, <<e>>)
    BY <1>3 DEF GetStat, Continue
  <2> HIDE DEF d, e
  <2> QED
    BY <2>1, <2>2, NoneGoesOn, OneGoesOn
<1>4. CASE SearchLstat(h, c)
  <2> DEFINE d == [c EXCEPT !.act = "scan"]
  <2>1. Follows(c, d)
    BY <1>4 DEF SearchLstat, Follows, Looking, Safe, Source
  <2>2. Fails(h, LookupError(tree, c.to)) \/ Then(h, <<>>) \/ Then(h, <<d>>)
    BY <1>4 DEF SearchLstat, Continue
  <2> HIDE DEF d
  <2> QED
    BY <2>1, <2>2, FailsGoesOn, NoneGoesOn, OneGoesOn
<1>5. CASE Scan(h, c)
  <2> DEFINE dirs == {q \in Children(tree, c.to) : tree[q].dir}
             cs(s) == [i \in DOMAIN s |-> Call("scan", s[i], s[i])]
  <2>1. c.act = "scan" /\ c.to \in Path
    BY <1>5 DEF Scan, Safe
  <2>2. ASSUME work' = [work EXCEPT ![h] = <<>>], status' = [status EXCEPT ![h] = 200]
        PROVE  GoesOn(h)
    <3>1. Answer(h, 200)
      BY <1>5, <2>2 DEF Scan, Answer
    <3> QED
      BY <3>1, AnswerGoesOn
  <2>3. ASSUME NEW s \in SetToSeqs(dirs), NEW code,
               work' = [work EXCEPT ![h] = Tail(work[h]) \o cs(s)],
               status' = [status EXCEPT ![h] = code]
        PROVE  GoesOn(h)
    <3> DEFINE C == {Call("scan", d, d) : d \in dirs}
               w == Tail(work[h]) \o cs(s)
    <3>1. cs(s) \in Seq(C)
      <4>1. IsFiniteSet(dirs)
        BY <2>1, ChildrenInside, FS_Subset
      <4>2. s \in Seq(dirs)
        BY <4>1, OrderOfSet
      <4> HIDE DEF dirs
      <4> QED
        BY <4>2
    <3>2. \A d \in C : Follows(c, d)
      BY <2>1 DEF Follows, Looking, Call, Source
    <3>3. work' = [work EXCEPT ![h] = w] /\ w = Tail(work[h]) \o cs(s)
      BY <2>3
    <3> HIDE DEF C, cs, w
    <3> QED
      BY <2>3, <3>1, <3>2, <3>3, CallsGoOn
  <2> QED
    BY <1>5, <2>2, <2>3 DEF Scan
<1> QED
  BY <1>1, <1>2, <1>3, <1>4, <1>5 DEF Reads

(* All calls follow from those before.                                     *)
LEMMA StepGoesOn ==
  ASSUME Inv, NEW h \in Handlers, status[h] = Serving, NEW c, c = work[h][1], Safe(c),
         Writes(h, c) \/ Reads(h, c) \/ Fault(h, c)
  PROVE  GoesOn(h)
<1>1. CASE Fault(h, c)
  BY <1>1, AnswerGoesOn, NoneGoesOn DEF Fault, Continue, Inv
<1>2. CASE Writes(h, c)
  BY <1>2, PutGoesOn, CopyGoesOn, CopyListGoesOn, RemoveGoesOn, ModPropsGoesOn DEF Writes
<1> QED
  BY <1>1, <1>2, ReadsGoOn

(* What follows a call that a request asks for, the request asks for too.  *)
LEMMA AskedFollows ==
  ASSUME NEW r \in Requests, NEW c, NEW d, Safe(c), Asked(r, c), Follows(c, d)
  PROVE  Asked(r, d)
<1> DEFINE op == Operation(r)
<1>1. r.path \in Path /\ c.to \in Path /\ \A i \in DOMAIN r.to : r.to[i] \in Path
  BY HtFileAssumption DEF Safe
<1>2. CASE <<c.act, d.act>> \in Steps /\ d.to = c.to /\ d.from = c.from
  BY <1>2 DEF Asked, Steps, Looking
<1>3. CASE c.act = "mkdirAll" /\ d.act = "mkdir" /\ Within(c.to, d.to)
  BY <1>3 DEF Asked, Looking
<1>4. CASE c.act = "list" /\ d.act = "lstat" /\ d.to \in Path /\ Within(d.to, c.to)
  <2>1. op = "copy" /\ \E i \in DOMAIN r.to : Within(c.to, r.to[i])
    BY <1>4 DEF Asked, Looking
  <2>2. \E i \in DOMAIN r.to : Within(d.to, r.to[i])
    BY <1>1, <1>4, <2>1, WithinTransitive
  <2> QED
    BY <1>4, <2>1, <2>2 DEF Asked
<1>5. CASE c.act = "remove" /\ d.act = "remove" /\ d.to \in Path /\ Within(d.to, c.to)
  <2>1. op = "delete" /\ Within(c.to, r.path)
    BY <1>5 DEF Asked, Looking
  <2>2. Within(d.to, r.path)
    BY <1>1, <1>5, <2>1, WithinTransitive
  <2> QED
    BY <1>5, <2>1, <2>2 DEF Asked
<1>6. CASE Looking(c) /\ Looking(d)
  BY <1>6 DEF Asked, Looking
<1> QED
  BY <1>2, <1>3, <1>4, <1>5, <1>6 DEF Follows

(* A request begins with calls that it asks for.                           *)
LEMMA PlanIsAsked ==
  ASSUME NEW r \in Requests, Begin(r) = Serving, NEW i \in DOMAIN Plan(Operation(r), r)
  PROVE  Asked(r, Plan(Operation(r), r)[i]) /\ Source(Plan(Operation(r), r)[i])
<1> DEFINE op == Operation(r)
           own(act) == Call(act, r.path, r.path)
<1>1. r.to \in Seq(Path) /\ op \in Operations
  BY HtFileAssumption, AcceptedRequest
<1>2. op = "rename" => Len(r.to) = 1
  BY DEF Begin, Serving, PropsStatus
<1> HIDE DEF op
<1>3. CASE op = "put"
  <2>1. Plan(op, r) = <<own("mkdirAll"), own("create")>>
    BY <1>3, Zenon DEF Plan
  <2>2. i = 1 \/ i = 2
    BY <2>1 DEF op
  <2>3. Plan(op, r)[i] \in {own("mkdirAll"), own("create")}
    BY <2>1, <2>2
  <2> QED
    BY <1>3, <2>3 DEF op, Asked, Source, Call
<1>4. CASE op \in {"copy", "rename"}
  <2> DEFINE act == IF op = "copy" THEN "copyTo" ELSE "renameTo"
             p == [j \in DOMAIN r.to |-> Call(act, r.path, r.to[j])]
  <2>1. Plan(op, r) = p
    <3>1. CASE op = "copy"
      BY <3>1, Zenon DEF Plan
    <3>2. CASE op = "rename"
      BY <3>2, Zenon DEF Plan
    <3> QED
      BY <1>4, <3>1, <3>2
  <2>2. i \in DOMAIN r.to /\ Plan(op, r)[i] = Call(act, r.path, r.to[i])
    BY <2>1 DEF op
  <2>3. op = "rename" => i = 1
    BY <1>1, <1>2, <2>2
  <2> QED
    BY <1>4, <2>2, <2>3 DEF op, Asked, Source, Call, Within
<1>5. CASE op \notin {"put", "copy", "rename"}
  <2> DEFINE act == IF op = "mkdir" THEN "mkdirAll" ELSE IF op = "delete" THEN "remove" ELSE op
  <2>1. Plan(op, r) = <<own(act)>>
    <3>1. CASE op = "mkdir"
      BY <3>1, Zenon DEF Plan
    <3>2. CASE op = "delete"
      BY <3>2, Zenon DEF Plan
    <3>3. CASE op \notin {"mkdir", "delete"}
      BY <1>5, <3>3, Zenon DEF Plan
    <3> QED
      BY <3>1, <3>2, <3>3
  <2>2. Plan(op, r)[i] = own(act)
    BY <2>1 DEF op
  <2> QED
    BY <1>1, <1>5, <2>2 DEF op, Operations, Asked, Looking, Source, Call, Within
<1> QED
  BY <1>3, <1>4, <1>5

(* Every step keeps what calls are made with.                              *)
LEMMA CallsStep ==
  ASSUME Inv, CallsInv, [Next]_vars
  PROVE  CallsInv'
<1>1. DOMAIN work = Handlers /\ DOMAIN status = Handlers /\ DOMAIN req = Handlers
  BY DEF Inv, WorkInv, CallsInv
<1>2. CASE UNCHANGED vars
  <2>1. work' = work /\ status' = status /\ req' = req
    BY <1>2 DEF vars
  <2> QED
    BY <2>1 DEF CallsInv, Asked, Source, Looking
<1>3. ASSUME NEW h \in Handlers, Receive(h) PROVE CallsInv'
  <2>1. PICK r \in Requests :
          /\ req' = [req EXCEPT ![h] = r]
          /\ status' = [status EXCEPT ![h] = Begin(r)]
          /\ work' = [work EXCEPT ![h] =
                        IF Begin(r) = Serving THEN Plan(Operation(r), r) ELSE <<>>]
    BY <1>3 DEF Receive
  <2>2. status'[h] = Serving => /\ req'[h] \in Requests
                                /\ \A i \in DOMAIN work'[h] : Asked(req'[h], work'[h][i])
                                                              /\ Source(work'[h][i])
    BY <1>1, <2>1, PlanIsAsked
  <2>3. \A g \in Handlers : g # h =>
          status'[g] = status[g] /\ req'[g] = req[g] /\ work'[g] = work[g]
    BY <1>1, <2>1
  <2>4. DOMAIN req' = Handlers
    BY <1>1, <2>1
  <2> QED
    BY <2>2, <2>3, <2>4 DEF CallsInv
<1>4. ASSUME NEW h \in Handlers, Return(h) PROVE CallsInv'
  <2>1. work' = work /\ DOMAIN req' = Handlers /\ status'[h] # Serving
        /\ \A g \in Handlers : g # h => status'[g] = status[g] /\ req'[g] = req[g]
    BY <1>1, <1>4 DEF Return, Free, Serving
  <2> QED
    BY <2>1 DEF CallsInv
<1>5. ASSUME NEW h \in Handlers, status[h] = Serving, req' = req,
             Step(h) \/ Fault(h, work[h][1])
      PROVE  CallsInv'
  <2>1. Safe(work[h][1]) /\ 1 \in DOMAIN work[h]
    <3>1. work[h] # <<>> /\ work[h] \in Seq({work[h][i] : i \in DOMAIN work[h]})
      BY <1>5 DEF Inv, WorkInv, SafeWork
    <3>2. 1 \in DOMAIN work[h]
      BY <3>1
    <3> QED
      BY <1>5, <3>2, FirstCall DEF Inv
  <2>2. GoesOn(h)
    BY <1>5, <2>1, StepGoesOn DEF Step
  <2>3. PICK w, s : /\ work' = [work EXCEPT ![h] = w]
                    /\ status' = [status EXCEPT ![h] = s]
                    /\ \A i \in DOMAIN w : \/ Follows(work[h][1], w[i])
                                           \/ \E j \in DOMAIN work[h] : w[i] = work[h][j]
    BY <2>2 DEF GoesOn
  <2>4. \A i \in DOMAIN w : Asked(req[h], w[i]) /\ Source(w[i])
    <3>1. req[h] \in Requests /\ \A j \in DOMAIN work[h] : Asked(req[h], work[h][j])
                                                           /\ Source(work[h][j])
      BY <1>5 DEF CallsInv
    <3>2. ASSUME NEW d, Follows(work[h][1], d) PROVE Asked(req[h], d) /\ Source(d)
      <4>1. Asked(req[h], d)
        BY <2>1, <3>1, <3>2, AskedFollows
      <4> QED
        BY <2>1, <3>1, <3>2, <4>1 DEF Follows
    <3> QED
      BY <2>3, <3>1, <3>2
  <2>5. work'[h] = w /\ \A g \in Handlers : g # h => work'[g] = work[g] /\ status'[g] = status[g]
    BY <1>1, <2>3
  <2> QED
    BY <1>5, <2>4, <2>5 DEF CallsInv
<1> QED
  BY <1>2, <1>3, <1>4, <1>5 DEF Next, Step

(* There are no calls in the beginning.                                    *)
LEMMA CallsInit == Init => CallsInv
BY DEF Init, CallsInv, Free, Serving

---------------------------------------------------------------------------
(* Where a call adds, takes away or alters entries.                        *)

Kept(p) == p \in DOMAIN tree \cap DOMAIN tree' /\ tree[p] = tree'[p]

WritesAt(c, p) ==
  \/ c.act \in {"mkdir", "create"} /\ p \notin DOMAIN tree /\ p = c.to
  \/ c.act \in {"copyDir", "copyFile", "chmod"} /\ p \in DOMAIN tree' /\ p = c.to
  \/ c.act = "rename" /\ (Within(p, c.from) \/ Within(p, c.to))
  \/ c.act \in {"remove", "rmdir"} /\ p \notin DOMAIN tree' /\ Within(p, c.to)
  \/ c.act \in {"setMode", "setOwner"} /\ p = c.to

(* A step changes an entry only where its call writes.                     *)
LEMMA WhereItWrites ==
  ASSUME Inv, NEW h, NEW c, Safe(c), Writes(h, c) \/ Reads(h, c) \/ Fault(h, c),
         NEW p \in DOMAIN tree \cup DOMAIN tree'
  PROVE  Kept(p) \/ WritesAt(c, p)
<1>1. CASE tree' = tree
  BY <1>1 DEF Kept
<1>2. ASSUME MakeDir(c.to)
      PROVE  Kept(p) \/ (p \notin DOMAIN tree /\ p = c.to /\ p \in DOMAIN tree')
  BY <1>2 DEF MakeDir, OrNoSpace, MkdirError, With, Kept
<1>3. ASSUME Create(c.to)
      PROVE  Kept(p) \/ (p \notin DOMAIN tree /\ p = c.to /\ p \in DOMAIN tree')
  BY <1>3 DEF Create, With, Kept
<1>4. ASSUME NEW mode, Chmod(c.to, mode)
      PROVE  Kept(p) \/ (p \in DOMAIN tree' /\ p = c.to)
  BY <1>4 DEF Chmod, Kept
<1>5. ASSUME Removes(h, c.to)
      PROVE  Kept(p) \/ (p \notin DOMAIN tree' /\ Within(p, c.to))
  BY <1>5 DEF Removes, Without, Kept
<1>6. CASE MkdirAll(h, c) \/ PutBody(h, c) \/ Target(h, c) \/ CopyLstat(h, c) \/ CopyOpen(h, c)
           \/ CopyList(h, c) \/ CopyData(h, c) \/ ModPropsLstat(h, c)
           \/ Reads(h, c) \/ Fault(h, c)
  <2>1. tree' = tree
    BY <1>6 DEF MkdirAll, PutBody, Target, CopyLstat, CopyOpen, CopyList, CopyData,
       ModPropsLstat, Reads, Fault, Props, GetOpen, GetStat, GetDir, GetFile, SearchLstat,
       Scan, Fails, Answer, Continue, Write, fs
  <2> QED
    BY <1>1, <2>1
<1>7. CASE Mkdir(h, c)
  BY <1>1, <1>2, <1>7 DEF Mkdir, WritesAt, Fails, Answer, Continue, fs
<1>8. CASE PutCreate(h, c)
  BY <1>1, <1>3, <1>8 DEF PutCreate, WritesAt, Fails, Answer, fs
<1>9. CASE CopyDir(h, c)
  BY <1>1, <1>2, <1>9 DEF CopyDir, WritesAt, Fails, Answer, fs
<1>10. CASE CopyFile(h, c)
  BY <1>1, <1>3, <1>10 DEF CopyFile, WritesAt, Fails, Answer, fs
<1>11. CASE CopyChmod(h, c)
  BY <1>1, <1>4, <1>11 DEF CopyChmod, WritesAt, Fails, Answer, fs
<1>12. CASE Rename(h, c)
  <2>1. CASE tree' = Renamed(tree, c.from, c.to)
    <3>1. c.act = "rename"
      BY <1>12 DEF Rename
    <3> SUFFICES ASSUME ~Within(p, c.from), ~Within(p, c.to) PROVE Kept(p)
      BY <3>1 DEF WritesAt
    <3> DEFINE stays == {r \in DOMAIN tree : ~Within(r, c.from) /\ ~Within(r, c.to)}
               moved == {Rebased(r, c.from, c.to) : r \in {s \in DOMAIN tree : Within(s, c.from)}}
    <3>2. DOMAIN tree' = stays \cup moved /\ \A q \in stays : tree'[q] = tree[q]
      BY <2>1 DEF Renamed
    <3>3. c.to # <<>> /\ c.to \in Path /\ c.from \in Path
      BY <3>1, RootIsPath, BelowIsOnTheWay DEF Safe, Within, OnTheWay, Path
    <3>4. \A q \in moved : Within(q, c.to)
      BY <3>3, RebasedIsWithin DEF Inv, TreeInv
    <3>5. p \in stays
      BY <3>2, <3>4
    <3> QED
      BY <3>2, <3>5 DEF Kept
  <2> QED
    BY <1>1, <1>12, <2>1 DEF Rename, Fails, Answer, fs
<1>13. CASE RemoveAll(h, c)
  BY <1>1, <1>5, <1>13 DEF RemoveAll, WritesAt, Continue, fs
<1>14. CASE Rmdir(h, c)
  BY <1>1, <1>5, <1>14 DEF Rmdir, WritesAt, Answer, Continue, fs
<1>15. CASE SetMode(h, c)
  BY <1>1, <1>4, <1>15 DEF SetMode, WritesAt, Answer, Continue, fs
<1>16. CASE SetOwner(h, c)
  BY <1>1, <1>16 DEF SetOwner, WritesAt, Kept, Answer, Continue, fs
<1> QED
  BY <1>6, <1>7, <1>8, <1>9, <1>10, <1>11, <1>12, <1>13, <1>14, <1>15, <1>16 DEF Writes

(* A step adds, takes away or alters entries where the request of the one  *)
(* who makes it asks for it.                                               *)
LEMMA WritesWhereAsked ==
  ASSUME Inv, NEW r \in Requests, NEW c, Safe(c), Asked(r, c),
         NEW p \in DOMAIN tree \cup DOMAIN tree', WritesAt(c, p)
  PROVE  LET op == Operation(r)
             added == p \notin DOMAIN tree
             to == r.to
         IN \/ op = "put" /\ added /\ Within(r.path, p)
            \/ op = "mkdir" /\ added /\ Within(r.path, p)
            \/ op = "copy" /\ p \in DOMAIN tree' /\ \E i \in DOMAIN to : Within(p, to[i])
            \/ op = "rename" /\ (Within(p, r.path) \/ Within(p, to[1]))
            \/ op = "delete" /\ p \notin DOMAIN tree' /\ Within(p, r.path)
            \/ op = "modprops" /\ p = r.path
<1> DEFINE op == Operation(r)
<1>1. r.path \in Path /\ c.to \in Path
  BY HtFileAssumption DEF Safe
<1>2. CASE c.act \in {"mkdir", "create"}
  BY <1>2 DEF WritesAt, Asked, Looking, Within
<1>3. CASE c.act \in {"copyDir", "copyFile", "chmod"}
  BY <1>3 DEF WritesAt, Asked, Looking
<1>4. CASE c.act = "rename"
  BY <1>4 DEF WritesAt, Asked, Looking
<1>5. CASE c.act \in {"remove", "rmdir"}
  <2>1. op = "delete" /\ Within(c.to, r.path) /\ p \notin DOMAIN tree' /\ Within(p, c.to)
    BY <1>5 DEF WritesAt, Asked, Looking
  <2>2. p \in Path
    BY <2>1 DEF Inv, TreeInv
  <2> QED
    BY <1>1, <2>1, <2>2, WithinTransitive
<1>6. CASE c.act \in {"setMode", "setOwner"}
  BY <1>6 DEF WritesAt, Asked, Looking
<1> QED
  BY <1>2, <1>3, <1>4, <1>5, <1>6 DEF WritesAt

(* Whatever the others do, and wherever its calls fail, a request changes  *)
(* the tree only where it was asked to: a copy only where it copies to, a  *)
(* deletion only by taking away.                                           *)
THEOREM AskedChangesOnly == Spec => ChangesWhereAsked
<1> DEFINE AsAsked ==
      \A h \in Handlers : work'[h] # work[h] =>
       \A p \in DOMAIN tree \cup DOMAIN tree' :
         LET op == Operation(req[h])
             kept == p \in DOMAIN tree \cap DOMAIN tree' /\ tree[p] = tree'[p]
             added == p \notin DOMAIN tree
             to == req[h].to
         IN \/ kept
            \/ op = "put" /\ added /\ Within(req[h].path, p)
            \/ op = "mkdir" /\ added /\ Within(req[h].path, p)
            \/ op = "copy" /\ p \in DOMAIN tree' /\ \E i \in DOMAIN to : Within(p, to[i])
            \/ op = "rename" /\ (Within(p, req[h].path) \/ Within(p, to[1]))
            \/ op = "delete" /\ p \notin DOMAIN tree' /\ Within(p, req[h].path)
            \/ op = "modprops" /\ p = req[h].path
<1>1. ASSUME Inv, CallsInv, Next PROVE AsAsked
  <2>1. CASE tree' = tree
    BY <2>1
  <2>2. CASE \E g \in Handlers : Receive(g) \/ Return(g)
    BY <2>1, <2>2 DEF Receive, Return
  <2>3. ASSUME NEW g \in Handlers, status[g] = Serving, Step(g) \/ Fault(g, work[g][1])
        PROVE  AsAsked
    <3> DEFINE c == work[g][1]
    <3>1. work[g] # <<>> /\ work[g] \in Seq({work[g][i] : i \in DOMAIN work[g]})
      BY <1>1, <2>3 DEF Inv, WorkInv, SafeWork
    <3>2. 1 \in DOMAIN work[g]
      BY <3>1
    <3>3. Safe(c) /\ req[g] \in Requests /\ Asked(req[g], c)
      BY <1>1, <2>3, <3>2, FirstCall DEF Inv, CallsInv
    <3>4. Writes(g, c) \/ Reads(g, c) \/ Fault(g, c)
      BY <2>3 DEF Step
    <3>5. \A h \in Handlers : work'[h] # work[h] => h = g
      <4>1. GoesOn(g)
        BY <1>1, <2>3, <3>3, <3>4, StepGoesOn
      <4>2. PICK w : work' = [work EXCEPT ![g] = w]
        BY <4>1 DEF GoesOn
      <4> QED
        BY <1>1, <4>2 DEF Inv, WorkInv
    <3>6. \A p \in DOMAIN tree \cup DOMAIN tree' : Kept(p) \/ WritesAt(c, p)
      BY <1>1, <3>3, <3>4, WhereItWrites
    <3> HIDE DEF c
    <3> SUFFICES ASSUME NEW p \in DOMAIN tree \cup DOMAIN tree', ~Kept(p)
                 PROVE  LET op == Operation(req[g])
                            added == p \notin DOMAIN tree
                            to == req[g].to
                        IN \/ op = "put" /\ added /\ Within(req[g].path, p)
                           \/ op = "mkdir" /\ added /\ Within(req[g].path, p)
                           \/ op = "copy" /\ p \in DOMAIN tree'
                                          /\ \E i \in DOMAIN to : Within(p, to[i])
                           \/ op = "rename" /\ (Within(p, req[g].path) \/ Within(p, to[1]))
                           \/ op = "delete" /\ p \notin DOMAIN tree' /\ Within(p, req[g].path)
                           \/ op = "modprops" /\ p = req[g].path
      BY <3>5 DEF Kept
    <3> QED
      BY <1>1, <3>3, <3>6, WritesWhereAsked
  <2> HIDE DEF AsAsked
  <2> QED
    BY <1>1, <2>2, <2>3 DEF Next, Step
<1>2. Inv /\ CallsInv /\ [Next]_vars => Inv' /\ CallsInv' /\ [AsAsked]_vars
  BY <1>1, StepInv, CallsStep
<1> QED
  BY <1>2, InitInv, CallsInit, PTL DEF Spec, ChangesWhereAsked

---------------------------------------------------------------------------
(* How long files become.                                                  *)

FilesWithin(n) == \A i \in Ids : data[i] \in Seq(Unit) /\ Len(data[i]) <= n

(* What is written over a content is no longer than the longer of both.    *)
LEMMA WrittenWithin ==
  ASSUME NEW n \in Nat, NEW content \in Seq(Unit), NEW off \in Nat, NEW u \in Seq(Unit),
         Len(content) <= n, off + Len(u) <= n
  PROVE  Written(content, off, u) \in Seq(Unit) /\ Len(Written(content, off, u)) <= n
<1> DEFINE m == IF Len(content) > off + Len(u) THEN Len(content) ELSE off + Len(u)
           e(i) == IF i \in off + 1..off + Len(u) THEN u[i - off]
                   ELSE IF i <= Len(content) THEN content[i] ELSE Zero
<1>1. m \in Nat /\ m <= n /\ Len(u) \in Nat /\ Len(content) \in Nat
  OBVIOUS
<1>2. ASSUME NEW i \in 1..m PROVE e(i) \in Unit
  <2>1. CASE i \in off + 1..off + Len(u)
    <3>1. i - off \in 1..Len(u)
      BY <1>1, <2>1
    <3> QED
      BY <2>1, <3>1
  <2>2. CASE i \notin off + 1..off + Len(u) /\ i <= Len(content)
    <3>1. i \in 1..Len(content)
      BY <1>1, <2>2
    <3> QED
      BY <2>2, <3>1
  <2>3. CASE i \notin off + 1..off + Len(u) /\ ~(i <= Len(content))
    BY <2>3 DEF Unit, Zero
  <2> QED
    BY <2>1, <2>2, <2>3
<1>3. Written(content, off, u) = [i \in 1..m |-> e(i)]
  BY DEF Written
<1> HIDE DEF m, e
<1> QED
  BY <1>1, <1>2, <1>3

(* A file gets another content, no longer than the limit.                  *)
LEMMA OneFileWithin ==
  ASSUME TreeInv, NEW n, FilesWithin(n), NEW x, NEW v,
         x \in Ids => v \in Seq(Unit) /\ Len(v) <= n,
         data' = [data EXCEPT ![x] = v]
  PROVE  FilesWithin(n)'
BY DEF TreeInv, FilesWithin

(* Every step keeps the files within the limit.                            *)
LEMMA FilesStayWithin ==
  ASSUME Inv, CallsInv, NEW n \in Nat, MaxBody > 0, MaxBody <= n, FilesWithin(n), [Next]_vars
  PROVE  FilesWithin(n)'
<1> DEFINE empty == <<>>
<1>0. empty \in Seq(Unit) /\ Len(empty) <= n
  OBVIOUS
<1>1. CASE data' = data
  BY <1>1 DEF FilesWithin
<1>2. ASSUME NEW x, data' = [data EXCEPT ![x] = <<>>] PROVE FilesWithin(n)'
  <2>1. data' = [data EXCEPT ![x] = empty]
    BY <1>2
  <2> HIDE DEF empty
  <2> QED
    BY <1>0, <2>1, OneFileWithin DEF Inv
<1>3. ASSUME NEW f, NEW off \in Nat, NEW u \in Seq(Unit), off + Len(u) <= n, Write(f, off, u)
      PROVE  FilesWithin(n)'
  <2> DEFINE x == f.id
             v == Written(data[x], off, u)
  <2>1. data' = [data EXCEPT ![x] = v]
    BY <1>3 DEF Write
  <2>2. x \in Ids => v \in Seq(Unit) /\ Len(v) <= n
    BY <1>3, WrittenWithin DEF FilesWithin
  <2> HIDE DEF x, v
  <2> QED
    BY <2>1, <2>2, OneFileWithin DEF Inv
<1>4. ASSUME NEW h \in Handlers, status[h] = Serving, Step(h) \/ Fault(h, work[h][1])
      PROVE  FilesWithin(n)'
  <2> DEFINE c == work[h][1]
  <2>1. Safe(c) /\ Source(c)
    <3>1. work[h] # <<>> /\ work[h] \in Seq({work[h][i] : i \in DOMAIN work[h]})
      BY <1>4 DEF Inv, WorkInv, SafeWork
    <3>2. 1 \in DOMAIN work[h]
      BY <3>1
    <3> QED
      BY <1>4, <3>2, FirstCall DEF Inv, CallsInv
  <2>2. Writes(h, c) \/ Reads(h, c) \/ Fault(h, c)
    BY <1>4 DEF Step
  <2> HIDE DEF c
  <2>3. CASE PutBody(h, c)
    <3>1. CASE /\ ~(MaxBody > 0 /\ c.n >= MaxBody)
               /\ Write(c.tf, c.n, <<<<h, c.n + 1>>>>)
      <4>1. MaxBody \in Nat
        BY HtFileAssumption
      <4>2. c.n \in Nat /\ c.n + 1 <= n
        BY <2>1, <3>1, <4>1 DEF Safe
      <4> DEFINE u == <<<<h, c.n + 1>>>>
      <4>3. u \in Seq(Unit) /\ Len(u) = 1
        BY <4>2 DEF Unit
      <4>4. Write(c.tf, c.n, u)
        BY <3>1
      <4> HIDE DEF u
      <4> QED
        BY <1>3, <4>2, <4>3, <4>4
    <3> QED
      BY <1>1, <2>3, <3>1 DEF PutBody, Answer, Continue, fs
  <2>4. CASE CopyData(h, c)
    <3>1. CASE Write(c.tf, 0, data[c.fd.id])
      <4>1. data[c.fd.id] \in Seq(Unit) /\ Len(data[c.fd.id]) <= n
        BY <2>1, <2>4 DEF CopyData, Source, FilesWithin
      <4> QED
        BY <1>3, <3>1, <4>1
    <3> QED
      BY <1>1, <2>4, <3>1 DEF CopyData, Fails, Answer, fs
  <2>5. CASE Mkdir(h, c) \/ PutCreate(h, c) \/ CopyDir(h, c) \/ CopyFile(h, c)
    BY <1>1, <1>2, <2>5 DEF Mkdir, PutCreate, CopyDir, CopyFile, MakeDir, Create, Fails,
       Answer, Continue, fs
  <2>6. CASE ~(PutBody(h, c) \/ CopyData(h, c) \/ Mkdir(h, c) \/ PutCreate(h, c)
               \/ CopyDir(h, c) \/ CopyFile(h, c))
    <3>1. data' = data
      <4>1. CASE Writes(h, c)
        BY <2>6, <4>1 DEF Writes, MkdirAll, Target, CopyLstat, CopyOpen, CopyList, CopyChmod,
           Chmod, Rename, RemoveAll, Rmdir, Removes, ModPropsLstat, SetMode, SetOwner,
           Fails, Answer, Continue, fs
      <4>2. CASE Reads(h, c)
        BY <4>2 DEF Reads, Props, GetOpen, GetStat, GetDir, GetFile, SearchLstat,
           Scan, Fails, Answer, Continue, fs
      <4>3. CASE Fault(h, c)
        BY <4>3 DEF Fault, Fails, Answer, Continue, fs
      <4> QED
        BY <2>2, <4>1, <4>2, <4>3
    <3> QED
      BY <1>1, <3>1
  <2> QED
    BY <2>3, <2>4, <2>5, <2>6
<1>5. CASE UNCHANGED vars \/ \E h \in Handlers : Receive(h) \/ Return(h)
  BY <1>1, <1>5 DEF vars, Receive, Return
<1> QED
  BY <1>4, <1>5 DEF Next, Step

(* With a limit for bodies, no file becomes longer than it or, if that is  *)
(* longer, than the longest one at the start: whatever requests            *)
(* write to it at the same time.                                           *)
THEOREM NoFileGrowsLonger ==
  ASSUME MaxBody > 0, NEW n \in Nat, MaxBody <= n,
         \A s \in InitialTrees : \A i \in Ids : Len(s.data[i]) <= n
  PROVE  Spec => [](\A i \in Ids : Len(data[i]) <= n)
<1>1. Init => FilesWithin(n)
  BY InitialTreesAssumption DEF Init, FilesWithin
<1>2. Inv /\ CallsInv /\ FilesWithin(n) /\ [Next]_vars => Inv' /\ CallsInv' /\ FilesWithin(n)'
  BY StepInv, CallsStep, FilesStayWithin
<1>3. FilesWithin(n) => \A i \in Ids : Len(data[i]) <= n
  BY DEF FilesWithin
<1> QED
  BY <1>1, <1>2, <1>3, InitInv, CallsInit, PTL DEF Spec

(* So all are within the limit if those at the start are.                  *)
THEOREM LimitKept ==
  ASSUME \A s \in InitialTrees : \A i \in Ids : MaxBody > 0 => Len(s.data[i]) <= MaxBody
  PROVE  Spec => []WithinLimit
<1> DEFINE L == MaxBody > 0 => FilesWithin(MaxBody)
<1>0. MaxBody \in Nat /\ MaxBody <= MaxBody
  BY HtFileAssumption
<1>1. Init => L
  BY InitialTreesAssumption DEF Init, FilesWithin
<1>2. Inv /\ CallsInv /\ L /\ [Next]_vars => Inv' /\ CallsInv' /\ L'
  BY <1>0, StepInv, CallsStep, FilesStayWithin
<1>3. L => WithinLimit
  BY DEF FilesWithin, WithinLimit
<1> HIDE DEF L
<1> QED
  BY <1>1, <1>2, <1>3, InitInv, CallsInit, PTL DEF Spec
---------------------------------------------------------------------------
(* The store is a tree with an id for each of its entries, directories     *)
(* have no content, and no file that is open for writing is a directory.   *)

Fields == {"dir", "mode", "owner", "group"}

Stored ==
  /\ Closed(tree)
  /\ \A p \in DOMAIN tree : Fields \subseteq DOMAIN tree[p]
  /\ \A p, q \in DOMAIN tree : tree[p].id = tree[q].id => p = q
  /\ \A p \in DOMAIN tree : tree[p].dir => data[tree[p].id] = <<>>

OpenFile(c) ==
  c.act \in {"body", "copy"} => \A p \in DOMAIN tree : tree[p].id = c.tf.id => ~tree[p].dir

OpenInv == \A h \in Handlers : \A i \in DOMAIN work[h] : OpenFile(work[h][i])

(* A directory is one that was there, or has an id that nothing had.       *)
NewDirs ==
  \A p \in DOMAIN tree' : tree'[p].dir =>
    tree'[p].id \in FreeIds \/ \E q \in DOMAIN tree : tree[q].dir /\ tree[q].id = tree'[p].id

(* A step that changes no file keeps the store a tree.                     *)
LEMMA NothingStored ==
  ASSUME Stored, UNCHANGED fs
  PROVE  Stored' /\ NewDirs
BY DEF fs, Stored, NewDirs, Closed

(* So does writing to a file,                                              *)
LEMMA WriteStored ==
  ASSUME TreeInv, Stored, NEW i, \A p \in DOMAIN tree : tree[p].id = i => ~tree[p].dir, NEW v,
         tree' = tree, data' = [data EXCEPT ![i] = v]
  PROVE  Stored' /\ NewDirs
<1>1. \A p \in DOMAIN tree : tree[p].dir => data'[tree[p].id] = data[tree[p].id]
  BY DEF TreeInv
<1> QED
  BY <1>1 DEF Stored, NewDirs, Closed

(* changing the properties of an entry,                                    *)
LEMMA AlterStored ==
  ASSUME Stored, NEW p, DOMAIN tree' = DOMAIN tree,
         \A q \in DOMAIN tree : q # p => tree'[q] = tree[q],
         p \in DOMAIN tree => /\ Fields \subseteq DOMAIN tree'[p]
                              /\ tree'[p].dir = tree[p].dir /\ tree'[p].id = tree[p].id,
         data' = data
  PROVE  Stored' /\ NewDirs
<1>1. \A q \in DOMAIN tree : /\ Fields \subseteq DOMAIN tree'[q]
                             /\ tree'[q].dir = tree[q].dir /\ tree'[q].id = tree[q].id
  BY DEF Stored
<1>2. Closed(tree)'
  BY <1>1, AlteredIsClosed DEF Stored
<1> QED
  BY <1>1, <1>2 DEF Stored, NewDirs

(* adding an entry to a directory,                                         *)
LEMMA AddStored ==
  ASSUME TreeInv, Stored, NEW p, p \notin DOMAIN tree, ParentError(tree, p) = "ok",
         FreeIds # {}, NEW dir, tree' = With(tree, p, NewNode(dir)),
         data' = [data EXCEPT ![tree'[p].id] = <<>>]
  PROVE  Stored' /\ NewDirs /\ tree'[p].dir = dir
<1> DEFINE n == NewNode(dir)
<1>1. n.id \in FreeIds /\ Fields \subseteq DOMAIN n /\ n.dir = dir
  BY DEF NewNode, Fields
<1> HIDE DEF n
<1>2. DOMAIN tree' = DOMAIN tree \cup {p} /\ tree'[p] = n
      /\ \A q \in DOMAIN tree : tree'[q] = tree[q]
  BY DEF With, n
<1>3. Closed(tree)'
  BY WithIsClosed DEF Stored
<1>4. n.id \in Ids /\ \A q \in DOMAIN tree : tree[q].id # n.id
  BY <1>1 DEF FreeIds
<1>5. \A q \in DOMAIN tree : data'[tree[q].id] = data[tree[q].id]
  BY <1>2, <1>4 DEF TreeInv
<1>6. data'[n.id] = <<>>
  BY <1>2, <1>4 DEF TreeInv
<1> QED
  BY <1>1, <1>2, <1>3, <1>4, <1>5, <1>6 DEF Stored, NewDirs

(* taking an entry and all below it away,                                  *)
LEMMA RemoveStored ==
  ASSUME TreeInv, Stored, NEW p \in Path, tree' = Without(tree, p), data' = data
  PROVE  Stored' /\ NewDirs
<1>1. DOMAIN tree' \subseteq DOMAIN tree /\ \A q \in DOMAIN tree' : tree'[q] = tree[q]
  BY DEF Without
<1>2. Closed(tree)'
  BY WithoutIsClosed DEF Stored, TreeInv
<1> QED
  BY <1>1, <1>2 DEF Stored, NewDirs

(* moving an entry and all below it,                                       *)
LEMMA RenameStored ==
  ASSUME TreeInv, Stored, NEW from \in Path, NEW to \in Path, from # <<>>, to # <<>>,
         RenameError(tree, from, to) = "ok", tree' = Renamed(tree, from, to), data' = data
  PROVE  Stored' /\ NewDirs
<1>1. Closed(tree)'
  BY RenamedIsClosed DEF Stored, TreeInv
<1>2. /\ \A q \in DOMAIN tree' : /\ Origin(q, from, to) \in DOMAIN tree
                                 /\ tree'[q] = tree[Origin(q, from, to)]
      /\ \A q, r \in DOMAIN tree' : Origin(q, from, to) = Origin(r, from, to) => q = r
  BY RenamedFrom DEF TreeInv
<1> QED
  BY <1>1, <1>2 DEF Stored, NewDirs

---------------------------------------------------------------------------
(* So does every call.                                                     *)

LEMMA MakeDirStored ==
  ASSUME TreeInv, Stored, NEW p, MakeDir(p)
  PROVE  Stored' /\ NewDirs
<1>1. MkdirError(tree, p) = "ok" /\ FreeIds # {}
  BY DEF MakeDir, OrNoSpace
<1>2. p \notin DOMAIN tree /\ ParentError(tree, p) = "ok"
  BY <1>1 DEF MkdirError
<1> QED
  BY <1>1, <1>2, AddStored DEF MakeDir

(* opening a file for writing,                                             *)
LEMMA CreateStored ==
  ASSUME TreeInv, Stored, NEW p, Create(p)
  PROVE  Stored' /\ NewDirs /\ p \in DOMAIN tree' /\ ~tree'[p].dir
<1>1. CASE p \in DOMAIN tree
  <2>1. ~tree[p].dir
    BY <1>1 DEF Create, CreationError, CreateError
  <2>2. \A q \in DOMAIN tree : tree[q].id = tree[p].id => ~tree[q].dir
    BY <1>1, <2>1 DEF Stored
  <2>3. tree' = tree /\ data' = [data EXCEPT ![tree[p].id] = <<>>]
    BY <1>1 DEF Create
  <2> QED
    BY <1>1, <2>1, <2>2, <2>3, WriteStored
<1>2. CASE p \notin DOMAIN tree
  <2>1. CreateError(tree, p) = "ok" /\ FreeIds # {}
    BY <1>2 DEF Create, CreationError, OrNoSpace
  <2>2. ParentError(tree, p) = "ok"
    BY <2>1 DEF CreateError
  <2>3. tree' = With(tree, p, NewNode(FALSE)) /\ data' = [data EXCEPT ![tree'[p].id] = <<>>]
    BY <1>2 DEF Create
  <2>4. p \in DOMAIN tree'
    BY <2>3 DEF With
  <2> QED
    BY <1>2, <2>1, <2>2, <2>3, <2>4, AddStored
<1> QED
  BY <1>1, <1>2

(* changing a mode,                                                        *)
LEMMA ChmodStored ==
  ASSUME TreeInv, Stored, NEW p, NEW mode, Chmod(p, mode)
  PROVE  Stored' /\ NewDirs
<1>1. tree' = [tree EXCEPT ![p].mode = mode] /\ data' = data
  BY DEF Chmod
<1>2. DOMAIN tree' = DOMAIN tree /\ \A q \in DOMAIN tree : q # p => tree'[q] = tree[q]
  BY <1>1
<1>3. p \in DOMAIN tree => /\ Fields \subseteq DOMAIN tree'[p]
                           /\ tree'[p].dir = tree[p].dir /\ tree'[p].id = tree[p].id
  BY <1>1 DEF TreeInv, Stored, Fields
<1> QED
  BY <1>1, <1>2, <1>3, AlterStored

(* and every step of a request.                                            *)
LEMMA StepStored ==
  ASSUME Inv, Stored, NEW h, NEW c, Safe(c), OpenFile(c),
         Writes(h, c) \/ Reads(h, c) \/ Fault(h, c)
  PROVE  Stored' /\ NewDirs
<1> USE DEF Inv
<1>1. CASE UNCHANGED fs
  BY <1>1, NothingStored
<1>2. CASE MkdirAll(h, c) \/ Target(h, c) \/ CopyLstat(h, c) \/ CopyOpen(h, c)
           \/ CopyList(h, c) \/ ModPropsLstat(h, c) \/ Reads(h, c) \/ Fault(h, c)
  <2>1. UNCHANGED fs
    BY <1>2 DEF MkdirAll, Target, CopyLstat, CopyOpen, CopyList,
       ModPropsLstat, Reads, Fault, Props, GetOpen, GetStat, GetDir, GetFile, SearchLstat,
       Scan, Fails, Answer, Continue
  <2> QED
    BY <1>1, <2>1
<1>3. CASE Mkdir(h, c)
  BY <1>1, <1>3, MakeDirStored DEF Mkdir, Fails, Answer, Continue
<1>4. CASE PutCreate(h, c)
  BY <1>1, <1>4, CreateStored DEF PutCreate, Fails, Answer
<1>5. CASE PutBody(h, c)
  <2>1. ASSUME NEW off, NEW u, Write(c.tf, off, u) PROVE Stored' /\ NewDirs
    <3>1. \A p \in DOMAIN tree : tree[p].id = c.tf.id => ~tree[p].dir
      BY <1>5 DEF OpenFile, PutBody
    <3> QED
      BY <2>1, <3>1, WriteStored DEF Write
  <2> QED
    BY <1>1, <1>5, <2>1 DEF PutBody, Answer, Continue
<1>6. CASE CopyDir(h, c)
  BY <1>1, <1>6, MakeDirStored DEF CopyDir, Fails, Answer
<1>7. CASE CopyFile(h, c)
  BY <1>1, <1>7, CreateStored DEF CopyFile, Fails, Answer
<1>8. CASE CopyData(h, c)
  <2>1. ASSUME NEW off, NEW u, Write(c.tf, off, u) PROVE Stored' /\ NewDirs
    <3>1. \A p \in DOMAIN tree : tree[p].id = c.tf.id => ~tree[p].dir
      BY <1>8 DEF OpenFile, CopyData
    <3> QED
      BY <2>1, <3>1, WriteStored DEF Write
  <2> QED
    BY <1>1, <1>8, <2>1 DEF CopyData, Fails, Answer
<1>9. CASE CopyChmod(h, c)
  BY <1>1, <1>9, ChmodStored DEF CopyChmod, Fails, Answer
<1>10. CASE Rename(h, c)
  <2>1. CASE RenameError(tree, c.from, c.to) = "ok" /\ tree' = Renamed(tree, c.from, c.to)
             /\ UNCHANGED data
    <3>1. c.act = "rename"
      BY <1>10 DEF Rename
    <3>2. /\ c.to # <<>> /\ c.to \in Path /\ c.from \in Path /\ c.from # <<>>
      BY <3>1, RootIsPath, BelowIsOnTheWay DEF Safe, Within, OnTheWay, Path
    <3> QED
      BY <2>1, <3>2, RenameStored
  <2> QED
    BY <1>1, <1>10, <2>1 DEF Rename, Fails, Answer
<1>11. CASE RemoveAll(h, c) \/ Rmdir(h, c)
  <2>1. ASSUME Removes(h, c.to) PROVE Stored' /\ NewDirs
    BY <2>1, RemoveStored DEF Removes, Safe
  <2> QED
    BY <1>1, <1>11, <2>1 DEF RemoveAll, Rmdir, Answer, Continue
<1>12. CASE SetMode(h, c)
  BY <1>1, <1>12, ChmodStored DEF SetMode, Answer, Continue
<1>13. CASE SetOwner(h, c)
  <2>1. ASSUME NEW uid, NEW gid, data' = data,
               tree' = [tree EXCEPT ![c.to].owner = uid, ![c.to].group = gid]
        PROVE  Stored' /\ NewDirs
    <3> DEFINE p == c.to
    <3>1. DOMAIN tree' = DOMAIN tree /\ \A q \in DOMAIN tree : q # p => tree'[q] = tree[q]
      BY <2>1
    <3>2. p \in DOMAIN tree => /\ Fields \subseteq DOMAIN tree'[p]
                               /\ tree'[p].dir = tree[p].dir /\ tree'[p].id = tree[p].id
      BY <2>1 DEF TreeInv, Stored, Fields
    <3> HIDE DEF p
    <3> QED
      BY <2>1, <3>1, <3>2, AlterStored
  <2>2. \/ UNCHANGED fs
        \/ /\ data' = data
           /\ \E uid, gid : tree' = [tree EXCEPT ![c.to].owner = uid, ![c.to].group = gid]
    <3> DEFINE uid == IF req[h].owner = "" THEN c.fi.owner ELSE req[h].owner
               gid == IF req[h].group = "" THEN c.fi.group ELSE req[h].group
    <3>1. \/ UNCHANGED fs
          \/ /\ data' = data
             /\ tree' = [tree EXCEPT ![c.to].owner = uid, ![c.to].group = gid]
      BY <1>13 DEF SetOwner, Answer, Continue
    <3> HIDE DEF uid, gid
    <3> QED
      BY <3>1
  <2> QED
    BY <1>1, <2>1, <2>2
<1> QED
  BY <1>2, <1>3, <1>4, <1>5, <1>6, <1>7, <1>8, <1>9, <1>10, <1>11, <1>12, <1>13 DEF Writes

---------------------------------------------------------------------------
(* The files that are open for writing stay files.                         *)

(* What is left of the work.                                               *)
LEMMA ThenLeaves ==
  ASSUME WorkInv, NEW h \in Handlers, status[h] = Serving
  PROVE  /\ \A code : Answer(h, code) => work'[h] = <<>>
         /\ Then(h, <<>>) =>
              \A i \in DOMAIN work'[h] : \E j \in DOMAIN work[h] : work'[h][i] = work[h][j]
         /\ \A d : Then(h, <<d>>) =>
              \A i \in DOMAIN work'[h] :
                work'[h][i] = d \/ \E j \in DOMAIN work[h] : work'[h][i] = work[h][j]
<1> DEFINE S == {work[h][i] : i \in DOMAIN work[h]}
<1>1. work[h] \in Seq(S) /\ work[h] # <<>> /\ DOMAIN work = Handlers
  BY DEF WorkInv, SafeWork
<1>2. \A x \in S : \E j \in DOMAIN work[h] : x = work[h][j]
  OBVIOUS
<1> HIDE DEF S
<1>3. Tail(work[h]) \in Seq(S)
  BY <1>1
<1>4. \A code : Answer(h, code) => work'[h] = <<>>
  BY <1>1 DEF Answer
<1>5. ASSUME Then(h, <<>>), NEW i \in DOMAIN work'[h]
      PROVE  \E j \in DOMAIN work[h] : work'[h][i] = work[h][j]
  <2>1. work'[h] = Tail(work[h])
    BY <1>1, <1>3, <1>5 DEF Then
  <2> QED
    BY <1>2, <1>3, <1>5, <2>1
<1>6. ASSUME NEW d, Then(h, <<d>>), NEW i \in DOMAIN work'[h]
      PROVE  work'[h][i] = d \/ \E j \in DOMAIN work[h] : work'[h][i] = work[h][j]
  <2> DEFINE t == Tail(work[h])
             w == <<d>> \o t
  <2>1. work'[h] = w
    BY <1>1, <1>6 DEF Then
  <2>2. w \in Seq({d} \cup S)
    <3>1. t \in Seq({d} \cup S) /\ <<d>> \in Seq({d} \cup S)
      BY <1>3
    <3> HIDE DEF t
    <3> QED
      BY <3>1
  <2> HIDE DEF w
  <2>3. work'[h][i] \in {d} \cup S
    BY <1>6, <2>1, <2>2
  <2> QED
    BY <1>2, <2>3
<1> QED
  BY <1>4, <1>5, <1>6

(* A file that was open is not what a directory is that was made since.    *)
LEMMA OpenStays ==
  ASSUME NewDirs, NEW h \in Handlers, NEW j \in DOMAIN work[h], NEW c, c = work[h][j], OpenFile(c)
  PROVE  OpenFile(c)'
<1>1. c.tf.id \in OpenIds(work[h])
  BY DEF OpenIds
<1>2. c.tf.id \notin FreeIds
  BY <1>1 DEF FreeIds
<1>3. ASSUME c.act \in {"body", "copy"}, NEW p \in DOMAIN tree', tree'[p].id = c.tf.id
      PROVE  ~tree'[p].dir
  BY <1>2, <1>3 DEF NewDirs, OpenFile
<1> QED
  BY <1>3 DEF OpenFile

(* What os.Create opens is a file.                                         *)
LEMMA CreatedIsFile ==
  ASSUME TreeInv, Stored, NEW p, Create(p), NEW d, d.tf = Created(p)
  PROVE  (\A q \in DOMAIN tree' : tree'[q].id = d.tf.id => ~tree'[q].dir)
<1>1. Stored' /\ p \in DOMAIN tree' /\ ~tree'[p].dir
  BY CreateStored
<1>2. d.tf.id = tree'[p].id
  BY DEF Created
<1> QED
  BY <1>1, <1>2 DEF Stored

(* New calls write to files.                                               *)
LEMMA NewOpenFiles ==
  ASSUME Inv, Stored, NEW h \in Handlers, status[h] = Serving, NEW c, c = work[h][1], Safe(c),
         OpenFile(c), Writes(h, c) \/ Reads(h, c) \/ Fault(h, c),
         NEW i \in DOMAIN work'[h], NEW e, e = work'[h][i]
  PROVE  (\E j \in DOMAIN work[h] : e = work[h][j]) \/ OpenFile(e)'
<1> DEFINE Had(x) == \E j \in DOMAIN work[h] : x = work[h][j]
           New(x) == x.act \in {"body", "copy"} =>
                       \A q \in DOMAIN tree' : tree'[q].id = x.tf.id => ~tree'[q].dir
<1> SUFFICES Had(e) \/ New(e)
  BY DEF OpenFile
<1>0. TreeInv /\ WorkInv
  BY DEF Inv
<1> HIDE DEF Had, New
<1>1. CASE c.act \notin {"create", "body", "copyFile"} \/ Fault(h, c)
  <2>1. CASE Fault(h, c)
    BY <1>0, <2>1, ThenLeaves DEF Fault, Continue, Had
  <2>2. CASE c.act \notin {"create", "body", "copyFile"}
    <3>1. GoesOn(h)
      BY StepGoesOn
    <3>2. PICK w, s : /\ work' = [work EXCEPT ![h] = w]
                      /\ \A k \in DOMAIN w : Follows(work[h][1], w[k])
                                             \/ \E j \in DOMAIN work[h] : w[k] = work[h][j]
      BY <3>1 DEF GoesOn
    <3>3. work'[h] = w
      BY <1>0, <3>2 DEF WorkInv
    <3>4. ASSUME Follows(c, e) PROVE e.act \notin {"body", "copy"}
      BY <2>2, <3>4 DEF Follows, Steps, Looking
    <3> QED
      BY <3>2, <3>3, <3>4 DEF Had, New
  <2> QED
    BY <1>1, <2>1, <2>2
<1>2. CASE PutCreate(h, c)
  <2> DEFINE d == [c EXCEPT !.act = "body", !.tf = Created(c.to)]
  <2>1. CASE Create(c.to) /\ Then(h, <<d>>)
    <3>1. d.tf = Created(c.to)
      BY DEF Safe
    <3>2. e = d \/ Had(e)
      BY <1>0, <2>1, ThenLeaves DEF Had
    <3> HIDE DEF d
    <3>3. New(d)
      BY <1>0, <2>1, <3>1, CreatedIsFile DEF New
    <3> QED
      BY <3>2, <3>3
  <2> QED
    BY <1>0, <1>2, <2>1, ThenLeaves DEF PutCreate, Fails
<1>3. CASE CopyFile(h, c)
  <2> DEFINE d == [c EXCEPT !.act = "copy", !.tf = Created(c.to)]
  <2>1. CASE Create(c.to) /\ Then(h, <<d>>)
    <3>1. d.tf = Created(c.to)
      BY DEF Safe
    <3>2. e = d \/ Had(e)
      BY <1>0, <2>1, ThenLeaves DEF Had
    <3> HIDE DEF d
    <3>3. New(d)
      BY <1>0, <2>1, <3>1, CreatedIsFile DEF New
    <3> QED
      BY <3>2, <3>3
  <2> QED
    BY <1>0, <1>3, <2>1, ThenLeaves DEF CopyFile, Fails
<1>4. CASE PutBody(h, c)
  <2> DEFINE d == [c EXCEPT !.n = @ + 1]
  <2>1. CASE Then(h, <<d>>) /\ tree' = tree
    <3>1. d.tf = c.tf /\ d.act = c.act
      BY DEF Safe
    <3>2. e = d \/ Had(e)
      BY <1>0, <2>1, ThenLeaves DEF Had
    <3> HIDE DEF d
    <3>3. New(d)
      BY <2>1, <3>1 DEF New, OpenFile
    <3> QED
      BY <3>2, <3>3
  <2> QED
    BY <1>0, <1>4, <2>1, ThenLeaves DEF PutBody, Continue, Write, Had
<1>5. c.act \in {"create", "body", "copyFile"} =>
        PutCreate(h, c) \/ CopyFile(h, c) \/ PutBody(h, c) \/ Fault(h, c)
  BY DEF Writes, MkdirAll, Mkdir, Target, CopyLstat, CopyOpen, CopyDir, CopyList, CopyData,
     CopyChmod, Rename, RemoveAll, Rmdir, ModPropsLstat, SetMode, SetOwner,
     Reads, Props, GetOpen, GetStat, GetDir, GetFile, SearchLstat, Scan
<1> QED
  BY <1>1, <1>2, <1>3, <1>4, <1>5

(* What a request begins with has no open files.                           *)
LEMMA PlanOpensNothing ==
  ASSUME NEW r \in Requests, Begin(r) = Serving, NEW i \in DOMAIN Plan(Operation(r), r)
  PROVE  Plan(Operation(r), r)[i].act \notin {"body", "copy"}
<1> DEFINE op == Operation(r)
           own(act) == Call(act, r.path, r.path)
<1>1. op \in Operations
  BY AcceptedRequest
<1> HIDE DEF op
<1>2. CASE op = "put"
  <2>1. Plan(op, r) = <<own("mkdirAll"), own("create")>>
    BY <1>2, Zenon DEF Plan
  <2>2. i = 1 \/ i = 2
    BY <2>1 DEF op
  <2>3. Plan(op, r)[i] \in {own("mkdirAll"), own("create")}
    BY <2>1, <2>2
  <2> QED
    BY <2>3 DEF op, Call
<1>3. CASE op \in {"copy", "rename"}
  <2>1. Plan(op, r) = [j \in DOMAIN r.to |-> Call("copyTo", r.path, r.to[j])]
        \/ Plan(op, r) = [j \in DOMAIN r.to |-> Call("renameTo", r.path, r.to[j])]
    <3>1. CASE op = "copy"
      BY <3>1, Zenon DEF Plan
    <3>2. CASE op = "rename"
      BY <3>2, Zenon DEF Plan
    <3> QED
      BY <1>3, <3>1, <3>2
  <2>2. i \in DOMAIN r.to /\ \E act \in {"copyTo", "renameTo"} :
                               Plan(op, r)[i] = Call(act, r.path, r.to[i])
    BY <2>1 DEF op
  <2> QED
    BY <2>2 DEF op, Call
<1>4. CASE op \notin {"put", "copy", "rename"}
  <2> DEFINE act == IF op = "mkdir" THEN "mkdirAll" ELSE IF op = "delete" THEN "remove" ELSE op
  <2>1. Plan(op, r) = <<own(act)>>
    <3>1. CASE op = "mkdir"
      BY <3>1, Zenon DEF Plan
    <3>2. CASE op = "delete"
      BY <3>2, Zenon DEF Plan
    <3>3. CASE op \notin {"mkdir", "delete"}
      BY <1>4, <3>3, Zenon DEF Plan
    <3> QED
      BY <3>1, <3>2, <3>3
  <2>2. Plan(op, r)[i] = own(act)
    BY <2>1 DEF op
  <2> QED
    BY <1>1, <1>4, <2>2 DEF op, Operations, Call
<1> QED
  BY <1>2, <1>3, <1>4

(* The store is a tree in the beginning.                                   *)
LEMMA StoreInit == Init => Stored /\ OpenInv
<1> SUFFICES ASSUME Init PROVE Stored /\ OpenInv
  OBVIOUS
<1>1. PICK s \in InitialTrees : tree = s.tree /\ data = s.data
  BY DEF Init
<1>2. /\ tree \in [DOMAIN tree -> Node] /\ Closed(tree)
      /\ \A p, q \in DOMAIN tree : tree[p].id = tree[q].id => p = q
      /\ \A p \in DOMAIN tree : tree[p].dir => data[tree[p].id] = <<>>
  BY <1>1, InitialTreesAssumption
<1>3. \A p \in DOMAIN tree : Fields \subseteq DOMAIN tree[p]
  BY <1>2 DEF Node, Fields
<1> QED
  BY <1>2, <1>3 DEF Stored, Init, OpenInv

(* Every step keeps the store a tree, and open files in it.                *)
LEMMA StoreStep ==
  ASSUME Inv, Stored, OpenInv, [Next]_vars
  PROVE  Stored' /\ OpenInv'
<1>0. DOMAIN work = Handlers
  BY DEF Inv, WorkInv
<1>1. ASSUME UNCHANGED fs, NEW h \in Handlers,
             \A g \in Handlers : g # h => work'[g] = work[g],
             \A i \in DOMAIN work'[h] : \/ work'[h][i].act \notin {"body", "copy"}
                                        \/ work'[h] = work[h]
      PROVE  Stored' /\ OpenInv'
  <2>1. Stored' /\ NewDirs
    BY <1>1, NothingStored
  <2>2. ASSUME NEW g \in Handlers, NEW i \in DOMAIN work'[g], NEW c, c = work'[g][i]
        PROVE  OpenFile(c)'
    <3>1. CASE c.act \notin {"body", "copy"}
      BY <3>1 DEF OpenFile
    <3>2. CASE work'[g] = work[g]
      <4>1. i \in DOMAIN work[g] /\ c = work[g][i] /\ OpenFile(c)
        BY <2>2, <3>2 DEF OpenInv
      <4> QED
        BY <2>1, <4>1, OpenStays
    <3> QED
      BY <1>1, <2>2, <3>1, <3>2
  <2> QED
    BY <2>1, <2>2 DEF OpenInv
<1>2. CASE UNCHANGED vars
  <2>1. UNCHANGED fs /\ work' = work
    BY <1>2 DEF vars, fs
  <2>2. CASE Handlers = {}
    BY <2>1, <2>2, NothingStored DEF OpenInv
  <2> QED
    BY <1>1, <2>1, <2>2
<1>3. ASSUME NEW h \in Handlers, Receive(h) PROVE Stored' /\ OpenInv'
  <2>1. PICK r \in Requests :
          work' = [work EXCEPT ![h] = IF Begin(r) = Serving THEN Plan(Operation(r), r) ELSE <<>>]
    BY <1>3 DEF Receive
  <2>2. \A i \in DOMAIN work'[h] : work'[h][i].act \notin {"body", "copy"}
    BY <1>0, <2>1, PlanOpensNothing
  <2>3. \A g \in Handlers : g # h => work'[g] = work[g]
    BY <1>0, <2>1
  <2> QED
    BY <1>1, <1>3, <2>2, <2>3 DEF Receive, fs
<1>4. ASSUME NEW h \in Handlers, Return(h) PROVE Stored' /\ OpenInv'
  BY <1>1, <1>4 DEF Return, fs
<1>5. ASSUME NEW h \in Handlers, status[h] = Serving, Step(h) \/ Fault(h, work[h][1])
      PROVE  Stored' /\ OpenInv'
  <2>1. Safe(work[h][1]) /\ 1 \in DOMAIN work[h]
    <3>1. work[h] # <<>> /\ work[h] \in Seq({work[h][i] : i \in DOMAIN work[h]})
      BY <1>5 DEF Inv, WorkInv, SafeWork
    <3>2. 1 \in DOMAIN work[h]
      BY <3>1
    <3> QED
      BY <1>5, <3>2, FirstCall DEF Inv
  <2>2. PICK c : c = work[h][1]
    OBVIOUS
  <2>3. Safe(c) /\ OpenFile(c) /\ (Writes(h, c) \/ Reads(h, c) \/ Fault(h, c))
    BY <1>5, <2>1, <2>2 DEF Step, OpenInv
  <2>4. Stored' /\ NewDirs
    BY <2>3, StepStored
  <2>5. \A g \in Handlers : g # h => work'[g] = work[g]
    <3>1. GoesOn(h)
      BY <1>5, <2>2, <2>3, StepGoesOn
    <3> QED
      BY <1>0, <3>1 DEF GoesOn
  <2>6. ASSUME NEW g \in Handlers, NEW j \in DOMAIN work[g], NEW e, e = work[g][j]
        PROVE  OpenFile(e)'
    <3>1. OpenFile(e)
      BY <2>6 DEF OpenInv
    <3> QED
      BY <2>4, <2>6, <3>1, OpenStays
  <2>7. ASSUME NEW g \in Handlers, NEW i \in DOMAIN work'[g], NEW e, e = work'[g][i]
        PROVE  OpenFile(e)'
    <3>1. CASE g = h
      <4>1. (\E j \in DOMAIN work[h] : e = work[h][j]) \/ OpenFile(e)'
        BY <1>5, <2>2, <2>3, <2>7, <3>1, NewOpenFiles
      <4> QED
        BY <2>6, <4>1
    <3>2. CASE g # h
      BY <2>5, <2>6, <2>7, <3>2
    <3> QED
      BY <3>1, <3>2
  <2> QED
    BY <2>4, <2>7 DEF OpenInv
<1> QED
  BY <1>2, <1>3, <1>4, <1>5 DEF Next, Step
---------------------------------------------------------------------------
(* The contract's operators are those of the handler.                      *)

LEMMA SamePaths ==
  /\ \A S : Contract!Cardinality(S) = Cardinality(S)
  /\ \A p : Contract!Ancestors(p) = Ancestors(p)
  /\ \A p, d : Contract!Below(p, d) <=> Below(p, d)
  /\ \A p, d : Contract!IsChild(p, d) <=> IsChild(p, d)
  /\ \A t, d : Contract!Children(t, d) = Children(t, d)
<1>1. ASSUME NEW S PROVE Contract!Cardinality(S) = Cardinality(S)
  BY Zenon DEF Cardinality, Contract!Cardinality
<1>2. ASSUME NEW p PROVE Contract!Ancestors(p) = Ancestors(p)
  BY DEF Ancestors, Contract!Ancestors
<1>3. ASSUME NEW p, NEW d PROVE Contract!Below(p, d) <=> Below(p, d)
  BY <1>2 DEF Below, Contract!Below
<1>4. ASSUME NEW p, NEW d PROVE Contract!IsChild(p, d) <=> IsChild(p, d)
  BY <1>2, <1>3 DEF IsChild, Contract!IsChild
<1>5. ASSUME NEW t, NEW d PROVE Contract!Children(t, d) = Children(t, d)
  BY <1>4 DEF Children, Contract!Children
<1> QED
  BY <1>1, <1>2, <1>3, <1>4, <1>5

(* What request r looks for in s, and what is told of p there.             *)
Sought(s, r) == Contract!Matches(s, r)
Told(s, p, ext) == Contract!Described(s, p, ext)
AllTold(s, P) == {Told(s, p, FALSE) : p \in P}

(* What a search is to find: what is below its path, by its name, and by   *)
(* its content if asked for.                                               *)
LEMMA SoughtIs ==
  ASSUME NEW s, NEW r, NEW p
  PROVE  p \in Sought(s, r) <=>
           /\ p \in DOMAIN s /\ Below(p, r.path)
           /\ \E n \in r.names : \E a \in Ancestors(p) : p = a \o <<"/">> \o n
           /\ r.content => ~s[p].dir /\ s[p].data # <<>>
BY SamePaths DEF Sought, Contract!Matches, Contract!File

(* What a search is to find.                                               *)
LEMMA FoundIs ==
  ASSUME NEW s, NEW r, r.max \in Int, NEW found
  PROVE  Contract!Found(s, r, found) <=>
           LET paths == {e.path : e \in found}
               all == Cardinality(Sought(s, r))
           IN /\ paths \subseteq Sought(s, r)
              /\ found = AllTold(s, paths)
              /\ Cardinality(found) = IF all < SearchMax(r) THEN all ELSE SearchMax(r)
              /\ \A p \in paths, q \in Sought(s, r) \ paths : Depth(p) <= Depth(q)
<1>1. MaxSearch \in Nat
  BY HtFileAssumption
<1>2. (IF r.max \in 1..MaxSearch THEN r.max ELSE MaxSearch) = SearchMax(r)
  BY <1>1 DEF SearchMax
<1>3. \A p : Contract!Cardinality(Contract!Ancestors(p)) = Depth(p)
  BY SamePaths DEF Depth
<1>4. \A S : Contract!Cardinality(S) = Cardinality(S)
  BY SamePaths
<1> DEFINE limit == IF r.max \in 1..MaxSearch THEN r.max ELSE MaxSearch
           paths == {e.path : e \in found}
           M == Sought(s, r)
           told == AllTold(s, paths)
           C == Contract!Cardinality(found)
           all == Contract!Cardinality(M)
           D(p) == Contract!Cardinality(Contract!Ancestors(p))
<1>5. Contract!Found(s, r, found) <=>
        /\ paths \subseteq M
        /\ found = told
        /\ C = IF all < limit THEN all ELSE limit
        /\ \A p \in paths, q \in M \ paths : D(p) <= D(q)
  BY Zenon DEF Contract!Found, Sought, Told, AllTold
<1>6. C = Cardinality(found) /\ all = Cardinality(M) /\ limit = SearchMax(r)
      /\ \A p : D(p) = Depth(p)
  BY <1>2, <1>3, <1>4
<1> HIDE DEF limit, paths, M, told, C, all, D
<1>7. Contract!Found(s, r, found) <=>
        /\ paths \subseteq M
        /\ found = told
        /\ Cardinality(found) = IF Cardinality(M) < SearchMax(r) THEN Cardinality(M) ELSE SearchMax(r)
        /\ \A p \in paths, q \in M \ paths : Depth(p) <= Depth(q)
  BY <1>5, <1>6
<1> QED
  BY <1>7 DEF paths, M, told

(* What the answer to a request is to tell.                                *)
LEMMA TellsIs ==
  ASSUME NEW r \in Requests, NEW s, NEW o
  PROVE  /\ Operation(r) = "search" =>
              (Contract!Tells(s, r, o) <=> Contract!Found(s, r, o.found))
         /\ Operation(r) = "props" =>
              (Contract!Tells(s, r, o) <=>
                 o.found = {Told(s, r.path, Contract!Mine(s, r.path))})
         /\ Operation(r) = "get" /\ r.path \in DOMAIN s /\ s[r.path].dir =>
              (Contract!Tells(s, r, o) <=>
                 o.found = {Told(s, q, Contract!Mine(s, q)) : q \in Children(s, r.path)})
         /\ Operation(r) = "get" /\ r.path \in DOMAIN s /\ ~s[r.path].dir =>
              (Contract!Tells(s, r, o) <=>
                 /\ o.size = Len(s[r.path].data)
                 /\ o.body = IF r.method = "HEAD" THEN <<>> ELSE s[r.path].data)
<1> DEFINE op == Operation(r)
<1>1. r.cmds \in Seq(STRING)
  BY HtFileAssumption
<1>2. \A none, allowed :
        LET cmd == Command(r.cmds, allowed, none)
        IN \/ cmd = "badRequest"
           \/ r.cmds = <<>> /\ cmd = none
           \/ cmd \in allowed /\ r.cmds = <<cmd>>
  BY <1>1 DEF Command
<1>3. /\ op = "search" <=> Contract!IsSearch(r)
      /\ op = "props" <=> Contract!IsProps(r)
  <2>a. r.method \in {"GET", "HEAD"} =>
          op = "badRequest" \/ (r.cmds = <<>> /\ op = "get") \/ (op \in GetCmds /\ r.cmds = <<op>>)
    BY <1>2 DEF Operation
  <2>b. r.method = "POST" =>
          op = "badRequest" \/ (r.cmds = <<>> /\ op = "put") \/ op \in PostCmds
    BY <1>2 DEF Operation
  <2>c. r.method \notin {"GET", "HEAD", "POST"} =>
          \/ op \in {"badRequest", "notAllowed"} /\ (r.cmds # <<>> \/ r.method \notin DOMAIN MethodOp)
          \/ r.method \in DOMAIN MethodOp /\ r.cmds = <<>> /\ op = MethodOp[r.method]
    <3>1. CASE r.method \in DOMAIN MethodOp /\ r.cmds = <<>>
      <4>1. Command(r.cmds, {}, MethodOp[r.method]) = MethodOp[r.method]
        BY <3>1 DEF Command
      <4> QED
        BY <3>1, <4>1 DEF Operation
    <3>2. CASE r.method \in DOMAIN MethodOp /\ r.cmds # <<>>
      BY <1>2, <3>2 DEF Operation
    <3>3. CASE r.method \notin DOMAIN MethodOp
      BY <3>3 DEF Operation
    <3> QED
      BY <3>1, <3>2, <3>3
  <2>d. r.method \in {"GET", "HEAD"} => op = Command(r.cmds, GetCmds, "get")
    BY DEF Operation
  <2>e. \A cmd \in GetCmds : r.cmds = <<cmd>> => Command(r.cmds, GetCmds, "get") = cmd
    BY DEF Command
  <2> HIDE DEF op
  <2>1. op = "search" <=> \/ r.method = "SEARCH" /\ r.cmds = <<>>
                          \/ r.method \in {"GET", "HEAD"} /\ r.cmds = <<"search">>
    BY <2>a, <2>b, <2>c, <2>d, <2>e DEF MethodOp, GetCmds, PostCmds
  <2>2. op = "props" <=> \/ r.method = "PROPS" /\ r.cmds = <<>>
                         \/ r.method \in {"GET", "HEAD"} /\ r.cmds = <<"props">>
    BY <2>a, <2>b, <2>c, <2>d, <2>e DEF MethodOp, GetCmds, PostCmds
  <2> QED
    BY <2>1, <2>2 DEF Contract!IsSearch, Contract!IsProps, Contract!Plain, Contract!Gets
<1> QED
  BY <1>3, SamePaths DEF Contract!Tells, Contract!Dir, Told
---------------------------------------------------------------------------
(* What a request is about is still as it was when the request came.       *)

Seen(h) ==
  \A p : About(req[h], p) =>
    /\ p \in DOMAIN before[h] <=> p \in DOMAIN tree
    /\ p \in DOMAIN tree => before[h][p] = View(tree, data)[p]

(* A request is about its path and what is within it.                      *)
LEMMA AboutWithin ==
  ASSUME NEW r, NEW p, Within(p, r.path)
  PROVE  About(r, p)
BY DEF About

(* What is seen there is what was there.                                   *)
LEMMA SeenIsTold ==
  ASSUME Stored, NEW h, Seen(h), NEW p \in DOMAIN tree, Within(p, req[h].path)
  PROVE  LET s == before[h]
         IN /\ p \in DOMAIN s /\ s[p].dir = tree[p].dir /\ s[p].data = data[tree[p].id]
            /\ \A ext : Entry(p, ext) = Told(s, p, ext)
            /\ Owns(p) = Contract!Mine(s, p)
<1> DEFINE s == before[h]
           v == View(tree, data)
<1>1. p \in DOMAIN s /\ s[p] = v[p]
  BY AboutWithin DEF Seen
<1>2. v[p] = [dir |-> tree[p].dir, mode |-> tree[p].mode, owner |-> tree[p].owner,
              group |-> tree[p].group,
              data |-> IF tree[p].dir THEN <<>> ELSE data[tree[p].id]]
  BY DEF View
<1> HIDE DEF v
<1>3. tree[p].dir => data[tree[p].id] = <<>>
  BY DEF Stored
<1>4. /\ s[p].dir = tree[p].dir /\ s[p].mode = tree[p].mode /\ s[p].owner = tree[p].owner
      /\ s[p].group = tree[p].group /\ s[p].data = data[tree[p].id]
  BY <1>1, <1>2, <1>3
<1> HIDE DEF s
<1>5. \A ext : Entry(p, ext) = Told(s, p, ext)
  BY <1>4 DEF Entry, Told, Contract!Described
<1>6. Owns(p) = Contract!Mine(s, p)
  BY <1>4 DEF Owns, Contract!Mine
<1> QED
  BY <1>1, <1>4, <1>5, <1>6 DEF s

(* The name of an entry is what comes after its directory and a slash: what*)
(* has no slash in it, and only then.                                      *)
LEMMA NameOfEntry ==
  ASSUME NEW q \in Path, NEW d \in Path, IsChild(q, d),
         NEW n \in Path, \A i \in DOMAIN n : n[i] # "/"
  PROVE  SubSeq(q, Len(d) + 2, Len(q)) = n <=> \E a \in Ancestors(q) : q = a \o <<"/">> \o n
<1>1. OnTheWay(d, q) /\ Below(q, d)
  BY BelowIsOnTheWay DEF IsChild
<1>2. Len(d) \in Nat /\ Len(q) \in Nat /\ Len(n) \in Nat /\ Len(d) + 1 <= Len(q)
  BY <1>1 DEF OnTheWay, Path
<1> DEFINE m == SubSeq(q, Len(d) + 2, Len(q))
<1>3. m \in Path /\ Len(m) = Len(q) - Len(d) - 1 /\ \A i \in 1..Len(m) : m[i] = q[Len(d) + 1 + i]
  BY <1>2 DEF Path
<1> HIDE DEF m
<1>4. "/" \in Char
  <2>1. q[Len(d) + 1] \in Char
    BY <1>2 DEF Path
  <2> QED
    BY <1>1, <2>1 DEF OnTheWay
<1>5. ASSUME NEW a \in Path
      PROVE  LET x == a \o <<"/">> \o n
             IN /\ x \in Path /\ Len(x) = Len(a) + 1 + Len(n)
                /\ \A i \in 1..Len(a) : x[i] = a[i]
                /\ x[Len(a) + 1] = "/"
                /\ \A i \in 1..Len(n) : x[Len(a) + 1 + i] = n[i]
  <2> DEFINE y == a \o <<"/">>
  <2>1. y \in Path /\ Len(y) = Len(a) + 1 /\ Len(a) \in Nat
        /\ (\A i \in 1..Len(a) : y[i] = a[i]) /\ y[Len(a) + 1] = "/"
    BY <1>4 DEF Path
  <2> HIDE DEF y
  <2>2. y \o n \in Path /\ Len(y \o n) = Len(y) + Len(n)
        /\ (\A i \in 1..Len(y) : (y \o n)[i] = y[i])
        /\ (\A i \in 1..Len(n) : (y \o n)[Len(y) + i] = n[i])
    BY <2>1, ConcatPaths
  <2> QED
    BY <1>2, <2>1, <2>2 DEF y
<1>6. ASSUME m = n PROVE \E a \in Ancestors(q) : q = a \o <<"/">> \o n
  <2> DEFINE x == d \o <<"/">> \o n
  <2>1. /\ x \in Path /\ Len(x) = Len(d) + 1 + Len(n) /\ x[Len(d) + 1] = "/"
        /\ \A i \in 1..Len(d) : x[i] = d[i]
        /\ \A i \in 1..Len(n) : x[Len(d) + 1 + i] = n[i]
    BY <1>5
  <2> HIDE DEF x
  <2>2. Len(x) = Len(q)
    BY <1>2, <1>3, <1>6, <2>1
  <2>3. ASSUME NEW i \in 1..Len(q) PROVE q[i] = x[i]
    <3>1. CASE i <= Len(d) + 1
      BY <1>1, <1>2, <2>1, <3>1 DEF OnTheWay
    <3>2. CASE i > Len(d) + 1
      <4> DEFINE k == i - Len(d) - 1
      <4>1. k \in 1..Len(n) /\ i = Len(d) + 1 + k
        BY <1>2, <1>3, <1>6, <3>2
      <4> HIDE DEF k
      <4> QED
        BY <1>3, <1>6, <2>1, <4>1
    <3> QED
      BY <1>2, <3>1, <3>2
  <2>4. q = x
    BY <2>1, <2>2, <2>3, SamePath
  <2> QED
    BY <1>1, <2>4 DEF x, Below
<1>7. ASSUME NEW a \in Ancestors(q), q = a \o <<"/">> \o n PROVE m = n
  <2>1. a \in Path /\ OnTheWay(a, q) /\ Len(a) \in Nat
    BY AncestorsOfPath, BelowIsOnTheWay DEF Below, Path
  <2>2. /\ Len(q) = Len(a) + 1 + Len(n)
        /\ \A i \in 1..Len(n) : q[Len(a) + 1 + i] = n[i]
    BY <1>5, <1>7, <2>1
  <2>3. Len(a) <= Len(d)
    BY DEF IsChild
  <2>4. ASSUME Len(a) < Len(d) PROVE FALSE
    <3> DEFINE k == Len(d) - Len(a)
    <3>1. k \in 1..Len(n) /\ Len(d) + 1 = Len(a) + 1 + k
      BY <1>2, <2>1, <2>2, <2>4
    <3>2. DOMAIN n = 1..Len(n)
      BY DEF Path
    <3>3. q[Len(d) + 1] = "/"
      BY <1>1 DEF OnTheWay
    <3> HIDE DEF k
    <3>4. q[Len(a) + 1 + k] = n[k] /\ n[k] # "/"
      BY <2>2, <3>1, <3>2
    <3> QED
      BY <3>1, <3>3, <3>4
  <2>5. Len(a) = Len(d)
    BY <1>2, <2>1, <2>3, <2>4
  <2>6. Len(m) = Len(n) /\ \A i \in 1..Len(m) : m[i] = n[i]
    BY <1>2, <1>3, <2>2, <2>5
  <2> QED
    BY <1>3, <2>6, SamePath
<1> QED
  BY <1>6, <1>7 DEF m

(* The entries that the search finds in a directory are those that are     *)
(* sought.                                                                 *)
LEMMA FindsSought ==
  ASSUME TreeInv, Stored, NEW h, req[h] \in Requests, Seen(h), NEW d \in Path,
         Within(d, req[h].path)
  PROVE  /\ {q \in Children(tree, d) : Finds(req[h], q, d)}
              = EntriesOf(Sought(before[h], req[h]), d)
         /\ Sought(before[h], req[h]) \subseteq DOMAIN tree
<1> DEFINE r == req[h]
           s == before[h]
<1>1. r.path \in Path /\ \A n \in r.names : n \in Path /\ \A i \in DOMAIN n : n[i] # "/"
  BY HtFileAssumption
<1>2. ASSUME NEW q \in Sought(s, r) PROVE q \in DOMAIN tree
  BY <1>2, SoughtIs, AboutWithin DEF Seen, Within
<1>3. ASSUME NEW q \in DOMAIN tree, IsChild(q, d)
      PROVE  Finds(r, q, d) <=> q \in Sought(s, r)
  <2>1. q \in Path /\ Below(q, d)
    BY <1>3 DEF TreeInv, IsChild
  <2>2. Below(q, r.path)
    <3>1. Within(q, r.path) /\ Below(q, d)
      BY <1>1, <2>1, WithinTransitive DEF Within
    <3>2. q # r.path
      BY <1>1, <2>1, BelowIsLonger DEF Within
    <3> QED
      BY <3>1, <3>2 DEF Within
  <2>3. q \in DOMAIN s /\ s[q].dir = tree[q].dir /\ s[q].data = data[tree[q].id]
    BY <2>2, SeenIsTold DEF Within
  <2> DEFINE m == SubSeq(q, Len(d) + 2, Len(q))
             Ends(n) == \E a \in Ancestors(q) : q = a \o <<"/">> \o n
  <2>4. \A n \in r.names : m = n <=> Ends(n)
    BY <1>1, <1>3, <2>1, NameOfEntry
  <2>5. Finds(r, q, d) <=> m \in r.names /\ (r.content => ~s[q].dir /\ s[q].data # <<>>)
    BY <2>3, Zenon DEF Finds
  <2>6. q \in Sought(s, r) <=>
          /\ q \in DOMAIN s /\ Below(q, r.path)
          /\ \E n \in r.names : Ends(n)
          /\ r.content => ~s[q].dir /\ s[q].data # <<>>
    BY SoughtIs, Zenon
  <2> HIDE DEF r, s, m, Ends
  <2> QED
    BY <2>2, <2>3, <2>4, <2>5, <2>6, Zenon
<1> QED
  BY <1>2, <1>3 DEF Children, EntriesOf
---------------------------------------------------------------------------
(* A search has found what is sought in the directories that it has been   *)
(* through; what it has not found is in those that are left.               *)

Dirs(w) == [i \in DOMAIN w |-> w[i].to]

Scans(s) == [i \in DOMAIN s |-> Call("scan", s[i], s[i])]

(* What is left to scan when the first directory is done, which contains s.*)
LeftToScan(w, s) == Tail(w) \o Scans(s)

ScansOf(P) == {Call("scan", p, p) : p \in P}

FoundPaths(h) == {e.path : e \in out[h].found}

SearchInv(h) ==
  /\ \A i \in DOMAIN work[h] : work[h][i].act = "scan" /\ Within(work[h][i].to, req[h].path)
  /\ out[h].found = AllTold(before[h], FoundPaths(h))
  /\ Cardinality(FoundPaths(h)) < SearchMax(req[h])
  /\ BreadthFirst(Sought(before[h], req[h]), FoundPaths(h), Dirs(work[h]))

OutInv == DOMAIN out = Handlers /\ \A h \in Handlers : DOMAIN out[h] = DOMAIN NoOut

(* As much is told as there are paths.                                     *)
LEMMA ToldOfEach ==
  ASSUME NEW s, NEW P, IsFiniteSet(P), NEW found, found = AllTold(s, P)
  PROVE  {e.path : e \in found} = P /\ Cardinality(found) = Cardinality(P)
<1>1. \A q : Told(s, q, FALSE).path = q
  BY DEF Told, Contract!Described
<1> DEFINE f == [q \in P |-> Told(s, q, FALSE)]
<1>2. {e.path : e \in found} = P
  BY <1>1 DEF AllTold
<1>3. f \in Bijection(P, found)
  <2>1. f \in [P -> found] /\ (\A e \in found : \E q \in P : f[q] = e)
    BY DEF AllTold
  <2>2. \A p, q \in P : f[p] = f[q] => p = q
    <3> SUFFICES ASSUME NEW p \in P, NEW q \in P, f[p] = f[q] PROVE p = q
      OBVIOUS
    <3>1. Told(s, p, FALSE) = Told(s, q, FALSE)
      OBVIOUS
    <3>2. Told(s, p, FALSE).path = p /\ Told(s, q, FALSE).path = q
      BY <1>1
    <3> QED
      BY <3>1, <3>2
  <2> HIDE DEF f
  <2> QED
    BY <2>1, <2>2 DEF Bijection, Injection, Surjection, IsInjective
<1>4. Cardinality(found) = Cardinality(P)
  <2> HIDE DEF f
  <2> QED
    BY <1>3, FS_Bijection DEF ExistsBijection
<1> QED
  BY <1>2, <1>4

(* A finite set in some order has each of its elements once.               *)
LEMMA OrderHasEach ==
  ASSUME NEW S, IsFiniteSet(S), NEW s \in SetToSeqs(S)
  PROVE  /\ s \in Seq(S) /\ DOMAIN s = 1..Len(s)
         /\ \A i, j \in 1..Len(s) : s[i] = s[j] => i = j
         /\ \A x : x \in S <=> \E i \in 1..Len(s) : x = s[i]
<1> DEFINE D == 1..Cardinality(S)
<1>1. Cardinality(S) \in Nat
  BY FS_CardinalityType
<1>2. s \in [D -> S] /\ \A i, j \in D : i # j => s[i] # s[j]
  BY DEF SetToSeqs
<1>3. s \in Seq(S) /\ Len(s) = Cardinality(S) /\ DOMAIN s = D
  BY <1>1, <1>2
<1>4. IsFiniteSet(D) /\ Cardinality(D) = Cardinality(S)
  BY <1>1, FS_Interval
<1> HIDE DEF D
<1>5. s \in Injection(D, S)
  BY <1>2 DEF Injection, IsInjective
<1>6. s \in Surjection(D, S)
  BY <1>4, <1>5, FS_Injection
<1> QED
  BY <1>2, <1>3, <1>6 DEF Surjection, D

(* The directories of calls.                                               *)
LEMMA DirsOf ==
  ASSUME NEW S, NEW w \in Seq(S), \A c \in S : c.to \in Path
  PROVE  /\ Dirs(w) \in Seq(Path) /\ Len(Dirs(w)) = Len(w)
         /\ \A i \in 1..Len(w) : Dirs(w)[i] = w[i].to
<1>1. Len(w) \in Nat /\ DOMAIN w = 1..Len(w) /\ \A i \in 1..Len(w) : w[i] \in S
  OBVIOUS
<1>2. Dirs(w) \in [1..Len(w) -> Path] /\ \A i \in 1..Len(w) : Dirs(w)[i] = w[i].to
  BY <1>1 DEF Dirs
<1>3. \A n \in Nat : [1..n -> Path] \subseteq Seq(Path)
  OBVIOUS
<1>4. Dirs(w) \in Seq(Path)
  BY <1>1, <1>2, <1>3
<1>5. DOMAIN Dirs(w) = 1..Len(w)
  BY <1>2
<1> QED
  BY <1>1, <1>2, <1>4, <1>5

(* The directories that are left when the first is done and others follow. *)
LEMMA DirsLeft ==
  ASSUME NEW S, NEW w \in Seq(S), w # <<>>, \A c \in S : c.to \in Path,
         NEW D, D \subseteq Path, NEW s \in Seq(D), NEW left, left = LeftToScan(w, s)
  PROVE  /\ left \in Seq(S \cup ScansOf(D))
         /\ Dirs(w) \in Seq(Path) /\ Len(Dirs(w)) = Len(w) /\ Dirs(w)[1] = w[1].to
         /\ Dirs(left) \in Seq(Path) /\ Advanced(Dirs(w), Len(s), s, Dirs(left))
<1> DEFINE t == Tail(w)
           cs == Scans(s)
           C == ScansOf(D)
           n == Len(w) - 1
<1>1. t \in Seq(S) /\ Len(t) = n /\ n \in Nat /\ \A i \in 1..n : t[i] = w[i + 1]
  OBVIOUS
<1>b. cs \in Seq(C) /\ Len(cs) = Len(s) /\ \A i \in 1..Len(s) : cs[i] = Call("scan", s[i], s[i])
  BY DEF Scans, ScansOf
<1>2. cs \in Seq(C) /\ t \in Seq(S) /\ Len(cs) = Len(s)
      /\ \A i \in 1..Len(s) : cs[i] = Call("scan", s[i], s[i])
  BY <1>1, <1>b
<1>3. \A c \in S \cup C : c.to \in Path
  BY DEF Call, ScansOf
<1> HIDE DEF t, cs, C
<1>4. /\ t \o cs \in Seq(S \cup C) /\ Len(t \o cs) = n + Len(s)
      /\ \A i \in 1..n : (t \o cs)[i] = t[i]
      /\ \A i \in 1..Len(s) : (t \o cs)[n + i] = cs[i]
  <2> DEFINE T == S \cup C
  <2>0. t \in Seq(T) /\ cs \in Seq(T)
    BY <1>2
  <2> HIDE DEF T
  <2>1. t \o cs \in Seq(T) /\ Len(t \o cs) = Len(t) + Len(cs)
        /\ (\A i \in 1..Len(t) : (t \o cs)[i] = t[i])
        /\ (\A i \in 1..Len(cs) : (t \o cs)[Len(t) + i] = cs[i])
    BY <2>0
  <2> HIDE DEF n
  <2> QED
    BY <1>1, <1>2, <2>1 DEF T
<1>5. left = t \o cs
  BY DEF t, cs, LeftToScan
<1> HIDE DEF n
<1>6. /\ left \in Seq(S \cup C) /\ Len(left) = n + Len(s) /\ DOMAIN left = 1..n + Len(s)
      /\ \A i \in 1..n : left[i] = w[i + 1]
      /\ \A i \in 1..Len(s) : left[n + i] = Call("scan", s[i], s[i])
  <2>1. left \in Seq(S \cup C) /\ Len(left) = n + Len(s)
    BY <1>4, <1>5
  <2>2. DOMAIN left = 1..Len(left)
    BY <2>1
  <2> QED
    BY <1>1, <1>2, <1>4, <1>5, <2>1, <2>2
<1>7. /\ Dirs(w) \in Seq(Path) /\ Len(Dirs(w)) = Len(w) /\ Dirs(w)[1] = w[1].to
      /\ \A i \in 1..Len(w) : Dirs(w)[i] = w[i].to
  BY DirsOf
<1>8. /\ Dirs(left) \in Seq(Path) /\ Len(Dirs(left)) = n + Len(s)
      /\ \A i \in 1..n + Len(s) : Dirs(left)[i] = left[i].to
  <2> DEFINE T == S \cup C
  <2>1. left \in Seq(T) /\ \A c \in T : c.to \in Path
    BY <1>3, <1>6
  <2> HIDE DEF T
  <2>2. /\ Dirs(left) \in Seq(Path) /\ Len(Dirs(left)) = Len(left)
        /\ \A i \in 1..Len(left) : Dirs(left)[i] = left[i].to
    BY <2>1, DirsOf
  <2> QED
    BY <1>6, <2>2
<1>9. /\ \A i \in 1..n : i \in 1..n + Len(s) /\ i + 1 \in 1..Len(w)
      /\ \A i \in 1..Len(s) : n + i \in 1..n + Len(s)
  BY <1>1 DEF n
<1>10. \A p : Call("scan", p, p).to = p
  BY DEF Call
<1>11. \A i \in 1..n : Dirs(left)[i] = Dirs(w)[i + 1]
  <2> TAKE i \in 1..n
  <2>1. Dirs(left)[i] = left[i].to /\ Dirs(w)[i + 1] = w[i + 1].to
    BY <1>7, <1>8, <1>9
  <2>2. left[i] = w[i + 1]
    BY <1>6
  <2> QED
    BY <2>1, <2>2
<1>12. \A i \in 1..Len(s) : Dirs(left)[n + i] = s[i]
  BY <1>6, <1>8, <1>9, <1>10
<1>13. Advanced(Dirs(w), Len(s), s, Dirs(left))
  <2>1. n = Len(Dirs(w)) - 1
    BY <1>7 DEF n
  <2> QED
    BY <1>8, <1>11, <1>12, <2>1 DEF Advanced
<1> QED
  BY <1>6, <1>7, <1>8, <1>13 DEF C

(* When the search has been through its first directory, it goes on with   *)
(* the ones that this contains, o, after those that were left.             *)
LEMMA NextToScan ==
  ASSUME NEW t, Closed(t), DOMAIN t \subseteq Path, IsFiniteSet(DOMAIN t),
         NEW S, NEW w \in Seq(S), w # <<>>, \A c \in S : c.to \in Path,
         NEW d, d = w[1].to, NEW M, M \subseteq DOMAIN t, NEW P, BreadthFirst(M, P, Dirs(w)),
         NEW dirs, \A q : q \in dirs <=> q \in Children(t, d) /\ t[q].dir,
         NEW o, o \in SetToSeqs(dirs), NEW left, left = LeftToScan(w, o)
  PROVE  /\ left \in Seq(S \cup ScansOf(dirs))
         /\ BreadthFirst(M, P \cup EntriesOf(M, d), Dirs(left))
<1>1. IsFiniteSet(dirs) /\ dirs \subseteq Path
  <2>1. dirs \subseteq DOMAIN t
    BY DEF Children
  <2> QED
    BY <2>1, FS_Subset
<1>2. /\ o \in Seq(dirs)
      /\ \A i, j \in 1..Len(o) : o[i] = o[j] => i = j
      /\ \A x : x \in dirs <=> \E i \in 1..Len(o) : x = o[i]
  BY <1>1, OrderHasEach
<1>3. o \in Seq(Path) /\ Len(o) \in Nat /\ o \in [1..Len(o) -> Path]
  BY <1>1, <1>2
<1> DEFINE ds == Dirs(w)
           es == Dirs(left)
<1>4. /\ left \in Seq(S \cup ScansOf(dirs))
      /\ ds \in Seq(Path) /\ Len(ds) = Len(w) /\ ds[1] = d
      /\ es \in Seq(Path) /\ Advanced(ds, Len(o), o, es)
  <2>1. dirs \subseteq Path
    BY <1>1
  <2>2. o \in Seq(dirs)
    BY <1>2
  <2>3. /\ Dirs(w) \in Seq(Path) /\ Len(Dirs(w)) = Len(w) /\ Dirs(w)[1] = w[1].to
        /\ left \in Seq(S \cup ScansOf(dirs)) /\ Dirs(left) \in Seq(Path)
        /\ Advanced(Dirs(w), Len(o), o, Dirs(left))
    BY <2>1, <2>2, DirsLeft
  <2> QED
    BY <2>3
<1>5. \A x : (x \in Children(t, d) /\ t[x].dir) <=> \E i \in 1..Len(o) : x = o[i]
  BY <1>2
<1>6. BreadthFirst(M, P, ds) /\ Len(w) # 0
  OBVIOUS
<1> HIDE DEF ds, es
<1>7. ds # <<>>
  BY <1>4, <1>6
<1>8. BreadthFirst(M, P \cup EntriesOf(M, ds[1]), es)
  <2>1. \A x : (x \in Children(t, ds[1]) /\ t[x].dir) <=> \E i \in 1..Len(o) : x = o[i]
    BY <1>4, <1>5
  <2>2. ds \in Seq(Path) /\ es \in Seq(Path) /\ Advanced(ds, Len(o), o, es)
    BY <1>4
  <2>3. \A i, j \in 1..Len(o) : o[i] = o[j] => i = j
    BY <1>2
  <2> QED
    BY <1>3, <1>6, <1>7, <2>1, <2>2, <2>3, NextDirectory
<1> QED
  BY <1>4, <1>8 DEF es

(* The search goes on with the entries of its first directory.             *)
LEMMA ScanGoesOn ==
  ASSUME Inv, Stored, OutInv, NEW h \in Handlers, status[h] = Serving, req[h] \in Requests,
         Seen(h), SearchInv(h), Scan(h, work[h][1]), req' = req, before'[h] = before[h]
  PROVE  \/ status'[h] = 200 /\ Contract!Found(before[h], req[h], out'[h].found)
         \/ status'[h] = Serving /\ SearchInv(h)'
<1> DEFINE c == work[h][1]
           r == req[h]
           s == before[h]
           d == c.to
           M == Sought(s, r)
           P == FoundPaths(h)
           K == EntriesOf(M, d)
           ds == Dirs(work[h])
           dirs == {q \in Children(tree, d) : tree[q].dir}
           rest(o) == LeftToScan(work[h], o)
           S == {work[h][i] : i \in DOMAIN work[h]}
<1>1. r.path \in Path /\ r.max \in Int /\ SearchMax(r) \in Nat /\ IsFiniteSet(DOMAIN tree)
      /\ DOMAIN tree \subseteq Path /\ Closed(tree)
  BY HtFileAssumption DEF SearchMax, Inv, TreeInv, Stored
<1>2. /\ work[h] \in Seq(S) /\ work[h] # <<>> /\ 1 \in DOMAIN work[h]
      /\ \A i \in DOMAIN work[h] : Safe(work[h][i])
  <2>1. work[h] \in Seq(S) /\ work[h] # <<>> /\ \A i \in DOMAIN work[h] : Safe(work[h][i])
    BY DEF Inv, WorkInv, SafeWork
  <2> HIDE DEF S
  <2>2. 1 \in DOMAIN work[h]
    BY <2>1
  <2> QED
    BY <2>1, <2>2
<1>3. d \in Path /\ Within(d, r.path) /\ \A x \in S : x.to \in Path
  BY <1>2 DEF Safe, SearchInv
<1>4. ds \in Seq(Path) /\ ds # <<>> /\ ds[1] = d
  <2> HIDE DEF S, ds
  <2>1. ds \in Seq(Path) /\ Len(ds) = Len(work[h]) /\ \A i \in 1..Len(work[h]) : ds[i] = work[h][i].to
    BY <1>2, <1>3, DirsOf DEF ds
  <2> QED
    BY <1>2, <2>1
<1>5. {q \in Children(tree, d) : Finds(r, q, d)} = K /\ M \subseteq DOMAIN tree
  <2> HIDE DEF d
  <2> QED
    BY <1>3, FindsSought DEF Inv
<1>6. IsFiniteSet(M) /\ IsFiniteSet(P) /\ P \subseteq M /\ IsFiniteSet(K) /\ K \cap P = {}
  <2>0. \A q : q \in K <=> q \in M /\ IsChild(q, d)
    BY DEF EntriesOf
  <2>1. P \subseteq M
    BY DEF SearchInv, BreadthFirst
  <2>2. IsFiniteSet(M) /\ IsFiniteSet(P) /\ IsFiniteSet(K)
    BY <1>1, <1>5, <2>0, <2>1, FS_Subset
  <2>3. K \cap P = {}
    BY <2>0, <1>1, <1>4, <1>5, LeftIsDeeper DEF SearchInv
  <2> QED
    BY <2>1, <2>2, <2>3
<1>7. BreadthFirst(M, P, ds) /\ Cardinality(P) < SearchMax(r)
      /\ out[h].found = AllTold(s, P)
  BY DEF SearchInv
<1>8. Cardinality(out[h].found) = Cardinality(P)
  BY <1>6, <1>7, ToldOfEach
<1>9. ASSUME NEW Q, Q \subseteq K, Tells(h, {Entry(q, FALSE) : q \in Q})
      PROVE  /\ out'[h].found = AllTold(s, P \cup Q)
             /\ FoundPaths(h)' = P \cup Q /\ IsFiniteSet(P \cup Q)
             /\ Cardinality(P \cup Q) = Cardinality(P) + Cardinality(Q)
             /\ Cardinality(out'[h].found) = Cardinality(P \cup Q)
  <2>1. \A q \in Q : Entry(q, FALSE) = Told(s, q, FALSE)
    <3> TAKE q \in Q
    <3>1. q \in DOMAIN tree /\ q \in Path /\ Below(q, d)
      BY <1>1, <1>5, <1>9 DEF IsChild, EntriesOf
    <3>2. Within(q, r.path)
      BY <1>1, <1>3, <3>1, WithinTransitive DEF Within
    <3> QED
      BY <3>1, <3>2, SeenIsTold
  <2>2. out'[h].found = out[h].found \cup {Entry(q, FALSE) : q \in Q}
    <3>1. "found" \in DOMAIN out[h] /\ h \in DOMAIN out
      BY DEF OutInv, NoOut
    <3>2. out'[h] = [out[h] EXCEPT !.found = @ \cup {Entry(q, FALSE) : q \in Q}]
      BY <1>9, <3>1 DEF Tells
    <3> QED
      BY <3>1, <3>2
  <2>3. out'[h].found = AllTold(s, P \cup Q)
    <3> HIDE DEF P, s
    <3> QED
      BY <1>7, <2>1, <2>2 DEF AllTold
  <2>4. IsFiniteSet(Q) /\ P \cap Q = {}
    BY <1>6, <1>9, FS_Subset
  <2>5. IsFiniteSet(P \cup Q) /\ Cardinality(P \cup Q) = Cardinality(P) + Cardinality(Q)
    <3> HIDE DEF P
    <3>1. Cardinality(P) \in Nat /\ Cardinality(Q) \in Nat /\ Cardinality(P \cap Q) = 0
      BY <1>6, <2>4, FS_CardinalityType, FS_EmptySet
    <3>2. /\ IsFiniteSet(P \cup Q)
          /\ Cardinality(P \cup Q) = Cardinality(P) + Cardinality(Q) - Cardinality(P \cap Q)
      BY <1>6, <2>4, FS_Union
    <3> QED
      BY <3>1, <3>2
  <2> DEFINE R == P \cup Q
             found == out'[h].found
  <2>6. {e.path : e \in found} = R /\ Cardinality(found) = Cardinality(R)
    <3>1. IsFiniteSet(R) /\ found = AllTold(s, R)
      BY <2>3, <2>5
    <3> HIDE DEF R, found, s
    <3> QED
      BY <3>1, ToldOfEach
  <2>7. FoundPaths(h)' = R
    BY <2>6 DEF FoundPaths
  <2> QED
    BY <2>3, <2>5, <2>6, <2>7
<1>10. Room(h) = SearchMax(r) - Cardinality(P)
  BY <1>8 DEF Room
<1>11. Cardinality(P) \in Nat /\ Cardinality(K) \in Nat
  BY <1>6, FS_CardinalityType
<1>a. ASSUME NEW o, o \in SetToSeqs(dirs), NEW left, left = rest(o)
      PROVE  /\ left \in Seq(S \cup ScansOf(dirs))
             /\ BreadthFirst(M, P \cup K, Dirs(left))
  <2>1. left = LeftToScan(work[h], o) /\ d = work[h][1].to
        /\ \A q : q \in dirs <=> q \in Children(tree, d) /\ tree[q].dir
    BY <1>a
  <2>2. o \in SetToSeqs(dirs)
    BY <1>a
  <2> HIDE DEF c, r, s, d, M, P, S, rest, dirs, ds
  <2>3. BreadthFirst(M, P, Dirs(work[h]))
    BY <1>7 DEF ds
  <2> QED
    BY <1>1, <1>2, <1>3, <1>5, <2>1, <2>2, <2>3, NextToScan DEF K
<1>12. ASSUME Cardinality(K) < Room(h), Tells(h, {Entry(q, FALSE) : q \in K}),
              NEW o \in SetToSeqs(dirs),
              work' = [work EXCEPT ![h] = rest(o)],
              status' = [status EXCEPT ![h] = IF rest(o) = <<>> THEN 200 ELSE @]
       PROVE  \/ status'[h] = 200 /\ Contract!Found(s, r, out'[h].found)
              \/ status'[h] = Serving /\ SearchInv(h)'
  <2> DEFINE R == P \cup K
             left == rest(o)
             es == Dirs(left)
  <2>1. /\ out'[h].found = AllTold(s, R) /\ FoundPaths(h)' = R /\ R \subseteq M
        /\ Cardinality(R) = Cardinality(P) + Cardinality(K)
        /\ Cardinality(out'[h].found) = Cardinality(R)
    BY <1>6, <1>9, <1>12 DEF EntriesOf
  <2>2. Cardinality(R) < SearchMax(r)
    <3> HIDE DEF R, P, K, r
    <3> QED
      BY <1>1, <1>10, <1>11, <1>12, <2>1
  <2>3. /\ left \in Seq(S \cup ScansOf(dirs))
        /\ BreadthFirst(M, R, es)
    BY <1>12, <1>a
  <2>5. work'[h] = left /\ status'[h] = IF left = <<>> THEN 200 ELSE Serving
    BY <1>12 DEF Inv, WorkInv
  <2>7. CASE left = <<>>
    <3>1. es = <<>>
      BY <2>7 DEF Dirs
    <3>2. R = M
      <4>1. \A q \in M : q \in R
        BY <2>3, <3>1 DEF BreadthFirst
      <4> QED
        BY <2>1, <4>1
    <3> HIDE DEF R, M, s, r
    <3>3. {e.path : e \in out'[h].found} = M
      BY <2>1, <3>2 DEF FoundPaths
    <3>4. Contract!Found(s, r, out'[h].found)
      <4> DEFINE found == out'[h].found
                 paths == {e.path : e \in found}
      <4>1. paths = M /\ found = AllTold(s, paths) /\ Cardinality(found) = Cardinality(M)
            /\ Cardinality(M) < SearchMax(r)
        BY <2>1, <2>2, <3>2, <3>3
      <4> HIDE DEF found, paths
      <4>2. /\ paths \subseteq M /\ found = AllTold(s, paths)
            /\ Cardinality(found) = IF Cardinality(M) < SearchMax(r) THEN Cardinality(M) ELSE SearchMax(r)
            /\ \A p \in paths, q \in M \ paths : Depth(p) <= Depth(q)
        BY <4>1
      <4>3. Contract!Found(s, r, found)
        BY <1>1, <4>2, FoundIs DEF M, paths
      <4> QED
        BY <4>3 DEF found
    <3> QED
      BY <2>5, <2>7, <3>4
  <2>8. CASE left # <<>>
    <3>1. \A i \in DOMAIN left : left[i].act = "scan" /\ Within(left[i].to, r.path)
      <4>1. \A x \in S : x.act = "scan" /\ Within(x.to, r.path)
        BY DEF SearchInv
      <4>2. ASSUME NEW p \in dirs
            PROVE  Call("scan", p, p).act = "scan" /\ Within(Call("scan", p, p).to, r.path)
        <5>1. p \in Path /\ Below(p, d)
          BY <1>1 DEF Children, IsChild
        <5>2. Within(p, r.path)
          BY <1>1, <1>3, <5>1, WithinTransitive DEF Within
        <5> QED
          BY <5>2 DEF Call
      <4>3. \A x \in ScansOf(dirs) : x.act = "scan" /\ Within(x.to, r.path)
        <5> HIDE DEF dirs, r
        <5> QED
          BY <4>2 DEF ScansOf
      <4> HIDE DEF left, dirs, r, S
      <4> QED
        BY <2>3, <4>1, <4>3
    <3>2. status'[h] = Serving
      BY <2>5, <2>8
    <3>3. SearchInv(h)'
      <4> HIDE DEF left, R, M, s, r, es
      <4>1. work'[h] = left /\ req'[h] = r /\ before'[h] = s /\ Sought(s, r) = M
            /\ Dirs(left) = es
        BY <2>5 DEF r, s, M, es
      <4>2. SearchMax(r)' = SearchMax(r)
        BY DEF SearchMax, r
      <4> QED
        BY <2>1, <2>2, <2>3, <3>1, <4>1, <4>2 DEF SearchInv
    <3> QED
      BY <3>2, <3>3
  <2> QED
    BY <2>7, <2>8
<1>13. ASSUME Cardinality(K) >= Room(h), NEW Q \in kSubset(Room(h), K),
              Tells(h, {Entry(q, FALSE) : q \in Q}), status' = [status EXCEPT ![h] = 200]
       PROVE  status'[h] = 200 /\ Contract!Found(s, r, out'[h].found)
  <2> DEFINE R == P \cup Q
             found == out'[h].found
  <2>1. Q \subseteq K /\ Cardinality(Q) = Room(h)
    BY <1>13 DEF kSubset
  <2>2. /\ found = AllTold(s, R) /\ FoundPaths(h)' = R /\ R \subseteq M /\ IsFiniteSet(R)
        /\ Cardinality(R) = Cardinality(P) + Cardinality(Q)
        /\ Cardinality(found) = Cardinality(R)
    <3>1. R \subseteq M
      BY <1>6, <2>1 DEF EntriesOf
    <3> QED
      BY <1>9, <1>13, <2>1, <3>1
  <2>3. Cardinality(R) = SearchMax(r)
    <3> HIDE DEF P, R, r
    <3> QED
      BY <1>1, <1>10, <1>11, <2>1, <2>2
  <2>4. Cardinality(M) \in Nat /\ ~(Cardinality(M) < SearchMax(r))
    <3>1. Cardinality(R) <= Cardinality(M) /\ Cardinality(M) \in Nat
      BY <1>6, <2>2, FS_Subset, FS_CardinalityType
    <3> HIDE DEF R, M, r
    <3> QED
      BY <1>1, <2>3, <3>1
  <2>5. ASSUME NEW p \in R, NEW q \in M \ R PROVE Depth(p) <= Depth(q)
    <3>1. Depth(p) <= Depth(d) + 1
      <4>1. CASE p \in P
        BY <1>4, <1>7, <4>1 DEF BreadthFirst
      <4>2. CASE p \in Q
        <5>1. p \in Path /\ IsChild(p, d)
          BY <1>1, <1>5, <2>1, <4>2 DEF EntriesOf
        <5>2. Depth(p) = Depth(d) + 1 /\ Depth(d) \in Nat
          BY <1>3, <5>1, ChildIsDeeperByOne, DepthIsNat
        <5> QED
          BY <5>2
      <4> QED
        BY <4>1, <4>2
    <3>2. Depth(d) + 1 <= Depth(q)
      BY <1>1, <1>4, <1>5, <1>7, LeftIsDeeper
    <3>3. Depth(p) \in Nat /\ Depth(q) \in Nat /\ Depth(d) \in Nat
      BY <1>1, <1>3, <1>5, <2>2, DepthIsNat
    <3> QED
      BY <3>1, <3>2, <3>3
  <2>6. Contract!Found(s, r, found)
    <3>1. {e.path : e \in found} = R
      BY <2>2 DEF FoundPaths
    <3> DEFINE paths == {e.path : e \in found}
    <3> HIDE DEF R, M, s, r, found
    <3>2. /\ paths \subseteq M /\ found = AllTold(s, paths) /\ Cardinality(found) = SearchMax(r)
          /\ \A p \in paths, q \in M \ paths : Depth(p) <= Depth(q)
      BY <2>2, <2>3, <2>5, <3>1
    <3> HIDE DEF paths
    <3>3. /\ paths \subseteq M /\ found = AllTold(s, paths)
          /\ Cardinality(found) = IF Cardinality(M) < SearchMax(r) THEN Cardinality(M) ELSE SearchMax(r)
          /\ \A p \in paths, q \in M \ paths : Depth(p) <= Depth(q)
      BY <2>4, <3>2
    <3> QED
      BY <1>1, <3>3, FoundIs DEF M, paths
  <2>7. status'[h] = 200
    BY <1>13 DEF Inv, WorkInv
  <2> QED
    BY <2>6, <2>7
<1> QED
  <2> DEFINE m == {q \in Children(tree, d) : Finds(r, q, d)}
  <2>1. \/ /\ Cardinality(m) < Room(h)
           /\ Tells(h, {Entry(q, FALSE) : q \in m})
           /\ \E o \in SetToSeqs(dirs) :
                /\ work' = [work EXCEPT ![h] = rest(o)]
                /\ status' = [status EXCEPT ![h] = IF rest(o) = <<>> THEN 200 ELSE @]
        \/ /\ Cardinality(m) >= Room(h)
           /\ \E Q \in kSubset(Room(h), m) : Tells(h, {Entry(q, FALSE) : q \in Q})
           /\ status' = [status EXCEPT ![h] = 200]
    BY Zenon DEF Scan, Scans, LeftToScan
  <2>2. m = K
    BY <1>5
  <2> HIDE DEF m, K, rest, dirs
  <2> QED
    BY <1>12, <1>13, <2>1, <2>2, Zenon
---------------------------------------------------------------------------
(* How far an undisturbed request that only asks has come: it is at its    *)
(* first call, or has opened what it asks for, or searches.                *)

Reading(h) ==
  pure[h] /\ status[h] # Free /\ Operation(req[h]) \in {"get", "props", "search"}

Stage(h) ==
  LET c == work[h][1]
      alone == Len(work[h]) = 1 /\ c.to = req[h].path
      open == Operation(req[h]) = "get" /\ c.to \in DOMAIN tree /\ c.fd = Opened(c.to)
  IN \/ alone /\ c.act = Operation(req[h]) /\ out[h] = NoOut
     \/ alone /\ open /\ c.act = "stat" /\ out[h] = NoOut
     \/ alone /\ open /\ c.act = "readdir" /\ tree[c.to].dir /\ out[h] = NoOut
     \/ /\ alone /\ open /\ c.act = "send" /\ ~tree[c.to].dir /\ req[h].method # "HEAD"
        /\ out[h] = [NoOut EXCEPT !.size = Len(before[h][c.to].data)]
     \/ Operation(req[h]) = "search" /\ SearchInv(h)

Answers(h) ==
  /\ status[h] = Free => out[h] = NoOut
  /\ Reading(h) => /\ req[h] \in Requests /\ Seen(h)
                   /\ status[h] = Serving => Stage(h)
                   /\ status[h] = 200 => Contract!Tells(before[h], req[h], out[h])

AnswersInv ==
  /\ DOMAIN before = Handlers /\ DOMAIN pure = Handlers /\ OutInv
  /\ \A h \in Handlers : Answers(h)

(* The last call of a request, and the call after the only one.            *)
LEMMA OnlyCall ==
  ASSUME WorkInv, NEW h \in Handlers, Len(work[h]) = 1
  PROVE  /\ Then(h, <<>>) => status'[h] = 200
         /\ \A d : Then(h, <<d>>) => work'[h] = <<d>> /\ status'[h] = Serving
<1>1. Tail(work[h]) = <<>>
  <2> DEFINE S == {work[h][i] : i \in DOMAIN work[h]}
  <2>1. work[h] \in Seq(S)
    BY DEF WorkInv, SafeWork
  <2> HIDE DEF S
  <2>2. Tail(work[h]) \in Seq(S) /\ Len(Tail(work[h])) = 0
    BY <2>1
  <2>3. ASSUME NEW s \in Seq(S), Len(s) = 0 PROVE s = <<>>
    BY <2>3
  <2> QED
    BY <2>2, <2>3
<1>2. <<>> \o <<>> = <<>> /\ \A d : <<d>> \o <<>> = <<d>> /\ <<d>> # <<>>
  OBVIOUS
<1>3. Then(h, <<>>) => status'[h] = 200
  BY <1>1, <1>2 DEF Then, WorkInv
<1>4. ASSUME NEW d, Then(h, <<d>>) PROVE work'[h] = <<d>> /\ status'[h] = Serving
  <2>1. work' = [work EXCEPT ![h] = <<d>> \o Tail(work[h])]
        /\ status' = [status EXCEPT ![h] = IF <<d>> \o Tail(work[h]) = <<>> THEN 200 ELSE Serving]
    BY <1>4 DEF Then
  <2>2. <<d>> \o Tail(work[h]) = <<d>> /\ <<d>> # <<>>
    BY <1>1, <1>2
  <2> QED
    BY <2>1, <2>2 DEF WorkInv
<1> QED
  BY <1>3, <1>4

(* A failing call answers with another status.                             *)
LEMMA FailsOtherwise ==
  ASSUME WorkInv, NEW h \in Handlers, NEW err, Fails(h, err)
  PROVE  status'[h] \notin {Serving, 200}
BY DEF Fails, Answer, StatusOf, WorkInv, Serving

(* What others do elsewhere is not seen.                                   *)
LEMMA StillSeen ==
  ASSUME NEW g, Seen(g), req'[g] = req[g], before'[g] = before[g],
         \A p \in DOMAIN tree \cup DOMAIN tree' : Changed(p) => ~About(req[g], p)
  PROVE  /\ Seen(g)'
         /\ \A p \in DOMAIN tree : About(req[g], p) => p \in DOMAIN tree' /\ tree'[p] = tree[p]
<1>1. ASSUME NEW p, About(req[g], p), p \in DOMAIN tree \cup DOMAIN tree'
      PROVE  p \in DOMAIN tree /\ p \in DOMAIN tree' /\ tree'[p] = tree[p]
             /\ View(tree, data)[p] = View(tree', data')[p]
  BY <1>1 DEF Changed
<1>2. Seen(g)'
  <2> SUFFICES ASSUME NEW p, About(req'[g], p)
               PROVE  /\ p \in DOMAIN before'[g] <=> p \in DOMAIN tree'
                      /\ p \in DOMAIN tree' => before'[g][p] = View(tree', data')[p]
    BY DEF Seen
  <2>1. About(req[g], p)
    OBVIOUS
  <2> QED
    BY <1>1, <2>1 DEF Seen
<1> QED
  BY <1>1, <1>2

(* props.                                                                  *)
LEMMA PropsTells ==
  ASSUME Inv, Stored, OutInv, NEW h \in Handlers, status[h] = Serving, req[h] \in Requests,
         Seen(h), Operation(req[h]) = "props", Len(work[h]) = 1, NEW c, c = work[h][1],
         c.to = req[h].path, out[h] = NoOut, Props(h, c)
  PROVE  /\ UNCHANGED fs /\ status'[h] # Serving
         /\ status'[h] = 200 => Contract!Tells(before[h], req[h], out'[h])
<1>1. CASE Fails(h, LookupError(tree, c.to))
  BY <1>1, FailsOtherwise DEF Inv, Fails, Answer
<1>2. CASE Exists(c.to) /\ Tells(h, {Entry(c.to, Owns(c.to))}) /\ Continue(h, <<>>)
  <2>1. UNCHANGED fs /\ status'[h] = 200
    BY <1>2, OnlyCall DEF Inv, Continue
  <2>2. out'[h].found = {Entry(c.to, Owns(c.to))}
    BY <1>2 DEF Tells, OutInv, NoOut
  <2>3. c.to \in DOMAIN tree /\ Within(c.to, req[h].path)
    BY <1>2 DEF Exists, LookupError, Within
  <2>4. Entry(c.to, Owns(c.to)) = Told(before[h], c.to, Contract!Mine(before[h], c.to))
    BY <2>3, SeenIsTold
  <2>5. Contract!Tells(before[h], req[h], out'[h])
    BY <2>2, <2>4, TellsIs
  <2> QED
    BY <2>1, <2>5 DEF Serving
<1> QED
  BY <1>1, <1>2 DEF Props

(* get: what is opened, then its size or its entries, then its content.    *)
LEMMA OpenGoesOn ==
  ASSUME Inv, NEW h \in Handlers, status[h] = Serving, Operation(req[h]) = "get",
         Len(work[h]) = 1, NEW c, c = work[h][1], Safe(c), c.to = req[h].path, out[h] = NoOut,
         GetOpen(h, c), req' = req
  PROVE  UNCHANGED fs /\ status'[h] # 200 /\ (status'[h] = Serving => Stage(h)')
<1>1. CASE Fails(h, LookupError(tree, c.to))
  BY <1>1, FailsOtherwise DEF Inv, Fails, Answer
<1>2. CASE Exists(c.to) /\ Continue(h, <<[c EXCEPT !.act = "stat", !.fd = Opened(c.to)]>>)
  <2> DEFINE e == [c EXCEPT !.act = "stat", !.fd = Opened(c.to)]
  <2>1. e.act = "stat" /\ e.to = c.to /\ e.fd = Opened(c.to)
    BY DEF Safe
  <2> HIDE DEF e
  <2>2. UNCHANGED fs /\ status'[h] = Serving /\ work'[h] = <<e>>
    BY <1>2, OnlyCall DEF Inv, Continue, e
  <2>3. c.to \in DOMAIN tree /\ out'[h] = NoOut
    BY <1>2 DEF Exists, LookupError, GetOpen
  <2>4. Stage(h)'
    <3>1. work'[h][1] = e /\ Len(work'[h]) = 1
      BY <2>2
    <3>2. tree' = tree
      BY <2>2 DEF fs
    <3>3. Opened(c.to)' = Opened(c.to)
      BY <3>2 DEF Opened
    <3> QED
      BY <2>1, <2>3, <3>1, <3>2 DEF Stage, Opened
  <2> QED
    BY <2>2, <2>4 DEF Serving
<1> QED
  BY <1>1, <1>2 DEF GetOpen

(* The size that a get tells first is that of what is stored.              *)
LEMMA StatTells ==
  ASSUME Inv, Stored, OutInv, NEW h \in Handlers, status[h] = Serving, req[h] \in Requests,
         Seen(h), Operation(req[h]) = "get", Len(work[h]) = 1, NEW c, c = work[h][1], Safe(c),
         c.to = req[h].path, c.to \in DOMAIN tree, c.fd = Opened(c.to), out[h] = NoOut,
         GetStat(h, c), req' = req, before'[h] = before[h]
  PROVE  /\ UNCHANGED fs /\ (status'[h] = Serving => Stage(h)')
         /\ status'[h] = 200 => Contract!Tells(before[h], req[h], out'[h])
<1> DEFINE s == before[h]
<1>1. /\ c.to \in DOMAIN s /\ s[c.to].dir = tree[c.to].dir
      /\ s[c.to].data = data[tree[c.to].id] /\ c.fd.dir = tree[c.to].dir
      /\ c.fd.id = tree[c.to].id
  BY SeenIsTold DEF Within, Opened
<1>2. ASSUME NEW e, e.to = c.to, e.fd = c.fd, Continue(h, <<e>>)
      PROVE  /\ UNCHANGED fs /\ status'[h] = Serving /\ work'[h][1] = e /\ Len(work'[h]) = 1
             /\ tree' = tree /\ e.to = req'[h].path /\ e.to \in DOMAIN tree' /\ e.fd = Opened(e.to)'
  <2>1. UNCHANGED fs /\ tree' = tree /\ work'[h] = <<e>> /\ status'[h] = Serving
    BY <1>2, OnlyCall DEF Inv, Continue, fs
  <2>2. e.fd = Opened(e.to)'
    BY <1>2, <2>1 DEF Opened
  <2> QED
    BY <1>2, <2>1, <2>2
<1>3. CASE c.fd.dir /\ Continue(h, <<[c EXCEPT !.act = "readdir"]>>) /\ UNCHANGED out
  <2> DEFINE e == [c EXCEPT !.act = "readdir"]
  <2>1. e.act = "readdir" /\ e.to = c.to /\ e.fd = c.fd
    BY DEF Safe
  <2>2. Continue(h, <<e>>)
    BY <1>3
  <2> HIDE DEF e
  <2>3. /\ UNCHANGED fs /\ status'[h] = Serving /\ work'[h][1] = e /\ Len(work'[h]) = 1
        /\ tree' = tree /\ e.to = req'[h].path /\ e.to \in DOMAIN tree' /\ e.fd = Opened(e.to)'
    BY <1>2, <2>1, <2>2
  <2>4. out'[h] = NoOut /\ tree'[e.to].dir /\ Operation(req[h])' = "get"
    BY <1>1, <1>3, <2>1, <2>3 DEF Operation
  <2>5. Stage(h)'
    BY <2>1, <2>3, <2>4 DEF Stage
  <2> QED
    BY <2>3, <2>5 DEF Serving
<1>4. CASE /\ ~c.fd.dir /\ out' = [out EXCEPT ![h].size = Len(data[c.fd.id])]
           /\ Continue(h, IF req[h].method = "HEAD" THEN <<>> ELSE <<[c EXCEPT !.act = "send"]>>)
  <2>1. out'[h] = [NoOut EXCEPT !.size = Len(s[c.to].data)]
    BY <1>1, <1>4 DEF OutInv
  <2>2. CASE req[h].method = "HEAD"
    <3>1. UNCHANGED fs /\ status'[h] = 200
      BY <1>4, <2>2, OnlyCall DEF Inv, Continue
    <3>2. out'[h].size = Len(s[c.to].data) /\ out'[h].body = <<>>
      BY <2>1 DEF NoOut
    <3>3. c.to \in DOMAIN before[h] /\ ~before[h][c.to].dir
      BY <1>1, <1>4
    <3>4. Contract!Tells(before[h], req[h], out'[h])
      BY <2>2, <3>2, <3>3, TellsIs
    <3> QED
      BY <3>1, <3>4 DEF Serving
  <2>3. CASE req[h].method # "HEAD"
    <3> DEFINE e == [c EXCEPT !.act = "send"]
    <3>1. e.act = "send" /\ e.to = c.to /\ e.fd = c.fd
      BY DEF Safe
    <3>2. Continue(h, <<e>>)
      BY <1>4, <2>3
    <3> HIDE DEF e
    <3>3. /\ UNCHANGED fs /\ status'[h] = Serving /\ work'[h][1] = e /\ Len(work'[h]) = 1
          /\ tree' = tree /\ e.to = req'[h].path /\ e.to \in DOMAIN tree' /\ e.fd = Opened(e.to)'
      BY <1>2, <3>1, <3>2
    <3>4. ~tree'[e.to].dir /\ Operation(req[h])' = "get" /\ req'[h].method # "HEAD"
          /\ out'[h] = [NoOut EXCEPT !.size = Len(before'[h][e.to].data)]
      BY <1>1, <1>4, <2>1, <2>3, <3>1, <3>3 DEF Operation
    <3>5. Stage(h)'
      BY <3>1, <3>3, <3>4 DEF Stage
    <3> QED
      BY <3>3, <3>5 DEF Serving
  <2> QED
    BY <2>2, <2>3
<1> QED
  BY <1>3, <1>4 DEF GetStat

(* A get of a directory tells the entries that are stored.                 *)
LEMMA DirTells ==
  ASSUME Inv, Stored, OutInv, NEW h \in Handlers, status[h] = Serving, req[h] \in Requests,
         Seen(h), Operation(req[h]) = "get", Len(work[h]) = 1, NEW c, c = work[h][1],
         c.to = req[h].path, c.to \in DOMAIN tree, c.fd = Opened(c.to), tree[c.to].dir,
         out[h] = NoOut, GetDir(h, c)
  PROVE  /\ UNCHANGED fs /\ status'[h] # Serving
         /\ Contract!Tells(before[h], req[h], out'[h])
<1> DEFINE s == before[h]
           d == c.to
           N == Children(tree, d)
<1>1. UNCHANGED fs /\ status'[h] = 200
  BY OnlyCall DEF Inv, Continue, GetDir
<1>2. d \in DOMAIN s /\ s[d].dir
  BY SeenIsTold DEF Within
<1>3. Places(c.fd) = {d}
  BY DEF Places, Opened, Stored
<1>4. out'[h].found = {Entry(q, Owns(q)) : q \in N}
  <2>1. UNION {Children(tree, x) : x \in Places(c.fd)} = N
    BY <1>3
  <2>2. out'[h].found = {Entry(q, Owns(q)) : q \in UNION {Children(tree, x) : x \in Places(c.fd)}}
    BY DEF GetDir, Tells, OutInv, NoOut
  <2> QED
    BY <2>1, <2>2
<1>5. N = Children(s, d)
  <2>1. \A q : IsChild(q, d) => (q \in DOMAIN tree <=> q \in DOMAIN s)
    BY AboutWithin DEF Seen, IsChild, Within
  <2> QED
    BY <2>1 DEF Children
<1>6. \A q \in N : Entry(q, Owns(q)) = Told(s, q, Contract!Mine(s, q))
  <2> TAKE q \in N
  <2>1. q \in DOMAIN tree /\ Within(q, req[h].path)
    BY DEF Children, IsChild, Within
  <2> QED
    BY <2>1, SeenIsTold
<1> HIDE DEF N, s, d
<1>7. out'[h].found = {Told(s, q, Contract!Mine(s, q)) : q \in N}
  BY <1>4, <1>6
<1>8. out'[h].found = {Told(s, q, Contract!Mine(s, q)) : q \in Children(s, req[h].path)}
  BY <1>5, <1>7 DEF d
<1> QED
  BY <1>1, <1>2, <1>8, TellsIs DEF Serving, s, d

(* A get of a file tells the content that is stored.                       *)
LEMMA FileTells ==
  ASSUME Inv, Stored, OutInv, NEW h \in Handlers, status[h] = Serving, req[h] \in Requests,
         Seen(h), Operation(req[h]) = "get", Len(work[h]) = 1, NEW c, c = work[h][1],
         c.to = req[h].path, c.to \in DOMAIN tree, c.fd = Opened(c.to), ~tree[c.to].dir,
         req[h].method # "HEAD", out[h] = [NoOut EXCEPT !.size = Len(before[h][c.to].data)],
         GetFile(h, c)
  PROVE  /\ UNCHANGED fs /\ status'[h] # Serving
         /\ Contract!Tells(before[h], req[h], out'[h])
<1>1. UNCHANGED fs /\ status'[h] = 200
  BY OnlyCall DEF Inv, Continue, GetFile
<1>2. /\ c.to \in DOMAIN before[h] /\ ~before[h][c.to].dir
      /\ before[h][c.to].data = data[c.fd.id]
  BY SeenIsTold DEF Within, Opened
<1>3. out'[h].size = Len(before[h][c.to].data) /\ out'[h].body = before[h][c.to].data
  BY <1>2 DEF GetFile, OutInv, NoOut
<1> QED
  BY <1>1, <1>2, <1>3, TellsIs DEF Serving

(* search: it begins with the directory that it is asked for.              *)
LEMMA SearchBegins ==
  ASSUME Inv, Stored, OutInv, NEW h \in Handlers, status[h] = Serving, req[h] \in Requests,
         Seen(h), Operation(req[h]) = "search", Len(work[h]) = 1, NEW c, c = work[h][1], Safe(c),
         c.to = req[h].path, out[h] = NoOut, SearchLstat(h, c), req' = req,
         before'[h] = before[h]
  PROVE  /\ UNCHANGED fs /\ (status'[h] = Serving => SearchInv(h)')
         /\ status'[h] = 200 => Contract!Found(before[h], req[h], out'[h].found)
<1> DEFINE s == before[h]
           r == req[h]
           M == Sought(s, r)
           none == {}
<1>1. out'[h].found = none /\ out' = out /\ none = {}
  BY DEF SearchLstat, NoOut
<1>2. AllTold(s, none) = none /\ {e.path : e \in none} = none
      /\ IsFiniteSet(none) /\ Cardinality(none) = 0
  BY FS_EmptySet DEF AllTold
<1>3. IsFiniteSet(M) /\ Cardinality(M) \in Nat
  <2>1. M \subseteq DOMAIN tree
    <3>1. c.to \in Path /\ Within(c.to, req[h].path)
      BY DEF Safe, Within
    <3> QED
      BY <3>1, FindsSought DEF Inv
  <2> QED
    BY <2>1, FS_Subset, FS_CardinalityType DEF Inv, TreeInv
<1>4. SearchMax(r) \in Nat /\ r.max \in Int
  BY HtFileAssumption DEF SearchMax
<1>5. CASE Fails(h, LookupError(tree, c.to))
  BY <1>5, FailsOtherwise DEF Inv, Fails, Answer
<1>6. CASE SearchMax(r) = 0 /\ Continue(h, <<>>)
  <2>1. UNCHANGED fs /\ status'[h] = 200
    BY <1>6, OnlyCall DEF Inv, Continue
  <2> DEFINE found == out'[h].found
             paths == {e.path : e \in found}
  <2>2. /\ paths \subseteq M /\ found = AllTold(s, paths)
        /\ Cardinality(found) = IF Cardinality(M) < SearchMax(r) THEN Cardinality(M) ELSE SearchMax(r)
        /\ \A p \in paths, q \in M \ paths : Depth(p) <= Depth(q)
    <3>1. found = none /\ paths = none
      BY <1>1, <1>2
    <3> HIDE DEF found, paths, M, s, r
    <3> QED
      BY <1>1, <1>2, <1>3, <1>6, <3>1
  <2> HIDE DEF found, paths, s, r
  <2>3. Contract!Found(s, r, found)
    BY <1>4, <2>2, FoundIs DEF M, paths
  <2> QED
    BY <2>1, <2>3 DEF Serving, found, s, r
<1>7. CASE SearchMax(r) # 0 /\ Continue(h, <<[c EXCEPT !.act = "scan"]>>)
  <2> DEFINE e == [c EXCEPT !.act = "scan"]
             ds == <<c.to>>
  <2>1. e.act = "scan" /\ e.to = c.to
    BY DEF Safe
  <2>2. Continue(h, <<e>>)
    BY <1>7
  <2> HIDE DEF e
  <2>3. UNCHANGED fs /\ status'[h] = Serving /\ work'[h] = <<e>>
    BY <2>2, OnlyCall DEF Inv, Continue
  <2>4. Dirs(<<e>>) = ds
    BY <2>1 DEF Dirs
  <2>5. BreadthFirst(M, none, ds)
    <3>1. DOMAIN ds = {1} /\ ds[1] = c.to /\ Depth(c.to) \in Nat
      BY DepthIsNat DEF Safe
    <3>2. \A q \in M : Below(q, c.to)
      BY SoughtIs
    <3> HIDE DEF ds, M
    <3> QED
      BY <1>1, <3>1, <3>2 DEF BreadthFirst
  <2>6. FoundPaths(h)' = none
    BY <1>1, <1>2 DEF FoundPaths
  <2>7. \A i \in DOMAIN work'[h] : work'[h][i].act = "scan" /\ Within(work'[h][i].to, r.path)
    BY <2>1, <2>3 DEF Within
  <2>8. SearchInv(h)'
    <3>1. /\ req'[h] = r /\ before'[h] = s /\ Sought(s, r) = M /\ Dirs(work'[h]) = ds
          /\ SearchMax(r)' = SearchMax(r) /\ 0 < SearchMax(r)
      BY <1>4, <1>7, <2>3, <2>4 DEF SearchMax
    <3> HIDE DEF s, r, M, none, ds
    <3> QED
      BY <1>1, <1>2, <2>5, <2>6, <2>7, <3>1 DEF SearchInv
  <2> QED
    BY <2>3, <2>8 DEF Serving
<1> QED
  BY <1>5, <1>6, <1>7 DEF SearchLstat

(* A step of an undisturbed request that only asks.                        *)
LEMMA ReadingGoesOn ==
  ASSUME Inv, Stored, OutInv, NEW h \in Handlers, status[h] = Serving, req[h] \in Requests,
         Seen(h), Operation(req[h]) \in {"get", "props", "search"}, Stage(h), Step(h),
         req' = req, before'[h] = before[h]
  PROVE  /\ UNCHANGED fs /\ (status'[h] = Serving => Stage(h)')
         /\ status'[h] = 200 => Contract!Tells(before[h], req[h], out'[h])
<1> DEFINE op == Operation(req[h])
<1>0. op' = op
  BY DEF Operation
<1>1. PICK c : c = work[h][1]
  OBVIOUS
<1>2. Safe(c)
  BY <1>1, FirstCall DEF Inv
<1>3. CASE Len(work[h]) = 1 /\ c.to = req[h].path /\ c.act = op /\ out[h] = NoOut
  <2>1. Reads(h, c)
    BY <1>1, <1>2, <1>3, WritesMove DEF Step, Looking
  <2>2. CASE op = "get"
    <3>1. GetOpen(h, c)
      BY <1>3, <2>1, <2>2 DEF Reads, Props, GetStat, GetDir, GetFile, SearchLstat, Scan
    <3> QED
      BY <1>1, <1>2, <1>3, <2>2, <3>1, OpenGoesOn
  <2>3. CASE op = "props"
    <3>1. Props(h, c)
      BY <1>3, <2>1, <2>3 DEF Reads, GetOpen, GetStat, GetDir, GetFile, SearchLstat, Scan
    <3> QED
      BY <1>1, <1>3, <2>3, <3>1, PropsTells
  <2>4. CASE op = "search"
    <3>1. SearchLstat(h, c)
      BY <1>3, <2>1, <2>4 DEF Reads, GetOpen, GetStat, GetDir, GetFile, Props, Scan
    <3>2. /\ UNCHANGED fs /\ (status'[h] = Serving => SearchInv(h)')
          /\ status'[h] = 200 => Contract!Found(before[h], req[h], out'[h].found)
      BY <1>1, <1>2, <1>3, <2>4, <3>1, SearchBegins
    <3> QED
      BY <1>0, <2>4, <3>2, TellsIs DEF Stage
  <2> QED
    BY <2>2, <2>3, <2>4
<1>4. CASE Len(work[h]) = 1 /\ c.to = req[h].path /\ op = "get" /\ c.to \in DOMAIN tree
           /\ c.fd = Opened(c.to)
  <2>1. CASE c.act = "stat" /\ out[h] = NoOut
    <3>1. Reads(h, c)
      BY <1>1, <1>2, <2>1, WritesMove DEF Step, Looking
    <3>2. GetStat(h, c)
      BY <2>1, <3>1 DEF Reads, Props, GetOpen, GetDir, GetFile, SearchLstat, Scan
    <3> QED
      BY <1>1, <1>2, <1>4, <2>1, <3>2, StatTells
  <2>2. CASE c.act = "readdir" /\ tree[c.to].dir /\ out[h] = NoOut
    <3>1. Reads(h, c)
      BY <1>1, <1>2, <2>2, WritesMove DEF Step, Looking
    <3>2. GetDir(h, c)
      BY <2>2, <3>1 DEF Reads, Props, GetOpen, GetStat, GetFile, SearchLstat, Scan
    <3> QED
      BY <1>1, <1>4, <2>2, <3>2, DirTells
  <2>3. CASE /\ c.act = "send" /\ ~tree[c.to].dir /\ req[h].method # "HEAD"
             /\ out[h] = [NoOut EXCEPT !.size = Len(before[h][c.to].data)]
    <3>1. Reads(h, c)
      BY <1>1, <1>2, <2>3, WritesMove DEF Step, Looking
    <3>2. GetFile(h, c)
      BY <2>3, <3>1 DEF Reads, Props, GetOpen, GetStat, GetDir, SearchLstat, Scan
    <3> QED
      BY <1>1, <1>4, <2>3, <3>2, FileTells
  <2>4. CASE c.act = op /\ out[h] = NoOut
    BY <1>3, <1>4, <2>4
  <2>5. CASE op = "search"
    BY <1>4, <2>5
  <2> QED
    BY <1>1, <1>4, <2>1, <2>2, <2>3, <2>4, <2>5 DEF Stage
<1>5. CASE op = "search" /\ SearchInv(h)
  <2>1. c.act = "scan"
    <3>1. work[h] # <<>> /\ work[h] \in Seq({work[h][i] : i \in DOMAIN work[h]})
      BY DEF Inv, WorkInv, SafeWork
    <3>2. 1 \in DOMAIN work[h]
      BY <3>1
    <3> QED
      BY <1>1, <1>5, <3>2 DEF SearchInv
  <2>2. Reads(h, c)
    BY <1>1, <1>2, <2>1, WritesMove DEF Step, Looking
  <2>3. Scan(h, c)
    BY <2>1, <2>2 DEF Reads, Props, GetOpen, GetStat, GetDir, GetFile, SearchLstat
  <2>4. \/ status'[h] = 200 /\ Contract!Found(before[h], req[h], out'[h].found)
        \/ status'[h] = Serving /\ SearchInv(h)'
    BY <1>1, <1>5, <2>3, ScanGoesOn
  <2> QED
    BY <1>0, <1>5, <2>3, <2>4, TellsIs DEF Scan, Stage, Serving
<1> QED
  BY <1>1, <1>3, <1>4, <1>5 DEF Stage

(* What a request begins with when it is received.                         *)
LEMMA ReadingBegins ==
  ASSUME Inv, CallsInv, AnswersInv, NEW h \in Handlers, Receive(h)
  PROVE  Answers(h)'
<1>1. PICK r \in Requests :
        /\ req' = [req EXCEPT ![h] = r]
        /\ status' = [status EXCEPT ![h] = Begin(r)]
        /\ work' = [work EXCEPT ![h] = IF Begin(r) = Serving THEN Plan(Operation(r), r) ELSE <<>>]
  BY DEF Receive
<1>2. /\ req'[h] = r /\ status'[h] = Begin(r) /\ before'[h] = View(tree, data)
      /\ out' = out /\ out[h] = NoOut /\ tree' = tree /\ data' = data
  BY <1>1 DEF Receive, Inv, WorkInv, CallsInv, AnswersInv, Answers
<1>3. Begin(r) # Free
  BY DEF Begin, Free, Serving, PropsStatus
<1>4. Operation(r) \in {"get", "props", "search"} => Begin(r) # 200
  BY DEF Begin, Serving
<1>5. Seen(h)'
  BY <1>2 DEF Seen, View
<1>6. ASSUME Operation(r) \in {"get", "props", "search"}, Begin(r) = Serving PROVE Stage(h)'
  <2> DEFINE op == Operation(r)
             c == Call(op, r.path, r.path)
  <2>1. Plan(op, r) = <<c>>
    BY <1>6, Zenon DEF Plan
  <2>2. c.act = op /\ c.to = r.path
    BY DEF Call
  <2> HIDE DEF c
  <2>3. work'[h] = <<c>>
    BY <1>1, <1>6, <2>1 DEF Inv, WorkInv
  <2>4. work'[h][1] = c /\ Len(work'[h]) = 1
    BY <2>3
  <2>5. Operation(req[h])' = op
    BY <1>2 DEF Operation
  <2> QED
    BY <1>2, <2>2, <2>4, <2>5 DEF Stage
<1>7. Operation(req[h])' = Operation(r)
  BY <1>2 DEF Operation
<1> QED
  BY <1>2, <1>3, <1>4, <1>5, <1>6, <1>7 DEF Answers, Reading

(* What another handler does leaves an undisturbed request where it is.    *)
LEMMA ReadingStays ==
  ASSUME AnswersInv, NEW g \in Handlers, req'[g] = req[g], work'[g] = work[g],
         status'[g] = status[g], out'[g] = out[g],
         pure'[g] => /\ pure[g] /\ before'[g] = before[g]
                     /\ \A p \in DOMAIN tree \cup DOMAIN tree' : Changed(p) => ~About(req[g], p)
  PROVE  Answers(g)'
<1>1. status'[g] = Free => out'[g] = NoOut
  BY DEF AnswersInv, Answers
<1>2. Operation(req[g])' = Operation(req[g])
  BY DEF Operation
<1>3. ASSUME Reading(g)'
      PROVE  /\ req'[g] \in Requests /\ Seen(g)'
             /\ status'[g] = Serving => Stage(g)'
             /\ status'[g] = 200 => Contract!Tells(before[g], req[g], out[g])'
  <2>1. pure'[g] /\ Reading(g)
    BY <1>2, <1>3 DEF Reading
  <2>2. /\ before'[g] = before[g] /\ req[g] \in Requests /\ Seen(g)
        /\ status[g] = Serving => Stage(g)
        /\ status[g] = 200 => Contract!Tells(before[g], req[g], out[g])
    BY <2>1 DEF AnswersInv, Answers
  <2>3. Seen(g)' /\ \A p \in DOMAIN tree : About(req[g], p) => p \in DOMAIN tree' /\ tree'[p] = tree[p]
    BY <2>1, <2>2, StillSeen
  <2>4. About(req[g], req[g].path)
    BY DEF About, Within
  <2>5. ASSUME Stage(g) PROVE Stage(g)'
    <3> DEFINE c == work[g][1]
    <3>1. c' = c
      OBVIOUS
    <3>2. SearchInv(g) => SearchInv(g)'
      <4>1. FoundPaths(g)' = FoundPaths(g) /\ SearchMax(req[g])' = SearchMax(req[g])
        BY DEF FoundPaths, SearchMax
      <4> QED
        BY <2>2, <4>1 DEF SearchInv
    <3>3. c.to = req[g].path /\ c.to \in DOMAIN tree =>
            c.to \in DOMAIN tree' /\ tree'[c.to] = tree[c.to] /\ Opened(c.to)' = Opened(c.to)
      BY <2>3, <2>4 DEF Opened
    <3> QED
      BY <1>2, <2>2, <2>5, <3>2, <3>3 DEF Stage
  <2>6. Contract!Tells(before[g], req[g], out[g])' <=> Contract!Tells(before[g], req[g], out[g])
    <3>1. \A s, r, o : s = before[g] /\ r = req[g] /\ o = out[g] =>
                       (Contract!Tells(s, r, o) <=> Contract!Tells(before[g], req[g], out[g]))
      OBVIOUS
    <3> QED
      BY <2>2, <3>1
  <2> QED
    BY <2>2, <2>3, <2>5, <2>6
<1> QED
  BY <1>1, <1>3 DEF Answers

(* A step of h is on its own answer, and it does not end the request       *)
(* without one.                                                            *)
LEMMA StepAnswers ==
  ASSUME Inv, OutInv, NEW h \in Handlers, status[h] = Serving, NEW c,
         (Writes(h, c) /\ UNCHANGED out) \/ Reads(h, c) \/ Fault(h, c)
  PROVE  /\ OutInv' /\ status'[h] # Free
         /\ \A g \in Handlers : g # h => out'[g] = out[g] /\ status'[g] = status[g]
<1> DEFINE Ends == /\ status'[h] # Free
                   /\ \A g \in Handlers : g # h => status'[g] = status[g]
           Answered == /\ OutInv'
                       /\ \A g \in Handlers : g # h => out'[g] = out[g]
<1>1. \A code : Answer(h, code) /\ code # Free => Ends
  BY DEF Answer, Inv, WorkInv
<1>2. \A err : Fails(h, err) => Ends
  <2>1. \A err : StatusOf(err) # Free
    BY DEF StatusOf, Free
  <2> QED
    BY <1>1, <2>1 DEF Fails
<1>3. \A cs : Then(h, cs) => Ends
  BY DEF Then, Inv, WorkInv, Free, Serving
<1>4. \A cs : Continue(h, cs) => Ends
  BY <1>3 DEF Continue
<1>5. UNCHANGED out => Answered
  BY DEF OutInv
<1>6. \A es : Tells(h, es) => Answered
  BY DEF OutInv, Tells
<1>7. \A v : out' = [out EXCEPT ![h].size = v] \/ out' = [out EXCEPT ![h].body = v] => Answered
  BY DEF OutInv
<1> HIDE DEF Ends, Answered
<1>8. \A code : code \in {400, 404, 413, 500} => code # Free
  BY DEF Free
<1>9. CASE Reads(h, c)
  <2>1. Scan(h, c) => Ends /\ Answered
    <3> SUFFICES ASSUME Scan(h, c) PROVE Ends /\ Answered
      OBVIOUS
    <3>1. Answered
      BY <1>6 DEF Scan
    <3>2. \E s \in {200, Serving} : status' = [status EXCEPT ![h] = s]
      <4>1. \/ \E left : status' = [status EXCEPT ![h] = IF left = <<>> THEN 200 ELSE @]
            \/ status' = [status EXCEPT ![h] = 200]
        BY Zenon DEF Scan
      <4> QED
        BY <4>1
    <3>3. Ends
      BY <3>2 DEF Inv, WorkInv, Ends, Free, Serving
    <3> QED
      BY <3>1, <3>3
  <2>2. ~Scan(h, c) => Ends
    BY <1>2, <1>4, <1>9 DEF Reads, Props, GetOpen, GetStat, GetDir, GetFile, SearchLstat
  <2>3. ~Scan(h, c) => Answered
    BY <1>5, <1>6, <1>7, <1>9 DEF Reads, Props, GetOpen, GetStat, GetDir, GetFile, SearchLstat
  <2> QED
    BY <2>1, <2>2, <2>3 DEF Ends, Answered
<1>10. CASE Fault(h, c)
  <2>1. Ends
    BY <1>1, <1>4, <1>8, <1>10 DEF Fault
  <2> QED
    BY <1>5, <1>10, <2>1 DEF Fault, Ends, Answered
<1>11. CASE Writes(h, c) /\ UNCHANGED out
  <2>1. Answer(h, 400) \/ Answer(h, 404) \/ Answer(h, 413) \/ Answer(h, 500) => Ends
    BY <1>1, <1>8
  <2>2. CASE MkdirAll(h, c) \/ Mkdir(h, c) \/ PutCreate(h, c) \/ PutBody(h, c)
    <3>1. Ends
      <4>1. CASE MkdirAll(h, c)
        BY <1>2, <1>4, <4>1 DEF MkdirAll
      <4>2. CASE Mkdir(h, c)
        BY <1>2, <1>3, <1>4, <4>2 DEF Mkdir
      <4>3. CASE PutCreate(h, c)
        BY <1>2, <1>3, <4>3 DEF PutCreate
      <4>4. CASE PutBody(h, c)
        BY <1>3, <1>4, <2>1, <4>4 DEF PutBody
      <4> QED
        BY <2>2, <4>1, <4>2, <4>3, <4>4
    <3> QED
      BY <1>5, <1>11, <3>1 DEF Ends, Answered
  <2>3. CASE \/ Target(h, c) \/ CopyLstat(h, c) \/ CopyOpen(h, c) \/ CopyDir(h, c) \/ CopyList(h, c)
             \/ CopyFile(h, c) \/ CopyData(h, c) \/ CopyChmod(h, c) \/ Rename(h, c)
    <3>1. Ends
      BY <1>2, <1>3, <1>4, <2>1, <2>3, ZenonT(60) DEF Target, CopyLstat, CopyOpen, CopyDir, CopyList, CopyFile,
         CopyData, CopyChmod, Rename
    <3> QED
      BY <1>5, <1>11, <3>1 DEF Ends, Answered
  <2>4. CASE \/ RemoveAll(h, c) \/ Rmdir(h, c)
             \/ ModPropsLstat(h, c) \/ SetMode(h, c) \/ SetOwner(h, c)
    <3>1. Ends
      <4>1. CASE RemoveAll(h, c)
        BY <1>3, <1>4, <4>1 DEF RemoveAll, Removes
      <4>2. CASE Rmdir(h, c)
        BY <1>3, <1>4, <2>1, <4>2 DEF Rmdir, Removes
      <4>3. CASE ModPropsLstat(h, c)
        BY <1>2, <1>4, <2>1, <4>3 DEF ModPropsLstat
      <4>4. CASE SetMode(h, c)
        BY <1>3, <1>4, <2>1, <4>4 DEF SetMode
      <4>5. CASE SetOwner(h, c)
        BY <1>3, <1>4, <2>1, <4>5 DEF SetOwner
      <4> QED
        BY <2>4, <4>1, <4>2, <4>3, <4>4, <4>5
    <3> QED
      BY <1>5, <1>11, <3>1 DEF Ends, Answered
  <2> QED
    BY <1>11, <2>2, <2>3, <2>4 DEF Writes
<1> QED
  BY <1>9, <1>10, <1>11

(* Every step keeps how far a request that asks for something has got.     *)
LEMMA AnswersStep ==
  ASSUME Inv, CallsInv, Stored, AnswersInv, [Next]_vars
  PROVE  AnswersInv'
<1>1. \A g \in Handlers : status[g] = Free => out[g] = NoOut
  BY DEF AnswersInv, Answers
<1>2. CASE UNCHANGED vars
  <2>1. \A p \in DOMAIN tree \cup DOMAIN tree' : ~Changed(p)
    BY <1>2 DEF vars, Changed
  <2>2. \A g \in Handlers : Answers(g)'
    BY <1>2, <2>1, ReadingStays DEF vars
  <2> QED
    BY <1>2, <2>2 DEF vars, AnswersInv, OutInv
<1>3. ASSUME NEW h \in Handlers, Receive(h) \/ Return(h) PROVE AnswersInv'
  <2>1. \A p \in DOMAIN tree \cup DOMAIN tree' : ~Changed(p)
    BY <1>3 DEF Receive, Return, Changed
  <2>2. ASSUME NEW g \in Handlers, g # h
        PROVE  /\ req'[g] = req[g] /\ work'[g] = work[g] /\ status'[g] = status[g]
               /\ out'[g] = out[g] /\ pure'[g] = pure[g] /\ before'[g] = before[g]
    BY <1>3, <2>2 DEF Receive, Return, Inv, WorkInv, CallsInv, AnswersInv, OutInv
  <2>3. ASSUME NEW g \in Handlers, g # h PROVE Answers(g)'
    BY <2>1, <2>2, <2>3, ReadingStays
  <2>4. Answers(h)'
    <3>1. CASE Receive(h)
      BY <3>1, ReadingBegins
    <3>2. CASE Return(h)
      <4>1. status'[h] = Free /\ out'[h] = NoOut
        BY <3>2 DEF Return, Inv, WorkInv, AnswersInv, OutInv
      <4> QED
        BY <4>1 DEF Answers, Reading
    <3> QED
      BY <1>3, <3>1, <3>2
  <2>5. OutInv' /\ DOMAIN before' = Handlers /\ DOMAIN pure' = Handlers
    BY <1>3 DEF Receive, Return, AnswersInv, OutInv
  <2> QED
    BY <2>3, <2>4, <2>5 DEF AnswersInv
<1>4. ASSUME NEW h \in Handlers, status[h] = Serving, NEW failed \in BOOLEAN,
             ~failed => Step(h), failed => Fault(h, work[h][1]), Disturbs(h, failed), req' = req
      PROVE  AnswersInv'
  <2>1. PICK c : c = work[h][1]
    OBVIOUS
  <2>2. Safe(c)
    BY <1>4, <2>1, FirstCall DEF Inv
  <2>3. (Writes(h, c) /\ UNCHANGED out) \/ Reads(h, c) \/ Fault(h, c)
    BY <1>4, <2>1 DEF Step
  <2>4. /\ OutInv' /\ status'[h] # Free
        /\ \A g \in Handlers : g # h => out'[g] = out[g] /\ status'[g] = status[g]
    BY <1>4, <2>3, StepAnswers DEF AnswersInv
  <2>5. \A g \in Handlers : g # h => work'[g] = work[g]
    <3>1. GoesOn(h)
      BY <1>4, <2>1, <2>2, <2>3, StepGoesOn
    <3> QED
      BY <3>1 DEF GoesOn, Inv, WorkInv
  <2>6. DOMAIN pure' = Handlers /\ DOMAIN before' = Handlers
    BY <1>4 DEF Disturbs
  <2>7. ASSUME NEW g \in Handlers, pure'[g]
        PROVE  /\ pure[g] /\ before'[g] = before[g] /\ (g = h => ~failed)
               /\ g # h => \A p \in DOMAIN tree \cup DOMAIN tree' : Changed(p) => ~About(req[g], p)
    <3>1. before'[g] = before[g]
      BY <1>4, <2>7 DEF Disturbs
    <3>2. pure[g] /\ IF g = h THEN ~failed
                     ELSE \A p \in {p \in DOMAIN tree \cup DOMAIN tree' : Changed(p)} : ~About(req[g], p)
      BY <1>4, <2>7 DEF Disturbs
    <3> QED
      BY <3>1, <3>2
  <2>8. ASSUME NEW g \in Handlers, g # h PROVE Answers(g)'
    BY <1>4, <2>4, <2>5, <2>7, <2>8, ReadingStays
  <2>9. Answers(h)'
    <3>1. Operation(req[h])' = Operation(req[h])
      BY <1>4 DEF Operation
    <3>2. ASSUME Reading(h)'
          PROVE  /\ req'[h] \in Requests /\ Seen(h)'
                 /\ status'[h] = Serving => Stage(h)'
                 /\ status'[h] = 200 => Contract!Tells(before[h], req[h], out[h])'
      <4>1. pure'[h] /\ Operation(req[h]) \in {"get", "props", "search"}
        BY <3>1, <3>2 DEF Reading
      <4>2. pure[h] /\ before'[h] = before[h] /\ Step(h)
        BY <1>4, <2>7, <4>1
      <4>3. Reading(h)
        BY <1>4, <4>1, <4>2 DEF Reading, Free, Serving
      <4>4. req[h] \in Requests /\ Seen(h) /\ Stage(h)
        BY <1>4, <4>3 DEF AnswersInv, Answers
      <4>5. /\ UNCHANGED fs /\ (status'[h] = Serving => Stage(h)')
            /\ status'[h] = 200 => Contract!Tells(before[h], req[h], out'[h])
        BY <1>4, <4>1, <4>2, <4>4, ReadingGoesOn DEF AnswersInv
      <4>6. Seen(h)'
        BY <1>4, <4>2, <4>4, <4>5 DEF Seen, fs, View
      <4> QED
        BY <1>4, <4>2, <4>4, <4>5, <4>6
    <3> QED
      BY <2>4, <3>2 DEF Answers
  <2> QED
    BY <2>4, <2>6, <2>8, <2>9 DEF AnswersInv
<1>5. ASSUME NEW h \in Handlers, Step(h), Disturbs(h, FALSE), req' = req PROVE AnswersInv'
  <2>1. status[h] = Serving
    BY <1>5 DEF Step
  <2>2. ASSUME NEW failed \in BOOLEAN, failed = FALSE PROVE AnswersInv'
    <3>1. (~failed => Step(h)) /\ (failed => Fault(h, work[h][1])) /\ Disturbs(h, failed)
      BY <1>5, <2>2
    <3> QED
      BY <1>4, <1>5, <2>1, <3>1
  <2> QED
    BY <2>2
<1>6. ASSUME NEW h \in Handlers, status[h] = Serving, Fault(h, work[h][1]), Disturbs(h, TRUE),
             req' = req
      PROVE  AnswersInv'
  <2>1. ASSUME NEW failed \in BOOLEAN, failed = TRUE PROVE AnswersInv'
    <3>1. (~failed => Step(h)) /\ (failed => Fault(h, work[h][1])) /\ Disturbs(h, failed)
      BY <1>6, <2>1
    <3> QED
      BY <1>4, <1>6, <3>1
  <2> QED
    BY <2>1
<1> QED
  BY <1>2, <1>3, <1>5, <1>6 DEF Next

(* Whatever the others do meanwhile, a request that nobody disturbs is     *)
(* told what is stored: all of a file and its length, the entries of a     *)
(* directory, and as many of the results of a search as there are, the     *)
(* nearest ones and each of them once.                                     *)
THEOREM StoredIsTold == Spec => []TellsWhatIsStored
<1>1. Init => AnswersInv
  BY DEF Init, AnswersInv, OutInv, Answers, Reading
<1>2. Inv /\ CallsInv /\ Stored /\ OpenInv /\ AnswersInv /\ [Next]_vars
        => Inv' /\ CallsInv' /\ Stored' /\ OpenInv' /\ AnswersInv'
  BY StepInv, CallsStep, StoreStep, AnswersStep
<1>3. AnswersInv => TellsWhatIsStored
  BY DEF AnswersInv, Answers, Reading, TellsWhatIsStored, Undisturbed
<1> QED
  BY <1>1, <1>2, <1>3, InitInv, CallsInit, StoreInit, PTL DEF Spec
=============================================================================
