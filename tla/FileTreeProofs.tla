--------------------------- MODULE FileTreeProofs ---------------------------
(***************************************************************************)
(* What the paths of FileTree have in common: being on the way to another  *)
(* one is having it as a prefix that ends before a slash.  And what a      *)
(* change of a tree, and a search that goes through its directories by     *)
(* their depth, keep.                                                      *)
(***************************************************************************)
EXTENDS FileTree, Integers, FiniteSets, Functions, FiniteSetTheorems, NaturalsInduction,
        TLAPS

OnTheWay(d, p) ==
  /\ Len(d) \in 1..Len(p) - 1
  /\ p[Len(d) + 1] = "/"
  /\ \A i \in 1..Len(d) : d[i] = p[i]

(* The start of a path is a path, of its length and its characters.        *)
LEMMA PrefixOfPath ==
  ASSUME NEW p \in Path, NEW n \in 0..Len(p)
  PROVE  /\ SubSeq(p, 1, n) \in Path
         /\ Len(SubSeq(p, 1, n)) = n
         /\ \A i \in 1..n : SubSeq(p, 1, n)[i] = p[i]
BY DEF Path

(* Paths with the same characters are the same.                            *)
LEMMA SamePath ==
  ASSUME NEW p \in Path, NEW q \in Path, Len(p) = Len(q), \A i \in 1..Len(p) : p[i] = q[i]
  PROVE  p = q
BY DEF Path

(* A path with another one at its end.                                     *)
LEMMA ConcatPaths ==
  ASSUME NEW p \in Path, NEW q \in Path
  PROVE  /\ p \o q \in Path
         /\ Len(p \o q) = Len(p) + Len(q)
         /\ \A i \in 1..Len(p) : (p \o q)[i] = p[i]
         /\ \A i \in 1..Len(q) : (p \o q)[Len(p) + i] = q[i]
BY DEF Path

(* The same without SubSeq.                                                *)
LEMMA BelowIsOnTheWay ==
  ASSUME NEW p \in Path, NEW d \in Path
  PROVE  Below(p, d) <=> OnTheWay(d, p)
<1>1. ASSUME Below(p, d) PROVE OnTheWay(d, p)
  <2>1. PICK i \in 2..Len(p) : p[i] = "/" /\ d = SubSeq(p, 1, i - 1)
    BY <1>1 DEF Below, Ancestors
  <2>2. i - 1 \in 0..Len(p) /\ i - 1 \in 1..Len(p) - 1
    BY DEF Path
  <2>3. Len(d) = i - 1 /\ \A j \in 1..i - 1 : d[j] = p[j]
    BY <2>1, <2>2, PrefixOfPath
  <2> QED
    BY <2>1, <2>2, <2>3 DEF OnTheWay
<1>2. ASSUME OnTheWay(d, p) PROVE Below(p, d)
  <2> DEFINE i == Len(d) + 1
  <2>1. i \in 2..Len(p) /\ p[i] = "/" /\ i - 1 = Len(d) /\ Len(d) \in 0..Len(p)
    BY <1>2 DEF OnTheWay, Path
  <2>2. d = SubSeq(p, 1, Len(d))
    <3>1. SubSeq(p, 1, Len(d)) \in Path /\ Len(SubSeq(p, 1, Len(d))) = Len(d)
          /\ \A j \in 1..Len(d) : SubSeq(p, 1, Len(d))[j] = p[j]
      BY <2>1, PrefixOfPath
    <3> QED
      BY <3>1, <1>2, SamePath DEF OnTheWay
  <2>3. d \in {SubSeq(p, 1, k - 1) : k \in {j \in 2..Len(p) : p[j] = "/"}}
    BY <2>1, <2>2
  <2> QED
    BY <2>3 DEF Below, Ancestors
<1> QED
  BY <1>1, <1>2

(* The directories on the way to a path are paths, and finitely many.      *)
LEMMA AncestorsOfPath ==
  ASSUME NEW p \in Path
  PROVE  Ancestors(p) \subseteq Path /\ IsFiniteSet(Ancestors(p))
<1> DEFINE slashes == {j \in 2..Len(p) : p[j] = "/"}
           f == [j \in slashes |-> SubSeq(p, 1, j - 1)]
<1>1. Len(p) \in Nat
  BY DEF Path
<1>2. \A j \in slashes : j - 1 \in 0..Len(p)
  BY <1>1
<1>3. Ancestors(p) \subseteq Path
  BY <1>2, PrefixOfPath DEF Ancestors
<1>4. IsFiniteSet(slashes)
  <2>1. IsFiniteSet(2..Len(p))
    BY <1>1, FS_Interval
  <2> QED
    BY <2>1, FS_Subset
<1>5. f \in Surjection(slashes, Ancestors(p))
  BY DEF Surjection, Ancestors
<1>6. IsFiniteSet(Ancestors(p))
  BY <1>4, <1>5, FS_Surjection
<1> QED
  BY <1>3, <1>6

(* What is within a directory that is within another one is within it.     *)
LEMMA WithinTransitive ==
  ASSUME NEW p \in Path, NEW q \in Path, NEW d \in Path, Within(p, q), Within(q, d)
  PROVE  Within(p, d)
<1>1. CASE p = q \/ q = d
  BY <1>1 DEF Within
<1>2. CASE Below(p, q) /\ Below(q, d)
  <2>1. OnTheWay(q, p) /\ OnTheWay(d, q)
    BY <1>2, BelowIsOnTheWay
  <2>2. OnTheWay(d, p)
    BY <2>1 DEF OnTheWay, Path
  <2> QED
    BY <2>2, BelowIsOnTheWay DEF Within
<1> QED
  BY <1>1, <1>2 DEF Within

(* A directory on the way to what is within d is within d or above it.     *)
LEMMA WithinOrAbove ==
  ASSUME NEW p \in Path, NEW d \in Path, Within(p, d), NEW a \in Ancestors(p)
  PROVE  Within(a, d) \/ a \in Ancestors(d)
<1>1. a \in Path /\ OnTheWay(a, p)
  BY AncestorsOfPath, BelowIsOnTheWay DEF Below
<1>2. CASE p = d
  BY <1>2
<1>3. CASE Below(p, d)
  <2>1. OnTheWay(d, p)
    BY <1>3, BelowIsOnTheWay
  <2>2. CASE Len(a) < Len(d)
    <3>1. OnTheWay(a, d)
      BY <1>1, <2>1, <2>2 DEF OnTheWay, Path
    <3> QED
      BY <1>1, <3>1, BelowIsOnTheWay DEF Below
  <2>3. CASE Len(a) = Len(d)
    <3>1. a = d
      BY <1>1, <2>1, <2>3, SamePath DEF OnTheWay
    <3> QED
      BY <3>1 DEF Within
  <2>4. CASE Len(a) > Len(d)
    <3>1. OnTheWay(d, a)
      BY <1>1, <2>1, <2>4 DEF OnTheWay, Path
    <3> QED
      BY <1>1, <3>1, BelowIsOnTheWay DEF Within
  <2> QED
    BY <1>1, <2>2, <2>3, <2>4 DEF Path
<1> QED
  BY <1>2, <1>3 DEF Within

(* What is within from is, with its end, within the path to.               *)
LEMMA RebasedIsWithin ==
  ASSUME NEW p \in Path, NEW from \in Path, NEW to \in Path, to # <<>>, Within(p, from)
  PROVE  /\ Rebased(p, from, to) \in Path
         /\ Within(Rebased(p, from, to), to)
<1> DEFINE n == SubSeq(p, Len(from) + 1, Len(p))
           q == to \o n
<1>1. Len(from) \in Nat /\ Len(to) \in Nat \ {0} /\ Len(p) \in Nat /\ Len(from) <= Len(p)
  BY BelowIsOnTheWay DEF Path, Within, OnTheWay
<1>2. n \in Path /\ Len(n) = Len(p) - Len(from)
      /\ \A i \in 1..Len(n) : n[i] = p[Len(from) + i]
  BY <1>1 DEF Path
<1>3. q \in Path /\ Len(q) = Len(to) + Len(n)
      /\ (\A i \in 1..Len(to) : q[i] = to[i]) /\ (\A i \in 1..Len(n) : q[Len(to) + i] = n[i])
  BY <1>2, ConcatPaths
<1>4. CASE p = from
  <2>1. Len(n) = 0
    BY <1>4, <1>2, <1>1
  <2>2. q = to
    <3> HIDE DEF n, q
    <3>1. Len(q) = Len(to) /\ \A i \in 1..Len(to) : q[i] = to[i]
      BY <2>1, <1>3, <1>1
    <3> QED
      BY <3>1, <1>3, SamePath
  <2> QED
    BY <2>2 DEF Rebased, Within
<1>5. CASE Below(p, from)
  <2>1. OnTheWay(from, p)
    BY <1>5, BelowIsOnTheWay
  <2>2. Len(n) >= 1 /\ n[1] = "/"
    BY <2>1, <1>1, <1>2 DEF OnTheWay
  <2>3. OnTheWay(to, q)
    BY <2>2, <1>1, <1>2, <1>3 DEF OnTheWay
  <2> QED
    BY <2>3, <1>3, BelowIsOnTheWay DEF Rebased, Within
<1> QED
  BY <1>4, <1>5 DEF Within

(* Moving back is the inverse of moving.                                   *)
LEMMA RebasedBack ==
  ASSUME NEW p \in Path, NEW from \in Path, NEW to \in Path, Within(p, from)
  PROVE  Rebased(Rebased(p, from, to), to, from) = p
<1> DEFINE n == SubSeq(p, Len(from) + 1, Len(p))
           q == to \o n
           m == SubSeq(q, Len(to) + 1, Len(q))
           r == from \o m
<1>1. Len(from) \in Nat /\ Len(to) \in Nat /\ Len(p) \in Nat /\ Len(from) <= Len(p)
      /\ \A i \in 1..Len(from) : from[i] = p[i]
  BY BelowIsOnTheWay DEF Path, Within, OnTheWay
<1>2. n \in Path /\ Len(n) = Len(p) - Len(from)
      /\ \A i \in 1..Len(n) : n[i] = p[Len(from) + i]
  BY <1>1 DEF Path
<1>3. q \in Path /\ Len(q) = Len(to) + Len(n)
      /\ \A i \in 1..Len(n) : q[Len(to) + i] = n[i]
  BY <1>2, ConcatPaths
<1>4. m \in Path /\ Len(m) = Len(n) /\ \A i \in 1..Len(n) : m[i] = n[i]
  BY <1>1, <1>2, <1>3 DEF Path
<1>5. r \in Path /\ Len(r) = Len(from) + Len(m)
      /\ (\A i \in 1..Len(from) : r[i] = from[i]) /\ (\A i \in 1..Len(m) : r[Len(from) + i] = m[i])
  BY <1>4, ConcatPaths
<1>6. \A i \in 1..Len(p) : r[i] = p[i]
  <2> TAKE i \in 1..Len(p)
  <2>1. CASE i <= Len(from)
    BY <2>1, <1>1, <1>5
  <2>2. CASE i > Len(from)
    <3> DEFINE j == i - Len(from)
    <3>1. j \in 1..Len(n) /\ i = Len(from) + j
      BY <2>2, <1>1, <1>2
    <3>2. r[Len(from) + j] = m[j] /\ m[j] = n[j] /\ n[j] = p[Len(from) + j]
      BY <3>1, <1>2, <1>4, <1>5
    <3> QED
      BY <3>1, <3>2
  <2> QED
    BY <2>1, <2>2, <1>1
<1>7. Len(r) = Len(p)
  BY <1>1, <1>2, <1>4, <1>5
<1>8. r = p
  BY <1>5, <1>6, <1>7, SamePath
<1> QED
  BY <1>8 DEF Rebased

---------------------------------------------------------------------------
(* The calls keep the tree closed: the directories on the way to what is   *)
(* there are there too.                                                    *)

(* Where a call may make something new, all of them are there.             *)
LEMMA ParentExists ==
  ASSUME NEW t, NEW p, ParentError(t, p) = "ok"
  PROVE  \A a \in Ancestors(p) : a \in DOMAIN t /\ t[a].dir
BY DEF ParentError

(* A tree with one more entry in one of its directories is a tree.         *)
LEMMA WithIsClosed ==
  ASSUME NEW t, Closed(t), NEW p, p \notin DOMAIN t, ParentError(t, p) = "ok", NEW n
  PROVE  Closed(With(t, p, n))
<1> DEFINE u == With(t, p, n)
<1>1. DOMAIN u = DOMAIN t \cup {p} /\ \A q \in DOMAIN t : u[q] = t[q]
  BY DEF With
<1>2. \A q \in DOMAIN u : \A a \in Ancestors(q) : a \in DOMAIN t /\ t[a].dir
  BY <1>1, ParentExists DEF Closed
<1> QED
  BY <1>1, <1>2 DEF Closed

(* A tree without an entry and all below it is a tree.                     *)
LEMMA WithoutIsClosed ==
  ASSUME NEW t, Closed(t), DOMAIN t \subseteq Path, NEW p \in Path
  PROVE  Closed(Without(t, p))
<1> DEFINE u == Without(t, p)
<1>1. DOMAIN u = {q \in DOMAIN t : ~Within(q, p)} /\ \A q \in DOMAIN u : u[q] = t[q]
  BY DEF Without
<1>2. ASSUME NEW q \in DOMAIN u, NEW a \in Ancestors(q) PROVE a \in DOMAIN u /\ u[a].dir
  <2>1. q \in DOMAIN t /\ ~Within(q, p) /\ a \in DOMAIN t /\ t[a].dir
    BY <1>1 DEF Closed
  <2>2. Within(q, a)
    BY DEF Within, Below
  <2>3. ~Within(a, p)
    BY <2>1, <2>2, WithinTransitive
  <2> QED
    BY <1>1, <2>1, <2>3
<1> QED
  BY <1>2 DEF Closed

(* Changing what is there, but no file to a directory or back.             *)
LEMMA AlteredIsClosed ==
  ASSUME NEW t, Closed(t), NEW u, DOMAIN u = DOMAIN t, \A q \in DOMAIN t : u[q].dir = t[q].dir
  PROVE  Closed(u)
BY DEF Closed

(* What is renamed comes from somewhere, and each from somewhere else.     *)
Origin(q, from, to) == IF Within(q, to) THEN Rebased(q, to, from) ELSE q

(* Where each entry of a renamed tree comes from; no two come from the     *)
(* same one, and none that is not replaced is lost.                        *)
LEMMA RenamedFrom ==
  ASSUME NEW t, DOMAIN t \subseteq Path, NEW from \in Path, NEW to \in Path, to # <<>>
  PROVE  LET u == Renamed(t, from, to)
             back(q) == Origin(q, from, to)
         IN /\ DOMAIN u \subseteq Path
            /\ \A q \in DOMAIN u :
                 /\ u[q] = t[back(q)] /\ back(q) \in DOMAIN t
                 /\ IF Within(q, to) THEN Within(back(q), from) /\ q = Rebased(back(q), from, to)
                    ELSE back(q) = q /\ ~Within(q, from)
            /\ \A q, r \in DOMAIN u : back(q) = back(r) => q = r
            /\ \A r \in DOMAIN t : Within(r, from) => Rebased(r, from, to) \in DOMAIN u
            /\ \A r \in DOMAIN t : ~Within(r, from) /\ ~Within(r, to) => r \in DOMAIN u
<1> DEFINE u == Renamed(t, from, to)
           stays == {r \in DOMAIN t : ~Within(r, from) /\ ~Within(r, to)}
           moves == {s \in DOMAIN t : Within(s, from)}
           moved == {Rebased(r, from, to) : r \in moves}
<1>1. DOMAIN u = stays \cup moved
  BY DEF Renamed
<1>2. \A q \in stays \cup moved :
        u[q] = IF Within(q, to) THEN t[Rebased(q, to, from)] ELSE t[q]
  BY Zenon DEF Renamed
<1>3. \A r \in moves : /\ Rebased(r, from, to) \in Path
                       /\ Within(Rebased(r, from, to), to)
                       /\ Rebased(Rebased(r, from, to), to, from) = r
  BY RebasedIsWithin, RebasedBack
<1> HIDE DEF u
<1>4. ASSUME NEW q \in DOMAIN u
      PROVE  /\ q \in Path /\ u[q] = t[Origin(q, from, to)] /\ Origin(q, from, to) \in DOMAIN t
             /\ Within(q, to) => /\ Within(Origin(q, from, to), from)
                                 /\ q = Rebased(Origin(q, from, to), from, to)
             /\ ~Within(q, to) => Origin(q, from, to) = q /\ ~Within(q, from)
  <2>1. CASE q \in stays
    BY <1>1, <1>2, <2>1 DEF Origin
  <2>2. CASE q \in moved
    <3>1. PICK r \in moves : q = Rebased(r, from, to)
      BY <2>2
    <3>2. q \in Path /\ Within(q, to) /\ Rebased(q, to, from) = r
      BY <1>3, <3>1
    <3>3. Origin(q, from, to) = r
      BY <3>2 DEF Origin
    <3>4. u[q] = t[r]
      BY <1>2, <2>2, <3>2
    <3> QED
      BY <3>1, <3>2, <3>3, <3>4
  <2> QED
    BY <1>1, <2>1, <2>2
<1>5. ASSUME NEW q \in DOMAIN u, NEW r \in DOMAIN u, Origin(q, from, to) = Origin(r, from, to)
      PROVE  q = r
  BY <1>4, <1>5
<1>6. \A r \in DOMAIN t : Within(r, from) => Rebased(r, from, to) \in DOMAIN u
  BY <1>1
<1>7. \A r \in DOMAIN t : ~Within(r, from) /\ ~Within(r, to) => r \in DOMAIN u
  BY <1>1
<1> QED
  BY <1>4, <1>5, <1>6, <1>7 DEF u

(* What is below what is moved is moved with it.                           *)
LEMMA RebasedBelow ==
  ASSUME NEW q \in Path, NEW to \in Path, NEW from \in Path, from # <<>>, Within(q, to),
         NEW a \in Ancestors(q), Within(a, to)
  PROVE  Below(Rebased(q, to, from), Rebased(a, to, from))
<1> DEFINE m == SubSeq(q, Len(to) + 1, Len(q))
           n == SubSeq(a, Len(to) + 1, Len(a))
<1>1. a \in Path /\ OnTheWay(a, q)
  BY AncestorsOfPath, BelowIsOnTheWay DEF Below
<1>2. Len(to) \in Nat /\ Len(from) \in Nat /\ Len(q) \in Nat /\ Len(a) \in Nat
      /\ Len(to) <= Len(q) /\ Len(to) <= Len(a)
  BY <1>1, BelowIsOnTheWay DEF Path, Within, OnTheWay
<1>3. /\ m \in Path /\ Len(m) = Len(q) - Len(to) /\ \A i \in 1..Len(m) : m[i] = q[Len(to) + i]
      /\ n \in Path /\ Len(n) = Len(a) - Len(to) /\ \A i \in 1..Len(n) : n[i] = a[Len(to) + i]
  BY <1>1, <1>2 DEF Path
<1> HIDE DEF m, n
<1>4. /\ from \o m \in Path /\ Len(from \o m) = Len(from) + Len(m)
      /\ \A i \in 1..Len(from) : (from \o m)[i] = from[i]
      /\ \A i \in 1..Len(m) : (from \o m)[Len(from) + i] = m[i]
  BY <1>3, ConcatPaths
<1>5. /\ from \o n \in Path /\ Len(from \o n) = Len(from) + Len(n)
      /\ \A i \in 1..Len(from) : (from \o n)[i] = from[i]
      /\ \A i \in 1..Len(n) : (from \o n)[Len(from) + i] = n[i]
  BY <1>3, ConcatPaths
<1> DEFINE x == from \o m
           y == from \o n
<1>6. OnTheWay(y, x)
  <2>1. Len(y) \in 1..Len(x) - 1 /\ Len(from) >= 1
    <3>1. Len(a) < Len(q) /\ Len(from) >= 1
      BY <1>1, <1>2 DEF OnTheWay, Path
    <3> QED
      BY <1>2, <1>3, <1>4, <1>5, <3>1
  <2>2. x[Len(y) + 1] = "/"
    <3>1. Len(n) + 1 \in 1..Len(m) /\ Len(y) + 1 = Len(from) + (Len(n) + 1)
          /\ Len(to) + (Len(n) + 1) = Len(a) + 1
      BY <1>2, <1>3, <1>4, <1>5, <2>1
    <3>2. x[Len(from) + (Len(n) + 1)] = m[Len(n) + 1]
      BY <1>4, <3>1
    <3>3. m[Len(n) + 1] = q[Len(a) + 1]
      BY <1>3, <3>1
    <3> HIDE DEF x, y
    <3> QED
      BY <1>1, <3>1, <3>2, <3>3 DEF OnTheWay
  <2>3. ASSUME NEW i \in 1..Len(y) PROVE y[i] = x[i]
    <3>1. CASE i <= Len(from)
      BY <1>2, <1>4, <1>5, <3>1
    <3>2. CASE i > Len(from)
      <4> DEFINE j == i - Len(from)
      <4>1. j \in 1..Len(n) /\ j \in 1..Len(m) /\ i = Len(from) + j /\ Len(to) + j \in 1..Len(a)
        BY <1>2, <1>3, <1>4, <1>5, <2>1, <3>2
      <4>2. y[Len(from) + j] = n[j] /\ x[Len(from) + j] = m[j]
        BY <1>4, <1>5, <4>1
      <4>3. n[j] = a[Len(to) + j] /\ m[j] = q[Len(to) + j]
        BY <1>3, <4>1
      <4>4. a[Len(to) + j] = q[Len(to) + j]
        BY <1>1, <4>1 DEF OnTheWay
      <4> HIDE DEF x, y
      <4> QED
        BY <4>1, <4>2, <4>3, <4>4
    <3>3. i \in Nat
      BY <1>2, <1>3, <1>5
    <3> HIDE DEF x, y
    <3> QED
      BY <1>2, <3>1, <3>2, <3>3
  <2> QED
    BY <2>1, <2>2, <2>3 DEF OnTheWay
<1>7. Rebased(q, to, from) = x /\ Rebased(a, to, from) = y
  BY DEF Rebased, m, n
<1> HIDE DEF x, y
<1> QED
  BY <1>4, <1>5, <1>6, <1>7, BelowIsOnTheWay DEF x, y

(* os.Rename: the path that something gets is not within what is renamed.  *)
LEMMA RenamedIsClosed ==
  ASSUME NEW t, Closed(t), DOMAIN t \subseteq Path, NEW from \in Path, NEW to \in Path,
         from # <<>>, to # <<>>, RenameError(t, from, to) = "ok"
  PROVE  Closed(Renamed(t, from, to))
<1> DEFINE u == Renamed(t, from, to)
           back(q) == Origin(q, from, to)
<1>1. /\ LookupError(t, from) = "ok" /\ ParentError(t, to) = "ok" /\ ~Below(to, from)
  BY DEF RenameError
<1>2. from \in DOMAIN t
  BY <1>1 DEF LookupError
<1>3. /\ DOMAIN u \subseteq Path
      /\ \A q \in DOMAIN u :
           /\ u[q] = t[back(q)] /\ back(q) \in DOMAIN t
           /\ IF Within(q, to) THEN Within(back(q), from) /\ q = Rebased(back(q), from, to)
              ELSE back(q) = q /\ ~Within(q, from)
      /\ \A r \in DOMAIN t : Within(r, from) => Rebased(r, from, to) \in DOMAIN u
      /\ \A r \in DOMAIN t : ~Within(r, from) /\ ~Within(r, to) => r \in DOMAIN u
  BY RenamedFrom
<1> HIDE DEF u
<1>4. ASSUME NEW q \in DOMAIN u, NEW a \in Ancestors(q) PROVE a \in DOMAIN u /\ u[a].dir
  <2>0. q \in Path /\ a \in Path /\ Below(q, a) /\ Within(q, a)
    BY <1>3, AncestorsOfPath DEF Below, Within
  <2>1. CASE ~Within(q, to)
    <3>1. q \in DOMAIN t /\ ~Within(q, from)
      BY <1>3, <2>1
    <3>2. a \in DOMAIN t /\ t[a].dir
      BY <3>1 DEF Closed
    <3>3. ~Within(a, from) /\ ~Within(a, to)
      BY <2>0, <2>1, <3>1, WithinTransitive
    <3>4. a \in DOMAIN u
      BY <1>3, <3>2, <3>3
    <3>5. u[a] = t[a]
      BY <1>3, <3>3, <3>4
    <3> QED
      BY <3>2, <3>4, <3>5
  <2>2. CASE Within(q, to) /\ a \in Ancestors(to)
    <3>1. a \in DOMAIN t /\ t[a].dir
      BY <1>1, <2>2, ParentExists
    <3>2. OnTheWay(a, to)
      BY <2>0, <2>2, BelowIsOnTheWay DEF Below
    <3>3. ~Within(a, to)
      BY <2>0, <3>2, BelowIsOnTheWay DEF Within, OnTheWay, Path
    <3>4. ~Within(a, from)
      <4>1. SUFFICES ASSUME Within(a, from) PROVE FALSE
        OBVIOUS
      <4>2. Within(to, a)
        BY <2>2 DEF Within, Below
      <4>3. Within(to, from)
        BY <2>0, <4>1, <4>2, WithinTransitive
      <4>4. to = from
        BY <1>1, <4>3 DEF Within
      <4> QED
        BY <3>3, <4>1, <4>4
    <3>5. a \in DOMAIN u
      BY <1>3, <3>1, <3>3, <3>4
    <3>6. u[a] = t[a]
      BY <1>3, <3>3, <3>5
    <3> QED
      BY <3>1, <3>5, <3>6
  <2>3. CASE Within(q, to) /\ Within(a, to)
    <3> DEFINE b == Rebased(a, to, from)
    <3>1. Below(back(q), b)
      BY <2>0, <2>3, RebasedBelow DEF Origin
    <3>2. back(q) \in DOMAIN t
      BY <1>3
    <3>3. b \in DOMAIN t /\ t[b].dir
      BY <3>1, <3>2 DEF Closed, Below
    <3>4. Within(b, from)
      BY <2>0, <2>3, RebasedIsWithin
    <3>5. Rebased(b, from, to) = a
      BY <2>0, <2>3, RebasedBack
    <3>6. a \in DOMAIN u
      BY <1>3, <3>3, <3>4, <3>5
    <3>7. u[a] = t[b]
      BY <1>3, <2>3, <3>6 DEF Origin
    <3> QED
      BY <3>3, <3>6, <3>7
  <2> QED
    BY <2>0, <2>1, <2>2, <2>3, WithinOrAbove
<1> QED
  BY <1>4 DEF Closed, u

---------------------------------------------------------------------------
(* How deep what is in a tree lies.                                        *)

Depth(p) == Cardinality(Ancestors(p))

(* A set of natural numbers has a least one.                               *)
LEMMA Least ==
  ASSUME NEW S \in SUBSET Nat, S # {}
  PROVE  \E n \in S : \A m \in S : n <= m
<1> DEFINE less == {p \in Nat \X Nat : p[1] < p[2]}
<1>1. IsWellFoundedOn(less, Nat)
  BY NatLessThanWellFounded DEF OpToRel
<1>2. PICK n \in S : \A m \in S : <<m, n>> \notin less
  <2> HIDE DEF less
  <2> QED
    BY <1>1, WFMin
<1>3. ASSUME NEW m \in S PROVE n <= m
  <2>1. m \in Nat /\ n \in Nat
    OBVIOUS
  <2>2. ~(m < n)
    BY <1>2, <2>1
  <2> QED
    BY <2>1, <2>2
<1> QED
  BY <1>3

(* Of two directories on the way to the same path, one is within the other.*)
LEMMA OnOneWay ==
  ASSUME NEW q \in Path, NEW a \in Path, NEW b \in Path, Below(q, a), Below(q, b),
         Len(a) <= Len(b)
  PROVE  Within(b, a)
<1>1. OnTheWay(a, q) /\ OnTheWay(b, q)
  BY BelowIsOnTheWay
<1>2. CASE Len(a) = Len(b)
  <2>1. a = b
    BY <1>1, <1>2, SamePath DEF OnTheWay
  <2> QED
    BY <2>1 DEF Within
<1>3. CASE Len(a) < Len(b)
  <2>1. OnTheWay(a, b)
    BY <1>1, <1>3 DEF OnTheWay, Path
  <2> QED
    BY <2>1, BelowIsOnTheWay DEF Within
<1> QED
  BY <1>2, <1>3 DEF Path

(* What is below a directory is longer than it.                            *)
LEMMA BelowIsLonger ==
  ASSUME NEW q \in Path, NEW d \in Path, Below(q, d)
  PROVE  Len(d) \in Nat /\ Len(q) \in Nat /\ Len(d) < Len(q)
BY BelowIsOnTheWay DEF OnTheWay, Path

(* A path has a depth.                                                     *)
LEMMA DepthIsNat ==
  ASSUME NEW p \in Path
  PROVE  Depth(p) \in Nat
BY AncestorsOfPath, FS_CardinalityType DEF Depth

(* What is below a directory lies deeper, and its entries by one.          *)
LEMMA BelowIsDeeper ==
  ASSUME NEW q \in Path, NEW d \in Path, Below(q, d)
  PROVE  Depth(d) + 1 <= Depth(q)
<1>1. d \notin Ancestors(d)
  BY BelowIsLonger DEF Below
<1>2. Ancestors(d) \cup {d} \subseteq Ancestors(q)
  <2>1. ASSUME NEW a \in Ancestors(d) PROVE a \in Ancestors(q)
    <3>1. a \in Path /\ Below(d, a)
      BY AncestorsOfPath DEF Below
    <3>2. Within(q, a)
      BY <3>1, WithinTransitive DEF Within
    <3>3. q # a
      BY <3>1, BelowIsLonger
    <3> QED
      BY <3>2, <3>3 DEF Within, Below
  <2> QED
    BY <2>1 DEF Below
<1>3. IsFiniteSet(Ancestors(d)) /\ IsFiniteSet(Ancestors(q))
  BY AncestorsOfPath
<1>4. Cardinality(Ancestors(d) \cup {d}) = Cardinality(Ancestors(d)) + 1
  BY <1>1, <1>3, FS_AddElement
<1>5. Cardinality(Ancestors(d) \cup {d}) <= Cardinality(Ancestors(q))
  BY <1>2, <1>3, FS_Subset
<1> QED
  BY <1>4, <1>5 DEF Depth

(* What is in a directory is one level below it.                           *)
LEMMA ChildIsDeeperByOne ==
  ASSUME NEW q \in Path, NEW d \in Path, IsChild(q, d)
  PROVE  Depth(q) = Depth(d) + 1
<1>1. Below(q, d)
  BY DEF IsChild
<1>2. Ancestors(q) \subseteq Ancestors(d) \cup {d}
  <2>1. ASSUME NEW a \in Ancestors(q) PROVE a \in Ancestors(d) \cup {d}
    <3>1. a \in Path /\ Below(q, a) /\ Len(a) <= Len(d)
      BY AncestorsOfPath DEF Below, IsChild
    <3> QED
      BY <1>1, <3>1, OnOneWay DEF Within, Below
  <2> QED
    BY <2>1
<1>3. IsFiniteSet(Ancestors(d)) /\ Depth(d) \in Nat /\ Depth(q) \in Nat
  BY AncestorsOfPath, DepthIsNat
<1>4. /\ IsFiniteSet(Ancestors(d) \cup {d})
      /\ Cardinality(Ancestors(d) \cup {d}) <= Cardinality(Ancestors(d)) + 1
  BY <1>3, FS_AddElement DEF Depth
<1>5. Cardinality(Ancestors(q)) <= Cardinality(Ancestors(d) \cup {d})
  BY <1>2, <1>4, FS_Subset
<1>6. Depth(d) + 1 <= Depth(q)
  BY <1>1, BelowIsDeeper
<1> QED
  BY <1>3, <1>4, <1>5, <1>6, FS_CardinalityType DEF Depth

(* What a directory contains, but not as an entry, is in one of those      *)
(* among its entries.                                                      *)
LEMMA TowardsChild ==
  ASSUME NEW t, Closed(t), NEW q \in DOMAIN t, q \in Path, NEW d \in Path,
         Below(q, d), ~IsChild(q, d)
  PROVE  \E x \in Children(t, d) : x \in Path /\ t[x].dir /\ Below(q, x)
<1> DEFINE S == {Len(a) : a \in {b \in Ancestors(q) : Len(b) > Len(d)}}
<1>1. Ancestors(q) \subseteq Path /\ Len(d) \in Nat
  BY AncestorsOfPath DEF Path
<1>2. \A a \in Ancestors(q) : Len(a) \in Nat
  BY <1>1 DEF Path
<1>3. S # {} /\ S \in SUBSET Nat
  <2>1. PICK a \in Ancestors(q) : ~(Len(a) <= Len(d))
    BY DEF IsChild
  <2>2. Len(a) > Len(d)
    BY <1>1, <1>2, <2>1
  <2>3. Len(a) \in S
    BY <2>2
  <2> QED
    BY <1>2, <2>3
<1>4. PICK n \in S : \A m \in S : n <= m
  <2> HIDE DEF S
  <2> QED
    BY <1>3, Least
<1>5. PICK x \in Ancestors(q) : Len(x) > Len(d) /\ n = Len(x)
  OBVIOUS
<1>6. x \in Path /\ x \in DOMAIN t /\ t[x].dir /\ Below(q, x)
  BY <1>1 DEF Closed, Below
<1>7. Below(x, d)
  BY <1>1, <1>2, <1>5, <1>6, OnOneWay DEF Within
<1>8. ASSUME NEW a \in Ancestors(x) PROVE Len(a) <= Len(d)
  <2>1. a \in Path /\ Below(x, a)
    BY <1>6, AncestorsOfPath DEF Below
  <2>2. Len(a) < Len(x) /\ Len(a) \in Nat
    BY <1>6, <2>1, BelowIsLonger
  <2>3. Within(q, a)
    BY <1>6, <2>1, WithinTransitive DEF Within
  <2>4. q # a
    BY <1>6, <2>2, BelowIsLonger
  <2>5. a \in Ancestors(q)
    BY <2>3, <2>4 DEF Within, Below
  <2> QED
    BY <1>1, <1>2, <1>4, <1>5, <2>2, <2>5
<1> QED
  BY <1>6, <1>7, <1>8 DEF Children, IsChild
---------------------------------------------------------------------------
(* A search that goes through the directories ds one after the other has P *)
(* of what it looks for, M, and what is left is in those directories.  They *)
(* lie next to each other, those that lie deeper by one come last.         *)

BreadthFirst(M, P, ds) ==
  /\ P \subseteq M
  /\ \A q \in M : q \notin P <=> \E i \in DOMAIN ds : Below(q, ds[i])
  /\ \A i, j \in DOMAIN ds : i # j => ~Within(ds[i], ds[j])
  /\ \A i, j \in DOMAIN ds :
       i <= j => Depth(ds[i]) <= Depth(ds[j]) /\ Depth(ds[j]) <= Depth(ds[1]) + 1
  /\ ds # <<>> => \A p \in P : Depth(p) <= Depth(ds[1]) + 1

(* The entries of directory d among the paths of M.                        *)
EntriesOf(M, d) == {q \in M : IsChild(q, d)}

(* Of the paths that are in two directories one directory is in the other. *)
LEMMA ApartBelow ==
  ASSUME NEW q \in Path, NEW a \in Path, NEW b \in Path, ~Within(a, b), ~Within(b, a)
  PROVE  ~(Below(q, a) /\ Below(q, b))
<1>1. Len(a) \in Nat /\ Len(b) \in Nat
  BY DEF Path
<1> QED
  BY <1>1, OnOneWay

(* Entries of a directory are not in each other.                           *)
LEMMA ApartEntries ==
  ASSUME NEW d \in Path, NEW q \in Path, NEW x \in Path, IsChild(q, d), IsChild(x, d)
  PROVE  ~Below(q, x)
<1>1. Len(d) < Len(x) /\ Len(d) \in Nat /\ Len(x) \in Nat
  BY BelowIsLonger DEF IsChild
<1>2. x \in Ancestors(q) => Len(x) <= Len(d)
  BY DEF IsChild
<1> QED
  BY <1>1, <1>2 DEF Below

(* What is left lies as deep as the next directory at least.               *)
LEMMA LeftIsDeeper ==
  ASSUME NEW M, M \subseteq Path, NEW P, NEW ds \in Seq(Path), BreadthFirst(M, P, ds),
         ds # <<>>
  PROVE  /\ \A q \in M \ P : Depth(ds[1]) + 1 <= Depth(q)
         /\ \A q \in M : IsChild(q, ds[1]) => q \notin P
<1>1. Depth(ds[1]) \in Nat /\ 1 \in DOMAIN ds /\ ds[1] \in Path
  BY DepthIsNat
<1>2. ASSUME NEW q \in M \ P PROVE Depth(ds[1]) + 1 <= Depth(q)
  <2>1. PICK i \in DOMAIN ds : Below(q, ds[i])
    BY <1>2 DEF BreadthFirst
  <2>2. i \in Nat /\ 1 <= i /\ ds[i] \in Path
    OBVIOUS
  <2>3. Depth(ds[1]) <= Depth(ds[i])
    BY <1>1, <2>2 DEF BreadthFirst
  <2>4. Depth(ds[i]) + 1 <= Depth(q)
    BY <2>1, <2>2, BelowIsDeeper
  <2>5. Depth(ds[i]) \in Nat /\ Depth(q) \in Nat
    BY <2>2, DepthIsNat
  <2> QED
    BY <1>1, <2>3, <2>4, <2>5
<1>3. ASSUME NEW q \in M, IsChild(q, ds[1]) PROVE q \notin P
  BY <1>1, <1>3 DEF BreadthFirst, IsChild
<1> QED
  BY <1>2, <1>3

(* es is what is left of the list ds without its first, then the m of v.   *)
Advanced(ds, m, v, es) ==
  /\ Len(es) = Len(ds) - 1 + m
  /\ \A i \in 1..Len(ds) - 1 : es[i] = ds[i + 1]
  /\ \A i \in 1..m : es[Len(ds) - 1 + i] = v[i]

(* A step of the search: the entries of the first directory that it looks  *)
(* for are found, those that are directories are put at the end.           *)
LEMMA NextDirectory ==
  ASSUME NEW t, Closed(t), DOMAIN t \subseteq Path, NEW M, M \subseteq DOMAIN t, NEW P,
         NEW ds \in Seq(Path), ds # <<>>, BreadthFirst(M, P, ds),
         NEW m \in Nat, NEW v \in [1..m -> Path], \A i, j \in 1..m : v[i] = v[j] => i = j,
         \A q : (q \in Children(t, ds[1]) /\ t[q].dir) <=> \E i \in 1..m : q = v[i],
         NEW es \in Seq(Path), Advanced(ds, m, v, es)
  PROVE  BreadthFirst(M, P \cup EntriesOf(M, ds[1]), es)
<1> SUFFICES ASSUME Len(es) = Len(ds) - 1 + m,
                    \A i \in 1..Len(ds) - 1 : es[i] = ds[i + 1],
                    \A i \in 1..m : es[Len(ds) - 1 + i] = v[i]
             PROVE  BreadthFirst(M, P \cup EntriesOf(M, ds[1]), es)
  BY DEF Advanced
<1> DEFINE d == ds[1]
           D == Depth(d)
           n == Len(ds) - 1
           C == EntriesOf(M, d)
<1>0. \A q : q \in C <=> q \in M /\ IsChild(q, d)
  BY DEF EntriesOf
<1>1. n \in Nat /\ DOMAIN ds = 1..n + 1 /\ DOMAIN es = 1..n + m /\ d \in Path /\ D \in Nat
  BY DepthIsNat
<1>2. \A i \in 1..n : i + 1 \in DOMAIN ds /\ i + 1 # 1 /\ es[i] = ds[i + 1] /\ es[i] \in Path
  BY <1>1
<1>3. \A i \in 1..m : v[i] \in Path /\ IsChild(v[i], d) /\ Below(v[i], d)
  BY DEF Children, IsChild
<1>4. \A i \in DOMAIN es : i \in 1..n \/ \E k \in 1..m : i = n + k /\ es[i] = v[k]
  <2>1. ASSUME NEW i \in 1..n + m, i \notin 1..n PROVE i - n \in 1..m /\ i = n + (i - n)
    BY <1>1, <2>1
  <2>2. \A k \in 1..m : es[n + k] = v[k]
    OBVIOUS
  <2>3. ASSUME NEW i \in 1..n + m, i \notin 1..n
        PROVE  \E k \in 1..m : i = n + k /\ es[i] = v[k]
    <3>1. PICK k \in 1..m : i = n + k
      BY <2>1, <2>3
    <3> HIDE DEF n
    <3> QED
      BY <2>2, <3>1
  <2>4. DOMAIN es = 1..n + m
    BY <1>1
  <2> HIDE DEF n
  <2> QED
    BY <2>3, <2>4
<1>5. \A i \in 1..n + 1 : D <= Depth(ds[i]) /\ Depth(ds[i]) <= D + 1
  BY <1>1, SMTT(30) DEF BreadthFirst
<1>6. \A i \in 1..m : Depth(v[i]) = D + 1
  BY <1>1, <1>3, ChildIsDeeperByOne, ZenonT(60)
<1>7. M \subseteq Path /\ 1 \in DOMAIN ds /\ P \subseteq M
  BY <1>1 DEF BreadthFirst
<1>8. \A i \in 1..n : ~Within(es[i], d) /\ ~Within(d, es[i])
  <2>1. ASSUME NEW i \in 1..n PROVE ~Within(ds[i + 1], ds[1]) /\ ~Within(ds[1], ds[i + 1])
    <3>1. i + 1 \in DOMAIN ds /\ 1 \in DOMAIN ds /\ i + 1 # 1
      BY <1>1, <1>2
    <3> QED
      BY <3>1 DEF BreadthFirst
  <2> QED
    BY <1>2, <2>1
<1> HIDE DEF d, D, n, C
<1>a. ASSUME NEW q \in M, q \notin P \cup C PROVE \E i \in DOMAIN es : Below(q, es[i])
  <2>1. PICK i \in DOMAIN ds : Below(q, ds[i])
    BY <1>a DEF BreadthFirst
  <2>2. CASE i # 1
    <3>1. i - 1 \in 1..n /\ (i - 1) + 1 = i
      BY <1>1, <2>2
    <3>2. es[i - 1] = ds[i]
      BY <1>2, <3>1
    <3>3. i - 1 \in DOMAIN es
      BY <1>1, <3>1
    <3> QED
      BY <2>1, <3>2, <3>3
  <2>3. CASE i = 1
    <3>1. Below(q, d) /\ ~IsChild(q, d)
      BY <1>0, <2>1, <2>3, <1>a DEF d
    <3>2. PICK x \in Children(t, d) : x \in Path /\ t[x].dir /\ Below(q, x)
      BY <1>1, <1>7, <3>1, TowardsChild
    <3>3. PICK k \in 1..m : x = v[k]
      BY <3>2 DEF d
    <3>4. es[n + k] = v[k] /\ n + k \in DOMAIN es
      BY <1>1 DEF n
    <3> QED
      BY <3>2, <3>3, <3>4
  <2> QED
    BY <2>2, <2>3
<1>b. ASSUME NEW q \in M, NEW i \in DOMAIN es, Below(q, es[i]) PROVE q \notin P \cup C
  <2>1. CASE i \in 1..n
    <3>1. q \notin P
      BY <1>2, <1>b, <2>1 DEF BreadthFirst
    <3>2. ~Below(q, d)
      BY <1>1, <1>2, <1>7, <1>8, <1>b, <2>1, ApartBelow
    <3> QED
      BY <1>0, <3>1, <3>2 DEF IsChild
  <2>2. ASSUME NEW k \in 1..m, es[i] = v[k] PROVE q \notin P \cup C
    <3>1. Below(q, v[k])
      BY <1>b, <2>2
    <3>2. Within(q, d)
      BY <1>1, <1>3, <1>7, <3>1, WithinTransitive DEF Within
    <3>3. q # d
      BY <1>1, <1>3, <1>7, <3>1, BelowIsLonger
    <3>4. q \notin P
      BY <1>7, <3>2, <3>3 DEF Within, BreadthFirst, d
    <3>5. ~IsChild(q, d)
      BY <1>1, <1>3, <1>7, <3>1, ApartEntries
    <3> QED
      BY <1>0, <3>4, <3>5
  <2> QED
    BY <1>4, <2>1, <2>2
<1>c. ASSUME NEW i \in DOMAIN es, NEW j \in DOMAIN es, i # j PROVE ~Within(es[i], es[j])
  <2>1. CASE i \in 1..n /\ j \in 1..n
    <3>1. i + 1 # j + 1
      BY <1>c, <2>1
    <3> QED
      BY <1>2, <2>1, <3>1 DEF BreadthFirst
  <2>2. ASSUME i \in 1..n, NEW k \in 1..m, es[j] = v[k] PROVE ~Within(es[i], es[j])
    <3>1. ~Within(es[i], d) /\ es[i] \in Path /\ Within(v[k], d) /\ v[k] \in Path
      BY <1>2, <1>3, <1>8, <2>2 DEF Within
    <3> QED
      BY <1>1, <2>2, <3>1, WithinTransitive
  <2>3. ASSUME j \in 1..n, NEW k \in 1..m, es[i] = v[k] PROVE ~Within(es[i], es[j])
    <3>1. /\ ~Within(es[j], d) /\ ~Within(d, es[j]) /\ es[j] \in Path
          /\ Below(v[k], d) /\ v[k] \in Path
      BY <1>2, <1>3, <1>8, <2>3
    <3>2. es[j] # v[k] /\ ~Below(v[k], es[j])
      BY <1>1, <3>1, ApartBelow DEF Within
    <3> QED
      BY <2>3, <3>2 DEF Within
  <2>4. ASSUME NEW k \in 1..m, NEW l \in 1..m, i = n + k, j = n + l, es[i] = v[k], es[j] = v[l]
        PROVE  ~Within(es[i], es[j])
    <3>1. k # l
      BY <1>c, <2>4
    <3>2. v[k] # v[l]
      BY <3>1
    <3>3. ~Below(v[k], v[l])
      BY <1>1, <1>3, ApartEntries
    <3> QED
      BY <2>4, <3>2, <3>3 DEF Within
  <2> QED
    BY <1>4, <2>1, <2>2, <2>3, <2>4
<1>9. \A i \in DOMAIN es : D <= Depth(es[i]) /\ Depth(es[i]) <= D + 1 /\ Depth(es[i]) \in Nat
  <2>1. ASSUME NEW i \in DOMAIN es PROVE D <= Depth(es[i]) /\ Depth(es[i]) <= D + 1
    <3>1. CASE i \in 1..n
      BY <1>1, <1>2, <1>5, <3>1
    <3>2. CASE \E k \in 1..m : es[i] = v[k]
      BY <1>1, <1>6, <3>2
    <3> QED
      BY <1>4, <3>1, <3>2
  <2>2. \A i \in DOMAIN es : Depth(es[i]) \in Nat
    BY DepthIsNat
  <2> QED
    BY <2>1, <2>2
<1>d. ASSUME NEW i \in DOMAIN es, NEW j \in DOMAIN es, i <= j
      PROVE  Depth(es[i]) <= Depth(es[j]) /\ Depth(es[j]) <= Depth(es[1]) + 1
  <2>1. 1 \in DOMAIN es
    BY <1>1
  <2>2. Depth(es[j]) <= Depth(es[1]) + 1
    <3>1. D <= Depth(es[1]) /\ Depth(es[1]) \in Nat
      BY <1>9, <2>1
    <3>2. Depth(es[j]) <= D + 1 /\ Depth(es[j]) \in Nat
      BY <1>9
    <3> QED
      BY <1>1, <3>1, <3>2
  <2>3. CASE i \in 1..n /\ j \in 1..n
    <3>1. i + 1 <= j + 1
      BY <1>d, <2>3
    <3> QED
      BY <1>2, <2>2, <2>3, <3>1 DEF BreadthFirst
  <2>4. CASE j \notin 1..n
    <3>1. Depth(es[j]) = D + 1
      BY <1>4, <1>6, <2>4
    <3> QED
      BY <1>1, <1>9, <2>2, <3>1
  <2>5. j \in 1..n => i \in 1..n
    BY <1>1, <1>d
  <2> QED
    BY <2>3, <2>4, <2>5
<1>e. ASSUME es # <<>>, NEW p \in P \cup C PROVE Depth(p) <= Depth(es[1]) + 1
  <2>1. 1 \in DOMAIN es
    BY <1>e
  <2>2. Depth(p) <= D + 1
    <3>1. CASE p \in P
      BY <3>1 DEF BreadthFirst, D, d
    <3>2. CASE p \in C
      BY <1>0, <1>1, <1>7, <3>2, ChildIsDeeperByOne DEF D
    <3> QED
      BY <1>e, <3>1, <3>2
  <2>3. Depth(p) \in Nat /\ p \in Path
    BY <1>0, <1>7, DepthIsNat
  <2>4. D <= Depth(es[1]) /\ Depth(es[1]) \in Nat
    BY <1>9, <2>1
  <2> QED
    BY <1>1, <2>2, <2>3, <2>4
<1>10. P \cup C \subseteq M
  BY <1>0, <1>7
<1> QED
  BY <1>10, <1>a, <1>b, <1>c, <1>d, <1>e DEF BreadthFirst, C, d
=============================================================================
