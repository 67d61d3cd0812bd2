------------------------------ MODULE FileTree ------------------------------
(***************************************************************************)
(* The file system as the calls of package os see it: a tree of files and  *)
(* directories, by path.  A path is a sequence of characters, as           *)
(* path.Clean leaves it: absolute, or relative to the working directory.   *)
(* "/" and the working directory always exist and are not in the tree.     *)
(* External: what src/htfile/htfile.go relies on.                          *)
(***************************************************************************)
EXTENDS Naturals, Sequences

CONSTANT Char

Path == Seq(Char)

(* The directories on the way to p.                                        *)
Ancestors(p) == {SubSeq(p, 1, i - 1) : i \in {j \in 2..Len(p) : p[j] = "/"}}

Below(p, d) == d \in Ancestors(p)

Within(p, d) == p = d \/ Below(p, d)

(* Whether q is an entry of directory d.                                   *)
IsChild(q, d) == Below(q, d) /\ \A a \in Ancestors(q) : Len(a) <= Len(d)

Children(t, d) == {q \in DOMAIN t : IsChild(q, d)}

(* Whether the directories on the way to what is in t are all there.       *)
Closed(t) == \A p \in DOMAIN t : \A a \in Ancestors(p) : a \in DOMAIN t /\ t[a].dir

(* Where q, within from, is when from becomes to.                          *)
Rebased(q, from, to) == to \o SubSeq(q, Len(from) + 1, Len(q))

---------------------------------------------------------------------------
(* The error, or "ok", of a call with path p in tree t.                    *)

ParentError(t, p) ==
  IF \E a \in Ancestors(p) \cap DOMAIN t : ~t[a].dir THEN "ENOTDIR"
  ELSE IF Ancestors(p) \subseteq DOMAIN t THEN "ok" ELSE "ENOENT"

LookupError(t, p) ==
  IF ParentError(t, p) = "ok" /\ p \notin DOMAIN t THEN "ENOENT" ELSE ParentError(t, p)

MkdirError(t, p) ==
  IF ParentError(t, p) = "ok" /\ p \in DOMAIN t THEN "EEXIST" ELSE ParentError(t, p)

CreateError(t, p) ==
  IF ParentError(t, p) = "ok" /\ p \in DOMAIN t /\ t[p].dir
    THEN "EISDIR" ELSE ParentError(t, p)

RenameError(t, from, to) ==
  IF LookupError(t, from) # "ok" THEN LookupError(t, from)
  ELSE IF ParentError(t, to) # "ok" THEN ParentError(t, to)
  ELSE IF Below(to, from) THEN "EINVAL"
  ELSE IF to \in DOMAIN t /\ t[to].dir /\ ~t[from].dir THEN "EISDIR"
  ELSE IF to \in DOMAIN t /\ ~t[to].dir /\ t[from].dir THEN "ENOTDIR"
  ELSE IF from # to /\ Children(t, to) # {} THEN "ENOTEMPTY" ELSE "ok"

(* The tree with node n at p, without what is within p, and with what is   *)
(* within from moved to the path to.                                       *)

With(t, p, n) == [q \in DOMAIN t \cup {p} |-> IF q = p THEN n ELSE t[q]]

Without(t, p) == [q \in {r \in DOMAIN t : ~Within(r, p)} |-> t[q]]

Renamed(t, from, to) ==
  [q \in {r \in DOMAIN t : ~Within(r, from) /\ ~Within(r, to)}
         \cup {Rebased(r, from, to) : r \in {s \in DOMAIN t : Within(s, from)}} |->
     IF Within(q, to) THEN t[Rebased(q, to, from)] ELSE t[q]]
=============================================================================
