------------------------------ MODULE MCHtFile ------------------------------
(* Requests to a small tree: r is served, ra is beside it, both in the     *)
(* working directory.                                                      *)
EXTENDS HtFile, TLC

MCChar == {"/", ".", "r", "a", "b"}
MCRoot == <<"r">>
Beside == <<"r", "a">>
Above == <<".", ".">>
A == MCRoot \o <<"/", "a">>
AB == MCRoot \o <<"/", "a", "b">>
AA == A \o <<"/", "a">>
AAB == A \o <<"/", "a", "b">>
ABA == AB \o <<"/", "a">>
Names2 == {<<"a">>, <<"a", "b">>}

D(i) == [id |-> i, dir |-> TRUE, mode |-> "default", owner |-> "me", group |-> "g1"]
F(i) == [D(i) EXCEPT !.dir = FALSE]

Tree(inside) == (Beside :> F(1) @@ MCRoot :> D(2)) @@ inside
Data(n) == [i \in Ids |-> IF i = 1 THEN <<<<Old, 1>>>> ELSE IF i = n THEN <<<<Old, 1>>, <<Old, 2>>>> ELSE <<>>]

(* A directory with two files; a file beside a directory with a file of     *)
(* another user; an empty directory beside another one; nothing at all.    *)
MCTrees ==
  {[tree |-> Tree(A :> [D(3) EXCEPT !.mode = "m1"] @@ AA :> [F(4) EXCEPT !.mode = "m1"] @@ AAB :> F(5)),
    data |-> Data(4)],
   [tree |-> Tree(A :> F(3) @@ AB :> D(4) @@ ABA :> [F(5) EXCEPT !.owner = "other"]), data |-> Data(3)],
   [tree |-> Tree(A :> D(3) @@ AB :> D(4) @@ ABA :> D(5)), data |-> Data(1)],
   [tree |-> Beside :> F(1), data |-> Data(1)]}

Req(method, cmds, path) ==
  [method |-> method, cmds |-> cmds, path |-> path, to |-> <<>>, len |-> 0, json |-> "none",
   mode |-> "", owner |-> "", group |-> "", valid |-> TRUE, names |-> {}, content |-> FALSE,
   max |-> 0]

Puts == {[Req("PUT", <<>>, p) EXCEPT !.len = n] : p \in {A, AA, MCRoot}, n \in {1, 3}}
        \cup {[Req("POST", <<>>, AB) EXCEPT !.len = 2], Req("PUT", <<>>, Beside),
              Req("PUT", <<>>, Above \o <<"/">> \o MCRoot)}
Copies == {[Req("COPY", <<>>, p) EXCEPT !.to = <<q>>] : p \in {A, AB, MCRoot, AA}, q \in {A, AB, ABA, Beside}}
          \cup {[Req("POST", <<"copy">>, A) EXCEPT !.to = <<AB, ABA>>], [Req("COPY", <<>>, AA) EXCEPT !.to = <<AB, A>>]}
Renames == {[Req("RENAME", <<>>, p) EXCEPT !.to = <<q>>] : p \in {A, AB}, q \in {A, AB, ABA, Beside}}
           \cup {[Req("POST", <<"rename">>, AA) EXCEPT !.to = <<AB>>]}
Deletes == {Req("DELETE", <<>>, p) : p \in {A, MCRoot, Beside}} \cup {Req("POST", <<"delete">>, AB)}
Mkdirs == {Req("MKDIR", <<>>, A), Req("POST", <<"mkdir">>, ABA)}
ModProps ==
  {[Req("MODPROPS", <<>>, A) EXCEPT !.json = "props", !.len = 1, !.mode = "m2", !.owner = "other"],
   [Req("POST", <<"modprops">>, A) EXCEPT !.json = "props", !.len = 1, !.mode = "m2", !.group = "g2"],
   [Req("MODPROPS", <<>>, ABA) EXCEPT !.json = "props", !.len = 1, !.mode = "m2"],
   [Req("MODPROPS", <<>>, A) EXCEPT !.json = "props", !.len = 2, !.mode = "m2"],
   [Req("MODPROPS", <<>>, A) EXCEPT !.json = "props", !.len = 1, !.mode = "m2", !.group = "g0"],
   [Req("MODPROPS", <<>>, A) EXCEPT !.json = "invalid", !.len = 1]}
ReadReqs ==
  {Req("GET", <<>>, A), Req("HEAD", <<>>, A), Req("GET", <<>>, MCRoot), Req("PROPS", <<>>, ABA),
   Req("GET", <<"props">>, A), Req("OPTIONS", <<>>, A)}
Searches ==
  {[Req("SEARCH", <<>>, MCRoot) EXCEPT !.names = Names2, !.max = -1],
   [Req("SEARCH", <<>>, MCRoot) EXCEPT !.names = Names2, !.max = 1],
   [Req("GET", <<"search">>, MCRoot) EXCEPT !.names = {<<"a">>}, !.content = TRUE],
   [Req("SEARCH", <<>>, A) EXCEPT !.valid = FALSE]}
Refused ==
  {Req("GET", <<"delete">>, A), Req("DELETE", <<"mkdir">>, A), Req("PATCH", <<>>, A),
   Req("POST", <<"delete", "mkdir">>, A), Req("RENAME", <<>>, A)}

MCRequests == Puts \cup Copies \cup Renames \cup Deletes \cup Mkdirs \cup ModProps \cup ReadReqs
              \cup Searches \cup Refused

(* Paths by their names: as path.Clean writes them, as path.Join puts them *)
(* together, and where they lead to from a working directory far down.     *)
Entered(abs, names, name) ==
  IF name # Above THEN Append(names, name)
  ELSE IF names # <<>> /\ Last(names) # Above THEN Front(names)
  ELSE IF abs THEN names ELSE Append(names, name)
Clean(abs, names) ==
  LET Add(done, name) == Entered(abs, done, name) IN FoldLeft(Add, <<>>, names)
Spelt(abs, names) ==
  LET p == FlattenSeq([i \in DOMAIN names |-> <<"/">> \o names[i]])
  IN IF abs THEN IF p = <<>> THEN <<"/">> ELSE p
     ELSE IF p = <<>> THEN <<".">> ELSE Tail(p)
Place(abs, names) == Clean(TRUE, IF abs THEN names ELSE [i \in 1..7 |-> <<"w">>] \o names)
SomeNames(n) == UNION {[1..k -> {Above, <<"r">>, <<"r", "a">>}] : k \in 0..n}

(* Of what can be sent, getPath accepts what leads to within the served    *)
(* directory, whether that is given as an absolute or as a relative path.  *)
ASSUME GetPathAcceptsInside ==
  \A abs \in BOOLEAN : \A dn \in {Clean(abs, ns) : ns \in SomeNames(3)} :
    Bounded(Spelt(abs, dn)) =>
      \A sent \in SomeNames(4) :
        LET p == Clean(abs, dn \o sent)
        IN PathIntersect(Spelt(abs, dn), Spelt(abs, p)) \in {"leftContains", "samePath"}
             <=> IsPrefix(Place(abs, dn), Place(abs, p))

(* A third request comes only to put something else where a copy is about  *)
(* to open what it has looked at.                                          *)
MCNext ==
  /\ Next
  /\ served = 2 /\ served' = 3 =>
       \E g, h \in Handlers :
         /\ work[h] # <<>> /\ work[h][1].act = "open"
         /\ req'[g].path = work[h][1].from
         /\ req'[g].method \in {"PUT", "MKDIR"}

MCSpec == Init /\ [][MCNext]_vars

Symmetry == Permutations(Handlers)
=============================================================================
