---------------------------- MODULE KeyValProofs ----------------------------
(***************************************************************************)
(* The parser of KeyVal for texts of every length.                         *)
(***************************************************************************)
EXTENDS KeyVal, Integers, FiniteSets, FiniteSetTheorems, WellFoundedInduction, TLAPS

(* Between two lines nothing is collected, so only a comment can have text *)
(* without an entry.                                                       *)
Collects ==
  ts = "undefined" => token = <<>>

Inv == TypeOK /\ Collects

(* The reader begins with its invariant.                                   *)
LEMMA InitInv == Init => Inv
BY DEF Init, Inv, TypeOK, Collects, Runes

(* Entries are made and changed by key and value.                          *)
LEMMA EntryType ==
  /\ \A k \in Seq(Runes), v \in Seq(Runes) : [key |-> k, val |-> v] \in Entry
  /\ \A e \in Entry, t \in Seq(Runes) :
       [e EXCEPT !.key = t] \in Entry /\ [e EXCEPT !.val = t] \in Entry
BY DEF Entry

(* Nothing is a text.                                                      *)
LEMMA EmptyType == <<>> \in Seq(Runes) /\ <<>> \in Seq({"space"})
OBVIOUS

(* What assigning the key or the value of the last entry does.             *)
LEMMA LastAssigned ==
  ASSUME TypeOK, es # <<>>, NEW e \in Entry, es' = [es EXCEPT ![Len(es)] = e]
  PROVE  es' \in Seq(Entry) /\ es' # <<>>
<1>1. es \in Seq(Entry) /\ Len(es) \in 1..Len(es)
  BY DEF TypeOK
<1>2. es' \in Seq(Entry) /\ Len(es') = Len(es)
  BY <1>1
<1> QED
  BY <1>1, <1>2

(* What write does, from a line that may have no entry yet.                *)
LEMMA WriteInv ==
  ASSUME TypeOK, NEW c \in Runes, Write(c)
  PROVE  /\ ts' \in {"key", "value", "comment"}
         /\ ts' \in {"key", "value"} => es' # <<>>
         /\ es' \in Seq(Entry)
         /\ token' \in Seq(Runes)
         /\ spaces' \in Seq({"space"})
<1>1. ts' \in {"key", "value", "comment"} /\ (ts' # ts => ts = "undefined")
  BY DEF TypeOK, Write
<1>2. es' \in Seq(Entry) /\ (ts' \in {"key", "value"} => es' # <<>>)
  <2>1. CASE ts = "undefined"
    <3>1. [key |-> <<>>, val |-> <<>>] \in Entry
      BY EntryType, EmptyType
    <3>2. es' = Append(es, [key |-> <<>>, val |-> <<>>]) /\ es \in Seq(Entry)
      BY <2>1 DEF Write, TypeOK
    <3> QED
      BY <3>1, <3>2
  <2>2. CASE ts # "undefined"
    BY <2>2 DEF Write, TypeOK
  <2> QED
    BY <2>1, <2>2
<1>3. token' \in Seq(Runes)
  <2>1. token \in Seq(Runes) /\ spaces \in Seq(Runes) /\ <<c>> \in Seq(Runes)
    BY DEF TypeOK, Runes
  <2>2. token \o spaces \o <<c>> \in Seq(Runes)
    BY <2>1
  <2> QED
    BY <2>1, <2>2 DEF Write
<1>4. spaces' \in Seq({"space"})
  BY EmptyType DEF Write
<1> QED
  BY <1>1, <1>2, <1>3, <1>4

(* What a flush to the value of the last entry does.                       *)
LEMMA FlushInv ==
  ASSUME TypeOK, NEW then, FlushVal(then)
  PROVE  /\ es' \in Seq(Entry)
         /\ es # <<>> => es' # <<>>
         /\ token' = <<>>
         /\ spaces' \in Seq({"space"})
         /\ status' = then \/ (token # <<>> /\ es = <<>> /\ status' = "panicked")
<1>1. CASE token = <<>>
  BY <1>1 DEF TypeOK, FlushVal
<1>2. CASE token # <<>> /\ es = <<>>
  <2>1. es' = es /\ token' = <<>> /\ spaces' = <<>> /\ status' = "panicked"
    BY <1>2 DEF FlushVal
  <2> QED
    BY <1>2, <2>1, EmptyType DEF TypeOK
<1>3. CASE token # <<>> /\ es # <<>>
  <2>1. es[Len(es)] \in Entry /\ token \in Seq(Runes)
    BY <1>3 DEF TypeOK
  <2>2. [es[Len(es)] EXCEPT !.val = token] \in Entry
    BY <2>1, EntryType
  <2>3. /\ es' = [es EXCEPT ![Len(es)] = [es[Len(es)] EXCEPT !.val = token]]
        /\ token' = <<>> /\ spaces' = <<>> /\ status' = then
    BY <1>3 DEF FlushVal
  <2>4. es' \in Seq(Entry) /\ es' # <<>>
    BY <1>3, <2>2, <2>3, LastAssigned
  <2> QED
    BY <2>3, <2>4, EmptyType
<1> QED
  BY <1>1, <1>2, <1>3

(* A rune that was read, whatever is done with it.                         *)
LEMMA ReadInv ==
  ASSUME TypeOK, NEW c \in Runes, NEW escapes \in SUBSET {"one", "single", "double"},
         ~({"single", "double"} \subseteq escapes), ReadRune(c, escapes)
  PROVE  /\ read' \in Seq(Runes)
         /\ escn' \in SUBSET {"one", "single", "double"}
         /\ ~({"single", "double"} \subseteq escn')
         /\ status = "reading"
BY DEF TypeOK, ReadRune

(* Every step of the reader keeps its invariant.                           *)
LEMMA NextInv == Inv /\ [Next]_vars => Inv'
<1> SUFFICES ASSUME Inv, [Next]_vars PROVE Inv'
  OBVIOUS
<1> DEFINE Escapes == {e \in SUBSET {"one", "single", "double"} :
                        ~({"single", "double"} \subseteq e)}
<1>0. /\ TypeOK
      /\ Collects
      /\ escn \in Escapes /\ Pending \in Escapes /\ escn \cup {"one"} \in Escapes
      /\ token \in Seq(Runes) /\ es \in Seq(Entry) /\ spaces \in Seq({"space"})
  BY DEF Inv, TypeOK, Pending
<1>1. ASSUME NEW c \in Runes, NEW e \in Escapes, ReadRune(c, e), Write(c), UNCHANGED status
      PROVE  Inv'
  <2>1. /\ read' \in Seq(Runes) /\ escn' \in Escapes /\ status' = "reading"
    BY <1>0, <1>1, ReadInv
  <2> QED
    BY <1>0, <1>1, <2>1, WriteInv DEF Inv, TypeOK, Collects
<1>2. ASSUME NEW c \in Runes, NEW e \in Escapes, ReadRune(c, e), Skip, UNCHANGED status
      PROVE  Inv'
  <2>1. /\ read' \in Seq(Runes) /\ escn' \in Escapes /\ status' = "reading"
    BY <1>0, <1>2, ReadInv
  <2> QED
    BY <1>2, <2>1 DEF Inv, TypeOK, Collects, Skip
<1>3. CASE Backslash
  BY <1>0, <1>1, <1>2, <1>3 DEF Backslash, Runes
<1>4. ASSUME NEW c \in {"single", "double"}, Quote(c)
      PROVE  Inv'
  <2>1. c \in Runes /\ {} \in Escapes /\ {c} \in Escapes
    BY DEF Runes
  <2>2. \/ ReadRune(c, Pending) /\ Skip
        \/ ReadRune(c, Pending) /\ Write(c)
        \/ ReadRune(c, {}) /\ Skip
        \/ ReadRune(c, {c}) /\ Skip
    BY <1>4 DEF Quote
  <2> QED
    BY <1>0, <1>1, <1>2, <1>4, <2>1, <2>2 DEF Quote
<1>5. CASE Equals
  <2>1. CASE Skip \/ Write("=")
    BY <1>0, <1>1, <1>2, <1>5, <2>1 DEF Equals, Runes
  <2>2. CASE ~Skip /\ ~Write("=")
    <3>1. /\ ts \in {"undefined", "key"} /\ ts' = "value"
          /\ token' = <<>> /\ spaces' = <<>> /\ UNCHANGED status
          /\ es' = IF ts = "undefined"
                     THEN Append(es, [key |-> token, val |-> <<>>])
                     ELSE [es EXCEPT ![Len(es)].key = token]
      BY <1>5, <2>2 DEF Equals, EndKey
    <3>2. read' \in Seq(Runes) /\ escn' \in Escapes /\ status = "reading"
      BY <1>0, <1>5, ReadInv DEF Equals, Runes
    <3>3. CASE ts = "undefined"
      <4>1. [key |-> token, val |-> <<>>] \in Entry
        BY <1>0, EntryType, EmptyType
      <4>2. es' = Append(es, [key |-> token, val |-> <<>>])
        BY <3>1, <3>3
      <4>3. es' \in Seq(Entry) /\ es' # <<>>
        BY <1>0, <4>1, <4>2
      <4> QED
        BY <3>1, <3>2, <4>3, EmptyType DEF Inv, TypeOK, Collects
    <3>4. CASE ts = "key"
      <4>1. es # <<>> /\ es[Len(es)] \in Entry
        BY <1>0, <3>4 DEF TypeOK
      <4>2. [es[Len(es)] EXCEPT !.key = token] \in Entry
        BY <1>0, <4>1, EntryType
      <4>3. es' = [es EXCEPT ![Len(es)] = [es[Len(es)] EXCEPT !.key = token]]
        BY <3>1, <3>4
      <4>4. es' \in Seq(Entry) /\ es' # <<>>
        BY <1>0, <4>1, <4>2, <4>3, LastAssigned
      <4> QED
        BY <3>1, <3>2, <4>4, EmptyType DEF Inv, TypeOK, Collects
    <3> QED
      BY <3>1, <3>3, <3>4
  <2> QED
    BY <2>1, <2>2
<1>6. CASE NewLine
  <2>1. CASE (Skip \/ Write("newline")) /\ UNCHANGED status
    BY <1>0, <1>1, <1>2, <1>6, <2>1 DEF NewLine, Runes
  <2>2. CASE ts' = "undefined" /\ FlushVal("reading")
    <3>1. read' \in Seq(Runes) /\ escn' \in Escapes
      BY <1>0, <1>6, ReadInv DEF NewLine, Runes
    <3> QED
      BY <1>0, <2>2, <3>1, EmptyType, FlushInv DEF Inv, TypeOK, Collects
  <2> QED
    BY <1>6, <2>1, <2>2 DEF NewLine
<1>7. CASE Hash
  <2>1. CASE Skip \/ Write("#")
    BY <1>0, <1>1, <1>2, <1>7, <2>1 DEF Hash, Runes
  <2>2. CASE ts' = "comment" /\ UNCHANGED <<es, token, spaces>>
    <3>1. read' \in Seq(Runes) /\ escn' \in Escapes /\ status' = "reading"
      BY <1>0, <1>7, ReadInv DEF Hash, Runes
    <3> QED
      BY <1>0, <2>2, <3>1 DEF Inv, TypeOK, Collects
  <2> QED
    BY <1>7, <2>1, <2>2 DEF Hash
<1>8. CASE Space
  <2>1. CASE Skip \/ Write("space")
    BY <1>0, <1>1, <1>2, <1>8, <2>1 DEF Space, Runes
  <2>2. CASE spaces' = Append(spaces, "space") /\ UNCHANGED <<ts, es, token>>
    <3>1. read' \in Seq(Runes) /\ escn' \in Escapes /\ status' = "reading"
      BY <1>0, <1>8, ReadInv DEF Space, Runes
    <3>2. spaces' \in Seq({"space"})
      BY <1>0, <2>2
    <3> QED
      BY <1>0, <2>2, <3>1, <3>2 DEF Inv, TypeOK, Collects
  <2> QED
    BY <1>8, <2>1, <2>2 DEF Space
<1>9. CASE Letter
  BY <1>0, <1>1, <1>2, <1>9 DEF Letter, Runes
<1>10. CASE EndOfFile
  <2>1. escn' \in Escapes /\ UNCHANGED <<ts, read>> /\ FlushVal("returned")
    BY <1>0, <1>10 DEF EndOfFile
  <2>2. ts \in {"key", "value"} => es' # <<>>
    BY <1>0, <2>1, FlushInv DEF TypeOK
  <2> QED
    BY <1>0, <2>1, <2>2, EmptyType, FlushInv DEF Inv, TypeOK, Collects
<1>11. CASE UNCHANGED vars
  BY <1>11 DEF vars, Inv, TypeOK, Collects
<1> QED
  BY <1>3, <1>4, <1>5, <1>6, <1>7, <1>8, <1>9, <1>10, <1>11 DEF Next

(* The parser keeps its types, and has an entry wherever it needs one.     *)
THEOREM KeyValTypeCorrect == Spec => []TypeOK
<1>1. Inv => TypeOK
  BY DEF Inv
<1> QED
  BY InitInv, NextInv, <1>1, PTL DEF Spec

(* The reader can only fail within a comment.                              *)
LEMMA PanicStep ==
  Inv /\ [Next]_vars => (status = "reading" /\ status' = "panicked" => ts = "comment")
<1> SUFFICES ASSUME Inv, [Next]_vars, status = "reading", status' = "panicked"
             PROVE  ts = "comment"
  OBVIOUS
<1>1. NewLine \/ EndOfFile
  BY DEF Next, vars, Backslash, Quote, Equals, Hash, Space, Letter
<1>2. PICK then \in {"reading", "returned"} : FlushVal(then)
  BY <1>1 DEF NewLine, EndOfFile
<1>3. token # <<>> /\ es = <<>>
  BY <1>2, FlushInv DEF Inv
<1> QED
  BY <1>3 DEF Inv, TypeOK, Collects

(* The only texts that can end the program are those with comments.        *)
THEOREM OnlyCommentsPanic == Spec => PanicsOnlyInComments
BY InitInv, NextInv, PanicStep, PTL DEF Spec, PanicsOnlyInComments

---------------------------------------------------------------------------
(* Numbers.                                                                *)

(* A set of natural numbers has a least one: the induction of this module, *)
(* by the least number for which something does not hold.                  *)
LEMMA Least ==
  ASSUME NEW S \in SUBSET Nat, S # {}
  PROVE  \E n \in S : \A m \in S : n <= m
<1> DEFINE less == {p \in Nat \X Nat : p[1] < p[2]}
<1>1. IsWellFoundedOn(less, Nat)
  BY NatLessThanWellFounded DEF OpToRel
<1>2. PICK n \in S : \A m \in S : <<m, n>> \notin less
  <2> HIDE DEF less
  <2> QED
    BY <1>1, WFMin
<1>3. ASSUME NEW m \in S PROVE n <= m
  <2>1. m \in Nat /\ n \in Nat
    OBVIOUS
  <2>2. <<m, n>> \notin less
    BY <1>2
  <2>3. ~(m < n)
    BY <2>1, <2>2
  <2> QED
    BY <2>1, <2>3
<1> QED
  BY <1>2, <1>3

(* A set of numbers up to a bound has a greatest one.                      *)
LEMMA Greatest ==
  ASSUME NEW n \in Nat, NEW S \in SUBSET 0..n, S # {}
  PROVE  \E m \in S : \A k \in S : k <= m
<1> DEFINE T == {n - k : k \in S}
<1>1. PICK t \in T : \A u \in T : t <= u
  <2>1. \A k \in S : n - k \in Nat
    OBVIOUS
  <2>2. T \in SUBSET Nat /\ T # {}
    BY <2>1
  <2> HIDE DEF T
  <2> QED
    BY <2>2, Least
<1>2. PICK m \in S : t = n - m
  BY <1>1
<1>3. ASSUME NEW k \in S PROVE k <= m
  <2>1. n - k \in T /\ k \in 0..n /\ m \in 0..n
    OBVIOUS
  <2>2. t <= n - k
    BY <1>1, <2>1
  <2> QED
    BY <1>2, <2>1, <2>2
<1> QED
  BY <1>3

(* How many of the numbers in S are less than e.                           *)
Before(S, e) == {f \in S : f < e}

(* No two of the numbers have as many before them.                         *)
LEMMA NthUnique ==
  ASSUME NEW S \in SUBSET Nat, IsFiniteSet(S), NEW d \in S, NEW e \in S,
         Cardinality(Before(S, d)) = Cardinality(Before(S, e))
  PROVE  d = e
<1>1. ASSUME NEW a \in S, NEW b \in S, a < b,
             Cardinality(Before(S, a)) = Cardinality(Before(S, b))
      PROVE  FALSE
  <2>1. ASSUME NEW f \in S, f < a PROVE f < b
    <3>1. f \in Nat /\ a \in Nat /\ b \in Nat
      OBVIOUS
    <3> QED
      BY <1>1, <2>1, <3>1
  <2>4. Before(S, a) \in SUBSET Before(S, b)
    BY <2>1 DEF Before
  <2>2. a \in Before(S, b) /\ a \notin Before(S, a)
    BY <1>1 DEF Before
  <2>3. IsFiniteSet(Before(S, b))
    <3>1. Before(S, b) \in SUBSET S
      BY DEF Before
    <3> QED
      BY <3>1, FS_Subset
  <2> QED
    BY <1>1, <2>2, <2>3, <2>4, FS_Subset
<1>2. d < e \/ e < d \/ d = e
  OBVIOUS
<1> QED
  BY <1>1, <1>2

(* A finite set of numbers has an n-th element, for each n below its size. *)
LEMMA NthExists ==
  ASSUME NEW S \in SUBSET Nat, IsFiniteSet(S), NEW n \in Nat, n < Cardinality(S)
  PROVE  \E e \in S : Cardinality(Before(S, e)) = n
<1> DEFINE Lacks(T, k) == ~ \E e \in T : Cardinality(Before(T, e)) = k
           Bad == {c \in Nat : \E T \in SUBSET Nat : \E k \in Nat :
                     IsFiniteSet(T) /\ Cardinality(T) = c /\ k < c /\ Lacks(T, k)}
<1>1. Bad = {}
  <2> SUFFICES ASSUME Bad # {} PROVE FALSE
    OBVIOUS
  <2>1. PICK c \in Bad : \A d \in Bad : c <= d
    <3>1. Bad \in SUBSET Nat
      OBVIOUS
    <3> HIDE DEF Bad
    <3> QED
      BY <3>1, Least
  <2>2. PICK T \in SUBSET Nat, k \in Nat :
          IsFiniteSet(T) /\ Cardinality(T) = c /\ k < c /\ Lacks(T, k)
    OBVIOUS
  <2>3. c \in Nat /\ c # 0
    BY <2>2
  <2>4. T # {}
    BY <2>2, <2>3, FS_EmptySet
  <2>5. PICK l \in T : \A m \in T : l <= m
    BY <2>4, Least
  <2> DEFINE R == T \ {l}
  <2>6. R \in SUBSET Nat /\ IsFiniteSet(R) /\ Cardinality(R) = c - 1
    BY <2>2, FS_RemoveElement
  <2>7. CASE k = 0
    <3>1. \A f \in T : ~(f < l)
      <4> HIDE DEF R
      <4>1. \A f \in T : f \in Nat /\ l \in Nat
        OBVIOUS
      <4> QED
        BY <2>5, <4>1
    <3>2. Before(T, l) = {}
      BY <3>1 DEF Before
    <3> QED
      BY <2>2, <2>7, <3>2, FS_EmptySet
  <2>8. CASE k # 0
    <3>1. k - 1 \in Nat /\ k - 1 < c - 1 /\ c - 1 \in Nat /\ ~(c <= c - 1)
      BY <2>2, <2>3, <2>8
    <3>2. ~Lacks(R, k - 1)
      <4>1. c - 1 \notin Bad
        BY <2>1, <3>1
      <4> HIDE DEF Lacks, R
      <4> QED
        BY <2>6, <3>1, <4>1
    <3>3. PICK e \in R : Cardinality(Before(R, e)) = k - 1
      BY <3>2
    <3>4. Before(T, e) = Before(R, e) \cup {l} /\ l \notin Before(R, e)
      BY <2>5, <3>3 DEF Before
    <3>5. IsFiniteSet(Before(R, e))
      <4>1. Before(R, e) \in SUBSET R
        BY DEF Before
      <4> HIDE DEF R
      <4> QED
        BY <2>6, <4>1, FS_Subset
    <3>6. Cardinality(Before(T, e)) = (k - 1) + 1
      <4>1. PICK B : B = Before(R, e)
        OBVIOUS
      <4>2. Cardinality(B \cup {l}) = Cardinality(B) + 1
        BY <3>4, <3>5, <4>1, FS_AddElement
      <4> QED
        BY <3>3, <3>4, <4>1, <4>2
    <3>7. e \in T /\ Cardinality(Before(T, e)) = k
      BY <3>6, <2>2
    <3> QED
      BY <2>2, <3>7
  <2> QED
    BY <2>7, <2>8
<1>2. Cardinality(S) \in Nat
  BY FS_CardinalityType
<1> QED
  BY <1>1, <1>2

(* The n-th element is the one with n before it.                           *)
LEMMA NthIs ==
  ASSUME NEW S \in SUBSET Nat, IsFiniteSet(S), NEW e \in S, NEW n,
         Cardinality(Before(S, e)) = n
  PROVE  Nth(S, n) = e
<1>1. Nth(S, n) = CHOOSE f \in S : Cardinality(Before(S, f)) = n
  BY DEF Nth, Before
<1> QED
  BY <1>1, NthUnique

(* The n-th element is in the set, with n before it.                       *)
LEMMA NthType ==
  ASSUME NEW S \in SUBSET Nat, IsFiniteSet(S), NEW n \in Nat, n < Cardinality(S)
  PROVE  Nth(S, n) \in S /\ Cardinality(Before(S, Nth(S, n))) = n
BY NthExists, NthIs

(* A greater number comes after all the others.                            *)
LEMMA NthGrows ==
  ASSUME NEW S \in SUBSET Nat, IsFiniteSet(S), NEW m \in Nat, \A e \in S : e < m
  PROVE  /\ IsFiniteSet(S \cup {m}) /\ S \cup {m} \in SUBSET Nat
         /\ Cardinality(S) \in Nat /\ Cardinality(S \cup {m}) = Cardinality(S) + 1
         /\ \A n \in Nat : n < Cardinality(S) => Nth(S \cup {m}, n) = Nth(S, n)
         /\ Nth(S \cup {m}, Cardinality(S)) = m
<1> DEFINE T == S \cup {m}
<1>1. m \notin S
  OBVIOUS
<1>2. /\ IsFiniteSet(T) /\ T \in SUBSET Nat /\ m \in T
      /\ Cardinality(S) \in Nat /\ Cardinality(T) = Cardinality(S) + 1
  BY <1>1, FS_AddElement, FS_CardinalityType
<1>3. Before(T, m) = S
  <2>1. \A f \in T : f < m <=> f \in S
    OBVIOUS
  <2> QED
    BY <2>1 DEF Before
<1>4. Nth(T, Cardinality(S)) = m
  <2> HIDE DEF T
  <2> QED
    BY <1>2, <1>3, NthIs
<1>5. ASSUME NEW n \in Nat, n < Cardinality(S) PROVE Nth(T, n) = Nth(S, n)
  <2>1. PICK e \in S : e = Nth(S, n) /\ Cardinality(Before(S, e)) = n
    BY <1>5, NthType
  <2>2. Before(T, e) = Before(S, e) /\ e \in T
    BY DEF Before
  <2> HIDE DEF T
  <2> QED
    BY <1>2, <2>1, <2>2, NthIs
<1> QED
  BY <1>2, <1>4, <1>5

---------------------------------------------------------------------------
(* The recursive function of the lexer.                                    *)

(* Whether g is what Lex makes of the first k runes, one after the other.  *)
Lexes(g, text, k) ==
  g = [n \in 0..k |-> IF n = 0 THEN Beginning ELSE Lex(g[n - 1], text[n])]

(* Any text can be lexed, one character at a time.                         *)
LEMMA LexesExists ==
  ASSUME NEW text, NEW k \in Nat
  PROVE  \E g : Lexes(g, text, k)
<1> DEFINE Bad == {l \in Nat : ~ \E g : Lexes(g, text, l)}
<1>1. Bad = {}
  <2> SUFFICES ASSUME Bad # {} PROVE FALSE
    OBVIOUS
  <2>1. PICK l \in Bad : \A m \in Bad : l <= m
    <3>1. Bad \in SUBSET Nat
      OBVIOUS
    <3> HIDE DEF Bad
    <3> QED
      BY <3>1, Least
  <2>2. CASE l = 0
    <3> DEFINE h == [n \in 0..0 |-> Beginning]
    <3>1. h = [n \in 0..0 |-> IF n = 0 THEN Beginning ELSE Lex(h[n - 1], text[n])]
      OBVIOUS
    <3>2. Lexes(h, text, 0)
      BY <3>1 DEF Lexes
    <3> QED
      BY <2>1, <2>2, <3>2
  <2>3. CASE l # 0
    <3>1. l - 1 \in Nat /\ ~(l <= l - 1) /\ l \in Nat
      BY <2>3
    <3>2. \E g : Lexes(g, text, l - 1)
      BY <2>1, <3>1
    <3>3. PICK g : Lexes(g, text, l - 1)
      BY <3>2
    <3> DEFINE h == [n \in 0..l |-> IF n = l THEN Lex(g[l - 1], text[l]) ELSE g[n]]
    <3>4. ASSUME NEW n \in 0..l
          PROVE  h[n] = IF n = 0 THEN Beginning ELSE Lex(h[n - 1], text[n])
      <4>1. CASE n = l
        <5>1. l - 1 \in 0..l /\ l - 1 # l /\ h[n - 1] = g[l - 1]
          BY <3>1, <4>1
        <5> QED
          BY <2>3, <4>1, <5>1
      <4>2. CASE n # l
        <5>1. n \in 0..(l - 1) /\ h[n] = g[n]
          BY <3>1, <4>2
        <5>2. g[n] = IF n = 0 THEN Beginning ELSE Lex(g[n - 1], text[n])
          BY <3>3, <5>1 DEF Lexes
        <5>3. n # 0 => h[n - 1] = g[n - 1]
          BY <3>1, <5>1
        <5> QED
          BY <5>1, <5>2, <5>3
      <4> QED
        BY <4>1, <4>2
    <3>5. Lexes(h, text, l)
      <4>1. h = [n \in 0..l |-> h[n]]
        OBVIOUS
      <4> HIDE DEF h
      <4> QED
        BY <3>4, <4>1 DEF Lexes
    <3> QED
      BY <3>5
  <2> QED
    BY <2>2, <2>3
<1> QED
  BY <1>1

(* LexedUpTo is that.                                                      *)
LEMMA LexedUpToLexes ==
  ASSUME NEW text \in Seq(Runes)
  PROVE  Lexes(LexedUpTo(text), text, Len(text))
<1>1. Len(text) \in Nat
  OBVIOUS
<1>2. LexedUpTo(text) = CHOOSE g : Lexes(g, text, Len(text))
  BY DEF LexedUpTo, Lexes
<1> QED
  BY <1>1, <1>2, LexesExists

(* What more runes follow does not matter.                                 *)
LEMMA LexedPrefix ==
  ASSUME NEW text, NEW more, NEW g, NEW h, NEW k \in Nat, NEW l \in Nat, k <= l,
         Lexes(g, text, k), Lexes(h, more, l), \A i \in 1..k : text[i] = more[i]
  PROVE  \A n \in 0..k : g[n] = h[n]
<1> DEFINE Bad == {n \in 0..k : g[n] # h[n]}
<1> SUFFICES ASSUME Bad # {} PROVE FALSE
  OBVIOUS
<1>1. PICK n \in Bad : \A m \in Bad : n <= m
  <2>1. Bad \in SUBSET Nat
    OBVIOUS
  <2> HIDE DEF Bad
  <2> QED
    BY <2>1, Least
<1>2. n \in 0..k /\ n \in 0..l /\ g[n] # h[n]
  BY <1>1
<1>3. /\ g[n] = IF n = 0 THEN Beginning ELSE Lex(g[n - 1], text[n])
      /\ h[n] = IF n = 0 THEN Beginning ELSE Lex(h[n - 1], more[n])
  BY <1>2 DEF Lexes
<1>4. n # 0
  BY <1>2, <1>3
<1>5. n - 1 \in 0..k /\ ~(n <= n - 1) /\ text[n] = more[n]
  BY <1>2, <1>4
<1>6. g[n - 1] = h[n - 1]
  BY <1>1, <1>5
<1> QED
  BY <1>2, <1>3, <1>5, <1>6

(* No text, no lexemes.                                                    *)
LEMMA LexedEmpty == Lexed(<<>>) = Beginning
<1> DEFINE e == <<>>
<1>1. e \in Seq(Runes) /\ Len(e) = 0
  OBVIOUS
<1> HIDE DEF e
<1>2. LexedUpTo(e)[0] = Beginning
  <2>1. Lexes(LexedUpTo(e), e, 0)
    BY <1>1, LexedUpToLexes
  <2> QED
    BY <2>1 DEF Lexes
<1>3. Lexed(e) = Beginning
  BY <1>1, <1>2 DEF Lexed
<1> QED
  BY <1>3 DEF e

(* One more rune.                                                          *)
LEMMA LexedAppend ==
  ASSUME NEW text \in Seq(Runes), NEW c \in Runes
  PROVE  Lexed(Append(text, c)) = Lex(Lexed(text), c)
<1> DEFINE more == Append(text, c)
           n == Len(text)
<1>1. /\ n \in Nat /\ more \in Seq(Runes) /\ Len(more) = n + 1 /\ more[n + 1] = c
      /\ \A i \in 1..n : text[i] = more[i]
  OBVIOUS
<1> HIDE DEF more, n
<1>2. Lexes(LexedUpTo(text), text, n) /\ Lexes(LexedUpTo(more), more, n + 1)
  BY <1>1, LexedUpToLexes DEF n
<1>3. LexedUpTo(text)[n] = LexedUpTo(more)[n]
  <2>1. n + 1 \in Nat /\ n <= n + 1 /\ n \in 0..n
    BY <1>1
  <2> QED
    BY <1>1, <1>2, <2>1, LexedPrefix
<1>4. LexedUpTo(more)[n + 1] = Lex(LexedUpTo(more)[n], more[n + 1])
  <2>1. n + 1 \in 0..(n + 1) /\ n + 1 # 0 /\ (n + 1) - 1 = n
    BY <1>1
  <2> QED
    BY <1>2, <2>1 DEF Lexes
<1>5. Lexed(more) = Lex(Lexed(text), c)
  BY <1>1, <1>3, <1>4 DEF Lexed, n
<1> QED
  BY <1>5 DEF more

(* The first backslash in a comment that is escaped stays one.             *)
LEMMA BackslashAppend ==
  ASSUME NEW text \in Seq(Runes), NEW c \in Runes
  PROVE  BackslashInComment(Append(text, c)) <=>
           \/ BackslashInComment(text)
           \/ Lexed(text).mode = "comment" /\ Lexed(text).escaped /\ c = "backslash"
<1> DEFINE more == Append(text, c)
           n == Len(text)
           At(t, i) == /\ Lexed(SubSeq(t, 1, i - 1)).mode = "comment"
                       /\ Lexed(SubSeq(t, 1, i - 1)).escaped
                       /\ t[i] = "backslash"
<1>1. /\ n \in Nat /\ DOMAIN text = 1..n /\ DOMAIN more = 1..(n + 1)
      /\ more[n + 1] = c /\ \A i \in 1..n : text[i] = more[i]
  OBVIOUS
<1>2. \A i \in 1..n : SubSeq(more, 1, i - 1) = SubSeq(text, 1, i - 1)
  OBVIOUS
<1>3. SubSeq(more, 1, (n + 1) - 1) = text
  OBVIOUS
<1> HIDE DEF more, n
<1>4. \A i \in 1..n : At(more, i) <=> At(text, i)
  BY <1>1, <1>2
<1>5. At(more, n + 1) <=>
        Lexed(text).mode = "comment" /\ Lexed(text).escaped /\ c = "backslash"
  BY <1>1, <1>3
<1>6. /\ BackslashInComment(text) <=> \E i \in 1..n : At(text, i)
      /\ BackslashInComment(more) <=> \E i \in 1..(n + 1) : At(more, i)
  BY <1>1 DEF BackslashInComment
<1> HIDE DEF At
<1>7. 1..(n + 1) = (1..n) \cup {n + 1}
  BY <1>1
<1>8. (\E i \in 1..(n + 1) : At(more, i)) <=> (\E i \in 1..n : At(text, i)) \/ At(more, n + 1)
  BY <1>4, <1>7
<1> QED
  BY <1>5, <1>6, <1>8 DEF more

---------------------------------------------------------------------------
(* What a rune more does to a lexed text: to its marks, to what is left    *)
(* when it is trimmed, to its two sides of the first "=".                  *)

Lexeme == Runes \X BOOLEAN

Blank == <<"space", FALSE>>

(* The least element.                                                      *)
LEMMA MinIs ==
  ASSUME NEW S \in SUBSET Nat, NEW m \in S, \A k \in S : m <= k
  PROVE  Min(S) = m
<1>1. \A k \in S : k \in Nat
  OBVIOUS
<1>2. ASSUME NEW k \in S, \A l \in S : k <= l PROVE k = m
  <2>1. k <= m /\ m <= k /\ k \in Nat /\ m \in Nat
    BY <1>2
  <2> QED
    BY <2>1
<1> QED
  BY <1>2 DEF Min

(* The greatest element.                                                   *)
LEMMA MaxIs ==
  ASSUME NEW S \in SUBSET Nat, NEW m \in S, \A k \in S : k <= m
  PROVE  Max(S) = m
<1>1. \A k \in S : k \in Nat
  OBVIOUS
<1>2. ASSUME NEW k \in S, \A l \in S : k >= l PROVE k = m
  <2>1. k <= m /\ m <= k /\ k \in Nat /\ m \in Nat
    BY <1>2
  <2> QED
    BY <2>1
<1>3. \A l \in S : m >= l
  <2> SUFFICES ASSUME NEW l \in S PROVE m >= l
    OBVIOUS
  <2>1. l <= m /\ l \in Nat /\ m \in Nat
    OBVIOUS
  <2> QED
    BY <2>1
<1> QED
  BY <1>2, <1>3 DEF Max

(* Both are in the set and bound it.                                       *)
LEMMA MinMaxType ==
  ASSUME NEW n \in Nat, NEW S \in SUBSET 1..n, S # {}
  PROVE  /\ Min(S) \in S /\ Max(S) \in S
         /\ \A k \in S : Min(S) <= k /\ k <= Max(S)
<1>1. S \in SUBSET Nat /\ S \in SUBSET 0..n
  OBVIOUS
<1>2. PICK a \in S : \A k \in S : a <= k
  BY <1>1, Least
<1>3. PICK b \in S : \A k \in S : k <= b
  BY <1>1, Greatest
<1>4. Min(S) = a /\ Max(S) = b
  BY <1>1, <1>2, <1>3, MinIs, MaxIs
<1> QED
  BY <1>2, <1>3, <1>4

(* What they are when the next number comes.                               *)
LEMMA MinMaxGrows ==
  ASSUME NEW n \in Nat, NEW S \in SUBSET 1..n
  PROVE  /\ Max(S \cup {n + 1}) = n + 1
         /\ Min(S \cup {n + 1}) = IF S = {} THEN n + 1 ELSE Min(S)
<1> DEFINE T == S \cup {n + 1}
<1>1. T \in SUBSET Nat /\ n + 1 \in T /\ \A k \in T : k <= n + 1
  OBVIOUS
<1>2. Max(T) = n + 1
  <2> HIDE DEF T
  <2> QED
    BY <1>1, MaxIs
<1>3. CASE S = {}
  <2>1. \A k \in T : n + 1 <= k
    BY <1>3
  <2>2. Min(T) = n + 1
    <3> HIDE DEF T
    <3> QED
      BY <1>1, <2>1, MinIs
  <2> QED
    BY <1>2, <1>3, <2>2
<1>4. CASE S # {}
  <2>1. Min(S) \in S /\ \A k \in S : Min(S) <= k
    BY <1>4, MinMaxType
  <2>2. Min(S) \in 1..n
    BY <2>1
  <2>3. Min(S) \in T /\ \A k \in T : Min(S) <= k
    BY <2>1, <2>2
  <2>4. Min(T) = Min(S)
    <3> HIDE DEF T
    <3> QED
      BY <1>1, <2>3, MinIs
  <2> QED
    BY <1>2, <1>4, <2>4
<1> QED
  BY <1>3, <1>4

(* Marks and content are positions.                                        *)
LEMMA MarksType ==
  ASSUME NEW l \in Seq(Lexeme), NEW c
  PROVE  /\ Len(l) \in Nat
         /\ Marks(l, c) \in SUBSET 1..Len(l)
         /\ Content(l) \in SUBSET 1..Len(l)
<1>1. Len(l) \in Nat /\ DOMAIN l = 1..Len(l)
  OBVIOUS
<1>2. Marks(l, c) \subseteq DOMAIN l
  BY DEF Marks
<1>3. Content(l) \subseteq DOMAIN l
  BY DEF Content
<1> QED
  BY <1>1, <1>2, <1>3

(* What one more lexeme does to the marks.                                 *)
LEMMA MarksAppend ==
  ASSUME NEW l \in Seq(Lexeme), NEW x \in Lexeme, NEW c
  PROVE  Marks(Append(l, x), c) =
           IF x = <<c, FALSE>> THEN Marks(l, c) \cup {Len(l) + 1} ELSE Marks(l, c)
<1> DEFINE n == Len(l)
           m == Append(l, x)
<1>1. /\ n \in Nat /\ DOMAIN l = 1..n /\ DOMAIN m = (1..n) \cup {n + 1}
      /\ n + 1 \notin 1..n /\ m[n + 1] = x /\ \A i \in 1..n : m[i] = l[i]
  OBVIOUS
<1> HIDE DEF n, m
<1>2. Marks(m, c) = IF x = <<c, FALSE>> THEN Marks(l, c) \cup {n + 1} ELSE Marks(l, c)
  BY <1>1 DEF Marks
<1> QED
  BY <1>2 DEF n, m

(* What one more lexeme does to the content.                               *)
LEMMA ContentAppend ==
  ASSUME NEW l \in Seq(Lexeme), NEW x \in Lexeme
  PROVE  Content(Append(l, x)) =
           IF x = Blank THEN Content(l) ELSE Content(l) \cup {Len(l) + 1}
<1> DEFINE n == Len(l)
           m == Append(l, x)
<1>1. /\ n \in Nat /\ DOMAIN l = 1..n /\ DOMAIN m = (1..n) \cup {n + 1}
      /\ n + 1 \notin 1..n
  OBVIOUS
<1>2. Marks(m, "space") =
        IF x = Blank THEN Marks(l, "space") \cup {n + 1} ELSE Marks(l, "space")
  BY MarksAppend DEF Blank
<1>3. Marks(l, "space") \subseteq 1..n
  BY MarksType
<1> HIDE DEF n, m
<1>4. Content(m) = IF x = Blank THEN Content(l) ELSE Content(l) \cup {n + 1}
  BY <1>1, <1>2, <1>3 DEF Content
<1> QED
  BY <1>4 DEF n, m

(* A sequence is a function on its positions.                              *)
LEMMA SeqAs ==
  ASSUME NEW S, NEW s \in Seq(S), NEW n, Len(s) = n
  PROVE  s = [i \in 1..n |-> s[i]]
OBVIOUS

(* Sequences with the same elements are the same.                          *)
LEMMA SeqSame ==
  ASSUME NEW S, NEW s \in Seq(S), NEW t \in Seq(S), Len(s) = Len(t),
         \A i \in 1..Len(s) : s[i] = t[i]
  PROVE  s = t
OBVIOUS

(* The elements of two sequences, one after the other.                     *)
LEMMA Concat ==
  ASSUME NEW S, NEW s \in Seq(S), NEW t \in Seq(S),
         NEW j \in Nat, NEW k \in Nat, Len(s) = j, Len(t) = k
  PROVE  /\ s \o t \in Seq(S) /\ Len(s \o t) = j + k
         /\ \A i \in 1..j : (s \o t)[i] = s[i]
         /\ \A i \in 1..k : (s \o t)[j + i] = t[i]
OBVIOUS

(* The elements of a sequence and one more.                                *)
LEMMA ConcatOne ==
  ASSUME NEW S, NEW s \in Seq(S), NEW e \in S, NEW j \in Nat, Len(s) = j
  PROVE  /\ s \o <<e>> \in Seq(S) /\ Len(s \o <<e>>) = j + 1
         /\ \A i \in 1..j : (s \o <<e>>)[i] = s[i]
         /\ (s \o <<e>>)[j + 1] = e
OBVIOUS

(* The trimmed text, place by place.                                       *)
LEMMA TrimmedIs ==
  ASSUME NEW l \in Seq(Lexeme), Content(l) # {}
  PROVE  LET a == Min(Content(l))
             b == Max(Content(l))
         IN /\ a \in 1..Len(l) /\ b \in 1..Len(l) /\ a <= b
            /\ \A k \in Content(l) : k <= b
            /\ Trimmed(l) \in Seq(Runes)
            /\ Len(Trimmed(l)) = b - a + 1
            /\ \A i \in 1..(b - a + 1) : Trimmed(l)[i] = l[a + i - 1][1]
<1> DEFINE a == Min(Content(l))
           b == Max(Content(l))
           t == SubSeq(l, a, b)
<1>1. /\ a \in 1..Len(l) /\ b \in 1..Len(l) /\ a <= b /\ Len(l) \in Nat
      /\ \A k \in Content(l) : k <= b
  <2>1. Content(l) \in SUBSET 1..Len(l) /\ Len(l) \in Nat
    BY MarksType
  <2>2. a \in Content(l) /\ b \in Content(l) /\ \A k \in Content(l) : a <= k /\ k <= b
    BY <2>1, MinMaxType
  <2> HIDE DEF a, b
  <2> QED
    BY <2>1, <2>2
<1>2. Trimmed(l) = [i \in DOMAIN t |-> t[i][1]]
  BY DEF Trimmed
<1> HIDE DEF a, b
<1>3. /\ t \in Seq(Lexeme) /\ Len(t) = b - a + 1 /\ DOMAIN t = 1..(b - a + 1)
      /\ \A i \in 1..(b - a + 1) : t[i] = l[a + i - 1] /\ t[i][1] \in Runes
  <2>1. t \in Seq(Lexeme) /\ Len(t) = b - a + 1
        /\ \A i \in 1..(b - a + 1) : t[i] = l[a + i - 1]
    BY <1>1
  <2>2. \A i \in 1..(b - a + 1) : t[i] \in Lexeme
    <3> HIDE DEF t
    <3> QED
      BY <2>1
  <2> HIDE DEF t
  <2> QED
    BY <2>1, <2>2 DEF Lexeme
<1> HIDE DEF t
<1>4. b - a + 1 \in Nat
  BY <1>1
<1>5. Trimmed(l) = [i \in 1..(b - a + 1) |-> t[i][1]]
  BY <1>2, <1>3
<1>6. Trimmed(l) \in Seq(Runes) /\ Len(Trimmed(l)) = b - a + 1
  BY <1>3, <1>4, <1>5
<1>7. \A i \in 1..(b - a + 1) : Trimmed(l)[i] = l[a + i - 1][1]
  BY <1>3, <1>5
<1> QED
  BY <1>1, <1>6, <1>7 DEF a, b

(* Whether token is the trimmed text l, and spaces what it has after that. *)
Collected(l, tok, after) ==
  /\ tok = Trimmed(l)
  /\ Content(l) # {} => /\ after \in Seq({"space"})
                        /\ Len(after) = Len(l) - Max(Content(l))

(* A token is empty when nothing but blanks was read.                      *)
LEMMA CollectedEmpty ==
  ASSUME NEW l \in Seq(Lexeme), NEW tok, NEW after, Collected(l, tok, after)
  PROVE  tok = <<>> <=> Content(l) = {}
<1>1. CASE Content(l) = {}
  BY <1>1 DEF Collected, Trimmed
<1>2. CASE Content(l) # {}
  <2>1. Trimmed(l) \in Seq(Runes) /\ Len(Trimmed(l)) # 0
    <3>1. PICK a \in 1..Len(l), b \in 1..Len(l) :
            a <= b /\ Trimmed(l) \in Seq(Runes) /\ Len(Trimmed(l)) = b - a + 1
      BY <1>2, TrimmedIs
    <3>2. Len(l) \in Nat
      OBVIOUS
    <3> QED
      BY <3>1, <3>2
  <2>2. Trimmed(l) # <<>>
    BY <2>1
  <2> QED
    BY <1>2, <2>2 DEF Collected
<1> QED
  BY <1>1, <1>2

(* Nothing is collected of nothing.                                        *)
LEMMA CollectedNone ==
  ASSUME NEW after
  PROVE  Collected(<<>>, <<>>, after) /\ Content(<<>>) = {} /\ \A c : Marks(<<>>, c) = {}
<1>1. Content(<<>>) = {} /\ \A c : Marks(<<>>, c) = {}
  BY DEF Content, Marks
<1> QED
  BY <1>1 DEF Collected, Trimmed

(* A space that is not literal waits.                                      *)
LEMMA CollectSpace ==
  ASSUME NEW l \in Seq(Lexeme), NEW tok, NEW after, Collected(l, tok, after)
  PROVE  Collected(Append(l, Blank), tok, Append(after, "space"))
<1> DEFINE m == Append(l, Blank)
<1>1. Blank \in Lexeme
  BY DEF Blank, Lexeme, Runes
<1>2. Content(m) = Content(l) /\ Len(m) = Len(l) + 1
  BY <1>1, ContentAppend
<1>3. CASE Content(l) = {}
  BY <1>2, <1>3 DEF Collected, Trimmed
<1>4. CASE Content(l) # {}
  <2>1. m \in Seq(Lexeme) /\ Len(l) \in Nat /\ \A i \in 1..Len(l) : m[i] = l[i]
    BY <1>1
  <2> DEFINE a == Min(Content(l))
             b == Max(Content(l))
  <2>2. /\ a \in 1..Len(l) /\ b \in 1..Len(l) /\ a <= b
        /\ Trimmed(l) \in Seq(Runes) /\ Len(Trimmed(l)) = b - a + 1
        /\ \A i \in 1..(b - a + 1) : Trimmed(l)[i] = l[a + i - 1][1]
    BY <1>4, TrimmedIs
  <2>3. /\ Trimmed(m) \in Seq(Runes) /\ Len(Trimmed(m)) = b - a + 1
        /\ \A i \in 1..(b - a + 1) : Trimmed(m)[i] = m[a + i - 1][1]
    <3>1. Content(m) # {} /\ Min(Content(m)) = a /\ Max(Content(m)) = b
      BY <1>2, <1>4
    <3> HIDE DEF m, a, b
    <3> QED
      BY <2>1, <3>1, TrimmedIs
  <2> HIDE DEF m, a, b
  <2>4. \A i \in 1..(b - a + 1) : Trimmed(m)[i] = Trimmed(l)[i]
    <3> SUFFICES ASSUME NEW i \in 1..(b - a + 1) PROVE Trimmed(m)[i] = Trimmed(l)[i]
      OBVIOUS
    <3>1. a + i - 1 \in 1..Len(l)
      BY <2>1, <2>2
    <3> QED
      BY <2>1, <2>2, <2>3, <3>1
  <2>5. Trimmed(m) = Trimmed(l)
    BY <2>2, <2>3, <2>4, SeqSame
  <2>6. after \in Seq({"space"}) /\ Len(after) = Len(l) - b
    BY <1>4 DEF Collected, b
  <2>7. Append(after, "space") \in Seq({"space"}) /\ Len(Append(after, "space")) = Len(m) - b
    BY <1>2, <2>1, <2>2, <2>6, SMTT(30)
  <2> QED
    BY <1>2, <2>5, <2>7 DEF Collected, b, m
<1> QED
  BY <1>3, <1>4

(* Anything else comes after the spaces that waited.                       *)
LEMMA CollectRune ==
  ASSUME NEW l \in Seq(Lexeme), NEW tok, NEW after, Collected(l, tok, after),
         NEW x \in Lexeme, x # Blank
  PROVE  Collected(Append(l, x),
                   IF tok = <<>> THEN <<x[1]>> ELSE tok \o after \o <<x[1]>>, <<>>)
<1> DEFINE m == Append(l, x)
           n == Len(l)
           b == Max(Content(l))
           a == Min(Content(l))
<1>1. /\ n \in Nat /\ m \in Seq(Lexeme) /\ Len(m) = n + 1 /\ m[n + 1] = x
      /\ \A i \in 1..n : m[i] = l[i]
  OBVIOUS
<1>2. Content(m) = Content(l) \cup {n + 1} /\ Content(l) \in SUBSET 1..n
  BY ContentAppend, MarksType
<1>3. Max(Content(m)) = n + 1 /\ Min(Content(m)) = IF Content(l) = {} THEN n + 1 ELSE a
  BY <1>1, <1>2, MinMaxGrows
<1>4. x[1] \in Runes /\ <<x[1]>> \in Seq(Runes) /\ Len(<<x[1]>>) = 1 /\ <<x[1]>>[1] = x[1]
  BY DEF Lexeme
<1> DEFINE min == Min(Content(m))
<1> HIDE DEF m, n
<1>5. /\ min \in 1..(n + 1) /\ Trimmed(m) \in Seq(Runes)
      /\ Len(Trimmed(m)) = (n + 1) - min + 1
      /\ \A i \in 1..((n + 1) - min + 1) : Trimmed(m)[i] = m[min + i - 1][1]
  <2>1. Content(m) # {}
    BY <1>2
  <2> QED
    BY <1>1, <1>3, <2>1, TrimmedIs
<1>6. CASE Content(l) = {}
  <2>1. min = n + 1
    BY <1>3, <1>6
  <2>2. Len(Trimmed(m)) = 1 /\ Trimmed(m)[1] = x[1]
    <3>1. (n + 1) - min + 1 = 1 /\ min + 1 - 1 = n + 1 /\ 1 \in 1..1
      BY <1>1, <2>1
    <3> HIDE DEF min
    <3> QED
      BY <1>1, <1>5, <3>1
  <2>3. Trimmed(m) = <<x[1]>>
    <3>1. \A i \in 1..1 : i = 1
      OBVIOUS
    <3> DEFINE one == <<x[1]>>
    <3>2. one \in Seq(Runes) /\ Len(one) = 1 /\ one[1] = x[1]
      BY <1>4
    <3> HIDE DEF one
    <3>3. Trimmed(m) = one
      BY <1>5, <2>2, <3>1, <3>2, SeqSame
    <3> QED
      BY <3>3 DEF one
  <2>4. tok = <<>>
    BY <1>6 DEF Collected, Trimmed
  <2> QED
    BY <1>1, <1>3, <2>3, <2>4 DEF Collected, m
<1>7. CASE Content(l) # {}
  <2>1. min = a
    BY <1>3, <1>7
  <2>2. /\ a \in 1..n /\ b \in 1..n /\ a <= b /\ \A k \in Content(l) : k <= b
        /\ Trimmed(l) \in Seq(Runes) /\ Len(Trimmed(l)) = b - a + 1
        /\ \A i \in 1..(b - a + 1) : Trimmed(l)[i] = l[a + i - 1][1]
    BY <1>7, TrimmedIs DEF n
  <2>3. tok = Trimmed(l) /\ after \in Seq({"space"}) /\ Len(after) = n - b
    BY <1>7 DEF Collected, n
  <2> DEFINE whole == tok \o after \o <<x[1]>>
  <2>4. after \in Seq(Runes) /\ \A i \in 1..(n - b) : after[i] = "space"
    <3>1. \A i \in 1..(n - b) : after[i] \in {"space"}
      BY <2>3
    <3>2. after \in Seq(Runes)
      BY <2>3 DEF Runes
    <3> QED
      BY <3>1, <3>2
  <2> HIDE DEF a, b, min
  <2>5. /\ whole \in Seq(Runes) /\ Len(whole) = (n + 1) - a + 1
        /\ \A i \in 1..(b - a + 1) : whole[i] = tok[i]
        /\ \A i \in 1..(n - b) : whole[(b - a + 1) + i] = after[i]
        /\ whole[(n + 1) - a + 1] = x[1]
    <3>1. tok \in Seq(Runes) /\ Len(tok) = b - a + 1 /\ b - a + 1 \in Nat /\ n - b \in Nat
      BY <1>1, <2>2, <2>3
    <3> DEFINE front == tok \o after
    <3>2. /\ front \in Seq(Runes) /\ Len(front) = n - a + 1
          /\ \A i \in 1..(b - a + 1) : front[i] = tok[i]
          /\ \A i \in 1..(n - b) : front[(b - a + 1) + i] = after[i]
      <4>1. /\ front \in Seq(Runes) /\ Len(front) = (b - a + 1) + (n - b)
            /\ \A i \in 1..(b - a + 1) : front[i] = tok[i]
            /\ \A i \in 1..(n - b) : front[(b - a + 1) + i] = after[i]
        BY <2>3, <2>4, <3>1, Concat, SMTT(30)
      <4>2. (b - a + 1) + (n - b) = n - a + 1
        BY <1>1, <2>2
      <4> HIDE DEF front
      <4> QED
        BY <4>1, <4>2
    <3> HIDE DEF front
    <3>3. /\ front \o <<x[1]>> \in Seq(Runes)
          /\ Len(front \o <<x[1]>>) = (n - a + 1) + 1
          /\ \A i \in 1..(n - a + 1) : (front \o <<x[1]>>)[i] = front[i]
          /\ (front \o <<x[1]>>)[(n - a + 1) + 1] = x[1]
      <4>1. n - a + 1 \in Nat /\ 1 \in 1..1
        BY <1>1, <2>2
      <4>2. front \in Seq(Runes) /\ x[1] \in Runes /\ Len(front) = n - a + 1
        BY <1>4, <3>2
      <4> QED
        BY <4>1, <4>2, ConcatOne
    <3>4. whole = front \o <<x[1]>>
      BY DEF front
    <3> HIDE DEF whole
    <3> QED
      BY <1>1, <2>2, <3>2, <3>3, <3>4
  <2> HIDE DEF whole
  <2>6. ASSUME NEW i \in 1..Len(whole) PROVE whole[i] = Trimmed(m)[i]
    <3>1. i \in 1..((n + 1) - a + 1) /\ Trimmed(m)[i] = m[a + i - 1][1]
      BY <1>5, <2>1, <2>5
    <3>2. CASE i \in 1..(b - a + 1)
      <4>1. a + i - 1 \in 1..n
        BY <1>1, <2>2, <3>2
      <4> QED
        BY <1>1, <2>2, <2>3, <2>5, <3>1, <3>2, <4>1
    <3>3. CASE i = (n + 1) - a + 1
      <4>1. a + i - 1 = n + 1
        BY <1>1, <2>2, <3>3
      <4> QED
        BY <1>1, <2>5, <3>1, <3>3, <4>1
    <3>4. CASE i > b - a + 1 /\ i < (n + 1) - a + 1
      <4>1. /\ i - (b - a + 1) \in 1..(n - b) /\ (b - a + 1) + (i - (b - a + 1)) = i
            /\ a + i - 1 \in 1..n /\ ~(a + i - 1 <= b)
        BY <1>1, <2>2, <3>1, <3>4
      <4>2. whole[i] = "space"
        BY <2>4, <2>5, <4>1
      <4>3. a + i - 1 \notin Content(l) /\ DOMAIN l = 1..n
        BY <2>2, <4>1 DEF n
      <4>4. l[a + i - 1] = Blank
        BY <4>1, <4>3 DEF Content, Marks, Blank
      <4> QED
        BY <1>1, <3>1, <4>1, <4>2, <4>4 DEF Blank
    <3>5. i \in 1..(b - a + 1) \/ i = (n + 1) - a + 1 \/ (i > b - a + 1 /\ i < (n + 1) - a + 1)
      <4>1. i \in 1..((n + 1) - a + 1) /\ n \in Nat /\ a \in Nat /\ b \in Nat
        BY <1>1, <2>2, <3>1
      <4> QED
        BY <4>1
    <3> QED
      BY <3>2, <3>3, <3>4, <3>5
  <2>7. whole = Trimmed(m)
    BY <1>5, <2>1, <2>5, <2>6, SeqSame
  <2>8. tok # <<>>
    BY <1>7, CollectedEmpty
  <2> QED
    BY <1>1, <1>3, <2>7, <2>8 DEF Collected, whole, m
<1> QED
  BY <1>6, <1>7 DEF m

(* The two sides of the first "=".                                         *)
KeyOf(l) ==
  IF Marks(l, "=") = {} THEN <<>> ELSE Trimmed(SubSeq(l, 1, Min(Marks(l, "=")) - 1))

ValueOf(l) ==
  IF Marks(l, "=") = {} THEN l ELSE SubSeq(l, Min(Marks(l, "=")) + 1, Len(l))

Divider == <<"=", FALSE>>
LineEnd == <<"newline", FALSE>>

(* The blank, the divider and the line end are lexemes.                    *)
LEMMA MarkTypes ==
  Blank \in Lexeme /\ Divider \in Lexeme /\ LineEnd \in Lexeme /\ Blank # Divider
BY DEF Blank, Divider, LineEnd, Lexeme, Runes

(* The first mark is within the line.                                      *)
LEMMA FirstMark ==
  ASSUME NEW l \in Seq(Lexeme), NEW c, Marks(l, c) # {}
  PROVE  Min(Marks(l, c)) \in 1..Len(l)
<1>1. Marks(l, c) \in SUBSET 1..Len(l) /\ Len(l) \in Nat
  BY MarksType
<1> QED
  BY <1>1, MinMaxType

(* A trimmed line is a text.                                               *)
LEMMA TrimmedType ==
  ASSUME NEW l \in Seq(Lexeme)
  PROVE  Trimmed(l) \in Seq(Runes)
<1>1. CASE Content(l) = {}
  BY <1>1 DEF Trimmed
<1>2. CASE Content(l) # {}
  BY <1>2, TrimmedIs
<1> QED
  BY <1>1, <1>2

(* The entry of a line is its key and its value, trimmed.                  *)
LEMMA EntryOfIs ==
  ASSUME NEW l \in Seq(Lexeme)
  PROVE  /\ ValueOf(l) \in Seq(Lexeme)
         /\ KeyOf(l) \in Seq(Runes)
         /\ EntryOf(l) = [key |-> KeyOf(l), val |-> Trimmed(ValueOf(l))]
         /\ EntryOf(l) \in Entry
<1>1. ValueOf(l) \in Seq(Lexeme) /\ KeyOf(l) \in Seq(Runes)
  <2>1. CASE Marks(l, "=") = {}
    BY <2>1 DEF ValueOf, KeyOf
  <2>2. CASE Marks(l, "=") # {}
    <3>1. PICK i \in 1..Len(l) : i = Min(Marks(l, "="))
      BY <2>2, FirstMark
    <3>2. SubSeq(l, 1, i - 1) \in Seq(Lexeme) /\ SubSeq(l, i + 1, Len(l)) \in Seq(Lexeme)
      BY <3>1
    <3> QED
      BY <2>2, <3>1, <3>2, TrimmedType DEF ValueOf, KeyOf
  <2> QED
    BY <2>1, <2>2
<1>2. EntryOf(l) = [key |-> KeyOf(l), val |-> Trimmed(ValueOf(l))]
  BY DEF EntryOf, KeyOf, ValueOf
<1>3. Trimmed(ValueOf(l)) \in Seq(Runes)
  BY <1>1, TrimmedType
<1> QED
  BY <1>1, <1>2, <1>3, EntryType

(* One more element leaves a part before it.                               *)
LEMMA PrefixOfAppend ==
  ASSUME NEW S, NEW s \in Seq(S), NEW x \in S, NEW a \in Nat \ {0}, NEW b \in Int, b <= Len(s)
  PROVE  SubSeq(Append(s, x), a, b) = SubSeq(s, a, b)
OBVIOUS

(* One more element is the last of the rest.                               *)
LEMMA RestOfAppend ==
  ASSUME NEW S, NEW s \in Seq(S), NEW x \in S, NEW a \in 1..(Len(s) + 1)
  PROVE  /\ SubSeq(s, a, Len(s)) \in Seq(S)
         /\ SubSeq(Append(s, x), a, Len(s) + 1) = Append(SubSeq(s, a, Len(s)), x)
OBVIOUS

(* What follows in a line belongs to its value, unless it divides it.      *)
LEMMA DividedAppend ==
  ASSUME NEW l \in Seq(Lexeme), NEW x \in Lexeme, x # Divider \/ Marks(l, "=") # {}
  PROVE  /\ KeyOf(Append(l, x)) = KeyOf(l)
         /\ ValueOf(Append(l, x)) = Append(ValueOf(l), x)
         /\ (Marks(Append(l, x), "=") = {}) <=> (Marks(l, "=") = {})
<1> DEFINE m == Append(l, x)
           n == Len(l)
<1>1. n \in Nat /\ m \in Seq(Lexeme) /\ Len(m) = n + 1 /\ Marks(l, "=") \in SUBSET 1..n
  BY MarksType
<1>2. Marks(m, "=") = IF x = Divider THEN Marks(l, "=") \cup {n + 1} ELSE Marks(l, "=")
  BY MarksAppend DEF Divider
<1>3. CASE Marks(l, "=") = {}
  BY <1>2, <1>3 DEF KeyOf, ValueOf
<1>4. CASE Marks(l, "=") # {}
  <2>1. Min(Marks(m, "=")) = Min(Marks(l, "=")) /\ Marks(m, "=") # {}
    BY <1>1, <1>2, <1>4, MinMaxGrows
  <2>2. PICK i \in 1..n : i = Min(Marks(l, "="))
    BY <1>4, FirstMark
  <2>3. SubSeq(m, 1, i - 1) = SubSeq(l, 1, i - 1)
    BY <2>2, PrefixOfAppend
  <2>4. SubSeq(m, i + 1, n + 1) = Append(SubSeq(l, i + 1, n), x)
    <3>1. i + 1 \in 1..(Len(l) + 1)
      BY <2>2
    <3> QED
      BY <3>1, RestOfAppend
  <2> HIDE DEF m, n
  <2>5. KeyOf(m) = KeyOf(l)
    BY <1>4, <2>1, <2>2, <2>3 DEF KeyOf
  <2>6. ValueOf(m) = Append(ValueOf(l), x)
    BY <1>1, <1>4, <2>1, <2>2, <2>4 DEF ValueOf, n
  <2> QED
    BY <1>4, <2>1, <2>5, <2>6 DEF m
<1> QED
  BY <1>3, <1>4

(* At the first divider, the key is what was before it and the value is    *)
(* empty.                                                                  *)
LEMMA DividedHere ==
  ASSUME NEW l \in Seq(Lexeme), Marks(l, "=") = {}
  PROVE  /\ KeyOf(Append(l, Divider)) = Trimmed(l)
         /\ ValueOf(Append(l, Divider)) = <<>>
         /\ Marks(Append(l, Divider), "=") # {}
<1> DEFINE m == Append(l, Divider)
           n == Len(l)
<1>1. n \in Nat /\ m \in Seq(Lexeme) /\ Len(m) = n + 1
  BY MarkTypes
<1>2. Marks(m, "=") = {n + 1}
  BY MarkTypes, MarksAppend DEF Divider
<1>3. Min({n + 1}) = n + 1
  <2>1. {n + 1} \in SUBSET Nat /\ n + 1 \in {n + 1} /\ \A k \in {n + 1} : n + 1 <= k
    BY <1>1
  <2> HIDE DEF n
  <2> QED
    BY <2>1, MinIs
<1>4. SubSeq(m, 1, (n + 1) - 1) = l
  BY <1>1, MarkTypes
<1>5. SubSeq(m, (n + 1) + 1, n + 1) = <<>>
  BY <1>1
<1> HIDE DEF m, n
<1> QED
  BY <1>1, <1>2, <1>3, <1>4, <1>5 DEF KeyOf, ValueOf, m

---------------------------------------------------------------------------
(* The lines of a text, and their entries.                                 *)

Starts(s) == {0} \cup Marks(s, "newline")

(* The lines of a text are what is between its starts.                     *)
LEMMA LinesAre ==
  ASSUME NEW s \in Seq(Lexeme)
  PROVE  LET k == Cardinality(Starts(s))
         IN /\ Len(s) \in Nat /\ Starts(s) \in SUBSET 0..Len(s) /\ IsFiniteSet(Starts(s))
            /\ k \in Nat \ {0}
            /\ \A n \in 0..(k - 1) : Nth(Starts(s), n) \in 0..Len(s)
            /\ Lines(s) = [i \in 1..k |->
                 SubSeq(s, Nth(Starts(s), i - 1) + 1,
                        IF i < k THEN Nth(Starts(s), i) - 1 ELSE Len(s))]
<1> DEFINE B == Starts(s)
           k == Cardinality(B)
           E == B \cup {Len(s) + 1}
<1>1. Len(s) \in Nat /\ B \in SUBSET 0..Len(s) /\ 0 \in B
  <2>1. Marks(s, "newline") \in SUBSET 1..Len(s) /\ Len(s) \in Nat
    BY MarksType
  <2> QED
    BY <2>1 DEF Starts
<1>2. IsFiniteSet(B) /\ B \in SUBSET Nat
  <2>1. IsFiniteSet(0..Len(s))
    BY <1>1, FS_Interval
  <2>2. \A e \in B : e \in Nat
    BY <1>1
  <2> HIDE DEF B
  <2>3. IsFiniteSet(B)
    BY <1>1, <2>1, FS_Subset
  <2> QED
    BY <2>2, <2>3
<1>3. k \in Nat \ {0}
  <2>1. k \in Nat
    BY <1>2, FS_CardinalityType
  <2>2. k # 0
    BY <1>1, <1>2, FS_EmptySet
  <2> QED
    BY <2>1, <2>2
<1>4. \A n \in 0..(k - 1) : Nth(B, n) \in 0..Len(s)
  <2> SUFFICES ASSUME NEW n \in 0..(k - 1) PROVE Nth(B, n) \in 0..Len(s)
    OBVIOUS
  <2>1. n \in Nat /\ n < Cardinality(B)
    BY <1>3
  <2> HIDE DEF B
  <2> QED
    BY <1>1, <1>2, <2>1, NthType
<1>5. /\ Cardinality(E) = k + 1
      /\ \A n \in Nat : n < k => Nth(E, n) = Nth(B, n)
      /\ Nth(E, k) = Len(s) + 1
  <2>1. Len(s) + 1 \in Nat /\ \A e \in B : e < Len(s) + 1
    BY <1>1
  <2> HIDE DEF B
  <2> QED
    BY <1>2, <2>1, NthGrows
<1>6. Lines(s) = [i \in 1..Cardinality(E) - 1 |-> SubSeq(s, Nth(E, i - 1) + 1, Nth(E, i) - 1)]
  BY DEF Lines, Starts
<1> HIDE DEF B, E, k
<1>7. ASSUME NEW i \in 1..k
      PROVE  SubSeq(s, Nth(E, i - 1) + 1, Nth(E, i) - 1) =
             SubSeq(s, Nth(B, i - 1) + 1, IF i < k THEN Nth(B, i) - 1 ELSE Len(s))
  <2>1. i - 1 \in Nat /\ i - 1 < k /\ i \in Nat /\ (i < k \/ i = k)
    BY <1>3
  <2>2. Nth(E, i - 1) = Nth(B, i - 1)
    BY <1>5, <2>1
  <2>3. CASE i < k
    BY <1>5, <2>1, <2>2, <2>3
  <2>4. CASE i = k
    <3>1. (Len(s) + 1) - 1 = Len(s) /\ ~(i < k)
      BY <1>1, <1>3, <2>4
    <3> QED
      BY <1>5, <2>2, <2>4, <3>1
  <2> QED
    BY <2>1, <2>3, <2>4
<1>8. 1..Cardinality(E) - 1 = 1..k
  BY <1>3, <1>5
<1> QED
  BY <1>1, <1>2, <1>3, <1>4, <1>6, <1>7, <1>8 DEF B, k

(* Whether the lines of s are those of front, and cur at last.             *)
Parts(s, front, cur) ==
  /\ front \in Seq(Seq(Lexeme))
  /\ cur \in Seq(Lexeme)
  /\ Lines(s) = Append(front, cur)

(* A text without a character is one empty line.                           *)
LEMMA PartsEmpty == Parts(<<>>, <<>>, <<>>)
<1> DEFINE e == <<>>
<1>1. e \in Seq(Lexeme) /\ e \in Seq(Seq(Lexeme)) /\ Len(e) = 0 /\ Marks(e, "newline") = {}
  BY DEF Marks
<1>2. Starts(e) = {0} /\ Cardinality({0}) = 1
  BY <1>1, FS_Singleton DEF Starts
<1> HIDE DEF e
<1>3. Nth({0}, 0) \in 0..0
  <2>1. \A n \in 0..(Cardinality(Starts(e)) - 1) : Nth(Starts(e), n) \in 0..Len(e)
    BY <1>1, LinesAre
  <2>2. 0 \in 0..(1 - 1)
    OBVIOUS
  <2> QED
    BY <1>1, <1>2, <2>1, <2>2
<1>4. Lines(e) = [i \in 1..1 |->
                    SubSeq(e, Nth({0}, i - 1) + 1, IF i < 1 THEN Nth({0}, i) - 1 ELSE Len(e))]
  <2>1. Lines(e) = [i \in 1..Cardinality(Starts(e)) |->
                      SubSeq(e, Nth(Starts(e), i - 1) + 1,
                             IF i < Cardinality(Starts(e)) THEN Nth(Starts(e), i) - 1 ELSE Len(e))]
    BY <1>1, LinesAre
  <2>2. Starts(e) = {0} /\ Cardinality(Starts(e)) = 1
    BY <1>2
  <2> QED
    BY <2>1, <2>2, Zenon
<1>5. SubSeq(e, 0 + 1, 0) = e
  BY DEF e
<1>6. \A i \in 1..1 : i = 1 /\ ~(i < 1) /\ i - 1 = 0
  OBVIOUS
<1>7. Nth({0}, 0) = 0
  BY <1>3
<1>8. Lines(e) = [i \in 1..1 |-> e]
  BY <1>1, <1>4, <1>5, <1>6, <1>7
<1>9. Append(<<>>, e) = [i \in 1..1 |-> e]
  OBVIOUS
<1> QED
  BY <1>1, <1>8, <1>9 DEF Parts, e

(* The complete lines of a text and the present one.                       *)
LEMMA PartsAre ==
  ASSUME NEW s \in Seq(Lexeme), NEW front, NEW cur, Parts(s, front, cur)
  PROVE  LET k == Cardinality(Starts(s))
         IN /\ k \in Nat \ {0} /\ Len(front) = k - 1
            /\ cur = SubSeq(s, Nth(Starts(s), k - 1) + 1, Len(s))
            /\ \A i \in 1..(k - 1) :
                 front[i] = SubSeq(s, Nth(Starts(s), i - 1) + 1, Nth(Starts(s), i) - 1)
<1> DEFINE k == Cardinality(Starts(s))
           n == Len(front)
<1>1. /\ k \in Nat \ {0}
      /\ Lines(s) = [i \in 1..k |-> SubSeq(s, Nth(Starts(s), i - 1) + 1,
                                           IF i < k THEN Nth(Starts(s), i) - 1 ELSE Len(s))]
  BY LinesAre
<1>2. /\ front \in Seq(Seq(Lexeme)) /\ cur \in Seq(Lexeme)
      /\ n \in Nat /\ DOMAIN Append(front, cur) = 1..(n + 1)
      /\ Append(front, cur)[n + 1] = cur
      /\ \A i \in 1..n : Append(front, cur)[i] = front[i]
  BY DEF Parts
<1>3. Lines(s) = Append(front, cur)
  BY DEF Parts
<1> HIDE DEF k, n
<1>4. n + 1 = k
  <2>1. 1..k = 1..(n + 1)
    BY <1>1, <1>2, <1>3
  <2>2. k \in 1..k /\ n + 1 \in 1..(n + 1)
    BY <1>1, <1>2
  <2>3. k \in 1..(n + 1) /\ n + 1 \in 1..k
    BY <2>1, <2>2
  <2> QED
    BY <1>1, <1>2, <2>3
<1>5. k \in 1..k /\ ~(k < k) /\ cur = Lines(s)[k]
  BY <1>1, <1>2, <1>3, <1>4
<1>6. \A i \in 1..(k - 1) : i \in 1..k /\ i \in 1..n /\ i < k /\ front[i] = Lines(s)[i]
  <2>1. \A i \in 1..(k - 1) : i \in 1..k /\ i \in 1..n /\ i < k
    BY <1>1, <1>2, <1>4
  <2> QED
    BY <1>2, <1>3, <2>1
<1>7. cur = SubSeq(s, Nth(Starts(s), k - 1) + 1, Len(s))
  BY <1>1, <1>5
<1>8. \A i \in 1..(k - 1) : front[i] = SubSeq(s, Nth(Starts(s), i - 1) + 1, Nth(Starts(s), i) - 1)
  BY <1>1, <1>6
<1>9. n = k - 1
  BY <1>1, <1>2, <1>4
<1> QED
  BY <1>1, <1>7, <1>8, <1>9 DEF k, n

(* A rune within a line.                                                   *)
LEMMA PartsRune ==
  ASSUME NEW s \in Seq(Lexeme), NEW front, NEW cur, Parts(s, front, cur),
         NEW x \in Lexeme, x # LineEnd
  PROVE  Parts(Append(s, x), front, Append(cur, x))
<1> DEFINE t == Append(s, x)
           B == Starts(s)
           k == Cardinality(B)
<1>1. t \in Seq(Lexeme) /\ Len(s) \in Nat /\ Len(t) = Len(s) + 1
  OBVIOUS
<1>2. Starts(t) = B
  BY MarksAppend DEF Starts, LineEnd
<1>3. /\ k \in Nat \ {0} /\ Len(front) = k - 1
      /\ cur = SubSeq(s, Nth(B, k - 1) + 1, Len(s))
      /\ \A i \in 1..(k - 1) : front[i] = SubSeq(s, Nth(B, i - 1) + 1, Nth(B, i) - 1)
  BY PartsAre
<1>4. front \in Seq(Seq(Lexeme)) /\ cur \in Seq(Lexeme) /\ Append(cur, x) \in Seq(Lexeme)
  BY DEF Parts
<1>5. \A n \in 0..(k - 1) : Nth(B, n) \in 0..Len(s)
  BY LinesAre
<1>6. Lines(t) = [i \in 1..k |-> SubSeq(t, Nth(B, i - 1) + 1,
                                        IF i < k THEN Nth(B, i) - 1 ELSE Len(t))]
  <2> HIDE DEF t
  <2> QED
    BY <1>1, <1>2, LinesAre
<1> DEFINE all == Append(front, Append(cur, x))
<1>7. /\ DOMAIN all = 1..k /\ all[k] = Append(cur, x)
      /\ \A i \in 1..(k - 1) : all[i] = front[i]
      /\ all = [i \in 1..k |-> all[i]]
  <2>1. /\ all \in Seq(Seq(Lexeme)) /\ Len(all) = (k - 1) + 1
        /\ all[(k - 1) + 1] = Append(cur, x)
        /\ \A i \in 1..(k - 1) : all[i] = front[i]
    BY <1>3, <1>4
  <2>2. (k - 1) + 1 = k
    BY <1>3
  <2> HIDE DEF all, k
  <2> QED
    BY <2>1, <2>2
<1> HIDE DEF B, k, all
<1>8. ASSUME NEW i \in 1..k
      PROVE  SubSeq(t, Nth(B, i - 1) + 1, IF i < k THEN Nth(B, i) - 1 ELSE Len(t)) = all[i]
  <2>1. i - 1 \in 0..(k - 1) /\ (i < k \/ i = k)
    BY <1>3
  <2>2. Nth(B, i - 1) \in 0..Len(s)
    BY <1>5, <2>1
  <2>3. CASE i < k
    <3>1. i \in 0..(k - 1) /\ i \in 1..(k - 1)
      BY <1>3, <2>3
    <3>2. Nth(B, i) \in 0..Len(s)
      BY <1>5, <3>1
    <3>3. SubSeq(t, Nth(B, i - 1) + 1, Nth(B, i) - 1) = SubSeq(s, Nth(B, i - 1) + 1, Nth(B, i) - 1)
      <4>1. Nth(B, i - 1) + 1 \in Nat \ {0} /\ Nth(B, i) - 1 \in Int /\ Nth(B, i) - 1 <= Len(s)
        BY <1>1, <2>2, <3>2
      <4> QED
        BY <4>1, PrefixOfAppend
    <3> QED
      BY <1>3, <1>7, <2>3, <3>1, <3>3
  <2>4. CASE i = k
    <3>1. Nth(B, k - 1) + 1 \in 1..(Len(s) + 1)
      BY <1>1, <2>2, <2>4
    <3>2. SubSeq(t, Nth(B, k - 1) + 1, Len(s) + 1) = Append(SubSeq(s, Nth(B, k - 1) + 1, Len(s)), x)
      BY <3>1, RestOfAppend
    <3>3. ~(i < k)
      BY <1>3, <2>4
    <3> HIDE DEF t
    <3> QED
      BY <1>1, <1>3, <1>7, <2>4, <3>2, <3>3 DEF t
  <2> QED
    BY <2>1, <2>3, <2>4
<1>9. Lines(t) = all
  <2> HIDE DEF t
  <2> QED
    BY <1>6, <1>7, <1>8
<1> QED
  BY <1>4, <1>9 DEF Parts, all

(* The end of a line.                                                      *)
LEMMA PartsLine ==
  ASSUME NEW s \in Seq(Lexeme), NEW front, NEW cur, Parts(s, front, cur)
  PROVE  Parts(Append(s, LineEnd), Append(front, cur), <<>>)
<1> DEFINE t == Append(s, LineEnd)
           B == Starts(s)
           k == Cardinality(B)
           l == Len(s) + 1
<1>1. t \in Seq(Lexeme) /\ Len(s) \in Nat /\ Len(t) = l /\ l \in Nat
  BY MarkTypes
<1>2. Starts(t) = B \cup {l}
  BY MarksAppend, MarkTypes DEF Starts, LineEnd
<1>3. /\ k \in Nat \ {0} /\ Len(front) = k - 1
      /\ cur = SubSeq(s, Nth(B, k - 1) + 1, Len(s))
      /\ \A i \in 1..(k - 1) : front[i] = SubSeq(s, Nth(B, i - 1) + 1, Nth(B, i) - 1)
  BY PartsAre
<1>4. front \in Seq(Seq(Lexeme)) /\ cur \in Seq(Lexeme) /\ Append(front, cur) \in Seq(Seq(Lexeme))
      /\ <<>> \in Seq(Lexeme)
  BY DEF Parts
<1>5. (\A n \in 0..(k - 1) : Nth(B, n) \in 0..Len(s)) /\ B \in SUBSET 0..Len(s) /\ IsFiniteSet(B)
  BY LinesAre
<1>6. /\ Cardinality(B \cup {l}) = k + 1
      /\ \A n \in Nat : n < k => Nth(B \cup {l}, n) = Nth(B, n)
      /\ Nth(B \cup {l}, k) = l
  <2>1. B \in SUBSET Nat /\ \A e \in B : e < l
    BY <1>1, <1>5
  <2> HIDE DEF B, l
  <2> QED
    BY <1>1, <1>5, <2>1, NthGrows DEF k
<1> HIDE DEF B, k, l
<1>7. Lines(t) = [i \in 1..(k + 1) |-> SubSeq(t, Nth(B \cup {l}, i - 1) + 1,
                                              IF i < k + 1 THEN Nth(B \cup {l}, i) - 1 ELSE l)]
  <2> HIDE DEF t
  <2> QED
    BY <1>1, <1>2, <1>6, LinesAre, ZenonT(60)
<1> DEFINE all == Append(Append(front, cur), <<>>)
<1>8. /\ all[k + 1] = <<>> /\ all[k] = cur
      /\ \A i \in 1..(k - 1) : all[i] = front[i]
      /\ all = [i \in 1..(k + 1) |-> all[i]]
  <2> DEFINE fc == Append(front, cur)
  <2>1. /\ fc \in Seq(Seq(Lexeme)) /\ Len(fc) = (k - 1) + 1 /\ fc[(k - 1) + 1] = cur
        /\ \A i \in 1..(k - 1) : fc[i] = front[i]
    BY <1>3, <1>4
  <2>2. (k - 1) + 1 = k /\ k \in 1..k /\ k \in Nat /\ \A i \in 1..(k - 1) : i \in 1..k
    BY <1>3
  <2> HIDE DEF fc
  <2>3. /\ Append(fc, <<>>) \in Seq(Seq(Lexeme)) /\ Len(Append(fc, <<>>)) = k + 1
        /\ Append(fc, <<>>)[k + 1] = <<>>
        /\ \A i \in 1..k : Append(fc, <<>>)[i] = fc[i]
    BY <1>4, <2>1, <2>2
  <2>4. all = Append(fc, <<>>)
    BY DEF fc
  <2> HIDE DEF all
  <2>5. all = [i \in 1..(k + 1) |-> all[i]]
    BY <1>4, <2>3, <2>4, SeqAs
  <2>6. all[k + 1] = <<>> /\ \A i \in 1..k : all[i] = fc[i]
    BY <2>3, <2>4
  <2>7. all[k] = cur /\ \A i \in 1..(k - 1) : all[i] = front[i]
    BY <2>1, <2>2, <2>6
  <2> QED
    BY <2>5, <2>6, <2>7
<1> HIDE DEF all
<1>9. ASSUME NEW i \in 1..(k + 1)
      PROVE  SubSeq(t, Nth(B \cup {l}, i - 1) + 1,
                    IF i < k + 1 THEN Nth(B \cup {l}, i) - 1 ELSE l) = all[i]
  <2>1. i < k \/ i = k \/ i = k + 1
    BY <1>3
  <2>2. CASE i < k
    <3>1. i \in 0..(k - 1) /\ i \in 1..(k - 1) /\ i - 1 \in 0..(k - 1) /\ i \in Nat /\ i - 1 \in Nat
          /\ i - 1 < k /\ i < k + 1
      BY <1>3, <2>2
    <3>2. Nth(B, i) \in 0..Len(s) /\ Nth(B, i - 1) \in 0..Len(s)
      BY <1>5, <3>1
    <3>3. SubSeq(t, Nth(B, i - 1) + 1, Nth(B, i) - 1) = SubSeq(s, Nth(B, i - 1) + 1, Nth(B, i) - 1)
      <4>1. Nth(B, i - 1) + 1 \in Nat \ {0} /\ Nth(B, i) - 1 \in Int /\ Nth(B, i) - 1 <= Len(s)
        BY <1>1, <3>2
      <4> QED
        BY <4>1, PrefixOfAppend, MarkTypes
    <3> QED
      BY <1>3, <1>6, <1>8, <2>2, <3>1, <3>3
  <2>3. CASE i = k
    <3>1. k - 1 \in 0..(k - 1) /\ k - 1 \in Nat /\ k - 1 < k /\ k < k + 1
      BY <1>3
    <3>2. Nth(B, k - 1) \in 0..Len(s)
      BY <1>5, <3>1
    <3>3. SubSeq(t, Nth(B, k - 1) + 1, Len(s)) = SubSeq(s, Nth(B, k - 1) + 1, Len(s))
      <4>1. Nth(B, k - 1) + 1 \in Nat \ {0} /\ Len(s) \in Int /\ Len(s) <= Len(s)
        BY <1>1, <3>2
      <4> QED
        BY <4>1, PrefixOfAppend, MarkTypes
    <3>4. l - 1 = Len(s)
      BY <1>1 DEF l
    <3> QED
      BY <1>3, <1>6, <1>8, <2>3, <3>1, <3>3, <3>4
  <2>4. CASE i = k + 1
    <3>1. ~(i < k + 1) /\ i - 1 = k
      BY <1>3, <2>4
    <3>2. SubSeq(t, l + 1, l) = <<>>
      BY <1>1
    <3> QED
      BY <1>6, <1>8, <2>4, <3>1, <3>2
  <2> QED
    BY <2>1, <2>2, <2>3, <2>4
<1>10. Lines(t) = all
  <2> HIDE DEF t
  <2> QED
    BY <1>7, <1>8, <1>9
<1> QED
  BY <1>4, <1>10 DEF Parts, all

(* One more line has an entry if it has content.                           *)
LEMMA EntriesOfAppend ==
  ASSUME NEW front \in Seq(Seq(Lexeme)), NEW cur \in Seq(Lexeme)
  PROVE  /\ EntriesOf(front) \in Seq(Entry)
         /\ EntriesOf(Append(front, cur)) =
              IF Content(cur) = {} THEN EntriesOf(front)
              ELSE Append(EntriesOf(front), EntryOf(cur))
<1> DEFINE Full(ls) == {i \in DOMAIN ls : Content(ls[i]) # {}}
           all == Append(front, cur)
           F == Full(front)
           k == Cardinality(F)
           n == Len(front)
<1>1. /\ n \in Nat /\ DOMAIN front = 1..n /\ DOMAIN all = (1..n) \cup {n + 1}
      /\ n + 1 \notin 1..n /\ all[n + 1] = cur /\ \A i \in 1..n : all[i] = front[i]
      /\ \A i \in 1..n : front[i] \in Seq(Lexeme)
  OBVIOUS
<1> HIDE DEF all, n
<1>2. F \in SUBSET 1..n /\ F \in SUBSET Nat /\ IsFiniteSet(F)
  <2>1. F \in SUBSET 1..n /\ IsFiniteSet(1..n)
    BY <1>1, FS_Interval
  <2>2. \A e \in 1..n : e \in Nat
    OBVIOUS
  <2> HIDE DEF F
  <2>3. F \in SUBSET Nat
    BY <2>1, <2>2
  <2> QED
    BY <2>1, <2>3, FS_Subset
<1>3. Full(all) = IF Content(cur) = {} THEN F ELSE F \cup {n + 1}
  <2>1. \A i \in 1..n : i \in Full(all) <=> i \in F
    BY <1>1
  <2>2. n + 1 \in Full(all) <=> Content(cur) # {}
    BY <1>1
  <2>3. (\A i \in Full(all) : i \in 1..n \/ i = n + 1) /\ \A i \in F : i \in 1..n
    BY <1>1
  <2> DEFINE A == Full(all)
             C == Content(cur)
  <2>4. A = IF C = {} THEN F ELSE F \cup {n + 1}
    <3>1. (\A i \in A : i \in 1..n \/ i = n + 1) /\ (n + 1 \in A <=> C # {})
          /\ \A i \in 1..n : i \in A <=> i \in F
      BY <2>1, <2>2, <2>3
    <3>2. (\A i \in F : i \in 1..n) /\ n + 1 \notin 1..n
      BY <1>1, <2>3
    <3> HIDE DEF A, C, F, Full
    <3>3. CASE C = {}
      <4>1. A = F
        BY <3>1, <3>2, <3>3
      <4> QED
        BY <3>3, <4>1
    <3>4. CASE C # {}
      <4>1. \A i : i \in A <=> i \in F \/ i = n + 1
        BY <3>1, <3>2, <3>4
      <4>2. A = F \cup {n + 1}
        BY <4>1
      <4> QED
        BY <3>4, <4>2
    <3> QED
      BY <3>3, <3>4
  <2> QED
    BY <2>4
<1>4. /\ EntriesOf(front) = [i \in 1..k |-> EntryOf(front[Nth(F, i - 1)])]
      /\ EntriesOf(all) = [i \in 1..Cardinality(Full(all)) |-> EntryOf(all[Nth(Full(all), i - 1)])]
  BY DEF EntriesOf
<1> HIDE DEF F, Full
<1>5. k \in Nat /\ \A i \in 1..k : Nth(F, i - 1) \in F
  <2>1. k \in Nat
    BY <1>2, FS_CardinalityType
  <2>2. ASSUME NEW i \in 1..k PROVE Nth(F, i - 1) \in F
    <3>1. i - 1 \in Nat /\ i - 1 < Cardinality(F)
      BY <2>1
    <3> QED
      BY <1>2, <3>1, NthType
  <2> QED
    BY <2>1, <2>2
<1> HIDE DEF k
<1>6. \A i \in 1..k : Nth(F, i - 1) \in 1..n /\ all[Nth(F, i - 1)] = front[Nth(F, i - 1)]
  BY <1>1, <1>2, <1>5
<1>7. EntriesOf(front) \in Seq(Entry) /\ Len(EntriesOf(front)) = k
  <2>1. \A i \in 1..k : EntryOf(front[Nth(F, i - 1)]) \in Entry
    BY <1>1, <1>6, EntryOfIs
  <2> QED
    BY <1>4, <1>5, <2>1
<1>8. CASE Content(cur) = {}
  <2>1. EntriesOf(all) = EntriesOf(front)
    BY <1>3, <1>4, <1>6, <1>8 DEF k
  <2> QED
    BY <1>7, <1>8, <2>1 DEF all
<1>9. CASE Content(cur) # {}
  <2>1. /\ Cardinality(F \cup {n + 1}) = k + 1
        /\ \A j \in Nat : j < k => Nth(F \cup {n + 1}, j) = Nth(F, j)
        /\ Nth(F \cup {n + 1}, k) = n + 1
    <3>1. n + 1 \in Nat /\ \A e \in F : e < n + 1
      BY <1>1, <1>2
    <3> QED
      BY <1>2, <3>1, NthGrows DEF k
  <2>2. EntriesOf(all) = [i \in 1..(k + 1) |-> EntryOf(all[Nth(F \cup {n + 1}, i - 1)])]
    BY <1>3, <1>4, <1>9, <2>1
  <2> DEFINE more == Append(EntriesOf(front), EntryOf(cur))
  <2>3. /\ more = [i \in 1..(k + 1) |-> more[i]] /\ more[k + 1] = EntryOf(cur)
        /\ \A i \in 1..k : more[i] = EntriesOf(front)[i]
    <3>1. EntryOf(cur) \in Entry
      BY EntryOfIs
    <3>2. more \in Seq(Entry) /\ Len(more) = k + 1 /\ more[k + 1] = EntryOf(cur)
          /\ \A i \in 1..k : more[i] = EntriesOf(front)[i]
      BY <1>5, <1>7, <3>1
    <3> HIDE DEF more
    <3> QED
      BY <3>2
  <2> HIDE DEF more
  <2>4. ASSUME NEW i \in 1..(k + 1)
        PROVE  EntryOf(all[Nth(F \cup {n + 1}, i - 1)]) = more[i]
    <3>1. CASE i = k + 1
      <4>1. i - 1 = k
        BY <1>5, <3>1
      <4> QED
        BY <1>1, <2>1, <2>3, <3>1, <4>1
    <3>2. CASE i # k + 1
      <4>1. i \in 1..k /\ i - 1 \in Nat /\ i - 1 < k
        BY <1>5, <3>2
      <4> QED
        BY <1>4, <1>6, <2>1, <2>3, <4>1
    <3> QED
      BY <3>1, <3>2
  <2>5. EntriesOf(all) = more
    BY <2>2, <2>3, <2>4
  <2> QED
    BY <1>7, <1>9, <2>5 DEF all, more
<1> QED
  BY <1>8, <1>9

---------------------------------------------------------------------------
(* The parser and the lexed text.                                          *)

Mode ==
  IF ts = "comment" THEN "comment"
  ELSE IF "single" \in escn THEN "single"
  ELSE IF "double" \in escn THEN "double" ELSE "plain"

Escaped == IF "one" \in escn THEN TRUE ELSE FALSE

(* Whether what was read is o when it is lexed, and the parser knows.      *)
AsRead(o) == Lexed(read) = Reading(Mode, Escaped, o)

(* The fields of what was lexed.                                           *)
LEMMA ReadFields ==
  ASSUME NEW m, NEW e, NEW o, Lexed(read) = Reading(m, e, o)
  PROVE  Lexed(read).mode = m /\ Lexed(read).escaped = e /\ Lexed(read).out = o
BY DEF Reading

(* What was lexed, after one more character.                               *)
LEMMA ReadOne ==
  ASSUME TypeOK, NEW c \in Runes, read' = Append(read, c)
  PROVE  Lexed(read)' = Lex(Lexed(read), c)
<1>1. read \in Seq(Runes)
  BY DEF TypeOK
<1> QED
  BY <1>1, LexedAppend

(* A character that is escaped or quoted is read literally.                *)
LEMMA ReadLiteral ==
  ASSUME TypeOK, NEW o, AsRead(o), NEW c \in Runes, read' = Append(read, c),
         ts # "comment", ts' # "comment", escn' = Pending,
         "one" \in escn \/ (escn # {} /\ c # "backslash" /\ c \notin escn)
  PROVE  AsRead(Append(o, <<c, TRUE>>))'
<1>1. Lexed(read)' = Lex(Lexed(read), c)
  BY ReadOne
<1>2. Lexed(read).mode = Mode /\ Lexed(read).escaped = Escaped /\ Lexed(read).out = o
  BY ReadFields DEF AsRead
<1>3. Mode \in {"plain", "single", "double"} /\ Mode' = Mode /\ Escaped' = FALSE
  BY DEF TypeOK, Mode, Pending, Escaped
<1>4. CASE "one" \in escn
  <2>1. Escaped = TRUE
    BY <1>4 DEF Escaped
  <2>2. Lex(Lexed(read), c) = Reading(Mode, FALSE, Append(o, <<c, TRUE>>))
    BY <1>2, <1>3, <2>1 DEF Lex
  <2> QED
    BY <1>1, <1>3, <2>2 DEF AsRead
<1>5. CASE "one" \notin escn
  <2>1. Escaped = FALSE /\ Mode # "plain" /\ Mode # c /\ c # "backslash"
    BY <1>5 DEF Escaped, Mode, TypeOK
  <2>2. Lex(Lexed(read), c) = Reading(Mode, FALSE, Append(o, <<c, TRUE>>))
    BY <1>2, <1>3, <2>1 DEF Lex
  <2> QED
    BY <1>1, <1>3, <2>2 DEF AsRead
<1> QED
  BY <1>4, <1>5

(* A character that is neither is read as it is.                           *)
LEMMA ReadPlain ==
  ASSUME TypeOK, NEW o, AsRead(o), NEW c \in {"=", "newline", "space", "letter"},
         read' = Append(read, c), ts # "comment", ts' # "comment", escn = {}, escn' = {}
  PROVE  AsRead(Append(o, <<c, FALSE>>))'
<1>1. Lexed(read)' = Lex(Lexed(read), c)
  BY ReadOne DEF Runes
<1>2. /\ Lexed(read).mode = Mode /\ Lexed(read).escaped = Escaped /\ Lexed(read).out = o
      /\ Mode = "plain" /\ Escaped = FALSE /\ Mode' = "plain" /\ Escaped' = FALSE
  BY ReadFields DEF AsRead, Mode, Escaped
<1>3. Lex(Lexed(read), c) = Reading("plain", FALSE, Append(o, <<c, FALSE>>))
  BY <1>2 DEF Lex
<1> QED
  BY <1>1, <1>2, <1>3 DEF AsRead

(* In a comment, characters are ignored.                                   *)
LEMMA ReadComment ==
  ASSUME TypeOK, NEW o, AsRead(o), NEW c \in Runes, read' = Append(read, c),
         ts = "comment", ts' = "comment",
         \/ "one" \in escn /\ escn' = {}
         \/ escn = {} /\ c = "backslash" /\ escn' = {"one"}
         \/ escn = {} /\ c \notin {"backslash", "newline"} /\ escn' = {}
  PROVE  AsRead(o)'
<1>1. Lexed(read)' = Lex(Lexed(read), c)
  BY ReadOne
<1>2. /\ Lexed(read) = Reading(Mode, Escaped, o)
      /\ Lexed(read).mode = Mode /\ Lexed(read).escaped = Escaped /\ Lexed(read).out = o
      /\ Mode = "comment" /\ Mode' = "comment"
  BY ReadFields DEF AsRead, Mode
<1>3. CASE "one" \in escn
  <2>1. Escaped = TRUE /\ Escaped' = FALSE
    BY <1>3 DEF Escaped
  <2>2. Lex(Lexed(read), c) = Reading("comment", FALSE, o)
    BY <1>2, <2>1 DEF Lex
  <2> QED
    BY <1>1, <1>2, <2>1, <2>2 DEF AsRead
<1>4. CASE escn = {} /\ c = "backslash"
  <2>1. Escaped = FALSE /\ Escaped' = TRUE
    BY <1>4 DEF Escaped
  <2>2. Lex(Lexed(read), c) = Reading("comment", TRUE, o)
    BY <1>2, <1>4, <2>1 DEF Lex
  <2> QED
    BY <1>1, <1>2, <2>1, <2>2 DEF AsRead
<1>5. CASE escn = {} /\ c # "backslash"
  <2>1. Escaped = FALSE /\ Escaped' = FALSE /\ c # "newline"
    BY <1>5 DEF Escaped
  <2>2. Lex(Lexed(read), c) = Lexed(read)
    BY <1>2, <1>5, <2>1 DEF Lex
  <2> QED
    BY <1>1, <1>2, <2>1, <2>2 DEF AsRead
<1> QED
  BY <1>3, <1>4, <1>5

(* The end of the line ends a comment.                                     *)
LEMMA ReadCommentEnd ==
  ASSUME TypeOK, NEW o, AsRead(o), read' = Append(read, "newline"),
         ts = "comment", ts' = "undefined", escn = {}, escn' = {}
  PROVE  AsRead(Append(o, LineEnd))'
<1>1. Lexed(read)' = Lex(Lexed(read), "newline")
  BY ReadOne DEF Runes
<1>2. /\ Lexed(read).mode = Mode /\ Lexed(read).escaped = Escaped /\ Lexed(read).out = o
      /\ Mode = "comment" /\ Escaped = FALSE /\ Mode' = "plain" /\ Escaped' = FALSE
  BY ReadFields DEF AsRead, Mode, Escaped
<1>3. Lex(Lexed(read), "newline") = Reading("plain", FALSE, Append(o, LineEnd))
  BY <1>2 DEF Lex, LineEnd
<1> QED
  BY <1>1, <1>2, <1>3 DEF AsRead

(* A backslash that escapes, a quote that begins or ends, a comment.       *)
LEMMA ReadMark ==
  ASSUME TypeOK, NEW o, AsRead(o), NEW c \in Runes, read' = Append(read, c), ts # "comment",
         \/ c = "backslash" /\ "one" \notin escn /\ escn' = escn \cup {"one"} /\ ts' = ts
         \/ c \in {"single", "double"} /\ escn = {c} /\ escn' = {} /\ ts' = ts
         \/ c \in {"single", "double"} /\ escn = {} /\ escn' = {c} /\ ts' = ts
         \/ c = "#" /\ escn = {} /\ escn' = {} /\ ts' = "comment"
  PROVE  AsRead(o)'
<1>1. Lexed(read)' = Lex(Lexed(read), c)
  BY ReadOne
<1>2. Escaped = FALSE
  BY DEF Escaped
<1>3. Lexed(read).mode = Mode /\ Lexed(read).escaped = FALSE /\ Lexed(read).out = o
  BY <1>2, ReadFields DEF AsRead
<1>4. CASE c = "backslash"
  <2>1. Mode' = Mode /\ Escaped' = TRUE
    BY <1>4 DEF Mode, Escaped
  <2>2. Lex(Lexed(read), c) = Reading(Mode, TRUE, o)
    BY <1>3, <1>4 DEF Lex
  <2> QED
    BY <1>1, <2>1, <2>2 DEF AsRead
<1>5. CASE c \in {"single", "double"} /\ escn = {c}
  <2>1. Mode = c /\ Mode' = "plain" /\ Escaped' = FALSE
    BY <1>5 DEF Mode, Escaped
  <2>2. Lex(Lexed(read), c) = Reading("plain", FALSE, o)
    BY <1>3, <1>5, <2>1 DEF Lex
  <2> QED
    BY <1>1, <2>1, <2>2 DEF AsRead
<1>6. CASE c \in {"single", "double"} /\ escn = {}
  <2>1. Mode = "plain" /\ Mode' = c /\ Escaped' = FALSE
    BY <1>6 DEF Mode, Escaped
  <2>2. Lex(Lexed(read), c) = Reading(c, FALSE, o)
    BY <1>3, <1>6, <2>1 DEF Lex
  <2> QED
    BY <1>1, <2>1, <2>2 DEF AsRead
<1>7. CASE c = "#"
  <2>1. Mode = "plain" /\ Mode' = "comment" /\ Escaped' = FALSE
    BY <1>7 DEF Mode, Escaped
  <2>2. Lex(Lexed(read), c) = Reading("comment", FALSE, o)
    BY <1>3, <1>7, <2>1 DEF Lex
  <2> QED
    BY <1>1, <2>1, <2>2 DEF AsRead
<1> QED
  BY <1>4, <1>5, <1>6, <1>7

---------------------------------------------------------------------------
(* The parser and the lines of the lexed text: those that ended, and the   *)
(* last one.                                                               *)

SameKeys(some, others) ==
  Len(some) = Len(others) /\ \A i \in 1..Len(others) : some[i].key = others[i].key

(* The entries of the lines that ended; a last one that has content began  *)
(* another, without its value.                                             *)
Begun(front, cur) ==
  IF Content(cur) = {} THEN EntriesOf(front)
  ELSE Append(EntriesOf(front), [key |-> KeyOf(cur), val |-> <<>>])

(* What the parser knows of them, if b tells that a comment had an escaped *)
(* backslash, which it takes for text.                                     *)
Written(front, cur, b) ==
  /\ Content(cur) = {} => ts \in {"undefined", "comment"}
  /\ Content(cur) # {} => ts # "undefined"
  /\ ts = "key" => Marks(cur, "=") = {}
  /\ ts = "value" => Marks(cur, "=") # {}
  /\ SameKeys(es, Begun(front, cur))
  /\ ~b => es = Begun(front, cur)
  /\ ts # "comment" \/ ~b => Collected(ValueOf(cur), token, spaces)

(* A line of blanks has no key and no value.                               *)
LEMMA NoContent ==
  ASSUME NEW l \in Seq(Lexeme), Content(l) = {}
  PROVE  Marks(l, "=") = {} /\ KeyOf(l) = <<>> /\ ValueOf(l) = l /\ Trimmed(l) = <<>>
<1>1. Marks(l, "=") = {}
  <2> SUFFICES ASSUME NEW i \in DOMAIN l, l[i] = <<"=", FALSE>> PROVE FALSE
    BY DEF Marks
  <2>1. l[i] = <<"space", FALSE>>
    BY DEF Marks, Content
  <2> QED
    BY <2>1
<1> QED
  BY <1>1 DEF KeyOf, ValueOf, Trimmed

(* Lines yield entries.                                                    *)
LEMMA BegunType ==
  ASSUME NEW front \in Seq(Seq(Lexeme)), NEW cur \in Seq(Lexeme)
  PROVE  /\ EntriesOf(front) \in Seq(Entry)
         /\ [key |-> KeyOf(cur), val |-> <<>>] \in Entry
         /\ Begun(front, cur) \in Seq(Entry)
<1>1. EntriesOf(front) \in Seq(Entry)
  BY EntriesOfAppend
<1>2. [key |-> KeyOf(cur), val |-> <<>>] \in Entry
  BY EntryOfIs, EntryType, EmptyType
<1> QED
  BY <1>1, <1>2 DEF Begun

(* Entries with the same keys, and one more on each side.                  *)
LEMMA SameKeysAppend ==
  ASSUME NEW some \in Seq(Entry), NEW others \in Seq(Entry), SameKeys(some, others),
         NEW e \in Entry, NEW f \in Entry, e.key = f.key
  PROVE  SameKeys(Append(some, e), Append(others, f))
<1> DEFINE n == Len(some)
           a == Append(some, e)
           b == Append(others, f)
<1>1. /\ n \in Nat /\ Len(a) = n + 1 /\ Len(b) = n + 1
      /\ a[n + 1] = e /\ b[n + 1] = f
      /\ \A i \in 1..n : a[i] = some[i] /\ b[i] = others[i]
  BY DEF SameKeys
<1>2. \A i \in 1..n : some[i].key = others[i].key
  BY DEF SameKeys
<1> HIDE DEF a, b, n
<1>3. \A i \in 1..(n + 1) : i \in 1..n \/ i = n + 1
  BY <1>1
<1>4. \A i \in 1..(n + 1) : a[i].key = b[i].key
  BY <1>1, <1>2, <1>3
<1> QED
  BY <1>1, <1>4 DEF SameKeys, a, b

(* A last entry that gets a key.                                           *)
LEMMA SameKeysLast ==
  ASSUME NEW some \in Seq(Entry), NEW others \in Seq(Entry), NEW e \in Entry, NEW f \in Entry,
         NEW g \in Entry, SameKeys(some, Append(others, f)), e.key = g.key
  PROVE  SameKeys([some EXCEPT ![Len(some)] = e], Append(others, g))
<1> DEFINE n == Len(others)
           a == [some EXCEPT ![Len(some)] = e]
           b == Append(others, f)
           d == Append(others, g)
<1>1. /\ n \in Nat /\ Len(b) = n + 1 /\ Len(d) = n + 1 /\ d[n + 1] = g
      /\ \A i \in 1..n : b[i] = others[i] /\ d[i] = others[i]
  OBVIOUS
<1>2. Len(some) = n + 1 /\ \A i \in 1..(n + 1) : some[i].key = b[i].key
  <2> HIDE DEF b
  <2> QED
    BY <1>1 DEF SameKeys, b
<1>3. Len(a) = n + 1 /\ a[n + 1] = e /\ \A i \in 1..n : a[i] = some[i]
  BY <1>1, <1>2
<1> HIDE DEF a, b, d, n
<1>4. \A i \in 1..(n + 1) : (i \in 1..n \/ i = n + 1) /\ (i \in 1..n => i \in 1..(n + 1))
  BY <1>1
<1>5. \A i \in 1..(n + 1) : a[i].key = d[i].key
  BY <1>1, <1>2, <1>3, <1>4
<1> QED
  BY <1>1, <1>3, <1>5 DEF SameKeys, a, d

(* A last entry that gets a value.                                         *)
LEMMA SameKeysValue ==
  ASSUME NEW some \in Seq(Entry), NEW others, SameKeys(some, others), some # <<>>,
         NEW e \in Entry, e.key = some[Len(some)].key
  PROVE  SameKeys([some EXCEPT ![Len(some)] = e], others)
<1> DEFINE n == Len(some)
           a == [some EXCEPT ![n] = e]
<1>1. n \in 1..n /\ Len(a) = n /\ a[n] = e /\ \A i \in 1..n : i # n => a[i] = some[i]
  OBVIOUS
<1>2. n = Len(others) /\ \A i \in 1..n : some[i].key = others[i].key
  BY DEF SameKeys
<1> HIDE DEF a
<1>3. \A i \in 1..n : a[i].key = others[i].key
  BY <1>1, <1>2
<1> QED
  BY <1>1, <1>2, <1>3 DEF SameKeys, a

(* The last entry, taken and replaced.                                     *)
LEMMA LastIs ==
  ASSUME NEW some \in Seq(Entry), NEW e \in Entry, NEW f \in Entry
  PROVE  /\ [Append(some, e) EXCEPT ![Len(Append(some, e))] = f] = Append(some, f)
         /\ Append(some, e)[Len(Append(some, e))] = e
         /\ Append(some, e) # <<>>
<1> DEFINE n == Len(some)
           a == Append(some, e)
           b == Append(some, f)
           d == [a EXCEPT ![n + 1] = f]
<1>1. /\ n \in Nat /\ a \in Seq(Entry) /\ b \in Seq(Entry) /\ Len(a) = n + 1 /\ Len(b) = n + 1
      /\ a[n + 1] = e /\ b[n + 1] = f /\ \A i \in 1..n : a[i] = b[i]
  OBVIOUS
<1> HIDE DEF a, b, n
<1>2. d \in Seq(Entry) /\ Len(d) = n + 1 /\ d[n + 1] = f /\ \A i \in 1..n : d[i] = a[i]
  BY <1>1
<1>3. d = b
  <2>1. \A i \in 1..(n + 1) : i \in 1..n \/ i = n + 1
    BY <1>1
  <2>2. \A i \in 1..(n + 1) : d[i] = b[i]
    BY <1>1, <1>2, <2>1
  <2> HIDE DEF d
  <2> QED
    BY <1>1, <1>2, <2>2, SeqSame
<1>4. a # <<>>
  BY <1>1
<1> QED
  BY <1>1, <1>3, <1>4 DEF a, b

(* A rune of the text.                                                     *)
LEMMA WriteWritten ==
  ASSUME TypeOK, NEW front \in Seq(Seq(Lexeme)), NEW cur \in Seq(Lexeme), NEW b,
         Written(front, cur, b), ts # "comment", NEW x \in Lexeme, x # Blank,
         x # Divider \/ ts = "value", Write(x[1])
  PROVE  Written(front, Append(cur, x), b)' /\ ts' # "comment"
<1> DEFINE m == Append(cur, x)
           none == [key |-> <<>>, val |-> <<>>]
<1>1. m \in Seq(Lexeme) /\ Content(m) # {}
  <2>1. Content(m) = Content(cur) \cup {Len(cur) + 1}
    BY ContentAppend
  <2> QED
    BY <2>1
<1>2. x # Divider \/ Marks(cur, "=") # {}
  BY DEF Written
<1>3. /\ KeyOf(m) = KeyOf(cur) /\ ValueOf(m) = Append(ValueOf(cur), x)
      /\ (Marks(m, "=") = {}) <=> (Marks(cur, "=") = {})
  BY <1>2, DividedAppend
<1>4. ValueOf(cur) \in Seq(Lexeme)
  BY EntryOfIs
<1>5. ts' \in {"key", "value"} /\ ts' = IF ts = "undefined" THEN "key" ELSE ts
  BY DEF Write, TypeOK
<1>6. Collected(ValueOf(m), token', spaces')
  <2>1. Collected(ValueOf(cur), token, spaces)
    BY DEF Written
  <2>2. /\ token' = IF token = <<>> THEN <<x[1]>> ELSE token \o spaces \o <<x[1]>>
        /\ spaces' = <<>>
    BY DEF Write
  <2> QED
    BY <1>3, <1>4, <2>1, <2>2, CollectRune
<1>7. none \in Entry
  BY EntryType, EmptyType
<1>8. CASE ts = "undefined"
  <2>1. Content(cur) = {}
    BY <1>8 DEF Written
  <2>2. Marks(cur, "=") = {} /\ KeyOf(cur) = <<>>
    BY <2>1, NoContent
  <2>3. Begun(front, cur) = EntriesOf(front) /\ Begun(front, m) = Append(EntriesOf(front), none)
    BY <1>1, <1>3, <2>1, <2>2 DEF Begun
  <2>4. es' = Append(es, none) /\ es \in Seq(Entry) /\ EntriesOf(front) \in Seq(Entry)
    BY <1>8, BegunType DEF Write, TypeOK
  <2>5. SameKeys(es', Begun(front, m)) /\ (~b => es' = Begun(front, m))
    <3>1. SameKeys(es, EntriesOf(front)) /\ (~b => es = EntriesOf(front))
      BY <2>3 DEF Written
    <3> HIDE DEF none, m
    <3> QED
      BY <1>7, <2>3, <2>4, <3>1, SameKeysAppend
  <2> HIDE DEF m
  <2> QED
    BY <1>1, <1>3, <1>5, <1>6, <1>8, <2>2, <2>5 DEF Written, m
<1>9. CASE ts # "undefined"
  <2>1. Content(cur) # {}
    BY <1>9 DEF Written
  <2>2. Begun(front, m) = Begun(front, cur)
    BY <1>1, <1>3, <2>1 DEF Begun
  <2>3. es' = es /\ ts' = ts
    BY <1>5, <1>9 DEF Write
  <2>4. SameKeys(es', Begun(front, m)) /\ (~b => es' = Begun(front, m))
    BY <2>2, <2>3 DEF Written
  <2>5. ts' = "key" => Marks(cur, "=") = {}
    BY <2>3 DEF Written
  <2>6. ts' = "value" => Marks(cur, "=") # {}
    BY <2>3 DEF Written
  <2> HIDE DEF m
  <2> QED
    BY <1>1, <1>3, <1>5, <1>6, <2>4, <2>5, <2>6 DEF Written, m
<1> QED
  BY <1>8, <1>9

(* A space that may belong to it.                                          *)
LEMMA SpaceWritten ==
  ASSUME TypeOK, NEW front \in Seq(Seq(Lexeme)), NEW cur \in Seq(Lexeme), NEW b,
         Written(front, cur, b), ts # "comment",
         spaces' = Append(spaces, "space"), UNCHANGED <<ts, es, token>>
  PROVE  Written(front, Append(cur, Blank), b)'
<1> DEFINE m == Append(cur, Blank)
<1>1. m \in Seq(Lexeme) /\ Content(m) = Content(cur)
  BY MarkTypes, ContentAppend
<1>2. /\ KeyOf(m) = KeyOf(cur) /\ ValueOf(m) = Append(ValueOf(cur), Blank)
      /\ (Marks(m, "=") = {}) <=> (Marks(cur, "=") = {})
  BY MarkTypes, DividedAppend
<1>3. Collected(ValueOf(m), token', spaces')
  <2>1. Collected(ValueOf(cur), token, spaces) /\ ValueOf(cur) \in Seq(Lexeme)
    BY EntryOfIs DEF Written
  <2> QED
    BY <1>2, <2>1, CollectSpace
<1>4. Begun(front, m) = Begun(front, cur)
  BY <1>1, <1>2 DEF Begun
<1> HIDE DEF m
<1> QED
  BY <1>1, <1>2, <1>3, <1>4 DEF Written, m

(* The end of the key.                                                     *)
LEMMA EndKeyWritten ==
  ASSUME TypeOK, NEW front \in Seq(Seq(Lexeme)), NEW cur \in Seq(Lexeme), NEW b,
         Written(front, cur, b), ts \in {"undefined", "key"}, EndKey
  PROVE  Written(front, Append(cur, Divider), b)'
<1> DEFINE m == Append(cur, Divider)
           F == EntriesOf(front)
           keyed == [key |-> token, val |-> <<>>]
<1>1. m \in Seq(Lexeme) /\ Content(m) # {}
  BY MarkTypes, ContentAppend
<1>2. Marks(cur, "=") = {} /\ ValueOf(cur) = cur
  <2>1. Marks(cur, "=") = {}
    BY NoContent DEF Written
  <2> QED
    BY <2>1 DEF ValueOf
<1>3. KeyOf(m) = Trimmed(cur) /\ ValueOf(m) = <<>> /\ Marks(m, "=") # {}
  BY <1>2, DividedHere
<1>4. token = Trimmed(cur)
  BY <1>2 DEF Written, Collected
<1>5. Collected(ValueOf(m), token', spaces')
  BY <1>3, CollectedNone DEF EndKey
<1>6. Begun(front, m) = Append(F, keyed)
  BY <1>1, <1>3, <1>4 DEF Begun
<1>7. F \in Seq(Entry) /\ keyed \in Entry /\ es \in Seq(Entry)
  BY BegunType, EntryType, EmptyType DEF TypeOK
<1>8. SameKeys(es', Append(F, keyed)) /\ (~b => es' = Append(F, keyed))
  <2>1. CASE ts = "undefined"
    <3>1. Begun(front, cur) = F
      BY <2>1 DEF Written, Begun
    <3>2. SameKeys(es, F) /\ (~b => es = F)
      BY <3>1 DEF Written
    <3>3. es' = Append(es, keyed)
      BY <2>1 DEF EndKey
    <3> HIDE DEF keyed, F
    <3> QED
      BY <1>7, <3>2, <3>3, SameKeysAppend
  <2>2. CASE ts = "key"
    <3> DEFINE e == [key |-> KeyOf(cur), val |-> <<>>]
               last == [es[Len(es)] EXCEPT !.key = token]
    <3>1. Begun(front, cur) = Append(F, e) /\ e \in Entry
      BY <2>2, BegunType DEF Written, Begun
    <3>2. SameKeys(es, Append(F, e)) /\ (~b => es = Append(F, e))
      BY <3>1 DEF Written
    <3>3. es' = [es EXCEPT ![Len(es)] = last]
      BY <2>2 DEF EndKey
    <3>4. last \in Entry /\ last.key = token
      <4>1. es[Len(es)] \in Entry
        BY <2>2 DEF TypeOK
      <4> QED
        BY <4>1, EntryType DEF TypeOK, Entry
    <3>5. ~b => last = keyed
      <4>1. ~b => es[Len(es)] = e
        <5> HIDE DEF e, F
        <5> QED
          BY <1>7, <3>1, <3>2, LastIs
      <4> QED
        BY <4>1
    <3>6. keyed.key = token
      OBVIOUS
    <3> HIDE DEF e, last, keyed, F
    <3>7. SameKeys(es', Append(F, keyed))
      BY <1>7, <3>1, <3>2, <3>3, <3>4, <3>6, SameKeysLast
    <3>8. ASSUME ~b PROVE es' = Append(F, keyed)
      <4>1. es' = [Append(F, e) EXCEPT ![Len(Append(F, e))] = keyed]
        BY <3>2, <3>3, <3>5, <3>8
      <4> QED
        BY <1>7, <3>1, <4>1, LastIs
    <3> QED
      BY <3>7, <3>8
  <2> QED
    BY <2>1, <2>2
<1>9. ts' = "value"
  BY DEF EndKey
<1> HIDE DEF m, keyed, F
<1> QED
  BY <1>1, <1>3, <1>5, <1>6, <1>8, <1>9 DEF Written, m

(* A last entry that is replaced by one with its key leaves the keys the   *)
(* same.                                                                   *)
LEMMA SameKeysOther ==
  ASSUME NEW some, NEW others \in Seq(Entry), NEW e \in Entry, NEW f \in Entry,
         SameKeys(some, Append(others, e)), e.key = f.key
  PROVE  SameKeys(some, Append(others, f)) /\ some # <<>>
<1> DEFINE n == Len(others)
           a == Append(others, e)
           b == Append(others, f)
<1>1. /\ n \in Nat /\ Len(a) = n + 1 /\ Len(b) = n + 1 /\ a[n + 1] = e /\ b[n + 1] = f
      /\ \A i \in 1..n : a[i] = b[i]
  OBVIOUS
<1>2. Len(some) = Len(a) /\ \A i \in 1..Len(a) : some[i].key = a[i].key
  BY DEF SameKeys
<1> HIDE DEF a, b, n
<1>3. \A i \in 1..(n + 1) : i \in 1..n \/ i = n + 1
  BY <1>1
<1>4. \A i \in 1..(n + 1) : some[i].key = b[i].key
  BY <1>1, <1>2, <1>3
<1>5. some # <<>>
  BY <1>1, <1>2
<1> QED
  BY <1>1, <1>2, <1>4, <1>5 DEF SameKeys, b

(* The end of a line or of the file.                                       *)
LEMMA FlushWritten ==
  ASSUME TypeOK, NEW front \in Seq(Seq(Lexeme)), NEW cur \in Seq(Lexeme), NEW b \in BOOLEAN,
         Written(front, cur, b), NEW then, FlushVal(then)
  PROVE  LET all == EntriesOf(Append(front, cur))
         IN /\ token' = <<>>
            /\ \/ status' = "panicked" /\ b
               \/ status' = then /\ SameKeys(es', all) /\ (~b => es' = all)
<1> DEFINE F == EntriesOf(front)
           all == EntriesOf(Append(front, cur))
           last == [es[Len(es)] EXCEPT !.val = token]
<1>1. F \in Seq(Entry) /\ es \in Seq(Entry)
  BY BegunType DEF TypeOK
<1>2. ~b => token = Trimmed(ValueOf(cur))
  BY DEF Written, Collected
<1>3. SameKeys(es, all) /\ (es = <<>> => Content(cur) = {})
  <2>1. CASE Content(cur) = {}
    BY <2>1, EntriesOfAppend DEF Written, Begun
  <2>2. CASE Content(cur) # {}
    <3> DEFINE e == [key |-> KeyOf(cur), val |-> <<>>]
    <3>1. SameKeys(es, Append(F, e)) /\ all = Append(F, EntryOf(cur))
      BY <2>2, EntriesOfAppend DEF Written, Begun
    <3>2. e \in Entry /\ EntryOf(cur) \in Entry /\ e.key = EntryOf(cur).key
      BY BegunType, EntryOfIs
    <3> HIDE DEF e, F
    <3>3. SameKeys(es, Append(F, EntryOf(cur))) /\ es # <<>>
      BY <1>1, <3>1, <3>2, SameKeysOther
    <3> QED
      BY <3>1, <3>3
  <2> QED
    BY <2>1, <2>2
<1>4. ASSUME es # <<>>
      PROVE  last \in Entry /\ last.key = es[Len(es)].key
  <2>1. es[Len(es)] \in Entry /\ token \in Seq(Runes)
    BY <1>4 DEF TypeOK
  <2> QED
    BY <2>1, EntryType DEF Entry
<1>5. CASE token = <<>>
  <2>1. es' = es /\ token' = <<>> /\ status' = then
    BY <1>5 DEF FlushVal
  <2>2. ASSUME ~b PROVE es = all
    <3>1. es = Begun(front, cur) /\ Trimmed(ValueOf(cur)) = <<>>
      BY <1>2, <1>5, <2>2 DEF Written
    <3>2. Content(cur) # {} => EntryOf(cur) = [key |-> KeyOf(cur), val |-> <<>>]
      BY <3>1, EntryOfIs
    <3> QED
      BY <3>1, <3>2, EntriesOfAppend DEF Begun
  <2> QED
    BY <1>3, <2>1, <2>2
<1>6. CASE token # <<>> /\ es = <<>>
  <2>1. token' = <<>> /\ status' = "panicked"
    BY <1>6 DEF FlushVal
  <2>2. Content(cur) = {}
    BY <1>3, <1>6
  <2>3. b
    BY <1>2, <1>6, <2>2, NoContent
  <2> QED
    BY <2>1, <2>3
<1>7. CASE token # <<>> /\ es # <<>>
  <2>1. token' = <<>> /\ status' = then /\ es' = [es EXCEPT ![Len(es)] = last]
    BY <1>7 DEF FlushVal
  <2>2. SameKeys(es', all)
    <3> HIDE DEF all, last
    <3> QED
      BY <1>1, <1>3, <1>4, <1>7, <2>1, SameKeysValue
  <2>3. ASSUME ~b PROVE es' = all
    <3> DEFINE e == [key |-> KeyOf(cur), val |-> <<>>]
    <3>1. Content(cur) # {}
      BY <1>2, <1>7, <2>3, NoContent
    <3>2. es = Append(F, e) /\ all = Append(F, EntryOf(cur)) /\ e \in Entry /\ EntryOf(cur) \in Entry
      BY <2>3, <3>1, BegunType, EntryOfIs, EntriesOfAppend DEF Written, Begun
    <3>3. es[Len(es)] = e
      <4> HIDE DEF e, F
      <4> QED
        BY <1>1, <3>2, LastIs
    <3>4. last = EntryOf(cur)
      BY <1>2, <2>3, <3>3, EntryOfIs
    <3>5. es' = [Append(F, e) EXCEPT ![Len(Append(F, e))] = EntryOf(cur)]
      BY <2>1, <3>2, <3>4
    <3> HIDE DEF e, F, all
    <3> QED
      BY <1>1, <3>2, <3>5, LastIs
  <2> QED
    BY <2>1, <2>2, <2>3
<1> HIDE DEF all
<1> QED
  BY <1>5, <1>6, <1>7 DEF all

(* The reader is at the start of a line after its end, or has failed.      *)
LEMMA NewLineWritten ==
  ASSUME TypeOK, NEW front \in Seq(Seq(Lexeme)), NEW cur \in Seq(Lexeme), NEW b \in BOOLEAN,
         Written(front, cur, b), FlushVal("reading"), ts' = "undefined"
  PROVE  \/ status' = "panicked" /\ b
         \/ status' = "reading" /\ Written(Append(front, cur), <<>>, b)'
<1> DEFINE all == EntriesOf(Append(front, cur))
           empty == <<>>
<1>1. /\ token' = <<>>
      /\ \/ status' = "panicked" /\ b
         \/ status' = "reading" /\ SameKeys(es', all) /\ (~b => es' = all)
  BY FlushWritten
<1>2. /\ Content(empty) = {} /\ Marks(empty, "=") = {} /\ ValueOf(empty) = empty
      /\ Collected(empty, token', spaces')
  BY <1>1, CollectedNone DEF ValueOf
<1>3. Begun(Append(front, cur), empty) = all
  BY <1>2 DEF Begun
<1> HIDE DEF all, empty
<1>4. SameKeys(es', all) /\ (~b => es' = all) => Written(Append(front, cur), empty, b)'
  BY <1>2, <1>3 DEF Written
<1> QED
  BY <1>1, <1>4 DEF empty

(* What was read, and what the parser made of it.                          *)
ReadsAsWritten ==
  /\ status = "reading" =>
       /\ ts = "comment" => escn \subseteq {"one"}
       /\ \E o \in Seq(Lexeme) : AsRead(o) /\ \E front, cur :
            Parts(o, front, cur) /\ Written(front, cur, BackslashInComment(read))
  /\ status = "returned" =>
       SameKeys(es, Entries(read)) /\ (BackslashInComment(read) \/ es = Entries(read))
  /\ status = "panicked" => BackslashInComment(read)

(* Nothing was read in the beginning.                                      *)
LEMMA InitReads == Init => ReadsAsWritten
<1> SUFFICES ASSUME Init PROVE ReadsAsWritten
  OBVIOUS
<1> DEFINE e == <<>>
<1>1. /\ ts = "undefined" /\ escn = {} /\ es = e /\ token = e /\ spaces = e /\ read = e
      /\ status = "reading"
  BY DEF Init
<1>2. e \in Seq(Lexeme) /\ e \in Seq(Seq(Lexeme)) /\ AsRead(e)
  <2>1. Lexed(read) = Reading("plain", FALSE, e)
    BY <1>1, LexedEmpty DEF Beginning
  <2>2. Mode = "plain" /\ Escaped = FALSE
    BY <1>1 DEF Mode, Escaped
  <2>3. AsRead(e)
    BY <2>1, <2>2 DEF AsRead
  <2>4. e \in Seq(Lexeme) /\ e \in Seq(Seq(Lexeme))
    OBVIOUS
  <2> QED
    BY <2>3, <2>4
<1>3. /\ Content(e) = {} /\ Marks(e, "=") = {} /\ ValueOf(e) = e
      /\ Collected(e, token, spaces)
  BY <1>1, CollectedNone DEF ValueOf
<1>4. EntriesOf(e) = e /\ SameKeys(es, e)
  <2>1. {i \in DOMAIN e : Content(e[i]) # {}} = {}
    OBVIOUS
  <2>2. EntriesOf(e) = e
    BY <2>1, FS_EmptySet DEF EntriesOf
  <2> QED
    BY <1>1, <2>2 DEF SameKeys
<1>5. Begun(e, e) = e
  BY <1>3, <1>4 DEF Begun
<1>6. Parts(e, e, e)
  BY PartsEmpty
<1> HIDE DEF e
<1>7. Written(e, e, BackslashInComment(read))
  BY <1>1, <1>3, <1>4, <1>5 DEF Written
<1> QED
  BY <1>1, <1>2, <1>6, <1>7 DEF ReadsAsWritten

(* After a rune that the parser and the text go on from.                   *)
LEMMA GoesOn ==
  ASSUME NEW o \in Seq(Lexeme), AsRead(o)', NEW front, NEW cur, Parts(o, front, cur),
         NEW b \in BOOLEAN, Written(front, cur, b)', b <=> BackslashInComment(read)',
         status' = "reading", ts' = "comment" => escn' \subseteq {"one"}
  PROVE  ReadsAsWritten'
<1>1. Written(front, cur, BackslashInComment(read))'
  BY DEF Written
<1> QED
  BY <1>1 DEF ReadsAsWritten

(* Every step of the reader keeps its entries those of the text read so    *)
(* far.                                                                    *)
LEMMA NextReads == Inv /\ ReadsAsWritten /\ [Next]_vars => ReadsAsWritten'
<1> SUFFICES ASSUME Inv, ReadsAsWritten, [Next]_vars PROVE ReadsAsWritten'
  OBVIOUS
<1>1. CASE UNCHANGED vars
  BY <1>1 DEF ReadsAsWritten, vars, AsRead, Mode, Escaped, Written
<1> SUFFICES ASSUME Next PROVE ReadsAsWritten'
  BY <1>1
<1>2. /\ TypeOK /\ status = "reading" /\ read \in Seq(Runes)
      /\ ts = "undefined" => token = <<>>
  BY DEF Next, Inv, TypeOK, Collects, Backslash, Quote, Equals, NewLine, Hash, Space, Letter,
         EndOfFile, ReadRune
<1>3. ts = "comment" => escn \subseteq {"one"}
  BY <1>2 DEF ReadsAsWritten
<1>3a. PICK o \in Seq(Lexeme) : AsRead(o) /\ \E f, l :
         Parts(o, f, l) /\ Written(f, l, BackslashInComment(read))
  BY <1>2 DEF ReadsAsWritten
<1>4. PICK front, cur :
        AsRead(o) /\ Parts(o, front, cur) /\ Written(front, cur, BackslashInComment(read))
  BY <1>3a
<1>5. PICK b \in BOOLEAN : b <=> BackslashInComment(read)
  OBVIOUS
<1>6. Written(front, cur, b)
  BY <1>4, <1>5 DEF Written
<1>7. front \in Seq(Seq(Lexeme)) /\ cur \in Seq(Lexeme)
  BY <1>4 DEF Parts
<1>8. ASSUME NEW c \in Runes, read' = Append(read, c), c # "backslash" \/ ts # "comment"
      PROVE  b <=> BackslashInComment(read)'
  <2>1. BackslashInComment(read)' <=>
          \/ BackslashInComment(read)
          \/ Lexed(read).mode = "comment" /\ Lexed(read).escaped /\ c = "backslash"
    BY <1>2, <1>8, BackslashAppend
  <2>2. Lexed(read).mode = Mode
    BY <1>4, ReadFields DEF AsRead
  <2>3. ts # "comment" => Mode # "comment"
    BY DEF Mode
  <2> QED
    BY <1>5, <1>8, <2>1, <2>2, <2>3
(* A rune of the text that is literal, and one that is not.                *)
<1>9. ASSUME NEW c \in Runes, ReadRune(c, Pending), Write(c), UNCHANGED status, ts # "comment",
             "one" \in escn \/ (escn # {} /\ c # "backslash" /\ c \notin escn)
      PROVE  ReadsAsWritten'
  <2> DEFINE x == <<c, TRUE>>
  <2>1. x \in Lexeme /\ x # Blank /\ x # Divider /\ x # LineEnd /\ x[1] = c
    BY DEF Lexeme, Blank, Divider, LineEnd
  <2>2. read' = Append(read, c) /\ escn' = Pending /\ status' = "reading"
    BY <1>2, <1>9 DEF ReadRune
  <2>3. Write(x[1])
    BY <1>9, <2>1
  <2>4. Written(front, Append(cur, x), b)' /\ ts' # "comment"
    <3> HIDE DEF x
    <3> QED
      BY <1>2, <1>6, <1>7, <1>9, <2>1, <2>3, WriteWritten
  <2>5. AsRead(Append(o, x))'
    BY <1>2, <1>4, <1>9, <2>2, <2>4, ReadLiteral
  <2>6. b <=> BackslashInComment(read)'
    BY <1>8, <1>9, <2>2
  <2> HIDE DEF x
  <2>7. Parts(Append(o, x), front, Append(cur, x)) /\ Append(o, x) \in Seq(Lexeme)
    BY <1>4, <2>1, PartsRune
  <2> QED
    BY <2>2, <2>4, <2>5, <2>6, <2>7, GoesOn
<1>10. ASSUME NEW c \in {"=", "letter"}, ReadRune(c, Pending), Write(c), UNCHANGED status,
              ts # "comment", escn = {}, c = "=" => ts = "value"
       PROVE  ReadsAsWritten'
  <2> DEFINE x == <<c, FALSE>>
  <2>1. /\ x \in Lexeme /\ x # Blank /\ (x # Divider \/ ts = "value") /\ x # LineEnd /\ x[1] = c
        /\ c \in Runes
    BY <1>10 DEF Lexeme, Blank, Divider, LineEnd, Runes
  <2>2. read' = Append(read, c) /\ escn' = {} /\ status' = "reading"
    BY <1>2, <1>10 DEF ReadRune, Pending
  <2>3. Write(x[1])
    BY <1>10, <2>1
  <2>4. Written(front, Append(cur, x), b)' /\ ts' # "comment"
    <3> HIDE DEF x
    <3> QED
      BY <1>2, <1>6, <1>7, <1>10, <2>1, <2>3, WriteWritten
  <2>5. AsRead(Append(o, x))'
    BY <1>2, <1>4, <1>10, <2>2, <2>4, ReadPlain
  <2>6. b <=> BackslashInComment(read)'
    BY <1>8, <1>10, <2>1, <2>2
  <2> HIDE DEF x
  <2>7. Parts(Append(o, x), front, Append(cur, x)) /\ Append(o, x) \in Seq(Lexeme)
    BY <1>4, <2>1, PartsRune
  <2> QED
    BY <2>2, <2>4, <2>5, <2>6, <2>7, GoesOn
(* A rune of a comment.                                                    *)
<1>11. ASSUME NEW c \in Runes, NEW e, ReadRune(c, e), Skip, UNCHANGED status, ts = "comment",
              \/ "one" \in escn /\ c # "backslash" /\ e = Pending
              \/ escn = {} /\ c = "backslash" /\ e = {"one"}
              \/ escn = {} /\ c \notin {"backslash", "newline"} /\ e = Pending
       PROVE  ReadsAsWritten'
  <2>1. read' = Append(read, c) /\ escn' = e /\ status' = "reading" /\ ts' = "comment"
    BY <1>2, <1>11 DEF ReadRune, Skip
  <2>2. AsRead(o)' /\ escn' \subseteq {"one"}
    <3>1. \/ "one" \in escn /\ escn' = {}
          \/ escn = {} /\ c = "backslash" /\ escn' = {"one"}
          \/ escn = {} /\ c \notin {"backslash", "newline"} /\ escn' = {}
      BY <1>3, <1>11, <2>1 DEF Pending
    <3> QED
      BY <1>2, <1>4, <1>11, <2>1, <3>1, ReadComment
  <2>3. b <=> BackslashInComment(read)'
    <3>1. BackslashInComment(read)' <=>
            \/ BackslashInComment(read)
            \/ Lexed(read).mode = "comment" /\ Lexed(read).escaped /\ c = "backslash"
      BY <1>2, <2>1, BackslashAppend
    <3>2. Lexed(read).escaped = Escaped
      BY <1>4, ReadFields DEF AsRead
    <3>3. c = "backslash" => Escaped = FALSE
      BY <1>11 DEF Escaped
    <3> QED
      BY <1>5, <3>1, <3>2, <3>3
  <2>4. Written(front, cur, b)'
    BY <1>6, <1>11 DEF Written, Skip
  <2> QED
    BY <1>4, <2>1, <2>2, <2>3, <2>4, GoesOn
(* What begins or ends an escape or a quote, or begins a comment.          *)
<1>12. ASSUME NEW c \in Runes, read' = Append(read, c), UNCHANGED <<es, token, spaces, status>>,
              ts # "comment",
              \/ c = "backslash" /\ "one" \notin escn /\ escn' = escn \cup {"one"} /\ ts' = ts
              \/ c \in {"single", "double"} /\ escn = {c} /\ escn' = {} /\ ts' = ts
              \/ c \in {"single", "double"} /\ escn = {} /\ escn' = {c} /\ ts' = ts
              \/ c = "#" /\ escn = {} /\ escn' = {} /\ ts' = "comment"
       PROVE  ReadsAsWritten'
  <2>1. AsRead(o)'
    BY <1>2, <1>4, <1>12, ReadMark
  <2>2. b <=> BackslashInComment(read)'
    BY <1>8, <1>12
  <2>3. Written(front, cur, b)'
    BY <1>6, <1>12 DEF Written
  <2>4. ts' = "comment" => escn' \subseteq {"one"}
    BY <1>12
  <2> QED
    BY <1>2, <1>4, <1>12, <2>1, <2>2, <2>3, <2>4, GoesOn
<1>13. CASE Backslash
  <2>1. CASE "one" \in escn /\ ts = "comment"
    <3>1. /\ read' = Append(read, "backslash") /\ escn' = Pending /\ status' = "reading"
          /\ ts' = "comment" /\ es' = es
      BY <1>2, <1>13, <2>1 DEF Backslash, ReadRune, Write
    <3>2. AsRead(o)' /\ escn' = {}
      <4>1. escn' = {}
        BY <1>3, <2>1, <3>1 DEF Pending
      <4> QED
        BY <1>2, <1>4, <2>1, <3>1, <4>1, ReadComment DEF Runes
    <3>3. BackslashInComment(read)'
      <4>1. Lexed(read).mode = "comment" /\ Lexed(read).escaped = TRUE
        BY <1>4, <2>1, ReadFields DEF AsRead, Mode, Escaped
      <4> QED
        BY <1>2, <3>1, <4>1, BackslashAppend DEF Runes
    <3>4. Written(front, cur, TRUE)'
      BY <1>6, <2>1, <3>1 DEF Written
    <3> QED
      BY <1>4, <3>1, <3>2, <3>3, <3>4, GoesOn
  <2>2. CASE "one" \in escn /\ ts # "comment"
    BY <1>9, <1>13, <2>2 DEF Backslash, Runes
  <2>3. CASE "one" \notin escn /\ ts = "comment"
    <3>1. ReadRune("backslash", {"one"}) /\ Skip /\ UNCHANGED status /\ escn = {}
      BY <1>3, <1>13, <2>3 DEF Backslash
    <3> QED
      BY <1>11, <2>3, <3>1 DEF Runes
  <2>4. CASE "one" \notin escn /\ ts # "comment"
    <3>1. /\ read' = Append(read, "backslash") /\ escn' = escn \cup {"one"}
          /\ UNCHANGED <<ts, es, token, spaces, status>>
      BY <1>13, <2>4 DEF Backslash, ReadRune, Skip
    <3> QED
      BY <1>12, <2>4, <3>1 DEF Runes
  <2> QED
    BY <2>1, <2>2, <2>3, <2>4
<1>14. ASSUME NEW c \in {"single", "double"}, Quote(c)
       PROVE  ReadsAsWritten'
  <2>1. c \in Runes /\ c # "backslash" /\ c # "newline" /\ UNCHANGED status
    BY <1>14 DEF Runes, Quote
  <2>2. CASE ts = "comment" /\ ReadRune(c, Pending) /\ Skip
    <3>1. "one" \in escn \/ escn = {}
      BY <1>3, <2>2
    <3> QED
      BY <1>11, <2>1, <2>2, <3>1
  <2>3. CASE ts # "comment" /\ escn \ {c} # {} /\ ReadRune(c, Pending) /\ Write(c)
    <3>1. "one" \in escn \/ (escn # {} /\ c \notin escn)
      BY <1>2, <1>14, <2>3 DEF TypeOK
    <3> QED
      BY <1>9, <2>1, <2>3, <3>1
  <2>4. CASE ts # "comment" /\ escn = {c} /\ ReadRune(c, {}) /\ Skip
    BY <1>12, <2>1, <2>4 DEF ReadRune, Skip
  <2>5. CASE ts # "comment" /\ escn = {} /\ ReadRune(c, {c}) /\ Skip
    BY <1>12, <2>1, <2>5 DEF ReadRune, Skip
  <2> QED
    BY <1>14, <2>2, <2>3, <2>4, <2>5 DEF Quote
<1>15. CASE Equals
  <2>1. CASE ts = "comment"
    <3>1. ReadRune("=", Pending) /\ Skip /\ UNCHANGED status /\ ("one" \in escn \/ escn = {})
      BY <1>3, <1>15, <2>1 DEF Equals
    <3> QED
      BY <1>11, <2>1, <3>1 DEF Runes
  <2>2. CASE ts # "comment" /\ escn # {} /\ Write("=")
    <3>1. "=" \notin escn /\ ReadRune("=", Pending) /\ UNCHANGED status
      BY <1>2, <1>15 DEF TypeOK, Equals
    <3> QED
      BY <1>9, <2>2, <3>1 DEF Runes
  <2>3. CASE escn = {} /\ ts = "value" /\ Write("=")
    BY <1>10, <1>15, <2>3 DEF Equals
  <2>4. CASE ts \in {"undefined", "key"} /\ escn = {} /\ EndKey
    <3>1. /\ read' = Append(read, "=") /\ escn' = {} /\ status' = "reading" /\ ts' = "value"
      BY <1>2, <1>15, <2>4 DEF Equals, ReadRune, Pending, EndKey
    <3>2. Written(front, Append(cur, Divider), b)'
      BY <1>2, <1>6, <1>7, <2>4, EndKeyWritten
    <3>3. AsRead(Append(o, Divider))'
      BY <1>2, <1>4, <2>4, <3>1, ReadPlain DEF Divider
    <3>4. b <=> BackslashInComment(read)'
      BY <1>8, <2>4, <3>1 DEF Runes
    <3>5. /\ Parts(Append(o, Divider), front, Append(cur, Divider))
          /\ Append(o, Divider) \in Seq(Lexeme)
      <4>1. Divider \in Lexeme /\ Divider # LineEnd
        BY MarkTypes DEF Divider, LineEnd
      <4> QED
        BY <1>4, <4>1, PartsRune
    <3> QED
      BY <3>1, <3>2, <3>3, <3>4, <3>5, GoesOn
  <2> QED
    BY <1>15, <2>1, <2>2, <2>3, <2>4 DEF Equals
<1>16. CASE NewLine
  <2>1. ReadRune("newline", Pending) /\ read' = Append(read, "newline")
    BY <1>16 DEF NewLine, ReadRune
  <2>2. CASE escn # {} /\ ts = "comment" /\ Skip /\ UNCHANGED status
    <3>1. "one" \in escn
      BY <1>3, <2>2
    <3> QED
      BY <1>11, <2>1, <2>2, <3>1 DEF Runes
  <2>3. CASE escn # {} /\ ts # "comment" /\ Write("newline") /\ UNCHANGED status
    <3>1. "newline" \notin escn
      BY <1>2 DEF TypeOK
    <3> QED
      BY <1>9, <2>1, <2>3, <3>1 DEF Runes
  <2>4. ASSUME escn = {}, FlushVal("reading"), ts' = "undefined" PROVE ReadsAsWritten'
    <3>1. escn' = {}
      BY <2>1, <2>4 DEF ReadRune, Pending
    <3>2. AsRead(Append(o, LineEnd))'
      <4>1. CASE ts = "comment"
        BY <1>2, <1>4, <2>1, <2>4, <3>1, <4>1, ReadCommentEnd
      <4>2. CASE ts # "comment"
        BY <1>2, <1>4, <2>1, <2>4, <3>1, <4>2, ReadPlain DEF LineEnd
      <4> QED
        BY <4>1, <4>2
    <3>3. b <=> BackslashInComment(read)'
      BY <1>8, <2>1 DEF Runes
    <3>4. CASE status' = "panicked" /\ b
      BY <3>3, <3>4 DEF ReadsAsWritten
    <3>5. CASE status' = "reading" /\ Written(Append(front, cur), <<>>, b)'
      <4> DEFINE empty == <<>>
      <4>1. Written(Append(front, cur), empty, b)'
        BY <3>5
      <4>2. Parts(Append(o, LineEnd), Append(front, cur), empty) /\ Append(o, LineEnd) \in Seq(Lexeme)
        BY <1>4, PartsLine, MarkTypes
      <4> HIDE DEF empty
      <4> QED
        BY <2>4, <3>2, <3>3, <3>5, <4>1, <4>2, GoesOn
    <3> QED
      BY <1>2, <1>6, <1>7, <2>4, <3>4, <3>5, NewLineWritten
  <2>5. CASE escn = {} /\ ts = "undefined" /\ Skip /\ UNCHANGED status
    BY <1>2, <2>4, <2>5 DEF Skip, FlushVal
  <2>6. CASE escn = {} /\ ts # "undefined" /\ ts' = "undefined" /\ FlushVal("reading")
    BY <2>4, <2>6
  <2> QED
    BY <1>16, <2>2, <2>3, <2>5, <2>6 DEF NewLine
<1>17. CASE Hash
  <2>1. ReadRune("#", Pending) /\ UNCHANGED status /\ "#" \notin escn
    BY <1>2, <1>17 DEF Hash, TypeOK
  <2>2. CASE ts = "comment" /\ Skip
    <3>1. "one" \in escn \/ escn = {}
      BY <1>3, <2>2
    <3> QED
      BY <1>11, <2>1, <2>2, <3>1 DEF Runes
  <2>3. CASE ts # "comment" /\ escn # {} /\ Write("#")
    BY <1>9, <2>1, <2>3 DEF Runes
  <2>4. CASE ts # "comment" /\ escn = {} /\ ts' = "comment" /\ UNCHANGED <<es, token, spaces>>
    <3>1. read' = Append(read, "#") /\ escn' = {}
      BY <2>1, <2>4 DEF ReadRune, Pending
    <3> QED
      BY <1>12, <2>1, <2>4, <3>1 DEF Runes
  <2> QED
    BY <1>17, <2>2, <2>3, <2>4 DEF Hash
<1>18. CASE Space
  <2>1. ReadRune("space", Pending) /\ UNCHANGED status /\ "space" \notin escn
    BY <1>2, <1>18 DEF Space, TypeOK
  <2>2. CASE ts = "comment" /\ Skip
    <3>1. "one" \in escn \/ escn = {}
      BY <1>3, <2>2
    <3> QED
      BY <1>11, <2>1, <2>2, <3>1 DEF Runes
  <2>3. CASE ts # "comment" /\ escn # {} /\ Write("space")
    BY <1>9, <2>1, <2>3 DEF Runes
  <2>4. CASE /\ ts # "comment" /\ escn = {}
             /\ spaces' = Append(spaces, "space") /\ UNCHANGED <<ts, es, token>>
    <3>1. read' = Append(read, "space") /\ escn' = {} /\ status' = "reading" /\ ts' # "comment"
      BY <1>2, <2>1, <2>4 DEF ReadRune, Pending
    <3>2. Written(front, Append(cur, Blank), b)'
      BY <1>2, <1>6, <1>7, <2>4, SpaceWritten
    <3>3. AsRead(Append(o, Blank))'
      BY <1>2, <1>4, <2>4, <3>1, ReadPlain DEF Blank
    <3>4. b <=> BackslashInComment(read)'
      BY <1>8, <3>1 DEF Runes
    <3>5. Parts(Append(o, Blank), front, Append(cur, Blank)) /\ Append(o, Blank) \in Seq(Lexeme)
      <4>1. Blank \in Lexeme /\ Blank # LineEnd
        BY MarkTypes DEF Blank, LineEnd
      <4> QED
        BY <1>4, <4>1, PartsRune
    <3> QED
      BY <3>1, <3>2, <3>3, <3>4, <3>5, GoesOn
  <2> QED
    BY <1>18, <2>2, <2>3, <2>4 DEF Space
<1>19. CASE Letter
  <2>1. ReadRune("letter", Pending) /\ UNCHANGED status /\ "letter" \notin escn
    BY <1>2, <1>19 DEF Letter, TypeOK
  <2>2. CASE ts = "comment" /\ Skip
    <3>1. "one" \in escn \/ escn = {}
      BY <1>3, <2>2
    <3> QED
      BY <1>11, <2>1, <2>2, <3>1 DEF Runes
  <2>3. CASE ts # "comment" /\ Write("letter") /\ escn # {}
    BY <1>9, <2>1, <2>3 DEF Runes
  <2>4. CASE ts # "comment" /\ Write("letter") /\ escn = {}
    BY <1>10, <2>1, <2>4
  <2> QED
    BY <1>19, <2>2, <2>3, <2>4 DEF Letter
<1>20. CASE EndOfFile
  <2>1. FlushVal("returned") /\ read' = read
    BY <1>20 DEF EndOfFile
  <2>2. Entries(read) = EntriesOf(Append(front, cur))
    <3>1. Lexed(read).out = o
      BY <1>4, ReadFields DEF AsRead
    <3> QED
      BY <1>4, <3>1 DEF Entries, Parts
  <2>3. \/ status' = "panicked" /\ b
        \/ status' = "returned" /\ SameKeys(es', Entries(read)) /\ (~b => es' = Entries(read))
    BY <1>2, <1>6, <1>7, <2>1, <2>2, FlushWritten
  <2> QED
    BY <1>5, <2>1, <2>3 DEF ReadsAsWritten, SameKeys
<1> QED
  BY <1>13, <1>14, <1>15, <1>16, <1>17, <1>18, <1>19, <1>20 DEF Next

(* So its entries are those of the text read so far, at any time.          *)
LEMMA ReadsInv == Spec => [](Inv /\ ReadsAsWritten)
<1>1. Init => Inv /\ ReadsAsWritten
  BY InitInv, InitReads
<1>2. (Inv /\ ReadsAsWritten) /\ [Next]_vars => (Inv /\ ReadsAsWritten)'
  BY NextInv, NextReads
<1> QED
  BY <1>1, <1>2, PTL DEF Spec

(* parseFile returns the entries of the file, in their order, whatever the *)
(* file contains and however long it is, unless a comment contains an      *)
(* escaped backslash.                                                      *)
THEOREM ParsedAsWritten == Spec => []ParsesAsWritten
<1>1. Inv /\ ReadsAsWritten => ParsesAsWritten
  BY DEF Inv, TypeOK, ReadsAsWritten, ParsesAsWritten
<1> QED
  BY <1>1, ReadsInv, PTL

(* With such a comment parseFile that returns still has an entry for every *)
(* line that has one, with its key.                                        *)
THEOREM KeysParsedAsWritten == Spec => []KeysAsWritten
<1>1. Inv /\ ReadsAsWritten => KeysAsWritten
  <2> SUFFICES ASSUME Inv, ReadsAsWritten, status = "returned"
               PROVE  /\ Len(es) = Len(Entries(read))
                      /\ \A i \in DOMAIN es : es[i].key = Entries(read)[i].key
    BY DEF KeysAsWritten
  <2>1. /\ Len(es) = Len(Entries(read)) /\ es \in Seq(Entry)
        /\ \A i \in 1..Len(Entries(read)) : es[i].key = Entries(read)[i].key
    BY DEF ReadsAsWritten, SameKeys, Inv, TypeOK
  <2>2. DOMAIN es = 1..Len(es)
    BY <2>1
  <2> QED
    BY <2>1, <2>2
<1> QED
  BY <1>1, ReadsInv, PTL
=============================================================================
