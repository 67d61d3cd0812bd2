------------------------------- MODULE KeyVal -------------------------------
(***************************************************************************)
(* parseFile of src/keyval/keyval.go: the parser of configuration files.   *)
(* It reads rune by rune, with quotes, escapes and comments, an entry      *)
(* "key = value" per line; a step is one turn of its loop.  One rune       *)
(* stands for each class of runes that the code tells apart.               *)
(***************************************************************************)
EXTENDS Naturals, Sequences, KeyValFormat

CONSTANT MaxRunes  \* how long the texts are

ASSUME MaxRunesAssumption == MaxRunes \in Nat

(* "single" and "double" are the quotes, "space" is any other space.       *)
Runes == {"backslash", "single", "double", "=", "newline", "#", "space", "letter"}

Entry == [key : Seq(Runes), val : Seq(Runes)]

VARIABLES
  ts,      \* what the line is at: "undefined", "key", "value" or "comment"
  escn,    \* the escapes in force: "one" rune, "single" or "double" quotes
  es,      \* the entries; e of the code is the last of them, or nil
  token,   \* the text collected for a key or a value
  spaces,  \* the spaces that belong to the token if anything follows them
  read,    \* what was read of the file
  status   \* "reading", then "returned" or "panicked"

vars == <<ts, escn, es, token, spaces, read, status>>

Init ==
  /\ ts = "undefined"
  /\ escn = {}
  /\ es = <<>>
  /\ token = <<>>
  /\ spaces = <<>>
  /\ read = <<>>
  /\ status = "reading"

(* The next rune is c; whatever it is, it ends the escape of one rune.     *)
ReadRune(c, escapes) ==
  /\ status = "reading"
  /\ Len(read) < MaxRunes
  /\ read' = Append(read, c)
  /\ escn' = escapes

PendingKept == escn

Pending == escn \ {"one"}

WriteNoNext(c) ==
  /\ ts' = IF ts = "undefined" THEN "key" ELSE ts
  /\ token' = IF token = <<>> THEN <<c>> ELSE token \o spaces \o <<c>>
  /\ spaces' = <<>>
  /\ UNCHANGED es

(* A rune of the text; the first one of a line begins an entry.            *)
Write(c) ==
  /\ ts' = IF ts = "undefined" THEN "key" ELSE ts
  /\ es' = IF ts = "undefined" THEN Append(es, [key |-> <<>>, val |-> <<>>]) ELSE es
  /\ token' = IF token = <<>> THEN <<c>> ELSE token \o spaces \o <<c>>
  /\ spaces' = <<>>

Skip == UNCHANGED <<ts, es, token, spaces>>

(* if token.Len() > 0 { e.Val = flush() }, and e may be nil.               *)
FlushVal(then) ==
  IF token = <<>>
    THEN status' = then /\ UNCHANGED <<es, token, spaces>>
    ELSE /\ status' = IF es = <<>> THEN "panicked" ELSE then
         /\ es' = IF es = <<>> THEN es ELSE [es EXCEPT ![Len(es)].val = token]
         /\ token' = <<>>
         /\ spaces' = <<>>

Backslash ==
  /\ UNCHANGED status
  /\ \/ "one" \in escn /\ ReadRune("backslash", Pending) /\ Write("backslash")
     \/ "one" \notin escn /\ ReadRune("backslash", escn \cup {"one"}) /\ Skip

(* A quote has the name of the escape that it begins and ends.             *)
Quote(c) ==
  /\ UNCHANGED status
  /\ \/ ts = "comment" /\ ReadRune(c, Pending) /\ Skip
     \/ ts # "comment" /\ escn \ {c} # {} /\ ReadRune(c, Pending) /\ Write(c)
     \/ ts # "comment" /\ escn = {c} /\ ReadRune(c, {}) /\ Skip
     \/ ts # "comment" /\ escn = {} /\ ReadRune(c, {c}) /\ Skip

EndKeyNoNext ==
  /\ es' = [es EXCEPT ![Len(es)].key = token]
  /\ ts' = "value"
  /\ token' = <<>>
  /\ spaces' = <<>>

EndKey ==
  /\ es' = IF ts = "undefined"
             THEN Append(es, [key |-> token, val |-> <<>>])
             ELSE [es EXCEPT ![Len(es)].key = token]
  /\ ts' = "value"
  /\ token' = <<>>
  /\ spaces' = <<>>

(* The first one of a line that is not escaped ends the key.               *)
Equals ==
  /\ UNCHANGED status
  /\ ReadRune("=", Pending)
  /\ \/ ts = "comment" /\ Skip
     \/ ts # "comment" /\ (escn # {} \/ ts = "value") /\ Write("=")
     \/ ts \in {"undefined", "key"} /\ escn = {} /\ EndKey

NewLine ==
  /\ ReadRune("newline", Pending)
  /\ \/ escn # {} /\ ts = "comment" /\ Skip /\ UNCHANGED status
     \/ escn # {} /\ ts # "comment" /\ Write("newline") /\ UNCHANGED status
     \/ escn = {} /\ ts = "undefined" /\ Skip /\ UNCHANGED status
     \/ escn = {} /\ ts # "undefined" /\ ts' = "undefined" /\ FlushVal("reading")

Hash ==
  /\ UNCHANGED status
  /\ ReadRune("#", Pending)
  /\ \/ ts = "comment" /\ Skip
     \/ ts # "comment" /\ escn # {} /\ Write("#")
     \/ /\ ts # "comment"
        /\ escn = {}
        /\ ts' = "comment"
        /\ UNCHANGED <<es, token, spaces>>

Space ==
  /\ UNCHANGED status
  /\ ReadRune("space", Pending)
  /\ \/ ts = "comment" /\ Skip
     \/ ts # "comment" /\ escn # {} /\ Write("space")
     \/ /\ ts # "comment"
        /\ escn = {}
        /\ spaces' = Append(spaces, "space")
        /\ UNCHANGED <<ts, es, token>>

Letter ==
  /\ UNCHANGED status
  /\ ReadRune("letter", Pending)
  /\ \/ ts = "comment" /\ Skip
     \/ ts # "comment" /\ Write("letter")

(* The end of the file: what was collected is the value of the last entry. *)
EndOfFile ==
  /\ status = "reading"
  /\ escn' = Pending
  /\ FlushVal("returned")
  /\ UNCHANGED <<ts, read>>

Next ==
  \/ Backslash \/ Quote("single") \/ Quote("double") \/ Equals
  \/ NewLine \/ Hash \/ Space \/ Letter \/ EndOfFile

Spec == Init /\ [][Next]_vars

---------------------------------------------------------------------------
(* The types of the variables; a line that is in its key or its value has  *)
(* an entry, so that e is not nil there.                                   *)
TypeOK ==
  /\ ts \in {"undefined", "key", "value", "comment"}
  /\ escn \subseteq {"one", "single", "double"}
  /\ ~({"single", "double"} \subseteq escn)
  /\ es \in Seq(Entry)
  /\ token \in Seq(Runes)
  /\ spaces \in Seq({"space"})
  /\ read \in Seq(Runes)
  /\ status \in {"reading", "returned", "panicked"}
  /\ ts \in {"key", "value"} => es # <<>>

(* parseFile returns the entries the file has, in their order, unless a    *)
(* comment contains an escaped backslash.                                  *)
ParsesAsWritten ==
  status # "reading" =>
    \/ BackslashInComment(read)
    \/ status = "returned" /\ es = Entries(read)

(* Whatever the comments contain, parseFile that returns has an entry for  *)
(* every line that has one, with its key.                                  *)
KeysAsWritten ==
  status = "returned" =>
    LET entries == Entries(read)
    IN /\ Len(es) = Len(entries)
       /\ \A i \in DOMAIN es : es[i].key = entries[i].key

(* parseFile, which assigns values to whatever entry came last, finds none *)
(* and ends the program in comments only.                                  *)
PanicsOnlyInComments ==
  [][status = "reading" /\ status' = "panicked" => ts = "comment"]_vars

(* Comments yield nothing and change nothing: parseFile returns the        *)
(* entries of the file without them.                                       *)
CommentsYieldNothing ==
  status # "reading" => status = "returned" /\ es = Entries(read)
=============================================================================
