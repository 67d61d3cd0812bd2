---------------------------- MODULE KeyValFormat ----------------------------
(***************************************************************************)
(* What a configuration file says, independent of how parseFile of         *)
(* src/keyval/keyval.go reads it: quotes and escapes make runes literal,   *)
(* comments are dropped, what is left is split in lines, a line at its     *)
(* first "=", and the text of a key or of a value is trimmed.              *)
(***************************************************************************)
EXTENDS Naturals, Sequences, FiniteSets, FiniteSetsExt

Reading(mode, escaped, out) == [mode |-> mode, escaped |-> escaped, out |-> out]

Beginning == Reading("plain", FALSE, <<>>)

(* The text so far, as runes that are literal or not, after rune c; the    *)
(* mode between quotes is the quote that ends it.                          *)
Lex(s, c) ==
  LET Literal == Reading(s.mode, FALSE, Append(s.out, <<c, TRUE>>))
      Plain == Reading("plain", FALSE, Append(s.out, <<c, FALSE>>))
      In(mode) == Reading(mode, FALSE, s.out)
  IN IF s.escaped THEN IF s.mode = "comment" THEN In("comment") ELSE Literal
     ELSE IF c = "backslash" THEN Reading(s.mode, TRUE, s.out)
     ELSE IF s.mode = "comment" THEN IF c = "newline" THEN Plain ELSE s
     ELSE IF s.mode # "plain" THEN IF c = s.mode THEN In("plain") ELSE Literal
     ELSE IF c \in {"single", "double"} THEN In(c)
     ELSE IF c = "#" THEN In("comment") ELSE Plain

(* After each number of the runes of the text.                             *)
LexedUpTo(text) ==
  LET lexed[n \in 0..Len(text)] ==
        IF n = 0 THEN Beginning ELSE Lex(lexed[n - 1], text[n])
  IN lexed

Lexed(text) == LexedUpTo(text)[Len(text)]

(* The places in a lexed text where rune c is not literal.                 *)
Marks(s, c) == {i \in DOMAIN s : s[i] = <<c, FALSE>>}

Content(s) == DOMAIN s \ Marks(s, "space")

Trimmed(s) ==
  IF Content(s) = {} THEN <<>>
  ELSE LET t == SubSeq(s, Min(Content(s)), Max(Content(s)))
       IN [i \in DOMAIN t |-> t[i][1]]

EntryOf(line) ==
  IF Marks(line, "=") = {} THEN [key |-> <<>>, val |-> Trimmed(line)]
  ELSE LET i == Min(Marks(line, "="))
       IN [key |-> Trimmed(SubSeq(line, 1, i - 1)),
           val |-> Trimmed(SubSeq(line, i + 1, Len(line)))]

(* The one of these numbers that n of them are less than.                  *)
Nth(numbers, n) == CHOOSE e \in numbers : Cardinality({f \in numbers : f < e}) = n

(* The parts of s between the ends of the lines, in their order.           *)
Lines(s) ==
  LET ends == {0} \cup Marks(s, "newline") \cup {Len(s) + 1}
  IN [i \in 1..Cardinality(ends) - 1 |->
        SubSeq(s, Nth(ends, i - 1) + 1, Nth(ends, i) - 1)]

(* The entries of those of the lines that have content.                    *)
EntriesOf(lines) ==
  LET full == {i \in DOMAIN lines : Content(lines[i]) # {}}
  IN [n \in 1..Cardinality(full) |-> EntryOf(lines[Nth(full, n - 1)])]

(* The entries that a file with this text has.                             *)
Entries(text) == EntriesOf(Lines(Lexed(text).out))

(* Whether the text has an escaped backslash in a comment.                 *)
BackslashInComment(text) ==
  \E i \in DOMAIN text :
    LET s == Lexed(SubSeq(text, 1, i - 1))
    IN s.mode = "comment" /\ s.escaped /\ text[i] = "backslash"
=============================================================================
