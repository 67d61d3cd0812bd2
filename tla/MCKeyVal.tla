------------------------------ MODULE MCKeyVal ------------------------------
(* Every text of a few runes read by parseFile, and options read from      *)
(* files that are given by their entries: either of the two.               *)
EXTENDS KeyVal

VARIABLES input, stage, flags, includes, todo, entries, isRead, options

optionVars == <<input, stage, flags, includes, todo, entries, isRead, options>>

BaseFiles == <<"sys", "home", "alt", "env">>
FlagKeys == <<"include-config", "help", "root", "allow-cookies", "address">>
TextKeys == {"root", "address"}
NumberKeys == {"allow-cookies"}
Numbers == {"0", "1"}
Defaults == [k \in TextKeys \cup NumberKeys |-> IF k = "address" THEN ":9090" ELSE ""]

E(k, v) == [key |-> k, val |-> v]
Files == {"sys", "home", "alt", "env", "a", "b", "c"}
NoFiles == [f \in Files |-> <<>>]

Start(command, given, args, fs, broken) ==
  [command |-> command, flags |-> given, args |-> args, files |-> fs, broken |-> broken]

(* Files that include each other, and themselves, in every way.            *)
Includes == {E("include-config", f) : f \in {"a", "b", "c"}}
Given(f) == Includes \cup {E("root", f)}
Short(f) == {<<>>} \cup {<<x>> : x \in Given(f)}
Long(f) == Short(f) \cup {<<x, y>> : x, y \in Given(f)}
Including ==
  {Start("serve", <<>>, <<>>,
         [NoFiles EXCEPT !["sys"] = <<E("root", "sys"), E("include-config", "a"), E("include-config", "b")>>,
                         !["home"] = h, !["a"] = x, !["b"] = y, !["c"] = z], {}) :
     h \in {<<>>, <<E("include-config", "sys")>>}, x \in Long("a"), y \in Long("b"), z \in Short("c")}

(* All sources of a value, and values and files that are not valid.        *)
Sourced ==
  {Start(c, given, args,
         [f \in Files |-> CASE f \in r -> <<E("root", f), E("help", f)>>
                            [] f = "a" /\ f \notin r -> <<E("address", f), E("include-config", "b")>>
                            [] f = x -> <<E("allow-cookies", "x")>>
                            [] OTHER -> <<>>], broken) :
     c \in {"missing", "help", "serve", "get"},
     given \in {<<>>, <<E("root", "flag")>>, <<E("allow-cookies", "x"), E("allow-cookies", "1")>>,
                <<E("include-config", "a")>>, <<E("include-config", "a"), E("include-config", "c")>>,
                <<E("address", "flag"), E("allow-cookies", "x")>>, <<E("help", "true")>>, <<E("unknown", "")>>},
     args \in {<<>>, <<"arg">>, <<"arg", "arg">>, <<"arg", "arg", "arg">>},
     r \in SUBSET {"sys", "home", "alt", "env", "a"},
     x \in {"none", "home"},
     broken \in {{}, {"b"}, {"alt"}}}

Inputs == Including \cup Sourced

Reader == INSTANCE Options

Nothing == Start("missing", <<>>, <<>>, NoFiles, {})

MCInit ==
  /\ Init
  /\ \/ Reader!Init
     \/ status = "reading" /\ input = Nothing /\ stage = "error" /\ flags = <<>> /\ includes = <<>> /\ todo = <<>>
        /\ entries = <<>> /\ isRead = {} /\ options = Defaults
MCNext ==
  \/ stage = "error" /\ input = Nothing /\ Next /\ UNCHANGED optionVars
  \/ Reader!Next /\ UNCHANGED vars

MCSpec == MCInit /\ [][MCNext]_<<vars, optionVars>>

(* See Options.                                                            *)
OptionsAsConfigured == Reader!OptionsAsConfigured
ErrorsReported == Reader!ErrorsReported
=============================================================================
