------------------------------ MODULE Options -------------------------------
(***************************************************************************)
(* readOptions of src/options.go with Parse and expandIncludes of          *)
(* src/keyval/keyval.go: options come from configuration files, which      *)
(* include others, from flags, from free arguments and from defaults.      *)
(* A file is the sequence of its entries; the one parseFile returns.       *)
(***************************************************************************)
EXTENDS Naturals, Sequences, SequencesExt

CONSTANTS
  BaseFiles,   \* the files that are always read, in their order
  FlagKeys,    \* the flags, in the order that parseFlags lists them
  Inputs,      \* what the program can be started with
  TextKeys,    \* options with any value; the others are numbers and booleans
  NumberKeys,
  Numbers,     \* the values that the latter can be parsed from
  Defaults     \* what applyDefaults sets, and the zero values

VARIABLES
  input,    \* the command, the flags, the free arguments and the files
  stage,    \* where readOptions is, or how it ended
  flags,    \* what parseFlags returns
  includes, \* the files that Parse has yet to read
  todo,     \* the entries that expandIncludes has yet to look at
  entries,  \* those after them, without includes
  isRead,   \* the files that were included
  options

vars == <<input, stage, flags, includes, todo, entries, isRead, options>>

Commands == {"help", "serve", "options", "head", "search", "get", "props", "modprops", "put",
             "copy", "rename", "delete", "mkdir", "post", "sync"}

IncludeKey == "include-config"

Named(e, keys) == SelectSeq(e, LAMBDA x : x.key \in keys)

Init ==
  /\ input \in Inputs
  /\ stage = "command"
  /\ flags = <<>>
  /\ includes = <<>>
  /\ todo = <<>>
  /\ entries = <<>>
  /\ isRead = {}
  /\ options = Defaults

ParseCommand ==
  /\ stage = "command"
  /\ \/ input.command \notin Commands /\ stage' = "error"
     \/ input.command = "help" /\ stage' = "usage"
     \/ input.command \in Commands \ {"help"} /\ stage' = "flags"
  /\ UNCHANGED <<input, flags, includes, todo, entries, isRead, options>>

(* A flag that is given again replaces its value.                          *)
SetFlags(given) ==
  LET set == SelectSeq(FlagKeys, LAMBDA k : Named(given, {k}) # <<>>)
  IN [i \in DOMAIN set |-> Last(Named(given, {set[i]}))]

GetIncludes(fs) ==
  BaseFiles \o (IF Named(fs, {IncludeKey}) = <<>> THEN <<>>
                ELSE <<Named(fs, {IncludeKey})[1].val>>)

(* A flag that is not known ends the program.                              *)
ParseFlags ==
  LET known == \A i \in DOMAIN input.flags : input.flags[i].key \in ToSet(FlagKeys)
      help == Named(SetFlags(input.flags), {"help"}) # <<>>
  IN /\ stage = "flags"
     /\ flags' = SetFlags(input.flags)
     /\ \/ ~known /\ stage' = "exited" /\ UNCHANGED includes
        \/ known /\ help /\ stage' = "usage" /\ UNCHANGED includes
        \/ known /\ ~help /\ stage' = "files" /\ includes' = GetIncludes(flags')
     /\ UNCHANGED <<input, todo, entries, isRead, options>>

(* readFile: a file that is missing has no entries; one that cannot be     *)
(* read ends the program.                                                  *)
ReadFileIfAny(f, before) ==
  /\ todo' = before \o (IF f \in input.broken THEN <<>> ELSE input.files[f])
  /\ UNCHANGED stage

ReadFile(f, before) ==
  \/ f \in input.broken /\ stage' = "error" /\ UNCHANGED todo
  \/ f \notin input.broken /\ todo' = before \o input.files[f] /\ UNCHANGED stage

Parse ==
  /\ stage = "files"
  /\ includes # <<>>
  /\ ReadFile(includes[1], todo)
  /\ includes' = Tail(includes)
  /\ UNCHANGED <<input, flags, entries, isRead, options>>

(* One turn of the loop of expandIncludes, from the last entry to the      *)
(* first: where a file is included, its entries are the last ones next.    *)
ExpandIncludesFirst ==
  /\ stage = "files" /\ includes = <<>> /\ todo # <<>>
  /\ LET e == Head(todo)
     IN \/ /\ e.key # IncludeKey
           /\ todo' = Tail(todo)
           /\ entries' = Append(entries, e)
           /\ UNCHANGED <<stage, isRead>>
        \/ /\ e.key = IncludeKey /\ e.val \in isRead
           /\ todo' = Tail(todo)
           /\ UNCHANGED <<stage, entries, isRead>>
        \/ /\ e.key = IncludeKey /\ e.val \notin isRead
           /\ e.val \in input.broken /\ stage' = "error" /\ UNCHANGED <<todo, entries, isRead>>
        \/ /\ e.key = IncludeKey /\ e.val \notin isRead
           /\ e.val \notin input.broken
           /\ todo' = input.files[e.val] \o Tail(todo)
           /\ isRead' = isRead \cup {e.val}
           /\ UNCHANGED <<stage, entries>>
  /\ UNCHANGED <<input, flags, includes, options>>

ExpandIncludes ==
  /\ stage = "files" /\ includes = <<>> /\ todo # <<>>
  /\ LET e == Last(todo)
     IN \/ /\ e.key # IncludeKey
           /\ todo' = Front(todo)
           /\ entries' = <<e>> \o entries
           /\ UNCHANGED <<stage, isRead>>
        \/ /\ e.key = IncludeKey /\ e.val \in isRead
           /\ todo' = Front(todo)
           /\ UNCHANGED <<stage, entries, isRead>>
        \/ /\ e.key = IncludeKey /\ e.val \notin isRead
           /\ ReadFile(e.val, Front(todo))
           /\ isRead' = isRead \cup {e.val}
           /\ UNCHANGED entries
  /\ UNCHANGED <<input, flags, includes, options>>

WithFreeArgs(o, args) ==
  IF input.command # "serve" THEN o
  ELSE [k \in DOMAIN o |-> IF k = "root" /\ Len(args) > 0 THEN args[1]
                           ELSE IF k = "address" /\ Len(args) = 2 THEN args[2]
                           ELSE o[k]]

(* The flags come after what the files say, and both after the arguments.  *)
ApplyFreeArgs ==
  LET tooMany == input.command = "serve" /\ Len(input.args) > 2
  IN /\ stage = "files" /\ includes = <<>> /\ todo = <<>>
     /\ entries' = entries \o flags
     /\ options' = IF tooMany THEN options ELSE WithFreeArgs(options, input.args)
     /\ stage' = IF tooMany THEN "error" ELSE "options"
     /\ UNCHANGED <<input, flags, includes, todo, isRead>>

(* One turn of the loop of parseOptions.                                   *)
ParseOptions ==
  /\ stage = "options"
  /\ entries # <<>>
  /\ LET e == entries[1]
     IN \/ e.key \in NumberKeys /\ e.val \notin Numbers /\ stage' = "error" /\ UNCHANGED options
        \/ /\ e.key \in TextKeys \/ (e.key \in NumberKeys /\ e.val \in Numbers)
           /\ options' = [options EXCEPT ![e.key] = e.val]
           /\ UNCHANGED stage
        \/ e.key \notin TextKeys \cup NumberKeys /\ UNCHANGED <<stage, options>>
  /\ entries' = Tail(entries)
  /\ UNCHANGED <<input, flags, includes, todo, isRead>>

ReturnOptions ==
  /\ stage = "options"
  /\ entries = <<>>
  /\ stage' = "returned"
  /\ UNCHANGED <<input, flags, includes, todo, entries, isRead, options>>

Next ==
  \/ ParseCommand \/ ParseFlags \/ Parse \/ ExpandIncludes
  \/ ApplyFreeArgs \/ ParseOptions \/ ReturnOptions

Spec == Init /\ [][Next]_vars

---------------------------------------------------------------------------
(* What a file says: its entries with those of the files that it includes  *)
(* in their places, however often, but not within themselves.  A file that *)
(* cannot be read says so.                                                 *)
RECURSIVE Said(_, _)
Said(f, within) ==
  LET e == input.files[f]
      Part(i) == IF e[i].key # IncludeKey THEN <<e[i]>>
                 ELSE IF e[i].val \in within THEN <<>>
                 ELSE Said(e[i].val, within \cup {e[i].val})
  IN IF f \in input.broken THEN <<[key |-> "broken", val |-> f]>>
     ELSE FlattenSeq([i \in DOMAIN e |-> Part(i)])

(* The sources, the weakest first.                                         *)
Sources ==
  LET includeFlags == Named(input.flags, {IncludeKey})
      extra == IF includeFlags = <<>> THEN <<>> ELSE <<Last(includeFlags).val>>
      read == BaseFiles \o extra
  IN [i \in DOMAIN read |-> Said(read[i], {read[i]})] \o <<input.flags>>

(* Whether an entry cannot be taken; of a flag only the last value counts. *)
Invalid(e) == e.key = "broken" \/ (e.key \in NumberKeys /\ e.val \notin Numbers)
SaysInvalid ==
  \/ \E s \in ToSet(Front(Sources)) : \E e \in ToSet(s) : Invalid(e)
  \/ \E k \in NumberKeys :
       LET s == Named(input.flags, {k}) IN s # <<>> /\ Invalid(Last(s))

(* Every option has the last value that the strongest source gives it, of  *)
(* the flags, the files and the arguments in this order, as if all that is *)
(* included was there each time; expandIncludes reads it only once.        *)
OptionsAsConfigured ==
  stage = "returned" =>
    \A k \in DOMAIN options :
      LET said == SelectSeq([i \in DOMAIN Sources |-> Named(Sources[i], {k})],
                            LAMBDA s : s # <<>>)
      IN options[k] = IF said # <<>> THEN Last(Last(said)).val
                      ELSE WithFreeArgs(Defaults, input.args)[k]

(* What cannot be read or understood, wherever it is included and even     *)
(* where something else has precedence, is an error, and nothing else is.  *)
ErrorsReported ==
  LET badArgs == input.command = "serve" /\ Len(input.args) > 2
  IN /\ stage = "returned" => ~badArgs /\ ~SaysInvalid
     /\ stage = "error" => input.command \notin Commands \/ badArgs \/ SaysInvalid
=============================================================================
