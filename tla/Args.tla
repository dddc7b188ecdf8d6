-------------------------------- MODULE Args --------------------------------
(***************************************************************************)
(* args.c: what the command line of the program holds.  argv[i] of the     *)
(* code is argv[i + 1] here, and argc is Len(argv).                        *)
(***************************************************************************)
EXTENDS Inputs

CONSTANTS
  KeyMax,   \* the size of the buffer for a key: 256
  ListMax   \* the size of the copy of a list: 1024

ASSUME ArgsAssumption == {KeyMax, ListMax} \subseteq Nat \ {0}

-----------------------------------------------------------------------------
(* Keys and values *)

strip_prefix(arg) ==
  CASE StartsWith(arg, <<"-", "-">>) -> After(arg, 2)
    [] ~StartsWith(arg, <<"-", "-">>) /\ (StartsWith(arg, <<"-">>) \/ StartsWith(arg, <<"/">>))
         -> After(arg, 1)
    [] OTHER -> arg

\* Mutant of split_key_value: the length of the key is not compared with its buffer.
SplitUncut(raw) ==
  LET stripped == strip_prefix(raw)
  IN  IF Positions(stripped, "=") = {} THEN [key |-> stripped, value |-> <<>>]
      ELSE [key   |-> First(stripped, FirstOf(stripped, "=") - 1),
            value |-> After(stripped, FirstOf(stripped, "="))]

\* The key is cut to its buffer, without and with a value.  Without one, the value is
\* NULL_STRING, an empty String.
split_key_value(raw) ==
  LET stripped == strip_prefix(raw)
  IN  IF Positions(stripped, "=") = {}
      THEN [key |-> First(stripped, KeyMax - 1), value |-> <<>>]
      ELSE [key   |-> First(First(stripped, FirstOf(stripped, "=") - 1), KeyMax - 1),
            value |-> After(stripped, FirstOf(stripped, "="))]

Key(argv, i)   == split_key_value(argv[i]).key
Value(argv, i) == split_key_value(argv[i]).value

\* Where an argument is: not at the program's name.
Where(arg, argv) == {i \in 2 .. Len(argv) : Key(argv, i) = arg}

arg_is_present(arg, argv) == Where(arg, argv) # {}

arg_is_present_with_value(arg, value, argv) ==
  \E i \in Where(arg, argv) : Value(argv, i) = value

arg_is_present_at_nth_position(arg, n, argv) ==
  n \in 1 .. Len(argv) - 1 /\ Key(argv, n + 1) = arg

\* That of the first one; NULL_STRING, too, if there is none.
get_arg_value(arg, argv) ==
  LET found == Where(arg, argv)
  IN  IF found = {} THEN <<>>
      ELSE Value(argv, CHOOSE i \in found : \A j \in found : i <= j)

\* The data of NULL_STRING is not NULL: the value is always compared.
config_arg_is_val(key, val, argv) == get_arg_value(key, argv) = val

-----------------------------------------------------------------------------
(* Lists *)

\* strtok skips empty tokens.  A list is cut to the buffer that is searched.
arg_is_in_list(arg, list) ==
  LET tokens == Pieces(First(list, ListMax - 1), ",")
  IN  arg # <<>> /\ \E k \in DOMAIN tokens : tokens[k] = arg

all_args_to_string(argv, sep, skip_argv_0) ==
  LET args == After(argv, IF skip_argv_0 THEN 1 ELSE 0)
      upto[i \in 0 .. Len(args)] ==
        IF i = 0 THEN <<>>
        ELSE upto[i - 1] \o args[i] \o (IF i < Len(args) THEN <<sep>> ELSE <<>>)
  IN  upto[Len(args)]

-----------------------------------------------------------------------------
(* Properties, of the command line that was typed *)

\* With the name of the program before it, but that may be missing, too.
argv == IF line = <<>> THEN <<>> ELSE <<<<"a">>>> \o Pieces(line, " ")

\* Everything that could be asked for: the pieces of the words.
Asked ==
  {<<>>} \cup UNION {{SubSeq(argv[i], m, n) : m, n \in DOMAIN argv[i]} : i \in DOMAIN argv}

Values == {<<>>} \cup {Value(argv, i) : i \in DOMAIN argv}

Dashes == {<<>>, <<"-">>, <<"-", "-">>, <<"/">>}

\* The questions about one argument agree: one with a value is present, one is present if
\* it is at some position, and a value is found where it is said to be, unless an earlier
\* argument has the same name or the value is empty (config_arg_is_val takes an absent
\* argument for one with an empty value).  A key that is found stands in the line behind
\* a prefix, whole unless it fills the buffer.
KeysAgree ==
  \A arg \in Asked :
    /\ arg_is_present(arg, argv) <=>
         \E n \in 0 .. Len(argv) : arg_is_present_at_nth_position(arg, n, argv)
    /\ \A value \in Values :
         /\ arg_is_present_with_value(arg, value, argv) => arg_is_present(arg, argv)
         /\ config_arg_is_val(arg, value, argv) /\ value # <<>> =>
              arg_is_present_with_value(arg, value, argv)
         /\ arg_is_present_with_value(arg, value, argv) /\ Cardinality(Where(arg, argv)) = 1 =>
              config_arg_is_val(arg, value, argv)
    /\ arg_is_present(arg, argv) =>
         /\ Len(arg) < KeyMax
         /\ \E i \in DOMAIN argv, p \in Dashes :
              LET rest == After(argv[i], Len(p \o arg))
              IN  /\ StartsWith(argv[i], p \o arg)
                  /\ rest = <<>> \/ rest[1] = "=" \/ Len(arg) = KeyMax - 1

\* The arguments in one string with a separator are the arguments again when it is cut
\* there, if none has the separator; and a list of them that fits the buffer has exactly
\* those that are not empty.
ListsAgree ==
  \A skip \in BOOLEAN :
    LET args == After(argv, IF skip THEN 1 ELSE 0)
        list == all_args_to_string(argv, ",", skip)
    IN  (\A i \in DOMAIN args : Positions(args[i], ",") = {}) =>
          /\ args # <<>> => Pieces(list, ",") = args
          /\ Len(list) < ListMax =>
               \A arg \in Asked \ {<<>>} :
                 arg_is_in_list(arg, list) <=> \E i \in DOMAIN args : args[i] = arg

\* Of a command line:
ArgsAgree == kind = "args" => KeysAgree /\ ListsAgree
=============================================================================
