------------------------------ MODULE Parsing ------------------------------
(***************************************************************************)
(* parsing_utils.c: numbers and booleans in strings.                       *)
(***************************************************************************)
EXTENDS Inputs

CONSTANTS
  Digit,     \* the value of each digit
  Spaces,    \* what isspace accepts
  IntMod,    \* 2^32 in the code: the values of int are -IntMod/2 .. IntMod/2 - 1
  LongMod,   \* 2^64, of long
  Lower      \* words, and other strings, in lower case

ASSUME ParsingAssumption ==
  /\ \A c \in DOMAIN Digit : Digit[c] \in 0 .. 9
  /\ Spaces \cap (DOMAIN Digit \cup {"+", "-"}) = {}
  /\ {IntMod, LongMod} \subseteq Nat /\ 2 <= IntMod /\ IntMod <= LongMod
  /\ IntMod % 2 = 0

-----------------------------------------------------------------------------
(* Numbers *)

AllDigits(s) == \A i \in DOMAIN s : s[i] \in DOMAIN Digit
Value10(s)   ==
  LET upto[i \in 0 .. Len(s)] == IF i = 0 THEN 0 ELSE 10 * upto[i - 1] + Digit[s[i]]
  IN  upto[Len(s)]

Clamp(n) == IF n < -(LongMod \div 2) THEN -(LongMod \div 2)
            ELSE IF n >= LongMod \div 2 THEN LongMod \div 2 - 1 ELSE n

\* The lengths of the leading parts of s that are spaces, a sign and digits.
Leading(s, S) == CHOOSE n \in 0 .. Len(s) :
  /\ \A i \in 1 .. n : s[i] \in S
  /\ n < Len(s) => s[n + 1] \notin S

Unsigned(s) == IF s # <<>> /\ s[1] \in {"+", "-"} THEN Tail(s) ELSE s

\* strtol (external): the value, within the limits of long, and whether endptr is at the
\* end.  Without any digit, endptr is the beginning.
strtol(s) ==
  LET signed == After(s, Leading(s, Spaces))
      body   == Unsigned(signed)
      n      == Leading(body, DOMAIN Digit)
      value  == Value10(First(body, n))
  IN  [value |-> Clamp(IF StartsWith(signed, <<"-">>) THEN -value ELSE value),
       atEnd |-> s = <<>> \/ (n > 0 /\ n = Len(body))]

\* (int)val.
Cut(n) == ((n + IntMod \div 2) % IntMod) - IntMod \div 2

\* Mutant of parse_int: what follows the number is not looked at.
ParseIntPrefix(s) == Cut(strtol(s).value)

parse_int(s)  == IF strtol(s).atEnd THEN Cut(strtol(s).value) ELSE 0
parse_long(s) == IF strtol(s).atEnd THEN strtol(s).value ELSE 0

is_numeric(s) == s # <<>> /\ Unsigned(s) # <<>> /\ AllDigits(Unsigned(s))

-----------------------------------------------------------------------------
(* Booleans.  A string is a word: two are the same for strcasecmp_local if they are the *)
(* same in lower case. *)

BOOL_TRUE ==
  {"affirmative", "affirm", "true", "1", "yes", "yuh", "yurr", "yeah", "y", "on",
   "enable", "enabled", "No... actually, yes"}
BOOL_FALSE ==
  {"negative", "false", "0", "no", "naur", "noo", "nah", "n", "off", "disable",
   "disabled", "Yeah... actually, no"}

\* Lower is tolower on every character of a string.
ASSUME LowerAssumption ==
  /\ "word" \in DOMAIN Typed => Typed["word"] \subseteq DOMAIN Lower
  /\ \A s \in DOMAIN Lower : Lower[Lower[s]] = Lower[s]
  /\ Lower["No... actually, yes"] = "no... actually, yes"
  /\ Lower["Yeah... actually, no"] = "yeah... actually, no"
  /\ \A s \in (BOOL_TRUE \cup BOOL_FALSE) \ {"No... actually, yes", "Yeah... actually, no"} :
       Lower[s] = s

strcasecmp_local(a, b) == Lower[a] = Lower[b]

Among(s, table) == \E word \in table : strcasecmp_local(s, word)

parse_bool(s) == Among(s, BOOL_TRUE)

\* "undetermined" is the sentence that says so.
parse_bool_strict(s) ==
  IF Among(s, BOOL_TRUE) THEN "true" ELSE IF Among(s, BOOL_FALSE) THEN "false" ELSE "undetermined"

-----------------------------------------------------------------------------
(* Properties *)

IntRange == -(IntMod \div 2) .. IntMod \div 2 - 1

\* A numeric string is read as the number it shows, or the nearest long; as an int it is
\* the same if it is one.  Every other string is 0, except that spaces may come first.
NumbersAgree ==
  LET shown == (IF StartsWith(line, <<"-">>) THEN -1 ELSE 1) * Value10(Unsigned(line))
      after == After(line, Leading(line, Spaces))
  IN  /\ parse_int(line) \in IntRange
      /\ is_numeric(line) =>
           /\ parse_long(line) = Clamp(shown)
           /\ shown \in IntRange => parse_int(line) = shown
      /\ ~is_numeric(after) => parse_long(line) = 0 /\ parse_int(line) = 0
      /\ parse_int(line) = parse_long(line) <=> parse_long(line) \in IntRange

\* parse_bool is true for the words that parse_bool_strict calls true, whatever their
\* case, and no word is in both tables, where the order of the tests would decide.
BooleansAgree ==
  \A i \in DOMAIN line :
    /\ parse_bool(line[i]) <=> parse_bool_strict(line[i]) = "true"
    /\ ~(Among(line[i], BOOL_TRUE) /\ Among(line[i], BOOL_FALSE))
    /\ parse_bool(Lower[line[i]]) = parse_bool(line[i])

\* Of a number and of a word:
ParsingAgrees == /\ kind = "number" => NumbersAgree
                 /\ kind = "word" => BooleansAgree
=============================================================================
