---------------------------- MODULE StringUtils ----------------------------
(***************************************************************************)
(* The functions of strings.c that look into a String or build one from    *)
(* several: positions are C's, from 0, in strings without their terminator.*)
(* malloc succeeds.                                                        *)
(***************************************************************************)
EXTENDS SimpleStrings

CONSTANTS
  Rank,     \* the order of the characters: their values as unsigned char, all different
  Counts    \* the counts that str_repeat is called with

ASSUME UtilsAssumption ==
  /\ Rank \in [Chars -> Nat]
  /\ \A c, d \in Chars : Rank[c] = Rank[d] => c = d
  /\ Counts \subseteq Int

-----------------------------------------------------------------------------
(* Looking *)

None == -1

\* memcmp(v + p, x, strlen(x)) = 0, inside v.
At(v, p, x) == p \in 0 .. Len(v) - Len(x) /\ SubSeq(v, p + 1, p + Len(x)) = x

\* strstr(v + p, x), as a position in v.
Strstr(v, p, x) ==
  LET found == {i \in p .. Len(v) : At(v, i, x)}
  IN  IF found = {} THEN None ELSE CHOOSE i \in found : \A j \in found : i <= j

StartsWith(v, x) == Len(x) <= Len(v) /\ At(v, 0, x)
EndsWith(v, x)   == Len(x) <= Len(v) /\ At(v, Len(v) - Len(x), x)

Eq(v, w) == Len(v) = Len(w) /\ At(v, 0, w)

\* Mutant of Cmp: the lengths are not compared.
CmpNoLength(v, w) ==
  LET min     == IF Len(v) < Len(w) THEN Len(v) ELSE Len(w)
      differs == {i \in 1 .. min : v[i] # w[i]}
  IN  IF differs = {} THEN 0
      ELSE LET i == CHOOSE i \in differs : \A j \in differs : i <= j
           IN  Rank[v[i]] - Rank[w[i]]

\* memcmp over the shorter length, then the lengths.
Cmp(v, w) ==
  LET min     == IF Len(v) < Len(w) THEN Len(v) ELSE Len(w)
      differs == {i \in 1 .. min : v[i] # w[i]}
  IN  IF differs # {}
      THEN LET i == CHOOSE i \in differs : \A j \in differs : i <= j
           IN  Rank[v[i]] - Rank[w[i]]
      ELSE IF Len(v) = Len(w) THEN 0
      ELSE IF Len(v) < Len(w) THEN -1 ELSE 1

\* Mutant of QuotedSubstring: the closing quote is searched from the opening one on.
QuotedFromQuote(v, q) ==
  LET start == Strstr(v, 0, <<q>>)
      end   == Strstr(v, start, <<q>>)
  IN  IF start = None \/ end = None THEN <<>> ELSE SubSeq(v, start + 2, end)

\* What is between the first two quotes.
QuotedSubstring(v, q) ==
  LET start == Strstr(v, 0, <<q>>)
      end   == Strstr(v, start + 1, <<q>>)
  IN  IF start = None \/ end = None THEN <<>> ELSE SubSeq(v, start + 2, end)

-----------------------------------------------------------------------------
(* Building *)

Join(sep, strs) ==
  LET from[i \in 1 .. Len(strs)] ==
        IF i = Len(strs) THEN strs[i] ELSE strs[i] \o sep \o from[i + 1]
  IN  IF strs = <<>> THEN <<>> ELSE from[1]

Repeat(v, n) ==
  LET times[k \in 0 .. n] == IF k = 0 THEN <<>> ELSE v \o times[k - 1]
  IN  IF n <= 0 THEN <<>> ELSE times[n]

\* Mutant of ReplaceFrom: the search resumes in the replaced text.
ReplaceOneOn(v, ptr, old, new) ==
  LET from[p \in 0 .. Len(v)] ==
        LET match == Strstr(v, p, old)
        IN  IF match = None THEN SubSeq(v, p + 1, Len(v))
            ELSE SubSeq(v, p + 1, match) \o new \o from[match + 1]
  IN  from[ptr]

ReplaceFrom(v, ptr, old, new) ==
  LET from[p \in 0 .. Len(v)] ==
        LET match == Strstr(v, p, old)
        IN  IF match = None THEN SubSeq(v, p + 1, Len(v))
            ELSE SubSeq(v, p + 1, match) \o new \o from[match + Len(old)]
  IN  from[ptr]

Replace(v, old, new) == IF old = <<>> THEN v ELSE ReplaceFrom(v, 0, old, new)

\* str_split's first pass: the size of the array that is allocated.
CountFrom(v, ptr, delim) ==
  LET from[p \in 0 .. Len(v)] ==
        LET match == Strstr(v, p, delim)
        IN  IF match = None THEN 1 ELSE 1 + from[match + Len(delim)]
  IN  from[ptr]

\* Mutant of SplitFrom: the last part is left out when it is empty.
SplitNoEmptyEnd(v, ptr, delim) ==
  LET from[p \in 0 .. Len(v)] ==
        LET match == Strstr(v, p, delim)
        IN  IF match # None THEN <<SubSeq(v, p + 1, match)>> \o from[match + Len(delim)]
            ELSE IF p = Len(v) THEN <<>> ELSE <<SubSeq(v, p + 1, Len(v))>>
  IN  from[ptr]

\* Its second pass: the parts that are written.
SplitFrom(v, ptr, delim) ==
  LET from[p \in 0 .. Len(v)] ==
        LET match == Strstr(v, p, delim)
        IN  IF match = None THEN <<SubSeq(v, p + 1, Len(v))>>
            ELSE <<SubSeq(v, p + 1, match)>> \o from[match + Len(delim)]
  IN  from[ptr]

-----------------------------------------------------------------------------
(* Properties, of the values that the steps of SimpleStrings can build. *)

Text == Value(s)

\* Doubled words overlap with themselves in a text.
Needles == (Words \cup {x \o x : x \in Words}) \ {<<>>}

Contains(v, x) == Strstr(v, 0, x) # None

\* str_split fills exactly the array that it allocated from a first pass; no part
\* contains the delimiter, and str_join with the delimiter restores the text.
SplitInverse ==
  \A delim \in Needles :
    LET parts == SplitFrom(Text, 0, delim)
    IN  /\ Len(parts) = CountFrom(Text, 0, delim)
        /\ \A i \in DOMAIN parts : ~Contains(parts[i], delim)
        /\ Join(delim, parts) = Text

\* str_replace puts the new text for the old one at the places where str_split cuts,
\* and nowhere else: also when the new text makes the old one appear again, or when
\* occurrences overlap.  Replacing by the same text changes nothing, and a text that
\* only repeats the old one becomes as many of the new.
ReplaceEverywhere ==
  \A old \in Needles :
    /\ \A new \in Words : Replace(Text, old, new) = Join(new, SplitFrom(Text, 0, old))
    /\ Replace(Text, old, old) = Text
    /\ \A new \in Words, n \in Counts : Replace(Repeat(old, n), old, new) = Repeat(new, n)

\* str_cmp orders texts: 0 for those that str_eq finds equal and for no others, the
\* opposite sign when its arguments are swapped, a text after its prefixes, transitive.
CompareOrders ==
  \A w \in Words :
    /\ Cmp(Text, w) = 0 <=> Eq(Text, w)
    /\ Cmp(Text, w) < 0 <=> Cmp(w, Text) > 0
    /\ StartsWith(Text, w) => Cmp(w, Text) <= 0
    /\ \A x \in Words : Cmp(w, Text) <= 0 /\ Cmp(Text, x) <= 0 => Cmp(w, x) <= 0

\* str_quoted_substring yields the text between the first pair of quotes, without a
\* quote in it, and nothing when there is no pair.  Any character serves as the quote.
QuotedBetween ==
  \A q \in Chars :
    LET inner == QuotedSubstring(Text, q)
        whole == <<q>> \o inner \o <<q>>
    IN  /\ ~Contains(inner, <<q>>)
        /\ \/ CountFrom(Text, 0, <<q>>) < 3 /\ inner = <<>>
           \/ Contains(Text, whole) /\ ~Contains(SubSeq(Text, 1, Strstr(Text, 0, whole)), <<q>>)

\* Functions that only look agree with one another about any text: the order with
\* equality and prefixes, what is quoted with where the quotes are.
LookingAgrees == CompareOrders /\ QuotedBetween
=============================================================================
