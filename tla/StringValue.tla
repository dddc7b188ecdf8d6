---------------------------- MODULE StringValue ----------------------------
(***************************************************************************)
(* What the functions of simple_strings.h promise: a String is a sequence  *)
(* of characters, and each function that modifies one is a function of     *)
(* that sequence alone.  No memory, no lengths, no terminator.             *)
(***************************************************************************)
EXTENDS Integers, Sequences

CONSTANTS
  Chars,    \* the characters a string is made of
  Spaces,   \* those of them that isspace accepts
  CR, LF,   \* the two line-ending characters
  UpperOf,  \* toupper
  LowerOf   \* tolower

VARIABLE val

IsPrefix(x, v) == Len(x) <= Len(v) /\ SubSeq(v, 1, Len(x)) = x
IsSuffix(x, v) == Len(x) <= Len(v) /\ SubSeq(v, Len(v) - Len(x) + 1, Len(v)) = x

AllIn(v, S) == \A i \in 1 .. Len(v) : v[i] \in S
Least(m, n) == IF m <= n THEN m ELSE n

Become(x)    == val' = x
Concat(x)    == val' = val \o x
Prepend(x)   == val' = x \o val
\* A position beyond the end is the end.
Insert(p, x) ==
  LET q == Least(p, Len(val)) IN
  val' = SubSeq(val, 1, q) \o x \o SubSeq(val, q + 1, Len(val))
\* As many as there are, of n characters from position p on.
Erase(p, n)  == val' = SubSeq(val, 1, Least(p, Len(val))) \o SubSeq(val, p + n + 1, Len(val))
Substr(p, n) == val' = SubSeq(val, p + 1, Least(p + n, Len(val)))
Chop(n)      == val' = SubSeq(val, 1, Len(val) - Least(n, Len(val)))

\* The longest run of spaces goes, at one end or at both.
Ltrim == \E i \in 0 .. Len(val) :
  /\ AllIn(SubSeq(val, 1, i), Spaces)
  /\ val' = SubSeq(val, i + 1, Len(val))
  /\ val' # <<>> => val'[1] \notin Spaces
Rtrim == \E i \in 0 .. Len(val) :
  /\ AllIn(SubSeq(val, i + 1, Len(val)), Spaces)
  /\ val' = SubSeq(val, 1, i)
  /\ val' # <<>> => val'[i] \notin Spaces
Trim  == \E i, j \in 0 .. Len(val) :
  /\ AllIn(SubSeq(val, 1, i), Spaces) /\ AllIn(SubSeq(val, j + 1, Len(val)), Spaces)
  /\ val' = SubSeq(val, i + 1, j)
  /\ val' # <<>> => {val'[1], val'[Len(val')]} \cap Spaces = {}

\* One line ending goes, the longest that fits; or all of them.
Endings  == {<<CR, LF>>, <<LF>>, <<CR>>}
Chomp    == \/ /\ \A e \in Endings : ~IsSuffix(e, val)
               /\ val' = val
            \/ \E e \in Endings :
                 /\ val = val' \o e
                 /\ IsSuffix(<<CR, LF>>, val) => e = <<CR, LF>>
ChompAll == \E i \in 0 .. Len(val) :
  /\ AllIn(SubSeq(val, i + 1, Len(val)), {CR, LF})
  /\ val' = SubSeq(val, 1, i)
  /\ val' # <<>> => val'[i] \notin {CR, LF}

Map(f) == val' = [i \in 1 .. Len(val) |-> f[val[i]]]

RemovePrefix(x) == IF IsPrefix(x, val) THEN x \o val' = val ELSE val' = val
RemoveSuffix(x) == IF IsSuffix(x, val) THEN val' \o x = val ELSE val' = val
=============================================================================
