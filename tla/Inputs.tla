------------------------------- MODULE Inputs -------------------------------
(***************************************************************************)
(* What the functions of args.c, path_utils.c and parsing_utils.c are      *)
(* called with: a line that is typed one character at a time, so that each *)
(* prefix is an input too.  A kind of line has its own characters.         *)
(***************************************************************************)
EXTENDS Integers, Sequences, FiniteSets

CONSTANTS
  Typed,     \* for each kind of line, the characters it is made of
  MaxLine    \* for each kind of line, how long it may be

ASSUME InputsAssumption == MaxLine \in [DOMAIN Typed -> Nat]

VARIABLES kind, line

lineVars == <<kind, line>>

\* A line that is never typed: another module's part of the suite is explored.
NoLine    == kind = "none" /\ line = <<>>
EmptyLine == kind \in DOMAIN Typed /\ line = <<>>

Type ==
  /\ kind \in DOMAIN Typed
  /\ Len(line) < MaxLine[kind]
  /\ \E c \in Typed[kind] : line' = Append(line, c)
  /\ UNCHANGED kind

LineSpec == EmptyLine /\ [][Type]_lineVars

-----------------------------------------------------------------------------
(* Cutting lines *)

StartsWith(v, x) == Len(x) <= Len(v) /\ SubSeq(v, 1, Len(x)) = x

\* What follows the first n characters, and the n first, as far as there are any.
After(v, n) == SubSeq(v, n + 1, Len(v))
First(v, n) == SubSeq(v, 1, IF n < Len(v) THEN n ELSE Len(v))

Positions(v, c) == {i \in DOMAIN v : v[i] = c}
FirstOf(v, c)   == CHOOSE i \in Positions(v, c) : \A j \in Positions(v, c) : i <= j
LastOf(v, c)    == CHOOSE i \in Positions(v, c) : \A j \in Positions(v, c) : i >= j

\* At a separator the next piece begins; another character belongs to the last one.
Put(pieces, x, c) ==
  IF x = c THEN Append(pieces, <<>>)
  ELSE [pieces EXCEPT ![Len(pieces)] = Append(@, x)]

\* The pieces between separators, empty ones too.
Pieces(v, c) ==
  LET upto[i \in 0 .. Len(v)] == IF i = 0 THEN << <<>> >> ELSE Put(upto[i - 1], v[i], c)
  IN  upto[Len(v)]
=============================================================================
