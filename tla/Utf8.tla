-------------------------------- MODULE Utf8 --------------------------------
(***************************************************************************)
(* utf8.c: bytes to code points and back, and a cursor that a caller moves *)
(* over a string with str_next_codepoint and str_prev_codepoint.           *)
(*                                                                         *)
(* A text is the sequence of the bytes before the terminator; positions    *)
(* are those of C, from 0.  What lies before the string in memory is not   *)
(* known: a step back that looks there finds any of the bytes Outside.     *)
(***************************************************************************)
EXTENDS Integers, Sequences

CONSTANTS
  Texts,     \* the strings that are walked over
  Outside    \* bytes that may precede a string in memory

Byte    == 0 .. 255
NonZero == 1 .. 255

ASSUME TextsAssumption   == Texts \subseteq Seq(NonZero)
ASSUME OutsideAssumption == Outside \subseteq Byte /\ Outside # {}

VARIABLES
  text,    \* the string
  pos,     \* the cursor
  trail    \* where the steps forward that were not taken back began

vars == <<text, pos, trail>>

-----------------------------------------------------------------------------
(* Decoding *)

UTF8_REPLACEMENT_CHAR == 65533
MaxCodepoint == 1114111
Surrogates   == 55296 .. 57343

codepoint_is_valid_scalar(c) == c \in 0 .. MaxCodepoint /\ c \notin Surrogates

IsContinuation(b) == b \in 128 .. 191

\* The terminator follows the text.
At(t, p) == IF p < Len(t) THEN t[p + 1] ELSE 0

\* How many bytes continue a sequence that begins with b: none when b cannot begin one.
Extra(b) == CASE b \in 192 .. 223 -> 1
              [] b \in 224 .. 239 -> 2
              [] b \in 240 .. 247 -> 3
              [] OTHER            -> 0

\* The smallest code point that needs so many.
MinCodepoint(extra) == CASE extra = 1 -> 128 [] extra = 2 -> 2048 [] extra = 3 -> 65536

Low6(b) == b % 64

Assemble(t, p) ==
  LET b == At(t, p) IN
  CASE Extra(b) = 1 -> (b - 192) * 64 + Low6(At(t, p + 1))
    [] Extra(b) = 2 -> (b - 224) * 4096 + Low6(At(t, p + 1)) * 64 + Low6(At(t, p + 2))
    [] Extra(b) = 3 -> (b - 240) * 262144 + Low6(At(t, p + 1)) * 4096
                        + Low6(At(t, p + 2)) * 64 + Low6(At(t, p + 3))

\* Mutant of IsSequence: overlong encodings are accepted.
IsSequenceOverlong(t, p) ==
  /\ Extra(At(t, p)) > 0
  /\ \A i \in 1 .. Extra(At(t, p)) : IsContinuation(At(t, p + i))
  /\ codepoint_is_valid_scalar(Assemble(t, p))

\* The bytes from p on begin with a sequence of two to four bytes that stands for a
\* code point, which needs all of them.
IsSequence(t, p) ==
  /\ Extra(At(t, p)) > 0
  /\ \A i \in 1 .. Extra(At(t, p)) : IsContinuation(At(t, p + i))
  /\ Assemble(t, p) >= MinCodepoint(Extra(At(t, p)))
  /\ codepoint_is_valid_scalar(Assemble(t, p))

\* Mutant of str_next_codepoint: a malformed sequence is passed over as a whole.
SkipWholeSequence(t, p) ==
  LET b == At(t, p) IN
  CASE b = 0            -> [cp |-> 0, pos |-> p]
    [] b \in 1 .. 127   -> [cp |-> b, pos |-> p + 1]
    [] IsSequence(t, p) -> [cp |-> Assemble(t, p), pos |-> p + Extra(b) + 1]
    [] OTHER            -> [cp |-> UTF8_REPLACEMENT_CHAR,
                            pos |-> IF p + Extra(b) < Len(t) THEN p + Extra(b) + 1 ELSE Len(t)]

\* The code point at p and the cursor behind it.  The terminator is not passed, and of
\* malformed bytes only the first one is.
str_next_codepoint(t, p) ==
  LET b == At(t, p) IN
  CASE b = 0            -> [cp |-> 0, pos |-> p]
    [] b \in 1 .. 127   -> [cp |-> b, pos |-> p + 1]
    [] IsSequence(t, p) -> [cp |-> Assemble(t, p), pos |-> p + Extra(b) + 1]
    [] OTHER            -> [cp |-> UTF8_REPLACEMENT_CHAR, pos |-> p + 1]

\* Mutant of WalkBack: it stops one byte too early, at sequences of four bytes.
WalkBackThree(t, p) ==
  p - CHOOSE n \in 1 .. 3 : /\ \A m \in 1 .. n - 1 : IsContinuation(At(t, p - m))
                            /\ n < 3 => ~IsContinuation(At(t, p - n))

\* The byte where a sequence that ends before p may begin: at most three continuation
\* bytes are passed.
WalkBack(t, p) ==
  p - CHOOSE n \in 1 .. 4 : /\ \A m \in 1 .. n - 1 : IsContinuation(At(t, p - m))
                            /\ n < 4 => ~IsContinuation(At(t, p - n))

\* The code point before p and the cursor at its beginning; the byte before p alone if
\* what begins at the lead byte does not end at p.
str_prev_codepoint(t, p) ==
  LET lead == WalkBack(t, p)
      next == str_next_codepoint(t, lead)
  IN  IF next.pos = p THEN [cp |-> next.cp, pos |-> lead]
      ELSE [cp |-> UTF8_REPLACEMENT_CHAR, pos |-> p - 1]

-----------------------------------------------------------------------------
(* Encoding *)

\* 0: no scalar value, nothing to encode.
utf8_codepoint_len(c) ==
  IF ~codepoint_is_valid_scalar(c) THEN 0
  ELSE IF c < 128   THEN 1
  ELSE IF c < 2048  THEN 2
  ELSE IF c < 65536 THEN 3
  ELSE 4

\* Mutant of utf8_encode: the boundary of two and three bytes is off by one.
utf8_encode_2048(c) ==
  IF ~codepoint_is_valid_scalar(c) THEN <<>>
  ELSE IF c < 128   THEN <<c>>
  ELSE IF c <= 2048 THEN <<192 + c \div 64, 128 + Low6(c)>>
  ELSE <<224 + c \div 4096, 128 + Low6(c \div 64), 128 + Low6(c)>>

\* The bytes written to out.
utf8_encode(c) ==
  IF ~codepoint_is_valid_scalar(c) THEN <<>>
  ELSE IF c < 128   THEN <<c>>
  ELSE IF c < 2048  THEN <<192 + c \div 64, 128 + Low6(c)>>
  ELSE IF c < 65536 THEN <<224 + c \div 4096, 128 + Low6(c \div 64), 128 + Low6(c)>>
  ELSE <<240 + c \div 262144, 128 + Low6(c \div 4096), 128 + Low6(c \div 64), 128 + Low6(c)>>

-----------------------------------------------------------------------------
(* Strings *)

\* The code points from p on: what a loop of str_next_codepoint to the terminator finds.
CodepointsFrom(t) ==
  LET from[p \in 0 .. Len(t)] ==
        IF p = Len(t) THEN <<>>
        ELSE LET n == str_next_codepoint(t, p) IN <<n.cp>> \o from[n.pos]
  IN  from

str_codepoints(t) == Len(CodepointsFrom(t)[0])

str_is_valid_utf8(t) ==
  LET valid[p \in 0 .. Len(t)] ==
        IF At(t, p) = 0 THEN TRUE
        ELSE IF At(t, p) \in 1 .. 127 THEN valid[p + 1]
        ELSE IsSequence(t, p) /\ valid[p + Extra(At(t, p)) + 1]
  IN  valid[0]

\* The cursor after n more code points, or at the terminator.
Skip(t, p, n) ==
  LET after[i \in 0 .. n] == IF i = 0 THEN p ELSE str_next_codepoint(t, after[i - 1]).pos
  IN  after[n]

str_substr_codepoint(t, start, count) ==
  LET first == Skip(t, 0, start)
  IN  SubSeq(t, first + 1, Skip(t, first, count))

-----------------------------------------------------------------------------
(* The cursor *)

Init ==
  /\ text \in Texts
  /\ pos = 0
  /\ trail = <<>>

Forward ==
  /\ pos \in 0 .. Len(text) - 1
  /\ pos' = str_next_codepoint(text, pos).pos
  /\ trail' = Append(trail, pos)
  /\ UNCHANGED text

\* A caller that knows where it began steps back no further than that, but the function
\* does not know, and may look at four bytes before it.
Back ==
  /\ pos >= 0 /\ trail # <<>>
  /\ \E before \in [1 .. 4 -> Outside] :
       pos' = str_prev_codepoint(before \o text, pos + 4).pos - 4
  /\ trail' = SubSeq(trail, 1, Len(trail) - 1)
  /\ UNCHANGED text

Next == Forward \/ Back

Spec == Init /\ [][Next]_vars
-----------------------------------------------------------------------------
(* Properties *)

\* The cursor is in the string, at its terminator, or, after a step back
\* over stray continuation bytes, up to three bytes before it.
TypeOK ==
  /\ text \in Texts
  /\ pos \in -3 .. Len(text)
  /\ trail \in Seq(0 .. Len(text) - 1)

Passed == {trail[i] : i \in DOMAIN trail}

\* Decoding comes back into step after malformed bytes: a character or a well-formed
\* sequence that the cursor has passed was decoded as such, none was swallowed by
\* malformed bytes before it (utf8.c:44-49).
Resynchronises ==
  \A p \in 0 .. pos - 1 :
    At(text, p) \in 1 .. 127 \/ IsSequence(text, p) => p \in Passed

\* A step back takes a step forward back, to where it began and with the code point it
\* found, on well-formed and on malformed text alike (utf8.h:60-63).  In a string whose
\* first byte is a stray continuation byte it may leave the string instead, which
\* utf8.h:66-67 denies.
BackUndoesForward ==
  pos >= 0 /\ trail # <<>> /\ ~IsContinuation(text[1]) =>
    \A before \in [1 .. 4 -> Outside] :
      LET last == trail[Len(trail)]
          prev == str_prev_codepoint(before \o text, pos + 4)
      IN  prev = [cp |-> str_next_codepoint(text, last).cp, pos |-> last + 4]

Flatten(seqs) ==
  LET upto[i \in 0 .. Len(seqs)] == IF i = 0 THEN <<>> ELSE upto[i - 1] \o seqs[i]
  IN  upto[Len(seqs)]

\* str_is_valid_utf8 accepts exactly the texts that are the encoding of the code points
\* decoded from them; each malformed byte of another text becomes one replacement
\* character, which takes three bytes.
ValidMeansEncoded ==
  LET cps     == CodepointsFrom(text)[0]
      encoded == Flatten([i \in DOMAIN cps |-> utf8_encode(cps[i])])
  IN  /\ str_is_valid_utf8(text) <=> encoded = text
      /\ \A i \in DOMAIN cps : utf8_codepoint_len(cps[i]) = Len(utf8_encode(cps[i]))
=============================================================================
