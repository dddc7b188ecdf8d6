----------------------------- MODULE Utf8Proofs -----------------------------
(***************************************************************************)
(* The cursor over any text and any memory before it: decoding comes back  *)
(* into step, and a step back takes a step forward back.  And what the     *)
(* validator accepts is the encoding of what the decoder finds.  A text    *)
(* that is cut between two code points or two clusters is decoded, and     *)
(* divided into clusters, before the cut as it was; and whether a cluster  *)
(* begins at a code point is told by its neighbours.                       *)
(***************************************************************************)
EXTENDS Grapheme, SequenceTheorems, WellFoundedInduction, FiniteSetTheorems,
        TLAPS

-----------------------------------------------------------------------------
(* Decoding *)

NextPos(t, p) == str_next_codepoint(t, p).pos

\* A byte that is no part of a longer sequence.
Ascii(b) == b \in 1 .. 127

\* What the decoder must not pass over.
IsChar(t, p) == Ascii(At(t, p)) \/ IsSequence(t, p)

Replacement(p) == [cp |-> UTF8_REPLACEMENT_CHAR, pos |-> p + 1]

LEMMA ExtraBounds ==
  ASSUME NEW b
  PROVE  Extra(b) \in 0 .. 3
BY DEF Extra

LEMMA ContinuationBytes ==
  ASSUME NEW b, IsContinuation(b)
  PROVE  b # 0 /\ ~Ascii(b) /\ Extra(b) = 0
BY DEF IsContinuation, Extra, Ascii

LEMMA LeadBytes ==
  ASSUME NEW b, Extra(b) > 0
  PROVE  b # 0 /\ ~Ascii(b) /\ ~IsContinuation(b)
BY DEF IsContinuation, Extra, Ascii

LEMMA AsciiBytes ==
  ASSUME NEW b, Ascii(b)
  PROVE  b # 0 /\ ~IsContinuation(b)
BY DEF IsContinuation, Ascii

\* The cases of the decoder.
LEMMA NextAtEnd ==
  ASSUME NEW t, NEW p, At(t, p) = 0
  PROVE  str_next_codepoint(t, p) = [cp |-> 0, pos |-> p]
<1>1. ~IsSequence(t, p) /\ ~Ascii(At(t, p))
  BY LeadBytes, AsciiBytes DEF IsSequence
<1>. QED BY <1>1 DEF str_next_codepoint, Ascii

LEMMA NextAscii ==
  ASSUME NEW t, NEW p, Ascii(At(t, p))
  PROVE  str_next_codepoint(t, p) = [cp |-> At(t, p), pos |-> p + 1]
<1>1. ~IsSequence(t, p) /\ At(t, p) # 0
  BY LeadBytes, AsciiBytes DEF IsSequence
<1>. QED BY <1>1 DEF str_next_codepoint, Ascii

LEMMA NextSequence ==
  ASSUME NEW t, NEW p, IsSequence(t, p)
  PROVE  str_next_codepoint(t, p) = [cp |-> Assemble(t, p), pos |-> p + Extra(At(t, p)) + 1]
<1>1. At(t, p) # 0 /\ ~Ascii(At(t, p))
  BY LeadBytes DEF IsSequence
<1>. QED BY <1>1 DEF str_next_codepoint, Ascii

LEMMA NextOther ==
  ASSUME NEW t, NEW p, At(t, p) # 0, ~IsChar(t, p)
  PROVE  str_next_codepoint(t, p) = Replacement(p)
BY DEF str_next_codepoint, IsChar, Ascii, Replacement

-----------------------------------------------------------------------------
(* Texts and what lies before them *)

LEMMA TextBytes ==
  ASSUME NEW t \in Seq(NonZero)
  PROVE  t \in Seq(Byte)
<1>1. NonZero \subseteq Byte
  BY DEF NonZero, Byte
<1>. QED BY <1>1

LEMMA AtInside ==
  ASSUME NEW t \in Seq(NonZero), NEW p \in Nat
  PROVE  At(t, p) = 0 <=> p >= Len(t)
<1>0. 0 \notin NonZero
  BY DEF NonZero
<1>1. CASE p < Len(t)
  <2>1. p + 1 \in 1 .. Len(t)
    BY <1>1
  <2>2. t[p + 1] \in NonZero
    BY <2>1
  <2>. QED BY <1>0, <1>1, <2>2 DEF At
<1>2. CASE ~(p < Len(t))
  BY <1>2 DEF At
<1>. QED BY <1>1, <1>2

LEMMA AtShift ==
  ASSUME NEW t \in Seq(NonZero), NEW b \in Seq(Byte), Len(b) = 4, NEW p \in Nat
  PROVE  At(b \o t, p + 4) = At(t, p)
<1>0. t \in Seq(Byte)
  BY TextBytes
<1>1. /\ Len(b \o t) = Len(b) + Len(t)
      /\ \A i \in 1 .. Len(b) + Len(t) : (b \o t)[i] = IF i <= Len(b) THEN b[i] ELSE t[i - Len(b)]
  BY <1>0, ConcatProperties
<1>2. CASE p < Len(t)
  <2>1. (p + 4) + 1 \in 1 .. Len(b) + Len(t) /\ ~((p + 4) + 1 <= Len(b))
    BY <1>2
  <2>2. (b \o t)[(p + 4) + 1] = t[((p + 4) + 1) - Len(b)]
    BY <1>1, <2>1
  <2>3. ((p + 4) + 1) - Len(b) = p + 1 /\ p + 4 < Len(b) + Len(t)
    BY <1>2
  <2>4. (b \o t)[(p + 4) + 1] = t[p + 1]
    BY <2>2, <2>3
  <2>. QED BY <1>1, <1>2, <2>3, <2>4 DEF At
<1>3. CASE ~(p < Len(t))
  <2>1. ~(p + 4 < Len(b) + Len(t))
    BY <1>3
  <2>. QED BY <1>1, <1>3, <2>1, Zenon DEF At
<1>. QED BY <1>2, <1>3

LEMMA AssembleShift ==
  ASSUME NEW t \in Seq(NonZero), NEW b \in Seq(Byte), Len(b) = 4, NEW p \in Nat,
         Extra(At(t, p)) > 0
  PROVE  Assemble(b \o t, p + 4) = Assemble(t, p)
<1>1. /\ (p + 4) + 1 = (p + 1) + 4 /\ (p + 4) + 2 = (p + 2) + 4 /\ (p + 4) + 3 = (p + 3) + 4
      /\ p + 1 \in Nat /\ p + 2 \in Nat /\ p + 3 \in Nat
  OBVIOUS
<1>2. /\ At(b \o t, p + 4) = At(t, p)
      /\ At(b \o t, (p + 4) + 1) = At(t, p + 1)
      /\ At(b \o t, (p + 4) + 2) = At(t, p + 2)
      /\ At(b \o t, (p + 4) + 3) = At(t, p + 3)
  BY <1>1, AtShift
<1>3. Extra(At(t, p)) \in 1 .. 3
  BY ExtraBounds
<1>4. CASE Extra(At(t, p)) = 1
  BY <1>2, <1>4 DEF Assemble
<1>5. CASE Extra(At(t, p)) = 2
  BY <1>2, <1>5 DEF Assemble
<1>6. CASE Extra(At(t, p)) = 3
  BY <1>2, <1>6 DEF Assemble
<1>. QED BY <1>3, <1>4, <1>5, <1>6

LEMMA SequenceShift ==
  ASSUME NEW t \in Seq(NonZero), NEW b \in Seq(Byte), Len(b) = 4, NEW p \in Nat
  PROVE  IsSequence(b \o t, p + 4) <=> IsSequence(t, p)
<1>1. /\ At(b \o t, p + 4) = At(t, p)
      /\ Extra(At(t, p)) > 0 => Assemble(b \o t, p + 4) = Assemble(t, p)
  BY AtShift, AssembleShift
<1>2. Extra(At(t, p)) \in 0 .. 3
  BY ExtraBounds
<1>3. \A i \in 1 .. Extra(At(t, p)) : At(b \o t, (p + 4) + i) = At(t, p + i)
  <2>1. TAKE i \in 1 .. Extra(At(t, p))
  <2>2. p + i \in Nat /\ (p + 4) + i = (p + i) + 4
    BY <1>2
  <2>. QED BY <2>2, AtShift
<1>. QED BY <1>1, <1>3, Zenon DEF IsSequence

\* The decoder does not look back.
LEMMA NextShift ==
  ASSUME NEW t \in Seq(NonZero), NEW b \in Seq(Byte), Len(b) = 4, NEW p \in Nat
  PROVE  str_next_codepoint(b \o t, p + 4) =
           [cp |-> str_next_codepoint(t, p).cp, pos |-> NextPos(t, p) + 4]
<1>. DEFINE u == b \o t
<1>1. At(u, p + 4) = At(t, p) /\ (IsSequence(u, p + 4) <=> IsSequence(t, p))
  BY AtShift, SequenceShift
<1>. HIDE DEF u
<1>2. CASE At(t, p) = 0
  <2>1. /\ str_next_codepoint(t, p) = [cp |-> 0, pos |-> p]
        /\ str_next_codepoint(u, p + 4) = [cp |-> 0, pos |-> p + 4]
    BY <1>1, <1>2, NextAtEnd
  <2>. QED BY <2>1 DEF NextPos, u
<1>3. CASE Ascii(At(t, p))
  <2>1. /\ str_next_codepoint(t, p) = [cp |-> At(t, p), pos |-> p + 1]
        /\ str_next_codepoint(u, p + 4) = [cp |-> At(u, p + 4), pos |-> (p + 4) + 1]
    BY <1>1, <1>3, NextAscii
  <2>2. (p + 4) + 1 = (p + 1) + 4
    OBVIOUS
  <2>. QED BY <1>1, <2>1, <2>2 DEF NextPos, u
<1>4. CASE IsSequence(t, p)
  <2>1. /\ str_next_codepoint(t, p) = [cp |-> Assemble(t, p), pos |-> p + Extra(At(t, p)) + 1]
        /\ str_next_codepoint(u, p + 4) =
             [cp |-> Assemble(u, p + 4), pos |-> (p + 4) + Extra(At(u, p + 4)) + 1]
    BY <1>1, <1>4, NextSequence
  <2>2. Assemble(u, p + 4) = Assemble(t, p)
    BY <1>4, AssembleShift DEF IsSequence, u
  <2>3. Extra(At(t, p)) \in 0 .. 3
    BY ExtraBounds
  <2>4. (p + 4) + Extra(At(t, p)) + 1 = (p + Extra(At(t, p)) + 1) + 4
    BY <2>3
  <2>. QED BY <1>1, <2>1, <2>2, <2>4 DEF NextPos, u
<1>5. CASE At(t, p) # 0 /\ ~IsChar(t, p)
  <2>1. At(u, p + 4) # 0 /\ ~IsChar(u, p + 4)
    BY <1>1, <1>5 DEF IsChar
  <2>2. str_next_codepoint(t, p) = Replacement(p) /\ str_next_codepoint(u, p + 4) = Replacement(p + 4)
    BY <1>5, <2>1, NextOther
  <2>3. (p + 4) + 1 = (p + 1) + 4
    OBVIOUS
  <2>. QED BY <2>2, <2>3 DEF NextPos, u, Replacement
<1>. QED BY <1>2, <1>3, <1>4, <1>5 DEF IsChar

\* A step forward goes one byte on, or over one whole sequence.
LEMMA NextForm ==
  ASSUME NEW t \in Seq(NonZero), NEW p \in Nat, p < Len(t)
  PROVE  /\ ~IsSequence(t, p) => NextPos(t, p) = p + 1
         /\ IsSequence(t, p) => /\ ~IsContinuation(At(t, p))
                                /\ \A i \in p + 1 .. NextPos(t, p) - 1 : IsContinuation(At(t, i))
         /\ NextPos(t, p) \in p + 1 .. p + 4
         /\ NextPos(t, p) <= Len(t)
<1>. DEFINE e == Extra(At(t, p))
<1>1. At(t, p) # 0
  BY AtInside
<1>2. e \in 0 .. 3
  BY ExtraBounds
<1>3. CASE IsSequence(t, p)
  <2>1. e > 0 /\ \A i \in 1 .. e : IsContinuation(At(t, p + i))
    BY <1>3 DEF IsSequence
  <2>2. ~IsContinuation(At(t, p))
    BY <2>1, LeadBytes
  <2>3. NextPos(t, p) = p + e + 1
    BY <1>3, NextSequence DEF NextPos
  <2>4. \A i \in p + 1 .. p + e : IsContinuation(At(t, i))
    <3>1. TAKE i \in p + 1 .. p + e
    <3>2. i - p \in 1 .. e /\ p + (i - p) = i
      BY <1>2
    <3>. QED BY <2>1, <3>2
  <2>5. IsContinuation(At(t, p + e)) /\ p + e \in Nat
    BY <1>2, <2>1
  <2>6. At(t, p + e) # 0
    BY <2>5, ContinuationBytes
  <2>7. p + e < Len(t)
    BY <1>2, <2>5, <2>6, AtInside
  <2>. QED BY <1>2, <1>3, <2>2, <2>3, <2>4, <2>7
<1>4. CASE ~IsSequence(t, p)
  <2>1. NextPos(t, p) = p + 1
    BY <1>1, <1>4, NextAscii, NextOther DEF NextPos, IsChar, Replacement
  <2>. QED BY <1>4, <2>1
<1>. QED BY <1>3, <1>4

-----------------------------------------------------------------------------
(* A step back *)

LEMMA WalkBackForm ==
  ASSUME NEW t, NEW p
  PROVE  \E n \in 1 .. 4 : /\ WalkBack(t, p) = p - n
                           /\ \A m \in 1 .. n - 1 : IsContinuation(At(t, p - m))
                           /\ n < 4 => ~IsContinuation(At(t, p - n))
<1>. DEFINE Stops(n) == /\ \A m \in 1 .. n - 1 : IsContinuation(At(t, p - m))
                        /\ n < 4 => ~IsContinuation(At(t, p - n))
            Cont(m)  == IsContinuation(At(t, p - m))
<1>1. /\ 1 .. 1 - 1 = {} /\ 1 .. 2 - 1 = {1} /\ 1 .. 3 - 1 = {1, 2} /\ 1 .. 4 - 1 = {1, 2, 3}
      /\ 1 < 4 /\ 2 < 4 /\ 3 < 4 /\ ~(4 < 4) /\ {1, 2, 3, 4} \subseteq 1 .. 4
  OBVIOUS
<1>2. \E n \in 1 .. 4 : Stops(n)
  <2>1. ~Cont(1) => Stops(1)
    BY <1>1, Zenon
  <2>2. Cont(1) /\ ~Cont(2) => Stops(2)
    BY <1>1, Zenon
  <2>3. Cont(1) /\ Cont(2) /\ ~Cont(3) => Stops(3)
    BY <1>1, Zenon
  <2>4. Cont(1) /\ Cont(2) /\ Cont(3) => Stops(4)
    BY <1>1, Zenon
  <2>. QED
    <3>. HIDE DEF Stops, Cont
    <3>. QED BY <1>1, <2>1, <2>2, <2>3, <2>4
<1>. HIDE DEF Stops
<1>3. WITNESS (CHOOSE n \in 1 .. 4 : Stops(n)) \in 1 .. 4
<1>. QED
  BY <1>2, Zenon DEF WalkBack, Stops

\* What a step back finds behind p, where the step forward from q ended: q, or a byte
\* before the text if the text begins with a continuation byte.
LEMMA PrevForm ==
  ASSUME NEW t \in Seq(NonZero), NEW b \in Seq(Byte), Len(b) = 4,
         NEW q \in Nat, q < Len(t), NEW p \in Nat, NextPos(t, q) = p,
         \A l \in 0 .. q - 1 : IsSequence(t, l) => NextPos(t, l) <= q
  PROVE  LET prev == str_prev_codepoint(b \o t, p + 4) IN
         \/ prev = [cp |-> str_next_codepoint(t, q).cp, pos |-> q + 4]
         \/ IsContinuation(At(t, 0)) /\ prev.pos \in 1 .. 3
<1>1. PICK u : u = b \o t
  OBVIOUS
<1>. DEFINE prev == str_prev_codepoint(u, p + 4)
            Same == prev = [cp |-> str_next_codepoint(t, q).cp, pos |-> q + 4]
<1>0. p \in q + 1 .. q + 4 /\ p <= Len(t)
  BY NextForm
<1>2. PICK n \in 1 .. 4 : /\ WalkBack(u, p + 4) = (p + 4) - n
                          /\ \A m \in 1 .. n - 1 : IsContinuation(At(u, (p + 4) - m))
                          /\ n < 4 => ~IsContinuation(At(u, (p + 4) - n))
  BY WalkBackForm
<1>. DEFINE lead == (p + 4) - n
            next == str_next_codepoint(u, lead)
<1>3. prev = IF next.pos = p + 4 THEN [cp |-> next.cp, pos |-> lead]
             ELSE [cp |-> UTF8_REPLACEMENT_CHAR, pos |-> (p + 4) - 1]
  BY <1>2, Zenon DEF str_prev_codepoint
<1>. HIDE DEF prev
<1>4. \A m \in 1 .. 4 : m <= p => At(u, (p + 4) - m) = At(t, p - m)
  <2>1. TAKE m \in 1 .. 4
  <2>2. HAVE m <= p
  <2>3. p - m \in Nat /\ (p + 4) - m = (p - m) + 4
    BY <2>2
  <2>. QED BY <1>1, <2>3, AtShift
<1>5. \A m \in 1 .. n - 1 : IsContinuation(At(u, (p + 4) - m))
  BY <1>2
<1>6. n < 4 => ~IsContinuation(At(u, (p + 4) - n))
  BY <1>2
<1>7. lead = q + 4 => Same
  <2>1. HAVE lead = q + 4
  <2>2. next = [cp |-> str_next_codepoint(t, q).cp, pos |-> p + 4]
    BY <1>1, <2>1, NextShift
  <2>. QED BY <1>3, <2>1, <2>2
<1>8. CASE ~IsContinuation(At(t, q))
  <2>1. \A m \in 1 .. p - q - 1 : IsContinuation(At(t, p - m))
    <3>1. CASE IsSequence(t, q)
      <4>1. \A i \in q + 1 .. p - 1 : IsContinuation(At(t, i))
        BY <3>1, NextForm
      <4>2. TAKE m \in 1 .. p - q - 1
      <4>3. p - m \in q + 1 .. p - 1
        BY <1>0
      <4>. QED BY <4>1, <4>3
    <3>2. CASE ~IsSequence(t, q)
      <4>1. p = q + 1
        BY <3>2, NextForm
      <4>. QED BY <4>1
    <3>. QED BY <3>1, <3>2
  <2>2. p - q \in 1 .. 4 /\ p - (p - q) = q /\ p - q <= p
    BY <1>0
  <2>3. ~(n > p - q)
    <3>1. SUFFICES ASSUME n > p - q PROVE FALSE
      OBVIOUS
    <3>2. p - q \in 1 .. n - 1
      BY <2>2, <3>1
    <3>3. IsContinuation(At(u, (p + 4) - (p - q)))
      BY <1>5, <3>2
    <3>. QED BY <1>4, <1>8, <2>2, <3>3
  <2>4. ~(n < p - q)
    <3>1. SUFFICES ASSUME n < p - q PROVE FALSE
      OBVIOUS
    <3>2. n \in 1 .. p - q - 1 /\ n < 4 /\ n <= p
      BY <2>2, <3>1
    <3>3. IsContinuation(At(t, p - n)) /\ ~IsContinuation(At(u, (p + 4) - n))
      BY <1>6, <2>1, <3>2
    <3>. QED BY <1>4, <3>2, <3>3
  <2>5. n = p - q
    BY <2>2, <2>3, <2>4
  <2>6. lead = q + 4
    BY <2>5
  <2>. QED BY <1>1, <1>7, <2>6 DEF prev
<1>9. CASE IsContinuation(At(t, q))
  <2>1. ~IsSequence(t, q) /\ str_next_codepoint(t, q) = Replacement(q) /\ p = q + 1
    <3>1. At(t, q) # 0 /\ ~Ascii(At(t, q)) /\ Extra(At(t, q)) = 0
      BY <1>9, ContinuationBytes
    <3>2. ~IsSequence(t, q)
      BY <3>1 DEF IsSequence
    <3>. QED BY <3>1, <3>2, NextOther, NextForm DEF IsChar
  <2>2. CASE next.pos # p + 4
    <3>1. prev = [cp |-> UTF8_REPLACEMENT_CHAR, pos |-> q + 4]
      BY <1>3, <2>1, <2>2
    <3>. QED BY <2>1, <3>1, <1>1 DEF prev, Replacement
  <2>3. CASE next.pos = p + 4 /\ n <= p
    <3>. DEFINE l == p - n
    <3>1. l \in Nat /\ l <= q /\ lead = l + 4 /\ l < Len(t)
      BY <1>0, <2>1, <2>3
    <3>2. NextPos(t, l) + 4 = p + 4
      <4>1. str_next_codepoint(u, l + 4) = [cp |-> str_next_codepoint(t, l).cp, pos |-> NextPos(t, l) + 4]
        BY <3>1, <1>1, NextShift
      <4>2. next = str_next_codepoint(u, l + 4)
        BY <3>1
      <4>3. next.pos = NextPos(t, l) + 4
        BY <4>1, <4>2
      <4>. QED BY <2>3, <4>3
    <3>3. NextPos(t, l) = p
      BY <3>1, <3>2, NextForm
    <3>4. ~(l < q)
      BY <2>1, <3>1, <3>3, NextForm
    <3>5. lead = q + 4
      BY <3>1, <3>4
    <3>. QED BY <1>1, <1>7, <3>5 DEF prev
  <2>4. CASE next.pos = p + 4 /\ n > p
    <3>1. p \in 1 .. n - 1 /\ p \in 1 .. 4 /\ p <= p /\ p - p = 0
      BY <1>0, <2>4
    <3>2. IsContinuation(At(u, (p + 4) - p))
      BY <1>5, <3>1
    <3>3. IsContinuation(At(t, 0))
      BY <1>4, <3>1, <3>2
    <3>4. prev.pos = (p + 4) - n
      BY <1>3, <2>4
    <3>5. prev.pos \in 1 .. 3
      BY <3>1, <3>4, <2>4
    <3>. QED BY <1>1, <3>3, <3>5 DEF prev
  <2>. QED BY <1>0, <2>2, <2>3, <2>4
<1>. QED BY <1>8, <1>9

-----------------------------------------------------------------------------
(* The cursor *)

\* The trail leads to the cursor, step by step, unless a step back left the string.
Path ==
  /\ \A i \in DOMAIN trail, j \in DOMAIN trail : i < j => NextPos(text, trail[i]) <= trail[j]
  /\ \A i \in DOMAIN trail : i + 1 \in DOMAIN trail => NextPos(text, trail[i]) = trail[i + 1]
  /\ trail # <<>> => NextPos(text, trail[Len(trail)]) = pos

\* Resynchronises, for all that the decoder must not pass over.
Seen == \A p \in 0 .. pos - 1 : IsChar(text, p) => p \in Passed

Inv == TypeOK /\ (pos >= 0 => Path /\ Seen)

LEMMA Text == ASSUME TypeOK PROVE text \in Seq(NonZero)
BY TextsAssumption DEF TypeOK

LEMMA InitInv == ASSUME Init PROVE Inv
<1>1. text \in Seq(NonZero)
  BY TextsAssumption DEF Init
<1>2. Len(text) \in Nat
  BY <1>1
<1>3. TypeOK
  BY <1>2 DEF Init, TypeOK
<1>. QED
  BY <1>3 DEF Init, Inv, Path, Seen

LEMMA ForwardInv == ASSUME Inv, Forward PROVE Inv'
<1>0. PICK n : n = Len(trail)
  OBVIOUS
<1>1. text \in Seq(NonZero) /\ pos \in Nat /\ pos < Len(text) /\ Path /\ Seen /\ text' = text
  BY Text DEF Inv, TypeOK, Forward
<1>2. trail \in Seq(0 .. Len(text) - 1) /\ pos \in 0 .. Len(text) - 1 /\ trail' = Append(trail, pos)
  BY DEF Inv, TypeOK, Forward
<1>3. /\ n \in Nat /\ DOMAIN trail = 1 .. n
      /\ DOMAIN trail' = 1 .. n + 1 /\ Len(trail') = n + 1 /\ trail'[n + 1] = pos
      /\ \A i \in 1 .. n : trail'[i] = trail[i] /\ trail[i] \in 0 .. Len(text) - 1
  BY <1>0, <1>2
<1>4. pos' = NextPos(text, pos) /\ pos' \in pos + 1 .. pos + 4 /\ pos' <= Len(text)
  BY <1>1, NextForm DEF Forward, NextPos
<1>5. TypeOK'
  <2>1. trail' \in Seq(0 .. Len(text) - 1)
    BY <1>2
  <2>. QED BY <1>1, <1>4, <2>1 DEF Inv, TypeOK
<1>6. \A i \in 1 .. n : NextPos(text, trail[i]) <= pos
  <2>1. TAKE i \in 1 .. n
  <2>2. NextPos(text, trail[n]) = pos /\ trail[n] \in Nat /\ trail[n] < Len(text)
    BY <1>0, <1>1, <1>3 DEF Path
  <2>3. NextPos(text, trail[n]) \in trail[n] + 1 .. trail[n] + 4
    BY <1>1, <2>2, NextForm
  <2>4. CASE i = n
    BY <1>1, <2>2, <2>4
  <2>5. CASE i < n
    <3>1. trail[i] \in Nat /\ trail[i] < Len(text)
      BY <1>1, <1>3
    <3>2. NextPos(text, trail[i]) \in Int
      BY <1>1, <3>1, NextForm
    <3>3. NextPos(text, trail[i]) <= trail[n]
      <4>1. n \in 1 .. n
        BY <1>3
      <4>. QED BY <1>1, <1>3, <2>5, <4>1 DEF Path
    <3>. QED BY <2>2, <2>3, <3>2, <3>3
  <2>. QED BY <1>3, <2>4, <2>5
<1>7. Path'
  <2>1. ASSUME NEW i \in 1 .. n + 1, NEW j \in 1 .. n + 1, i < j
        PROVE  NextPos(text, trail'[i]) <= trail'[j]
    <3>1. i \in 1 .. n /\ trail'[i] = trail[i]
      BY <1>3, <2>1
    <3>2. CASE j = n + 1
      BY <1>3, <1>6, <3>1, <3>2
    <3>3. CASE j # n + 1
      <4>1. j \in 1 .. n
        BY <1>3, <3>3
      <4>. QED BY <1>1, <1>3, <2>1, <3>1, <4>1 DEF Path
    <3>. QED BY <3>2, <3>3
  <2>2. ASSUME NEW i \in 1 .. n + 1, i + 1 \in 1 .. n + 1
        PROVE  NextPos(text, trail'[i]) = trail'[i + 1]
    <3>1. i \in 1 .. n /\ trail'[i] = trail[i]
      BY <1>3, <2>2
    <3>2. CASE i = n
      BY <1>0, <1>1, <1>3, <3>1, <3>2 DEF Path
    <3>3. CASE i # n
      <4>1. i + 1 \in 1 .. n
        BY <1>3, <3>1, <3>3
      <4>. QED BY <1>1, <1>3, <3>1, <4>1 DEF Path
    <3>. QED BY <3>2, <3>3
  <2>3. NextPos(text, trail'[Len(trail')]) = pos'
    BY <1>3, <1>4
  <2>. QED BY <1>1, <1>3, <2>1, <2>2, <2>3 DEF Path
<1>8. Seen'
  <2>1. Passed' = Passed \cup {pos}
    BY <1>3 DEF Passed
  <2>2. SUFFICES ASSUME NEW p \in 0 .. pos' - 1, IsChar(text, p) PROVE p \in Passed \cup {pos}
    BY <1>1, <2>1 DEF Seen
  <2>3. CASE p < pos
    BY <1>1, <1>4, <2>2, <2>3 DEF Seen
  <2>4. CASE p > pos
    <3>1. pos' # pos + 1 /\ p \in pos + 1 .. NextPos(text, pos) - 1
      BY <1>1, <1>4, <2>4
    <3>2. IsContinuation(At(text, p))
      BY <1>1, <1>4, <3>1, NextForm
    <3>3. ~IsChar(text, p)
      BY <3>2, ContinuationBytes DEF IsChar, IsSequence
    <3>. QED BY <2>2, <3>3
  <2>. QED BY <1>1, <1>4, <2>3, <2>4
<1>. QED BY <1>5, <1>7, <1>8 DEF Inv

LEMMA BeforeBytes ==
  ASSUME NEW b \in [1 .. 4 -> Outside]
  PROVE  b \in Seq(Byte) /\ Len(b) = 4
<1>1. b \in [1 .. 4 -> Byte]
  BY OutsideAssumption
<1>2. b \in Seq(Byte)
  BY <1>1, SeqDef, 4 \in Nat
<1>. QED BY <1>1, <1>2

LEMMA Lands ==
  ASSUME Inv, pos >= 0, trail # <<>>, NEW b \in [1 .. 4 -> Outside]
  PROVE  LET last == trail[Len(trail)]
             prev == str_prev_codepoint(b \o text, pos + 4)
         IN  /\ last \in 0 .. pos - 1
             /\ \/ prev = [cp |-> str_next_codepoint(text, last).cp, pos |-> last + 4]
                \/ IsContinuation(At(text, 0)) /\ prev.pos \in 1 .. 3
<1>1. text \in Seq(NonZero) /\ pos \in Nat /\ Path /\ Seen
      /\ trail \in Seq(0 .. Len(text) - 1)
  BY Text DEF Inv, TypeOK
<1>2. PICK n : n = Len(trail)
  OBVIOUS
<1>3. n \in Nat \ {0} /\ DOMAIN trail = 1 .. n
      /\ \A i \in 1 .. n : trail[i] \in 0 .. Len(text) - 1
  BY <1>1, <1>2
<1>4. PICK q : q = trail[n]
  OBVIOUS
<1>5. q \in Nat /\ q < Len(text) /\ NextPos(text, q) = pos
  BY <1>1, <1>2, <1>3, <1>4 DEF Path
<1>6. pos \in q + 1 .. q + 4
  BY <1>1, <1>5, NextForm
<1>7. \A l \in 0 .. q - 1 : IsSequence(text, l) => NextPos(text, l) <= q
  <2>1. TAKE l \in 0 .. q - 1
  <2>2. HAVE IsSequence(text, l)
  <2>3. l \in 0 .. pos - 1
    BY <1>1, <1>5, <1>6
  <2>4. l \in Passed
    BY <1>1, <2>2, <2>3 DEF Seen, IsChar
  <2>5. PICK i \in 1 .. n : trail[i] = l
    BY <1>3, <2>4 DEF Passed
  <2>6. i # n
    BY <1>4, <2>5
  <2>7. i < n /\ n \in 1 .. n
    BY <1>3, <2>6
  <2>8. NextPos(text, trail[i]) <= trail[n]
    BY <1>1, <1>3, <2>7 DEF Path
  <2>. QED BY <1>4, <2>5, <2>8
<1>8. b \in Seq(Byte) /\ Len(b) = 4
  BY BeforeBytes
<1>9. \/ str_prev_codepoint(b \o text, pos + 4)
           = [cp |-> str_next_codepoint(text, q).cp, pos |-> q + 4]
      \/ IsContinuation(At(text, 0)) /\ str_prev_codepoint(b \o text, pos + 4).pos \in 1 .. 3
  BY <1>1, <1>5, <1>7, <1>8, PrevForm
<1>. QED
  BY <1>1, <1>2, <1>4, <1>5, <1>6, <1>9

LEMMA BackInv == ASSUME Inv, Back PROVE Inv'
<1>1. pos >= 0 /\ trail # <<>> /\ text' = text
  BY DEF Back
<1>2. PICK b \in [1 .. 4 -> Outside] : pos' = str_prev_codepoint(b \o text, pos + 4).pos - 4
  BY DEF Back
<1>3. text \in Seq(NonZero) /\ pos \in Nat /\ Path /\ Seen /\ pos <= Len(text)
      /\ trail \in Seq(0 .. Len(text) - 1)
  BY <1>1, Text DEF Inv, TypeOK
<1>4. PICK n : n = Len(trail)
  OBVIOUS
<1>5. n \in Nat \ {0} /\ DOMAIN trail = 1 .. n
      /\ \A i \in 1 .. n : trail[i] \in 0 .. Len(text) - 1
  BY <1>1, <1>3, <1>4
<1>6. trail[n] \in 0 .. pos - 1 /\ (pos' = trail[n] \/ pos' \in -3 .. -1)
  <2>1. \/ str_prev_codepoint(b \o text, pos + 4)
             = [cp |-> str_next_codepoint(text, trail[n]).cp, pos |-> trail[n] + 4]
        \/ str_prev_codepoint(b \o text, pos + 4).pos \in 1 .. 3
    BY <1>1, <1>4, Lands
  <2>2. trail[n] \in 0 .. pos - 1
    BY <1>1, <1>4, Lands
  <2>3. str_prev_codepoint(b \o text, pos + 4).pos \in {trail[n] + 4} \cup 1 .. 3
    BY <2>1
  <2>. QED BY <1>2, <2>2, <2>3
<1>7. /\ trail' \in Seq(0 .. Len(text) - 1) /\ Len(trail') = n - 1 /\ DOMAIN trail' = 1 .. n - 1
      /\ \A i \in 1 .. n - 1 : trail'[i] = trail[i]
  <2>1. trail' = SubSeq(trail, 1, n - 1)
    BY <1>4 DEF Back
  <2>2. n - 1 \in Nat /\ n - 1 <= Len(trail)
    BY <1>4, <1>5
  <2>3. trail' \in Seq(0 .. Len(text) - 1)
    BY <1>3, <1>4, <1>5, <2>1, <2>2
  <2>4. Len(trail') = n - 1
    BY <1>3, <2>1, <2>2
  <2>5. DOMAIN trail' = 1 .. n - 1
    BY <2>3, <2>4
  <2>6. \A i \in 1 .. n - 1 : trail'[i] = trail[i]
    BY <1>3, <2>1, <2>2
  <2>. QED BY <2>3, <2>4, <2>5, <2>6, Zenon
<1>8. TypeOK'
  BY <1>1, <1>3, <1>6, <1>7 DEF Inv, TypeOK
<1>9. CASE pos' < 0
  <2>1. ~(pos' >= 0)
    BY <1>3, <1>6, <1>9
  <2>. QED BY <1>8, <2>1 DEF Inv
<1>10. CASE pos' = trail[n]
  <2>1. Path'
    <3>0. \A i \in 1 .. n - 1 : i \in 1 .. n /\ i + 1 \in 1 .. n
      BY <1>5
    <3>1. \A i \in 1 .. n - 1, j \in 1 .. n - 1 : i < j => NextPos(text, trail[i]) <= trail[j]
      BY <1>3, <1>5, <3>0 DEF Path
    <3>2. \A i \in 1 .. n - 1 : i + 1 \in 1 .. n /\ NextPos(text, trail[i]) = trail[i + 1]
      BY <1>3, <1>5, <3>0 DEF Path
    <3>3. \A i \in 1 .. n - 1 : i + 1 \in 1 .. n - 1 => NextPos(text, trail'[i]) = trail'[i + 1]
      BY <1>7, <3>2
    <3>4. trail' # <<>> => NextPos(text, trail'[n - 1]) = pos'
      <4>1. HAVE trail' # <<>>
      <4>2. n - 1 \in 1 .. n - 1 /\ (n - 1) + 1 = n
        BY <1>5, <1>7, <4>1
      <4>. QED BY <1>7, <1>10, <3>2, <4>2
    <3>. QED BY <1>1, <1>7, <3>1, <3>3, <3>4 DEF Path
  <2>2. Seen'
    <3>1. SUFFICES ASSUME NEW p \in 0 .. pos' - 1, IsChar(text, p) PROVE p \in Passed'
      BY <1>1 DEF Seen
    <3>2. p \in 0 .. pos - 1 /\ p # trail[n]
      BY <1>3, <1>6, <1>10
    <3>3. PICK i \in 1 .. n : trail[i] = p
      BY <1>3, <1>5, <3>1, <3>2 DEF Seen, Passed
    <3>4. i \in 1 .. n - 1
      BY <1>5, <3>2, <3>3
    <3>. QED BY <1>7, <3>3, <3>4 DEF Passed
  <2>. QED BY <1>8, <2>1, <2>2 DEF Inv
<1>. QED BY <1>6, <1>9, <1>10

LEMMA Stutter == ASSUME Inv, UNCHANGED vars PROVE Inv'
BY DEF vars, Inv, TypeOK, Path, Seen, Passed

\* The trail leads to the cursor and has every character before it on it.
THEOREM Invariant == Spec => []Inv
<1>1. Init => Inv
  BY InitInv
<1>2. Inv /\ [Next]_vars => Inv'
  BY ForwardInv, BackInv, Stutter DEF Next
<1>. QED BY <1>1, <1>2, PTL DEF Spec

\* Decoding comes back into step after malformed bytes, in any text and after any steps
\* forward and back: no character before the cursor was swallowed.
THEOREM Resynchronised == Spec => []Resynchronises
<1>1. ASSUME Inv PROVE Resynchronises
  <2>1. SUFFICES ASSUME NEW p \in 0 .. pos - 1, IsChar(text, p) PROVE p \in Passed
    BY DEF Resynchronises, IsChar, Ascii
  <2>2. pos \in Int
    BY <1>1 DEF Inv, TypeOK
  <2>3. pos >= 0
    BY <2>2
  <2>. QED BY <1>1, <2>1, <2>3 DEF Inv, Seen
<1>. QED BY <1>1, Invariant, PTL

\* A step back takes the last step forward back, whatever bytes are in the text and
\* whatever lies before it, unless the text begins with a stray continuation byte.
THEOREM BackUndoes == Spec => []BackUndoesForward
<1>1. ASSUME Inv PROVE BackUndoesForward
  <2>1. SUFFICES ASSUME pos >= 0, trail # <<>>, ~IsContinuation(text[1]),
                        NEW before \in [1 .. 4 -> Outside]
                 PROVE  str_prev_codepoint(before \o text, pos + 4) =
                          [cp |-> str_next_codepoint(text, trail[Len(trail)]).cp,
                           pos |-> trail[Len(trail)] + 4]
    BY DEF BackUndoesForward
  <2>2. text \in Seq(NonZero) /\ pos <= Len(text) /\ pos \in Int
    BY <1>1, Text DEF Inv, TypeOK
  <2>3. trail[Len(trail)] \in 0 .. pos - 1
    BY <1>1, <2>1, Lands
  <2>4. 0 < Len(text)
    BY <2>2, <2>3
  <2>5. At(text, 0) = text[1]
    BY <2>4 DEF At
  <2>. QED BY <1>1, <2>1, <2>5, Lands
<1>. QED BY <1>1, Invariant, PTL

-----------------------------------------------------------------------------
(* Functions that are defined by recursion over the positions of a sequence *)

LEMMA LessWellFounded == IsWellFoundedOn({ss \in Nat \X Nat : ss[1] < ss[2]}, Nat)
BY NatLessThanWellFounded DEF OpToRel

LEMMA LeastElement == ASSUME NEW T, T \subseteq Nat, T # {} PROVE \E n \in T : \A m \in T : n <= m
<1>. DEFINE R == {ss \in Nat \X Nat : ss[1] < ss[2]}
<1>1. \E x \in T : \A y \in T : ~(<<y, x>> \in R)
  <2>. HIDE DEF R
  <2>1. IsWellFoundedOn(R, Nat)
    BY LessWellFounded, Zenon DEF R
  <2>. QED BY <2>1, WFMin, Zenon
<1>2. PICK x \in T : \A y \in T : ~(<<y, x>> \in R)
  BY <1>1
<1>. HIDE DEF R
<1>3. ASSUME NEW y \in T PROVE x <= y
  <2>1. x \in Nat /\ y \in Nat /\ ~(y < x)
    <3>1. x \in Nat /\ y \in Nat
      BY <1>2
    <3>2. <<y, x>> \notin R
      BY <1>2
    <3>. QED BY <3>1, <3>2 DEF R
  <2>. QED BY <2>1
<1>. QED BY <1>2, <1>3

\* What is defined at the end, and at every position from a later one, is defined
\* everywhere.
Recursive(n, V, a, nx, F) ==
  /\ n \in Nat /\ a \in V
  /\ \A p \in 0 .. n - 1 : nx[p] \in p + 1 .. n
  /\ \A p \in 0 .. n - 1, v \in V : F[p][v] \in V

Recurs(h, n, V, a, nx, F) ==
  /\ h \in [0 .. n -> V]
  /\ \A p \in 0 .. n : h[p] = IF p = n THEN a ELSE F[p][h[nx[p]]]

LEMMA Recursion ==
  ASSUME NEW n, NEW V, NEW a, NEW nx, NEW F, Recursive(n, V, a, nx, F)
  PROVE  \E h : Recurs(h, n, V, a, nx, F)
<1>0. /\ n \in Nat /\ a \in V
      /\ \A p \in 0 .. n - 1 : nx[p] \in p + 1 .. n
      /\ \A p \in 0 .. n - 1, v \in V : F[p][v] \in V
  BY DEF Recursive
<1>. DEFINE From(h, k) == \A p \in k .. n : h[p] = IF p = n THEN a ELSE F[p][h[nx[p]]]
            K == {k \in 0 .. n : \E h \in [0 .. n -> V] : From(h, k)}
<1>1. n \in K
  <2>. DEFINE h == [p \in 0 .. n |-> a]
  <2>1. h \in [0 .. n -> V] /\ \A p \in n .. n : p = n /\ h[p] = a
    BY <1>0
  <2>2. From(h, n)
    BY <2>1
  <2>. HIDE DEF h
  <2>. QED BY <1>0, <2>1, <2>2
<1>2. K \subseteq Nat
  BY <1>0
<1>3. PICK k \in K : \A m \in K : k <= m
  <2>. HIDE DEF K
  <2>. QED BY <1>1, <1>2, LeastElement
<1>4. PICK h \in [0 .. n -> V] : From(h, k)
  BY <1>3
<1>5. k = 0
  <2>1. SUFFICES ASSUME k # 0 PROVE FALSE
    OBVIOUS
  <2>2. k \in 1 .. n /\ k - 1 \in 0 .. n - 1 /\ k - 1 \in 0 .. n /\ k - 1 # n
    BY <1>0, <1>3, <2>1
  <2>. DEFINE j == k - 1
              g == [p \in 0 .. n |-> IF p = j THEN F[j][h[nx[j]]] ELSE h[p]]
  <2>3. j \in 0 .. n - 1 /\ j \in 0 .. n /\ j # n /\ nx[j] \in 0 .. n
    BY <1>0, <2>2
  <2>4. h[nx[j]] \in V
    BY <1>0, <1>4, <2>3
  <2>5. F[j][h[nx[j]]] \in V
    BY <1>0, <2>3, <2>4
  <2>. HIDE DEF j
  <2>6. g \in [0 .. n -> V]
    BY <1>4, <2>5
  <2>7. \A p \in 0 .. n : g[p] = IF p = j THEN F[j][h[nx[j]]] ELSE h[p]
    OBVIOUS
  <2>. HIDE DEF g
  <2>8. ASSUME NEW p \in j .. n PROVE g[p] = IF p = n THEN a ELSE F[p][g[nx[p]]]
    <3>0. p \in 0 .. n
      BY <1>0, <2>3
    <3>1. CASE p = j
      <4>1. nx[j] \in 0 .. n /\ nx[j] # j
        BY <1>0, <2>3
      <4>2. g[nx[j]] = h[nx[j]]
        BY <2>7, <4>1, Zenon
      <4>3. g[j] = F[j][h[nx[j]]]
        BY <2>3, <2>7, Zenon
      <4>. QED BY <2>3, <3>1, <4>2, <4>3, Zenon
    <3>2. CASE p # j
      <4>1. p \in k .. n
        BY <1>0, <2>2, <3>2 DEF j
      <4>2. g[p] = IF p = n THEN a ELSE F[p][h[nx[p]]]
        BY <1>4, <2>7, <3>0, <3>2, <4>1
      <4>3. ASSUME p # n PROVE g[nx[p]] = h[nx[p]]
        <5>1. nx[p] \in 0 .. n /\ nx[p] # j
          <6>1. p \in 0 .. n - 1 /\ p > j
            BY <1>0, <2>3, <3>0, <3>2, <4>3
          <6>2. nx[p] \in p + 1 .. n
            BY <1>0, <6>1
          <6>. QED BY <1>0, <2>3, <6>1, <6>2
        <5>. QED BY <2>7, <5>1, Zenon
      <4>. QED BY <4>2, <4>3, Zenon
    <3>. QED BY <3>1, <3>2
  <2>9. j \in K
    BY <2>3, <2>6, <2>8
  <2>10. ~(k <= j)
    BY <1>0, <2>2 DEF j
  <2>. QED BY <1>3, <2>9, <2>10
<1>. QED BY <1>4, <1>5 DEF Recurs

-----------------------------------------------------------------------------
(* One encoding after the other *)

LEMMA FlattenIs ==
  ASSUME NEW S, NEW seqs \in Seq(Seq(S))
  PROVE  \E w : /\ \A i \in 0 .. Len(seqs) : w[i] = IF i = 0 THEN <<>> ELSE w[i - 1] \o seqs[i]
                /\ Flatten(seqs) = w[Len(seqs)]
<1>. DEFINE m  == Len(seqs)
            nx == [p \in 0 .. m - 1 |-> p + 1]
            F  == [p \in 0 .. m - 1 |-> [v \in Seq(S) |-> v \o seqs[m - p]]]
<1>1. m \in Nat /\ <<>> \in Seq(S) /\ \A i \in 1 .. m : seqs[i] \in Seq(S)
  BY ElementOfSeq, LenProperties
<1>. HIDE DEF m
<1>2. \A p \in 0 .. m - 1 : nx[p] = p + 1 /\ nx[p] \in p + 1 .. m
  BY <1>1
<1>3. \A p \in 0 .. m - 1, v \in Seq(S) : F[p][v] = v \o seqs[m - p]
  OBVIOUS
<1>4. \A p \in 0 .. m - 1, v \in Seq(S) : F[p][v] \in Seq(S)
  <2>1. \A p \in 0 .. m - 1 : m - p \in 1 .. m
    BY <1>1
  <2>. HIDE DEF F
  <2>. QED BY <1>1, <1>3, <2>1, ConcatProperties
<1>. HIDE DEF nx, F
<1>0. Recursive(m, Seq(S), <<>>, nx, F)
  BY <1>1, <1>2, <1>4 DEF Recursive
<1>5. PICK h : /\ h \in [0 .. m -> Seq(S)]
               /\ \A p \in 0 .. m : h[p] = IF p = m THEN <<>> ELSE F[p][h[nx[p]]]
  <2>1. \E h : Recurs(h, m, Seq(S), <<>>, nx, F)
    BY <1>0, Recursion, Zenon
  <2>. QED BY <2>1, Zenon DEF Recurs
<1>. DEFINE w == [i \in 0 .. m |-> h[m - i]]
<1>6. \A i \in 0 .. m : w[i] = h[m - i]
  OBVIOUS
<1>. HIDE DEF w
<1>7. ASSUME NEW i \in 0 .. m PROVE w[i] = IF i = 0 THEN <<>> ELSE w[i - 1] \o seqs[i]
  <2>1. m - i \in 0 .. m /\ (m - i = m <=> i = 0)
    BY <1>1
  <2>2. CASE i = 0
    BY <1>5, <1>6, <2>1, <2>2
  <2>3. CASE i # 0
    <3>1. m - i \in 0 .. m - 1 /\ m - i + 1 = m - (i - 1) /\ m - (m - i) = i /\ i - 1 \in 0 .. m
          /\ m - (i - 1) \in 0 .. m
      BY <1>1, <2>3
    <3>2. h[m - i] = F[m - i][h[m - (i - 1)]]
      BY <1>2, <1>5, <2>1, <2>3, <3>1
    <3>3. h[m - (i - 1)] \in Seq(S)
      BY <1>5, <3>1
    <3>4. F[m - i][h[m - (i - 1)]] = h[m - (i - 1)] \o seqs[m - (m - i)]
      BY <1>3, <3>1, <3>3, Zenon
    <3>5. w[i] = h[m - i] /\ w[i - 1] = h[m - (i - 1)]
      BY <1>6, <3>1, Zenon
    <3>. QED BY <2>3, <3>1, <3>2, <3>4, <3>5, Zenon
  <2>. QED BY <2>2, <2>3
<1>8. w = [i \in 0 .. Len(seqs) |-> IF i = 0 THEN <<>> ELSE w[i - 1] \o seqs[i]]
  BY <1>7 DEF w, m
<1>. DEFINE upto == CHOOSE f : f = [i \in 0 .. Len(seqs) |-> IF i = 0 THEN <<>> ELSE f[i - 1] \o seqs[i]]
<1>9. upto = [i \in 0 .. Len(seqs) |-> IF i = 0 THEN <<>> ELSE upto[i - 1] \o seqs[i]]
  BY <1>8, Zenon
<1>10. Flatten(seqs) = upto[Len(seqs)]
  BY Zenon DEF Flatten
<1>. HIDE DEF upto
<1>11. \A i \in 0 .. Len(seqs) : upto[i] = IF i = 0 THEN <<>> ELSE upto[i - 1] \o seqs[i]
  BY <1>9
<1>. QED BY <1>10, <1>11

LEMMA Associative ==
  ASSUME NEW S, NEW x \in Seq(S), NEW y \in Seq(S), NEW z \in Seq(S)
  PROVE  (x \o y) \o z = x \o (y \o z)
BY ConcatAssociative

LEMMA FlattenCons ==
  ASSUME NEW S, NEW x \in Seq(S), NEW s \in Seq(Seq(S))
  PROVE  Flatten(s) \in Seq(S) /\ Flatten(<<x>> \o s) = x \o Flatten(s)
<1>. DEFINE m == Len(s)
            r == <<x>> \o s
<1>1. m \in Nat /\ r \in Seq(Seq(S)) /\ Len(r) = m + 1 /\ r[1] = x /\ \A i \in 1 .. m : r[i + 1] = s[i]
  <2>1. <<x>> \in Seq(Seq(S)) /\ Len(<<x>>) = 1 /\ <<x>>[1] = x
    OBVIOUS
  <2>2. /\ r \in Seq(Seq(S)) /\ Len(r) = Len(<<x>>) + m
        /\ \A i \in 1 .. Len(<<x>>) + m : r[i] = IF i <= Len(<<x>>) THEN <<x>>[i] ELSE s[i - Len(<<x>>)]
    BY <2>1, ConcatProperties
  <2>. HIDE DEF r
  <2>3. m \in Nat
    BY LenProperties
  <2>4. Len(r) = m + 1 /\ r[1] = x
    BY <2>1, <2>2, <2>3
  <2>5. ASSUME NEW i \in 1 .. m PROVE r[i + 1] = s[i]
    <3>1. i + 1 \in 1 .. Len(<<x>>) + m /\ ~(i + 1 <= Len(<<x>>)) /\ i + 1 - Len(<<x>>) = i
      BY <2>1, <2>3
    <3>. DEFINE k == i + 1
    <3>2. k \in 1 .. Len(<<x>>) + m /\ ~(k <= Len(<<x>>)) /\ k - Len(<<x>>) = i
      BY <3>1
    <3>. HIDE DEF k
    <3>3. r[k] = s[k - Len(<<x>>)]
      BY <2>2, <3>2
    <3>4. r[k] = s[i]
      BY <3>2, <3>3, Zenon
    <3>. QED BY <3>4 DEF k
  <2>. QED BY <2>2, <2>3, <2>4, <2>5
<1>. HIDE DEF r
<1>2. PICK u : /\ \A i \in 0 .. Len(r) : u[i] = IF i = 0 THEN <<>> ELSE u[i - 1] \o r[i]
               /\ Flatten(r) = u[Len(r)]
  BY <1>1, FlattenIs
<1>3. PICK w : /\ \A i \in 0 .. m : w[i] = IF i = 0 THEN <<>> ELSE w[i - 1] \o s[i]
               /\ Flatten(s) = w[m]
  BY FlattenIs
<1>4. \A i \in 1 .. m : s[i] \in Seq(S)
  BY ElementOfSeq
<1>. HIDE DEF m
<1>. DEFINE T == {i \in 0 .. m : ~(w[i] \in Seq(S) /\ u[i + 1] = x \o w[i])}
<1>5. T = {}
  <2>1. SUFFICES ASSUME T # {} PROVE FALSE
    OBVIOUS
  <2>2. T \subseteq Nat
    BY <1>1
  <2>3. PICK i \in T : \A j \in T : i <= j
    <3>. HIDE DEF T
    <3>. QED BY <2>1, <2>2, LeastElement
  <2>4. i \in 0 .. m /\ ~(w[i] \in Seq(S) /\ u[i + 1] = x \o w[i])
    BY <2>3
  <2>5. CASE i = 0
    <3>1. w[0] = <<>> /\ 0 \in 0 .. m
      BY <1>1, <1>3
    <3>2. <<>> \in Seq(S) /\ x \o <<>> = x /\ <<>> \o x = x
      BY ConcatEmptySeq
    <3>3. 0 \in 0 .. Len(r) /\ 1 \in 0 .. Len(r) /\ 1 # 0 /\ 1 - 1 = 0
      BY <1>1
    <3>4. u[1] = u[0] \o r[1] /\ u[0] = <<>>
      BY <1>2, <3>3
    <3>5. u[0 + 1] = x \o w[0]
      BY <1>1, <3>1, <3>2, <3>4
    <3>. QED BY <2>4, <2>5, <3>1, <3>2, <3>5
  <2>6. CASE i # 0
    <3>1. i \in 1 .. m /\ i - 1 \in 0 .. m /\ i - 1 + 1 = i /\ i + 1 \in 0 .. Len(r) /\ i + 1 # 0
          /\ i + 1 - 1 = i /\ ~(i <= i - 1)
      BY <1>1, <2>4, <2>6
    <3>2. i - 1 \notin T
      <4>. HIDE DEF T
      <4>. QED BY <2>3, <3>1
    <3>3. w[i - 1] \in Seq(S) /\ u[i] = x \o w[i - 1]
      <4>1. w[i - 1] \in Seq(S) /\ u[i - 1 + 1] = x \o w[i - 1]
        BY <3>1, <3>2
      <4>. QED BY <3>1, <4>1
    <3>4. w[i] = w[i - 1] \o s[i] /\ s[i] \in Seq(S)
      BY <1>3, <1>4, <2>4, <2>6, <3>1
    <3>5. u[i + 1] = u[i] \o s[i]
      <4>1. u[i + 1] = u[i] \o r[i + 1]
        <5>. DEFINE k == i + 1
        <5>1. k \in 0 .. Len(r) /\ k # 0 /\ k - 1 = i
          BY <3>1
        <5>. HIDE DEF k
        <5>2. u[k] = u[k - 1] \o r[k]
          BY <1>2, <5>1
        <5>3. u[k] = u[i] \o r[k]
          BY <5>1, <5>2, Zenon
        <5>. QED BY <5>3 DEF k
      <4>2. r[i + 1] = s[i]
        BY <1>1, <3>1
      <4>. QED BY <3>1, <4>1, <4>2, Zenon
    <3>6. (x \o w[i - 1]) \o s[i] = x \o (w[i - 1] \o s[i])
      <4>. HIDE DEF T
      <4>3. PICK y : y = w[i - 1]
        OBVIOUS
      <4>4. PICK z : z = s[i]
        OBVIOUS
      <4>1. y \in Seq(S) /\ z \in Seq(S)
        BY <3>3, <3>4, <4>3, <4>4
      <4>0. x \in Seq(S)
        OBVIOUS
      <4>2. (x \o y) \o z = x \o (y \o z)
        BY <4>0, <4>1, Associative, SMTT(30)
      <4>. QED BY <4>2, <4>3, <4>4
    <3>7. w[i] \in Seq(S)
      BY <3>3, <3>4, ConcatProperties
    <3>. QED BY <2>4, <3>3, <3>4, <3>5, <3>6, <3>7, Zenon
  <2>. QED BY <2>5, <2>6
<1>6. m \in 0 .. m /\ m + 1 = Len(r)
  BY <1>1
<1>7. w[m] \in Seq(S) /\ u[m + 1] = x \o w[m]
  BY <1>5, <1>6
<1>. QED BY <1>2, <1>3, <1>6, <1>7 DEF r

LEMMA FlattenNone == Flatten(<<>>) = <<>>
<1>1. <<>> \in Seq(Seq(Int)) /\ Len(<<>>) = 0 /\ 0 \in 0 .. 0
  OBVIOUS
<1>2. PICK w : /\ \A i \in 0 .. Len(<<>>) : w[i] = IF i = 0 THEN <<>> ELSE w[i - 1] \o <<>>[i]
               /\ Flatten(<<>>) = w[Len(<<>>)]
  BY <1>1, FlattenIs
<1>. QED BY <1>1, <1>2, Zenon

-----------------------------------------------------------------------------
(* Encoding what was decoded *)

LEMMA Continued == ASSUME NEW b \in 128 .. 191 PROVE Low6(b) = b - 128 /\ Low6(b) \in 0 .. 63
BY SMT DEF Low6

LEMMA Scalar ==
  ASSUME NEW c \in Nat, c <= MaxCodepoint, c < 55296 \/ c > 57343
  PROVE  codepoint_is_valid_scalar(c)
<1>1. MaxCodepoint \in Nat
  BY SMT DEF MaxCodepoint
<1>2. c \notin Surrogates
  BY SMTT(30) DEF Surrogates
<1>. QED BY <1>1, <1>2, SMT DEF codepoint_is_valid_scalar

\* c is put together from these bits, and needs as many bytes.
Two(c, h, l) ==
  /\ h \in 0 .. 31 /\ l \in 0 .. 63
  /\ c = h * 64 + l /\ c >= 128
Three(c, h, k, l) ==
  /\ h \in 0 .. 15 /\ k \in 0 .. 63 /\ l \in 0 .. 63
  /\ c = h * 4096 + k * 64 + l /\ c >= 2048 /\ codepoint_is_valid_scalar(c)
Four(c, h, j, k, l) ==
  /\ h \in 0 .. 7 /\ j \in 0 .. 63 /\ k \in 0 .. 63 /\ l \in 0 .. 63
  /\ c = h * 262144 + j * 4096 + k * 64 + l /\ c >= 65536 /\ codepoint_is_valid_scalar(c)

LEMMA EncodeTwo ==
  ASSUME NEW c, NEW h, NEW l, Two(c, h, l)
  PROVE  utf8_encode(c) = <<192 + h, 128 + l>>
<1>0. h \in 0 .. 31 /\ l \in 0 .. 63 /\ c = h * 64 + l /\ c >= 128
  BY DEF Two
<1>1. h \in Nat /\ c \in Nat /\ c < 2048 /\ c <= 2048
  BY <1>0, SMT
<1>2. c \div 64 = h /\ Low6(c) = l
  BY <1>0, <1>1, SMT DEF Low6
<1>3. codepoint_is_valid_scalar(c)
  <2>1. c < 55296 /\ c <= MaxCodepoint
    BY <1>0, <1>1, SMT DEF MaxCodepoint
  <2>. QED BY <1>0, <1>1, <2>1, Scalar, SMT
<1>4. utf8_encode(c) = <<192 + c \div 64, 128 + Low6(c)>>
  BY <1>0, <1>1, <1>3, SMT DEF utf8_encode
<1>. QED BY <1>0, <1>2, <1>4, SMT

LEMMA EncodeThree ==
  ASSUME NEW c, NEW h, NEW k, NEW l, Three(c, h, k, l)
  PROVE  utf8_encode(c) = <<224 + h, 128 + k, 128 + l>>
<1>0. /\ h \in 0 .. 15 /\ k \in 0 .. 63 /\ l \in 0 .. 63
      /\ c = h * 4096 + k * 64 + l /\ c >= 2048 /\ codepoint_is_valid_scalar(c)
  BY DEF Three
<1>1. PICK g : g = h * 64 + k
  OBVIOUS
<1>2. c = g * 64 + l /\ c < 65536 /\ c \in Nat /\ g \in Nat /\ h \in Nat
  BY <1>0, <1>1, SMT
<1>3. c \div 64 = g /\ Low6(c) = l
  BY <1>0, <1>2, SMT DEF Low6
<1>4. g \div 64 = h /\ Low6(g) = k
  BY <1>0, <1>1, <1>2, SMT DEF Low6
<1>5. c \div 4096 = h
  BY <1>0, <1>2, SMT
<1>6. utf8_encode(c) = <<224 + c \div 4096, 128 + Low6(c \div 64), 128 + Low6(c)>>
  BY <1>0, <1>2, SMT DEF utf8_encode
<1>. QED BY <1>0, <1>3, <1>4, <1>5, <1>6, SMT

LEMMA EncodeFour ==
  ASSUME NEW c, NEW h, NEW j, NEW k, NEW l, Four(c, h, j, k, l)
  PROVE  utf8_encode(c) = <<240 + h, 128 + j, 128 + k, 128 + l>>
<1>0. /\ h \in 0 .. 7 /\ j \in 0 .. 63 /\ k \in 0 .. 63 /\ l \in 0 .. 63
      /\ c = h * 262144 + j * 4096 + k * 64 + l /\ c >= 65536 /\ codepoint_is_valid_scalar(c)
  BY SMT DEF Four
<1>1. PICK f : f = h * 64 + j
  OBVIOUS
<1>2. PICK g : g = f * 64 + k
  OBVIOUS
<1>3. c = g * 64 + l /\ c \in Nat /\ f \in Nat /\ g \in Nat /\ h \in Nat
  BY <1>0, <1>1, <1>2, SMT
<1>4. c \div 64 = g /\ Low6(c) = l
  BY <1>0, <1>3, SMT DEF Low6
<1>5. Low6(g) = k
  BY <1>0, <1>2, <1>3, SMT DEF Low6
<1>6. Low6(f) = j
  BY <1>0, <1>1, <1>3, SMT DEF Low6
<1>7. c \div 262144 = h
  BY <1>0, <1>3, SMT
<1>8. c \div 4096 = f
  BY <1>0, <1>1, <1>3, SMT
<1>9. utf8_encode(c) = <<240 + c \div 262144, 128 + Low6(c \div 4096), 128 + Low6(c \div 64), 128 + Low6(c)>>
  BY <1>0, <1>3, SMT DEF utf8_encode
<1>. QED BY <1>0, <1>4, <1>5, <1>6, <1>7, <1>8, <1>9, SMT

\* The bytes of the text that are decoded as the code point at p.
Bytes(t, p) == SubSeq(t, p + 1, NextPos(t, p))

LEMMA NonZeroBytes == ASSUME NEW t \in Seq(NonZero), NEW p \in Nat, p < Len(t)
                      PROVE  At(t, p) = t[p + 1] /\ At(t, p) \in 1 .. 255
<1>1. p + 1 \in 1 .. Len(t)
  OBVIOUS
<1>2. t[p + 1] \in NonZero
  BY <1>1
<1>. QED BY <1>2 DEF At, NonZero

\* e + 1 bytes from p on.
LEMMA BytesAre ==
  ASSUME NEW t \in Seq(NonZero), NEW p \in Nat, NEW n \in 1 .. 4, p + n <= Len(t)
  PROVE  /\ SubSeq(t, p + 1, p + n) \in Seq(Int) /\ Len(SubSeq(t, p + 1, p + n)) = n
         /\ \A i \in 1 .. n : SubSeq(t, p + 1, p + n)[i] = At(t, p + i - 1)
<1>. DEFINE s == SubSeq(t, p + 1, p + n)
<1>1. s \in Seq(NonZero) /\ Len(s) = n /\ \A i \in 1 .. n : s[i] = t[p + i]
  OBVIOUS
<1>2. \A i \in 1 .. n : At(t, p + i - 1) = t[p + i]
  BY DEF At
<1>. HIDE DEF s
<1>3. s \in Seq(Int)
  <2>1. NonZero \subseteq Int
    BY DEF NonZero
  <2>2. \A i \in 1 .. Len(s) : s[i] \in Int
    <3>1. \A i \in 1 .. Len(s) : s[i] \in NonZero
      BY <1>1, ElementOfSeq
    <3>. QED BY <2>1, <3>1
  <2>3. s = [i \in 1 .. Len(s) |-> s[i]]
    BY <1>1
  <2>4. Len(s) \in Nat
    BY <1>1
  <2>. QED BY <2>2, <2>3, <2>4
<1>. QED BY <1>1, <1>2, <1>3 DEF s

LEMMA SequenceBytes ==
  ASSUME NEW t \in Seq(NonZero), NEW p \in Nat, p < Len(t), IsSequence(t, p)
  PROVE  utf8_encode(str_next_codepoint(t, p).cp) = Bytes(t, p)
<1>. DEFINE b == At(t, p)
            e == Extra(b)
            c == Assemble(t, p)
            s == SubSeq(t, p + 1, p + (e + 1))
<1>1. e \in 1 .. 3 /\ (\A i \in 1 .. e : IsContinuation(At(t, p + i)))
      /\ c >= MinCodepoint(e) /\ codepoint_is_valid_scalar(c)
  BY ExtraBounds DEF IsSequence
<1>2. str_next_codepoint(t, p) = [cp |-> c, pos |-> p + e + 1]
  BY NextSequence
<1>3. p + (e + 1) = p + e + 1 /\ e + 1 \in 1 .. 4 /\ p + e + 1 <= Len(t)
  <2>1. NextPos(t, p) = p + e + 1
    BY <1>2 DEF NextPos
  <2>2. NextPos(t, p) <= Len(t)
    BY NextForm
  <2>. HIDE DEF e
  <2>. QED BY <1>1, <2>1, <2>2
<1>. HIDE DEF c, e
<1>4. /\ s \in Seq(Int) /\ Len(s) = e + 1
      /\ \A i \in 1 .. e + 1 : s[i] = At(t, p + i - 1)
  <2>. DEFINE n == e + 1
  <2>1. n \in 1 .. 4 /\ p + n <= Len(t)
    BY <1>1, <1>3
  <2>. HIDE DEF n
  <2>2. /\ SubSeq(t, p + 1, p + n) \in Seq(Int) /\ Len(SubSeq(t, p + 1, p + n)) = n
        /\ \A i \in 1 .. n : SubSeq(t, p + 1, p + n)[i] = At(t, p + i - 1)
    BY <2>1, BytesAre
  <2>. QED BY <2>2 DEF n
<1>5. Bytes(t, p) = s /\ str_next_codepoint(t, p).cp = c
  BY <1>2, <1>3 DEF Bytes, NextPos
<1>6. s[1] = b
  BY <1>1, <1>4
<1>. HIDE DEF s
<1>7. CASE e = 1
  <2>1. b \in 192 .. 223
    BY <1>7 DEF e, Extra
  <2>2. PICK x \in 128 .. 191 : x = At(t, p + 1)
    BY <1>1, <1>7 DEF IsContinuation
  <2>3. s[2] = x
    BY <1>4, <1>7, <2>2
  <2>4. c = (b - 192) * 64 + Low6(x)
    BY <1>7, <2>2 DEF c, e, Assemble
  <2>5. c >= 128
    BY <1>1, <1>7 DEF MinCodepoint
  <2>. HIDE DEF b
  <2>. DEFINE h == b - 192
              l == Low6(x)
  <2>6. h \in 0 .. 31 /\ l \in 0 .. 63 /\ x = 128 + l /\ b = 192 + h
    <3>1. Low6(x) = x - 128
      BY SMT DEF Low6
    <3>. QED BY <2>1, <3>1
  <2>60. Two(c, h, l)
    BY <2>4, <2>5, <2>6 DEF Two
  <2>. HIDE DEF h, l
  <2>7. utf8_encode(c) = <<192 + h, 128 + l>>
    BY <2>60, EncodeTwo
  <2>8. 192 + h = b /\ 128 + l = x
    BY <2>1, <2>6
  <2>9. s = <<b, x>>
    BY <1>4, <1>6, <1>7, <2>3
  <2>. QED BY <1>5, <2>7, <2>8, <2>9
<1>8. CASE e = 2
  <2>1. b \in 224 .. 239
    BY <1>8 DEF e, Extra
  <2>2. PICK x \in 128 .. 191 : x = At(t, p + 1)
    BY <1>1, <1>8 DEF IsContinuation
  <2>20. PICK y \in 128 .. 191 : y = At(t, p + 2)
    BY <1>1, <1>8 DEF IsContinuation
  <2>3. s[2] = x /\ s[3] = y
    BY <1>4, <1>8, <2>2, <2>20
  <2>4. c = (b - 224) * 4096 + Low6(x) * 64 + Low6(y)
    BY <1>8, <2>2, <2>20 DEF c, e, Assemble
  <2>5. c >= 2048
    BY <1>1, <1>8 DEF MinCodepoint
  <2>. HIDE DEF b
  <2>. DEFINE h == b - 224
              k == Low6(x)
              l == Low6(y)
  <2>6. h \in 0 .. 15 /\ k \in 0 .. 63 /\ l \in 0 .. 63 /\ x = 128 + k /\ y = 128 + l /\ b = 224 + h
    <3>1. Low6(x) = x - 128
      BY SMT DEF Low6
    <3>2. Low6(y) = y - 128
      BY SMT DEF Low6
    <3>. QED BY <2>1, <3>1, <3>2
  <2>60. Three(c, h, k, l)
    BY <1>1, <2>4, <2>5, <2>6 DEF Three
  <2>. HIDE DEF h, k, l
  <2>7. utf8_encode(c) = <<224 + h, 128 + k, 128 + l>>
    BY <2>60, EncodeThree
  <2>8. 224 + h = b /\ 128 + k = x /\ 128 + l = y
    BY <2>1, <2>6
  <2>9. s = <<b, x, y>>
    BY <1>4, <1>6, <1>8, <2>3
  <2>. QED BY <1>5, <2>7, <2>8, <2>9
<1>9. CASE e = 3
  <2>1. b \in 240 .. 247
    BY <1>9 DEF e, Extra
  <2>2. PICK x \in 128 .. 191 : x = At(t, p + 1)
    BY <1>1, <1>9 DEF IsContinuation
  <2>20. PICK y \in 128 .. 191 : y = At(t, p + 2)
    BY <1>1, <1>9 DEF IsContinuation
  <2>21. PICK z \in 128 .. 191 : z = At(t, p + 3)
    BY <1>1, <1>9 DEF IsContinuation
  <2>3. s[2] = x /\ s[3] = y /\ s[4] = z
    BY <1>4, <1>9, <2>2, <2>20, <2>21
  <2>4. c = (b - 240) * 262144 + Low6(x) * 4096 + Low6(y) * 64 + Low6(z)
    BY <1>9, <2>2, <2>20, <2>21, SMT DEF c, e, Assemble
  <2>5. c >= 65536
    BY <1>1, <1>9, SMT DEF MinCodepoint
  <2>. HIDE DEF b
  <2>. DEFINE h == b - 240
              j == Low6(x)
              k == Low6(y)
              l == Low6(z)
  <2>6. /\ h \in 0 .. 7 /\ j \in 0 .. 63 /\ k \in 0 .. 63 /\ l \in 0 .. 63
        /\ x = 128 + j /\ y = 128 + k /\ z = 128 + l /\ b = 240 + h
    <3>1. Low6(x) = x - 128
      BY SMT DEF Low6
    <3>2. Low6(y) = y - 128
      BY SMT DEF Low6
    <3>3. Low6(z) = z - 128
      BY SMT DEF Low6
    <3>. QED BY <2>1, <3>1, <3>2, <3>3
  <2>60. Four(c, h, j, k, l)
    BY <1>1, <2>4, <2>5, <2>6, SMT DEF Four
  <2>. HIDE DEF h, j, k, l
  <2>7. utf8_encode(c) = <<240 + h, 128 + j, 128 + k, 128 + l>>
    BY <2>60, EncodeFour
  <2>8. 240 + h = b /\ 128 + j = x /\ 128 + k = y /\ 128 + l = z
    BY <2>1, <2>6
  <2>9. s = <<b, x, y, z>>
    BY <1>4, <1>6, <1>9, <2>3
  <2>. QED BY <1>5, <2>7, <2>8, <2>9
<1>. QED BY <1>1, <1>7, <1>8, <1>9

LEMMA AsciiBytesAre ==
  ASSUME NEW t \in Seq(NonZero), NEW p \in Nat, p < Len(t), Ascii(At(t, p))
  PROVE  utf8_encode(str_next_codepoint(t, p).cp) = Bytes(t, p)
<1>. DEFINE b == At(t, p)
<1>1. str_next_codepoint(t, p) = [cp |-> b, pos |-> p + 1]
  BY NextAscii
<1>2. b \in 1 .. 127
  BY DEF Ascii
<1>3. /\ SubSeq(t, p + 1, p + 1) \in Seq(Int) /\ Len(SubSeq(t, p + 1, p + 1)) = 1
      /\ \A i \in 1 .. 1 : SubSeq(t, p + 1, p + 1)[i] = At(t, p + i - 1)
  <2>1. p + 1 <= Len(t) /\ 1 \in 1 .. 4
    OBVIOUS
  <2>. QED BY <2>1, BytesAre
<1>4. SubSeq(t, p + 1, p + 1) = <<b>>
  <2>. DEFINE s == SubSeq(t, p + 1, p + 1)
  <2>1. s \in Seq(Int) /\ Len(s) = 1 /\ s[1] = b
    BY <1>3
  <2>. HIDE DEF s, b
  <2>2. s = <<b>>
    BY <2>1
  <2>. QED BY <2>2 DEF s
<1>. HIDE DEF b
<1>5. codepoint_is_valid_scalar(b)
  <2>1. b \in Nat /\ b < 55296 /\ b <= MaxCodepoint
    BY <1>2, SMT DEF MaxCodepoint
  <2>. QED BY <2>1, Scalar
<1>6. utf8_encode(b) = <<b>>
  <2>1. b < 128
    BY <1>2
  <2>. QED BY <1>5, <2>1, SMT DEF utf8_encode
<1>7. NextPos(t, p) = p + 1 /\ str_next_codepoint(t, p).cp = b
  BY <1>1 DEF NextPos
<1>. QED BY <1>4, <1>6, <1>7, Zenon DEF Bytes

Replaced == <<239, 191, 189>>

LEMMA EncodeReplacement == utf8_encode(UTF8_REPLACEMENT_CHAR) = Replaced
<1>1. PICK c : c = UTF8_REPLACEMENT_CHAR
  OBVIOUS
<1>2. c = 15 * 4096 + 63 * 64 + 61 /\ c >= 2048 /\ c \in Nat /\ c > 57343
  BY <1>1, SMT DEF UTF8_REPLACEMENT_CHAR
<1>3. c <= MaxCodepoint
  BY <1>1, SMT DEF UTF8_REPLACEMENT_CHAR, MaxCodepoint
<1>4. codepoint_is_valid_scalar(c)
  BY <1>2, <1>3, Scalar, SMT
<1>5. PICK h \in 0 .. 15, k \in 0 .. 63, l \in 0 .. 63 : h = 15 /\ k = 63 /\ l = 61
  BY SMT
<1>6. c = h * 4096 + k * 64 + l
  BY <1>2, <1>5, SMT
<1>60. Three(c, h, k, l)
  BY <1>2, <1>4, <1>5, <1>6 DEF Three
<1>7. utf8_encode(c) = <<224 + h, 128 + k, 128 + l>>
  BY <1>60, EncodeThree
<1>. QED BY <1>1, <1>5, <1>7, SMT DEF Replaced

\* The encoding of the replacement character is a sequence, and no malformed byte.
LEMMA MalformedDiffers ==
  ASSUME NEW t \in Seq(NonZero), NEW p \in Nat, p < Len(t), ~IsChar(t, p),
         p + 3 <= Len(t), SubSeq(t, p + 1, p + 3) = Replaced
  PROVE  FALSE
<1>1. \A i \in 1 .. 3 : Replaced[i] = At(t, p + i - 1)
  BY BytesAre
<1>2. At(t, p) = 239 /\ At(t, p + 1) = 191 /\ At(t, p + 2) = 189
  BY <1>1 DEF Replaced
<1>3. Extra(At(t, p)) = 2
  BY <1>2 DEF Extra
<1>4. Low6(191) = 63 /\ Low6(189) = 61
  BY Continued
<1>5. Assemble(t, p) = 15 * 4096 + 63 * 64 + 61
  BY <1>2, <1>3, <1>4, SMT DEF Assemble
<1>6. PICK c : c = Assemble(t, p)
  OBVIOUS
<1>7. c \in Nat /\ c > 57343 /\ c >= 2048 /\ c <= MaxCodepoint
  BY <1>5, <1>6, SMT DEF MaxCodepoint
<1>8. codepoint_is_valid_scalar(c)
  BY <1>7, Scalar, SMT
<1>9. c >= MinCodepoint(2)
  BY <1>7, SMT DEF MinCodepoint
<1>10. \A i \in 1 .. 2 : IsContinuation(At(t, p + i))
  <2>1. IsContinuation(At(t, p + 1)) /\ IsContinuation(At(t, p + 2))
    BY <1>2 DEF IsContinuation
  <2>2. \A i \in 1 .. 2 : i = 1 \/ i = 2
    OBVIOUS
  <2>. QED BY <2>1, <2>2, Zenon
<1>11. IsSequence(t, p)
  BY <1>3, <1>6, <1>8, <1>9, <1>10, SMT DEF IsSequence
<1>. QED BY <1>11 DEF IsChar

-----------------------------------------------------------------------------
(* Loops over a text *)

LEMMA CodepointIs ==
  ASSUME NEW t \in Seq(NonZero), NEW p \in Nat, p < Len(t)
  PROVE  str_next_codepoint(t, p).cp \in Int
<1>0. PICK b : b = At(t, p)
  OBVIOUS
<1>1. b \in 1 .. 255 /\ b \in Int /\ b # 0
  <2>1. b \in 1 .. 255
    BY <1>0, NonZeroBytes
  <2>. QED BY <2>1
<1>2. CASE Ascii(At(t, p))
  <2>1. str_next_codepoint(t, p) = [cp |-> At(t, p), pos |-> p + 1]
    BY <1>2, NextAscii
  <2>2. At(t, p) \in Int
    BY <1>0, <1>1, Zenon
  <2>. QED BY <2>1, <2>2
<1>3. CASE IsSequence(t, p)
  <2>1. codepoint_is_valid_scalar(Assemble(t, p))
    BY <1>3 DEF IsSequence
  <2>2. PICK c : c = Assemble(t, p)
    OBVIOUS
  <2>3. c \in Int
    BY <2>1, <2>2, SMT DEF codepoint_is_valid_scalar
  <2>4. str_next_codepoint(t, p) = [cp |-> Assemble(t, p), pos |-> p + Extra(At(t, p)) + 1]
    BY <1>3, NextSequence
  <2>. QED BY <2>2, <2>3, <2>4
<1>4. CASE ~IsChar(t, p)
  <2>1. str_next_codepoint(t, p) = Replacement(p)
    <3>1. At(t, p) # 0
      BY <1>0, <1>1, Zenon
    <3>. QED BY <1>4, <3>1, NextOther
  <2>. QED BY <2>1, SMT DEF Replacement, UTF8_REPLACEMENT_CHAR
<1>. QED BY <1>2, <1>3, <1>4 DEF IsChar

\* The steps forward from p on.
Decodes(t, C) ==
  \A p \in 0 .. Len(t) :
    C[p] = IF p = Len(t) THEN <<>> ELSE <<str_next_codepoint(t, p).cp>> \o C[NextPos(t, p)]

LEMMA CodepointsAre ==
  ASSUME NEW t \in Seq(NonZero)
  PROVE  \E C : Decodes(t, C) /\ CodepointsFrom(t)[0] = C[0]
<1>. DEFINE n  == Len(t)
            nx == [p \in 0 .. n - 1 |-> NextPos(t, p)]
            F  == [p \in 0 .. n - 1 |-> [v \in Seq(Int) |-> <<str_next_codepoint(t, p).cp>> \o v]]
<1>1. n \in Nat /\ <<>> \in Seq(Int) /\ 0 \in 0 .. n
  BY LenProperties
<1>2. \A p \in 0 .. n - 1 : nx[p] = NextPos(t, p) /\ nx[p] \in p + 1 .. n
  <2>1. TAKE p \in 0 .. n - 1
  <2>2. p \in Nat /\ p < Len(t)
    BY <1>1
  <2>3. NextPos(t, p) \in p + 1 .. p + 4 /\ NextPos(t, p) <= Len(t)
    BY <2>2, NextForm
  <2>4. nx[p] = NextPos(t, p)
    OBVIOUS
  <2>. HIDE DEF nx
  <2>. QED BY <1>1, <2>3, <2>4
<1>3. \A p \in 0 .. n - 1, v \in Seq(Int) : F[p][v] = <<str_next_codepoint(t, p).cp>> \o v
  BY Zenon
<1>4. \A p \in 0 .. n - 1, v \in Seq(Int) : <<str_next_codepoint(t, p).cp>> \o v \in Seq(Int)
  <2>1. TAKE p \in 0 .. n - 1, v \in Seq(Int)
  <2>2. p \in Nat /\ p < Len(t)
    BY <1>1
  <2>3. PICK c \in Int : c = str_next_codepoint(t, p).cp
    BY <2>2, CodepointIs
  <2>4. <<c>> \in Seq(Int)
    OBVIOUS
  <2>5. <<c>> \o v \in Seq(Int)
    BY <2>4, ConcatProperties
  <2>. QED BY <2>3, <2>5, Zenon
<1>. HIDE DEF nx, F
<1>5. \A p \in 0 .. n - 1, v \in Seq(Int) : F[p][v] \in Seq(Int)
  BY <1>3, <1>4, Zenon
<1>6. Recursive(n, Seq(Int), <<>>, nx, F)
  BY <1>1, <1>2, <1>5 DEF Recursive
<1>7. PICK h : /\ h \in [0 .. n -> Seq(Int)]
               /\ \A p \in 0 .. n : h[p] = IF p = n THEN <<>> ELSE F[p][h[nx[p]]]
  <2>1. \E h : Recurs(h, n, Seq(Int), <<>>, nx, F)
    BY <1>6, Recursion, Zenon
  <2>. HIDE DEF n
  <2>. QED BY <2>1, Zenon DEF Recurs
<1>8. ASSUME NEW p \in 0 .. n
      PROVE  h[p] = IF p = n THEN <<>> ELSE <<str_next_codepoint(t, p).cp>> \o h[NextPos(t, p)]
  <2>1. CASE p = n
    BY <1>7, <2>1, Zenon
  <2>2. CASE p # n
    <3>1. p \in 0 .. n - 1
      BY <1>1, <2>2
    <3>2. nx[p] = NextPos(t, p) /\ nx[p] \in 0 .. n
      BY <1>1, <1>2, <3>1
    <3>3. h[nx[p]] \in Seq(Int)
      BY <1>7, <3>2, Zenon
    <3>4. h[p] = F[p][h[nx[p]]]
      BY <1>7, <2>2, Zenon
    <3>5. F[p][h[nx[p]]] = <<str_next_codepoint(t, p).cp>> \o h[nx[p]]
      BY <1>3, <3>1, <3>3, Zenon
    <3>. QED BY <2>2, <3>2, <3>4, <3>5, Zenon
  <2>. QED BY <2>1, <2>2
<1>. DEFINE Step(f) == [p \in 0 .. Len(t) |->
                          IF p = Len(t) THEN <<>>
                          ELSE LET m == str_next_codepoint(t, p) IN <<m.cp>> \o f[m.pos]]
            from == CHOOSE f : f = Step(f)
<1>10. h = Step(h)
  <2>1. \A p \in 0 .. n : h[p] = IF p = Len(t) THEN <<>>
                                 ELSE LET m == str_next_codepoint(t, p) IN <<m.cp>> \o h[m.pos]
    BY <1>8, Zenon DEF NextPos
  <2>2. h = [p \in 0 .. n |-> h[p]]
    BY <1>7
  <2>3. [p \in 0 .. n |-> h[p]] = Step(h)
    BY <2>1, Zenon
  <2>. QED BY <2>2, <2>3, Zenon
<1>11. from = Step(from)
  BY <1>10, Zenon
<1>12. CodepointsFrom(t) = from
  BY Zenon DEF CodepointsFrom
<1>. HIDE DEF from
<1>13. \A p \in 0 .. n : from[p] = IF p = n THEN <<>>
                                   ELSE <<str_next_codepoint(t, p).cp>> \o from[NextPos(t, p)]
  <2>1. \A p \in 0 .. n : Step(from)[p] = IF p = n THEN <<>>
                                   ELSE <<str_next_codepoint(t, p).cp>> \o from[NextPos(t, p)]
    BY Zenon DEF NextPos
  <2>. HIDE DEF Step
  <2>. QED BY <1>11, <2>1, Zenon
<1>. HIDE DEF Step
<1>. QED BY <1>12, <1>13, Zenon DEF Decodes

\* A text is valid from p on when it is a character that begins at p, and valid behind it.
Validates(t, v) ==
  /\ v[Len(t)]
  /\ \A p \in 0 .. Len(t) : p # Len(t) => (v[p] <=> IsChar(t, p) /\ v[NextPos(t, p)])

LEMMA ValidIs ==
  ASSUME NEW t \in Seq(NonZero)
  PROVE  \E v : Validates(t, v) /\ (str_is_valid_utf8(t) <=> v[0])
<1>. DEFINE n  == Len(t)
            nx == [p \in 0 .. n - 1 |-> NextPos(t, p)]
            F  == [p \in 0 .. n - 1 |-> [v \in BOOLEAN |-> IsChar(t, p) /\ v]]
<1>1. n \in Nat /\ 0 \in 0 .. n
  BY LenProperties
<1>2. \A p \in 0 .. n - 1 : nx[p] = NextPos(t, p) /\ nx[p] \in p + 1 .. n
  <2>1. TAKE p \in 0 .. n - 1
  <2>2. p \in Nat /\ p < Len(t)
    BY <1>1
  <2>3. NextPos(t, p) \in p + 1 .. p + 4 /\ NextPos(t, p) <= Len(t)
    BY <2>2, NextForm
  <2>4. nx[p] = NextPos(t, p)
    OBVIOUS
  <2>. HIDE DEF nx
  <2>. QED BY <1>1, <2>3, <2>4
<1>3. \A p \in 0 .. n - 1, v \in BOOLEAN : F[p][v] = (IsChar(t, p) /\ v)
  BY Zenon
<1>. HIDE DEF nx, F
<1>5. \A p \in 0 .. n - 1, v \in BOOLEAN : F[p][v] \in BOOLEAN
  BY <1>3, Zenon
<1>6. Recursive(n, BOOLEAN, TRUE, nx, F)
  <2>1. TRUE \in BOOLEAN
    BY Zenon
  <2>. HIDE DEF n
  <2>. QED BY <1>1, <1>2, <1>5, <2>1, Zenon DEF Recursive
<1>7. PICK h : /\ h \in [0 .. n -> BOOLEAN]
               /\ \A p \in 0 .. n : h[p] = IF p = n THEN TRUE ELSE F[p][h[nx[p]]]
  <2>1. \E h : Recurs(h, n, BOOLEAN, TRUE, nx, F)
    BY <1>6, Recursion, Zenon
  <2>. HIDE DEF n
  <2>. QED BY <2>1, Zenon DEF Recurs
<1>. DEFINE Loop(f, p) == IF At(t, p) = 0 THEN TRUE
                          ELSE IF At(t, p) \in 1 .. 127 THEN f[p + 1]
                          ELSE IsSequence(t, p) /\ f[p + Extra(At(t, p)) + 1]
\* What the loop asks is whether a character begins here, and what follows it.
<1>8. ASSUME NEW f, NEW p \in 0 .. n
      PROVE  /\ p = n => Loop(f, p) = TRUE
             /\ p # n /\ Ascii(At(t, p)) => Loop(f, p) = f[NextPos(t, p)]
             /\ p # n /\ ~Ascii(At(t, p)) /\ IsSequence(t, p) =>
                  Loop(f, p) = (TRUE /\ f[NextPos(t, p)])
             /\ p # n /\ ~IsChar(t, p) => Loop(f, p) = FALSE
  <2>. HIDE DEF Loop
  <2>2. CASE p = n
    <3>1. At(t, p) = 0
      BY <1>1, <2>2, AtInside
    <3>. QED BY <2>2, <3>1, Zenon DEF Loop
  <2>3. CASE p # n
    <3>1. p \in Nat /\ p < Len(t)
      BY <1>1, <2>3
    <3>2. At(t, p) # 0
      BY <3>1, AtInside
    <3>3. CASE Ascii(At(t, p))
      <4>1. NextPos(t, p) = p + 1
        <5>1. str_next_codepoint(t, p) = [cp |-> At(t, p), pos |-> p + 1]
          BY <3>3, NextAscii
        <5>. QED BY <5>1 DEF NextPos
      <4>2. Loop(f, p) = f[p + 1]
        BY <3>2, <3>3, Zenon DEF Loop, Ascii
      <4>. QED BY <2>3, <3>3, <4>1, <4>2, Zenon DEF IsChar
    <3>4. CASE ~Ascii(At(t, p)) /\ IsSequence(t, p)
      <4>1. NextPos(t, p) = p + Extra(At(t, p)) + 1
        <5>1. str_next_codepoint(t, p) = [cp |-> Assemble(t, p), pos |-> p + Extra(At(t, p)) + 1]
          BY <3>4, NextSequence
        <5>. QED BY <5>1 DEF NextPos
      <4>2. Loop(f, p) = (IsSequence(t, p) /\ f[p + Extra(At(t, p)) + 1])
        BY <3>2, <3>4, Zenon DEF Loop, Ascii
      <4>3. Loop(f, p) = (TRUE /\ f[p + Extra(At(t, p)) + 1])
        BY <3>4, <4>2, Zenon
      <4>. QED BY <2>3, <3>4, <4>1, <4>3, Zenon DEF IsChar
    <3>5. CASE ~IsChar(t, p)
      BY <2>3, <3>2, <3>5, Zenon DEF Loop, IsChar, Ascii
    <3>. QED BY <3>3, <3>4, <3>5, Zenon DEF IsChar
  <2>. QED BY <2>2, <2>3, Zenon
<1>. DEFINE valid == CHOOSE f : f = [p \in 0 .. Len(t) |-> Loop(f, p)]
<1>9. h = [p \in 0 .. n |-> Loop(h, p)]
  <2>. HIDE DEF Loop
  <2>1. ASSUME NEW p \in 0 .. n PROVE h[p] = Loop(h, p)
    <3>1. CASE p = n
      <4>1. h[p] = TRUE
        BY <1>7, <3>1, Zenon
      <4>2. Loop(h, p) = TRUE
        BY <1>8, <3>1, Zenon
      <4>. QED BY <4>1, <4>2, Zenon
    <3>2. CASE p # n
      <4>1. p \in 0 .. n - 1
        BY <1>1, <3>2
      <4>2. nx[p] = NextPos(t, p) /\ nx[p] \in 0 .. n
        BY <1>1, <1>2, <4>1
      <4>3. PICK b \in BOOLEAN : b = h[NextPos(t, p)]
        BY <1>7, <4>2, Zenon
      <4>4. h[p] = (IsChar(t, p) /\ b)
        BY <1>3, <1>7, <3>2, <4>1, <4>2, <4>3, Zenon
      <4>5. CASE Ascii(At(t, p))
        <5>1. Loop(h, p) = b
          BY <1>8, <3>2, <4>3, <4>5, Zenon
        <5>2. IsChar(t, p)
          BY <4>5, Zenon DEF IsChar
        <5>. QED BY <4>4, <5>1, <5>2, Zenon
      <4>6. CASE ~Ascii(At(t, p)) /\ IsSequence(t, p)
        <5>1. Loop(h, p) = (TRUE /\ b)
          BY <1>8, <3>2, <4>3, <4>6, Zenon
        <5>2. IsChar(t, p)
          BY <4>6, Zenon DEF IsChar
        <5>3. CASE b = TRUE
          <6>1. h[p] = TRUE
            BY <4>4, <5>2, <5>3, Zenon
          <6>. QED BY <5>1, <5>3, <6>1, Zenon
        <5>4. CASE b = FALSE
          <6>1. h[p] = FALSE
            BY <4>4, <5>4, Zenon
          <6>. QED BY <5>1, <5>4, <6>1, Zenon
        <5>. QED BY <4>3, <5>3, <5>4, Zenon
      <4>7. CASE ~IsChar(t, p)
        <5>1. Loop(h, p) = FALSE
          BY <1>8, <3>2, <4>7, Zenon
        <5>. QED BY <4>4, <4>7, <5>1, Zenon
      <4>. QED BY <4>5, <4>6, <4>7, Zenon DEF IsChar
    <3>. QED BY <3>1, <3>2
  <2>2. h = [p \in 0 .. n |-> h[p]]
    BY <1>7
  <2>. QED BY <2>1, <2>2, Zenon
<1>10. valid = [p \in 0 .. n |-> Loop(valid, p)]
  BY <1>9, Zenon
<1>11. str_is_valid_utf8(t) = valid[0]
  BY Zenon DEF str_is_valid_utf8
<1>. HIDE DEF valid, Loop
<1>12. \A p \in 0 .. n : valid[p] = Loop(valid, p)
  <2>1. \A f : \A p \in 0 .. n : [q \in 0 .. n |-> Loop(f, q)][p] = Loop(f, p)
    BY Zenon
  <2>. QED BY <1>10, <2>1, Zenon
<1>13. valid[n]
  <2>1. n \in 0 .. n
    BY <1>1
  <2>. QED BY <1>8, <1>12, <2>1, Zenon
<1>14. ASSUME NEW p \in 0 .. n, p # n PROVE valid[p] <=> IsChar(t, p) /\ valid[NextPos(t, p)]
  <2>1. valid[p] = Loop(valid, p)
    BY <1>12
  <2>2. CASE Ascii(At(t, p))
    BY <1>8, <1>14, <2>1, <2>2, Zenon DEF IsChar
  <2>3. CASE ~Ascii(At(t, p)) /\ IsSequence(t, p)
    <3>1. valid[p] = (TRUE /\ valid[NextPos(t, p)])
      BY <1>8, <1>14, <2>1, <2>3, Zenon
    <3>. QED BY <2>3, <3>1, Zenon DEF IsChar
  <2>4. CASE ~IsChar(t, p)
    BY <1>8, <1>14, <2>1, <2>4, Zenon
  <2>. QED BY <2>2, <2>3, <2>4, Zenon DEF IsChar
<1>. QED BY <1>11, <1>13, <1>14, Zenon DEF Validates

LEMMA EncodeIs ==
  ASSUME NEW c \in Int
  PROVE  utf8_encode(c) \in Seq(Int) /\ Len(utf8_encode(c)) = utf8_codepoint_len(c)
<1>1. CASE ~codepoint_is_valid_scalar(c)
  <2>1. utf8_encode(c) = <<>> /\ utf8_codepoint_len(c) = 0
    BY <1>1, SMT DEF utf8_encode, utf8_codepoint_len
  <2>. QED BY <2>1
<1>2. CASE codepoint_is_valid_scalar(c) /\ c < 128
  <2>1. utf8_encode(c) = <<c>> /\ utf8_codepoint_len(c) = 1
    BY <1>2, SMT DEF utf8_encode, utf8_codepoint_len
  <2>. QED BY <2>1
<1>. DEFINE w == c \div 64
            x == c \div 4096
            y == c \div 262144
<1>3. /\ w \in Int /\ x \in Int /\ y \in Int
      /\ \A i \in Int : Low6(i) \in Int
  BY SMT DEF Low6
<1>4. CASE codepoint_is_valid_scalar(c) /\ ~(c < 128) /\ c < 2048
  <2>1. utf8_encode(c) = <<192 + w, 128 + Low6(c)>> /\ utf8_codepoint_len(c) = 2
    BY <1>4, SMT DEF utf8_encode, utf8_codepoint_len
  <2>. HIDE DEF w
  <2>. QED BY <1>3, <2>1
<1>5. CASE codepoint_is_valid_scalar(c) /\ ~(c < 128) /\ ~(c < 2048) /\ c < 65536
  <2>1. utf8_encode(c) = <<224 + x, 128 + Low6(w), 128 + Low6(c)>> /\ utf8_codepoint_len(c) = 3
    BY <1>5, SMT DEF utf8_encode, utf8_codepoint_len
  <2>. HIDE DEF w, x
  <2>. QED BY <1>3, <2>1, SMT
<1>6. CASE codepoint_is_valid_scalar(c) /\ ~(c < 128) /\ ~(c < 2048) /\ ~(c < 65536)
  <2>1. /\ utf8_encode(c) = <<240 + y, 128 + Low6(x), 128 + Low6(w), 128 + Low6(c)>>
        /\ utf8_codepoint_len(c) = 4
    BY <1>6, SMT DEF utf8_encode, utf8_codepoint_len
  <2>. HIDE DEF w, x, y
  <2>. QED BY <1>3, <2>1, SMT
<1>. QED BY <1>1, <1>2, <1>4, <1>5, <1>6, SMT

-----------------------------------------------------------------------------
(* What was decoded from a position on, encoded *)

Enc(s) == [i \in DOMAIN s |-> utf8_encode(s[i])]

LEMMA EncIs == ASSUME NEW s \in Seq(Int) PROVE Enc(s) \in Seq(Seq(Int)) /\ Len(Enc(s)) = Len(s)
<1>1. \A i \in 1 .. Len(s) : utf8_encode(s[i]) \in Seq(Int)
  <2>1. \A i \in 1 .. Len(s) : s[i] \in Int
    BY ElementOfSeq
  <2>. QED BY <2>1, EncodeIs, Zenon
<1>2. Len(s) \in Nat /\ DOMAIN s = 1 .. Len(s)
  OBVIOUS
<1>3. Enc(s) = [i \in 1 .. Len(s) |-> utf8_encode(s[i])]
  BY <1>2, Zenon DEF Enc
<1>4. [i \in 1 .. Len(s) |-> utf8_encode(s[i])] \in Seq(Seq(Int))
  BY <1>1, <1>2
<1>5. Len(Enc(s)) = Len(s)
  <2>1. DOMAIN Enc(s) = 1 .. Len(s)
    BY <1>3
  <2>2. Enc(s) \in Seq(Seq(Int))
    BY <1>3, <1>4, Zenon
  <2>. QED BY <1>2, <2>1, <2>2
<1>. QED BY <1>3, <1>4, <1>5, Zenon

LEMMA EncCons ==
  ASSUME NEW c \in Int, NEW s \in Seq(Int)
  PROVE  Enc(<<c>> \o s) = <<utf8_encode(c)>> \o Enc(s)
<1>. DEFINE r == <<c>> \o s
            q == <<utf8_encode(c)>> \o Enc(s)
            m == Len(s)
<1>0. m \in Nat
  OBVIOUS
<1>1. r \in Seq(Int) /\ Len(r) = m + 1 /\ r[1] = c /\ \A i \in 2 .. m + 1 : r[i] = s[i - 1]
  <2>1. <<c>> \in Seq(Int) /\ Len(<<c>>) = 1 /\ <<c>>[1] = c
    OBVIOUS
  <2>2. /\ r \in Seq(Int) /\ Len(r) = Len(<<c>>) + m
        /\ \A i \in 1 .. Len(<<c>>) + m : r[i] = IF i <= Len(<<c>>) THEN <<c>>[i] ELSE s[i - Len(<<c>>)]
    BY <2>1, ConcatProperties
  <2>. HIDE DEF r, m
  <2>. QED BY <1>0, <2>1, <2>2
<1>2. Enc(s) \in Seq(Seq(Int)) /\ Len(Enc(s)) = m /\ utf8_encode(c) \in Seq(Int)
  BY EncIs, EncodeIs
<1>3. /\ q \in Seq(Seq(Int)) /\ Len(q) = m + 1 /\ q[1] = utf8_encode(c)
      /\ \A i \in 2 .. m + 1 : q[i] = Enc(s)[i - 1]
  <2>. DEFINE e == utf8_encode(c)
  <2>. HIDE DEF e
  <2>1. <<e>> \in Seq(Seq(Int)) /\ Len(<<e>>) = 1 /\ <<e>>[1] = e
    BY <1>2 DEF e
  <2>2. /\ <<e>> \o Enc(s) \in Seq(Seq(Int)) /\ Len(<<e>> \o Enc(s)) = Len(<<e>>) + m
        /\ \A i \in 1 .. Len(<<e>>) + m :
             (<<e>> \o Enc(s))[i] = IF i <= Len(<<e>>) THEN <<e>>[i] ELSE Enc(s)[i - Len(<<e>>)]
    BY <1>2, <2>1, ConcatProperties
  <2>3. q = <<e>> \o Enc(s)
    BY DEF e
  <2>. HIDE DEF q, m
  <2>4. q[1] = e /\ Len(q) = m + 1 /\ q \in Seq(Seq(Int)) /\ \A i \in 2 .. m + 1 : q[i] = Enc(s)[i - 1]
    BY <1>0, <2>1, <2>2, <2>3
  <2>. QED BY <2>4 DEF e
<1>4. DOMAIN s = 1 .. m /\ DOMAIN r = 1 .. m + 1
  BY <1>1
<1>5. Enc(r) \in Seq(Seq(Int)) /\ Len(Enc(r)) = m + 1
  <2>. HIDE DEF r
  <2>. QED BY <1>1, EncIs
<1>. HIDE DEF r, q, m
<1>6. ASSUME NEW i \in 1 .. m + 1 PROVE Enc(r)[i] = q[i]
  <2>1. Enc(r)[i] = utf8_encode(r[i])
    BY <1>4, Zenon DEF Enc
  <2>2. CASE i = 1
    BY <1>1, <1>3, <2>1, <2>2, Zenon
  <2>3. CASE i # 1
    <3>1. i \in 2 .. m + 1 /\ i - 1 \in 1 .. m
      BY <1>0, <2>3
    <3>2. Enc(s)[i - 1] = utf8_encode(s[i - 1])
      BY <1>4, <3>1, Zenon DEF Enc
    <3>. QED BY <1>1, <1>3, <2>1, <3>1, <3>2, Zenon
  <2>. QED BY <2>2, <2>3
<1>7. Enc(r) = [i \in 1 .. m + 1 |-> Enc(r)[i]] /\ q = [i \in 1 .. m + 1 |-> q[i]]
  BY <1>0, <1>3, <1>5
<1>8. Enc(r) = q
  BY <1>6, <1>7, Zenon
<1>. QED BY <1>8 DEF r, q

\* The text from p on is valid exactly when it is the encoding of what was decoded.
Encodes(t, C, v, p) ==
  /\ C[p] \in Seq(Int)
  /\ Flatten(Enc(C[p])) \in Seq(Int)
  /\ v[p] <=> Flatten(Enc(C[p])) = SubSeq(t, p + 1, Len(t))

LEMMA EncodesEnd ==
  ASSUME NEW t \in Seq(NonZero), NEW C, NEW v, Decodes(t, C), Validates(t, v)
  PROVE  Encodes(t, C, v, Len(t))
<1>1. Len(t) \in 0 .. Len(t) /\ Len(t) + 1 \in Int /\ Len(t) \in Int /\ Len(t) < Len(t) + 1
  OBVIOUS
<1>2. C[Len(t)] = <<>> /\ v[Len(t)]
  BY <1>1, Zenon DEF Decodes, Validates
<1>3. SubSeq(t, Len(t) + 1, Len(t)) = <<>>
  BY <1>1, SubSeqEmpty
<1>4. <<>> \in Seq(Int) /\ Enc(<<>>) = <<>>
  <2>1. <<>> \in Seq(Int) /\ Len(<<>>) = 0
    OBVIOUS
  <2>2. Enc(<<>>) \in Seq(Seq(Int)) /\ Len(Enc(<<>>)) = 0
    BY <2>1, EncIs
  <2>. QED BY <2>1, <2>2, EmptySeq
<1>. QED BY <1>2, <1>3, <1>4, FlattenNone, Zenon DEF Encodes

LEMMA TextParts ==
  ASSUME NEW t \in Seq(NonZero), NEW p \in Nat, NEW q \in Nat, p < q, q <= Len(t)
  PROVE  /\ SubSeq(t, p + 1, Len(t)) = SubSeq(t, p + 1, q) \o SubSeq(t, q + 1, Len(t))
         /\ SubSeq(t, p + 1, q) \in Seq(Int)
         /\ SubSeq(t, q + 1, Len(t)) \in Seq(Int)
         /\ SubSeq(t, p + 1, Len(t)) \in Seq(Int)
         /\ Len(SubSeq(t, p + 1, Len(t))) = Len(t) - p
<1>0. t \in Seq(Int)
  <2>1. \A i \in 1 .. Len(t) : t[i] \in NonZero
    BY ElementOfSeq
  <2>2. NonZero \subseteq Int
    BY DEF NonZero
  <2>3. t = [i \in 1 .. Len(t) |-> t[i]] /\ Len(t) \in Nat
    OBVIOUS
  <2>4. \A i \in 1 .. Len(t) : t[i] \in Int
    BY <2>1, <2>2
  <2>. QED BY <2>3, <2>4
<1>1. p + 1 \in 1 .. Len(t) + 1 /\ q \in (p + 1) - 1 .. Len(t) /\ Len(t) \in q .. Len(t)
  OBVIOUS
<1>2. SubSeq(t, p + 1, q) \o SubSeq(t, q + 1, Len(t)) = SubSeq(t, p + 1, Len(t))
  BY <1>0, <1>1, ConcatAdjacentSubSeq
<1>3. ASSUME NEW a \in 1 .. Len(t) + 1, NEW b \in 0 .. Len(t)
      PROVE  SubSeq(t, a, b) \in Seq(Int) /\ Len(SubSeq(t, a, b)) = IF a <= b THEN b - a + 1 ELSE 0
  <2>1. \A i \in a .. b : t[i] \in Int
    BY <1>0, ElementOfSeq
  <2>. QED BY <2>1, SubSeqProperties
<1>4. p + 1 \in 1 .. Len(t) + 1 /\ q + 1 \in 1 .. Len(t) + 1 /\ q \in 0 .. Len(t) /\ Len(t) \in 0 .. Len(t)
  OBVIOUS
<1>5. Len(t) - (p + 1) + 1 = Len(t) - p /\ p + 1 <= Len(t)
  OBVIOUS
<1>. QED BY <1>2, <1>3, <1>4, <1>5, Zenon

LEMMA Cancel ==
  ASSUME NEW x \in Seq(Int), NEW y \in Seq(Int), NEW z \in Seq(Int), x \o y = x \o z
  PROVE  y = z
BY ConcatSimplifications

LEMMA EncodesStep ==
  ASSUME NEW t \in Seq(NonZero), NEW C, NEW v, Decodes(t, C), Validates(t, v),
         NEW p \in Nat, p < Len(t), Encodes(t, C, v, NextPos(t, p))
  PROVE  Encodes(t, C, v, p)
<1>1. PICK q : q = NextPos(t, p)
  OBVIOUS
<1>2. q \in Nat /\ p < q /\ q <= Len(t) /\ p \in 0 .. Len(t) /\ p # Len(t)
  BY <1>1, NextForm
<1>3. PICK c \in Int : c = str_next_codepoint(t, p).cp
  BY CodepointIs
<1>4. C[p] = <<c>> \o C[q] /\ (v[p] <=> IsChar(t, p) /\ v[q])
  BY <1>1, <1>2, <1>3, Zenon DEF Decodes, Validates
<1>. DEFINE R(k) == SubSeq(t, k + 1, Len(t))
            E    == utf8_encode(c)
            Q    == Flatten(Enc(C[q]))
            B    == SubSeq(t, p + 1, q)
<1>5. C[q] \in Seq(Int) /\ Q \in Seq(Int) /\ (v[q] <=> Q = R(q))
  BY <1>1, Zenon DEF Encodes
<1>6. C[p] \in Seq(Int)
  <2>1. <<c>> \in Seq(Int)
    OBVIOUS
  <2>2. <<c>> \o C[q] \in Seq(Int)
    BY <1>5, <2>1, ConcatProperties
  <2>. QED BY <1>4, <2>2, Zenon
<1>7. E \in Seq(Int)
  BY EncodeIs
<1>8. Flatten(Enc(C[p])) = E \o Q
  <2>1. Enc(C[p]) = <<E>> \o Enc(C[q])
    <3>1. PICK s \in Seq(Int) : s = C[q]
      BY <1>5, Zenon
    <3>2. Enc(<<c>> \o s) = <<E>> \o Enc(s)
      BY EncCons, Zenon
    <3>. QED BY <1>4, <3>1, <3>2, Zenon
  <2>2. PICK s \in Seq(Seq(Int)) : s = Enc(C[q])
    BY <1>5, EncIs, Zenon
  <2>3. Flatten(<<E>> \o s) = E \o Flatten(s)
    BY <1>7, FlattenCons, Zenon
  <2>. QED BY <2>1, <2>2, <2>3, Zenon
<1>9. E \o Q \in Seq(Int) /\ Len(E \o Q) = Len(E) + Len(Q)
      /\ \A i \in 1 .. Len(E) + Len(Q) : (E \o Q)[i] = IF i <= Len(E) THEN E[i] ELSE Q[i - Len(E)]
  <2>. HIDE DEF E, Q
  <2>. QED BY <1>5, <1>7, ConcatProperties
<1>10. R(p) = B \o R(q) /\ B \in Seq(Int) /\ R(q) \in Seq(Int) /\ R(p) \in Seq(Int) /\ Len(R(p)) = Len(t) - p
  BY <1>2, TextParts, Zenon
<1>11. CASE IsChar(t, p)
  <2>1. E = B
    <3>1. utf8_encode(str_next_codepoint(t, p).cp) = Bytes(t, p)
      <4>1. CASE Ascii(At(t, p))
        BY <4>1, AsciiBytesAre, Zenon
      <4>2. CASE IsSequence(t, p)
        BY <4>2, SequenceBytes, Zenon
      <4>. QED BY <1>11, <4>1, <4>2, Zenon DEF IsChar
    <3>. QED BY <1>1, <1>3, <3>1, Zenon DEF Bytes
  <2>. HIDE DEF E, Q, R, B
  <2>2. E \o Q = R(p) <=> Q = R(q)
    BY <1>5, <1>10, <2>1, Cancel, Zenon
  <2>3. v[p] <=> E \o Q = R(p)
    BY <1>4, <1>5, <1>11, <2>2, Zenon
  <2>. QED BY <1>6, <1>8, <1>9, <2>3, Zenon DEF Encodes, Q, R
<1>12. CASE ~IsChar(t, p)
  <2>1. E = Replaced
    <3>1. At(t, p) # 0
      BY <1>2, AtInside
    <3>2. str_next_codepoint(t, p) = Replacement(p)
      BY <1>12, <3>1, NextOther
    <3>3. c = UTF8_REPLACEMENT_CHAR
      BY <1>3, <3>2 DEF Replacement
    <3>. QED BY <3>3, EncodeReplacement, Zenon
  <2>2. ASSUME E \o Q = R(p) PROVE FALSE
    <3>1. Len(E) = 3 /\ Len(Q) \in Nat
      <4>1. Len(Replaced) = 3
        BY DEF Replaced
      <4>2. Len(Q) \in Nat
        <5>. HIDE DEF Q
        <5>. QED BY <1>5
      <4>. QED BY <2>1, <4>1, <4>2, Zenon
    <3>. HIDE DEF E, Q
    <3>2. Len(t) \in Nat
      OBVIOUS
    <3>3. Len(E) + Len(Q) = Len(t) - p
      BY <1>9, <1>10, <2>2, Zenon
    <3>4. p + 3 <= Len(t)
      BY <3>1, <3>2, <3>3
    <3>. DEFINE S == SubSeq(t, p + 1, p + 3)
    <3>5. S \in Seq(Int) /\ Len(S) = 3 /\ \A i \in 1 .. 3 : S[i] = t[p + i]
      <4>1. /\ S \in Seq(Int) /\ Len(S) = 3
            /\ \A i \in 1 .. 3 : S[i] = At(t, p + i - 1)
        BY <3>4, BytesAre
      <4>2. \A i \in 1 .. 3 : At(t, p + i - 1) = t[p + i]
        BY <3>2, <3>4 DEF At
      <4>. QED BY <4>1, <4>2, Zenon
    <3>6. ASSUME NEW i \in 1 .. 3 PROVE Replaced[i] = t[p + i]
      <4>1. i \in 1 .. Len(E) + Len(Q) /\ i <= Len(E)
        BY <3>1
      <4>2. (E \o Q)[i] = E[i]
        BY <1>9, <4>1, Zenon
      <4>3. R(p)[i] = t[p + i]
        <5>1. p + 1 \in Int /\ Len(t) \in Int /\ i \in 1 .. Len(t) - (p + 1) + 1 /\ p + 1 + i - 1 = p + i
          BY <3>2, <3>4
        <5>2. \A k \in p + 1 .. Len(t) : t[k] \in NonZero
          BY ElementOfSeq
        <5>3. R(p)[i] = t[p + 1 + i - 1]
          BY <5>1, <5>2, SubSeqProperties
        <5>. QED BY <5>1, <5>3, Zenon
      <4>. QED BY <2>1, <2>2, <4>2, <4>3, Zenon
    <3>7. S = Replaced
      <4>1. Replaced \in Seq(Int) /\ Len(Replaced) = 3
        BY DEF Replaced
      <4>. HIDE DEF S
      <4>2. S = [i \in 1 .. 3 |-> S[i]] /\ Replaced = [i \in 1 .. 3 |-> Replaced[i]]
        BY <3>5, <4>1
      <4>3. \A i \in 1 .. 3 : S[i] = Replaced[i]
        BY <3>5, <3>6, Zenon
      <4>. QED BY <4>2, <4>3, Zenon
    <3>. QED BY <1>12, <3>4, <3>7, MalformedDiffers, Zenon
  <2>. HIDE DEF E, Q, R
  <2>3. v[p] <=> E \o Q = R(p)
    BY <1>4, <1>12, <2>2, Zenon
  <2>. QED BY <1>6, <1>8, <1>9, <2>3, Zenon DEF Encodes, Q, R
<1>. QED BY <1>11, <1>12

LEMMA EncodesAll ==
  ASSUME NEW t \in Seq(NonZero), NEW C, NEW v, Decodes(t, C), Validates(t, v)
  PROVE  Encodes(t, C, v, 0)
<1>. DEFINE n == Len(t)
            T == {k \in 0 .. n : ~Encodes(t, C, v, n - k)}
<1>1. n \in Nat
  OBVIOUS
<1>2. T = {}
  <2>1. SUFFICES ASSUME T # {} PROVE FALSE
    OBVIOUS
  <2>2. T \subseteq Nat
    OBVIOUS
  <2>3. PICK k \in T : \A m \in T : k <= m
    <3>. HIDE DEF T
    <3>. QED BY <2>1, <2>2, LeastElement
  <2>4. k \in 0 .. n /\ ~Encodes(t, C, v, n - k)
    BY <2>3
  <2>5. k # 0
    <3>1. n - 0 = n
      BY <1>1
    <3>. QED BY <2>4, <3>1, EncodesEnd, Zenon
  <2>6. PICK p \in Nat : p = n - k /\ p < n
    BY <1>1, <2>4, <2>5
  <2>7. PICK q \in Nat : q = NextPos(t, p) /\ p < q /\ q <= n
    BY <2>6, NextForm
  <2>8. n - q \in 0 .. n /\ n - (n - q) = q /\ ~(k <= n - q)
    BY <1>1, <2>4, <2>6, <2>7
  <2>9. Encodes(t, C, v, n - (n - q))
    <3>1. n - q \notin T
      <4>. HIDE DEF T
      <4>. QED BY <2>3, <2>8, Zenon
    <3>. QED BY <2>8, <3>1, Zenon
  <2>10. Encodes(t, C, v, p)
    BY <2>6, <2>7, <2>8, <2>9, EncodesStep, Zenon
  <2>. QED BY <2>4, <2>6, <2>10, Zenon
<1>3. 0 = n - n /\ n \in 0 .. n
  BY <1>1
<1>. QED BY <1>2, <1>3, Zenon

\* A text is valid exactly when it is the encoding of the code points decoded from it,
\* and every code point takes as many bytes as utf8_codepoint_len says, in texts of any
\* length and bytes.
THEOREM EncodedWhenValid == Spec => []ValidMeansEncoded
<1>1. ASSUME Inv PROVE ValidMeansEncoded
  <2>1. text \in Seq(NonZero)
    BY <1>1, Text DEF Inv
  <2>2. PICK C : Decodes(text, C) /\ CodepointsFrom(text)[0] = C[0]
    BY <2>1, CodepointsAre
  <2>3. PICK v : Validates(text, v) /\ (str_is_valid_utf8(text) <=> v[0])
    BY <2>1, ValidIs
  <2>4. Encodes(text, C, v, 0)
    BY <2>1, <2>2, <2>3, EncodesAll, Zenon
  <2>5. SubSeq(text, 0 + 1, Len(text)) = text
    <3>1. 0 + 1 = 1
      OBVIOUS
    <3>2. SubSeq(text, 1, Len(text)) = text
      BY <2>1, SubSeqFull
    <3>. QED BY <3>1, <3>2, Zenon
  <2>6. PICK s \in Seq(Int) : s = CodepointsFrom(text)[0]
    BY <2>2, <2>4, Zenon DEF Encodes
  <2>7. str_is_valid_utf8(text) <=> Flatten(Enc(s)) = text
    BY <2>2, <2>3, <2>4, <2>5, <2>6, Zenon DEF Encodes
  <2>8. \A i \in DOMAIN s : utf8_codepoint_len(s[i]) = Len(utf8_encode(s[i]))
    <3>1. \A i \in DOMAIN s : s[i] \in Int
      BY ElementOfSeq
    <3>. QED BY <3>1, EncodeIs, Zenon
  <2>. QED BY <2>6, <2>7, <2>8, Zenon DEF ValidMeansEncoded, Enc
<1>. QED BY <1>1, Invariant, PTL

-----------------------------------------------------------------------------
(* Cutting a text *)

\* A code point that joins nothing to the one before it, and attracts nothing.
Inert(c) == ~Attaches(c) /\ c # GRAPHEME_CLUSTER_ZWJ /\ ~Closed(c) /\ c # LF

LEMMA InertIs ==
  ASSUME NEW c,
         \A r \in GRAPHEME_CLUSTER_EXTEND_RANGES : ~(r[1] <= c /\ c <= r[2]),
         \A r \in GRAPHEME_CLUSTER_VARIATION_SELECTOR_RANGES : ~(r[1] <= c /\ c <= r[2]),
         c # GRAPHEME_CLUSTER_ZWJ, c # LF, c # CR, c \notin 127462 .. 127487
  PROVE  Inert(c)
<1>1. ~Attaches(c)
  BY DEF Attaches, grapheme_cluster_is_extend, grapheme_cluster_is_variation_selector,
         codepoint_in_ranges
<1>2. ~Closed(c)
  BY SMT DEF Closed, grapheme_cluster_is_regional_indicator
<1>. QED BY <1>1, <1>2 DEF Inert

LEMMA NoneInert == Inert(0)
<1>. PICK c : c = 0
  OBVIOUS
<1>1. \A r \in GRAPHEME_CLUSTER_EXTEND_RANGES : ~(r[1] <= c /\ c <= r[2])
  BY SMT DEF GRAPHEME_CLUSTER_EXTEND_RANGES
<1>2. \A r \in GRAPHEME_CLUSTER_VARIATION_SELECTOR_RANGES : ~(r[1] <= c /\ c <= r[2])
  BY SMT DEF GRAPHEME_CLUSTER_VARIATION_SELECTOR_RANGES
<1>3. c # GRAPHEME_CLUSTER_ZWJ /\ c # LF /\ c # CR /\ c \notin 127462 .. 127487
  BY SMT DEF GRAPHEME_CLUSTER_ZWJ, LF, CR
<1>4. Inert(c)
  BY <1>1, <1>2, <1>3, InertIs, SMT
<1>. QED BY <1>4

LEMMA ReplacedInert == Inert(UTF8_REPLACEMENT_CHAR)
<1>. PICK c : c = UTF8_REPLACEMENT_CHAR
  OBVIOUS
<1>1. \A r \in GRAPHEME_CLUSTER_EXTEND_RANGES : ~(r[1] <= c /\ c <= r[2])
  BY SMT DEF GRAPHEME_CLUSTER_EXTEND_RANGES, UTF8_REPLACEMENT_CHAR
<1>2. \A r \in GRAPHEME_CLUSTER_VARIATION_SELECTOR_RANGES : ~(r[1] <= c /\ c <= r[2])
  BY SMT DEF GRAPHEME_CLUSTER_VARIATION_SELECTOR_RANGES, UTF8_REPLACEMENT_CHAR
<1>3. c # GRAPHEME_CLUSTER_ZWJ /\ c # LF /\ c # CR /\ c \notin 127462 .. 127487
  BY SMT DEF GRAPHEME_CLUSTER_ZWJ, LF, CR, UTF8_REPLACEMENT_CHAR
<1>4. Inert(c)
  BY <1>1, <1>2, <1>3, InertIs, SMT
<1>. QED BY <1>4

LEMMA InertPairs ==
  ASSUME NEW c, NEW d, Inert(d)
  PROVE  ~Pairs(c, d)
BY Zenon DEF Inert, Pairs, Closed

\* Induction over the positions of a text, from either end.
LEMMA Downwards ==
  ASSUME NEW n \in Nat, NEW C, \A p \in 0 .. n : (\A q \in p + 1 .. n : q \in C) => p \in C
  PROVE  \A p \in 0 .. n : p \in C
<1>. DEFINE T == {k \in 0 .. n : n - k \notin C}
<1>1. T = {}
  <2>1. SUFFICES ASSUME T # {} PROVE FALSE
    OBVIOUS
  <2>2. T \subseteq Nat
    OBVIOUS
  <2>3. PICK k \in T : \A j \in T : k <= j
    <3>. HIDE DEF T
    <3>. QED BY <2>1, <2>2, LeastElement
  <2>. DEFINE p == n - k
  <2>4. p \in 0 .. n /\ p \notin C
    BY <2>3
  <2>5. ASSUME NEW q \in p + 1 .. n PROVE q \in C
    <3>1. n - q \in 0 .. n /\ ~(k <= n - q) /\ n - (n - q) = q
      BY <2>3
    <3>2. n - q \notin T
      <4>. HIDE DEF T
      <4>. QED BY <2>3, <3>1
    <3>. QED BY <3>1, <3>2
  <2>. HIDE DEF p
  <2>. QED BY <2>4, <2>5
<1>2. ASSUME NEW p \in 0 .. n PROVE p \in C
  <2>1. n - p \in 0 .. n /\ n - (n - p) = p
    OBVIOUS
  <2>2. n - p \notin T
    BY <1>1
  <2>. QED BY <2>1, <2>2
<1>. QED BY <1>2

LEMMA Upwards ==
  ASSUME NEW n \in Nat, NEW C, \A p \in 0 .. n : (\A q \in 0 .. p - 1 : q \in C) => p \in C
  PROVE  \A p \in 0 .. n : p \in C
<1>. DEFINE T == {k \in 0 .. n : k \notin C}
<1>1. T = {}
  <2>1. SUFFICES ASSUME T # {} PROVE FALSE
    OBVIOUS
  <2>2. T \subseteq Nat
    OBVIOUS
  <2>3. PICK k \in T : \A j \in T : k <= j
    <3>. HIDE DEF T
    <3>. QED BY <2>1, <2>2, LeastElement
  <2>4. k \in 0 .. n /\ k \notin C
    BY <2>3
  <2>5. ASSUME NEW q \in 0 .. k - 1 PROVE q \in C
    <3>1. q \in 0 .. n /\ ~(k <= q)
      BY <2>4
    <3>2. q \notin T
      <4>. HIDE DEF T
      <4>. QED BY <2>3, <3>1
    <3>. QED BY <3>1, <3>2
  <2>. QED BY <2>4, <2>5
<1>. QED BY <1>1

\* The text before e.
LEMMA PrefixIs ==
  ASSUME NEW t \in Seq(NonZero), NEW e \in 0 .. Len(t), NEW u, u = SubSeq(t, 1, e)
  PROVE  /\ u \in Seq(NonZero) /\ Len(u) = e /\ e \in Nat
         /\ \A p \in Nat : At(u, p) = IF p < e THEN At(t, p) ELSE 0
<1>1. \A i \in 1 .. e : t[i] \in NonZero
  <2>1. \A i \in 1 .. e : i \in 1 .. Len(t)
    BY LenProperties
  <2>. QED BY <2>1, ElementOfSeq
<1>2. /\ u \in Seq(NonZero) /\ Len(u) = IF 1 <= e THEN e - 1 + 1 ELSE 0
      /\ \A i \in 1 .. e - 1 + 1 : u[i] = t[1 + i - 1]
  BY <1>1, SubSeqProperties
<1>3. Len(u) = e /\ \A i \in 1 .. e : u[i] = t[i]
  BY <1>2
<1>4. ASSUME NEW p \in Nat PROVE At(u, p) = IF p < e THEN At(t, p) ELSE 0
  <2>1. CASE p < e
    <3>1. PICK k : k = p + 1
      OBVIOUS
    <3>2. k \in 1 .. e /\ p < Len(t) /\ p < Len(u)
      BY <1>3, <2>1, <3>1
    <3>3. u[k] = t[k]
      BY <1>3, <3>2
    <3>. QED BY <2>1, <3>1, <3>2, <3>3, Zenon DEF At
  <2>2. CASE ~(p < e)
    <3>1. ~(p < Len(u))
      BY <1>3, <2>2
    <3>. QED BY <2>2, <3>1, Zenon DEF At
  <2>. QED BY <2>1, <2>2
<1>. QED BY <1>2, <1>3, <1>4

\* u is what comes before e in t.
Prefix(t, u, e) ==
  /\ t \in Seq(NonZero) /\ u \in Seq(NonZero) /\ e \in Nat /\ e <= Len(t) /\ Len(u) = e
  /\ \A p \in Nat : At(u, p) = IF p < e THEN At(t, p) ELSE 0

LEMMA SamePrefix ==
  ASSUME NEW t, NEW u, NEW e, Prefix(t, u, e), NEW p \in Nat, p + Extra(At(t, p)) < e
  PROVE  /\ At(u, p) = At(t, p)
         /\ IsSequence(u, p) <=> IsSequence(t, p)
         /\ IsSequence(t, p) => Assemble(u, p) = Assemble(t, p)
<1>0. Extra(At(t, p)) \in 0 .. 3 /\ e \in Nat
  BY ExtraBounds DEF Prefix
<1>1. \A i \in 0 .. Extra(At(t, p)) : At(u, p + i) = At(t, p + i)
  BY <1>0 DEF Prefix
<1>2. At(u, p) = At(t, p)
  <2>1. 0 \in 0 .. Extra(At(t, p)) /\ p + 0 = p
    BY <1>0
  <2>. QED BY <1>1, <2>1, Zenon
<1>3. Extra(At(t, p)) > 0 => Assemble(u, p) = Assemble(t, p)
  <2>1. Extra(At(t, p)) > 0 => 1 \in 0 .. Extra(At(t, p))
    BY <1>0
  <2>2. Extra(At(t, p)) > 1 => 2 \in 0 .. Extra(At(t, p))
    BY <1>0
  <2>3. Extra(At(t, p)) > 2 => 3 \in 0 .. Extra(At(t, p))
    BY <1>0
  <2>4. Extra(At(t, p)) \in {0, 1, 2, 3}
    BY <1>0
  <2>5. CASE Extra(At(t, p)) = 1
    <3>1. At(u, p + 1) = At(t, p + 1)
      BY <1>1, <2>1, <2>5
    <3>. QED BY <1>2, <2>5, <3>1, SMT DEF Assemble
  <2>6. CASE Extra(At(t, p)) = 2
    <3>1. At(u, p + 1) = At(t, p + 1) /\ At(u, p + 2) = At(t, p + 2)
      BY <1>1, <2>1, <2>2, <2>6
    <3>. QED BY <1>2, <2>6, <3>1, SMT DEF Assemble
  <2>7. CASE Extra(At(t, p)) = 3
    <3>1. At(u, p + 1) = At(t, p + 1) /\ At(u, p + 2) = At(t, p + 2) /\ At(u, p + 3) = At(t, p + 3)
      BY <1>1, <2>1, <2>2, <2>3, <2>7
    <3>. QED BY <1>2, <2>7, <3>1, SMT DEF Assemble
  <2>. QED BY <2>4, <2>5, <2>6, <2>7
<1>4. (\A i \in 1 .. Extra(At(t, p)) : IsContinuation(At(t, p + i)))
        <=> (\A i \in 1 .. Extra(At(t, p)) : IsContinuation(At(u, p + i)))
  <2>1. \A i \in 1 .. Extra(At(t, p)) : i \in 0 .. Extra(At(t, p))
    BY <1>0
  <2>. QED BY <1>1, <2>1, Zenon
<1>5. Extra(At(u, p)) = Extra(At(t, p))
  BY <1>2, Zenon
<1>6. IsSequence(u, p) <=> IsSequence(t, p)
  <2>1. CASE Extra(At(t, p)) > 0
    BY <1>3, <1>4, <1>5, <2>1, Zenon DEF IsSequence
  <2>2. CASE ~(Extra(At(t, p)) > 0)
    BY <1>5, <2>2, Zenon DEF IsSequence
  <2>. QED BY <2>1, <2>2
<1>. QED BY <1>2, <1>3, <1>6, Zenon DEF IsSequence

\* What ends before e is decoded alike, and nothing else is but the terminator.
Kept(t, u, p) == str_next_codepoint(u, p) = str_next_codepoint(t, p)

LEMMA KeptBefore ==
  ASSUME NEW t, NEW u, NEW e, Prefix(t, u, e), NEW p \in Nat, p < e, NextPos(t, p) <= e
  PROVE  Kept(t, u, p)
<1>0. /\ t \in Seq(NonZero) /\ u \in Seq(NonZero) /\ e \in Nat /\ e <= Len(t) /\ Len(u) = e
      /\ p < Len(t) /\ p < Len(u) /\ At(u, p) = At(t, p)
  BY DEF Prefix
<1>1. At(t, p) # 0
  BY <1>0, AtInside
<1>2. CASE Ascii(At(t, p))
  <2>1. str_next_codepoint(t, p) = [cp |-> At(t, p), pos |-> p + 1]
    BY <1>2, NextAscii
  <2>2. str_next_codepoint(u, p) = [cp |-> At(u, p), pos |-> p + 1]
    BY <1>0, <1>2, NextAscii, Zenon
  <2>. QED BY <1>0, <2>1, <2>2, Zenon DEF Kept
<1>3. CASE IsSequence(t, p)
  <2>1. str_next_codepoint(t, p) = [cp |-> Assemble(t, p), pos |-> p + Extra(At(t, p)) + 1]
    BY <1>3, NextSequence
  <2>2. Extra(At(t, p)) \in 0 .. 3
    BY ExtraBounds
  <2>3. p + Extra(At(t, p)) < e
    BY <1>0, <2>1, <2>2 DEF NextPos
  <2>4. IsSequence(u, p) /\ Assemble(u, p) = Assemble(t, p)
    BY <1>3, <2>3, SamePrefix
  <2>5. str_next_codepoint(u, p) = [cp |-> Assemble(u, p), pos |-> p + Extra(At(u, p)) + 1]
    BY <2>4, NextSequence
  <2>. QED BY <1>0, <2>1, <2>4, <2>5, Zenon DEF Kept
<1>4. CASE ~IsChar(t, p)
  <2>1. ~IsSequence(u, p)
    <3>1. SUFFICES ASSUME IsSequence(u, p) PROVE FALSE
      OBVIOUS
    <3>2. str_next_codepoint(u, p) = [cp |-> Assemble(u, p), pos |-> p + Extra(At(u, p)) + 1]
      BY <3>1, NextSequence
    <3>3. NextPos(u, p) <= e
      BY <1>0, NextForm
    <3>4. Extra(At(t, p)) \in 0 .. 3 /\ Extra(At(u, p)) = Extra(At(t, p))
      BY <1>0, ExtraBounds, Zenon
    <3>5. p + Extra(At(t, p)) < e
      BY <1>0, <3>2, <3>3, <3>4 DEF NextPos
    <3>6. IsSequence(t, p)
      BY <3>1, <3>5, SamePrefix
    <3>. QED BY <1>4, <3>6 DEF IsChar
  <2>2. ~IsChar(u, p) /\ At(u, p) # 0
    BY <1>0, <1>1, <1>4, <2>1, Zenon DEF IsChar
  <2>3. str_next_codepoint(u, p) = Replacement(p) /\ str_next_codepoint(t, p) = Replacement(p)
    BY <1>1, <1>4, <2>2, NextOther
  <2>. QED BY <2>3 DEF Kept
<1>. QED BY <1>2, <1>3, <1>4 DEF IsChar

LEMMA TextEnd ==
  ASSUME NEW t \in Seq(NonZero)
  PROVE  str_next_codepoint(t, Len(t)) = [cp |-> 0, pos |-> Len(t)]
<1>1. Len(t) \in Nat
  OBVIOUS
<1>2. At(t, Len(t)) = 0
  BY <1>1, AtInside
<1>. QED BY <1>2, NextAtEnd

LEMMA CutInert ==
  ASSUME NEW t, NEW u, NEW e, Prefix(t, u, e), NEW p \in Nat, p <= e, NextPos(t, p) > e
  PROVE  Inert(str_next_codepoint(u, p).cp)
<1>0. /\ t \in Seq(NonZero) /\ u \in Seq(NonZero) /\ e \in Nat /\ e <= Len(t) /\ Len(u) = e
  BY DEF Prefix
<1>1. CASE p = e
  <2>1. str_next_codepoint(u, p) = [cp |-> 0, pos |-> p]
    BY <1>0, <1>1, TextEnd
  <2>. QED BY <2>1, NoneInert
<1>2. CASE p # e
  <2>0. p < e /\ p < Len(t) /\ p < Len(u) /\ At(u, p) = At(t, p)
    BY <1>0, <1>2 DEF Prefix
  <2>1. At(t, p) # 0
    BY <1>0, <2>0, AtInside
  <2>2. IsSequence(t, p)
    <3>1. SUFFICES ASSUME ~IsSequence(t, p) PROVE FALSE
      OBVIOUS
    <3>2. NextPos(t, p) = p + 1
      BY <1>0, <2>0, <3>1, NextForm
    <3>. QED BY <1>0, <2>0, <3>2
  <2>3. str_next_codepoint(t, p) = [cp |-> Assemble(t, p), pos |-> p + Extra(At(t, p)) + 1]
    BY <2>2, NextSequence
  <2>4. ~IsSequence(u, p)
    <3>1. SUFFICES ASSUME IsSequence(u, p) PROVE FALSE
      OBVIOUS
    <3>2. str_next_codepoint(u, p) = [cp |-> Assemble(u, p), pos |-> p + Extra(At(u, p)) + 1]
      BY <3>1, NextSequence
    <3>3. NextPos(u, p) <= e
      BY <1>0, <2>0, NextForm
    <3>4. NextPos(u, p) = NextPos(t, p) /\ NextPos(t, p) \in p + 1 .. p + 4
      BY <1>0, <2>0, <2>3, <3>2, NextForm DEF NextPos
    <3>. QED BY <1>0, <3>3, <3>4
  <2>5. ~Ascii(At(t, p))
    BY <2>2, LeadBytes DEF IsSequence
  <2>6. ~IsChar(u, p) /\ At(u, p) # 0
    BY <2>0, <2>1, <2>4, <2>5, Zenon DEF IsChar
  <2>7. str_next_codepoint(u, p) = Replacement(p)
    BY <2>6, NextOther
  <2>8. str_next_codepoint(u, p).cp = UTF8_REPLACEMENT_CHAR
    BY <2>7 DEF Replacement
  <2>. QED BY <2>8, ReplacedInert, Zenon
<1>. QED BY <1>1, <1>2

LEMMA PrefixOf ==
  ASSUME NEW t \in Seq(NonZero), NEW e \in 0 .. Len(t)
  PROVE  Prefix(t, SubSeq(t, 1, e), e)
<1>1. PICK u : u = SubSeq(t, 1, e)
  OBVIOUS
<1>2. /\ u \in Seq(NonZero) /\ Len(u) = e /\ e \in Nat
      /\ \A p \in Nat : At(u, p) = IF p < e THEN At(t, p) ELSE 0
  BY <1>1, PrefixIs
<1>3. e <= Len(t)
  OBVIOUS
<1>. QED BY <1>1, <1>2, <1>3, Zenon DEF Prefix

\* Where the decoder goes from each position of a text.
LEMMA NextIn ==
  ASSUME NEW t \in Seq(NonZero), NEW p \in 0 .. Len(t)
  PROVE  /\ NextPos(t, p) \in 0 .. Len(t)
         /\ p <= NextPos(t, p)
         /\ p # Len(t) => p < NextPos(t, p)
         /\ p = Len(t) => str_next_codepoint(t, p).cp = 0 /\ NextPos(t, p) = p
<1>1. Len(t) \in Nat
  OBVIOUS
<1>2. CASE p = Len(t)
  <2>1. str_next_codepoint(t, p) = [cp |-> 0, pos |-> p]
    BY <1>2, TextEnd
  <2>. QED BY <1>1, <1>2, <2>1 DEF NextPos
<1>3. CASE p # Len(t)
  <2>1. p \in Nat /\ p < Len(t)
    BY <1>1, <1>3
  <2>2. NextPos(t, p) \in p + 1 .. p + 4 /\ NextPos(t, p) <= Len(t)
    BY <2>1, NextForm
  <2>. QED BY <1>1, <1>3, <2>1, <2>2
<1>. QED BY <1>2, <1>3

-----------------------------------------------------------------------------
(* Passing code points *)

\* Where n steps forward from p lead.
Walk(t, p, n, f) == \A i \in 0 .. n : f[i] = IF i = 0 THEN p ELSE NextPos(t, f[i - 1])

LEMMA WalkExists ==
  ASSUME NEW t \in Seq(NonZero), NEW p \in 0 .. Len(t), NEW n \in Nat
  PROVE  \E f \in [0 .. n -> 0 .. Len(t)] : Walk(t, p, n, f)
<1>. DEFINE V  == 0 .. Len(t)
            nx == [j \in 0 .. n - 1 |-> j + 1]
            F  == [j \in 0 .. n - 1 |-> [v \in V |-> NextPos(t, v)]]
<1>1. \A j \in 0 .. n - 1 : nx[j] = j + 1 /\ nx[j] \in j + 1 .. n
  OBVIOUS
<1>2. \A j \in 0 .. n - 1, v \in V : F[j][v] = NextPos(t, v)
  OBVIOUS
<1>3. \A v \in V : NextPos(t, v) \in V
  BY NextIn
<1>4. p \in V
  OBVIOUS
<1>. HIDE DEF nx, F, V
<1>5. \A j \in 0 .. n - 1, v \in V : F[j][v] \in V
  BY <1>2, <1>3, Zenon
<1>6. Recursive(n, V, p, nx, F)
  BY <1>1, <1>4, <1>5 DEF Recursive
<1>7. PICK h : Recurs(h, n, V, p, nx, F)
  BY <1>6, Recursion, Zenon
<1>8. h \in [0 .. n -> V] /\ \A j \in 0 .. n : h[j] = IF j = n THEN p ELSE F[j][h[nx[j]]]
  BY <1>7, Zenon DEF Recurs
<1>. DEFINE f == [i \in 0 .. n |-> h[n - i]]
<1>9. \A i \in 0 .. n : f[i] = h[n - i] /\ n - i \in 0 .. n
  OBVIOUS
<1>10. f \in [0 .. n -> V]
  BY <1>8
<1>. HIDE DEF f
<1>11. ASSUME NEW i \in 0 .. n PROVE f[i] = IF i = 0 THEN p ELSE NextPos(t, f[i - 1])
  <2>1. CASE i = 0
    <3>1. n - i = n /\ n - i \in 0 .. n
      BY <2>1
    <3>2. h[n - i] = p
      BY <1>8, <3>1, Zenon
    <3>. QED BY <1>9, <2>1, <3>2, Zenon
  <2>2. CASE i # 0
    <3>1. PICK j : j = n - i
      OBVIOUS
    <3>2. j \in 0 .. n - 1 /\ j \in 0 .. n /\ j # n /\ i - 1 \in 0 .. n /\ n - (i - 1) = j + 1
      BY <2>2, <3>1
    <3>3. h[j] = F[j][h[nx[j]]] /\ nx[j] = j + 1
      BY <1>1, <1>8, <3>2, Zenon
    <3>4. h[nx[j]] = f[i - 1] /\ f[i - 1] \in V
      <4>1. f[i - 1] = h[n - (i - 1)] /\ f[i - 1] \in V
        BY <1>9, <1>10, <3>2, Zenon
      <4>. QED BY <3>2, <3>3, <4>1, Zenon
    <3>5. F[j][f[i - 1]] = NextPos(t, f[i - 1])
      BY <1>2, <3>2, <3>4, Zenon
    <3>. QED BY <1>9, <2>2, <3>1, <3>3, <3>4, <3>5, Zenon
  <2>. QED BY <2>1, <2>2
<1>. QED BY <1>10, <1>11, Zenon DEF Walk, V

LEMMA SkipIs ==
  ASSUME NEW t, NEW p, NEW n \in Nat, NEW m \in 0 .. n, NEW f, Walk(t, p, n, f)
  PROVE  Skip(t, p, m) = f[m]
<1>. DEFINE Step(g) == [i \in 0 .. m |-> IF i = 0 THEN p ELSE str_next_codepoint(t, g[i - 1]).pos]
            after == CHOOSE g : g = Step(g)
            h == [i \in 0 .. m |-> f[i]]
<1>1. m \in Nat /\ \A i \in 0 .. m : i \in 0 .. n /\ (i # 0 => i - 1 \in 0 .. m)
  OBVIOUS
<1>2. \A i \in 0 .. m : h[i] = f[i]
  OBVIOUS
<1>3. h = Step(h)
  <2>1. \A i \in 0 .. m : f[i] = IF i = 0 THEN p ELSE str_next_codepoint(t, h[i - 1]).pos
    <3>1. TAKE i \in 0 .. m
    <3>2. f[i] = IF i = 0 THEN p ELSE NextPos(t, f[i - 1])
      BY <1>1, Zenon DEF Walk
    <3>3. i # 0 => h[i - 1] = f[i - 1]
      BY <1>1, <1>2, Zenon
    <3>. QED BY <3>2, <3>3, Zenon DEF NextPos
  <2>. QED BY <2>1, Zenon
<1>. HIDE DEF h
<1>4. after = Step(after)
  <2>. HIDE DEF Step
  <2>. QED BY <1>3, Zenon
<1>5. Skip(t, p, m) = after[m]
  BY Zenon DEF Skip
<1>6. ASSUME NEW i \in 0 .. m PROVE after[i] = IF i = 0 THEN p ELSE NextPos(t, after[i - 1])
  <2>1. after[i] = Step(after)[i]
    <3>. HIDE DEF after, Step
    <3>. QED BY <1>4, Zenon
  <2>. HIDE DEF after
  <2>. QED BY <2>1, Zenon DEF NextPos
<1>. HIDE DEF after
<1>. DEFINE C == {i \in 0 .. m : after[i] = f[i]}
<1>7. ASSUME NEW i \in 0 .. m, \A q \in 0 .. i - 1 : q \in C PROVE i \in C
  <2>1. f[i] = IF i = 0 THEN p ELSE NextPos(t, f[i - 1])
    BY <1>1, Zenon DEF Walk
  <2>2. CASE i = 0
    BY <1>6, <2>1, <2>2, Zenon
  <2>3. CASE i # 0
    <3>1. i - 1 \in 0 .. i - 1
      BY <1>1, <2>3
    <3>2. after[i - 1] = f[i - 1]
      BY <1>7, <3>1, Zenon
    <3>. QED BY <1>6, <2>1, <2>3, <3>2, Zenon
  <2>. QED BY <2>2, <2>3
<1>. HIDE DEF C
<1>8. \A i \in 0 .. m : i \in C
  BY <1>1, <1>7, Upwards
<1>9. m \in 0 .. m
  BY <1>1
<1>. QED BY <1>5, <1>8, <1>9, Zenon DEF C

\* As many steps as the text has bytes lead to its end.
LEMMA SkipAll ==
  ASSUME NEW t \in Seq(NonZero), NEW p \in 0 .. Len(t)
  PROVE  Skip(t, p, Len(t)) = Len(t)
<1>. DEFINE n == Len(t)
<1>1. n \in Nat /\ n \in 0 .. n
  OBVIOUS
<1>2. PICK f \in [0 .. n -> 0 .. n] : Walk(t, p, n, f)
  BY <1>1, WalkExists, Zenon
<1>. DEFINE C == {i \in 0 .. n : i <= f[i]}
<1>3. ASSUME NEW i \in 0 .. n, \A q \in 0 .. i - 1 : q \in C PROVE i \in C
  <2>1. f[i] = IF i = 0 THEN p ELSE NextPos(t, f[i - 1])
    BY <1>2, Zenon DEF Walk
  <2>2. CASE i = 0
    <3>1. f[i] \in 0 .. n
      BY <1>2, Zenon
    <3>. QED BY <1>1, <2>2, <3>1
  <2>3. CASE i # 0
    <3>1. PICK j : j = i - 1
      OBVIOUS
    <3>2. j \in 0 .. i - 1 /\ j \in 0 .. n
      BY <1>1, <2>3, <3>1
    <3>3. j <= f[j] /\ f[j] \in 0 .. n /\ f[i] = NextPos(t, f[j])
      BY <1>2, <1>3, <2>1, <2>3, <3>1, <3>2, Zenon
    <3>4. /\ f[j] <= NextPos(t, f[j]) /\ NextPos(t, f[j]) \in 0 .. n
          /\ f[j] # n => f[j] < NextPos(t, f[j])
      BY <3>3, NextIn, Zenon
    <3>. HIDE DEF n
    <3>5. PICK a \in 0 .. n, b \in 0 .. n : a = f[j] /\ b = NextPos(t, f[j])
      BY <3>3, <3>4, Zenon
    <3>6. j <= a /\ (a # n => a < b) /\ a <= b
      BY <3>3, <3>4, <3>5, Zenon
    <3>7. i <= b
      <4>1. n \in Nat /\ i = j + 1
        BY <1>1, <3>1
      <4>2. CASE a = n
        BY <3>6, <4>1, <4>2
      <4>3. CASE a # n
        BY <3>2, <3>6, <4>1, <4>3
      <4>. QED BY <4>2, <4>3
    <3>. QED BY <3>3, <3>5, <3>7
  <2>. QED BY <2>2, <2>3
<1>. HIDE DEF C, n
<1>4. \A i \in 0 .. n : i \in C
  BY <1>1, <1>3, Upwards
<1>5. n <= f[n] /\ f[n] \in 0 .. n
  BY <1>1, <1>2, <1>4, Zenon DEF C
<1>6. Skip(t, p, n) = f[n]
  BY <1>1, <1>2, SkipIs, Zenon
<1>. QED BY <1>1, <1>5, <1>6 DEF n

LEMMA WalkRises ==
  ASSUME NEW t \in Seq(NonZero), NEW p, NEW n \in Nat, NEW f \in [0 .. n -> 0 .. Len(t)], Walk(t, p, n, f)
  PROVE  \A i \in 0 .. n : f[i] <= f[n]
<1>. DEFINE C == {i \in 0 .. n : f[i] <= f[n]}
<1>0. \A i \in 0 .. n : f[i] \in 0 .. Len(t)
  OBVIOUS
<1>1. ASSUME NEW i \in 0 .. n, \A q \in i + 1 .. n : q \in C PROVE i \in C
  <2>1. CASE i = n
    <3>1. f[n] \in 0 .. Len(t) /\ n \in 0 .. n
      BY <1>0
    <3>2. f[n] <= f[n]
      BY <3>1
    <3>. QED BY <2>1, <3>1, <3>2
  <2>2. CASE i # n
    <3>1. PICK j : j = i + 1
      OBVIOUS
    <3>2. j \in i + 1 .. n /\ j \in 0 .. n /\ j # 0 /\ j - 1 = i /\ n \in 0 .. n
      BY <2>2, <3>1
    <3>3. f[j] <= f[n]
      BY <1>1, <3>2
    <3>4. f[j] = NextPos(t, f[i])
      BY <3>2, Zenon DEF Walk
    <3>5. f[i] <= f[j]
      BY <1>0, <3>4, NextIn, Zenon
    <3>6. f[i] <= f[n]
      BY <1>0, <3>2, <3>3, <3>5
    <3>. QED BY <3>6
  <2>. QED BY <2>1, <2>2
<1>. HIDE DEF C
<1>2. \A i \in 0 .. n : i \in C
  BY <1>1, Downwards
<1>. QED BY <1>2 DEF C

\* The text before the place where n steps lead has n code points.
LEMMA CutCodepoints ==
  ASSUME NEW t \in Seq(NonZero), NEW n \in Nat, NEW f \in [0 .. n -> 0 .. Len(t)], Walk(t, 0, n, f),
         \A i \in 0 .. n - 1 : f[i] < Len(t)
  PROVE  str_codepoints(SubSeq(t, 1, f[n])) = n
<1>1. PICK e \in 0 .. Len(t) : e = f[n]
  OBVIOUS
<1>2. PICK u : u = SubSeq(t, 1, e)
  OBVIOUS
<1>3. Prefix(t, u, e)
  BY <1>2, PrefixOf
<1>4. u \in Seq(NonZero) /\ Len(u) = e /\ e \in Nat /\ e <= Len(t)
  BY <1>3 DEF Prefix
<1>5. PICK K : Decodes(u, K) /\ CodepointsFrom(u)[0] = K[0]
  BY <1>4, CodepointsAre
<1>6. \A i \in 0 .. n : f[i] <= e /\ f[i] \in 0 .. Len(t)
  BY <1>1, WalkRises
<1>. DEFINE C == {i \in 0 .. n : K[f[i]] \in Seq(Int) /\ Len(K[f[i]]) = n - i}
<1>7. ASSUME NEW i \in 0 .. n, \A q \in i + 1 .. n : q \in C PROVE i \in C
  <2>1. CASE i = n
    <3>1. e \in 0 .. Len(u) /\ e = Len(u)
      BY <1>4
    <3>2. K[e] = <<>>
      BY <1>5, <3>1, Zenon DEF Decodes
    <3>3. <<>> \in Seq(Int) /\ Len(<<>>) = n - i
      BY <2>1
    <3>. QED BY <1>1, <2>1, <3>2, <3>3
  <2>2. CASE i # n
    <3>1. PICK j : j = i + 1
      OBVIOUS
    <3>2. j \in i + 1 .. n /\ j \in 0 .. n /\ j # 0 /\ j - 1 = i /\ i \in 0 .. n - 1
      BY <2>2, <3>1
    <3>3. PICK a \in Nat : a = f[i] /\ a < Len(t)
      BY <1>6, <3>2
    <3>4. PICK b \in Nat : b = f[j] /\ b <= e
      BY <1>6, <3>2
    <3>5. b = NextPos(t, a)
      BY <3>2, <3>3, <3>4, Zenon DEF Walk
    <3>6. a < b
      BY <3>3, <3>5, NextForm
    <3>7. a < e /\ NextPos(t, a) <= e /\ a < Len(u) /\ a \in 0 .. Len(u) /\ a # Len(u)
      BY <1>4, <3>4, <3>5, <3>6
    <3>8. Kept(t, u, a)
      BY <1>3, <3>7, KeptBefore
    <3>9. NextPos(u, a) = b
      BY <3>5, <3>8, Zenon DEF Kept, NextPos
    <3>10. PICK c \in Int : c = str_next_codepoint(u, a).cp
      BY <1>4, <3>7, CodepointIs
    <3>11. K[a] = <<c>> \o K[b]
      <4>1. K[a] = <<str_next_codepoint(u, a).cp>> \o K[NextPos(u, a)]
        BY <1>5, <3>7, Zenon DEF Decodes
      <4>. QED BY <3>9, <3>10, <4>1, Zenon
    <3>12. K[b] \in Seq(Int) /\ Len(K[b]) = n - j
      BY <1>7, <3>2, <3>4
    <3>13. PICK s \in Seq(Int) : s = K[b] /\ Len(s) = n - j
      BY <3>12, Zenon
    <3>14. <<c>> \o s \in Seq(Int) /\ Len(<<c>> \o s) = 1 + Len(s)
      OBVIOUS
    <3>15. K[a] \in Seq(Int) /\ Len(K[a]) = 1 + Len(s)
      BY <3>11, <3>13, <3>14, Zenon
    <3>16. 1 + Len(s) = n - i
      BY <3>1, <3>13
    <3>. QED BY <3>3, <3>15, <3>16, Zenon
  <2>. QED BY <2>1, <2>2
<1>. HIDE DEF C
<1>8. \A i \in 0 .. n : i \in C
  BY <1>7, Downwards
<1>9. 0 \in 0 .. n /\ n - 0 = n
  OBVIOUS
<1>10. f[0] = 0
  BY <1>9, Zenon DEF Walk
<1>11. Len(K[0]) = n
  BY <1>8, <1>9, <1>10, Zenon DEF C
<1>. QED BY <1>1, <1>2, <1>5, <1>11, Zenon DEF str_codepoints

\* The trail begins where the text does, and has no gaps.
Chain ==
  /\ trail # <<>> => trail[1] = 0
  /\ \A i \in 1 .. Len(trail) - 1 : NextPos(text, trail[i]) = trail[i + 1]
  /\ pos >= 0 /\ trail = <<>> => pos = 0

LEMMA ForwardChain == ASSUME Inv, Chain, Forward PROVE Chain'
<1>1. PICK n : n = Len(trail)
  OBVIOUS
<1>2. trail \in Seq(0 .. Len(text) - 1) /\ pos \in 0 .. Len(text) - 1 /\ trail' = Append(trail, pos)
      /\ text' = text
  BY DEF Inv, TypeOK, Forward
<1>3. n \in Nat /\ Len(trail') = n + 1 /\ trail'[n + 1] = pos /\ \A i \in 1 .. n : trail'[i] = trail[i]
  BY <1>1, <1>2
<1>4. trail' # <<>>
  BY <1>2
<1>5. trail'[1] = 0
  <2>1. CASE trail = <<>>
    <3>1. n = 0
      BY <1>1, <2>1
    <3>. QED BY <1>2, <1>3, <2>1, <3>1 DEF Chain
  <2>2. CASE trail # <<>>
    <3>1. 1 \in 1 .. n
      BY <1>1, <1>2, <1>3, <2>2
    <3>. QED BY <1>3, <2>2, <3>1 DEF Chain
  <2>. QED BY <2>1, <2>2
<1>6. ASSUME NEW i \in 1 .. n PROVE NextPos(text, trail'[i]) = trail'[i + 1]
  <2>1. CASE i = n
    <3>1. NextPos(text, trail[n]) = pos
      <4>1. pos >= 0 /\ trail # <<>>
        BY <1>1, <1>2, <1>3, <2>1
      <4>. QED BY <1>1, <4>1 DEF Inv, Path
    <3>. QED BY <1>3, <2>1, <3>1
  <2>2. CASE i # n
    <3>1. i \in 1 .. n - 1 /\ i + 1 \in 1 .. n
      BY <1>3, <2>2
    <3>2. NextPos(text, trail[i]) = trail[i + 1]
      BY <1>1, <3>1 DEF Chain
    <3>. QED BY <1>3, <3>1, <3>2
  <2>. QED BY <2>1, <2>2
<1>7. (n + 1) - 1 = n
  BY <1>3
<1>. QED BY <1>2, <1>3, <1>4, <1>5, <1>6, <1>7 DEF Chain

LEMMA BackChain == ASSUME Inv, Chain, Back PROVE Chain'
<1>1. pos >= 0 /\ trail # <<>> /\ text' = text
  BY DEF Back
<1>2. PICK b \in [1 .. 4 -> Outside] : pos' = str_prev_codepoint(b \o text, pos + 4).pos - 4
  BY DEF Back
<1>3. trail \in Seq(0 .. Len(text) - 1)
  BY DEF Inv, TypeOK
<1>4. PICK n : n = Len(trail)
  OBVIOUS
<1>5. n \in Nat \ {0} /\ DOMAIN trail = 1 .. n
  BY <1>1, <1>3, <1>4
<1>6. trail[n] \in 0 .. pos - 1 /\ (pos' = trail[n] \/ pos' \in -3 .. -1)
  <2>1. \/ str_prev_codepoint(b \o text, pos + 4)
             = [cp |-> str_next_codepoint(text, trail[n]).cp, pos |-> trail[n] + 4]
        \/ str_prev_codepoint(b \o text, pos + 4).pos \in 1 .. 3
    BY <1>1, <1>4, Lands
  <2>2. trail[n] \in 0 .. pos - 1
    BY <1>1, <1>4, Lands
  <2>3. str_prev_codepoint(b \o text, pos + 4).pos \in {trail[n] + 4} \cup 1 .. 3
    BY <2>1
  <2>. QED BY <1>2, <2>2, <2>3
<1>7. /\ trail' \in Seq(0 .. Len(text) - 1) /\ Len(trail') = n - 1
      /\ \A i \in 1 .. n - 1 : trail'[i] = trail[i]
  <2>1. trail' = SubSeq(trail, 1, n - 1)
    BY <1>4 DEF Back
  <2>. QED BY <1>3, <1>4, <1>5, <2>1
<1>8. trail' # <<>> => trail'[1] = 0
  <2>1. HAVE trail' # <<>>
  <2>2. 1 \in 1 .. n - 1
    BY <1>5, <1>7, <2>1
  <2>. QED BY <1>1, <1>7, <2>2 DEF Chain
<1>9. ASSUME NEW i \in 1 .. (n - 1) - 1 PROVE NextPos(text, trail'[i]) = trail'[i + 1]
  <2>1. i \in 1 .. n - 1 /\ i + 1 \in 1 .. n - 1
    BY <1>5
  <2>2. NextPos(text, trail[i]) = trail[i + 1]
    BY <1>4, <2>1 DEF Chain
  <2>. QED BY <1>7, <2>1, <2>2
<1>10. pos' >= 0 /\ trail' = <<>> => pos' = 0
  <2>1. HAVE pos' >= 0 /\ trail' = <<>>
  <2>2. n = 1 /\ pos' \notin -3 .. -1
    BY <1>5, <1>7, <2>1
  <2>. QED BY <1>1, <1>6, <2>2 DEF Chain
<1>. QED BY <1>1, <1>7, <1>8, <1>9, <1>10 DEF Chain

LEMMA ChainInvariant == Spec => [](Inv /\ Chain)
<1>1. Init => Chain
  BY DEF Init, Chain
<1>2. Inv /\ Chain /\ [Next]_vars => Chain'
  <2>1. ASSUME Inv, Chain, UNCHANGED vars PROVE Chain'
    BY <2>1 DEF vars, Chain
  <2>. QED BY <2>1, ForwardChain, BackChain DEF Next
<1>. QED BY <1>1, <1>2, Invariant, PTL DEF Spec

LEMMA Halves ==
  ASSUME NEW t \in Seq(NonZero), NEW e \in 0 .. Len(t)
  PROVE  SubSeq(t, 1, e) \o SubSeq(t, e + 1, Len(t)) = t
<1>1. Len(t) \in Nat
  OBVIOUS
<1>2. 1 \in 1 .. Len(t) + 1 /\ e \in 1 - 1 .. Len(t) /\ Len(t) \in e .. Len(t)
  BY <1>1
<1>3. SubSeq(t, 1, e) \o SubSeq(t, e + 1, Len(t)) = SubSeq(t, 1, Len(t))
  BY <1>2, ConcatAdjacentSubSeq
<1>. QED BY <1>3, SubSeqFull

\* The trail is where the steps from the beginning lead.
LEMMA TrailWalks ==
  ASSUME Inv, Chain, NEW n, n = Len(trail)
  PROVE  /\ text \in Seq(NonZero) /\ n \in Nat
         /\ \E f \in [0 .. n -> 0 .. Len(text)] :
              Walk(text, 0, n, f) /\ \A i \in 0 .. n - 1 : f[i] < Len(text)
<1>1. text \in Seq(NonZero) /\ trail \in Seq(0 .. Len(text) - 1)
  BY Text DEF Inv, TypeOK
<1>2. n \in Nat /\ \A i \in 1 .. n : trail[i] \in 0 .. Len(text) - 1
  BY <1>1
<1>3. Len(text) \in Nat /\ 0 \in 0 .. Len(text)
  BY <1>1
<1>4. PICK f \in [0 .. n -> 0 .. Len(text)] : Walk(text, 0, n, f)
  BY <1>1, <1>2, <1>3, WalkExists
<1>. DEFINE C == {i \in 0 .. n : i < n => f[i] = trail[i + 1]}
<1>5. ASSUME NEW i \in 0 .. n, \A q \in 0 .. i - 1 : q \in C PROVE i \in C
  <2>1. f[i] = IF i = 0 THEN 0 ELSE NextPos(text, f[i - 1])
    BY <1>4, Zenon DEF Walk
  <2>2. CASE i = 0
    <3>1. i < n => trail # <<>> /\ i + 1 = 1
      BY <1>1, <1>2, <2>2
    <3>. QED BY <2>1, <2>2, <3>1, Zenon DEF Chain
  <2>3. CASE i # 0
    <3>1. SUFFICES ASSUME i < n PROVE f[i] = trail[i + 1]
      OBVIOUS
    <3>2. PICK j : j = i - 1
      OBVIOUS
    <3>3. j \in 0 .. i - 1 /\ j < n /\ j + 1 = i /\ i \in 1 .. Len(trail) - 1
      BY <1>2, <2>3, <3>1, <3>2
    <3>4. f[j] = trail[i]
      BY <1>5, <3>3
    <3>5. NextPos(text, trail[i]) = trail[i + 1]
      BY <3>3, Zenon DEF Chain
    <3>. QED BY <2>1, <2>3, <3>2, <3>4, <3>5, Zenon
  <2>. QED BY <2>2, <2>3
<1>. HIDE DEF C
<1>6. \A i \in 0 .. n : i \in C
  BY <1>2, <1>5, Upwards
<1>7. ASSUME NEW i \in 0 .. n - 1 PROVE f[i] < Len(text)
  <2>1. i \in 0 .. n /\ i < n /\ i + 1 \in 1 .. n
    BY <1>2
  <2>2. f[i] = trail[i + 1]
    BY <1>6, <2>1 DEF C
  <2>. QED BY <1>2, <1>3, <2>1, <2>2
<1>. QED BY <1>1, <1>2, <1>4, <1>7

LEMMA CodepointCuts ==
  ASSUME Inv, Chain
  PROVE  /\ str_codepoints(str_substr_codepoint(text, 0, Len(trail))) = Len(trail)
         /\ str_substr_codepoint(text, 0, Len(trail)) \o str_substr_codepoint(text, Len(trail), Len(text)) = text
<1>1. PICK n : n = Len(trail)
  OBVIOUS
<1>2. text \in Seq(NonZero) /\ n \in Nat
  BY <1>1, TrailWalks
<1>3. PICK f \in [0 .. n -> 0 .. Len(text)] :
              Walk(text, 0, n, f) /\ \A i \in 0 .. n - 1 : f[i] < Len(text)
  BY <1>1, TrailWalks
<1>4. 0 \in 0 .. n /\ n \in 0 .. n /\ 0 + 1 = 1
  BY <1>2
<1>5. Skip(text, 0, 0) = 0
  <2>1. Skip(text, 0, 0) = f[0]
    BY <1>2, <1>3, <1>4, SkipIs
  <2>2. f[0] = 0
    BY <1>3, <1>4, Zenon DEF Walk
  <2>. QED BY <2>1, <2>2
<1>6. PICK e \in 0 .. Len(text) : e = f[n]
  BY <1>3, <1>4
<1>7. Skip(text, 0, n) = e
  BY <1>2, <1>3, <1>4, <1>6, SkipIs
<1>8. Skip(text, e, Len(text)) = Len(text)
  BY <1>2, SkipAll
<1>9. str_substr_codepoint(text, 0, n) = SubSeq(text, 1, e)
  BY <1>4, <1>5, <1>7, Zenon DEF str_substr_codepoint
<1>10. str_substr_codepoint(text, n, Len(text)) = SubSeq(text, e + 1, Len(text))
  BY <1>7, <1>8, Zenon DEF str_substr_codepoint
<1>11. str_codepoints(SubSeq(text, 1, e)) = n
  BY <1>2, <1>3, <1>6, CutCodepoints
<1>12. SubSeq(text, 1, e) \o SubSeq(text, e + 1, Len(text)) = text
  BY <1>2, Halves
<1>. QED BY <1>1, <1>9, <1>10, <1>11, <1>12

-----------------------------------------------------------------------------
(* Where a cluster ends *)

Cp(t, p) == str_next_codepoint(t, p).cp

LEMMA SomeCodepoint ==
  ASSUME NEW t \in Seq(NonZero), NEW p \in Nat, p < Len(t)
  PROVE  Cp(t, p) # 0
<1>0. At(t, p) # 0
  BY AtInside
<1>1. CASE Ascii(At(t, p))
  <2>1. str_next_codepoint(t, p) = [cp |-> At(t, p), pos |-> p + 1]
    BY <1>1, NextAscii
  <2>. QED BY <1>0, <2>1 DEF Cp
<1>2. CASE IsSequence(t, p)
  <2>1. str_next_codepoint(t, p) = [cp |-> Assemble(t, p), pos |-> p + Extra(At(t, p)) + 1]
    BY <1>2, NextSequence
  <2>2. Cp(t, p) = Assemble(t, p)
    BY <2>1 DEF Cp
  <2>3. PICK x : x = Extra(At(t, p))
    OBVIOUS
  <2>4. x \in {1, 2, 3}
    <3>1. x \in 0 .. 3
      BY <2>3, ExtraBounds
    <3>2. x > 0
      BY <1>2, <2>3 DEF IsSequence
    <3>. QED BY <3>1, <3>2
  <2>5. PICK c : c = Assemble(t, p)
    OBVIOUS
  <2>6. c >= MinCodepoint(x) /\ codepoint_is_valid_scalar(c)
    BY <1>2, <2>3, <2>5, Zenon DEF IsSequence
  <2>7. MinCodepoint(x) \in Int /\ MinCodepoint(x) > 0
    BY <2>4, SMT DEF MinCodepoint
  <2>8. c \in Int
    BY <2>6, SMT DEF codepoint_is_valid_scalar
  <2>9. c # 0
    BY <2>6, <2>7, <2>8
  <2>. QED BY <2>2, <2>5, <2>9
<1>3. CASE ~IsChar(t, p)
  <2>1. str_next_codepoint(t, p) = Replacement(p)
    BY <1>0, <1>3, NextOther
  <2>2. Cp(t, p) = UTF8_REPLACEMENT_CHAR
    BY <2>1 DEF Cp, Replacement
  <2>. QED BY <2>2, SMT DEF UTF8_REPLACEMENT_CHAR
<1>. QED BY <1>1, <1>2, <1>3 DEF IsChar

\* A position of the text before e is decoded alike, or as the beginning of nothing.
LEMMA PrefixAt ==
  ASSUME NEW t, NEW u, NEW e, Prefix(t, u, e), NEW p \in 0 .. e
  PROVE  \/ Kept(t, u, p) /\ NextPos(t, p) <= e
         \/ NextPos(t, p) > e /\ Inert(Cp(u, p))
<1>0. /\ t \in Seq(NonZero) /\ u \in Seq(NonZero) /\ e \in Nat /\ e <= Len(t) /\ Len(u) = e
      /\ p \in Nat /\ p <= e /\ p \in 0 .. Len(t)
  BY DEF Prefix
<1>1. NextPos(t, p) \in 0 .. Len(t)
  BY <1>0, NextIn
<1>2. CASE NextPos(t, p) > e
  BY <1>0, <1>2, CutInert DEF Cp
<1>3. CASE ~(NextPos(t, p) > e)
  <2>1. NextPos(t, p) <= e
    BY <1>0, <1>1, <1>3
  <2>2. CASE p = Len(t)
    <3>1. p = Len(u)
      BY <1>0, <2>2
    <3>2. str_next_codepoint(t, p) = [cp |-> 0, pos |-> p]
      BY <1>0, <2>2, TextEnd, Zenon
    <3>3. str_next_codepoint(u, p) = [cp |-> 0, pos |-> p]
      BY <1>0, <3>1, TextEnd, Zenon
    <3>. QED BY <2>1, <3>2, <3>3, Zenon DEF Kept
  <2>3. CASE p # Len(t)
    <3>1. p < NextPos(t, p)
      BY <1>0, <2>3, NextIn
    <3>2. p < e
      BY <1>0, <1>1, <2>1, <3>1
    <3>. QED BY <1>0, <2>1, <3>2, KeptBefore
  <2>. QED BY <2>2, <2>3
<1>. QED BY <1>2, <1>3

\* A joiner that has something to join.
Glued(t, q) == Cp(t, q) = GRAPHEME_CLUSTER_ZWJ /\ Cp(t, NextPos(t, q)) # 0

\* Behind what belongs to the cluster that goes on at q, if anything there does.
Joined(t, q) ==
  IF Attaches(Cp(t, q)) THEN NextPos(t, q)
  ELSE IF Glued(t, q) THEN NextPos(t, NextPos(t, q)) ELSE q

LEMMA JoinedIn ==
  ASSUME NEW t \in Seq(NonZero), NEW q \in 0 .. Len(t)
  PROVE  /\ Joined(t, q) \in 0 .. Len(t) /\ q <= Joined(t, q)
         /\ Attaches(Cp(t, q)) => NextPos(t, q) = Joined(t, q)
         /\ Glued(t, q) => NextPos(t, q) <= Joined(t, q)
         /\ Attaches(Cp(t, q)) \/ Glued(t, q) => Joined(t, q) # q
<1>0. Len(t) \in Nat
  OBVIOUS
<1>1. PICK r \in 0 .. Len(t) : r = NextPos(t, q)
  BY NextIn
<1>2. q <= r /\ (q # Len(t) => q < r) /\ (q = Len(t) => Cp(t, q) = 0)
  BY <1>1, NextIn DEF Cp
<1>3. PICK s \in 0 .. Len(t) : s = NextPos(t, r)
  BY NextIn
<1>4. r <= s
  BY <1>3, NextIn
<1>5. CASE Attaches(Cp(t, q))
  <2>1. Cp(t, q) # 0
    BY <1>5, NoneInert DEF Inert
  <2>2. Joined(t, q) = r
    BY <1>1, <1>5, Zenon DEF Joined
  <2>3. Glued(t, q) => r <= r
    BY <1>0
  <2>. QED BY <1>0, <1>1, <1>2, <1>5, <2>1, <2>2, <2>3
<1>6. CASE ~Attaches(Cp(t, q)) /\ Glued(t, q)
  <2>1. Cp(t, q) # 0
    BY <1>6, NoneInert DEF Inert, Glued
  <2>2. Joined(t, q) = s
    BY <1>1, <1>3, <1>6, Zenon DEF Joined
  <2>. QED BY <1>0, <1>1, <1>2, <1>3, <1>4, <1>6, <2>1, <2>2
<1>7. CASE ~Attaches(Cp(t, q)) /\ ~Glued(t, q)
  <2>1. Joined(t, q) = q
    BY <1>7, Zenon DEF Joined
  <2>. QED BY <1>0, <1>7, <2>1
<1>. QED BY <1>5, <1>6, <1>7

LEMMA JoinedKept ==
  ASSUME NEW t, NEW u, NEW e, Prefix(t, u, e), NEW q \in 0 .. e, Joined(t, q) <= e
  PROVE  Joined(u, q) = Joined(t, q)
<1>0. /\ t \in Seq(NonZero) /\ u \in Seq(NonZero) /\ e \in Nat /\ e <= Len(t) /\ Len(u) = e
      /\ q \in 0 .. Len(t) /\ Len(t) \in Nat
  BY DEF Prefix
<1>1. PICK r \in 0 .. Len(t) : r = NextPos(t, q)
  BY <1>0, NextIn
<1>2. PICK j \in 0 .. Len(t) : j = Joined(t, q)
  BY <1>0, JoinedIn
<1>3. CASE r > e
  <2>1. Inert(Cp(u, q))
    BY <1>0, <1>1, <1>3, PrefixAt
  <2>2. ~Attaches(Cp(t, q)) /\ ~Glued(t, q)
    <3>1. Attaches(Cp(t, q)) \/ Glued(t, q) => r <= j
      BY <1>0, <1>1, <1>2, JoinedIn
    <3>. QED BY <1>0, <1>2, <1>3, <3>1
  <2>3. ~Attaches(Cp(u, q)) /\ ~Glued(u, q)
    BY <2>1, Zenon DEF Inert, Glued
  <2>. QED BY <2>2, <2>3, Zenon DEF Joined
<1>4. CASE ~(r > e)
  <2>0. r \in 0 .. e /\ r <= e
    BY <1>0, <1>4
  <2>1. Kept(t, u, q)
    BY <1>1, <1>4, PrefixAt
  <2>2. Cp(u, q) = Cp(t, q) /\ NextPos(u, q) = r
    BY <1>1, <2>1, Zenon DEF Kept, Cp, NextPos
  <2>3. CASE Attaches(Cp(t, q))
    BY <1>1, <2>2, <2>3, Zenon DEF Joined
  <2>4. CASE ~Attaches(Cp(t, q)) /\ Glued(t, q)
    <3>1. NextPos(t, r) <= e
      <4>1. Joined(t, q) = NextPos(t, r)
        BY <1>1, <2>4, Zenon DEF Joined
      <4>. QED BY <4>1
    <3>2. NextPos(t, r) \in 0 .. Len(t)
      BY <1>0, NextIn
    <3>3. ~(NextPos(t, r) > e)
      BY <1>0, <3>1, <3>2
    <3>4. Kept(t, u, r)
      BY <2>0, <3>3, PrefixAt
    <3>5. Cp(u, r) = Cp(t, r) /\ NextPos(u, r) = NextPos(t, r)
      BY <3>4, Zenon DEF Kept, Cp, NextPos
    <3>6. Glued(u, q)
      BY <1>1, <2>2, <2>4, <3>5, Zenon DEF Glued
    <3>7. Joined(t, q) = NextPos(t, r)
      BY <1>1, <2>4, Zenon DEF Joined
    <3>8. Joined(u, q) = NextPos(u, r)
      BY <2>2, <2>4, <3>6, Zenon DEF Joined
    <3>. QED BY <3>5, <3>7, <3>8
  <2>5. CASE ~Attaches(Cp(t, q)) /\ ~Glued(t, q)
    <3>1. ~Glued(u, q)
      <4>1. SUFFICES ASSUME Cp(t, q) = GRAPHEME_CLUSTER_ZWJ, Cp(u, r) # 0 PROVE FALSE
        BY <2>2, Zenon DEF Glued
      <4>2. Cp(t, r) = 0
        BY <1>1, <2>5, <4>1, Zenon DEF Glued
      <4>3. ~(r < Len(t))
        BY <1>0, <4>2, SomeCodepoint
      <4>4. r = Len(u)
        BY <1>0, <2>0, <4>3
      <4>5. str_next_codepoint(u, r) = [cp |-> 0, pos |-> r]
        BY <1>0, <4>4, TextEnd, Zenon
      <4>. QED BY <4>1, <4>5 DEF Cp
    <3>. QED BY <2>2, <2>5, <3>1, Zenon DEF Joined
  <2>. QED BY <2>3, <2>4, <2>5
<1>. QED BY <1>3, <1>4

Ends(t, E) ==
  /\ E \in [0 .. Len(t) -> 0 .. Len(t)]
  /\ \A q \in 0 .. Len(t) : E[q] = IF Joined(t, q) = q THEN q ELSE E[Joined(t, q)]

LEMMA EndsExist ==
  ASSUME NEW t \in Seq(NonZero)
  PROVE  \E E : Ends(t, E)
<1>. DEFINE n  == Len(t)
            V  == 0 .. n
            nx == [p \in 0 .. n - 1 |-> IF Joined(t, p) = p THEN p + 1 ELSE Joined(t, p)]
            F  == [p \in 0 .. n - 1 |-> [v \in V |-> IF Joined(t, p) = p THEN p ELSE v]]
<1>1. n \in Nat /\ n \in V /\ \A p \in 0 .. n - 1 : p \in V
  OBVIOUS
<1>2. ASSUME NEW p \in 0 .. n - 1 PROVE nx[p] \in p + 1 .. n
  <2>1. nx[p] = IF Joined(t, p) = p THEN p + 1 ELSE Joined(t, p)
    OBVIOUS
  <2>2. Joined(t, p) \in 0 .. n /\ p <= Joined(t, p)
    BY <1>1, JoinedIn
  <2>. HIDE DEF nx
  <2>. QED BY <1>1, <2>1, <2>2
<1>3. \A p \in 0 .. n - 1, v \in V : F[p][v] = IF Joined(t, p) = p THEN p ELSE v
  BY Zenon
<1>. HIDE DEF F
<1>4. \A p \in 0 .. n - 1, v \in V : F[p][v] \in V
  BY <1>1, <1>3, Zenon
<1>5. \A p \in 0 .. n - 1 : Joined(t, p) # p => nx[p] = Joined(t, p)
  BY Zenon
<1>. HIDE DEF nx
<1>6. Recursive(n, V, n, nx, F)
  BY <1>1, <1>2, <1>4 DEF Recursive
<1>7. PICK h : Recurs(h, n, V, n, nx, F)
  BY <1>6, Recursion, Zenon
<1>8. h \in [0 .. n -> V] /\ \A p \in 0 .. n : h[p] = IF p = n THEN n ELSE F[p][h[nx[p]]]
  BY <1>7, Zenon DEF Recurs
<1>9. ASSUME NEW q \in 0 .. n PROVE h[q] = IF Joined(t, q) = q THEN q ELSE h[Joined(t, q)]
  <2>1. CASE q = n
    <3>1. Joined(t, q) = q
      <4>1. Joined(t, n) \in 0 .. n /\ n <= Joined(t, n)
        BY <1>1, JoinedIn
      <4>. QED BY <1>1, <2>1, <4>1
    <3>. QED BY <1>8, <2>1, <3>1, Zenon
  <2>2. CASE q # n
    <3>1. q \in 0 .. n - 1
      BY <1>1, <2>2
    <3>2. nx[q] \in 0 .. n
      BY <1>1, <1>2, <3>1
    <3>3. h[nx[q]] \in V
      BY <1>8, <3>2, Zenon
    <3>4. h[q] = IF Joined(t, q) = q THEN q ELSE h[nx[q]]
      BY <1>3, <1>8, <2>2, <3>1, <3>3, Zenon
    <3>. QED BY <1>5, <3>1, <3>4, Zenon
  <2>. QED BY <2>1, <2>2
<1>. QED BY <1>8, <1>9, Zenon DEF Ends

LEMMA EndsRise ==
  ASSUME NEW t \in Seq(NonZero), NEW E, Ends(t, E)
  PROVE  \A q \in 0 .. Len(t) : q <= E[q]
<1>. DEFINE n == Len(t)
            C == {q \in 0 .. n : q <= E[q]}
<1>1. n \in Nat
  OBVIOUS
<1>2. ASSUME NEW q \in 0 .. n, \A r \in q + 1 .. n : r \in C PROVE q \in C
  <2>1. PICK j \in 0 .. n : j = Joined(t, q) /\ q <= j
    BY JoinedIn
  <2>2. E[q] = IF j = q THEN q ELSE E[j]
    BY <2>1, Zenon DEF Ends
  <2>3. PICK a \in 0 .. n, b \in 0 .. n : a = E[q] /\ b = E[j]
    BY <2>1 DEF Ends
  <2>4. CASE j = q
    <3>1. q <= a
      BY <2>2, <2>3, <2>4
    <3>. QED BY <2>3, <3>1
  <2>5. CASE j # q
    <3>1. j \in q + 1 .. n
      BY <1>1, <2>1, <2>5
    <3>2. j <= b /\ a = b
      BY <1>2, <2>2, <2>3, <2>5, <3>1
    <3>3. q <= a
      <4>. HIDE DEF n
      <4>. QED BY <2>1, <3>2
    <3>. QED BY <2>3, <3>3
  <2>. QED BY <2>4, <2>5
<1>. HIDE DEF C, n
<1>3. \A q \in 0 .. n : q \in C
  BY <1>1, <1>2, Downwards
<1>. QED BY <1>3 DEF C, n

LEMMA ExtendedIs ==
  ASSUME NEW t \in Seq(NonZero), NEW E, Ends(t, E), NEW p \in 0 .. Len(t)
  PROVE  ExtendedTo(t, p) = E[p]
<1>. DEFINE n == Len(t)
            at == Decoded(t)
            Step(f) == [q \in 0 .. Len(t) |->
                          LET next == at[q]
                          IN  IF Attaches(next.cp) THEN f[next.pos]
                              ELSE IF next.cp = GRAPHEME_CLUSTER_ZWJ /\ at[next.pos].cp # 0
                                   THEN f[at[next.pos].pos]
                              ELSE q]
            end == CHOOSE f : f = Step(f)
<1>1. ExtendedTo(t, p) = end[p]
  BY Zenon DEF ExtendedTo
<1>2. n \in Nat
  OBVIOUS
<1>3. ASSUME NEW f, NEW q \in 0 .. n PROVE Step(f)[q] = IF Joined(t, q) = q THEN q ELSE f[Joined(t, q)]
  <2>1. \A r \in 0 .. n : at[r].cp = Cp(t, r) /\ at[r].pos = NextPos(t, r)
    BY Zenon DEF Decoded, Cp, NextPos
  <2>2. NextPos(t, q) \in 0 .. n
    BY NextIn
  <2>3. /\ at[q].cp = Cp(t, q) /\ at[q].pos = NextPos(t, q)
        /\ at[at[q].pos].cp = Cp(t, NextPos(t, q))
        /\ at[at[q].pos].pos = NextPos(t, NextPos(t, q))
    BY <2>1, <2>2, Zenon
  <2>4. Step(f)[q] = IF Attaches(at[q].cp) THEN f[at[q].pos]
                     ELSE IF at[q].cp = GRAPHEME_CLUSTER_ZWJ /\ at[at[q].pos].cp # 0
                          THEN f[at[at[q].pos].pos]
                     ELSE q
    BY Zenon
  <2>5. Attaches(Cp(t, q)) \/ Glued(t, q) => Joined(t, q) # q
    BY JoinedIn
  <2>. HIDE DEF Step, at
  <2>6. CASE Attaches(Cp(t, q))
    <3>1. Step(f)[q] = f[NextPos(t, q)]
      BY <2>3, <2>4, <2>6, Zenon
    <3>2. Joined(t, q) = NextPos(t, q)
      BY <2>6, Zenon DEF Joined
    <3>. QED BY <2>5, <2>6, <3>1, <3>2, Zenon
  <2>7. CASE ~Attaches(Cp(t, q)) /\ Glued(t, q)
    <3>1. Step(f)[q] = f[NextPos(t, NextPos(t, q))]
      BY <2>3, <2>4, <2>7, Zenon DEF Glued
    <3>2. Joined(t, q) = NextPos(t, NextPos(t, q))
      BY <2>7, Zenon DEF Joined
    <3>. QED BY <2>5, <2>7, <3>1, <3>2, Zenon
  <2>8. CASE ~Attaches(Cp(t, q)) /\ ~Glued(t, q)
    <3>1. Step(f)[q] = q
      BY <2>3, <2>4, <2>8, Zenon DEF Glued
    <3>2. Joined(t, q) = q
      BY <2>8, Zenon DEF Joined
    <3>. QED BY <3>1, <3>2, Zenon
  <2>. QED BY <2>6, <2>7, <2>8
<1>4. \A f : Step(f) = [q \in 0 .. n |-> Step(f)[q]]
  BY Zenon
<1>. HIDE DEF Step
<1>5. E = Step(E)
  <2>1. E = [q \in 0 .. n |-> E[q]]
    BY DEF Ends
  <2>2. \A q \in 0 .. n : E[q] = Step(E)[q]
    BY <1>3, Zenon DEF Ends
  <2>3. [q \in 0 .. n |-> E[q]] = [q \in 0 .. n |-> Step(E)[q]]
    BY <2>2, Zenon
  <2>. QED BY <1>4, <2>1, <2>3, Zenon
<1>6. end = Step(end)
  BY <1>5, Zenon
<1>. HIDE DEF end
<1>7. \A q \in 0 .. n : end[q] = IF Joined(t, q) = q THEN q ELSE end[Joined(t, q)]
  BY <1>3, <1>6, Zenon
<1>. DEFINE C == {q \in 0 .. n : end[q] = E[q]}
<1>8. ASSUME NEW q \in 0 .. n, \A r \in q + 1 .. n : r \in C PROVE q \in C
  <2>1. PICK j \in 0 .. n : j = Joined(t, q) /\ q <= j
    BY JoinedIn
  <2>2. E[q] = IF j = q THEN q ELSE E[j]
    BY <2>1, Zenon DEF Ends
  <2>3. end[q] = IF j = q THEN q ELSE end[j]
    BY <1>7, <2>1, Zenon
  <2>4. CASE j = q
    BY <2>2, <2>3, <2>4
  <2>5. CASE j # q
    <3>1. j \in q + 1 .. n
      BY <1>2, <2>1, <2>5
    <3>2. end[j] = E[j]
      BY <1>8, <3>1, Zenon
    <3>. QED BY <2>2, <2>3, <2>5, <3>2
  <2>. QED BY <2>4, <2>5
<1>. HIDE DEF C, n
<1>9. \A q \in 0 .. n : q \in C
  BY <1>2, <1>8, Downwards
<1>10. p \in 0 .. n
  BY DEF n
<1>. QED BY <1>1, <1>9, <1>10, Zenon DEF C

\* A cluster that ends in the text before e ends there for that text alone, too.
LEMMA EndsKept ==
  ASSUME NEW t, NEW u, NEW e, Prefix(t, u, e), NEW D, Ends(t, D), NEW E, Ends(u, E)
  PROVE  \A q \in 0 .. e : D[q] <= e => E[q] = D[q]
<1>0. /\ t \in Seq(NonZero) /\ u \in Seq(NonZero) /\ e \in Nat /\ e <= Len(t) /\ Len(u) = e
      /\ Len(t) \in Nat
  BY DEF Prefix
<1>. DEFINE C == {q \in 0 .. e : D[q] <= e => E[q] = D[q]}
<1>1. ASSUME NEW q \in 0 .. e, \A r \in q + 1 .. e : r \in C PROVE q \in C
  <2>1. SUFFICES ASSUME D[q] <= e PROVE E[q] = D[q]
    OBVIOUS
  <2>2. q \in 0 .. Len(t) /\ q \in 0 .. Len(u)
    BY <1>0
  <2>3. PICK j \in 0 .. Len(t) : j = Joined(t, q) /\ q <= j
    BY <1>0, <2>2, JoinedIn
  <2>4. D[q] = IF j = q THEN q ELSE D[j]
    BY <2>2, <2>3, Zenon DEF Ends
  <2>5. PICK a \in 0 .. Len(t), b \in 0 .. Len(t) : a = D[q] /\ b = D[j] /\ j <= b
    <3>1. D[q] \in 0 .. Len(t) /\ D[j] \in 0 .. Len(t)
      BY <2>2 DEF Ends
    <3>. QED BY <1>0, <3>1, EndsRise
  <2>6. j <= e
    <3>1. a <= e /\ a = IF j = q THEN q ELSE b
      BY <2>1, <2>4, <2>5, Zenon
    <3>2. j = q \/ j <= a
      BY <2>5, <3>1
    <3>. QED BY <1>0, <3>1, <3>2
  <2>7. Joined(u, q) = j
    BY <2>3, <2>6, JoinedKept
  <2>8. E[q] = IF j = q THEN q ELSE E[j]
    BY <2>2, <2>7, Zenon DEF Ends
  <2>9. CASE j = q
    BY <2>4, <2>8, <2>9, Zenon
  <2>10. CASE j # q
    <3>1. j \in q + 1 .. e
      BY <1>0, <2>3, <2>6, <2>10
    <3>2. D[j] <= e
      BY <2>1, <2>4, <2>10, Zenon
    <3>3. E[j] = D[j]
      BY <1>1, <3>1, <3>2, Zenon
    <3>. QED BY <2>4, <2>8, <2>10, <3>3, Zenon
  <2>. QED BY <2>9, <2>10
<1>. HIDE DEF C
<1>2. \A q \in 0 .. e : q \in C
  BY <1>0, <1>1, Downwards
<1>. QED BY <1>2 DEF C

-----------------------------------------------------------------------------
(* One cluster after the other *)

LEMMA GraphemeIs ==
  ASSUME NEW t \in Seq(NonZero), NEW p \in 0 .. Len(t)
  PROVE  str_next_grapheme(t, p) =
           IF ~Closed(Cp(t, p)) THEN ExtendedTo(t, NextPos(t, p))
           ELSE IF Pairs(Cp(t, p), Cp(t, NextPos(t, p))) THEN NextPos(t, NextPos(t, p))
           ELSE NextPos(t, p)
<1>. DEFINE first == Decoded(t)[p]
            next  == Decoded(t)[first.pos]
<1>1. \A r \in 0 .. Len(t) : Decoded(t)[r].cp = Cp(t, r) /\ Decoded(t)[r].pos = NextPos(t, r)
  BY Zenon DEF Decoded, Cp, NextPos
<1>2. NextPos(t, p) \in 0 .. Len(t)
  BY NextIn
<1>3. /\ first.cp = Cp(t, p) /\ first.pos = NextPos(t, p)
      /\ next.cp = Cp(t, NextPos(t, p)) /\ next.pos = NextPos(t, NextPos(t, p))
  BY <1>1, <1>2, Zenon
<1>4. str_next_grapheme(t, p) = IF ~Closed(first.cp) THEN ExtendedTo(t, first.pos)
                                ELSE IF Pairs(first.cp, next.cp) THEN next.pos
                                ELSE first.pos
  BY Zenon DEF str_next_grapheme
<1>. HIDE DEF first, next
<1>. QED BY <1>3, <1>4, Zenon

LEMMA GraphemeIn ==
  ASSUME NEW t \in Seq(NonZero), NEW p \in 0 .. Len(t) - 1
  PROVE  str_next_grapheme(t, p) \in p + 1 .. Len(t) /\ NextPos(t, p) <= str_next_grapheme(t, p)
<1>0. Len(t) \in Nat /\ p \in 0 .. Len(t) /\ p # Len(t)
  OBVIOUS
<1>1. PICK r \in 0 .. Len(t) : r = NextPos(t, p) /\ p < r
  BY <1>0, NextIn
<1>2. PICK s \in 0 .. Len(t) : s = NextPos(t, r) /\ r <= s
  BY NextIn
<1>3. PICK E : Ends(t, E)
  BY EndsExist
<1>4. PICK x \in 0 .. Len(t) : x = ExtendedTo(t, r) /\ r <= x
  <2>1. E[r] \in 0 .. Len(t) /\ r <= E[r]
    BY <1>3, EndsRise DEF Ends
  <2>. QED BY <1>3, <2>1, ExtendedIs
<1>5. str_next_grapheme(t, p) \in {r, s, x}
  <2>1. str_next_grapheme(t, p) =
           IF ~Closed(Cp(t, p)) THEN ExtendedTo(t, r)
           ELSE IF Pairs(Cp(t, p), Cp(t, r)) THEN NextPos(t, r) ELSE r
    BY <1>0, <1>1, GraphemeIs, Zenon
  <2>2. \/ str_next_grapheme(t, p) = x
        \/ str_next_grapheme(t, p) = s
        \/ str_next_grapheme(t, p) = r
    BY <1>2, <1>4, <2>1, Zenon
  <2>. QED BY <2>2, Zenon
<1>6. \A y \in {r, s, x} : y \in p + 1 .. Len(t) /\ r <= y
  BY <1>0, <1>1, <1>2, <1>4
<1>. QED BY <1>1, <1>5, <1>6, Zenon

LEMMA GraphemeKept ==
  ASSUME NEW t, NEW u, NEW e, Prefix(t, u, e), NEW p \in 0 .. e - 1, str_next_grapheme(t, p) <= e
  PROVE  str_next_grapheme(u, p) = str_next_grapheme(t, p)
<1>0. /\ t \in Seq(NonZero) /\ u \in Seq(NonZero) /\ e \in Nat /\ e <= Len(t) /\ Len(u) = e
      /\ Len(t) \in Nat /\ p \in 0 .. Len(t) - 1 /\ p \in 0 .. Len(t) /\ p \in 0 .. Len(u) /\ p \in 0 .. e
  BY DEF Prefix
<1>1. PICK g \in 0 .. Len(t) : g = str_next_grapheme(t, p) /\ NextPos(t, p) <= g
  <2>1. str_next_grapheme(t, p) \in p + 1 .. Len(t) /\ NextPos(t, p) <= str_next_grapheme(t, p)
    BY <1>0, GraphemeIn
  <2>2. str_next_grapheme(t, p) \in 0 .. Len(t)
    BY <1>0, <2>1
  <2>. QED BY <2>1, <2>2
<1>2. PICK r \in 0 .. Len(t) : r = NextPos(t, p)
  BY <1>0, NextIn
<1>3. r \in 0 .. e /\ ~(r > e)
  BY <1>0, <1>1, <1>2
<1>4. Kept(t, u, p)
  BY <1>0, <1>2, <1>3, PrefixAt
<1>5. Cp(u, p) = Cp(t, p) /\ NextPos(u, p) = r
  BY <1>2, <1>4, Zenon DEF Kept, Cp, NextPos
<1>6. g = IF ~Closed(Cp(t, p)) THEN ExtendedTo(t, r)
          ELSE IF Pairs(Cp(t, p), Cp(t, r)) THEN NextPos(t, r) ELSE r
  BY <1>0, <1>1, <1>2, GraphemeIs, Zenon
<1>7. str_next_grapheme(u, p) =
          IF ~Closed(Cp(t, p)) THEN ExtendedTo(u, r)
          ELSE IF Pairs(Cp(t, p), Cp(u, r)) THEN NextPos(u, r) ELSE r
  BY <1>0, <1>5, GraphemeIs, Zenon
<1>8. CASE ~Closed(Cp(t, p))
  <2>1. PICK D : Ends(t, D)
    BY <1>0, EndsExist
  <2>2. PICK E : Ends(u, E)
    BY <1>0, EndsExist
  <2>3. D[r] = g
    BY <1>0, <1>6, <1>8, <2>1, ExtendedIs, Zenon
  <2>4. D[r] <= e
    BY <1>1, <2>3
  <2>5. E[r] = D[r]
    <3>1. \A q \in 0 .. e : D[q] <= e => E[q] = D[q]
      BY <2>1, <2>2, EndsKept
    <3>. QED BY <1>3, <2>4, <3>1
  <2>6. r \in 0 .. Len(u)
    BY <1>0, <1>3
  <2>7. ExtendedTo(u, r) = E[r]
    BY <1>0, <2>2, <2>6, ExtendedIs
  <2>. QED BY <1>1, <1>7, <1>8, <2>3, <2>5, <2>7, Zenon
<1>9. CASE Closed(Cp(t, p))
  <2>1. CASE NextPos(t, r) > e
    <3>1. ~Pairs(Cp(t, p), Cp(u, r))
      <4>1. Inert(Cp(u, r))
        <5>1. NextPos(t, r) \in 0 .. Len(t)
          BY <1>0, NextIn
        <5>2. ~(NextPos(t, r) <= e)
          BY <1>0, <2>1, <5>1
        <5>. QED BY <1>3, <5>2, PrefixAt
      <4>. QED BY <4>1, InertPairs, Zenon
    <3>2. ~Pairs(Cp(t, p), Cp(t, r))
      <4>1. SUFFICES ASSUME Pairs(Cp(t, p), Cp(t, r)) PROVE FALSE
        OBVIOUS
      <4>2. g = NextPos(t, r)
        BY <1>6, <1>9, <4>1, Zenon
      <4>. QED BY <1>0, <1>1, <2>1, <4>2
    <3>. QED BY <1>1, <1>6, <1>7, <1>9, <3>1, <3>2, Zenon
  <2>2. CASE ~(NextPos(t, r) > e)
    <3>1. Kept(t, u, r)
      BY <1>3, <2>2, PrefixAt
    <3>2. Cp(u, r) = Cp(t, r) /\ NextPos(u, r) = NextPos(t, r)
      BY <3>1, Zenon DEF Kept, Cp, NextPos
    <3>. QED BY <1>1, <1>6, <1>7, <1>9, <3>2, Zenon
  <2>. QED BY <2>1, <2>2
<1>. QED BY <1>8, <1>9

\* Where the clusters from each position on begin.
Clusters(t, K) ==
  /\ K \in [0 .. Len(t) -> Seq(Int)]
  /\ \A p \in 0 .. Len(t) :
       K[p] = IF p = Len(t) THEN <<>> ELSE <<p>> \o K[str_next_grapheme(t, p)]

LEMMA ClustersExist ==
  ASSUME NEW t \in Seq(NonZero)
  PROVE  \E K : Clusters(t, K)
<1>. DEFINE n  == Len(t)
            V  == Seq(Int)
            nx == [p \in 0 .. n - 1 |-> str_next_grapheme(t, p)]
            F  == [p \in 0 .. n - 1 |-> [v \in V |-> <<p>> \o v]]
<1>1. n \in Nat /\ <<>> \in V
  OBVIOUS
<1>2. \A p \in 0 .. n - 1 : nx[p] = str_next_grapheme(t, p) /\ nx[p] \in p + 1 .. n
  <2>1. \A p \in 0 .. n - 1 : str_next_grapheme(t, p) \in p + 1 .. n
    BY GraphemeIn
  <2>2. \A p \in 0 .. n - 1 : nx[p] = str_next_grapheme(t, p)
    OBVIOUS
  <2>. QED BY <2>1, <2>2, Zenon
<1>3. \A p \in 0 .. n - 1, v \in V : F[p][v] = <<p>> \o v
  BY Zenon
<1>. HIDE DEF F, nx
<1>4. \A p \in 0 .. n - 1, v \in V : F[p][v] \in V
  <2>1. \A p \in 0 .. n - 1, v \in V : <<p>> \o v \in V
    <3>1. TAKE p \in 0 .. n - 1, v \in V
    <3>2. <<p>> \in Seq(Int)
      BY <1>1
    <3>. QED BY <3>2, ConcatProperties
  <2>. QED BY <1>3, <2>1, Zenon
<1>5. Recursive(n, V, <<>>, nx, F)
  BY <1>1, <1>2, <1>4 DEF Recursive
<1>6. PICK h : Recurs(h, n, V, <<>>, nx, F)
  BY <1>5, Recursion, Zenon
<1>7. h \in [0 .. n -> V] /\ \A p \in 0 .. n : h[p] = IF p = n THEN <<>> ELSE F[p][h[nx[p]]]
  BY <1>6, Zenon DEF Recurs
<1>8. ASSUME NEW p \in 0 .. n
      PROVE  h[p] = IF p = n THEN <<>> ELSE <<p>> \o h[str_next_grapheme(t, p)]
  <2>1. CASE p = n
    BY <1>7, <2>1, Zenon
  <2>2. CASE p # n
    <3>1. p \in 0 .. n - 1
      BY <1>1, <2>2
    <3>2. nx[p] = str_next_grapheme(t, p) /\ nx[p] \in 0 .. n
      BY <1>1, <1>2, <3>1
    <3>3. h[nx[p]] \in V
      BY <1>7, <3>2, Zenon
    <3>4. h[p] = <<p>> \o h[nx[p]]
      BY <1>3, <1>7, <2>2, <3>1, <3>3, Zenon
    <3>. QED BY <2>2, <3>2, <3>4, Zenon
  <2>. QED BY <2>1, <2>2
<1>. QED BY <1>7, <1>8, Zenon DEF Clusters

LEMMA ClustersAre ==
  ASSUME NEW t \in Seq(NonZero), NEW K, Clusters(t, K), NEW p \in 0 .. Len(t)
  PROVE  ClustersFrom(t)[p] = K[p]
<1>. DEFINE n == Len(t)
            Step(f) == [q \in 0 .. Len(t) |->
                          IF q = Len(t) THEN <<>> ELSE <<q>> \o f[str_next_grapheme(t, q)]]
            from == CHOOSE f : f = Step(f)
<1>1. ClustersFrom(t) = from
  BY Zenon DEF ClustersFrom
<1>2. \A f : Step(f) = [q \in 0 .. n |-> Step(f)[q]]
  BY Zenon
<1>3. \A f : \A q \in 0 .. n : Step(f)[q] = IF q = n THEN <<>> ELSE <<q>> \o f[str_next_grapheme(t, q)]
  BY Zenon
<1>. HIDE DEF Step
<1>4. K = Step(K)
  <2>1. K = [q \in 0 .. n |-> K[q]]
    BY DEF Clusters
  <2>2. \A q \in 0 .. n : K[q] = Step(K)[q]
    BY <1>3, Zenon DEF Clusters
  <2>3. [q \in 0 .. n |-> K[q]] = [q \in 0 .. n |-> Step(K)[q]]
    BY <2>2, Zenon
  <2>. QED BY <1>2, <2>1, <2>3, Zenon
<1>5. from = Step(from)
  BY <1>4, Zenon
<1>. HIDE DEF from
<1>6. \A q \in 0 .. n : from[q] = IF q = n THEN <<>> ELSE <<q>> \o from[str_next_grapheme(t, q)]
  BY <1>3, <1>5, Zenon
<1>. DEFINE C == {q \in 0 .. n : from[q] = K[q]}
<1>7. n \in Nat
  OBVIOUS
<1>8. ASSUME NEW q \in 0 .. n, \A r \in q + 1 .. n : r \in C PROVE q \in C
  <2>1. K[q] = IF q = n THEN <<>> ELSE <<q>> \o K[str_next_grapheme(t, q)]
    BY Zenon DEF Clusters
  <2>2. CASE q = n
    BY <1>6, <2>1, <2>2, Zenon
  <2>3. CASE q # n
    <3>1. q \in 0 .. n - 1
      BY <1>7, <2>3
    <3>2. str_next_grapheme(t, q) \in q + 1 .. n
      BY <3>1, GraphemeIn
    <3>3. from[str_next_grapheme(t, q)] = K[str_next_grapheme(t, q)]
      BY <1>8, <3>2, Zenon
    <3>. QED BY <1>6, <2>1, <2>3, <3>3, Zenon
  <2>. QED BY <2>2, <2>3
<1>. HIDE DEF C, n
<1>9. \A q \in 0 .. n : q \in C
  BY <1>7, <1>8, Downwards
<1>. QED BY <1>1, <1>9, Zenon DEF C, n

\* Where the cluster after m more begins, or the end of the text.
Cut(t, K, p, m) == IF m < Len(K[p]) THEN K[p][m + 1] ELSE Len(t)

LEMMA ClusterCons ==
  ASSUME NEW t \in Seq(NonZero), NEW K, Clusters(t, K), NEW p \in 0 .. Len(t) - 1, NEW g,
         g = str_next_grapheme(t, p)
  PROVE  /\ g \in p + 1 .. Len(t) /\ K[g] \in Seq(Int) /\ Len(K[p]) = 1 + Len(K[g]) /\ K[p][1] = p
         /\ \A i \in 1 .. Len(K[g]) : K[p][i + 1] = K[g][i]
<1>0. Len(t) \in Nat /\ p \in 0 .. Len(t) /\ p # Len(t)
  OBVIOUS
<1>1. g \in p + 1 .. Len(t)
  BY GraphemeIn
<1>2. g \in 0 .. Len(t)
  BY <1>0, <1>1
<1>3. K[p] = <<p>> \o K[g]
  BY <1>0, Zenon DEF Clusters
<1>4. PICK s \in Seq(Int) : s = K[g]
  BY <1>2 DEF Clusters
<1>5. <<p>> \in Seq(Int) /\ Len(<<p>>) = 1 /\ <<p>>[1] = p
  BY <1>0
<1>6. /\ Len(<<p>> \o s) = Len(<<p>>) + Len(s)
      /\ \A i \in 1 .. Len(<<p>>) + Len(s) : (<<p>> \o s)[i] = IF i <= Len(<<p>>) THEN <<p>>[i] ELSE s[i - Len(<<p>>)]
  BY <1>5, ConcatProperties
<1>7. PICK r : r = <<p>> \o s
  OBVIOUS
<1>8. Len(r) = 1 + Len(s) /\ \A i \in 1 .. 1 + Len(s) : r[i] = IF i <= 1 THEN <<p>>[i] ELSE s[i - 1]
  BY <1>5, <1>6, <1>7
<1>9. r[1] = p
  <2>1. 1 \in 1 .. 1 + Len(s) /\ 1 <= 1
    BY <1>4
  <2>. QED BY <1>5, <1>8, <2>1
<1>10. \A i \in 1 .. Len(s) : r[i + 1] = s[i]
  <2>1. TAKE i \in 1 .. Len(s)
  <2>2. i + 1 \in 1 .. 1 + Len(s) /\ ~(i + 1 <= 1) /\ (i + 1) - 1 = i
    BY <1>4
  <2>. QED BY <1>8, <2>2
<1>. QED BY <1>1, <1>3, <1>4, <1>7, <1>8, <1>9, <1>10

LEMMA FewClusters ==
  ASSUME NEW t \in Seq(NonZero), NEW K, Clusters(t, K)
  PROVE  \A p \in 0 .. Len(t) : K[p] \in Seq(0 .. Len(t)) /\ Len(K[p]) <= Len(t) - p
<1>. DEFINE n == Len(t)
            C == {p \in 0 .. n : K[p] \in Seq(0 .. n) /\ Len(K[p]) <= n - p}
<1>1. n \in Nat
  OBVIOUS
<1>2. ASSUME NEW p \in 0 .. n, \A q \in p + 1 .. n : q \in C PROVE p \in C
  <2>1. K[p] = IF p = n THEN <<>> ELSE <<p>> \o K[str_next_grapheme(t, p)]
    BY Zenon DEF Clusters
  <2>2. CASE p = n
    <3>1. <<>> \in Seq(0 .. n) /\ Len(<<>>) <= n - p
      BY <1>1, <2>2
    <3>. QED BY <2>1, <2>2, <3>1, Zenon
  <2>3. CASE p # n
    <3>1. p \in 0 .. n - 1
      BY <1>1, <2>3
    <3>2. PICK g : g = str_next_grapheme(t, p)
      OBVIOUS
    <3>3. g \in p + 1 .. n /\ Len(K[p]) = 1 + Len(K[g]) /\ K[g] \in Seq(Int)
      BY <3>1, <3>2, ClusterCons
    <3>4. K[g] \in Seq(0 .. n) /\ Len(K[g]) <= n - g
      BY <1>2, <3>3
    <3>5. <<p>> \in Seq(0 .. n)
      OBVIOUS
    <3>6. K[p] \in Seq(0 .. n)
      BY <2>1, <2>3, <3>2, <3>4, <3>5, ConcatProperties
    <3>7. Len(K[p]) <= n - p
      <4>1. PICK k \in Nat : k = Len(K[g])
        BY <3>3
      <4>. QED BY <1>1, <3>3, <3>4, <4>1
    <3>. QED BY <3>6, <3>7
  <2>. QED BY <2>2, <2>3
<1>. HIDE DEF C, n
<1>3. \A p \in 0 .. n : p \in C
  BY <1>1, <1>2, Downwards
<1>. QED BY <1>3 DEF C, n

\* The text before the cluster that comes after m has m clusters.
LEMMA CutClusters ==
  ASSUME NEW t, NEW u, NEW e, Prefix(t, u, e), NEW K, Clusters(t, K), NEW L, Clusters(u, L)
  PROVE  \A p \in 0 .. Len(t) : \A m \in 0 .. Len(K[p]) :
           Cut(t, K, p, m) = e => p <= e /\ Len(L[p]) = m
<1>0. /\ t \in Seq(NonZero) /\ u \in Seq(NonZero) /\ e \in Nat /\ e <= Len(t) /\ Len(u) = e
      /\ Len(t) \in Nat
  BY DEF Prefix
<1>. DEFINE n == Len(t)
            C == {p \in 0 .. n : \A m \in 0 .. Len(K[p]) : Cut(t, K, p, m) = e => p <= e /\ Len(L[p]) = m}
<1>1. L[e] = <<>> /\ Len(L[e]) = 0
  <2>1. e \in 0 .. Len(u) /\ e = Len(u)
    BY <1>0
  <2>2. L[e] = <<>>
    BY <2>1, Zenon DEF Clusters
  <2>. QED BY <2>2
<1>2. ASSUME NEW p \in 0 .. n, \A q \in p + 1 .. n : q \in C PROVE p \in C
  <2>1. SUFFICES ASSUME NEW m \in 0 .. Len(K[p]), Cut(t, K, p, m) = e PROVE p <= e /\ Len(L[p]) = m
    OBVIOUS
  <2>2. CASE p = n
    <3>1. K[p] = <<>>
      BY <2>2, Zenon DEF Clusters
    <3>2. Len(K[p]) = 0 /\ m = 0
      BY <3>1
    <3>3. e = n
      BY <2>1, <3>2 DEF Cut
    <3>. QED BY <1>0, <1>1, <2>2, <3>2, <3>3
  <2>3. CASE p # n
    <3>1. p \in 0 .. n - 1 /\ p \in Nat
      BY <1>0, <2>3
    <3>2. PICK g : g = str_next_grapheme(t, p)
      OBVIOUS
    <3>3. PICK k \in Nat : k = Len(K[g])
      BY <1>0, <3>1, <3>2, ClusterCons
    <3>4. g \in p + 1 .. n /\ Len(K[p]) = 1 + k /\ K[p][1] = p /\ \A i \in 1 .. k : K[p][i + 1] = K[g][i]
      BY <1>0, <3>1, <3>2, <3>3, ClusterCons
    <3>5. m \in Nat /\ m <= 1 + k
      BY <3>4
    <3>6. CASE m = 0
      <4>1. m < Len(K[p]) /\ m + 1 = 1
        BY <3>4, <3>6
      <4>2. e = p
        BY <2>1, <3>4, <4>1 DEF Cut
      <4>. QED BY <1>0, <1>1, <3>6, <4>2
    <3>7. CASE m # 0
      <4>1. PICK i : i = m - 1
        OBVIOUS
      <4>2. i \in 0 .. k /\ i + 1 = m
        BY <3>5, <3>7, <4>1
      <4>3. Cut(t, K, g, i) = e
        <5>1. CASE i < k
          <6>1. m \in 1 .. k /\ m < Len(K[p])
            BY <3>4, <3>5, <3>7, <4>1, <5>1
          <6>2. Cut(t, K, p, m) = K[p][m + 1] /\ Cut(t, K, g, i) = K[g][i + 1]
            BY <3>3, <5>1, <6>1, Zenon DEF Cut
          <6>3. K[p][m + 1] = K[g][m]
            BY <3>4, <6>1
          <6>. QED BY <2>1, <4>2, <6>2, <6>3, Zenon
        <5>2. CASE ~(i < k)
          <6>1. ~(m < Len(K[p]))
            BY <3>4, <3>5, <4>1, <5>2
          <6>. QED BY <2>1, <3>3, <5>2, <6>1, Zenon DEF Cut
        <5>. QED BY <5>1, <5>2
      <4>4. g \in C
        BY <1>2, <3>4
      <4>5. i \in 0 .. Len(K[g])
        BY <3>3, <4>2
      <4>6. g <= e /\ Len(L[g]) = i
        BY <4>3, <4>4, <4>5
      <4>7. p \in 0 .. e - 1 /\ p \in 0 .. Len(u) - 1 /\ p <= e
        BY <1>0, <3>1, <3>4, <4>6
      <4>8. str_next_grapheme(t, p) <= e
        BY <3>2, <4>6, Zenon
      <4>9. str_next_grapheme(u, p) = g
        BY <3>2, <4>7, <4>8, GraphemeKept
      <4>10. Len(L[p]) = 1 + Len(L[g])
        BY <1>0, <4>7, <4>9, ClusterCons
      <4>. QED BY <4>1, <4>6, <4>7, <4>10, <3>5
    <3>. QED BY <3>6, <3>7
  <2>. QED BY <2>2, <2>3
<1>. HIDE DEF C, n
<1>3. \A p \in 0 .. n : p \in C
  BY <1>0, <1>2, Downwards DEF n
<1>. QED BY <1>3 DEF C, n

LEMMA ClusterCuts ==
  ASSUME NEW t \in Seq(NonZero), NEW m \in Nat, m <= str_graphemes(t)
  PROVE  /\ str_graphemes(str_substr_grapheme_cluster(t, 0, m)) = m
         /\ str_substr_grapheme_cluster(t, 0, m) \o str_substr_grapheme_cluster(t, m, Len(t)) = t
<1>1. PICK K : Clusters(t, K)
  BY ClustersExist
<1>2. Len(t) \in Nat /\ 0 \in 0 .. Len(t)
  OBVIOUS
<1>3. \A p \in 0 .. Len(t) : ClustersFrom(t)[p] = K[p]
  BY <1>1, ClustersAre
<1>4. \A p \in 0 .. Len(t) : K[p] \in Seq(0 .. Len(t)) /\ Len(K[p]) <= Len(t) - p
  BY <1>1, FewClusters
<1>5. ASSUME NEW p \in 0 .. Len(t), NEW i PROVE SkipClusters(t, p, i) = Cut(t, K, p, i)
  BY <1>3, Zenon DEF SkipClusters, Cut
<1>6. str_graphemes(t) = Len(K[0]) /\ K[0] \in Seq(0 .. Len(t))
  BY <1>2, <1>3, <1>4, Zenon DEF str_graphemes
<1>7. SkipClusters(t, 0, 0) = 0
  <2>1. CASE Len(t) = 0
    <3>1. K[0] = <<>>
      BY <1>1, <1>2, <2>1, Zenon DEF Clusters
    <3>2. Len(K[0]) = 0
      BY <3>1
    <3>3. Cut(t, K, 0, 0) = 0
      BY <2>1, <3>2 DEF Cut
    <3>. QED BY <1>2, <1>5, <3>3, Zenon
  <2>2. CASE Len(t) # 0
    <3>1. 0 \in 0 .. Len(t) - 1
      BY <1>2, <2>2
    <3>2. PICK g : g = str_next_grapheme(t, 0)
      OBVIOUS
    <3>3. K[g] \in Seq(Int) /\ Len(K[0]) = 1 + Len(K[g]) /\ K[0][1] = 0
      BY <1>1, <3>1, <3>2, ClusterCons
    <3>4. 0 < Len(K[0]) /\ 0 + 1 = 1
      BY <3>3
    <3>5. Cut(t, K, 0, 0) = 0
      BY <3>3, <3>4 DEF Cut
    <3>. QED BY <1>2, <1>5, <3>5, Zenon
  <2>. QED BY <2>1, <2>2
<1>8. PICK e \in 0 .. Len(t) : e = Cut(t, K, 0, m)
  <2>1. CASE m < Len(K[0])
    <3>1. m + 1 \in 1 .. Len(K[0])
      BY <1>6, <2>1
    <3>2. K[0][m + 1] \in 0 .. Len(t)
      BY <1>6, <3>1, ElementOfSeq
    <3>. QED BY <2>1, <3>2 DEF Cut
  <2>2. CASE ~(m < Len(K[0]))
    BY <1>2, <2>2 DEF Cut
  <2>. QED BY <2>1, <2>2
<1>9. SkipClusters(t, 0, m) = e
  BY <1>2, <1>5, <1>8, Zenon
<1>10. SkipClusters(t, e, Len(t)) = Len(t)
  <2>1. ~(Len(t) < Len(K[e]))
    <3>1. K[e] \in Seq(0 .. Len(t)) /\ Len(K[e]) <= Len(t) - e
      BY <1>4
    <3>2. PICK k \in Nat : k = Len(K[e])
      BY <3>1
    <3>. QED BY <1>2, <3>1, <3>2
  <2>2. Cut(t, K, e, Len(t)) = Len(t)
    BY <2>1, Zenon DEF Cut
  <2>. QED BY <1>5, <2>2, Zenon
<1>11. PICK u : u = SubSeq(t, 1, e)
  OBVIOUS
<1>12. str_substr_grapheme_cluster(t, 0, m) = u
  <2>1. 0 + 1 = 1
    OBVIOUS
  <2>. QED BY <1>7, <1>9, <1>11, <2>1, Zenon DEF str_substr_grapheme_cluster
<1>13. str_substr_grapheme_cluster(t, m, Len(t)) = SubSeq(t, e + 1, Len(t))
  BY <1>9, <1>10, Zenon DEF str_substr_grapheme_cluster
<1>14. Prefix(t, u, e)
  BY <1>11, PrefixOf
<1>15. u \in Seq(NonZero) /\ 0 \in 0 .. Len(u)
  BY <1>14 DEF Prefix
<1>16. PICK L : Clusters(u, L)
  BY <1>15, ClustersExist
<1>17. Len(L[0]) = m
  <2>1. \A p \in 0 .. Len(t) : \A i \in 0 .. Len(K[p]) :
           Cut(t, K, p, i) = e => p <= e /\ Len(L[p]) = i
    BY <1>1, <1>14, <1>16, CutClusters
  <2>2. m \in 0 .. Len(K[0])
    BY <1>6
  <2>. QED BY <1>2, <1>8, <2>1, <2>2
<1>18. ClustersFrom(u)[0] = L[0]
  BY <1>15, <1>16, ClustersAre
<1>19. str_graphemes(u) = m
  BY <1>17, <1>18, Zenon DEF str_graphemes
<1>20. u \o SubSeq(t, e + 1, Len(t)) = t
  BY <1>11, Halves
<1>. QED BY <1>12, <1>13, <1>19, <1>20, Zenon

\* A text that is cut after as many code points, or as many clusters, as the cursor has
\* passed characters falls into a part with that many and the rest, in texts of any length
\* and bytes: a cut changes neither what is decoded before it nor what belongs together
\* there.
THEOREM CutsText == Spec => []TextCuts
<1>1. ASSUME Inv, Chain PROVE TextCuts
  <2>1. PICK n : n = Len(trail)
    OBVIOUS
  <2>2. text \in Seq(NonZero) /\ n \in Nat
    BY <1>1, <2>1, TrailWalks
  <2>3. /\ str_codepoints(str_substr_codepoint(text, 0, n)) = n
        /\ str_substr_codepoint(text, 0, n) \o str_substr_codepoint(text, n, Len(text)) = text
    BY <1>1, <2>1, CodepointCuts, Zenon
  <2>4. n <= str_graphemes(text) =>
          /\ str_graphemes(str_substr_grapheme_cluster(text, 0, n)) = n
          /\ str_substr_grapheme_cluster(text, 0, n)
               \o str_substr_grapheme_cluster(text, n, Len(text)) = text
    BY <2>2, ClusterCuts, Zenon
  <2>. QED BY <2>1, <2>3, <2>4, Zenon DEF TextCuts
<1>. QED BY <1>1, ChainInvariant, PTL

-----------------------------------------------------------------------------
(* Code points by their place in the text *)

LEMMA ConsIs ==
  ASSUME NEW c \in Int, NEW s \in Seq(Int), NEW r, r = <<c>> \o s
  PROVE  /\ r \in Seq(Int) /\ Len(r) = 1 + Len(s) /\ r[1] = c
         /\ \A i \in 1 .. Len(s) : r[i + 1] = s[i]
<1>1. <<c>> \in Seq(Int) /\ Len(<<c>>) = 1 /\ <<c>>[1] = c
  OBVIOUS
<1>2. /\ <<c>> \o s \in Seq(Int) /\ Len(<<c>> \o s) = Len(<<c>>) + Len(s)
      /\ \A i \in 1 .. Len(<<c>>) + Len(s) : (<<c>> \o s)[i] = IF i <= Len(<<c>>) THEN <<c>>[i] ELSE s[i - Len(<<c>>)]
  BY <1>1, ConcatProperties
<1>3. r \in Seq(Int) /\ Len(r) = 1 + Len(s) /\ \A i \in 1 .. 1 + Len(s) : r[i] = IF i <= 1 THEN <<c>>[i] ELSE s[i - 1]
  BY <1>1, <1>2
<1>4. r[1] = c
  <2>1. 1 \in 1 .. 1 + Len(s) /\ 1 <= 1
    OBVIOUS
  <2>. QED BY <1>1, <1>3, <2>1
<1>5. \A i \in 1 .. Len(s) : r[i + 1] = s[i]
  <2>1. TAKE i \in 1 .. Len(s)
  <2>2. i + 1 \in 1 .. 1 + Len(s) /\ ~(i + 1 <= 1) /\ (i + 1) - 1 = i
    OBVIOUS
  <2>. QED BY <1>3, <2>2
<1>. QED BY <1>3, <1>4, <1>5

\* What was decoded from where i steps lead, by the steps that follow.
Along(t, C, f, i, m) ==
  /\ C[f[i]] \in Seq(Int) /\ Len(C[f[i]]) = m /\ i + m <= Len(t) /\ f[i + m] = Len(t)
  /\ \A k \in 1 .. m : f[i + k - 1] < Len(t) /\ C[f[i]][k] = Cp(t, f[i + k - 1])

LEMMA AlongAll ==
  ASSUME NEW t \in Seq(NonZero), NEW C, Decodes(t, C),
         NEW f \in [0 .. Len(t) -> 0 .. Len(t)], Walk(t, 0, Len(t), f)
  PROVE  \E m \in 0 .. Len(t) : Along(t, C, f, 0, m)
<1>. DEFINE n == Len(t)
            D == {i \in 0 .. n : \E m \in 0 .. n : Along(t, C, f, i, m)}
<1>0. n \in Nat /\ n \in 0 .. n /\ 0 \in 0 .. n
  OBVIOUS
<1>1. f[n] = n
  <2>1. Skip(t, 0, n) = n
    BY <1>0, SkipAll
  <2>2. Skip(t, 0, n) = f[n]
    BY <1>0, SkipIs, Zenon
  <2>. QED BY <2>1, <2>2
<1>2. C[n] = <<>>
  BY <1>0, Zenon DEF Decodes
<1>3. ASSUME NEW i \in 0 .. n, \A q \in i + 1 .. n : q \in D PROVE i \in D
  <2>1. CASE f[i] = n
    <3>1. C[f[i]] \in Seq(Int) /\ Len(C[f[i]]) = 0
      <4>1. <<>> \in Seq(Int) /\ Len(<<>>) = 0
        OBVIOUS
      <4>. QED BY <1>2, <2>1, <4>1, Zenon
    <3>2. i + 0 = i /\ i <= n
      BY <1>0
    <3>3. \A k \in 1 .. 0 : FALSE
      OBVIOUS
    <3>4. Along(t, C, f, i, 0)
      BY <2>1, <3>1, <3>2, <3>3, Zenon DEF Along
    <3>. QED BY <1>0, <3>4
  <2>2. CASE f[i] # n
    <3>1. i # n
      BY <1>1, <2>2
    <3>2. PICK j : j = i + 1
      OBVIOUS
    <3>3. j \in i + 1 .. n /\ j \in 0 .. n /\ j # 0 /\ j - 1 = i
      BY <1>0, <3>1, <3>2
    <3>4. PICK m \in 0 .. n : Along(t, C, f, j, m)
      BY <1>3, <3>3
    <3>5. PICK a \in 0 .. n : a = f[i] /\ a # n /\ a < n /\ a \in Nat
      <4>1. f[i] \in 0 .. n
        OBVIOUS
      <4>. QED BY <1>0, <2>2, <4>1
    <3>6. f[j] = NextPos(t, a)
      BY <3>3, <3>5, Zenon DEF Walk
    <3>7. PICK c \in Int : c = Cp(t, a)
      BY <3>5, CodepointIs DEF Cp
    <3>8. PICK s \in Seq(Int) : s = C[f[j]] /\ Len(s) = m
      BY <3>4, Zenon DEF Along
    <3>9. C[a] = <<c>> \o s
      <4>1. C[a] = <<str_next_codepoint(t, a).cp>> \o C[NextPos(t, a)]
        BY <3>5, Zenon DEF Decodes
      <4>. QED BY <3>6, <3>7, <3>8, <4>1, Zenon DEF Cp
    <3>10. /\ C[a] \in Seq(Int) /\ Len(C[a]) = 1 + m /\ C[a][1] = c
           /\ \A k \in 1 .. m : C[a][k + 1] = s[k]
      <4>1. PICK r : r = C[a]
        OBVIOUS
      <4>2. /\ r \in Seq(Int) /\ Len(r) = 1 + Len(s) /\ r[1] = c
            /\ \A k \in 1 .. Len(s) : r[k + 1] = s[k]
        <5>1. r = <<c>> \o s
          BY <3>9, <4>1, Zenon
        <5>. QED BY <5>1, ConsIs
      <4>. QED BY <3>8, <4>1, <4>2, Zenon
    <3>11. PICK l : l = 1 + m
      OBVIOUS
    <3>12. j + m <= n /\ f[j + m] = n
      BY <3>4, Zenon DEF Along
    <3>13. l \in 0 .. n /\ i + l = j + m
      BY <1>0, <3>2, <3>3, <3>11, <3>12
    <3>14. ASSUME NEW k \in 1 .. l PROVE f[i + k - 1] < n /\ C[a][k] = Cp(t, f[i + k - 1])
      <4>1. CASE k = 1
        <5>1. i + k - 1 = i
          BY <4>1
        <5>. QED BY <3>5, <3>7, <3>10, <4>1, <5>1
      <4>2. CASE k # 1
        <5>1. PICK h \in 1 .. m : k = h + 1
          <6>1. k - 1 \in 1 .. m /\ k = (k - 1) + 1
            BY <3>11, <4>2
          <6>. QED BY <6>1
        <5>2. i + k - 1 = j + h - 1
          BY <3>2, <5>1
        <5>3. f[j + h - 1] < n /\ C[f[j]][h] = Cp(t, f[j + h - 1])
          BY <3>4, Zenon DEF Along
        <5>4. C[a][k] = C[f[j]][h]
          BY <3>8, <3>10, <5>1, Zenon
        <5>. QED BY <5>2, <5>3, <5>4, Zenon
      <4>. QED BY <4>1, <4>2
    <3>15. Along(t, C, f, i, l)
      <4>1. C[f[i]] \in Seq(Int) /\ Len(C[f[i]]) = l
        BY <3>5, <3>10, <3>11, Zenon
      <4>2. i + l <= n /\ f[i + l] = n
        BY <3>12, <3>13, Zenon
      <4>3. \A k \in 1 .. l : f[i + k - 1] < n /\ C[f[i]][k] = Cp(t, f[i + k - 1])
        BY <3>5, <3>14, Zenon
      <4>. QED BY <4>1, <4>2, <4>3, Zenon DEF Along
    <3>. QED BY <3>13, <3>15
  <2>. QED BY <2>1, <2>2
<1>. HIDE DEF D
<1>4. \A i \in 0 .. n : i \in D
  BY <1>0, <1>3, Downwards
<1>. QED BY <1>0, <1>4, Zenon DEF D

\* f leads over the whole text, in N steps; there are N code points.
Route(t, N, f, c) ==
  /\ N \in Nat /\ f \in [0 .. N -> 0 .. Len(t)] /\ c \in Seq(Int) /\ Len(c) = N
  /\ f[0] = 0 /\ f[N] = Len(t)
  /\ \A i \in 1 .. N : f[i] = NextPos(t, f[i - 1]) /\ f[i - 1] < Len(t) /\ c[i] = Cp(t, f[i - 1])
  /\ \A i \in 0 .. N : Skip(t, 0, i) = f[i]

LEMMA RouteExists ==
  ASSUME NEW t \in Seq(NonZero)
  PROVE  \E N, f : Route(t, N, f, CodepointsFrom(t)[0])
<1>1. Len(t) \in Nat /\ 0 \in 0 .. Len(t)
  OBVIOUS
<1>2. PICK C : Decodes(t, C) /\ CodepointsFrom(t)[0] = C[0]
  BY CodepointsAre
<1>3. PICK w \in [0 .. Len(t) -> 0 .. Len(t)] : Walk(t, 0, Len(t), w)
  BY <1>1, WalkExists, Zenon
<1>4. PICK N \in 0 .. Len(t) : Along(t, C, w, 0, N)
  BY <1>2, <1>3, AlongAll
<1>5. N \in Nat /\ N <= Len(t) /\ \A i \in 0 .. N : i \in 0 .. Len(t)
  BY <1>1
<1>. DEFINE f == [i \in 0 .. N |-> w[i]]
<1>6. \A i \in 0 .. N : f[i] = w[i] /\ w[i] \in 0 .. Len(t)
  BY <1>5
<1>7. f \in [0 .. N -> 0 .. Len(t)]
  BY <1>5
<1>. HIDE DEF f
<1>8. w[0] = 0
  BY <1>1, <1>3, Zenon DEF Walk
<1>9. PICK c : c = CodepointsFrom(t)[0]
  OBVIOUS
<1>10. c \in Seq(Int) /\ Len(c) = N /\ w[0 + N] = Len(t)
       /\ \A i \in 1 .. N : w[0 + i - 1] < Len(t) /\ c[i] = Cp(t, w[0 + i - 1])
  BY <1>2, <1>4, <1>8, <1>9, Zenon DEF Along
<1>11. 0 \in 0 .. N /\ N \in 0 .. N /\ 0 + N = N
  BY <1>5
<1>12. ASSUME NEW i \in 1 .. N
       PROVE  f[i] = NextPos(t, f[i - 1]) /\ f[i - 1] < Len(t) /\ c[i] = Cp(t, f[i - 1])
  <2>1. 0 + i - 1 = i - 1 /\ i - 1 \in 0 .. N /\ i \in 0 .. N /\ i # 0
    BY <1>5
  <2>2. w[i] = NextPos(t, w[i - 1])
    BY <1>3, <1>5, <2>1, Zenon DEF Walk
  <2>3. w[i - 1] < Len(t) /\ c[i] = Cp(t, w[i - 1])
    BY <1>10, <2>1, Zenon
  <2>. QED BY <1>6, <2>1, <2>2, <2>3, Zenon
<1>13. \A i \in 0 .. N : Skip(t, 0, i) = f[i]
  <2>1. TAKE i \in 0 .. N
  <2>2. i \in 0 .. Len(t)
    BY <1>5
  <2>3. Skip(t, 0, i) = w[i]
    BY <1>1, <1>3, <2>2, SkipIs, Zenon
  <2>. QED BY <1>6, <2>3, Zenon
<1>14. f[0] = 0 /\ f[N] = Len(t)
  BY <1>6, <1>8, <1>10, <1>11, Zenon
<1>15. Route(t, N, f, c)
  <2>1. N \in Nat /\ c \in Seq(Int) /\ Len(c) = N
    BY <1>5, <1>10, Zenon
  <2>. QED BY <1>7, <1>12, <1>13, <1>14, <2>1, Zenon DEF Route
<1>. QED BY <1>9, <1>15, Zenon

LEMMA RouteRises ==
  ASSUME NEW t \in Seq(NonZero), NEW N, NEW f, NEW c, Route(t, N, f, c)
  PROVE  \A i \in 0 .. N, j \in 0 .. N : i < j => f[i] < f[j]
<1>0. /\ N \in Nat /\ Len(t) \in Nat
      /\ \A i \in 0 .. N : f[i] \in 0 .. Len(t)
      /\ \A i \in 1 .. N : f[i] = NextPos(t, f[i - 1]) /\ f[i - 1] < Len(t)
  <2>1. /\ N \in Nat /\ f \in [0 .. N -> 0 .. Len(t)]
        /\ \A i \in 1 .. N : f[i] = NextPos(t, f[i - 1]) /\ f[i - 1] < Len(t)
    BY Zenon DEF Route
  <2>2. Len(t) \in Nat /\ \A i \in 0 .. N : f[i] \in 0 .. Len(t)
    BY <2>1
  <2>. QED BY <2>1, <2>2, Zenon
<1>1. TAKE i \in 0 .. N
<1>. DEFINE C == {j \in 0 .. N : i < j => f[i] < f[j]}
<1>2. ASSUME NEW j \in 0 .. N, \A q \in 0 .. j - 1 : q \in C PROVE j \in C
  <2>1. SUFFICES ASSUME i < j PROVE f[i] < f[j]
    OBVIOUS
  <2>2. PICK k : k = j - 1
    OBVIOUS
  <2>3. k \in 0 .. j - 1 /\ k \in 0 .. N /\ j \in 1 .. N /\ i <= k
    BY <1>0, <2>1, <2>2
  <2>4. PICK a \in 0 .. Len(t) : a = f[k] /\ a < Len(t)
    BY <1>0, <2>2, <2>3
  <2>5. f[j] = NextPos(t, a)
    BY <1>0, <2>2, <2>3, <2>4, Zenon
  <2>6. a < f[j] /\ f[j] \in 0 .. Len(t) /\ f[i] \in 0 .. Len(t)
    <3>1. a # Len(t)
      BY <1>0, <2>4
    <3>2. a < NextPos(t, a)
      BY <3>1, NextIn
    <3>. QED BY <1>0, <2>5, <3>2, Zenon
  <2>7. f[i] <= a
    <3>1. CASE i = k
      BY <1>0, <2>4, <3>1
    <3>2. CASE i # k
      <4>1. i < k
        BY <1>0, <2>3, <3>2
      <4>2. f[i] < f[k]
        BY <1>2, <2>3, <4>1, Zenon
      <4>. QED BY <1>0, <2>4, <2>6, <4>2
    <3>. QED BY <3>1, <3>2
  <2>. QED BY <1>0, <2>4, <2>6, <2>7
<1>. HIDE DEF C
<1>3. \A j \in 0 .. N : j \in C
  BY <1>0, <1>2, Upwards
<1>. QED BY <1>3, Zenon DEF C

LEMMA RouteApart ==
  ASSUME NEW t \in Seq(NonZero), NEW N, NEW f, NEW c, Route(t, N, f, c), NEW i \in 0 .. N, NEW j \in 0 .. N
  PROVE  (f[i] = f[j] => i = j) /\ (f[i] < f[j] => i < j) /\ f[i] \in 0 .. Len(t) /\ f[j] \in 0 .. Len(t)
<1>0. N \in Nat /\ Len(t) \in Nat /\ f[i] \in 0 .. Len(t) /\ f[j] \in 0 .. Len(t)
  BY DEF Route
<1>1. (i < j => f[i] < f[j]) /\ (j < i => f[j] < f[i])
  BY RouteRises
<1>2. i < j \/ i = j \/ j < i
  BY <1>0
<1>3. CASE i < j
  BY <1>0, <1>1, <1>3
<1>4. CASE i = j
  BY <1>0, <1>4
<1>5. CASE j < i
  BY <1>0, <1>1, <1>5
<1>. QED BY <1>2, <1>3, <1>4, <1>5

\* The positions of the route.
Places(N, f) == {f[i] : i \in 0 .. N}

LEMMA NextOn ==
  ASSUME NEW t \in Seq(NonZero), NEW N, NEW f, NEW c, Route(t, N, f, c), NEW p \in Places(N, f)
  PROVE  NextPos(t, p) \in Places(N, f) /\ p \in 0 .. Len(t)
<1>0. /\ N \in Nat /\ Len(t) \in Nat /\ f[N] = Len(t)
      /\ \A i \in 0 .. N : f[i] \in 0 .. Len(t)
      /\ \A i \in 1 .. N : f[i] = NextPos(t, f[i - 1])
  BY DEF Route
<1>1. PICK i \in 0 .. N : p = f[i]
  BY DEF Places
<1>2. p \in 0 .. Len(t)
  BY <1>0, <1>1
<1>3. CASE i = N
  <2>1. NextPos(t, p) = p
    BY <1>0, <1>1, <1>2, <1>3, NextIn
  <2>. QED BY <1>2, <2>1
<1>4. CASE i # N
  <2>1. PICK j : j = i + 1
    OBVIOUS
  <2>2. j \in 1 .. N /\ j \in 0 .. N /\ j - 1 = i
    BY <1>0, <1>4, <2>1
  <2>3. NextPos(t, p) = f[j]
    BY <1>0, <1>1, <2>2, Zenon
  <2>. QED BY <1>2, <2>2, <2>3 DEF Places
<1>. QED BY <1>3, <1>4

LEMMA EndsOn ==
  ASSUME NEW t \in Seq(NonZero), NEW N, NEW f, NEW c, Route(t, N, f, c), NEW E, Ends(t, E)
  PROVE  \A p \in Places(N, f) : E[p] \in Places(N, f)
<1>. DEFINE C == {p \in 0 .. Len(t) : p \in Places(N, f) => E[p] \in Places(N, f)}
<1>1. Len(t) \in Nat
  OBVIOUS
<1>2. ASSUME NEW p \in 0 .. Len(t), \A q \in p + 1 .. Len(t) : q \in C PROVE p \in C
  <2>1. SUFFICES ASSUME p \in Places(N, f) PROVE E[p] \in Places(N, f)
    OBVIOUS
  <2>2. PICK j \in 0 .. Len(t) : j = Joined(t, p) /\ p <= j
    BY JoinedIn
  <2>3. E[p] = IF j = p THEN p ELSE E[j]
    BY <2>2, Zenon DEF Ends
  <2>4. j \in Places(N, f)
    <3>1. NextPos(t, p) \in Places(N, f)
      BY <2>1, NextOn
    <3>2. NextPos(t, NextPos(t, p)) \in Places(N, f)
      BY <3>1, NextOn
    <3>. QED BY <2>1, <2>2, <3>1, <3>2, Zenon DEF Joined
  <2>5. CASE j = p
    BY <2>1, <2>3, <2>5
  <2>6. CASE j # p
    <3>1. j \in p + 1 .. Len(t)
      BY <1>1, <2>2, <2>6
    <3>. QED BY <1>2, <2>3, <2>4, <2>6, <3>1
  <2>. QED BY <2>5, <2>6
<1>. HIDE DEF C
<1>3. \A p \in 0 .. Len(t) : p \in C
  BY <1>1, <1>2, Downwards
<1>4. ASSUME NEW p \in Places(N, f) PROVE E[p] \in Places(N, f)
  <2>1. p \in 0 .. Len(t)
    BY NextOn
  <2>. QED BY <1>3, <2>1, Zenon DEF C
<1>. QED BY <1>4

LEMMA GraphemeOn ==
  ASSUME NEW t \in Seq(NonZero), NEW N, NEW f, NEW c, Route(t, N, f, c), NEW p \in Places(N, f)
  PROVE  str_next_grapheme(t, p) \in Places(N, f)
<1>1. NextPos(t, p) \in Places(N, f) /\ p \in 0 .. Len(t)
  BY NextOn
<1>2. NextPos(t, NextPos(t, p)) \in Places(N, f) /\ NextPos(t, p) \in 0 .. Len(t)
  BY <1>1, NextOn
<1>3. PICK E : Ends(t, E)
  BY EndsExist
<1>4. ExtendedTo(t, NextPos(t, p)) \in Places(N, f)
  <2>1. ExtendedTo(t, NextPos(t, p)) = E[NextPos(t, p)]
    BY <1>2, <1>3, ExtendedIs
  <2>2. \A q \in Places(N, f) : E[q] \in Places(N, f)
    BY <1>3, EndsOn
  <2>. QED BY <1>1, <2>1, <2>2, Zenon
<1>5. str_next_grapheme(t, p) =
           IF ~Closed(Cp(t, p)) THEN ExtendedTo(t, NextPos(t, p))
           ELSE IF Pairs(Cp(t, p), Cp(t, NextPos(t, p))) THEN NextPos(t, NextPos(t, p))
           ELSE NextPos(t, p)
  BY <1>1, GraphemeIs
<1>. QED BY <1>1, <1>2, <1>4, <1>5, Zenon

\* The beginnings of the clusters from p on, in their order.
Ordered(t, K, p) ==
  /\ \A i \in 1 .. Len(K[p]) : K[p][i] \in p .. Len(t) - 1
  /\ \A i \in 1 .. Len(K[p]), j \in 1 .. Len(K[p]) : i < j => str_next_grapheme(t, K[p][i]) <= K[p][j]
  /\ \A i \in 1 .. Len(K[p]) :
       \/ str_next_grapheme(t, K[p][i]) = Len(t)
       \/ i + 1 \in 1 .. Len(K[p]) /\ str_next_grapheme(t, K[p][i]) = K[p][i + 1]
  /\ p # Len(t) => 1 \in 1 .. Len(K[p]) /\ K[p][1] = p

LEMMA AllOrdered ==
  ASSUME NEW t \in Seq(NonZero), NEW K, Clusters(t, K)
  PROVE  \A p \in 0 .. Len(t) : Ordered(t, K, p)
<1>. DEFINE n == Len(t)
            C == {p \in 0 .. n : Ordered(t, K, p)}
<1>1. n \in Nat
  OBVIOUS
<1>2. ASSUME NEW p \in 0 .. n, \A q \in p + 1 .. n : q \in C PROVE p \in C
  <2>1. CASE p = n
    <3>1. K[p] = <<>>
      BY <2>1, Zenon DEF Clusters
    <3>2. Len(K[p]) = 0
      BY <3>1
    <3>3. \A i \in 1 .. Len(K[p]) : FALSE
      BY <3>2
    <3>. QED BY <2>1, <3>3, Zenon DEF Ordered
  <2>2. CASE p # n
    <3>1. p \in 0 .. n - 1
      BY <1>1, <2>2
    <3>2. PICK g : g = str_next_grapheme(t, p)
      OBVIOUS
    <3>3. PICK k \in Nat : k = Len(K[g])
      BY <3>1, <3>2, ClusterCons
    <3>4. g \in p + 1 .. n /\ Len(K[p]) = 1 + k /\ K[p][1] = p /\ \A i \in 1 .. k : K[p][i + 1] = K[g][i]
      <4>1. /\ g \in p + 1 .. Len(t) /\ Len(K[p]) = 1 + Len(K[g]) /\ K[p][1] = p
            /\ \A i \in 1 .. Len(K[g]) : K[p][i + 1] = K[g][i]
        <5>1. p \in 0 .. Len(t) - 1
          BY <3>1
        <5>. QED BY <3>2, <5>1, ClusterCons, SMTT(30)
      <4>. QED BY <3>3, <4>1, Zenon
    <3>5. g \in 0 .. n /\ (g = n => k = 0)
      <4>1. g \in 0 .. n
        BY <3>1, <3>4
      <4>2. g = n => K[g] = <<>>
        BY <4>1, Zenon DEF Clusters
      <4>. QED BY <3>3, <4>1, <4>2
    <3>6. /\ \A i \in 1 .. k : K[g][i] \in g .. n - 1
          /\ \A i \in 1 .. k, j \in 1 .. k : i < j => str_next_grapheme(t, K[g][i]) <= K[g][j]
          /\ \A i \in 1 .. k :
               \/ str_next_grapheme(t, K[g][i]) = n
               \/ i + 1 \in 1 .. k /\ str_next_grapheme(t, K[g][i]) = K[g][i + 1]
          /\ g # n => 1 \in 1 .. k /\ K[g][1] = g
      <4>1. Ordered(t, K, g)
        BY <1>2, <3>4
      <4>. HIDE DEF n
      <4>. QED BY <3>3, <4>1, Zenon DEF Ordered, n
    <3>. HIDE DEF n, C
    <3>7. \A i \in 1 .. 1 + k : i = 1 \/ \E h \in 1 .. k : i = h + 1 /\ h = i - 1
      <4>1. TAKE i \in 1 .. 1 + k
      <4>2. i # 1 => i - 1 \in 1 .. k /\ i = (i - 1) + 1
        OBVIOUS
      <4>. QED BY <4>2
    <3>8. ASSUME NEW i \in 1 .. 1 + k PROVE K[p][i] \in p .. n - 1
      <4>1. CASE i = 1
        BY <1>1, <3>1, <3>4, <4>1
      <4>2. CASE i # 1
        <5>1. PICK h \in 1 .. k : i = h + 1
          BY <3>7, <4>2
        <5>2. K[p][i] = K[g][h] /\ K[g][h] \in g .. n - 1
          BY <3>4, <3>6, <5>1, Zenon
        <5>. QED BY <1>1, <3>1, <3>4, <5>2
      <4>. QED BY <4>1, <4>2
    <3>9. ASSUME NEW i \in 1 .. 1 + k, NEW j \in 1 .. 1 + k, i < j
          PROVE  str_next_grapheme(t, K[p][i]) <= K[p][j]
      <4>1. j # 1
        BY <3>9
      <4>2. PICK l \in 1 .. k : j = l + 1
        BY <3>7, <4>1
      <4>3. K[p][j] = K[g][l] /\ K[g][l] \in g .. n - 1
        BY <3>4, <3>6, <4>2, Zenon
      <4>4. CASE i = 1
        <5>1. str_next_grapheme(t, K[p][i]) = g
          BY <3>2, <3>4, <4>4, Zenon
        <5>2. g <= K[g][l]
          BY <1>1, <3>1, <3>4, <4>3
        <5>. QED BY <4>3, <5>1, <5>2, Zenon
      <4>5. CASE i # 1
        <5>1. PICK h \in 1 .. k : i = h + 1
          BY <3>7, <4>5
        <5>2. K[p][i] = K[g][h]
          BY <3>4, <5>1, Zenon
        <5>3. h < l
          BY <3>9, <4>2, <5>1
        <5>. QED BY <3>6, <4>3, <5>2, <5>3, Zenon
      <4>. QED BY <4>4, <4>5
    <3>10. ASSUME NEW i \in 1 .. 1 + k
           PROVE  \/ str_next_grapheme(t, K[p][i]) = n
                  \/ i + 1 \in 1 .. 1 + k /\ str_next_grapheme(t, K[p][i]) = K[p][i + 1]
      <4>1. CASE i = 1
        <5>1. str_next_grapheme(t, K[p][i]) = g
          BY <3>2, <3>4, <4>1, Zenon
        <5>2. CASE g = n
          BY <5>1, <5>2
        <5>3. CASE g # n
          <6>1. 1 \in 1 .. k /\ K[g][1] = g
            BY <3>6, <5>3, Zenon
          <6>2. i + 1 \in 1 .. 1 + k /\ i + 1 = 1 + 1
            BY <4>1, <6>1
          <6>3. K[p][i + 1] = g
            BY <3>4, <6>1, <6>2, Zenon
          <6>. QED BY <5>1, <6>2, <6>3
        <5>. QED BY <5>2, <5>3
      <4>2. CASE i # 1
        <5>1. PICK h \in 1 .. k : i = h + 1
          BY <3>7, <4>2
        <5>2. K[p][i] = K[g][h]
          BY <3>4, <5>1, Zenon
        <5>3. CASE str_next_grapheme(t, K[g][h]) = n
          BY <5>2, <5>3, Zenon
        <5>4. CASE h + 1 \in 1 .. k /\ str_next_grapheme(t, K[g][h]) = K[g][h + 1]
          <6>1. PICK l \in 1 .. k : l = h + 1
            BY <5>4
          <6>2. K[p][l + 1] = K[g][l] /\ i = l
            BY <3>4, <5>1, <6>1, Zenon
          <6>3. i + 1 \in 1 .. 1 + k
            BY <6>2
          <6>. QED BY <5>2, <5>4, <6>1, <6>2, <6>3, Zenon
        <5>. QED BY <3>6, <5>3, <5>4, Zenon
      <4>. QED BY <4>1, <4>2
    <3>11. 1 \in 1 .. 1 + k
      OBVIOUS
    <3>12. Ordered(t, K, p)
      BY <3>4, <3>8, <3>9, <3>10, <3>11, Zenon DEF Ordered, n
    <3>. QED BY <3>12 DEF C
  <2>. QED BY <2>1, <2>2
<1>. HIDE DEF C, n
<1>3. \A p \in 0 .. n : p \in C
  BY <1>1, <1>2, Downwards
<1>. QED BY <1>3 DEF C, n

-----------------------------------------------------------------------------
(* Which code points begin a cluster *)

\* B holds where the clusters of t begin.
Begun(t, B) ==
  /\ \A p \in B : p \in 0 .. Len(t) - 1
  /\ Len(t) # 0 => 0 \in B
  /\ \A p \in B : str_next_grapheme(t, p) = Len(t) \/ str_next_grapheme(t, p) \in B
  /\ \A p \in B, q \in B : p < q => str_next_grapheme(t, p) <= q

LEMMA BegunAt ==
  ASSUME NEW t \in Seq(NonZero), NEW K, Clusters(t, K)
  PROVE  Begun(t, {K[0][j] : j \in 1 .. Len(K[0])})
<1>. DEFINE B == {K[0][j] : j \in 1 .. Len(K[0])}
<1>0. Len(t) \in Nat /\ 0 \in 0 .. Len(t)
  OBVIOUS
<1>1. Ordered(t, K, 0)
  BY <1>0, AllOrdered
<1>2. /\ \A i \in 1 .. Len(K[0]) : K[0][i] \in 0 .. Len(t) - 1
      /\ \A i \in 1 .. Len(K[0]), j \in 1 .. Len(K[0]) : i < j => str_next_grapheme(t, K[0][i]) <= K[0][j]
      /\ \A i \in 1 .. Len(K[0]) :
           \/ str_next_grapheme(t, K[0][i]) = Len(t)
           \/ i + 1 \in 1 .. Len(K[0]) /\ str_next_grapheme(t, K[0][i]) = K[0][i + 1]
      /\ 0 # Len(t) => 1 \in 1 .. Len(K[0]) /\ K[0][1] = 0
  BY <1>1, Zenon DEF Ordered
<1>3. PICK m \in Nat : m = Len(K[0])
  <2>1. K[0] \in Seq(Int)
    BY <1>0 DEF Clusters
  <2>. QED BY <2>1
<1>4. \A p \in B : p \in 0 .. Len(t) - 1
  BY <1>2, Zenon
<1>5. Len(t) # 0 => 0 \in B
  BY <1>2, Zenon
<1>6. \A p \in B : str_next_grapheme(t, p) = Len(t) \/ str_next_grapheme(t, p) \in B
  BY <1>2, Zenon
<1>7. ASSUME NEW p \in B, NEW q \in B, p < q PROVE str_next_grapheme(t, p) <= q
  <2>1. PICK i \in 1 .. m, j \in 1 .. m : p = K[0][i] /\ q = K[0][j]
    BY <1>3
  <2>2. p \in 0 .. Len(t) - 1 /\ q \in 0 .. Len(t) - 1
    BY <1>4
  <2>3. CASE i < j
    BY <1>2, <1>3, <2>1, <2>3, Zenon
  <2>4. CASE i = j
    BY <1>7, <2>1, <2>2, <2>4
  <2>5. CASE j < i
    <3>1. str_next_grapheme(t, q) <= p
      BY <1>2, <1>3, <2>1, <2>5, Zenon
    <3>2. str_next_grapheme(t, q) \in q + 1 .. Len(t)
      BY <2>2, GraphemeIn
    <3>. QED BY <1>0, <1>7, <2>2, <3>1, <3>2
  <2>. QED BY <2>3, <2>4, <2>5
<1>. HIDE DEF B
<1>8. Begun(t, B)
  BY <1>4, <1>5, <1>6, <1>7, Zenon DEF Begun
<1>. QED BY <1>8 DEF B

\* t has N code points c at f; those at S begin a cluster, those at g join the next one.
Setting(t, N, f, c, S, g, E) ==
  /\ t \in Seq(NonZero) /\ Route(t, N, f, c) /\ Ends(t, E)
  /\ \E B : Begun(t, B) /\ S = {i \in 1 .. N : f[i - 1] \in B}
  /\ \A i \in 1 .. N : g[i] <=> c[i] = GRAPHEME_CLUSTER_ZWJ /\ i \notin S /\ ~g[i - 1]

\* i is in the cluster that begins at s, and where that ends has been found so far.
Group(t, N, f, c, S, g, E, i, s) ==
  /\ s \in S /\ s <= i /\ \A j \in s + 1 .. i : j \notin S
  /\ \/ /\ Closed(c[s]) /\ i = s
        /\ str_next_grapheme(t, f[s - 1]) = IF i < N /\ Pairs(c[s], c[s + 1]) THEN f[i + 1] ELSE f[i]
     \/ /\ Closed(c[s]) /\ i = s + 1 /\ Pairs(c[s], c[i])
        /\ str_next_grapheme(t, f[s - 1]) = f[i]
     \/ /\ ~Closed(c[s]) /\ g[i] /\ i < N
        /\ str_next_grapheme(t, f[s - 1]) = E[f[i + 1]]
     \/ /\ ~Closed(c[s]) /\ ~g[i]
        /\ str_next_grapheme(t, f[s - 1]) = E[f[i]]

LEMMA Steps ==
  ASSUME NEW t, NEW N, NEW f, NEW c, NEW S, NEW g, NEW E, Setting(t, N, f, c, S, g, E), NEW i \in 0 .. N
  PROVE  /\ f[i] \in 0 .. Len(t)
         /\ i = N => f[i] = Len(t) /\ Cp(t, f[i]) = 0
         /\ i # N => /\ f[i] < Len(t) /\ NextPos(t, f[i]) = f[i + 1] /\ Cp(t, f[i]) = c[i + 1]
                     /\ Cp(t, f[i]) # 0 /\ i + 1 \in 1 .. N /\ f[i] < f[i + 1] /\ f[i + 1] \in 0 .. Len(t)
<1>0. t \in Seq(NonZero) /\ Route(t, N, f, c)
  BY DEF Setting
<1>1. /\ N \in Nat /\ f \in [0 .. N -> 0 .. Len(t)] /\ f[N] = Len(t)
      /\ \A j \in 1 .. N : f[j] = NextPos(t, f[j - 1]) /\ f[j - 1] < Len(t) /\ c[j] = Cp(t, f[j - 1])
  BY <1>0, Zenon DEF Route
<1>2. f[i] \in 0 .. Len(t)
  BY <1>1
<1>3. CASE i = N
  <2>1. str_next_codepoint(t, f[i]) = [cp |-> 0, pos |-> Len(t)]
    BY <1>0, <1>1, <1>3, TextEnd, Zenon
  <2>2. Cp(t, f[i]) = 0
    BY <2>1 DEF Cp
  <2>. QED BY <1>1, <1>2, <1>3, <2>2, Zenon
<1>4. CASE i # N
  <2>1. PICK k : k = i + 1
    OBVIOUS
  <2>2. k \in 1 .. N /\ k \in 0 .. N /\ k - 1 = i
    BY <1>1, <1>4, <2>1
  <2>3. f[k] = NextPos(t, f[i]) /\ f[i] < Len(t) /\ c[k] = Cp(t, f[i]) /\ f[k] \in 0 .. Len(t)
    <3>1. f[k] \in 0 .. Len(t)
      BY <1>1, <2>2
    <3>. QED BY <1>1, <2>2, <3>1, Zenon
  <2>4. PICK p \in Nat : p = f[i]
    BY <1>0, <1>2
  <2>5. Cp(t, p) # 0
    BY <1>0, <2>3, <2>4, SomeCodepoint
  <2>6. f[i] < f[k]
    <3>1. Len(t) \in Nat
      BY <1>0
    <3>2. p # Len(t) /\ p \in 0 .. Len(t)
      BY <1>2, <2>3, <2>4, <3>1
    <3>3. p < NextPos(t, p)
      BY <1>0, <3>2, NextIn
    <3>. QED BY <2>3, <2>4, <3>3, Zenon
  <2>. QED BY <1>2, <1>4, <2>1, <2>2, <2>3, <2>4, <2>5, <2>6, Zenon
<1>. QED BY <1>3, <1>4

LEMMA StartsIn ==
  ASSUME NEW t, NEW N, NEW f, NEW c, NEW S, NEW g, NEW E, Setting(t, N, f, c, S, g, E), NEW s \in S
  PROVE  /\ N \in Nat /\ s \in 1 .. N /\ s - 1 \in 0 .. N /\ s \in 0 .. N /\ ~g[s]
         /\ str_next_grapheme(t, f[s - 1]) \in 0 .. Len(t)
<1>0. t \in Seq(NonZero) /\ Route(t, N, f, c)
  BY DEF Setting
<1>1. N \in Nat
  BY <1>0 DEF Route
<1>2. s \in 1 .. N
  BY DEF Setting
<1>3. ~g[s]
  BY <1>2, Zenon DEF Setting
<1>4. s - 1 \in 0 .. N /\ s \in 0 .. N /\ s - 1 # N
  BY <1>1, <1>2
<1>5. PICK p \in 0 .. Len(t) : p = f[s - 1] /\ p < Len(t)
  BY <1>4, Steps
<1>6. p \in 0 .. Len(t) - 1
  BY <1>0, <1>5
<1>7. str_next_grapheme(t, p) \in p + 1 .. Len(t)
  BY <1>0, <1>6, GraphemeIn
<1>8. str_next_grapheme(t, p) \in 0 .. Len(t)
  BY <1>0, <1>6, <1>7
<1>. QED BY <1>1, <1>2, <1>3, <1>4, <1>5, <1>8, Zenon

\* What joins is followed by something, and nothing pairs with the end of the text.
LEMMA GroupStarts ==
  ASSUME NEW t, NEW N, NEW f, NEW c, NEW S, NEW g, NEW E, Setting(t, N, f, c, S, g, E), NEW s \in S
  PROVE  Group(t, N, f, c, S, g, E, s, s)
<1>0. t \in Seq(NonZero) /\ Ends(t, E)
  BY DEF Setting
<1>1. N \in Nat /\ s \in 1 .. N /\ s - 1 \in 0 .. N /\ s \in 0 .. N /\ ~g[s]
  BY StartsIn
<1>2. PICK r : r = s - 1
  OBVIOUS
<1>3. r \in 0 .. N /\ r # N /\ r + 1 = s
  BY <1>1, <1>2
<1>4. f[r] \in 0 .. Len(t) /\ NextPos(t, f[r]) = f[s] /\ Cp(t, f[r]) = c[s] /\ f[s] \in 0 .. Len(t)
  BY <1>3, Steps
<1>5. str_next_grapheme(t, f[r]) = IF ~Closed(c[s]) THEN ExtendedTo(t, f[s])
                                   ELSE IF Pairs(c[s], Cp(t, f[s])) THEN NextPos(t, f[s])
                                   ELSE f[s]
  <2>1. PICK p \in 0 .. Len(t) : p = f[r]
    BY <1>4
  <2>2. str_next_grapheme(t, p) =
           IF ~Closed(Cp(t, p)) THEN ExtendedTo(t, NextPos(t, p))
           ELSE IF Pairs(Cp(t, p), Cp(t, NextPos(t, p))) THEN NextPos(t, NextPos(t, p))
           ELSE NextPos(t, p)
    BY <1>0, GraphemeIs
  <2>. QED BY <1>4, <2>1, <2>2, Zenon
<1>6. s <= s /\ \A j \in s + 1 .. s : j \notin S
  BY <1>1
<1>7. CASE ~Closed(c[s])
  <2>1. ExtendedTo(t, f[s]) = E[f[s]]
    BY <1>0, <1>4, ExtendedIs
  <2>2. str_next_grapheme(t, f[s - 1]) = E[f[s]]
    BY <1>2, <1>5, <1>7, <2>1, Zenon
  <2>. QED BY <1>1, <1>6, <1>7, <2>2, Zenon DEF Group
<1>8. CASE Closed(c[s])
  <2>1. CASE s = N
    <3>1. Cp(t, f[s]) = 0
      BY <1>1, <2>1, Steps
    <3>2. ~Pairs(c[s], Cp(t, f[s]))
      BY <3>1, NoneInert, InertPairs
    <3>3. str_next_grapheme(t, f[s - 1]) = f[s]
      BY <1>2, <1>5, <1>8, <3>2, Zenon
    <3>4. ~(s < N)
      BY <1>1, <2>1
    <3>. QED BY <1>6, <1>8, <3>3, <3>4, Zenon DEF Group
  <2>2. CASE s # N
    <3>1. s < N
      BY <1>1, <2>2
    <3>2. NextPos(t, f[s]) = f[s + 1] /\ Cp(t, f[s]) = c[s + 1]
      BY <1>1, <2>2, Steps
    <3>3. str_next_grapheme(t, f[s - 1]) = IF s < N /\ Pairs(c[s], c[s + 1]) THEN f[s + 1] ELSE f[s]
      BY <1>2, <1>5, <1>8, <3>1, <3>2, Zenon
    <3>. QED BY <1>6, <1>8, <3>3, Zenon DEF Group
  <2>. QED BY <2>1, <2>2
<1>. QED BY <1>7, <1>8

LEMMA JoinerAlone == ASSUME NEW a, NEW d, Attaches(d) \/ Pairs(a, d) PROVE d # GRAPHEME_CLUSTER_ZWJ
<1>1. SUFFICES ASSUME d = GRAPHEME_CLUSTER_ZWJ PROVE ~Attaches(d) /\ ~Pairs(a, d)
  BY Zenon
<1>2. \A r \in GRAPHEME_CLUSTER_EXTEND_RANGES : ~(r[1] <= d /\ d <= r[2])
  BY <1>1, SMT DEF GRAPHEME_CLUSTER_EXTEND_RANGES, GRAPHEME_CLUSTER_ZWJ
<1>3. \A r \in GRAPHEME_CLUSTER_VARIATION_SELECTOR_RANGES : ~(r[1] <= d /\ d <= r[2])
  BY <1>1, SMT DEF GRAPHEME_CLUSTER_VARIATION_SELECTOR_RANGES, GRAPHEME_CLUSTER_ZWJ
<1>4. ~Attaches(d)
  BY <1>2, <1>3 DEF Attaches, grapheme_cluster_is_extend, grapheme_cluster_is_variation_selector,
                    codepoint_in_ranges
<1>5. ~Pairs(a, d)
  BY <1>1, SMT DEF Pairs, LF, GRAPHEME_CLUSTER_ZWJ, grapheme_cluster_is_regional_indicator
<1>. QED BY <1>4, <1>5

LEMMA PairsClosed == ASSUME NEW a, NEW d, Pairs(a, d) PROVE Closed(a)
BY Zenon DEF Pairs, Closed

LEMMA GroupEnd ==
  ASSUME NEW t, NEW N, NEW f, NEW c, NEW S, NEW g, NEW E, Setting(t, N, f, c, S, g, E),
         NEW i \in 0 .. N, NEW s, Group(t, N, f, c, S, g, E, i, s)
  PROVE  f[i] <= str_next_grapheme(t, f[s - 1])
<1>0. t \in Seq(NonZero) /\ Ends(t, E) /\ Len(t) \in Nat
  BY DEF Setting
<1>1. N \in Nat
  BY DEF Setting, Route
<1>2. PICK a \in 0 .. Len(t) : a = f[i] /\ a <= E[a] /\ E[a] \in 0 .. Len(t) /\ a <= a
  <2>1. f[i] \in 0 .. Len(t)
    BY Steps
  <2>2. E[f[i]] \in 0 .. Len(t) /\ f[i] <= E[f[i]] /\ f[i] <= f[i]
    BY <1>0, <2>1, EndsRise DEF Ends
  <2>. QED BY <2>1, <2>2
<1>3. ASSUME i < N
      PROVE  f[i] <= f[i + 1] /\ f[i] <= E[f[i + 1]]
  <2>1. i # N
    BY <1>1, <1>3
  <2>2. f[i] < f[i + 1] /\ f[i + 1] \in 0 .. Len(t)
    BY <2>1, Steps
  <2>3. PICK b \in 0 .. Len(t) : b = f[i + 1] /\ a < b
    BY <1>2, <2>2
  <2>4. b <= E[b] /\ E[b] \in 0 .. Len(t)
    BY <1>0, EndsRise DEF Ends
  <2>5. a <= b /\ a <= E[b]
    BY <1>0, <2>3, <2>4
  <2>. QED BY <1>2, <2>3, <2>5, Zenon
<1>. QED BY <1>2, <1>3, Zenon DEF Group

\* A code point begins a cluster exactly when the one before it ends there.
LEMMA GroupNext ==
  ASSUME NEW t, NEW N, NEW f, NEW c, NEW S, NEW g, NEW E, Setting(t, N, f, c, S, g, E),
         NEW i \in 1 .. N - 1, NEW s, Group(t, N, f, c, S, g, E, i, s)
  PROVE  i + 1 \in S <=> str_next_grapheme(t, f[s - 1]) = f[i]
<1>0. t \in Seq(NonZero) /\ Route(t, N, f, c) /\ Len(t) \in Nat
  BY DEF Setting
<1>1. PICK B : Begun(t, B) /\ S = {j \in 1 .. N : f[j - 1] \in B}
  BY Zenon DEF Setting
<1>2. s \in S /\ s <= i
  BY DEF Group
<1>3. /\ N \in Nat /\ s \in 1 .. N /\ s - 1 \in 0 .. N /\ i \in 0 .. N /\ i # N /\ s - 1 < i
      /\ str_next_grapheme(t, f[s - 1]) \in 0 .. Len(t)
  <2>1. /\ N \in Nat /\ s \in 1 .. N /\ s - 1 \in 0 .. N
        /\ str_next_grapheme(t, f[s - 1]) \in 0 .. Len(t)
    BY <1>2, StartsIn
  <2>. QED BY <1>2, <2>1
<1>4. PICK k : k = i + 1
  OBVIOUS
<1>5. k \in 1 .. N /\ k - 1 = i
  BY <1>3, <1>4
<1>6. k \in S <=> f[i] \in B
  BY <1>1, <1>5
<1>7. f[s - 1] \in B
  BY <1>1, <1>2
<1>8. f[s - 1] < f[i]
  BY <1>0, <1>3, RouteRises
<1>9. f[i] < Len(t) /\ f[i] \in 0 .. Len(t)
  BY <1>3, Steps
<1>10. PICK e \in 0 .. Len(t) : e = str_next_grapheme(t, f[s - 1])
  BY <1>3
<1>11. f[i] <= e
  BY <1>3, <1>10, GroupEnd, Zenon
<1>12. f[i] \in B => e <= f[i]
  BY <1>1, <1>7, <1>8, <1>10, Zenon DEF Begun
<1>13. f[i] \in B => e = f[i]
  BY <1>9, <1>11, <1>12
<1>14. e = f[i] => f[i] \in B
  <2>1. HAVE e = f[i]
  <2>2. e # Len(t)
    BY <1>0, <1>9, <2>1
  <2>. QED BY <1>1, <1>7, <1>10, <2>1, <2>2, Zenon DEF Begun
<1>. QED BY <1>4, <1>6, <1>10, <1>13, <1>14, Zenon

\* The rule of ClusterRules for the code point behind i, whose cluster begins at s.
Rule(N, c, S, g, i, s) ==
  i + 1 \notin S <=>
    \/ i \in S /\ Pairs(c[i], c[i + 1])
    \/ ~Closed(c[s]) /\ Attaches(c[i + 1])
    \/ ~Closed(c[s]) /\ c[i + 1] = GRAPHEME_CLUSTER_ZWJ /\ i + 1 < N
    \/ g[i]

LEMMA GroupStep ==
  ASSUME NEW t, NEW N, NEW f, NEW c, NEW S, NEW g, NEW E, Setting(t, N, f, c, S, g, E),
         NEW i \in 1 .. N - 1, NEW s, Group(t, N, f, c, S, g, E, i, s)
  PROVE  /\ Rule(N, c, S, g, i, s)
         /\ i + 1 \notin S => Group(t, N, f, c, S, g, E, i + 1, s)
<1>0. t \in Seq(NonZero) /\ Ends(t, E) /\ Len(t) \in Nat /\ N \in Nat
  BY DEF Setting, Route
<1>1. s \in S /\ s <= i /\ s \in 1 .. N
  BY StartsIn DEF Group
<1>2. PICK k : k = i + 1
  OBVIOUS
<1>3. k \in 1 .. N /\ k \in 0 .. N /\ k # 1 /\ k - 1 = i /\ i \in 0 .. N /\ i # N /\ i < N /\ i \in 1 .. N /\ s <= k
  BY <1>0, <1>1, <1>2
<1>4. PICK e : e = str_next_grapheme(t, f[s - 1])
  OBVIOUS
<1>5. k \in S <=> e = f[i]
  <2>1. i + 1 \in S <=> str_next_grapheme(t, f[s - 1]) = f[i]
    BY GroupNext
  <2>. QED BY <1>2, <1>4, <2>1, Zenon
<1>6. /\ f[i] \in 0 .. Len(t) /\ f[i] < Len(t) /\ NextPos(t, f[i]) = f[k] /\ Cp(t, f[i]) = c[k]
      /\ f[i] < f[k] /\ f[k] \in 0 .. Len(t)
  BY <1>2, <1>3, Steps
<1>7. i \in S => i = s
  <2>1. i # s => i \in s + 1 .. i
    BY <1>1, <1>3
  <2>2. \A j \in s + 1 .. i : j \notin S
    BY Zenon DEF Group
  <2>. QED BY <2>1, <2>2, Zenon
<1>8. k \notin S => \A j \in s + 1 .. k : j \notin S
  <2>1. \A j \in s + 1 .. k : j = k \/ j \in s + 1 .. i
    BY <1>1, <1>2, <1>3
  <2>2. \A j \in s + 1 .. i : j \notin S
    BY Zenon DEF Group
  <2>. QED BY <2>1, <2>2, Zenon
<1>9. g[k] <=> c[k] = GRAPHEME_CLUSTER_ZWJ /\ k \notin S /\ ~g[i]
  BY <1>3, Zenon DEF Setting
<1>10. g[i] => i \notin S /\ c[i] = GRAPHEME_CLUSTER_ZWJ
  BY <1>3, Zenon DEF Setting
<1>11. \A q \in 0 .. Len(t) : E[q] \in 0 .. Len(t) /\ q <= E[q]
  BY <1>0, EndsRise DEF Ends
<1>12. Rule(N, c, S, g, i, s) <=>
         (k \notin S <=> \/ i \in S /\ Pairs(c[i], c[k])
                         \/ ~Closed(c[s]) /\ Attaches(c[k])
                         \/ ~Closed(c[s]) /\ c[k] = GRAPHEME_CLUSTER_ZWJ /\ k < N
                         \/ g[i])
  BY <1>2, Zenon DEF Rule
<1>13. \/ Closed(c[s]) /\ i = s /\ e = IF Pairs(c[s], c[k]) THEN f[k] ELSE f[i]
       \/ Closed(c[s]) /\ i = s + 1 /\ Pairs(c[s], c[i]) /\ e = f[i]
       \/ ~Closed(c[s]) /\ g[i] /\ e = E[f[k]]
       \/ ~Closed(c[s]) /\ ~g[i] /\ e = E[f[i]]
  BY <1>2, <1>3, <1>4, Zenon DEF Group
<1>14. f[k] # f[i]
  BY <1>6
<1>15. ASSUME k \notin S,
              \/ Closed(c[s]) /\ k = s + 1 /\ Pairs(c[s], c[k]) /\ e = f[k]
              \/ ~Closed(c[s]) /\ g[k] /\ k < N /\ e = E[f[k + 1]]
              \/ ~Closed(c[s]) /\ ~g[k] /\ e = E[f[k]]
       PROVE  Group(t, N, f, c, S, g, E, k, s)
  BY <1>1, <1>3, <1>4, <1>8, <1>15, Zenon DEF Group
<1>16. CASE Closed(c[s]) /\ i = s /\ e = IF Pairs(c[s], c[k]) THEN f[k] ELSE f[i]
  <2>1. ~g[i]
    BY <1>1, <1>10, <1>16
  <2>2. CASE Pairs(c[s], c[k])
    <3>1. k \notin S
      BY <1>5, <1>14, <1>16, <2>2, Zenon
    <3>2. Rule(N, c, S, g, i, s)
      BY <1>1, <1>12, <1>16, <2>2, <3>1, Zenon
    <3>. QED BY <1>2, <1>15, <1>16, <2>2, <3>1, <3>2, Zenon
  <2>3. CASE ~Pairs(c[s], c[k])
    <3>1. k \in S
      BY <1>5, <1>16, <2>3, Zenon
    <3>2. Rule(N, c, S, g, i, s)
      BY <1>12, <1>16, <2>1, <2>3, <3>1, Zenon
    <3>. QED BY <1>2, <3>1, <3>2, Zenon
  <2>. QED BY <2>2, <2>3
<1>17. CASE Closed(c[s]) /\ i = s + 1 /\ Pairs(c[s], c[i]) /\ e = f[i]
  <2>1. k \in S
    BY <1>5, <1>17, Zenon
  <2>2. i # s
    BY <1>1, <1>17
  <2>3. ~g[i]
    BY <1>10, <1>17, JoinerAlone, Zenon
  <2>4. Rule(N, c, S, g, i, s)
    BY <1>7, <1>12, <1>17, <2>1, <2>2, <2>3, Zenon
  <2>. QED BY <1>2, <2>1, <2>4, Zenon
<1>18. CASE ~Closed(c[s]) /\ g[i] /\ e = E[f[k]]
  <2>1. k \notin S
    <3>1. E[f[k]] \in 0 .. Len(t) /\ f[k] <= E[f[k]]
      BY <1>6, <1>11
    <3>2. E[f[k]] # f[i]
      BY <1>6, <3>1
    <3>. QED BY <1>5, <1>18, <3>2, Zenon
  <2>2. Rule(N, c, S, g, i, s)
    BY <1>12, <1>18, <2>1, Zenon
  <2>. QED BY <1>2, <1>9, <1>15, <1>18, <2>1, <2>2, Zenon
<1>19. CASE ~Closed(c[s]) /\ ~g[i] /\ e = E[f[i]]
  <2>1. ~(i \in S /\ Pairs(c[i], c[k]))
    BY <1>7, <1>19, PairsClosed, Zenon
  <2>2. E[f[i]] = IF Joined(t, f[i]) = f[i] THEN f[i] ELSE E[Joined(t, f[i])]
    BY <1>0, <1>6, Zenon DEF Ends
  <2>3. Joined(t, f[i]) = IF Attaches(c[k]) THEN f[k]
                          ELSE IF c[k] = GRAPHEME_CLUSTER_ZWJ /\ Cp(t, f[k]) # 0 THEN NextPos(t, f[k])
                          ELSE f[i]
    BY <1>6, Zenon DEF Joined, Glued
  <2>4. Rule(N, c, S, g, i, s) <=>
          (k \notin S <=> Attaches(c[k]) \/ (c[k] = GRAPHEME_CLUSTER_ZWJ /\ k < N))
    BY <1>12, <1>19, <2>1, Zenon
  <2>5. CASE Attaches(c[k])
    <3>1. E[f[i]] = E[f[k]]
      BY <1>14, <2>2, <2>3, <2>5, Zenon
    <3>2. k \notin S
      <4>1. E[f[k]] \in 0 .. Len(t) /\ f[k] <= E[f[k]]
        BY <1>6, <1>11
      <4>2. E[f[k]] # f[i]
        BY <1>6, <4>1
      <4>. QED BY <1>5, <1>19, <3>1, <4>2, Zenon
    <3>3. ~g[k]
      BY <1>9, <2>5, JoinerAlone, Zenon
    <3>4. Rule(N, c, S, g, i, s)
      BY <2>4, <2>5, <3>2, Zenon
    <3>. QED BY <1>2, <1>15, <1>19, <3>1, <3>2, <3>3, <3>4, Zenon
  <2>6. CASE ~Attaches(c[k]) /\ c[k] = GRAPHEME_CLUSTER_ZWJ /\ k # N
    <3>1. /\ Cp(t, f[k]) # 0 /\ NextPos(t, f[k]) = f[k + 1] /\ f[k] < f[k + 1]
          /\ f[k + 1] \in 0 .. Len(t)
      BY <1>3, <2>6, Steps
    <3>2. Joined(t, f[i]) = f[k + 1]
      BY <2>3, <2>6, <3>1, Zenon
    <3>3. E[f[k + 1]] \in 0 .. Len(t) /\ f[k + 1] <= E[f[k + 1]]
      BY <1>11, <3>1
    <3>4. f[k + 1] # f[i] /\ E[f[k + 1]] # f[i]
      <4>1. PICK a \in 0 .. Len(t), b \in 0 .. Len(t), x \in 0 .. Len(t), y \in 0 .. Len(t) :
              a = f[i] /\ b = f[k] /\ x = f[k + 1] /\ y = E[f[k + 1]]
        BY <1>6, <3>1, <3>3
      <4>2. a < b /\ b < x /\ x <= y
        BY <1>6, <3>1, <3>3, <4>1, Zenon
      <4>3. x # a /\ y # a
        BY <1>0, <4>2
      <4>. QED BY <4>1, <4>3, Zenon
    <3>5. E[f[i]] = E[f[k + 1]]
      BY <2>2, <3>2, <3>4, Zenon
    <3>6. k \notin S
      BY <1>5, <1>19, <3>4, <3>5, Zenon
    <3>7. k < N
      BY <1>0, <1>3, <2>6
    <3>8. g[k]
      BY <1>9, <1>19, <2>6, <3>6, Zenon
    <3>9. Rule(N, c, S, g, i, s)
      BY <2>4, <2>6, <3>6, <3>7, Zenon
    <3>. QED BY <1>2, <1>15, <1>19, <3>5, <3>6, <3>7, <3>8, <3>9, Zenon
  <2>7. CASE ~Attaches(c[k]) /\ ~(c[k] = GRAPHEME_CLUSTER_ZWJ /\ k # N)
    <3>1. ~(c[k] = GRAPHEME_CLUSTER_ZWJ /\ Cp(t, f[k]) # 0)
      <4>1. k = N => Cp(t, f[k]) = 0
        BY <1>3, Steps
      <4>. QED BY <2>7, <4>1, Zenon
    <3>2. Joined(t, f[i]) = f[i]
      BY <2>3, <2>7, <3>1, Zenon
    <3>3. k \in S
      BY <1>5, <1>19, <2>2, <3>2, Zenon
    <3>4. ~(c[k] = GRAPHEME_CLUSTER_ZWJ /\ k < N)
      <4>1. k < N => k # N
        BY <1>0
      <4>. QED BY <2>7, <4>1, Zenon
    <3>5. Rule(N, c, S, g, i, s)
      BY <2>4, <2>7, <3>3, <3>4, Zenon
    <3>. QED BY <1>2, <3>3, <3>5, Zenon
  <2>. QED BY <2>5, <2>6, <2>7, Zenon
<1>. QED BY <1>13, <1>16, <1>17, <1>18, <1>19, Zenon

LEMMA MaxIs ==
  ASSUME NEW T, T \subseteq Int, NEW m \in T, \A x \in T : x <= m
  PROVE  Max(T) = m
<1>. DEFINE P(x) == x \in T /\ \A y \in T : x >= y
<1>1. P(m)
  BY DEF P
<1>2. PICK z : z = Max(T)
  OBVIOUS
<1>3. P(z)
  <2>1. z = CHOOSE x \in T : \A y \in T : x >= y
    BY <1>2, Zenon DEF Max
  <2>. QED BY <1>1, <2>1 DEF P
<1>4. z \in Int /\ z <= m /\ m <= z
  BY <1>3 DEF P
<1>. QED BY <1>2, <1>4

\* The group of every code point, and what it says of the next one.
LEMMA Grouped ==
  ASSUME NEW t, NEW N, NEW f, NEW c, NEW S, NEW g, NEW E, Setting(t, N, f, c, S, g, E)
  PROVE  \A i \in 1 .. N : \E s \in S : Group(t, N, f, c, S, g, E, i, s)
<1>0. N \in Nat
  BY DEF Setting, Route
<1>. DEFINE C == {i \in 0 .. N : i # 0 => \E s \in S : Group(t, N, f, c, S, g, E, i, s)}
<1>1. ASSUME NEW i \in 0 .. N, \A q \in 0 .. i - 1 : q \in C PROVE i \in C
  <2>1. SUFFICES ASSUME i # 0 PROVE \E s \in S : Group(t, N, f, c, S, g, E, i, s)
    OBVIOUS
  <2>2. CASE i = 1
    <3>1. 1 \in S
      <4>1. PICK B : Begun(t, B) /\ S = {j \in 1 .. N : f[j - 1] \in B}
        BY Zenon DEF Setting
      <4>2. 0 \in 0 .. N /\ 0 # N /\ 1 \in 1 .. N /\ 1 - 1 = 0
        BY <1>0, <2>2
      <4>3. f[0] = 0
        BY Zenon DEF Setting, Route
      <4>4. f[0] < Len(t)
        BY <4>2, Steps
      <4>5. Len(t) # 0
        BY <4>3, <4>4
      <4>. QED BY <4>1, <4>2, <4>3, <4>5, Zenon DEF Begun
    <3>. QED BY <2>2, <3>1, GroupStarts
  <2>3. CASE i # 1
    <3>1. PICK j \in 1 .. N - 1 : i = j + 1 /\ j \in 0 .. i - 1 /\ j # 0
      <4>1. i - 1 \in 1 .. N - 1 /\ i = (i - 1) + 1 /\ i - 1 \in 0 .. i - 1 /\ i - 1 # 0
        BY <1>0, <2>1, <2>3
      <4>. QED BY <4>1
    <3>2. PICK s \in S : Group(t, N, f, c, S, g, E, j, s)
      BY <1>1, <3>1
    <3>3. CASE i \in S
      BY <3>3, GroupStarts
    <3>4. CASE i \notin S
      <4>1. j + 1 \notin S => Group(t, N, f, c, S, g, E, j + 1, s)
        BY <3>2, GroupStep
      <4>. QED BY <3>1, <3>4, <4>1, Zenon
    <3>. QED BY <3>3, <3>4
  <2>. QED BY <2>2, <2>3
<1>. HIDE DEF C
<1>2. \A i \in 0 .. N : i \in C
  BY <1>0, <1>1, Upwards
<1>3. \A i \in 1 .. N : i \in 0 .. N /\ i # 0
  BY <1>0
<1>. QED BY <1>2, <1>3, Zenon DEF C

LEMMA RulesHold ==
  ASSUME NEW t, NEW N, NEW f, NEW c, NEW S, NEW g, NEW E, Setting(t, N, f, c, S, g, E),
         NEW i \in 2 .. N
  PROVE  i \notin S <=>
           \/ i - 1 \in S /\ Pairs(c[i - 1], c[i])
           \/ ~Closed(c[Max({j \in S : j <= i - 1})]) /\ Attaches(c[i])
           \/ ~Closed(c[Max({j \in S : j <= i - 1})]) /\ c[i] = GRAPHEME_CLUSTER_ZWJ /\ i < N
           \/ g[i - 1]
<1>0. N \in Nat /\ S \subseteq 1 .. N
  BY DEF Setting, Route
<1>1. PICK h : h = i - 1
  OBVIOUS
<1>2. h \in 1 .. N - 1 /\ h \in 1 .. N /\ h + 1 = i
  BY <1>0, <1>1
<1>3. PICK s \in S : Group(t, N, f, c, S, g, E, h, s)
  BY <1>2, Grouped
<1>4. Rule(N, c, S, g, h, s)
  BY <1>2, <1>3, GroupStep
<1>5. Max({j \in S : j <= h}) = s
  <2>. DEFINE T == {j \in S : j <= h}
  <2>1. s <= h /\ \A j \in s + 1 .. h : j \notin S
    BY <1>3, Zenon DEF Group
  <2>2. T \subseteq Int /\ s \in T
    <3>1. \A j \in 1 .. N : j \in Int
      BY <1>0
    <3>2. \A j \in S : j \in Int
      BY <1>0, <3>1, Zenon
    <3>3. s \in T
      BY <2>1, Zenon
    <3>4. \A j \in T : j \in S
      BY Zenon
    <3>. HIDE DEF T
    <3>. QED BY <3>2, <3>3, <3>4, Zenon
  <2>3. ASSUME NEW x \in T PROVE x <= s
    <3>1. x \in S /\ x <= h /\ x \in Int /\ s \in Int /\ h \in Int
      BY <1>0, <1>2
    <3>2. x \notin s + 1 .. h
      BY <2>1, <3>1, Zenon
    <3>. QED BY <3>1, <3>2
  <2>. HIDE DEF T
  <2>4. Max(T) = s
    BY <2>2, <2>3, MaxIs
  <2>. QED BY <2>4 DEF T
<1>. QED BY <1>1, <1>2, <1>4, <1>5, Zenon DEF Rule

\* As many code points begin a cluster as there are clusters.
LEMMA StartsCounted ==
  ASSUME NEW t \in Seq(NonZero), NEW N, NEW f, NEW c, Route(t, N, f, c), NEW K, Clusters(t, K), NEW S,
         S = {i \in 1 .. N : f[i - 1] \in {K[0][j] : j \in 1 .. Len(K[0])}}
  PROVE  Cardinality(S) = Len(K[0])
<1>0. Len(t) \in Nat /\ 0 \in 0 .. Len(t) /\ N \in Nat
  BY DEF Route
<1>1. PICK m \in Nat : m = Len(K[0])
  <2>1. K[0] \in Seq(Int)
    BY <1>0 DEF Clusters
  <2>. QED BY <2>1
<1>2. Ordered(t, K, 0)
  BY <1>0, AllOrdered
<1>3. /\ \A i \in 1 .. m : K[0][i] \in 0 .. Len(t) - 1
      /\ \A i \in 1 .. m, j \in 1 .. m : i < j => str_next_grapheme(t, K[0][i]) <= K[0][j]
      /\ \A i \in 1 .. m :
           \/ str_next_grapheme(t, K[0][i]) = Len(t)
           \/ i + 1 \in 1 .. m /\ str_next_grapheme(t, K[0][i]) = K[0][i + 1]
      /\ 0 # Len(t) => 1 \in 1 .. m /\ K[0][1] = 0
  BY <1>1, <1>2, Zenon DEF Ordered
<1>4. ASSUME NEW i \in 1 .. m, NEW j \in 1 .. m, i < j PROVE K[0][i] # K[0][j]
  <2>1. K[0][i] \in 0 .. Len(t) - 1 /\ K[0][j] \in 0 .. Len(t) - 1
    BY <1>3
  <2>2. str_next_grapheme(t, K[0][i]) <= K[0][j]
    BY <1>3, <1>4
  <2>3. str_next_grapheme(t, K[0][i]) \in K[0][i] + 1 .. Len(t)
    BY <2>1, GraphemeIn
  <2>. QED BY <1>0, <2>1, <2>2, <2>3
<1>5. ASSUME NEW i \in 1 .. m, NEW j \in 1 .. m, K[0][i] = K[0][j] PROVE i = j
  <2>1. i < j \/ i = j \/ j < i
    OBVIOUS
  <2>. QED BY <1>4, <1>5, <2>1, Zenon
<1>6. \A i \in 1 .. m : K[0][i] \in Places(N, f)
  <2>. DEFINE D == {i \in 0 .. m : i # 0 => K[0][i] \in Places(N, f)}
  <2>1. ASSUME NEW i \in 0 .. m, \A q \in 0 .. i - 1 : q \in D PROVE i \in D
    <3>1. SUFFICES ASSUME i # 0 PROVE K[0][i] \in Places(N, f)
      OBVIOUS
    <3>2. CASE i = 1
      <4>1. K[0][1] \in 0 .. Len(t) - 1
        BY <1>1, <1>3, <3>2
      <4>2. 0 # Len(t)
        BY <1>0, <4>1
      <4>3. f[0] = 0 /\ 0 \in 0 .. N
        BY <1>0 DEF Route
      <4>. QED BY <1>3, <3>2, <4>2, <4>3 DEF Places
    <3>3. CASE i # 1
      <4>1. PICK h \in 1 .. m : h + 1 = i /\ h \in 0 .. i - 1 /\ h # 0
        <5>1. i - 1 \in 1 .. m /\ (i - 1) + 1 = i /\ i - 1 \in 0 .. i - 1 /\ i - 1 # 0
          BY <3>1, <3>3
        <5>. QED BY <5>1
      <4>2. K[0][h] \in Places(N, f)
        BY <2>1, <4>1
      <4>3. str_next_grapheme(t, K[0][h]) \in Places(N, f)
        BY <4>2, GraphemeOn
      <4>4. str_next_grapheme(t, K[0][h]) # Len(t)
        <5>1. h < i /\ i \in 1 .. m
          BY <3>1, <4>1
        <5>2. str_next_grapheme(t, K[0][h]) <= K[0][i] /\ K[0][i] \in 0 .. Len(t) - 1
          BY <1>3, <5>1
        <5>. QED BY <1>0, <5>2
      <4>5. str_next_grapheme(t, K[0][h]) = K[0][i]
        BY <1>3, <4>1, <4>4, Zenon
      <4>. QED BY <4>3, <4>5, Zenon
    <3>. QED BY <3>2, <3>3
  <2>. HIDE DEF D
  <2>2. \A i \in 0 .. m : i \in D
    BY <1>1, <2>1, Upwards
  <2>3. \A i \in 1 .. m : i \in 0 .. m /\ i # 0
    BY <1>1
  <2>. QED BY <2>2, <2>3, Zenon DEF D
<1>7. ASSUME NEW j \in 1 .. m PROVE \E i \in S : f[i - 1] = K[0][j]
  <2>1. PICK h \in 0 .. N : K[0][j] = f[h]
    BY <1>6 DEF Places
  <2>2. h # N
    <3>1. f[N] = Len(t)
      BY DEF Route
    <3>2. f[h] \in 0 .. Len(t) - 1
      BY <1>3, <2>1
    <3>. QED BY <1>0, <3>1, <3>2
  <2>3. PICK i \in 1 .. N : i - 1 = h
    <3>1. h + 1 \in 1 .. N /\ (h + 1) - 1 = h
      BY <1>0, <2>2
    <3>. QED BY <3>1
  <2>. QED BY <1>1, <2>1, <2>3, Zenon
<1>. DEFINE at == [j \in 1 .. m |-> CHOOSE i \in S : f[i - 1] = K[0][j]]
<1>8. \A j \in 1 .. m : at[j] \in S /\ f[at[j] - 1] = K[0][j]
  BY <1>7, Zenon
<1>9. at \in [1 .. m -> S]
  BY <1>7, Zenon
<1>. HIDE DEF at
<1>10. ASSUME NEW i \in 1 .. m, NEW j \in 1 .. m, at[i] = at[j] PROVE i = j
  BY <1>5, <1>8, <1>10, Zenon
<1>11. ASSUME NEW i \in S PROVE \E j \in 1 .. m : at[j] = i
  <2>1. PICK j \in 1 .. m : f[i - 1] = K[0][j]
    BY <1>1
  <2>2. PICK k : k = at[j]
    OBVIOUS
  <2>3. k \in S /\ f[k - 1] = f[i - 1]
    BY <1>8, <2>1, <2>2, Zenon
  <2>4. i \in 1 .. N /\ k \in 1 .. N
    BY <2>3
  <2>5. PICK a \in 0 .. N, b \in 0 .. N : a = k - 1 /\ b = i - 1
    BY <1>0, <2>4
  <2>6. a = b
    <3>1. f[a] = f[b]
      BY <2>3, <2>5, Zenon
    <3>. QED BY <3>1, RouteApart
  <2>. QED BY <2>2, <2>4, <2>5, <2>6
<1>12. at \in Bijection(1 .. m, S)
  BY <1>9, <1>10, <1>11, Zenon DEF Bijection, Injection, Surjection, IsInjective
<1>13. IsFiniteSet(1 .. m) /\ Cardinality(1 .. m) = m
  <2>1. Cardinality(1 .. m) = IF 1 > m THEN 0 ELSE m - 1 + 1
    BY FS_Interval
  <2>2. IsFiniteSet(1 .. m)
    BY FS_Interval
  <2>. QED BY <2>1, <2>2
<1>14. Cardinality(S) = Cardinality(1 .. m)
  <2>1. ExistsBijection(1 .. m, S)
    BY <1>12, Zenon DEF ExistsBijection
  <2>. QED BY <1>13, <2>1, FS_Bijection
<1>. QED BY <1>1, <1>13, <1>14

\* What glues, told from the one before it.
GluesStep(N, c, S, h) ==
  [i \in 1 .. N |-> c[i] = GRAPHEME_CLUSTER_ZWJ /\ i \notin S /\ ~h[i - 1]]

LEMMA GluesExist ==
  ASSUME NEW N \in Nat, NEW c, NEW S, N # 0 => 1 \in S
  PROVE  \E g : g = GluesStep(N, c, S, g)
<1>1. CASE N = 0
  <2>1. \A i \in 1 .. N : FALSE
    BY <1>1
  <2>. DEFINE g == [i \in 1 .. N |-> TRUE]
  <2>2. g = GluesStep(N, c, S, g)
    BY <2>1, Zenon DEF GluesStep
  <2>. QED BY <2>2
<1>2. CASE N # 0
  <2>. DEFINE n  == N - 1
              nx == [j \in 0 .. n - 1 |-> j + 1]
              F  == [j \in 0 .. n - 1 |-> [v \in BOOLEAN |->
                       c[N - j] = GRAPHEME_CLUSTER_ZWJ /\ N - j \notin S /\ ~v]]
  <2>1. n \in Nat /\ FALSE \in BOOLEAN
    BY <1>2
  <2>2. \A j \in 0 .. n - 1 : nx[j] = j + 1 /\ nx[j] \in j + 1 .. n
    BY <2>1
  <2>3. \A j \in 0 .. n - 1, v \in BOOLEAN :
          /\ F[j][v] \in BOOLEAN
          /\ F[j][v] <=> c[N - j] = GRAPHEME_CLUSTER_ZWJ /\ N - j \notin S /\ ~v
    BY Zenon
  <2>. HIDE DEF nx, F
  <2>4. Recursive(n, BOOLEAN, FALSE, nx, F)
    BY <2>1, <2>2, <2>3, Zenon DEF Recursive
  <2>5. PICK h : Recurs(h, n, BOOLEAN, FALSE, nx, F)
    BY <2>4, Recursion, Zenon
  <2>6. h \in [0 .. n -> BOOLEAN] /\ \A j \in 0 .. n : h[j] = IF j = n THEN FALSE ELSE F[j][h[nx[j]]]
    BY <2>5, Zenon DEF Recurs
  <2>. DEFINE g == [i \in 1 .. N |-> h[N - i]]
  <2>7. \A i \in 1 .. N : g[i] = h[N - i] /\ N - i \in 0 .. n
    BY <1>2
  <2>8. g = [i \in 1 .. N |-> g[i]]
    BY Zenon
  <2>. HIDE DEF g
  <2>9. ASSUME NEW i \in 1 .. N
        PROVE  g[i] \in BOOLEAN /\ (g[i] <=> c[i] = GRAPHEME_CLUSTER_ZWJ /\ i \notin S /\ ~g[i - 1])
    <3>1. g[i] \in BOOLEAN
      BY <2>6, <2>7, Zenon
    <3>2. CASE i = 1
      <4>1. N - i = n /\ N - i \in 0 .. n
        BY <3>2, <2>1
      <4>2. h[n] = FALSE
        BY <2>6, <4>1, Zenon
      <4>3. g[i] = FALSE
        BY <2>7, <4>1, <4>2, Zenon
      <4>4. 1 \in S
        BY <1>2
      <4>. QED BY <3>1, <3>2, <4>3, <4>4, Zenon
    <3>3. CASE i # 1
      <4>1. PICK j : j = N - i
        OBVIOUS
      <4>2. j \in 0 .. n - 1 /\ j \in 0 .. n /\ j # n /\ N - j = i /\ i - 1 \in 1 .. N /\ N - (i - 1) = j + 1
        BY <3>3, <4>1
      <4>3. h[j] = F[j][h[nx[j]]] /\ nx[j] = j + 1
        BY <2>2, <2>6, <4>2, Zenon
      <4>4. g[i - 1] = h[j + 1] /\ h[j + 1] \in BOOLEAN
        <5>1. g[i - 1] = h[N - (i - 1)] /\ N - (i - 1) \in 0 .. n
          BY <2>7, <4>2
        <5>2. h[N - (i - 1)] \in BOOLEAN
          BY <2>6, <5>1, Zenon
        <5>. QED BY <4>2, <5>1, <5>2, Zenon
      <4>5. PICK v \in BOOLEAN : v = g[i - 1]
        BY <4>4, Zenon
      <4>6. h[nx[j]] = v
        BY <4>3, <4>4, <4>5, Zenon
      <4>7. h[j] = F[j][v]
        BY <4>3, <4>6, Zenon
      <4>8. F[j][v] <=> c[i] = GRAPHEME_CLUSTER_ZWJ /\ i \notin S /\ ~v
        <5>1. F[j][v] <=> c[N - j] = GRAPHEME_CLUSTER_ZWJ /\ N - j \notin S /\ ~v
          BY <2>3, <4>2, Zenon
        <5>. QED BY <4>2, <5>1, Zenon
      <4>9. g[i] = F[j][v]
        BY <2>7, <4>1, <4>7, Zenon
      <4>. QED BY <3>1, <4>5, <4>8, <4>9, Zenon
    <3>. QED BY <3>2, <3>3
  <2>10. \A i \in 1 .. N : g[i] = (c[i] = GRAPHEME_CLUSTER_ZWJ /\ i \notin S /\ ~g[i - 1])
    <3>1. TAKE i \in 1 .. N
    <3>2. CASE g[i] = TRUE
      BY <2>9, <3>2, Zenon
    <3>3. CASE g[i] = FALSE
      BY <2>9, <3>3, Zenon
    <3>. QED BY <2>9, <3>2, <3>3, Zenon
  <2>11. g = GluesStep(N, c, S, g)
    <3>1. [i \in 1 .. N |-> g[i]] = GluesStep(N, c, S, g)
      BY <2>10, Zenon DEF GluesStep
    <3>. QED BY <2>8, <3>1, Zenon
  <2>. QED BY <2>11
<1>. QED BY <1>1, <1>2

\* A carriage return is no second one of a pair, no mark and no joiner.
LEMMA CarriageReturn ==
  ~Attaches(CR) /\ CR # GRAPHEME_CLUSTER_ZWJ /\ \A c : ~Pairs(c, CR)
BY DEF Attaches, grapheme_cluster_is_extend, grapheme_cluster_is_variation_selector,
       codepoint_in_ranges, GRAPHEME_CLUSTER_EXTEND_RANGES,
       GRAPHEME_CLUSTER_VARIATION_SELECTOR_RANGES, GRAPHEME_CLUSTER_ZWJ, CR, LF, Pairs,
       grapheme_cluster_is_regional_indicator

\* The neighbours of a code point tell whether it belongs to the cluster of the one before
\* it, in texts of any length and bytes, and there are as many clusters as code points that
\* begin one.
THEOREM RulesOfClusters == Spec => []ClusterRules
<1>1. ASSUME Inv PROVE ClusterRules
  <2>. DEFINE cps    == CodepointsFrom(text)[0]
              begins == {ClustersFrom(text)[0][j] : j \in 1 .. str_graphemes(text)}
              starts == {i \in DOMAIN cps : Skip(text, 0, i - 1) \in begins}
              glues  == CHOOSE glues : glues = [i \in DOMAIN cps |->
                          cps[i] = GRAPHEME_CLUSTER_ZWJ /\ i \notin starts /\ ~glues[i - 1]]
              open(i) == ~Closed(cps[Max({j \in starts : j <= i})])
  <2>1. text \in Seq(NonZero) /\ 0 \in 0 .. Len(text)
    BY <1>1, Text DEF Inv
  <2>2. PICK N, f : Route(text, N, f, cps)
    BY <2>1, RouteExists
  <2>3. /\ N \in Nat /\ Len(cps) = N /\ DOMAIN cps = 1 .. N /\ f[0] = 0 /\ f[N] = Len(text)
        /\ \A i \in 0 .. N : Skip(text, 0, i) = f[i]
    <3>1. cps \in Seq(Int)
      BY <2>2, Zenon DEF Route
    <3>2. DOMAIN cps = 1 .. Len(cps)
      <4>. HIDE DEF cps
      <4>. QED BY <3>1
    <3>. QED BY <2>2, <3>2, Zenon DEF Route
  <2>4. PICK K : Clusters(text, K)
    BY <2>1, ClustersExist
  <2>5. ClustersFrom(text)[0] = K[0]
    BY <2>1, <2>4, ClustersAre
  <2>6. str_graphemes(text) = Len(K[0])
    BY <2>5, Zenon DEF str_graphemes
  <2>7. begins = {K[0][j] : j \in 1 .. Len(K[0])}
    BY <2>5, <2>6, Zenon
  <2>8. Begun(text, begins)
    BY <2>1, <2>4, <2>7, BegunAt, Zenon
  <2>. HIDE DEF cps, begins
  <2>9. starts = {i \in 1 .. N : f[i - 1] \in begins}
    <3>1. \A i \in 1 .. N : Skip(text, 0, i - 1) = f[i - 1]
      <4>1. \A i \in 1 .. N : i - 1 \in 0 .. N
        BY <2>3
      <4>. QED BY <2>3, <4>1, Zenon
    <3>. QED BY <2>3, <3>1, Zenon
  <2>10. Cardinality(starts) = str_graphemes(text)
    <3>1. PICK S : S = starts
      OBVIOUS
    <3>2. S = {i \in 1 .. N : f[i - 1] \in {K[0][j] : j \in 1 .. Len(K[0])}}
      BY <2>7, <2>9, <3>1, Zenon
    <3>3. Cardinality(S) = Len(K[0])
      <4>1. PICK t : t = text
        OBVIOUS
      <4>2. PICK c : c = cps
        OBVIOUS
      <4>3. t \in Seq(NonZero) /\ Route(t, N, f, c) /\ Clusters(t, K)
        BY <2>1, <2>2, <2>4, <4>1, <4>2, Zenon
      <4>. QED BY <3>2, <4>3, StartsCounted
    <3>. QED BY <2>6, <3>1, <3>3, Zenon
  <2>. HIDE DEF starts
  <2>11. N # 0 => 1 \in starts
    <3>1. HAVE N # 0
    <3>2. 1 \in 1 .. N /\ 1 - 1 = 0
      BY <2>3, <3>1
    <3>3. Len(text) # 0
      <4>1. f[1 - 1] < Len(text)
        BY <2>2, <3>2, Zenon DEF Route
      <4>. QED BY <2>3, <3>2, <4>1
    <3>4. 0 \in begins
      BY <2>8, <3>3, Zenon DEF Begun
    <3>. QED BY <2>3, <2>9, <3>2, <3>4, Zenon
  <2>12. glues = GluesStep(N, cps, starts, glues)
    <3>1. PICK h : h = GluesStep(N, cps, starts, h)
      BY <2>3, <2>11, GluesExist
    <3>2. glues = CHOOSE v : v = GluesStep(N, cps, starts, v)
      BY <2>3, Zenon DEF GluesStep
    <3>. QED BY <3>1, <3>2, Zenon
  <2>. HIDE DEF glues
  <2>13. \A i \in 1 .. N : glues[i] <=> cps[i] = GRAPHEME_CLUSTER_ZWJ /\ i \notin starts /\ ~glues[i - 1]
    BY <2>12, Zenon DEF GluesStep
  <2>14. PICK E : Ends(text, E)
    BY <2>1, EndsExist
  <2>15. Setting(text, N, f, cps, starts, glues, E)
    <3>1. \E B : Begun(text, B) /\ starts = {i \in 1 .. N : f[i - 1] \in B}
      BY <2>8, <2>9, Zenon
    <3>. QED BY <2>1, <2>2, <2>13, <2>14, <3>1, Zenon DEF Setting
  <2>16. ASSUME NEW i \in 2 .. N
         PROVE  i \notin starts <=>
                  \/ i - 1 \in starts /\ Pairs(cps[i - 1], cps[i])
                  \/ open(i - 1) /\ Attaches(cps[i])
                  \/ open(i - 1) /\ cps[i] = GRAPHEME_CLUSTER_ZWJ /\ i < N
                  \/ glues[i - 1]
    BY <2>15, RulesHold
  <2>17. \A i \in 2 .. Len(cps) :
           i \notin starts <=>
             \/ i - 1 \in starts /\ Pairs(cps[i - 1], cps[i])
             \/ open(i - 1) /\ Attaches(cps[i])
             \/ open(i - 1) /\ cps[i] = GRAPHEME_CLUSTER_ZWJ /\ i < Len(cps)
             \/ glues[i - 1]
    BY <2>3, <2>16, Zenon
  <2>18. ASSUME NEW i \in 2 .. Len(cps), i \in starts
         PROVE  cps[i - 1] = CR /\ cps[i] = LF => i - 2 \in 2 .. Len(cps) /\ glues[i - 2]
    <3>1. HAVE cps[i - 1] = CR /\ cps[i] = LF
    <3>2. i - 1 \notin starts
      BY <2>17, <2>18, <3>1, Zenon DEF Pairs
    <3>3. i - 1 \in 2 .. Len(cps) /\ (i - 1) - 1 = i - 2 /\ i - 2 \in 1 .. N
      BY <2>3, <2>11, <2>18, <3>2
    <3>4. glues[i - 2]
      <4>1. \/ Pairs(cps[i - 2], CR) \/ Attaches(CR) \/ CR = GRAPHEME_CLUSTER_ZWJ
            \/ glues[i - 2]
        BY <2>17, <3>1, <3>2, <3>3, Zenon
      <4>. QED BY <4>1, CarriageReturn, Zenon
    <3>5. i - 2 # 1
      BY <2>3, <2>11, <2>13, <3>3, <3>4
    <3>. QED BY <2>3, <3>3, <3>4, <3>5
  <2>19. ASSUME NEW i \in 2 .. Len(cps), i \in starts
         PROVE  Attaches(cps[i]) => ~open(i - 1)
    BY <2>17, <2>19, Zenon
  <2>. QED BY <2>10, <2>17, <2>18, <2>19, Zenon DEF ClusterRules, cps, begins, starts, glues
<1>. QED BY <1>1, Invariant, PTL

=============================================================================
