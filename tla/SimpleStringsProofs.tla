------------------------ MODULE SimpleStringsProofs ------------------------
(***************************************************************************)
(* Every String stays a terminated C string of its length in a block of    *)
(* its capacity, for any characters, words and bounds: as long as the      *)
(* position and the length that a caller passes do not add up to more than *)
(* a size_t holds, and no String is appended to itself when that makes it  *)
(* grow.                                                                   *)
(*                                                                         *)
(* And what it promises: under the same conditions every function does to  *)
(* the sequence of characters in the block exactly what StringValue says.  *)
(*                                                                         *)
(* The functions of StringUtils obey their laws on any such sequence.      *)
(***************************************************************************)
EXTENDS StringUtils, SequenceTheorems, WellFoundedInduction, TLAPS

Cells == Chars \cup {NUL, Junk}

-----------------------------------------------------------------------------
(* What the operations on memory yield, cell by cell. *)

LEMMA FunctionIsSeq ==
  ASSUME NEW n \in Nat, NEW S, NEW f \in [1 .. n -> S]
  PROVE  f \in Seq(S) /\ Len(f) = n
BY IsASeq, LenProperties

LEMMA PokeCells ==
  ASSUME NEW d \in Seq(Cells), NEW at \in Nat, NEW x \in Seq(Cells)
  PROVE  /\ Poke(d, at, x) \in Seq(Cells)
         /\ Len(Poke(d, at, x)) = Len(d)
         /\ \A i \in 1 .. Len(d) :
              Poke(d, at, x)[i] = IF i \in at + 1 .. at + Len(x) THEN x[i - at] ELSE d[i]
<1>1. Poke(d, at, x) \in [1 .. Len(d) -> Cells]
  <2>1. ASSUME NEW i \in 1 .. Len(d)
        PROVE  (IF i \in at + 1 .. at + Len(x) THEN x[i - at] ELSE d[i]) \in Cells
    <3>1. Len(x) \in Nat /\ Len(d) \in Nat
      OBVIOUS
    <3>2. i \in at + 1 .. at + Len(x) => i - at \in 1 .. Len(x)
      BY <3>1
    <3>. QED BY <3>1, <3>2, ElementOfSeq
  <2>. QED BY <2>1 DEF Poke
<1>2. Len(d) \in Nat
  OBVIOUS
<1>. QED BY <1>1, <1>2, FunctionIsSeq DEF Poke

LEMMA PeekCells ==
  ASSUME NEW d \in Seq(Cells), NEW from \in Nat, NEW n \in Nat
  PROVE  /\ Peek(d, from, n) \in Seq(Cells)
         /\ Len(Peek(d, from, n)) = n
         /\ \A i \in 1 .. n :
              Peek(d, from, n)[i] = IF from + i <= Len(d) THEN d[from + i] ELSE Junk
<1>1. Peek(d, from, n) \in [1 .. n -> Cells]
  <2>1. ASSUME NEW i \in 1 .. n
        PROVE  (IF from + i <= Len(d) THEN d[from + i] ELSE Junk) \in Cells
    BY ElementOfSeq DEF Cells
  <2>. QED BY <2>1 DEF Peek
<1>. QED BY <1>1, FunctionIsSeq DEF Peek

LEMMA ResizeCells ==
  ASSUME NEW d \in Seq(Cells), NEW c \in Nat
  PROVE  /\ Resize(d, c) \in Seq(Cells)
         /\ Len(Resize(d, c)) = c
         /\ \A i \in 1 .. c : Resize(d, c)[i] = IF i <= Len(d) THEN d[i] ELSE Junk
<1>1. Resize(d, c) \in [1 .. c -> Cells]
  BY ElementOfSeq DEF Resize, Cells
<1>. QED BY <1>1, FunctionIsSeq DEF Resize

LEMMA BlockCells ==
  ASSUME NEW c \in Nat
  PROVE  Block(c) \in Seq(Cells) /\ Len(Block(c)) = c
<1>1. Block(c) \in [1 .. c -> Cells]
  BY DEF Block, Cells
<1>. QED BY <1>1, FunctionIsSeq

LEMMA TerminateCells ==
  ASSUME NEW d \in Seq(Cells), NEW l \in Nat
  PROVE  /\ Terminate(d, l) \in Seq(Cells)
         /\ Len(Terminate(d, l)) = Len(d)
         /\ \A i \in 1 .. Len(d) : Terminate(d, l)[i] = IF i = l + 1 THEN NUL ELSE d[i]
<1>1. <<NUL>> \in Seq(Cells) /\ Len(<<NUL>>) = 1 /\ <<NUL>>[1] = NUL
  BY DEF Cells
<1>2. \A i \in 1 .. Len(d) : i \in l + 1 .. l + Len(<<NUL>>) <=> i = l + 1
  BY <1>1
<1>3. Terminate(d, l) = Poke(d, l, <<NUL>>)
  BY DEF Terminate
<1>4. \A i \in 1 .. Len(d) : i = l + 1 => <<NUL>>[i - l] = NUL
  BY <1>1
<1>5. \A i \in 1 .. Len(d) :
        Poke(d, l, <<NUL>>)[i] = IF i \in l + 1 .. l + Len(<<NUL>>) THEN <<NUL>>[i - l] ELSE d[i]
  BY <1>1, PokeCells
<1>6. /\ Poke(d, l, <<NUL>>) \in Seq(Cells)
      /\ Len(Poke(d, l, <<NUL>>)) = Len(d)
  BY <1>1, PokeCells
<1>. QED BY <1>2, <1>3, <1>4, <1>5, <1>6

-----------------------------------------------------------------------------
(* The inductive invariant, of one String. *)

Good(st) ==
  /\ st.data \in Seq(Cells)
  /\ st.len \in 0 .. MaxLen
  /\ st.cap \in Nat
  /\ IF st.data = <<>> THEN st.len = 0
     ELSE /\ st.cap = Len(st.data)
          /\ st.len < st.cap
          /\ \A i \in 1 .. st.len : st.data[i] \in Chars
          /\ st.data[st.len + 1] = NUL

\* A terminated block of characters is a good String.
LEMMA MakeGood ==
  ASSUME NEW d \in Seq(Cells), NEW l \in 0 .. MaxLen, NEW c, c = Len(d),
         l < c, \A i \in 1 .. l : d[i] \in Chars, d[l + 1] = NUL
  PROVE  Good(Str(d, l, c))
<1>1. Len(d) \in Nat
  OBVIOUS
<1>. QED BY <1>1 DEF Good, Str

\* A terminator behind characters makes a good String of any block.
LEMMA TerminateGood ==
  ASSUME NEW d \in Seq(Cells), NEW l \in 0 .. MaxLen, NEW c, c = Len(d),
         l < c, \A i \in 1 .. l : d[i] \in Chars
  PROVE  Good(Str(Terminate(d, l), l, c))
<1>. DEFINE e == Terminate(d, l)
<1>1. l \in Nat /\ Len(d) \in Nat
  BY StringsAssumption
<1>2. /\ e \in Seq(Cells)
      /\ Len(e) = c
      /\ \A i \in 1 .. c : e[i] = IF i = l + 1 THEN NUL ELSE d[i]
  BY <1>1, TerminateCells
<1>3. l + 1 \in 1 .. c /\ \A i \in 1 .. l : i \in 1 .. c /\ i # l + 1
  BY <1>1
<1>4. e[l + 1] = NUL /\ \A i \in 1 .. l : e[i] \in Chars
  BY <1>2, <1>3
<1>. HIDE DEF e
<1>5. Good(Str(e, l, c))
  BY <1>2, <1>4, MakeGood
<1>. QED BY <1>5 DEF e

LEMMA FreshGood ==
  ASSUME NEW x \in Seq(Chars), Len(x) <= MaxLen
  PROVE  Good(Fresh(x))
<1>. DEFINE d == x \o <<NUL>>
<1>1. Len(x) \in 0 .. MaxLen
  BY StringsAssumption
<1>2. x \in Seq(Cells) /\ <<NUL>> \in Seq(Cells)
  <2>1. \A i \in 1 .. Len(x) : x[i] \in Cells
    BY ElementOfSeq DEF Cells
  <2>2. x \in [1 .. Len(x) -> Cells] /\ Len(x) \in Nat
    BY <2>1, LenProperties
  <2>. QED BY <2>2, FunctionIsSeq DEF Cells
<1>3. d \in Seq(Cells) /\ Len(d) = Len(x) + 1
  BY <1>2, ConcatProperties
<1>4. d[Len(x) + 1] = NUL /\ \A i \in 1 .. Len(x) : d[i] \in Chars
  BY <1>1, ElementOfSeq
<1>5. Len(x) < Len(d)
  BY <1>1, <1>3
<1>. HIDE DEF d
<1>6. Good(Str(d, Len(x), Len(x) + 1))
  BY <1>1, <1>3, <1>4, <1>5, MakeGood
<1>. QED BY <1>6 DEF Fresh, d

\* The C string in a good String's block is its value.
LEMMA CStrIsValue ==
  ASSUME NEW st, Good(st), st.data # <<>>
  PROVE  /\ CStr(st.data) = Value(st)
         /\ Value(st) \in Seq(Chars)
         /\ Len(Value(st)) = st.len
<1>. DEFINE d == st.data
            end(i) == i \in 1 .. Len(d) /\ d[i] = NUL /\ \A j \in 1 .. i - 1 : d[j] # NUL
<1>1. /\ st.len \in Nat /\ Len(d) \in Nat /\ st.len < Len(d)
      /\ \A i \in 1 .. st.len : d[i] \in Chars
      /\ d[st.len + 1] = NUL
  BY StringsAssumption DEF Good
<1>2. \A i \in 1 .. st.len : d[i] # NUL
  BY <1>1, StringsAssumption
<1>3. end(st.len + 1)
  BY <1>1, <1>2
<1>4. ASSUME NEW i, end(i)
      PROVE  i = st.len + 1
  <2>1. i \in Nat /\ i >= 1
    BY <1>1, <1>4
  <2>2. ~(i <= st.len)
    BY <1>1, <1>2, <1>4, <2>1
  <2>3. ~(st.len + 1 <= i - 1)
    BY <1>1, <1>4, <2>1
  <2>. QED BY <1>1, <2>1, <2>2, <2>3
<1>5. CStr(d) = SubSeq(d, 1, st.len)
  <2>1. end(EndOf(d))
    BY <1>3 DEF EndOf
  <2>2. EndOf(d) = st.len + 1
    BY <2>1, <1>4
  <2>. QED BY <2>2, <1>1 DEF CStr
<1>6. SubSeq(d, 1, st.len) \in Seq(Chars) /\ Len(SubSeq(d, 1, st.len)) = st.len
  BY <1>1, SubSeqProperties
<1>. QED BY <1>5, <1>6 DEF Value

\* What is known of a good String that has a block.
LEMMA GoodFacts ==
  ASSUME NEW st, Good(st), st.data # <<>>
  PROVE  /\ st.data \in Seq(Cells)
         /\ st.cap = Len(st.data) /\ st.cap \in Nat
         /\ st.len \in Nat /\ st.len <= MaxLen /\ st.len < st.cap
         /\ MaxLen \in Nat
         /\ \A i \in 1 .. st.len : st.data[i] \in Chars
         /\ st.data[st.len + 1] = NUL
BY StringsAssumption DEF Good

LEMMA CharsAreCells == \A x \in Seq(Chars) : x \in Seq(Cells)
<1>1. ASSUME NEW x \in Seq(Chars)
      PROVE  x \in [1 .. Len(x) -> Cells] /\ Len(x) \in Nat
  BY ElementOfSeq, LenProperties DEF Cells
<1>. QED BY <1>1, FunctionIsSeq

\* str_grow leaves room for the characters and the terminator, and does not shrink.
LEMMA GrowSuffices ==
  ASSUME NEW st, Good(st), st.data # <<>>, NEW n \in Nat, NEW c \in Caps(st, n)
  PROVE  c \in Nat /\ c > st.len + n
<1>1. st.len \in Nat /\ st.cap \in Nat
  BY GoodFacts
<1>. QED BY <1>1 DEF Caps, Needed

LEMMA AppendGood ==
  ASSUME NEW st, Good(st), st.data # <<>>,
         NEW x \in Seq(Chars), st.len + Len(x) <= MaxLen,
         NEW c \in Nat, c > st.len + Len(x)
  PROVE  Good(AppendTo(st, x, c))
<1>. DEFINE r == Resize(st.data, c)
            d == Poke(r, st.len, x)
            n == st.len + Len(x)
<1>1. CASE x = <<>>
  BY <1>1 DEF AppendTo
<1>2. CASE x # <<>>
  <2>1. /\ st.data \in Seq(Cells) /\ x \in Seq(Cells) /\ Len(x) \in Nat
        /\ st.len \in Nat /\ MaxLen \in Nat /\ st.len < Len(st.data)
        /\ \A i \in 1 .. st.len : st.data[i] \in Chars
    BY GoodFacts, CharsAreCells
  <2>2. /\ r \in Seq(Cells) /\ Len(r) = c
        /\ \A i \in 1 .. c : r[i] = IF i <= Len(st.data) THEN st.data[i] ELSE Junk
    BY <2>1, ResizeCells
  <2>. HIDE DEF r
  <2>3. /\ d \in Seq(Cells) /\ Len(d) = c
        /\ \A i \in 1 .. c :
             d[i] = IF i \in st.len + 1 .. st.len + Len(x) THEN x[i - st.len] ELSE r[i]
    BY <2>1, <2>2, PokeCells
  <2>. HIDE DEF d
  <2>4. ASSUME NEW i \in 1 .. n
        PROVE  d[i] \in Chars
    <3>1. i \in 1 .. c
      BY <2>1
    <3>2. CASE i <= st.len
      <4>1. i \in 1 .. st.len /\ i <= Len(st.data) /\ i \notin st.len + 1 .. st.len + Len(x)
        BY <2>1, <3>2
      <4>. QED BY <2>1, <2>2, <2>3, <3>1, <4>1
    <3>3. CASE i > st.len
      <4>1. i \in st.len + 1 .. st.len + Len(x) /\ i - st.len \in 1 .. Len(x)
        BY <2>1, <3>3
      <4>2. x[i - st.len] \in Chars
        BY <4>1, ElementOfSeq
      <4>. QED BY <2>3, <3>1, <4>1, <4>2
    <3>. QED BY <2>1, <3>2, <3>3
  <2>5. n \in 0 .. MaxLen /\ n < c
    BY <2>1
  <2>6. Good(Str(Terminate(d, n), n, c))
    BY <2>3, <2>4, <2>5, TerminateGood
  <2>7. AppendTo(st, x, c) = Str(Terminate(d, n), n, c)
    BY <1>2 DEF AppendTo, d, r
  <2>. QED BY <2>6, <2>7
<1>. QED BY <1>1, <1>2

LEMMA InsertGood ==
  ASSUME Good(s), Live, NEW q \in 0 .. s.len,
         NEW x \in Seq(Chars), s.len + Len(x) <= MaxLen,
         NEW c \in Nat, c > s.len + Len(x)
  PROVE  Good(InsertAt(q, x, c))
<1>. DEFINE r     == Resize(s.data, c)
            n     == s.len + Len(x)
            m     == s.len - q + 1
            tail  == Peek(s.data, q, m)
            moved == Poke(r, q + Len(x), tail)
            d     == Poke(moved, q, x)
<1>1. /\ s.data \in Seq(Cells) /\ x \in Seq(Cells) /\ Len(x) \in Nat
      /\ s.len \in Nat /\ MaxLen \in Nat /\ s.len < Len(s.data) /\ Len(s.data) \in Nat
      /\ \A i \in 1 .. s.len : s.data[i] \in Chars
      /\ s.data[s.len + 1] = NUL
  BY GoodFacts, CharsAreCells DEF Live
<1>2. /\ q \in Nat /\ q <= s.len /\ m \in Nat /\ q + Len(x) \in Nat
      /\ s.len \in Nat /\ Len(x) \in Nat /\ Len(s.data) \in Nat /\ s.len < Len(s.data)
  BY <1>1
<1>3. /\ r \in Seq(Cells) /\ Len(r) = c
      /\ \A i \in 1 .. c : r[i] = IF i <= Len(s.data) THEN s.data[i] ELSE Junk
  BY <1>1, ResizeCells
<1>4. /\ tail \in Seq(Cells) /\ Len(tail) = m
      /\ \A i \in 1 .. m :
           tail[i] = IF q + i <= Len(s.data) THEN s.data[q + i] ELSE Junk
  <2>1. s.data \in Seq(Cells) /\ q \in Nat /\ m \in Nat
    BY <1>1, <1>2
  <2>. HIDE DEF m
  <2>. QED BY <2>1, PeekCells, Zenon
<1>. HIDE DEF r, tail
<1>5. /\ moved \in Seq(Cells) /\ Len(moved) = c
      /\ \A i \in 1 .. c :
           moved[i] = IF i \in q + Len(x) + 1 .. q + Len(x) + Len(tail)
                      THEN tail[i - (q + Len(x))] ELSE r[i]
  <2>1. q + Len(x) \in Nat
    BY <1>2
  <2>2. /\ moved \in Seq(Cells) /\ Len(moved) = Len(r)
        /\ \A i \in 1 .. Len(r) :
             moved[i] = IF i \in q + Len(x) + 1 .. q + Len(x) + Len(tail)
                        THEN tail[i - (q + Len(x))] ELSE r[i]
    <3>1. r \in Seq(Cells) /\ tail \in Seq(Cells)
      BY <1>3, <1>4
    <3>. QED BY <2>1, <3>1, PokeCells, Zenon
  <2>. HIDE DEF moved
  <2>. QED BY <1>3, <2>2, Zenon
<1>. HIDE DEF moved
<1>6. /\ d \in Seq(Cells) /\ Len(d) = c
      /\ \A i \in 1 .. c : d[i] = IF i \in q + 1 .. q + Len(x) THEN x[i - q] ELSE moved[i]
  <2>1. q \in Nat /\ x \in Seq(Cells)
    BY <1>1, <1>2
  <2>. QED BY <1>5, <2>1, PokeCells, Zenon
<1>. HIDE DEF d
\* Behind the inserted text is the old tail.
<1>7. ASSUME NEW i \in q + Len(x) + 1 .. n + 1
      PROVE  d[i] = s.data[i - Len(x)]
  <2>1. /\ i \in 1 .. c /\ i \notin q + 1 .. q + Len(x)
        /\ i \in q + Len(x) + 1 .. q + Len(x) + m
        /\ i - (q + Len(x)) \in 1 .. m
        /\ q + (i - (q + Len(x))) = i - Len(x)
        /\ i - Len(x) <= Len(s.data)
    BY <1>2
  <2>2. d[i] = moved[i]
    BY <1>6, <2>1
  <2>3. moved[i] = tail[i - (q + Len(x))]
    BY <1>4, <1>5, <2>1
  <2>. QED BY <1>4, <2>1, <2>2, <2>3
<1>8. ASSUME NEW i \in 1 .. n
      PROVE  d[i] \in Chars
  <2>1. i \in 1 .. c
    BY <1>1
  <2>2. CASE i <= q
    <3>1. /\ i \notin q + 1 .. q + Len(x) /\ i \notin q + Len(x) + 1 .. q + Len(x) + Len(tail)
          /\ i \in 1 .. s.len /\ i <= Len(s.data)
      <4>1. Len(tail) \in Nat
        BY <1>4
      <4>. QED BY <1>2, <2>2, <4>1
    <3>2. d[i] = moved[i]
      BY <1>6, <2>1, <3>1
    <3>3. moved[i] = r[i]
      BY <1>5, <2>1, <3>1
    <3>. QED BY <1>1, <1>3, <2>1, <3>1, <3>2, <3>3
  <2>3. CASE i \in q + 1 .. q + Len(x)
    <3>1. i - q \in 1 .. Len(x)
      BY <1>1, <1>2, <2>3
    <3>2. x[i - q] \in Chars
      BY <3>1, ElementOfSeq
    <3>. QED BY <1>6, <2>1, <2>3, <3>2
  <2>4. CASE i > q + Len(x)
    <3>1. i \in q + Len(x) + 1 .. n + 1 /\ i - Len(x) \in 1 .. s.len
      BY <1>1, <1>2, <2>4
    <3>. QED BY <1>1, <1>7, <3>1
  <2>. QED BY <1>1, <1>2, <2>2, <2>3, <2>4
<1>9. d[n + 1] = NUL
  <2>1. n + 1 \in q + Len(x) + 1 .. n + 1 /\ n + 1 - Len(x) = s.len + 1
    BY <1>1, <1>2
  <2>. QED BY <1>1, <1>7, <2>1
<1>10. n \in 0 .. MaxLen /\ n < c
  BY <1>1
<1>11. Good(Str(d, n, c))
  BY <1>6, <1>8, <1>9, <1>10, MakeGood
<1>. QED BY <1>11 DEF InsertAt, d, moved, tail, r

\* Cutting a String short.
LEMMA ShortenGood ==
  ASSUME NEW st, Good(st), st.data # <<>>, NEW l \in Nat, l <= st.len
  PROVE  Good(Str(Terminate(st.data, l), l, st.cap))
<1>1. /\ l \in 0 .. MaxLen /\ l < st.cap
      /\ \A i \in 1 .. l : st.data[i] \in Chars
  BY GoodFacts
<1>. QED BY <1>1, GoodFacts, TerminateGood

\* Moving what is at from down to p, then cutting the String short.
LEMMA MoveGood ==
  ASSUME Good(s), Live,
         NEW p \in Nat, NEW from \in Nat, NEW n \in Nat, NEW l \in Nat,
         p <= s.len, p <= from, l <= p + n, from + (l - p) <= s.len, l <= s.len
  PROVE  Good(Str(Terminate(Poke(s.data, p, Peek(s.data, from, n)), l), l, s.cap))
<1>. DEFINE x == Peek(s.data, from, n)
            d == Poke(s.data, p, x)
<1>1. /\ s.data \in Seq(Cells) /\ s.len \in Nat /\ MaxLen \in Nat
      /\ s.cap = Len(s.data) /\ s.cap \in Nat /\ s.len < s.cap /\ s.len <= MaxLen
      /\ \A i \in 1 .. s.len : s.data[i] \in Chars
  BY GoodFacts DEF Live
<1>2. /\ x \in Seq(Cells) /\ Len(x) = n
      /\ \A i \in 1 .. n : x[i] = IF from + i <= Len(s.data) THEN s.data[from + i] ELSE Junk
  <2>1. s.data \in Seq(Cells)
    BY <1>1
  <2>. QED BY <2>1, PeekCells, Zenon
<1>. HIDE DEF x
<1>3. /\ d \in Seq(Cells) /\ Len(d) = s.cap
      /\ \A i \in 1 .. s.cap : d[i] = IF i \in p + 1 .. p + n THEN x[i - p] ELSE s.data[i]
  BY <1>1, <1>2, PokeCells
<1>. HIDE DEF d
<1>4. ASSUME NEW i \in 1 .. l
      PROVE  d[i] \in Chars
  <2>1. i \in 1 .. s.cap /\ i \in 1 .. s.len /\ s.len \in Nat /\ s.len < Len(s.data) /\ Len(s.data) \in Nat
    BY <1>1
  <2>2. CASE i <= p
    BY <1>1, <1>3, <2>1, <2>2
  <2>3. CASE i > p
    <3>1. /\ i \in p + 1 .. p + n /\ i - p \in 1 .. n
          /\ from + (i - p) \in 1 .. s.len /\ from + (i - p) <= Len(s.data)
      BY <2>1, <2>3
    <3>2. x[i - p] = s.data[from + (i - p)]
      BY <1>2, <3>1
    <3>. QED BY <1>1, <1>3, <2>1, <3>1, <3>2
  <2>. QED BY <2>2, <2>3
<1>5. l \in 0 .. MaxLen /\ l < s.cap
  BY <1>1
<1>6. Good(Str(Terminate(d, l), l, s.cap))
  BY <1>3, <1>4, <1>5, TerminateGood
<1>. QED BY <1>6 DEF d, x

-----------------------------------------------------------------------------
(* The steps. *)

\* What callers of the library are assumed to respect.
FairCallers ==
  /\ ~SelfGrow
  /\ \A p, n \in Sizes : p + n < SizeMod

LEMMA NullGood == ASSUME NEW c \in Nat PROVE Good(Str(<<>>, 0, c))
BY StringsAssumption DEF Good, Str

LEMMA ValueGood ==
  ASSUME Good(s), Live
  PROVE  /\ CStr(s.data) \in Seq(Chars)
         /\ Len(CStr(s.data)) = s.len
         /\ s.len \in Nat /\ s.len <= MaxLen
BY CStrIsValue, GoodFacts DEF Live

LEMMA WordFacts ==
  ASSUME NEW x \in Words
  PROVE  x \in Seq(Chars) /\ Len(x) \in Nat /\ Len(x) <= MaxLen
<1>1. x \in Seq(Chars) /\ Len(x) <= MaxLen
  BY StringsAssumption
<1>. QED BY <1>1

LEMMA PieceGood ==
  ASSUME NEW x \in Seq(Chars), Len(x) <= MaxLen, NEW m \in Nat, NEW n \in Nat,
         1 <= m, n <= Len(x)
  PROVE  Good(Fresh(SubSeq(x, m, n)))
<1>1. \A i \in m .. n : x[i] \in Chars
  BY ElementOfSeq
<1>2. /\ SubSeq(x, m, n) \in Seq(Chars)
      /\ Len(SubSeq(x, m, n)) = IF m <= n THEN n - m + 1 ELSE 0
  BY <1>1, SubSeqProperties
<1>3. Len(SubSeq(x, m, n)) <= MaxLen
  BY <1>2, StringsAssumption
<1>. QED BY <1>2, <1>3, FreshGood

\* With no overflow, the length that is taken is in the String.
LEMMA ClampFits ==
  ASSUME FairCallers, Good(s), Live, NEW p \in Sizes, NEW n \in Sizes, p < s.len
  PROVE  /\ Clamp(p, n) \in Nat /\ p \in Nat
         /\ p + Clamp(p, n) <= s.len
<1>1. /\ p \in Nat /\ n \in Nat /\ s.len \in Nat
  BY StringsAssumption, GoodFacts DEF Live
<1>2. p + n \in 0 .. SizeMod - 1
  BY <1>1, StringsAssumption DEF FairCallers
<1>3. Wrap(p + n) = p + n
  BY <1>2 DEF Wrap
<1>. QED BY <1>1, <1>3 DEF Clamp

LEMMA WordStep ==
  ASSUME Good(s), NEW x \in Words,
         Create(x) \/ CreateFails(x) \/ AppendWord(x) \/ Prepend(x)
           \/ RemovePrefix(x) \/ RemoveSuffix(x) \/ \E p \in Sizes : Insert(p, x)
  PROVE  Good(s')
<1>1. x \in Seq(Chars) /\ Len(x) \in Nat /\ Len(x) <= MaxLen
  BY WordFacts
<1>2. CASE Create(x)
  BY <1>1, <1>2, FreshGood DEF Create
<1>3. CASE CreateFails(x)
  BY <1>1, <1>3, NullGood DEF CreateFails
<1>4. CASE AppendWord(x)
  <2>1. PICK c \in Caps(s, Len(x)) : s' = AppendTo(s, x, c)
    BY <1>4 DEF AppendWord
  <2>2. s.data # <<>> /\ s.len + Len(x) <= MaxLen
    BY <1>4 DEF AppendWord, Live, Room
  <2>3. c \in Nat /\ c > s.len + Len(x)
    BY <1>1, <2>2, GrowSuffices
  <2>. QED BY <1>1, <2>1, <2>2, <2>3, AppendGood
<1>5. CASE Prepend(x)
  <2>1. PICK c \in Caps(s, Len(x)) : s' = InsertAt(0, x, c)
    BY <1>5 DEF Prepend
  <2>2. Live /\ s.data # <<>> /\ s.len + Len(x) <= MaxLen
    BY <1>5 DEF Prepend, Live, Room
  <2>3. c \in Nat /\ c > s.len + Len(x) /\ 0 \in 0 .. s.len
    BY <1>1, <2>2, GrowSuffices, GoodFacts
  <2>. QED BY <1>1, <2>1, <2>2, <2>3, InsertGood
<1>6. ASSUME NEW p \in Sizes, Insert(p, x)
      PROVE  Good(s')
  <2>. DEFINE q == IF p > s.len THEN s.len ELSE p
  <2>1. PICK c \in Caps(s, Len(x)) : s' = InsertAt(q, x, c)
    BY <1>6 DEF Insert
  <2>2. Live /\ s.data # <<>> /\ s.len + Len(x) <= MaxLen
    BY <1>6 DEF Insert, Live, Room
  <2>3. c \in Nat /\ c > s.len + Len(x) /\ s.len \in Nat
    BY <1>1, <2>2, GrowSuffices, GoodFacts
  <2>4. q \in 0 .. s.len
    BY <2>3, StringsAssumption
  <2>. HIDE DEF q
  <2>. QED BY <1>1, <2>1, <2>2, <2>3, <2>4, InsertGood
<1>7. CASE RemovePrefix(x)
  <2>. DEFINE src == CStr(s.data)
  <2>1. src \in Seq(Chars) /\ Len(src) \in Nat /\ Len(src) <= MaxLen
    BY <1>7, ValueGood DEF RemovePrefix
  <2>2. s' = Fresh(src) \/ (Len(x) <= Len(src) /\ s' = Fresh(SubSeq(src, Len(x) + 1, Len(src))))
    BY <1>7 DEF RemovePrefix
  <2>. HIDE DEF src
  <2>3. Good(Fresh(src)) /\ Good(Fresh(SubSeq(src, Len(x) + 1, Len(src))))
    BY <1>1, <2>1, FreshGood, PieceGood
  <2>. QED BY <2>2, <2>3
<1>8. CASE RemoveSuffix(x)
  <2>. DEFINE src  == CStr(s.data)
              copy == Fresh(src)
              l    == Len(src) - Len(x)
  <2>1. src \in Seq(Chars) /\ Len(src) \in Nat /\ Len(src) <= MaxLen
    BY <1>8, ValueGood DEF RemoveSuffix
  <2>2. s' = copy \/ (l >= 0 /\ s' = Str(Terminate(copy.data, l), l, copy.cap))
    BY <1>8 DEF RemoveSuffix
  <2>. HIDE DEF src
  <2>3. Good(copy)
    BY <2>1, FreshGood
  <2>4. copy.data # <<>> /\ copy.len = Len(src)
    <3>1. src \o <<NUL>> # <<>>
      BY <2>1
    <3>. QED BY <3>1 DEF Fresh, Str
  <2>5. l >= 0 => l \in Nat /\ l <= copy.len
    BY <1>1, <2>1, <2>4
  <2>. HIDE DEF copy, l
  <2>. QED BY <2>2, <2>3, <2>4, <2>5, ShortenGood
<1>. QED BY <1>2, <1>3, <1>4, <1>5, <1>6, <1>7, <1>8

LEMMA SizeStep ==
  ASSUME Good(s), NEW n \in Sizes,
         WithCap(n) \/ WithCapFails(n) \/ Reserve(n) \/ ChopN(n)
  PROVE  Good(s')
<1>1. n \in Nat /\ 0 \in 0 .. MaxLen
  BY StringsAssumption
<1>2. CASE WithCap(n)
  <2>. DEFINE c == IF n > 0 THEN n ELSE 1
  <2>1. c \in Nat /\ 0 < c
    BY <1>1
  <2>2. s' = Str(Terminate(Block(c), 0), 0, c)
    BY <1>2 DEF WithCap
  <2>. HIDE DEF c
  <2>3. Block(c) \in Seq(Cells) /\ Len(Block(c)) = c
    BY <2>1, BlockCells
  <2>4. \A i \in 1 .. 0 : Block(c)[i] \in Chars
    OBVIOUS
  <2>. QED BY <1>1, <2>1, <2>2, <2>3, <2>4, TerminateGood
<1>3. CASE WithCapFails(n)
  BY <1>1, <1>3, NullGood DEF WithCapFails
<1>4. CASE Reserve(n)
  <2>. DEFINE d == Resize(s.data, n)
  <2>1. /\ s.data \in Seq(Cells) /\ s.len \in Nat /\ s.len < s.cap /\ s.cap = Len(s.data)
        /\ s.len <= MaxLen /\ s.cap < n /\ Len(s.data) \in Nat
    BY <1>4, GoodFacts DEF Reserve, Live
  <2>2. \A i \in 1 .. s.len : s.data[i] \in Chars
    BY <1>4, GoodFacts DEF Reserve, Live
  <2>3. s.data[s.len + 1] = NUL
    BY <1>4, GoodFacts DEF Reserve, Live
  <2>4. /\ d \in Seq(Cells) /\ Len(d) = n
        /\ \A i \in 1 .. n : d[i] = IF i <= Len(s.data) THEN s.data[i] ELSE Junk
    BY <1>1, <2>1, ResizeCells
  <2>. HIDE DEF d
  <2>5. \A i \in 1 .. s.len + 1 : i \in 1 .. n /\ i <= Len(s.data)
    BY <1>1, <2>1
  <2>6. \A i \in 1 .. s.len + 1 : d[i] = s.data[i]
    BY <2>4, <2>5
  <2>7. s.len \in 0 .. MaxLen /\ s.len < n /\ s.len + 1 \in 1 .. s.len + 1
        /\ \A i \in 1 .. s.len : i \in 1 .. s.len + 1
    BY <1>1, <2>1, StringsAssumption
  <2>8. d[s.len + 1] = NUL /\ \A i \in 1 .. s.len : d[i] \in Chars
    BY <2>2, <2>3, <2>6, <2>7
  <2>9. Good(Str(d, s.len, n))
    BY <2>4, <2>7, <2>8, MakeGood
  <2>. QED BY <1>4, <2>9 DEF Reserve, d
<1>5. CASE ChopN(n)
  <2>. DEFINE l == IF n > s.len THEN 0 ELSE s.len - n
  <2>1. l \in Nat /\ l <= s.len /\ s.data # <<>>
    BY <1>1, <1>5, GoodFacts DEF ChopN, Live
  <2>2. s' = Str(Terminate(s.data, l), l, s.cap)
    BY <1>5 DEF ChopN, Shorten
  <2>. HIDE DEF l
  <2>. QED BY <2>1, <2>2, ShortenGood
<1>. QED BY <1>2, <1>3, <1>4, <1>5

LEMMA RangeStep ==
  ASSUME FairCallers, Good(s), NEW p \in Sizes, NEW n \in Sizes, Erase(p, n) \/ Substr(p, n)
  PROVE  Good(s')
<1>. DEFINE m == Clamp(p, n)
<1>1. /\ Live /\ s.data # <<>> /\ s.data \in Seq(Cells)
      /\ s.len \in Nat /\ s.len <= MaxLen /\ MaxLen \in Nat
      /\ s.len + 1 < SizeMod /\ SizeMod \in Nat /\ p \in Nat
  <2>1. Live
    BY DEF Erase, Substr
  <2>2. /\ s.data # <<>> /\ s.data \in Seq(Cells)
        /\ s.len \in Nat /\ s.len <= MaxLen /\ MaxLen \in Nat
    BY <2>1, GoodFacts DEF Live
  <2>3. p \in Nat /\ MaxLen + 1 < SizeMod /\ SizeMod \in Nat
    BY StringsAssumption
  <2>. QED BY <2>1, <2>2, <2>3
<1>2. p < s.len => m \in Nat /\ p + m <= s.len
  BY <1>1, ClampFits
<1>. HIDE DEF m
<1>3. CASE Erase(p, n)
  <2>1. p < s.len
    BY <1>3 DEF Erase
  <2>2. /\ s.len - m \in 0 .. SizeMod - 1
        /\ s.len - p - m + 1 \in 0 .. SizeMod - 1
    BY <1>1, <1>2, <2>1
  <2>3. Wrap(s.len - m) = s.len - m /\ Wrap(s.len - p - m + 1) = s.len - p - m + 1
    BY <2>2 DEF Wrap
  <2>4. s' = Str(Terminate(Poke(s.data, p, Peek(s.data, p + m, s.len - p - m + 1)), s.len - m),
                 s.len - m, s.cap)
    BY <1>3, <2>3 DEF Erase, m
  <2>. DEFINE l == s.len - m
              k == s.len - p - m + 1
              from == p + m
  <2>5. /\ from \in Nat /\ k \in Nat /\ l \in Nat
        /\ p <= s.len /\ p <= from /\ l <= p + k /\ from + (l - p) <= s.len /\ l <= s.len
    <3>1. p \in Nat /\ m \in Nat /\ s.len \in Nat /\ p + m <= s.len
      BY <1>1, <1>2, <2>1
    <3>. QED BY <3>1
  <2>6. s' = Str(Terminate(Poke(s.data, p, Peek(s.data, from, k)), l), l, s.cap)
    BY <2>4
  <2>. HIDE DEF l, k, from
  <2>. QED BY <1>1, <2>5, <2>6, MoveGood
<1>4. CASE Substr(p, n)
  <2>1. CASE p >= s.len
    <3>1. s' = Fresh(<<>>)
      BY <1>4, <2>1 DEF Substr
    <3>2. <<>> \in Seq(Chars) /\ Len(<<>>) <= MaxLen
      BY <1>1
    <3>. QED BY <3>1, <3>2, FreshGood
  <2>2. CASE p < s.len
    <3>1. m \in Nat /\ p + m <= s.len
      BY <1>2, <2>2
    <3>2. Wrap(m + 1) = m + 1
      BY <1>1, <3>1 DEF Wrap
    <3>. DEFINE x == Peek(s.data, p, m)
                b == Block(m + 1)
                d == Poke(b, 0, x)
    <3>3. s' = Str(Terminate(d, m), m, m + 1)
      BY <1>1, <1>4, <2>2, <3>2 DEF Substr, m
    <3>4. /\ x \in Seq(Cells) /\ Len(x) = m
          /\ \A i \in 1 .. m : x[i] = IF p + i <= Len(s.data) THEN s.data[p + i] ELSE Junk
      BY <1>1, <3>1, PeekCells, Zenon
    <3>5. m + 1 \in Nat /\ 0 \in Nat /\ m \in 0 .. MaxLen /\ m < m + 1
      BY <1>1, <3>1
    <3>6. b \in Seq(Cells) /\ Len(b) = m + 1
      BY <3>5, BlockCells
    <3>. HIDE DEF x, b
    <3>7. /\ d \in Seq(Cells) /\ Len(d) = Len(b)
          /\ \A i \in 1 .. Len(b) : d[i] = IF i \in 0 + 1 .. 0 + Len(x) THEN x[i - 0] ELSE b[i]
      BY <3>4, <3>5, <3>6, PokeCells, Zenon
    <3>. HIDE DEF d
    <3>8. ASSUME NEW i \in 1 .. m
          PROVE  d[i] \in Chars
      <4>1. /\ i \in 1 .. Len(b) /\ i \in 0 + 1 .. 0 + Len(x) /\ i - 0 = i
        BY <3>1, <3>4, <3>6
      <4>2. p + i \in 1 .. s.len
        BY <1>1, <3>1
      <4>3. s.len < Len(s.data) /\ \A j \in 1 .. s.len : s.data[j] \in Chars
        BY <1>1, GoodFacts
      <4>4. p + i <= Len(s.data)
        <5>1. s.len < Len(s.data) /\ Len(s.data) \in Nat
          BY <1>1, <4>3
        <5>. QED BY <1>1, <4>2, <5>1
      <4>. QED BY <3>4, <3>7, <4>1, <4>2, <4>3, <4>4
    <3>9. Len(d) = m + 1
      BY <3>6, <3>7
    <3>. QED BY <3>3, <3>5, <3>7, <3>8, <3>9, TerminateGood
  <2>. QED BY <1>1, <2>1, <2>2
<1>. QED BY <1>3, <1>4

LEMMA PlainStep ==
  ASSUME FairCallers, Good(s),
         \/ AppendSelf \/ Destroy \/ Clone \/ Clear
         \/ Trim \/ Ltrim \/ Rtrim \/ Chomp \/ ChompAll \/ Chop
  PROVE  Good(s')
<1>1. CASE AppendSelf
  <2>. DEFINE x == CStr(s.data)
  <2>1. Live /\ s.data # <<>> /\ x \in Seq(Chars) /\ Len(x) = s.len /\ s.len \in Nat
    BY <1>1, ValueGood DEF AppendSelf, Live
  <2>2. Caps(s, s.len) = {s.cap} /\ s.len + s.len <= MaxLen
    BY <1>1 DEF AppendSelf, Caps, FairCallers, Room
  <2>3. s' = AppendTo(s, x, s.cap)
    <3>1. ~(s.cap > s.cap)
      BY <2>1, GoodFacts
    <3>. QED BY <1>1, <2>2, <3>1 DEF AppendSelf
  <2>4. s.cap \in Nat /\ s.cap > s.len + s.len
    BY <2>1, <2>2, GrowSuffices
  <2>. HIDE DEF x
  <2>. QED BY <2>1, <2>2, <2>3, <2>4, AppendGood
<1>2. CASE Destroy
  BY <1>2, NullGood DEF Destroy, Null
<1>3. CASE Clone
  BY <1>3, ValueGood, FreshGood DEF Clone
<1>4. CASE Clear
  <2>1. s.data # <<>> /\ s.len \in Nat /\ s' = Str(Terminate(s.data, 0), 0, s.cap)
    BY <1>4, GoodFacts DEF Clear, Live
  <2>. QED BY <2>1, ShortenGood
<1>5. ASSUME NEW l \in Nat, l <= s.len, s.data # <<>>, Shorten(l)
      PROVE  Good(s')
  BY <1>5, ShortenGood DEF Shorten
<1>6. s.data # <<>> => s.len \in Nat
  BY GoodFacts
<1>7. CASE Rtrim
  BY <1>5, <1>6, <1>7 DEF Rtrim, Live
<1>8. CASE ChompAll
  BY <1>5, <1>6, <1>8 DEF ChompAll, Live
<1>9. s.len > 0 => s.data # <<>>
  BY DEF Good
<1>10. CASE Chop
  BY <1>5, <1>6, <1>9, <1>10 DEF Chop
<1>11. CASE Chomp
  <2>1. \E k \in 0 .. 2 : k <= s.len /\ Shorten(s.len - k)
    BY <1>6, <1>9, <1>11 DEF Chomp
  <2>. QED BY <1>5, <1>6, <1>9, <1>11, <2>1 DEF Chomp
<1>12. CASE Ltrim
  <2>1. PICK i \in 0 .. s.len :
          s' = Str(Terminate(Poke(s.data, 0, Peek(s.data, i, s.len - i)), s.len - i),
                   s.len - i, s.cap)
    BY <1>12 DEF Ltrim
  <2>. DEFINE l == s.len - i
  <2>2. /\ Live /\ s.len \in Nat /\ i \in Nat /\ l \in Nat /\ 0 \in Nat /\ 0 <= i /\ 0 <= s.len
        /\ l <= 0 + l /\ i + (l - 0) <= s.len /\ l <= s.len
    BY <1>6, <1>12 DEF Ltrim, Live
  <2>3. s' = Str(Terminate(Poke(s.data, 0, Peek(s.data, i, l)), l), l, s.cap)
    BY <2>1
  <2>. HIDE DEF l
  <2>. QED BY <2>2, <2>3, MoveGood
<1>13. CASE Trim
  <2>1. PICK i \in 0 .. s.len : \E e \in i .. s.len :
          s' = Str(Terminate(Poke(s.data, 0, Peek(s.data, i, e - i)), e - i), e - i, s.cap)
    BY <1>13 DEF Trim
  <2>2. PICK e \in i .. s.len :
          s' = Str(Terminate(Poke(s.data, 0, Peek(s.data, i, e - i)), e - i), e - i, s.cap)
    BY <2>1
  <2>. DEFINE l == e - i
  <2>3. /\ Live /\ s.len \in Nat /\ i \in Nat /\ l \in Nat /\ 0 \in Nat /\ 0 <= i /\ 0 <= s.len
        /\ l <= 0 + l /\ i + (l - 0) <= s.len /\ l <= s.len
    BY <1>6, <1>13 DEF Trim, Live
  <2>4. s' = Str(Terminate(Poke(s.data, 0, Peek(s.data, i, l)), l), l, s.cap)
    BY <2>2
  <2>. HIDE DEF l
  <2>. QED BY <2>3, <2>4, MoveGood
<1>. QED BY <1>1, <1>2, <1>3, <1>4, <1>7, <1>8, <1>10, <1>11, <1>12, <1>13

LEMMA MapStep ==
  ASSUME Good(s), NEW f \in [Chars -> Chars], Map(f)
  PROVE  Good(s')
<1>. DEFINE d == [i \in 1 .. Len(s.data) |-> IF i <= s.len THEN f[s.data[i]] ELSE s.data[i]]
<1>1. /\ s.data # <<>> /\ s.data \in Seq(Cells) /\ s.len \in Nat /\ Len(s.data) \in Nat
      /\ s.cap = Len(s.data) /\ s.len < s.cap /\ s.len <= MaxLen
      /\ \A i \in 1 .. s.len : s.data[i] \in Chars
      /\ s.data[s.len + 1] = NUL
  BY GoodFacts DEF Map, Live
<1>2. d \in [1 .. Len(s.data) -> Cells]
  <2>1. ASSUME NEW i \in 1 .. Len(s.data)
        PROVE  (IF i <= s.len THEN f[s.data[i]] ELSE s.data[i]) \in Cells
    <3>1. CASE i <= s.len
      <4>1. i \in 1 .. s.len
        BY <1>1, <3>1
      <4>. QED BY <1>1, <3>1, <4>1 DEF Cells
    <3>2. CASE ~(i <= s.len)
      BY <1>1, <3>2, ElementOfSeq
    <3>. QED BY <3>1, <3>2
  <2>. QED BY <2>1
<1>3. d \in Seq(Cells) /\ Len(d) = s.cap
  BY <1>1, <1>2, FunctionIsSeq
<1>4. \A i \in 1 .. s.len : i \in 1 .. Len(s.data) /\ i <= s.len
  BY <1>1
<1>5. d[s.len + 1] = NUL /\ \A i \in 1 .. s.len : d[i] \in Chars
  BY <1>1, <1>4
<1>6. s' = Str(d, s.len, s.cap)
  BY DEF Map
<1>7. s.len \in 0 .. MaxLen
  BY <1>1, StringsAssumption
<1>. HIDE DEF d
<1>. QED BY <1>1, <1>3, <1>5, <1>6, <1>7, MakeGood

LEMMA NextStep == ASSUME FairCallers, Good(s), [Next]_s PROVE Good(s')
<1>1. CASE \E x \in Words : \/ Create(x) \/ CreateFails(x) \/ AppendWord(x) \/ Prepend(x)
                            \/ RemovePrefix(x) \/ RemoveSuffix(x)
                            \/ \E p \in Sizes : Insert(p, x)
  BY <1>1, WordStep
<1>2. CASE \E n \in Sizes : WithCap(n) \/ WithCapFails(n) \/ Reserve(n) \/ ChopN(n)
  BY <1>2, SizeStep
<1>3. CASE \E p, n \in Sizes : Erase(p, n) \/ Substr(p, n)
  BY <1>3, RangeStep
<1>4. CASE \/ AppendSelf \/ Destroy \/ Clone \/ Clear
           \/ Trim \/ Ltrim \/ Rtrim \/ Chomp \/ ChompAll \/ Chop
  BY <1>4, PlainStep
<1>5. CASE Map(UpperOf) \/ Map(LowerOf)
  BY <1>5, MapStep, StringsAssumption
<1>6. CASE UNCHANGED s
  BY <1>6
<1>. QED BY <1>1, <1>2, <1>3, <1>4, <1>5, <1>6 DEF Next

LEMMA GoodAlways == ASSUME FairCallers PROVE Spec => []Good(s)
<1>1. Init => Good(s)
  BY NullGood DEF Init, Null
<1>2. Good(s) /\ [Next]_s => Good(s)'
  BY NextStep
<1>. QED BY <1>1, <1>2, PTL DEF Spec

\* Good(s) is inductive; it adds to WellFormed that the cells, the length
\* and the capacity are in range.
THEOREM StringsWellFormed == ASSUME FairCallers PROVE Spec => [](TypeOK /\ WellFormed)
<1>1. Spec => []Good(s)
  BY GoodAlways
<1>2. Good(s) => TypeOK /\ WellFormed
  BY DEF Good, TypeOK, WellFormed, Cells
<1>. QED BY <1>1, <1>2, PTL
-----------------------------------------------------------------------------
(* What every function promises: the value of what the operations on memory yield. *)

LEMMA ValueIs ==
  ASSUME NEW d \in Seq(Cells), NEW l \in Nat, l <= Len(d), NEW c,
         NEW v \in Seq(Cells), Len(v) = l, \A i \in 1 .. l : v[i] = d[i]
  PROVE  Value(Str(d, l, c)) = v
<1>1. \A i \in 1 .. l : d[i] \in Cells
  BY LenProperties, ElementOfSeq
<1>2. /\ SubSeq(d, 1, l) \in Seq(Cells) /\ Len(SubSeq(d, 1, l)) = l
      /\ \A i \in 1 .. l : SubSeq(d, 1, l)[i] = d[i]
  <2>1. /\ SubSeq(d, 1, l) \in Seq(Cells)
        /\ Len(SubSeq(d, 1, l)) = IF 1 <= l THEN l - 1 + 1 ELSE 0
        /\ \A i \in 1 .. l - 1 + 1 : SubSeq(d, 1, l)[i] = d[1 + i - 1]
    BY <1>1, SubSeqProperties
  <2>. QED BY <2>1
<1>3. SubSeq(d, 1, l) = v
  BY <1>2, SeqEqual
<1>. QED BY <1>3 DEF Value, Str

LEMMA TerminatedIs ==
  ASSUME NEW d \in Seq(Cells), NEW l \in Nat, l < Len(d), NEW c,
         NEW v \in Seq(Cells), Len(v) = l, \A i \in 1 .. l : v[i] = d[i]
  PROVE  Value(Str(Terminate(d, l), l, c)) = v
<1>1. Len(d) \in Nat
  BY LenProperties
<1>2. /\ Terminate(d, l) \in Seq(Cells) /\ Len(Terminate(d, l)) = Len(d)
      /\ \A i \in 1 .. Len(d) : Terminate(d, l)[i] = IF i = l + 1 THEN NUL ELSE d[i]
  BY TerminateCells
<1>3. \A i \in 1 .. l : i \in 1 .. Len(d) /\ i # l + 1
  BY <1>1
<1>4. \A i \in 1 .. l : v[i] = Terminate(d, l)[i]
  BY <1>2, <1>3
<1>. HIDE DEF Terminate
<1>. QED BY <1>1, <1>2, <1>4, ValueIs

LEMMA LiveValue ==
  ASSUME NEW st, Good(st), st.data # <<>>
  PROVE  /\ Value(st) \in Seq(Chars) /\ Value(st) \in Seq(Cells)
         /\ Len(Value(st)) = st.len
         /\ \A i \in 1 .. st.len : Value(st)[i] = st.data[i]
<1>1. Value(st) \in Seq(Chars) /\ Len(Value(st)) = st.len
  BY CStrIsValue
<1>2. st.len \in Nat /\ \A i \in 1 .. st.len : st.data[i] \in Chars
  BY GoodFacts
<1>3. \A i \in 1 .. st.len : Value(st)[i] = st.data[i]
  <2>1. \A i \in 1 .. st.len - 1 + 1 : SubSeq(st.data, 1, st.len)[i] = st.data[1 + i - 1]
    BY <1>2, SubSeqProperties
  <2>. QED BY <1>2, <2>1 DEF Value
<1>. QED BY <1>1, <1>3, CharsAreCells

LEMMA NoValue ==
  ASSUME NEW st, Good(st), st.data = <<>>
  PROVE  Value(st) = <<>>
BY SubSeqEmpty DEF Good, Value

LEMMA FreshIs ==
  ASSUME NEW x \in Seq(Chars)
  PROVE  Value(Fresh(x)) = x
<1>1. x \in Seq(Cells) /\ <<NUL>> \in Seq(Cells) /\ Len(<<NUL>>) = 1 /\ Len(x) \in Nat
  BY CharsAreCells, LenProperties DEF Cells
<1>. DEFINE d == x \o <<NUL>>
<1>2. /\ d \in Seq(Cells) /\ Len(d) = Len(x) + 1
      /\ \A i \in 1 .. Len(x) + 1 : d[i] = IF i <= Len(x) THEN x[i] ELSE <<NUL>>[i - Len(x)]
  BY <1>1, ConcatProperties
<1>. HIDE DEF d
<1>3. \A i \in 1 .. Len(x) : x[i] = d[i]
  BY <1>1, <1>2
<1>4. Value(Str(d, Len(x), Len(x) + 1)) = x
  BY <1>1, <1>2, <1>3, ValueIs
<1>. QED BY <1>4 DEF Fresh, d

LEMMA AppendIs ==
  ASSUME NEW st, Good(st), st.data # <<>>,
         NEW x \in Seq(Chars), NEW c \in Nat, c > st.len + Len(x)
  PROVE  Value(AppendTo(st, x, c)) = Value(st) \o x
<1>. DEFINE r == Resize(st.data, c)
            d == Poke(r, st.len, x)
            n == st.len + Len(x)
            v == Value(st)
<1>0. v \in Seq(Cells) /\ Len(v) = st.len /\ \A i \in 1 .. st.len : v[i] = st.data[i]
  BY LiveValue
<1>. HIDE DEF v
<1>1. CASE x = <<>>
  <2>1. v \o <<>> = v
    BY <1>0, ConcatEmptySeq
  <2>. QED BY <1>1, <2>1 DEF AppendTo, v
<1>2. CASE x # <<>>
  <2>1. /\ st.data \in Seq(Cells) /\ x \in Seq(Cells) /\ Len(x) \in Nat
        /\ st.len \in Nat /\ st.len < Len(st.data) /\ Len(st.data) \in Nat
    BY GoodFacts, CharsAreCells
  <2>2. /\ r \in Seq(Cells) /\ Len(r) = c
        /\ \A i \in 1 .. c : r[i] = IF i <= Len(st.data) THEN st.data[i] ELSE Junk
    BY <2>1, ResizeCells
  <2>. HIDE DEF r
  <2>3. /\ d \in Seq(Cells) /\ Len(d) = c
        /\ \A i \in 1 .. c :
             d[i] = IF i \in st.len + 1 .. st.len + Len(x) THEN x[i - st.len] ELSE r[i]
    <3>1. /\ d \in Seq(Cells) /\ Len(d) = Len(r)
          /\ \A i \in 1 .. Len(r) :
               d[i] = IF i \in st.len + 1 .. st.len + Len(x) THEN x[i - st.len] ELSE r[i]
      BY <2>1, <2>2, PokeCells, Zenon
    <3>. QED BY <2>2, <3>1, Zenon
  <2>. HIDE DEF d
  <2>. DEFINE w == v \o x
  <2>4. /\ w \in Seq(Cells) /\ Len(w) = n
        /\ \A i \in 1 .. n : w[i] = IF i <= st.len THEN v[i] ELSE x[i - st.len]
    <3>1. /\ w \in Seq(Cells) /\ Len(w) = Len(v) + Len(x)
          /\ \A i \in 1 .. Len(v) + Len(x) : w[i] = IF i <= Len(v) THEN v[i] ELSE x[i - Len(v)]
      BY <1>0, <2>1, ConcatProperties, Zenon
    <3>. QED BY <1>0, <3>1, Zenon
  <2>. HIDE DEF w
  <2>5. ASSUME NEW i \in 1 .. n
        PROVE  w[i] = d[i]
    <3>1. i \in 1 .. c
      BY <2>1
    <3>2. CASE i <= st.len
      <4>1. i \in 1 .. st.len /\ i <= Len(st.data) /\ i \notin st.len + 1 .. st.len + Len(x)
        BY <2>1, <3>2
      <4>2. w[i] = v[i] /\ v[i] = st.data[i]
        BY <1>0, <2>4, <3>2, <4>1
      <4>3. d[i] = r[i] /\ r[i] = st.data[i]
        BY <2>2, <2>3, <3>1, <4>1, Zenon
      <4>. QED BY <4>2, <4>3
    <3>3. CASE i > st.len
      <4>1. i \in st.len + 1 .. st.len + Len(x) /\ ~(i <= st.len)
        BY <2>1, <3>3
      <4>. QED BY <2>3, <2>4, <3>1, <4>1
    <3>. QED BY <2>1, <3>2, <3>3
  <2>6. n \in Nat /\ n < c
    BY <2>1
  <2>7. w \in Seq(Cells) /\ Len(w) = n /\ \A i \in 1 .. n : w[i] = d[i]
    BY <2>4, <2>5
  <2>8. AppendTo(st, x, c) = Str(Terminate(d, n), n, c)
    BY <1>2 DEF AppendTo, d, r
  <2>. HIDE DEF n
  <2>9. Value(Str(Terminate(d, n), n, c)) = w
    BY <2>3, <2>6, <2>7, TerminatedIs
  <2>. QED BY <2>8, <2>9 DEF w, v
<1>. QED BY <1>1, <1>2

LEMMA ShortenIs ==
  ASSUME NEW st, Good(st), st.data # <<>>, NEW l \in Nat, l <= st.len
  PROVE  Value(Str(Terminate(st.data, l), l, st.cap)) = SubSeq(Value(st), 1, l)
<1>. DEFINE v == Value(st)
            w == SubSeq(v, 1, l)
<1>1. v \in Seq(Cells) /\ Len(v) = st.len /\ \A i \in 1 .. st.len : v[i] = st.data[i]
  BY LiveValue
<1>2. st.data \in Seq(Cells) /\ st.len \in Nat /\ st.len < Len(st.data) /\ Len(st.data) \in Nat
  BY GoodFacts, LenProperties
<1>. HIDE DEF v
<1>3. \A i \in 1 .. l : i \in 1 .. st.len
  BY <1>2
<1>4. w \in Seq(Cells) /\ Len(w) = l /\ \A i \in 1 .. l : w[i] = v[i]
  <2>1. \A i \in 1 .. l : v[i] \in Cells
    BY <1>1, <1>3, ElementOfSeq
  <2>2. /\ w \in Seq(Cells)
        /\ Len(w) = IF 1 <= l THEN l - 1 + 1 ELSE 0
        /\ \A i \in 1 .. l - 1 + 1 : w[i] = v[1 + i - 1]
    BY <2>1, SubSeqProperties
  <2>. QED BY <2>2
<1>. HIDE DEF w
<1>5. \A i \in 1 .. l : w[i] = st.data[i]
  BY <1>1, <1>3, <1>4
<1>6. l < Len(st.data)
  BY <1>2
<1>7. Value(Str(Terminate(st.data, l), l, st.cap)) = w
  BY <1>2, <1>4, <1>5, <1>6, TerminatedIs
<1>. QED BY <1>7 DEF w, v

\* The prefix, the suffix and the middle of a sequence.
LEMMA Cut ==
  ASSUME NEW S, NEW v \in Seq(S), NEW m \in Nat, m >= 1, NEW n \in Nat, n <= Len(v), m <= n + 1
  PROVE  /\ SubSeq(v, m, n) \in Seq(S)
         /\ Len(SubSeq(v, m, n)) = n - m + 1
         /\ \A i \in 1 .. n - m + 1 : SubSeq(v, m, n)[i] = v[i + (m - 1)]
<1>1. \A i \in m .. n : v[i] \in S
  BY LenProperties, ElementOfSeq
<1>2. /\ SubSeq(v, m, n) \in Seq(S)
      /\ Len(SubSeq(v, m, n)) = IF m <= n THEN n - m + 1 ELSE 0
      /\ \A i \in 1 .. n - m + 1 : SubSeq(v, m, n)[i] = v[m + i - 1]
  BY <1>1, SubSeqProperties
<1>. QED BY <1>2

LEMMA InsertIs ==
  ASSUME Good(s), Live, NEW q \in 0 .. s.len,
         NEW x \in Seq(Chars), NEW c \in Nat, c > s.len + Len(x)
  PROVE  Value(InsertAt(q, x, c))
           = SubSeq(Value(s), 1, q) \o x \o SubSeq(Value(s), q + 1, Len(Value(s)))
<1>. DEFINE r     == Resize(s.data, c)
            n     == s.len + Len(x)
            m     == s.len - q + 1
            tail  == Peek(s.data, q, m)
            moved == Poke(r, q + Len(x), tail)
            d     == Poke(moved, q, x)
            v     == Value(s)
            v1    == SubSeq(v, 1, q)
            v2    == SubSeq(v, q + 1, Len(v))
            w1    == v1 \o x
            w     == w1 \o v2
<1>1. /\ s.data \in Seq(Cells) /\ x \in Seq(Cells) /\ Len(x) \in Nat
      /\ s.len \in Nat /\ s.len < Len(s.data) /\ Len(s.data) \in Nat
  BY GoodFacts, CharsAreCells DEF Live
<1>2. /\ q \in Nat /\ q <= s.len /\ m \in Nat /\ q + Len(x) \in Nat
  BY <1>1
<1>3. /\ r \in Seq(Cells) /\ Len(r) = c
      /\ \A i \in 1 .. c : r[i] = IF i <= Len(s.data) THEN s.data[i] ELSE Junk
  BY <1>1, ResizeCells
<1>4. /\ tail \in Seq(Cells) /\ Len(tail) = m
      /\ \A i \in 1 .. m :
           tail[i] = IF q + i <= Len(s.data) THEN s.data[q + i] ELSE Junk
  <2>1. s.data \in Seq(Cells) /\ q \in Nat /\ m \in Nat
    BY <1>1, <1>2
  <2>. HIDE DEF m
  <2>. QED BY <2>1, PeekCells, Zenon
<1>. HIDE DEF r, tail
<1>5. /\ moved \in Seq(Cells) /\ Len(moved) = c
      /\ \A i \in 1 .. c :
           moved[i] = IF i \in q + Len(x) + 1 .. q + Len(x) + Len(tail)
                      THEN tail[i - (q + Len(x))] ELSE r[i]
  <2>2. /\ moved \in Seq(Cells) /\ Len(moved) = Len(r)
        /\ \A i \in 1 .. Len(r) :
             moved[i] = IF i \in q + Len(x) + 1 .. q + Len(x) + Len(tail)
                        THEN tail[i - (q + Len(x))] ELSE r[i]
    <3>1. r \in Seq(Cells) /\ tail \in Seq(Cells)
      BY <1>3, <1>4
    <3>. QED BY <1>2, <3>1, PokeCells, Zenon
  <2>. HIDE DEF moved
  <2>. QED BY <1>3, <2>2, Zenon
<1>. HIDE DEF moved
<1>6. /\ d \in Seq(Cells) /\ Len(d) = c
      /\ \A i \in 1 .. c : d[i] = IF i \in q + 1 .. q + Len(x) THEN x[i - q] ELSE moved[i]
  <2>1. q \in Nat /\ x \in Seq(Cells)
    BY <1>1, <1>2
  <2>. QED BY <1>5, <2>1, PokeCells, Zenon
<1>. HIDE DEF d
<1>7. v \in Seq(Cells) /\ Len(v) = s.len /\ \A i \in 1 .. s.len : v[i] = s.data[i]
  BY LiveValue DEF Live
<1>. HIDE DEF v
<1>8. /\ v1 \in Seq(Cells) /\ Len(v1) = q
      /\ \A i \in 1 .. q : v1[i] = v[i]
  <2>1. /\ v1 \in Seq(Cells) /\ Len(v1) = q - 1 + 1
        /\ \A i \in 1 .. q - 1 + 1 : v1[i] = v[i + (1 - 1)]
    BY <1>2, <1>7, Cut
  <2>. QED BY <1>2, <2>1
<1>9. /\ v2 \in Seq(Cells) /\ Len(v2) = s.len - q
      /\ \A i \in 1 .. s.len - q : v2[i] = v[i + q]
  <2>1. /\ v2 \in Seq(Cells) /\ Len(v2) = s.len - (q + 1) + 1
        /\ \A i \in 1 .. s.len - (q + 1) + 1 : v2[i] = v[i + ((q + 1) - 1)]
    BY <1>1, <1>2, <1>7, Cut
  <2>2. s.len - (q + 1) + 1 = s.len - q /\ (q + 1) - 1 = q
    BY <1>1, <1>2
  <2>. QED BY <2>1, <2>2, Zenon
<1>. HIDE DEF v1, v2
<1>10. /\ w1 \in Seq(Cells) /\ Len(w1) = q + Len(x)
       /\ \A i \in 1 .. q + Len(x) : w1[i] = IF i <= q THEN v1[i] ELSE x[i - q]
  <2>1. /\ w1 \in Seq(Cells) /\ Len(w1) = Len(v1) + Len(x)
        /\ \A i \in 1 .. Len(v1) + Len(x) : w1[i] = IF i <= Len(v1) THEN v1[i] ELSE x[i - Len(v1)]
    BY <1>1, <1>8, ConcatProperties, Zenon
  <2>. QED BY <1>8, <2>1, Zenon
<1>. HIDE DEF w1
<1>11. /\ w \in Seq(Cells) /\ Len(w) = (q + Len(x)) + (s.len - q)
       /\ \A i \in 1 .. (q + Len(x)) + (s.len - q) :
            w[i] = IF i <= q + Len(x) THEN w1[i] ELSE v2[i - (q + Len(x))]
  <2>1. /\ w \in Seq(Cells) /\ Len(w) = Len(w1) + Len(v2)
        /\ \A i \in 1 .. Len(w1) + Len(v2) : w[i] = IF i <= Len(w1) THEN w1[i] ELSE v2[i - Len(w1)]
    BY <1>9, <1>10, ConcatProperties, Zenon
  <2>. QED BY <1>9, <1>10, <2>1, Zenon
<1>. HIDE DEF w
<1>12. (q + Len(x)) + (s.len - q) = n
  BY <1>1, <1>2
<1>13. ASSUME NEW i \in 1 .. n
       PROVE  w[i] = d[i]
  <2>1. i \in 1 .. c /\ i \in 1 .. (q + Len(x)) + (s.len - q) /\ i \in Nat
    BY <1>1, <1>12
  <2>2. CASE i <= q
    <3>1. /\ i \notin q + 1 .. q + Len(x) /\ i \notin q + Len(x) + 1 .. q + Len(x) + Len(tail)
          /\ i \in 1 .. s.len /\ i <= Len(s.data) /\ i \in 1 .. q
          /\ i <= q + Len(x) /\ i \in 1 .. q + Len(x)
      <4>1. Len(tail) \in Nat
        BY <1>2, <1>4
      <4>. QED BY <1>1, <1>2, <2>1, <2>2, <4>1
    <3>2. d[i] = moved[i] /\ moved[i] = r[i] /\ r[i] = s.data[i]
      BY <1>3, <1>5, <1>6, <2>1, <3>1, Zenon
    <3>3. w[i] = w1[i] /\ w1[i] = v1[i] /\ v1[i] = v[i] /\ v[i] = s.data[i]
      BY <1>7, <1>8, <1>10, <1>11, <2>1, <2>2, <3>1, Zenon
    <3>. QED BY <3>2, <3>3
  <2>3. CASE i \in q + 1 .. q + Len(x)
    <3>1. i <= q + Len(x) /\ i \in 1 .. q + Len(x) /\ ~(i <= q)
      BY <1>1, <1>2, <2>3
    <3>2. d[i] = x[i - q]
      BY <1>6, <2>1, <2>3, Zenon
    <3>3. w[i] = w1[i] /\ w1[i] = x[i - q]
      BY <1>10, <1>11, <2>1, <3>1, Zenon
    <3>. QED BY <3>2, <3>3
  <2>4. CASE i > q + Len(x)
    <3>. DEFINE k == i - (q + Len(x))
    <3>1. /\ i \notin q + 1 .. q + Len(x)
          /\ i \in q + Len(x) + 1 .. q + Len(x) + m
          /\ k \in 1 .. m /\ k \in 1 .. s.len - q /\ k + q \in 1 .. s.len
          /\ q + k = k + q /\ q + k <= Len(s.data) /\ ~(i <= q + Len(x))
      BY <1>1, <1>2, <1>12, <2>1, <2>4
    <3>2. d[i] = moved[i]
      BY <1>6, <2>1, <3>1, Zenon
    <3>3. moved[i] = tail[k]
      BY <1>4, <1>5, <2>1, <3>1, Zenon
    <3>4. w[i] = v2[k]
      BY <1>11, <2>1, <3>1, Zenon
    <3>. HIDE DEF k
    <3>5. tail[k] = s.data[q + k] /\ v2[k] = v[k + q] /\ v[k + q] = s.data[k + q]
      BY <1>4, <1>7, <1>9, <3>1, Zenon
    <3>. QED BY <3>1, <3>2, <3>3, <3>4, <3>5, Zenon
  <2>. QED BY <1>1, <1>2, <2>1, <2>2, <2>3, <2>4
<1>14. n \in Nat /\ n <= Len(d)
  BY <1>1, <1>6
<1>15. Len(w) = n
  BY <1>11, <1>12
<1>. HIDE DEF n
<1>16. Value(Str(d, n, c)) = w
  <2>1. d \in Seq(Cells) /\ w \in Seq(Cells) /\ \A i \in 1 .. n : w[i] = d[i]
    BY <1>6, <1>11, <1>13, Zenon
  <2>. QED BY <2>1, <1>14, <1>15, ValueIs
<1>. QED BY <1>16 DEF InsertAt, d, moved, tail, r, w, w1, v1, v2, v, n

LEMMA MoveIs ==
  ASSUME Good(s), Live,
         NEW p \in Nat, NEW from \in Nat, NEW n \in Nat, NEW l \in Nat,
         p <= l, p <= from, l <= p + n, from + (l - p) <= s.len
  PROVE  Value(Str(Terminate(Poke(s.data, p, Peek(s.data, from, n)), l), l, s.cap))
           = SubSeq(Value(s), 1, p) \o SubSeq(Value(s), from + 1, from + (l - p))
<1>. DEFINE x  == Peek(s.data, from, n)
            d  == Poke(s.data, p, x)
            v  == Value(s)
            v1 == SubSeq(v, 1, p)
            v2 == SubSeq(v, from + 1, from + (l - p))
            w  == v1 \o v2
<1>1. /\ s.data \in Seq(Cells) /\ s.len \in Nat
      /\ s.len < Len(s.data) /\ Len(s.data) \in Nat
  BY GoodFacts DEF Live
<1>2. /\ x \in Seq(Cells) /\ Len(x) = n
      /\ \A i \in 1 .. n : x[i] = IF from + i <= Len(s.data) THEN s.data[from + i] ELSE Junk
  <2>1. s.data \in Seq(Cells)
    BY <1>1
  <2>. QED BY <2>1, PeekCells, Zenon
<1>. HIDE DEF x
<1>3. /\ d \in Seq(Cells) /\ Len(d) = Len(s.data)
      /\ \A i \in 1 .. Len(s.data) : d[i] = IF i \in p + 1 .. p + n THEN x[i - p] ELSE s.data[i]
  <2>1. /\ d \in Seq(Cells) /\ Len(d) = Len(s.data)
        /\ \A i \in 1 .. Len(s.data) :
             d[i] = IF i \in p + 1 .. p + Len(x) THEN x[i - p] ELSE s.data[i]
    <3>1. s.data \in Seq(Cells) /\ x \in Seq(Cells)
      BY <1>1, <1>2
    <3>. QED BY <3>1, PokeCells, Zenon
  <2>. QED BY <1>2, <2>1, Zenon
<1>. HIDE DEF d
<1>4. v \in Seq(Cells) /\ Len(v) = s.len /\ \A i \in 1 .. s.len : v[i] = s.data[i]
  BY LiveValue DEF Live
<1>. HIDE DEF v
<1>5. v1 \in Seq(Cells) /\ Len(v1) = p /\ \A i \in 1 .. p : v1[i] = v[i]
  <2>1. p <= s.len
    BY <1>1
  <2>2. /\ v1 \in Seq(Cells) /\ Len(v1) = p - 1 + 1
        /\ \A i \in 1 .. p - 1 + 1 : v1[i] = v[i + (1 - 1)]
    BY <1>4, <2>1, Cut
  <2>. QED BY <2>2
<1>6. /\ v2 \in Seq(Cells) /\ Len(v2) = l - p
      /\ \A i \in 1 .. l - p : v2[i] = v[i + from]
  <2>1. from + (l - p) \in Nat /\ from + (l - p) <= s.len /\ from + 1 <= from + (l - p) + 1
    BY <1>1
  <2>2. /\ v2 \in Seq(Cells) /\ Len(v2) = from + (l - p) - (from + 1) + 1
        /\ \A i \in 1 .. from + (l - p) - (from + 1) + 1 : v2[i] = v[i + ((from + 1) - 1)]
    BY <1>4, <2>1, Cut
  <2>3. from + (l - p) - (from + 1) + 1 = l - p /\ (from + 1) - 1 = from
    OBVIOUS
  <2>. QED BY <2>2, <2>3, Zenon
<1>. HIDE DEF v1, v2
<1>7. p + (l - p) = l
  OBVIOUS
<1>8. /\ w \in Seq(Cells) /\ Len(w) = l
      /\ \A i \in 1 .. l : w[i] = IF i <= p THEN v1[i] ELSE v2[i - p]
  <2>1. /\ w \in Seq(Cells) /\ Len(w) = Len(v1) + Len(v2)
        /\ \A i \in 1 .. Len(v1) + Len(v2) : w[i] = IF i <= Len(v1) THEN v1[i] ELSE v2[i - Len(v1)]
    BY <1>5, <1>6, ConcatProperties, Zenon
  <2>. QED BY <1>5, <1>6, <1>7, <2>1, Zenon
<1>. HIDE DEF w
<1>9. ASSUME NEW i \in 1 .. l
      PROVE  w[i] = d[i]
  <2>1. i \in 1 .. Len(s.data) /\ i \in Nat
    BY <1>1
  <2>2. CASE i <= p
    <3>1. i \in 1 .. p /\ i \in 1 .. s.len /\ i \notin p + 1 .. p + n
      BY <1>1, <2>1, <2>2
    <3>2. w[i] = v[i] /\ v[i] = s.data[i] /\ d[i] = s.data[i]
      BY <1>3, <1>4, <1>5, <1>8, <2>1, <2>2, <3>1, Zenon
    <3>. QED BY <3>2
  <2>3. CASE i > p
    <3>. DEFINE k == i - p
    <3>1. /\ i \in p + 1 .. p + n /\ ~(i <= p)
          /\ k \in 1 .. n /\ k \in 1 .. l - p /\ k + from \in 1 .. s.len
          /\ from + k = k + from /\ from + k <= Len(s.data)
      BY <1>1, <2>1, <2>3
    <3>2. w[i] = v2[k] /\ d[i] = x[k]
      BY <1>3, <1>8, <2>1, <3>1, Zenon
    <3>. HIDE DEF k
    <3>3. v2[k] = v[k + from] /\ v[k + from] = s.data[k + from] /\ x[k] = s.data[from + k]
      BY <1>2, <1>4, <1>6, <3>1, Zenon
    <3>. QED BY <3>1, <3>2, <3>3, Zenon
  <2>. QED BY <2>1, <2>2, <2>3
<1>10. l < Len(d)
  BY <1>1, <1>3
<1>11. Value(Str(Terminate(d, l), l, s.cap)) = w
  <2>1. d \in Seq(Cells) /\ w \in Seq(Cells) /\ Len(w) = l /\ \A i \in 1 .. l : w[i] = d[i]
    BY <1>3, <1>8, <1>9, Zenon
  <2>. QED BY <2>1, <1>10, TerminatedIs
<1>. QED BY <1>11 DEF d, x, w, v1, v2, v

\* A part of a String, moved to its front.
LEMMA FrontIs ==
  ASSUME Good(s), Live,
         NEW from \in Nat, NEW l \in Nat, from + l <= s.len
  PROVE  Value(Str(Terminate(Poke(s.data, 0, Peek(s.data, from, l)), l), l, s.cap))
           = SubSeq(Value(s), from + 1, from + l)
<1>. DEFINE v == Value(s)
            v2 == SubSeq(v, from + 1, from + l)
<1>1. s.len \in Nat /\ v \in Seq(Cells) /\ Len(v) = s.len
  BY LiveValue, GoodFacts DEF Live
<1>2. l - 0 = l /\ l <= 0 + l /\ 0 <= l /\ 0 <= from /\ 0 \in Nat
  OBVIOUS
<1>. HIDE DEF v
<1>3. SubSeq(v, 1, 0) = <<>>
  BY SubSeqEmpty
<1>4. v2 \in Seq(Cells)
  <2>1. from + l \in Nat /\ from + 1 <= from + l + 1 /\ from + 1 \in Nat /\ from + 1 >= 1
    OBVIOUS
  <2>. QED BY <1>1, <2>1, Cut
<1>5. Value(Str(Terminate(Poke(s.data, 0, Peek(s.data, from, l)), l), l, s.cap))
        = SubSeq(v, 1, 0) \o SubSeq(v, from + 1, from + (l - 0))
  <2>1. from + (l - 0) <= s.len
    BY <1>2, Zenon
  <2>. QED BY <1>2, <2>1, MoveIs DEF v
<1>. HIDE DEF v2
<1>6. <<>> \o v2 = v2
  BY <1>4, ConcatEmptySeq
<1>. QED BY <1>2, <1>3, <1>5, <1>6, Zenon DEF v, v2

\* The text that a live String holds.
LEMMA TextFacts ==
  ASSUME Good(s), Live
  PROVE  /\ Value(s) \in Seq(Chars) /\ Value(s) \in Seq(Cells)
         /\ Len(Value(s)) = s.len /\ s.len \in Nat /\ s.len < Len(s.data) /\ Len(s.data) \in Nat
         /\ CStr(s.data) = Value(s) /\ s.data \in Seq(Cells) /\ s.data # <<>>
         /\ s.cap = Len(s.data)
BY LiveValue, GoodFacts, CStrIsValue DEF Live

LEMMA Halves ==
  ASSUME NEW S, NEW v \in Seq(S), NEW k \in 0 .. Len(v)
  PROVE  SubSeq(v, 1, k) \o SubSeq(v, k + 1, Len(v)) = v
<1>1. Len(v) \in Nat
  BY LenProperties
<1>2. 1 \in 1 .. Len(v) + 1 /\ k \in 1 - 1 .. Len(v) /\ Len(v) \in k .. Len(v)
  BY <1>1
<1>3. SubSeq(v, 1, k) \o SubSeq(v, k + 1, Len(v)) = SubSeq(v, 1, Len(v))
  BY <1>2, ConcatAdjacentSubSeq
<1>. QED BY <1>3, SubSeqFull

LEMMA AddPromises ==
  ASSUME Good(s), NEW x \in Words
  PROVE  /\ Create(x) => V!Become(x)
         /\ AppendWord(x) => V!Concat(x)
         /\ Prepend(x) => V!Prepend(x)
         /\ \A p \in Sizes : Insert(p, x) => V!Insert(p, x)
<1>1. x \in Seq(Chars) /\ Len(x) \in Nat
  BY WordFacts
<1>2. ASSUME Create(x) PROVE V!Become(x)
  BY <1>1, <1>2, FreshIs DEF Create, V!Become
<1>3. ASSUME AppendWord(x) PROVE V!Concat(x)
  <2>1. PICK c \in Caps(s, Len(x)) : s' = AppendTo(s, x, c)
    BY <1>3 DEF AppendWord
  <2>2. s.data # <<>>
    BY <1>3 DEF AppendWord, Live
  <2>3. c \in Nat /\ c > s.len + Len(x)
    BY <1>1, <2>2, GrowSuffices
  <2>4. Value(s') = Value(s) \o x
    BY <1>1, <2>1, <2>2, <2>3, AppendIs
  <2>. QED BY <2>4 DEF V!Concat
<1>4. ASSUME Prepend(x) PROVE V!Prepend(x)
  <2>1. PICK c \in Caps(s, Len(x)) : s' = InsertAt(0, x, c)
    BY <1>4 DEF Prepend
  <2>2. Live /\ s.data # <<>>
    BY <1>4 DEF Prepend, Live
  <2>3. c \in Nat /\ c > s.len + Len(x) /\ 0 \in 0 .. s.len
    BY <1>1, <2>2, GrowSuffices, GoodFacts
  <2>. DEFINE v == Value(s)
  <2>4. v \in Seq(Cells) /\ x \in Seq(Cells)
    BY <1>1, <2>2, TextFacts, CharsAreCells
  <2>5. Value(s') = SubSeq(v, 1, 0) \o x \o SubSeq(v, 0 + 1, Len(v))
    BY <1>1, <2>1, <2>2, <2>3, InsertIs
  <2>. HIDE DEF v
  <2>6. SubSeq(v, 1, 0) = <<>> /\ SubSeq(v, 0 + 1, Len(v)) = v
    BY <2>4, SubSeqEmpty, SubSeqFull
  <2>7. <<>> \o x = x
    BY <2>4, ConcatEmptySeq
  <2>8. Value(s') = x \o v
    BY <2>5, <2>6, <2>7, Zenon
  <2>. QED BY <2>8 DEF V!Prepend, v
<1>5. ASSUME NEW p \in Sizes, Insert(p, x) PROVE V!Insert(p, x)
  <2>. DEFINE q == IF p > s.len THEN s.len ELSE p
              v == Value(s)
  <2>1. PICK c \in Caps(s, Len(x)) : s' = InsertAt(q, x, c)
    BY <1>5 DEF Insert
  <2>2. Live /\ s.data # <<>>
    BY <1>5 DEF Insert, Live
  <2>3. c \in Nat /\ c > s.len + Len(x) /\ s.len \in Nat /\ Len(v) = s.len
    BY <1>1, <2>2, GrowSuffices, TextFacts
  <2>4. q \in 0 .. s.len /\ p \in Nat
    BY <2>3, StringsAssumption
  <2>5. V!Least(p, Len(v)) = q
    BY <2>3, <2>4 DEF V!Least
  <2>. HIDE DEF q
  <2>6. Value(s') = SubSeq(v, 1, q) \o x \o SubSeq(v, q + 1, Len(v))
    BY <1>1, <2>1, <2>2, <2>3, <2>4, InsertIs
  <2>. HIDE DEF v
  <2>7. Value(s') = SubSeq(v, 1, V!Least(p, Len(v))) \o x \o SubSeq(v, V!Least(p, Len(v)) + 1, Len(v))
    BY <2>5, <2>6, Zenon
  <2>. QED BY <2>7, Zenon DEF V!Insert, v
<1>. QED BY <1>2, <1>3, <1>4, <1>5

LEMMA AffixPromises ==
  ASSUME Good(s), NEW x \in Words
  PROVE  /\ RemovePrefix(x) => V!RemovePrefix(x)
         /\ RemoveSuffix(x) => V!RemoveSuffix(x)
<1>. DEFINE v == Value(s)
<1>1. x \in Seq(Chars) /\ Len(x) \in Nat
  BY WordFacts
<1>2. ASSUME RemovePrefix(x) PROVE V!RemovePrefix(x)
  <2>1. Live
    BY <1>2 DEF RemovePrefix
  <2>2. v \in Seq(Chars) /\ Len(v) \in Nat /\ CStr(s.data) = v
    BY <2>1, TextFacts
  <2>. HIDE DEF v
  <2>3. CASE Len(x) <= Len(v) /\ SubSeq(v, 1, Len(x)) = x
    <3>. DEFINE y == SubSeq(v, Len(x) + 1, Len(v))
    <3>1. s' = Fresh(y)
      BY <1>2, <2>2, <2>3 DEF RemovePrefix
    <3>2. y \in Seq(Chars)
      BY <1>1, <2>2, <2>3, Cut
    <3>3. SubSeq(v, 1, Len(x)) \o y = v
      <4>1. Len(x) \in 0 .. Len(v)
        BY <1>1, <2>2, <2>3
      <4>. QED BY <2>2, <4>1, Halves
    <3>. HIDE DEF y
    <3>4. Value(s') = y
      BY <3>1, <3>2, FreshIs
    <3>5. x \o Value(s') = v
      BY <2>3, <3>3, <3>4
    <3>. QED BY <2>3, <3>5 DEF V!RemovePrefix, V!IsPrefix, v
  <2>4. CASE ~(Len(x) <= Len(v) /\ SubSeq(v, 1, Len(x)) = x)
    <3>1. s' = Fresh(v)
      BY <1>2, <2>2, <2>4 DEF RemovePrefix
    <3>2. Value(s') = v
      BY <2>2, <3>1, FreshIs
    <3>. QED BY <2>4, <3>2 DEF V!RemovePrefix, V!IsPrefix, v
  <2>. QED BY <2>3, <2>4
<1>3. ASSUME RemoveSuffix(x) PROVE V!RemoveSuffix(x)
  <2>. DEFINE copy == Fresh(v)
              l    == Len(v) - Len(x)
  <2>1. Live
    BY <1>3 DEF RemoveSuffix
  <2>2. v \in Seq(Chars) /\ Len(v) \in Nat /\ CStr(s.data) = v /\ Len(v) <= MaxLen
    BY <2>1, TextFacts, ValueGood
  <2>3. s' = IF l >= 0 /\ SubSeq(v, l + 1, Len(v)) = x
             THEN Str(Terminate(copy.data, l), l, copy.cap) ELSE copy
    BY <1>3, <2>2 DEF RemoveSuffix
  <2>. HIDE DEF v
  <2>4. Good(copy) /\ Value(copy) = v /\ copy.len = Len(v) /\ copy.data # <<>>
    <3>1. v \o <<NUL>> # <<>>
      BY <2>2
    <3>. QED BY <2>2, <3>1, FreshGood, FreshIs DEF Fresh, Str
  <2>. HIDE DEF copy
  <2>5. CASE l >= 0 /\ SubSeq(v, l + 1, Len(v)) = x
    <3>1. l \in Nat /\ l <= copy.len /\ l \in 0 .. Len(v) /\ Len(x) <= Len(v)
          /\ Len(v) - Len(x) + 1 = l + 1
      BY <1>1, <2>2, <2>4, <2>5
    <3>2. SubSeq(v, 1, l) \o SubSeq(v, l + 1, Len(v)) = v
      BY <2>2, <3>1, Halves
    <3>. HIDE DEF l
    <3>3. Value(s') = SubSeq(v, 1, l)
      BY <2>3, <2>4, <2>5, <3>1, ShortenIs
    <3>4. Value(s') \o x = v
      BY <2>5, <3>2, <3>3
    <3>5. Len(x) <= Len(v) /\ SubSeq(v, Len(v) - Len(x) + 1, Len(v)) = x
      BY <2>5, <3>1
    <3>. QED BY <3>4, <3>5 DEF V!RemoveSuffix, V!IsSuffix, v
  <2>6. CASE ~(l >= 0 /\ SubSeq(v, l + 1, Len(v)) = x)
    <3>1. Value(s') = v
      BY <2>3, <2>4, <2>6
    <3>2. ~(Len(x) <= Len(v) /\ SubSeq(v, Len(v) - Len(x) + 1, Len(v)) = x)
      BY <1>1, <2>2, <2>6
    <3>. QED BY <3>1, <3>2 DEF V!RemoveSuffix, V!IsSuffix, v
  <2>. QED BY <2>5, <2>6
<1>. QED BY <1>2, <1>3

LEMMA SizePromises ==
  ASSUME Good(s), NEW n \in Sizes
  PROVE  /\ WithCap(n) => V!Become(<<>>)
         /\ Reserve(n) => V!Concat(<<>>)
         /\ ChopN(n) => V!Chop(n)
<1>. DEFINE v == Value(s)
<1>1. n \in Nat
  BY StringsAssumption
<1>2. ASSUME WithCap(n) PROVE V!Become(<<>>)
  <2>. DEFINE c == IF n > 0 THEN n ELSE 1
  <2>1. c \in Nat /\ 0 < c
    BY <1>1
  <2>2. s' = Str(Terminate(Block(c), 0), 0, c)
    BY <1>2 DEF WithCap
  <2>. HIDE DEF c
  <2>3. Block(c) \in Seq(Cells) /\ Len(Block(c)) = c
    BY <2>1, BlockCells
  <2>4. <<>> \in Seq(Cells) /\ Len(<<>>) = 0 /\ 0 \in Nat /\ 0 < Len(Block(c))
        /\ \A i \in 1 .. 0 : <<>>[i] = Block(c)[i]
    BY <2>1, <2>3
  <2>5. Value(s') = <<>>
    BY <2>2, <2>3, <2>4, TerminatedIs
  <2>. QED BY <2>5 DEF V!Become
<1>3. ASSUME Reserve(n) PROVE V!Concat(<<>>)
  <2>. DEFINE d == Resize(s.data, n)
  <2>1. Live /\ n > s.cap /\ s' = Str(d, s.len, n)
    BY <1>3 DEF Reserve
  <2>2. /\ v \in Seq(Cells) /\ Len(v) = s.len /\ s.len \in Nat
        /\ s.len < Len(s.data) /\ Len(s.data) \in Nat /\ s.data \in Seq(Cells) /\ s.cap = Len(s.data)
    BY <2>1, TextFacts
  <2>3. \A i \in 1 .. s.len : v[i] = s.data[i]
    BY <2>1, LiveValue DEF Live
  <2>4. /\ d \in Seq(Cells) /\ Len(d) = n
        /\ \A i \in 1 .. n : d[i] = IF i <= Len(s.data) THEN s.data[i] ELSE Junk
    BY <1>1, <2>2, ResizeCells
  <2>. HIDE DEF d, v
  <2>5. \A i \in 1 .. s.len : i \in 1 .. n /\ i <= Len(s.data)
    BY <1>1, <2>1, <2>2
  <2>6. \A i \in 1 .. s.len : v[i] = d[i]
    BY <2>3, <2>4, <2>5, Zenon
  <2>7. s.len <= Len(d)
    BY <1>1, <2>1, <2>2, <2>4
  <2>8. Value(s') = v
    BY <2>1, <2>2, <2>4, <2>6, <2>7, ValueIs
  <2>9. v \o <<>> = v
    BY <2>2, ConcatEmptySeq
  <2>. QED BY <2>8, <2>9 DEF V!Concat, v
<1>4. ASSUME ChopN(n) PROVE V!Chop(n)
  <2>. DEFINE l == IF n > s.len THEN 0 ELSE s.len - n
  <2>1. Live /\ s' = Str(Terminate(s.data, l), l, s.cap)
    BY <1>4 DEF ChopN, Shorten
  <2>2. Len(v) = s.len /\ s.len \in Nat /\ s.data # <<>>
    BY <2>1, TextFacts
  <2>3. l \in Nat /\ l <= s.len /\ l = Len(v) - V!Least(n, Len(v))
    BY <1>1, <2>2 DEF V!Least
  <2>. HIDE DEF l
  <2>4. Value(s') = SubSeq(v, 1, l)
    BY <2>1, <2>2, <2>3, ShortenIs
  <2>. HIDE DEF v
  <2>5. Value(s') = SubSeq(v, 1, Len(v) - V!Least(n, Len(v)))
    BY <2>3, <2>4, Zenon
  <2>. QED BY <2>5, Zenon DEF V!Chop, v
<1>. QED BY <1>2, <1>3, <1>4

LEMMA RangePromises ==
  ASSUME FairCallers, Good(s), NEW p \in Sizes, NEW n \in Sizes
  PROVE  /\ Erase(p, n) => V!Erase(p, n)
         /\ Substr(p, n) => V!Substr(p, n)
<1>. DEFINE m == Clamp(p, n)
            v == Value(s)
<1>1. p \in Nat /\ n \in Nat /\ p + n \in 0 .. SizeMod - 1 /\ MaxLen \in Nat
      /\ MaxLen + 1 < SizeMod /\ SizeMod \in Nat
  BY StringsAssumption DEF FairCallers
<1>2. Wrap(p + n) = p + n
  BY <1>1 DEF Wrap
<1>3. m = IF p + n > s.len THEN s.len - p ELSE n
  BY <1>2 DEF Clamp
<1>. HIDE DEF m
<1>4. Live => /\ v \in Seq(Chars) /\ v \in Seq(Cells) /\ Len(v) = s.len /\ s.len \in Nat
              /\ s.len < Len(s.data) /\ Len(s.data) \in Nat /\ s.data \in Seq(Cells)
              /\ s.len <= MaxLen
  BY TextFacts, ValueGood
<1>5. ASSUME Erase(p, n) PROVE V!Erase(p, n)
  <2>. DEFINE l == s.len - m
              k == s.len - p - m + 1
              from == p + m
  <2>1. Live /\ p < s.len
    BY <1>5 DEF Erase
  <2>2. /\ m \in Nat /\ p + m <= s.len
        /\ l \in 0 .. SizeMod - 1 /\ k \in 0 .. SizeMod - 1
    <3>1. s.len \in Nat /\ s.len <= MaxLen
      BY <1>4, <2>1
    <3>2. m \in Nat /\ p + m <= s.len
      BY <1>1, <1>3, <2>1, <3>1
    <3>. QED BY <1>1, <2>1, <3>1, <3>2
  <2>3. Wrap(l) = l /\ Wrap(k) = k
    BY <2>2 DEF Wrap
  <2>4. s' = Str(Terminate(Poke(s.data, p, Peek(s.data, from, k)), l), l, s.cap)
    BY <1>5, <2>3 DEF Erase, m
  <2>5. /\ from \in Nat /\ k \in Nat /\ l \in Nat
        /\ p <= l /\ p <= from /\ l <= p + k /\ from + (l - p) <= s.len
        /\ from + (l - p) = s.len /\ p <= s.len
    <3>1. s.len \in Nat /\ m \in Nat /\ p + m <= s.len
      BY <1>4, <2>1, <2>2
    <3>. QED BY <1>1, <2>1, <3>1
  <2>. HIDE DEF l, k
  <2>6. Value(s') = SubSeq(v, 1, p) \o SubSeq(v, from + 1, from + (l - p))
    BY <1>1, <2>1, <2>4, <2>5, MoveIs
  <2>7. SubSeq(v, from + 1, s.len) = SubSeq(v, p + n + 1, s.len)
    <3>1. CASE p + n > s.len
      <4>1. SubSeq(v, from + 1, s.len) = <<>>
        <5>1. from + 1 \in Int /\ s.len \in Int /\ s.len < from + 1
          BY <1>1, <1>3, <1>4, <2>1, <3>1
        <5>. QED BY <5>1, SubSeqEmpty
      <4>2. SubSeq(v, p + n + 1, s.len) = <<>>
        <5>1. p + n + 1 \in Int /\ s.len \in Int /\ s.len < p + n + 1
          BY <1>1, <1>4, <2>1, <3>1
        <5>. QED BY <5>1, SubSeqEmpty
      <4>. QED BY <4>1, <4>2
    <3>2. CASE ~(p + n > s.len)
      BY <1>3, <3>2
    <3>. QED BY <3>1, <3>2
  <2>8. V!Least(p, Len(v)) = p
    BY <1>1, <1>4, <2>1 DEF V!Least
  <2>9. Len(v) = s.len
    BY <1>4, <2>1
  <2>. HIDE DEF v, from
  <2>10. Value(s') = SubSeq(v, 1, V!Least(p, Len(v))) \o SubSeq(v, p + n + 1, Len(v))
    BY <2>5, <2>6, <2>7, <2>8, <2>9, Zenon
  <2>. QED BY <2>10, Zenon DEF V!Erase, v
<1>6. ASSUME Substr(p, n) PROVE V!Substr(p, n)
  <2>1. Live
    BY <1>6 DEF Substr
  <2>2. CASE p >= s.len
    <3>1. s' = Fresh(<<>>)
      BY <1>6, <2>2 DEF Substr
    <3>2. Value(s') = <<>>
      <4>1. <<>> \in Seq(Chars)
        OBVIOUS
      <4>. QED BY <3>1, <4>1, FreshIs
    <3>3. V!Least(p + n, Len(v)) \in Int /\ V!Least(p + n, Len(v)) < p + 1
      BY <1>1, <1>4, <2>1, <2>2 DEF V!Least
    <3>4. SubSeq(v, p + 1, V!Least(p + n, Len(v))) = <<>>
      BY <1>1, <3>3, SubSeqEmpty
    <3>. QED BY <3>2, <3>4 DEF V!Substr
  <2>3. CASE p < s.len
    <3>. DEFINE x == Peek(s.data, p, m)
                b == Block(m + 1)
                d == Poke(b, 0, x)
                w == SubSeq(v, p + 1, p + m)
    <3>1. m \in Nat /\ p + m <= s.len /\ m + 1 \in 0 .. SizeMod - 1 /\ V!Least(p + n, Len(v)) = p + m
      BY <1>1, <1>3, <1>4, <2>1, <2>3 DEF V!Least
    <3>2. Wrap(m + 1) = m + 1
      BY <3>1 DEF Wrap
    <3>3. s' = Str(Terminate(d, m), m, m + 1)
      <4>1. ~(p >= s.len)
        BY <1>1, <1>4, <2>1, <2>3
      <4>2. s' = Str(Terminate(Poke(Block(Wrap(m + 1)), 0, Peek(s.data, p, m)), m), m, Wrap(m + 1))
        BY <1>6, <4>1, Zenon DEF Substr, m
      <4>. QED BY <3>2, <4>2, Zenon
    <3>4. /\ x \in Seq(Cells) /\ Len(x) = m
          /\ \A i \in 1 .. m : x[i] = IF p + i <= Len(s.data) THEN s.data[p + i] ELSE Junk
      <4>1. s.data \in Seq(Cells) /\ p \in Nat /\ m \in Nat
        BY <1>1, <1>4, <2>1, <3>1
      <4>. QED BY <4>1, PeekCells, Zenon
    <3>5. b \in Seq(Cells) /\ Len(b) = m + 1 /\ 0 \in Nat
      BY <3>1, BlockCells
    <3>. HIDE DEF x, b
    <3>6. /\ d \in Seq(Cells) /\ Len(d) = Len(b)
          /\ \A i \in 1 .. Len(b) : d[i] = IF i \in 0 + 1 .. 0 + Len(x) THEN x[i - 0] ELSE b[i]
      BY <3>4, <3>5, PokeCells, Zenon
    <3>. HIDE DEF d
    <3>7. \A i \in 1 .. s.len : v[i] = s.data[i]
      BY <2>1, LiveValue DEF Live
    <3>. HIDE DEF v
    <3>8. w \in Seq(Cells) /\ Len(w) = m /\ \A i \in 1 .. m : w[i] = v[i + p]
      <4>1. p + 1 \in Nat /\ p + 1 >= 1 /\ p + m \in Nat /\ p + m <= Len(v) /\ p + 1 <= p + m + 1
        BY <1>1, <1>4, <2>1, <3>1
      <4>. DEFINE a == p + 1
                  e == p + m
      <4>2. a \in Nat /\ a >= 1 /\ e \in Nat /\ e <= Len(v) /\ a <= e + 1 /\ e - a + 1 = m /\ a - 1 = p
        BY <1>1, <3>1, <4>1
      <4>3. w = SubSeq(v, a, e)
        OBVIOUS
      <4>. HIDE DEF a, e, w
      <4>4. v \in Seq(Cells)
        BY <1>4, <2>1
      <4>5. /\ SubSeq(v, a, e) \in Seq(Cells) /\ Len(SubSeq(v, a, e)) = e - a + 1
            /\ \A i \in 1 .. e - a + 1 : SubSeq(v, a, e)[i] = v[i + (a - 1)]
        BY <4>2, <4>4, Cut
      <4>. QED BY <4>2, <4>3, <4>5, Zenon
    <3>. HIDE DEF w
    <3>9. ASSUME NEW i \in 1 .. m PROVE w[i] = d[i]
      <4>1. /\ i \in 1 .. Len(b) /\ i \in 0 + 1 .. 0 + Len(x) /\ i - 0 = i
            /\ i + p \in 1 .. s.len /\ p + i = i + p /\ p + i <= Len(s.data)
        BY <1>1, <1>4, <2>1, <3>1, <3>4, <3>5
      <4>2. d[i] = x[i] /\ x[i] = s.data[p + i]
        BY <3>4, <3>6, <4>1, Zenon
      <4>3. w[i] = v[i + p] /\ v[i + p] = s.data[i + p]
        BY <3>7, <3>8, <4>1, Zenon
      <4>. QED BY <4>1, <4>2, <4>3, Zenon
    <3>10. m < Len(d)
      BY <3>1, <3>5, <3>6
    <3>11. Value(s') = w
      <4>1. d \in Seq(Cells) /\ w \in Seq(Cells) /\ Len(w) = m /\ \A i \in 1 .. m : w[i] = d[i]
        BY <3>6, <3>8, <3>9, Zenon
      <4>. QED BY <3>1, <3>3, <3>10, <4>1, TerminatedIs
    <3>12. Value(s') = SubSeq(v, p + 1, V!Least(p + n, Len(v)))
      BY <3>1, <3>11, Zenon DEF w
    <3>. QED BY <3>12, Zenon DEF V!Substr, v
  <2>. QED BY <1>1, <1>4, <2>1, <2>2, <2>3
<1>. QED BY <1>5, <1>6

LEMMA CutAt ==
  ASSUME NEW S, NEW v \in Seq(S), NEW from \in Nat, NEW to \in Nat, from <= to, to <= Len(v)
  PROVE  /\ SubSeq(v, from + 1, to) \in Seq(S)
         /\ Len(SubSeq(v, from + 1, to)) = to - from
         /\ \A i \in 1 .. to - from : SubSeq(v, from + 1, to)[i] = v[i + from]
<1>. DEFINE a == from + 1
<1>1. a \in Nat /\ a >= 1 /\ a <= to + 1 /\ to - a + 1 = to - from /\ a - 1 = from
  OBVIOUS
<1>. HIDE DEF a
<1>2. /\ SubSeq(v, a, to) \in Seq(S) /\ Len(SubSeq(v, a, to)) = to - a + 1
      /\ \A i \in 1 .. to - a + 1 : SubSeq(v, a, to)[i] = v[i + (a - 1)]
  BY <1>1, Cut
<1>3. /\ SubSeq(v, a, to) \in Seq(S) /\ Len(SubSeq(v, a, to)) = to - from
      /\ \A i \in 1 .. to - from : SubSeq(v, a, to)[i] = v[i + from]
  BY <1>1, <1>2, Zenon
<1>. QED BY <1>3 DEF a

\* A piece of which every cell is in T.
LEMMA AllInCut ==
  ASSUME NEW S, NEW v \in Seq(S), NEW from \in Nat, NEW to \in Nat, from <= to, to <= Len(v),
         NEW T, \A j \in from + 1 .. to : v[j] \in T
  PROVE  V!AllIn(SubSeq(v, from + 1, to), T)
<1>. DEFINE w == SubSeq(v, from + 1, to)
<1>1. Len(w) = to - from /\ \A i \in 1 .. to - from : w[i] = v[i + from]
  BY CutAt
<1>. HIDE DEF w
<1>2. \A i \in 1 .. to - from : i + from \in from + 1 .. to
  OBVIOUS
<1>3. \A i \in 1 .. Len(w) : w[i] \in T
  BY <1>1, <1>2
<1>. QED BY <1>3 DEF V!AllIn, w

\* The two ways in which a String is emptied.
LEMMA EmptyPromises ==
  ASSUME Good(s), Destroy \/ Clear
  PROVE  V!Become(<<>>)
<1>1. CASE Destroy
  <2>1. Value(s') = <<>>
    BY <1>1, NullGood, NoValue DEF Destroy, Null, Str
  <2>. QED BY <2>1 DEF V!Become
<1>2. CASE Clear
  <2>1. Live /\ s.data # <<>> /\ s.len \in Nat /\ 0 <= s.len /\ 0 \in Nat
    BY <1>2, TextFacts DEF Clear
  <2>2. s' = Str(Terminate(s.data, 0), 0, s.cap)
    BY <1>2 DEF Clear
  <2>3. Value(s') = SubSeq(Value(s), 1, 0)
    BY <2>1, <2>2, ShortenIs
  <2>4. SubSeq(Value(s), 1, 0) = <<>>
    BY SubSeqEmpty
  <2>. QED BY <2>3, <2>4 DEF V!Become
<1>. QED BY <1>1, <1>2

LEMMA CopyPromises ==
  ASSUME FairCallers, Good(s)
  PROVE  /\ Clone => V!Concat(<<>>)
         /\ AppendSelf => V!Concat(Value(s))
<1>. DEFINE v == Value(s)
<1>1. ASSUME Clone PROVE V!Concat(<<>>)
  <2>1. v \in Seq(Chars) /\ s' = Fresh(v)
    BY <1>1, TextFacts DEF Clone
  <2>. HIDE DEF v
  <2>2. Value(s') = v
    BY <2>1, FreshIs
  <2>3. v \o <<>> = v
    BY <2>1, ConcatEmptySeq
  <2>. QED BY <2>2, <2>3 DEF V!Concat, v
<1>2. ASSUME AppendSelf PROVE V!Concat(v)
  <2>1. Live /\ v \in Seq(Chars) /\ Len(v) = s.len /\ s.len \in Nat /\ CStr(s.data) = v /\ s.data # <<>>
        /\ s.cap \in Nat
    BY <1>2, TextFacts DEF AppendSelf
  <2>2. PICK c \in Caps(s, s.len) : s' = AppendTo(s, IF c > s.cap THEN Block(s.len) ELSE CStr(s.data), c)
    BY <1>2 DEF AppendSelf
  <2>3. Needed(s, s.len) <= s.cap
    BY <1>2 DEF AppendSelf, FairCallers
  <2>4. c = s.cap /\ ~(c > s.cap)
    BY <2>1, <2>2, <2>3 DEF Caps
  <2>5. s' = AppendTo(s, v, c)
    BY <2>1, <2>2, <2>4
  <2>6. c \in Nat /\ c > s.len + Len(v)
    BY <2>1, <2>3, <2>4 DEF Needed
  <2>. HIDE DEF v
  <2>7. Value(s') = Value(s) \o v
    BY <2>1, <2>5, <2>6, AppendIs
  <2>. QED BY <2>7 DEF V!Concat, v
<1>. QED BY <1>1, <1>2

\* What is left when the characters of S at the end are cut off.
LEMMA EndIs ==
  ASSUME Good(s), Live, NEW S, NEW e \in 0 .. s.len, Trailing(0, e, S), Shorten(e)
  PROVE  /\ e \in 0 .. Len(Value(s))
         /\ V!AllIn(SubSeq(Value(s), e + 1, Len(Value(s))), S)
         /\ Value(s') = SubSeq(Value(s), 1, e)
         /\ Value(s') # <<>> => Value(s')[e] \notin S
<1>. DEFINE v == Value(s)
<1>1. /\ v \in Seq(Cells) /\ Len(v) = s.len /\ s.len \in Nat /\ e \in Nat /\ e <= s.len /\ s.data # <<>>
      /\ \A i \in 1 .. s.len : v[i] = s.data[i]
  BY TextFacts, LiveValue
<1>2. /\ \A j \in e + 1 .. s.len : s.data[j] \in S
      /\ e > 0 => s.data[e] \notin S
  BY DEF Trailing
<1>3. Value(s') = SubSeq(v, 1, e)
  <2>1. s' = Str(Terminate(s.data, e), e, s.cap)
    BY DEF Shorten
  <2>. QED BY <1>1, <2>1, ShortenIs
<1>. HIDE DEF v
<1>4. V!AllIn(SubSeq(v, e + 1, Len(v)), S)
  <2>1. \A j \in e + 1 .. Len(v) : v[j] \in S
    <3>1. \A j \in e + 1 .. s.len : j \in 1 .. s.len
      BY <1>1
    <3>. QED BY <1>1, <1>2, <3>1
  <2>2. Len(v) \in Nat /\ e <= Len(v)
    BY <1>1
  <2>. QED BY <1>1, <2>1, <2>2, AllInCut
<1>5. ASSUME Value(s') # <<>> PROVE Value(s')[e] \notin S
  <2>1. e # 0
    <3>1. SubSeq(v, 1, 0) = <<>>
      BY SubSeqEmpty
    <3>. QED BY <1>3, <1>5, <3>1
  <2>2. e > 0 /\ e \in 1 .. e /\ e \in 1 .. s.len /\ 1 <= e + 1 /\ e <= Len(v)
    BY <1>1, <2>1
  <2>3. SubSeq(v, 1, e)[e] = v[e]
    <3>1. \A i \in 1 .. e - 1 + 1 : SubSeq(v, 1, e)[i] = v[i + (1 - 1)]
      BY <1>1, <2>2, Cut
    <3>2. e \in 1 .. e - 1 + 1 /\ e + (1 - 1) = e
      BY <1>1, <2>2
    <3>. QED BY <3>1, <3>2, Zenon
  <2>4. v[e] = s.data[e] /\ s.data[e] \notin S
    BY <1>1, <1>2, <2>2
  <2>. QED BY <1>3, <2>3, <2>4
<1>. QED BY <1>1, <1>3, <1>4, <1>5 DEF v

LEMMA EndPromises ==
  ASSUME Good(s)
  PROVE  /\ Rtrim => V!Rtrim
         /\ ChompAll => V!ChompAll
         /\ Chop => V!Chop(1)
<1>1. ASSUME Rtrim PROVE V!Rtrim
  <2>1. Live
    BY <1>1 DEF Rtrim
  <2>2. PICK e \in 0 .. s.len : Trailing(0, e, Spaces) /\ Shorten(e)
    BY <1>1 DEF Rtrim
  <2>. QED BY <2>1, <2>2, EndIs DEF V!Rtrim
<1>2. ASSUME ChompAll PROVE V!ChompAll
  <2>1. Live
    BY <1>2 DEF ChompAll
  <2>2. PICK e \in 0 .. s.len : Trailing(0, e, {CR, LF}) /\ Shorten(e)
    BY <1>2 DEF ChompAll
  <2>. QED BY <2>1, <2>2, EndIs DEF V!ChompAll
<1>3. ASSUME Chop PROVE V!Chop(1)
  <2>. DEFINE v == Value(s)
              l == s.len - 1
  <2>1. s.len > 0 /\ s' = Str(Terminate(s.data, l), l, s.cap)
    BY <1>3 DEF Chop, Shorten
  <2>2. Live
    BY <2>1 DEF Good, Live
  <2>3. Len(v) = s.len /\ s.len \in Nat /\ s.data # <<>>
    BY <2>2, TextFacts
  <2>4. l \in Nat /\ l <= s.len /\ l = Len(v) - V!Least(1, Len(v))
    BY <2>1, <2>3 DEF V!Least
  <2>. HIDE DEF l
  <2>5. Value(s') = SubSeq(v, 1, l)
    BY <2>1, <2>3, <2>4, ShortenIs
  <2>. HIDE DEF v
  <2>6. Value(s') = SubSeq(v, 1, Len(v) - V!Least(1, Len(v)))
    BY <2>4, <2>5, Zenon
  <2>. QED BY <2>6, Zenon DEF V!Chop, v
<1>. QED BY <1>1, <1>2, <1>3

\* What is left when the first i characters and those from e on are cut off,
\* all of them spaces.
LEMMA MiddleIs ==
  ASSUME Good(s), Live, NEW i \in 0 .. s.len, NEW e \in i .. s.len,
         Leading(i), Trailing(i, e, Spaces),
         s' = Str(Terminate(Poke(s.data, 0, Peek(s.data, i, e - i)), e - i), e - i, s.cap)
  PROVE  /\ i \in 0 .. Len(Value(s)) /\ e \in 0 .. Len(Value(s))
         /\ V!AllIn(SubSeq(Value(s), 1, i), Spaces)
         /\ V!AllIn(SubSeq(Value(s), e + 1, Len(Value(s))), Spaces)
         /\ Value(s') = SubSeq(Value(s), i + 1, e)
         /\ Value(s') # <<>> => /\ Value(s')[1] \notin Spaces
                                /\ Value(s')[Len(Value(s'))] \notin Spaces
<1>. DEFINE v == Value(s)
            w == SubSeq(v, i + 1, e)
            l == e - i
<1>1. /\ v \in Seq(Cells) /\ Len(v) = s.len /\ s.len \in Nat
      /\ i \in Nat /\ e \in Nat /\ i <= e /\ e <= s.len
  BY TextFacts
<1>2. \A j \in 1 .. s.len : v[j] = s.data[j]
  BY LiveValue DEF Live
<1>3. /\ \A j \in 1 .. i : s.data[j] \in Spaces
      /\ i < s.len => s.data[i + 1] \notin Spaces
      /\ \A j \in e + 1 .. s.len : s.data[j] \in Spaces
      /\ e > i => s.data[e] \notin Spaces
  BY DEF Leading, Trailing
<1>4. l \in Nat /\ i + l = e /\ i + l <= s.len
  BY <1>1
<1>5. Value(s') = w
  <2>. HIDE DEF l
  <2>1. s' = Str(Terminate(Poke(s.data, 0, Peek(s.data, i, l)), l), l, s.cap)
    BY DEF l
  <2>. HIDE DEF v
  <2>2. Value(s') = SubSeq(v, i + 1, i + l)
    BY <1>1, <1>4, <2>1, FrontIs DEF v
  <2>. QED BY <1>4, <2>2, Zenon
<1>. HIDE DEF v
<1>6. V!AllIn(SubSeq(v, 1, i), Spaces)
  <2>1. \A j \in 0 + 1 .. i : v[j] \in Spaces
    <3>1. \A j \in 0 + 1 .. i : j \in 1 .. s.len /\ j \in 1 .. i
      BY <1>1
    <3>. QED BY <1>2, <1>3, <3>1
  <2>2. 0 \in Nat /\ 0 <= i /\ i <= Len(v)
    BY <1>1
  <2>3. V!AllIn(SubSeq(v, 0 + 1, i), Spaces)
    BY <1>1, <2>1, <2>2, AllInCut
  <2>. QED BY <2>3
<1>7. V!AllIn(SubSeq(v, e + 1, Len(v)), Spaces)
  <2>1. \A j \in e + 1 .. Len(v) : v[j] \in Spaces
    <3>1. \A j \in e + 1 .. Len(v) : j \in 1 .. s.len /\ j \in e + 1 .. s.len
      BY <1>1
    <3>. QED BY <1>2, <1>3, <3>1
  <2>2. Len(v) \in Nat /\ e <= Len(v)
    BY <1>1
  <2>. QED BY <1>1, <2>1, <2>2, AllInCut
<1>8. Len(w) = l /\ \A j \in 1 .. l : w[j] = v[j + i]
  BY <1>1, CutAt
<1>9. ASSUME w # <<>> PROVE w[1] \notin Spaces /\ w[Len(w)] \notin Spaces
  <2>1. w \in Seq(Cells)
    BY <1>1, CutAt
  <2>. HIDE DEF w
  <2>2. l # 0
    BY <1>8, <1>9, <2>1, EmptySeq
  <2>3. 1 \in 1 .. l /\ l \in 1 .. l /\ 1 + i = i + 1 /\ l + i = e /\ i < s.len /\ e > i
        /\ i + 1 \in 1 .. s.len /\ e \in 1 .. s.len
    BY <1>1, <1>4, <2>2
  <2>. HIDE DEF l
  <2>4. w[1] = s.data[i + 1] /\ w[l] = s.data[e]
    BY <1>2, <1>8, <2>3
  <2>. QED BY <1>3, <1>8, <2>3, <2>4
<1>. QED
  <2>1. i \in 0 .. Len(v) /\ e \in 0 .. Len(v)
    BY <1>1
  <2>. HIDE DEF w
  <2>2. Value(s') # <<>> => Value(s')[1] \notin Spaces /\ Value(s')[Len(Value(s'))] \notin Spaces
    BY <1>5, <1>9, Zenon
  <2>. QED BY <1>5, <1>6, <1>7, <2>1, <2>2 DEF v, w

LEMMA TrimPromises ==
  ASSUME Good(s)
  PROVE  (Trim => V!Trim) /\ (Ltrim => V!Ltrim)
<1>1. ASSUME Trim PROVE V!Trim
  <2>1. Live
    BY <1>1 DEF Trim
  <2>2. PICK i \in 0 .. s.len : \E e \in i .. s.len :
          /\ Leading(i) /\ Trailing(i, e, Spaces)
          /\ s' = Str(Terminate(Poke(s.data, 0, Peek(s.data, i, e - i)), e - i), e - i, s.cap)
    BY <1>1 DEF Trim
  <2>3. PICK e \in i .. s.len :
          /\ Leading(i) /\ Trailing(i, e, Spaces)
          /\ s' = Str(Terminate(Poke(s.data, 0, Peek(s.data, i, e - i)), e - i), e - i, s.cap)
    BY <2>2
  <2>4. /\ i \in 0 .. Len(Value(s)) /\ e \in 0 .. Len(Value(s))
        /\ V!AllIn(SubSeq(Value(s), 1, i), Spaces)
        /\ V!AllIn(SubSeq(Value(s), e + 1, Len(Value(s))), Spaces)
        /\ Value(s') = SubSeq(Value(s), i + 1, e)
        /\ Value(s') # <<>> => /\ Value(s')[1] \notin Spaces
                               /\ Value(s')[Len(Value(s'))] \notin Spaces
    BY <2>1, <2>3, MiddleIs
  <2>5. Value(s') # <<>> => {Value(s')[1], Value(s')[Len(Value(s'))]} \cap Spaces = {}
    BY <2>4
  <2>. QED BY <2>4, <2>5 DEF V!Trim
<1>2. ASSUME Ltrim PROVE V!Ltrim
  <2>1. Live
    BY <1>2 DEF Ltrim
  <2>2. PICK i \in 0 .. s.len :
          /\ Leading(i)
          /\ s' = Str(Terminate(Poke(s.data, 0, Peek(s.data, i, s.len - i)), s.len - i),
                      s.len - i, s.cap)
    BY <1>2 DEF Ltrim
  <2>. DEFINE v == Value(s)
              l == s.len - i
              w == SubSeq(v, i + 1, s.len)
  <2>3. /\ v \in Seq(Cells) /\ Len(v) = s.len /\ s.len \in Nat /\ i \in Nat /\ i <= s.len
        /\ l \in Nat /\ i + l = s.len /\ i + l <= s.len
    BY <2>1, <2>2, TextFacts
  <2>4. \A j \in 1 .. s.len : v[j] = s.data[j]
    BY <2>1, LiveValue DEF Live
  <2>5. Value(s') = w
    <3>1. s' = Str(Terminate(Poke(s.data, 0, Peek(s.data, i, l)), l), l, s.cap)
      BY <2>2
    <3>. HIDE DEF l, v
    <3>2. Value(s') = SubSeq(v, i + 1, i + l)
      BY <2>1, <2>3, <3>1, FrontIs DEF v
    <3>. QED BY <2>3, <3>2, Zenon
  <2>. HIDE DEF v
  <2>6. V!AllIn(SubSeq(v, 1, i), Spaces)
    <3>1. \A j \in 0 + 1 .. i : v[j] \in Spaces
      <4>1. \A j \in 0 + 1 .. i : j \in 1 .. s.len /\ j \in 1 .. i
        BY <2>3
      <4>. QED BY <2>2, <2>4, <4>1 DEF Leading
    <3>2. 0 \in Nat /\ 0 <= i /\ i <= Len(v)
      BY <2>3
    <3>3. V!AllIn(SubSeq(v, 0 + 1, i), Spaces)
      BY <2>3, <3>1, <3>2, AllInCut
    <3>. QED BY <3>3
  <2>7. ASSUME w # <<>> PROVE w[1] \notin Spaces
    <3>1. w \in Seq(Cells) /\ Len(w) = s.len - i /\ \A j \in 1 .. s.len - i : w[j] = v[j + i]
      BY <2>3, CutAt
    <3>. HIDE DEF w
    <3>2. s.len - i # 0
      BY <2>7, <3>1, EmptySeq
    <3>3. 1 \in 1 .. s.len - i /\ 1 + i = i + 1 /\ i < s.len /\ i + 1 \in 1 .. s.len
      BY <2>3, <3>2
    <3>4. w[1] = s.data[i + 1]
      BY <2>4, <3>1, <3>3
    <3>. QED BY <2>2, <3>3, <3>4 DEF Leading
  <2>8. i \in 0 .. Len(v) /\ w = SubSeq(v, i + 1, Len(v))
    BY <2>3
  <2>. HIDE DEF w
  <2>9. Value(s') # <<>> => Value(s')[1] \notin Spaces
    BY <2>5, <2>7, Zenon
  <2>. QED BY <2>5, <2>6, <2>8, <2>9 DEF V!Ltrim, v
<1>. QED BY <1>1, <1>2

LEMMA MapPromises ==
  ASSUME Good(s), NEW f \in [Chars -> Chars], Map(f)
  PROVE  V!Map(f)
<1>. DEFINE v == Value(s)
            d == [i \in 1 .. Len(s.data) |-> IF i <= s.len THEN f[s.data[i]] ELSE s.data[i]]
            w == [i \in 1 .. Len(v) |-> f[v[i]]]
<1>1. /\ Live /\ v \in Seq(Chars) /\ Len(v) = s.len /\ s.len \in Nat /\ s.len < Len(s.data)
      /\ Len(s.data) \in Nat /\ s.data \in Seq(Cells)
      /\ \A i \in 1 .. s.len : s.data[i] \in Chars
  BY TextFacts, GoodFacts DEF Map, Live
<1>2. \A i \in 1 .. s.len : v[i] = s.data[i]
  BY <1>1, LiveValue DEF Live
<1>. HIDE DEF v
<1>3. d \in Seq(Cells) /\ Len(d) = Len(s.data)
  <2>1. \A i \in 1 .. Len(s.data) : s.data[i] \in Cells
    BY <1>1, ElementOfSeq
  <2>2. \A i \in 1 .. Len(s.data) : (IF i <= s.len THEN f[s.data[i]] ELSE s.data[i]) \in Cells
    BY <1>1, <2>1 DEF Cells
  <2>. QED BY <1>1, <2>2, IsASeq
<1>4. \A i \in 1 .. s.len : d[i] = f[s.data[i]]
  BY <1>1
<1>5. w \in Seq(Cells) /\ Len(w) = s.len
  <2>1. \A i \in 1 .. Len(v) : f[v[i]] \in Cells
    BY <1>1, <1>2 DEF Cells
  <2>2. Len(v) \in Nat
    BY <1>1
  <2>3. w \in [1 .. Len(v) -> Cells]
    BY <2>1
  <2>. QED BY <1>1, <2>2, <2>3, FunctionIsSeq
<1>6. \A i \in 1 .. s.len : w[i] = d[i]
  <2>1. \A i \in 1 .. s.len : w[i] = f[v[i]]
    BY <1>1
  <2>. QED BY <1>2, <1>4, <2>1
<1>7. s' = Str(d, s.len, s.cap)
  BY DEF Map
<1>. HIDE DEF d, w
<1>8. Value(s') = w
  BY <1>1, <1>3, <1>5, <1>6, <1>7, ValueIs
<1>. QED BY <1>8 DEF V!Map, w, v

LEMMA SuffixOne ==
  ASSUME NEW v \in Seq(Cells), NEW a \in Cells
  PROVE  V!IsSuffix(<<a>>, v) <=> Len(v) > 0 /\ v[Len(v)] = a
<1>1. Len(v) \in Nat /\ Len(<<a>>) = 1
  BY LenProperties
<1>2. CASE Len(v) = 0
  BY <1>1, <1>2 DEF V!IsSuffix
<1>3. CASE Len(v) # 0
  <2>. DEFINE n == Len(v)
              from == n - 1
              w == SubSeq(v, from + 1, n)
  <2>1. from \in Nat /\ n \in Nat /\ from <= n /\ n <= Len(v) /\ n - from = 1 /\ 1 + from = n
        /\ n - Len(<<a>>) + 1 = from + 1
    BY <1>1, <1>3
  <2>2. /\ w \in Seq(Cells) /\ Len(w) = n - from
        /\ \A i \in 1 .. n - from : w[i] = v[i + from]
    BY <2>1, CutAt
  <2>3. Len(w) = 1 /\ w[1] = v[n] /\ w \in Seq(Cells)
    BY <2>1, <2>2
  <2>4. V!IsSuffix(<<a>>, v) <=> w = <<a>>
    BY <1>1, <1>3, <2>1 DEF V!IsSuffix
  <2>. HIDE DEF w
  <2>5. w = <<a>> <=> w[1] = a
    BY <2>3
  <2>. QED BY <1>1, <1>3, <2>3, <2>4, <2>5
<1>. QED BY <1>2, <1>3

LEMMA SuffixTwo ==
  ASSUME NEW v \in Seq(Cells), NEW a \in Cells, NEW b \in Cells
  PROVE  V!IsSuffix(<<a, b>>, v) <=> Len(v) >= 2 /\ v[Len(v) - 1] = a /\ v[Len(v)] = b
<1>1. Len(v) \in Nat /\ Len(<<a, b>>) = 2
  BY LenProperties
<1>2. CASE ~(Len(v) >= 2)
  BY <1>1, <1>2 DEF V!IsSuffix
<1>3. CASE Len(v) >= 2
  <2>. DEFINE n == Len(v)
              from == n - 2
              w == SubSeq(v, from + 1, n)
  <2>1. from \in Nat /\ n \in Nat /\ from <= n /\ n <= Len(v) /\ n - from = 2 /\ 1 + from = n - 1
        /\ 2 + from = n /\ n - Len(<<a, b>>) + 1 = from + 1
    BY <1>1, <1>3
  <2>2. /\ w \in Seq(Cells) /\ Len(w) = n - from
        /\ \A i \in 1 .. n - from : w[i] = v[i + from]
    BY <2>1, CutAt
  <2>3. Len(w) = 2 /\ w[1] = v[n - 1] /\ w[2] = v[n] /\ w \in Seq(Cells)
    BY <2>1, <2>2
  <2>4. V!IsSuffix(<<a, b>>, v) <=> w = <<a, b>>
    BY <1>1, <1>3, <2>1 DEF V!IsSuffix
  <2>. HIDE DEF w
  <2>5. w = <<a, b>> <=> w[1] = a /\ w[2] = b
    BY <2>3
  <2>. QED BY <1>1, <1>3, <2>3, <2>4, <2>5
<1>. QED BY <1>2, <1>3

LEMMA ChompPromises ==
  ASSUME Good(s), Chomp
  PROVE  V!Chomp
<1>. DEFINE v == Value(s)
            n == s.len
            both == n >= 2 /\ SubSeq(s.data, n - 1, n) = <<CR, LF>>
            l == n - IF both THEN 2 ELSE IF s.data[n] \in {CR, LF} THEN 1 ELSE 0
<1>1. n > 0 /\ s' = Str(Terminate(s.data, l), l, s.cap)
  BY DEF Chomp, Shorten
<1>2. Live
  BY <1>1 DEF Good, Live
<1>3. /\ v \in Seq(Cells) /\ Len(v) = n /\ n \in Nat /\ n > 0 /\ s.data # <<>>
      /\ s.data \in Seq(Cells) /\ n < Len(s.data) /\ Len(s.data) \in Nat
      /\ CR \in Cells /\ LF \in Cells /\ CR \in Chars /\ LF \in Chars
  <2>1. CR \in Chars /\ LF \in Chars
    BY StringsAssumption
  <2>. QED BY <1>1, <1>2, <2>1, TextFacts DEF Cells
<1>4. \A i \in 1 .. n : v[i] = s.data[i]
  BY <1>2, LiveValue DEF Live
<1>5. v[n] = s.data[n]
  BY <1>3, <1>4
<1>. HIDE DEF v
<1>6. both <=> V!IsSuffix(<<CR, LF>>, v)
  <2>1. CASE n >= 2
    <3>0. n \in Nat
      BY <1>3
    <3>. HIDE DEF n
    <3>. DEFINE from == n - 2
                w == SubSeq(s.data, from + 1, n)
    <3>1. from \in Nat /\ from <= n /\ n <= Len(s.data) /\ n - from = 2 /\ from + 1 = n - 1
          /\ 1 + from = n - 1 /\ 2 + from = n /\ n - 1 \in 1 .. n
      BY <1>3, <2>1
    <3>2. /\ w \in Seq(Cells) /\ Len(w) = n - from
          /\ \A i \in 1 .. n - from : w[i] = s.data[i + from]
      <4>. HIDE DEF from
      <4>. QED BY <1>3, <3>1, CutAt
    <3>3. Len(w) = 2 /\ w[1] = s.data[n - 1] /\ w[2] = s.data[n] /\ w \in Seq(Cells)
      <4>. HIDE DEF from, w
      <4>1. 1 \in 1 .. n - from /\ 2 \in 1 .. n - from
        BY <3>1
      <4>2. w[1] = s.data[1 + from] /\ w[2] = s.data[2 + from]
        BY <3>2, <4>1
      <4>. QED BY <3>1, <3>2, <4>2, Zenon
    <3>4. both <=> w = <<CR, LF>>
      BY <2>1, <3>1
    <3>. HIDE DEF w, both
    <3>5. w = <<CR, LF>> <=> w[1] = CR /\ w[2] = LF
      BY <3>3
    <3>6. v[n - 1] = s.data[n - 1]
      BY <1>4, <3>1
    <3>7. V!IsSuffix(<<CR, LF>>, v) <=> Len(v) >= 2 /\ v[Len(v) - 1] = CR /\ v[Len(v)] = LF
      BY <1>3, SuffixTwo
    <3>. QED BY <1>3, <1>5, <2>1, <3>3, <3>4, <3>5, <3>6, <3>7
  <2>2. CASE ~(n >= 2)
    BY <1>3, <2>2, SuffixTwo
  <2>. QED BY <2>1, <2>2
<1>7. /\ V!IsSuffix(<<LF>>, v) <=> s.data[n] = LF
      /\ V!IsSuffix(<<CR>>, v) <=> s.data[n] = CR
  BY <1>3, <1>5, SuffixOne
<1>8. l \in Nat /\ l <= n
  BY <1>3
<1>. HIDE DEF l, both
<1>9. Value(s') = SubSeq(v, 1, l)
  <2>. HIDE DEF v
  <2>1. Value(s') = SubSeq(Value(s), 1, l)
    BY <1>1, <1>3, <1>8, ShortenIs
  <2>. QED BY <2>1 DEF v
<1>10. ASSUME NEW k \in 0 .. n, NEW e, e = SubSeq(v, k + 1, Len(v)), l = k
       PROVE  v = Value(s') \o e
  BY <1>3, <1>9, <1>10, Halves
<1>11. CASE both
  <2>1. l = n - 2 /\ n >= 2
    BY <1>3, <1>11 DEF l, both
  <2>2. SubSeq(v, n - 2 + 1, Len(v)) = <<CR, LF>>
    <3>1. Len(<<CR, LF>>) = 2 /\ Len(v) = n
      BY <1>3
    <3>. QED BY <1>6, <1>11, <3>1 DEF V!IsSuffix
  <2>3. n - 2 \in 0 .. n
    BY <1>3, <2>1
  <2>4. v = Value(s') \o <<CR, LF>>
    BY <1>10, <2>1, <2>2, <2>3
  <2>. QED BY <2>4 DEF V!Chomp, V!Endings, v
<1>12. ASSUME ~both, NEW a \in {CR, LF}, s.data[n] = a PROVE V!Chomp
  <2>1. l = n - 1
    BY <1>3, <1>12 DEF l
  <2>2. SubSeq(v, n - 1 + 1, Len(v)) = <<a>>
    <3>1. V!IsSuffix(<<a>>, v)
      BY <1>7, <1>12
    <3>2. Len(<<a>>) = 1 /\ Len(v) = n
      BY <1>3
    <3>. QED BY <3>1, <3>2 DEF V!IsSuffix
  <2>3. n - 1 \in 0 .. n
    BY <1>3
  <2>4. v = Value(s') \o <<a>>
    BY <1>10, <2>1, <2>2, <2>3
  <2>5. ~V!IsSuffix(<<CR, LF>>, v)
    BY <1>6, <1>12
  <2>6. <<a>> \in V!Endings
    BY DEF V!Endings
  <2>. QED BY <2>4, <2>5, <2>6 DEF V!Chomp, v
<1>13. CASE ~both /\ s.data[n] \notin {CR, LF}
  <2>1. l = n
    BY <1>3, <1>13 DEF l
  <2>2. Value(s') = v
    BY <1>3, <1>9, <2>1, SubSeqFull
  <2>3. \A e \in V!Endings : ~V!IsSuffix(e, v)
    BY <1>6, <1>7, <1>13 DEF V!Endings
  <2>. QED BY <2>2, <2>3 DEF V!Chomp, v
<1>. QED BY <1>11, <1>12, <1>13

LEMMA Promises == ASSUME FairCallers, Good(s) PROVE Promised
<1>1. {UpperOf, LowerOf} \subseteq [Chars -> Chars]
  BY StringsAssumption
<1>2. /\ Map(UpperOf) => V!Map(UpperOf)
      /\ Map(LowerOf) => V!Map(LowerOf)
  BY <1>1, MapPromises
<1>3. /\ (Destroy \/ Clear) => V!Become(<<>>)
      /\ Clone => V!Concat(<<>>)
      /\ AppendSelf => V!Concat(Value(s))
      /\ (Trim => V!Trim) /\ (Ltrim => V!Ltrim) /\ (Rtrim => V!Rtrim)
      /\ (Chomp => V!Chomp) /\ (ChompAll => V!ChompAll) /\ (Chop => V!Chop(1))
  BY EmptyPromises, CopyPromises, TrimPromises, EndPromises, ChompPromises
<1>4. \A x \in Words :
        /\ Create(x) => V!Become(x)
        /\ AppendWord(x) => V!Concat(x)
        /\ Prepend(x) => V!Prepend(x)
        /\ RemovePrefix(x) => V!RemovePrefix(x)
        /\ RemoveSuffix(x) => V!RemoveSuffix(x)
        /\ \A p \in Sizes : Insert(p, x) => V!Insert(p, x)
  BY AddPromises, AffixPromises
<1>5. \A p \in Sizes :
        /\ WithCap(p) => V!Become(<<>>)
        /\ Reserve(p) => V!Concat(<<>>)
        /\ ChopN(p) => V!Chop(p)
        /\ \A n \in Sizes : (Erase(p, n) => V!Erase(p, n)) /\ (Substr(p, n) => V!Substr(p, n))
  BY SizePromises, RangePromises
<1>. QED BY <1>2, <1>3, <1>4, <1>5 DEF Promised

\* Whatever the words, the positions, the lengths and the width of size_t: when
\* callers are fair, each function leaves in the block exactly the sequence of
\* characters that its name promises, for the sequence that was there.
THEOREM PromisesKept == ASSUME FairCallers PROVE Spec => KeepsPromises
<1>1. Init => Good(s)
  BY NullGood DEF Init, Null
<1>2. Good(s) /\ [Next]_s => Good(s)'
  BY NextStep
<1>3. Good(s) /\ [Next]_s => [Promised]_s
  BY Promises
<1>. QED BY <1>1, <1>2, <1>3, PTL DEF Spec, KeepsPromises
-----------------------------------------------------------------------------
(* Functions that are defined by recursion over the positions of a sequence *)

LEMMA LessWellFounded == IsWellFoundedOn({ss \in Nat \X Nat : ss[1] < ss[2]}, Nat)
BY NatLessThanWellFounded DEF OpToRel

LEMMA LeastElement == ASSUME NEW T, T \subseteq Nat, T # {} PROVE \E n \in T : \A m \in T : n <= m
<1>. DEFINE R == {ss \in Nat \X Nat : ss[1] < ss[2]}
<1>1. \E x \in T : \A y \in T : ~(<<y, x>> \in R)
  <2>. HIDE DEF R
  <2>1. IsWellFoundedOn(R, Nat)
    BY LessWellFounded, Zenon DEF R
  <2>. QED BY <2>1, WFMin, Zenon
<1>2. PICK x \in T : \A y \in T : ~(<<y, x>> \in R)
  BY <1>1
<1>. HIDE DEF R
<1>3. ASSUME NEW y \in T PROVE x <= y
  <2>1. x \in Nat /\ y \in Nat /\ ~(y < x)
    <3>1. x \in Nat /\ y \in Nat
      BY <1>2
    <3>2. <<y, x>> \notin R
      BY <1>2
    <3>. QED BY <3>1, <3>2 DEF R
  <2>. QED BY <2>1
<1>. QED BY <1>2, <1>3

\* What is defined at the end, and at every position from a later one, is defined
\* everywhere.
Recursive(n, Vals, a, nx, F) ==
  /\ n \in Nat /\ a \in Vals
  /\ \A p \in 0 .. n - 1 : nx[p] \in p + 1 .. n
  /\ \A p \in 0 .. n - 1, v \in Vals : F[p][v] \in Vals

Recurs(h, n, Vals, a, nx, F) ==
  /\ h \in [0 .. n -> Vals]
  /\ \A p \in 0 .. n : h[p] = IF p = n THEN a ELSE F[p][h[nx[p]]]

LEMMA Recursion ==
  ASSUME NEW n, NEW Vals, NEW a, NEW nx, NEW F, Recursive(n, Vals, a, nx, F)
  PROVE  \E h : Recurs(h, n, Vals, a, nx, F)
<1>0. /\ n \in Nat /\ a \in Vals
      /\ \A p \in 0 .. n - 1 : nx[p] \in p + 1 .. n
      /\ \A p \in 0 .. n - 1, v \in Vals : F[p][v] \in Vals
  BY DEF Recursive
<1>. DEFINE From(h, k) == \A p \in k .. n : h[p] = IF p = n THEN a ELSE F[p][h[nx[p]]]
            K == {k \in 0 .. n : \E h \in [0 .. n -> Vals] : From(h, k)}
<1>1. n \in K
  <2>. DEFINE h == [p \in 0 .. n |-> a]
  <2>1. h \in [0 .. n -> Vals] /\ \A p \in n .. n : p = n /\ h[p] = a
    BY <1>0
  <2>2. From(h, n)
    BY <2>1
  <2>. HIDE DEF h
  <2>. QED BY <1>0, <2>1, <2>2
<1>2. K \subseteq Nat
  BY <1>0
<1>3. PICK k \in K : \A m \in K : k <= m
  <2>. HIDE DEF K
  <2>. QED BY <1>1, <1>2, LeastElement
<1>4. PICK h \in [0 .. n -> Vals] : From(h, k)
  BY <1>3
<1>5. k = 0
  <2>1. SUFFICES ASSUME k # 0 PROVE FALSE
    OBVIOUS
  <2>2. k \in 1 .. n /\ k - 1 \in 0 .. n - 1 /\ k - 1 \in 0 .. n /\ k - 1 # n
    BY <1>0, <1>3, <2>1
  <2>. DEFINE j == k - 1
              g == [p \in 0 .. n |-> IF p = j THEN F[j][h[nx[j]]] ELSE h[p]]
  <2>3. j \in 0 .. n - 1 /\ j \in 0 .. n /\ j # n /\ nx[j] \in 0 .. n
    BY <1>0, <2>2
  <2>4. h[nx[j]] \in Vals
    BY <1>0, <1>4, <2>3
  <2>5. F[j][h[nx[j]]] \in Vals
    BY <1>0, <2>3, <2>4
  <2>. HIDE DEF j
  <2>6. g \in [0 .. n -> Vals]
    BY <1>4, <2>5
  <2>7. \A p \in 0 .. n : g[p] = IF p = j THEN F[j][h[nx[j]]] ELSE h[p]
    OBVIOUS
  <2>. HIDE DEF g
  <2>8. ASSUME NEW p \in j .. n PROVE g[p] = IF p = n THEN a ELSE F[p][g[nx[p]]]
    <3>0. p \in 0 .. n
      BY <1>0, <2>3
    <3>1. CASE p = j
      <4>1. nx[j] \in 0 .. n /\ nx[j] # j
        BY <1>0, <2>3
      <4>2. g[nx[j]] = h[nx[j]]
        BY <2>7, <4>1, Zenon
      <4>3. g[j] = F[j][h[nx[j]]]
        BY <2>3, <2>7, Zenon
      <4>. QED BY <2>3, <3>1, <4>2, <4>3, Zenon
    <3>2. CASE p # j
      <4>1. p \in k .. n
        BY <1>0, <2>2, <3>2 DEF j
      <4>2. g[p] = IF p = n THEN a ELSE F[p][h[nx[p]]]
        BY <1>4, <2>7, <3>0, <3>2, <4>1
      <4>3. ASSUME p # n PROVE g[nx[p]] = h[nx[p]]
        <5>1. nx[p] \in 0 .. n /\ nx[p] # j
          <6>1. p \in 0 .. n - 1 /\ p > j
            BY <1>0, <2>3, <3>0, <3>2, <4>3
          <6>2. nx[p] \in p + 1 .. n
            BY <1>0, <6>1
          <6>. QED BY <1>0, <2>3, <6>1, <6>2
        <5>. QED BY <2>7, <5>1, Zenon
      <4>. QED BY <4>2, <4>3, Zenon
    <3>. QED BY <3>1, <3>2
  <2>9. j \in K
    BY <2>3, <2>6, <2>8
  <2>10. ~(k <= j)
    BY <1>0, <2>2 DEF j
  <2>. QED BY <1>3, <2>9, <2>10
<1>. QED BY <1>4, <1>5 DEF Recurs
-----------------------------------------------------------------------------
(* Where a text contains another *)

LEMMA AtIs ==
  ASSUME NEW S, NEW v \in Seq(S), NEW x \in Seq(S), NEW p \in Nat
  PROVE  At(v, p, x) <=> p + Len(x) <= Len(v) /\ \A i \in 1 .. Len(x) : x[i] = v[i + p]
<1>0. Len(v) \in Nat /\ Len(x) \in Nat
  BY LenProperties
<1>1. p \in 0 .. Len(v) - Len(x) <=> p + Len(x) <= Len(v)
  BY <1>0
<1>2. ASSUME p + Len(x) <= Len(v)
      PROVE  SubSeq(v, p + 1, p + Len(x)) = x <=> \A i \in 1 .. Len(x) : x[i] = v[i + p]
  <2>. DEFINE to == p + Len(x)
  <2>1. to \in Nat /\ p <= to /\ to - p = Len(x) /\ to <= Len(v)
    BY <1>0, <1>2
  <2>. HIDE DEF to
  <2>2. PICK w : w = SubSeq(v, p + 1, to)
    OBVIOUS
  <2>3. w \in Seq(S) /\ Len(w) = Len(x) /\ \A i \in 1 .. Len(x) : w[i] = v[i + p]
    <3>1. w \in Seq(S) /\ Len(w) = to - p /\ \A i \in 1 .. to - p : w[i] = v[i + p]
      BY <2>1, <2>2, CutAt
    <3>. QED BY <2>1, <3>1
  <2>4. w = x <=> \A i \in 1 .. Len(x) : x[i] = v[i + p]
    <3>1. (\A i \in 1 .. Len(x) : x[i] = v[i + p]) => w = x
      BY <2>3, SeqEqual
    <3>. QED BY <2>3, <3>1, Zenon
  <2>. QED BY <2>2, <2>4 DEF to
<1>. QED BY <1>1, <1>2 DEF At

\* strstr finds the first place, if there is one.
LEMMA StrstrIs ==
  ASSUME NEW v, Len(v) \in Nat, NEW x, NEW p \in 0 .. Len(v), NEW m, m = Strstr(v, p, x)
  PROVE  \/ m = None /\ \A i \in p .. Len(v) : ~At(v, i, x)
         \/ /\ m \in p .. Len(v) /\ m # None /\ At(v, m, x)
            /\ \A i \in p .. m - 1 : ~At(v, i, x)
<1>. DEFINE found == {i \in p .. Len(v) : At(v, i, x)}
<1>1. CASE found = {}
  BY <1>1 DEF Strstr
<1>2. CASE found # {}
  <2>1. found \subseteq Nat
    OBVIOUS
  <2>2. \E i \in found : \A j \in found : i <= j
    <3>. HIDE DEF found
    <3>. QED BY <1>2, <2>1, LeastElement
  <2>3. m = CHOOSE i \in found : \A j \in found : i <= j
    BY <1>2, Zenon DEF Strstr
  <2>4. m \in found /\ \A j \in found : m <= j
    <3>. HIDE DEF found
    <3>. QED BY <2>2, <2>3, Zenon
  <2>5. m \in p .. Len(v) /\ At(v, m, x)
    BY <2>4
  <2>6. ASSUME NEW i \in p .. m - 1 PROVE ~At(v, i, x)
    BY <2>4, <2>5
  <2>7. m # None
    BY <2>5 DEF None
  <2>. QED BY <2>5, <2>6, <2>7
<1>. QED BY <1>1, <1>2

\* What a place that strstr finds leaves behind it.
LEMMA MatchFits ==
  ASSUME NEW S, NEW v \in Seq(S), NEW x \in Seq(S), x # <<>>,
         NEW p \in 0 .. Len(v), NEW m, m = Strstr(v, p, x), m # None
  PROVE  /\ p \in 0 .. Len(v) - 1
         /\ m \in p .. Len(v) /\ m + Len(x) \in p + 1 .. Len(v) /\ m + Len(x) \in 0 .. Len(v)
         /\ At(v, m, x) /\ \A i \in p .. m - 1 : ~At(v, i, x)
<1>1. Len(v) \in Nat /\ Len(x) \in Nat /\ Len(x) # 0
  BY LenProperties, EmptySeq
<1>2. m \in p .. Len(v) /\ At(v, m, x) /\ \A i \in p .. m - 1 : ~At(v, i, x)
  BY <1>1, StrstrIs
<1>3. m \in Nat
  BY <1>2
<1>4. m + Len(x) <= Len(v)
  BY <1>2, <1>3, AtIs
<1>. QED BY <1>1, <1>2, <1>3, <1>4

\* A loop that starts over behind each place at which it finds x.
Scans(h, v, x, Vals, last, step) ==
  /\ h \in [0 .. Len(v) -> Vals]
  /\ \A p \in 0 .. Len(v) :
       h[p] = IF Strstr(v, p, x) = None THEN last[p]
              ELSE step[p][h[Strstr(v, p, x) + Len(x)]]

LEMMA Scanning ==
  ASSUME NEW S, NEW v \in Seq(S), NEW x \in Seq(S), x # <<>>, NEW Vals, NEW last, NEW step,
         \A p \in 0 .. Len(v) : last[p] \in Vals,
         \A p \in 0 .. Len(v), u \in Vals : Strstr(v, p, x) # None => step[p][u] \in Vals
  PROVE  \E h : Scans(h, v, x, Vals, last, step)
<1>. DEFINE n  == Len(v)
            nx == [p \in 0 .. n - 1 |-> IF Strstr(v, p, x) = None THEN n ELSE Strstr(v, p, x) + Len(x)]
            F  == [p \in 0 .. n - 1 |-> [u \in Vals |-> IF Strstr(v, p, x) = None THEN last[p]
                                                     ELSE step[p][u]]]
<1>1. n \in Nat
  BY LenProperties
<1>2. ASSUME NEW p \in 0 .. n - 1 PROVE nx[p] \in p + 1 .. n
  <2>1. nx[p] = IF Strstr(v, p, x) = None THEN n ELSE Strstr(v, p, x) + Len(x)
    OBVIOUS
  <2>2. CASE Strstr(v, p, x) = None
    BY <1>1, <2>1, <2>2
  <2>3. CASE Strstr(v, p, x) # None
    <3>0. p \in 0 .. Len(v)
      BY <1>1
    <3>1. Strstr(v, p, x) + Len(x) \in p + 1 .. Len(v)
      BY <2>3, <3>0, MatchFits
    <3>. QED BY <2>1, <2>3, <3>1
  <2>. QED BY <2>2, <2>3
<1>3. \A p \in 0 .. n - 1, u \in Vals :
        F[p][u] = IF Strstr(v, p, x) = None THEN last[p] ELSE step[p][u]
  OBVIOUS
<1>4. \A p \in 0 .. n - 1 :
        nx[p] = IF Strstr(v, p, x) = None THEN n ELSE Strstr(v, p, x) + Len(x)
  OBVIOUS
<1>. HIDE DEF nx, F
<1>5. \A p \in 0 .. n - 1, u \in Vals : F[p][u] \in Vals
  <2>1. \A p \in 0 .. n - 1 : p \in 0 .. Len(v)
    BY <1>1
  <2>. QED BY <1>3, <2>1, Zenon
<1>6. last[n] \in Vals
  BY <1>1
<1>7. Strstr(v, n, x) = None
  <2>1. n \in 0 .. Len(v) /\ ~(n \in 0 .. Len(v) - 1)
    BY <1>1
  <2>2. n \in 0 .. Len(v)
    BY <2>1
  <2>. HIDE DEF n
  <2>. QED BY <2>1, <2>2, MatchFits
<1>8. Recursive(n, Vals, last[n], nx, F)
  BY <1>1, <1>2, <1>5, <1>6 DEF Recursive
<1>. HIDE DEF n
<1>9. PICK h : Recurs(h, n, Vals, last[n], nx, F)
  BY <1>8, Recursion, Zenon
<1>10. /\ h \in [0 .. n -> Vals]
       /\ \A p \in 0 .. n : h[p] = IF p = n THEN last[n] ELSE F[p][h[nx[p]]]
  BY <1>9, Zenon DEF Recurs
<1>11. ASSUME NEW p \in 0 .. n
       PROVE  h[p] = IF Strstr(v, p, x) = None THEN last[p]
                     ELSE step[p][h[Strstr(v, p, x) + Len(x)]]
  <2>1. CASE p = n
    BY <1>7, <1>10, <2>1, Zenon
  <2>2. CASE p # n
    <3>1. p \in 0 .. n - 1
      BY <1>1, <2>2
    <3>2. h[p] = F[p][h[nx[p]]]
      BY <1>10, <2>2, Zenon
    <3>3. nx[p] \in 0 .. n
      <4>1. nx[p] \in p + 1 .. n
        BY <1>2, <3>1
      <4>. QED BY <1>1, <4>1
    <3>4. h[nx[p]] \in Vals
      BY <1>10, <3>3
    <3>5. F[p][h[nx[p]]] = IF Strstr(v, p, x) = None THEN last[p] ELSE step[p][h[nx[p]]]
      BY <1>3, <3>1, <3>4, Zenon
    <3>6. Strstr(v, p, x) # None => nx[p] = Strstr(v, p, x) + Len(x)
      BY <1>4, <3>1, Zenon
    <3>. QED BY <3>2, <3>5, <3>6, Zenon
  <2>. QED BY <2>1, <2>2
<1>. QED BY <1>10, <1>11 DEF Scans, n

\* Induction over the places where such a loop starts over, from the last one on.
LEMMA Backwards ==
  ASSUME NEW S, NEW v \in Seq(S), NEW x \in Seq(S), x # <<>>, NEW C,
         \A p \in 0 .. Len(v) :
           (Strstr(v, p, x) # None => Strstr(v, p, x) + Len(x) \in C) => p \in C
  PROVE  \A p \in 0 .. Len(v) : p \in C
<1>. DEFINE n == Len(v)
            T == {k \in 0 .. n : n - k \notin C}
<1>1. n \in Nat
  BY LenProperties
<1>2. T = {}
  <2>1. SUFFICES ASSUME T # {} PROVE FALSE
    OBVIOUS
  <2>2. T \subseteq Nat
    OBVIOUS
  <2>3. PICK k \in T : \A j \in T : k <= j
    <3>. HIDE DEF T
    <3>. QED BY <2>1, <2>2, LeastElement
  <2>. DEFINE p == n - k
  <2>4. p \in 0 .. n /\ p \notin C
    BY <1>1, <2>3
  <2>5. ASSUME Strstr(v, p, x) # None PROVE Strstr(v, p, x) + Len(x) \in C
    <3>. DEFINE q == Strstr(v, p, x) + Len(x)
    <3>1. q \in p + 1 .. n
      BY <2>4, <2>5, MatchFits
    <3>. HIDE DEF q
    <3>2. n - q \in 0 .. n /\ ~(k <= n - q) /\ n - (n - q) = q
      BY <1>1, <2>3, <3>1
    <3>3. n - q \notin T
      <4>. HIDE DEF T
      <4>. QED BY <2>3, <3>2
    <3>4. q \in C
      BY <3>2, <3>3
    <3>. QED BY <3>4 DEF q
  <2>. HIDE DEF p
  <2>. QED BY <2>4, <2>5
<1>3. ASSUME NEW p \in 0 .. n PROVE p \in C
  <2>1. n - p \in 0 .. n /\ n - (n - p) = p
    BY <1>1
  <2>2. n - p \notin T
    BY <1>2
  <2>. QED BY <2>1, <2>2
<1>. QED BY <1>3

LEMMA CutIs ==
  ASSUME NEW S, NEW v \in Seq(S), NEW from \in 0 .. Len(v), NEW to \in from .. Len(v)
  PROVE  SubSeq(v, from + 1, to) \in Seq(S)
<1>1. from \in Nat /\ to \in Nat /\ from <= to /\ to <= Len(v)
  BY LenProperties
<1>. QED BY <1>1, CutAt

\* The pieces between the places that strstr finds.
LEMMA PieceIs ==
  ASSUME NEW S, NEW v \in Seq(S), NEW x \in Seq(S), x # <<>>, NEW p \in 0 .. Len(v)
  PROVE  /\ SubSeq(v, p + 1, Len(v)) \in Seq(S)
         /\ Strstr(v, p, x) # None => SubSeq(v, p + 1, Strstr(v, p, x)) \in Seq(S)
<1>1. Len(v) \in p .. Len(v)
  BY LenProperties
<1>2. Strstr(v, p, x) # None => Strstr(v, p, x) \in p .. Len(v)
  BY MatchFits
<1>. QED BY <1>1, <1>2, CutIs

\* The two passes of str_split, and str_replace, one place after the other.
LEMMA CountIs ==
  ASSUME NEW S, NEW v \in Seq(S), NEW x \in Seq(S), x # <<>>
  PROVE  \A p \in 0 .. Len(v) :
           /\ CountFrom(v, p, x) \in Nat
           /\ CountFrom(v, p, x) =
                IF Strstr(v, p, x) = None THEN 1
                ELSE 1 + CountFrom(v, Strstr(v, p, x) + Len(x), x)
<1>. DEFINE last == [p \in 0 .. Len(v) |-> 1]
            step == [p \in 0 .. Len(v) |-> [u \in Nat |-> 1 + u]]
<1>1. /\ \A p \in 0 .. Len(v) : last[p] = 1
      /\ \A p \in 0 .. Len(v), u \in Nat : step[p][u] = 1 + u
  OBVIOUS
<1>. HIDE DEF last, step
<1>2. \A p \in 0 .. Len(v) : 1 \in Nat
  OBVIOUS
<1>3. ASSUME NEW p \in 0 .. Len(v), NEW u \in Nat, Strstr(v, p, x) # None
      PROVE  1 + u \in Nat
  OBVIOUS
<1>4. PICK h : Scans(h, v, x, Nat, last, step)
  <2>1. /\ \A p \in 0 .. Len(v) : last[p] \in Nat
        /\ \A p \in 0 .. Len(v), u \in Nat : Strstr(v, p, x) # None => step[p][u] \in Nat
    BY <1>1, <1>2, <1>3, Zenon
  <2>. QED BY <2>1, Scanning
<1>5. /\ h \in [0 .. Len(v) -> Nat]
      /\ \A p \in 0 .. Len(v) :
           h[p] = IF Strstr(v, p, x) = None THEN last[p] ELSE step[p][h[Strstr(v, p, x) + Len(x)]]
  BY <1>4, Zenon DEF Scans
<1>6. \A p \in 0 .. Len(v) : Strstr(v, p, x) # None => Strstr(v, p, x) + Len(x) \in 0 .. Len(v)
  BY MatchFits
<1>7. ASSUME NEW p \in 0 .. Len(v)
      PROVE  h[p] = IF Strstr(v, p, x) = None THEN 1
                    ELSE 1 + h[Strstr(v, p, x) + Len(x)]
  <2>1. Strstr(v, p, x) # None => h[Strstr(v, p, x) + Len(x)] \in Nat
    BY <1>5, <1>6, Zenon
  <2>2. Strstr(v, p, x) # None =>
          step[p][h[Strstr(v, p, x) + Len(x)]] = 1 + h[Strstr(v, p, x) + Len(x)]
    BY <1>1, <2>1, Zenon
  <2>. QED BY <1>1, <1>5, <2>2, Zenon
<1>8. h = [p \in 0 .. Len(v) |->
             IF Strstr(v, p, x) = None THEN 1
             ELSE 1 + h[Strstr(v, p, x) + Len(x)]]
  <2>1. h = [p \in 0 .. Len(v) |-> h[p]]
    BY <1>5, Zenon
  <2>. QED BY <1>7, <2>1, Zenon
<1>. DEFINE from == CHOOSE f : f = [p \in 0 .. Len(v) |->
                      IF Strstr(v, p, x) = None THEN 1
                      ELSE 1 + f[Strstr(v, p, x) + Len(x)]]
<1>9. from = [p \in 0 .. Len(v) |->
                IF Strstr(v, p, x) = None THEN 1
                ELSE 1 + from[Strstr(v, p, x) + Len(x)]]
  BY <1>8, Zenon
<1>10. \A p : CountFrom(v, p, x) = from[p]
  BY Zenon DEF CountFrom
<1>. HIDE DEF from
<1>11. \A p \in 0 .. Len(v) :
         from[p] = IF Strstr(v, p, x) = None THEN 1
                   ELSE 1 + from[Strstr(v, p, x) + Len(x)]
  BY <1>9, Zenon
<1>. DEFINE C == {p \in 0 .. Len(v) : from[p] \in Nat}
<1>12. ASSUME NEW p \in 0 .. Len(v), Strstr(v, p, x) # None => Strstr(v, p, x) + Len(x) \in C
       PROVE  p \in C
  <2>1. Strstr(v, p, x) # None => from[Strstr(v, p, x) + Len(x)] \in Nat
    BY <1>12
  <2>2. from[p] \in Nat
    <3>1. Strstr(v, p, x) # None => 1 + from[Strstr(v, p, x) + Len(x)] \in Nat
      <4>1. ASSUME NEW w, w \in Nat, Strstr(v, p, x) # None PROVE 1 + w \in Nat
        BY <1>3, <4>1, Zenon
      <4>. QED BY <2>1, <4>1, Zenon
    <3>. QED BY <1>2, <1>11, <3>1, Zenon
  <2>. QED BY <2>2, Zenon
<1>13. \A p \in 0 .. Len(v) : p \in C
  <2>. HIDE DEF C
  <2>. QED BY <1>12, Backwards
<1>14. \A p \in 0 .. Len(v) : from[p] \in Nat
  BY <1>13, Zenon
<1>. QED BY <1>10, <1>11, <1>14, Zenon

LEMMA SplitIs ==
  ASSUME NEW S, NEW v \in Seq(S), NEW x \in Seq(S), x # <<>>
  PROVE  \A p \in 0 .. Len(v) :
           /\ SplitFrom(v, p, x) \in Seq(Seq(S))
           /\ SplitFrom(v, p, x) =
                IF Strstr(v, p, x) = None THEN <<SubSeq(v, p + 1, Len(v))>>
                ELSE <<SubSeq(v, p + 1, Strstr(v, p, x))>> \o SplitFrom(v, Strstr(v, p, x) + Len(x), x)
<1>. DEFINE last == [p \in 0 .. Len(v) |-> <<SubSeq(v, p + 1, Len(v))>>]
            step == [p \in 0 .. Len(v) |-> [u \in Seq(Seq(S)) |-> <<SubSeq(v, p + 1, Strstr(v, p, x))>> \o u]]
<1>1. /\ \A p \in 0 .. Len(v) : last[p] = <<SubSeq(v, p + 1, Len(v))>>
      /\ \A p \in 0 .. Len(v), u \in Seq(Seq(S)) : step[p][u] = <<SubSeq(v, p + 1, Strstr(v, p, x))>> \o u
  OBVIOUS
<1>. HIDE DEF last, step
<1>2. \A p \in 0 .. Len(v) : <<SubSeq(v, p + 1, Len(v))>> \in Seq(Seq(S))
  BY PieceIs
<1>3. ASSUME NEW p \in 0 .. Len(v), NEW u \in Seq(Seq(S)), Strstr(v, p, x) # None
      PROVE  <<SubSeq(v, p + 1, Strstr(v, p, x))>> \o u \in Seq(Seq(S))
  <2>1. SubSeq(v, p + 1, Strstr(v, p, x)) \in Seq(S)
    BY <1>3, PieceIs
  <2>2. <<SubSeq(v, p + 1, Strstr(v, p, x))>> \in Seq(Seq(S))
    BY <2>1
  <2>. QED BY <2>2, ConcatProperties
<1>4. PICK h : Scans(h, v, x, Seq(Seq(S)), last, step)
  <2>1. /\ \A p \in 0 .. Len(v) : last[p] \in Seq(Seq(S))
        /\ \A p \in 0 .. Len(v), u \in Seq(Seq(S)) : Strstr(v, p, x) # None => step[p][u] \in Seq(Seq(S))
    BY <1>1, <1>2, <1>3, Zenon
  <2>. QED BY <2>1, Scanning
<1>5. /\ h \in [0 .. Len(v) -> Seq(Seq(S))]
      /\ \A p \in 0 .. Len(v) :
           h[p] = IF Strstr(v, p, x) = None THEN last[p] ELSE step[p][h[Strstr(v, p, x) + Len(x)]]
  BY <1>4, Zenon DEF Scans
<1>6. \A p \in 0 .. Len(v) : Strstr(v, p, x) # None => Strstr(v, p, x) + Len(x) \in 0 .. Len(v)
  BY MatchFits
<1>7. ASSUME NEW p \in 0 .. Len(v)
      PROVE  h[p] = IF Strstr(v, p, x) = None THEN <<SubSeq(v, p + 1, Len(v))>>
                    ELSE <<SubSeq(v, p + 1, Strstr(v, p, x))>> \o h[Strstr(v, p, x) + Len(x)]
  <2>1. Strstr(v, p, x) # None => h[Strstr(v, p, x) + Len(x)] \in Seq(Seq(S))
    BY <1>5, <1>6, Zenon
  <2>2. Strstr(v, p, x) # None =>
          step[p][h[Strstr(v, p, x) + Len(x)]] = <<SubSeq(v, p + 1, Strstr(v, p, x))>> \o h[Strstr(v, p, x) + Len(x)]
    BY <1>1, <2>1, Zenon
  <2>. QED BY <1>1, <1>5, <2>2, Zenon
<1>8. h = [p \in 0 .. Len(v) |->
             IF Strstr(v, p, x) = None THEN <<SubSeq(v, p + 1, Len(v))>>
             ELSE <<SubSeq(v, p + 1, Strstr(v, p, x))>> \o h[Strstr(v, p, x) + Len(x)]]
  <2>1. h = [p \in 0 .. Len(v) |-> h[p]]
    BY <1>5, Zenon
  <2>. QED BY <1>7, <2>1, Zenon
<1>. DEFINE from == CHOOSE f : f = [p \in 0 .. Len(v) |->
                      IF Strstr(v, p, x) = None THEN <<SubSeq(v, p + 1, Len(v))>>
                      ELSE <<SubSeq(v, p + 1, Strstr(v, p, x))>> \o f[Strstr(v, p, x) + Len(x)]]
<1>9. from = [p \in 0 .. Len(v) |->
                IF Strstr(v, p, x) = None THEN <<SubSeq(v, p + 1, Len(v))>>
                ELSE <<SubSeq(v, p + 1, Strstr(v, p, x))>> \o from[Strstr(v, p, x) + Len(x)]]
  BY <1>8, Zenon
<1>10. \A p : SplitFrom(v, p, x) = from[p]
  BY Zenon DEF SplitFrom
<1>. HIDE DEF from
<1>11. \A p \in 0 .. Len(v) :
         from[p] = IF Strstr(v, p, x) = None THEN <<SubSeq(v, p + 1, Len(v))>>
                   ELSE <<SubSeq(v, p + 1, Strstr(v, p, x))>> \o from[Strstr(v, p, x) + Len(x)]
  BY <1>9, Zenon
<1>. DEFINE C == {p \in 0 .. Len(v) : from[p] \in Seq(Seq(S))}
<1>12. ASSUME NEW p \in 0 .. Len(v), Strstr(v, p, x) # None => Strstr(v, p, x) + Len(x) \in C
       PROVE  p \in C
  <2>1. Strstr(v, p, x) # None => from[Strstr(v, p, x) + Len(x)] \in Seq(Seq(S))
    BY <1>12
  <2>2. from[p] \in Seq(Seq(S))
    <3>1. Strstr(v, p, x) # None => <<SubSeq(v, p + 1, Strstr(v, p, x))>> \o from[Strstr(v, p, x) + Len(x)] \in Seq(Seq(S))
      <4>1. ASSUME NEW w, w \in Seq(Seq(S)), Strstr(v, p, x) # None PROVE <<SubSeq(v, p + 1, Strstr(v, p, x))>> \o w \in Seq(Seq(S))
        BY <1>3, <4>1, Zenon
      <4>. QED BY <2>1, <4>1, Zenon
    <3>. QED BY <1>2, <1>11, <3>1, Zenon
  <2>. QED BY <2>2, Zenon
<1>13. \A p \in 0 .. Len(v) : p \in C
  <2>. HIDE DEF C
  <2>. QED BY <1>12, Backwards
<1>14. \A p \in 0 .. Len(v) : from[p] \in Seq(Seq(S))
  BY <1>13, Zenon
<1>. QED BY <1>10, <1>11, <1>14, Zenon

LEMMA ReplaceIs ==
  ASSUME NEW S, NEW v \in Seq(S), NEW x \in Seq(S), x # <<>>, NEW new \in Seq(S)
  PROVE  \A p \in 0 .. Len(v) :
           /\ ReplaceFrom(v, p, x, new) \in Seq(S)
           /\ ReplaceFrom(v, p, x, new) =
                IF Strstr(v, p, x) = None THEN SubSeq(v, p + 1, Len(v))
                ELSE SubSeq(v, p + 1, Strstr(v, p, x)) \o new \o ReplaceFrom(v, Strstr(v, p, x) + Len(x), x, new)
<1>. DEFINE last == [p \in 0 .. Len(v) |-> SubSeq(v, p + 1, Len(v))]
            step == [p \in 0 .. Len(v) |-> [u \in Seq(S) |-> SubSeq(v, p + 1, Strstr(v, p, x)) \o new \o u]]
<1>1. /\ \A p \in 0 .. Len(v) : last[p] = SubSeq(v, p + 1, Len(v))
      /\ \A p \in 0 .. Len(v), u \in Seq(S) : step[p][u] = SubSeq(v, p + 1, Strstr(v, p, x)) \o new \o u
  OBVIOUS
<1>. HIDE DEF last, step
<1>2. \A p \in 0 .. Len(v) : SubSeq(v, p + 1, Len(v)) \in Seq(S)
  BY PieceIs
<1>3. ASSUME NEW p \in 0 .. Len(v), NEW u \in Seq(S), Strstr(v, p, x) # None
      PROVE  SubSeq(v, p + 1, Strstr(v, p, x)) \o new \o u \in Seq(S)
  <2>1. SubSeq(v, p + 1, Strstr(v, p, x)) \in Seq(S)
    BY <1>3, PieceIs
  <2>2. SubSeq(v, p + 1, Strstr(v, p, x)) \o new \in Seq(S)
    BY <2>1, ConcatProperties
  <2>. QED BY <2>2, ConcatProperties
<1>4. PICK h : Scans(h, v, x, Seq(S), last, step)
  <2>1. /\ \A p \in 0 .. Len(v) : last[p] \in Seq(S)
        /\ \A p \in 0 .. Len(v), u \in Seq(S) : Strstr(v, p, x) # None => step[p][u] \in Seq(S)
    BY <1>1, <1>2, <1>3, Zenon
  <2>. QED BY <2>1, Scanning
<1>5. /\ h \in [0 .. Len(v) -> Seq(S)]
      /\ \A p \in 0 .. Len(v) :
           h[p] = IF Strstr(v, p, x) = None THEN last[p] ELSE step[p][h[Strstr(v, p, x) + Len(x)]]
  BY <1>4, Zenon DEF Scans
<1>6. \A p \in 0 .. Len(v) : Strstr(v, p, x) # None => Strstr(v, p, x) + Len(x) \in 0 .. Len(v)
  BY MatchFits
<1>7. ASSUME NEW p \in 0 .. Len(v)
      PROVE  h[p] = IF Strstr(v, p, x) = None THEN SubSeq(v, p + 1, Len(v))
                    ELSE SubSeq(v, p + 1, Strstr(v, p, x)) \o new \o h[Strstr(v, p, x) + Len(x)]
  <2>1. Strstr(v, p, x) # None => h[Strstr(v, p, x) + Len(x)] \in Seq(S)
    BY <1>5, <1>6, Zenon
  <2>2. Strstr(v, p, x) # None =>
          step[p][h[Strstr(v, p, x) + Len(x)]] = SubSeq(v, p + 1, Strstr(v, p, x)) \o new \o h[Strstr(v, p, x) + Len(x)]
    BY <1>1, <2>1, Zenon
  <2>. QED BY <1>1, <1>5, <2>2, Zenon
<1>8. h = [p \in 0 .. Len(v) |->
             IF Strstr(v, p, x) = None THEN SubSeq(v, p + 1, Len(v))
             ELSE SubSeq(v, p + 1, Strstr(v, p, x)) \o new \o h[Strstr(v, p, x) + Len(x)]]
  <2>1. h = [p \in 0 .. Len(v) |-> h[p]]
    BY <1>5, Zenon
  <2>. QED BY <1>7, <2>1, Zenon
<1>. DEFINE from == CHOOSE f : f = [p \in 0 .. Len(v) |->
                      IF Strstr(v, p, x) = None THEN SubSeq(v, p + 1, Len(v))
                      ELSE SubSeq(v, p + 1, Strstr(v, p, x)) \o new \o f[Strstr(v, p, x) + Len(x)]]
<1>9. from = [p \in 0 .. Len(v) |->
                IF Strstr(v, p, x) = None THEN SubSeq(v, p + 1, Len(v))
                ELSE SubSeq(v, p + 1, Strstr(v, p, x)) \o new \o from[Strstr(v, p, x) + Len(x)]]
  BY <1>8, Zenon
<1>10. \A p : ReplaceFrom(v, p, x, new) = from[p]
  BY Zenon DEF ReplaceFrom
<1>. HIDE DEF from
<1>11. \A p \in 0 .. Len(v) :
         from[p] = IF Strstr(v, p, x) = None THEN SubSeq(v, p + 1, Len(v))
                   ELSE SubSeq(v, p + 1, Strstr(v, p, x)) \o new \o from[Strstr(v, p, x) + Len(x)]
  BY <1>9, Zenon
<1>. DEFINE C == {p \in 0 .. Len(v) : from[p] \in Seq(S)}
<1>12. ASSUME NEW p \in 0 .. Len(v), Strstr(v, p, x) # None => Strstr(v, p, x) + Len(x) \in C
       PROVE  p \in C
  <2>1. Strstr(v, p, x) # None => from[Strstr(v, p, x) + Len(x)] \in Seq(S)
    BY <1>12
  <2>2. from[p] \in Seq(S)
    <3>1. Strstr(v, p, x) # None => SubSeq(v, p + 1, Strstr(v, p, x)) \o new \o from[Strstr(v, p, x) + Len(x)] \in Seq(S)
      <4>1. ASSUME NEW w, w \in Seq(S), Strstr(v, p, x) # None PROVE SubSeq(v, p + 1, Strstr(v, p, x)) \o new \o w \in Seq(S)
        BY <1>3, <4>1, Zenon
      <4>. QED BY <2>1, <4>1, Zenon
    <3>. QED BY <1>2, <1>11, <3>1, Zenon
  <2>. QED BY <2>2, Zenon
<1>13. \A p \in 0 .. Len(v) : p \in C
  <2>. HIDE DEF C
  <2>. QED BY <1>12, Backwards
<1>14. \A p \in 0 .. Len(v) : from[p] \in Seq(S)
  BY <1>13, Zenon
<1>. QED BY <1>10, <1>11, <1>14, Zenon

-----------------------------------------------------------------------------
(* Joining and repeating *)

Joins(f, sep, strs) ==
  \A i \in 1 .. Len(strs) :
    f[i] = IF i = Len(strs) THEN strs[i] ELSE strs[i] \o sep \o f[i + 1]

LEMMA JoinsOnce ==
  ASSUME NEW S, NEW strs \in Seq(Seq(S)), NEW sep \in Seq(S),
         NEW f, Joins(f, sep, strs), NEW g, Joins(g, sep, strs)
  PROVE  \A i \in 1 .. Len(strs) : f[i] = g[i]
<1>. DEFINE n == Len(strs)
            T == {k \in 0 .. n - 1 : f[n - k] # g[n - k]}
<1>1. n \in Nat
  BY LenProperties
<1>2. /\ \A i \in 1 .. n : f[i] = IF i = n THEN strs[i] ELSE strs[i] \o sep \o f[i + 1]
      /\ \A i \in 1 .. n : g[i] = IF i = n THEN strs[i] ELSE strs[i] \o sep \o g[i + 1]
  BY DEF Joins
<1>. HIDE DEF n
<1>3. T = {}
  <2>1. SUFFICES ASSUME T # {} PROVE FALSE
    OBVIOUS
  <2>2. T \subseteq Nat
    OBVIOUS
  <2>3. PICK k \in T : \A j \in T : k <= j
    <3>. HIDE DEF T
    <3>. QED BY <2>1, <2>2, LeastElement
  <2>4. PICK i : i = n - k
    OBVIOUS
  <2>5. i \in 1 .. n /\ f[i] # g[i] /\ k \in 0 .. n - 1
    BY <1>1, <2>3, <2>4
  <2>6. i # n
    BY <1>2, <2>5, Zenon
  <2>7. k - 1 \in 0 .. n - 1 /\ ~(k <= k - 1) /\ n - (k - 1) = i + 1
    BY <1>1, <2>4, <2>5, <2>6
  <2>8. k - 1 \notin T
    <3>. HIDE DEF T
    <3>. QED BY <2>3, <2>7
  <2>9. f[i + 1] = g[i + 1]
    <3>1. f[n - (k - 1)] = g[n - (k - 1)]
      BY <2>7, <2>8
    <3>. QED BY <2>7, <3>1
  <2>. QED BY <1>2, <2>5, <2>6, <2>9, Zenon
<1>4. ASSUME NEW i \in 1 .. n PROVE f[i] = g[i]
  <2>1. n - i \in 0 .. n - 1 /\ n - (n - i) = i
    BY <1>1
  <2>2. f[n - (n - i)] = g[n - (n - i)]
    BY <1>3, <2>1
  <2>. QED BY <2>1, <2>2
<1>. QED BY <1>4 DEF n

LEMMA JoinExists ==
  ASSUME NEW S, NEW strs \in Seq(Seq(S)), NEW sep \in Seq(S)
  PROVE  \E f : f \in [1 .. Len(strs) -> Seq(S)] /\ Joins(f, sep, strs)
<1>. DEFINE n  == Len(strs)
            a  == IF n = 0 THEN <<>> ELSE strs[n]
            nx == [p \in 0 .. n - 1 |-> p + 1]
            F  == [p \in 0 .. n - 1 |-> [u \in Seq(S) |-> IF p = 0 THEN u ELSE strs[p] \o sep \o u]]
<1>1. n \in Nat /\ \A i \in 1 .. n : strs[i] \in Seq(S)
  BY LenProperties, ElementOfSeq
<1>. HIDE DEF n
<1>2. a \in Seq(S)
  <2>1. n # 0 => n \in 1 .. n
    BY <1>1
  <2>. QED BY <1>1, <2>1, EmptySeq
<1>. HIDE DEF a
<1>3. \A p \in 0 .. n - 1 : nx[p] = p + 1 /\ nx[p] \in p + 1 .. n
  BY <1>1
<1>4. \A p \in 0 .. n - 1, u \in Seq(S) : F[p][u] = IF p = 0 THEN u ELSE strs[p] \o sep \o u
  OBVIOUS
<1>. HIDE DEF nx, F
<1>5. ASSUME NEW p \in 0 .. n - 1, NEW u \in Seq(S) PROVE F[p][u] \in Seq(S)
  <2>1. CASE p = 0
    BY <1>4, <2>1
  <2>2. CASE p # 0
    <3>1. strs[p] \in Seq(S)
      <4>1. p \in 1 .. n
        BY <1>1, <2>2
      <4>. QED BY <1>1, <4>1
    <3>2. strs[p] \o sep \in Seq(S)
      BY <3>1, ConcatProperties
    <3>3. strs[p] \o sep \o u \in Seq(S)
      BY <3>2, ConcatProperties
    <3>. QED BY <1>4, <2>2, <3>3, Zenon
  <2>. QED BY <2>1, <2>2
<1>6. Recursive(n, Seq(S), a, nx, F)
  BY <1>1, <1>2, <1>3, <1>5 DEF Recursive
<1>7. PICK h : Recurs(h, n, Seq(S), a, nx, F)
  BY <1>6, Recursion, Zenon
<1>8. /\ h \in [0 .. n -> Seq(S)]
      /\ \A p \in 0 .. n : h[p] = IF p = n THEN a ELSE F[p][h[nx[p]]]
  BY <1>7, Zenon DEF Recurs
<1>. DEFINE f == [i \in 1 .. n |-> h[i]]
<1>9. f \in [1 .. n -> Seq(S)] /\ \A i \in 1 .. n : f[i] = h[i]
  BY <1>1, <1>8
<1>. HIDE DEF f
<1>10. ASSUME NEW i \in 1 .. n
       PROVE  f[i] = IF i = n THEN strs[i] ELSE strs[i] \o sep \o f[i + 1]
  <2>1. i \in 0 .. n /\ i # 0
    BY <1>1
  <2>2. CASE i = n
    <3>1. f[i] = a
      BY <1>8, <1>9, <2>1, <2>2, Zenon
    <3>2. a = strs[i]
      BY <2>1, <2>2, Zenon DEF a
    <3>. QED BY <2>2, <3>1, <3>2, Zenon
  <2>3. CASE i # n
    <3>1. i \in 0 .. n - 1 /\ i + 1 \in 1 .. n /\ i + 1 \in 0 .. n
      BY <1>1, <2>3
    <3>2. h[i] = F[i][h[i + 1]]
      BY <1>3, <1>8, <2>1, <2>3, <3>1, Zenon
    <3>3. h[i + 1] \in Seq(S)
      BY <1>8, <3>1, Zenon
    <3>4. F[i][h[i + 1]] = strs[i] \o sep \o h[i + 1]
      BY <1>4, <2>1, <3>1, <3>3, Zenon
    <3>. QED BY <1>9, <2>3, <3>1, <3>2, <3>4, Zenon
  <2>. QED BY <2>2, <2>3
<1>. QED BY <1>9, <1>10 DEF Joins, n

LEMMA JoinIs ==
  ASSUME NEW S, NEW strs \in Seq(Seq(S)), strs # <<>>, NEW sep \in Seq(S),
         NEW f, Joins(f, sep, strs)
  PROVE  Join(sep, strs) = f[1]
<1>1. PICK h : h \in [1 .. Len(strs) -> Seq(S)] /\ Joins(h, sep, strs)
  BY JoinExists
<1>2. h = [i \in 1 .. Len(strs) |->
             IF i = Len(strs) THEN strs[i] ELSE strs[i] \o sep \o h[i + 1]]
  <2>1. h = [i \in 1 .. Len(strs) |-> h[i]]
    BY <1>1, Zenon
  <2>2. \A i \in 1 .. Len(strs) :
          h[i] = IF i = Len(strs) THEN strs[i] ELSE strs[i] \o sep \o h[i + 1]
    BY <1>1, Zenon DEF Joins
  <2>. QED BY <2>1, <2>2, Zenon
<1>. DEFINE from == CHOOSE e : e = [i \in 1 .. Len(strs) |->
                      IF i = Len(strs) THEN strs[i] ELSE strs[i] \o sep \o e[i + 1]]
<1>3. from = [i \in 1 .. Len(strs) |->
                IF i = Len(strs) THEN strs[i] ELSE strs[i] \o sep \o from[i + 1]]
  BY <1>2, Zenon
<1>4. Join(sep, strs) = from[1]
  BY Zenon DEF Join
<1>. HIDE DEF from
<1>5. Joins(from, sep, strs)
  BY <1>3, Zenon DEF Joins
<1>6. 1 \in 1 .. Len(strs)
  BY EmptySeq
<1>. QED BY <1>4, <1>5, <1>6, JoinsOnce

LEMMA ConsIs ==
  ASSUME NEW S, NEW w \in S, NEW rest \in Seq(S), NEW r, r = <<w>> \o rest
  PROVE  /\ r \in Seq(S) /\ Len(r) = Len(rest) + 1 /\ r[1] = w /\ r # <<>>
         /\ \A i \in 2 .. Len(r) : r[i] = rest[i - 1] /\ i - 1 \in 1 .. Len(rest)
<1>1. <<w>> \in Seq(S) /\ Len(<<w>>) = 1 /\ <<w>>[1] = w /\ Len(rest) \in Nat
  BY LenProperties
<1>2. /\ r \in Seq(S) /\ Len(r) = Len(<<w>>) + Len(rest)
      /\ \A i \in 1 .. Len(<<w>>) + Len(rest) : r[i] = IF i <= Len(<<w>>) THEN <<w>>[i] ELSE rest[i - Len(<<w>>)]
  BY <1>1, ConcatProperties
<1>3. Len(r) = Len(rest) + 1 /\ r[1] = w
  BY <1>1, <1>2
<1>4. ASSUME NEW i \in 2 .. Len(r) PROVE r[i] = rest[i - 1] /\ i - 1 \in 1 .. Len(rest)
  <2>1. i \in 1 .. Len(<<w>>) + Len(rest) /\ ~(i <= Len(<<w>>)) /\ i - Len(<<w>>) = i - 1
        /\ i - 1 \in 1 .. Len(rest)
    BY <1>1, <1>3
  <2>2. r[i] = rest[i - Len(<<w>>)]
    BY <1>2, <2>1
  <2>. QED BY <2>1, <2>2
<1>5. r # <<>>
  BY <1>1, <1>3, EmptySeq
<1>. QED BY <1>2, <1>3, <1>4, <1>5

LEMMA JoinOne ==
  ASSUME NEW S, NEW w \in Seq(S), NEW sep \in Seq(S)
  PROVE  Join(sep, <<w>>) = w
<1>1. <<w>> \in Seq(Seq(S)) /\ Len(<<w>>) = 1 /\ <<w>>[1] = w /\ <<w>> # <<>>
  OBVIOUS
<1>. DEFINE f == [i \in 1 .. 1 |-> w]
<1>2. \A i \in 1 .. 1 : i = 1 /\ f[i] = w
  OBVIOUS
<1>3. f[1] = w
  OBVIOUS
<1>. HIDE DEF f
<1>4. Joins(f, sep, <<w>>)
  BY <1>1, <1>2, Zenon DEF Joins
<1>. QED BY <1>1, <1>3, <1>4, JoinIs

LEMMA JoinCons ==
  ASSUME NEW S, NEW w \in Seq(S), NEW rest \in Seq(Seq(S)), rest # <<>>, NEW sep \in Seq(S)
  PROVE  Join(sep, <<w>> \o rest) = w \o sep \o Join(sep, rest)
<1>1. PICK r : r = <<w>> \o rest
  OBVIOUS
<1>2. /\ r \in Seq(Seq(S)) /\ Len(r) = Len(rest) + 1 /\ r[1] = w /\ r # <<>>
      /\ \A i \in 2 .. Len(r) : r[i] = rest[i - 1] /\ i - 1 \in 1 .. Len(rest)
  BY <1>1, ConsIs
<1>3. PICK f : f \in [1 .. Len(rest) -> Seq(S)] /\ Joins(f, sep, rest)
  BY JoinExists
<1>4. Len(rest) \in Nat /\ Len(rest) # 0
  BY EmptySeq
<1>. DEFINE g == [i \in 1 .. Len(r) |-> IF i = 1 THEN w \o sep \o f[1] ELSE f[i - 1]]
<1>5. \A i \in 1 .. Len(r) : g[i] = IF i = 1 THEN w \o sep \o f[1] ELSE f[i - 1]
  OBVIOUS
<1>. HIDE DEF g
<1>6. 1 \in 1 .. Len(r) /\ 2 \in 1 .. Len(r) /\ 1 # Len(r) /\ 2 - 1 = 1 /\ 1 + 1 = 2 /\ 2 # 1
  BY <1>2, <1>4
<1>7. g[1] = w \o sep \o f[1] /\ g[2] = f[1]
  BY <1>5, <1>6
<1>8. ASSUME NEW i \in 1 .. Len(r)
      PROVE  g[i] = IF i = Len(r) THEN r[i] ELSE r[i] \o sep \o g[i + 1]
  <2>1. CASE i = 1
    BY <1>2, <1>6, <1>7, <2>1, Zenon
  <2>2. CASE i # 1
    <3>1. i \in 2 .. Len(r)
      BY <1>2, <1>4, <2>2
    <3>2. PICK j : j = i - 1
      OBVIOUS
    <3>3. j \in 1 .. Len(rest) /\ r[i] = rest[j] /\ g[i] = f[j] /\ (j = Len(rest) <=> i = Len(r))
      <4>1. j \in 1 .. Len(rest) /\ (j = Len(rest) <=> i = Len(r))
        BY <1>2, <1>4, <3>1, <3>2
      <4>2. r[i] = rest[j]
        BY <1>2, <3>1, <3>2
      <4>3. g[i] = f[j]
        BY <1>5, <2>2, <3>2, Zenon
      <4>. QED BY <4>1, <4>2, <4>3
    <3>4. f[j] = IF j = Len(rest) THEN rest[j] ELSE rest[j] \o sep \o f[j + 1]
      BY <1>3, <3>3, Zenon DEF Joins
    <3>5. i # Len(r) => g[i + 1] = f[j + 1]
      <4>1. SUFFICES ASSUME i # Len(r) PROVE g[i + 1] = f[j + 1]
        OBVIOUS
      <4>2. i + 1 \in 1 .. Len(r) /\ i + 1 # 1 /\ i + 1 - 1 = j + 1
        BY <1>2, <1>4, <3>1, <3>2, <4>1
      <4>. QED BY <1>5, <4>2
    <3>. QED BY <3>3, <3>4, <3>5, Zenon
  <2>. QED BY <2>1, <2>2
<1>9. Joins(g, sep, r)
  BY <1>8 DEF Joins
<1>10. Join(sep, r) = g[1]
  BY <1>2, <1>9, JoinIs
<1>11. Join(sep, rest) = f[1]
  BY <1>3, JoinIs
<1>. QED BY <1>1, <1>7, <1>10, <1>11, Zenon

-----------------------------------------------------------------------------
(* Splitting, replacing and joining *)

LEMMA Adjacent ==
  ASSUME NEW S, NEW v \in Seq(S), NEW from \in 0 .. Len(v), NEW mid \in from .. Len(v),
         NEW to \in mid .. Len(v)
  PROVE  SubSeq(v, from + 1, mid) \o SubSeq(v, mid + 1, to) = SubSeq(v, from + 1, to)
<1>1. Len(v) \in Nat
  BY LenProperties
<1>. DEFINE a == from + 1
<1>2. a \in 1 .. Len(v) + 1 /\ mid \in a - 1 .. Len(v) /\ to \in mid .. Len(v)
  BY <1>1
<1>. HIDE DEF a
<1>3. SubSeq(v, a, mid) \o SubSeq(v, mid + 1, to) = SubSeq(v, a, to)
  BY <1>2, ConcatAdjacentSubSeq
<1>. QED BY <1>3 DEF a

LEMMA PieceFree ==
  ASSUME NEW S, NEW v \in Seq(S), NEW x \in Seq(S), x # <<>>,
         NEW p \in 0 .. Len(v), NEW m \in p .. Len(v), \A i \in p .. m - 1 : ~At(v, i, x)
  PROVE  ~Contains(SubSeq(v, p + 1, m), x)
<1>1. Len(v) \in Nat /\ Len(x) \in Nat /\ Len(x) # 0
  BY LenProperties, EmptySeq
<1>2. PICK w : w = SubSeq(v, p + 1, m)
  OBVIOUS
<1>3. w \in Seq(S) /\ Len(w) = m - p /\ \A i \in 1 .. m - p : w[i] = v[i + p]
  <2>1. p \in Nat /\ m \in Nat /\ p <= m /\ m <= Len(v)
    BY <1>1
  <2>. QED BY <1>2, <2>1, CutAt
<1>4. SUFFICES ASSUME Contains(w, x) PROVE FALSE
  BY <1>2
<1>5. PICK k : k = Strstr(w, 0, x)
  OBVIOUS
<1>6. k \in 0 .. Len(w) /\ At(w, k, x) /\ k + Len(x) <= m - p
  <2>1. 0 \in 0 .. Len(w) /\ k # None
    BY <1>1, <1>3, <1>4, <1>5 DEF Contains
  <2>2. k \in 0 .. Len(w) /\ At(w, k, x) /\ k + Len(x) \in 0 + 1 .. Len(w)
    BY <1>3, <1>5, <2>1, MatchFits
  <2>. QED BY <1>1, <1>3, <2>2
<1>7. PICK j : j = k + p
  OBVIOUS
<1>8. j \in p .. m - 1 /\ j \in Nat /\ j + Len(x) <= Len(v)
  BY <1>1, <1>3, <1>6, <1>7
<1>9. ASSUME NEW i \in 1 .. Len(x) PROVE x[i] = v[i + j]
  <2>1. x[i] = w[i + k]
    BY <1>3, <1>6, AtIs
  <2>2. i + k \in 1 .. m - p /\ i + k + p = i + j
    BY <1>1, <1>3, <1>6, <1>7
  <2>3. w[i + k] = v[i + k + p]
    BY <1>3, <2>2
  <2>. QED BY <2>1, <2>2, <2>3
<1>10. At(v, j, x)
  BY <1>8, <1>9, AtIs
<1>. QED BY <1>8, <1>10

\* The piece before a place that strstr finds, and the rest when it finds none.
LEMMA PiecesFree ==
  ASSUME NEW S, NEW v \in Seq(S), NEW x \in Seq(S), x # <<>>, NEW p \in 0 .. Len(v)
  PROVE  /\ Strstr(v, p, x) = None => ~Contains(SubSeq(v, p + 1, Len(v)), x)
         /\ Strstr(v, p, x) # None => ~Contains(SubSeq(v, p + 1, Strstr(v, p, x)), x)
<1>1. PICK m : m = Strstr(v, p, x)
  OBVIOUS
<1>2. Len(v) \in Nat /\ Len(v) \in p .. Len(v)
  BY LenProperties
<1>3. ASSUME m = None PROVE ~Contains(SubSeq(v, p + 1, Len(v)), x)
  <2>1. \A i \in p .. Len(v) : ~At(v, i, x)
    BY <1>1, <1>2, <1>3, StrstrIs
  <2>2. \A i \in p .. Len(v) - 1 : ~At(v, i, x)
    BY <1>2, <2>1
  <2>. QED BY <1>2, <2>2, PieceFree
<1>4. ASSUME m # None PROVE ~Contains(SubSeq(v, p + 1, m), x)
  <2>1. m \in p .. Len(v) /\ \A i \in p .. m - 1 : ~At(v, i, x)
    BY <1>1, <1>4, MatchFits
  <2>. QED BY <2>1, PieceFree
<1>. QED BY <1>1, <1>3, <1>4

LEMMA SplitFacts ==
  ASSUME NEW S, NEW v \in Seq(S), NEW x \in Seq(S), x # <<>>
  PROVE  \A p \in 0 .. Len(v) :
           /\ SplitFrom(v, p, x) # <<>>
           /\ Len(SplitFrom(v, p, x)) = CountFrom(v, p, x)
           /\ \A i \in 1 .. Len(SplitFrom(v, p, x)) : ~Contains(SplitFrom(v, p, x)[i], x)
<1>. DEFINE P(p) == /\ SplitFrom(v, p, x) # <<>>
                    /\ Len(SplitFrom(v, p, x)) = CountFrom(v, p, x)
                    /\ \A i \in 1 .. Len(SplitFrom(v, p, x)) : ~Contains(SplitFrom(v, p, x)[i], x)
            C == {p \in 0 .. Len(v) : P(p)}
<1>1. ASSUME NEW p \in 0 .. Len(v), Strstr(v, p, x) # None => Strstr(v, p, x) + Len(x) \in C
      PROVE  p \in C
  <2>. DEFINE m == Strstr(v, p, x)
  <2>. PICK parts : parts = SplitFrom(v, p, x)
    OBVIOUS
  <2>1. CASE m = None
    <3>1. PICK w : w = SubSeq(v, p + 1, Len(v))
      OBVIOUS
    <3>2. w \in Seq(S) /\ ~Contains(w, x)
      BY <2>1, <3>1, PieceIs, PiecesFree
    <3>3. parts = <<w>> /\ CountFrom(v, p, x) = 1
      BY <2>1, <3>1, SplitIs, CountIs
    <3>4. parts # <<>> /\ Len(parts) = 1 /\ parts[1] = w
      BY <3>3
    <3>5. \A i \in 1 .. Len(parts) : i = 1
      BY <3>4
    <3>. QED BY <3>2, <3>3, <3>4, <3>5, Zenon
  <2>2. CASE m # None
    <3>1. PICK w : w = SubSeq(v, p + 1, m)
      OBVIOUS
    <3>2. w \in Seq(S) /\ ~Contains(w, x)
      BY <2>2, <3>1, PieceIs, PiecesFree
    <3>3. PICK q : q = m + Len(x)
      OBVIOUS
    <3>4. q \in 0 .. Len(v) /\ P(q)
      BY <1>1, <2>2, <3>3, Zenon
    <3>5. PICK rest : rest = SplitFrom(v, q, x)
      OBVIOUS
    <3>6. /\ rest \in Seq(Seq(S)) /\ Len(rest) = CountFrom(v, q, x) /\ CountFrom(v, q, x) \in Nat
          /\ \A i \in 1 .. Len(rest) : ~Contains(rest[i], x)
      BY <3>4, <3>5, SplitIs, CountIs, Zenon
    <3>7. parts = <<w>> \o rest
      BY <2>2, <3>1, <3>3, <3>5, SplitIs
    <3>8. CountFrom(v, p, x) = 1 + CountFrom(v, q, x)
      BY <2>2, <3>3, CountIs
    <3>. HIDE DEF m, P
    <3>9. /\ Len(parts) = Len(rest) + 1 /\ parts[1] = w /\ parts # <<>>
          /\ \A i \in 2 .. Len(parts) : parts[i] = rest[i - 1] /\ i - 1 \in 1 .. Len(rest)
      BY <3>2, <3>6, <3>7, ConsIs
    <3>10. ASSUME NEW i \in 1 .. Len(parts) PROVE ~Contains(parts[i], x)
      <4>1. CASE i = 1
        BY <3>2, <3>9, <4>1
      <4>2. CASE i # 1
        <5>1. i \in 2 .. Len(parts)
          BY <3>6, <3>9, <4>2
        <5>2. parts[i] = rest[i - 1] /\ i - 1 \in 1 .. Len(rest)
          BY <3>9, <5>1
        <5>. QED BY <3>6, <5>2, Zenon
      <4>. QED BY <4>1, <4>2
    <3>11. Len(parts) = CountFrom(v, p, x)
      BY <3>6, <3>8, <3>9
    <3>. QED BY <3>9, <3>10, <3>11, Zenon DEF P
  <2>. QED BY <2>1, <2>2
<1>2. \A p \in 0 .. Len(v) : p \in C
  <2>. HIDE DEF C
  <2>. QED BY <1>1, Backwards
<1>. QED BY <1>2, Zenon

LEMMA JoinSplit ==
  ASSUME NEW S, NEW v \in Seq(S), NEW x \in Seq(S), x # <<>>
  PROVE  \A p \in 0 .. Len(v) : Join(x, SplitFrom(v, p, x)) = SubSeq(v, p + 1, Len(v))
<1>. DEFINE P(p) == Join(x, SplitFrom(v, p, x)) = SubSeq(v, p + 1, Len(v))
            C == {p \in 0 .. Len(v) : P(p)}
<1>1. ASSUME NEW p \in 0 .. Len(v), Strstr(v, p, x) # None => Strstr(v, p, x) + Len(x) \in C
      PROVE  p \in C
  <2>. DEFINE m == Strstr(v, p, x)
  <2>1. CASE m = None
    <3>1. SplitFrom(v, p, x) = <<SubSeq(v, p + 1, Len(v))>>
      BY <2>1, SplitIs
    <3>2. SubSeq(v, p + 1, Len(v)) \in Seq(S)
      BY PieceIs
    <3>3. Join(x, <<SubSeq(v, p + 1, Len(v))>>) = SubSeq(v, p + 1, Len(v))
      BY <3>2, JoinOne
    <3>. QED BY <3>1, <3>3, Zenon
  <2>2. CASE m # None
    <3>1. PICK w : w = SubSeq(v, p + 1, m)
      OBVIOUS
    <3>2. w \in Seq(S)
      BY <2>2, <3>1, PieceIs
    <3>3. PICK q : q = m + Len(x)
      OBVIOUS
    <3>4. q \in 0 .. Len(v) /\ P(q)
      BY <1>1, <2>2, <3>3, Zenon
    <3>5. PICK rest : rest = SplitFrom(v, q, x)
      OBVIOUS
    <3>6. rest \in Seq(Seq(S)) /\ rest # <<>>
      BY <3>4, <3>5, SplitIs, SplitFacts
    <3>7. SplitFrom(v, p, x) = <<w>> \o rest
      BY <2>2, <3>1, <3>3, <3>5, SplitIs
    <3>8. m \in p .. Len(v) /\ At(v, m, x) /\ q \in m .. Len(v) /\ m \in 0 .. Len(v)
      <4>1. m \in p .. Len(v) /\ At(v, m, x) /\ m + Len(x) \in 0 .. Len(v)
        BY <2>2, MatchFits
      <4>2. Len(x) \in Nat /\ Len(v) \in Nat
        BY LenProperties
      <4>. HIDE DEF m
      <4>. QED BY <3>3, <4>1, <4>2
    <3>. HIDE DEF m
    <3>9. x = SubSeq(v, m + 1, q)
      BY <3>3, <3>8 DEF At
    <3>10. w \o x = SubSeq(v, p + 1, q)
      BY <3>1, <3>8, <3>9, Adjacent
    <3>11. SubSeq(v, p + 1, q) \o SubSeq(v, q + 1, Len(v)) = SubSeq(v, p + 1, Len(v))
      <4>1. q \in p .. Len(v) /\ Len(v) \in q .. Len(v)
        BY <3>8, LenProperties
      <4>. QED BY <4>1, Adjacent
    <3>12. Join(x, <<w>> \o rest) = w \o x \o Join(x, rest)
      BY <3>2, <3>6, JoinCons
    <3>13. Join(x, rest) = SubSeq(v, q + 1, Len(v))
      BY <3>4, <3>5, Zenon
    <3>. QED BY <3>7, <3>10, <3>11, <3>12, <3>13, Zenon
  <2>. QED BY <2>1, <2>2
<1>2. \A p \in 0 .. Len(v) : p \in C
  <2>. HIDE DEF C
  <2>. QED BY <1>1, Backwards
<1>. QED BY <1>2, Zenon

LEMMA ReplaceIsJoin ==
  ASSUME NEW S, NEW v \in Seq(S), NEW x \in Seq(S), x # <<>>, NEW new \in Seq(S)
  PROVE  \A p \in 0 .. Len(v) : ReplaceFrom(v, p, x, new) = Join(new, SplitFrom(v, p, x))
<1>. DEFINE P(p) == ReplaceFrom(v, p, x, new) = Join(new, SplitFrom(v, p, x))
            C == {p \in 0 .. Len(v) : P(p)}
<1>1. ASSUME NEW p \in 0 .. Len(v), Strstr(v, p, x) # None => Strstr(v, p, x) + Len(x) \in C
      PROVE  p \in C
  <2>. DEFINE m == Strstr(v, p, x)
  <2>1. CASE m = None
    <3>1. SplitFrom(v, p, x) = <<SubSeq(v, p + 1, Len(v))>>
      BY <2>1, SplitIs
    <3>2. SubSeq(v, p + 1, Len(v)) \in Seq(S)
      BY PieceIs
    <3>3. Join(new, <<SubSeq(v, p + 1, Len(v))>>) = SubSeq(v, p + 1, Len(v))
      BY <3>2, JoinOne
    <3>4. ReplaceFrom(v, p, x, new) = SubSeq(v, p + 1, Len(v))
      BY <2>1, ReplaceIs
    <3>. QED BY <3>1, <3>3, <3>4, Zenon
  <2>2. CASE m # None
    <3>1. PICK w : w = SubSeq(v, p + 1, m)
      OBVIOUS
    <3>2. w \in Seq(S)
      BY <2>2, <3>1, PieceIs
    <3>3. PICK q : q = m + Len(x)
      OBVIOUS
    <3>4. q \in 0 .. Len(v) /\ P(q)
      BY <1>1, <2>2, <3>3, Zenon
    <3>5. PICK rest : rest = SplitFrom(v, q, x)
      OBVIOUS
    <3>6. rest \in Seq(Seq(S)) /\ rest # <<>>
      BY <3>4, <3>5, SplitIs, SplitFacts
    <3>7. SplitFrom(v, p, x) = <<w>> \o rest
      BY <2>2, <3>1, <3>3, <3>5, SplitIs
    <3>8. ReplaceFrom(v, p, x, new) = w \o new \o ReplaceFrom(v, q, x, new)
      BY <2>2, <3>1, <3>3, ReplaceIs
    <3>9. Join(new, <<w>> \o rest) = w \o new \o Join(new, rest)
      BY <3>2, <3>6, JoinCons
    <3>. QED BY <3>4, <3>5, <3>7, <3>8, <3>9, Zenon
  <2>. QED BY <2>1, <2>2
<1>2. \A p \in 0 .. Len(v) : p \in C
  <2>. HIDE DEF C
  <2>. QED BY <1>1, Backwards
<1>. QED BY <1>2, Zenon

Times(f, w, n, S) ==
  /\ f \in [0 .. n -> Seq(S)]
  /\ f[0] = <<>>
  /\ \A k \in 1 .. n : f[k] = w \o f[k - 1]

LEMMA RepeatIs ==
  ASSUME NEW S, NEW w \in Seq(S), NEW n \in Nat
  PROVE  \E f : Times(f, w, n, S) /\ Repeat(w, n) = f[n]
<1>. DEFINE nx == [p \in 0 .. n - 1 |-> p + 1]
            F  == [p \in 0 .. n - 1 |-> [u \in Seq(S) |-> w \o u]]
<1>1. \A p \in 0 .. n - 1 : nx[p] = p + 1 /\ nx[p] \in p + 1 .. n
  OBVIOUS
<1>2. \A p \in 0 .. n - 1, u \in Seq(S) : F[p][u] = w \o u
  OBVIOUS
<1>. HIDE DEF nx, F
<1>3. \A p \in 0 .. n - 1, u \in Seq(S) : F[p][u] \in Seq(S)
  BY <1>2, ConcatProperties
<1>4. Recursive(n, Seq(S), <<>>, nx, F)
  BY <1>1, <1>3, EmptySeq DEF Recursive
<1>5. PICK h : Recurs(h, n, Seq(S), <<>>, nx, F)
  BY <1>4, Recursion, Zenon
<1>6. /\ h \in [0 .. n -> Seq(S)]
      /\ \A p \in 0 .. n : h[p] = IF p = n THEN <<>> ELSE F[p][h[nx[p]]]
  BY <1>5, Zenon DEF Recurs
<1>. DEFINE g == [k \in 0 .. n |-> h[n - k]]
<1>7. \A k \in 0 .. n : g[k] = h[n - k]
  OBVIOUS
<1>. HIDE DEF g
<1>8. ASSUME NEW k \in 0 .. n PROVE g[k] = IF k = 0 THEN <<>> ELSE w \o g[k - 1]
  <2>1. PICK p : p = n - k
    OBVIOUS
  <2>2. p \in 0 .. n /\ (p = n <=> k = 0)
    BY <2>1
  <2>3. g[k] = h[p]
    BY <1>7, <2>1
  <2>4. CASE k = 0
    BY <1>6, <2>2, <2>3, <2>4, Zenon
  <2>5. CASE k # 0
    <3>1. p \in 0 .. n - 1 /\ k - 1 \in 0 .. n /\ n - (k - 1) = p + 1 /\ p + 1 \in 0 .. n
      BY <2>1, <2>2, <2>5
    <3>2. h[p] = F[p][h[p + 1]]
      BY <1>1, <1>6, <2>2, <2>5, <3>1, Zenon
    <3>3. h[p + 1] \in Seq(S)
      BY <1>6, <3>1, Zenon
    <3>4. F[p][h[p + 1]] = w \o h[p + 1]
      BY <1>2, <3>1, <3>3, Zenon
    <3>5. g[k - 1] = h[p + 1]
      BY <1>7, <3>1
    <3>. QED BY <2>3, <2>5, <3>2, <3>4, <3>5, Zenon
  <2>. QED BY <2>4, <2>5
<1>9. g = [k \in 0 .. n |-> IF k = 0 THEN <<>> ELSE w \o g[k - 1]]
  <2>1. g = [k \in 0 .. n |-> g[k]]
    BY DEF g
  <2>. QED BY <1>8, <2>1, Zenon
<1>. DEFINE times == CHOOSE f : f = [k \in 0 .. n |-> IF k = 0 THEN <<>> ELSE w \o f[k - 1]]
<1>10. times = [k \in 0 .. n |-> IF k = 0 THEN <<>> ELSE w \o times[k - 1]]
  BY <1>9, Zenon
<1>11. Repeat(w, n) = IF n <= 0 THEN <<>> ELSE times[n]
  BY Zenon DEF Repeat
<1>. HIDE DEF times
<1>12. \A k \in 0 .. n : times[k] = IF k = 0 THEN <<>> ELSE w \o times[k - 1]
  BY <1>10, Zenon
<1>. DEFINE T == {k \in 0 .. n : times[k] \notin Seq(S)}
<1>13. T = {}
  <2>1. SUFFICES ASSUME T # {} PROVE FALSE
    OBVIOUS
  <2>2. T \subseteq Nat
    OBVIOUS
  <2>3. PICK k \in T : \A j \in T : k <= j
    <3>. HIDE DEF T
    <3>. QED BY <2>1, <2>2, LeastElement
  <2>4. k \in 0 .. n /\ times[k] \notin Seq(S)
    BY <2>3
  <2>5. k # 0
    BY <1>12, <2>4, EmptySeq
  <2>6. k - 1 \in 0 .. n /\ ~(k <= k - 1)
    BY <2>4, <2>5
  <2>7. k - 1 \notin T
    <3>. HIDE DEF T
    <3>. QED BY <2>3, <2>6
  <2>8. times[k - 1] \in Seq(S)
    BY <2>6, <2>7
  <2>9. w \o times[k - 1] \in Seq(S)
    BY <2>8, ConcatProperties
  <2>. QED BY <1>12, <2>4, <2>5, <2>9, Zenon
<1>14. times \in [0 .. n -> Seq(S)]
  <2>1. \A k \in 0 .. n : times[k] \in Seq(S)
    BY <1>13
  <2>2. times = [k \in 0 .. n |-> times[k]]
    BY <1>10, Zenon
  <2>. QED BY <2>1, <2>2
<1>15. 0 \in 0 .. n /\ n \in 0 .. n /\ (n <= 0 <=> n = 0)
  OBVIOUS
<1>16. Times(times, w, n, S)
  <2>1. times[0] = <<>>
    BY <1>12, <1>15, Zenon
  <2>2. \A k \in 1 .. n : k \in 0 .. n /\ k # 0
    OBVIOUS
  <2>. QED BY <1>12, <1>14, <2>1, <2>2, Zenon DEF Times
<1>17. Repeat(w, n) = times[n]
  BY <1>11, <1>12, <1>15, Zenon
<1>. QED BY <1>16, <1>17

RepeatsReplaced(f, g, v, x, new, n) ==
  \A k \in 0 .. n : \A p \in 0 .. Len(v) :
    SubSeq(v, p + 1, Len(v)) = f[k] => ReplaceFrom(v, p, x, new) = g[k]

\* A text that from p on only repeats x becomes as many of new from there on.
LEMMA ReplaceRepeated ==
  ASSUME NEW S, NEW x \in Seq(S), x # <<>>, NEW new \in Seq(S), NEW n \in Nat, NEW v \in Seq(S),
         NEW f, Times(f, x, n, S), NEW g, Times(g, new, n, S)
  PROVE  RepeatsReplaced(f, g, v, x, new, n)
<1>. DEFINE Claim(k) == \A p \in 0 .. Len(v) :
              SubSeq(v, p + 1, Len(v)) = f[k] => ReplaceFrom(v, p, x, new) = g[k]
            T == {k \in 0 .. n : ~Claim(k)}
<1>0. f \in [0 .. n -> Seq(S)] /\ g \in [0 .. n -> Seq(S)]
  BY DEF Times
<1>1. /\ Len(v) \in Nat /\ Len(x) \in Nat /\ Len(x) # 0
      /\ f[0] = <<>> /\ \A k \in 1 .. n : f[k] = x \o f[k - 1]
      /\ g[0] = <<>> /\ \A k \in 1 .. n : g[k] = new \o g[k - 1]
  BY LenProperties, EmptySeq DEF Times
<1>2. T = {}
  <2>1. SUFFICES ASSUME T # {} PROVE FALSE
    OBVIOUS
  <2>2. T \subseteq Nat
    OBVIOUS
  <2>3. PICK k \in T : \A j \in T : k <= j
    <3>. HIDE DEF T
    <3>. QED BY <2>1, <2>2, LeastElement
  <2>4. k \in 0 .. n /\ ~Claim(k)
    BY <2>3
  <2>5. PICK p \in 0 .. Len(v) :
               SubSeq(v, p + 1, Len(v)) = f[k] /\ ReplaceFrom(v, p, x, new) # g[k]
    BY <2>4
  <2>. HIDE DEF T, Claim
  <2>6. PICK w : w = SubSeq(v, p + 1, Len(v))
    OBVIOUS
  <2>7. w \in Seq(S) /\ Len(w) = Len(v) - p /\ \A i \in 1 .. Len(v) - p : w[i] = v[i + p]
    <3>1. PICK to : to = Len(v)
      OBVIOUS
    <3>2. p \in Nat /\ to \in Nat /\ p <= to /\ to <= Len(v)
      BY <1>1, <3>1
    <3>3. /\ SubSeq(v, p + 1, to) \in Seq(S) /\ Len(SubSeq(v, p + 1, to)) = to - p
          /\ \A i \in 1 .. to - p : SubSeq(v, p + 1, to)[i] = v[i + p]
      BY <3>2, CutAt
    <3>. QED BY <2>6, <3>1, <3>3, Zenon
  <2>8. PICK m : m = Strstr(v, p, x)
    OBVIOUS
  <2>9. CASE k = 0
    <3>1. w = <<>>
      BY <1>1, <2>5, <2>6, <2>9
    <3>2. p = Len(v)
      BY <1>1, <2>7, <3>1
    <3>3. m = None
      <4>1. ~(p \in 0 .. Len(v) - 1)
        BY <1>1, <3>2
      <4>. QED BY <2>8, <4>1, MatchFits
    <3>4. ReplaceFrom(v, p, x, new) = w
      BY <2>6, <2>8, <3>3, ReplaceIs
    <3>. QED BY <1>1, <2>5, <2>9, <3>1, <3>4, Zenon
  <2>10. CASE k # 0
    <3>1. k \in 1 .. n /\ k - 1 \in 0 .. n /\ ~(k <= k - 1)
      BY <2>4, <2>10
    <3>2. PICK r : r = f[k - 1]
      OBVIOUS
    <3>3. r \in Seq(S) /\ w = x \o r
      BY <1>0, <1>1, <2>5, <2>6, <3>1, <3>2
    <3>4. /\ Len(w) = Len(x) + Len(r) /\ Len(r) \in Nat
          /\ \A i \in 1 .. Len(x) + Len(r) : w[i] = IF i <= Len(x) THEN x[i] ELSE r[i - Len(x)]
      BY <3>3, ConcatProperties, LenProperties
    <3>. PICK a : a = Len(x)
      OBVIOUS
    <3>. PICK b : b = Len(r)
      OBVIOUS
    <3>. PICK c : c = Len(v)
      OBVIOUS
    <3>15. a \in Nat /\ b \in Nat /\ c \in Nat /\ c - p = a + b /\ p + a <= c /\ p \in Nat
      <4>1. Len(w) = c - p /\ Len(w) = a + b /\ a \in Nat /\ b \in Nat /\ c \in Nat
        BY <1>1, <2>7, <3>4
      <4>2. p \in 0 .. c
        OBVIOUS
      <4>3. c - p = a + b
        BY <4>1, Zenon
      <4>4. p \in Nat /\ p + a <= c
        <5>. HIDE DEF T
        <5>1. \A i, j, k1 \in Nat : \A o \in 0 .. k1 : k1 - o = i + j => o + i <= k1
          OBVIOUS
        <5>2. p \in Nat
          BY <1>1
        <5>. QED BY <4>1, <4>2, <4>3, <5>1, <5>2, Zenon
      <4>. QED BY <4>1, <4>3, <4>4
    <3>5. At(v, p, x)
      <4>1. p \in Nat /\ p + Len(x) <= Len(v)
        BY <3>15
      <4>2. ASSUME NEW i \in 1 .. Len(x) PROVE x[i] = v[i + p]
        <5>1. i \in 1 .. Len(x) + Len(r) /\ i <= Len(x) /\ i \in 1 .. Len(v) - p
          <6>1. i \in 1 .. a + b /\ i <= a /\ i \in 1 .. c - p
            BY <3>15
          <6>. QED BY <6>1
        <5>. QED BY <2>7, <3>4, <5>1, Zenon
      <4>. QED BY <4>1, <4>2, AtIs
    <3>6. m = p /\ m # None
      <4>1. p \in p .. Len(v)
        BY <1>1
      <4>2. m # None
        BY <1>1, <2>8, <3>5, <4>1, StrstrIs
      <4>3. m \in p .. Len(v) /\ \A i \in p .. m - 1 : ~At(v, i, x)
        BY <2>8, <4>2, MatchFits
      <4>4. ~(p \in p .. m - 1)
        BY <3>5, <4>3
      <4>5. m = p
        BY <1>1, <4>3, <4>4
      <4>. QED BY <4>2, <4>5
    <3>7. PICK q : q = p + Len(x)
      OBVIOUS
    <3>8. q \in 0 .. Len(v) /\ q \in p .. Len(v)
      <4>1. q = p + a
        BY <3>7
      <4>2. q \in 0 .. c /\ q \in p .. c
        BY <3>15, <4>1
      <4>. QED BY <4>2
    <3>9. ReplaceFrom(v, p, x, new) = SubSeq(v, p + 1, p) \o new \o ReplaceFrom(v, q, x, new)
      <4>1. ReplaceFrom(v, p, x, new) =
              IF Strstr(v, p, x) = None THEN SubSeq(v, p + 1, Len(v))
              ELSE SubSeq(v, p + 1, Strstr(v, p, x)) \o new
                   \o ReplaceFrom(v, Strstr(v, p, x) + Len(x), x, new)
        BY ReplaceIs
      <4>2. Strstr(v, p, x) = p /\ Strstr(v, p, x) # None
        BY <2>8, <3>6
      <4>. QED BY <3>7, <4>1, <4>2, Zenon
    <3>10. SubSeq(v, p + 1, p) = <<>>
      <4>1. p + 1 \in Int /\ p \in Int /\ p < p + 1
        BY <1>1
      <4>. QED BY <4>1, SubSeqEmpty
    <3>11. SubSeq(v, q + 1, Len(v)) = r
      <4>1. SubSeq(v, p + 1, q) = x
        BY <3>5, <3>7 DEF At
      <4>2. SubSeq(v, p + 1, q) \o SubSeq(v, q + 1, Len(v)) = SubSeq(v, p + 1, Len(v))
        <5>1. Len(v) \in q .. Len(v)
          BY <1>1, <3>8
        <5>. QED BY <3>8, <5>1, Adjacent
      <4>3. x \o SubSeq(v, q + 1, Len(v)) = x \o r
        BY <2>6, <3>3, <4>1, <4>2
      <4>4. SubSeq(v, q + 1, Len(v)) \in Seq(S)
        BY <3>8, PieceIs
      <4>5. PICK y : y = SubSeq(v, q + 1, Len(v))
        OBVIOUS
      <4>6. y \in Seq(S) /\ x \o y = x \o r
        BY <4>3, <4>4, <4>5
      <4>7. y = r
        BY <3>3, <4>6, ConcatSimplifications, Zenon
      <4>. QED BY <4>5, <4>7
    <3>12. ReplaceFrom(v, q, x, new) = g[k - 1]
      <4>1. k - 1 \notin T
        BY <2>3, <3>1
      <4>2. Claim(k - 1)
        BY <3>1, <4>1 DEF T
      <4>. QED BY <3>2, <3>8, <3>11, <4>2 DEF Claim
    <3>13. <<>> \o new = new
      BY ConcatEmptySeq
    <3>14. g[k] = new \o g[k - 1]
      BY <1>1, <3>1
    <3>. QED BY <2>5, <3>9, <3>10, <3>12, <3>13, <3>14, Zenon
  <2>. QED BY <2>9, <2>10
<1>3. ASSUME NEW k \in 0 .. n PROVE Claim(k)
  BY <1>2
<1>. QED BY <1>3 DEF RepeatsReplaced

LEMMA RepeatBecomes ==
  ASSUME NEW S, NEW x \in Seq(S), x # <<>>, NEW new \in Seq(S), NEW n \in Int
  PROVE  Replace(Repeat(x, n), x, new) = Repeat(new, n)
<1>1. CASE n \in Nat
  <2>1. PICK f : Times(f, x, n, S) /\ Repeat(x, n) = f[n]
    BY <1>1, RepeatIs
  <2>2. PICK g : Times(g, new, n, S) /\ Repeat(new, n) = g[n]
    BY <1>1, RepeatIs
  <2>3. PICK v : v = Repeat(x, n)
    OBVIOUS
  <2>4. n \in 0 .. n /\ v \in Seq(S) /\ v = f[n]
    <3>1. n \in 0 .. n /\ f \in [0 .. n -> Seq(S)]
      BY <1>1, <2>1 DEF Times
    <3>. QED BY <2>1, <2>3, <3>1
  <2>5. 0 \in 0 .. Len(v) /\ SubSeq(v, 0 + 1, Len(v)) = v
    BY <2>4, LenProperties, SubSeqFull
  <2>6. ReplaceFrom(v, 0, x, new) = g[n]
    <3>1. \A k \in 0 .. n : \A p \in 0 .. Len(v) :
            SubSeq(v, p + 1, Len(v)) = f[k] => ReplaceFrom(v, p, x, new) = g[k]
      <4>1. RepeatsReplaced(f, g, v, x, new, n)
        BY <1>1, <2>1, <2>2, <2>4, ReplaceRepeated
      <4>. QED BY <4>1, Zenon DEF RepeatsReplaced
    <3>. QED BY <2>4, <2>5, <3>1, Zenon
  <2>. QED BY <2>2, <2>3, <2>6, Zenon DEF Replace
<1>2. CASE n \notin Nat
  <2>1. n <= 0 /\ Len(<<>>) = 0 /\ <<>> \in Seq(S) /\ 0 \in 0 .. Len(<<>>)
    BY <1>2, EmptySeq
  <2>2. Repeat(x, n) = <<>> /\ Repeat(new, n) = <<>>
    BY <2>1, Zenon DEF Repeat
  <2>3. PICK v : v = <<>>
    OBVIOUS
  <2>4. v \in Seq(S) /\ 0 \in 0 .. Len(v) /\ Len(v) = 0
    BY <2>1, <2>3
  <2>5. Strstr(v, 0, x) = None
    <3>1. ~(0 \in 0 .. Len(v) - 1)
      BY <2>4
    <3>. QED BY <2>4, <3>1, MatchFits
  <2>6. ReplaceFrom(v, 0, x, new) = SubSeq(v, 0 + 1, Len(v))
    BY <2>4, <2>5, ReplaceIs
  <2>7. SubSeq(v, 0 + 1, Len(v)) = <<>>
    BY <2>4, SubSeqEmpty
  <2>. QED BY <2>2, <2>3, <2>6, <2>7, Zenon DEF Replace
<1>. QED BY <1>1, <1>2

-----------------------------------------------------------------------------

LEMMA NeedleFacts == ASSUME NEW x \in Needles PROVE x \in Seq(Chars) /\ x # <<>>
<1>1. ASSUME NEW y \in Words PROVE y \in Seq(Chars) /\ y \o y \in Seq(Chars)
  BY WordFacts, ConcatProperties
<1>. QED BY <1>1 DEF Needles

LEMMA TextIs == ASSUME Good(s) PROVE Text \in Seq(Chars)
<1>1. CASE Live
  BY <1>1, TextFacts DEF Text
<1>2. CASE ~Live
  BY <1>2, NoValue, EmptySeq DEF Text, Live
<1>. QED BY <1>1, <1>2

LEMMA SplitText == ASSUME Text \in Seq(Chars) PROVE SplitInverse
<1>1. SUFFICES ASSUME NEW delim \in Needles
               PROVE  LET parts == SplitFrom(Text, 0, delim)
                      IN  /\ Len(parts) = CountFrom(Text, 0, delim)
                          /\ \A i \in DOMAIN parts : ~Contains(parts[i], delim)
                          /\ Join(delim, parts) = Text
  BY DEF SplitInverse
<1>2. PICK v : v = Text
  OBVIOUS
<1>3. PICK parts : parts = SplitFrom(v, 0, delim)
  OBVIOUS
<1>4. v \in Seq(Chars) /\ delim \in Seq(Chars) /\ delim # <<>> /\ 0 \in 0 .. Len(v)
  BY <1>2, LenProperties, NeedleFacts
<1>5. parts \in Seq(Seq(Chars)) /\ Len(parts) = CountFrom(v, 0, delim)
      /\ \A i \in 1 .. Len(parts) : ~Contains(parts[i], delim)
  BY <1>3, <1>4, SplitIs, SplitFacts
<1>6. DOMAIN parts = 1 .. Len(parts)
  BY <1>5
<1>7. Join(delim, parts) = SubSeq(v, 0 + 1, Len(v))
  BY <1>3, <1>4, JoinSplit
<1>8. SubSeq(v, 0 + 1, Len(v)) = v
  BY <1>4, SubSeqFull
<1>. QED BY <1>2, <1>3, <1>5, <1>6, <1>7, <1>8, Zenon

LEMMA ReplaceText == ASSUME Text \in Seq(Chars) PROVE ReplaceEverywhere
<1>1. SUFFICES ASSUME NEW old \in Needles
               PROVE  /\ \A new \in Words :
                           Replace(Text, old, new) = Join(new, SplitFrom(Text, 0, old))
                      /\ Replace(Text, old, old) = Text
                      /\ \A new \in Words, n \in Counts :
                           Replace(Repeat(old, n), old, new) = Repeat(new, n)
  BY DEF ReplaceEverywhere
<1>2. PICK v : v = Text
  OBVIOUS
<1>3. v \in Seq(Chars) /\ old \in Seq(Chars) /\ old # <<>> /\ 0 \in 0 .. Len(v)
  BY <1>2, LenProperties, NeedleFacts
<1>4. ASSUME NEW new \in Seq(Chars) PROVE Replace(v, old, new) = Join(new, SplitFrom(v, 0, old))
  <2>1. ReplaceFrom(v, 0, old, new) = Join(new, SplitFrom(v, 0, old))
    BY <1>3, ReplaceIsJoin
  <2>. QED BY <1>3, <2>1 DEF Replace
<1>5. Replace(v, old, old) = v
  <2>1. Join(old, SplitFrom(v, 0, old)) = SubSeq(v, 0 + 1, Len(v))
    BY <1>3, JoinSplit
  <2>2. SubSeq(v, 0 + 1, Len(v)) = v
    BY <1>3, SubSeqFull
  <2>3. Replace(v, old, old) = Join(old, SplitFrom(v, 0, old))
    BY <1>3, <1>4
  <2>. QED BY <2>1, <2>2, <2>3
<1>6. \A new \in Words : new \in Seq(Chars)
  BY WordFacts
<1>7. \A new \in Words, n \in Counts : Replace(Repeat(old, n), old, new) = Repeat(new, n)
  <2>1. \A n \in Counts : n \in Int
    BY UtilsAssumption
  <2>. QED BY <1>3, <1>6, <2>1, RepeatBecomes
<1>. QED BY <1>2, <1>4, <1>5, <1>6, <1>7, Zenon

\* str_split loses nothing, and leaves nothing to split, for any text a String can hold
\* and any delimiter: it writes as many parts as it made room for, no part contains the
\* delimiter, and str_join puts the text together again.
THEOREM SplitInverts == ASSUME FairCallers PROVE Spec => []SplitInverse
<1>1. Good(s) => SplitInverse
  BY TextIs, SplitText
<1>2. Spec => []Good(s)
  BY GoodAlways
<1>. QED BY <1>1, <1>2, PTL

\* str_replace puts the new text exactly where str_split cuts, for any texts, also those
\* that overlap with themselves or bring the old text back.
THEOREM ReplacesEverywhere == ASSUME FairCallers PROVE Spec => []ReplaceEverywhere
<1>1. Good(s) => ReplaceEverywhere
  BY TextIs, ReplaceText
<1>2. Spec => []Good(s)
  BY GoodAlways
<1>. QED BY <1>1, <1>2, PTL

-----------------------------------------------------------------------------
(* Comparing *)

\* j is the first place at which two texts differ, the end of one of them included, and
\* c what str_cmp makes of it.
Compared(v, w, j, c) ==
  /\ j \in 1 .. Len(v) + 1 /\ j \in 1 .. Len(w) + 1
  /\ \A i \in 1 .. j - 1 : v[i] = w[i]
  /\ \/ /\ j <= Len(v) /\ j <= Len(w) /\ v[j] # w[j]
        /\ c = Rank[v[j]] - Rank[w[j]] /\ c # 0
     \/ j = Len(v) + 1 /\ j = Len(w) + 1 /\ c = 0
     \/ j = Len(v) + 1 /\ j < Len(w) + 1 /\ c = -1
     \/ j < Len(v) + 1 /\ j = Len(w) + 1 /\ c = 1

LEMMA RankIs ==
  ASSUME NEW c \in Chars, NEW d \in Chars
  PROVE  Rank[c] \in Int /\ (Rank[c] - Rank[d] = 0 <=> c = d)
<1>1. Rank[c] \in Nat /\ Rank[d] \in Nat /\ (Rank[c] = Rank[d] <=> c = d)
  BY UtilsAssumption
<1>2. PICK a : a = Rank[c]
  OBVIOUS
<1>3. PICK b : b = Rank[d]
  OBVIOUS
<1>4. a \in Nat /\ b \in Nat /\ (a = b <=> c = d)
  BY <1>1, <1>2, <1>3
<1>5. a \in Int /\ (a - b = 0 <=> c = d)
  BY <1>4
<1>. QED BY <1>2, <1>3, <1>5

LEMMA CmpIs ==
  ASSUME NEW v \in Seq(Chars), NEW w \in Seq(Chars)
  PROVE  \E j : Compared(v, w, j, Cmp(v, w))
<1>. PICK c : c = Cmp(v, w)
  OBVIOUS
<1>. DEFINE min     == IF Len(v) < Len(w) THEN Len(v) ELSE Len(w)
            differs == {i \in 1 .. min : v[i] # w[i]}
<1>1. Len(v) \in Nat /\ Len(w) \in Nat
  BY LenProperties
<1>2. min \in Nat /\ min <= Len(v) /\ min <= Len(w) /\ (min = Len(v) \/ min = Len(w))
  BY <1>1
<1>3. c = IF differs # {}
          THEN LET i == CHOOSE i \in differs : \A j \in differs : i <= j
               IN  Rank[v[i]] - Rank[w[i]]
          ELSE IF Len(v) = Len(w) THEN 0
          ELSE IF Len(v) < Len(w) THEN -1 ELSE 1
  BY DEF Cmp
<1>4. CASE differs # {}
  <2>1. differs \subseteq Nat
    BY <1>2
  <2>2. \E i \in differs : \A j \in differs : i <= j
    <3>. HIDE DEF differs
    <3>. QED BY <1>4, <2>1, LeastElement
  <2>3. PICK j : j = CHOOSE i \in differs : \A k \in differs : i <= k
    OBVIOUS
  <2>4. j \in differs /\ \A k \in differs : j <= k
    <3>. HIDE DEF differs
    <3>. QED BY <2>2, <2>3, Zenon
  <2>5. c = Rank[v[j]] - Rank[w[j]]
    <3>. HIDE DEF differs
    <3>. QED BY <1>3, <1>4, <2>3, Zenon
  <2>6. j \in 1 .. min /\ v[j] # w[j]
    BY <2>4
  <2>7. j \in 1 .. Len(v) /\ j \in 1 .. Len(w)
    <3>. HIDE DEF min
    <3>. QED BY <1>1, <1>2, <2>6
  <2>8. ASSUME NEW i \in 1 .. j - 1 PROVE v[i] = w[i]
    <3>. HIDE DEF min
    <3>1. i \in 1 .. min /\ ~(j <= i)
      BY <1>2, <2>6
    <3>. QED BY <2>4, <3>1
  <2>9. c # 0
    <3>1. v[j] \in Chars /\ w[j] \in Chars
      BY <2>7, ElementOfSeq
    <3>. QED BY <2>5, <2>6, <3>1, RankIs
  <2>10. /\ j \in 1 .. Len(v) + 1 /\ j \in 1 .. Len(w) + 1 /\ j <= Len(v) /\ j <= Len(w)
    BY <1>1, <2>7
  <2>. QED BY <2>5, <2>6, <2>8, <2>9, <2>10, Zenon DEF Compared
<1>5. CASE differs = {}
  <2>1. \A i \in 1 .. min : v[i] = w[i]
    BY <1>5
  <2>2. c = IF Len(v) = Len(w) THEN 0 ELSE IF Len(v) < Len(w) THEN -1 ELSE 1
    <3>. HIDE DEF differs
    <3>. QED BY <1>3, <1>5, Zenon
  <2>3. PICK j : j = min + 1
    OBVIOUS
  <2>4. /\ j \in 1 .. Len(v) + 1 /\ j \in 1 .. Len(w) + 1 /\ j - 1 = min
        /\ \/ j = Len(v) + 1 /\ j = Len(w) + 1 /\ c = 0
           \/ j = Len(v) + 1 /\ j < Len(w) + 1 /\ c = -1
           \/ j < Len(v) + 1 /\ j = Len(w) + 1 /\ c = 1
    <3>. HIDE DEF differs
    <3>. QED BY <1>1, <2>2, <2>3
  <2>5. \A i \in 1 .. j - 1 : v[i] = w[i]
    BY <2>1, <2>4, Zenon
  <2>. HIDE DEF min, differs
  <2>. QED BY <2>4, <2>5, Zenon DEF Compared
<1>. QED BY <1>4, <1>5

LEMMA ComparedOnce ==
  ASSUME NEW v \in Seq(Chars), NEW w \in Seq(Chars),
         NEW j, NEW c, Compared(v, w, j, c), NEW k, NEW d, Compared(v, w, k, d)
  PROVE  j = k /\ c = d
<1>1. Len(v) \in Nat /\ Len(w) \in Nat
  BY LenProperties
<1>2. /\ j \in 1 .. Len(v) + 1 /\ j \in 1 .. Len(w) + 1
      /\ \A i \in 1 .. j - 1 : v[i] = w[i]
      /\ (j <= Len(v) /\ j <= Len(w)) => (v[j] # w[j] /\ c = Rank[v[j]] - Rank[w[j]])
      /\ (j = Len(v) + 1 /\ j = Len(w) + 1) => c = 0
      /\ (j = Len(v) + 1 /\ j < Len(w) + 1) => c = -1
      /\ (j < Len(v) + 1 /\ j = Len(w) + 1) => c = 1
  BY <1>1 DEF Compared
<1>3. /\ k \in 1 .. Len(v) + 1 /\ k \in 1 .. Len(w) + 1
      /\ \A i \in 1 .. k - 1 : v[i] = w[i]
      /\ (k <= Len(v) /\ k <= Len(w)) => (v[k] # w[k] /\ d = Rank[v[k]] - Rank[w[k]])
      /\ (k = Len(v) + 1 /\ k = Len(w) + 1) => d = 0
      /\ (k = Len(v) + 1 /\ k < Len(w) + 1) => d = -1
      /\ (k < Len(v) + 1 /\ k = Len(w) + 1) => d = 1
  BY <1>1 DEF Compared
<1>4. ~(j < k)
  <2>1. SUFFICES ASSUME j < k PROVE FALSE
    OBVIOUS
  <2>2. j \in 1 .. k - 1 /\ j <= Len(v) /\ j <= Len(w)
    BY <1>1, <1>2, <1>3, <2>1
  <2>. QED BY <1>2, <1>3, <2>2
<1>5. ~(k < j)
  <2>1. SUFFICES ASSUME k < j PROVE FALSE
    OBVIOUS
  <2>2. k \in 1 .. j - 1 /\ k <= Len(v) /\ k <= Len(w)
    BY <1>1, <1>2, <1>3, <2>1
  <2>. QED BY <1>2, <1>3, <2>2
<1>6. j = k
  BY <1>1, <1>2, <1>3, <1>4, <1>5
<1>7. \/ j <= Len(v) /\ j <= Len(w)
      \/ j = Len(v) + 1 /\ j = Len(w) + 1
      \/ j = Len(v) + 1 /\ j < Len(w) + 1
      \/ j < Len(v) + 1 /\ j = Len(w) + 1
  BY <1>1, <1>2
<1>. QED BY <1>2, <1>3, <1>6, <1>7, Zenon

LEMMA EqIs ==
  ASSUME NEW v \in Seq(Chars), NEW w \in Seq(Chars)
  PROVE  Eq(v, w) <=> Len(v) = Len(w) /\ \A i \in 1 .. Len(w) : v[i] = w[i]
<1>1. At(v, 0, w) <=> 0 + Len(w) <= Len(v) /\ \A i \in 1 .. Len(w) : w[i] = v[i + 0]
  BY AtIs
<1>2. Len(v) \in Nat /\ Len(w) \in Nat /\ \A i \in 1 .. Len(w) : i + 0 = i
  BY LenProperties
<1>3. (\A i \in 1 .. Len(w) : w[i] = v[i + 0]) <=> (\A i \in 1 .. Len(w) : v[i] = w[i])
  BY <1>2, Zenon
<1>4. Len(v) = Len(w) => 0 + Len(w) <= Len(v)
  BY <1>2
<1>. QED BY <1>1, <1>3, <1>4, Zenon DEF Eq

LEMMA CmpEq ==
  ASSUME NEW v \in Seq(Chars), NEW w \in Seq(Chars)
  PROVE  Cmp(v, w) = 0 <=> Eq(v, w)
<1>1. PICK j : Compared(v, w, j, Cmp(v, w))
  BY CmpIs
<1>. PICK c : c = Cmp(v, w)
  OBVIOUS
<1>2. Len(v) \in Nat /\ Len(w) \in Nat
  BY LenProperties
<1>3. /\ j \in 1 .. Len(v) + 1 /\ j \in 1 .. Len(w) + 1
      /\ \A i \in 1 .. j - 1 : v[i] = w[i]
      /\ \/ j <= Len(v) /\ j <= Len(w) /\ v[j] # w[j] /\ c # 0
         \/ j = Len(v) + 1 /\ j = Len(w) + 1 /\ c = 0
         \/ j = Len(v) + 1 /\ j < Len(w) + 1 /\ c = -1
         \/ j < Len(v) + 1 /\ j = Len(w) + 1 /\ c = 1
  BY <1>1, Zenon DEF Compared
<1>4. ASSUME c = 0 PROVE Eq(v, w)
  <2>1. j = Len(v) + 1 /\ j = Len(w) + 1
    BY <1>2, <1>3, <1>4
  <2>2. Len(v) = Len(w) /\ j - 1 = Len(w)
    BY <1>2, <2>1
  <2>. QED BY <1>3, <2>2, EqIs, Zenon
<1>5. ASSUME Eq(v, w) PROVE c = 0
  <2>1. Len(v) = Len(w) /\ \A i \in 1 .. Len(w) : v[i] = w[i]
    BY <1>5, EqIs
  <2>2. ~(j <= Len(w) /\ v[j] # w[j])
    <3>1. SUFFICES ASSUME j <= Len(w) PROVE v[j] = w[j]
      OBVIOUS
    <3>2. j \in 1 .. Len(w)
      BY <1>2, <1>3, <3>1
    <3>. QED BY <2>1, <3>2
  <2>. QED BY <1>2, <1>3, <2>1, <2>2
<1>. QED BY <1>4, <1>5

LEMMA CmpSwaps ==
  ASSUME NEW v \in Seq(Chars), NEW w \in Seq(Chars)
  PROVE  Cmp(v, w) \in Int /\ Cmp(w, v) = -Cmp(v, w)
<1>1. PICK j : Compared(v, w, j, Cmp(v, w))
  BY CmpIs
<1>2. PICK k : Compared(w, v, k, Cmp(w, v))
  BY CmpIs
<1>. PICK c : c = Cmp(v, w)
  OBVIOUS
<1>3. Len(v) \in Nat /\ Len(w) \in Nat
  BY LenProperties
<1>4. /\ j \in 1 .. Len(v) + 1 /\ j \in 1 .. Len(w) + 1
      /\ \A i \in 1 .. j - 1 : v[i] = w[i]
      /\ \/ /\ j <= Len(v) /\ j <= Len(w) /\ v[j] # w[j]
            /\ c = Rank[v[j]] - Rank[w[j]] /\ c # 0
         \/ j = Len(v) + 1 /\ j = Len(w) + 1 /\ c = 0
         \/ j = Len(v) + 1 /\ j < Len(w) + 1 /\ c = -1
         \/ j < Len(v) + 1 /\ j = Len(w) + 1 /\ c = 1
  BY <1>1, Zenon DEF Compared
<1>5. c \in Int /\ (j <= Len(v) /\ j <= Len(w) => -c = Rank[w[j]] - Rank[v[j]])
  <2>1. CASE j <= Len(v) /\ j <= Len(w)
    <3>1. j \in 1 .. Len(v) /\ j \in 1 .. Len(w)
      BY <1>3, <1>4, <2>1
    <3>2. v[j] \in Chars /\ w[j] \in Chars
      BY <3>1, ElementOfSeq
    <3>3. PICK a : a = Rank[v[j]]
      OBVIOUS
    <3>4. PICK b : b = Rank[w[j]]
      OBVIOUS
    <3>5. a \in Int /\ b \in Int
      BY <3>2, <3>3, <3>4, RankIs
    <3>6. c = a - b
      BY <1>3, <1>4, <2>1, <3>3, <3>4
    <3>7. c \in Int /\ -c = b - a
      BY <3>5, <3>6
    <3>. QED BY <3>3, <3>4, <3>7
  <2>2. CASE ~(j <= Len(v) /\ j <= Len(w))
    BY <1>3, <1>4, <2>2
  <2>. QED BY <2>1, <2>2
<1>6. Compared(w, v, j, -c)
  <2>1. \A i \in 1 .. j - 1 : w[i] = v[i]
    BY <1>4, Zenon
  <2>2. \/ /\ j <= Len(w) /\ j <= Len(v) /\ w[j] # v[j]
           /\ -c = Rank[w[j]] - Rank[v[j]] /\ -c # 0
        \/ j = Len(w) + 1 /\ j = Len(v) + 1 /\ -c = 0
        \/ j = Len(w) + 1 /\ j < Len(v) + 1 /\ -c = -1
        \/ j < Len(w) + 1 /\ j = Len(v) + 1 /\ -c = 1
    <3>1. /\ (c # 0 => -c # 0) /\ (c = 0 => -c = 0) /\ (c = -1 => -c = 1) /\ (c = 1 => -c = -1)
      BY <1>5
    <3>. QED BY <1>4, <1>5, <3>1, Zenon
  <2>. QED BY <1>4, <2>1, <2>2, Zenon DEF Compared
<1>7. Cmp(w, v) = -c
  BY <1>2, <1>6, ComparedOnce
<1>. QED BY <1>5, <1>7

LEMMA CmpPrefix ==
  ASSUME NEW v \in Seq(Chars), NEW w \in Seq(Chars), StartsWith(v, w)
  PROVE  Cmp(w, v) <= 0
<1>1. PICK j : Compared(w, v, j, Cmp(w, v))
  BY CmpIs
<1>. PICK c : c = Cmp(w, v)
  OBVIOUS
<1>2. Len(v) \in Nat /\ Len(w) \in Nat
  BY LenProperties
<1>3. /\ j \in 1 .. Len(w) + 1 /\ j \in 1 .. Len(v) + 1
      /\ \/ j <= Len(w) /\ j <= Len(v) /\ w[j] # v[j]
         \/ j = Len(w) + 1 /\ j = Len(v) + 1 /\ c = 0
         \/ j = Len(w) + 1 /\ j < Len(v) + 1 /\ c = -1
         \/ j < Len(w) + 1 /\ j = Len(v) + 1 /\ c = 1
  BY <1>1, Zenon DEF Compared
<1>4. Len(w) <= Len(v) /\ \A i \in 1 .. Len(w) : w[i] = v[i]
  <2>1. Len(w) <= Len(v) /\ At(v, 0, w)
    BY DEF StartsWith
  <2>2. \A i \in 1 .. Len(w) : w[i] = v[i + 0]
    BY <2>1, AtIs
  <2>3. \A i \in 1 .. Len(w) : i + 0 = i
    BY <1>2
  <2>. QED BY <2>1, <2>2, <2>3, Zenon
<1>5. ~(j <= Len(w) /\ w[j] # v[j])
  <2>1. SUFFICES ASSUME j <= Len(w) PROVE w[j] = v[j]
    OBVIOUS
  <2>2. j \in 1 .. Len(w)
    BY <1>2, <1>3, <2>1
  <2>. QED BY <1>4, <2>2
<1>6. c <= 0
  BY <1>2, <1>3, <1>4, <1>5
<1>. QED BY <1>6

LEMMA Differences ==
  ASSUME NEW a \in Int, NEW b \in Int, NEW f \in Int, NEW c, NEW d,
         c = a - b, d = b - f, c <= 0, d <= 0, c # 0
  PROVE  a - f # 0 /\ a - f <= 0
OBVIOUS

\* Nothing is less than itself, in three steps.
LEMMA CmpTransitive ==
  ASSUME NEW u \in Seq(Chars), NEW v \in Seq(Chars), NEW w \in Seq(Chars),
         Cmp(u, v) <= 0, Cmp(v, w) <= 0
  PROVE  Cmp(u, w) <= 0
<1>1. PICK j : Compared(u, v, j, Cmp(u, v))
  BY CmpIs
<1>2. PICK k : Compared(v, w, k, Cmp(v, w))
  BY CmpIs
<1>3. PICK m : Compared(u, w, m, Cmp(u, w))
  BY CmpIs
<1>. PICK c : c = Cmp(u, v)
  OBVIOUS
<1>. PICK d : d = Cmp(v, w)
  OBVIOUS
<1>. PICK e : e = Cmp(u, w)
  OBVIOUS
<1>4. Len(u) \in Nat /\ Len(v) \in Nat /\ Len(w) \in Nat
  BY LenProperties
<1>5. /\ j \in 1 .. Len(u) + 1 /\ j \in 1 .. Len(v) + 1
      /\ \A i \in 1 .. j - 1 : u[i] = v[i]
      /\ \/ /\ j <= Len(u) /\ j <= Len(v) /\ u[j] # v[j]
            /\ c = Rank[u[j]] - Rank[v[j]] /\ c # 0
         \/ j = Len(u) + 1 /\ j = Len(v) + 1 /\ c = 0
         \/ j = Len(u) + 1 /\ j < Len(v) + 1 /\ c = -1
         \/ j < Len(u) + 1 /\ j = Len(v) + 1 /\ c = 1
  BY <1>1, Zenon DEF Compared
<1>6. /\ k \in 1 .. Len(v) + 1 /\ k \in 1 .. Len(w) + 1
      /\ \A i \in 1 .. k - 1 : v[i] = w[i]
      /\ \/ /\ k <= Len(v) /\ k <= Len(w) /\ v[k] # w[k]
            /\ d = Rank[v[k]] - Rank[w[k]] /\ d # 0
         \/ k = Len(v) + 1 /\ k = Len(w) + 1 /\ d = 0
         \/ k = Len(v) + 1 /\ k < Len(w) + 1 /\ d = -1
         \/ k < Len(v) + 1 /\ k = Len(w) + 1 /\ d = 1
  BY <1>2, Zenon DEF Compared
<1>7. c <= 0 /\ d <= 0
  OBVIOUS
<1>8. CASE j < k
  <2>1. j \in 1 .. Len(v) /\ j \in 1 .. Len(w) /\ j \in 1 .. k - 1
    BY <1>4, <1>5, <1>6, <1>8
  <2>2. ASSUME NEW i \in 1 .. j - 1 PROVE u[i] = w[i]
    <3>1. i \in 1 .. k - 1
      BY <1>4, <1>5, <1>6, <1>8
    <3>. QED BY <1>5, <1>6, <3>1
  <2>3. v[j] = w[j]
    BY <1>6, <2>1
  <2>4. CASE j <= Len(u)
    <3>1. u[j] # w[j] /\ c = Rank[u[j]] - Rank[w[j]] /\ c # 0
      <4>1. ~(j = Len(u) + 1) /\ ~(j = Len(v) + 1)
        BY <1>4, <2>1, <2>4
      <4>. QED BY <1>5, <2>3, <4>1, Zenon
    <3>2. j <= Len(w) /\ j \in 1 .. Len(w) + 1
      BY <1>4, <2>1
    <3>3. Compared(u, w, j, c)
      BY <1>5, <2>2, <2>4, <3>1, <3>2, Zenon DEF Compared
    <3>. QED BY <1>3, <1>7, <3>3, ComparedOnce
  <2>5. CASE ~(j <= Len(u))
    <3>1. j = Len(u) + 1 /\ j < Len(w) + 1 /\ j \in 1 .. Len(w) + 1
      BY <1>4, <1>5, <2>1, <2>5
    <3>2. Compared(u, w, j, -1)
      BY <1>5, <2>2, <3>1, Zenon DEF Compared
    <3>3. e = -1
      BY <1>3, <3>2, ComparedOnce
    <3>. QED BY <3>3
  <2>. QED BY <2>4, <2>5
<1>9. CASE k < j
  <2>1. k \in 1 .. Len(v) /\ k \in 1 .. Len(u) /\ k \in 1 .. j - 1
    BY <1>4, <1>5, <1>6, <1>9
  <2>2. ASSUME NEW i \in 1 .. k - 1 PROVE u[i] = w[i]
    <3>1. i \in 1 .. j - 1
      BY <1>4, <1>5, <1>6, <1>9
    <3>. QED BY <1>5, <1>6, <3>1
  <2>3. u[k] = v[k]
    BY <1>5, <2>1
  <2>4. k <= Len(w) /\ v[k] # w[k] /\ d = Rank[v[k]] - Rank[w[k]] /\ d # 0
    <3>1. ~(k = Len(v) + 1) /\ d # 1
      BY <1>4, <1>7, <2>1
    <3>. QED BY <1>6, <3>1, Zenon
  <2>5. k <= Len(u) /\ k \in 1 .. Len(u) + 1
    BY <1>4, <2>1
  <2>6. Compared(u, w, k, d)
    BY <1>6, <2>2, <2>3, <2>4, <2>5, Zenon DEF Compared
  <2>. QED BY <1>3, <1>7, <2>6, ComparedOnce
<1>10. CASE j = k
  <2>1. \A i \in 1 .. j - 1 : u[i] = w[i]
    BY <1>5, <1>6, <1>10, Zenon
  <2>2. c # 1 /\ d # 1
    BY <1>7
  <2>3. CASE j <= Len(u) /\ j <= Len(v)
    <3>1. ~(j = Len(v) + 1) /\ ~(j = Len(u) + 1)
      BY <1>4, <2>3
    <3>2. /\ c = Rank[u[j]] - Rank[v[j]] /\ c # 0
          /\ j <= Len(w) /\ d = Rank[v[j]] - Rank[w[j]] /\ d # 0
      BY <1>5, <1>6, <1>10, <2>2, <3>1, Zenon
    <3>3. u[j] \in Chars /\ v[j] \in Chars /\ w[j] \in Chars
      <4>1. j \in 1 .. Len(u) /\ j \in 1 .. Len(v) /\ j \in 1 .. Len(w)
        BY <1>4, <1>5, <2>3, <3>2
      <4>. QED BY <4>1, ElementOfSeq
    <3>. PICK a : a = Rank[u[j]]
      OBVIOUS
    <3>. PICK b : b = Rank[v[j]]
      OBVIOUS
    <3>. PICK f : f = Rank[w[j]]
      OBVIOUS
    <3>4. a \in Int /\ b \in Int /\ f \in Int /\ (a - f = 0 <=> u[j] = w[j])
      BY <3>3, RankIs
    <3>5. c = a - b /\ d = b - f
      BY <3>2
    <3>6. a - f # 0 /\ a - f <= 0
      <4>1. a \in Int /\ b \in Int /\ f \in Int /\ c = a - b /\ d = b - f
        BY <3>4, <3>5
      <4>2. c <= 0 /\ d <= 0 /\ c # 0
        BY <1>7, <3>2
      <4>. QED BY <4>1, <4>2, Differences
    <3>7. u[j] # w[j] /\ a - f = Rank[u[j]] - Rank[w[j]]
      BY <3>4, <3>6
    <3>8. j \in 1 .. Len(u) + 1 /\ j \in 1 .. Len(w) + 1 /\ j <= Len(u) /\ j <= Len(w)
      BY <1>5, <1>6, <1>10, <2>3, <3>2
    <3>9. Compared(u, w, j, a - f)
      BY <2>1, <3>6, <3>7, <3>8, Zenon DEF Compared
    <3>. QED BY <1>3, <3>6, <3>9, ComparedOnce
  <2>4. CASE ~(j <= Len(u) /\ j <= Len(v))
    <3>1. j = Len(u) + 1
      BY <1>4, <1>5, <2>2, <2>4
    <3>2. CASE j = Len(w) + 1
      <4>1. j \in 1 .. Len(u) + 1 /\ j \in 1 .. Len(w) + 1
        BY <1>5, <1>6, <1>10
      <4>2. Compared(u, w, j, 0)
        BY <2>1, <3>1, <3>2, <4>1, Zenon DEF Compared
      <4>3. e = 0
        BY <1>3, <4>2, ComparedOnce
      <4>. QED BY <4>3
    <3>3. CASE j # Len(w) + 1
      <4>1. j \in 1 .. Len(u) + 1 /\ j \in 1 .. Len(w) + 1 /\ j < Len(w) + 1
        BY <1>4, <1>5, <1>6, <1>10, <3>3
      <4>2. Compared(u, w, j, -1)
        BY <2>1, <3>1, <4>1, Zenon DEF Compared
      <4>3. e = -1
        BY <1>3, <4>2, ComparedOnce
      <4>. QED BY <4>3
    <3>. QED BY <3>2, <3>3
  <2>. QED BY <2>3, <2>4
<1>11. j < k \/ k < j \/ j = k
  BY <1>5, <1>6
<1>. QED BY <1>8, <1>9, <1>10, <1>11

LEMMA OrdersText == ASSUME Text \in Seq(Chars) PROVE CompareOrders
<1>1. SUFFICES ASSUME NEW w \in Words
               PROVE  /\ Cmp(Text, w) = 0 <=> Eq(Text, w)
                      /\ Cmp(Text, w) < 0 <=> Cmp(w, Text) > 0
                      /\ StartsWith(Text, w) => Cmp(w, Text) <= 0
                      /\ \A x \in Words : Cmp(w, Text) <= 0 /\ Cmp(Text, x) <= 0 => Cmp(w, x) <= 0
  BY DEF CompareOrders
<1>2. w \in Seq(Chars)
  BY WordFacts
<1>3. Cmp(Text, w) < 0 <=> Cmp(w, Text) > 0
  <2>1. PICK c : c = Cmp(Text, w)
    OBVIOUS
  <2>2. PICK d : d = Cmp(w, Text)
    OBVIOUS
  <2>3. c \in Int /\ d = -c
    BY <1>2, <2>1, <2>2, CmpSwaps
  <2>4. c < 0 <=> d > 0
    BY <2>3
  <2>. QED BY <2>1, <2>2, <2>4
<1>4. ASSUME NEW x \in Words, Cmp(w, Text) <= 0, Cmp(Text, x) <= 0 PROVE Cmp(w, x) <= 0
  <2>1. x \in Seq(Chars)
    BY WordFacts
  <2>. QED BY <1>2, <1>4, <2>1, CmpTransitive
<1>5. Cmp(Text, w) = 0 <=> Eq(Text, w)
  BY <1>2, CmpEq
<1>6. StartsWith(Text, w) => Cmp(w, Text) <= 0
  BY <1>2, CmpPrefix
<1>. QED BY <1>3, <1>4, <1>5, <1>6, Zenon

-----------------------------------------------------------------------------
(* What is quoted *)

LEMMA FirstIs ==
  ASSUME NEW v, Len(v) \in Nat, NEW x, NEW p \in 0 .. Len(v),
         NEW m \in p .. Len(v), At(v, m, x), \A i \in p .. m - 1 : ~At(v, i, x)
  PROVE  Strstr(v, p, x) = m
<1>1. PICK k : k = Strstr(v, p, x)
  OBVIOUS
<1>2. \/ k = None /\ \A i \in p .. Len(v) : ~At(v, i, x)
      \/ k \in p .. Len(v) /\ At(v, k, x) /\ \A i \in p .. k - 1 : ~At(v, i, x)
  BY <1>1, StrstrIs
<1>3. k \in p .. Len(v) /\ At(v, k, x) /\ \A i \in p .. k - 1 : ~At(v, i, x)
  BY <1>2
<1>4. ~(k < m)
  <2>1. k < m => k \in p .. m - 1
    BY <1>3
  <2>. QED BY <1>3, <2>1
<1>5. ~(m < k)
  <2>1. m < k => m \in p .. k - 1
    BY <1>3
  <2>. QED BY <1>3, <2>1
<1>. QED BY <1>1, <1>3, <1>4, <1>5

LEMMA QuoteIs ==
  ASSUME NEW v \in Seq(Chars), NEW q \in Chars
  PROVE  LET inner == QuotedSubstring(v, q)
             whole == <<q>> \o inner \o <<q>>
         IN  /\ ~Contains(inner, <<q>>)
             /\ \/ CountFrom(v, 0, <<q>>) < 3 /\ inner = <<>>
                \/ Contains(v, whole) /\ ~Contains(SubSeq(v, 1, Strstr(v, 0, whole)), <<q>>)
<1>. PICK x : x = <<q>>
  OBVIOUS
<1>1. x \in Seq(Chars) /\ x # <<>> /\ Len(x) = 1 /\ x[1] = q
  OBVIOUS
<1>2. Len(v) \in Nat /\ 0 \in 0 .. Len(v)
  BY LenProperties
<1>3. PICK start : start = Strstr(v, 0, x)
  OBVIOUS
<1>4. PICK end : end = Strstr(v, start + 1, x)
  OBVIOUS
<1>5. PICK inner : inner = QuotedSubstring(v, q)
  OBVIOUS
<1>6. inner = IF start = None \/ end = None THEN <<>> ELSE SubSeq(v, start + 2, end)
  BY <1>3, <1>4, <1>5 DEF QuotedSubstring
<1>7. start # None => /\ start \in 0 .. Len(v) /\ start + 1 \in 0 .. Len(v) /\ At(v, start, x)
                      /\ \A i \in 0 .. start - 1 : ~At(v, i, x)
  <2>1. start # None => /\ start \in 0 .. Len(v) /\ start + Len(x) \in 0 .. Len(v) /\ At(v, start, x)
                        /\ \A i \in 0 .. start - 1 : ~At(v, i, x)
    BY <1>1, <1>2, <1>3, MatchFits
  <2>. QED BY <1>1, <2>1, Zenon
<1>8. CASE start = None \/ end = None
  <2>1. inner = <<>>
    BY <1>6, <1>8
  <2>2. ~Contains(inner, x)
    <3>1. inner \in Seq(Chars) /\ 0 \in 0 .. Len(inner) /\ ~(0 \in 0 .. Len(inner) - 1)
      BY <2>1
    <3>2. Strstr(inner, 0, x) = None
      BY <1>1, <3>1, MatchFits
    <3>. QED BY <3>2 DEF Contains
  <2>3. CountFrom(v, 0, x) < 3
    <3>1. CASE start = None
      <4>1. CountFrom(v, 0, x) = 1
        BY <1>1, <1>2, <1>3, <3>1, CountIs
      <4>. QED BY <4>1
    <3>2. CASE start # None
      <4>1. end = None
        BY <1>8, <3>2
      <4>2. CountFrom(v, start + 1, x) = 1
        BY <1>1, <1>4, <1>7, <3>2, <4>1, CountIs
      <4>3. CountFrom(v, 0, x) = 1 + CountFrom(v, start + 1, x)
        <5>1. CountFrom(v, 0, x) = 1 + CountFrom(v, start + Len(x), x)
          BY <1>1, <1>2, <1>3, <3>2, CountIs
        <5>. QED BY <1>1, <5>1, Zenon
      <4>4. PICK a : a = CountFrom(v, 0, x)
        OBVIOUS
      <4>5. a = 1 + 1
        BY <4>2, <4>3, <4>4
      <4>6. a < 3
        BY <4>5
      <4>. QED BY <4>4, <4>6
    <3>. QED BY <3>1, <3>2
  <2>. QED BY <1>5, <2>1, <2>2, <2>3, Zenon
<1>9. CASE start # None /\ end # None
  <2>. PICK p : p = start + 1
    OBVIOUS
  <2>1. start \in 0 .. Len(v) /\ p \in 0 .. Len(v) /\ p = start + 1 /\ start \in Nat
    BY <1>2, <1>7, <1>9
  <2>2. end \in p .. Len(v) /\ end + 1 \in 0 .. Len(v) /\ At(v, end, x)
        /\ \A i \in p .. end - 1 : ~At(v, i, x)
    <3>1. end = Strstr(v, p, x) /\ end # None
      BY <1>4, <1>9
    <3>2. end \in p .. Len(v) /\ end + Len(x) \in 0 .. Len(v) /\ At(v, end, x)
          /\ \A i \in p .. end - 1 : ~At(v, i, x)
      BY <1>1, <2>1, <3>1, MatchFits
    <3>. QED BY <1>1, <3>2, Zenon
  <2>3. inner = SubSeq(v, p + 1, end)
    <3>1. start + 2 = p + 1
      BY <2>1
    <3>2. inner = SubSeq(v, start + 2, end)
      BY <1>6, <1>9
    <3>. QED BY <3>1, <3>2, Zenon
  <2>4. ~Contains(inner, x)
    BY <1>1, <2>1, <2>2, <2>3, PieceFree
  <2>. PICK to : to = end + 1
    OBVIOUS
  <2>5. to \in 0 .. Len(v) /\ to \in end .. Len(v) /\ p \in start .. Len(v) /\ to \in p .. Len(v)
        /\ to - start \in Nat /\ start + (to - start) = to /\ to - start # 0
    BY <1>2, <2>1, <2>2
  <2>6. PICK whole : whole = x \o inner \o x
    OBVIOUS
  <2>7. whole = SubSeq(v, start + 1, to)
    <3>1. SubSeq(v, start + 1, p) = x
      <4>1. SubSeq(v, start + 1, start + Len(x)) = x
        BY <1>7, <1>9 DEF At
      <4>. QED BY <1>1, <2>1, <4>1, Zenon
    <3>2. SubSeq(v, end + 1, to) = x
      <4>1. SubSeq(v, end + 1, end + Len(x)) = x
        BY <2>2 DEF At
      <4>. QED BY <1>1, <4>1, Zenon
    <3>3. x \o inner = SubSeq(v, start + 1, end)
      BY <2>1, <2>2, <2>3, <2>5, <3>1, Adjacent
    <3>4. SubSeq(v, start + 1, end) \o SubSeq(v, end + 1, to) = SubSeq(v, start + 1, to)
      <4>1. end \in start .. Len(v)
        BY <1>2, <2>1, <2>2
      <4>. QED BY <2>1, <2>5, <4>1, Adjacent
    <3>. QED BY <2>6, <3>2, <3>3, <3>4
  <2>8. /\ whole \in Seq(Chars) /\ Len(whole) = to - start
        /\ \A i \in 1 .. to - start : whole[i] = v[i + start]
    <3>1. start \in Nat /\ to \in Nat /\ start <= to /\ to <= Len(v)
      BY <1>2, <2>1, <2>5
    <3>. QED BY <2>7, <3>1, CutAt
  <2>9. At(v, start, whole)
    <3>1. start \in 0 .. Len(v) - (to - start)
      BY <1>2, <2>1, <2>5
    <3>. QED BY <2>5, <2>7, <2>8, <3>1, Zenon DEF At
  <2>10. ASSUME NEW i \in 0 .. start - 1 PROVE ~At(v, i, whole)
    <3>1. SUFFICES ASSUME At(v, i, whole) PROVE FALSE
      OBVIOUS
    <3>2. i \in Nat
      OBVIOUS
    <3>3. i + Len(whole) <= Len(v) /\ \A j \in 1 .. Len(whole) : whole[j] = v[j + i]
      BY <2>8, <3>1, <3>2, AtIs
    <3>4. 1 \in 1 .. to - start
      BY <2>5
    <3>5. whole[1] = v[1 + i] /\ whole[1] = v[1 + start]
      BY <2>8, <3>3, <3>4, Zenon
    <3>6. v[1 + start] = x[1]
      <4>1. \A j \in 1 .. Len(x) : x[j] = v[j + start]
        BY <1>1, <1>7, <1>9, <2>1, AtIs
      <4>. QED BY <1>1, <4>1
    <3>7. i + Len(x) <= Len(v)
      BY <1>1, <1>2, <2>1
    <3>8. \A j \in 1 .. Len(x) : x[j] = v[j + i]
      <4>1. \A j \in 1 .. Len(x) : j = 1
        BY <1>1
      <4>. QED BY <3>5, <3>6, <4>1, Zenon
    <3>9. At(v, i, x)
      BY <1>1, <3>2, <3>7, <3>8, AtIs
    <3>. QED BY <1>7, <1>9, <3>9
  <2>11. Strstr(v, 0, whole) = start
    BY <1>2, <2>1, <2>9, <2>10, FirstIs
  <2>12. Contains(v, whole)
    BY <1>9, <2>11 DEF Contains
  <2>13. ~Contains(SubSeq(v, 1, start), x)
    <3>1. ~Contains(SubSeq(v, 0 + 1, start), x)
      BY <1>1, <1>2, <1>7, <1>9, <2>1, PieceFree
    <3>2. 0 + 1 = 1
      OBVIOUS
    <3>. QED BY <3>1, <3>2, Zenon
  <2>. QED BY <1>5, <2>4, <2>6, <2>11, <2>12, <2>13, Zenon
<1>. QED BY <1>8, <1>9

\* What only looks agrees, for any text a String can hold: str_cmp is a total order with
\* str_eq as its equality, in which prefixes come first, and str_quoted_substring finds
\* exactly what is between the first two quotes.
THEOREM LooksAgree == ASSUME FairCallers PROVE Spec => []LookingAgrees
<1>1. Good(s) => LookingAgrees
  <2>1. SUFFICES ASSUME Good(s) PROVE LookingAgrees
    OBVIOUS
  <2>2. Text \in Seq(Chars)
    BY <2>1, TextIs
  <2>3. CompareOrders
    BY <2>2, OrdersText
  <2>4. QuotedBetween
    BY <2>2, QuoteIs DEF QuotedBetween
  <2>. QED BY <2>3, <2>4 DEF LookingAgrees
<1>2. Spec => []Good(s)
  BY GoodAlways
<1>. QED BY <1>1, <1>2, PTL
=============================================================================
