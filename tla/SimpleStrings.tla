--------------------------- MODULE SimpleStrings ---------------------------
(***************************************************************************)
(* The functions of strings.c that create and modify a String, at the      *)
(* level of its memory: a block of cells with a length and a capacity.     *)
(* malloc may fail where a String is made from nothing; otherwise it and   *)
(* realloc succeed.  realloc moves the block when it grows.                *)
(*                                                                         *)
(* A block is indexed from 1 here, so C's data[i] is data[i + 1].  What is *)
(* copied beyond the end of a block is lost.                               *)
(***************************************************************************)
EXTENDS Integers, Sequences, FiniteSets

CONSTANTS
  Chars, Spaces, CR, LF, UpperOf, LowerOf,   \* see StringValue
  NUL,      \* the terminator
  Junk,     \* the content of memory that was never written, or was freed
  Words,    \* the C strings that callers pass
  Sizes,    \* the positions and lengths that callers pass
  SizeMod,  \* size_t counts modulo this
  MaxLen,   \* the longest string that is built
  SelfGrow  \* callers append a String to itself even if that makes it grow

ASSUME StringsAssumption ==
  /\ Spaces \subseteq Chars /\ {CR, LF} \subseteq Spaces
  /\ {UpperOf, LowerOf} \subseteq [Chars -> Chars]
  /\ NUL \notin Chars /\ Junk \notin Chars /\ NUL # Junk
  /\ <<>> \in Words /\ \A x \in Words : x \in Seq(Chars) /\ Len(x) <= MaxLen
  /\ SizeMod \in Nat /\ MaxLen \in Nat /\ MaxLen + 1 < SizeMod /\ Sizes \subseteq 0 .. SizeMod - 1
  /\ SelfGrow \in BOOLEAN

VARIABLE s   \* the String: the cells of its block (none for NULL), len and cap

Str(d, l, c) == [data |-> d, len |-> l, cap |-> c]
Null         == Str(<<>>, 0, 0)
Live         == s.data # <<>>

Value(st) == SubSeq(st.data, 1, st.len)

V == INSTANCE StringValue WITH val <- Value(s)

Wrap(n) == IF n \in 0 .. SizeMod - 1 THEN n ELSE n % SizeMod

-----------------------------------------------------------------------------
(* Memory *)

\* memcpy or memmove of x to d + at.
Poke(d, at, x) == [i \in 1 .. Len(d) |-> IF i \in at + 1 .. at + Len(x) THEN x[i - at] ELSE d[i]]

\* n cells from d + from on.
Peek(d, from, n) == [i \in 1 .. n |-> IF from + i <= Len(d) THEN d[from + i] ELSE Junk]

\* The C string in a block: what is before its first terminator.
EndOf(d) == CHOOSE i \in 1 .. Len(d) : d[i] = NUL /\ \A j \in 1 .. i - 1 : d[j] # NUL
CStr(d)  == SubSeq(d, 1, EndOf(d) - 1)

Terminate(d, l) == Poke(d, l, <<NUL>>)

Block(c)     == [i \in 1 .. c |-> Junk]
Resize(d, c) == [i \in 1 .. c |-> IF i <= Len(d) THEN d[i] ELSE Junk]

\* Mutant of Needed: no room for the terminator.
NeededNoNul(st, n) == st.len + n

\* str_grow: the capacity that there is, or the first of its doublings that suffices.
Needed(st, n) == st.len + n + 1
Caps(st, n)   ==
  IF Needed(st, n) <= st.cap THEN {st.cap}
  ELSE {c \in Needed(st, n) .. 2 * Needed(st, n) - 1 : \E k \in 1 .. c : c = st.cap * 2^k}

\* str_create
Fresh(x) == Str(x \o <<NUL>>, Len(x), Len(x) + 1)

\* str_append, once the capacity is known.
AppendTo(st, x, c) ==
  IF x = <<>> THEN st
  ELSE LET n == st.len + Len(x) IN
       Str(Terminate(Poke(Resize(st.data, c), st.len, x), n), n, c)

\* s->len = l; s->data[l] = '\0'
Shorten(l) == s' = Str(Terminate(s.data, l), l, s.cap)

-----------------------------------------------------------------------------
(* Creating *)

\* A String that was not created or was destroyed gets a value.
Create(x) == ~Live /\ s' = Fresh(x)

WithCap(n) ==
  /\ ~Live /\ n <= MaxLen + 1
  /\ LET c == IF n > 0 THEN n ELSE 1 IN s' = Str(Terminate(Block(c), 0), 0, c)

\* malloc returns NULL: no block, but a capacity.
CreateFails(x)  == ~Live /\ s' = Str(<<>>, 0, Len(x) + 1)
WithCapFails(n) == ~Live /\ n <= MaxLen + 1 /\ s' = Str(<<>>, 0, IF n > 0 THEN n ELSE 1)

Destroy == Live /\ s' = Null

-----------------------------------------------------------------------------
(* Adding *)

\* The bound on the model.
Room(n) == s.len + n <= MaxLen

AppendWord(x) ==
  /\ Live /\ Room(Len(x))
  /\ \E c \in Caps(s, Len(x)) : s' = AppendTo(s, x, c)

\* str_append_str(s, s): the suffix is in the block, which str_grow frees if it grows.
AppendSelf ==
  /\ Live /\ Room(s.len)
  /\ SelfGrow \/ Needed(s, s.len) <= s.cap
  /\ \E c \in Caps(s, s.len) :
       s' = AppendTo(s, IF c > s.cap THEN Block(s.len) ELSE CStr(s.data), c)

\* str_insert and str_prepend: make room at q, terminator included, and copy x there.
InsertAt(q, x, c) ==
  LET moved == Poke(Resize(s.data, c), q + Len(x), Peek(s.data, q, s.len - q + 1))
  IN  Str(Poke(moved, q, x), s.len + Len(x), c)

Prepend(x) ==
  /\ Live /\ Room(Len(x)) /\ x # <<>>
  /\ \E c \in Caps(s, Len(x)) : s' = InsertAt(0, x, c)

Insert(p, x) ==
  /\ Live /\ Room(Len(x)) /\ x # <<>>
  /\ \E c \in Caps(s, Len(x)) : s' = InsertAt(IF p > s.len THEN s.len ELSE p, x, c)

Reserve(c) ==
  /\ Live /\ c <= MaxLen + 1 /\ c > s.cap
  /\ s' = Str(Resize(s.data, c), s.len, c)

-----------------------------------------------------------------------------
(* Removing.  str_chomp_all and str_chop_n do not look whether there is a block;
   they are called on live Strings only. *)

\* isspace up to i, and no further.
Leading(i)  == /\ \A j \in 1 .. i : s.data[j] \in Spaces
               /\ i < s.len => s.data[i + 1] \notin Spaces
\* Characters of S from e on, but not before it, down to i.
Trailing(i, e, S) == /\ \A j \in e + 1 .. s.len : s.data[j] \in S
                     /\ e > i => s.data[e] \notin S

Trim ==
  /\ Live
  /\ \E i \in 0 .. s.len : \E e \in i .. s.len :
       /\ Leading(i) /\ Trailing(i, e, Spaces)
       /\ s' = Str(Terminate(Poke(s.data, 0, Peek(s.data, i, e - i)), e - i), e - i, s.cap)

Ltrim ==
  /\ Live
  /\ \E i \in 0 .. s.len :
       /\ Leading(i)
       /\ s' = Str(Terminate(Poke(s.data, 0, Peek(s.data, i, s.len - i)), s.len - i),
                   s.len - i, s.cap)

Rtrim    == Live /\ \E e \in 0 .. s.len : Trailing(0, e, Spaces) /\ Shorten(e)
ChompAll == Live /\ \E e \in 0 .. s.len : Trailing(0, e, {CR, LF}) /\ Shorten(e)

\* Mutant of Chomp: a carriage return before the line feed stays.
ChompOne == s.len > 0 /\ Shorten(IF s.data[s.len] \in {CR, LF} THEN s.len - 1 ELSE s.len)

Chomp ==
  /\ s.len > 0
  /\ Shorten(s.len - IF s.len >= 2 /\ SubSeq(s.data, s.len - 1, s.len) = <<CR, LF>> THEN 2
                     ELSE IF s.data[s.len] \in {CR, LF} THEN 1 ELSE 0)

\* Mutant of ChopN: n characters are kept instead of chopped off.
ChopNKept(n) == Live /\ Shorten(IF n > s.len THEN s.len ELSE n)

Chop     == s.len > 0 /\ Shorten(s.len - 1)
ChopN(n) == Live /\ Shorten(IF n > s.len THEN 0 ELSE s.len - n)
Clear    == Live /\ s' = Str(Terminate(s.data, 0), 0, s.cap)

\* How many of n characters there are from p on; p + n may wrap around.
Clamp(p, n) == IF Wrap(p + n) > s.len THEN s.len - p ELSE n

Erase(p, n) ==
  /\ Live /\ p < s.len /\ n # 0
  /\ LET m == Clamp(p, n)
         l == Wrap(s.len - m)
     IN  s' = Str(Terminate(Poke(s.data, p, Peek(s.data, p + m, Wrap(s.len - p - m + 1))), l),
                  l, s.cap)

-----------------------------------------------------------------------------
(* Changing, and taking the result of a function that makes a new String *)

Map(f) ==
  /\ Live
  /\ s' = Str([i \in 1 .. Len(s.data) |-> IF i <= s.len THEN f[s.data[i]] ELSE s.data[i]],
              s.len, s.cap)

Clone == Live /\ s' = Fresh(CStr(s.data))

Substr(p, n) ==
  /\ Live
  /\ IF p >= s.len THEN s' = Fresh(<<>>)
     ELSE LET m == Clamp(p, n)
              c == Wrap(m + 1)
          IN  s' = Str(Terminate(Poke(Block(c), 0, Peek(s.data, p, m)), m), m, c)

RemovePrefix(x) ==
  /\ Live
  /\ LET src == CStr(s.data)
         fits == Len(x) <= Len(src) /\ SubSeq(src, 1, Len(x)) = x
     IN  s' = Fresh(IF fits THEN SubSeq(src, Len(x) + 1, Len(src)) ELSE src)

\* The copy is shortened; its capacity stays.
RemoveSuffix(x) ==
  /\ Live
  /\ LET src  == CStr(s.data)
         copy == Fresh(src)
         l    == Len(src) - Len(x)
     IN  s' = IF l >= 0 /\ SubSeq(src, l + 1, Len(src)) = x
              THEN Str(Terminate(copy.data, l), l, copy.cap) ELSE copy

-----------------------------------------------------------------------------

Init == s = Null

Next ==
  \/ \E x \in Words : \/ Create(x) \/ CreateFails(x) \/ AppendWord(x) \/ Prepend(x)
                      \/ RemovePrefix(x) \/ RemoveSuffix(x)
                      \/ \E p \in Sizes : Insert(p, x)
  \/ \E n \in Sizes : WithCap(n) \/ WithCapFails(n) \/ Reserve(n) \/ ChopN(n)
  \/ \E p, n \in Sizes : Erase(p, n) \/ Substr(p, n)
  \/ AppendSelf \/ Destroy \/ Clone \/ Clear
  \/ Trim \/ Ltrim \/ Rtrim \/ Chomp \/ ChompAll \/ Chop
  \/ Map(UpperOf) \/ Map(LowerOf)

Spec == Init /\ [][Next]_s
-----------------------------------------------------------------------------
(* Properties *)

TypeOK ==
  /\ s.data \in Seq(Chars \cup {NUL, Junk})
  /\ s.len \in 0 .. MaxLen
  /\ s.cap \in Nat

\* What the fields of String are documented to be: cap counts the allocated bytes,
\* len the bytes without the terminator, and a terminator follows them, so that
\* data is a C string of that length: no byte of it is NUL or was never written.
\* A NULL String is empty.
WellFormed ==
  IF s.data = <<>> THEN s.len = 0
  ELSE /\ s.cap = Len(s.data)
       /\ s.len < s.cap
       /\ \A i \in 1 .. s.len : s.data[i] \in Chars
       /\ s.data[s.len + 1] = NUL

\* Every function does to the sequence of characters what its name promises,
\* whatever the capacity, the garbage behind the terminator and the aliasing of
\* source and destination in memmove.
Promised ==
  /\ \A x \in Words :
       /\ Create(x) => V!Become(x)
       /\ AppendWord(x) => V!Concat(x)
       /\ Prepend(x) => V!Prepend(x)
       /\ RemovePrefix(x) => V!RemovePrefix(x)
       /\ RemoveSuffix(x) => V!RemoveSuffix(x)
       /\ \A p \in Sizes : Insert(p, x) => V!Insert(p, x)
  /\ \A p \in Sizes :
       /\ WithCap(p) => V!Become(<<>>)
       /\ Reserve(p) => V!Concat(<<>>)
       /\ ChopN(p) => V!Chop(p)
       /\ \A n \in Sizes : (Erase(p, n) => V!Erase(p, n)) /\ (Substr(p, n) => V!Substr(p, n))
  /\ (Destroy \/ Clear) => V!Become(<<>>)
  /\ Clone => V!Concat(<<>>)
  /\ AppendSelf => V!Concat(Value(s))
  /\ (Trim => V!Trim) /\ (Ltrim => V!Ltrim) /\ (Rtrim => V!Rtrim)
  /\ (Chomp => V!Chomp) /\ (ChompAll => V!ChompAll) /\ (Chop => V!Chop(1))
  /\ (Map(UpperOf) => V!Map(UpperOf)) /\ (Map(LowerOf) => V!Map(LowerOf))

KeepsPromises == [][Promised]_s
=============================================================================
