------------------------------- MODULE MCText -------------------------------
(***************************************************************************)
(* The texts that TLC walks over: short sequences of bytes at which the    *)
(* decoder decides, well-formed or not, and short sequences of code points *)
(* of each class that the cluster rules tell apart.                        *)
(***************************************************************************)
EXTENDS Grapheme

\* a, the bounds of continuation bytes, and lead bytes at the bounds of overlong
\* encodings, surrogates and the largest code point.
EdgeBytes == {97, 128, 143, 144, 159, 160, 191, 193, 194, 224, 237, 240, 244, 245}

\* Three of any of them; four behind leads whose next byte has its own bounds.
ByteTexts ==
  UNION {[1 .. n -> EdgeBytes] : n \in 0 .. 3}
    \cup {<<a, b, c, d>> : a \in {240, 244, 245}, b \in {97, 128, 143, 144, 191},
                           c \in {97, 128}, d \in {97, 191, 194}}

\* CR, LF, a, a combining accent, a variation selector, the joiner and a flag letter.
Classes == {13, 10, 97, 769, 65039, 8205, 127462}

CodepointTexts ==
  {Flatten([i \in DOMAIN cps |-> utf8_encode(cps[i])]) :
     cps \in UNION {[1 .. n -> Classes] : n \in 0 .. 4}}

AllTexts  == ByteTexts \cup CodepointTexts

\* Ordinary text and a lead byte.
MemoryBytes == {97, 195}
=============================================================================
