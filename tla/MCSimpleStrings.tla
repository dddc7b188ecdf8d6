-------------------------- MODULE MCSimpleStrings --------------------------
(***************************************************************************)
(* The instances of SimpleStrings and StringUtils that TLC explores.       *)
(***************************************************************************)
EXTENDS StringUtils

AllChars   == {"a", "A", " ", "cr", "lf"}
SpaceChars == {" ", "cr", "lf"}
Upper      == [c \in AllChars |-> IF c = "a" THEN "A" ELSE c]
Lower      == [c \in AllChars |-> IF c = "A" THEN "a" ELSE c]

CharRank   == [c \in AllChars |-> CASE c = "lf" -> 10 [] c = "cr" -> 13 [] c = " " -> 32
                                     [] c = "A" -> 65 [] c = "a" -> 97]

SomeWords  == {<<>>, <<"a">>, <<" ">>, <<"cr", "lf">>}
SmallSizes == 0 .. 3
SomeCounts == -1 .. 2
=============================================================================
