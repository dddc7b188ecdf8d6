------------------------------ MODULE Grapheme ------------------------------
(***************************************************************************)
(* grapheme.c: the code points of a text grouped into the clusters that a  *)
(* reader takes for characters.  Positions are those of Utf8.              *)
(***************************************************************************)
EXTENDS Utf8, FiniteSetsExt

CR == 13
LF == 10
GRAPHEME_CLUSTER_ZWJ == 8205

-----------------------------------------------------------------------------
(* Classes of code points *)

GRAPHEME_CLUSTER_EXTEND_RANGES == {
  <<768, 879>>, <<1155, 1161>>, <<1425, 1469>>, <<1471, 1471>>, <<1473, 1474>>,
  <<1476, 1477>>, <<1479, 1479>>, <<1552, 1562>>, <<1611, 1631>>, <<1648, 1648>>,
  <<1750, 1756>>, <<1759, 1764>>, <<1767, 1768>>, <<1770, 1773>>, <<1809, 1809>>,
  <<1840, 1866>>, <<1958, 1968>>, <<2304, 2306>>, <<2362, 2362>>, <<2364, 2364>>,
  <<2369, 2376>>, <<2381, 2381>>, <<2385, 2391>>, <<2402, 2403>>, <<2432, 2435>>,
  <<2492, 2492>>, <<2561, 2563>>, <<3633, 3633>>, <<3636, 3642>>, <<3655, 3662>>,
  <<3761, 3761>>, <<3764, 3772>>, <<3784, 3789>>, <<6832, 6911>>, <<7616, 7679>>,
  <<8204, 8204>>, <<8400, 8447>>, <<12330, 12335>>, <<12441, 12442>>,
  <<42607, 42610>>, <<42612, 42621>>, <<42654, 42655>>, <<65056, 65071>>,
  <<127995, 127999>>, <<917536, 917631>>}

GRAPHEME_CLUSTER_VARIATION_SELECTOR_RANGES == {<<65024, 65039>>, <<917760, 917999>>}

codepoint_in_ranges(c, ranges) == \E r \in ranges : r[1] <= c /\ c <= r[2]

grapheme_cluster_is_extend(c) == codepoint_in_ranges(c, GRAPHEME_CLUSTER_EXTEND_RANGES)

grapheme_cluster_is_variation_selector(c) ==
  codepoint_in_ranges(c, GRAPHEME_CLUSTER_VARIATION_SELECTOR_RANGES)

grapheme_cluster_is_regional_indicator(c) == c \in 127462 .. 127487

Attaches(c) == grapheme_cluster_is_extend(c) \/ grapheme_cluster_is_variation_selector(c)

-----------------------------------------------------------------------------
(* Clusters *)

\* What str_next_codepoint finds at each position.
Decoded(t) == [p \in 0 .. Len(t) |-> str_next_codepoint(t, p)]

\* The end of the cluster that goes on at p: marks and selectors belong to it, and so
\* does a joiner together with whatever follows it, but not at the end of the text.
ExtendedTo(t, p) ==
  LET at == Decoded(t)
      end[q \in 0 .. Len(t)] ==
        LET next == at[q]
        IN  IF Attaches(next.cp) THEN end[next.pos]
            ELSE IF next.cp = GRAPHEME_CLUSTER_ZWJ /\ at[next.pos].cp # 0
                 THEN end[at[next.pos].pos]
            ELSE q
  IN  end[p]

\* What begins a line ending or a flag begins a cluster to which nothing attaches.
Closed(c) == c = CR \/ grapheme_cluster_is_regional_indicator(c)

Pairs(c, d) ==
  \/ c = CR /\ d = LF
  \/ grapheme_cluster_is_regional_indicator(c) /\ grapheme_cluster_is_regional_indicator(d)

\* Mutant of str_next_grapheme: a line ending goes on like other clusters.
ExtendLineEnding(t, p) ==
  LET first == Decoded(t)[p]
      next  == Decoded(t)[first.pos]
  IN  IF ~Closed(first.cp) THEN ExtendedTo(t, first.pos)
      ELSE IF Pairs(first.cp, next.cp) THEN ExtendedTo(t, next.pos)
      ELSE first.pos

\* Where the cluster that begins at p < Len(t) ends.
str_next_grapheme(t, p) ==
  LET first == Decoded(t)[p]
      next  == Decoded(t)[first.pos]
  IN  IF ~Closed(first.cp) THEN ExtendedTo(t, first.pos)
      ELSE IF Pairs(first.cp, next.cp) THEN next.pos
      ELSE first.pos

\* Where the clusters from each position on begin.
ClustersFrom(t) ==
  LET from[p \in 0 .. Len(t)] ==
        IF p = Len(t) THEN <<>> ELSE <<p>> \o from[str_next_grapheme(t, p)]
  IN  from

str_graphemes(t) == Len(ClustersFrom(t)[0])

\* Mutant of SkipClusters: one more is passed.
SkipOneMore(t, p, n) ==
  LET from == ClustersFrom(t)[p]
  IN  IF n + 1 < Len(from) THEN from[n + 2] ELSE Len(t)

\* The cursor after n more clusters, or at the terminator.
SkipClusters(t, p, n) ==
  LET from == ClustersFrom(t)[p]
  IN  IF n < Len(from) THEN from[n + 1] ELSE Len(t)

str_substr_grapheme_cluster(t, start, count) ==
  LET first == SkipClusters(t, 0, start)
  IN  SubSeq(t, first + 1, SkipClusters(t, first, count))

-----------------------------------------------------------------------------
(* Properties *)

\* Which code points belong to the cluster of the one before them, told from neighbours
\* alone: the second of CR LF and of a flag when the first begins a cluster; marks and
\* selectors outside of line endings and flags; a joiner that has something to glue; and
\* what it glues, be it another joiner, which then glues nothing.  It follows where the code
\* falls short of what is said of it: a line ending is split after all (grapheme.h:19,
\* grapheme.c:113), but only if a joiner glues its CR, and a mark or a selector does not
\* attach to what is before it (grapheme.h:20-23), but only behind a line ending or a flag.
ClusterRules ==
  LET cps    == CodepointsFrom(text)[0]
      begins == {ClustersFrom(text)[0][j] : j \in 1 .. str_graphemes(text)}
      starts == {i \in DOMAIN cps : Skip(text, 0, i - 1) \in begins}
      glues[i \in DOMAIN cps] ==
        cps[i] = GRAPHEME_CLUSTER_ZWJ /\ i \notin starts /\ ~glues[i - 1]
      open(i) == ~Closed(cps[Max({j \in starts : j <= i})])
  IN  /\ Cardinality(starts) = str_graphemes(text)
      /\ \A i \in 2 .. Len(cps) :
           i \notin starts <=>
             \/ i - 1 \in starts /\ Pairs(cps[i - 1], cps[i])
             \/ open(i - 1) /\ Attaches(cps[i])
             \/ open(i - 1) /\ cps[i] = GRAPHEME_CLUSTER_ZWJ /\ i < Len(cps)
             \/ glues[i - 1]
      /\ \A i \in 2 .. Len(cps) :
           i \in starts =>
             /\ cps[i - 1] = CR /\ cps[i] = LF => i - 2 \in 2 .. Len(cps) /\ glues[i - 2]
             /\ Attaches(cps[i]) => ~open(i - 1)

\* A text cut after as many code points, or as many clusters, as the cursor has passed
\* characters: the first part has that many, and the two parts make up the text: no cluster
\* is cut, as ClusterRules draws them, so that an accent stays on its letter and a joined
\* emoji whole (grapheme.h:34-36).
TextCuts ==
  LET n == Len(trail)
  IN  /\ \A first \in {str_substr_codepoint(text, 0, n)} :
           /\ str_codepoints(first) = n
           /\ first \o str_substr_codepoint(text, n, Len(text)) = text
      /\ n <= str_graphemes(text) =>
           \A first \in {str_substr_grapheme_cluster(text, 0, n)} :
             /\ str_graphemes(first) = n
             /\ first \o str_substr_grapheme_cluster(text, n, Len(text)) = text
=============================================================================
