---------------------------- MODULE ToolsProofs ----------------------------
(***************************************************************************)
(* A file that is read while it is written, and what is read from it line  *)
(* by line; and what is read from the words, the numbers and the paths     *)
(* that somebody types, however long they are.                             *)
(***************************************************************************)
EXTENDS FileUtils, Args, Paths, Parsing, SequenceTheorems, FiniteSetTheorems, TLAPS

-----------------------------------------------------------------------------
(* file_utils.c: read_entire_file beside a writer, for any contents and any writes *)

ReadType ==
  /\ disk \in [kind : Kinds, data : Seq(Characters)]
  /\ unflushed \in Seq(Characters)
  /\ rpc \in {"size", "read", "done"}
  /\ size \in Nat
  /\ result \in Seq(Characters)
  /\ seen \in Seq(Characters)
  /\ quiet \in BOOLEAN

\* Only a file has contents, and what is written to is one.
Unopened == /\ ~Opens(disk) => disk.data = <<>>
            /\ wpc = "flush" => Opens(disk)

\* What has been read is no more than was asked for, and as long as nobody writes it is
\* the beginning of what the file was.
Prefix ==
  /\ Len(result) <= size
  /\ rpc = "size" => result = <<>>
  /\ rpc = "read" /\ quiet =>
       /\ disk.data = seen /\ size = Len(seen)
       /\ result = SubSeq(seen, 1, Len(result))
  /\ rpc = "done" /\ quiet => result = seen

FileInv == ReadType /\ Unopened /\ Prefix

-----------------------------------------------------------------------------
(* Sequences *)

\* A part of a sequence read on is a longer part.
LEMMA ReadOn ==
  ASSUME NEW S, NEW s \in Seq(S), NEW m \in 0 .. Len(s), NEW n \in m .. Len(s)
  PROVE  /\ SubSeq(s, 1, m) \o SubSeq(s, m + 1, n) = SubSeq(s, 1, n)
         /\ Len(SubSeq(s, 1, n)) = n
<1>. DEFINE a == SubSeq(s, 1, m)
            b == SubSeq(s, m + 1, n)
<1>1. a \in Seq(S) /\ Len(a) = m /\ \A i \in 1 .. m : a[i] = s[i]
  OBVIOUS
<1>2. b \in Seq(S) /\ Len(b) = n - m /\ \A i \in 1 .. n - m : b[i] = s[m + i]
  OBVIOUS
<1>. QED
  BY <1>1, <1>2

LEMMA NoneSeq == ASSUME NEW S PROVE <<>> \in Seq(S) /\ Len(<<>>) = 0
OBVIOUS

LEMMA Whole == ASSUME NEW S, NEW s \in Seq(S) PROVE SubSeq(s, 1, Len(s)) = s
OBVIOUS

LEMMA Part ==
  ASSUME NEW S, NEW s \in Seq(S), NEW m \in 1 .. Len(s) + 1, NEW n \in 0 .. Len(s)
  PROVE  SubSeq(s, m, n) \in Seq(S)
OBVIOUS

-----------------------------------------------------------------------------

LEMMA FileInitInv == ASSUME Init PROVE FileInv
<1>1. <<>> \in Seq(Characters) /\ Len(<<>>) = 0
  BY NoneSeq
<1>2. Files \subseteq Seq(Characters) /\ Written \subseteq Seq(Characters)
  BY FileUtilsAssumption, Zenon
<1>3. PICK k \in Kinds, f \in Seq(Characters) :
        disk = [kind |-> k, data |-> f] /\ (f # <<>> => k \in {"file", "link to file"})
  BY <1>1, <1>2 DEF Init
<1>4. Unopened
  BY <1>3 DEF Init, Unopened, Opens, file_exists
<1>5. ReadType
  BY <1>1, <1>2, <1>3 DEF Init, ReadType
<1>6. Prefix
  <2>1. rpc = "size" /\ size = 0 /\ result = <<>>
    BY DEF Init
  <2>. QED
    BY <1>1, <2>1 DEF Prefix
<1>. QED
  BY <1>4, <1>5, <1>6 DEF FileInv

\* A step of the writer, which leaves the reader where it is: what the reader had seen is
\* not what is there any more, unless it has not begun or is done.
LEMMA WriterKeeps ==
  ASSUME FileInv, UNCHANGED <<rpc, size, result, seen>>, quiet' = (quiet /\ rpc # "read"),
         disk' \in [kind : Kinds, data : Seq(Characters)],
         unflushed' \in Seq(Characters),
         Unopened'
  PROVE  FileInv'
<1>1. quiet' \in BOOLEAN /\ (quiet' => quiet) /\ (rpc = "read" => ~quiet')
  OBVIOUS
<1>2. ReadType'
  BY <1>1 DEF FileInv, ReadType
<1>3. Prefix'
  BY <1>1 DEF FileInv, Prefix
<1>. QED
  BY <1>2, <1>3 DEF FileInv

LEMMA OpenInv == ASSUME FileInv, OpenToWrite PROVE FileInv'
<1>1. UNCHANGED <<unflushed, rpc, size, result, seen>> /\ quiet' = (quiet /\ rpc # "read")
  BY DEF OpenToWrite
<1>2. /\ disk' \in [kind : Kinds, data : Seq(Characters)]
      /\ Unopened'
  <2>1. CASE dir_exists(disk)
    BY <2>1 DEF OpenToWrite, FileInv, ReadType, Unopened, Opens, file_exists, dir_exists
  <2>2. CASE ~dir_exists(disk)
    <3>1. PICK k \in {"file", "link to file"} : disk' = [kind |-> k, data |-> <<>>]
      BY <2>2 DEF OpenToWrite
    <3>2. <<>> \in Seq(Characters) /\ k \in Kinds
      <4>1. <<>> \in Seq(Characters)
        BY NoneSeq
      <4>2. k \in Kinds
        BY DEF Kinds
      <4>. QED BY <4>1, <4>2
    <3>3. Unopened'
      BY <3>1 DEF Unopened, Opens, file_exists
    <3>. QED
      BY <3>1, <3>2, <3>3
  <2>. QED BY <2>1, <2>2
<1>. QED
  BY <1>1, <1>2, WriterKeeps DEF FileInv, ReadType

\* Contents are only added to what is open for writing, which fopen can open.
LEMMA FlushInv == ASSUME FileInv, Flush PROVE FileInv'
<1>1. UNCHANGED <<rpc, size, result, seen>> /\ quiet' = (quiet /\ rpc # "read")
  BY DEF Flush
<1>2. PICK n \in 0 .. Len(unflushed) :
        /\ disk' = [disk EXCEPT !.data = @ \o SubSeq(unflushed, 1, n)]
        /\ unflushed' = SubSeq(unflushed, n + 1, Len(unflushed))
  BY DEF Flush
<1>3. /\ SubSeq(unflushed, 1, n) \in Seq(Characters)
      /\ unflushed' \in Seq(Characters)
  <2>1. unflushed \in Seq(Characters)
    BY DEF FileInv, ReadType
  <2>. QED
    BY <1>2, <2>1, Part
<1>4. disk' \in [kind : Kinds, data : Seq(Characters)] /\ disk'.kind = disk.kind
  <2>1. disk \in [kind : Kinds, data : Seq(Characters)]
    BY DEF FileInv, ReadType
  <2>2. disk.data \o SubSeq(unflushed, 1, n) \in Seq(Characters)
    BY <1>3, <2>1
  <2>. QED
    BY <1>2, <2>1, <2>2
<1>5. Unopened'
  BY <1>4 DEF FileInv, Flush, Unopened, Opens, file_exists, dir_exists
<1>. QED
  BY <1>1, <1>3, <1>4, <1>5, WriterKeeps

LEMMA TakeSizeInv == ASSUME FileInv, TakeSize PROVE FileInv'
<1>1. disk.data \in Seq(Characters) /\ result = <<>>
  BY DEF FileInv, ReadType, Prefix, TakeSize
<1>2. /\ UNCHANGED <<disk, unflushed, wpc, result>>
      /\ size' = Len(disk.data) /\ seen' = disk.data /\ quiet' = TRUE
      /\ rpc' = IF Opens(disk) THEN "read" ELSE "done"
  BY DEF TakeSize
<1>3. Len(disk.data) \in Nat /\ Len(<<>>) = 0 /\ SubSeq(disk.data, 1, 0) = <<>>
  BY <1>1
<1>4. ReadType'
  BY <1>1, <1>2, <1>3 DEF FileInv, ReadType
<1>5. Unopened'
  BY <1>2 DEF FileInv, Unopened, Opens, file_exists, dir_exists
<1>6. Prefix'
  <2>1. CASE Opens(disk)
    <3>1. rpc' = "read"
      BY <1>2, <2>1
    <3>. QED
      BY <1>1, <1>2, <1>3, <3>1 DEF Prefix
  <2>2. CASE ~Opens(disk)
    <3>1. rpc' = "done" /\ disk.data = <<>>
      BY <1>2, <2>2 DEF FileInv, Unopened
    <3>. QED
      BY <1>1, <1>2, <1>3, <3>1 DEF Prefix
  <2>. QED BY <2>1, <2>2
<1>. QED
  BY <1>4, <1>5, <1>6 DEF FileInv

LEMMA ReadBlockInv == ASSUME FileInv, ReadBlock PROVE FileInv'
<1>1. rpc = "read" /\ UNCHANGED <<disk, unflushed, wpc, size, seen, quiet>>
  BY DEF ReadBlock
<1>2. Unopened'
  BY <1>1 DEF FileInv, Unopened, Opens, file_exists, dir_exists
<1>3. /\ disk.data \in Seq(Characters) /\ result \in Seq(Characters) /\ seen \in Seq(Characters)
      /\ size \in Nat /\ Len(result) \in Nat /\ Len(disk.data) \in Nat /\ Len(result) <= size
  <2>1. /\ disk.data \in Seq(Characters) /\ result \in Seq(Characters)
        /\ seen \in Seq(Characters) /\ size \in Nat /\ Len(result) <= size
    BY DEF FileInv, ReadType, Prefix
  <2>. QED BY <2>1
<1>4. quiet => disk.data = seen /\ size = Len(seen) /\ result = SubSeq(seen, 1, Len(result))
  BY <1>1 DEF FileInv, Prefix
<1>5. CASE /\ size = Len(result) \/ Len(disk.data) <= Len(result)
           /\ rpc' = "done" /\ UNCHANGED result
  <2>1. ReadType'
    BY <1>1, <1>5 DEF FileInv, ReadType
  <2>2. ASSUME quiet PROVE result = seen
    <3>1. disk.data = seen /\ size = Len(seen) /\ result = SubSeq(seen, 1, Len(result))
      BY <1>4, <2>2
    <3>2. size = Len(result) \/ Len(disk.data) <= Len(result)
      BY <1>5
    <3>3. Len(result) = Len(seen)
      <4>. DEFINE n == Len(result)
                  m == Len(seen)
      <4>1. n \in Nat /\ m \in Nat /\ n <= m
        BY <1>3, <3>1
      <4>2. n = m \/ m <= n
        BY <3>1, <3>2
      <4>. HIDE DEF n, m
      <4>3. n = m
        BY <4>1, <4>2
      <4>. QED BY <4>3 DEF n, m
    <3>. QED
      BY <1>3, <3>1, <3>3, Whole
  <2>3. Prefix'
    BY <1>1, <1>3, <1>5, <2>2 DEF Prefix
  <2>. QED
    BY <1>2, <2>1, <2>3 DEF FileInv
<1>6. ASSUME NEW to \in Len(result) + 1 .. size, to <= Len(disk.data),
             result' = result \o SubSeq(disk.data, Len(result) + 1, to), rpc' = rpc
      PROVE  FileInv'
  <2>1. SubSeq(disk.data, Len(result) + 1, to) \in Seq(Characters)
    BY <1>3, <1>6, Part
  <2>2. /\ result' \in Seq(Characters)
        /\ Len(result') = to
    <3>1. Len(SubSeq(disk.data, Len(result) + 1, to)) = to - Len(result)
      BY <1>3, <1>6
    <3>. QED
      BY <1>3, <1>6, <2>1, <3>1
  <2>3. ReadType'
    BY <1>1, <1>6, <2>2 DEF FileInv, ReadType
  <2>4. ASSUME quiet PROVE result' = SubSeq(seen, 1, to)
    BY <1>3, <1>4, <1>6, <2>4, ReadOn
  <2>5. Prefix'
    BY <1>1, <1>3, <1>4, <1>6, <2>2, <2>4 DEF Prefix
  <2>. QED
    BY <1>2, <2>3, <2>5 DEF FileInv
<1>. QED
  BY <1>5, <1>6 DEF ReadBlock

-----------------------------------------------------------------------------

LEMMA FileStutter == ASSUME FileInv, UNCHANGED vars PROVE FileInv'
BY DEF vars, FileInv, ReadType, Unopened, Prefix, Opens, file_exists, dir_exists

\* However the writer's calls and the reader's interleave.
THEOREM FileInvariant == Spec => []FileInv
<1>1. Init => FileInv
  BY FileInitInv
<1>2. FileInv /\ [Next]_vars => FileInv'
  BY OpenInv, FlushInv, TakeSizeInv, ReadBlockInv, FileStutter DEF Next
<1>. QED BY <1>1, <1>2, PTL DEF Spec

\* read_entire_file stays in the block that it has allocated for the size it found, however
\* the file grows or shrinks, and returns the whole file if nobody wrote it meanwhile.
THEOREM ReadWhatWasSized == Spec => []ReadsWhatItSized
<1>1. FileInv => ReadsWhatItSized
  BY DEF FileInv, Prefix, ReadsWhatItSized
<1>. QED BY <1>1, FileInvariant, PTL

-----------------------------------------------------------------------------
(* file_utils.c: file_is_lines_long, in its three modes *)

\* A set of natural numbers that is not empty has a least element, which is what an
\* argument along a sequence needs.
LEMMA LessWellFounded == IsWellFoundedOn({ss \in Nat \X Nat : ss[1] < ss[2]}, Nat)
BY NatLessThanWellFounded DEF OpToRel

LEMMA LeastElement == ASSUME NEW T, T \subseteq Nat, T # {} PROVE \E n \in T : \A m \in T : n <= m
<1>. DEFINE R == {ss \in Nat \X Nat : ss[1] < ss[2]}
<1>1. \E x \in T : \A y \in T : ~(<<y, x>> \in R)
  <2>. HIDE DEF R
  <2>1. IsWellFoundedOn(R, Nat)
    BY LessWellFounded, Zenon DEF R
  <2>. QED BY <2>1, WFMin, Zenon
<1>2. PICK x \in T : \A y \in T : ~(<<y, x>> \in R)
  BY <1>1
<1>. HIDE DEF R
<1>3. ASSUME NEW y \in T PROVE x <= y
  <2>1. x \in Nat /\ y \in Nat /\ ~(y < x)
    <3>1. x \in Nat /\ y \in Nat
      BY <1>2
    <3>2. <<y, x>> \notin R
      BY <1>2
    <3>. QED BY <3>1, <3>2 DEF R
  <2>. QED BY <2>1
<1>. QED BY <1>2, <1>3

\* The newlines of a part are no more than those of the whole.
LEMMA FewerBefore ==
  ASSUME NEW S, NEW f \in Seq(S), NEW j \in 0 .. Len(f)
  PROVE  /\ Newlines(f) \in Nat /\ Newlines(SubSeq(f, 1, j)) \in Nat
         /\ Newlines(SubSeq(f, 1, j)) <= Newlines(f)
<1>. DEFINE all  == {i \in DOMAIN f : f[i] = NL}
            part == {i \in DOMAIN SubSeq(f, 1, j) : SubSeq(f, 1, j)[i] = NL}
<1>1. Len(f) \in Nat /\ DOMAIN f = 1 .. Len(f)
  OBVIOUS
<1>2. DOMAIN SubSeq(f, 1, j) = 1 .. j /\ \A i \in 1 .. j : SubSeq(f, 1, j)[i] = f[i]
  OBVIOUS
<1>3. part \subseteq all
  BY <1>1, <1>2
<1>4. all \subseteq 1 .. Len(f)
  BY <1>1
<1>5. IsFiniteSet(1 .. Len(f))
  BY <1>1, FS_Interval
<1>. HIDE DEF all, part
<1>6. IsFiniteSet(all)
  BY <1>4, <1>5, FS_Subset
<1>7. IsFiniteSet(part) /\ Cardinality(part) <= Cardinality(all)
  BY <1>3, <1>6, FS_Subset
<1>8. Cardinality(all) \in Nat /\ Cardinality(part) \in Nat
  BY <1>6, <1>7, FS_CardinalityType
<1>. QED BY <1>7, <1>8 DEF Newlines, all, part

Modes == {"least", "most", "exact"}

\* What a newline, the c-th, decides, and how.
Decides(mode, c, n) == IF mode = "least" THEN c >= n ELSE c > n
Decision(mode)      == IF mode = "least" THEN "yes" ELSE "no"

LEMMA AtNewlineIs ==
  ASSUME NEW mode \in Modes, NEW c \in Nat, NEW n \in Nat
  PROVE  AtNewline(mode, c, n) = IF Decides(mode, c, n) THEN Decision(mode) ELSE "open"
BY DEF AtNewline, Decides, Decision, Modes

\* The function by which file_is_lines_long is defined.
Scan(g, f, n, mode) ==
  g = [i \in 0 .. Len(f) |->
        IF i = 0 THEN "open"
        ELSE IF g[i - 1] # "open" \/ f[i] # NL THEN g[i - 1]
        ELSE AtNewline(mode, Newlines(SubSeq(f, 1, i)), n)]

DecidedBy(f, n, mode, i) ==
  \E j \in 1 .. i : f[j] = NL /\ Decides(mode, Newlines(SubSeq(f, 1, j)), n)

\* The result of the walk in one piece.
State(f, n, mode, i) == IF DecidedBy(f, n, mode, i) THEN Decision(mode) ELSE "open"

LEMMA StateSteps ==
  ASSUME NEW S, NEW f \in Seq(S), NEW n \in Nat, NEW mode \in Modes,
         NEW i \in 1 .. Len(f)
  PROVE  State(f, n, mode, i)
           = IF State(f, n, mode, i - 1) # "open" \/ f[i] # NL THEN State(f, n, mode, i - 1)
             ELSE AtNewline(mode, Newlines(SubSeq(f, 1, i)), n)
<1>. DEFINE D(j) == f[j] = NL /\ Decides(mode, Newlines(SubSeq(f, 1, j)), n)
<1>1. Newlines(SubSeq(f, 1, i)) \in Nat
  BY FewerBefore
<1>2. AtNewline(mode, Newlines(SubSeq(f, 1, i)), n)
        = IF Decides(mode, Newlines(SubSeq(f, 1, i)), n) THEN Decision(mode) ELSE "open"
  BY <1>1, AtNewlineIs
<1>3. Decision(mode) # "open"
  BY DEF Decision
<1>4. DecidedBy(f, n, mode, i) <=> DecidedBy(f, n, mode, i - 1) \/ D(i)
  <2>1. 1 .. i = (1 .. i - 1) \cup {i}
    OBVIOUS
  <2>. HIDE DEF D
  <2>2. (\E j \in 1 .. i : D(j)) <=> (\E j \in 1 .. i - 1 : D(j)) \/ D(i)
    BY <2>1
  <2>. QED BY <2>2, Zenon DEF DecidedBy, D
<1>. QED BY <1>2, <1>3, <1>4, Zenon DEF State

LEMMA ScanIs ==
  ASSUME NEW S, NEW f \in Seq(S), NEW n \in Nat, NEW mode \in Modes, NEW g, Scan(g, f, n, mode)
  PROVE  g[Len(f)] = State(f, n, mode, Len(f))
<1>. DEFINE T == {i \in 0 .. Len(f) : g[i] # State(f, n, mode, i)}
<1>1. Len(f) \in Nat
  OBVIOUS
<1>2. \A i \in 0 .. Len(f) :
        g[i] = IF i = 0 THEN "open"
               ELSE IF g[i - 1] # "open" \/ f[i] # NL THEN g[i - 1]
               ELSE AtNewline(mode, Newlines(SubSeq(f, 1, i)), n)
  BY DEF Scan
<1>3. T = {}
  <2>1. SUFFICES ASSUME T # {} PROVE FALSE
    OBVIOUS
  <2>2. T \subseteq Nat
    BY <1>1
  <2>3. PICK i \in T : \A m \in T : i <= m
    <3>. HIDE DEF T
    <3>. QED BY <2>1, <2>2, LeastElement
  <2>4. i \in 0 .. Len(f) /\ g[i] # State(f, n, mode, i)
    BY <2>3
  <2>5. CASE i = 0
    <3>1. g[i] = "open"
      BY <1>2, <2>4, <2>5
    <3>2. State(f, n, mode, i) = "open"
      BY <2>5 DEF State, DecidedBy
    <3>. QED BY <2>4, <3>1, <3>2
  <2>6. CASE i # 0
    <3>1. i \in 1 .. Len(f) /\ i - 1 \in 0 .. Len(f) /\ i > 0 /\ ~(i <= i - 1)
      BY <1>1, <2>4, <2>6
    <3>2. i - 1 \notin T
      BY <2>3, <3>1
    <3>3. g[i - 1] = State(f, n, mode, i - 1)
      BY <3>1, <3>2
    <3>4. g[i] = IF g[i - 1] # "open" \/ f[i] # NL THEN g[i - 1]
                 ELSE AtNewline(mode, Newlines(SubSeq(f, 1, i)), n)
      BY <1>2, <2>4, <2>6, <3>1, Zenon
    <3>5. g[i] = State(f, n, mode, i)
      BY <3>1, <3>3, <3>4, StateSteps, Zenon
    <3>. QED BY <2>4, <3>5
  <2>. QED BY <2>5, <2>6
<1>4. Len(f) \in 0 .. Len(f)
  BY <1>1
<1>. QED BY <1>3, <1>4

LEMMA ScanExists ==
  ASSUME NEW S, NEW f \in Seq(S), NEW n \in Nat, NEW mode \in Modes
  PROVE  \E g : Scan(g, f, n, mode)
<1>. DEFINE w == [i \in 0 .. Len(f) |-> State(f, n, mode, i)]
            Body(g, i) == IF i = 0 THEN "open"
                          ELSE IF g[i - 1] # "open" \/ f[i] # NL THEN g[i - 1]
                          ELSE AtNewline(mode, Newlines(SubSeq(f, 1, i)), n)
<1>1. ASSUME NEW i \in 0 .. Len(f) PROVE State(f, n, mode, i) = Body(w, i)
  <2>1. CASE i = 0
    <3>1. State(f, n, mode, i) = "open"
      BY <2>1 DEF State, DecidedBy
    <3>. QED BY <2>1, <3>1
  <2>2. CASE i # 0
    <3>1. i \in 1 .. Len(f) /\ i - 1 \in 0 .. Len(f) /\ i > 0
      BY <2>2
    <3>2. w[i - 1] = State(f, n, mode, i - 1)
      BY <3>1, Zenon
    <3>3. State(f, n, mode, i)
            = IF State(f, n, mode, i - 1) # "open" \/ f[i] # NL THEN State(f, n, mode, i - 1)
              ELSE AtNewline(mode, Newlines(SubSeq(f, 1, i)), n)
      BY <3>1, StateSteps
    <3>. HIDE DEF w
    <3>4. Body(w, i) = IF w[i - 1] # "open" \/ f[i] # NL THEN w[i - 1]
                       ELSE AtNewline(mode, Newlines(SubSeq(f, 1, i)), n)
      BY <2>2, <3>1, Zenon
    <3>. HIDE DEF Body
    <3>. QED BY <3>2, <3>3, <3>4, Zenon
  <2>. QED BY <2>1, <2>2
<1>2. w = [i \in 0 .. Len(f) |-> Body(w, i)]
  <2>. HIDE DEF Body
  <2>. QED BY <1>1
<1>. QED BY <1>2 DEF Scan

LEMMA DecidedIs ==
  ASSUME NEW S, NEW f \in Seq(S), NEW n \in Nat, NEW mode \in Modes
  PROVE  Decided(f, n, mode) = State(f, n, mode, Len(f))
<1>. DEFINE after == CHOOSE g :
       g = [i \in 0 .. Len(f) |->
              IF i = 0 THEN "open"
              ELSE IF g[i - 1] # "open" \/ f[i] # NL THEN g[i - 1]
              ELSE AtNewline(mode, Newlines(SubSeq(f, 1, i)), n)]
<1>1. Scan(after, f, n, mode)
  BY ScanExists, Zenon DEF Scan
<1>2. Decided(f, n, mode) = after[Len(f)]
  BY Zenon DEF Decided
<1>. HIDE DEF after
<1>. QED BY <1>1, <1>2, ScanIs

\* Where the reading stops makes no difference to what the number of newlines says.
LEMMA LinesLongIs ==
  ASSUME NEW d, NEW S, d.data \in Seq(S), Opens(d), NEW n \in Nat, NEW mode \in Modes
  PROVE  file_is_lines_long(d, n, mode) <=> CASE mode = "least" -> Newlines(d.data) >= n
                                              [] mode = "most"  -> Newlines(d.data) <= n
                                              [] mode = "exact" -> Newlines(d.data) = n
<1>. DEFINE f     == d.data
            count == Newlines(f)
            last  == State(f, n, mode, Len(f))
<1>1. file_is_lines_long(d, n, mode)
        <=> \/ last = "yes"
            \/ /\ last = "open"
               /\ CASE mode = "least" -> count >= n
                    [] mode = "most"  -> count <= n
                    [] mode = "exact" -> count = n
  <2>1. Decided(f, n, mode) = last
    BY DecidedIs
  <2>2. n >= 0
    OBVIOUS
  <2>. HIDE DEF last, count
  <2>. QED BY <2>1, <2>2 DEF file_is_lines_long, count
<1>2. count \in Nat /\ \A j \in 1 .. Len(f) : Newlines(SubSeq(f, 1, j)) \in Nat /\ Newlines(SubSeq(f, 1, j)) <= count
  BY FewerBefore
<1>. HIDE DEF count, f
<1>3. CASE mode = "least"
  BY <1>1, <1>2, <1>3 DEF State, DecidedBy, Decides, Decision, count, f
<1>4. CASE mode = "most"
  BY <1>1, <1>2, <1>4 DEF State, DecidedBy, Decides, Decision, count, f
<1>5. CASE mode = "exact"
  BY <1>1, <1>2, <1>5 DEF State, DecidedBy, Decides, Decision, count, f
<1>. QED BY <1>3, <1>4, <1>5 DEF Modes

\* Whatever the contents, at every moment of the writing, and however large the counts:
\* the three modes of file_is_lines_long agree with each other and with the newlines.
THEOREM LinesAgree == Spec => []LineQuestions
<1>1. FileInv => LineQuestions
  <2>1. SUFFICES ASSUME FileInv, Opens(disk), NEW n \in Counts, n >= 0
                 PROVE  /\ file_is_lines_long(disk, n, "exact") <=>
                             file_is_lines_long(disk, n, "least") /\ file_is_lines_long(disk, n, "most")
                        /\ file_is_lines_long(disk, n, "most") <=> ~file_is_lines_long(disk, n + 1, "least")
                        /\ file_is_lines_long(disk, n, "exact") => Newlines(disk.data) = n
    BY DEF LineQuestions
  <2>2. n \in Nat /\ n + 1 \in Nat
    BY <2>1, FileUtilsAssumption
  <2>3. disk.data \in Seq(Characters)
    BY <2>1 DEF FileInv, ReadType
  <2>4. "least" \in Modes /\ "most" \in Modes /\ "exact" \in Modes
    BY DEF Modes
  <2>5. Newlines(disk.data) \in Nat
    BY <2>3, FewerBefore
  <2>6. /\ file_is_lines_long(disk, n, "least") <=> Newlines(disk.data) >= n
        /\ file_is_lines_long(disk, n + 1, "least") <=> Newlines(disk.data) >= n + 1
        /\ file_is_lines_long(disk, n, "most") <=> Newlines(disk.data) <= n
        /\ file_is_lines_long(disk, n, "exact") <=> Newlines(disk.data) = n
    <3>1. file_is_lines_long(disk, n, "least") <=> Newlines(disk.data) >= n
      BY <2>1, <2>2, <2>3, <2>4, LinesLongIs
    <3>2. file_is_lines_long(disk, n + 1, "least") <=> Newlines(disk.data) >= n + 1
      <4>. DEFINE k == n + 1
      <4>1. k \in Nat
        BY <2>2
      <4>. HIDE DEF k
      <4>2. file_is_lines_long(disk, k, "least") <=> Newlines(disk.data) >= k
        BY <2>1, <2>3, <2>4, <4>1, LinesLongIs
      <4>. QED BY <4>2 DEF k
    <3>3. file_is_lines_long(disk, n, "most") <=> Newlines(disk.data) <= n
      BY <2>1, <2>2, <2>3, <2>4, LinesLongIs
    <3>4. file_is_lines_long(disk, n, "exact") <=> Newlines(disk.data) = n
      BY <2>1, <2>2, <2>3, <2>4, LinesLongIs
    <3>. QED BY <3>1, <3>2, <3>3, <3>4
  <2>. QED BY <2>2, <2>5, <2>6
<1>. QED BY <1>1, FileInvariant, PTL
-----------------------------------------------------------------------------
(* What is read character by character *)

\* Induction along a sequence.
LEMMA Along ==
  ASSUME NEW n \in Nat, NEW A, 0 \in A, \A i \in 1 .. n : i - 1 \in A => i \in A
  PROVE  \A i \in 0 .. n : i \in A
<1>. DEFINE T == {i \in 0 .. n : i \notin A}
<1>1. T = {}
  <2>1. SUFFICES ASSUME T # {} PROVE FALSE
    OBVIOUS
  <2>2. T \subseteq Nat
    OBVIOUS
  <2>3. PICK i \in T : \A m \in T : i <= m
    <3>. HIDE DEF T
    <3>. QED BY <2>1, <2>2, LeastElement
  <2>4. i \in 1 .. n /\ i - 1 \in 0 .. n /\ ~(i <= i - 1) /\ i \notin A
    BY <2>3
  <2>5. i - 1 \in A
    BY <2>3, <2>4
  <2>. QED BY <2>4, <2>5
<1>. QED BY <1>1

\* What is computed from the beginning, step by step.
Foldable(n, Vals, a, F) ==
  n \in Nat /\ a \in Vals /\ \A i \in 1 .. n, v \in Vals : F[i][v] \in Vals

Folds(h, n, Vals, a, F) ==
  /\ h \in [0 .. n -> Vals]
  /\ \A i \in 0 .. n : h[i] = IF i = 0 THEN a ELSE F[i][h[i - 1]]

LEMMA FoldExists ==
  ASSUME NEW n, NEW Vals, NEW a, NEW F, Foldable(n, Vals, a, F)
  PROVE  \E h : Folds(h, n, Vals, a, F)
<1>0. n \in Nat /\ a \in Vals /\ \A i \in 1 .. n, v \in Vals : F[i][v] \in Vals
  BY DEF Foldable
<1>. DEFINE Upto(h, k) == \A i \in 0 .. k : h[i] = IF i = 0 THEN a ELSE F[i][h[i - 1]]
            A == {k \in 0 .. n : \E h \in [0 .. n -> Vals] : Upto(h, k)}
<1>1. 0 \in A
  <2>. DEFINE h == [i \in 0 .. n |-> a]
  <2>1. h \in [0 .. n -> Vals] /\ h[0] = a
    BY <1>0
  <2>2. Upto(h, 0)
    BY <2>1
  <2>. HIDE DEF h
  <2>. QED BY <1>0, <2>1, <2>2
<1>2. ASSUME NEW k \in 1 .. n, k - 1 \in A PROVE k \in A
  <2>1. PICK h \in [0 .. n -> Vals] : Upto(h, k - 1)
    BY <1>2
  <2>. DEFINE v == F[k][h[k - 1]]
              g == [i \in 0 .. n |-> IF i = k THEN v ELSE h[i]]
  <2>2. k - 1 \in 0 .. n /\ k \in 0 .. n /\ k # 0 /\ k - 1 # k
    BY <1>0
  <2>3. v \in Vals
    BY <1>0, <2>1, <2>2
  <2>. HIDE DEF v
  <2>4. g \in [0 .. n -> Vals]
    BY <2>3
  <2>5. \A i \in 0 .. n : g[i] = IF i = k THEN v ELSE h[i]
    OBVIOUS
  <2>. HIDE DEF g
  <2>6. ASSUME NEW i \in 0 .. k PROVE g[i] = IF i = 0 THEN a ELSE F[i][g[i - 1]]
    <3>1. CASE i = k
      <4>1. g[i] = v /\ g[i - 1] = h[i - 1]
        BY <2>2, <2>5, <3>1
      <4>. QED BY <2>2, <3>1, <4>1 DEF v
    <3>2. CASE i # k
      <4>1. i \in 0 .. k - 1 /\ i \in 0 .. n
        BY <1>0, <3>2
      <4>2. g[i] = h[i] /\ h[i] = IF i = 0 THEN a ELSE F[i][h[i - 1]]
        BY <2>1, <2>5, <3>2, <4>1
      <4>3. ASSUME i # 0 PROVE g[i - 1] = h[i - 1]
        <5>1. i - 1 \in 0 .. n /\ i - 1 # k
          BY <1>0, <4>1, <4>3
        <5>. QED BY <2>5, <5>1
      <4>. QED BY <4>2, <4>3
    <3>. QED BY <3>1, <3>2
  <2>. QED BY <2>2, <2>4, <2>6
<1>3. n \in A
  <2>. HIDE DEF A
  <2>1. n \in 0 .. n
    BY <1>0
  <2>. QED BY <1>0, <1>1, <1>2, <2>1, Along
<1>. QED BY <1>3 DEF Folds

\* What is computed alike at each step is the same in the end.
Together(n, g, h) ==
  n \in Nat /\ g[0] = h[0] /\ \A i \in 1 .. n : g[i - 1] = h[i - 1] => g[i] = h[i]

LEMMA Stepwise ==
  ASSUME NEW n, NEW g, NEW h, Together(n, g, h)
  PROVE  \A i \in 0 .. n : g[i] = h[i]
<1>0. n \in Nat /\ g[0] = h[0] /\ \A i \in 1 .. n : g[i - 1] = h[i - 1] => g[i] = h[i]
  BY DEF Together
<1>. DEFINE A == {i \in 0 .. n : g[i] = h[i]}
<1>1. 0 \in A
  BY <1>0
<1>2. \A i \in 1 .. n : i - 1 \in A => i \in A
  BY <1>0
<1>. HIDE DEF A
<1>3. \A i \in 0 .. n : i \in A
  BY <1>0, <1>1, <1>2, Along
<1>. QED BY <1>3 DEF A

-----------------------------------------------------------------------------
(* Lines *)

LineInv == kind \in DOMAIN Typed /\ line \in Seq(Typed[kind])

LEMMA LineInvariant == LineSpec => []LineInv
<1>1. EmptyLine => LineInv
  BY DEF EmptyLine, LineInv
<1>2. LineInv /\ [Type]_lineVars => LineInv'
  BY DEF LineInv, Type, lineVars
<1>. QED BY <1>1, <1>2, PTL DEF LineSpec

-----------------------------------------------------------------------------
(* parsing_utils.c *)

LEMMA Value10Type ==
  ASSUME NEW s \in Seq(DOMAIN Digit)
  PROVE  Value10(s) \in Nat /\ (s = <<>> => Value10(s) = 0)
<1>. DEFINE n == Len(s)
            Next10(v, i) == 10 * v + Digit[s[i]]
            F == [i \in 1 .. n |-> [v \in Nat |-> Next10(v, i)]]
            Upto(f) == f = [i \in 0 .. n |-> IF i = 0 THEN 0 ELSE Next10(f[i - 1], i)]
            upto == CHOOSE f : Upto(f)
<1>1. n \in Nat
  OBVIOUS
<1>2. \A i \in 1 .. n, v \in Nat : F[i][v] = Next10(v, i) /\ F[i][v] \in Nat
  <2>1. \A i \in 1 .. n : Digit[s[i]] \in Nat
    BY ParsingAssumption
  <2>. QED BY <2>1
<1>3. Value10(s) = upto[n]
  BY Zenon DEF Value10
<1>. HIDE DEF n, F, Next10
<1>4. PICK h : Folds(h, n, Nat, 0, F)
  <2>1. Foldable(n, Nat, 0, F)
    BY <1>1, <1>2 DEF Foldable
  <2>. QED BY <2>1, FoldExists
<1>. USE DEF Folds
<1>5. \A i \in 1 .. n : i \in 0 .. n /\ i - 1 \in 0 .. n /\ i # 0
  BY <1>1
<1>6. Upto(h) /\ h \in [0 .. n -> Nat]
  <2>1. \A i \in 0 .. n : h[i] = IF i = 0 THEN 0 ELSE Next10(h[i - 1], i)
    <3>1. \A i \in 0 .. n : i # 0 => i \in 1 .. n
      BY <1>1
    <3>. QED BY <1>2, <1>4, <1>5, <3>1
  <2>. QED BY <1>4, <2>1
<1>7. Upto(upto)
  BY <1>6, Zenon
<1>. HIDE DEF upto
<1>8. \A i \in 0 .. n : upto[i] = IF i = 0 THEN 0 ELSE Next10(upto[i - 1], i)
  BY <1>7
<1>9. \A i \in 0 .. n : h[i] = IF i = 0 THEN 0 ELSE Next10(h[i - 1], i)
  BY <1>6
<1>10. 0 \in 0 .. n /\ n \in 0 .. n
  BY <1>1
<1>11. \A i \in 0 .. n : upto[i] = h[i]
  <2>1. upto[0] = h[0]
    BY <1>8, <1>9, <1>10
  <2>2. \A i \in 1 .. n : upto[i - 1] = h[i - 1] => upto[i] = h[i]
    BY <1>5, <1>8, <1>9, Zenon
  <2>3. Together(n, upto, h)
    BY <1>1, <2>1, <2>2, Zenon DEF Together
  <2>. QED BY <2>3, Stepwise
<1>12. s = <<>> => n = 0
  BY DEF n
<1>13. upto[n] \in Nat
  BY <1>6, <1>10, <1>11
<1>14. n = 0 => upto[n] = 0
  BY <1>8, <1>10
<1>. QED BY <1>3, <1>12, <1>13, <1>14, Zenon

LEMMA LeadingExists ==
  ASSUME NEW S, NEW s \in Seq(S), NEW X
  PROVE  \E n \in 0 .. Len(s) : /\ \A i \in 1 .. n : s[i] \in X
                                /\ n < Len(s) => s[n + 1] \notin X
<1>. DEFINE T == {n \in 0 .. Len(s) : n = Len(s) \/ s[n + 1] \notin X}
<1>0. Len(s) \in Nat
  OBVIOUS
<1>1. T # {} /\ T \subseteq Nat
  BY <1>0
<1>2. PICK n \in T : \A m \in T : n <= m
  <2>. HIDE DEF T
  <2>. QED BY <1>1, LeastElement
<1>3. ASSUME NEW i \in 1 .. n PROVE s[i] \in X
  <2>1. i - 1 \in 0 .. Len(s) /\ i - 1 # Len(s) /\ ~(n <= i - 1) /\ (i - 1) + 1 = i
    BY <1>0, <1>2
  <2>2. i - 1 \notin T
    BY <1>2, <2>1
  <2>. QED BY <2>1, <2>2
<1>. QED BY <1>0, <1>2, <1>3

LEMMA LeadingIs ==
  ASSUME NEW S, NEW s \in Seq(S), NEW X
  PROVE  /\ Leading(s, X) \in 0 .. Len(s)
         /\ \A i \in 1 .. Leading(s, X) : s[i] \in X
         /\ Leading(s, X) < Len(s) => s[Leading(s, X) + 1] \notin X
BY LeadingExists, Zenon DEF Leading

\* Spaces cannot begin a number, and digits are all there is of some.
LEMMA LeadingEnds ==
  ASSUME NEW S, NEW s \in Seq(S), NEW X
  PROVE  /\ s # <<>> /\ s[1] \notin X => Leading(s, X) = 0
         /\ (\A i \in DOMAIN s : s[i] \in X) => Leading(s, X) = Len(s)
<1>1. PICK n : n = Leading(s, X)
  OBVIOUS
<1>2. n \in 0 .. Len(s) /\ (\A i \in 1 .. n : s[i] \in X) /\ (n < Len(s) => s[n + 1] \notin X)
  BY <1>1, LeadingIs
<1>3. Len(s) \in Nat /\ DOMAIN s = 1 .. Len(s)
  OBVIOUS
<1>4. s[1] \notin X => n = 0
  <2>1. n # 0 => 1 \in 1 .. n
    BY <1>2, <1>3
  <2>. QED BY <1>2, <2>1
<1>5. (\A i \in DOMAIN s : s[i] \in X) => n = Len(s)
  <2>1. n # Len(s) => n < Len(s) /\ n + 1 \in 1 .. Len(s)
    <3>1. n \in 0 .. Len(s) /\ Len(s) \in Nat
      BY <1>2, <1>3
    <3>. QED BY <3>1
  <2>. QED BY <1>2, <1>3, <2>1, Zenon
<1>. QED BY <1>1, <1>4, <1>5

LEMMA CutIs ==
  ASSUME NEW n \in Int
  PROVE  Cut(n) \in IntRange /\ (n \in IntRange => Cut(n) = n)
<1>1. PICK h \in Nat : IntMod = 2 * h /\ IntMod \div 2 = h /\ h > 0
  BY ParsingAssumption
<1>2. (n + h) % IntMod \in 0 .. IntMod - 1
  BY <1>1
<1>3. n + h \in 0 .. IntMod - 1 => (n + h) % IntMod = n + h
  BY <1>1
<1>. QED BY <1>1, <1>2, <1>3 DEF Cut, IntRange

LEMMA ClampIs ==
  ASSUME NEW n \in Int
  PROVE  Clamp(n) \in Int /\ (n \in IntRange => Clamp(n) = n)
<1>1. PICK h \in Nat, l \in Nat : IntMod \div 2 = h /\ LongMod \div 2 = l /\ h <= l
  BY ParsingAssumption
<1>. QED BY <1>1 DEF Clamp, IntRange

LEMMA ZeroFits == 0 \in IntRange /\ Cut(0) = 0 /\ Clamp(0) = 0
<1>1. 0 \in IntRange
  BY ParsingAssumption DEF IntRange
<1>. QED BY <1>1, CutIs, ClampIs

LEMMA UnsignedIs ==
  ASSUME NEW S, NEW s \in Seq(S)
  PROVE  /\ Unsigned(s) \in Seq(S)
         /\ s = <<>> => Unsigned(s) = <<>>
BY DEF Unsigned

\* The number that strtol finds, without its sign.
Found(s) == LET body == Unsigned(After(s, Leading(s, Spaces)))
            IN  Value10(First(body, Leading(body, DOMAIN Digit)))

LEMMA FoundIs ==
  ASSUME NEW S, NEW s \in Seq(S)
  PROVE  Found(s) \in Nat
<1>1. PICK signed : signed = After(s, Leading(s, Spaces))
  OBVIOUS
<1>2. signed \in Seq(S)
  BY <1>1, LeadingIs DEF After
<1>3. PICK body : body = Unsigned(signed)
  OBVIOUS
<1>4. body \in Seq(S)
  BY <1>2, <1>3, UnsignedIs
<1>5. PICK n : n = Leading(body, DOMAIN Digit)
  OBVIOUS
<1>6. n \in 0 .. Len(body) /\ \A i \in 1 .. n : body[i] \in DOMAIN Digit
  BY <1>4, <1>5, LeadingIs
<1>7. First(body, n) = SubSeq(body, 1, n)
  BY <1>4, <1>6 DEF First
<1>8. SubSeq(body, 1, n) \in Seq(DOMAIN Digit)
  BY <1>4, <1>6
<1>. QED BY <1>1, <1>3, <1>5, <1>7, <1>8, Value10Type, Zenon DEF Found

\* Only a number takes strtol to the end.
LEMMA EndsWithNumber ==
  ASSUME NEW S, NEW s \in Seq(S), strtol(s).atEnd
  PROVE  s = <<>> \/ is_numeric(After(s, Leading(s, Spaces)))
<1>1. PICK signed : signed = After(s, Leading(s, Spaces))
  OBVIOUS
<1>2. signed \in Seq(S)
  BY <1>1, LeadingIs DEF After
<1>3. PICK body : body = Unsigned(signed)
  OBVIOUS
<1>4. body \in Seq(S)
  BY <1>2, <1>3, UnsignedIs
<1>5. PICK n : n = Leading(body, DOMAIN Digit)
  OBVIOUS
<1>6. s = <<>> \/ (n > 0 /\ n = Len(body))
  BY <1>1, <1>3, <1>5 DEF strtol
<1>7. ASSUME n > 0 /\ n = Len(body) PROVE is_numeric(signed)
  <2>1. \A i \in 1 .. n : body[i] \in DOMAIN Digit
    BY <1>4, <1>5, LeadingIs
  <2>2. AllDigits(body) /\ body # <<>>
    BY <1>4, <1>7, <2>1 DEF AllDigits
  <2>. QED BY <1>2, <1>3, <2>2, UnsignedIs DEF is_numeric
<1>. QED BY <1>1, <1>6, <1>7

\* And a number does, at once.
LEMMA NumberIsFound ==
  ASSUME NEW S, NEW s \in Seq(S), is_numeric(s)
  PROVE  strtol(s).atEnd /\ After(s, Leading(s, Spaces)) = s /\ Found(s) = Value10(Unsigned(s))
<1>1. s # <<>> /\ Len(s) \in Nat /\ Len(s) > 0
  BY DEF is_numeric
<1>2. s[1] \notin Spaces
  <2>1. CASE s[1] \in {"+", "-"}
    BY <2>1, ParsingAssumption
  <2>2. CASE s[1] \notin {"+", "-"}
    <3>1. Unsigned(s) = s
      BY <2>2 DEF Unsigned
    <3>2. 1 \in DOMAIN s
      BY <1>1
    <3>. QED BY <3>1, <3>2, ParsingAssumption DEF is_numeric, AllDigits
  <2>. QED BY <2>1, <2>2
<1>3. Leading(s, Spaces) = 0
  BY <1>1, <1>2, LeadingEnds
<1>4. After(s, Leading(s, Spaces)) = s
  BY <1>3 DEF After
<1>5. PICK body : body = Unsigned(s)
  OBVIOUS
<1>6. body \in Seq(S) /\ body # <<>> /\ \A i \in DOMAIN body : body[i] \in DOMAIN Digit
  BY <1>5, UnsignedIs DEF is_numeric, AllDigits
<1>7. Leading(body, DOMAIN Digit) = Len(body)
  BY <1>6, LeadingEnds
<1>8. Len(body) > 0 /\ First(body, Len(body)) = body
  BY <1>6 DEF First
<1>9. strtol(s).atEnd
  BY <1>4, <1>5, <1>7, <1>8 DEF strtol
<1>10. Found(s) = Value10(body)
  BY <1>4, <1>5, <1>7, <1>8, Zenon DEF Found
<1>. QED BY <1>4, <1>5, <1>9, <1>10

LEMMA NumbersRead == ASSUME LineInv PROVE NumbersAgree
<1>. DEFINE after == After(line, Leading(line, Spaces))
            shown == (IF StartsWith(line, <<"-">>) THEN -1 ELSE 1) * Value10(Unsigned(line))
<1>0. line \in Seq(Typed[kind])
  BY DEF LineInv
<1>1. PICK v \in Nat : v = Found(line)
  BY <1>0, FoundIs
<1>2. PICK x \in Int : x = IF StartsWith(after, <<"-">>) THEN -v ELSE v
  BY <1>1
<1>3. strtol(line).value = Clamp(x)
  BY <1>1, <1>2, Zenon DEF strtol, Found
<1>. HIDE DEF after
<1>4. strtol(line).value \in Int
  BY <1>3, ClampIs
<1>5. PICK l \in Int : l = parse_long(line)
  BY <1>4 DEF parse_long
<1>6. parse_int(line) = Cut(l)
  BY <1>5, ZeroFits DEF parse_int, parse_long
<1>7. Cut(l) \in IntRange /\ (l \in IntRange => Cut(l) = l)
  BY CutIs
<1>8. ASSUME is_numeric(line) PROVE shown \in Int /\ l = Clamp(shown)
  <2>1. strtol(line).atEnd /\ after = line /\ v = Value10(Unsigned(line))
    BY <1>0, <1>1, <1>8, NumberIsFound DEF after
  <2>2. x = shown
    BY <1>2, <2>1
  <2>. HIDE DEF shown
  <2>. QED BY <1>2, <1>3, <1>5, <2>1, <2>2 DEF parse_long
<1>9. ASSUME is_numeric(line), shown \in IntRange PROVE parse_int(line) = shown
  <2>1. Clamp(shown) = shown
    <3>1. PICK y \in Int : y = shown
      BY <1>8, <1>9
    <3>. QED BY <1>9, <3>1, ClampIs
  <2>. QED BY <1>6, <1>7, <1>8, <1>9, <2>1
<1>10. ASSUME ~is_numeric(after) PROVE l = 0
  <2>1. CASE strtol(line).atEnd
    <3>1. line = <<>>
      BY <1>0, <1>10, <2>1, EndsWithNumber DEF after
    <3>2. Len(line) = 0
      BY <3>1
    <3>3. Leading(line, Spaces) = 0
      <4>1. Leading(line, Spaces) \in 0 .. Len(line)
        BY <1>0, LeadingIs
      <4>. QED BY <3>2, <4>1
    <3>4. after = <<>>
      BY <3>1, <3>3 DEF after, After
    <3>5. Unsigned(after) = <<>>
      BY <3>4 DEF Unsigned
    <3>6. ~StartsWith(after, <<"-">>)
      BY <3>4 DEF StartsWith
    <3>7. Leading(Unsigned(after), DOMAIN Digit) \in 0 .. Len(<<>>)
      <4>1. <<>> \in Seq(Typed[kind])
        OBVIOUS
      <4>. QED BY <3>5, <4>1, LeadingIs
    <3>8. First(Unsigned(after), Leading(Unsigned(after), DOMAIN Digit)) = <<>>
      BY <3>5, <3>7 DEF First
    <3>9. v = Value10(<<>>)
      BY <1>1, <3>8, Zenon DEF Found, after
    <3>10. Value10(<<>>) = 0
      <4>1. <<>> \in Seq(DOMAIN Digit)
        OBVIOUS
      <4>. QED BY <4>1, Value10Type
    <3>. QED BY <1>2, <1>3, <1>5, <2>1, <3>6, <3>9, <3>10, ZeroFits DEF parse_long
  <2>2. CASE ~strtol(line).atEnd
    BY <1>5, <2>2 DEF parse_long
  <2>. QED BY <2>1, <2>2
<1>11. ~is_numeric(after) => parse_int(line) = 0
  BY <1>6, <1>10, ZeroFits
<1>12. parse_int(line) = l <=> l \in IntRange
  BY <1>6, <1>7
<1>. QED BY <1>5, <1>6, <1>7, <1>8, <1>9, <1>10, <1>11, <1>12, Zenon DEF NumbersAgree, after

LEMMA LowerWords ==
  ASSUME NEW a \in BOOL_TRUE, NEW b \in BOOL_FALSE
  PROVE  Lower[a] # Lower[b]
<1>. DEFINE yes == "No... actually, yes"
            no  == "Yeah... actually, no"
<1>1. Lower[a] \in (BOOL_TRUE \ {yes}) \cup {"no... actually, yes"}
  <2>1. CASE a = yes
    BY <2>1, LowerAssumption
  <2>2. CASE a # yes
    <3>1. a # no
      BY DEF BOOL_TRUE
    <3>. QED BY <2>2, <3>1, LowerAssumption
  <2>. QED BY <2>1, <2>2
<1>2. Lower[b] \in (BOOL_FALSE \ {no}) \cup {"yeah... actually, no"}
  <2>1. CASE b = no
    BY <2>1, LowerAssumption
  <2>2. CASE b # no
    <3>1. b # yes
      BY DEF BOOL_FALSE
    <3>. QED BY <2>2, <3>1, LowerAssumption
  <2>. QED BY <2>1, <2>2
<1>. QED BY <1>1, <1>2 DEF BOOL_TRUE, BOOL_FALSE

LEMMA WordsRead == ASSUME LineInv, kind = "word" PROVE BooleansAgree
<1>1. SUFFICES ASSUME NEW i \in DOMAIN line
               PROVE  /\ parse_bool(line[i]) <=> parse_bool_strict(line[i]) = "true"
                      /\ ~(Among(line[i], BOOL_TRUE) /\ Among(line[i], BOOL_FALSE))
                      /\ parse_bool(Lower[line[i]]) = parse_bool(line[i])
  BY Zenon DEF BooleansAgree
<1>2. PICK w : w = line[i]
  OBVIOUS
<1>3. Lower[Lower[w]] = Lower[w]
  <2>1. w \in Typed["word"] /\ "word" \in DOMAIN Typed
    BY <1>1, <1>2 DEF LineInv
  <2>. QED BY <2>1, LowerAssumption
<1>4. parse_bool(w) <=> parse_bool_strict(w) = "true"
  BY DEF parse_bool, parse_bool_strict
<1>5. ~(Among(w, BOOL_TRUE) /\ Among(w, BOOL_FALSE))
  BY LowerWords, Zenon DEF Among, strcasecmp_local
<1>6. parse_bool(Lower[w]) = parse_bool(w)
  BY <1>3, Zenon DEF parse_bool, Among, strcasecmp_local
<1>. QED BY <1>2, <1>4, <1>5, <1>6, Zenon

\* Whatever is typed, however long, and however wide int and long are: numbers are read
\* as what they show or the nearest long, an int is the number if it is one, all else is
\* 0; and no word is true and false, whatever its case.
THEOREM ReadsNumbers == LineSpec => []ParsingAgrees
<1>1. LineInv => ParsingAgrees
  BY NumbersRead, WordsRead, Zenon DEF ParsingAgrees
<1>. QED BY <1>1, LineInvariant, PTL

-----------------------------------------------------------------------------
(* Pieces *)

SomePieces(S) == Seq(Seq(S)) \ {<<>>}

LEMMA PutIn ==
  ASSUME NEW S, NEW p \in SomePieces(S), NEW x \in S, NEW c
  PROVE  Put(p, x, c) \in SomePieces(S)
<1>1. p \in Seq(Seq(S)) /\ Len(p) \in Nat /\ Len(p) \in 1 .. Len(p)
  BY DEF SomePieces
<1>2. Append(p, <<>>) \in Seq(Seq(S)) /\ Len(Append(p, <<>>)) = Len(p) + 1
  <2>1. <<>> \in Seq(S)
    OBVIOUS
  <2>. QED BY <1>1, <2>1, AppendProperties
<1>3. Append(p[Len(p)], x) \in Seq(S)
  <2>1. p[Len(p)] \in Seq(S)
    BY <1>1
  <2>. QED BY <2>1, AppendProperties
<1>4. [p EXCEPT ![Len(p)] = Append(@, x)] \in Seq(Seq(S))
  BY <1>1, <1>3, ExceptSeq
<1>5. Len([p EXCEPT ![Len(p)] = Append(@, x)]) = Len(p)
  BY <1>1, <1>3, ExceptSeq
<1>6. Len(<<>>) = 0
  OBVIOUS
<1>. QED BY <1>1, <1>2, <1>4, <1>5, <1>6 DEF Put, SomePieces

\* The pieces of v, as they are made of its beginnings.
Piecewise(h, v, c) ==
  \A i \in 0 .. Len(v) : h[i] = IF i = 0 THEN << <<>> >> ELSE Put(h[i - 1], v[i], c)

LEMMA PiecesAre ==
  ASSUME NEW S, NEW v \in Seq(S), NEW c
  PROVE  \E h \in [0 .. Len(v) -> SomePieces(S)] : Piecewise(h, v, c) /\ h[Len(v)] = Pieces(v, c)
<1>. DEFINE n == Len(v)
            P == SomePieces(S)
            F == [i \in 1 .. n |-> [p \in P |-> Put(p, v[i], c)]]
            Upto(f) == f = [i \in 0 .. n |-> IF i = 0 THEN << <<>> >> ELSE Put(f[i - 1], v[i], c)]
            upto == CHOOSE f : Upto(f)
<1>1. n \in Nat /\ \A i \in 1 .. n : v[i] \in S
  OBVIOUS
<1>2. \A i \in 1 .. n, p \in P : F[i][p] = Put(p, v[i], c) /\ F[i][p] \in P
  BY <1>1, PutIn, Zenon
<1>3. Pieces(v, c) = upto[n]
  BY Zenon DEF Pieces
<1>4. << <<>> >> \in P
  BY DEF SomePieces
<1>. HIDE DEF n, F, P
<1>5. PICK h : Folds(h, n, P, << <<>> >>, F)
  <2>1. Foldable(n, P, << <<>> >>, F)
    BY <1>1, <1>2, <1>4 DEF Foldable
  <2>. QED BY <2>1, FoldExists
<1>6. \A i \in 1 .. n : i \in 0 .. n /\ i - 1 \in 0 .. n /\ i # 0
  BY <1>1
<1>7. \A i \in 0 .. n : h[i] = IF i = 0 THEN << <<>> >> ELSE Put(h[i - 1], v[i], c)
  <2>1. \A i \in 0 .. n : i # 0 => i \in 1 .. n
    BY <1>1
  <2>2. \A i \in 1 .. n : h[i - 1] \in P
    BY <1>5, <1>6, Zenon DEF Folds
  <2>. QED BY <1>2, <1>5, <2>1, <2>2, Zenon DEF Folds
<1>8. h \in [0 .. n -> P]
  BY <1>5 DEF Folds
<1>9. Upto(h)
  BY <1>7, <1>8
<1>10. Upto(upto)
  BY <1>9, Zenon
<1>. HIDE DEF upto
<1>11. \A i \in 0 .. n : upto[i] = IF i = 0 THEN << <<>> >> ELSE Put(upto[i - 1], v[i], c)
  BY <1>10, Zenon
<1>12. 0 \in 0 .. n /\ n \in 0 .. n
  BY <1>1
<1>13. \A i \in 0 .. n : upto[i] = h[i]
  <2>1. upto[0] = h[0]
    BY <1>7, <1>11, <1>12, Zenon
  <2>2. \A i \in 1 .. n : upto[i - 1] = h[i - 1] => upto[i] = h[i]
    BY <1>6, <1>7, <1>11, Zenon
  <2>3. Together(n, upto, h)
    BY <1>1, <2>1, <2>2, Zenon DEF Together
  <2>. QED BY <2>3, Stepwise
<1>. QED BY <1>3, <1>7, <1>8, <1>12, <1>13, Zenon DEF Piecewise, n, P

LEMMA PiecesNone ==
  ASSUME NEW S, NEW c
  PROVE  Pieces(<<>>, c) = << <<>> >>
<1>1. <<>> \in Seq(S) /\ Len(<<>>) = 0
  OBVIOUS
<1>2. PICK h : Piecewise(h, <<>>, c) /\ h[0] = Pieces(<<>>, c)
  BY <1>1, PiecesAre
<1>. QED BY <1>1, <1>2 DEF Piecewise

LEMMA PiecesIn ==
  ASSUME NEW S, NEW v \in Seq(S), NEW c
  PROVE  Pieces(v, c) \in SomePieces(S)
<1>1. Len(v) \in 0 .. Len(v)
  OBVIOUS
<1>. QED BY <1>1, PiecesAre

LEMMA PiecesAppend ==
  ASSUME NEW S, NEW v \in Seq(S), NEW x \in S, NEW c
  PROVE  Pieces(Append(v, x), c) = Put(Pieces(v, c), x, c)
<1>1. PICK w : w = Append(v, x)
  OBVIOUS
<1>2. PICK n \in Nat : n = Len(v)
  OBVIOUS
<1>3. w \in Seq(S) /\ Len(w) = n + 1 /\ w[n + 1] = x /\ \A i \in 1 .. n : w[i] = v[i]
  BY <1>1, <1>2, AppendProperties
<1>4. PICK g : Piecewise(g, v, c) /\ g[n] = Pieces(v, c)
  BY <1>2, PiecesAre
<1>5. PICK h : Piecewise(h, w, c) /\ h[n + 1] = Pieces(w, c)
  BY <1>3, PiecesAre
<1>6. \A i \in 0 .. n : g[i] = IF i = 0 THEN << <<>> >> ELSE Put(g[i - 1], v[i], c)
  BY <1>2, <1>4 DEF Piecewise
<1>7. \A i \in 0 .. n + 1 : h[i] = IF i = 0 THEN << <<>> >> ELSE Put(h[i - 1], w[i], c)
  BY <1>3, <1>5 DEF Piecewise
<1>8. /\ \A i \in 1 .. n : i \in 0 .. n /\ i \in 0 .. n + 1 /\ i # 0
      /\ 0 \in 0 .. n /\ 0 \in 0 .. n + 1 /\ n \in 0 .. n
      /\ n + 1 \in 0 .. n + 1 /\ n + 1 # 0 /\ (n + 1) - 1 = n
  OBVIOUS
<1>9. \A i \in 0 .. n : g[i] = h[i]
  <2>1. g[0] = h[0]
    BY <1>6, <1>7, <1>8, Zenon
  <2>2. \A i \in 1 .. n : g[i - 1] = h[i - 1] => g[i] = h[i]
    BY <1>3, <1>6, <1>7, <1>8, Zenon
  <2>3. Together(n, g, h)
    BY <2>1, <2>2, Zenon DEF Together
  <2>. QED BY <2>3, Stepwise
<1>10. h[n + 1] = Put(h[n], x, c)
  BY <1>3, <1>7, <1>8, Zenon
<1>. QED BY <1>1, <1>4, <1>5, <1>8, <1>9, <1>10, Zenon

\* Induction over the sequences themselves.
LEMMA Longer ==
  ASSUME NEW S, NEW A, <<>> \in A, \A v \in Seq(S), x \in S : v \in A => Append(v, x) \in A
  PROVE  \A v \in Seq(S) : v \in A
<1>1. ASSUME NEW v \in Seq(S) PROVE v \in A
  <2>. DEFINE B == {i \in 0 .. Len(v) : SubSeq(v, 1, i) \in A}
  <2>1. Len(v) \in Nat /\ SubSeq(v, 1, Len(v)) = v /\ SubSeq(v, 1, 0) = <<>>
    OBVIOUS
  <2>2. 0 \in B
    <3>1. 0 \in 0 .. Len(v)
      BY <2>1
    <3>2. SubSeq(v, 1, 0) \in A
      BY <2>1
    <3>. QED BY <3>1, <3>2
  <2>3. ASSUME NEW i \in 1 .. Len(v), i - 1 \in B PROVE i \in B
    <3>1. SubSeq(v, 1, i - 1) \in Seq(S) /\ v[i] \in S
      BY <2>1
    <3>2. SubSeq(v, 1, i) = Append(SubSeq(v, 1, i - 1), v[i])
      BY <2>1
    <3>3. SubSeq(v, 1, i - 1) \in A
      BY <2>3
    <3>4. SubSeq(v, 1, i) \in A
      BY <3>1, <3>2, <3>3, Zenon
    <3>5. i \in 0 .. Len(v)
      BY <2>1
    <3>. QED BY <3>4, <3>5
  <2>4. Len(v) \in B
    <3>. HIDE DEF B
    <3>1. \A i \in 0 .. Len(v) : i \in B
      BY <2>1, <2>2, <2>3, Along
    <3>. QED BY <2>1, <3>1
  <2>. QED BY <2>1, <2>4
<1>. QED BY <1>1

\* What is put behind others leaves them alone.
LEMMA PutBehind ==
  ASSUME NEW S, NEW q \in Seq(Seq(S)), NEW p \in SomePieces(S), NEW x \in S, NEW c
  PROVE  Put(q \o p, x, c) = q \o Put(p, x, c)
<1>1. PICK m \in Nat, n \in Nat : m = Len(q) /\ n = Len(p)
  BY DEF SomePieces
<1>2. p \in Seq(Seq(S)) /\ n # 0
  BY <1>1 DEF SomePieces
<1>3. /\ q \o p \in Seq(Seq(S)) /\ Len(q \o p) = m + n
      /\ \A i \in 1 .. m : (q \o p)[i] = q[i]
      /\ \A i \in 1 .. n : (q \o p)[m + i] = p[i]
  BY <1>1, <1>2
<1>4. CASE x = c
  <2>1. PICK e : e = <<>>
    OBVIOUS
  <2>2. e \in Seq(S)
    BY <2>1
  <2>3. Append(q \o p, e) = (q \o p) \o <<e>> /\ Append(p, e) = p \o <<e>>
    BY <1>2, <1>3, <2>2, AppendIsConcat
  <2>4. <<e>> \in Seq(Seq(S))
    BY <2>2
  <2>5. (q \o p) \o <<e>> = q \o (p \o <<e>>)
    BY <1>2, <2>4, ConcatAssociative
  <2>. QED BY <1>4, <2>1, <2>3, <2>5, Zenon DEF Put
<1>5. CASE x # c
  <2>1. PICK e : e = Append(p[n], x)
    OBVIOUS
  <2>2. PICK r : r = [p EXCEPT ![n] = e]
    OBVIOUS
  <2>3. e \in Seq(S)
    BY <1>1, <1>2, <2>1
  <2>4. r \in Seq(Seq(S)) /\ Len(r) = n /\ \A i \in 1 .. n : r[i] = IF i = n THEN e ELSE p[i]
    BY <1>1, <1>2, <2>2, <2>3
  <2>5. Put(p, x, c) = r
    BY <1>1, <1>5, <2>1, <2>2 DEF Put
  <2>6. PICK l : l = [q \o p EXCEPT ![m + n] = e]
    OBVIOUS
  <2>7. (q \o p)[m + n] = p[n]
    BY <1>2, <1>3
  <2>8. Put(q \o p, x, c) = l
    BY <1>3, <1>5, <2>1, <2>6, <2>7 DEF Put
  <2>9. l \in Seq(Seq(S)) /\ Len(l) = m + n
        /\ \A i \in 1 .. m + n : l[i] = IF i = m + n THEN e ELSE (q \o p)[i]
    <3>1. PICK k \in 1 .. m + n : k = m + n
      BY <1>2
    <3>2. PICK s \in Seq(Seq(S)) : s = q \o p
      BY <1>3
    <3>3. l = [s EXCEPT ![k] = e] /\ k \in 1 .. Len(s)
      BY <1>3, <2>6, <3>1, <3>2
    <3>4. l \in Seq(Seq(S)) /\ Len(l) = Len(s) /\ \A i \in 1 .. Len(s) : l[i] = IF i = k THEN e ELSE s[i]
      BY <2>3, <3>3, ExceptSeq
    <3>. QED BY <1>3, <3>1, <3>2, <3>4
  <2>10. /\ q \o r \in Seq(Seq(S)) /\ Len(q \o r) = m + n
         /\ \A i \in 1 .. m : (q \o r)[i] = q[i]
         /\ \A i \in 1 .. n : (q \o r)[m + i] = r[i]
    <3>1. /\ q \o r \in Seq(Seq(S)) /\ Len(q \o r) = m + n
          /\ \A i \in 1 .. m + n : (q \o r)[i] = IF i <= m THEN q[i] ELSE r[i - m]
      <4>1. r \in Seq(Seq(S))
        BY <2>4
      <4>2. /\ q \o r \in Seq(Seq(S)) /\ Len(q \o r) = Len(q) + Len(r)
            /\ \A i \in 1 .. Len(q) + Len(r) : (q \o r)[i] = IF i <= Len(q) THEN q[i] ELSE r[i - Len(q)]
        BY <4>1, ConcatProperties
      <4>. QED BY <1>1, <2>4, <4>2
    <3>2. \A i \in 1 .. m : i \in 1 .. m + n /\ i <= m
      OBVIOUS
    <3>3. \A i \in 1 .. n : m + i \in 1 .. m + n /\ ~(m + i <= m) /\ (m + i) - m = i
      OBVIOUS
    <3>. QED BY <3>1, <3>2, <3>3, Zenon
  <2>11. ASSUME NEW i \in 1 .. m + n PROVE l[i] = (q \o r)[i]
    <3>1. CASE i \in 1 .. m
      <4>1. i # m + n
        BY <1>2, <3>1
      <4>. QED BY <1>3, <2>9, <2>10, <3>1, <4>1
    <3>2. CASE i \notin 1 .. m
      <4>1. PICK j \in 1 .. n : i = m + j
        <5>1. i - m \in 1 .. n /\ i = m + (i - m)
          BY <3>2
        <5>. QED BY <5>1
      <4>2. i = m + n <=> j = n
        BY <4>1
      <4>3. (q \o p)[i] = p[j] /\ (q \o r)[i] = r[j]
        BY <1>3, <2>10, <4>1
      <4>. QED BY <2>4, <2>9, <4>2, <4>3
    <3>. QED BY <3>1, <3>2
  <2>12. l = q \o r
    BY <2>9, <2>10, <2>11, SeqEqual
  <2>. QED BY <2>5, <2>8, <2>12
<1>. QED BY <1>4, <1>5

\* One sequence is two others, one behind the other.
Joins(l, p, q) == l = p \o q

LEMMA JoinsAssociative ==
  ASSUME NEW S, NEW p \in Seq(S), NEW q \in Seq(S), NEW r \in Seq(S),
         NEW pq, Joins(pq, p, q), NEW qr, Joins(qr, q, r), NEW w
  PROVE  Joins(w, pq, r) <=> Joins(w, p, qr)
<1>1. (p \o q) \o r = p \o (q \o r)
  BY ConcatAssociative
<1>2. pq \o r = p \o qr
  BY <1>1, Zenon DEF Joins
<1>. QED BY <1>2, Zenon DEF Joins

\* A separator parts what is before it from what is behind it.
LEMMA PiecesConcat ==
  ASSUME NEW S, NEW u \in Seq(S), NEW v \in Seq(S), NEW c \in S
  PROVE  Joins(Pieces(u \o <<c>> \o v, c), Pieces(u, c), Pieces(v, c))
<1>. DEFINE A == {w \in Seq(S) : Pieces(u \o <<c>> \o w, c) = Pieces(u, c) \o Pieces(w, c)}
<1>1. PICK p : p = Pieces(u, c)
  OBVIOUS
<1>2. p \in Seq(Seq(S)) /\ p # <<>>
  BY <1>1, PiecesIn DEF SomePieces
<1>3. <<>> \in A
  <2>1. u \o <<c>> \o <<>> = Append(u, c)
    OBVIOUS
  <2>2. Pieces(Append(u, c), c) = Append(p, <<>>)
    <3>1. Pieces(Append(u, c), c) = Put(p, c, c)
      BY <1>1, PiecesAppend
    <3>. QED BY <3>1, Zenon DEF Put
  <2>3. Append(p, <<>>) = p \o << <<>> >>
    BY <1>2
  <2>4. Pieces(<<>>, c) = << <<>> >>
    BY PiecesNone
  <2>5. Pieces(u \o <<c>> \o <<>>, c) = Pieces(u, c) \o Pieces(<<>>, c)
    BY <1>1, <2>1, <2>2, <2>3, <2>4, Zenon
  <2>. QED BY <2>5
<1>4. ASSUME NEW w \in Seq(S), NEW x \in S, w \in A PROVE Append(w, x) \in A
  <2>1. Pieces(u \o <<c>> \o w, c) = p \o Pieces(w, c)
    BY <1>1, <1>4
  <2>2. u \o <<c>> \o w \in Seq(S) /\ u \o <<c>> \o Append(w, x) = Append(u \o <<c>> \o w, x)
    OBVIOUS
  <2>3. Pieces(Append(u \o <<c>> \o w, x), c) = Put(p \o Pieces(w, c), x, c)
    BY <2>1, <2>2, PiecesAppend, Zenon
  <2>4. Pieces(w, c) \in SomePieces(S)
    BY PiecesIn
  <2>5. Put(p \o Pieces(w, c), x, c) = p \o Put(Pieces(w, c), x, c)
    BY <1>2, <2>4, PutBehind
  <2>6. Put(Pieces(w, c), x, c) = Pieces(Append(w, x), c)
    BY PiecesAppend
  <2>7. Append(w, x) \in Seq(S)
    OBVIOUS
  <2>. QED BY <1>1, <2>2, <2>3, <2>5, <2>6, <2>7
<1>. HIDE DEF A
<1>5. v \in A
  BY <1>3, <1>4, Longer
<1>6. Pieces(u \o <<c>> \o v, c) = Pieces(u, c) \o Pieces(v, c)
  BY <1>5 DEF A
<1>. QED BY <1>6, Zenon DEF Joins

\* What has no separator is a piece.
LEMMA PiecesOne ==
  ASSUME NEW S, NEW v \in Seq(S), NEW c, Positions(v, c) = {}
  PROVE  Pieces(v, c) = <<v>>
<1>. DEFINE A == {w \in Seq(S) : (\A i \in 1 .. Len(w) : w[i] # c) => Pieces(w, c) = <<w>>}
<1>1. <<>> \in A
  BY PiecesNone
<1>2. ASSUME NEW w \in Seq(S), NEW x \in S, w \in A PROVE Append(w, x) \in A
  <2>1. Append(w, x) \in Seq(S) /\ Len(w) \in Nat /\ Len(Append(w, x)) = Len(w) + 1
    OBVIOUS
  <2>2. ASSUME \A i \in 1 .. Len(Append(w, x)) : Append(w, x)[i] # c
        PROVE  Pieces(Append(w, x), c) = <<Append(w, x)>>
    <3>1. \A i \in 1 .. Len(w) : w[i] # c
      <4>1. ASSUME NEW i \in 1 .. Len(w) PROVE w[i] # c
        <5>1. i \in 1 .. Len(w) + 1 /\ Append(w, x)[i] = w[i]
          OBVIOUS
        <5>. QED BY <2>1, <2>2, <5>1
      <4>. QED BY <4>1
    <3>2. x # c
      <4>1. Len(w) + 1 \in 1 .. Len(w) + 1 /\ Append(w, x)[Len(w) + 1] = x
        BY <2>1
      <4>. QED BY <2>1, <2>2, <4>1
    <3>3. Pieces(w, c) = <<w>>
      BY <1>2, <3>1
    <3>4. Pieces(Append(w, x), c) = Put(<<w>>, x, c)
      BY <3>3, PiecesAppend
    <3>5. Put(<<w>>, x, c) = <<Append(w, x)>>
      BY <3>2 DEF Put
    <3>. QED BY <3>4, <3>5
  <2>. QED BY <2>1, <2>2
<1>3. v \in A
  <2>. HIDE DEF A
  <2>. QED BY <1>1, <1>2, Longer
<1>4. \A i \in 1 .. Len(v) : v[i] # c
  BY DEF Positions
<1>. QED BY <1>3, <1>4

-----------------------------------------------------------------------------
(* args.c *)

\* The characters of arguments: those that are typed, and those that there are anyway.
ArgChars == Typed["args"] \cup {"a", "-", "/", ","}

LEMMA ArgvIn ==
  ASSUME LineInv, kind = "args"
  PROVE  argv \in Seq(Seq(ArgChars))
<1>1. line \in Seq(ArgChars)
  <2>1. line \in Seq(Typed["args"])
    BY DEF LineInv
  <2>2. Typed["args"] \subseteq ArgChars
    BY DEF ArgChars
  <2>. QED BY <2>1, <2>2
<1>2. Pieces(line, " ") \in Seq(Seq(ArgChars))
  BY <1>1, PiecesIn DEF SomePieces
<1>3. PICK name : name = <<"a">>
  OBVIOUS
<1>4. name \in Seq(ArgChars)
  <2>1. "a" \in ArgChars
    BY DEF ArgChars
  <2>. QED BY <1>3, <2>1
<1>5. <<name>> \in Seq(Seq(ArgChars)) /\ <<>> \in Seq(Seq(ArgChars))
  BY <1>4
<1>6. <<name>> \o Pieces(line, " ") \in Seq(Seq(ArgChars))
  BY <1>2, <1>5, ConcatProperties
<1>. QED BY <1>3, <1>5, <1>6, Zenon DEF argv

\* A sequence is what is before any place and what is behind it.
LEMMA TakeDrop ==
  ASSUME NEW S, NEW v \in Seq(S), NEW m \in 0 .. Len(v)
  PROVE  /\ SubSeq(v, 1, m) \in Seq(S) /\ Len(SubSeq(v, 1, m)) = m
         /\ SubSeq(v, m + 1, Len(v)) \in Seq(S) /\ Len(SubSeq(v, m + 1, Len(v))) = Len(v) - m
         /\ \A i \in 1 .. Len(v) - m : SubSeq(v, m + 1, Len(v))[i] = v[m + i]
         /\ v = SubSeq(v, 1, m) \o SubSeq(v, m + 1, Len(v))
<1>1. PICK n \in Nat : n = Len(v)
  OBVIOUS
<1>2. m \in 0 .. n /\ m \in Int /\ n \in Int /\ m + 1 \in Int /\ 1 \in Int
  BY <1>1
<1>3. \A i \in 1 .. n : v[i] \in S
  BY <1>1
<1>4. SubSeq(v, 1, m) \in Seq(S) /\ Len(SubSeq(v, 1, m)) = m
  BY <1>2, <1>1
<1>5. /\ SubSeq(v, m + 1, n) \in Seq(S) /\ Len(SubSeq(v, m + 1, n)) = n - m
      /\ \A i \in 1 .. n - m : SubSeq(v, m + 1, n)[i] = v[m + i]
  BY <1>2, <1>1
<1>6. SubSeq(v, 1, n) = v
  BY <1>1, SubSeqFull
<1>7. SubSeq(v, 1, m) \o SubSeq(v, m + 1, n) = SubSeq(v, 1, n)
  <2>1. 1 \in 1 .. Len(v) + 1 /\ m \in 1 - 1 .. Len(v) /\ n \in m .. Len(v)
    BY <1>1, <1>2
  <2>. QED BY <2>1, ConcatAdjacentSubSeq
<1>. QED BY <1>1, <1>4, <1>5, <1>6, <1>7

LEMMA DropConcat ==
  ASSUME NEW S, NEW x \in Seq(S), NEW y \in Seq(S)
  PROVE  SubSeq(x \o y, 1, Len(x)) = x /\ SubSeq(x \o y, Len(x) + 1, Len(x \o y)) = y
<1>1. PICK m \in Nat, n \in Nat : m = Len(x) /\ n = Len(y)
  OBVIOUS
<1>2. PICK z : z = x \o y
  OBVIOUS
<1>3. /\ z \in Seq(S) /\ Len(z) = m + n
      /\ \A i \in 1 .. m + n : z[i] = IF i <= m THEN x[i] ELSE y[i - m]
  BY <1>1, <1>2, ConcatProperties
<1>4. m \in 0 .. Len(z)
  BY <1>3
<1>5. SubSeq(z, 1, m) = x
  <2>1. PICK a : a = SubSeq(z, 1, m)
    OBVIOUS
  <2>2. a \in Seq(S) /\ Len(a) = m /\ \A i \in 1 .. m : a[i] = z[i]
    BY <1>3, <2>1
  <2>3. \A i \in 1 .. Len(a) : a[i] = x[i]
    BY <1>3, <2>2
  <2>. QED BY <1>1, <2>1, <2>2, <2>3, SeqEqual
<1>6. SubSeq(z, m + 1, m + n) = y
  <2>1. PICK a : a = SubSeq(z, m + 1, m + n)
    OBVIOUS
  <2>2. a \in Seq(S) /\ Len(a) = n /\ \A i \in 1 .. n : a[i] = z[m + i]
    BY <1>3, <2>1
  <2>3. ASSUME NEW i \in 1 .. n PROVE a[i] = y[i]
    <3>1. m + i \in 1 .. m + n /\ ~(m + i <= m) /\ (m + i) - m = i
      OBVIOUS
    <3>. QED BY <1>3, <2>2, <3>1, Zenon
  <2>. QED BY <1>1, <2>1, <2>2, <2>3, SeqEqual
<1>. QED BY <1>1, <1>2, <1>3, <1>5, <1>6

LEMMA StartsIs ==
  ASSUME NEW S, NEW v \in Seq(S), NEW x \in Seq(S)
  PROVE  /\ StartsWith(v, x) => v = x \o After(v, Len(x)) /\ After(v, Len(x)) \in Seq(S)
         /\ \A y \in Seq(S) : v = x \o y => StartsWith(v, x) /\ After(v, Len(x)) = y
<1>1. ASSUME StartsWith(v, x) PROVE v = x \o After(v, Len(x)) /\ After(v, Len(x)) \in Seq(S)
  <2>1. Len(x) \in 0 .. Len(v)
    <3>1. Len(x) \in Nat /\ Len(v) \in Nat
      OBVIOUS
    <3>. QED BY <1>1, <3>1 DEF StartsWith
  <2>2. SubSeq(v, 1, Len(x)) = x
    BY <1>1 DEF StartsWith
  <2>. QED BY <2>1, <2>2, TakeDrop DEF After
<1>2. ASSUME NEW y \in Seq(S), v = x \o y PROVE StartsWith(v, x) /\ After(v, Len(x)) = y
  <2>1. SubSeq(v, 1, Len(x)) = x /\ SubSeq(v, Len(x) + 1, Len(v)) = y
    BY <1>2, DropConcat
  <2>2. Len(x) <= Len(v)
    BY <1>2
  <2>. QED BY <2>1, <2>2, Zenon DEF StartsWith, After
<1>. QED BY <1>1, <1>2

\* Before the first separator, if there is one, and no longer than the buffer.
LEMMA KeyOf ==
  ASSUME NEW S, NEW raw \in Seq(S)
  PROVE  \E m \in 0 .. Len(strip_prefix(raw)) :
           /\ split_key_value(raw).key = SubSeq(strip_prefix(raw), 1, m)
           /\ m < KeyMax
           /\ \/ m = Len(strip_prefix(raw))
              \/ m < Len(strip_prefix(raw)) /\ strip_prefix(raw)[m + 1] = "="
              \/ m = KeyMax - 1
<1>1. PICK t : t = strip_prefix(raw)
  OBVIOUS
<1>2. t \in Seq(S)
  BY <1>1 DEF strip_prefix, After
<1>3. PICK k \in Nat : k = KeyMax - 1 /\ KeyMax = k + 1
  BY ArgsAssumption
<1>4. CASE Positions(t, "=") = {}
  <2>1. PICK m : m = IF k < Len(t) THEN k ELSE Len(t)
    OBVIOUS
  <2>2. split_key_value(raw).key = First(t, k)
    BY <1>1, <1>3, <1>4 DEF split_key_value
  <2>3. First(t, k) = SubSeq(t, 1, m)
    BY <2>1, Zenon DEF First
  <2>4. m \in 0 .. Len(t) /\ m <= k /\ (m = Len(t) \/ m = k)
    <3>1. Len(t) \in Nat
      BY <1>2
    <3>. QED BY <2>1, <3>1
  <2>. QED BY <1>1, <1>3, <2>2, <2>3, <2>4
<1>5. CASE Positions(t, "=") # {}
  <2>1. PICK e \in Positions(t, "=") : e = FirstOf(t, "=")
    <3>1. \E i \in Positions(t, "=") : \A j \in Positions(t, "=") : i <= j
      <4>1. Positions(t, "=") \subseteq Nat
        BY <1>2 DEF Positions
      <4>. QED BY <1>5, <4>1, LeastElement
    <3>. QED BY <3>1, Zenon DEF FirstOf
  <2>2. e \in 1 .. Len(t) /\ t[e] = "=" /\ Len(t) \in Nat
    BY <1>2, <2>1 DEF Positions
  <2>3. PICK d \in 0 .. Len(t) : d = e - 1 /\ d + 1 = e /\ d < Len(t)
    BY <2>2
  <2>4. PICK b : b = First(t, d)
    OBVIOUS
  <2>5. b = SubSeq(t, 1, d) /\ b \in Seq(S) /\ Len(b) = d
    BY <1>2, <2>2, <2>3, <2>4 DEF First
  <2>6. PICK m : m = IF k < Len(b) THEN k ELSE Len(b)
    OBVIOUS
  <2>10. First(b, k) = SubSeq(b, 1, m)
    BY <2>6, Zenon DEF First
  <2>11. m \in 0 .. d /\ m <= k /\ (m = d \/ m = k)
    BY <2>3, <2>5, <2>6
  <2>7. SubSeq(b, 1, m) = SubSeq(t, 1, m)
    BY <1>2, <2>2, <2>3, <2>5, <2>11
  <2>8. split_key_value(raw).key = First(b, k)
    BY <1>1, <1>3, <1>5, <2>1, <2>3, <2>4 DEF split_key_value
  <2>9. m \in 0 .. Len(t) /\ (m = d => m < Len(t) /\ t[m + 1] = "=")
    BY <2>2, <2>3, <2>11
  <2>. QED BY <1>1, <1>3, <2>7, <2>8, <2>9, <2>10, <2>11
<1>. QED BY <1>4, <1>5

LEMMA PrefixOf ==
  ASSUME NEW raw \in Seq(ArgChars)
  PROVE  /\ strip_prefix(raw) \in Seq(ArgChars)
         /\ \E p \in Dashes : p \in Seq(ArgChars) /\ raw = p \o strip_prefix(raw)
<1>1. Dashes \subseteq Seq(ArgChars)
  <2>1. "-" \in ArgChars /\ "/" \in ArgChars
    BY DEF ArgChars
  <2>. QED BY <2>1 DEF Dashes
<1>2. ASSUME NEW p \in Dashes, StartsWith(raw, p) PROVE raw = p \o After(raw, Len(p)) /\ After(raw, Len(p)) \in Seq(ArgChars)
  BY <1>1, <1>2, StartsIs
<1>3. /\ <<>> \in Dashes /\ <<"-">> \in Dashes /\ <<"-", "-">> \in Dashes /\ <<"/">> \in Dashes
      /\ Len(<<"-">>) = 1 /\ Len(<<"-", "-">>) = 2 /\ Len(<<"/">>) = 1
  BY DEF Dashes
<1>4. CASE StartsWith(raw, <<"-", "-">>)
  <2>1. strip_prefix(raw) = After(raw, 2)
    BY <1>4, Zenon DEF strip_prefix
  <2>. QED BY <1>1, <1>2, <1>3, <1>4, <2>1
<1>5. CASE ~StartsWith(raw, <<"-", "-">>) /\ StartsWith(raw, <<"-">>)
  <2>1. strip_prefix(raw) = After(raw, 1)
    BY <1>5, Zenon DEF strip_prefix
  <2>. QED BY <1>1, <1>2, <1>3, <1>5, <2>1
<1>6. CASE ~StartsWith(raw, <<"-", "-">>) /\ StartsWith(raw, <<"/">>)
  <2>1. strip_prefix(raw) = After(raw, 1)
    BY <1>6, Zenon DEF strip_prefix
  <2>. QED BY <1>1, <1>2, <1>3, <1>6, <2>1
<1>7. CASE /\ ~StartsWith(raw, <<"-", "-">>) /\ ~StartsWith(raw, <<"-">>)
           /\ ~StartsWith(raw, <<"/">>)
  <2>1. strip_prefix(raw) = raw
    BY <1>7, Zenon DEF strip_prefix
  <2>2. raw = <<>> \o raw
    OBVIOUS
  <2>. QED BY <1>1, <1>3, <2>1, <2>2
<1>. QED BY <1>4, <1>5, <1>6, <1>7

\* A key stands behind a prefix, whole unless it fills the buffer.
LEMMA KeyStands ==
  ASSUME NEW raw \in Seq(ArgChars), NEW key, key = split_key_value(raw).key
  PROVE  /\ Len(key) < KeyMax
         /\ \E p \in Dashes :
              LET rest == After(raw, Len(p \o key))
              IN  /\ StartsWith(raw, p \o key)
                  /\ rest = <<>> \/ rest[1] = "=" \/ Len(key) = KeyMax - 1
<1>1. PICK t \in Seq(ArgChars) : t = strip_prefix(raw)
  BY PrefixOf
<1>2. PICK p \in Dashes : p \in Seq(ArgChars) /\ raw = p \o t
  BY <1>1, PrefixOf
<1>3. PICK m \in 0 .. Len(t) :
        /\ key = SubSeq(t, 1, m) /\ m < KeyMax
        /\ m = Len(t) \/ (m < Len(t) /\ t[m + 1] = "=") \/ m = KeyMax - 1
  BY <1>1, KeyOf
<1>4. PICK y \in Seq(ArgChars) :
        /\ t = key \o y /\ Len(key) = m /\ key \in Seq(ArgChars)
        /\ (m = Len(t) => y = <<>>) /\ (m < Len(t) => y[1] = t[m + 1])
  <2>1. PICK n \in Nat : n = Len(t)
    OBVIOUS
  <2>2. PICK y : y = SubSeq(t, m + 1, n)
    OBVIOUS
  <2>3. /\ key \in Seq(ArgChars) /\ Len(key) = m /\ t = key \o y
        /\ y \in Seq(ArgChars) /\ Len(y) = n - m
        /\ \A i \in 1 .. n - m : y[i] = t[m + i]
    <3>1. /\ SubSeq(t, 1, m) \in Seq(ArgChars) /\ Len(SubSeq(t, 1, m)) = m
          /\ SubSeq(t, m + 1, Len(t)) \in Seq(ArgChars) /\ Len(SubSeq(t, m + 1, Len(t))) = Len(t) - m
          /\ \A i \in 1 .. Len(t) - m : SubSeq(t, m + 1, Len(t))[i] = t[m + i]
          /\ t = SubSeq(t, 1, m) \o SubSeq(t, m + 1, Len(t))
      BY <1>3, TakeDrop
    <3>2. SubSeq(t, m + 1, Len(t)) = y /\ SubSeq(t, 1, m) = key
      BY <1>3, <2>1, <2>2
    <3>. QED BY <2>1, <3>1, <3>2
  <2>4. m = n => y = <<>>
    BY <2>3
  <2>5. m < n => y[1] = t[m + 1]
    <3>1. m < n => 1 \in 1 .. n - m
      BY <2>1
    <3>. QED BY <2>3, <3>1
  <2>. QED BY <2>1, <2>3, <2>4, <2>5
<1>5. PICK x \in Seq(ArgChars) : x = p \o key
  <2>1. p \o key \in Seq(ArgChars)
    BY <1>2, <1>4, ConcatProperties
  <2>. QED BY <2>1
<1>6. raw = x \o y
  <2>1. Joins(x, p, key) /\ Joins(t, key, y) /\ Joins(raw, p, t)
    BY <1>2, <1>4, <1>5, Zenon DEF Joins
  <2>2. p \in Seq(ArgChars) /\ key \in Seq(ArgChars) /\ y \in Seq(ArgChars)
    BY <1>2, <1>4
  <2>3. Joins(raw, x, y) <=> Joins(raw, p, t)
    BY <2>1, <2>2, JoinsAssociative
  <2>. QED BY <2>1, <2>3, Zenon DEF Joins
<1>7. StartsWith(raw, x)
  BY <1>6, StartsIs
<1>8. After(raw, Len(x)) = y
  BY <1>6, StartsIs
<1>9. y = <<>> \/ y[1] = "=" \/ Len(key) = KeyMax - 1
  BY <1>3, <1>4
<1>10. After(raw, Len(p \o key)) = y /\ StartsWith(raw, p \o key)
  BY <1>5, <1>7, <1>8
<1>. QED BY <1>2, <1>3, <1>4, <1>9, <1>10, Zenon

LEMMA KeysFound ==
  ASSUME LineInv, kind = "args"
  PROVE  KeysAgree
<1>1. PICK v \in Seq(Seq(ArgChars)) : v = argv
  BY ArgvIn
<1>2. PICK n \in Nat : n = Len(v)
  OBVIOUS
<1>3. SUFFICES ASSUME NEW arg
      PROVE  /\ arg_is_present(arg, v) <=>
                  \E k \in 0 .. Len(v) : arg_is_present_at_nth_position(arg, k, v)
             /\ \A value :
                  /\ arg_is_present_with_value(arg, value, v) => arg_is_present(arg, v)
                  /\ config_arg_is_val(arg, value, v) /\ value # <<>> =>
                       arg_is_present_with_value(arg, value, v)
                  /\ arg_is_present_with_value(arg, value, v) /\ Cardinality(Where(arg, v)) = 1 =>
                       config_arg_is_val(arg, value, v)
             /\ arg_is_present(arg, v) =>
                  /\ Len(arg) < KeyMax
                  /\ \E i \in DOMAIN v, p \in Dashes :
                       LET rest == After(v[i], Len(p \o arg))
                       IN  /\ StartsWith(v[i], p \o arg)
                           /\ rest = <<>> \/ rest[1] = "=" \/ Len(arg) = KeyMax - 1
  BY <1>1, Zenon DEF KeysAgree
<1>4. PICK W : W = Where(arg, v)
  OBVIOUS
<1>5. W = {i \in 2 .. n : Key(v, i) = arg} /\ W \subseteq Nat
  BY <1>2, <1>4 DEF Where
<1>6. arg_is_present(arg, v) <=> \E k \in 0 .. Len(v) : arg_is_present_at_nth_position(arg, k, v)
  <2>1. arg_is_present(arg, v) <=> \E i \in 2 .. n : Key(v, i) = arg
    BY <1>4, <1>5, Zenon DEF arg_is_present
  <2>2. \A k : arg_is_present_at_nth_position(arg, k, v) <=> k \in 1 .. n - 1 /\ Key(v, k + 1) = arg
    BY <1>2, Zenon DEF arg_is_present_at_nth_position
  <2>3. ASSUME NEW i \in 2 .. n, Key(v, i) = arg
        PROVE  \E k \in 0 .. n : k \in 1 .. n - 1 /\ Key(v, k + 1) = arg
    <3>1. i - 1 \in 0 .. n /\ i - 1 \in 1 .. n - 1 /\ (i - 1) + 1 = i
      BY <2>3
    <3>. QED BY <2>3, <3>1, Zenon
  <2>4. ASSUME NEW k \in 1 .. n - 1 PROVE k + 1 \in 2 .. n
    OBVIOUS
  <2>. QED BY <1>2, <2>1, <2>2, <2>3, <2>4, Zenon
<1>7. ASSUME NEW i \in W, W = {i} \/ \A j \in W : i <= j
      PROVE  get_arg_value(arg, v) = Value(v, i)
  <2>1. \A j \in W : (\A k \in W : j <= k) => j = i
    <3>1. CASE W = {i}
      BY <3>1
    <3>2. CASE \A j \in W : i <= j
      BY <1>5, <3>2
    <3>. QED BY <1>7, <3>1, <3>2
  <2>2. \A j \in W : i <= j
    <3>1. i <= i
      BY <1>5
    <3>. QED BY <1>7, <3>1
  <2>3. i = CHOOSE j \in W : \A k \in W : j <= k
    BY <2>1, <2>2
  <2>4. W # {}
    OBVIOUS
  <2>. QED BY <1>4, <2>3, <2>4, Zenon DEF get_arg_value
<1>8. ASSUME NEW value
      PROVE  /\ arg_is_present_with_value(arg, value, v) => arg_is_present(arg, v)
             /\ config_arg_is_val(arg, value, v) /\ value # <<>> =>
                  arg_is_present_with_value(arg, value, v)
             /\ arg_is_present_with_value(arg, value, v) /\ Cardinality(Where(arg, v)) = 1 =>
                  config_arg_is_val(arg, value, v)
  <2>1. arg_is_present_with_value(arg, value, v) => arg_is_present(arg, v)
    BY Zenon DEF arg_is_present_with_value, arg_is_present
  <2>2. ASSUME config_arg_is_val(arg, value, v), value # <<>>
        PROVE  arg_is_present_with_value(arg, value, v)
    <3>1. get_arg_value(arg, v) = value
      BY <2>2 DEF config_arg_is_val
    <3>2. W # {}
      BY <1>4, <2>2, <3>1, Zenon DEF get_arg_value
    <3>3. PICK i \in W : \A j \in W : i <= j
      BY <1>5, <3>2, LeastElement
    <3>4. Value(v, i) = value
      BY <1>7, <3>1, <3>3
    <3>. QED BY <1>4, <3>4, Zenon DEF arg_is_present_with_value
  <2>3. ASSUME arg_is_present_with_value(arg, value, v), Cardinality(Where(arg, v)) = 1
        PROVE  config_arg_is_val(arg, value, v)
    <3>1. PICK i \in W : Value(v, i) = value
      BY <1>4, <2>3 DEF arg_is_present_with_value
    <3>2. IsFiniteSet(W)
      <4>1. IsFiniteSet(2 .. n)
        BY FS_Interval
      <4>2. W \subseteq 2 .. n
        BY <1>5
      <4>. QED BY <4>1, <4>2, FS_Subset
    <3>3. W = {i}
      <4>1. Cardinality(W) = 1
        BY <1>4, <2>3
      <4>2. \E x : W = {x}
        BY <3>2, <4>1, FS_Singleton
      <4>. QED BY <4>2
    <3>4. get_arg_value(arg, v) = value
      BY <1>7, <3>1, <3>3
    <3>. QED BY <3>4 DEF config_arg_is_val
  <2>. QED BY <2>1, <2>2, <2>3
<1>9. ASSUME arg_is_present(arg, v)
      PROVE  /\ Len(arg) < KeyMax
             /\ \E i \in DOMAIN v, p \in Dashes :
                  LET rest == After(v[i], Len(p \o arg))
                  IN  /\ StartsWith(v[i], p \o arg)
                      /\ rest = <<>> \/ rest[1] = "=" \/ Len(arg) = KeyMax - 1
  <2>1. PICK i \in 2 .. n : Key(v, i) = arg
    BY <1>4, <1>5, <1>9, Zenon DEF arg_is_present
  <2>2. i \in DOMAIN v
    BY <1>2
  <2>3. PICK raw : raw = v[i]
    OBVIOUS
  <2>4. raw \in Seq(ArgChars) /\ arg = split_key_value(raw).key
    <3>1. raw \in Seq(ArgChars)
      BY <2>2, <2>3
    <3>2. arg = split_key_value(raw).key
      BY <2>1, <2>3, Zenon DEF Key
    <3>. QED BY <3>1, <3>2
  <2>5. /\ Len(arg) < KeyMax
        /\ \E p \in Dashes :
             LET rest == After(raw, Len(p \o arg))
             IN  /\ StartsWith(raw, p \o arg)
                 /\ rest = <<>> \/ rest[1] = "=" \/ Len(arg) = KeyMax - 1
    BY <2>4, KeyStands, Zenon
  <2>. QED BY <2>2, <2>3, <2>5, Zenon
<1>. QED BY <1>6, <1>8, <1>9

LEMMA AfterIn ==
  ASSUME NEW S, NEW v \in Seq(S), NEW k \in Nat
  PROVE  After(v, k) \in Seq(S)
<1>1. PICK n \in Nat : n = Len(v)
  OBVIOUS
<1>2. PICK m \in Nat : m = k + 1 /\ m >= 1
  OBVIOUS
<1>3. SubSeq(v, m, n) \in Seq(S)
  BY <1>1, <1>2
<1>. QED BY <1>1, <1>2, <1>3, Zenon DEF After

\* The arguments, of which the program's name may be one, and what they are joined to.
JoinedTo(v, c, skip, args, list) ==
  /\ args = After(v, IF skip THEN 1 ELSE 0)
  /\ list = all_args_to_string(v, c, skip)

\* None of them has the separator.
Unparted(args, c) == \A i \in DOMAIN args : Positions(args[i], c) = {}

\* The arguments joined: the first i of them, and a separator behind unless they are all.
LEMMA JoinIs ==
  ASSUME NEW S, NEW c \in S, NEW v \in Seq(Seq(S)), NEW skip,
         NEW args, NEW list, JoinedTo(v, c, skip, args, list)
  PROVE  \E h \in [0 .. Len(args) -> Seq(S)] :
           /\ \A i \in 0 .. Len(args) :
                h[i] = IF i = 0 THEN <<>>
                       ELSE h[i - 1] \o args[i] \o (IF i < Len(args) THEN <<c>> ELSE <<>>)
           /\ list = h[Len(args)]
<1>1. args \in Seq(Seq(S))
  <2>1. (IF skip THEN 1 ELSE 0) \in Nat
    OBVIOUS
  <2>. QED BY <2>1, AfterIn DEF JoinedTo
<1>. DEFINE n == Len(args)
            Behind(i) == IF i < n THEN <<c>> ELSE <<>>
            More(x, i) == x \o args[i] \o Behind(i)
            P == Seq(S)
            F == [i \in 1 .. n |-> [x \in P |-> More(x, i)]]
            Upto(f) == f = [i \in 0 .. n |-> IF i = 0 THEN <<>> ELSE More(f[i - 1], i)]
            upto == CHOOSE f : Upto(f)
<1>2. n \in Nat /\ \A i \in 1 .. n : args[i] \in P
  BY <1>1
<1>3. \A i \in 1 .. n, x \in P : F[i][x] = More(x, i) /\ F[i][x] \in P
  <2>1. ASSUME NEW i \in 1 .. n, NEW x \in P PROVE More(x, i) \in P
    <3>1. PICK a \in Seq(S), t \in Seq(S) : a = args[i] /\ t = Behind(i)
      <4>1. Behind(i) \in Seq(S)
        OBVIOUS
      <4>. QED BY <1>2, <4>1
    <3>2. x \o a \o t \in Seq(S)
      OBVIOUS
    <3>. QED BY <3>1, <3>2
  <2>. HIDE DEF More
  <2>. QED BY <2>1
<1>4. list = upto[n]
  BY Zenon DEF all_args_to_string, JoinedTo
<1>5. <<>> \in P
  OBVIOUS
<1>. HIDE DEF F, P, More, n
<1>6. PICK h : Folds(h, n, P, <<>>, F)
  <2>1. Foldable(n, P, <<>>, F)
    BY <1>2, <1>3, <1>5 DEF Foldable
  <2>. QED BY <2>1, FoldExists
<1>7. \A i \in 1 .. n : i \in 0 .. n /\ i - 1 \in 0 .. n /\ i # 0
  BY <1>2
<1>8. \A i \in 0 .. n : h[i] = IF i = 0 THEN <<>> ELSE More(h[i - 1], i)
  <2>1. \A i \in 0 .. n : i # 0 => i \in 1 .. n
    BY <1>2
  <2>2. \A i \in 1 .. n : h[i - 1] \in P
    BY <1>6, <1>7, Zenon DEF Folds
  <2>. QED BY <1>3, <1>6, <2>1, <2>2, Zenon DEF Folds
<1>9. h \in [0 .. n -> P]
  BY <1>6 DEF Folds
<1>10. Upto(h)
  BY <1>8, <1>9
<1>11. Upto(upto)
  BY <1>10, Zenon
<1>. HIDE DEF upto
<1>12. \A i \in 0 .. n : upto[i] = IF i = 0 THEN <<>> ELSE More(upto[i - 1], i)
  BY <1>11, Zenon
<1>13. 0 \in 0 .. n /\ n \in 0 .. n
  BY <1>2
<1>14. \A i \in 0 .. n : upto[i] = h[i]
  <2>1. upto[0] = h[0]
    BY <1>8, <1>12, <1>13, Zenon
  <2>2. \A i \in 1 .. n : upto[i - 1] = h[i - 1] => upto[i] = h[i]
    BY <1>7, <1>8, <1>12, Zenon
  <2>3. Together(n, upto, h)
    BY <1>2, <2>1, <2>2, Zenon DEF Together
  <2>. QED BY <2>3, Stepwise
<1>. QED BY <1>4, <1>8, <1>9, <1>13, <1>14, Zenon DEF More, n, P

LEMMA OneLong ==
  ASSUME NEW S, NEW z \in Seq(S), Len(z) = 1
  PROVE  z = <<z[1]>>
<1>1. PICK a : a = z[1]
  OBVIOUS
<1>2. a \in S /\ <<a>> \in Seq(S) /\ Len(<<a>>) = 1 /\ <<a>>[1] = a
  <2>1. 1 \in 1 .. Len(z)
    OBVIOUS
  <2>2. z[1] \in S
    BY <2>1, ElementOfSeq
  <2>3. a \in S
    BY <1>1, <2>2
  <2>. QED BY <2>3
<1>3. \A i \in 1 .. Len(z) : z[i] = <<a>>[i]
  BY <1>1, <1>2
<1>. QED BY <1>1, <1>2, <1>3, SeqEqual

\* They are the pieces of what they are joined to.
LEMMA JoinedApart ==
  ASSUME NEW S, NEW c \in S, NEW v \in Seq(Seq(S)), NEW skip,
         NEW args, NEW list, JoinedTo(v, c, skip, args, list),
         Unparted(args, c)
  PROVE  /\ list \in Seq(S)
         /\ args # <<>> => Pieces(list, c) = args
         /\ args = <<>> => list = <<>>
<1>1. args \in Seq(Seq(S))
  <2>1. (IF skip THEN 1 ELSE 0) \in Nat
    OBVIOUS
  <2>. QED BY <2>1, AfterIn DEF JoinedTo
<1>2. PICK n \in Nat : n = Len(args)
  BY <1>1
<1>3. PICK h \in [0 .. n -> Seq(S)] :
        /\ \A i \in 0 .. n :
             h[i] = IF i = 0 THEN <<>> ELSE h[i - 1] \o args[i] \o (IF i < n THEN <<c>> ELSE <<>>)
        /\ list = h[n]
  BY <1>2, JoinIs
<1>. DEFINE Joined(i) == \E x \in Seq(S) :
                           /\ h[i] = IF i < n THEN x \o <<c>> ELSE x
                           /\ Pieces(x, c) = SubSeq(args, 1, i)
            A == {i \in 0 .. n : i # 0 => Joined(i)}
<1>4. 0 \in A
  OBVIOUS
<1>5. ASSUME NEW i \in 1 .. n, i - 1 \in A PROVE i \in A
  <2>0. i \in 0 .. n /\ i # 0 /\ i - 1 < n /\ i - 1 \in 0 .. n
    BY <1>2
  <2>1. PICK a \in Seq(S) : a = args[i]
    BY <1>1, <1>2
  <2>2. Pieces(a, c) = <<a>>
    <3>1. Positions(a, c) = {}
      <4>1. i \in DOMAIN args
        BY <1>1, <1>2
      <4>. QED BY <2>1, <4>1, Zenon DEF Unparted
    <3>. QED BY <3>1, PiecesOne
  <2>3. h[i] = h[i - 1] \o a \o (IF i < n THEN <<c>> ELSE <<>>)
    BY <1>3, <2>0, <2>1, Zenon
  <2>4. CASE i = 1
    <3>1. h[i] = <<>> \o a \o (IF i < n THEN <<c>> ELSE <<>>)
      <4>1. i - 1 = 0
        BY <2>4
      <4>2. h[0] = <<>>
        <5>1. 0 \in 0 .. n
          OBVIOUS
        <5>. QED BY <1>3, <5>1, Zenon
      <4>. QED BY <2>3, <4>1, <4>2, Zenon
    <3>2. h[i] = IF i < n THEN a \o <<c>> ELSE a
      <4>1. <<>> \o a = a /\ a \o <<>> = a
        OBVIOUS
      <4>. QED BY <3>1, <4>1, Zenon
    <3>3. SubSeq(args, 1, i) = <<a>>
      <4>1. PICK z : z = SubSeq(args, 1, 1)
        OBVIOUS
      <4>2. 1 \in 1 .. n /\ args[1] = a
        BY <2>1, <2>4
      <4>3. z \in Seq(Seq(S)) /\ Len(z) = 1 /\ z[1] = args[1]
        BY <1>1, <1>2, <4>1, <4>2
      <4>4. z = <<a>>
        BY <4>2, <4>3, OneLong
      <4>. QED BY <2>4, <4>1, <4>4, Zenon
    <3>. QED BY <2>0, <2>2, <3>2, <3>3
  <2>5. CASE i # 1
    <3>1. PICK x \in Seq(S) :
            h[i - 1] = (IF i - 1 < n THEN x \o <<c>> ELSE x) /\ Pieces(x, c) = SubSeq(args, 1, i - 1)
      <4>1. i - 1 # 0
        BY <2>5
      <4>. QED BY <1>5, <4>1
    <3>2. PICK y \in Seq(S) : y = x \o <<c>> \o a
      <4>1. x \o <<c>> \o a \in Seq(S)
        OBVIOUS
      <4>. QED BY <4>1
    <3>3. h[i] = y \o (IF i < n THEN <<c>> ELSE <<>>)
      BY <2>0, <2>3, <3>1, <3>2, Zenon
    <3>4. h[i] = IF i < n THEN y \o <<c>> ELSE y
      <4>1. y \o <<>> = y
        OBVIOUS
      <4>. QED BY <3>3, <4>1, Zenon
    <3>5. Pieces(y, c) = SubSeq(args, 1, i - 1) \o <<a>>
      <4>1. Pieces(y, c) = Pieces(x, c) \o Pieces(a, c)
        <5>1. x \in Seq(S) /\ a \in Seq(S) /\ c \in S
          OBVIOUS
        <5>2. Joins(Pieces(x \o <<c>> \o a, c), Pieces(x, c), Pieces(a, c))
          BY <5>1, PiecesConcat
        <5>. QED BY <3>2, <5>2, Zenon DEF Joins
      <4>. QED BY <2>2, <3>1, <4>1, Zenon
    <3>6. SubSeq(args, 1, i - 1) \o <<a>> = SubSeq(args, 1, i)
      <4>1. SubSeq(args, 1, i - 1) \in Seq(Seq(S))
        <5>1. i - 1 \in 0 .. Len(args)
          BY <1>2
        <5>. QED BY <1>1, <5>1, TakeDrop
      <4>2. SubSeq(args, 1, i) = Append(SubSeq(args, 1, i - 1), args[i])
        BY <1>1, <1>2
      <4>. QED BY <2>1, <4>1, <4>2, AppendIsConcat
    <3>. QED BY <2>0, <3>4, <3>5, <3>6
  <2>. QED BY <2>4, <2>5
<1>6. n \in A
  <2>. HIDE DEF A
  <2>1. n \in 0 .. n
    OBVIOUS
  <2>. QED BY <1>4, <1>5, <2>1, Along
<1>7. list \in Seq(S)
  <2>1. n \in 0 .. n
    OBVIOUS
  <2>. QED BY <1>3, <2>1
<1>8. ASSUME args # <<>> PROVE Pieces(list, c) = args
  <2>1. n # 0 /\ ~(n < n)
    BY <1>1, <1>2, <1>8
  <2>2. PICK x \in Seq(S) : h[n] = x /\ Pieces(x, c) = SubSeq(args, 1, n)
    BY <1>6, <2>1
  <2>3. SubSeq(args, 1, n) = args
    BY <1>1, <1>2
  <2>. QED BY <1>3, <2>2, <2>3
<1>9. ASSUME args = <<>> PROVE list = <<>>
  <2>1. n = 0
    BY <1>2, <1>9
  <2>2. h[0] = <<>>
    <3>1. 0 \in 0 .. n
      OBVIOUS
    <3>. QED BY <1>3, <3>1, Zenon
  <2>. QED BY <1>3, <2>1, <2>2
<1>. QED BY <1>7, <1>8, <1>9

\* What is between the elements of a list.
Comma == ","

LEMMA ListFound ==
  ASSUME NEW v \in Seq(Seq(ArgChars)), NEW skip,
         NEW args, NEW list, JoinedTo(v, Comma, skip, args, list),
         Unparted(args, Comma)
  PROVE  /\ args # <<>> => Pieces(list, Comma) = args
         /\ Len(list) < ListMax =>
              \A arg : arg # <<>> =>
                (arg_is_in_list(arg, list) <=> \E i \in DOMAIN args : args[i] = arg)
<1>1. Comma \in ArgChars
  <2>1. "," \in ArgChars
    BY DEF ArgChars
  <2>. QED BY <2>1, Zenon DEF Comma
<1>2. list \in Seq(ArgChars)
  BY <1>1, JoinedApart
<1>3. (args # <<>> => Pieces(list, Comma) = args) /\ (args = <<>> => list = <<>>)
  BY <1>1, JoinedApart
<1>4. ASSUME Len(list) < ListMax, NEW arg, arg # <<>>
      PROVE  arg_is_in_list(arg, list) <=> \E i \in DOMAIN args : args[i] = arg
  <2>1. First(list, ListMax - 1) = list
    <3>1. PICK m \in Nat : m = Len(list)
      BY <1>2
    <3>2. PICK k \in Nat : k = ListMax - 1 /\ m <= k
      BY <1>4, <3>1, ArgsAssumption
    <3>3. (IF k < m THEN k ELSE m) = m
      BY <3>2
    <3>4. SubSeq(list, 1, m) = list
      BY <1>2, <3>1, SubSeqFull
    <3>. QED BY <3>1, <3>2, <3>3, <3>4, Zenon DEF First
  <2>2. PICK t : t = Pieces(list, Comma)
    OBVIOUS
  <2>3. arg_is_in_list(arg, list) <=> \E k \in DOMAIN t : t[k] = arg
    BY <1>4, <2>1, <2>2, Zenon DEF arg_is_in_list, Comma
  <2>4. CASE args # <<>>
    BY <1>3, <2>2, <2>3, <2>4, Zenon
  <2>5. CASE args = <<>>
    <3>1. t = << <<>> >>
      BY <1>3, <2>2, <2>5, PiecesNone
    <3>2. ~ \E k \in DOMAIN t : t[k] = arg
      BY <1>4, <3>1
    <3>3. ~ \E i \in DOMAIN args : args[i] = arg
      BY <2>5
    <3>. QED BY <2>3, <3>2, <3>3
  <2>. QED BY <2>4, <2>5
<1>. QED BY <1>3, <1>4

LEMMA ListsFound ==
  ASSUME LineInv, kind = "args"
  PROVE  ListsAgree
<1>1. PICK v \in Seq(Seq(ArgChars)) : v = argv
  BY ArgvIn
<1>2. ASSUME NEW skip \in BOOLEAN
      PROVE  LET args == After(v, IF skip THEN 1 ELSE 0)
                 list == all_args_to_string(v, Comma, skip)
             IN  (\A i \in DOMAIN args : Positions(args[i], Comma) = {}) =>
                   /\ args # <<>> => Pieces(list, Comma) = args
                   /\ Len(list) < ListMax =>
                        \A arg \in Asked \ {<<>>} :
                          arg_is_in_list(arg, list) <=> \E i \in DOMAIN args : args[i] = arg
  <2>1. PICK args : args = After(v, IF skip THEN 1 ELSE 0)
    OBVIOUS
  <2>2. PICK list : list = all_args_to_string(v, Comma, skip)
    OBVIOUS
  <2>3. ASSUME \A i \in DOMAIN args : Positions(args[i], Comma) = {}
        PROVE  /\ args # <<>> => Pieces(list, Comma) = args
               /\ Len(list) < ListMax =>
                    \A arg : arg # <<>> =>
                      (arg_is_in_list(arg, list) <=> \E i \in DOMAIN args : args[i] = arg)
    <3>1. Unparted(args, Comma)
      BY <2>3 DEF Unparted
    <3>2. JoinedTo(v, Comma, skip, args, list)
      BY <2>1, <2>2, Zenon DEF JoinedTo
    <3>. QED BY <3>1, <3>2, ListFound
  <2>. QED BY <2>1, <2>2, <2>3, Zenon
<1>. QED BY <1>1, <1>2, Zenon DEF ListsAgree, Comma

\* The questions about the arguments of a command line, and about a list of them, agree,
\* whatever is typed.
THEOREM FindsArguments == LineSpec => []ArgsAgree
<1>1. LineInv => ArgsAgree
  BY KeysFound, ListsFound DEF ArgsAgree
<1>. QED BY <1>1, LineInvariant, PTL

-----------------------------------------------------------------------------
(* path_utils.c: where paths lead *)

\* The characters of paths: those of the names there are, and those that are typed.
PathChars == STRING \cup Typed["path"] \cup {"/", "~"}

Places == Dirs \cup Regular \cup {Nowhere}

LEMMA NowhereIsNoPlace == Nowhere \notin Dirs /\ Nowhere \notin Regular
BY PathsAssumption, Zenon

LEMMA StepIs ==
  ASSUME NEW at, NEW name
  PROVE  /\ at \notin Dirs => Step(at, name) = Nowhere
         /\ at \in Dirs => Step(at, <<>>) = at
         /\ at \in Dirs /\ IsName(name) /\ Append(at, name) \in Dirs \cup Regular =>
              Step(at, name) = Append(at, name)
         /\ Step(at, name) \in Places
<1>1. at \notin Dirs => Step(at, name) = Nowhere
  BY Zenon DEF Step
<1>2. at \in Dirs => Step(at, <<>>) = at
  BY Zenon DEF Step
<1>3. ASSUME at \in Dirs, IsName(name), Append(at, name) \in Dirs \cup Regular
      PROVE  Step(at, name) = Append(at, name)
  <2>1. name \notin {<<>>, <<".">>, <<".", ".">>}
    BY <1>3, Zenon DEF IsName
  <2>. QED BY <1>3, <2>1, Zenon DEF Step
<1>4. Step(at, name) \in Places
  <2>1. CASE at \notin Dirs
    BY <1>1, <2>1, Zenon DEF Places
  <2>2. CASE at \in Dirs /\ name \in {<<>>, <<".">>}
    <3>1. Step(at, name) = at
      <4>1. ~(at \notin Dirs)
        BY <2>2
      <4>2. name # <<".", ".">>
        BY <2>2
      <4>. QED BY <2>2, <4>1, <4>2, Zenon DEF Step
    <3>. QED BY <2>2, <3>1 DEF Places
  <2>3. CASE at \in Dirs /\ name = <<".", ".">>
    <3>1. name \notin {<<>>, <<".">>}
      BY <2>3
    <3>2. Step(at, name) = IF at = <<>> THEN at ELSE Front(at)
      BY <2>3, <3>1, Zenon DEF Step
    <3>3. at # <<>> => Front(at) \in Dirs
      BY <2>3, PathsAssumption, Zenon
    <3>. QED BY <2>3, <3>2, <3>3 DEF Places
  <2>4. CASE at \in Dirs /\ name \notin {<<>>, <<".">>} /\ name # <<".", ".">>
    <3>1. PICK there : there = Append(at, name)
      OBVIOUS
    <3>2. Step(at, name) = IF there \in Dirs \cup Regular THEN there
                           ELSE IF there \in DOMAIN Links THEN Links[there]
                           ELSE Nowhere
      BY <2>4, <3>1, Zenon DEF Step
    <3>3. there \in DOMAIN Links => Links[there] \in Dirs \cup Regular
      BY PathsAssumption, Zenon
    <3>. QED BY <3>2, <3>3, Zenon DEF Places
  <2>. QED BY <2>1, <2>2, <2>3, <2>4
<1>. QED BY <1>1, <1>2, <1>3, <1>4

\* The places on the way.
Way(h, at, names) ==
  \A i \in 0 .. Len(names) : h[i] = IF i = 0 THEN at ELSE Step(h[i - 1], names[i])

LEMMA WalkIs ==
  ASSUME NEW S, NEW at \in Places, NEW names \in Seq(S)
  PROVE  \E h \in [0 .. Len(names) -> Places] :
           Way(h, at, names) /\ h[Len(names)] = Walk(at, names)
<1>. DEFINE n == Len(names)
            F == [i \in 1 .. n |-> [p \in Places |-> Step(p, names[i])]]
            Upto(f) == f = [i \in 0 .. n |-> IF i = 0 THEN at ELSE Step(f[i - 1], names[i])]
            upto == CHOOSE f : Upto(f)
<1>1. n \in Nat
  OBVIOUS
<1>2. \A i \in 1 .. n, p \in Places : F[i][p] = Step(p, names[i]) /\ F[i][p] \in Places
  BY StepIs, Zenon
<1>3. Walk(at, names) = upto[n]
  BY Zenon DEF Walk
<1>. HIDE DEF n, F
<1>5. PICK h : Folds(h, n, Places, at, F)
  <2>1. Foldable(n, Places, at, F)
    BY <1>1, <1>2 DEF Foldable
  <2>. QED BY <2>1, FoldExists
<1>6. \A i \in 1 .. n : i \in 0 .. n /\ i - 1 \in 0 .. n /\ i # 0
  BY <1>1
<1>7. \A i \in 0 .. n : h[i] = IF i = 0 THEN at ELSE Step(h[i - 1], names[i])
  <2>1. \A i \in 0 .. n : i # 0 => i \in 1 .. n
    BY <1>1
  <2>2. \A i \in 1 .. n : h[i - 1] \in Places
    BY <1>5, <1>6, Zenon DEF Folds
  <2>. QED BY <1>2, <1>5, <2>1, <2>2, Zenon DEF Folds
<1>8. h \in [0 .. n -> Places]
  BY <1>5 DEF Folds
<1>9. Upto(h)
  BY <1>7, <1>8
<1>10. Upto(upto)
  BY <1>9, Zenon
<1>. HIDE DEF upto
<1>11. \A i \in 0 .. n : upto[i] = IF i = 0 THEN at ELSE Step(upto[i - 1], names[i])
  BY <1>10, Zenon
<1>12. 0 \in 0 .. n /\ n \in 0 .. n
  BY <1>1
<1>13. \A i \in 0 .. n : upto[i] = h[i]
  <2>1. upto[0] = h[0]
    BY <1>7, <1>11, <1>12, Zenon
  <2>2. \A i \in 1 .. n : upto[i - 1] = h[i - 1] => upto[i] = h[i]
    BY <1>6, <1>7, <1>11, Zenon
  <2>3. Together(n, upto, h)
    BY <1>1, <2>1, <2>2, Zenon DEF Together
  <2>. QED BY <2>3, Stepwise
<1>. QED BY <1>3, <1>7, <1>8, <1>12, <1>13, Zenon DEF Way, n

LEMMA WalkNone ==
  ASSUME NEW at \in Places
  PROVE  Walk(at, <<>>) = at
<1>1. <<>> \in Seq({}) /\ Len(<<>>) = 0
  OBVIOUS
<1>2. PICK h : Way(h, at, <<>>) /\ h[0] = Walk(at, <<>>)
  BY <1>1, WalkIs
<1>. QED BY <1>1, <1>2 DEF Way

LEMMA WalkIn ==
  ASSUME NEW S, NEW at \in Places, NEW names \in Seq(S)
  PROVE  Walk(at, names) \in Places
<1>1. Len(names) \in 0 .. Len(names)
  OBVIOUS
<1>. QED BY <1>1, WalkIs

LEMMA WalkAppend ==
  ASSUME NEW S, NEW at \in Places, NEW v \in Seq(S), NEW x \in S
  PROVE  Walk(at, Append(v, x)) = Step(Walk(at, v), x)
<1>1. PICK w : w = Append(v, x)
  OBVIOUS
<1>2. PICK n \in Nat : n = Len(v)
  OBVIOUS
<1>3. w \in Seq(S) /\ Len(w) = n + 1 /\ w[n + 1] = x /\ \A i \in 1 .. n : w[i] = v[i]
  BY <1>1, <1>2, AppendProperties
<1>4. PICK g : Way(g, at, v) /\ g[n] = Walk(at, v)
  BY <1>2, WalkIs
<1>5. PICK h : Way(h, at, w) /\ h[n + 1] = Walk(at, w)
  BY <1>3, WalkIs
<1>6. \A i \in 0 .. n : g[i] = IF i = 0 THEN at ELSE Step(g[i - 1], v[i])
  BY <1>2, <1>4 DEF Way
<1>7. \A i \in 0 .. n + 1 : h[i] = IF i = 0 THEN at ELSE Step(h[i - 1], w[i])
  BY <1>3, <1>5 DEF Way
<1>8. /\ \A i \in 1 .. n : i \in 0 .. n /\ i \in 0 .. n + 1 /\ i # 0
      /\ 0 \in 0 .. n /\ 0 \in 0 .. n + 1 /\ n \in 0 .. n
      /\ n + 1 \in 0 .. n + 1 /\ n + 1 # 0 /\ (n + 1) - 1 = n
  OBVIOUS
<1>9. \A i \in 0 .. n : g[i] = h[i]
  <2>1. g[0] = h[0]
    BY <1>6, <1>7, <1>8, Zenon
  <2>2. \A i \in 1 .. n : g[i - 1] = h[i - 1] => g[i] = h[i]
    BY <1>3, <1>6, <1>7, <1>8, Zenon
  <2>3. Together(n, g, h)
    BY <2>1, <2>2, Zenon DEF Together
  <2>. QED BY <2>3, Stepwise
<1>10. h[n + 1] = Step(h[n], x)
  BY <1>3, <1>7, <1>8, Zenon
<1>. QED BY <1>1, <1>4, <1>5, <1>8, <1>9, <1>10, Zenon

\* A walk goes on where it was.
LEMMA WalkJoin ==
  ASSUME NEW S, NEW at \in Places, NEW p \in Seq(S), NEW q \in Seq(S), NEW w, Joins(w, p, q)
  PROVE  Walk(at, w) = Walk(Walk(at, p), q)
<1>. DEFINE A == {r \in Seq(S) : Walk(at, p \o r) = Walk(Walk(at, p), r)}
<1>1. Walk(at, p) \in Places
  BY WalkIn
<1>2. <<>> \in A
  <2>1. p \o <<>> = p
    BY ConcatEmptySeq
  <2>2. Walk(Walk(at, p), <<>>) = Walk(at, p)
    BY <1>1, WalkNone
  <2>3. <<>> \in Seq(S)
    OBVIOUS
  <2>. QED BY <2>1, <2>2, <2>3, Zenon
<1>3. ASSUME NEW r \in Seq(S), NEW x \in S, r \in A PROVE Append(r, x) \in A
  <2>1. PICK u \in Seq(S) : u = p \o r
    <3>1. p \o r \in Seq(S)
      BY ConcatProperties
    <3>. QED BY <3>1
  <2>2. p \o Append(r, x) = Append(u, x)
    BY <2>1
  <2>3. Walk(at, Append(u, x)) = Step(Walk(at, u), x)
    BY WalkAppend
  <2>4. Walk(Walk(at, p), Append(r, x)) = Step(Walk(Walk(at, p), r), x)
    BY <1>1, WalkAppend
  <2>5. Append(r, x) \in Seq(S)
    OBVIOUS
  <2>6. Walk(at, p \o r) = Walk(Walk(at, p), r)
    BY <1>3
  <2>. QED BY <2>1, <2>2, <2>3, <2>4, <2>5, <2>6, Zenon
<1>4. q \in A
  <2>. HIDE DEF A
  <2>. QED BY <1>2, <1>3, Longer
<1>. QED BY <1>4, Zenon DEF Joins

LEMMA WalkOne ==
  ASSUME NEW at \in Places, NEW x
  PROVE  Walk(at, <<x>>) = Step(at, x)
<1>1. x \in {x} /\ <<>> \in Seq({x}) /\ Append(<<>>, x) = <<x>>
  OBVIOUS
<1>2. Walk(at, Append(<<>>, x)) = Step(Walk(at, <<>>), x)
  BY <1>1, WalkAppend
<1>. QED BY <1>1, <1>2, WalkNone

\* From what is no directory, nothing leads on.
LEMMA WalkLost ==
  ASSUME NEW S, NEW at \in Places, at \notin Dirs, NEW q \in Seq(S), q # <<>>
  PROVE  Walk(at, q) = Nowhere
<1>. DEFINE A == {r \in Seq(S) : r # <<>> => Walk(at, r) = Nowhere}
<1>1. <<>> \in A
  OBVIOUS
<1>2. ASSUME NEW r \in Seq(S), NEW x \in S, r \in A PROVE Append(r, x) \in A
  <2>1. Walk(at, r) \notin Dirs
    <3>1. CASE r = <<>>
      BY <3>1, WalkNone
    <3>2. CASE r # <<>>
      BY <1>2, <3>2, NowhereIsNoPlace
    <3>. QED BY <3>1, <3>2
  <2>2. Walk(at, Append(r, x)) = Step(Walk(at, r), x)
    BY WalkAppend
  <2>3. Append(r, x) \in Seq(S)
    OBVIOUS
  <2>4. Walk(at, Append(r, x)) = Nowhere
    BY <2>1, <2>2, StepIs
  <2>. QED BY <2>3, <2>4
<1>3. q \in A
  <2>. HIDE DEF A
  <2>. QED BY <1>1, <1>2, Longer
<1>. QED BY <1>3

\* Where a path begins.
Start(p) == IF p[1] = "/" THEN <<>> ELSE Cwd

LEMMA LookupIs ==
  ASSUME NEW S, NEW p \in Seq(S), p # <<>>
  PROVE  /\ Start(p) \in Dirs /\ Start(p) \in Places
         /\ Lookup(p) = Walk(Start(p), Pieces(p, "/"))
         /\ Lookup(p) \in Places
<1>1. Start(p) \in Dirs
  BY PathsAssumption, Zenon DEF Start
<1>2. Start(p) \in Places
  BY <1>1, Zenon DEF Places
<1>3. Lookup(p) = Walk(Start(p), Pieces(p, "/"))
  BY Zenon DEF Lookup, Start
<1>4. Pieces(p, "/") \in Seq(Seq(S))
  BY PiecesIn DEF SomePieces
<1>5. Walk(Start(p), Pieces(p, "/")) \in Places
  BY <1>2, <1>4, WalkIn
<1>. QED BY <1>1, <1>2, <1>3, <1>5

\* A slash parts a path.
Parted(w, u, v) == w = u \o <<"/">> \o v

\* Two paths with a slash between them: the second goes on where the first leads.
LEMMA LookupJoin ==
  ASSUME NEW S, "/" \in S, NEW u \in Seq(S), NEW v \in Seq(S), NEW w, Parted(w, u, v)
  PROVE  /\ w \in Seq(S) /\ w # <<>>
         /\ Start(w) = IF u = <<>> THEN <<>> ELSE Start(u)
         /\ Lookup(w) = Walk(Walk(Start(w), Pieces(u, "/")), Pieces(v, "/"))
<1>1. PICK x \in Seq(S) : x = u \o <<"/">>
  <2>1. <<"/">> \in Seq(S)
    OBVIOUS
  <2>. QED BY <2>1, ConcatProperties
<1>2. PICK m \in Nat, n \in Nat : m = Len(u) /\ n = Len(v)
  OBVIOUS
<1>3. Len(x) = m + 1 /\ x[1] = IF m = 0 THEN "/" ELSE u[1]
  BY <1>1, <1>2
<1>0. w = u \o <<"/">> \o v
  BY Zenon DEF Parted
<1>4. w = x \o v
  BY <1>0, <1>1
<1>5. w \in Seq(S) /\ Len(w) = m + 1 + n /\ w[1] = x[1]
  <2>1. /\ x \o v \in Seq(S) /\ Len(x \o v) = Len(x) + Len(v)
        /\ \A i \in 1 .. Len(x) + Len(v) : (x \o v)[i] = IF i <= Len(x) THEN x[i] ELSE v[i - Len(x)]
    BY ConcatProperties
  <2>2. 1 \in 1 .. Len(x) + Len(v) /\ 1 <= Len(x)
    BY <1>2, <1>3
  <2>3. (x \o v)[1] = x[1]
    BY <2>1, <2>2, Zenon
  <2>4. m + 1 + n = Len(x) + Len(v)
    BY <1>2, <1>3
  <2>. QED BY <1>4, <2>1, <2>3, <2>4, Zenon
<1>6. w # <<>>
  BY <1>2, <1>5
<1>7. Start(w) = IF u = <<>> THEN <<>> ELSE Start(u)
  <2>1. u = <<>> <=> m = 0
    BY <1>2
  <2>. QED BY <1>3, <1>5, <2>1, Zenon DEF Start
<1>8. Joins(Pieces(w, "/"), Pieces(u, "/"), Pieces(v, "/"))
  <2>1. Joins(Pieces(u \o <<"/">> \o v, "/"), Pieces(u, "/"), Pieces(v, "/"))
    BY PiecesConcat
  <2>. QED BY <1>0, <2>1, Zenon
<1>9. Pieces(u, "/") \in Seq(Seq(S)) /\ Pieces(v, "/") \in Seq(Seq(S))
  BY PiecesIn DEF SomePieces
<1>10. Start(w) \in Places /\ Lookup(w) = Walk(Start(w), Pieces(w, "/"))
  BY <1>5, <1>6, LookupIs
<1>11. Walk(Start(w), Pieces(w, "/")) = Walk(Walk(Start(w), Pieces(u, "/")), Pieces(v, "/"))
  BY <1>8, <1>9, <1>10, WalkJoin
<1>. QED BY <1>5, <1>6, <1>7, <1>10, <1>11

\* The extension is that of what is behind the slash.
LEMMA ExtensionBehind ==
  ASSUME NEW S, "/" \in S, NEW u \in Seq(S), NEW v \in Seq(S), NEW w, Parted(w, u, v)
  PROVE  file_extension(w) = file_extension(v)
<1>1. PICK l, p, q : l = Pieces(w, "/") /\ p = Pieces(u, "/") /\ q = Pieces(v, "/")
  OBVIOUS
<1>2. p \in Seq(Seq(S)) /\ q \in Seq(Seq(S)) /\ q # <<>>
  BY <1>1, PiecesIn DEF SomePieces
<1>3. l = p \o q
  <2>1. Joins(l, p, q)
    <3>1. Joins(Pieces(u \o <<"/">> \o v, "/"), Pieces(u, "/"), Pieces(v, "/"))
      BY PiecesConcat
    <3>. QED BY <1>1, <3>1, Zenon DEF Parted
  <2>. QED BY <2>1 DEF Joins
<1>4. l[Len(l)] = q[Len(q)]
  <2>1. PICK m \in Nat, n \in Nat : m = Len(p) /\ n = Len(q)
    BY <1>2
  <2>2. n \in 1 .. n
    BY <1>2, <2>1
  <2>3. /\ Len(p \o q) = m + n
        /\ \A i \in 1 .. m + n : (p \o q)[i] = IF i <= m THEN p[i] ELSE q[i - m]
    BY <1>2, <2>1, ConcatProperties
  <2>4. m + n \in 1 .. m + n /\ ~(m + n <= m) /\ (m + n) - m = n
    BY <2>2
  <2>5. (p \o q)[m + n] = q[n]
    BY <2>3, <2>4, Zenon
  <2>. QED BY <1>3, <2>1, <2>3, <2>5, Zenon
<1>. QED BY <1>1, <1>4, Zenon DEF file_extension

\* A place is where its names lead from the root.
LEMMA PlaceWalk ==
  ASSUME NEW at \in Dirs \cup Regular
  PROVE  /\ at \in Seq(Seq(STRING)) /\ Walk(<<>>, at) = at
         /\ \A i \in 1 .. Len(at) : Positions(at[i], "/") = {}
<1>1. at \in Seq(Seq(STRING))
  BY PathsAssumption, Zenon
<1>. DEFINE Leads(v) == /\ Walk(<<>>, v) = v
                        /\ \A i \in 1 .. Len(v) : Positions(v[i], "/") = {}
            A == {v \in Seq(Seq(STRING)) : v \in Dirs \cup Regular => Leads(v)}
<1>2. <<>> \in Dirs /\ <<>> \in Places
  BY PathsAssumption, Zenon DEF Places
<1>3. <<>> \in A
  <2>1. Walk(<<>>, <<>>) = <<>>
    BY <1>2, WalkNone
  <2>2. \A i \in 1 .. Len(<<>>) : FALSE
    OBVIOUS
  <2>3. Leads(<<>>)
    BY <2>1, <2>2, Zenon
  <2>4. <<>> \in Seq(Seq(STRING))
    OBVIOUS
  <2>. QED BY <2>3, <2>4, Zenon
<1>4. ASSUME NEW v \in Seq(Seq(STRING)), NEW x \in Seq(STRING), v \in A PROVE Append(v, x) \in A
  <2>1. PICK w \in Seq(Seq(STRING)) : w = Append(v, x)
    <3>1. Append(v, x) \in Seq(Seq(STRING))
      BY AppendProperties
    <3>. QED BY <3>1
  <2>2. PICK n \in Nat : n = Len(v)
    OBVIOUS
  <2>3. w # <<>> /\ Len(w) = n + 1 /\ w[n + 1] = x /\ \A i \in 1 .. n : w[i] = v[i]
    BY <2>1, <2>2
  <2>4. ASSUME w \in Dirs \cup Regular PROVE Leads(w)
    <3>1. Front(w) \in Dirs /\ IsName(w[Len(w)])
      BY <2>3, <2>4, PathsAssumption, Zenon
    <3>2. Front(w) = v
      <4>1. Front(w) = SubSeq(w, 1, n)
        <5>1. (n + 1) - 1 = n
          OBVIOUS
        <5>. QED BY <2>3, <5>1, Zenon DEF Front
      <4>2. SubSeq(w, 1, n) = v
        BY <2>1, <2>2
      <4>. QED BY <4>1, <4>2
    <3>3. IsName(x)
      BY <2>3, <3>1
    <3>4. Leads(v)
      BY <1>4, <3>1, <3>2, Zenon
    <3>5. Walk(<<>>, w) = Step(Walk(<<>>, v), x)
      BY <1>2, <2>1, WalkAppend
    <3>6. Walk(<<>>, w) = w
      <4>1. Step(v, x) = Append(v, x)
        BY <2>1, <2>4, <3>1, <3>2, <3>3, StepIs
      <4>. QED BY <2>1, <3>4, <3>5, <4>1, Zenon
    <3>7. ASSUME NEW i \in 1 .. Len(w) PROVE Positions(w[i], "/") = {}
      <4>1. CASE i = n + 1
        <5>1. Positions(x, "/") = {}
          BY <3>3, Zenon DEF IsName
        <5>. QED BY <2>3, <4>1, <5>1
      <4>2. CASE i # n + 1
        <5>1. i \in 1 .. n
          BY <2>3, <4>2
        <5>. QED BY <2>2, <2>3, <3>4, <5>1, Zenon
      <4>. QED BY <4>1, <4>2
    <3>. QED BY <3>6, <3>7, Zenon
  <2>. QED BY <2>1, <2>4, Zenon
<1>5. at \in A
  <2>. HIDE DEF A
  <2>. QED BY <1>1, <1>3, <1>4, Longer
<1>. QED BY <1>1, <1>5, Zenon

LEMMA AbsoluteIs ==
  ASSUME NEW S, "/" \in S, NEW at \in Seq(Seq(S)), at # <<>>
  PROVE  \E h \in [0 .. Len(at) -> Seq(S)] :
           /\ \A i \in 0 .. Len(at) : h[i] = IF i = 0 THEN <<>> ELSE h[i - 1] \o <<"/">> \o at[i]
           /\ Absolute(at) = h[Len(at)]
<1>. DEFINE n == Len(at)
            More(x, i) == x \o <<"/">> \o at[i]
            P == Seq(S)
            F == [i \in 1 .. n |-> [x \in P |-> More(x, i)]]
            Upto(f) == f = [i \in 0 .. n |-> IF i = 0 THEN <<>> ELSE More(f[i - 1], i)]
            upto == CHOOSE f : Upto(f)
<1>2. n \in Nat /\ \A i \in 1 .. n : at[i] \in P
  OBVIOUS
<1>3. \A i \in 1 .. n, x \in P : F[i][x] = More(x, i) /\ F[i][x] \in P
  <2>1. ASSUME NEW i \in 1 .. n, NEW x \in P PROVE More(x, i) \in P
    <3>1. PICK a \in Seq(S), t \in Seq(S) : a = at[i] /\ t = <<"/">>
      <4>1. <<"/">> \in Seq(S)
        OBVIOUS
      <4>. QED BY <1>2, <4>1
    <3>2. x \o t \o a \in Seq(S)
      OBVIOUS
    <3>. QED BY <3>1, <3>2
  <2>. HIDE DEF More
  <2>. QED BY <2>1
<1>4. Absolute(at) = upto[n]
  BY Zenon DEF Absolute
<1>5. <<>> \in P
  OBVIOUS
<1>. HIDE DEF F, P, More, n
<1>6. PICK h : Folds(h, n, P, <<>>, F)
  <2>1. Foldable(n, P, <<>>, F)
    BY <1>2, <1>3, <1>5 DEF Foldable
  <2>. QED BY <2>1, FoldExists
<1>7. \A i \in 1 .. n : i \in 0 .. n /\ i - 1 \in 0 .. n /\ i # 0
  BY <1>2
<1>8. \A i \in 0 .. n : h[i] = IF i = 0 THEN <<>> ELSE More(h[i - 1], i)
  <2>1. \A i \in 0 .. n : i # 0 => i \in 1 .. n
    BY <1>2
  <2>2. \A i \in 1 .. n : h[i - 1] \in P
    BY <1>6, <1>7, Zenon DEF Folds
  <2>. QED BY <1>3, <1>6, <2>1, <2>2, Zenon DEF Folds
<1>9. h \in [0 .. n -> P]
  BY <1>6 DEF Folds
<1>10. Upto(h)
  BY <1>8, <1>9
<1>11. Upto(upto)
  BY <1>10, Zenon
<1>. HIDE DEF upto
<1>12. \A i \in 0 .. n : upto[i] = IF i = 0 THEN <<>> ELSE More(upto[i - 1], i)
  BY <1>11, Zenon
<1>13. 0 \in 0 .. n /\ n \in 0 .. n
  BY <1>2
<1>14. \A i \in 0 .. n : upto[i] = h[i]
  <2>1. upto[0] = h[0]
    BY <1>8, <1>12, <1>13, Zenon
  <2>2. \A i \in 1 .. n : upto[i - 1] = h[i - 1] => upto[i] = h[i]
    BY <1>7, <1>8, <1>12, Zenon
  <2>3. Together(n, upto, h)
    BY <1>2, <2>1, <2>2, Zenon DEF Together
  <2>. QED BY <2>3, Stepwise
<1>. QED BY <1>4, <1>8, <1>9, <1>13, <1>14, Zenon DEF More, n, P

\* The names behind the first slash are those of the place.
LEMMA AbsolutePieces ==
  ASSUME NEW S, "/" \in S, NEW at \in Seq(Seq(S)), at # <<>>,
         \A i \in 1 .. Len(at) : Positions(at[i], "/") = {}
  PROVE  /\ Absolute(at) \in Seq(S) /\ Absolute(at) # <<>> /\ Absolute(at)[1] = "/"
         /\ Joins(Pieces(Absolute(at), "/"), << <<>> >>, at)
<1>1. PICK n \in Nat : n = Len(at)
  OBVIOUS
<1>2. PICK h \in [0 .. n -> Seq(S)] :
        /\ \A i \in 0 .. n : h[i] = IF i = 0 THEN <<>> ELSE h[i - 1] \o <<"/">> \o at[i]
        /\ Absolute(at) = h[n]
  BY <1>1, AbsoluteIs
<1>. DEFINE Whence(i) == /\ Joins(Pieces(h[i], "/"), << <<>> >>, SubSeq(at, 1, i))
                         /\ i # 0 => h[i] # <<>> /\ h[i][1] = "/"
            A == {i \in 0 .. n : Whence(i)}
<1>3. 0 \in A
  <2>1. 0 \in 0 .. n
    OBVIOUS
  <2>2. h[0] = <<>>
    BY <1>2, <2>1, Zenon
  <2>3. Pieces(<<>>, "/") = << <<>> >>
    BY PiecesNone
  <2>4. SubSeq(at, 1, 0) = <<>>
    OBVIOUS
  <2>5. << <<>> >> = << <<>> >> \o <<>>
    OBVIOUS
  <2>. QED BY <2>1, <2>2, <2>3, <2>4, <2>5, Zenon DEF Joins
<1>4. ASSUME NEW i \in 1 .. n, i - 1 \in A PROVE i \in A
  <2>1. i \in 0 .. n /\ i # 0 /\ i - 1 \in 0 .. n
    BY <1>1
  <2>2. PICK a \in Seq(S) : a = at[i]
    BY <1>1
  <2>3. PICK x \in Seq(S) : x = h[i - 1]
    BY <2>1
  <2>4. PICK y : y = x \o <<"/">> \o a
    OBVIOUS
  <2>5. h[i] = y
    BY <1>2, <2>1, <2>2, <2>3, <2>4, Zenon
  <2>6. Pieces(a, "/") = <<a>>
    <3>1. Positions(a, "/") = {}
      BY <1>1, <2>2, Zenon
    <3>. QED BY <3>1, PiecesOne
  <2>7. Joins(Pieces(y, "/"), Pieces(x, "/"), <<a>>)
    <3>1. Joins(Pieces(x \o <<"/">> \o a, "/"), Pieces(x, "/"), Pieces(a, "/"))
      BY PiecesConcat
    <3>. QED BY <2>4, <2>6, <3>1, Zenon
  <2>8. Joins(Pieces(x, "/"), << <<>> >>, SubSeq(at, 1, i - 1))
    BY <1>4, <2>3, Zenon
  <2>9. Joins(Pieces(y, "/"), << <<>> >>, SubSeq(at, 1, i))
    <3>1. PICK q \in Seq(Seq(S)) : q = SubSeq(at, 1, i - 1)
      <4>1. i - 1 \in 0 .. Len(at)
        BY <1>1
      <4>2. SubSeq(at, 1, i - 1) \in Seq(Seq(S))
        BY <4>1, TakeDrop
      <4>. QED BY <4>2
    <3>2. PICK e \in Seq(Seq(S)), l \in Seq(Seq(S)) : e = << <<>> >> /\ l = <<a>>
      <4>1. << <<>> >> \in Seq(Seq(S))
        <5>1. <<>> \in Seq(S)
          OBVIOUS
        <5>. QED BY <5>1
      <4>2. <<a>> \in Seq(Seq(S))
        OBVIOUS
      <4>. QED BY <4>1, <4>2, Zenon
    <3>3. SubSeq(at, 1, i) = Append(q, a)
      BY <1>1, <2>2, <3>1
    <3>4. Append(q, a) = q \o l
      BY <3>2, AppendIsConcat
    <3>5. Joins(Pieces(x, "/"), e, q) /\ Joins(Pieces(y, "/"), Pieces(x, "/"), l)
      BY <2>7, <2>8, <3>1, <3>2, Zenon
    <3>6. Joins(SubSeq(at, 1, i), q, l)
      BY <3>3, <3>4, Zenon DEF Joins
    <3>7. Joins(Pieces(y, "/"), e, SubSeq(at, 1, i))
      BY <3>5, <3>6, JoinsAssociative
    <3>. QED BY <3>2, <3>7, Zenon
  <2>10. y # <<>> /\ y[1] = "/"
    <3>1. CASE i = 1
      <4>1. h[0] = <<>>
        <5>1. 0 \in 0 .. n
          OBVIOUS
        <5>. QED BY <1>2, <5>1, Zenon
      <4>2. i - 1 = 0
        BY <3>1
      <4>3. x = <<>>
        BY <2>3, <4>1, <4>2, Zenon
      <4>. QED BY <2>4, <4>3
    <3>2. CASE i # 1
      <4>1. i - 1 # 0
        BY <3>2
      <4>2. x # <<>> /\ x[1] = "/"
        BY <1>4, <2>3, <4>1, Zenon
      <4>. QED BY <2>4, <4>2
    <3>. QED BY <3>1, <3>2
  <2>. QED BY <2>1, <2>5, <2>9, <2>10, Zenon
<1>5. n \in A
  <2>. HIDE DEF A
  <2>1. n \in 0 .. n
    OBVIOUS
  <2>. QED BY <1>3, <1>4, <2>1, Along
<1>6. SubSeq(at, 1, n) = at
  BY <1>1, SubSeqFull
<1>7. n # 0
  BY <1>1
<1>8. h[n] \in Seq(S)
  <2>1. n \in 0 .. n
    OBVIOUS
  <2>. QED BY <2>1
<1>. QED BY <1>2, <1>5, <1>6, <1>7, <1>8, Zenon

\* The absolute path of a place leads there.
LEMMA AbsoluteLeads ==
  ASSUME NEW at \in Dirs \cup Regular
  PROVE  Lookup(Absolute(at)) = at
<1>. DEFINE S == STRING \cup {"/"}
<1>1. <<>> \in Dirs /\ <<>> \in Places
  BY PathsAssumption, Zenon DEF Places
<1>2. at \in Seq(Seq(S))
  <2>1. at \in Seq(Seq(STRING))
    BY PlaceWalk
  <2>. QED BY <2>1
<1>3. "/" \in S /\ <<>> \in Seq(S)
  OBVIOUS
<1>. HIDE DEF S
<1>4. Walk(<<>>, << <<>> >>) = <<>>
  BY <1>1, WalkOne, StepIs
<1>5. CASE at = <<>>
  <2>1. Absolute(at) = <<"/">>
    BY <1>5, Zenon DEF Absolute
  <2>2. <<"/">> = <<>> \o <<"/">> \o <<>>
    OBVIOUS
  <2>3. Pieces(<<>>, "/") = << <<>> >>
    BY PiecesNone
  <2>4. /\ Start(<<"/">>) = <<>>
        /\ Lookup(<<"/">>) = Walk(Walk(Start(<<"/">>), Pieces(<<>>, "/")), Pieces(<<>>, "/"))
    <3>1. PICK e, w : e = <<>> /\ w = <<"/">>
      OBVIOUS
    <3>2. e \in Seq(S) /\ Parted(w, e, e)
      BY <1>3, <2>2, <3>1, Zenon DEF Parted
    <3>3. /\ Start(w) = IF e = <<>> THEN <<>> ELSE Start(e)
          /\ Lookup(w) = Walk(Walk(Start(w), Pieces(e, "/")), Pieces(e, "/"))
      BY <1>3, <3>2, LookupJoin
    <3>. QED BY <3>1, <3>3, Zenon
  <2>. QED BY <1>4, <1>5, <2>1, <2>3, <2>4, Zenon
<1>6. CASE at # <<>>
  <2>1. PICK p : p = Absolute(at)
    OBVIOUS
  <2>2. /\ p \in Seq(S) /\ p # <<>> /\ p[1] = "/"
        /\ Joins(Pieces(p, "/"), << <<>> >>, at)
    <3>1. \A i \in 1 .. Len(at) : Positions(at[i], "/") = {}
      BY PlaceWalk
    <3>. QED BY <1>2, <1>3, <1>6, <2>1, <3>1, AbsolutePieces
  <2>3. Lookup(p) = Walk(<<>>, Pieces(p, "/"))
    BY <2>2, Zenon DEF Lookup
  <2>4. << <<>> >> \in Seq(Seq(S))
    BY <1>3
  <2>5. Walk(<<>>, Pieces(p, "/")) = Walk(Walk(<<>>, << <<>> >>), at)
    <3>1. PICK e, l : e = << <<>> >> /\ l = Pieces(p, "/")
      OBVIOUS
    <3>2. e \in Seq(Seq(S)) /\ Joins(l, e, at)
      BY <2>2, <2>4, <3>1, Zenon
    <3>3. PICK r : r = <<>>
      OBVIOUS
    <3>4. r \in Places
      BY <1>1, <3>3, Zenon
    <3>5. Walk(r, l) = Walk(Walk(r, e), at)
      BY <1>2, <3>2, <3>4, WalkJoin
    <3>. QED BY <3>1, <3>3, <3>5, Zenon
  <2>6. Walk(<<>>, at) = at
    BY PlaceWalk
  <2>. QED BY <1>4, <2>1, <2>3, <2>5, <2>6, Zenon
<1>. QED BY <1>5, <1>6

\* A slash behind a name changes nothing for what follows.
LEMMA SlashBehind ==
  ASSUME NEW S, NEW at \in Places, NEW q \in Seq(S), q # <<>>
  PROVE  Step(at, <<>>) \in Places /\ Walk(Step(at, <<>>), q) = Walk(at, q)
<1>1. CASE at \in Dirs
  <2>1. Step(at, <<>>) = at
    BY <1>1, StepIs
  <2>. QED BY <2>1
<1>2. CASE at \notin Dirs
  <2>1. Step(at, <<>>) = Nowhere
    BY <1>2, StepIs
  <2>2. Nowhere \in Places
    BY Zenon DEF Places
  <2>3. Walk(Nowhere, q) = Nowhere
    BY <2>2, NowhereIsNoPlace, WalkLost
  <2>4. Walk(at, q) = Nowhere
    BY <1>2, WalkLost
  <2>. QED BY <2>1, <2>2, <2>3, <2>4
<1>. QED BY <1>1, <1>2

LEMMA EndParts ==
  ASSUME NEW S, "/" \in S, NEW a \in Seq(S), EndsInSlash(a)
  PROVE  Front(a) \in Seq(S) /\ Parted(a, Front(a), <<>>) /\ a = Front(a) \o <<"/">>
<1>1. PICK n \in Nat : n = Len(a) - 1 /\ Len(a) = n + 1
  BY DEF EndsInSlash
<1>2. a[n + 1] = "/"
  BY <1>1, Zenon DEF EndsInSlash
<1>3. PICK f : f = Front(a)
  OBVIOUS
<1>4. f \in Seq(S) /\ Len(f) = n /\ \A i \in 1 .. n : f[i] = a[i]
  BY <1>1, <1>3 DEF Front
<1>5. <<"/">> \in Seq(S)
  OBVIOUS
<1>6. a = f \o <<"/">>
  <2>1. PICK z : z = f \o <<"/">>
    OBVIOUS
  <2>2. z \in Seq(S) /\ Len(z) = n + 1 /\ z[n + 1] = "/" /\ \A i \in 1 .. n : z[i] = f[i]
    BY <1>4, <2>1
  <2>3. \A i \in 1 .. Len(a) : a[i] = z[i]
    BY <1>1, <1>2, <1>4, <2>2
  <2>4. a = z
    BY <1>1, <2>2, <2>3, SeqEqual
  <2>. QED BY <2>1, <2>4
<1>7. a \o <<>> = a
  BY ConcatEmptySeq
<1>8. Parted(a, f, <<>>)
  BY <1>6, <1>7, Zenon DEF Parted
<1>. QED BY <1>3, <1>4, <1>6, <1>8, Zenon

LEMMA StartParts ==
  ASSUME NEW S, "/" \in S, NEW b \in Seq(S), StartsWithSlash(b)
  PROVE  /\ Tail(b) \in Seq(S) /\ Parted(b, <<>>, Tail(b)) /\ b = <<"/">> \o Tail(b)
         /\ Joins(Pieces(b, "/"), << <<>> >>, Pieces(Tail(b), "/"))
<1>1. PICK n \in Nat : Len(b) = n + 1
  <2>1. Len(b) - 1 \in Nat /\ Len(b) = (Len(b) - 1) + 1
    BY DEF StartsWithSlash
  <2>. QED BY <2>1
<1>2. b[1] = "/"
  BY Zenon DEF StartsWithSlash
<1>3. PICK f : f = Tail(b)
  OBVIOUS
<1>4. f \in Seq(S) /\ Len(f) = n /\ \A i \in 1 .. n : f[i] = b[i + 1]
  BY <1>1, <1>3
<1>5. <<"/">> \in Seq(S)
  OBVIOUS
<1>6. b = <<"/">> \o f
  <2>1. PICK z : z = <<"/">> \o f
    OBVIOUS
  <2>2. z \in Seq(S) /\ Len(z) = n + 1 /\ z[1] = "/" /\ \A i \in 1 .. n : z[i + 1] = f[i]
    BY <1>4, <2>1
  <2>3. ASSUME NEW i \in 1 .. Len(b) PROVE b[i] = z[i]
    <3>1. CASE i = 1
      BY <1>2, <2>2, <3>1
    <3>2. CASE i # 1
      <4>1. i - 1 \in 1 .. n /\ (i - 1) + 1 = i
        BY <1>1, <3>2
      <4>. QED BY <1>4, <2>2, <4>1, Zenon
    <3>. QED BY <3>1, <3>2
  <2>4. b = z
    BY <1>1, <2>2, <2>3, SeqEqual
  <2>. QED BY <2>1, <2>4
<1>7. <<>> \o <<"/">> = <<"/">>
  BY <1>5, ConcatEmptySeq
<1>8. Parted(b, <<>>, f)
  BY <1>6, <1>7, Zenon DEF Parted
<1>9. Joins(Pieces(b, "/"), << <<>> >>, Pieces(f, "/"))
  <2>1. PICK e \in Seq(S) : e = <<>>
    <3>1. <<>> \in Seq(S)
      OBVIOUS
    <3>. QED BY <3>1, Zenon
  <2>2. Joins(Pieces(e \o <<"/">> \o f, "/"), Pieces(e, "/"), Pieces(f, "/"))
    BY <1>4, PiecesConcat
  <2>3. Pieces(e, "/") = << <<>> >>
    BY <2>1, PiecesNone
  <2>. QED BY <1>8, <2>1, <2>2, <2>3, Zenon DEF Parted
<1>. QED BY <1>3, <1>4, <1>6, <1>8, <1>9, Zenon

\* To walk the pieces of a path that begins with a slash is to walk those behind it.
LEMMA WalkSlash ==
  ASSUME NEW S, "/" \in S, NEW b \in Seq(S), StartsWithSlash(b), NEW at \in Places
  PROVE  Walk(at, Pieces(b, "/")) = Walk(at, Pieces(Tail(b), "/"))
<1>1. PICK l, e, q : l = Pieces(b, "/") /\ e = << <<>> >> /\ q = Pieces(Tail(b), "/")
  OBVIOUS
<1>2. Joins(l, e, q) /\ Tail(b) \in Seq(S)
  BY <1>1, StartParts
<1>3. q \in Seq(Seq(S)) /\ q # <<>>
  BY <1>1, <1>2, PiecesIn DEF SomePieces
<1>4. e \in Seq(Seq(S))
  BY <1>1
<1>5. Walk(at, l) = Walk(Walk(at, e), q)
  BY <1>2, <1>3, <1>4, WalkJoin
<1>6. Walk(at, e) = Step(at, <<>>)
  BY <1>1, WalkOne
<1>7. Walk(Step(at, <<>>), q) = Walk(at, q)
  BY <1>3, SlashBehind
<1>. QED BY <1>1, <1>5, <1>6, <1>7, Zenon

\* To go on from a path that ends in a slash is to go on from the one before it.
LEMMA FromSlash ==
  ASSUME NEW S, "/" \in S, NEW a \in Seq(S), EndsInSlash(a), NEW v \in Seq(S),
         NEW w, Parted(w, Front(a), v)
  PROVE  Lookup(w) = Walk(Lookup(a), Pieces(v, "/"))
<1>1. PICK u \in Seq(S) : u = Front(a) /\ Parted(a, u, <<>>) /\ Parted(w, u, v)
  BY EndParts
<1>2. PICK e \in Seq(S) : e = <<>> /\ Parted(a, u, e)
  <2>1. <<>> \in Seq(S)
    OBVIOUS
  <2>. QED BY <1>1, <2>1, Zenon
<1>3. PICK q, r : q = Pieces(v, "/") /\ r = Pieces(u, "/")
  OBVIOUS
<1>4. q \in Seq(Seq(S)) /\ q # <<>> /\ r \in Seq(Seq(S))
  BY <1>3, PiecesIn DEF SomePieces
<1>5. Start(w) = Start(a) /\ Lookup(w) = Walk(Walk(Start(w), r), q)
  <2>1. /\ Start(w) = IF u = <<>> THEN <<>> ELSE Start(u)
        /\ Lookup(w) = Walk(Walk(Start(w), Pieces(u, "/")), Pieces(v, "/"))
    BY <1>1, LookupJoin
  <2>2. Start(a) = IF u = <<>> THEN <<>> ELSE Start(u)
    <3>1. Parted(a, u, e)
      BY <1>2
    <3>. QED BY <3>1, LookupJoin
  <2>. QED BY <1>3, <2>1, <2>2
<1>6. a # <<>> /\ Start(a) \in Places
  BY LookupIs DEF EndsInSlash
<1>7. PICK m \in Places : m = Walk(Start(a), r)
  BY <1>4, <1>6, WalkIn
<1>8. Lookup(a) = Step(m, <<>>)
  <2>1. Lookup(a) = Walk(m, Pieces(e, "/"))
    <3>1. Lookup(a) = Walk(Walk(Start(a), Pieces(u, "/")), Pieces(e, "/"))
      <4>1. Parted(a, u, e)
        BY <1>2
      <4>. QED BY <4>1, LookupJoin
    <3>. QED BY <1>3, <1>7, <3>1, Zenon
  <2>2. Pieces(e, "/") = << <<>> >>
    BY <1>2, PiecesNone
  <2>3. Walk(m, << <<>> >>) = Step(m, <<>>)
    BY WalkOne
  <2>. QED BY <2>1, <2>2, <2>3, Zenon
<1>9. Walk(Step(m, <<>>), q) = Walk(m, q)
  BY <1>4, SlashBehind
<1>. QED BY <1>3, <1>5, <1>7, <1>8, <1>9, Zenon

\* To go on from a path with a slash behind it is to go on from the path.
LEMMA FromPath ==
  ASSUME NEW S, "/" \in S, NEW a \in Seq(S), a # <<>>, NEW v \in Seq(S), NEW w, Parted(w, a, v)
  PROVE  Lookup(w) = Walk(Lookup(a), Pieces(v, "/"))
<1>1. Lookup(a) = Walk(Start(a), Pieces(a, "/"))
  BY LookupIs
<1>2. Start(w) = Start(a) /\ Lookup(w) = Walk(Walk(Start(w), Pieces(a, "/")), Pieces(v, "/"))
  BY LookupJoin
<1>. QED BY <1>1, <1>2, Zenon

LEMMA WiderSeq ==
  ASSUME NEW S, NEW T, S \subseteq T, NEW v \in Seq(S)
  PROVE  v \in Seq(T)
OBVIOUS

LEMMA PathIn ==
  ASSUME LineInv, kind = "path"
  PROVE  "/" \in PathChars /\ path \in Seq(PathChars)
<1>1. "/" \in PathChars
  BY DEF PathChars
<1>2. Typed["path"] \subseteq PathChars
  BY DEF PathChars
<1>3. path \in Seq(Typed["path"])
  BY DEF LineInv, path
<1>. QED BY <1>1, <1>2, <1>3

\* Two parts of a path, however the slash between them is written.
LEMMA JoinFound ==
  ASSUME NEW S, "/" \in S, NEW a \in Seq(S), NEW b \in Seq(S), NEW w, w = path_join(a, b)
  PROVE  /\ a # <<>> => Lookup(w) = Walk(Lookup(a), Pieces(b, "/"))
         /\ file_extension(w) = file_extension(b)
<1>1. CASE EndsInSlash(a) /\ StartsWithSlash(b)
  <2>1. PICK u, v : u = Front(a) /\ v = Tail(b)
    OBVIOUS
  <2>2. w = a \o v
    BY <1>1, <2>1, Zenon DEF path_join
  <2>3. u \in Seq(S) /\ a = u \o <<"/">>
    BY <1>1, <2>1, EndParts
  <2>4. v \in Seq(S) /\ Parted(b, <<>>, v)
    BY <1>1, <2>1, StartParts
  <2>5. Parted(w, u, v)
    BY <2>2, <2>3, Zenon DEF Parted
  <2>6. Lookup(w) = Walk(Lookup(a), Pieces(v, "/"))
    BY <1>1, <2>1, <2>4, <2>5, FromSlash
  <2>7. a # <<>> /\ Lookup(a) \in Places
    BY <1>1, LookupIs DEF EndsInSlash
  <2>8. Walk(Lookup(a), Pieces(b, "/")) = Walk(Lookup(a), Pieces(v, "/"))
    BY <1>1, <2>1, <2>7, WalkSlash
  <2>9. file_extension(w) = file_extension(v)
    BY <2>3, <2>4, <2>5, ExtensionBehind
  <2>10. file_extension(b) = file_extension(v)
    <3>1. <<>> \in Seq(S)
      OBVIOUS
    <3>. QED BY <2>4, <3>1, ExtensionBehind
  <2>. QED BY <2>6, <2>8, <2>9, <2>10, Zenon
<1>2. CASE ~EndsInSlash(a) /\ ~StartsWithSlash(b)
  <2>1. Parted(w, a, b)
    BY <1>2, Zenon DEF path_join, Parted
  <2>2. a # <<>> => Lookup(w) = Walk(Lookup(a), Pieces(b, "/"))
    BY <2>1, FromPath
  <2>3. file_extension(w) = file_extension(b)
    BY <2>1, ExtensionBehind
  <2>. QED BY <2>2, <2>3
<1>3. CASE EndsInSlash(a) /\ ~StartsWithSlash(b)
  <2>1. w = a \o b
    BY <1>3, Zenon DEF path_join
  <2>2. PICK u : u = Front(a)
    OBVIOUS
  <2>3. u \in Seq(S) /\ a = u \o <<"/">>
    BY <1>3, <2>2, EndParts
  <2>4. Parted(w, u, b)
    BY <2>1, <2>3, Zenon DEF Parted
  <2>5. Lookup(w) = Walk(Lookup(a), Pieces(b, "/"))
    BY <1>3, <2>2, <2>4, FromSlash
  <2>6. file_extension(w) = file_extension(b)
    BY <2>3, <2>4, ExtensionBehind
  <2>. QED BY <2>5, <2>6
<1>4. CASE ~EndsInSlash(a) /\ StartsWithSlash(b)
  <2>1. w = a \o b
    BY <1>4, Zenon DEF path_join
  <2>2. PICK v : v = Tail(b)
    OBVIOUS
  <2>3. v \in Seq(S) /\ Parted(b, <<>>, v) /\ b = <<"/">> \o v
    BY <1>4, <2>2, StartParts
  <2>4. Parted(w, a, v)
    <3>1. <<"/">> \in Seq(S)
      OBVIOUS
    <3>2. (a \o <<"/">>) \o v = a \o (<<"/">> \o v)
      BY <2>3, <3>1, ConcatAssociative
    <3>. QED BY <2>1, <2>3, <3>2, Zenon DEF Parted
  <2>5. ASSUME a # <<>> PROVE Lookup(w) = Walk(Lookup(a), Pieces(b, "/"))
    <3>1. Lookup(w) = Walk(Lookup(a), Pieces(v, "/"))
      BY <2>3, <2>4, <2>5, FromPath
    <3>2. Lookup(a) \in Places
      BY <2>5, LookupIs
    <3>3. Walk(Lookup(a), Pieces(b, "/")) = Walk(Lookup(a), Pieces(v, "/"))
      BY <1>4, <2>2, <3>2, WalkSlash
    <3>. QED BY <3>1, <3>3, Zenon
  <2>6. file_extension(w) = file_extension(v)
    BY <2>3, <2>4, ExtensionBehind
  <2>7. file_extension(b) = file_extension(v)
    <3>1. <<>> \in Seq(S)
      OBVIOUS
    <3>. QED BY <2>3, <3>1, ExtensionBehind
  <2>. QED BY <2>5, <2>6, <2>7
<1>. QED BY <1>1, <1>2, <1>3, <1>4

LEMMA JoinsFound ==
  ASSUME LineInv, kind = "path"
  PROVE  JoinLeads
<1>1. "/" \in PathChars /\ path \in Seq(PathChars)
  BY PathIn
<1>2. ASSUME NEW n \in 0 .. Len(path)
      PROVE  LET a == First(path, n)
                 b == After(path, n)
             IN  /\ a # <<>> => Lookup(path_join(a, b)) = Walk(Lookup(a), Pieces(b, "/"))
                 /\ file_extension(path_join(a, b)) = file_extension(b)
  <2>1. PICK a, b, w : a = First(path, n) /\ b = After(path, n) /\ w = path_join(a, b)
    OBVIOUS
  <2>2. n \in Nat
    OBVIOUS
  <2>3. b \in Seq(PathChars)
    BY <1>1, <2>1, <2>2, AfterIn
  <2>4. a \in Seq(PathChars)
    <3>1. PICK m \in 0 .. Len(path) : m = IF n < Len(path) THEN n ELSE Len(path)
      BY <1>1
    <3>2. SubSeq(path, 1, m) \in Seq(PathChars)
      BY <1>1, TakeDrop
    <3>. QED BY <2>1, <3>1, <3>2, Zenon DEF First
  <2>5. /\ a # <<>> => Lookup(w) = Walk(Lookup(a), Pieces(b, "/"))
        /\ file_extension(w) = file_extension(b)
    BY <1>1, <2>1, <2>3, <2>4, JoinFound
  <2>. QED BY <2>1, <2>5, Zenon
<1>. QED BY <1>2, Zenon DEF JoinLeads

LEMMA HomeFound ==
  ASSUME LineInv, kind = "path"
  PROVE  HomeLeads
<1>1. "/" \in PathChars /\ path \in Seq(PathChars)
  BY PathIn
<1>2. PICK p \in Seq(PathChars) : p = path
  BY <1>1
<1>3. ASSUME HOME # <<>>
      PROVE  Lookup(expand_home(<<"~", "/">> \o p)) = Walk(Lookup(HOME), Pieces(p, "/"))
  <2>1. HOME \in Seq(PathChars)
    <3>1. HOME \in Seq(STRING)
      BY PathsAssumption, Zenon
    <3>2. STRING \subseteq PathChars
      BY DEF PathChars
    <3>. QED BY <3>1, <3>2, WiderSeq, Zenon
  <2>2. PICK t : t = <<"~", "/">> \o p
    OBVIOUS
  <2>3. PICK S : S = PathChars
    OBVIOUS
  <2>4. p \in Seq(S) /\ HOME \in Seq(S) /\ "/" \in S /\ "~" \in S
    <3>1. "~" \in PathChars
      BY DEF PathChars
    <3>. QED BY <1>1, <1>2, <2>1, <2>3, <3>1
  <2>5. t # <<>> /\ t[1] = "~" /\ Tail(t) = <<"/">> \o p
    <3>1. PICK s : s = <<"/">> \o p
      OBVIOUS
    <3>2. PICK n \in Nat : n = Len(p)
      BY <2>4
    <3>3. t \in Seq(S) /\ Len(t) = n + 2 /\ t[1] = "~" /\ t[2] = "/" /\ \A i \in 1 .. n : t[i + 2] = p[i]
      BY <2>2, <2>4, <3>2
    <3>4. s \in Seq(S) /\ Len(s) = n + 1 /\ s[1] = "/" /\ \A i \in 1 .. n : s[i + 1] = p[i]
      BY <2>4, <3>1, <3>2
    <3>5. PICK r : r = Tail(t)
      OBVIOUS
    <3>6. r \in Seq(S) /\ Len(r) = n + 1 /\ \A i \in 1 .. n + 1 : r[i] = t[i + 1]
      BY <3>2, <3>3, <3>5
    <3>7. ASSUME NEW i \in 1 .. Len(r) PROVE r[i] = s[i]
      <4>1. CASE i = 1
        BY <3>3, <3>4, <3>6, <4>1
      <4>2. CASE i # 1
        <5>1. i - 1 \in 1 .. n /\ (i - 1) + 1 = i /\ (i - 1) + 2 = i + 1 /\ i \in 1 .. n + 1
          BY <3>6, <4>2
        <5>. QED BY <3>3, <3>4, <3>6, <5>1, Zenon
      <4>. QED BY <4>1, <4>2
    <3>8. r = s
      BY <3>4, <3>6, <3>7, SeqEqual
    <3>. QED BY <3>1, <3>3, <3>5, <3>8
  <2>6. PICK w : w = expand_home(t)
    OBVIOUS
  <2>7. Parted(w, HOME, p)
    <3>1. w = HOME \o Tail(t)
      BY <1>3, <2>5, <2>6, Zenon DEF expand_home
    <3>2. <<"/">> \in Seq(S)
      BY <2>4
    <3>3. (HOME \o <<"/">>) \o p = HOME \o (<<"/">> \o p)
      BY <2>4, <3>2, ConcatAssociative
    <3>. QED BY <2>5, <3>1, <3>3, Zenon DEF Parted
  <2>8. Lookup(w) = Walk(Lookup(HOME), Pieces(p, "/"))
    BY <1>3, <2>4, <2>7, FromPath
  <2>. QED BY <2>2, <2>6, <2>8
<1>4. ASSUME Lookup(p) # Nowhere
      PROVE  /\ Lookup(canonical_path(p)) = Lookup(p)
             /\ canonical_path(canonical_path(p)) = canonical_path(p)
  <2>1. p # <<>>
    BY <1>4, Zenon DEF Lookup
  <2>2. PICK at : at = Lookup(p)
    OBVIOUS
  <2>3. at \in Dirs \cup Regular /\ at # Nowhere
    <3>1. Lookup(p) \in Places
      BY <2>1, LookupIs
    <3>. QED BY <1>4, <2>2, <3>1, Zenon DEF Places
  <2>4. canonical_path(p) = Absolute(at)
    BY <1>4, <2>2, Zenon DEF canonical_path
  <2>5. Lookup(Absolute(at)) = at
    BY <2>3, AbsoluteLeads
  <2>6. canonical_path(Absolute(at)) = Absolute(at)
    BY <2>3, <2>5, Zenon DEF canonical_path
  <2>. QED BY <2>2, <2>4, <2>5, <2>6, Zenon
<1>. QED BY <1>2, <1>3, <1>4, Zenon DEF HomeLeads

\* What a character adds to a path whose repeated slashes are one.
Kept(c, v, i) == IF i > 1 /\ v[i] = "/" /\ v[i - 1] = "/" THEN c ELSE Append(c, v[i])

Collapsing(h, v) == \A i \in 0 .. Len(v) : h[i] = IF i = 0 THEN <<>> ELSE Kept(h[i - 1], v, i)

LEMMA CollapsedIs ==
  ASSUME NEW S, NEW v \in Seq(S)
  PROVE  \E h \in [0 .. Len(v) -> Seq(S)] : Collapsing(h, v) /\ h[Len(v)] = Collapsed(v)
<1>. DEFINE n == Len(v)
            P == Seq(S)
            F == [i \in 1 .. n |-> [c \in P |-> Kept(c, v, i)]]
            Upto(f) == f = [i \in 0 .. n |-> IF i = 0 THEN <<>> ELSE Kept(f[i - 1], v, i)]
            upto == CHOOSE f : Upto(f)
<1>1. n \in Nat /\ \A i \in 1 .. n : v[i] \in S
  OBVIOUS
<1>2. \A i \in 1 .. n, c \in P : F[i][c] = Kept(c, v, i) /\ F[i][c] \in P
  <2>1. ASSUME NEW i \in 1 .. n, NEW c \in P PROVE Kept(c, v, i) \in P
    <3>1. Append(c, v[i]) \in P
      BY <1>1, AppendProperties
    <3>. QED BY <3>1, Zenon DEF Kept
  <2>. QED BY <2>1
<1>3. Collapsed(v) = upto[n]
  BY Zenon DEF Collapsed, Kept
<1>4. <<>> \in P
  OBVIOUS
<1>. HIDE DEF n, F, P
<1>5. PICK h : Folds(h, n, P, <<>>, F)
  <2>1. Foldable(n, P, <<>>, F)
    BY <1>1, <1>2, <1>4 DEF Foldable
  <2>. QED BY <2>1, FoldExists
<1>6. \A i \in 1 .. n : i \in 0 .. n /\ i - 1 \in 0 .. n /\ i # 0
  BY <1>1
<1>7. \A i \in 0 .. n : h[i] = IF i = 0 THEN <<>> ELSE Kept(h[i - 1], v, i)
  <2>1. \A i \in 0 .. n : i # 0 => i \in 1 .. n
    BY <1>1
  <2>2. \A i \in 1 .. n : h[i - 1] \in P
    BY <1>5, <1>6, Zenon DEF Folds
  <2>. QED BY <1>2, <1>5, <2>1, <2>2, Zenon DEF Folds
<1>8. h \in [0 .. n -> P]
  BY <1>5 DEF Folds
<1>9. Upto(h)
  BY <1>7, <1>8
<1>10. Upto(upto)
  BY <1>9, Zenon
<1>. HIDE DEF upto
<1>11. \A i \in 0 .. n : upto[i] = IF i = 0 THEN <<>> ELSE Kept(upto[i - 1], v, i)
  BY <1>10, Zenon
<1>12. 0 \in 0 .. n /\ n \in 0 .. n
  BY <1>1
<1>13. \A i \in 0 .. n : upto[i] = h[i]
  <2>1. upto[0] = h[0]
    BY <1>7, <1>11, <1>12, Zenon
  <2>2. \A i \in 1 .. n : upto[i - 1] = h[i - 1] => upto[i] = h[i]
    BY <1>6, <1>7, <1>11, Zenon
  <2>3. Together(n, upto, h)
    BY <1>1, <2>1, <2>2, Zenon DEF Together
  <2>. QED BY <2>3, Stepwise
<1>. QED BY <1>3, <1>7, <1>8, <1>12, <1>13, Zenon DEF Collapsing, n, P

LEMMA CollapsedNone == Collapsed(<<>>) = <<>>
<1>1. <<>> \in Seq({}) /\ Len(<<>>) = 0
  OBVIOUS
<1>2. PICK h : Collapsing(h, <<>>) /\ h[0] = Collapsed(<<>>)
  BY <1>1, CollapsedIs
<1>. QED BY <1>1, <1>2 DEF Collapsing

\* Another slash.
Again(v, x) == v # <<>> /\ x = "/" /\ v[Len(v)] = "/"

LEMMA CollapsedAppend ==
  ASSUME NEW S, NEW v \in Seq(S), NEW x \in S
  PROVE  Collapsed(Append(v, x)) = IF Again(v, x) THEN Collapsed(v) ELSE Append(Collapsed(v), x)
<1>1. PICK w : w = Append(v, x)
  OBVIOUS
<1>2. PICK n \in Nat : n = Len(v)
  OBVIOUS
<1>3. w \in Seq(S) /\ Len(w) = n + 1 /\ w[n + 1] = x /\ \A i \in 1 .. n : w[i] = v[i]
  BY <1>1, <1>2, AppendProperties
<1>4. PICK g : Collapsing(g, v) /\ g[n] = Collapsed(v)
  BY <1>2, CollapsedIs
<1>5. PICK h : Collapsing(h, w) /\ h[n + 1] = Collapsed(w)
  BY <1>3, CollapsedIs
<1>6. \A i \in 0 .. n : g[i] = IF i = 0 THEN <<>> ELSE Kept(g[i - 1], v, i)
  BY <1>2, <1>4 DEF Collapsing
<1>7. \A i \in 0 .. n + 1 : h[i] = IF i = 0 THEN <<>> ELSE Kept(h[i - 1], w, i)
  BY <1>3, <1>5 DEF Collapsing
<1>8. /\ \A i \in 1 .. n : i \in 0 .. n /\ i \in 0 .. n + 1 /\ i # 0
      /\ 0 \in 0 .. n /\ 0 \in 0 .. n + 1 /\ n \in 0 .. n
      /\ n + 1 \in 0 .. n + 1 /\ n + 1 # 0 /\ (n + 1) - 1 = n
  OBVIOUS
<1>9. \A i \in 0 .. n : g[i] = h[i]
  <2>1. g[0] = h[0]
    BY <1>6, <1>7, <1>8, Zenon
  <2>2. ASSUME NEW i \in 1 .. n, NEW c PROVE Kept(c, w, i) = Kept(c, v, i)
    <3>1. w[i] = v[i]
      BY <1>3
    <3>2. i > 1 => w[i - 1] = v[i - 1]
      <4>1. i > 1 => i - 1 \in 1 .. n
        OBVIOUS
      <4>. QED BY <1>3, <4>1
    <3>. QED BY <3>1, <3>2, Zenon DEF Kept
  <2>3. \A i \in 1 .. n : g[i - 1] = h[i - 1] => g[i] = h[i]
    BY <1>6, <1>7, <1>8, <2>2, Zenon
  <2>4. Together(n, g, h)
    BY <2>1, <2>3, Zenon DEF Together
  <2>. QED BY <2>4, Stepwise
<1>10. h[n + 1] = Kept(h[n], w, n + 1)
  BY <1>7, <1>8, Zenon
<1>11. Kept(h[n], w, n + 1) = IF Again(v, x) THEN h[n] ELSE Append(h[n], x)
  <2>1. v = <<>> <=> ~(n + 1 > 1)
    BY <1>2
  <2>2. n + 1 > 1 => w[n] = v[n]
    BY <1>3
  <2>3. Kept(h[n], w, n + 1) = IF n + 1 > 1 /\ w[n + 1] = "/" /\ w[n] = "/" THEN h[n] ELSE Append(h[n], w[n + 1])
    BY <1>8, Zenon DEF Kept
  <2>4. Again(v, x) <=> n + 1 > 1 /\ w[n + 1] = "/" /\ w[n] = "/"
    BY <1>2, <1>3, <2>1, <2>2, Zenon DEF Again
  <2>. QED BY <1>3, <2>3, <2>4, Zenon
<1>12. g[n] = h[n]
  BY <1>8, <1>9, Zenon
<1>. QED BY <1>1, <1>4, <1>5, <1>10, <1>11, <1>12, Zenon

-----------------------------------------------------------------------------
(* Tidied paths *)

LEMMA PutLast ==
  ASSUME NEW S, NEW f \in Seq(Seq(S)), NEW l \in Seq(S), NEW x \in S, NEW c
  PROVE  Put(Append(f, l), x, c) =
           IF x = c THEN Append(Append(f, l), <<>>) ELSE Append(f, Append(l, x))
<1>1. CASE x = c
  BY <1>1, Zenon DEF Put
<1>2. CASE x # c
  <2>1. PICK n \in Nat : n = Len(f)
    OBVIOUS
  <2>2. PICK p, m : p = Append(f, l) /\ m = Append(l, x)
    OBVIOUS
  <2>3. p \in Seq(Seq(S)) /\ Len(p) = n + 1 /\ p[n + 1] = l /\ \A i \in 1 .. n : p[i] = f[i]
    BY <2>1, <2>2, AppendProperties
  <2>4. m \in Seq(S)
    BY <2>2, AppendProperties
  <2>5. PICK r : r = [p EXCEPT ![n + 1] = m]
    OBVIOUS
  <2>6. Put(p, x, c) = r
    BY <1>2, <2>2, <2>3, <2>5 DEF Put
  <2>7. r \in Seq(Seq(S)) /\ Len(r) = n + 1 /\ \A i \in 1 .. n + 1 : r[i] = IF i = n + 1 THEN m ELSE p[i]
    <3>1. PICK k \in 1 .. Len(p) : k = n + 1
      BY <2>3
    <3>2. r = [p EXCEPT ![k] = m]
      BY <2>5, <3>1
    <3>3. r \in Seq(Seq(S)) /\ Len(r) = Len(p) /\ \A i \in 1 .. Len(p) : r[i] = IF i = k THEN m ELSE p[i]
      BY <2>3, <2>4, <3>2, ExceptSeq
    <3>. QED BY <2>3, <3>1, <3>3
  <2>8. PICK s : s = Append(f, m)
    OBVIOUS
  <2>9. s \in Seq(Seq(S)) /\ Len(s) = n + 1 /\ s[n + 1] = m /\ \A i \in 1 .. n : s[i] = f[i]
    BY <2>1, <2>4, <2>8, AppendProperties
  <2>10. ASSUME NEW i \in 1 .. Len(r) PROVE r[i] = s[i]
    <3>1. CASE i = n + 1
      BY <2>7, <2>9, <3>1
    <3>2. CASE i # n + 1
      <4>1. i \in 1 .. n /\ i \in 1 .. n + 1
        BY <2>7, <3>2
      <4>. QED BY <2>3, <2>7, <2>9, <3>2, <4>1, Zenon
    <3>. QED BY <3>1, <3>2
  <2>11. r = s
    BY <2>7, <2>9, <2>10, SeqEqual
  <2>. QED BY <1>2, <2>2, <2>6, <2>8, <2>11, Zenon
<1>. QED BY <1>1, <1>2

\* From where either leads, any further name leads to the same place.
Onward(f, g) == \A at \in Places : \A y : Step(Walk(at, f), y) = Step(Walk(at, g), y)

\* The pieces p and q of two paths, the second of which is v, but for their last one.
Alike(S, p, q, v) ==
  \E f, g \in Seq(Seq(S)), l \in Seq(S) :
    /\ p = Append(f, l) /\ q = Append(g, l)
    /\ v # <<>> /\ v[Len(v)] = "/" => l = <<>>
    /\ Onward(f, g)

LEMMA AlikeAppend ==
  ASSUME NEW S, NEW p, NEW q, NEW v \in Seq(S), Alike(S, p, q, v), NEW x \in S
  PROVE  /\ Alike(S, Put(p, x, "/"), Put(q, x, "/"), Append(v, x))
         /\ Again(v, x) => Alike(S, p, Put(q, x, "/"), Append(v, x))
<1>1. PICK f \in Seq(Seq(S)), g \in Seq(Seq(S)), l \in Seq(S) :
        /\ p = Append(f, l) /\ q = Append(g, l)
        /\ v # <<>> /\ v[Len(v)] = "/" => l = <<>>
        /\ Onward(f, g)
  BY Zenon DEF Alike
<1>2. PICK w : w = Append(v, x)
  OBVIOUS
<1>3. w # <<>> /\ w[Len(w)] = x
  BY <1>2, AppendProperties
<1>4. \A at \in Places : Walk(at, f) \in Places /\ Walk(at, g) \in Places
  BY WalkIn
<1>5. PICK F, G : F = Append(f, l) /\ G = Append(g, l)
  OBVIOUS
<1>6. F \in Seq(Seq(S)) /\ G \in Seq(Seq(S)) /\ <<>> \in Seq(S)
  <2>1. F \in Seq(Seq(S))
    BY <1>5, AppendProperties
  <2>2. G \in Seq(Seq(S))
    BY <1>5, AppendProperties
  <2>3. <<>> \in Seq(S)
    OBVIOUS
  <2>. QED BY <2>1, <2>2, <2>3
<1>7. \A at \in Places : Walk(at, F) = Step(Walk(at, f), l) /\ Walk(at, G) = Step(Walk(at, g), l)
  <2>1. \A at \in Places : Walk(at, Append(f, l)) = Step(Walk(at, f), l)
    BY WalkAppend
  <2>2. \A at \in Places : Walk(at, Append(g, l)) = Step(Walk(at, g), l)
    BY WalkAppend
  <2>. QED BY <1>5, <2>1, <2>2, Zenon
<1>8. CASE x = "/"
  <2>1. Put(p, x, "/") = Append(F, <<>>) /\ Put(q, x, "/") = Append(G, <<>>)
    <3>1. Put(Append(f, l), x, "/") = Append(Append(f, l), <<>>)
      BY <1>8, PutLast
    <3>2. Put(Append(g, l), x, "/") = Append(Append(g, l), <<>>)
      BY <1>8, PutLast
    <3>. QED BY <1>1, <1>5, <3>1, <3>2, Zenon
  <2>2. Onward(F, G)
    BY <1>1, <1>7, Zenon DEF Onward
  <2>3. Alike(S, Put(p, x, "/"), Put(q, x, "/"), w)
    BY <1>6, <2>1, <2>2, Zenon DEF Alike
  <2>4. ASSUME Again(v, x) PROVE Alike(S, p, Put(q, x, "/"), w)
    <3>1. l = <<>>
      BY <1>1, <2>4, Zenon DEF Again
    <3>2. Onward(f, G)
      <4>1. ASSUME NEW at \in Places, NEW y PROVE Step(Walk(at, f), y) = Step(Walk(at, G), y)
        <5>1. PICK m \in Places : m = Walk(at, g)
          BY <1>4
        <5>2. Step(Walk(at, f), y) = Step(m, y)
          BY <1>1, <5>1, Zenon DEF Onward
        <5>3. Walk(at, G) = Step(m, <<>>)
          BY <1>7, <3>1, <5>1, Zenon
        <5>4. Step(Step(m, <<>>), y) = Step(m, y)
          <6>1. CASE m \in Dirs
            BY <6>1, StepIs
          <6>2. CASE m \notin Dirs
            BY <6>2, StepIs, NowhereIsNoPlace
          <6>. QED BY <6>1, <6>2
        <5>. QED BY <5>2, <5>3, <5>4, Zenon
      <4>. QED BY <4>1, Zenon DEF Onward
    <3>. QED BY <1>1, <1>6, <2>1, <3>1, <3>2, Zenon DEF Alike
  <2>. QED BY <1>2, <2>3, <2>4, Zenon
<1>9. CASE x # "/"
  <2>1. PICK m \in Seq(S) : m = Append(l, x)
    <3>1. Append(l, x) \in Seq(S)
      BY AppendProperties
    <3>. QED BY <3>1
  <2>2. Put(p, x, "/") = Append(f, m) /\ Put(q, x, "/") = Append(g, m)
    <3>1. Put(Append(f, l), x, "/") = Append(f, Append(l, x))
      BY <1>9, PutLast
    <3>2. Put(Append(g, l), x, "/") = Append(g, Append(l, x))
      BY <1>9, PutLast
    <3>. QED BY <1>1, <2>1, <3>1, <3>2, Zenon
  <2>3. Alike(S, Put(p, x, "/"), Put(q, x, "/"), w)
    BY <1>1, <1>3, <1>9, <2>2, Zenon DEF Alike
  <2>4. ~Again(v, x)
    BY <1>9, Zenon DEF Again
  <2>. QED BY <1>2, <2>3, <2>4, Zenon
<1>. QED BY <1>8, <1>9

\* No two slashes stand together.
Single(v) == \A i \in 2 .. Len(v) : ~(v[i] = "/" /\ v[i - 1] = "/")

\* What is left of a path when its repeated slashes are one.
CollapsedFrom(S, c, v) ==
  /\ c \in Seq(S)
  /\ c = <<>> <=> v = <<>>
  /\ v # <<>> => c[1] = v[1] /\ c[Len(c)] = v[Len(v)]
  /\ Single(c)
  /\ Single(v) => c = v
  /\ Alike(S, Pieces(c, "/"), Pieces(v, "/"), v)

LEMMA CollapsedHas ==
  ASSUME NEW S, NEW v \in Seq(S)
  PROVE  CollapsedFrom(S, Collapsed(v), v)
<1>. DEFINE A == {u \in Seq(S) : CollapsedFrom(S, Collapsed(u), u)}
<1>1. <<>> \in A
  <2>1. PICK e \in Seq(S) : e = <<>>
    <3>1. <<>> \in Seq(S)
      OBVIOUS
    <3>. QED BY <3>1, Zenon
  <2>2. Collapsed(e) = e
    BY <2>1, CollapsedNone
  <2>3. Single(e)
    <3>1. Len(e) = 0
      BY <2>1
    <3>. QED BY <3>1 DEF Single
  <2>4. Alike(S, Pieces(e, "/"), Pieces(e, "/"), e)
    <3>1. Pieces(e, "/") = << <<>> >>
      BY <2>1, PiecesNone
    <3>2. PICK r \in Seq(Seq(S)) : r = <<>>
      <4>1. <<>> \in Seq(Seq(S))
        OBVIOUS
      <4>. QED BY <4>1, Zenon
    <3>3. << <<>> >> = Append(r, e)
      BY <2>1, <3>2
    <3>4. Onward(r, r)
      BY Zenon DEF Onward
    <3>. QED BY <2>1, <3>1, <3>3, <3>4, Zenon DEF Alike
  <2>5. CollapsedFrom(S, Collapsed(e), e)
    BY <2>1, <2>2, <2>3, <2>4, Zenon DEF CollapsedFrom
  <2>. QED BY <2>1, <2>5, Zenon
<1>2. ASSUME NEW u \in Seq(S), NEW x \in S, u \in A PROVE Append(u, x) \in A
  <2>1. PICK w : w = Append(u, x)
    OBVIOUS
  <2>2. PICK n \in Nat : n = Len(u)
    OBVIOUS
  <2>3. w \in Seq(S) /\ Len(w) = n + 1 /\ w[n + 1] = x /\ \A i \in 1 .. n : w[i] = u[i]
    BY <2>1, <2>2, AppendProperties
  <2>4. PICK c : c = Collapsed(u) /\ CollapsedFrom(S, c, u)
    BY <1>2
  <2>5. PICK d : d = Collapsed(w)
    OBVIOUS
  <2>6. d = IF Again(u, x) THEN c ELSE Append(c, x)
    BY <2>1, <2>4, <2>5, CollapsedAppend
  <2>. HIDE DEF A
  <2>7. /\ c \in Seq(S) /\ (c = <<>> <=> u = <<>>) /\ Single(c) /\ (Single(u) => c = u)
        /\ u # <<>> => c[1] = u[1] /\ c[Len(c)] = u[Len(u)]
        /\ Alike(S, Pieces(c, "/"), Pieces(u, "/"), u)
    BY <2>4, Zenon DEF CollapsedFrom
  <2>8. w # <<>> /\ w[Len(w)] = x /\ (u # <<>> => w[1] = u[1])
    <3>1. u # <<>> => 1 \in 1 .. n
      BY <2>2
    <3>. QED BY <2>3, <3>1
  <2>9. Pieces(w, "/") = Put(Pieces(u, "/"), x, "/")
    BY <2>1, PiecesAppend
  <2>10. ASSUME Again(u, x) PROVE CollapsedFrom(S, d, w)
    <3>1. d = c
      BY <2>6, <2>10
    <3>2. u # <<>> /\ x = "/" /\ u[n] = "/"
      BY <2>2, <2>10, Zenon DEF Again
    <3>3. ~Single(w)
      <4>1. n + 1 \in 2 .. Len(w) /\ (n + 1) - 1 = n /\ n \in 1 .. n
        BY <2>2, <2>3, <3>2
      <4>2. w[n + 1] = "/" /\ w[n] = "/"
        BY <2>3, <3>2, <4>1
      <4>. QED BY <4>1, <4>2, Zenon DEF Single
    <3>4. d[1] = w[1] /\ d[Len(d)] = w[Len(w)]
      BY <2>2, <2>7, <2>8, <3>1, <3>2, Zenon
    <3>5. Alike(S, Pieces(d, "/"), Pieces(w, "/"), w)
      <4>1. Alike(S, Pieces(c, "/"), Put(Pieces(u, "/"), x, "/"), Append(u, x))
        BY <2>7, <2>10, AlikeAppend
      <4>. QED BY <2>1, <2>9, <3>1, <4>1, Zenon
    <3>. QED BY <2>7, <2>8, <3>1, <3>2, <3>3, <3>4, <3>5, Zenon DEF CollapsedFrom
  <2>11. ASSUME ~Again(u, x) PROVE CollapsedFrom(S, d, w)
    <3>1. PICK m \in Nat : m = Len(c)
      BY <2>7
    <3>2. d = Append(c, x)
      BY <2>6, <2>11
    <3>3. d \in Seq(S) /\ Len(d) = m + 1 /\ d[m + 1] = x /\ \A i \in 1 .. m : d[i] = c[i]
      BY <2>7, <3>1, <3>2, AppendProperties
    <3>4. d # <<>> /\ d[Len(d)] = w[Len(w)]
      BY <2>8, <3>3
    <3>5. d[1] = w[1]
      <4>1. CASE u = <<>>
        <5>1. m = 0 /\ n = 0
          BY <2>2, <2>7, <3>1, <4>1
        <5>. QED BY <2>3, <3>3, <5>1
      <4>2. CASE u # <<>>
        <5>1. 1 \in 1 .. m
          BY <2>7, <3>1, <4>2
        <5>2. d[1] = c[1]
          BY <3>3, <5>1
        <5>. QED BY <2>7, <2>8, <4>2, <5>2
      <4>. QED BY <4>1, <4>2
    <3>6. Single(d)
      <4>1. ASSUME NEW i \in 2 .. Len(d), d[i] = "/", d[i - 1] = "/" PROVE FALSE
        <5>1. CASE i = m + 1
          <6>1. x = "/" /\ m \in 1 .. m /\ i - 1 = m
            BY <3>1, <3>3, <4>1, <5>1
          <6>2. d[m] = c[m]
            BY <3>3, <6>1, Zenon
          <6>3. c[Len(c)] = "/" /\ c # <<>>
            BY <3>1, <4>1, <6>1, <6>2
          <6>4. u # <<>> /\ u[Len(u)] = "/"
            BY <2>7, <6>3, Zenon
          <6>. QED BY <2>11, <6>1, <6>4, Zenon DEF Again
        <5>2. CASE i # m + 1
          <6>1. i \in 2 .. m /\ i \in 1 .. m /\ i - 1 \in 1 .. m
            BY <3>3, <5>2
          <6>2. c[i] = "/" /\ c[i - 1] = "/"
            BY <3>3, <4>1, <6>1, Zenon
          <6>. QED BY <2>7, <3>1, <6>1, <6>2, Zenon DEF Single
        <5>. QED BY <5>1, <5>2
      <4>. QED BY <4>1, Zenon DEF Single
    <3>7. ASSUME Single(w) PROVE d = w
      <4>1. ASSUME NEW i \in 2 .. n, u[i] = "/", u[i - 1] = "/" PROVE FALSE
        <5>1. i \in 2 .. Len(w) /\ i \in 1 .. n /\ i - 1 \in 1 .. n
          BY <2>3
        <5>2. w[i] = "/" /\ w[i - 1] = "/"
          BY <2>3, <4>1, <5>1, Zenon
        <5>. QED BY <3>7, <5>1, <5>2, Zenon DEF Single
      <4>2. Single(u)
        BY <2>2, <4>1, Zenon DEF Single
      <4>. QED BY <2>1, <2>7, <3>2, <4>2, Zenon
    <3>8. Alike(S, Pieces(d, "/"), Pieces(w, "/"), w)
      <4>1. Alike(S, Put(Pieces(c, "/"), x, "/"), Put(Pieces(u, "/"), x, "/"), Append(u, x))
        BY <2>7, AlikeAppend
      <4>2. Pieces(Append(c, x), "/") = Put(Pieces(c, "/"), x, "/")
        BY <2>7, PiecesAppend
      <4>. QED BY <2>1, <2>9, <3>2, <4>1, <4>2, Zenon
    <3>. QED BY <2>8, <3>3, <3>4, <3>5, <3>6, <3>7, <3>8, Zenon DEF CollapsedFrom
  <2>12. CollapsedFrom(S, Collapsed(w), w)
    BY <2>5, <2>10, <2>11
  <2>. QED BY <2>1, <2>3, <2>12, Zenon DEF A
<1>3. v \in A
  <2>. HIDE DEF A
  <2>. QED BY <1>1, <1>2, Longer
<1>. QED BY <1>3, Zenon

\* It leads where the path leads.
LEMMA CollapsedLeads ==
  ASSUME NEW S, NEW v \in Seq(S)
  PROVE  Lookup(Collapsed(v)) = Lookup(v)
<1>1. PICK c : c = Collapsed(v) /\ CollapsedFrom(S, c, v)
  BY CollapsedHas
<1>2. CASE v = <<>>
  BY <1>1, <1>2, CollapsedNone
<1>3. CASE v # <<>>
  <2>1. c \in Seq(S) /\ c # <<>> /\ c[1] = v[1] /\ Alike(S, Pieces(c, "/"), Pieces(v, "/"), v)
    BY <1>1, <1>3, Zenon DEF CollapsedFrom
  <2>2. PICK f \in Seq(Seq(S)), g \in Seq(Seq(S)), l \in Seq(S) :
          Pieces(c, "/") = Append(f, l) /\ Pieces(v, "/") = Append(g, l) /\ Onward(f, g)
    BY <2>1, Zenon DEF Alike
  <2>3. PICK at \in Places : at = Start(v)
    BY <1>3, LookupIs
  <2>4. Start(c) = at
    BY <2>1, <2>3, Zenon DEF Start
  <2>5. Lookup(v) = Walk(at, Append(g, l))
    BY <1>3, <2>2, <2>3, LookupIs
  <2>6. Lookup(c) = Walk(at, Append(f, l))
    BY <2>1, <2>2, <2>4, LookupIs
  <2>7. Walk(at, Append(g, l)) = Step(Walk(at, g), l)
    BY WalkAppend
  <2>8. Walk(at, Append(f, l)) = Step(Walk(at, f), l)
    BY WalkAppend
  <2>9. Step(Walk(at, g), l) = Step(Walk(at, f), l)
    BY <2>2, Zenon DEF Onward
  <2>. QED BY <1>1, <2>5, <2>6, <2>7, <2>8, <2>9, Zenon
<1>. QED BY <1>2, <1>3

\* A path that ends in a slash leads to a directory or nowhere, the root to a directory.
LEMMA SlashLeads ==
  ASSUME NEW S, "/" \in S, NEW a \in Seq(S), EndsInSlash(a)
  PROVE  /\ Lookup(a) \in Dirs \cup {Nowhere}
         /\ Len(a) = 1 => Lookup(a) \in Dirs
<1>1. PICK u \in Seq(S) : u = Front(a) /\ Parted(a, u, <<>>) /\ a = u \o <<"/">>
  BY EndParts
<1>2. PICK e \in Seq(S) : e = <<>>
  <2>1. <<>> \in Seq(S)
    OBVIOUS
  <2>. QED BY <2>1, Zenon
<1>3. Parted(a, u, e)
  BY <1>1, <1>2, Zenon
<1>4. /\ Start(a) = IF u = <<>> THEN <<>> ELSE Start(u)
      /\ Lookup(a) = Walk(Walk(Start(a), Pieces(u, "/")), Pieces(e, "/"))
  BY <1>3, LookupJoin
<1>5. a # <<>> /\ Start(a) \in Dirs /\ Start(a) \in Places
  BY LookupIs DEF EndsInSlash
<1>6. PICK m \in Places : m = Walk(Start(a), Pieces(u, "/"))
  <2>1. Pieces(u, "/") \in Seq(Seq(S))
    BY PiecesIn DEF SomePieces
  <2>. QED BY <1>5, <2>1, WalkIn
<1>7. Lookup(a) = Step(m, <<>>)
  <2>1. Pieces(e, "/") = << <<>> >>
    BY <1>2, PiecesNone
  <2>2. Walk(m, << <<>> >>) = Step(m, <<>>)
    BY WalkOne
  <2>. QED BY <1>4, <1>6, <2>1, <2>2, Zenon
<1>8. Lookup(a) = IF m \in Dirs THEN m ELSE Nowhere
  BY <1>7, StepIs
<1>9. u = <<>> <=> Len(a) = 1
  <2>1. Len(a) = Len(u) + 1
    BY <1>1
  <2>. QED BY <2>1
<1>10. ASSUME u = <<>> PROVE Lookup(a) \in Dirs
  <2>1. Pieces(u, "/") = << <<>> >>
    BY <1>10, PiecesNone
  <2>2. Walk(Start(a), << <<>> >>) = Step(Start(a), <<>>)
    BY <1>5, WalkOne
  <2>3. m = Start(a)
    BY <1>5, <1>6, <2>1, <2>2, StepIs
  <2>. QED BY <1>5, <1>8, <2>3
<1>. QED BY <1>8, <1>9, <1>10

LEMMA Tidied ==
  ASSUME NEW S, "/" \in S, NEW v \in Seq(S), NEW t, t = tidy_up_path(v)
  PROVE  /\ Lookup(v) # Nowhere => Lookup(t) = Lookup(v)
         /\ tidy_up_path(t) = t
         /\ Single(t)
         /\ EndsInSlash(t) => Lookup(t) \in Dirs
<1>1. PICK c : c = Collapsed(v)
  OBVIOUS
<1>2. c \in Seq(S) /\ Single(c) /\ Lookup(c) = Lookup(v)
  <2>1. CollapsedFrom(S, c, v)
    BY <1>1, CollapsedHas
  <2>2. Lookup(c) = Lookup(v)
    BY <1>1, CollapsedLeads
  <2>. QED BY <2>1, <2>2, Zenon DEF CollapsedFrom
<1>3. ASSUME NEW u \in Seq(S), Single(u) PROVE Collapsed(u) = u
  <2>1. CollapsedFrom(S, Collapsed(u), u)
    BY CollapsedHas
  <2>. QED BY <1>3, <2>1, Zenon DEF CollapsedFrom
<1>4. CASE Len(c) > 1 /\ EndsInSlash(c) /\ Lookup(c) \notin Dirs
  <2>1. t = Front(c)
    BY <1>1, <1>4, Zenon DEF tidy_up_path
  <2>2. PICK n \in Nat : Len(c) = n + 1 /\ n \in 1 .. n
    <3>1. Len(c) \in Nat
      BY <1>2
    <3>2. Len(c) - 1 \in Nat /\ Len(c) = (Len(c) - 1) + 1 /\ Len(c) - 1 \in 1 .. Len(c) - 1
      BY <1>4, <3>1
    <3>. QED BY <3>2
  <2>3. t = SubSeq(c, 1, n)
    <3>1. (n + 1) - 1 = n
      OBVIOUS
    <3>. QED BY <2>1, <2>2, <3>1, Zenon DEF Front
  <2>4. t \in Seq(S) /\ Len(t) = n /\ \A i \in 1 .. n : t[i] = c[i]
    BY <1>2, <2>2, <2>3
  <2>5. Single(t)
    <3>1. ASSUME NEW i \in 2 .. Len(t), t[i] = "/", t[i - 1] = "/" PROVE FALSE
      <4>1. i \in 1 .. n /\ i - 1 \in 1 .. n /\ i \in 2 .. Len(c)
        BY <2>2, <2>4
      <4>2. c[i] = "/" /\ c[i - 1] = "/"
        BY <2>4, <3>1, <4>1, Zenon
      <4>. QED BY <1>2, <4>1, <4>2, Zenon DEF Single
    <3>. QED BY <3>1, Zenon DEF Single
  <2>6. ~EndsInSlash(t)
    <3>1. c[n + 1] = "/"
      BY <1>4, <2>2, Zenon DEF EndsInSlash
    <3>2. n + 1 \in 2 .. Len(c) /\ (n + 1) - 1 = n
      BY <2>2
    <3>3. c[n] # "/"
      BY <1>2, <3>1, <3>2, Zenon DEF Single
    <3>4. t[Len(t)] = c[n]
      BY <2>2, <2>4
    <3>. QED BY <3>3, <3>4, Zenon DEF EndsInSlash
  <2>7. Collapsed(t) = t
    BY <1>3, <2>4, <2>5
  <2>8. tidy_up_path(t) = t
    BY <2>6, <2>7, Zenon DEF tidy_up_path
  <2>9. Lookup(c) = Nowhere
    BY <1>2, <1>4, SlashLeads
  <2>. QED BY <1>2, <2>5, <2>6, <2>8, <2>9
<1>5. CASE ~(Len(c) > 1 /\ EndsInSlash(c) /\ Lookup(c) \notin Dirs)
  <2>1. t = c
    BY <1>1, <1>5, Zenon DEF tidy_up_path
  <2>2. Collapsed(c) = c
    BY <1>2, <1>3
  <2>3. tidy_up_path(c) = c
    BY <1>5, <2>2, Zenon DEF tidy_up_path
  <2>4. ASSUME EndsInSlash(c) PROVE Lookup(c) \in Dirs
    <3>1. CASE Len(c) > 1
      BY <1>5, <2>4, <3>1
    <3>2. CASE ~(Len(c) > 1)
      <4>1. Len(c) = 1
        <5>1. c # <<>>
          BY <2>4, Zenon DEF EndsInSlash
        <5>2. c \in Seq(S)
          BY <1>2
        <5>3. PICK m \in Nat : m = Len(c) /\ m # 0
          BY <5>1, <5>2
        <5>4. ~(m > 1)
          BY <3>2, <5>3
        <5>5. m = 1
          BY <5>3, <5>4
        <5>. QED BY <5>3, <5>5
      <4>. QED BY <1>2, <2>4, <4>1, SlashLeads
    <3>. QED BY <3>1, <3>2
  <2>. QED BY <1>2, <2>1, <2>3, <2>4
<1>. QED BY <1>4, <1>5

LEMMA TidyFound ==
  ASSUME LineInv, kind = "path"
  PROVE  TidyLeads
<1>1. "/" \in PathChars /\ path \in Seq(PathChars)
  BY PathIn
<1>2. PICK t : t = tidy_up_path(path)
  OBVIOUS
<1>3. /\ Lookup(path) # Nowhere => Lookup(t) = Lookup(path)
      /\ tidy_up_path(t) = t
      /\ Single(t)
      /\ EndsInSlash(t) => Lookup(t) \in Dirs
  BY <1>1, <1>2, Tidied
<1>. QED BY <1>2, <1>3, Zenon DEF TidyLeads, Single

\* A tidied path, a joined one, one below the home directory and a canonical one lead where
\* the parts they are made of do, whatever is typed and whatever the directories hold.
THEOREM LeadsThere == LineSpec => []PathsLead
<1>1. LineInv => PathsLead
  BY TidyFound, JoinsFound, HomeFound DEF PathsLead
<1>. QED BY <1>1, LineInvariant, PTL

-----------------------------------------------------------------------------
(* file_utils.c: read_lines, for any contents, counts and size of its buffer *)

LEMMA LineIn ==
  ASSUME NEW S, NEW p \in Seq(Seq(S)), NEW x \in S
  PROVE  Line(p, x) \in Seq(Seq(S))
<1>1. PICK n \in Nat : n = Len(p)
  OBVIOUS
<1>2. <<x>> \in Seq(S)
  OBVIOUS
<1>3. Append(p, <<x>>) \in Seq(Seq(S))
  BY <1>2, AppendProperties
<1>4. CASE n = 0
  BY <1>1, <1>3, <1>4 DEF Line
<1>5. CASE n # 0
  <2>1. n \in 1 .. Len(p)
    BY <1>1, <1>5
  <2>2. p[n] \in Seq(S)
    BY <2>1
  <2>3. Append(p[n], x) \in Seq(S)
    BY <2>2, AppendProperties
  <2>4. [p EXCEPT ![n] = Append(p[n], x)] \in Seq(Seq(S))
    BY <2>1, <2>3, ExceptSeq
  <2>. QED BY <1>1, <1>3, <1>5, <2>4 DEF Line
<1>. QED BY <1>4, <1>5

\* The lines of v, as they are made of its beginnings.
Linewise(h, v) ==
  \A i \in 0 .. Len(v) : h[i] = IF i = 0 THEN <<>> ELSE Line(h[i - 1], v[i])

LEMMA LinesAre ==
  ASSUME NEW S, NEW v \in Seq(S)
  PROVE  \E h \in [0 .. Len(v) -> Seq(Seq(S))] : Linewise(h, v) /\ h[Len(v)] = LinesOf(v)
<1>. DEFINE n == Len(v)
            P == Seq(Seq(S))
            F == [i \in 1 .. n |-> [p \in P |-> Line(p, v[i])]]
            Upto(f) == f = [i \in 0 .. n |-> IF i = 0 THEN <<>> ELSE Line(f[i - 1], v[i])]
            upto == CHOOSE f : Upto(f)
<1>1. n \in Nat /\ \A i \in 1 .. n : v[i] \in S
  OBVIOUS
<1>2. \A i \in 1 .. n, p \in P : F[i][p] = Line(p, v[i]) /\ F[i][p] \in P
  BY <1>1, LineIn, Zenon
<1>3. LinesOf(v) = upto[n]
  BY Zenon DEF LinesOf
<1>4. <<>> \in P
  OBVIOUS
<1>. HIDE DEF n, F, P
<1>5. PICK h : Folds(h, n, P, <<>>, F)
  <2>1. Foldable(n, P, <<>>, F)
    BY <1>1, <1>2, <1>4 DEF Foldable
  <2>. QED BY <2>1, FoldExists
<1>6. \A i \in 1 .. n : i \in 0 .. n /\ i - 1 \in 0 .. n /\ i # 0
  BY <1>1
<1>7. \A i \in 0 .. n : h[i] = IF i = 0 THEN <<>> ELSE Line(h[i - 1], v[i])
  <2>1. \A i \in 0 .. n : i # 0 => i \in 1 .. n
    BY <1>1
  <2>2. \A i \in 1 .. n : h[i - 1] \in P
    BY <1>5, <1>6, Zenon DEF Folds
  <2>. QED BY <1>2, <1>5, <2>1, <2>2, Zenon DEF Folds
<1>8. h \in [0 .. n -> P]
  BY <1>5 DEF Folds
<1>9. Upto(h)
  BY <1>7, <1>8
<1>10. Upto(upto)
  BY <1>9, Zenon
<1>. HIDE DEF upto
<1>11. \A i \in 0 .. n : upto[i] = IF i = 0 THEN <<>> ELSE Line(upto[i - 1], v[i])
  BY <1>10, Zenon
<1>12. 0 \in 0 .. n /\ n \in 0 .. n
  BY <1>1
<1>13. \A i \in 0 .. n : upto[i] = h[i]
  <2>1. upto[0] = h[0]
    BY <1>7, <1>11, <1>12, Zenon
  <2>2. \A i \in 1 .. n : upto[i - 1] = h[i - 1] => upto[i] = h[i]
    BY <1>6, <1>7, <1>11, Zenon
  <2>3. Together(n, upto, h)
    BY <1>1, <2>1, <2>2, Zenon DEF Together
  <2>. QED BY <2>3, Stepwise
<1>. QED BY <1>3, <1>7, <1>8, <1>12, <1>13, Zenon DEF Linewise, n, P

LEMMA LinesNone == LinesOf(<<>>) = <<>>
<1>1. <<>> \in Seq(STRING) /\ Len(<<>>) = 0
  OBVIOUS
<1>2. PICK h : Linewise(h, <<>>) /\ h[0] = LinesOf(<<>>)
  BY <1>1, LinesAre
<1>. QED BY <1>1, <1>2 DEF Linewise

LEMMA LinesIn ==
  ASSUME NEW S, NEW v \in Seq(S)
  PROVE  LinesOf(v) \in Seq(Seq(S))
<1>1. Len(v) \in 0 .. Len(v)
  OBVIOUS
<1>. QED BY <1>1, LinesAre

LEMMA LinesAppend ==
  ASSUME NEW S, NEW v \in Seq(S), NEW x \in S
  PROVE  LinesOf(Append(v, x)) = Line(LinesOf(v), x)
<1>1. PICK w : w = Append(v, x)
  OBVIOUS
<1>2. PICK n \in Nat : n = Len(v)
  OBVIOUS
<1>3. w \in Seq(S) /\ Len(w) = n + 1 /\ w[n + 1] = x /\ \A i \in 1 .. n : w[i] = v[i]
  BY <1>1, <1>2, AppendProperties
<1>4. PICK g : Linewise(g, v) /\ g[n] = LinesOf(v)
  BY <1>2, LinesAre
<1>5. PICK h : Linewise(h, w) /\ h[n + 1] = LinesOf(w)
  BY <1>3, LinesAre
<1>6. \A i \in 0 .. n : g[i] = IF i = 0 THEN <<>> ELSE Line(g[i - 1], v[i])
  BY <1>2, <1>4 DEF Linewise
<1>7. \A i \in 0 .. n + 1 : h[i] = IF i = 0 THEN <<>> ELSE Line(h[i - 1], w[i])
  BY <1>3, <1>5 DEF Linewise
<1>8. /\ \A i \in 1 .. n : i \in 0 .. n /\ i \in 0 .. n + 1 /\ i # 0
      /\ 0 \in 0 .. n /\ 0 \in 0 .. n + 1 /\ n \in 0 .. n
      /\ n + 1 \in 0 .. n + 1 /\ n + 1 # 0 /\ (n + 1) - 1 = n
  OBVIOUS
<1>9. \A i \in 0 .. n : g[i] = h[i]
  <2>1. g[0] = h[0]
    BY <1>6, <1>7, <1>8, Zenon
  <2>2. \A i \in 1 .. n : g[i - 1] = h[i - 1] => g[i] = h[i]
    BY <1>3, <1>6, <1>7, <1>8, Zenon
  <2>3. Together(n, g, h)
    BY <2>1, <2>2, Zenon DEF Together
  <2>. QED BY <2>3, Stepwise
<1>10. h[n + 1] = Line(h[n], x)
  BY <1>3, <1>7, <1>8, Zenon
<1>. QED BY <1>1, <1>4, <1>5, <1>8, <1>9, <1>10, Zenon

\* The last line is at its end.
Ended(p) == p # <<>> /\ p[Len(p)][Len(p[Len(p)])] = NL

\* What is put behind lines leaves them alone, if they are at their end or others follow.
LEMMA LineBehind ==
  ASSUME NEW S, NEW q \in Seq(Seq(S)), NEW p \in Seq(Seq(S)), NEW x \in S,
         Ended(q) \/ p # <<>>
  PROVE  Line(q \o p, x) = q \o Line(p, x)
<1>1. PICK m \in Nat, n \in Nat : m = Len(q) /\ n = Len(p)
  OBVIOUS
<1>2. PICK r : r = q \o p
  OBVIOUS
<1>3. /\ r \in Seq(Seq(S)) /\ Len(r) = m + n
      /\ m # 0 => r[m] = q[m] \/ n # 0
      /\ n # 0 => r[m + n] = p[n]
  <2>1. /\ r \in Seq(Seq(S)) /\ Len(r) = m + n
        /\ \A i \in 1 .. m + n : r[i] = IF i <= m THEN q[i] ELSE p[i - m]
    BY <1>1, <1>2, ConcatProperties
  <2>2. m # 0 => m \in 1 .. m + n /\ m <= m
    OBVIOUS
  <2>3. n # 0 => m + n \in 1 .. m + n /\ ~(m + n <= m) /\ (m + n) - m = n
    OBVIOUS
  <2>. QED BY <2>1, <2>2, <2>3, Zenon
<1>4. PICK e \in Seq(S) : e = <<x>>
  <2>1. <<x>> \in Seq(S)
    OBVIOUS
  <2>. QED BY <2>1, Zenon
<1>5. Append(r, e) = q \o Append(p, e)
  <2>1. Append(r, e) = r \o <<e>> /\ Append(p, e) = p \o <<e>>
    BY <1>3, <1>4, AppendIsConcat
  <2>2. <<e>> \in Seq(Seq(S))
    BY <1>4
  <2>3. (q \o p) \o <<e>> = q \o (p \o <<e>>)
    BY <2>2, ConcatAssociative
  <2>. QED BY <1>2, <2>1, <2>3, Zenon
<1>6. CASE n = 0
  <2>1. p = <<>> /\ m # 0 /\ q[m][Len(q[m])] = NL
    <3>1. p = <<>>
      <4>1. Len(p) = 0
        BY <1>1, <1>6, Zenon
      <4>. QED BY <4>1, EmptySeq
    <3>2. q # <<>> /\ q[Len(q)][Len(q[Len(q)])] = NL
      BY <3>1, Zenon DEF Ended
    <3>3. m # 0
      BY <1>1, <3>2
    <3>. QED BY <1>1, <3>1, <3>2, <3>3, Zenon
  <2>2. Len(r) = m /\ r[m] = q[m]
    BY <1>3, <1>6, <2>1
  <2>3. Line(r, x) = Append(r, e)
    BY <1>4, <2>1, <2>2 DEF Line
  <2>4. Line(p, x) = Append(p, e)
    BY <1>1, <1>4, <1>6 DEF Line
  <2>. QED BY <1>2, <1>5, <2>3, <2>4, Zenon
<1>7. CASE n # 0 /\ p[n][Len(p[n])] = NL
  <2>1. Line(r, x) = Append(r, e)
    BY <1>3, <1>4, <1>7 DEF Line
  <2>2. Line(p, x) = Append(p, e)
    BY <1>1, <1>4, <1>7 DEF Line
  <2>. QED BY <1>2, <1>5, <2>1, <2>2, Zenon
<1>8. CASE n # 0 /\ p[n][Len(p[n])] # NL
  <2>1. \E c \in BOOLEAN : x # c
    <3>1. TRUE # FALSE
      BY Zenon
    <3>. QED BY <3>1
  <2>2. PICK c : x # c
    BY <2>1
  <2>3. Line(p, x) = Put(p, x, c)
    BY <1>1, <1>8, <2>2 DEF Line, Put
  <2>4. m + n # 0
    BY <1>8
  <2>5. Line(r, x) = Put(r, x, c)
    BY <1>3, <1>8, <2>2, <2>4 DEF Line, Put
  <2>6. p \in SomePieces(S)
    BY <1>1, <1>8 DEF SomePieces
  <2>7. Put(q \o p, x, c) = q \o Put(p, x, c)
    BY <2>6, PutBehind
  <2>. QED BY <1>2, <2>3, <2>5, <2>7, Zenon
<1>. QED BY <1>6, <1>7, <1>8

\* The lines of a text that begins with whole lines are those and the ones of the rest.
LEMMA LinesConcat ==
  ASSUME NEW S, NEW u \in Seq(S), NEW v \in Seq(S), Ended(LinesOf(u))
  PROVE  Joins(LinesOf(u \o v), LinesOf(u), LinesOf(v))
<1>. DEFINE A == {w \in Seq(S) : LinesOf(u \o w) = LinesOf(u) \o LinesOf(w)}
<1>1. PICK p \in Seq(Seq(S)) : p = LinesOf(u)
  BY LinesIn
<1>2. <<>> \in A
  <2>1. u \o <<>> = u /\ p \o <<>> = p /\ <<>> \in Seq(S)
    OBVIOUS
  <2>. QED BY <1>1, <2>1, LinesNone
<1>3. ASSUME NEW w \in Seq(S), NEW x \in S, w \in A PROVE Append(w, x) \in A
  <2>1. PICK l \in Seq(Seq(S)) : l = LinesOf(w)
    BY LinesIn
  <2>2. LinesOf(u \o w) = p \o l
    BY <1>1, <1>3, <2>1
  <2>3. u \o w \in Seq(S) /\ u \o Append(w, x) = Append(u \o w, x) /\ Append(w, x) \in Seq(S)
    OBVIOUS
  <2>4. LinesOf(u \o Append(w, x)) = Line(p \o l, x)
    BY <2>2, <2>3, LinesAppend, Zenon
  <2>5. Line(p \o l, x) = p \o Line(l, x)
    <3>1. Ended(p)
      BY <1>1, Zenon
    <3>. QED BY <2>1, <3>1, LineBehind
  <2>6. LinesOf(Append(w, x)) = Line(l, x)
    BY <2>1, LinesAppend
  <2>. QED BY <1>1, <2>3, <2>4, <2>5, <2>6
<1>. HIDE DEF A
<1>4. v \in A
  BY <1>2, <1>3, Longer
<1>5. LinesOf(u \o v) = LinesOf(u) \o LinesOf(v)
  BY <1>4 DEF A
<1>. QED BY <1>5, Zenon DEF Joins

\* What has no newline but a last one is a line.
OneLine(v) == v # <<>> /\ \A i \in 1 .. Len(v) - 1 : v[i] # NL

LEMMA LinesOne ==
  ASSUME NEW S, NEW v \in Seq(S), OneLine(v)
  PROVE  LinesOf(v) = <<v>>
<1>. DEFINE A == {w \in Seq(S) : OneLine(w) => LinesOf(w) = <<w>>}
<1>1. <<>> \in A
  BY DEF OneLine
<1>2. ASSUME NEW w \in Seq(S), NEW x \in S, w \in A PROVE Append(w, x) \in A
  <2>1. PICK y \in Seq(S) : y = Append(w, x)
    BY AppendProperties
  <2>2. LinesOf(y) = Line(LinesOf(w), x)
    BY <2>1, LinesAppend
  <2>3. CASE w = <<>>
    <3>1. LinesOf(w) = <<>> /\ Len(<<>>) = 0
      BY <2>3, LinesNone
    <3>2. Line(<<>>, x) = Append(<<>>, <<x>>)
      BY <3>1, Zenon DEF Line
    <3>3. y = <<x>> /\ Append(<<>>, <<x>>) = << <<x>> >>
      BY <2>1, <2>3
    <3>. QED BY <2>1, <2>2, <3>1, <3>2, <3>3, Zenon
  <2>4. CASE w # <<>>
    <3>. SUFFICES ASSUME OneLine(y) PROVE LinesOf(y) = <<y>>
      BY <2>1
    <3>1. PICK n \in Nat \ {0} : n = Len(w)
      BY <2>4
    <3>2. Len(y) = n + 1 /\ \A i \in 1 .. n : y[i] = w[i]
      BY <2>1, <3>1, AppendProperties
    <3>3. \A i \in 1 .. n : w[i] # NL
      BY <3>2 DEF OneLine
    <3>4. OneLine(w) /\ w[n] # NL
      BY <2>4, <3>1, <3>3 DEF OneLine
    <3>5. LinesOf(w) = <<w>>
      BY <1>2, <3>4
    <3>6. Len(<<w>>) = 1 /\ <<w>>[1] = w /\ [<<w>> EXCEPT ![1] = y] = <<y>>
      OBVIOUS
    <3>7. Line(<<w>>, x) = [<<w>> EXCEPT ![1] = y]
      <4>1. Line(<<w>>, x) = IF w[Len(w)] = NL THEN Append(<<w>>, <<x>>)
                             ELSE [<<w>> EXCEPT ![1] = Append(<<w>>[1], x)]
        <5>1. Line(<<w>>, x) = IF 1 = 0 \/ <<w>>[1][Len(<<w>>[1])] = NL THEN Append(<<w>>, <<x>>)
                               ELSE [<<w>> EXCEPT ![1] = Append(<<w>>[1], x)]
          BY <3>6, Zenon DEF Line
        <5>2. 1 # 0
          OBVIOUS
        <5>. QED BY <3>6, <5>1, <5>2, Zenon
      <4>. QED BY <2>1, <3>1, <3>4, <3>6, <4>1, Zenon
    <3>. QED BY <2>2, <3>5, <3>6, <3>7, Zenon
  <2>. QED BY <2>3, <2>4
<1>. HIDE DEF A
<1>3. v \in A
  BY <1>1, <1>2, Longer
<1>. QED BY <1>3 DEF A

\* The first line stands before the lines of the rest.
LEMMA LinesFirst ==
  ASSUME NEW S, NEW u \in Seq(S), NEW v \in Seq(S), OneLine(u), u[Len(u)] = NL \/ v = <<>>
  PROVE  Joins(LinesOf(u \o v), <<u>>, LinesOf(v))
<1>1. LinesOf(u) = <<u>>
  BY LinesOne
<1>2. CASE u[Len(u)] = NL
  <2>1. Ended(<<u>>)
    BY <1>2 DEF Ended
  <2>. QED BY <1>1, <2>1, LinesConcat
<1>3. CASE v = <<>>
  <2>1. u \o <<>> = u /\ <<u>> \o <<>> = <<u>>
    OBVIOUS
  <2>. QED BY <1>1, <1>3, <2>1, LinesNone, Zenon DEF Joins
<1>. QED BY <1>2, <1>3

\* A line and those that were wanted before.
Counted(w, l, skip) == IF skip /\ IsEmptyLine(l) THEN w ELSE Append(w, l)

LEMMA CountedIn ==
  ASSUME NEW T, NEW w \in Seq(T), NEW x \in T, NEW skip
  PROVE  Counted(w, x, skip) \in Seq(T)
BY AppendProperties DEF Counted

\* The lines wanted of v, as they are chosen one after the other.
Countwise(h, v, skip) ==
  \A i \in 0 .. Len(v) : h[i] = IF i = 0 THEN <<>> ELSE Counted(h[i - 1], v[i], skip)

LEMMA WantedAre ==
  ASSUME NEW T, NEW v \in Seq(T), NEW skip
  PROVE  \E h \in [0 .. Len(v) -> Seq(T)] : Countwise(h, v, skip) /\ h[Len(v)] = Wanted(v, skip)
<1>. DEFINE n == Len(v)
            P == Seq(T)
            F == [i \in 1 .. n |-> [p \in P |-> Counted(p, v[i], skip)]]
            Upto(f) == f = [i \in 0 .. n |-> IF i = 0 THEN <<>>
                                             ELSE IF skip /\ IsEmptyLine(v[i]) THEN f[i - 1]
                                             ELSE Append(f[i - 1], v[i])]
            upto == CHOOSE f : Upto(f)
<1>1. n \in Nat /\ \A i \in 1 .. n : v[i] \in T
  OBVIOUS
<1>2. \A i \in 1 .. n, p \in P : F[i][p] = Counted(p, v[i], skip) /\ F[i][p] \in P
  BY <1>1, CountedIn, Zenon
<1>3. Wanted(v, skip) = upto[n]
  BY Zenon DEF Wanted
<1>4. <<>> \in P
  OBVIOUS
<1>. HIDE DEF n, F, P
<1>5. PICK h : Folds(h, n, P, <<>>, F)
  <2>1. Foldable(n, P, <<>>, F)
    BY <1>1, <1>2, <1>4 DEF Foldable
  <2>. QED BY <2>1, FoldExists
<1>6. \A i \in 1 .. n : i \in 0 .. n /\ i - 1 \in 0 .. n /\ i # 0
  BY <1>1
<1>7. \A i \in 0 .. n : h[i] = IF i = 0 THEN <<>> ELSE Counted(h[i - 1], v[i], skip)
  <2>1. \A i \in 0 .. n : i # 0 => i \in 1 .. n
    BY <1>1
  <2>2. \A i \in 1 .. n : h[i - 1] \in P
    BY <1>5, <1>6, Zenon DEF Folds
  <2>. QED BY <1>2, <1>5, <2>1, <2>2, Zenon DEF Folds
<1>8. h \in [0 .. n -> P]
  BY <1>5 DEF Folds
<1>9. Upto(h)
  BY <1>7, <1>8 DEF Counted
<1>10. Upto(upto)
  BY <1>9, Zenon
<1>. HIDE DEF upto
<1>11. \A i \in 0 .. n : upto[i] = IF i = 0 THEN <<>> ELSE Counted(upto[i - 1], v[i], skip)
  BY <1>10, Zenon DEF Counted
<1>12. 0 \in 0 .. n /\ n \in 0 .. n
  BY <1>1
<1>13. \A i \in 0 .. n : upto[i] = h[i]
  <2>1. upto[0] = h[0]
    BY <1>7, <1>11, <1>12, Zenon
  <2>2. \A i \in 1 .. n : upto[i - 1] = h[i - 1] => upto[i] = h[i]
    BY <1>6, <1>7, <1>11, Zenon
  <2>3. Together(n, upto, h)
    BY <1>1, <2>1, <2>2, Zenon DEF Together
  <2>. QED BY <2>3, Stepwise
<1>. QED BY <1>3, <1>7, <1>8, <1>12, <1>13, Zenon DEF Countwise, n, P

LEMMA WantedNone == ASSUME NEW skip PROVE Wanted(<<>>, skip) = <<>>
<1>1. <<>> \in Seq(STRING) /\ Len(<<>>) = 0
  OBVIOUS
<1>2. PICK h : Countwise(h, <<>>, skip) /\ h[0] = Wanted(<<>>, skip)
  BY <1>1, WantedAre
<1>. QED BY <1>1, <1>2 DEF Countwise

LEMMA WantedIn ==
  ASSUME NEW T, NEW v \in Seq(T), NEW skip
  PROVE  Wanted(v, skip) \in Seq(T)
<1>1. Len(v) \in 0 .. Len(v)
  OBVIOUS
<1>. QED BY <1>1, WantedAre

LEMMA WantedAppend ==
  ASSUME NEW T, NEW v \in Seq(T), NEW x \in T, NEW skip
  PROVE  Wanted(Append(v, x), skip) = Counted(Wanted(v, skip), x, skip)
<1>1. PICK w : w = Append(v, x)
  OBVIOUS
<1>2. PICK n \in Nat : n = Len(v)
  OBVIOUS
<1>3. w \in Seq(T) /\ Len(w) = n + 1 /\ w[n + 1] = x /\ \A i \in 1 .. n : w[i] = v[i]
  BY <1>1, <1>2, AppendProperties
<1>4. PICK g : Countwise(g, v, skip) /\ g[n] = Wanted(v, skip)
  BY <1>2, WantedAre
<1>5. PICK h : Countwise(h, w, skip) /\ h[n + 1] = Wanted(w, skip)
  BY <1>3, WantedAre
<1>6. \A i \in 0 .. n : g[i] = IF i = 0 THEN <<>> ELSE Counted(g[i - 1], v[i], skip)
  BY <1>2, <1>4 DEF Countwise
<1>7. \A i \in 0 .. n + 1 : h[i] = IF i = 0 THEN <<>> ELSE Counted(h[i - 1], w[i], skip)
  BY <1>3, <1>5 DEF Countwise
<1>8. /\ \A i \in 1 .. n : i \in 0 .. n /\ i \in 0 .. n + 1 /\ i # 0
      /\ 0 \in 0 .. n /\ 0 \in 0 .. n + 1 /\ n \in 0 .. n
      /\ n + 1 \in 0 .. n + 1 /\ n + 1 # 0 /\ (n + 1) - 1 = n
  OBVIOUS
<1>9. \A i \in 0 .. n : g[i] = h[i]
  <2>1. g[0] = h[0]
    BY <1>6, <1>7, <1>8, Zenon
  <2>2. \A i \in 1 .. n : g[i - 1] = h[i - 1] => g[i] = h[i]
    BY <1>3, <1>6, <1>7, <1>8, Zenon
  <2>3. Together(n, g, h)
    BY <2>1, <2>2, Zenon DEF Together
  <2>. QED BY <2>3, Stepwise
<1>10. h[n + 1] = Counted(h[n], x, skip)
  BY <1>3, <1>7, <1>8, Zenon
<1>. QED BY <1>1, <1>4, <1>5, <1>8, <1>9, <1>10, Zenon

\* One more at the end of what another stands before.
LEMMA AppendBehind ==
  ASSUME NEW T, NEW p \in Seq(T), NEW q \in Seq(T), NEW y \in T
  PROVE  /\ p \o q \in Seq(T)
         /\ Append(p \o q, y) = p \o Append(q, y)
<1>1. p \o q \in Seq(T) /\ <<y>> \in Seq(T)
  BY ConcatProperties
<1>2. Append(p \o q, y) = (p \o q) \o <<y>> /\ Append(q, y) = q \o <<y>>
  BY <1>1, AppendIsConcat
<1>3. (p \o q) \o <<y>> = p \o (q \o <<y>>)
  BY <1>1, ConcatAssociative
<1>. QED BY <1>1, <1>2, <1>3, Zenon

\* Whether the first line is wanted makes no difference to the others.
WantedFrom(r, x, w, skip) == IF skip /\ IsEmptyLine(x) THEN r = w ELSE Joins(r, <<x>>, w)

LEMMA WantedFirst ==
  ASSUME NEW T, NEW x \in T, NEW v \in Seq(T), NEW skip, NEW l, Joins(l, <<x>>, v)
  PROVE  WantedFrom(Wanted(l, skip), x, Wanted(v, skip), skip)
<1>. DEFINE A == {u \in Seq(T) : WantedFrom(Wanted(<<x>> \o u, skip), x, Wanted(u, skip), skip)}
<1>1. <<>> \in A
  <2>1. <<x>> \o <<>> = Append(<<>>, x) /\ <<>> \in Seq(T) /\ Append(<<>>, x) = <<x>>
    OBVIOUS
  <2>2. Wanted(<<x>> \o <<>>, skip) = Counted(<<>>, x, skip)
    <3>1. Wanted(Append(<<>>, x), skip) = Counted(Wanted(<<>>, skip), x, skip)
      BY <2>1, WantedAppend
    <3>. QED BY <2>1, <3>1, WantedNone, Zenon
  <2>. QED BY <2>1, <2>2, WantedNone, Zenon DEF WantedFrom, Counted, Joins
<1>2. ASSUME NEW u \in Seq(T), NEW y \in T, u \in A PROVE Append(u, y) \in A
  <2>0. <<x>> \in Seq(T)
    OBVIOUS
  <2>1. PICK r \in Seq(T) : r = <<x>> \o u
    BY <2>0, ConcatProperties, Zenon
  <2>2. <<x>> \o Append(u, y) = Append(r, y) /\ Append(u, y) \in Seq(T)
    <3>1. Append(<<x>> \o u, y) = <<x>> \o Append(u, y)
      BY <2>0, AppendBehind
    <3>. QED BY <2>1, <3>1, AppendProperties
  <2>3. PICK w \in Seq(T) : w = Wanted(u, skip)
    BY WantedIn
  <2>4. PICK z \in Seq(T) : z = Wanted(r, skip)
    BY WantedIn
  <2>5. WantedFrom(z, x, w, skip)
    BY <1>2, <2>1, <2>3, <2>4
  <2>6. Wanted(Append(r, y), skip) = Counted(z, y, skip)
    BY <2>4, WantedAppend
  <2>7. Wanted(Append(u, y), skip) = Counted(w, y, skip)
    BY <2>3, WantedAppend
  <2>8. Append(<<x>> \o w, y) = <<x>> \o Append(w, y)
    BY <2>0, AppendBehind
  <2>9. WantedFrom(Counted(z, y, skip), x, Counted(w, y, skip), skip)
    BY <2>5, <2>8, Zenon DEF WantedFrom, Counted, Joins
  <2>10. WantedFrom(Wanted(<<x>> \o Append(u, y), skip), x, Wanted(Append(u, y), skip), skip)
    BY <2>2, <2>6, <2>7, <2>9, Zenon
  <2>. QED BY <2>2, <2>10
<1>. HIDE DEF A
<1>3. v \in A
  BY <1>1, <1>2, Longer
<1>4. WantedFrom(Wanted(<<x>> \o v, skip), x, Wanted(v, skip), skip)
  BY <1>3 DEF A
<1>. QED BY <1>4, Zenon DEF Joins

\* What the k-th of n lines adds to the text.
LinePart(l, k, n) == Trimmed(l) \o (IF k < n THEN <<NL>> ELSE <<>>)

Texted(t, l, k, n) == IF k > n THEN t ELSE t \o LinePart(l, k, n)

\* The same, as FirstLines says it.
TextedAs(t, l, k, n) ==
  IF k > n THEN t ELSE t \o Trimmed(l) \o (IF k < n THEN <<NL>> ELSE <<>>)

LEMMA TrimmedIn ==
  ASSUME NEW S, NEW l \in Seq(S)
  PROVE  Trimmed(l) \in Seq(S)
<1>1. PICK n \in Nat : n = Len(l)
  OBVIOUS
<1>2. ASSUME NEW m \in Int, m < n PROVE SubSeq(l, 1, m) \in Seq(S)
  <2>1. \A i \in 1 .. m : l[i] \in S
    BY <1>1, <1>2, ElementOfSeq
  <2>. QED BY <2>1, SubSeqProperties
<1>3. SubSeq(l, 1, n - 2) \in Seq(S) /\ SubSeq(l, 1, n - 1) \in Seq(S)
  BY <1>2
<1>. QED BY <1>1, <1>3, Zenon DEF Trimmed

LEMMA PartIn ==
  ASSUME NEW S, NL \in S, NEW l \in Seq(S), NEW k, NEW n
  PROVE  /\ LinePart(l, k, n) \in Seq(S)
         /\ Trimmed(l) \in Seq(S)
         /\ (IF k < n THEN <<NL>> ELSE <<>>) \in Seq(S)
<1>1. <<NL>> \in Seq(S) /\ <<>> \in Seq(S)
  OBVIOUS
<1>2. (IF k < n THEN <<NL>> ELSE <<>>) \in Seq(S)
  BY <1>1, Zenon
<1>3. PICK p \in Seq(S), q \in Seq(S) : p = Trimmed(l) /\ q = (IF k < n THEN <<NL>> ELSE <<>>)
  BY <1>2, TrimmedIn, Zenon
<1>4. p \o q \in Seq(S)
  BY ConcatProperties
<1>. QED BY <1>3, <1>4, Zenon DEF LinePart

LEMMA TextedIn ==
  ASSUME NEW S, NL \in S, NEW t \in Seq(S), NEW l \in Seq(S), NEW k, NEW n
  PROVE  /\ Texted(t, l, k, n) \in Seq(S)
         /\ Texted(t, l, k, n) = TextedAs(t, l, k, n)
<1>1. PICK p \in Seq(S), q \in Seq(S) : /\ p = Trimmed(l) /\ q = (IF k < n THEN <<NL>> ELSE <<>>)
                                        /\ LinePart(l, k, n) = p \o q
  BY PartIn, Zenon DEF LinePart
<1>2. t \o (p \o q) \in Seq(S) /\ (t \o p) \o q = t \o (p \o q)
  BY ConcatAssociative, ConcatProperties
<1>. QED BY <1>1, <1>2, Zenon DEF Texted, TextedAs

\* The text of the lines v, as it gets longer line by line.
Textwise(h, v, n) ==
  \A i \in 0 .. Len(v) : h[i] = IF i = 0 THEN <<>> ELSE Texted(h[i - 1], v[i], i, n)

LEMMA TextIs ==
  ASSUME NEW S, NL \in S, NEW v \in Seq(Seq(S)), NEW m
  PROVE  \E h \in [0 .. Len(v) -> Seq(S)] : Textwise(h, v, m) /\ h[Len(v)] = FirstLines(v, m)
<1>. DEFINE n == Len(v)
            P == Seq(S)
            More(t, i) == TextedAs(t, v[i], i, m)
            F == [i \in 1 .. n |-> [p \in P |-> Texted(p, v[i], i, m)]]
            Upto(f) == f = [i \in 0 .. n |-> IF i = 0 THEN <<>> ELSE More(f[i - 1], i)]
            upto == CHOOSE f : Upto(f)
<1>1. n \in Nat /\ \A i \in 1 .. n : v[i] \in Seq(S)
  OBVIOUS
<1>2. \A i \in 1 .. n, p \in P : /\ F[i][p] = Texted(p, v[i], i, m) /\ F[i][p] \in P
                                 /\ F[i][p] = More(p, i)
  <2>1. ASSUME NEW i \in 1 .. n, NEW p \in P
        PROVE  Texted(p, v[i], i, m) = More(p, i) /\ Texted(p, v[i], i, m) \in P
    <3>1. PICK t \in Seq(S), l \in Seq(S) : t = p /\ l = v[i]
      BY <1>1
    <3>2. /\ Texted(t, l, i, m) \in Seq(S)
          /\ Texted(t, l, i, m) = TextedAs(t, l, i, m)
      BY TextedIn
    <3>. QED BY <3>1, <3>2, Zenon
  <2>. HIDE DEF More
  <2>. QED BY <2>1
<1>3. FirstLines(v, m) = upto[n]
  BY Zenon DEF FirstLines, TextedAs
<1>4. <<>> \in P
  OBVIOUS
<1>. HIDE DEF n, F, P, More
<1>5. PICK h : Folds(h, n, P, <<>>, F)
  <2>1. Foldable(n, P, <<>>, F)
    BY <1>1, <1>2, <1>4 DEF Foldable
  <2>. QED BY <2>1, FoldExists
<1>6. \A i \in 1 .. n : i \in 0 .. n /\ i - 1 \in 0 .. n /\ i # 0
  BY <1>1
<1>7. \A i \in 0 .. n : /\ h[i] = IF i = 0 THEN <<>> ELSE Texted(h[i - 1], v[i], i, m)
                        /\ h[i] = IF i = 0 THEN <<>> ELSE More(h[i - 1], i)
  <2>1. \A i \in 0 .. n : i # 0 => i \in 1 .. n
    BY <1>1
  <2>2. \A i \in 1 .. n : h[i - 1] \in P
    BY <1>5, <1>6, Zenon DEF Folds
  <2>. QED BY <1>2, <1>5, <2>1, <2>2, Zenon DEF Folds
<1>8. h \in [0 .. n -> P]
  BY <1>5 DEF Folds
<1>9. Upto(h)
  BY <1>7, <1>8
<1>10. Upto(upto)
  BY <1>9, Zenon
<1>. HIDE DEF upto
<1>11. \A i \in 0 .. n : upto[i] = IF i = 0 THEN <<>> ELSE More(upto[i - 1], i)
  BY <1>10, Zenon
<1>12. 0 \in 0 .. n /\ n \in 0 .. n
  BY <1>1
<1>13. \A i \in 0 .. n : upto[i] = h[i]
  <2>1. upto[0] = h[0]
    BY <1>7, <1>11, <1>12, Zenon
  <2>2. \A i \in 1 .. n : upto[i - 1] = h[i - 1] => upto[i] = h[i]
    BY <1>6, <1>7, <1>11, Zenon
  <2>3. Together(n, upto, h)
    BY <1>1, <2>1, <2>2, Zenon DEF Together
  <2>. QED BY <2>3, Stepwise
<1>. QED BY <1>3, <1>7, <1>8, <1>12, <1>13, Zenon DEF Textwise, n, P

LEMMA TextNone == ASSUME NEW m PROVE FirstLines(<<>>, m) = <<>>
<1>1. PICK S : S = {NL}
  OBVIOUS
<1>2. <<>> \in Seq(Seq(S)) /\ Len(<<>>) = 0 /\ NL \in S
  BY <1>1
<1>3. PICK v : v = <<>>
  OBVIOUS
<1>4. v \in Seq(Seq(S)) /\ Len(v) = 0 /\ 0 \in 0 .. 0
  BY <1>2, <1>3
<1>5. PICK h : Textwise(h, v, m) /\ h[Len(v)] = FirstLines(v, m)
  BY <1>2, <1>4, TextIs
<1>6. h[0] = <<>>
  BY <1>4, <1>5 DEF Textwise
<1>. QED BY <1>3, <1>4, <1>5, <1>6, Zenon

LEMMA TextIn ==
  ASSUME NEW S, NL \in S, NEW v \in Seq(Seq(S)), NEW m
  PROVE  FirstLines(v, m) \in Seq(S)
<1>1. Len(v) \in 0 .. Len(v)
  OBVIOUS
<1>. QED BY <1>1, TextIs

LEMMA TextAppend ==
  ASSUME NEW S, NL \in S, NEW v \in Seq(Seq(S)), NEW x \in Seq(S), NEW m, NEW k, k = Len(v) + 1
  PROVE  FirstLines(Append(v, x), m) = Texted(FirstLines(v, m), x, k, m)
<1>1. PICK w : w = Append(v, x)
  OBVIOUS
<1>2. PICK n \in Nat : n = Len(v) /\ k = n + 1
  OBVIOUS
<1>3. w \in Seq(Seq(S)) /\ Len(w) = n + 1 /\ w[n + 1] = x /\ \A i \in 1 .. n : w[i] = v[i]
  BY <1>1, <1>2, AppendProperties
<1>4. PICK g : Textwise(g, v, m) /\ g[n] = FirstLines(v, m)
  BY <1>2, TextIs
<1>5. PICK h : Textwise(h, w, m) /\ h[n + 1] = FirstLines(w, m)
  <2>1. \E h : Textwise(h, w, m) /\ h[Len(w)] = FirstLines(w, m)
    BY <1>3, TextIs
  <2>. QED BY <1>3, <2>1, Zenon
<1>6. \A i \in 0 .. n : g[i] = IF i = 0 THEN <<>> ELSE Texted(g[i - 1], v[i], i, m)
  BY <1>2, <1>4 DEF Textwise
<1>7. \A i \in 0 .. n + 1 : h[i] = IF i = 0 THEN <<>> ELSE Texted(h[i - 1], w[i], i, m)
  BY <1>3, <1>5 DEF Textwise
<1>8. /\ \A i \in 1 .. n : i \in 0 .. n /\ i \in 0 .. n + 1 /\ i # 0
      /\ 0 \in 0 .. n /\ 0 \in 0 .. n + 1 /\ n \in 0 .. n
      /\ n + 1 \in 0 .. n + 1 /\ n + 1 # 0 /\ (n + 1) - 1 = n
  OBVIOUS
<1>9. \A i \in 0 .. n : g[i] = h[i]
  <2>1. g[0] = h[0]
    BY <1>6, <1>7, <1>8, Zenon
  <2>2. \A i \in 1 .. n : g[i - 1] = h[i - 1] => g[i] = h[i]
    BY <1>3, <1>6, <1>7, <1>8, Zenon
  <2>3. Together(n, g, h)
    BY <2>1, <2>2, Zenon DEF Together
  <2>. QED BY <2>3, Stepwise
<1>10. h[n + 1] = Texted(h[n], x, k, m)
  BY <1>2, <1>3, <1>7, <1>8, Zenon
<1>. QED BY <1>1, <1>4, <1>5, <1>8, <1>9, <1>10, Zenon

\* Of no lines there is nothing.
LEMMA TextOfNone ==
  ASSUME NEW S, NL \in S, NEW v \in Seq(Seq(S)), NEW m \in Int, m <= 0
  PROVE  FirstLines(v, m) = <<>>
<1>. DEFINE A == {u \in Seq(Seq(S)) : FirstLines(u, m) = <<>>}
<1>1. <<>> \in A
  <2>1. <<>> \in Seq(Seq(S))
    OBVIOUS
  <2>. QED BY <2>1, TextNone
<1>2. ASSUME NEW u \in Seq(Seq(S)), NEW x \in Seq(S), u \in A PROVE Append(u, x) \in A
  <2>1. PICK k \in Nat : k = Len(u) + 1 /\ k > m
    OBVIOUS
  <2>2. FirstLines(Append(u, x), m) = Texted(FirstLines(u, m), x, k, m)
    BY <2>1, TextAppend
  <2>3. FirstLines(Append(u, x), m) = <<>>
    BY <1>2, <2>1, <2>2 DEF Texted
  <2>4. Append(u, x) \in Seq(Seq(S))
    BY AppendProperties
  <2>. QED BY <2>3, <2>4
<1>. HIDE DEF A
<1>3. v \in A
  BY <1>1, <1>2, Longer
<1>. QED BY <1>3 DEF A

\* What the first of some lines adds stands before what the others do.
LEMMA TextFirst ==
  ASSUME NEW S, NL \in S, NEW v \in Seq(Seq(S)), NEW x \in Seq(S), NEW m \in Nat \ {0},
         NEW l, Joins(l, <<x>>, v)
  PROVE  Joins(FirstLines(l, m), Appended(x, m, TRUE), FirstLines(v, m - 1))
<1>0. PICK a \in Seq(S) : a = Appended(x, m, TRUE) /\ a = LinePart(x, 1, m)
  <2>1. m > 1 <=> 1 < m
    OBVIOUS
  <2>2. Appended(x, m, TRUE) = LinePart(x, 1, m)
    BY <2>1, Zenon DEF Appended, LinePart
  <2>. QED BY <2>2, PartIn, Zenon
<1>01. <<x>> \in Seq(Seq(S))
  OBVIOUS
<1>. DEFINE A == {u \in Seq(Seq(S)) : Joins(FirstLines(<<x>> \o u, m), a, FirstLines(u, m - 1))}
<1>1. <<>> \in A
  <2>1. <<x>> \o <<>> = Append(<<>>, x) /\ <<>> \in Seq(Seq(S)) /\ 1 = Len(<<>>) + 1
    OBVIOUS
  <2>2. FirstLines(Append(<<>>, x), m) = Texted(FirstLines(<<>>, m), x, 1, m)
    BY <2>1, TextAppend
  <2>3. Texted(<<>>, x, 1, m) = <<>> \o a
    <3>1. ~(1 > m)
      OBVIOUS
    <3>. QED BY <1>0, <3>1, Zenon DEF Texted
  <2>4. <<>> \o a = a /\ a \o <<>> = a
    BY ConcatEmptySeq
  <2>5. Joins(FirstLines(<<x>> \o <<>>, m), a, FirstLines(<<>>, m - 1))
    BY <2>1, <2>2, <2>3, <2>4, TextNone, Zenon DEF Joins
  <2>. QED BY <2>1, <2>5
<1>2. ASSUME NEW u \in Seq(Seq(S)), NEW y \in Seq(S), u \in A PROVE Append(u, y) \in A
  <2>1. PICK r \in Seq(Seq(S)) : r = <<x>> \o u
    BY <1>01, ConcatProperties, Zenon
  <2>2. <<x>> \o Append(u, y) = Append(r, y) /\ Append(u, y) \in Seq(Seq(S))
    <3>1. Append(<<x>> \o u, y) = <<x>> \o Append(u, y)
      BY <1>01, AppendBehind
    <3>. QED BY <2>1, <3>1, AppendProperties
  <2>3. PICK k \in Nat : k = Len(u) + 1 /\ k + 1 = Len(r) + 1
    <3>1. Len(<<x>>) = 1
      OBVIOUS
    <3>2. Len(r) = Len(<<x>>) + Len(u)
      BY <1>01, <2>1, ConcatProperties
    <3>. QED BY <3>1, <3>2
  <2>4. PICK t \in Seq(S) : t = FirstLines(u, m - 1)
    BY TextIn
  <2>5. PICK z \in Seq(S) : z = FirstLines(r, m)
    BY TextIn
  <2>6. Joins(z, a, t)
    BY <1>2, <2>1, <2>4, <2>5
  <2>7. FirstLines(Append(r, y), m) = Texted(z, y, k + 1, m)
    BY <2>3, <2>5, TextAppend
  <2>8. FirstLines(Append(u, y), m - 1) = Texted(t, y, k, m - 1)
    BY <2>3, <2>4, TextAppend
  <2>9. Joins(Texted(z, y, k + 1, m), a, Texted(t, y, k, m - 1))
    <3>1. (k + 1 > m <=> k > m - 1) /\ (k + 1 < m <=> k < m - 1)
      OBVIOUS
    <3>2. PICK p \in Seq(S) : p = LinePart(y, k, m - 1) /\ p = LinePart(y, k + 1, m)
      <4>1. LinePart(y, k, m - 1) = LinePart(y, k + 1, m)
        BY <3>1, Zenon DEF LinePart
      <4>. QED BY <4>1, PartIn
    <3>3. PICK w, tp : Joins(w, z, p) /\ Joins(tp, t, p)
      BY Zenon DEF Joins
    <3>4. Joins(w, a, tp)
      BY <2>6, <3>3, JoinsAssociative
    <3>. QED BY <2>6, <3>1, <3>2, <3>3, <3>4, Zenon DEF Texted, Joins
  <2>10. Joins(FirstLines(<<x>> \o Append(u, y), m), a, FirstLines(Append(u, y), m - 1))
    BY <2>2, <2>7, <2>8, <2>9, Zenon
  <2>. QED BY <2>2, <2>10
<1>. HIDE DEF A
<1>3. v \in A
  BY <1>1, <1>2, Longer
<1>4. Joins(FirstLines(<<x>> \o v, m), a, FirstLines(v, m - 1))
  BY <1>3 DEF A
<1>. QED BY <1>0, <1>4, Zenon DEF Joins

\* fgets reads a line, and what it leaves begins with the next one.
LEMMA FgetsIs ==
  ASSUME NEW S, NEW f \in Seq(S), FitBuffer(f), NEW p \in 0 .. Len(f), p # Len(f)
  PROVE  \E u \in Seq(S), v \in Seq(S), q \in p + 1 .. Len(f) :
           /\ u = Fgets(f, p) /\ q = p + Len(u) /\ v = After(f, q)
           /\ OneLine(u)
           /\ u[Len(u)] = NL \/ v = <<>>
           /\ Joins(After(f, p), u, v)
<1>. DEFINE ends == {i \in p + 1 .. Len(f) : f[i] = NL \/ i = p + Size - 1 \/ i = Len(f)}
            e    == CHOOSE i \in ends : \A j \in ends : i <= j
<1>1. PICK n \in Nat : n = Len(f)
  OBVIOUS
<1>2. ends \subseteq Nat /\ n \in ends
  BY <1>1
<1>3. e \in ends /\ \A j \in ends : e <= j
  <2>. HIDE DEF ends
  <2>1. \E i \in ends : \A j \in ends : i <= j
    BY <1>2, LeastElement
  <2>. QED BY <2>1
<1>4. Fgets(f, p) = SubSeq(f, p + 1, e)
  BY DEF Fgets
<1>5. PICK q \in Nat : q = e
  BY <1>2, <1>3, Zenon
<1>. HIDE DEF e
<1>6. /\ q \in p + 1 .. n
      /\ f[q] = NL \/ q = p + Size - 1 \/ q = n
      /\ \A j \in p + 1 .. q - 1 : f[j] # NL
  <2>1. q \in p + 1 .. n /\ (f[q] = NL \/ q = p + Size - 1 \/ q = n)
    BY <1>1, <1>3, <1>5
  <2>2. ASSUME NEW j \in p + 1 .. q - 1, f[j] = NL PROVE FALSE
    <3>1. j \in ends
      BY <1>1, <2>1, <2>2
    <3>2. q <= j
      BY <1>3, <1>5, <3>1
    <3>. QED BY <2>1, <3>2
  <2>. QED BY <2>1, <2>2
<1>. HIDE DEF ends
<1>7. f[q] = NL \/ q = n
  <2>1. SUFFICES ASSUME f[q] # NL, q # n PROVE FALSE
    OBVIOUS
  <2>2. q = p + Size - 1 /\ q + 1 \in 1 .. n /\ p + 1 \in 1 .. n
    BY <1>6, <2>1
  <2>3. \A k \in p + 1 .. (q + 1) - 1 : f[k] # NL
    BY <1>6, <2>1
  <2>4. (q + 1) - (p + 1) < Size - 1
    <3>1. DOMAIN f = 1 .. n
      BY <1>1
    <3>. QED BY <2>2, <2>3, <3>1 DEF FitBuffer
  <2>. QED BY <2>2, <2>4, FileUtilsAssumption
<1>8. PICK u \in Seq(S), v \in Seq(S) : /\ u = SubSeq(f, p + 1, q) /\ v = SubSeq(f, q + 1, n)
                                        /\ Len(u) = q - p /\ Len(v) = n - q
                                        /\ \A i \in 1 .. q - p : u[i] = f[p + i]
                                        /\ \A i \in 1 .. n - q : v[i] = f[q + i]
  <2>1. \A i \in 1 .. n : f[i] \in S
    BY <1>1
  <2>2. /\ SubSeq(f, p + 1, q) \in Seq(S) /\ Len(SubSeq(f, p + 1, q)) = q - p
        /\ \A i \in 1 .. q - p : SubSeq(f, p + 1, q)[i] = f[p + i]
    BY <1>6, <2>1, SubSeqProperties
  <2>3. /\ SubSeq(f, q + 1, n) \in Seq(S) /\ Len(SubSeq(f, q + 1, n)) = n - q
        /\ \A i \in 1 .. n - q : SubSeq(f, q + 1, n)[i] = f[q + i]
    BY <1>6, <2>1, SubSeqProperties
  <2>. QED BY <2>2, <2>3
<1>9. u = Fgets(f, p) /\ q = p + Len(u) /\ v = After(f, q)
  BY <1>1, <1>4, <1>5, <1>6, <1>8 DEF After
<1>10. OneLine(u)
  <2>1. u # <<>>
    <3>1. Len(u) # 0
      BY <1>6, <1>8
    <3>. QED BY <3>1, EmptySeq
  <2>2. ASSUME NEW i \in 1 .. Len(u) - 1 PROVE u[i] # NL
    <3>1. i \in 1 .. q - p /\ p + i \in p + 1 .. q - 1
      BY <1>6, <1>8
    <3>. QED BY <1>6, <1>8, <3>1
  <2>. QED BY <2>1, <2>2 DEF OneLine
<1>11. u[Len(u)] = NL \/ v = <<>>
  <2>1. CASE f[q] = NL
    <3>1. q - p \in 1 .. q - p /\ p + (q - p) = q
      BY <1>6
    <3>. QED BY <1>8, <2>1, <3>1
  <2>2. CASE q = n
    <3>1. Len(v) = 0
      BY <1>8, <2>2
    <3>. QED BY <3>1, EmptySeq
  <2>. QED BY <1>7, <2>1, <2>2
<1>12. Joins(After(f, p), u, v)
  <2>1. PICK w \in Seq(S) : w = After(f, p) /\ Len(w) = n - p /\ \A i \in 1 .. n - p : w[i] = f[p + i]
    <3>1. \A i \in 1 .. n : f[i] \in S
      BY <1>1
    <3>2. /\ SubSeq(f, p + 1, n) \in Seq(S) /\ Len(SubSeq(f, p + 1, n)) = n - p
          /\ \A i \in 1 .. n - p : SubSeq(f, p + 1, n)[i] = f[p + i]
      BY <1>6, <3>1, SubSeqProperties
    <3>. QED BY <1>1, <3>2 DEF After
  <2>2. PICK x \in Seq(S) : /\ x = u \o v /\ Len(x) = n - p
                            /\ \A i \in 1 .. n - p : x[i] = IF i <= q - p THEN u[i] ELSE v[i - (q - p)]
    <3>1. /\ u \o v \in Seq(S) /\ Len(u \o v) = Len(u) + Len(v)
          /\ \A i \in 1 .. Len(u) + Len(v) : (u \o v)[i] = IF i <= Len(u) THEN u[i] ELSE v[i - Len(u)]
      BY ConcatProperties
    <3>2. Len(u) + Len(v) = n - p
      BY <1>6, <1>8
    <3>3. PICK x : x = u \o v
      OBVIOUS
    <3>4. x \in Seq(S) /\ Len(x) = n - p
      BY <3>1, <3>2, <3>3, Zenon
    <3>5. \A i \in 1 .. n - p : x[i] = IF i <= q - p THEN u[i] ELSE v[i - (q - p)]
      BY <1>8, <3>1, <3>2, <3>3, Zenon
    <3>. QED BY <3>3, <3>4, <3>5, Zenon
  <2>3. ASSUME NEW i \in 1 .. n - p PROVE w[i] = x[i]
    <3>1. CASE i <= q - p
      <4>1. i \in 1 .. q - p
        BY <1>6, <3>1
      <4>. QED BY <1>8, <2>1, <2>2, <3>1, <4>1
    <3>2. CASE ~(i <= q - p)
      <4>1. i - (q - p) \in 1 .. n - q /\ q + (i - (q - p)) = p + i
        BY <1>6, <3>2
      <4>. QED BY <1>8, <2>1, <2>2, <3>2, <4>1
    <3>. QED BY <3>1, <3>2
  <2>4. w = x
    BY <2>1, <2>2, <2>3, SeqEqual
  <2>. QED BY <2>1, <2>2, <2>4, Zenon DEF Joins
<1>. QED BY <1>1, <1>6, <1>9, <1>10, <1>11, <1>12

\* What should be read from position p on.
Rest(f, p, n, skip) == FirstLines(Wanted(LinesOf(After(f, p)), skip), n)

\* What is read, if g is what is read from later positions on.
Iterated(f, g, p, n, skip) ==
  IF n = 0 \/ p = Len(f) THEN <<>>
  ELSE LET chunk == Fgets(f, p)
           q     == p + Len(chunk)
       IN  IF skip /\ IsEmptyLine(chunk) THEN g[q][n]
           ELSE Appended(chunk, n, TRUE) \o g[q][n - 1]

LEMMA AtEnd == ASSUME NEW S, NEW f \in Seq(S) PROVE After(f, Len(f)) = <<>>
<1>1. PICK n \in Nat : n = Len(f) /\ n + 1 > n
  OBVIOUS
<1>2. SubSeq(f, n + 1, n) = <<>>
  BY <1>1
<1>. QED BY <1>1, <1>2, Zenon DEF After

LEMMA RestStep ==
  ASSUME NEW S, NL \in S, NEW f \in Seq(S), FitBuffer(f), NEW p \in 0 .. Len(f), NEW n \in Nat,
         NEW skip, NEW g,
         \A q \in p + 1 .. Len(f), k \in 0 .. n : g[q][k] = Rest(f, q, k, skip)
  PROVE  Iterated(f, g, p, n, skip) = Rest(f, p, n, skip)
<1>1. After(f, p) \in Seq(S)
  BY AfterIn
<1>2. CASE n = 0
  <2>1. Wanted(LinesOf(After(f, p)), skip) \in Seq(Seq(S))
    BY <1>1, LinesIn, WantedIn
  <2>2. Rest(f, p, n, skip) = <<>>
    BY <1>2, <2>1, TextOfNone DEF Rest
  <2>. QED BY <1>2, <2>2, Zenon DEF Iterated
<1>3. CASE p = Len(f)
  <2>1. Rest(f, p, n, skip) = <<>>
    BY <1>3, AtEnd, LinesNone, WantedNone, TextNone, Zenon DEF Rest
  <2>. QED BY <1>3, <2>1, Zenon DEF Iterated
<1>4. CASE n # 0 /\ p # Len(f)
  <2>1. PICK u \in Seq(S), v \in Seq(S), q \in p + 1 .. Len(f) :
           /\ u = Fgets(f, p) /\ q = p + Len(u) /\ v = After(f, q)
           /\ u[Len(u)] = NL \/ v = <<>>
           /\ OneLine(u)
           /\ Joins(After(f, p), u, v)
    BY <1>4, FgetsIs
  <2>2. PICK a \in Seq(Seq(S)), b \in Seq(Seq(S)) : a = LinesOf(After(f, p)) /\ b = LinesOf(v)
    BY <1>1, LinesIn
  <2>3. Joins(a, <<u>>, b)
    <3>1. Joins(LinesOf(u \o v), <<u>>, LinesOf(v))
      BY <2>1, LinesFirst
    <3>. QED BY <2>1, <2>2, <3>1, Zenon DEF Joins
  <2>4. PICK x \in Seq(Seq(S)), y \in Seq(Seq(S)) : x = Wanted(a, skip) /\ y = Wanted(b, skip)
    BY WantedIn
  <2>5. WantedFrom(x, u, y, skip)
    BY <2>3, <2>4, WantedFirst
  <2>6. Rest(f, p, n, skip) = FirstLines(x, n) /\ \A k : Rest(f, q, k, skip) = FirstLines(y, k)
    BY <2>1, <2>2, <2>4, Zenon DEF Rest
  <2>7. Iterated(f, g, p, n, skip) = IF skip /\ IsEmptyLine(u) THEN g[q][n]
                                     ELSE Appended(u, n, TRUE) \o g[q][n - 1]
    BY <1>4, <2>1, Zenon DEF Iterated
  <2>8. n \in 0 .. n /\ n - 1 \in 0 .. n /\ n \in Nat \ {0}
    BY <1>4
  <2>9. g[q][n] = FirstLines(y, n) /\ g[q][n - 1] = FirstLines(y, n - 1)
    BY <2>6, <2>8, Zenon
  <2>10. CASE skip /\ IsEmptyLine(u)
    BY <2>5, <2>6, <2>7, <2>9, <2>10, Zenon DEF WantedFrom
  <2>11. CASE ~(skip /\ IsEmptyLine(u))
    <3>1. Joins(x, <<u>>, y)
      BY <2>5, <2>11, Zenon DEF WantedFrom
    <3>2. Joins(FirstLines(x, n), Appended(u, n, TRUE), FirstLines(y, n - 1))
      BY <2>8, <3>1, TextFirst
    <3>. QED BY <2>6, <2>7, <2>9, <2>11, <3>2, Zenon DEF Joins
  <2>. QED BY <2>10, <2>11
<1>. QED BY <1>2, <1>3, <1>4

\* The function by which ReadLoop is defined.
Reading(g, f, c, skip) ==
  g = [p \in 0 .. Len(f) |-> [n \in 0 .. c |-> Iterated(f, g, p, n, skip)]]

LEMMA ReadingIs ==
  ASSUME NEW S, NL \in S, NEW f \in Seq(S), FitBuffer(f), NEW c \in Nat, NEW skip,
         NEW g, Reading(g, f, c, skip)
  PROVE  \A p \in 0 .. Len(f), n \in 0 .. c : g[p][n] = Rest(f, p, n, skip)
<1>1. PICK m \in Nat : m = Len(f)
  OBVIOUS
<1>2. \A p \in 0 .. m, n \in 0 .. c : g[p][n] = Iterated(f, g, p, n, skip)
  <2>1. g = [p \in 0 .. m |-> [n \in 0 .. c |-> Iterated(f, g, p, n, skip)]]
    BY <1>1, Zenon DEF Reading
  <2>2. ASSUME NEW p \in 0 .. m, NEW n \in 0 .. c PROVE g[p][n] = Iterated(f, g, p, n, skip)
    <3>1. PICK row : row = [k \in 0 .. c |-> Iterated(f, g, p, k, skip)]
      OBVIOUS
    <3>2. g[p] = row
      BY <2>1, <3>1, Zenon
    <3>. QED BY <3>1, <3>2, Zenon
  <2>. QED BY <2>2
<1>. DEFINE Right(p) == \A n \in 0 .. c : g[p][n] = Rest(f, p, n, skip)
            A == {i \in 0 .. m : \A p \in m - i .. m : Right(p)}
<1>3. ASSUME NEW p \in 0 .. m, \A q \in p + 1 .. m : Right(q) PROVE Right(p)
  <2>1. SUFFICES ASSUME NEW n \in 0 .. c PROVE g[p][n] = Rest(f, p, n, skip)
    OBVIOUS
  <2>2. \A q \in p + 1 .. m, k \in 0 .. n : g[q][k] = Rest(f, q, k, skip)
    BY <1>3
  <2>3. Iterated(f, g, p, n, skip) = Rest(f, p, n, skip)
    <3>1. n \in Nat
      OBVIOUS
    <3>. QED BY <1>1, <2>2, <3>1, RestStep
  <2>. QED BY <1>2, <2>3, Zenon
<1>. HIDE DEF Right
<1>4. 0 \in A
  <2>1. \A q \in m + 1 .. m : Right(q)
    OBVIOUS
  <2>2. Right(m)
    BY <1>3, <2>1
  <2>. QED BY <2>2
<1>5. ASSUME NEW i \in 1 .. m, i - 1 \in A PROVE i \in A
  <2>1. \A q \in m - (i - 1) .. m : Right(q)
    BY <1>5
  <2>2. \A q \in (m - i) + 1 .. m : Right(q)
    BY <2>1
  <2>3. m - i \in 0 .. m
    OBVIOUS
  <2>4. Right(m - i)
    BY <1>3, <2>2, <2>3
  <2>5. \A q \in m - i .. m : q = m - i \/ q \in (m - i) + 1 .. m
    OBVIOUS
  <2>. QED BY <2>2, <2>4, <2>5
<1>. HIDE DEF A
<1>6. m \in A
  <2>1. m \in 0 .. m
    OBVIOUS
  <2>. QED BY <1>4, <1>5, <2>1, Along
<1>7. ASSUME NEW p \in 0 .. m PROVE Right(p)
  <2>1. p \in m - m .. m
    OBVIOUS
  <2>. QED BY <1>6, <2>1 DEF A
<1>. QED BY <1>1, <1>7, Zenon DEF Right

LEMMA ReadingExists ==
  ASSUME NEW S, NL \in S, NEW f \in Seq(S), FitBuffer(f), NEW c \in Nat, NEW skip
  PROVE  \E g : Reading(g, f, c, skip)
<1>. DEFINE w == [p \in 0 .. Len(f) |-> [n \in 0 .. c |-> Rest(f, p, n, skip)]]
<1>1. ASSUME NEW p \in 0 .. Len(f), NEW n \in 0 .. c
      PROVE  Iterated(f, w, p, n, skip) = Rest(f, p, n, skip)
  <2>1. \A q \in p + 1 .. Len(f), k \in 0 .. n : q \in 0 .. Len(f) /\ k \in 0 .. c
    OBVIOUS
  <2>2. \A q \in p + 1 .. Len(f), k \in 0 .. n : w[q][k] = Rest(f, q, k, skip)
    BY <2>1, Zenon
  <2>3. n \in Nat
    OBVIOUS
  <2>. HIDE DEF w
  <2>. QED BY <2>2, <2>3, RestStep
<1>2. w = [p \in 0 .. Len(f) |-> [n \in 0 .. c |-> Iterated(f, w, p, n, skip)]]
  <2>1. ASSUME NEW p \in 0 .. Len(f)
        PROVE  [n \in 0 .. c |-> Iterated(f, w, p, n, skip)] = [n \in 0 .. c |-> Rest(f, p, n, skip)]
    <3>. HIDE DEF w
    <3>. QED BY <1>1
  <2>. QED BY <2>1, Zenon
<1>. QED BY <1>2, Zenon DEF Reading

LEMMA ReadLoopIs ==
  ASSUME NEW S, NL \in S, NEW f \in Seq(S), FitBuffer(f), NEW c \in Nat, NEW skip
  PROVE  ReadLoop(f, c, skip, TRUE) = FirstLines(Wanted(LinesOf(f), skip), c)
<1>. DEFINE Upto(g) ==
       g = [p \in 0 .. Len(f) |-> [n \in 0 .. c |->
              IF n = 0 \/ p = Len(f) THEN <<>>
              ELSE LET chunk == Fgets(f, p)
                       q     == p + Len(chunk)
                   IN  IF skip /\ IsEmptyLine(chunk) THEN g[q][n]
                       ELSE Appended(chunk, n, TRUE) \o g[q][n - 1]]]
            from == CHOOSE g : Upto(g)
<1>1. Reading(from, f, c, skip)
  <2>1. ASSUME NEW g PROVE Reading(g, f, c, skip) <=> Upto(g)
    BY DEF Reading, Iterated
  <2>. HIDE DEF Upto
  <2>2. PICK g : Upto(g)
    BY <2>1, ReadingExists
  <2>3. Upto(from)
    BY <2>2, Zenon
  <2>. QED BY <2>1, <2>3
<1>2. ReadLoop(f, c, skip, TRUE) = from[0][c]
  BY Zenon DEF ReadLoop
<1>. HIDE DEF from
<1>3. 0 \in 0 .. Len(f) /\ c \in 0 .. c
  OBVIOUS
<1>4. from[0][c] = Rest(f, 0, c, skip)
  BY <1>1, <1>3, ReadingIs
<1>5. After(f, 0) = f
  <2>1. SubSeq(f, 1, Len(f)) = f /\ 0 + 1 = 1
    OBVIOUS
  <2>. QED BY <2>1, Zenon DEF After
<1>. QED BY <1>2, <1>4, <1>5, Zenon DEF Rest

\* read_lines, with its trimming and skipping, returns the lines that were asked for, as
\* long as lines fit its buffer: of any file, for any counts and whatever the buffer's size.
THEOREM ReadsEachLine == Spec => []ReadsLines
<1>1. FileInv => ReadsLines
  <2>1. SUFFICES ASSUME FileInv, FitBuffer(disk.data), NEW n \in Counts, NEW skip \in BOOLEAN
                 PROVE  read_lines(disk, n, skip, TRUE)
                          = FirstLines(Wanted(LinesOf(disk.data), skip), n)
    BY Zenon DEF ReadsLines
  <2>2. PICK S : NL \in S /\ disk.data \in Seq(S)
    <3>1. disk.data \in Seq(Characters \cup {NL})
      BY <2>1 DEF FileInv, ReadType
    <3>. QED BY <3>1
  <2>3. PICK f \in Seq(S) : f = disk.data /\ FitBuffer(f)
    BY <2>1, <2>2
  <2>4. n \in Int
    BY FileUtilsAssumption
  <2>5. PICK v \in Seq(Seq(S)) : v = Wanted(LinesOf(f), skip)
    BY LinesIn, WantedIn
  <2>6. CASE n <= 0
    <3>1. FirstLines(v, n) = <<>>
      BY <2>2, <2>4, <2>6, TextOfNone
    <3>. QED BY <2>3, <2>5, <2>6, <3>1, Zenon DEF read_lines
  <2>7. CASE ~(n <= 0) /\ ~Opens(disk)
    <3>1. f = <<>>
      BY <2>1, <2>3, <2>7 DEF FileInv, Unopened
    <3>. QED BY <2>3, <2>7, <3>1, LinesNone, WantedNone, TextNone, Zenon DEF read_lines
  <2>8. CASE ~(n <= 0) /\ Opens(disk)
    <3>1. n \in Nat
      BY <2>4, <2>8
    <3>2. ReadLoop(f, n, skip, TRUE) = FirstLines(Wanted(LinesOf(f), skip), n)
      BY <2>2, <2>3, <3>1, ReadLoopIs
    <3>. QED BY <2>3, <2>8, <3>2, Zenon DEF read_lines
  <2>. QED BY <2>6, <2>7, <2>8
<1>. QED BY <1>1, FileInvariant, PTL
=============================================================================
