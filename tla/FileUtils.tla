----------------------------- MODULE FileUtils -----------------------------
(***************************************************************************)
(* file_utils.c: one path that two threads or processes use at a time.     *)
(* One of them writes the file (write_entire_file), the other reads it     *)
(* (read_entire_file): both take several system calls, and the file may    *)
(* change between any two of them.  The functions that count or return     *)
(* lines are functions of the contents.                                    *)
(***************************************************************************)
EXTENDS Integers, Sequences, FiniteSets

CONSTANTS
  NL, CR,     \* the characters of line endings
  Blank,      \* the characters of empty lines: NL, CR, the space and the tab
  Files,      \* the contents that there may be at first
  Written,    \* the contents that write_entire_file is called with
  Size,       \* the size of the buffer of read_lines: 4096
  Counts      \* the line counts that are asked for

Characters == UNION {{f[i] : i \in DOMAIN f} : f \in Files \cup Written}

ASSUME FileUtilsAssumption ==
  /\ Files \cup Written \subseteq Seq(Characters)
  /\ {NL, CR} \subseteq Blank
  /\ Size \in Nat \ {0, 1}
  /\ Counts \subseteq Int

VARIABLES
  disk,      \* the kind of the path, and the contents of the file it leads to
  unflushed, \* what write_entire_file has not written yet
  wpc,       \* where it is: "open", "flush" or "done"
  rpc,       \* where read_entire_file is: "size", "read" or "done"
  size,      \* its local size
  result,    \* the characters it has read
  seen,      \* what the file was when it took the size
  quiet      \* no step of the writer since then, until it was done

vars == <<disk, unflushed, wpc, rpc, size, result, seen, quiet>>

-----------------------------------------------------------------------------
(* Questions about the path *)

\* stat and fopen follow links, lstat does not.
Kinds == {"file", "link to file", "dir", "link to dir", "dangling link", "missing"}

file_exists(d) == d.kind \in {"file", "link to file"}
dir_exists(d)  == d.kind \in {"dir", "link to dir"}
is_symlink(d)  == d.kind \in {"link to file", "link to dir", "dangling link"}
file_size(d)   == IF file_exists(d) THEN Len(d.data) ELSE 0

\* fopen for reading: a directory opens, but nothing can be read from it.
Opens(d) == file_exists(d) \/ dir_exists(d)

-----------------------------------------------------------------------------
(* Lines *)

Newlines(f) == Cardinality({i \in DOMAIN f : f[i] = NL})

\* ch is EOF when the loop ends, so it is not a newline.
file_line_count(d) ==
  LET f == d.data
      had_content == \E i \in DOMAIN f : f[i] # NL
  IN  Newlines(f) + (IF had_content THEN 1 ELSE 0)

\* Mutant of AtNewline: "most" gives up one line too early.
AtNewlineEarly(mode, count, n) ==
  CASE mode = "least" /\ count >= n -> "yes"
    [] mode = "most"  /\ count >= n -> "no"
    [] mode = "exact" /\ count > n  -> "no"
    [] OTHER                        -> "open"

\* What the count at a newline decides.
AtNewline(mode, count, n) ==
  CASE mode = "least" /\ count >= n -> "yes"
    [] mode = "most"  /\ count > n  -> "no"
    [] mode = "exact" /\ count > n  -> "no"
    [] OTHER                        -> "open"

\* The loop: the file is read to the first newline that decides, or to its end.
Decided(f, n, mode) ==
  LET after[i \in 0 .. Len(f)] ==
        IF i = 0 THEN "open"
        ELSE IF after[i - 1] # "open" \/ f[i] # NL THEN after[i - 1]
        ELSE AtNewline(mode, Newlines(SubSeq(f, 1, i)), n)
  IN  after[Len(f)]

\* The modes are "least" and "most" (least_or_most contains the word) and "exact".
file_is_lines_long(d, n, mode) ==
  LET count == Newlines(d.data) IN
  /\ Opens(d) /\ n >= 0
  /\ \/ Decided(d.data, n, mode) = "yes"
     \/ /\ Decided(d.data, n, mode) = "open"
        /\ CASE mode = "least" -> count >= n
             [] mode = "most"  -> count <= n
             [] mode = "exact" -> count = n

\* fgets: the characters to the next newline, or as many as there is room for.
Fgets(f, p) ==
  LET ends == {i \in p + 1 .. Len(f) : f[i] = NL \/ i = p + Size - 1 \/ i = Len(f)}
  IN  SubSeq(f, p + 1, CHOOSE i \in ends : \A j \in ends : i <= j)

IsEmptyLine(chunk) == \A i \in DOMAIN chunk : chunk[i] \in Blank

\* A newline at the end goes, and a CR before it.
Trimmed(chunk) ==
  LET n == Len(chunk)
  IN  IF n = 0 \/ chunk[n] # NL THEN chunk
      ELSE IF n > 1 /\ chunk[n - 1] = CR THEN SubSeq(chunk, 1, n - 2)
      ELSE SubSeq(chunk, 1, n - 1)

\* Mutant of Appended: a newline after the last line, too.
AppendedAlways(chunk, n, trim_newline) ==
  (IF trim_newline THEN Trimmed(chunk) ELSE chunk) \o <<NL>>

\* What is appended for a line when n more are wanted.  A newline follows each but the
\* last one, on top of its own if that was not trimmed.
Appended(chunk, n, trim_newline) ==
  (IF trim_newline THEN Trimmed(chunk) ELSE chunk) \o (IF n > 1 THEN <<NL>> ELSE <<>>)

\* from[p][n]: what is read from position p on when n more lines are wanted.
ReadLoop(f, line_count, skip_empty, trim_newline) ==
  LET from[p \in 0 .. Len(f)] == [n \in 0 .. line_count |->
        IF n = 0 \/ p = Len(f) THEN <<>>
        ELSE LET chunk == Fgets(f, p)
                 q     == p + Len(chunk)
             IN  IF skip_empty /\ IsEmptyLine(chunk) THEN from[q][n]
                 ELSE Appended(chunk, n, trim_newline) \o from[q][n - 1]]
  IN  from[0][line_count]

read_lines(d, n, skip_empty, trim_newline) ==
  IF n <= 0 \/ ~Opens(d) THEN <<>>
  ELSE ReadLoop(d.data, n, skip_empty, trim_newline)

-----------------------------------------------------------------------------
(* Reading and writing the whole file *)

Init ==
  /\ \E k \in Kinds, f \in Files \cup {<<>>} :
       /\ f # <<>> => k \in {"file", "link to file"}
       /\ disk = [kind |-> k, data |-> f]
  /\ unflushed \in Written
  /\ wpc = "open"
  /\ rpc = "size" /\ size = 0 /\ result = <<>>
  /\ seen = <<>> /\ quiet = TRUE

\* fopen truncates; it creates the file, also behind a dangling link.
OpenToWrite ==
  /\ wpc = "open"
  /\ IF dir_exists(disk) THEN wpc' = "done" /\ UNCHANGED disk
                         ELSE /\ wpc' = "flush"
                              /\ disk' = [kind |-> IF is_symlink(disk) THEN "link to file" ELSE "file",
                                          data |-> <<>>]
  /\ quiet' = (quiet /\ rpc # "read")
  /\ UNCHANGED <<unflushed, rpc, size, result, seen>>

\* fputs and fclose hand the contents to the system, in one or several writes.
Flush ==
  /\ wpc = "flush"
  /\ \E n \in 0 .. Len(unflushed) :
       /\ n = 0 => unflushed = <<>>
       /\ disk' = [disk EXCEPT !.data = @ \o SubSeq(unflushed, 1, n)]
       /\ unflushed' = SubSeq(unflushed, n + 1, Len(unflushed))
  /\ wpc' = IF unflushed' = <<>> THEN "done" ELSE "flush"
  /\ quiet' = (quiet /\ rpc # "read")
  /\ UNCHANGED <<rpc, size, result, seen>>

\* fopen, fseek and ftell.  malloc succeeds.
TakeSize ==
  /\ rpc = "size"
  /\ size' = Len(disk.data)
  /\ rpc' = IF Opens(disk) THEN "read" ELSE "done"
  /\ seen' = disk.data /\ quiet' = TRUE
  /\ UNCHANGED <<disk, unflushed, wpc, result>>

\* Mutant of ReadBlock: fread is given the size that the file has now.
ReadBlockToEnd ==
  /\ rpc = "read"
  /\ \/ /\ Len(disk.data) <= Len(result)
        /\ rpc' = "done" /\ UNCHANGED result
     \/ \E to \in Len(result) + 1 .. Len(disk.data) :
          /\ result' = result \o SubSeq(disk.data, Len(result) + 1, to)
          /\ UNCHANGED rpc
  /\ UNCHANGED <<disk, unflushed, wpc, size, seen, quiet>>

\* One of the reads that fread makes: nothing at the end of the file, and otherwise some
\* of what is left up to the size that was found.
ReadBlock ==
  /\ rpc = "read"
  /\ \/ /\ size = Len(result) \/ Len(disk.data) <= Len(result)
        /\ rpc' = "done" /\ UNCHANGED result
     \/ \E to \in Len(result) + 1 .. size :
          /\ to <= Len(disk.data)
          /\ result' = result \o SubSeq(disk.data, Len(result) + 1, to)
          /\ UNCHANGED rpc
  /\ UNCHANGED <<disk, unflushed, wpc, size, seen, quiet>>

Next == OpenToWrite \/ Flush \/ TakeSize \/ ReadBlock

Spec == Init /\ [][Next]_vars

-----------------------------------------------------------------------------
(* Properties *)

\* read_entire_file never has more characters than its block holds with the terminator,
\* however the file grows or shrinks meanwhile, and has all of them if it did not change.
\* (If it is rewritten, the first characters may be old ones and the rest new.)
ReadsWhatItSized ==
  /\ Len(result) <= size
  /\ rpc = "done" /\ quiet => result = seen

\* The three modes of file_is_lines_long are one another's logic, wherever the reading
\* stops: exactly n lines are at least n and at most n, and more than n are at least
\* n + 1.  Exactly n lines are n newlines.
LineQuestions ==
  Opens(disk) => \A n \in {m \in Counts : m >= 0} :
    /\ file_is_lines_long(disk, n, "exact") <=>
         file_is_lines_long(disk, n, "least") /\ file_is_lines_long(disk, n, "most")
    /\ file_is_lines_long(disk, n, "most") <=> ~file_is_lines_long(disk, n + 1, "least")
    /\ file_is_lines_long(disk, n, "exact") => Newlines(disk.data) = n

\* The comment of file_utils.c:129, "Count last line if file doesn't end with newline":
\* a last line without a newline counts, and nothing else but newlines does.
CountsLines ==
  LET f == disk.data IN
  file_exists(disk) =>
    file_line_count(disk) = Newlines(f) + (IF f # <<>> /\ f[Len(f)] # NL THEN 1 ELSE 0)

\* The lines of a file with their endings, character by character: behind a newline the
\* next line begins.
Line(lines, x) ==
  LET n == Len(lines)
  IN  IF n = 0 \/ lines[n][Len(lines[n])] = NL THEN Append(lines, <<x>>)
      ELSE [lines EXCEPT ![n] = Append(@, x)]

LinesOf(f) ==
  LET upto[i \in 0 .. Len(f)] == IF i = 0 THEN <<>> ELSE Line(upto[i - 1], f[i])
  IN  upto[Len(f)]

\* The lines that count.
Wanted(lines, skip_empty) ==
  LET upto[k \in 0 .. Len(lines)] ==
        IF k = 0 THEN <<>>
        ELSE IF skip_empty /\ IsEmptyLine(lines[k]) THEN upto[k - 1]
        ELSE Append(upto[k - 1], lines[k])
  IN  upto[Len(lines)]

\* The first n lines without their endings, with a newline behind each but the n-th.
FirstLines(lines, n) ==
  LET upto[k \in 0 .. Len(lines)] ==
        IF k = 0 THEN <<>>
        ELSE IF k > n THEN upto[k - 1]
        ELSE upto[k - 1] \o Trimmed(lines[k]) \o (IF k < n THEN <<NL>> ELSE <<>>)
  IN  upto[Len(lines)]

\* Every line with its ending fits the buffer beside the terminator.
FitBuffer(f) ==
  \A i, j \in DOMAIN f : (\A k \in i .. j - 1 : f[k] # NL) => j - i < Size - 1

\* read_lines with trim_newline returns the first n lines, or the first n that are not
\* blank, with a newline between them and, if there are fewer, one at the end; as long
\* as lines fit the buffer.
ReadsLines ==
  LET lines == LinesOf(disk.data) IN
  FitBuffer(disk.data) =>
    \A n \in Counts, skip \in BOOLEAN :
      read_lines(disk, n, skip, TRUE) = FirstLines(Wanted(lines, skip), n)
=============================================================================
