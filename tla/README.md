# common_utils: a verification project

`common_utils` is a C library of helpers: growable strings, process execution,
two one-threaded HTTP servers, UTF-8, files, paths, arguments. This directory
holds TLA+ models of its parts, the TLC runs that check them on small instances,
and TLAPS proofs that carry some of the results to every instance.

Everything here is translated from the C sources. Paths below are relative to
the repository; `src/` is its directory of C files.

    tlasany M.tla                       parse a module
    tlc -workers 2 -config X.cfg M      run X on module M (see "Runs")
    tlapm M.tla                         check the proofs of module M

## 1. The system

The parts are nearly separate: a program links what it uses. `args`,
`file_utils` and `path_utils` return `String`s, `elevate` and `which_os` ask
`have`; nothing in the library calls the process functions or the servers. So
the modules are one per part, and what composes is a part with its
surroundings: `process_exec` with other threads that run it and with the
children, the servers with their clients, the file and the signal, a reader of
a file with its writer, a search of PATH with other searches.

| Part | State | Operations | What is hard | What makes it right |
|---|---|---|---|---|
| **process execution** `src/process_utils.c` | the process's descriptors, the child, the buffers of captured output | `process_exec`, `process_wait`, `process_spawn`, `is_process_running`, `pidof`, wrappers `run`, `run_quiet`, `capture_output`, `run_command_via_exec` | two pipes read one after the other; forks of other threads inherit pipe ends; every call can fail half-way; `EINTR`; closed descriptors 0-2; process ids that are reused | no descriptor leaks; output complete when 0 is returned; the child is reaped; every call returns; streams lead where the options say |
| **HTTP server** `src/httpsrv.c`, `src/httpsrv_windows.c` | static `running`, server socket, one connection, the file and its copy | `http_server`, the SIGINT handler | signal against accept/read/write; no call's result is looked at; file changes between `ftell` and `fread`; clients that hang up or send nothing | connections are closed; a response is what its header says; the server stops after SIGINT; the queue is served |
| **HTTPS server** `src/httpsrv-tls.c`, `src/httpsrv-tls_windows.c` | the same, SSL context and session | `https_server` (loop or oneshot build), `ssl_write_all` | five error paths after `fopen`, each frees a different set; interrupted SSL calls; two-phase shutdown; uninitialised request buffer | every exit frees what it should; a whole response or a broken connection, with two known exceptions; the result goes by the response that was begun |
| **strings** `src/strings.c` | a block, a length, a capacity | create, append, insert, erase, trim, chomp, case, search, compare, split, join, replace | room for the terminator; `size_t` wraparound; a source inside the block that is moved; two passes that must agree | a terminated C string in a block of its capacity after any calls; each function does what its name says |
| **utf8** `src/utf8.c`, **grapheme** `src/grapheme.c` | the caller's cursor | decode, encode, step forward and back, count, validate, cluster boundaries | malformed and truncated bytes; forward and backward must agree; four places with bounds of their own | decoding comes back into step; a step back undoes a step forward; valid means re-encodable |
| **elevate** `src/elevate.c` | two scanners' states | putting `sudo` or `doas` where a command needs it | two scanners and the shell must agree on what is quoted | an elevator before every command and nowhere else, or the line wrapped whole; the lines where that fails are known |
| **file_utils** `src/file_utils.c` | an open file | read whole, write whole, read lines, count lines, line-count tests | a file that changes between the size and the read; last line without newline | never more than was allocated; the questions about lines agree |
| **args** `src/args.c` | none | keys, prefixes, values on a command line | a missing key against an empty value; keys cut to a buffer; `strtok` | the questions about one argument agree |
| **path_utils**, **parsing_utils** | none | join, extension, tidy, canonical; `parse_int`, `parse_bool`, `is_numeric` | empty parts; links; `long` cut to `int` | a path made from another leads to the same place; what is a number is read as that number, or as the nearest `long`, cut to `int` |
| **have** `src/have.c`, **which_os** `src/which_os.c` | `strtok`'s hidden state; a global `os` | look for a command in PATH; name the system | threads; commands that appear and disappear | an answer that was true at some point of the call |
| unit_utils, `have_windows.c`, `color.h`, `style.h`, `custom_defs.h`, `pkgs/` | | | | not modelled, see section 8 |

How they interact: the servers and clients by TCP connections and a file that
anybody may change; a server and its process by SIGINT and the static flag
`running`, which outlives a call; calls of `process_exec` in several threads by
the shared descriptor table; a call and its child by pipes and `waitpid`;
a String and its owners by the block that `realloc` may move; searches of PATH by
the one position that `strtok` keeps; `write_entire_file` and
`read_entire_file` by the file.

## 2. Plan

Done, in the order of importance:

1. `ProcessExec` and its proofs: the concurrent part with most failure paths.
2. `Peers`, `HttpServer`, `HttpsServer` and their proofs; then both with their
   Windows variants beside them.
3. `StringValue` (what strings promise), `SimpleStrings` (what the memory does),
   `StringUtils` (search, split, replace), and the proof about memory.
4. `Utf8` and `Grapheme`.
5. `FileUtils`, `Args`, `Paths`, `Parsing` in one suite (`MCTools`).
6. `PathLookup`, `Elevate`, `Streams`, `Pids`: what surrounds the execution of
   a command, in one suite (`MCSystem`).
7. Proofs about the parts with two actors: `Pids`, `FileUtils` and `PathLookup`.
8. Proofs about what is computed: the contents of responses and the verdict of the
   oneshot build, the promises of strings (a refinement), the decoder, the encoder
   and the validator, the questions about lines, the two scanners of `elevate`,
   the descriptors of a child.
9. Proofs about texts: the laws of `StringUtils`, and what `Grapheme` says of cuts
   and of the neighbours that make up a cluster.
10. Proofs about what is typed: numbers and words, the arguments of a command line,
    paths; and about the lines of a file.

What is left:

- Owners: several `String` structures that share one block, which is what the
  functions that return a copy of the structure produce.

## 3. Modules

| Module | Models | With |
|---|---|---|
| `ProcessExec` | `process_exec`, `process_wait`, `read_from_pipe(s)` and the four wrappers as choices of `capture` | |
| `Streams` | descriptors 0-2 of the child of `process_spawn` and `process_exec` | |
| `Pids` | `process_spawn`, `process_wait`, `is_process_running`, `pidof` among other processes | |
| `PathLookup` | `command_exists`, `which`, `determine_elevator`, `try_to_determine_linux_distro` | |
| `Elevate` | `elevate_command`: confirmation, both scanners, `shell_single_quote` | |
| `Peers` | clients, TCP connections, the served file (not library code: what the servers rely on) | |
| `HttpServer` | `http_server` of `httpsrv.c` and its handler, loop build | extends `Peers` |
| `HttpServerWindows` | `httpsrv_windows.c`, both builds, beside the Unix one | extends `HttpServer` |
| `HttpsServer` | `https_server`, `ssl_write_all`, handler of `httpsrv-tls.c`, both builds | extends `Peers` |
| `HttpsServerWindows` | `httpsrv-tls_windows.c`, both builds, beside the Unix one | extends `HttpsServer` |
| `StringValue` | the promises of `simple_strings.h`, on sequences of characters | |
| `SimpleStrings` | functions that make or change a String, on memory | instance of `StringValue` |
| `StringUtils` | functions that look into Strings or build one from several | extends `SimpleStrings` |
| `Utf8` | `utf8.c` and a cursor that a caller moves both ways | |
| `Grapheme` | `grapheme.c` on the same cursor | extends `Utf8` |
| `FileUtils` | `file_utils.c`, reader and writer of one file as processes | |
| `Inputs` | a line that is typed, character by character (not library code) | |
| `Args`, `Paths`, `Parsing` | `args.c`, `path_utils.c`, `parsing_utils.c` | extend `Inputs` |
| `ProcessExecProofs` | theorems about the module of that name | extends it and `TLAPS` |
| `SimpleStringsProofs` | theorems about `SimpleStrings` and `StringUtils` | extends the latter |
| `Utf8Proofs` | theorems about `Utf8` and `Grapheme` | extends the latter |
| `PeersProofs`, `HttpServerProofs`, `HttpsServerProofs` | the same, with the Windows variants | the last two extend `PeersProofs` |
| `ToolsProofs` | theorems about `FileUtils`, `Args`, `Paths` and `Parsing` | extends them |
| `SystemProofs` | theorems about `PathLookup`, `Elevate`, `Pids` and `Streams` | extends them |
| `MC*` | constants for TLC; `MCTools` and `MCSystem` put independent parts in one run | extend it |

Operators named "Mutant of X" in a module are X as a likely mistake in the code
would make it. Nothing uses them; they document which mistake a property would
catch, and `PROJECT.json` pairs each with its property.

### ProcessExec

Each call of `process_exec` is a thread with a program counter `pc[c]`; one
action is one system call and the local work up to the next. `open` is the
descriptor table that the threads share, as the set of pipe ends open in it;
`holds[c]` is the table of the child, a copy of `open` made by `Fork`.
A read meets the end of file only if no process at all holds the write end,
and a write meets SIGPIPE only if none holds the read end: that is how a fork
in one thread delays the end of file in another. `capture[c]` is the pair of
`bool` arguments; `run` and `run_quiet` are `{}`, `capture_output` is
`{"out"}`, `run_command_via_exec` is both.

| Action | Code |
|---|---|
| `OpenPipe`, `OpenFails` | the two `pipe` calls and their error exits |
| `Fork`, `ForkFails` | `fork` and its error exit |
| `ChildExec` | the child up to `execvp`: `dup2`, the closes, `_exit(127)` |
| `CloseEnd` | each `close` of the parent, separately |
| `Read`, `ReadFails` | one turn of the loop of `read_from_pipe`, or its failure (read or allocation); both are used for stdout and then stderr |
| `Wait`, `FailWait`, `Interrupted` | `process_wait` on the normal and on the failure path; the `waitpid` that a signal interrupts |
| `ChildStartWrite`, `ChildWrite`, `ChildExit` | any program: writes in any order to what is captured, exits with any code |

Output is counted in units, since no code looks at its content.

### Streams, Pids

`Streams` has one descriptor table, of the caller until `Fork` and of the child
afterwards, and what each number leads to. `Lowest` is the rule by which `pipe`
and `open` choose numbers; it is why a caller without descriptor 0, 1 or 2
matters. The order of the `dup2` and `close` calls is that of the code, which
differs between the two functions.

`Pids` has what each process id belongs to, and one program that spawns, waits,
asks and searches. Other processes begin and end between `readdir` and
reading `comm`; a number that is free is given out again.

### PathLookup, Elevate

`PathLookup` has threads that each look for commands in their own copy of PATH,
and one `saved` position of `strtok` for all of them. `whole` is the set of copies
that are allocated and intact. A token that points into another one is any string
when it is used: a directory of PATH, one of `Elsewhere`, or none that exists; or the
process crashes (`Crash`); and what `strtok` writes there may damage a copy
that was made since. Commands are installed and removed meanwhile, in `Elsewhere`
too. One call of `strtok` is one step. In `try_to_determine_linux_distro`,
the read of a name, the test, the default and the return of the global are steps of
their own, and `named` says which calls have read a name.

`Elevate` runs the two loops of `elevate.c` and the shell side by side over a
line of unbounded length, of which the state keeps only the next character:
all three are finite automata, so TLC covers lines of every length. The shell knows
quoting, operators, reserved words at the beginning of a command, and substitutions
between double quotes; `odd` is set when it meets what the loops do not see.

### Peers, HttpServer, HttpsServer and the Windows variants

`Peers` has for each client the state of its connection, what is in each
direction's buffer, and what it has taken. `Deliver` is a write of one unit:
it waits while the buffer is full, and after the client has hung up it gets
lost and may meet a reset. `CloseConn` with part of the request unread becomes
a reset that discards what is in flight, as TCP does it. The file has a size or
is missing; it changes at any time, except that a deletion while it is open
is postponed (the open descriptor keeps the content).

The servers' `pc` names the place in the function. One action is at most one
call that other parties can see, so that signals, clients and file changes come
between any two. `Announce` is a step of its own because the signal that comes
between the check of `running` and `accept` is the one that gets lost.
`Sigint` sets `running` to FALSE and makes the blocking call return, if the
thread is in one: handlers are installed without `SA_RESTART`. What a call does
then differs: `accept` of both servers fails; `read` and the `write` of the body
in `httpsrv.c` end early and nobody looks; in `httpsrv-tls.c`, the read loop and
`ssl_write_all` try again, `SSL_accept` and `SSL_shutdown` are given up.

`HttpServer` takes the result of `malloc` as it comes: `Fill` without a block (there is
no memory, `ftell` returned -1, or its size is that of a directory) crashes, or goes on
and writes a header and no body. `cut` has the clients whose body the server has given up,
for this reason or because a signal interrupted its write.

`HttpsServer` keeps the set `held` of what is allocated; `SSL_new` adds the session before
the handshake. The exits are written out by hand in the code, so they are tables here, one
entry for each, read off the code: `Frees` is what an exit of an iteration frees in both
builds, `Ends` what the oneshot build frees there besides before it returns, `StartFrees` what
the exits before the loop free; `WEnds` and `WStartFrees` are those of Windows. `outcome` is
the exit that was taken. `Leave(e)` is `continue` or, in the oneshot build, a
return, and takes from `held` what the table says and nothing else, so an entry that
forgets something leaves it held (a mutant of each table does). The five error paths after
`fopen` are five disjuncts, each with its own `fclose` and `free`. `Oneshot` is the
build. `IntOf` is the cast to `int` in `ssl_write_all`.

A second call of `https_server` differs from the first only in the static flag,
so `Init` has either value of `running`; `HttpServer`, which never closes its
server socket, has the repeated calls themselves (`MaxCalls`).

The Windows modules add the program as a variable (`build`, `windows`) that never
changes, so one run explores the Unix and the Windows program and the fairness
and properties of the first carry over. What the two files share is taken from
the Unix module (`WAccept == Accept /\ UNCHANGED winVars`, each mapped to the
lines of the Windows file); what differs is written out: Winsock is started and
given back, the handler runs in a thread of its own, so no call is interrupted,
and it is taken out by its first signal, so a second SIGINT ends the process;
every exit releases what was acquired.

### StringValue, SimpleStrings, StringUtils

In `SimpleStrings` a String is `[data, len, cap]`; `data` is the sequence of
cells of its block, each a character, `NUL` or `Junk` (never written, or freed).
`Poke` and `Peek` are `memcpy`/`memmove` into and out of a block: what would be
written behind its end is lost and what is read there is `Junk`, so an overrun
shows as a violated `WellFormed` or `KeepsPromises`. `size_t` counts modulo
`SizeMod`; `Wrap` is applied where the code adds or subtracts caller-supplied
numbers. `Caps` is the doubling loop of `str_grow`, without recursion.
Functions that return a new String (`str_clone`, `str_substr`,
`str_remove_prefix` ...) are actions that replace the String by their result.
`CreateFails` and `WithCapFails` are the failed `malloc`, which leaves `NULL`
with a capacity.

`StringValue` says what each function does to the value alone, and
`KeepsPromises` that each step of `SimpleStrings` does this to the value of
the String, by `INSTANCE StringValue WITH val <- Value(s)`.

`StringUtils` has the functions without effect, as operators on sequences.
`Strstr` takes the place of `strstr`; two passes of `str_split` are two
operators, `CountFrom` and `SplitFrom`, because their agreement is a question.
Loops over a text are functions of the position where the search resumes.
`Rank` gives different characters different values, as bytes have.

### Utf8, Grapheme

A text is the sequence of its bytes before the terminator. `Forward` is a call of
`str_next_codepoint`; `Back` is `str_prev_codepoint`, which may look at up to four
bytes before the string, so these are part of its input (`Outside`). `trail` is
where the steps forward began: a history of the caller. The encoder, the decoder,
the validator and the length function are four operators, as they are four
functions with bounds of their own. In `Grapheme` the tables are those of the
code and `ExtendedTo` is its loop.

### FileUtils, Inputs, Args, Paths, Parsing

`FileUtils` has `write_entire_file` (`OpenToWrite`, `Flush`) and
`read_entire_file` (`TakeSize`, `ReadBlock`) as two processes whose system calls
interleave; `Flush` and `ReadBlock` may be partial. The functions about lines are
operators on the contents, checked on every content that the processes produce.

`Inputs` types a line, so the inputs of the other three are the states: every
line over the characters of its kind up to a length. Each pure function is an
operator with the C function's name. `Paths` has a small file system with a
link, by which the properties say where a path leads.

## 4. Runs

| Run | Instance | What it shows |
|---|---|---|
| `exec_one` | 1 call, any capture, pipe of 2 units, up to 3 written per stream, all failures, an interrupted wait included | `AllOrNothing`, `NoEndLeaked`, `ChildReaped`; `ReturnsUnlessStuck`: the call returns, or it waits for the end of stdout while its child waits for room in stderr |
| `exec_two` | 2 concurrent calls, at most one stream each, pipe of 1, up to 2 written, all failures but of reads | `EveryCallReturns`: ends of file come, although forks inherit foreign pipe ends |
| `exec_both_streams` | 1 call that captures both | **violated**: `EveryCallReturns` (finding 1) |
| `http_all` | the Unix build and both Windows builds; 2 calls, 2 clients, a file of 0 or 2 units, buffer of 1, 1 signal, every failure, of `ftell` and `malloc` too | `AtMostOneMore`, `NoConnectionLeft`, `ResponseShape`, `CompleteUnlessCut`, `ReturnReleases` (Windows), `Served` |
| `tls_loop` | the loop of both programs, 2 clients, a file of 2 or 3 units, requests of 2 segments, socket buffer of 1, 1 signal, every failure of a call but those of `ftell`, the second `fseek` and `malloc` | `IterationReleases`, `ReturnReleases`, `AtMostOneMore`, `NoConnectionLeft`, `CompleteResponse`, `Served` |
| `tls_oneshot` | the oneshot build of both programs, the file missing too, 2 signals, every failure | `OneshotVerdict`, `ReturnReleases`, `WindowsReleases` |
| `tls_stale` | the loop, 2 clients that stay, no failure and no signal | **violated**: `ReadsToTerminator` (finding 2) |
| `strings` | 5 characters, 4 words, positions and counts 0-3, up to 4 characters | `WellFormed`, `KeepsPromises`, and on every text so built `SplitInverse`, `ReplaceEverywhere`, `LookingAgrees` |
| `text` | every text of up to 3 bytes at the edges of the decoder, four-byte sequences, and every text of up to 4 code points of 7 classes | `Resynchronises`, `BackUndoesForward`, `ValidMeansEncoded`, `ClusterRules`, `TextCuts` |
| `tools` | a file of up to 4 characters that is rewritten while it is read; command lines of up to 5 characters, paths of up to 6, numbers of up to 4 | `ReadsWhatItSized`, `LineQuestions`, `ReadsLines`, `ArgsAgree`, `PathsLead`, `ParsingAgrees` |
| `tools_lines` | the same files | **violated**: `CountsLines` (finding 3) |
| `system` | 2 threads that search 2 directories with an empty entry between them, 1 directory outside of PATH, 2 commands installed and 1 change; command lines of any length; all streams; 3 process ids | `SearchTruthful`, `ElevatesEachCommand`, `StreamsWired`, `PidsTruthful` |

### Bounds, and why they are enough

- *Calls 2*: a pipe end is kept from its end of file by one foreign holder; a
  third call adds holders but no new kind of step. The safety part is proved for
  any number.
- *Pipe 1-2, output up to 3*: one unit more than the pipe holds is enough for
  a writer to block; a pipe that is empty, partly full and full occurs.
- *Clients 2*: one is served while another waits, hangs up or comes late; after a
  signal a second one is what `AtMostOneMore` needs. (The counter `late` would
  reach 2.) `tls_oneshot` would accept a second one if it could.
- *File sizes 0, 2*: it grows and shrinks between any two steps, and `fopen` may fail;
  a body of 2 units is interrupted in the middle. HTTPS has 2 and 3: `IntWrap` is 3,
  so one of the sizes fits an `int` and the other does not.
- *Socket buffer 1*: every write of a body blocks, and so does `close_notify` behind it.
- *Segments 2, `ReqCap` 2*: the request comes in parts, and the last of them fills the
  buffer.
- *Failures in `tls_loop`*: of the five that are answered with a 500 it has the first
  (`fseek`) and the last (`fread`), which differ in what is held; the others release and
  answer as the first does, and `tls_oneshot` has all five. The proofs have all of them.
- *One signal*: the flag never rises again, so the first signal is the one that
  changes what the loop does; it may come at every point. `tls_oneshot` has a
  second one, which on Windows ends the process. Proofs have any number.
- *Strings*: `MaxLen` 4 with words of up to 2 and capacities up to 8 makes every
  growth step, exact fit and truncation occur; texts of length 4 over 5
  characters hold overlapping occurrences and all line endings. `SizeMod` 16
  is above every sum that does not wrap (4 + 3 + 1), as SIZE_MAX is for
  strings in memory. `WellFormed` is proved for any alphabet, words and bounds.
- *Texts*: the decoder compares bytes with the bounds that `EdgeBytes` straddles
  (both ends of the continuation bytes, the second bytes that E0, ED, F0 and F4
  restrict, the first and last lead bytes); a step back looks at four bytes at
  most. A cluster rule looks at the code point before, the one after and one
  bit of what came earlier (a regional indicator, a joiner), so 4 code points
  put two clusters next to each other.
- *Files of 4 characters*: two lines with and without a last newline, lines of
  white space only, CR LF, and a wanted number of lines one below, at and one
  above. The buffer of `read_lines` has `Size` 4, so that a line fits it or misses it
  by one. What is written to be read may be longer than what was sized.
- *Typed lines*: long enough that a key is cut (`KeyMax` 3), a list is cut
  (`ListMax` 5), and a path goes through a link and back. `IntMod` 16 and
  `LongMod` 256 are the widths of `int` and `long`: numbers of 3 digits exceed
  the first, and 4 digits the second.
- *Search*: two threads are what it takes to share `strtok`; two directories that
  are apart by an empty entry, so that a token can be missed in either. One
  directory outside of PATH is what freed memory may spell. At most 2 commands at first
  (`MaxInstalled`) and one change between the steps: a command that is looked for in both,
  in one or in the wrong place. The threads are interchangeable (`SYMMETRY`; the run has
  invariants only). Proved for any PATH, threads and changes.
- *Command lines*: no bound, as the scanners are finite automata.
- *Descriptors*: each of 0-2 open or closed, a table of 8, which no call exhausts.
- *Process ids*: 3 ids, 3 events: one that ends and is given to another process
  while others remain. Proved for any number.

### Deadlock and stopping

`Finished` and `Waiting` are stuttering steps enabled exactly where a server
may rest (all calls returned; the server has returned, was killed by SIGPIPE, or
waits in `accept` with nobody in the queue), so TLC's deadlock check is an
additional property of the server runs. It is off in the other runs. A call that
captures both streams really may stop, which is what `ReturnsUnlessStuck` and
`EveryCallReturns` are about; a typed line, a text or a search is finished at
some time.

### Fairness

- `ProcessExec`: weak fairness of each thread and of each child. The kernel's
  scheduler gives it; a child that stays ready to step does so. No failure is
  fair. Programs write a bounded amount (`MaxOut`) and end: a program that runs
  for ever keeps `process_exec` waiting by design.
- Servers: weak fairness of the server thread (`ServerStep`; in HTTPS with the
  failures of a handshake, which is the only way on when the client has gone).
  Strong fairness of `Accept`, because `AcceptFails` and signals leave and
  re-enter the `accept` call: with connections in the queue it does not fail
  each time. Weak fairness of each client that stays: it sends its request,
  takes its response and answers `close_notify`. The code has no timeouts, so
  without this fairness one silent client stops the service for all others;
  it is listed as a hazard. Hanging up, signals, file changes and failures
  are never fair. `WFairSpec` states the same of the Windows programs.
- `http_all` also has weak fairness of `Call`: the application keeps calling
  while it may.

The other modules have no liveness: each function is a loop over its input, and
what could keep it from ending (a `read` of a file, a directory) is not theirs.

## 5. What the runs found

1. `exec_both_streams`: `read_from_pipes` reads stdout to its end before it reads
   stderr. A child that fills the stderr pipe before it closes stdout and the
   parent wait for each other for ever.
2. `tls_stale`: the end of the headers is searched in the whole buffer, not in
   what was received; what an earlier request left there ends the read loop.
3. `tools_lines`: after the loop of `file_line_count`, `ch` is always EOF, so the
   file "x\n" is said to have two lines.

Seen in the models or while writing them, not run as findings because no document
says otherwise, or because a passing run states the exception:

*Processes.*
- `process_wait` takes `EINTR` for failure, while `read_from_pipe` retries it:
  `process_exec` returns -1 and the child is left to run, or a zombie.
  `ChildReaped` says that this is the only way to leave a child.
- When reads fail in two concurrent calls, each can wait for a child that writes to
  a pipe whose read end the other child has inherited: both wait for ever.
  (`exec_two` excludes failing reads.)
- A child whose caller has closed one of 0-2 gets streams that lead elsewhere:
  `StreamsWired` says where they lead if 0-2 are open, and what remains true if not.
- A child that has ended but was not waited for counts as running; a process that
  the caller may not signal counts as not running, and so does a child that has executed a
  setuid program such as sudo. `comm` holds 15 characters,
  so `pidof` finds no longer name; until it has called `exec`, a child has its
  parent's name.

*Servers.*
- SIGINT during the write of a body cuts the response of `http_server` short
  under a `Content-Length` that promises more; the body is junk behind the end
  of a file that shrank. `ssl_write_all` avoids the first, the check of `fread`
  in `httpsrv-tls.c` the second.
- `httpsrv.c` looks neither at `malloc` nor at `ftell` (src/httpsrv.c:115-119): without a
  block, which is what a directory as the file gives on Linux (`ftell` returns LONG_MAX),
  it crashes or sends a header without a body and closes in good order. These
  responses, and those whose write was interrupted, are the ones that
  `CompleteUnlessCut` exempts by `cut`.
- `http_server` (Unix) never closes its server socket (src/httpsrv.c:140 says that it
  should), so a later call cannot bind, and leaks a second socket. `running` stays
  FALSE, so if it did bind it would serve one connection. The Windows programs
  release everything before they return.
- The 404 exit and the failed handshake of the Unix oneshot build of
  `https_server` do not close the server socket, as the other exits do; neither
  do failures of `bind` and `listen`.
- On Windows the handler of SIGINT is taken out by its first signal, so a second
  one ends the process in the middle of whatever it does.
- Neither Unix server ignores SIGPIPE: a client that hangs up at the wrong moment
  ends the process. `Served` exempts it.
- The 500 responses of `https_server` claim 21 bytes and carry 18
  (src/httpsrv-tls.c:303-306): a client that believes the header waits for 3 more. A body
  of more than INT_MAX bytes makes the `int` in `ssl_write_all` negative
  (src/httpsrv-tls.c:42), so the client gets a header, no body (or, from 2^32 on, what the
  cast leaves of it) and an orderly close. `CompleteResponse` names both as the
  responses that are not whole.
- The oneshot build of `https_server` ignores what `ssl_write_all` returns, so it
  reports success for a 200 that was cut, too. `OneshotVerdict` is about which
  response was begun.

*Strings and text.*
- `str_append_str(&s, &s)` copies from the block that `realloc` may have freed
  (`SelfGrow` excludes it); `pos + len` wraps in `str_erase` and `str_substr`.
- `str_chomp_all` and `str_chop_n` write to `data[len]` of a String without a block.
- `str_split` does not look whether `malloc` of a part failed, and the parameter of
  `str_join_strs` is an array of characters, not of strings: both are left out.
- Going back over stray continuation bytes, `str_prev_codepoint` leaves the
  string at its front (src/utf8.c:76), although utf8.h:66-67 says that it looks
  only at memory of the buffer;
  `BackUndoesForward` is about positions that steps forward reached.
- CR LF behind a zero-width joiner is split: the joiner glues the CR, and the LF begins a
  cluster. src/grapheme.c:113 says "never split a Windows-style line ending", and
  src/grapheme.h:19 has "CRLF as a single cluster" among the cases that it "correctly
  handles". Behind a line ending or a flag, combining marks and variation selectors begin a
  cluster of their own, although grapheme.h:20-23 has them attach to what
  is before them. `ClusterRules` says that these two are the only such cases.

*Commands and paths.*
- A backslash between single quotes escapes for the scanners of `elevate.c` and not
  for the shell, so they miss the quote that closes behind it: in `'\' && id '\'` they see
  no second command. Between double quotes they do not see `$(` and backquotes, with which a
  command begins. Nor do they know reserved words: `if true; then id; fi` becomes
  `sudo if sudo true; sudo then ...`, which the shell refuses. elevate.h:9-13
  says that each command of a simple line gets its elevator. The model reads all of
  these lines: `ElevatesEachCommand` says that with a reserved word the elevator
  always stands wrong, exempts by `odd` the lines with what the loops overlook, and holds
  of all others.
- elevate.h:6 and the comment at src/elevate.c:12 announce sudo first and then doas; both
  are looked for, and if both exist, doas is taken. `SearchTruthful` is about what the code
  takes.
- Searches in two threads share `strtok`'s position: each may miss directories, or
  read the other's freed copy of PATH, in which it may find a command outside of PATH, or
  crash. What is found was there.
- `try_to_determine_linux_distro` tells its caller to free what it returns (which_os.c:63),
  which is a global, or the literal "linux" (:118). A later call that reads no name returns
  the earlier one, freed or not. A call that reads one returns it, if calls do not
  overlap: that is in `SearchTruthful`.
- `config_arg_is_val` with an empty value is true for a key that is absent.
- `path_join` with an empty first part gives an absolute path.
- `read_lines` takes a line of more than 4095 characters with its ending for several
  lines; if CR and LF are parted in this way, the CR stays and an empty line follows
  (src/file_utils.c:213). `FitBuffer` in `ReadsLines` excludes such lines.

## 6. Proofs

Checked with `tlapm`; the constants are arbitrary within the named assumptions.

| Theorem | Says | Argument |
|---|---|---|
| `ProcessExecProofs!TypeCorrect` | `Spec => []TypeOK` | inductive as it stands |
| `ProcessExecProofs!NoLeak` | `NoEndLeaked` | which ends of its own pipes a call has open is a function of its `pc`; other threads touch only theirs |
| `ProcessExecProofs!Whole` | `AllOrNothing` | conservation: for each captured stream `got + pipe = sent` as long as the call reads; a writer exists only while some process holds the write end; so at the end of file the child is gone and the pipe empty |
| `ProcessExecProofs!Reaped` | `ChildReaped` | before the fork there is no child, from then on there is one, and of the three ways to "done" behind it two reap it and the third is the interrupted wait (`NoneLeftBehind`) |
| `HttpServerProofs!OneMore`, `HttpsServerProofs!OneMore` | `AtMostOneMore` | a call with the flag down that has accepted late is past its last `accept`: its `pc` can only lead to `Check` |
| `HttpServerProofs!NoneLeft`, `HttpsServerProofs!NoneLeft` | `NoConnectionLeft` | only the connection of `client` is in a state of `Live`, and `client` is `NoClient` exactly outside an iteration |
| `HttpsServerProofs!Releases`, `!ReturnsRelease` | `IterationReleases`, `ReturnReleases` | what is held is a function of `pc` and of the exit that was taken (`HeldAt`); the tables of the exits are compared with it entry by entry (`ExitFrees`, `ExitEnds`), in both builds |
| `HttpServerProofs!WLoop`, `HttpsServerProofs!WLoop` | the invariants above for the Unix and the Windows program together | a step of a Windows program is one of the Unix module beside what Winsock does, or one of the few that differ |
| `HttpServerProofs!WReleases` | `ReturnReleases`: on Windows every return has released the socket and Winsock | both are functions of `pc` |
| `HttpsServerProofs!WReleases` | `WindowsReleases`: no exit of either Windows build keeps anything | the same, with the tables of Windows |
| `SimpleStringsProofs!StringsWellFormed` | `WellFormed` | the invariant `Good` (cells in range, `cap` the size of the block, terminator at `len`); a lemma per memory operation (`PokeCells`, `InsertGood`, `MoveGood` ...), then one per group of actions |
| `SimpleStringsProofs!PromisesKept` | `Spec => KeepsPromises`: memory implements `StringValue` | the refinement maps a block to the characters before its terminator; every step of `SimpleStrings` from a `Good` String is the step of `StringValue` with the same arguments (`AddPromises`, `RangePromises`, ...) or leaves the value alone |
| `HttpServerProofs!Responses`, `!WResponses` | `ResponseShape`, `CompleteUnlessCut` | `AnswerInv`: what a client was given and the body that is left make up the response (`Progress`); nothing is given before it starts (`Silent`) |
| `HttpsServerProofs!WholeResponse`, `!WWholeResponse` | `CompleteResponse` | the same; a body is either written to its end or its length does not fit an `int` (`IntOfSmall`) |
| `HttpsServerProofs!Verdicts`, `!WVerdicts` | `OneshotVerdict` | `Fate`: one client at most is given anything, and from then on the first unit of it and `outcome` agree |
| `Utf8Proofs!Resynchronised` | `Resynchronises` | `Path`: each entry of the trail is the next position of the one before, so nothing lies between; a step over a sequence passes continuation bytes only |
| `Utf8Proofs!BackUndoes` | `BackUndoesForward` | from the end of a step, the walk back stops where the step began (`Lands`), whatever precedes the text |
| `Utf8Proofs!EncodedWhenValid` | `ValidMeansEncoded` | from the end of the text backwards: valid from `p` on exactly if what was decoded from `p` on encodes to the rest (`EncodesStep`); a malformed byte becomes three others (`MalformedDiffers`) |
| `SimpleStringsProofs!SplitInverts` | `SplitInverse`, for fair callers | the two passes and the text that remains, from the end backwards over the places `strstr` finds (`Scanning`, `Backwards`); a part contains no delimiter because the first one was cut at (`PieceFree`) |
| `SimpleStringsProofs!ReplacesEverywhere` | `ReplaceEverywhere`, for fair callers | both functions resume behind the same match (`ReplaceIsJoin`); in a text that repeats the old one, the first match is at the front (`ReplaceRepeated`) |
| `SimpleStringsProofs!LooksAgree` | `LookingAgrees`, for fair callers | two texts are compared at their first difference, and of two first differences the earlier one decides (`CmpTransitive`); the first two quotes are the first two matches (`QuoteIs`) |
| `Utf8Proofs!CutsText` | `TextCuts` | the text before a cut is decoded as before, except that a sequence cut short becomes a code point that joins nothing (`PrefixAt`), so code points and clusters that end before the cut are the same (`EndsKept`); the trail begins where the text does and has no gaps (`Chain`) |
| `Utf8Proofs!RulesOfClusters` | `ClusterRules` | induction over code points: each belongs to the cluster of the last beginning, and where that cluster's loop stands tells the same of the next one as its neighbours do (`Group`, `GroupStep`); beginnings and clusters correspond one to one (`StartsCounted`) |
| `ToolsProofs!ReadWhatWasSized` | `ReadsWhatItSized` | while nobody has written, the result is the front of what the file was when it was sized |
| `ToolsProofs!LinesAgree` | `LineQuestions` | the loop has decided at `i` exactly if some newline up to `i` decides (`ScanIs`), and the count of newlines does not fall |
| `ToolsProofs!ReadsEachLine` | `ReadsLines` | what `fgets` reads is a line (`FgetsIs`), which stands before the lines of what it leaves (`LinesFirst`), and so do the wanted lines (`WantedFirst`) and their text (`TextFirst`); from the end of the file backwards, what the loop reads from a position on is the text of the lines from there (`ReadingIs`), and a function that is this exists (`ReadingExists`) |
| `ToolsProofs!ReadsNumbers` | `LineSpec => []ParsingAgrees` | a number is read digit by digit (`Value10Type`) and held at the ends of `long`; the cut to `int` changes nothing in its range; the words of the tables differ in lower case, too (`LowerAssumption`) |
| `ToolsProofs!FindsArguments` | `LineSpec => []ArgsAgree` | a key that is found stands behind one of the prefixes (`KeyStands`), so the functions look at the same argument; what is joined with a separator between, and cut there again, is what it was (`JoinedApart`), since a separator parts the pieces of what is before and behind it (`PiecesConcat`) |
| `ToolsProofs!LeadsThere` | `LineSpec => []PathsLead` | a walk over two lists of names is the second from where the first ended (`WalkJoin`), and a slash parts names (`PiecesConcat`); a path and what `Collapsed` made of it so far lead to the same place whatever name follows (`Alike`), because a slash behind a slash names nothing (`SlashBehind`); the canonical path spells the place name by name (`AbsoluteLeads`) |
| `SystemProofs!PidsTruth` | `PidsTruthful` | the entries still to come hold every process that had the name all along and was not passed over; the child's number is its own while it was not waited for |
| `SystemProofs!Wired` | `StreamsWired` | in the child, each descriptor that is no end of a pipe still to be connected is as it should be: as the caller left it, where the options say, or closed (`Wiring`) |
| `SystemProofs!SearchedPath` | `SearchTruthful` | a search that is alone has strtok's position to itself, and no entry before that position had the command all along (`Position`); otherwise only what is found counts (`FoundThere`). Without a race one thread at a time determines the name, so what it has read is still there when it returns (`NameInv`) |
| `SystemProofs!LoopsAgree` | the two scanners and the shell are in corresponding states | a relation of the three automata (`Agree`) that each character preserves, until the first loop gives up, an elevator stands before a reserved word, or the shell meets what the loops overlook |
| `SystemProofs!Wrapped` | `WrapsWhole` (part of `ElevatesEachCommand`) | the shell reads back each character that `shell_single_quote` wrote |
| `SystemProofs!Elevated` | `ElevatesEachCommand` | from these two |

Why strengthenings are needed: `NoEndLeaked` speaks about the end only, so the
invariant must say what is open at each `pc`. `AllOrNothing` needs to know
that the call's child holds the write end while it can still write, that no one
else writes to that pipe, and that an end of file excludes a running child.
`AtMostOneMore` is not inductive: `late = 1` at `accept` must be excluded.
`WellFormed` alone is not inductive (it says nothing of the length's bound or of
the cells behind the terminator, which a later step may move to the front);
together with `TypeOK` it is, but only for the callers assumed below.
`SearchTruthful` speaks of finished searches: the invariant adds what the
search has passed (`Missed`), what the answers so far were (`Answered`), and that
a command that is not looked for yet has no history (`NotYet`).
`CompleteResponse` and `CompleteUnlessCut` speak of connections that are over:
what was given so far has to be tied to what the server still has to write, at
every `pc` between. `KeepsPromises` holds of steps from `Good` Strings only: from a
block without a terminator, no function keeps what it promises. `Resynchronises`
says nothing of the order of the trail, by which a step back would lose a
character. `StreamsWired` speaks of the child when it has started; before, the
invariant has to know which ends are still to be moved, and that nothing has been
moved onto them. `TextCuts` counts the trail, and nothing says that the trail began
at the beginning; and neighbours alone do not say where the loop stood, on
which both sides of `ClusterRules` depend.

Assumptions, besides the named ones of the modules:

- Theorems of `SimpleStringsProofs`: `FairCallers`, which is `~SelfGrow` and that
  any two numbers of `Sizes` add up to less than `SizeMod` (the same).
- The theorems about what is typed are of `LineSpec`, the lines themselves, and
  hold for any characters and any bound on the length. What they need of the
  constants is named in the modules: in `Paths`, that every directory or file but the
  root is in a directory under a name without a slash that is neither `.` nor `..`, and
  that links lead to places; in `Parsing`, that `int` has an even number of values,
  and that lower-casing a word twice is lower-casing it once and leaves the words
  of the tables alone, except the two that are written with a capital.

`PeersProofs` holds lemmas used by both servers. Proofs are hierarchical: one
step per action, below it one per part of the invariant that it can disturb.
`SystemProofs` has instead for the searches a frame lemma (`Frame`, `Others`): what a thread
does leaves the invariant of every other thread alone, so that each action is
left with its own thread.

## 7. Only model-checked

- Liveness under fairness (`EveryCallReturns`, `ReturnsUnlessStuck`, `Served`),
  which is out of the prover's reach.

Induction over data: the theorems of the library about induction take an operator
as a parameter, which the provers cannot instantiate. What is proved about loops
over a text or a file (`LinesAgree`, `EncodedWhenValid`, `SplitInverts`, `CutsText`,
`LeadsThere`, `ReadsEachLine` ...) uses instead that a set of numbers with an element has
a least one (`LeastElement`, from the
well-foundedness of `<`): the set of positions where the claim fails is empty, since
its least element would not be in it. A function defined by recursion is what its
equation says only if some function satisfies it, which `Recursion` shows once;
`FoldExists` does the same in `ToolsProofs` for a loop that goes through a sequence, by
`Stepwise` (induction over the numbers up to a length), and `Longer` is induction over
sequences that get longer at the end.

## 8. Not modelled

- `unit_utils`: one multiplication of doubles each.
- `have_windows.c`: one call of `SearchPathA`. (Its comment says that a NULL
  extension makes that try the suffixes of PATHEXT; it appends none. A path longer
  than the buffer is found by `command_exists` and not by `which`.)
- `color.h`, `style.h`, `custom_defs.h`: macros.
- `pkgs/`: packaging. It contains copies of release 1.0 of the same sources nested
  in one another, with other formatting, and `process_utils` as calls of `popen`.
  The models are about `src/`; the lines of the copies are not mapped, although
  most of them are the lines modelled here once more.
- The oneshot build of `httpsrv.c` for Unix: it does not compile (the block opened
  at line 80 is never closed).
- `which_os`: the table of Windows versions and the constants of other systems.
- Within what is modelled: failure of `realloc` in `str_grow` (the code writes on
  through a stale size; nothing handles it), `NULL` arguments, the bytes of messages, `str_join_strs`,
  `print_command_output`, the output buffer of `elevate_command` (a line gets at
  most one elevator per character, which is what it is sized for).
