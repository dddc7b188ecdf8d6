------------------------------ MODULE Streams ------------------------------
(***************************************************************************)
(* process_utils.c: what the descriptors 0, 1 and 2 of a child of          *)
(* process_spawn or process_exec lead to.  The caller may have closed some *)
(* of its own, and then open and pipe return these numbers.  (How the      *)
(* parent reads the pipes is the subject of ProcessExec.)                  *)
(***************************************************************************)
EXTENDS Integers, Sequences, FiniteSets

CONSTANT TableSize   \* descriptors 0 .. TableSize - 1: enough for two pipes and /dev/null

ASSUME StreamsAssumption == TableSize \in Nat /\ TableSize >= 8

Fds == 0 .. TableSize - 1
Std == 0 .. 2

VARIABLES
  fn,       \* "process_spawn" or "process_exec"
  inherit,  \* the streams that the child shares with the caller: inherit_stdin and so on
  capture,  \* the streams of which the output is captured
  open,     \* the streams that the caller has
  fds,      \* the table of the caller; after fork, the child's
  pipes,    \* the read and the write end of the pipe for a stream
  at,       \* where it is: "pipe", "wire", "run" or "failed"
  left      \* the streams that are still to be connected, in order

streamVars == <<fn, inherit, capture, open, fds, pipes, at, left>>

-----------------------------------------------------------------------------
(* System calls *)

\* What a descriptor leads to.
Closed       == <<"closed">>
Null         == <<"/dev/null">>
Caller(fd)   == <<"caller", fd>>
WriteEnd(fd) == <<"write end", fd>>
ReadEnd(fd)  == <<"read end", fd>>

\* The lowest number that is free, and the table with it in use.
Lowest(t)   == CHOOSE d \in Fds : t[d] = Closed /\ \A e \in 0 .. d - 1 : t[e] # Closed
Dup2(t, d, fd) == [t EXCEPT ![fd] = t[d]]
Close(t, d)    == [t EXCEPT ![d] = Closed]

-----------------------------------------------------------------------------

\* options may be NULL, which inherits all three.
StreamsInit ==
  /\ fn \in {"process_spawn", "process_exec"}
  /\ inherit \in SUBSET Std
  /\ capture \in IF fn = "process_exec" THEN SUBSET {1, 2} ELSE {{}}
  /\ open \in SUBSET Std
  /\ fds = [d \in Fds |-> IF d \in open THEN Caller(d) ELSE Closed]
  /\ pipes = <<>>
  /\ at = "pipe"
  /\ left = IF fn = "process_exec" THEN <<1, 2, 0>> ELSE <<0, 1, 2>>

\* The pipes of the captured streams, stdout's first.  On a failure what was made is closed.
MakePipe ==
  /\ at = "pipe" /\ Len(pipes) < Cardinality(capture)
  /\ \/ LET fd == IF pipes = <<>> /\ 1 \in capture THEN 1 ELSE 2
            r  == Lowest(fds)
            t  == [fds EXCEPT ![r] = ReadEnd(fd)]
            w  == Lowest(t)
        IN  /\ pipes' = Append(pipes, [fd |-> fd, r |-> r, w |-> w])
            /\ fds' = [t EXCEPT ![w] = WriteEnd(fd)]
            /\ UNCHANGED at
     \/ /\ at' = "failed"
        /\ fds' = [d \in Fds |-> IF \E i \in DOMAIN pipes : d \in {pipes[i].r, pipes[i].w}
                                 THEN Closed ELSE fds[d]]
        /\ UNCHANGED pipes
  /\ UNCHANGED <<fn, inherit, capture, open, left>>

\* fork; the rest is the child's.  On a failure the pipes are closed.
Fork ==
  /\ at = "pipe" /\ Len(pipes) = Cardinality(capture)
  /\ \/ at' = "wire" /\ UNCHANGED fds
     \/ /\ at' = "failed"
        /\ fds' = [d \in Fds |-> IF \E i \in DOMAIN pipes : d \in {pipes[i].r, pipes[i].w}
                                 THEN Closed ELSE fds[d]]
  /\ UNCHANGED <<fn, inherit, capture, open, pipes, left>>

Piped(t, p, fd) == Close(Close(Dup2(t, p.w, fd), p.r), p.w)

\* Mutant of DevNull: what was open at fd before stays.
DevNullNoDup(t, fd) == Close([t EXCEPT ![Lowest(t)] = Null], Lowest(t))

\* /dev/null is opened, duplicated and closed again.
DevNull(t, fd) ==
  LET d == Lowest(t) IN Close(Dup2([t EXCEPT ![d] = Null], d, fd), d)

\* The next stream; /dev/null can be opened.
Wire ==
  /\ at = "wire" /\ left # <<>>
  /\ LET fd == Head(left) IN
       \/ /\ fd \in capture
          /\ \E i \in DOMAIN pipes : pipes[i].fd = fd /\ fds' = Piped(fds, pipes[i], fd)
       \/ /\ fd \notin capture
          /\ fds' = IF fd \in inherit THEN fds ELSE DevNull(fds, fd)
  /\ left' = Tail(left)
  /\ UNCHANGED <<fn, inherit, capture, open, pipes, at>>

\* The program is started, or the child exits with 127 if it, or working_dir, is not there.
Start ==
  /\ at = "wire" /\ left = <<>>
  /\ at' \in {"run", "failed"}
  /\ UNCHANGED <<fn, inherit, capture, open, fds, pipes, left>>

StreamsNext == MakePipe \/ Fork \/ Wire \/ Start

StreamsSpec == StreamsInit /\ [][StreamsNext]_streamVars

-----------------------------------------------------------------------------
(* Properties *)

Expected(fd) ==
  CASE fd \in capture                      -> WriteEnd(fd)
    [] fd \notin capture /\ fd \in inherit -> IF fd \in open THEN Caller(fd) ELSE Closed
    [] OTHER                               -> Null

\* If the caller has all three streams, each of the program's leads where the options say,
\* and it has no other descriptor.  If the caller had closed some, /dev/null or a pipe gets
\* their numbers, and streams that were to be captured or silent may be closed or lead to
\* /dev/null, but never to what belongs to another stream.
StreamsWired ==
  at = "run" =>
    /\ \A fd \in Std : /\ fds[fd] \in {Expected(fd), Null, Closed}
                       /\ open = Std => fds[fd] = Expected(fd)
    /\ \A d \in Fds \ Std : fds[d] = Closed
=============================================================================
