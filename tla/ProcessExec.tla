---------------------------- MODULE ProcessExec ----------------------------
(***************************************************************************)
(* process_exec of process_utils.c: a thread makes up to two pipes, forks, *)
(* reads the child's stdout to the end, then its stderr to the end, closes *)
(* the read ends and waits for the child.                                  *)
(*                                                                         *)
(* Several calls may run at once, each in a thread of one host process.    *)
(* The threads share the table of open descriptors, so a fork hands the    *)
(* child every pipe end that is open at that moment, those of the other    *)
(* calls included (the pipes are made without O_CLOEXEC).  A pipe ends     *)
(* (read returns 0) only when no process holds its write end any more, and *)
(* a write to it is answered by SIGPIPE only when no process holds its     *)
(* read end.                                                               *)
(*                                                                         *)
(* Output is counted in units: what a unit says is of no interest here.    *)
(* Output to a stream that is not captured goes elsewhere and is not seen. *)
(***************************************************************************)
EXTENDS Naturals, FiniteSets

CONSTANTS
  Calls,     \* the calls of process_exec, one thread each
  Captures,  \* the streams a call may capture: a set of subsets of Streams
  PipeCap,   \* units of output a pipe holds before a write to it blocks
  MaxOut,    \* units of output a child writes to one stream at most
  Codes,     \* the exit codes of the programs that are run
  MayFail    \* which operations may fail (see Failures)

Streams  == {"out", "err"}
Sides    == {"r", "w"}
Failures == {"pipe", "fork", "exec", "read", "wait"}

ASSUME ExecAssumption ==
  /\ Captures \subseteq SUBSET Streams
  /\ PipeCap \in Nat \ {0}
  /\ MaxOut \in Nat
  /\ Codes \subseteq 0 .. 255
  /\ MayFail \subseteq Failures

Ends        == Calls \X Streams \X Sides
PipeOf(c,s) == {<<c, s, "r">>, <<c, s, "w">>}
PipesOf(c)  == PipeOf(c, "out") \cup PipeOf(c, "err")

SIGPIPE == 13
Died    == [how : {"exited"}, n : Codes \cup {127}]
             \cup [how : {"signaled"}, n : {SIGPIPE}]

\* The status reported for a wait status (process_wait).
ExitStatus(w) == IF w.how = "signaled" THEN 128 + w.n ELSE w.n

Labels == {"pipe_out", "pipe_err", "fork", "close_w_out", "close_w_err",
           "read_out", "read_err", "close_r_out", "close_r_err", "wait",
           "fail_r_out", "fail_r_err", "fail_wait", "done"}

VARIABLES
  capture,  \* capture[c]: the streams call c captures (its two bool arguments)
  pc,       \* pc[c]: where call c is
  open,     \* the pipe ends open in the host process
  got,      \* got[c][s]: units of stream s read so far into the call's buffer
  given,    \* given[c][s]: a buffer is ready to be handed to the caller
  ret,      \* ret[c]: "ok" when the call returned 0, "fail" when it returned -1,
            \* "eintr" when it did with errno EINTR, from waitpid
  status,   \* status[c]: the value stored through exit_status_out
  child,    \* child[c]: the state of the child forked by c
  holds,    \* holds[c]: the pipe ends open in the child of c
  op,       \* op[c]: the stream the child of c is writing to
  sent,     \* sent[c][s]: units the child of c has put into the pipe for s
  pipe,     \* pipe[c][s]: units in the pipe for s
  died      \* died[c]: the wait status of the child of c

parentVars == <<capture, pc, open, got, given, ret, status>>
childVars  == <<child, holds, op, sent, pipe, died>>
vars       == <<capture, pc, open, got, given, ret, status,
                child, holds, op, sent, pipe, died>>

Init ==
  /\ capture \in [Calls -> Captures]
  /\ pc      = [c \in Calls |-> "pipe_out"]
  /\ open    = {}
  /\ got     = [c \in Calls |-> [s \in Streams |-> 0]]
  /\ given   = [c \in Calls |-> [s \in Streams |-> FALSE]]
  /\ ret     = [c \in Calls |-> "none"]
  /\ status  = [c \in Calls |-> 0]
  /\ child   = [c \in Calls |-> "none"]
  /\ holds   = [c \in Calls |-> {}]
  /\ op      = [c \in Calls |-> "none"]
  /\ sent    = [c \in Calls |-> [s \in Streams |-> 0]]
  /\ pipe    = [c \in Calls |-> [s \in Streams |-> 0]]
  /\ died    = [c \in Calls |-> [how |-> "exited", n |-> 127]]

\* Some process holds the pipe end e.
Held(e) == e \in open \/ \E d \in Calls : e \in holds[d]

Goto(c, l)   == pc' = [pc EXCEPT ![c] = l]
Return(c, r) == Goto(c, "done") /\ ret' = [ret EXCEPT ![c] = r]

-----------------------------------------------------------------------------
(* The calling thread *)

\* pipe() for stream s, if it is captured.
OpenPipe(c, s, here, next) ==
  /\ pc[c] = here
  /\ open' = IF s \in capture[c] THEN open \cup PipeOf(c, s) ELSE open
  /\ Goto(c, next)
  /\ UNCHANGED <<capture, got, given, ret, status, childVars>>

\* Mutant of OpenFails: the first pipe is left open.
OpenFailsLeaks(c, s, here) ==
  /\ "pipe" \in MayFail
  /\ pc[c] = here
  /\ s \in capture[c]
  /\ Return(c, "fail")
  /\ UNCHANGED <<capture, open, got, given, status, childVars>>

\* pipe() fails: what this call has open is closed.
OpenFails(c, s, here) ==
  /\ "pipe" \in MayFail
  /\ pc[c] = here
  /\ s \in capture[c]
  /\ open' = open \ PipesOf(c)
  /\ Return(c, "fail")
  /\ UNCHANGED <<capture, got, given, status, childVars>>

\* fork(): the child starts with a copy of the whole descriptor table.
Fork(c) ==
  /\ pc[c] = "fork"
  /\ child' = [child EXCEPT ![c] = "forked"]
  /\ holds' = [holds EXCEPT ![c] = open]
  /\ Goto(c, "close_w_out")
  /\ UNCHANGED <<capture, open, got, given, ret, status, op, sent, pipe, died>>

\* Mutant of ForkFails: the pipes are not closed.
ForkFailsLeaks(c) ==
  /\ "fork" \in MayFail
  /\ pc[c] = "fork"
  /\ Return(c, "fail")
  /\ UNCHANGED <<capture, open, got, given, status, childVars>>

\* fork() fails: every end of both pipes is closed.
ForkFails(c) ==
  /\ "fork" \in MayFail
  /\ pc[c] = "fork"
  /\ open' = open \ PipesOf(c)
  /\ Return(c, "fail")
  /\ UNCHANGED <<capture, got, given, status, childVars>>

\* Mutant of CloseEnd: the parent keeps its write ends.
CloseReadEndOnly(c, s, side, here, next) ==
  /\ pc[c] = here
  /\ open' = IF side = "w" THEN open ELSE open \ {<<c, s, side>>}
  /\ Goto(c, next)
  /\ UNCHANGED <<capture, got, given, ret, status, childVars>>

\* close() of one end of the pipe for stream s, if the call made that pipe.
CloseEnd(c, s, side, here, next) ==
  /\ pc[c] = here
  /\ open' = open \ {<<c, s, side>>}
  /\ Goto(c, next)
  /\ UNCHANGED <<capture, got, given, ret, status, childVars>>

\* The buffer for stream s is complete and the call moves on.
Give(c, s, next) ==
  /\ given' = [given EXCEPT ![c][s] = TRUE]
  /\ Goto(c, next)
  /\ UNCHANGED <<got, pipe>>

\* A read returns some of what the pipe holds.
Take(c, s) ==
  /\ \E n \in 1 .. pipe[c][s] : /\ got'  = [got EXCEPT ![c][s] = @ + n]
                                /\ pipe' = [pipe EXCEPT ![c][s] = @ - n]
  /\ UNCHANGED <<pc, given>>

\* Mutant of Read: an empty pipe is taken for the end of the output.
ReadUntilEmpty(c, s, here, next) ==
  /\ pc[c] = here
  /\ \/ s \notin capture[c] /\ Goto(c, next) /\ UNCHANGED <<got, given, pipe>>
     \/ s \in capture[c] /\ Take(c, s)
     \/ s \in capture[c] /\ pipe[c][s] = 0 /\ Give(c, s, next)
  /\ UNCHANGED <<capture, open, ret, status, child, holds, op, sent, died>>

\* read_from_pipe, one turn of its loop: a read returns some of what the pipe
\* holds; it blocks while the pipe is empty and its write end is held; at the
\* end the buffer is complete.  (A read interrupted by a signal is tried again.)
Read(c, s, here, next) ==
  /\ pc[c] = here
  /\ \/ s \notin capture[c] /\ Goto(c, next) /\ UNCHANGED <<got, given, pipe>>
     \/ s \in capture[c] /\ Take(c, s)
     \/ s \in capture[c] /\ pipe[c][s] = 0 /\ ~Held(<<c, s, "w">>) /\ Give(c, s, next)
  /\ UNCHANGED <<capture, open, ret, status, child, holds, op, sent, died>>

\* Mutant of ReadFails: what was read before is handed out.
ReadFailsGives(c, s, here) ==
  /\ "read" \in MayFail
  /\ pc[c] = here
  /\ s \in capture[c]
  /\ Give(c, s, "fail_r_out")
  /\ UNCHANGED <<capture, open, ret, status, child, holds, op, sent, died>>

\* A read fails, or an allocation for what was read: the buffer is freed.
ReadFails(c, s, here) ==
  /\ "read" \in MayFail
  /\ pc[c] = here
  /\ s \in capture[c]
  /\ \E n \in 0 .. pipe[c][s] : pipe' = [pipe EXCEPT ![c][s] = @ - n]
  /\ got' = [got EXCEPT ![c][s] = 0]
  /\ Goto(c, "fail_r_out")
  /\ UNCHANGED <<capture, open, given, ret, status, child, holds, op, sent, died>>

\* process_wait after the output was read: reap the child and report how it
\* ended.
Wait(c) ==
  /\ pc[c] = "wait"
  /\ child[c] = "zombie"
  /\ child'  = [child EXCEPT ![c] = "reaped"]
  /\ status' = [status EXCEPT ![c] = ExitStatus(died[c])]
  /\ Return(c, "ok")
  /\ UNCHANGED <<capture, open, got, given, holds, op, sent, pipe, died>>

\* Mutant of FailWait: the call returns without waiting for the child.
FailNoWait(c) ==
  /\ pc[c] = "fail_wait"
  /\ Return(c, "fail")
  /\ UNCHANGED <<capture, open, got, given, status, childVars>>

\* waitpid after a failed read: the status is ignored.
FailWait(c) ==
  /\ pc[c] = "fail_wait"
  /\ child[c] = "zombie"
  /\ child' = [child EXCEPT ![c] = "reaped"]
  /\ Return(c, "fail")
  /\ UNCHANGED <<capture, open, got, given, status, holds, op, sent, pipe, died>>

\* A signal caught while waitpid blocks ends it: the call fails, after a failed read or
\* not, and the child is left as it is.
Interrupted(c) ==
  /\ "wait" \in MayFail
  /\ pc[c] \in {"wait", "fail_wait"}
  /\ child[c] # "zombie"
  /\ Return(c, "eintr")
  /\ UNCHANGED <<capture, open, got, given, status, childVars>>

CallStep(c) ==
  \/ OpenPipe(c, "out", "pipe_out", "pipe_err")
  \/ OpenPipe(c, "err", "pipe_err", "fork")
  \/ Fork(c)
  \/ CloseEnd(c, "out", "w", "close_w_out", "close_w_err")
  \/ CloseEnd(c, "err", "w", "close_w_err", "read_out")
  \/ Read(c, "out", "read_out", "read_err")
  \/ Read(c, "err", "read_err", "close_r_out")
  \/ CloseEnd(c, "out", "r", "close_r_out", "close_r_err")
  \/ CloseEnd(c, "err", "r", "close_r_err", "wait")
  \/ Wait(c)
  \/ CloseEnd(c, "out", "r", "fail_r_out", "fail_r_err")
  \/ CloseEnd(c, "err", "r", "fail_r_err", "fail_wait")
  \/ FailWait(c)

CallFails(c) ==
  \/ OpenFails(c, "out", "pipe_out")
  \/ OpenFails(c, "err", "pipe_err")
  \/ ForkFails(c)
  \/ ReadFails(c, "out", "read_out")
  \/ ReadFails(c, "err", "read_err")
  \/ Interrupted(c)

-----------------------------------------------------------------------------
(* The child *)

\* The child ends: the kernel closes all it holds and keeps its wait status.
Die(c, w) ==
  /\ child' = [child EXCEPT ![c] = "zombie"]
  /\ holds' = [holds EXCEPT ![c] = {}]
  /\ op'    = [op EXCEPT ![c] = "none"]
  /\ died'  = [died EXCEPT ![c] = w]

\* Between fork and exec: the write ends of the call's own pipes become the
\* child's stdout and stderr, their read ends are closed, and the program is
\* started, or the child leaves with status 127 (chdir or exec failed).
ChildExec(c) ==
  /\ child[c] = "forked"
  /\ \/ /\ child' = [child EXCEPT ![c] = "running"]
        /\ holds' = [holds EXCEPT ![c] = @ \ {<<c, s, "r">> : s \in capture[c]}]
        /\ UNCHANGED <<op, died>>
     \/ /\ "exec" \in MayFail
        /\ Die(c, [how |-> "exited", n |-> 127])
  /\ UNCHANGED <<parentVars, sent, pipe>>

\* The program turns to writing to a captured stream, and stays with that
\* write until it is done.
ChildStartWrite(c) ==
  /\ child[c] = "running"
  /\ op[c] = "none"
  /\ \E s \in capture[c] :
       /\ sent[c][s] < MaxOut
       /\ op' = [op EXCEPT ![c] = s]
  /\ UNCHANGED <<parentVars, child, holds, sent, pipe, died>>

\* The write is done once there is room in the pipe; with no reader left it
\* raises SIGPIPE, which ends the program.
ChildWrite(c) ==
  /\ child[c] = "running"
  /\ \E s \in capture[c] :
       /\ op[c] = s
       /\ \/ /\ Held(<<c, s, "r">>)
             /\ pipe[c][s] < PipeCap
             /\ pipe' = [pipe EXCEPT ![c][s] = @ + 1]
             /\ sent' = [sent EXCEPT ![c][s] = @ + 1]
             /\ op'   = [op EXCEPT ![c] = "none"]
             /\ UNCHANGED <<child, holds, died>>
          \/ /\ ~Held(<<c, s, "r">>)
             /\ Die(c, [how |-> "signaled", n |-> SIGPIPE])
             /\ UNCHANGED <<pipe, sent>>
  /\ UNCHANGED parentVars

ChildExit(c) ==
  /\ child[c] = "running"
  /\ op[c] = "none"
  /\ \E n \in Codes : Die(c, [how |-> "exited", n |-> n])
  /\ UNCHANGED <<parentVars, sent, pipe>>

ChildStep(c) ==
  ChildExec(c) \/ ChildStartWrite(c) \/ ChildWrite(c) \/ ChildExit(c)

-----------------------------------------------------------------------------

\* Every call has returned: the host process does something else.
Finished ==
  /\ \A c \in Calls : pc[c] = "done" /\ child[c] \in {"none", "zombie", "reaped"}
  /\ UNCHANGED vars

Next ==
  \/ \E c \in Calls : CallStep(c)
  \/ \E c \in Calls : CallFails(c)
  \/ \E c \in Calls : ChildStep(c)
  \/ Finished

Spec == Init /\ [][Next]_vars

\* The scheduler runs every thread and every child that can take a step; nothing
\* ever has to fail.
Fairness == \A c \in Calls : WF_vars(CallStep(c)) /\ WF_vars(ChildStep(c))

FairSpec == Spec /\ Fairness
-----------------------------------------------------------------------------
(* Properties *)

\* The values every variable may take.
TypeOK ==
  /\ capture \in [Calls -> Captures]
  /\ pc \in [Calls -> Labels]
  /\ open \subseteq Ends
  /\ got \in [Calls -> [Streams -> Nat]]
  /\ given \in [Calls -> [Streams -> BOOLEAN]]
  /\ ret \in [Calls -> {"none", "ok", "fail", "eintr"}]
  /\ status \in [Calls -> 0 .. 255]
  /\ child \in [Calls -> {"none", "forked", "running", "zombie", "reaped"}]
  /\ holds \in [Calls -> SUBSET Ends]
  /\ op \in [Calls -> Streams \cup {"none"}]
  /\ sent \in [Calls -> [Streams -> Nat]]
  /\ pipe \in [Calls -> [Streams -> 0 .. PipeCap]]
  /\ died \in [Calls -> Died]

\* process_exec closes every pipe end it opened on each of its ways out: the
\* early failures, the failed read and the normal return.
NoEndLeaked ==
  \A c \in Calls : pc[c] = "done" => open \cap PipesOf(c) = {}

\* A call that returned 0 handed out, for each stream it captured, all that its
\* child ever wrote to it, and the status it reports is how that child ended.
\* (An early end of file, a second child's output or a child still writing
\* would break it.)
CaptureComplete ==
  \A c \in Calls : ret[c] = "ok" =>
    /\ child[c] = "reaped"
    /\ status[c] = ExitStatus(died[c])
    /\ \A s \in capture[c] : given[c][s] /\ got[c][s] = sent[c][s]

\* No call returns and leaves a child behind, on any of its paths but one: a signal has
\* interrupted waitpid, which is not called again (process_utils.c:226, :359).  Then the
\* call has failed, and the child that it leaves is never reaped.
ChildReaped ==
  \A c \in Calls : pc[c] = "done" => (child[c] \notin {"none", "reaped"} <=> ret[c] = "eintr")

\* The buffer for stdout can be handed out by a call that fails (it is stored
\* before stderr is read), but only one that is complete: no failure path hands
\* out the beginning of the output.
NoPartialOutput ==
  \A c \in Calls : \A s \in capture[c] :
    given[c][s] => got[c][s] = sent[c][s] /\ child[c] \in {"zombie", "reaped"}

\* Success is all of the output, with the child's own status, and a failure is none of a
\* part of it, whichever stream, read or allocation the failure was of.
AllOrNothing == CaptureComplete /\ NoPartialOutput

\* The child of c waits for room in the pipe for stderr while c waits for the
\* end of the stdout of that child.
StuckOnErr(c) ==
  /\ capture[c] = Streams
  /\ pc[c] = "read_out"
  /\ child[c] = "running"
  /\ op[c] = "err"
  /\ pipe[c]["err"] = PipeCap

\* Every call of process_exec returns.
EveryCallReturns == \A c \in Calls : <>(pc[c] = "done")

\* The only way for a call not to return is the wait of StuckOnErr.
ReturnsUnlessStuck == \A c \in Calls : <>(pc[c] = "done" \/ StuckOnErr(c))
=============================================================================
