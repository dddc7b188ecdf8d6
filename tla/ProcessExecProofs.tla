------------------------- MODULE ProcessExecProofs -------------------------
(***************************************************************************)
(* Theorems about ProcessExec, for any number of concurrent calls, any     *)
(* capacity of the pipes, any amount of output and any set of failures.    *)
(***************************************************************************)
EXTENDS ProcessExec, Integers, TLAPS

-----------------------------------------------------------------------------
(* Type correctness *)

LEMMA CodesAreBytes == Codes \cup {127} \subseteq 0 .. 255
BY ExecAssumption

\* Every reported status fits in a byte: an exit code, or 128 and a signal.
LEMMA ExitStatusType == \A w \in Died : ExitStatus(w) \in 0 .. 255
<1>. SUFFICES ASSUME NEW w \in Died PROVE ExitStatus(w) \in 0 .. 255
  OBVIOUS
<1>1. CASE w \in [how : {"exited"}, n : Codes \cup {127}]
  <2>1. w.how = "exited" /\ w.n \in Codes \cup {127}
    BY <1>1
  <2>2. w.n \in 0 .. 255
    BY <2>1, CodesAreBytes
  <2>. QED BY <2>1, <2>2 DEF ExitStatus
<1>2. CASE w \in [how : {"signaled"}, n : {SIGPIPE}]
  <2>1. w.how = "signaled" /\ w.n = 13
    BY <1>2 DEF SIGPIPE
  <2>. QED BY <2>1 DEF ExitStatus
<1>. QED BY <1>1, <1>2 DEF Died

LEMMA InitType == Init => TypeOK
BY ExecAssumption DEF Init, TypeOK, Labels, Died, Streams

\* A step of a calling thread keeps the types.
LEMMA CallStepType ==
  ASSUME TypeOK, NEW c \in Calls, CallStep(c) \/ CallFails(c)
  PROVE  TypeOK'
<1>. USE DEF TypeOK, Labels
<1>1. ASSUME NEW s \in Streams, NEW h \in Labels, NEW n \in Labels, OpenPipe(c, s, h, n)
      PROVE  TypeOK'
  <2>1. PipeOf(c, s) \subseteq Ends
    BY DEF PipeOf, Ends, Sides
  <2>2. open' \subseteq Ends /\ pc' \in [Calls -> Labels]
    BY <1>1, <2>1 DEF OpenPipe, Goto
  <2>. QED BY <1>1, <2>2 DEF OpenPipe, childVars
<1>2. ASSUME NEW s \in Streams, NEW h \in Labels, OpenFails(c, s, h)
      PROVE  TypeOK'
  BY <1>2 DEF OpenFails, Goto, Return, childVars
<1>3. CASE Fork(c)
  BY <1>3 DEF Fork, Goto
<1>4. CASE ForkFails(c)
  BY <1>4 DEF ForkFails, Goto, Return, childVars
<1>5. ASSUME NEW s \in Streams, NEW d \in Sides, NEW h \in Labels, NEW n \in Labels,
             CloseEnd(c, s, d, h, n)
      PROVE  TypeOK'
  BY <1>5 DEF CloseEnd, Goto, childVars
<1>6. pipe[c] \in [Streams -> 0 .. PipeCap] /\ got[c] \in [Streams -> Nat]
  OBVIOUS
<1>7. ASSUME NEW s \in Streams, NEW n \in 0 .. pipe[c][s], pipe' = [pipe EXCEPT ![c][s] = @ - n]
      PROVE  pipe' \in [Calls -> [Streams -> 0 .. PipeCap]]
  <2>1. pipe[c][s] - n \in 0 .. PipeCap
    BY <1>6, ExecAssumption
  <2>. QED BY <1>7, <2>1
<1>8. ASSUME NEW s \in Streams, NEW h \in Labels, NEW n \in Labels, Read(c, s, h, n)
      PROVE  TypeOK'
  <2>1. /\ UNCHANGED <<capture, open, ret, status, child, holds, op, sent, died>>
        /\ pc' \in [Calls -> Labels]
    BY <1>8 DEF Read, Goto, Take, Give
  <2>2. CASE UNCHANGED <<got, given, pipe>>
    BY <2>1, <2>2
  <2>3. CASE Take(c, s)
    <3>1. PICK k \in 1 .. pipe[c][s] : /\ got'  = [got EXCEPT ![c][s] = @ + k]
                                       /\ pipe' = [pipe EXCEPT ![c][s] = @ - k]
      BY <2>3 DEF Take
    <3>2. k \in 0 .. pipe[c][s] /\ got[c][s] + k \in Nat
      BY <1>6, ExecAssumption
    <3>3. pipe' \in [Calls -> [Streams -> 0 .. PipeCap]]
      BY <1>7, <3>1, <3>2
    <3>4. got' \in [Calls -> [Streams -> Nat]]
      BY <3>1, <3>2
    <3>. QED BY <2>1, <2>3, <3>3, <3>4 DEF Take
  <2>4. CASE Give(c, s, n)
    <3>1. [given[c] EXCEPT ![s] = TRUE] \in [Streams -> BOOLEAN]
      BY Zenon
    <3>2. [given EXCEPT ![c] = [given[c] EXCEPT ![s] = TRUE]] \in [Calls -> [Streams -> BOOLEAN]]
      BY <3>1
    <3>. QED BY <2>1, <2>4, <3>2 DEF Give
  <2>. QED BY <1>8, <2>2, <2>3, <2>4 DEF Read
<1>9. ASSUME NEW s \in Streams, NEW h \in Labels, ReadFails(c, s, h)
      PROVE  TypeOK'
  <2>1. pipe' \in [Calls -> [Streams -> 0 .. PipeCap]]
    BY <1>7, <1>9 DEF ReadFails
  <2>2. got' \in [Calls -> [Streams -> Nat]]
    BY <1>9 DEF ReadFails
  <2>. QED BY <1>9, <2>1, <2>2 DEF ReadFails, Goto
<1>10. CASE Wait(c)
  <2>1. ExitStatus(died[c]) \in 0 .. 255
    BY ExitStatusType
  <2>2. status' \in [Calls -> 0 .. 255]
    BY <1>10, <2>1 DEF Wait
  <2>3. /\ child' \in [Calls -> {"none", "forked", "running", "zombie", "reaped"}]
        /\ pc' \in [Calls -> Labels]
        /\ ret' \in [Calls -> {"none", "ok", "fail", "eintr"}]
    BY <1>10 DEF Wait, Goto, Return
  <2>. QED BY <1>10, <2>2, <2>3 DEF Wait
<1>11. CASE FailWait(c)
  BY <1>11 DEF FailWait, Goto, Return
<1>12. CASE Interrupted(c)
  BY <1>12 DEF Interrupted, Goto, Return, childVars
<1>13. CASE CallStep(c)
  BY <1>1, <1>3, <1>5, <1>8, <1>10, <1>11, <1>13 DEF CallStep, Streams, Sides
<1>14. CASE CallFails(c)
  BY <1>2, <1>4, <1>9, <1>12, <1>14 DEF CallFails, Streams
<1>. QED BY <1>13, <1>14

\* A step of a child keeps the types.
LEMMA ChildStepType ==
  ASSUME TypeOK, NEW c \in Calls, ChildStep(c)
  PROVE  TypeOK'
<1>. USE DEF TypeOK, parentVars
<1>1. ASSUME NEW w \in Died, Die(c, w)
      PROVE  /\ child' \in [Calls -> {"none", "forked", "running", "zombie", "reaped"}]
             /\ holds' \in [Calls -> SUBSET Ends]
             /\ op' \in [Calls -> Streams \cup {"none"}]
             /\ died' \in [Calls -> Died]
  BY <1>1 DEF Die
<1>2. CASE ChildExec(c)
  <2>1. [how |-> "exited", n |-> 127] \in Died
    BY DEF Died
  <2>2. CASE Die(c, [how |-> "exited", n |-> 127])
    BY <1>1, <1>2, <2>1, <2>2 DEF ChildExec
  <2>3. CASE ~Die(c, [how |-> "exited", n |-> 127])
    <3>1. child' = [child EXCEPT ![c] = "running"] /\ UNCHANGED <<op, died>>
      BY <1>2, <2>3 DEF ChildExec
    <3>2. holds' \in [Calls -> SUBSET Ends]
      <4>1. PICK X : holds' = [holds EXCEPT ![c] = @ \ X]
        BY <1>2, <2>3 DEF ChildExec
      <4>2. holds[c] \ X \in SUBSET Ends
        OBVIOUS
      <4>. QED BY <4>1, <4>2
    <3>. QED BY <1>2, <3>1, <3>2 DEF ChildExec
  <2>. QED BY <2>2, <2>3
<1>3. CASE ChildStartWrite(c)
  BY <1>3, ExecAssumption DEF ChildStartWrite
<1>4. CASE ChildWrite(c)
  <2>1. PICK s \in capture[c] :
       /\ op[c] = s
       /\ \/ /\ Held(<<c, s, "r">>)
             /\ pipe[c][s] < PipeCap
             /\ pipe' = [pipe EXCEPT ![c][s] = @ + 1]
             /\ sent' = [sent EXCEPT ![c][s] = @ + 1]
             /\ op'   = [op EXCEPT ![c] = "none"]
             /\ UNCHANGED <<child, holds, died>>
          \/ /\ ~Held(<<c, s, "r">>)
             /\ Die(c, [how |-> "signaled", n |-> SIGPIPE])
             /\ UNCHANGED <<pipe, sent>>
    BY <1>4 DEF ChildWrite
  <2>2. s \in Streams
    BY ExecAssumption
  <2>3. [how |-> "signaled", n |-> SIGPIPE] \in Died
    BY DEF Died
  <2>4. CASE Held(<<c, s, "r">>)
    <3>1. pipe' \in [Calls -> [Streams -> 0 .. PipeCap]]
      <4>1. pipe[c][s] \in 0 .. PipeCap
        BY <2>2
      <4>2. pipe[c][s] + 1 \in 0 .. PipeCap
        BY <2>1, <2>4, <4>1, ExecAssumption
      <4>3. pipe' = [pipe EXCEPT ![c][s] = @ + 1]
        BY <2>1, <2>4
      <4>. QED BY <2>2, <4>2, <4>3
    <3>2. sent' \in [Calls -> [Streams -> Nat]]
      <4>1. sent[c][s] + 1 \in Nat
        BY <2>2
      <4>2. sent' = [sent EXCEPT ![c][s] = @ + 1]
        BY <2>1, <2>4
      <4>. QED BY <2>2, <4>1, <4>2
    <3>. QED BY <1>4, <2>1, <2>4, <3>1, <3>2 DEF ChildWrite
  <2>5. CASE ~Held(<<c, s, "r">>)
    BY <1>1, <1>4, <2>1, <2>3, <2>5 DEF ChildWrite
  <2>. QED BY <2>4, <2>5
<1>5. CASE ChildExit(c)
  <2>1. \A n \in Codes : [how |-> "exited", n |-> n] \in Died
    BY DEF Died
  <2>. QED BY <1>1, <1>5, <2>1 DEF ChildExit
<1>. QED BY <1>2, <1>3, <1>4, <1>5 DEF ChildStep

\* process_exec: every variable keeps its type; above all, no pipe holds more
\* than its capacity, no counter of units turns negative, and the reported
\* status is a byte.
THEOREM TypeCorrect == Spec => []TypeOK
<1>1. ASSUME TypeOK, [Next]_vars PROVE TypeOK'
  <2>1. CASE \E c \in Calls : CallStep(c) \/ CallFails(c)
    BY <1>1, <2>1, CallStepType
  <2>2. CASE \E c \in Calls : ChildStep(c)
    BY <1>1, <2>2, ChildStepType
  <2>3. CASE UNCHANGED vars
    BY <1>1, <2>3 DEF vars, TypeOK
  <2>. QED BY <1>1, <2>1, <2>2, <2>3 DEF Next, Finished
<1>. QED BY InitType, <1>1, PTL DEF Spec
-----------------------------------------------------------------------------
(* Where the ends of a call's pipes are closed *)

\* The labels a call reaches only after it closed the given end itself.
AfterClose(s, side) ==
  IF side = "w"
  THEN {"read_out", "read_err", "close_r_out", "close_r_err", "wait",
        "fail_r_out", "fail_r_err", "fail_wait", "done"}
       \cup (IF s = "out" THEN {"close_w_err"} ELSE {})
  ELSE {"wait", "fail_wait", "done"}
       \cup (IF s = "out" THEN {"close_r_err", "fail_r_err"} ELSE {})

EndsClosed(c) ==
  \A s \in Streams, side \in Sides :
    pc[c] \in AfterClose(s, side) => <<c, s, side>> \notin open

-----------------------------------------------------------------------------
(* Why an end of file means that the output is complete *)

BeforeFork == {"pipe_out", "pipe_err", "fork"}

\* The labels up to the read of stream s, and those a call reaches only when
\* that read has seen the end of file.
UpToRead(s)  == BeforeFork \cup {"close_w_out", "close_w_err", "read_out"}
                  \cup (IF s = "err" THEN {"read_err"} ELSE {})
AfterRead(s) == {"close_r_out", "close_r_err", "wait"}
                  \cup (IF s = "out" THEN {"read_err"} ELSE {})

\* A child exists once fork has returned; a call that returned 0 reaped it.
ChildExists(c) ==
  /\ pc[c] \in BeforeFork => child[c] = "none"
  /\ pc[c] \notin BeforeFork \cup {"done"} => child[c] # "none"
  /\ ret[c] = "ok" => /\ pc[c] = "done"
                      /\ child[c] = "reaped"
                      /\ status[c] = ExitStatus(died[c])

\* As long as it lives, the child holds the write ends of the captured streams:
\* it inherits those that are open at the fork and nobody takes them away.
ChildCanWrite(c) ==
  \A s \in capture[c] :
    /\ pc[c] = "fork" \/ (pc[c] = "pipe_err" /\ s = "out") => <<c, s, "w">> \in open
    /\ child[c] \in {"forked", "running"} => <<c, s, "w">> \in holds[c]

\* No unit is lost or made up between the child and the buffer of the call, and
\* a buffer is handed out only when the child can write no more.
OutputKept(c) ==
  \A s \in capture[c] :
    /\ pc[c] \in UpToRead(s) => ~given[c][s] /\ sent[c][s] = got[c][s] + pipe[c][s]
    /\ given[c][s] => got[c][s] = sent[c][s] /\ child[c] \in {"zombie", "reaped"}
    /\ pc[c] \in AfterRead(s) \/ ret[c] = "ok" => given[c][s]

OutputInv == \A c \in Calls : ChildExists(c) /\ ChildCanWrite(c) /\ OutputKept(c)

-----------------------------------------------------------------------------
(* A step of call c, or of its child, leaves every other call alone *)

\* The ends of the pipes of d that are open stay as they are.
SameEnds(d) ==
  \A s \in Streams, side \in Sides : <<d, s, side>> \in open' <=> <<d, s, side>> \in open

LEMMA CallFrame ==
  ASSUME TypeOK, NEW c \in Calls, NEW d \in Calls, d # c, CallStep(c) \/ CallFails(c)
  PROVE  /\ pc'[d] = pc[d] /\ ret'[d] = ret[d] /\ status'[d] = status[d]
         /\ got'[d] = got[d] /\ given'[d] = given[d] /\ pipe'[d] = pipe[d]
         /\ child'[d] = child[d] /\ holds'[d] = holds[d]
         /\ UNCHANGED <<capture, sent, died>>
         /\ SameEnds(d)
<1>. USE DEF TypeOK
<1>. DEFINE Same == /\ pc'[d] = pc[d] /\ ret'[d] = ret[d] /\ status'[d] = status[d]
                    /\ got'[d] = got[d] /\ given'[d] = given[d] /\ pipe'[d] = pipe[d]
                    /\ child'[d] = child[d] /\ holds'[d] = holds[d]
                    /\ UNCHANGED <<capture, sent, died>>
                    /\ SameEnds(d)
<1>0. ASSUME NEW s \in Streams
      PROVE  \A s1 \in Streams, side \in Sides : <<d, s1, side>> \notin PipeOf(c, s) \cup PipesOf(c)
  BY DEF PipeOf, PipesOf
<1>1. ASSUME NEW s \in Streams, NEW h, NEW n, OpenPipe(c, s, h, n) PROVE Same
  <2>1. SameEnds(d)
    BY <1>0, <1>1 DEF OpenPipe, SameEnds
  <2>. QED BY <1>1, <2>1 DEF OpenPipe, Goto, childVars
<1>2. ASSUME NEW s \in Streams, NEW h, OpenFails(c, s, h) PROVE Same
  <2>1. SameEnds(d)
    BY <1>0, <1>2 DEF OpenFails, SameEnds
  <2>. QED BY <1>2, <2>1 DEF OpenFails, Goto, Return, childVars
<1>3. CASE Fork(c)
  <2>1. SameEnds(d)
    BY <1>3 DEF Fork, SameEnds
  <2>. QED BY <1>3, <2>1 DEF Fork, Goto
<1>4. CASE ForkFails(c)
  <2>1. SameEnds(d)
    BY <1>0, <1>4 DEF ForkFails, SameEnds, Streams
  <2>. QED BY <1>4, <2>1 DEF ForkFails, Goto, Return, childVars
<1>5. ASSUME NEW s \in Streams, NEW e \in Sides, NEW h, NEW n, CloseEnd(c, s, e, h, n) PROVE Same
  <2>1. SameEnds(d)
    BY <1>5 DEF CloseEnd, SameEnds
  <2>. QED BY <1>5, <2>1 DEF CloseEnd, Goto, childVars
<1>6. ASSUME NEW s \in Streams, NEW h, NEW n, Read(c, s, h, n) PROVE Same
  <2>1. SameEnds(d)
    BY <1>6 DEF Read, SameEnds
  <2>. QED BY <1>6, <2>1 DEF Read, Take, Give, Goto
<1>7. ASSUME NEW s \in Streams, NEW h, ReadFails(c, s, h) PROVE Same
  <2>1. SameEnds(d)
    BY <1>7 DEF ReadFails, SameEnds
  <2>. QED BY <1>7, <2>1 DEF ReadFails, Goto
<1>8. CASE Wait(c) \/ FailWait(c)
  <2>1. SameEnds(d)
    BY <1>8 DEF Wait, FailWait, SameEnds
  <2>. QED BY <1>8, <2>1 DEF Wait, FailWait, Goto, Return
<1>9. CASE Interrupted(c)
  <2>1. SameEnds(d)
    BY <1>9 DEF Interrupted, SameEnds
  <2>. QED BY <1>9, <2>1 DEF Interrupted, Goto, Return, childVars
<1>10. CASE CallStep(c)
  BY <1>1, <1>3, <1>5, <1>6, <1>8, <1>10 DEF CallStep, Streams, Sides
<1>11. CASE CallFails(c)
  BY <1>2, <1>4, <1>7, <1>9, <1>11 DEF CallFails, Streams
<1>. QED BY <1>10, <1>11

LEMMA ChildFrame ==
  ASSUME TypeOK, NEW c \in Calls, ChildStep(c)
  PROVE  /\ UNCHANGED parentVars
         /\ \A d \in Calls : d # c => /\ child'[d] = child[d] /\ holds'[d] = holds[d]
                                      /\ sent'[d] = sent[d] /\ pipe'[d] = pipe[d]
                                      /\ died'[d] = died[d]
<1>. USE DEF TypeOK
<1>1. ASSUME NEW w, Die(c, w)
      PROVE  \A d \in Calls : d # c => /\ child'[d] = child[d] /\ holds'[d] = holds[d]
                                      /\ died'[d] = died[d]
  BY <1>1 DEF Die
<1>2. CASE ChildExec(c)
  BY <1>1, <1>2 DEF ChildExec
<1>3. CASE ChildStartWrite(c)
  BY <1>3 DEF ChildStartWrite
<1>4. CASE ChildWrite(c)
  BY <1>1, <1>4 DEF ChildWrite
<1>5. CASE ChildExit(c)
  BY <1>1, <1>5 DEF ChildExit
<1>. QED BY <1>2, <1>3, <1>4, <1>5 DEF ChildStep

-----------------------------------------------------------------------------
(* No pipe end leaks *)

LEMMA CallStepEnds ==
  ASSUME TypeOK, NEW c \in Calls, CallStep(c) \/ CallFails(c), EndsClosed(c)
  PROVE  EndsClosed(c)'
<1>. USE DEF TypeOK, EndsClosed, AfterClose
<1>0. \A s1 \in Streams, side \in Sides : <<c, s1, side>> \in PipesOf(c)
  BY DEF PipesOf, PipeOf, Streams, Sides
<1>1. ASSUME NEW s \in Streams, NEW h, NEW n \in {"pipe_err", "fork"}, OpenPipe(c, s, h, n)
      PROVE  EndsClosed(c)'
  <2>1. pc'[c] = n
    BY <1>1 DEF OpenPipe, Goto
  <2>. QED BY <2>1
<1>2. CASE Fork(c)
  <2>1. pc'[c] = "close_w_out"
    BY <1>2 DEF Fork, Goto
  <2>. QED BY <2>1
<1>15. ASSUME open' = open \ PipesOf(c) PROVE EndsClosed(c)'
  BY <1>0, <1>15
<1>3. ASSUME NEW s \in Streams, NEW e \in Sides, NEW h, NEW n, CloseEnd(c, s, e, h, n),
             \A s1 \in Streams, e1 \in Sides :
               n \in AfterClose(s1, e1) => h \in AfterClose(s1, e1) \/ (s1 = s /\ e1 = e)
      PROVE  EndsClosed(c)'
  <2>1. pc[c] = h /\ pc'[c] = n /\ open' = open \ {<<c, s, e>>}
    BY <1>3 DEF CloseEnd, Goto
  <2>. QED BY <1>3, <2>1
<1>4. ASSUME NEW s \in Streams, NEW h, NEW n, Read(c, s, h, n) \/ ReadFails(c, s, h),
             \A s1 \in Streams, e1 \in Sides :
               n \in AfterClose(s1, e1) \/ "fail_r_out" \in AfterClose(s1, e1)
                 => h \in AfterClose(s1, e1)
      PROVE  EndsClosed(c)'
  <2>1. pc[c] = h /\ pc'[c] \in {h, n, "fail_r_out"} /\ open' = open
    BY <1>4 DEF Read, Take, Give, ReadFails, Goto
  <2>. QED BY <1>4, <2>1
<1>16. CASE Interrupted(c)
  <2>1. pc[c] \in {"wait", "fail_wait"} /\ open' = open
    BY <1>16 DEF Interrupted
  <2>. QED BY <2>1
<1>. HIDE DEF EndsClosed, AfterClose
<1>5. CASE Wait(c)
  BY <1>5 DEF Wait, Goto, Return, EndsClosed, AfterClose
<1>6. CASE FailWait(c)
  BY <1>6 DEF FailWait, Goto, Return, EndsClosed, AfterClose
<1>7. CASE CloseEnd(c, "out", "w", "close_w_out", "close_w_err")
  <2>1. \A s1 \in Streams, e1 \in Sides :
          "close_w_err" \in AfterClose(s1, e1)
            => "close_w_out" \in AfterClose(s1, e1) \/ (s1 = "out" /\ e1 = "w")
    BY DEF AfterClose, Streams, Sides
  <2>2. "out" \in Streams /\ "w" \in Sides
    BY DEF Streams, Sides
  <2>. QED BY <1>3, <1>7, <2>1, <2>2
<1>8. CASE CloseEnd(c, "err", "w", "close_w_err", "read_out")
  <2>1. \A s1 \in Streams, e1 \in Sides :
          "read_out" \in AfterClose(s1, e1)
            => "close_w_err" \in AfterClose(s1, e1) \/ (s1 = "err" /\ e1 = "w")
    BY DEF AfterClose, Streams, Sides
  <2>2. "err" \in Streams /\ "w" \in Sides
    BY DEF Streams, Sides
  <2>. QED BY <1>3, <1>8, <2>1, <2>2
<1>9. CASE Read(c, "out", "read_out", "read_err") \/ ReadFails(c, "out", "read_out")
  <2>1. \A s1 \in Streams, e1 \in Sides :
          "read_err" \in AfterClose(s1, e1) \/ "fail_r_out" \in AfterClose(s1, e1)
            => "read_out" \in AfterClose(s1, e1)
    BY DEF AfterClose, Streams, Sides
  <2>2. "out" \in Streams
    BY DEF Streams
  <2>. QED BY <1>4, <1>9, <2>1, <2>2
<1>10. CASE Read(c, "err", "read_err", "close_r_out") \/ ReadFails(c, "err", "read_err")
  <2>1. \A s1 \in Streams, e1 \in Sides :
          "close_r_out" \in AfterClose(s1, e1) \/ "fail_r_out" \in AfterClose(s1, e1)
            => "read_err" \in AfterClose(s1, e1)
    BY DEF AfterClose, Streams, Sides
  <2>2. "err" \in Streams
    BY DEF Streams
  <2>. QED BY <1>4, <1>10, <2>1, <2>2
<1>11. CASE CloseEnd(c, "out", "r", "close_r_out", "close_r_err")
  <2>1. \A s1 \in Streams, e1 \in Sides :
          "close_r_err" \in AfterClose(s1, e1)
            => "close_r_out" \in AfterClose(s1, e1) \/ (s1 = "out" /\ e1 = "r")
    BY DEF AfterClose, Streams, Sides
  <2>2. "out" \in Streams /\ "r" \in Sides
    BY DEF Streams, Sides
  <2>. QED BY <1>3, <1>11, <2>1, <2>2
<1>12. CASE CloseEnd(c, "err", "r", "close_r_err", "wait")
  <2>1. \A s1 \in Streams, e1 \in Sides :
          "wait" \in AfterClose(s1, e1)
            => "close_r_err" \in AfterClose(s1, e1) \/ (s1 = "err" /\ e1 = "r")
    BY DEF AfterClose, Streams, Sides
  <2>2. "err" \in Streams /\ "r" \in Sides
    BY DEF Streams, Sides
  <2>. QED BY <1>3, <1>12, <2>1, <2>2
<1>13. CASE CloseEnd(c, "out", "r", "fail_r_out", "fail_r_err")
  <2>1. \A s1 \in Streams, e1 \in Sides :
          "fail_r_err" \in AfterClose(s1, e1)
            => "fail_r_out" \in AfterClose(s1, e1) \/ (s1 = "out" /\ e1 = "r")
    BY DEF AfterClose, Streams, Sides
  <2>2. "out" \in Streams /\ "r" \in Sides
    BY DEF Streams, Sides
  <2>. QED BY <1>3, <1>13, <2>1, <2>2
<1>14. CASE CloseEnd(c, "err", "r", "fail_r_err", "fail_wait")
  <2>1. \A s1 \in Streams, e1 \in Sides :
          "fail_wait" \in AfterClose(s1, e1)
            => "fail_r_err" \in AfterClose(s1, e1) \/ (s1 = "err" /\ e1 = "r")
    BY DEF AfterClose, Streams, Sides
  <2>2. "err" \in Streams /\ "r" \in Sides
    BY DEF Streams, Sides
  <2>. QED BY <1>3, <1>14, <2>1, <2>2
<1>17. CASE CallStep(c)
  BY <1>1, <1>2, <1>5, <1>6, <1>7, <1>8, <1>9, <1>10, <1>11, <1>12, <1>13, <1>14, <1>17
     DEF CallStep, Streams
<1>18. CASE CallFails(c)
  BY <1>9, <1>10, <1>15, <1>16, <1>18 DEF CallFails, OpenFails, ForkFails
<1>. QED BY <1>17, <1>18

\* process_exec closes every pipe end it made on each of its ways out, whatever
\* other calls do meanwhile to the table of descriptors they share.
THEOREM NoLeak == Spec => []NoEndLeaked
<1>. DEFINE Inv == TypeOK /\ \A c \in Calls : EndsClosed(c)
<1>1. Init => Inv
  BY InitType DEF Init, EndsClosed
<1>2. Inv /\ [Next]_vars => Inv'
  <2>. SUFFICES ASSUME Inv, [Next]_vars PROVE (\A d \in Calls : EndsClosed(d))' /\ TypeOK'
    OBVIOUS
  <2>1. ASSUME NEW c \in Calls, CallStep(c) \/ CallFails(c) PROVE (\A d \in Calls : EndsClosed(d))' /\ TypeOK'
    <3>1. ASSUME NEW d \in Calls, d # c PROVE EndsClosed(d)'
      BY <2>1, <3>1, CallFrame DEF EndsClosed, SameEnds
    <3>2. EndsClosed(c)'
      BY <2>1, CallStepEnds
    <3>. QED BY <2>1, <3>1, <3>2, CallStepType
  <2>2. ASSUME NEW c \in Calls, ChildStep(c) PROVE (\A d \in Calls : EndsClosed(d))' /\ TypeOK'
    BY <2>2, ChildFrame, ChildStepType DEF EndsClosed, parentVars
  <2>3. CASE UNCHANGED vars
    BY <2>3 DEF vars, EndsClosed, TypeOK
  <2>. QED BY <2>1, <2>2, <2>3 DEF Next, Finished
<1>3. Inv => NoEndLeaked
  BY DEF EndsClosed, AfterClose, NoEndLeaked, PipesOf, PipeOf, Streams, Sides
<1>. QED BY <1>1, <1>2, <1>3, PTL DEF Spec

-----------------------------------------------------------------------------
(* The output is complete *)

LEMMA CallStepOutput ==
  ASSUME TypeOK, NEW c \in Calls, CallStep(c) \/ CallFails(c),
         ChildExists(c), ChildCanWrite(c), OutputKept(c)
  PROVE  ChildExists(c)' /\ ChildCanWrite(c)' /\ OutputKept(c)'
<1>. USE DEF TypeOK
<1>. capture[c] \subseteq Streams
  BY ExecAssumption
<1>1. ASSUME NEW s \in Streams,
             OpenPipe(c, s, IF s = "out" THEN "pipe_out" ELSE "pipe_err",
                            IF s = "out" THEN "pipe_err" ELSE "fork")
      PROVE  ChildExists(c)' /\ ChildCanWrite(c)' /\ OutputKept(c)'
  <2>1. UNCHANGED <<capture, got, given, ret, status, childVars>>
    BY <1>1 DEF OpenPipe
  <2>2. pc[c] = (IF s = "out" THEN "pipe_out" ELSE "pipe_err")
        /\ pc'[c] = (IF s = "out" THEN "pipe_err" ELSE "fork")
    BY <1>1 DEF OpenPipe, Goto
  <2>3. open \subseteq open' /\ (s \in capture[c] => <<c, s, "w">> \in open')
    BY <1>1 DEF OpenPipe, PipeOf
  <2>4. pc[c] \in BeforeFork /\ pc'[c] \in BeforeFork /\ s \in {"out", "err"}
    BY <2>2 DEF BeforeFork, Streams
  <2>5. ChildExists(c)'
    BY <2>1, <2>4 DEF ChildExists, childVars, BeforeFork
  <2>6. ChildCanWrite(c)'
    <3>1. ASSUME NEW s1 \in capture[c], pc'[c] = "fork" \/ (pc'[c] = "pipe_err" /\ s1 = "out")
          PROVE  <<c, s1, "w">> \in open'
      <4>1. s1 \in {"out", "err"}
        BY DEF Streams
      <4>. QED BY <2>2, <2>3, <2>4, <3>1, <4>1 DEF ChildCanWrite
    <3>. QED BY <2>1, <3>1 DEF ChildCanWrite, childVars
  <2>7. OutputKept(c)'
    BY <2>1, <2>4 DEF OutputKept, childVars, BeforeFork, UpToRead, AfterRead
  <2>. QED BY <2>5, <2>6, <2>7
<1>14. ASSUME pc[c] \in BeforeFork, pc'[c] = "done", ret'[c] = "fail",
              UNCHANGED <<capture, got, given, status, childVars>>
       PROVE  ChildExists(c)' /\ ChildCanWrite(c)' /\ OutputKept(c)'
  BY <1>14 DEF ChildExists, ChildCanWrite, OutputKept, BeforeFork, UpToRead, AfterRead, childVars
<1>2. CASE Fork(c)
  <2>1. UNCHANGED <<capture, got, given, status, sent, pipe, ret>> /\ pc[c] = "fork"
        /\ child'[c] = "forked" /\ holds'[c] = open /\ pc'[c] = "close_w_out"
    BY <1>2 DEF Fork, Goto
  <2>. QED BY <2>1 DEF ChildExists, ChildCanWrite, OutputKept, BeforeFork, UpToRead, AfterRead
<1>3. ASSUME NEW s, NEW e, NEW h, NEW n, CloseEnd(c, s, e, h, n),
             h \notin BeforeFork \cup {"done"}, n \notin BeforeFork \cup {"done"},
             \A s1 \in Streams : /\ n \in UpToRead(s1) => h \in UpToRead(s1)
                                 /\ n \in AfterRead(s1) => h \in AfterRead(s1)
      PROVE  ChildExists(c)' /\ ChildCanWrite(c)' /\ OutputKept(c)'
  <2>1. UNCHANGED <<capture, got, given, ret, status, childVars>> /\ pc[c] = h /\ pc'[c] = n
    BY <1>3 DEF CloseEnd, Goto
  <2>2. ChildExists(c)'
    BY <1>3, <2>1 DEF ChildExists, childVars
  <2>3. ChildCanWrite(c)'
    BY <1>3, <2>1 DEF ChildCanWrite, childVars, BeforeFork
  <2>4. OutputKept(c)'
    <3>1. ASSUME NEW s1 \in capture[c]
          PROVE  /\ pc'[c] \in UpToRead(s1) => pc[c] \in UpToRead(s1)
                 /\ pc'[c] \in AfterRead(s1) => pc[c] \in AfterRead(s1)
      <4>1. s1 \in Streams
        OBVIOUS
      <4>2. pc[c] = h /\ pc'[c] = n
        BY <2>1
      <4>. QED BY <1>3, <4>1, <4>2
    <3>. QED BY <2>1, <3>1 DEF OutputKept, childVars
  <2>. QED BY <2>2, <2>3, <2>4
<1>4. ASSUME NEW s \in Streams,
             \/ Read(c, s, IF s = "out" THEN "read_out" ELSE "read_err",
                           IF s = "out" THEN "read_err" ELSE "close_r_out")
             \/ ReadFails(c, s, IF s = "out" THEN "read_out" ELSE "read_err")
      PROVE  ChildExists(c)' /\ ChildCanWrite(c)' /\ OutputKept(c)'
  <2>. DEFINE h == IF s = "out" THEN "read_out" ELSE "read_err"
              n == IF s = "out" THEN "read_err" ELSE "close_r_out"
  <2>1. /\ UNCHANGED <<capture, open, ret, status, child, holds, sent, died>>
        /\ pc[c] = h /\ pc'[c] \in {h, n, "fail_r_out"}
    BY <1>4 DEF Read, Take, Give, ReadFails, Goto
  <2>2. ChildExists(c)'
    BY <2>1 DEF ChildExists, BeforeFork
  <2>3. ChildCanWrite(c)'
    BY <2>1 DEF ChildCanWrite, BeforeFork
  <2>4. ASSUME NEW s1 \in capture[c], s1 # s
        PROVE  got'[c][s1] = got[c][s1] /\ given'[c][s1] = given[c][s1] /\ pipe'[c][s1] = pipe[c][s1]
    BY <1>4, <2>4 DEF Read, Take, Give, ReadFails
  <2>5. ret[c] # "ok"
    BY <2>1 DEF ChildExists
  <2>6. ASSUME NEW s1 \in capture[c], s1 # s
        PROVE  /\ pc'[c] \in UpToRead(s1) => ~given'[c][s1] /\ sent'[c][s1] = got'[c][s1] + pipe'[c][s1]
               /\ given'[c][s1] => got'[c][s1] = sent'[c][s1] /\ child'[c] \in {"zombie", "reaped"}
               /\ pc'[c] \in AfterRead(s1) \/ ret'[c] = "ok" => given'[c][s1]
    <3>1. s1 \in Streams
      OBVIOUS
    <3>2. (pc'[c] \in UpToRead(s1) => pc[c] \in UpToRead(s1)) /\ (pc'[c] \in AfterRead(s1) => pc[c] \in AfterRead(s1))
      BY <2>1, <2>6, <3>1 DEF UpToRead, AfterRead, BeforeFork, Streams
    <3>. QED BY <2>1, <2>4, <2>5, <2>6, <3>2 DEF OutputKept
  <2>7. ASSUME s \in capture[c]
        PROVE  /\ pc'[c] \in UpToRead(s) => ~given'[c][s] /\ sent'[c][s] = got'[c][s] + pipe'[c][s]
               /\ given'[c][s] => got'[c][s] = sent'[c][s] /\ child'[c] \in {"zombie", "reaped"}
               /\ pc'[c] \in AfterRead(s) \/ ret'[c] = "ok" => given'[c][s]
    <3>1. ~given[c][s] /\ sent[c][s] = got[c][s] + pipe[c][s]
      <4>1. h \in UpToRead(s)
        BY DEF UpToRead, Streams
      <4>. QED BY <2>1, <2>7, <4>1 DEF OutputKept
    <3>2. got[c][s] \in Nat /\ pipe[c][s] \in 0 .. PipeCap /\ sent[c][s] \in Nat /\ PipeCap \in Nat
      BY ExecAssumption
    <3>3. h \notin AfterRead(s) /\ n \notin UpToRead(s) /\ "fail_r_out" \notin UpToRead(s) \cup AfterRead(s)
      BY DEF UpToRead, AfterRead, BeforeFork, Streams
    <3>4. CASE \E k \in 1 .. pipe[c][s] :
                 /\ got'  = [got EXCEPT ![c][s] = @ + k]
                 /\ pipe' = [pipe EXCEPT ![c][s] = @ - k]
                 /\ UNCHANGED <<pc, given>>
      <4>1. PICK k \in 1 .. pipe[c][s] :
                 /\ got'  = [got EXCEPT ![c][s] = @ + k]
                 /\ pipe' = [pipe EXCEPT ![c][s] = @ - k]
                 /\ UNCHANGED <<pc, given>>
        BY <3>4
      <4>2. got'[c][s] = got[c][s] + k /\ pipe'[c][s] = pipe[c][s] - k
        BY <4>1
      <4>3. got'[c][s] + pipe'[c][s] = got[c][s] + pipe[c][s]
        BY <3>2, <4>2
      <4>. QED BY <2>1, <2>5, <3>1, <3>3, <4>1, <4>3
    <3>5. CASE pipe[c][s] = 0 /\ ~Held(<<c, s, "w">>) /\ given' = [given EXCEPT ![c][s] = TRUE]
               /\ pc'[c] = n /\ UNCHANGED <<got, pipe>>
      <4>1. given'[c][s] /\ got'[c][s] = sent'[c][s]
        BY <2>1, <3>1, <3>2, <3>5
      <4>2. child[c] \notin {"forked", "running"}
        BY <2>7, <3>5 DEF ChildCanWrite, Held
      <4>3. child[c] # "none"
        BY <2>1 DEF ChildExists, BeforeFork
      <4>. QED BY <2>1, <3>3, <3>5, <4>1, <4>2, <4>3
    <3>6. CASE pc'[c] = "fail_r_out" /\ UNCHANGED given
      BY <2>1, <2>5, <3>1, <3>3, <3>6
    <3>. QED BY <1>4, <2>7, <3>4, <3>5, <3>6 DEF Read, Take, Give, ReadFails, Goto
  <2>8. OutputKept(c)'
    <3>1. capture'[c] = capture[c]
      BY <2>1
    <3>. QED BY <2>6, <2>7, <3>1 DEF OutputKept
  <2>. QED BY <2>2, <2>3, <2>8
<1>5. CASE Wait(c)
  <2>1. UNCHANGED <<capture, open, got, given, holds, op, sent, pipe, died>>
        /\ pc[c] = "wait" /\ pc'[c] = "done"
    BY <1>5 DEF Wait, Goto, Return
  <2>2. \A s \in capture[c] : given[c][s] /\ got[c][s] = sent[c][s] /\ child[c] \in {"zombie", "reaped"}
    BY <2>1 DEF OutputKept, AfterRead
  <2>3. child[c] = "zombie" /\ child'[c] = "reaped" /\ ret'[c] = "ok" /\ status'[c] = ExitStatus(died[c])
    BY <1>5 DEF Wait, Goto, Return
  <2>. QED BY <2>1, <2>2, <2>3 DEF ChildExists, ChildCanWrite, OutputKept, BeforeFork, UpToRead, AfterRead
<1>6. CASE FailWait(c) \/ Interrupted(c)
  <2>1. UNCHANGED <<capture, open, got, given, status, holds, op, sent, pipe, died>>
        /\ pc'[c] = "done" /\ ret'[c] # "ok"
    BY <1>6 DEF FailWait, Interrupted, Goto, Return, childVars
  <2>2. child'[c] = child[c] \/ (child[c] = "zombie" /\ child'[c] = "reaped")
    BY <1>6 DEF FailWait, Interrupted, childVars
  <2>. QED BY <2>1, <2>2 DEF ChildExists, ChildCanWrite, OutputKept, BeforeFork, UpToRead, AfterRead
<1>7. CASE CloseEnd(c, "out", "w", "close_w_out", "close_w_err")
  <2>1. /\ "close_w_out" \notin BeforeFork \cup {"done"} /\ "close_w_err" \notin BeforeFork \cup {"done"}
        /\ \A s1 \in Streams : /\ "close_w_err" \in UpToRead(s1) => "close_w_out" \in UpToRead(s1)
                               /\ "close_w_err" \in AfterRead(s1) => "close_w_out" \in AfterRead(s1)
    BY DEF BeforeFork, UpToRead, AfterRead, Streams
  <2>. QED BY <1>3, <1>7, <2>1
<1>8. CASE CloseEnd(c, "err", "w", "close_w_err", "read_out")
  <2>1. /\ "close_w_err" \notin BeforeFork \cup {"done"} /\ "read_out" \notin BeforeFork \cup {"done"}
        /\ \A s1 \in Streams : /\ "read_out" \in UpToRead(s1) => "close_w_err" \in UpToRead(s1)
                               /\ "read_out" \in AfterRead(s1) => "close_w_err" \in AfterRead(s1)
    BY DEF BeforeFork, UpToRead, AfterRead, Streams
  <2>. QED BY <1>3, <1>8, <2>1
<1>9. CASE CloseEnd(c, "out", "r", "close_r_out", "close_r_err")
  <2>1. /\ "close_r_out" \notin BeforeFork \cup {"done"} /\ "close_r_err" \notin BeforeFork \cup {"done"}
        /\ \A s1 \in Streams : /\ "close_r_err" \in UpToRead(s1) => "close_r_out" \in UpToRead(s1)
                               /\ "close_r_err" \in AfterRead(s1) => "close_r_out" \in AfterRead(s1)
    BY DEF BeforeFork, UpToRead, AfterRead, Streams
  <2>. QED BY <1>3, <1>9, <2>1
<1>10. CASE CloseEnd(c, "err", "r", "close_r_err", "wait")
  <2>1. /\ "close_r_err" \notin BeforeFork \cup {"done"} /\ "wait" \notin BeforeFork \cup {"done"}
        /\ \A s1 \in Streams : /\ "wait" \in UpToRead(s1) => "close_r_err" \in UpToRead(s1)
                               /\ "wait" \in AfterRead(s1) => "close_r_err" \in AfterRead(s1)
    BY DEF BeforeFork, UpToRead, AfterRead, Streams
  <2>. QED BY <1>3, <1>10, <2>1
<1>11. CASE CloseEnd(c, "out", "r", "fail_r_out", "fail_r_err")
  <2>1. /\ "fail_r_out" \notin BeforeFork \cup {"done"} /\ "fail_r_err" \notin BeforeFork \cup {"done"}
        /\ \A s1 \in Streams : /\ "fail_r_err" \in UpToRead(s1) => "fail_r_out" \in UpToRead(s1)
                               /\ "fail_r_err" \in AfterRead(s1) => "fail_r_out" \in AfterRead(s1)
    BY DEF BeforeFork, UpToRead, AfterRead, Streams
  <2>. QED BY <1>3, <1>11, <2>1
<1>12. CASE CloseEnd(c, "err", "r", "fail_r_err", "fail_wait")
  <2>1. /\ "fail_r_err" \notin BeforeFork \cup {"done"} /\ "fail_wait" \notin BeforeFork \cup {"done"}
        /\ \A s1 \in Streams : /\ "fail_wait" \in UpToRead(s1) => "fail_r_err" \in UpToRead(s1)
                               /\ "fail_wait" \in AfterRead(s1) => "fail_r_err" \in AfterRead(s1)
    BY DEF BeforeFork, UpToRead, AfterRead, Streams
  <2>. QED BY <1>3, <1>12, <2>1
<1>20. CASE CallStep(c)
  BY <1>1, <1>2, <1>4, <1>5, <1>6, <1>7, <1>8, <1>9, <1>10, <1>11, <1>12, <1>20 DEF CallStep, Streams
<1>21. CASE OpenFails(c, "out", "pipe_out") \/ OpenFails(c, "err", "pipe_err") \/ ForkFails(c)
  BY <1>14, <1>21 DEF OpenFails, ForkFails, Goto, Return, BeforeFork
<1>22. CASE CallFails(c)
  BY <1>4, <1>6, <1>21, <1>22 DEF CallFails, Streams
<1>. QED BY <1>20, <1>22

LEMMA ChildStepOutput ==
  ASSUME TypeOK, NEW c \in Calls, ChildStep(c),
         ChildExists(c), ChildCanWrite(c), OutputKept(c)
  PROVE  ChildExists(c)' /\ ChildCanWrite(c)' /\ OutputKept(c)'
<1>. USE DEF TypeOK
<1>. capture[c] \subseteq Streams
  BY ExecAssumption
<1>1. UNCHANGED parentVars /\ child[c] \in {"forked", "running"}
  BY DEF ChildStep, ChildExec, ChildStartWrite, ChildWrite, ChildExit
<1>2. child'[c] \in {"running", "zombie"}
  BY DEF ChildStep, ChildExec, ChildStartWrite, ChildWrite, ChildExit, Die
<1>3. ret[c] # "ok" /\ \A s \in capture[c] : ~given[c][s]
  BY <1>1 DEF ChildExists, OutputKept
<1>4. child'[c] = "running" => \A s \in capture[c] : <<c, s, "w">> \in holds[c] => <<c, s, "w">> \in holds'[c]
  <2>2. CASE ChildExec(c)
    <3>1. CASE holds' = [holds EXCEPT ![c] = @ \ {<<c, s, "r">> : s \in capture[c]}]
      BY <3>1
    <3>2. CASE child'[c] = "zombie"
      BY <3>2
    <3>. QED BY <2>2, <3>1, <3>2 DEF ChildExec, Die
  <2>3. CASE ChildStartWrite(c)
    BY <2>3 DEF ChildStartWrite
  <2>4. CASE ChildWrite(c)
    BY <2>4 DEF ChildWrite, Die
  <2>5. CASE ChildExit(c)
    BY <2>5 DEF ChildExit, Die
  <2>. QED BY <2>2, <2>3, <2>4, <2>5 DEF ChildStep
<1>5. ChildExists(c)'
  BY <1>1, <1>2, <1>3 DEF ChildExists, parentVars
<1>6. ChildCanWrite(c)'
  BY <1>1, <1>2, <1>4 DEF ChildCanWrite, parentVars
<1>7. ASSUME NEW s \in capture[c]
      PROVE  \/ sent'[c][s] = sent[c][s] /\ pipe'[c][s] = pipe[c][s]
             \/ sent'[c][s] = sent[c][s] + 1 /\ pipe'[c][s] = pipe[c][s] + 1
  <2>1. \/ UNCHANGED <<sent, pipe>>
        \/ \E s1 \in capture[c] : /\ pipe' = [pipe EXCEPT ![c][s1] = @ + 1]
                                  /\ sent' = [sent EXCEPT ![c][s1] = @ + 1]
    BY DEF ChildStep, ChildExec, ChildStartWrite, ChildWrite, ChildExit
  <2>2. CASE UNCHANGED <<sent, pipe>>
    BY <2>2
  <2>3. ASSUME NEW s1 \in capture[c], pipe' = [pipe EXCEPT ![c][s1] = @ + 1],
               sent' = [sent EXCEPT ![c][s1] = @ + 1]
        PROVE  \/ sent'[c][s] = sent[c][s] /\ pipe'[c][s] = pipe[c][s]
               \/ sent'[c][s] = sent[c][s] + 1 /\ pipe'[c][s] = pipe[c][s] + 1
    <3>1. s \in Streams /\ s1 \in Streams
      OBVIOUS
    <3>2. CASE s = s1
      BY <2>3, <3>1, <3>2
    <3>3. CASE s # s1
      BY <2>3, <3>1, <3>3
    <3>. QED BY <3>2, <3>3
  <2>. QED BY <2>1, <2>2, <2>3
<1>8. OutputKept(c)'
  <2>1. ASSUME NEW s \in capture[c], pc[c] \in UpToRead(s)
        PROVE  sent'[c][s] = got[c][s] + pipe'[c][s]
    <3>1. sent[c][s] = got[c][s] + pipe[c][s]
      BY <2>1 DEF OutputKept
    <3>2. pipe[c][s] \in Int /\ got[c][s] \in Int
      <4>1. pipe[c][s] \in 0 .. PipeCap /\ got[c][s] \in Nat
        OBVIOUS
      <4>. QED BY <4>1, ExecAssumption
    <3>3. \A a, b \in Int : (a + b) + 1 = a + (b + 1)
      OBVIOUS
    <3>4. CASE sent'[c][s] = sent[c][s] /\ pipe'[c][s] = pipe[c][s]
      BY <3>1, <3>4
    <3>5. CASE sent'[c][s] = sent[c][s] + 1 /\ pipe'[c][s] = pipe[c][s] + 1
      BY <3>1, <3>2, <3>3, <3>5
    <3>. QED BY <1>7, <3>4, <3>5
  <2>. QED BY <1>1, <1>3, <2>1 DEF OutputKept, parentVars
<1>. QED BY <1>5, <1>6, <1>8

THEOREM OutputInvariant == Spec => [](TypeOK /\ OutputInv)
<1>1. Init => TypeOK /\ OutputInv
  <2>1. ASSUME Init, NEW c \in Calls, NEW s \in capture[c]
        PROVE  ~given[c][s] /\ sent[c][s] = got[c][s] + pipe[c][s]
    <3>1. s \in Streams
      BY <2>1, ExecAssumption DEF Init
    <3>. QED BY <2>1, <3>1 DEF Init
  <2>2. ASSUME Init, NEW c \in Calls PROVE ChildExists(c) /\ ChildCanWrite(c)
    BY <2>2 DEF Init, ChildExists, ChildCanWrite, BeforeFork
  <2>3. ASSUME Init, NEW c \in Calls PROVE OutputKept(c)
    BY <2>1, <2>3 DEF Init, OutputKept, AfterRead
  <2>. QED BY InitType, <2>2, <2>3 DEF OutputInv
<1>2. TypeOK /\ OutputInv /\ [Next]_vars => (TypeOK /\ OutputInv)'
  <2>. SUFFICES ASSUME TypeOK, OutputInv, [Next]_vars PROVE TypeOK' /\ OutputInv'
    OBVIOUS
  <2>1. ASSUME NEW c \in Calls, CallStep(c) \/ CallFails(c) PROVE TypeOK' /\ OutputInv'
    <3>1. ASSUME NEW d \in Calls, d # c PROVE ChildExists(d)' /\ ChildCanWrite(d)' /\ OutputKept(d)'
      <4>1. capture[d] \subseteq Streams
        BY ExecAssumption DEF TypeOK
      <4>2. ChildExists(d)'
        BY <2>1, <3>1, CallFrame DEF OutputInv, ChildExists
      <4>3. ChildCanWrite(d)'
        <5>1. capture' = capture /\ pc'[d] = pc[d] /\ child'[d] = child[d] /\ holds'[d] = holds[d]
          BY <2>1, <3>1, CallFrame
        <5>2. \A s \in capture[d] : <<d, s, "w">> \in open' <=> <<d, s, "w">> \in open
          BY <2>1, <3>1, <4>1, CallFrame DEF SameEnds, Sides
        <5>. QED BY <5>1, <5>2 DEF OutputInv, ChildCanWrite
      <4>4. OutputKept(d)'
        BY <2>1, <3>1, CallFrame DEF OutputInv, OutputKept
      <4>. QED BY <4>2, <4>3, <4>4
    <3>2. ChildExists(c)' /\ ChildCanWrite(c)' /\ OutputKept(c)'
      BY <2>1, CallStepOutput DEF OutputInv
    <3>. QED BY <2>1, <3>1, <3>2, CallStepType DEF OutputInv
  <2>2. ASSUME NEW c \in Calls, ChildStep(c) PROVE TypeOK' /\ OutputInv'
    <3>1. ASSUME NEW d \in Calls, d # c PROVE ChildExists(d)' /\ ChildCanWrite(d)' /\ OutputKept(d)'
      BY <2>2, <3>1, ChildFrame DEF OutputInv, ChildExists, ChildCanWrite, OutputKept, parentVars
    <3>2. ChildExists(c)' /\ ChildCanWrite(c)' /\ OutputKept(c)'
      BY <2>2, ChildStepOutput DEF OutputInv
    <3>. QED BY <2>2, <3>1, <3>2, ChildStepType DEF OutputInv
  <2>3. CASE UNCHANGED vars
    BY <2>3 DEF vars, TypeOK, OutputInv, ChildExists, ChildCanWrite, OutputKept
  <2>. QED BY <2>1, <2>2, <2>3 DEF Next, Finished
<1>. QED BY <1>1, <1>2, PTL DEF Spec

\* A call that returns 0 has handed out everything its child wrote and reports
\* how that child ended, however many calls run at once and inherit each
\* other's descriptors.
THEOREM OutputComplete == Spec => []CaptureComplete
<1>1. TypeOK /\ OutputInv => CaptureComplete
  BY DEF OutputInv, ChildExists, OutputKept, CaptureComplete
<1>. QED BY <1>1, OutputInvariant, PTL

\* A failing call never hands out the beginning of an output.
THEOREM NoPart == Spec => []NoPartialOutput
<1>1. TypeOK /\ OutputInv => NoPartialOutput
  BY DEF OutputInv, OutputKept, NoPartialOutput
<1>. QED BY <1>1, OutputInvariant, PTL

\* Both, for any number of concurrent calls.
THEOREM Whole == Spec => []AllOrNothing
BY OutputComplete, NoPart, PTL DEF AllOrNothing
-----------------------------------------------------------------------------
(* The child is reaped *)

\* There is no child before fork returns one, it is there until the call waits for it, and
\* a return has reaped it unless waitpid was interrupted.
NoneLeftBehind(c) ==
  /\ pc[c] \in BeforeFork => child[c] = "none"
  /\ pc[c] \notin BeforeFork \cup {"done"} => child[c] \notin {"none", "reaped"}
  /\ pc[c] = "done" => (child[c] \notin {"none", "reaped"} <=> ret[c] = "eintr")

LEMMA CallStepReaps ==
  ASSUME TypeOK, NEW c \in Calls, CallStep(c) \/ CallFails(c),
         NoneLeftBehind(c)
  PROVE  NoneLeftBehind(c)'
<1>. USE DEF TypeOK, NoneLeftBehind, BeforeFork
<1>1. ASSUME NEW s \in Streams, NEW h \in {"pipe_out", "pipe_err"}, NEW n \in {"pipe_err", "fork"},
             OpenPipe(c, s, h, n)
      PROVE  NoneLeftBehind(c)'
  BY <1>1 DEF OpenPipe, Goto, childVars
<1>2. ASSUME NEW s \in Streams, NEW h \in {"pipe_out", "pipe_err"}, OpenFails(c, s, h)
      PROVE  NoneLeftBehind(c)'
  BY <1>2 DEF OpenFails, Goto, Return, childVars
<1>3. CASE Fork(c)
  BY <1>3 DEF Fork, Goto
<1>4. CASE ForkFails(c)
  BY <1>4 DEF ForkFails, Goto, Return, childVars
<1> DEFINE Between == {"close_w_err", "read_out", "read_err", "close_r_out", "close_r_err", "wait",
                       "fail_r_out", "fail_r_err", "fail_wait"}
<1>5. ASSUME NEW s \in Streams, NEW e \in Sides, NEW h \in Between \cup {"close_w_out"}, NEW n \in Between, CloseEnd(c, s, e, h, n)
      PROVE  NoneLeftBehind(c)'
  BY <1>5 DEF CloseEnd, Goto, childVars
<1>6. ASSUME NEW s \in Streams, NEW h \in Between, NEW n \in Between, Read(c, s, h, n)
      PROVE  NoneLeftBehind(c)'
  <2>1. child' = child /\ pc[c] \in Between /\ pc'[c] \in Between
    BY <1>6 DEF Read, Take, Give, Goto
  <2>2. \A l \in Between : l \notin BeforeFork \cup {"done"}
    OBVIOUS
  <2>. QED BY <2>1, <2>2
<1>7. ASSUME NEW s \in Streams, NEW h \in Between, ReadFails(c, s, h) PROVE NoneLeftBehind(c)'
  BY <1>7 DEF ReadFails, Goto
<1>8. CASE Wait(c) \/ FailWait(c)
  BY <1>8 DEF Wait, FailWait, Goto, Return
<1>9. CASE Interrupted(c)
  BY <1>9 DEF Interrupted, Goto, Return, childVars
<1>10. CASE CallStep(c)
  BY <1>1, <1>3, <1>5, <1>6, <1>8, <1>10 DEF CallStep, Streams, Sides
<1>11. CASE CallFails(c)
  BY <1>2, <1>4, <1>7, <1>9, <1>11 DEF CallFails, Streams
<1>. QED BY <1>10, <1>11

\* A call of process_exec returns and leaves a child behind if, and only if, a signal has
\* interrupted its waitpid, whatever else fails, for any number of concurrent calls.
THEOREM Reaped == Spec => []ChildReaped
<1>. DEFINE Inv == TypeOK /\ \A c \in Calls : NoneLeftBehind(c)
<1>1. Init => Inv
  BY InitType DEF Init, NoneLeftBehind, BeforeFork
<1>2. Inv /\ [Next]_vars => Inv'
  <2>. SUFFICES ASSUME Inv, [Next]_vars PROVE (\A d \in Calls : NoneLeftBehind(d))' /\ TypeOK'
    OBVIOUS
  <2>1. ASSUME NEW c \in Calls, CallStep(c) \/ CallFails(c)
        PROVE  (\A d \in Calls : NoneLeftBehind(d))' /\ TypeOK'
    <3>1. ASSUME NEW d \in Calls, d # c PROVE NoneLeftBehind(d)'
      BY <2>1, <3>1, CallFrame DEF NoneLeftBehind
    <3>2. NoneLeftBehind(c)'
      BY <2>1, CallStepReaps
    <3>. QED BY <2>1, <3>1, <3>2, CallStepType
  <2>2. ASSUME NEW c \in Calls, ChildStep(c)
        PROVE  (\A d \in Calls : NoneLeftBehind(d))' /\ TypeOK'
    <3>1. child[c] \in {"forked", "running"} /\ UNCHANGED parentVars
      BY <2>2, ChildFrame DEF ChildStep, ChildExec, ChildStartWrite, ChildWrite, ChildExit
    <3>2. child'[c] \in {"forked", "running", "zombie"}
      BY <2>2, <3>1 DEF ChildStep, ChildExec, ChildStartWrite, ChildWrite, ChildExit, Die, TypeOK
    <3>3. NoneLeftBehind(c)'
      BY <3>1, <3>2 DEF NoneLeftBehind, parentVars
    <3>4. ASSUME NEW d \in Calls, d # c PROVE NoneLeftBehind(d)'
      BY <2>2, <3>1, <3>4, ChildFrame DEF NoneLeftBehind, parentVars
    <3>. QED BY <2>2, <3>3, <3>4, ChildStepType
  <2>3. CASE UNCHANGED vars
    BY <2>3 DEF vars, NoneLeftBehind, TypeOK
  <2>. QED BY <2>1, <2>2, <2>3 DEF Next, Finished
<1>3. Inv => ChildReaped
  BY DEF NoneLeftBehind, ChildReaped
<1>. QED BY <1>1, <1>2, <1>3, PTL DEF Spec
=============================================================================
