---------------------------- MODULE HttpServer -----------------------------
(***************************************************************************)
(* http_server of httpsrv.c, in the build that loops (the oneshot build    *)
(* does not compile), and its SIGINT handler.                              *)
(*                                                                         *)
(* The server answers one connection at a time, in a loop that SIGINT is   *)
(* to end: the handler clears the static flag `running'.  It is installed  *)
(* without SA_RESTART, so a system call that blocks when the signal comes  *)
(* returns early; anywhere else the signal only clears the flag.  Reading, *)
(* writing, the size of the file and the block for it go unchecked.        *)
(***************************************************************************)
EXTENDS Peers

CONSTANTS
  MaxCalls,   \* calls of http_server by the application
  MaxSigs,    \* SIGINTs sent
  MayFail     \* system calls may fail: a subset of Failures

Failures == {"socket", "bind", "listen", "accept", "fopen", "ftell", "malloc"}

ASSUME HttpAssumption == MaxCalls \in Nat /\ MaxSigs \in Nat /\ MayFail \subseteq Failures

Labels == {"idle", "setup", "announce", "accept", "read", "open", "size", "fill",
           "header", "body", "notfound", "close", "check", "killed"}

VARIABLES
  running,  \* the static flag the handler clears; nothing sets it again
  pc,       \* where the thread that calls http_server is
  calls,    \* calls made so far
  sigs,     \* SIGINTs sent so far
  sockets,  \* server sockets that are open: how many listen, how many do not
  client,   \* the connection that is being served
  late,     \* connections accepted since a SIGINT during this call
  len,      \* the local len: the size that ftell returned
  body,     \* the units of the response body still to be written
  cut       \* the clients whose body was given up: a signal came into the write of it, or
            \* there was no block to read it into (history, for the properties)

callVars   == <<running, calls, sigs, sockets, late, cut>>
serverVars == <<callVars, pc, client, len, body>>
vars       == <<serverVars, file, peerVars>>

Init ==
  /\ running = TRUE
  /\ pc = "idle"
  /\ calls = 0 /\ sigs = 0 /\ late = 0
  /\ sockets = [listening |-> 0, other |-> 0]
  /\ client = NoClient
  /\ len = 0 /\ body = <<>> /\ cut = {}
  /\ PeersInit

Goto(l) == pc' = l

-----------------------------------------------------------------------------
(* The server *)

Call ==
  /\ pc = "idle" /\ calls < MaxCalls
  /\ calls' = calls + 1
  /\ late' = 0
  /\ Goto("setup")
  /\ UNCHANGED <<running, sigs, sockets, cut, client, file, len, body, peerVars>>

\* bind fails while another socket listens on the port, also with SO_REUSEADDR.
PortFree == sockets.listening = 0

\* socket, bind and listen.  A socket that could not be bound or made to listen
\* stays open.
Setup ==
  /\ pc = "setup"
  /\ \/ /\ PortFree
        /\ sockets' = [sockets EXCEPT !.listening = @ + 1]
        /\ Goto("announce")
     \/ /\ "socket" \in MayFail
        /\ Goto("idle") /\ UNCHANGED sockets
     \/ /\ ~PortFree \/ MayFail \cap {"bind", "listen"} # {}
        /\ sockets' = [sockets EXCEPT !.other = @ + 1]
        /\ Goto("idle")
  /\ UNCHANGED <<running, calls, sigs, cut, client, late, file, len, body, peerVars>>

\* The printf before accept: the flag has been checked, accept not yet entered.
Announce ==
  /\ pc = "announce"
  /\ Goto("accept")
  /\ UNCHANGED <<callVars, client, file, len, body, peerVars>>

Accept ==
  /\ pc = "accept"
  /\ \E c \in Clients : Admit(c) /\ client' = c
  /\ late' = IF running THEN 0 ELSE late + 1
  /\ Goto("read")
  /\ UNCHANGED <<running, calls, sigs, sockets, cut, file, len, body>>

\* Any failure of accept leads back to the check of the flag.
AcceptFails ==
  /\ pc = "accept" /\ "accept" \in MayFail
  /\ Goto("check")
  /\ UNCHANGED <<callVars, client, file, len, body, peerVars>>

\* One read of the request, whatever of it has come; at the end of the
\* connection it returns nothing.
ReadRequest ==
  /\ pc = "read"
  /\ inbox[client] > 0 \/ conn[client] = "hungup"
  /\ inbox' = [inbox EXCEPT ![client] = 0]
  /\ Goto("open")
  /\ UNCHANGED <<callVars, client, file, len, body, conn, sent, wire, seen>>

\* Any failure of fopen, for whatever reason, is answered with the 404.
OpenFile ==
  /\ pc = "open"
  /\ \/ file # Missing /\ Goto("size")
     \/ (file = Missing \/ "fopen" \in MayFail) /\ Goto("notfound")
  /\ UNCHANGED <<callVars, client, file, len, body, peerVars>>

\* fseek and ftell on the open file.  ftell returns -1 where it fails: for a FIFO, or for
\* a size that a long does not hold.
Size ==
  /\ pc = "size"
  /\ len' = file \/ ("ftell" \in MayFail /\ len' = -1)
  /\ Goto("fill")
  /\ UNCHANGED <<callVars, client, file, body, peerVars>>

\* Mutant of Buffer: one unit too long.
BufferOneMore(n) == [i \in 1 .. n + 1 |-> IF i <= file THEN Data ELSE Junk]

\* malloc(n) and fread: what the file does not hold any more stays as malloc
\* left it.
Buffer(n) == [i \in 1 .. n |-> IF i <= file THEN Data ELSE Junk]

\* malloc gives no block: there is no memory, or len was -1 or that of a directory.
NoBlock == len < 0 \/ "malloc" \in MayFail

\* Nobody looks at what malloc returns.  Without a block fread crashes, or reads nothing
\* when the kernel refuses the address, and so does the write of the body.
Fill ==
  /\ pc = "fill"
  /\ \/ len >= 0 /\ body' = Buffer(len) /\ Goto("header") /\ UNCHANGED cut
     \/ /\ NoBlock
        /\ body' = <<>> /\ cut' = cut \cup {client}
        /\ Goto("header") \/ Goto("killed")
  /\ UNCHANGED <<running, calls, sigs, sockets, late, client, file, len, peerVars>>

\* Mutant of WriteHeader: the body is written without the header.
WriteNoHeader ==
  /\ pc = "header"
  /\ Goto("body")
  /\ UNCHANGED <<callVars, client, file, len, body, peerVars>>

\* A write that starts after the connection was reset raises SIGPIPE, which ends
\* the process.
WriteHeader ==
  /\ pc = "header"
  /\ Deliver(client, Header(len))
  /\ Goto(IF conn[client] = "reset" THEN "killed" ELSE "body")
  /\ UNCHANGED <<callVars, client, file, len, body>>

\* The write of the body, which the kernel takes unit by unit.  A reset in the
\* middle of it ends the write without a signal.
WriteBody ==
  /\ pc = "body" /\ body # <<>>
  /\ Deliver(client, Head(body))
  /\ body' = Tail(body)
  /\ Goto(IF conn[client] = "reset" /\ Len(body) = len THEN "killed" ELSE "body")
  /\ UNCHANGED <<callVars, client, file, len>>

\* Mutant of BodyWritten: the write is taken for done although a part is left.
BodyWrittenEarly ==
  /\ pc = "body"
  /\ Goto("close")
  /\ UNCHANGED <<callVars, client, file, len, body, peerVars>>

\* Mutant of BodyWritten: the 200 path does not close the connection.
BodyWrittenNoClose ==
  /\ pc = "body" /\ body = <<>>
  /\ Goto("check")
  /\ UNCHANGED <<callVars, client, file, len, body, peerVars>>

BodyWritten ==
  /\ pc = "body" /\ body = <<>>
  /\ Goto("close")
  /\ UNCHANGED <<callVars, client, file, len, body, peerVars>>

WriteNotFound ==
  /\ pc = "notfound"
  /\ Deliver(client, NotFound)
  /\ Goto(IF conn[client] = "reset" THEN "killed" ELSE "close")
  /\ UNCHANGED <<callVars, client, file, len, body>>

Close ==
  /\ pc = "close"
  /\ CloseConn(client)
  /\ client' = NoClient
  /\ body' = <<>> /\ len' = 0
  /\ Goto("check")
  /\ UNCHANGED <<callVars, file>>

\* Mutant of Check: the loop does not look at the flag.
CheckNothing ==
  /\ pc = "check"
  /\ Goto("announce")
  /\ UNCHANGED <<callVars, client, file, len, body, peerVars>>

\* while (running): the call returns without closing the server socket.
Check ==
  /\ pc = "check"
  /\ Goto(IF running THEN "announce" ELSE "idle")
  /\ UNCHANGED <<callVars, client, file, len, body, peerVars>>

ServerStep ==
  \/ Setup \/ Announce \/ Accept \/ ReadRequest \/ OpenFile \/ Size \/ Fill
  \/ WriteHeader \/ WriteBody \/ BodyWritten \/ WriteNotFound \/ Close \/ Check

-----------------------------------------------------------------------------
(* The signal and the clients *)

\* The write of the body waits for room.
WriteBlocks ==
  /\ pc = "body" /\ body # <<>>
  /\ conn[client] = "open" /\ Len(wire[client]) = SockBuf

\* SIGINT once the handler is installed.  accept fails, read returns nothing, and
\* the write of the body returns less than it was given, if they block.
Sigint ==
  /\ sigs < MaxSigs /\ calls > 0 /\ pc # "killed"
  /\ sigs' = sigs + 1
  /\ running' = FALSE
  /\ CASE pc = "accept" /\ NobodyWaits -> Goto("check")
       [] pc = "read" /\ inbox[client] = 0 /\ conn[client] = "open" -> Goto("open")
       [] WriteBlocks -> Goto("close")
       [] OTHER -> UNCHANGED pc
  /\ cut' = IF WriteBlocks THEN cut \cup {client} ELSE cut
  /\ UNCHANGED <<calls, sockets, client, late, file, len, body, peerVars>>

\* The kernel establishes connections while a socket listens, whether or not
\* http_server is running.  What clients do after the end of the process is left out.
ClientStep(c) ==
  /\ pc # "killed"
  /\ \/ sockets.listening > 0 /\ Connect(c)
     \/ SendRequest(c) \/ TakeUnit(c) \/ HangUp(c)
  /\ UNCHANGED <<serverVars, file>>

FileStep ==
  /\ pc # "killed" /\ ChangeFile(pc \in {"size", "fill"})
  /\ UNCHANGED <<serverVars, peerVars>>

-----------------------------------------------------------------------------

\* Nobody has anything left to do: the application does something else, or the
\* server waits for a connection that never comes.
Waiting ==
  /\ \/ pc = "killed"
     \/ pc = "idle" /\ calls = MaxCalls
     \/ pc = "accept" /\ NobodyWaits
  /\ UNCHANGED vars

Next ==
  \/ Call
  \/ ServerStep
  \/ AcceptFails
  \/ Sigint
  \/ \E c \in Clients : ClientStep(c)
  \/ FileStep
  \/ Waiting

Spec == Init /\ [][Next]_vars

\* The server thread runs when it can, and accept does not fail for ever while
\* connections wait; a client that connects and stays goes on to send its
\* request and to take the response.  No client has to connect, nobody has to
\* hang up or to send a signal.
Fairness ==
  /\ WF_vars(Call)
  /\ WF_vars(ServerStep)
  /\ SF_vars(Accept)
  /\ \A c \in Clients :
       WF_vars(pc # "killed" /\ (SendRequest(c) \/ TakeUnit(c)) /\ UNCHANGED <<serverVars, file>>)

FairSpec == Spec /\ Fairness
-----------------------------------------------------------------------------
(* Properties *)

\* The values every variable may take.
TypeOK ==
  /\ running \in BOOLEAN
  /\ pc \in Labels
  /\ calls \in 0 .. MaxCalls /\ sigs \in 0 .. MaxSigs
  /\ sockets \in [listening : 0 .. 1, other : Nat]
  /\ client \in Clients \cup {NoClient}
  /\ late \in Nat /\ len \in Nat \cup {-1}
  /\ body \in Seq({Data, Junk}) /\ cut \subseteq Clients
  /\ PeersTypeOK({NotFound, Data, Junk} \cup {Header(n) : n \in FileSizes \cup {-1}})

\* After SIGINT a call accepts at most one more connection: the one for which
\* accept was about to be entered when the signal came.
AtMostOneMore == late <= 1

\* A connection that was accepted is closed before the next one is accepted and
\* before the call returns, on the 404 path, the 200 path and after any signal.
NoConnectionLeft ==
  pc \in {"idle", "announce", "accept", "check"} =>
    \A c \in Clients : conn[c] \notin Live

\* A client never gets anything but the beginning of one response: a 404, or a
\* header and then no more of a body than the header announces (and nothing, if what
\* it announces is the -1 of ftell).
ResponseShape ==
  \A c \in Clients :
    LET r == Response(c) IN
    r # <<>> =>
      \/ r = <<NotFound>>
      \/ /\ r[1].kind = "200"
         /\ Len(r) = 1 \/ Len(r) - 1 <= r[1].claimed
         /\ \A i \in 2 .. Len(r) : r[i] \in {Data, Junk}

Complete(r) ==
  r = <<NotFound>> \/ (r # <<>> /\ r[1].kind = "200" /\ Len(r) = r[1].claimed + 1)

\* When the server closes a connection in good order, the client has been sent the
\* whole response, with as many units as its header says, unless the server itself
\* gave the body of this response up.  A signal that comes at any other point, to any
\* other connection, a file that shrinks meanwhile and a client that hangs up do not
\* shorten what a later client, or this one, is sent.
CompleteUnlessCut ==
  \A c \in Clients : conn[c] = "finished" => Complete(Response(c)) \/ c \in cut

\* While no signal has come, a client in the queue gets its turn and its
\* connection is closed, however the other clients behave (they may hang up at
\* any time), as long as those that stay send their requests and take their
\* responses.  Only the end of the process (SIGPIPE, a crash in fread) can prevent it.
Served == \A c \in Clients :
  conn[c] = "queued" ~> conn[c] \in {"finished", "broken"} \/ sigs > 0 \/ pc = "killed"
=============================================================================
