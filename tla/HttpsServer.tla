---------------------------- MODULE HttpsServer ----------------------------
(***************************************************************************)
(* https_server of httpsrv-tls.c, in both of its builds (a loop, or one    *)
(* connection and out), and its SIGINT handler.                            *)
(*                                                                         *)
(* What the server owns is a set of resources.  The function has many      *)
(* exits, each with a cleanup of its own written out by hand, and an exit  *)
(* is `continue' in one build and a return in the other: the tables Frees, *)
(* Ends and StartFrees say what each one releases.  Reading and            *)
(* writing go through OpenSSL, whose calls report a system call that a     *)
(* signal interrupted as WANT_READ or WANT_WRITE: the read loop and        *)
(* ssl_write_all try again, SSL_accept and SSL_shutdown are not tried      *)
(* again.                                                                  *)
(***************************************************************************)
EXTENDS Peers

CONSTANTS
  Oneshot,    \* the build: TRUE with _ONESHOT_HTTPSRV
  ReqCap,     \* segments that fill the request buffer
  MaxSigs,    \* SIGINTs sent
  IntWrap,    \* units at which an int overflows
  MayFail     \* calls may fail: a subset of Failures

\* The calls before the loop, in their order, and those of an iteration.
Startups == {"sigaction", "ctx", "cert", "socket", "setsockopt", "bind", "listen"}
Errors   == {"seek_end", "tell", "seek_set", "malloc", "fread"}   \* answered with a 500
Failures == Startups \cup {"accept", "new", "set_fd", "handshake", "fopen"} \cup Errors

ASSUME HttpsAssumption ==
  /\ Oneshot \in BOOLEAN
  /\ ReqCap \in Nat \ {0} /\ MaxSigs \in Nat /\ IntWrap \in Nat \ {0}
  /\ MayFail \subseteq Failures

Error     == [kind |-> "500", claimed |-> 21, body |-> 18]
Resources == {"ctx", "server_fd", "client", "ssl", "file", "body"}
Labels    == {"start", "announce", "accept", "new", "session", "read", "open", "size", "fill",
              "header", "body", "notfound", "error", "shutdown", "peer_close", "close",
              "check", "returned", "killed"}

VARIABLES
  running,   \* the static flag the handler clears
  pc,        \* where https_server is
  held,      \* the resources that are allocated or open
  result,    \* what https_server returned
  sigs,      \* SIGINTs sent so far
  client,    \* the connection that is being served
  accepted,  \* connections accepted
  late,      \* connections accepted since a SIGINT
  have,      \* segments of the request in the buffer: request_len
  len,       \* the local len: the size that ftell returned
  left,      \* units of the body that are still to be written
  outcome    \* which way this connection, or the start, went: the exit that it takes

loopVars   == <<running, result, sigs, accepted, late>>
reqVars    == <<have, len, left>>
serverVars == <<loopVars, reqVars, pc, held, client, outcome>>
vars       == <<serverVars, file, peerVars>>

\* Nothing sets the static flag again: a call finds it FALSE if an earlier one
\* was interrupted.
Init ==
  /\ running \in BOOLEAN
  /\ pc = "start" /\ held = {} /\ result = "none"
  /\ sigs = 0 /\ accepted = 0 /\ late = 0
  /\ client = NoClient
  /\ have = 0 /\ len = 0 /\ left = 0 /\ outcome = "none"
  /\ PeersInit

Goto(l) == pc' = l

-----------------------------------------------------------------------------
(* The exits *)

\* Mutant of Frees: the exit after a failed SSL_set_fd forgets the session.
FreesNoSession ==
  [accept    |-> {},                new      |-> {"client"},
   set_fd    |-> {"client"},        handshake |-> {"ssl", "client"},
   notfound  |-> {"ssl", "client"}, seek_end  |-> {"ssl", "client"},
   tell      |-> {"ssl", "client"}, seek_set  |-> {"ssl", "client"},
   malloc    |-> {"ssl", "client"}, fread     |-> {"ssl", "client"},
   served    |-> {"ssl", "client"}]

\* Mutant of Frees: the exit after a short fread does not close the connection.
FreesNoClient ==
  [accept    |-> {},                new      |-> {"client"},
   set_fd    |-> {"ssl", "client"}, handshake |-> {"ssl", "client"},
   notfound  |-> {"ssl", "client"}, seek_end  |-> {"ssl", "client"},
   tell      |-> {"ssl", "client"}, seek_set  |-> {"ssl", "client"},
   malloc    |-> {"ssl", "client"}, fread     |-> {"ssl"},
   served    |-> {"ssl", "client"}]

\* SSL_free and close at each end of an iteration, in both builds.
Frees ==
  [accept    |-> {},                new       |-> {"client"},
   set_fd    |-> {"ssl", "client"}, handshake |-> {"ssl", "client"},
   notfound  |-> {"ssl", "client"}, seek_end  |-> {"ssl", "client"},
   tell      |-> {"ssl", "client"}, seek_set  |-> {"ssl", "client"},
   malloc    |-> {"ssl", "client"}, fread     |-> {"ssl", "client"},
   served    |-> {"ssl", "client"}]

\* What the oneshot build frees there besides, before it returns.  After a failed
\* handshake and after a 404 it does not close the server socket.
Ends ==
  [accept    |-> {"ctx", "server_fd"}, new       |-> {"ctx", "server_fd"},
   set_fd    |-> {"ctx", "server_fd"}, handshake |-> {"ctx"},
   notfound  |-> {"ctx"},              seek_end  |-> {"ctx", "server_fd"},
   tell      |-> {"ctx", "server_fd"}, seek_set  |-> {"ctx", "server_fd"},
   malloc    |-> {"ctx", "server_fd"}, fread     |-> {"ctx", "server_fd"}]

Exits == DOMAIN Frees

\* Mutant of Verdict: a missing file is a failure.
VerdictStrict(e) == "failure"

\* What the oneshot build returns at an exit.
Verdict(e) == IF e = "notfound" THEN "success" ELSE "failure"

\* An exit of the oneshot build, which frees `more' besides.
LeaveFunction(e, more) ==
  /\ outcome' = e
  /\ held' = held \ (Frees[e] \cup more)
  /\ Goto("returned") /\ result' = Verdict(e)

\* The end of an iteration: `continue' in the loop, a return in the oneshot build; after
\* a 200 both go on to the condition of the loop.
LeaveIteration(e) ==
  /\ outcome' = e
  /\ held' = held \ Frees[e]
  /\ Goto("check") /\ UNCHANGED result

Leave(e) ==
  IF Oneshot /\ e # "served" THEN LeaveFunction(e, Ends[e]) ELSE LeaveIteration(e)

-----------------------------------------------------------------------------
(* Starting *)

\* What the calls before f have acquired.
AcquiredBefore(f) ==
  CASE f \in {"cert", "socket"}               -> {"ctx"}
    [] f \in {"setsockopt", "bind", "listen"} -> {"ctx", "server_fd"}
    [] OTHER                                  -> {}

\* Mutant of StartFrees: the exit after a failed setsockopt forgets the socket.
StartFreesLess ==
  [sigaction |-> {}, ctx |-> {}, cert |-> {"ctx"}, socket |-> {"ctx"},
   setsockopt |-> {"ctx"}, bind |-> {"ctx"}, listen |-> {"ctx"}]

\* What the exits before the loop free.  Those of bind and listen do not close the socket.
StartFrees ==
  [sigaction |-> {}, ctx |-> {}, cert |-> {"ctx"}, socket |-> {"ctx"},
   setsockopt |-> {"ctx", "server_fd"}, bind |-> {"ctx"}, listen |-> {"ctx"}]

\* The calls before the loop.
Start ==
  /\ pc = "start"
  /\ \/ /\ held' = {"ctx", "server_fd"}
        /\ Goto("announce") /\ UNCHANGED <<result, outcome>>
     \/ \E f \in Startups \cap MayFail :
          /\ held' = AcquiredBefore(f) \ StartFrees[f]
          /\ Goto("returned") /\ result' = "failure" /\ outcome' = f
  /\ UNCHANGED <<running, sigs, accepted, late, reqVars, client, file, peerVars>>

-----------------------------------------------------------------------------
(* One connection *)

\* The printf before accept: the flag has been checked, accept not yet entered.
Announce ==
  /\ pc = "announce"
  /\ Goto("accept")
  /\ UNCHANGED <<loopVars, reqVars, held, client, outcome, file, peerVars>>

Accept ==
  /\ pc = "accept"
  /\ \E c \in Clients : Admit(c) /\ client' = c
  /\ held' = held \cup {"client"}
  /\ accepted' = accepted + 1
  /\ late' = IF running THEN 0 ELSE late + 1
  /\ Goto("new")
  /\ UNCHANGED <<running, result, sigs, reqVars, outcome, file>>

AcceptFails ==
  /\ pc = "accept" /\ "accept" \in MayFail
  /\ Leave("accept")
  /\ UNCHANGED <<running, sigs, accepted, late, reqVars, client, file, peerVars>>

\* SSL_new, which owns the session from here on.
NewSession ==
  /\ pc = "new"
  /\ held' = held \cup {"ssl"}
  /\ Goto("session")
  /\ UNCHANGED <<loopVars, reqVars, client, outcome, file, peerVars>>

\* SSL_set_fd and the handshake, in which the client takes part.
OpenSession ==
  /\ pc = "session" /\ conn[client] = "open"
  /\ have' = 0
  /\ Goto("read")
  /\ UNCHANGED <<loopVars, len, left, held, client, outcome, file, peerVars>>

Drop ==
  /\ conn' = [conn EXCEPT ![client] = "broken"]
  /\ client' = NoClient
  /\ UNCHANGED <<sent, inbox, wire, seen>>

\* SSL_new or SSL_set_fd fails, or the handshake does: the client has hung up
\* or does not speak TLS.
SessionFails ==
  /\ \/ pc = "new" /\ "new" \in MayFail /\ Leave("new")
     \/ pc = "session" /\ "set_fd" \in MayFail /\ Leave("set_fd")
     \/ /\ pc = "session"
        /\ "handshake" \in MayFail \/ conn[client] = "hungup"
        /\ Leave("handshake")
  /\ Drop
  /\ UNCHANGED <<running, sigs, accepted, late, reqVars, file>>

\* SSL_read appends the next segment, and the buffer is searched for the end of
\* the headers.  It is not terminated and was never initialised, so the search
\* may find it in what an earlier request left there.
ReadSome ==
  /\ pc = "read" /\ have < ReqCap /\ inbox[client] > 0
  /\ have' = have + 1
  /\ inbox' = [inbox EXCEPT ![client] = @ - 1]
  /\ \E stale \in BOOLEAN :
       Goto(IF have' = Segments \/ stale THEN "open" ELSE "read")
  /\ UNCHANGED <<loopVars, len, left, held, client, outcome, file, conn, sent, wire, seen>>

\* The client has closed, or the connection is in error.
Gone == conn[client] # "open"

ReadEnds ==
  /\ pc = "read"
  /\ have = ReqCap \/ (inbox[client] = 0 /\ Gone)
  /\ Goto("open")
  /\ UNCHANGED <<loopVars, reqVars, held, client, outcome, file, peerVars>>

\* Any failure of fopen, for whatever reason, is answered with the 404.
OpenFile ==
  /\ pc = "open"
  /\ \/ file # Missing /\ Goto("size") /\ held' = held \cup {"file"} /\ UNCHANGED outcome
     \/ /\ file = Missing \/ "fopen" \in MayFail
        /\ Goto("notfound") /\ outcome' = "notfound" /\ UNCHANGED held
  /\ UNCHANGED <<loopVars, reqVars, client, file, peerVars>>

\* One of the five error paths after fopen, each with its own fclose and free before it
\* writes its copy of the 500 response.
ToError(e, freed) == Goto("error") /\ outcome' = e /\ held' = held \ freed

\* Mutant of Length: off by one.
LengthOneLess == file - 1

\* ftell at the end of the file.
Length == file

\* fseek, ftell, fseek and malloc.  Where one of them fails, len is not used any more.
Size ==
  /\ pc = "size"
  /\ \/ len' = Length /\ held' = held \cup {"body"} /\ Goto("fill") /\ UNCHANGED outcome
     \/ "seek_end" \in MayFail /\ ToError("seek_end", {"file"}) /\ UNCHANGED len
     \/ "tell" \in MayFail     /\ ToError("tell", {"file"})     /\ UNCHANGED len
     \/ "seek_set" \in MayFail /\ ToError("seek_set", {"file"}) /\ UNCHANGED len
     \/ "malloc" \in MayFail   /\ ToError("malloc", {"file"})   /\ UNCHANGED len
  /\ UNCHANGED <<loopVars, have, left, client, file, peerVars>>

\* Mutant of Fill: the result of fread is not compared with len.
FillAnyway ==
  /\ pc = "fill"
  /\ left' = IF file < len THEN file ELSE len
  /\ held' = held \ {"file"}
  /\ Goto("header")
  /\ UNCHANGED <<loopVars, have, len, client, outcome, file, peerVars>>

\* Mutant of Fill: the error path forgets the body.
FillKeepsBody ==
  /\ pc = "fill"
  /\ \/ /\ file >= len
        /\ left' = len /\ held' = held \ {"file"} /\ Goto("header") /\ UNCHANGED outcome
     \/ /\ file < len \/ "fread" \in MayFail
        /\ ToError("fread", {"file"}) /\ UNCHANGED left
  /\ UNCHANGED <<loopVars, have, len, client, file, peerVars>>

\* fread, which must deliver as much as ftell said.
Fill ==
  /\ pc = "fill"
  /\ \/ /\ file >= len
        /\ left' = len /\ held' = held \ {"file"} /\ Goto("header") /\ UNCHANGED outcome
     \/ /\ file < len \/ "fread" \in MayFail
        /\ ToError("fread", {"body", "file"}) /\ UNCHANGED left
  /\ UNCHANGED <<loopVars, have, len, client, file, peerVars>>

\* ssl_write_all of one unit: an interrupted write is tried again, so the unit
\* goes out whole once there is room.  A failure is not looked at, but a write
\* that starts after a reset raises SIGPIPE, which ends the process.
Write(at, u, next) ==
  /\ pc = at
  /\ Deliver(client, u)
  /\ Goto(IF conn[client] = "reset" THEN "killed" ELSE next)

\* The three responses, and the first SSL_shutdown, which writes close_notify.
Respond ==
  /\ \/ Write("notfound", NotFound, "shutdown")
     \/ Write("error", Error, "shutdown")
     \/ Write("header", Header(len), "body")
     \/ Write("shutdown", Notify, "peer_close")
  /\ UNCHANGED <<loopVars, reqVars, held, client, outcome, file>>

\* Mutant of IntOf: an int of half the width.
IntOfNarrow(n) == LET m == n % IntWrap IN IF 2 * m < IntWrap THEN m ELSE m - IntWrap

\* A size cast to int.
IntOf(n) == LET m == n % (2 * IntWrap) IN IF m < IntWrap THEN m ELSE m - 2 * IntWrap

\* Mutant of Remaining: a write of a part is taken for a write of the whole.
RemainingAfterOne == 0

\* What ssl_write_all has still to write.
Remaining == left - 1

\* ssl_write_all of the body: the length of what is left is given to SSL_write as an int.
WriteBody ==
  /\ IntOf(left) > 0
  /\ Write("body", Data, "body")
  /\ left' = Remaining
  /\ UNCHANGED <<loopVars, have, len, held, client, outcome, file>>

\* Nothing is left, or SSL_write refuses the length it is given, which ends ssl_write_all.
\* Nobody looks at what it returns.
BodyWritten ==
  /\ pc = "body" /\ IntOf(left) <= 0
  /\ left' = 0
  /\ held' = held \ {"body"}
  /\ outcome' = "served"
  /\ Goto("shutdown")
  /\ UNCHANGED <<loopVars, have, len, client, file, peerVars>>

\* The second SSL_shutdown reads until the close_notify of the peer or the end
\* of the connection.  It fails if it reads a segment of the request instead.
AwaitPeer ==
  /\ pc = "peer_close"
  /\ conn[client] # "open" \/ inbox[client] > 0
  /\ inbox' = [inbox EXCEPT ![client] = IF @ > 0 THEN @ - 1 ELSE 0]
  /\ Goto("close")
  /\ UNCHANGED <<loopVars, reqVars, held, client, outcome, file, conn, sent, wire, seen>>

\* Mutant of Close: the connection stays open.
CloseKeeps ==
  /\ pc = "close"
  /\ client' = NoClient
  /\ Leave(outcome)
  /\ UNCHANGED <<running, sigs, accepted, late, reqVars, file, peerVars>>

\* SSL_free and close, after the 404, a 500 or the 200.
Close ==
  /\ pc = "close"
  /\ CloseConn(client)
  /\ client' = NoClient
  /\ Leave(outcome)
  /\ UNCHANGED <<running, sigs, accepted, late, reqVars, file>>

\* Mutant of Again: the loop does not look at the flag.
AgainAlways == ~Oneshot

\* while (running)
Again == running /\ ~Oneshot

\* Mutant of Cleaned: the cleanup forgets the context.
CleanedOther == {"server_fd"}

\* What the cleanup frees.
Cleaned == {"ctx", "server_fd"}

\* The condition of the loop, and the cleanup after it.
Check ==
  /\ pc = "check"
  /\ IF Again
     THEN Goto("announce") /\ outcome' = "none" /\ UNCHANGED <<held, result>>
     ELSE Goto("returned") /\ held' = held \ Cleaned /\ result' = "success" /\ UNCHANGED outcome
  /\ UNCHANGED <<running, sigs, accepted, late, reqVars, client, file, peerVars>>

ServerStep ==
  \/ Start \/ Announce \/ Accept \/ NewSession \/ OpenSession \/ ReadSome \/ ReadEnds
  \/ OpenFile \/ Size \/ Fill \/ Respond \/ WriteBody \/ BodyWritten \/ AwaitPeer \/ Close \/ Check

-----------------------------------------------------------------------------
(* The signal and the clients *)

AcceptBlocks == pc = "accept" /\ NobodyWaits

\* SSL_shutdown waits for room, or for the peer.
ShutdownBlocks ==
  /\ pc \in {"shutdown", "peer_close"}
  /\ conn[client] = "open"
  /\ IF pc = "shutdown" THEN Len(wire[client]) = SockBuf ELSE inbox[client] = 0

\* SIGINT once the handler is installed: it ends an accept that blocks, a
\* handshake that waits for the client, and an SSL_shutdown that blocks.
Sigint ==
  /\ pc \notin {"start", "returned", "killed"}
  /\ sigs < MaxSigs
  /\ sigs' = sigs + 1
  /\ running' = FALSE
  /\ \/ /\ ~AcceptBlocks /\ ~ShutdownBlocks
        /\ UNCHANGED <<pc, held, result, client, outcome, peerVars>>
     \/ /\ AcceptBlocks
        /\ Leave("accept") /\ UNCHANGED <<client, peerVars>>
     \/ /\ pc = "session" /\ conn[client] = "open"
        /\ Leave("handshake") /\ Drop
     \/ /\ ShutdownBlocks
        /\ Goto("close") /\ UNCHANGED <<held, result, client, outcome, peerVars>>
  /\ UNCHANGED <<accepted, late, reqVars, file>>

\* The handshake with the client is done.
Talking == pc \notin {"new", "session", "killed"}

\* The server socket is open, and not left over from a start that failed.
Listening == "server_fd" \in held /\ outcome \notin {"bind", "listen"}

\* A client connects while the server socket listens, and sends its request
\* when the handshake is done.  What clients do after the end of the process is left out.
ClientStep(c) ==
  /\ pc # "killed"
  /\ \/ Listening /\ Connect(c)
     \/ conn[c] = "open" /\ Talking /\ SendRequest(c)
     \/ TakeUnit(c)
     \/ HangUp(c)
  /\ UNCHANGED <<serverVars, file>>

FileStep ==
  /\ pc # "killed" /\ ChangeFile(pc \in {"size", "fill"})
  /\ UNCHANGED <<serverVars, peerVars>>

-----------------------------------------------------------------------------

\* The server has ended, or waits for a connection that never comes.
Waiting == (pc \in {"returned", "killed"} \/ AcceptBlocks) /\ UNCHANGED vars

Next ==
  \/ ServerStep
  \/ AcceptFails
  \/ SessionFails
  \/ Sigint
  \/ \E c \in Clients : ClientStep(c)
  \/ FileStep
  \/ Waiting

Spec == Init /\ [][Next]_vars

\* The server runs when it can, and accept does not fail for ever while
\* connections wait; a client that has connected and stays goes on to send its
\* request, to take the response and to answer close_notify.  Nobody has to
\* connect, to hang up or to send a signal.
Fairness ==
  /\ WF_vars(ServerStep \/ SessionFails)
  /\ SF_vars(Accept)
  /\ \A c \in Clients :
       WF_vars(/\ pc # "killed"
               /\ (conn[c] = "open" /\ Talking /\ SendRequest(c)) \/ TakeUnit(c)
               /\ UNCHANGED <<serverVars, file>>)

FairSpec == Spec /\ Fairness
-----------------------------------------------------------------------------
(* Properties *)

\* The values every variable may take.
TypeOK ==
  /\ running \in BOOLEAN
  /\ pc \in Labels
  /\ held \subseteq Resources
  /\ result \in {"none", "success", "failure"}
  /\ sigs \in 0 .. MaxSigs
  /\ client \in Clients \cup {NoClient}
  /\ {accepted, late, len, left} \subseteq Nat
  /\ have \in 0 .. ReqCap
  /\ outcome \in Exits \cup Startups \cup {"none"}
  /\ PeersTypeOK({NotFound, Error, Data, Notify} \cup {Header(n) : n \in FileSizes})

\* Whichever of its exits an iteration took (SSL_new, SSL_set_fd or the handshake failed,
\* the 404, one of the five 500s, the 200, a signal), the session, the socket, the file
\* and the buffer of the body are freed before the next connection is accepted.
IterationReleases == pc \in {"announce", "accept", "check"} => held = {"ctx", "server_fd"}

\* After SIGINT the server accepts at most one more connection.
AtMostOneMore == late <= 1

\* A connection that was accepted is closed before the next one is accepted and
\* before the function returns.
NoConnectionLeft ==
  pc \in {"announce", "accept", "check", "returned"} =>
    \A c \in Clients : conn[c] \notin Live

\* The body has the length that the header claims and is made of the file.
Complete(r) ==
  /\ r # <<>> /\ r[1].kind \in {"200", "404", "500"}
  /\ r[1].claimed = r[1].body + Len(r) - 1
  /\ \A i \in 2 .. Len(r) : r[i] = Data

\* The header of a 200 whose length an int does not hold.
TooLong(r) == r # <<>> /\ r[1].kind = "200" /\ r[1].claimed >= IntWrap

\* When the server closes a connection in good order, the client has been sent
\* one whole response, even if SIGINT came at any point of it: ssl_write_all
\* goes on where it was interrupted.  Two kinds of response are never whole: the 500,
\* which claims 21 bytes and carries 18, and a 200 whose body is given up because its
\* length does not fit the int that SSL_write takes.
CompleteResponse == \A c \in Clients :
  LET r == Response(c) IN conn[c] = "finished" => Complete(r) \/ r = <<Error>> \/ TooLong(r)

\* The server answers when it has the whole request, unless the buffer is full
\* or the client has gone: the comment "Read HTTP request until we see
\* \r\n\r\n (end of headers)".
ReadsToTerminator ==
  pc \in {"open", "size", "fill", "header"} =>
    have \in {Segments, ReqCap} \/ conn[client] # "open"

\* The exits that do not close the server socket.
Forgets == {"bind", "listen"} \cup IF Oneshot THEN {"handshake", "notfound"} ELSE {}

\* Whatever failed, everything is freed when the function returns, with one exception:
\* the server socket stays open on the error paths of bind and listen and, in the oneshot
\* build, after a failed handshake and after a 404.
ReturnReleases ==
  pc = "returned" => held \subseteq IF outcome \in Forgets THEN {"server_fd"} ELSE {}

\* The oneshot build accepts one connection at most; if a response was begun, the
\* build reports success for a 200 or a 404 and failure for a 500.  It does not report
\* whether the response arrived: what ssl_write_all returns is not looked at.
OneshotVerdict ==
  Oneshot =>
    /\ accepted <= 1
    /\ pc = "returned" =>
         \A c \in Clients : Response(c) # <<>> =>
           (result = "success") = (Response(c)[1].kind \in {"200", "404"})

\* While no signal has come, a client in the queue of the loop gets its turn and
\* its connection is closed, however the other clients behave, as long as those
\* that stay send their requests, take their responses and answer close_notify.
\* Only SIGPIPE can prevent it.
Served == \A c \in Clients :
  conn[c] = "queued" ~> conn[c] \in {"finished", "broken"} \/ ~running \/ pc = "killed"
=============================================================================
