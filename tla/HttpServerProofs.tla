------------------------- MODULE HttpServerProofs --------------------------
(***************************************************************************)
(* Theorems about HttpServer and HttpServerWindows, for any clients,       *)
(* files, failures, number of calls and number of signals.                 *)
(***************************************************************************)
EXTENDS HttpServerWindows, PeersProofs

Serving == {"read", "open", "size", "fill", "header", "body", "notfound", "close"}

\* A live connection is the one in the local variable client, and the server is
\* between its accept and its close.
Owned ==
  /\ pc \in Serving => client \in Clients
  /\ \A c \in Clients : conn[c] \in Live => c = client /\ pc \in Serving \cup {"killed"}

\* The flag stays FALSE, so after the one late connection the loop ends; late is
\* reset by the next call only.
LateBound ==
  /\ late \in {0, 1}
  /\ late = 1 => ~running /\ pc \notin {"setup", "announce", "accept"}

IInv == ConnType /\ pc \in Labels /\ running \in BOOLEAN /\ Owned /\ LateBound

LEMMA InitIInv == Init => IInv
<1>. SUFFICES ASSUME Init PROVE IInv
  OBVIOUS
<1>1. \A c \in Clients : conn[c] = "none"
  BY DEF Init, PeersInit
<1>2. ConnType
  BY LiveStates DEF Init, PeersInit, ConnType, ConnStates
<1>. QED BY <1>1, <1>2, LiveStates DEF Init, IInv, Owned, LateBound, Labels, Serving

\* The steps of the server that leave the connections alone or write to one.
LEMMA QuietSteps ==
  ASSUME IInv,
         \/ Call \/ Setup \/ Announce \/ AcceptFails \/ ReadRequest \/ OpenFile \/ Size
         \/ Fill \/ BodyWritten \/ Check \/ Sigint \/ Waiting \/ FileStep
  PROVE  IInv'
<1>. USE DEF IInv, Owned, LateBound, Serving, Labels
<1>1. ConnType' /\ conn' = conn
  BY DEF Call, Setup, Announce, AcceptFails, ReadRequest, OpenFile, Size, Fill, BodyWritten,
         Check, Sigint, Waiting, FileStep, ConnType, peerVars, vars
<1>2. CASE Call
  BY <1>1, <1>2 DEF Call, Goto
<1>3. CASE Setup
  BY <1>1, <1>3 DEF Setup, Goto
<1>4. CASE Announce
  BY <1>1, <1>4 DEF Announce, Goto, callVars
<1>5. CASE AcceptFails
  BY <1>1, <1>5 DEF AcceptFails, Goto, callVars
<1>6. CASE ReadRequest
  BY <1>1, <1>6 DEF ReadRequest, Goto, callVars
<1>7. CASE OpenFile
  BY <1>1, <1>7 DEF OpenFile, Goto, callVars
<1>8. CASE Size
  BY <1>1, <1>8 DEF Size, Goto, callVars
<1>9. CASE Fill
  BY <1>1, <1>9 DEF Fill, Goto, callVars
<1>10. CASE BodyWritten
  BY <1>1, <1>10 DEF BodyWritten, Goto, callVars
<1>11. CASE Check
  BY <1>1, <1>11 DEF Check, Goto, callVars
<1>12. CASE Sigint
  BY <1>1, <1>12 DEF Sigint, WriteBlocks, Goto
<1>13. CASE Waiting
  BY <1>1, <1>13 DEF Waiting, vars, serverVars, callVars
<1>14. CASE FileStep
  BY <1>1, <1>14 DEF FileStep, serverVars, callVars
<1>. QED BY <1>2, <1>3, <1>4, <1>5, <1>6, <1>7, <1>8, <1>9, <1>10, <1>11, <1>12, <1>13, <1>14

\* The steps that accept, write to or close a connection, and those of clients.
LEMMA ConnSteps ==
  ASSUME IInv,
         \/ Accept \/ WriteHeader \/ WriteBody \/ WriteNotFound \/ Close
         \/ \E c \in Clients : ClientStep(c)
  PROVE  IInv'
<1>. USE DEF IInv, Owned, LateBound, Serving, Labels
<1>1. CASE Accept
  <2>1. PICK c \in Clients : Admit(c) /\ client' = c
    BY <1>1 DEF Accept
  <2>2. ConnType' /\ \A d \in Clients \ {c} : conn'[d] = conn[d]
    BY <2>1, AdmitConn
  <2>3. \A d \in Clients : conn[d] \notin Live
    BY <1>1 DEF Accept
  <2>. QED BY <1>1, <2>1, <2>2, <2>3 DEF Accept, Goto
<1>2. CASE WriteHeader \/ WriteBody \/ WriteNotFound
  <2>1. client \in Clients /\ \E u : Deliver(client, u)
    BY <1>2 DEF WriteHeader, WriteBody, WriteNotFound
  <2>2. ConnType' /\ \A d \in Clients : conn'[d] \in Live <=> conn[d] \in Live
    BY <2>1, DeliverConn
  <2>3. pc' \in {"body", "close", "killed"} /\ UNCHANGED <<client, late, running>>
    BY <1>2 DEF WriteHeader, WriteBody, WriteNotFound, Goto, callVars
  <2>. QED BY <2>1, <2>2, <2>3
<1>3. CASE Close
  <2>1. client \in Clients /\ CloseConn(client)
    BY <1>3 DEF Close
  <2>2. ConnType' /\ \A d \in Clients : conn'[d] \notin Live
    BY <2>1, CloseConnConn
  <2>. QED BY <1>3, <2>2 DEF Close, Goto, callVars
<1>4. CASE \E c \in Clients : ClientStep(c)
  <2>1. ConnType' /\ \A d \in Clients : conn'[d] \in Live <=> conn[d] \in Live
    BY <1>4, ClientConn DEF ClientStep
  <2>2. UNCHANGED serverVars
    BY <1>4 DEF ClientStep
  <2>. QED BY <2>1, <2>2 DEF serverVars, callVars
<1>. QED BY <1>1, <1>2, <1>3, <1>4

LEMMA StepIInv == IInv /\ [Next]_vars => IInv'
<1>1. ASSUME IInv, UNCHANGED vars PROVE IInv'
  BY <1>1 DEF vars, serverVars, callVars, peerVars, IInv, ConnType, Owned, LateBound
<1>. QED BY <1>1, QuietSteps, ConnSteps DEF Next, ServerStep

THEOREM Invariance == Spec => []IInv
BY InitIInv, StepIInv, PTL DEF Spec

\* Whatever signals come and whatever fails, a call that was signalled accepts
\* at most one more connection.
THEOREM OneMore == Spec => []AtMostOneMore
<1>1. IInv => AtMostOneMore
  BY DEF IInv, LateBound, AtMostOneMore
<1>. QED BY <1>1, Invariance, PTL

\* No path of the loop leaves a connection open.
THEOREM NoneLeft == Spec => []NoConnectionLeft
<1>1. IInv => NoConnectionLeft
  BY DEF IInv, Owned, Serving, NoConnectionLeft
<1>. QED BY <1>1, Invariance, PTL
-----------------------------------------------------------------------------
(* The builds for Windows *)

Stopped  == {"idle", "setup"}
NoSocket == [listening |-> 0, other |-> 0]

\* Between its setup and its return a call has one start of Winsock and one
\* socket, which listens; before and after it there is nothing, not even a queue.
Released ==
  Windows =>
    /\ pc \in Stopped => wsa = 0 /\ sockets = NoSocket /\ NobodyWaits
    /\ pc \notin Stopped \cup {"killed"} =>
         wsa = 1 /\ sockets = [listening |-> 1, other |-> 0]

LEMMA WInitIInv == WInit => IInv /\ Released
<1>. SUFFICES ASSUME WInit PROVE IInv /\ Released
  OBVIOUS
<1>1. IInv
  BY InitIInv DEF WInit
<1>2. \A c \in Clients : conn[c] = "none"
  BY DEF WInit, Init, PeersInit
<1>3. pc = "idle" /\ wsa = 0 /\ sockets = NoSocket
  BY DEF WInit, Init, NoSocket
<1>. QED BY <1>1, <1>2, <1>3 DEF Released, Stopped, NobodyWaits, Pending

\* The steps of Windows that a step of the Unix build has too.
LEMMA SameSteps ==
  ASSUME IInv,
         \/ WCall \/ WAnnounce \/ WAccept \/ WAcceptFails \/ WReadRequest \/ WOpenFile
         \/ WSize \/ WFill \/ WBodyWritten \/ WClose
         \/ \E c \in Clients : ClientStep(c)
         \/ FileStep \/ Waiting
  PROVE  IInv'
BY QuietSteps, ConnSteps
   DEF WCall, WAnnounce, WAccept, WAcceptFails, WReadRequest, WOpenFile, WSize, WFill,
       WBodyWritten, WClose

\* The steps of Windows that differ.
LEMMA WindowsSteps ==
  ASSUME IInv,
         \/ WSetup \/ WWriteHeader \/ WWriteBody \/ WWriteNotFound \/ WCheck \/ WReturn
         \/ WSigint
  PROVE  IInv'
<1>. USE DEF IInv, Owned, LateBound, Serving, Labels
<1>1. CASE WSetup
  <2>1. conn' = conn
    BY <1>1 DEF WSetup, peerVars
  <2>2. pc = "setup" /\ pc' \in {"idle", "announce"} /\ UNCHANGED <<client, late, running>>
    BY <1>1 DEF WSetup, Goto
  <2>. QED BY <2>1, <2>2 DEF ConnType
<1>2. CASE WWriteHeader \/ WWriteBody \/ WWriteNotFound
  <2>1. client \in Clients /\ \E u : Deliver(client, u)
    BY <1>2 DEF WWriteHeader, WWriteBody, WWriteNotFound, Send
  <2>2. ConnType' /\ \A d \in Clients : conn'[d] \in Live <=> conn[d] \in Live
    BY <2>1, DeliverConn
  <2>3. pc' \in {"body", "close"} /\ UNCHANGED <<client, late, running>>
    BY <1>2 DEF WWriteHeader, WWriteBody, WWriteNotFound, Send, Goto, callVars
  <2>4. pc \in {"header", "body", "notfound"}
    BY <1>2 DEF WWriteHeader, WWriteBody, WWriteNotFound, Send
  <2>. QED BY <2>1, <2>2, <2>3, <2>4
<1>3. CASE WCheck
  <2>1. conn' = conn /\ pc = "check" /\ pc' = "announce" /\ UNCHANGED <<client, late, running>>
    BY <1>3 DEF WCheck, Goto, callVars, peerVars
  <2>2. running
    BY <1>3 DEF WCheck, WAgain
  <2>. QED BY <2>1, <2>2 DEF ConnType
<1>4. CASE WReturn
  <2>1. pc = "check" /\ pc' = "idle" /\ UNCHANGED <<client, late, running>>
    BY <1>4 DEF WReturn, Goto
  <2>2. conn' = [c \in Clients |-> IF Pending(c) THEN "broken" ELSE conn[c]]
    BY <1>4 DEF WReturn, Cleanup
  <2>3. \A c \in Clients : conn[c] \notin Live
    BY <2>1
  <2>4. ConnType' /\ \A c \in Clients : conn'[c] \notin Live
    BY <2>2, <2>3, LiveStates DEF ConnType, ConnStates
  <2>. QED BY <2>1, <2>4
<1>5. CASE WSigint
  <2>1. conn' = conn /\ UNCHANGED <<client, late>>
    BY <1>5 DEF WSigint, peerVars
  <2>2. \/ running' = FALSE /\ pc' = pc
        \/ running' = running /\ pc' = "killed"
    BY <1>5 DEF WSigint, Goto
  <2>3. ConnType'
    BY <2>1 DEF ConnType
  <2>4. Owned'
    BY <2>1, <2>2
  <2>5. running' \in BOOLEAN /\ (~running => ~running')
    <3>1. running \in BOOLEAN
      OBVIOUS
    <3>2. CASE running' = FALSE
      BY <3>2, Zenon
    <3>3. CASE running' = running
      BY <3>1, <3>3, Zenon
    <3>. QED BY <2>2, <3>2, <3>3
  <2>6. LateBound' /\ pc' \in Labels
    BY <2>1, <2>2, <2>5
  <2>. QED BY <2>3, <2>4, <2>5, <2>6
<1>. QED BY <1>1, <1>2, <1>3, <1>4, <1>5

\* The steps inside a call that touch neither Winsock nor the server socket.
LEMMA InnerSteps ==
  ASSUME Released, Windows,
         \/ WCall \/ WAnnounce \/ WAccept \/ WAcceptFails \/ WReadRequest \/ WOpenFile
         \/ WSize \/ WFill \/ WWriteHeader \/ WWriteBody \/ WBodyWritten \/ WWriteNotFound
         \/ WClose \/ WCheck \/ WSigint
  PROVE  Released'
<1>1. UNCHANGED <<build, wsa, sockets>>
  BY DEF WCall, WAnnounce, WAccept, WAcceptFails, WReadRequest, WOpenFile, WSize, WFill,
         WWriteHeader, WWriteBody, WBodyWritten, WWriteNotFound, WClose, WCheck, WSigint,
         Send, winVars, callVars, Call, Announce, Accept, AcceptFails, ReadRequest, OpenFile,
         Size, Fill, BodyWritten, Close
<1>2. \/ pc \in Stopped /\ pc' \in Stopped /\ conn' = conn
      \/ pc' \notin Stopped /\ (pc \in Stopped => pc' = "killed") /\ (pc = "killed" => pc' = "killed")
  BY DEF WCall, WAnnounce, WAccept, WAcceptFails, WReadRequest, WOpenFile, WSize, WFill,
         WWriteHeader, WWriteBody, WBodyWritten, WWriteNotFound, WClose, WCheck, WSigint,
         Send, Call, Announce, Accept, AcceptFails, ReadRequest, OpenFile,
         Size, Fill, BodyWritten, Close, Goto, Stopped, peerVars
<1>. QED BY <1>1, <1>2 DEF Released, Windows, NobodyWaits, Pending, Stopped

\* Those that do.
LEMMA OuterSteps == ASSUME Released, Windows, WSetup \/ WReturn PROVE Released'
<1>. USE DEF Released, Windows, Stopped, NoSocket
<1>1. CASE WSetup
  <2>1. UNCHANGED <<build, conn>> /\ pc = "setup"
    BY <1>1 DEF WSetup, peerVars
  <2>2. wsa = 0 /\ sockets = NoSocket /\ NobodyWaits
    BY <2>1
  <2>3. \/ pc' = "idle" /\ wsa' = wsa /\ sockets' = sockets
        \/ pc' = "announce" /\ wsa' = wsa + 1 /\ sockets' = [sockets EXCEPT !.listening = @ + 1]
    BY <1>1 DEF WSetup, Refused, Goto
  <2>. QED BY <2>1, <2>2, <2>3 DEF NobodyWaits, Pending
<1>2. CASE WReturn
  <2>1. pc = "check" /\ pc' = "idle" /\ build' = build
    BY <1>2 DEF WReturn, Goto
  <2>2. wsa = 1 /\ sockets = [listening |-> 1, other |-> 0]
    BY <2>1
  <2>3. wsa' = wsa - 1 /\ sockets' = [sockets EXCEPT !.listening = @ - 1]
    BY <1>2 DEF WReturn, Cleanup
  <2>4. \A c \in Clients : conn'[c] \notin {"queued", "queued_hungup"}
    BY <1>2 DEF WReturn, Cleanup, Pending
  <2>. QED BY <2>1, <2>2, <2>3, <2>4 DEF NobodyWaits, Pending
<1>. QED BY <1>1, <1>2

\* The steps of the clients, of the file and of nobody.
LEMMA OtherSteps ==
  ASSUME IInv, Released, Windows,
         ((\E c \in Clients : ClientStep(c)) \/ FileStep \/ Waiting) /\ UNCHANGED winVars
  PROVE  Released'
<1>. USE DEF Released, Windows, Stopped, NoSocket
<1>1. CASE (\E c \in Clients : ClientStep(c)) /\ UNCHANGED winVars
  <2>1. UNCHANGED <<pc, sockets, wsa, build>>
    BY <1>1 DEF ClientStep, serverVars, callVars, winVars
  <2>2. CASE pc \in Stopped
    <3>1. sockets.listening = 0 /\ NobodyWaits
      BY <2>2
    <3>2. PICK c \in Clients : SendRequest(c) \/ TakeUnit(c) \/ HangUp(c)
      BY <1>1, <3>1 DEF ClientStep
    <3>3. \A d \in Clients : conn'[d] \in {conn[d], "bye", "hungup", "aborted"}
      BY <3>1, <3>2 DEF SendRequest, TakeUnit, HangUp, NobodyWaits, Pending, IInv, ConnType
    <3>. QED BY <2>1, <2>2, <3>1, <3>3 DEF NobodyWaits, Pending
  <2>. QED BY <2>1, <2>2
<1>2. CASE (FileStep \/ Waiting) /\ UNCHANGED winVars
  BY <1>2 DEF FileStep, Waiting, vars, serverVars, callVars, peerVars, winVars, NobodyWaits, Pending
<1>. QED BY <1>1, <1>2

LEMMA WStepIInv == IInv /\ Released /\ [WNext]_allVars => IInv' /\ Released'
<1>. SUFFICES ASSUME IInv, Released, [WNext]_allVars PROVE IInv' /\ Released'
  OBVIOUS
<1>1. CASE UNCHANGED allVars
  <2>1. IInv'
    BY <1>1, StepIInv DEF allVars
  <2>. QED BY <1>1, <2>1 DEF allVars, vars, serverVars, callVars, peerVars, winVars, Released, Windows,
                             NobodyWaits, Pending
<1>2. CASE ~Windows /\ Next /\ UNCHANGED winVars
  BY <1>2, StepIInv DEF Released, Windows, winVars
<1>3. CASE Windows /\ WNext
  <2>1. IInv'
    BY <1>3, SameSteps, WindowsSteps DEF WNext, WServerStep
  <2>2. CASE WCall \/ WAcceptFails \/ WSigint
    BY <1>3, <2>1, <2>2, InnerSteps
  <2>3. CASE WServerStep
    <3>1. CASE WSetup \/ WReturn
      BY <1>3, <2>1, <3>1, OuterSteps
    <3>2. CASE WAnnounce \/ WAccept \/ WReadRequest \/ WOpenFile \/ WSize \/ WFill
      BY <1>3, <2>1, <3>2, InnerSteps
    <3>3. CASE \/ WWriteHeader \/ WWriteBody \/ WBodyWritten \/ WWriteNotFound \/ WClose
               \/ WCheck
      BY <1>3, <2>1, <3>3, InnerSteps
    <3>. QED BY <2>3, <3>1, <3>2, <3>3 DEF WServerStep
  <2>4. CASE (\E c \in Clients : ClientStep(c)) /\ UNCHANGED winVars
    BY <1>3, <2>1, <2>4, OtherSteps
  <2>5. CASE (FileStep \/ Waiting) /\ UNCHANGED winVars
    BY <1>3, <2>1, <2>5, OtherSteps
  <2>. QED BY <1>3, <2>1, <2>2, <2>3, <2>4, <2>5 DEF WNext
<1>. QED BY <1>1, <1>2, <1>3 DEF WNext

THEOREM WInvariance == WSpec => [](IInv /\ Released)
BY WInitIInv, WStepIInv, PTL DEF WSpec

\* In every build a call that was signalled accepts at most one more connection,
\* and no path of the loop leaves a connection open.
THEOREM WLoop == WSpec => [](AtMostOneMore /\ NoConnectionLeft)
<1>1. IInv => AtMostOneMore /\ NoConnectionLeft
  BY DEF IInv, LateBound, Owned, Serving, AtMostOneMore, NoConnectionLeft
<1>. QED BY <1>1, WInvariance, PTL

\* In the builds for Windows a call leaves no socket, no use of Winsock and no
\* queued client behind, whatever failed.
THEOREM WReleases == WSpec => []ReturnReleases
<1>1. Released => ReturnReleases
  BY DEF Released, ReturnReleases, Stopped, NoSocket
<1>. QED BY <1>1, WInvariance, PTL
-----------------------------------------------------------------------------
(* The responses, in every build *)

\* ResponseShape for the whole of what a client is given.
Begun(s) ==
  s # <<>> =>
    \/ s = <<NotFound>>
    \/ /\ s[1].kind = "200"
       /\ Len(s) = 1 \/ Len(s) - 1 <= s[1].claimed
       /\ \A i \in 2 .. Len(s) : s[i] \in {Data, Junk}

Unanswered == {"read", "open", "size", "fill", "header", "notfound"}

Types ==
  /\ StreamType /\ body \in Seq({Data, Junk})
  /\ file \in FileSizes
  /\ pc = "size" => file \in Nat
  /\ pc \in {"fill", "header", "body"} => len \in Int

\* Before its response starts a client has been given nothing.
Silent ==
  /\ \A c \in Clients : NotYet(c) => Stream(c) = <<>>
  /\ pc \in Unanswered => Stream(client) = <<>>

\* What a client that is there has been given and what is left of the body make
\* up the response, or the body was given up.
NoBody == client \in cut /\ body = <<>>

Progress ==
  /\ pc = "header" => Len(body) = len \/ NoBody
  /\ pc = "body" /\ Reached(client) =>
       /\ Stream(client) # <<>> /\ Stream(client)[1] = Header(len)
       /\ Len(Stream(client)) - 1 + Len(body) = len \/ NoBody
  /\ pc = "close" /\ Reached(client) => Complete(Stream(client)) \/ client \in cut
  /\ \A c \in Clients : conn[c] = "finished" => Complete(Stream(c)) \/ c \in cut

AnswerInv == Types /\ (\A c \in Clients : Begun(Stream(c))) /\ Silent /\ Progress

\* A response that was cut short is still the beginning of one.
LEMMA BegunBeginning ==
  ASSUME NEW s \in Seq(Unit), NEW t \in Seq(Unit), IsBeginning(s, t), Begun(t)
  PROVE  Begun(s)
<1>1. Len(s) \in Nat /\ Len(t) \in Nat /\ (s # <<>> => Len(s) >= 1) /\ (t = <<>> => Len(t) = 0)
  OBVIOUS
<1>2. CASE t = <<>>
  BY <1>1, <1>2 DEF IsBeginning, Begun
<1>3. CASE t = <<NotFound>>
  <2>1. Len(t) = 1 /\ t[1] = NotFound
    BY <1>3
  <2>2. s # <<>> => Len(s) = 1 /\ s[1] = NotFound
    BY <1>1, <2>1 DEF IsBeginning
  <2>. QED BY <2>2 DEF Begun
<1>4. CASE t # <<>> /\ t[1].kind = "200" /\ (Len(t) = 1 \/ Len(t) - 1 <= t[1].claimed)
           /\ \A i \in 2 .. Len(t) : t[i] \in {Data, Junk}
  <2>1. s # <<>> => s[1] = t[1]
    BY <1>1 DEF IsBeginning
  <2>2. t[1] \in Unit
    BY <1>1, <1>4, ElementOfSeq
  <2>3. t[1].claimed \in Int
    BY <2>2 DEF Unit
  <2>. QED BY <1>1, <1>4, <2>1, <2>3 DEF IsBeginning, Begun
<1>. QED BY <1>2, <1>3, <1>4 DEF Begun

\* The three kinds of write.
LEMMA WriteFirst ==
  /\ \A n \in Int : /\ Begun(Append(<<>>, Header(n))) /\ Append(<<>>, Header(n)) # <<>>
                    /\ Append(<<>>, Header(n))[1] = Header(n) /\ Len(Append(<<>>, Header(n))) = 1
  /\ Begun(Append(<<>>, NotFound)) /\ Complete(Append(<<>>, NotFound))
<1>1. \A u : Append(<<>>, u) = <<u>>
  OBVIOUS
<1>2. ASSUME NEW n \in Int PROVE Begun(<<Header(n)>>)
  BY DEF Begun, Header
<1>. QED BY <1>1, <1>2 DEF Begun, Complete

LEMMA WriteNext ==
  ASSUME NEW s \in Seq(Unit), NEW n \in Int, NEW u \in {Data, Junk}, Begun(s),
         s # <<>>, s[1] = Header(n), Len(s) - 1 < n
  PROVE  /\ Begun(Append(s, u)) /\ Append(s, u) # <<>> /\ Append(s, u)[1] = Header(n)
         /\ Len(Append(s, u)) = Len(s) + 1
<1>1. u \in Unit
  BY UnitTypes
<1>2. /\ Append(s, u) # <<>> /\ Len(Append(s, u)) = Len(s) + 1
      /\ \A i \in 1 .. Len(s) : Append(s, u)[i] = s[i]
      /\ Append(s, u)[Len(s) + 1] = u
      /\ Len(s) \in Nat /\ Len(s) >= 1
  BY <1>1, AppendProperties
<1>3. \A i \in 2 .. Len(s) : s[i] \in {Data, Junk}
  <2>1. s # <<NotFound>>
    BY DEF Header, NotFound
  <2>. QED BY <2>1 DEF Begun
<1>4. \A i \in 2 .. Len(s) + 1 : Append(s, u)[i] \in {Data, Junk}
  BY <1>2, <1>3
<1>5. Header(n).kind = "200" /\ Header(n).claimed = n
  BY DEF Header
<1>. QED BY <1>2, <1>4, <1>5 DEF Begun

LEMMA WholeComplete ==
  ASSUME NEW s \in Seq(Unit), NEW n \in Int, s # <<>>, s[1] = Header(n), Len(s) - 1 = n
  PROVE  Complete(s)
BY DEF Complete, Header

\* A response never ends with close_notify here.
LEMMA NeverClosed == ASSUME NEW s \in Seq(Unit), Begun(s) PROVE ~Closed(s)
<1>1. ASSUME Closed(s) PROVE FALSE
  <2>1. s # <<>> /\ s[Len(s)] = Notify /\ Len(s) >= 1 /\ Len(s) \in Nat
    BY <1>1 DEF Closed
  <2>2. /\ Notify.kind = "close_notify" /\ NotFound.kind = "404"
        /\ Data.kind = "data" /\ Junk.kind = "junk"
    BY DEF Notify, NotFound, Data, Junk
  <2>3. CASE s = <<NotFound>>
    BY <2>1, <2>2, <2>3
  <2>4. CASE s[1].kind = "200" /\ \A i \in 2 .. Len(s) : s[i] \in {Data, Junk}
    BY <2>1, <2>2, <2>4
  <2>. QED BY <2>1, <2>3, <2>4 DEF Begun
<1>. QED BY <1>1

LEMMA BegunIsResponse ==
  ASSUME AnswerInv, NEW c \in Clients
  PROVE  Response(c) = Stream(c)
<1>1. Stream(c) \in Seq(Unit) /\ Begun(Stream(c))
  BY StreamIsSeq DEF AnswerInv, Types
<1>. QED BY <1>1, NeverClosed DEF Response, Unclosed

\* What a step that leaves the connections and what they carry alone must keep.
LEMMA StillAnswer ==
  ASSUME IInv, AnswerInv, UNCHANGED <<conn, wire, seen, client>>,
         file' \in FileSizes, body' \in Seq({Data, Junk}), cut \subseteq cut',
         pc' \in Unanswered => pc \in Unanswered,
         pc' = "size" => file' \in Nat,
         pc' \in {"fill", "header", "body"} => len' \in Int,
         pc' = "header" => Len(body') = len' \/ NoBody',
         pc' = "body" => pc = "body" /\ UNCHANGED <<len, body>>,
         pc' = "close" => pc = "close" \/ client \in cut' \/ (pc = "body" /\ body = <<>>)
  PROVE  AnswerInv'
<1>1. StreamType' /\ \A c \in Clients : Stream(c)' = Stream(c)
  BY StreamFrame DEF AnswerInv, Types
<1>2. \A c \in Clients : Begun(Stream(c))'
  BY <1>1 DEF AnswerInv, Begun
<1>3. Types'
  BY <1>1 DEF Types
<1>4. Stream(client)' = Stream(client)
  BY DEF Stream
<1>5. Silent'
  BY <1>1, <1>4 DEF AnswerInv, Silent, NotYet
<1>6. Reached(client)' = Reached(client)
  BY DEF Reached
<1>7. (pc = "close" /\ Reached(client) => Complete(Stream(client)) \/ client \in cut)'
  <2>1. CASE pc = "close"
    BY <1>4, <1>6, <2>1 DEF AnswerInv, Progress, Complete
  <2>2. CASE pc = "body" /\ body = <<>> /\ Reached(client) /\ client \notin cut
    <3>. client \in Clients
      BY <2>2 DEF IInv, Owned, Serving
    <3>1. Stream(client) \in Seq(Unit) /\ Stream(client) # <<>> /\ Stream(client)[1] = Header(len)
          /\ Len(Stream(client)) - 1 = len /\ len \in Int
      BY <2>2, StreamIsSeq DEF AnswerInv, Types, Progress, NoBody
    <3>2. Complete(Stream(client))
      BY <3>1, WholeComplete
    <3>. QED BY <1>4, <3>2 DEF Complete
  <2>. QED BY <1>6, <2>1, <2>2 DEF Reached
<1>8. Progress'
  BY <1>1, <1>4, <1>6, <1>7 DEF AnswerInv, Progress, Complete, NoBody
<1>. QED BY <1>2, <1>3, <1>5, <1>8 DEF AnswerInv

LEMMA InitAnswer == Init => AnswerInv
<1>. SUFFICES ASSUME Init PROVE AnswerInv
  OBVIOUS
<1>1. \A c \in Clients : wire[c] = <<>> /\ seen[c] = <<>> /\ conn[c] = "none"
  BY DEF Init, PeersInit
<1>2. \A c \in Clients : Stream(c) = <<>>
  BY <1>1 DEF Stream
<1>3. Types
  BY DEF Init, PeersInit, Types, StreamType
<1>4. Silent /\ Progress
  BY <1>1, <1>2 DEF Init, Silent, Progress, Unanswered
<1>. QED BY <1>2, <1>3, <1>4 DEF AnswerInv, Begun

\* The steps between two writes.
LEMMA QuietAnswer ==
  ASSUME IInv, AnswerInv,
         \/ Call \/ Setup \/ Announce \/ AcceptFails \/ ReadRequest \/ OpenFile \/ Size
         \/ Fill \/ BodyWritten \/ Check \/ Sigint \/ Waiting \/ FileStep
         \/ WSetup \/ WCheck \/ WSigint
  PROVE  AnswerInv'
<1>. USE DEF Goto, callVars, peerVars, Unanswered
<1>1. Types
  BY DEF AnswerInv
<1>2. CASE Call \/ Setup \/ Announce \/ AcceptFails \/ Check \/ WSetup \/ WCheck
  <2>1. /\ UNCHANGED <<conn, wire, seen, client, file, body, cut>>
        /\ pc' \in {"setup", "announce", "idle", "accept", "check"}
    BY <1>2 DEF Call, Setup, Announce, AcceptFails, Check, WSetup, WCheck
  <2>. QED BY <1>1, <2>1, StillAnswer DEF Types
<1>3. CASE ReadRequest
  BY <1>1, <1>3, StillAnswer DEF ReadRequest, Types
<1>4. CASE OpenFile
  <2>1. /\ UNCHANGED <<conn, wire, seen, client, file, body, cut>>
        /\ pc = "open" /\ pc' \in {"notfound", "size"} /\ (pc' = "size" => file # Missing)
    BY <1>4 DEF OpenFile
  <2>2. file = Missing \/ file \in Nat
    BY <1>1, PeersAssumption DEF Types
  <2>. QED BY <1>1, <2>1, <2>2, StillAnswer DEF Types
<1>5. CASE Size
  <2>1. len' \in Int
    BY <1>1, <1>5 DEF Size, Types
  <2>. QED BY <1>1, <1>5, <2>1, StillAnswer DEF Size, Types
<1>6. CASE Fill
  <2>1. /\ UNCHANGED <<conn, wire, seen, client, file, len>>
        /\ pc = "fill" /\ pc' \in {"header", "killed"} /\ cut \subseteq cut' /\ len \in Int
    BY <1>1, <1>6 DEF Fill, Types
  <2>2. CASE len >= 0 /\ body' = Buffer(len)
    <3>1. body' \in Seq({Data, Junk}) /\ Len(body') = len
      BY <2>1, <2>2 DEF Buffer
    <3>. QED BY <1>1, <2>1, <3>1, StillAnswer DEF Types
  <2>3. CASE body' = <<>> /\ client \in cut'
    BY <1>1, <2>1, <2>3, StillAnswer DEF Types, NoBody
  <2>. QED BY <1>6, <2>1, <2>2, <2>3 DEF Fill
<1>7. CASE BodyWritten
  BY <1>1, <1>7, StillAnswer DEF BodyWritten, Types
<1>8. CASE Sigint \/ WSigint
  <2>1. /\ UNCHANGED <<conn, wire, seen, client, file, body, len>>
        /\ cut \subseteq cut'
    BY <1>8 DEF Sigint, WSigint
  <2>2. \/ pc' \in {pc, "check", "killed"}
        \/ pc' = "close" /\ client \in cut'
        \/ pc = "read" /\ pc' = "open"
    BY <1>8 DEF Sigint, WSigint
  <2>. QED BY <1>1, <2>1, <2>2, StillAnswer DEF Types, AnswerInv, Progress, NoBody
<1>9. CASE Waiting
  BY <1>1, <1>9, StillAnswer DEF Waiting, vars, serverVars, callVars, Types, AnswerInv, Progress, NoBody
<1>10. CASE FileStep
  <2>1. /\ UNCHANGED <<pc, conn, wire, seen, client, len, body, cut>>
        /\ file' \in FileSizes /\ (pc \in {"size", "fill"} => file' # Missing)
    BY <1>10 DEF FileStep, ChangeFile, serverVars, callVars
  <2>2. file' = Missing \/ file' \in Nat
    BY <2>1, PeersAssumption
  <2>. QED BY <1>1, <2>1, <2>2, StillAnswer DEF Types, AnswerInv, Progress, NoBody
<1>. QED BY <1>2, <1>3, <1>4, <1>5, <1>6, <1>7, <1>8, <1>9, <1>10

\* What a write must keep, as long as its client is there.
LEMMA GivenAnswer ==
  ASSUME IInv, AnswerInv, client \in Clients, NEW u \in Unit, Deliver(client, u),
         UNCHANGED <<client, file, len, cut>>, body' \in Seq({Data, Junk}),
         pc' \in {"body", "close", "killed"}, pc' = "body" => len \in Int,
         conn[client] = "open" => Begun(Append(Stream(client), u)),
         conn[client] = "open" /\ pc' = "body" =>
           /\ Append(Stream(client), u) # <<>> /\ Append(Stream(client), u)[1] = Header(len)
           /\ Len(Append(Stream(client), u)) - 1 + Len(body') = len \/ NoBody',
         conn[client] = "open" /\ pc' = "close" => Complete(Append(Stream(client), u))
  PROVE  AnswerInv'
<1>. DEFINE s == Append(Stream(client), u)
<1>1. ConnType /\ StreamType
  BY DEF IInv, AnswerInv, Types
<1>2. /\ StreamType'
      /\ \A d \in Clients \ {client} : Stream(d)' = Stream(d) /\ conn'[d] = conn[d]
      /\ \/ conn[client] = "open" /\ conn'[client] = "open" /\ Stream(client)' = s
         \/ /\ {conn[client], conn'[client]} \subseteq {"hungup", "reset", "aborted"}
            /\ Stream(client)' = Stream(client)
  BY <1>1, DeliverStream
<1>. HIDE DEF s
<1>3. Types'
  BY <1>2 DEF AnswerInv, Types
<1>4. \A c \in Clients : Begun(Stream(c))'
  BY <1>2 DEF AnswerInv, Begun, s
<1>5. Silent'
  BY <1>2 DEF AnswerInv, Silent, NotYet, Unanswered
<1>6. \A c \in Clients : conn'[c] = "finished" => conn[c] = "finished" /\ Stream(c)' = Stream(c)
  BY <1>2
<1>7. Stream(client)' = s \/ ~Reached(client)'
  BY <1>2 DEF Reached
<1>8. Reached(client)' => conn[client] = "open"
  BY <1>2 DEF Reached
<1>9. (pc = "body" /\ Reached(client) =>
         /\ Stream(client) # <<>> /\ Stream(client)[1] = Header(len)
         /\ Len(Stream(client)) - 1 + Len(body) = len \/ NoBody)'
  BY <1>7, <1>8 DEF s
<1>10. (pc = "close" /\ Reached(client) => Complete(Stream(client)) \/ client \in cut)'
  BY <1>7, <1>8 DEF s, Complete
<1>11. (\A c \in Clients : conn[c] = "finished" => Complete(Stream(c)) \/ c \in cut)'
  BY <1>6 DEF AnswerInv, Progress, Complete
<1>12. Progress'
  BY <1>9, <1>10, <1>11 DEF Progress
<1>. QED BY <1>3, <1>4, <1>5, <1>12 DEF AnswerInv

\* The writes of the header, of a unit of the body and of the 404.
LEMMA WriteAnswer ==
  ASSUME IInv, AnswerInv,
         \/ WriteHeader \/ WriteBody \/ WriteNotFound
         \/ WWriteHeader \/ WWriteBody \/ WWriteNotFound
  PROVE  AnswerInv'
<1>. USE DEF Goto, callVars, Send
<1>0. client \in Clients /\ Stream(client) \in Seq(Unit) /\ Begun(Stream(client)) /\ Types
  <2>1. client \in Clients
    BY DEF WriteHeader, WriteBody, WriteNotFound, WWriteHeader, WWriteBody, WWriteNotFound,
           IInv, Owned, Serving
  <2>. QED BY <2>1, StreamIsSeq DEF AnswerInv, Types
<1>1. CASE WriteHeader \/ WWriteHeader
  <2>1. /\ pc = "header" /\ pc' \in {"body", "killed"} /\ Deliver(client, Header(len))
        /\ UNCHANGED <<client, file, len, cut, body>>
    BY <1>1 DEF WriteHeader, WWriteHeader
  <2>2. /\ len \in Int /\ body \in Seq({Data, Junk}) /\ (Len(body) = len \/ NoBody)
        /\ Stream(client) = <<>> /\ Header(len) \in Unit
    BY <1>0, <2>1, UnitTypes DEF Types, AnswerInv, Progress, Silent, Unanswered
  <2>3. LET s == Append(Stream(client), Header(len)) IN
        Begun(s) /\ s # <<>> /\ s[1] = Header(len) /\ Len(s) = 1
    BY <2>2, WriteFirst
  <2>4. Len(Append(Stream(client), Header(len))) - 1 + Len(body') = len \/ NoBody'
    BY <2>1, <2>2, <2>3 DEF NoBody
  <2>. QED BY <1>0, <2>1, <2>2, <2>3, <2>4, GivenAnswer
<1>2. CASE WriteBody \/ WWriteBody
  <2>1. /\ pc = "body" /\ pc' \in {"body", "killed"} /\ Deliver(client, Head(body))
        /\ body # <<>> /\ body' = Tail(body)
        /\ UNCHANGED <<client, file, len, cut>>
    BY <1>2 DEF WriteBody, WWriteBody
  <2>2. /\ len \in Int /\ body' \in Seq({Data, Junk}) /\ Head(body) \in {Data, Junk}
        /\ Len(body') = Len(body) - 1 /\ Len(body) \in Nat /\ Len(body) > 0
    BY <1>0, <2>1 DEF Types
  <2>3. Head(body) \in Unit
    BY <2>2, UnitTypes
  <2>4. ASSUME conn[client] = "open"
        PROVE  /\ Stream(client) # <<>> /\ Stream(client)[1] = Header(len)
               /\ Len(Stream(client)) - 1 + Len(body) = len /\ Len(Stream(client)) \in Nat
    BY <1>0, <2>1, <2>4 DEF AnswerInv, Progress, Reached, NoBody
  <2>5. ASSUME conn[client] = "open"
        PROVE  LET s == Append(Stream(client), Head(body)) IN
               /\ Begun(s) /\ s # <<>> /\ s[1] = Header(len) /\ Len(s) = Len(Stream(client)) + 1
    <3>1. Len(Stream(client)) - 1 < len
      BY <2>2, <2>4, <2>5
    <3>. QED BY <1>0, <2>2, <2>4, <2>5, <3>1, WriteNext
  <2>6. ASSUME conn[client] = "open"
        PROVE  Len(Append(Stream(client), Head(body))) - 1 + Len(body') = len
    BY <2>2, <2>4, <2>5, <2>6
  <2>. QED BY <1>0, <2>1, <2>2, <2>3, <2>5, <2>6, GivenAnswer
<1>3. CASE WriteNotFound \/ WWriteNotFound
  <2>1. /\ pc = "notfound" /\ pc' \in {"close", "killed"} /\ Deliver(client, NotFound)
        /\ UNCHANGED <<client, file, len, cut, body>>
    BY <1>3 DEF WriteNotFound, WWriteNotFound
  <2>2. Stream(client) = <<>> /\ NotFound \in Unit /\ body \in Seq({Data, Junk})
    BY <1>0, <2>1, UnitTypes DEF Types, AnswerInv, Silent, Unanswered
  <2>. QED BY <1>0, <2>1, <2>2, WriteFirst, GivenAnswer
<1>. QED BY <1>1, <1>2, <1>3

LEMMA CutBegun ==
  ASSUME AnswerInv, StreamType', NEW c \in Clients, IsBeginning(Stream(c)', Stream(c))
  PROVE  Begun(Stream(c)') /\ (Stream(c) = <<>> => Stream(c)' = <<>>)
<1>1. Stream(c) \in Seq(Unit) /\ Begun(Stream(c))
  BY StreamIsSeq DEF AnswerInv, Types
<1>2. Stream(c)' \in Seq(Unit)
  BY ConcatProperties DEF StreamType, Stream
<1>3. Begun(Stream(c)')
  BY <1>1, <1>2, BegunBeginning
<1>4. Stream(c) = <<>> => Stream(c)' = <<>>
  BY <1>2 DEF IsBeginning
<1>. QED BY <1>3, <1>4

\* A step that leaves the server and what is carried alone.
LEMMA SameAnswer ==
  ASSUME IInv, AnswerInv, StreamType', UNCHANGED <<pc, client, file, len, body, cut>>,
         \A d \in Clients : /\ Stream(d)' = Stream(d)
                            /\ NotYet(d)' => NotYet(d)
                            /\ Reached(d)' => Reached(d)
                            /\ conn'[d] = "finished" => conn[d] = "finished"
  PROVE  AnswerInv'
<1>1. pc \in Unanswered \cup {"body", "close"} => client \in Clients
  BY DEF IInv, Owned, Serving, Unanswered
<1>2. Types' /\ \A c \in Clients : Begun(Stream(c))'
  BY DEF AnswerInv, Types, Begun
<1>3. Silent'
  BY <1>1 DEF AnswerInv, Silent
<1>4. Progress'
  BY <1>1 DEF AnswerInv, Progress, Complete, NoBody
<1>. QED BY <1>2, <1>3, <1>4 DEF AnswerInv

\* The steps that accept or close a connection, the cleanup of Windows, and the
\* steps of the clients.
LEMMA ConnAnswer ==
  ASSUME IInv, AnswerInv,
         Accept \/ Close \/ WReturn \/ \E c \in Clients : ClientStep(c)
  PROVE  AnswerInv'
<1>. USE DEF Goto, callVars
<1>0. ConnType /\ StreamType /\ Types
  BY DEF IInv, AnswerInv, Types
<1>1. CASE Accept
  <2>1. PICK c \in Clients : Admit(c) /\ client' = c
    BY <1>1 DEF Accept
  <2>2. /\ UNCHANGED <<wire, seen, file, len, body, cut>> /\ pc' = "read"
        /\ conn[c] \in {"queued", "queued_hungup"} /\ conn'[c] \in {"open", "hungup"}
        /\ \A d \in Clients \ {c} : conn'[d] = conn[d]
    BY <1>0, <1>1, <2>1 DEF Accept, Admit, Pending, ConnType
  <2>3. StreamType' /\ \A d \in Clients : Stream(d)' = Stream(d)
    BY <1>0, <2>2, StreamFrame
  <2>4. Stream(client)' = <<>>
    BY <2>1, <2>2, <2>3 DEF AnswerInv, Silent, NotYet, Stream
  <2>5. Silent'
    BY <2>2, <2>3, <2>4 DEF AnswerInv, Silent, NotYet
  <2>6. Progress'
    BY <2>2, <2>3 DEF AnswerInv, Progress, Complete
  <2>. QED BY <1>0, <2>2, <2>3, <2>5, <2>6 DEF AnswerInv, Types, Begun
<1>2. CASE Close
  <2>1. PICK c \in Clients : client = c
    BY <1>2 DEF Close, IInv, Owned, Serving
  <2>2. /\ pc = "close" /\ pc' = "check" /\ CloseConn(c)
        /\ body' = <<>> /\ UNCHANGED <<file, cut>>
    BY <1>2, <2>1 DEF Close
  <2>3. /\ StreamType'
        /\ \A d \in Clients \ {c} : Stream(d)' = Stream(d) /\ conn'[d] = conn[d]
        /\ \/ Reached(c) /\ conn'[c] = "finished" /\ Stream(c)' = Stream(c)
           \/ conn'[c] = "broken" /\ IsBeginning(Stream(c)', Stream(c))
    BY <1>0, <2>2, CloseStream
  <2>4. IsBeginning(Stream(c)', Stream(c)) => Begun(Stream(c)')
    BY <2>3, CutBegun
  <2>5. \A d \in Clients : Begun(Stream(d))'
    BY <2>3, <2>4 DEF AnswerInv, Begun
  <2>6. Types' /\ Silent'
    BY <1>0, <2>2, <2>3 DEF Types, AnswerInv, Silent, NotYet, Unanswered
  <2>7. ASSUME Reached(c) PROVE Complete(Stream(c)) \/ c \in cut
    BY <2>1, <2>2, <2>7 DEF AnswerInv, Progress
  <2>8. Progress'
    BY <2>2, <2>3, <2>7 DEF AnswerInv, Progress, Complete
  <2>. QED BY <2>5, <2>6, <2>8 DEF AnswerInv
<1>3. CASE WReturn
  <2>1. /\ UNCHANGED <<wire, seen, file, body, cut>> /\ pc' = "idle"
        /\ conn' = [c \in Clients |-> IF Pending(c) THEN "broken" ELSE conn[c]]
    BY <1>3 DEF WReturn, Cleanup
  <2>2. StreamType' /\ \A c \in Clients : Stream(c)' = Stream(c)
    BY <1>0, <2>1, StreamFrame
  <2>3. Types' /\ Silent' /\ Progress'
    BY <1>0, <2>1, <2>2 DEF Types, AnswerInv, Silent, Progress, NotYet, Unanswered, Complete
  <2>. QED BY <2>2, <2>3 DEF AnswerInv, Begun
<1>4. CASE \E c \in Clients : ClientStep(c)
  <2>0. PICK c \in Clients : ClientStep(c)
    BY <1>4
  <2>1. UNCHANGED <<pc, client, file, len, body, cut>>
    BY <2>0 DEF ClientStep, serverVars, callVars
  <2>2. CASE Connect(c) \/ SendRequest(c) \/ TakeUnit(c)
    <3>1. /\ StreamType' /\ \A d \in Clients : Stream(d)' = Stream(d)
      BY <1>0, <2>2, TakeStream, StreamFrame DEF Connect, SendRequest
    <3>2. \A d \in Clients : /\ NotYet(d)' => NotYet(d)
                             /\ Reached(d)' => Reached(d)
                             /\ conn'[d] = "finished" => conn[d] = "finished"
      BY <1>0, <2>2, TakeStream DEF Connect, SendRequest, ConnType, NotYet, Reached
    <3>. QED BY <2>1, <3>1, <3>2, SameAnswer
  <2>3. CASE HangUp(c)
    <3>1. /\ StreamType'
          /\ \A d \in Clients \ {c} : Stream(d)' = Stream(d) /\ conn'[d] = conn[d]
          /\ IsBeginning(Stream(c)', Stream(c))
          /\ \/ conn[c] = "queued" /\ conn'[c] = "queued_hungup"
             \/ conn[c] = "open" /\ conn'[c] \in {"hungup", "aborted"}
      BY <1>0, <2>3, HangUpStream
    <3>2. Begun(Stream(c)')
      BY <3>1, CutBegun
    <3>3. \A d \in Clients : Begun(Stream(d))'
      BY <3>1, <3>2 DEF AnswerInv, Begun
    <3>4. Stream(c) = <<>> => Stream(c)' = <<>>
      BY <3>1, CutBegun
    <3>5. Silent'
      <4>1. pc \in Unanswered => client \in Clients
        BY DEF IInv, Owned, Serving, Unanswered
      <4>. QED BY <2>1, <3>1, <3>4, <4>1 DEF AnswerInv, Silent, NotYet
    <3>6. Progress'
      <4>1. pc \in {"body", "close"} => client \in Clients
        BY DEF IInv, Owned, Serving
      <4>. QED BY <2>1, <3>1, <4>1 DEF AnswerInv, Progress, Reached, Complete, NoBody
    <3>. QED BY <1>0, <2>1, <3>1, <3>3, <3>5, <3>6 DEF AnswerInv, Types
  <2>. QED BY <2>0, <2>2, <2>3 DEF ClientStep
<1>. QED BY <1>1, <1>2, <1>3, <1>4

LEMMA StutterAnswer == ASSUME IInv, AnswerInv, UNCHANGED vars PROVE AnswerInv'
<1>1. StreamType' /\ \A c \in Clients : Stream(c)' = Stream(c)
  BY StreamFrame DEF AnswerInv, Types, vars, peerVars
<1>. QED BY <1>1, SameAnswer DEF vars, serverVars, callVars, peerVars, NotYet, Reached

LEMMA StepAnswer == IInv /\ AnswerInv /\ [Next]_vars => AnswerInv'
<1>. SUFFICES ASSUME IInv, AnswerInv, [Next]_vars PROVE AnswerInv'
  OBVIOUS
<1>1. CASE \/ Call \/ Setup \/ Announce \/ AcceptFails \/ ReadRequest \/ OpenFile \/ Size
           \/ Fill \/ BodyWritten \/ Check \/ Sigint \/ Waiting \/ FileStep
  BY <1>1, QuietAnswer
<1>2. CASE WriteHeader \/ WriteBody \/ WriteNotFound
  BY <1>2, WriteAnswer
<1>3. CASE Accept \/ Close \/ \E c \in Clients : ClientStep(c)
  BY <1>3, ConnAnswer
<1>. QED BY <1>1, <1>2, <1>3, StutterAnswer DEF Next, ServerStep

LEMMA WStepAnswer == IInv /\ AnswerInv /\ [WNext]_allVars => AnswerInv'
<1>. SUFFICES ASSUME IInv, AnswerInv, [WNext]_allVars PROVE AnswerInv'
  OBVIOUS
<1>1. CASE Next \/ UNCHANGED vars
  BY <1>1, StepAnswer
<1>2. CASE \/ WCall \/ WSetup \/ WAnnounce \/ WAcceptFails \/ WReadRequest \/ WOpenFile
           \/ WSize \/ WFill \/ WBodyWritten \/ WCheck \/ WSigint \/ Waiting \/ FileStep
  BY <1>2, QuietAnswer DEF WCall, WAnnounce, WAcceptFails, WReadRequest, WOpenFile, WSize,
                           WFill, WBodyWritten
<1>3. CASE WWriteHeader \/ WWriteBody \/ WWriteNotFound
  BY <1>3, WriteAnswer
<1>4. CASE WAccept \/ WClose \/ WReturn \/ \E c \in Clients : ClientStep(c)
  BY <1>4, ConnAnswer DEF WAccept, WClose
<1>. QED BY <1>1, <1>2, <1>3, <1>4 DEF WNext, WServerStep, allVars

LEMMA AnswerMeans == AnswerInv => ResponseShape /\ CompleteUnlessCut
<1>. SUFFICES ASSUME AnswerInv PROVE ResponseShape /\ CompleteUnlessCut
  OBVIOUS
<1>1. \A c \in Clients : Response(c) = Stream(c) /\ Begun(Stream(c))
  BY BegunIsResponse DEF AnswerInv
<1>2. \A c \in Clients : Begun(Response(c))
  BY <1>1 DEF Begun
<1>3. ResponseShape
  BY <1>2 DEF ResponseShape, Begun
<1>4. CompleteUnlessCut
  BY <1>1 DEF AnswerInv, Progress, CompleteUnlessCut
<1>. QED BY <1>3, <1>4

\* Whatever fails, and whatever the file, the clients and the signals do, a client
\* gets nothing but the beginning of one response, and the whole of it unless a signal
\* came into the write of this very body or there was no block for it.
THEOREM Responses == Spec => [](ResponseShape /\ CompleteUnlessCut)
<1>1. Spec => [](IInv /\ AnswerInv)
  BY InitIInv, StepIInv, InitAnswer, StepAnswer, PTL DEF Spec
<1>. QED BY <1>1, AnswerMeans, PTL

\* The same in every build.
THEOREM WResponses == WSpec => [](ResponseShape /\ CompleteUnlessCut)
<1>1. WInit => AnswerInv
  BY InitAnswer DEF WInit
<1>2. WSpec => [](IInv /\ Released /\ AnswerInv)
  BY <1>1, WInitIInv, WStepIInv, WStepAnswer, PTL DEF WSpec
<1>. QED BY <1>2, AnswerMeans, PTL
=============================================================================
