------------------------- MODULE HttpsServerProofs -------------------------
(***************************************************************************)
(* Theorems about HttpsServer and HttpsServerWindows, for any clients,     *)
(* files, failures, sizes of the buffers and number of signals, and for    *)
(* both builds.                                                            *)
(***************************************************************************)
EXTENDS HttpsServerWindows, PeersProofs

Ending    == {"shutdown", "peer_close", "close"}
InSession == {"session", "read", "open", "notfound", "error"} \cup Ending
Serving   == InSession \cup {"new", "size", "fill", "header", "body"}
Base      == {"ctx", "server_fd"}

\* What is held at each point of the function.
HeldAt ==
  /\ pc = "start" => held = {}
  /\ pc \in {"announce", "accept", "check"} => held = Base
  /\ pc = "new" => held = Base \cup {"client"}
  /\ pc \in InSession => held = Base \cup {"client", "ssl"}
  /\ pc = "size" => held = Base \cup {"client", "ssl", "file"}
  /\ pc = "fill" => held = Base \cup {"client", "ssl", "file", "body"}
  /\ pc \in {"header", "body"} => held = Base \cup {"client", "ssl", "body"}

\* From the response on, outcome is the exit that the iteration takes.
OutcomeAt ==
  /\ pc = "error" => outcome \in Errors
  /\ pc = "notfound" => outcome = "notfound"
  /\ pc \in Ending => outcome \in Errors \cup {"notfound", "served"}

\* A live connection is the one in the local variable client.
Owned ==
  /\ pc \in Serving => client \in Clients
  /\ \A c \in Clients : conn[c] \in Live => c = client /\ pc \in Serving \cup {"killed"}

\* The flag stays FALSE, so after the one late connection the loop ends.
LateBound ==
  /\ late \in {0, 1}
  /\ late = 1 => ~running /\ pc \notin {"start", "announce", "accept"}

IInv ==
  /\ ConnType /\ pc \in Labels /\ running \in BOOLEAN
  /\ HeldAt /\ ReturnReleases /\ OutcomeAt /\ Owned /\ LateBound

\* The cleanups at the ends of an iteration, read off the tables: what each of them frees
\* is what was acquired since the accept, and the ones of the oneshot build that stop
\* there free the rest, but for the server socket at two of them.
LEMMA ExitFrees ==
  /\ Frees["accept"] = {} /\ Frees["new"] = {"client"}
  /\ \A e \in {"set_fd", "handshake", "notfound", "served"} \cup Errors :
       e \in Exits /\ Frees[e] = {"client", "ssl"}
  /\ {"accept", "new"} \subseteq Exits
BY DEF Frees, Exits, Errors

LEMMA ExitEnds ==
  ASSUME NEW e \in Exits, e # "served"
  PROVE  /\ Ends[e] = IF e \in {"handshake", "notfound"} THEN {"ctx"} ELSE Base
         /\ WEnds[e] = Base \cup {"wsa"}
BY DEF Ends, WEnds, Exits, Frees, Base

LEMMA ExitDisjoint == \A e \in Exits : Frees[e] \cap Base = {}
BY DEF Frees, Exits, Base

\* An exit that is left holding what it frees besides the context and the socket.
LEMMA LeaveHeld ==
  ASSUME NEW e \in Exits, held = Base \cup Frees[e], Leave(e)
  PROVE  /\ outcome' = e
         /\ \/ pc' = "check" /\ held' = Base
            \/ pc' = "returned" /\ ReturnReleases'
<1>1. CASE Oneshot /\ e # "served"
  <2>1. held' \subseteq IF e \in {"handshake", "notfound"} THEN {"server_fd"} ELSE {}
    BY <1>1, ExitEnds DEF Leave, LeaveFunction, Base
  <2>. QED BY <1>1, <2>1 DEF Leave, LeaveFunction, Goto, ReturnReleases, Forgets
<1>2. CASE ~(Oneshot /\ e # "served")
  BY <1>2, ExitDisjoint DEF Leave, LeaveIteration, Goto
<1>. QED BY <1>1, <1>2

LEMMA WLeaveHeld ==
  ASSUME NEW e \in Exits, held = Base \cup Frees[e], WLeave(e)
  PROVE  /\ outcome' = e
         /\ \/ pc' = "check" /\ held' = Base
            \/ pc' = "returned" /\ held' = {} /\ ~wsa'
<1>1. CASE Oneshot /\ e # "served"
  <2>1. held' = {} /\ ~wsa'
    BY <1>1, ExitEnds DEF WLeave, LeaveFunction, Base
  <2>. QED BY <1>1, <2>1 DEF WLeave, LeaveFunction, Goto
<1>2. CASE ~(Oneshot /\ e # "served")
  BY <1>2, ExitDisjoint DEF WLeave, LeaveIteration, Goto
<1>. QED BY <1>1, <1>2

\* What an exit preserves, in both programs, once no connection is live any more.
LEMMA LeaveIInv ==
  ASSUME IInv, NEW e \in Exits, held = Base \cup Frees[e], Leave(e) \/ WLeave(e),
         ConnType', \A c \in Clients : conn'[c] \notin Live,
         late' = late, running' = running \/ running' = FALSE
  PROVE  IInv'
<1>1. \/ pc' = "check" /\ held' = Base
      \/ pc' = "returned" /\ ReturnReleases'
  <2>1. CASE Leave(e)
    BY <2>1, LeaveHeld
  <2>2. CASE WLeave(e)
    BY <2>2, WLeaveHeld DEF ReturnReleases
  <2>. QED BY <2>1, <2>2
<1>2. ReturnReleases'
  BY <1>1 DEF ReturnReleases
<1>3. running' \in BOOLEAN /\ (~running => ~running')
  <2>1. running \in BOOLEAN
    BY DEF IInv
  <2>2. CASE running' = running
    BY <2>1, <2>2, Zenon
  <2>3. CASE running' = FALSE
    BY <2>3, Zenon
  <2>. QED BY <2>2, <2>3
<1>. QED BY <1>1, <1>2, <1>3
         DEF IInv, HeldAt, OutcomeAt, Owned, LateBound, Labels, Serving, InSession, Ending

LEMMA InitIInv == Init => IInv
<1>. SUFFICES ASSUME Init PROVE IInv
  OBVIOUS
<1>1. \A c \in Clients : conn[c] = "none"
  BY DEF Init, PeersInit
<1>2. ConnType
  BY LiveStates DEF Init, PeersInit, ConnType, ConnStates
<1>. QED BY <1>1, <1>2, LiveStates
         DEF Init, IInv, Owned, LateBound, HeldAt, OutcomeAt, ReturnReleases, Labels, Serving,
             InSession, Ending

\* The exits before the loop.
LEMMA StartHeld ==
  ASSUME Start, pc' = "returned"
  PROVE  ReturnReleases'
<1>1. PICK f \in Startups : /\ held' = AcquiredBefore(f) \ StartFrees[f]
                            /\ outcome' = f
  BY DEF Start, Goto
<1>2. held' \subseteq IF f \in {"bind", "listen"} THEN {"server_fd"} ELSE {}
  BY <1>1 DEF AcquiredBefore, StartFrees, Startups
<1>. QED BY <1>1, <1>2 DEF ReturnReleases, Forgets

LEMMA WStartHeld ==
  ASSUME WStart, pc' = "returned"
  PROVE  held' = {} /\ ~wsa'
<1>1. PICK f \in {"wsa"} \cup (Startups \ {"sigaction"}) :
        /\ held' = AcquiredBefore(f) \ WStartFrees[f]
        /\ wsa' = (f # "wsa" /\ "wsa" \notin WStartFrees[f])
  BY DEF WStart, Goto
<1>2. \A g \in Startups \ {"sigaction"} : /\ "wsa" \in WStartFrees[g]
                                         /\ AcquiredBefore(g) \subseteq WStartFrees[g]
  BY DEF AcquiredBefore, WStartFrees, Startups
<1>3. AcquiredBefore("wsa") = {}
  BY DEF AcquiredBefore
<1>4. f = "wsa" \/ "wsa" \in WStartFrees[f]
  BY <1>2
<1>5. ~wsa'
  BY <1>1, <1>4, Zenon
<1>6. held' = {}
  BY <1>1, <1>2, <1>3
<1>. QED BY <1>5, <1>6

\* The steps that leave the connections alone.
LEMMA QuietSteps ==
  ASSUME IInv,
         \/ Start \/ Announce \/ AcceptFails \/ NewSession \/ OpenSession \/ ReadSome \/ ReadEnds
         \/ OpenFile \/ Size \/ Fill \/ BodyWritten \/ AwaitPeer \/ Check \/ Waiting \/ FileStep
  PROVE  IInv'
<1>. USE DEF IInv, Owned, LateBound, Serving, InSession, Ending, Labels, HeldAt, OutcomeAt, Base
<1>1. ConnType' /\ conn' = conn
  BY DEF Start, Announce, AcceptFails, NewSession, OpenSession, ReadSome, ReadEnds, OpenFile,
         Size, Fill, BodyWritten, AwaitPeer, Check, Waiting, FileStep, ConnType, peerVars, vars
<1>2. CASE Start
  <2>1. pc' \in {"announce", "returned"} /\ UNCHANGED <<late, running, client>>
    BY <1>2 DEF Start, Goto
  <2>2. ReturnReleases' /\ (pc' = "announce" => held' = Base)
    BY <1>2, <2>1, StartHeld DEF Start, Goto, ReturnReleases
  <2>. QED BY <1>1, <1>2, <2>1, <2>2 DEF Start
<1>3. CASE Announce
  BY <1>1, <1>3 DEF Announce, Goto, loopVars, ReturnReleases
<1>4. CASE AcceptFails
  <2>1. held = Base \cup Frees["accept"] /\ "accept" \in Exits
    BY <1>4, ExitFrees DEF AcceptFails
  <2>. QED BY <1>1, <1>4, <2>1, LeaveIInv DEF AcceptFails
<1>5. CASE NewSession \/ OpenSession
  BY <1>1, <1>5 DEF NewSession, OpenSession, Goto, loopVars, ReturnReleases
<1>6. CASE ReadSome
  <2>1. pc = "read" /\ pc' \in {"open", "read"} /\ UNCHANGED <<held, client, late, running>>
    BY <1>6 DEF ReadSome, Goto, loopVars
  <2>. QED BY <1>1, <2>1 DEF ReturnReleases
<1>7. CASE ReadEnds
  BY <1>1, <1>7 DEF ReadEnds, Goto, loopVars, ReturnReleases
<1>8. CASE OpenFile
  BY <1>1, <1>8 DEF OpenFile, Goto, loopVars, ReturnReleases
<1>9. CASE Size
  <2>1. /\ pc = "size" /\ UNCHANGED <<late, running, client>>
        /\ \/ pc' = "fill" /\ held' = held \cup {"body"}
           \/ pc' = "error" /\ held' = held \ {"file"} /\ outcome' \in Errors
    BY <1>9 DEF Size, ToError, Goto, loopVars, Errors
  <2>. QED BY <1>1, <2>1 DEF ReturnReleases
<1>10. CASE Fill
  <2>1. /\ pc = "fill" /\ UNCHANGED <<late, running, client>>
        /\ \/ pc' = "header" /\ held' = held \ {"file"}
           \/ pc' = "error" /\ held' = held \ {"body", "file"} /\ outcome' \in Errors
    BY <1>10 DEF Fill, ToError, Goto, loopVars, Errors
  <2>. QED BY <1>1, <2>1 DEF ReturnReleases
<1>11. CASE BodyWritten
  BY <1>1, <1>11 DEF BodyWritten, Goto, loopVars, ReturnReleases
<1>12. CASE AwaitPeer
  BY <1>1, <1>12 DEF AwaitPeer, Goto, loopVars, ReturnReleases
<1>13. CASE Check
  BY <1>1, <1>13 DEF Check, Again, Cleaned, Goto, ReturnReleases
<1>14. CASE Waiting
  BY <1>1, <1>14 DEF Waiting, vars, serverVars, loopVars, ReturnReleases
<1>15. CASE FileStep
  BY <1>1, <1>15 DEF FileStep, serverVars, loopVars, ReturnReleases
<1>. QED BY <1>2, <1>3, <1>4, <1>5, <1>6, <1>7, <1>8, <1>9, <1>10, <1>11, <1>12, <1>13, <1>14, <1>15

\* A connection that is given up is the only one that was live.
LEMMA DropConn ==
  ASSUME IInv, pc \in {"new", "session"}, Drop
  PROVE  ConnType' /\ \A c \in Clients : conn'[c] \notin Live
<1>1. client \in Clients /\ \A c \in Clients \ {client} : conn[c] \notin Live
  BY DEF IInv, Owned, Serving, InSession
<1>2. conn' = [conn EXCEPT ![client] = "broken"] /\ conn \in [Clients -> ConnStates]
  BY DEF Drop, IInv, ConnType
<1>. QED BY <1>1, <1>2, LiveStates DEF ConnType, ConnStates

\* The session is not opened.
LEMMA SessionFailsHeld ==
  ASSUME IInv, SessionFails \/ WSessionFails
  PROVE  \E e \in Exits : held = Base \cup Frees[e] /\ (Leave(e) \/ WLeave(e))
<1>1. \/ pc = "new" /\ (Leave("new") \/ WLeave("new"))
      \/ pc = "session" /\ \E e \in {"set_fd", "handshake"} : Leave(e) \/ WLeave(e)
  BY DEF SessionFails, WSessionFails
<1>2. /\ pc = "new" => held = Base \cup Frees["new"]
      /\ pc = "session" => \A e \in {"set_fd", "handshake"} : held = Base \cup Frees[e]
  BY ExitFrees DEF IInv, HeldAt, InSession
<1>3. {"new", "set_fd", "handshake"} \subseteq Exits
  BY ExitFrees
<1>. QED BY <1>1, <1>2, <1>3

\* A signal.
LEMMA SigintStep == ASSUME IInv, Sigint PROVE IInv'
<1>. USE DEF IInv, Owned, LateBound, Serving, InSession, Ending, Labels, HeldAt, OutcomeAt, Base
<1>0. late' = late /\ running' = FALSE
  BY DEF Sigint
<1>1. CASE UNCHANGED <<pc, held, result, client, outcome, peerVars>>
  <2>1. ConnType' /\ pc' \in Labels
    BY <1>1 DEF peerVars, ConnType
  <2>2. HeldAt' /\ OutcomeAt'
    BY <1>1
  <2>3. ReturnReleases'
    BY <1>1 DEF ReturnReleases
  <2>4. Owned' /\ LateBound'
    BY <1>0, <1>1 DEF peerVars
  <2>. QED BY <1>0, <2>1, <2>2, <2>3, <2>4, Zenon DEF IInv
<1>2. CASE AcceptBlocks /\ Leave("accept") /\ UNCHANGED <<client, peerVars>>
  <2>1. held = Base \cup Frees["accept"] /\ "accept" \in Exits /\ pc = "accept"
    BY <1>2, ExitFrees DEF AcceptBlocks
  <2>2. ConnType' /\ \A c \in Clients : conn'[c] \notin Live
    BY <1>2, <2>1 DEF peerVars, ConnType
  <2>. QED BY <1>0, <1>2, <2>1, <2>2, LeaveIInv
<1>3. CASE pc = "session" /\ Leave("handshake") /\ Drop
  <2>1. ConnType' /\ \A c \in Clients : conn'[c] \notin Live
    BY <1>3, DropConn
  <2>2. held = Base \cup Frees["handshake"] /\ "handshake" \in Exits
    BY <1>3, ExitFrees
  <2>. QED BY <1>0, <1>3, <2>1, <2>2, LeaveIInv
<1>4. CASE /\ ShutdownBlocks /\ Goto("close")
           /\ UNCHANGED <<held, result, client, outcome, peerVars>>
  BY <1>4 DEF Sigint, ShutdownBlocks, Goto, peerVars, ConnType, ReturnReleases
<1>. QED BY <1>1, <1>2, <1>3, <1>4 DEF Sigint

\* The end of an iteration, in both programs.
LEMMA CloseStep == ASSUME IInv, Close \/ WClose PROVE IInv'
<1>1. /\ pc = "close" /\ client \in Clients /\ CloseConn(client)
      /\ Leave(outcome) \/ WLeave(outcome)
      /\ UNCHANGED <<late, running>>
  BY DEF Close, WClose, IInv, Owned, Serving, InSession, Ending
<1>2. ConnType' /\ \A d \in Clients : conn'[d] \notin Live
  BY <1>1, CloseConnConn DEF IInv, Owned
<1>3. outcome \in Exits /\ held = Base \cup Frees[outcome]
  BY <1>1, ExitFrees DEF IInv, OutcomeAt, HeldAt, InSession, Ending
<1>. QED BY <1>1, <1>2, <1>3, LeaveIInv

\* The steps that accept, write to or close a connection, and those of clients.
LEMMA ConnSteps ==
  ASSUME IInv,
         \/ Accept \/ SessionFails \/ Respond \/ WriteBody \/ Close
         \/ \E c \in Clients : ClientStep(c)
  PROVE  IInv'
<1>. USE DEF IInv, Owned, LateBound, Serving, InSession, Ending, Labels, HeldAt, OutcomeAt, Base
<1>1. CASE Accept
  <2>1. PICK c \in Clients : Admit(c) /\ client' = c
    BY <1>1 DEF Accept
  <2>2. ConnType' /\ \A d \in Clients \ {c} : conn'[d] = conn[d]
    BY <2>1, AdmitConn
  <2>3. \A d \in Clients : conn[d] \notin Live
    BY <1>1 DEF Accept
  <2>. QED BY <1>1, <2>1, <2>2, <2>3 DEF Accept, Goto, ReturnReleases
<1>2. CASE SessionFails
  <2>1. ConnType' /\ \A c \in Clients : conn'[c] \notin Live
    BY <1>2, DropConn DEF SessionFails
  <2>. QED BY <1>2, <2>1, SessionFailsHeld, LeaveIInv DEF SessionFails
<1>3. CASE Respond \/ WriteBody
  <2>1. client \in Clients /\ \E u : Deliver(client, u)
    BY <1>3 DEF Respond, WriteBody, Write
  <2>2. ConnType' /\ \A d \in Clients : conn'[d] \in Live <=> conn[d] \in Live
    BY <2>1, DeliverConn
  <2>3. UNCHANGED <<client, late, running, held, outcome>>
    BY <1>3 DEF Respond, WriteBody, loopVars
  <2>4. \/ pc' = "killed"
        \/ pc \in {"notfound", "error"} /\ pc' = "shutdown"
        \/ pc = "shutdown" /\ pc' = "peer_close"
        \/ pc \in {"header", "body"} /\ pc' = "body"
    BY <1>3 DEF Respond, WriteBody, Write, Goto
  <2>. QED BY <2>1, <2>2, <2>3, <2>4 DEF ReturnReleases
<1>4. CASE Close
  BY <1>4, CloseStep
<1>5. CASE \E c \in Clients : ClientStep(c)
  <2>1. ConnType' /\ \A d \in Clients : conn'[d] \in Live <=> conn[d] \in Live
    BY <1>5, ClientConn DEF ClientStep
  <2>2. UNCHANGED <<pc, client, late, running, held, outcome>>
    BY <1>5 DEF ClientStep, serverVars, loopVars
  <2>. QED BY <2>1, <2>2 DEF ReturnReleases
<1>. QED BY <1>1, <1>2, <1>3, <1>4, <1>5

LEMMA StepIInv == IInv /\ [Next]_vars => IInv'
<1>1. ASSUME IInv, UNCHANGED vars PROVE IInv'
  BY <1>1 DEF vars, serverVars, loopVars, peerVars, IInv, ConnType, Owned, LateBound, HeldAt,
              OutcomeAt, ReturnReleases
<1>. QED BY <1>1, QuietSteps, SigintStep, ConnSteps DEF Next, ServerStep

THEOREM Invariance == Spec => []IInv
BY InitIInv, StepIInv, PTL DEF Spec

\* Between two connections the server holds its context and its socket and
\* nothing else, whichever of the eleven cleanups ended the one before.
THEOREM Releases == Spec => []IterationReleases
<1>1. IInv => IterationReleases
  BY DEF IInv, HeldAt, Base, IterationReleases
<1>. QED BY <1>1, Invariance, PTL

\* Whatever failed, in both builds, a return leaves nothing but the server socket, and
\* that only where bind or listen failed and, in the oneshot build, after a failed
\* handshake and a 404.
THEOREM ReturnsRelease == Spec => []ReturnReleases
<1>1. IInv => ReturnReleases
  BY DEF IInv
<1>. QED BY <1>1, Invariance, PTL

\* In both builds, at most one connection is accepted after a signal.
THEOREM OneMore == Spec => []AtMostOneMore
<1>1. IInv => AtMostOneMore
  BY DEF IInv, LateBound, AtMostOneMore
<1>. QED BY <1>1, Invariance, PTL

\* In both builds, no path leaves a connection open.
THEOREM NoneLeft == Spec => []NoConnectionLeft
<1>1. IInv => NoConnectionLeft
  BY DEF IInv, Owned, Serving, InSession, Ending, NoConnectionLeft
<1>. QED BY <1>1, Invariance, PTL
-----------------------------------------------------------------------------
(* The program for Windows *)

\* Winsock is not started before the function starts it, and a return has freed
\* everything.
Released ==
  windows =>
    /\ pc = "start" => ~wsa
    /\ pc = "returned" => held = {} /\ ~wsa

LEMMA WInitIInv == WInit => IInv /\ Released
<1>. SUFFICES ASSUME WInit PROVE IInv /\ Released
  OBVIOUS
<1>1. IInv
  BY InitIInv DEF WInit
<1>2. pc = "start" /\ wsa = FALSE
  BY DEF WInit, Init
<1>. QED BY <1>1, <1>2 DEF Released

\* The steps of Windows that a step of the Unix program is too.
LEMMA SameSteps ==
  ASSUME IInv,
         \/ WAnnounce \/ WAccept \/ WNewSession \/ WOpenSession \/ WReadSome \/ WReadEnds
         \/ WOpenFile \/ WSize \/ WFill \/ WBodyWritten \/ WAwaitPeer \/ WCheck
         \/ \E c \in Clients : ClientStep(c)
         \/ FileStep \/ Waiting
  PROVE  IInv'
BY QuietSteps, ConnSteps
   DEF WAnnounce, WAccept, WNewSession, WOpenSession, WReadSome, WReadEnds,
                           WOpenFile, WSize, WFill, WBodyWritten, WAwaitPeer, WCheck

\* The steps of Windows that differ and leave the connections alone.
LEMMA WindowsQuietSteps == ASSUME IInv, WStart \/ WAcceptFails \/ WSigint PROVE IInv'
<1>. USE DEF IInv, Owned, LateBound, Serving, InSession, Ending, Labels, HeldAt, OutcomeAt, Base
<1>1. CASE WStart
  <2>1. ConnType' /\ conn' = conn
    BY <1>1 DEF WStart, peerVars, ConnType
  <2>2. pc' \in {"announce", "returned"} /\ UNCHANGED <<late, running, client>> /\ pc = "start"
    BY <1>1 DEF WStart, Goto
  <2>3. ReturnReleases' /\ (pc' = "announce" => held' = Base)
    BY <1>1, <2>2, WStartHeld DEF WStart, Goto, ReturnReleases
  <2>. QED BY <2>1, <2>2, <2>3
<1>2. CASE WAcceptFails
  <2>1. held = Base \cup Frees["accept"] /\ "accept" \in Exits
    BY <1>2, ExitFrees DEF WAcceptFails
  <2>2. ConnType' /\ \A c \in Clients : conn'[c] \notin Live
    BY <1>2 DEF WAcceptFails, peerVars, ConnType
  <2>. QED BY <1>2, <2>1, <2>2, LeaveIInv DEF WAcceptFails
<1>3. CASE WSigint
  <2>1. ConnType' /\ conn' = conn
    BY <1>3 DEF WSigint, peerVars, ConnType
  <2>2. UNCHANGED <<held, client, late, outcome>>
    BY <1>3 DEF WSigint
  <2>3. \/ running' = FALSE /\ pc' = pc
        \/ running' = running /\ pc' = "killed"
    BY <1>3 DEF WSigint, Goto
  <2>4. running' \in BOOLEAN /\ (~running => ~running')
    <3>1. running \in BOOLEAN
      OBVIOUS
    <3>2. CASE running' = FALSE
      BY <3>2, Zenon
    <3>3. CASE running' = running
      BY <3>1, <3>3, Zenon
    <3>. QED BY <2>3, <3>2, <3>3
  <2>5. pc' \in {pc, "killed"}
    BY <2>3
  <2>6. Owned' /\ HeldAt' /\ OutcomeAt' /\ ReturnReleases'
    BY <2>1, <2>2, <2>5 DEF ReturnReleases
  <2>7. LateBound' /\ pc' \in Labels
    BY <2>2, <2>4, <2>5
  <2>. QED BY <2>1, <2>4, <2>6, <2>7
<1>. QED BY <1>1, <1>2, <1>3

\* Those that write to, give up or close a connection.
LEMMA WindowsConnSteps ==
  ASSUME IInv, WSessionFails \/ WRespond \/ WWriteBody \/ WClose
  PROVE  IInv'
<1>. USE DEF IInv, Owned, LateBound, Serving, InSession, Ending, Labels, HeldAt, OutcomeAt, Base
<1>1. CASE WSessionFails
  <2>1. ConnType' /\ \A c \in Clients : conn'[c] \notin Live
    BY <1>1, DropConn DEF WSessionFails
  <2>. QED BY <1>1, <2>1, SessionFailsHeld, LeaveIInv DEF WSessionFails
<1>2. CASE WRespond \/ WWriteBody
  <2>1. client \in Clients /\ \E u : Deliver(client, u)
    BY <1>2 DEF WRespond, WWriteBody, WWrite
  <2>2. ConnType' /\ \A d \in Clients : conn'[d] \in Live <=> conn[d] \in Live
    BY <2>1, DeliverConn
  <2>3. UNCHANGED <<client, late, running, held, outcome>>
    BY <1>2 DEF WRespond, WWriteBody, loopVars
  <2>4. \/ pc \in {"notfound", "error"} /\ pc' = "shutdown"
        \/ pc = "shutdown" /\ pc' = "peer_close"
        \/ pc \in {"header", "body"} /\ pc' = "body"
    BY <1>2 DEF WRespond, WWriteBody, WWrite, Goto
  <2>. QED BY <2>1, <2>2, <2>3, <2>4 DEF ReturnReleases
<1>3. CASE WClose
  BY <1>3, CloseStep
<1>. QED BY <1>1, <1>2, <1>3

\* The steps inside the function that do not return.
LEMMA InnerSteps ==
  ASSUME Released,
         \/ WAnnounce \/ WAccept \/ WNewSession \/ WOpenSession \/ WReadSome \/ WReadEnds
         \/ WOpenFile \/ WSize \/ WFill \/ WRespond \/ WWriteBody \/ WBodyWritten \/ WAwaitPeer
         \/ WSigint
  PROVE  Released'
<1>1. pc' \notin {"start", "returned"}
  BY DEF WAnnounce, WAccept, WNewSession, WOpenSession, WReadSome, WReadEnds,
                           WOpenFile, WSize, WFill, WRespond, WWriteBody, WBodyWritten, WAwaitPeer, WSigint, Announce, Accept,
         NewSession, OpenSession, ReadSome, ReadEnds, OpenFile, Size, Fill, BodyWritten,
         AwaitPeer, ToError, WWrite, Goto
<1>. QED BY <1>1 DEF Released

\* The steps that may return, and those of the clients and the file.
LEMMA OuterSteps ==
  ASSUME IInv, Released, windows,
         \/ WStart \/ WAcceptFails \/ WSessionFails \/ WClose \/ WCheck
         \/ ((\E c \in Clients : ClientStep(c)) \/ FileStep \/ Waiting) /\ UNCHANGED winVars
  PROVE  Released'
<1>. USE DEF Released
<1>1. CASE WStart
  BY <1>1, WStartHeld DEF WStart, Goto
<1>2. CASE WAcceptFails \/ WSessionFails \/ WClose
  <2>1. CASE WAcceptFails
    <3>1. held = Base \cup Frees["accept"] /\ "accept" \in Exits /\ WLeave("accept")
      BY <2>1, ExitFrees DEF WAcceptFails, IInv, HeldAt
    <3>. QED BY <3>1, WLeaveHeld
  <2>2. CASE WSessionFails
    <3>1. \/ pc = "new" /\ WLeave("new")
          \/ pc = "session" /\ \E e \in {"set_fd", "handshake"} : WLeave(e)
      BY <2>2 DEF WSessionFails
    <3>2. \E e \in Exits : held = Base \cup Frees[e] /\ WLeave(e)
      BY <3>1, ExitFrees DEF IInv, HeldAt, InSession
    <3>. QED BY <3>2, WLeaveHeld
  <2>3. CASE WClose
    <3>1. outcome \in Exits /\ held = Base \cup Frees[outcome] /\ WLeave(outcome)
      BY <2>3, ExitFrees DEF WClose, IInv, OutcomeAt, HeldAt, InSession, Ending
    <3>. QED BY <3>1, WLeaveHeld
  <2>. QED BY <1>2, <2>1, <2>2, <2>3
<1>5. CASE WCheck
  BY <1>5 DEF WCheck, Check, Again, Goto, Cleaned, IInv, HeldAt, Base
<1>6. CASE ((\E c \in Clients : ClientStep(c)) \/ FileStep \/ Waiting) /\ UNCHANGED winVars
  BY <1>6 DEF ClientStep, FileStep, Waiting, vars, serverVars, winVars
<1>. QED BY <1>1, <1>2, <1>5, <1>6

LEMMA WStepIInv == IInv /\ Released /\ [WNext]_allVars => IInv' /\ Released'
<1>. SUFFICES ASSUME IInv, Released, [WNext]_allVars PROVE IInv' /\ Released'
  OBVIOUS
<1>1. CASE UNCHANGED allVars
  <2>1. IInv'
    BY <1>1, StepIInv DEF allVars
  <2>. QED BY <1>1, <2>1 DEF allVars, vars, serverVars, winVars, Released
<1>2. CASE ~windows /\ Next /\ UNCHANGED winVars
  BY <1>2, StepIInv DEF Released, winVars
<1>3. CASE windows /\ WNext
  <2>1. CASE WStart \/ WAcceptFails
    BY <1>3, <2>1, WindowsQuietSteps, OuterSteps
  <2>2. CASE WSessionFails \/ WClose
    BY <1>3, <2>2, WindowsConnSteps, OuterSteps
  <2>3. CASE WCheck
    BY <1>3, <2>3, SameSteps, OuterSteps
  <2>4. CASE WRespond \/ WWriteBody
    BY <1>3, <2>4, WindowsConnSteps, InnerSteps
  <2>5. CASE WSigint
    BY <1>3, <2>5, WindowsQuietSteps, InnerSteps
  <2>6. CASE \/ WAnnounce \/ WAccept \/ WNewSession \/ WOpenSession \/ WReadSome \/ WReadEnds
             \/ WOpenFile \/ WSize \/ WFill \/ WBodyWritten \/ WAwaitPeer
    BY <1>3, <2>6, SameSteps, InnerSteps
  <2>7. CASE ((\E c \in Clients : ClientStep(c)) \/ FileStep \/ Waiting) /\ UNCHANGED winVars
    BY <1>3, <2>7, SameSteps, OuterSteps
  <2>. QED BY <1>3, <2>1, <2>2, <2>3, <2>4, <2>5, <2>6, <2>7 DEF WNext, WServerStep
<1>. QED BY <1>1, <1>2, <1>3 DEF WNext

THEOREM WInvariance == WSpec => [](IInv /\ Released)
BY WInitIInv, WStepIInv, PTL DEF WSpec

\* Both programs, in both builds: between two connections only the context and
\* the socket are held, at most one connection is accepted after a signal, none is left
\* open, and a return leaves at most the server socket, where Forgets says so.
THEOREM WLoop ==
  WSpec => [](IterationReleases /\ AtMostOneMore /\ NoConnectionLeft /\ ReturnReleases)
<1>1. IInv => IterationReleases /\ AtMostOneMore /\ NoConnectionLeft /\ ReturnReleases
  BY DEF IInv, HeldAt, Base, LateBound, Owned, Serving, InSession, Ending, IterationReleases,
         AtMostOneMore, NoConnectionLeft
<1>. QED BY <1>1, WInvariance, PTL

\* Every return of the program for Windows has freed everything, in both builds and
\* whatever failed: each of the cleanups written out there frees what the path to it has
\* acquired.
THEOREM WReleases == WSpec => []WindowsReleases
<1>1. Released => WindowsReleases
  BY DEF Released, WindowsReleases
<1>. QED BY <1>1, WInvariance, PTL
-----------------------------------------------------------------------------
(* The responses, in both programs *)

Unanswered == {"new", "session", "read", "open", "size", "fill", "header", "notfound", "error"}

Types ==
  /\ StreamType /\ file \in FileSizes
  /\ pc = "size" => file \in Nat
  /\ pc \in {"fill", "header", "body"} => len \in Nat
  /\ pc = "body" => left \in Nat

\* Before its response starts a client has been given nothing.
Silent ==
  /\ \A c \in Clients : NotYet(c) => Stream(c) = <<>>
  /\ pc \in Unanswered => Stream(client) = <<>>

\* The beginning of a 200 response, of which n units are left.
Sending(s, n) ==
  /\ s # <<>> /\ s[1] = Header(len) /\ Len(s) - 1 + n = len
  /\ \A i \in 2 .. Len(s) : s[i] = Data

\* What a client is left with: a whole response, or one of the two that never are.
Told(s) == Complete(s) \/ s = <<Error>> \/ TooLong(s)

\* The same before close_notify.
Said(s) == Told(s) /\ s # <<>> /\ s[Len(s)] # Notify

\* A client that is there has been given the response when the shutdown starts, and at
\* most close_notify afterwards.
Progress ==
  /\ pc = "header" => left = len
  /\ pc = "body" /\ Reached(client) => Sending(Stream(client), left)
  /\ pc = "shutdown" /\ Reached(client) => Said(Stream(client))
  /\ pc \in {"peer_close", "close"} /\ Reached(client) => Told(Response(client))
  /\ \A c \in Clients : conn[c] = "finished" => Told(Response(c))

AnswerInv == Types /\ Silent /\ Progress

LEMMA WriteFirst ==
  /\ Error \in Unit
  /\ Said(Append(<<>>, NotFound)) /\ Said(Append(<<>>, Error))
  /\ len \in Nat => Sending(Append(<<>>, Header(len)), len)
<1>1. \A u : Append(<<>>, u) = <<u>>
  OBVIOUS
<1>2. Error \in Unit
  BY DEF Error, Unit, Kinds
<1>3. len \in Nat => Sending(<<Header(len)>>, len)
  BY DEF Sending
<1>4. NotFound # Notify /\ Error # Notify
  BY DEF NotFound, Error, Notify
<1>5. Complete(<<NotFound>>)
  BY DEF Complete, NotFound
<1>. QED BY <1>1, <1>2, <1>3, <1>4, <1>5 DEF Said, Told

LEMMA WriteNext ==
  ASSUME NEW s \in Seq(Unit), NEW n \in Nat, Sending(s, n), n > 0
  PROVE  Sending(Append(s, Data), n - 1)
<1>1. Data \in Unit
  BY UnitTypes
<1>2. /\ Append(s, Data) # <<>> /\ Len(Append(s, Data)) = Len(s) + 1
      /\ \A i \in 1 .. Len(s) : Append(s, Data)[i] = s[i]
      /\ Append(s, Data)[Len(s) + 1] = Data
      /\ Len(s) \in Nat /\ Len(s) >= 1
  BY <1>1, AppendProperties DEF Sending
<1>3. \A i \in 2 .. Len(s) + 1 : Append(s, Data)[i] = Data
  BY <1>2 DEF Sending
<1>4. Append(s, Data)[1] = Header(len) /\ Len(s) + 1 - 1 + (n - 1) = len
  BY <1>2 DEF Sending
<1>. QED BY <1>2, <1>3, <1>4 DEF Sending

LEMMA IntOfSmall == ASSUME NEW n \in Nat, n < IntWrap PROVE IntOf(n) = n
<1>1. n % (2 * IntWrap) = n
  BY HttpsAssumption
<1>. QED BY <1>1, HttpsAssumption DEF IntOf

LEMMA OneOrMore == \A k \in Nat : k >= 1 => k = 1 \/ 2 <= k
OBVIOUS

LEMMA NotClosedYet ==
  ASSUME NEW s \in Seq(Unit), NEW n, Sending(s, n)
  PROVE  s # <<>> /\ s[Len(s)] # Notify
<1>1. Header(len) # Notify /\ Data # Notify
  BY DEF Header, Notify, Data
<1>2. Len(s) \in Nat /\ s # <<>> /\ Len(s) >= 1
  BY EmptySeq DEF Sending
<1>3. CASE Len(s) = 1
  BY <1>1, <1>2, <1>3 DEF Sending
<1>4. CASE 2 <= Len(s)
  BY <1>1, <1>2, <1>4 DEF Sending
<1>5. Len(s) = 1 \/ 2 <= Len(s)
  BY <1>2, OneOrMore
<1>. QED BY <1>3, <1>4, <1>5

\* The body is given up only if its length does not fit an int.
LEMMA WholeSent ==
  ASSUME NEW s \in Seq(Unit), len \in Nat, NEW n \in Nat, Sending(s, n), IntOf(n) <= 0
  PROVE  Said(s)
<1>1. /\ Header(len).kind = "200" /\ Header(len).claimed = len /\ Header(len).body = 0
  BY DEF Header
<1>2. s # <<>> /\ s[Len(s)] # Notify
  BY NotClosedYet
<1>3. CASE n = 0
  BY <1>1, <1>2, <1>3 DEF Sending, Complete, Said, Told
<1>4. CASE n >= IntWrap
  <2>1. len >= IntWrap
    BY <1>2, <1>4, HttpsAssumption DEF Sending
  <2>. QED BY <1>1, <1>2, <2>1 DEF Sending, TooLong, Said, Told
<1>. QED BY <1>3, <1>4, IntOfSmall, HttpsAssumption

LEMMA SaidUnclosed == ASSUME NEW s \in Seq(Unit), Said(s) PROVE Unclosed(s) = s /\ Told(s)
BY DEF Said, Unclosed, Closed

\* What a step that leaves the connections and what they carry alone must keep.
LEMMA StillAnswer ==
  ASSUME IInv, AnswerInv, UNCHANGED <<conn, wire, seen, client>>, file' \in FileSizes,
         pc' \in Unanswered => pc \in Unanswered,
         pc' = "size" => file' \in Nat,
         pc' \in {"fill", "header", "body"} => len' \in Nat,
         pc' = "header" => left' = len',
         pc' = "body" => pc = "body" /\ UNCHANGED <<len, left>>,
         pc' = "shutdown" => pc = "shutdown" \/ (pc = "body" /\ IntOf(left) <= 0),
         pc' \in {"peer_close", "close"} => pc \in {"shutdown", "peer_close", "close"}
  PROVE  AnswerInv'
<1>1. StreamType' /\ \A c \in Clients : Stream(c)' = Stream(c)
  BY StreamFrame DEF AnswerInv, Types
<1>2. Types'
  BY <1>1 DEF AnswerInv, Types
<1>3. Stream(client)' = Stream(client) /\ Response(client)' = Response(client)
  BY DEF Stream, Response, Unclosed, Closed
<1>4. Silent'
  BY <1>1, <1>3 DEF AnswerInv, Silent, NotYet
<1>5. Reached(client)' = Reached(client)
  BY DEF Reached
<1>6. pc \in Serving => client \in Clients /\ Stream(client) \in Seq(Unit)
  BY StreamIsSeq DEF IInv, Owned, AnswerInv, Types
<1>7. (pc = "body" /\ Reached(client) => Sending(Stream(client), left))'
  BY <1>3, <1>5 DEF AnswerInv, Progress, Sending
<1>8. (pc = "shutdown" /\ Reached(client) => Said(Stream(client)))'
  <2>1. CASE pc = "shutdown"
    BY <1>3, <1>5, <2>1 DEF AnswerInv, Progress, Said, Told, Complete, TooLong
  <2>2. CASE pc = "body" /\ IntOf(left) <= 0 /\ Reached(client)
    <3>1. /\ Sending(Stream(client), left) /\ len \in Nat /\ left \in Nat
          /\ Stream(client) \in Seq(Unit)
      BY <1>6, <2>2 DEF AnswerInv, Types, Progress, Serving, InSession
    <3>2. Said(Stream(client))
      BY <2>2, <3>1, WholeSent
    <3>. QED BY <1>3, <3>2 DEF Said, Told, Complete, TooLong
  <2>. QED BY <1>5, <2>1, <2>2
<1>9. (pc \in {"peer_close", "close"} /\ Reached(client) => Told(Response(client)))'
  <2>1. CASE pc = "shutdown" /\ Reached(client)
    <3>1. Said(Stream(client)) /\ Stream(client) \in Seq(Unit)
      BY <1>6, <2>1 DEF AnswerInv, Progress, Serving, InSession, Ending
    <3>2. Told(Response(client))
      BY <3>1, SaidUnclosed DEF Response
    <3>. QED BY <1>3, <3>2 DEF Told, Complete, TooLong
  <2>2. CASE pc \in {"peer_close", "close"}
    BY <1>3, <1>5, <2>2 DEF AnswerInv, Progress, Told, Complete, TooLong
  <2>. QED BY <1>5, <2>1, <2>2
<1>10. \A c \in Clients : Response(c)' = Response(c)
  BY <1>1 DEF Response, Unclosed, Closed
<1>11. Progress'
  BY <1>7, <1>8, <1>9, <1>10 DEF AnswerInv, Progress, Told, Complete, TooLong
<1>. QED BY <1>2, <1>4, <1>11 DEF AnswerInv

LEMMA InitAnswer == Init => AnswerInv
<1>. SUFFICES ASSUME Init PROVE AnswerInv
  OBVIOUS
<1>1. \A c \in Clients : wire[c] = <<>> /\ seen[c] = <<>> /\ conn[c] = "none"
  BY DEF Init, PeersInit
<1>2. \A c \in Clients : Stream(c) = <<>>
  BY <1>1 DEF Stream
<1>3. Types
  BY DEF Init, PeersInit, Types, StreamType
<1>4. Silent /\ Progress
  BY <1>1, <1>2 DEF Init, Silent, Progress, Unanswered
<1>. QED BY <1>3, <1>4 DEF AnswerInv

\* The steps between two writes.
LEMMA QuietAnswer ==
  ASSUME IInv, AnswerInv,
         \/ Start \/ Announce \/ AcceptFails \/ NewSession \/ OpenSession \/ ReadSome \/ ReadEnds
         \/ OpenFile \/ Size \/ Fill \/ BodyWritten \/ AwaitPeer \/ Check \/ Waiting \/ FileStep
         \/ WStart \/ WAcceptFails \/ WSigint
  PROVE  AnswerInv'
<1>. USE DEF Goto, loopVars, reqVars, peerVars, Unanswered
<1>1. Types
  BY DEF AnswerInv
<1>2. CASE Start \/ Announce \/ AcceptFails \/ Check \/ WStart \/ WAcceptFails
  <2>1. /\ UNCHANGED <<conn, wire, seen, client, file>>
        /\ pc' \in {"announce", "returned", "accept", "check"}
    BY <1>2 DEF Start, Announce, AcceptFails, Check, WStart, WAcceptFails, Leave, WLeave,
                LeaveFunction, LeaveIteration
  <2>. QED BY <1>1, <2>1, StillAnswer DEF Types
<1>3. CASE NewSession \/ OpenSession \/ ReadSome \/ ReadEnds
  <2>1. /\ UNCHANGED <<conn, wire, seen, client, file>>
        /\ pc \in {"new", "session", "read"} /\ pc' \in {"session", "read", "open"}
    BY <1>3 DEF NewSession, OpenSession, ReadSome, ReadEnds
  <2>. QED BY <1>1, <2>1, StillAnswer DEF Types
<1>4. CASE OpenFile
  <2>1. /\ UNCHANGED <<conn, wire, seen, client, file>>
        /\ pc = "open" /\ (pc' = "notfound" \/ (pc' = "size" /\ file # Missing))
    BY <1>4 DEF OpenFile
  <2>2. file = Missing \/ file \in Nat
    BY <1>1, PeersAssumption DEF Types
  <2>. QED BY <1>1, <2>1, <2>2, StillAnswer DEF Types
<1>5. CASE Size
  <2>1. /\ UNCHANGED <<conn, wire, seen, client, file>>
        /\ pc = "size" /\ (pc' = "error" \/ (pc' = "fill" /\ len' = file))
    BY <1>5 DEF Size, ToError, Length
  <2>. QED BY <1>1, <2>1, StillAnswer DEF Types
<1>6. CASE Fill
  <2>1. /\ UNCHANGED <<conn, wire, seen, client, file, len>>
        /\ pc = "fill" /\ (pc' = "error" \/ (pc' = "header" /\ left' = len))
    BY <1>6 DEF Fill, ToError
  <2>. QED BY <1>1, <2>1, StillAnswer DEF Types
<1>7. CASE BodyWritten
  <2>1. /\ UNCHANGED <<conn, wire, seen, client, file>>
        /\ pc = "body" /\ IntOf(left) <= 0 /\ pc' = "shutdown"
    BY <1>7 DEF BodyWritten
  <2>. QED BY <1>1, <2>1, StillAnswer DEF Types
<1>8. CASE AwaitPeer
  <2>1. /\ UNCHANGED <<conn, wire, seen, client, file>>
        /\ pc = "peer_close" /\ pc' = "close"
    BY <1>8 DEF AwaitPeer
  <2>. QED BY <1>1, <2>1, StillAnswer DEF Types
<1>9. CASE WSigint \/ Waiting
  <2>1. UNCHANGED <<conn, wire, seen, client, file, len, left>> /\ pc' \in {pc, "killed"}
    BY <1>9 DEF WSigint, Waiting, vars, serverVars
  <2>. QED BY <1>1, <2>1, StillAnswer DEF Types, AnswerInv, Progress
<1>10. CASE FileStep
  <2>1. /\ UNCHANGED <<pc, conn, wire, seen, client, len, left>>
        /\ file' \in FileSizes /\ (pc \in {"size", "fill"} => file' # Missing)
    BY <1>10 DEF FileStep, ChangeFile, serverVars
  <2>2. file' = Missing \/ file' \in Nat
    BY <2>1, PeersAssumption
  <2>. QED BY <1>1, <2>1, <2>2, StillAnswer DEF Types, AnswerInv, Progress
<1>. QED BY <1>2, <1>3, <1>4, <1>5, <1>6, <1>7, <1>8, <1>9, <1>10

\* What a write must keep, as long as its client is there.
LEMMA GivenAnswer ==
  ASSUME IInv, AnswerInv, client \in Clients, NEW u \in Unit, Deliver(client, u),
         UNCHANGED <<client, file, len>>,
         pc' \in {"body", "shutdown", "peer_close", "killed"},
         pc' = "body" => len \in Nat /\ left' \in Nat,
         conn[client] = "open" =>
           /\ pc' = "body" => Sending(Append(Stream(client), u), left')
           /\ pc' = "shutdown" => Said(Append(Stream(client), u))
           /\ pc' = "peer_close" => Told(Unclosed(Append(Stream(client), u)))
  PROVE  AnswerInv'
<1>. DEFINE s == Append(Stream(client), u)
<1>1. ConnType /\ StreamType
  BY DEF IInv, AnswerInv, Types
<1>2. /\ StreamType'
      /\ \A d \in Clients \ {client} : Stream(d)' = Stream(d) /\ conn'[d] = conn[d]
      /\ \/ conn[client] = "open" /\ conn'[client] = "open" /\ Stream(client)' = s
         \/ /\ {conn[client], conn'[client]} \subseteq {"hungup", "reset", "aborted"}
            /\ Stream(client)' = Stream(client)
  BY <1>1, DeliverStream
<1>. HIDE DEF s
<1>3. Types'
  BY <1>2 DEF AnswerInv, Types
<1>4. Silent'
  BY <1>2 DEF AnswerInv, Silent, NotYet, Unanswered
<1>5. \A c \in Clients : conn'[c] = "finished" => conn[c] = "finished" /\ Stream(c)' = Stream(c)
  BY <1>2
<1>6. Reached(client)' => conn[client] = "open" /\ Stream(client)' = s
  BY <1>2 DEF Reached
<1>7. (pc = "body" /\ Reached(client) => Sending(Stream(client), left))'
  BY <1>6 DEF s, Sending
<1>8. (pc = "shutdown" /\ Reached(client) => Said(Stream(client)))'
  BY <1>6 DEF s, Said, Told, Complete, TooLong
<1>9. (pc \in {"peer_close", "close"} /\ Reached(client) => Told(Response(client)))'
  BY <1>6 DEF s, Told, Complete, TooLong, Response, Unclosed, Closed
<1>10. (\A c \in Clients : conn[c] = "finished" => Told(Response(c)))'
  BY <1>5 DEF AnswerInv, Progress, Told, Complete, TooLong, Response, Unclosed, Closed
<1>11. Progress'
  BY <1>7, <1>8, <1>9, <1>10 DEF Progress
<1>. QED BY <1>3, <1>4, <1>11 DEF AnswerInv

\* The writes of the responses, of close_notify and of a unit of the body.
LEMMA WriteAnswer ==
  ASSUME IInv, AnswerInv, Respond \/ WriteBody \/ WRespond \/ WWriteBody
  PROVE  AnswerInv'
<1>. USE DEF Goto, loopVars, reqVars, Write, WWrite
<1>0. client \in Clients /\ Stream(client) \in Seq(Unit) /\ Types
  <2>1. client \in Clients
    BY DEF Respond, WriteBody, WRespond, WWriteBody, IInv, Owned, Serving, InSession, Ending
  <2>. QED BY <2>1, StreamIsSeq DEF AnswerInv, Types
<1>1. CASE Respond \/ WRespond
  <2>1. UNCHANGED <<client, file, len, left>>
    BY <1>1 DEF Respond, WRespond
  <2>2. \/ pc = "notfound" /\ Deliver(client, NotFound) /\ pc' \in {"shutdown", "killed"}
        \/ pc = "error" /\ Deliver(client, Error) /\ pc' \in {"shutdown", "killed"}
        \/ pc = "header" /\ Deliver(client, Header(len)) /\ pc' \in {"body", "killed"}
        \/ pc = "shutdown" /\ Deliver(client, Notify) /\ pc' \in {"peer_close", "killed"}
    BY <1>1 DEF Respond, WRespond
  <2>3. CASE pc = "notfound" /\ Deliver(client, NotFound) /\ pc' \in {"shutdown", "killed"}
    <3>1. Stream(client) = <<>> /\ NotFound \in Unit
      BY <2>3, UnitTypes DEF AnswerInv, Silent, Unanswered
    <3>. QED BY <1>0, <2>1, <2>3, <3>1, WriteFirst, GivenAnswer
  <2>4. CASE pc = "error" /\ Deliver(client, Error) /\ pc' \in {"shutdown", "killed"}
    <3>1. Stream(client) = <<>> /\ Error \in Unit
      BY <2>4, WriteFirst DEF AnswerInv, Silent, Unanswered
    <3>. QED BY <1>0, <2>1, <2>4, <3>1, WriteFirst, GivenAnswer
  <2>5. CASE pc = "header" /\ Deliver(client, Header(len)) /\ pc' \in {"body", "killed"}
    <3>1. Stream(client) = <<>> /\ len \in Nat /\ left = len /\ Header(len) \in Unit
      BY <1>0, <2>5, UnitTypes DEF Types, AnswerInv, Silent, Progress, Unanswered
    <3>2. Sending(Append(Stream(client), Header(len)), left')
      BY <2>1, <3>1, WriteFirst
    <3>. QED BY <1>0, <2>1, <2>5, <3>1, <3>2, GivenAnswer
  <2>6. CASE pc = "shutdown" /\ Deliver(client, Notify) /\ pc' \in {"peer_close", "killed"}
    <3>1. Unclosed(Append(Stream(client), Notify)) = Stream(client) /\ Notify \in Unit
      BY <1>0, AppendNotify, UnitTypes
    <3>2. conn[client] = "open" => Told(Stream(client))
      BY <2>6 DEF AnswerInv, Progress, Reached, Said
    <3>. QED BY <1>0, <2>1, <2>6, <3>1, <3>2, GivenAnswer
  <2>. QED BY <2>2, <2>3, <2>4, <2>5, <2>6
<1>2. CASE WriteBody \/ WWriteBody
  <2>1. /\ UNCHANGED <<client, file, len>> /\ IntOf(left) > 0 /\ left' = left - 1
        /\ pc = "body" /\ pc' \in {"body", "killed"} /\ Deliver(client, Data)
    BY <1>2 DEF WriteBody, WWriteBody, Remaining
  <2>2. left \in Nat /\ left > 0
    BY <1>0, <2>1, IntOfSmall, HttpsAssumption DEF Types
  <2>5. len \in Nat /\ left' \in Nat /\ Data \in Unit
    BY <1>0, <2>1, <2>2, UnitTypes DEF Types
  <2>3. conn[client] = "open" => Sending(Stream(client), left)
    BY <2>1 DEF AnswerInv, Progress, Reached
  <2>4. conn[client] = "open" => Sending(Append(Stream(client), Data), left')
    BY <1>0, <2>1, <2>2, <2>3, <2>5, WriteNext
  <2>. QED BY <1>0, <2>1, <2>5, <2>4, GivenAnswer
<1>. QED BY <1>1, <1>2

\* A step of a client that leaves what it was given alone.
LEMMA SameAnswer ==
  ASSUME IInv, AnswerInv, StreamType', UNCHANGED <<pc, client, file, len, left>>,
         \A d \in Clients : /\ Stream(d)' = Stream(d)
                            /\ NotYet(d)' => NotYet(d)
                            /\ Reached(d)' => Reached(d)
                            /\ conn'[d] = "finished" => conn[d] = "finished"
  PROVE  AnswerInv'
<1>1. pc \in Serving => client \in Clients
  BY DEF IInv, Owned
<1>2. Types'
  BY DEF AnswerInv, Types
<1>3. Silent'
  BY <1>1 DEF AnswerInv, Silent, Unanswered, Serving, InSession, Ending
<1>4. \A d \in Clients : Response(d)' = Response(d)
  BY DEF Response, Unclosed, Closed
<1>5. Progress'
  BY <1>1, <1>4 DEF AnswerInv, Progress, Told, Complete, TooLong, Said, Sending, Serving,
                    InSession, Ending
<1>. QED BY <1>2, <1>3, <1>5 DEF AnswerInv

\* A connection is given up before anything was written to it.
LEMMA DropAnswer ==
  ASSUME IInv, AnswerInv, Drop, pc' \in {"check", "returned"}, UNCHANGED <<file, len, left>>
  PROVE  AnswerInv'
<1>1. /\ UNCHANGED <<wire, seen>> /\ ConnType
      /\ conn' = [conn EXCEPT ![client] = "broken"]
  BY DEF Drop, IInv
<1>2. StreamType' /\ \A c \in Clients : Stream(c)' = Stream(c)
  BY <1>1, StreamFrame DEF AnswerInv, Types
<1>3. \A c \in Clients : conn'[c] \in {conn[c], "broken"}
  BY <1>1 DEF ConnType
<1>4. Types' /\ Silent'
  BY <1>2, <1>3 DEF AnswerInv, Types, Silent, NotYet, Unanswered
<1>5. Progress'
  BY <1>2, <1>3 DEF AnswerInv, Progress, Told, Complete, TooLong, Response, Unclosed, Closed
<1>. QED BY <1>4, <1>5 DEF AnswerInv

\* A signal, which interrupts no write of a response.
LEMMA SigintAnswer == ASSUME IInv, AnswerInv, Sigint PROVE AnswerInv'
<1>1. UNCHANGED <<file, len, left>>
  BY DEF Sigint, reqVars
<1>2. CASE pc = "session" /\ Drop /\ Leave("handshake")
  BY <1>1, <1>2, DropAnswer DEF Leave, LeaveFunction, LeaveIteration, Goto
<1>3. CASE /\ UNCHANGED <<client, peerVars>>
           /\ \/ pc' \in {pc, "check", "returned"}
              \/ pc \in {"shutdown", "peer_close"} /\ pc' = "close"
  BY <1>1, <1>3, StillAnswer DEF peerVars, AnswerInv, Types, Progress, Unanswered
<1>. QED BY <1>2, <1>3 DEF Sigint, Leave, LeaveFunction, LeaveIteration, Goto, ShutdownBlocks

\* The steps that accept, give up or close a connection, and those of the clients.
LEMMA ConnAnswer ==
  ASSUME IInv, AnswerInv,
         \/ Accept \/ SessionFails \/ WSessionFails \/ Close \/ WClose
         \/ \E c \in Clients : ClientStep(c)
  PROVE  AnswerInv'
<1>. USE DEF Goto, loopVars, reqVars
<1>0. ConnType /\ StreamType /\ Types
  BY DEF IInv, AnswerInv, Types
<1>1. CASE Accept
  <2>1. PICK c \in Clients : Admit(c) /\ client' = c
    BY <1>1 DEF Accept
  <2>2. /\ UNCHANGED <<wire, seen, file, len, left>> /\ pc' = "new"
        /\ conn[c] \in {"queued", "queued_hungup"} /\ conn'[c] \in {"open", "hungup"}
        /\ \A d \in Clients \ {c} : conn'[d] = conn[d]
    BY <1>0, <1>1, <2>1 DEF Accept, Admit, Pending, ConnType
  <2>3. StreamType' /\ \A d \in Clients : Stream(d)' = Stream(d)
    BY <1>0, <2>2, StreamFrame
  <2>4. Stream(client)' = <<>>
    BY <2>1, <2>2, <2>3 DEF AnswerInv, Silent, NotYet, Stream
  <2>5. Silent'
    BY <2>2, <2>3, <2>4 DEF AnswerInv, Silent, NotYet
  <2>6. Progress'
    BY <2>2, <2>3 DEF AnswerInv, Progress, Told, Complete, TooLong, Response, Unclosed, Closed
  <2>. QED BY <1>0, <2>2, <2>3, <2>5, <2>6 DEF AnswerInv, Types
<1>2. CASE SessionFails \/ WSessionFails
  BY <1>2, DropAnswer DEF SessionFails, WSessionFails, Leave, WLeave, LeaveFunction,
                          LeaveIteration
<1>3. CASE Close \/ WClose
  <2>1. PICK c \in Clients : client = c
    BY <1>3 DEF Close, WClose, IInv, Owned, Serving, InSession, Ending
  <2>2. /\ pc = "close" /\ pc' \in {"check", "returned"} /\ CloseConn(c)
        /\ UNCHANGED <<file, len, left>>
    BY <1>3, <2>1 DEF Close, WClose, Leave, WLeave, LeaveFunction, LeaveIteration
  <2>3. /\ StreamType'
        /\ \A d \in Clients \ {c} : Stream(d)' = Stream(d) /\ conn'[d] = conn[d]
        /\ \/ Reached(c) /\ conn'[c] = "finished" /\ Stream(c)' = Stream(c)
           \/ conn'[c] = "broken" /\ IsBeginning(Stream(c)', Stream(c))
    BY <1>0, <2>2, CloseStream
  <2>4. Types' /\ Silent'
    BY <1>0, <2>2, <2>3 DEF Types, AnswerInv, Silent, NotYet, Unanswered
  <2>5. Reached(c) => Told(Response(c))
    BY <2>1, <2>2 DEF AnswerInv, Progress
  <2>6. Progress'
    BY <2>2, <2>3, <2>5 DEF AnswerInv, Progress, Told, Complete, TooLong, Response, Unclosed, Closed
  <2>. QED BY <2>4, <2>6 DEF AnswerInv
<1>4. CASE \E c \in Clients : ClientStep(c)
  <2>0. PICK c \in Clients : ClientStep(c)
    BY <1>4
  <2>1. UNCHANGED <<pc, client, file, len, left>>
    BY <2>0 DEF ClientStep, serverVars
  <2>2. CASE Connect(c) \/ SendRequest(c) \/ TakeUnit(c)
    <3>1. /\ StreamType' /\ \A d \in Clients : Stream(d)' = Stream(d)
      BY <1>0, <2>2, TakeStream, StreamFrame DEF Connect, SendRequest
    <3>2. \A d \in Clients : /\ NotYet(d)' => NotYet(d)
                             /\ Reached(d)' => Reached(d)
                             /\ conn'[d] = "finished" => conn[d] = "finished"
      BY <1>0, <2>2, TakeStream DEF Connect, SendRequest, ConnType, NotYet, Reached
    <3>. QED BY <2>1, <3>1, <3>2, SameAnswer
  <2>3. CASE HangUp(c)
    <3>1. /\ StreamType'
          /\ \A d \in Clients \ {c} : Stream(d)' = Stream(d) /\ conn'[d] = conn[d]
          /\ IsBeginning(Stream(c)', Stream(c))
          /\ \/ conn[c] = "queued" /\ conn'[c] = "queued_hungup"
             \/ conn[c] = "open" /\ conn'[c] \in {"hungup", "aborted"}
      BY <1>0, <2>3, HangUpStream
    <3>2. Stream(c) \in Seq(Unit) /\ Stream(c)' \in Seq(Unit)
      BY <1>0, <3>1, StreamIsSeq, ConcatProperties DEF StreamType, Stream
    <3>3. Stream(c) = <<>> => Stream(c)' = <<>>
      BY <3>1, <3>2, BeginningFirst
    <3>4. pc \in Serving => client \in Clients
      BY DEF IInv, Owned
    <3>5. Silent'
      BY <2>1, <3>1, <3>3, <3>4 DEF AnswerInv, Silent, NotYet, Unanswered, Serving, InSession, Ending
    <3>6. Progress'
      BY <2>1, <3>1, <3>4 DEF AnswerInv, Progress, Reached, Told, Complete, TooLong, Said, Response,
                             Unclosed, Closed, Sending, Serving, InSession, Ending
    <3>. QED BY <1>0, <2>1, <3>1, <3>5, <3>6 DEF AnswerInv, Types
  <2>. QED BY <2>0, <2>2, <2>3 DEF ClientStep
<1>. QED BY <1>1, <1>2, <1>3, <1>4

LEMMA StutterAnswer == ASSUME IInv, AnswerInv, UNCHANGED vars PROVE AnswerInv'
<1>1. StreamType' /\ \A c \in Clients : Stream(c)' = Stream(c)
  BY StreamFrame DEF AnswerInv, Types, vars, peerVars
<1>. QED BY <1>1, SameAnswer DEF vars, serverVars, reqVars, peerVars, NotYet, Reached

LEMMA StepAnswer == IInv /\ AnswerInv /\ [Next]_vars => AnswerInv'
<1>. SUFFICES ASSUME IInv, AnswerInv, [Next]_vars PROVE AnswerInv'
  OBVIOUS
<1>1. CASE \/ Start \/ Announce \/ AcceptFails \/ NewSession \/ OpenSession \/ ReadSome
           \/ ReadEnds \/ OpenFile \/ Size \/ Fill \/ BodyWritten \/ AwaitPeer \/ Check
           \/ Waiting \/ FileStep
  BY <1>1, QuietAnswer
<1>2. CASE Respond \/ WriteBody
  BY <1>2, WriteAnswer
<1>3. CASE Accept \/ SessionFails \/ Close \/ \E c \in Clients : ClientStep(c)
  BY <1>3, ConnAnswer
<1>. QED BY <1>1, <1>2, <1>3, SigintAnswer, StutterAnswer DEF Next, ServerStep

LEMMA WStepAnswer == IInv /\ AnswerInv /\ [WNext]_allVars => AnswerInv'
<1>. SUFFICES ASSUME IInv, AnswerInv, [WNext]_allVars PROVE AnswerInv'
  OBVIOUS
<1>1. CASE Next \/ UNCHANGED vars
  BY <1>1, StepAnswer
<1>2. CASE \/ WStart \/ WAnnounce \/ WAcceptFails \/ WNewSession \/ WOpenSession \/ WReadSome
           \/ WReadEnds \/ WOpenFile \/ WSize \/ WFill \/ WBodyWritten \/ WAwaitPeer \/ WCheck
           \/ Waiting \/ FileStep \/ WSigint
  BY <1>2, QuietAnswer DEF WAnnounce, WNewSession, WOpenSession, WReadSome, WReadEnds,
                           WOpenFile, WSize, WFill, WBodyWritten, WAwaitPeer, WCheck
<1>3. CASE WRespond \/ WWriteBody
  BY <1>3, WriteAnswer
<1>4. CASE WAccept \/ WSessionFails \/ WClose \/ \E c \in Clients : ClientStep(c)
  BY <1>4, ConnAnswer DEF WAccept
<1>. QED BY <1>1, <1>2, <1>3, <1>4 DEF WNext, WServerStep, allVars

\* A client whose connection was closed in good order was sent the whole
\* response, whatever signals came and whatever failed, but for the two kinds that are
\* never whole: the 500, and a 200 of a length that an int does not hold.
THEOREM WholeResponse == Spec => []CompleteResponse
<1>1. AnswerInv => CompleteResponse
  BY DEF AnswerInv, Progress, Told, CompleteResponse
<1>2. Spec => [](IInv /\ AnswerInv)
  BY InitIInv, StepIInv, InitAnswer, StepAnswer, PTL DEF Spec
<1>. QED BY <1>1, <1>2, PTL

\* The same in both programs.
THEOREM WWholeResponse == WSpec => []CompleteResponse
<1>1. AnswerInv => CompleteResponse
  BY DEF AnswerInv, Progress, Told, CompleteResponse
<1>2. WInit => AnswerInv
  BY InitAnswer DEF WInit
<1>3. WSpec => [](IInv /\ Released /\ AnswerInv)
  BY <1>2, WInitIInv, WStepIInv, WStepAnswer, PTL DEF WSpec
<1>. QED BY <1>1, <1>3, PTL
-----------------------------------------------------------------------------
(* What the oneshot build returns *)

Early    == {"start", "announce", "accept"}
Answered == {"shutdown", "peer_close", "close", "check"}

KindOf(o) == IF o = "served" THEN "200" ELSE IF o = "notfound" THEN "404" ELSE "500"

\* Only one client is ever given anything; from then on the first unit of it and
\* outcome agree, and so does what the function returns.
Fate ==
  /\ accepted \in {0, 1} /\ (pc \in Early => accepted = 0)
  /\ pc \in Early \cup Unanswered => \A c \in Clients : Stream(c) = <<>>
  /\ pc = "check" => outcome = "served"
  /\ \A c \in Clients : Stream(c) # <<>> =>
       /\ pc = "body" => Stream(c)[1].kind = "200"
       /\ pc \in Answered => Stream(c)[1].kind = KindOf(outcome)
       /\ pc = "returned" => (result = "success") = (Stream(c)[1].kind \in {"200", "404"})

OneshotInv == Oneshot => Fate

FirstKept(c) == Stream(c)' # <<>> => Stream(c) # <<>> /\ Stream(c)'[1] = Stream(c)[1]

\* What the function returns, and what the client was told.
LEMMA VerdictAgrees ==
  ASSUME NEW o \in Errors \cup {"notfound"}, result' = Verdict(o)
  PROVE  (result' = "success") = (KindOf(o) \in {"200", "404"})
BY DEF Verdict, KindOf, Errors

\* What a step must keep that starts no response.
LEMMA StillFate ==
  ASSUME Fate, \A c \in Clients : FirstKept(c), accepted' = accepted,
         pc' \in Early => pc \in Early,
         pc' \in Unanswered => pc \in Unanswered,
         pc' = "check" => outcome' = "served",
         pc' = "body" => pc = "body",
         pc' \in Answered =>
           \/ pc \in Answered /\ outcome' = outcome
           \/ pc = "body" /\ outcome' = "served",
         pc' = "returned" =>
           \/ pc \in Early \cup Unanswered
           \/ pc = "returned" /\ result' = result
           \/ pc \in Answered /\ (result' = "success") = (KindOf(outcome) \in {"200", "404"})
  PROVE  Fate'
<1>1. /\ accepted' \in {0, 1} /\ (pc' \in Early => accepted' = 0)
      /\ pc' \in Early \cup Unanswered => \A c \in Clients : Stream(c)' = <<>>
  BY DEF Fate, FirstKept
<1>2. ASSUME NEW c \in Clients, Stream(c)' # <<>>
      PROVE  /\ pc' = "body" => Stream(c)'[1].kind = "200"
             /\ pc' \in Answered => Stream(c)'[1].kind = KindOf(outcome')
             /\ pc' = "returned" => (result' = "success") = (Stream(c)'[1].kind \in {"200", "404"})
  <2>1. Stream(c) # <<>> /\ Stream(c)'[1] = Stream(c)[1] /\ pc \notin Early \cup Unanswered
    BY <1>2 DEF Fate, FirstKept
  <2>2. pc' = "body" => Stream(c)'[1].kind = "200"
    BY <2>1 DEF Fate
  <2>3. pc' \in Answered => Stream(c)'[1].kind = KindOf(outcome')
    <3>1. CASE pc \in Answered /\ outcome' = outcome
      BY <2>1, <3>1 DEF Fate
    <3>2. CASE pc = "body" /\ outcome' = "served"
      BY <2>1, <3>2 DEF Fate, KindOf
    <3>. QED BY <3>1, <3>2
  <2>4. pc' = "returned" => (result' = "success") = (Stream(c)'[1].kind \in {"200", "404"})
    <3>1. CASE pc = "returned" /\ result' = result
      BY <2>1, <3>1 DEF Fate
    <3>2. CASE pc \in Answered /\ (result' = "success") = (KindOf(outcome) \in {"200", "404"})
      <4>1. Stream(c)'[1].kind = KindOf(outcome)
        BY <2>1, <3>2 DEF Fate
      <4>. QED BY <3>2, <4>1
    <3>. QED BY <2>1, <3>1, <3>2
  <2>. QED BY <2>2, <2>3, <2>4
<1>. QED BY <1>1, <1>2 DEF Fate, KindOf

LEMMA InitFate == Init => Fate
<1>. SUFFICES ASSUME Init PROVE Fate
  OBVIOUS
<1>1. \A c \in Clients : Stream(c) = <<>>
  BY DEF Init, PeersInit, Stream
<1>. QED BY <1>1 DEF Init, Fate, Early, Answered

LEMMA SameFirst == ASSUME UNCHANGED <<wire, seen>> PROVE \A c \in Clients : FirstKept(c)
BY DEF FirstKept, Stream

LEMMA CutFirst ==
  ASSUME StreamType, StreamType', NEW c \in Clients, IsBeginning(Stream(c)', Stream(c))
  PROVE  FirstKept(c)
<1>1. Stream(c) \in Seq(Unit) /\ Stream(c)' \in Seq(Unit)
  BY StreamIsSeq, ConcatProperties DEF StreamType, Stream
<1>. QED BY <1>1, BeginningFirst DEF FirstKept

\* The steps that write to no connection, with the build that returns after one.
LEMMA QuietFate ==
  ASSUME Oneshot, IInv, Fate,
         \/ Start \/ Announce \/ AcceptFails \/ NewSession \/ OpenSession \/ ReadSome \/ ReadEnds
         \/ OpenFile \/ Size \/ Fill \/ BodyWritten \/ AwaitPeer \/ Check \/ SessionFails
         \/ Waiting \/ FileStep \/ WStart \/ WAcceptFails \/ WSessionFails \/ WSigint
  PROVE  Fate'
<1>. USE DEF Goto, loopVars, reqVars, peerVars, Unanswered, Early, Answered
<1>1. CASE Start \/ AcceptFails \/ WStart \/ WAcceptFails \/ SessionFails \/ WSessionFails
  <2>1. /\ UNCHANGED <<wire, seen, accepted>> /\ pc \in {"start", "accept", "new", "session"}
        /\ (pc' = "announce" /\ pc = "start") \/ pc' = "returned"
    BY <1>1 DEF Start, AcceptFails, WStart, WAcceptFails, SessionFails, WSessionFails, Leave,
                WLeave, LeaveFunction, Drop
  <2>. QED BY <2>1, SameFirst, StillFate
<1>2. CASE Announce
  <2>1. /\ UNCHANGED <<wire, seen, accepted, outcome>> /\ pc = "announce" /\ pc' = "accept"
    BY <1>2 DEF Announce
  <2>. QED BY <2>1, SameFirst, StillFate
<1>3. CASE NewSession \/ OpenSession \/ ReadSome \/ ReadEnds
  <2>1. /\ UNCHANGED <<wire, seen, accepted, outcome>>
        /\ pc \in {"new", "session", "read"} /\ pc' \in {"session", "read", "open"}
    BY <1>3 DEF NewSession, OpenSession, ReadSome, ReadEnds
  <2>. QED BY <2>1, SameFirst, StillFate
<1>4. CASE OpenFile \/ Size \/ Fill
  <2>1. /\ UNCHANGED <<wire, seen, accepted>> /\ pc \in {"open", "size", "fill"}
        /\ pc' \in {"size", "fill", "header", "notfound", "error"}
    BY <1>4 DEF OpenFile, Size, Fill, ToError
  <2>. QED BY <2>1, SameFirst, StillFate
<1>5. CASE BodyWritten
  <2>1. /\ UNCHANGED <<wire, seen, accepted>> /\ pc = "body" /\ pc' = "shutdown"
        /\ outcome' = "served"
    BY <1>5 DEF BodyWritten
  <2>. QED BY <2>1, SameFirst, StillFate
<1>6. CASE AwaitPeer
  <2>1. /\ UNCHANGED <<wire, seen, accepted, outcome>> /\ pc = "peer_close" /\ pc' = "close"
    BY <1>6 DEF AwaitPeer
  <2>. QED BY <2>1, SameFirst, StillFate
<1>7. CASE Check
  <2>1. /\ UNCHANGED <<wire, seen, accepted, outcome>> /\ pc = "check" /\ pc' = "returned"
        /\ result' = "success"
    BY <1>7 DEF Check, Again
  <2>2. KindOf(outcome) = "200"
    BY <2>1 DEF Fate, KindOf
  <2>. QED BY <2>1, <2>2, SameFirst, StillFate
<1>8. CASE Waiting \/ FileStep \/ WSigint
  <2>1. UNCHANGED <<wire, seen, accepted, outcome, result>> /\ pc' \in {pc, "killed"}
    BY <1>8 DEF Waiting, FileStep, WSigint, vars, serverVars
  <2>. QED BY <2>1, SameFirst, StillFate DEF Fate
<1>. QED BY <1>1, <1>2, <1>3, <1>4, <1>5, <1>6, <1>7, <1>8

LEMMA SigintFate == ASSUME Oneshot, IInv, Fate, Sigint PROVE Fate'
<1>1. /\ UNCHANGED <<accepted, wire, seen>>
      /\ \/ pc' = pc /\ result' = result /\ outcome' = outcome
         \/ pc \in {"accept", "session"} /\ pc' = "returned"
         \/ pc \in {"shutdown", "peer_close"} /\ pc' = "close" /\ outcome' = outcome
  BY DEF Sigint, Leave, LeaveFunction, Goto, Drop, AcceptBlocks, ShutdownBlocks, reqVars, peerVars
<1>. QED BY <1>1, SameFirst, StillFate DEF Fate, Early, Unanswered, Answered

\* The writes: the first unit of a response is of the kind of outcome.
LEMMA WriteFate ==
  ASSUME Oneshot, IInv, AnswerInv, Fate, Respond \/ WriteBody \/ WRespond \/ WWriteBody
  PROVE  Fate'
<1>. USE DEF Goto, loopVars, reqVars, Write, WWrite
<1>0. /\ client \in Clients /\ Stream(client) \in Seq(Unit) /\ ConnType /\ StreamType
      /\ UNCHANGED <<client, accepted, outcome>>
  <2>1. client \in Clients
    BY DEF Respond, WriteBody, WRespond, WWriteBody, IInv, Owned, Serving, InSession, Ending
  <2>2. UNCHANGED <<client, accepted, outcome>>
    BY DEF Respond, WriteBody, WRespond, WWriteBody
  <2>. QED BY <2>1, <2>2, StreamIsSeq DEF IInv, AnswerInv, Types
<1>1. ASSUME NEW u \in Unit, Deliver(client, u), Stream(client) = <<>>,
             pc \in {"notfound", "error", "header"},
             \/ pc' = "shutdown" /\ u.kind = KindOf(outcome)
             \/ pc' = "body" /\ u.kind = "200"
             \/ pc' = "killed"
      PROVE  Fate'
  <2>1. /\ \A c \in Clients : c # client => Stream(c)' = <<>>
        /\ Stream(client)' = <<>> \/ Stream(client)' = <<u>>
    <3>1. Append(<<>>, u) = <<u>>
      OBVIOUS
    <3>2. /\ \A d \in Clients \ {client} : Stream(d)' = Stream(d)
          /\ Stream(client)' \in {Stream(client), Append(Stream(client), u)}
      BY <1>0, <1>1, DeliverStream
    <3>3. \A c \in Clients : Stream(c) = <<>>
      BY <1>1 DEF Fate, Unanswered
    <3>. QED BY <1>1, <3>1, <3>2, <3>3
  <2>2. \A c \in Clients : Stream(c)' # <<>> => Stream(c)'[1] = u
    BY <1>0, <2>1
  <2>. QED BY <1>0, <1>1, <2>2 DEF Fate, Early, Unanswered, Answered, KindOf
<1>2. ASSUME NEW u \in Unit, Deliver(client, u), conn[client] = "open" => Stream(client) # <<>>,
             \/ pc = "body" /\ pc' \in {"body", "killed"}
             \/ pc = "shutdown" /\ pc' \in {"peer_close", "killed"}
      PROVE  Fate'
  <2>1. \A c \in Clients : FirstKept(c)
    <3>1. Append(Stream(client), u)[1] = Stream(client)[1] \/ Stream(client) = <<>>
      BY <1>0, <1>2
    <3>. QED BY <1>0, <1>2, <3>1, DeliverStream DEF FirstKept
  <2>. QED BY <1>0, <1>2, <2>1, StillFate DEF Early, Unanswered, Answered
<1>3. CASE Respond \/ WRespond
  <2>1. \/ pc = "notfound" /\ Deliver(client, NotFound) /\ pc' \in {"shutdown", "killed"}
        \/ pc = "error" /\ Deliver(client, Error) /\ pc' \in {"shutdown", "killed"}
        \/ pc = "header" /\ Deliver(client, Header(len)) /\ pc' \in {"body", "killed"}
        \/ pc = "shutdown" /\ Deliver(client, Notify) /\ pc' \in {"peer_close", "killed"}
    BY <1>3 DEF Respond, WRespond
  <2>2. CASE pc = "notfound" /\ Deliver(client, NotFound) /\ pc' \in {"shutdown", "killed"}
    <3>1. Stream(client) = <<>> /\ NotFound \in Unit /\ NotFound.kind = KindOf(outcome)
      BY <2>2, UnitTypes DEF AnswerInv, Silent, Unanswered, IInv, OutcomeAt, KindOf, NotFound
    <3>. QED BY <1>1, <2>2, <3>1
  <2>3. CASE pc = "error" /\ Deliver(client, Error) /\ pc' \in {"shutdown", "killed"}
    <3>1. Stream(client) = <<>> /\ Error \in Unit /\ Error.kind = KindOf(outcome)
      BY <2>3, WriteFirst DEF AnswerInv, Silent, Unanswered, IInv, OutcomeAt, KindOf, Error, Errors
    <3>. QED BY <1>1, <2>3, <3>1
  <2>4. CASE pc = "header" /\ Deliver(client, Header(len)) /\ pc' \in {"body", "killed"}
    <3>1. Stream(client) = <<>> /\ Header(len) \in Unit /\ Header(len).kind = "200"
      BY <2>4, UnitTypes DEF AnswerInv, Types, Silent, Unanswered, Header
    <3>. QED BY <1>1, <2>4, <3>1
  <2>5. CASE pc = "shutdown" /\ Deliver(client, Notify) /\ pc' \in {"peer_close", "killed"}
    <3>1. Notify \in Unit /\ (conn[client] = "open" => Stream(client) # <<>>)
      BY <2>5, UnitTypes DEF AnswerInv, Progress, Reached, Said
    <3>. QED BY <1>2, <2>5, <3>1
  <2>. QED BY <2>1, <2>2, <2>3, <2>4, <2>5
<1>4. CASE WriteBody \/ WWriteBody
  <2>1. pc = "body" /\ Deliver(client, Data) /\ pc' \in {"body", "killed"}
    BY <1>4 DEF WriteBody, WWriteBody
  <2>2. Data \in Unit /\ (conn[client] = "open" => Stream(client) # <<>>)
    BY <2>1, UnitTypes DEF AnswerInv, Progress, Reached, Sending
  <2>. QED BY <1>2, <2>1, <2>2
<1>. QED BY <1>3, <1>4

\* The steps that accept or close a connection, and those of the clients.
LEMMA ConnFate ==
  ASSUME Oneshot, IInv, AnswerInv, Fate,
         Accept \/ Close \/ WClose \/ \E c \in Clients : ClientStep(c)
  PROVE  Fate'
<1>. USE DEF Goto, loopVars, reqVars
<1>0. ConnType /\ StreamType
  BY DEF IInv, AnswerInv, Types
<1>1. CASE Accept
  <2>1. /\ UNCHANGED <<wire, seen, outcome>> /\ accepted' = accepted + 1
        /\ pc = "accept" /\ pc' = "new"
    BY <1>1 DEF Accept, Admit
  <2>2. accepted = 0 /\ \A c \in Clients : Stream(c)' = <<>>
    BY <2>1 DEF Fate, Early, Stream
  <2>. QED BY <1>0, <2>1, <2>2 DEF Fate, Early, Unanswered, Answered
<1>2. CASE Close \/ WClose
  <2>1. PICK c \in Clients : client = c
    BY <1>2 DEF Close, WClose, IInv, Owned, Serving, InSession, Ending
  <2>2. /\ pc = "close" /\ CloseConn(c) /\ UNCHANGED <<accepted, outcome>>
        /\ \/ pc' = "check" /\ outcome = "served"
           \/ pc' = "returned" /\ outcome # "served" /\ result' = Verdict(outcome)
    BY <1>2, <2>1 DEF Close, WClose, Leave, WLeave, LeaveFunction, LeaveIteration
  <2>5. pc' = "returned" => (result' = "success") = (KindOf(outcome) \in {"200", "404"})
    BY <2>2, VerdictAgrees DEF IInv, OutcomeAt, Ending
  <2>3. /\ StreamType'
        /\ \A d \in Clients \ {c} : Stream(d)' = Stream(d)
        /\ Stream(c)' = Stream(c) \/ IsBeginning(Stream(c)', Stream(c))
    BY <1>0, <2>2, CloseStream
  <2>4. \A d \in Clients : FirstKept(d)
    BY <1>0, <2>3, CutFirst DEF FirstKept
  <2>. QED BY <1>0, <2>2, <2>4, <2>5, StillFate DEF Early, Unanswered, Answered
<1>3. CASE \E c \in Clients : ClientStep(c)
  <2>0. PICK c \in Clients : ClientStep(c)
    BY <1>3
  <2>1. UNCHANGED <<pc, accepted, outcome, result>>
    BY <2>0 DEF ClientStep, serverVars
  <2>2. \A d \in Clients : FirstKept(d)
    <3>1. CASE Connect(c) \/ SendRequest(c)
      BY <3>1, SameFirst DEF Connect, SendRequest
    <3>2. CASE TakeUnit(c)
      BY <1>0, <3>2, TakeStream DEF FirstKept
    <3>3. CASE HangUp(c)
      <4>1. /\ StreamType'
            /\ \A d \in Clients \ {c} : Stream(d)' = Stream(d)
            /\ IsBeginning(Stream(c)', Stream(c))
        BY <1>0, <3>3, HangUpStream
      <4>. QED BY <1>0, <4>1, CutFirst DEF FirstKept
    <3>. QED BY <2>0, <3>1, <3>2, <3>3 DEF ClientStep
  <2>. QED BY <1>0, <2>1, <2>2, StillFate DEF Fate
<1>. QED BY <1>1, <1>2, <1>3

LEMMA StepFate == IInv /\ AnswerInv /\ OneshotInv /\ [Next]_vars => OneshotInv'
<1>. SUFFICES ASSUME IInv, AnswerInv, Oneshot, Fate, [Next]_vars PROVE Fate'
  BY DEF OneshotInv
<1>1. CASE UNCHANGED vars
  BY <1>1, SameFirst, StillFate DEF vars, serverVars, loopVars, reqVars, peerVars, Fate
<1>2. CASE \/ Start \/ Announce \/ AcceptFails \/ NewSession \/ OpenSession \/ ReadSome \/ ReadEnds
           \/ OpenFile \/ Size \/ Fill \/ BodyWritten \/ AwaitPeer \/ Check \/ SessionFails
           \/ Waiting \/ FileStep
  BY <1>2, QuietFate
<1>3. CASE Respond \/ WriteBody
  BY <1>3, WriteFate
<1>4. CASE Accept \/ Close \/ \E c \in Clients : ClientStep(c)
  BY <1>4, ConnFate
<1>. QED BY <1>1, <1>2, <1>3, <1>4, SigintFate DEF Next, ServerStep

LEMMA WStepFate == IInv /\ AnswerInv /\ OneshotInv /\ [WNext]_allVars => OneshotInv'
<1>. SUFFICES ASSUME IInv, AnswerInv, Oneshot, Fate, [WNext]_allVars PROVE Fate'
  BY DEF OneshotInv
<1>1. CASE Next \/ UNCHANGED vars
  BY <1>1, StepFate DEF OneshotInv
<1>2. CASE \/ WStart \/ WAnnounce \/ WAcceptFails \/ WNewSession \/ WOpenSession \/ WReadSome
           \/ WReadEnds \/ WOpenFile \/ WSize \/ WFill \/ WBodyWritten \/ WAwaitPeer \/ WCheck
           \/ WSessionFails \/ Waiting \/ FileStep \/ WSigint
  BY <1>2, QuietFate DEF WAnnounce, WNewSession, WOpenSession, WReadSome, WReadEnds,
                           WOpenFile, WSize, WFill, WBodyWritten, WAwaitPeer, WCheck
<1>3. CASE WRespond \/ WWriteBody
  BY <1>3, WriteFate
<1>4. CASE WAccept \/ WClose \/ \E c \in Clients : ClientStep(c)
  BY <1>4, ConnFate DEF WAccept
<1>. QED BY <1>1, <1>2, <1>3, <1>4 DEF WNext, WServerStep, allVars

LEMMA FateMeans == AnswerInv /\ OneshotInv => OneshotVerdict
<1>. SUFFICES ASSUME AnswerInv, Fate, Oneshot PROVE OneshotVerdict
  BY DEF OneshotInv, OneshotVerdict
<1>1. ASSUME NEW c \in Clients, Response(c) # <<>>
      PROVE  Stream(c) # <<>> /\ Response(c)[1] = Stream(c)[1]
  <2>1. Stream(c) \in Seq(Unit)
    BY StreamIsSeq DEF AnswerInv, Types
  <2>. QED BY <1>1, <2>1, UnclosedFirst DEF Response
<1>. QED BY <1>1 DEF Fate, OneshotVerdict

\* The oneshot build serves one connection, and what it returns goes by the response that
\* it began to write: success for a 200 or a 404, failure for a 500.  Whether the response
\* arrived makes no difference to it.
THEOREM Verdicts == Spec => []OneshotVerdict
<1>1. Init => OneshotInv
  BY InitFate DEF OneshotInv
<1>2. Spec => [](IInv /\ AnswerInv /\ OneshotInv)
  BY <1>1, InitIInv, StepIInv, InitAnswer, StepAnswer, StepFate, PTL DEF Spec
<1>. QED BY <1>2, FateMeans, PTL

\* The same in both programs.
THEOREM WVerdicts == WSpec => []OneshotVerdict
<1>1. WInit => AnswerInv /\ OneshotInv
  BY InitAnswer, InitFate DEF WInit, OneshotInv
<1>2. WSpec => [](IInv /\ Released /\ AnswerInv /\ OneshotInv)
  BY <1>1, WInitIInv, WStepIInv, WStepAnswer, WStepFate, PTL DEF WSpec
<1>. QED BY <1>2, FateMeans, PTL
=============================================================================
