------------------------- MODULE HttpServerWindows -------------------------
(***************************************************************************)
(* http_server of httpsrv_windows.c beside that of httpsrv.c: a behaviour  *)
(* is one of the Unix build, or of one of the two builds for Windows (a    *)
(* loop, or one connection and out).                                       *)
(*                                                                         *)
(* On Windows each call starts Winsock and installs the handler anew, and  *)
(* every return closes the server socket and gives Winsock back.  The C    *)
(* run-time library calls the handler in a thread of its own and before    *)
(* that takes it out: no call of the server is interrupted, and the next   *)
(* SIGINT finds the default action, which ends the process.  There is no   *)
(* SIGPIPE: a send to a client that has gone just fails.                   *)
(***************************************************************************)
EXTENDS HttpServer

Builds == {"unix", "windows", "windows_oneshot"}

VARIABLES
  build,      \* which of the programs this is
  wsa,        \* starts of Winsock without their WSACleanup
  installed   \* SIGINT goes to handle_sigint

winVars == <<build, wsa, installed>>
allVars == <<vars, winVars>>

Windows == build # "unix"

WInit == Init /\ build \in Builds /\ wsa = 0 /\ installed = FALSE

-----------------------------------------------------------------------------
(* The server *)

WCall == Call /\ UNCHANGED winVars

\* Mutant of Refused: the error paths of bind and listen leave the socket open.
RefusedLeaves ==
  /\ sockets' = [sockets EXCEPT !.other = @ + 1]
  /\ UNCHANGED wsa

\* bind or listen fails: closesocket and WSACleanup.
Refused == UNCHANGED <<sockets, wsa>>

\* WSAStartup, signal, socket, bind and listen.  The error paths release what the
\* call has acquired; if Winsock cannot be started, the handler is not installed.
WSetup ==
  /\ pc = "setup"
  /\ \/ UNCHANGED <<sockets, wsa, installed>> /\ Goto("idle")
     \/ /\ installed' = TRUE
        /\ \/ /\ PortFree
              /\ sockets' = [sockets EXCEPT !.listening = @ + 1]
              /\ wsa' = wsa + 1
              /\ Goto("announce")
           \/ /\ "socket" \in MayFail
              /\ UNCHANGED <<sockets, wsa>> /\ Goto("idle")
           \/ /\ MayFail \cap {"bind", "listen"} # {}
              /\ Refused /\ Goto("idle")
  /\ UNCHANGED <<running, calls, sigs, cut, client, late, file, len, body, peerVars, build>>

WAnnounce == Announce /\ UNCHANGED winVars

WAccept == Accept /\ UNCHANGED winVars

WAcceptFails == AcceptFails /\ UNCHANGED winVars

\* recv
WReadRequest == ReadRequest /\ UNCHANGED winVars

WOpenFile == OpenFile /\ UNCHANGED winVars

WSize == Size /\ UNCHANGED winVars

WFill == Fill /\ UNCHANGED winVars

\* send of one unit at a label, whether or not the client is still there.
Send(at, u, next) ==
  /\ pc = at
  /\ Deliver(client, u)
  /\ Goto(next)
  /\ UNCHANGED <<callVars, client, file, len, winVars>>

WWriteHeader == Send("header", Header(len), "body") /\ UNCHANGED body

WWriteBody == body # <<>> /\ Send("body", Head(body), "body") /\ body' = Tail(body)

WBodyWritten == BodyWritten /\ UNCHANGED winVars

WWriteNotFound == Send("notfound", NotFound, "close") /\ UNCHANGED body

\* closesocket(client)
WClose == Close /\ UNCHANGED winVars

\* while (running), and one connection only in the oneshot build, whose failure
\* of accept and 404 path end with the same cleanup.
WAgain == running /\ build = "windows"

WCheck ==
  /\ pc = "check" /\ WAgain
  /\ Goto("announce")
  /\ UNCHANGED <<callVars, client, file, len, body, peerVars, winVars>>

\* Mutant of Cleanup: the server socket stays open.
CleanupKeeps ==
  /\ wsa' = wsa - 1
  /\ UNCHANGED <<sockets, peerVars>>

\* closesocket(server_fd), which resets the connections in its queue, and
\* WSACleanup.
Cleanup ==
  /\ sockets' = [sockets EXCEPT !.listening = @ - 1]
  /\ wsa' = wsa - 1
  /\ conn' = [c \in Clients |-> IF Pending(c) THEN "broken" ELSE conn[c]]
  /\ UNCHANGED <<sent, inbox, wire, seen>>

WReturn ==
  /\ pc = "check" /\ ~WAgain
  /\ Cleanup
  /\ Goto("idle")
  /\ UNCHANGED <<running, calls, sigs, cut, late, client, file, len, body, build, installed>>

WServerStep ==
  \/ WSetup \/ WAnnounce \/ WAccept \/ WReadRequest \/ WOpenFile \/ WSize \/ WFill
  \/ WWriteHeader \/ WWriteBody \/ WBodyWritten \/ WWriteNotFound \/ WClose \/ WCheck
  \/ WReturn

-----------------------------------------------------------------------------
(* The signal *)

\* SIGINT: the handler clears the flag and nothing else happens, or the default
\* action ends the process.
WSigint ==
  /\ sigs < MaxSigs /\ calls > 0 /\ pc # "killed"
  /\ sigs' = sigs + 1
  /\ installed' = FALSE
  /\ IF installed THEN running' = FALSE /\ UNCHANGED pc
                  ELSE Goto("killed") /\ UNCHANGED running
  /\ UNCHANGED <<calls, sockets, cut, client, late, file, len, body, peerVars, build, wsa>>

WNext ==
  \/ ~Windows /\ Next /\ UNCHANGED winVars
  \/ /\ Windows
     /\ \/ WCall \/ WServerStep \/ WAcceptFails \/ WSigint
        \/ (\E c \in Clients : ClientStep(c)) /\ UNCHANGED winVars
        \/ FileStep /\ UNCHANGED winVars
        \/ Waiting /\ UNCHANGED winVars

WSpec == WInit /\ [][WNext]_allVars

\* The fairness of HttpServer, for every build.
WFairness ==
  /\ WF_allVars(WCall)
  /\ WF_allVars(IF Windows THEN WServerStep ELSE ServerStep /\ UNCHANGED winVars)
  /\ SF_allVars(WAccept)
  /\ \A c \in Clients :
       WF_allVars(/\ pc # "killed" /\ (SendRequest(c) \/ TakeUnit(c))
                  /\ UNCHANGED <<serverVars, file, winVars>>)

WFairSpec == WSpec /\ WFairness
-----------------------------------------------------------------------------
(* Properties *)

\* On Windows a call that has returned, however it ended, leaves no socket and no
\* use of Winsock behind, and no client that waits in a queue nobody will serve:
\* "cleanup SHOULD happen here", and here it does.
ReturnReleases ==
  Windows /\ pc = "idle" => wsa = 0 /\ sockets = [listening |-> 0, other |-> 0] /\ NobodyWaits
=============================================================================
