------------------------- MODULE HttpsServerWindows ------------------------
(***************************************************************************)
(* https_server of httpsrv-tls_windows.c beside that of httpsrv-tls.c: a   *)
(* behaviour is one of the Unix program or one of the Windows program, in  *)
(* the build that Oneshot says.                                            *)
(*                                                                         *)
(* On Windows the handler runs in a thread of its own and is taken out by  *)
(* its first SIGINT: nothing is interrupted, so neither the handshake nor  *)
(* SSL_shutdown ends early, and a second SIGINT ends the process.  A write *)
(* after a reset fails without a signal.  The cleanups at the exits are    *)
(* written out by hand here too, and differ from those of Unix.            *)
(***************************************************************************)
EXTENDS HttpsServer

VARIABLES
  windows,    \* which of the programs this is
  wsa,        \* Winsock is started
  installed   \* SIGINT goes to handle_sigint

winVars == <<windows, wsa, installed>>
allVars == <<vars, winVars>>

WInit == Init /\ windows \in BOOLEAN /\ wsa = FALSE /\ installed = FALSE

-----------------------------------------------------------------------------
(* The exits *)

\* Mutant of WEnds: the return after a 404 forgets what that of the Unix build forgets,
\* and WSACleanup.
WEndsLess ==
  [accept    |-> {"ctx", "server_fd", "wsa"}, new       |-> {"ctx", "server_fd", "wsa"},
   set_fd    |-> {"ctx", "server_fd", "wsa"}, handshake |-> {"ctx", "server_fd", "wsa"},
   notfound  |-> {"ctx"},                     seek_end  |-> {"ctx", "server_fd", "wsa"},
   tell      |-> {"ctx", "server_fd", "wsa"}, seek_set  |-> {"ctx", "server_fd", "wsa"},
   malloc    |-> {"ctx", "server_fd", "wsa"}, fread     |-> {"ctx", "server_fd", "wsa"}]

\* What the oneshot build frees at each end of the iteration, besides what both builds do.
WEnds ==
  [accept    |-> {"ctx", "server_fd", "wsa"}, new       |-> {"ctx", "server_fd", "wsa"},
   set_fd    |-> {"ctx", "server_fd", "wsa"}, handshake |-> {"ctx", "server_fd", "wsa"},
   notfound  |-> {"ctx", "server_fd", "wsa"}, seek_end  |-> {"ctx", "server_fd", "wsa"},
   tell      |-> {"ctx", "server_fd", "wsa"}, seek_set  |-> {"ctx", "server_fd", "wsa"},
   malloc    |-> {"ctx", "server_fd", "wsa"}, fread     |-> {"ctx", "server_fd", "wsa"}]

\* SSL_free and closesocket as on Unix, then `continue' or a return.
WLeave(e) ==
  /\ IF Oneshot /\ e # "served"
     THEN LeaveFunction(e, WEnds[e]) /\ wsa' = (wsa /\ "wsa" \notin WEnds[e])
     ELSE LeaveIteration(e) /\ UNCHANGED wsa
  /\ UNCHANGED <<windows, installed>>

-----------------------------------------------------------------------------
(* Starting *)

\* Mutant of WStartFrees: the exit after a failed listen frees what that of Unix does.
WStartFreesLess ==
  [wsa |-> {}, ctx |-> {"wsa"}, cert |-> {"ctx", "wsa"}, socket |-> {"ctx", "wsa"},
   setsockopt |-> {"ctx", "server_fd", "wsa"}, bind |-> {"ctx", "server_fd", "wsa"},
   listen |-> {"ctx", "wsa"}]

\* What the exits before the loop free.
WStartFrees ==
  [wsa |-> {}, ctx |-> {"wsa"}, cert |-> {"ctx", "wsa"}, socket |-> {"ctx", "wsa"},
   setsockopt |-> {"ctx", "server_fd", "wsa"}, bind |-> {"ctx", "server_fd", "wsa"},
   listen |-> {"ctx", "server_fd", "wsa"}]

\* WSAStartup (wsa), signal and the calls before the loop.
WStart ==
  /\ pc = "start"
  /\ \/ /\ held' = {"ctx", "server_fd"} /\ wsa' = TRUE /\ installed' = TRUE
        /\ Goto("announce") /\ UNCHANGED <<result, outcome>>
     \/ \E f \in {"wsa"} \cup ((Startups \ {"sigaction"}) \cap MayFail) :
          /\ held' = AcquiredBefore(f) \ WStartFrees[f]
          /\ wsa' = (f # "wsa" /\ "wsa" \notin WStartFrees[f])
          /\ installed' = (f # "wsa")
          /\ Goto("returned") /\ result' = "failure" /\ outcome' = f
  /\ UNCHANGED <<running, sigs, accepted, late, reqVars, client, file, peerVars, windows>>

-----------------------------------------------------------------------------
(* One connection *)

WAnnounce == Announce /\ UNCHANGED winVars

WAccept == Accept /\ UNCHANGED winVars

WAcceptFails ==
  /\ pc = "accept" /\ "accept" \in MayFail
  /\ WLeave("accept")
  /\ UNCHANGED <<running, sigs, accepted, late, reqVars, client, file, peerVars>>

WNewSession == NewSession /\ UNCHANGED winVars

\* SSL_set_fd and SSL_accept
WOpenSession == OpenSession /\ UNCHANGED winVars

\* SSL_new, SSL_set_fd or the handshake fails.
WSessionFails ==
  /\ \/ pc = "new" /\ "new" \in MayFail /\ WLeave("new")
     \/ pc = "session" /\ "set_fd" \in MayFail /\ WLeave("set_fd")
     \/ /\ pc = "session"
        /\ "handshake" \in MayFail \/ conn[client] = "hungup"
        /\ WLeave("handshake")
  /\ Drop
  /\ UNCHANGED <<running, sigs, accepted, late, reqVars, file>>

\* SSL_read and the search of the buffer, which is terminated only after the loop.
WReadSome == ReadSome /\ UNCHANGED winVars

WReadEnds == ReadEnds /\ UNCHANGED winVars

WOpenFile == OpenFile /\ UNCHANGED winVars

WSize == Size /\ UNCHANGED winVars

WFill == Fill /\ UNCHANGED winVars

\* ssl_write_all of one unit, or a failed write that nobody looks at.
WWrite(at, u, next) == pc = at /\ Deliver(client, u) /\ Goto(next)

WRespond ==
  /\ \/ WWrite("notfound", NotFound, "shutdown")
     \/ WWrite("error", Error, "shutdown")
     \/ WWrite("header", Header(len), "body")
     \/ WWrite("shutdown", Notify, "peer_close")
  /\ UNCHANGED <<loopVars, reqVars, held, client, outcome, file, winVars>>

WWriteBody ==
  /\ IntOf(left) > 0
  /\ WWrite("body", Data, "body")
  /\ left' = Remaining
  /\ UNCHANGED <<loopVars, have, len, held, client, outcome, file, winVars>>

WBodyWritten == BodyWritten /\ UNCHANGED winVars

\* The second SSL_shutdown.
WAwaitPeer == AwaitPeer /\ UNCHANGED winVars

\* SSL_free and closesocket, after the 404, a 500 or the 200.
WClose ==
  /\ pc = "close"
  /\ CloseConn(client)
  /\ client' = NoClient
  /\ WLeave(outcome)
  /\ UNCHANGED <<running, sigs, accepted, late, reqVars, file>>

\* The condition of the loop, and the cleanup, which also gives Winsock back.
WCheck == Check /\ wsa' = (wsa /\ Again) /\ UNCHANGED <<windows, installed>>

WServerStep ==
  \/ WStart \/ WAnnounce \/ WAccept \/ WNewSession \/ WOpenSession \/ WReadSome
  \/ WReadEnds \/ WOpenFile \/ WSize \/ WFill \/ WRespond \/ WWriteBody \/ WBodyWritten
  \/ WAwaitPeer \/ WClose \/ WCheck

-----------------------------------------------------------------------------
(* The signal *)

\* SIGINT once the handler was installed.
WSigint ==
  /\ pc \notin {"start", "returned", "killed"}
  /\ sigs < MaxSigs
  /\ sigs' = sigs + 1
  /\ installed' = FALSE
  /\ IF installed THEN running' = FALSE /\ UNCHANGED pc
                  ELSE Goto("killed") /\ UNCHANGED running
  /\ UNCHANGED <<held, result, accepted, late, reqVars, client, outcome, file, peerVars>>
  /\ UNCHANGED <<windows, wsa>>

WNext ==
  \/ ~windows /\ Next /\ UNCHANGED winVars
  \/ /\ windows
     /\ \/ WServerStep \/ WAcceptFails \/ WSessionFails \/ WSigint
        \/ (\E c \in Clients : ClientStep(c)) /\ UNCHANGED winVars
        \/ FileStep /\ UNCHANGED winVars
        \/ Waiting /\ UNCHANGED winVars

WSpec == WInit /\ [][WNext]_allVars

\* The fairness of HttpsServer, for either program.
WFairness ==
  /\ WF_allVars(IF windows THEN WServerStep \/ WSessionFails
                           ELSE (ServerStep \/ SessionFails) /\ UNCHANGED winVars)
  /\ SF_allVars(WAccept)
  /\ \A c \in Clients :
       WF_allVars(/\ pc # "killed"
                  /\ (conn[c] = "open" /\ Talking /\ SendRequest(c)) \/ TakeUnit(c)
                  /\ UNCHANGED <<serverVars, file, winVars>>)

WFairSpec == WSpec /\ WFairness
-----------------------------------------------------------------------------
(* Properties *)

\* On Windows every exit of the function, after a failed handshake or a 404 in the
\* oneshot build too, has freed the context, the sockets and the session and has
\* given Winsock back.
WindowsReleases == windows /\ pc = "returned" => held = {} /\ ~wsa
=============================================================================
