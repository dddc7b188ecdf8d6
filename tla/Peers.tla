------------------------------- MODULE Peers -------------------------------
(***************************************************************************)
(* What surrounds http_server and https_server: their clients, the TCP     *)
(* connections between them, and the file that is served.  None of it is   *)
(* code of the library: this is what its calls of the socket and the file  *)
(* interface rely on.                                                      *)
(*                                                                         *)
(* A response is a sequence of units: a header or a short response that    *)
(* goes out whole, the parts of a body, and the close_notify of TLS.       *)
(***************************************************************************)
EXTENDS Integers, Sequences, FiniteSets

CONSTANTS
  Clients,    \* the clients that may connect, once each
  NoClient,   \* no client
  FileSizes,  \* the sizes the file may have, in units
  SockBuf,    \* units a connection holds before a write to it blocks
  Segments,   \* segments of a request
  MayHangUp,  \* clients may close the connection at any time
  MayChange   \* the file may change while it is served

Missing == -1   \* the size of a file that cannot be opened

ASSUME PeersAssumption ==
  /\ IsFiniteSet(Clients) /\ NoClient \notin Clients
  /\ FileSizes \subseteq Nat \cup {Missing}
  /\ {SockBuf, Segments} \subseteq Nat \ {0}
  /\ {MayHangUp, MayChange} \subseteq BOOLEAN

\* The Content-Length a unit claims, if it has one, and the length of the body
\* it carries.
Header(n) == [kind |-> "200", claimed |-> n, body |-> 0]
NotFound  == [kind |-> "404", claimed |-> 13, body |-> 13]
Data      == [kind |-> "data", claimed |-> 0, body |-> 1]
Junk      == [kind |-> "junk", claimed |-> 0, body |-> 1]   \* memory never written
Notify    == [kind |-> "close_notify", claimed |-> 0, body |-> 0]

VARIABLES
  file,   \* the size of the file, or Missing
  conn,   \* conn[c]: the state of the connection of client c
  sent,   \* sent[c]: segments of the request the client has sent
  inbox,  \* inbox[c]: segments of the request that have not been read
  wire,   \* wire[c]: units of the response in the connection's buffer
  seen    \* seen[c]: units of the response the client has taken

peerVars == <<conn, sent, inbox, wire, seen>>

\* queued: established, not accepted; hungup and aborted: closed by the client,
\* with nothing or with something of the response left untaken; reset: a write
\* after the client hung up was refused; bye: the client has answered
\* close_notify; finished and broken: closed by the server, in order or not.
Live       == {"open", "bye", "hungup", "reset", "aborted"}
ConnStates == Live \cup {"none", "queued", "queued_hungup", "finished", "broken"}

PeersInit ==
  /\ file \in FileSizes
  /\ conn = [c \in Clients |-> "none"]
  /\ sent = [c \in Clients |-> 0]
  /\ inbox = [c \in Clients |-> 0]
  /\ wire = [c \in Clients |-> <<>>]
  /\ seen = [c \in Clients |-> <<>>]

Pending(c)  == conn[c] \in {"queued", "queued_hungup"}
NobodyWaits == \A c \in Clients : ~Pending(c)

-----------------------------------------------------------------------------
(* What the calls of the server do *)

\* accept
Admit(c) ==
  /\ Pending(c)
  /\ conn' = [conn EXCEPT ![c] = IF @ = "queued" THEN "open" ELSE "hungup"]
  /\ UNCHANGED <<sent, inbox, wire, seen>>

\* A write of one unit, which waits for room.  To a client that has hung up it is
\* lost and may be answered by a reset at any time; after that, and after an
\* abort, it fails.
Deliver(c, u) ==
  /\ \/ /\ conn[c] = "open"
        /\ Len(wire[c]) < SockBuf
        /\ wire' = [wire EXCEPT ![c] = Append(@, u)]
        /\ UNCHANGED conn
     \/ /\ conn[c] = "hungup"
        /\ \E s \in {"hungup", "reset"} : conn' = [conn EXCEPT ![c] = s]
        /\ UNCHANGED wire
     \/ /\ conn[c] \in {"reset", "aborted"}
        /\ UNCHANGED <<conn, wire>>
  /\ UNCHANGED <<sent, inbox, seen>>

\* close: what was written still reaches the client, unless part of the request
\* was left unread, which makes the close a reset that discards it.
CloseConn(c) ==
  LET inOrder == conn[c] \in {"open", "bye"} /\ inbox[c] = 0 IN
  /\ conn' = [conn EXCEPT ![c] = IF inOrder THEN "finished" ELSE "broken"]
  /\ wire' = [wire EXCEPT ![c] = IF inOrder THEN @ ELSE <<>>]
  /\ UNCHANGED <<sent, inbox, seen>>

-----------------------------------------------------------------------------
(* What the clients do *)

Connect(c) ==
  /\ conn[c] = "none"
  /\ conn' = [conn EXCEPT ![c] = "queued"]
  /\ UNCHANGED <<sent, inbox, wire, seen>>

SendRequest(c) ==
  /\ conn[c] \in {"queued", "open"}
  /\ sent[c] < Segments
  /\ sent' = [sent EXCEPT ![c] = @ + 1]
  /\ inbox' = [inbox EXCEPT ![c] = @ + 1]
  /\ UNCHANGED <<conn, wire, seen>>

\* The client takes a unit of the response; it answers close_notify with its own.
TakeUnit(c) ==
  /\ conn[c] \in {"open", "finished"}
  /\ wire[c] # <<>>
  /\ seen' = [seen EXCEPT ![c] = Append(@, Head(wire[c]))]
  /\ wire' = [wire EXCEPT ![c] = Tail(@)]
  /\ conn' = [conn EXCEPT ![c] = IF @ = "open" /\ Head(wire[c]) = Notify THEN "bye" ELSE @]
  /\ UNCHANGED <<sent, inbox>>

HangUp(c) ==
  /\ MayHangUp
  /\ \/ /\ conn[c] = "queued"
        /\ conn' = [conn EXCEPT ![c] = "queued_hungup"]
     \/ /\ conn[c] = "open"
        /\ conn' = [conn EXCEPT ![c] = IF wire[c] = <<>> THEN "hungup" ELSE "aborted"]
  /\ wire' = [wire EXCEPT ![c] = <<>>]
  /\ UNCHANGED <<sent, inbox, seen>>

\* The file grows, shrinks, appears or is removed.  Removing it while the server
\* has it open does not touch what the server reads, so it is as if it happened
\* afterwards.
ChangeFile(isOpen) ==
  /\ MayChange
  /\ file' \in FileSizes \ {file}
  /\ Missing \in {file, file'} => ~isOpen

-----------------------------------------------------------------------------

\* What the client has and what is on the way to it.
Stream(c) == seen[c] \o wire[c]

\* The same without the close_notify that ends it.
Closed(s)   == s # <<>> /\ s[Len(s)] = Notify
Unclosed(s) == IF Closed(s) THEN SubSeq(s, 1, Len(s) - 1) ELSE s
Response(c) == Unclosed(Stream(c))

PeersTypeOK(units) ==
  /\ file \in FileSizes
  /\ conn \in [Clients -> ConnStates]
  /\ \A c \in Clients :
       /\ sent[c] \in 0 .. Segments
       /\ inbox[c] \in 0 .. sent[c]
       /\ wire[c] \in Seq(units) /\ seen[c] \in Seq(units)
       /\ Len(wire[c]) <= SockBuf
=============================================================================
