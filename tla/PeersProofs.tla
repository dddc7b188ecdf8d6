---------------------------- MODULE PeersProofs ----------------------------
(***************************************************************************)
(* What the steps of Peers do, for any set of clients: which of them can   *)
(* make a connection live or end one, and which of them can add to what a  *)
(* client is given or take from it.                                        *)
(***************************************************************************)
EXTENDS Peers, SequenceTheorems, TLAPS

ConnType == conn \in [Clients -> ConnStates]

LEMMA LiveStates == Live \subseteq ConnStates /\ {"queued", "none", "finished", "broken"} \cap Live = {}
BY DEF Live, ConnStates

\* Accepting a connection makes no other one live.
LEMMA AdmitConn ==
  ASSUME ConnType, NEW c \in Clients, Admit(c)
  PROVE  /\ ConnType'
         /\ \A d \in Clients \ {c} : conn'[d] = conn[d]
BY DEF Admit, ConnType, ConnStates, Live

\* A write changes no connection but its own, and does not end it.
LEMMA DeliverConn ==
  ASSUME ConnType, NEW c \in Clients, NEW u, Deliver(c, u)
  PROVE  /\ ConnType'
         /\ \A d \in Clients : conn'[d] \in Live <=> conn[d] \in Live
BY DEF Deliver, ConnType, ConnStates, Live

\* A closed connection is not live; the others stay as they are.
LEMMA CloseConnConn ==
  ASSUME ConnType, NEW c \in Clients, CloseConn(c)
  PROVE  /\ ConnType'
         /\ conn'[c] \notin Live
         /\ \A d \in Clients \ {c} : conn'[d] = conn[d]
BY DEF CloseConn, ConnType, ConnStates, Live

\* No step of a client makes a connection live.
LEMMA ClientConn ==
  ASSUME ConnType, NEW c \in Clients,
         Connect(c) \/ SendRequest(c) \/ TakeUnit(c) \/ HangUp(c)
  PROVE  /\ ConnType'
         /\ \A d \in Clients : conn'[d] \in Live <=> conn[d] \in Live
<1>1. CASE Connect(c)
  BY <1>1 DEF Connect, ConnType, ConnStates, Live
<1>2. CASE SendRequest(c)
  BY <1>2 DEF SendRequest, ConnType
<1>3. CASE TakeUnit(c)
  BY <1>3 DEF TakeUnit, ConnType, ConnStates, Live
<1>4. CASE HangUp(c)
  BY <1>4 DEF HangUp, ConnType, ConnStates, Live
<1>. QED BY <1>1, <1>2, <1>3, <1>4
-----------------------------------------------------------------------------
(* The responses *)

Kinds      == {"200", "404", "500", "data", "junk", "close_notify"}
Unit       == [kind : Kinds, claimed : Int, body : Nat]
StreamType == wire \in [Clients -> Seq(Unit)] /\ seen \in [Clients -> Seq(Unit)]

\* A connection whose client still takes what it is sent.
Reached(c)  == conn[c] \in {"open", "bye"}
NotYet(c)   == conn[c] \in {"none", "queued", "queued_hungup"}

IsBeginning(s, t) == Len(s) <= Len(t) /\ \A i \in 1 .. Len(s) : s[i] = t[i]

LEMMA ConcatAppend ==
  ASSUME NEW S, NEW s \in Seq(S), NEW t \in Seq(S), NEW x \in S
  PROVE  s \o Append(t, x) = Append(s \o t, x)
OBVIOUS

LEMMA ConcatTake ==
  ASSUME NEW S, NEW s \in Seq(S), NEW t \in Seq(S), t # <<>>
  PROVE  /\ Append(s, Head(t)) \in Seq(S) /\ Tail(t) \in Seq(S)
         /\ Append(s, Head(t)) \o Tail(t) = s \o t
OBVIOUS

LEMMA ConcatBeginning ==
  ASSUME NEW S, NEW s \in Seq(S), NEW t \in Seq(S)
  PROVE  IsBeginning(s, s \o t)
BY DEF IsBeginning

\* What is left of a response starts as the response did.
LEMMA BeginningFirst ==
  ASSUME NEW S, NEW s \in Seq(S), NEW t \in Seq(S), IsBeginning(s, t)
  PROVE  s # <<>> => t # <<>> /\ s[1] = t[1]
BY DEF IsBeginning

LEMMA UnitTypes ==
  /\ {NotFound, Data, Junk, Notify} \subseteq Unit
  /\ \A n \in Int : Header(n) \in Unit
<1>1. NotFound \in Unit
  BY DEF Unit, Kinds, NotFound
<1>2. {Data, Junk} \subseteq Unit
  BY DEF Unit, Kinds, Data, Junk
<1>3. Notify \in Unit
  BY DEF Unit, Kinds, Notify
<1>4. ASSUME NEW n \in Int PROVE Header(n) \in Unit
  BY DEF Unit, Kinds, Header
<1>. QED BY <1>1, <1>2, <1>3, <1>4

\* Without the close_notify that ends it, a response is what it was before.
LEMMA AppendNotify ==
  ASSUME NEW s \in Seq(Unit)
  PROVE  Unclosed(Append(s, Notify)) = s
<1>1. Notify \in Unit
  BY UnitTypes
<1>2. /\ Append(s, Notify) \in Seq(Unit) /\ Append(s, Notify) # <<>>
      /\ Len(Append(s, Notify)) = Len(s) + 1 /\ Append(s, Notify)[Len(s) + 1] = Notify
      /\ \A i \in 1 .. Len(s) : Append(s, Notify)[i] = s[i]
      /\ Len(s) \in Nat
  BY <1>1, AppendProperties
<1>3. Unclosed(Append(s, Notify)) = SubSeq(Append(s, Notify), 1, Len(s))
  BY <1>2 DEF Unclosed, Closed
<1>. QED BY <1>2, <1>3

LEMMA UnclosedFirst ==
  ASSUME NEW s \in Seq(Unit), Unclosed(s) # <<>>
  PROVE  s # <<>> /\ Unclosed(s)[1] = s[1]
<1>1. CASE Closed(s)
  <2>1. Unclosed(s) = SubSeq(s, 1, Len(s) - 1) /\ s # <<>>
    BY <1>1 DEF Unclosed, Closed
  <2>. QED BY <2>1
<1>. QED BY <1>1 DEF Unclosed

LEMMA StreamIsSeq == ASSUME StreamType, NEW c \in Clients PROVE Stream(c) \in Seq(Unit)
BY ConcatProperties DEF StreamType, Stream

LEMMA StreamFrame ==
  ASSUME UNCHANGED <<wire, seen>>
  PROVE  /\ StreamType => StreamType'
         /\ \A c \in Clients : Stream(c)' = Stream(c)
BY DEF StreamType, Stream

\* A write adds its unit to what an open connection has been given; once the
\* client has gone, it adds nothing, and the client does not come back.
LEMMA DeliverStream ==
  ASSUME ConnType, StreamType, NEW c \in Clients, NEW u \in Unit, Deliver(c, u)
  PROVE  /\ StreamType'
         /\ \A d \in Clients \ {c} : Stream(d)' = Stream(d) /\ conn'[d] = conn[d]
         /\ \/ conn[c] = "open" /\ conn'[c] = "open" /\ Stream(c)' = Append(Stream(c), u)
            \/ /\ {conn[c], conn'[c]} \subseteq {"hungup", "reset", "aborted"}
               /\ Stream(c)' = Stream(c)
<1>1. CASE conn[c] = "open"
  <2>1. wire' = [wire EXCEPT ![c] = Append(@, u)] /\ UNCHANGED <<conn, seen>>
    BY <1>1 DEF Deliver
  <2>2. wire[c] \in Seq(Unit) /\ seen[c] \in Seq(Unit)
    BY DEF StreamType
  <2>3. Append(wire[c], u) \in Seq(Unit)
    BY <2>2, AppendProperties
  <2>4. wire'[c] = Append(wire[c], u) /\ \A d \in Clients \ {c} : wire'[d] = wire[d]
    BY <2>1 DEF StreamType
  <2>5. StreamType'
    BY <2>1, <2>3 DEF StreamType
  <2>6. seen[c] \o Append(wire[c], u) = Append(seen[c] \o wire[c], u)
    <3>1. \A s, t \in Seq(Unit) : s \o Append(t, u) = Append(s \o t, u)
      BY ConcatAppend
    <3>. QED BY <2>2, <3>1, Zenon
  <2>. QED BY <1>1, <2>1, <2>4, <2>5, <2>6 DEF Stream
<1>2. CASE conn[c] # "open"
  <2>1. UNCHANGED <<wire, seen>>
    BY <1>2 DEF Deliver
  <2>2. conn[c] \in {"hungup", "reset", "aborted"} /\ conn'[c] \in {"hungup", "reset", "aborted"}
    BY <1>2 DEF Deliver, ConnType
  <2>3. \A d \in Clients \ {c} : conn'[d] = conn[d]
    BY <1>2 DEF Deliver, ConnType
  <2>. QED BY <2>1, <2>2, <2>3, StreamFrame
<1>. QED BY <1>1, <1>2

\* What a client takes stays in its stream.
LEMMA TakeStream ==
  ASSUME ConnType, StreamType, NEW c \in Clients, TakeUnit(c)
  PROVE  /\ StreamType'
         /\ \A d \in Clients : Stream(d)' = Stream(d)
         /\ \A d \in Clients : conn'[d] = conn[d] \/ (conn[d] = "open" /\ conn'[d] = "bye")
<1>1. wire[c] \in Seq(Unit) /\ seen[c] \in Seq(Unit) /\ wire[c] # <<>>
  BY DEF TakeUnit, StreamType
<1>2. wire' = [wire EXCEPT ![c] = Tail(wire[c])]
      /\ seen' = [seen EXCEPT ![c] = Append(seen[c], Head(wire[c]))]
  BY DEF TakeUnit
<1>3. Append(seen[c], Head(wire[c])) \in Seq(Unit) /\ Tail(wire[c]) \in Seq(Unit)
      /\ Append(seen[c], Head(wire[c])) \o Tail(wire[c]) = seen[c] \o wire[c]
  BY <1>1, ConcatTake
<1>4. StreamType'
  BY <1>2, <1>3 DEF StreamType
<1>5. \A d \in Clients : Stream(d)' = Stream(d)
  BY <1>2, <1>3 DEF StreamType, Stream
<1>6. \A d \in Clients : conn'[d] = conn[d] \/ (conn[d] = "open" /\ conn'[d] = "bye")
  <2>1. \E s \in {conn[c], "bye"} :
          conn' = [conn EXCEPT ![c] = s] /\ (s = conn[c] \/ conn[c] = "open")
    BY DEF TakeUnit
  <2>. QED BY <2>1 DEF ConnType
<1>. QED BY <1>4, <1>5, <1>6

\* What the connection still held may be lost; what the client has taken is not.
LEMMA CutStream ==
  ASSUME StreamType, NEW c \in Clients,
         wire' = [wire EXCEPT ![c] = <<>>], UNCHANGED seen
  PROVE  /\ StreamType'
         /\ \A d \in Clients \ {c} : Stream(d)' = Stream(d)
         /\ IsBeginning(Stream(c)', Stream(c))
<1>1. wire'[c] = <<>> /\ \A d \in Clients \ {c} : wire'[d] = wire[d]
  BY DEF StreamType
<1>2. Stream(c)' = seen[c]
  BY <1>1, ConcatEmptySeq DEF StreamType, Stream
<1>3. IsBeginning(seen[c], Stream(c))
  <2>1. seen[c] \in Seq(Unit) /\ wire[c] \in Seq(Unit)
    BY DEF StreamType
  <2>. QED BY <2>1, ConcatBeginning DEF Stream
<1>4. StreamType'
  BY DEF StreamType
<1>. QED BY <1>1, <1>2, <1>3, <1>4 DEF Stream

\* A client that hangs up loses at most what it has not taken.
LEMMA HangUpStream ==
  ASSUME ConnType, StreamType, NEW c \in Clients, HangUp(c)
  PROVE  /\ StreamType'
         /\ \A d \in Clients \ {c} : Stream(d)' = Stream(d) /\ conn'[d] = conn[d]
         /\ IsBeginning(Stream(c)', Stream(c))
         /\ \/ conn[c] = "queued" /\ conn'[c] = "queued_hungup"
            \/ conn[c] = "open" /\ conn'[c] \in {"hungup", "aborted"}
<1>1. wire' = [wire EXCEPT ![c] = <<>>] /\ UNCHANGED seen
  BY DEF HangUp
<1>2. \A d \in Clients \ {c} : conn'[d] = conn[d]
  BY DEF HangUp, ConnType
<1>3. \/ conn[c] = "queued" /\ conn'[c] = "queued_hungup"
      \/ conn[c] = "open" /\ conn'[c] \in {"hungup", "aborted"}
  BY DEF HangUp, ConnType
<1>. QED BY <1>1, <1>2, <1>3, CutStream

\* A close in good order takes nothing back; it needs a client that is there.
LEMMA CloseStream ==
  ASSUME ConnType, StreamType, NEW c \in Clients, CloseConn(c)
  PROVE  /\ StreamType'
         /\ \A d \in Clients \ {c} : Stream(d)' = Stream(d) /\ conn'[d] = conn[d]
         /\ \/ Reached(c) /\ conn'[c] = "finished" /\ Stream(c)' = Stream(c)
            \/ conn'[c] = "broken" /\ IsBeginning(Stream(c)', Stream(c))
<1>1. seen' = seen /\ \A d \in Clients \ {c} : conn'[d] = conn[d]
  BY DEF CloseConn, ConnType
<1>2. CASE Reached(c) /\ inbox[c] = 0
  <2>1. conn'[c] = "finished" /\ wire' = wire
    BY <1>2 DEF CloseConn, ConnType, Reached, StreamType
  <2>. QED BY <1>1, <1>2, <2>1, StreamFrame
<1>3. CASE ~(Reached(c) /\ inbox[c] = 0)
  <2>1. conn'[c] = "broken" /\ wire' = [wire EXCEPT ![c] = <<>>]
    BY <1>3 DEF CloseConn, ConnType, Reached
  <2>. QED BY <1>1, <2>1, CutStream
<1>. QED BY <1>2, <1>3
=============================================================================
