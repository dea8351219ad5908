------------------------------ MODULE Framing -------------------------------
(***************************************************************************)
(* How requests cross the connection: sendfull hands a request to the      *)
(* socket in as many pieces as send takes, recvfull collects first the     *)
(* header and then the body out of a stream that does not keep the         *)
(* boundaries of the pieces.  The client may die between two pieces.       *)
(* A byte is <<m, k>>, the k-th of request m; the header comes first.      *)
(***************************************************************************)
EXTENDS Integers, Sequences

CONSTANTS
  HEADER,     \* the length of a header: sizeof(Request) - MAX_REQ_BYTES
  Bodies,     \* what a client sends: sequences of the lengths of the bodies
  Window      \* the bytes the connection holds

\* A body is a term and its final zero.
ASSUME FramingAssumption ==
  /\ HEADER \in Nat \ {0} /\ Window \in Nat \ {0}
  /\ \A lengths \in Bodies : lengths \in Seq(Nat \ {0})

VARIABLES
  bodies,       \* the lengths of the bodies of the requests of this client
  sending,      \* the request sendfull is at
  unsent,       \* its remaining bytes
  wire,         \* the bytes in the connection, in order
  closed,       \* the client's side is closed
  part,         \* what the server reads: "header" or "body"
  buf,          \* what recvfull has read of it
  accepted,     \* the requests handed to a worker, as they were read
  server        \* "reading", "removed" (the client was) or "error" (exit(-1))

framingVars == <<bodies, sending, unsent, wire, closed, part, buf, accepted, server>>

Bytes(m) == [k \in 1..(HEADER + bodies[m]) |-> <<m, k>>]

FramingInit ==
  /\ bodies \in Bodies
  /\ sending = 0 /\ unsent = <<>> /\ wire = <<>> /\ closed = FALSE
  /\ part = "header" /\ buf = <<>> /\ accepted = <<>> /\ server = "reading"

\* NetworkedClient::send of the next request.
StartSend ==
  /\ ~closed /\ unsent = <<>> /\ sending < Len(bodies)
  /\ sending' = sending + 1
  /\ unsent' = Bytes(sending + 1)
  /\ UNCHANGED <<bodies, wire, closed, part, buf, accepted, server>>

\* One send of sendfull takes a piece of any length there is room for.
SendPiece ==
  /\ ~closed /\ Len(wire) < Window
  /\ \E n \in 1..Len(unsent) :
       /\ Len(wire) + n <= Window
       /\ wire' = wire \o SubSeq(unsent, 1, n)
       /\ unsent' = SubSeq(unsent, n + 1, Len(unsent))
  /\ UNCHANGED <<bodies, sending, closed, part, buf, accepted, server>>

\* The client ends, between two requests or in one.
Close ==
  /\ ~closed
  /\ closed' = TRUE
  /\ UNCHANGED <<bodies, sending, unsent, wire, part, buf, accepted, server>>

\* The length recvfull was called with; the server reads len in the header, which
\* is that of the request the header came from.
Expected == IF part = "header" THEN HEADER ELSE bodies[buf[1][1]]
Read == IF part = "header" THEN Len(buf) ELSE Len(buf) - HEADER
Collecting == server = "reading" /\ Read < Expected

\* One recv of recvfull: it asks for len bytes, also when fewer remain.
RecvPiece ==
  /\ Collecting
  /\ \E n \in 1..Len(wire) :
       /\ n <= Expected
       /\ buf' = buf \o SubSeq(wire, 1, n)
       /\ wire' = SubSeq(wire, n + 1, Len(wire))
  /\ UNCHANGED <<bodies, sending, unsent, closed, part, accepted, server>>

\* An operator whose name ends in _Faulty is the one behind it with a plausible
\* mistake; no specification uses it.
EndOfStream_FaultyEmpty == wire = <<>>
EndOfStream == wire = <<>> /\ closed   \* recv returns 0
Whole_Faulty == Read >= Expected
Whole == Read = Expected

\* recvfull is over: it has what it wanted, or the stream is at its end.
Over ==
  /\ server = "reading"
  /\ Read >= Expected \/ EndOfStream

\* checkRecv: 0 bytes are taken for the end of the client, and a wrong number of
\* bytes ends the server.
ClientLeft ==
  /\ Over /\ Read = 0
  /\ server' = "removed"
  /\ UNCHANGED <<bodies, sending, unsent, wire, closed, part, buf, accepted>>

WrongLength ==
  /\ Over /\ Read # 0 /\ ~Whole
  /\ server' = "error"
  /\ UNCHANGED <<bodies, sending, unsent, wire, closed, part, buf, accepted>>

HeaderRead ==
  /\ Over /\ Read # 0 /\ Whole /\ part = "header"
  /\ part' = "body"
  /\ UNCHANGED <<bodies, sending, unsent, wire, closed, buf, accepted, server>>

BodyRead ==
  /\ Over /\ Read # 0 /\ Whole /\ part = "body"
  /\ accepted' = Append(accepted, buf)
  /\ buf' = <<>> /\ part' = "header"
  /\ UNCHANGED <<bodies, sending, unsent, wire, closed, server>>

SendStep == StartSend \/ SendPiece
ReadStep == RecvPiece \/ ClientLeft \/ WrongLength \/ HeaderRead \/ BodyRead

FramingNext == SendStep \/ Close \/ ReadStep

\* A request that lies in the connection is read, and the client goes on sending.
FramingSpec ==
  /\ FramingInit /\ [][FramingNext]_framingVars
  /\ WF_framingVars(SendStep) /\ WF_framingVars(ReadStep)
-----------------------------------------------------------------------------
(* Properties.                                                             *)

\* However the stream is cut into pieces, a worker gets the requests whole, each
\* once and in the order they were sent: a recv that runs into the next request,
\* as recvfull allows, is caught by checkRecv.
Intact ==
  \A m \in DOMAIN accepted : accepted[m] = Bytes(m)

\* A request that was sent whole is handed to a worker, also when its client has
\* left since, or the server gives up; and the server notices that a client has
\* left. The two loops over pieces do not wait for bytes that never come, and no
\* client is taken for one that left.
Sent(m) == sending > m \/ (sending = m /\ unsent = <<>>)
Settles ==
  /\ \A m \in UNION {DOMAIN lengths : lengths \in Bodies} :
       Sent(m) ~> Len(accepted) >= m \/ server = "error"
  /\ closed ~> server # "reading"
=============================================================================
