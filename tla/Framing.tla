-------------------------------- MODULE Framing --------------------------------
(***************************************************************************)
(* The frames between a client and the gateway.  Each message goes over    *)
(* the connection behind its length: the client's sendMessage and          *)
(* receiveMessage (src/examples/login/main.go) talk to the read loop of    *)
(* the TCP server (src/internal/network/tcp_server.go) and to the answers  *)
(* and broadcasts the gateway writes                                       *)
(* (src/internal/server/gateway_server.go).                                *)
(*                                                                         *)
(* Both sides take one Read for a whole header and one for a whole body,   *)
(* but a Read returns as soon as there is something: it may come short.    *)
(* And the gateway writes under a deadline, which may cut a Write: what    *)
(* was written until then stays in the stream.  A header and a body are    *)
(* two pieces each, enough for that.                                       *)
(***************************************************************************)
EXTENDS Naturals, Sequences, SequencesExt

CONSTANTS
    Heartbeats, \* of a client between its login and its logout (3 in runClient)
    MaxPushes   \* bound: broadcasts, each with its length, as Write demands

VARIABLES
    stream,  \* pieces on their way up, to the server, and down, to the client
    sent,    \* frames written in each direction
    taken,   \* history: frames read (see Takes), Garbage for what was none
    short,   \* history: a Read came short, or a Write was cut
    want,    \* length the reader has found in a header
    client,  \* the call the client is at, and where in it
    server,  \* where the handler of the connection is
    pushes   \* broadcasts so far

framingVars == <<stream, sent, taken, short, want, client, server, pushes>>

Directions == {"up", "down"}
BodySize == 2
MaxLength == 3  \* what a header that is none may say, or 0: too long or nothing
Garbage == 0
Logout == Heartbeats + 2  \* the calls: 1 is the login

FramingInit ==
    /\ stream = [d \in Directions |-> <<>>]
    /\ sent = [d \in Directions |-> 0]
    /\ taken = [d \in Directions |-> <<>>]
    /\ short = [d \in Directions |-> FALSE]
    /\ want = [d \in Directions |-> 0]
    /\ client = [call |-> 1, pc |-> "send"]
    /\ server = "header"
    /\ pushes = 0

\* Mutation: the length leaves the message's number out.
LengthOfData(f) == [frame |-> f, part |-> 2, length |-> BodySize - 1]

\* The last piece of a header, with the length of what follows.
LengthPiece(f) == [frame |-> f, part |-> 2, length |-> BodySize]

Header(f) == <<[frame |-> f, part |-> 1, length |-> 0], LengthPiece(f)>>
Body(f) == [i \in 1 .. BodySize |-> [frame |-> f, part |-> 2 + i, length |-> 0]]

\* A whole frame is written: sendMessage, or a Write that meets its deadline.
SendFrame(d) ==
    /\ sent' = [sent EXCEPT ![d] = @ + 1]
    /\ stream' = [stream EXCEPT ![d] = @ \o Header(sent'[d]) \o Body(sent'[d])]

\* The deadline passes when n pieces of the frame are written.
CutFrame(n) ==
    /\ sent' = [sent EXCEPT !["down"] = @ + 1]
    /\ stream' = [stream EXCEPT !["down"] =
                      @ \o SubSeq(Header(sent'["down"]) \o Body(sent'["down"]), 1, n)]
    /\ short' = [short EXCEPT !["down"] = TRUE]

\* Connection.Write of a frame to the client, if it is still there.  What the handler does
\* with the error of one that was cut, or that wrote nothing, is to log it.
WriteFrame ==
    \/ client.pc # "end" /\ SendFrame("down") /\ UNCHANGED short
    \/ client.pc # "end" /\ \E n \in 1 .. 3 : CutFrame(n)
    \/ UNCHANGED <<sent, stream, short>>

\* conn.Read into a buffer of size n returns k bytes.
Read(d, n, k) ==
    /\ k \in 1 .. n /\ k <= Len(stream[d])
    /\ stream' = [stream EXCEPT ![d] = SubSeq(@, k + 1, Len(@))]
    /\ short' = [short EXCEPT ![d] = @ \/ k < n]

\* Once the frames have shifted the last one only is remembered.
Takes(d, f) ==
    taken' = [taken EXCEPT ![d] = IF short'[d] THEN <<f>> ELSE Append(@, f)]

\* The length in what was read as a header; the rest of the buffer is zero.
ReadHeader(d, length) ==
    \E k \in 1 .. 2 :
        /\ Read(d, 2, k)
        /\ IF k = 2 /\ stream[d][1].part = 1 /\ stream[d][2].part = 2
           THEN length = stream[d][2].length
           ELSE length \in 0 .. MaxLength
        /\ want' = [want EXCEPT ![d] = length]
        /\ IF length = 0 THEN Takes(d, Garbage) ELSE UNCHANGED taken

\* What was read as a body of the length in the header.
ReadBody(d) ==
    \E k \in 1 .. want[d] :
        /\ Read(d, want[d], k)
        /\ Takes(d, LET f == stream[d][1].frame
                    IN IF SubSeq(stream[d], 1, k) = Body(f) THEN f ELSE Garbage)
        /\ want' = [want EXCEPT ![d] = 0]

-----------------------------------------------------------------------------
(* The client, runClient *)

ClientAt(pc) == client.pc = pc

\* Login must succeed; whatever comes of a heartbeat, the next call follows.
Returns(succeeds) ==
    client' = IF client.call = 1 /\ ~succeeds THEN [client EXCEPT !.pc = "end"]
              ELSE [call |-> client.call + 1, pc |-> "send"]

\* sendMessage; nobody waits for an answer to the logout.  On a closed connection it
\* fails, or its data is lost.
SendMessage ==
    /\ ClientAt("send")
    /\ IF server # "closed" THEN SendFrame("up") ELSE UNCHANGED <<sent, stream>>
    /\ client' = [client EXCEPT !.pc = IF client.call = Logout THEN "end" ELSE "header"]
    /\ UNCHANGED <<taken, short, want, server, pushes>>

SendFails ==
    /\ ClientAt("send") /\ server = "closed"
    /\ IF client.call = Logout THEN client' = [client EXCEPT !.pc = "end"] ELSE Returns(FALSE)
    /\ UNCHANGED <<stream, sent, taken, short, want, server, pushes>>

\* receiveMessage: the length; one that is not valid is an error of the call.
ReceiveHeader ==
    /\ ClientAt("header")
    /\ \E length \in 0 .. MaxLength :
          /\ ReadHeader("down", length)
          /\ IF length = 0 THEN Returns(FALSE) ELSE client' = [client EXCEPT !.pc = "body"]
    /\ UNCHANGED <<sent, server, pushes>>

\* The message, taken for the answer to the call whatever it is; a login may be refused.
ReceiveBody ==
    /\ ClientAt("body")
    /\ ReadBody("down")
    /\ Returns(TRUE) \/ Returns(FALSE)
    /\ UNCHANGED <<sent, server, pushes>>

\* A Read of a connection that the server has closed; what was on its way is lost.
ReceiveFails ==
    /\ client.pc \in {"header", "body"} /\ server = "closed"
    /\ Returns(FALSE)
    /\ stream' = [stream EXCEPT !["down"] = <<>>]
    /\ UNCHANGED <<sent, taken, short, want, server, pushes>>

-----------------------------------------------------------------------------
(* The server: handleConnection *)

\* The length: 0 or more than 1 MB closes the connection.
ServerHeader ==
    /\ server = "header"
    /\ \E length \in 0 .. MaxLength :
          /\ ReadHeader("up", length)
          /\ server' = IF length = 0 THEN "closed" ELSE "body"
    /\ UNCHANGED <<sent, client, pushes>>

ServerBody ==
    /\ server = "body"
    /\ ReadBody("up")
    /\ server' = "handle"
    /\ UNCHANGED <<sent, client, pushes>>

\* Mutation: no deadline, a Read fails when the client is gone only.
ReadFailsLate ==
    /\ server \in {"header", "body"} /\ ClientAt("end")
    /\ server' = "closed"
    /\ UNCHANGED <<stream, sent, taken, short, want, client, pushes>>

\* The deadline that each handled message puts off, or the connection breaks.
ReadFails ==
    /\ server \in {"header", "body"}
    /\ server' = "closed"
    /\ UNCHANGED <<stream, sent, taken, short, want, client, pushes>>

\* A logout is not answered and closes the connection; other requests are answered,
\* what does not parse is an error, and the loop goes on, whatever became of the answer.
HandleMessage ==
    LET f == Last(taken["up"]) IN
    /\ server = "handle"
    /\ server' = IF f = Logout THEN "closed" ELSE "header"
    /\ \/ f # Logout /\ WriteFrame
       \/ f \in {Logout, Garbage} /\ UNCHANGED <<sent, stream, short>>
    /\ UNCHANGED <<taken, want, client, pushes>>

\* Broadcast, between two answers, under the deadline of the last one.
Push ==
    /\ pushes < MaxPushes /\ server # "closed"
    /\ pushes' = pushes + 1
    /\ WriteFrame
    /\ UNCHANGED <<taken, want, client, server>>

-----------------------------------------------------------------------------
ClientStep == SendMessage \/ SendFails \/ ReceiveHeader \/ ReceiveBody \/ ReceiveFails
ServerStep == ServerHeader \/ ServerBody \/ HandleMessage

FramingNext == ClientStep \/ ServerStep \/ ReadFails \/ Push

-----------------------------------------------------------------------------
(* Properties *)

FramingTypeOK ==
    /\ client.call \in 1 .. Logout /\ client.pc \in {"send", "header", "body", "end"}
    /\ server \in {"header", "body", "handle", "closed"}
    /\ \A d \in Directions :
          /\ want[d] \in 0 .. MaxLength
          /\ \A i \in 1 .. Len(taken[d]) : taken[d][i] \in 0 .. sent[d]
          /\ \A i \in 1 .. Len(stream[d]) : stream[d][i].frame \in 1 .. sent[d]

\* Requests, answers and broadcasts, from the clients' two writes and from the
\* gateway's several writers, reach the other side's handler whole and in order, and
\* no length is refused, as long as no Read of that direction has come short and no
\* Write has been cut: one that wrote nothing shifts no frame.
FramesAligned ==
    \A d \in Directions :
        short[d] \/ taken[d] = [i \in 1 .. Len(taken[d]) |-> i]

\* However the frames have shifted, the client does not wait for ever for an answer
\* that the server, itself waiting for the rest of a request, will never send.
ClientEnds == client.pc # "end" ~> client.pc = "end"

=============================================================================
