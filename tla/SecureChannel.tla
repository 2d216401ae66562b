---------------------------- MODULE SecureChannel ----------------------------
(***************************************************************************)
(* One connection from the hello to the close: the client's handshakes     *)
(* (src/ws/client/connection_loop.rs), accept_ws_session                   *)
(* (src/ws/server/mod.rs), and the way of frames through encode_frame,     *)
(* encrypt_chunked, the WebSocket, read_message, feed and decode_frame in  *)
(* both message loops.                                                     *)
(*                                                                         *)
(* The two wires are ordered and lose nothing while the connection is up.  *)
(* Timers are not timed; when the loops send is left open.                 *)
(***************************************************************************)
EXTENDS FrameCodec, NoiseSession, SequencesExt

CONSTANTS
    Protocol,       \* protocol_name and protocol_version of the server
    Protocols,      \* what the client may be configured with
    Sizes,          \* sizes of frames that are sent; none is empty
    Window,         \* chunks that the buffers towards each end hold
    MaxFrames,      \* bound: frames an end sends
    MaxFaults       \* bound: cuts and failures of the heartbeat to send

ASSUME SecureChannelAssumption ==
    /\ Protocol \in Protocols
    /\ Sizes \subseteq Nat \ {0}
    /\ Window \in [{"client", "server"} -> Nat \ {0}]
    /\ MaxFrames \in Nat /\ MaxFaults \in Nat

Ends     == {"client", "server"}
Other(e) == IF e = "client" THEN "server" ELSE "client"

VARIABLES
    hello,      \* the client's protocol name and version
    withAuth,   \* auth_payload() returns bytes
    pc,         \* await point of each end
    up,         \* the connection is not cut
    wire,       \* messages on their way to each end
    noise,      \* NoiseSession of each end
    unsent,     \* chunks of the frame an end is sending
    acc,        \* FrameAccumulator of each end
    waiting,    \* waiting_for_pong of each end
    sent, got,  \* history: frames sent and received by each end
    faults,     \* cuts and failed pings so far
    fault       \* history: something happened that may end the connection

conn == <<hello, withAuth>>
vars == <<conn, pc, up, wire, noise, unsent, acc, waiting, sent, got, faults, fault>>

Running(e) == pc[e] \in {"Online", "Session"}
\* The client also receives and sends frames while it logs in.
Talking(e) == Running(e) \/ pc[e] = "AuthReply"
Ended(e)   == pc[e] \in {"Closed", "VersionMismatch"}

Frames  == [no : 0..MaxFrames, id : {0, 1}, size : Nat]
Bytes   == UNION {{<<f, i>> : i \in 1..(LenBytes + f.size)} :
                    f \in [no : 1..MaxFrames, id : {0, 1}, size : Sizes]}

Packets  == [step : 0..3, nonce : Nat, plain : Seq(Bytes)]
Words    == Protocols \cup {"PROTOCOL_ACCEPTED", "PROTOCOL_REJECTED"}
Messages == [type : {"text"}, text : Words] \cup [type : {"binary"}, packet : Packets]

ClientPoints == {"Start", "Version", "NoiseReply", "Auth", "AuthReply", "Online",
                 "Closed", "VersionMismatch"}
ServerPoints == {"Version", "NoiseE", "NoiseS", "Session", "Closed"}

TypeOK ==
    /\ hello \in Protocols /\ withAuth \in BOOLEAN /\ up \in BOOLEAN
    /\ pc \in [Ends -> ClientPoints \cup ServerPoints]
    /\ pc["client"] \in ClientPoints /\ pc["server"] \in ServerPoints
    /\ wire \in [Ends -> Seq(Messages)]
    /\ noise \in [Ends -> Sessions]
    /\ unsent \in [Ends -> Seq(Packets)]
    /\ acc \in [Ends -> [expected : 0..MaxBytes, buffer : Seq(Bytes)]]
    /\ waiting \in [Ends -> BOOLEAN]
    /\ sent \in [Ends -> Seq(Frames)] /\ got \in [Ends -> Seq(Frames)]
    /\ faults \in 0..MaxFaults /\ fault \in BOOLEAN

Init ==
    /\ hello \in Protocols /\ withAuth \in BOOLEAN
    /\ pc = [client |-> "Start", server |-> "Version"]
    /\ up = TRUE
    /\ wire = [e \in Ends |-> <<>>]
    /\ noise = [client |-> Session("initiator"), server |-> Session("responder")]
    /\ unsent = [e \in Ends |-> <<>>]
    /\ acc = [e \in Ends |-> Idle]
    /\ waiting = [e \in Ends |-> FALSE]
    /\ sent = [e \in Ends |-> <<>>] /\ got = [e \in Ends |-> <<>>]
    /\ faults = 0 /\ fault = FALSE

-----------------------------------------------------------------------------
(***************************************************************************)
(* The socket.                                                             *)
(***************************************************************************)

\* Messages of the WebSocket: texts, and binary ones that carry a packet.
Text(t)   == [type |-> "text", text |-> t]
Binary(p) == [type |-> "binary", packet |-> p]
HasBinary(e) == wire[e] # <<>> /\ Head(wire[e]).type = "binary"
Read(e)   == Head(wire[e]).packet

\* What is sent into a broken connection, or to an end that is gone, is lost.
Arrives(e, ms) == IF up /\ ~Ended(Other(e)) THEN wire[Other(e)] \o ms
                                             ELSE wire[Other(e)]

\* e takes its next message and answers with ms.
Consume(e, ms) == wire' = [wire EXCEPT ![e] = Tail(@), ![Other(e)] = Arrives(e, ms)]
Goto(e, l)     == pc' = [pc EXCEPT ![e] = l]

\* e gives up: its socket is dropped with everything in it.
Leave(e) ==
    /\ Goto(e, "Closed")
    /\ wire' = [wire EXCEPT ![e] = <<>>]
    /\ unsent' = [unsent EXCEPT ![e] = <<>>]
    /\ acc' = [acc EXCEPT ![e] = Idle]

\* The environment intervenes.
Fault == faults < MaxFaults /\ faults' = faults + 1 /\ fault' = TRUE

Cut ==
    /\ up /\ up' = FALSE /\ Fault
    /\ UNCHANGED <<conn, pc, wire, noise, unsent, acc, waiting, sent, got>>

\* ws.next() yields an error, the end of the stream or a Close; ws.send an error.
\* While auth_payload() is awaited nobody looks at the socket.
SocketFails(e) ==
    /\ ~Ended(e) /\ pc[e] # "Auth"
    /\ ~up \/ (Ended(Other(e)) /\ (wire[e] = <<>> \/ unsent[e] # <<>>))
    /\ Leave(e)
    /\ UNCHANGED <<conn, faults, up, noise, waiting, sent, got, fault>>

-----------------------------------------------------------------------------
(***************************************************************************)
(* The handshakes.                                                         *)
(***************************************************************************)

SendHello ==
    /\ pc["client"] = "Start"
    /\ Goto("client", "Version")
    /\ wire' = [wire EXCEPT !["server"] = Arrives("client", <<Text(hello)>>)]
    /\ UNCHANGED <<conn, faults, up, noise, unsent, acc, waiting, sent, got, fault>>

\* Mutant: only the name is compared.
ServerVersionByName ==
    /\ pc["server"] = "Version" /\ wire["server"] # <<>>
    /\ Consume("server", <<Text("PROTOCOL_ACCEPTED")>>)
    /\ Goto("server", "NoiseE")
    /\ UNCHANGED <<conn, faults, up, noise, unsent, acc, waiting, sent, got, fault>>

\* The hello is compared; name and version must both match.
ServerVersion ==
    /\ pc["server"] = "Version" /\ wire["server"] # <<>>
    /\ IF Head(wire["server"]).text = Protocol
       THEN /\ Consume("server", <<Text("PROTOCOL_ACCEPTED")>>)
            /\ Goto("server", "NoiseE")
       ELSE /\ Consume("server", <<Text("PROTOCOL_REJECTED")>>)
            /\ Goto("server", "Closed")
    /\ UNCHANGED <<conn, faults, up, noise, unsent, acc, waiting, sent, got, fault>>

\* A rejected client parks. An accepted one sends the first Noise message.
ClientVersion ==
    /\ pc["client"] = "Version" /\ wire["client"] # <<>>
    /\ IF Head(wire["client"]).text = "PROTOCOL_ACCEPTED"
       THEN /\ Consume("client", <<Binary(Packet(noise["client"], <<>>))>>)
            /\ noise' = [noise EXCEPT !["client"] = AfterWrite(@)]
            /\ Goto("client", "NoiseReply")
       ELSE /\ Consume("client", <<>>)
            /\ Goto("client", "VersionMismatch")
            /\ UNCHANGED noise
    /\ UNCHANGED <<conn, faults, up, unsent, acc, waiting, sent, got, fault>>

\* An end reads a handshake message and, if it has a turn left, writes the next.
NoiseStep(e, next) ==
    /\ HasBinary(e)
    /\ LET s == AfterRead(noise[e], Read(e)) IN
       IF s.mode = "none"
       THEN /\ noise' = [noise EXCEPT ![e] = s]
            /\ Leave(e)
       ELSE /\ Goto(e, next)
            /\ IF IsFinished(s)
               THEN /\ Consume(e, <<>>)
                    /\ noise' = [noise EXCEPT ![e] = s]
               ELSE /\ Consume(e, <<Binary(Packet(s, <<>>))>>)
                    /\ noise' = [noise EXCEPT ![e] = AfterWrite(s)]
            /\ UNCHANGED <<unsent, acc>>
    /\ UNCHANGED <<conn, faults, up, waiting, sent, got, fault>>

ServerNoiseE == pc["server"] = "NoiseE" /\ NoiseStep("server", "NoiseS")
ClientNoise  == pc["client"] = "NoiseReply" /\ NoiseStep("client", "Auth")
\* The session starts: handle, inbox and task exist.
ServerNoiseS == pc["server"] = "NoiseS" /\ NoiseStep("server", "Session")

-----------------------------------------------------------------------------
(***************************************************************************)
(* Frames.                                                                 *)
(***************************************************************************)

\* Mutant: the nonces of a frame's chunks are not used up.
TransmitStale(e, id, size) ==
    LET f == [no |-> Len(sent[e]) + 1, id |-> id, size |-> size]
        chunks == ChunksOfBytes(Encode(f))
    IN /\ unsent[e] = <<>> /\ Len(sent[e]) < MaxFrames
       /\ IsFinished(noise[e])
       /\ unsent' = [unsent EXCEPT ![e] = EncryptChunked(noise[e], chunks)]
       /\ sent' = [sent EXCEPT ![e] = Append(@, f)]
       /\ UNCHANGED noise

\* e encodes a frame and encrypts all its chunks, then sends them one by one.
Transmit(e, id, size) ==
    LET f == [no |-> Len(sent[e]) + 1, id |-> id, size |-> size]
        chunks == ChunksOfBytes(Encode(f))
    IN /\ unsent[e] = <<>> /\ Len(sent[e]) < MaxFrames
       /\ IsFinished(noise[e])
       /\ unsent' = [unsent EXCEPT ![e] = EncryptChunked(noise[e], chunks)]
       /\ sent' = [sent EXCEPT ![e] = Append(@, f)]
       /\ noise' = [noise EXCEPT ![e] = AfterEncrypt(@, chunks)]

\* The receiver refuses the frame, or the prefix cannot hold its length.
TooLarge(size) == size > MaxBytes \/ size >= LenRange

\* handle_auth with and without a payload; the auth frame has id 1.
Authenticate(size) ==
    /\ pc["client"] = "Auth" /\ withAuth
    /\ Transmit("client", 1, size)
    /\ Goto("client", "AuthReply")
    /\ fault' = (fault \/ TooLarge(size))
    /\ UNCHANGED <<conn, faults, up, wire, acc, waiting, got>>

SkipAuth ==
    /\ pc["client"] = "Auth" /\ ~withAuth
    /\ Goto("client", "Online")
    /\ UNCHANGED <<conn, faults, up, wire, noise, unsent, acc, waiting, sent, got, fault>>

HasId1(frames) == \E i \in 1..Len(frames) : frames[i].id = 1

\* The server's application answers the auth frame once.
AuthResponse(size) ==
    /\ pc["server"] = "Session" /\ HasId1(got["server"]) /\ ~HasId1(sent["server"])
    /\ Transmit("server", 1, size)
    /\ fault' = (fault \/ TooLarge(size))
    /\ UNCHANGED <<conn, faults, pc, up, wire, acc, waiting, got>>

\* Any other frame, Pings and Pongs included. What the server sends before its
\* answer to the auth frame may end the login.
SendFrame(e, size) ==
    /\ Running(e)
    /\ Transmit(e, 0, size)
    /\ fault' = \/ fault
                \/ TooLarge(size)
                \/ e = "server" /\ withAuth /\ ~HasId1(sent[e])
    /\ UNCHANGED <<conn, faults, pc, up, wire, acc, waiting, got>>

\* A frame is to be sent and encrypt_chunked fails: unlike the heartbeat, the
\* branch that sends leaves the loop.
EncryptFails(e) ==
    /\ Running(e) /\ unsent[e] = <<>> /\ ~IsFinished(noise[e])
    /\ Leave(e)
    /\ UNCHANGED <<conn, faults, up, noise, waiting, sent, got, fault>>

\* ws.send waits for room; meanwhile the loop neither reads nor pings.
SendChunk(e) ==
    /\ unsent[e] # <<>>
    /\ Len(wire[Other(e)]) < Window[Other(e)]
    /\ wire' = [wire EXCEPT ![Other(e)] = Arrives(e, <<Binary(Head(unsent[e]))>>)]
    /\ unsent' = [unsent EXCEPT ![e] = Tail(@)]
    /\ UNCHANGED <<conn, faults, pc, up, noise, acc, waiting, sent, got, fault>>

\* The heartbeat ignores an error of ws.send: the nonce is used up, the packet
\* is not on the wire, and the loop goes on.
PingLost(e) ==
    /\ Running(e) /\ unsent[e] = <<>> /\ ~waiting[e] /\ IsFinished(noise[e])
    /\ noise' = [noise EXCEPT ![e] = AfterWrite(@)]
    /\ waiting' = [waiting EXCEPT ![e] = TRUE]
    /\ Fault
    /\ UNCHANGED <<conn, pc, up, wire, unsent, acc, sent, got>>

\* Mutant: nothing is awaited when no ping was sent.
PingBrokenForgotten(e) ==
    /\ Running(e) /\ unsent[e] = <<>> /\ ~waiting[e] /\ IsFinished(noise[e])
    /\ noise' = [noise EXCEPT ![e] = Taken(@)]
    /\ Fault
    /\ UNCHANGED <<conn, pc, up, wire, unsent, acc, waiting, sent, got>>

\* It ignores an error of encrypt_chunked too, which has taken the state.
PingBroken(e) ==
    /\ Running(e) /\ unsent[e] = <<>> /\ ~waiting[e] /\ IsFinished(noise[e])
    /\ noise' = [noise EXCEPT ![e] = Taken(@)]
    /\ waiting' = [waiting EXCEPT ![e] = TRUE]
    /\ Fault
    /\ UNCHANGED <<conn, pc, up, wire, unsent, acc, sent, got>>

HeartbeatDead(e) ==
    /\ Running(e) /\ unsent[e] = <<>> /\ waiting[e]
    /\ Leave(e)
    /\ fault' = TRUE
    /\ UNCHANGED <<conn, faults, up, noise, waiting, sent, got>>

\* e reads a packet: read_message, feed, and decode_frame for a whole frame.
\* With the frame, the login goes on or fails; no frame is another chunk.
Receives(e) ==
    /\ Talking(e) /\ unsent[e] = <<>> /\ HasBinary(e)
    /\ noise' = [noise EXCEPT ![e] = AfterRead(@, Read(e))]
    /\ waiting' = [waiting EXCEPT ![e] = FALSE]

ReceiveFails(e) ==
    /\ Receives(e)
    /\ \/ ~CanRead(noise[e], Read(e))
       \/ \E r \in Feed(acc[e], Read(e).plain) :
            \/ r.out = Error
            \/ r.out.status = "frame" /\ Decode(r.out.bytes) = NoFrame
    /\ Leave(e)
    /\ UNCHANGED <<conn, faults, up, sent, got, fault>>

ReceiveChunk(e) ==
    /\ Receives(e) /\ CanRead(noise[e], Read(e))
    /\ \E r \in Feed(acc[e], Read(e).plain) :
        r.out = More /\ acc' = [acc EXCEPT ![e] = r.acc]
    /\ Consume(e, <<>>)
    /\ UNCHANGED <<conn, faults, pc, up, unsent, sent, got, fault>>

\* Mutant: the login does not look at the id.
FrameIdIgnored(f) == TRUE

\* recv_one_frame gives handle_auth the first frame, whatever it is.
IsAuthReply(f) == f.id = 1

ReceiveFrame(e) ==
    /\ Receives(e) /\ CanRead(noise[e], Read(e))
    /\ \E r \in Feed(acc[e], Read(e).plain) :
        LET f == Decode(r.out.bytes) IN
        /\ r.out.status = "frame" /\ f # NoFrame
        /\ got' = [got EXCEPT ![e] = Append(@, f)]
        /\ \/ /\ Running(e)
              /\ acc' = [acc EXCEPT ![e] = r.acc]
              /\ Consume(e, <<>>)
              /\ UNCHANGED <<pc, unsent, fault>>
           \/ \* AuthOutcome::Success; the message loop has its own accumulator
              /\ ~Running(e) /\ IsAuthReply(f)
              /\ Goto(e, "Online")
              /\ acc' = [acc EXCEPT ![e] = Idle]
              /\ Consume(e, <<>>)
              /\ UNCHANGED <<unsent, fault>>
           \/ \* any other outcome, or another frame
              /\ ~Running(e)
              /\ Leave(e)
              /\ fault' = TRUE
    /\ UNCHANGED <<conn, faults, up, sent>>

AuthTimeout ==
    /\ pc["client"] = "AuthReply" /\ unsent["client"] = <<>>
    /\ Leave("client")
    /\ fault' = TRUE
    /\ UNCHANGED <<conn, faults, up, noise, waiting, sent, got>>

-----------------------------------------------------------------------------

Handshake ==
    \/ SendHello \/ ServerVersion \/ ClientVersion
    \/ ServerNoiseE \/ ClientNoise \/ ServerNoiseS
    \/ (\E n \in Sizes : Authenticate(n) \/ AuthResponse(n))
    \/ SkipAuth \/ AuthTimeout

Loop(e) ==
    \/ (\E n \in Sizes : SendFrame(e, n)) \/ EncryptFails(e) \/ SendChunk(e)
    \/ ReceiveFails(e) \/ ReceiveChunk(e) \/ ReceiveFrame(e)
    \/ PingLost(e) \/ PingBroken(e) \/ HeartbeatDead(e)

Next == Cut \/ Handshake \/ \E e \in Ends : SocketFails(e) \/ Loop(e)

Spec == Init /\ [][Next]_vars

(***************************************************************************)
(* Fairness: both tasks are polled, the socket's operations return, the    *)
(* auth timeout fires, and the heartbeat deadline too unless a reception   *)
(* moves it.  Of the applications only that auth_payload() returns.        *)
(***************************************************************************)
FairSpec ==
    /\ Spec
    /\ WF_vars(SendHello \/ ClientVersion \/ ClientNoise)
    /\ WF_vars(SkipAuth \/ \E n \in Sizes : Authenticate(n))
    /\ WF_vars(AuthTimeout)
    /\ WF_vars(ServerVersion \/ ServerNoiseE \/ ServerNoiseS)
    /\ \A e \in Ends :
        /\ WF_vars(SocketFails(e)) /\ WF_vars(SendChunk(e))
        /\ WF_vars(ReceiveFails(e) \/ ReceiveChunk(e) \/ ReceiveFrame(e))
        /\ WF_vars(HeartbeatDead(e))

-----------------------------------------------------------------------------
(***************************************************************************)
(* Properties.                                                             *)
(***************************************************************************)

\* What an end received is what the other sent, in order, without gaps and
\* unaltered: also after a packet was lost, for frames of every length, and for
\* lengths that the prefix cannot hold.
Delivered == \A e \in Ends : IsPrefix(got[e], sent[Other(e)])

\* A client with credentials is online only after the server's application has
\* read them and answered; one without, after the server accepted the protocol
\* and answered the Noise exchange.
OnlineIsAgreed ==
    pc["client"] = "Online" =>
        /\ hello = Protocol
        /\ pc["server"] \notin {"Version", "NoiseE"}
        /\ withAuth => HasId1(got["server"]) /\ HasId1(sent["server"])

\* An end closes a connection only for a reason.
NoSpuriousEnd ==
    hello = Protocol /\ ~fault => \A e \in Ends : ~Ended(e)

(***************************************************************************)
(* What makes them inductive.                                              *)
(***************************************************************************)

\* Each end is where its Noise session is; the client gets on only after the
\* server did, and nobody gets past the hello with another protocol.
Handshaken ==
    /\ pc["client"] \in {"Start", "Version"} => noise["client"] = Session("initiator")
    /\ pc["client"] = "NoiseReply" => noise["client"] = Advance(Session("initiator"))
    /\ pc["client"] \in {"Auth", "AuthReply", "Online"} =>
            noise["client"].step = 3 /\ noise["client"].mode # "handshake"
    /\ pc["server"] \in {"Version", "NoiseE"} => noise["server"] = Session("responder")
    /\ pc["server"] = "NoiseS" => noise["server"] = Advance(Advance(Session("responder")))
    /\ pc["server"] = "Session" =>
            noise["server"].step = 3 /\ noise["server"].mode # "handshake"
    /\ pc["server"] = "Version" => wire["client"] = <<>> /\ noise["client"].step = 0
    /\ pc["server"] \in {"NoiseE", "NoiseS", "Session"} => hello = Protocol
    /\ noise["client"].step > 0 => hello = Protocol
    /\ noise["server"].step > 0 => noise["client"].step > 0
    /\ noise["client"].step > 1 => noise["server"].step > 0
    /\ \A e \in Ends : unsent[e] # <<>> => Talking(e)

\* What the messages of the handshakes say.
Announced ==
    /\ \A m \in Range(wire["server"]) :
        IF m.type = "text" THEN m.text = hello ELSE noise["client"].step > 0
    /\ \A m \in Range(wire["client"]) :
        IF m.type = "text" THEN m.text = "PROTOCOL_ACCEPTED" => hello = Protocol
                           ELSE noise["server"].step > 0

\* The server answers the login, and only that lets the client pass.
LoggedIn ==
    /\ HasId1(sent["server"]) => HasId1(got["server"])
    /\ pc["client"] = "Online" /\ withAuth => HasId1(sent["server"])

\* The packets of e that may still be read.
IsData(m)    == m.type = "binary" /\ m.packet.step = 0
Data(ms)     == {m.packet : m \in {m \in Range(ms) : IsData(m)}}
InFlight(e)  == Range(unsent[e]) \cup Data(wire[Other(e)])

Numbered(e) == \A i \in 1..Len(sent[e]) : sent[e][i].no = i /\ sent[e][i].size \in Sizes

\* The chunk is of a frame that e sent.
Sent(e, c) ==
    /\ IsPiece(c)
    /\ \E i \in 1..Len(sent[e]) : FrameOf(c) = sent[e][i]

\* Packets with successive nonces carry successive chunks: from what the receiver
\* reads next to the end of what was sent last.
Chained(e) ==
    /\ \A p \in InFlight(e) :
        /\ p.nonce < noise[e].out /\ Sent(e, p.plain)
        /\ p.nonce = noise[Other(e)].in =>
            /\ FrameOf(p.plain).no = Len(got[Other(e)]) + 1
            /\ FirstByte(p.plain) = BytesRead(acc[Other(e)]) + 1
        /\ p.nonce + 1 = noise[e].out =>
            /\ FrameOf(p.plain).no = Len(sent[e])
            /\ EndsFrame(p.plain)
    /\ \A p, q \in InFlight(e) :
        q.nonce = p.nonce + 1 => Follows(q.plain, p.plain)

\* The accumulator holds the beginning of the frame that comes next.
Accumulated(e) ==
    acc[Other(e)] # Idle =>
        /\ Len(got[Other(e)]) < Len(sent[e])
        /\ HoldsPart(acc[Other(e)], sent[e][Len(got[Other(e)]) + 1])

CaughtUp(e) ==
    /\ noise[Other(e)].in <= noise[e].out
    /\ noise[Other(e)].in = noise[e].out =>
        acc[Other(e)] = Idle /\ Len(got[Other(e)]) = Len(sent[e])

Delivering ==
    \A e \in Ends :
        /\ Numbered(e)
        /\ ~Ended(Other(e)) => Chained(e) /\ Accumulated(e) /\ CaughtUp(e)

\* Without a fault the two ends take turns in the handshake ...
Turns ==
    \/ /\ pc["client"] = "Start" /\ pc["server"] = "Version"
       /\ wire["client"] = <<>> /\ wire["server"] = <<>>
    \/ /\ pc["client"] = "Version" /\ pc["server"] = "Version"
       /\ wire["client"] = <<>> /\ wire["server"] = <<Text(hello)>>
    \/ /\ pc["client"] = "Version" /\ pc["server"] = "NoiseE"
       /\ wire["client"] = <<Text("PROTOCOL_ACCEPTED")>> /\ wire["server"] = <<>>
    \/ /\ pc["client"] = "NoiseReply" /\ pc["server"] = "NoiseE"
       /\ wire["client"] = <<>> /\ Len(wire["server"]) = 1
       /\ wire["server"][1].type = "binary" /\ wire["server"][1].packet.step = 1
    \/ /\ pc["client"] = "NoiseReply" /\ pc["server"] = "NoiseS"
       /\ wire["server"] = <<>> /\ Len(wire["client"]) = 1
       /\ wire["client"][1].type = "binary" /\ wire["client"][1].packet.step = 2
    \/ /\ pc["client"] \in {"Auth", "AuthReply", "Online"} /\ pc["server"] = "NoiseS"
       /\ wire["client"] = <<>> /\ wire["server"] # <<>>
       /\ wire["server"][1].type = "binary" /\ wire["server"][1].packet.step = 3
    \/ /\ pc["client"] \in {"Auth", "AuthReply", "Online"} /\ pc["server"] = "Session"

\* Messages of the handshake that e has not read.
Lead(e) == IF pc[e] \in {"Auth", "AuthReply", "Online", "Session"} \/ wire[e] = <<>>
           THEN 0 ELSE 1

\* ... and each packet has the nonce that its reader will count to.
InStep(e) ==
    LET r == Other(e)  first == noise[r].in IN
    /\ \A i \in 1..Len(wire[r]) - Lead(r) :
        LET m == wire[r][Lead(r) + i] IN
        m.type = "binary" /\ m.packet.step = 0 /\ m.packet.nonce + 1 = first + i
    /\ \A i \in 1..Len(unsent[e]) :
        /\ unsent[e][i].step = 0
        /\ unsent[e][i].nonce + 1 = first + Len(wire[r]) - Lead(r) + i
    /\ noise[e].out = first + Len(wire[r]) - Lead(r) + Len(unsent[e])

Faultless ==
    hello = Protocol /\ ~fault =>
        /\ up /\ Turns
        /\ \A e \in Ends :
            /\ noise[e].mode # "none" /\ InStep(e)
            /\ IsFinished(noise[e]) \/ unsent[e] = <<>>
            /\ \A i \in 1..Len(sent[e]) : ~TooLarge(sent[e][i].size)

IInv ==
    /\ TypeOK /\ Handshaken /\ Announced /\ LoggedIn /\ Delivered /\ Delivering
    /\ Faultless

-----------------------------------------------------------------------------


\* A Noise session that lost its state ends the connection, although the
\* heartbeat that lost it goes on.
BrokenEnds == []<>(\A e \in Ends : noise[e].mode = "none" => Ended(e))

=============================================================================
