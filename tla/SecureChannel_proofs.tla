------------------------ MODULE SecureChannel_proofs ------------------------
(***************************************************************************)
(* Proofs about SecureChannel: for all sizes of frames, chunks, prefix,    *)
(* limit and buffers, what is received is what was sent, a client that is  *)
(* online was accepted, and no connection ends without a reason.           *)
(***************************************************************************)
EXTENDS SecureChannel, FrameCodec_proofs

\* Each end has another.
LEMMA EndsEffect ==
    ASSUME NEW e \in Ends
    PROVE  Other(e) \in Ends /\ Other(e) # e /\ Other(Other(e)) = e /\ Ends = {e, Other(e)}
  BY DEF Ends, Other

LEMMA Assumptions ==
    /\ LenBytes \in Nat \ {0} /\ LenRange \in Nat \ {0} /\ MaxBytes \in Nat
    /\ MaxChunk \in Nat \ {0} /\ MaxFrames \in Nat /\ MaxFaults \in Nat
    /\ Sizes \subseteq Nat \ {0}
  BY FrameCodecAssumption, SecureChannelAssumption

-----------------------------------------------------------------------------
(***************************************************************************)
(* The Noise session.                                                      *)
(***************************************************************************)

LEMMA SessionsTyped ==
    /\ \A role \in {"initiator", "responder"} : Session(role) \in Sessions
    /\ \A s \in Sessions : Taken(s) \in Sessions
    /\ \A s \in Sessions : s.step < 3 =>
            Advance(s) \in Sessions /\ (Advance(s).mode = "handshake" => Advance(s).step < 3)
<1>1. \A role \in {"initiator", "responder"} : Session(role) \in Sessions
  BY DEF Session, Sessions
<1>2. \A s \in Sessions : Taken(s) \in Sessions
  BY DEF Sessions, Taken
<1>3. ASSUME NEW s \in Sessions, s.step < 3
      PROVE  Advance(s) \in Sessions /\ (Advance(s).mode = "handshake" => Advance(s).step < 3)
  <2> DEFINE m == IF s.step = 2 THEN "transport" ELSE "handshake"  n == s.step + 1
  <2>1. m \in {"transport", "handshake"} /\ n \in 0..3 /\ (m = "handshake" => n < 3)
    BY <1>3 DEF Sessions
  <2>2. Advance(s) = [s EXCEPT !.step = n, !.mode = m]
    BY DEF Advance
  <2> HIDE DEF m, n
  <2> QED BY <2>1, <2>2 DEF Sessions
<1> QED BY <1>1, <1>2, <1>3

LEMMA AdvanceEffect ==
    ASSUME NEW s \in Sessions, s.step < 3
    PROVE  /\ Advance(s) \in Sessions
           /\ Advance(s).step = s.step + 1 /\ Advance(s).role = s.role
           /\ Advance(s).mode = (IF s.step = 2 THEN "transport" ELSE "handshake")
           /\ Advance(s).out = s.out /\ Advance(s).in = s.in
<1> DEFINE m == IF s.step = 2 THEN "transport" ELSE "handshake"  n == s.step + 1
<1>1. Advance(s) = [s EXCEPT !.step = n, !.mode = m]
  BY DEF Advance
<1> HIDE DEF m, n
<1>2. /\ Advance(s).step = n /\ Advance(s).mode = m /\ Advance(s).role = s.role
      /\ Advance(s).out = s.out /\ Advance(s).in = s.in
  BY <1>1 DEF Sessions
<1> QED BY <1>2, SessionsTyped DEF m, n

LEMMA TakenEffect ==
    ASSUME NEW s \in Sessions
    PROVE  /\ Taken(s) \in Sessions /\ Taken(s).mode = "none" /\ Taken(s).step = s.step
           /\ Taken(s).out = s.out /\ Taken(s).in = s.in
  BY DEF Taken, Sessions

LEMMA NoiseUpdate ==
    ASSUME TypeOK, NEW e \in Ends, NEW s \in Sessions, noise' = [noise EXCEPT ![e] = s]
    PROVE  noise' \in [Ends -> Sessions] /\ noise'[e] = s /\ noise'[Other(e)] = noise[Other(e)]
  BY EndsEffect DEF TypeOK

\* A write uses a turn or a nonce.
LEMMA WriteEffect ==
    ASSUME NEW s \in Sessions, IsFinished(s) \/ s.step < 3
    PROVE  AfterWrite(s) \in Sessions
  BY SessionsTyped DEF AfterWrite, IsFinished, Sessions

LEMMA ReadEffect ==
    ASSUME NEW s \in Sessions, NEW p \in Packets
    PROVE  /\ AfterRead(s, p) \in Sessions
           /\ AfterRead(s, p).mode = "handshake" => AfterRead(s, p).step < 3
<1>1. p.step \in 0..3
  BY DEF Packets
<1>2. CASE ~CanRead(s, p)
  BY <1>2, SessionsTyped DEF AfterRead, Taken, Sessions
<1>3. CASE CanRead(s, p) /\ IsFinished(s)
  BY <1>3 DEF AfterRead, IsFinished, Sessions
<1>4. CASE CanRead(s, p) /\ ~IsFinished(s)
  <2>1. s.step < 3 /\ AfterRead(s, p) = Advance(s)
    BY <1>1, <1>4 DEF CanRead, AfterRead, Sessions
  <2> QED BY <2>1, SessionsTyped
<1> QED BY <1>2, <1>3, <1>4

LEMMA PacketTyped ==
    ASSUME NEW s \in Sessions, NEW c \in Seq(Bytes), s.mode = "handshake" => s.step < 3
    PROVE  Packet(s, c) \in Packets
  BY DEF Packet, Packets, Sessions

-----------------------------------------------------------------------------
(***************************************************************************)
(* The wires.                                                              *)
(***************************************************************************)

LEMMA ArrivesTyped ==
    ASSUME TypeOK, NEW e \in Ends, NEW ms \in Seq(Messages)
    PROVE  Arrives(e, ms) \in Seq(Messages)
  BY EndsEffect DEF TypeOK, Arrives

LEMMA ConsumeEffect ==
    ASSUME TypeOK, NEW e \in Ends, NEW ms \in Seq(Messages), Consume(e, ms),
           wire[e] # <<>>
    PROVE  /\ wire' \in [Ends -> Seq(Messages)]
           /\ wire'[e] = Tail(wire[e]) /\ wire'[Other(e)] = Arrives(e, ms)
<1>1. Tail(wire[e]) \in Seq(Messages) /\ Arrives(e, ms) \in Seq(Messages)
  BY ArrivesTyped DEF TypeOK
<1>2. wire' = [wire EXCEPT ![e] = Tail(wire[e]), ![Other(e)] = Arrives(e, ms)]
  BY EndsEffect DEF Consume, TypeOK
<1> QED BY <1>1, <1>2, EndsEffect DEF TypeOK

LEMMA MessagesTyped ==
    /\ \A t \in Words : Text(t) \in Messages
    /\ \A p \in Packets : Binary(p) \in Messages
    /\ \A m \in Messages : m.type = "binary" => m.packet \in Packets
  BY DEF Messages, Text, Binary

LEMMA ReadTyped ==
    ASSUME TypeOK, NEW e \in Ends, HasBinary(e)
    PROVE  /\ wire[e] # <<>> /\ Head(wire[e]) \in Messages
           /\ Read(e) \in Packets /\ Read(e).plain \in Seq(Bytes)
<1>1. wire[e] # <<>> /\ Head(wire[e]) \in Messages /\ Head(wire[e]).type = "binary"
  BY DEF TypeOK, HasBinary
<1>2. Read(e) \in Packets
  BY <1>1, MessagesTyped DEF Read
<1> QED BY <1>1, <1>2 DEF Packets

LEMMA LeaveEffect ==
    ASSUME TypeOK, NEW e \in Ends, Leave(e)
    PROVE  /\ pc' \in [Ends -> ClientPoints \cup ServerPoints]
           /\ pc'[e] = "Closed" /\ pc'[Other(e)] = pc[Other(e)]
           /\ wire' \in [Ends -> Seq(Messages)]
           /\ wire'[e] = <<>> /\ wire'[Other(e)] = wire[Other(e)]
           /\ unsent' \in [Ends -> Seq(Packets)]
           /\ unsent'[e] = <<>> /\ unsent'[Other(e)] = unsent[Other(e)]
           /\ acc' \in [Ends -> Accumulators(Bytes)]
           /\ acc'[e] = Idle /\ acc'[Other(e)] = acc[Other(e)]
<1>1. Idle \in Accumulators(Bytes)
  BY Assumptions DEF Idle, Accumulators
<1>2. acc \in [Ends -> Accumulators(Bytes)]
  BY DEF TypeOK, Accumulators
<1>3. "Closed" \in ClientPoints \cup ServerPoints
  BY DEF ClientPoints
<1>4. <<>> \in Seq(Messages) /\ <<>> \in Seq(Packets)
  OBVIOUS
<1> QED BY <1>1, <1>2, <1>3, <1>4, EndsEffect DEF TypeOK, Leave, Goto

LEMMA GotoEffect ==
    ASSUME TypeOK, NEW e \in Ends, NEW l, Goto(e, l)
    PROVE  pc'[e] = l /\ pc'[Other(e)] = pc[Other(e)] /\ DOMAIN pc' = Ends
           /\ pc' = [x \in Ends |-> IF x = e THEN l ELSE pc[x]]
  BY EndsEffect DEF TypeOK, Goto

\* The points of an end, wherever it goes.
LEMMA PointsTyped ==
    ASSUME pc' \in [Ends -> ClientPoints \cup ServerPoints],
           pc["client"] \in ClientPoints, pc["server"] \in ServerPoints,
           NEW e \in Ends, pc'[Other(e)] = pc[Other(e)],
           pc'[e] = "Closed" \/ (e = "client" /\ pc'[e] \in ClientPoints)
                             \/ (e = "server" /\ pc'[e] \in ServerPoints)
    PROVE  pc'["client"] \in ClientPoints /\ pc'["server"] \in ServerPoints
  BY DEF Ends, Other, ClientPoints, ServerPoints

-----------------------------------------------------------------------------
(***************************************************************************)
(* Frames and their packets.                                               *)
(***************************************************************************)

LEMMA BytesTyped ==
    /\ \A f : <<f, 1>> \in Bytes => f.size \in Nat
    /\ \A c \in Seq(Bytes) : c # <<>> =>
            /\ c[1] = <<FrameOf(c), FirstByte(c)>> /\ FrameOf(c) \in Frames
            /\ FrameOf(c).size \in Sizes /\ FirstByte(c) \in Nat \ {0}
    /\ \A f \in Frames : f.no > 0 /\ f.size \in Sizes => BytesOf(f) \subseteq Bytes
<1>1. ASSUME NEW b \in Bytes
      PROVE  /\ b[1] \in Frames /\ b[1].size \in Sizes /\ b[2] \in Nat \ {0}
             /\ b = <<b[1], b[2]>>
  <2>1. PICK f \in [no : 1..MaxFrames, id : {0, 1}, size : Sizes] :
               b \in {<<f, i>> : i \in 1..(LenBytes + f.size)}
    BY DEF Bytes
  <2>2. PICK i \in 1..(LenBytes + f.size) : b = <<f, i>>
    BY <2>1
  <2>3. f \in Frames /\ f.size \in Sizes
    <3>1. 1..MaxFrames \subseteq 0..MaxFrames /\ Sizes \subseteq Nat
      BY Assumptions
    <3>2. f \in [no : 0..MaxFrames, id : {0, 1}, size : Nat]
      BY <3>1
    <3> QED BY <3>2 DEF Frames
  <2>4. i \in Nat \ {0}
    BY <2>3, Assumptions
  <2> QED BY <2>2, <2>3, <2>4
<1>2. ASSUME NEW f, <<f, 1>> \in Bytes
      PROVE  f.size \in Nat
  BY <1>1, <1>2, Assumptions
<1>3. ASSUME NEW c \in Seq(Bytes), c # <<>>
      PROVE  /\ c[1] = <<FrameOf(c), FirstByte(c)>> /\ FrameOf(c) \in Frames
             /\ FrameOf(c).size \in Sizes /\ FirstByte(c) \in Nat \ {0}
  <2>1. c[1] \in Bytes
    BY <1>3
  <2> QED BY <1>1, <2>1 DEF FrameOf, FirstByte
<1>4. ASSUME NEW f \in Frames, f.no > 0, f.size \in Sizes
      PROVE  BytesOf(f) \subseteq Bytes
  <2>1. f \in [no : 1..MaxFrames, id : {0, 1}, size : Sizes]
    BY <1>4, Assumptions DEF Frames
  <2> QED BY <2>1 DEF Bytes, BytesOf
<1> QED BY <1>2, <1>3, <1>4

LEMMA DecodeTyped ==
    ASSUME NEW b \in Seq(Bytes)
    PROVE  Decode(b) \in Frames
<1>1. NoFrame \in Frames /\ Garbage \in Frames
  BY Assumptions DEF NoFrame, Garbage, Frames
<1>2. b # <<>> => b[1][1] \in Frames
  BY BytesTyped DEF FrameOf
<1> QED BY <1>1, <1>2 DEF Decode

\* encrypt_chunked: one packet for a chunk, with successive nonces.
LEMMA EncryptEffect ==
    ASSUME NEW s \in Sessions, IsFinished(s), NEW cs \in Seq(Seq(Bytes))
    PROVE  /\ EncryptChunked(s, cs) \in Seq(Packets)
           /\ Len(EncryptChunked(s, cs)) = Len(cs)
           /\ \A j \in 1..Len(cs) : EncryptChunked(s, cs)[j] =
                    [step |-> 0, nonce |-> s.out + (j - 1), plain |-> cs[j]]
           /\ AfterEncrypt(s, cs) \in Sessions
           /\ AfterEncrypt(s, cs) = [s EXCEPT !.out = s.out + Len(cs)]
<1>1. ASSUME NEW j \in 1..Len(cs)
      PROVE  LET q == Packet([s EXCEPT !.out = @ + (j - 1)], cs[j]) IN
             /\ q = [step |-> 0, nonce |-> s.out + (j - 1), plain |-> cs[j]]
             /\ q \in Packets
  <2>1. s.out + (j - 1) \in Nat /\ cs[j] \in Seq(Bytes)
    BY DEF Sessions
  <2>2. [s EXCEPT !.out = @ + (j - 1)].mode = "transport"
        /\ [s EXCEPT !.out = @ + (j - 1)].out = s.out + (j - 1)
    BY DEF IsFinished, Sessions
  <2> QED BY <2>1, <2>2 DEF Packet, Packets
<1> DEFINE q(j) == Packet([s EXCEPT !.out = @ + (j - 1)], cs[j])
<1>2. EncryptChunked(s, cs) = [j \in 1..Len(cs) |-> q(j)]
  BY DEF EncryptChunked
<1>6. /\ Len(cs) \in Nat
      /\ \A j \in 1..Len(cs) :
            /\ q(j) = [step |-> 0, nonce |-> s.out + (j - 1), plain |-> cs[j]]
            /\ q(j) \in Packets
  BY <1>1
<1> HIDE DEF q
<1>3. /\ EncryptChunked(s, cs) \in Seq(Packets)
      /\ Len(EncryptChunked(s, cs)) = Len(cs)
      /\ \A j \in 1..Len(cs) : EncryptChunked(s, cs)[j] =
                [step |-> 0, nonce |-> s.out + (j - 1), plain |-> cs[j]]
  BY <1>2, <1>6
<1>4. s.out + Len(cs) \in Nat
  BY DEF Sessions
<1>5. /\ AfterEncrypt(s, cs) \in Sessions
      /\ AfterEncrypt(s, cs) = [s EXCEPT !.out = s.out + Len(cs)]
  BY <1>4 DEF AfterEncrypt, Sessions
<1> QED BY <1>3, <1>5

\* The next frame of e.
NextFrame(e, id, size) == [no |-> Len(sent[e]) + 1, id |-> id, size |-> size]

LEMMA TransmitEffect ==
    ASSUME TypeOK, NEW e \in Ends, NEW id \in {0, 1}, NEW size \in Sizes,
           Transmit(e, id, size),
           NEW f, f = NextFrame(e, id, size),
           NEW cs, cs = ChunksOfBytes(Encode(f))
    PROVE  /\ f \in Frames /\ f.no = Len(sent[e]) + 1 /\ f.size = size /\ f.id = id
           /\ cs \in Seq(Seq(Bytes))
           /\ unsent' \in [Ends -> Seq(Packets)]
           /\ unsent'[Other(e)] = unsent[Other(e)]
           /\ Len(unsent'[e]) = Len(cs)
           /\ \A j \in 1..Len(cs) : unsent'[e][j] =
                    [step |-> 0, nonce |-> noise[e].out + (j - 1), plain |-> cs[j]]
           /\ sent' \in [Ends -> Seq(Frames)]
           /\ sent'[e] = Append(sent[e], f) /\ sent'[Other(e)] = sent[Other(e)]
           /\ noise' \in [Ends -> Sessions]
           /\ noise'[Other(e)] = noise[Other(e)]
           /\ noise'[e] = [noise[e] EXCEPT !.out = noise[e].out + Len(cs)]
<1>1. noise[e] \in Sessions /\ IsFinished(noise[e]) /\ unsent[e] = <<>>
      /\ sent[e] \in Seq(Frames) /\ Len(sent[e]) < MaxFrames
  BY DEF TypeOK, Transmit
<1>2. f \in Frames /\ f.no = Len(sent[e]) + 1 /\ f.size = size /\ f.id = id /\ f.no > 0
      /\ f.size \in Nat
  <2>1. Len(sent[e]) + 1 \in 0..MaxFrames /\ size \in Nat
    BY <1>1, Assumptions
  <2> QED BY <1>1, <2>1 DEF Frames, NextFrame
<1>3. cs \in Seq(Seq(Bytes))
  <2>1. cs \in Seq(Seq(BytesOf(f))) /\ BytesOf(f) \subseteq Bytes
    BY <1>2, ChunksArePieces, BytesTyped
  <2>2. Seq(BytesOf(f)) \subseteq Seq(Bytes)
    BY <2>1
  <2> QED BY <2>1, <2>2
<1>4. /\ unsent' = [unsent EXCEPT ![e] = EncryptChunked(noise[e], cs)]
      /\ sent' = [sent EXCEPT ![e] = Append(sent[e], f)]
      /\ noise' = [noise EXCEPT ![e] = AfterEncrypt(noise[e], cs)]
  BY DEF Transmit, NextFrame, TypeOK
<1>5. /\ EncryptChunked(noise[e], cs) \in Seq(Packets)
      /\ Len(EncryptChunked(noise[e], cs)) = Len(cs)
      /\ \A j \in 1..Len(cs) : EncryptChunked(noise[e], cs)[j] =
                [step |-> 0, nonce |-> noise[e].out + (j - 1), plain |-> cs[j]]
      /\ AfterEncrypt(noise[e], cs) \in Sessions
      /\ AfterEncrypt(noise[e], cs) = [noise[e] EXCEPT !.out = noise[e].out + Len(cs)]
  BY <1>1, <1>3, EncryptEffect
<1>6. Append(sent[e], f) \in Seq(Frames)
  BY <1>1, <1>2
<1>7. unsent' \in [Ends -> Seq(Packets)] /\ unsent'[e] = EncryptChunked(noise[e], cs)
      /\ unsent'[Other(e)] = unsent[Other(e)]
  BY <1>4, <1>5, EndsEffect DEF TypeOK
<1>8. sent' \in [Ends -> Seq(Frames)] /\ sent'[e] = Append(sent[e], f)
      /\ sent'[Other(e)] = sent[Other(e)]
  BY <1>4, <1>6, EndsEffect DEF TypeOK
<1>9. noise' \in [Ends -> Sessions] /\ noise'[e] = AfterEncrypt(noise[e], cs)
      /\ noise'[Other(e)] = noise[Other(e)]
  BY <1>4, <1>5, EndsEffect DEF TypeOK
<1> QED BY <1>2, <1>3, <1>5, <1>7, <1>8, <1>9

-----------------------------------------------------------------------------
(***************************************************************************)
(* Type correctness.                                                       *)
(***************************************************************************)

LEMMA InitTyped == Init => TypeOK
<1> SUFFICES ASSUME Init PROVE TypeOK
  OBVIOUS
<1>1. noise \in [Ends -> Sessions]
  BY SessionsTyped DEF Init, Ends
<1>2. Idle \in [expected : 0..MaxBytes, buffer : Seq(Bytes)]
  BY Assumptions DEF Idle
<1>3. pc \in [Ends -> ClientPoints \cup ServerPoints]
      /\ pc["client"] \in ClientPoints /\ pc["server"] \in ServerPoints
  BY DEF Init, Ends, ClientPoints, ServerPoints
<1>4. 0 \in 0..MaxFaults
  BY Assumptions
<1>5. /\ [e \in Ends |-> <<>>] \in [Ends -> Seq(Messages)]
      /\ [e \in Ends |-> <<>>] \in [Ends -> Seq(Packets)]
      /\ [e \in Ends |-> <<>>] \in [Ends -> Seq(Frames)]
      /\ [e \in Ends |-> FALSE] \in [Ends -> BOOLEAN]
      /\ [e \in Ends |-> Idle] \in [Ends -> [expected : 0..MaxBytes, buffer : Seq(Bytes)]]
  BY <1>2
<1> QED BY <1>1, <1>3, <1>4, <1>5 DEF Init, TypeOK

LEMMA HelloTyped ==
    ASSUME TypeOK, SendHello
    PROVE  TypeOK'
<1>1. "client" \in Ends /\ Other("client") = "server" /\ "server" \in Ends
  BY DEF Ends, Other
<1>2. Arrives("client", <<Text(hello)>>) \in Seq(Messages)
  <2>1. Text(hello) \in Messages
    BY MessagesTyped DEF TypeOK, Words
  <2>2. <<Text(hello)>> \in Seq(Messages)
    BY <2>1
  <2> QED BY <1>1, <2>2, ArrivesTyped
<1>3. wire' \in [Ends -> Seq(Messages)]
  BY <1>1, <1>2 DEF SendHello, TypeOK
<1>4. pc' \in [Ends -> ClientPoints \cup ServerPoints]
      /\ pc'["client"] \in ClientPoints /\ pc'["server"] \in ServerPoints
  BY <1>1, GotoEffect, PointsTyped DEF SendHello, TypeOK, ClientPoints, Goto
<1> QED BY <1>3, <1>4 DEF SendHello, TypeOK, conn

LEMMA ServerVersionTyped ==
    ASSUME TypeOK, ServerVersion
    PROVE  TypeOK'
<1>1. "client" \in Ends /\ Other("server") = "client" /\ "server" \in Ends
  BY DEF Ends, Other
<1>2. /\ <<Text("PROTOCOL_ACCEPTED")>> \in Seq(Messages)
      /\ <<Text("PROTOCOL_REJECTED")>> \in Seq(Messages)
  BY MessagesTyped DEF Words
<1>3. wire' \in [Ends -> Seq(Messages)]
  BY <1>1, <1>2, ConsumeEffect DEF ServerVersion
<1>4. pc' \in [Ends -> ClientPoints \cup ServerPoints]
      /\ pc'["client"] \in ClientPoints /\ pc'["server"] \in ServerPoints
  BY <1>1 DEF ServerVersion, TypeOK, ClientPoints, ServerPoints, Goto
<1> QED BY <1>3, <1>4 DEF ServerVersion, TypeOK, conn

LEMMA ClientVersionTyped ==
    ASSUME TypeOK, Handshaken, ClientVersion
    PROVE  TypeOK'
<1>1. "client" \in Ends /\ Other("client") = "server" /\ "server" \in Ends
  BY DEF Ends, Other
<1>2. noise["client"] \in Sessions /\ noise["client"].step = 0
  BY <1>1 DEF ClientVersion, Handshaken, TypeOK, Session
<1>3. Packet(noise["client"], <<>>) \in Packets /\ AfterWrite(noise["client"]) \in Sessions
  <2>1. <<>> \in Seq(Bytes) /\ noise["client"].step < 3
    BY <1>2
  <2> QED BY <1>2, <2>1, PacketTyped, WriteEffect
<1>4. /\ <<Binary(Packet(noise["client"], <<>>))>> \in Seq(Messages)
      /\ <<>> \in Seq(Messages)
  BY <1>3, MessagesTyped
<1>5. wire' \in [Ends -> Seq(Messages)]
  BY <1>1, <1>4, ConsumeEffect DEF ClientVersion
<1>6. noise' \in [Ends -> Sessions]
  BY <1>1, <1>3 DEF ClientVersion, TypeOK
<1>7. pc' \in [Ends -> ClientPoints \cup ServerPoints]
      /\ pc'["client"] \in ClientPoints /\ pc'["server"] \in ServerPoints
  BY <1>1 DEF ClientVersion, TypeOK, ClientPoints, ServerPoints, Goto
<1> QED BY <1>5, <1>6, <1>7 DEF ClientVersion, TypeOK, conn

LEMMA NoiseStepTyped ==
    ASSUME TypeOK, NEW e \in Ends, NEW l, NoiseStep(e, l),
           (e = "client" /\ l \in ClientPoints) \/ (e = "server" /\ l \in ServerPoints)
    PROVE  TypeOK'
<1> DEFINE s == AfterRead(noise[e], Read(e))
<1>1. Read(e) \in Packets /\ wire[e] # <<>> /\ noise[e] \in Sessions
  BY ReadTyped DEF NoiseStep, TypeOK
<1>2. s \in Sessions /\ (s.mode = "handshake" => s.step < 3)
  BY <1>1, ReadEffect
<1> HIDE DEF s
<1>3. CASE s.mode = "none"
  <2>1. Leave(e) /\ noise' = [noise EXCEPT ![e] = s]
    BY <1>3 DEF NoiseStep, s
  <2>2. noise' \in [Ends -> Sessions]
    BY <1>2, <2>1 DEF TypeOK
  <2>3. pc'["client"] \in ClientPoints /\ pc'["server"] \in ServerPoints
    BY <2>1, LeaveEffect, PointsTyped DEF TypeOK
  <2> QED BY <2>1, <2>2, <2>3, LeaveEffect DEF NoiseStep, TypeOK, conn, Accumulators
<1>4. CASE s.mode # "none"
  <2>1. /\ Goto(e, l) /\ UNCHANGED <<unsent, acc>>
        /\ IF IsFinished(s)
           THEN Consume(e, <<>>) /\ noise' = [noise EXCEPT ![e] = s]
           ELSE /\ Consume(e, <<Binary(Packet(s, <<>>))>>)
                /\ noise' = [noise EXCEPT ![e] = AfterWrite(s)]
    BY <1>4 DEF NoiseStep, s
  <2>2. s.step < 3 \/ IsFinished(s)
    BY <1>2, <1>4 DEF IsFinished, Sessions
  <2>3. Packet(s, <<>>) \in Packets /\ AfterWrite(s) \in Sessions
    <3>1. <<>> \in Seq(Bytes)
      OBVIOUS
    <3> QED BY <1>2, <2>2, <3>1, PacketTyped, WriteEffect
  <2>4. <<Binary(Packet(s, <<>>))>> \in Seq(Messages) /\ <<>> \in Seq(Messages)
    BY <2>3, MessagesTyped
  <2>5. wire' \in [Ends -> Seq(Messages)]
    BY <1>1, <2>1, <2>4, ConsumeEffect
  <2>6. noise' \in [Ends -> Sessions]
    BY <1>2, <2>1, <2>3 DEF TypeOK
  <2>7. pc' \in [Ends -> ClientPoints \cup ServerPoints]
        /\ pc'["client"] \in ClientPoints /\ pc'["server"] \in ServerPoints
    BY <2>1, EndsEffect DEF TypeOK, Goto, Ends
  <2> QED BY <2>1, <2>5, <2>6, <2>7 DEF NoiseStep, TypeOK, conn
<1> QED BY <1>3, <1>4

LEMMA TransmitTyped ==
    ASSUME TypeOK, NEW e \in Ends, NEW id \in {0, 1}, NEW size \in Sizes,
           Transmit(e, id, size),
           UNCHANGED <<conn, faults, up, wire, acc, waiting, got>>,
           fault' \in BOOLEAN,
           pc' \in [Ends -> ClientPoints \cup ServerPoints],
           pc'["client"] \in ClientPoints, pc'["server"] \in ServerPoints
    PROVE  TypeOK'
<1>1. /\ unsent' \in [Ends -> Seq(Packets)] /\ sent' \in [Ends -> Seq(Frames)]
      /\ noise' \in [Ends -> Sessions]
  BY TransmitEffect
<1> QED BY <1>1 DEF TypeOK, conn

\* e leaves and nothing else changes, but for its session and history.
LEMMA LeaveTyped ==
    ASSUME TypeOK, NEW e \in Ends, Leave(e), UNCHANGED <<conn, faults, up, sent>>,
           noise' \in [Ends -> Sessions], waiting' \in [Ends -> BOOLEAN],
           got' \in [Ends -> Seq(Frames)], fault' \in BOOLEAN
    PROVE  TypeOK'
<1>1. pc'["client"] \in ClientPoints /\ pc'["server"] \in ServerPoints
  BY LeaveEffect, PointsTyped DEF TypeOK
<1> QED BY <1>1, LeaveEffect DEF TypeOK, conn, Accumulators

LEMMA SendChunkTyped ==
    ASSUME TypeOK, NEW e \in Ends, SendChunk(e)
    PROVE  TypeOK'
<1>1. unsent[e] \in Seq(Packets) /\ unsent[e] # <<>>
  BY DEF SendChunk, TypeOK
<1>2. Head(unsent[e]) \in Packets /\ Tail(unsent[e]) \in Seq(Packets)
  BY <1>1
<1>3. <<Binary(Head(unsent[e]))>> \in Seq(Messages)
  <2>1. Binary(Head(unsent[e])) \in Messages
    BY <1>2, MessagesTyped
  <2> QED BY <2>1
<1>4. Arrives(e, <<Binary(Head(unsent[e]))>>) \in Seq(Messages)
  BY <1>3, ArrivesTyped
<1>5. wire' \in [Ends -> Seq(Messages)] /\ unsent' \in [Ends -> Seq(Packets)]
  BY <1>2, <1>4 DEF SendChunk, TypeOK
<1> QED BY <1>5 DEF SendChunk, TypeOK, conn

LEMMA FaultTyped ==
    ASSUME TypeOK, Fault
    PROVE  faults' \in 0..MaxFaults /\ fault' \in BOOLEAN
  BY Assumptions DEF TypeOK, Fault

LEMMA PingTyped ==
    ASSUME TypeOK, NEW e \in Ends, PingLost(e) \/ PingBroken(e)
    PROVE  TypeOK'
<1>1. noise[e] \in Sessions /\ IsFinished(noise[e])
  BY DEF PingLost, PingBroken, TypeOK
<1>2. AfterWrite(noise[e]) \in Sessions /\ Taken(noise[e]) \in Sessions
  BY <1>1, WriteEffect, SessionsTyped
<1>3. noise' \in [Ends -> Sessions] /\ waiting' \in [Ends -> BOOLEAN]
  BY <1>2 DEF PingLost, PingBroken, TypeOK
<1>4. faults' \in 0..MaxFaults /\ fault' \in BOOLEAN
  BY FaultTyped DEF PingLost, PingBroken
<1> QED BY <1>3, <1>4 DEF PingLost, PingBroken, TypeOK, conn

\* What an end that reads may do with its packet.
LEMMA ReceivesTyped ==
    ASSUME TypeOK, NEW e \in Ends, Receives(e)
    PROVE  /\ wire[e] # <<>> /\ Read(e) \in Packets
           /\ acc[e] \in Accumulators(Bytes) /\ Read(e).plain \in Seq(Bytes)
           /\ noise' \in [Ends -> Sessions] /\ waiting' \in [Ends -> BOOLEAN]
           /\ noise'[e] = AfterRead(noise[e], Read(e))
           /\ noise'[Other(e)] = noise[Other(e)]
           /\ \A r \in Feed(acc[e], Read(e).plain) : r.out # Error =>
                /\ r.acc \in Accumulators(Bytes)
                /\ r.out = More \/ (r.out.status = "frame" /\ r.out.bytes \in Seq(Bytes))
<1>1. /\ wire[e] # <<>> /\ Read(e) \in Packets /\ Read(e).plain \in Seq(Bytes)
      /\ noise[e] \in Sessions
  BY ReadTyped DEF Receives, TypeOK
<1>2. AfterRead(noise[e], Read(e)) \in Sessions
  BY <1>1, ReadEffect
<1>3. /\ noise' \in [Ends -> Sessions] /\ waiting' \in [Ends -> BOOLEAN]
      /\ noise'[e] = AfterRead(noise[e], Read(e)) /\ noise'[Other(e)] = noise[Other(e)]
  BY <1>2, EndsEffect DEF Receives, TypeOK
<1>4. acc[e] \in Accumulators(Bytes)
  BY DEF TypeOK, Accumulators
<1>5. ASSUME NEW r \in Feed(acc[e], Read(e).plain), r.out # Error
      PROVE  /\ r.acc \in Accumulators(Bytes)
             /\ r.out = More \/ (r.out.status = "frame" /\ r.out.bytes \in Seq(Bytes))
  <2> DEFINE a == acc[e]  c == Read(e).plain
  <2>1. /\ a \in Accumulators(Bytes) /\ c \in Seq(Bytes) /\ r \in Feed(a, c)
        /\ \A f : <<f, 1>> \in Bytes => f.size \in Nat
        /\ c # <<>> => c[1] = <<FrameOf(c), FirstByte(c)>>
    BY <1>1, <1>4, BytesTyped
  <2> HIDE DEF a, c
  <2> QED BY <1>5, <2>1, FeedTyped
<1> QED BY <1>1, <1>3, <1>4, <1>5

LEMMA StatusOfError == Error.status = "error" /\ More.status = "more"
  BY DEF Error, More

LEMMA ReceiveTyped ==
    ASSUME TypeOK, NEW e \in Ends, ReceiveFails(e) \/ ReceiveChunk(e) \/ ReceiveFrame(e)
    PROVE  TypeOK'
<1>1. Receives(e)
  BY DEF ReceiveFails, ReceiveChunk, ReceiveFrame
<1>2. /\ noise' \in [Ends -> Sessions] /\ waiting' \in [Ends -> BOOLEAN]
      /\ wire[e] # <<>>
  BY <1>1, ReceivesTyped
<1>3. CASE ReceiveFails(e)
  <2>1. Leave(e) /\ UNCHANGED <<conn, faults, up, sent, got, fault>>
    BY <1>3 DEF ReceiveFails
  <2>2. got' \in [Ends -> Seq(Frames)] /\ fault' \in BOOLEAN
    BY <2>1 DEF TypeOK
  <2> QED BY <1>2, <2>1, <2>2, LeaveTyped
<1>4. ASSUME Consume(e, <<>>)
      PROVE  wire' \in [Ends -> Seq(Messages)]
  <2>1. <<>> \in Seq(Messages)
    OBVIOUS
  <2> QED BY <1>2, <1>4, <2>1, ConsumeEffect
<1>5. CASE ReceiveChunk(e)
  <2>1. PICK r \in Feed(acc[e], Read(e).plain) :
               r.out = More /\ acc' = [acc EXCEPT ![e] = r.acc]
    BY <1>5 DEF ReceiveChunk
  <2>2. r.out # Error
    BY <2>1, StatusOfError
  <2>3. r.acc \in Accumulators(Bytes)
    BY <1>1, <2>2, ReceivesTyped
  <2>4. acc' \in [Ends -> [expected : 0..MaxBytes, buffer : Seq(Bytes)]]
    BY <2>1, <2>3 DEF TypeOK, Accumulators
  <2>5. wire' \in [Ends -> Seq(Messages)]
    BY <1>4, <1>5 DEF ReceiveChunk
  <2> QED BY <1>2, <1>5, <2>4, <2>5 DEF ReceiveChunk, TypeOK, conn
<1>6. CASE ReceiveFrame(e)
  <2> DEFINE F(r) == Decode(r.out.bytes)
  <2>1. PICK r \in Feed(acc[e], Read(e).plain) :
          /\ r.out.status = "frame"
          /\ got' = [got EXCEPT ![e] = Append(@, F(r))]
          /\ \/ /\ Running(e)
                /\ acc' = [acc EXCEPT ![e] = r.acc]
                /\ Consume(e, <<>>)
                /\ UNCHANGED <<pc, unsent, fault>>
             \/ /\ ~Running(e)
                /\ Goto(e, "Online")
                /\ acc' = [acc EXCEPT ![e] = Idle]
                /\ Consume(e, <<>>)
                /\ UNCHANGED <<unsent, fault>>
             \/ ~Running(e) /\ Leave(e) /\ fault' = TRUE
    BY <1>6 DEF ReceiveFrame
  <2>2. r.out # Error /\ r.out # More
    BY <2>1, StatusOfError
  <2>3. r.acc \in Accumulators(Bytes) /\ F(r) \in Frames
    BY <1>1, <2>2, ReceivesTyped, DecodeTyped
  <2> HIDE DEF F
  <2>4. got' \in [Ends -> Seq(Frames)]
    <3>1. Append(got[e], F(r)) \in Seq(Frames)
      BY <2>3 DEF TypeOK
    <3> QED BY <2>1, <3>1 DEF TypeOK
  <2>5. Idle \in Accumulators(Bytes)
    BY Assumptions DEF Idle, Accumulators
  <2>6. UNCHANGED <<conn, faults, up, sent>>
    BY <1>6 DEF ReceiveFrame
  <2>7. CASE Running(e) /\ acc' = [acc EXCEPT ![e] = r.acc] /\ Consume(e, <<>>)
             /\ UNCHANGED <<pc, unsent, fault>>
    <3>1. acc' \in [Ends -> [expected : 0..MaxBytes, buffer : Seq(Bytes)]]
      BY <2>3, <2>7 DEF TypeOK, Accumulators
    <3> QED BY <1>2, <1>4, <2>4, <2>6, <2>7, <3>1 DEF TypeOK, conn
  <2>8. CASE ~Running(e) /\ Goto(e, "Online") /\ acc' = [acc EXCEPT ![e] = Idle]
             /\ Consume(e, <<>>) /\ UNCHANGED <<unsent, fault>>
    <3>1. acc' \in [Ends -> [expected : 0..MaxBytes, buffer : Seq(Bytes)]]
      BY <2>5, <2>8 DEF TypeOK, Accumulators
    <3>2. e = "client"
      BY <1>1, <2>8 DEF Receives, Talking, Ends, TypeOK, ServerPoints
    <3>3. pc' \in [Ends -> ClientPoints \cup ServerPoints]
          /\ pc'["client"] \in ClientPoints /\ pc'["server"] \in ServerPoints
      BY <2>8, <3>2 DEF TypeOK, Goto, ClientPoints
    <3> QED BY <1>2, <1>4, <2>4, <2>6, <2>8, <3>1, <3>3 DEF TypeOK, conn
  <2>9. CASE ~Running(e) /\ Leave(e) /\ fault' = TRUE
    BY <1>2, <2>4, <2>6, <2>9, LeaveTyped
  <2> QED BY <2>1, <2>7, <2>8, <2>9
<1> QED BY <1>3, <1>5, <1>6

LEMMA TypeStep ==
    ASSUME TypeOK, Handshaken, Next
    PROVE  TypeOK'
<1>1. "client" \in Ends /\ "server" \in Ends
  BY DEF Ends
<1>2. CASE Cut
  BY <1>2, FaultTyped DEF Cut, TypeOK, conn
<1>3. CASE SendHello
  BY <1>3, HelloTyped
<1>4. CASE ServerVersion
  BY <1>4, ServerVersionTyped
<1>5. CASE ClientVersion
  BY <1>5, ClientVersionTyped
<1>6. CASE ServerNoiseE \/ ClientNoise \/ ServerNoiseS
  BY <1>1, <1>6, NoiseStepTyped
     DEF ServerNoiseE, ClientNoise, ServerNoiseS, ClientPoints, ServerPoints
<1>7. ASSUME NEW n \in Sizes, Authenticate(n)
      PROVE  TypeOK'
  <2>1. Transmit("client", 1, n) /\ Goto("client", "AuthReply")
        /\ UNCHANGED <<conn, faults, up, wire, acc, waiting, got>>
    BY <1>7 DEF Authenticate
  <2>2. fault' \in BOOLEAN
    BY <1>7 DEF Authenticate, TypeOK, TooLarge
  <2>3. pc' \in [Ends -> ClientPoints \cup ServerPoints]
        /\ pc'["client"] \in ClientPoints /\ pc'["server"] \in ServerPoints
    BY <1>1, <2>1 DEF TypeOK, Goto, ClientPoints
  <2> QED BY <1>1, <2>1, <2>2, <2>3, TransmitTyped
<1>8. ASSUME NEW n \in Sizes, AuthResponse(n)
      PROVE  TypeOK'
  <2>1. Transmit("server", 1, n) /\ UNCHANGED <<conn, faults, up, wire, acc, waiting, got>>
        /\ UNCHANGED pc
    BY <1>8 DEF AuthResponse
  <2>2. fault' \in BOOLEAN
    BY <1>8 DEF AuthResponse, TypeOK, TooLarge
  <2> QED BY <1>1, <2>1, <2>2, TransmitTyped DEF TypeOK
<1>9. CASE SkipAuth
  <2>1. pc' \in [Ends -> ClientPoints \cup ServerPoints]
        /\ pc'["client"] \in ClientPoints /\ pc'["server"] \in ServerPoints
    BY <1>1, <1>9 DEF SkipAuth, TypeOK, Goto, ClientPoints
  <2> QED BY <1>9, <2>1 DEF SkipAuth, TypeOK, conn
<1>10. CASE AuthTimeout
  BY <1>1, <1>10, LeaveTyped DEF AuthTimeout, TypeOK
<1>11. ASSUME NEW e \in Ends, SocketFails(e)
       PROVE  TypeOK'
  BY <1>11, LeaveTyped DEF SocketFails, TypeOK
<1>12. ASSUME NEW e \in Ends, NEW n \in Sizes, SendFrame(e, n)
       PROVE  TypeOK'
  <2>1. Transmit(e, 0, n) /\ UNCHANGED <<conn, faults, up, wire, acc, waiting, got>>
        /\ UNCHANGED pc
    BY <1>12 DEF SendFrame
  <2>2. fault' \in BOOLEAN
    BY <1>12 DEF SendFrame, TypeOK
  <2> QED BY <2>1, <2>2, TransmitTyped DEF TypeOK
<1>13. ASSUME NEW e \in Ends, EncryptFails(e) \/ HeartbeatDead(e)
       PROVE  TypeOK'
  BY <1>13, LeaveTyped DEF EncryptFails, HeartbeatDead, TypeOK
<1>14. ASSUME NEW e \in Ends, Loop(e)
       PROVE  TypeOK'
  BY <1>12, <1>13, <1>14, SendChunkTyped, ReceiveTyped, PingTyped DEF Loop
<1>15. CASE Handshake
  BY <1>3, <1>4, <1>5, <1>6, <1>7, <1>8, <1>9, <1>10, <1>15 DEF Handshake
<1> QED BY <1>2, <1>11, <1>14, <1>15 DEF Next

-----------------------------------------------------------------------------
(***************************************************************************)
(* The handshakes.                                                         *)
(***************************************************************************)

LEMMA RangeOfTail ==
    ASSUME NEW S, NEW s \in Seq(S), s # <<>>
    PROVE  Range(Tail(s)) \subseteq Range(s) /\ Head(s) \in Range(s)
  BY DEF Range

LEMMA RangeOfAppended ==
    ASSUME NEW S, NEW s \in Seq(S), NEW m \in S
    PROVE  Range(s \o <<m>>) = Range(s) \cup {m}
<1> DEFINE t == <<m>>
<1>1. t \in Seq(S) /\ DOMAIN t = {1} /\ t[1] = m
  OBVIOUS
<1> HIDE DEF t
<1>2. Range(t) = {m}
  <2>1. ASSUME NEW x PROVE x \in Range(t) <=> x = m
    <3>1. x \in Range(t) <=> \E i \in DOMAIN t : x = t[i]
      BY DEF Range
    <3>2. x \in Range(t) <=> \E i \in {1} : x = t[i]
      BY <1>1, <3>1
    <3> QED BY <1>1, <3>2
  <2> QED BY <2>1
<1>3. Range(s \o t) = Range(s) \cup Range(t)
  BY <1>1, RangeConcatenation
<1> QED BY <1>2, <1>3 DEF t

LEMMA RangeOfArrives ==
    ASSUME TypeOK, NEW e \in Ends, NEW m \in Messages
    PROVE  /\ Range(Arrives(e, <<m>>)) \subseteq Range(wire[Other(e)]) \cup {m}
           /\ Arrives(e, <<>>) = wire[Other(e)]
<1>1. wire[Other(e)] \in Seq(Messages)
  BY EndsEffect DEF TypeOK
<1>2. Range(wire[Other(e)] \o <<m>>) = Range(wire[Other(e)]) \cup {m}
  BY <1>1, RangeOfAppended
<1>3. wire[Other(e)] \o <<>> = wire[Other(e)]
  BY <1>1
<1> QED BY <1>2, <1>3 DEF Arrives

LEMMA EmptyRange ==
    ASSUME NEW S, NEW s \in Seq(S)
    PROVE  (Range(s) = {} <=> s = <<>>) /\ Range(<<>>) = {}
<1>1. s # <<>> => s[1] \in Range(s)
  BY DEF Range
<1>2. Range(<<>>) = {}
  BY DEF Range
<1> QED BY <1>1, <1>2

\* The handshakes of e are over.
Established(e) ==
    /\ pc[e] \in {"Auth", "AuthReply", "Online", "Session"}
    /\ noise[e].mode # "handshake" /\ noise[e].step = 3

\* A step that is no step of the handshakes.
Calm ==
    /\ hello' = hello
    /\ \A e \in Ends :
        /\ noise'[e].step = noise[e].step
        /\ \/ pc'[e] = "Closed"
           \/ pc'[e] = pc[e] /\ noise'[e] = noise[e]
           \/ Established(e) /\ Established(e)'
        /\ unsent'[e] # <<>> => Talking(e)'
        /\ \A m \in Range(wire'[e]) :
            m \in Range(wire[e]) \/ (m.type = "binary" /\ noise[Other(e)].step > 0)

LEMMA EstablishedTalks ==
    ASSUME TypeOK, Handshaken, NEW e \in Ends, Talking(e)
    PROVE  Established(e) /\ noise[e].step > 0
  BY DEF Handshaken, Talking, Running, Established, Ends, TypeOK, ClientPoints, ServerPoints

LEMMA CalmStep ==
    ASSUME TypeOK, TypeOK', Handshaken, Announced, Calm
    PROVE  Handshaken' /\ Announced'
<1>1. /\ "client" \in Ends /\ "server" \in Ends /\ "client" # "server"
      /\ Other("client") = "server" /\ Other("server") = "client"
  BY DEF Ends, Other
<1>2. Announced'
  BY <1>1 DEF Announced, Calm
<1>3. pc["client"] \in ClientPoints /\ pc["server"] \in ServerPoints
      /\ pc'["client"] \in ClientPoints /\ pc'["server"] \in ServerPoints
  BY DEF TypeOK
<1>4. /\ \A l \in {"Start", "Version", "NoiseReply"} : pc'["client"] = l =>
            pc["client"] = l /\ noise'["client"] = noise["client"]
      /\ \A l \in {"Version", "NoiseE", "NoiseS"} : pc'["server"] = l =>
            pc["server"] = l /\ noise'["server"] = noise["server"]
      /\ pc'["server"] = "Session" => pc["server"] = "Session"
  BY <1>1, <1>3 DEF Calm, Established, ClientPoints, ServerPoints
<1>5. /\ pc'["client"] \in {"Auth", "AuthReply", "Online"} =>
            noise'["client"].step = 3 /\ noise'["client"].mode # "handshake"
      /\ pc'["server"] = "Session" =>
            noise'["server"].step = 3 /\ noise'["server"].mode # "handshake"
  BY <1>1, <1>3 DEF Calm, Established, Handshaken, ClientPoints, ServerPoints
<1>6. pc'["server"] = "Version" => wire'["client"] = <<>> /\ noise'["client"].step = 0
  <2> SUFFICES ASSUME pc'["server"] = "Version"
               PROVE  wire'["client"] = <<>> /\ noise'["client"].step = 0
    OBVIOUS
  <2>1. wire["client"] = <<>> /\ noise["client"].step = 0 /\ noise["server"].step = 0
    BY <1>4 DEF Handshaken, Session
  <2>2. Range(wire["client"]) = {}
    BY <2>1 DEF Range
  <2>3. Range(wire'["client"]) = {}
    BY <1>1, <2>1, <2>2 DEF Calm
  <2>4. wire'["client"] \in Seq(Messages)
    BY <1>1 DEF TypeOK
  <2> QED BY <1>1, <2>1, <2>3, <2>4, EmptyRange DEF Calm
<1>7. /\ noise'["client"].step = noise["client"].step
      /\ noise'["server"].step = noise["server"].step /\ hello' = hello
  BY <1>1 DEF Calm
<1>8. \A e \in Ends : unsent'[e] # <<>> => Talking(e)'
  BY DEF Calm
<1>9. Handshaken'
  BY <1>4, <1>5, <1>6, <1>7, <1>8 DEF Handshaken
<1> QED BY <1>2, <1>9

LEMMA TwoEnds ==
    /\ "client" \in Ends /\ "server" \in Ends /\ Ends = {"client", "server"}
    /\ Other("client") = "server" /\ Other("server") = "client"
  BY DEF Ends, Other

LEMMA HelloStep ==
    ASSUME TypeOK, Handshaken, Announced, SendHello
    PROVE  Handshaken' /\ Announced'
<1> USE TwoEnds
<1>1. /\ pc["client"] = "Start" /\ pc'["client"] = "Version" /\ pc'["server"] = pc["server"]
      /\ UNCHANGED <<hello, noise, unsent>>
      /\ wire'["client"] = wire["client"]
      /\ wire'["server"] = Arrives("client", <<Text(hello)>>)
  BY DEF SendHello, Goto, TypeOK, conn
<1>2. Text(hello) \in Messages /\ Text(hello).type = "text" /\ Text(hello).text = hello
  BY MessagesTyped DEF TypeOK, Words, Text
<1>3. Range(wire'["server"]) \subseteq Range(wire["server"]) \cup {Text(hello)}
  BY <1>1, <1>2, RangeOfArrives
<1>4. Announced'
  BY <1>1, <1>2, <1>3 DEF Announced
<1>5. \A e \in Ends : unsent'[e] # <<>> => Talking(e)'
  BY <1>1 DEF Handshaken, Talking, Running
<1>6. Handshaken'
  BY <1>1, <1>5 DEF Handshaken
<1> QED BY <1>4, <1>6

LEMMA ServerVersionStep ==
    ASSUME TypeOK, Handshaken, Announced, ServerVersion
    PROVE  Handshaken' /\ Announced'
<1> USE TwoEnds
<1> DEFINE m == Head(wire["server"])
           ans == IF m.text = Protocol THEN Text("PROTOCOL_ACCEPTED")
                                       ELSE Text("PROTOCOL_REJECTED")
<1>1. /\ pc["server"] = "Version" /\ pc'["client"] = pc["client"]
      /\ pc'["server"] = IF m.text = Protocol THEN "NoiseE" ELSE "Closed"
      /\ UNCHANGED <<hello, noise, unsent>> /\ wire["server"] # <<>>
  BY DEF ServerVersion, Goto, TypeOK, conn
<1>2. ans \in Messages /\ ans.type = "text"
      /\ (ans.text = "PROTOCOL_ACCEPTED" => m.text = Protocol)
  BY MessagesTyped DEF Words, Text
<1>3. wire'["server"] = Tail(wire["server"]) /\ wire'["client"] = Arrives("server", <<ans>>)
  <2>1. <<ans>> \in Seq(Messages) /\ Consume("server", <<ans>>)
    BY <1>2 DEF ServerVersion
  <2> HIDE DEF ans
  <2> QED BY <1>1, <2>1, ConsumeEffect
<1>4. Range(wire'["server"]) \subseteq Range(wire["server"]) /\ m \in Range(wire["server"])
  BY <1>1, <1>3, RangeOfTail DEF TypeOK
<1>5. Range(wire'["client"]) \subseteq {ans}
  <2>1. wire["client"] = <<>> /\ Range(wire["client"]) = {}
    BY <1>1 DEF Handshaken, Range
  <2> HIDE DEF ans
  <2> QED BY <1>2, <1>3, <2>1, RangeOfArrives
<1>6. m.text = hello
  <2>1. noise["client"].step = 0
    BY <1>1 DEF Handshaken
  <2> QED BY <1>4, <2>1 DEF Announced
<1>7. Announced'
  BY <1>1, <1>2, <1>4, <1>5, <1>6 DEF Announced
<1>8. \A e \in Ends : unsent'[e] # <<>> => Talking(e)'
  BY <1>1 DEF Handshaken, Talking, Running
<1>9. Handshaken'
  BY <1>1, <1>6, <1>8 DEF Handshaken
<1> QED BY <1>7, <1>9

LEMMA ClientVersionStep ==
    ASSUME TypeOK, Handshaken, Announced, ClientVersion
    PROVE  Handshaken' /\ Announced'
<1> USE TwoEnds
<1> DEFINE m == Head(wire["client"])
           s == noise["client"]
<1>1. /\ pc["client"] = "Version" /\ wire["client"] # <<>> /\ pc'["server"] = pc["server"]
      /\ UNCHANGED <<hello, unsent>> /\ noise'["server"] = noise["server"]
  BY DEF ClientVersion, Goto, TypeOK, conn
<1>2. s = Session("initiator") /\ s.step = 0 /\ s.mode = "handshake" /\ MyTurn(s)
  BY <1>1 DEF Handshaken, Session, MyTurn
<1>3. noise["server"].step = 0
  <2>1. noise["server"].step \in 0..3
    BY DEF TypeOK, Sessions
  <2> QED BY <1>2, <2>1 DEF Handshaken
<1>4. Range(Tail(wire["client"])) \subseteq Range(wire["client"]) /\ m \in Range(wire["client"])
  BY <1>1, RangeOfTail DEF TypeOK
<1>5. pc["server"] # "Version"
  BY <1>1 DEF Handshaken
<1>6. CASE m.text = "PROTOCOL_ACCEPTED"
  <2> DEFINE p == Packet(s, <<>>)
  <2>1. p \in Packets /\ Binary(p) \in Messages /\ Binary(p).type = "binary"
    <3>1. s \in Sessions /\ <<>> \in Seq(Bytes)
      BY DEF TypeOK
    <3>2. s.step < 3
      BY <1>2
    <3> HIDE DEF s
    <3>3. p \in Packets
      BY <3>1, <3>2, PacketTyped
    <3> QED BY <3>3, MessagesTyped DEF Binary
  <2>2. /\ pc'["client"] = "NoiseReply" /\ noise'["client"] = AfterWrite(s)
        /\ Consume("client", <<Binary(p)>>)
    BY <1>6 DEF ClientVersion, Goto, TypeOK
  <2> HIDE DEF p
  <2>3. /\ wire'["client"] = Tail(wire["client"])
        /\ wire'["server"] = Arrives("client", <<Binary(p)>>)
    <3>1. <<Binary(p)>> \in Seq(Messages)
      BY <2>1
    <3> QED BY <1>1, <2>2, <3>1, ConsumeEffect
  <2>4. noise'["client"] = Advance(Session("initiator")) /\ noise'["client"].step = 1
    BY <1>2, <2>2 DEF AfterWrite, CanWrite, IsFinished, Advance, Session
  <2>5. m.type = "text" /\ hello = Protocol
    BY <1>3, <1>4, <1>6 DEF Announced
  <2>6. Range(wire'["server"]) \subseteq Range(wire["server"]) \cup {Binary(p)}
    BY <2>1, <2>3, RangeOfArrives
  <2>7. Announced'
    BY <1>1, <1>4, <2>1, <2>3, <2>4, <2>5, <2>6 DEF Announced
  <2>8. \A e \in Ends : unsent'[e] # <<>> => Talking(e)'
    BY <1>1 DEF Handshaken, Talking, Running
  <2> QED BY <1>1, <1>3, <1>5, <2>2, <2>4, <2>5, <2>7, <2>8 DEF Handshaken
<1>7. CASE m.text # "PROTOCOL_ACCEPTED"
  <2>1. /\ pc'["client"] = "VersionMismatch" /\ noise' = noise
        /\ Consume("client", <<>>)
    BY <1>7 DEF ClientVersion, Goto, TypeOK
  <2>2. /\ wire'["client"] = Tail(wire["client"]) /\ wire'["server"] = wire["server"]
    <3>1. <<>> \in Seq(Messages) /\ Arrives("client", <<>>) = wire["server"]
      <4>1. wire["server"] \o <<>> = wire["server"]
        BY DEF TypeOK
      <4> QED BY <4>1 DEF Arrives
    <3> QED BY <1>1, <2>1, <3>1, ConsumeEffect
  <2>3. Announced'
    BY <1>1, <1>4, <2>1, <2>2 DEF Announced
  <2>4. \A e \in Ends : unsent'[e] # <<>> => Talking(e)'
    BY <1>1 DEF Handshaken, Talking, Running
  <2> QED BY <1>1, <1>3, <1>5, <2>1, <2>3, <2>4 DEF Handshaken
<1> QED BY <1>6, <1>7

\* An end whose turn it is to read takes the message it expects, and writes the
\* next one if there is one; any other message takes its state.
LEMMA NoiseStepEffect ==
    ASSUME TypeOK, NEW e \in Ends, NEW l, NoiseStep(e, l),
           noise[e].mode = "handshake", noise[e].step \in {0, 1, 2}, ~MyTurn(noise[e])
    PROVE  /\ Read(e) \in Packets /\ wire[e] # <<>> /\ Head(wire[e]).type = "binary"
           /\ noise' \in [Ends -> Sessions] /\ noise'[Other(e)] = noise[Other(e)]
           /\ UNCHANGED <<conn, faults, up, waiting, sent, got, fault>>
           /\ noise'[e].out = noise[e].out /\ noise'[e].in = noise[e].in
           /\ \/ /\ Read(e).step # noise[e].step + 1
                 /\ Leave(e) /\ noise'[e] = Taken(noise[e])
              \/ /\ Read(e).step = noise[e].step + 1
                 /\ Goto(e, l) /\ UNCHANGED <<unsent, acc>>
                 /\ wire' \in [Ends -> Seq(Messages)] /\ wire'[e] = Tail(wire[e])
                 /\ IF noise[e].step = 2
                    THEN /\ noise'[e] = Advance(noise[e])
                         /\ wire'[Other(e)] = wire[Other(e)]
                    ELSE /\ noise'[e] = Advance(Advance(noise[e]))
                         /\ \E p \in Packets :
                              /\ p.step = noise[e].step + 2 /\ Binary(p) \in Messages
                              /\ wire'[Other(e)] = Arrives(e, <<Binary(p)>>)
<1> DEFINE k == noise[e].step  s == AfterRead(noise[e], Read(e))
<1>1. /\ Read(e) \in Packets /\ wire[e] # <<>> /\ Head(wire[e]).type = "binary"
      /\ noise[e] \in Sessions /\ wire[Other(e)] \in Seq(Messages)
  BY ReadTyped, EndsEffect DEF NoiseStep, HasBinary, TypeOK
<1>2. ~IsFinished(noise[e]) /\ (CanRead(noise[e], Read(e)) <=> Read(e).step = k + 1)
  BY DEF IsFinished, CanRead
<1>3. UNCHANGED <<conn, faults, up, waiting, sent, got, fault>>
  BY DEF NoiseStep
<1>4. CASE Read(e).step # k + 1
  <2>1. s = Taken(noise[e]) /\ s.mode = "none"
    BY <1>1, <1>2, <1>4 DEF AfterRead, Taken, Sessions
  <2>2. Leave(e) /\ noise' = [noise EXCEPT ![e] = s]
    BY <2>1 DEF NoiseStep
  <2>3. s \in Sessions /\ s.out = noise[e].out /\ s.in = noise[e].in
    BY <1>1, <2>1, SessionsTyped DEF Taken, Sessions
  <2>4. noise' \in [Ends -> Sessions] /\ noise'[e] = s /\ noise'[Other(e)] = noise[Other(e)]
    BY <2>2, <2>3, EndsEffect DEF TypeOK
  <2> QED BY <1>1, <1>3, <1>4, <2>1, <2>2, <2>3, <2>4
<1>5. CASE Read(e).step = k + 1
  <2>1. s = Advance(noise[e])
    BY <1>2, <1>5 DEF AfterRead
  <2> HIDE DEF s
  <2>2. /\ s \in Sessions /\ s.step = k + 1 /\ s.role = noise[e].role
        /\ s.mode = IF k = 2 THEN "transport" ELSE "handshake"
        /\ s.out = noise[e].out /\ s.in = noise[e].in
    BY <1>1, <2>1, AdvanceEffect
  <2>3. /\ Goto(e, l) /\ UNCHANGED <<unsent, acc>>
        /\ IF IsFinished(s)
           THEN Consume(e, <<>>) /\ noise' = [noise EXCEPT ![e] = s]
           ELSE /\ Consume(e, <<Binary(Packet(s, <<>>))>>)
                /\ noise' = [noise EXCEPT ![e] = AfterWrite(s)]
    BY <2>2 DEF NoiseStep, s
  <2>4. CASE k = 2
    <3>1. IsFinished(s)
      BY <2>2, <2>4 DEF IsFinished
    <3>2. noise' \in [Ends -> Sessions] /\ noise'[e] = s /\ noise'[Other(e)] = noise[Other(e)]
      BY <2>2, <2>3, <3>1, NoiseUpdate
    <3>3. <<>> \in Seq(Messages) /\ Arrives(e, <<>>) = wire[Other(e)]
      <4>1. wire[Other(e)] \o <<>> = wire[Other(e)]
        BY <1>1
      <4> QED BY <4>1 DEF Arrives
    <3>4. /\ wire' \in [Ends -> Seq(Messages)] /\ wire'[e] = Tail(wire[e])
          /\ wire'[Other(e)] = wire[Other(e)]
      BY <1>1, <2>3, <3>1, <3>3, ConsumeEffect
    <3> QED BY <1>1, <1>3, <1>5, <2>1, <2>2, <2>3, <2>4, <3>2, <3>4
  <2>5. CASE k # 2
    <3>1. ~IsFinished(s) /\ s.step < 3 /\ s.mode = "handshake"
      BY <2>2, <2>5 DEF IsFinished
    <3>2. MyTurn(s)
      <4>1. (k = 0 \/ k = 1) /\ noise[e].role \in {"initiator", "responder"}
        BY <1>1, <2>5 DEF Sessions
      <4>2. k % 2 = k /\ (k + 1) % 2 = 1 - k
        BY <4>1
      <4> QED BY <2>2, <4>1, <4>2 DEF MyTurn
    <3>3. AfterWrite(s) = Advance(s)
      BY <3>1, <3>2 DEF AfterWrite, CanWrite
    <3>4. /\ Advance(s) \in Sessions
          /\ Advance(s).out = noise[e].out /\ Advance(s).in = noise[e].in
      BY <2>2, <3>1, AdvanceEffect
    <3>5. noise' \in [Ends -> Sessions] /\ noise'[e] = Advance(s)
          /\ noise'[Other(e)] = noise[Other(e)]
      <4>1. noise' = [noise EXCEPT ![e] = Advance(s)]
        BY <2>3, <3>1, <3>3
      <4> QED BY <3>4, <4>1, NoiseUpdate
    <3> DEFINE p == Packet(s, <<>>)
    <3>6. p \in Packets /\ p.step = k + 2
      <4>1. <<>> \in Seq(Bytes)
        OBVIOUS
      <4>2. p.step = s.step + 1
        BY <3>1 DEF Packet
      <4>3. p \in Packets
        BY <2>2, <3>1, <4>1, PacketTyped
      <4>4. k \in Nat /\ s.step = k + 1
        BY <2>2
      <4> HIDE DEF p, k
      <4> QED BY <4>2, <4>3, <4>4
    <3> HIDE DEF p
    <3>7. Binary(p) \in Messages
      BY <3>6, MessagesTyped
    <3>8. Consume(e, <<Binary(p)>>)
      BY <2>3, <3>1 DEF p
    <3>9. /\ wire' \in [Ends -> Seq(Messages)] /\ wire'[e] = Tail(wire[e])
          /\ wire'[Other(e)] = Arrives(e, <<Binary(p)>>)
      <4>1. <<Binary(p)>> \in Seq(Messages)
        BY <3>7
      <4> QED BY <1>1, <3>8, <4>1, ConsumeEffect
    <3>10. \E q \in Packets : /\ q.step = k + 2 /\ Binary(q) \in Messages
                              /\ wire'[Other(e)] = Arrives(e, <<Binary(q)>>)
      BY <3>6, <3>7, <3>9
    <3> QED BY <1>1, <1>3, <1>5, <2>1, <2>3, <2>5, <3>4, <3>5, <3>9, <3>10
  <2> QED BY <2>4, <2>5
<1> QED BY <1>4, <1>5

\* Leaving, with what else may change in the step.
LEMMA LeaveIsCalm ==
    ASSUME TypeOK, TypeOK', Handshaken, NEW e \in Ends, Leave(e), hello' = hello,
           noise'[e].step = noise[e].step, noise'[Other(e)] = noise[Other(e)]
    PROVE  Calm
<1>1. /\ pc'[e] = "Closed" /\ pc'[Other(e)] = pc[Other(e)]
      /\ wire'[e] = <<>> /\ wire'[Other(e)] = wire[Other(e)]
      /\ unsent'[e] = <<>> /\ unsent'[Other(e)] = unsent[Other(e)]
  BY LeaveEffect
<1>2. Range(wire'[e]) = {}
  BY <1>1 DEF Range
<1>3. unsent'[Other(e)] # <<>> => Talking(Other(e))'
  BY <1>1, EndsEffect DEF Handshaken, Talking, Running
<1> QED BY <1>1, <1>2, <1>3, EndsEffect DEF Calm

LEMMA ServerNoiseEStep ==
    ASSUME TypeOK, TypeOK', Handshaken, Announced, ServerNoiseE
    PROVE  Handshaken' /\ Announced'
<1> USE TwoEnds
<1> DEFINE s == noise["server"]
<1>1. pc["server"] = "NoiseE" /\ NoiseStep("server", "NoiseS") /\ s = Session("responder")
  BY DEF ServerNoiseE, Handshaken
<1>2. s.mode = "handshake" /\ s.step = 0 /\ ~MyTurn(s)
  BY <1>1 DEF Session, MyTurn
<1>3. UNCHANGED hello /\ noise'["client"] = noise["client"] /\ wire["server"] # <<>>
      /\ Head(wire["server"]).type = "binary"
  BY <1>1, <1>2, NoiseStepEffect DEF conn
<1>4. CASE Leave("server") /\ s.step = noise'["server"].step
  BY <1>3, <1>4, LeaveIsCalm, CalmStep
<1>5. CASE Goto("server", "NoiseS") /\ noise'["server"] = Advance(Advance(s))
  <2>1. \E p \in Packets : Binary(p) \in Messages
                           /\ wire'["client"] = Arrives("server", <<Binary(p)>>)
        /\ UNCHANGED unsent /\ wire'["server"] = Tail(wire["server"])
    <3>1. pc'["server"] # "Closed"
      BY <1>5 DEF Goto, TypeOK
    <3>2. ~Leave("server")
      BY <3>1, LeaveEffect
    <3> QED BY <1>1, <1>2, <3>2, NoiseStepEffect
  <2>2. PICK p \in Packets : Binary(p) \in Messages
                             /\ wire'["client"] = Arrives("server", <<Binary(p)>>)
    BY <2>1
  <2>3. pc'["server"] = "NoiseS" /\ pc'["client"] = pc["client"]
    BY <1>5, GotoEffect
  <2>4. noise'["server"] = Advance(Advance(Session("responder")))
        /\ noise'["server"].step = 2
    BY <1>1, <1>5 DEF Advance, Session
  <2>5. Range(wire'["server"]) \subseteq Range(wire["server"])
        /\ Head(wire["server"]) \in Range(wire["server"])
    BY <1>3, <2>1, RangeOfTail DEF TypeOK
  <2>6. noise["client"].step > 0
    BY <1>3, <2>5 DEF Announced
  <2>7. Range(wire'["client"]) \subseteq Range(wire["client"]) \cup {Binary(p)}
    BY <2>2, RangeOfArrives
  <2>8. Announced'
    BY <1>1, <1>2, <1>3, <2>4, <2>5, <2>7 DEF Announced, Binary
  <2>9. \A e \in Ends : unsent'[e] # <<>> => Talking(e)'
    BY <1>1, <2>1, <2>3 DEF Handshaken, Talking, Running
  <2> QED BY <1>1, <1>3, <2>3, <2>4, <2>6, <2>8, <2>9 DEF Handshaken
<1>6. \/ Leave("server") /\ noise'["server"] = Taken(s)
      \/ Goto("server", "NoiseS") /\ noise'["server"] = Advance(Advance(s))
  BY <1>1, <1>2, NoiseStepEffect
<1>7. s \in Sessions
  BY DEF TypeOK
<1> QED BY <1>4, <1>5, <1>6, <1>7, TakenEffect

LEMMA ClientNoiseStep ==
    ASSUME TypeOK, TypeOK', Handshaken, Announced, ClientNoise
    PROVE  Handshaken' /\ Announced'
<1> USE TwoEnds
<1> DEFINE s == noise["client"]
<1>1. pc["client"] = "NoiseReply" /\ NoiseStep("client", "Auth")
      /\ s = Advance(Session("initiator"))
  BY DEF ClientNoise, Handshaken
<1>2. s.mode = "handshake" /\ s.step = 1 /\ ~MyTurn(s)
  BY <1>1 DEF Session, MyTurn, Advance
<1>3. UNCHANGED hello /\ noise'["server"] = noise["server"] /\ wire["client"] # <<>>
      /\ Head(wire["client"]).type = "binary"
  BY <1>1, <1>2, NoiseStepEffect DEF conn
<1>4. CASE Leave("client") /\ s.step = noise'["client"].step
  BY <1>3, <1>4, LeaveIsCalm, CalmStep
<1>5. CASE Goto("client", "Auth") /\ noise'["client"] = Advance(Advance(s))
  <2>1. \E p \in Packets : Binary(p) \in Messages
                           /\ wire'["server"] = Arrives("client", <<Binary(p)>>)
        /\ UNCHANGED unsent /\ wire'["client"] = Tail(wire["client"])
    <3>1. pc'["client"] # "Closed"
      BY <1>5 DEF Goto, TypeOK
    <3>2. ~Leave("client")
      BY <3>1, LeaveEffect
    <3> QED BY <1>1, <1>2, <3>2, NoiseStepEffect
  <2>2. PICK p \in Packets : Binary(p) \in Messages
                             /\ wire'["server"] = Arrives("client", <<Binary(p)>>)
    BY <2>1
  <2>3. pc'["client"] = "Auth" /\ pc'["server"] = pc["server"]
    BY <1>5, GotoEffect
  <2>4. noise'["client"].mode = "transport" /\ noise'["client"].step = 3
    BY <1>1, <1>5 DEF Advance, Session
  <2>5. Range(wire'["client"]) \subseteq Range(wire["client"])
        /\ Head(wire["client"]) \in Range(wire["client"])
    BY <1>3, <2>1, RangeOfTail DEF TypeOK
  <2>6. noise["server"].step > 0
    BY <1>3, <2>5 DEF Announced
  <2>7. Range(wire'["server"]) \subseteq Range(wire["server"]) \cup {Binary(p)}
    BY <2>2, RangeOfArrives
  <2>8. Announced'
    BY <1>1, <1>2, <1>3, <2>4, <2>5, <2>7 DEF Announced, Binary
  <2>9. \A e \in Ends : unsent'[e] # <<>> => Talking(e)'
    BY <1>1, <2>1, <2>3 DEF Handshaken, Talking, Running
  <2>10. pc["server"] # "Version"
    BY <1>2 DEF Handshaken
  <2> QED BY <1>1, <1>2, <1>3, <2>3, <2>4, <2>6, <2>8, <2>9, <2>10 DEF Handshaken
<1>6. \/ Leave("client") /\ noise'["client"] = Taken(s)
      \/ Goto("client", "Auth") /\ noise'["client"] = Advance(Advance(s))
  BY <1>1, <1>2, NoiseStepEffect
<1>7. s \in Sessions
  BY DEF TypeOK
<1> QED BY <1>4, <1>5, <1>6, <1>7, TakenEffect

LEMMA ServerNoiseSStep ==
    ASSUME TypeOK, TypeOK', Handshaken, Announced, ServerNoiseS
    PROVE  Handshaken' /\ Announced'
<1> USE TwoEnds
<1> DEFINE s == noise["server"]
<1>1. pc["server"] = "NoiseS" /\ NoiseStep("server", "Session")
      /\ s = Advance(Advance(Session("responder")))
  BY DEF ServerNoiseS, Handshaken
<1>2. s.mode = "handshake" /\ s.step = 2 /\ ~MyTurn(s)
  BY <1>1 DEF Session, MyTurn, Advance
<1>3. UNCHANGED hello /\ noise'["client"] = noise["client"] /\ wire["server"] # <<>>
      /\ Head(wire["server"]).type = "binary"
  BY <1>1, <1>2, NoiseStepEffect DEF conn
<1>4. CASE Leave("server") /\ s.step = noise'["server"].step
  BY <1>3, <1>4, LeaveIsCalm, CalmStep
<1>5. CASE Goto("server", "Session") /\ noise'["server"] = Advance(s)
  <2>1. UNCHANGED unsent /\ wire'["server"] = Tail(wire["server"])
        /\ wire'["client"] = wire["client"]
    <3>1. pc'["server"] # "Closed"
      BY <1>5 DEF Goto, TypeOK
    <3>2. ~Leave("server")
      BY <3>1, LeaveEffect
    <3> QED BY <1>1, <1>2, <3>2, NoiseStepEffect
  <2>3. pc'["server"] = "Session" /\ pc'["client"] = pc["client"]
    BY <1>5, GotoEffect
  <2>4. noise'["server"].mode = "transport" /\ noise'["server"].step = 3
    BY <1>1, <1>5 DEF Advance, Session
  <2>5. Range(wire'["server"]) \subseteq Range(wire["server"])
        /\ Head(wire["server"]) \in Range(wire["server"])
    BY <1>3, <2>1, RangeOfTail DEF TypeOK
  <2>8. Announced'
    BY <1>1, <1>2, <1>3, <2>1, <2>4, <2>5 DEF Announced
  <2>9. \A e \in Ends : unsent'[e] # <<>> => Talking(e)'
    BY <1>1, <2>1, <2>3 DEF Handshaken, Talking, Running
  <2> QED BY <1>1, <1>2, <1>3, <2>3, <2>4, <2>8, <2>9 DEF Handshaken
<1>6. \/ Leave("server") /\ noise'["server"] = Taken(s)
      \/ Goto("server", "Session") /\ noise'["server"] = Advance(s)
  BY <1>1, <1>2, NoiseStepEffect
<1>7. s \in Sessions
  BY DEF TypeOK
<1> QED BY <1>4, <1>5, <1>6, <1>7, TakenEffect

\* Reading after the handshake.
LEMMA ReadEstablished ==
    ASSUME NEW s \in Sessions, s.mode # "handshake", NEW p \in Packets
    PROVE  /\ AfterRead(s, p).step = s.step /\ AfterRead(s, p).mode # "handshake"
           /\ AfterRead(s, p).out = s.out
           /\ CanRead(s, p) =>
                /\ IsFinished(s) /\ p.step = 0 /\ p.nonce = s.in
                /\ AfterRead(s, p) = [s EXCEPT !.in = s.in + 1]
                /\ AfterRead(s, p).in = s.in + 1 /\ AfterRead(s, p).mode = s.mode
           /\ ~CanRead(s, p) => AfterRead(s, p).in = s.in
<1>1. CASE CanRead(s, p)
  <2>1. IsFinished(s) /\ p.step = 0 /\ p.nonce = s.in
    BY <1>1 DEF CanRead
  <2>2. AfterRead(s, p) = [s EXCEPT !.in = s.in + 1]
    BY <1>1, <2>1 DEF AfterRead
  <2> QED BY <1>1, <2>1, <2>2 DEF Sessions
<1>2. CASE ~CanRead(s, p)
  BY <1>2, TakenEffect DEF AfterRead
<1> QED BY <1>1, <1>2

LEMMA LeavesAreCalm ==
    ASSUME TypeOK, TypeOK', Handshaken, NEW e \in Ends,
           SocketFails(e) \/ EncryptFails(e) \/ HeartbeatDead(e)
                          \/ (e = "client" /\ AuthTimeout)
    PROVE  Calm
  BY LeaveIsCalm DEF SocketFails, EncryptFails, HeartbeatDead, AuthTimeout, conn

\* Sending a frame, with what else may change in the step.
LEMMA TransmitIsCalm ==
    ASSUME TypeOK, TypeOK', Handshaken, NEW e \in Ends, NEW id \in {0, 1},
           NEW size \in Sizes, Transmit(e, id, size), hello' = hello, wire' = wire,
           pc'[Other(e)] = pc[Other(e)], Established(e), Talking(e)'
    PROVE  Calm
<1>1. /\ unsent'[Other(e)] = unsent[Other(e)] /\ noise'[Other(e)] = noise[Other(e)]
      /\ \E n \in Nat : noise'[e] = [noise[e] EXCEPT !.out = n]
  <2> DEFINE f == NextFrame(e, id, size)  cs == ChunksOfBytes(Encode(f))
  <2>1. /\ unsent'[Other(e)] = unsent[Other(e)] /\ noise'[Other(e)] = noise[Other(e)]
        /\ noise'[e] = [noise[e] EXCEPT !.out = noise[e].out + Len(cs)]
        /\ cs \in Seq(Seq(Bytes))
    <3> HIDE DEF f, cs
    <3>1. f = NextFrame(e, id, size) /\ cs = ChunksOfBytes(Encode(f))
      BY DEF f, cs
    <3> QED BY <3>1, TransmitEffect
  <2> HIDE DEF cs
  <2>2. noise[e].out + Len(cs) \in Nat
    BY <2>1 DEF TypeOK, Sessions
  <2> QED BY <2>1, <2>2
<1>2. noise'[e].step = noise[e].step /\ noise'[e].mode = noise[e].mode
  BY <1>1 DEF TypeOK, Sessions
<1>3. Talking(e)' => pc'[e] \in {"Auth", "AuthReply", "Online", "Session"}
  BY DEF Talking, Running
<1>4. Established(e)'
  BY <1>2, <1>3 DEF Established
<1>5. unsent'[Other(e)] # <<>> => Talking(Other(e))'
  BY <1>1, EndsEffect DEF Handshaken, Talking, Running
<1> QED BY <1>1, <1>2, <1>4, <1>5, EndsEffect DEF Calm

LEMMA SendsAreCalm ==
    ASSUME TypeOK, TypeOK', Handshaken, NEW e \in Ends, NEW n \in Sizes,
           SendFrame(e, n) \/ (e = "client" /\ Authenticate(n))
                           \/ (e = "server" /\ AuthResponse(n))
    PROVE  Calm
<1> USE TwoEnds
<1>1. CASE SendFrame(e, n)
  <2>1. Talking(e)' /\ Established(e) /\ pc'[Other(e)] = pc[Other(e)]
        /\ hello' = hello /\ wire' = wire
    BY <1>1, EstablishedTalks DEF SendFrame, Talking, Running, conn
  <2> QED BY <1>1, <2>1, TransmitIsCalm DEF SendFrame
<1>2. CASE e = "client" /\ Authenticate(n)
  <2>1. pc'[e] = "AuthReply" /\ pc'[Other(e)] = pc[Other(e)]
    BY <1>2, GotoEffect DEF Authenticate
  <2>2. Talking(e)' /\ Established(e) /\ hello' = hello /\ wire' = wire
    BY <1>2, <2>1 DEF Authenticate, Talking, Running, conn, Established, Handshaken
  <2> QED BY <1>2, <2>1, <2>2, TransmitIsCalm DEF Authenticate
<1>3. CASE e = "server" /\ AuthResponse(n)
  <2>1. Talking(e)' /\ Established(e) /\ pc'[Other(e)] = pc[Other(e)]
        /\ hello' = hello /\ wire' = wire
    BY <1>3 DEF AuthResponse, Talking, Running, conn, Established, Handshaken
  <2> QED BY <1>3, <2>1, TransmitIsCalm DEF AuthResponse
<1> QED BY <1>1, <1>2, <1>3

LEMMA ChunkIsCalm ==
    ASSUME TypeOK, TypeOK', Handshaken, NEW e \in Ends, SendChunk(e)
    PROVE  Calm
<1> DEFINE m == Binary(Head(unsent[e]))
<1>1. unsent[e] \in Seq(Packets) /\ unsent[e] # <<>> /\ noise[e].step > 0 /\ Talking(e)
  BY EstablishedTalks DEF SendChunk, Handshaken, TypeOK
<1>2. m \in Messages /\ m.type = "binary"
  BY <1>1, MessagesTyped DEF Binary
<1>3. /\ UNCHANGED <<hello, pc, noise>> /\ unsent'[Other(e)] = unsent[Other(e)]
      /\ wire'[Other(e)] = Arrives(e, <<m>>) /\ wire'[e] = wire[e]
  BY EndsEffect DEF SendChunk, TypeOK, conn
<1> HIDE DEF m
<1>4. Range(wire'[Other(e)]) \subseteq Range(wire[Other(e)]) \cup {m}
  BY <1>2, <1>3, RangeOfArrives
<1>5. Talking(e)' /\ (unsent'[Other(e)] # <<>> => Talking(Other(e))')
  BY <1>1, <1>3, EndsEffect DEF Handshaken, Talking, Running
<1> QED BY <1>1, <1>2, <1>3, <1>4, <1>5, EndsEffect DEF Calm

LEMMA PingIsCalm ==
    ASSUME TypeOK, TypeOK', Handshaken, NEW e \in Ends, PingLost(e) \/ PingBroken(e)
    PROVE  Calm
<1>1. /\ Established(e) /\ IsFinished(noise[e]) /\ noise[e] \in Sessions
      /\ UNCHANGED <<hello, pc, wire, unsent>> /\ noise'[Other(e)] = noise[Other(e)]
  BY EstablishedTalks, EndsEffect DEF PingLost, PingBroken, conn, Talking, TypeOK
<1>2. noise'[e].step = noise[e].step /\ noise'[e].mode # "handshake"
  <2>1. CASE PingLost(e)
    <3>1. noise'[e] = [noise[e] EXCEPT !.out = noise[e].out + 1]
      BY <1>1, <2>1 DEF PingLost, AfterWrite, CanWrite, TypeOK
    <3> QED BY <1>1, <3>1 DEF Established, Sessions
  <2>2. CASE PingBroken(e)
    <3>1. noise'[e] = Taken(noise[e])
      BY <2>2 DEF PingBroken, TypeOK
    <3> QED BY <1>1, <3>1, TakenEffect
  <2> QED BY <2>1, <2>2
<1>3. Established(e)'
  BY <1>1, <1>2 DEF Established
<1>4. \A x \in Ends : unsent'[x] # <<>> => Talking(x)'
  BY <1>1 DEF Handshaken, Talking, Running
<1> QED BY <1>1, <1>2, <1>3, <1>4, EndsEffect DEF Calm

LEMMA ReceiveIsCalm ==
    ASSUME TypeOK, TypeOK', Handshaken, NEW e \in Ends,
           ReceiveFails(e) \/ ReceiveChunk(e) \/ ReceiveFrame(e)
    PROVE  Calm
<1>1. Receives(e) /\ hello' = hello
  BY DEF ReceiveFails, ReceiveChunk, ReceiveFrame, conn
<1>2. /\ wire[e] # <<>> /\ Read(e) \in Packets /\ noise'[Other(e)] = noise[Other(e)]
      /\ noise'[e] = AfterRead(noise[e], Read(e)) /\ noise[e] \in Sessions
  BY <1>1, ReceivesTyped DEF TypeOK
<1>3. Established(e)
  BY <1>1, EstablishedTalks DEF Receives
<1>4. noise'[e].step = noise[e].step /\ noise'[e].mode # "handshake"
  BY <1>2, <1>3, ReadEstablished DEF Established
<1>5. CASE Leave(e)
  BY <1>1, <1>2, <1>4, <1>5, LeaveIsCalm
<1>6. CASE Consume(e, <<>>) /\ UNCHANGED unsent /\ (UNCHANGED pc \/ Goto(e, "Online"))
  <2>1. wire'[e] = Tail(wire[e]) /\ wire'[Other(e)] = wire[Other(e)]
    <3>1. <<>> \in Seq(Messages) /\ Arrives(e, <<>>) = wire[Other(e)]
      <4>1. wire[Other(e)] \o <<>> = wire[Other(e)]
        BY EndsEffect DEF TypeOK
      <4> QED BY <4>1 DEF Arrives
    <3> QED BY <1>2, <1>6, <3>1, ConsumeEffect
  <2>2. Range(wire'[e]) \subseteq Range(wire[e])
    BY <1>2, <2>1, RangeOfTail DEF TypeOK
  <2>3. pc'[Other(e)] = pc[Other(e)] /\ (pc'[e] = pc[e] \/ pc'[e] = "Online")
    BY <1>6, GotoEffect
  <2>4. Established(e)'
    BY <1>3, <1>4, <2>3 DEF Established
  <2>5. \A x \in Ends : unsent'[x] # <<>> => Talking(x)'
    <3>1. unsent'[e] = <<>>
      BY <1>1, <1>6 DEF Receives
    <3> QED BY <1>6, <2>3, <3>1, EndsEffect DEF Handshaken, Talking, Running
  <2> QED BY <1>1, <1>2, <1>4, <2>1, <2>2, <2>3, <2>4, <2>5, EndsEffect, <1>3 DEF Calm
<1> QED BY <1>5, <1>6 DEF ReceiveFails, ReceiveChunk, ReceiveFrame

LEMMA HandshakenStep ==
    ASSUME TypeOK, TypeOK', Handshaken, Announced, Next
    PROVE  Handshaken' /\ Announced'
<1> USE TwoEnds
<1>1. CASE Cut
  <2>1. Calm
    BY <1>1 DEF Cut, conn, Calm, Handshaken, Talking, Running
  <2> QED BY <2>1, CalmStep
<1>2. CASE SkipAuth
  <2>1. UNCHANGED <<hello, noise, wire, unsent>> /\ pc["client"] = "Auth"
        /\ pc'["client"] = "Online" /\ pc'["server"] = pc["server"]
    BY <1>2, GotoEffect DEF SkipAuth, conn
  <2>2. Established("client") /\ Established("client")'
    BY <2>1 DEF Established, Handshaken
  <2>3. \A e \in Ends : unsent'[e] # <<>> => Talking(e)'
    BY <2>1 DEF Handshaken, Talking, Running
  <2>4. Calm
    BY <2>1, <2>2, <2>3 DEF Calm
  <2> QED BY <2>4, CalmStep
<1>3. CASE AuthTimeout
  BY <1>3, LeavesAreCalm, CalmStep
<1>4. ASSUME NEW n \in Sizes, Authenticate(n) \/ AuthResponse(n)
      PROVE  Handshaken' /\ Announced'
  BY <1>4, SendsAreCalm, CalmStep
<1>5. CASE Handshake
  BY <1>2, <1>3, <1>4, <1>5, HelloStep, ServerVersionStep, ClientVersionStep,
     ServerNoiseEStep, ClientNoiseStep, ServerNoiseSStep DEF Handshake
<1>6. ASSUME NEW e \in Ends, SocketFails(e) \/ Loop(e)
      PROVE  Handshaken' /\ Announced'
  BY <1>6, LeavesAreCalm, SendsAreCalm, ChunkIsCalm, PingIsCalm, ReceiveIsCalm, CalmStep
     DEF Loop
<1> QED BY <1>1, <1>5, <1>6 DEF Next

-----------------------------------------------------------------------------
(***************************************************************************)
(* From one end to the other.                                              *)
(***************************************************************************)

\* What the invariant says of the frames that e sends.
Direction(e) ==
    /\ IsPrefix(got[Other(e)], sent[e]) /\ Numbered(e)
    /\ ~Ended(Other(e)) => Chained(e) /\ Accumulated(e) /\ CaughtUp(e)

LEMMA Directions ==
    /\ Delivered /\ Delivering <=> \A e \in Ends : Direction(e)
    /\ Delivered' /\ Delivering' <=> \A e \in Ends : Direction(e)'
<1>1. Delivered /\ Delivering <=> \A e \in Ends : Direction(e)
  BY TwoEnds DEF Delivered, Delivering, Direction
<1>2. Delivered' /\ Delivering' <=> \A e \in Ends : Direction(e)'
  BY TwoEnds DEF Delivered, Delivering, Direction
<1> QED BY <1>1, <1>2

\* The part of the types that concerns the frames of e.
LEMMA DirectionTyped ==
    ASSUME TypeOK, NEW e \in Ends
    PROVE  /\ Other(e) \in Ends
           /\ sent[e] \in Seq(Frames) /\ got[Other(e)] \in Seq(Frames)
           /\ Len(sent[e]) \in Nat /\ Len(got[Other(e)]) \in Nat
           /\ unsent[e] \in Seq(Packets) /\ wire[Other(e)] \in Seq(Messages)
           /\ acc[Other(e)] \in Accumulators(Bytes)
           /\ noise[e] \in Sessions /\ noise[Other(e)] \in Sessions
           /\ noise[e].out \in Nat /\ noise[Other(e)].in \in Nat
           /\ InFlight(e) \subseteq Packets
<1>1. /\ Other(e) \in Ends
      /\ sent[e] \in Seq(Frames) /\ got[Other(e)] \in Seq(Frames)
      /\ unsent[e] \in Seq(Packets) /\ wire[Other(e)] \in Seq(Messages)
      /\ acc[Other(e)] \in Accumulators(Bytes)
      /\ noise[e] \in Sessions /\ noise[Other(e)] \in Sessions
  BY EndsEffect DEF TypeOK, Accumulators
<1>2. Range(unsent[e]) \subseteq Packets /\ Range(wire[Other(e)]) \subseteq Messages
  BY <1>1, RangeOfSeq
<1>3. InFlight(e) \subseteq Packets
  BY <1>2, MessagesTyped DEF InFlight, Data, IsData
<1> QED BY <1>1, <1>3 DEF Sessions

LEMMA DataGrows ==
    ASSUME NEW s, NEW t, NEW m, Range(s) \subseteq Range(t) \cup {m}
    PROVE  /\ Data(s) \subseteq Data(t) \cup {m.packet}
           /\ ~IsData(m) => Data(s) \subseteq Data(t)
  BY DEF Data

LEMMA DataShrinks ==
    ASSUME NEW s, NEW t, Range(s) \subseteq Range(t)
    PROVE  Data(s) \subseteq Data(t)
  BY DEF Data

\* Nothing new on the way from e: packets may be lost and nonces skipped.
Still(e) ==
    /\ sent'[e] = sent[e] /\ got'[Other(e)] = got[Other(e)]
    /\ ~Ended(Other(e))' =>
        /\ ~Ended(Other(e)) /\ InFlight(e)' \subseteq InFlight(e)
        /\ noise'[e].out >= noise[e].out
        /\ noise'[Other(e)].in = noise[Other(e)].in
        /\ acc'[Other(e)] = acc[Other(e)]

LEMMA StillStep ==
    ASSUME TypeOK, TypeOK', NEW e \in Ends, Direction(e), Still(e)
    PROVE  Direction(e)'
<1>1. IsPrefix(got[Other(e)], sent[e])' /\ Numbered(e)'
  BY DEF Direction, Still, Numbered
<1> SUFFICES ASSUME ~Ended(Other(e))'
             PROVE  Chained(e)' /\ Accumulated(e)' /\ CaughtUp(e)'
  BY <1>1 DEF Direction
<1>2. /\ ~Ended(Other(e)) /\ InFlight(e)' \subseteq InFlight(e)
      /\ noise'[e].out >= noise[e].out
      /\ noise'[Other(e)].in = noise[Other(e)].in
      /\ acc'[Other(e)] = acc[Other(e)]
      /\ sent'[e] = sent[e] /\ got'[Other(e)] = got[Other(e)]
  BY DEF Still
<1>3. Chained(e) /\ Accumulated(e) /\ CaughtUp(e)
  BY <1>2 DEF Direction
<1>4. noise[e].out \in Nat /\ noise'[e].out \in Nat /\ InFlight(e) \subseteq Packets
      /\ noise[Other(e)].in \in Nat
  <2>1. noise'[e] \in Sessions
    BY DEF TypeOK
  <2> QED BY <2>1, DirectionTyped DEF Sessions
<1>5. Accumulated(e)'
  BY <1>2, <1>3 DEF Accumulated
<1>6. CaughtUp(e)'
  BY <1>2, <1>3, <1>4 DEF CaughtUp
<1>7. ASSUME NEW p \in InFlight(e)'
      PROVE  /\ p.nonce < noise'[e].out /\ Sent(e, p.plain)'
             /\ p.nonce = noise'[Other(e)].in =>
                    /\ FrameOf(p.plain).no = Len(got'[Other(e)]) + 1
                    /\ FirstByte(p.plain) = BytesRead(acc'[Other(e)]) + 1
             /\ p.nonce + 1 = noise'[e].out =>
                    FrameOf(p.plain).no = Len(sent'[e]) /\ EndsFrame(p.plain)
  <2>1. p \in InFlight(e) /\ p.nonce \in Nat
    BY <1>2, <1>4 DEF Packets
  <2>2. p.nonce < noise[e].out /\ Sent(e, p.plain)
    BY <1>3, <2>1 DEF Chained
  <2>3. Sent(e, p.plain)'
    BY <1>2, <2>2 DEF Sent
  <2>4. p.nonce + 1 = noise'[e].out => noise'[e].out = noise[e].out
    BY <1>2, <1>4, <2>1, <2>2
  <2>5. p.nonce < noise'[e].out
    BY <1>2, <1>4, <2>1, <2>2
  <2> QED BY <1>2, <1>3, <2>1, <2>3, <2>4, <2>5 DEF Chained
<1>8. \A p, q \in InFlight(e)' : q.nonce = p.nonce + 1 => Follows(q.plain, p.plain)
  BY <1>2, <1>3 DEF Chained
<1>9. Chained(e)'
  BY <1>7, <1>8 DEF Chained
<1> QED BY <1>5, <1>6, <1>9

LEMMA PrefixProperties ==
    ASSUME NEW S, NEW s \in Seq(S), NEW t \in Seq(S)
    PROVE  /\ IsPrefix(s, t) <=>
                Len(s) <= Len(t) /\ \A i \in 1..Len(s) : s[i] = t[i]
           /\ \A x \in S : IsPrefix(s, t) => IsPrefix(s, Append(t, x))
           /\ IsPrefix(s, t) /\ Len(s) < Len(t) => IsPrefix(Append(s, t[Len(s) + 1]), t)
<1>1. ASSUME NEW u \in Seq(S), NEW v \in Seq(S)
      PROVE  IsPrefix(u, v) <=> Len(u) <= Len(v) /\ \A i \in 1..Len(u) : u[i] = v[i]
  <2>1. CASE Len(u) <= Len(v)
    <3>1. /\ SubSeq(u, 1, Len(u)) \in Seq(S) /\ SubSeq(v, 1, Len(u)) \in Seq(S)
          /\ Len(SubSeq(u, 1, Len(u))) = Len(u) /\ Len(SubSeq(v, 1, Len(u))) = Len(u)
          /\ \A i \in 1..Len(u) : SubSeq(u, 1, Len(u))[i] = u[i]
          /\ \A i \in 1..Len(u) : SubSeq(v, 1, Len(u))[i] = v[i]
      BY <2>1
    <3>2. SubSeq(u, 1, Len(u)) = SubSeq(v, 1, Len(u)) <=> \A i \in 1..Len(u) : u[i] = v[i]
      BY <3>1, SeqEqual
    <3> QED BY <2>1, <3>2 DEF IsPrefix
  <2>2. CASE ~(Len(u) <= Len(v))
    BY <2>2 DEF IsPrefix
  <2> QED BY <2>1, <2>2
<1>2. ASSUME NEW x \in S, IsPrefix(s, t)
      PROVE  IsPrefix(s, Append(t, x))
  <2>1. Append(t, x) \in Seq(S) /\ Len(Append(t, x)) = Len(t) + 1
        /\ \A i \in 1..Len(t) : Append(t, x)[i] = t[i]
    OBVIOUS
  <2>2. Len(s) <= Len(t) /\ \A i \in 1..Len(s) : s[i] = t[i]
    BY <1>1, <1>2
  <2>3. Len(s) \in Nat /\ Len(t) \in Nat
    OBVIOUS
  <2> DEFINE v == Append(t, x)
  <2>4. v \in Seq(S) /\ Len(s) <= Len(v) /\ \A i \in 1..Len(s) : s[i] = v[i]
    BY <2>1, <2>2, <2>3
  <2> HIDE DEF v
  <2>5. IsPrefix(s, v)
    BY <1>1, <2>4
  <2> QED BY <2>5 DEF v
<1>3. ASSUME IsPrefix(s, t), Len(s) < Len(t)
      PROVE  IsPrefix(Append(s, t[Len(s) + 1]), t)
  <2> DEFINE u == Append(s, t[Len(s) + 1])
  <2>1. u \in Seq(S) /\ Len(u) = Len(s) + 1 /\ u[Len(s) + 1] = t[Len(s) + 1]
        /\ \A i \in 1..Len(s) : u[i] = s[i]
    BY <1>3
  <2>2. \A i \in 1..Len(s) : s[i] = t[i]
    BY <1>1, <1>3
  <2>3. Len(s) \in Nat /\ Len(t) \in Nat
    OBVIOUS
  <2> HIDE DEF u
  <2>4. Len(u) <= Len(t) /\ \A i \in 1..Len(u) : u[i] = t[i]
    BY <1>3, <2>1, <2>2, <2>3
  <2>5. IsPrefix(u, t)
    BY <1>1, <2>1, <2>4
  <2> QED BY <2>5 DEF u
<1> QED BY <1>1, <1>2, <1>3

\* encode_frame and encrypt_chunked put the whole frame at the end of the stream.
LEMMA TransmitDirection ==
    ASSUME TypeOK, TypeOK', NEW e \in Ends, Direction(e),
           NEW id \in {0, 1}, NEW size \in Sizes, Transmit(e, id, size),
           wire'[Other(e)] = wire[Other(e)], acc'[Other(e)] = acc[Other(e)],
           got'[Other(e)] = got[Other(e)], Ended(Other(e)) => Ended(Other(e))'
    PROVE  Direction(e)'
<1> DEFINE r == Other(e)  f == NextFrame(e, id, size)  cs == ChunksOfBytes(Encode(f))
           n == Len(cs)  out == noise[e].out  k == Len(sent[e])
<1>1. /\ f \in Frames /\ f.no = k + 1 /\ f.size = size
      /\ cs \in Seq(Seq(Bytes)) /\ Len(unsent'[e]) = n
      /\ \A j \in 1..n : unsent'[e][j] =
                [step |-> 0, nonce |-> out + (j - 1), plain |-> cs[j]]
      /\ sent'[e] = Append(sent[e], f)
      /\ noise'[r] = noise[r]
      /\ noise'[e] = [noise[e] EXCEPT !.out = out + n]
  <2> HIDE DEF f, cs
  <2>1. f = NextFrame(e, id, size) /\ cs = ChunksOfBytes(Encode(f))
    BY DEF f, cs
  <2> QED BY <2>1, TransmitEffect
<1>2. /\ n \in Nat \ {0} /\ FirstByte(cs[1]) = 1
      /\ \A j \in 1..n : FrameOf(cs[j]) = f /\ IsPiece(cs[j])
      /\ \A j \in 1..n : EndsFrame(cs[j]) <=> j = n
      /\ \A j \in 1..n : j < n => FirstByte(cs[j + 1]) = LastByte(cs[j]) + 1
  <2>1. f.size \in Nat
    BY <1>1, Assumptions
  <2> HIDE DEF f
  <2> QED BY <2>1, ChunksArePieces
<1> HIDE DEF f, cs, n
<1>3. /\ r \in Ends /\ sent[e] \in Seq(Frames) /\ got[r] \in Seq(Frames)
      /\ k \in Nat /\ Len(got[r]) \in Nat /\ noise[e] \in Sessions
      /\ out \in Nat /\ noise[r].in \in Nat /\ InFlight(e) \subseteq Packets
      /\ unsent'[e] \in Seq(Packets)
  BY DirectionTyped DEF TypeOK
<1>4. noise'[e].out = out + n /\ noise'[r].in = noise[r].in
  BY <1>1, <1>3 DEF Sessions
<1>5. Len(sent'[e]) = k + 1 /\ sent'[e][k + 1] = f /\ \A i \in 1..k : sent'[e][i] = sent[e][i]
  BY <1>1, <1>3, AppendProperties
<1>6. IsPrefix(got'[r], sent'[e]) /\ Numbered(e)'
  <2>1. IsPrefix(got'[r], sent'[e])
    BY <1>1, <1>3, PrefixProperties DEF Direction
  <2>2. Numbered(e)'
    BY <1>1, <1>3, <1>5 DEF Direction, Numbered
  <2> QED BY <2>1, <2>2
<1> SUFFICES ASSUME ~Ended(r)'
             PROVE  Chained(e)' /\ Accumulated(e)' /\ CaughtUp(e)'
  BY <1>6 DEF Direction
<1>7. Chained(e) /\ Accumulated(e) /\ CaughtUp(e)
  BY DEF Direction
<1>8. Accumulated(e)'
  <2>1. acc'[r] # Idle => Len(got[r]) < k /\ HoldsPart(acc[r], sent[e][Len(got[r]) + 1])
    BY <1>7 DEF Accumulated
  <2>2. Len(got[r]) < k => sent'[e][Len(got[r]) + 1] = sent[e][Len(got[r]) + 1]
    <3> DEFINE g == Len(got[r])
    <3>1. g < k => g + 1 \in 1..k
      BY <1>3
    <3> QED BY <1>5, <3>1
  <2> QED BY <1>3, <1>5, <2>1, <2>2 DEF Accumulated
<1>9. CaughtUp(e)'
  BY <1>2, <1>3, <1>4, <1>7 DEF CaughtUp
\* A packet of the new frame, and one that was there before.
<1> DEFINE New(p, j) == j \in 1..n /\ p.nonce = out + (j - 1) /\ p.plain = cs[j]
           Old(p)    == p \in InFlight(e) /\ p.nonce \in Nat /\ p.nonce < out
<1>10. \A p \in InFlight(e)' : Old(p) \/ \E j : New(p, j)
  <2> SUFFICES ASSUME NEW p \in InFlight(e)' PROVE Old(p) \/ \E j : New(p, j)
    OBVIOUS
  <2>1. CASE p \in Range(unsent'[e])
    <3>1. Range(unsent'[e]) = {unsent'[e][j] : j \in 1..Len(unsent'[e])}
      BY <1>3, RangeEquality
    <3>2. PICK j \in 1..n : p = unsent'[e][j]
      BY <1>1, <2>1, <3>1
    <3>3. p = [step |-> 0, nonce |-> out + (j - 1), plain |-> cs[j]]
      BY <1>1, <3>2
    <3>4. New(p, j)
      BY <3>3
    <3> QED BY <3>4
  <2>2. CASE p \in Data(wire'[r])
    <3>1. p \in InFlight(e)
      BY <2>2 DEF InFlight
    <3> QED BY <1>3, <1>7, <3>1 DEF Chained, Packets
  <2> QED BY <2>1, <2>2 DEF InFlight
<1>11. \A p, j : New(p, j) =>
          /\ p.nonce < noise'[e].out /\ Sent(e, p.plain)'
          /\ p.nonce = noise'[r].in =>
                FrameOf(p.plain).no = Len(got'[r]) + 1
                /\ FirstByte(p.plain) = BytesRead(acc'[r]) + 1
          /\ p.nonce + 1 = noise'[e].out =>
                FrameOf(p.plain).no = Len(sent'[e]) /\ EndsFrame(p.plain)
  <2> SUFFICES ASSUME NEW p, NEW j, New(p, j)
               PROVE  /\ p.nonce < noise'[e].out /\ Sent(e, p.plain)'
                      /\ p.nonce = noise'[r].in =>
                            FrameOf(p.plain).no = Len(got'[r]) + 1
                            /\ FirstByte(p.plain) = BytesRead(acc'[r]) + 1
                      /\ p.nonce + 1 = noise'[e].out =>
                            FrameOf(p.plain).no = Len(sent'[e]) /\ EndsFrame(p.plain)
    OBVIOUS
  <2>1. j \in 1..n /\ j \in Nat /\ p.nonce = out + (j - 1) /\ p.plain = cs[j]
        /\ FrameOf(p.plain) = f /\ IsPiece(p.plain)
    BY <1>2
  <2> HIDE DEF New
  <2>2. p.nonce < noise'[e].out
    BY <1>2, <1>3, <1>4, <2>1
  <2>3. Sent(e, p.plain)'
    BY <1>3, <1>5, <2>1 DEF Sent
  <2>4. ASSUME p.nonce = noise'[r].in
        PROVE  FrameOf(p.plain).no = Len(got'[r]) + 1
               /\ FirstByte(p.plain) = BytesRead(acc'[r]) + 1
    <3>1. j = 1 /\ noise[r].in = out
      BY <1>3, <1>4, <1>7, <2>1, <2>4 DEF CaughtUp
    <3>2. acc[r] = Idle /\ Len(got[r]) = k
      BY <1>7, <3>1 DEF CaughtUp
    <3> QED BY <1>1, <1>2, <2>1, <3>1, <3>2 DEF BytesRead
  <2>5. ASSUME p.nonce + 1 = noise'[e].out
        PROVE  FrameOf(p.plain).no = Len(sent'[e]) /\ EndsFrame(p.plain)
    <3>1. j = n
      BY <1>2, <1>3, <1>4, <2>1, <2>5
    <3> QED BY <1>1, <1>2, <1>5, <2>1, <3>1
  <2> QED BY <2>2, <2>3, <2>4, <2>5
<1>12. \A p : Old(p) =>
          /\ p.nonce < noise'[e].out /\ Sent(e, p.plain)'
          /\ p.nonce = noise'[r].in =>
                FrameOf(p.plain).no = Len(got'[r]) + 1
                /\ FirstByte(p.plain) = BytesRead(acc'[r]) + 1
          /\ p.nonce + 1 # noise'[e].out
  <2> SUFFICES ASSUME NEW p, Old(p)
               PROVE  /\ p.nonce < noise'[e].out /\ Sent(e, p.plain)'
                      /\ p.nonce = noise'[r].in =>
                            FrameOf(p.plain).no = Len(got'[r]) + 1
                            /\ FirstByte(p.plain) = BytesRead(acc'[r]) + 1
                      /\ p.nonce + 1 # noise'[e].out
    OBVIOUS
  <2>1. p.nonce < noise'[e].out /\ p.nonce + 1 # noise'[e].out
    BY <1>2, <1>3, <1>4
  <2>2. Sent(e, p.plain)'
    <3>1. Sent(e, p.plain)
      BY <1>7 DEF Chained
    <3> QED BY <1>3, <1>5, <3>1 DEF Sent
  <2>3. p.nonce = noise'[r].in => FrameOf(p.plain).no = Len(got'[r]) + 1
                                  /\ FirstByte(p.plain) = BytesRead(acc'[r]) + 1
    BY <1>4, <1>7 DEF Chained
  <2> QED BY <2>1, <2>2, <2>3
<1>13. ASSUME NEW p, NEW q, Old(p) \/ \E j : New(p, j), Old(q) \/ \E j : New(q, j),
              q.nonce = p.nonce + 1
       PROVE  Follows(q.plain, p.plain)
  <2>1. CASE Old(p) /\ Old(q)
    BY <1>7, <1>13, <2>1 DEF Chained
  <2>2. ASSUME Old(p), NEW j, New(q, j)
        PROVE  Follows(q.plain, p.plain)
    <3>1. j = 1 /\ p.nonce + 1 = out
      BY <1>2, <1>3, <1>13, <2>2
    <3>2. FrameOf(p.plain).no = k /\ EndsFrame(p.plain)
      BY <1>7, <2>2, <3>1 DEF Chained
    <3> QED BY <1>1, <1>2, <2>2, <3>1, <3>2 DEF Follows
  <2>3. ASSUME NEW j, New(p, j), Old(q)
        PROVE  FALSE
    BY <1>3, <1>13, <2>3
  <2>4. ASSUME NEW i, New(p, i), NEW j, New(q, j)
        PROVE  Follows(q.plain, p.plain)
    <3>1. j = i + 1 /\ i < n /\ i \in Nat
      BY <1>2, <1>3, <1>13, <2>4
    <3>2. FirstByte(cs[j]) = LastByte(cs[i]) + 1 /\ ~EndsFrame(cs[i])
          /\ FrameOf(cs[j]) = FrameOf(cs[i])
      BY <1>2, <2>4, <3>1
    <3> QED BY <2>4, <3>2 DEF Follows
  <2> QED BY <1>13, <2>1, <2>2, <2>3, <2>4
<1>14. Chained(e)'
  <2> HIDE DEF New, Old
  <2> QED BY <1>10, <1>11, <1>12, <1>13 DEF Chained
<1> QED BY <1>8, <1>9, <1>14

\* The packet that r reads is the next piece of the frame that comes next.
LEMMA NextPiece ==
    ASSUME TypeOK, Handshaken, NEW e \in Ends, NEW r, r = Other(e), Direction(e),
           Receives(r), CanRead(noise[r], Read(r)),
           NEW p, p = Read(r), NEW c, c = p.plain
    PROVE  /\ c \in Seq(Bytes) /\ IsPiece(c) /\ ReadyFor(acc[r], c)
           /\ FirstByte(c) \in Nat
           /\ Len(got[r]) < Len(sent[e])
           /\ FrameOf(c) = sent[e][Len(got[r]) + 1]
           /\ FrameOf(c).no = Len(got[r]) + 1
           /\ FrameOf(c).size \in Nat \ {0}
           /\ p \in InFlight(e) /\ p.nonce = noise[r].in
           /\ noise'[r].in = noise[r].in + 1 /\ noise'[e] = noise[e]
<1>1. /\ r \in Ends /\ Other(r) = e /\ wire[r] # <<>> /\ p \in Packets
      /\ c \in Seq(Bytes) /\ noise[r] \in Sessions /\ noise'[r] = AfterRead(noise[r], p)
      /\ noise'[e] = noise[e]
  <2>1. r \in Ends /\ Other(r) = e
    BY EndsEffect
  <2> QED BY <2>1, ReceivesTyped DEF TypeOK
<1>2. Established(r) /\ ~Ended(r)
  BY <1>1, EstablishedTalks DEF Receives, Established, Ended
<1>3. p.step = 0 /\ p.nonce = noise[r].in /\ noise'[r].in = noise[r].in + 1
  BY <1>1, <1>2, ReadEstablished DEF Established
<1>4. p \in InFlight(e)
  <2>1. Head(wire[r]) \in Range(wire[r]) /\ Head(wire[r]).type = "binary"
    BY <1>1, RangeOfTail DEF TypeOK, Receives, HasBinary
  <2>2. IsData(Head(wire[r])) /\ p = Head(wire[r]).packet
    BY <1>3, <2>1 DEF IsData, Read
  <2> QED BY <2>1, <2>2 DEF Data, InFlight
<1>5. Chained(e) /\ Accumulated(e) /\ Numbered(e)
  BY <1>2 DEF Direction
<1>6. /\ IsPiece(c) /\ FrameOf(c).no = Len(got[r]) + 1
      /\ FirstByte(c) = BytesRead(acc[r]) + 1
      /\ \E i \in 1..Len(sent[e]) : FrameOf(c) = sent[e][i]
  BY <1>3, <1>4, <1>5 DEF Chained, Sent
<1>7. PICK i \in 1..Len(sent[e]) : FrameOf(c) = sent[e][i]
  BY <1>6
<1>8. i = Len(got[r]) + 1 /\ FrameOf(c).size \in Nat \ {0}
  BY <1>5, <1>6, <1>7, Assumptions DEF Numbered
<1>9. Len(got[r]) \in Nat /\ Len(sent[e]) \in Nat /\ acc[r] \in Accumulators(Bytes)
  BY DirectionTyped
<1>10. Len(got[r]) < Len(sent[e])
  BY <1>8, <1>9
<1>11. FirstByte(c) \in Nat
  BY <1>1, <1>6, BytesTyped DEF IsPiece
<1>12. ReadyFor(acc[r], c)
  <2>1. CASE acc[r] = Idle
    BY <1>6, <2>1 DEF ReadyFor, BytesRead
  <2>2. CASE acc[r] # Idle
    BY <1>5, <1>6, <1>7, <1>8, <2>2 DEF Accumulated, ReadyFor, BytesRead
  <2> QED BY <2>1, <2>2
<1> QED BY <1>1, <1>3, <1>4, <1>6, <1>7, <1>8, <1>10, <1>11, <1>12

\* What feed and decode_frame make of it.
LEMMA NextPieceRead ==
    ASSUME TypeOK, Handshaken, NEW e \in Ends, NEW r, r = Other(e), Direction(e),
           Receives(r), CanRead(noise[r], Read(r)),
           NEW c, c = Read(r).plain, NEW x \in Feed(acc[r], c)
    PROVE  /\ x.out = More =>
                /\ ~EndsFrame(c) /\ HoldsPart(x.acc, FrameOf(c))
                /\ x.acc # Idle /\ BytesRead(x.acc) = LastByte(c)
           /\ x.out.status = "frame" =>
                /\ x.acc = Idle
                /\ Decode(x.out.bytes) # NoFrame =>
                        EndsFrame(c) /\ Decode(x.out.bytes) = FrameOf(c)
           /\ FrameOf(c).size <= MaxBytes /\ FrameOf(c).size < LenRange =>
                /\ x.out = More \/ x.out.status = "frame"
                /\ x.out.status = "frame" => Decode(x.out.bytes) # NoFrame
<1> DEFINE a == acc[r]  f == FrameOf(c)
<1>1. /\ c \in Seq(Bytes) /\ IsPiece(c) /\ ReadyFor(a, c) /\ FirstByte(c) \in Nat
      /\ f.size \in Nat \ {0}
  BY NextPiece
<1>2. a \in Accumulators(Bytes) /\ x \in Feed(a, c) /\ f = FrameOf(c)
  BY DirectionTyped
<1> HIDE DEF a, f
<1> QED BY <1>1, <1>2, ReadPiece DEF f

\* r takes the packet: a part of a frame, or the rest of it.
LEMMA ReceiveDirection ==
    ASSUME TypeOK, TypeOK', Handshaken, NEW e \in Ends, NEW r, r = Other(e),
           Direction(e), Receives(r), CanRead(noise[r], Read(r)),
           NEW c, c = Read(r).plain,
           sent'[e] = sent[e], unsent'[e] = unsent[e],
           ~Ended(r)' => wire'[r] = Tail(wire[r]),
           \/ /\ got'[r] = got[r] /\ acc'[r] # Idle
              /\ ~EndsFrame(c) /\ HoldsPart(acc'[r], FrameOf(c))
              /\ BytesRead(acc'[r]) = LastByte(c)
           \/ /\ got'[r] = Append(got[r], FrameOf(c)) /\ acc'[r] = Idle
              /\ EndsFrame(c)
    PROVE  Direction(e)'
<1> DEFINE p == Read(r)  k == Len(got[r])
<1>1. /\ c \in Seq(Bytes) /\ IsPiece(c) /\ k < Len(sent[e])
      /\ FrameOf(c) = sent[e][k + 1] /\ FrameOf(c).no = k + 1
      /\ p \in InFlight(e) /\ p.nonce = noise[r].in
      /\ noise'[r].in = noise[r].in + 1 /\ noise'[e] = noise[e]
  BY NextPiece
<1>2. /\ r \in Ends /\ sent[e] \in Seq(Frames) /\ got[r] \in Seq(Frames)
      /\ k \in Nat /\ Len(sent[e]) \in Nat /\ wire[r] \in Seq(Messages) /\ wire[r] # <<>>
      /\ noise[r].in \in Nat /\ noise[e].out \in Nat /\ InFlight(e) \subseteq Packets
  BY DirectionTyped DEF Receives, HasBinary
<1>3. FrameOf(c) \in Frames
  BY <1>1, <1>2
<1>5. /\ Len(got'[r]) = k \/ (Len(got'[r]) = k + 1 /\ acc'[r] = Idle /\ EndsFrame(c))
      /\ IsPrefix(got'[r], sent'[e]) /\ Numbered(e)'
  <2>1. Numbered(e)'
    BY DEF Direction, Numbered
  <2>2. CASE got'[r] = got[r]
    BY <2>1, <2>2 DEF Direction
  <2>3. CASE got'[r] = Append(got[r], FrameOf(c)) /\ acc'[r] = Idle /\ EndsFrame(c)
    <3>1. Len(got'[r]) = k + 1
      BY <1>2, <1>3, <2>3
    <3>2. IsPrefix(got'[r], sent'[e])
      BY <1>1, <1>2, <2>3, PrefixProperties DEF Direction
    <3> QED BY <2>1, <2>3, <3>1, <3>2
  <2> QED BY <2>2, <2>3
<1> SUFFICES ASSUME ~Ended(r)'
             PROVE  Chained(e)' /\ Accumulated(e)' /\ CaughtUp(e)'
  BY <1>5 DEF Direction
<1>6. ~Ended(r)
  BY EstablishedTalks, EndsEffect DEF Receives, Established, Ended
<1>7. Chained(e) /\ CaughtUp(e)
  BY <1>6 DEF Direction
<1>8. InFlight(e)' \subseteq InFlight(e)
  <2>1. Range(wire'[r]) \subseteq Range(wire[r])
    BY <1>2, RangeOfTail
  <2> QED BY <2>1, DataShrinks DEF InFlight
<1>9. p.nonce < noise[e].out /\ (p.nonce + 1 = noise[e].out =>
            FrameOf(c).no = Len(sent[e]) /\ EndsFrame(c))
  BY <1>1, <1>7 DEF Chained
<1> HIDE DEF p, k
<1>10. Accumulated(e)'
  <2> SUFFICES ASSUME acc'[r] # Idle
               PROVE  Len(got'[r]) < Len(sent'[e])
                      /\ HoldsPart(acc'[r], sent'[e][Len(got'[r]) + 1])
    BY DEF Accumulated
  <2> QED BY <1>1, <1>5 DEF k
<1>11. CaughtUp(e)'
  <2>1. noise'[r].in <= noise'[e].out
    BY <1>1, <1>2, <1>9
  <2>2. noise'[r].in = noise'[e].out => EndsFrame(c) /\ k + 1 = Len(sent[e])
    BY <1>1, <1>9
  <2>3. EndsFrame(c) => acc'[r] = Idle /\ Len(got'[r]) = k + 1
    BY <1>2, <1>3 DEF k
  <2> QED BY <2>1, <2>2, <2>3 DEF CaughtUp
<1>12. ASSUME NEW q \in InFlight(e)', q.nonce = noise'[r].in
       PROVE  /\ FrameOf(q.plain).no = Len(got'[r]) + 1
              /\ FirstByte(q.plain) = BytesRead(acc'[r]) + 1
  <2>1. Follows(q.plain, c)
    <3>1. q \in InFlight(e) /\ p \in InFlight(e) /\ q.nonce = p.nonce + 1 /\ c = p.plain
      BY <1>1, <1>8, <1>12 DEF p
    <3> QED BY <1>7, <3>1 DEF Chained
  <2>2. CASE EndsFrame(c)
    <3>1. FrameOf(q.plain).no = k + 2 /\ FirstByte(q.plain) = 1
      BY <1>1, <1>2, <2>1, <2>2 DEF Follows
    <3>2. acc'[r] = Idle /\ Len(got'[r]) = k + 1
      BY <1>2, <1>3, <2>2 DEF k
    <3> QED BY <1>2, <3>1, <3>2 DEF BytesRead
  <2>3. CASE ~EndsFrame(c)
    BY <1>1, <2>1, <2>3 DEF Follows, k
  <2> QED BY <2>2, <2>3
<1>13. Chained(e)'
  <2>1. ASSUME NEW q \in InFlight(e)'
        PROVE  /\ q.nonce < noise'[e].out /\ Sent(e, q.plain)'
               /\ q.nonce + 1 = noise'[e].out =>
                    FrameOf(q.plain).no = Len(sent'[e]) /\ EndsFrame(q.plain)
    <3>1. q \in InFlight(e)
      BY <1>8
    <3>2. Sent(e, q.plain)
      BY <1>7, <3>1 DEF Chained
    <3>3. Sent(e, q.plain)'
      BY <3>2 DEF Sent
    <3> QED BY <1>1, <1>7, <3>1, <3>3 DEF Chained
  <2>2. \A q, s \in InFlight(e)' : s.nonce = q.nonce + 1 => Follows(s.plain, q.plain)
    BY <1>7, <1>8 DEF Chained
  <2> QED BY <1>12, <2>1, <2>2 DEF Chained
<1> QED BY <1>10, <1>11, <1>13

\* What a step that sends no frame and reads none does to the channel.
LEMMA QuietIsStill ==
    ASSUME TypeOK, NEW e \in Ends,
           sent'[e] = sent[e], got'[Other(e)] = got[Other(e)],
           Ended(Other(e)) => Ended(Other(e))',
           \/ Ended(Other(e))'
           \/ /\ Range(unsent'[e]) \subseteq Range(unsent[e])
              /\ Data(wire'[Other(e)]) \subseteq InFlight(e)
              /\ noise'[e].out >= noise[e].out
              /\ noise'[Other(e)].in = noise[Other(e)].in
              /\ acc'[Other(e)] = acc[Other(e)]
    PROVE  Still(e)
  BY DEF Still, InFlight

LEMMA LeaveIsStill ==
    ASSUME TypeOK, NEW e \in Ends, NEW x \in Ends, Leave(x), sent' = sent, got'[Other(e)] = got[Other(e)],
           noise'[e].out = noise[e].out, noise'[Other(e)].in = noise[Other(e)].in
                                         \/ x = Other(e)
    PROVE  Still(e)
<1>1. /\ pc'[x] = "Closed" /\ pc'[Other(x)] = pc[Other(x)]
      /\ wire'[Other(x)] = wire[Other(x)]
      /\ unsent'[x] = <<>> /\ unsent'[Other(x)] = unsent[Other(x)]
      /\ acc'[Other(x)] = acc[Other(x)]
  BY LeaveEffect
<1>2. noise'[e].out >= noise[e].out
  BY DirectionTyped
<1>3. CASE x = Other(e)
  BY <1>1, <1>3, QuietIsStill DEF Ended
<1>4. CASE x = e
  <2>1. Range(unsent'[e]) = {} /\ wire'[Other(e)] = wire[Other(e)]
    BY <1>1, <1>4 DEF Range
  <2>2. Other(e) # e
    BY EndsEffect
  <2> QED BY <1>1, <1>2, <1>4, <2>1, <2>2, QuietIsStill DEF Ended, InFlight
<1> QED BY <1>3, <1>4, EndsEffect

LEMMA HandshakesAreStill ==
    ASSUME TypeOK, Handshaken, Announced, NEW e \in Ends,
           SendHello \/ ServerVersion \/ ClientVersion
    PROVE  Still(e)
<1> USE TwoEnds
<1>1. /\ UNCHANGED <<sent, got, unsent, acc>>
      /\ \A x \in Ends : noise'[x].out >= noise[x].out /\ noise'[x].in = noise[x].in
  <2>1. UNCHANGED <<sent, got, unsent, acc>>
    BY DEF SendHello, ServerVersion, ClientVersion
  <2>2. \A x \in Ends : noise[x].out >= noise[x].out
    BY DirectionTyped
  <2>3. CASE UNCHANGED noise
    BY <2>1, <2>2, <2>3
  <2>4. CASE ClientVersion /\ noise' # noise
    <3>1. /\ noise' = [noise EXCEPT !["client"] = AfterWrite(@)]
          /\ noise["client"] = Session("initiator")
      BY <2>4 DEF ClientVersion, Handshaken
    <3>2. /\ AfterWrite(noise["client"]).out = noise["client"].out
          /\ AfterWrite(noise["client"]).in = noise["client"].in
      BY <3>1 DEF AfterWrite, CanWrite, IsFinished, MyTurn, Session, Advance
    <3> QED BY <2>1, <2>2, <3>1, <3>2 DEF TypeOK
  <2> QED BY <2>3, <2>4 DEF SendHello, ServerVersion
<1>2. \A x \in Ends : Ended(x) => Ended(x)'
  BY DEF SendHello, ServerVersion, ClientVersion, Ended, Goto, TypeOK
<1>3. ASSUME NEW x \in Ends, NEW m \in Messages, ~IsData(m), wire'[x] = Arrives(Other(x), <<m>>)
      PROVE  Data(wire'[x]) \subseteq Data(wire[x])
  <2>1. Range(wire'[x]) \subseteq Range(wire[x]) \cup {m}
    BY <1>3, RangeOfArrives
  <2> QED BY <1>3, <2>1, DataGrows
<1>4. ASSUME NEW x \in Ends, wire[x] # <<>>, wire'[x] = Tail(wire[x])
      PROVE  Data(wire'[x]) \subseteq Data(wire[x])
  <2>1. Range(wire'[x]) \subseteq Range(wire[x])
    BY <1>4, RangeOfTail DEF TypeOK
  <2> QED BY <2>1, DataShrinks
<1>5. \A t \in Words : Text(t) \in Messages /\ ~IsData(Text(t))
  BY MessagesTyped DEF Text, IsData
<1>6. CASE SendHello
  <2>1. wire'["client"] = wire["client"] /\ hello \in Words
        /\ wire'["server"] = Arrives("client", <<Text(hello)>>)
    BY <1>6 DEF SendHello, TypeOK, Words
  <2>2. Data(wire'["server"]) \subseteq Data(wire["server"])
    BY <1>3, <1>5, <2>1
  <2> QED BY <1>1, <1>2, <2>1, <2>2, QuietIsStill DEF InFlight
<1>7. CASE ServerVersion
  <2>1. PICK t \in Words : Consume("server", <<Text(t)>>)
    BY <1>7 DEF ServerVersion, Words
  <2>2. <<Text(t)>> \in Seq(Messages) /\ wire["server"] # <<>>
    BY <1>5, <1>7 DEF ServerVersion
  <2>3. /\ wire'["server"] = Tail(wire["server"])
        /\ wire'["client"] = Arrives("server", <<Text(t)>>)
    BY <2>1, <2>2, ConsumeEffect
  <2>4. /\ Data(wire'["server"]) \subseteq Data(wire["server"])
        /\ Data(wire'["client"]) \subseteq Data(wire["client"])
    BY <1>3, <1>4, <1>5, <2>2, <2>3
  <2> QED BY <1>1, <1>2, <2>4, QuietIsStill DEF InFlight
<1>8. CASE ClientVersion
  <2> DEFINE p == Packet(noise["client"], <<>>)
  <2>1. /\ wire["client"] # <<>>
        /\ Consume("client", <<Binary(p)>>) \/ Consume("client", <<>>)
    BY <1>8 DEF ClientVersion
  <2>2. p \in Packets /\ p.step = 1
    <3>1. noise["client"].mode = "handshake" /\ noise["client"].step = 0
      BY <1>8 DEF ClientVersion, Handshaken, Session
    <3>2. noise["client"] \in Sessions /\ <<>> \in Seq(Bytes)
      BY DEF TypeOK
    <3>3. p.step = 1
      BY <3>1 DEF Packet
    <3>4. p \in Packets
      <4> DEFINE s == noise["client"]
      <4>1. s \in Sessions /\ s.step < 3 /\ p = Packet(s, <<>>)
        BY <3>1, <3>2
      <4> HIDE DEF s, p
      <4> QED BY <3>2, <4>1, PacketTyped
    <3> QED BY <3>3, <3>4
  <2> HIDE DEF p
  <2>3. Binary(p) \in Messages /\ ~IsData(Binary(p)) /\ <<Binary(p)>> \in Seq(Messages)
        /\ <<>> \in Seq(Messages)
    BY <2>2, MessagesTyped DEF IsData, Binary
  <2>4. /\ wire'["client"] = Tail(wire["client"])
        /\ wire'["server"] = Arrives("client", <<Binary(p)>>)
           \/ wire'["server"] = Arrives("client", <<>>)
    BY <2>1, <2>3, ConsumeEffect
  <2>5. Arrives("client", <<>>) = wire["server"]
    BY <2>3, RangeOfArrives
  <2>6. /\ Data(wire'["client"]) \subseteq Data(wire["client"])
        /\ Data(wire'["server"]) \subseteq Data(wire["server"])
    BY <1>3, <1>4, <2>1, <2>3, <2>4, <2>5
  <2> QED BY <1>1, <1>2, <2>6, QuietIsStill DEF InFlight
<1> QED BY <1>6, <1>7, <1>8

LEMMA NoiseIsStill ==
    ASSUME TypeOK, NEW e \in Ends, NEW x \in Ends, NEW l, NoiseStep(x, l), ~Ended(x),
           noise[x].mode = "handshake", noise[x].step \in {0, 1, 2}, ~MyTurn(noise[x])
    PROVE  Still(e)
<1>1. /\ wire[x] # <<>> /\ noise'[Other(x)] = noise[Other(x)]
      /\ sent' = sent /\ got' = got
      /\ noise'[x].out = noise[x].out /\ noise'[x].in = noise[x].in
      /\ \/ Leave(x)
         \/ /\ Goto(x, l) /\ UNCHANGED <<unsent, acc>>
            /\ wire'[x] = Tail(wire[x])
            /\ \/ wire'[Other(x)] = wire[Other(x)]
               \/ \E p \in Packets :
                    /\ p.step = noise[x].step + 2 /\ Binary(p) \in Messages
                    /\ wire'[Other(x)] = Arrives(x, <<Binary(p)>>)
  BY NoiseStepEffect
<1>2. \A y \in Ends : noise'[y].out >= noise[y].out /\ noise'[y].in = noise[y].in
  <2>1. \A y \in Ends : noise[y].out >= noise[y].out
    BY DirectionTyped
  <2> QED BY <1>1, <2>1, EndsEffect
<1>3. CASE Leave(x)
  <2>1. noise'[e].out = noise[e].out /\ noise'[Other(e)].in = noise[Other(e)].in
    BY <1>1, EndsEffect
  <2> QED BY <1>1, <1>3, <2>1, LeaveIsStill
<1>4. CASE /\ Goto(x, l) /\ UNCHANGED <<unsent, acc>>
           /\ wire'[x] = Tail(wire[x])
           /\ \/ wire'[Other(x)] = wire[Other(x)]
              \/ \E p \in Packets :
                    /\ p.step = noise[x].step + 2 /\ Binary(p) \in Messages
                    /\ wire'[Other(x)] = Arrives(x, <<Binary(p)>>)
  <2>1. Data(wire'[x]) \subseteq Data(wire[x])
    <3>1. Range(wire'[x]) \subseteq Range(wire[x])
      BY <1>1, <1>4, RangeOfTail DEF TypeOK
    <3> QED BY <3>1, DataShrinks
  <2>2. Data(wire'[Other(x)]) \subseteq Data(wire[Other(x)])
    <3>1. ASSUME NEW p \in Packets, p.step = noise[x].step + 2, Binary(p) \in Messages,
                 wire'[Other(x)] = Arrives(x, <<Binary(p)>>)
          PROVE  Data(wire'[Other(x)]) \subseteq Data(wire[Other(x)])
      <4>1. ~IsData(Binary(p))
        BY <3>1 DEF IsData, Binary
      <4> DEFINE m == Binary(p)
      <4>2. m \in Messages /\ ~IsData(m) /\ wire'[Other(x)] = Arrives(x, <<m>>)
        BY <3>1, <4>1
      <4> HIDE DEF m
      <4>3. Range(wire'[Other(x)]) \subseteq Range(wire[Other(x)]) \cup {m}
        BY <4>2, RangeOfArrives
      <4> QED BY <4>2, <4>3, DataGrows
    <3> QED BY <1>4, <3>1
  <2>3. Data(wire'[Other(e)]) \subseteq InFlight(e)
    BY <2>1, <2>2, EndsEffect DEF InFlight
  <2>4. Ended(Other(e)) => Ended(Other(e))'
    <3>1. pc'[Other(x)] = pc[Other(x)]
      BY <1>4, GotoEffect
    <3>2. CASE e = x
      BY <3>1, <3>2 DEF Ended
    <3>3. CASE x = Other(e)
      BY <3>3
    <3> QED BY <3>2, <3>3, EndsEffect
  <2>5. sent'[e] = sent[e] /\ got'[Other(e)] = got[Other(e)]
        /\ unsent'[e] = unsent[e] /\ acc'[Other(e)] = acc[Other(e)]
    BY <1>1, <1>4
  <2>6. noise'[e].out >= noise[e].out /\ noise'[Other(e)].in = noise[Other(e)].in
    BY <1>2, EndsEffect
  <2> QED BY <2>3, <2>4, <2>5, <2>6, QuietIsStill
<1> QED BY <1>1, <1>3, <1>4

\* Whose turn it is to read.
LEMMA NoiseTurns ==
    ASSUME TypeOK, Handshaken
    PROVE  /\ ServerNoiseE => /\ NoiseStep("server", "NoiseS") /\ ~Ended("server")
                              /\ noise["server"].mode = "handshake"
                              /\ noise["server"].step = 0 /\ ~MyTurn(noise["server"])
           /\ ClientNoise  => /\ NoiseStep("client", "Auth") /\ ~Ended("client")
                              /\ noise["client"].mode = "handshake"
                              /\ noise["client"].step = 1 /\ ~MyTurn(noise["client"])
           /\ ServerNoiseS => /\ NoiseStep("server", "Session") /\ ~Ended("server")
                              /\ noise["server"].mode = "handshake"
                              /\ noise["server"].step = 2 /\ ~MyTurn(noise["server"])
<1>1. ASSUME ServerNoiseE
      PROVE  noise["server"].mode = "handshake" /\ noise["server"].step = 0
             /\ ~MyTurn(noise["server"])
  BY <1>1 DEF ServerNoiseE, Handshaken, Session, MyTurn
<1>2. ASSUME ClientNoise
      PROVE  noise["client"].mode = "handshake" /\ noise["client"].step = 1
             /\ ~MyTurn(noise["client"])
  <2>1. noise["client"] = Advance(Session("initiator"))
    BY <1>2 DEF ClientNoise, Handshaken
  <2> QED BY <2>1 DEF Session, MyTurn, Advance
<1>3. ASSUME ServerNoiseS
      PROVE  noise["server"].mode = "handshake" /\ noise["server"].step = 2
             /\ ~MyTurn(noise["server"])
  <2>1. noise["server"] = Advance(Advance(Session("responder")))
    BY <1>3 DEF ServerNoiseS, Handshaken
  <2> QED BY <2>1 DEF Session, MyTurn, Advance
<1>4. /\ ServerNoiseE => NoiseStep("server", "NoiseS") /\ ~Ended("server")
      /\ ClientNoise => NoiseStep("client", "Auth") /\ ~Ended("client")
      /\ ServerNoiseS => NoiseStep("server", "Session") /\ ~Ended("server")
  BY DEF ServerNoiseE, ClientNoise, ServerNoiseS, Ended
<1> QED BY <1>1, <1>2, <1>3, <1>4

LEMMA ExchangesAreStill ==
    ASSUME TypeOK, Handshaken, NEW e \in Ends, ServerNoiseE \/ ClientNoise \/ ServerNoiseS
    PROVE  Still(e)
  BY TwoEnds, NoiseTurns, NoiseIsStill

LEMMA LeavesAreStill ==
    ASSUME TypeOK, NEW e \in Ends, NEW x \in Ends,
           SocketFails(x) \/ EncryptFails(x) \/ HeartbeatDead(x)
                          \/ (x = "client" /\ AuthTimeout)
    PROVE  Still(e)
<1>1. Leave(x) /\ UNCHANGED <<noise, sent, got>>
  BY DEF SocketFails, EncryptFails, HeartbeatDead, AuthTimeout
<1> QED BY <1>1, LeaveIsStill

LEMMA ChunkIsStill ==
    ASSUME TypeOK, NEW e \in Ends, NEW x \in Ends, SendChunk(x)
    PROVE  Still(e)
<1> DEFINE p == Head(unsent[x])  m == Binary(p)
<1>1. /\ unsent[x] \in Seq(Packets) /\ unsent[x] # <<>>
      /\ UNCHANGED <<pc, noise, acc, sent, got>>
      /\ unsent'[x] = Tail(unsent[x]) /\ unsent'[Other(x)] = unsent[Other(x)]
      /\ wire'[Other(x)] = Arrives(x, <<m>>) /\ wire'[x] = wire[x]
  BY EndsEffect DEF SendChunk, TypeOK
<1>2. p \in Packets /\ m \in Messages /\ m.packet = p
  BY <1>1, MessagesTyped DEF Binary
<1>3. Range(unsent'[x]) \subseteq Range(unsent[x]) /\ p \in Range(unsent[x])
  BY <1>1, RangeOfTail
<1> HIDE DEF p, m
<1>4. Data(wire'[Other(x)]) \subseteq Data(wire[Other(x)]) \cup {p}
  <2>1. Range(wire'[Other(x)]) \subseteq Range(wire[Other(x)]) \cup {m}
    BY <1>1, <1>2, RangeOfArrives
  <2> QED BY <1>2, <2>1, DataGrows
<1>5. noise'[e].out >= noise[e].out /\ noise'[Other(e)].in = noise[Other(e)].in
      /\ acc'[Other(e)] = acc[Other(e)] /\ sent'[e] = sent[e]
      /\ got'[Other(e)] = got[Other(e)] /\ (Ended(Other(e)) => Ended(Other(e))')
  BY <1>1, DirectionTyped DEF Ended
<1>6. CASE x = e
  <2>1. Data(wire'[Other(e)]) \subseteq InFlight(e)
    BY <1>3, <1>4, <1>6 DEF InFlight
  <2> QED BY <1>3, <1>5, <1>6, <2>1, QuietIsStill
<1>7. CASE x = Other(e)
  <2>1. Other(x) = e
    BY <1>7, EndsEffect
  <2>2. Data(wire'[Other(e)]) \subseteq InFlight(e) /\ unsent'[e] = unsent[e]
    BY <1>1, <1>7, <2>1 DEF InFlight
  <2> QED BY <1>5, <2>2, QuietIsStill
<1> QED BY <1>6, <1>7, EndsEffect

LEMMA PingIsStill ==
    ASSUME TypeOK, NEW e \in Ends, NEW x \in Ends, PingLost(x) \/ PingBroken(x)
    PROVE  Still(e)
<1>1. /\ noise[x] \in Sessions /\ IsFinished(noise[x])
      /\ UNCHANGED <<pc, wire, unsent, acc, sent, got>>
      /\ noise'[Other(x)] = noise[Other(x)]
      /\ noise'[x] = [noise[x] EXCEPT !.out = noise[x].out + 1]
         \/ noise'[x] = Taken(noise[x])
  BY EndsEffect DEF PingLost, PingBroken, TypeOK, AfterWrite, CanWrite
<1>2. noise'[x].out >= noise[x].out /\ noise'[x].in = noise[x].in
  BY <1>1, TakenEffect DEF Sessions
<1>3. noise'[e].out >= noise[e].out /\ noise'[Other(e)].in = noise[Other(e)].in
  BY <1>1, <1>2, EndsEffect, DirectionTyped
<1>4. Data(wire'[Other(e)]) \subseteq InFlight(e) /\ (Ended(Other(e)) => Ended(Other(e))')
  BY <1>1 DEF InFlight, Ended
<1> QED BY <1>1, <1>3, <1>4, QuietIsStill

LEMMA NothingSentIsStill ==
    ASSUME TypeOK, NEW e \in Ends, Cut \/ SkipAuth
    PROVE  Still(e)
<1>1. UNCHANGED <<wire, noise, unsent, acc, sent, got>>
  BY DEF Cut, SkipAuth
<1>2. Ended(Other(e)) => Ended(Other(e))'
  BY EndsEffect, TwoEnds DEF Cut, SkipAuth, Ended, Goto, TypeOK
<1>3. noise'[e].out >= noise[e].out /\ Data(wire'[Other(e)]) \subseteq InFlight(e)
  BY <1>1, DirectionTyped DEF InFlight
<1> QED BY <1>1, <1>2, <1>3, QuietIsStill

\* A frame that x sends: one way it is Transmit, the other way nothing.
LEMMA SendsKeepDirections ==
    ASSUME TypeOK, TypeOK', Handshaken, NEW e \in Ends, Direction(e), NEW x \in Ends,
           NEW n \in Sizes,
           SendFrame(x, n) \/ (x = "client" /\ Authenticate(n))
                           \/ (x = "server" /\ AuthResponse(n))
    PROVE  Direction(e)'
<1>1. PICK id \in {0, 1} : Transmit(x, id, n)
  BY DEF SendFrame, Authenticate, AuthResponse
<1>2. UNCHANGED <<wire, acc, got>> /\ pc'[Other(x)] = pc[Other(x)] /\ ~Ended(x)
  BY TwoEnds, GotoEffect DEF SendFrame, Authenticate, AuthResponse, Ended, Running
<1>3. CASE x = e
  <2>1. Ended(Other(e)) => Ended(Other(e))'
    BY <1>2, <1>3 DEF Ended
  <2> QED BY <1>1, <1>2, <1>3, <2>1, TransmitDirection
<1>4. CASE e = Other(x)
  <2> DEFINE f == NextFrame(x, id, n)  cs == ChunksOfBytes(Encode(f))
  <2>1. /\ unsent'[e] = unsent[e] /\ sent'[e] = sent[e] /\ noise'[e] = noise[e]
        /\ noise'[x] = [noise[x] EXCEPT !.out = noise[x].out + Len(cs)]
    <3> HIDE DEF f, cs
    <3>1. f = NextFrame(x, id, n) /\ cs = ChunksOfBytes(Encode(f))
      BY DEF f, cs
    <3> QED BY <1>1, <1>4, <3>1, TransmitEffect
  <2> HIDE DEF cs
  <2>2. Other(e) = x /\ noise'[x].in = noise[x].in
    BY <1>4, <2>1, EndsEffect DEF TypeOK, Sessions
  <2>3. noise'[e].out >= noise[e].out /\ Data(wire'[x]) \subseteq InFlight(e)
    BY <1>2, <2>1, <2>2, DirectionTyped DEF InFlight
  <2>4. Still(e)
    BY <1>2, <2>1, <2>2, <2>3, QuietIsStill
  <2> QED BY <2>4, StillStep
<1> QED BY <1>3, <1>4, EndsEffect

LEMMA ConsumeNothing ==
    ASSUME TypeOK, NEW e \in Ends, wire[e] # <<>>, Consume(e, <<>>)
    PROVE  wire'[e] = Tail(wire[e]) /\ wire'[Other(e)] = wire[Other(e)]
<1>1. <<>> \in Seq(Messages) /\ Arrives(e, <<>>) = wire[Other(e)]
  <2>1. wire[Other(e)] \o <<>> = wire[Other(e)]
    BY EndsEffect DEF TypeOK
  <2> QED BY <2>1 DEF Arrives
<1> QED BY <1>1, ConsumeEffect

\* What an end receives does not touch what it sends.
LEMMA ReceiveIsStill ==
    ASSUME TypeOK, Handshaken, NEW e \in Ends,
           ReceiveFails(e) \/ ReceiveChunk(e) \/ ReceiveFrame(e)
    PROVE  Still(e)
<1>1. Receives(e) /\ sent' = sent
  BY DEF ReceiveFails, ReceiveChunk, ReceiveFrame
<1>2. /\ wire[e] # <<>> /\ noise'[Other(e)] = noise[Other(e)]
      /\ noise'[e].out = noise[e].out
  <2>1. /\ wire[e] # <<>> /\ Read(e) \in Packets /\ noise'[Other(e)] = noise[Other(e)]
        /\ noise'[e] = AfterRead(noise[e], Read(e)) /\ noise[e] \in Sessions
    BY <1>1, ReceivesTyped DEF TypeOK
  <2>2. noise[e].mode # "handshake"
    BY <1>1, EstablishedTalks DEF Receives, Established
  <2> QED BY <2>1, <2>2, ReadEstablished
<1>3. got'[Other(e)] = got[Other(e)]
  BY EndsEffect DEF ReceiveFails, ReceiveChunk, ReceiveFrame, TypeOK
<1>4. CASE Leave(e)
  BY <1>1, <1>2, <1>3, <1>4, LeaveIsStill
<1>5. CASE /\ Consume(e, <<>>) /\ UNCHANGED unsent /\ acc'[Other(e)] = acc[Other(e)]
           /\ pc'[Other(e)] = pc[Other(e)]
  <2>1. wire'[Other(e)] = wire[Other(e)]
    BY <1>2, <1>5, ConsumeNothing
  <2>2. noise'[e].out >= noise[e].out /\ Data(wire'[Other(e)]) \subseteq InFlight(e)
    BY <1>2, <2>1, DirectionTyped DEF InFlight
  <2> QED BY <1>1, <1>2, <1>3, <1>5, <2>2, QuietIsStill DEF Ended
<1>6. ReceiveChunk(e) => /\ Consume(e, <<>>) /\ UNCHANGED unsent
                         /\ acc'[Other(e)] = acc[Other(e)] /\ pc'[Other(e)] = pc[Other(e)]
  BY EndsEffect DEF ReceiveChunk, TypeOK
<1>7. ReceiveFrame(e) => \/ Leave(e)
                         \/ /\ Consume(e, <<>>) /\ UNCHANGED unsent
                            /\ acc'[Other(e)] = acc[Other(e)] /\ pc'[Other(e)] = pc[Other(e)]
  BY EndsEffect, GotoEffect DEF ReceiveFrame, TypeOK
<1> QED BY <1>4, <1>5, <1>6, <1>7 DEF ReceiveFails

\* What an end makes of the packet of a whole frame.
TakesFrame(r, f) ==
    /\ Receives(r) /\ CanRead(noise[r], Read(r))
    /\ EndsFrame(Read(r).plain) /\ f = FrameOf(Read(r).plain)
    /\ got' = [got EXCEPT ![r] = Append(@, f)]
    /\ UNCHANGED <<conn, faults, up, sent>>
    /\ \/ /\ Running(r)
          /\ acc' = [acc EXCEPT ![r] = Idle]
          /\ Consume(r, <<>>)
          /\ UNCHANGED <<pc, unsent, fault>>
       \/ /\ ~Running(r) /\ IsAuthReply(f)
          /\ Goto(r, "Online")
          /\ acc' = [acc EXCEPT ![r] = Idle]
          /\ Consume(r, <<>>)
          /\ UNCHANGED <<unsent, fault>>
       \/ ~Running(r) /\ Leave(r) /\ fault' = TRUE

LEMMA FrameTaken ==
    ASSUME TypeOK, Handshaken, NEW e \in Ends, NEW r, r = Other(e), Direction(e),
           ReceiveFrame(r)
    PROVE  \E f : TakesFrame(r, f)
<1>1. PICK x \in Feed(acc[r], Read(r).plain) :
        LET f == Decode(x.out.bytes) IN
        /\ x.out.status = "frame" /\ f # NoFrame
        /\ got' = [got EXCEPT ![r] = Append(@, f)]
        /\ \/ /\ Running(r)
              /\ acc' = [acc EXCEPT ![r] = x.acc]
              /\ Consume(r, <<>>)
              /\ UNCHANGED <<pc, unsent, fault>>
           \/ /\ ~Running(r) /\ IsAuthReply(f)
              /\ Goto(r, "Online")
              /\ acc' = [acc EXCEPT ![r] = Idle]
              /\ Consume(r, <<>>)
              /\ UNCHANGED <<unsent, fault>>
           \/ ~Running(r) /\ Leave(r) /\ fault' = TRUE
  BY DEF ReceiveFrame
<1>2. Receives(r) /\ CanRead(noise[r], Read(r)) /\ UNCHANGED <<conn, faults, up, sent>>
  BY DEF ReceiveFrame
<1> DEFINE c == Read(r).plain
<1>3. x.acc = Idle /\ EndsFrame(c) /\ Decode(x.out.bytes) = FrameOf(c)
  <2>1. c = Read(r).plain /\ x \in Feed(acc[r], c)
    OBVIOUS
  <2> HIDE DEF c
  <2> QED BY <1>1, <1>2, <2>1, NextPieceRead
<1>4. TakesFrame(r, FrameOf(c))
  BY <1>1, <1>2, <1>3 DEF TakesFrame
<1> QED BY <1>4

LEMMA ReceiveKeepsDirection ==
    ASSUME TypeOK, TypeOK', Handshaken, NEW e \in Ends, NEW r, r = Other(e), Direction(e),
           ReceiveFails(r) \/ ReceiveChunk(r) \/ ReceiveFrame(r)
    PROVE  Direction(e)'
<1>1. Receives(r) /\ sent' = sent /\ r \in Ends /\ Other(r) = e /\ e # r
  BY EndsEffect DEF ReceiveFails, ReceiveChunk, ReceiveFrame
<1>2. wire[r] # <<>> /\ noise'[e] = noise[e]
  BY <1>1, ReceivesTyped
<1> DEFINE c == Read(r).plain
<1>3. CASE ReceiveFails(r)
  <2>1. Leave(r) /\ got' = got /\ noise'[e].out = noise[e].out
    BY <1>2, <1>3 DEF ReceiveFails
  <2>2. Still(e)
    BY <1>1, <2>1, LeaveIsStill
  <2> QED BY <2>2, StillStep
<1>4. CASE ReceiveChunk(r)
  <2>1. PICK x \in Feed(acc[r], c) : x.out = More /\ acc' = [acc EXCEPT ![r] = x.acc]
    BY <1>4 DEF ReceiveChunk
  <2>2. /\ CanRead(noise[r], Read(r)) /\ Consume(r, <<>>) /\ UNCHANGED <<pc, unsent, got>>
        /\ acc'[r] = x.acc
    BY <1>1, <1>4, <2>1 DEF ReceiveChunk, TypeOK
  <2>3. wire'[r] = Tail(wire[r])
    BY <1>1, <1>2, <2>2, ConsumeNothing
  <2>4. c = Read(r).plain
    OBVIOUS
  <2> HIDE DEF c
  <2>5. /\ ~EndsFrame(c) /\ HoldsPart(acc'[r], FrameOf(c))
        /\ acc'[r] # Idle /\ BytesRead(acc'[r]) = LastByte(c)
    BY <1>1, <2>1, <2>2, <2>4, NextPieceRead
  <2> QED BY <1>1, <2>2, <2>3, <2>4, <2>5, ReceiveDirection
<1>5. CASE ReceiveFrame(r)
  <2>1. PICK f : TakesFrame(r, f)
    BY <1>5, FrameTaken
  <2>2. /\ CanRead(noise[r], Read(r)) /\ EndsFrame(c)
        /\ got'[r] = Append(got[r], FrameOf(c))
    BY <1>1, <2>1 DEF TakesFrame, TypeOK
  <2>3. /\ acc'[r] = Idle /\ unsent'[e] = unsent[e]
        /\ Consume(r, <<>>) \/ Ended(r)'
    <3>1. CASE Leave(r)
      BY <1>1, <3>1, LeaveEffect DEF Ended
    <3>2. CASE acc' = [acc EXCEPT ![r] = Idle] /\ Consume(r, <<>>) /\ UNCHANGED unsent
      BY <1>1, <3>2 DEF TypeOK
    <3> QED BY <2>1, <3>1, <3>2 DEF TakesFrame
  <2>4. ~Ended(r)' => wire'[r] = Tail(wire[r])
    BY <1>1, <1>2, <2>3, ConsumeNothing
  <2>5. c = Read(r).plain
    OBVIOUS
  <2> HIDE DEF c
  <2> QED BY <1>1, <2>2, <2>3, <2>4, <2>5, ReceiveDirection
<1> QED BY <1>3, <1>4, <1>5

LEMMA DirectionStep ==
    ASSUME TypeOK, TypeOK', Handshaken, Announced, NEW e \in Ends, Direction(e), Next
    PROVE  Direction(e)'
<1> USE TwoEnds
<1>1. CASE Cut \/ SkipAuth
  BY <1>1, NothingSentIsStill, StillStep
<1>2. CASE SendHello \/ ServerVersion \/ ClientVersion
  BY <1>2, HandshakesAreStill, StillStep
<1>3. CASE ServerNoiseE \/ ClientNoise \/ ServerNoiseS
  BY <1>3, ExchangesAreStill, StillStep
<1>4. ASSUME NEW n \in Sizes, Authenticate(n) \/ AuthResponse(n)
      PROVE  Direction(e)'
  BY <1>4, SendsKeepDirections
<1>5. CASE AuthTimeout
  BY <1>5, LeavesAreStill, StillStep
<1>6. CASE Handshake
  BY <1>1, <1>2, <1>3, <1>4, <1>5, <1>6 DEF Handshake
<1>7. ASSUME NEW x \in Ends, SocketFails(x) \/ Loop(x)
      PROVE  Direction(e)'
  <2>1. CASE SocketFails(x) \/ EncryptFails(x) \/ HeartbeatDead(x)
    BY <2>1, LeavesAreStill, StillStep
  <2>2. ASSUME NEW n \in Sizes, SendFrame(x, n)
        PROVE  Direction(e)'
    BY <2>2, SendsKeepDirections
  <2>3. CASE SendChunk(x)
    BY <2>3, ChunkIsStill, StillStep
  <2>4. CASE PingLost(x) \/ PingBroken(x)
    BY <2>4, PingIsStill, StillStep
  <2>5. CASE ReceiveFails(x) \/ ReceiveChunk(x) \/ ReceiveFrame(x)
    BY <2>5, ReceiveIsStill, StillStep, ReceiveKeepsDirection, EndsEffect
  <2> QED BY <1>7, <2>1, <2>2, <2>3, <2>4, <2>5 DEF Loop
<1> QED BY <1>1, <1>6, <1>7 DEF Next

-----------------------------------------------------------------------------
(***************************************************************************)
(* The login.                                                              *)
(***************************************************************************)

LEMMA Id1OfPrefix ==
    ASSUME NEW s \in Seq(Frames), NEW t \in Seq(Frames), IsPrefix(s, t), HasId1(s)
    PROVE  HasId1(t)
<1>1. Len(s) <= Len(t) /\ \A i \in 1..Len(s) : s[i] = t[i]
  BY PrefixProperties
<1>2. PICK i \in 1..Len(s) : s[i].id = 1
  BY DEF HasId1
<1>3. i \in 1..Len(t) /\ t[i].id = 1
  BY <1>1, <1>2
<1> QED BY <1>3 DEF HasId1

LEMMA Id1OfAppended ==
    ASSUME NEW s \in Seq(Frames), NEW f \in Frames
    PROVE  HasId1(Append(s, f)) <=> HasId1(s) \/ f.id = 1
<1>1. /\ Len(Append(s, f)) = Len(s) + 1 /\ Append(s, f)[Len(s) + 1] = f
      /\ \A i \in 1..Len(s) : Append(s, f)[i] = s[i]
  OBVIOUS
<1>2. Len(s) \in Nat
  OBVIOUS
<1> QED BY <1>1, <1>2 DEF HasId1

\* Nothing in the login changes: more may be sent with another id, more received.
LEMMA LoginKept ==
    ASSUME TypeOK, TypeOK', LoggedIn,
           withAuth' = withAuth, HasId1(sent'["server"]) <=> HasId1(sent["server"]),
           HasId1(got["server"]) => HasId1(got'["server"]),
           pc'["client"] = "Online" => pc["client"] = "Online" \/ ~withAuth
    PROVE  LoggedIn'
  BY DEF LoggedIn

\* e sends a frame.
LEMMA TransmitSent ==
    ASSUME TypeOK, NEW e \in Ends, NEW id \in {0, 1}, NEW size \in Sizes,
           Transmit(e, id, size)
    PROVE  \E f \in Frames : /\ f.id = id /\ f.size = size /\ f.no = Len(sent[e]) + 1
                             /\ sent'[e] = Append(sent[e], f)
                             /\ sent'[Other(e)] = sent[Other(e)]
<1> DEFINE f == NextFrame(e, id, size)  cs == ChunksOfBytes(Encode(f))
<1>1. /\ f \in Frames /\ f.id = id /\ f.size = size /\ f.no = Len(sent[e]) + 1
      /\ sent'[e] = Append(sent[e], f) /\ sent'[Other(e)] = sent[Other(e)]
      /\ cs \in Seq(Seq(Bytes))
  <2> HIDE DEF f, cs
  <2>1. f = NextFrame(e, id, size) /\ cs = ChunksOfBytes(Encode(f))
    BY DEF f, cs
  <2>2. /\ f \in Frames /\ f.no = Len(sent[e]) + 1 /\ f.size = size /\ f.id = id
        /\ cs \in Seq(Seq(Bytes))
        /\ sent'[e] = Append(sent[e], f) /\ sent'[Other(e)] = sent[Other(e)]
        /\ noise'[e] = [noise[e] EXCEPT !.out = noise[e].out + Len(cs)]
    BY <2>1, TransmitEffect
  <2> QED BY <2>2
<1> HIDE DEF f
<1> QED BY <1>1

LEMMA LoginStep ==
    ASSUME TypeOK, TypeOK', Handshaken, LoggedIn, \A e \in Ends : Direction(e),
           \A e \in Ends : Direction(e)', Next
    PROVE  LoggedIn'
<1> USE TwoEnds
<1>1. /\ sent["server"] \in Seq(Frames) /\ got["server"] \in Seq(Frames)
      /\ pc["client"] \in ClientPoints
  BY DEF TypeOK
<1>2. CASE \/ Cut \/ SendHello \/ ServerVersion \/ ClientVersion
           \/ ServerNoiseE \/ ClientNoise \/ ServerNoiseS \/ SkipAuth \/ AuthTimeout
           \/ \E e \in Ends : \/ SocketFails(e) \/ EncryptFails(e) \/ HeartbeatDead(e)
                              \/ SendChunk(e) \/ PingLost(e) \/ PingBroken(e)
  <2>1. UNCHANGED <<withAuth, sent, got>>
    BY <1>2 DEF Cut, SendHello, ServerVersion, ClientVersion, ServerNoiseE, ClientNoise,
       ServerNoiseS, NoiseStep, SkipAuth, AuthTimeout, SocketFails, EncryptFails,
       HeartbeatDead, SendChunk, PingLost, PingBroken, conn
  <2>2. pc'["client"] = "Online" => pc["client"] = "Online" \/ ~withAuth
    <3>1. CASE ServerNoiseE \/ ClientNoise \/ ServerNoiseS
      BY <3>1, LeaveEffect, GotoEffect DEF ServerNoiseE, ClientNoise, ServerNoiseS, NoiseStep
    <3>2. CASE \/ AuthTimeout
               \/ \E e \in Ends : SocketFails(e) \/ EncryptFails(e) \/ HeartbeatDead(e)
      BY <3>2, LeaveEffect, EndsEffect DEF AuthTimeout, SocketFails, EncryptFails, HeartbeatDead
    <3>3. CASE SendHello \/ ServerVersion \/ ClientVersion \/ SkipAuth
      BY <3>3, GotoEffect DEF SendHello, ServerVersion, ClientVersion, SkipAuth
    <3>4. CASE Cut \/ \E e \in Ends : SendChunk(e) \/ PingLost(e) \/ PingBroken(e)
      BY <3>4 DEF Cut, SendChunk, PingLost, PingBroken
    <3> QED BY <1>2, <3>1, <3>2, <3>3, <3>4
  <2> QED BY <2>1, <2>2, LoginKept
<1>3. ASSUME NEW n \in Sizes, Authenticate(n)
      PROVE  LoggedIn'
  <2>1. sent'["server"] = sent["server"]
    BY <1>3, TransmitSent DEF Authenticate
  <2>2. pc'["client"] = "AuthReply" /\ UNCHANGED <<withAuth, got>>
    BY <1>3, GotoEffect DEF Authenticate, conn
  <2> QED BY <2>1, <2>2, LoginKept
<1>4. ASSUME NEW n \in Sizes, AuthResponse(n)
      PROVE  LoggedIn'
  <2>1. PICK f \in Frames : f.id = 1 /\ sent'["server"] = Append(sent["server"], f)
    BY <1>4, TransmitSent DEF AuthResponse
  <2>2. HasId1(sent'["server"]) /\ HasId1(got'["server"])
    BY <1>1, <1>4, <2>1, Id1OfAppended DEF AuthResponse
  <2> QED BY <2>2 DEF LoggedIn
<1>5. ASSUME NEW e \in Ends, NEW n \in Sizes, SendFrame(e, n)
      PROVE  LoggedIn'
  <2>1. PICK f \in Frames : f.id = 0 /\ sent'[e] = Append(sent[e], f)
                            /\ sent'[Other(e)] = sent[Other(e)]
    BY <1>5, TransmitSent DEF SendFrame
  <2>2. HasId1(sent'["server"]) <=> HasId1(sent["server"])
    <3>1. CASE e = "client"
      BY <2>1, <3>1
    <3>2. CASE e = "server"
      <4>1. sent'["server"] = Append(sent["server"], f) /\ f.id # 1
        BY <2>1, <3>2
      <4> QED BY <1>1, <4>1, Id1OfAppended
    <3> QED BY <3>1, <3>2
  <2>3. UNCHANGED <<withAuth, got, pc>>
    BY <1>5 DEF SendFrame, conn
  <2> QED BY <2>2, <2>3, LoginKept
<1>6. ASSUME NEW e \in Ends, ReceiveFails(e) \/ ReceiveChunk(e)
      PROVE  LoggedIn'
  <2>1. UNCHANGED <<withAuth, sent, got>>
    BY <1>6 DEF ReceiveFails, ReceiveChunk, conn
  <2>2. pc'["client"] = "Online" => pc["client"] = "Online"
    BY <1>6, LeaveEffect, EndsEffect DEF ReceiveFails, ReceiveChunk
  <2> QED BY <2>1, <2>2, LoginKept
<1>7. ASSUME NEW e \in Ends, ReceiveFrame(e)
      PROVE  LoggedIn'
  <2> DEFINE o == Other(e)
  <2>1. o \in Ends /\ e = Other(o) /\ Direction(o) /\ Direction(o)'
    BY EndsEffect
  <2>2. PICK f : TakesFrame(e, f)
    <3> HIDE DEF o
    <3> QED BY <1>7, <2>1, FrameTaken
  <2>3. got[e] \in Seq(Frames) /\ got'[e] \in Seq(Frames) /\ got'[e] = Append(got[e], f)
        /\ got'[o] = got[o] /\ sent' = sent /\ withAuth' = withAuth
    BY <2>1, <2>2 DEF TakesFrame, TypeOK, conn
  <2>4. f \in Frames
    <3>1. got'[e][Len(got[e]) + 1] = f /\ Len(got'[e]) = Len(got[e]) + 1
      BY <2>3
    <3>2. Len(got[e]) + 1 \in 1..Len(got'[e])
      BY <2>3, <3>1
    <3> QED BY <2>3, <3>1, <3>2
  <2>5. HasId1(got["server"]) => HasId1(got'["server"])
    <3>1. CASE e = "server"
      BY <2>3, <2>4, <3>1, Id1OfAppended
    <3>2. CASE e = "client"
      BY <2>3, <3>2
    <3> QED BY <3>1, <3>2
  <2>6. CASE pc'["client"] # "Online" \/ pc["client"] = "Online"
    BY <2>3, <2>5, <2>6, LoginKept
  <2>7. CASE pc'["client"] = "Online" /\ pc["client"] # "Online"
    <3>1. e = "client" /\ IsAuthReply(f)
      BY <2>2, <2>7, LeaveEffect, GotoEffect, EndsEffect DEF TakesFrame
    <3>2. HasId1(got'["client"])
      BY <2>3, <2>4, <3>1, Id1OfAppended DEF IsAuthReply
    <3>3. HasId1(sent'["server"])
      <4>1. IsPrefix(got'["client"], sent'["server"])
        BY <2>1, <3>1 DEF Direction
      <4>2. got'["client"] \in Seq(Frames) /\ sent'["server"] \in Seq(Frames)
        BY DEF TypeOK
      <4> QED BY <3>2, <4>1, <4>2, Id1OfPrefix
    <3>4. HasId1(got'["server"])
      BY <2>3, <2>5, <3>3 DEF LoggedIn
    <3> QED BY <3>3, <3>4 DEF LoggedIn
  <2> QED BY <2>6, <2>7
<1>8. CASE Handshake
  BY <1>2, <1>3, <1>4, <1>8 DEF Handshake
<1>9. ASSUME NEW e \in Ends, SocketFails(e) \/ Loop(e)
      PROVE  LoggedIn'
  BY <1>2, <1>5, <1>6, <1>7, <1>9 DEF Loop
<1> QED BY <1>2, <1>8, <1>9 DEF Next

-----------------------------------------------------------------------------
(***************************************************************************)
(* Without a fault nobody leaves.                                          *)
(***************************************************************************)

Healthy(e) ==
    /\ noise[e].mode # "none" /\ InStep(e)
    /\ IsFinished(noise[e]) \/ unsent[e] = <<>>
    /\ \A i \in 1..Len(sent[e]) : ~TooLarge(sent[e][i].size)

\* What Faultless promises.
Fine == up /\ Turns /\ \A e \in Ends : Healthy(e)

LEMMA FaultlessIsFine ==
    /\ Faultless <=> (hello = Protocol /\ ~fault => Fine)
    /\ Faultless' <=> (hello' = Protocol /\ ~fault' => Fine')
<1>1. Faultless <=> (hello = Protocol /\ ~fault => Fine)
  BY DEF Faultless, Fine, Healthy
<1>2. Faultless' <=> (hello' = Protocol /\ ~fault' => Fine')
  BY DEF Faultless, Fine, Healthy
<1> QED BY <1>1, <1>2

LEMMA TurnsGoOn ==
    ASSUME Turns
    PROVE  \A e \in Ends : ~Ended(e)
  BY DEF Turns, Ends, Ended

LEMMA OneMessage ==
    /\ \A m : <<m>> # <<>> /\ Len(<<m>>) = 1
    /\ \A s : Len(s) = 1 => s # <<>>
  OBVIOUS

\* Before the handshake of the client is over, a wire has at most one message.
LEMMA EarlyTurns ==
    /\ Turns /\ pc["client"] \in {"Start", "Version", "NoiseReply"} =>
            \A e \in Ends : Len(wire[e]) = Lead(e)
    /\ Turns' /\ pc'["client"] \in {"Start", "Version", "NoiseReply"} =>
            \A e \in Ends : Len(wire'[e]) = Lead(e)'
<1>1. ASSUME Turns, pc["client"] \in {"Start", "Version", "NoiseReply"}
      PROVE  \A e \in Ends : Len(wire[e]) = Lead(e)
  <2>1. pc["server"] \in {"Version", "NoiseE", "NoiseS"}
    BY <1>1 DEF Turns
  <2>2. \A e \in Ends : wire[e] = <<>> \/ (wire[e] # <<>> /\ Len(wire[e]) = 1)
    <3>1. wire["client"] = <<>> \/ (wire["client"] # <<>> /\ Len(wire["client"]) = 1)
      BY <1>1, OneMessage DEF Turns
    <3>2. wire["server"] = <<>> \/ (wire["server"] # <<>> /\ Len(wire["server"]) = 1)
      BY <1>1, OneMessage DEF Turns
    <3> QED BY <3>1, <3>2, TwoEnds
  <2>3. Len(<<>>) = 0
    OBVIOUS
  <2>4. \A e \in Ends : pc[e] \notin {"Auth", "AuthReply", "Online", "Session"}
    BY <1>1, <2>1, TwoEnds
  <2> QED BY <2>2, <2>3, <2>4 DEF Lead
<1>2. ASSUME Turns', pc'["client"] \in {"Start", "Version", "NoiseReply"}
      PROVE  \A e \in Ends : Len(wire'[e]) = Lead(e)'
  <2>1. pc'["server"] \in {"Version", "NoiseE", "NoiseS"}
    BY <1>2 DEF Turns
  <2>2. \A e \in Ends : wire'[e] = <<>> \/ (wire'[e] # <<>> /\ Len(wire'[e]) = 1)
    <3>1. wire'["client"] = <<>> \/ (wire'["client"] # <<>> /\ Len(wire'["client"]) = 1)
      BY <1>2, OneMessage DEF Turns
    <3>2. wire'["server"] = <<>> \/ (wire'["server"] # <<>> /\ Len(wire'["server"]) = 1)
      BY <1>2, OneMessage DEF Turns
    <3> QED BY <3>1, <3>2, TwoEnds
  <2>3. Len(<<>>) = 0
    OBVIOUS
  <2>4. \A e \in Ends : pc'[e] \notin {"Auth", "AuthReply", "Online", "Session"}
    BY <1>2, <2>1, TwoEnds
  <2> QED BY <2>2, <2>3, <2>4 DEF Lead
<1> QED BY <1>1, <1>2

\* Who talks has a peer that is past its second message, and one of them waits.
LEMMA TalkingTurns ==
    ASSUME TypeOK, Turns, NEW e \in Ends, Talking(e)
    PROVE  /\ pc["client"] \in {"Auth", "AuthReply", "Online"}
           /\ \/ pc["server"] = "Session"
              \/ /\ e = "client" /\ pc["server"] = "NoiseS" /\ wire["client"] = <<>>
                 /\ wire["server"] # <<>> /\ wire["server"][1].type = "binary"
                 /\ wire["server"][1].packet.step = 3
  BY DEF Turns, Ends, Talking, Running

LEMMA InStepTyped ==
    ASSUME TypeOK, NEW e \in Ends, NEW r, r = Other(e)
    PROVE  /\ r \in Ends /\ wire[r] \in Seq(Messages) /\ Len(wire[r]) \in Nat
           /\ unsent[e] \in Seq(Packets) /\ Len(unsent[e]) \in Nat
           /\ noise[r].in \in Nat /\ noise[e].out \in Nat
           /\ Lead(r) \in {0, 1} /\ Lead(r) <= Len(wire[r])
<1>1. wire[r] \in Seq(Messages) /\ unsent[e] \in Seq(Packets) /\ r \in Ends
  BY DirectionTyped
<1>2. wire[r] # <<>> => Len(wire[r]) >= 1
  BY <1>1
<1> QED BY <1>1, <1>2, DirectionTyped DEF Lead

\* Nothing is sent and nothing read in the direction of e.
LEMMA InStepKept ==
    ASSUME NEW e \in Ends, InStep(e), NEW r, r = Other(e),
           unsent'[e] = unsent[e], noise'[r].in = noise[r].in,
           noise'[e].out = noise[e].out,
           Len(wire'[r]) - Lead(r)' = Len(wire[r]) - Lead(r),
           \A i \in 1..Len(wire[r]) - Lead(r) : wire'[r][Lead(r)' + i] = wire[r][Lead(r) + i]
    PROVE  InStep(e)'
  BY DEF InStep

\* A frame is encrypted.
LEMMA InStepTransmit ==
    ASSUME TypeOK, NEW e \in Ends, InStep(e), NEW r, r = Other(e), NEW n \in Nat,
           unsent[e] = <<>>, Len(unsent'[e]) = n,
           \A j \in 1..n : /\ unsent'[e][j].step = 0
                           /\ unsent'[e][j].nonce = noise[e].out + (j - 1),
           noise'[e].out = noise[e].out + n, noise'[r].in = noise[r].in,
           wire'[r] = wire[r], Lead(r)' = Lead(r)
    PROVE  InStep(e)'
<1>1. /\ Len(wire[r]) \in Nat /\ Lead(r) \in Nat /\ noise[r].in \in Nat
      /\ noise[e].out \in Nat /\ Len(unsent[e]) = 0
  BY InStepTyped
<1>2. noise[e].out = noise[r].in + Len(wire[r]) - Lead(r)
  BY <1>1 DEF InStep
<1>3. \A j \in 1..n : /\ unsent'[e][j].step = 0
                      /\ unsent'[e][j].nonce + 1 = noise[r].in + Len(wire[r]) - Lead(r) + j
  <2> DEFINE o == noise[e].out  k == noise[r].in + Len(wire[r]) - Lead(r)
  <2>1. o \in Nat /\ o = k
    BY <1>1, <1>2
  <2>2. \A j \in 1..n : unsent'[e][j].step = 0 /\ unsent'[e][j].nonce = o + (j - 1)
    OBVIOUS
  <2> HIDE DEF o, k
  <2>3. \A j \in 1..n : o + (j - 1) + 1 = k + j
    BY <2>1
  <2>4. \A j \in 1..n : unsent'[e][j].step = 0 /\ unsent'[e][j].nonce + 1 = k + j
    BY <2>2, <2>3
  <2> QED BY <2>4 DEF k
<1>4. noise'[e].out = noise[r].in + Len(wire[r]) - Lead(r) + n
  BY <1>1, <1>2
<1>5. \A i \in 1..Len(wire[r]) - Lead(r) :
        LET m == wire[r][Lead(r) + i] IN
        m.type = "binary" /\ m.packet.step = 0 /\ m.packet.nonce + 1 = noise[r].in + i
  BY DEF InStep
<1> QED BY <1>3, <1>4, <1>5 DEF InStep

\* A chunk is sent.
LEMMA InStepChunk ==
    ASSUME TypeOK, NEW e \in Ends, InStep(e), NEW r, r = Other(e), unsent[e] # <<>>,
           unsent'[e] = Tail(unsent[e]),
           wire'[r] = Append(wire[r], Binary(Head(unsent[e]))),
           noise'[e].out = noise[e].out, noise'[r].in = noise[r].in,
           Lead(r)' = Lead(r)
    PROVE  InStep(e)'
<1> DEFINE L == Len(wire[r])  d == Lead(r)  first == noise[r].in  p == Head(unsent[e])
           n == Len(unsent[e])
<1>1. /\ wire[r] \in Seq(Messages) /\ L \in Nat /\ d \in {0, 1} /\ d <= L /\ first \in Nat
      /\ noise[e].out \in Nat /\ unsent[e] \in Seq(Packets) /\ n \in Nat /\ n >= 1
      /\ p \in Packets /\ p = unsent[e][1] /\ p.nonce \in Nat
  <2>1. unsent[e] \in Seq(Packets)
    BY InStepTyped
  <2>2. p \in Packets /\ p = unsent[e][1] /\ n >= 1 /\ n \in Nat
    BY <2>1
  <2> QED BY <2>1, <2>2, InStepTyped DEF Packets
<1>2. Binary(p) \in Messages /\ Binary(p).type = "binary" /\ Binary(p).packet = p
  BY <1>1, MessagesTyped DEF Binary
<1>3. /\ Len(wire'[r]) = L + 1 /\ wire'[r][L + 1] = Binary(p)
      /\ \A i \in 1..L : wire'[r][i] = wire[r][i]
  BY <1>1, <1>2, AppendProperties
<1>4. Len(unsent'[e]) = n - 1 /\ \A i \in 1..n - 1 : unsent'[e][i] = unsent[e][i + 1]
  BY <1>1
<1>5. p.step = 0 /\ p.nonce + 1 = first + L - d + 1
  BY <1>1 DEF InStep
<1> HIDE DEF L, d, first, n, p
<1>6. ASSUME NEW i \in 1..(L + 1) - d
      PROVE  LET m == wire'[r][d + i] IN
             m.type = "binary" /\ m.packet.step = 0 /\ m.packet.nonce + 1 = first + i
  <2>1. CASE i \in 1..L - d
    <3>1. d + i \in 1..L /\ wire'[r][d + i] = wire[r][d + i]
      BY <1>1, <1>3, <2>1
    <3> QED BY <2>1, <3>1 DEF InStep, L, d, first
  <2>2. CASE i = L + 1 - d
    <3>1. d + i = L + 1
      BY <1>1, <2>2
    <3>2. first + L - d + 1 = first + i
      BY <1>1, <2>2
    <3> QED BY <1>2, <1>3, <1>5, <3>1, <3>2
  <2>3. i \in 1..L - d \/ i = L + 1 - d
    BY <1>1
  <2> QED BY <2>1, <2>2, <2>3
<1>7. ASSUME NEW i \in 1..n - 1
      PROVE  /\ unsent'[e][i].step = 0
             /\ unsent'[e][i].nonce + 1 = first + (L + 1) - d + i
  <2>1. i + 1 \in 1..n /\ first + L - d + (i + 1) = first + (L + 1) - d + i
    BY <1>1
  <2>2. /\ unsent[e][i + 1].step = 0
        /\ unsent[e][i + 1].nonce + 1 = first + L - d + (i + 1)
    BY <2>1 DEF InStep, L, d, first, n
  <2> QED BY <1>4, <2>1, <2>2
<1>8. noise[e].out = first + L - d + n
  BY DEF InStep, L, d, first, n
<1>9. noise[e].out = first + (L + 1) - d + (n - 1)
  BY <1>1, <1>8
<1>10. noise'[r].in = first /\ Lead(r)' = d
  BY DEF first, d
<1> QED BY <1>3, <1>4, <1>6, <1>7, <1>9, <1>10 DEF InStep

\* A packet is read.
LEMMA InStepRead ==
    ASSUME TypeOK, NEW e \in Ends, InStep(e), NEW r, r = Other(e), wire[r] # <<>>,
           wire'[r] = Tail(wire[r]), unsent'[e] = unsent[e],
           noise'[e].out = noise[e].out, noise'[r].in = noise[r].in + 1,
           Lead(r) = 0, Lead(r)' = 0
    PROVE  InStep(e)'
<1> DEFINE L == Len(wire[r])  first == noise[r].in  n == Len(unsent[e])
<1>1. /\ wire[r] \in Seq(Messages) /\ L \in Nat /\ first \in Nat
      /\ noise[e].out \in Nat /\ n \in Nat /\ L >= 1
  <2>1. wire[r] \in Seq(Messages)
    BY InStepTyped
  <2> QED BY <2>1, InStepTyped
<1>2. Len(wire'[r]) = L - 1 /\ \A i \in 1..L - 1 : wire'[r][i] = wire[r][i + 1]
  BY <1>1
<1>3. /\ \A i \in 1..L : LET m == wire[r][i] IN
            m.type = "binary" /\ m.packet.step = 0 /\ m.packet.nonce + 1 = first + i
      /\ \A i \in 1..n : /\ unsent[e][i].step = 0
                         /\ unsent[e][i].nonce + 1 = first + L + i
      /\ noise[e].out = first + L + n
  BY <1>1 DEF InStep
<1> HIDE DEF L, first, n
<1>4. ASSUME NEW i \in 1..L - 1
      PROVE  LET m == wire'[r][i] IN
             m.type = "binary" /\ m.packet.step = 0 /\ m.packet.nonce + 1 = (first + 1) + i
  <2>1. i + 1 \in 1..L /\ first + (i + 1) = (first + 1) + i
    BY <1>1
  <2> QED BY <1>2, <1>3, <2>1
<1>5. /\ \A i \in 1..n : /\ unsent[e][i].step = 0
                         /\ unsent[e][i].nonce + 1 = (first + 1) + (L - 1) + i
      /\ noise[e].out = (first + 1) + (L - 1) + n
  BY <1>1, <1>3
<1>6. Len(unsent'[e]) = n /\ noise'[r].in = first + 1
      /\ unsent'[e] = unsent[e] /\ noise'[e].out = noise[e].out
  BY DEF n, first
<1>7. Len(wire'[r]) - Lead(r)' = L - 1 /\ \A i \in 1..L - 1 : Lead(r)' + i = i
  BY <1>1, <1>2
<1>8. \A i \in 1..Len(wire'[r]) - Lead(r)' :
        LET m == wire'[r][Lead(r)' + i] IN
        m.type = "binary" /\ m.packet.step = 0 /\ m.packet.nonce + 1 = noise'[r].in + i
  BY <1>4, <1>6, <1>7
<1>9. first + 1 + Len(wire'[r]) - Lead(r)' = (first + 1) + (L - 1)
  <2>1. Lead(r)' = 0 /\ Len(wire'[r]) = L - 1 /\ L - 1 \in Nat /\ first \in Nat
    BY <1>1, <1>2
  <2> DEFINE d == Lead(r)'  l == Len(wire'[r])  k == L - 1
  <2>2. d = 0 /\ l = k /\ k \in Nat
    BY <2>1
  <2> HIDE DEF d, l, k
  <2>3. first + 1 + l - d = (first + 1) + k
    BY <2>1, <2>2
  <2> QED BY <2>3 DEF d, l, k
<1>10. \A i \in 1..Len(unsent'[e]) :
        /\ unsent'[e][i].step = 0
        /\ unsent'[e][i].nonce + 1 = noise'[r].in + Len(wire'[r]) - Lead(r)' + i
  BY <1>5, <1>6, <1>9
<1>11. noise'[e].out = noise'[r].in + Len(wire'[r]) - Lead(r)' + Len(unsent'[e])
  BY <1>5, <1>6, <1>9
<1> QED BY <1>8, <1>10, <1>11 DEF InStep

\* A step of the handshakes that leaves the wires with at most one message.
LEMMA HandshakeIsFine ==
    ASSUME Fine, up' = up, Turns', sent' = sent, unsent' = unsent,
           \A x \in Ends : /\ Len(wire[x]) = Lead(x) /\ Len(wire'[x]) = Lead(x)'
                           /\ Lead(x) \in {0, 1} /\ Lead(x)' \in {0, 1}
                           /\ noise'[x].out = noise[x].out /\ noise'[x].in = noise[x].in
                           /\ noise'[x].mode # "none"
                           /\ IsFinished(noise[x]) => IsFinished(noise'[x])
    PROVE  Fine'
<1>1. ASSUME NEW e \in Ends
      PROVE  Healthy(e)'
  <2> DEFINE r == Other(e)
  <2>1. r \in Ends /\ InStep(e) /\ Healthy(e)
    BY EndsEffect DEF Fine, Healthy
  <2>2. Len(wire'[r]) - Lead(r)' = 0 /\ Len(wire[r]) - Lead(r) = 0
    BY <2>1
  <2>3. InStep(e)'
    <3> HIDE DEF r
    <3>1. \A i \in 1..Len(wire[r]) - Lead(r) :
                wire'[r][Lead(r)' + i] = wire[r][Lead(r) + i]
      BY <2>2
    <3>2. r = Other(e) /\ Len(wire'[r]) - Lead(r)' = Len(wire[r]) - Lead(r)
      BY <2>2 DEF r
    <3> QED BY <2>1, <3>1, <3>2, InStepKept
  <2>4. IsFinished(noise[e])' \/ unsent'[e] = <<>>
    BY <2>1 DEF Healthy, IsFinished
  <2> QED BY <2>1, <2>3, <2>4 DEF Healthy
<1> QED BY <1>1 DEF Fine

LEMMA LeadRange == \A e \in Ends : Lead(e) \in {0, 1} /\ Lead(e)' \in {0, 1}
  BY DEF Lead

\* The only message on the way.
LEMMA FirstArrives ==
    ASSUME TypeOK, up, NEW e \in Ends, ~Ended(Other(e)), wire[Other(e)] = <<>>,
           NEW m \in Messages
    PROVE  /\ Arrives(e, <<m>>) = <<m>> /\ Len(<<m>>) = 1 /\ <<m>> # <<>>
           /\ <<m>>[1] = m
<1>1. Arrives(e, <<m>>) = <<>> \o <<m>>
  BY DEF Arrives
<1> QED BY <1>1

LEMMA LastRead ==
    ASSUME NEW S, NEW s \in Seq(S), Len(s) = 1
    PROVE  Tail(s) = <<>> /\ Head(s) = s[1]
<1>1. s # <<>>
  BY OneMessage
<1>2. Tail(s) \in Seq(S) /\ Len(Tail(s)) = 0 /\ Head(s) = s[1]
  BY <1>1
<1> QED BY <1>2, EmptySeq

LEMMA HelloIsFine ==
    ASSUME TypeOK, Handshaken, Fine, SendHello
    PROVE  Fine'
<1> USE TwoEnds
<1>1. /\ wire["server"] = <<>> /\ wire["client"] = <<>> /\ pc["server"] = "Version" /\ up
  BY DEF Fine, Turns, SendHello
<1>2. /\ pc'["client"] = "Version" /\ pc'["server"] = "Version" /\ hello' = hello
      /\ UNCHANGED <<up, sent, unsent, noise>> /\ wire'["client"] = <<>>
      /\ wire'["server"] = Arrives("client", <<Text(hello)>>)
  BY <1>1, GotoEffect DEF SendHello, TypeOK, conn
<1>3. wire'["server"] = <<Text(hello)>>
  <2>1. Text(hello) \in Messages
    BY MessagesTyped DEF TypeOK, Words
  <2>2. ~Ended("server")
    BY <1>1 DEF Ended
  <2> QED BY <1>1, <1>2, <2>1, <2>2, FirstArrives
<1>4. Turns'
  BY <1>2, <1>3 DEF Turns
<1>5. /\ \A x \in Ends : Len(wire[x]) = Lead(x) /\ Len(wire'[x]) = Lead(x)'
  BY <1>2, <1>4, EarlyTurns DEF Fine, SendHello
<1>6. \A x \in Ends : noise[x].mode # "none"
  BY DEF Fine, Healthy
<1> QED BY <1>2, <1>4, <1>5, <1>6, LeadRange, HandshakeIsFine

LEMMA ServerVersionIsFine ==
    ASSUME TypeOK, Handshaken, Fine, hello = Protocol, ServerVersion
    PROVE  Fine'
<1> USE TwoEnds
<1>1. /\ wire["server"] = <<Text(hello)>> /\ wire["client"] = <<>>
      /\ pc["client"] = "Version" /\ up
  BY DEF Fine, Turns, ServerVersion
<1>2. Len(wire["server"]) = 1 /\ Head(wire["server"]).text = Protocol
  <2>1. Len(wire["server"]) = 1 /\ Head(wire["server"]) = Text(hello)
    BY <1>1
  <2> QED BY <2>1 DEF Text
<1> DEFINE m == Text("PROTOCOL_ACCEPTED")
<1>3. m \in Messages
  BY MessagesTyped DEF Words
<1>4. /\ pc'["server"] = "NoiseE" /\ pc'["client"] = "Version" /\ hello' = hello
      /\ UNCHANGED <<up, sent, unsent, noise>> /\ Consume("server", <<m>>)
  BY <1>1, <1>2, GotoEffect DEF ServerVersion, conn
<1>5. wire'["server"] = <<>> /\ wire'["client"] = <<m>>
  <2> HIDE DEF m
  <2>1. <<m>> \in Seq(Messages) /\ wire["server"] # <<>>
    BY <1>2, <1>3, OneMessage
  <2>2. wire'["server"] = Tail(wire["server"]) /\ wire'["client"] = Arrives("server", <<m>>)
    BY <1>4, <2>1, ConsumeEffect
  <2>3. Tail(wire["server"]) = <<>>
    BY <1>2, LastRead DEF TypeOK
  <2>4. ~Ended("client")
    BY <1>1 DEF Ended
  <2> QED BY <1>1, <1>3, <2>2, <2>3, <2>4, FirstArrives
<1>6. Turns'
  BY <1>4, <1>5 DEF Turns
<1>7. /\ \A x \in Ends : Len(wire[x]) = Lead(x) /\ Len(wire'[x]) = Lead(x)'
  BY <1>1, <1>4, <1>6, EarlyTurns DEF Fine
<1>8. \A x \in Ends : noise[x].mode # "none"
  BY DEF Fine, Healthy
<1> QED BY <1>4, <1>6, <1>7, <1>8, LeadRange, HandshakeIsFine

LEMMA ClientVersionIsFine ==
    ASSUME TypeOK, Handshaken, Fine, ClientVersion
    PROVE  Fine'
<1> USE TwoEnds
<1> DEFINE a == Text("PROTOCOL_ACCEPTED")  s == noise["client"]
<1>1. /\ wire["client"] = <<a>> /\ wire["server"] = <<>>
      /\ pc["client"] = "Version" /\ pc["server"] = "NoiseE" /\ up
  BY DEF Fine, Turns, ClientVersion
<1>2. Len(wire["client"]) = 1 /\ Head(wire["client"]).text = "PROTOCOL_ACCEPTED"
  <2>1. Len(wire["client"]) = 1 /\ Head(wire["client"]) = a
    BY <1>1
  <2> QED BY <2>1 DEF Text
<1>3. s = Session("initiator") /\ s \in Sessions /\ s.step = 0 /\ s.mode = "handshake"
      /\ MyTurn(s)
  BY <1>1 DEF Handshaken, Session, MyTurn, TypeOK
<1> DEFINE p == Packet(s, <<>>)  m == Binary(p)
<1>4. m \in Messages /\ m.type = "binary" /\ m.packet.step = 1
  <2>1. p.step = 1
    BY <1>3 DEF Packet
  <2>2. <<>> \in Seq(Bytes) /\ s.step < 3
    BY <1>3
  <2> HIDE DEF s
  <2>3. p \in Packets
    BY <1>3, <2>2, PacketTyped
  <2> QED BY <2>1, <2>3, MessagesTyped DEF Binary
<1>5. /\ pc'["client"] = "NoiseReply" /\ pc'["server"] = "NoiseE"
      /\ UNCHANGED <<up, sent, unsent>> /\ Consume("client", <<m>>)
      /\ noise' = [noise EXCEPT !["client"] = AfterWrite(s)]
  BY <1>1, <1>2, GotoEffect DEF ClientVersion
<1>6. wire'["client"] = <<>> /\ wire'["server"] = <<m>>
  <2> HIDE DEF m
  <2>1. <<m>> \in Seq(Messages) /\ wire["client"] # <<>>
    BY <1>2, <1>4, OneMessage
  <2>2. wire'["client"] = Tail(wire["client"]) /\ wire'["server"] = Arrives("client", <<m>>)
    BY <1>5, <2>1, ConsumeEffect
  <2>3. Tail(wire["client"]) = <<>>
    BY <1>2, LastRead DEF TypeOK
  <2>4. ~Ended("server")
    BY <1>1 DEF Ended
  <2> QED BY <1>1, <1>4, <2>2, <2>3, <2>4, FirstArrives
<1> HIDE DEF m
<1>7. Turns'
  <2>1. Len(<<m>>) = 1 /\ <<m>>[1] = m
    OBVIOUS
  <2> QED BY <1>4, <1>5, <1>6, <2>1 DEF Turns
<1>8. /\ \A x \in Ends : Len(wire[x]) = Lead(x) /\ Len(wire'[x]) = Lead(x)'
  BY <1>1, <1>5, <1>7, EarlyTurns DEF Fine
<1>9. \A x \in Ends : /\ noise'[x].out = noise[x].out /\ noise'[x].in = noise[x].in
                      /\ noise'[x].mode # "none"
                      /\ IsFinished(noise[x]) => IsFinished(noise'[x])
  <2>1. AfterWrite(s) = Advance(s) /\ s.step < 3
    BY <1>3 DEF AfterWrite, CanWrite, IsFinished
  <2>2. /\ Advance(s) \in Sessions /\ Advance(s).out = s.out /\ Advance(s).in = s.in
        /\ Advance(s).mode # "none" /\ ~IsFinished(s)
    <3> HIDE DEF s
    <3> QED BY <1>3, <2>1, AdvanceEffect DEF IsFinished
  <2>3. noise'["client"] = Advance(s) /\ noise'["server"] = noise["server"]
    BY <1>5, <2>1 DEF TypeOK
  <2>4. noise["server"].mode # "none"
    BY DEF Fine, Healthy
  <2> QED BY <2>2, <2>3, <2>4
<1> QED BY <1>5, <1>7, <1>8, <1>9, LeadRange, HandshakeIsFine

\* The message that was waited for is read, and the next one written.
LEMMA NoiseReads ==
    ASSUME TypeOK, Fine, NEW e \in Ends, NEW l, NoiseStep(e, l),
           noise[e].mode = "handshake", noise[e].step \in {0, 1}, ~MyTurn(noise[e]),
           Len(wire[e]) = 1, wire[e][1].packet.step = noise[e].step + 1,
           wire[Other(e)] = <<>>
    PROVE  /\ Goto(e, l) /\ UNCHANGED <<up, sent, unsent>> /\ wire'[e] = <<>>
           /\ \E p \in Packets : /\ p.step = noise[e].step + 2 /\ Binary(p) \in Messages
                                 /\ wire'[Other(e)] = <<Binary(p)>>
           /\ \A x \in Ends :
                /\ noise'[x].out = noise[x].out /\ noise'[x].in = noise[x].in
                /\ noise'[x].mode # "none"
                /\ IsFinished(noise[x]) => IsFinished(noise'[x])
<1>1. /\ wire[e] \in Seq(Messages) /\ wire[e] # <<>>
      /\ Head(wire[e]) = wire[e][1] /\ Tail(wire[e]) = <<>>
  BY LastRead, OneMessage DEF TypeOK
<1>2. Read(e).step = noise[e].step + 1 /\ noise[e].step # 2
  BY <1>1 DEF Read
<1>3. /\ noise'[Other(e)] = noise[Other(e)] /\ UNCHANGED <<up, sent>>
      /\ noise'[e].out = noise[e].out /\ noise'[e].in = noise[e].in
      /\ Goto(e, l) /\ UNCHANGED unsent /\ wire'[e] = Tail(wire[e])
      /\ noise'[e] = Advance(Advance(noise[e]))
      /\ \E p \in Packets : /\ p.step = noise[e].step + 2 /\ Binary(p) \in Messages
                            /\ wire'[Other(e)] = Arrives(e, <<Binary(p)>>)
  BY <1>2, NoiseStepEffect
<1>4. PICK p \in Packets : /\ p.step = noise[e].step + 2 /\ Binary(p) \in Messages
                           /\ wire'[Other(e)] = Arrives(e, <<Binary(p)>>)
  BY <1>3
<1>5. wire'[Other(e)] = <<Binary(p)>>
  <2> DEFINE m == Binary(p)
  <2>1. up /\ ~Ended(Other(e)) /\ m \in Messages /\ wire'[Other(e)] = Arrives(e, <<m>>)
    BY <1>4, TurnsGoOn, EndsEffect DEF Fine
  <2> HIDE DEF m
  <2>2. wire'[Other(e)] = <<m>>
    BY <2>1, FirstArrives
  <2> QED BY <2>2 DEF m
<1>6. noise'[e].mode # "none" /\ ~IsFinished(noise[e])
  <2> DEFINE s == noise[e]  t == Advance(s)
  <2>1. s \in Sessions /\ s.step < 3 /\ s.mode = "handshake" /\ s.step \in {0, 1}
    <3>1. s \in Sessions
      BY DEF TypeOK
    <3> QED BY <3>1
  <2>2. noise'[e] = Advance(t)
    BY <1>3
  <2> HIDE DEF s
  <2>3. t \in Sessions /\ t.step = s.step + 1
    BY <2>1, AdvanceEffect
  <2> HIDE DEF t
  <2>4. Advance(t).mode # "none"
    BY <2>1, <2>3, AdvanceEffect
  <2> QED BY <2>1, <2>2, <2>4 DEF IsFinished, s
<1>7. \A x \in Ends : noise[x].mode # "none"
  BY DEF Fine, Healthy
<1>8. \A x \in Ends :
                /\ noise'[x].out = noise[x].out /\ noise'[x].in = noise[x].in
                /\ noise'[x].mode # "none"
                /\ IsFinished(noise[x]) => IsFinished(noise'[x])
  BY <1>3, <1>6, <1>7, EndsEffect
<1> QED BY <1>1, <1>3, <1>4, <1>5, <1>8

LEMMA ServerNoiseEIsFine ==
    ASSUME TypeOK, Handshaken, Fine, ServerNoiseE
    PROVE  Fine'
<1> USE TwoEnds
<1>1. /\ wire["client"] = <<>> /\ Len(wire["server"]) = 1
      /\ wire["server"][1].packet.step = 1 /\ pc["client"] = "NoiseReply"
  BY DEF Fine, Turns, ServerNoiseE, NoiseStep, HasBinary
<1>2. /\ NoiseStep("server", "NoiseS") /\ noise["server"].mode = "handshake"
      /\ noise["server"].step = 0 /\ ~MyTurn(noise["server"])
  BY NoiseTurns
<1>3. /\ Goto("server", "NoiseS") /\ UNCHANGED <<up, sent, unsent>> /\ wire'["server"] = <<>>
      /\ \E p \in Packets : /\ p.step = 2 /\ Binary(p) \in Messages
                            /\ wire'["client"] = <<Binary(p)>>
      /\ \A x \in Ends :
           /\ noise'[x].out = noise[x].out /\ noise'[x].in = noise[x].in
           /\ noise'[x].mode # "none"
           /\ IsFinished(noise[x]) => IsFinished(noise'[x])
  BY <1>1, <1>2, NoiseReads
<1>4. PICK p \in Packets : p.step = 2 /\ wire'["client"] = <<Binary(p)>>
  BY <1>3
<1>5. pc'["server"] = "NoiseS" /\ pc'["client"] = "NoiseReply"
  BY <1>1, <1>3, GotoEffect
<1>6. /\ Len(wire'["client"]) = 1 /\ wire'["client"][1].type = "binary"
      /\ wire'["client"][1].packet.step = 2
  BY <1>4 DEF Binary
<1>7. Turns'
  BY <1>3, <1>5, <1>6 DEF Turns
<1>8. \A x \in Ends : Len(wire[x]) = Lead(x) /\ Len(wire'[x]) = Lead(x)'
  BY <1>1, <1>5, <1>7, EarlyTurns DEF Fine
<1> QED BY <1>3, <1>7, <1>8, LeadRange, HandshakeIsFine

LEMMA ClientNoiseIsFine ==
    ASSUME TypeOK, Handshaken, Fine, ClientNoise
    PROVE  Fine'
<1> USE TwoEnds
<1>1. /\ wire["server"] = <<>> /\ Len(wire["client"]) = 1
      /\ wire["client"][1].packet.step = 2 /\ pc["server"] = "NoiseS"
      /\ pc["client"] = "NoiseReply"
  BY DEF Fine, Turns, ClientNoise, NoiseStep, HasBinary
<1>2. /\ NoiseStep("client", "Auth") /\ noise["client"].mode = "handshake"
      /\ noise["client"].step = 1 /\ ~MyTurn(noise["client"])
  BY NoiseTurns
<1>3. /\ Goto("client", "Auth") /\ UNCHANGED <<up, sent, unsent>> /\ wire'["client"] = <<>>
      /\ \E p \in Packets : /\ p.step = 3 /\ Binary(p) \in Messages
                            /\ wire'["server"] = <<Binary(p)>>
      /\ \A x \in Ends :
           /\ noise'[x].out = noise[x].out /\ noise'[x].in = noise[x].in
           /\ noise'[x].mode # "none"
           /\ IsFinished(noise[x]) => IsFinished(noise'[x])
  BY <1>1, <1>2, NoiseReads
<1>4. PICK p \in Packets : p.step = 3 /\ wire'["server"] = <<Binary(p)>>
  BY <1>3
<1>5. pc'["client"] = "Auth" /\ pc'["server"] = "NoiseS"
  BY <1>1, <1>3, GotoEffect
<1>6. /\ Len(wire'["server"]) = 1 /\ wire'["server"][1].type = "binary"
      /\ wire'["server"][1].packet.step = 3 /\ wire'["server"] # <<>>
  BY <1>4, OneMessage DEF Binary
<1>7. Turns'
  BY <1>3, <1>5, <1>6 DEF Turns
<1>8. \A x \in Ends : Len(wire[x]) = Lead(x)
  BY <1>1, EarlyTurns DEF Fine
<1>9. \A x \in Ends : Len(wire'[x]) = Lead(x)'
  <2>1. Lead("server")' = 1 /\ Lead("client")' = 0
    BY <1>5, <1>6 DEF Lead
  <2>2. Len(wire'["client"]) = 0
    BY <1>3
  <2> QED BY <1>6, <2>1, <2>2
<1> QED BY <1>3, <1>7, <1>8, <1>9, LeadRange, HandshakeIsFine

\* The session starts with what arrived behind the last handshake message.
LEMMA ServerNoiseSIsFine ==
    ASSUME TypeOK, TypeOK', Handshaken, Fine, ServerNoiseS
    PROVE  Fine'
<1> USE TwoEnds
<1> DEFINE s == noise["server"]  w == wire["server"]
<1>1. /\ NoiseStep("server", "Session") /\ s.mode = "handshake" /\ s.step = 2 /\ ~MyTurn(s)
      /\ pc["server"] = "NoiseS" /\ w \in Seq(Messages) /\ w # <<>>
  BY NoiseTurns DEF ServerNoiseS, NoiseStep, HasBinary, TypeOK
<1>2. /\ pc["client"] \in {"Auth", "AuthReply", "Online"}
      /\ w[1].packet.step = 3
  BY <1>1 DEF Fine, Turns, NoiseStep, HasBinary
<1>3. Read("server").step = 3
  BY <1>1, <1>2 DEF Read
<1>4. /\ Goto("server", "Session") /\ UNCHANGED <<up, sent, unsent>>
      /\ wire'["server"] = Tail(w) /\ wire'["client"] = wire["client"]
      /\ noise'["server"] = Advance(s) /\ noise'["client"] = noise["client"]
  BY <1>1, <1>3, NoiseStepEffect
<1>5. /\ Advance(s).out = s.out /\ Advance(s).in = s.in /\ Advance(s).mode = "transport"
  <2>1. s \in Sessions /\ s.step = 2 /\ s.step < 3
    BY <1>1 DEF TypeOK
  <2> HIDE DEF s
  <2> QED BY <2>1, AdvanceEffect
<1> HIDE DEF s
<1>6. pc'["server"] = "Session" /\ pc'["client"] = pc["client"]
  BY <1>4, GotoEffect
<1>7. Turns'
  BY <1>2, <1>6 DEF Turns
<1>8. InStep("client")'
  <2>1. Lead("server") = 1 /\ Lead("server")' = 0
    BY <1>1, <1>6 DEF Lead
  <2>2. /\ Len(w) \in Nat /\ Len(Tail(w)) = Len(w) - 1
        /\ \A i \in 1..Len(w) - 1 : Tail(w)[i] = w[1 + i]
    BY <1>1
  <2>3. \A i \in 1..Len(w) - 1 : 0 + i = i
    OBVIOUS
  <2>4. /\ Len(wire'["server"]) - Lead("server")' = Len(w) - Lead("server")
        /\ \A i \in 1..Len(w) - Lead("server") :
                wire'["server"][Lead("server")' + i] = w[Lead("server") + i]
    BY <1>4, <2>1, <2>2, <2>3
  <2>5. InStep("client") /\ unsent'["client"] = unsent["client"]
        /\ noise'["server"].in = noise["server"].in
        /\ noise'["client"].out = noise["client"].out
    BY <1>4, <1>5 DEF Fine, Healthy, s
  <2> QED BY <2>4, <2>5, InStepKept
<1>9. InStep("server")'
  <2>1. Lead("client") = 0 /\ Lead("client")' = 0
    BY <1>2, <1>6 DEF Lead
  <2>2. InStep("server") /\ unsent'["server"] = unsent["server"]
        /\ noise'["client"].in = noise["client"].in
        /\ noise'["server"].out = noise["server"].out
    BY <1>4, <1>5 DEF Fine, Healthy, s
  <2> QED BY <1>4, <2>1, <2>2, InStepKept
<1>10. Healthy("client")' /\ Healthy("server")'
  <2>1. IsFinished(noise'["server"])
    BY <1>4, <1>5 DEF IsFinished
  <2>2. noise'["server"].mode # "none"
    BY <1>4, <1>5
  <2>3. Healthy("client") /\ Healthy("server")
    BY DEF Fine
  <2> QED BY <1>4, <1>8, <1>9, <2>1, <2>2, <2>3 DEF Healthy
<1> QED BY <1>4, <1>7, <1>10 DEF Fine

\* A frame goes to the encryption.
LEMMA TransmitIsFine ==
    ASSUME TypeOK, Fine, NEW e \in Ends, NEW id \in {0, 1}, NEW size \in Sizes,
           Transmit(e, id, size), ~TooLarge(size), Turns', up' = up, wire' = wire,
           \A x \in Ends : Lead(x)' = Lead(x)
    PROVE  Fine'
<1> DEFINE r == Other(e)  f == NextFrame(e, id, size)  cs == ChunksOfBytes(Encode(f))
           n == Len(cs)
<1>1. /\ f \in Frames /\ f.size = size
      /\ cs \in Seq(Seq(Bytes)) /\ unsent'[r] = unsent[r] /\ Len(unsent'[e]) = n
      /\ \A j \in 1..n : unsent'[e][j] =
                [step |-> 0, nonce |-> noise[e].out + (j - 1), plain |-> cs[j]]
      /\ sent'[e] = Append(sent[e], f) /\ sent'[r] = sent[r]
      /\ noise'[r] = noise[r]
      /\ noise'[e] = [noise[e] EXCEPT !.out = noise[e].out + n]
  <2> HIDE DEF f, cs
  <2>1. f = NextFrame(e, id, size) /\ cs = ChunksOfBytes(Encode(f))
    BY DEF f, cs
  <2> QED BY <2>1, TransmitEffect
<1> HIDE DEF f, cs, n
<1>2. n \in Nat /\ noise[e] \in Sessions /\ r \in Ends /\ sent[e] \in Seq(Frames)
      /\ Other(r) = e
  BY <1>1, EndsEffect DEF n, TypeOK
<1>3. /\ noise'[e].out = noise[e].out + n /\ noise'[e].in = noise[e].in
      /\ noise'[e].mode = noise[e].mode
  BY <1>1, <1>2 DEF Sessions
<1>4. Healthy(e) /\ Healthy(r) /\ unsent[e] = <<>> /\ IsFinished(noise[e])
  BY <1>2 DEF Fine, Transmit
<1>5. Healthy(e)'
  <2>1. \A j \in 1..n : /\ unsent'[e][j].step = 0
                        /\ unsent'[e][j].nonce = noise[e].out + (j - 1)
    <3> SUFFICES ASSUME NEW j \in 1..n
                 PROVE  /\ unsent'[e][j].step = 0
                        /\ unsent'[e][j].nonce = noise[e].out + (j - 1)
      OBVIOUS
    <3> DEFINE k == noise[e].out + (j - 1)
    <3>1. unsent'[e][j] = [step |-> 0, nonce |-> k, plain |-> cs[j]]
      BY <1>1
    <3> HIDE DEF k
    <3>2. unsent'[e][j].step = 0 /\ unsent'[e][j].nonce = k
      BY <3>1
    <3> QED BY <3>2 DEF k
  <2>2. noise'[r].in = noise[r].in /\ wire'[r] = wire[r] /\ Lead(r)' = Lead(r)
    BY <1>1, <1>2
  <2>3. r = Other(e) /\ InStep(e) /\ Len(unsent'[e]) = n
    BY <1>1, <1>4 DEF Healthy
  <2> HIDE DEF r
  <2>4. InStep(e)'
    BY <1>2, <1>3, <1>4, <2>1, <2>2, <2>3, InStepTransmit
  <2>5. IsFinished(noise[e])' /\ noise'[e].mode # "none"
    BY <1>3, <1>4 DEF IsFinished
  <2>6. \A i \in 1..Len(sent'[e]) : ~TooLarge(sent'[e][i].size)
    <3>1. /\ Len(sent'[e]) = Len(sent[e]) + 1 /\ sent'[e][Len(sent[e]) + 1] = f
          /\ \A i \in 1..Len(sent[e]) : sent'[e][i] = sent[e][i]
      BY <1>1, <1>2, AppendProperties
    <3>2. Len(sent[e]) \in Nat
      BY <1>2
    <3> QED BY <1>1, <1>4, <3>1, <3>2 DEF Healthy
  <2> QED BY <2>4, <2>5, <2>6 DEF Healthy
<1>6. Healthy(r)'
  <2>1. InStep(r)'
    <3>1. InStep(r) /\ unsent'[r] = unsent[r] /\ noise'[e].in = noise[e].in
          /\ noise'[r].out = noise[r].out /\ wire'[e] = wire[e] /\ Lead(e)' = Lead(e)
      BY <1>1, <1>3, <1>4 DEF Healthy
    <3> HIDE DEF r
    <3>2. e = Other(r) /\ Len(wire'[e]) - Lead(e)' = Len(wire[e]) - Lead(e)
          /\ \A i \in 1..Len(wire[e]) - Lead(e) : wire'[e][Lead(e)' + i] = wire[e][Lead(e) + i]
      BY <1>2, <3>1
    <3> QED BY <1>2, <3>1, <3>2, InStepKept
  <2> QED BY <1>1, <1>4, <2>1 DEF Healthy
<1> QED BY <1>5, <1>6, EndsEffect DEF Fine

LEMMA SendsAreFine ==
    ASSUME TypeOK, Fine, NEW e \in Ends, NEW n \in Sizes, ~fault',
           SendFrame(e, n) \/ (e = "client" /\ Authenticate(n))
                           \/ (e = "server" /\ AuthResponse(n))
    PROVE  Fine'
<1> USE TwoEnds
<1>1. PICK id \in {0, 1} : Transmit(e, id, n)
  BY DEF SendFrame, Authenticate, AuthResponse
<1>2. wire' = wire /\ up' = up /\ ~TooLarge(n)
  BY DEF SendFrame, Authenticate, AuthResponse
<1>3. \/ pc' = pc
      \/ pc["client"] = "Auth" /\ pc'["client"] = "AuthReply" /\ pc'["server"] = pc["server"]
  BY GotoEffect DEF SendFrame, Authenticate, AuthResponse
<1>4. Turns' /\ \A x \in Ends : Lead(x)' = Lead(x)
  <2>1. CASE pc' = pc
    <3>1. pc["client"] # "Version" \/ pc["server"] # "Version"
      BY <2>1 DEF SendFrame, Authenticate, AuthResponse, Running, Goto, TypeOK
    <3>2. Turns'
      BY <1>2, <2>1, <3>1 DEF Fine, Turns
    <3> QED BY <1>2, <2>1, <3>2 DEF Lead
  <2>2. CASE /\ pc["client"] = "Auth" /\ pc'["client"] = "AuthReply"
             /\ pc'["server"] = pc["server"]
    <3>1. Turns'
      BY <1>2, <2>2 DEF Fine, Turns
    <3> QED BY <1>2, <2>2, <3>1 DEF Lead
  <2> QED BY <1>3, <2>1, <2>2
<1> QED BY <1>1, <1>2, <1>4, TransmitIsFine

LEMMA SkipAuthIsFine ==
    ASSUME TypeOK, Fine, SkipAuth
    PROVE  Fine'
<1> USE TwoEnds
<1>1. /\ pc["client"] = "Auth" /\ pc'["client"] = "Online" /\ pc'["server"] = pc["server"]
      /\ UNCHANGED <<up, wire, noise, unsent, sent>>
  BY GotoEffect DEF SkipAuth
<1>2. Turns'
  BY <1>1 DEF Fine, Turns
<1>3. \A x \in Ends : Lead(x)' = Lead(x)
  BY <1>1 DEF Lead
<1>4. \A x \in Ends : Healthy(x)'
  <2> SUFFICES ASSUME NEW x \in Ends PROVE Healthy(x)'
    OBVIOUS
  <2> DEFINE r == Other(x)
  <2>1. r \in Ends /\ Healthy(x)
    BY EndsEffect DEF Fine
  <2>2. InStep(x)'
    <3> HIDE DEF r
    <3>1. r = Other(x) /\ Len(wire'[r]) - Lead(r)' = Len(wire[r]) - Lead(r)
          /\ \A i \in 1..Len(wire[r]) - Lead(r) : wire'[r][Lead(r)' + i] = wire[r][Lead(r) + i]
      BY <1>1, <1>3, <2>1 DEF r
    <3> QED BY <1>1, <2>1, <3>1, InStepKept DEF Healthy
  <2> QED BY <1>1, <2>1, <2>2 DEF Healthy
<1> QED BY <1>1, <1>2, <1>4 DEF Fine

LEMMA ChunkIsFine ==
    ASSUME TypeOK, TypeOK', Handshaken, Fine, NEW e \in Ends, SendChunk(e)
    PROVE  Fine'
<1> USE TwoEnds
<1> DEFINE r == Other(e)  m == Binary(Head(unsent[e]))
<1>1. /\ Talking(e) /\ r \in Ends /\ Other(r) = e /\ unsent[e] # <<>> /\ r # e
      /\ wire[r] \in Seq(Messages)
      /\ UNCHANGED <<pc, up, noise, sent>>
      /\ unsent'[e] = Tail(unsent[e]) /\ unsent'[r] = unsent[r]
      /\ wire'[r] = Arrives(e, <<m>>) /\ wire'[e] = wire[e]
  BY EndsEffect DEF SendChunk, Handshaken, TypeOK
<1>2. m \in Messages
  <2>1. unsent[e] \in Seq(Packets)
    BY DEF TypeOK
  <2>2. Head(unsent[e]) \in Packets
    BY <1>1, <2>1
  <2> QED BY <2>2, MessagesTyped
<1> HIDE DEF m
<1>3. wire'[r] = Append(wire[r], m)
  <2>1. wire'[r] = wire[r] \o <<m>>
    BY <1>1, TurnsGoOn DEF Arrives, Fine
  <2> QED BY <1>1, <1>2, <2>1
<1>4. /\ wire'[r] # <<>> /\ (wire[r] # <<>> => wire'[r][1] = wire[r][1])
  <2>1. Len(wire'[r]) = Len(wire[r]) + 1 /\ \A i \in 1..Len(wire[r]) : wire'[r][i] = wire[r][i]
    BY <1>1, <1>2, <1>3, AppendProperties
  <2>2. Len(wire[r]) \in Nat /\ (wire[r] # <<>> => Len(wire[r]) >= 1)
    BY <1>1
  <2>3. wire'[r] \in Seq(Messages)
    BY <1>1 DEF TypeOK
  <2> QED BY <2>1, <2>2, <2>3
<1>5. /\ pc["client"] \in {"Auth", "AuthReply", "Online"}
      /\ \/ pc["server"] = "Session"
         \/ /\ e = "client" /\ pc["server"] = "NoiseS" /\ wire["client"] = <<>>
            /\ wire["server"] # <<>> /\ wire["server"][1].type = "binary"
            /\ wire["server"][1].packet.step = 3
  BY <1>1, TalkingTurns DEF Fine
<1>6. Turns'
  BY <1>1, <1>4, <1>5 DEF Turns
<1>7. Lead(r)' = Lead(r) /\ Lead(e)' = Lead(e)
  <2>1. CASE pc["server"] = "Session"
    BY <1>1, <1>5, <2>1 DEF Lead
  <2>2. CASE e = "client" /\ wire["server"] # <<>>
    BY <1>1, <1>4, <2>2 DEF Lead
  <2> QED BY <1>5, <2>1, <2>2
<1>8. Healthy(e) /\ Healthy(r)
  BY <1>1 DEF Fine
<1>9. Healthy(e)'
  <2>1. r = Other(e)
    OBVIOUS
  <2> HIDE DEF r
  <2>2. InStep(e)'
    BY <1>1, <1>3, <1>7, <1>8, <2>1, InStepChunk DEF Healthy, m
  <2>3. IsFinished(noise[e])
    BY <1>1, <1>8 DEF Healthy
  <2> QED BY <1>1, <1>8, <2>2, <2>3 DEF Healthy
<1>10. Healthy(r)'
  <2> HIDE DEF r
  <2>1. /\ Len(wire'[e]) - Lead(e)' = Len(wire[e]) - Lead(e)
        /\ \A i \in 1..Len(wire[e]) - Lead(e) : wire'[e][Lead(e)' + i] = wire[e][Lead(e) + i]
    BY <1>1, <1>7
  <2>2. e = Other(r) /\ InStep(r) /\ unsent'[r] = unsent[r] /\ noise'[e].in = noise[e].in
        /\ noise'[r].out = noise[r].out
    BY <1>1, <1>8 DEF Healthy
  <2>3. InStep(r)'
    BY <1>1, <2>1, <2>2, InStepKept
  <2> QED BY <1>1, <1>8, <2>3 DEF Healthy
<1> QED BY <1>1, <1>6, <1>9, <1>10, EndsEffect DEF Fine

\* An end reads what it counts on, and nothing is wrong with it.
LEMMA ReadsWell ==
    ASSUME TypeOK, Handshaken, Fine, NEW r \in Ends, Receives(r), NEW e, e = Other(r),
           Direction(e)
    PROVE  /\ e \in Ends /\ r = Other(e) /\ pc["server"] = "Session"
           /\ pc["client"] \in {"AuthReply", "Online"} \/ r = "server"
           /\ CanRead(noise[r], Read(r))
           /\ \A x \in Feed(acc[r], Read(r).plain) :
                /\ x.out # Error
                /\ x.out.status = "frame" => Decode(x.out.bytes) # NoFrame
<1> USE TwoEnds
<1>1. /\ e \in Ends /\ r = Other(e) /\ e # r
      /\ Talking(r) /\ wire[r] # <<>> /\ Head(wire[r]).type = "binary"
  BY EndsEffect DEF Receives, HasBinary
<1>2. /\ pc["server"] = "Session"
      /\ pc["client"] \in {"AuthReply", "Online"} \/ r = "server"
  <2>1. r # "client" \/ wire["client"] # <<>>
    BY <1>1
  <2> QED BY <1>1, <2>1, TalkingTurns DEF Fine, Talking, Running
<1>3. wire[r] \in Seq(Messages) /\ Len(wire[r]) \in Nat /\ Len(wire[r]) >= 1
      /\ noise[r].in \in Nat /\ noise[r] \in Sessions
  <2>1. wire[r] \in Seq(Messages) /\ noise[r] \in Sessions
    BY DEF TypeOK
  <2> QED BY <1>1, <2>1, InStepTyped
<1>4. Lead(r) = 0
  <2>1. pc[r] \in {"Auth", "AuthReply", "Online", "Session"}
    BY <1>1 DEF Talking, Running
  <2> QED BY <2>1 DEF Lead
<1>5. Read(r).step = 0 /\ Read(r).nonce = noise[r].in
  <2>1. InStep(e)
    BY <1>1 DEF Fine, Healthy
  <2>2. wire[r][1].packet.step = 0 /\ wire[r][1].packet.nonce + 1 = noise[r].in + 1
    <3>1. 1 \in 1..Len(wire[r]) - Lead(r) /\ Lead(r) + 1 = 1
      BY <1>3, <1>4
    <3> QED BY <1>1, <2>1, <3>1 DEF InStep
  <2>3. Read(r) = wire[r][1].packet /\ Read(r) \in Packets
    <3>1. Head(wire[r]) = wire[r][1]
      BY <1>1, <1>3
    <3> QED BY <1>1, <3>1, ReadTyped DEF Read, HasBinary
  <2>4. Read(r).nonce \in Nat
    BY <2>3 DEF Packets
  <2> QED BY <1>3, <2>2, <2>3, <2>4
<1>6. CanRead(noise[r], Read(r))
  <2>1. noise[r].mode # "none" /\ noise[r].mode # "handshake"
    BY <1>1, EstablishedTalks DEF Fine, Healthy, Established
  <2>2. IsFinished(noise[r])
    BY <1>3, <2>1 DEF IsFinished, Sessions
  <2> QED BY <1>5, <2>2 DEF CanRead
<1> DEFINE c == Read(r).plain
<1>7. FrameOf(c).size <= MaxBytes /\ FrameOf(c).size < LenRange
  <2>1. c = Read(r).plain /\ Read(r) = Read(r)
    OBVIOUS
  <2> HIDE DEF c
  <2>2. /\ Len(got[r]) < Len(sent[e]) /\ FrameOf(c) = sent[e][Len(got[r]) + 1]
        /\ FrameOf(c).size \in Nat
    BY <1>1, <1>6, <2>1, NextPiece
  <2>3. Len(got[r]) \in Nat /\ Len(sent[e]) \in Nat
    BY <1>1, DirectionTyped
  <2>4. Len(got[r]) + 1 \in 1..Len(sent[e])
    BY <2>2, <2>3
  <2>5. ~TooLarge(FrameOf(c).size)
    BY <1>1, <2>2, <2>4 DEF Fine, Healthy
  <2> QED BY <2>2, <2>5, Assumptions DEF TooLarge
<1>8. ASSUME NEW x \in Feed(acc[r], c)
      PROVE  x.out # Error /\ (x.out.status = "frame" => Decode(x.out.bytes) # NoFrame)
  <2>1. c = Read(r).plain /\ x \in Feed(acc[r], c)
    OBVIOUS
  <2> HIDE DEF c
  <2>2. /\ x.out = More \/ x.out.status = "frame"
        /\ x.out.status = "frame" => Decode(x.out.bytes) # NoFrame
    BY <1>1, <1>6, <1>7, <2>1, NextPieceRead
  <2> QED BY <2>2, StatusOfError
<1> QED BY <1>1, <1>2, <1>6, <1>8

LEMMA ReceiveIsFine ==
    ASSUME TypeOK, TypeOK', Handshaken, Fine, NEW r \in Ends, ~fault',
           \A e \in Ends : Direction(e),
           ReceiveFails(r) \/ ReceiveChunk(r) \/ ReceiveFrame(r)
    PROVE  Fine'
<1> USE TwoEnds
<1> DEFINE e == Other(r)
<1>1. Receives(r) /\ UNCHANGED <<up, sent>>
  BY DEF ReceiveFails, ReceiveChunk, ReceiveFrame
<1>2. /\ e \in Ends /\ r = Other(e) /\ e # r /\ pc["server"] = "Session"
      /\ pc["client"] \in {"AuthReply", "Online"} \/ r = "server"
      /\ CanRead(noise[r], Read(r))
      /\ \A x \in Feed(acc[r], Read(r).plain) :
           /\ x.out # Error
           /\ x.out.status = "frame" => Decode(x.out.bytes) # NoFrame
  <2>1. e = Other(r) /\ e \in Ends /\ e # r /\ Direction(e)
    BY EndsEffect
  <2> HIDE DEF e
  <2> QED BY <1>1, <2>1, ReadsWell
<1>3. ~ReceiveFails(r)
  BY <1>2 DEF ReceiveFails
<1>4. /\ Consume(r, <<>>) /\ UNCHANGED unsent
      /\ UNCHANGED pc \/ (~Running(r) /\ Goto(r, "Online"))
  BY <1>3 DEF ReceiveChunk, ReceiveFrame
<1>5. /\ wire[r] # <<>> /\ Read(r) \in Packets /\ noise[r] \in Sessions
      /\ noise'[r] = AfterRead(noise[r], Read(r)) /\ noise'[e] = noise[e]
  BY <1>1, ReceivesTyped DEF TypeOK
<1>6. wire'[r] = Tail(wire[r]) /\ wire'[e] = wire[e]
  BY <1>4, <1>5, ConsumeNothing
<1>7. noise[r].mode # "handshake" /\ pc[r] \in {"AuthReply", "Online", "Session"} /\ Talking(r)
  BY <1>1, EstablishedTalks DEF Receives, Established, Talking, Running
<1>8. /\ noise'[r].in = noise[r].in + 1 /\ noise'[r].out = noise[r].out
      /\ noise'[r].mode = noise[r].mode
  BY <1>2, <1>5, <1>7, ReadEstablished
<1>9. pc["client"] \in {"Auth", "AuthReply", "Online"}
  BY <1>7, TalkingTurns DEF Fine
<1>10. /\ pc'["server"] = "Session" /\ pc'["client"] \in {"Auth", "AuthReply", "Online"}
  <2>1. CASE UNCHANGED pc
    BY <1>2, <1>9, <2>1
  <2>2. CASE ~Running(r) /\ Goto(r, "Online")
    <3>1. r = "client"
      BY <1>2, <2>2 DEF Running
    <3> QED BY <1>2, <2>2, <3>1, GotoEffect
  <2> QED BY <1>4, <2>1, <2>2
<1>11. Turns'
  BY <1>10 DEF Turns
<1>12. \A x \in Ends : Lead(x) = 0 /\ Lead(x)' = 0
  BY <1>2, <1>9, <1>10 DEF Lead
<1>13. Healthy(e) /\ Healthy(r)
  BY <1>2 DEF Fine
<1>14. InStep(e)'
  <2>1. InStep(e) /\ unsent'[e] = unsent[e] /\ noise'[e].out = noise[e].out
        /\ Lead(r) = 0 /\ Lead(r)' = 0
    BY <1>4, <1>5, <1>12, <1>13 DEF Healthy
  <2> HIDE DEF e
  <2> QED BY <1>2, <1>5, <1>6, <1>8, <2>1, InStepRead
<1>15. InStep(r)'
  <2>1. InStep(r) /\ unsent'[r] = unsent[r] /\ noise'[e].in = noise[e].in
        /\ e = Other(r)
    BY <1>4, <1>5, <1>13 DEF Healthy
  <2> HIDE DEF e
  <2>2. /\ Len(wire'[e]) - Lead(e)' = Len(wire[e]) - Lead(e)
        /\ \A i \in 1..Len(wire[e]) - Lead(e) : wire'[e][Lead(e)' + i] = wire[e][Lead(e) + i]
    BY <1>2, <1>6, <1>12
  <2> QED BY <1>8, <2>1, <2>2, InStepKept
<1>16. Healthy(e)' /\ Healthy(r)'
  BY <1>1, <1>4, <1>5, <1>8, <1>13, <1>14, <1>15 DEF Healthy, IsFinished
<1> QED BY <1>1, <1>2, <1>11, <1>16, EndsEffect DEF Fine

\* Nobody has a reason to leave.
LEMMA NobodyLeaves ==
    ASSUME TypeOK, Handshaken, Fine, NEW e \in Ends
    PROVE  ~SocketFails(e) /\ ~EncryptFails(e)
<1>1. ~SocketFails(e)
  BY TurnsGoOn, EndsEffect DEF Fine, SocketFails
<1>2. ~EncryptFails(e)
  <2> SUFFICES ASSUME EncryptFails(e) PROVE FALSE
    OBVIOUS
  <2>1. noise[e] \in Sessions /\ noise[e].mode # "none" /\ ~IsFinished(noise[e])
    BY DEF TypeOK, Fine, Healthy, EncryptFails
  <2>2. noise[e].mode # "handshake"
    BY EstablishedTalks DEF EncryptFails, Talking, Established
  <2> QED BY <2>1, <2>2 DEF IsFinished, Sessions
<1> QED BY <1>1, <1>2

LEMMA FaultlessStep ==
    ASSUME TypeOK, TypeOK', Handshaken, \A e \in Ends : Direction(e), Faultless, Next
    PROVE  Faultless'
<1> USE TwoEnds
<1>1. hello' = hello /\ (fault => fault')
  BY DEF Next, Cut, Fault, Handshake, SendHello, ServerVersion, ClientVersion, ServerNoiseE,
     ClientNoise, ServerNoiseS, NoiseStep, Authenticate, AuthResponse, SkipAuth, AuthTimeout,
     SocketFails, Loop, SendFrame, EncryptFails, SendChunk, ReceiveFails, ReceiveChunk,
     ReceiveFrame, PingLost, PingBroken, HeartbeatDead, conn, TypeOK
<1> SUFFICES ASSUME hello = Protocol, ~fault, ~fault'
             PROVE  Fine'
  BY <1>1, FaultlessIsFine
<1>2. Fine
  BY FaultlessIsFine
<1>3. ~Cut /\ ~AuthTimeout
      /\ \A e \in Ends : ~PingLost(e) /\ ~PingBroken(e) /\ ~HeartbeatDead(e)
  BY DEF Cut, Fault, AuthTimeout, PingLost, PingBroken, HeartbeatDead
<1>4. ASSUME NEW n \in Sizes, Authenticate(n) \/ AuthResponse(n)
      PROVE  Fine'
  BY <1>2, <1>4, SendsAreFine
<1>5. CASE Handshake
  BY <1>2, <1>3, <1>4, <1>5, HelloIsFine, ServerVersionIsFine, ClientVersionIsFine,
     ServerNoiseEIsFine, ClientNoiseIsFine, ServerNoiseSIsFine, SkipAuthIsFine DEF Handshake
<1>6. ASSUME NEW e \in Ends, SocketFails(e) \/ Loop(e)
      PROVE  Fine'
  <2>1. ASSUME NEW n \in Sizes, SendFrame(e, n)
        PROVE  Fine'
    BY <1>2, <2>1, SendsAreFine
  <2>2. CASE SendChunk(e)
    BY <1>2, <2>2, ChunkIsFine
  <2>3. CASE ReceiveFails(e) \/ ReceiveChunk(e) \/ ReceiveFrame(e)
    BY <1>2, <2>3, ReceiveIsFine
  <2> QED BY <1>2, <1>3, <1>6, <2>1, <2>2, <2>3, NobodyLeaves DEF Loop
<1> QED BY <1>3, <1>5, <1>6 DEF Next

-----------------------------------------------------------------------------
(***************************************************************************)
(* The invariant.                                                          *)
(***************************************************************************)

LEMMA InvInit == Init => IInv
<1> USE TwoEnds
<1> SUFFICES ASSUME Init PROVE IInv
  OBVIOUS
<1>1. TypeOK
  BY InitTyped
<1>2. /\ pc["client"] = "Start" /\ pc["server"] = "Version" /\ up
      /\ noise["client"] = Session("initiator") /\ noise["server"] = Session("responder")
      /\ \A e \in Ends : /\ wire[e] = <<>> /\ unsent[e] = <<>> /\ acc[e] = Idle
                         /\ sent[e] = <<>> /\ got[e] = <<>>
  BY DEF Init
<1>3. \A e \in Ends : /\ noise[e].step = 0 /\ noise[e].mode = "handshake"
                      /\ noise[e].in = 0 /\ noise[e].out = 0
  BY <1>2 DEF Session
<1>4. Range(<<>>) = {} /\ Len(<<>>) = 0
  BY DEF Range
<1>5. Handshaken
  BY <1>2, <1>3 DEF Handshaken
<1>6. Announced
  BY <1>2, <1>4 DEF Announced
<1>7. LoggedIn
  BY <1>2, <1>4 DEF LoggedIn, HasId1
<1>8. \A e \in Ends : Direction(e)
  <2> SUFFICES ASSUME NEW e \in Ends PROVE Direction(e)
    OBVIOUS
  <2>1. /\ got[Other(e)] = <<>> /\ sent[e] = <<>> /\ acc[Other(e)] = Idle
        /\ noise[Other(e)].in = 0 /\ noise[e].out = 0
        /\ unsent[e] = <<>> /\ wire[Other(e)] = <<>>
    BY <1>2, <1>3, EndsEffect
  <2>2. InFlight(e) = {}
    BY <1>4, <2>1 DEF InFlight, Data
  <2>3. IsPrefix(<<>>, <<>>)
    <3>1. <<>> \in Seq(Frames)
      OBVIOUS
    <3>2. \A s \in Seq(Frames) : IsPrefix(s, s)
      BY PrefixProperties
    <3> QED BY <3>1, <3>2
  <2> QED BY <1>4, <2>1, <2>2, <2>3 DEF Direction, Numbered, Chained, Accumulated, CaughtUp
<1>9. Fine
  <2>1. Turns
    BY <1>2 DEF Turns
  <2>2. \A e \in Ends : Lead(e) = 0
    BY <1>2 DEF Lead
  <2>3. ASSUME NEW e \in Ends
        PROVE  Healthy(e)
    <3>1. /\ wire[Other(e)] = <<>> /\ Lead(Other(e)) = 0 /\ unsent[e] = <<>>
          /\ noise[Other(e)].in = 0 /\ noise[e].out = 0 /\ sent[e] = <<>>
          /\ noise[e].mode = "handshake"
      BY <1>2, <1>3, <2>2, EndsEffect
    <3> QED BY <1>4, <3>1 DEF Healthy, InStep
  <2> QED BY <1>2, <2>1, <2>3 DEF Fine
<1> QED BY <1>1, <1>5, <1>6, <1>7, <1>8, <1>9, Directions, FaultlessIsFine DEF IInv

LEMMA InvStep == IInv /\ [Next]_vars => IInv'
<1> SUFFICES ASSUME IInv, [Next]_vars PROVE IInv'
  OBVIOUS
<1>1. TypeOK /\ Handshaken /\ Announced /\ LoggedIn /\ Faultless
      /\ \A e \in Ends : Direction(e)
  BY Directions DEF IInv
<1>2. CASE Next
  <2>1. TypeOK'
    BY <1>1, <1>2, TypeStep
  <2>2. Handshaken' /\ Announced'
    BY <1>1, <1>2, <2>1, HandshakenStep
  <2>3. \A e \in Ends : Direction(e)'
    BY <1>1, <1>2, <2>1, DirectionStep
  <2>4. LoggedIn'
    BY <1>1, <1>2, <2>1, <2>3, LoginStep
  <2>5. Faultless'
    BY <1>1, <1>2, <2>1, FaultlessStep
  <2> QED BY <2>1, <2>2, <2>3, <2>4, <2>5, Directions DEF IInv
<1>3. CASE UNCHANGED vars
  <2>1. UNCHANGED <<hello, withAuth, pc, up, wire, noise, unsent, acc, waiting, sent, got,
                    faults, fault>>
    BY <1>3 DEF vars, conn
  <2>2. TypeOK' /\ Handshaken' /\ Announced' /\ LoggedIn'
    <3>1. TypeOK'
      BY <1>1, <2>1 DEF TypeOK
    <3>2. Handshaken'
      BY <1>1, <2>1 DEF Handshaken, Talking, Running
    <3>3. Announced'
      BY <1>1, <2>1 DEF Announced
    <3>4. LoggedIn'
      BY <1>1, <2>1 DEF LoggedIn
    <3> QED BY <3>1, <3>2, <3>3, <3>4
  <2>3. \A e \in Ends : Direction(e)'
    BY <1>1, <2>1 DEF Direction, Numbered, Chained, Accumulated, CaughtUp, InFlight, Sent, Ended
  <2>4. Faultless'
    BY <1>1, <2>1 DEF Faultless, Turns, InStep, Lead
  <2> QED BY <2>2, <2>3, <2>4, Directions DEF IInv
<1> QED BY <1>2, <1>3

\* The parts hold in every reachable state.
THEOREM IInvHolds == Spec => []IInv
  BY InvInit, InvStep, PTL DEF Spec

\* Every variable keeps its type: the nonces, the lengths in the accumulators and
\* the bytes that are on their way included.
THEOREM TypeCorrect == Spec => []TypeOK
<1>1. IInv => TypeOK
  BY DEF IInv
<1> QED BY <1>1, IInvHolds, PTL

\* read_message, feed and decode_frame give an end exactly the frames that
\* encode_frame and encrypt_chunked took from the other one, in their order.
THEOREM DeliveredHolds == Spec => []Delivered
<1>1. IInv => Delivered
  BY DEF IInv
<1> QED BY <1>1, IInvHolds, PTL

\* The client is online only when accept_ws_session let it in and, with
\* credentials, the application has read them and answered.
THEOREM OnlineIsAgreedHolds == Spec => []OnlineIsAgreed
<1>1. IInv => OnlineIsAgreed
  <2> SUFFICES ASSUME IInv, pc["client"] = "Online"
               PROVE  /\ hello = Protocol
                      /\ pc["server"] \notin {"Version", "NoiseE"}
                      /\ withAuth => HasId1(got["server"]) /\ HasId1(sent["server"])
    BY DEF OnlineIsAgreed
  <2>1. Handshaken /\ LoggedIn
    BY DEF IInv
  <2>2. noise["client"].step = 3
    BY <2>1 DEF Handshaken
  <2>3. noise["server"].step > 0
    BY <2>1, <2>2 DEF Handshaken
  <2>4. pc["server"] \notin {"Version", "NoiseE"}
    <3>1. Session("responder").step = 0
      BY DEF Session
    <3> QED BY <2>1, <2>3, <3>1 DEF Handshaken
  <2>5. hello = Protocol
    BY <2>1, <2>2 DEF Handshaken
  <2> QED BY <2>1, <2>4, <2>5 DEF LoggedIn
<1> QED BY <1>1, IInvHolds, PTL

\* As long as the socket holds, the heartbeat and the login get their answers, no
\* frame is too large and the protocols agree, neither end returns from its handshakes
\* or its message loop.
THEOREM NoSpuriousEndHolds == Spec => []NoSpuriousEnd
<1>1. IInv => NoSpuriousEnd
  BY TurnsGoOn DEF IInv, Faultless, NoSpuriousEnd
<1> QED BY <1>1, IInvHolds, PTL
=============================================================================
