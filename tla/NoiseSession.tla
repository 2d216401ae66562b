---------------------------- MODULE NoiseSession ----------------------------
(***************************************************************************)
(* One end of a Noise XX session (src/crypto.rs, struct NoiseSession over  *)
(* the snow library): three handshake messages, then transport messages    *)
(* with a counter per direction.  Keys and ciphertext are left out; a      *)
(* packet is what the receiver's snow checks about it.                     *)
(***************************************************************************)
EXTENDS Naturals, Sequences

\* NoiseSession::client and ::server: "initiator" and "responder".
Session(role) ==
    [mode |-> "handshake", role |-> role, step |-> 0, out |-> 0, in |-> 0]

Sessions ==
    [mode : {"handshake", "transport", "none"}, role : {"initiator", "responder"},
     step : 0..3, out : Nat, in : Nat]

IsFinished(s) == s.mode = "transport"

\* self.state.take() without a put: every later call is an InvalidState.
Taken(s) == [s EXCEPT !.mode = "none"]

\* XX: -> e, <- e ee s es, -> s se.
MyTurn(s)  == (s.step % 2 = 0) <=> (s.role = "initiator")
Advance(s) == [s EXCEPT !.step = @ + 1,
                        !.mode = IF s.step = 2 THEN "transport" ELSE "handshake"]

Packet(s, plain) ==
    IF s.mode = "handshake" THEN [step |-> s.step + 1, nonce |-> 0, plain |-> <<>>]
                            ELSE [step |-> 0, nonce |-> s.out, plain |-> plain]

CanWrite(s) == IsFinished(s) \/ (s.mode = "handshake" /\ MyTurn(s))

AfterWrite(s) ==
    IF ~CanWrite(s) THEN Taken(s)
    ELSE IF IsFinished(s) THEN [s EXCEPT !.out = @ + 1] ELSE Advance(s)

\* snow accepts the message whose turn it is and the packet it counts on.
CanRead(s, p) ==
    \/ s.mode = "handshake" /\ ~MyTurn(s) /\ p.step = s.step + 1
    \/ IsFinished(s) /\ p.step = 0 /\ p.nonce = s.in

AfterRead(s, p) ==
    IF ~CanRead(s, p) THEN Taken(s)
    ELSE IF IsFinished(s) THEN [s EXCEPT !.in = @ + 1] ELSE Advance(s)

\* encrypt_chunked: the packets of a sequence of chunks, and the session after.
EncryptChunked(s, chunks) ==
    [j \in 1..Len(chunks) |-> Packet([s EXCEPT !.out = @ + (j - 1)], chunks[j])]
AfterEncrypt(s, chunks) == [s EXCEPT !.out = @ + Len(chunks)]

=============================================================================
