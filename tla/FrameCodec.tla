----------------------------- MODULE FrameCodec -----------------------------
(***************************************************************************)
(* From frames to chunks and back: encode_frame, decode_frame and          *)
(* FrameAccumulator (src/frame.rs), and the division into chunks of        *)
(* encrypt_chunked (src/crypto.rs).                                        *)
(*                                                                         *)
(* A frame is known by its number, its id and the size of its postcard     *)
(* encoding.  The i-th byte of its encoding is <<frame, i>>, so bytes that *)
(* are lost, repeated or mixed up show.                                    *)
(***************************************************************************)
EXTENDS Naturals, Sequences, FiniteSetsExt

CONSTANTS
    LenBytes,       \* bytes of the length prefix: 4
    LenRange,       \* values of the length prefix: 2^32
    MaxChunk,       \* MAX_CHUNK_PLAIN
    MaxBytes        \* config.max_payload_bytes

ASSUME FrameCodecAssumption ==
    /\ LenBytes \in Nat \ {0} /\ LenRange \in Nat \ {0}
    /\ MaxBytes \in Nat
    /\ MaxChunk \in Nat /\ MaxChunk >= LenBytes

\* Mutant: the chunks leave out the remainder.
ChunksOfBytesRounded(b) ==
    [j \in 1..(Len(b) \div MaxChunk) |->
        SubSeq(b, (j - 1) * MaxChunk + 1, j * MaxChunk)]

\* payload.chunks(MAX_CHUNK_PLAIN)
ChunksOfBytes(b) ==
    [j \in 1..((Len(b) + MaxChunk - 1) \div MaxChunk) |->
        SubSeq(b, (j - 1) * MaxChunk + 1, Min({j * MaxChunk, Len(b)}))]

\* encode_frame: a prefix, then the payload; `payload.len() as u32` truncates.
Encode(f)        == [i \in 1..(LenBytes + f.size) |-> <<f, i>>]
DeclaredLen(f)   == f.size % LenRange

\* What the first bytes of a chunk say: nobody knows, when they are no prefix.
PrefixOf(chunk) ==
    LET f == chunk[1][1] IN
    IF \A i \in 1..LenBytes : chunk[i] = <<f, i>> THEN {DeclaredLen(f)}
                                                  ELSE 0..(LenRange - 1)

\* FrameAccumulator; expected 0 means that no frame is under way.
Idle == [expected |-> 0, buffer |-> <<>>]

More         == [status |-> "more", bytes |-> <<>>]
Complete(b)  == [status |-> "frame", bytes |-> b]
Error        == [status |-> "error", bytes |-> <<>>]


CloseFrame(expected, buffer) ==
    IF Len(buffer) >= expected
    THEN [acc |-> Idle, out |-> Complete(SubSeq(buffer, 1, expected))]
    ELSE [acc |-> [expected |-> expected, buffer |-> buffer], out |-> More]

\* Mutant: no limit.
FeedUnlimited(acc, chunk) ==
    IF acc.expected = 0
    THEN { CloseFrame(n, SubSeq(chunk, LenBytes + 1, Len(chunk))) : n \in PrefixOf(chunk) }
    ELSE { CloseFrame(acc.expected, acc.buffer \o chunk) }

\* The results that feed(chunk, max_bytes) may have.
Feed(acc, chunk) ==
    IF acc.expected = 0
    THEN IF Len(chunk) < LenBytes
         THEN {[acc |-> acc, out |-> Error]}
         ELSE { IF n > MaxBytes
                THEN [acc |-> [acc EXCEPT !.expected = n], out |-> Error]
                ELSE CloseFrame(n, SubSeq(chunk, LenBytes + 1, Len(chunk)))
                : n \in PrefixOf(chunk) }
    ELSE LET buffer == acc.buffer \o chunk IN
         { IF Len(buffer) > MaxBytes
           THEN [acc |-> [acc EXCEPT !.buffer = buffer], out |-> Error]
           ELSE CloseFrame(acc.expected, buffer) }

\* decode_frame: postcard stops after the frame and fails on a truncated one.
\* Bytes that no single encoding explains pass for a frame nobody sent.
NoFrame == [no |-> 0, id |-> 0, size |-> 0]
Garbage == [no |-> 0, id |-> 1, size |-> 0]

\* Mutant: a truncated frame is padded.
DecodeTruncated(bytes) ==
    IF bytes = <<>> THEN NoFrame ELSE
    IF Len(bytes) >= bytes[1][1].size THEN bytes[1][1] ELSE Garbage

Decode(bytes) ==
    IF bytes = <<>> THEN NoFrame ELSE
    LET f == bytes[1][1] IN
    IF \E i \in 1..Min({Len(bytes), f.size}) : bytes[i] # <<f, LenBytes + i>>
    THEN Garbage
    ELSE IF Len(bytes) >= f.size THEN f ELSE NoFrame

-----------------------------------------------------------------------------
(***************************************************************************)
(* Where a chunk lies in the encoding of its frame.                        *)
(***************************************************************************)

FrameOf(c)   == c[1][1]
FirstByte(c) == c[1][2]
LastByte(c)  == c[1][2] + Len(c) - 1
EndsFrame(c) == LastByte(c) = LenBytes + FrameOf(c).size

\* Successive bytes of one frame; the first chunk has the whole prefix.
IsPiece(c) ==
    /\ c # <<>>
    /\ \A i \in 1..Len(c) : c[i] = <<FrameOf(c), FirstByte(c) + i - 1>>
    /\ LastByte(c) <= LenBytes + FrameOf(c).size
    /\ FirstByte(c) = 1 => LastByte(c) >= LenBytes

\* Chunk d comes after chunk c: of the same frame or of the next one.
Follows(d, c) ==
    IF EndsFrame(c) THEN FrameOf(d).no = FrameOf(c).no + 1 /\ FirstByte(d) = 1
                    ELSE FrameOf(d) = FrameOf(c) /\ FirstByte(d) = LastByte(c) + 1

\* The accumulator is waiting for the rest of f.
HoldsPart(acc, f) ==
    /\ acc.expected = DeclaredLen(f) /\ Len(acc.buffer) < acc.expected
    /\ \A i \in 1..Len(acc.buffer) : acc.buffer[i] = <<f, LenBytes + i>>

BytesRead(acc) == IF acc = Idle THEN 0 ELSE LenBytes + Len(acc.buffer)

=============================================================================
