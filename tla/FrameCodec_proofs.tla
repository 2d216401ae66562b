-------------------------- MODULE FrameCodec_proofs --------------------------
(***************************************************************************)
(* What encode_frame, the division into chunks, FrameAccumulator::feed and *)
(* decode_frame (src/frame.rs, src/crypto.rs) do to each other, for every  *)
(* length of a frame, a chunk, a prefix and a limit.                       *)
(***************************************************************************)
EXTENDS FrameCodec, SequenceTheorems, TLAPS

\* The smaller of two numbers.
LEMMA MinOfTwo ==
    ASSUME NEW a \in Int, NEW b \in Int
    PROVE  Min({a, b}) = IF a <= b THEN a ELSE b
<1>1. \E x \in {a, b} : \A y \in {a, b} : x <= y
  OBVIOUS
<1>2. Min({a, b}) \in {a, b} /\ \A y \in {a, b} : Min({a, b}) <= y
  BY <1>1 DEF Min
<1> QED BY <1>2

\* Rounding up: all chunks but the last are full.
LEMMA RoundedUp ==
    ASSUME NEW len \in Nat \ {0}, NEW m \in Nat \ {0}
    PROVE  LET n == (len + m - 1) \div m IN
           n \in Nat \ {0} /\ (n - 1) * m < len /\ len <= n * m
<1> DEFINE n == (len + m - 1) \div m
<1>1. n \in Int
  OBVIOUS
<1>2. n * m <= len + m - 1 /\ len + m - 1 < n * m + m
  OBVIOUS
<1> HIDE DEF n
<1>3. (n - 1) * m = n * m - m
  BY <1>1
<1>4. n * m \in Int
  BY <1>1
<1>5. (n - 1) * m < len /\ len <= n * m
  BY <1>2, <1>3, <1>4
<1>6. n > 0
  BY <1>1, <1>5
<1> QED BY <1>1, <1>5, <1>6 DEF n

LEMMA ProductsGrow ==
    ASSUME NEW a \in Nat, NEW b \in Nat, NEW m \in Nat, a <= b
    PROVE  a * m <= b * m /\ a * m \in Nat
  OBVIOUS

LEMMA PartOfSeq ==
    ASSUME NEW S, NEW s \in Seq(S), NEW m \in Nat \ {0}, NEW n \in Nat,
           m <= n + 1, n <= Len(s)
    PROVE  /\ SubSeq(s, m, n) \in Seq(S) /\ Len(SubSeq(s, m, n)) + m = n + 1
           /\ \A i \in 1..Len(SubSeq(s, m, n)) : SubSeq(s, m, n)[i] = s[m + i - 1]
  OBVIOUS

\* The bytes of a frame.
BytesOf(f) == {<<f, i>> : i \in 1..(LenBytes + f.size)}

LEMMA EncodeEffect ==
    ASSUME NEW f, f.size \in Nat
    PROVE  /\ Encode(f) \in Seq(BytesOf(f))
           /\ Len(Encode(f)) = LenBytes + f.size
           /\ \A i \in 1..(LenBytes + f.size) : Encode(f)[i] = <<f, i>>
  BY FrameCodecAssumption DEF Encode, BytesOf

\* A stretch of a frame's encoding.
LEMMA StretchEffect ==
    ASSUME NEW f, f.size \in Nat, NEW a \in Nat \ {0}, NEW b \in Nat,
           a <= b, b <= LenBytes + f.size, a = 1 => b >= LenBytes
    PROVE  LET c == SubSeq(Encode(f), a, b) IN
           /\ c \in Seq(BytesOf(f)) /\ c # <<>>
           /\ FrameOf(c) = f /\ FirstByte(c) = a /\ LastByte(c) = b
           /\ IsPiece(c)
           /\ EndsFrame(c) <=> b = LenBytes + f.size
<1> DEFINE c == SubSeq(Encode(f), a, b)
<1>1. /\ c \in Seq(BytesOf(f)) /\ Len(c) = b - a + 1
      /\ \A i \in 1..Len(c) : c[i] = <<f, a + i - 1>>
  <2>1. ASSUME NEW i \in a..b
        PROVE  Encode(f)[i] = <<f, i>> /\ Encode(f)[i] \in BytesOf(f)
    <3>1. i \in 1..(LenBytes + f.size)
      BY FrameCodecAssumption
    <3> QED BY <3>1, EncodeEffect DEF BytesOf
  <2> QED BY <2>1, SubSeqProperties
<1> HIDE DEF c
<1>2. c # <<>> /\ c[1] = <<f, a>>
  BY <1>1
<1>3. FrameOf(c) = f /\ FirstByte(c) = a /\ LastByte(c) = b
  BY <1>1, <1>2 DEF FrameOf, FirstByte, LastByte
<1> QED BY <1>1, <1>2, <1>3, FrameCodecAssumption DEF IsPiece, EndsFrame, c

\* The chunks of a frame are its pieces, one after the other.
LEMMA ChunksArePieces ==
    ASSUME NEW f, f.size \in Nat
    PROVE  LET cs == ChunksOfBytes(Encode(f))  n == Len(cs) IN
           /\ n \in Nat \ {0} /\ cs \in Seq(Seq(BytesOf(f)))
           /\ \A k \in 1..n : FrameOf(cs[k]) = f /\ IsPiece(cs[k])
           /\ \A k \in 1..n : EndsFrame(cs[k]) <=> k = n
           /\ FirstByte(cs[1]) = 1
           /\ \A k \in 1..n : k < n => FirstByte(cs[k + 1]) = LastByte(cs[k]) + 1
<1> DEFINE L  == LenBytes + f.size
           n  == (L + MaxChunk - 1) \div MaxChunk
           cs == ChunksOfBytes(Encode(f))
           Lo(k) == (k - 1) * MaxChunk + 1
           Hi(k) == IF k < n THEN k * MaxChunk ELSE L
<1>1. L \in Nat \ {0} /\ L >= LenBytes /\ MaxChunk \in Nat \ {0} /\ LenBytes \in Nat
  BY FrameCodecAssumption
<1>2. n \in Nat \ {0} /\ (n - 1) * MaxChunk < L /\ L <= n * MaxChunk
  BY <1>1, RoundedUp
<1>3. Len(Encode(f)) = L
  BY EncodeEffect
<1>4. cs = [k \in 1..n |-> SubSeq(Encode(f), Lo(k), Min({k * MaxChunk, L}))]
  BY <1>3 DEF ChunksOfBytes
<1> HIDE DEF L, n, cs
<1>5. ASSUME NEW k \in 1..n
      PROVE  /\ Lo(k) \in Nat \ {0} /\ Hi(k) \in Nat /\ Lo(k) <= Hi(k) /\ Hi(k) <= L
             /\ Lo(k) = 1 => Hi(k) >= LenBytes
             /\ Hi(k) = L <=> k = n
             /\ cs[k] = SubSeq(Encode(f), Lo(k), Hi(k))
             /\ k < n => Lo(k + 1) = Hi(k) + 1
  <2>1. (k - 1) * MaxChunk \in Nat /\ (k - 1) * MaxChunk < L
    BY <1>1, <1>2, ProductsGrow
  <2>2. k * MaxChunk = (k - 1) * MaxChunk + MaxChunk
    BY <1>1, <1>2
  <2>3. k < n => k * MaxChunk < L
    BY <1>1, <1>2, ProductsGrow
  <2>4. k = n => L <= k * MaxChunk
    BY <1>2
  <2>5. Min({k * MaxChunk, L}) = Hi(k)
    BY <1>1, <1>2, <2>1, <2>2, <2>3, <2>4, MinOfTwo
  <2>6. k < n => Lo(k + 1) = k * MaxChunk + 1
    BY <1>2
  <2>7. k = 1 => k * MaxChunk >= LenBytes
    BY FrameCodecAssumption
  <2>8. (k - 1) * MaxChunk = 0 => k = 1
    BY <1>1, <1>2
  <2>9. cs[k] = SubSeq(Encode(f), Lo(k), Hi(k))
    BY <1>4, <2>5
  <2>10. Lo(k) \in Nat \ {0} /\ Hi(k) \in Nat /\ Lo(k) <= Hi(k) /\ Hi(k) <= L
    BY <1>1, <1>2, <2>1, <2>2, <2>3
  <2>11. (Lo(k) = 1 => Hi(k) >= LenBytes) /\ (Hi(k) = L <=> k = n)
    BY <1>1, <1>2, <2>1, <2>3, <2>7, <2>8
  <2> QED BY <2>6, <2>9, <2>10, <2>11
<1>6. ASSUME NEW k \in 1..n
      PROVE  /\ cs[k] \in Seq(BytesOf(f))
             /\ FrameOf(cs[k]) = f /\ IsPiece(cs[k])
             /\ FirstByte(cs[k]) = Lo(k) /\ LastByte(cs[k]) = Hi(k)
             /\ EndsFrame(cs[k]) <=> k = n
  <2> DEFINE a == Lo(k)  b == Hi(k)
  <2>1. /\ a \in Nat \ {0} /\ b \in Nat /\ a <= b /\ b <= LenBytes + f.size
        /\ a = 1 => b >= LenBytes
        /\ b = LenBytes + f.size <=> k = n
    BY <1>5 DEF L
  <2>2. cs[k] = SubSeq(Encode(f), a, b)
    BY <1>5
  <2> HIDE DEF a, b
  <2>3. /\ cs[k] \in Seq(BytesOf(f))
        /\ FrameOf(cs[k]) = f /\ IsPiece(cs[k])
        /\ FirstByte(cs[k]) = a /\ LastByte(cs[k]) = b
        /\ EndsFrame(cs[k]) <=> k = n
    BY <2>1, <2>2, StretchEffect
  <2> QED BY <2>3 DEF a, b
<1>7. cs \in Seq(Seq(BytesOf(f))) /\ Len(cs) = n
  <2>1. cs = [k \in 1..n |-> cs[k]]
    BY <1>4
  <2>2. \A k \in 1..n : cs[k] \in Seq(BytesOf(f))
    BY <1>6
  <2> QED BY <1>2, <2>1, <2>2
<1>8. Lo(1) = 1
  BY <1>1
<1> QED BY <1>2, <1>5, <1>6, <1>7, <1>8 DEF cs

-----------------------------------------------------------------------------
(***************************************************************************)
(* FrameAccumulator::feed and decode_frame.                                *)
(***************************************************************************)

LEMMA Remainder ==
    ASSUME NEW a \in Nat, NEW m \in Nat \ {0}
    PROVE  a % m \in 0..(m - 1) /\ a % m <= a /\ (a < m => a % m = a)
  OBVIOUS

LEMMA DeclaredLenEffect ==
    ASSUME NEW f, f.size \in Nat
    PROVE  /\ DeclaredLen(f) \in 0..f.size /\ DeclaredLen(f) < LenRange
           /\ f.size < LenRange => DeclaredLen(f) = f.size
<1> DEFINE x == f.size
<1> HIDE DEF x
<1>1. x \in Nat /\ DeclaredLen(f) = x % LenRange /\ LenRange \in Nat \ {0}
  BY FrameCodecAssumption DEF DeclaredLen, x
<1>2. x % LenRange \in 0..(LenRange - 1) /\ x % LenRange <= x
      /\ (x < LenRange => x % LenRange = x)
  BY <1>1, Remainder
<1> QED BY <1>1, <1>2 DEF x

Accumulators(S) == [expected : 0..MaxBytes, buffer : Seq(S)]

\* What feed returns, whatever it is given.
LEMMA CloseFrameTyped ==
    ASSUME NEW S, NEW n \in Nat, NEW b \in Seq(S)
    PROVE  LET r == CloseFrame(n, b) IN
           /\ r.out # Error /\ r.out.status \in {"more", "frame"}
           /\ r.out.bytes \in Seq(S)
           /\ n <= MaxBytes => r.acc \in Accumulators(S)
           /\ r.out = More <=> Len(b) < n
           /\ r.out.status = "frame" <=> n <= Len(b)
           /\ Len(b) < n => r.acc = [expected |-> n, buffer |-> b]
           /\ n <= Len(b) => r.acc = Idle /\ r.out.bytes = SubSeq(b, 1, n)
<1> DEFINE r == CloseFrame(n, b)
<1>1. CASE Len(b) >= n
  <2>1. r = [acc |-> Idle, out |-> [status |-> "frame", bytes |-> SubSeq(b, 1, n)]]
    BY <1>1 DEF CloseFrame, Complete
  <2>2. SubSeq(b, 1, n) \in Seq(S)
    BY <1>1
  <2>3. Idle \in Accumulators(S)
    BY FrameCodecAssumption DEF Idle, Accumulators
  <2> HIDE DEF r
  <2>4. r.acc = Idle /\ r.out.status = "frame" /\ r.out.bytes = SubSeq(b, 1, n)
    BY <2>1
  <2>5. Error.status = "error" /\ More.status = "more"
    BY DEF Error, More
  <2>6. r.out # Error /\ r.out # More
    BY <2>4, <2>5
  <2>7. Len(b) \in Nat
    OBVIOUS
  <2> QED BY <1>1, <2>2, <2>3, <2>4, <2>6, <2>7 DEF r
<1>2. CASE ~(Len(b) >= n)
  <2>1. r = [acc |-> [expected |-> n, buffer |-> b], out |-> More]
    BY <1>2 DEF CloseFrame
  <2> HIDE DEF r
  <2>2. r.acc = [expected |-> n, buffer |-> b] /\ r.out = More
    BY <2>1
  <2>3. More # Error /\ More.status = "more" /\ More.bytes = <<>>
    BY DEF Error, More
  <2>4. n <= MaxBytes => r.acc \in Accumulators(S)
    BY <2>2, FrameCodecAssumption DEF Accumulators
  <2>5. <<>> \in Seq(S) /\ Len(b) \in Nat
    OBVIOUS
  <2> QED BY <1>2, <2>2, <2>3, <2>4, <2>5 DEF r
<1> QED BY <1>1, <1>2

LEMMA FeedTyped ==
    ASSUME NEW S, NEW a \in Accumulators(S), NEW c \in Seq(S),
           \A f : <<f, 1>> \in S => f.size \in Nat,
           c # <<>> => c[1] = <<FrameOf(c), FirstByte(c)>>,
           NEW r \in Feed(a, c), r.out # Error
    PROVE  /\ r.acc \in Accumulators(S)
           /\ r.out = More \/ (r.out.status = "frame" /\ r.out.bytes \in Seq(S))
<1>1. CASE a.expected = 0 /\ ~(Len(c) < LenBytes)
  <2>1. PICK n \in PrefixOf(c) :
          /\ ~(n > MaxBytes)
          /\ r = CloseFrame(n, SubSeq(c, LenBytes + 1, Len(c)))
    BY <1>1 DEF Feed
  <2>2. n \in Nat
    <3>1. CASE \A i \in 1..LenBytes : c[i] = <<c[1][1], i>>
      <4>1. c[1] = <<c[1][1], 1>> /\ c[1] \in S
        BY <1>1, <3>1, FrameCodecAssumption
      <4>2. n = DeclaredLen(c[1][1])
        BY <2>1, <3>1 DEF PrefixOf
      <4>3. c[1][1].size \in Nat
        BY <4>1
      <4> QED BY <4>2, <4>3, DeclaredLenEffect
    <3>2. CASE ~(\A i \in 1..LenBytes : c[i] = <<c[1][1], i>>)
      BY <2>1, <3>2, FrameCodecAssumption DEF PrefixOf
    <3> QED BY <3>1, <3>2
  <2>3. SubSeq(c, LenBytes + 1, Len(c)) \in Seq(S)
    BY <1>1, FrameCodecAssumption
  <2>4. n <= MaxBytes
    BY <2>1, <2>2, FrameCodecAssumption
  <2> DEFINE b == SubSeq(c, LenBytes + 1, Len(c))
  <2> HIDE DEF b
  <2>5. r = CloseFrame(n, b) /\ b \in Seq(S)
    BY <2>1, <2>3 DEF b
  <2>6. Len(b) \in Nat
    BY <2>5
  <2>7. LET q == CloseFrame(n, b) IN
        /\ q.acc \in Accumulators(S)
        /\ q.out.bytes \in Seq(S)
        /\ q.out = More <=> Len(b) < n
        /\ q.out.status = "frame" <=> n <= Len(b)
    BY <2>2, <2>4, <2>5, CloseFrameTyped
  <2> QED BY <2>2, <2>5, <2>6, <2>7
<1>2. CASE a.expected # 0
  <2>1. r = CloseFrame(a.expected, a.buffer \o c)
    BY <1>2 DEF Feed
  <2>2. a.expected \in 0..MaxBytes /\ a.buffer \in Seq(S)
    BY DEF Accumulators
  <2>3. a.buffer \o c \in Seq(S) /\ a.expected \in Nat /\ a.expected <= MaxBytes
    BY <2>2, FrameCodecAssumption
  <2> DEFINE n == a.expected  b == a.buffer \o c
  <2> HIDE DEF n, b
  <2>4. r = CloseFrame(n, b) /\ n \in Nat /\ n <= MaxBytes /\ b \in Seq(S)
    BY <2>1, <2>3 DEF n, b
  <2>5. Len(b) \in Nat
    BY <2>4
  <2>6. LET q == CloseFrame(n, b) IN
        /\ q.acc \in Accumulators(S)
        /\ q.out.bytes \in Seq(S)
        /\ q.out = More <=> Len(b) < n
        /\ q.out.status = "frame" <=> n <= Len(b)
    BY <2>4, CloseFrameTyped
  <2> QED BY <2>4, <2>5, <2>6
<1>3. CASE a.expected = 0 /\ Len(c) < LenBytes
  BY <1>3 DEF Feed
<1> QED BY <1>1, <1>2, <1>3

\* The accumulator is where chunk c goes on: before c it has read all of c's
\* frame up to c's first byte.
ReadyFor(a, c) ==
    \/ a = Idle /\ FirstByte(c) = 1
    \/ /\ HoldsPart(a, FrameOf(c))
       /\ FirstByte(c) = LenBytes + Len(a.buffer) + 1

\* The buffer holds the frame's bytes behind the prefix, up to the end of c.
Fed(S, f, c, r) ==
    /\ DeclaredLen(f) <= MaxBytes
    /\ \E b \in Seq(S) :
        /\ r = CloseFrame(DeclaredLen(f), b)
        /\ Len(b) + LenBytes = LastByte(c)
        /\ \A i \in 1..Len(b) : b[i] = <<f, LenBytes + i>>

\* What is fed are the frame's bytes behind the prefix, or the frame is too large.
LEMMA FeedPiece ==
    ASSUME NEW S, NEW a \in Accumulators(S), NEW c \in Seq(S), IsPiece(c),
           ReadyFor(a, c), NEW f, f = FrameOf(c), f.size \in Nat,
           FirstByte(c) \in Nat, NEW r \in Feed(a, c)
    PROVE  (r.out = Error /\ f.size > MaxBytes) \/ Fed(S, f, c, r)
<1>1. /\ Len(c) \in Nat \ {0} /\ LastByte(c) <= LenBytes + f.size
      /\ LastByte(c) = FirstByte(c) + Len(c) - 1
      /\ \A i \in 1..Len(c) : c[i] = <<f, FirstByte(c) + i - 1>>
  BY DEF IsPiece, LastByte, FirstByte, FrameOf
<1>2. DeclaredLen(f) \in 0..f.size
  BY DeclaredLenEffect
<1>3. LenBytes \in Nat \ {0} /\ MaxBytes \in Nat
  BY FrameCodecAssumption
<1>4. CASE a = Idle /\ FirstByte(c) = 1
  <2>1. LastByte(c) = Len(c) /\ Len(c) >= LenBytes
    BY <1>1, <1>4 DEF IsPiece
  <2>2. \A i \in 1..LenBytes : c[i] = <<f, i>>
    BY <1>1, <1>3, <1>4, <2>1
  <2>3. PrefixOf(c) = {DeclaredLen(f)}
    <3>1. c[1][1] = f
      BY DEF FrameOf
    <3> QED BY <2>2, <3>1 DEF PrefixOf
  <2> DEFINE n == DeclaredLen(f)  b == SubSeq(c, LenBytes + 1, Len(c))
  <2>4. a.expected = 0
    BY <1>4 DEF Idle
  <2>5. r = IF n > MaxBytes THEN [acc |-> [a EXCEPT !.expected = n], out |-> Error]
                            ELSE CloseFrame(n, b)
    BY <1>3, <2>1, <2>3, <2>4 DEF Feed
  <2>6. /\ b \in Seq(S) /\ Len(b) + LenBytes = Len(c)
        /\ \A i \in 1..Len(b) : b[i] = c[LenBytes + i]
    <3> DEFINE m == LenBytes + 1  k == Len(c)
    <3>1. m \in Nat \ {0} /\ k \in Nat /\ m <= k + 1 /\ k <= Len(c) /\ b = SubSeq(c, m, k)
      BY <1>1, <1>3, <2>1
    <3> HIDE DEF b, m, k
    <3>2. /\ b \in Seq(S) /\ Len(b) + m = k + 1
          /\ \A i \in 1..Len(b) : b[i] = c[m + i - 1]
      BY <3>1, PartOfSeq
    <3>3. \A i \in 1..Len(b) : m + i - 1 = LenBytes + i
      BY <1>3, <3>2 DEF m
    <3> QED BY <1>3, <3>1, <3>2, <3>3 DEF m, k
  <2> HIDE DEF b
  <2>7. \A i \in 1..Len(b) : b[i] = <<f, LenBytes + i>>
    <3> SUFFICES ASSUME NEW i \in 1..Len(b) PROVE b[i] = <<f, LenBytes + i>>
      OBVIOUS
    <3>1. LenBytes + i \in 1..Len(c) /\ FirstByte(c) + (LenBytes + i) - 1 = LenBytes + i
      BY <1>1, <1>3, <1>4, <2>6
    <3> QED BY <1>1, <2>6, <3>1
  <2>8. CASE n > MaxBytes
    <3>1. r.out = Error
      BY <2>5, <2>8
    <3> QED BY <1>2, <1>3, <2>8, <3>1
  <2>9. CASE ~(n > MaxBytes)
    <3>1. r = CloseFrame(n, b) /\ n <= MaxBytes
      BY <1>2, <1>3, <2>5, <2>9
    <3> QED BY <2>1, <2>6, <2>7, <3>1 DEF Fed
  <2> QED BY <2>8, <2>9
<1>5. CASE HoldsPart(a, f) /\ FirstByte(c) = LenBytes + Len(a.buffer) + 1
  <2> DEFINE n == DeclaredLen(f)  b == a.buffer \o c
  <2>1. /\ a.expected = n /\ Len(a.buffer) < n
        /\ \A i \in 1..Len(a.buffer) : a.buffer[i] = <<f, LenBytes + i>>
    BY <1>5 DEF HoldsPart
  <2>2. a.buffer \in Seq(S) /\ Len(a.buffer) \in Nat /\ a.expected \in 0..MaxBytes
    BY DEF Accumulators
  <2>3. /\ b \in Seq(S) /\ Len(b) = Len(a.buffer) + Len(c)
        /\ \A i \in 1..Len(b) : b[i] = IF i <= Len(a.buffer) THEN a.buffer[i]
                                                           ELSE c[i - Len(a.buffer)]
    BY <2>2, ConcatProperties
  <2>4. r = IF Len(b) > MaxBytes THEN [acc |-> [a EXCEPT !.buffer = b], out |-> Error]
                                 ELSE CloseFrame(n, b)
    BY <1>2, <2>1, <2>2 DEF Feed
  <2> HIDE DEF b
  <2>5. \A i \in 1..Len(b) : b[i] = <<f, LenBytes + i>>
    <3> SUFFICES ASSUME NEW i \in 1..Len(b) PROVE b[i] = <<f, LenBytes + i>>
      OBVIOUS
    <3> DEFINE la == Len(a.buffer)  lc == Len(c)  fb == FirstByte(c)  j == i - la
    <3>1. /\ la \in Nat /\ lc \in Nat /\ fb = LenBytes + la + 1 /\ i \in 1..(la + lc)
          /\ b[i] = IF i <= la THEN a.buffer[i] ELSE c[j]
      BY <1>1, <1>5, <2>2, <2>3
    <3> HIDE DEF la, lc, fb, j
    <3>2. CASE i <= la
      BY <2>1, <3>1, <3>2 DEF la
    <3>3. CASE ~(i <= la)
      <4>1. j \in 1..lc /\ fb + j - 1 = LenBytes + i
        BY <1>3, <3>1, <3>3 DEF j
      <4>2. c[j] = <<f, fb + j - 1>>
        BY <1>1, <4>1 DEF lc, fb
      <4> QED BY <3>1, <3>3, <4>1, <4>2
    <3> QED BY <3>2, <3>3
  <2>6. Len(b) + LenBytes = LastByte(c) /\ Len(b) <= f.size
    BY <1>1, <1>3, <1>5, <2>2, <2>3
  <2>7. CASE Len(b) > MaxBytes
    <3>1. r.out = Error
      BY <2>4, <2>7
    <3>2. Len(b) \in Nat
      BY <2>3
    <3> QED BY <1>3, <2>6, <2>7, <3>1, <3>2
  <2>8. CASE ~(Len(b) > MaxBytes)
    <3>1. r = CloseFrame(n, b) /\ n <= MaxBytes
      BY <2>1, <2>2, <2>4, <2>8
    <3> QED BY <2>3, <2>5, <2>6, <3>1 DEF Fed
  <2> QED BY <2>7, <2>8
<1> QED BY <1>4, <1>5 DEF ReadyFor

\* Decoding the beginning of a frame's payload.
LEMMA DecodePart ==
    ASSUME NEW S, NEW b \in Seq(S), NEW f, f.size \in Nat \ {0},
           \A i \in 1..Len(b) : b[i] = <<f, LenBytes + i>>, Len(b) <= f.size
    PROVE  Decode(b) = IF Len(b) = f.size THEN f ELSE NoFrame
<1>1. CASE b = <<>>
  BY <1>1 DEF Decode
<1>2. CASE b # <<>>
  <2>1. Len(b) \in Nat \ {0}
    BY <1>2
  <2>2. b[1][1] = f
    BY <2>1
  <2>3. Min({Len(b), f.size}) = Len(b)
    BY <2>1, MinOfTwo
  <2>4. ~\E i \in 1..Min({Len(b), f.size}) : b[i] # <<f, LenBytes + i>>
    BY <2>3
  <2>5. Decode(b) = IF Len(b) >= f.size THEN f ELSE NoFrame
    BY <1>2, <2>2, <2>4 DEF Decode
  <2> QED BY <2>1, <2>5
<1> QED BY <1>1, <1>2

\* A whole frame comes out of its chunks as it went in, exactly after its last
\* chunk; none comes out of less, and a frame within the limits is never refused.
THEOREM ReadPiece ==
    ASSUME NEW S, NEW a \in Accumulators(S), NEW c \in Seq(S), IsPiece(c),
           ReadyFor(a, c), NEW f, f = FrameOf(c), f.size \in Nat \ {0},
           FirstByte(c) \in Nat, NEW r \in Feed(a, c)
    PROVE  /\ r.out = More =>
                /\ ~EndsFrame(c) /\ HoldsPart(r.acc, f)
                /\ r.acc # Idle /\ BytesRead(r.acc) = LastByte(c)
           /\ r.out.status = "frame" =>
                /\ r.acc = Idle
                /\ Decode(r.out.bytes) # NoFrame =>
                        EndsFrame(c) /\ Decode(r.out.bytes) = f
           /\ f.size <= MaxBytes /\ f.size < LenRange =>
                /\ r.out = More \/ r.out.status = "frame"
                /\ r.out.status = "frame" => Decode(r.out.bytes) # NoFrame
<1>1. Error # More /\ Error.status # "frame" /\ More.status # "frame"
  BY DEF Error, More
<1>2. CASE r.out = Error /\ f.size > MaxBytes
  BY <1>1, <1>2, FrameCodecAssumption
<1>3. CASE Fed(S, f, c, r)
  <2> DEFINE n == DeclaredLen(f)
  <2>1. PICK b \in Seq(S) : /\ r = CloseFrame(n, b)
                            /\ Len(b) + LenBytes = LastByte(c)
                            /\ \A i \in 1..Len(b) : b[i] = <<f, LenBytes + i>>
    BY <1>3 DEF Fed
  <2>2. /\ n \in 0..f.size /\ (f.size < LenRange => n = f.size)
        /\ LenBytes \in Nat /\ Len(b) \in Nat
    BY DeclaredLenEffect, FrameCodecAssumption
  <2> HIDE DEF n
  <2>3. LET q == CloseFrame(n, b) IN
        /\ q.out = More <=> Len(b) < n
        /\ q.out.status = "frame" <=> n <= Len(b)
        /\ Len(b) < n => q.acc = [expected |-> n, buffer |-> b]
        /\ n <= Len(b) => q.acc = Idle /\ q.out.bytes = SubSeq(b, 1, n)
    BY <2>2, CloseFrameTyped
  <2>4. Len(b) <= f.size /\ (EndsFrame(c) <=> Len(b) = f.size)
    <3>1. LastByte(c) <= LenBytes + f.size
      BY DEF IsPiece
    <3>2. EndsFrame(c) <=> LastByte(c) = LenBytes + f.size
      BY DEF EndsFrame
    <3> QED BY <2>1, <2>2, <3>1, <3>2
  <2>5. CASE Len(b) < n
    <3>1. r.out = More /\ r.acc = [expected |-> n, buffer |-> b]
      BY <2>1, <2>3, <2>5
    <3>2. HoldsPart(r.acc, f)
      BY <2>1, <2>5, <3>1 DEF HoldsPart, n
    <3>3. r.acc.expected = n /\ Idle.expected = 0 /\ n # 0
      BY <2>2, <2>5, <3>1 DEF Idle
    <3>4. BytesRead(r.acc) = LastByte(c)
      BY <2>1, <2>2, <3>1, <3>3 DEF BytesRead
    <3>5. ~EndsFrame(c)
      BY <2>2, <2>4, <2>5
    <3> QED BY <1>1, <3>1, <3>2, <3>3, <3>4, <3>5
  <2>6. CASE n <= Len(b)
    <3> DEFINE d == SubSeq(b, 1, n)
    <3>1. r.out.status = "frame" /\ r.acc = Idle /\ r.out.bytes = d
      BY <2>1, <2>3, <2>6
    <3>2. d \in Seq(S) /\ Len(d) = n /\ \A i \in 1..Len(d) : d[i] = <<f, LenBytes + i>>
      <4>1. n \in Nat /\ n <= Len(b)
        BY <2>2, <2>6
      <4>2. /\ d \in Seq(S) /\ Len(d) + 1 = n + 1
            /\ \A i \in 1..Len(d) : d[i] = b[1 + i - 1]
        BY <4>1, PartOfSeq
      <4> HIDE DEF d
      <4>3. Len(d) = n
        BY <4>1, <4>2
      <4>4. ASSUME NEW i \in 1..Len(d)
            PROVE  d[i] = <<f, LenBytes + i>>
        <5>1. i \in 1..Len(b) /\ 1 + i - 1 = i
          BY <2>2, <4>1, <4>3
        <5> QED BY <2>1, <4>2, <5>1
      <4> QED BY <4>2, <4>3, <4>4
    <3> HIDE DEF d
    <3>3. Decode(d) = IF Len(d) = f.size THEN f ELSE NoFrame
      BY <2>2, <3>2, DecodePart
    <3>4. f # NoFrame
      BY DEF NoFrame
    <3>5. n = f.size => EndsFrame(c)
      BY <2>2, <2>4, <2>6
    <3> QED BY <1>1, <2>2, <3>1, <3>2, <3>3, <3>4, <3>5
  <2> QED BY <2>2, <2>5, <2>6
<1>4. f.size \in Nat
  OBVIOUS
<1>5. (r.out = Error /\ f.size > MaxBytes) \/ Fed(S, f, c, r)
  BY <1>4, FeedPiece
<1> QED BY <1>2, <1>3, <1>5
=============================================================================
