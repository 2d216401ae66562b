---------------------------- MODULE HttpSse_proofs ----------------------------
(***************************************************************************)
(* Theorems about HttpSse, for all events and any number of subscriptions, *)
(* connections and broadcasts.                                             *)
(*                                                                         *)
(* The parser reads a text piece by piece, so most lemmas about it are     *)
(* inductions over a text.  They are done with sets: the texts for which   *)
(* something holds contain the empty one and with a text each longer one,  *)
(* and so are all texts.                                                   *)
(***************************************************************************)
EXTENDS HttpSse, WellFoundedInduction, TLAPS

-----------------------------------------------------------------------------
(***************************************************************************)
(* Induction.                                                              *)
(***************************************************************************)

LEMMA LeastNumber ==
    ASSUME NEW T, T \subseteq Nat, T # {}
    PROVE  \E x \in T : \A y \in T : x <= y
<1>1. \E x \in T : \A y \in T : <<y, x>> \notin OpToRel(<, Nat)
  BY NatLessThanWellFounded, WFMin
<1>2. PICK x \in T : \A y \in T : <<y, x>> \notin OpToRel(<, Nat)
  BY <1>1
<1>3. \A y \in T : ~(y < x)
  BY <1>2 DEF OpToRel
<1> QED BY <1>3

LEMMA NumberInduction ==
    ASSUME NEW m \in Nat, NEW Good, 0 \in Good,
           \A n \in 0..m : n + 1 <= m /\ n \in Good => n + 1 \in Good
    PROVE  0..m \subseteq Good
<1> DEFINE T == (0..m) \ Good
<1>1. T = {}
  <2> SUFFICES ASSUME T # {} PROVE FALSE
    OBVIOUS
  <2>0. T \subseteq Nat
    OBVIOUS
  <2>1. PICK x \in T : \A y \in T : x <= y
    <3> HIDE DEF T
    <3> QED BY <2>0, LeastNumber
  <2>2. x \in 0..m /\ x \notin Good /\ x # 0
    BY <2>1
  <2>3. x - 1 \in 0..m /\ x - 1 \notin T
    BY <2>1, <2>2
  <2>4. x - 1 \in Good /\ (x - 1) + 1 = x /\ x <= m
    BY <2>2, <2>3
  <2> QED BY <2>2, <2>3, <2>4
<1> QED BY <1>1

LEMMA SequenceInduction ==
    ASSUME NEW A, NEW Good, <<>> \in Good,
           \A t \in Seq(A) : \A x \in A : t \in Good => Append(t, x) \in Good
    PROVE  Seq(A) \subseteq Good
<1> SUFFICES ASSUME NEW s \in Seq(A) PROVE s \in Good
  OBVIOUS
<1> DEFINE N == {n \in 0..Len(s) : SubSeq(s, 1, n) \in Good}
<1>1. 0 \in N
  <2>1. SubSeq(s, 1, 0) = <<>>
    OBVIOUS
  <2>2. SubSeq(s, 1, 0) \in Good
    BY <2>1, Zenon
  <2>3. 0 \in 0..Len(s)
    OBVIOUS
  <2> QED BY <2>2, <2>3, Zenon
<1>2. ASSUME NEW n \in 0..Len(s), n + 1 <= Len(s), n \in N
      PROVE  n + 1 \in N
  <2> DEFINE t == SubSeq(s, 1, n)
  <2>1. t \in Seq(A) /\ Len(t) = n /\ s[n + 1] \in A
    BY <1>2
  <2>2. Append(t, s[n + 1]) = SubSeq(s, 1, n + 1)
    BY <1>2, <2>1
  <2>3. Append(t, s[n + 1]) \in Good
    BY <1>2, <2>1
  <2>4. SubSeq(s, 1, n + 1) \in Good
    BY <2>2, <2>3, Zenon
  <2>5. n + 1 \in 0..Len(s)
    BY <1>2
  <2> QED BY <2>4, <2>5, Zenon
<1>3. 0..Len(s) \subseteq N
  <2>1. Len(s) \in Nat
    OBVIOUS
  <2> HIDE DEF N
  <2> QED BY <1>1, <1>2, <2>1, NumberInduction
<1>4. Len(s) \in N /\ SubSeq(s, 1, Len(s)) = s
  BY <1>3
<1> QED BY <1>4

-----------------------------------------------------------------------------
(***************************************************************************)
(* The parser, piece by piece.                                             *)
(***************************************************************************)

\* f holds the states of the parser on its way through a text.
Run(p, t, m, f) == f = [n \in 0..m |-> IF n = 0 THEN p ELSE TakePiece(f[n - 1], t[n])]

LEMMA RunStep ==
    ASSUME NEW p, NEW t, NEW m \in Nat, NEW f, Run(p, t, m, f)
    PROVE  /\ f[0] = p
           /\ \A n \in 1..m : f[n] = TakePiece(f[n - 1], t[n])
<1> DEFINE F(n) == IF n = 0 THEN p ELSE TakePiece(f[n - 1], t[n])
<1>1. f = [n \in 0..m |-> F(n)]
  BY DEF Run
<1>2. \A n \in 0..m : f[n] = F(n)
  <2> HIDE DEF F
  <2> QED BY <1>1
<1> QED BY <1>2

LEMMA RunExists ==
    ASSUME NEW p, NEW t, NEW m \in Nat
    PROVE  \E f : Run(p, t, m, f)
<1> DEFINE Good == {n \in 0..m : \E f : Run(p, t, n, f)}
<1>1. 0 \in Good
  <2> DEFINE f == [n \in 0..0 |-> p]
             F(n) == IF n = 0 THEN p ELSE TakePiece(f[n - 1], t[n])
  <2>1. \A n \in 0..0 : F(n) = p
    OBVIOUS
  <2>2. f = [n \in 0..0 |-> F(n)]
    <3> HIDE DEF F
    <3> QED BY <2>1
  <2>3. Run(p, t, 0, f)
    BY <2>2 DEF Run
  <2> QED BY <2>3
<1>2. ASSUME NEW k \in 0..m, k + 1 <= m, k \in Good
      PROVE  k + 1 \in Good
  <2>1. PICK f : Run(p, t, k, f)
    BY <1>2
  <2> DEFINE g == [n \in 0..(k + 1) |->
                        IF n = k + 1 THEN TakePiece(f[k], t[k + 1]) ELSE f[n]]
             F(n) == IF n = 0 THEN p ELSE TakePiece(g[n - 1], t[n])
  <2>2. /\ f[0] = p
        /\ \A n \in 1..k : f[n] = TakePiece(f[n - 1], t[n])
    BY <2>1, RunStep
  <2>3. ASSUME NEW n \in 0..(k + 1) PROVE g[n] = F(n)
    <3>1. CASE n = k + 1
      <4>1. g[n - 1] = f[k] /\ n # 0
        BY <3>1
      <4> QED BY <3>1, <4>1
    <3>2. CASE n # k + 1 /\ n # 0
      <4>1. n \in 1..k /\ g[n] = f[n] /\ g[n - 1] = f[n - 1]
        BY <3>2
      <4> QED BY <2>2, <3>2, <4>1
    <3>3. CASE n = 0
      BY <2>2, <3>3
    <3> QED BY <3>1, <3>2, <3>3
  <2>4. g = [n \in 0..(k + 1) |-> F(n)]
    <3> HIDE DEF F
    <3> QED BY <2>3
  <2>5. Run(p, t, k + 1, g)
    BY <2>4 DEF Run
  <2>6. k + 1 \in 0..m
    BY <1>2
  <2> QED BY <2>5, <2>6
<1>3. m \in Good
  <2> HIDE DEF Good
  <2> QED BY <1>1, <1>2, NumberInduction
<1> QED BY <1>3

\* Two runs over texts that begin alike agree as far as the texts do.
LEMMA RunUnique ==
    ASSUME NEW p, NEW t, NEW u, NEW m \in Nat, NEW k \in Nat, m <= k,
           \A n \in 1..m : t[n] = u[n],
           NEW f, Run(p, t, m, f), NEW g, Run(p, u, k, g)
    PROVE  f[m] = g[m]
<1> DEFINE Good == {n \in 0..m : f[n] = g[n]}
<1>0. /\ f[0] = p /\ g[0] = p
      /\ \A n \in 1..m : f[n] = TakePiece(f[n - 1], t[n])
      /\ \A n \in 1..k : g[n] = TakePiece(g[n - 1], u[n])
  BY RunStep
<1>1. 0 \in Good
  BY <1>0
<1>2. ASSUME NEW n \in 0..m, n + 1 <= m, n \in Good
      PROVE  n + 1 \in Good
  <2>1. n + 1 \in 1..m /\ n + 1 \in 1..k /\ (n + 1) - 1 = n /\ f[n] = g[n]
    BY <1>2
  <2>2. f[n + 1] = TakePiece(f[n], t[n + 1]) /\ g[n + 1] = TakePiece(g[n], u[n + 1])
    BY <1>0, <2>1
  <2>3. t[n + 1] = u[n + 1] /\ n + 1 \in 0..m
    BY <2>1
  <2> QED BY <2>1, <2>2, <2>3
<1>3. m \in Good
  <2> HIDE DEF Good
  <2> QED BY <1>1, <1>2, NumberInduction
<1> QED BY <1>3

LEMMA TakeTextRuns ==
    ASSUME NEW p, NEW A, NEW t \in Seq(A)
    PROVE  \E f : Run(p, t, Len(t), f) /\ TakeText(p, t) = f[Len(t)]
<1> DEFINE h == CHOOSE f : Run(p, t, Len(t), f)
<1>1. Len(t) \in Nat
  OBVIOUS
<1>2. Run(p, t, Len(t), h)
  BY <1>1, RunExists
<1>3. TakeText(p, t) = h[Len(t)]
  BY DEF TakeText, Run
<1> QED BY <1>2, <1>3

\* Reading a text and then one more piece.
LEMMA TakeTextAppend ==
    ASSUME NEW p, NEW A, NEW t \in Seq(A), NEW x \in A
    PROVE  TakeText(p, Append(t, x)) = TakePiece(TakeText(p, t), x)
<1> DEFINE u == Append(t, x)
           m == Len(t)
<1>1. /\ m \in Nat /\ u \in Seq(A) /\ Len(u) = m + 1 /\ u[m + 1] = x
      /\ \A n \in 1..m : t[n] = u[n]
  OBVIOUS
<1> HIDE DEF u, m
<1>2. PICK f : Run(p, t, m, f) /\ TakeText(p, t) = f[m]
  BY TakeTextRuns DEF m
<1>3. PICK g : Run(p, u, m + 1, g) /\ TakeText(p, u) = g[m + 1]
  BY <1>1, TakeTextRuns
<1>4. f[m] = g[m]
  <2>1. m + 1 \in Nat /\ m <= m + 1
    BY <1>1
  <2> QED BY <1>1, <1>2, <1>3, <2>1, RunUnique
<1>5. g[m + 1] = TakePiece(g[m], u[m + 1])
  <2>1. m + 1 \in Nat /\ m + 1 \in 1..(m + 1) /\ (m + 1) - 1 = m
    BY <1>1
  <2>2. \A n \in 1..(m + 1) : g[n] = TakePiece(g[n - 1], u[n])
    BY <1>3, <2>1, RunStep
  <2> QED BY <2>1, <2>2
<1> QED BY <1>1, <1>2, <1>3, <1>4, <1>5 DEF u

LEMMA TakeTextEmpty ==
    ASSUME NEW p
    PROVE  TakeText(p, <<>>) = p
<1> DEFINE e == <<>>
<1>1. e \in Seq(Pieces) /\ Len(e) = 0
  OBVIOUS
<1> HIDE DEF e
<1>2. PICK f : Run(p, e, Len(e), f) /\ TakeText(p, e) = f[Len(e)]
  BY <1>1, TakeTextRuns
<1>3. f[0] = p
  <2>1. 0 \in Nat /\ Run(p, e, 0, f)
    BY <1>1, <1>2
  <2> QED BY <2>1, RunStep, Zenon
<1> QED BY <1>1, <1>2, <1>3 DEF e

-----------------------------------------------------------------------------
(***************************************************************************)
(* FlattenSeq, the same way.                                               *)
(***************************************************************************)

Joins(ss, m, f) == f = [i \in 1..m |-> IF i = 1 THEN ss[i] ELSE f[i - 1] \o ss[i]]

LEMMA JoinsStep ==
    ASSUME NEW ss, NEW m \in Nat, NEW f, Joins(ss, m, f)
    PROVE  \A i \in 1..m : f[i] = IF i = 1 THEN ss[i] ELSE f[i - 1] \o ss[i]
<1> DEFINE F(i) == IF i = 1 THEN ss[i] ELSE f[i - 1] \o ss[i]
<1>1. f = [i \in 1..m |-> F(i)]
  BY DEF Joins
<1>2. \A i \in 1..m : f[i] = F(i)
  <2> HIDE DEF F
  <2> QED BY <1>1
<1> QED BY <1>2

LEMMA JoinsExists ==
    ASSUME NEW ss, NEW m \in Nat
    PROVE  \E f : Joins(ss, m, f)
<1> DEFINE Good == {n \in 0..m : \E f : Joins(ss, n, f)}
<1>1. 0 \in Good
  <2> DEFINE f == [i \in 1..0 |-> <<>>]
             F(i) == IF i = 1 THEN ss[i] ELSE f[i - 1] \o ss[i]
  <2>1. f = [i \in 1..0 |-> F(i)]
    <3> HIDE DEF F
    <3> QED OBVIOUS
  <2>2. Joins(ss, 0, f)
    BY <2>1 DEF Joins
  <2> QED BY <2>2
<1>2. ASSUME NEW k \in 0..m, k + 1 <= m, k \in Good
      PROVE  k + 1 \in Good
  <2>1. PICK f : Joins(ss, k, f)
    BY <1>2
  <2> DEFINE last == IF k + 1 = 1 THEN ss[k + 1] ELSE f[k] \o ss[k + 1]
             g == [i \in 1..(k + 1) |-> IF i = k + 1 THEN last ELSE f[i]]
             F(i) == IF i = 1 THEN ss[i] ELSE g[i - 1] \o ss[i]
  <2>2. \A i \in 1..k : f[i] = IF i = 1 THEN ss[i] ELSE f[i - 1] \o ss[i]
    BY <2>1, JoinsStep
  <2>3. ASSUME NEW i \in 1..(k + 1) PROVE g[i] = F(i)
    <3>1. CASE i = k + 1
      <4>1. i # 1 => g[i - 1] = f[k] /\ i - 1 = k
        BY <3>1
      <4>2. g[i] = last
        BY <3>1
      <4> QED BY <3>1, <4>1, <4>2
    <3>2. CASE i # k + 1
      <4>1. i \in 1..k /\ g[i] = f[i]
        BY <3>2
      <4>2. i # 1 => g[i - 1] = f[i - 1]
        BY <3>2
      <4> HIDE DEF g
      <4> QED BY <2>2, <4>1, <4>2
    <3> QED BY <3>1, <3>2
  <2>4. g = [i \in 1..(k + 1) |-> F(i)]
    <3> HIDE DEF F
    <3> QED BY <2>3
  <2>5. Joins(ss, k + 1, g)
    BY <2>4 DEF Joins
  <2>6. k + 1 \in 0..m
    BY <1>2
  <2> QED BY <2>5, <2>6
<1>3. m \in Good
  <2> HIDE DEF Good
  <2> QED BY <1>1, <1>2, NumberInduction
<1> QED BY <1>3

LEMMA JoinsUnique ==
    ASSUME NEW ss, NEW tt, NEW m \in Nat, NEW k \in Nat, m <= k,
           \A n \in 1..m : ss[n] = tt[n],
           m > 0, NEW f, Joins(ss, m, f), NEW g, Joins(tt, k, g)
    PROVE  f[m] = g[m]
<1> DEFINE Good == {n \in 0..m : n > 0 => f[n] = g[n]}
<1>0. /\ \A i \in 1..m : f[i] = IF i = 1 THEN ss[i] ELSE f[i - 1] \o ss[i]
      /\ \A i \in 1..k : g[i] = IF i = 1 THEN tt[i] ELSE g[i - 1] \o tt[i]
  BY JoinsStep
<1>1. 0 \in Good
  OBVIOUS
<1>2. ASSUME NEW n \in 0..m, n + 1 <= m, n \in Good
      PROVE  n + 1 \in Good
  <2>1. /\ n + 1 \in 1..m /\ n + 1 \in 1..k /\ (n + 1) - 1 = n
        /\ n > 0 => f[n] = g[n]
        /\ n + 1 # 1 => n > 0
    BY <1>2
  <2>2. /\ f[n + 1] = IF n + 1 = 1 THEN ss[n + 1] ELSE f[n] \o ss[n + 1]
        /\ g[n + 1] = IF n + 1 = 1 THEN tt[n + 1] ELSE g[n] \o tt[n + 1]
    BY <1>0, <2>1
  <2>3. ss[n + 1] = tt[n + 1] /\ n + 1 \in 0..m
    BY <2>1
  <2> QED BY <2>1, <2>2, <2>3
<1>3. m \in Good
  <2> HIDE DEF Good
  <2> QED BY <1>1, <1>2, NumberInduction
<1> QED BY <1>3

LEMMA FlattenJoins ==
    ASSUME NEW ss, Len(ss) \in Nat \ {0}
    PROVE  \E f : Joins(ss, Len(ss), f) /\ FlattenSeq(ss) = f[Len(ss)]
<1> DEFINE h == CHOOSE f : Joins(ss, Len(ss), f)
<1>1. Joins(ss, Len(ss), h)
  BY JoinsExists
<1>2. FlattenSeq(ss) = h[Len(ss)]
  BY DEF FlattenSeq, Joins
<1> QED BY <1>1, <1>2

LEMMA FlattenEmpty == FlattenSeq(<<>>) = <<>>
BY DEF FlattenSeq

LEMMA JoinsPrefix ==
    ASSUME NEW ss, NEW u, Len(ss) \in Nat, Len(ss) # 0,
           \A n \in 1..Len(ss) : ss[n] = u[n],
           NEW f, Joins(ss, Len(ss), f), NEW g, Joins(u, Len(ss) + 1, g)
    PROVE  f[Len(ss)] = g[Len(ss)]
<1> DEFINE m == Len(ss)
<1>1. m \in Nat /\ m + 1 \in Nat /\ m <= m + 1 /\ m > 0
  OBVIOUS
<1>2. Joins(ss, m, f) /\ Joins(u, m + 1, g) /\ \A n \in 1..m : ss[n] = u[n]
  OBVIOUS
<1> QED BY <1>1, <1>2, JoinsUnique

LEMMA FlattenLonger ==
    ASSUME NEW ss, NEW u, Len(ss) \in Nat \ {0}, Len(u) = Len(ss) + 1,
           \A n \in 1..Len(ss) : ss[n] = u[n]
    PROVE  FlattenSeq(u) = FlattenSeq(ss) \o u[Len(u)]
<1> DEFINE m == Len(ss)
<1>1. PICK f : Joins(ss, m, f) /\ FlattenSeq(ss) = f[m]
  BY FlattenJoins
<1>2. PICK g : Joins(u, m + 1, g) /\ FlattenSeq(u) = g[m + 1]
  <2>1. Len(u) \in Nat \ {0}
    OBVIOUS
  <2>2. PICK g : Joins(u, Len(u), g) /\ FlattenSeq(u) = g[Len(u)]
    BY <2>1, FlattenJoins
  <2> QED BY <2>2
<1>3. m \in Nat /\ m + 1 \in Nat /\ m <= m + 1 /\ m > 0
  OBVIOUS
<1>4. f[m] = g[m]
  <2>1. Joins(ss, m, f) /\ Joins(u, m + 1, g)
    BY <1>1, <1>2
  <2> QED BY <2>1, JoinsPrefix
<1>5. g[m + 1] = g[m] \o u[m + 1]
  <2>1. m + 1 \in 1..(m + 1) /\ (m + 1) - 1 = m /\ m + 1 # 1
    BY <1>3
  <2>2. \A i \in 1..(m + 1) : g[i] = IF i = 1 THEN u[i] ELSE g[i - 1] \o u[i]
    BY <1>2, <1>3, JoinsStep
  <2> QED BY <2>1, <2>2
<1> QED BY <1>1, <1>2, <1>4, <1>5

LEMMA FlattenOne ==
    ASSUME NEW u, Len(u) = 1
    PROVE  FlattenSeq(u) = u[1]
<1>1. PICK g : Joins(u, Len(u), g) /\ FlattenSeq(u) = g[Len(u)]
  <2>1. Len(u) \in Nat \ {0}
    OBVIOUS
  <2> QED BY <2>1, FlattenJoins
<1>2. \A i \in 1..1 : g[i] = IF i = 1 THEN u[i] ELSE g[i - 1] \o u[i]
  BY <1>1, JoinsStep
<1> QED BY <1>1, <1>2

LEMMA FlattenAppend ==
    ASSUME NEW A, NEW ss \in Seq(Seq(A)), NEW s \in Seq(A)
    PROVE  FlattenSeq(Append(ss, s)) =
                IF Len(ss) = 0 THEN s ELSE FlattenSeq(ss) \o s
<1> DEFINE u == Append(ss, s)
<1>1. /\ Len(ss) \in Nat /\ Len(u) = Len(ss) + 1 /\ u[Len(u)] = s
      /\ \A n \in 1..Len(ss) : ss[n] = u[n]
  OBVIOUS
<1> HIDE DEF u
<1>2. CASE Len(ss) = 0
  BY <1>1, <1>2, FlattenOne DEF u
<1>3. CASE Len(ss) # 0
  <2>1. Len(ss) \in Nat \ {0}
    BY <1>1, <1>3
  <2>2. FlattenSeq(u) = FlattenSeq(ss) \o u[Len(u)]
    BY <1>1, <2>1, FlattenLonger
  <2> QED BY <1>1, <1>3, <2>2 DEF u
<1> QED BY <1>2, <1>3

LEMMA FlattenType ==
    ASSUME NEW A, NEW ss \in Seq(Seq(A))
    PROVE  FlattenSeq(ss) \in Seq(A)
<1> DEFINE Good == {t \in Seq(Seq(A)) : FlattenSeq(t) \in Seq(A)}
<1>1. <<>> \in Good
  <2>1. <<>> \in Seq(A) /\ <<>> \in Seq(Seq(A))
    OBVIOUS
  <2> QED BY <2>1, FlattenEmpty
<1>2. ASSUME NEW t \in Seq(Seq(A)), NEW s \in Seq(A), t \in Good
      PROVE  Append(t, s) \in Good
  <2>1. Append(t, s) \in Seq(Seq(A))
    OBVIOUS
  <2>2. FlattenSeq(t) \in Seq(A)
    BY <1>2
  <2>3. FlattenSeq(t) \o s \in Seq(A)
    BY <2>2
  <2>4. FlattenSeq(Append(t, s)) \in Seq(A)
    BY <2>3, FlattenAppend
  <2> QED BY <2>1, <2>4
<1>3. ss \in Good
  <2> HIDE DEF Good
  <2> QED BY <1>1, <1>2, SequenceInduction
<1> QED BY <1>3

-----------------------------------------------------------------------------
(***************************************************************************)
(* What reading a text leads to.                                           *)
(***************************************************************************)

LEMMA Literals ==
    {"event:", "data:", ":", "message"} \subseteq Pieces \ {Newline}
BY SseParserAssumption DEF Newline

\* The pieces the parser looks at are no half of a letter.
LEMMA Plain ==
    /\ Newline \notin Halves /\ Bad \notin Halves /\ Newline # Bad
    /\ "event:" \notin Halves /\ "data:" \notin Halves /\ "message" \notin Halves
    /\ "event:" # Bad /\ "data:" # Bad /\ "message" # Bad
<1>1. \A x \in Halves : x = "c3" \/ x = "a9"
  BY DEF Halves, Letters
<1> QED BY <1>1 DEF Newline, Bad

LEMMA TakeLineType ==
    ASSUME NEW p \in Parsers, NEW line \in Words
    PROVE  TakeLine(p, line) \in Parsers
<1> DEFINE tail == Tail(line)
<1>1. line # <<>> => tail \in Words
  BY DEF Words
<1>2. /\ p.leftover \in Words /\ p.type \in Words
      /\ p.lines \in Seq(Words) /\ p.out \in Seq(ReadEvents)
      /\ p = [leftover |-> p.leftover, type |-> p.type, lines |-> p.lines, out |-> p.out]
  BY DEF Parsers
<1>3. Fresh.type \in Words /\ <<>> \in Seq(Words)
  <2>1. Fresh.type = <<"message">> /\ "message" # Newline
    BY DEF Fresh, Newline
  <2>2. "message" \in Pieces \ {Newline}
    BY Literals
  <2> QED BY <2>1, <2>2 DEF Words
<1> HIDE DEF tail
<1>4. CASE line = <<>> /\ p.lines # <<>>
  <2>1. [type |-> p.type, data |-> p.lines] \in ReadEvents
    BY <1>2 DEF ReadEvents
  <2>2. Append(p.out, [type |-> p.type, data |-> p.lines]) \in Seq(ReadEvents)
    BY <1>2, <2>1
  <2>3. TakeLine(p, line) = [p EXCEPT !.out = Append(@, [type |-> p.type, data |-> p.lines]),
                                      !.lines = <<>>, !.type = Fresh.type]
    BY <1>4 DEF TakeLine
  <2> QED BY <1>2, <1>3, <2>2, <2>3 DEF Parsers
<1>5. CASE ~(line = <<>> /\ p.lines # <<>>) /\ line # <<>> /\ line[1] = "event:"
  <2>1. TakeLine(p, line) = [p EXCEPT !.type = tail]
    BY <1>5 DEF TakeLine, tail
  <2> QED BY <1>1, <1>2, <1>5, <2>1 DEF Parsers
<1>6. CASE line # <<>> /\ line[1] # "event:" /\ line[1] = "data:"
  <2>1. TakeLine(p, line) = [p EXCEPT !.lines = Append(@, tail)]
    BY <1>6 DEF TakeLine, tail
  <2>2. Append(p.lines, tail) \in Seq(Words)
    BY <1>1, <1>2, <1>6
  <2> QED BY <1>2, <2>1, <2>2 DEF Parsers
<1>7. CASE /\ ~(line = <<>> /\ p.lines # <<>>)
           /\ line # <<>> => line[1] # "event:" /\ line[1] # "data:"
  <2>1. TakeLine(p, line) = p
    BY <1>7 DEF TakeLine
  <2> QED BY <2>1
<1> QED BY <1>4, <1>5, <1>6, <1>7

LEMMA TakePieceType ==
    ASSUME NEW p \in Parsers, NEW x \in Pieces
    PROVE  TakePiece(p, x) \in Parsers
<1>1. <<>> \in Words /\ p.leftover \in Words
  BY DEF Words, Parsers
<1>2. CASE x = Newline
  <2>1. [p EXCEPT !.leftover = <<>>] \in Parsers
    BY <1>1 DEF Parsers
  <2> QED BY <1>1, <1>2, <2>1, TakeLineType DEF TakePiece
<1>3. CASE x # Newline
  <2>1. Append(p.leftover, x) \in Words
    BY <1>1, <1>3 DEF Words
  <2>2. TakePiece(p, x) = [p EXCEPT !.leftover = Append(p.leftover, x)]
    BY <1>3 DEF TakePiece
  <2> QED BY <2>1, <2>2 DEF Parsers
<1> QED BY <1>2, <1>3

LEMMA TakeTextType ==
    ASSUME NEW p \in Parsers, NEW text \in Seq(Pieces)
    PROVE  TakeText(p, text) \in Parsers
<1> DEFINE Good == {t \in Seq(Pieces) : TakeText(p, t) \in Parsers}
<1>1. <<>> \in Good
  <2>1. <<>> \in Seq(Pieces)
    OBVIOUS
  <2> QED BY <2>1, TakeTextEmpty
<1>2. ASSUME NEW t \in Seq(Pieces), NEW x \in Pieces, t \in Good
      PROVE  Append(t, x) \in Good
  <2>1. Append(t, x) \in Seq(Pieces)
    OBVIOUS
  <2>2. TakeText(p, Append(t, x)) = TakePiece(TakeText(p, t), x)
    BY TakeTextAppend
  <2>3. TakeText(p, t) \in Parsers
    BY <1>2
  <2>4. TakePiece(TakeText(p, t), x) \in Parsers
    BY <2>3, TakePieceType
  <2> QED BY <2>1, <2>2, <2>4
<1>3. text \in Good
  <2> HIDE DEF Good
  <2> QED BY <1>1, <1>2, SequenceInduction
<1> QED BY <1>3

LEMMA AppendConcat ==
    ASSUME NEW A, NEW a \in Seq(A), NEW b \in Seq(A), NEW x \in A
    PROVE  a \o Append(b, x) = Append(a \o b, x)
OBVIOUS

\* Two texts, one after the other.
LEMMA TakeTextConcat ==
    ASSUME NEW p, NEW a \in Seq(Pieces), NEW b \in Seq(Pieces)
    PROVE  TakeText(p, a \o b) = TakeText(TakeText(p, a), b)
<1> DEFINE Good == {t \in Seq(Pieces) :
                        TakeText(p, a \o t) = TakeText(TakeText(p, a), t)}
<1>1. <<>> \in Good
  <2>1. <<>> \in Seq(Pieces) /\ a \o <<>> = a
    OBVIOUS
  <2> QED BY <2>1, TakeTextEmpty
<1>2. ASSUME NEW t \in Seq(Pieces), NEW x \in Pieces, t \in Good
      PROVE  Append(t, x) \in Good
  <2>1. Append(t, x) \in Seq(Pieces) /\ a \o t \in Seq(Pieces)
    OBVIOUS
  <2>2. a \o Append(t, x) = Append(a \o t, x)
    OBVIOUS
  <2>3. TakeText(p, Append(a \o t, x)) = TakePiece(TakeText(p, a \o t), x)
    BY <2>1, TakeTextAppend
  <2>4. TakeText(TakeText(p, a), Append(t, x)) = TakePiece(TakeText(TakeText(p, a), t), x)
    BY TakeTextAppend
  <2>5. TakeText(p, a \o t) = TakeText(TakeText(p, a), t)
    BY <1>2
  <2>6. TakeText(p, a \o Append(t, x)) = TakeText(TakeText(p, a), Append(t, x))
    BY <2>2, <2>3, <2>4, <2>5, Zenon
  <2> QED BY <2>1, <2>6
<1>3. b \in Good
  <2> HIDE DEF Good
  <2> QED BY <1>1, <1>2, SequenceInduction
<1> QED BY <1>3

\* out only grows.
LEMMA Behind ==
    ASSUME NEW p \in Parsers, NEW o \in Seq(ReadEvents), NEW text \in Seq(Pieces)
    PROVE  TakeText([p EXCEPT !.out = o \o @], text)
                = [TakeText(p, text) EXCEPT !.out = o \o @]
<1> DEFINE After(q) == [q EXCEPT !.out = o \o @]
           Good == {t \in Seq(Pieces) : TakeText(After(p), t) = After(TakeText(p, t))}
<1>1. <<>> \in Good
  <2>1. <<>> \in Seq(Pieces)
    OBVIOUS
  <2> QED BY <2>1, TakeTextEmpty
<1>2. ASSUME NEW q \in Parsers, NEW line
      PROVE  TakeLine(After(q), line) = After(TakeLine(q, line))
  <2>1. /\ After(q).type = q.type /\ After(q).lines = q.lines
        /\ After(q).leftover = q.leftover /\ After(q).out = o \o q.out
        /\ q.out \in Seq(ReadEvents) /\ q.type \in Words /\ q.lines \in Seq(Words)
    BY DEF Parsers
  <2>2. CASE line = <<>> /\ q.lines # <<>>
    <3> DEFINE e == [type |-> q.type, data |-> q.lines]
    <3>1. e \in ReadEvents
      BY <2>1 DEF ReadEvents
    <3>2. Append(o \o q.out, e) = o \o Append(q.out, e)
      <4> DEFINE out == q.out
      <4>1. out \in Seq(ReadEvents)
        BY <2>1
      <4> HIDE DEF out, e
      <4>2. o \o Append(out, e) = Append(o \o out, e)
        BY <3>1, <4>1, AppendConcat
      <4> QED BY <4>2 DEF out
    <3> HIDE DEF e
    <3>3. TakeLine(q, line) = [q EXCEPT !.out = Append(@, e), !.lines = <<>>,
                                        !.type = Fresh.type]
      BY <2>2 DEF TakeLine, e
    <3>4. TakeLine(After(q), line) =
            [After(q) EXCEPT !.out = Append(@, e), !.lines = <<>>, !.type = Fresh.type]
      BY <2>1, <2>2 DEF TakeLine, e
    <3> QED BY <2>1, <3>2, <3>3, <3>4 DEF Parsers
  <2>3. CASE ~(line = <<>> /\ q.lines # <<>>)
    BY <2>1, <2>3 DEF TakeLine, Parsers
  <2> QED BY <2>2, <2>3
<1>3. ASSUME NEW q \in Parsers, NEW x \in Pieces
      PROVE  TakePiece(After(q), x) = After(TakePiece(q, x))
  <2> DEFINE r == [q EXCEPT !.leftover = <<>>]
  <2>0. <<>> \in Words
    BY DEF Words
  <2>1. r \in Parsers /\ [After(q) EXCEPT !.leftover = <<>>] = After(r)
    BY <2>0 DEF Parsers
  <2>2. CASE x = Newline
    <3>1. TakePiece(After(q), x) = TakeLine(After(r), q.leftover)
      BY <2>1, <2>2 DEF TakePiece, Parsers
    <3>2. TakePiece(q, x) = TakeLine(r, q.leftover)
      BY <2>2 DEF TakePiece
    <3> HIDE DEF r, After
    <3> QED BY <1>2, <2>1, <3>1, <3>2
  <2>3. CASE x # Newline
    BY <2>3 DEF TakePiece, Parsers
  <2> QED BY <2>2, <2>3
<1>4. ASSUME NEW t \in Seq(Pieces), NEW x \in Pieces, t \in Good
      PROVE  Append(t, x) \in Good
  <2>1. Append(t, x) \in Seq(Pieces) /\ TakeText(p, t) \in Parsers
    BY TakeTextType
  <2>2. TakeText(After(p), t) = After(TakeText(p, t))
    BY <1>4
  <2> HIDE DEF After
  <2>3. /\ TakeText(After(p), Append(t, x)) = TakePiece(TakeText(After(p), t), x)
        /\ TakeText(p, Append(t, x)) = TakePiece(TakeText(p, t), x)
    BY TakeTextAppend
  <2> QED BY <1>3, <2>1, <2>2, <2>3
<1>5. text \in Good
  <2> HIDE DEF Good
  <2> QED BY <1>1, <1>4, SequenceInduction
<1> QED BY <1>5

\* A word only waits for the end of its line.
LEMMA ReadWord ==
    ASSUME NEW p \in Parsers, NEW word \in Words
    PROVE  TakeText(p, word) = [p EXCEPT !.leftover = @ \o word]
<1> DEFINE Good == {w \in Words : TakeText(p, w) = [p EXCEPT !.leftover = @ \o w]}
<1>1. <<>> \in Good
  <2>1. <<>> \in Words /\ p.leftover \o <<>> = p.leftover
    BY DEF Words, Parsers
  <2>2. [p EXCEPT !.leftover = p.leftover] = p
    BY DEF Parsers
  <2> QED BY <2>1, <2>2, TakeTextEmpty
<1>2. ASSUME NEW w \in Seq(Pieces \ {Newline}), NEW x \in Pieces \ {Newline}, w \in Good
      PROVE  Append(w, x) \in Good
  <2>1. Append(w, x) \in Words
    BY DEF Words
  <2>2. TakeText(p, Append(w, x)) = TakePiece(TakeText(p, w), x)
    BY TakeTextAppend
  <2>3. TakeText(p, w) = [p EXCEPT !.leftover = @ \o w]
    BY <1>2
  <2>4. p.leftover \in Seq(Pieces \ {Newline})
    BY DEF Parsers, Words
  <2>5. Append(p.leftover \o w, x) = p.leftover \o Append(w, x)
    <3> DEFINE left == p.leftover
    <3>1. left \in Seq(Pieces \ {Newline})
      BY <2>4
    <3> HIDE DEF left
    <3>2. left \o Append(w, x) = Append(left \o w, x)
      BY <3>1, AppendConcat
    <3> QED BY <3>2 DEF left
  <2>6. TakePiece(TakeText(p, w), x) = [p EXCEPT !.leftover = Append(p.leftover \o w, x)]
    BY <2>3 DEF TakePiece, Parsers
  <2> QED BY <2>1, <2>2, <2>5, <2>6
<1>3. word \in Good
  <2>1. word \in Seq(Pieces \ {Newline})
    BY DEF Words
  <2> HIDE DEF Good
  <2> QED BY <1>1, <1>2, <2>1, SequenceInduction
<1> QED BY <1>3

\* A line is taken when it has ended.
LEMMA ReadLine ==
    ASSUME NEW p \in Parsers, p.leftover = <<>>, NEW line \in Words
    PROVE  TakeText(p, line \o <<Newline>>) = TakeLine(p, line)
<1>1. line \in Seq(Pieces) /\ Newline \in Pieces
  BY SseParserAssumption DEF Words
<1>2. line \o <<Newline>> = Append(line, Newline)
  BY <1>1
<1>3. TakeText(p, Append(line, Newline)) = TakePiece(TakeText(p, line), Newline)
  BY <1>1, TakeTextAppend
<1>4. TakeText(p, line) = [p EXCEPT !.leftover = line]
  <2>1. p.leftover \o line = line
    BY DEF Words
  <2>2. TakeText(p, line) = [p EXCEPT !.leftover = p.leftover \o line]
    BY ReadWord
  <2> QED BY <2>1, <2>2
<1>5. [[p EXCEPT !.leftover = line] EXCEPT !.leftover = <<>>] = p
  BY DEF Parsers
<1>6. [p EXCEPT !.leftover = line].leftover = line
  BY DEF Parsers
<1> QED BY <1>2, <1>3, <1>4, <1>5, <1>6 DEF TakePiece

LEMMA ReadField ==
    ASSUME NEW p \in Parsers, p.leftover = <<>>, NEW word \in Words,
           NEW field \in {"event:", "data:"}
    PROVE  TakeText(p, <<field>> \o word \o <<Newline>>) =
                IF field = "event:" THEN [p EXCEPT !.type = word]
                                    ELSE [p EXCEPT !.lines = Append(@, word)]
<1> DEFINE line == <<field>> \o word
<1>1. /\ line \in Words /\ line # <<>> /\ line[1] = field /\ Tail(line) = word
  <2>1. field \in Pieces \ {Newline} /\ word \in Seq(Pieces \ {Newline})
    BY Literals DEF Words
  <2> HIDE DEF Words
  <2> QED BY <2>1 DEF Words
<1> HIDE DEF line
<1>2. TakeText(p, line \o <<Newline>>) = TakeLine(p, line)
  BY <1>1, ReadLine
<1>3. TakeLine(p, line) = IF field = "event:" THEN [p EXCEPT !.type = word]
                                    ELSE [p EXCEPT !.lines = Append(@, word)]
  BY <1>1 DEF TakeLine
<1> QED BY <1>2, <1>3 DEF line

\* The lines of an event's data, as the emitter writes them.
DataLine(word)  == <<"data:">> \o word \o <<Newline>>
DataLines(data) == [i \in 1..Len(data) |-> <<"data:">> \o data[i] \o <<Newline>>]

LEMMA DataLinesType ==
    ASSUME NEW data \in Seq(Words)
    PROVE  DataLines(data) \in Seq(Seq(Pieces))
<1>1. ASSUME NEW i \in 1..Len(data)
      PROVE  <<"data:">> \o data[i] \o <<Newline>> \in Seq(Pieces)
  <2> DEFINE word == data[i]
  <2>1. word \in Words
    OBVIOUS
  <2> HIDE DEF word
  <2>2. word \in Seq(Pieces) /\ "data:" \in Pieces /\ Newline \in Pieces
    BY <2>1, SseParserAssumption DEF Words
  <2>3. <<"data:">> \o word \o <<Newline>> \in Seq(Pieces)
    BY <2>2
  <2> QED BY <2>3 DEF word
<1>2. Len(data) \in Nat
  OBVIOUS
<1> QED BY <1>1, <1>2 DEF DataLines

LEMMA DataLinesAppend ==
    ASSUME NEW data \in Seq(Words), NEW word \in Words
    PROVE  DataLines(Append(data, word)) = Append(DataLines(data), DataLine(word))
<1> DEFINE u == DataLines(Append(data, word))
           v == Append(DataLines(data), DataLine(word))
<1>0. DataLine(word) \in Seq(Pieces)
  <2>1. word \in Seq(Pieces) /\ "data:" \in Pieces /\ Newline \in Pieces
    BY SseParserAssumption DEF Words
  <2> QED BY <2>1 DEF DataLine
<1>1. /\ Append(data, word) \in Seq(Words)
      /\ Len(Append(data, word)) = Len(data) + 1 /\ Len(data) \in Nat
      /\ \A i \in 1..Len(data) : Append(data, word)[i] = data[i]
      /\ Append(data, word)[Len(data) + 1] = word
  OBVIOUS
<1>2. u \in Seq(Seq(Pieces)) /\ Len(u) = Len(data) + 1
  <2> DEFINE longer == Append(data, word)
  <2>1. longer \in Seq(Words) /\ Len(longer) = Len(data) + 1 /\ Len(data) \in Nat
    BY <1>1
  <2> HIDE DEF longer
  <2>2. DataLines(longer) \in Seq(Seq(Pieces))
    BY <2>1, DataLinesType
  <2>3. Len(DataLines(longer)) = Len(data) + 1
    BY <2>1 DEF DataLines
  <2> QED BY <2>2, <2>3 DEF longer
<1>3. /\ DataLines(data) \in Seq(Seq(Pieces)) /\ Len(DataLines(data)) = Len(data)
  BY <1>1, DataLinesType DEF DataLines
<1>4. v \in Seq(Seq(Pieces)) /\ Len(v) = Len(data) + 1
  BY <1>0, <1>3
<1>5. ASSUME NEW i \in 1..(Len(data) + 1) PROVE u[i] = v[i]
  <2>1. CASE i = Len(data) + 1
    <3>1. u[i] = DataLine(word)
      BY <1>1, <2>1 DEF DataLines, DataLine
    <3>2. v[i] = DataLine(word)
      BY <1>3, <2>1
    <3> QED BY <3>1, <3>2
  <2>2. CASE i # Len(data) + 1
    <3>1. i \in 1..Len(data)
      BY <1>1, <2>2
    <3>2. u[i] = DataLines(data)[i]
      BY <1>1, <3>1 DEF DataLines
    <3>3. v[i] = DataLines(data)[i]
      BY <1>3, <3>1
    <3> QED BY <3>2, <3>3
  <2> QED BY <2>1, <2>2
<1> HIDE DEF u, v
<1>6. u = v
  BY <1>2, <1>4, <1>5
<1> QED BY <1>6 DEF u, v

LEMMA ReadData ==
    ASSUME NEW p \in Parsers, p.leftover = <<>>, NEW data \in Seq(Words)
    PROVE  TakeText(p, FlattenSeq(DataLines(data))) = [p EXCEPT !.lines = @ \o data]
<1> DEFINE Good == {d \in Seq(Words) :
                        TakeText(p, FlattenSeq(DataLines(d))) = [p EXCEPT !.lines = @ \o d]}
           lines == p.lines
<1>0. lines \in Seq(Words) /\ <<>> \in Seq(Words)
  BY DEF Parsers
<1>1. <<>> \in Good
  <2>1. DataLines(<<>>) = <<>>
    BY DEF DataLines
  <2>2. FlattenSeq(DataLines(<<>>)) = <<>>
    BY <2>1, FlattenEmpty
  <2>3. TakeText(p, FlattenSeq(DataLines(<<>>))) = p
    BY <2>2, TakeTextEmpty
  <2>4. [p EXCEPT !.lines = lines] = p
    BY DEF Parsers
  <2>5. lines \o <<>> = lines
    <3> HIDE DEF lines
    <3> QED BY <1>0
  <2> QED BY <1>0, <2>3, <2>4, <2>5
<1>2. ASSUME NEW d \in Seq(Words), NEW word \in Words, d \in Good
      PROVE  Append(d, word) \in Good
  <2> DEFINE text == FlattenSeq(DataLines(d))
             q == TakeText(p, text)
  <2>1. q = [p EXCEPT !.lines = lines \o d]
    BY <1>2
  <2>2. lines \o d \in Seq(Words)
    <3> HIDE DEF lines
    <3> QED BY <1>0
  <2>3. q \in Parsers /\ q.leftover = <<>> /\ q.lines = lines \o d
    BY <2>1, <2>2 DEF Parsers
  <2>4. DataLine(word) \in Seq(Pieces)
    <3>1. word \in Seq(Pieces) /\ "data:" \in Pieces /\ Newline \in Pieces
      BY SseParserAssumption DEF Words
    <3> QED BY <3>1 DEF DataLine
  <2>5. DataLines(d) \in Seq(Seq(Pieces)) /\ text \in Seq(Pieces)
    BY DataLinesType, FlattenType
  <2>6. FlattenSeq(DataLines(Append(d, word))) = text \o DataLine(word)
    <3> DEFINE ss == DataLines(d)
               s == DataLine(word)
    <3>1. ss \in Seq(Seq(Pieces)) /\ s \in Seq(Pieces)
      BY <2>4, <2>5
    <3> HIDE DEF ss, s
    <3>2. FlattenSeq(Append(ss, s)) = IF Len(ss) = 0 THEN s ELSE FlattenSeq(ss) \o s
      BY <3>1, FlattenAppend
    <3>3. Len(ss) = 0 => FlattenSeq(ss) \o s = s
      <4>1. CASE Len(ss) = 0
        <5>1. ss = <<>>
          BY <3>1, <4>1
        <5> QED BY <3>1, <5>1, FlattenEmpty
      <4> QED BY <4>1
    <3>4. FlattenSeq(Append(ss, s)) = FlattenSeq(ss) \o s
      BY <3>2, <3>3
    <3> QED BY <3>4, DataLinesAppend DEF ss, s
  <2> HIDE DEF text
  <2>7. TakeText(p, text \o DataLine(word)) = TakeText(q, DataLine(word))
    BY <2>4, <2>5, TakeTextConcat
  <2> HIDE DEF q
  <2>8. TakeText(q, DataLine(word)) = [q EXCEPT !.lines = Append(@, word)]
    BY <2>3, ReadField DEF DataLine
  <2>9. Append(lines \o d, word) = lines \o Append(d, word)
    <3> HIDE DEF lines
    <3>1. lines \o Append(d, word) = Append(lines \o d, word)
      BY <1>0, AppendConcat
    <3> QED BY <3>1
  <2>10. [q EXCEPT !.lines = Append(@, word)] = [p EXCEPT !.lines = lines \o Append(d, word)]
    BY <2>1, <2>9 DEF Parsers
  <2>11. Append(d, word) \in Seq(Words)
    OBVIOUS
  <2> HIDE DEF lines
  <2>12. TakeText(p, FlattenSeq(DataLines(Append(d, word))))
            = [p EXCEPT !.lines = lines \o Append(d, word)]
    BY <2>6, <2>7, <2>8, <2>10
  <2> QED BY <2>11, <2>12 DEF lines
<1>3. data \in Good
  <2> HIDE DEF Good
  <2> QED BY <1>1, <1>2, SequenceInduction
<1> QED BY <1>3

LEMMA TakeOne ==
    ASSUME NEW p, NEW x \in Pieces
    PROVE  TakeText(p, <<x>>) = TakePiece(p, x)
<1> DEFINE e == <<>>
<1>1. e \in Seq(Pieces) /\ Append(e, x) = <<x>>
  OBVIOUS
<1>2. TakeText(p, e) = p
  BY TakeTextEmpty
<1> HIDE DEF e
<1>3. TakeText(p, Append(e, x)) = TakePiece(TakeText(p, e), x)
  BY <1>1, TakeTextAppend
<1> QED BY <1>1, <1>2, <1>3

LEMMA EncodeParts ==
    ASSUME NEW ev, IsEvent(ev)
    PROVE  /\ ev.type \in Words /\ ev.data \in Seq(Words) /\ ev.data # <<>>
           /\ ev = [type |-> ev.type, data |-> ev.data]
           /\ <<"event:">> \o ev.type \o <<Newline>> \in Seq(Pieces)
           /\ FlattenSeq(DataLines(ev.data)) \in Seq(Pieces)
           /\ <<Newline>> \in Seq(Pieces)
           /\ Encode(ev) = (<<"event:">> \o ev.type \o <<Newline>>)
                           \o FlattenSeq(DataLines(ev.data)) \o <<Newline>>
<1>1. /\ ev.type \in Words /\ ev.data \in Seq(Words) /\ ev.data # <<>>
      /\ ev = [type |-> ev.type, data |-> ev.data]
  BY DEF IsEvent, ReadEvents
<1>2. <<"event:">> \o ev.type \o <<Newline>> \in Seq(Pieces)
  <2> DEFINE word == ev.type
  <2>1. word \in Seq(Pieces) /\ "event:" \in Pieces /\ Newline \in Pieces
    BY <1>1, SseParserAssumption DEF Words
  <2> HIDE DEF word
  <2>2. <<"event:">> \o word \o <<Newline>> \in Seq(Pieces)
    BY <2>1
  <2> QED BY <2>2 DEF word
<1>3. FlattenSeq(DataLines(ev.data)) \in Seq(Pieces)
  <2> DEFINE data == ev.data
  <2>1. data \in Seq(Words)
    BY <1>1
  <2> HIDE DEF data
  <2>2. FlattenSeq(DataLines(data)) \in Seq(Pieces)
    BY <2>1, DataLinesType, FlattenType
  <2> QED BY <2>2 DEF data
<1>4. <<Newline>> \in Seq(Pieces)
  BY SseParserAssumption
<1>5. Encode(ev) = (<<"event:">> \o ev.type \o <<Newline>>)
                   \o FlattenSeq(DataLines(ev.data)) \o <<Newline>>
  BY Zenon DEF Encode, DataLines
<1> QED BY <1>1, <1>2, <1>3, <1>4, <1>5

LEMMA EncodeType ==
    ASSUME NEW ev, IsEvent(ev)
    PROVE  Encode(ev) \in Seq(Pieces)
<1> DEFINE a == <<"event:">> \o ev.type \o <<Newline>>
           b == FlattenSeq(DataLines(ev.data))
           c == <<Newline>>
<1>1. a \in Seq(Pieces) /\ b \in Seq(Pieces) /\ c \in Seq(Pieces) /\ Encode(ev) = a \o b \o c
  BY EncodeParts
<1> HIDE DEF a, b, c
<1>2. a \o b \o c \in Seq(Pieces)
  BY <1>1
<1> QED BY <1>1, <1>2

\* Read between two events, an event is handed over as it was encoded.
LEMMA ReadEvent ==
    ASSUME NEW p \in Parsers, AtRest(p), NEW ev, IsEvent(ev)
    PROVE  TakeText(p, Encode(ev)) = [p EXCEPT !.out = Append(@, ev)]
<1> DEFINE a == <<"event:">> \o ev.type \o <<Newline>>
           b == FlattenSeq(DataLines(ev.data))
           c == <<Newline>>
           type == ev.type
           data == ev.data
           q == [p EXCEPT !.type = type]
           r == [q EXCEPT !.lines = data]
<1>1. /\ a \in Seq(Pieces) /\ b \in Seq(Pieces) /\ c \in Seq(Pieces)
      /\ Encode(ev) = a \o b \o c
      /\ type \in Words /\ data \in Seq(Words) /\ data # <<>>
      /\ ev = [type |-> type, data |-> data]
  BY EncodeParts
<1>2. p.leftover = <<>> /\ p.lines = <<>> /\ p.type = Fresh.type
  BY DEF AtRest
<1>3. q \in Parsers /\ q.leftover = <<>> /\ q.lines = <<>>
  BY <1>1, <1>2 DEF Parsers
<1>4. r \in Parsers /\ r.leftover = <<>> /\ r.lines = data /\ r.type = type
  BY <1>1, <1>3 DEF Parsers
<1>5. TakeText(p, a) = q
  <2> HIDE DEF q, r, data
  <2>1. TakeText(p, <<"event:">> \o type \o <<Newline>>) =
            IF "event:" = "event:" THEN [p EXCEPT !.type = type]
                                   ELSE [p EXCEPT !.lines = Append(@, type)]
    <3> HIDE DEF type
    <3> QED BY <1>1, <1>2, ReadField
  <2> QED BY <2>1 DEF q
<1>6. TakeText(q, b) = r
  <2> HIDE DEF data, q
  <2>1. TakeText(q, FlattenSeq(DataLines(data))) = [q EXCEPT !.lines = @ \o data]
    BY <1>1, <1>3, ReadData
  <2>2. q.lines \o data = data
    BY <1>1, <1>3
  <2> QED BY <2>1, <2>2 DEF data
<1>7. TakeText(r, c) = [p EXCEPT !.out = Append(@, ev)]
  <2>1. TakeText(r, c) = TakePiece(r, Newline)
    BY SseParserAssumption, TakeOne
  <2>2. TakePiece(r, Newline) = TakeLine(r, <<>>)
    <3>1. [r EXCEPT !.leftover = <<>>] = r
      BY <1>4 DEF Parsers
    <3> HIDE DEF r
    <3> QED BY <1>4, <3>1 DEF TakePiece
  <2>3. TakeLine(r, <<>>) = [r EXCEPT !.out = Append(@, ev), !.lines = <<>>,
                                      !.type = Fresh.type]
    <3> HIDE DEF r, type, data
    <3> QED BY <1>1, <1>4 DEF TakeLine
  <2>4. [r EXCEPT !.out = Append(@, ev), !.lines = <<>>, !.type = Fresh.type]
            = [p EXCEPT !.out = Append(@, ev)]
    BY <1>2 DEF Parsers
  <2> QED BY <2>1, <2>2, <2>3, <2>4
<1> HIDE DEF a, b, c, q, r
<1>8. a \o b \in Seq(Pieces)
  BY <1>1
<1>9. TakeText(p, a \o b) = TakeText(TakeText(p, a), b)
  BY <1>1, TakeTextConcat
<1>10. TakeText(p, (a \o b) \o c) = TakeText(TakeText(p, a \o b), c)
  BY <1>1, <1>8, TakeTextConcat
<1> QED BY <1>1, <1>5, <1>6, <1>7, <1>9, <1>10

LEMMA KeepAliveType == KeepAliveText \in Seq(Pieces)
BY SseParserAssumption DEF KeepAliveText

\* A comment is passed over.
LEMMA ReadKeepAlive ==
    ASSUME NEW p \in Parsers, AtRest(p)
    PROVE  TakeText(p, KeepAliveText) = p
<1>0. ":" \in Pieces /\ Newline \in Pieces /\ ":" # Newline
  BY SseParserAssumption, Literals
<1> DEFINE a == <<":">> \o <<Newline>>
           c == <<Newline>>
<1>1. a \in Seq(Pieces) /\ c \in Seq(Pieces) /\ KeepAliveText = a \o c
  BY <1>0 DEF KeepAliveText
<1>2. p.leftover = <<>> /\ p.lines = <<>>
  BY DEF AtRest
<1>3. TakeText(p, a) = p
  <2>1. <<":">> \in Words
    BY <1>0 DEF Words
  <2>2. TakeText(p, a) = TakeLine(p, <<":">>)
    BY <1>2, <2>1, ReadLine
  <2>3. TakeLine(p, <<":">>) = p
    BY DEF TakeLine
  <2> QED BY <2>2, <2>3
<1>4. TakeText(p, c) = p
  <2>1. TakeText(p, c) = TakePiece(p, Newline)
    BY <1>0, TakeOne
  <2>2. [p EXCEPT !.leftover = <<>>] = p
    BY <1>2 DEF Parsers
  <2>3. TakePiece(p, Newline) = TakeLine(p, <<>>)
    BY <1>2, <2>2 DEF TakePiece
  <2>4. TakeLine(p, <<>>) = p
    BY <1>2 DEF TakeLine
  <2> QED BY <2>1, <2>3, <2>4
<1> HIDE DEF a, c
<1>5. TakeText(p, a \o c) = TakeText(TakeText(p, a), c)
  BY <1>1, TakeTextConcat
<1> QED BY <1>1, <1>3, <1>4, <1>5

-----------------------------------------------------------------------------
(***************************************************************************)
(* Decoding chunk by chunk damages letters, and never the structure.       *)
(***************************************************************************)

LEMMA SamePieceFacts ==
    ASSUME NEW x, NEW y, SamePiece(x, y)
    PROVE  /\ x = Newline <=> y = Newline
           /\ x = "event:" <=> y = "event:"
           /\ x = "data:" <=> y = "data:"
           /\ x = "message" => y = "message"
           /\ \A z : SamePiece(y, z) => SamePiece(x, z)
BY Plain DEF SamePiece

LEMMA SameWordItself ==
    ASSUME NEW w
    PROVE  SameWord(w, w)
BY DEF SameWord, SamePiece

LEMMA SameWordAppend ==
    ASSUME NEW w \in Seq(Pieces), NEW v \in Seq(Pieces), SameWord(w, v),
           NEW x \in Pieces, NEW y \in Pieces, SamePiece(x, y)
    PROVE  SameWord(Append(w, x), Append(v, y))
<1>1. Len(w) = Len(v) /\ \A i \in 1..Len(w) : SamePiece(w[i], v[i])
  BY DEF SameWord
<1> DEFINE a == Append(w, x)
           b == Append(v, y)
<1>2. /\ Len(a) = Len(w) + 1 /\ Len(b) = Len(w) + 1 /\ Len(w) \in Nat
      /\ a[Len(w) + 1] = x /\ b[Len(w) + 1] = y
      /\ \A i \in 1..Len(w) : a[i] = w[i] /\ b[i] = v[i]
  BY <1>1
<1> HIDE DEF a, b
<1>3. ASSUME NEW i \in 1..(Len(w) + 1) PROVE SamePiece(a[i], b[i])
  <2>1. CASE i = Len(w) + 1
    BY <1>2, <2>1
  <2>2. CASE i # Len(w) + 1
    <3>1. i \in 1..Len(w)
      BY <1>2, <2>2
    <3> QED BY <1>1, <1>2, <3>1
  <2> QED BY <2>1, <2>2
<1>4. SameWord(a, b)
  BY <1>2, <1>3 DEF SameWord
<1> QED BY <1>4 DEF a, b

LEMMA SameWordTail ==
    ASSUME NEW w \in Words, NEW v \in Words, SameWord(w, v), w # <<>>
    PROVE  v # <<>> /\ SamePiece(w[1], v[1]) /\ SameWord(Tail(w), Tail(v))
<1>0. w \in Seq(Pieces) /\ v \in Seq(Pieces)
  BY DEF Words
<1>1. Len(w) = Len(v) /\ \A i \in 1..Len(w) : SamePiece(w[i], v[i])
  BY DEF SameWord
<1>2. Len(w) \in Nat /\ Len(w) >= 1 /\ 1 \in 1..Len(w) /\ v # <<>>
  BY <1>0, <1>1
<1> DEFINE a == Tail(w)
           b == Tail(v)
<1>3. /\ Len(a) = Len(w) - 1 /\ Len(b) = Len(w) - 1
      /\ \A i \in 1..(Len(w) - 1) : a[i] = w[i + 1] /\ b[i] = v[i + 1]
  BY <1>0, <1>1, <1>2
<1> HIDE DEF a, b
<1>4. ASSUME NEW i \in 1..(Len(w) - 1) PROVE SamePiece(a[i], b[i])
  <2>1. i + 1 \in 1..Len(w)
    BY <1>2
  <2> QED BY <1>1, <1>3, <2>1
<1>5. SameWord(a, b)
  BY <1>3, <1>4 DEF SameWord
<1> QED BY <1>1, <1>2, <1>5 DEF a, b

LEMMA SameLinesAppend ==
    ASSUME NEW w \in Seq(Words), NEW v \in Seq(Words), SameLines(w, v),
           NEW x \in Words, NEW y \in Words, SameWord(x, y)
    PROVE  SameLines(Append(w, x), Append(v, y))
<1>1. Len(w) = Len(v) /\ \A i \in 1..Len(w) : SameWord(w[i], v[i])
  BY DEF SameLines
<1> DEFINE a == Append(w, x)
           b == Append(v, y)
<1>2. /\ Len(a) = Len(w) + 1 /\ Len(b) = Len(w) + 1 /\ Len(w) \in Nat
      /\ a[Len(w) + 1] = x /\ b[Len(w) + 1] = y
      /\ \A i \in 1..Len(w) : a[i] = w[i] /\ b[i] = v[i]
  BY <1>1
<1> HIDE DEF a, b
<1>3. ASSUME NEW i \in 1..(Len(w) + 1) PROVE SameWord(a[i], b[i])
  <2>1. CASE i = Len(w) + 1
    BY <1>2, <2>1
  <2>2. CASE i # Len(w) + 1
    <3>1. i \in 1..Len(w)
      BY <1>2, <2>2
    <3> QED BY <1>1, <1>2, <3>1
  <2> QED BY <2>1, <2>2
<1>4. SameLines(a, b)
  BY <1>2, <1>3 DEF SameLines
<1> QED BY <1>4 DEF a, b

LEMMA SameEventsAppend ==
    ASSUME NEW E, NEW w \in Seq(E), NEW v \in Seq(ReadEvents), SameEvents(w, v),
           NEW x \in E, NEW y \in ReadEvents, SameEvent(x, y)
    PROVE  SameEvents(Append(w, x), Append(v, y))
<1>1. Len(w) = Len(v) /\ \A i \in 1..Len(w) : SameEvent(w[i], v[i])
  BY DEF SameEvents
<1> DEFINE a == Append(w, x)
           b == Append(v, y)
<1>2. /\ Len(a) = Len(w) + 1 /\ Len(b) = Len(w) + 1 /\ Len(w) \in Nat
      /\ a[Len(w) + 1] = x /\ b[Len(w) + 1] = y
      /\ \A i \in 1..Len(w) : a[i] = w[i] /\ b[i] = v[i]
  BY <1>1
<1> HIDE DEF a, b
<1>3. ASSUME NEW i \in 1..(Len(w) + 1) PROVE SameEvent(a[i], b[i])
  <2>1. CASE i = Len(w) + 1
    BY <1>2, <2>1
  <2>2. CASE i # Len(w) + 1
    <3>1. i \in 1..Len(w)
      BY <1>2, <2>2
    <3> QED BY <1>1, <1>2, <3>1
  <2> QED BY <2>1, <2>2
<1>4. SameEvents(a, b)
  BY <1>2, <1>3 DEF SameEvents
<1> QED BY <1>4 DEF a, b

LEMMA SameEventItself ==
    ASSUME NEW ev
    PROVE  SameEvent(ev, ev)
BY SameWordItself DEF SameEvent, SameLines

LEMMA SameWordTransitive ==
    ASSUME NEW u, NEW v, NEW w, SameWord(u, v), SameWord(v, w)
    PROVE  SameWord(u, w)
BY SamePieceFacts DEF SameWord

LEMMA SameEventTransitive ==
    ASSUME NEW u, NEW v, NEW w, SameEvent(u, v), SameEvent(v, w)
    PROVE  SameEvent(u, w)
<1>1. SameWord(u.type, w.type)
  BY SameWordTransitive DEF SameEvent
<1>2. SameLines(u.data, w.data)
  BY SameWordTransitive DEF SameEvent, SameLines
<1> QED BY <1>1, <1>2 DEF SameEvent

LEMMA SameEventsTransitive ==
    ASSUME NEW u, NEW v, NEW w, SameEvents(u, v), SameEvents(v, w)
    PROVE  SameEvents(u, w)
BY SameEventTransitive DEF SameEvents

LEMMA LossySame ==
    ASSUME NEW chunk \in Seq(Pieces)
    PROVE  Lossy(chunk) \in Seq(Pieces) /\ SameWord(chunk, Lossy(chunk))
<1> DEFINE n == Len(chunk)
           L == Lossy(chunk)
<1>1. n \in Nat /\ \A i \in 1..n : chunk[i] \in Pieces
  OBVIOUS
<1>2. ASSUME NEW i \in 1..n
      PROVE  L[i] \in {chunk[i], Bad} /\ (L[i] = Bad \/ L[i] = chunk[i])
             /\ SamePiece(chunk[i], L[i])
  BY DEF Lossy, SamePiece
<1>3. DOMAIN L = 1..n
  BY DEF Lossy
<1>4. \A i \in 1..n : L[i] \in Pieces
  BY <1>1, <1>2, SseParserAssumption
<1>5. L \in Seq(Pieces) /\ Len(L) = n
  <2>1. L = [i \in 1..n |-> L[i]]
    BY DEF Lossy
  <2> HIDE DEF L, n
  <2> QED BY <1>1, <1>4, <2>1
<1> HIDE DEF L
<1>6. SameWord(chunk, L)
  BY <1>2, <1>5 DEF SameWord
<1> QED BY <1>5, <1>6 DEF L

\* Parsers that differ in damaged letters only.
Alike(p, q) ==
    /\ SameWord(p.leftover, q.leftover) /\ SameWord(p.type, q.type)
    /\ SameLines(p.lines, q.lines) /\ SameEvents(p.out, q.out)

LEMMA AlikeItself ==
    ASSUME NEW p
    PROVE  Alike(p, p)
BY SameWordItself, SameEventItself DEF Alike, SameLines, SameEvents

LEMMA TakeLineAlike ==
    ASSUME NEW p \in Parsers, NEW q \in Parsers, Alike(p, q),
           NEW line \in Words, NEW other \in Words, SameWord(line, other)
    PROVE  Alike(TakeLine(p, line), TakeLine(q, other))
<1> DEFINE ptype == p.type
           qtype == q.type
           plines == p.lines
           qlines == q.lines
           pout == p.out
           qout == q.out
           t == Tail(line)
           u == Tail(other)
<1>1. /\ SameWord(p.leftover, q.leftover) /\ SameWord(ptype, qtype)
      /\ SameLines(plines, qlines) /\ SameEvents(pout, qout)
  BY DEF Alike
<1>2. /\ ptype \in Words /\ qtype \in Words
      /\ plines \in Seq(Words) /\ qlines \in Seq(Words)
      /\ pout \in Seq(ReadEvents) /\ qout \in Seq(ReadEvents)
      /\ p = [leftover |-> p.leftover, type |-> ptype, lines |-> plines, out |-> pout]
      /\ q = [leftover |-> q.leftover, type |-> qtype, lines |-> qlines, out |-> qout]
  BY DEF Parsers
<1>3. line = <<>> <=> other = <<>>
  <2>1. Len(line) = Len(other)
    BY DEF SameWord
  <2> QED BY <2>1 DEF Words
<1>4. plines = <<>> <=> qlines = <<>>
  <2> HIDE DEF plines, qlines
  <2>1. Len(plines) = Len(qlines)
    BY <1>1 DEF SameLines
  <2> QED BY <1>2, <2>1
<1>5. line # <<>> => /\ line[1] = "event:" <=> other[1] = "event:"
                     /\ line[1] = "data:" <=> other[1] = "data:"
                     /\ SameWord(t, u) /\ t \in Words /\ u \in Words
  <2> SUFFICES ASSUME line # <<>>
               PROVE  /\ line[1] = "event:" <=> other[1] = "event:"
                      /\ line[1] = "data:" <=> other[1] = "data:"
                      /\ SameWord(t, u) /\ t \in Words /\ u \in Words
    OBVIOUS
  <2>1. SamePiece(line[1], other[1]) /\ SameWord(t, u)
    BY SameWordTail
  <2>2. t \in Words /\ u \in Words
    BY <1>3 DEF Words
  <2> HIDE DEF t, u
  <2> QED BY <2>1, <2>2, SamePieceFacts
<1>6. CASE line = <<>> /\ p.lines # <<>>
  <2> DEFINE e == [type |-> ptype, data |-> plines]
             d == [type |-> qtype, data |-> qlines]
  <2>1. e \in ReadEvents /\ d \in ReadEvents /\ SameEvent(e, d)
    <3> HIDE DEF ptype, qtype, plines, qlines
    <3> QED BY <1>1, <1>2 DEF ReadEvents, SameEvent
  <2>2. SameEvents(Append(pout, e), Append(qout, d))
    <3> HIDE DEF pout, qout, e, d
    <3> QED BY <1>1, <1>2, <2>1, SameEventsAppend
  <2>3. TakeLine(p, line) = [leftover |-> p.leftover, type |-> Fresh.type,
                             lines |-> <<>>, out |-> Append(pout, e)]
    BY <1>2, <1>6 DEF TakeLine
  <2>4. TakeLine(q, other) = [leftover |-> q.leftover, type |-> Fresh.type,
                              lines |-> <<>>, out |-> Append(qout, d)]
    BY <1>2, <1>3, <1>4, <1>6 DEF TakeLine
  <2>5. SameWord(Fresh.type, Fresh.type) /\ SameLines(<<>>, <<>>)
    BY SameWordItself DEF SameLines
  <2> HIDE DEF e, d, pout, qout
  <2> QED BY <1>1, <2>2, <2>3, <2>4, <2>5 DEF Alike
<1>7. CASE line # <<>> /\ line[1] = "event:"
  <2>1. TakeLine(p, line) = [leftover |-> p.leftover, type |-> t,
                             lines |-> plines, out |-> pout]
    BY <1>2, <1>7 DEF TakeLine
  <2>2. TakeLine(q, other) = [leftover |-> q.leftover, type |-> u,
                              lines |-> qlines, out |-> qout]
    BY <1>2, <1>3, <1>5, <1>7 DEF TakeLine
  <2> HIDE DEF t, u, plines, qlines, pout, qout
  <2> QED BY <1>1, <1>5, <1>7, <2>1, <2>2 DEF Alike
<1>8. CASE line # <<>> /\ line[1] # "event:" /\ line[1] = "data:"
  <2>1. TakeLine(p, line) = [leftover |-> p.leftover, type |-> ptype,
                             lines |-> Append(plines, t), out |-> pout]
    BY <1>2, <1>8 DEF TakeLine
  <2>2. TakeLine(q, other) = [leftover |-> q.leftover, type |-> qtype,
                              lines |-> Append(qlines, u), out |-> qout]
    BY <1>2, <1>3, <1>5, <1>8 DEF TakeLine
  <2> HIDE DEF t, u, plines, qlines, pout, qout
  <2>3. SameLines(Append(plines, t), Append(qlines, u))
    BY <1>1, <1>2, <1>5, <1>8, SameLinesAppend
  <2> QED BY <1>1, <2>1, <2>2, <2>3 DEF Alike
<1>9. CASE /\ ~(line = <<>> /\ p.lines # <<>>)
           /\ line # <<>> => line[1] # "event:" /\ line[1] # "data:"
  <2>1. TakeLine(p, line) = p
    BY <1>9 DEF TakeLine
  <2>2. TakeLine(q, other) = q
    <3>1. /\ ~(other = <<>> /\ q.lines # <<>>)
          /\ other # <<>> => other[1] # "event:" /\ other[1] # "data:"
      BY <1>3, <1>4, <1>5, <1>9
    <3> QED BY <3>1 DEF TakeLine
  <2> QED BY <2>1, <2>2
<1> QED BY <1>6, <1>7, <1>8, <1>9

LEMMA TakePieceAlike ==
    ASSUME NEW p \in Parsers, NEW q \in Parsers, Alike(p, q),
           NEW x \in Pieces, NEW y \in Pieces, SamePiece(x, y)
    PROVE  Alike(TakePiece(p, x), TakePiece(q, y))
<1> DEFINE left == p.leftover
           other == q.leftover
<1>0. <<>> \in Words /\ left \in Words /\ other \in Words
  BY DEF Parsers, Words
<1>1. SameWord(left, other) /\ (x = Newline <=> y = Newline)
  BY SamePieceFacts DEF Alike
<1>2. CASE x = Newline
  <2> DEFINE a == [p EXCEPT !.leftover = <<>>]
             b == [q EXCEPT !.leftover = <<>>]
  <2>1. a \in Parsers /\ b \in Parsers
    BY <1>0 DEF Parsers
  <2>2. Alike(a, b)
    BY SameWordItself DEF Alike, Parsers
  <2>3. TakePiece(p, x) = TakeLine(a, left) /\ TakePiece(q, y) = TakeLine(b, other)
    BY <1>1, <1>2 DEF TakePiece
  <2> HIDE DEF a, b, left, other
  <2>4. Alike(TakeLine(a, left), TakeLine(b, other))
    BY <1>0, <1>1, <2>1, <2>2, TakeLineAlike
  <2> QED BY <2>3, <2>4
<1>3. CASE x # Newline
  <2>1. /\ TakePiece(p, x) = [p EXCEPT !.leftover = Append(left, x)]
        /\ TakePiece(q, y) = [q EXCEPT !.leftover = Append(other, y)]
    BY <1>1, <1>3 DEF TakePiece
  <2>2. SameWord(Append(left, x), Append(other, y))
    <3>1. left \in Seq(Pieces) /\ other \in Seq(Pieces)
      BY <1>0 DEF Words
    <3> HIDE DEF left, other
    <3> QED BY <1>1, <3>1, SameWordAppend
  <2> HIDE DEF left, other
  <2> QED BY <2>1, <2>2 DEF Alike, Parsers
<1> QED BY <1>2, <1>3

LEMMA TakeTextAlike ==
    ASSUME NEW p \in Parsers, NEW q \in Parsers, Alike(p, q),
           NEW t \in Seq(Pieces), NEW u \in Seq(Pieces), SameWord(t, u)
    PROVE  Alike(TakeText(p, t), TakeText(q, u))
<1> DEFINE m == Len(t)
           P(n) == TakeText(p, SubSeq(t, 1, n))
           Q(n) == TakeText(q, SubSeq(u, 1, n))
           Good == {n \in 0..m : Alike(P(n), Q(n))}
<1>1. /\ m \in Nat /\ Len(u) = m
      /\ \A n \in 1..m : SamePiece(t[n], u[n])
  BY DEF SameWord
<1>2. 0 \in Good
  <2>1. SubSeq(t, 1, 0) = <<>> /\ SubSeq(u, 1, 0) = <<>>
    OBVIOUS
  <2>2. P(0) = p /\ Q(0) = q
    BY <2>1, TakeTextEmpty
  <2> HIDE DEF P, Q
  <2> QED BY <1>1, <2>2
<1>3. ASSUME NEW n \in 0..m, n + 1 <= m, n \in Good
      PROVE  n + 1 \in Good
  <2> DEFINE a == SubSeq(t, 1, n)
             b == SubSeq(u, 1, n)
             x == t[n + 1]
             y == u[n + 1]
  <2>1. /\ a \in Seq(Pieces) /\ b \in Seq(Pieces)
        /\ x \in Pieces /\ y \in Pieces /\ n + 1 \in 1..m /\ n + 1 \in 0..m
    BY <1>1, <1>3
  <2>2. SubSeq(t, 1, n + 1) = Append(a, x)
    BY <1>1, <1>3
  <2>3. SubSeq(u, 1, n + 1) = Append(b, y)
    BY <1>1, <1>3
  <2>4. SamePiece(x, y)
    BY <1>1, <2>1
  <2>5. Alike(TakeText(p, a), TakeText(q, b))
    BY <1>3
  <2> HIDE DEF a, b, x, y
  <2>6. TakeText(p, a) \in Parsers /\ TakeText(q, b) \in Parsers
    BY <2>1, TakeTextType
  <2>7. /\ TakeText(p, Append(a, x)) = TakePiece(TakeText(p, a), x)
        /\ TakeText(q, Append(b, y)) = TakePiece(TakeText(q, b), y)
    BY <2>1, TakeTextAppend
  <2>8. Alike(TakePiece(TakeText(p, a), x), TakePiece(TakeText(q, b), y))
    BY <2>1, <2>4, <2>5, <2>6, TakePieceAlike
  <2>9. Alike(P(n + 1), Q(n + 1))
    BY <2>2, <2>3, <2>7, <2>8
  <2> HIDE DEF P, Q
  <2> QED BY <2>1, <2>9
<1>4. m \in Good
  <2>1. m \in Nat
    BY <1>1
  <2> HIDE DEF Good, m
  <2>2. 0..m \subseteq Good
    BY <1>2, <1>3, <2>1, NumberInduction
  <2> QED BY <2>1, <2>2
<1>5. SubSeq(t, 1, m) = t /\ SubSeq(u, 1, m) = u
  BY <1>1
<1> QED BY <1>4, <1>5

-----------------------------------------------------------------------------
(***************************************************************************)
(* One connection.  Fits is what the inductive invariant says of it, given *)
(* the phase and the parser of its subscription and the broadcasts.        *)
(***************************************************************************)

Brings(p, ch) == TakeText([p EXCEPT !.out = ch.got], ch.wire)

Fits(ph, p, ch, cs) ==
    /\ ch \in Channels
    /\ ch.end = "open" => ph = "streaming"
    /\ ch.end = "opening" => ph = "connecting"
    /\ ch.listed => ch.sent = SubSeq(cs, ch.joined + 1, Len(cs))
    /\ ch.joined <= Len(cs)
    /\ ch.end # "open" => ch.got = <<>>
    /\ ch.end = "gone" => ch.wire = <<>>
    /\ ch.end # "gone" => AtRest(Brings(p, ch)) /\ SameEvents(ch.sent, Brings(p, ch).out)

LEMMA ChannelFields ==
    ASSUME NEW ch \in Channels
    PROVE  /\ ch.end \in {"opening", "open", "gone"}
           /\ ch.alive \in BOOLEAN /\ ch.listed \in BOOLEAN
           /\ ch.wire \in Seq(Pieces) /\ ch.sent \in Seq(Events)
           /\ ch.got \in Seq(ReadEvents) /\ ch.joined \in 0..MaxCasts
           /\ ch = [end |-> ch.end, alive |-> ch.alive, listed |-> ch.listed,
                    wire |-> ch.wire, sent |-> ch.sent, got |-> ch.got,
                    joined |-> ch.joined]
BY DEF Channels

LEMMA FreshType == Fresh \in Parsers /\ Fresh.out = <<>> /\ AtRest(Fresh)
<1>1. "message" \in Pieces \ {Newline}
  BY Literals
<1>2. <<"message">> \in Words /\ <<>> \in Words
  BY <1>1 DEF Words
<1>3. <<>> \in Seq(Words) /\ <<>> \in Seq(ReadEvents)
  OBVIOUS
<1> QED BY <1>2, <1>3 DEF Fresh, Parsers, AtRest

\* What it brings depends on the wire, the events read and the parser only.
LEMMA BringsType ==
    ASSUME NEW p \in Parsers, NEW ch \in Channels
    PROVE  Brings(p, ch) \in Parsers
<1>1. [p EXCEPT !.out = ch.got] \in Parsers
  BY ChannelFields DEF Parsers
<1>2. ch.wire \in Seq(Pieces)
  BY ChannelFields
<1> DEFINE q == [p EXCEPT !.out = ch.got]
           w == ch.wire
<1> HIDE DEF q, w
<1>3. TakeText(q, w) \in Parsers
  BY <1>1, <1>2, TakeTextType DEF q, w
<1> QED BY <1>3 DEF q, w, Brings

LEMMA GoneFits ==
    ASSUME NEW ph, NEW p, NEW ph2, NEW p2, NEW ch, NEW cs,
           Fits(ph, p, ch, cs), ch.end = "gone"
    PROVE  Fits(ph2, p2, ch, cs)
BY DEF Fits

LEMMA HangupFits ==
    ASSUME NEW ph, NEW p, NEW ph2, NEW p2, NEW ch, NEW cs, Fits(ph, p, ch, cs)
    PROVE  Fits(ph2, p2, [ch EXCEPT !.end = "gone", !.wire = <<>>, !.got = <<>>], cs)
<1> DEFINE d == [ch EXCEPT !.end = "gone", !.wire = <<>>, !.got = <<>>]
<1>1. ch \in Channels
  BY DEF Fits
<1>2. /\ d.end = "gone" /\ d.wire = <<>> /\ d.got = <<>> /\ d.sent = ch.sent
      /\ d.joined = ch.joined /\ d.listed = ch.listed
  BY <1>1 DEF Channels
<1>3. <<>> \in Seq(Pieces) /\ <<>> \in Seq(ReadEvents)
  OBVIOUS
<1>4. d \in Channels
  BY <1>1, <1>3 DEF Channels
<1> HIDE DEF d
<1>5. Fits(ph2, p2, d, cs)
  BY <1>2, <1>4 DEF Fits
<1> QED BY <1>5 DEF d

\* The same connection, its emitter or its receiver gone.
LEMMA ServerEndFits ==
    ASSUME NEW ph, NEW p, NEW ch, NEW cs, Fits(ph, p, ch, cs)
    PROVE  /\ Fits(ph, p, [ch EXCEPT !.listed = FALSE], cs)
           /\ Fits(ph, p, [ch EXCEPT !.alive = FALSE], cs)
<1>1. ch \in Channels
  BY DEF Fits
<1>2. ASSUME NEW d, d \in {[ch EXCEPT !.listed = FALSE], [ch EXCEPT !.alive = FALSE]}
      PROVE  Fits(ph, p, d, cs)
  <2>1. d \in Channels
    BY <1>1, <1>2 DEF Channels
  <2>2. /\ d.end = ch.end /\ d.wire = ch.wire /\ d.got = ch.got /\ d.sent = ch.sent
        /\ d.joined = ch.joined /\ (d.listed => ch.listed)
    BY <1>1, <1>2 DEF Channels
  <2>3. Brings(p, d) = Brings(p, ch)
    BY <2>2 DEF Brings
  <2> QED BY <2>1, <2>2, <2>3 DEF Fits
<1>3. Fits(ph, p, [ch EXCEPT !.listed = FALSE], cs)
  BY <1>2
<1>4. Fits(ph, p, [ch EXCEPT !.alive = FALSE], cs)
  BY <1>2
<1> QED BY <1>3, <1>4

LEMMA OpenFits ==
    ASSUME NEW p, NEW ch, NEW cs, Fits("connecting", p, ch, cs), ch.end = "opening"
    PROVE  Fits("streaming", p, [ch EXCEPT !.end = "open"], cs)
<1> DEFINE d == [ch EXCEPT !.end = "open"]
<1>1. ch \in Channels
  BY DEF Fits
<1>2. /\ d \in Channels /\ d.end = "open" /\ d.wire = ch.wire /\ d.got = ch.got
      /\ d.sent = ch.sent /\ d.joined = ch.joined /\ d.listed = ch.listed
  BY <1>1 DEF Channels
<1> HIDE DEF d
<1>3. Brings(p, d) = Brings(p, ch)
  BY <1>2 DEF Brings
<1>4. Fits("streaming", p, d, cs)
  BY <1>2, <1>3 DEF Fits
<1> QED BY <1>4 DEF d

LEMMA AcceptFits ==
    ASSUME casts \in Seq(Events), Len(casts) <= MaxCasts
    PROVE  Fits("connecting", Fresh, NewChannel, casts)
<1> DEFINE ch == NewChannel
<1>1. /\ <<>> \in Seq(Pieces) /\ <<>> \in Seq(ReadEvents) /\ <<>> \in Seq(Events)
      /\ Len(casts) \in 0..MaxCasts
  BY HttpSseAssumption
<1>2. ch \in Channels
  BY <1>1 DEF NewChannel, Channels
<1>3. /\ ch.end = "opening" /\ ch.listed /\ ch.wire = <<>> /\ ch.got = <<>>
      /\ ch.sent = <<>> /\ ch.joined = Len(casts)
  BY DEF NewChannel
<1> HIDE DEF ch
<1>4. SubSeq(casts, Len(casts) + 1, Len(casts)) = <<>>
  BY <1>1
<1>5. Brings(Fresh, ch) = Fresh
  <2>1. [Fresh EXCEPT !.out = <<>>] = Fresh
    BY DEF Fresh
  <2> QED BY <1>3, <2>1, TakeTextEmpty DEF Brings
<1>6. SameEvents(<<>>, Fresh.out)
  BY FreshType DEF SameEvents
<1>7. Fits("connecting", Fresh, ch, casts)
  <2>1. ch.joined <= Len(casts)
    BY <1>1, <1>3
  <2> QED BY <1>2, <1>3, <1>4, <1>5, <1>6, <2>1, FreshType DEF Fits
<1> QED BY <1>7 DEF ch

LEMMA AlikeAtRest ==
    ASSUME NEW p \in Parsers, NEW q \in Parsers, Alike(p, q), AtRest(p)
    PROVE  AtRest(q)
<1> DEFINE left == q.leftover
           lines == q.lines
           type == q.type
<1>1. left \in Words /\ lines \in Seq(Words) /\ type \in Words
  BY DEF Parsers
<1>2. SameWord(<<>>, left) /\ SameLines(<<>>, lines) /\ SameWord(<<"message">>, type)
  BY DEF Alike, AtRest, Fresh
<1> HIDE DEF left, lines, type
<1>3. left = <<>>
  <2>1. Len(left) = 0
    BY <1>2 DEF SameWord
  <2> QED BY <1>1, <2>1 DEF Words
<1>4. lines = <<>>
  <2>1. Len(lines) = 0
    BY <1>2 DEF SameLines
  <2> QED BY <1>1, <2>1
<1>5. type = <<"message">>
  <2>1. Len(type) = 1 /\ SamePiece("message", type[1])
    BY <1>2 DEF SameWord
  <2>2. type[1] = "message"
    BY <2>1, SamePieceFacts
  <2> QED BY <1>1, <2>1, <2>2 DEF Words
<1> QED BY <1>3, <1>4, <1>5 DEF left, lines, type, AtRest, Fresh

LEMMA ChunkFits ==
    ASSUME NEW p \in Parsers, p.out = <<>>, NEW ch, NEW cs, Fits("streaming", p, ch, cs),
           ch.end = "open", NEW k \in 1..Len(ch.wire), NEW x,
           x = TakeChunk(p, SubSeq(ch.wire, 1, k))
    PROVE  /\ [x EXCEPT !.out = <<>>] \in Parsers
           /\ Fits("streaming", [x EXCEPT !.out = <<>>],
                   [ch EXCEPT !.wire = SubSeq(@, k + 1, Len(@)), !.got = @ \o x.out], cs)
<1> DEFINE wire == ch.wire
           got == ch.got
           c == SubSeq(wire, 1, k)
           rest == SubSeq(wire, k + 1, Len(wire))
           l == Lossy(c)
           more == x.out
           y == [x EXCEPT !.out = <<>>]
           d == [ch EXCEPT !.wire = rest, !.got = got \o more]
           p0 == [p EXCEPT !.out = got]
           q1 == TakeText(p0, c)
           z == TakeText(p0, l)
<1>1. /\ ch \in Channels /\ wire \in Seq(Pieces) /\ got \in Seq(ReadEvents)
      /\ AtRest(Brings(p, ch)) /\ SameEvents(ch.sent, Brings(p, ch).out)
  <2>1. ch \in Channels
    BY DEF Fits
  <2> QED BY <2>1, ChannelFields DEF Fits
<1>2. c \in Seq(Pieces) /\ rest \in Seq(Pieces) /\ wire = c \o rest
  <2>1. k \in 1..Len(wire) /\ wire \in Seq(Pieces)
    BY <1>1
  <2> HIDE DEF wire
  <2> QED BY <2>1
<1>3. l \in Seq(Pieces) /\ SameWord(c, l)
  <2> HIDE DEF c
  <2> QED BY <1>2, LossySame
<1>4. x = TakeText(p, l) /\ x \in Parsers
  <2>1. [p EXCEPT !.out = <<>>] = p
    BY DEF Parsers
  <2>2. x = TakeText(p, l)
    BY <2>1 DEF TakeChunk
  <2> HIDE DEF l
  <2> QED BY <1>3, <2>2, TakeTextType
<1>5. y \in Parsers /\ more \in Seq(ReadEvents) /\ got \o more \in Seq(ReadEvents)
  <2>1. more \in Seq(ReadEvents) /\ <<>> \in Seq(ReadEvents)
    BY <1>4 DEF Parsers
  <2>2. y \in Parsers
    BY <1>4, <2>1 DEF Parsers
  <2>3. got \o more \in Seq(ReadEvents)
    <3> HIDE DEF got, more
    <3> QED BY <1>1, <2>1
  <2> QED BY <2>1, <2>2, <2>3
<1>6. p0 \in Parsers
  <2> HIDE DEF got
  <2> QED BY <1>1 DEF Parsers
<1>7. z = [y EXCEPT !.out = got \o more]
  <2> HIDE DEF l, got
  <2>1. TakeText([p EXCEPT !.out = got \o @], l) = [TakeText(p, l) EXCEPT !.out = got \o @]
    BY <1>1, <1>3, Behind
  <2>2. got \o <<>> = got
    BY <1>1
  <2>3. p0 = [p EXCEPT !.out = got \o @]
    BY <2>2
  <2>4. z = [x EXCEPT !.out = got \o @]
    BY <1>4, <2>1, <2>3
  <2>5. [x EXCEPT !.out = got \o @] = [y EXCEPT !.out = got \o more]
    BY <1>4 DEF Parsers
  <2> QED BY <2>4, <2>5
<1>8. Alike(q1, z) /\ q1 \in Parsers /\ z \in Parsers
  <2> HIDE DEF p0, c, l
  <2> QED BY <1>2, <1>3, <1>6, AlikeItself, TakeTextAlike, TakeTextType
<1>9. Brings(p, ch) = TakeText(q1, rest)
  <2> HIDE DEF p0, c, rest
  <2>1. TakeText(p0, c \o rest) = TakeText(TakeText(p0, c), rest)
    BY <1>2, TakeTextConcat
  <2> QED BY <1>2, <2>1 DEF Brings, p0
<1>10. d \in Channels
  <2> HIDE DEF rest, more, got
  <2> QED BY <1>1, <1>2, <1>5 DEF Channels
<1>11. /\ d.end = "open" /\ d.wire = rest /\ d.got = got \o more /\ d.sent = ch.sent
       /\ d.joined = ch.joined /\ d.listed = ch.listed
  BY <1>1 DEF Channels
<1>12. Brings(y, d) = TakeText(z, rest)
  <2> HIDE DEF d, y, z, rest, got, more
  <2> QED BY <1>7, <1>11 DEF Brings
<1> HIDE DEF q1, z, rest, y, c
<1>13. /\ Alike(TakeText(q1, rest), TakeText(z, rest))
       /\ TakeText(q1, rest) \in Parsers /\ TakeText(z, rest) \in Parsers
  BY <1>2, <1>8, SameWordItself, TakeTextAlike, TakeTextType
<1>14. AtRest(Brings(y, d))
  BY <1>1, <1>9, <1>12, <1>13, AlikeAtRest
<1>15. SameEvents(ch.sent, Brings(y, d).out)
  <2>1. SameEvents(Brings(p, ch).out, Brings(y, d).out)
    BY <1>9, <1>12, <1>13 DEF Alike
  <2> QED BY <1>1, <2>1, SameEventsTransitive
<1> HIDE DEF d
<1>16. Fits("streaming", y, d, cs)
  BY <1>10, <1>11, <1>14, <1>15 DEF Fits
<1> QED BY <1>5, <1>16 DEF y, d, rest, got, more, wire

LEMMA PushFits ==
    ASSUME NEW ph, NEW p \in Parsers, NEW ch, NEW cs \in Seq(Events), Fits(ph, p, ch, cs),
           NEW ev \in Events
    PROVE  Fits(ph, p, Push(ch, ev), Append(cs, ev))
<1> DEFINE sent == ch.sent
           wire == ch.wire
           j == ch.joined
           n == Len(cs)
<1>1. /\ ch \in Channels /\ sent \in Seq(Events) /\ wire \in Seq(Pieces)
      /\ j \in Nat /\ n \in Nat /\ j <= n
  <2>1. ch \in Channels /\ j <= n
    BY DEF Fits
  <2>2. sent \in Seq(Events) /\ wire \in Seq(Pieces) /\ j \in Nat
    BY <2>1, ChannelFields, HttpSseAssumption
  <2>3. n \in Nat
    OBVIOUS
  <2> QED BY <2>1, <2>2, <2>3
<1>2. Len(Append(cs, ev)) = n + 1 /\ j <= n + 1
  BY <1>1
<1>3. CASE ~ch.listed
  BY <1>2, <1>3 DEF Push, Fits
<1>4. CASE ch.listed /\ ~ch.alive
  <2> DEFINE d == [ch EXCEPT !.listed = FALSE]
  <2>1. Fits(ph, p, d, cs) /\ ~d.listed /\ d.joined = j
    BY <1>1, ServerEndFits DEF Channels
  <2>2. Push(ch, ev) = d
    BY <1>4 DEF Push
  <2> HIDE DEF d
  <2> QED BY <1>2, <2>1, <2>2 DEF Fits
<1>5. CASE ch.listed /\ ch.alive
  <2> DEFINE d == Send(ch, ev)
             w == IF ch.end = "gone" THEN wire ELSE wire \o Encode(ev)
             s2 == Append(sent, ev)
  <2>1. IsEvent(ev) /\ ev \in ReadEvents /\ Encode(ev) \in Seq(Pieces)
    BY HttpSseAssumption, EncodeType DEF IsEvent
  <2>2. w \in Seq(Pieces) /\ s2 \in Seq(Events)
    <3> HIDE DEF wire, sent
    <3> QED BY <1>1, <2>1
  <2>3. d = [ch EXCEPT !.sent = s2, !.wire = w]
    BY DEF Send
  <2>4. /\ d \in Channels /\ d.end = ch.end /\ d.wire = w /\ d.got = ch.got
        /\ d.sent = s2 /\ d.joined = j /\ d.listed
    <3> HIDE DEF d, w, s2
    <3> QED BY <1>1, <1>5, <2>2, <2>3 DEF Channels
  <2>5. s2 = SubSeq(Append(cs, ev), j + 1, n + 1)
    <3>1. sent = SubSeq(cs, j + 1, n)
      BY <1>5 DEF Fits
    <3> HIDE DEF sent, j
    <3>2. Append(SubSeq(cs, j + 1, n), ev) = SubSeq(Append(cs, ev), j + 1, n + 1)
      BY <1>1
    <3> QED BY <3>1, <3>2
  <2>6. ch.end # "gone" => AtRest(Brings(p, d)) /\ SameEvents(s2, Brings(p, d).out)
    <3> SUFFICES ASSUME ch.end # "gone"
                 PROVE  AtRest(Brings(p, d)) /\ SameEvents(s2, Brings(p, d).out)
      OBVIOUS
    <3> DEFINE q == Brings(p, ch)
               out == q.out
               e == Encode(ev)
               r == [p EXCEPT !.out = ch.got]
    <3>1. q \in Parsers /\ AtRest(q) /\ SameEvents(sent, out) /\ out \in Seq(ReadEvents)
      <4>1. q \in Parsers /\ AtRest(q) /\ SameEvents(sent, out)
        BY <1>1, BringsType DEF Fits
      <4> HIDE DEF q
      <4> QED BY <4>1 DEF Parsers
    <3>2. Brings(p, d) = TakeText(q, e)
      <4>1. Brings(p, d) = TakeText(r, wire \o e)
        <5> HIDE DEF d
        <5> QED BY <2>4 DEF Brings
      <4>2. q = TakeText(r, wire)
        BY DEF Brings
      <4> HIDE DEF r, wire, e, q
      <4>3. TakeText(r, wire \o e) = TakeText(TakeText(r, wire), e)
        BY <1>1, <2>1, TakeTextConcat DEF e
      <4> QED BY <4>1, <4>2, <4>3
    <3> HIDE DEF q
    <3>3. TakeText(q, e) = [q EXCEPT !.out = Append(@, ev)]
      BY <2>1, <3>1, ReadEvent
    <3>4. AtRest([q EXCEPT !.out = Append(@, ev)])
      BY <3>1 DEF AtRest, Parsers
    <3>5. [q EXCEPT !.out = Append(@, ev)].out = Append(out, ev)
      BY <3>1 DEF Parsers
    <3>6. SameEvents(s2, Append(out, ev))
      <4> HIDE DEF out, sent
      <4> QED BY <1>1, <2>1, <3>1, SameEventItself, SameEventsAppend
    <3> HIDE DEF s2, d
    <3> QED BY <3>2, <3>3, <3>4, <3>5, <3>6
  <2>7. ch.end = "gone" => d.wire = <<>>
    BY <2>4 DEF Fits
  <2>8. Push(ch, ev) = d
    BY <1>5 DEF Push
  <2> HIDE DEF d, s2
  <2>9. Fits(ph, p, d, Append(cs, ev))
    BY <1>2, <2>4, <2>5, <2>6, <2>7 DEF Fits
  <2> QED BY <2>8, <2>9
<1> QED BY <1>3, <1>4, <1>5

LEMMA KeepAliveFits ==
    ASSUME NEW ph, NEW p \in Parsers, NEW ch, NEW cs, Fits(ph, p, ch, cs),
           ch.end = "open", ch.wire = <<>>
    PROVE  Fits(ph, p, [ch EXCEPT !.wire = KeepAliveText], cs)
<1> DEFINE d == [ch EXCEPT !.wire = KeepAliveText]
           q == Brings(p, ch)
           r == [p EXCEPT !.out = ch.got]
<1>1. ch \in Channels /\ AtRest(q)
  BY DEF Fits
<1>2. q = r /\ q \in Parsers
  BY <1>1, TakeTextEmpty, BringsType DEF Brings
<1>3. /\ d \in Channels /\ d.end = "open" /\ d.wire = KeepAliveText /\ d.got = ch.got
      /\ d.sent = ch.sent /\ d.joined = ch.joined /\ d.listed = ch.listed
  <2> DEFINE t == KeepAliveText
             e == [ch EXCEPT !.wire = t]
  <2>1. t \in Seq(Pieces)
    BY KeepAliveType
  <2> HIDE DEF t
  <2>2. /\ e \in Channels /\ e.end = ch.end /\ e.wire = t /\ e.got = ch.got
        /\ e.sent = ch.sent /\ e.joined = ch.joined /\ e.listed = ch.listed
    BY <1>1, <2>1 DEF Channels
  <2>3. e = d
    BY DEF t
  <2> HIDE DEF d, e
  <2> QED BY <2>2, <2>3 DEF t
<1>4. Brings(p, d) = q
  <2>1. Brings(p, d) = TakeText(r, KeepAliveText)
    BY <1>3 DEF Brings
  <2> HIDE DEF q, r
  <2>2. TakeText(q, KeepAliveText) = q
    BY <1>1, <1>2, ReadKeepAlive
  <2> QED BY <1>2, <2>1, <2>2
<1> HIDE DEF d
<1>5. Fits(ph, p, d, cs)
  BY <1>3, <1>4 DEF Fits
<1> QED BY <1>5 DEF d

-----------------------------------------------------------------------------
(***************************************************************************)
(* One subscription: its phase, URL, parser and connections, and the       *)
(* broadcasts.                                                             *)
(***************************************************************************)

Sound(ph, u, p, chs, cs) ==
    /\ ph \notin {"none", "ended"} => u \in Endpoints
    /\ p \in Parsers /\ p.out = <<>>
    /\ ph # "streaming" => p = Fresh
    /\ \A c, d \in chs : c.end # "gone" /\ d.end # "gone" => c = d
    /\ ph = "streaming" => \E ch \in chs : ch.end = "open"
    /\ \A ch \in chs : Fits(ph, p, ch, cs)

LEMMA PushEnd ==
    ASSUME NEW ch \in Channels, NEW ev
    PROVE  Push(ch, ev).end = ch.end
BY DEF Push, Send, Channels

\* A connection goes on, or the subscription has its answer or a chunk.
LEMMA BecomesSound ==
    ASSUME NEW ph, NEW u, NEW p, NEW chs, NEW cs, Sound(ph, u, p, chs, cs),
           NEW ch \in chs, NEW new, NEW ph2, NEW p2 \in Parsers, p2.out = <<>>,
           Fits(ph2, p2, new, cs),
           \/ ph2 = ph /\ p2 = p /\ new.end = ch.end
           \/ ph2 = "streaming" /\ new.end = "open" /\ ch.end # "gone"
    PROVE  Sound(ph2, u, p2, Known((chs \ {ch}) \cup {new}), cs)
<1> DEFINE all == Known((chs \ {ch}) \cup {new})
<1>1. \A d \in all : d = new \/ (d \in chs /\ d # ch)
  BY DEF Known
<1>2. \A d \in chs : d # ch /\ d.end # "gone" => d \in all
  BY DEF Known
<1>3. new.end # "gone" => new \in all
  BY DEF Known
<1>4. Fits(ph, p, ch, cs)
  BY DEF Sound
<1>5. ph2 \notin {"none", "ended"} => u \in Endpoints
  <2>1. CASE ph2 = ph
    BY <2>1 DEF Sound
  <2>2. CASE ch.end # "gone"
    <3>1. ch.end \in {"opening", "open"}
      BY <1>4, <2>2, ChannelFields DEF Fits
    <3>2. ph \in {"connecting", "streaming"}
      BY <1>4, <3>1 DEF Fits
    <3> QED BY <3>2 DEF Sound
  <2> QED BY <2>1, <2>2
<1>6. ph2 # "streaming" => p2 = Fresh
  BY DEF Sound
<1>7. ASSUME NEW c \in all, NEW d \in all, c.end # "gone", d.end # "gone"
      PROVE  c = d
  <2>1. new.end # "gone" => ch.end # "gone"
    OBVIOUS
  <2> HIDE DEF all
  <2> QED BY <1>1, <1>7, <2>1 DEF Sound
<1>8. ph2 = "streaming" => \E d \in all : d.end = "open"
  <2>1. CASE ph2 = "streaming" /\ new.end = "open"
    <3> HIDE DEF all
    <3> QED BY <1>3, <2>1
  <2>2. CASE ph2 = "streaming" /\ new.end # "open"
    <3>1. ph = "streaming" /\ new.end = ch.end
      BY <2>2
    <3>2. PICK d \in chs : d.end = "open"
      BY <3>1 DEF Sound
    <3>3. d # ch
      BY <2>2, <3>1, <3>2
    <3> HIDE DEF all
    <3> QED BY <1>2, <3>2, <3>3
  <2> QED BY <2>1, <2>2
<1>9. ASSUME NEW d \in all PROVE Fits(ph2, p2, d, cs)
  <2>1. CASE d = new
    BY <2>1
  <2>2. CASE d # new
    <3>1. d \in chs /\ d # ch /\ Fits(ph, p, d, cs)
      <4> HIDE DEF all
      <4> QED BY <1>1, <2>2 DEF Sound
    <3>2. CASE ph2 = ph /\ p2 = p
      BY <3>1, <3>2
    <3>3. CASE ch.end # "gone"
      <4>1. d.end = "gone"
        BY <3>1, <3>3 DEF Sound
      <4> QED BY <3>1, <4>1, GoneFits
    <3> QED BY <3>2, <3>3
  <2> QED BY <2>1, <2>2
<1> HIDE DEF all
<1>10. Sound(ph2, u, p2, all, cs)
  BY <1>5, <1>6, <1>7, <1>8, <1>9 DEF Sound
<1> QED BY <1>10 DEF all

HungUp(chs) ==
    Known({[ch EXCEPT !.end = "gone", !.wire = <<>>, !.got = <<>>] : ch \in chs})

LEMMA HangupSound ==
    ASSUME NEW ph, NEW u, NEW p, NEW chs, NEW cs, Sound(ph, u, p, chs, cs),
           ph \notin {"none", "ended"}, NEW ph2 \in {"pause", "ended"}
    PROVE  Sound(ph2, u, Fresh, HungUp(chs), cs)
<1> DEFINE all == HungUp(chs)
<1>1. ASSUME NEW d \in all PROVE d.end = "gone" /\ Fits(ph2, Fresh, d, cs)
  <2>1. PICK ch \in chs : d = [ch EXCEPT !.end = "gone", !.wire = <<>>, !.got = <<>>]
    BY DEF Known, HungUp
  <2>2. Fits(ph, p, ch, cs)
    BY DEF Sound
  <2>3. ch \in Channels
    BY <2>2 DEF Fits
  <2>4. d.end = "gone"
    BY <2>1, <2>3 DEF Channels
  <2>5. Fits(ph2, Fresh, d, cs)
    BY <2>1, <2>2, HangupFits
  <2> QED BY <2>4, <2>5
<1> HIDE DEF all
<1>2. u \in Endpoints
  BY DEF Sound
<1>3. Sound(ph2, u, Fresh, all, cs)
  BY <1>1, <1>2, FreshType DEF Sound
<1> QED BY <1>3 DEF all

\* A subscription that neither asks nor reads has no connection.
LEMMA ConnectSound ==
    ASSUME NEW ph \in {"none", "pause"}, NEW u, NEW p, NEW chs, NEW cs,
           Sound(ph, u, p, chs, cs), NEW u2 \in Endpoints
    PROVE  Sound("connecting", u2, p, chs, cs)
<1>1. ASSUME NEW ch \in chs PROVE ch.end = "gone" /\ Fits("connecting", p, ch, cs)
  <2>1. Fits(ph, p, ch, cs)
    BY DEF Sound
  <2>2. ch.end = "gone"
    BY <2>1, ChannelFields DEF Fits
  <2> QED BY <2>1, <2>2, GoneFits
<1>2. p \in Parsers /\ p.out = <<>> /\ p = Fresh
  BY DEF Sound
<1> QED BY <1>1, <1>2 DEF Sound

LEMMA AcceptSound ==
    ASSUME casts \in Seq(Events), Len(casts) <= MaxCasts,
           NEW u, NEW p, NEW chs, Sound("connecting", u, p, chs, casts),
           \A ch \in chs : ch.end = "gone"
    PROVE  Sound("connecting", u, p, chs \cup {NewChannel}, casts)
<1>1. p = Fresh /\ u \in Endpoints /\ p \in Parsers /\ p.out = <<>>
  BY DEF Sound
<1>2. Fits("connecting", p, NewChannel, casts)
  BY <1>1, AcceptFits
<1>3. \A ch \in chs : Fits("connecting", p, ch, casts)
  BY DEF Sound
<1> DEFINE n == NewChannel
<1> HIDE DEF n
<1>4. Sound("connecting", u, p, chs \cup {n}, casts)
  BY <1>1, <1>2, <1>3 DEF Sound, n
<1> QED BY <1>4 DEF n

LEMMA BroadcastSound ==
    ASSUME NEW ph, NEW u, NEW p, NEW chs, NEW cs \in Seq(Events),
           Sound(ph, u, p, chs, cs), NEW ev \in Events
    PROVE  Sound(ph, u, p, Known({Push(ch, ev) : ch \in chs}), Append(cs, ev))
<1> DEFINE all == Known({Push(ch, ev) : ch \in chs})
           longer == Append(cs, ev)
<1>1. /\ ph \notin {"none", "ended"} => u \in Endpoints
      /\ p \in Parsers /\ p.out = <<>>
      /\ ph # "streaming" => p = Fresh
  BY DEF Sound
<1>2. \A ch \in chs : Fits(ph, p, ch, cs) /\ ch \in Channels
  BY DEF Sound, Fits
<1>3. \A d \in all : \E ch \in chs : d = Push(ch, ev) /\ d.end = ch.end
  BY <1>2, PushEnd DEF Known
<1>4. \A ch \in chs : ch.end = "open" => Push(ch, ev) \in all /\ Push(ch, ev).end = "open"
  BY <1>2, PushEnd DEF Known
<1>5. \A c, d \in chs : c.end # "gone" /\ d.end # "gone" => c = d
  BY DEF Sound
<1>6. ph = "streaming" => \E ch \in chs : ch.end = "open"
  BY DEF Sound
<1> HIDE DEF all, longer
<1>7. \A d \in all : Fits(ph, p, d, longer)
  BY <1>1, <1>2, <1>3, PushFits DEF longer
<1>8. \A c, d \in all : c.end # "gone" /\ d.end # "gone" => c = d
  BY <1>3, <1>5
<1>9. ph = "streaming" => \E ch \in all : ch.end = "open"
  BY <1>4, <1>6
<1>10. Sound(ph, u, p, all, longer)
  BY <1>1, <1>7, <1>8, <1>9 DEF Sound
<1> QED BY <1>10 DEF all, longer

-----------------------------------------------------------------------------
(***************************************************************************)
(* The inductive invariant.                                                *)
(***************************************************************************)

LEMMA SoundOf ==
    ASSUME IInv, NEW s \in Subs
    PROVE  Sound(phase[s], url[s], parser[s], chan[s], casts)
<1>1. /\ parser[s] \in Parsers /\ parser[s].out = <<>> /\ chan[s] \subseteq Channels
  BY DEF IInv, TypeOK
<1>2. /\ phase[s] \notin {"none", "ended"} => url[s] \in Endpoints
      /\ phase[s] # "streaming" => parser[s] = Fresh
      /\ \A c, d \in chan[s] : c.end # "gone" /\ d.end # "gone" => c = d
      /\ phase[s] = "streaming" => \E ch \in chan[s] : ch.end = "open"
  BY DEF IInv, OneEnd, Reading
<1>3. ASSUME NEW ch \in chan[s] PROVE Fits(phase[s], parser[s], ch, casts)
  <2>1. /\ ch.end = "open" => phase[s] = "streaming"
        /\ ch.end = "opening" => phase[s] = "connecting"
    BY DEF IInv, OneEnd
  <2>2. /\ ch.listed => ch.sent = SubSeq(casts, ch.joined + 1, Len(casts))
        /\ ch.joined <= Len(casts)
    BY DEF IInv, ListedMissNothing
  <2>3. /\ ch.end # "open" => ch.got = <<>>
        /\ ch.end = "gone" => ch.wire = <<>>
        /\ ch.end # "gone" => /\ AtRest(Brings(parser[s], ch))
                              /\ SameEvents(ch.sent, Brings(parser[s], ch).out)
    BY DEF IInv, Reading, Brings
  <2> QED BY <1>1, <2>1, <2>2, <2>3 DEF Fits
<1> QED BY <1>1, <1>2, <1>3 DEF Sound

LEMMA OfSound ==
    ASSUME TypeOK, \A s \in Subs : Sound(phase[s], url[s], parser[s], chan[s], casts)
    PROVE  IInv
<1>1. ASSUME NEW s \in Subs, NEW ch \in chan[s]
      PROVE  Fits(phase[s], parser[s], ch, casts)
  BY DEF Sound
<1>2. OneEnd
  BY <1>1 DEF OneEnd, Sound, Fits
<1>3. ListedMissNothing
  BY <1>1 DEF ListedMissNothing, Fits
<1>4. Reading
  BY <1>1 DEF Reading, Sound, Fits, Brings
<1>5. \A s \in Subs : \A ch \in chan[s] : ch.joined <= Len(casts)
  BY <1>1 DEF Fits
<1> QED BY <1>2, <1>3, <1>4, <1>5 DEF IInv

LEMMA OfSoundNext ==
    ASSUME TypeOK', \A s \in Subs : Sound(phase[s], url[s], parser[s], chan[s], casts)'
    PROVE  IInv'
<1>1. ASSUME NEW s \in Subs, NEW ch \in chan'[s]
      PROVE  Fits(phase[s], parser[s], ch, casts)'
  BY DEF Sound
<1>2. OneEnd'
  BY <1>1 DEF OneEnd, Sound, Fits
<1>3. ListedMissNothing'
  BY <1>1 DEF ListedMissNothing, Fits
<1>4. Reading'
  BY <1>1 DEF Reading, Sound, Fits, Brings
<1>5. (\A s \in Subs : \A ch \in chan[s] : ch.joined <= Len(casts))'
  BY <1>1 DEF Fits
<1> QED BY <1>2, <1>3, <1>4, <1>5 DEF IInv

\* A step of one subscription.
Moves(s, ph, u, t, p, chs) ==
    /\ ph \in {"none", "connecting", "streaming", "pause", "ended"}
    /\ u \in Endpoints \cup {NoUrl} /\ t \in {"client", "held", "dropped"}
    /\ Sound(ph, u, p, chs, casts)
    /\ phase' = [phase EXCEPT ![s] = ph] /\ url' = [url EXCEPT ![s] = u]
    /\ token' = [token EXCEPT ![s] = t] /\ parser' = [parser EXCEPT ![s] = p]
    /\ chan' = [chan EXCEPT ![s] = chs]
    /\ UNCHANGED <<client, casts>>

LEMMA OneStep ==
    ASSUME IInv, NEW s \in Subs, NEW ph, NEW u, NEW t, NEW p, NEW chs,
           Moves(s, ph, u, t, p, chs)
    PROVE  IInv'
<1>0. /\ ph \in {"none", "connecting", "streaming", "pause", "ended"}
      /\ u \in Endpoints \cup {NoUrl} /\ t \in {"client", "held", "dropped"}
      /\ Sound(ph, u, p, chs, casts)
      /\ phase' = [phase EXCEPT ![s] = ph] /\ url' = [url EXCEPT ![s] = u]
      /\ token' = [token EXCEPT ![s] = t] /\ parser' = [parser EXCEPT ![s] = p]
      /\ chan' = [chan EXCEPT ![s] = chs]
      /\ UNCHANGED <<client, casts>>
  BY DEF Moves
<1>1. TypeOK
  BY DEF IInv
<1>2. /\ phase \in [Subs -> {"none", "connecting", "streaming", "pause", "ended"}]
      /\ url \in [Subs -> Endpoints \cup {NoUrl}]
      /\ token \in [Subs -> {"client", "held", "dropped"}]
      /\ parser \in [Subs -> Parsers] /\ chan \in [Subs -> SUBSET Channels]
      /\ \A r \in Subs : parser[r].out = <<>>
  BY <1>1 DEF TypeOK
<1>3. p \in Parsers /\ p.out = <<>> /\ chs \subseteq Channels
  BY <1>0 DEF Sound, Fits
<1>4. /\ base_url' \in Endpoints \cup {NoUrl} /\ cancel' \in BOOLEAN /\ dropped' \in BOOLEAN
      /\ calls' \subseteq Calls /\ posts' \in 0..MaxPosts
      /\ casts' \in Seq(Events) /\ Len(casts') <= MaxCasts
  BY <1>0, <1>1 DEF TypeOK, client
<1>5. /\ phase' \in [Subs -> {"none", "connecting", "streaming", "pause", "ended"}]
      /\ url' \in [Subs -> Endpoints \cup {NoUrl}]
      /\ token' \in [Subs -> {"client", "held", "dropped"}]
  BY <1>0, <1>2
<1>6. /\ parser' \in [Subs -> Parsers] /\ \A r \in Subs : parser'[r].out = <<>>
  BY <1>0, <1>2, <1>3
<1>7. chan' \in [Subs -> SUBSET Channels]
  BY <1>0, <1>2, <1>3
<1>8. TypeOK'
  BY <1>4, <1>5, <1>6, <1>7 DEF TypeOK
<1>9. ASSUME NEW r \in Subs
      PROVE  Sound(phase[r], url[r], parser[r], chan[r], casts)'
  <2>1. CASE r = s
    <3>1. /\ phase'[r] = ph /\ url'[r] = u /\ parser'[r] = p /\ chan'[r] = chs
          /\ casts' = casts
      BY <1>0, <1>2, <2>1
    <3>2. Sound(phase'[r], url'[r], parser'[r], chan'[r], casts')
      BY <1>0, <3>1
    <3> QED BY <3>2 DEF Sound
  <2>2. CASE r # s
    <3>1. /\ phase'[r] = phase[r] /\ url'[r] = url[r] /\ parser'[r] = parser[r]
          /\ chan'[r] = chan[r] /\ casts' = casts
      BY <1>0, <1>2, <2>2
    <3>2. Sound(phase[r], url[r], parser[r], chan[r], casts)
      BY SoundOf
    <3>3. Sound(phase'[r], url'[r], parser'[r], chan'[r], casts')
      BY <3>1, <3>2
    <3> QED BY <3>3 DEF Sound
  <2> QED BY <2>1, <2>2
<1> QED BY <1>8, <1>9, OfSoundNext

\* A step that no loop and no connection takes part in.
LEMMA Elsewhere ==
    ASSUME IInv, UNCHANGED <<loops, chan, casts>>, TypeOK'
    PROVE  IInv'
<1>1. ASSUME NEW s \in Subs
      PROVE  Sound(phase[s], url[s], parser[s], chan[s], casts)'
  <2>1. Sound(phase[s], url[s], parser[s], chan[s], casts)
    BY SoundOf
  <2>2. /\ phase'[s] = phase[s] /\ url'[s] = url[s] /\ parser'[s] = parser[s]
        /\ chan'[s] = chan[s] /\ casts' = casts
    BY DEF loops
  <2>3. Sound(phase'[s], url'[s], parser'[s], chan'[s], casts')
    BY <2>1, <2>2
  <2> QED BY <2>3 DEF Sound
<1> QED BY <1>1, OfSoundNext

LEMMA InitHolds == Init => IInv
<1> SUFFICES ASSUME Init PROVE IInv
  OBVIOUS
<1>0. <<>> \in Seq(Events) /\ Len(<<>>) <= MaxCasts
  BY HttpSseAssumption
<1>1. TypeOK
  <2>1. /\ parser \in [Subs -> Parsers] /\ \A s \in Subs : parser[s].out = <<>>
        /\ chan \in [Subs -> SUBSET Channels]
    BY FreshType DEF Init
  <2>2. casts \in Seq(Events) /\ Len(casts) <= MaxCasts
    BY <1>0 DEF Init
  <2>3. /\ base_url \in Endpoints \cup {NoUrl} /\ cancel \in BOOLEAN /\ dropped \in BOOLEAN
        /\ calls \subseteq Calls
    BY DEF Init
  <2>5. posts \in 0..MaxPosts
    BY HttpSseAssumption DEF Init
  <2>4. /\ url \in [Subs -> Endpoints \cup {NoUrl}]
        /\ phase \in [Subs -> {"none", "connecting", "streaming", "pause", "ended"}]
        /\ token \in [Subs -> {"client", "held", "dropped"}]
    BY DEF Init
  <2> QED BY <2>1, <2>2, <2>3, <2>4, <2>5 DEF TypeOK
<1>2. ASSUME NEW s \in Subs
      PROVE  Sound(phase[s], url[s], parser[s], chan[s], casts)
  <2>1. Sound("none", NoUrl, Fresh, {}, <<>>)
    BY FreshType DEF Sound
  <2> QED BY <2>1 DEF Init
<1> QED BY <1>1, <1>2, OfSound

LEMMA ClientStep ==
    ASSUME IInv,
           \/ \E u \in Endpoints : SetEndpoint(u)
           \/ ClearEndpoint \/ SendEvent \/ Posted \/ Shutdown \/ DropClient
           \/ \E c \in Calls : Call(c) \/ Answer(c)
    PROVE  IInv'
<1>0. TypeOK /\ MaxPosts \in Nat
  BY HttpSseAssumption DEF IInv
<1>1. UNCHANGED <<loops, chan, casts>>
  BY DEF SetEndpoint, ClearEndpoint, SendEvent, Posted, Shutdown, DropClient, Call, Answer
<1>2. /\ phase' = phase /\ url' = url /\ token' = token /\ parser' = parser
      /\ chan' = chan /\ casts' = casts
  BY <1>1 DEF loops
<1>3. /\ base_url' \in Endpoints \cup {NoUrl} /\ cancel' \in BOOLEAN /\ dropped' \in BOOLEAN
      /\ calls' \subseteq Calls
  BY <1>0 DEF TypeOK, SetEndpoint, ClearEndpoint, SendEvent, Posted, Shutdown,
              DropClient, Call, Answer
<1>4. posts' \in 0..MaxPosts
  BY <1>0 DEF TypeOK, SetEndpoint, ClearEndpoint, SendEvent, Posted, Shutdown,
              DropClient, Call, Answer
<1>5. TypeOK'
  BY <1>0, <1>2, <1>3, <1>4 DEF TypeOK
<1> QED BY <1>1, <1>5, Elsewhere

\* What stays of a subscription, as an update.
LEMMA Same ==
    ASSUME IInv, NEW s \in Subs
    PROVE  /\ phase = [phase EXCEPT ![s] = phase[s]] /\ url = [url EXCEPT ![s] = url[s]]
           /\ token = [token EXCEPT ![s] = token[s]]
           /\ parser = [parser EXCEPT ![s] = parser[s]]
           /\ chan = [chan EXCEPT ![s] = chan[s]]
           /\ phase[s] \in {"none", "connecting", "streaming", "pause", "ended"}
           /\ url[s] \in Endpoints \cup {NoUrl}
           /\ token[s] \in {"client", "held", "dropped"}
           /\ casts \in Seq(Events) /\ Len(casts) <= MaxCasts
BY DEF IInv, TypeOK

LEMMA LoopStep ==
    ASSUME IInv, NEW s \in Subs,
           \/ Subscribe(s, "held") \/ Subscribe(s, "client") \/ Unsubscribe(s)
           \/ Stop(s) \/ ConnectFails(s) \/ Open(s) \/ Chunk(s) \/ StreamEnds(s)
           \/ StreamFails(s) \/ Retry(s)
    PROVE  IInv'
<1>0. Sound(phase[s], url[s], parser[s], chan[s], casts)
  BY SoundOf
<1>1. CASE Subscribe(s, "held") \/ Subscribe(s, "client")
  <2>1. /\ phase[s] = "none" /\ base_url # NoUrl
        /\ url' = [url EXCEPT ![s] = base_url]
        /\ phase' = [phase EXCEPT ![s] = "connecting"]
        /\ UNCHANGED <<client, casts>> /\ parser' = parser /\ chan' = chan
    BY <1>1 DEF Subscribe
  <2>2. PICK t \in {"client", "held", "dropped"} : token' = [token EXCEPT ![s] = t]
    BY <1>1 DEF Subscribe
  <2>3. base_url \in Endpoints
    BY <2>1 DEF IInv, TypeOK
  <2>4. Sound("connecting", base_url, parser[s], chan[s], casts)
    BY <1>0, <2>1, <2>3, ConnectSound
  <2>5. Moves(s, "connecting", base_url, t, parser[s], chan[s])
    BY <2>1, <2>2, <2>3, <2>4, Same DEF Moves
  <2> QED BY <2>5, OneStep
<1>2. CASE Unsubscribe(s)
  <2>1. /\ token' = [token EXCEPT ![s] = "dropped"] /\ UNCHANGED <<client, casts>>
        /\ phase' = phase /\ url' = url /\ parser' = parser /\ chan' = chan
    BY <1>2 DEF Unsubscribe
  <2>2. Moves(s, phase[s], url[s], "dropped", parser[s], chan[s])
    BY <1>0, <2>1, Same DEF Moves
  <2> QED BY <2>2, OneStep
<1>3. CASE Stop(s) \/ ConnectFails(s) \/ StreamEnds(s) \/ StreamFails(s)
  <2> DEFINE chs == HungUp(chan[s])
  <2>1. /\ phase[s] \notin {"none", "ended"}
        /\ \E v \in {"pause", "ended"} : phase' = [phase EXCEPT ![s] = v]
        /\ parser' = [parser EXCEPT ![s] = Fresh] /\ Hangup(s)
        /\ UNCHANGED <<client, casts>> /\ url' = url /\ token' = token
    BY <1>3 DEF Stop, Cancelled, Running, ConnectFails, StreamEnds, StreamFails, Leave
  <2>2. PICK v \in {"pause", "ended"} : phase' = [phase EXCEPT ![s] = v]
    BY <2>1
  <2>3. chan' = [chan EXCEPT ![s] = chs]
    BY <2>1, Same DEF Hangup, HungUp
  <2>4. Sound(v, url[s], Fresh, chs, casts)
    <3>1. Sound(phase[s], url[s], parser[s], chan[s], casts) /\ phase[s] \notin {"none", "ended"}
      BY <1>0, <2>1
    <3> QED BY <3>1, HangupSound
  <2> HIDE DEF chs
  <2>5. Moves(s, v, url[s], token[s], Fresh, chs)
    BY <2>1, <2>2, <2>3, <2>4, Same DEF Moves
  <2> QED BY <2>5, OneStep
<1>4. CASE Open(s)
  <2>1. /\ phase[s] = "connecting" /\ phase' = [phase EXCEPT ![s] = "streaming"]
        /\ UNCHANGED <<client, casts>>
        /\ url' = url /\ token' = token /\ parser' = parser
    BY <1>4 DEF Open
  <2>2. PICK ch \in chan[s] :
            ch.end = "opening" /\ Becomes(s, ch, [ch EXCEPT !.end = "open"])
    BY <1>4 DEF Open
  <2> DEFINE new == [ch EXCEPT !.end = "open"]
             chs == Known((chan[s] \ {ch}) \cup {new})
  <2>3. chan' = [chan EXCEPT ![s] = chs]
    BY <2>2, Same DEF Becomes
  <2>4. Fits("connecting", parser[s], ch, casts) /\ ch \in Channels
    BY <1>0, <2>1 DEF Sound, Fits
  <2>5. Fits("streaming", parser[s], new, casts) /\ new.end = "open"
    BY <2>2, <2>4, OpenFits DEF Channels
  <2>6. parser[s] \in Parsers /\ parser[s].out = <<>> /\ ch.end # "gone"
    BY <1>0, <2>2 DEF Sound
  <2> HIDE DEF new
  <2>7. Sound("streaming", url[s], parser[s], chs, casts)
    BY <1>0, <2>5, <2>6, BecomesSound
  <2> HIDE DEF chs
  <2>8. Moves(s, "streaming", url[s], token[s], parser[s], chs)
    BY <2>1, <2>3, <2>7, Same DEF Moves
  <2> QED BY <2>8, OneStep
<1>5. CASE Chunk(s)
  <2>1. /\ phase[s] = "streaming" /\ UNCHANGED <<client, casts>>
        /\ phase' = phase /\ url' = url /\ token' = token
    BY <1>5 DEF Chunk
  <2>2. PICK ch \in chan[s] : \E k \in 1..Len(ch.wire) :
            LET p == TakeChunk(parser[s], SubSeq(ch.wire, 1, k)) IN
            /\ ch.end = "open"
            /\ parser' = [parser EXCEPT ![s] = [p EXCEPT !.out = <<>>]]
            /\ Becomes(s, ch, [ch EXCEPT !.wire = SubSeq(@, k + 1, Len(@)),
                                         !.got = @ \o p.out])
    BY <1>5 DEF Chunk
  <2>3. PICK k \in 1..Len(ch.wire) :
            LET p == TakeChunk(parser[s], SubSeq(ch.wire, 1, k)) IN
            /\ ch.end = "open"
            /\ parser' = [parser EXCEPT ![s] = [p EXCEPT !.out = <<>>]]
            /\ Becomes(s, ch, [ch EXCEPT !.wire = SubSeq(@, k + 1, Len(@)),
                                         !.got = @ \o p.out])
    BY <2>2
  <2> DEFINE x == TakeChunk(parser[s], SubSeq(ch.wire, 1, k))
             y == [x EXCEPT !.out = <<>>]
             new == [ch EXCEPT !.wire = SubSeq(@, k + 1, Len(@)), !.got = @ \o x.out]
             chs == Known((chan[s] \ {ch}) \cup {new})
  <2>4. ch.end = "open" /\ parser' = [parser EXCEPT ![s] = y] /\ Becomes(s, ch, new)
    BY <2>3
  <2>5. parser[s] \in Parsers /\ parser[s].out = <<>>
        /\ Fits("streaming", parser[s], ch, casts) /\ ch \in Channels
    BY <1>0, <2>1 DEF Sound, Fits
  <2>6. new.end = "open"
    <3> HIDE DEF x
    <3> QED BY <2>4, <2>5 DEF Channels
  <2>7. x = TakeChunk(parser[s], SubSeq(ch.wire, 1, k))
    OBVIOUS
  <2> HIDE DEF x
  <2>8. y \in Parsers /\ Fits("streaming", y, new, casts)
    BY <2>4, <2>5, <2>7, ChunkFits
  <2>9. y.out = <<>>
    <3>1. y \in Parsers
      BY <2>8
    <3>2. x \in Parsers
      <4>1. SubSeq(ch.wire, 1, k) \in Seq(Pieces)
        BY <2>5, ChannelFields
      <4> DEFINE c == SubSeq(ch.wire, 1, k)
      <4>2. c \in Seq(Pieces)
        BY <4>1
      <4> HIDE DEF c
      <4>3. Lossy(c) \in Seq(Pieces)
        BY <4>2, LossySame
      <4>4. [parser[s] EXCEPT !.out = <<>>] \in Parsers
        BY <2>5 DEF Parsers
      <4> QED BY <2>7, <4>3, <4>4, TakeTextType DEF TakeChunk, c
    <3> QED BY <3>2 DEF Parsers
  <2>10. chan' = [chan EXCEPT ![s] = chs]
    BY <2>4, Same DEF Becomes
  <2> HIDE DEF y, new
  <2>11. Sound("streaming", url[s], y, chs, casts)
    <3>1. Sound("streaming", url[s], parser[s], chan[s], casts)
      BY <1>0, <2>1
    <3>2. ch.end # "gone"
      BY <2>4
    <3> QED BY <2>6, <2>8, <2>9, <3>1, <3>2, BecomesSound
  <2> HIDE DEF chs
  <2>12. Sound(phase[s], url[s], y, chs, casts)
    BY <2>1, <2>11
  <2>13. Moves(s, phase[s], url[s], token[s], y, chs)
    BY <2>1, <2>4, <2>10, <2>12, Same DEF Moves
  <2> QED BY <2>13, OneStep
<1>6. CASE Retry(s)
  <2>1. /\ phase[s] = "pause" /\ phase' = [phase EXCEPT ![s] = "connecting"]
        /\ UNCHANGED <<client, casts>>
        /\ url' = url /\ token' = token /\ parser' = parser /\ chan' = chan
    BY <1>6 DEF Retry
  <2>2. url[s] \in Endpoints
    BY <1>0, <2>1 DEF Sound
  <2>3. Sound("connecting", url[s], parser[s], chan[s], casts)
    BY <1>0, <2>1, <2>2, ConnectSound
  <2>4. Moves(s, "connecting", url[s], token[s], parser[s], chan[s])
    BY <2>1, <2>3, Same DEF Moves
  <2> QED BY <2>4, OneStep
<1> QED BY <1>1, <1>2, <1>3, <1>4, <1>5, <1>6

LEMMA ServerStep ==
    ASSUME IInv, NEW s \in Subs,
           Accept(s) \/ DropEmitter(s) \/ KeepAlive(s) \/ ReceiverGone(s)
    PROVE  IInv'
<1>0. Sound(phase[s], url[s], parser[s], chan[s], casts)
  BY SoundOf
<1>1. UNCHANGED <<client, casts>> /\ phase' = phase /\ url' = url
      /\ token' = token /\ parser' = parser
  BY DEF Accept, DropEmitter, KeepAlive, ReceiverGone, loops
<1>2. /\ parser[s] \in Parsers /\ parser[s].out = <<>>
      /\ \A ch \in chan[s] : Fits(phase[s], parser[s], ch, casts) /\ ch \in Channels
  BY <1>0 DEF Sound, Fits
<1>3. CASE Accept(s)
  <2> DEFINE n == NewChannel
             chs == chan[s] \cup {n}
  <2>1. /\ phase[s] = "connecting" /\ \A ch \in chan[s] : ch.end = "gone"
        /\ chan' = [chan EXCEPT ![s] = chs]
    BY <1>3, Same DEF Accept
  <2>2. Sound("connecting", url[s], parser[s], chs, casts)
    <3>1. Sound("connecting", url[s], parser[s], chan[s], casts)
      BY <1>0, <2>1
    <3>2. casts \in Seq(Events) /\ Len(casts) <= MaxCasts
      BY Same
    <3> QED BY <2>1, <3>1, <3>2, AcceptSound
  <2> HIDE DEF chs
  <2>3. Moves(s, phase[s], url[s], token[s], parser[s], chs)
    BY <1>1, <2>1, <2>2, Same DEF Moves
  <2> QED BY <2>3, OneStep
<1>4. ASSUME NEW ch \in chan[s], NEW new, Becomes(s, ch, new),
             Fits(phase[s], parser[s], new, casts), new.end = ch.end
      PROVE  IInv'
  <2> DEFINE chs == Known((chan[s] \ {ch}) \cup {new})
  <2>1. chan' = [chan EXCEPT ![s] = chs]
    BY <1>4, Same DEF Becomes
  <2>2. Sound(phase[s], url[s], parser[s], chs, casts)
    BY <1>0, <1>2, <1>4, BecomesSound
  <2> HIDE DEF chs
  <2>3. Moves(s, phase[s], url[s], token[s], parser[s], chs)
    BY <1>1, <2>1, <2>2, Same DEF Moves
  <2> QED BY <2>3, OneStep
<1>5. CASE DropEmitter(s)
  <2>1. PICK ch \in chan[s] : ch.listed /\ Becomes(s, ch, [ch EXCEPT !.listed = FALSE])
    BY <1>5 DEF DropEmitter
  <2>2. [ch EXCEPT !.listed = FALSE].end = ch.end
    BY <1>2 DEF Channels
  <2> QED BY <1>2, <1>4, <2>1, <2>2, ServerEndFits
<1>6. CASE ReceiverGone(s)
  <2>1. PICK ch \in chan[s] : ch.alive /\ Becomes(s, ch, [ch EXCEPT !.alive = FALSE])
    BY <1>6 DEF ReceiverGone
  <2>2. [ch EXCEPT !.alive = FALSE].end = ch.end
    BY <1>2 DEF Channels
  <2> QED BY <1>2, <1>4, <2>1, <2>2, ServerEndFits
<1>7. CASE KeepAlive(s)
  <2>1. PICK ch \in chan[s] : /\ ch.end = "open" /\ ch.wire = <<>>
                              /\ Becomes(s, ch, [ch EXCEPT !.wire = KeepAliveText])
    BY <1>7 DEF KeepAlive
  <2>2. [ch EXCEPT !.wire = KeepAliveText].end = ch.end
    BY <1>2 DEF Channels
  <2> QED BY <1>2, <1>4, <2>1, <2>2, KeepAliveFits
<1> QED BY <1>3, <1>5, <1>6, <1>7

LEMMA BroadcastStep ==
    ASSUME IInv, NEW ev \in Events, Broadcast(ev)
    PROVE  IInv'
<1>1. /\ Len(casts) < MaxCasts /\ casts' = Append(casts, ev)
      /\ chan' = [s \in Subs |-> Known({Push(ch, ev) : ch \in chan[s]})]
      /\ UNCHANGED <<client, loops>>
  BY DEF Broadcast
<1>2. TypeOK /\ casts \in Seq(Events) /\ MaxCasts \in Nat
  BY HttpSseAssumption DEF IInv, TypeOK
<1>3. ASSUME NEW s \in Subs
      PROVE  Sound(phase[s], url[s], parser[s], chan[s], casts)'
  <2> DEFINE chs == Known({Push(ch, ev) : ch \in chan[s]})
  <2>1. Sound(phase[s], url[s], parser[s], chan[s], casts)
    BY SoundOf
  <2>2. Sound(phase[s], url[s], parser[s], chs, Append(casts, ev))
    BY <1>2, <2>1, BroadcastSound
  <2>3. /\ phase'[s] = phase[s] /\ url'[s] = url[s] /\ parser'[s] = parser[s]
        /\ chan'[s] = chs /\ casts' = Append(casts, ev)
    BY <1>1 DEF loops
  <2> HIDE DEF chs
  <2>4. Sound(phase'[s], url'[s], parser'[s], chan'[s], casts')
    BY <2>2, <2>3
  <2> QED BY <2>4 DEF Sound
<1>4. TypeOK'
  <2>1. casts' \in Seq(Events) /\ Len(casts') <= MaxCasts
    BY <1>1, <1>2
  <2>2. \A s \in Subs : chan'[s] \subseteq Channels
    BY <1>3 DEF Sound, Fits
  <2>3. chan' \in [Subs -> SUBSET Channels]
    <3>1. chan' = [s \in Subs |-> chan'[s]]
      BY <1>1
    <3> QED BY <2>2, <3>1
  <2> QED BY <1>1, <1>2, <2>1, <2>3 DEF TypeOK, client, loops
<1> QED BY <1>3, <1>4, OfSoundNext

LEMMA StutterStep ==
    ASSUME IInv, UNCHANGED vars
    PROVE  IInv'
<1>1. UNCHANGED <<loops, chan, casts>>
  BY DEF vars, loops
<1>2. TypeOK'
  BY DEF IInv, TypeOK, vars
<1> QED BY <1>1, <1>2, Elsewhere

LEMMA NextHolds == IInv /\ [Next]_vars => IInv'
<1> SUFFICES ASSUME IInv, [Next]_vars PROVE IInv'
  OBVIOUS
<1>1. CASE UNCHANGED vars
  BY <1>1, StutterStep
<1>2. CASE Next
  BY <1>2, ClientStep, LoopStep, ServerStep, BroadcastStep DEF Next
<1> QED BY <1>1, <1>2

-----------------------------------------------------------------------------
(***************************************************************************)
(* The theorems.                                                           *)
(***************************************************************************)

\* The inductive invariant: at most one connection of a subscription is in use,
\* who is on the list missed nothing, and what is on the way completes what was
\* sent.
THEOREM IInvHolds == Spec => []IInv
<1> QED BY InitHolds, NextHolds, PTL DEF Spec

\* Every variable of the client, its loops and its connections keeps its type.
THEOREM TypeCorrect == Spec => []TypeOK
<1>1. IInv => TypeOK
  BY DEF IInv
<1> QED BY <1>1, IInvHolds, PTL

\* retain: an emitter on the server's list accepted every broadcast since it was
\* put there.
THEOREM ListedMissNothingHolds == Spec => []ListedMissNothing
<1>1. IInv => ListedMissNothing
  BY DEF IInv
<1> QED BY <1>1, IInvHolds, PTL

\* What is read is a prefix of what is read and on the way.
LEMMA ReadWhole ==
    ASSUME NEW ph, NEW p \in Parsers, p.out = <<>>, NEW ch, NEW cs, Fits(ph, p, ch, cs)
    PROVE  /\ Len(ch.got) <= Len(ch.sent)
           /\ \A i \in 1..Len(ch.got) : SameEvent(ch.sent[i], ch.got[i])
<1>1. ch \in Channels
  BY DEF Fits
<1> DEFINE got == ch.got
           sent == ch.sent
           wire == ch.wire
           more == TakeText(p, wire).out
           out == Brings(p, ch).out
<1>2. got \in Seq(ReadEvents) /\ sent \in Seq(Events) /\ wire \in Seq(Pieces)
  BY <1>1, ChannelFields
<1>3. CASE ch.end = "gone"
  BY <1>2, <1>3 DEF Fits
<1>4. CASE ch.end # "gone"
  <2>1. SameEvents(sent, out)
    BY <1>4 DEF Fits
  <2>2. more \in Seq(ReadEvents)
    <3> HIDE DEF wire
    <3>1. TakeText(p, wire) \in Parsers
      BY <1>2, TakeTextType
    <3> QED BY <3>1 DEF Parsers
  <2>3. out = got \o more
    <3> HIDE DEF got, wire
    <3>1. TakeText([p EXCEPT !.out = got \o @], wire)
            = [TakeText(p, wire) EXCEPT !.out = got \o @]
      BY <1>2, Behind
    <3>2. got \o <<>> = got
      BY <1>2
    <3>3. [p EXCEPT !.out = got \o @] = [p EXCEPT !.out = got]
      BY <3>2
    <3>4. TakeText(p, wire) \in Parsers
      BY <1>2, TakeTextType
    <3>5. [TakeText(p, wire) EXCEPT !.out = got \o @].out = got \o more
      BY <3>4 DEF Parsers
    <3> QED BY <3>1, <3>3, <3>5 DEF Brings, got, wire
  <2> HIDE DEF got, sent, out, more
  <2>4. Len(sent) = Len(got) + Len(more) /\ Len(got) \in Nat /\ Len(more) \in Nat
    BY <1>2, <2>1, <2>2, <2>3 DEF SameEvents
  <2>5. ASSUME NEW i \in 1..Len(got) PROVE SameEvent(sent[i], got[i])
    <3>1. i \in 1..Len(sent)
      BY <2>4
    <3>2. out[i] = got[i]
      BY <1>2, <2>2, <2>3
    <3> QED BY <2>1, <3>1, <3>2 DEF SameEvents
  <2>6. Len(got) <= Len(sent)
    BY <2>4
  <2> QED BY <2>5, <2>6 DEF got, sent
<1> QED BY <1>3, <1>4

\* connect_sse: wherever the stream is cut into chunks, the handler gets the
\* events that were sent, whole, in order and none twice.
THEOREM WholeEventsHolds == Spec => []WholeEvents
<1>1. IInv => WholeEvents
  <2> SUFFICES ASSUME IInv, NEW s \in Subs, NEW ch \in chan[s]
               PROVE  /\ Len(ch.got) <= Len(ch.sent)
                      /\ \A i \in 1..Len(ch.got) : SameEvent(ch.sent[i], ch.got[i])
    BY DEF WholeEvents
  <2>1. Sound(phase[s], url[s], parser[s], chan[s], casts)
    BY SoundOf
  <2>2. /\ parser[s] \in Parsers /\ parser[s].out = <<>>
        /\ Fits(phase[s], parser[s], ch, casts)
    BY <2>1 DEF Sound
  <2> QED BY <2>2, ReadWhole
<1> QED BY <1>1, IInvHolds, PTL
=============================================================================
