--------------------------- MODULE Heartbeat_proofs ---------------------------
(***************************************************************************)
(* A vanished peer is detected within interval and timeout, and no live    *)
(* connection is given up when the server's heartbeat is eager enough: for *)
(* all intervals, timeouts, latencies and traffic of the server.           *)
(***************************************************************************)
EXTENDS Heartbeat, SequenceTheorems, TLAPS

\* A sequence of n equal messages.
LEMMA RepeatedMessage ==
    ASSUME NEW n \in Nat, NEW m \in Messages
    PROVE  LET s == [i \in 1..n |-> m] IN
           s \in Seq(Messages) /\ Len(s) = n
  OBVIOUS

\* What arrives on a wire: the old messages, then the new ones.
LEMMA SendEffect ==
    ASSUME TypeOK, NEW e \in Ends, NEW ms \in Seq(Messages)
    PROVE  /\ Send(e, ms) \in Seq(Messages)
           /\ Other(e) \in cut => Send(e, ms) = wire[Other(e)]
           /\ Other(e) \notin cut =>
                /\ Len(Send(e, ms)) = Len(wire[Other(e)]) + Len(ms)
                /\ \A i \in 1..Len(wire[Other(e)]) : Send(e, ms)[i] = wire[Other(e)][i]
                /\ \A i \in 1..Len(ms) : Send(e, ms)[Len(wire[Other(e)]) + i] = ms[i]
<1>1. wire[Other(e)] \in Seq(Messages)
  BY DEF TypeOK, Ends, Other
<1> DEFINE w == wire[Other(e)]
<1>2. /\ w \o ms \in Seq(Messages)
      /\ Len(w \o ms) = Len(w) + Len(ms)
      /\ \A i \in 1 .. Len(w) + Len(ms) :
            (w \o ms)[i] = IF i <= Len(w) THEN w[i] ELSE ms[i - Len(w)]
  BY <1>1, ConcatProperties
<1>3. Len(w) \in Nat /\ Len(ms) \in Nat
  BY <1>1
<1> HIDE DEF w
<1>4. /\ \A i \in 1..Len(w) : (w \o ms)[i] = w[i]
      /\ \A i \in 1..Len(ms) : (w \o ms)[Len(w) + i] = ms[i]
  BY <1>2, <1>3
<1>5. Send(e, ms) = IF Other(e) \in cut THEN w ELSE w \o ms
  BY DEF Send, w
<1> QED BY <1>1, <1>2, <1>4, <1>5 DEF w

\* A single message.
LEMMA SendOne ==
    ASSUME TypeOK, NEW e \in Ends, NEW k \in {"ping", "pong", "data"}
    PROVE  /\ New(k) \in Messages
           /\ Send(e, <<New(k)>>) \in Seq(Messages)
           /\ Other(e) \in cut => Send(e, <<New(k)>>) = wire[Other(e)]
           /\ Other(e) \notin cut =>
                /\ Len(Send(e, <<New(k)>>)) = Len(wire[Other(e)]) + 1
                /\ \A i \in 1..Len(wire[Other(e)]) :
                        Send(e, <<New(k)>>)[i] = wire[Other(e)][i]
                /\ Send(e, <<New(k)>>)[Len(wire[Other(e)]) + 1] = New(k)
<1>1. New(k) \in Messages
  BY HeartbeatAssumption DEF New, Messages
<1> DEFINE ms == <<New(k)>>
<1>2. ms \in Seq(Messages) /\ Len(ms) = 1 /\ ms[1] = New(k)
  BY <1>1
<1> HIDE DEF ms
<1>3. /\ Send(e, ms) \in Seq(Messages)
      /\ Other(e) \in cut => Send(e, ms) = wire[Other(e)]
      /\ Other(e) \notin cut =>
            /\ Len(Send(e, ms)) = Len(wire[Other(e)]) + Len(ms)
            /\ \A i \in 1..Len(wire[Other(e)]) : Send(e, ms)[i] = wire[Other(e)][i]
            /\ \A i \in 1..Len(ms) : Send(e, ms)[Len(wire[Other(e)]) + i] = ms[i]
  BY <1>2, SendEffect
<1>4. 1 \in 1..Len(ms)
  BY <1>2
<1>5. /\ Send(e, ms) \in Seq(Messages)
      /\ Other(e) \in cut => Send(e, ms) = wire[Other(e)]
      /\ Other(e) \notin cut =>
            /\ Len(Send(e, ms)) = Len(wire[Other(e)]) + 1
            /\ \A i \in 1..Len(wire[Other(e)]) : Send(e, ms)[i] = wire[Other(e)][i]
            /\ Send(e, ms)[Len(wire[Other(e)]) + 1] = New(k)
  BY <1>2, <1>3, <1>4
<1> QED BY <1>1, <1>5 DEF ms

\* What Tick makes of a wire that has nothing overdue.
LEMMA AgeEffect ==
    ASSUME NEW s \in Seq(Messages), \A i \in 1..Len(s) : s[i].age < Latency
    PROVE  LET t == [i \in 1..Len(s) |-> [s[i] EXCEPT !.age = @ + 1]] IN
           /\ t \in Seq(Messages) /\ Len(t) = Len(s)
           /\ \A i \in 1..Len(s) : t[i].age = s[i].age + 1 /\ t[i].kind = s[i].kind
<1> DEFINE t == [i \in 1..Len(s) |-> [s[i] EXCEPT !.age = @ + 1]]
<1>1. Len(s) \in Nat /\ \A i \in 1..Len(s) : s[i] \in Messages
  OBVIOUS
<1>2. \A i \in 1..Len(s) : /\ [s[i] EXCEPT !.age = @ + 1] \in Messages
                           /\ t[i].age = s[i].age + 1 /\ t[i].kind = s[i].kind
  <2> TAKE i \in 1..Len(s)
  <2> DEFINE m == s[i]
  <2>1. m \in Messages /\ m.age < Latency /\ t[i] = [m EXCEPT !.age = @ + 1]
    BY <1>1
  <2> HIDE DEF m, t
  <2>a. /\ m.age \in Nat /\ m.age + 1 \in 0..Latency /\ m.kind \in {"ping", "pong", "data"}
    BY <2>1, HeartbeatAssumption DEF Messages
  <2>b. m = [kind |-> m.kind, age |-> m.age]
    BY <2>1 DEF Messages
  <2>c. [m EXCEPT !.age = @ + 1] = [kind |-> m.kind, age |-> m.age + 1]
    BY <2>b
  <2>2. /\ m.age \in Nat /\ m.age + 1 \in 0..Latency /\ m.kind \in {"ping", "pong", "data"}
        /\ [m EXCEPT !.age = @ + 1] = [kind |-> m.kind, age |-> m.age + 1]
    BY <2>a, <2>c
  <2>3. [kind |-> m.kind, age |-> m.age + 1] \in Messages
    BY <2>2 DEF Messages
  <2> QED BY <2>1, <2>2, <2>3 DEF m
<1>3. t \in Seq(Messages) /\ Len(t) = Len(s)
  BY <1>1, <1>2
<1> QED BY <1>2, <1>3

-----------------------------------------------------------------------------

\* What a reception does to the receiver's heartbeat.
LEMMA ResetEffect ==
    ASSUME TypeOK, NEW e \in Ends, Reset(e)
    PROVE  /\ timer' \in [Ends -> Nat] /\ waiting' \in [Ends -> BOOLEAN]
           /\ silence' \in [Ends -> Nat]
           /\ timer'[e] = Interval[e] /\ waiting'[e] = FALSE /\ silence'[e] = 0
           /\ \A d \in Ends \ {e} : /\ timer'[d] = timer[d] /\ waiting'[d] = waiting[d]
                                   /\ silence'[d] = silence[d]
           /\ \A d \in Ends : timer'[d] <= IF waiting'[d] THEN Timeout[d] ELSE Interval[d]
<1>1. /\ timer' \in [Ends -> Nat] /\ waiting' \in [Ends -> BOOLEAN]
      /\ silence' \in [Ends -> Nat]
      /\ timer'[e] = Interval[e] /\ waiting'[e] = FALSE /\ silence'[e] = 0
      /\ \A d \in Ends \ {e} : /\ timer'[d] = timer[d] /\ waiting'[d] = waiting[d]
                              /\ silence'[d] = silence[d]
  BY HeartbeatAssumption DEF TypeOK, Reset
<1>2. timer'[e] <= IF waiting'[e] THEN Timeout[e] ELSE Interval[e]
  BY <1>1, HeartbeatAssumption
<1>3. ASSUME NEW d \in Ends \ {e}
      PROVE  timer'[d] <= IF waiting'[d] THEN Timeout[d] ELSE Interval[d]
  BY <1>1 DEF TypeOK
<1> QED BY <1>1, <1>2, <1>3

\* The rest of a wire whose head is received.
LEMMA ReceiveEffect ==
    ASSUME TypeOK, NEW e \in Ends, wire[e] # <<>>
    PROVE  /\ Tail(wire[e]) \in Seq(Messages)
           /\ Len(wire[e]) \in Nat \ {0} /\ Len(Tail(wire[e])) = Len(wire[e]) - 1
           /\ \A i \in 1..Len(Tail(wire[e])) : Tail(wire[e])[i] = wire[e][i + 1]
           /\ Head(wire[e]) = wire[e][1] /\ Head(wire[e]) \in Messages
<1>1. wire[e] \in Seq(Messages)
  BY DEF TypeOK
<1> QED BY <1>1, HeadTailProperties

LEMMA Step_TypeOK ==
    ASSUME TypeOK, [Next]_vars
    PROVE  TypeOK'
<1>1. CASE ClientReceive
  <2>1. Reset("client") /\ "client" \in Ends
    BY <1>1 DEF ClientReceive, Ends
  <2>2. wire' \in [Ends -> Seq(Messages)]
    <3>1. Send("client", <<New("pong")>>) \in Seq(Messages)
      BY <2>1, SendOne
    <3>2. Tail(wire["client"]) \in Seq(Messages)
      BY <1>1, <2>1, ReceiveEffect DEF ClientReceive
    <3> QED BY <1>1, <3>1, <3>2 DEF ClientReceive, TypeOK
  <2>3. /\ timer' \in [Ends -> Nat] /\ waiting' \in [Ends -> BOOLEAN]
        /\ silence' \in [Ends -> Nat]
        /\ \A e \in Ends : timer'[e] <= IF waiting'[e] THEN Timeout[e] ELSE Interval[e]
    BY <2>1, ResetEffect
  <2> QED BY <1>1, <2>2, <2>3 DEF TypeOK, ClientReceive
<1>2. CASE ServerReceive
  <2>1. Reset("server") /\ "server" \in Ends
    BY <1>2 DEF ServerReceive, Ends
  <2>2. wire' \in [Ends -> Seq(Messages)] /\ owed' \in Nat
    <3>1. Tail(wire["server"]) \in Seq(Messages)
      BY <1>2, <2>1, ReceiveEffect DEF ServerReceive
    <3>2. wire' \in [Ends -> Seq(Messages)]
      BY <1>2, <3>1 DEF ServerReceive, TypeOK
    <3>3. owed' = owed \/ owed' = owed + 1
      BY <1>2 DEF ServerReceive
    <3> QED BY <3>2, <3>3 DEF TypeOK
  <2>3. /\ timer' \in [Ends -> Nat] /\ waiting' \in [Ends -> BOOLEAN]
        /\ silence' \in [Ends -> Nat]
        /\ \A e \in Ends : timer'[e] <= IF waiting'[e] THEN Timeout[e] ELSE Interval[e]
    BY <2>1, ResetEffect
  <2> QED BY <1>2, <2>2, <2>3 DEF TypeOK, ServerReceive
<1>3. ASSUME NEW e \in Ends, SendData(e) PROVE TypeOK'
  <2> DEFINE pongs == IF e = "server" THEN [i \in 1..owed |-> New("pong")] ELSE <<>>
             ms    == pongs \o <<New("data")>>
  <2>1. New("pong") \in Messages /\ New("data") \in Messages
    BY HeartbeatAssumption DEF New, Messages
  <2>2. pongs \in Seq(Messages)
    BY <2>1, RepeatedMessage DEF TypeOK
  <2>3. ms \in Seq(Messages)
    BY <2>1, <2>2
  <2> HIDE DEF ms
  <2>4. Send(e, ms) \in Seq(Messages)
    BY <2>3, SendEffect
  <2>5. wire' = [wire EXCEPT ![Other(e)] = Send(e, ms)]
    BY <1>3 DEF SendData, ms
  <2> QED BY <1>3, <2>4, <2>5 DEF TypeOK, SendData
<1>4. ASSUME NEW e \in Ends, Ping(e) PROVE TypeOK'
  <2>1. Send(e, <<New("ping")>>) \in Seq(Messages)
    BY SendOne
  <2>2. wire' \in [Ends -> Seq(Messages)]
    BY <1>4, <2>1 DEF TypeOK, Ping
  <2>3. /\ timer' \in [Ends -> Nat] /\ waiting' \in [Ends -> BOOLEAN]
        /\ timer'[e] = Timeout[e] /\ waiting'[e] = TRUE
        /\ \A d \in Ends \ {e} : timer'[d] = timer[d] /\ waiting'[d] = waiting[d]
    BY <1>4, HeartbeatAssumption DEF TypeOK, Ping
  <2>4. \A d \in Ends : timer'[d] <= IF waiting'[d] THEN Timeout[d] ELSE Interval[d]
    <3>1. timer'[e] <= IF waiting'[e] THEN Timeout[e] ELSE Interval[e]
      BY <2>3, HeartbeatAssumption
    <3>2. ASSUME NEW d \in Ends \ {e}
          PROVE  timer'[d] <= IF waiting'[d] THEN Timeout[d] ELSE Interval[d]
      BY <2>3 DEF TypeOK
    <3> QED BY <3>1, <3>2
  <2> QED BY <1>4, <2>2, <2>3, <2>4 DEF TypeOK, Ping
<1>5. ASSUME NEW e \in Ends, GiveUp(e) \/ SeeClose(e) PROVE TypeOK'
  BY <1>5 DEF TypeOK, GiveUp, SeeClose
<1>6. ASSUME NEW e \in Ends, CutOff(e) PROVE TypeOK'
  <2>1. wire' \in [Ends -> Seq(Messages)]
    BY <1>6 DEF CutOff, TypeOK
  <2> QED BY <1>6, <2>1 DEF TypeOK, CutOff
<1>7. CASE Tick
  <2>1. \A e \in Ends : alive[e] => timer[e] # 0
    BY <1>7 DEF Tick, Due
  <2>2. \A e \in Ends : wire'[e] \in Seq(Messages)
    <3> TAKE e \in Ends
    <3>1. CASE alive[e]
      <4>1. /\ wire[e] \in Seq(Messages) /\ \A i \in 1..Len(wire[e]) : wire[e][i].age < Latency
            /\ wire'[e] = [i \in 1..Len(wire[e]) |-> [wire[e][i] EXCEPT !.age = @ + 1]]
        BY <1>7, <3>1 DEF Tick, TypeOK
      <4> QED BY <4>1, AgeEffect
    <3>2. CASE ~alive[e]
      BY <1>7, <3>2 DEF Tick, TypeOK
    <3> QED BY <3>1, <3>2
  <2>3. wire' \in [Ends -> Seq(Messages)]
    BY <1>7, <2>2 DEF Tick
  <2>4. timer' \in [Ends -> Nat] /\ silence' \in [Ends -> Nat]
    BY <1>7, <2>1 DEF Tick, TypeOK
  <2>5. \A e \in Ends : timer'[e] <= timer[e]
    BY <1>7, <2>1 DEF Tick, TypeOK
  <2>6. \A e \in Ends : timer'[e] <= IF waiting'[e] THEN Timeout[e] ELSE Interval[e]
    <3> TAKE e \in Ends
    <3> DEFINE limit == IF waiting[e] THEN Timeout[e] ELSE Interval[e]
    <3>1. limit \in Nat /\ timer[e] \in Nat /\ timer'[e] \in Nat
      BY <2>4, HeartbeatAssumption DEF TypeOK
    <3>2. timer[e] <= limit
      BY DEF TypeOK
    <3> HIDE DEF limit
    <3>3. timer'[e] <= limit
      BY <2>5, <3>1, <3>2
    <3> QED BY <1>7, <3>3 DEF Tick, limit
  <2> QED BY <1>7, <2>3, <2>4, <2>6 DEF TypeOK, Tick
<1>8. CASE UNCHANGED vars
  BY <1>8 DEF TypeOK, vars
<1> QED BY <1>1, <1>2, <1>3, <1>4, <1>5, <1>6, <1>7, <1>8 DEF Next

\* The heartbeats' state stays within its types for all parameters.
THEOREM TypeCorrect == Spec => []TypeOK
<1>1. ASSUME Init PROVE TypeOK
  <2> PICK skew \in 0..Latency :
        /\ timer = [e \in Ends |-> IF e = "client" THEN Interval[e] - skew ELSE Interval[e]]
        /\ silence = [e \in Ends |-> IF e = "client" THEN skew ELSE 0]
    BY <1>1 DEF Init
  <2>1. skew \in Nat /\ Interval["client"] - skew \in Nat
    BY HeartbeatAssumption DEF Ends
  <2>2. timer \in [Ends -> Nat] /\ silence \in [Ends -> Nat]
    BY <2>1, HeartbeatAssumption
  <2>3. \A e \in Ends : timer[e] <= Interval[e] /\ waiting[e] = FALSE
    BY <1>1, <2>1, HeartbeatAssumption DEF Init
  <2>4. waiting \in [Ends -> BOOLEAN] /\ alive \in [Ends -> BOOLEAN] /\ cut \subseteq Ends
    BY <1>1 DEF Init
  <2>5. wire \in [Ends -> Seq(Messages)] /\ owed \in Nat
    BY <1>1 DEF Init
  <2> QED BY <2>2, <2>3, <2>4, <2>5 DEF TypeOK
<1> QED BY <1>1, Step_TypeOK, PTL DEF Spec

-----------------------------------------------------------------------------
(***************************************************************************)
(* Detection: the deadline and the silence add up.                         *)
(***************************************************************************)

LEMMA Step_TimersAgree ==
    ASSUME TypeOK, TimersAgree, [Next]_vars
    PROVE  TimersAgree'
<1>1. ASSUME NEW e \in Ends, Reset(e), UNCHANGED alive PROVE TimersAgree'
  <2>1. /\ timer'[e] = Interval[e] /\ waiting'[e] = FALSE /\ silence'[e] = 0
        /\ \A d \in Ends \ {e} : /\ timer'[d] = timer[d] /\ waiting'[d] = waiting[d]
                                /\ silence'[d] = silence[d]
    BY <1>1, ResetEffect
  <2>2. Interval[e] - Interval[e] = 0
    BY HeartbeatAssumption
  <2> QED BY <1>1, <2>1, <2>2 DEF TimersAgree
<1>2. CASE ClientReceive
  BY <1>1, <1>2 DEF ClientReceive, Ends
<1>3. CASE ServerReceive
  BY <1>1, <1>3 DEF ServerReceive, Ends
<1>4. ASSUME NEW e \in Ends, Ping(e) PROVE TimersAgree'
  <2>1. /\ alive[e] /\ timer[e] = 0 /\ ~waiting[e]
        /\ timer'[e] = Timeout[e] /\ waiting'[e] = TRUE
        /\ \A d \in Ends \ {e} : timer'[d] = timer[d] /\ waiting'[d] = waiting[d]
        /\ silence' = silence /\ alive' = alive
    BY <1>4 DEF Ping, Due, TypeOK
  <2>2. silence[e] = Interval[e] - 0
    BY <2>1 DEF TimersAgree
  <2>3. silence[e] = Interval[e] + Timeout[e] - Timeout[e]
    BY <2>2, HeartbeatAssumption
  <2> QED BY <2>1, <2>3 DEF TimersAgree
<1>5. ASSUME NEW e \in Ends, SendData(e) \/ GiveUp(e) \/ SeeClose(e) PROVE TimersAgree'
  <2>1. /\ UNCHANGED <<timer, waiting, silence>>
        /\ \A d \in Ends : alive'[d] => alive[d]
    BY <1>5 DEF SendData, GiveUp, SeeClose, TypeOK
  <2> QED BY <2>1 DEF TimersAgree
<1>6. CASE (\E e \in Ends : CutOff(e)) \/ UNCHANGED vars
  BY <1>6 DEF TimersAgree, CutOff, vars
<1>7. CASE Tick
  <2> SUFFICES ASSUME NEW e \in Ends, alive[e]
               PROVE  silence'[e] = IF waiting[e] THEN Interval[e] + Timeout[e] - timer'[e]
                                                  ELSE Interval[e] - timer'[e]
    BY <1>7 DEF TimersAgree, Tick
  <2>1. timer'[e] = timer[e] - 1 /\ silence'[e] = silence[e] + 1
    BY <1>7 DEF Tick
  <2>2. /\ timer[e] \in Nat /\ silence[e] \in Nat
        /\ Interval[e] \in Nat /\ Timeout[e] \in Nat
    BY HeartbeatAssumption DEF TypeOK
  <2>3. CASE waiting[e]
    <3>1. silence[e] = Interval[e] + Timeout[e] - timer[e]
      BY <2>3 DEF TimersAgree
    <3>2. silence'[e] = Interval[e] + Timeout[e] - timer'[e]
      BY <2>1, <2>2, <3>1
    <3> QED BY <2>3, <3>2
  <2>4. CASE ~waiting[e]
    <3>1. silence[e] = Interval[e] - timer[e]
      BY <2>4 DEF TimersAgree
    <3>2. silence'[e] = Interval[e] - timer'[e]
      BY <2>1, <2>2, <3>1
    <3> QED BY <2>4, <3>2
  <2> QED BY <2>3, <2>4
<1> QED BY <1>2, <1>3, <1>4, <1>5, <1>6, <1>7 DEF Next

\* No loop lives on for longer than interval and timeout without hearing of the
\* other end: vanished peers are detected.
THEOREM DetectedInTimeHolds == Spec => []DetectedInTime
<1>1. Init => TimersAgree
  BY HeartbeatAssumption DEF Init, TimersAgree, Ends
<1>2. TypeOK /\ TimersAgree => DetectedInTime
  <2> SUFFICES ASSUME TypeOK, TimersAgree, NEW e \in Ends, alive[e]
               PROVE  silence[e] <= Interval[e] + Timeout[e]
    BY DEF DetectedInTime
  <2>1. timer[e] \in Nat /\ Interval[e] \in Nat /\ Timeout[e] \in Nat
    BY HeartbeatAssumption DEF TypeOK
  <2>2. \/ silence[e] = Interval[e] + Timeout[e] - timer[e]
        \/ silence[e] = Interval[e] - timer[e]
    BY DEF TimersAgree
  <2> QED BY <2>1, <2>2
<1> QED BY <1>1, <1>2, TypeCorrect, Step_TimersAgree, PTL DEF Spec

-----------------------------------------------------------------------------
(***************************************************************************)
(* No false death: Healthy is inductive on a connection that works.        *)
(***************************************************************************)

\* The parameters and the state as numbers and sequences.
LEMMA Numbers ==
    ASSUME TypeOK
    PROVE  /\ Latency \in Nat
           /\ \A e \in Ends : /\ Interval[e] \in Nat /\ Timeout[e] \in Nat /\ timer[e] \in Nat
                              /\ wire[e] \in Seq(Messages) /\ Len(wire[e]) \in Nat
                              /\ (wire[e] = <<>>) <=> (Len(wire[e]) = 0)
                              /\ ~waiting[e] => timer[e] <= Interval[e]
           /\ \A e \in Ends : \A i \in 1..Len(wire[e]) :
                wire[e][i].age \in Nat /\ wire[e][i].age <= Latency
           /\ "client" \in Ends /\ "server" \in Ends
           /\ Other("server") = "client" /\ Other("client") = "server"
<1>1. ASSUME NEW e \in Ends
      PROVE  /\ wire[e] \in Seq(Messages) /\ Len(wire[e]) \in Nat
             /\ (wire[e] = <<>>) <=> (Len(wire[e]) = 0)
             /\ \A i \in 1..Len(wire[e]) : wire[e][i].age \in Nat /\ wire[e][i].age <= Latency
  <2>1. wire[e] \in Seq(Messages)
    BY DEF TypeOK
  <2>2. \A i \in 1..Len(wire[e]) : wire[e][i] \in Messages
    BY <2>1
  <2>3. \A m \in Messages : m.age \in Nat /\ m.age <= Latency
    BY HeartbeatAssumption DEF Messages
  <2> QED BY <2>1, <2>2, <2>3
<1>2. ASSUME NEW e \in Ends
      PROVE  ~waiting[e] => timer[e] <= Interval[e]
  BY DEF TypeOK
<1> QED BY <1>1, <1>2, HeartbeatAssumption DEF TypeOK, Ends, Other

\* The client never comes to its deadline.
LEMMA ClientInTime ==
    ASSUME TypeOK, SafeConfig, Healthy
    PROVE  /\ timer["client"] > 0
           /\ wire["client"] = <<>> => timer["client"] > Latency
<1>1. CASE wire["client"] # <<>>
  <2>1. timer["client"] > Latency - Head(wire["client"]).age
    BY <1>1 DEF Healthy, ClientHears
  <2>2. Head(wire["client"]) = wire["client"][1] /\ 1 \in 1..Len(wire["client"])
    BY <1>1, Numbers, ReceiveEffect
  <2> QED BY <1>1, <2>1, <2>2, Numbers
<1>2. CASE wire["client"] = <<>> /\ ~waiting["server"]
  <2>1. timer["client"] > timer["server"] + Latency
    BY <1>2 DEF Healthy, ClientHears
  <2> QED BY <2>1, Numbers
<1>3. CASE wire["client"] = <<>> /\ waiting["server"]
  <2>1. Len(wire["client"]) = 0
    BY <1>3, Numbers
  <2>2. PICK i \in 1..Len(wire["server"]) : timer["server"] > Latency - wire["server"][i].age
    BY <1>3, <2>1 DEF Healthy, ServerHears
  <2>3. timer["client"] >= Interval["client"] - wire["server"][i].age
    BY DEF Healthy, ClientHears
  <2> QED BY <2>3, Numbers DEF SafeConfig
<1> QED BY <1>1, <1>2, <1>3

\* The server sends one more message to the client.
LEMMA ServerSendsOne ==
    ASSUME TypeOK, SafeConfig, Healthy, cut = {}, NEW k \in {"ping", "data"},
           UNCHANGED waiting["client"], UNCHANGED timer["client"],
           wire' = [wire EXCEPT !["client"] = Send("server", <<New(k)>>)],
           waiting'["server"] \/ (waiting'["server"] = waiting["server"])
    PROVE  Kinds' /\ ClientHears'
<1> DEFINE w == Send("server", <<New(k)>>)
<1>1. /\ w \in Seq(Messages) /\ Len(w) = Len(wire["client"]) + 1
      /\ \A i \in 1..Len(wire["client"]) : w[i] = wire["client"][i]
      /\ w[Len(wire["client"]) + 1] = New(k)
  BY SendOne, Numbers
<1>2. wire'["client"] = w /\ wire'["server"] = wire["server"]
  BY Numbers DEF TypeOK
<1> HIDE DEF w
<1>3. New(k).kind # "pong" /\ New(k).age = 0
  BY DEF New
<1>4. Kinds'
  <2>1. ASSUME NEW i \in 1..Len(w) PROVE w[i].kind # "pong"
    <3>1. i \in 1..Len(wire["client"]) \/ i = Len(wire["client"]) + 1
      BY <1>1, Numbers
    <3> QED BY <1>1, <1>3, <3>1 DEF Healthy, Kinds
  <2> QED BY <1>2, <2>1 DEF Healthy, Kinds
<1>5. ClientHears'
  <2>1. w # <<>> /\ Head(w) = w[1]
    BY <1>1, Numbers
  <2>2. timer["client"] > Latency - w[1].age
    <3>1. CASE wire["client"] = <<>>
      <4>1. w[1] = New(k)
        BY <1>1, <3>1, Numbers
      <4> QED BY <3>1, <4>1, <1>3, ClientInTime, Numbers
    <3>2. CASE wire["client"] # <<>>
      <4>1. 1 \in 1..Len(wire["client"]) /\ Head(wire["client"]) = wire["client"][1]
        BY <3>2, Numbers, ReceiveEffect
      <4> QED BY <1>1, <3>2, <4>1 DEF Healthy, ClientHears
    <3> QED BY <3>1, <3>2
  <2> QED BY <1>2, <2>1, <2>2 DEF Healthy, ClientHears
<1> QED BY <1>4, <1>5

\* What the server waits for stays on its way when it sends more.
LEMMA ServerStillHears ==
    ASSUME TypeOK, Healthy, cut = {}, NEW k \in {"ping", "data"},
           UNCHANGED <<timer, waiting>>,
           wire' = [wire EXCEPT !["client"] = Send("server", <<New(k)>>)]
    PROVE  ServerHears'
<1> DEFINE w == Send("server", <<New(k)>>)
<1>1. /\ Len(w) = Len(wire["client"]) + 1
      /\ \A i \in 1..Len(wire["client"]) : w[i] = wire["client"][i]
  BY SendOne, Numbers
<1>2. wire'["client"] = w /\ wire'["server"] = wire["server"]
  BY Numbers DEF TypeOK
<1> HIDE DEF w
<1>3. \A i \in 1..Len(wire["client"]) : i \in 1..Len(w)
  BY <1>1, Numbers
<1> QED BY <1>1, <1>2, <1>3 DEF Healthy, ServerHears

\* The client receives: its deadline moves, and a ping is answered.
LEMMA Step_ClientReceive ==
    ASSUME TypeOK, SafeConfig, Healthy, cut = {}, ClientReceive
    PROVE  Healthy'
<1> DEFINE c == wire["client"]
           s == wire["server"]
           w == Send("client", <<New("pong")>>)
<1>1. /\ timer'["client"] = Interval["client"] /\ waiting'["client"] = FALSE
      /\ timer'["server"] = timer["server"] /\ waiting'["server"] = waiting["server"]
  <2>1. Reset("client") /\ "client" \in Ends /\ "server" \in Ends \ {"client"}
    BY DEF ClientReceive, Ends
  <2> QED BY <2>1, ResetEffect
<1>2. /\ wire'["client"] = Tail(c) /\ Len(Tail(c)) = Len(c) - 1 /\ Len(c) > 0
      /\ Tail(c) \in Seq(Messages)
      /\ \A i \in 1..Len(Tail(c)) : Tail(c)[i] = c[i + 1]
      /\ Head(c) = c[1]
  <2>1. wire'["client"] = Tail(c)
    BY Numbers DEF ClientReceive, TypeOK
  <2>2. c # <<>>
    BY DEF ClientReceive
  <2> QED BY <2>1, <2>2, ReceiveEffect, Numbers
<1>3. wire'["server"] = IF c[1].kind = "ping" THEN w ELSE s
  <2>1. wire'["server"] = IF Head(c).kind = "ping" THEN w ELSE s
    BY Numbers DEF ClientReceive, TypeOK
  <2> QED BY <1>2, <2>1
<1>4. /\ w \in Seq(Messages) /\ Len(w) = Len(s) + 1
      /\ \A i \in 1..Len(s) : w[i] = s[i]
      /\ w[Len(s) + 1] = New("pong")
  BY SendOne, Numbers
<1>5. New("pong").kind = "pong" /\ New("pong").age = 0
  BY DEF New
<1>6. UNCHANGED <<alive, owed, cut>> /\ KeptUp
  BY DEF ClientReceive, Healthy
<1> HIDE DEF w
<1>7. /\ Len(wire'["server"]) \in Nat
      /\ \A i \in 1..Len(wire'["server"]) :
            /\ wire'["server"][i].kind = "pong"
            /\ i \in 1..Len(s) \/ wire'["server"][i].age = 0
      /\ \A i \in 1..Len(s) : i \in 1..Len(wire'["server"]) /\ wire'["server"][i] = s[i]
  <2>1. CASE c[1].kind = "ping"
    <3>1. \A i \in 1..Len(w) : i \in 1..Len(s) \/ i = Len(s) + 1
      BY <1>4, Numbers
    <3>2. \A i \in 1..Len(s) : i \in 1..Len(w)
      BY <1>4, Numbers
    <3>3. Len(w) \in Nat
      BY <1>4, Numbers
    <3> QED BY <1>3, <1>4, <1>5, <2>1, <3>1, <3>2, <3>3 DEF Healthy, Kinds
  <2>2. CASE c[1].kind # "ping"
    BY <1>3, <2>2, Numbers DEF Healthy, Kinds
  <2> QED BY <2>1, <2>2
<1>8. Kinds'
  <2>1. ASSUME NEW i \in 1..Len(Tail(c)) PROVE Tail(c)[i].kind # "pong"
    <3>1. i + 1 \in 1..Len(c)
      BY <1>2, Numbers
    <3> QED BY <1>2, <3>1 DEF Healthy, Kinds
  <2> QED BY <1>2, <1>7, <2>1 DEF Kinds
<1>9. ClientHears'
  <2>1. Interval["client"] > Interval["server"] + Latency /\ Interval["client"] > Latency
    BY Numbers DEF SafeConfig
  <2>2. Tail(c) # <<>> => Interval["client"] > Latency - Head(Tail(c)).age
    <3> SUFFICES ASSUME Tail(c) # <<>>
                 PROVE  Interval["client"] > Latency - Head(Tail(c)).age
      OBVIOUS
    <3> DEFINE t == Tail(c)
    <3>0. t \in Seq(Messages) /\ t # <<>>
      BY <1>2
    <3> HIDE DEF t
    <3>a. Len(t) # 0
      BY <3>0
    <3>1. Len(Tail(c)) # 0
      BY <3>a DEF t
    <3>2. Head(Tail(c)) = Tail(c)[1] /\ 1 \in 1..Len(Tail(c)) /\ 2 \in 1..Len(c)
      BY <1>2, <3>1, Numbers
    <3>3. Head(Tail(c)) = c[2]
      BY <1>2, <3>2
    <3> QED BY <2>1, <3>2, <3>3, Numbers
  <2>3. ~waiting["server"] => Interval["client"] > timer["server"] + Latency
    BY <2>1, Numbers
  <2>4. \A i \in 1..Len(wire'["server"]) :
            wire'["server"][i].age \in Nat
    BY <1>7, Numbers
  <2>5. \A i \in 1..Len(wire'["server"]) :
            Interval["client"] >= Interval["client"] - wire'["server"][i].age
    BY <2>4, Numbers
  <2> QED BY <1>1, <1>2, <2>2, <2>3, <2>5 DEF ClientHears
<1>10. ServerHears'
  <2> SUFFICES ASSUME waiting["server"] PROVE ServerHears'
    BY <1>1 DEF ServerHears
  <2>1. CASE \E i \in 1..Len(c) : c[i].kind = "ping" /\ timer["server"] > 2 * Latency - c[i].age
    <3> PICK i \in 1..Len(c) : c[i].kind = "ping" /\ timer["server"] > 2 * Latency - c[i].age
      BY <2>1
    <3>1. CASE i = 1
      <4>1. wire'["server"] = w
        BY <1>3, <3>1
      <4>2. Len(s) + 1 \in 1..Len(w) /\ w[Len(s) + 1].age = 0
        BY <1>4, <1>5, Numbers
      <4>3. timer["server"] > Latency - 0
        BY <3>1, <1>2, Numbers
      <4> QED BY <1>1, <4>1, <4>2, <4>3 DEF ServerHears
    <3>2. CASE i # 1
      <4>1. i - 1 \in 1..Len(Tail(c)) /\ (i - 1) + 1 = i
        BY <1>2, <3>2, Numbers
      <4>2. Tail(c)[i - 1] = c[i]
        BY <1>2, <4>1
      <4> QED BY <1>1, <1>2, <4>1, <4>2 DEF ServerHears
    <3> QED BY <3>1, <3>2
  <2>2. CASE \E i \in 1..Len(s) : timer["server"] > Latency - s[i].age
    BY <1>1, <1>7, <2>2 DEF ServerHears
  <2> QED BY <2>1, <2>2 DEF Healthy, ServerHears
<1>11. KeptUp'
  BY <1>6 DEF KeptUp
<1> QED BY <1>8, <1>9, <1>10, <1>11 DEF Healthy

\* The server receives: only pongs come, so it owes none, and the client, which
\* wrote not long ago, has time.
LEMMA Step_ServerReceive ==
    ASSUME TypeOK, SafeConfig, Healthy, cut = {}, ServerReceive
    PROVE  Healthy'
<1> DEFINE s == wire["server"]
<1>1. /\ timer'["server"] = Interval["server"] /\ waiting'["server"] = FALSE
      /\ timer'["client"] = timer["client"] /\ waiting'["client"] = waiting["client"]
  <2>1. Reset("server") /\ "server" \in Ends /\ "client" \in Ends \ {"server"}
    BY DEF ServerReceive, Ends
  <2> QED BY <2>1, ResetEffect
<1>2. /\ wire'["server"] = Tail(s) /\ wire'["client"] = wire["client"]
      /\ Len(Tail(s)) = Len(s) - 1 /\ Len(s) > 0
      /\ \A i \in 1..Len(Tail(s)) : Tail(s)[i] = s[i + 1]
      /\ Head(s) = s[1]
  <2>1. wire'["server"] = Tail(s) /\ wire'["client"] = wire["client"]
    BY Numbers DEF ServerReceive, TypeOK
  <2>2. s # <<>>
    BY DEF ServerReceive
  <2> QED BY <2>1, <2>2, ReceiveEffect, Numbers
<1>3. 1 \in 1..Len(s) /\ \A i \in 1..Len(Tail(s)) : i + 1 \in 1..Len(s)
  BY <1>2, Numbers
<1>4. KeptUp'
  <2>1. s[1].kind = "pong"
    BY <1>3 DEF Healthy, Kinds
  <2>2. owed' = owed
    BY <1>2, <2>1 DEF ServerReceive
  <2> QED BY <2>2 DEF KeptUp, Healthy, ServerReceive
<1>5. Kinds'
  BY <1>2, <1>3 DEF Healthy, Kinds
<1>6. ClientHears'
  <2>1. timer["client"] >= Interval["client"] - s[1].age
    BY <1>3 DEF Healthy, ClientHears
  <2>2. timer["client"] > Interval["server"] + Latency
    BY <1>3, <2>1, Numbers DEF SafeConfig
  <2>3. \A i \in 1..Len(Tail(s)) : timer["client"] >= Interval["client"] - Tail(s)[i].age
    BY <1>2, <1>3 DEF Healthy, ClientHears
  <2> QED BY <1>1, <1>2, <2>2, <2>3 DEF Healthy, ClientHears
<1>7. ServerHears'
  BY <1>1 DEF ServerHears
<1> QED BY <1>4, <1>5, <1>6, <1>7 DEF Healthy

\* Time passes: deadlines and ages move together.
LEMMA Step_Tick ==
    ASSUME TypeOK, SafeConfig, Healthy, cut = {}, Tick
    PROVE  Healthy'
<1>1. \A e \in Ends : alive[e] /\ timer[e] > 0
  BY Numbers DEF Healthy, KeptUp, Tick, Due
<1>2. \A e \in Ends : timer'[e] = timer[e] - 1
  BY <1>1 DEF Tick
<1>3. \A e \in Ends :
        /\ Len(wire'[e]) = Len(wire[e]) /\ wire'[e] \in Seq(Messages)
        /\ \A i \in 1..Len(wire[e]) : /\ wire'[e][i].age = wire[e][i].age + 1
                                      /\ wire'[e][i].kind = wire[e][i].kind
  <2> TAKE e \in Ends
  <2>1. /\ wire[e] \in Seq(Messages) /\ \A i \in 1..Len(wire[e]) : wire[e][i].age < Latency
        /\ wire'[e] = [i \in 1..Len(wire[e]) |-> [wire[e][i] EXCEPT !.age = @ + 1]]
    BY <1>1 DEF Tick, TypeOK
  <2> DEFINE v == wire[e]
             t == [i \in 1..Len(v) |-> [v[i] EXCEPT !.age = @ + 1]]
  <2>2. /\ t \in Seq(Messages) /\ Len(t) = Len(v)
        /\ \A i \in 1..Len(v) : t[i].age = v[i].age + 1 /\ t[i].kind = v[i].kind
    BY <2>1, AgeEffect
  <2>3. wire'[e] = t
    BY <2>1
  <2> HIDE DEF t
  <2> QED BY <2>2, <2>3
<1>4. UNCHANGED <<waiting, alive, owed, cut>>
  BY DEF Tick
<1>5. KeptUp'
  BY <1>4 DEF Healthy, KeptUp
<1>6. Kinds'
  BY <1>3, Numbers DEF Healthy, Kinds
<1>7. ClientHears'
  <2>1. wire'["client"] # <<>> => timer'["client"] > Latency - Head(wire'["client"]).age
    <3> SUFFICES ASSUME wire'["client"] # <<>>
                 PROVE  timer'["client"] > Latency - Head(wire'["client"]).age
      OBVIOUS
    <3>1. Len(wire'["client"]) # 0 /\ Head(wire'["client"]) = wire'["client"][1]
      BY <1>3, Numbers
    <3>2. wire["client"] # <<>> /\ 1 \in 1..Len(wire["client"])
      BY <1>3, <3>1, Numbers
    <3>3. Head(wire["client"]) = wire["client"][1]
      BY <3>2, ReceiveEffect, Numbers
    <3>4. timer["client"] > Latency - wire["client"][1].age
      BY <3>2, <3>3 DEF Healthy, ClientHears
    <3>5. wire'["client"][1].age = wire["client"][1].age + 1
      BY <1>3, <3>2, Numbers
    <3>6. timer'["client"] > Latency - wire'["client"][1].age
      BY <1>2, <3>2, <3>4, <3>5, Numbers
    <3> QED BY <3>1, <3>6
  <2>2. wire'["client"] = <<>> /\ ~waiting["server"] =>
            timer'["client"] > timer'["server"] + Latency
    <3> SUFFICES ASSUME wire'["client"] = <<>>, ~waiting["server"]
                 PROVE  timer'["client"] > timer'["server"] + Latency
      OBVIOUS
    <3>1. wire["client"] = <<>>
      BY <1>3, Numbers
    <3>2. timer["client"] > timer["server"] + Latency
      BY <3>1 DEF Healthy, ClientHears
    <3> QED BY <1>2, <3>2, Numbers
  <2>3. ASSUME NEW i \in 1..Len(wire'["server"])
        PROVE  timer'["client"] >= Interval["client"] - wire'["server"][i].age
    <3>1. i \in 1..Len(wire["server"])
      BY <1>3, Numbers
    <3>2. timer["client"] >= Interval["client"] - wire["server"][i].age
      BY <3>1 DEF Healthy, ClientHears
    <3>3. wire'["server"][i].age = wire["server"][i].age + 1
      BY <1>3, <3>1, Numbers
    <3> QED BY <1>2, <3>1, <3>2, <3>3, Numbers
  <2> QED BY <1>4, <2>1, <2>2, <2>3 DEF Healthy, ClientHears
<1>8. ServerHears'
  <2> SUFFICES ASSUME waiting["server"] PROVE ServerHears'
    BY <1>4 DEF ServerHears
  <2>1. ASSUME NEW i \in 1..Len(wire["client"]), wire["client"][i].kind = "ping",
               timer["server"] > 2 * Latency - wire["client"][i].age
        PROVE  ServerHears'
    <3>1. i \in 1..Len(wire'["client"]) /\ wire'["client"][i].kind = "ping"
      BY <1>3, <2>1, Numbers
    <3>2. timer'["server"] > 2 * Latency - wire'["client"][i].age
      BY <1>2, <1>3, <2>1, Numbers
    <3> QED BY <3>1, <3>2 DEF ServerHears
  <2>2. ASSUME NEW i \in 1..Len(wire["server"]),
               timer["server"] > Latency - wire["server"][i].age
        PROVE  ServerHears'
    <3>1. i \in 1..Len(wire'["server"])
      BY <1>3, Numbers
    <3>2. timer'["server"] > Latency - wire'["server"][i].age
      BY <1>2, <1>3, <2>2, Numbers
    <3> QED BY <3>1, <3>2 DEF ServerHears
  <2> QED BY <2>1, <2>2 DEF Healthy, ServerHears
<1> QED BY <1>5, <1>6, <1>7, <1>8 DEF Healthy

LEMMA Step_Healthy ==
    ASSUME TypeOK, SafeConfig, Healthy, [Next]_vars, cut' = {}
    PROVE  Healthy'
<1>0. cut = {}
  BY DEF Next, ClientReceive, ServerReceive, SendData, Ping, GiveUp, SeeClose, CutOff, Tick, vars
<1>1. CASE ClientReceive
  BY <1>0, <1>1, Step_ClientReceive
<1>2. CASE ServerReceive
  BY <1>0, <1>2, Step_ServerReceive
<1>3. ASSUME NEW e \in Ends, SendData(e) PROVE Healthy'
  <2>1. e = "server"
    BY <1>3 DEF SendData, SafeConfig, Ends
  <2>2. owed = 0 /\ owed' = 0
    BY <1>0, <1>3, <2>1 DEF SendData, Healthy, KeptUp
  <2>3. wire' = [wire EXCEPT !["client"] = Send("server", <<New("data")>>)]
    <3>1. [i \in 1..owed |-> New("pong")] = <<>>
      BY <2>2
    <3>2. <<>> \o <<New("data")>> = <<New("data")>>
      OBVIOUS
    <3> QED BY <1>3, <2>1, <3>1, <3>2, Numbers DEF SendData
  <2>4. UNCHANGED <<timer, waiting, alive, cut>>
    BY <1>3 DEF SendData
  <2>5. Kinds' /\ ClientHears'
    BY <1>0, <2>3, <2>4, ServerSendsOne
  <2>6. ServerHears'
    BY <1>0, <2>3, <2>4, ServerStillHears
  <2> QED BY <2>2, <2>4, <2>5, <2>6 DEF Healthy, KeptUp
<1>4. ASSUME NEW e \in Ends, Ping(e) PROVE Healthy'
  <2>1. e = "server"
    <3>1. timer[e] = 0
      BY <1>4 DEF Ping, Due
    <3> QED BY <3>1, ClientInTime DEF Ends
  <2>2. wire' = [wire EXCEPT !["client"] = Send("server", <<New("ping")>>)]
    BY <1>4, <2>1, Numbers DEF Ping
  <2>3. /\ timer'["server"] = Timeout["server"] /\ timer'["client"] = timer["client"]
        /\ waiting'["server"] = TRUE /\ waiting'["client"] = waiting["client"]
        /\ UNCHANGED <<alive, owed, cut>>
    BY <1>4, <2>1, Numbers DEF Ping, TypeOK, Ends
  <2>4. Kinds' /\ ClientHears'
    BY <1>0, <2>2, <2>3, ServerSendsOne
  <2>5. ServerHears'
    <3> DEFINE w == Send("server", <<New("ping")>>)
               n == Len(wire["client"]) + 1
    <3>1. Len(w) = n /\ w[n] = New("ping")
      BY <1>0, SendOne, Numbers
    <3>2. wire'["client"] = w /\ n \in 1..n
      BY <2>2, Numbers DEF TypeOK
    <3> HIDE DEF w, n
    <3>3. New("ping").kind = "ping" /\ Timeout["server"] > 2 * Latency - New("ping").age
      BY Numbers DEF SafeConfig, New
    <3> QED BY <2>3, <3>1, <3>2, <3>3 DEF ServerHears
  <2> QED BY <2>3, <2>4, <2>5 DEF Healthy, KeptUp
<1>5. ASSUME NEW e \in Ends, GiveUp(e) PROVE FALSE
  <2>1. timer[e] = 0 /\ waiting[e]
    BY <1>5 DEF GiveUp, Due
  <2>2. e = "server"
    BY <2>1, ClientInTime DEF Ends
  <2>3. \/ \E i \in 1..Len(wire["client"]) : 0 > 2 * Latency - wire["client"][i].age
        \/ \E i \in 1..Len(wire["server"]) : 0 > Latency - wire["server"][i].age
    BY <2>1, <2>2 DEF Healthy, ServerHears
  <2> QED BY <2>3, Numbers
<1>6. ASSUME NEW e \in Ends, SeeClose(e) PROVE FALSE
  BY <1>0, <1>6 DEF SeeClose, Healthy, KeptUp, Ends, Other
<1>7. CASE Tick
  BY <1>0, <1>7, Step_Tick
<1>8. CASE UNCHANGED vars
  BY <1>8 DEF Healthy, KeptUp, Kinds, ClientHears, ServerHears, vars
<1>9. ASSUME NEW e \in Ends, CutOff(e) PROVE FALSE
  BY <1>9 DEF CutOff
<1> QED BY <1>1, <1>2, <1>3, <1>4, <1>5, <1>6, <1>7, <1>8, <1>9 DEF Next

\* IInv holds for all intervals, timeouts and latencies: the timers count the
\* silence, and a working connection of a safe configuration is healthy.
THEOREM IInvHolds == Spec => []IInv
<1>1. ASSUME Init, SafeConfig PROVE Healthy
  <2> PICK skew \in 0..Latency :
        timer = [e \in Ends |-> IF e = "client" THEN Interval[e] - skew ELSE Interval[e]]
    BY <1>1 DEF Init
  <2>1. /\ timer["client"] = Interval["client"] - skew /\ timer["server"] = Interval["server"]
        /\ wire["client"] = <<>> /\ wire["server"] = <<>>
        /\ waiting["client"] = FALSE /\ waiting["server"] = FALSE
        /\ \A e \in Ends : alive[e]
        /\ owed = 0
    BY <1>1 DEF Init, Ends
  <2>2. timer["client"] > timer["server"] + Latency
    BY <1>1, <2>1, HeartbeatAssumption DEF SafeConfig, Ends
  <2> QED BY <2>1, <2>2 DEF Healthy, KeptUp, Kinds, ClientHears, ServerHears
<1>2. Init => IInv
  <2>1. Init => TimersAgree
    BY HeartbeatAssumption DEF Init, TimersAgree, Ends
  <2> QED BY <1>1, <2>1 DEF IInv
<1>3. TypeOK /\ IInv /\ [Next]_vars => IInv'
  <2>1. TypeOK /\ IInv /\ [Next]_vars /\ cut' = {} => cut = {}
    BY DEF Next, ClientReceive, ServerReceive, SendData, Ping, GiveUp, SeeClose, CutOff, Tick, vars
  <2>2. SafeConfig' <=> SafeConfig
    BY DEF SafeConfig
  <2> QED BY <2>1, <2>2, Step_TimersAgree, Step_Healthy DEF IInv
<1> QED BY <1>2, <1>3, TypeCorrect, PTL DEF Spec

\* No connection that works is given up when the server asks early enough and
\* the client's application is silent.
THEOREM NoFalseDeathHolds == Spec => []NoFalseDeath
<1>1. IInv => NoFalseDeath
  BY DEF IInv, NoFalseDeath, Healthy, KeptUp
<1> QED BY <1>1, IInvHolds, PTL

=============================================================================
