------------------------------ MODULE Heartbeat ------------------------------
(***************************************************************************)
(* The heartbeats of both ends of one session, with time: the deadline of  *)
(* run_message_loop (src/ws/client/connection_loop.rs) against that of     *)
(* run_server_session (src/ws/server/session.rs).                          *)
(*                                                                         *)
(* Both loops are prompt: what is ready is done before time passes.  A     *)
(* message takes at most Latency.  (ServerSession and SecureChannel have   *)
(* the loops that wait for an inbox or for room in a buffer.)              *)
(***************************************************************************)
EXTENDS Integers, Sequences

CONSTANTS
    Interval,   \* heartbeat_interval of each end
    Timeout,    \* heartbeat_timeout of each end
    Latency,    \* longest way of a message
    Chatty,     \* ends whose application sends frames
    MaxWire     \* bound: messages on their way to an end

Ends     == {"client", "server"}
Other(e) == IF e = "client" THEN "server" ELSE "client"

ASSUME HeartbeatAssumption ==
    /\ Interval \in [Ends -> Nat \ {0}]
    /\ Timeout \in [Ends -> Nat \ {0}]
    /\ Latency \in Nat /\ Latency <= Interval["client"]
    /\ Chatty \subseteq Ends
    /\ MaxWire \in Nat

VARIABLES
    timer,      \* time left until heartbeat_deadline
    waiting,    \* waiting_for_pong
    alive,      \* the loop runs
    wire,       \* messages on their way to each end, with their age
    owed,       \* Pongs in the server's scheduler
    cut,        \* ends that nothing reaches any more, without a word
    silence     \* history: time since the end heard of the other

vars == <<timer, waiting, alive, wire, owed, cut, silence>>

Messages == [kind : {"ping", "pong", "data"}, age : 0..Latency]
New(k)   == [kind |-> k, age |-> 0]

TypeOK ==
    /\ timer \in [Ends -> Nat]
    /\ \A e \in Ends : timer[e] <= IF waiting[e] THEN Timeout[e] ELSE Interval[e]
    /\ waiting \in [Ends -> BOOLEAN]
    /\ alive \in [Ends -> BOOLEAN]
    /\ wire \in [Ends -> Seq(Messages)]
    /\ owed \in Nat
    /\ cut \subseteq Ends
    /\ silence \in [Ends -> Nat]

\* The server starts its session when the client's last handshake message
\* arrives; the client may have been in its message loop since it was sent.
Init ==
    /\ \E skew \in 0..Latency :
        /\ timer = [e \in Ends |-> IF e = "client" THEN Interval[e] - skew ELSE Interval[e]]
        /\ silence = [e \in Ends |-> IF e = "client" THEN skew ELSE 0]
    /\ waiting = [e \in Ends |-> FALSE]
    /\ alive = [e \in Ends |-> TRUE]
    /\ wire = [e \in Ends |-> <<>>]
    /\ owed = 0 /\ cut = {}

-----------------------------------------------------------------------------

\* What e sends is on its way, unless it never arrives.
Send(e, ms) == IF Other(e) \in cut THEN wire[Other(e)] ELSE wire[Other(e)] \o ms

\* Mutant: a ping does not count as a sign of life.
ResetUnlessPing(e) ==
    IF Head(wire[e]).kind = "ping" THEN UNCHANGED <<timer, waiting, silence>>
    ELSE /\ timer' = [timer EXCEPT ![e] = Interval[e]]
         /\ waiting' = [waiting EXCEPT ![e] = FALSE]
         /\ silence' = [silence EXCEPT ![e] = 0]

\* Any binary message moves the deadline.
Reset(e) ==
    /\ timer' = [timer EXCEPT ![e] = Interval[e]]
    /\ waiting' = [waiting EXCEPT ![e] = FALSE]
    /\ silence' = [silence EXCEPT ![e] = 0]

\* The client answers a Ping through its own command channel, at once.  (When
\* the channel is full the Pong is lost, but the frames in it are sent.)
ClientReceive ==
    /\ alive["client"] /\ wire["client"] # <<>>
    /\ Reset("client")
    /\ wire' = [wire EXCEPT
                  !["client"] = Tail(@),
                  !["server"] = IF Head(wire["client"]).kind = "ping"
                                THEN Send("client", <<New("pong")>>) ELSE @]
    /\ UNCHANGED <<alive, owed, cut>>

\* The server puts its Pong in the scheduler, which only a Send command empties.
ServerReceive ==
    /\ alive["server"] /\ wire["server"] # <<>>
    /\ Reset("server")
    /\ wire' = [wire EXCEPT !["server"] = Tail(@)]
    /\ owed' = IF Head(wire["server"]).kind = "ping" THEN owed + 1 ELSE owed
    /\ UNCHANGED <<alive, cut>>

\* The application sends a frame; the server's Pongs leave with it.
SendData(e) ==
    /\ e \in Chatty /\ alive[e] /\ Len(wire[Other(e)]) + owed < MaxWire
    /\ LET pongs == IF e = "server" THEN [i \in 1..owed |-> New("pong")] ELSE <<>> IN
       wire' = [wire EXCEPT ![Other(e)] = Send(e, pongs \o <<New("data")>>)]
    /\ owed' = IF e = "server" THEN 0 ELSE owed
    /\ UNCHANGED <<timer, waiting, alive, cut, silence>>

Due(e) == alive[e] /\ timer[e] = 0

\* Mutant: the deadline after a ping is a whole interval.
PingLazy(e) ==
    /\ Due(e) /\ ~waiting[e]
    /\ wire' = [wire EXCEPT ![Other(e)] = Send(e, <<New("ping")>>)]
    /\ waiting' = [waiting EXCEPT ![e] = TRUE]
    /\ timer' = [timer EXCEPT ![e] = Interval[e]]
    /\ UNCHANGED <<alive, owed, cut, silence>>

\* Mutant: the deadline after a ping is not moved.
PingAtOnce(e) ==
    /\ Due(e) /\ ~waiting[e]
    /\ wire' = [wire EXCEPT ![Other(e)] = Send(e, <<New("ping")>>)]
    /\ waiting' = [waiting EXCEPT ![e] = TRUE]
    /\ UNCHANGED <<timer, alive, owed, cut, silence>>

Ping(e) ==
    /\ Due(e) /\ ~waiting[e]
    /\ wire' = [wire EXCEPT ![Other(e)] = Send(e, <<New("ping")>>)]
    /\ waiting' = [waiting EXCEPT ![e] = TRUE]
    /\ timer' = [timer EXCEPT ![e] = Timeout[e]]
    /\ UNCHANGED <<alive, owed, cut, silence>>

GiveUp(e) ==
    /\ Due(e) /\ waiting[e]
    /\ alive' = [alive EXCEPT ![e] = FALSE]
    /\ UNCHANGED <<timer, waiting, wire, owed, cut, silence>>

\* An end that left closes the socket, which the other one sees.
SeeClose(e) ==
    /\ alive[e] /\ ~alive[Other(e)] /\ e \notin cut /\ wire[e] = <<>>
    /\ alive' = [alive EXCEPT ![e] = FALSE]
    /\ UNCHANGED <<timer, waiting, wire, owed, cut, silence>>

\* A host or the network goes away, for one end or, by two steps, for both; no
\* end is told.
CutOff(e) ==
    /\ e \notin cut /\ cut' = cut \cup {e}
    /\ wire' = [wire EXCEPT ![e] = <<>>]
    /\ UNCHANGED <<timer, waiting, alive, owed, silence>>

\* Time passes when no timer is due and no message is overdue.
Tick ==
    /\ \E e \in Ends : alive[e]
    /\ \A e \in Ends : ~Due(e)
    /\ \A e \in Ends : alive[e] =>
        \A i \in 1..Len(wire[e]) : wire[e][i].age < Latency
    /\ timer' = [e \in Ends |-> IF alive[e] THEN timer[e] - 1 ELSE timer[e]]
    /\ silence' = [e \in Ends |-> IF alive[e] THEN silence[e] + 1 ELSE silence[e]]
    /\ wire' = [e \in Ends |->
                  IF alive[e]
                  THEN [i \in 1..Len(wire[e]) |-> [wire[e][i] EXCEPT !.age = @ + 1]]
                  ELSE wire[e]]
    /\ UNCHANGED <<waiting, alive, owed, cut>>

Next ==
    \/ ClientReceive \/ ServerReceive
    \/ \E e \in Ends : SendData(e) \/ Ping(e) \/ GiveUp(e) \/ SeeClose(e)
                       \/ CutOff(e)
    \/ Tick

Spec == Init /\ [][Next]_vars

-----------------------------------------------------------------------------
(***************************************************************************)
(* Properties.                                                             *)
(***************************************************************************)

\* A vanished peer is detected in time: no loop runs on without having heard
\* of the other end for longer than interval and timeout.
DetectedInTime ==
    \A e \in Ends : alive[e] => silence[e] <= Interval[e] + Timeout[e]

\* The configurations in which the server's pings keep the client content: it
\* asks long before the client does, and the client's application is silent
\* (its frames would keep the server from asking).
SafeConfig ==
    /\ Interval["server"] + 2 * Latency < Interval["client"]
    /\ 2 * Latency < Timeout["server"]
    /\ "client" \notin Chatty

\* In these a connection that works is never given up, and no Pong is left in
\* the server's scheduler.
KeptUp == cut = {} => (\A e \in Ends : alive[e]) /\ owed = 0

NoFalseDeath == SafeConfig => KeptUp

\* Why: the server's ping, or its answer, is on the way early enough.
TimersAgree ==
    \A e \in Ends : alive[e] =>
        silence[e] = IF waiting[e] THEN Interval[e] + Timeout[e] - timer[e]
                                   ELSE Interval[e] - timer[e]

Kinds ==
    /\ \A i \in 1..Len(wire["client"]) : wire["client"][i].kind # "pong"
    /\ \A i \in 1..Len(wire["server"]) : wire["server"][i].kind = "pong"

ClientHears ==
    /\ ~waiting["client"]
    /\ wire["client"] # <<>> =>
        timer["client"] > Latency - Head(wire["client"]).age
    /\ wire["client"] = <<>> /\ ~waiting["server"] =>
        timer["client"] > timer["server"] + Latency
    /\ \A i \in 1..Len(wire["server"]) :
        timer["client"] >= Interval["client"] - wire["server"][i].age

ServerHears ==
    waiting["server"] =>
        \/ \E i \in 1..Len(wire["client"]) :
            /\ wire["client"][i].kind = "ping"
            /\ timer["server"] > 2 * Latency - wire["client"][i].age
        \/ \E i \in 1..Len(wire["server"]) :
            timer["server"] > Latency - wire["server"][i].age

Healthy == KeptUp /\ Kinds /\ ClientHears /\ ServerHears

IInv == TimersAgree /\ (SafeConfig /\ cut = {} => Healthy)

-----------------------------------------------------------------------------

\* src/README.md: the heartbeat detects "dead" sessions.  One in which both ends
\* run, read and reach each other is not dead.
OnlyDeadGivenUp == cut = {} => \A e \in Ends : alive[e]

=============================================================================
