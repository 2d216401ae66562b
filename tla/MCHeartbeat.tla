----------------------------- MODULE MCHeartbeat -----------------------------
(* Small instances of Heartbeat for TLC. *)
EXTENDS Heartbeat

\* A server that asks more often than the client: the least interval and timeout
\* that SafeConfig allows for a latency of 2.
Eager     == [client |-> 8, server |-> 3]
EagerWait == [client |-> 2, server |-> 5]

\* The defaults of both configurations, 30 s and 10 s.
Default     == [client |-> 3, server |-> 3]
DefaultWait == [client |-> 1, server |-> 1]
=============================================================================
