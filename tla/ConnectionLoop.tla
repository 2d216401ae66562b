--------------------------- MODULE ConnectionLoop ---------------------------
(***************************************************************************)
(* The WebSocket client: the background task WsClient::connection_loop     *)
(* (src/ws/client/connection_loop.rs) and the public methods of WsClient   *)
(* that the application calls from other tasks (src/ws/client/mod.rs).     *)
(*                                                                         *)
(* The two sides share the endpoint url, the auto_reconnect flag, the      *)
(* cancellation token, the bounded command channel, the pending map and    *)
(* the watched ConnectionState.  The loop is a task with one location per  *)
(* await point; code between two awaits is one action.  The peer and the   *)
(* network are external: every outcome they can produce is an action.      *)
(***************************************************************************)
EXTENDS Naturals, Sequences

CONSTANTS
    Endpoints,      \* URLs the application may set
    NoUrl,          \* the url field's None
    Requests,       \* calls of WsClient::request, each made at most once
    Events,         \* frames of WsClient::send_event; a frame may be sent again
    BufferSize,     \* config.buffer_size, the command channel's capacity
    MaxCallers,     \* bound: endpoint calls between their write and try_send
    MaxAttempt,     \* bound: reconnect_attempt saturates here
    Panic,          \* result of a backoff strategy that panics
    NextDelay(_)    \* config.backoff.next_delay, see Backoff.tla

Controls == {"EndpointChanged", "Reconnect", "WakeUp"}
Pong     == "Pong"
Frames   == Requests \cup Events \cup {Pong}
Cmds     == Frames \cup Controls

ASSUME ConnectionLoopAssumption ==
    /\ NoUrl \notin Endpoints
    /\ BufferSize \in Nat \ {0}             \* mpsc::channel(0) panics
    /\ MaxCallers \in Nat \ {0}
    /\ MaxAttempt \in Nat \ {0}
    /\ Frames \cap Controls = {}
    /\ Pong \notin Requests
    /\ Requests \cap Events = {}
    /\ \A a \in 0..MaxAttempt : NextDelay(a) \in Nat \cup {Panic}
    /\ Panic \notin Nat

VARIABLES
    url,            \* WsClient.url
    autoReconnect,  \* WsClient.auto_reconnect
    app,            \* what the application did with its handle
    notifying,      \* endpoint calls that wrote url and have not yet try_sent
    cmdq,           \* the mpsc channel of ClientCmd
    call,           \* where each WsClient::request call is
    pending,        \* keys of WsClient.pending
    answered,       \* oneshot channels holding the server's reply
    pc,             \* await point of connection_loop
    attempt,        \* reconnect_attempt
    everConnected,  \* ever_connected
    target,         \* the local copy of url this iteration works with
    state,          \* the watched ConnectionState, without its payload
    outbox,         \* frames in the message loop's WfqScheduler
    wsClosed,       \* the loop has closed the socket and still uses it
    waitingForPong, \* waiting_for_pong
    sentNow,        \* requests transmitted over the current connection
    sent,           \* history: requests transmitted over any connection
    lost            \* history: an EndpointChanged met a full channel since
                    \* the loop last read url

appVars  == <<url, autoReconnect, app, notifying>>
callVars == <<call, pending, answered>>
loopVars == <<pc, attempt, everConnected, target, state>>
msgVars  == <<outbox, wsClosed, waitingForPong, sentNow>>
vars     == <<appVars, cmdq, callVars, loopVars, msgVars, sent, lost>>

Handshaking == {"Connect", "Version", "Noise", "Auth", "AuthReply"}
MessageLoop == {"Online", "Sending", "Draining", "ClosingDrain", "Pinging",
                "ClosingEndpoint", "ClosingReconnect", "ClosingDead"}
Parked      == {"WaitEndpoint", "WaitMismatch", "WaitUnauthorized", "WaitManual"}
Dead        == {"Exited", "Panicked"}

\* request() has not returned yet
Running   == {"sending", "waiting", "expired"}
cancelled == app = "shutdown"
Closing   == {"EndpointChanged", "Reconnect"}
Queued    == {cmdq[i] : i \in DOMAIN cmdq}

TypeOK ==
    /\ url \in Endpoints \cup {NoUrl}
    /\ autoReconnect \in BOOLEAN
    /\ app \in {"live", "shutdown", "dropped"}
    /\ notifying \in 0..MaxCallers
    /\ cmdq \in Seq(Cmds) /\ Len(cmdq) <= BufferSize
    /\ call \in [Requests -> {"idle", "sending", "waiting", "expired", "ok",
                              "timeout", "channelError", "abandoned"}]
    /\ pending \subseteq Requests
    /\ answered \subseteq Requests
    /\ pc \in {"Top", "Backoff"} \cup Handshaking \cup MessageLoop
              \cup Parked \cup Dead
    /\ attempt \in 0..MaxAttempt
    /\ everConnected \in BOOLEAN
    /\ target \in Endpoints \cup {NoUrl}
    /\ state \in {"Disconnected", "Connecting", "Reconnecting", "Handshaking",
                  "Authenticating", "WaitingForAuth", "Online", "Unauthorized",
                  "VersionMismatch", "Error"}
    /\ outbox \subseteq Frames
    /\ wsClosed \in BOOLEAN
    /\ waitingForPong \in BOOLEAN
    /\ sentNow \subseteq Requests
    /\ sent \subseteq Requests
    /\ lost \in BOOLEAN

\* WsClient::new
Init ==
    /\ url = NoUrl /\ autoReconnect = TRUE /\ app = "live" /\ notifying = 0
    /\ cmdq = <<>>
    /\ call = [r \in Requests |-> "idle"] /\ pending = {} /\ answered = {}
    /\ pc = "Top" /\ attempt = 0 /\ everConnected = FALSE
    /\ target = NoUrl /\ state = "Disconnected"
    /\ outbox = {} /\ wsClosed = FALSE /\ waitingForPong = FALSE /\ sentNow = {}
    /\ sent = {} /\ lost = FALSE

-----------------------------------------------------------------------------
(***************************************************************************)
(* The application's calls.                                                *)
(***************************************************************************)

\* Mutant: an unbounded channel.
TrySendUnbounded(c) == cmdq' = IF pc \notin Dead THEN Append(cmdq, c) ELSE cmdq

\* mpsc::Sender::try_send: a full or closed channel drops the command.
HasRoom   == pc \notin Dead /\ Len(cmdq) < BufferSize
TrySend(c) == cmdq' = IF HasRoom THEN Append(cmdq, c) ELSE cmdq

\* set_endpoint and clear_endpoint first write url ...
WriteUrl(u) ==
    /\ app # "dropped" /\ notifying < MaxCallers
    /\ url' = u
    /\ notifying' = notifying + 1
    /\ UNCHANGED <<autoReconnect, app, cmdq, callVars, loopVars, msgVars, sent, lost>>

\* ... and then notify the loop, which may already have run in between.
NotifyEndpoint ==
    /\ notifying > 0
    /\ notifying' = notifying - 1
    /\ TrySend("EndpointChanged")
    /\ lost' = (lost \/ (pc \notin Dead /\ ~HasRoom))
    /\ UNCHANGED <<url, autoReconnect, app, callVars, loopVars, msgVars, sent>>

SetAutoReconnect(enabled) ==
    /\ app # "dropped"
    /\ autoReconnect' = enabled
    /\ IF enabled THEN TrySend("Reconnect") ELSE UNCHANGED cmdq
    /\ UNCHANGED <<url, app, notifying, callVars, loopVars, msgVars, sent, lost>>

\* reconnect, wake and send_event are a try_send each.
Post(c) ==
    /\ app # "dropped"
    /\ c \notin Events \/ c \notin Queued \cup outbox
    /\ TrySend(c)
    /\ UNCHANGED <<appVars, callVars, loopVars, msgVars, sent, lost>>

Shutdown ==
    /\ app = "live"
    /\ app' = "shutdown"
    /\ UNCHANGED <<url, autoReconnect, notifying, cmdq, callVars, loopVars,
                   msgVars, sent, lost>>

\* The application gives up its last Arc; no call can be under way.
DropHandle ==
    /\ app = "live" /\ notifying = 0
    /\ \A r \in Requests : call[r] \notin Running
    /\ app' = "dropped"
    /\ UNCHANGED <<url, autoReconnect, notifying, cmdq, callVars, loopVars,
                   msgVars, sent, lost>>

-----------------------------------------------------------------------------
(***************************************************************************)
(* WsClient::request, one action per await.                                *)
(***************************************************************************)

\* fetch_add the id and insert the oneshot sender in pending.
RequestStart(r) ==
    /\ app # "dropped" /\ call[r] = "idle"
    /\ call' = [call EXCEPT ![r] = "sending"]
    /\ pending' = pending \cup {r}
    /\ UNCHANGED <<appVars, cmdq, answered, loopVars, msgVars, sent, lost>>

\* cmd_tx.send(..).await found room; it waits, without a timeout, when full.
RequestEnqueue(r) ==
    /\ call[r] = "sending" /\ HasRoom
    /\ cmdq' = Append(cmdq, r)
    /\ call' = [call EXCEPT ![r] = "waiting"]
    /\ UNCHANGED <<appVars, pending, answered, loopVars, msgVars, sent, lost>>

\* cmd_tx.send(..).await on a closed channel: the early return of `?` leaves
\* the pending entry behind.
RequestClosed(r) ==
    /\ call[r] = "sending" /\ pc \in Dead
    /\ call' = [call EXCEPT ![r] = "channelError"]
    /\ UNCHANGED <<appVars, cmdq, pending, answered, loopVars, msgVars, sent, lost>>

RequestOk(r) ==
    /\ call[r] = "waiting" /\ r \in answered
    /\ call' = [call EXCEPT ![r] = "ok"]
    /\ UNCHANGED <<appVars, cmdq, pending, answered, loopVars, msgVars, sent, lost>>

\* Mutant: a dropped oneshot sender is taken for an empty reply.
RequestDroppedOk(r) ==
    /\ call[r] = "waiting" /\ r \notin pending \cup answered
    /\ call' = [call EXCEPT ![r] = "ok"]
    /\ UNCHANGED <<appVars, cmdq, pending, answered, loopVars, msgVars, sent, lost>>

\* The oneshot sender was dropped without a value.
RequestDropped(r) ==
    /\ call[r] = "waiting" /\ r \notin pending \cup answered
    /\ call' = [call EXCEPT ![r] = "channelError"]
    /\ UNCHANGED <<appVars, cmdq, pending, answered, loopVars, msgVars, sent, lost>>

\* timeout polls the oneshot first, so it only fires on an unresolved one ...
RequestExpires(r) ==
    /\ call[r] = "waiting" /\ r \in pending
    /\ call' = [call EXCEPT ![r] = "expired"]
    /\ UNCHANGED <<appVars, cmdq, pending, answered, loopVars, msgVars, sent, lost>>

\* Mutant: the entry of an expired request stays in pending.
RequestTimeoutKeepsEntry(r) ==
    /\ call[r] = "expired"
    /\ call' = [call EXCEPT ![r] = "timeout"]
    /\ UNCHANGED <<appVars, cmdq, pending, answered, loopVars, msgVars, sent, lost>>

\* ... but the reply may still come before the entry is removed.
RequestTimeout(r) ==
    /\ call[r] = "expired"
    /\ call' = [call EXCEPT ![r] = "timeout"]
    /\ pending' = pending \ {r}
    /\ UNCHANGED <<appVars, cmdq, answered, loopVars, msgVars, sent, lost>>

\* The caller drops the future; nothing removes its pending entry.
RequestAbandon(r) ==
    /\ call[r] \in {"sending", "waiting"}
    /\ call' = [call EXCEPT ![r] = "abandoned"]
    /\ UNCHANGED <<appVars, cmdq, pending, answered, loopVars, msgVars, sent, lost>>

-----------------------------------------------------------------------------
(***************************************************************************)
(* connection_loop: the reconnect cycle.                                   *)
(***************************************************************************)

NextAttempt == IF attempt < MaxAttempt THEN attempt + 1 ELSE attempt

\* Receive the head of the command channel.
Recv(c) == cmdq # <<>> /\ c = Head(cmdq) /\ cmdq' = Tail(cmdq)

\* The task ends: its receiver goes away with everything still queued.
Die(how) == pc' = how /\ cmdq' = <<>>

\* Top of the loop: cancellation, current endpoint, backoff delay.
TopCancelled ==
    /\ pc = "Top" /\ cancelled
    /\ Die("Exited")
    /\ UNCHANGED <<appVars, callVars, attempt, everConnected, target, state,
                   msgVars, sent, lost>>

TopNoEndpoint ==
    /\ pc = "Top" /\ ~cancelled /\ url = NoUrl
    /\ pc' = "WaitEndpoint" /\ state' = "Disconnected"
    /\ target' = url /\ lost' = FALSE
    /\ UNCHANGED <<appVars, cmdq, callVars, attempt, everConnected, msgVars, sent>>

TopPanics ==
    /\ pc = "Top" /\ ~cancelled /\ url # NoUrl /\ NextDelay(attempt) = Panic
    /\ Die("Panicked")
    /\ target' = url /\ lost' = FALSE
    /\ UNCHANGED <<appVars, callVars, attempt, everConnected, state, msgVars, sent>>

TopBackoff ==
    /\ pc = "Top" /\ ~cancelled /\ url # NoUrl
    /\ NextDelay(attempt) # Panic /\ NextDelay(attempt) # 0
    /\ pc' = "Backoff"
    /\ state' = IF everConnected THEN "Reconnecting" ELSE state
    /\ target' = url /\ lost' = FALSE
    /\ UNCHANGED <<appVars, cmdq, callVars, attempt, everConnected, msgVars, sent>>

TopConnect ==
    /\ pc = "Top" /\ ~cancelled /\ url # NoUrl /\ NextDelay(attempt) = 0
    /\ pc' = "Connect" /\ state' = "Connecting"
    /\ target' = url /\ lost' = FALSE
    /\ UNCHANGED <<appVars, cmdq, callVars, attempt, everConnected, msgVars, sent>>

\* The backoff select!: sleep, command, cancellation.
BackoffElapsed ==
    /\ pc = "Backoff"
    /\ pc' = "Connect" /\ state' = "Connecting"
    /\ UNCHANGED <<appVars, cmdq, callVars, attempt, everConnected, target,
                   msgVars, sent, lost>>

\* Mutant: a command ends the sleep and the loop connects at once.
BackoffCommandConnects ==
    /\ pc = "Backoff"
    /\ \E c \in Cmds : Recv(c)
    /\ pc' = "Connect"
    /\ UNCHANGED <<appVars, callVars, attempt, everConnected, target, state,
                   msgVars, sent, lost>>

\* Any command abandons the sleep; a frame to send is thrown away.
BackoffCommand ==
    /\ pc = "Backoff"
    /\ \E c \in Cmds :
        /\ Recv(c)
        /\ attempt' = IF c \in {"Reconnect", "EndpointChanged"} THEN 0 ELSE attempt
    /\ pc' = "Top"
    /\ UNCHANGED <<appVars, callVars, everConnected, target, state, msgVars,
                   sent, lost>>

\* A parked loop waits for one of these commands and throws away the others.
WakesUp(where) ==
    CASE where = "WaitEndpoint"     -> {"EndpointChanged"}
      [] where = "WaitMismatch"     -> {"EndpointChanged", "Reconnect"}
      [] where = "WaitUnauthorized" -> Controls
      [] OTHER                      -> {"EndpointChanged", "Reconnect"}

\* After a version mismatch handle_version_handshake returns Err(None), which
\* its caller counts as a failed attempt; a new login starts from zero.
AttemptAfter(where) ==
    CASE where = "WaitMismatch"     -> NextAttempt
      [] where = "WaitUnauthorized" -> 0
      [] OTHER                      -> attempt

\* Mutant: a parked loop leaves the commands it does not wait for in place.
ParkedCommandPeeks ==
    /\ pc \in Parked
    /\ \E c \in WakesUp(pc) : Recv(c)
    /\ pc' = "Top" /\ attempt' = AttemptAfter(pc)
    /\ UNCHANGED <<appVars, callVars, everConnected, target, state, msgVars,
                   sent, lost>>

ParkedCommand ==
    /\ pc \in Parked
    /\ \E c \in Cmds :
        /\ Recv(c)
        /\ IF c \in WakesUp(pc)
           THEN pc' = "Top" /\ attempt' = AttemptAfter(pc)
           ELSE UNCHANGED <<pc, attempt>>
    /\ UNCHANGED <<appVars, callVars, everConnected, target, state, msgVars,
                   sent, lost>>

\* Mutant: the version wait has no cancellation branch.
SleepCancelledUnlessMismatch ==
    /\ pc \in {"Backoff"} \cup (Parked \ {"WaitMismatch"}) /\ cancelled
    /\ Die("Exited")
    /\ UNCHANGED <<appVars, callVars, attempt, everConnected, target, state,
                   msgVars, sent, lost>>

\* Every select! outside the message loop returns on cancellation, except the
\* version wait, which reports an error to the caller first.
SleepCancelled ==
    /\ pc \in {"Backoff"} \cup Parked /\ cancelled
    /\ IF pc = "WaitMismatch"
       THEN pc' = "Top" /\ attempt' = NextAttempt /\ UNCHANGED cmdq
       ELSE Die("Exited") /\ UNCHANGED attempt
    /\ UNCHANGED <<appVars, callVars, everConnected, target, state, msgVars,
                   sent, lost>>

-----------------------------------------------------------------------------
(***************************************************************************)
(* Connecting.  None of these awaits watches the cancellation token or the *)
(* command channel, and only the auth reply has a timeout.                 *)
(***************************************************************************)

Enter(where, as) ==
    /\ pc' = where /\ state' = as
    /\ UNCHANGED <<appVars, cmdq, callVars, attempt, everConnected, target,
                   msgVars, sent, lost>>

\* Mutant: a failed connection step is not counted.
FailAttemptUncounted(as) ==
    /\ pc' = "Top" /\ state' = as
    /\ UNCHANGED <<appVars, cmdq, callVars, attempt, everConnected, target,
                   msgVars, sent, lost>>

\* An Err of a connection step: count the attempt and start over.
FailAttempt(as) ==
    /\ pc' = "Top" /\ state' = as /\ attempt' = NextAttempt
    /\ UNCHANGED <<appVars, cmdq, callVars, everConnected, target, msgVars,
                   sent, lost>>

\* The peer's verdict is final until a command arrives.
Park(where, as) ==
    /\ pc' = where /\ state' = as
    /\ pending' = {}
    /\ UNCHANGED <<appVars, cmdq, call, answered, attempt, everConnected, target,
                   msgVars, sent, lost>>

GoOnline ==
    /\ pc' = "Online" /\ state' = "Online"
    /\ attempt' = 0 /\ everConnected' = TRUE /\ waitingForPong' = FALSE
    /\ UNCHANGED <<appVars, cmdq, callVars, target, outbox, wsClosed, sentNow,
                   sent, lost>>

ConnectOk         == pc = "Connect" /\ Enter("Version", "Handshaking")
ConnectFails      == pc = "Connect" /\ FailAttempt("Error")
VersionAccepted   == pc = "Version" /\ Enter("Noise", "Authenticating")
VersionRejected   == pc = "Version" /\ Park("WaitMismatch", "VersionMismatch")
VersionFails      == pc = "Version" /\ FailAttempt("Error")
NoiseOk           == pc = "Noise" /\ Enter("Auth", state)
NoiseFails        == pc = "Noise" /\ FailAttempt(state)
\* auth.auth_payload() returned None
AuthSkipped       == pc = "Auth" /\ GoOnline
\* auth.auth_payload() returned the request that is now sent
AuthSent          == pc = "Auth" /\ Enter("AuthReply", "WaitingForAuth")
AuthSendFails     == pc = "Auth" /\ FailAttempt("Error")
AuthAccepted      == pc = "AuthReply" /\ GoOnline
AuthRejected      == pc = "AuthReply" /\ Park("WaitUnauthorized", "Unauthorized")
\* timeout, closed socket, unexpected frame, Failed, RetryWithNewPayload
AuthFails         == pc = "AuthReply" /\ FailAttempt("Error")

-----------------------------------------------------------------------------
(***************************************************************************)
(* run_message_loop and what connection_loop does after it returns.        *)
(***************************************************************************)

\* Mutant: the pending requests survive the connection.
LeaveMessageLoopKeepsPending ==
    /\ state' = "Disconnected"
    /\ outbox' = {} /\ sentNow' = {} /\ wsClosed' = FALSE /\ waitingForPong' = FALSE
    /\ IF autoReconnect
       THEN pc' = "Top" /\ attempt' = 1
       ELSE pc' = "WaitManual" /\ UNCHANGED attempt
    /\ UNCHANGED <<appVars, callVars, everConnected, target, sent, lost>>

LeaveMessageLoop ==
    /\ state' = "Disconnected"
    /\ pending' = {}
    /\ outbox' = {} /\ sentNow' = {} /\ wsClosed' = FALSE /\ waitingForPong' = FALSE
    /\ IF autoReconnect
       THEN pc' = "Top" /\ attempt' = 1
       ELSE pc' = "WaitManual" /\ UNCHANGED attempt
    /\ UNCHANGED <<appVars, call, answered, everConnected, target, sent, lost>>

\* Mutant: cancellation returns from the task without the clean-up.
OnlineCancelledReturns ==
    /\ pc = "Online" /\ cancelled
    /\ Die("Exited")
    /\ UNCHANGED <<appVars, callVars, attempt, everConnected, target, state,
                   msgVars, sent, lost>>

\* The cancellation branch, and a socket that ends or yields garbage.
OnlineCancelled == pc = "Online" /\ cancelled /\ LeaveMessageLoop /\ UNCHANGED cmdq
SocketEnds      == pc = "Online" /\ LeaveMessageLoop /\ UNCHANGED cmdq

\* Mutant: the pending entry is looked up and not removed.
RecvReplyGets(r) ==
    /\ pc = "Online" /\ r \in sentNow
    /\ waitingForPong' = FALSE
    /\ answered' = IF r \in pending THEN answered \cup {r} ELSE answered
    /\ UNCHANGED <<appVars, cmdq, call, pending, loopVars, outbox, wsClosed,
                   sentNow, sent, lost>>

\* dispatch_frame for a response; the peer may answer late, twice, in any order.
RecvReply(r) ==
    /\ pc = "Online" /\ r \in sentNow
    /\ waitingForPong' = FALSE
    /\ pending' = pending \ {r}
    /\ answered' = IF r \in pending THEN answered \cup {r} ELSE answered
    /\ UNCHANGED <<appVars, cmdq, call, loopVars, outbox, wsClosed, sentNow,
                   sent, lost>>

\* dispatch_frame for a Ping queues the Pong as a command of its own.
RecvPing ==
    /\ pc = "Online" /\ Pong \notin Queued \cup outbox
    /\ waitingForPong' = FALSE
    /\ TrySend(Pong)
    /\ UNCHANGED <<appVars, callVars, loopVars, outbox, wsClosed, sentNow, sent, lost>>

\* An event, a Pong, or one more chunk of a frame.
RecvOther ==
    /\ pc = "Online" /\ waitingForPong
    /\ waitingForPong' = FALSE
    /\ UNCHANGED <<appVars, cmdq, callVars, loopVars, outbox, wsClosed, sentNow,
                   sent, lost>>

\* The ping goes straight to the socket; a failure to send it is ignored.
HeartbeatPing ==
    /\ pc = "Online" /\ ~waitingForPong
    /\ pc' = "Pinging"
    /\ UNCHANGED <<appVars, cmdq, callVars, attempt, everConnected, target, state,
                   msgVars, sent, lost>>

PingDone ==
    /\ pc = "Pinging"
    /\ pc' = "Online" /\ waitingForPong' = TRUE
    /\ UNCHANGED <<appVars, cmdq, callVars, attempt, everConnected, target, state,
                   outbox, wsClosed, sentNow, sent, lost>>

HeartbeatDead ==
    /\ pc = "Online" /\ waitingForPong
    /\ pc' = "ClosingDead"
    /\ UNCHANGED <<appVars, cmdq, callVars, attempt, everConnected, target, state,
                   msgVars, sent, lost>>

OnlineCommand ==
    /\ pc = "Online"
    /\ \E c \in Cmds :
        /\ Recv(c)
        /\ pc' = CASE c \in Frames          -> "Sending"
                   [] c = "WakeUp"          -> "Online"
                   [] c = "EndpointChanged" -> "ClosingEndpoint"
                   [] OTHER                 -> "ClosingReconnect"
        /\ outbox' = IF c \in Frames THEN outbox \cup {c} ELSE outbox
    /\ UNCHANGED <<appVars, callVars, attempt, everConnected, target, state,
                   wsClosed, waitingForPong, sentNow, sent, lost>>

\* ws.close().await returns, whatever it returns.
CloseDone ==
    /\ pc \in {"ClosingEndpoint", "ClosingReconnect", "ClosingDead"}
    /\ LeaveMessageLoop
    /\ UNCHANGED cmdq

\* Mutant: the frame is sent but stays in the scheduler.
SendFramePeeks(f) ==
    /\ pc = "Sending" /\ f \in outbox /\ ~wsClosed
    /\ pc' = "Draining"
    /\ sentNow' = sentNow \cup ({f} \cap Requests)
    /\ sent' = sent \cup ({f} \cap Requests)
    /\ UNCHANGED <<appVars, cmdq, callVars, attempt, everConnected, target, state,
                   outbox, wsClosed, waitingForPong, lost>>

\* One turn of `while let Some(frame) = scheduler.next()`: send a frame, then
\* drain the channel into the scheduler.  Which frame is next is the
\* scheduler's choice.
SendFrame(f) ==
    /\ pc = "Sending" /\ f \in outbox /\ ~wsClosed
    /\ pc' = "Draining"
    /\ outbox' = outbox \ {f}
    /\ sentNow' = sentNow \cup ({f} \cap Requests)
    /\ sent' = sent \cup ({f} \cap Requests)
    /\ UNCHANGED <<appVars, cmdq, callVars, attempt, everConnected, target, state,
                   wsClosed, waitingForPong, lost>>

\* One try_recv of the drain; other threads may fill the channel meanwhile.
DrainCommand ==
    /\ pc = "Draining"
    /\ \E c \in Cmds :
        /\ Recv(c)
        /\ outbox' = IF c \in Frames THEN outbox \cup {c} ELSE outbox
        /\ pc' = IF c \in Closing THEN "ClosingDrain" ELSE "Draining"
    /\ UNCHANGED <<appVars, callVars, attempt, everConnected, target, state,
                   wsClosed, waitingForPong, sentNow, sent, lost>>

\* A drained EndpointChanged or Reconnect closes the socket ...
DrainClosed ==
    /\ pc = "ClosingDrain"
    /\ pc' = "Draining" /\ wsClosed' = TRUE
    /\ UNCHANGED <<appVars, cmdq, callVars, attempt, everConnected, target, state,
                   outbox, waitingForPong, sentNow, sent, lost>>

\* ... and leaves the while loop, but not the select! loop around it.
DrainEmpty ==
    /\ pc = "Draining" /\ cmdq = <<>>
    /\ pc' = IF wsClosed \/ outbox = {} THEN "Online" ELSE "Sending"
    /\ UNCHANGED <<appVars, cmdq, callVars, attempt, everConnected, target, state,
                   msgVars, sent, lost>>

\* encode, encrypt or ws.send failed; it always does on a closed socket.
SendFails ==
    /\ pc = "Sending"
    /\ LeaveMessageLoop
    /\ UNCHANGED cmdq

-----------------------------------------------------------------------------

Application ==
    \/ \E u \in Endpoints \cup {NoUrl} : WriteUrl(u)
    \/ NotifyEndpoint
    \/ \E enabled \in BOOLEAN : SetAutoReconnect(enabled)
    \/ \E c \in Events \cup {"Reconnect", "WakeUp"} : Post(c)
    \/ Shutdown
    \/ DropHandle

RequestStep(r) ==
    \/ RequestStart(r) \/ RequestEnqueue(r) \/ RequestClosed(r) \/ RequestOk(r)
    \/ RequestDropped(r) \/ RequestExpires(r) \/ RequestTimeout(r)
    \/ RequestAbandon(r)

Cycle ==
    \/ TopCancelled \/ TopNoEndpoint \/ TopPanics \/ TopBackoff \/ TopConnect
    \/ BackoffElapsed \/ BackoffCommand \/ ParkedCommand \/ SleepCancelled

Connecting ==
    \/ ConnectOk \/ ConnectFails
    \/ VersionAccepted \/ VersionRejected \/ VersionFails
    \/ NoiseOk \/ NoiseFails
    \/ AuthSkipped \/ AuthSent \/ AuthSendFails
    \/ AuthAccepted \/ AuthRejected \/ AuthFails

Messages ==
    \/ OnlineCancelled \/ SocketEnds
    \/ (\E r \in Requests : RecvReply(r)) \/ RecvPing \/ RecvOther
    \/ HeartbeatPing \/ PingDone \/ HeartbeatDead \/ OnlineCommand \/ CloseDone
    \/ (\E f \in Frames : SendFrame(f)) \/ SendFails
    \/ DrainCommand \/ DrainClosed \/ DrainEmpty

Next == Application \/ (\E r \in Requests : RequestStep(r))
        \/ Cycle \/ Connecting \/ Messages

Spec == Init /\ [][Next]_vars

-----------------------------------------------------------------------------
(***************************************************************************)
(* Fairness.  The task is polled while a branch of it is ready (weak       *)
(* fairness); select! picks at random among ready branches, so a branch    *)
(* ready again and again is taken (strong fairness), and a sender waiting  *)
(* for channel capacity is served in FIFO order.  tokio timers fire.       *)
(* The backoff's select! sees a command that is already queued before its  *)
(* sleep can end.                                                          *)
(*                                                                         *)
(* PeerFairness is an assumption on the network and the peer: each await   *)
(* on the socket returns, with success or with an error; SocketFairness    *)
(* leaves out the two replies of the handshakes, which a peer that stays   *)
(* silent owes for ever.  DrainsEnd is an assumption on the application:   *)
(* its threads do not refill the channel faster than the loop empties it,  *)
(* for ever.                                                               *)
(***************************************************************************)
LoopFairness ==
    /\ WF_vars(TopCancelled \/ TopNoEndpoint \/ TopPanics \/ TopBackoff \/ TopConnect)
    /\ WF_vars(BackoffElapsed)
    /\ SF_vars(BackoffCommand)
    /\ WF_vars(ParkedCommand)
    /\ WF_vars(SleepCancelled)
    /\ SF_vars(OnlineCancelled)
    /\ SF_vars(OnlineCommand)
    /\ WF_vars(DrainCommand)
    /\ WF_vars(DrainEmpty)
    /\ WF_vars(AuthAccepted \/ AuthRejected \/ AuthFails)

CallFairness ==
    /\ WF_vars(NotifyEndpoint)
    /\ \A r \in Requests :
        /\ WF_vars(RequestOk(r) \/ RequestDropped(r) \/ RequestExpires(r))
        /\ WF_vars(RequestTimeout(r))
        /\ WF_vars(RequestClosed(r))
        /\ SF_vars(RequestEnqueue(r))

SocketFairness ==
    /\ WF_vars(ConnectOk \/ ConnectFails)
    /\ WF_vars(AuthSkipped \/ AuthSent \/ AuthSendFails)
    /\ WF_vars(CloseDone)
    /\ WF_vars(DrainClosed)
    /\ WF_vars(PingDone)
    /\ WF_vars((\E f \in Frames : SendFrame(f)) \/ SendFails)

HandshakeFairness ==
    /\ WF_vars(VersionAccepted \/ VersionRejected \/ VersionFails)
    /\ WF_vars(NoiseOk \/ NoiseFails)

PeerFairness == SocketFairness /\ HandshakeFairness

DrainsEnd == []<>(pc \notin {"Draining", "ClosingDrain"})

FairSpec       == Spec /\ LoopFairness /\ CallFairness
ResponsiveSpec == FairSpec /\ PeerFairness /\ DrainsEnd
SilentPeerSpec == FairSpec /\ SocketFairness /\ DrainsEnd

-----------------------------------------------------------------------------
(***************************************************************************)
(* Properties the code has.                                                *)
(***************************************************************************)

\* Nobody waits for an answer that cannot come: a request that was transmitted
\* and is still in the pending map was transmitted over the connection that is
\* up now.  Leaving the message loop clears the map, whichever way it is left.
Answerable == \A r \in pending \cap sent : r \in sentNow

\* At-most-once: no frame of a transmitted request is queued or scheduled
\* again, and no frame is in the channel and in the scheduler at once.  The
\* reconnect cycle never resends.
SentOnce == sent \cap (Queued \cup outbox) = {} /\ Queued \cap outbox = {}

\* The watched state says Online exactly while the message loop runs: every way
\* out of it takes the state along, and no handshake sets it early.  (Whether the
\* socket of a running loop is open is OnlineIsUsable, below.)
StateIsTruthful == state = "Online" <=> pc \in MessageLoop

\* The pending map holds no entry of a finished call, only of a running one or of
\* one whose future was dropped; and, once the task has ended, of one that then
\* found the channel closed, whose entry RequestClosed leaves for ever.
PendingOwned ==
    \A r \in pending :
        \/ call[r] \in Running \cup {"abandoned"}
        \/ call[r] = "channelError" /\ pc \in Dead

\* A change of the endpoint is never silently missed: a loop that works with,
\* or sleeps on, an old value of url has the EndpointChanged still to come,
\* unless the channel was full when it was posted.  A loop that has taken it and
\* closes its socket (ClosingEndpoint, ClosingDrain), or has closed it in a drain
\* and goes on (wsClosed), reads url again once it leaves the connection.
\* WaitManual is the exception: with auto-reconnect off, a loop that closed its
\* connection for the EndpointChanged waits there, and reads url when it is woken.
FollowsEndpoint ==
    pc \in {"Backoff"} \cup Handshaking \cup (Parked \ {"WaitManual"})
           \cup (MessageLoop \ {"ClosingEndpoint", "ClosingDrain"}) =>
        \/ target = url
        \/ notifying > 0
        \/ "EndpointChanged" \in Queued
        \/ lost
        \/ wsClosed

\* The inductive invariant behind the properties above: a call whose frame is
\* not queued yet left no trace, ...
FreshCalls ==
    \A r \in Requests : call[r] \in {"idle", "sending"} =>
        r \notin Queued \cup outbox \cup sent \cup answered

\* ... no frame is queued twice, ...
DistinctFrames ==
    \A i, j \in DOMAIN cmdq : cmdq[i] = cmdq[j] /\ cmdq[i] \in Frames => i = j

\* ... and a reply takes the pending entry with it.
RepliesResolve == sentNow \subseteq sent /\ answered \cap pending = {}

CallInv == FreshCalls /\ DistinctFrames /\ RepliesResolve
           /\ SentOnce /\ Answerable /\ PendingOwned

IInv == TypeOK /\ CallInv /\ StateIsTruthful /\ FollowsEndpoint

\* No hot retry: a connection attempt that failed and a connection that was
\* lost go back to the top with a positive attempt count, hence a delay.
FailuresArePaced ==
    [][(pc \in Handshaking \cup MessageLoop /\ pc' = "Top") => attempt' > 0]_vars

\* WsClient::shutdown: "terminate the background connection loop".  It does,
\* provided that no await on the socket hangs (the replies to the handshakes
\* included) and that the application stops sending.
ShutdownTerminates == cancelled ~> (pc \in Dead)

\* Every request() returns, provided that no await on the socket hangs.
RequestTerminates ==
    \A r \in Requests :
        call[r] = "sending" ~> call[r] \in {"ok", "timeout", "channelError", "abandoned"}

-----------------------------------------------------------------------------
(***************************************************************************)
(* Refinement: the calls and their frames as RequestContract sees them.    *)
(***************************************************************************)
ResultOf(r) ==
    IF call[r] = "idle" THEN "none"
    ELSE IF call[r] \in Running THEN "open"
    ELSE IF call[r] = "ok" THEN "ok"
    ELSE "failed"

FateOf(r) ==
    IF r \in answered THEN "answered"
    ELSE IF r \in sentNow THEN "sent"
    ELSE IF r \in Queued \cup outbox THEN "queued"
    ELSE IF r \notin sent /\ call[r] \in {"idle", "sending"} THEN "new"
    ELSE "lost"

Contract == INSTANCE RequestContract
                WITH result <- [r \in Requests |-> ResultOf(r)],
                     fate   <- [r \in Requests |-> FateOf(r)]

\* The client, with its reconnect cycle, scheduler and pending map, implements
\* the contract of request().
ImplementsContract == Contract!Spec

-----------------------------------------------------------------------------
(***************************************************************************)
(* Statements of the docs that the code does not keep.                     *)
(***************************************************************************)

\* ConnectionState::is_online: "Returns `true` if the connection can accept
\* outgoing messages."  A loop that is back in its select!, ready for the next
\* command, while the state says Online, has not closed its socket.  (That it is
\* closed for the rest of a drain, until the loop leaves, would be no harm.)
OnlineIsUsable == pc = "Online" /\ state = "Online" => ~wsClosed

\* RULES.md, rule 1: no panics in working code.
NeverPanics == pc # "Panicked"

=============================================================================
