----------------------- MODULE ConnectionLoop_proofs -----------------------
(***************************************************************************)
(* The safety properties of the client, for any number of requests, events *)
(* and endpoints, any channel capacity and any backoff strategy.           *)
(***************************************************************************)
EXTENDS ConnectionLoop, TLAPS

-----------------------------------------------------------------------------
(***************************************************************************)
(* The command channel.                                                    *)
(***************************************************************************)

\* A step that leaves the channel alone leaves what is derived from it alone.
LEMMA QueueUnchanged ==
    ASSUME cmdq' = cmdq
    PROVE  Queued' = Queued /\ (DistinctFrames => DistinctFrames')
BY DEF Queued, DistinctFrames

\* Appending a command.
LEMMA AppendEffect ==
    ASSUME TypeOK, NEW c \in Cmds, Len(cmdq) < BufferSize, cmdq' = Append(cmdq, c)
    PROVE  /\ cmdq' \in Seq(Cmds) /\ Len(cmdq') <= BufferSize
           /\ Queued' = Queued \cup {c}
           /\ c \notin Queued \cap Frames /\ DistinctFrames => DistinctFrames'
<1>1. cmdq \in Seq(Cmds) /\ Len(cmdq) \in Nat /\ BufferSize \in Nat
  BY ConnectionLoopAssumption DEF TypeOK
<1>2. /\ cmdq' \in Seq(Cmds) /\ Len(cmdq') = Len(cmdq) + 1
      /\ DOMAIN cmdq = 1..Len(cmdq) /\ DOMAIN cmdq' = 1..(Len(cmdq) + 1)
      /\ \A i \in DOMAIN cmdq : cmdq'[i] = cmdq[i]
      /\ cmdq'[Len(cmdq) + 1] = c
  BY <1>1
<1>3. Len(cmdq') <= BufferSize
  BY <1>1, <1>2
<1>4. Queued' = Queued \cup {c}
  BY <1>1, <1>2 DEF Queued
<1>5. ASSUME c \notin Queued \cap Frames, DistinctFrames PROVE DistinctFrames'
  <2> SUFFICES ASSUME NEW i \in DOMAIN cmdq', NEW j \in DOMAIN cmdq',
                      cmdq'[i] = cmdq'[j], cmdq'[i] \in Frames
               PROVE  i = j
    BY DEF DistinctFrames, Frames
  <2>1. CASE i \in DOMAIN cmdq /\ j \in DOMAIN cmdq
    BY <1>2, <1>5, <2>1 DEF DistinctFrames
  <2>2. CASE i \in DOMAIN cmdq /\ j = Len(cmdq) + 1
    BY <1>2, <1>5, <2>2 DEF Queued
  <2>3. CASE i = Len(cmdq) + 1 /\ j \in DOMAIN cmdq
    BY <1>2, <1>5, <2>3 DEF Queued
  <2> QED BY <1>1, <1>2, <2>1, <2>2, <2>3
<1> QED BY <1>2, <1>3, <1>4, <1>5

\* try_send: the command is queued if there is room, and nothing else changes.
LEMMA TrySendEffect ==
    ASSUME TypeOK, NEW c \in Cmds, TrySend(c)
    PROVE  /\ cmdq' \in Seq(Cmds) /\ Len(cmdq') <= BufferSize
           /\ Queued \subseteq Queued' /\ Queued' \subseteq Queued \cup {c}
           /\ HasRoom => c \in Queued'
           /\ c \notin Queued \cap Frames /\ DistinctFrames => DistinctFrames'
<1>1. CASE HasRoom
  BY <1>1, AppendEffect DEF TrySend, HasRoom
<1>2. CASE ~HasRoom
  BY <1>2, QueueUnchanged DEF TrySend, TypeOK
<1> QED BY <1>1, <1>2

\* Receiving the head of the channel.
LEMMA RecvEffect ==
    ASSUME TypeOK, NEW c \in Cmds, Recv(c)
    PROVE  /\ cmdq' \in Seq(Cmds) /\ Len(cmdq') <= BufferSize
           /\ c \in Queued /\ Queued' \subseteq Queued /\ Queued \subseteq Queued' \cup {c}
           /\ DistinctFrames => DistinctFrames' /\ c \notin Queued' \cap Frames
<1>1. cmdq \in Seq(Cmds) /\ cmdq # <<>> /\ Len(cmdq) \in Nat /\ BufferSize \in Nat
  BY ConnectionLoopAssumption DEF TypeOK, Recv
<1>2. /\ cmdq' \in Seq(Cmds) /\ Len(cmdq) > 0 /\ Len(cmdq') = Len(cmdq) - 1
      /\ DOMAIN cmdq = 1..Len(cmdq) /\ DOMAIN cmdq' = 1..(Len(cmdq) - 1)
      /\ \A i \in DOMAIN cmdq' : cmdq'[i] = cmdq[i + 1]
      /\ cmdq[1] = c
  BY <1>1 DEF Recv
<1>3. Len(cmdq') <= BufferSize
  BY <1>1, <1>2 DEF TypeOK
<1>4. c \in Queued /\ Queued' \subseteq Queued
  BY <1>1, <1>2 DEF Queued
<1>5. Queued \subseteq Queued' \cup {c}
  <2> SUFFICES ASSUME NEW i \in DOMAIN cmdq, cmdq[i] # c PROVE cmdq[i] \in Queued'
    BY DEF Queued
  <2>1. i - 1 \in DOMAIN cmdq' /\ cmdq'[i - 1] = cmdq[i]
    BY <1>1, <1>2
  <2> QED BY <2>1 DEF Queued
<1>6. ASSUME DistinctFrames PROVE DistinctFrames'
  <2> SUFFICES ASSUME NEW i \in DOMAIN cmdq', NEW j \in DOMAIN cmdq',
                      cmdq'[i] = cmdq'[j], cmdq'[i] \in Frames
               PROVE  i = j
    BY DEF DistinctFrames, Frames
  <2>1. i + 1 \in DOMAIN cmdq /\ j + 1 \in DOMAIN cmdq /\ i \in Nat /\ j \in Nat
    BY <1>1, <1>2
  <2>2. i + 1 = j + 1
    BY <1>2, <1>6, <2>1 DEF DistinctFrames
  <2> QED BY <2>1, <2>2
<1>7. ASSUME DistinctFrames PROVE c \notin Queued' \cap Frames
  <2> SUFFICES ASSUME NEW i \in DOMAIN cmdq', cmdq'[i] = c, c \in Frames PROVE FALSE
    BY DEF Queued
  <2>1. i + 1 \in DOMAIN cmdq /\ 1 \in DOMAIN cmdq /\ i \in Nat /\ i > 0
    BY <1>1, <1>2
  <2>2. i + 1 = 1
    BY <1>2, <1>6, <2>1, <1>7 DEF DistinctFrames
  <2> QED BY <2>1, <2>2
<1> QED BY <1>2, <1>3, <1>4, <1>5, <1>6, <1>7
-----------------------------------------------------------------------------
(***************************************************************************)
(* Type correctness, one group of actions at a time.                       *)
(***************************************************************************)

\* The application's calls keep the variables in their types.
LEMMA ApplicationTypeOK == TypeOK /\ Application => TypeOK'
<1> SUFFICES ASSUME TypeOK, Application PROVE TypeOK'
  OBVIOUS
<1> USE DEF appVars, callVars, loopVars, msgVars
<1>1. ASSUME NEW u \in Endpoints \cup {NoUrl}, WriteUrl(u) PROVE TypeOK'
  BY <1>1, ConnectionLoopAssumption DEF WriteUrl, TypeOK
<1>2. CASE NotifyEndpoint
  <2>1. cmdq' \in Seq(Cmds) /\ Len(cmdq') <= BufferSize
    BY <1>2, TrySendEffect DEF NotifyEndpoint, Cmds, Controls
  <2> QED BY <1>2, <2>1, ConnectionLoopAssumption DEF NotifyEndpoint, TypeOK
<1>3. ASSUME NEW enabled \in BOOLEAN, SetAutoReconnect(enabled) PROVE TypeOK'
  <2>1. cmdq' \in Seq(Cmds) /\ Len(cmdq') <= BufferSize
    BY <1>3, TrySendEffect DEF SetAutoReconnect, Cmds, Controls, TypeOK
  <2> QED BY <1>3, <2>1 DEF SetAutoReconnect, TypeOK
<1>4. ASSUME NEW c \in Events \cup {"Reconnect", "WakeUp"}, Post(c) PROVE TypeOK'
  <2>1. cmdq' \in Seq(Cmds) /\ Len(cmdq') <= BufferSize
    BY <1>4, TrySendEffect DEF Post, Cmds, Controls, Frames
  <2> QED BY <1>4, <2>1 DEF Post, TypeOK
<1>5. CASE Shutdown
  BY <1>5 DEF Shutdown, TypeOK
<1>6. CASE DropHandle
  BY <1>6 DEF DropHandle, TypeOK
<1> QED BY <1>1, <1>2, <1>3, <1>4, <1>5, <1>6 DEF Application

\* So do the steps of request().
LEMMA RequestTypeOK ==
    ASSUME TypeOK, NEW r \in Requests, RequestStep(r)
    PROVE  TypeOK'
<1> USE DEF appVars, callVars, loopVars, msgVars
<1>1. CASE RequestStart(r)
  BY <1>1 DEF RequestStart, TypeOK
<1>2. CASE RequestEnqueue(r)
  <2>1. cmdq' \in Seq(Cmds) /\ Len(cmdq') <= BufferSize
    BY <1>2, AppendEffect DEF RequestEnqueue, HasRoom, Cmds, Frames
  <2> QED BY <1>2, <2>1 DEF RequestEnqueue, TypeOK
<1>3. CASE RequestClosed(r)
  BY <1>3 DEF RequestClosed, TypeOK
<1>4. CASE RequestOk(r)
  BY <1>4 DEF RequestOk, TypeOK
<1>5. CASE RequestDropped(r)
  BY <1>5 DEF RequestDropped, TypeOK
<1>6. CASE RequestExpires(r)
  BY <1>6 DEF RequestExpires, TypeOK
<1>7. CASE RequestTimeout(r)
  BY <1>7 DEF RequestTimeout, TypeOK
<1>8. CASE RequestAbandon(r)
  BY <1>8 DEF RequestAbandon, TypeOK
<1> QED BY <1>1, <1>2, <1>3, <1>4, <1>5, <1>6, <1>7, <1>8 DEF RequestStep

\* The attempt counter, saturated at its bound, counts up from zero.
LEMMA NextAttemptType ==
    ASSUME TypeOK
    PROVE  NextAttempt \in 1..MaxAttempt
BY ConnectionLoopAssumption DEF TypeOK, NextAttempt

\* The loop's reconnect cycle.
LEMMA CycleTypeOK == TypeOK /\ Cycle => TypeOK'
<1> SUFFICES ASSUME TypeOK, Cycle PROVE TypeOK'
  OBVIOUS
<1> USE DEF appVars, callVars, loopVars, msgVars, Parked, Dead, Handshaking
<1>0. <<>> \in Seq(Cmds) /\ Len(<<>>) <= BufferSize
  BY ConnectionLoopAssumption
<1>1. CASE TopCancelled
  BY <1>0, <1>1 DEF TopCancelled, Die, TypeOK
<1>2. CASE TopNoEndpoint
  BY <1>2 DEF TopNoEndpoint, TypeOK
<1>3. CASE TopPanics
  BY <1>0, <1>3 DEF TopPanics, Die, TypeOK
<1>4. CASE TopBackoff
  BY <1>4 DEF TopBackoff, TypeOK
<1>5. CASE TopConnect
  BY <1>5 DEF TopConnect, TypeOK
<1>6. CASE BackoffElapsed
  BY <1>6 DEF BackoffElapsed, TypeOK
<1>7. CASE BackoffCommand
  <2>1. cmdq' \in Seq(Cmds) /\ Len(cmdq') <= BufferSize
    BY <1>7, RecvEffect DEF BackoffCommand
  <2>2. attempt' \in 0..MaxAttempt
    BY <1>7, ConnectionLoopAssumption DEF BackoffCommand, TypeOK
  <2> QED BY <1>7, <2>1, <2>2 DEF BackoffCommand, TypeOK
<1>8. CASE ParkedCommand
  <2>1. cmdq' \in Seq(Cmds) /\ Len(cmdq') <= BufferSize
    BY <1>8, RecvEffect DEF ParkedCommand
  <2>2. attempt' \in 0..MaxAttempt /\ (pc' = "Top" \/ pc' = pc)
    BY <1>8, NextAttemptType, ConnectionLoopAssumption
    DEF ParkedCommand, AttemptAfter, TypeOK
  <2> QED BY <1>8, <2>1, <2>2 DEF ParkedCommand, TypeOK
<1>9. CASE SleepCancelled
  <2>1. CASE pc = "WaitMismatch"
    <3>1. attempt' \in 0..MaxAttempt
      BY <1>9, <2>1, NextAttemptType DEF SleepCancelled
    <3> QED BY <1>9, <2>1, <3>1 DEF SleepCancelled, TypeOK
  <2>2. CASE pc # "WaitMismatch"
    BY <1>0, <1>9, <2>2 DEF SleepCancelled, Die, TypeOK
  <2> QED BY <2>1, <2>2
<1> QED BY <1>1, <1>2, <1>3, <1>4, <1>5, <1>6, <1>7, <1>8, <1>9 DEF Cycle

\* A connection step moves on, fails, parks or goes online.
LEMMA ConnectingTypeOK == TypeOK /\ Connecting => TypeOK'
<1> SUFFICES ASSUME TypeOK, Connecting PROVE TypeOK'
  OBVIOUS
<1> USE DEF appVars, callVars, loopVars, msgVars, Handshaking, MessageLoop, Parked
<1>1. CASE Enter("Version", "Handshaking") \/ Enter("Noise", "Authenticating")
           \/ Enter("Auth", state) \/ Enter("AuthReply", "WaitingForAuth")
  BY <1>1 DEF Enter, TypeOK
<1>2. CASE FailAttempt("Error") \/ FailAttempt(state)
  BY <1>2, NextAttemptType DEF FailAttempt, TypeOK
<1>3. CASE Park("WaitMismatch", "VersionMismatch")
           \/ Park("WaitUnauthorized", "Unauthorized")
  BY <1>3 DEF Park, TypeOK
<1>4. CASE GoOnline
  <2>1. 0 \in 0..MaxAttempt
    BY ConnectionLoopAssumption
  <2> QED BY <1>4, <2>1 DEF GoOnline, TypeOK
<1> QED
  BY <1>1, <1>2, <1>3, <1>4
  DEF Connecting, ConnectOk, ConnectFails, VersionAccepted, VersionRejected,
      VersionFails, NoiseOk, NoiseFails, AuthSkipped, AuthSent, AuthSendFails,
      AuthAccepted, AuthRejected, AuthFails

\* Leaving the message loop, with the channel as it is.
LEMMA LeaveTypeOK ==
    ASSUME TypeOK, LeaveMessageLoop, UNCHANGED cmdq
    PROVE  TypeOK'
<1>1. attempt' \in 0..MaxAttempt /\ pc' \in {"Top", "WaitManual"}
  BY ConnectionLoopAssumption DEF LeaveMessageLoop, TypeOK
<1> QED
  BY <1>1 DEF LeaveMessageLoop, TypeOK, appVars, Parked

\* The message loop.
LEMMA MessagesTypeOK == TypeOK /\ Messages => TypeOK'
<1> SUFFICES ASSUME TypeOK, Messages PROVE TypeOK'
  OBVIOUS
<1> USE DEF appVars, callVars, loopVars, msgVars, MessageLoop
<1>1. CASE OnlineCancelled \/ SocketEnds \/ CloseDone \/ SendFails
  BY <1>1, LeaveTypeOK DEF OnlineCancelled, SocketEnds, CloseDone, SendFails
<1>2. ASSUME NEW r \in Requests, RecvReply(r) PROVE TypeOK'
  BY <1>2 DEF RecvReply, TypeOK
<1>3. CASE RecvPing
  <2>1. cmdq' \in Seq(Cmds) /\ Len(cmdq') <= BufferSize
    BY <1>3, TrySendEffect DEF RecvPing, Cmds, Frames
  <2> QED BY <1>3, <2>1 DEF RecvPing, TypeOK
<1>4. CASE RecvOther
  BY <1>4 DEF RecvOther, TypeOK
<1>5. CASE HeartbeatPing
  BY <1>5 DEF HeartbeatPing, TypeOK
<1>6. CASE PingDone
  BY <1>6 DEF PingDone, TypeOK
<1>7. CASE HeartbeatDead
  BY <1>7 DEF HeartbeatDead, TypeOK
<1>8. CASE OnlineCommand
  <2>1. cmdq' \in Seq(Cmds) /\ Len(cmdq') <= BufferSize
    BY <1>8, RecvEffect DEF OnlineCommand
  <2>2. outbox' \subseteq Frames /\ pc' \in MessageLoop
    BY <1>8 DEF OnlineCommand, TypeOK, MessageLoop
  <2> QED BY <1>8, <2>1, <2>2 DEF OnlineCommand, TypeOK
<1>9. ASSUME NEW f \in Frames, SendFrame(f) PROVE TypeOK'
  BY <1>9 DEF SendFrame, TypeOK
<1>10. CASE DrainCommand
  <2>1. cmdq' \in Seq(Cmds) /\ Len(cmdq') <= BufferSize
    BY <1>10, RecvEffect DEF DrainCommand
  <2>2. outbox' \subseteq Frames /\ pc' \in {"ClosingDrain", "Draining"}
    BY <1>10 DEF DrainCommand, TypeOK
  <2> QED BY <1>10, <2>1, <2>2 DEF DrainCommand, TypeOK
<1>11. CASE DrainClosed
  BY <1>11 DEF DrainClosed, TypeOK
<1>12. CASE DrainEmpty
  BY <1>12 DEF DrainEmpty, TypeOK
<1> QED
  BY <1>1, <1>2, <1>3, <1>4, <1>5, <1>6, <1>7, <1>8, <1>9, <1>10, <1>11, <1>12
  DEF Messages

\* The type invariant holds initially.
LEMMA InitTypeOK == Init => TypeOK
<1>1. /\ <<>> \in Seq(Cmds) /\ Len(<<>>) <= BufferSize
      /\ 0 \in 0..MaxAttempt /\ 0 \in 0..MaxCallers
  BY ConnectionLoopAssumption
<1> QED BY <1>1 DEF Init, TypeOK

\* Every step preserves the type invariant.
LEMMA StepTypeOK == TypeOK /\ [Next]_vars => TypeOK'
<1> SUFFICES ASSUME TypeOK, [Next]_vars PROVE TypeOK'
  OBVIOUS
<1>1. CASE UNCHANGED vars
  BY <1>1 DEF vars, appVars, callVars, loopVars, msgVars, TypeOK
<1> QED
  BY <1>1, ApplicationTypeOK, RequestTypeOK, CycleTypeOK, ConnectingTypeOK,
     MessagesTypeOK DEF Next

\* Type correctness of the client (src/ws/client).
THEOREM TypeCorrect == Spec => []TypeOK
BY InitTypeOK, StepTypeOK, PTL DEF Spec

-----------------------------------------------------------------------------
(***************************************************************************)
(* Calls, frames and replies: CallInv is inductive.                        *)
(***************************************************************************)

\* A step that only takes frames, entries and transmissions away, as every
\* step outside the message loop and every end of a connection does.
LEMMA QuietStep ==
    ASSUME TypeOK, CallInv,
           UNCHANGED <<call, answered, sent>>,
           pending' \subseteq pending, Queued' \subseteq Queued, DistinctFrames',
           outbox' \subseteq outbox, sentNow' \subseteq sentNow,
           sentNow' = sentNow \/ pending' = {},
           pc \in Dead => pc' \in Dead
    PROVE  CallInv'
<1>1. FreshCalls'
  BY DEF CallInv, FreshCalls
<1>2. RepliesResolve'
  BY DEF CallInv, RepliesResolve
<1>3. SentOnce'
  BY DEF CallInv, SentOnce
<1>4. Answerable'
  BY DEF CallInv, Answerable
<1>5. PendingOwned'
  BY DEF CallInv, PendingOwned
<1> QED BY <1>1, <1>2, <1>3, <1>4, <1>5 DEF CallInv

\* The same when the step leaves the channel alone or receives from it ...
LEMMA QuietQueue ==
    ASSUME TypeOK, CallInv, cmdq' = cmdq \/ (\E c \in Cmds : Recv(c)) \/ cmdq' = <<>>
    PROVE  Queued' \subseteq Queued /\ DistinctFrames'
<1>1. CASE cmdq' = cmdq
  BY <1>1, QueueUnchanged DEF CallInv
<1>2. ASSUME NEW c \in Cmds, Recv(c)
      PROVE  Queued' \subseteq Queued /\ DistinctFrames'
  BY <1>2, RecvEffect DEF CallInv
<1>3. CASE cmdq' = <<>>
  BY <1>3 DEF Queued, DistinctFrames
<1> QED BY <1>1, <1>2, <1>3

\* ... or posts a command that is not a frame, or a frame that is nowhere yet.
LEMMA PostStep ==
    ASSUME TypeOK, CallInv, NEW c \in Cmds, TrySend(c),
           c \in Frames => c \notin Requests /\ c \notin Queued \cup outbox,
           UNCHANGED <<callVars, outbox, sentNow, sent>>,
           pc' = pc
    PROVE  CallInv'
<1>1. Queued' \subseteq Queued \cup {c} /\ DistinctFrames'
  BY TrySendEffect DEF CallInv
<1>2. c \notin Requests /\ c \notin outbox
  BY ConnectionLoopAssumption DEF Cmds, Frames, TypeOK
<1>3. FreshCalls'
  BY <1>1, <1>2 DEF CallInv, FreshCalls, callVars
<1>4. RepliesResolve'
  BY DEF CallInv, RepliesResolve, callVars
<1>5. SentOnce'
  BY <1>1, <1>2 DEF CallInv, SentOnce, TypeOK
<1>6. Answerable' /\ PendingOwned'
  BY DEF CallInv, Answerable, PendingOwned, callVars
<1> QED BY <1>1, <1>3, <1>4, <1>5, <1>6 DEF CallInv

\* The application's calls preserve CallInv.
LEMMA ApplicationCallInv == TypeOK /\ CallInv /\ Application => CallInv'
<1> SUFFICES ASSUME TypeOK, CallInv, Application PROVE CallInv'
  OBVIOUS
<1> USE DEF callVars, loopVars, msgVars, appVars
<1>0. /\ "EndpointChanged" \in Cmds \ Frames
      /\ "Reconnect" \in Cmds \ Frames /\ "WakeUp" \in Cmds \ Frames
  BY ConnectionLoopAssumption DEF Cmds, Controls
<1>1. ASSUME NEW u \in Endpoints \cup {NoUrl}, WriteUrl(u) PROVE CallInv'
  BY <1>1, QuietStep, QuietQueue DEF WriteUrl
<1>2. CASE NotifyEndpoint
  BY <1>0, <1>2, PostStep DEF NotifyEndpoint
<1>3. ASSUME NEW enabled \in BOOLEAN, SetAutoReconnect(enabled) PROVE CallInv'
  <2>1. CASE enabled
    BY <1>0, <1>3, <2>1, PostStep DEF SetAutoReconnect
  <2>2. CASE ~enabled
    BY <1>3, <2>2, QuietStep, QuietQueue DEF SetAutoReconnect
  <2> QED BY <2>1, <2>2
<1>4. ASSUME NEW c \in Events \cup {"Reconnect", "WakeUp"}, Post(c) PROVE CallInv'
  <2>1. c \in Cmds /\ (c \in Frames => c \in Events)
    BY <1>0 DEF Cmds, Frames
  <2>2. c \in Frames => c \notin Requests /\ c \notin Queued \cup outbox
    BY <1>4, <2>1, ConnectionLoopAssumption DEF Post
  <2> QED BY <1>4, <2>1, <2>2, PostStep DEF Post
<1>5. CASE Shutdown
  BY <1>5, QuietStep, QuietQueue DEF Shutdown
<1>6. CASE DropHandle
  BY <1>6, QuietStep, QuietQueue DEF DropHandle
<1> QED BY <1>1, <1>2, <1>3, <1>4, <1>5, <1>6 DEF Application

\* A step of request() that moves the call on, past the point where its frame
\* is queued, and may remove its pending entry.
LEMMA CallMoves ==
    ASSUME TypeOK, CallInv, NEW r \in Requests, NEW to,
           call' = [call EXCEPT ![r] = to], to \notin {"idle", "sending"},
           pending' \subseteq pending,
           r \in pending' => \/ to \in Running \cup {"abandoned"}
                             \/ to = "channelError" /\ pc' \in Dead,
           UNCHANGED <<cmdq, answered, pc, outbox, sentNow, sent>>
    PROVE  CallInv'
<1>1. Queued' = Queued /\ DistinctFrames'
  BY QueueUnchanged DEF CallInv
<1>2. \A q \in Requests : call'[q] = IF q = r THEN to ELSE call[q]
  BY DEF TypeOK
<1>3. FreshCalls'
  BY <1>1, <1>2 DEF CallInv, FreshCalls
<1>4. RepliesResolve' /\ SentOnce' /\ Answerable'
  BY <1>1 DEF CallInv, RepliesResolve, SentOnce, Answerable
<1>5. PendingOwned'
  BY <1>2 DEF CallInv, PendingOwned, TypeOK
<1> QED BY <1>1, <1>3, <1>4, <1>5 DEF CallInv

\* The steps of request() preserve CallInv.
LEMMA RequestCallInv ==
    ASSUME TypeOK, CallInv, NEW r \in Requests, RequestStep(r)
    PROVE  CallInv'
<1> USE DEF callVars, loopVars, msgVars, appVars, Running
<1>1. CASE RequestStart(r)
  <2>1. Queued' = Queued /\ DistinctFrames'
    BY <1>1, QueueUnchanged DEF RequestStart, CallInv
  <2>2. \A q \in Requests : call'[q] = IF q = r THEN "sending" ELSE call[q]
    BY <1>1 DEF RequestStart, TypeOK
  <2>3. r \notin Queued \cup outbox \cup sent \cup answered
    BY <1>1 DEF RequestStart, CallInv, FreshCalls
  <2>4. FreshCalls' /\ RepliesResolve'
    BY <1>1, <2>1, <2>2, <2>3 DEF RequestStart, CallInv, FreshCalls, RepliesResolve
  <2>5. SentOnce' /\ Answerable'
    BY <1>1, <2>1, <2>3 DEF RequestStart, CallInv, SentOnce, Answerable
  <2>6. PendingOwned'
    BY <1>1, <2>2 DEF RequestStart, CallInv, PendingOwned, TypeOK
  <2> QED BY <2>1, <2>4, <2>5, <2>6 DEF CallInv
<1>2. CASE RequestEnqueue(r)
  <2>0. r \in Cmds /\ r \notin Queued \cup outbox \cup sent \cup answered
    BY <1>2 DEF RequestEnqueue, CallInv, FreshCalls, Cmds, Frames
  <2>1. Queued' = Queued \cup {r} /\ DistinctFrames'
    BY <1>2, <2>0, AppendEffect DEF RequestEnqueue, HasRoom, CallInv
  <2>2. \A q \in Requests : call'[q] = IF q = r THEN "waiting" ELSE call[q]
    BY <1>2 DEF RequestEnqueue, TypeOK
  <2>3. FreshCalls' /\ RepliesResolve'
    BY <1>2, <2>1, <2>2 DEF RequestEnqueue, CallInv, FreshCalls, RepliesResolve
  <2>4. SentOnce' /\ Answerable'
    BY <1>2, <2>0, <2>1 DEF RequestEnqueue, CallInv, SentOnce, Answerable
  <2>5. PendingOwned'
    BY <1>2, <2>2 DEF RequestEnqueue, CallInv, PendingOwned, TypeOK
  <2> QED BY <2>1, <2>3, <2>4, <2>5 DEF CallInv
<1>3. CASE RequestClosed(r)
  <2>1. pc' \in Dead /\ call' = [call EXCEPT ![r] = "channelError"]
    BY <1>3 DEF RequestClosed
  <2>2. UNCHANGED <<cmdq, pending, answered, pc, outbox, sentNow, sent>>
    BY <1>3 DEF RequestClosed
  <2> QED BY <2>1, <2>2, CallMoves
<1>4. CASE RequestOk(r)
  <2>1. r \notin pending
    BY <1>4 DEF RequestOk, CallInv, RepliesResolve
  <2> QED BY <1>4, <2>1, CallMoves DEF RequestOk
<1>5. CASE RequestDropped(r)
  BY <1>5, CallMoves DEF RequestDropped
<1>6. CASE RequestExpires(r)
  BY <1>6, CallMoves DEF RequestExpires
<1>7. CASE RequestTimeout(r)
  BY <1>7, CallMoves DEF RequestTimeout
<1>8. CASE RequestAbandon(r)
  BY <1>8, CallMoves DEF RequestAbandon
<1> QED BY <1>1, <1>2, <1>3, <1>4, <1>5, <1>6, <1>7, <1>8 DEF RequestStep

\* The task is alive while it connects.
LEMMA ConnectingIsAlive == Connecting => pc \notin Dead
BY DEF Connecting, ConnectOk, ConnectFails, VersionAccepted, VersionRejected,
       VersionFails, NoiseOk, NoiseFails, AuthSkipped, AuthSent, AuthSendFails,
       AuthAccepted, AuthRejected, AuthFails, Dead

\* The reconnect cycle preserves CallInv: it throws frames away.
LEMMA CycleCallInv == TypeOK /\ CallInv /\ Cycle => CallInv'
<1> SUFFICES ASSUME TypeOK, CallInv, Cycle PROVE CallInv'
  OBVIOUS
<1> USE DEF callVars, msgVars, appVars, Dead
<1>1. CASE TopCancelled
  BY <1>1, QuietStep, QuietQueue DEF TopCancelled, Die
<1>2. CASE TopNoEndpoint
  BY <1>2, QuietStep, QuietQueue DEF TopNoEndpoint
<1>3. CASE TopPanics
  BY <1>3, QuietStep, QuietQueue DEF TopPanics, Die
<1>4. CASE TopBackoff
  BY <1>4, QuietStep, QuietQueue DEF TopBackoff
<1>5. CASE TopConnect
  BY <1>5, QuietStep, QuietQueue DEF TopConnect
<1>6. CASE BackoffElapsed
  BY <1>6, QuietStep, QuietQueue DEF BackoffElapsed
<1>7. CASE BackoffCommand
  BY <1>7, QuietStep, QuietQueue DEF BackoffCommand
<1>8. CASE ParkedCommand
  BY <1>8, QuietStep, QuietQueue DEF ParkedCommand, Parked
<1>9. CASE SleepCancelled
  BY <1>9, QuietStep, QuietQueue DEF SleepCancelled, Die, Parked
<1> QED BY <1>1, <1>2, <1>3, <1>4, <1>5, <1>6, <1>7, <1>8, <1>9 DEF Cycle

\* So do the connection steps; a verdict clears the pending map.
LEMMA ConnectingCallInv == TypeOK /\ CallInv /\ Connecting => CallInv'
<1> SUFFICES ASSUME TypeOK, CallInv, Connecting PROVE CallInv'
  OBVIOUS
<1> USE DEF callVars, msgVars, appVars, Dead
<1>1. CASE Enter("Version", "Handshaking") \/ Enter("Noise", "Authenticating")
           \/ Enter("Auth", state) \/ Enter("AuthReply", "WaitingForAuth")
  BY <1>1, ConnectingIsAlive, QuietStep, QuietQueue DEF Enter
<1>2. CASE FailAttempt("Error") \/ FailAttempt(state)
  BY <1>2, ConnectingIsAlive, QuietStep, QuietQueue DEF FailAttempt
<1>3. CASE Park("WaitMismatch", "VersionMismatch")
           \/ Park("WaitUnauthorized", "Unauthorized")
  BY <1>3, ConnectingIsAlive, QuietStep, QuietQueue DEF Park
<1>4. CASE GoOnline
  BY <1>4, ConnectingIsAlive, QuietStep, QuietQueue DEF GoOnline
<1> QED
  BY <1>1, <1>2, <1>3, <1>4
  DEF Connecting, ConnectOk, ConnectFails, VersionAccepted, VersionRejected,
      VersionFails, NoiseOk, NoiseFails, AuthSkipped, AuthSent, AuthSendFails,
      AuthAccepted, AuthRejected, AuthFails

\* Leaving the message loop clears the pending map with the connection.
LEMMA LeaveCallInv ==
    ASSUME TypeOK, CallInv, LeaveMessageLoop, UNCHANGED cmdq, pc \notin Dead
    PROVE  CallInv'
BY QuietStep, QuietQueue DEF LeaveMessageLoop

\* Receiving a frame moves it from the channel to the scheduler.
LEMMA ScheduleCallInv ==
    ASSUME TypeOK, CallInv, NEW c \in Cmds, Recv(c),
           outbox' = IF c \in Frames THEN outbox \cup {c} ELSE outbox,
           UNCHANGED <<callVars, sentNow, sent>>, pc \notin Dead
    PROVE  CallInv'
<1>1. /\ c \in Queued /\ Queued' \subseteq Queued /\ DistinctFrames'
      /\ c \notin Queued' \cap Frames
  BY RecvEffect DEF CallInv
<1>2. FreshCalls'
  BY <1>1 DEF CallInv, FreshCalls, callVars
<1>3. RepliesResolve' /\ Answerable' /\ PendingOwned'
  BY DEF CallInv, RepliesResolve, Answerable, PendingOwned, callVars
<1>4. SentOnce'
  BY <1>1 DEF CallInv, SentOnce
<1> QED BY <1>1, <1>2, <1>3, <1>4 DEF CallInv

\* The message loop preserves CallInv.
LEMMA MessagesCallInv == TypeOK /\ CallInv /\ Messages => CallInv'
<1> SUFFICES ASSUME TypeOK, CallInv, Messages PROVE CallInv'
  OBVIOUS
<1> USE DEF callVars, loopVars, msgVars, appVars, Dead
<1>1. CASE OnlineCancelled \/ SocketEnds \/ CloseDone \/ SendFails
  BY <1>1, LeaveCallInv DEF OnlineCancelled, SocketEnds, CloseDone, SendFails
<1>2. ASSUME NEW r \in Requests, RecvReply(r) PROVE CallInv'
  <2>1. Queued' = Queued /\ DistinctFrames'
    BY <1>2, QueueUnchanged DEF RecvReply, CallInv
  <2>2. r \in sent
    BY <1>2 DEF RecvReply, CallInv, RepliesResolve
  <2>3. FreshCalls'
    BY <1>2, <2>1, <2>2 DEF RecvReply, CallInv, FreshCalls
  <2>4. RepliesResolve' /\ SentOnce'
    BY <1>2, <2>1 DEF RecvReply, CallInv, RepliesResolve, SentOnce
  <2>5. Answerable' /\ PendingOwned'
    BY <1>2 DEF RecvReply, CallInv, Answerable, PendingOwned
  <2> QED BY <2>1, <2>3, <2>4, <2>5 DEF CallInv
<1>3. CASE RecvPing
  BY <1>3, ConnectionLoopAssumption, PostStep DEF RecvPing, Cmds, Frames
<1>4. CASE RecvOther
  BY <1>4, QuietStep, QuietQueue DEF RecvOther
<1>5. CASE HeartbeatPing
  BY <1>5, QuietStep, QuietQueue DEF HeartbeatPing
<1>6. CASE PingDone
  BY <1>6, QuietStep, QuietQueue DEF PingDone
<1>7. CASE HeartbeatDead
  BY <1>7, QuietStep, QuietQueue DEF HeartbeatDead
<1>8. CASE OnlineCommand
  BY <1>8, ScheduleCallInv DEF OnlineCommand
<1>9. ASSUME NEW f \in Frames, SendFrame(f) PROVE CallInv'
  <2>1. Queued' = Queued /\ DistinctFrames'
    BY <1>9, QueueUnchanged DEF SendFrame, CallInv
  <2>2. f \in outbox /\ f \notin Queued
    BY <1>9 DEF SendFrame, CallInv, SentOnce
  <2>3. FreshCalls'
    BY <1>9, <2>1, <2>2 DEF SendFrame, CallInv, FreshCalls
  <2>4. RepliesResolve' /\ SentOnce'
    BY <1>9, <2>1, <2>2 DEF SendFrame, CallInv, RepliesResolve, SentOnce
  <2>5. Answerable' /\ PendingOwned'
    BY <1>9 DEF SendFrame, CallInv, Answerable, PendingOwned
  <2> QED BY <2>1, <2>3, <2>4, <2>5 DEF CallInv
<1>10. CASE DrainCommand
  BY <1>10, ScheduleCallInv DEF DrainCommand
<1>11. CASE DrainClosed
  BY <1>11, QuietStep, QuietQueue DEF DrainClosed
<1>12. CASE DrainEmpty
  BY <1>12, QuietStep, QuietQueue DEF DrainEmpty
<1> QED
  BY <1>1, <1>2, <1>3, <1>4, <1>5, <1>6, <1>7, <1>8, <1>9, <1>10, <1>11, <1>12
  DEF Messages

\* No call has been made initially.
LEMMA InitCallInv == Init => CallInv
BY DEF Init, CallInv, FreshCalls, DistinctFrames, RepliesResolve, SentOnce,
       Answerable, PendingOwned, Queued

\* Every step preserves CallInv.
LEMMA StepCallInv == TypeOK /\ CallInv /\ [Next]_vars => CallInv'
<1> SUFFICES ASSUME TypeOK, CallInv, [Next]_vars PROVE CallInv'
  OBVIOUS
<1>1. CASE UNCHANGED vars
  BY <1>1, QuietStep, QuietQueue DEF vars, callVars, loopVars, msgVars
<1> QED
  BY <1>1, ApplicationCallInv, RequestCallInv, CycleCallInv, ConnectingCallInv,
     MessagesCallInv DEF Next

\* The pending map and the frames of src/ws/client agree, always.
LEMMA CallInvHolds == Spec => []CallInv
BY InitTypeOK, StepTypeOK, InitCallInv, StepCallInv, PTL DEF Spec

\* At-most-once transmission (run_message_loop, request): no frame of a
\* transmitted request is queued again.
THEOREM SentOnceHolds == Spec => []SentOnce
BY CallInvHolds, PTL DEF CallInv

\* Every pending request that was transmitted can still be answered over the
\* connection that is up (connection_loop clears pending with a connection).
THEOREM AnswerableHolds == Spec => []Answerable
BY CallInvHolds, PTL DEF CallInv

\* The pending map holds no entry of a finished call, except of one that found the
\* channel closed after the task ended (request, mod.rs:182-185).
THEOREM PendingOwnedHolds == Spec => []PendingOwned
BY CallInvHolds, PTL DEF CallInv

-----------------------------------------------------------------------------
(***************************************************************************)
(* The watched state and the endpoint.                                     *)
(***************************************************************************)

\* No step leaves Online in the watched state when the message loop ends, or
\* enters the loop without it.
LEMMA StepStateIsTruthful == StateIsTruthful /\ [Next]_vars => StateIsTruthful'
<1> SUFFICES ASSUME StateIsTruthful, [Next]_vars PROVE StateIsTruthful'
  OBVIOUS
<1> USE DEF StateIsTruthful, MessageLoop, loopVars
<1>1. CASE UNCHANGED vars
  BY <1>1 DEF vars
<1>2. CASE Application
  BY <1>2 DEF Application, WriteUrl, NotifyEndpoint, SetAutoReconnect, Post,
              Shutdown, DropHandle
<1>3. ASSUME NEW r \in Requests, RequestStep(r) PROVE StateIsTruthful'
  BY <1>3 DEF RequestStep, RequestStart, RequestEnqueue, RequestClosed, RequestOk,
              RequestDropped, RequestExpires, RequestTimeout, RequestAbandon
<1>4. CASE Cycle
  <2>1. pc \notin MessageLoop /\ pc' \notin MessageLoop
    BY <1>4 DEF Cycle, TopCancelled, TopNoEndpoint, TopPanics, TopBackoff,
                TopConnect, BackoffElapsed, BackoffCommand, ParkedCommand,
                SleepCancelled, Die, Parked
  <2>2. state' # "Online"
    BY <1>4, <2>1 DEF Cycle, TopCancelled, TopNoEndpoint, TopPanics, TopBackoff,
                TopConnect, BackoffElapsed, BackoffCommand, ParkedCommand,
                SleepCancelled
  <2> QED BY <2>1, <2>2
<1>5. CASE Connecting
  <2>1. CASE Enter("Version", "Handshaking") \/ Enter("Noise", "Authenticating")
             \/ Enter("AuthReply", "WaitingForAuth") \/ FailAttempt("Error")
             \/ Park("WaitMismatch", "VersionMismatch")
             \/ Park("WaitUnauthorized", "Unauthorized") \/ GoOnline
    BY <2>1 DEF Enter, FailAttempt, Park, GoOnline
  <2>2. CASE NoiseOk \/ NoiseFails
    BY <2>2 DEF NoiseOk, NoiseFails, Enter, FailAttempt
  <2> QED
    BY <1>5, <2>1, <2>2
    DEF Connecting, ConnectOk, ConnectFails, VersionAccepted, VersionRejected,
        VersionFails, AuthSkipped, AuthSent, AuthSendFails, AuthAccepted,
        AuthRejected, AuthFails
<1>6. CASE Messages
  <2>1. CASE LeaveMessageLoop
    BY <2>1 DEF LeaveMessageLoop
  <2>2. CASE ~LeaveMessageLoop
    <3>1. pc \in MessageLoop /\ pc' \in MessageLoop /\ state' = state
      BY <1>6, <2>2
      DEF Messages, OnlineCancelled, SocketEnds, RecvReply, RecvPing, RecvOther,
          HeartbeatPing, PingDone, HeartbeatDead, OnlineCommand, CloseDone,
          SendFrame, SendFails, DrainCommand, DrainClosed, DrainEmpty
    <3> QED BY <3>1
  <2> QED BY <2>1, <2>2
<1> QED BY <1>1, <1>2, <1>3, <1>4, <1>5, <1>6 DEF Next

\* is_online() (src/state.rs) is true exactly while run_message_loop runs.
THEOREM StateIsTruthfulHolds == Spec => []StateIsTruthful
<1>1. Init => StateIsTruthful
  BY DEF Init, StateIsTruthful, MessageLoop
<1> QED BY <1>1, StepStateIsTruthful, PTL DEF Spec

\* A step that starts at the top of the loop, or ends where the endpoint is
\* about to be read again.
LEMMA RereadsEndpoint ==
    ASSUME pc' \in {"Top", "WaitManual", "ClosingEndpoint", "ClosingDrain"} \cup Dead
    PROVE  FollowsEndpoint'
BY DEF FollowsEndpoint, Handshaking, Parked, MessageLoop, Dead

\* A step that keeps the loop's view and takes no EndpointChanged from the channel.
LEMMA KeepsEndpoint ==
    ASSUME FollowsEndpoint, UNCHANGED <<url, notifying, target>>,
           lost => lost', wsClosed => wsClosed',
           "EndpointChanged" \in Queued => "EndpointChanged" \in Queued',
           pc \in {"Backoff"} \cup Handshaking \cup (Parked \ {"WaitManual"})
                  \cup (MessageLoop \ {"ClosingEndpoint", "ClosingDrain"})
           \/ pc' = pc
    PROVE  FollowsEndpoint'
BY DEF FollowsEndpoint

\* The application's calls announce every change of the endpoint.
LEMMA ApplicationFollows ==
    ASSUME TypeOK, FollowsEndpoint, Application
    PROVE  FollowsEndpoint'
<1> USE DEF loopVars, msgVars, appVars, callVars
<1>0. /\ "EndpointChanged" \in Cmds /\ "Reconnect" \in Cmds
      /\ Events \cup {"Reconnect", "WakeUp"} \subseteq Cmds
  BY DEF Cmds, Controls, Frames
<1>1. ASSUME NEW u \in Endpoints \cup {NoUrl}, WriteUrl(u) PROVE FollowsEndpoint'
  <2>1. notifying' > 0
    BY <1>1 DEF WriteUrl, TypeOK
  <2> QED BY <2>1 DEF FollowsEndpoint
<1>2. CASE NotifyEndpoint
  <2>1. CASE pc \in Dead
    BY <1>2, <2>1, RereadsEndpoint DEF NotifyEndpoint
  <2>2. CASE pc \notin Dead
    <3>1. lost' \/ "EndpointChanged" \in Queued'
      BY <1>0, <1>2, <2>2, TrySendEffect DEF NotifyEndpoint
    <3> QED BY <3>1 DEF FollowsEndpoint
  <2> QED BY <2>1, <2>2
<1>3. ASSUME NEW enabled \in BOOLEAN, SetAutoReconnect(enabled) PROVE FollowsEndpoint'
  <2>1. Queued \subseteq Queued'
    BY <1>0, <1>3, TrySendEffect, QueueUnchanged DEF SetAutoReconnect
  <2> QED BY <1>3, <2>1, KeepsEndpoint DEF SetAutoReconnect
<1>4. ASSUME NEW c \in Events \cup {"Reconnect", "WakeUp"}, Post(c)
      PROVE  FollowsEndpoint'
  <2>1. Queued \subseteq Queued'
    BY <1>0, <1>4, TrySendEffect DEF Post
  <2> QED BY <1>4, <2>1, KeepsEndpoint DEF Post
<1>5. CASE Shutdown \/ DropHandle
  BY <1>5, QueueUnchanged, KeepsEndpoint DEF Shutdown, DropHandle
<1> QED BY <1>1, <1>2, <1>3, <1>4, <1>5 DEF Application

\* request() never touches the endpoint.
LEMMA RequestFollows ==
    ASSUME TypeOK, FollowsEndpoint, NEW r \in Requests, RequestStep(r)
    PROVE  FollowsEndpoint'
<1> USE DEF loopVars, msgVars, appVars, callVars
<1>1. CASE RequestEnqueue(r)
  <2>1. Queued \subseteq Queued'
    BY <1>1, AppendEffect DEF RequestEnqueue, HasRoom, Cmds, Frames
  <2> QED BY <1>1, <2>1, KeepsEndpoint DEF RequestEnqueue
<1>2. CASE ~RequestEnqueue(r)
  <2>1. UNCHANGED <<url, notifying, target, lost, wsClosed, cmdq, pc>>
    BY <1>2 DEF RequestStep, RequestStart, RequestClosed, RequestOk, RequestDropped,
                RequestExpires, RequestTimeout, RequestAbandon
  <2> QED BY <2>1, QueueUnchanged, KeepsEndpoint
<1> QED BY <1>1, <1>2

\* The reconnect cycle reads the endpoint at its top, and goes there whenever
\* it receives an EndpointChanged.
LEMMA CycleFollows ==
    ASSUME TypeOK, FollowsEndpoint, Cycle
    PROVE  FollowsEndpoint'
<1> USE DEF loopVars, msgVars, appVars, callVars
<1>1. CASE TopCancelled \/ TopPanics
  BY <1>1, RereadsEndpoint DEF TopCancelled, TopPanics, Die, Dead
<1>2. CASE TopNoEndpoint \/ TopBackoff \/ TopConnect
  BY <1>2 DEF TopNoEndpoint, TopBackoff, TopConnect, FollowsEndpoint
<1>3. CASE BackoffElapsed
  BY <1>3, QueueUnchanged, KeepsEndpoint DEF BackoffElapsed
<1>4. CASE BackoffCommand
  BY <1>4, RereadsEndpoint DEF BackoffCommand
<1>5. CASE ParkedCommand
  <2> PICK c \in Cmds :
        /\ Recv(c)
        /\ IF c \in WakesUp(pc)
           THEN pc' = "Top" /\ attempt' = AttemptAfter(pc)
           ELSE UNCHANGED <<pc, attempt>>
    BY <1>5 DEF ParkedCommand
  <2>1. CASE c \in WakesUp(pc)
    BY <2>1, RereadsEndpoint
  <2>2. CASE c \notin WakesUp(pc)
    <3>1. c # "EndpointChanged"
      BY <2>2 DEF WakesUp, Controls
    <3>2. Queued \subseteq Queued' \cup {c}
      BY RecvEffect
    <3> QED BY <1>5, <2>2, <3>1, <3>2, KeepsEndpoint DEF ParkedCommand
  <2> QED BY <2>1, <2>2
<1>6. CASE SleepCancelled
  BY <1>6, RereadsEndpoint DEF SleepCancelled, Die, Dead
<1> QED BY <1>1, <1>2, <1>3, <1>4, <1>5, <1>6 DEF Cycle

\* Connecting keeps the commands for later.
LEMMA ConnectingFollows ==
    ASSUME TypeOK, FollowsEndpoint, Connecting
    PROVE  FollowsEndpoint'
<1> USE DEF loopVars, msgVars, appVars, callVars
<1>1. pc \in Handshaking
  BY DEF Connecting, ConnectOk, ConnectFails, VersionAccepted, VersionRejected,
         VersionFails, NoiseOk, NoiseFails, AuthSkipped, AuthSent, AuthSendFails,
         AuthAccepted, AuthRejected, AuthFails, Handshaking
<1>2. UNCHANGED <<url, notifying, target, lost, wsClosed, cmdq>>
  BY DEF Connecting, ConnectOk, ConnectFails, VersionAccepted, VersionRejected,
         VersionFails, NoiseOk, NoiseFails, AuthSkipped, AuthSent, AuthSendFails,
         AuthAccepted, AuthRejected, AuthFails, Enter, FailAttempt, Park, GoOnline
<1> QED BY <1>1, <1>2, QueueUnchanged, KeepsEndpoint

\* The message loop closes the socket when it receives an EndpointChanged.
LEMMA MessagesFollow ==
    ASSUME TypeOK, FollowsEndpoint, Messages
    PROVE  FollowsEndpoint'
<1> USE DEF loopVars, msgVars, appVars, callVars
<1>1. CASE OnlineCancelled \/ SocketEnds \/ CloseDone \/ SendFails
  <2>1. pc' \in {"Top", "WaitManual"}
    BY <1>1 DEF OnlineCancelled, SocketEnds, CloseDone, SendFails, LeaveMessageLoop
  <2> QED BY <2>1, RereadsEndpoint
<1>2. CASE (\E r \in Requests : RecvReply(r)) \/ RecvOther \/ HeartbeatPing
           \/ PingDone \/ HeartbeatDead \/ (\E f \in Frames : SendFrame(f))
           \/ DrainEmpty
  BY <1>2, QueueUnchanged, KeepsEndpoint
  DEF RecvReply, RecvOther, HeartbeatPing, PingDone, HeartbeatDead, SendFrame,
      DrainEmpty, MessageLoop
<1>3. CASE RecvPing
  <2>1. Queued \subseteq Queued'
    BY <1>3, TrySendEffect DEF RecvPing, Cmds, Frames
  <2> QED BY <1>3, <2>1, KeepsEndpoint DEF RecvPing
<1>4. CASE DrainClosed
  BY <1>4 DEF DrainClosed, FollowsEndpoint
<1>5. CASE OnlineCommand
  <2> PICK c \in Cmds :
        /\ Recv(c)
        /\ pc' = CASE c \in Frames          -> "Sending"
                   [] c = "WakeUp"          -> "Online"
                   [] c = "EndpointChanged" -> "ClosingEndpoint"
                   [] OTHER                 -> "ClosingReconnect"
    BY <1>5 DEF OnlineCommand
  <2>1. CASE pc' = "ClosingEndpoint"
    BY <2>1, RereadsEndpoint
  <2>2. CASE pc' # "ClosingEndpoint"
    <3>1. c # "EndpointChanged"
      BY <2>2, ConnectionLoopAssumption DEF Controls
    <3>2. Queued \subseteq Queued' \cup {c}
      BY RecvEffect
    <3> QED BY <1>5, <3>1, <3>2, KeepsEndpoint DEF OnlineCommand, MessageLoop
  <2> QED BY <2>1, <2>2
<1>6. CASE DrainCommand
  <2> PICK c \in Cmds : Recv(c) /\ pc' = IF c \in Closing THEN "ClosingDrain" ELSE "Draining"
    BY <1>6 DEF DrainCommand
  <2>1. CASE c \in Closing
    BY <2>1, RereadsEndpoint
  <2>2. CASE c \notin Closing
    <3>1. Queued \subseteq Queued' \cup {c} /\ c # "EndpointChanged"
      BY <2>2, RecvEffect DEF Closing
    <3> QED BY <1>6, <3>1, KeepsEndpoint DEF DrainCommand, MessageLoop
  <2> QED BY <2>1, <2>2
<1> QED BY <1>1, <1>2, <1>3, <1>4, <1>5, <1>6 DEF Messages

\* The client follows its endpoint (set_endpoint, clear_endpoint): while it
\* works with an old url, an EndpointChanged is still to come or was lost.
THEOREM FollowsEndpointHolds == Spec => []FollowsEndpoint
<1>1. Init => FollowsEndpoint
  BY DEF Init, FollowsEndpoint
<1>2. TypeOK /\ FollowsEndpoint /\ [Next]_vars => FollowsEndpoint'
  <2> SUFFICES ASSUME TypeOK, FollowsEndpoint, [Next]_vars PROVE FollowsEndpoint'
    OBVIOUS
  <2>1. CASE UNCHANGED vars
    BY <2>1, QueueUnchanged, KeepsEndpoint DEF vars, appVars, loopVars, msgVars
  <2> QED
    BY <2>1, ApplicationFollows, RequestFollows, CycleFollows, ConnectingFollows,
       MessagesFollow DEF Next
<1> QED BY <1>1, <1>2, InitTypeOK, StepTypeOK, PTL DEF Spec

\* What is inductive of the client as a whole: types, the fate of frames and
\* entries, the watched state and the endpoint the loop works with.
THEOREM IInvHolds == Spec => []IInv
BY TypeCorrect, CallInvHolds, StateIsTruthfulHolds, FollowsEndpointHolds, PTL DEF IInv

\* No hot retry: the loop never goes back to its top from a failed or ended
\* connection with an attempt count of zero.
THEOREM FailuresArePacedHolds == Spec => FailuresArePaced
<1>1. TypeOK /\ [Next]_vars =>
        [(pc \in Handshaking \cup MessageLoop /\ pc' = "Top") => attempt' > 0]_vars
  <2> SUFFICES ASSUME TypeOK, Next, pc \in Handshaking \cup MessageLoop, pc' = "Top",
                      pc' # pc
               PROVE  attempt' > 0
    BY DEF Handshaking, MessageLoop
  <2>1. CASE Application \/ (\E r \in Requests : RequestStep(r))
    <3>1. pc' = pc
      BY <2>1 DEF Application, WriteUrl, NotifyEndpoint, SetAutoReconnect, Post,
                  Shutdown, DropHandle, RequestStep, RequestStart, RequestEnqueue,
                  RequestClosed, RequestOk, RequestDropped, RequestExpires,
                  RequestTimeout, RequestAbandon, loopVars
    <3> QED BY <3>1
  <2>2. CASE Cycle
    BY <2>2 DEF Cycle, TopCancelled, TopNoEndpoint, TopPanics, TopBackoff, TopConnect,
                BackoffElapsed, BackoffCommand, ParkedCommand, SleepCancelled, Parked,
                Handshaking, MessageLoop
  <2>3. CASE Connecting
    BY <2>3, NextAttemptType
    DEF Connecting, ConnectOk, ConnectFails, VersionAccepted, VersionRejected,
        VersionFails, NoiseOk, NoiseFails, AuthSkipped, AuthSent, AuthSendFails,
        AuthAccepted, AuthRejected, AuthFails, Enter, FailAttempt, Park, GoOnline
  <2>4. CASE Messages
    <3>1. LeaveMessageLoop
      BY <2>4 DEF Messages, OnlineCancelled, SocketEnds, RecvReply, RecvPing,
          RecvOther, HeartbeatPing, PingDone, HeartbeatDead, OnlineCommand,
          CloseDone, SendFrame, SendFails, DrainCommand, DrainClosed, DrainEmpty,
          loopVars
    <3> QED BY <3>1 DEF LeaveMessageLoop
  <2> QED BY <2>1, <2>2, <2>3, <2>4 DEF Next
<1> QED BY <1>1, TypeCorrect, PTL DEF Spec, FailuresArePaced

=============================================================================
