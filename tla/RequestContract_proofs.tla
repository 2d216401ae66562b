----------------------- MODULE RequestContract_proofs -----------------------
(***************************************************************************)
(* ConnectionLoop implements RequestContract: every step of the client     *)
(* (src/ws/client) is one of the contract's, or changes neither a result   *)
(* nor the fate of a frame.  What makes it so is CallInv.                  *)
(***************************************************************************)
EXTENDS ConnectionLoop_proofs

SameResults == \A r \in Requests : ResultOf(r)' = ResultOf(r)
SameFates   == \A r \in Requests : FateOf(r)' = FateOf(r)
\* Frames that are queued or under way are lost.
LosesFrames ==
    \A r \in Requests :
        \/ FateOf(r)' = FateOf(r)
        \/ FateOf(r) \in {"queued", "sent"} /\ FateOf(r)' = "lost"

ContractStep == [Contract!Next]_(Contract!vars)

-----------------------------------------------------------------------------
(***************************************************************************)
(* What has to be shown of a step.                                         *)
(***************************************************************************)

\* A step that changes nothing the contract sees.
LEMMA StutterStep == SameResults /\ SameFates => ContractStep
BY DEF SameResults, SameFates, ContractStep, Contract!vars

\* A step that throws frames away, or ends a connection.
LEMMA LoseStep == SameResults /\ LosesFrames => ContractStep
<1> SUFFICES ASSUME SameResults, LosesFrames PROVE Contract!Next
  BY DEF ContractStep
<1> DEFINE S == {r \in Requests : FateOf(r)' # FateOf(r)}
<1>1. \A r \in S : [q \in Requests |-> FateOf(q)][r] \in {"queued", "sent"}
  BY DEF LosesFrames
<1>2. [r \in Requests |-> FateOf(r)]'
        = [r \in Requests |-> IF r \in S THEN "lost"
                              ELSE [q \in Requests |-> FateOf(q)][r]]
  BY DEF LosesFrames
<1>3. [r \in Requests |-> ResultOf(r)]' = [r \in Requests |-> ResultOf(r)]
  BY DEF SameResults
<1>4. S \in SUBSET Requests /\ Contract!Lose(S)
  BY <1>1, <1>2, <1>3 DEF Contract!Lose
<1> QED BY <1>4 DEF Contract!Next

\* A step at one frame: what it does to its fate, and to nothing else.
LEMMA MoveStep ==
    ASSUME NEW r \in Requests, SameResults,
           \A q \in Requests \ {r} : FateOf(q)' = FateOf(q),
           \/ ResultOf(r) = "open" /\ FateOf(r) = "new" /\ FateOf(r)' = "queued"
           \/ FateOf(r) = "queued" /\ FateOf(r)' = "sent"
           \/ FateOf(r) = "sent" /\ FateOf(r)' = "answered"
    PROVE  ContractStep
<1>1. [q \in Requests |-> FateOf(q)]'
        = [[q \in Requests |-> FateOf(q)] EXCEPT ![r] = FateOf(r)']
  OBVIOUS
<1>2. [q \in Requests |-> ResultOf(q)]' = [q \in Requests |-> ResultOf(q)]
  BY DEF SameResults
<1>3. Contract!Submit(r) \/ Contract!Transmit(r) \/ Contract!Answer(r)
  BY <1>1, <1>2 DEF Contract!Submit, Contract!Transmit, Contract!Answer, Contract!Move
<1> QED BY <1>3 DEF ContractStep, Contract!Next

\* A step that starts a call or returns from it.
LEMMA ResultStep ==
    ASSUME NEW r \in Requests,
           \A q \in Requests \ {r} : ResultOf(q)' = ResultOf(q) /\ FateOf(q)' = FateOf(q),
           \/ /\ ResultOf(r) = "none" /\ ResultOf(r)' = "open"
              /\ FateOf(r)' = FateOf(r)
           \/ /\ ResultOf(r) = "open" /\ ResultOf(r)' = "ok"
              /\ FateOf(r) = "answered" /\ FateOf(r)' = "answered"
           \/ /\ ResultOf(r) = "open" /\ ResultOf(r)' = "failed"
              /\ FateOf(r)' = IF FateOf(r) = "new" THEN "lost" ELSE FateOf(r)
    PROVE  ContractStep
<1>1. [q \in Requests |-> ResultOf(q)]'
        = [[q \in Requests |-> ResultOf(q)] EXCEPT ![r] = ResultOf(r)']
  OBVIOUS
<1>2. [q \in Requests |-> FateOf(q)]'
        = [[q \in Requests |-> FateOf(q)] EXCEPT ![r] = FateOf(r)']
  OBVIOUS
<1>3. FateOf(r)' = FateOf(r) =>
        [q \in Requests |-> FateOf(q)]' = [q \in Requests |-> FateOf(q)]
  OBVIOUS
<1>4. Contract!Open(r) \/ Contract!ReturnOk(r) \/ Contract!ReturnFailed(r)
  BY <1>1, <1>2, <1>3 DEF Contract!Open, Contract!ReturnOk, Contract!ReturnFailed
<1> QED BY <1>4 DEF ContractStep, Contract!Next

-----------------------------------------------------------------------------
(***************************************************************************)
(* The steps of the client.                                                *)
(***************************************************************************)

\* The same steps as in QuietStep.
LEMMA QuietRefines ==
    ASSUME TypeOK, CallInv,
           UNCHANGED <<call, answered, sent>>,
           Queued' \subseteq Queued, outbox' \subseteq outbox,
           sentNow' \subseteq sentNow
    PROVE  ContractStep
<1>1. SameResults
  BY DEF SameResults, ResultOf
<1>2. LosesFrames
  <2> SUFFICES ASSUME NEW r \in Requests
               PROVE  \/ FateOf(r)' = FateOf(r)
                      \/ FateOf(r) \in {"queued", "sent"} /\ FateOf(r)' = "lost"
    BY DEF LosesFrames
  <2>1. CASE r \in answered
    BY <2>1 DEF FateOf
  <2>2. CASE r \notin answered /\ r \in sentNow
    BY <2>2 DEF FateOf, CallInv, RepliesResolve, SentOnce
  <2>3. CASE r \notin answered \cup sentNow /\ r \in Queued \cup outbox
    BY <2>3 DEF FateOf, CallInv, SentOnce, FreshCalls
  <2>4. CASE r \notin answered \cup sentNow \cup Queued \cup outbox
    BY <2>4 DEF FateOf
  <2> QED BY <2>1, <2>2, <2>3, <2>4
<1> QED BY <1>1, <1>2, LoseStep

\* A step that leaves every request where it is.
LEMMA KeepsFrames ==
    ASSUME UNCHANGED <<call, answered, sentNow, sent>>,
           \A r \in Requests : r \in (Queued \cup outbox)' <=> r \in Queued \cup outbox
    PROVE  ContractStep
<1>1. SameResults
  BY DEF SameResults, ResultOf
<1>2. SameFates
  BY DEF SameFates, FateOf
<1> QED BY <1>1, <1>2, StutterStep

\* Posting a command that is no request.
LEMMA PostRefines ==
    ASSUME TypeOK, NEW c \in Cmds, c \notin Requests, TrySend(c),
           UNCHANGED <<callVars, outbox, sentNow, sent>>
    PROVE  ContractStep
BY TrySendEffect, KeepsFrames DEF callVars

\* Moving a frame from the channel to the scheduler.
LEMMA ScheduleRefines ==
    ASSUME TypeOK, NEW c \in Cmds, Recv(c),
           outbox' = IF c \in Frames THEN outbox \cup {c} ELSE outbox,
           UNCHANGED <<callVars, sentNow, sent>>
    PROVE  ContractStep
<1>1. c \in Queued /\ Queued' \subseteq Queued /\ Queued \subseteq Queued' \cup {c}
  BY RecvEffect
<1>2. Requests \subseteq Frames
  BY DEF Frames
<1> QED BY <1>1, <1>2, KeepsFrames DEF callVars

\* Submitting, answering and every way for request() to go on or return.
LEMMA RequestRefines ==
    ASSUME TypeOK, CallInv, NEW r \in Requests, RequestStep(r)
    PROVE  ContractStep
<1> USE DEF callVars, loopVars, msgVars, appVars, Running
<1>1. ASSUME NEW to, call' = [call EXCEPT ![r] = to], to \notin {"idle", "sending"},
             UNCHANGED <<cmdq, answered, outbox, sentNow, sent>>
      PROVE  /\ \A q \in Requests \ {r} :
                    ResultOf(q)' = ResultOf(q) /\ FateOf(q)' = FateOf(q)
             /\ FateOf(r)' = IF FateOf(r) = "new" THEN "lost" ELSE FateOf(r)
             /\ call'[r] = to
  <2>1. \A q \in Requests : call'[q] = IF q = r THEN to ELSE call[q]
    BY <1>1 DEF TypeOK
  <2>2. Queued' = Queued
    BY <1>1, QueueUnchanged
  <2>3. \A q \in Requests \ {r} : call'[q] = call[q]
    BY <2>1
  <2>4. \A q \in Requests \ {r} : ResultOf(q)' = ResultOf(q)
    BY <2>3 DEF ResultOf
  <2>5. \A q \in Requests \ {r} : FateOf(q)' = FateOf(q)
    BY <1>1, <2>2, <2>3 DEF FateOf
  <2>6. CASE r \in answered \cup sentNow \cup Queued \cup outbox \cup sent
    <3>1. FateOf(r) # "new"
      BY <2>6 DEF FateOf
    <3>2. FateOf(r)' = FateOf(r)
      BY <1>1, <2>2, <2>6 DEF FateOf
    <3> QED BY <2>1, <2>4, <2>5, <3>1, <3>2
  <2>7. CASE r \notin answered \cup sentNow \cup Queued \cup outbox \cup sent
    <3>1. FateOf(r) \in {"new", "lost"}
      BY <2>7 DEF FateOf
    <3>2. FateOf(r)' = "lost"
      BY <1>1, <2>1, <2>2, <2>7 DEF FateOf
    <3> QED BY <2>1, <2>4, <2>5, <3>1, <3>2
  <2> QED BY <2>6, <2>7
<1>2. CASE RequestStart(r)
  <2>1. \A q \in Requests : call'[q] = IF q = r THEN "sending" ELSE call[q]
    BY <1>2 DEF RequestStart, TypeOK
  <2>2. Queued' = Queued
    BY <1>2, QueueUnchanged DEF RequestStart
  <2>3. /\ \A q \in Requests \ {r} : ResultOf(q)' = ResultOf(q) /\ FateOf(q)' = FateOf(q)
        /\ ResultOf(r) = "none" /\ ResultOf(r)' = "open" /\ FateOf(r)' = FateOf(r)
    BY <1>2, <2>1, <2>2 DEF RequestStart, ResultOf, FateOf
  <2> QED BY <2>3, ResultStep
<1>3. CASE RequestEnqueue(r)
  <2>0. r \in Cmds /\ r \notin Queued \cup outbox \cup sent \cup answered \cup sentNow
    BY <1>3 DEF RequestEnqueue, CallInv, FreshCalls, RepliesResolve, Cmds, Frames
  <2>1. Queued' = Queued \cup {r}
    BY <1>3, <2>0, AppendEffect DEF RequestEnqueue, HasRoom
  <2>2. \A q \in Requests : call'[q] = IF q = r THEN "waiting" ELSE call[q]
    BY <1>3 DEF RequestEnqueue, TypeOK
  <2>3. SameResults /\ ResultOf(r) = "open"
    BY <1>3, <2>2 DEF RequestEnqueue, SameResults, ResultOf
  <2>4. \A q \in Requests \ {r} : FateOf(q)' = FateOf(q)
    BY <1>3, <2>1, <2>2 DEF RequestEnqueue, FateOf
  <2>5. FateOf(r) = "new"
    BY <1>3, <2>0 DEF RequestEnqueue, FateOf
  <2>6. /\ r \notin answered' /\ r \notin sentNow'
        /\ r \in (Queued \cup outbox)'
    BY <1>3, <2>0, <2>1 DEF RequestEnqueue
  <2>7. FateOf(r)' = "queued"
    BY <2>6 DEF FateOf
  <2> QED BY <2>3, <2>4, <2>5, <2>7, MoveStep
<1>4. CASE RequestClosed(r)
  <2>1. ResultOf(r) = "open" /\ call' = [call EXCEPT ![r] = "channelError"]
    BY <1>4 DEF RequestClosed, ResultOf
  <2> QED BY <1>4, <2>1, <1>1, ResultStep DEF RequestClosed, ResultOf
<1>5. CASE RequestOk(r)
  <2>1. ResultOf(r) = "open" /\ call' = [call EXCEPT ![r] = "ok"]
    BY <1>5 DEF RequestOk, ResultOf
  <2>2. FateOf(r) = "answered"
    BY <1>5 DEF RequestOk, FateOf
  <2> QED BY <1>5, <2>1, <2>2, <1>1, ResultStep DEF RequestOk, ResultOf
<1>6. CASE RequestDropped(r)
  <2>1. ResultOf(r) = "open" /\ call' = [call EXCEPT ![r] = "channelError"]
    BY <1>6 DEF RequestDropped, ResultOf
  <2> QED BY <1>6, <2>1, <1>1, ResultStep DEF RequestDropped, ResultOf
<1>7. CASE RequestExpires(r)
  <2>1. call[r] = "waiting" /\ call' = [call EXCEPT ![r] = "expired"]
    BY <1>7 DEF RequestExpires
  <2>2. FateOf(r) # "new"
    BY <2>1 DEF FateOf
  <2>3. /\ \A q \in Requests \ {r} : ResultOf(q)' = ResultOf(q) /\ FateOf(q)' = FateOf(q)
        /\ FateOf(r)' = FateOf(r) /\ call'[r] = "expired"
    BY <1>7, <2>1, <2>2, <1>1 DEF RequestExpires
  <2>4. ResultOf(r)' = ResultOf(r)
    BY <2>1, <2>3 DEF ResultOf
  <2> QED BY <2>3, <2>4, StutterStep DEF SameResults, SameFates
<1>8. CASE RequestTimeout(r)
  <2>1. ResultOf(r) = "open" /\ call' = [call EXCEPT ![r] = "timeout"]
    BY <1>8 DEF RequestTimeout, ResultOf
  <2> QED BY <1>8, <2>1, <1>1, ResultStep DEF RequestTimeout, ResultOf
<1>9. CASE RequestAbandon(r)
  <2>1. ResultOf(r) = "open" /\ call' = [call EXCEPT ![r] = "abandoned"]
    BY <1>9 DEF RequestAbandon, ResultOf
  <2> QED BY <1>9, <2>1, <1>1, ResultStep DEF RequestAbandon, ResultOf
<1> QED BY <1>2, <1>3, <1>4, <1>5, <1>6, <1>7, <1>8, <1>9 DEF RequestStep

\* The other calls of the application.
LEMMA ApplicationRefines == TypeOK /\ CallInv /\ Application => ContractStep
<1> SUFFICES ASSUME TypeOK, CallInv, Application PROVE ContractStep
  OBVIOUS
<1> USE DEF callVars, loopVars, msgVars, appVars
<1>0. /\ {"EndpointChanged", "Reconnect", "WakeUp"} \cup Events \subseteq Cmds
      /\ ({"EndpointChanged", "Reconnect", "WakeUp"} \cup Events) \cap Requests = {}
  BY ConnectionLoopAssumption DEF Cmds, Controls, Frames
<1>1. ASSUME NEW u \in Endpoints \cup {NoUrl}, WriteUrl(u) PROVE ContractStep
  BY <1>1, QuietRefines, QueueUnchanged DEF WriteUrl
<1>2. CASE NotifyEndpoint
  BY <1>0, <1>2, PostRefines DEF NotifyEndpoint
<1>3. ASSUME NEW enabled \in BOOLEAN, SetAutoReconnect(enabled) PROVE ContractStep
  <2>1. CASE enabled
    BY <1>0, <1>3, <2>1, PostRefines DEF SetAutoReconnect
  <2>2. CASE ~enabled
    BY <1>3, <2>2, QuietRefines, QueueUnchanged DEF SetAutoReconnect
  <2> QED BY <2>1, <2>2
<1>4. ASSUME NEW c \in Events \cup {"Reconnect", "WakeUp"}, Post(c) PROVE ContractStep
  BY <1>0, <1>4, PostRefines DEF Post
<1>5. CASE Shutdown
  BY <1>5, QuietRefines, QueueUnchanged DEF Shutdown
<1>6. CASE DropHandle
  BY <1>6, QuietRefines, QueueUnchanged DEF DropHandle
<1> QED BY <1>1, <1>2, <1>3, <1>4, <1>5, <1>6 DEF Application

\* The reconnect cycle throws frames away.
LEMMA CycleRefines == TypeOK /\ CallInv /\ Cycle => ContractStep
<1> SUFFICES ASSUME TypeOK, CallInv, Cycle PROVE ContractStep
  OBVIOUS
<1>1. UNCHANGED <<callVars, outbox, sentNow, sent>>
  BY DEF Cycle, TopCancelled, TopNoEndpoint, TopPanics, TopBackoff, TopConnect,
         BackoffElapsed, BackoffCommand, ParkedCommand, SleepCancelled, msgVars
<1>2. cmdq' = cmdq \/ (\E c \in Cmds : Recv(c)) \/ cmdq' = <<>>
  BY DEF Cycle, TopCancelled, TopNoEndpoint, TopPanics, TopBackoff, TopConnect,
         BackoffElapsed, BackoffCommand, ParkedCommand, SleepCancelled, Die
<1>3. Queued' \subseteq Queued
  BY <1>2, QuietQueue
<1> QED BY <1>1, <1>3, QuietRefines DEF callVars

\* The connection steps touch neither frames nor results.
LEMMA ConnectingRefines == TypeOK /\ CallInv /\ Connecting => ContractStep
<1> SUFFICES ASSUME TypeOK, CallInv, Connecting PROVE ContractStep
  OBVIOUS
<1>1. UNCHANGED <<cmdq, call, answered, outbox, sentNow, sent>>
  BY DEF Connecting, ConnectOk, ConnectFails, VersionAccepted, VersionRejected,
         VersionFails, NoiseOk, NoiseFails, AuthSkipped, AuthSent, AuthSendFails,
         AuthAccepted, AuthRejected, AuthFails, Enter, FailAttempt, Park, GoOnline,
         callVars, msgVars
<1> QED BY <1>1, QuietRefines, QueueUnchanged

\* The message loop transmits, answers and, at its end, loses what is unanswered.
LEMMA MessagesRefine == TypeOK /\ CallInv /\ Messages => ContractStep
<1> SUFFICES ASSUME TypeOK, CallInv, Messages PROVE ContractStep
  OBVIOUS
<1> USE DEF callVars, loopVars, msgVars, appVars
<1>1. CASE OnlineCancelled \/ SocketEnds \/ CloseDone \/ SendFails
  BY <1>1, QuietRefines, QueueUnchanged
  DEF OnlineCancelled, SocketEnds, CloseDone, SendFails, LeaveMessageLoop
<1>2. ASSUME NEW r \in Requests, RecvReply(r) PROVE ContractStep
  <2>1. Queued' = Queued
    BY <1>2, QueueUnchanged DEF RecvReply
  <2>2. SameResults /\ \A q \in Requests \ {r} : FateOf(q)' = FateOf(q)
    BY <1>2, <2>1 DEF RecvReply, SameResults, ResultOf, FateOf
  <2>3. CASE r \in pending
    <3>1. r \notin answered /\ r \in sentNow /\ r \in answered'
      BY <1>2, <2>3 DEF RecvReply, CallInv, RepliesResolve
    <3>2. FateOf(r) = "sent"
      BY <3>1 DEF FateOf
    <3>3. FateOf(r)' = "answered"
      BY <3>1 DEF FateOf
    <3> QED BY <2>2, <3>2, <3>3, MoveStep
  <2>4. CASE r \notin pending
    <3>1. FateOf(r)' = FateOf(r)
      BY <1>2, <2>1, <2>4 DEF RecvReply, FateOf
    <3> QED BY <2>2, <3>1, StutterStep DEF SameFates
  <2> QED BY <2>3, <2>4
<1>3. CASE RecvPing
  BY <1>3, ConnectionLoopAssumption, PostRefines DEF RecvPing, Cmds, Frames
<1>4. CASE RecvOther \/ HeartbeatPing \/ PingDone \/ HeartbeatDead
           \/ DrainClosed \/ DrainEmpty
  BY <1>4, QuietRefines, QueueUnchanged
  DEF RecvOther, HeartbeatPing, PingDone, HeartbeatDead, DrainClosed, DrainEmpty
<1>5. CASE OnlineCommand
  BY <1>5, ScheduleRefines DEF OnlineCommand
<1>6. CASE DrainCommand
  BY <1>6, ScheduleRefines DEF DrainCommand
<1>7. ASSUME NEW f \in Frames, SendFrame(f) PROVE ContractStep
  <2>1. Queued' = Queued
    BY <1>7, QueueUnchanged DEF SendFrame
  <2>2. SameResults
    BY <1>7 DEF SendFrame, SameResults, ResultOf
  <2>3. \A q \in Requests \ {f} : FateOf(q)' = FateOf(q)
    BY <1>7, <2>1 DEF SendFrame, FateOf
  <2>4. CASE f \in Requests \ answered
    <3>1. f \notin sentNow
      BY <1>7 DEF SendFrame, CallInv, SentOnce, RepliesResolve
    <3>2. f \notin answered /\ f \in outbox /\ f \notin answered' /\ f \in sentNow'
      BY <1>7, <2>4 DEF SendFrame
    <3>3. FateOf(f) = "queued"
      BY <3>1, <3>2 DEF FateOf
    <3>4. FateOf(f)' = "sent"
      BY <3>2 DEF FateOf
    <3> QED BY <2>2, <2>3, <2>4, <3>3, <3>4, MoveStep
  <2>5. CASE f \in answered
    BY <1>7, <2>2, <2>3, <2>5, StutterStep DEF SendFrame, SameFates, FateOf
  <2>6. CASE f \notin Requests
    BY <2>2, <2>3, <2>6, StutterStep DEF SameFates
  <2> QED BY <2>4, <2>5, <2>6
<1> QED
  BY <1>1, <1>2, <1>3, <1>4, <1>5, <1>6, <1>7 DEF Messages

-----------------------------------------------------------------------------

\* No call has been made: the contract's initial state.
LEMMA InitRefines == Init => Contract!Init
<1> SUFFICES ASSUME Init PROVE Contract!Init
  OBVIOUS
<1>1. cmdq = <<>> /\ Queued = {}
  BY DEF Init, Queued
<1>2. \A r \in Requests : ResultOf(r) = "none"
  BY DEF Init, ResultOf
<1>3. \A r \in Requests : FateOf(r) = "new"
  BY <1>1 DEF Init, FateOf
<1> QED BY <1>2, <1>3 DEF Contract!Init

\* Every step of the client is a step of the contract, or none.
LEMMA StepRefines == TypeOK /\ CallInv /\ [Next]_vars => ContractStep
<1> SUFFICES ASSUME TypeOK, CallInv, [Next]_vars PROVE ContractStep
  OBVIOUS
<1>1. CASE UNCHANGED vars
  BY <1>1, QuietRefines, QueueUnchanged DEF vars, callVars, msgVars
<1> QED
  BY <1>1, ApplicationRefines, RequestRefines, CycleRefines, ConnectingRefines,
     MessagesRefine DEF Next

\* WsClient::request keeps its contract, whatever the reconnect cycle, the
\* scheduler and the pending map do: for any number of requests, events and
\* endpoints, any channel capacity and any backoff strategy.
THEOREM ContractImplemented == Spec => ImplementsContract
BY TypeCorrect, CallInvHolds, InitRefines, StepRefines, PTL
DEF Spec, ImplementsContract, Contract!Spec, ContractStep

=============================================================================
