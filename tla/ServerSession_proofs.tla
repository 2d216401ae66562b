------------------------- MODULE ServerSession_proofs -------------------------
(***************************************************************************)
(* A server session transmits what the application hands it in order and   *)
(* without gaps, and its Close is graceful: for every capacity of the      *)
(* channels, any number of handles and frames.                             *)
(***************************************************************************)
EXTENDS ServerSession, TLAPS

-----------------------------------------------------------------------------
(***************************************************************************)
(* The command channel.                                                    *)
(***************************************************************************)

\* An accepted command goes to the end of the channel.
LEMMA AppendEffect ==
    ASSUME TypeOK, NEW c \in Cmds, Len(cmdq) < BufferSize, cmdq' = Append(cmdq, c)
    PROVE  /\ cmdq' \in Seq(Cmds) /\ Len(cmdq') <= BufferSize
           /\ Len(cmdq') = Len(cmdq) + 1
           /\ \A i \in 1..Len(cmdq) : cmdq'[i] = cmdq[i]
           /\ cmdq'[Len(cmdq) + 1] = c
           /\ Queued' = Queued \cup {c}
<1>1. cmdq \in Seq(Cmds) /\ Len(cmdq) \in Nat /\ BufferSize \in Nat
  BY ServerSessionAssumption DEF TypeOK
<1>2. /\ cmdq' \in Seq(Cmds) /\ Len(cmdq') = Len(cmdq) + 1
      /\ \A i \in 1..Len(cmdq) : cmdq'[i] = cmdq[i]
      /\ cmdq'[Len(cmdq) + 1] = c
  BY <1>1
<1>3. Queued' = Queued \cup {c}
  BY <1>1, <1>2 DEF Queued
<1> QED BY <1>1, <1>2, <1>3

\* try_send of a Close leaves the frames in the channel as they are.
LEMMA TrySendCloseEffect ==
    ASSUME TypeOK, TrySend(Close)
    PROVE  /\ cmdq' \in Seq(Cmds) /\ Len(cmdq') <= BufferSize
           /\ Queued \subseteq Queued' /\ Queued' \subseteq Queued \cup {Close}
           /\ QueueOrdered => QueueOrdered'
<1>1. CASE HasRoom
  <2>1. Close \in Cmds /\ cmdq' = Append(cmdq, Close) /\ Len(cmdq) < BufferSize
    BY <1>1 DEF TrySend, HasRoom, Cmds
  <2>2. /\ cmdq' \in Seq(Cmds) /\ Len(cmdq') <= BufferSize
        /\ Len(cmdq') = Len(cmdq) + 1
        /\ \A i \in 1..Len(cmdq) : cmdq'[i] = cmdq[i]
        /\ cmdq'[Len(cmdq) + 1] = Close
        /\ Queued' = Queued \cup {Close}
    BY <2>1, AppendEffect
  <2>3. Len(cmdq) \in Nat
    BY DEF TypeOK
  <2>4. QueueOrdered => QueueOrdered'
    BY <2>2, <2>3 DEF QueueOrdered
  <2> QED BY <2>2, <2>4
<1>2. CASE ~HasRoom
  <2>1. cmdq' = cmdq
    BY <1>2 DEF TrySend
  <2> QED BY <2>1 DEF TypeOK, Queued, QueueOrdered
<1> QED BY <1>1, <1>2

\* Taking the head of the channel keeps the rest and its order.
LEMMA TakeEffect ==
    ASSUME TypeOK, cmdq # <<>>, cmdq' = Tail(cmdq)
    PROVE  /\ cmdq' \in Seq(Cmds) /\ Len(cmdq') <= BufferSize
           /\ Head(cmdq) \in Cmds /\ Head(cmdq) = cmdq[1]
           /\ Len(cmdq) \in Nat \ {0} /\ Len(cmdq') = Len(cmdq) - 1
           /\ \A i \in 1..Len(cmdq') : cmdq'[i] = cmdq[i + 1]
           /\ Queued' = {cmdq[i] : i \in 2..Len(cmdq)}
           /\ Queued = Queued' \cup {Head(cmdq)}
           /\ QueueOrdered => QueueOrdered'
<1>1. cmdq \in Seq(Cmds) /\ Len(cmdq) \in Nat \ {0} /\ BufferSize \in Nat
  BY ServerSessionAssumption DEF TypeOK
<1>2. /\ cmdq' \in Seq(Cmds) /\ Len(cmdq') = Len(cmdq) - 1
      /\ Head(cmdq) = cmdq[1] /\ cmdq[1] \in Cmds
      /\ \A i \in 1..Len(cmdq') : cmdq'[i] = cmdq[i + 1]
  BY <1>1
<1>3. Len(cmdq') <= BufferSize
  BY <1>1, <1>2 DEF TypeOK
<1>4. Queued' = {cmdq[i] : i \in 2..Len(cmdq)}
  <2>1. ASSUME NEW i \in 1..Len(cmdq') PROVE \E j \in 2..Len(cmdq) : cmdq'[i] = cmdq[j]
    <3>1. i + 1 \in 2..Len(cmdq)
      BY <1>1, <1>2
    <3> QED BY <1>2, <3>1
  <2>2. ASSUME NEW j \in 2..Len(cmdq) PROVE \E i \in 1..Len(cmdq') : cmdq[j] = cmdq'[i]
    <3>1. j - 1 \in 1..Len(cmdq') /\ (j - 1) + 1 = j
      BY <1>1, <1>2
    <3> QED BY <1>2, <3>1
  <2> QED BY <2>1, <2>2 DEF Queued
<1>5. Queued = Queued' \cup {Head(cmdq)}
  <2>1. 1..Len(cmdq) = {1} \cup 2..Len(cmdq)
    BY <1>1
  <2> QED BY <1>2, <1>4, <2>1 DEF Queued
<1>6. QueueOrdered => QueueOrdered'
  <2> SUFFICES ASSUME QueueOrdered, NEW i \in 1..Len(cmdq'), NEW j \in 1..Len(cmdq'),
                      i < j, cmdq'[i] # Close, cmdq'[j] # Close
               PROVE  cmdq'[i] < cmdq'[j]
    BY DEF QueueOrdered, Close
  <2>1. i + 1 \in 1..Len(cmdq) /\ j + 1 \in 1..Len(cmdq) /\ i + 1 < j + 1
    BY <1>1, <1>2
  <2> QED BY <1>2, <2>1 DEF QueueOrdered
<1> QED BY <1>1, <1>2, <1>3, <1>4, <1>5, <1>6

-----------------------------------------------------------------------------
(***************************************************************************)
(* Types.                                                                  *)
(***************************************************************************)

LEMMA InitTypeOK == Init => TypeOK
<1> SUFFICES ASSUME Init PROVE TypeOK
  OBVIOUS
<1>1. cmdq \in Seq(Cmds) /\ Len(cmdq) <= BufferSize
  BY ServerSessionAssumption DEF Init
<1>2. /\ strong \in 0..MaxHandles /\ dropping \in 0..strong
      /\ inbox \in 0..BufferSize /\ accepted \in 0..MaxFrames /\ pongs \in 0..MaxPongs
  BY ServerSessionAssumption DEF Init
<1>3. reader \in BOOLEAN /\ waitingForPong \in BOOLEAN /\ online \in BOOLEAN /\ peer \in BOOLEAN
  BY DEF Init
<1> QED BY <1>1, <1>2, <1>3 DEF Init, TypeOK, Loop

LEMMA NextTypeOK ==
    ASSUME TypeOK, [Next]_vars
    PROVE  TypeOK'
<1> USE ServerSessionAssumption
<1>1. CASE Application
  <2>1. CASE Respond
    <3>1. accepted + 1 \in Cmds /\ accepted' \in 0..MaxFrames
      BY <2>1 DEF TypeOK, Respond, Cmds, Numbers
    <3>2. cmdq' \in Seq(Cmds) /\ Len(cmdq') <= BufferSize
      BY <2>1, <3>1, AppendEffect DEF Respond, HasRoom
    <3> QED BY <2>1, <3>1, <3>2 DEF TypeOK, Respond, taskVars
  <2>2. CASE CloseHandle
    BY <2>2, TrySendCloseEffect DEF TypeOK, CloseHandle, handleVars, taskVars
  <2>3. CASE CloneHandle
    BY <2>3 DEF TypeOK, CloneHandle, taskVars
  <2>4. CASE DropHandle
    <3>1. cmdq' \in Seq(Cmds) /\ Len(cmdq') <= BufferSize
      BY <2>4, TrySendCloseEffect DEF TypeOK, DropHandle
    <3> QED BY <2>4, <3>1 DEF TypeOK, DropHandle, Live, taskVars
  <2>5. CASE ReleaseHandle
    BY <2>5 DEF TypeOK, ReleaseHandle, taskVars
  <2>6. CASE ReadInbox
    BY <2>6 DEF TypeOK, ReadInbox, handleVars, taskVars
  <2>7. CASE DropInbox
    <3>1. inbox' \in 0..BufferSize
      BY <2>7 DEF DropInbox
    <3>2. reader' \in BOOLEAN
      BY <2>7 DEF DropInbox
    <3> QED BY <2>7, <3>1, <3>2 DEF TypeOK, DropInbox, handleVars, taskVars
  <2> QED BY <1>1, <2>1, <2>2, <2>3, <2>4, <2>5, <2>6, <2>7 DEF Application
<1>2. CASE PeerVanishes
  BY <1>2 DEF TypeOK, PeerVanishes, handleVars, taskVars
<1>3. CASE Receive
  <2>1. CASE SocketEnds
    BY <2>1 DEF TypeOK, SocketEnds, Leave, handleVars
  <2>2. CASE RecvFrame
    BY <2>2 DEF TypeOK, RecvFrame, handleVars, Loop
  <2>3. CASE RecvPing
    <3>1. pongs' \in 0..MaxPongs
      BY <2>3 DEF TypeOK, RecvPing
    <3> QED BY <2>3, <3>1 DEF TypeOK, RecvPing, handleVars
  <2>4. CASE RecvOther
    BY <2>4 DEF TypeOK, RecvOther, handleVars
  <2>5. CASE DeliverDone
    BY <2>5 DEF TypeOK, DeliverDone, handleVars, Loop
  <2>6. CASE DeliverFails
    BY <2>6 DEF TypeOK, DeliverFails, Leave, handleVars
  <2> QED BY <1>3, <2>1, <2>2, <2>3, <2>4, <2>5, <2>6 DEF Receive
<1>4. CASE Transmit
  <2>1. CASE TakeSend
    <3>1. Head(cmdq) \in Numbers /\ cmdq' \in Seq(Cmds) /\ Len(cmdq') <= BufferSize
      BY <2>1, TakeEffect DEF TakeSend, Cmds
    <3> QED BY <2>1, <3>1 DEF TypeOK, TakeSend, handleVars, Loop
  <2>2. CASE TakeClose
    BY <2>2, TakeEffect DEF TypeOK, TakeClose, Leave, handleVars, Loop
  <2>3. CASE \E f \in Numbers : FlushFrame(f)
    BY <2>3 DEF TypeOK, FlushFrame, handleVars, Loop
  <2>4. CASE FlushPong
    BY <2>4 DEF TypeOK, FlushPong, handleVars, Loop
  <2>5. CASE FlushFails
    BY <2>5 DEF TypeOK, FlushFails, Leave, handleVars, Loop
  <2> QED BY <1>4, <2>1, <2>2, <2>3, <2>4, <2>5 DEF Transmit
<1>5. CASE Heartbeat
  BY <1>5 DEF TypeOK, Heartbeat, HeartbeatPing, PingDone, HeartbeatDead, Leave,
              handleVars, Loop
<1>6. CASE CloseDone
  BY <1>6 DEF TypeOK, CloseDone, handleVars
<1>7. CASE UNCHANGED vars
  BY <1>7 DEF TypeOK, vars, handleVars, taskVars
<1> QED BY <1>1, <1>2, <1>3, <1>4, <1>5, <1>6, <1>7 DEF Next

\* Every variable keeps its type; neither channel exceeds its capacity.
THEOREM TypeCorrect == Spec => []TypeOK
<1>1. Init => TypeOK
  BY InitTypeOK
<1>2. TypeOK /\ [Next]_vars => TypeOK'
  BY NextTypeOK
<1> QED BY <1>1, <1>2, PTL DEF Spec

-----------------------------------------------------------------------------
(***************************************************************************)
(* The order of frames.                                                    *)
(***************************************************************************)

LEMMA InitIInv == Init => IInv
BY ServerSessionAssumption
   DEF Init, IInv, SentInOrder, NothingLost, QueueOrdered, QueueBehind,
       OneScheduled, OnlyAccepted, Queued

\* A step that neither schedules nor transmits keeps the invariant, if it adds
\* no frame to the channel, and loses one only when it leaves the loop.
LEMMA KeepsIInv ==
    ASSUME IInv, accepted' = accepted, scheduled' = scheduled, sent' = sent,
           QueueOrdered', Queued' \ {Close} \subseteq Queued,
           pc' \in Loop => pc \in Loop /\ Queued \ {Close} \subseteq Queued',
           scheduled # {} => pc' \in {"Flush", "Closing", "Done"}
    PROVE  IInv'
<1>1. SentInOrder'
  BY DEF IInv, SentInOrder
<1>2. NothingLost'
  <2> SUFFICES ASSUME pc' \in Loop, NEW f \in 1..accepted
               PROVE  f \in sent \cup scheduled \cup Queued'
    BY DEF NothingLost
  <2>1. f \in sent \cup scheduled \cup Queued
    BY DEF IInv, NothingLost
  <2>2. f # Close
    BY DEF Close
  <2> QED BY <2>1, <2>2
<1>3. QueueBehind'
  BY DEF IInv, QueueBehind
<1>4. OneScheduled'
  BY DEF IInv, OneScheduled
<1>5. OnlyAccepted'
  BY DEF IInv, OnlyAccepted
<1> QED BY <1>1, <1>2, <1>3, <1>4, <1>5 DEF IInv

\* ... in particular one that leaves the channel alone.
LEMMA QuietIInv ==
    ASSUME IInv, accepted' = accepted, scheduled' = scheduled, sent' = sent,
           cmdq' = cmdq, pc' \in Loop => pc \in Loop,
           scheduled # {} => pc' \in {"Flush", "Closing", "Done"}
    PROVE  IInv'
<1>1. Queued' = Queued
  BY DEF Queued
<1>2. QueueOrdered'
  BY DEF IInv, QueueOrdered
<1> QED BY <1>1, <1>2, KeepsIInv

\* An accepted frame is the largest number so far, and goes to the end.
LEMMA RespondIInv ==
    ASSUME TypeOK, IInv, Respond
    PROVE  IInv'
<1> DEFINE new == accepted + 1
<1>1. /\ accepted \in Nat /\ new \in Cmds /\ new # Close /\ Len(cmdq) \in Nat
      /\ 1..new = 1..accepted \cup {new}
  BY ServerSessionAssumption DEF TypeOK, Respond, Cmds, Numbers, Close
<1>2. /\ accepted' = new /\ pc' = pc /\ scheduled' = scheduled /\ sent' = sent
  BY DEF Respond, taskVars
<1>3. /\ Len(cmdq') = Len(cmdq) + 1
      /\ \A i \in 1..Len(cmdq) : cmdq'[i] = cmdq[i]
      /\ cmdq'[Len(cmdq) + 1] = new
      /\ Queued' = Queued \cup {new}
  BY <1>1, AppendEffect DEF Respond, HasRoom
<1>4. \A f \in sent \cup scheduled \cup (Queued \ {Close}) : f \in Nat /\ f < new
  BY <1>1 DEF IInv, OnlyAccepted
<1>5. SentInOrder'
  BY <1>2 DEF IInv, SentInOrder
<1>6. NothingLost'
  BY <1>1, <1>2, <1>3 DEF IInv, NothingLost
<1>7. QueueOrdered'
  <2> SUFFICES ASSUME NEW i \in 1..Len(cmdq'), NEW j \in 1..Len(cmdq'),
                      i < j, cmdq'[i] # Close, cmdq'[j] # Close
               PROVE  cmdq'[i] < cmdq'[j]
    BY DEF QueueOrdered, Close
  <2>1. i \in 1..Len(cmdq) /\ cmdq'[i] = cmdq[i]
    BY <1>1, <1>3
  <2>2. CASE j \in 1..Len(cmdq)
    BY <1>3, <2>1, <2>2 DEF IInv, QueueOrdered
  <2>3. CASE j = Len(cmdq) + 1
    <3>1. cmdq[i] \in Queued \ {Close}
      BY <2>1 DEF Queued
    <3> QED BY <1>3, <1>4, <2>1, <2>3, <3>1
  <2> QED BY <1>1, <1>3, <2>2, <2>3
<1>8. QueueBehind'
  BY <1>2, <1>3, <1>4 DEF IInv, QueueBehind
<1>9. OneScheduled'
  BY <1>2 DEF IInv, OneScheduled
<1>10. OnlyAccepted'
  BY <1>1, <1>2, <1>3 DEF IInv, OnlyAccepted
<1> QED BY <1>5, <1>6, <1>7, <1>8, <1>9, <1>10 DEF IInv

\* A frame is taken when the scheduler is empty, and precedes all in the channel.
LEMMA TakeSendIInv ==
    ASSUME TypeOK, IInv, TakeSend
    PROVE  IInv'
<1> DEFINE f == Head(cmdq)
<1>1. /\ accepted' = accepted /\ sent' = sent /\ scheduled' = scheduled \cup {f}
      /\ pc = "Select" /\ pc' = "Flush" /\ f # Close
  BY DEF TakeSend, handleVars
<1>2. /\ f = cmdq[1] /\ Len(cmdq) \in Nat \ {0}
      /\ Queued' = {cmdq[i] : i \in 2..Len(cmdq)}
      /\ Queued = Queued' \cup {f}
      /\ QueueOrdered'
  BY TakeEffect DEF TakeSend, IInv
<1>3. scheduled = {}
  BY <1>1 DEF IInv, OneScheduled
<1>4. \A g \in Queued' \ {Close} : f < g
  <2> SUFFICES ASSUME NEW i \in 2..Len(cmdq), cmdq[i] # Close
               PROVE  f < cmdq[i]
    BY <1>2
  <2>1. 1 \in 1..Len(cmdq) /\ i \in 1..Len(cmdq) /\ 1 < i
    BY <1>2
  <2> QED BY <1>1, <1>2, <2>1 DEF IInv, QueueOrdered
<1>5. SentInOrder'
  BY <1>1 DEF IInv, SentInOrder
<1>6. NothingLost'
  BY <1>1, <1>2 DEF IInv, NothingLost, Loop
<1>7. QueueBehind'
  BY <1>1, <1>2, <1>3, <1>4 DEF IInv, QueueBehind
<1>8. OneScheduled'
  BY <1>1, <1>3 DEF OneScheduled
<1>9. OnlyAccepted'
  BY <1>1, <1>2, <1>3 DEF IInv, OnlyAccepted
<1> QED BY <1>2, <1>5, <1>6, <1>7, <1>8, <1>9 DEF IInv

\* The frame that is transmitted is the least that was not.
LEMMA FlushFrameIInv ==
    ASSUME TypeOK, IInv, NEW f \in Numbers, FlushFrame(f)
    PROVE  IInv'
<1>1. /\ accepted' = accepted /\ cmdq' = cmdq /\ f \in scheduled
      /\ scheduled' = scheduled \ {f} /\ sent' = sent \cup {f}
      /\ pc = "Flush"
  BY DEF FlushFrame, handleVars
<1>2. scheduled' = {}
  BY <1>1 DEF IInv, OneScheduled
<1>3. Queued' = Queued
  BY <1>1 DEF Queued
<1>4. SentInOrder'
  <2>1. ASSUME NEW g \in 1..f PROVE g \in sent'
    <3>1. f \in 1..accepted /\ g \in 1..accepted /\ g # Close
      BY <1>1 DEF IInv, OnlyAccepted, TypeOK, Close
    <3>2. g \in sent \cup scheduled \cup Queued
      BY <1>1, <3>1 DEF IInv, NothingLost, Loop
    <3>3. g \notin Queued
      BY <1>1, <3>1 DEF IInv, QueueBehind
    <3> QED BY <1>1, <1>2, <3>2, <3>3
  <2>2. ASSUME NEW h \in sent PROVE \A g \in 1..h : g \in sent'
    BY <1>1, <2>2 DEF IInv, SentInOrder
  <2> QED BY <1>1, <2>1, <2>2 DEF SentInOrder
<1>5. NothingLost'
  BY <1>1, <1>3 DEF IInv, NothingLost, Loop
<1>6. QueueOrdered'
  BY <1>1 DEF IInv, QueueOrdered
<1>7. QueueBehind'
  BY <1>1, <1>3 DEF IInv, QueueBehind
<1>8. OneScheduled'
  BY <1>2 DEF OneScheduled
<1>9. OnlyAccepted'
  BY <1>1, <1>3 DEF IInv, OnlyAccepted
<1> QED BY <1>4, <1>5, <1>6, <1>7, <1>8, <1>9 DEF IInv

LEMMA NextIInv ==
    ASSUME TypeOK, IInv, [Next]_vars
    PROVE  IInv'
<1>0. scheduled # {} => pc \in {"Flush", "Closing", "Done"}
  BY DEF IInv, OneScheduled
<1>1. CASE Application
  <2>1. CASE Respond
    BY <2>1, RespondIInv
  <2>2. CASE CloseHandle \/ DropHandle
    <3>1. CASE TrySend(Close)
      <4>1. QueueOrdered' /\ Queued \subseteq Queued' /\ Queued' \subseteq Queued \cup {Close}
        BY <3>1, TrySendCloseEffect DEF IInv
      <4> QED BY <1>0, <2>2, <4>1, KeepsIInv DEF CloseHandle, DropHandle, handleVars, taskVars
    <3>2. CASE UNCHANGED cmdq
      BY <1>0, <2>2, <3>2, QuietIInv DEF CloseHandle, DropHandle, handleVars, taskVars
    <3> QED BY <2>2, <3>1, <3>2 DEF CloseHandle, DropHandle
  <2>3. CASE CloneHandle
    BY <1>0, <2>3, QuietIInv DEF CloneHandle, taskVars
  <2>4. CASE ReleaseHandle
    BY <1>0, <2>4, QuietIInv DEF ReleaseHandle, taskVars
  <2>5. CASE ReadInbox
    BY <1>0, <2>5, QuietIInv DEF ReadInbox, handleVars, taskVars
  <2>6. CASE DropInbox
    BY <1>0, <2>6, QuietIInv DEF DropInbox, handleVars, taskVars
  <2> QED BY <1>1, <2>1, <2>2, <2>3, <2>4, <2>5, <2>6 DEF Application
<1>2. CASE PeerVanishes
  BY <1>0, <1>2, QuietIInv DEF PeerVanishes, handleVars, taskVars
<1>3. CASE Receive
  BY <1>0, <1>3, QuietIInv DEF Receive, SocketEnds, RecvFrame, RecvPing, RecvOther,
     DeliverDone, DeliverFails, Leave, handleVars, Loop
<1>4. CASE Transmit
  <2>1. CASE TakeSend
    BY <2>1, TakeSendIInv
  <2>2. CASE TakeClose
    <3>1. QueueOrdered' /\ Queued' \subseteq Queued
      BY <2>2, TakeEffect DEF TakeClose, IInv
    <3> QED BY <2>2, <3>1, KeepsIInv DEF TakeClose, Leave, handleVars, Loop
  <2>3. CASE \E f \in Numbers : FlushFrame(f)
    BY <2>3, FlushFrameIInv
  <2>4. CASE FlushPong
    BY <2>4, QuietIInv DEF FlushPong, handleVars, Loop
  <2>5. CASE FlushFails
    BY <2>5, QuietIInv DEF FlushFails, Leave, handleVars, Loop
  <2> QED BY <1>4, <2>1, <2>2, <2>3, <2>4, <2>5 DEF Transmit
<1>5. CASE Heartbeat
  BY <1>0, <1>5, QuietIInv DEF Heartbeat, HeartbeatPing, PingDone, HeartbeatDead, Leave,
     handleVars, Loop
<1>6. CASE CloseDone
  <2>1. Queued' = {} /\ QueueOrdered'
    BY <1>6 DEF CloseDone, Queued, QueueOrdered
  <2> QED BY <1>6, <2>1, KeepsIInv DEF CloseDone, handleVars, Loop
<1>7. CASE UNCHANGED vars
  BY <1>0, <1>7, QuietIInv DEF vars, handleVars, taskVars
<1> QED BY <1>1, <1>2, <1>3, <1>4, <1>5, <1>6, <1>7 DEF Next

\* The conjunction is inductive.
THEOREM InvariantHolds == Spec => [](TypeOK /\ IInv)
<1>1. Init => TypeOK /\ IInv
  BY InitTypeOK, InitIInv
<1>2. TypeOK /\ IInv /\ [Next]_vars => TypeOK' /\ IInv'
  BY NextTypeOK, NextIInv
<1> QED BY <1>1, <1>2, PTL DEF Spec

\* The order of frames in the channel, the scheduler and on the wire.
THEOREM IInvHolds == Spec => []IInv
BY InvariantHolds, PTL

\* Frames leave in the order of their acceptance, without a gap (the loop that
\* empties the scheduler after every command).
THEOREM SentInOrderHolds == Spec => []SentInOrder
<1>1. IInv => SentInOrder
  BY DEF IInv
<1> QED BY <1>1, InvariantHolds, PTL

\* While the session runs no accepted frame is lost between the channel, the
\* scheduler and the socket.
THEOREM NothingLostHolds == Spec => []NothingLost
<1>1. IInv => NothingLost
  BY DEF IInv
<1> QED BY <1>1, InvariantHolds, PTL

\* A Close is taken when everything accepted before it was transmitted.
THEOREM CloseIsGracefulHolds == Spec => CloseIsGraceful
<1> DEFINE Behind == {cmdq[i] : i \in 2..Len(cmdq)}
<1>1. TypeOK /\ IInv /\ [Next]_vars => [TakeClose => 1..accepted \subseteq sent \cup Behind]_vars
  <2> SUFFICES ASSUME TypeOK, IInv, TakeClose, NEW f \in 1..accepted
               PROVE  f \in sent \cup Behind
    OBVIOUS
  <2>1. pc \in Loop /\ scheduled = {}
    BY DEF TakeClose, IInv, OneScheduled, Loop
  <2>2. f \in sent \cup Queued
    BY <2>1 DEF IInv, NothingLost
  <2>3. Queued = Behind \cup {Close} /\ f # Close
    BY TakeEffect DEF TakeClose, Close
  <2> QED BY <2>2, <2>3
<1> QED BY <1>1, InvariantHolds, PTL DEF Spec, CloseIsGraceful

=============================================================================
