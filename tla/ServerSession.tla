---------------------------- MODULE ServerSession ----------------------------
(***************************************************************************)
(* One connection of the server: the task run_server_session               *)
(* (src/ws/server/session.rs) and the ServerSessionHandle clones that the  *)
(* application holds (src/ws/server/handle.rs), after accept_ws_session.   *)
(*                                                                         *)
(* The k-th frame that respond or push_event accepts is the number k.      *)
(* Every handle shares one Arc of the command channel's sender; its strong *)
(* count decides which drop posts the Close.                               *)
(***************************************************************************)
EXTENDS Naturals, Sequences

CONSTANTS
    BufferSize,     \* config.buffer_size: commands, and frames in the inbox
    MaxHandles,     \* bound: handles alive at a time
    MaxFrames,      \* bound: frames accepted from the application
    MaxPongs        \* bound: Pongs waiting in the scheduler

ASSUME ServerSessionAssumption ==
    /\ BufferSize \in Nat \ {0}             \* mpsc::channel(0) panics
    /\ MaxHandles \in Nat \ {0}
    /\ MaxFrames \in Nat
    /\ MaxPongs \in Nat

Numbers == 1..MaxFrames
Close   == 0                    \* SessionCmd::Close; SessionCmd::Send is a number
Cmds    == Numbers \cup {Close}

VARIABLES
    strong,         \* Arc::strong_count of the sender
    dropping,       \* handles past Drop::drop, their Arc not yet released
    reader,         \* the application still holds the inbox receiver
    cmdq,           \* the mpsc channel of SessionCmd
    inbox,          \* number of frames in the inbox channel
    accepted,       \* frames that respond / push_event returned Ok for
    pc,             \* await point of run_server_session
    scheduled,      \* frames of the application in the WfqScheduler
    pongs,          \* Pongs in the WfqScheduler
    waitingForPong, \* waiting_for_pong
    online,         \* the watched state is Online: is_alive()
    peer,           \* the other end is still there
    sent            \* history: frames transmitted

handleVars == <<strong, dropping, accepted>>
taskVars   == <<pc, scheduled, pongs, waitingForPong, online>>
vars       == <<handleVars, reader, cmdq, inbox, taskVars, peer, sent>>

\* The awaits of the loop: select!, inbox_tx.send, and ws.send of either branch.
Loop   == {"Select", "Deliver", "Flush", "Ping"}
Live   == strong - dropping
Queued == {cmdq[i] : i \in 1..Len(cmdq)}

TypeOK ==
    /\ strong \in 0..MaxHandles
    /\ dropping \in 0..strong
    /\ reader \in BOOLEAN
    /\ cmdq \in Seq(Cmds) /\ Len(cmdq) <= BufferSize
    /\ inbox \in 0..BufferSize
    /\ accepted \in 0..MaxFrames
    /\ pc \in Loop \cup {"Closing", "Done"}
    /\ scheduled \subseteq Numbers
    /\ pongs \in 0..MaxPongs
    /\ waitingForPong \in BOOLEAN
    /\ online \in BOOLEAN
    /\ peer \in BOOLEAN
    /\ sent \subseteq Numbers

\* accept_ws_session returns the handle and the inbox, and the task starts.
Init ==
    /\ strong = 1 /\ dropping = 0 /\ reader = TRUE
    /\ cmdq = <<>> /\ inbox = 0 /\ accepted = 0
    /\ pc = "Select" /\ scheduled = {} /\ pongs = 0
    /\ waitingForPong = FALSE /\ online = TRUE
    /\ peer = TRUE /\ sent = {}

-----------------------------------------------------------------------------
(***************************************************************************)
(* The application.                                                        *)
(***************************************************************************)

\* The receiver lives as long as the task, also while it closes the socket.
HasRoom    == pc # "Done" /\ Len(cmdq) < BufferSize

\* Mutant: an unbounded channel.
TrySendUnbounded(c) == cmdq' = Append(cmdq, c)

TrySend(c) == cmdq' = IF HasRoom THEN Append(cmdq, c) ELSE cmdq

\* respond and push_event; without room they return an error and change nothing.
Respond ==
    /\ Live > 0 /\ HasRoom /\ accepted < MaxFrames
    /\ accepted' = accepted + 1
    /\ cmdq' = Append(cmdq, accepted + 1)
    /\ UNCHANGED <<strong, dropping, reader, inbox, taskVars, peer, sent>>

CloseHandle ==
    /\ Live > 0
    /\ TrySend(Close)
    /\ UNCHANGED <<handleVars, reader, inbox, taskVars, peer, sent>>

CloneHandle ==
    /\ Live > 0 /\ strong < MaxHandles
    /\ strong' = strong + 1
    /\ UNCHANGED <<dropping, accepted, reader, cmdq, inbox, taskVars, peer, sent>>

\* Drop::drop looks at the count ...
DropHandle ==
    /\ Live > 0
    /\ dropping' = dropping + 1
    /\ IF strong = 1 THEN TrySend(Close) ELSE UNCHANGED cmdq
    /\ UNCHANGED <<strong, accepted, reader, inbox, taskVars, peer, sent>>

\* ... and the handle's fields are released after it.
ReleaseHandle ==
    /\ dropping > 0
    /\ dropping' = dropping - 1 /\ strong' = strong - 1
    /\ UNCHANGED <<accepted, reader, cmdq, inbox, taskVars, peer, sent>>

ReadInbox ==
    /\ reader /\ inbox > 0
    /\ inbox' = inbox - 1
    /\ UNCHANGED <<handleVars, reader, cmdq, taskVars, peer, sent>>

DropInbox ==
    /\ reader
    /\ reader' = FALSE /\ inbox' = 0
    /\ UNCHANGED <<handleVars, cmdq, taskVars, peer, sent>>

\* The other end vanishes without closing the connection.
PeerVanishes ==
    /\ peer /\ peer' = FALSE
    /\ UNCHANGED <<handleVars, reader, cmdq, inbox, taskVars, sent>>

-----------------------------------------------------------------------------
(***************************************************************************)
(* The task: the select! loop.                                             *)
(***************************************************************************)

\* Every break of the loop: publish Disconnected, then close the socket.
Leave == pc' = "Closing" /\ online' = FALSE

\* The socket ends, fails, or yields no binary message, or one that cannot be
\* decrypted, reassembled or decoded.
SocketEnds ==
    /\ pc = "Select" /\ peer
    /\ Leave
    /\ UNCHANGED <<handleVars, reader, cmdq, inbox, scheduled, pongs,
                   waitingForPong, peer, sent>>

\* A frame for the application goes to the inbox, which may be full.
RecvFrame ==
    /\ pc = "Select" /\ peer
    /\ pc' = "Deliver" /\ waitingForPong' = FALSE
    /\ UNCHANGED <<handleVars, reader, cmdq, inbox, scheduled, pongs, online, peer, sent>>

DeliverDone ==
    /\ pc = "Deliver" /\ reader /\ inbox < BufferSize
    /\ pc' = "Select" /\ inbox' = inbox + 1
    /\ UNCHANGED <<handleVars, reader, cmdq, scheduled, pongs, waitingForPong,
                   online, peer, sent>>

DeliverFails ==
    /\ pc = "Deliver" /\ ~reader
    /\ Leave
    /\ UNCHANGED <<handleVars, reader, cmdq, inbox, scheduled, pongs,
                   waitingForPong, peer, sent>>

\* The Pong is scheduled; nothing here sends it.
RecvPing ==
    /\ pc = "Select" /\ peer /\ pongs < MaxPongs
    /\ pongs' = pongs + 1 /\ waitingForPong' = FALSE
    /\ UNCHANGED <<handleVars, reader, cmdq, inbox, pc, scheduled, online, peer, sent>>

\* A Pong, or a chunk that does not complete a frame.
RecvOther ==
    /\ pc = "Select" /\ peer /\ waitingForPong
    /\ waitingForPong' = FALSE
    /\ UNCHANGED <<handleVars, reader, cmdq, inbox, pc, scheduled, pongs, online, peer, sent>>

\* Mutant: the scheduler is not emptied before the next command.
TakeSendEarly ==
    /\ pc \in {"Select", "Flush"} /\ cmdq # <<>> /\ Head(cmdq) # Close
    /\ cmdq' = Tail(cmdq)
    /\ scheduled' = scheduled \cup {Head(cmdq)}
    /\ pc' = "Flush"
    /\ UNCHANGED <<handleVars, reader, inbox, pongs, waitingForPong, online, peer, sent>>

TakeSend ==
    /\ pc = "Select" /\ cmdq # <<>> /\ Head(cmdq) # Close
    /\ cmdq' = Tail(cmdq)
    /\ scheduled' = scheduled \cup {Head(cmdq)}
    /\ pc' = "Flush"
    /\ UNCHANGED <<handleVars, reader, inbox, pongs, waitingForPong, online, peer, sent>>

\* Mutant: Close is taken out of turn.
TakeCloseAtOnce ==
    /\ pc = "Select" /\ Close \in Queued
    /\ cmdq' = SelectSeq(cmdq, LAMBDA c : c # Close)
    /\ Leave
    /\ UNCHANGED <<handleVars, reader, inbox, scheduled, pongs, waitingForPong, peer, sent>>

\* Mutant: the break leaves only an inner loop.
TakeCloseGoesOn ==
    /\ pc = "Select" /\ cmdq # <<>> /\ Head(cmdq) = Close
    /\ cmdq' = Tail(cmdq)
    /\ UNCHANGED <<handleVars, reader, inbox, taskVars, peer, sent>>

TakeClose ==
    /\ pc = "Select" /\ cmdq # <<>> /\ Head(cmdq) = Close
    /\ cmdq' = Tail(cmdq)
    /\ Leave
    /\ UNCHANGED <<handleVars, reader, inbox, scheduled, pongs, waitingForPong, peer, sent>>

\* One turn of `while let Some(frame) = scheduler.next()`; the scheduler picks.
FlushFrame(f) ==
    /\ pc = "Flush" /\ f \in scheduled
    /\ scheduled' = scheduled \ {f} /\ sent' = sent \cup {f}
    /\ pc' = IF scheduled' = {} /\ pongs = 0 THEN "Select" ELSE "Flush"
    /\ UNCHANGED <<handleVars, reader, cmdq, inbox, pongs, waitingForPong, online, peer>>

\* Mutant: `if let` for `while let`.
FlushPongOnce ==
    /\ pc = "Flush" /\ pongs > 0
    /\ pongs' = pongs - 1
    /\ pc' = "Select"
    /\ UNCHANGED <<handleVars, reader, cmdq, inbox, scheduled, waitingForPong,
                   online, peer, sent>>

FlushPong ==
    /\ pc = "Flush" /\ pongs > 0
    /\ pongs' = pongs - 1
    /\ pc' = IF scheduled = {} /\ pongs' = 0 THEN "Select" ELSE "Flush"
    /\ UNCHANGED <<handleVars, reader, cmdq, inbox, scheduled, waitingForPong,
                   online, peer, sent>>

\* Mutant: the error is ignored, as the heartbeat does.
FlushFailsIgnored ==
    /\ pc = "Flush"
    /\ pc' = "Select" /\ scheduled' = {}
    /\ UNCHANGED <<handleVars, reader, cmdq, inbox, pongs, waitingForPong,
                   online, peer, sent>>

\* encode, encrypt or ws.send failed; the frame under way is not transmitted.
FlushFails ==
    /\ pc = "Flush"
    /\ Leave
    /\ UNCHANGED <<handleVars, reader, cmdq, inbox, scheduled, pongs,
                   waitingForPong, peer, sent>>

HeartbeatPing ==
    /\ pc = "Select" /\ ~waitingForPong
    /\ pc' = "Ping"
    /\ UNCHANGED <<handleVars, reader, cmdq, inbox, scheduled, pongs,
                   waitingForPong, online, peer, sent>>

\* Mutant: the ping is sent again and again, whether answered or not.
PingForgotten ==
    /\ pc = "Ping"
    /\ pc' = "Select"
    /\ UNCHANGED <<handleVars, reader, cmdq, inbox, scheduled, pongs,
                   waitingForPong, online, peer, sent>>

\* The ping goes straight to the socket; a failure to send it is ignored.
PingDone ==
    /\ pc = "Ping"
    /\ pc' = "Select" /\ waitingForPong' = TRUE
    /\ UNCHANGED <<handleVars, reader, cmdq, inbox, scheduled, pongs, online, peer, sent>>

HeartbeatDead ==
    /\ pc = "Select" /\ waitingForPong
    /\ Leave
    /\ UNCHANGED <<handleVars, reader, cmdq, inbox, scheduled, pongs,
                   waitingForPong, peer, sent>>

\* The task ends; both channels lose this end, and whatever is queued in cmdq.
CloseDone ==
    /\ pc = "Closing"
    /\ pc' = "Done" /\ cmdq' = <<>>
    /\ UNCHANGED <<handleVars, reader, inbox, scheduled, pongs, waitingForPong,
                   online, peer, sent>>

-----------------------------------------------------------------------------

Application ==
    \/ Respond \/ CloseHandle \/ CloneHandle \/ DropHandle \/ ReleaseHandle
    \/ ReadInbox \/ DropInbox

Receive == SocketEnds \/ RecvFrame \/ RecvPing \/ RecvOther \/ DeliverDone \/ DeliverFails

Transmit ==
    \/ TakeSend \/ TakeClose
    \/ (\E f \in Numbers : FlushFrame(f)) \/ FlushPong \/ FlushFails

Heartbeat == HeartbeatPing \/ PingDone \/ HeartbeatDead

Next == Application \/ PeerVanishes \/ Receive \/ Transmit \/ Heartbeat \/ CloseDone

Spec == Init /\ [][Next]_vars

(***************************************************************************)
(* Fairness.  The task is polled, and select! takes a command that stays   *)
(* in the channel although other branches are ready again and again.  A    *)
(* heartbeat deadline fires unless a reception moves it: in any case when  *)
(* the peer is gone, however busy the application keeps the loop.  A Drop  *)
(* that began ends.  Sends on the socket and its close return, with or     *)
(* without an error: an assumption on the network alone.  The last one is  *)
(* on the application: whoever holds the inbox reads it.                   *)
(***************************************************************************)
FairSpec ==
    /\ Spec
    /\ SF_vars(TakeSend) /\ SF_vars(TakeClose)
    /\ WF_vars((\E f \in Numbers : FlushFrame(f)) \/ FlushPong \/ FlushFails)
    /\ WF_vars(DeliverDone) /\ WF_vars(DeliverFails)
    /\ WF_vars(HeartbeatPing) /\ SF_vars(~peer /\ HeartbeatPing)
    /\ WF_vars(HeartbeatDead) /\ SF_vars(~peer /\ HeartbeatDead)
    /\ WF_vars(PingDone) /\ WF_vars(CloseDone)
    /\ WF_vars(ReleaseHandle)
    /\ WF_vars(ReadInbox)

-----------------------------------------------------------------------------
(***************************************************************************)
(* Properties the code has.                                                *)
(***************************************************************************)

\* Frames leave in the order in which respond and push_event accepted them:
\* whatever their priority, since the session empties its scheduler before it
\* takes the next command.
SentInOrder == \A f \in sent : \A g \in 1..f : g \in sent

\* close() is graceful: as long as the session runs, every accepted frame is
\* sent, scheduled or queued, ...
NothingLost == pc \in Loop => 1..accepted \subseteq sent \cup scheduled \cup Queued

\* ... and a Close that is taken finds everything accepted before it sent: what
\* is not sent by then stands behind it in the channel.
CloseIsGraceful ==
    [][TakeClose => 1..accepted \subseteq sent \cup {cmdq[i] : i \in 2..Len(cmdq)}]_vars

\* What makes the above inductive: the channel holds frames in the order of
\* their acceptance, behind those the scheduler or the socket has; and the
\* scheduler holds at most one frame, none while the loop selects.
QueueOrdered ==
    \A i \in 1..Len(cmdq) : \A j \in 1..Len(cmdq) :
        i < j /\ cmdq[i] # Close /\ cmdq[j] # Close => cmdq[i] < cmdq[j]
QueueBehind    == \A f \in sent \cup scheduled : \A g \in Queued \ {Close} : f < g
OneScheduled   ==
    /\ \A f \in scheduled : \A g \in scheduled : f = g
    /\ scheduled # {} => pc \in {"Flush", "Closing", "Done"}
OnlyAccepted   == sent \cup scheduled \cup (Queued \ {Close}) \subseteq 1..accepted

IInv ==
    /\ SentInOrder /\ NothingLost
    /\ QueueOrdered /\ QueueBehind /\ OneScheduled /\ OnlyAccepted

\* A frame that was accepted is transmitted, or the session is over.
AcceptedIsSent ==
    \A f \in Numbers : (accepted >= f) ~> (f \in sent \/ pc \notin Loop)

\* A Close in the channel ends the session.
CloseEnds == (Close \in Queued) ~> (pc = "Done")

\* A peer that vanished is detected by the heartbeat.
DeadPeerDetected == ~peer ~> (pc = "Done")

-----------------------------------------------------------------------------
(***************************************************************************)
(* Statements of the docs that the code does not keep.                     *)
(***************************************************************************)

\* RULES.md, rule 2: background tasks end when the session handle is destroyed.
LastDropEnds == (strong = 0) ~> (pc = "Done")

=============================================================================
