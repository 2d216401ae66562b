-------------------------- MODULE RequestContract --------------------------
(***************************************************************************)
(* What WsClient::request promises, without connections or queues.  The    *)
(* frame of a call is transmitted at most once, and a frame that was       *)
(* thrown away or whose connection is gone is never transmitted or         *)
(* answered again; Ok is the reply to the frame; a result is final.        *)
(***************************************************************************)
CONSTANT Requests

VARIABLES
    result,     \* what each call has returned: "none" | "open" | "ok" | "failed"
    fate        \* of its frame: "new" | "queued" | "sent" | "answered" | "lost"

vars == <<result, fate>>

TypeOK ==
    /\ result \in [Requests -> {"none", "open", "ok", "failed"}]
    /\ fate \in [Requests -> {"new", "queued", "sent", "answered", "lost"}]

Init ==
    /\ result = [r \in Requests |-> "none"]
    /\ fate = [r \in Requests |-> "new"]

Open(r) ==
    /\ result[r] = "none"
    /\ result' = [result EXCEPT ![r] = "open"]
    /\ UNCHANGED fate

Move(r, from, to) ==
    /\ fate[r] = from
    /\ fate' = [fate EXCEPT ![r] = to]
    /\ UNCHANGED result

Submit(r)   == result[r] = "open" /\ Move(r, "new", "queued")
Transmit(r) == Move(r, "queued", "sent")
Answer(r)   == Move(r, "sent", "answered")

\* Frames still queued, or whose connection goes away unanswered.
Lose(S) ==
    /\ \A r \in S : fate[r] \in {"queued", "sent"}
    /\ fate' = [r \in Requests |-> IF r \in S THEN "lost" ELSE fate[r]]
    /\ UNCHANGED result

ReturnOk(r) ==
    /\ result[r] = "open" /\ fate[r] = "answered"
    /\ result' = [result EXCEPT ![r] = "ok"]
    /\ UNCHANGED fate

\* A timeout, a channel error, or a caller that gave up; a frame that was not
\* submitted by then never is.
ReturnFailed(r) ==
    /\ result[r] = "open"
    /\ result' = [result EXCEPT ![r] = "failed"]
    /\ fate' = [fate EXCEPT ![r] = IF @ = "new" THEN "lost" ELSE @]

Next ==
    \/ \E r \in Requests :
        \/ Open(r) \/ Submit(r) \/ Transmit(r) \/ Answer(r)
        \/ ReturnOk(r) \/ ReturnFailed(r)
    \/ \E S \in SUBSET Requests : Lose(S)

Spec == Init /\ [][Next]_vars

=============================================================================
