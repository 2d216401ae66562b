------------------------------- MODULE HttpSse -------------------------------
(***************************************************************************)
(* The HTTP fallback: HttpClient (src/http/client.rs, transport.rs) with   *)
(* its event subscriptions, and the emitters of a server                   *)
(* (src/http/sse.rs) that keeps them in a list and broadcasts to it.       *)
(*                                                                         *)
(* A subscription is a task that runs sse_loop: it connects, reads the     *)
(* stream until that ends or fails, pauses and connects again, until its   *)
(* token is cancelled: the subscription's own one if it was made with      *)
(* subscribe_sse, the client's if it was made with on_event.               *)
(***************************************************************************)
EXTENDS SseParser, FiniteSets

CONSTANTS
    Subs,       \* event subscriptions
    Calls,      \* concurrent callers of request, post, get, delete
    Endpoints,  \* URLs the application sets
    ServerUrl,  \* the one that has a server
    NoUrl,      \* no endpoint
    Events,     \* events the server broadcasts
    MaxCasts,   \* bound: broadcasts
    MaxConns,   \* bound: connections of a subscription that an end still knows
    MaxPosts    \* bound: events being posted

ASSUME HttpSseAssumption ==
    /\ ServerUrl \in Endpoints /\ NoUrl \notin Endpoints
    /\ \A ev \in Events : IsEvent(ev)
    /\ MaxCasts \in Nat /\ MaxConns \in Nat /\ MaxPosts \in Nat

VARIABLES
    base_url,   \* the endpoint
    cancel,     \* the client's token is cancelled
    dropped,    \* HttpClient is dropped
    calls,      \* the callers that await an answer
    posts,      \* send_event tasks that run
    url,        \* the URL each subscription resolved when it was made
    phase,      \* where its loop is
    token,      \* the token its loop watches: the client's, or one of its own,
                \* which goes with the SseSubscription
    parser,     \* the locals of connect_sse
    chan,       \* its connections that an end still knows
    casts       \* history: the broadcasts

client == <<base_url, cancel, dropped, calls, posts>>
loops  == <<url, phase, token, parser>>
vars   == <<base_url, cancel, dropped, calls, posts, url, phase, token, parser, chan, casts>>

\* A connection: the client's end, the receiver and the emitter of sse_pair,
\* what is on the way, and as history the events accepted and handled and the
\* number of broadcasts before it was listed.
NewChannel == [end |-> "opening", alive |-> TRUE, listed |-> TRUE, wire |-> <<>>,
               sent |-> <<>>, got |-> <<>>, joined |-> Len(casts)]

Channels == [end : {"opening", "open", "gone"}, alive : BOOLEAN, listed : BOOLEAN,
             wire : Seq(Pieces), sent : Seq(Events), got : Seq(ReadEvents),
             joined : 0..MaxCasts]

TypeOK ==
    /\ base_url \in Endpoints \cup {NoUrl}
    /\ cancel \in BOOLEAN /\ dropped \in BOOLEAN
    /\ calls \subseteq Calls
    /\ posts \in 0..MaxPosts
    /\ url \in [Subs -> Endpoints \cup {NoUrl}]
    /\ phase \in [Subs -> {"none", "connecting", "streaming", "pause", "ended"}]
    /\ token \in [Subs -> {"client", "held", "dropped"}]
    /\ parser \in [Subs -> Parsers] /\ \A s \in Subs : parser[s].out = <<>>
    /\ chan \in [Subs -> SUBSET Channels]
    /\ casts \in Seq(Events) /\ Len(casts) <= MaxCasts

\* The client has one connection at most, and only while it asks or reads.
OneEnd ==
    \A s \in Subs :
        /\ phase[s] \notin {"none", "ended"} => url[s] \in Endpoints
        /\ \A c, d \in chan[s] : c.end # "gone" /\ d.end # "gone" => c = d
        /\ \A ch \in chan[s] :
            /\ ch.end = "open" => phase[s] = "streaming"
            /\ ch.end = "opening" => phase[s] = "connecting"
        /\ phase[s] = "streaming" => \E ch \in chan[s] : ch.end = "open"

Init ==
    /\ base_url \in Endpoints \cup {NoUrl}
    /\ cancel = FALSE /\ dropped = FALSE
    /\ calls = {} /\ posts = 0
    /\ url = [s \in Subs |-> NoUrl]
    /\ phase = [s \in Subs |-> "none"]
    /\ token = [s \in Subs |-> "client"]
    /\ parser = [s \in Subs |-> Fresh]
    /\ chan = [s \in Subs |-> {}]
    /\ casts = <<>>

-----------------------------------------------------------------------------
(* The client's operations. *)

SetEndpoint(u) ==
    /\ ~dropped /\ base_url' = u
    /\ UNCHANGED <<cancel, dropped, calls, posts, loops, chan, casts>>

ClearEndpoint == SetEndpoint(NoUrl)

\* request, post, get and delete; without an endpoint they fail at once.
Call(c) ==
    /\ ~dropped /\ base_url # NoUrl /\ c \notin calls
    /\ calls' = calls \cup {c}
    /\ UNCHANGED <<base_url, cancel, dropped, posts, loops, chan, casts>>

\* The call returns: no answer in request_timeout or a status that is no success
\* (HttpError), a body that is none (DecodeError), or the answer.  No endpoint
\* change, and no shutdown, touches it.
Answer(c) ==
    /\ c \in calls /\ calls' = calls \ {c}
    /\ UNCHANGED <<base_url, cancel, dropped, posts, loops, chan, casts>>

\* Each event is posted by a task of its own, with the endpoint of now.
SendEvent ==
    /\ ~dropped /\ base_url # NoUrl /\ posts < MaxPosts
    /\ posts' = posts + 1
    /\ UNCHANGED <<base_url, cancel, dropped, calls, loops, chan, casts>>

\* The post is over, well or not; shutdown does not stop it.
Posted ==
    /\ posts > 0 /\ posts' = posts - 1
    /\ UNCHANGED <<base_url, cancel, dropped, calls, loops, chan, casts>>

Shutdown ==
    /\ ~dropped /\ ~cancel /\ cancel' = TRUE
    /\ UNCHANGED <<base_url, dropped, calls, posts, loops, chan, casts>>

\* Nothing borrows the client any more.  Its tasks are aborted with their
\* JoinSet, which Posted and Stop stand for.
DropClient ==
    /\ ~dropped /\ calls = {}
    /\ dropped' = TRUE /\ cancel' = TRUE
    /\ UNCHANGED <<base_url, calls, posts, loops, chan, casts>>

\* subscribe_sse ("held") and on_event ("client").  Without an endpoint the one
\* fails and the other drops the handler without a word.
Subscribe(s, t) ==
    /\ ~dropped /\ phase[s] = "none" /\ base_url # NoUrl
    /\ url' = [url EXCEPT ![s] = base_url]
    /\ phase' = [phase EXCEPT ![s] = "connecting"]
    /\ token' = [token EXCEPT ![s] = t]
    /\ UNCHANGED <<client, parser, chan, casts>>

\* The application drops its SseSubscription.
Unsubscribe(s) ==
    /\ token[s] = "held" /\ token' = [token EXCEPT ![s] = "dropped"]
    /\ UNCHANGED <<client, url, phase, parser, chan, casts>>

-----------------------------------------------------------------------------
(* sse_loop *)

Running(s) == phase[s] \in {"connecting", "streaming", "pause"}

\* Mutant: a shared loop has a token of its own that nobody cancels.
UnwantedOwn(s) == token[s] = "dropped"

Unwanted(s) == token[s] = "dropped" \/ (token[s] = "client" /\ cancel)
Cancelled(s) == Running(s) /\ Unwanted(s)

\* A connection that both ends have left is forgotten.  (Two that agree in
\* everything count as one: nothing that happens to one depends on the other.)
Known(chs) == {ch \in chs : ch.end # "gone" \/ ch.listed}
Becomes(s, ch, new) ==
    chan' = [chan EXCEPT ![s] = Known((@ \ {ch}) \cup {new})]

\* Mutant: the response outlives the attempt.
HangupLater(s) ==
    chan' = [chan EXCEPT ![s] = Known({[ch EXCEPT !.wire = <<>>, !.got = <<>>] : ch \in @})]

\* The response is dropped: what is under way is lost.
Hangup(s) ==
    chan' = [chan EXCEPT ![s] = Known(
                {[ch EXCEPT !.end = "gone", !.wire = <<>>, !.got = <<>>] : ch \in @})]

\* The token is cancelled (or the task aborted).
Stop(s) ==
    /\ Cancelled(s)
    /\ phase' = [phase EXCEPT ![s] = "ended"]
    /\ parser' = [parser EXCEPT ![s] = Fresh]
    /\ Hangup(s)
    /\ UNCHANGED <<client, url, token, casts>>

\* Mutant: an error ends the subscription.
LeaveForGood(s) ==
    /\ phase' = [phase EXCEPT ![s] = "ended"]
    /\ parser' = [parser EXCEPT ![s] = Fresh]
    /\ Hangup(s)
    /\ UNCHANGED <<client, url, token, casts>>

\* connect_sse returns: a pause follows, unless the token is cancelled.
Leave(s) ==
    /\ phase' = [phase EXCEPT ![s] = IF Cancelled(s) THEN "ended" ELSE "pause"]
    /\ parser' = [parser EXCEPT ![s] = Fresh]
    /\ Hangup(s)
    /\ UNCHANGED <<client, url, token, casts>>

\* The connection is refused, the status is no success, or request_timeout ends.
ConnectFails(s) == phase[s] = "connecting" /\ Leave(s)

\* The response of a server that accepted is here.
Open(s) ==
    /\ phase[s] = "connecting"
    /\ phase' = [phase EXCEPT ![s] = "streaming"]
    /\ \E ch \in chan[s] :
        ch.end = "opening" /\ Becomes(s, ch, [ch EXCEPT !.end = "open"])
    /\ UNCHANGED <<client, url, token, parser, casts>>

\* A chunk of any length; a poll may read one after the token is cancelled.
Chunk(s) ==
    /\ phase[s] = "streaming"
    /\ \E ch \in chan[s] : \E k \in 1..Len(ch.wire) :
        LET p == TakeChunk(parser[s], SubSeq(ch.wire, 1, k)) IN
        /\ ch.end = "open"
        /\ parser' = [parser EXCEPT ![s] = [p EXCEPT !.out = <<>>]]
        /\ Becomes(s, ch, [ch EXCEPT !.wire = SubSeq(@, k + 1, Len(@)),
                                     !.got = @ \o p.out])
    /\ UNCHANGED <<client, url, phase, token, casts>>

\* The emitter is dropped and all it sent is read.
StreamEnds(s) ==
    /\ phase[s] = "streaming"
    /\ \E ch \in chan[s] :
        ch.end = "open" /\ ch.alive /\ ~ch.listed /\ ch.wire = <<>>
    /\ Leave(s)

\* The connection breaks, or request_timeout, which counts the body too, ends.
StreamFails(s) == phase[s] = "streaming" /\ Leave(s)

\* Two seconds later.
Retry(s) ==
    /\ phase[s] = "pause"
    /\ phase' = [phase EXCEPT ![s] = "connecting"]
    /\ UNCHANGED <<client, url, token, parser, chan, casts>>

-----------------------------------------------------------------------------
(* The server. *)

\* A handler makes the pair, puts the emitter on its list and answers.
Accept(s) ==
    /\ phase[s] = "connecting" /\ url[s] = ServerUrl
    /\ \A ch \in chan[s] : ch.end = "gone"
    /\ Cardinality(chan[s]) < MaxConns
    /\ chan' = [chan EXCEPT ![s] = @ \cup {NewChannel}]
    /\ UNCHANGED <<client, loops, casts>>

\* SseEmitter::send: what is accepted for a client that is gone goes nowhere.
Send(ch, ev) ==
    [ch EXCEPT !.sent = Append(@, ev),
               !.wire = IF ch.end = "gone" THEN @ ELSE @ \o Encode(ev)]

\* Mutant: a dead emitter stays on the list.
PushKeeping(ch, ev) == IF ch.listed /\ ch.alive THEN Send(ch, ev) ELSE ch

\* One step of retain: a dead emitter leaves the list.
Push(ch, ev) ==
    IF ~ch.listed THEN ch
    ELSE IF ch.alive THEN Send(ch, ev) ELSE [ch EXCEPT !.listed = FALSE]

\* broadcast_sse_json.
Broadcast(ev) ==
    /\ Len(casts) < MaxCasts
    /\ casts' = Append(casts, ev)
    /\ chan' = [s \in Subs |-> Known({Push(ch, ev) : ch \in chan[s]})]
    /\ UNCHANGED <<client, loops>>

\* The server drops an emitter.
DropEmitter(s) ==
    /\ \E ch \in chan[s] :
        ch.listed /\ Becomes(s, ch, [ch EXCEPT !.listed = FALSE])
    /\ UNCHANGED <<client, loops, casts>>

\* The keep-alive of an idle stream.
KeepAlive(s) ==
    /\ phase[s] = "streaming"
    /\ \E ch \in chan[s] :
        /\ ch.end = "open" /\ ch.alive /\ ch.listed /\ ch.wire = <<>>
        /\ Becomes(s, ch, [ch EXCEPT !.wire = KeepAliveText])
    /\ UNCHANGED <<client, loops, casts>>

\* The server sees the connection's end, its own or the client's: the response
\* is dropped, and the receiver with it.
ReceiverGone(s) ==
    /\ \E ch \in chan[s] :
        ch.alive /\ Becomes(s, ch, [ch EXCEPT !.alive = FALSE])
    /\ UNCHANGED <<client, loops, casts>>

Next ==
    \/ \E u \in Endpoints : SetEndpoint(u)
    \/ ClearEndpoint \/ SendEvent \/ Posted \/ Shutdown \/ DropClient
    \/ \E c \in Calls : Call(c) \/ Answer(c)
    \/ \E s \in Subs :
        \/ Subscribe(s, "held") \/ Subscribe(s, "client") \/ Unsubscribe(s)
        \/ Stop(s) \/ ConnectFails(s) \/ Open(s) \/ Chunk(s) \/ StreamEnds(s)
        \/ StreamFails(s) \/ Retry(s)
        \/ Accept(s) \/ DropEmitter(s) \/ KeepAlive(s) \/ ReceiverGone(s)
    \/ \E ev \in Events : Broadcast(ev)

Spec == Init /\ [][Next]_vars

\* A task that can run runs, and request_timeout ends every connection attempt
\* and every stream.  Nothing is asked of the server or the application.
FairSpec ==
    /\ Spec
    /\ \A s \in Subs : /\ WF_vars(Stop(s)) /\ WF_vars(ConnectFails(s))
                       /\ WF_vars(StreamFails(s)) /\ WF_vars(Retry(s))

-----------------------------------------------------------------------------
(***************************************************************************)
(* Properties.                                                             *)
(***************************************************************************)

\* Wherever the chunks are cut, and whatever a subscription read before: the
\* handler gets the events of a connection whole, in order and none twice.
\* (Only letters of several bytes can be damaged: each chunk is decoded alone.)
WholeEvents ==
    \A s \in Subs : \A ch \in chan[s] :
        /\ Len(ch.got) <= Len(ch.sent)
        /\ \A i \in 1..Len(ch.got) : SameEvent(ch.sent[i], ch.got[i])

\* Who is on the list missed nothing: an emitter there accepted every broadcast
\* since it was added, so no dead one outlives a broadcast.
ListedMissNothing ==
    \A s \in Subs : \A ch \in chan[s] :
        ch.listed => ch.sent = SubSeq(casts, ch.joined + 1, Len(casts))

\* What is on the way completes what was sent: read to its end, it leaves the
\* parser between two events, with every event accepted handed over.
Reading ==
    \A s \in Subs :
        /\ phase[s] # "streaming" => parser[s] = Fresh
        /\ \A ch \in chan[s] :
            LET p == TakeText([parser[s] EXCEPT !.out = ch.got], ch.wire) IN
            /\ ch.end # "open" => ch.got = <<>>
            /\ ch.end = "gone" => ch.wire = <<>>
            /\ ch.end # "gone" => AtRest(p) /\ SameEvents(ch.sent, p.out)

\* The inductive invariant.
IInv ==
    /\ TypeOK /\ OneEnd /\ ListedMissNothing /\ Reading
    /\ \A s \in Subs : \A ch \in chan[s] : ch.joined <= Len(casts)

Wanted(s) == token[s] = "held" \/ (token[s] = "client" /\ ~cancel)

\* Dropping the SseSubscription, or shutting the client down, ends the loop,
\* whatever it awaits.
CancelledEnds == \A s \in Subs : Running(s) /\ ~Wanted(s) ~> phase[s] = "ended"

\* "The reconnection loop runs until the SseSubscription is dropped": no refusal,
\* failed stream or silent server keeps a wanted subscription from asking again,
\* and no attempt to connect hangs.
Resubscribes ==
    \A s \in Subs :
        /\ Running(s) ~> phase[s] = "connecting" \/ ~Wanted(s)
        /\ phase[s] = "connecting" ~> phase[s] # "connecting"

=============================================================================
