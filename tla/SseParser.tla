------------------------------ MODULE SseParser ------------------------------
(***************************************************************************)
(* The bytes of an event stream: how the server's emitter writes an event  *)
(* (src/http/sse.rs, through axum) and how connect_sse of                  *)
(* src/http/client.rs reads the stream, chunk by chunk.                    *)
(*                                                                         *)
(* A text is a sequence of pieces that a chunk boundary does not split: a  *)
(* field name, a word, a newline.  A letter of two bytes is two pieces.    *)
(***************************************************************************)
EXTENDS Integers, Sequences, SequencesExt

CONSTANT Pieces                 \* what a text can be made of

Newline == "\n"
Bad     == "?"                  \* U+FFFD, for bytes that are no letter
Letters == {<<"c3", "a9">>}     \* letters of two bytes
Halves  == UNION {{l[1], l[2]} : l \in Letters}

ASSUME SseParserAssumption ==
    {"event:", "data:", ":", "message", Newline, Bad} \subseteq Pieces

\* An event is [type, data]: a word, and the lines of the data, as words.
Encode(ev) ==
    <<"event:">> \o ev.type \o <<Newline>>
    \o FlattenSeq([i \in 1..Len(ev.data) |-> <<"data:">> \o ev.data[i] \o <<Newline>>])
    \o <<Newline>>

KeepAliveText == <<":", Newline, Newline>>

\* An event has at least one line of data; words are what a line can hold.
Words       == Seq(Pieces \ {Newline})
ReadEvents  == [type : Words, data : Seq(Words)]
IsEvent(ev) == ev \in ReadEvents /\ ev.data # <<>>

Parsers == [leftover : Words, type : Words, lines : Seq(Words), out : Seq(ReadEvents)]

-----------------------------------------------------------------------------

\* from_utf8_lossy of one chunk: what is no whole letter is replaced.
Lossy(chunk) ==
    [i \in 1..Len(chunk) |->
        IF \/ chunk[i] \notin Halves
           \/ i < Len(chunk) /\ <<chunk[i], chunk[i + 1]>> \in Letters
           \/ i > 1 /\ <<chunk[i - 1], chunk[i]>> \in Letters
        THEN chunk[i] ELSE Bad]

\* The parser's locals; out holds the handler's calls of one step.
Fresh == [leftover |-> <<>>, type |-> <<"message">>, lines |-> <<>>, out |-> <<>>]

\* Between two events.
AtRest(p) == p.leftover = <<>> /\ p.lines = <<>> /\ p.type = Fresh.type

\* An empty line dispatches an event that has data; a comment is ignored.
TakeLine(p, line) ==
    CASE line = <<>> /\ p.lines # <<>> ->
            [p EXCEPT !.out = Append(@, [type |-> p.type, data |-> p.lines]),
                      !.lines = <<>>, !.type = Fresh.type]
      [] line # <<>> /\ line[1] = "event:" -> [p EXCEPT !.type = Tail(line)]
      [] line # <<>> /\ line[1] = "data:"  -> [p EXCEPT !.lines = Append(@, Tail(line))]
      [] OTHER -> p

\* Mutant: the newline is not taken off.
TakePieceUntrimmed(p, x) ==
    IF x = Newline THEN TakeLine([p EXCEPT !.leftover = <<>>], Append(p.leftover, x))
                   ELSE [p EXCEPT !.leftover = Append(@, x)]

\* A newline ends the line; what comes before it is kept until then.
TakePiece(p, x) ==
    IF x = Newline THEN TakeLine([p EXCEPT !.leftover = <<>>], p.leftover)
                   ELSE [p EXCEPT !.leftover = Append(@, x)]

TakeText(p, text) ==
    LET after[n \in 0..Len(text)] ==
            IF n = 0 THEN p ELSE TakePiece(after[n - 1], text[n])
    IN after[Len(text)]

\* Mutant: what a chunk leaves of a line is forgotten.
TakeChunkAlone(p, chunk) ==
    TakeText([p EXCEPT !.leftover = <<>>, !.out = <<>>], Lossy(chunk))

TakeChunk(p, chunk) == TakeText([p EXCEPT !.out = <<>>], Lossy(chunk))

-----------------------------------------------------------------------------

\* Equal, or damaged where a letter of two bytes was.
SamePiece(x, y) == x = y \/ (x \in Halves /\ y = Bad)

SameWord(sent, got) ==
    Len(sent) = Len(got) /\ \A i \in 1..Len(sent) : SamePiece(sent[i], got[i])

SameLines(sent, got) ==
    Len(sent) = Len(got) /\ \A i \in 1..Len(sent) : SameWord(sent[i], got[i])

SameEvent(sent, got) ==
    SameWord(sent.type, got.type) /\ SameLines(sent.data, got.data)

SameEvents(sent, got) ==
    Len(sent) = Len(got) /\ \A i \in 1..Len(sent) : SameEvent(sent[i], got[i])
=============================================================================
