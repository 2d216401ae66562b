----------------------------- MODULE MCHttpSse -----------------------------
(* Small instances of HttpSse for TLC. *)
EXTENDS HttpSse

\* An event of two lines, one a letter of two bytes and one empty, and an event
\* of one line.
TwoEvents == {[type |-> <<"alarm">>, data |-> << <<"c3", "a9">>, <<>> >>],
              [type |-> <<"state">>, data |-> << <<"on">> >>]}

StreamPieces == {"event:", "data:", ":", "message", Newline, Bad}
                \cup {"alarm", "state", "on"} \cup Halves
=============================================================================
