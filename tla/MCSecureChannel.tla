--------------------------- MODULE MCSecureChannel ---------------------------
(* A small instance of SecureChannel for TLC: a chunk holds 4 bytes, 2 of them
   the length in the first chunk of a frame; the length wraps at 8; a frame has
   at most 6 bytes. *)
EXTENDS SecureChannel

\* A second chunk of one byte, shorter than a prefix; the largest frame, in two
\* full chunks; one byte more; and a frame too large for the prefix, which says 1.
FrameSizes == {3, 6, 7, 9}

\* The buffers towards the client hold one chunk; those towards the server
\* everything, so only the server ever waits for room.
OneSided == [client |-> 1, server |-> 6]
\* Both ends may wait for room at the same time.
BothSmall == [client |-> 1, server |-> 1]
=============================================================================
