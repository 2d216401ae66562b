--------------------------- MODULE MCWfqScheduler ---------------------------
(* Small instances of WfqScheduler for TLC. *)
EXTENDS WfqScheduler

\* Half of WFQ_WEIGHTS, with one credit for the lowest level.
SmallWeights == [i \in Levels |-> <<4, 2, 1, 1>>[i + 1]]

\* WFQ_WEIGHTS.
RealWeights == [i \in Levels |-> <<8, 4, 2, 1>>[i + 1]]
=============================================================================
