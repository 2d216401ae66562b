-------------------------- MODULE MCConnectionLoop --------------------------
(* Small instances of ConnectionLoop for TLC. *)
EXTENDS ConnectionLoop, TLC

\* Nothing tells one endpoint from another.
Interchangeable == Permutations(Endpoints)

\* Duration's range, scaled down from 2^64 seconds.
DurationLimit == 2^5
Delays == INSTANCE Backoff

\* The default strategy, ExponentialBackoff(2s, 2.0, 30s): attempt 5 of the
\* scaled range stands for attempt 64 of the real one.
DefaultDelay(a) == Delays!ExponentialDelay(2, 2, 30, a)

\* A steeper one, ExponentialBackoff(8s, 2.0, 30s), which panics at attempt 3.
SteepDelay(a) == Delays!ExponentialDelay(8, 2, 30, a)

\* A strategy that never panics: LinearBackoff(2s, 3s, 10s) of the tests.
LinearTestDelay(a) == Delays!LinearDelay(2, 3, 10, a)

\* ConstantBackoff(5s).
ConstantTestDelay(a) == Delays!ConstantDelay(5, a)
=============================================================================
