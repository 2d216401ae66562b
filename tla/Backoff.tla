------------------------------ MODULE Backoff ------------------------------
(***************************************************************************)
(* The reconnection delays of src/ws/client/backoff.rs, in whole seconds.  *)
(* Duration holds less than 2^64 seconds.  Duration::from_secs_f64 and the *)
(* Duration arithmetic panic beyond it, before the cap is applied; the     *)
(* bound is a constant so that TLC can use a small one.                    *)
(***************************************************************************)
EXTENDS Naturals

CONSTANTS
    DurationLimit,  \* the first number of seconds a Duration cannot hold
    Panic           \* the outcome of a call that panics

Capped(secs, max) ==
    IF secs >= DurationLimit THEN Panic ELSE IF secs < max THEN secs ELSE max

\* The same delay always, before the very first connection too.
ConstantDelay(delay, attempt) == delay

LinearDelay(initial, step, max, attempt) ==
    IF attempt = 0 THEN 0 ELSE Capped(initial + step * (attempt - 1), max)

\* powi on f64 is exact for the integer multipliers considered here.
ExponentialDelay(initial, multiplier, max, attempt) ==
    IF attempt = 0 THEN 0 ELSE Capped(initial * multiplier^(attempt - 1), max)

=============================================================================
