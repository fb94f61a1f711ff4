------------------------------ MODULE Breaker ------------------------------
(***************************************************************************)
(* One circuit breaker (core/src/upstream/circuit_breaker.rs) as a value,  *)
(* and the effect of each of its methods when nothing else touches it.     *)
(*                                                                         *)
(* A breaker is [state, failures, successes, since]; "since" is            *)
(* last_state_change_ms.  The lifetime totals, last_failure_time_ms and    *)
(* the gauges are read by no decision and are left out.                    *)
(***************************************************************************)
EXTENDS Integers

CONSTANTS FailureThreshold,  \* config.failure_threshold
          SuccessThreshold,  \* config.success_threshold
          Timeout,           \* config.timeout_duration, in clock units
          CountCap           \* bound: a counter stops growing here

(* The counters are only ever compared with the two thresholds, so a       *)
(* counter that stops at any cap above both behaves as the u32 does.       *)
ASSUME BreakerAssumption ==
    /\ FailureThreshold \in Nat \ {0}
    /\ SuccessThreshold \in Nat \ {0}
    /\ Timeout \in Nat
    /\ CountCap \in Nat
    /\ CountCap >= FailureThreshold
    /\ CountCap >= SuccessThreshold

States == {"closed", "open", "half_open"}

BreakerType ==
    [state : States, failures : 0..CountCap, successes : 0..CountCap, since : Nat]

Inc(n) == IF n < CountCap THEN n + 1 ELSE n

NewBreaker(now) ==
    [state |-> "closed", failures |-> 0, successes |-> 0, since |-> now]

\* now_ms().saturating_sub(last_change_ms) >= timeout_ms
Elapsed(now, since) == (IF now >= since THEN now - since ELSE 0) >= Timeout
----------------------------------------------------------------------------
\* transition_to(target): nothing happens when the breaker is there already.
TransitionTo(b, target, now) ==
    IF b.state = target THEN b
    ELSE [state     |-> target,
          failures  |-> IF target = "open" THEN b.failures ELSE 0,
          successes |-> 0,
          since     |-> now]

\* check_and_update_state_returning: an open breaker whose timeout is over
\* becomes half-open when somebody looks at it.
CheckAndUpdate(b, now) ==
    IF b.state = "open" /\ Elapsed(now, b.since)
    THEN TransitionTo(b, "half_open", now)
    ELSE b

CanExecute(b, now) == CheckAndUpdate(b, now).state # "open"

RecordSuccess(b, now) ==
    LET c == [b EXCEPT !.failures = 0, !.successes = Inc(@)]
    IN  IF c.state = "half_open" /\ c.successes >= SuccessThreshold
        THEN TransitionTo(c, "closed", now)
        ELSE c

RecordFailure(b, now) ==
    LET c == [b EXCEPT !.successes = 0, !.failures = Inc(@)]
    IN  IF \/ c.state = "closed" /\ c.failures >= FailureThreshold
           \/ c.state = "half_open"
        THEN TransitionTo(c, "open", now)
        ELSE c

RecordOutcome(b, success, now) ==
    IF success THEN RecordSuccess(b, now) ELSE RecordFailure(b, now)

Reset(b, now) ==
    [TransitionTo(b, "closed", now) EXCEPT !.failures = 0, !.successes = 0]

ForceOpen(b, now) == TransitionTo(b, "open", now)
=============================================================================
